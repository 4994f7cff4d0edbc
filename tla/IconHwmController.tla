------------------------- MODULE IconHwmController -------------------------
(***************************************************************************)
(* The lifecycle of the plugin: on_configure() builds clock and runtime    *)
(* step by step and may fail at each, on_cleanup() takes them down, and the *)
(* destructor does when the plugin is unloaded.  Meanwhile the wall timer  *)
(* publishes the state of the runtime, or the error that kept it from      *)
(* being made, on a thread of its own.                                     *)
(*                                                                         *)
(* External: the controller_manager, which asks for transitions one at a   *)
(* time and finalizes a plugin whose callback returned ERROR, and the      *)
(* runtime, whose state changes by itself.                                 *)
(***************************************************************************)
CONSTANTS
    Clocks,         \* instances of RealtimeClock
    NoClock,        \* nullptr
    HwmStates       \* states a runtime reports

ASSUME NoClockAssumption == NoClock \notin Clocks
ASSUME StatesAssumption == {"INIT_FAILED", "none"} \cap HwmStates = {}

VARIABLES
    lifecycle,      \* the node's lifecycle state
    step,           \* what its callback, or the destructor, does next
    clock,          \* clock_
    runtime,        \* hwm_runtime_: "none", "created", "running" or "stopped"
    runtimeClock,   \* the raw pointer to a clock that the runtime holds
    hwm,            \* the state the runtime reports
    initError,      \* init_error_state_, "none" or "INIT_FAILED"
    timer,          \* publish_hwm_state_timer_, "set" or "null"
    callback,       \* what PublishCurrentHwmState() does next
    copy,           \* the message it is about to publish
    published       \* the last message of hwm_state_publisher_

buildVars == <<clock, runtime, runtimeClock>>
timerVars == <<callback, copy, published>>
vars == <<lifecycle, step, buildVars, hwm, initError, timer, timerVars>>

ConfigureSteps == {"check", "create_clock", "create_runtime", "run"}
CleanupSteps == {"stop", "drop_runtime", "drop_clock"}
DestroySteps == {"destroy_runtime", "destroy_clock"}
Messages == HwmStates \cup {"INIT_FAILED"}

TypeOK ==
    /\ lifecycle \in {"unloaded", "unconfigured", "inactive", "active", "finalized"}
    /\ step \in {"idle"} \cup ConfigureSteps \cup CleanupSteps \cup DestroySteps
    /\ clock \in Clocks \cup {NoClock}
    /\ runtime \in {"none", "created", "running", "stopped"}
    /\ runtimeClock \in Clocks \cup {NoClock}
    /\ hwm \in HwmStates
    /\ initError \in {"none", "INIT_FAILED"}
    /\ timer \in {"set", "null"}
    /\ callback \in {"idle", "read_error", "read_runtime", "publish"}
    /\ copy \in Messages \cup {"none"}
    /\ published \in Messages \cup {"none"}

Init ==
    /\ lifecycle = "unloaded"
    /\ step = "idle"
    /\ clock = NoClock /\ runtime = "none" /\ runtimeClock = NoClock
    /\ hwm \in HwmStates
    /\ initError = "none"
    /\ timer = "null"
    /\ callback = "idle" /\ copy = "none" /\ published = "none"

Goto(from, to) == step = from /\ step' = to

-----------------------------------------------------------------------------
(* on_init() and on_configure() *)

Load ==
    /\ lifecycle = "unloaded" /\ step = "idle" /\ callback = "idle"
    /\ lifecycle' = "unconfigured"
    /\ initError' = "none"
    /\ UNCHANGED <<step, buildVars, hwm, timer, timerVars>>

\* Mutant of BeginConfigure: the timer is left to the end of on_configure().
BeginConfigureWithoutTimer ==
    /\ lifecycle = "unconfigured" /\ Goto("idle", "check")
    /\ initError' = "none"
    /\ published' = "none"
    /\ UNCHANGED <<lifecycle, buildVars, hwm, timer, callback, copy>>

\* The error is cleared, publisher and timer are new.
BeginConfigure ==
    /\ lifecycle = "unconfigured" /\ Goto("idle", "check")
    /\ initError' = "none"
    /\ published' = "none"
    /\ timer' = "set"
    /\ UNCHANGED <<lifecycle, buildVars, hwm, callback, copy>>

\* Mutant of ConfigureFails: the code of the recorded error is not set.
ConfigureFailsUnset ==
    /\ step \in ConfigureSteps /\ step' = "idle"
    /\ lifecycle' = "finalized"
    /\ initError' = "unset"
    /\ UNCHANGED <<buildVars, hwm, timer, timerVars>>

\* Mutant of ConfigureFails: FAILURE is returned, and the plugin may try again.
ConfigureFailsForNow ==
    /\ step \in ConfigureSteps /\ step' = "idle"
    /\ lifecycle' = "unconfigured"
    /\ initError' = "INIT_FAILED"
    /\ UNCHANGED <<buildVars, hwm, timer, timerVars>>

\* log_and_save_init_error(), then ERROR.  What was built stays.
ConfigureFails ==
    /\ step \in ConfigureSteps /\ step' = "idle"
    /\ lifecycle' = "finalized"
    /\ initError' = "INIT_FAILED"
    /\ UNCHANGED <<buildVars, hwm, timer, timerVars>>

\* The parameters are complete, and there is a SharedMemoryManager.
ChecksPass ==
    /\ Goto("check", "create_clock")
    /\ UNCHANGED <<lifecycle, buildVars, hwm, initError, timer, timerVars>>

CreateClock ==
    /\ Goto("create_clock", "create_runtime")
    /\ clock' \in Clocks \ {clock, runtimeClock}
    /\ UNCHANGED <<lifecycle, runtime, runtimeClock, hwm, initError, timer, timerVars>>

CreateRuntime ==
    /\ Goto("create_runtime", "run")
    /\ runtime' = "created"
    /\ runtimeClock' = clock
    /\ hwm' \in HwmStates
    /\ UNCHANGED <<lifecycle, clock, initError, timer, timerVars>>

\* Mutant of Run: its result is ignored.
RunUnchecked ==
    /\ Goto("run", "idle")
    /\ lifecycle' = "inactive"
    /\ runtime' \in {"created", "running"}
    /\ UNCHANGED <<clock, runtimeClock, hwm, initError, timer, timerVars>>

Run ==
    /\ Goto("run", "idle")
    /\ lifecycle' = "inactive"
    /\ runtime' = "running"
    /\ UNCHANGED <<clock, runtimeClock, hwm, initError, timer, timerVars>>

-----------------------------------------------------------------------------
(* The transitions of a configured plugin *)

Activate ==
    /\ lifecycle = "inactive" /\ step = "idle"
    /\ lifecycle' = "active"
    /\ UNCHANGED <<step, buildVars, hwm, initError, timer, timerVars>>

Deactivate ==
    /\ lifecycle = "active" /\ step = "idle"
    /\ lifecycle' = "inactive"
    /\ UNCHANGED <<step, buildVars, hwm, initError, timer, timerVars>>

\* cancel() and reset of the timer do not wait for its callback.
BeginCleanup ==
    /\ lifecycle = "inactive"
    /\ Goto("idle", IF runtime = "none" THEN "drop_clock" ELSE "stop")
    /\ timer' = "null"
    /\ UNCHANGED <<lifecycle, buildVars, hwm, initError, timerVars>>

Stop ==
    /\ Goto("stop", "drop_runtime")
    /\ runtime' = "stopped"
    /\ UNCHANGED <<lifecycle, clock, runtimeClock, hwm, initError, timer, timerVars>>

\* Mutant of StopFails: the clock goes although the runtime stays.
StopFailsWithoutReturn ==
    /\ Goto("stop", "idle")
    /\ lifecycle' = "unconfigured"
    /\ clock' = NoClock
    /\ UNCHANGED <<runtime, runtimeClock, hwm, initError, timer, timerVars>>

StopFails ==
    /\ Goto("stop", "idle")
    /\ lifecycle' = "finalized"
    /\ UNCHANGED <<buildVars, hwm, initError, timer, timerVars>>

DropRuntime ==
    /\ Goto("drop_runtime", "drop_clock")
    /\ runtime' = "none" /\ runtimeClock' = NoClock
    /\ UNCHANGED <<lifecycle, clock, hwm, initError, timer, timerVars>>

DropClock ==
    /\ Goto("drop_clock", "idle")
    /\ clock' = NoClock
    /\ lifecycle' = "unconfigured"
    /\ UNCHANGED <<runtime, runtimeClock, hwm, initError, timer, timerVars>>

\* Members are destroyed in the reverse order of their declarations: timer,
\* runtime, clock.
Unload ==
    /\ lifecycle \in {"unconfigured", "inactive", "finalized"}
    /\ Goto("idle", "destroy_runtime")
    /\ lifecycle' = "unloaded"
    /\ timer' = "null"
    /\ UNCHANGED <<buildVars, hwm, initError, timerVars>>

DestroyRuntime ==
    /\ Goto("destroy_runtime", "destroy_clock")
    /\ runtime' = "none" /\ runtimeClock' = NoClock
    /\ UNCHANGED <<lifecycle, clock, hwm, initError, timer, timerVars>>

DestroyClock ==
    /\ Goto("destroy_clock", "idle")
    /\ clock' = NoClock
    /\ UNCHANGED <<lifecycle, runtime, runtimeClock, hwm, initError, timer, timerVars>>

\* The runtime, on its own threads.
HwmStateChanges ==
    /\ runtime = "running"
    /\ hwm' \in HwmStates \ {hwm}
    /\ UNCHANGED <<lifecycle, step, buildVars, initError, timer, timerVars>>

-----------------------------------------------------------------------------
(* PublishCurrentHwmState(), on the timer's thread *)

publisherUnchanged ==
    UNCHANGED <<lifecycle, step, buildVars, hwm, initError, timer>>

\* Mutant of TimerFires: it does so once.
TimerFiresOnce ==
    /\ timer = "set" /\ callback = "idle" /\ published = "none"
    /\ callback' = IF runtime = "none" THEN "read_error" ELSE "read_runtime"
    /\ UNCHANGED <<copy, published>> /\ publisherUnchanged

TimerFires ==
    /\ timer = "set" /\ callback = "idle"
    /\ callback' = IF runtime = "none" THEN "read_error" ELSE "read_runtime"
    /\ UNCHANGED <<copy, published>> /\ publisherUnchanged

ReadInitError ==
    /\ callback = "read_error"
    /\ callback' = IF initError = "none" THEN "idle" ELSE "publish"
    /\ copy' = initError
    /\ UNCHANGED published /\ publisherUnchanged

\* A runtime that does not run may have no state to report, and one that is
\* gone is read all the same, with any result.
ReadRuntimeState ==
    /\ callback = "read_runtime"
    /\ \/ /\ callback' = "publish"
          /\ copy' \in IF runtime = "none" THEN HwmStates ELSE {hwm}
       \/ /\ runtime # "running"
          /\ callback' = "idle" /\ copy' = "none"
    /\ UNCHANGED published /\ publisherUnchanged

Publish ==
    /\ callback = "publish"
    /\ callback' = "idle" /\ copy' = "none"
    /\ published' = copy
    /\ publisherUnchanged

ConfigureStep ==
    BeginConfigure \/ ConfigureFails \/ ChecksPass \/ CreateClock \/ CreateRuntime \/ Run
CleanupStep == BeginCleanup \/ Stop \/ StopFails \/ DropRuntime \/ DropClock
UnloadStep == Unload \/ DestroyRuntime \/ DestroyClock
TimerStep == TimerFires \/ ReadInitError \/ ReadRuntimeState \/ Publish
Next ==
    \/ Load \/ ConfigureStep \/ Activate \/ Deactivate \/ CleanupStep \/ UnloadStep
    \/ HwmStateChanges \/ TimerStep

Spec == Init /\ [][Next]_vars

\* The timer fires every second, and a callback that has begun ends.
FairSpec == Spec /\ WF_vars(TimerStep)

-----------------------------------------------------------------------------
(* Properties *)

\* The header: "hwm_runtime_ holds raw pointers to clock_ [...], so clock_ [...]
\* must outlive hwm_runtime_", wherever on_configure() or on_cleanup() fails, and
\* in the destructor.
ClockOutlivesRuntime ==
    runtime # "none" => runtimeClock = clock /\ clock # NoClock

\* A plugin that ICON can use is complete, and one that can be configured again
\* has nothing left that on_configure() would overwrite.
CompleteOrClean ==
    step = "idle" =>
        /\ lifecycle \in {"inactive", "active"} => runtime = "running" /\ timer = "set"
        /\ lifecycle = "unconfigured" => runtime = "none" /\ clock = NoClock /\ timer = "null"

\* The topic does not say INIT_FAILED of a plugin that was configured, although the
\* timer's callback asks for the runtime, reads the recorded error and publishes it
\* in three steps, with on_configure() creating the runtime, clearing the error and
\* renewing the publisher in between.
WorkingIsNotCalledFailed ==
    lifecycle \in {"inactive", "active"} =>
        copy # "INIT_FAILED" /\ published # "INIT_FAILED"

\* An on_configure() that failed before there was a runtime is heard of on the
\* topic, until the plugin is unloaded.
InitFailureIsPublished ==
    (initError = "INIT_FAILED" /\ runtime = "none")
        ~> (published = "INIT_FAILED" \/ lifecycle = "unloaded")

\* The topic catches up with a state that lasts.
LastingStateIsPublished ==
    \A s \in HwmStates :
        <>[](lifecycle \in {"inactive", "active"} /\ step = "idle" /\ hwm = s)
            => <>[](published = s)

\* icon_hwm_controller.cpp:350, before on_cleanup() destroys the runtime: "Stop the
\* state publisher timer".  From then on PublishCurrentHwmState() uses no runtime,
\* or at least none that is gone.
TimerIsStopped ==
    (lifecycle = "inactive" /\ callback = "read_runtime") => runtime # "none"

=============================================================================
