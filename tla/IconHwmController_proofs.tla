----------------------- MODULE IconHwmController_proofs -----------------------
(***************************************************************************)
(* What the plugin's lifecycle keeps, for any clocks and module states.    *)
(***************************************************************************)
EXTENDS IconHwmController, TLAPS

(* The invariant *)

\* What there is at each step of on_configure(): what fails leaves exactly this.
BuiltSoFar ==
    /\ step \in ConfigureSteps => lifecycle = "unconfigured" /\ timer = "set"
    /\ step \in {"check", "create_clock"} => runtime = "none" /\ clock = NoClock
    /\ step = "create_runtime" => runtime = "none" /\ clock \in Clocks
    /\ step = "run" => runtime = "created"

\* What is left at each step of on_cleanup().
LeftOver ==
    /\ step \in CleanupSteps => lifecycle = "inactive" /\ timer = "null"
    /\ step \in {"stop", "drop_runtime"} => runtime # "none"
    /\ step = "drop_clock" => runtime = "none"

\* What is left at each step of the destructor, and after it.
Destroyed ==
    /\ step \in DestroySteps => lifecycle = "unloaded" /\ timer = "null"
    /\ step = "destroy_clock" => runtime = "none"
    /\ (step = "idle" /\ lifecycle = "unloaded")
            => runtime = "none" /\ clock = NoClock /\ timer = "null"

\* An error that was recorded keeps the plugin from being configured again, so
\* whoever still carries it does so for a plugin that does not work.
ErrorIsFinal ==
    /\ lifecycle \in {"unconfigured", "inactive", "active"} => initError = "none"
    /\ copy = "INIT_FAILED" => callback = "publish" /\ initError = "INIT_FAILED"
    /\ (published = "INIT_FAILED" /\ initError = "none")
            => lifecycle = "unloaded" \/ (lifecycle = "unconfigured" /\ step = "idle")

Inv ==
    /\ TypeOK
    /\ ClockOutlivesRuntime
    /\ CompleteOrClean
    /\ BuiltSoFar
    /\ LeftOver
    /\ Destroyed
    /\ ErrorIsFinal

-----------------------------------------------------------------------------
(* The steps *)

LEMMA InitInv == Init => Inv
BY DEF Init, Inv, TypeOK, ClockOutlivesRuntime, CompleteOrClean, BuiltSoFar, LeftOver,
       Destroyed, ErrorIsFinal, ConfigureSteps, CleanupSteps, DestroySteps

LEMMA ConfigureStepInv ==
    ASSUME Inv, Load \/ ConfigureStep
    PROVE  Inv'
<1> USE NoClockAssumption
    DEF Inv, TypeOK, ClockOutlivesRuntime, CompleteOrClean, BuiltSoFar, LeftOver,
        Destroyed, ErrorIsFinal, ConfigureSteps, CleanupSteps, DestroySteps, Goto, buildVars, timerVars
<1>1. CASE Load
  BY <1>1 DEF Load
<1>2. CASE BeginConfigure \/ ChecksPass
  BY <1>2 DEF BeginConfigure, ChecksPass
<1>3. CASE ConfigureFails
  BY <1>3 DEF ConfigureFails
<1>4. CASE CreateClock \/ CreateRuntime
  BY <1>4 DEF CreateClock, CreateRuntime
<1>5. CASE Run
  BY <1>5 DEF Run
<1>6. QED  BY <1>1, <1>2, <1>3, <1>4, <1>5 DEF ConfigureStep

LEMMA CleanupStepInv ==
    ASSUME Inv, Activate \/ Deactivate \/ CleanupStep
    PROVE  Inv'
<1> USE NoClockAssumption
    DEF Inv, TypeOK, ClockOutlivesRuntime, CompleteOrClean, BuiltSoFar, LeftOver,
        Destroyed, ErrorIsFinal, ConfigureSteps, CleanupSteps, DestroySteps, Goto, buildVars, timerVars
<1>1. CASE Activate \/ Deactivate
  BY <1>1 DEF Activate, Deactivate
<1>2. CASE BeginCleanup
  BY <1>2 DEF BeginCleanup
<1>3. CASE Stop \/ StopFails
  BY <1>3 DEF Stop, StopFails
<1>4. CASE DropRuntime \/ DropClock
  BY <1>4 DEF DropRuntime, DropClock
<1>5. QED  BY <1>1, <1>2, <1>3, <1>4 DEF CleanupStep

LEMMA UnloadStepInv ==
    ASSUME Inv, UnloadStep
    PROVE  Inv'
<1> USE DEF Inv, TypeOK, ClockOutlivesRuntime, CompleteOrClean, BuiltSoFar, LeftOver,
            Destroyed, ErrorIsFinal, ConfigureSteps, CleanupSteps, DestroySteps, Goto, buildVars, timerVars
<1>1. CASE Unload
  BY <1>1 DEF Unload
<1>2. CASE DestroyRuntime \/ DestroyClock
  BY <1>2 DEF DestroyRuntime, DestroyClock
<1>3. QED  BY <1>1, <1>2 DEF UnloadStep

\* Runtime and timer run beside every step of the lifecycle and change nothing
\* that it relies on.
LEMMA BackgroundInv ==
    ASSUME Inv, HwmStateChanges \/ TimerStep \/ UNCHANGED vars
    PROVE  Inv'
<1>1. UNCHANGED <<lifecycle, step, clock, runtime, runtimeClock, initError, timer>>
  BY DEF HwmStateChanges, TimerStep, TimerFires, ReadInitError, ReadRuntimeState, Publish,
         publisherUnchanged, buildVars, timerVars, vars
<1>2. TypeOK'
  <2> USE DEF Inv, TypeOK, Messages
  <2>1. CASE HwmStateChanges \/ UNCHANGED vars
    BY <2>1 DEF HwmStateChanges, vars, buildVars, timerVars
  <2>2. CASE TimerStep
    BY <2>2 DEF TimerStep, TimerFires, ReadInitError, ReadRuntimeState, Publish,
                publisherUnchanged, buildVars
  <2>3. QED  BY <2>1, <2>2
<1>3. ErrorIsFinal'
  <2> USE StatesAssumption DEF Inv, TypeOK, ErrorIsFinal
  <2>1. CASE HwmStateChanges \/ UNCHANGED vars
    BY <2>1 DEF HwmStateChanges, vars, buildVars, timerVars
  <2>2. CASE TimerFires \/ ReadInitError
    BY <2>2 DEF TimerFires, ReadInitError, publisherUnchanged, buildVars
  <2>3. CASE ReadRuntimeState \/ Publish
    BY <2>3 DEF ReadRuntimeState, Publish, publisherUnchanged, buildVars
  <2>4. QED  BY <2>1, <2>2, <2>3 DEF TimerStep
<1>4. QED
  BY <1>1, <1>2, <1>3 DEF Inv, ClockOutlivesRuntime, CompleteOrClean, BuiltSoFar, LeftOver,
                          Destroyed

LEMMA Invariance == Spec => []Inv
<1>1. Inv /\ [Next]_vars => Inv'
  BY ConfigureStepInv, CleanupStepInv, UnloadStepInv, BackgroundInv DEF Next
<1>2. QED  BY InitInv, <1>1, PTL DEF Spec

-----------------------------------------------------------------------------
(* The theorems *)

\* Type correctness.
THEOREM TypeCorrect == Spec => []TypeOK
<1>1. Inv => TypeOK  BY DEF Inv
<1>2. QED  BY Invariance, <1>1, PTL

\* The runtime's raw pointer is to the clock the plugin holds, whichever step of
\* on_configure() or on_cleanup() fails, and while the plugin is destroyed.
THEOREM PointerIsValid == Spec => []ClockOutlivesRuntime
<1>1. Inv => ClockOutlivesRuntime  BY DEF Inv
<1>2. QED  BY Invariance, <1>1, PTL

\* Between two transitions the plugin is complete, or empty, or finalized.
THEOREM NothingHalfBuilt == Spec => []CompleteOrClean
<1>1. Inv => CompleteOrClean  BY DEF Inv
<1>2. QED  BY Invariance, <1>1, PTL

\* Nobody reads of a configured plugin that its initialization failed.
THEOREM WorkingIsNotFailed == Spec => []WorkingIsNotCalledFailed
<1>1. Inv => WorkingIsNotCalledFailed
  BY DEF Inv, ErrorIsFinal, WorkingIsNotCalledFailed
<1>2. QED  BY Invariance, <1>1, PTL

=============================================================================
