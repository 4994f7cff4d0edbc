---------------------------- MODULE Ros2HwmImpl ----------------------------
(***************************************************************************)
(* Ros2HwmImpl, the hardware module that the controller plugin runs for    *)
(* ICON: the handlers of HardwareModuleInterface, the three ROS services   *)
(* they call one after the other, and the OperationalStatus box that the   *)
(* subscription fills and the realtime thread polls.                       *)
(*                                                                         *)
(* A handler is a chain of calls.  `call` is the call the handler is in,   *)
(* `sent` says that its request is out and `reply` is the answer on its    *)
(* way to the waiting future.  A handler gives up on an answer after 5 s,  *)
(* but nothing withdraws the request: it stays in the service's queue and  *)
(* is executed late.                                                       *)
(*                                                                         *)
(* External, modelled from how this code uses them: the runtime that calls *)
(* the handlers (`hwm` is the state it reports), the controller_manager    *)
(* (`hwActive`, `active`) and the vendor node behind the two topics.       *)
(***************************************************************************)
EXTENDS Integers, Sequences, OperationalStatus

CONSTANTS
    Controllers,            \* the controllers the controller_manager knows
    Icon,                   \* the controller plugin this module belongs to
    ToActivate,             \* parameter controllers_to_activate
    ToDeactivate,           \* parameter controllers_to_deactivate
    HasHardwareComponent,   \* hardware_component_name is not empty
    HasClearFaultsService,  \* clear_faults_service is not empty
    TopicStatuses,          \* what the status topic carries; {}: no topic
    MaxQueue,               \* bound on the requests waiting at one service
    TopicDepth              \* history depth of the subscription (10 in the code)

ASSUME ControllersAssumption ==
    /\ Icon \in ToActivate
    /\ ToActivate \subseteq Controllers
    /\ ToDeactivate \subseteq Controllers
ASSUME ParametersAssumption ==
    /\ HasHardwareComponent \in BOOLEAN
    /\ HasClearFaultsService \in BOOLEAN
    /\ TopicStatuses \subseteq Statuses
ASSUME BoundsAssumption ==
    /\ MaxQueue \in Nat \ {0}
    /\ TopicDepth \in Nat \ {0}

VARIABLES
    hwm,            \* the state the runtime reports for this module
    call,           \* the call the running handler is in, "none" when none runs
    sent,           \* its request is out (GetStatus: the box is being copied)
    reply,          \* the answer on its way to the handler
    queue,          \* per service, the requests not executed yet
    hwActive,       \* the hardware component is in the lifecycle state ACTIVE
    active,         \* the active controllers
    box,            \* latest_operational_status_
    setting,        \* the message the subscription is storing, with the box locked
    topic           \* the status messages in the subscription's history

handlerVars == <<hwm, call, sent, reply>>
managerVars == <<hwActive, active>>
statusVars == <<box, setting, topic>>
vars == <<hwm, call, sent, reply, queue, hwActive, active,
          box, setting, topic>>

\* The controllers that only this module's Prepare() and ClearFaults() start.
Managed == ToActivate \ ToDeactivate

-----------------------------------------------------------------------------
(* Calls, services and module states *)

ServiceOf == [TriggerClearFaults |-> "clear_faults",
              ActivateHardware |-> "set_hw_state",
              DeactivateHardware |-> "set_hw_state",
              SwitchOn |-> "switch_controller",
              SwitchOff |-> "switch_controller"]
Requests == {"TriggerClearFaults", "ActivateHardware", "DeactivateHardware",
             "SwitchOn", "SwitchOff"}
Services == {"clear_faults", "set_hw_state", "switch_controller"}
Calls == Requests \cup {"none", "ResetClock", "GetStatus"}

\* What the runtime reports while a handler runs, and once it returned OK.
AfterOk == [PREPARING |-> "PREPARED",
            CLEARING_FAULTS |-> "ACTIVATED",
            MOTION_ENABLING |-> "MOTION_ENABLED",
            MOTION_DISABLING |-> "ACTIVATED",
            SHUTTING_DOWN |-> "SHUT_DOWN"]
Busy == {"PREPARING", "CLEARING_FAULTS", "MOTION_ENABLING",
         "MOTION_DISABLING", "SHUTTING_DOWN"}
\* The states in which ICON may rely on the robot being set up.
Ready == {"PREPARED", "ACTIVATED", "MOTION_ENABLED",
          "MOTION_ENABLING", "MOTION_DISABLING"}
\* The states in which the runtime has ApplyCommand() called in every cycle.
Commanding == {"MOTION_ENABLED", "MOTION_DISABLING"}
Idle == {"DEACTIVATED", "PREPARED", "ACTIVATED", "MOTION_ENABLED", "FAULTED"}
States == Idle \cup Busy \cup {"SHUT_DOWN", "SHUTDOWN_FAILED"}

TypeOK ==
    /\ hwm \in States
    /\ call \in Calls
    /\ sent \in BOOLEAN
    /\ reply \in {"none", "ok", "fail"}
    /\ queue \in [Services -> Seq(Requests)]
    /\ hwActive \in BOOLEAN
    /\ active \subseteq Controllers
    /\ box \in Statuses
    /\ setting \in TopicStatuses \cup {NoMessage}
    /\ topic \in Seq(TopicStatuses)

\* Create() puts UNKNOWN in the box.  Other controllers may run already.
Init ==
    /\ hwm = "DEACTIVATED"
    /\ call = "none"
    /\ sent = FALSE
    /\ reply = "none"
    /\ queue = [s \in Services |-> <<>>]
    /\ hwActive \in BOOLEAN
    /\ active \in SUBSET (Controllers \ {Icon})
    /\ box = "UNKNOWN"
    /\ setting = NoMessage
    /\ topic = <<>>

-----------------------------------------------------------------------------
(* The chain of calls of a handler *)

\* Prepare() and ClearFaults() end alike: the hardware, then the controllers.
FirstActivation ==
    IF HasHardwareComponent THEN "ActivateHardware" ELSE "SwitchOn"

\* Mutant of NextCall: Shutdown() deactivates the hardware before the controllers.
NextCallHardwareFirst(c) ==
    [ResetClock |-> IF hwm = "PREPARING" THEN FirstActivation
                    ELSE IF HasHardwareComponent THEN "DeactivateHardware" ELSE "SwitchOff",
     TriggerClearFaults |-> FirstActivation,
     ActivateHardware |-> "SwitchOn",
     SwitchOn |-> "none",
     SwitchOff |-> "none",
     DeactivateHardware |-> "SwitchOff",
     GetStatus |-> "none"][c]

\* The call that follows c when c returned OK; "none" ends the handler.
NextCall(c) ==
    [ResetClock |-> IF hwm = "PREPARING" THEN FirstActivation ELSE "SwitchOff",
     TriggerClearFaults |-> FirstActivation,
     ActivateHardware |-> "SwitchOn",
     SwitchOn |-> "none",
     SwitchOff |-> IF HasHardwareComponent THEN "DeactivateHardware" ELSE "none",
     DeactivateHardware |-> "none",
     GetStatus |-> "none"][c]

\* The runtime's state when a handler returned an error.  A realtime error may
\* have faulted the module while EnableMotion() or DisableMotion() ran.
AfterError(h) == IF h = "SHUTTING_DOWN" THEN "SHUTDOWN_FAILED" ELSE "FAULTED"

BeginHandler(busy, first) ==
    /\ call = "none"
    /\ hwm' = busy
    /\ call' = first
    /\ sent' = FALSE
    /\ reply' = "none"

\* The call returned OK and the handler makes its next one.
Continue ==
    /\ NextCall(call) # "none"
    /\ call' = NextCall(call)
    /\ sent' = FALSE
    /\ reply' = "none"
    /\ UNCHANGED hwm

EndHandler(after) ==
    /\ call' = "none"
    /\ sent' = FALSE
    /\ reply' = "none"
    /\ hwm' = IF hwm \in Busy THEN after ELSE hwm

ReturnOk == NextCall(call) = "none" /\ EndHandler(AfterOk[hwm])
ReturnError == EndHandler(AfterError(hwm))

CallSucceeds == Continue \/ ReturnOk

-----------------------------------------------------------------------------
(* The handlers the runtime calls from its own thread *)

Prepare ==
    /\ hwm = "DEACTIVATED"
    /\ BeginHandler("PREPARING", "ResetClock")
    /\ UNCHANGED <<queue, managerVars, statusVars>>

ClearFaults ==
    /\ hwm = "FAULTED"
    /\ BeginHandler("CLEARING_FAULTS",
                    IF HasClearFaultsService THEN "TriggerClearFaults"
                    ELSE FirstActivation)
    /\ UNCHANGED <<queue, managerVars, statusVars>>

EnableMotion ==
    /\ hwm = "ACTIVATED"
    /\ BeginHandler("MOTION_ENABLING", "GetStatus")
    /\ UNCHANGED <<queue, managerVars, statusVars>>

DisableMotion ==
    /\ hwm = "MOTION_ENABLED"
    /\ BeginHandler("MOTION_DISABLING", "GetStatus")
    /\ UNCHANGED <<queue, managerVars, statusVars>>

Shutdown ==
    /\ hwm \in Idle
    /\ BeginHandler("SHUTTING_DOWN", "ResetClock")
    /\ UNCHANGED <<queue, managerVars, statusVars>>

\* Activate() and Deactivate() are no-ops on the realtime thread: only the
\* state the runtime reports changes.
Activate ==
    /\ hwm = "PREPARED"
    /\ Icon \in active
    /\ hwm' = "ACTIVATED"
    /\ UNCHANGED <<call, sent, reply, queue, managerVars, statusVars>>

Deactivate ==
    /\ hwm \in {"PREPARED", "ACTIVATED", "FAULTED"}
    /\ call = "none"
    /\ Icon \in active
    /\ hwm' = "DEACTIVATED"
    /\ UNCHANGED <<call, sent, reply, queue, managerVars, statusVars>>

-----------------------------------------------------------------------------
(* The steps of a running handler *)

ResetClock ==
    /\ call = "ResetClock"
    /\ CallSucceeds \/ ReturnError
    /\ UNCHANGED <<queue, managerVars, statusVars>>

\* wait_for_service() found the service and async_send_request() sent.
SendRequest ==
    /\ call \in Requests
    /\ ~sent
    /\ Len(queue[ServiceOf[call]]) < MaxQueue
    /\ sent' = TRUE
    /\ queue' = [queue EXCEPT ![ServiceOf[call]] = Append(@, call)]
    /\ UNCHANGED <<hwm, call, reply, managerVars, statusVars>>

\* wait_for_service() saw no service within its second.
ServiceUnavailable ==
    /\ call \in Requests
    /\ ~sent
    /\ ReturnError
    /\ UNCHANGED <<queue, managerVars, statusVars>>

\* Mutant of ReceiveReply: the response's ok field is not looked at.
ReceiveAnyReply ==
    /\ call \in Requests
    /\ reply # "none" /\ CallSucceeds
    /\ UNCHANGED <<queue, managerVars, statusVars>>

\* The future became ready in time.
ReceiveReply ==
    /\ call \in Requests
    /\ \/ reply = "ok" /\ CallSucceeds
       \/ reply = "fail" /\ ReturnError
    /\ UNCHANGED <<queue, managerVars, statusVars>>

\* Mutant of RequestTimesOut: a missing answer is taken for an OK.
RequestTimeoutIgnored ==
    /\ call \in Requests
    /\ sent
    /\ CallSucceeds
    /\ UNCHANGED <<queue, managerVars, statusVars>>

\* Mutant of RequestTimesOut: the future is waited for without a timeout.
RequestWaitsForever ==
    /\ call \in Requests
    /\ sent /\ reply # "none"
    /\ ReturnError
    /\ UNCHANGED <<queue, managerVars, statusVars>>

\* The 5 s are over: the handler fails whether or not an answer is on its way,
\* and what it asked for stays in the queue.
RequestTimesOut ==
    /\ call \in Requests
    /\ sent
    /\ ReturnError
    /\ UNCHANGED <<queue, managerVars, statusVars>>

\* latest_operational_status_.get() waits for the lock and copies under it.
CopyingStatus == call = "GetStatus" /\ sent /\ reply = "none"

LockStatus ==
    /\ call = "GetStatus"
    /\ ~sent
    /\ setting = NoMessage
    /\ sent' = TRUE
    /\ UNCHANGED <<hwm, call, reply, queue, managerVars, statusVars>>

CopyStatus ==
    /\ CopyingStatus
    /\ reply' = IF box \in HandlerBlocking THEN "fail" ELSE "ok"
    /\ UNCHANGED <<hwm, call, sent, queue, managerVars, statusVars>>

CheckStatus ==
    /\ call = "GetStatus"
    /\ \/ reply = "ok" /\ CallSucceeds
       \/ reply = "fail" /\ ReturnError
    /\ UNCHANGED <<queue, managerVars, statusVars>>

-----------------------------------------------------------------------------
(* The services: each executes its queue in order, late requests included *)

\* The one request whose answer a handler still waits for is the last one.
Awaited(s) ==
    /\ call \in Requests /\ ServiceOf[call] = s
    /\ sent /\ reply = "none"
    /\ Len(queue[s]) = 1

Answer(s, ok) ==
    /\ queue' = [queue EXCEPT ![s] = Tail(@)]
    /\ reply' = IF Awaited(s) THEN (IF ok THEN "ok" ELSE "fail") ELSE reply
    /\ UNCHANGED <<hwm, call, sent, statusVars>>

\* The vendor node's clear_faults; what it does is modelled with the nodes.
ServeClearFaults ==
    /\ queue["clear_faults"] # <<>>
    /\ \E ok \in BOOLEAN : Answer("clear_faults", ok)
    /\ UNCHANGED managerVars

\* The vendor node's process ends and with it what it has been asked; an answer
\* it has sent still arrives.
VendorNodeDies ==
    /\ queue' = [queue EXCEPT !["clear_faults"] = <<>>]
    /\ UNCHANGED <<handlerVars, managerVars, statusVars>>

ServeSetHwState ==
    /\ queue["set_hw_state"] # <<>>
    /\ \/ /\ Answer("set_hw_state", TRUE)
          /\ hwActive' = (Head(queue["set_hw_state"]) = "ActivateHardware")
       \/ /\ Answer("set_hw_state", FALSE)
          /\ UNCHANGED hwActive
    /\ UNCHANGED active

\* BEST_EFFORT: an OK says that what had to stop has stopped, and promises
\* nothing about which controllers started.
Switch(activate, deactivate) ==
    \E started \in SUBSET activate, stopped \in SUBSET deactivate, ok \in BOOLEAN :
        /\ ok => stopped = deactivate
        /\ active' = (active \ stopped) \cup started
        /\ Answer("switch_controller", ok)

ServeSwitchController ==
    /\ queue["switch_controller"] # <<>>
    /\ IF Head(queue["switch_controller"]) = "SwitchOn"
       THEN Switch(ToActivate, ToDeactivate)
       ELSE Switch(ToDeactivate, ToActivate)
    /\ UNCHANGED hwActive

\* A hardware read() or write() fails: the component leaves ACTIVE, and with it
\* the controllers that hold its interfaces.
HardwareError ==
    /\ hwActive
    /\ hwActive' = FALSE
    /\ \E others \in SUBSET active : active' = active \ (others \cup {Icon})
    /\ UNCHANGED <<handlerVars, queue, statusVars>>

-----------------------------------------------------------------------------
(* The realtime thread *)

RealtimeError ==
    /\ hwm' = "FAULTED"
    /\ UNCHANGED <<call, sent, reply, queue, managerVars, statusVars>>

ReadStatusFails ==
    /\ hwm \in Ready \ {"PREPARED"}
    /\ RealtimeError

\* The plugin is inactive, no update() ticks the clock and the cycle is missed.
CycleTimesOut ==
    /\ hwm \in Ready \ {"PREPARED"}
    /\ Icon \notin active
    /\ RealtimeError

\* try_get() fails, without waiting, exactly while someone holds the lock.
Locked == setting # NoMessage \/ CopyingStatus

\* Mutant of StatusCheckPasses: the switch has no case DISABLED.
StatusCheckPassesDisabled == Locked \/ box # "FAULTED"

StatusCheckPasses == Locked \/ box \notin CommandBlocking

ApplyCommandRejected ==
    /\ hwm \in Commanding
    /\ Icon \in active
    /\ ~StatusCheckPasses
    /\ RealtimeError

ApplyCommandWrites ==
    /\ hwm \in Commanding
    /\ Icon \in active
    /\ StatusCheckPasses
    /\ UNCHANGED vars

\* No command this cycle, a size mismatch, no interfaces, or a set_value() that
\* fails: in the last case joints before the failing one have been commanded.
ApplyCommandFails ==
    /\ hwm \in Commanding
    /\ Icon \in active
    /\ StatusCheckPasses
    /\ RealtimeError

-----------------------------------------------------------------------------
(* The OperationalStatus subscription *)

PublishStatus ==
    /\ \E m \in TopicStatuses :
        topic' = IF Len(topic) < TopicDepth THEN Append(topic, m)
                 ELSE Append(Tail(topic), m)
    /\ UNCHANGED <<handlerVars, queue, managerVars, box, setting>>

\* Mutant of BeginSetStatus: it tries the lock, like the realtime thread, and drops
\* the message when a handler holds it.
BeginSetStatusTries ==
    /\ topic # <<>>
    /\ setting = NoMessage
    /\ setting' = IF CopyingStatus THEN NoMessage ELSE Head(topic)
    /\ topic' = Tail(topic)
    /\ UNCHANGED <<handlerVars, queue, managerVars, box>>

\* OnOperationalStatus(): the executor thread takes the lock ...
BeginSetStatus ==
    /\ topic # <<>>
    /\ setting = NoMessage
    /\ ~CopyingStatus
    /\ setting' = Head(topic)
    /\ topic' = Tail(topic)
    /\ UNCHANGED <<handlerVars, queue, managerVars, box>>

\* ... stores the message and releases it.
EndSetStatus ==
    /\ setting # NoMessage
    /\ box' = setting
    /\ setting' = NoMessage
    /\ UNCHANGED <<handlerVars, queue, managerVars, topic>>

-----------------------------------------------------------------------------
\* Mutant of Create: the box is left without an initial status.
CreateWithoutStatus ==
    /\ hwm = "SHUT_DOWN"
    /\ hwm' = "DEACTIVATED"
    /\ box' = NoMessage
    /\ setting' = NoMessage
    /\ topic' = <<>>
    /\ UNCHANGED <<call, sent, reply, queue, managerVars>>

\* After a clean shutdown on_configure() creates a new module.
Create ==
    /\ hwm = "SHUT_DOWN"
    /\ hwm' = "DEACTIVATED"
    /\ box' = "UNKNOWN"
    /\ setting' = NoMessage
    /\ topic' = <<>>
    /\ UNCHANGED <<call, sent, reply, queue, managerVars>>

\* A shutdown that failed is final; so is one nobody follows by on_configure().
Halted ==
    /\ hwm \in {"SHUT_DOWN", "SHUTDOWN_FAILED"}
    /\ UNCHANGED vars

HandlerStep ==
    \/ ResetClock \/ SendRequest \/ ServiceUnavailable \/ ReceiveReply
    \/ RequestTimesOut \/ LockStatus \/ CopyStatus \/ CheckStatus
RuntimeStep ==
    \/ Prepare \/ ClearFaults \/ EnableMotion \/ DisableMotion \/ Shutdown
    \/ Activate \/ Deactivate \/ Create \/ Halted
ManagerStep ==
    \/ ServeClearFaults \/ ServeSetHwState \/ ServeSwitchController
    \/ VendorNodeDies \/ HardwareError
RealtimeStep ==
    \/ ReadStatusFails \/ CycleTimesOut
    \/ ApplyCommandRejected \/ ApplyCommandWrites \/ ApplyCommandFails
StatusStep == PublishStatus \/ BeginSetStatus \/ EndSetStatus

Next == HandlerStep \/ RuntimeStep \/ ManagerStep \/ RealtimeStep \/ StatusStep

Spec == Init /\ [][Next]_vars

\* A handler thread keeps running, the mutex is not withheld for ever from a
\* thread that keeps asking for it, and cycles keep coming: one of infinitely
\* many that find the lock free runs the check.
Fairness ==
    /\ WF_vars(HandlerStep)
    /\ WF_vars(EndSetStatus)
    /\ SF_vars(LockStatus)
    /\ SF_vars(ApplyCommandRejected)
    /\ WF_vars(CycleTimesOut)

FairSpec == Spec /\ Fairness

-----------------------------------------------------------------------------
(* Properties *)

Pending(s, r) == \E i \in 1..Len(queue[s]) : queue[s][i] = r

\* Once ICON may rely on the robot, nothing a timed-out Prepare(), ClearFaults()
\* or Deactivate round left behind is still to be executed by the
\* controller_manager: an OK answer to the last request proves that every
\* earlier one is done, although each handler gives up on its own after 5 s.
SettledWhenReady ==
    hwm \in Ready =>
        queue["set_hw_state"] = <<>> /\ queue["switch_controller"] = <<>>

\* After Shutdown() returned OK no controller this module alone starts is
\* active, the hardware component is inactive, and no late request of an
\* earlier handler can start either of them again.
ShutdownIsFinal ==
    hwm = "SHUT_DOWN" =>
        /\ queue["set_hw_state"] = <<>> /\ queue["switch_controller"] = <<>>
        /\ active \cap Managed = {}
        /\ HasHardwareComponent => ~hwActive

\* "Deactivate the controllers we activated, and wait until that's done": the
\* hardware is never asked to deactivate, not even by a request executed late,
\* while one of those controllers runs or may still be started.
DeactivateOnlyWhenReleased ==
    Pending("set_hw_state", "DeactivateHardware") =>
        active \cap Managed = {} /\ queue["switch_controller"] = <<>>

\* ClearFaults() re-activates hardware and controllers only when the vendor's
\* recovery is over: no Trigger, not even one abandoned by an earlier attempt,
\* is still to be executed by the vendor node.
RecoveryBeforeReactivation ==
    (hwm = "CLEARING_FAULTS" /\ call \in {"ActivateHardware", "SwitchOn"}
        /\ HasClearFaultsService)
    => queue["clear_faults"] = <<>>

\* The controllers this module has to stop for the plugin to have the robot.
Competing == ToDeactivate \ ToActivate

\* ICON commands no robot that a controller of controllers_to_deactivate still
\* commands: it was stopped by the request whose OK made the module ready, and
\* none of the requests given up on, Shutdown()'s included, starts it again.
CompetingAreStopped == hwm \in Ready => active \cap Competing = {}

\* The module implements the robot management it stands for: with its handlers,
\* queues and timeouts forgotten, it changes controllers and hardware only while
\* nobody relies on them, and in the order that ManagedRobot allows.
Phase ==
    IF hwm \in Ready THEN "ready"
    ELSE IF hwm = "SHUT_DOWN" THEN "released" ELSE "changing"

Robot == INSTANCE ManagedRobot WITH phase <- Phase

RobotIsManaged == Robot!Spec

\* Every handler ends, whatever the three services and the lock's other users do
\* to the calls of its chain.
HandlersTerminate ==
    \A busy \in Busy : (hwm = busy) ~> (hwm # busy)

\* README.md:110: "When OperationalStatus is FAULTED or DISABLED,
\* Ros2HwmImpl::ApplyCommand() and Ros2HwmImpl::EnableMotion() reject commands".
\* No joint command is written in such a state.
NoCommandWhileBlocked == box \in CommandBlocking => ~ENABLED ApplyCommandWrites

-----------------------------------------------------------------------------
(* The inductive invariant behind the safety properties *)

\* A handler runs exactly in the busy states, each with its own calls; only
\* EnableMotion() and DisableMotion() may be overtaken by a realtime error.
CallMatchesState ==
    \/ call = "none" /\ hwm \notin Busy
    \/ hwm = "PREPARING" /\ call \in {"ResetClock", "ActivateHardware", "SwitchOn"}
    \/ hwm = "CLEARING_FAULTS"
        /\ call \in {"TriggerClearFaults", "ActivateHardware", "SwitchOn"}
    \/ hwm = "SHUTTING_DOWN"
        /\ call \in {"ResetClock", "SwitchOff", "DeactivateHardware"}
    \/ hwm \in {"MOTION_ENABLING", "MOTION_DISABLING", "FAULTED"} /\ call = "GetStatus"

\* The awaited request is the last of its queue, unless the vendor node died with
\* it, and its answer ends the queue.
AwaitedIsLast ==
    /\ ~sent => reply = "none"
    /\ call \in Requests /\ sent =>
        LET q == queue[ServiceOf[call]] IN
        IF reply # "none" THEN q = <<>>
        ELSE IF q = <<>> THEN call = "TriggerClearFaults"
        ELSE q[Len(q)] = call

ManagerSettled ==
    queue["set_hw_state"] = <<>> /\ queue["switch_controller"] = <<>>
Released ==
    queue["switch_controller"] = <<>> /\ active \cap Managed = {}

\* What the calls that returned OK so far have settled.
ActivationOrder ==
    /\ ~HasHardwareComponent => queue["set_hw_state"] = <<>>
                                /\ call \notin {"ActivateHardware", "DeactivateHardware"}
    /\ call = "SwitchOn" => queue["set_hw_state"] = <<>>
    /\ HasClearFaultsService /\ hwm = "CLEARING_FAULTS" /\ call # "TriggerClearFaults"
        => queue["clear_faults"] = <<>>
    /\ hwm \in Ready => ManagerSettled

ReleaseOrder ==
    /\ call = "SwitchOff" /\ reply = "ok" => Released
    /\ call = "DeactivateHardware" => Released /\ (reply = "ok" => ~hwActive)
    /\ Pending("set_hw_state", "DeactivateHardware") =>
        Released /\ (call = "DeactivateHardware" \/ hwm = "SHUTDOWN_FAILED")
    /\ hwm = "SHUT_DOWN" =>
        ManagerSettled /\ Released /\ (HasHardwareComponent => ~hwActive)

\* A service is only asked what it offers.
RequestsTo(s) == {r \in Requests : ServiceOf[r] = s}
OwnRequests == \A s \in Services : queue[s] \in Seq(RequestsTo(s))

\* The competing controllers are stopped from the OK of the switch that stops them.
StoodDown ==
    (call = "SwitchOn" /\ reply = "ok") \/ hwm \in Ready => active \cap Competing = {}

Inv ==
    /\ TypeOK
    /\ CallMatchesState
    /\ AwaitedIsLast
    /\ ActivationOrder
    /\ ReleaseOrder

=============================================================================
