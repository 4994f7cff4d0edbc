----------------------- MODULE HwmWithFanucNode_proofs -----------------------
(***************************************************************************)
(* What module and node guarantee together, for any parameters of both and *)
(* however often the node dies.  The theorems of the two components are    *)
(* used as they are: the system is shown to take only their steps.         *)
(***************************************************************************)
EXTENDS HwmWithFanucNode, Ros2HwmImpl_proofs

Fanuc == INSTANCE FanucOperationalStateNode_proofs WITH
    status <- nodeStatus, outbox <- nodeOutbox, published <- nodePublished,
    reply <- nodeReply

-----------------------------------------------------------------------------
(* The invariant *)

\* The request that ClearFaults() of the node works on keeps its place.
RequestIsQueued == clear # "idle" => queue["clear_faults"] # <<>>

\* The robot is recovered and nothing that could undo it is with it.
Recovered ==
    /\ recovered = "control"
    /\ \A s \in Node!Services : pending[s] = 0

\* The module acts on the node's OK, from its arrival to the end of ClearFaults().
Acting ==
    /\ HasClearFaultsService /\ hwm = "CLEARING_FAULTS"
    /\ \/ call \in {"ActivateHardware", "SwitchOn"}
       \/ call = "TriggerClearFaults" /\ reply = "ok"
OkMeansRecovered == Acting => Recovered

SystemInv ==
    /\ TypeOK /\ Order /\ Fanuc!Inv
    /\ nodeUp \in BOOLEAN /\ crashes \in 0..MaxCrashes
    /\ RequestIsQueued
    /\ OkMeansRecovered

-----------------------------------------------------------------------------
(* The steps of the node are steps of its specification *)

LEMMA FanucAssumptions ==
    /\ Conditions \subseteq Fanuc!RobotStatuses
    /\ MaxRequests \in Nat \ {0}
BY NodeAssumption DEF Node!RobotStatuses, Fanuc!RobotStatuses, Node!ContactStops,
   Fanuc!ContactStops

LEMMA SameInit == Node!Init => Fanuc!Init
BY DEF Node!Init, Fanuc!Init, Node!PublisherInit, Fanuc!PublisherInit, Node!Threads,
       Fanuc!Threads, Node!NoMessage, Fanuc!NoMessage, Node!Services, Fanuc!Services

LEMMA SameTopicStep == Node!TopicStep => Fanuc!TopicStep
BY DEF Node!TopicStep, Fanuc!TopicStep, Node!RobotStatusCallback,
       Fanuc!RobotStatusCallback, Node!PublishTimer, Fanuc!PublishTimer,
       Node!PublishTopicCopy, Fanuc!PublishTopicCopy, Node!ToOperationalStatus,
       Fanuc!ToOperationalStatus, Node!robotVars, Fanuc!robotVars, Node!clearVars,
       Fanuc!clearVars, Node!Threads, Fanuc!Threads, Node!NoMessage, Fanuc!NoMessage,
       Node!CacheAndCopy, Fanuc!CacheAndCopy, Node!CopyStatusTo, Fanuc!CopyStatusTo,
       Node!PublishCopy, Fanuc!PublishCopy, Node!publisherVars, Fanuc!publisherVars

LEMMA SameRobotStep == Node!RobotStep => Fanuc!RobotStep
BY DEF Node!RobotStep, Fanuc!RobotStep, Node!RobotChanges, Fanuc!RobotChanges,
       Node!SampleRobotStatus, Fanuc!SampleRobotStatus, Node!Serve, Fanuc!Serve,
       Node!Services, Fanuc!Services, Node!Awaited, Fanuc!Awaited, Node!clearVars,
       Fanuc!clearVars, Node!robotVars, Fanuc!robotVars, Node!publisherVars,
       Fanuc!publisherVars

LEMMA SameClearStep ==
    Node!BeginClearFaults \/ Node!ClearStep => Fanuc!BeginClearFaults \/ Fanuc!ClearStep
BY DEF Node!BeginClearFaults, Fanuc!BeginClearFaults, Node!ClearStep, Fanuc!ClearStep,
       Node!SendReset, Fanuc!SendReset, Node!SendSwitch, Fanuc!SendSwitch, Node!Send,
       Fanuc!Send, Node!ServiceUnavailable, Fanuc!ServiceUnavailable,
       Node!ResetSucceeds, Fanuc!ResetSucceeds, Node!ClearFaultsSucceeds,
       Fanuc!ClearFaultsSucceeds, Node!RequestFails, Fanuc!RequestFails,
       Node!RequestTimesOut, Fanuc!RequestTimesOut, Node!Receive, Fanuc!Receive,
       Node!Goto, Fanuc!Goto, Node!robotVars, Fanuc!robotVars, Node!publisherVars,
       Fanuc!publisherVars

LEMMA NodeStepInv ==
    ASSUME Fanuc!Inv, Node!Next \/ UNCHANGED nodeVars
    PROVE  Fanuc!Inv'
<1>1. CASE Node!TopicStep
  BY <1>1, SameTopicStep, Fanuc!TopicStepInv, FanucAssumptions
<1>2. CASE Node!RobotStep
  BY <1>2, SameRobotStep, Fanuc!RobotStepInv, FanucAssumptions
<1>3. CASE Node!BeginClearFaults \/ Node!ClearStep
  BY <1>3, SameClearStep, Fanuc!ClearStepInv, FanucAssumptions
<1>4. CASE UNCHANGED nodeVars
  <2>1. UNCHANGED Fanuc!vars  BY <1>4 DEF nodeVars, Fanuc!vars
  <2>2. QED  BY <2>1, Fanuc!StutterInv, FanucAssumptions
<1>5. QED  BY <1>1, <1>2, <1>3, <1>4 DEF Node!Next

LEMMA NodeDiesInv ==
    ASSUME Fanuc!Inv, NodeDies
    PROVE  Fanuc!Inv'
BY DEF NodeDies, Fanuc!Inv, Fanuc!TypeOK, Fanuc!PublisherTypeOK, Fanuc!Threads,
       Node!Threads, Fanuc!Statuses, Fanuc!NoMessage, NoMessage, Fanuc!ClearSteps,
       Fanuc!CopiesAreCurrent, Fanuc!PublishedIsCurrent, Fanuc!AnswerEndsQueue,
       Fanuc!AlarmsAreReset, Fanuc!ControlIsRestored

LEMMA NodeTakesStep ==
    ASSUME [SystemNext]_systemVars
    PROVE  Node!Next \/ NodeDies \/ UNCHANGED nodeVars
<1>1. CASE RobotChanges
  BY <1>1 DEF RobotChanges, Node!Next, Node!RobotStep
<1>2. CASE NodeStep
  BY <1>2 DEF NodeStep, RecoveryStep, SampleRobotStatus, RobotStatusCallback, PublishTimer,
     NodePublishes, BeginRecovery, RecoveryGoesOn, RecoverySucceeds, RecoveryFails,
     Node!Next, Node!RobotStep, Node!TopicStep, Node!ClearStep
<1>3. CASE ModuleStep \/ NodeRestarts
  BY <1>3 DEF ModuleStep, NodeRestarts
<1>4. CASE UNCHANGED systemVars
  BY <1>4 DEF systemVars
<1>5. QED  BY <1>1, <1>2, <1>3, <1>4 DEF SystemNext, ProcessStep

LEMMA NodeInvariance ==
    ASSUME Fanuc!Inv, [SystemNext]_systemVars
    PROVE  Fanuc!Inv'
BY NodeTakesStep, NodeStepInv, NodeDiesInv

-----------------------------------------------------------------------------
(* The steps of the module are steps of its specification *)

LEMMA AnswerIsServed ==
    ASSUME RequestIsQueued, RecoverySucceeds \/ RecoveryFails
    PROVE  ServeClearFaults
<1>1. clear # "idle"
  BY DEF RecoverySucceeds, RecoveryFails, Node!ClearFaultsSucceeds, Node!ServiceUnavailable,
         Node!RequestFails, Node!RequestTimesOut, Node!Goto
<1>2. queue["clear_faults"] # <<>>  BY <1>1 DEF RequestIsQueued
<1>3. \E ok \in BOOLEAN : Answer("clear_faults", ok) /\ UNCHANGED managerVars
  BY DEF RecoverySucceeds, RecoveryFails, RecoveryAnswered
<1>4. QED  BY <1>2, <1>3 DEF ServeClearFaults

LEMMA ModuleTakesStep ==
    ASSUME RequestIsQueued, [SystemNext]_systemVars
    PROVE  [Next]_vars
<1>1. CASE RobotChanges \/ SampleRobotStatus \/ RobotStatusCallback \/ PublishTimer
           \/ BeginRecovery \/ RecoveryGoesOn \/ NodeRestarts
  BY <1>1 DEF RobotChanges, SampleRobotStatus, RobotStatusCallback, PublishTimer,
     BeginRecovery, RecoveryGoesOn, NodeRestarts
<1>2. CASE NodePublishes
  BY <1>2 DEF NodePublishes, Next, StatusStep
<1>3. CASE RecoverySucceeds \/ RecoveryFails
  BY <1>3, AnswerIsServed DEF Next, ManagerStep
<1>4. CASE ModuleStep
  BY <1>4 DEF ModuleStep, Next, ManagerStep, StatusStep
<1>5. CASE NodeDies
  BY <1>5 DEF NodeDies, Next, ManagerStep
<1>6. CASE UNCHANGED systemVars
  BY <1>6 DEF systemVars
<1>7. QED
  BY <1>1, <1>2, <1>3, <1>4, <1>5, <1>6
  DEF SystemNext, NodeStep, RecoveryStep, ProcessStep

-----------------------------------------------------------------------------
(* What the two have to do with each other *)

\* The queue of clear_faults is lengthened by the module, and shortened only by
\* the node, when it answers or dies.
LEMMA ModuleQueue ==
    ASSUME TypeOK, ModuleStep
    PROVE  queue["clear_faults"] # <<>> => queue'["clear_faults"] # <<>>
<1> "clear_faults" \in Services /\ queue \in [Services -> Seq(Requests)]
  BY DEF Services, TypeOK
<1>1. CASE HandlerStep
  <2>1. UNCHANGED queue \/ (SendRequest /\ call \in Requests)
    BY <1>1 DEF HandlerStep, ResetClock, SendRequest, ServiceUnavailable, ReceiveReply,
       RequestTimesOut, LockStatus, CopyStatus, CheckStatus
  <2>2. CASE SendRequest /\ call \in Requests
    <3>1. queue' = [queue EXCEPT ![ServiceOf[call]] = Append(@, call)]
      BY <2>2 DEF SendRequest
    <3>2. Append(queue["clear_faults"], call) # <<>>
      BY <2>2, AppendProperties
    <3>3. QED  BY <3>1, <3>2
  <2>3. QED  BY <2>1, <2>2
<1>2. CASE ServeSetHwState \/ ServeSwitchController
  BY <1>2 DEF ServeSetHwState, ServeSwitchController, Switch, Answer
<1>3. CASE RuntimeStep \/ RealtimeStep \/ HardwareError \/ BeginSetStatus \/ EndSetStatus
  BY <1>3 DEF RuntimeStep, Prepare, ClearFaults, EnableMotion, DisableMotion, Shutdown,
     Activate, Deactivate, Create, Halted, RealtimeStep, ReadStatusFails, CycleTimesOut,
     ApplyCommandRejected, ApplyCommandWrites, ApplyCommandFails, RealtimeError,
     HardwareError, BeginSetStatus, EndSetStatus, vars
<1>4. QED  BY <1>1, <1>2, <1>3 DEF ModuleStep

LEMMA QueuedStep ==
    ASSUME TypeOK, RequestIsQueued, [SystemNext]_systemVars
    PROVE  RequestIsQueued'
<1>1. CASE RobotChanges \/ SampleRobotStatus \/ RobotStatusCallback \/ PublishTimer
  BY <1>1 DEF RobotChanges, SampleRobotStatus, RobotStatusCallback, PublishTimer,
     Node!RobotChanges, Node!Serve, Node!SampleRobotStatus, Node!RobotStatusCallback,
     Node!PublishTimer, Node!clearVars, vars, RequestIsQueued
<1>2. CASE NodePublishes
  <2>1. UNCHANGED queue  BY <1>2 DEF NodePublishes, PublishStatus, vars
  <2>2. UNCHANGED clear
    BY <1>2 DEF NodePublishes, Node!PublishTopicCopy, Node!clearVars
  <2>3. QED  BY <2>1, <2>2 DEF RequestIsQueued
<1>3. CASE RecoveryGoesOn
  <2>1. UNCHANGED queue /\ clear # "idle"
    BY <1>3 DEF RecoveryGoesOn, Node!SendReset, Node!ResetSucceeds, Node!SendSwitch,
       Node!Goto, vars
  <2>2. QED  BY <2>1 DEF RequestIsQueued
<1>4. CASE BeginRecovery
  BY <1>4 DEF BeginRecovery, vars, RequestIsQueued
<1>5. CASE RecoverySucceeds \/ RecoveryFails
  <2>1. clear' = "idle"
    BY <1>5 DEF RecoverySucceeds, RecoveryFails, Node!ClearFaultsSucceeds,
       Node!ServiceUnavailable, Node!RequestFails, Node!RequestTimesOut, Node!Goto
  <2>2. QED  BY <2>1 DEF RequestIsQueued
<1>6. CASE ModuleStep
  <2>1. UNCHANGED clear  BY <1>6 DEF ModuleStep, nodeVars
  <2>2. QED  BY <1>6, <2>1, ModuleQueue DEF RequestIsQueued
<1>7. CASE NodeDies
  BY <1>7 DEF NodeDies, RequestIsQueued
<1>8. CASE NodeRestarts \/ UNCHANGED systemVars
  BY <1>8 DEF NodeRestarts, nodeVars, systemVars, vars, RequestIsQueued
<1>9. QED
  BY <1>1, <1>2, <1>3, <1>4, <1>5, <1>6, <1>7, <1>8
  DEF SystemNext, NodeStep, RecoveryStep, ProcessStep

\* While the module acts on the OK nothing is left to be answered.
LEMMA ActingIsAlone ==
    ASSUME Order, RequestIsQueued, Acting
    PROVE  queue["clear_faults"] = <<>> /\ clear = "idle"
<1>1. CASE call \in {"ActivateHardware", "SwitchOn"}
  BY <1>1 DEF Acting, Order, ActivationOrder, RequestIsQueued
<1>2. CASE call = "TriggerClearFaults" /\ reply = "ok"
  <2>1. sent /\ call \in Requests /\ ServiceOf[call] = "clear_faults"
    BY <1>2 DEF Order, AwaitedIsLast, Requests, ServiceOf
  <2>2. queue["clear_faults"] = <<>>  BY <1>2, <2>1 DEF Order, AwaitedIsLast
  <2>3. QED  BY <2>2 DEF RequestIsQueued
<1>3. QED  BY <1>1, <1>2 DEF Acting

\* The module begins to act only when it gets an answer.
LEMMA ModuleBeginsActing ==
    ASSUME Order, ModuleStep, Acting'
    PROVE  Acting
<1>1. CASE HandlerStep
  <2>1. CASE SendRequest \/ LockStatus \/ CopyStatus
    BY <2>1 DEF SendRequest, LockStatus, CopyStatus, CopyingStatus, Acting
  <2>2. call' # "none"  BY DEF Acting
  <2>3. ~ReturnOk /\ ~ReturnError  BY <2>2 DEF ReturnOk, ReturnError, EndHandler
  <2>4. CASE ~(SendRequest \/ LockStatus \/ CopyStatus)
    <3>1. /\ Continue
          /\ call = "ResetClock" \/ call = "GetStatus" \/ reply = "ok"
      BY <1>1, <2>3, <2>4 DEF HandlerStep, ResetClock, ServiceUnavailable, ReceiveReply,
         RequestTimesOut, CheckStatus, CallSucceeds
    <3>2. hwm = "CLEARING_FAULTS" /\ HasClearFaultsService
      BY <3>1 DEF Continue, Acting
    <3>3. call \in {"TriggerClearFaults", "ActivateHardware", "SwitchOn"}
      BY <3>2 DEF Order, CallMatchesState, Busy
    <3>4. QED  BY <3>1, <3>2, <3>3 DEF Acting
  <2>5. QED  BY <2>1, <2>4
<1>2. CASE RuntimeStep
  BY <1>2 DEF RuntimeStep, Prepare, ClearFaults, EnableMotion, DisableMotion, Shutdown,
     BeginHandler, Activate, Deactivate, Create, Halted, vars, Acting
<1>3. CASE RealtimeStep
  BY <1>3 DEF RealtimeStep, ReadStatusFails, CycleTimesOut, ApplyCommandRejected,
     ApplyCommandWrites, ApplyCommandFails, RealtimeError, vars, Acting
<1>4. CASE ServeSetHwState \/ ServeSwitchController
  BY <1>4 DEF ServeSetHwState, ServeSwitchController, Switch, Answer, Awaited, ServiceOf, Acting
<1>5. CASE HardwareError \/ BeginSetStatus \/ EndSetStatus
  BY <1>5 DEF HardwareError, BeginSetStatus, EndSetStatus, handlerVars, Acting
<1>6. QED  BY <1>1, <1>2, <1>3, <1>4, <1>5 DEF ModuleStep

\* ClearFaults() of the node returns OK only when both requests are done for good.
LEMMA SuccessMeansRecovered ==
    ASSUME Fanuc!Inv, RecoverySucceeds
    PROVE  Recovered'
<1>1. clear = "switch_control_state" /\ nodeReply = "ok" /\ UNCHANGED <<pending, recovered>>
  BY DEF RecoverySucceeds, Node!ClearFaultsSucceeds, Node!Receive, Node!Goto
<1>2. recovered = "control" /\ pending["reset"] = 0 /\ pending["switch_control_state"] = 0
  BY <1>1 DEF Fanuc!Inv, Fanuc!ControlIsRestored, Fanuc!AlarmsAreReset, Fanuc!AnswerEndsQueue
<1>3. QED  BY <1>1, <1>2 DEF Recovered, Node!Services

LEMMA ActingStep ==
    ASSUME SystemInv, [SystemNext]_systemVars
    PROVE  OkMeansRecovered'
<1> SUFFICES ASSUME Acting' PROVE Recovered'
  BY DEF OkMeansRecovered, Acting
<1>1. ASSUME Acting PROVE Recovered /\ clear = "idle" /\ queue["clear_faults"] = <<>>
  BY <1>1, ActingIsAlone DEF SystemInv, OkMeansRecovered, Acting
<1>2. CASE RobotChanges \/ SampleRobotStatus \/ RobotStatusCallback \/ PublishTimer
  <2>1. Acting  BY <1>2 DEF RobotChanges, SampleRobotStatus, RobotStatusCallback,
                     PublishTimer, vars, Acting
  <2>2. ~\E s \in Node!Services : Node!Serve(s)
    BY <1>1, <2>1 DEF Recovered, Node!Serve
  <2>3. UNCHANGED <<pending, recovered>>
    BY <1>2, <2>2 DEF RobotChanges, SampleRobotStatus, RobotStatusCallback, PublishTimer,
       Node!RobotChanges, Node!SampleRobotStatus, Node!RobotStatusCallback,
       Node!PublishTimer, Node!clearVars
  <2>4. QED  BY <1>1, <2>1, <2>3 DEF Recovered
<1>3. CASE NodePublishes
  <2>1. Acting  BY <1>3 DEF NodePublishes, PublishStatus, handlerVars, vars, Acting
  <2>2. UNCHANGED <<pending, recovered>>
    BY <1>3 DEF NodePublishes, Node!PublishTopicCopy, Node!clearVars
  <2>3. QED  BY <1>1, <2>1, <2>2 DEF Recovered
<1>4. CASE BeginRecovery \/ RecoveryGoesOn
  <2>1. Acting  BY <1>4 DEF BeginRecovery, RecoveryGoesOn, vars, Acting
  <2>2. FALSE
    BY <1>1, <1>4, <2>1 DEF BeginRecovery, RecoveryGoesOn, Node!SendReset,
       Node!ResetSucceeds, Node!SendSwitch, Node!Goto
  <2>3. QED  BY <2>2
<1>5. CASE RecoverySucceeds
  BY <1>5, SuccessMeansRecovered DEF SystemInv
<1>6. CASE RecoveryFails
  <2>1. /\ UNCHANGED <<hwm, call>> /\ reply' \in {"fail", reply}
        /\ clear # "idle"
    BY <1>6 DEF RecoveryFails, RecoveryAnswered, Answer, Node!ServiceUnavailable,
       Node!RequestFails, Node!RequestTimesOut, Node!Goto
  <2>2. Acting  BY <2>1 DEF Acting
  <2>3. QED  BY <1>1, <2>1, <2>2
<1>7. CASE ModuleStep
  <2>1. Acting  BY <1>7, ModuleBeginsActing DEF SystemInv
  <2>2. UNCHANGED <<pending, recovered>>  BY <1>7 DEF ModuleStep, nodeVars
  <2>3. QED  BY <1>1, <2>1, <2>2 DEF Recovered
<1>8. CASE NodeDies
  <2>1. Acting  BY <1>8 DEF NodeDies, VendorNodeDies, handlerVars, Acting
  <2>2. UNCHANGED <<pending, recovered>>  BY <1>8 DEF NodeDies
  <2>3. QED  BY <1>1, <2>1, <2>2 DEF Recovered
<1>9. CASE NodeRestarts \/ UNCHANGED systemVars
  <2>1. Acting  BY <1>9 DEF NodeRestarts, systemVars, vars, Acting
  <2>2. UNCHANGED <<pending, recovered>>  BY <1>9 DEF NodeRestarts, systemVars, nodeVars
  <2>3. QED  BY <1>1, <2>1, <2>2 DEF Recovered
<1>10. QED
  BY <1>2, <1>3, <1>4, <1>5, <1>6, <1>7, <1>8, <1>9
  DEF SystemNext, NodeStep, RecoveryStep, ProcessStep

-----------------------------------------------------------------------------
(* The theorems *)

LEMMA SystemInitInv == SystemInit => SystemInv
<1> SUFFICES ASSUME SystemInit PROVE SystemInv  OBVIOUS
<1>1. TypeOK /\ Order  BY InitType, InitOrder DEF SystemInit
<1>2. Fanuc!Inv  BY SameInit, Fanuc!InitInv, FanucAssumptions DEF SystemInit
<1>3. nodeUp \in BOOLEAN /\ crashes \in 0..MaxCrashes
  BY CrashesAssumption DEF SystemInit
<1>4. hwm = "DEACTIVATED" /\ clear = "idle"
  BY DEF SystemInit, Init, Node!Init
<1>5. RequestIsQueued  BY <1>4 DEF RequestIsQueued
<1>6. OkMeansRecovered  BY <1>4 DEF OkMeansRecovered, Acting
<1>7. QED  BY <1>1, <1>2, <1>3, <1>5, <1>6 DEF SystemInv

LEMMA ProcessType ==
    ASSUME nodeUp \in BOOLEAN, crashes \in 0..MaxCrashes, [SystemNext]_systemVars
    PROVE  nodeUp' \in BOOLEAN /\ crashes' \in 0..MaxCrashes
<1>1. CASE NodeDies
  <2>1. crashes < MaxCrashes /\ crashes' = crashes + 1
    BY <1>1, Zenon DEF NodeDies
  <2>2. crashes' \in 0..MaxCrashes  BY <2>1, CrashesAssumption
  <2>3. nodeUp' = FALSE  BY <1>1, Zenon DEF NodeDies
  <2>4. nodeUp' \in BOOLEAN  BY <2>3, Zenon
  <2>5. QED  BY <2>2, <2>4
<1>2. CASE NodeRestarts
  BY <1>2, Zenon DEF NodeRestarts
<1>3. CASE ~NodeDies /\ ~NodeRestarts
  <2>1. UNCHANGED processVars
    BY <1>3 DEF SystemNext, ProcessStep, RobotChanges, NodeStep, RecoveryStep, ModuleStep,
       SampleRobotStatus, RobotStatusCallback, PublishTimer, NodePublishes, BeginRecovery,
       RecoveryGoesOn, RecoverySucceeds, RecoveryFails, RecoveryAnswered, systemVars
  <2>2. QED  BY <2>1 DEF processVars
<1>4. QED  BY <1>1, <1>2, <1>3

LEMMA SystemStepInv ==
    ASSUME SystemInv, [SystemNext]_systemVars
    PROVE  SystemInv'
<1>1. [Next]_vars  BY ModuleTakesStep DEF SystemInv
<1>2. TypeOK' /\ Order'  BY <1>1, NextType, NextOrder DEF SystemInv
<1>3. Fanuc!Inv'  BY NodeInvariance DEF SystemInv
<1>4. nodeUp' \in BOOLEAN /\ crashes' \in 0..MaxCrashes  BY ProcessType DEF SystemInv
<1>5. RequestIsQueued'  BY QueuedStep DEF SystemInv
<1>6. OkMeansRecovered'  BY ActingStep
<1>7. QED  BY <1>2, <1>3, <1>4, <1>5, <1>6 DEF SystemInv

LEMMA SystemInvariance == SystemSpec => []SystemInv
<1>1. SystemInv /\ [SystemNext]_systemVars => SystemInv'  BY SystemStepInv
<1>2. QED  BY <1>1, SystemInitInv, PTL DEF SystemSpec

\* Both components keep their types, however often the node dies.
THEOREM SystemTypeCorrect == SystemSpec => []SystemTypeOK
<1>1. Fanuc!TypeOK => Node!TypeOK
  BY DEF Node!TypeOK, Fanuc!TypeOK, Node!PublisherTypeOK, Fanuc!PublisherTypeOK,
       Node!Threads, Fanuc!Threads, Node!Statuses, Fanuc!Statuses, Node!NoMessage,
       Fanuc!NoMessage, Node!Services, Fanuc!Services, Node!ClearSteps,
       Fanuc!ClearSteps
<1>2. SystemInv => SystemTypeOK
  BY <1>1 DEF SystemInv, SystemTypeOK, Fanuc!Inv
<1>3. QED  BY <1>2, SystemInvariance, PTL

\* The module re-activates the robot only when the node's recovery was carried out
\* to its end, and no part of an earlier one is left anywhere.
THEOREM ReactivationIsRecovered == SystemSpec => []ReactivationMeansRecovered
<1>1. SystemInv => ReactivationMeansRecovered
  <2> SUFFICES ASSUME SystemInv, Acting, call \in {"ActivateHardware", "SwitchOn"}
               PROVE  recovered = "control" /\ clear = "idle"
                      /\ \A s \in Node!Services : pending[s] = 0
    BY DEF ReactivationMeansRecovered, Acting
  <2>1. clear = "idle"  BY ActingIsAlone DEF SystemInv
  <2>2. Recovered  BY DEF SystemInv, OkMeansRecovered, Acting
  <2>3. QED  BY <2>1, <2>2 DEF Recovered
<1>2. QED  BY <1>1, SystemInvariance, PTL

\* The system refines both of its components: whatever is proved of Ros2HwmImpl for
\* any vendor node holds with this one.
THEOREM ImplementsComponents == SystemSpec => ComponentsImplemented
<1>1. SystemInit => Init /\ Node!Init  BY DEF SystemInit
<1>2. SystemInv /\ [SystemNext]_systemVars => [Next]_vars
  BY ModuleTakesStep DEF SystemInv
<1>3. [SystemNext]_systemVars => [Node!Next \/ NodeDies]_nodeVars
  BY NodeTakesStep
<1>4. QED
  BY <1>1, <1>2, <1>3, SystemInvariance, PTL DEF SystemSpec, ComponentsImplemented, Spec

\* What is proved of the module for any vendor node holds with this one, however
\* often it dies: nothing of earlier requests comes up while the module is ready,
\* its competitors stay stopped, Shutdown() is final, and the robot is managed.
THEOREM SystemKeepsModule ==
    SystemSpec =>
        /\ RobotIsManaged
        /\ [](/\ SettledWhenReady /\ CompetingAreStopped /\ ShutdownIsFinal
              /\ DeactivateOnlyWhenReleased /\ RecoveryBeforeReactivation)
<1>1. SystemSpec => Spec  BY ImplementsComponents, PTL DEF ComponentsImplemented
<1>2. QED
  BY <1>1, ImplementsManagedRobot, Settled, CompetingStayStopped, FinalShutdown,
     OrderedRelease, OrderedRecovery, PTL

-----------------------------------------------------------------------------
(* The words of the node reach the box in order *)

\* The last word the module has been sent.
NewestWord ==
    IF topic # <<>> THEN topic[Len(topic)]
    ELSE IF setting # NoMessage THEN setting ELSE box

\* It is the last the node has published, or the one a new module begins with.
NewestIsPublished ==
    TopicStatuses # {} /\ nodePublished # NoMessage
        => NewestWord \in {nodePublished, "UNKNOWN"}

LEMMA ModuleKeepsWords ==
    ASSUME ModuleStep
    PROVE  /\ nodePublished' = nodePublished
           /\ UNCHANGED <<box, setting, topic>> \/ BeginSetStatus \/ EndSetStatus \/ Create
<1>1. nodePublished' = nodePublished  BY DEF ModuleStep, nodeVars
<1>2. CASE HandlerStep
  BY <1>1, <1>2 DEF HandlerStep, ResetClock, SendRequest, ServiceUnavailable, ReceiveReply,
     RequestTimesOut, LockStatus, CopyStatus, CheckStatus, statusVars
<1>3. CASE RuntimeStep
  BY <1>1, <1>3 DEF RuntimeStep, Prepare, ClearFaults, EnableMotion, DisableMotion, Shutdown,
     Activate, Deactivate, Halted, statusVars, vars
<1>4. CASE RealtimeStep
  BY <1>1, <1>4 DEF RealtimeStep, ReadStatusFails, CycleTimesOut, ApplyCommandRejected,
     ApplyCommandWrites, ApplyCommandFails, RealtimeError, statusVars, vars
<1>5. CASE ServeSetHwState \/ ServeSwitchController \/ HardwareError
  BY <1>1, <1>5 DEF ServeSetHwState, ServeSwitchController, Switch, Answer, HardwareError,
     statusVars
<1>6. CASE BeginSetStatus \/ EndSetStatus
  BY <1>1, <1>6
<1>7. QED  BY <1>2, <1>3, <1>4, <1>5, <1>6 DEF ModuleStep

\* Taking a message out of the history leaves the newest word what it is.
LEMMA BeginSetKeepsWord ==
    ASSUME TypeOK, BeginSetStatus
    PROVE  NewestWord' = NewestWord
<1>1. topic \in Seq(TopicStatuses) /\ Len(topic) > 0 /\ topic # <<>>
  BY DEF TypeOK, BeginSetStatus
<1>2. topic' = Tail(topic) /\ setting' = Head(topic)
  BY DEF BeginSetStatus
<1>3. CASE Len(topic) = 1
  <2>1. topic' = <<>>  BY <1>1, <1>2, <1>3, TailOfQueue
  <2>2. Head(topic) = topic[1] /\ Head(topic) \in TopicStatuses  BY <1>1
  <2>3. setting' # NoMessage
    BY <1>2, <2>2, ParametersAssumption DEF Statuses, NoMessage
  <2>4. QED  BY <1>1, <1>2, <1>3, <2>1, <2>2, <2>3 DEF NewestWord
<1>4. CASE Len(topic) # 1
  <2>1. Len(topic') > 0 /\ topic'[Len(topic')] = topic[Len(topic)]
    BY <1>1, <1>2, <1>4, TailOfQueue
  <2>2. topic' # <<>>  BY <2>1, LongIsNotEmpty
  <2>3. QED  BY <1>1, <2>1, <2>2 DEF NewestWord
<1>5. QED  BY <1>3, <1>4

LEMMA EndSetKeepsWord ==
    ASSUME EndSetStatus
    PROVE  NewestWord' = NewestWord
<1>1. topic' = topic /\ setting # NoMessage /\ setting' = NoMessage /\ box' = setting
  BY DEF EndSetStatus
<1>2. QED  BY <1>1 DEF NewestWord

LEMMA CreatedKnowsNothing == Create => NewestWord' = "UNKNOWN"
<1> SUFFICES ASSUME Create PROVE NewestWord' = "UNKNOWN"  OBVIOUS
<1>1. topic' = <<>> /\ setting' = NoMessage /\ box' = "UNKNOWN"  BY DEF Create
<1>2. QED  BY <1>1 DEF NewestWord

\* What is published is the newest word from then on.
LEMMA PublishedIsNewest ==
    ASSUME TypeOK, NodePublishes, TopicStatuses # {}
    PROVE  NewestWord' = nodePublished'
<1>1. nodePublished' = nodeOutbox["topic"]
  BY DEF NodePublishes, Node!PublishTopicCopy, Node!PublishCopy
<1>2. PublishStatus /\ topic'[Len(topic')] = nodeOutbox["topic"]
  BY DEF NodePublishes
<1>3. PICK m \in TopicStatuses :
        topic' = IF Len(topic) < TopicDepth THEN Append(topic, m) ELSE Append(Tail(topic), m)
  BY <1>2 DEF PublishStatus
<1>4. topic \in Seq(TopicStatuses) /\ (Len(topic) >= TopicDepth => topic # <<>>)
  BY BoundsAssumption DEF TypeOK
<1>5. topic' # <<>>
  <2>1. PICK r \in Seq(TopicStatuses) : topic' = Append(r, m)
    <3>1. CASE Len(topic) < TopicDepth
      BY <1>3, <1>4, <3>1
    <3>2. CASE ~(Len(topic) < TopicDepth)
      <4>1. Len(topic) \in Nat /\ topic # <<>>  BY <1>4, <3>2, BoundsAssumption
      <4>2. Tail(topic) \in Seq(TopicStatuses)  BY <1>4, <4>1
      <4>3. topic' = Append(Tail(topic), m)  BY <1>3, <3>2
      <4>4. QED  BY <4>2, <4>3
    <3>3. QED  BY <3>1, <3>2
  <2>2. Append(r, m) # <<>>  BY <2>1, AppendProperties
  <2>3. QED  BY <2>1, <2>2
<1>6. QED  BY <1>1, <1>2, <1>5 DEF NewestWord

LEMMA WordStep ==
    ASSUME TypeOK, NewestIsPublished, [SystemNext]_systemVars
    PROVE  NewestIsPublished'
<1>1. ASSUME NewestWord' = NewestWord, nodePublished' = nodePublished
      PROVE  NewestIsPublished'
  BY <1>1 DEF NewestIsPublished
<1>2. ASSUME UNCHANGED <<box, setting, topic, nodePublished>>
      PROVE  NewestIsPublished'
  BY <1>1, <1>2 DEF NewestWord
<1>3. CASE RobotChanges \/ SampleRobotStatus \/ RobotStatusCallback \/ PublishTimer
           \/ BeginRecovery \/ RecoveryGoesOn
  BY <1>2, <1>3 DEF RobotChanges, SampleRobotStatus, RobotStatusCallback, PublishTimer,
     BeginRecovery, RecoveryGoesOn, vars, Node!RobotChanges, Node!Serve,
     Node!SampleRobotStatus, Node!RobotStatusCallback, Node!PublishTimer, Node!CopyStatusTo,
     Node!CacheAndCopy, Node!BeginClearFaults, Node!SendReset, Node!SendSwitch, Node!Send,
     Node!ResetSucceeds, Node!Receive, Node!publisherVars
<1>4. CASE RecoverySucceeds \/ RecoveryFails
  BY <1>2, <1>4 DEF RecoverySucceeds, RecoveryFails, RecoveryAnswered, Answer, statusVars,
     Node!ClearFaultsSucceeds, Node!ServiceUnavailable, Node!RequestFails,
     Node!RequestTimesOut, Node!Receive, Node!publisherVars
<1>5. CASE NodePublishes
  <2>1. CASE TopicStatuses = {}
    BY <2>1 DEF NewestIsPublished
  <2>2. CASE TopicStatuses # {}
    BY <1>5, <2>2, PublishedIsNewest DEF NewestIsPublished
  <2>3. QED  BY <2>1, <2>2
<1>6. CASE ModuleStep
  <2>1. CASE BeginSetStatus \/ EndSetStatus
    BY <1>1, <1>6, <2>1, BeginSetKeepsWord, EndSetKeepsWord, ModuleKeepsWords
  <2>2. CASE Create
    BY <2>2, CreatedKnowsNothing DEF NewestIsPublished
  <2>3. QED  BY <1>2, <1>6, <2>1, <2>2, ModuleKeepsWords
<1>7. CASE NodeDies
  <2>1. nodePublished' = NoMessage  BY <1>7 DEF NodeDies
  <2>2. QED  BY <2>1 DEF NewestIsPublished
<1>8. CASE NodeRestarts \/ UNCHANGED systemVars
  BY <1>2, <1>8 DEF NodeRestarts, systemVars, nodeVars, vars
<1>9. QED
  BY <1>3, <1>4, <1>5, <1>6, <1>7, <1>8
  DEF SystemNext, NodeStep, RecoveryStep, ProcessStep

\* The word the box comes to say is the node's last one, and that is what it knows.
THEOREM BoxKeepsUp == SystemSpec => []BoxKeepsUpWithNode
<1>1. SystemInit => NewestIsPublished
  BY DEF SystemInit, Node!Init, Node!PublisherInit, Node!NoMessage, NewestIsPublished, NoMessage
<1>2. SystemInv /\ NewestIsPublished /\ [SystemNext]_systemVars => NewestIsPublished'
  BY WordStep DEF SystemInv
<1>3. SystemInv /\ NewestIsPublished => BoxKeepsUpWithNode
  <2> SUFFICES ASSUME SystemInv, NewestIsPublished, TopicStatuses # {},
                      nodePublished # NoMessage, nodeOutbox["topic"] = NoMessage,
                      topic = <<>>, setting = NoMessage
               PROVE  box \in {nodeStatus, "UNKNOWN"}
    BY DEF BoxKeepsUpWithNode
  <2>1. nodePublished = nodeStatus
    BY DEF SystemInv, Fanuc!Inv, Fanuc!PublishedIsCurrent, Fanuc!NoMessage, NoMessage
  <2>2. NewestWord = box  BY DEF NewestWord
  <2>3. QED  BY <2>1, <2>2 DEF NewestIsPublished
<1>4. QED  BY <1>1, <1>2, <1>3, SystemInvariance, PTL DEF SystemSpec

=============================================================================
