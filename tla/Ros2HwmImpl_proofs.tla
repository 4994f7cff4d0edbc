------------------------- MODULE Ros2HwmImpl_proofs -------------------------
(***************************************************************************)
(* Proofs about Ros2HwmImpl, for every set of controllers, every choice of *)
(* the parameters and queues of any length.                                *)
(***************************************************************************)
EXTENDS Ros2HwmImpl, SequenceTheorems, TLAPS

-----------------------------------------------------------------------------
(* Facts about queues *)

\* Executing the head of a queue leaves a queue of requests.
LEMMA ServedQueue ==
    ASSUME NEW q \in [Services -> Seq(Requests)], NEW s \in Services, q[s] # <<>>
    PROVE  /\ [q EXCEPT ![s] = Tail(@)] \in [Services -> Seq(Requests)]
           /\ Head(q[s]) \in Requests
BY DEF Services

\* Sending a request leaves a queue of requests.
LEMMA ExtendedQueue ==
    ASSUME NEW q \in [Services -> Seq(Requests)], NEW s \in Services,
           NEW r \in Requests
    PROVE  [q EXCEPT ![s] = Append(@, r)] \in [Services -> Seq(Requests)]
OBVIOUS

LEMMA LongIsNotEmpty ==
    ASSUME NEW q, Len(q) > 0
    PROVE  q # <<>>
OBVIOUS

\* The only request leaves an empty queue, another one leaves the last in place.
LEMMA TailOfQueue ==
    ASSUME NEW S, NEW q \in Seq(S), Len(q) > 0
    PROVE  /\ Len(q) = 1 => Tail(q) = <<>>
           /\ Len(q) # 1 => Len(Tail(q)) > 0 /\ Tail(q)[Len(Tail(q))] = q[Len(q)]
<1>1. Tail(q) \in Seq(S) /\ Len(Tail(q)) = Len(q) - 1
  OBVIOUS
<1>2. Len(q) = 1 => Tail(q) = <<>>
  <2>1. Tail(q) # <<>> => Len(Tail(q)) \in Nat \ {0}
    BY <1>1, EmptySeq, Zenon
  <2> QED
    BY <1>1, <2>1
<1>3. Len(q) # 1 => Len(Tail(q)) > 0 /\ Tail(q)[Len(Tail(q))] = q[Len(q)]
  BY <1>1
<1> QED
  BY <1>2, <1>3

LEMMA ServiceOfRequest ==
    ASSUME NEW r \in Requests
    PROVE  ServiceOf[r] \in Services
BY DEF Requests, Services, ServiceOf

-----------------------------------------------------------------------------
(* The chain of calls stays within its types *)

LEMMA NextCallType ==
    ASSUME NEW c \in Calls \ {"none"}
    PROVE  NextCall(c) \in Calls
BY DEF NextCall, Calls, Requests, FirstActivation

LEMMA EndHandlerType ==
    ASSUME TypeOK, ReturnOk \/ ReturnError
    PROVE  /\ hwm' \in States
           /\ call' = "none"
           /\ sent' = FALSE
           /\ reply' = "none"
BY DEF TypeOK, ReturnOk, ReturnError, EndHandler, AfterOk, AfterError,
       States, Idle, Busy

LEMMA ContinueType ==
    ASSUME TypeOK, Continue, call # "none"
    PROVE  hwm' \in States /\ call' \in Calls /\ sent' \in BOOLEAN
           /\ reply' \in {"none", "ok", "fail"}
BY NextCallType DEF TypeOK, Continue

LEMMA CallReturnsType ==
    ASSUME TypeOK, CallSucceeds \/ ReturnError, call # "none"
    PROVE  hwm' \in States /\ call' \in Calls /\ sent' \in BOOLEAN
           /\ reply' \in {"none", "ok", "fail"}
<1>1. CASE Continue
  BY <1>1, ContinueType
<1>2. CASE ReturnOk \/ ReturnError
  BY <1>2, EndHandlerType DEF Calls
<1> QED
  BY <1>1, <1>2 DEF CallSucceeds

LEMMA AnswerType ==
    ASSUME TypeOK, NEW s \in Services, queue[s] # <<>>,
           NEW ok \in BOOLEAN, Answer(s, ok)
    PROVE  queue' \in [Services -> Seq(Requests)] /\ reply' \in {"none", "ok", "fail"}
BY ServedQueue DEF TypeOK, Answer

-----------------------------------------------------------------------------
(* Type correctness *)

LEMMA InitType == Init => TypeOK
<1> SUFFICES ASSUME Init PROVE TypeOK
  OBVIOUS
<1>1. queue \in [Services -> Seq(Requests)]
  <2>1. <<>> \in Seq(Requests)
    OBVIOUS
  <2> QED
    BY <2>1 DEF Init
<1>2. topic \in Seq(TopicStatuses)
  BY DEF Init
<1> QED
  BY <1>1, <1>2 DEF Init, TypeOK, States, Idle, Calls, Statuses

LEMMA HandlerStepType == TypeOK /\ HandlerStep => TypeOK'
<1> SUFFICES ASSUME TypeOK, HandlerStep PROVE TypeOK'
  OBVIOUS
<1>1. CASE ResetClock
  BY <1>1, CallReturnsType
     DEF ResetClock, TypeOK, managerVars, statusVars
<1>2. CASE SendRequest
  <2>1. queue' \in [Services -> Seq(Requests)]
    BY <1>2, ExtendedQueue, ServiceOfRequest DEF SendRequest, TypeOK
  <2> QED
    BY <1>2, <2>1 DEF SendRequest, TypeOK, managerVars, statusVars
<1>3. CASE ServiceUnavailable
  BY <1>3, CallReturnsType DEF ServiceUnavailable, TypeOK, managerVars, statusVars, Requests
<1>4. CASE ReceiveReply
  BY <1>4, CallReturnsType DEF ReceiveReply, TypeOK, managerVars, statusVars, Requests
<1>5. CASE RequestTimesOut
  BY <1>5, CallReturnsType DEF RequestTimesOut, TypeOK, managerVars, statusVars, Requests
<1>6. CASE LockStatus
  BY <1>6 DEF LockStatus, TypeOK, managerVars, statusVars
<1>7. CASE CopyStatus
  BY <1>7 DEF CopyStatus, TypeOK, managerVars, statusVars
<1>8. CASE CheckStatus
  BY <1>8, CallReturnsType DEF CheckStatus, TypeOK, managerVars, statusVars
<1> QED
  BY <1>1, <1>2, <1>3, <1>4, <1>5, <1>6, <1>7, <1>8 DEF HandlerStep

LEMMA RuntimeStepType == TypeOK /\ RuntimeStep => TypeOK'
<1> SUFFICES ASSUME TypeOK, RuntimeStep PROVE TypeOK'
  OBVIOUS
<1> USE DEF TypeOK, managerVars, statusVars, BeginHandler
<1>1. CASE Prepare
  BY <1>1 DEF Prepare, States, Busy, Calls
<1>2. CASE ClearFaults
  BY <1>2 DEF ClearFaults, States, Busy, Calls, Requests, FirstActivation
<1>3. CASE EnableMotion
  BY <1>3 DEF EnableMotion, States, Busy, Calls
<1>4. CASE DisableMotion
  BY <1>4 DEF DisableMotion, States, Busy, Calls
<1>5. CASE Shutdown
  BY <1>5 DEF Shutdown, States, Busy, Calls
<1>6. CASE Activate
  BY <1>6 DEF Activate, States, Idle
<1>7. CASE Deactivate
  BY <1>7 DEF Deactivate, States, Idle
<1>8. CASE Create
  BY <1>8 DEF Create, States, Idle, Statuses
<1>9. CASE Halted
  BY <1>9 DEF Halted, vars
<1> QED
  BY <1>1, <1>2, <1>3, <1>4, <1>5, <1>6, <1>7, <1>8, <1>9 DEF RuntimeStep

LEMMA ManagerStepType == TypeOK /\ ManagerStep => TypeOK'
<1> SUFFICES ASSUME TypeOK, ManagerStep PROVE TypeOK'
  OBVIOUS
<1>1. CASE ServeClearFaults
  BY <1>1, AnswerType DEF ServeClearFaults, Answer, TypeOK, managerVars, statusVars, Services
<1>2. CASE ServeSetHwState
  BY <1>2, AnswerType DEF ServeSetHwState, Answer, TypeOK, managerVars, statusVars, Services
<1>3. CASE ServeSwitchController
  <2>1. PICK on \in SUBSET Controllers, off \in SUBSET Controllers : Switch(on, off)
    BY <1>3, ControllersAssumption DEF ServeSwitchController
  <2>2. PICK started \in SUBSET on, stopped \in SUBSET off, ok \in BOOLEAN :
          active' = (active \ stopped) \cup started /\ Answer("switch_controller", ok)
    BY <2>1 DEF Switch
  <2>3. active' \subseteq Controllers
    BY <2>2 DEF TypeOK
  <2> QED
    BY <1>3, <2>2, <2>3, AnswerType
       DEF ServeSwitchController, Answer, TypeOK, statusVars, Services
<1>4. CASE HardwareError
  BY <1>4 DEF HardwareError, TypeOK, handlerVars, statusVars
<1>5. CASE VendorNodeDies
  BY <1>5 DEF VendorNodeDies, TypeOK, handlerVars, managerVars, statusVars, Services
<1> QED
  BY <1>1, <1>2, <1>3, <1>4, <1>5 DEF ManagerStep

LEMMA RealtimeStepType == TypeOK /\ RealtimeStep => TypeOK'
BY DEF RealtimeStep, ReadStatusFails, CycleTimesOut, ApplyCommandRejected,
       ApplyCommandWrites, ApplyCommandFails, RealtimeError, TypeOK, States, Idle,
       handlerVars, managerVars, statusVars, vars

LEMMA StatusStepType == TypeOK /\ StatusStep => TypeOK'
<1> SUFFICES ASSUME TypeOK, StatusStep PROVE TypeOK'
  OBVIOUS
<1> USE ParametersAssumption DEF TypeOK, handlerVars, managerVars, NoMessage
<1>1. CASE PublishStatus
  <2>1. PICK m \in TopicStatuses :
          topic' = IF Len(topic) < TopicDepth THEN Append(topic, m)
                   ELSE Append(Tail(topic), m)
    BY <1>1 DEF PublishStatus
  <2>2. Len(topic) >= TopicDepth => topic # <<>>
    BY BoundsAssumption
  <2>3. topic' \in Seq(TopicStatuses)
    BY <2>1, <2>2, BoundsAssumption
  <2> QED
    BY <1>1, <2>3 DEF PublishStatus
<1>2. CASE BeginSetStatus
  <2>1. Head(topic) \in TopicStatuses /\ Tail(topic) \in Seq(TopicStatuses)
    BY <1>2 DEF BeginSetStatus
  <2> QED
    BY <1>2, <2>1 DEF BeginSetStatus
<1>3. CASE EndSetStatus
  BY <1>3 DEF EndSetStatus
<1> QED
  BY <1>1, <1>2, <1>3 DEF StatusStep

LEMMA NextType == TypeOK /\ [Next]_vars => TypeOK'
<1>1. TypeOK /\ UNCHANGED vars => TypeOK'
  BY DEF TypeOK, vars
<1> QED
  BY <1>1, HandlerStepType, RuntimeStepType, ManagerStepType, RealtimeStepType,
     StatusStepType DEF Next

\* Every variable keeps its type, for all parameters and all bounds: in
\* particular no handler ever makes a call outside its chain, and the box only
\* ever holds UNKNOWN or a status that came from the topic.
THEOREM TypeCorrect == Spec => []TypeOK
BY InitType, NextType, PTL DEF Spec

-----------------------------------------------------------------------------
(* The inductive invariant.  Order is what TypeOK leaves of Inv. *)

Order == CallMatchesState /\ AwaitedIsLast /\ ActivationOrder /\ ReleaseOrder

LEMMA InitOrder == Init => Order
BY DEF Init, Order, CallMatchesState, AwaitedIsLast, ActivationOrder, ReleaseOrder,
       ManagerSettled, Pending, Requests, Services, Busy, Ready

\* Order only speaks of the handlers, the queues and the controller_manager.
LEMMA OrderFrame ==
    Order /\ UNCHANGED <<handlerVars, queue, managerVars>> => Order'
BY DEF Order, CallMatchesState, AwaitedIsLast, ActivationOrder, ReleaseOrder,
       ManagerSettled, Released, Pending, handlerVars, managerVars

\* A handler may give up at any of its calls: nothing that Order says of an idle
\* module depends on it.
LEMMA ErrorOrder ==
    ASSUME TypeOK, Order, call # "none", ReturnError, UNCHANGED <<queue, managerVars>>
    PROVE  Order'
<1> USE DEF Order, ReturnError, EndHandler, AfterError, managerVars
<1>1. CallMatchesState'
  BY DEF CallMatchesState, Busy, Requests
<1>2. AwaitedIsLast'
  BY DEF AwaitedIsLast, Requests
<1>3. ActivationOrder'
  BY DEF ActivationOrder, CallMatchesState, Busy, Ready
<1>4. ReleaseOrder'
  BY DEF ReleaseOrder, CallMatchesState, Busy, Released, Pending
<1> QED
  BY <1>1, <1>2, <1>3, <1>4

\* A handler goes on, or ends, after an answer that settles what it asked for.
LEMMA SuccessOrder ==
    ASSUME TypeOK, Order, CallSucceeds,
           call \in {"ResetClock", "GetStatus"} \/ (call \in Requests /\ reply = "ok"),
           UNCHANGED <<queue, managerVars>>
    PROVE  Order'
<1> USE ParametersAssumption DEF managerVars
<1>1. CASE Continue
  <2> USE <1>1 DEF Order, Continue, NextCall, FirstActivation
  <2>1. CallMatchesState'
    BY DEF CallMatchesState, Requests, Busy
  <2>2. AwaitedIsLast'
    BY DEF AwaitedIsLast, Requests
  <2>3. ActivationOrder'
    BY DEF ActivationOrder, AwaitedIsLast, CallMatchesState, ServiceOf, Requests,
           ManagerSettled, Ready
  <2>4. ReleaseOrder'
    BY DEF ReleaseOrder, AwaitedIsLast, CallMatchesState, ServiceOf, Requests,
           ManagerSettled, Released, Pending, Busy
  <2> QED
    BY <2>1, <2>2, <2>3, <2>4
<1>2. CASE ReturnOk
  <2> USE <1>2 DEF Order, ReturnOk, EndHandler, NextCall, FirstActivation, AfterOk
  <2>1. CallMatchesState'
    BY DEF CallMatchesState, Requests, Busy
  <2>2. AwaitedIsLast'
    BY DEF AwaitedIsLast, Requests
  <2>3. ActivationOrder'
    BY DEF ActivationOrder, AwaitedIsLast, CallMatchesState, ServiceOf, Requests,
           ManagerSettled, Ready, Busy
  <2>4. ReleaseOrder'
    BY DEF ReleaseOrder, ActivationOrder, AwaitedIsLast, CallMatchesState, ServiceOf,
           Requests, ManagerSettled, Released, Pending, Busy
  <2> QED
    BY <2>1, <2>2, <2>3, <2>4
<1> QED
  BY <1>1, <1>2 DEF CallSucceeds

LEMMA SendOrder == TypeOK /\ Order /\ SendRequest => Order'
<1> SUFFICES ASSUME TypeOK, Order, SendRequest PROVE Order'
  OBVIOUS
<1> DEFINE s == ServiceOf[call]
<1> USE DEF SendRequest, managerVars, Order
<1>1. /\ s \in Services /\ queue[s] \in Seq(Requests)
      /\ queue' = [queue EXCEPT ![s] = Append(queue[s], call)]
  BY ServiceOfRequest DEF TypeOK
<1>2. CallMatchesState'
  BY DEF CallMatchesState
<1>3. AwaitedIsLast'
  <2>1. queue'[s] # <<>> /\ queue'[s][Len(queue'[s])] = call
    <3>1. queue'[s] = Append(queue[s], call) /\ call \in Requests
      BY <1>1 DEF TypeOK
    <3> HIDE DEF s
    <3> QED
      BY <1>1, <3>1
  <2> QED
    BY <2>1 DEF AwaitedIsLast
<1>4. \A t \in Services \ {s} : queue'[t] = queue[t]
  BY <1>1 DEF TypeOK
<1>5. ActivationOrder'
  BY <1>1, <1>4
     DEF ActivationOrder, CallMatchesState, ManagerSettled, ServiceOf, Requests,
         Services, Ready, Busy
<1>6. ReleaseOrder'
  BY <1>1, <1>4
     DEF ReleaseOrder, AwaitedIsLast, CallMatchesState, ManagerSettled, Released, Pending,
         ServiceOf, Requests, Services, Ready, Busy
<1> QED
  BY <1>2, <1>3, <1>5, <1>6

LEMMA HandlerStepOrder == TypeOK /\ Order /\ HandlerStep => Order'
<1> SUFFICES ASSUME TypeOK, Order, HandlerStep PROVE Order'
  OBVIOUS
<1>1. CASE ResetClock
  BY <1>1, SuccessOrder, ErrorOrder DEF ResetClock
<1>2. CASE SendRequest
  BY <1>2, SendOrder
<1>3. CASE ServiceUnavailable
  BY <1>3, ErrorOrder DEF ServiceUnavailable, Requests
<1>4. CASE ReceiveReply
  BY <1>4, SuccessOrder, ErrorOrder DEF ReceiveReply, Requests
<1>5. CASE RequestTimesOut
  BY <1>5, ErrorOrder DEF RequestTimesOut, Requests
<1>6. CASE LockStatus \/ CopyStatus
  BY <1>6 DEF LockStatus, CopyStatus, CopyingStatus, Order, CallMatchesState,
              AwaitedIsLast, ActivationOrder, ReleaseOrder, ManagerSettled, Released,
              Pending, Requests, managerVars
<1>7. CASE CheckStatus
  BY <1>7, SuccessOrder, ErrorOrder DEF CheckStatus
<1> QED
  BY <1>1, <1>2, <1>3, <1>4, <1>5, <1>6, <1>7 DEF HandlerStep

LEMMA RuntimeStepOrder == TypeOK /\ Order /\ RuntimeStep => Order'
<1> SUFFICES ASSUME TypeOK, Order, RuntimeStep PROVE Order'
  OBVIOUS
<1>1. CASE Prepare \/ ClearFaults \/ EnableMotion \/ DisableMotion \/ Shutdown
  <2> USE <1>1, ParametersAssumption
      DEF Prepare, ClearFaults, EnableMotion, DisableMotion, Shutdown, BeginHandler,
          FirstActivation, managerVars, Order
  <2>1. CallMatchesState'
    BY DEF CallMatchesState
  <2>2. AwaitedIsLast'
    BY DEF AwaitedIsLast
  <2>3. ActivationOrder'
    BY DEF ActivationOrder, ManagerSettled, Ready
  <2>4. ReleaseOrder'
    BY DEF ReleaseOrder, CallMatchesState, Released, Pending, Idle
  <2> QED
    BY <2>1, <2>2, <2>3, <2>4
<1>2. CASE Activate \/ Deactivate \/ Create
  BY <1>2 DEF Activate, Deactivate, Create, Order, CallMatchesState, AwaitedIsLast,
              ActivationOrder, ReleaseOrder, ManagerSettled, Released, Pending,
              Busy, Ready, Requests, managerVars
<1>3. CASE Halted
  BY <1>3, OrderFrame DEF Halted, vars, handlerVars, managerVars
<1> QED
  BY <1>1, <1>2, <1>3 DEF RuntimeStep

LEMMA RealtimeStepOrder == TypeOK /\ Order /\ RealtimeStep => Order'
<1> SUFFICES ASSUME TypeOK, Order, RealtimeStep PROVE Order'
  OBVIOUS
<1>1. CASE ApplyCommandWrites
  BY <1>1, OrderFrame DEF ApplyCommandWrites, vars, handlerVars, managerVars
<1>2. CASE ReadStatusFails \/ CycleTimesOut \/ ApplyCommandRejected \/ ApplyCommandFails
  BY <1>2 DEF ReadStatusFails, CycleTimesOut, ApplyCommandRejected, ApplyCommandFails,
              RealtimeError, Order, CallMatchesState, AwaitedIsLast, ActivationOrder,
              ReleaseOrder, ManagerSettled, Released, Pending, Busy, Ready, Commanding,
              Requests, managerVars
<1> QED
  BY <1>1, <1>2 DEF RealtimeStep

LEMMA StatusStepOrder == Order /\ StatusStep => Order'
BY OrderFrame DEF StatusStep, PublishStatus, BeginSetStatus, EndSetStatus

-----------------------------------------------------------------------------
(* The services *)

\* Serving takes one request from one queue; the answer to the awaited request
\* finds the queue empty.
LEMMA ServedOrder ==
    ASSUME TypeOK, Order, NEW s \in Services, queue[s] # <<>>,
           NEW ok \in BOOLEAN, Answer(s, ok)
    PROVE  /\ CallMatchesState' /\ AwaitedIsLast'
           /\ \A t \in Services \ {s} : queue'[t] = queue[t]
           /\ queue[s] \in Seq(Requests) /\ queue'[s] = Tail(queue[s])
           /\ reply' # reply => Awaited(s) /\ Head(queue[s]) = call /\ reply' # "none"
                                /\ (ok <=> reply' = "ok")
<1> USE DEF Answer, Order
<1>1. /\ queue[s] \in Seq(Requests) /\ queue'[s] = Tail(queue[s])
      /\ \A t \in Services \ {s} : queue'[t] = queue[t]
  BY DEF TypeOK
<1>2. CallMatchesState'
  BY DEF CallMatchesState
<1>3. Awaited(s) => Head(queue[s]) = call
  BY <1>1 DEF Awaited, AwaitedIsLast
<1>4. AwaitedIsLast'
  <2>1. ~sent' => reply' = "none"
    BY DEF AwaitedIsLast, Awaited
  <2>2. ASSUME call \in Requests, sent, ServiceOf[call] = s, reply = "none"
        PROVE  IF reply' = "none" THEN Len(queue'[s]) > 0 /\ queue'[s][Len(queue'[s])] = call
               ELSE queue'[s] = <<>>
    <3>1. Len(queue[s]) > 0 /\ queue[s][Len(queue[s])] = call
      BY <2>2 DEF AwaitedIsLast
    <3>2. CASE Len(queue[s]) = 1
      <4>1. Awaited(s)
        BY <2>2, <3>2 DEF Awaited
      <4>2. queue'[s] = <<>> /\ reply' # "none"
        BY <1>1, <3>1, <3>2, <4>1, TailOfQueue
      <4> QED
        BY <4>2
    <3>3. CASE Len(queue[s]) # 1
      <4>1. ~Awaited(s)
        BY <3>3 DEF Awaited
      <4>2. Len(queue'[s]) > 0 /\ queue'[s][Len(queue'[s])] = call
        BY <1>1, <3>1, <3>3, TailOfQueue
      <4> QED
        BY <2>2, <4>1, <4>2
    <3> QED
      BY <3>2, <3>3
  <2>3. ASSUME call \in Requests, sent, ServiceOf[call] # s \/ reply # "none"
        PROVE  /\ ServiceOf[call] # s /\ reply' = reply
               /\ queue'[ServiceOf[call]] = queue[ServiceOf[call]]
    BY <1>1, <2>3, ServiceOfRequest DEF AwaitedIsLast, Awaited
  <2>4. UNCHANGED <<call, sent>>
    OBVIOUS
  <2>5. ASSUME call \in Requests, sent, ServiceOf[call] # s \/ reply # "none"
        PROVE  LET p == queue'[ServiceOf[call]] IN
               IF reply' # "none" THEN p = <<>>
               ELSE IF p = <<>> THEN call = "TriggerClearFaults"
               ELSE p[Len(p)] = call
    BY <2>3, <2>5 DEF AwaitedIsLast
  <2>6. ASSUME call \in Requests, sent
        PROVE  LET p == queue'[ServiceOf[call]] IN
               IF reply' # "none" THEN p = <<>>
               ELSE IF p = <<>> THEN call = "TriggerClearFaults"
               ELSE p[Len(p)] = call
    <3>1. CASE ServiceOf[call] = s /\ reply = "none"
      <4>1. CASE reply' = "none"
        <5>1. Len(queue'[s]) > 0 /\ queue'[s][Len(queue'[s])] = call
          BY <2>2, <2>6, <3>1, <4>1
        <5>2. queue'[s] # <<>>
          BY <5>1, LongIsNotEmpty, Zenon
        <5>3. QED  BY <3>1, <4>1, <5>1, <5>2
      <4>2. CASE reply' # "none"
        BY <2>2, <2>6, <3>1, <4>2
      <4>3. QED  BY <4>1, <4>2
    <3>2. CASE ServiceOf[call] # s \/ reply # "none"
      BY <2>5, <2>6, <3>2
    <3>3. QED  BY <3>1, <3>2
  <2> HIDE DEF Answer, Order
  <2> QED
    BY <2>1, <2>4, <2>6 DEF AwaitedIsLast
<1> QED
  BY <1>1, <1>2, <1>3, <1>4 DEF Awaited

LEMMA ServeClearFaultsOrder == TypeOK /\ Order /\ ServeClearFaults => Order'
<1> SUFFICES ASSUME TypeOK, Order, ServeClearFaults PROVE Order'
  OBVIOUS
<1>1. PICK ok \in BOOLEAN : Answer("clear_faults", ok)
  BY DEF ServeClearFaults
<1>2. /\ CallMatchesState' /\ AwaitedIsLast'
      /\ queue'["set_hw_state"] = queue["set_hw_state"]
      /\ queue'["switch_controller"] = queue["switch_controller"]
      /\ reply' # reply => call = "TriggerClearFaults"
  BY <1>1, ServedOrder
     DEF ServeClearFaults, Services, Awaited, ServiceOf, Requests
<1> USE <1>1, <1>2 DEF Answer, ServeClearFaults, managerVars, Order
<1>3. ActivationOrder'
  BY DEF ActivationOrder, ManagerSettled
<1>4. ReleaseOrder'
  BY DEF ReleaseOrder, ManagerSettled, Released, Pending
<1> QED
  BY <1>2, <1>3, <1>4

LEMMA ServeSetHwStateOrder == TypeOK /\ Order /\ ServeSetHwState => Order'
<1> SUFFICES ASSUME TypeOK, Order, ServeSetHwState PROVE Order'
  OBVIOUS
<1> DEFINE q == queue["set_hw_state"]
<1>1. PICK ok \in BOOLEAN :
        /\ Answer("set_hw_state", ok)
        /\ hwActive' = IF ok THEN Head(q) = "ActivateHardware" ELSE hwActive
  BY DEF ServeSetHwState
<1>2. q # <<>> /\ active' = active
  BY DEF ServeSetHwState
<1>3. /\ CallMatchesState' /\ AwaitedIsLast'
      /\ queue'["clear_faults"] = queue["clear_faults"]
      /\ queue'["switch_controller"] = queue["switch_controller"]
      /\ q \in Seq(Requests) /\ queue'["set_hw_state"] = Tail(q)
  BY <1>1, <1>2, ServedOrder DEF Services
<1>4. reply' # reply => /\ Head(q) = call /\ (ok <=> reply' = "ok")
                        /\ call \in {"ActivateHardware", "DeactivateHardware"}
  BY <1>1, <1>2, ServedOrder DEF Services, Awaited, ServiceOf, Requests
<1> USE DEF Answer, Order
<1>5. ActivationOrder'
  BY <1>1, <1>2, <1>3 DEF ActivationOrder, ManagerSettled
<1>6. Pending("set_hw_state", "DeactivateHardware")'
        => Pending("set_hw_state", "DeactivateHardware")
  <2>1. \A i \in 1..Len(Tail(q)) : i + 1 \in 1..Len(q) /\ Tail(q)[i] = q[i + 1]
    BY <1>2, <1>3
  <2> QED
    BY <1>3, <2>1 DEF Pending
<1>7. ReleaseOrder'
  <2>1. ASSUME call = "DeactivateHardware", reply' = "ok" PROVE ~hwActive'
    <3>1. CASE reply' = reply
      BY <1>2, <2>1, <3>1 DEF AwaitedIsLast, ServiceOf, Requests
    <3>2. CASE reply' # reply
      BY <1>1, <1>4, <2>1, <3>2
    <3> QED
      BY <3>1, <3>2
  <2>2. hwm # "SHUT_DOWN"
    BY <1>2 DEF ReleaseOrder, ManagerSettled
  <2>3. call = "SwitchOff" => reply' = reply
    BY <1>4
  <2> QED
    BY <1>1, <1>2, <1>3, <1>6, <2>1, <2>2, <2>3 DEF ReleaseOrder, Released
<1> QED
  BY <1>3, <1>5, <1>7

LEMMA ServeSwitchControllerOrder == TypeOK /\ Order /\ ServeSwitchController => Order'
<1> SUFFICES ASSUME TypeOK, Order, ServeSwitchController PROVE Order'
  OBVIOUS
<1> DEFINE q == queue["switch_controller"]
           on == IF Head(q) = "SwitchOn" THEN ToActivate ELSE ToDeactivate
           off == IF Head(q) = "SwitchOn" THEN ToDeactivate ELSE ToActivate
<1>1. PICK started \in SUBSET on, stopped \in SUBSET off, ok \in BOOLEAN :
        /\ ok => stopped = off
        /\ active' = (active \ stopped) \cup started
        /\ Answer("switch_controller", ok)
  BY DEF ServeSwitchController, Switch
<1>2. q # <<>> /\ hwActive' = hwActive
  BY DEF ServeSwitchController
<1>3. /\ CallMatchesState' /\ AwaitedIsLast'
      /\ queue'["clear_faults"] = queue["clear_faults"]
      /\ queue'["set_hw_state"] = queue["set_hw_state"]
      /\ queue'["switch_controller"] = Tail(q)
  BY <1>1, <1>2, ServedOrder DEF Services
<1>4. reply' # reply => /\ Head(q) = call /\ (ok <=> reply' = "ok")
                        /\ call \in {"SwitchOn", "SwitchOff"}
                        /\ Len(q) = 1
  BY <1>1, <1>2, ServedOrder DEF Services, Awaited, ServiceOf, Requests
<1>5. q \in Seq(Requests)
  BY DEF TypeOK, Services
<1> USE DEF Answer, Order
<1>6. ActivationOrder'
  BY <1>1, <1>2, <1>3 DEF ActivationOrder, ManagerSettled
<1>7. ReleaseOrder'
  <2>1. ASSUME call = "SwitchOff", reply' = "ok" PROVE Released'
    <3>1. reply' # reply
      BY <1>2, <2>1 DEF ReleaseOrder, Released
    <3>2. Tail(q) = <<>>
      BY <1>2, <1>4, <1>5, <3>1, TailOfQueue
    <3>3. active' \cap Managed = {}
      BY <1>1, <1>4, <2>1, <3>1 DEF Managed
    <3> QED
      BY <1>3, <3>2, <3>3 DEF Released
  <2>2. call # "DeactivateHardware"
    BY <1>2 DEF ReleaseOrder, Released
  <2>3. hwm # "SHUT_DOWN" /\ ~Pending("set_hw_state", "DeactivateHardware")
    BY <1>2 DEF ReleaseOrder, Released
  <2> QED
    BY <1>1, <1>3, <2>1, <2>2, <2>3 DEF ReleaseOrder, Pending
<1> QED
  BY <1>3, <1>6, <1>7

\* Nothing of a dead vendor node is waited for but the answer to a Trigger.
LEMMA VendorNodeDiesOrder == TypeOK /\ Order /\ VendorNodeDies => Order'
<1> SUFFICES ASSUME TypeOK, Order, VendorNodeDies PROVE Order'
  OBVIOUS
<1>1. /\ queue'["clear_faults"] = <<>>
      /\ queue'["set_hw_state"] = queue["set_hw_state"]
      /\ queue'["switch_controller"] = queue["switch_controller"]
  BY DEF VendorNodeDies, TypeOK, Services
<1> USE <1>1 DEF VendorNodeDies, Order, handlerVars, managerVars
<1>2. CallMatchesState'
  BY DEF CallMatchesState
<1>3. AwaitedIsLast'
  BY DEF AwaitedIsLast, ServiceOf, Requests
<1>4. ActivationOrder'
  BY DEF ActivationOrder, ManagerSettled
<1>5. ReleaseOrder'
  BY DEF ReleaseOrder, ManagerSettled, Released, Pending
<1> QED
  BY <1>2, <1>3, <1>4, <1>5

LEMMA HardwareErrorOrder == Order /\ HardwareError => Order'
BY DEF HardwareError, Order, CallMatchesState, AwaitedIsLast, ActivationOrder,
       ReleaseOrder, ManagerSettled, Released, Pending, handlerVars

LEMMA NextOrder == TypeOK /\ Order /\ [Next]_vars => Order'
<1>1. Order /\ UNCHANGED vars => Order'
  BY OrderFrame DEF vars, handlerVars, managerVars
<1>2. TypeOK /\ Order /\ ManagerStep => Order'
  BY ServeClearFaultsOrder, ServeSetHwStateOrder, ServeSwitchControllerOrder,
     VendorNodeDiesOrder, HardwareErrorOrder DEF ManagerStep
<1> QED
  BY <1>1, <1>2, HandlerStepOrder, RuntimeStepOrder, RealtimeStepOrder, StatusStepOrder
     DEF Next

-----------------------------------------------------------------------------
(* The robot is managed *)

\* What Inv does not say of the requests waiting and of the competing controllers.
Managing == OwnRequests /\ StoodDown

LEMMA InitManaging == Init => Managing
<1>1. ASSUME Init, NEW s \in Services
      PROVE  queue[s] \in Seq(RequestsTo(s))
  BY <1>1 DEF Init
<1> QED
  BY <1>1 DEF Init, Managing, OwnRequests, StoodDown, Ready

\* Neither handlers, runtime and realtime thread nor the status topic touch the robot.
LocalStep == HandlerStep \/ RuntimeStep \/ RealtimeStep \/ StatusStep

LEMMA LocalStepLeavesRobot == LocalStep => UNCHANGED managerVars
<1>1. HandlerStep => UNCHANGED managerVars
  BY DEF HandlerStep, ResetClock, SendRequest, ServiceUnavailable, ReceiveReply,
         RequestTimesOut, LockStatus, CopyStatus, CheckStatus
<1>2. RuntimeStep => UNCHANGED managerVars
  BY DEF RuntimeStep, Prepare, ClearFaults, EnableMotion, DisableMotion, Shutdown,
         Activate, Deactivate, Create, Halted, vars, managerVars
<1>3. RealtimeStep => UNCHANGED managerVars
  BY DEF RealtimeStep, ReadStatusFails, CycleTimesOut, ApplyCommandRejected,
         ApplyCommandWrites, ApplyCommandFails, RealtimeError, vars, managerVars
<1>4. StatusStep => UNCHANGED managerVars
  BY DEF StatusStep, PublishStatus, BeginSetStatus, EndSetStatus
<1> QED
  BY <1>1, <1>2, <1>3, <1>4 DEF LocalStep

LEMMA OwnRequestIsSent ==
    ASSUME OwnRequests, NEW r \in Requests, NEW s \in Services,
           queue' = [queue EXCEPT ![ServiceOf[r]] = Append(@, r)],
           queue \in [Services -> Seq(Requests)]
    PROVE  queue'[s] \in Seq(RequestsTo(s))
<1>1. queue[s] \in Seq(RequestsTo(s))
  BY DEF OwnRequests
<1>2. CASE s = ServiceOf[r]
  <2>1. r \in RequestsTo(s)  BY <1>2 DEF RequestsTo
  <2>2. Append(queue[s], r) \in Seq(RequestsTo(s))  BY <1>1, <2>1
  <2>3. queue'[s] = Append(queue[s], r)  BY <1>2
  <2> QED
    BY <2>2, <2>3
<1>3. CASE s # ServiceOf[r]
  BY <1>1, <1>3
<1> QED
  BY <1>2, <1>3

LEMMA OwnRequestsStep == TypeOK /\ OwnRequests /\ [Next]_vars => OwnRequests'
<1> SUFFICES ASSUME TypeOK, OwnRequests, [Next]_vars, NEW s \in Services
             PROVE  queue'[s] \in Seq(RequestsTo(s))
  BY DEF OwnRequests
<1>1. queue[s] \in Seq(RequestsTo(s)) /\ queue \in [Services -> Seq(Requests)]
  BY DEF OwnRequests, TypeOK
<1>2. CASE SendRequest
  BY <1>1, <1>2, OwnRequestIsSent DEF SendRequest
<1>3. ASSUME NEW t \in Services, queue[t] # <<>>, queue' = [queue EXCEPT ![t] = Tail(@)]
      PROVE  queue'[s] \in Seq(RequestsTo(s))
  <2>1. CASE s = t
    <3>1. queue'[s] = Tail(queue[s])  BY <1>1, <1>3, <2>1
    <3>2. Tail(queue[s]) \in Seq(RequestsTo(s))  BY <1>1, <1>3, <2>1
    <3> QED
      BY <3>1, <3>2
  <2>2. CASE s # t
    BY <1>1, <1>3, <2>2
  <2> QED
    BY <2>1, <2>2
<1>4. CASE ServeClearFaults \/ ServeSetHwState \/ ServeSwitchController
  BY <1>3, <1>4 DEF ServeClearFaults, ServeSetHwState, ServeSwitchController, Switch,
                    Answer, Services
<1>5. CASE VendorNodeDies
  <2>1. queue'[s] = queue[s] \/ queue'[s] = <<>>
    BY <1>1, <1>5 DEF VendorNodeDies
  <2>2. <<>> \in Seq(RequestsTo(s))
    OBVIOUS
  <2> QED
    BY <1>1, <2>1, <2>2
<1>6. CASE queue' = queue
  BY <1>1, <1>6
<1>7. SendRequest \/ queue' = queue \/ ManagerStep
  BY DEF Next, HandlerStep, ResetClock, ServiceUnavailable, ReceiveReply,
         RequestTimesOut, LockStatus, CopyStatus, CheckStatus, RuntimeStep, Prepare,
         ClearFaults, EnableMotion, DisableMotion, Shutdown, Activate, Deactivate,
         Create, Halted, RealtimeStep, ReadStatusFails, CycleTimesOut,
         ApplyCommandRejected, ApplyCommandWrites, ApplyCommandFails, RealtimeError,
         StatusStep, PublishStatus, BeginSetStatus, EndSetStatus, vars
<1> QED
  BY <1>2, <1>4, <1>5, <1>6, <1>7 DEF ManagerStep, HardwareError

\* A module gets ready from the OK of SwitchOn, or stays so.
LEMMA BecomingReady ==
    ASSUME TypeOK, Order, LocalStep, StoodDown
    PROVE  StoodDown'
<1>1. UNCHANGED managerVars
  BY LocalStepLeavesRobot
<1>2. ASSUME (call' = "SwitchOn" /\ reply' = "ok") \/ hwm' \in Ready
      PROVE  (call = "SwitchOn" /\ reply = "ok") \/ hwm \in Ready
  <2> USE <1>2 DEF Ready
  <2>1. CASE HandlerStep
    <3> USE DEF CallSucceeds, Continue, ReturnOk, ReturnError, EndHandler, AfterOk,
                AfterError, Busy, NextCall, FirstActivation
    <3>1. CASE ResetClock \/ CheckStatus
      BY <3>1 DEF ResetClock, CheckStatus, Order, CallMatchesState
    <3>2. CASE ServiceUnavailable \/ RequestTimesOut
      BY <3>2 DEF ServiceUnavailable, RequestTimesOut, Requests
    <3>3. CASE ReceiveReply
      BY <3>3 DEF ReceiveReply, Order, CallMatchesState, Requests
    <3>4. CASE SendRequest \/ LockStatus \/ CopyStatus
      BY <3>4 DEF SendRequest, LockStatus, CopyStatus, CopyingStatus
    <3> QED
      BY <2>1, <3>1, <3>2, <3>3, <3>4 DEF HandlerStep
  <2>2. CASE RuntimeStep
    BY <2>2 DEF RuntimeStep, Prepare, ClearFaults, EnableMotion, DisableMotion, Shutdown,
                Activate, Deactivate, Create, Halted, BeginHandler, vars
  <2>3. CASE RealtimeStep \/ StatusStep
    BY <2>3 DEF RealtimeStep, ReadStatusFails, CycleTimesOut, ApplyCommandRejected,
                ApplyCommandWrites, ApplyCommandFails, RealtimeError, StatusStep,
                PublishStatus, BeginSetStatus, EndSetStatus, vars, handlerVars
  <2> QED
    BY <2>1, <2>2, <2>3 DEF LocalStep
<1> QED
  BY <1>1, <1>2 DEF StoodDown, managerVars

\* The awaited OK of SwitchOn is that of the switch which stops them.
LEMMA SwitchStandsDown ==
    ASSUME TypeOK, Order, StoodDown, ServeSwitchController
    PROVE  StoodDown'
<1> DEFINE q == queue["switch_controller"]
           on == IF Head(q) = "SwitchOn" THEN ToActivate ELSE ToDeactivate
           off == IF Head(q) = "SwitchOn" THEN ToDeactivate ELSE ToActivate
<1>1. PICK started \in SUBSET on, stopped \in SUBSET off, ok \in BOOLEAN :
        /\ ok => stopped = off
        /\ active' = (active \ stopped) \cup started
        /\ Answer("switch_controller", ok)
  BY DEF ServeSwitchController, Switch
<1>2. hwm' \notin Ready
  BY DEF ServeSwitchController, Order, ActivationOrder, ManagerSettled, Switch, Answer
<1>3. ASSUME call' = "SwitchOn", reply' = "ok"
      PROVE  active' \cap Competing = {}
  <2>1. call = "SwitchOn" /\ q # <<>>
    BY <1>1, <1>3 DEF Answer, ServeSwitchController
  <2>2. reply # "ok"
    BY <2>1 DEF Order, AwaitedIsLast, ServiceOf, Requests
  <2>3. Head(q) = call /\ ok
    BY <1>1, <1>3, <2>1, <2>2, ServedOrder DEF Services
  <2>4. stopped = ToDeactivate /\ started \subseteq ToActivate
    BY <1>1, <2>1, <2>3
  <2> QED
    BY <1>1, <2>4 DEF Competing
<1> QED
  BY <1>2, <1>3 DEF StoodDown

LEMMA NextManaging == TypeOK /\ Order /\ Managing /\ [Next]_vars => Managing'
<1> SUFFICES ASSUME TypeOK, Order, Managing, [Next]_vars PROVE StoodDown'
  BY OwnRequestsStep DEF Managing
<1>1. CASE LocalStep
  BY <1>1, BecomingReady DEF Managing
<1>2. CASE ServeSwitchController
  BY <1>2, SwitchStandsDown DEF Managing
<1>3. CASE ServeSetHwState \/ ServeClearFaults
  <2>1. PICK t \in {"set_hw_state", "clear_faults"}, ok \in BOOLEAN :
          queue[t] # <<>> /\ Answer(t, ok)
    BY <1>3 DEF ServeSetHwState, ServeClearFaults
  <2>2. active' = active /\ hwm' = hwm /\ call' = call
    BY <1>3, <2>1 DEF ServeSetHwState, ServeClearFaults, Answer, managerVars
  <2>3. call = "SwitchOn" => reply' = reply
    BY <2>1 DEF Answer, Awaited, ServiceOf
  <2> QED
    BY <2>2, <2>3 DEF Managing, StoodDown
<1>4. CASE VendorNodeDies \/ HardwareError \/ UNCHANGED vars
  BY <1>4 DEF VendorNodeDies, HardwareError, Managing, StoodDown, handlerVars,
              managerVars, vars
<1> QED
  BY <1>1, <1>2, <1>3, <1>4 DEF Next, LocalStep, ManagerStep

-----------------------------------------------------------------------------
(* The refinement of ManagedRobot, step by step *)

LEMMA InitManaged == Init => Robot!Init
BY DEF Init, Robot!Init, Phase, Ready

\* Whoever leaves SHUT_DOWN has to get ready anew, and nobody gets there at once.
LEMMA PhasesInOrder ==
    ASSUME TypeOK, Order, LocalStep
    PROVE  /\ hwm = "SHUT_DOWN" => hwm' \notin Ready
           /\ hwm \in Ready => hwm' # "SHUT_DOWN"
<1> USE DEF Ready
<1>1. CASE HandlerStep
  <2> USE DEF CallSucceeds, Continue, ReturnOk, ReturnError, EndHandler, AfterOk,
              AfterError, Busy
  <2>1. hwm \notin {"SHUT_DOWN", "PREPARED", "ACTIVATED", "MOTION_ENABLED"}
    BY <1>1 DEF HandlerStep, ResetClock, SendRequest, ServiceUnavailable, ReceiveReply,
                RequestTimesOut, LockStatus, CopyStatus, CheckStatus, CopyingStatus,
                Order, CallMatchesState, Requests
  <2>2. ASSUME hwm \in {"MOTION_ENABLING", "MOTION_DISABLING"}
        PROVE  hwm' # "SHUT_DOWN"
    BY <1>1, <2>2
       DEF HandlerStep, ResetClock, SendRequest, ServiceUnavailable, ReceiveReply,
           RequestTimesOut, LockStatus, CopyStatus, CheckStatus
  <2> QED
    BY <2>1, <2>2
<1>2. CASE RuntimeStep
  BY <1>2 DEF RuntimeStep, Prepare, ClearFaults, EnableMotion, DisableMotion, Shutdown,
              Activate, Deactivate, Create, Halted, BeginHandler, vars
<1>3. CASE RealtimeStep \/ StatusStep
  BY <1>3 DEF RealtimeStep, ReadStatusFails, CycleTimesOut, ApplyCommandRejected,
              ApplyCommandWrites, ApplyCommandFails, RealtimeError, Commanding,
              StatusStep, PublishStatus, BeginSetStatus, EndSetStatus, vars, handlerVars
<1> QED
  BY <1>1, <1>2, <1>3 DEF LocalStep

\* A step of the module itself changes at most the phase.
LEMMA LocalStepManages ==
    ASSUME TypeOK, Order, Managing, LocalStep, Order', Managing'
    PROVE  [Robot!Next]_(Robot!robotVars)
<1>1. hwActive' = hwActive /\ active' = active
  BY LocalStepLeavesRobot DEF managerVars
<1>2. CASE Phase' = Phase
  BY <1>1, <1>2 DEF Robot!robotVars
<1>3. CASE Phase = "changing" /\ Phase' = "ready"
  <2>1. active \cap (ToDeactivate \ ToActivate) = {}
    BY <1>1, <1>3 DEF Managing, StoodDown, Phase, Competing
  <2> QED
    BY <1>1, <1>3, <2>1 DEF Robot!Next, Robot!GetReady
<1>4. CASE Phase = "changing" /\ Phase' = "released"
  <2>1. active \cap (ToActivate \ ToDeactivate) = {} /\ (HasHardwareComponent => ~hwActive)
    BY <1>1, <1>4 DEF Order, ReleaseOrder, Released, Phase, Managed
  <2> QED
    BY <1>1, <1>4, <2>1 DEF Robot!Next, Robot!Release
<1>5. CASE Phase = "ready" /\ Phase' = "changing"
  BY <1>1, <1>5 DEF Robot!Next, Robot!Withdraw
<1>6. CASE Phase = "released" /\ Phase' = "changing"
  BY <1>1, <1>6 DEF Robot!Next, Robot!TakeAgain
<1>7. ~(Phase = "ready" /\ Phase' = "released") /\ ~(Phase = "released" /\ Phase' = "ready")
  BY PhasesInOrder DEF Phase
<1> QED
  BY <1>2, <1>3, <1>4, <1>5, <1>6, <1>7 DEF Phase

\* The controller_manager has work for the module only while nobody relies on it.
LEMMA WorkMeansChanging ==
    ASSUME Order, queue["set_hw_state"] # <<>> \/ queue["switch_controller"] # <<>>
    PROVE  Phase = "changing"
BY DEF Order, ActivationOrder, ReleaseOrder, ManagerSettled, Phase

LEMMA SetHwStateManages ==
    ASSUME TypeOK, Order, Managing, ServeSetHwState
    PROVE  [Robot!Next]_(Robot!robotVars)
<1> DEFINE q == queue["set_hw_state"]
<1>1. Phase = "changing" /\ HasHardwareComponent /\ Phase' = Phase /\ active' = active
  BY WorkMeansChanging, ParametersAssumption
     DEF ServeSetHwState, Answer, Phase, Order, ActivationOrder
<1>2. CASE hwActive' = hwActive
  BY <1>1, <1>2 DEF Robot!robotVars
<1>3. CASE hwActive' = (Head(q) = "ActivateHardware") /\ Head(q) = "ActivateHardware"
  <2>1. hwActive' = TRUE  BY <1>3, Zenon
  <2> QED
    BY <1>1, <2>1 DEF Robot!Next, Robot!ActivateHardware
<1>4. CASE hwActive' = (Head(q) = "ActivateHardware") /\ Head(q) # "ActivateHardware"
  <2>1. hwActive' = FALSE  BY <1>4, Zenon
  <2>2. q \in Seq(RequestsTo("set_hw_state")) /\ q # <<>>
    BY DEF Managing, OwnRequests, Services, ServeSetHwState
  <2>3. Head(q) \in RequestsTo("set_hw_state") /\ 1 \in 1..Len(q) /\ Head(q) = q[1]
    BY <2>2
  <2>4. Head(q) = "DeactivateHardware"
    BY <1>4, <2>3 DEF RequestsTo, Requests, ServiceOf
  <2>5. Pending("set_hw_state", "DeactivateHardware")
    BY <2>3, <2>4 DEF Pending
  <2>6. active \cap (ToActivate \ ToDeactivate) = {}
    BY <2>5 DEF Order, ReleaseOrder, Released, Managed
  <2> QED
    BY <1>1, <2>1, <2>6 DEF Robot!Next, Robot!DeactivateHardware
<1> QED
  BY <1>2, <1>3, <1>4 DEF ServeSetHwState

LEMMA SwitchControllerManages ==
    ASSUME Order, ServeSwitchController
    PROVE  Robot!Next
<1>1. Phase = "changing" /\ hwActive' = hwActive
  BY WorkMeansChanging DEF ServeSwitchController
<1>2. PICK on \in {ToActivate, ToDeactivate}, off \in {ToActivate, ToDeactivate} :
        Switch(on, off)
  BY DEF ServeSwitchController
<1>3. PICK started \in SUBSET on, stopped \in SUBSET off, ok \in BOOLEAN :
        active' = (active \ stopped) \cup started /\ Answer("switch_controller", ok)
  BY <1>2 DEF Switch
<1>4. Phase' = Phase
  BY <1>3 DEF Answer, Phase
<1>5. /\ active' \in SUBSET (active \cup ToActivate \cup ToDeactivate)
      /\ active \ (ToActivate \cup ToDeactivate) \subseteq active'
  BY <1>3
<1> QED
  BY <1>1, <1>4, <1>5 DEF Robot!Next, Robot!SwitchControllers

LEMMA NextManages ==
    ASSUME TypeOK, Order, Managing, [Next]_vars, Order', Managing'
    PROVE  [Robot!Next]_(Robot!robotVars)
<1>1. CASE LocalStep
  BY <1>1, LocalStepManages
<1>2. CASE ServeSetHwState
  BY <1>2, SetHwStateManages
<1>3. CASE ServeSwitchController
  BY <1>3, SwitchControllerManages
<1>4. CASE HardwareError
  <2>1. Phase' = Phase
    BY <1>4 DEF HardwareError, handlerVars, Phase
  <2>2. active' \in SUBSET (active \ {Icon}) /\ hwActive /\ hwActive' = FALSE
    BY <1>4 DEF HardwareError
  <2> QED
    BY <2>1, <2>2 DEF Robot!Next, Robot!HardwareError
<1>5. CASE ServeClearFaults \/ VendorNodeDies \/ UNCHANGED vars
  BY <1>5 DEF ServeClearFaults, VendorNodeDies, Answer, managerVars, handlerVars, vars,
              Phase, Robot!robotVars
<1> QED
  BY <1>1, <1>2, <1>3, <1>4, <1>5 DEF Next, ManagerStep, LocalStep

-----------------------------------------------------------------------------
(* Theorems *)

\* Inv is an invariant of every instance.
THEOREM Invariance == Spec => []Inv
<1>1. Init => TypeOK /\ Order
  BY InitType, InitOrder
<1>2. TypeOK /\ Order /\ [Next]_vars => (TypeOK /\ Order)'
  BY NextType, NextOrder
<1>3. TypeOK /\ Order <=> Inv
  BY DEF Order, Inv
<1> QED
  BY <1>1, <1>2, <1>3, PTL DEF Spec

\* When the module is ready, no request an earlier handler abandoned after its
\* 5 s is left to be executed by the controller_manager.
THEOREM Settled == Spec => []SettledWhenReady
<1>1. Inv => SettledWhenReady
  BY DEF Inv, ActivationOrder, ManagerSettled, SettledWhenReady
<1> QED
  BY <1>1, Invariance, PTL

\* A Shutdown() that returned OK has stopped every controller only this module
\* starts and the hardware component, for good.
THEOREM FinalShutdown == Spec => []ShutdownIsFinal
<1>1. Inv => ShutdownIsFinal
  BY DEF Inv, ReleaseOrder, ManagerSettled, Released, ShutdownIsFinal
<1> QED
  BY <1>1, Invariance, PTL

\* The hardware component is only deactivated after the controllers.
THEOREM OrderedRelease == Spec => []DeactivateOnlyWhenReleased
<1>1. Inv => DeactivateOnlyWhenReleased
  BY DEF Inv, ReleaseOrder, Released, DeactivateOnlyWhenReleased
<1> QED
  BY <1>1, Invariance, PTL

\* ClearFaults() re-activates only after the vendor's recovery.
THEOREM OrderedRecovery == Spec => []RecoveryBeforeReactivation
<1>1. Inv => RecoveryBeforeReactivation
  BY DEF Inv, ActivationOrder, RecoveryBeforeReactivation
<1> QED
  BY <1>1, Invariance, PTL

\* While the module is ready the controllers it had to stop for the plugin stay
\* stopped, whatever requests it has given up on.
THEOREM CompetingStayStopped == Spec => []CompetingAreStopped
<1>1. Init => TypeOK /\ Order /\ Managing
  BY InitType, InitOrder, InitManaging
<1>2. TypeOK /\ Order /\ Managing /\ [Next]_vars => (TypeOK /\ Order /\ Managing)'
  BY NextType, NextOrder, NextManaging
<1>3. Managing => CompetingAreStopped
  BY DEF Managing, StoodDown, CompetingAreStopped
<1> QED
  BY <1>1, <1>2, <1>3, PTL DEF Spec

\* Every step of the module and of its services is a step of ManagedRobot, or
\* changes nothing that it speaks of.
THEOREM ImplementsManagedRobot == Spec => RobotIsManaged
<1>1. Init => TypeOK /\ Order /\ Managing /\ Robot!Init
  BY InitType, InitOrder, InitManaging, InitManaged
<1>2. TypeOK /\ Order /\ Managing /\ [Next]_vars => (TypeOK /\ Order /\ Managing)'
  BY NextType, NextOrder, NextManaging
<1>3. TypeOK /\ Order /\ Managing /\ [Next]_vars /\ (TypeOK /\ Order /\ Managing)'
        => [Robot!Next]_(Robot!robotVars)
  BY NextManages
<1> QED
  BY <1>1, <1>2, <1>3, PTL DEF Spec, Robot!Spec, RobotIsManaged

-----------------------------------------------------------------------------
(* Handlers are short *)

\* The calls a handler can still make, the one it is in included.
CallsLeft ==
    IF call = "none" THEN 0
    ELSE IF call \in {"SwitchOn", "DeactivateHardware", "GetStatus"} THEN 1
    ELSE IF call \in {"ActivateHardware", "SwitchOff"} THEN 2
    ELSE 3

\* The steps it can still be part of: of each call the request, its answer and
\* the return.
StepsLeft ==
    IF call = "none" THEN 0
    ELSE 3 * CallsLeft - (IF ~sent THEN 0 ELSE IF reply = "none" THEN 1 ELSE 2)

LEMMA CallsLeftType == CallsLeft \in 0..3 /\ (call # "none" => CallsLeft \in 1..3)
BY DEF CallsLeft

\* A return leaves one call less, whatever it says.
LEMMA ReturnsAdvance ==
    ASSUME TypeOK, call # "none", CallSucceeds \/ ReturnError
    PROVE  StepsLeft' < StepsLeft
<1>1. sent' = FALSE /\ CallsLeft' < CallsLeft
  <2>1. CASE Continue
    BY <2>1 DEF Continue, NextCall, FirstActivation, CallsLeft, TypeOK, Calls, Requests
  <2>2. CASE ReturnOk \/ ReturnError
    BY <2>2 DEF ReturnOk, ReturnError, EndHandler, CallsLeft
  <2>3. QED  BY <2>1, <2>2 DEF CallSucceeds
<1>2. CallsLeft \in 1..3 /\ CallsLeft' \in 0..3
  BY DEF CallsLeft
<1>3. StepsLeft' = 3 * CallsLeft'  BY <1>1, <1>2 DEF StepsLeft, CallsLeft
<1>4. StepsLeft \in Int /\ StepsLeft >= 3 * CallsLeft - 2  BY <1>2 DEF StepsLeft
<1>5. \A m, n \in 0..3, p, q \in Int :
        m < n /\ p = 3 * m /\ q >= 3 * n - 2 => p < q
  OBVIOUS
<1>6. StepsLeft' \in Int  BY <1>2, <1>3
<1>7. CallsLeft \in 0..3  BY <1>2
<1>8. QED  BY <1>1, <1>2, <1>3, <1>4, <1>5, <1>6, <1>7

LEMMA HandlerAdvances ==
    ASSUME TypeOK, Order, HandlerStep
    PROVE  StepsLeft' < StepsLeft
<1>1. CASE ResetClock \/ ServiceUnavailable \/ ReceiveReply \/ RequestTimesOut \/ CheckStatus
  BY <1>1, ReturnsAdvance DEF ResetClock, ServiceUnavailable, ReceiveReply,
     RequestTimesOut, CheckStatus, Requests
<1>2. CASE SendRequest \/ LockStatus
  <2>1. /\ call # "none" /\ call' = call /\ ~sent /\ sent' = TRUE /\ reply' = reply /\ reply = "none"
    BY <1>2 DEF SendRequest, LockStatus, Order, AwaitedIsLast, Requests
  <2>2. CallsLeft' = CallsLeft  BY <2>1 DEF CallsLeft
  <2>3. QED  BY <2>1, <2>2, CallsLeftType DEF StepsLeft
<1>3. CASE CopyStatus
  <2>1. call # "none" /\ call' = call /\ sent /\ sent' = sent /\ reply = "none" /\ reply' # "none"
    BY <1>3 DEF CopyStatus, CopyingStatus
  <2>2. CallsLeft' = CallsLeft  BY <2>1 DEF CallsLeft
  <2>3. QED  BY <2>1, <2>2, CallsLeftType DEF StepsLeft
<1>4. QED  BY <1>1, <1>2, <1>3 DEF HandlerStep

\* Nobody else gives a running handler more to do.
LEMMA OthersAdvanceNothing ==
    ASSUME call # "none", RuntimeStep \/ ManagerStep \/ RealtimeStep \/ StatusStep
    PROVE  StepsLeft' <= StepsLeft
<1>1. /\ call' = call /\ sent' = sent
      /\ reply' = reply \/ (sent /\ reply = "none")
  <2>1. CASE RuntimeStep
    BY <2>1 DEF RuntimeStep, Prepare, ClearFaults, EnableMotion, DisableMotion, Shutdown,
       BeginHandler, Activate, Deactivate, Create, Halted, vars
  <2>2. CASE ManagerStep
    BY <2>2 DEF ManagerStep, ServeClearFaults, ServeSetHwState, ServeSwitchController,
       Switch, Answer, Awaited, VendorNodeDies, HardwareError, handlerVars
  <2>3. CASE RealtimeStep \/ StatusStep
    BY <2>3 DEF RealtimeStep, ReadStatusFails, CycleTimesOut, ApplyCommandRejected,
       ApplyCommandWrites, ApplyCommandFails, RealtimeError, StatusStep, PublishStatus,
       BeginSetStatus, EndSetStatus, handlerVars, vars
  <2>4. QED  BY <2>1, <2>2, <2>3
<1>2. CallsLeft' = CallsLeft  BY <1>1 DEF CallsLeft
<1>3. QED  BY <1>1, <1>2, CallsLeftType DEF StepsLeft

\* Every step of a handler brings its end nearer and no other step puts it off.
HandlersAdvance ==
    /\ HandlerStep => StepsLeft' < StepsLeft
    /\ call # "none" => StepsLeft' <= StepsLeft

\* A handler makes at most nine steps, whatever happens beside it: the half of
\* HandlersTerminate that needs no fairness.
THEOREM HandlersAreShort ==
    Spec => [](StepsLeft \in 0..9) /\ [][HandlersAdvance]_vars
<1>1. TypeOK => StepsLeft \in 0..9
  BY CallsLeftType DEF StepsLeft
<1>2. TypeOK /\ Order /\ [Next]_vars => [HandlersAdvance]_vars
  <2> SUFFICES ASSUME TypeOK, Order, Next PROVE HandlersAdvance
    OBVIOUS
  <2>1. CASE HandlerStep
    <3>1. StepsLeft' < StepsLeft  BY <2>1, HandlerAdvances
    <3>2. StepsLeft \in 0..9 /\ StepsLeft' \in 0..9
      BY CallsLeftType, NextType, <1>1 DEF StepsLeft, CallsLeft
    <3>3. QED  BY <3>1, <3>2 DEF HandlersAdvance
  <2>2. CASE ~HandlerStep
    BY <2>2, OthersAdvanceNothing DEF HandlersAdvance, Next
  <2>3. QED  BY <2>1, <2>2
<1>3. TypeOK /\ Order /\ [Next]_vars => (TypeOK /\ Order)'
  BY NextType, NextOrder
<1>4. QED
  BY <1>1, <1>2, <1>3, InitType, InitOrder, PTL DEF Spec

=============================================================================
