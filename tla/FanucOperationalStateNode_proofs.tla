------------------- MODULE FanucOperationalStateNode_proofs -------------------
(***************************************************************************)
(* What the FANUC node does for every robot condition and any number of    *)
(* requests it has given up on.                                            *)
(***************************************************************************)
EXTENDS FanucOperationalStateNode, TLAPS

\* The order of the tests in ToOperationalStatus() is the README's table: there
\* is no combination of flags for which they differ.
THEOREM TableIsImplemented ==
    \A r \in RobotStatuses : ToOperationalStatus(r) = Documented(r)
BY DEF RobotStatuses, ContactStops, ToOperationalStatus, Documented, Stopped,
       Manual, Alarmed

LEMMA StatusIsTyped ==
    \A r \in RobotStatuses : ToOperationalStatus(r) \in Statuses
BY DEF ToOperationalStatus, Statuses

-----------------------------------------------------------------------------
(* The invariant *)

\* Only the topic thread holds copies, and a copy is of the current status.
CopiesAreCurrent ==
    /\ outbox["clear"] = NoMessage
    /\ outbox["topic"] \in {NoMessage, status}

\* An answer is the one to the last request: no other of its kind is left.
AnswerEndsQueue ==
    reply # "none" => clear \in Services /\ pending[clear] = 0

\* A reset that was confirmed has been done, and so has every earlier one, so
\* none can interfere with the switch.
AlarmsAreReset ==
    (clear \in {"send_switch", "switch_control_state"} \/ (clear = "reset" /\ reply = "ok"))
        => pending["reset"] = 0 /\ recovered \in {"alarms", "control"}

ControlIsRestored ==
    clear = "switch_control_state" /\ reply = "ok" => recovered = "control"

Inv ==
    /\ TypeOK
    /\ CopiesAreCurrent
    /\ PublishedIsCurrent
    /\ AnswerEndsQueue
    /\ AlarmsAreReset
    /\ ControlIsRestored

\* The three conjuncts that relate ClearFaults() to the robot's requests.
RecoveryInv == AnswerEndsQueue /\ AlarmsAreReset /\ ControlIsRestored
\* The two that relate copies, cache and topic.
PublicationInv == CopiesAreCurrent /\ PublishedIsCurrent

-----------------------------------------------------------------------------
LEMMA InitInv == Init => Inv
BY DEF Init, Inv, TypeOK, PublisherInit, PublisherTypeOK, Threads, Statuses, NoMessage,
       Services, ClearSteps, CopiesAreCurrent, PublishedIsCurrent, AnswerEndsQueue,
       AlarmsAreReset, ControlIsRestored

\* The topic thread and the robot leave the recovery alone.
LEMMA TopicStepInv ==
    ASSUME Inv, TopicStep
    PROVE  Inv'
<1> USE DEF Inv, TypeOK, PublisherTypeOK, Threads, NoMessage, Statuses, clearVars, robotVars
<1>1. RecoveryInv'
  BY DEF RecoveryInv, AnswerEndsQueue, AlarmsAreReset, ControlIsRestored, Services,
         TopicStep, RobotStatusCallback, PublishTimer, PublishTopicCopy
<1>2. CASE RobotStatusCallback
  <2>1. PICK c \in Conditions : sample = <<c>>
    BY <1>2 DEF RobotStatusCallback
  <2>2. /\ CacheAndCopy("topic", ToOperationalStatus(c))
        /\ sample' = <<>>
    BY <1>2, <2>1 DEF RobotStatusCallback
  <2>3. ToOperationalStatus(c) \in Statuses
    BY StatusIsTyped, ConditionsAssumption
  <2>4. TypeOK'
    BY <1>2, <2>2, <2>3 DEF RobotStatusCallback, CacheAndCopy
  <2>5. PublicationInv'
    BY <2>2, <2>3 DEF CacheAndCopy, PublicationInv, CopiesAreCurrent, PublishedIsCurrent
  <2>6. QED  BY <1>1, <2>4, <2>5 DEF RecoveryInv, PublicationInv
<1>3. CASE PublishTimer
  <2>1. TypeOK'
    BY <1>3 DEF PublishTimer, CopyStatusTo, CacheAndCopy
  <2>2. PublicationInv'
    BY <1>3 DEF PublishTimer, CopyStatusTo, CacheAndCopy, PublicationInv,
                CopiesAreCurrent, PublishedIsCurrent
  <2>3. QED  BY <1>1, <2>1, <2>2 DEF RecoveryInv, PublicationInv
<1>4. CASE PublishTopicCopy
  <2>1. TypeOK'
    BY <1>4 DEF PublishTopicCopy, PublishCopy, CopiesAreCurrent
  <2>2. PublicationInv'
    BY <1>4 DEF PublishTopicCopy, PublishCopy, PublicationInv, CopiesAreCurrent,
                PublishedIsCurrent
  <2>3. QED  BY <1>1, <2>1, <2>2 DEF RecoveryInv, PublicationInv
<1>5. QED  BY <1>2, <1>3, <1>4 DEF TopicStep

\* The robot may answer an abandoned request at any time, but an abandoned
\* switch cannot undo a reset, and there is no abandoned reset left after one
\* that was confirmed.
LEMMA RobotStepInv ==
    ASSUME Inv, RobotStep
    PROVE  Inv'
<1> USE DEF Inv, TypeOK, PublisherTypeOK, publisherVars, clearVars, robotVars
<1>1. PublicationInv'
  BY DEF PublicationInv, CopiesAreCurrent, PublishedIsCurrent, RobotStep,
         RobotChanges, SampleRobotStatus, Serve
<1>2. CASE RobotChanges \/ SampleRobotStatus
  <2>1. TypeOK'  BY <1>2 DEF RobotChanges, SampleRobotStatus
  <2>2. RecoveryInv'
    BY <1>2 DEF RobotChanges, SampleRobotStatus, RecoveryInv, AnswerEndsQueue,
                AlarmsAreReset, ControlIsRestored
  <2>3. QED  BY <1>1, <2>1, <2>2 DEF RecoveryInv, PublicationInv
<1>3. CASE \E s \in Services : Serve(s)
  <2>1. PICK s \in Services, ok \in BOOLEAN :
          /\ pending[s] > 0
          /\ pending' = [pending EXCEPT ![s] = @ - 1]
          /\ reply' = IF Awaited(s) THEN (IF ok THEN "ok" ELSE "fail") ELSE reply
          /\ recovered' = IF ok /\ s = "reset" THEN "alarms"
                          ELSE IF ok /\ recovered = "alarms" THEN "control"
                          ELSE recovered
          /\ UNCHANGED <<status, outbox, published, robot, sample, clear>>
    BY <1>3 DEF Serve
  <2>2. TypeOK'  BY <2>1 DEF Services
  <2>3. AnswerEndsQueue'  BY <2>1 DEF AnswerEndsQueue, Awaited, Services
  <2>4. AlarmsAreReset'  BY <2>1 DEF AlarmsAreReset, Awaited, Services
  <2>5. ControlIsRestored'
    BY <2>1 DEF ControlIsRestored, AlarmsAreReset, AnswerEndsQueue, Awaited, Services
  <2>6. QED  BY <1>1, <2>2, <2>3, <2>4, <2>5 DEF PublicationInv
<1>4. QED  BY <1>2, <1>3 DEF RobotStep

\* ClearFaults() neither copies nor publishes.
LEMMA ClearStepInv ==
    ASSUME Inv, BeginClearFaults \/ ClearStep
    PROVE  Inv'
<1> USE DEF Inv, TypeOK, PublisherTypeOK, publisherVars, robotVars, ClearSteps, Goto
<1>1. PublicationInv'
  BY DEF PublicationInv, CopiesAreCurrent, PublishedIsCurrent, BeginClearFaults,
         ClearStep, SendReset, SendSwitch, Send, ServiceUnavailable, ResetSucceeds,
         ClearFaultsSucceeds, RequestFails, Receive, RequestTimesOut
<1> USE DEF RecoveryInv, AnswerEndsQueue, AlarmsAreReset, ControlIsRestored, Services
<1>2. CASE BeginClearFaults
  <2>1. TypeOK' /\ RecoveryInv'  BY <1>2 DEF BeginClearFaults
  <2>2. QED  BY <1>1, <2>1 DEF PublicationInv
<1>3. CASE SendReset \/ SendSwitch
  <2>1. TypeOK' /\ RecoveryInv'  BY <1>3 DEF SendReset, SendSwitch, Send
  <2>2. QED  BY <1>1, <2>1 DEF PublicationInv
<1>4. CASE ResetSucceeds \/ ClearFaultsSucceeds \/ RequestFails
  <2>1. TypeOK' /\ RecoveryInv'
    BY <1>4 DEF ResetSucceeds, ClearFaultsSucceeds, RequestFails, Receive
  <2>2. QED  BY <1>1, <2>1 DEF PublicationInv
<1>5. CASE ServiceUnavailable \/ RequestTimesOut
  <2>1. TypeOK' /\ RecoveryInv'  BY <1>5 DEF ServiceUnavailable, RequestTimesOut
  <2>2. QED  BY <1>1, <2>1 DEF PublicationInv
<1>6. QED  BY <1>2, <1>3, <1>4, <1>5 DEF ClearStep

LEMMA StutterInv ==
    ASSUME Inv, UNCHANGED vars
    PROVE  Inv'
BY DEF Inv, TypeOK, PublisherTypeOK, CopiesAreCurrent, PublishedIsCurrent,
       AnswerEndsQueue, AlarmsAreReset, ControlIsRestored, vars

LEMMA Invariance == Spec => []Inv
<1>1. Inv /\ [Next]_vars => Inv'
  BY TopicStepInv, RobotStepInv, ClearStepInv, StutterInv DEF Next
<1>2. QED  BY InitInv, <1>1, PTL DEF Spec

-----------------------------------------------------------------------------
(* The theorems *)

\* Type correctness, for any set of conditions and any bound.
THEOREM TypeCorrect == Spec => []TypeOK
<1>1. Inv => TypeOK  BY DEF Inv
<1>2. QED  BY Invariance, <1>1, PTL

\* Timer and callback never leave an older status on the topic than the cached one.
THEOREM TopicIsCurrent == Spec => []PublishedIsCurrent
<1>1. Inv => PublishedIsCurrent  BY DEF Inv
<1>2. QED  BY Invariance, <1>1, PTL

\* clear_faults answers with success only after a reset and a switch of control
\* that both happened since it was called, however many requests of earlier
\* calls were still to be served.
THEOREM SuccessIsEarned == Spec => SuccessMeansControlRestored
<1>1. Inv => (ClearFaultsSucceeds => recovered = "control")
  BY DEF Inv, ControlIsRestored, ClearFaultsSucceeds, Goto, Receive
<1>2. Inv /\ [Next]_vars => [ClearFaultsSucceeds => recovered = "control"]_vars
  BY <1>1
<1>3. QED  BY Invariance, <1>2, PTL DEF SuccessMeansControlRestored, Spec

-----------------------------------------------------------------------------
(* The node implements the abstract feed *)

LEMMA FeedInit == Init => Feed!Init
BY ConditionsAssumption, StatusIsTyped, TableIsImplemented
   DEF Init, PublisherInit, Feed!Init, Statuses, NoMessage, Feed!Statuses,
       Feed!NoMessage

\* The robot changes the source and sends samples; to serve a request is to
\* stutter, and so is everything ClearFaults() does.
LEMMA RobotStepFeeds ==
    ASSUME Inv, RobotStep
    PROVE  [Feed!Next]_Feed!feedVars
<1> USE DEF Feed!feedVars, publisherVars, clearVars
<1>1. CASE RobotChanges
  <2>1. Documented(robot') \in Statuses
    BY <1>1, ConditionsAssumption, StatusIsTyped, TableIsImplemented DEF RobotChanges
  <2>2. Feed!Change  BY <1>1, <2>1 DEF RobotChanges, Feed!Change, Statuses,
                                Feed!Statuses
  <2>3. QED  BY <2>2 DEF Feed!Next
<1>2. CASE SampleRobotStatus
  <2>1. Feed!Send  BY <1>2 DEF SampleRobotStatus, Feed!Send
  <2>2. QED  BY <2>1 DEF Feed!Next
<1>3. CASE \E s \in Services : Serve(s)
  BY <1>3 DEF Serve, robotVars
<1>4. QED  BY <1>1, <1>2, <1>3 DEF RobotStep

\* The callback learns, by the documented table; the copy that is published is
\* what the node knows.
LEMMA TopicStepFeeds ==
    ASSUME Inv, TopicStep
    PROVE  [Feed!Next]_Feed!feedVars
<1> USE DEF Feed!feedVars, CacheAndCopy, clearVars, robotVars
<1>1. CASE RobotStatusCallback
  <2>1. PICK c \in Conditions : sample = <<c>>
    BY <1>1 DEF RobotStatusCallback, Inv, TypeOK
  <2>2. status' = Documented(c) /\ Documented(c) \in Statuses
    BY <1>1, <2>1, ConditionsAssumption, StatusIsTyped, TableIsImplemented
       DEF RobotStatusCallback
  <2>3. Feed!Learn
    BY <1>1, <2>1, <2>2 DEF RobotStatusCallback, Feed!Learn, Statuses, NoMessage,
                                Feed!NoMessage
  <2>4. QED  BY <2>3 DEF Feed!Next
<1>2. CASE PublishTimer
  BY <1>2 DEF PublishTimer, CopyStatusTo
<1>3. CASE PublishTopicCopy
  <2>1. Feed!Publish
    BY <1>3 DEF PublishTopicCopy, PublishCopy, Inv, CopiesAreCurrent, Feed!Publish
  <2>2. QED  BY <2>1 DEF Feed!Next
<1>4. QED  BY <1>1, <1>2, <1>3 DEF TopicStep

LEMMA ClearStepFeeds ==
    ASSUME BeginClearFaults \/ ClearStep
    PROVE  UNCHANGED Feed!feedVars
BY DEF Feed!feedVars, publisherVars, robotVars, BeginClearFaults, ClearStep, SendReset,
       SendSwitch, Send, ServiceUnavailable, ResetSucceeds, ClearFaultsSucceeds,
       RequestFails, Receive, RequestTimesOut

\* The node implements StatusFeed for every set of conditions: the topic follows
\* what the README says of the robot, never invents a status and never goes back.
THEOREM ImplementsFeed == Spec => FeedImplemented
<1>1. Inv /\ [Next]_vars => [Feed!Next]_Feed!feedVars
  <2>1. ASSUME UNCHANGED vars PROVE UNCHANGED Feed!feedVars
    BY <2>1 DEF vars, Feed!feedVars
  <2>2. QED  BY <2>1, RobotStepFeeds, TopicStepFeeds, ClearStepFeeds DEF Next
<1>2. QED  BY FeedInit, Invariance, <1>1, PTL DEF Spec, FeedImplemented, Feed!Spec

=============================================================================
