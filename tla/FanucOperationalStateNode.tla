--------------------- MODULE FanucOperationalStateNode ---------------------
(***************************************************************************)
(* The FANUC node: it turns robot_status messages into an                  *)
(* OperationalStatus, and implements clear_faults by resetting the alarms  *)
(* and then switching motion control back to ROS 2.                        *)
(*                                                                         *)
(* External: the robot behind the fanuc_gpio_controller, which samples     *)
(* `robot` into robot_status messages all the time and serves the two      *)
(* requests in the order it received them, late ones included.             *)
(***************************************************************************)
EXTENDS Integers, Sequences, StatusPublisher

CONSTANTS
    Conditions,     \* the robot_status messages the robot may send
    MaxRequests     \* bound on the requests of each kind not served yet

ContactStops == {"NONE", "SAFE", "OTHER"}
RobotStatuses ==
    [in_error : BOOLEAN, e_stopped : BOOLEAN, motion_possible : BOOLEAN,
     tp_enabled : BOOLEAN, contact_stop : ContactStops]

ASSUME ConditionsAssumption == Conditions \subseteq RobotStatuses
ASSUME BoundsAssumption == MaxRequests \in Nat \ {0}

VARIABLES
    robot,      \* the robot's condition
    sample,     \* the robot_status message in transit, or <<>>
    clear,      \* where ClearFaults() is
    pending,    \* per service, the number of requests not served yet
    reply,      \* the answer on its way to ClearFaults()
    recovered   \* history: what this ClearFaults() had the robot do so far

robotVars == <<robot, sample>>
clearVars == <<clear, pending, reply, recovered>>
vars == <<status, outbox, published, robot, sample, clear, pending, reply,
          recovered>>

Services == {"reset", "switch_control_state"}
ClearSteps == {"idle", "send_reset", "reset", "send_switch", "switch_control_state"}

TypeOK ==
    /\ PublisherTypeOK
    /\ robot \in Conditions
    /\ sample \in {<<>>} \cup {<<c>> : c \in Conditions}
    /\ clear \in ClearSteps
    /\ pending \in [Services -> Nat]
    /\ reply \in {"none", "ok", "fail"}
    /\ recovered \in {"no", "alarms", "control"}

\* Mutant of ToOperationalStatus: motion_possible is not looked at.
ToOperationalStatusWithoutMotion(r) ==
    IF r.e_stopped \/ r.contact_stop # "NONE" THEN "FAULTED"
    ELSE IF r.tp_enabled THEN "DISABLED"
    ELSE IF r.in_error THEN "FAULTED" ELSE "ENABLED"

\* Mutant of ToOperationalStatus: the pendant is not looked at.
ToOperationalStatusWithoutPendant(r) ==
    IF r.e_stopped \/ r.contact_stop # "NONE" THEN "FAULTED"
    ELSE IF r.in_error \/ ~r.motion_possible THEN "FAULTED" ELSE "ENABLED"

\* The emergency stop first, then the contact stop, the pendant, the alarms.
ToOperationalStatus(r) ==
    IF r.e_stopped THEN "FAULTED"
    ELSE IF r.contact_stop # "NONE" THEN "FAULTED"
    ELSE IF r.tp_enabled THEN "DISABLED"
    ELSE IF r.in_error THEN "FAULTED"
    ELSE IF ~r.motion_possible THEN "FAULTED"
    ELSE "ENABLED"

Init ==
    /\ PublisherInit("UNKNOWN")
    /\ robot \in Conditions
    /\ sample = <<>>
    /\ clear = "idle"
    /\ pending = [s \in Services |-> 0]
    /\ reply = "none"
    /\ recovered = "no"

-----------------------------------------------------------------------------
(* The robot *)

RobotChanges ==
    /\ robot' \in Conditions \ {robot}
    /\ UNCHANGED <<publisherVars, sample, clearVars>>

SampleRobotStatus ==
    /\ sample' = <<robot>>
    /\ UNCHANGED <<publisherVars, robot, clearVars>>

Awaited(s) == clear = s /\ reply = "none" /\ pending[s] = 1

\* What a served request did to the robot shows in its later conditions.
Serve(s) ==
    /\ pending[s] > 0
    /\ pending' = [pending EXCEPT ![s] = @ - 1]
    /\ \E ok \in BOOLEAN :
        /\ reply' = IF Awaited(s) THEN (IF ok THEN "ok" ELSE "fail") ELSE reply
        /\ recovered' =
             IF ok /\ s = "reset" THEN "alarms"
             ELSE IF ok /\ recovered = "alarms" THEN "control"
             ELSE recovered
    /\ UNCHANGED <<publisherVars, robotVars, clear>>

-----------------------------------------------------------------------------
(* The topic thread *)

\* Mutant of RobotStatusCallback: a new status waits for the timer.
RobotStatusCallbackSilent ==
    /\ sample # <<>>
    /\ outbox["topic"] = NoMessage
    /\ status' = ToOperationalStatus(sample[1])
    /\ sample' = <<>>
    /\ UNCHANGED <<outbox, published, robot, clearVars>>

\* Mutant of RobotStatusCallback: it publishes before it updates the cache.
RobotStatusCallbackPublishesFirst ==
    /\ sample # <<>>
    /\ outbox["topic"] = NoMessage
    /\ outbox' = [outbox EXCEPT !["topic"] = status]
    /\ status' = ToOperationalStatus(sample[1])
    /\ UNCHANGED published
    /\ sample' = <<>>
    /\ UNCHANGED <<robot, clearVars>>

RobotStatusCallback ==
    /\ sample # <<>>
    /\ CacheAndCopy("topic", ToOperationalStatus(sample[1]))
    /\ sample' = <<>>
    /\ UNCHANGED <<robot, clearVars>>

PublishTimer ==
    /\ CopyStatusTo("topic")
    /\ UNCHANGED <<robotVars, clearVars>>

PublishTopicCopy ==
    /\ PublishCopy("topic")
    /\ UNCHANGED <<robotVars, clearVars>>

-----------------------------------------------------------------------------
(* ClearFaults(): it neither reads nor writes the cached status *)

Goto(from, to) == clear = from /\ clear' = to

BeginClearFaults ==
    /\ Goto("idle", "send_reset")
    /\ recovered' = "no"
    /\ UNCHANGED <<publisherVars, robotVars, pending, reply>>

Send(s) ==
    /\ pending[s] < MaxRequests
    /\ pending' = [pending EXCEPT ![s] = @ + 1]
    /\ UNCHANGED <<publisherVars, robotVars, reply, recovered>>

SendReset == Goto("send_reset", "reset") /\ Send("reset")
SendSwitch == Goto("send_switch", "switch_control_state") /\ Send("switch_control_state")

\* Neither service need be there when it is waited for.
ServiceUnavailable ==
    /\ Goto("send_reset", "idle") \/ Goto("send_switch", "idle")
    /\ UNCHANGED <<publisherVars, robotVars, pending, reply, recovered>>

Receive(answer) ==
    /\ reply = answer
    /\ reply' = "none"
    /\ UNCHANGED <<publisherVars, robotVars, pending, recovered>>

\* Mutant of ResetSucceeds: the result of the reset is not looked at.
ResetReturns == Goto("reset", "send_switch") /\ (Receive("ok") \/ Receive("fail"))

ResetSucceeds == Goto("reset", "send_switch") /\ Receive("ok")
ClearFaultsSucceeds == Goto("switch_control_state", "idle") /\ Receive("ok")
RequestFails == (Goto("reset", "idle") \/ Goto("switch_control_state", "idle")) /\ Receive("fail")

\* Mutant of RequestTimesOut: the futures are waited for without a timeout.
RequestWaitsForever ==
    /\ Goto("reset", "idle") \/ Goto("switch_control_state", "idle")
    /\ reply = "fail" /\ reply' = "none"
    /\ UNCHANGED <<publisherVars, robotVars, pending, recovered>>

\* A request given up on stays with the robot.
RequestTimesOut ==
    /\ Goto("reset", "idle") \/ Goto("switch_control_state", "idle")
    /\ reply' = "none"
    /\ UNCHANGED <<publisherVars, robotVars, pending, recovered>>

RobotStep == RobotChanges \/ SampleRobotStatus \/ \E s \in Services : Serve(s)
TopicStep == RobotStatusCallback \/ PublishTimer \/ PublishTopicCopy
ClearStep ==
    \/ SendReset \/ SendSwitch \/ ServiceUnavailable \/ ResetSucceeds
    \/ ClearFaultsSucceeds \/ RequestFails \/ RequestTimesOut
Next == RobotStep \/ TopicStep \/ BeginClearFaults \/ ClearStep

Spec == Init /\ [][Next]_vars

\* The robot keeps reporting and the executor's threads keep running; the topic
\* thread picks a waiting message again and again, whatever the timer does.
Fairness ==
    /\ WF_vars(SampleRobotStatus)
    /\ SF_vars(RobotStatusCallback)
    /\ WF_vars(PublishTopicCopy)
    /\ WF_vars(ClearStep)
FairSpec == Spec /\ Fairness

-----------------------------------------------------------------------------
(* Properties *)

\* The README's table (lines 540-543 of the FANUC example).  It does not rank
\* its rows; a stop outranks the pendant, and the pendant an alarm.
Stopped == {r \in RobotStatuses : r.e_stopped \/ r.contact_stop # "NONE"}
Manual == {r \in RobotStatuses : r.tp_enabled} \ Stopped
Alarmed == {r \in RobotStatuses : r.in_error \/ ~r.motion_possible} \ (Stopped \cup Manual)
Documented(r) ==
    IF r \in Stopped \cup Alarmed THEN "FAULTED"
    ELSE IF r \in Manual THEN "DISABLED"
    ELSE "ENABLED"

\* A condition that lasts is what the topic says in the end, by the documented
\* table, in whatever order messages, timer and ClearFaults() run.
LastingConditionIsReported ==
    <>[][robot' = robot]_robot => <>[](published = Documented(robot))

\* All publications of this node come from one thread: whenever it holds no
\* copy, the topic's last message is the cached status, never an older one.
PublishedIsCurrent ==
    outbox["topic"] = NoMessage /\ published # NoMessage => published = status

\* The node implements the abstract feed: whatever samples, callback and timer do
\* to cache, copies and topic, the topic follows the robot's documented status,
\* never invents one and never goes back.  What the node knows is its cache, and
\* what is on its way to it is what its README makes of the sample in transit.
Feed == INSTANCE StatusFeed WITH
    source <- Documented(robot),
    coming <- IF sample = <<>> THEN NoMessage ELSE Documented(sample[1]),
    known <- status,
    topic <- published

FeedImplemented == Feed!Spec

\* clear_faults answers with success only if, since it was called, the robot has
\* reset its alarms and then taken back control for ROS 2, no matter which
\* requests of earlier calls it still had to serve.
SuccessMeansControlRestored ==
    [][ClearFaultsSucceeds => recovered = "control"]_vars

\* ClearFaults() ends, whatever the robot does.
ClearFaultsTerminates == (clear # "idle") ~> (clear = "idle")

=============================================================================
