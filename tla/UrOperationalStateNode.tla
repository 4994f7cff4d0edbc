----------------------- MODULE UrOperationalStateNode -----------------------
(***************************************************************************)
(* The UR node's monitoring half: three topics, each heard at its own      *)
(* pace, are combined in `robot_status_`, and the status is recomputed and *)
(* published at each message, by the timer and by ClearFaults().  The      *)
(* recovery half is UrClearFaults.                                         *)
(*                                                                         *)
(* The subscriptions are volatile (SystemDefaultsQoS): a node that is      *)
(* started after a value was published is not given it, and waits for the  *)
(* next message of that topic, however long that takes.                    *)
(*                                                                         *)
(* External: the robot and the io_and_status_controller, which publishes a *)
(* value when it changes and may publish one that has not changed.         *)
(***************************************************************************)
EXTENDS Integers, Sequences, StatusPublisher, UrRobot

CONSTANTS
    Conditions,     \* the conditions the robot may be in
    TopicDepth      \* history depth of each subscription

ASSUME ConditionsAssumption == Conditions \subseteq RobotConditions
ASSUME BoundsAssumption == TopicDepth \in Nat \ {0}

VARIABLES
    robot,          \* the robot's condition
    inbox,          \* per topic, the messages in transit
    cache           \* robot_status_

vars == <<status, outbox, published, robot, inbox, cache>>

Topics == {"safety", "mode", "program"}

TypeOK ==
    /\ PublisherTypeOK
    /\ robot \in Conditions
    /\ inbox \in [Topics -> Seq(AllSafetyModes \cup AllRobotModes \cup Programs)]
    /\ cache \in CachedConditions

\* A node that is started, for the first time or again, has heard nothing and
\* nothing is on its way to it, whatever condition the robot has been in.
Init ==
    /\ PublisherInit("UNKNOWN")
    /\ robot \in Conditions
    /\ inbox = [f \in Topics |-> <<>>]
    /\ cache = [safety |-> Missing, mode |-> Missing, program |-> Missing]

-----------------------------------------------------------------------------
\* A full history loses its oldest message.
Push(q, m) == Append(IF Len(q) < TopicDepth THEN q ELSE Tail(q), m)

\* A topic of which nothing has arrived: its subscription may not have been
\* matched with the publisher yet, and what is published then is lost.
Silent(f) == cache[f] = Missing /\ inbox[f] = <<>>

\* The topics whose value has changed are published.
RobotChanges ==
    /\ robot' \in Conditions \ {robot}
    /\ \E lost \in SUBSET {f \in Topics : Silent(f)} :
           inbox' = [f \in Topics |->
                       IF robot'[f] = robot[f] \/ f \in lost THEN inbox[f]
                       ELSE Push(inbox[f], robot'[f])]
    /\ UNCHANGED <<publisherVars, cache>>

\* A value that has not changed is published, as when the controller is activated.
PublishAgain(f) ==
    /\ inbox' = [inbox EXCEPT ![f] = Push(@, robot[f])]
    /\ UNCHANGED <<publisherVars, robot, cache>>

\* Mutant of StatusCallback: the status is computed before the value is stored.
StatusCallbackStale(f) ==
    /\ inbox[f] # <<>>
    /\ cache' = [cache EXCEPT ![f] = Head(inbox[f])]
    /\ inbox' = [inbox EXCEPT ![f] = Tail(@)]
    /\ CacheAndCopy("topic", ToOperationalStatus(cache))
    /\ UNCHANGED robot

\* RobotModeCallback, SafetyModeCallback and ProgramRunningCallback.
StatusCallback(f) ==
    /\ inbox[f] # <<>>
    /\ cache' = [cache EXCEPT ![f] = Head(inbox[f])]
    /\ inbox' = [inbox EXCEPT ![f] = Tail(@)]
    /\ CacheAndCopy("topic", ToOperationalStatus(cache'))
    /\ UNCHANGED robot

PublishTimer == CopyStatusTo("topic") /\ UNCHANGED <<robot, inbox, cache>>
PublishTopicCopy == PublishCopy("topic") /\ UNCHANGED <<robot, inbox, cache>>

\* However ClearFaults() ends, it publishes the cached status once more.
CopyAfterClear == CopyStatusTo("clear") /\ UNCHANGED <<robot, inbox, cache>>
PublishAfterClear == PublishCopy("clear") /\ UNCHANGED <<robot, inbox, cache>>

TopicStep ==
    (\E f \in Topics : StatusCallback(f)) \/ PublishTimer \/ PublishTopicCopy
Next ==
    \/ RobotChanges \/ (\E f \in Topics : PublishAgain(f))
    \/ TopicStep \/ CopyAfterClear \/ PublishAfterClear

Spec == Init /\ [][Next]_vars

\* The executor serves every topic and the timer again and again; nothing is asked
\* of the clear_faults thread, which may keep a copy for ever.
Fairness ==
    /\ \A f \in Topics : SF_vars(StatusCallback(f))
    /\ SF_vars(PublishTimer)
    /\ WF_vars(PublishTopicCopy)
FairSpec == Spec /\ Fairness

-----------------------------------------------------------------------------
(* Properties *)

\* The README's table (lines 145-149 of the UR example), row by row.  A mode it
\* does not list is a fault, except UPDATING_FIRMWARE, which the node counts with
\* the modes of a robot that is not ready.
Safe == {r \in RobotConditions : r.safety \in {"NORMAL", "REDUCED"}}
NotReady ==
    {r \in Safe : r.mode \in {"BOOTING", "POWER_OFF", "POWER_ON", "IDLE",
                              "BACKDRIVE", "UPDATING_FIRMWARE"}}
Running == {r \in Safe : r.mode = "RUNNING"}
Documented(r) ==
    IF r \in Running /\ r.program = "running" THEN "ENABLED"
    ELSE IF r \in Running \cup NotReady THEN "DISABLED"
    ELSE "FAULTED"

AllHeard == \A f \in Topics : cache[f] # Missing

\* What the node can know once nothing is on its way to it: the robot's condition
\* if each topic has been heard since the node was started, and otherwise nothing,
\* even of a condition it was started in and that has lasted since.
Knowable ==
    IF AllHeard THEN Documented(robot) ELSE "UNKNOWN"

\* A condition that lasts is what the topic says in the end, if each topic has
\* been heard: whatever order they are heard in, no value of an earlier condition
\* survives.  A node that has missed the last word of a topic says UNKNOWN until
\* that topic is published again.
LastingConditionIsReported ==
    <>[][robot' = robot]_robot => <>[](published = Knowable)

\* As soon as every message has been heard the cached status is the documented one
\* of the condition the robot is in, or UNKNOWN if a topic was never heard: not of
\* a mixture of two conditions, in whatever order the topics are heard, whatever a
\* full history has lost on the way and whatever was published before the
\* subscriptions were there.
QuietMeansCurrent ==
    (\A f \in Topics : inbox[f] = <<>>) => status = Knowable

\* Nothing but UNKNOWN is published before each topic has been heard once.
NothingKnownTooEarly ==
    published \in Statuses \ {"UNKNOWN"} => AllHeard

=============================================================================
