----------------------------- MODULE StatusFeed -----------------------------
(***************************************************************************)
(* What a vendor node that has a single source promises to the hardware    *)
(* module: the topic follows the source.  It may lag behind and it may     *)
(* skip what lasted too briefly, but it never says what was not so, and it  *)
(* never goes back to what it has already left behind.                     *)
(***************************************************************************)
EXTENDS OperationalStatus

VARIABLES
    source,     \* the status of the robot now
    coming,     \* the status on its way to the node, or NoMessage
    known,      \* the status the node knows
    topic       \* the last message of the topic

feedVars == <<source, coming, known, topic>>

Init ==
    /\ source \in Statuses
    /\ coming = NoMessage
    /\ known = "UNKNOWN"
    /\ topic = NoMessage

\* The robot's status changes; nobody knows yet.
Change ==
    /\ source' \in Statuses
    /\ UNCHANGED <<coming, known, topic>>

\* The present status is sent; it replaces one that has not been received.
Send ==
    /\ coming' = source
    /\ UNCHANGED <<source, known, topic>>

\* The node learns what was sent and forgets what it knew.
Learn ==
    /\ coming # NoMessage
    /\ known' = coming
    /\ coming' = NoMessage
    /\ UNCHANGED <<source, topic>>

\* What is published is what the node knows.
Publish ==
    /\ topic' = known
    /\ UNCHANGED <<source, coming, known>>

Next == Change \/ Send \/ Learn \/ Publish

Spec == Init /\ [][Next]_feedVars

=============================================================================
