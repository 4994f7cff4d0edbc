-------------------------- MODULE StatusPublisher --------------------------
(***************************************************************************)
(* What the three vendor nodes have in common: the cached status under     *)
(* `state_mutex_`, and its publication.  Every callback copies the cache    *)
(* under the lock and publishes the copy after it has released it, so the  *)
(* copies of two threads can be published in either order.                 *)
(*                                                                         *)
(* Subscriptions and the publish timer share a mutually exclusive callback *)
(* group: one "topic" thread at a time runs them.  The clear_faults        *)
(* service has a group of its own, the "clear" thread.                     *)
(***************************************************************************)
EXTENDS OperationalStatus

VARIABLES
    status,     \* operational_status_.state
    outbox,     \* per thread, the copy it is about to publish
    published   \* the last message of the operational_status topic

publisherVars == <<status, outbox, published>>

Threads == {"topic", "clear"}

PublisherTypeOK ==
    /\ status \in Statuses
    /\ outbox \in [Threads -> Statuses \cup {NoMessage}]
    /\ published \in Statuses \cup {NoMessage}

PublisherInit(initial) ==
    /\ status = initial
    /\ outbox = [t \in Threads |-> NoMessage]
    /\ published = NoMessage

\* Under the lock: cache s and copy it.
CacheAndCopy(t, s) ==
    /\ outbox[t] = NoMessage
    /\ status' = s
    /\ outbox' = [outbox EXCEPT ![t] = s]
    /\ UNCHANGED published

\* The first half of PublishOperationalStatus().
CopyStatusTo(t) == CacheAndCopy(t, status)

\* Outside the lock: publish the copy.
PublishCopy(t) ==
    /\ outbox[t] # NoMessage
    /\ published' = outbox[t]
    /\ outbox' = [outbox EXCEPT ![t] = NoMessage]
    /\ UNCHANGED status

\* The timer republishes the cache, so whatever order the threads published in,
\* a status that no longer changes is in the end what everyone has last read.
PublishedCatchesUp ==
    \A s \in Statuses : <>[](status = s) => <>[](published = s)

=============================================================================
