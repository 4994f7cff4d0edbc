-------------------- MODULE UrOperationalStateNode_proofs --------------------
(***************************************************************************)
(* What the UR node publishes for every robot condition and any history    *)
(* depth of its subscriptions.                                             *)
(***************************************************************************)
EXTENDS UrOperationalStateNode, SequenceTheorems, TLAPS

\* The order of the tests in ToOperationalStatus() is the README's table, for
\* every safety mode, robot mode and program state.
THEOREM TableIsImplemented ==
    \A r \in RobotConditions : ToOperationalStatus(r) = Documented(r)
BY DEF RobotConditions, AllSafetyModes, AllRobotModes, Programs, Missing, SafeModes,
       OffModes, ToOperationalStatus, Documented, Running, NotReady, Safe

LEMMA StatusIsTyped == \A c \in CachedConditions : ToOperationalStatus(c) \in Statuses
BY DEF ToOperationalStatus, Statuses

-----------------------------------------------------------------------------
(* The invariant *)

\* What a topic carries.
Values == [safety |-> AllSafetyModes, mode |-> AllRobotModes, program |-> Programs]

LEMMA FieldIsTyped == \A c \in RobotConditions, f \in Topics : c[f] \in Values[f]
BY DEF RobotConditions, Topics, Values

LEMMA FieldIsCached ==
    \A c \in CachedConditions, f \in Topics : \A v \in Values[f] :
        [c EXCEPT ![f] = v] \in CachedConditions
BY DEF CachedConditions, Topics, Values

LEMMA ValuesArePresent == \A f \in Topics : Missing \notin Values[f]
BY DEF Values, Topics, AllSafetyModes, AllRobotModes, Programs, Missing

\* Each topic carries its own kind of value.
InboxTyped == \A f \in Topics : inbox[f] \in Seq(Values[f])

\* No thread holds a copy that says more than UNKNOWN, and the cache does not say
\* it either, before each topic has been heard once.
Known(s) == s \in Statuses \ {"UNKNOWN"}
KnownMeansHeard ==
    (Known(status) \/ Known(published) \/ \E t \in Threads : Known(outbox[t])) => AllHeard

Inv == TypeOK /\ InboxTyped /\ KnownMeansHeard

LEMMA EarlyStatus ==
    ASSUME NEW c \in CachedConditions, Known(ToOperationalStatus(c))
    PROVE  \A f \in Topics : c[f] # Missing
BY DEF Known, ToOperationalStatus, CachedConditions, Topics

LEMMA InboxUnion ==
    ASSUME NEW f \in Topics, NEW q \in Seq(Values[f])
    PROVE  q \in Seq(AllSafetyModes \cup AllRobotModes \cup Programs)
BY DEF Values, Topics

-----------------------------------------------------------------------------
LEMMA HeadAndTail ==
    ASSUME NEW S, NEW q \in Seq(S), q # <<>>
    PROVE  Head(q) \in S /\ Tail(q) \in Seq(S)
OBVIOUS

LEMMA InitInv == Init => Inv
<1> SUFFICES ASSUME Init  PROVE Inv
  OBVIOUS
<1>1. PublisherTypeOK
  BY DEF Init, PublisherInit, PublisherTypeOK, Threads, Statuses
<1>2. InboxTyped
  BY DEF Init, InboxTyped
<1>3. inbox \in [Topics -> Seq(AllSafetyModes \cup AllRobotModes \cup Programs)]
  BY <1>2, InboxUnion DEF Init, InboxTyped
<1>4. TypeOK
  BY <1>1, <1>3 DEF Init, TypeOK, CachedConditions
<1>5. KnownMeansHeard
  BY DEF Init, PublisherInit, KnownMeansHeard, Known, Threads, Statuses, NoMessage
<1>6. QED  BY <1>2, <1>4, <1>5 DEF Inv

LEMMA PushIsTyped ==
    ASSUME NEW S, NEW q \in Seq(S), NEW m \in S
    PROVE  Push(q, m) \in Seq(S)
<1>1. Len(q) >= TopicDepth => Tail(q) \in Seq(S)
  BY BoundsAssumption
<1>2. QED  BY <1>1, BoundsAssumption DEF Push

LEMMA RobotChangesInv ==
    ASSUME Inv, RobotChanges
    PROVE  Inv'
<1> USE DEF Inv, RobotChanges
<1>1. robot' \in Conditions
  OBVIOUS
<1>2. ASSUME NEW f \in Topics
      PROVE  inbox'[f] \in Seq(Values[f])
  <2>1. robot'[f] \in Values[f]
    BY <1>1, FieldIsTyped, ConditionsAssumption
  <2>2. Push(inbox[f], robot'[f]) \in Seq(Values[f])
    BY <2>1, PushIsTyped DEF InboxTyped
  <2>3. inbox'[f] \in {inbox[f], Push(inbox[f], robot'[f])}
    OBVIOUS
  <2>4. QED  BY <2>2, <2>3 DEF InboxTyped
<1>3. InboxTyped'
  BY <1>2 DEF InboxTyped
<1>4. inbox' \in [Topics -> Seq(AllSafetyModes \cup AllRobotModes \cup Programs)]
  BY <1>2, InboxUnion
<1>5. TypeOK'
  BY <1>1, <1>4 DEF TypeOK, PublisherTypeOK, publisherVars
<1>6. KnownMeansHeard'
  BY DEF KnownMeansHeard, AllHeard, publisherVars
<1>7. QED  BY <1>3, <1>5, <1>6

LEMMA PublishAgainInv ==
    ASSUME Inv, NEW g \in Topics, PublishAgain(g)
    PROVE  Inv'
<1> USE DEF Inv, PublishAgain
<1>1. Push(inbox[g], robot[g]) \in Seq(Values[g])
  BY FieldIsTyped, PushIsTyped, ConditionsAssumption DEF TypeOK, InboxTyped
<1>2. ASSUME NEW f \in Topics
      PROVE  inbox'[f] \in Seq(Values[f])
  BY <1>1 DEF TypeOK, InboxTyped
<1>3. InboxTyped'
  BY <1>2 DEF InboxTyped
<1>4. inbox' \in [Topics -> Seq(AllSafetyModes \cup AllRobotModes \cup Programs)]
  BY <1>2, InboxUnion DEF TypeOK
<1>5. TypeOK'
  BY <1>4 DEF TypeOK, PublisherTypeOK, publisherVars
<1>6. KnownMeansHeard'
  BY DEF KnownMeansHeard, AllHeard, publisherVars
<1>7. QED  BY <1>3, <1>5, <1>6

LEMMA StatusCallbackInv ==
    ASSUME Inv, NEW f \in Topics, StatusCallback(f)
    PROVE  Inv'
<1> USE DEF Inv
<1>1. /\ Head(inbox[f]) \in Values[f]
      /\ Tail(inbox[f]) \in Seq(Values[f])
  BY HeadAndTail DEF StatusCallback, InboxTyped
<1>2. cache' \in CachedConditions
  <2>1. cache \in CachedConditions /\ cache' = [cache EXCEPT ![f] = Head(inbox[f])]
    BY DEF StatusCallback, TypeOK
  <2>2. QED  BY <1>1, <2>1, FieldIsCached
<1>3. ASSUME NEW g \in Topics
      PROVE  inbox'[g] \in Seq(Values[g])
  BY <1>1 DEF StatusCallback, TypeOK, InboxTyped
<1>4. inbox' \in [Topics -> Seq(AllSafetyModes \cup AllRobotModes \cup Programs)]
  BY <1>3, InboxUnion DEF StatusCallback, TypeOK
<1>5. ToOperationalStatus(cache') \in Statuses
  BY <1>2, StatusIsTyped
<1>6. TypeOK'
  BY <1>2, <1>4, <1>5 DEF StatusCallback, CacheAndCopy, TypeOK, PublisherTypeOK, Threads
<1>7. KnownMeansHeard'
  <2>1. AllHeard => AllHeard'
    <3>1. ASSUME NEW g \in Topics, cache[g] # Missing
          PROVE  cache'[g] # Missing
      BY <1>1, <3>1, ValuesArePresent DEF StatusCallback, TypeOK, CachedConditions, Topics
    <3>2. QED  BY <3>1 DEF AllHeard
  <2>2. Known(ToOperationalStatus(cache')) => AllHeard'
    BY <1>2, EarlyStatus DEF AllHeard
  <2>3. QED
    BY <2>1, <2>2 DEF StatusCallback, CacheAndCopy, TypeOK, PublisherTypeOK,
                      KnownMeansHeard, Known, Threads
<1>8. QED  BY <1>3, <1>6, <1>7 DEF InboxTyped

\* Copies and publications, by the timer and after ClearFaults().
LEMMA PublicationInv ==
    ASSUME Inv, NEW t \in Threads, CopyStatusTo(t) \/ PublishCopy(t),
           UNCHANGED <<robot, inbox, cache>>
    PROVE  Inv'
<1> USE DEF Inv, TypeOK, PublisherTypeOK
<1>1. TypeOK'
  BY DEF CopyStatusTo, CacheAndCopy, PublishCopy, NoMessage
<1>2. InboxTyped'
  BY DEF InboxTyped
<1>3. KnownMeansHeard'
  BY DEF KnownMeansHeard, Known, AllHeard, CopyStatusTo, CacheAndCopy, PublishCopy,
         NoMessage, Statuses
<1>4. QED  BY <1>1, <1>2, <1>3

LEMMA Invariance == Spec => []Inv
<1>1. ASSUME Inv, UNCHANGED vars
      PROVE  Inv'
  BY <1>1 DEF Inv, TypeOK, PublisherTypeOK, InboxTyped, KnownMeansHeard, AllHeard, vars
<1>2. ASSUME Inv, TopicStep \/ CopyAfterClear \/ PublishAfterClear
      PROVE  Inv'
  BY <1>2, StatusCallbackInv, PublicationInv
     DEF TopicStep, PublishTimer, PublishTopicCopy, CopyAfterClear, PublishAfterClear,
         Threads
<1>3. Inv /\ [Next]_vars => Inv'
  BY <1>1, <1>2, RobotChangesInv, PublishAgainInv DEF Next
<1>4. QED  BY InitInv, <1>3, PTL DEF Spec

-----------------------------------------------------------------------------
(* Each topic ends with the present value *)

\* A topic's last message is the robot's value; once it is heard the cache has it.
\* A topic that was never heard has no last word.
LastWordOn(f) ==
    IF inbox[f] = <<>> THEN cache[f] \in {robot[f], Missing}
    ELSE inbox[f][Len(inbox[f])] = robot[f]
LastWord == \A f \in Topics : LastWordOn(f)

\* No cached status is older than the cache it was computed from.
StatusIsOfCache == status = ToOperationalStatus(cache)

Current == LastWord /\ StatusIsOfCache

LEMMA PushEndsWith ==
    ASSUME NEW S, NEW q \in Seq(S), NEW m \in S
    PROVE  Push(q, m) # <<>> /\ Push(q, m)[Len(Push(q, m))] = m
<1> DEFINE r == IF Len(q) < TopicDepth THEN q ELSE Tail(q)
<1>1. r \in Seq(S)
  BY BoundsAssumption
<1>2. Push(q, m) = Append(r, m)
  BY DEF Push
<1>3. Append(r, m) # <<>> /\ Append(r, m)[Len(Append(r, m))] = m
  <2> HIDE DEF r
  <2>1. QED  BY <1>1
<1>4. QED  BY <1>2, <1>3

\* Hearing a message leaves the last one last, unless it was the last.
LEMMA TailEndsWith ==
    ASSUME NEW S, NEW q \in Seq(S), q # <<>>
    PROVE  IF Tail(q) = <<>> THEN Head(q) = q[Len(q)]
           ELSE Tail(q)[Len(Tail(q))] = q[Len(q)]
<1>1. Len(q) \in Nat \ {0} /\ Tail(q) \in Seq(S) /\ Len(Tail(q)) = Len(q) - 1
  OBVIOUS
<1>2. \A t : Len(t) > 0 => t # <<>>
  OBVIOUS
<1>3. CASE Len(q) = 1
  <2>1. Tail(q) = <<>>
    <3>1. Tail(q) # <<>> => Len(Tail(q)) \in Nat \ {0}
      BY <1>1, EmptySeq, Zenon
    <3>2. QED  BY <1>1, <1>3, <3>1
  <2>2. Head(q) = q[1]
    OBVIOUS
  <2>3. QED  BY <1>3, <2>1, <2>2
<1>4. CASE Len(q) # 1
  <2>1. Len(Tail(q)) > 0 /\ Tail(q)[Len(Tail(q))] = q[Len(q)]
    BY <1>1, <1>4
  <2>2. Tail(q) # <<>>
    BY <1>2, <2>1, Zenon
  <2>3. QED  BY <2>1, <2>2
<1>5. QED  BY <1>3, <1>4

LEMMA InitCurrent == Init => Current
<1> SUFFICES ASSUME Init  PROVE Current
  OBVIOUS
<1>1. LastWord
  BY DEF Init, LastWord, LastWordOn, Topics
<1>2. StatusIsOfCache
  BY DEF Init, PublisherInit, StatusIsOfCache, ToOperationalStatus
<1>3. QED  BY <1>1, <1>2 DEF Current

LEMMA RobotChangesCurrent ==
    ASSUME Inv, Current, RobotChanges
    PROVE  Current'
<1>1. ASSUME NEW f \in Topics
      PROVE  LastWordOn(f)'
  <2>1. CASE inbox'[f] = inbox[f] /\ robot'[f] = robot[f]
    BY <2>1 DEF RobotChanges, Current, LastWord, LastWordOn
  <2>2. CASE inbox'[f] = inbox[f] /\ Silent(f)
    BY <2>2 DEF RobotChanges, LastWordOn, Silent
  <2>3. CASE inbox'[f] = Push(inbox[f], robot'[f])
    <3>1. robot'[f] \in Values[f]
      BY FieldIsTyped, ConditionsAssumption DEF RobotChanges
    <3>2. inbox[f] \in Seq(Values[f])
      BY DEF Inv, InboxTyped
    <3>3. QED  BY <2>3, <3>1, <3>2, PushEndsWith DEF LastWordOn
  <2>4. QED  BY <2>1, <2>2, <2>3 DEF RobotChanges
<1>2. StatusIsOfCache'
  BY DEF RobotChanges, publisherVars, Current, StatusIsOfCache
<1>3. QED  BY <1>1, <1>2 DEF Current, LastWord

LEMMA PublishAgainCurrent ==
    ASSUME Inv, Current, NEW g \in Topics, PublishAgain(g)
    PROVE  Current'
<1>1. /\ robot[g] \in Values[g] /\ inbox[g] \in Seq(Values[g])
      /\ DOMAIN inbox = Topics
  BY FieldIsTyped, ConditionsAssumption DEF Inv, TypeOK, InboxTyped
<1>2. ASSUME NEW f \in Topics
      PROVE  LastWordOn(f)'
  <2>1. CASE f # g
    BY <1>1, <2>1 DEF PublishAgain, Current, LastWord, LastWordOn
  <2>2. CASE f = g
    <3>1. inbox'[g] = Push(inbox[g], robot[g]) /\ robot' = robot
      BY <1>1 DEF PublishAgain
    <3>2. QED  BY <1>1, <2>2, <3>1, PushEndsWith DEF LastWordOn
  <2>3. QED  BY <2>1, <2>2
<1>3. StatusIsOfCache'
  BY DEF PublishAgain, publisherVars, Current, StatusIsOfCache
<1>4. QED  BY <1>2, <1>3 DEF Current, LastWord

LEMMA StatusCallbackCurrent ==
    ASSUME Inv, Current, NEW g \in Topics, StatusCallback(g)
    PROVE  Current'
<1>1. /\ inbox[g] # <<>> /\ inbox[g] \in Seq(Values[g])
      /\ inbox' = [inbox EXCEPT ![g] = Tail(@)]
      /\ cache' = [cache EXCEPT ![g] = Head(inbox[g])]
      /\ robot' = robot
  BY DEF StatusCallback, Inv, InboxTyped
<1>2. DOMAIN inbox = Topics /\ DOMAIN cache = Topics
  BY DEF Inv, TypeOK, CachedConditions, Topics
<1>3. ASSUME NEW f \in Topics
      PROVE  LastWordOn(f)'
  <2>1. CASE f # g
    <3>1. inbox'[f] = inbox[f] /\ cache'[f] = cache[f]
      BY <1>1, <1>2, <2>1
    <3>2. QED  BY <1>1, <3>1 DEF Current, LastWord, LastWordOn
  <2>2. CASE f = g
    <3>1. inbox'[g] = Tail(inbox[g]) /\ cache'[g] = Head(inbox[g])
      BY <1>1, <1>2
    <3>2. inbox[g][Len(inbox[g])] = robot[g]
      BY <1>1 DEF Current, LastWord, LastWordOn
    <3>3. IF Tail(inbox[g]) = <<>> THEN Head(inbox[g]) = robot[g]
          ELSE Tail(inbox[g])[Len(Tail(inbox[g]))] = robot[g]
      BY <1>1, <3>2, TailEndsWith
    <3>4. QED  BY <1>1, <2>2, <3>1, <3>3 DEF LastWordOn
  <2>3. QED  BY <2>1, <2>2
<1>4. StatusIsOfCache'
  BY DEF StatusCallback, CacheAndCopy, StatusIsOfCache
<1>5. QED  BY <1>3, <1>4 DEF Current, LastWord

LEMMA NextCurrent == Inv /\ Current /\ [Next]_vars => Current'
<1> SUFFICES ASSUME Inv, Current, [Next]_vars  PROVE Current'
  OBVIOUS
<1>1. ASSUME UNCHANGED <<status, robot, inbox, cache>>
      PROVE  Current'
  BY <1>1 DEF Current, LastWord, LastWordOn, StatusIsOfCache
<1>2. CASE PublishTimer \/ PublishTopicCopy \/ CopyAfterClear \/ PublishAfterClear
           \/ UNCHANGED vars
  BY <1>1, <1>2 DEF PublishTimer, PublishTopicCopy, CopyAfterClear, PublishAfterClear,
                    CopyStatusTo, CacheAndCopy, PublishCopy, vars
<1>3. QED
  BY <1>2, RobotChangesCurrent, PublishAgainCurrent, StatusCallbackCurrent DEF Next, TopicStep

\* Two conditions with the same values are the same.
LEMMA ConditionIsItsFields ==
    ASSUME NEW c \in CachedConditions, NEW r \in RobotConditions,
           \A f \in Topics : c[f] = r[f]
    PROVE  c = r
<1>1. c.safety = r.safety /\ c.mode = r.mode /\ c.program = r.program
  BY DEF Topics
<1>2. QED  BY <1>1 DEF CachedConditions, RobotConditions

-----------------------------------------------------------------------------
(* The theorems *)

\* Type correctness, for any set of conditions and any history depth.
THEOREM TypeCorrect == Spec => []TypeOK
<1>1. Inv => TypeOK  BY DEF Inv
<1>2. QED  BY Invariance, <1>1, PTL

\* Neither the callbacks, nor the timer, nor a ClearFaults() that ends early
\* publishes more than UNKNOWN before each of the three topics has been heard.
THEOREM NothingIsKnownTooEarly == Spec => []NothingKnownTooEarly
<1>1. Inv => NothingKnownTooEarly
  BY DEF Inv, KnownMeansHeard, Known, AllHeard, NothingKnownTooEarly
<1>2. QED  BY Invariance, <1>1, PTL

\* Once every message has been heard the cached status is the README's status of
\* the robot's condition, for any history depth and any order of the topics, or
\* UNKNOWN while there is a topic the node has missed.
THEOREM QuietIsCurrent == Spec => []QuietMeansCurrent
<1>1. Inv /\ Current => QuietMeansCurrent
  <2> SUFFICES ASSUME Inv, Current, \A f \in Topics : inbox[f] = <<>>
               PROVE  status = Knowable
    BY DEF QuietMeansCurrent
  <2>1. cache \in CachedConditions /\ robot \in RobotConditions
    BY ConditionsAssumption DEF Inv, TypeOK
  <2>2. CASE AllHeard
    <3>1. cache = robot
      BY <2>1, <2>2, ConditionIsItsFields DEF Current, LastWord, LastWordOn, AllHeard
    <3>2. QED
      BY <2>1, <2>2, <3>1, TableIsImplemented DEF Current, StatusIsOfCache, Knowable
  <2>3. CASE ~AllHeard
    <3>1. ToOperationalStatus(cache) = "UNKNOWN"
      BY <2>1, <2>3, StatusIsTyped, EarlyStatus DEF AllHeard, Known
    <3>2. QED  BY <2>3, <3>1 DEF Current, StatusIsOfCache, Knowable
  <2>4. QED  BY <2>2, <2>3
<1>2. QED  BY Invariance, InitCurrent, NextCurrent, <1>1, PTL DEF Spec

=============================================================================
