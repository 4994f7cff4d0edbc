-------------------- MODULE KhiOperationalStateNode_proofs --------------------
(***************************************************************************)
(* What the KHI node does for any number of resets it has given up on.     *)
(***************************************************************************)
EXTENDS KhiOperationalStateNode, SequenceTheorems, TLAPS

\* From a confirmed reset on, the error is cleared unless a new one occurred:
\* no late reset and no message in transit can bring it back.
ResetHolds ==
    (clear = "cache" \/ (clear = "wait" /\ reply = "ok")) => (~robotError \/ overlapped)

\* An answer reaches the ClearFaults() that waits for it, and no other.
AnswerIsAwaited == reply # "none" => clear = "wait"

Inv == TypeOK /\ ResetHolds /\ AnswerIsAwaited

-----------------------------------------------------------------------------
LEMMA InitInv == Init => Inv
<1> USE DEF Init
<1>1. Init => PublisherTypeOK
  BY DEF PublisherInit, PublisherTypeOK, Threads, Statuses
<1>2. Init => robotError \in BOOLEAN /\ missed \in BOOLEAN /\ overlapped \in BOOLEAN
  BY Zenon
<1>3. Init => TypeOK
  BY <1>1, <1>2 DEF TypeOK, ClearSteps
<1>4. Init => ResetHolds /\ AnswerIsAwaited
  BY DEF ResetHolds, AnswerIsAwaited
<1>5. QED  BY <1>3, <1>4 DEF Inv

LEMMA StatusIsTyped == \A info \in ErrorInfos : ToOperationalStatus(info) \in Statuses
BY DEF ToOperationalStatus, Statuses

LEMMA DriverStepInv ==
    ASSUME Inv, RobotFaults \/ ServeReset
    PROVE  Inv'
<1> USE DEF Inv, TypeOK, ResetHolds, AnswerIsAwaited, PublisherTypeOK, publisherVars, driverVars,
            resetVars, ClearSteps, ErrorInfos
<1>1. CASE RobotFaults
  <2>1. /\ robotError' \in BOOLEAN /\ missed' \in BOOLEAN /\ overlapped' \in BOOLEAN
        /\ ResetHolds'
    BY <1>1, Zenon DEF RobotFaults
  <2>2. QED  BY <1>1, <2>1 DEF RobotFaults
<1>2. CASE ServeReset
  <2>1. CASE UNCHANGED <<robotError, errorInfo>>
    BY <1>2, <2>1 DEF ServeReset, Awaited
  <2>2. CASE robotError' = FALSE
    <3>1. /\ robotError' \in BOOLEAN /\ missed' \in BOOLEAN /\ overlapped' \in BOOLEAN
          /\ ResetHolds'
      BY <1>2, <2>2, Zenon DEF ServeReset
    <3>2. QED  BY <1>2, <3>1 DEF ServeReset, Awaited
  <2>3. QED  BY <1>2, <2>1, <2>2 DEF ServeReset
<1>3. QED  BY <1>1, <1>2

LEMMA TopicStepInv ==
    ASSUME Inv, TopicStep
    PROVE  Inv'
<1> USE DEF Inv, TypeOK, ResetHolds, AnswerIsAwaited, PublisherTypeOK, driverVars, resetVars, Threads
<1>1. CASE ErrorInfoCallback
  <2>1. /\ Head(errorInfo) \in ErrorInfos
        /\ Tail(errorInfo) \in Seq(ErrorInfos)
    BY <1>1 DEF ErrorInfoCallback
  <2>2. ToOperationalStatus(Head(errorInfo)) \in Statuses
    BY <2>1, StatusIsTyped
  <2>3. QED  BY <1>1, <2>1, <2>2 DEF ErrorInfoCallback, CacheAndCopy
<1>2. CASE PublishTimer
  BY <1>2 DEF PublishTimer, CopyStatusTo, CacheAndCopy
<1>3. CASE PublishTopicCopy
  BY <1>3 DEF PublishTopicCopy, PublishCopy
<1>4. QED  BY <1>1, <1>2, <1>3 DEF TopicStep

LEMMA ClearStepInv ==
    ASSUME Inv, BeginClearFaults \/ ClearStep
    PROVE  Inv'
<1> USE DEF Inv, TypeOK, ResetHolds, AnswerIsAwaited, PublisherTypeOK, publisherVars, driverVars,
            resetVars, ClearSteps, Goto, Threads
<1>1. CASE BeginClearFaults
  BY <1>1 DEF BeginClearFaults
<1>5. CASE ResetUnavailable \/ SendReset
  BY <1>5 DEF ResetUnavailable, SendReset
<1>2. CASE ResetSucceeds \/ ResetFails \/ ResetTimesOut
  BY <1>2 DEF ResetSucceeds, ResetFails, ResetTimesOut
<1>3. CASE CacheEnabled
  BY <1>3 DEF CacheEnabled, Statuses
<1>4. CASE CopyCleared \/ PublishCleared
  BY <1>4 DEF CopyCleared, CopyStatusTo, CacheAndCopy, PublishCleared, PublishCopy
<1>6. QED  BY <1>1, <1>2, <1>3, <1>4, <1>5 DEF ClearStep

LEMMA Invariance == Spec => []Inv
<1>1. ASSUME Inv, UNCHANGED vars
      PROVE  Inv'
  BY <1>1 DEF Inv, TypeOK, ResetHolds, AnswerIsAwaited, PublisherTypeOK, vars
<1>2. Inv /\ [Next]_vars => Inv'
  BY <1>1, DriverStepInv, TopicStepInv, ClearStepInv DEF Next
<1>3. QED  BY InitInv, <1>2, PTL DEF Spec

-----------------------------------------------------------------------------
(* What may make the node forget an error *)

LEMMA LastOfAppended ==
    ASSUME NEW S, NEW q \in Seq(S), NEW m \in S
    PROVE  Append(q, m) # <<>> /\ Append(q, m)[Len(Append(q, m))] = m
OBVIOUS

LEMMA LastOfTail ==
    ASSUME NEW S, NEW q \in Seq(S), q # <<>>
    PROVE  /\ Len(q) = 1 => Tail(q) = <<>> /\ Head(q) = q[Len(q)]
           /\ Len(q) # 1 => Tail(q) # <<>> /\ Tail(q)[Len(Tail(q))] = q[Len(q)]
<1>1. Len(q) \in Nat \ {0} /\ Tail(q) \in Seq(S) /\ Len(Tail(q)) = Len(q) - 1
  OBVIOUS
<1>2. \A t : Len(t) > 0 => t # <<>>
  OBVIOUS
<1>3. ASSUME Len(q) = 1
      PROVE  Tail(q) = <<>> /\ Head(q) = q[Len(q)]
  <2>1. Tail(q) # <<>> => Len(Tail(q)) \in Nat \ {0}
    BY <1>1, EmptySeq, Zenon
  <2>2. Head(q) = q[1]
    OBVIOUS
  <2>3. QED  BY <1>1, <1>3, <2>1, <2>2
<1>4. ASSUME Len(q) # 1
      PROVE  Tail(q) # <<>> /\ Tail(q)[Len(Tail(q))] = q[Len(q)]
  <2>1. Len(Tail(q)) > 0 /\ Tail(q)[Len(Tail(q))] = q[Len(q)]
    BY <1>1, <1>4
  <2>2. QED  BY <1>2, <2>1, Zenon
<1>5. QED  BY <1>3, <1>4

\* Hearing a message keeps what is known: it was the last word, or it was not.
LEMMA CallbackKeepsError ==
    ASSUME TypeOK, ErrorInfoCallback, ErrorIsKnown
    PROVE  ErrorIsKnown'
<1>1. /\ errorInfo \in Seq(ErrorInfos) /\ errorInfo # <<>>
      /\ errorInfo' = Tail(errorInfo)
      /\ status' = ToOperationalStatus(Head(errorInfo))
  BY DEF TypeOK, ErrorInfoCallback, CacheAndCopy
<1>2. errorInfo[Len(errorInfo)] = "errors"
  BY <1>1 DEF ErrorIsKnown
<1>3. CASE Len(errorInfo) = 1
  <2>1. Tail(errorInfo) = <<>> /\ Head(errorInfo) = "errors"
    BY <1>1, <1>2, <1>3, LastOfTail
  <2>2. errorInfo' = <<>> /\ status' = "FAULTED"
    BY <1>1, <2>1 DEF ToOperationalStatus
  <2>3. QED  BY <2>2 DEF ErrorIsKnown
<1>4. CASE Len(errorInfo) # 1
  <2>1. errorInfo' # <<>> /\ errorInfo'[Len(errorInfo')] = "errors"
    BY <1>1, <1>2, <1>4, LastOfTail
  <2>2. QED  BY <2>1 DEF ErrorIsKnown
<1>5. QED  BY <1>3, <1>4

LEMMA ErrorIsLostInRace ==
    ASSUME Inv, [Next]_vars, robotError', ~ErrorIsKnown'
    PROVE  (robotError /\ ~ErrorIsKnown) \/ (CacheEnabled /\ overlapped)
<1>1. CASE RobotFaults
  <2>1. errorInfo \in Seq(ErrorInfos) /\ errorInfo' = Append(errorInfo, "errors")
    BY <1>1 DEF Inv, TypeOK, RobotFaults
  <2>2. errorInfo' # <<>> /\ errorInfo'[Len(errorInfo')] = "errors"
    BY <2>1, LastOfAppended DEF ErrorInfos
  <2>3. QED  BY <2>2 DEF ErrorIsKnown
<1>2. ASSUME robotError' = robotError, ErrorIsKnown => ErrorIsKnown'
      PROVE  robotError /\ ~ErrorIsKnown
  BY <1>2
<1>3. ASSUME UNCHANGED <<robotError, status, errorInfo>>
      PROVE  robotError /\ ~ErrorIsKnown
  BY <1>2, <1>3 DEF ErrorIsKnown
<1>4. CASE ServeReset
  <2>1. CASE robotError' = FALSE
    BY <2>1
  <2>2. CASE UNCHANGED <<robotError, errorInfo>>
    BY <1>3, <1>4, <2>2 DEF ServeReset, driverVars, publisherVars
  <2>3. QED  BY <1>4, <2>1, <2>2 DEF ServeReset
<1>5. CASE ErrorInfoCallback
  <2>1. robotError' = robotError  BY <1>5 DEF ErrorInfoCallback
  <2>2. QED  BY <1>2, <1>5, <2>1, CallbackKeepsError DEF Inv
<1>6. CASE PublishTimer \/ PublishTopicCopy
  BY <1>3, <1>6 DEF PublishTimer, PublishTopicCopy, CopyStatusTo, CacheAndCopy,
                    PublishCopy, driverVars
<1>7. CASE CacheEnabled
  <2>1. robotError' = robotError  BY <1>7 DEF CacheEnabled, driverVars
  <2>2. ~robotError \/ overlapped  BY <1>7 DEF Inv, ResetHolds, CacheEnabled, Goto
  <2>3. QED  BY <1>7, <2>1, <2>2
<1>8. CASE BeginClearFaults \/ SendReset \/ ResetUnavailable \/ ResetSucceeds \/ ResetFails
           \/ ResetTimesOut
  BY <1>3, <1>8 DEF BeginClearFaults, SendReset, ResetUnavailable, ResetSucceeds,
                    ResetFails, ResetTimesOut, driverVars, publisherVars
<1>9. CASE CopyCleared \/ PublishCleared \/ UNCHANGED vars
  BY <1>3, <1>9 DEF CopyCleared, PublishCleared, CopyStatusTo, CacheAndCopy, PublishCopy,
                    driverVars, vars
<1>10. QED
  BY <1>1, <1>4, <1>5, <1>6, <1>7, <1>8, <1>9 DEF Next, TopicStep, ClearStep

-----------------------------------------------------------------------------
(* The theorems *)

\* Type correctness, for any bounds.
THEOREM TypeCorrect == Spec => []TypeOK
<1>1. Inv => TypeOK  BY DEF Inv
<1>2. QED  BY Invariance, <1>1, PTL

\* ENABLED is cached only after a reset that cleared the error; the one error it
\* can hide is one that occurred while ClearFaults() was running.
THEOREM ResetIsEarned == Spec => EnabledOnlyAfterReset
<1>1. Inv => (CacheEnabled => (~robotError \/ overlapped))
  BY DEF Inv, ResetHolds, CacheEnabled, Goto
<1>2. Inv /\ [Next]_vars => [CacheEnabled => (~robotError \/ overlapped)]_vars
  BY <1>1
<1>3. QED  BY Invariance, <1>2, PTL DEF EnabledOnlyAfterReset, Spec

\* The only error the node can forget is one that occurs while a ClearFaults() is
\* under way which caches ENABLED: no late reset, no message in transit and no
\* publication of either thread loses one.
THEOREM ErrorsAreKept == Spec => ErrorIsLostToOverlapOnly
<1>1. Inv /\ [Next]_vars =>
        [(robotError' /\ ~ErrorIsKnown') =>
            (robotError /\ ~ErrorIsKnown) \/ (CacheEnabled /\ overlapped)]_vars
  BY ErrorIsLostInRace
<1>2. QED  BY Invariance, <1>1, PTL DEF ErrorIsLostToOverlapOnly, Spec

=============================================================================
