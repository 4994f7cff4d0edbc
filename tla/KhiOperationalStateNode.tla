---------------------- MODULE KhiOperationalStateNode ----------------------
(***************************************************************************)
(* The KHI node: it turns error_info messages into an OperationalStatus    *)
(* and implements clear_faults with the driver's reset_error service.      *)
(*                                                                         *)
(* External: the robot and its driver.  An error raises `robotError` and   *)
(* is published on error_info once, when it occurs; a reset that succeeds   *)
(* clears it.  The subscription is volatile: a node that is started while  *)
(* an error is active is not told of it.                                   *)
(***************************************************************************)
EXTENDS Integers, Sequences, StatusPublisher

CONSTANTS
    MaxResets,      \* bound on the reset_error requests not served yet
    TopicDepth      \* bound on the error_info messages in transit

ASSUME BoundsAssumption == MaxResets \in Nat \ {0} /\ TopicDepth \in Nat \ {0}

VARIABLES
    robotError,     \* the controller has an active error
    errorInfo,      \* error_info messages in transit
    missed,         \* history: the last error occurred before the node was there
    clear,          \* where ClearFaults() is
    resets,         \* reset_error requests not served yet
    reply,          \* the answer on its way to ClearFaults()
    overlapped      \* history: an error occurred since ClearFaults() began

driverVars == <<robotError, errorInfo, missed>>
resetVars == <<resets, reply>>
vars == <<status, outbox, published, robotError, errorInfo, missed, clear,
          resets, reply, overlapped>>

\* Does error_codes of the message list anything?
ErrorInfos == {"errors", "no_errors"}
ClearSteps == {"idle", "send", "wait", "cache", "copy", "publish"}

TypeOK ==
    /\ PublisherTypeOK
    /\ robotError \in BOOLEAN
    /\ errorInfo \in Seq(ErrorInfos)
    /\ missed \in BOOLEAN
    /\ clear \in ClearSteps
    /\ resets \in Nat
    /\ reply \in {"none", "ok", "fail"}
    /\ overlapped \in BOOLEAN

\* Mutant of ToOperationalStatus: no state is set when there is no error.
ToOperationalStatusUnset(info) == IF info = "errors" THEN "FAULTED" ELSE NoMessage

ToOperationalStatus(info) == IF info = "errors" THEN "FAULTED" ELSE "ENABLED"

\* The node assumes ENABLED until it hears of an error, also when the robot has one.
Init ==
    /\ PublisherInit("ENABLED")
    /\ robotError \in BOOLEAN
    /\ errorInfo = <<>>
    /\ missed = robotError
    /\ clear = "idle"
    /\ resets = 0
    /\ reply = "none"
    /\ overlapped = FALSE

-----------------------------------------------------------------------------
(* The robot's driver *)

RobotFaults ==
    /\ Len(errorInfo) < TopicDepth
    /\ robotError' = TRUE
    /\ missed' = FALSE
    /\ errorInfo' = Append(errorInfo, "errors")
    /\ overlapped' = (overlapped \/ clear # "idle")
    /\ UNCHANGED <<publisherVars, clear, resetVars>>

Awaited == clear = "wait" /\ reply = "none" /\ resets = 1

\* The reset may leave the topic silent or be followed by an empty error_info.
ServeReset ==
    /\ resets > 0
    /\ resets' = resets - 1
    /\ \/ /\ robotError' = FALSE
          /\ \/ UNCHANGED errorInfo
             \/ Len(errorInfo) < TopicDepth /\ errorInfo' = Append(errorInfo, "no_errors")
          /\ reply' = IF Awaited THEN "ok" ELSE reply
       \/ /\ reply' = IF Awaited THEN "fail" ELSE reply
          /\ UNCHANGED <<robotError, errorInfo>>
    /\ UNCHANGED <<publisherVars, missed, clear, overlapped>>

-----------------------------------------------------------------------------
(* The topic thread *)

\* Mutant of ErrorInfoCallback: what comes while faults are cleared is dropped.
ErrorInfoCallbackWhenIdle ==
    /\ errorInfo # <<>>
    /\ IF clear = "idle" THEN CacheAndCopy("topic", ToOperationalStatus(Head(errorInfo)))
       ELSE UNCHANGED publisherVars
    /\ errorInfo' = Tail(errorInfo)
    /\ UNCHANGED <<robotError, missed, clear, resetVars, overlapped>>

ErrorInfoCallback ==
    /\ errorInfo # <<>>
    /\ CacheAndCopy("topic", ToOperationalStatus(Head(errorInfo)))
    /\ errorInfo' = Tail(errorInfo)
    /\ UNCHANGED <<robotError, missed, clear, resetVars, overlapped>>

\* Mutant of PublishTimer: the timer fires once.
PublishTimerOnce ==
    /\ published = NoMessage
    /\ CopyStatusTo("topic")
    /\ UNCHANGED <<driverVars, clear, resetVars, overlapped>>

PublishTimer ==
    /\ CopyStatusTo("topic")
    /\ UNCHANGED <<driverVars, clear, resetVars, overlapped>>

PublishTopicCopy ==
    /\ PublishCopy("topic")
    /\ UNCHANGED <<driverVars, clear, resetVars, overlapped>>

-----------------------------------------------------------------------------
(* ClearFaults(), on the thread of the clear_faults service *)

Goto(from, to) == clear = from /\ clear' = to

BeginClearFaults ==
    /\ Goto("idle", "send")
    /\ overlapped' = FALSE
    /\ UNCHANGED <<publisherVars, driverVars, resetVars>>

ResetUnavailable ==
    /\ Goto("send", "idle")
    /\ UNCHANGED <<publisherVars, driverVars, resetVars, overlapped>>

SendReset ==
    /\ Goto("send", "wait")
    /\ resets < MaxResets
    /\ resets' = resets + 1
    /\ UNCHANGED <<publisherVars, driverVars, reply, overlapped>>

ResetSucceeds ==
    /\ Goto("wait", "cache")
    /\ reply = "ok"
    /\ reply' = "none"
    /\ UNCHANGED <<publisherVars, driverVars, resets, overlapped>>

ResetFails ==
    /\ Goto("wait", "idle")
    /\ reply = "fail"
    /\ reply' = "none"
    /\ UNCHANGED <<publisherVars, driverVars, resets, overlapped>>

\* Mutant of ResetTimesOut: a missing answer is taken for a success.
ResetTimeoutIgnored ==
    /\ Goto("wait", "cache")
    /\ reply' = "none"
    /\ UNCHANGED <<publisherVars, driverVars, resets, overlapped>>

\* Mutant of ResetTimesOut: the future is waited for without a timeout.
ResetWaitsForever ==
    /\ Goto("wait", "idle")
    /\ reply = "fail" /\ reply' = "none"
    /\ UNCHANGED <<publisherVars, driverVars, resets, overlapped>>

\* The request stays with the driver, which may serve it much later.
ResetTimesOut ==
    /\ Goto("wait", "idle")
    /\ reply' = "none"
    /\ UNCHANGED <<publisherVars, driverVars, resets, overlapped>>

CacheEnabled ==
    /\ Goto("cache", "copy")
    /\ status' = "ENABLED"
    /\ UNCHANGED <<outbox, published, driverVars, resetVars, overlapped>>

CopyCleared ==
    /\ Goto("copy", "publish")
    /\ CopyStatusTo("clear")
    /\ UNCHANGED <<driverVars, resetVars, overlapped>>

\* Then the service answers with success.
PublishCleared ==
    /\ Goto("publish", "idle")
    /\ PublishCopy("clear")
    /\ UNCHANGED <<driverVars, resetVars, overlapped>>

TopicStep == ErrorInfoCallback \/ PublishTimer \/ PublishTopicCopy
ClearStep ==
    \/ SendReset \/ ResetUnavailable \/ ResetSucceeds \/ ResetFails
    \/ ResetTimesOut \/ CacheEnabled \/ CopyCleared \/ PublishCleared
Next == RobotFaults \/ ServeReset \/ TopicStep \/ BeginClearFaults \/ ClearStep

Spec == Init /\ [][Next]_vars

\* The executor's threads keep running, and the timer is one of the callbacks
\* it picks again and again.
Fairness ==
    /\ WF_vars(PublishTopicCopy)
    /\ SF_vars(PublishTimer)
    /\ WF_vars(ClearStep)
FairSpec == Spec /\ Fairness

-----------------------------------------------------------------------------
(* Properties *)

\* ENABLED is put over the cached status only when the reset has cleared the
\* error, or the error is newer than the ClearFaults() that caches it: neither a
\* reset that timed out nor one that failed hides an error.
EnabledOnlyAfterReset == [][CacheEnabled => (~robotError \/ overlapped)]_vars

\* The last word on the robot's errors, on its way or in the cache, is an error.
ErrorIsKnown ==
    IF errorInfo = <<>> THEN status = "FAULTED"
    ELSE errorInfo[Len(errorInfo)] = "errors"

\* The driver says of each error once, and the node, once it runs, loses none of
\* them, whatever late resets and the messages that follow them do, with one
\* exception: the error that occurs while a ClearFaults() is under way which then
\* caches ENABLED.
ErrorIsLostToOverlapOnly ==
    [][(robotError' /\ ~ErrorIsKnown') =>
            (robotError /\ ~ErrorIsKnown) \/ (CacheEnabled /\ overlapped)]_vars

\* ClearFaults() ends, whatever the driver does.
ClearFaultsTerminates == (clear # "idle") ~> (clear = "idle")

\* README.md:500 of the KHI example: "When `error_codes` is non-empty [...], the
\* node transitions to OperationalStatus::FAULTED".  Once the message of an error
\* that is still active has been received, the cache says FAULTED.
ActiveErrorIsReported ==
    (robotError /\ ~missed /\ errorInfo = <<>>) => status = "FAULTED"

=============================================================================
