--------------------------- MODULE UrClearFaults ---------------------------
(***************************************************************************)
(* The UR node's recovery half: ClearFaults(), a chain of calls to the     *)
(* dashboard, the robot state helper and the UR driver.  It decides on the *)
(* first of them from a copy of `robot_status_` taken when it begins, and  *)
(* ignores the result of all but the last two.                             *)
(*                                                                         *)
(* A call that is given up on is not withdrawn: the robot may still carry  *)
(* it out, while the chain has gone on.                                    *)
(*                                                                         *)
(* External: the robot, and what each service does to it when it reports   *)
(* success.                                                                *)
(***************************************************************************)
EXTENDS UrRobot

CONSTANTS
    Conditions      \* the conditions the robot gets into by itself

ASSUME ConditionsAssumption == Conditions \subseteq RobotConditions

VARIABLES
    robot,          \* the robot's condition
    snapshot,       \* current_status, copied when ClearFaults() began
    step,           \* the call ClearFaults() is in, or "idle"
    sent,           \* its request is out
    reply,          \* its answer, not yet read
    late,           \* calls given up on that the robot may still carry out
    outdated,       \* history: the copied safety mode was not the robot's, or the
                    \* robot changed by itself since it was taken
    overtaken,      \* history: the robot changed by itself since `reply` was given
    failed          \* history: a call of this ClearFaults() did not succeed

callVars == <<step, sent, reply>>
vars == <<robot, snapshot, step, sent, reply, late, outdated, overtaken, failed>>

Unconnected == {"DISCONNECTED", "NO_CONTROLLER"}
Restartable ==
    {"VIOLATION", "FAULT", "SAFEGUARD_STOP", "AUTOMATIC_MODE_SAFEGUARD_STOP",
     "SYSTEM_EMERGENCY_STOP", "ROBOT_EMERGENCY_STOP"}

\* Calls whose result ClearFaults() ignores, and the two that decide it.
IgnoredCalls ==
    {"connect", "unlock_protective_stop", "close_before_restart",
     "restart_safety", "close_safety_popup", "close_popup", "brake_release"}
Calls == IgnoredCalls \cup {"set_mode", "resend_robot_program"}
\* The calls that change the robot's condition.
Effective ==
    {"unlock_protective_stop", "restart_safety", "set_mode", "brake_release",
     "resend_robot_program"}

TypeOK ==
    /\ robot \in RobotConditions
    /\ snapshot \in CachedConditions
    /\ step \in Calls \cup {"idle"}
    /\ sent \in BOOLEAN
    /\ reply \in {"none", "ok", "fail"}
    /\ late \subseteq Effective
    /\ outdated \in BOOLEAN
    /\ overtaken \in BOOLEAN
    /\ failed \in BOOLEAN

NothingHeard == [safety |-> Missing, mode |-> Missing, program |-> Missing]

Init ==
    /\ robot \in Conditions
    /\ snapshot = NothingHeard
    /\ step = "idle"
    /\ sent = FALSE
    /\ reply = "none"
    /\ late = {}
    /\ outdated = FALSE
    /\ overtaken = FALSE
    /\ failed = FALSE

-----------------------------------------------------------------------------
(* The chain of calls *)

\* Mutant of SafetyCall: a protective stop is not unlocked.
SafetyCallWithoutUnlock(c) ==
    IF c.safety \in Restartable THEN "close_before_restart" ELSE "close_safety_popup"

SafetyCall(c) ==
    IF c.safety = "PROTECTIVE_STOP" THEN "unlock_protective_stop"
    ELSE IF c.safety \in Restartable THEN "close_before_restart"
    ELSE "close_safety_popup"

\* A mode that was never heard of counts as DISCONNECTED.
FirstCall(c) ==
    IF c.mode \in Unconnected \cup {Missing} THEN "connect" ELSE SafetyCall(c)

\* The call that follows c, whatever c returned.
After(c) ==
    CASE c = "connect" -> SafetyCall(snapshot)
      [] c = "unlock_protective_stop" -> "close_safety_popup"
      [] c = "close_before_restart" -> "restart_safety"
      [] c = "restart_safety" -> "close_safety_popup"
      [] c = "close_safety_popup" -> "close_popup"
      [] c = "close_popup" -> "set_mode"
      [] c = "brake_release" -> "resend_robot_program"

\* The condition the robot is in after it carried out c with success.
Effect(c) ==
    IF c = "unlock_protective_stop" /\ robot.safety = "PROTECTIVE_STOP"
    THEN [robot EXCEPT !.safety = "NORMAL"]
    ELSE IF c = "restart_safety"
    THEN [safety |-> IF robot.safety \in Restartable THEN "NORMAL" ELSE robot.safety,
          mode |-> "POWER_OFF", program |-> "stopped"]
    ELSE IF c = "set_mode"
    THEN [robot EXCEPT !.mode = "RUNNING", !.program = "running"]
    ELSE IF c = "brake_release" /\ robot.safety \in SafeModes
    THEN [robot EXCEPT !.mode = "RUNNING"]
    ELSE IF c = "resend_robot_program" /\ robot.safety \in SafeModes /\ robot.mode = "RUNNING"
    THEN [robot EXCEPT !.program = "running"]
    ELSE robot

\* The state helper reaches RUNNING only if safety lets it.  A program is sent,
\* and reported as sent, to a robot in any condition.
MaySucceed(c) == c = "set_mode" => robot.safety \in SafeModes

-----------------------------------------------------------------------------
(* The robot and the services *)

RobotChanges ==
    /\ robot' \in Conditions \ {robot}
    /\ outdated' = TRUE
    /\ overtaken' = (reply # "none")
    /\ UNCHANGED <<snapshot, callVars, late, failed>>

Serve ==
    /\ sent /\ reply = "none"
    /\ \/ reply' = "ok" /\ MaySucceed(step) /\ robot' = Effect(step)
       \/ reply' = "fail" /\ UNCHANGED robot
    /\ UNCHANGED <<snapshot, step, sent, late, outdated, overtaken, failed>>

ServeLate(c) ==
    /\ c \in late
    /\ late' = late \ {c}
    /\ robot' \in {robot} \cup (IF MaySucceed(c) THEN {Effect(c)} ELSE {})
    /\ UNCHANGED <<snapshot, callVars, outdated, overtaken, failed>>

-----------------------------------------------------------------------------
(* ClearFaults() *)

\* The copy is of the cache, which may be older than the robot's condition.
BeginClearFaults ==
    /\ step = "idle"
    /\ snapshot' \in {robot, NothingHeard} \cup Conditions
    /\ step' = FirstCall(snapshot')
    /\ outdated' = (snapshot'.safety # robot.safety)
    /\ failed' = FALSE
    /\ UNCHANGED <<robot, sent, reply, late, overtaken>>

Send ==
    /\ step # "idle" /\ ~sent
    /\ sent' = TRUE
    /\ UNCHANGED <<robot, snapshot, step, reply, late, outdated, overtaken, failed>>

\* CallTriggerService() or CallSetModeAction() returned OK.
CallOk ==
    /\ reply = "ok"
    /\ UNCHANGED <<late, failed>>

\* Mutant of CallError: an answer is waited for without a timeout.
CallErrorWithoutTimeout ==
    /\ step # "idle"
    /\ failed' = TRUE
    /\ ~sent \/ reply # "none"
    /\ UNCHANGED late

\* It returned an error: no service (nothing sent), a failure or a rejected
\* goal, or a timeout, with or without an answer on its way.
CallError ==
    /\ step # "idle"
    /\ failed' = TRUE
    /\ \/ ~sent /\ UNCHANGED late
       \/ sent /\ reply # "none" /\ UNCHANGED late
       \/ sent /\ reply = "none" /\ late' = late \cup ({step} \cap Effective)

Goto(next) ==
    /\ step' = next
    /\ sent' = FALSE
    /\ reply' = "none"
    /\ overtaken' = FALSE
    /\ UNCHANGED <<robot, snapshot, outdated>>

IgnoredCallReturns == step \in IgnoredCalls /\ (CallOk \/ CallError) /\ Goto(After(step))
\* Mutant of SetModeSucceeds: the action's result is not looked at.
SetModeReturns == step = "set_mode" /\ (CallOk \/ CallError) /\ Goto("idle")

SetModeSucceeds == step = "set_mode" /\ CallOk /\ Goto("idle")
SetModeFails == step = "set_mode" /\ CallError /\ Goto("brake_release")
ResendSucceeds == step = "resend_robot_program" /\ CallOk /\ Goto("idle")
ResendFails == step = "resend_robot_program" /\ CallError /\ Goto("idle")

ClearStep ==
    \/ Send \/ IgnoredCallReturns \/ SetModeSucceeds \/ SetModeFails
    \/ ResendSucceeds \/ ResendFails
Next ==
    \/ RobotChanges \/ Serve \/ (\E c \in Effective : ServeLate(c))
    \/ BeginClearFaults \/ ClearStep

Spec == Init /\ [][Next]_vars

\* The service's thread keeps running; every wait in it has a timeout.
FairSpec == Spec /\ WF_vars(ClearStep)

-----------------------------------------------------------------------------
(* Properties *)

Faulted(r) == ToOperationalStatus(r) = "FAULTED"

\* The stops ClearFaults() has a remedy for.
Curable == Restartable \cup {"PROTECTIVE_STOP"}

\* When every call succeeded and the copied safety mode was the robot's and has
\* not been overtaken by a change of the robot's own, the safety system is in order
\* by the time the robot is asked to run, for every stop that has a remedy.  Of a
\* copy that was stale it says nothing.
RemedyFitsFault ==
    (step = "set_mode" /\ ~failed /\ ~outdated /\ snapshot.safety \in Curable)
        => robot.safety \in SafeModes

\* Success after SetMode is success: the robot is not FAULTED, unless it changed by
\* itself between the answer and its reading.  No matter that the remedy was chosen
\* for a condition the robot was not in, or has left since, that the calls before
\* it failed or were given up on, and that the robot carries those out late.
SetModeSuccessClearsFault ==
    [][SetModeSucceeds => (~Faulted(robot) \/ overtaken)]_vars

\* ClearFaults() ends, whatever the robot and its services do.
ClearFaultsTerminates == (step # "idle") ~> (step = "idle")

=============================================================================
