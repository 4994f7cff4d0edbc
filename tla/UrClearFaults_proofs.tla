------------------------ MODULE UrClearFaults_proofs ------------------------
(***************************************************************************)
(* What the UR node's ClearFaults() achieves for every robot condition,    *)
(* whatever calls of earlier ones the robot still carries out.             *)
(***************************************************************************)
EXTENDS UrClearFaults, Integers, TLAPS

(* The invariant *)

\* Nothing is out and nothing is unread between two runs of ClearFaults().
IdleIsClean == step = "idle" => ~sent /\ reply = "none"

\* The chain took the branch that its copy asks for.
BranchFitsCopy ==
    /\ step = "unlock_protective_stop" => snapshot.safety = "PROTECTIVE_STOP"
    /\ step \in {"close_before_restart", "restart_safety"}
            => snapshot.safety \in Restartable

\* While the robot does not change by itself, its safety mode is the copied one
\* or NORMAL: that is all a call can make of it.
StopIsCopiedOrCured ==
    (step # "idle" /\ ~outdated) => robot.safety \in {snapshot.safety, "NORMAL"}

\* The remedy for the stop has been carried out.
PastRemedy ==
    \/ step \in {"close_safety_popup", "close_popup", "set_mode"}
    \/ step \in {"unlock_protective_stop", "restart_safety"} /\ reply = "ok"
RemedyWorked ==
    (PastRemedy /\ ~failed /\ ~outdated /\ snapshot.safety \in Curable)
        => robot.safety \in SafeModes

\* A robot that was set to run is not faulted until it changes by itself, and no
\* late call makes it so.
RobotWasSet ==
    (step = "set_mode" /\ reply = "ok") => (~Faulted(robot) \/ overtaken)

Inv ==
    /\ TypeOK
    /\ IdleIsClean
    /\ BranchFitsCopy
    /\ StopIsCopiedOrCured
    /\ RemedyWorked
    /\ RobotWasSet

-----------------------------------------------------------------------------
(* The operators *)

LEMMA FirstCallIsCall == \A c \in CachedConditions : FirstCall(c) \in IgnoredCalls
BY DEF FirstCall, SafetyCall, IgnoredCalls

LEMMA CallsAreSteps == "idle" \notin Calls
BY DEF Calls, IgnoredCalls

LEMMA AfterIsCall == step \in IgnoredCalls => After(step) \in Calls
BY DEF After, SafetyCall, IgnoredCalls, Calls

LEMMA NotFaulted ==
    \A r \in RobotConditions :
        ~Faulted(r) <=> r.safety \in SafeModes /\ r.mode \in OffModes \cup {"RUNNING"}
BY DEF Faulted, ToOperationalStatus, RobotConditions, AllSafetyModes, AllRobotModes,
       Programs, Missing, SafeModes, OffModes

\* A call that succeeds leaves the safety mode alone or makes it NORMAL, and
\* never takes a robot out of service.
LEMMA EffectIsGentle ==
    ASSUME robot \in RobotConditions, NEW c \in Calls
    PROVE  /\ Effect(c) \in RobotConditions
           /\ Effect(c).safety \in {robot.safety, "NORMAL"}
           /\ ~Faulted(robot) => ~Faulted(Effect(c))
<1>0. /\ "NORMAL" \in AllSafetyModes /\ {"POWER_OFF", "RUNNING"} \subseteq AllRobotModes
      /\ {"running", "stopped"} \subseteq Programs
  BY DEF AllSafetyModes, AllRobotModes, Programs
<1>1. Effect(c) \in RobotConditions
  BY <1>0 DEF Effect, RobotConditions
<1>2. Effect(c).safety \in {robot.safety, "NORMAL"}
  BY DEF Effect, RobotConditions
<1>3. ~Faulted(robot) => ~Faulted(Effect(c))
  BY <1>1, NotFaulted DEF Effect, RobotConditions, SafeModes, OffModes
<1>4. QED  BY <1>1, <1>2, <1>3

\* What a call that succeeded means for the stop and for the robot.
LEMMA EffectOfRemedy ==
    ASSUME robot \in RobotConditions
    PROVE  /\ robot.safety \in {"PROTECTIVE_STOP", "NORMAL"}
                => Effect("unlock_protective_stop").safety \in SafeModes
           /\ robot.safety \in Restartable \cup {"NORMAL"}
                => Effect("restart_safety").safety \in SafeModes
           /\ robot.safety \in SafeModes => ~Faulted(Effect("set_mode"))
<1>1. Effect("set_mode") \in RobotConditions
  BY EffectIsGentle DEF Calls
<1>2. QED
  BY <1>1, NotFaulted DEF Effect, RobotConditions, SafeModes

-----------------------------------------------------------------------------
(* The steps *)

LEMMA InitInv == Init => Inv
<1> USE ConditionsAssumption DEF Init
<1>1. Init => sent \in BOOLEAN /\ outdated \in BOOLEAN /\ overtaken \in BOOLEAN /\ failed \in BOOLEAN
  BY Zenon
<1>2. Init => TypeOK
  BY <1>1 DEF TypeOK, NothingHeard, CachedConditions
<1>3. Init => /\ IdleIsClean /\ BranchFitsCopy /\ StopIsCopiedOrCured
              /\ RemedyWorked /\ RobotWasSet
  BY DEF IdleIsClean, BranchFitsCopy, StopIsCopiedOrCured, RemedyWorked, PastRemedy, RobotWasSet
<1>4. QED  BY <1>2, <1>3 DEF Inv

\* Whatever the robot does to itself, the copy is out of date from then on, and so
\* is an answer that has been given.
LEMMA RobotChangesInv ==
    ASSUME Inv, RobotChanges
    PROVE  Inv'
<1> USE ConditionsAssumption DEF RobotChanges, callVars
<1>1. /\ sent' \in BOOLEAN /\ outdated' \in BOOLEAN /\ overtaken' \in BOOLEAN
      /\ failed' \in BOOLEAN
  BY Zenon DEF Inv, TypeOK
<1>2. TypeOK'
  BY <1>1 DEF Inv, TypeOK
<1>3. IdleIsClean' /\ BranchFitsCopy'
  BY DEF Inv, IdleIsClean, BranchFitsCopy
<1>4. StopIsCopiedOrCured' /\ RemedyWorked' /\ RobotWasSet'
  BY DEF StopIsCopiedOrCured, RemedyWorked, RobotWasSet
<1>5. QED  BY <1>2, <1>3, <1>4 DEF Inv

LEMMA ServeInv ==
    ASSUME Inv, Serve
    PROVE  Inv'
<1> USE DEF Inv
<1>1. /\ sent /\ reply = "none"
      /\ UNCHANGED <<snapshot, step, sent, late, outdated, overtaken, failed>>
      /\ step \in Calls
  BY DEF Serve, TypeOK, IdleIsClean
<1>2. CASE reply' = "ok" /\ MaySucceed(step) /\ robot' = Effect(step)
  <2>1. /\ robot' \in RobotConditions
        /\ robot'.safety \in {robot.safety, "NORMAL"}
    BY <1>1, <1>2, EffectIsGentle DEF TypeOK
  <2>2. TypeOK'  BY <1>1, <1>2, <2>1 DEF TypeOK
  <2>3. IdleIsClean' /\ BranchFitsCopy'
    BY <1>1, CallsAreSteps DEF IdleIsClean, BranchFitsCopy
  <2>4. StopIsCopiedOrCured'  BY <1>1, <2>1 DEF StopIsCopiedOrCured
  <2>5. RemedyWorked'
    <3>1. CASE step \in {"unlock_protective_stop", "restart_safety"}
      BY <1>1, <1>2, <3>1, EffectOfRemedy
         DEF RemedyWorked, StopIsCopiedOrCured, BranchFitsCopy, TypeOK
    <3>2. CASE step \notin {"unlock_protective_stop", "restart_safety"}
      BY <1>1, <2>1, <3>2 DEF RemedyWorked, PastRemedy, SafeModes
    <3>3. QED  BY <3>1, <3>2
  <2>6. RobotWasSet'
    BY <1>1, <1>2, EffectOfRemedy DEF RobotWasSet, MaySucceed, TypeOK, Faulted
  <2>7. QED  BY <2>2, <2>3, <2>4, <2>5, <2>6
<1>3. CASE reply' = "fail" /\ UNCHANGED robot
  BY <1>1, <1>3, CallsAreSteps
     DEF TypeOK, IdleIsClean, BranchFitsCopy, StopIsCopiedOrCured, RemedyWorked,
         PastRemedy, RobotWasSet, Faulted
<1>4. QED  BY <1>2, <1>3 DEF Serve

\* A late call can only do to the robot what is harmless: it cures a stop, or
\* changes the mode of a robot that stays in service.
LEMMA ServeLateInv ==
    ASSUME Inv, NEW c \in Effective, ServeLate(c)
    PROVE  Inv'
<1> USE DEF Inv
<1>1. /\ UNCHANGED <<snapshot, step, sent, reply, outdated, overtaken, failed>>
      /\ late' = late \ {c}
  BY DEF ServeLate, callVars
<1>2. c \in Calls
  BY DEF Effective, Calls, IgnoredCalls
<1>3. /\ robot' \in RobotConditions
      /\ robot'.safety \in {robot.safety, "NORMAL"}
      /\ ~Faulted(robot) => ~Faulted(robot')
  <2>1. CASE robot' = robot
    BY <2>1 DEF TypeOK
  <2>2. CASE robot' = Effect(c)
    BY <1>2, <2>2, EffectIsGentle DEF TypeOK
  <2>3. QED  BY <2>1, <2>2 DEF ServeLate
<1>4. TypeOK'  BY <1>1, <1>3 DEF TypeOK
<1>5. IdleIsClean' /\ BranchFitsCopy'  BY <1>1 DEF IdleIsClean, BranchFitsCopy
<1>6. StopIsCopiedOrCured'  BY <1>1, <1>3 DEF StopIsCopiedOrCured
<1>7. RemedyWorked'  BY <1>1, <1>3 DEF RemedyWorked, PastRemedy, SafeModes
<1>8. RobotWasSet'  BY <1>1, <1>3 DEF RobotWasSet, Faulted
<1>9. QED  BY <1>4, <1>5, <1>6, <1>7, <1>8

LEMMA BeginInv ==
    ASSUME Inv, BeginClearFaults
    PROVE  Inv'
<1> USE DEF Inv
<1>1. /\ step = "idle" /\ ~sent /\ reply = "none"
      /\ step' = FirstCall(snapshot')
      /\ outdated' = (snapshot'.safety # robot.safety) /\ failed' = FALSE
      /\ UNCHANGED <<robot, sent, reply, late, overtaken>>
  BY DEF BeginClearFaults, IdleIsClean
<1>2. snapshot' \in CachedConditions
  BY ConditionsAssumption
     DEF BeginClearFaults, TypeOK, RobotConditions, CachedConditions, NothingHeard
<1>3. step' \in IgnoredCalls
  BY <1>1, <1>2, FirstCallIsCall
<1>4. /\ sent' \in BOOLEAN /\ outdated' \in BOOLEAN /\ overtaken' \in BOOLEAN
      /\ failed' \in BOOLEAN
  BY <1>1, Zenon DEF TypeOK
<1>5. TypeOK'
  BY <1>1, <1>2, <1>3, <1>4 DEF TypeOK, Calls
<1>6. IdleIsClean'  BY <1>1 DEF IdleIsClean
<1>7. BranchFitsCopy'  BY <1>1 DEF BranchFitsCopy, FirstCall, SafetyCall
<1>8. StopIsCopiedOrCured'  BY <1>1 DEF StopIsCopiedOrCured
<1>9. RemedyWorked'
  BY <1>1 DEF RemedyWorked, PastRemedy, FirstCall, SafetyCall, Curable
<1>10. RobotWasSet'  BY <1>1 DEF RobotWasSet
<1>11. QED  BY <1>5, <1>6, <1>7, <1>8, <1>9, <1>10

LEMMA SendInv ==
    ASSUME Inv, Send
    PROVE  Inv'
<1> USE DEF Inv, Send
<1>1. /\ sent' \in BOOLEAN /\ outdated' \in BOOLEAN /\ overtaken' \in BOOLEAN
      /\ failed' \in BOOLEAN
  BY Zenon DEF TypeOK
<1>2. TypeOK'  BY <1>1 DEF TypeOK
<1>3. IdleIsClean' /\ BranchFitsCopy'  BY DEF IdleIsClean, BranchFitsCopy
<1>4. StopIsCopiedOrCured' /\ RemedyWorked' /\ RobotWasSet'
  BY DEF StopIsCopiedOrCured, RemedyWorked, PastRemedy, RobotWasSet, Faulted
<1>5. QED  BY <1>2, <1>3, <1>4

\* A call returns and the chain goes on, or ends.
Returns == (CallOk \/ CallError) /\ \E next \in Calls \cup {"idle"} : Goto(next)

LEMMA ReturnIsTyped ==
    ASSUME Inv, Returns
    PROVE  TypeOK' /\ IdleIsClean'
<1>1. PICK next \in Calls \cup {"idle"} : Goto(next)
  BY DEF Returns
<1>2. sent' \in BOOLEAN /\ outdated' \in BOOLEAN /\ overtaken' \in BOOLEAN
  BY <1>1, Zenon DEF Goto, Inv, TypeOK
<1>3. failed' \in BOOLEAN
  BY Zenon DEF Returns, CallOk, CallError, Inv, TypeOK
<1>4. late' \subseteq Effective
  BY DEF Returns, CallOk, CallError, Inv, TypeOK
<1>5. TypeOK'
  BY <1>1, <1>2, <1>3, <1>4 DEF Goto, Inv, TypeOK
<1>6. IdleIsClean'
  BY <1>1 DEF Goto, IdleIsClean
<1>7. QED  BY <1>5, <1>6

LEMMA IgnoredCallReturnsInv ==
    ASSUME Inv, IgnoredCallReturns
    PROVE  Inv'
<1>1. /\ step \in IgnoredCalls
      /\ step' = After(step) /\ reply' = "none" /\ After(step) \in Calls
      /\ UNCHANGED <<robot, snapshot, outdated>>
  BY AfterIsCall DEF IgnoredCallReturns, Goto
<1>2. TypeOK' /\ IdleIsClean'
  BY <1>1, ReturnIsTyped DEF IgnoredCallReturns, Returns
<1>3. BranchFitsCopy'
  BY <1>1 DEF Inv, BranchFitsCopy, After, SafetyCall, IgnoredCalls
<1>4. StopIsCopiedOrCured'
  BY <1>1 DEF Inv, StopIsCopiedOrCured, IgnoredCalls
<1>5. RemedyWorked'
  <2>1. SUFFICES ASSUME PastRemedy', ~failed', ~outdated', snapshot'.safety \in Curable
                 PROVE  robot'.safety \in SafeModes
    BY DEF RemedyWorked
  <2>2. reply = "ok" /\ ~failed
    BY <2>1 DEF IgnoredCallReturns, CallOk, CallError
  <2>3. PastRemedy
    BY <1>1, <2>1, <2>2 DEF PastRemedy, After, SafetyCall, IgnoredCalls, Curable
  <2>4. QED  BY <1>1, <2>1, <2>2, <2>3 DEF Inv, RemedyWorked
<1>6. RobotWasSet'  BY <1>1 DEF RobotWasSet
<1>7. QED  BY <1>2, <1>3, <1>4, <1>5, <1>6 DEF Inv

LEMMA LastCallsInv ==
    ASSUME Inv, SetModeSucceeds \/ SetModeFails \/ ResendSucceeds \/ ResendFails
    PROVE  Inv'
<1>1. /\ step \in {"set_mode", "resend_robot_program"}
      /\ step' \in {"idle", "brake_release"} /\ reply' = "none"
      /\ UNCHANGED <<robot, snapshot, outdated>>
  BY DEF SetModeSucceeds, SetModeFails, ResendSucceeds, ResendFails, Goto
<1>2. Returns
  BY DEF Returns, SetModeSucceeds, SetModeFails, ResendSucceeds, ResendFails, Calls,
         IgnoredCalls
<1>3. TypeOK' /\ IdleIsClean'
  BY <1>2, ReturnIsTyped
<1>4. BranchFitsCopy' /\ StopIsCopiedOrCured'
  BY <1>1 DEF Inv, BranchFitsCopy, StopIsCopiedOrCured
<1>5. RemedyWorked' /\ RobotWasSet'
  BY <1>1 DEF RemedyWorked, PastRemedy, RobotWasSet
<1>6. QED  BY <1>3, <1>4, <1>5 DEF Inv

LEMMA StutterInv ==
    ASSUME Inv, UNCHANGED vars
    PROVE  Inv'
BY DEF Inv, TypeOK, IdleIsClean, BranchFitsCopy, StopIsCopiedOrCured, RemedyWorked,
       PastRemedy, RobotWasSet, Faulted, vars, callVars

LEMMA NextInv == Inv /\ [Next]_vars => Inv'
BY RobotChangesInv, ServeInv, ServeLateInv, BeginInv, SendInv, IgnoredCallReturnsInv,
   LastCallsInv, StutterInv DEF Next, ClearStep

LEMMA Invariance == Spec => []Inv
BY InitInv, NextInv, PTL DEF Spec

-----------------------------------------------------------------------------
(* The theorems *)

\* Type correctness, for any set of conditions.
THEOREM TypeCorrect == Spec => []TypeOK
<1>1. Inv => TypeOK  BY DEF Inv
<1>2. QED  BY Invariance, <1>1, PTL

\* For every stop that has a remedy, the chain carries out the one that cures it
\* before it asks the robot to run.
THEOREM RemedyIsRight == Spec => []RemedyFitsFault
<1>1. Inv => RemedyFitsFault
  BY DEF Inv, RemedyWorked, PastRemedy, RemedyFitsFault
<1>2. QED  BY Invariance, <1>1, PTL

\* A success that SetMode decides is earned in every condition, for every copy the
\* chain started from, stale ones included, and with any calls of earlier runs of
\* ClearFaults() still being carried out.
THEOREM SetModeSuccessIsEarned == Spec => SetModeSuccessClearsFault
<1>1. Inv => (SetModeSucceeds => (~Faulted(robot) \/ overtaken))
  BY DEF Inv, RobotWasSet, SetModeSucceeds, CallOk
<1>2. Inv /\ [Next]_vars => [SetModeSucceeds => (~Faulted(robot) \/ overtaken)]_vars
  BY <1>1
<1>3. QED  BY Invariance, <1>2, PTL DEF SetModeSuccessClearsFault, Spec

-----------------------------------------------------------------------------
(* ClearFaults() is short *)

\* The calls it can still make, the one it is in included.
CallsLeft ==
    IF step = "connect" THEN 8
    ELSE IF step = "close_before_restart" THEN 7
    ELSE IF step \in {"unlock_protective_stop", "restart_safety"} THEN 6
    ELSE IF step = "close_safety_popup" THEN 5
    ELSE IF step = "close_popup" THEN 4
    ELSE IF step = "set_mode" THEN 3
    ELSE IF step = "brake_release" THEN 2
    ELSE IF step = "resend_robot_program" THEN 1
    ELSE 0

\* Its remaining steps: each call is sent and returns.
StepsLeft == 2 * CallsLeft - (IF sent THEN 1 ELSE 0)

LEMMA CallsLeftType ==
    /\ CallsLeft \in 0..8
    /\ step \in Calls => CallsLeft \in 1..8
BY DEF CallsLeft, Calls, IgnoredCalls

\* No call comes twice: what follows a call has fewer to go.
LEMMA ReturnsAdvance ==
    ASSUME step \in Calls,
           \/ IgnoredCallReturns \/ SetModeSucceeds \/ SetModeFails
           \/ ResendSucceeds \/ ResendFails
    PROVE  StepsLeft' < StepsLeft
<1>1. sent' = FALSE
  BY DEF IgnoredCallReturns, SetModeSucceeds, SetModeFails, ResendSucceeds, ResendFails, Goto
<1>2. CallsLeft' < CallsLeft
  <2>1. CASE IgnoredCallReturns
    BY <2>1 DEF IgnoredCallReturns, Goto, After, SafetyCall, IgnoredCalls, CallsLeft
  <2>2. CASE SetModeSucceeds \/ SetModeFails \/ ResendSucceeds \/ ResendFails
    BY <2>2 DEF SetModeSucceeds, SetModeFails, ResendSucceeds, ResendFails, Goto, CallsLeft
  <2>3. QED  BY <2>1, <2>2
<1>3. CallsLeft \in 0..8 /\ CallsLeft' \in 0..8
  BY DEF CallsLeft
<1>4. StepsLeft' = 2 * CallsLeft'  BY <1>1, <1>3 DEF StepsLeft
<1>5. StepsLeft \in Int /\ StepsLeft >= 2 * CallsLeft - 1  BY <1>3 DEF StepsLeft
<1>6. StepsLeft' \in Int  BY <1>3, <1>4
<1>7. \A m, n \in 0..8, p, q \in Int :
        m < n /\ p = 2 * m /\ q >= 2 * n - 1 => p < q
  OBVIOUS
<1>8. QED  BY <1>2, <1>3, <1>4, <1>5, <1>6, <1>7

\* Every step of ClearFaults() brings its end nearer and no other step puts it off.
RecoveryAdvances ==
    /\ ClearStep => StepsLeft' < StepsLeft
    /\ step # "idle" => StepsLeft' <= StepsLeft

LEMMA NextAdvances ==
    ASSUME TypeOK, Next
    PROVE  RecoveryAdvances
<1>1. StepsLeft \in Int /\ StepsLeft' \in Int
  BY DEF StepsLeft, CallsLeft
<1>2. CASE Send
  <2>1. step # "idle" /\ step' = step /\ ~sent /\ sent' = TRUE
    BY <1>2 DEF Send
  <2>2. CallsLeft' = CallsLeft  BY <2>1 DEF CallsLeft
  <2>3. StepsLeft' < StepsLeft  BY <2>1, <2>2, CallsLeftType DEF StepsLeft
  <2>4. QED  BY <1>1, <2>3 DEF RecoveryAdvances
<1>3. CASE ClearStep /\ ~Send
  <2>1. step \in Calls
    BY <1>3 DEF ClearStep, IgnoredCallReturns, SetModeSucceeds, SetModeFails, ResendSucceeds,
       ResendFails, Calls
  <2>2. StepsLeft' < StepsLeft  BY <1>3, <2>1, ReturnsAdvance DEF ClearStep
  <2>3. QED  BY <1>1, <2>2 DEF RecoveryAdvances
<1>4. CASE ~ClearStep
  <2>1. BeginClearFaults \/ (step' = step /\ sent' = sent)
    BY <1>4 DEF Next, RobotChanges, Serve, ServeLate, callVars
  <2>2. CASE BeginClearFaults
    BY <1>4, <2>2 DEF BeginClearFaults, RecoveryAdvances
  <2>3. CASE step' = step /\ sent' = sent
    <3>1. StepsLeft' = StepsLeft  BY <2>3 DEF StepsLeft, CallsLeft
    <3>2. QED  BY <1>1, <1>4, <3>1 DEF RecoveryAdvances
  <2>4. QED  BY <2>1, <2>2, <2>3
<1>5. QED  BY <1>2, <1>3, <1>4 DEF ClearStep

\* ClearFaults() makes at most sixteen steps, whatever its services answer and
\* the robot does: the half of ClearFaultsTerminates that needs no fairness.
THEOREM ClearFaultsIsShort ==
    Spec => [](StepsLeft \in 0..16) /\ [][RecoveryAdvances]_vars
<1>1. Inv => StepsLeft \in 0..16
  BY CallsLeftType DEF Inv, TypeOK, IdleIsClean, StepsLeft
<1>2. Inv /\ [Next]_vars => [RecoveryAdvances]_vars
  BY NextAdvances DEF Inv
<1>3. QED
  BY <1>1, <1>2, InitInv, NextInv, PTL DEF Spec

=============================================================================
