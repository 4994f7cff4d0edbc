------------------------------ MODULE UrRobot ------------------------------
(***************************************************************************)
(* What the UR node knows of the robot: the last values of three topics,   *)
(* and the OperationalStatus they amount to.                               *)
(***************************************************************************)
EXTENDS OperationalStatus

\* Constants of ur_dashboard_msgs; the last of each stands for a value that the
\* message does not name.
AllSafetyModes ==
    {"NORMAL", "REDUCED", "PROTECTIVE_STOP", "RECOVERY", "SAFEGUARD_STOP",
     "SYSTEM_EMERGENCY_STOP", "ROBOT_EMERGENCY_STOP", "VIOLATION", "FAULT",
     "VALIDATE_JOINT_ID", "UNDEFINED_SAFETY_MODE",
     "AUTOMATIC_MODE_SAFEGUARD_STOP", "SYSTEM_THREE_POSITION_ENABLING_STOP",
     "OTHER_SAFETY_MODE"}
AllRobotModes ==
    {"NO_CONTROLLER", "DISCONNECTED", "CONFIRM_SAFETY", "BOOTING", "POWER_OFF",
     "POWER_ON", "IDLE", "BACKDRIVE", "RUNNING", "UPDATING_FIRMWARE",
     "OTHER_ROBOT_MODE"}
Programs == {"running", "stopped"}

\* A field of the cache whose topic has not been heard of yet.
Missing == "missing"

RobotConditions ==
    [safety : AllSafetyModes, mode : AllRobotModes, program : Programs]
CachedConditions ==
    [safety : AllSafetyModes \cup {Missing}, mode : AllRobotModes \cup {Missing},
     program : Programs \cup {Missing}]

SafeModes == {"NORMAL", "REDUCED"}
OffModes == {"BOOTING", "POWER_OFF", "POWER_ON", "IDLE", "BACKDRIVE",
             "UPDATING_FIRMWARE"}

\* Mutant of ToOperationalStatus: only the safety topic is waited for.
ToOperationalStatusEarly(c) ==
    IF c.safety = Missing THEN "UNKNOWN"
    ELSE IF c.safety \notin SafeModes THEN "FAULTED"
    ELSE IF c.mode \in OffModes THEN "DISABLED"
    ELSE IF c.mode # "RUNNING" THEN "FAULTED"
    ELSE IF c.program = "running" THEN "ENABLED" ELSE "DISABLED"

\* Mutant of ToOperationalStatus: no state is set for a stopped program.
ToOperationalStatusUnset(c) ==
    IF c.safety = Missing \/ c.mode = Missing \/ c.program = Missing THEN "UNKNOWN"
    ELSE IF c.safety \notin SafeModes THEN "FAULTED"
    ELSE IF c.mode \in OffModes THEN "DISABLED"
    ELSE IF c.mode # "RUNNING" THEN "FAULTED"
    ELSE IF c.program = "running" THEN "ENABLED" ELSE "unset"

\* Nothing is known before all three topics are; then safety goes first.
ToOperationalStatus(c) ==
    IF c.safety = Missing \/ c.mode = Missing \/ c.program = Missing THEN "UNKNOWN"
    ELSE IF c.safety \notin SafeModes THEN "FAULTED"
    ELSE IF c.mode \in OffModes THEN "DISABLED"
    ELSE IF c.mode # "RUNNING" THEN "FAULTED"
    ELSE IF c.program = "running" THEN "ENABLED" ELSE "DISABLED"

=============================================================================
