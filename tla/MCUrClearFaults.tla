-------------------------- MODULE MCUrClearFaults --------------------------
(***************************************************************************)
(* Instances of UrClearFaults for TLC.                                     *)
(***************************************************************************)
EXTENDS UrClearFaults

\* A running robot, one stop for each remedy and one without, and no connection.
MCConditions ==
    {[safety |-> "NORMAL", mode |-> "RUNNING", program |-> "running"],
     [safety |-> "PROTECTIVE_STOP", mode |-> "RUNNING", program |-> "stopped"],
     [safety |-> "SAFEGUARD_STOP", mode |-> "RUNNING", program |-> "stopped"],
     [safety |-> "RECOVERY", mode |-> "IDLE", program |-> "stopped"],
     [safety |-> "NORMAL", mode |-> "DISCONNECTED", program |-> "stopped"]}
=============================================================================
