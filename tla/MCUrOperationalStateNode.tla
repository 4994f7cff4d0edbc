---------------------- MODULE MCUrOperationalStateNode ----------------------
(***************************************************************************)
(* Instances of UrOperationalStateNode for TLC.                            *)
(***************************************************************************)
EXTENDS UrOperationalStateNode

\* Conditions that differ in one, two and all three topics.
MCConditions ==
    {[safety |-> "NORMAL", mode |-> "RUNNING", program |-> "running"],
     [safety |-> "REDUCED", mode |-> "RUNNING", program |-> "stopped"],
     [safety |-> "NORMAL", mode |-> "POWER_OFF", program |-> "stopped"],
     [safety |-> "PROTECTIVE_STOP", mode |-> "RUNNING", program |-> "stopped"],
     [safety |-> "NORMAL", mode |-> "DISCONNECTED", program |-> "stopped"]}
=============================================================================
