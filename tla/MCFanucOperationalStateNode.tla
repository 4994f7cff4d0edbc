-------------------- MODULE MCFanucOperationalStateNode --------------------
(***************************************************************************)
(* Instances of FanucOperationalStateNode for TLC.                         *)
(***************************************************************************)
EXTENDS FanucOperationalStateNode

Healthy == [in_error |-> FALSE, e_stopped |-> FALSE, motion_possible |-> TRUE,
            tp_enabled |-> FALSE, contact_stop |-> "NONE"]

\* Each branch of ToOperationalStatus, the pendant together with an alarm.
MCConditions ==
    {Healthy,
     [Healthy EXCEPT !.e_stopped = TRUE, !.motion_possible = FALSE],
     [Healthy EXCEPT !.contact_stop = "SAFE"],
     [Healthy EXCEPT !.tp_enabled = TRUE, !.in_error = TRUE],
     [Healthy EXCEPT !.in_error = TRUE],
     [Healthy EXCEPT !.motion_possible = FALSE]}
=============================================================================
