------------------------- MODULE MCHwmWithFanucNode -------------------------
(***************************************************************************)
(* Instances of HwmWithFanucNode for TLC.                                  *)
(***************************************************************************)
EXTENDS HwmWithFanucNode

Healthy == [in_error |-> FALSE, e_stopped |-> FALSE, motion_possible |-> TRUE,
            tp_enabled |-> FALSE, contact_stop |-> "NONE"]

\* A robot whose condition plays no part.
MCHealthy == {Healthy}

\* A robot that works, and one whose teach pendant is enabled.
MCManual == {Healthy, [Healthy EXCEPT !.tp_enabled = TRUE]}
=============================================================================
