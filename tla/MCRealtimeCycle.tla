-------------------------- MODULE MCRealtimeCycle --------------------------
(***************************************************************************)
(* Instances of RealtimeCycle for TLC.                                     *)
(***************************************************************************)
EXTENDS RealtimeCycle

\* The default of both interface parameters.
MCTypes == <<"position", "velocity">>
=============================================================================
