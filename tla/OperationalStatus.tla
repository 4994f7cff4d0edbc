------------------------- MODULE OperationalStatus -------------------------
(***************************************************************************)
(* icon_hwm_controller_msgs/msg/OperationalStatus: the message through     *)
(* which a vendor node tells the hardware module how the robot is doing.   *)
(* Only the `state` field is kept here; the vendor modules add what they   *)
(* need of `message`.                                                      *)
(***************************************************************************)

\* The four state constants of the message.
Statuses == {"UNKNOWN", "DISABLED", "FAULTED", "ENABLED"}

\* The value `OperationalStatus` variables take where there is no message.
NoMessage == "none"

\* The states in which ApplyCommand() refuses to command the robot.
CommandBlocking == {"DISABLED", "FAULTED"}

\* The states in which EnableMotion() and DisableMotion() fail.
HandlerBlocking == {"FAULTED"}

=============================================================================
