---------------------------- MODULE ManagedRobot ----------------------------
(***************************************************************************)
(* What a hardware module promises about the robot it manages: hardware    *)
(* and controllers are changed while nobody relies on them, the hardware   *)
(* is deactivated after the controllers, and what was said to be ready or  *)
(* released stays so.  Only the hardware may fail at any time.             *)
(***************************************************************************)
CONSTANTS
    Controllers, Icon,          \* all controllers, the plugin among them
    ToActivate, ToDeactivate,   \* those to start and to stop for the plugin
    HasHardwareComponent        \* the hardware is managed too

VARIABLES
    phase,      \* "changing"; "ready" for motion; "released"
    hwActive,   \* the hardware component is active
    active      \* the active controllers

robotVars == <<phase, hwActive, active>>

Init ==
    /\ phase = "changing"
    /\ hwActive \in BOOLEAN
    /\ active \in SUBSET (Controllers \ {Icon})

\* Only the controllers of the two lists are ever switched.
SwitchControllers ==
    /\ phase = "changing"
    /\ active' \in SUBSET (active \cup ToActivate \cup ToDeactivate)
    /\ active \ (ToActivate \cup ToDeactivate) \subseteq active'
    /\ UNCHANGED <<phase, hwActive>>

ActivateHardware ==
    /\ HasHardwareComponent
    /\ phase = "changing"
    /\ hwActive' = TRUE
    /\ UNCHANGED <<phase, active>>

\* Never under a controller that was started for it.
DeactivateHardware ==
    /\ HasHardwareComponent
    /\ phase = "changing"
    /\ active \cap (ToActivate \ ToDeactivate) = {}
    /\ hwActive' = FALSE
    /\ UNCHANGED <<phase, active>>

\* Controllers that compete with the plugin have been stopped.
GetReady ==
    /\ phase = "changing"
    /\ active \cap (ToDeactivate \ ToActivate) = {}
    /\ phase' = "ready"
    /\ UNCHANGED <<hwActive, active>>

Withdraw ==
    /\ phase = "ready"
    /\ phase' = "changing"
    /\ UNCHANGED <<hwActive, active>>

\* Nothing of what was started for the plugin is left.
Release ==
    /\ phase = "changing"
    /\ active \cap (ToActivate \ ToDeactivate) = {}
    /\ HasHardwareComponent => ~hwActive
    /\ phase' = "released"
    /\ UNCHANGED <<hwActive, active>>

TakeAgain ==
    /\ phase = "released"
    /\ phase' = "changing"
    /\ UNCHANGED <<hwActive, active>>

\* The one change that no phase excludes.
HardwareError ==
    /\ hwActive
    /\ hwActive' = FALSE
    /\ active' \in SUBSET (active \ {Icon})
    /\ UNCHANGED phase

Next ==
    \/ SwitchControllers \/ ActivateHardware \/ DeactivateHardware
    \/ GetReady \/ Withdraw \/ Release \/ TakeAgain \/ HardwareError

Spec == Init /\ [][Next]_robotVars

=============================================================================
