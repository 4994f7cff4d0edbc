\* From the robot's condition to the realtime check, with a node that may die.
CONSTANTS
    Controllers = {icon}
    Icon = icon
    ToActivate = {icon}
    ToDeactivate = {}
    HasHardwareComponent = FALSE
    HasClearFaultsService = FALSE
    TopicStatuses = {"UNKNOWN", "DISABLED", "ENABLED"}
    MaxQueue = 1
    TopicDepth = 1
    Conditions <- MCManual
    MaxRequests = 1
    MaxCrashes = 1
SPECIFICATION FairSystemSpec
INVARIANTS
    BoxKeepsUpWithNode
PROPERTIES
    BoxFollowsRobot
    LastingFaultStopsMotion
