\* The module and the FANUC node, with a node that may die once.
CONSTANTS
    Controllers = {icon}
    Icon = icon
    ToActivate = {icon}
    ToDeactivate = {}
    HasHardwareComponent = FALSE
    HasClearFaultsService = TRUE
    TopicStatuses = {}
    MaxQueue = 2
    TopicDepth = 1
    Conditions <- MCHealthy
    MaxRequests = 2
    MaxCrashes = 1
SPECIFICATION SystemSpec
INVARIANTS
    SystemTypeOK
    ReactivationMeansRecovered
PROPERTIES
    ComponentsImplemented
