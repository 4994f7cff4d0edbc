\* Every handler and its service calls, with a topic that may report a fault.
CONSTANTS
    Controllers = {icon, other}
    Icon = icon
    ToActivate = {icon}
    ToDeactivate = {other}
    HasHardwareComponent = TRUE
    HasClearFaultsService = TRUE
    TopicStatuses = {"FAULTED"}
    MaxQueue = 3
    TopicDepth = 1
SPECIFICATION FairSpec
INVARIANTS
    SettledWhenReady
    ShutdownIsFinal
    DeactivateOnlyWhenReleased
    RecoveryBeforeReactivation
PROPERTIES
    RobotIsManaged
    HandlersTerminate
