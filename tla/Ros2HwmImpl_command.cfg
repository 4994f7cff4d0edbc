\* ApplyCommand() while the subscription holds the lock.
CONSTANTS
    Controllers = {icon}
    Icon = icon
    ToActivate = {icon}
    ToDeactivate = {}
    HasHardwareComponent = FALSE
    HasClearFaultsService = FALSE
    TopicStatuses = {"FAULTED", "DISABLED", "ENABLED"}
    MaxQueue = 1
    TopicDepth = 2
SPECIFICATION Spec
INVARIANTS
    NoCommandWhileBlocked
