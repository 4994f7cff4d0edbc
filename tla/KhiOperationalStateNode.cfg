\* Errors, resets and publications in any order.
CONSTANTS
    MaxResets = 2
    TopicDepth = 2
SPECIFICATION FairSpec
INVARIANTS
    TypeOK
PROPERTIES
    EnabledOnlyAfterReset
    ErrorIsLostToOverlapOnly
    ClearFaultsTerminates
    PublishedCatchesUp
