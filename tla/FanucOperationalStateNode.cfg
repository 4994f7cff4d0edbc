\* ClearFaults() against the topic thread and late requests, and every branch
\* of the status from the robot to the topic.
CONSTANTS
    Conditions <- MCConditions
    MaxRequests = 2
SPECIFICATION FairSpec
INVARIANTS
    PublishedIsCurrent
PROPERTIES
    FeedImplemented
    SuccessMeansControlRestored
    LastingConditionIsReported
    ClearFaultsTerminates
