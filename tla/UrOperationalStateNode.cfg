\* Three topics, the timer and ClearFaults() publishing in any order.
CONSTANTS
    Conditions <- MCConditions
    TopicDepth = 2
SPECIFICATION FairSpec
INVARIANTS
    TypeOK
    NothingKnownTooEarly
    QuietMeansCurrent
PROPERTIES
    LastingConditionIsReported
