\* The recovery chain against a robot that changes, and late calls.
CONSTANTS
    Conditions <- MCConditions
SPECIFICATION FairSpec
INVARIANTS
    RemedyFitsFault
PROPERTIES
    SetModeSuccessClearsFault
    ClearFaultsTerminates
