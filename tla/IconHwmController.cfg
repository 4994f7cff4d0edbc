\* The plugin's lifecycle against its publish timer, with failures at each step.
CONSTANTS
    Clocks = {c1, c2}
    NoClock = NoClock
    HwmStates = {"DEACTIVATED", "FAULTED"}
SPECIFICATION FairSpec
INVARIANTS
    TypeOK
    ClockOutlivesRuntime
    CompleteOrClean
    WorkingIsNotCalledFailed
PROPERTIES
    InitFailureIsPublished
    LastingStateIsPublished
