\* A callback of the timer that is running when on_cleanup() begins.
CONSTANTS
    Clocks = {c1}
    NoClock = NoClock
    HwmStates = {"DEACTIVATED"}
SPECIFICATION Spec
INVARIANTS
    TimerIsStopped
