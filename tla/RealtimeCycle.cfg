\* Two joints with position and velocity, and a cycle that may be late twice.
CONSTANTS
    NumDofs = 2
    StateTypes <- MCTypes
    CommandTypes <- MCTypes
    MaxCycles = 3
SPECIFICATION Spec
INVARIANTS
    TypeOK
    StatusIsAsNewAsItsStamp
    CommandIsWhole
    ReleasedOnlyIfLate
PROPERTIES
    Lockstep
