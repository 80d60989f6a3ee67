\* Every start with up to two mistakes in the file, signals at any time.
SPECIFICATION Spec
CONSTANTS
    Starts <- MCStarts
    IntModulus = 1048576
    Size = 2
INVARIANTS
    StartTypeOK
    ServesAsConfigured
    OnePassIsEnough
    CleanExit
PROPERTIES
    StartIsDecided
