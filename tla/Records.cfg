\* Requests at every boundary of the validation and of the columns.
SPECIFICATION Spec
CONSTANTS
    NanosPerMicro = 3
    MicrosPerSecond = 2
    UnitsPerStep = 4
    MaxSteps = 2
    NaN <- MCNaN
    Requests <- MCRequests
INVARIANTS
    TypeOK
    StoredRowRules
    WriteBackIsHarmless
    AcceptedIsStored
