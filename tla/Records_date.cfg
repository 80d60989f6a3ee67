\* The same requests, against the comment of DateToString.
SPECIFICATION Spec
CONSTANTS
    NanosPerMicro = 3
    MicrosPerSecond = 2
    UnitsPerStep = 4
    MaxSteps = 2
    NaN <- MCNaN
    Requests <- MCRequests
INVARIANTS
    DateColumnRejects
