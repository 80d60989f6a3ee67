\* Every subset of four chargings and three consumptions, every report, two
\* writes by others while it runs.
SPECIFICATION Spec
CONSTANTS
    ChargingRows <- MCChargingRows
    ConsumptionRows <- MCConsumptionRows
    Requests <- MCRequests
    MaxWrites = 2
INVARIANTS
    TypeOK
    ReplyIsOneState
    OkHadData
    BreakdownsAddUp
    PeriodsAddUp
