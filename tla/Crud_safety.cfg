\* Two concurrent handlers, every method, one fresh id.
SPECIFICATION Spec
CONSTANTS
    Threads = {t1, t2}
    Ids <- SixIds
    Names = {1, 2}
    RefIds <- MCRefIds
    Limits = {0, 1}
    NoWrite = NoWrite
    Seed <- FleetInUse
    MaxRpcs = 1
    Methods = {"CreateVehicle", "GetVehicle", "UpdateVehicle",
        "DeleteVehicle", "CreateWeather", "CreateSourceCategory",
        "SearchWeather", "SearchSourceCategory",
        "CreateCharging", "GetCharging", "UpdateCharging", "DeleteCharging",
        "CreateConsumption", "GetConsumption", "UpdateConsumption",
        "DeleteConsumption"}
INVARIANTS
    TypeOK
    TablesConsistent
    OkIsDurable
    RefusalHasNoEffect
PROPERTIES
    EveryRpcIsAnswered
