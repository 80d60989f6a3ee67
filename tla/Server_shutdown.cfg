\* One CreateVehicle less than connections, which still compete for them.
SPECIFICATION ServerSpec
CONSTANTS
    Threads = {t1, t2}
    NoThread = NoThread
    Size = 3
    Rpcs = {"plain", "create"}
    MaxRpcs = 2
INVARIANTS
    ServerTypeOK
    PoolQuietAtExit
PROPERTIES
    GracefulShutdown
    EveryRpcFinishes
