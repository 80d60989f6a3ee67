\* As many concurrent CreateVehicles as there are connections.
SPECIFICATION ServerSpec
CONSTANTS
    Threads = {t1, t2}
    NoThread = NoThread
    Size = 2
    Rpcs = {"create"}
    MaxRpcs = 1
PROPERTIES
    GracefulShutdown
