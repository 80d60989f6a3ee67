\* One client that creates vehicles.
SPECIFICATION Spec
CONSTANTS
    Threads = {t1}
    Ids <- TwoIds
    Names = {1, 2}
    RefIds <- MCRefIds
    Limits = {0, 1}
    NoWrite = NoWrite
    Seed <- OneVehicle
    MaxRpcs = 1
    Methods = {"CreateVehicle"}
INVARIANTS
    UnauthenticatedHasNoEffect
