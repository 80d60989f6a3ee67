\* Three threads, two connections, both kinds of RPC: contention for mu_ and
\* for connections, waiters, nested acquires, the deadlock included.
SPECIFICATION Spec
CONSTANTS
    Threads = {t1, t2, t3}
    NoThread = NoThread
    Size = 2
    Rpcs = {"plain", "create"}
    MaxRpcs = 2
INVARIANTS
    TypeOK
    ExclusiveLease
    NoConnectionLost
    EnoughAwake
    NoLostWakeup
PROPERTIES
    ImplementsConnPool
