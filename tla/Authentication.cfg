\* One RPC thread, two kids (a bad entry for one aborts the refresh for both)
\* and a rotation, with one credential of each kind.
SPECIFICATION AuthSpec
CONSTANTS
    Callers = {c1}
    NoCaller = NoCaller
    Kids = {k1, k2}
    k1 = k1
    k2 = k2
    NoKid = NoKid
    Ttl = 2
    FetchTimeout = 1
    MaxTime = 5
    MaxRotations = 2
    Credentials <- MCCredentials
INVARIANTS
    AuthTypeOK
PROPERTIES
    SoundAuthentication
