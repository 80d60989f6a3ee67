\* Two threads, one real kid and the empty one, a lifetime longer than a
\* fetch, and time enough for a fetch, the lifetime and a second fetch.
SPECIFICATION Spec
CONSTANTS
    Callers = {c1, c2}
    NoCaller = NoCaller
    Kids = {k1}
    NoKid = NoKid
    Ttl = 1
    FetchTimeout = 1
    MaxTime = 4
    MaxRotations = 2
INVARIANTS
    TypeOK
    FreshKey
PROPERTIES
    NoOlderKeySet
    EveryLookupEnds
