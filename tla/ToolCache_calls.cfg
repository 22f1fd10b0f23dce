SPECIFICATION Spec
CONSTANTS
    NoCaller = NoCaller
    Callers = {a1, a2, a3}
    Keys = {k1, k2, k3}
    MaxEntries = 2
    MaxBytes = 3
    Sizes = {1, 3, 4}
    MaxCalls = 1
INVARIANTS
    TypeOK
    SingleFlight
    NoRecomputation
    Accounted
    EvictionFindsVictim
    WaitersHaveLeader
    SharedIsCacheable
PROPERTIES
    CallsEndOrStrand
