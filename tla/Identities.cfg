SPECIFICATION MCSpec
CONSTANTS
    Process = {p1, p2}
    Request = {r1}
    MaxWater = 1
    MaxRevision = 1
    MaxRev = 1
    MaxFlush = 1
    MaxFaults = 1
    MaxCauses = 3
    Client = {c1, c2}
    Scope = {e1}
    Exchanger = {q1}
    NoOne = NoOne
    Ttl = 2
    Until = 2
    MaxTime = 1
    MaxTokens = 2
SYMMETRY Symmetry
INVARIANTS
    TypesOK
    AuthorityShrinks
    DeniedIsNotServed
    FlushesAllCaches
    EpochFencesIdentities
