SPECIFICATION MCFairSpec
CONSTANTS
    Process = {p1, p2}
    First = p1
    Request = {r1, r2}
    Shared = TRUE
    Restarts = TRUE
    MaxRevision = 1
    MaxGen = 2
    MaxFaults = 1
INVARIANTS
    ServedSinceInvalidation
PROPERTIES
    EndedSessionsLoseStreams
