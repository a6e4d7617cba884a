SPECIFICATION LossySpec
CONSTANTS
    Replica = {r1}
    Session = {s1}
    NoSession = NoSession
    Fresh = 1
    Retain = 3
    PageSize = 2
    Gaps = {2}
    MaxTime = 3
    MaxInc = 2
    MaxRev = 3
    MaxSeq = 4
    MaxFaults = 1
INVARIANTS
    BoundedStaleness
