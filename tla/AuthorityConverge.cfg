SPECIFICATION FairSpec
CONSTANTS
    Replica = {r1, r2}
    Session = {}
    NoSession = NoSession
    Fresh = 1
    Retain = 1
    PageSize = 1
    Gaps = {1}
    MaxTime = 0
    MaxInc = 2
    MaxRev = 2
    MaxSeq = 2
    MaxFaults = 1
INVARIANTS
    ReadyIsPublished
PROPERTIES
    ImplementsFence
    Converges
