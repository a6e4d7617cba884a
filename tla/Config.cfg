SPECIFICATION MCFairSpec
CONSTANTS
    Process = {p1, p2}
    First = p1
    Admin = {a1}
    NoTask = NoTask
    Fenced = TRUE
    Ungoverned = {3}
    MaxRev = 3
    MaxEpoch = 2
    MaxFaults = 1
    FewRev = 2
    FewFaults = 1
INVARIANTS
    PairIsOneRevision
    ReloadedIsServed
    NotAheadWhileKept
PROPERTIES
    ProcessesConverge
