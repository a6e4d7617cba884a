SPECIFICATION Spec
CONSTANTS
    Process = {p1}
    Admin = {a1}
    NoTask = NoTask
    Fenced = TRUE
    Ungoverned = {}
    MaxRev = 2
    MaxEpoch = 0
    MaxFaults = 0
PROPERTIES
    NotActivatedIsNotExposed
