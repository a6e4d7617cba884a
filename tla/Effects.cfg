SPECIFICATION MCSpec
CONSTANTS
    Process = {p1}
    Call = {c1, c2}
    Effect = {e1}
    Malformed = {}
    Lease = {2}
    Owner = {o1, k1}
    Unattested = {k1}
    Policy = {v1, v2}
    Denying = {}
    Allowing = {}
    Database = Database
    None = None
    Ttl = 1
    MaxTime = 2
    MaxFaults = 1
SYMMETRY Symmetry
INVARIANTS
    PermitsAreApproved
PROPERTIES
    ApprovalsStand
    ImplementsRegister
