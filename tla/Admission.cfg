SPECIFICATION MCSpec
CONSTANTS
    Part = {"channel", "pipeline", "limits"}
    Process = {p1}
    Call = {c1, c2}
    Effect = {e1}
    Action = {b1}
    Scope = {s1, s2}
    Policy = {v1, v2}
    Denying = {v2}
    None = None
    MaxRevision = 2
    MaxRev = 1
    Provider = {"kratos", "mcp", "api"}
    Hook = {"clinical", "grant", "grantAndMint", "mint", "claims", "body", "budget", "authorize", "shadow", "guard", "watch"}
    AuthorityMode = TRUE
    Deadline = 1
    MaxHooks = 2
    MaxTime = 2
    Caller = {k1, k2}
    Budget = {"minute", "lifetime"}
    Limit = 1
    Length = 2
    Agent = FALSE
    Ledger = TRUE
    MaxCost = 1
    MaxCalls = 2
    MaxFaults = 1
SYMMETRY Symmetry
INVARIANTS
    LetThroughIsAllowed
    TypesOK
    AnswersAreRecorded
    SentInTime
    OvershootIsBounded
PROPERTIES
    ReleasedUnderGrant
    ReleasedOnce
    WindowIsFixed
CHECK_DEADLOCK FALSE
