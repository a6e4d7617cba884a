SPECIFICATION MCFairSpec
CONSTANTS
    Stream = {s1, s2}
    ToolCall = {c1}
    Approval = {a1, a2}
    Caller = {k1}
    Cap = 1
    Ttl = 1
    None = None
    Protocol = {"sse", "ndjson"}
    MaxEvents = 3
    MaxLines = 2
INVARIANTS
    PendingIsBounded
    FramesAreEvents
    WithheldIsUnread
PROPERTIES
    NothingWaitsForever
    ImplementsApproval
CHECK_DEADLOCK FALSE
