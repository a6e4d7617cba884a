SPECIFICATION MCFairSpec
CONSTANTS
    Part = {"policies"}
    Request = {r1, r2}
    Kid = {k1}
    None = None
    Ttl = 2
    Floor = 1
    Timeout = 1
    MaxTime = 4
    Key = {s1, s2}
    Pair = {m1, m2}
    Shared = {m2}
    Unreadable = {m2}
    Process = {p1}
    ConfigKey = ConfigKey
    Id = {"a", "b", "agent_tool_sugar"}
    Reserved = {"agent_tool_sugar"}
    Schema = {"own"}
    Gateway = "gateway"
    TokenLife = 1
    MaxAge = 1
    MaxTokens = 1
    Content <- SomeContents
    Effect <- SaysWhatItDoes
    Sugar <- NoSugar
    Route <- SomeRoutes
    RouteFile <- OneRouteInFile
    Domains <- TwoSites
    NameOf <- HostsWithPorts
    Path = {"/x", "/y"}
    Method = {"GET", "PUT"}
    Admin = {a1}
    MaxVersions = 2
    MaxFaults = 1
    RouteId = {"a", "b"}
    Override = TRUE
    Flaw = {"sugar", "lint", "backend", "oauth", "tls", "admin"}
    MaxOutages = 1
    MaxOpen = 1
    File = {"file", "one", "two"}
    MaxWrites = 1
    MaxSwaps = 2
    MaxEvents = 2
INVARIANTS
    FailsClosed
CHECK_DEADLOCK FALSE
