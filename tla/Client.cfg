SPECIFICATION ClientFairSpec
CONSTANTS
    c1 = c1
    c2 = c2
    u1 = u1
    u2 = u2
    d1 = d1
    d2 = d2
    Calls = {c1, c2}
    Abortable = {c1, c2}
    ArgsMayFail = TRUE
    Requests = {c2}
    Controls = {u1, u2}
    Closers = {d1, d2}
    Replies <- MCReplies
    Configs <- MCConfigs
    Scans <- MCScans
    Contents <- MCContents
    Prefixed <- MCPrefixed
    MaxOf <- MCMaxOf
    MaxDuration = 8000
    MaxSafe = 6
INVARIANTS ClientTypeOK HonestOutcomes ListenersMatchCalls  QueriesSelect ShutdownShared ResponsesKept
PROPERTIES SettledCallsSendNothing AbortEndsCalls ShutdownAnswered
