SPECIFICATION Spec
CONSTANTS
    c1 = c1
    c2 = c2
    c3 = c3
    s1 = s1
    s2 = s2
    Calls = {c1, c2, c3}
    Stored = {s1, s2}
    Start <- Backlog
    Unreadable = {s2}
    Indexes <- FewIndexes
    MaxPosition = 3
    MaxAttempts = 2
SYMMETRY Alike
INVARIANTS TypeOK AtReadsOneState DurableItemsAreKept
PROPERTIES NothingLost FailedCallsChangeNothing
