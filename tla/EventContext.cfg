SPECIFICATION Spec
CONSTANTS
    c1 = c1
    c2 = c2
    c3 = c3
    k1 = k1
    k2 = k2
    t1 = t1
    h1 = h1
    t2 = t2
    s1 = s1
    s2 = s2
    None = None
    Calls = {c1, c2, c3}
    Requests <- MCRequests
    Collections <- MCCollections
    Class <- MCClass
    Keys = {k1, k2}
    Times = {t1, h1, t2}
    Second <- MCSecond
    Stored = {s1, s2}
    Start <- MCStart
    Unreadable = {s2}
    MaxAttempts = 2
SYMMETRY Alike
INVARIANTS TypeOK DurableEntriesAreKept RetriesAddNoTimer
PROPERTIES ReadsHonest
