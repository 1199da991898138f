SPECIFICATION Spec
CONSTANTS
    e1 = e1
    e2 = e2
    e3 = e3
    Events = {e1, e2}
    KeyOf <- SharedKey
    KindOf <- MessageAndTimers
    MaxAttempts = 2
    MaxConcurrency = 2
    HandleQueueSize = 1
    PermQueueSize = 1
    ReporterMayThrow = TRUE
    EnvMayClose = TRUE
INVARIANTS TypeOK HonestVerdicts NoOverlap
PROPERTIES LateCancelIsQuiet Implements
