SPECIFICATION FairSpec
CONSTANTS
    e1 = e1
    e2 = e2
    e3 = e3
    Events = {e1, e2, e3}
    KeyOf <- SharedKey
    KindOf <- MessageAndTimers
    MaxAttempts = 2
    MaxConcurrency = 2
    HandleQueueSize = 1
    PermQueueSize = 1
    ReporterMayThrow = FALSE
    EnvMayClose = FALSE
PROPERTIES EveryEventDecided CancelReachesHandler
