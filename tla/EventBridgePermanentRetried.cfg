SPECIFICATION Spec
CONSTANTS
    e1 = e1
    e2 = e2
    e3 = e3
    Events = {e1, e2}
    KeyOf <- OwnKeys
    KindOf <- Records
    MaxAttempts = 2
    MaxConcurrency = 2
    HandleQueueSize = 1
    PermQueueSize = 1
    ReporterMayThrow = FALSE
    EnvMayClose = FALSE
INVARIANTS PermanentIsFinal
