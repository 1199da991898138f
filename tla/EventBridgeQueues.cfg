SPECIFICATION Spec
CONSTANTS
    e1 = e1
    e2 = e2
    e3 = e3
    Events = {e1, e2, e3}
    KeyOf <- OwnKeys
    KindOf <- Records
    MaxAttempts = 1
    MaxConcurrency = 3
    HandleQueueSize = 1
    PermQueueSize = 3
    ReporterMayThrow = FALSE
    EnvMayClose = FALSE
INVARIANTS PermanentIsFinal QueuesMatchTasks
