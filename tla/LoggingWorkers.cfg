SPECIFICATION Spec
CONSTANTS
    Envs = {"main", "worker"}
    Loggers = {"app"}
    QueueSize = 1
    MaxInstalls = 4
    MaxEvents = 2
CHECK_DEADLOCK FALSE
INVARIANTS TypeOK EventsAccounted JsAndNativeAgree
PROPERTIES OwnLoggerKept
