SPECIFICATION Spec
CONSTANTS
    Envs = {"main", "worker"}
    Loggers = {"app", "lib"}
    QueueSize = 1
    MaxInstalls = 4
    MaxEvents = 1
CHECK_DEADLOCK FALSE
PROPERTIES HostLoggerKept
