SPECIFICATION Spec
CONSTANTS
    TELEMETRY_BUFFER_SIZE = 2
    Cpus = {c1, c2}
    Events = {IPC_SEND, VM_EXEC}
    NONE = NONE
    LOG_LIMIT = 5
INVARIANTS RingHoldsTail
PROPERTY ImplementsEventLog
