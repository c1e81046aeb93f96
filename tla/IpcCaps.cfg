SPECIFICATION Spec
CONSTANTS
    MAX_TASKS = 3
    SCHED_MAX_THREADS = 2
    IPC_CAP_MAX_PER_TASK = 2
    IPC_MAX_ENDPOINTS = 1
    IPC_MAX_PORTS = 1
    PID_LIMIT = 4
    REF_LIMIT = 2
    vfs = vfs
    root = root
    Names = {vfs, root}
    ParentName <- MCParentName
    Masks <- MCMasks
    NULL = NULL
INVARIANTS NoAmplification NamesActiveObject
PROPERTY OnlyNarrowed
CHECK_DEADLOCK FALSE
