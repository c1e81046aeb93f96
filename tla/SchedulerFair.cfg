SPECIFICATION FairCoreSpec
CONSTANTS
    MAX_TASKS = 4
    WATCHDOG_TIMEOUT_TICKS = 6
    PID_LIMIT = 5
INVARIANT NoFalsePanic
PROPERTY NoStarvation
