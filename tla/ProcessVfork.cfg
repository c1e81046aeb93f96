SPECIFICATION ProcessSpec
CONSTANTS
    MAX_TASKS = 4
    WATCHDOG_TIMEOUT_TICKS = 2
    PID_LIMIT = 4
    SHELL_PID = 2
INVARIANT VforkParentWaits
