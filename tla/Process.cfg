SPECIFICATION ProcessSpec
CONSTANTS
    MAX_TASKS = 4
    WATCHDOG_TIMEOUT_TICKS = 1
    PID_LIMIT = 5
    SHELL_PID = 2
INVARIANT TypeOK
INVARIANT OneRunning
INVARIANT UniqueIds
INVARIANT NoLostExit
INVARIANT RunsOwnProgram
INVARIANT SavedForSuspended
PROPERTY ImplementsPidLifecycle
CONSTRAINT Unspoiled
