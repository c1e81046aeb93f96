SPECIFICATION Spec
CONSTANTS
    IPC_MAX_NS_ENTRIES = 5
    Segments = {a, b}
    MaxSegments = 3
    Services = {s1, s2}
    Zero = Zero
    NULL = NULL
INVARIANTS TypeOK OneParent LastRegistered
CHECK_DEADLOCK FALSE
