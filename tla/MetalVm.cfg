SPECIFICATION Spec
CONSTANTS
    STACK_SIZE = 3
    CALL_STACK = 2
    ENV_DEPTH = 3
    ARRAYS = 1
    DICTS = 1
    MAX_ELEMS = 1
    Names = {"x"}
    Params <- MCParams
    ARGS = 1
    ENVS = 1
CONSTRAINT Telling
INVARIANTS LiveObjectsKept
PROPERTIES CallerIntact CallerScopeBack
CHECK_DEADLOCK FALSE
