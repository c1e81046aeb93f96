SPECIFICATION Spec
CONSTANTS
    SAGE_ARENA_SIZE = 240
    SIZE_MOD = 1024
    Sizes = {0, 1, 20, 50}
INVARIANT Coalesced
INVARIANT NoOverlap
INVARIANT NoLeak
INVARIANT BigEnough
INVARIANT FreedIsWhole
