SPECIFICATION FairSpec
CONSTANTS
    Sectors = {s1, s2}
    Data = {d1, d2}
    Buffers = {b1, b2}
    IDX_MOD = 4
    TIMEOUT_LIMIT = 1
INVARIANTS ReturnedInSync
PROPERTIES OnlyTheCall EveryCallReturns
