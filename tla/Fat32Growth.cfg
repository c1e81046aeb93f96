SPECIFICATION Spec
CONSTANTS
    Files = {f1, f2}
    Values = {v0, v1}
    FAT_LEN = 6
    SECTOR = 2
    SPC = 2
    END_LIMIT = 9
    Offsets = {0, 3}
    Sizes = {1, 6}
    WRITES = 2
SYMMETRY Symmetric
CONSTRAINT Untorn
INVARIANT WrittenIsRead
