CONSTANTS
    a = a
    b = b
    c = c
    long = long
    bad = bad
    none = none
    x = x
    y = y
    INODE_TABLE_SIZE = 3
    DATA_BLOCKS = 3
    MAX_OPEN_FILES = 2
    BLOCK_SIZE = 2
    MAX_DIR_ENTRIES = 2
    SizeModulus = 16
    Names = {a, b}
    LongNames = {}
    BadPaths = {}
    NoName = none
    Modes <- SomeModes
    Buffers <- TwoValues
    ReadLengths = {1, 2}
SPECIFICATION CarefulSpec
SYMMETRY NameSymmetry
CHECK_DEADLOCK FALSE
INVARIANTS
    NoBlockLeak
PROPERTIES
    ImplementsFileStore
