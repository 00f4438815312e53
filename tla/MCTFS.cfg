CONSTANTS
    a = a
    b = b
    c = c
    long = long
    bad = bad
    none = none
    x = x
    y = y
    INODE_TABLE_SIZE = 4
    DATA_BLOCKS = 3
    MAX_OPEN_FILES = 1
    BLOCK_SIZE = 2
    MAX_DIR_ENTRIES = 2
    SizeModulus = 16
    Names = {a, b, c}
    LongNames = {long}
    BadPaths = {bad}
    NoName = none
    Modes <- AllModes
    Buffers <- ShortAndLong
    ReadLengths = {1, 2}
SPECIFICATION Spec
SYMMETRY NameSymmetry
CHECK_DEADLOCK FALSE
INVARIANTS
    TypeOK
    DirectoryExact
    FilesOwnBlocks
