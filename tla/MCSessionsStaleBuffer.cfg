CONSTANTS
    a = a
    b = b
    c = c
    nul = nul
    NUL = nul
    NoName = 0
    NULL = 0
    Nobody = nobody
    Workers = {w1, w2}
    BoxNames = {1, 2}
    Addresses = {1, 2}
    Script <- OneMessage
    Budgets <- TwoBoxes
    StackBuffers <- ZeroStack
    Beyond <- ZeroBeyond
    ClientsLeave = TRUE
    INODE_TABLE_SIZE = 3
    DATA_BLOCKS = 3
    MAX_OPEN_FILES = 5
    BLOCK_SIZE = 5
    MAX_DIR_ENTRIES = 2
    SizeModulus = 32
SPECIFICATION Spec
SYMMETRY Symmetry
CHECK_DEADLOCK FALSE
INVARIANTS
    ReplaysOwnBox
