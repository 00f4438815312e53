CONSTANTS
    a = a
    b = b
    c = c
    nul = nul
    NUL = nul
    NoName = 0
    NULL = 0
    Nobody = nobody
    Workers = {w1, w2, w3}
    BoxNames = {1}
    Addresses = {1}
    Script <- TwoMessages
    Budgets <- TwoSubscribers
    StackBuffers <- ZeroStack
    Beyond <- ZeroBeyond
    ClientsLeave = TRUE
    INODE_TABLE_SIZE = 2
    DATA_BLOCKS = 2
    MAX_OPEN_FILES = 4
    BLOCK_SIZE = 5
    MAX_DIR_ENTRIES = 1
    SizeModulus = 32
SPECIFICATION Spec
SYMMETRY Symmetry
CHECK_DEADLOCK FALSE
PROPERTIES
    SurvivesDepartures
