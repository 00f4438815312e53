CONSTANTS
    a = a
    b = b
    c = c
    nul = nul
    NUL = nul
    NoName = 0
    NULL = 0
    Nobody = nobody
    Workers = {w1, w2}
    BoxNames = {1}
    Addresses = {1}
    Script <- EmptyThenTwo
    Budgets <- Recreated
    StackBuffers <- ZeroStack
    Beyond <- ZeroBeyond
    ClientsLeave = FALSE
    INODE_TABLE_SIZE = 2
    DATA_BLOCKS = 2
    MAX_OPEN_FILES = 4
    BLOCK_SIZE = 3
    MAX_DIR_ENTRIES = 1
    SizeModulus = 32
SPECIFICATION FairSpec
CHECK_DEADLOCK FALSE
PROPERTIES
    AnnouncedIsPushed
