CONSTANTS
    Dir = Dir
    FileA = FileA
    FileB = FileB
    Long = Long
    Empty = Empty
    Archive <- EmptyArchive
    Letters <- MCLetters
    START = 4096
    HEADER = 110
    PATHS <- MCPaths
    SIZES = {0, 1, 2, 3, 4}
    Name = {Dir, FileA, FileB}
    NoName = Empty
    PrefixOf <- NoPrefixes
    Path <- Flat
    BLOCKS = 4
    BS = 2
    MAX_FILES = 2
    Buffer = {a}
    WriteRange <- ThreeBytes
    ReadRange <- NoReads
    Contract = FALSE
    MaxNodes = 4
    MaxCalls = 12
SPECIFICATION InitramfsSpec
INVARIANT BlocksNotShared
CHECK_DEADLOCK FALSE
