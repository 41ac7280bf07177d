CONSTANTS
    Dir = Dir
    FileA = FileA
    FileB = FileB
    Long = Long
    Empty = Empty
    Archive <- MCArchive
    Letters <- MCLetters
    START = 4096
    HEADER = 110
    PATHS <- MCPaths
    SIZES = {0, 1, 2, 3, 4}
    Name = {Dir, FileA, FileB, Long}
    NoName = Empty
    PrefixOf <- NoPrefixes
    Path <- SmallTree
    BLOCKS = 2
    BS = 2
    MAX_FILES = 2
    Buffer = {a}
    WriteRange <- Writes
    ReadRange <- Reads
    Contract = TRUE
    MaxNodes = 5
    MaxCalls = 4
SPECIFICATION InitramfsSpec
INVARIANTS OutOfSpaceMeansFull TreeWellFormed ArchiveLoaded
PROPERTIES LoadEnds ImplementsFileStore
CHECK_DEADLOCK FALSE
