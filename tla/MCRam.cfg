SPECIFICATION RamSpec
CONSTANTS
    RamSize = 8
    BufferSize = 4
    Byte <- MCByte
    Files <- MCFiles
    x = x
    y = y
INVARIANTS
    RamTypeOK
PROPERTIES
    MemoryIsBigEndian
    FileIsInMemory
CHECK_DEADLOCK FALSE
