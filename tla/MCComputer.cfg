SPECIFICATION ComputerFairSpec
CONSTANTS
    Programs <- MCPrograms
    Reg <- MCReg
    TickMod = 1
    WordMod = 3
    SliceLengths = {3, 18}
    Reloads = TRUE
    Char <- MCChar
    Latch <- MCLatch
    MaxTyped = 2
    MaxSent = 2
    Code <- MCCode
    Hosts = {"terminal", "native", "web"}
INVARIANTS
    ComputerTypeOK
    EchoedInOrder
    OnlyThisSliceIsUnshown
PROPERTIES
    CoreIsImplemented
    InterruptsSubside
    KeysReachGuest
    OutputIsShown
CHECK_DEADLOCK FALSE
