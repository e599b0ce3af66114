SPECIFICATION CpuSpec
CONSTANTS
    Programs <- MCPrograms
    Reg <- MCReg
    Lines <- MCLines
    TickMod = 6
    WordMod = 3
    SliceLengths = {2, 3}
    Reloads = TRUE
INVARIANTS
    CpuTypeOK
    DelaySlotFollowsBranch
    NoInterruptLost
    ProgramStaysInPlace
PROPERTIES
    ExceptionsAreInvisible
    HandlerRunsAlone
    InterruptHasSource
CHECK_DEADLOCK FALSE
