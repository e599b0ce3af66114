SPECIFICATION CpuSpec
CONSTANTS
    Programs <- SlotTickPrograms
    Reg <- MCReg
    Lines <- MCLines
    TickMod = 6
    WordMod = 3
    SliceLengths = {2, 3}
    Reloads = FALSE
INVARIANT
    DSXNamesDelaySlot
CHECK_DEADLOCK FALSE
