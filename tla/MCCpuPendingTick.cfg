SPECIFICATION CpuSpec
CONSTANTS
    Programs <- LivePrograms
    Reg <- MCReg
    Lines <- MCLines
    TickMod = 12
    WordMod = 2
    SliceLengths = {2, 3, 4}
    Reloads = FALSE
INVARIANT
    PendingTickIsTaken
