SPECIFICATION DataPathSpec
CONSTANTS
    Width = 4
    Reg = {1, 2}
    Mnemonics <- AllMnemonics
    Builds = {TRUE, FALSE}
INVARIANTS
    ComparisonsAgree
    DivisionLeavesRemainder
    ShiftsScale
    FoundBitsAreEnds
    ConstantsCompose
PROPERTIES
    LoadsExtendSign
CHECK_DEADLOCK FALSE
