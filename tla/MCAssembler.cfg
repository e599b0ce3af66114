SPECIFICATION AssemblerSpec
CONSTANTS
    Instructions <- EveryInstruction
    Words <- MCWords
    Addresses = {0, 2, 4, 6, 12}
    Common <- MCCommon
    MaxWords = 3
INVARIANTS
    AssembledIsDecoded
    WordsAreReadInFull
