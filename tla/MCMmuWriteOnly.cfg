SPECIFICATION MmusSpec
CONSTANTS
    Page <- MCPage
    RamPages = 2
    UsedSets = 2
    Translation <- MCTranslation
    NoPage = NoPage
    DevicePage = 2
    Value = {x, y}
SYMMETRY ValueSymmetry
INVARIANT
    CachedPageIsReadable
