SPECIFICATION UartSpec
CONSTANTS
    Char = {"a", "b"}
    Latch = {"0"}
    MaxTyped = 2
    MaxSent = 2
INVARIANTS
    UartTypeOK
    FifosHoldWhatIsUnderWay
    TransmitInterruptHasCause
    AnnouncedDataIsThere
PROPERTIES
    SerialLineService
