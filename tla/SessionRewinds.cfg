SPECIFICATION Spec
CONSTANTS
    Kind = "session"
    FillOrder <- AllLegs
    Programs <- ThreeLegPrograms
    History = 2
    RecordChunk = 1
    InitialCap = 4
    ExtendSteps = 2
    MaxGen = 1
    MaxEpoch = 2
    MaxContinues = 2
    MaxThrows = 0
CHECK_DEADLOCK FALSE
INVARIANTS
    OneLoopPerCursor
    RingIsOneRecording
    NoMidFillReading
PROPERTIES
    DecidedStays
