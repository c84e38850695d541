SPECIFICATION FairSpec
CONSTANTS
    Kind = "session"
    FillOrder <- LambdaTm
    Programs <- LivePrograms
    History = 2
    RecordChunk = 1
    InitialCap = 3
    ExtendSteps = 2
    MaxGen = 2
    MaxEpoch = 1
    MaxContinues = 1
    MaxThrows = 1
CHECK_DEADLOCK FALSE
PROPERTIES
    EditAnswered
    ResultsSettle
    FillEnds
