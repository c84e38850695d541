SPECIFICATION FairSpec
CONSTANTS
    Kind = "lambda-scratch"
    FillOrder <- Lambda
    Programs <- LambdaCopies
    History = 2
    RecordChunk = 1
    InitialCap = 3
    ExtendSteps = 2
    MaxGen = 2
    MaxEpoch = 1
    MaxContinues = 1
    MaxThrows = 0
CHECK_DEADLOCK FALSE
INVARIANTS
    RecordingShownIsTrue
