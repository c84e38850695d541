SPECIFICATION FairSpec
CONSTANTS
    Kind = "tm-scratch"
    FillOrder <- Tm
    Programs <- TmCopies
    History = 2
    RecordChunk = 1
    InitialCap = 3
    ExtendSteps = 2
    MaxGen = 2
    MaxEpoch = 1
    MaxContinues = 2
    MaxThrows = 0
CHECK_DEADLOCK FALSE
PROPERTIES
    ValueSettles
