SPECIFICATION Spec
CONSTANTS
    Budget = 4
    Sizes = {0, 1, 3, 6}
    FrameLimit = 7
INVARIANTS
    TypeOK
    ShownIsCurrentStep
    WithinBudget
    HolesBounded
    FollowerAtNewest
PROPERTIES
    NoNeedlessEviction
    WindowSpec
