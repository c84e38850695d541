SPECIFICATION Spec
CONSTANTS
  MaxU32 = 60
  MaxU64 = 100
  MaxTermDepth = 11
  Terms <- MCStarts
  Contract <- Beta
  Budgets = {1, 5, 14}
  Every = 3
  Extras = {0, 4}
  MaxCommands = 2
INVARIANTS
  OneRun
  ContextIsSound
PROPERTIES
  FollowsNormalOrder
CHECK_DEADLOCK FALSE
