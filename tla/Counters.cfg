SPECIFICATION Spec
CONSTANTS
  MaxU64 = 1000
  WordBits = 5
  LiteralBits = 12
  MaxBase = 12
  MaxMacros = 40
  Table <- MCTable
INVARIANTS
  RunsAgree
  CountersAreTapes
CHECK_DEADLOCK FALSE
