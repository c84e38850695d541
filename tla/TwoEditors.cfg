SPECIFICATION Spec
CONSTANTS
  MaxCopies = 1
  Leaves = 1
  MaxText = 3
  Setups <- LambdaOnly
INVARIANTS
  OneEditor
