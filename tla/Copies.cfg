SPECIFICATION Spec
CONSTANTS
  MaxCopies = 2
  Leaves = 2
  MaxText = 3
  Setups <- AllSetups
INVARIANTS
  TypeOK
  EditorsInPlace
  TextsAgree
PROPERTIES
  RecordSurvives
