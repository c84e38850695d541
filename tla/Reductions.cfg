SPECIFICATION Spec
CONSTANTS
  MaxU64 = 60100
  Table <- MCTable
  MaxRaises = 2
INVARIANTS
  ImagesOrRefusals
  RaisedRunsAgree
  CapsAreTight
  ViewsAgree
  Finishes
PROPERTIES
  FollowsTheTable
CHECK_DEADLOCK FALSE
