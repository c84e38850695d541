SPECIFICATION Spec
CONSTANTS
  Uris = {u1}
  MaxEdits = 3
  MaxRequests = 1
  MaxThrows = 2
INVARIANTS
  ServerHasDocuments
  AnswersAreCurrent
  NoticesAreTrue
PROPERTIES
  EverythingSettles
CHECK_DEADLOCK FALSE
