SPECIFICATION Spec
CONSTANTS
  NumRejoinAttempts = 2
  JoinKeyLengths = {0, 8}
  MaxCallbacks = 3
INVARIANTS
  TypeOK
  SearchNeverStalls
  OrphanNeverStalls
  EventStateHandled
PROPERTIES
  
  SearchTimesOutAfterAttempts
