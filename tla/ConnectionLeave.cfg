SPECIFICATION FairSpec
CONSTANTS
  NumRejoinAttempts = 2
  JoinKeyLengths = {8}
  MaxCallbacks = 3
PROPERTIES
  LeavingGoesBackToJoining
