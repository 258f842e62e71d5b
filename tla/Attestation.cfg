CONSTANTS
  MaxPages = 3
  MaxAttestations = 5
  PageSize = 3
SPECIFICATION FairSpec
CHECK_DEADLOCK FALSE
INVARIANTS
  RecordIsEarned
  RejectionIsComplete
  ValidIsFound
  WorkIsBounded
PROPERTIES
  NoRequestAfterCancel
  WorkRunsOut
  Terminates
