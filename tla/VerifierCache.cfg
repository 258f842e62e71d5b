SPECIFICATION HungSpec
CONSTANTS
  Caller = {c1, c2}
  Period = 2
  Timeout = 1
  MaxTime = 4
INVARIANTS
  NoExpiredVerifier
  FetchesAreSpaced
  FailuresAreNotCached
  CancelIsOnesOwn
PROPERTIES
  CallsReturn
  CancelReturns
