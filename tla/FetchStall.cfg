SPECIFICATION FetchSpec
CONSTANTS
  Limit = 2
  MaxError = 1
  MaxVia = 2
  MaxBody = 4
  Idle = 2
  MaxBinary = 1
  MaxExpanded = 5
  MaxEntries = 2
  MaxMembers = 3
PROPERTY StallMeansSilence
CHECK_DEADLOCK FALSE
