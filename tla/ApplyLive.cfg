SPECIFICATION FairSpec
CONSTANTS
  Proc = {p1, p2}
  Path = {t1}
  Name = {n1}
  Version = {1, 2}
  Windows = TRUE
  AllowDowngrade = {}
  Targeted = {FALSE}
  MaxApplies = 1
  Outside = {1}
  Foreign = Foreign
  Corrupt = Corrupt
  None = None
PROPERTIES
  LockComesFree
  CancelStops
