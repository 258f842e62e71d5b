SPECIFICATION Spec
CONSTANTS
  Proc = {p1}
  Path = {t1}
  Name = {n1, n2}
  Version = {1, 2}
  Windows = TRUE
  AllowDowngrade = {p1}
  Targeted = {TRUE}
  MaxApplies = 3
  Outside = {1}
  Foreign = Foreign
  Corrupt = Corrupt
  None = None
SYMMETRY NameSymmetry
INVARIANTS
  PendingMeansBackup
  SuccessLeavesNoTemps
