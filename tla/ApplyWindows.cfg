SPECIFICATION AtomicSpec
CONSTANTS
  Proc = {p1, p2}
  Path = {t1}
  Name = {n1, n2}
  Version = {1, 2}
  Windows = TRUE
  AllowDowngrade = {}
  Targeted = {FALSE}
  MaxApplies = 1
  Outside = {1, 2}
  Foreign = Foreign
  Corrupt = Corrupt
  None = None
SYMMETRY Symmetry
INVARIANTS
  ExecutableRecoverable
  FailureRestores
  GapHoldsLast
PROPERTIES
  InstallsAtomically
