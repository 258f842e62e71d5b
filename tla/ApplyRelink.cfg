SPECIFICATION Spec
CONSTANTS
  Proc = {p1, p2}
  Path = {t1, t2}
  Name = {n1, n2}
  Version = {1, 2}
  Windows = FALSE
  AllowDowngrade = {}
  Targeted = {FALSE}
  MaxApplies = 1
  Outside = {}
  Foreign = Foreign
  Corrupt = Corrupt
  None = None
SYMMETRY Symmetry
INVARIANTS
  LiveFilesKept
