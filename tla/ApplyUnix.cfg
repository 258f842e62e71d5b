SPECIFICATION AtomicSpec
CONSTANTS
  Proc = {p1, p2}
  Path = {t1}
  Name = {n1, n2}
  Version = {1, 2}
  Windows = FALSE
  AllowDowngrade = {p1}
  Targeted = {TRUE, FALSE}
  MaxApplies = 1
  Outside = {1, Foreign}
  Foreign = Foreign
  Corrupt = Corrupt
  None = None
SYMMETRY NameSymmetry
INVARIANTS
  TypeOK
  NeverExecutablePartial
  CommittedIsAuthoritative
  SuccessLeavesNoTemps
PROPERTIES
  NeverDowngradesUnasked
  ReplacesAsPlanned
  InstallsAtomically
