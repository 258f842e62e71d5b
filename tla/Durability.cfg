SPECIFICATION Spec
CONSTANTS
  Ino = {i1, i2, i3, i4}
  Stage = {s1, s2}
  Exe = Exe
  Version = {1, 2, 3}
  None = None
SYMMETRY Symmetry
INVARIANTS
  PowerLossKeepsProgram
  NoRunnablePartialOnDisk
PROPERTIES
  ProgramIsDurable
