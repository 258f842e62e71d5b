SPECIFICATION Spec
CONSTANTS
  Version = {v1, v2}
  Unstable = Unstable
  Latest = Latest
  MaxSize = 1
  MaxAssets = 3
  None = None
INVARIANTS
  PlanIsUnambiguous
  TokenStaysHome
