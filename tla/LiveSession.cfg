SPECIFICATION Spec
CONSTANTS
  Params = {"r", "ns", "rs", "m"}
  Optional = {"ns", "rs"}
  PomOnly = {"m"}
  InitDesign <- MCInitDesign
  Writes <- MCWrites
  NetsOf <- MCNetsOf
  MaxTime = 3
  MaxPending = 3
  MaxCalls = 4
INVARIANTS TypeOK WritesSurvive LandedOnce WarmStart Stitches
CHECK_DEADLOCK FALSE
