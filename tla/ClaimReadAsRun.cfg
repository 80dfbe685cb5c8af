SPECIFICATION Spec
CONSTANTS
  Params = {"r", "ns", "rs", "m"}
  Optional = {"ns", "rs"}
  PomOnly = {"m"}
  InitDesign <- MCInitDesign
  Writes <- MCWrites
  NetsOf <- MCNetsOf
  MaxTime = 2
  MaxPending = 3
  MaxCalls = 4
INVARIANTS ReadAsRun
CHECK_DEADLOCK FALSE
