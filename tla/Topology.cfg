SPECIFICATION MCSpec
CONSTANTS
  N = 4
  Nets = {1, 2, 3, 4}
  Drives <- OwnNet
INVARIANTS TypeOK EveryDeviceRanked NoSignalMissed RestartsOnlyLoops
PROPERTY Ends
CHECK_DEADLOCK FALSE
