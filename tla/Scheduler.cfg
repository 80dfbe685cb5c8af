SPECIFICATION FairSpec
CONSTANTS
  Nets = {"clk", "d", "q1", "q2", "y", "z", "r", "s", "q", "qb", "en", "y1", "y2", "y3"}
  Devices = {1, 2, 3, 4, 5, 6, 7, 8, 9}
  Kind <- MCKind
  In <- MCIn
  Out <- MCOut
  Delay <- MCDelay
  Order <- MCOrder
  BackEdges <- MCBack
  MaxDelta = 6
  Epsilon = 0
  Horizon = 5
  Stimuli <- MCStimuli
  HookNets = {"d", "s"}
  Samplers = {2, 4}
  InitLimit = 1
INVARIANTS TypeOK OutputsCatchUp EdgesSeen NothingDue OnlyLoopsGiveUp
PROPERTIES NonBlocking RunsEnd
