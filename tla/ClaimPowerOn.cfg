SPECIFICATION FairSpec
CONSTANTS
  Nets = {"k", "y"}
  Devices = {1, 2}
  Kind <- ConstKind
  In <- ConstIn
  Out <- ConstOut
  Delay <- ConstDelay
  Order <- ConstOrder
  BackEdges = {}
  MaxDelta = 6
  Epsilon = 0
  Horizon = 4
  Stimuli <- ConstStimuli
  HookNets = {}
  Samplers = {}
  InitLimit = 2
INVARIANT PowerOnSettles
