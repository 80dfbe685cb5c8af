SPECIFICATION FairSpec
CONSTANTS
  Nets = {"clk", "d", "q1", "qb", "q2"}
  Devices = {1, 2, 3}
  Kind <- RippleKind
  In <- RippleIn
  Out <- RippleOut
  Delay <- RippleDelay
  Order <- RippleOrder
  BackEdges <- RippleBack
  MaxDelta = 6
  Epsilon = 0
  Horizon = 4
  Stimuli <- RippleStimuli
  HookNets = {}
  Samplers = {}
  InitLimit = 1
INVARIANT DerivedClockIsSeen
