SPECIFICATION Spec
CONSTANTS
  Modes = {"Fast", "Probe", "Debug"}
  LoopLimit = 2
  LoopShare = 2
  MaxSteps <- StepsOf
  MaxDepth = 4
  MaxDrops = 1
CHECK_DEADLOCK FALSE
INVARIANTS CountsItsLoops LogIsWhole FailsWhole
PROPERTIES NearestTryCatches
