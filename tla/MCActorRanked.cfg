SPECIFICATION FairSpec
CONSTANTS
  r = r
  a = a
  b = b
  None = none
  Actors = {r, a, b}
  Roots = {r}
  Handles <- RankedHandles
  Peers <- RankedPeers
  Capacity = 1
  MaxRequests = 1
  MaxSteps <- RankedSteps
PROPERTIES SendCompletes Reclaimed ServesAll
CHECK_DEADLOCK FALSE
