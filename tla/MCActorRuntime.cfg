SPECIFICATION Spec
CONSTANTS
  r = r
  a = a
  b = b
  None = none
  Actors = {r, a, b}
  Roots = {r}
  Handles <- MCHandles
  Peers <- AllPeers
  Capacity = 2
  MaxRequests = 1
  MaxSteps <- TwoEach
INVARIANTS TypeOK LinksAlive NoLostReply AskedActorAnswers
PROPERTIES KeepsPromise
CHECK_DEADLOCK FALSE
