SPECIFICATION FairSpec
CONSTANTS
  a1 = a1
  a2 = a2
  ch1 = ch1
  None = None
  Actors = {a1, a2}
  Channels = {ch1}
  MaxCoordinators = 2
  MaxCalls = 2
  MaxBreaks = 1
  MaxRefusals = 1
  MaxGarbled = 1
CHECK_DEADLOCK FALSE
INVARIANTS SubscribedAreServed
PROPERTIES EndedAreForgotten
