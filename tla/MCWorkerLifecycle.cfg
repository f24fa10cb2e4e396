SPECIFICATION FairSpec
CONSTANTS
  m1 = m1
  m2 = m2
  Modules = {m1, m2}
  Ring = 2
  MaxConfigs = 2
  MaxVersions = 2
  MaxSignals = 2
CHECK_DEADLOCK FALSE
PROPERTIES ChangesApplied SignalEnds
