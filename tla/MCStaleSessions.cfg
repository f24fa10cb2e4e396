SPECIFICATION FairSpec
CONSTANTS
  m1 = m1
  m2 = m2
  v1 = v1
  d2 = d2
  lib = lib
  Agent = Agent
  None = None
  Modules = {m1, m2}
  Versions = {v1, d2, lib}
  Graphs <- AllGraphs
  Deployed <- DeployedVersions
  Drafts <- DraftVersions
  Belongs <- ModuleOf
  Installers <- AllInstallers
  MaxDepth = 4
  Ring = 2
  MaxCommands = 1
  MaxTicks = 1
CHECK_DEADLOCK FALSE

PROPERTIES RecentSessionSurvives
