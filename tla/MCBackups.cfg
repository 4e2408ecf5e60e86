CONSTANTS
  agent = agent
  a = a
  Requests = {agent}
  Daily = Daily
  NoOne = NoOne
  Rows = {a}
  May <- MayDo
  Keep = 1
  Day = 1
  MaxTime = 1
  Faults = {"cut", "disk", "docker", "hangup", "restart"}
  MaxFaults = 2
SPECIFICATION FairSpec
INVARIANTS
  WriteHasItsDump
  ListedAreWhole
  NewestAreKept
PROPERTIES
  DailyDump
