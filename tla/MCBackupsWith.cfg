CONSTANTS
  agent = agent
  a = a
  Requests = {agent}
  Daily = Daily
  NoOne = NoOne
  Rows = {a}
  May <- MayDo
  Keep = 1
  Day = 1
  MaxTime = 1
  Faults = {}
  MaxFaults = 0
SPECIFICATION Spec
INVARIANT
  AWriteTakesABackupFirst
