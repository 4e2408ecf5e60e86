CONSTANTS
  web = web
  db = db
  boom = boom
  more = more
  Containers = {web, db}
  Texts = {boom, more}
  Fingerprints = {boom, more}
  Openers = {boom}
  MaxTime = 1
  Keep = 1
  MaxDeletes = 0
  Frames = {}
  MaxFold = 20
  Cap = 2
  PruneMin = 1
  MaxLines = 3
  MaxRecorded = 2
  Faults = {"stream", "read", "insert", "record", "restart", "recreate"}
  MaxReports = 0
  MaxFaults = 1
  Verdicts = {"resolved"}
SPECIFICATION Spec
SYMMETRY Symmetry
INVARIANTS
  IndexMirrorsTheLog
  EachErrorOnce
