CONSTANTS
  web = web
  db = db
  boom = boom
  more = more
  Containers = {web}
  Texts = {boom, more}
  Fingerprints = {boom, more}
  Openers = {boom}
  MaxTime = 1
  Keep = 1
  MaxDeletes = 1
  Frames = {more}
  MaxFold = 20
  Cap = 2
  PruneMin = 1
  MaxLines = 2
  MaxRecorded = 2
  Faults = {"restart"}
  MaxReports = 1
  MaxFaults = 1
  Verdicts = {"open", "resolved", "ignored"}
SPECIFICATION FairSpec
INVARIANTS
  IssuesAreTheirOwn
  StateIsVerdict
PROPERTIES
  RestartForgetsNothing
  EverythingIsIndexed
