CONSTANTS
  k1 = k1
  ana = ana
  bo = bo
  Kids = {k1}
  Users = {ana, bo}
  Readable = {k1}
  PeopleLimit = 1
  AllowedUsers = {ana}
  KeyTtl = 1
  PeopleTtl = 1
  Timeout = 1
  Visits = {one, two}
  MaxTicks = 3
  MaxChanges = 1
  MaxStarts = 1
  Calls = {one, two}
  CallFaults = {"step", "hangup", "panic", "restart"}
  MaxFaults = 1
  MaxPanel = 1
  one = one
  two = two
  Mounted = {one, two}
  Twins = {one, two}
  Layer = "layer"
  Postgres = "postgres"
  Clients = {"client"}
  Limit = 1
  MaxRows = 2
  MaxApp = 1
  MaxMoves = 1
SPECIFICATION Spec
SYMMETRY Symmetry
INVARIANTS
  DecisionsAreFounded
  LinesAreTrue
  LossIsConfirmed
  ConsoleIsTrue
CHECK_DEADLOCK FALSE
