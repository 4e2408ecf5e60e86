CONSTANTS
  SampleSecs = 2
  Day = 6
  ProjectCap = 2
  PersistSecs = 3
  KeepSecs = 7
  Limit = 3
  Slugs = {"p"}
  MaxTime = 10
  MaxLate = 1
  MaxRestarts = 1
  Pids = {1, 2, 3}
  Programs <- ProgramsHere
  Hops = 4
  Cut = 1
  MaxEvents = 3
  MaxScans = 2
  Own = {"c1", "c2"}
  ScanLimit = 2
  Limits = {1, 2}
  Samples <- SamplesHere
  Seconds = {0, 1}
  MaxLines = 3
  Slots <- SlotsHere
  Bugs <- BugsHere
  MaxOccurred = 2
  ListLimit = 2
  MaxArrivals = 3
  p1 = p1
  p2 = p2
  typed = typed
  unset = unset
  r1 = r1
  r2 = r2
  Passwords = {p1, p2}
  Typed = typed
  Unset = unset
  Requests = {r1, r2}
  Faults = {"restart", "docker", "store"}
  MaxFaults = 1
  MaxBegun = 5
SPECIFICATION HostSpec
SYMMETRY Symmetry
INVARIANTS
  CredentialsAreKnown
  DatabaseIsReached
  FileFollowsTheTable
  ChartsAreWhole
  GroupsAreWhole
  SearchIsTrue
  IssuesAreShown
  IssuesAreBugs
PROPERTIES
  PointsStand
  CpuIsItsOwn
CHECK_DEADLOCK FALSE
