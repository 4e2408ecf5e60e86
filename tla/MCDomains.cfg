CONSTANTS
  shop = shop
  blog = blog
  auto1 = auto1
  auto2 = auto2
  far = far
  theirs = theirs
  NoHost = NoHost
  Elsewhere = Elsewhere
  r1 = r1
  r2 = r2
  ByName <- InOrder
  AutoHosts = {auto1, auto2}
  Named = {auto1, auto2, far}
  Zone = {auto1, auto2}
  Foreign = {theirs}
  Requests = {r1, r2}
  MaxRequests = 3
  Faults = {"restart", "hangup", "store", "cloudflare", "record", "rule"}
  MaxFaults = 1
SPECIFICATION Spec
SYMMETRY Symmetry
INVARIANTS
  AutoHostIsItsOwn
  RoutesAreWhole
PROPERTIES
  AutoNeverChanges
  ForeignRulesStay
CHECK_DEADLOCK FALSE
