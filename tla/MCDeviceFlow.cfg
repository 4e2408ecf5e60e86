SPECIFICATION Spec
CONSTANTS
  k1 = k1
  k2 = k2
  t1 = t1
  t2 = t2
  ana = ana
  luis = luis
  r1 = r1
  r2 = r2
  Codes = {k1, k2}
  Tokens = {t1, t2}
  People = {ana, luis}
  Requests = {r1, r2}
  Local = Local
  NoOne = NoOne
  NoCode = NoCode
  NoToken = NoToken
  TTL = 1
  MaxClock = 1
  Faults = {"restart", "store"}
SYMMETRY Symmetry
INVARIANTS
  GrantsAreSound
PROPERTIES
  SpentStaysSpent
