CONSTANTS
  shop = shop
  blog = blog
  mine = mine
  other = other
  NoRepo = NoRepo
  NoSlug = NoSlug
  r1 = r1
  r2 = r2
  w1 = w1
  w2 = w2
  Slugs = {shop, blog}
  Repos = {mine, other}
  Requests = {r1, r2}
  Watchers = {w1}
  MaxBorn = 3
  MaxRequests = 2
  MaxPolls = 2
  MaxPasses = 1
SPECIFICATION Spec
SYMMETRY Symmetry
INVARIANTS
  ShowsItsOwn
  UserLinkWins
  DeployingIsWatched
CHECK_DEADLOCK FALSE
