CONSTANTS
  r1 = r1
  r2 = r2
  Requests = {r1, r2}
  SecretNames <- Names
  Configured = {"WEBO_DEPLOY_TOKEN"}
  FirstTrees <- Trees0
  MaxCommits = 3
  MaxPolls = 2
  Faults = {"call", "answer", "hangup", "restart"}
  MaxFaults = 1
  k1 = k1
  k2 = k2
  t1 = t1
  t2 = t2
  ana = ana
  Local = Local
  NoOne = NoOne
  NoCode = NoCode
  NoToken = NoToken
SPECIFICATION MCSpec
INVARIANTS
  PushesStay
  ScaffoldFits
  RunsFindTheirSecrets
  AnswersAreTrue
PROPERTIES
  DeployingEnds
  KeepsThePromise
  ApprovedIsDelivered
CHECK_DEADLOCK FALSE
