SPECIFICATION PartsSpec
CONSTANTS
  r1 = r1
  r2 = r2
  r3 = r3
  w1 = w1
  w2 = w2
  None = None
  Parts = {"cancel"}
  Runs = {r1}
  EngineRuns = {}
  Runners = {w1}
  AssignedRunner <- Unassigned
  Ops = {o1, o2}
  Nonces = {n1, n2}
  Outcomes = {"succeeded", "canceled"}
  Slots = {s1, s2}
  CronSlots = {}
  MaxClaims <- TwoClaims
  LeaseTtl = 2
  RunDeadline = 3
  ClaimReserve = 0
  NonceTtl = 10
  OperationTtl = 10
  RetryLimit = 2
  Cancelable = {r1}
  Revocable = {}
  CreateBy = 1
  MaxTime = 4
  MaxRenews = 1
  MaxReports = 0
SYMMETRY Symmetry
INVARIANT EndedLeaseLogged
CHECK_DEADLOCK FALSE
