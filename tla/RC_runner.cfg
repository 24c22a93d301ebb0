SPECIFICATION PartsSpec
CONSTANTS
  r1 = r1
  r2 = r2
  r3 = r3
  w1 = w1
  w2 = w2
  None = None
  Parts = {"two", "engine"}
  Runs = {r1, r2, r3}
  EngineRuns = {r3}
  Runners = {w1}
  AssignedRunner <- EnginesToOne
  Ops = {o1, o2}
  Nonces = {n1, n2}
  Outcomes = {"succeeded"}
  Slots = {s1, s2, s3}
  CronSlots = {s3}
  MaxClaims <- TwoClaims
  LeaseTtl = 2
  RunDeadline = 3
  ClaimReserve = 0
  NonceTtl = 10
  OperationTtl = 10
  RetryLimit = 2
  Cancelable = {}
  Revocable = {w1}
  CreateBy = 1
  MaxTime = 4
  MaxRenews = 1
  MaxReports = 2
SYMMETRY Symmetry
INVARIANT HoldingSound
INVARIANT DeadlineRespected
PROPERTY GrantedToFit
PROPERTY ImplementsOwnership
CHECK_DEADLOCK FALSE
