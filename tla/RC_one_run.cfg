SPECIFICATION PartsSpec
CONSTANTS
  r1 = r1
  r2 = r2
  r3 = r3
  w1 = w1
  w2 = w2
  None = None
  Parts = {"handover", "cancel", "retention"}
  Runs = {r1}
  EngineRuns = {}
  Runners = {w1, w2}
  AssignedRunner <- Unassigned
  Ops = {o1, o2, o3}
  Nonces = {n1, n2}
  Outcomes = {"succeeded", "canceled"}
  Slots = {s1, s2}
  CronSlots = {}
  MaxClaims <- TwoClaims
  LeaseTtl = 2
  RunDeadline = 3
  ClaimReserve = 0
  NonceTtl = 1
  OperationTtl = 2
  RetryLimit = 2
  Cancelable = {r1}
  Revocable = {}
  CreateBy = 1
  MaxTime = 4
  MaxRenews = 1
  MaxReports = 0
SYMMETRY Symmetry
INVARIANT LeaseAgreement
INVARIANT PromiseKept
INVARIANT CancelRespected
INVARIANT ClosedOnce
INVARIANT AppliedOnce
PROPERTY OnlyForward
CHECK_DEADLOCK FALSE
