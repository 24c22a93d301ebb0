SPECIFICATION ProgressSpec
CONSTANTS
  r1 = r1
  r2 = r2
  r3 = r3
  w1 = w1
  w2 = w2
  None = None
  Parts = {"engine", "tab", "api", "operate"}
  Runs = {r1}
  EngineRuns = {r1}
  Runners = {w1}
  AssignedRunner <- EnginesToOne
  Ops = {o1, o2}
  Nonces = {n1, n2}
  Outcomes = {"succeeded"}
  Slots = {s1, s3}
  CronSlots = {s3}
  MaxClaims <- TwoClaims
  LeaseTtl = 2
  RunDeadline = 3
  ClaimReserve = 0
  NonceTtl = 10
  OperationTtl = 10
  RetryLimit = 2
  Cancelable = {}
  Revocable = {}
  CreateBy = 1
  MaxTime = 4
  MaxRenews = 1
  MaxReports = 2
  k1 = k1
  k2 = k2
  k3 = k3
  k4 = k4
  b1 = b1
  b2 = b2
  q1 = q1
  q2 = q2
  TabKeys = {k1, k3}
  ApiKeys = {k2, k4}
  OperationKeys = {k2}
  Bodies = {b1, b2}
  Posts = {q1, q2}
  CreateRetries = 2
  RetainDays = 1
  LastDay = 1
  MaxEntries = 2
  Missing = Missing
INVARIANT ReleasedOnlyWhenSettled
INVARIANT AnswersAgree
PROPERTY DueRunsClose
CHECK_DEADLOCK FALSE
