SPECIFICATION DirectorySpec
CONSTANTS
  Parts = {"lock", "engines", "reports", "prune", "diagnose", "horizon"}
  Pid = {p1, p2, p3}
  Loop = {recovery, execution}
  MaxBorrows = 1
  Attempts = {a1, a2}
  LocalOps = {o1, o2}
  DiagRuns = {r1, r2}
  Commands = {"cycle", "report", "engines", "diagnose", "outbox"}
  Corruptible = {a1}
  AttemptMax = 1
  DeliveryMax = 1
  OutboxDays = 1
  JournalDays = 2
  NoOp = NoOp
  NoRun = NoRun
  Ttl = 4
  Interval = 2
  IoWindow = 1
  Reserve = 2
  Timeout = 4
  Deadline = 9
  Skew = 1
  MaxClock = 10
SYMMETRY Symmetry
INVARIANT OneOwnerUnlessRaced
INVARIANT RefusedForAReason
INVARIANT TurnsUnderLock
INVARIANT DeliveredOnce
INVARIANT OnePendingPerKind
INVARIANT LeaseAuthority
CHECK_DEADLOCK FALSE
