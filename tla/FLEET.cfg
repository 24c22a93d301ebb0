SPECIFICATION FleetSpec
CONSTANTS
  Parts = {"enroll", "race", "beat", "silent", "copies", "panel", "rivals"}
  c1 = c1
  c2 = c2
  b1 = b1
  b2 = b2
  d1 = d1
  d2 = d2
  t1 = t1
  t2 = t2
  e1 = e1
  o1 = o1
  Tokens = {t1, t2}
  Dirs = {d1, d2}
  Enrollers = {e1, e2}
  Calls = {c1, c2}
  Beats = {b1, b2}
  MaxKeys = 2
  TokenTtl = 1
  BeatTtl = 4
  SkewPast = 1
  SkewFuture = 1
  LongestCall = 1
  EnrollRetries = 2
  LastTick = 4
  Nobody = Nobody
  Inventories = {b1, b2}
  Reports = {1, 2}
  Sends = {1, 2}
  Wires = {c1, c2}
  Freshness = {2, 6}
  Interval = 3
  SignedFor = 1
  LongestPost = 1
  DeclarationTtl = 3
  ResponseTtl = 3
  ApplyAttempts = 2
  LastTime = 4
  Nil = Nil
  Editors = {o1, o2}
  Puts = {c1, c2}
  MaxVersion = 3
  MaxDrafts = 2
  MaxOthers = 1
  PolicyRetries = 2
  Instants = {1}
  Absent = Absent
SYMMETRY Symmetry
INVARIANT KeyKept
INVARIANT FleetAsRecorded
INVARIANT BeatsOnce
INVARIANT ReportedOnce
INVARIANT DeclaredUntilDue
INVARIANT DecidedOnFacts
CHECK_DEADLOCK FALSE
