SPECIFICATION RecordsSpec
CONSTANTS
  p1 = p1
  p2 = p2
  p3 = p3
  q1 = q1
  q2 = q2
  i1 = i1
  i2 = i2
  v1 = v1
  v2 = v2
  v3 = v3
  k1 = k1
  k2 = k2
  r1 = r1
  r2 = r2
  Parts = {"erase", "items", "basis", "chain", "heads", "opinion", "roles", "files", "pins", "hidden", "queued",
           "prompts", "retention", "publish", "tab"}
  Intents = {i1, i2}
  People = {p1, p2}
  Versions = {v1, v2}
  Requests = {q1, q2}
  IntentTtl = 1
  LastMs = 1
  MaxLedger = 5
  MaxJoins = 1
  Nothing = Nothing
  Artifacts = {v1, v2, v3}
  Curators = {p1, p2}
  RegRequests = {q1, q2}
  VersionMax = 2
  MaxDepth = 1
  MaxTurns = 1
  MaxRelations = 3
  MaxReviews = 3
  Nobody = Nobody
  Members = {p1, p2, p3}
  Uploads = {v1, v2}
  Calls = {q1, q2}
  MaxMessages = 2
  MaxPins = 1
  MaxEdits = 3
  NoOne = NoOne
  Tabs = {q1, q2}
  PresenceTtl = 1
  LastEpoch = 1
  MaxFence = 2
  MaxHides = 1
  Runs = {r1, r2}
  Reads = {q1, q2}
  ReadNonces = {i1}
  Passes = {p1, p2}
  KeyIds = {k1, k2}
  ReadRetries = 2
  PassLimit = 1
  LeaseFor = 1
  RetainFor = 1
  NonceFor = 1
  FenceMax = 2
  LastHour = 1
  Absent = Absent
  Publishers = {q1, q2}
  PublishTries = 2
  MaxHead = 2
SYMMETRY Symmetry
INVARIANT LedgerTellsAll
INVARIANT ErasedAsApproved
INVARIANT NoSupersessionCycle
INVARIANT OneOpinion
INVARIANT OwnerRemains
INVARIANT FilesOfMessage
INVARIANT StaleTokenHarmless
INVARIANT ErasedOnce
INVARIANT PublishedOnce
PROPERTY PromptToHolder
PROPERTY BasisFrozen
CHECK_DEADLOCK FALSE
