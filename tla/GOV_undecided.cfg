SPECIFICATION GovernanceSpec
CONSTANTS
  Intents = {i1}
  People = {p1, p2}
  Versions = {v1}
  Requests = {q1}
  IntentTtl = 2
  LastMs = 0
  MaxLedger = 4
  MaxJoins = 1
  Nothing = Nothing
INVARIANT DecidedWhenDecided
CHECK_DEADLOCK FALSE
