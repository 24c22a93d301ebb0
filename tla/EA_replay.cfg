SPECIFICATION Spec
CONSTANTS
  a1 = a1
  t1 = t1
  None = None
  Attempts = {a1}
  Targets = {t1}
INVARIANT ReplayJournaled
