SPECIFICATION Spec
CONSTANTS
  a1 = a1
  a2 = a2
  t1 = t1
  t2 = t2
  None = None
  Attempts = {a1, a2}
  Targets = {t1, t2}
SYMMETRY Symmetry
INVARIANTS
  OneOfEach
  PromptAfterStarted
  ResultIsFinal
  ReleasedWhenDurable
