SPECIFICATION FairSpec
CONSTANTS
  d1 = d1
  d2 = d2
  j1 = j1
  j2 = j2
  f1 = f1
  Datasets = {d1, d2}
  First = d1
  NoProfile = NoProfile
  Jobs = {j1, j2}
  Forms = {f1}
  MaxEvents = 1
INVARIANTS
  OverlapIsExplained
  OnlyAStrandedRerunLosesAnAnswer
  GuessNeedsAnEdit
PROPERTIES
  LockIsGivenBack
CHECK_DEADLOCK FALSE
