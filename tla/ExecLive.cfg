SPECIFICATION FairSpec
CONSTANTS
  wa = wa
  wb = wb
  NJobs = 3
  LexRank <- MCLexRank
  Kind <- MCKind
  Workers = {wa}
  Slots <- TwoSlots
  Batch = 2
  ClaimBatch = 2
  MaxDeliveries = 2
  MaxSteals = 2
  MaxFaults = 1
PROPERTIES
  JobsSettle
CHECK_DEADLOCK FALSE
