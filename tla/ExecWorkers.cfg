SPECIFICATION Spec
CONSTANTS
  wa = wa
  wb = wb
  NJobs = 2
  LexRank <- MCLexRank
  Kind <- MCKind
  Workers = {wa, wb}
  Slots <- OneSlot
  Batch = 2
  ClaimBatch = 2
  MaxDeliveries = 2
  MaxSteals = 3
  MaxFaults = 2
INVARIANTS
  AckedIsAnswered
  AnswersAreReal
  DeadLettersExceededBudget
PROPERTIES
  DeliveryKept
SYMMETRY Symmetry
CHECK_DEADLOCK FALSE
