SPECIFICATION Spec
CONSTANTS
  u1 = u1
  u2 = u2
  u3 = u3
  g1 = g1
  g2 = g2
  alice = alice
  bob = bob
  system = system
  Tasks <- MCTasks
  Uid <- MCUid
  Tier <- MCTier
  Generated <- MCGenerated
  Silent <- MCSilent
  DispatchCap = 1
  RLMaxConcurrent = 1
  Day = 2
  MaxClock = 1
  MaxLimit = 2
  MaxResizes = 1
  MaxFaults = 1
SYMMETRY MCSymmetry
INVARIANTS
  CountsAreExact
  DispatchIsBounded
  NoLostWakeup
PROPERTIES
  BetterTierFirst
CHECK_DEADLOCK FALSE
