SPECIFICATION FairSpec
CONSTANTS
  u1 = u1
  u2 = u2
  u3 = u3
  g1 = g1
  g2 = g2
  alice = alice
  bob = bob
  system = system
  Tasks <- MCFewTasks
  Uid <- MCUid
  Tier <- MCTier
  Generated <- MCGenerated
  Silent <- MCSilent
  DispatchCap = 1
  RLMaxConcurrent = 1
  Day = 2
  MaxClock = 0
  MaxLimit = 1
  MaxResizes = 2
  MaxFaults = 1
PROPERTIES
  QueuedTasksRun
  GateDrains
CHECK_DEADLOCK FALSE
