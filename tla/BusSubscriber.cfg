SPECIFICATION FairSpec
CONSTANTS
  pa = pa
  pb = pb
  Procs = {pa, pb}
  NEvents = 2
  Batch = 2
  QCap = 1
  MinWorkers = 1
  MaxWorkers = 2
  ScaleUpAt = 1
  MaxToggles = 1
  MaxRetires = 1
  MaxFaults = 1
INVARIANTS
  TypeOK
  AtMostOncePerRoute
  AckedIsHandled
  PendingIsHeld
PROPERTIES
  EventsAreHandled
CHECK_DEADLOCK FALSE
