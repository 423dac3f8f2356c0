SPECIFICATION FairSpec
CONSTANTS
  u1 = u1
  u2 = u2
  u3 = u3
  u4 = u4
  b1 = b1
  b2 = b2
  r = r
  g = g
  Items = {u1, u2, u3, u4, b1, b2}
  Lane <- MCLane
  Parent <- MCParent
  Awaited = {u1, u3, u4, b1}
  Nobody = Nobody
  Sentinel = Sentinel
  Workers = {r, g}
  Reserved = {r}
  UserCap = 2
  BgCap = 1
  MaxStarts = 1
INVARIANTS
  HeldOnce
PROPERTIES
  DeliveryKept
  UserItemsRun
  AemitReturns
  StopReturns
CHECK_DEADLOCK FALSE
