SPECIFICATION Spec
CONSTANTS
  t1 = t1  t2 = t2  t3 = t3  b1 = b1  NoTask = NoTask
  Tasks = {t1, t2, t3}
  Cancellable = {t1}
  Bridges = {b1}
  MaxDepth = 2  ThrottleAbove = 0  Threshold = 1  Batch = 2  Wrap = 16
  MaxFaults = 1
INVARIANTS InflightIsExact HalfOpenHasAProbe ResultsAreAccountedFor
SYMMETRY Symmetry
CHECK_DEADLOCK FALSE
