SPECIFICATION Spec
CONSTANTS
  p1 = p1  g1 = g1  g2 = g2
  Conns = {p1, g1, g2}
  Gateways = {g1, g2}
  Batch = 2  Room = 1  MaxMessages = 2  MaxFaults = 1
INVARIANTS CursorIsWritten
PROPERTIES MessagesAreWritten
