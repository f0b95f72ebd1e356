SPECIFICATION Spec
CONSTANTS
  Threads = {t1, t2}
  Connections = {c1, c2}
  NULL = NULL
  Shared = Shared
  FirstSize = 2
  SizeMaxes = {0, 2}
  Newline = Newline
  Zero = Zero
  x = x
  Bytes = {x, Newline, Zero}
  Streams <- SomeStreams
  MaxOffset = 5
INVARIANTS ConnectionOnce NoLostWakeup LineExact 
SYMMETRY Symmetry
CHECK_DEADLOCK FALSE
