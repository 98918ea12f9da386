SPECIFICATION Spec
CONSTANTS
  Procs = {p1, p2}
  Requests = {r1}
  MaxVersion = 2
  MaxStarts = 2
  MaxEdits = 1
INVARIANT StoreIsKept
PROPERTIES ShutdownEnds
CHECK_DEADLOCK FALSE
