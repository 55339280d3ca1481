CONSTANTS
  Addrs = {a1}
  Free = Free
  PerSecond = 3
  MinWait = 1
  Delays = {1}
  Intervals = {0}
  MaxSeq = 1
  AddBy = 3
  MaxTime = 14
  MaxQueue = 1
SPECIFICATION Spec
INVARIANTS Punctual
CHECK_DEADLOCK FALSE
