CONSTANTS
  Threads = {t1}
  Loop = loop
  LoopOps = {}
  Uses <- UsesForce
  MaxCalls = 1
  MsgLen = 2
  MaxRoom = 1
  MaxRx = 1
  HighWaterMark = 2
SPECIFICATION Spec
INVARIANTS DownOnce
CHECK_DEADLOCK FALSE
