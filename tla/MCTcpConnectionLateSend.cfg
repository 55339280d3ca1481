CONSTANTS
  Threads = {t1}
  Loop = loop
  LoopOps = {}
  Uses <- UsesLateSend
  MaxCalls = 3
  MsgLen = 2
  MaxRoom = 1
  MaxRx = 1
  HighWaterMark = 2
SPECIFICATION Spec
INVARIANTS NoLateWrite
CHECK_DEADLOCK FALSE
