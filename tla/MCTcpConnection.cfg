CONSTANTS
  Threads = {t1}
  Loop = loop
  LoopOps = {"send", "shutdown", "forceClose"}
  Uses <- UsesBoth
  MaxCalls = 2
  MsgLen = 2
  MaxRoom = 1
  MaxRx = 1
  HighWaterMark = 2
SPECIFICATION FairSpec
INVARIANTS ConnInv StreamIntact OneDown NoUseAfterFree
PROPERTIES FinAfterFlush QuietAfterDown ShutdownCompletes CloseReleases
CHECK_DEADLOCK FALSE
