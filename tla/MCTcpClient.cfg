CONSTANTS
  Fds = {1, 2, 3}
  None = None
  TimerQueues = {TRUE, FALSE}
  MaxCalls = 2
  kInitRetryDelayMs = 1
  kMaxRetryDelayMs = 3
SPECIFICATION FairSpec
INVARIANTS ClientInv OneOwner Kept StopSticks
PROPERTIES Persists
CHECK_DEADLOCK FALSE
