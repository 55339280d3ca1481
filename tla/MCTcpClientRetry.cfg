CONSTANTS
  Fds = {1, 2, 3}
  None = None
  TimerQueues = {FALSE}
  MaxCalls = 2
  kInitRetryDelayMs = 1
  kMaxRetryDelayMs = 3
SPECIFICATION Spec
INVARIANTS RetrySurvives
CHECK_DEADLOCK FALSE
