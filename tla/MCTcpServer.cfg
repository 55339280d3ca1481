CONSTANTS
  MaxThreads = 2
  MaxAssign = 3
  PatientOwner = TRUE
  MaxConns = 3
  MaxFds = 2
SPECIFICATION ServerFairSpec
INVARIANTS ServerInv Balanced JoinedBeforeGone NoStray
PROPERTIES StartReturns DestroyReturns AllAccepted AllReleased
CHECK_DEADLOCK FALSE
