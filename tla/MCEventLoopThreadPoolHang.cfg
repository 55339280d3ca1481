CONSTANTS
  MaxThreads = 1
  MaxAssign = 2
  PatientOwner = FALSE
SPECIFICATION FairSpec
PROPERTIES DestroyReturns
CHECK_DEADLOCK FALSE
