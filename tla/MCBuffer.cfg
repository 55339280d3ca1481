CONSTANTS
  Bytes = {0, 1}
  Zero = 0
  kCheapPrepend = 1
  kInitialSize = 2
  ExtraSize = 2
  MaxLen = 3
  MaxReadable = 5
SPECIFICATION Spec
INVARIANTS BInv
PROPERTIES ImplementsByteQueue
