CONSTANTS
  a = a
  b = b
  c = c
  f1 = f1
  f2 = f2
  Channels = {a, b, c}
  Fds = {f1, f2}
  fd_ <- MCFd
  None = None
  InitListSize = 1
  Conditions = {"IN"}
SPECIFICATION FairSpec
INVARIANTS PInv Consistent NoFatal NoDangling
PROPERTIES ReadyServed
