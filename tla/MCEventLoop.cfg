CONSTANTS
  LoopThread = loop
  Threads = {t1, t2}
  Functors = {f1, f2, f3}
SPECIFICATION FairSpec
INVARIANTS IInv NoLostWakeup NoLostQuit
PROPERTIES ImplementsFunctorQueue QueuedRuns QuitStops
