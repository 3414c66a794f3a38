\* The first two async calls of a process, on one event loop.
SPECIFICATION FairSpec
CONSTANTS
  r1 = r1
  r2 = r2
  l1 = l1
  l2 = l2
  Nobody = Nobody
  Requests <- TwoCalls
  Loops <- OneLoop
  LoopOf <- TwoOnOne
  MaxId = 2
  FirstUse = TRUE
\* Every call made and every loop closed: nothing is left to do.
CHECK_DEADLOCK FALSE
INVARIANTS
  CallbackIsAlive
PROPERTIES
  EveryAwaitEnds
