\* Two calls on two loops, in a process that has made async calls before.
SPECIFICATION Spec
CONSTANTS
  r1 = r1
  r2 = r2
  l1 = l1
  l2 = l2
  Nobody = Nobody
  Requests <- TwoCalls
  Loops <- MCLoops
  LoopOf <- TwoOnTwo
  MaxId = 2
  FirstUse = FALSE
\* Every call made and every loop closed: nothing is left to do.
CHECK_DEADLOCK FALSE
INVARIANTS
  TypeOK
  CancelReachesContext
  EndedLeavesOnlyCallback
  ActiveIsRunning
PROPERTIES
  ImplementsAsyncCall
