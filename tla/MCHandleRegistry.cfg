\* Three threads, three client objects, one handle each.
SPECIFICATION Spec
CONSTANTS
  t1 = t1
  t2 = t2
  t3 = t3
  c1 = c1
  c2 = c2
  c3 = c3
  NoObject = NoObject
  Threads <- ThreeThreads
  Objects <- ThreeObjects
  MaxHandles = 3
SYMMETRY AnyThreadAndObject
INVARIANTS
  TypeOK
  CallReachesOwnClient
  UsableUntilClosed
  NoClientLeaked
CHECK_DEADLOCK FALSE
