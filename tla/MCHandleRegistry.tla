-------------------------- MODULE MCHandleRegistry --------------------------
(***************************************************************************)
(* HandleRegistry for TLC.  Threads and objects are interchangeable.       *)
(***************************************************************************)
EXTENDS HandleRegistry, TLC

CONSTANTS t1, t2, t3, c1, c2, c3

ThreeThreads == {t1, t2, t3}
ThreeObjects == {c1, c2, c3}
AnyThreadAndObject == Permutations(Threads) \cup Permutations(Objects)
=============================================================================
