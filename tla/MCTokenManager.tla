--------------------------- MODULE MCTokenManager ---------------------------
(***************************************************************************)
(* TokenManager for TLC: a one-unit margin, default lifetime two units,    *)
(* and an auth endpoint whose Expiry may lie in the past (0) or beyond the *)
(* margin.  Callers are interchangeable, so TLC uses their symmetry.       *)
(***************************************************************************)
EXTENDS TokenManager, TLC

CONSTANTS g1, g2, g3

ThreeCallers == {g1, g2, g3}
MCExpiries   == {0, 3}
AnyCaller    == Permutations(Callers)
=============================================================================
