---------------------------- MODULE MCApiClient ----------------------------
(***************************************************************************)
(* ApiClient for TLC: two goroutines and two tokens.  A token issued at    *)
(* the first of two times is stale at the second.                          *)
(***************************************************************************)
EXTENDS ApiClient

CONSTANTS g1, g2

MCCallers == {g1, g2}
=============================================================================
