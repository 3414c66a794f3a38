--------------------------- MODULE MCAsyncBridge ---------------------------
(***************************************************************************)
(* AsyncBridge for TLC: two calls, on one event loop or on one each.       *)
(***************************************************************************)
EXTENDS AsyncBridge

CONSTANTS r1, r2, l1, l2

TwoCalls == {r1, r2}
OneLoop  == {l1}
MCLoops  == {l1, l2}
TwoOnOne == [r \in TwoCalls |-> l1]
TwoOnTwo == [r \in TwoCalls |-> IF r = r2 THEN l2 ELSE l1]
=============================================================================
