---------------------------- MODULE MCWebLibrary ----------------------------
(***************************************************************************)
(* WebLibrary for TLC: k has no dedup key in a listing, a has one, n is    *)
(* not in the account until it is imported.                                *)
(***************************************************************************)
EXTENDS WebLibrary

CONSTANTS k, a, n, s1, s2

TwoSessions == {s1, s2}
MCListing   == <<k, a, n>>
=============================================================================
