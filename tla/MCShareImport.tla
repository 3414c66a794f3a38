--------------------------- MODULE MCShareImport ----------------------------
(***************************************************************************)
(* Three items, of which the user has two, with --wait and without.        *)
(***************************************************************************)
EXTENDS ShareImport

CONSTANTS a, b, c

MCUploads == <<a, b, c>>
=============================================================================
