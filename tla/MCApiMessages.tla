--------------------------- MODULE MCApiMessages ---------------------------
(***************************************************************************)
(* ApiMessages for TLC: words of 15 bits; field numbers with tags of one   *)
(* and two bytes; a text that parses as a message and one that does not;   *)
(* bytes that are no text and end in half a tag; a length of two bytes.    *)
(***************************************************************************)
EXTENDS ApiMessages

MCFields == {1, 16}
MCWords  == {0, 127, 128, Word - 1}
MCLabel  == <<76>>
MCTexts  == {MCLabel, <<48, 65>>}
MCHash   == <<8, 1, 145>>
MCChunks == MCTexts \cup {<<>>, MCHash, [k \in 1..130 |-> 65]}
=============================================================================
