------------------------------- MODULE Varint -------------------------------
(***************************************************************************)
(* encodeVarint and decodeVarint of core/proto.go: a word in groups of 7   *)
(* bits, the lowest first, each in a byte that tells whether more follow.  *)
(*                                                                         *)
(* A byte is a number in 0..255, a buffer a sequence of them.              *)
(***************************************************************************)
EXTENDS Integers, Sequences, FiniteSetsExt

CONSTANTS
  Word,       \* the words are the numbers below, 2^64 in the code
  MaxGroups   \* bytes that decodeVarint reads at most, 10 in the code

Byte == 0..255

-----------------------------------------------------------------------------

\* The continuation bit is added to the whole value.
EncodeVarintUncut(v) ==
  LET uncut[w \in 0..v] ==
        IF w < 128 THEN <<w>> ELSE <<w + 128>> \o uncut[w \div 128]
  IN uncut[v]

\* The loop runs for v > 0x80.
EncodeVarintAbove(v) ==
  LET above[w \in 0..v] ==
        IF w <= 128 THEN <<w>> ELSE <<128 + (w % 128)>> \o above[w \div 128]
  IN above[v]

Encoding[v \in Nat] ==
  IF v < 128 THEN <<v>> ELSE <<128 + (v % 128)>> \o Encoding[v \div 128]

EncodeVarint(v) == Encoding[v]

\* The greatest word has the longest varint.
ASSUME WordAssumption ==
  Word \in Nat \ {0} /\ MaxGroups = Len(EncodeVarint(Word - 1))

-----------------------------------------------------------------------------
(* Positions are those of TLA+ sequences, from 1.                          *)

\* What the groups from each position to the last make.
GroupsUpTo(data, last) ==
  LET value[j \in 1..last] ==
        (data[j] % 128) + (IF j = last THEN 0 ELSE 128 * value[j + 1])
  IN value

\* The groups of data in from..to; bits above a word drop.
GroupsValue(data, from, to) == GroupsUpTo(data, to)[from] % Word

\* What is there counts as the varint, although its last byte is missing.
DecodeVarintLenient(data, i) ==
  LET seen == {j \in i..(i + MaxGroups - 1) : j <= Len(data)}
      last == {j \in seen : data[j] < 128}
  IN IF seen = {} THEN [n |-> 0, word |-> 0]
     ELSE LET end == IF last = {} THEN Max(seen) ELSE Min(last)
          IN [n |-> end - i + 1, word |-> GroupsValue(data, i, end)]

\* decodeVarint(data[i:]): n bytes read, 0 if there is no varint.
DecodeVarint(data, i) ==
  LET last == {j \in i..(i + MaxGroups - 1) : j <= Len(data) /\ data[j] < 128}
  IN IF last = {} THEN [n |-> 0, word |-> 0]
     ELSE [n |-> Min(last) - i + 1, word |-> GroupsValue(data, i, Min(last))]
=============================================================================
