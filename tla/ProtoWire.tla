----------------------------- MODULE ProtoWire -----------------------------
(***************************************************************************)
(* The protobuf wire format of core/proto.go: what the encoders write and  *)
(* what ParseProtobuf makes of it.                                         *)
(*                                                                         *)
(* A byte is a number in 0..255 and a buffer a sequence of them.  Groups   *)
(* have the real 7 bits; there are Word words in place of 2^64, since      *)
(* TLC's integers have 32 bits.                                            *)
(*                                                                         *)
(* A field to be written is a record made by Number, Bytes or Message.  What  *)
(* the parser returns is a node, with the fields of ProtoNode.             *)
(***************************************************************************)
EXTENDS Varint, SequencesExt

VARINT  == 0
FIXED64 == 1
LEN     == 2
FIXED32 == 5

-----------------------------------------------------------------------------
(* Writing.                                                                *)

Number(num, word)    == [num |-> num, kind |-> "int", word |-> word,
                         bytes |-> <<>>, fields |-> <<>>]
Bytes(num, bytes)    == [num |-> num, kind |-> "bytes", word |-> 0,
                         bytes |-> bytes, fields |-> <<>>]
Message(num, fields) == [num |-> num, kind |-> "message", word |-> 0,
                         bytes |-> <<>>, fields |-> fields]

EncodeTag(num, wire) == EncodeVarint((8 * num + wire) % Word)

LengthDelimited(num, data) ==
  EncodeTag(num, LEN) \o EncodeVarint(Len(data)) \o data

\* encodeInt, encodeString and encodeLengthDelimited, one after the other.
RECURSIVE Encode(_)
Encode(fields) ==
  LET Field(f) ==
        CASE f.kind = "int"     -> EncodeTag(f.num, VARINT) \o EncodeVarint(f.word)
          [] f.kind = "bytes"   -> LengthDelimited(f.num, f.bytes)
          [] f.kind = "message" -> LengthDelimited(f.num, Encode(f.fields))
  IN FlattenSeq([k \in DOMAIN fields |-> Field(fields[k])])

-----------------------------------------------------------------------------
(* Reading.  Positions are those of TLA+ sequences, from 1.                *)

\* int(w): the top half of the words are the negative integers.
Signed(w) == IF w < Word \div 2 THEN w ELSE w - Word

\* isPrintable and utf8.Valid.  Bytes above 127 are taken not to be UTF-8.
IsText(bytes) ==
  bytes # <<>> /\ \A k \in DOMAIN bytes : bytes[k] \in 32..127 \cup {9, 10, 13}

MaxFieldNum == 10000

\* The rule by which the nodes read from a chunk become children.
ChildrenOf(inner) ==
  IF /\ inner.outcome = "ok"
     /\ \E c \in ToSet(inner.nodes) : c.num > 0 /\ c.num < MaxFieldNum
  THEN inner.nodes ELSE <<>>

\* The loop of ParseProtobuf from position i on: the nodes, the outcome ("ok",
\* "error", or "panic" for a slice that ends before it begins), and how many
\* bytes were used.  A tag that is cut short ends the loop without an error.
RECURSIVE ParseFrom(_, _, _)
ParseFrom(data, i, nodes) ==
  LET tag   == DecodeVarint(data, i)
      at    == i + tag.n
      num   == tag.word \div 8
      wire  == tag.word % 8
      value == DecodeVarint(data, at)
      body  == at + value.n
      end   == Signed((body - 1 + value.word) % Word)
      Stop(outcome) == [nodes |-> nodes, outcome |-> outcome, used |-> i - 1]
      Node(word, bytes, children) ==
        [num |-> num, wire |-> wire, word |-> word, bytes |-> bytes,
         text |-> wire = LEN /\ IsText(bytes), children |-> children]
      Fixed(n) ==
        IF at + n - 1 > Len(data) THEN Stop("error")
        ELSE ParseFrom(data, at + n,
               Append(nodes, Node(0, SubSeq(data, at, at + n - 1), <<>>)))
      Delimited ==
        LET chunk == SubSeq(data, body, end)
            inner == ParseFrom(chunk, 1, <<>>)
        IN IF inner.outcome = "panic" THEN Stop("panic")
           ELSE ParseFrom(data, end + 1,
                  Append(nodes, Node(0, chunk, ChildrenOf(inner))))
  IN IF i > Len(data) \/ tag.n = 0 THEN Stop("ok")
     ELSE CASE wire = VARINT /\ value.n > 0 ->
                 ParseFrom(data, body, Append(nodes, Node(value.word, <<>>, <<>>)))
            [] wire = FIXED64 -> Fixed(8)
            [] wire = FIXED32 -> Fixed(4)
            [] wire = LEN /\ value.n > 0 /\ end <= Len(data) ->
                 IF end < body - 1 THEN Stop("panic") ELSE Delimited
            [] OTHER -> Stop("error")

ParseProtobuf(data) == ParseFrom(data, 1, <<>>)

-----------------------------------------------------------------------------
(* Looking at what was read.                                               *)

\* FindAllChildren.
FindAll(nodes, num) == SelectSeq(nodes, LAMBDA c : c.num = num)

\* FindFirstChild for each number of the path in turn, as a sequence of one
\* node, or of none when one of them is nil.
RECURSIVE FindPath(_, _)
FindPath(nodes, path) ==
  LET found == FindAll(nodes, Head(path))
  IN IF found = <<>> THEN <<>>
     ELSE IF Len(path) = 1 THEN <<Head(found)>>
     ELSE FindPath(Head(found).children, Tail(path))
=============================================================================
