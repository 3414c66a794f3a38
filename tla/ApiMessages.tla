---------------------------- MODULE ApiMessages ----------------------------
(***************************************************************************)
(* The messages of the photos API: the payload builders of core/proto.go,  *)
(* the answers core/client.go takes apart, and messages of any shape, put  *)
(* together field by field with the encoders.                              *)
(*                                                                         *)
(* A text (a key, a name, a URL) is one of a few byte sequences; of the    *)
(* fixed texts and numbers in the payloads only the place is kept.         *)
(***************************************************************************)
EXTENDS ProtoWire, FiniteSets

CONSTANTS
  Fields,      \* field numbers of the messages built field by field
  Words,       \* integers written
  Chunks,      \* texts and byte strings written
  Texts,       \* the chunks that are keys, names or URLs
  Hash,        \* a SHA-1
  Label,       \* "Pixel XL", "Google", "28" and the share read mask
  MaxSteps     \* bound on the encoder calls a message is put together by

ASSUME MessagesAssumption ==
  /\ Fields \subseteq 1..(MaxFieldNum - 1)
  /\ Words \subseteq 0..(Word - 1)
  /\ MaxSteps \in Nat
  /\ Texts \subseteq Chunks /\ Label \in Texts
  /\ \A t \in Texts : t # <<>> /\ \A k \in DOMAIN t : t[k] \in 32..127

VARIABLES
  message,  \* the fields written
  steps,    \* encoder calls made for the message
  buf,      \* the bytes written
  ends,     \* where each field of message ends in buf
  sent      \* what the server meant by the message, when it is an answer

messageVars == <<message, steps, buf, ends, sent>>

Nothing == [kind |-> "nothing"]

Init ==
  /\ message = <<>>
  /\ steps = 0
  /\ buf = <<>>
  /\ ends = <<>>
  /\ sent = Nothing

-----------------------------------------------------------------------------
(* The payload builders.                                                   *)

Empty(num) == Bytes(num, <<>>)

Device == <<Bytes(3, Label), Bytes(4, Label), Number(5, 28)>>

EachKey(num, keys) == [k \in DOMAIN keys |-> Bytes(num, keys[k])]

SavePayload(keys, authKey, albumKey) ==
  EachKey(1, keys) \o
  <<Bytes(2, authKey), Bytes(3, albumKey), Message(4, <<Number(1, 3)>>),
    Message(5, Device)>>

DownloadPayload(key) ==
  <<Message(1, <<Message(1, <<Bytes(1, key)>>)>>),
    Message(2, <<Message(1, <<Message(7, <<Empty(2)>>)>>),
                 Message(5, <<Empty(2), Empty(3),
                              Message(5, <<Empty(1), Number(3, 0)>>)>>)>>)>>

CreateAlbumPayload(name, time, keys) ==
  <<Bytes(1, name), Number(2, time), Number(3, 1)>> \o
  [k \in DOMAIN keys |-> Message(4, <<Message(1, <<Bytes(1, keys[k])>>)>>)] \o
  <<Empty(6), Message(7, <<Number(1, 3)>>), Message(8, Device)>>

\* Field 8 of both deletion payloads.
DeleteMask ==
  Message(8, <<Message(4, <<Empty(2), Message(3, <<Empty(1)>>), Empty(4),
                            Message(5, <<Empty(1)>>)>>)>>)

DeletePermanentlyPayload(keys) ==
  <<Number(2, 2)>> \o EachKey(3, keys) \o <<Number(4, 2), DeleteMask, Empty(9)>>

TrashPayload(keys) ==
  <<Number(2, 1)>> \o EachKey(3, keys) \o
  <<Number(4, 1), DeleteMask,
    Message(9, <<Number(1, 5), Message(2, <<Number(1, Word - 1), Bytes(2, Label)>>)>>)>>

FindByHashPayload(hash) ==
  <<Message(1, <<Message(1, <<Bytes(1, hash)>>), Empty(2)>>)>>

ShareLinkPayload(keys, time) ==
  LET Item7(a, b, c) == Message(7, <<Message(1, <<Number(1, a), Number(2, b)>>), Number(2, c)>>)
  IN <<Message(3, <<Number(2, 1), Number(5, 1), Item7(2, 1, 1), Item7(2, 2, 1),
                    Item7(1, 1, 0), Item7(1, 2, 0), Item7(3, 1, 1), Number(8, 0)>>),
       Message(4, <<Number(1, 2)>> \o
                  [k \in DOMAIN keys |-> Message(3, <<Message(1, <<Bytes(1, keys[k])>>)>>)] \o
                  <<Number(7, 1), Number(8, 1), Number(9, 2)>>),
       Number(8, time), Number(9, 3), Number(9, 1), Number(9, 2), Number(9, 5), Bytes(10, Label)>>

Payloads ==
  UNION {{SavePayload(<<s, t>>, s, <<>>), DownloadPayload(t),
          CreateAlbumPayload(s, w, <<t>>), DeletePermanentlyPayload(<<t>>),
          TrashPayload(<<t>>), FindByHashPayload(Hash),
          ShareLinkPayload(<<s, t>>, w)} : s, t \in Texts, w \in Words}

-----------------------------------------------------------------------------
(* The answers and how the client reads them.  A field that is empty or 0  *)
(* is not sent.  An answer has one field 1, so that the client's loop over *)
(* the roots takes its branch for it once.                                 *)

Present(field) ==
  IF field.bytes = <<>> /\ field.word = 0 /\ field.fields = <<>> THEN <<>>
  ELSE <<field>>

DownloadAnswer(a) ==
  LET hash  == Message(13, Present(Bytes(1, a.hash)))
      about == Message(2, Present(Bytes(4, a.name)) \o Present(Number(10, a.size)) \o
                          Present(hash))
      image == Message(2, Present(Bytes(1, a.image)))
      video == Message(3, Present(Bytes(5, a.video)))
      links == Message(5, Present(image) \o Present(video))
  IN <<Message(1, Present(about) \o Present(links))>>

ImportAnswer(a) ==
  LET Item(t) == Message(1, <<Bytes(1, t)>>)
  IN <<Message(1, IF a.listed THEN [k \in DOMAIN a.keys |-> Item(a.keys[k])]
                              ELSE <<Bytes(1, a.keys[1])>>)>> \o
     Present(Number(3, a.status))

FindAnswer(a) ==
  <<Message(1, Present(Message(2, Present(Message(2, Present(Bytes(1, a.key)))))))>>

AlbumAnswer(a) == <<Message(1, <<Bytes(1, a.key)>>)>>

ShareAnswer(a) ==
  Present(Bytes(1, a.envelope)) \o <<Bytes(2, a.url)>> \o Present(Bytes(5, a.auth))

TextAt(nodes, path) ==
  LET found == FindPath(nodes, path)
  IN IF found # <<>> /\ found[1].text THEN found[1].bytes ELSE <<>>

\* GetDownloadURL without its fallback to the image.
ReadDownloadVideo(nodes) ==
  LET size == FindPath(nodes, <<1, 2, 10>>)
      hash == FindPath(nodes, <<1, 2, 13, 1>>)
      name == TextAt(nodes, <<1, 2, 4>>)
      url  == TextAt(nodes, <<1, 5, 3, 5>>)
  IN [name |-> name, url |-> url, found |-> name # <<>> \/ url # <<>>,
      size |-> IF size = <<>> THEN 0 ELSE size[1].word,
      hash |-> IF hash = <<>> THEN <<>> ELSE hash[1].bytes]

\* GetDownloadURL: the video link before the image link, and an error (found
\* is FALSE) if there is neither link nor name.
ReadDownload(nodes) ==
  LET size  == FindPath(nodes, <<1, 2, 10>>)
      hash  == FindPath(nodes, <<1, 2, 13, 1>>)
      name  == TextAt(nodes, <<1, 2, 4>>)
      video == TextAt(nodes, <<1, 5, 3, 5>>)
      url   == IF video # <<>> THEN video ELSE TextAt(nodes, <<1, 5, 2, 1>>)
  IN [name |-> name, url |-> url, found |-> name # <<>> \/ url # <<>>,
      size |-> IF size = <<>> THEN 0 ELSE size[1].word,
      hash |-> IF hash = <<>> THEN <<>> ELSE hash[1].bytes]

\* ImportSharedMedia: a list of items, or else a single one; and the status.
ReadImport(nodes) ==
  LET items  == FindAll(Head(FindAll(nodes, 1)).children, 1)
      listed == SelectSeq([k \in DOMAIN items |-> TextAt(items[k].children, <<1>>)],
                          LAMBDA t : t # <<>>)
      status == FindAll(nodes, 3)
  IN [keys   |-> IF listed # <<>> THEN listed
                 ELSE SelectSeq(<<TextAt(nodes, <<1, 1>>)>>, LAMBDA t : t # <<>>),
      status |-> IF status = <<>> THEN 0 ELSE status[Len(status)].word]

\* FindMediaByHash: the key of the media, <<>> if there is none.
ReadFind(nodes) == TextAt(nodes, <<1, 2, 2, 1>>)

\* CreateAlbum: the key of the album, an error if it is <<>>.
ReadAlbum(nodes) == TextAt(nodes, <<1, 1>>)

\* CreateShareLink.  Only roots are looked at.
ReadShare(nodes) ==
  [envelope |-> TextAt(nodes, <<1>>), url |-> TextAt(nodes, <<2>>),
   auth |-> TextAt(nodes, <<5>>)]

-----------------------------------------------------------------------------

Extend(fields) ==
  /\ message' = message \o fields
  /\ buf' = buf \o Encode(fields)
  /\ ends' = ends \o [k \in DOMAIN fields |->
                        Len(buf \o Encode(SubSeq(fields, 1, k)))]

\* encodeInt or encodeString, written to the buffer.
WriteField ==
  /\ steps < MaxSteps
  /\ steps' = steps + 1
  /\ \E num \in Fields :
       \/ \E w \in Words : Extend(<<Number(num, w)>>)
       \/ \E c \in Chunks : Extend(<<Bytes(num, c)>>)
  /\ UNCHANGED sent

\* encodeLengthDelimited around all that was written.
Enclose ==
  /\ message # <<>> /\ steps < MaxSteps
  /\ steps' = steps + 1
  /\ \E num \in Fields :
       /\ message' = <<Message(num, message)>>
       /\ buf' = LengthDelimited(num, buf)
       /\ ends' = <<Len(buf')>>
  /\ UNCHANGED sent

\* One of the payload builders.
Build ==
  /\ message = <<>>
  /\ \E p \in Payloads : Extend(p)
  /\ steps' = MaxSteps
  /\ UNCHANGED sent

\* The server answers an operation of the client.
Answer ==
  LET Maybe == Texts \cup {<<>>}
      Downloads == [kind : {"download"}, name : Maybe, size : Words,
                    hash : {Hash, <<>>}, image : Maybe, video : Maybe]
      Imports   == [kind : {"import"}, keys : {<<t>> : t \in Texts} \cup (Texts \X Texts),
                    listed : BOOLEAN, status : 0..3]
      Finds     == [kind : {"find"}, key : Maybe]
      Albums    == [kind : {"album"}, key : Texts]
      Shares    == [kind : {"share"}, envelope : Maybe, url : Texts, auth : Maybe]
  IN /\ message = <<>>
     /\ \/ \E a \in Downloads : sent' = a /\ Extend(DownloadAnswer(a))
        \/ \E a \in Imports :
             /\ a.listed \/ Len(a.keys) = 1
             /\ sent' = a /\ Extend(ImportAnswer(a))
        \/ \E a \in Finds : sent' = a /\ Extend(FindAnswer(a))
        \/ \E a \in Albums : sent' = a /\ Extend(AlbumAnswer(a))
        \/ \E a \in Shares : sent' = a /\ Extend(ShareAnswer(a))
     /\ steps' = MaxSteps

\* The buffer is handed over; the next message starts with a new one.
Reset ==
  /\ message # <<>>
  /\ message' = <<>> /\ steps' = 0 /\ buf' = <<>> /\ ends' = <<>> /\ sent' = Nothing

Next == WriteField \/ Enclose \/ Build \/ Answer \/ Reset

Spec == Init /\ [][Next]_messageVars

-----------------------------------------------------------------------------

\* Bytes are bytes, and every field that was written ends in the buffer.
TypeOK ==
  /\ steps \in 0..MaxSteps
  /\ buf \in Seq(0..255)
  /\ ends \in Seq(1..Len(buf))
  /\ Len(ends) = Len(message)

\* The nodes say what the fields say.  Bytes that happen to parse may have
\* children besides; a message has exactly its own.
RECURSIVE Matches(_, _)
Matches(nodes, fields) ==
  /\ Len(nodes) = Len(fields)
  /\ \A k \in DOMAIN fields :
       LET n == nodes[k]
           f == fields[k]
       IN /\ n.num = f.num
          /\ \/ f.kind = "int" /\ n.wire = VARINT /\ n.word = f.word
             \/ f.kind = "bytes" /\ n.wire = LEN /\ n.bytes = f.bytes
                  /\ n.text = IsText(f.bytes)
             \/ f.kind = "message" /\ n.wire = LEN /\ Matches(n.children, f.fields)

\* ParseProtobuf reads every message the encoders write, nested messages, long
\* and many-byte fields and all payloads included, as what was written.
MessageIsRead ==
  LET read == ParseProtobuf(buf)
  IN read.outcome = "ok" /\ Matches(read.nodes, message)

\* Of a message that is cut short ParseProtobuf returns exactly the fields that
\* are there in full, and it does so without leaving the buffer.
CutIsPrefix ==
  \A cut \in 0..Len(buf) :
    LET read  == ParseProtobuf(SubSeq(buf, 1, cut))
        whole == Cardinality({k \in DOMAIN ends : ends[k] <= cut})
    IN /\ read.outcome \in {"ok", "error"}
       /\ Matches(read.nodes, SubSeq(message, 1, whole))

\* The client gets out of an answer what the server put in, whichever fields
\* the server leaves out, and whether texts look like messages or not.
AnswerIsRead ==
  LET nodes == ParseProtobuf(buf).nodes
  IN /\ sent.kind = "download" =>
          ReadDownload(nodes) =
            [name |-> sent.name, size |-> sent.size, hash |-> sent.hash,
             url |-> IF sent.video # <<>> THEN sent.video ELSE sent.image,
             found |-> {sent.name, sent.video, sent.image} # {<<>>}]
     /\ sent.kind = "import" =>
          ReadImport(nodes) = [keys |-> sent.keys, status |-> sent.status]
     /\ sent.kind = "find" => ReadFind(nodes) = sent.key
     /\ sent.kind = "album" => ReadAlbum(nodes) = sent.key
     /\ sent.kind = "share" =>
          ReadShare(nodes) =
            [envelope |-> sent.envelope, url |-> sent.url, auth |-> sent.auth]
=============================================================================
