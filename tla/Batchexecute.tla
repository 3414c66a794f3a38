---------------------------- MODULE Batchexecute ----------------------------
(***************************************************************************)
(* How core/web_client.go reads the answers of batchexecute: the envelope  *)
(* of an RPC, and what the operations take out of its payload.             *)
(*                                                                         *)
(* A JSON value is a record with one field that names its type.  A string  *)
(* is a plain one, or the text of another JSON value: the payload of an    *)
(* RPC is such a text.  A body is a sequence of lines: an array, an array  *)
(* that is cut short, or anything else (the guard, the sizes, HTML).       *)
(***************************************************************************)
EXTENDS Naturals, Sequences, FiniteSets, FiniteSetsExt

\* The string of no characters, and the error of none.
Empty == ""

Null      == [null |-> TRUE]
Number(n) == [number |-> n]
String(s) == [string |-> s]
JSON(v)   == [text |-> v]
Array(s)  == [array |-> s]
Other     == [other |-> TRUE]
Cut(s)    == [cut |-> s]

IsArray(v)  == "array" \in DOMAIN v
IsNumber(v) == "number" \in DOMAIN v

\* One index of safeGetIndex, which takes several: an element of an array that
\* has it.
SafeGetIndex(data, i) ==
  IF IsArray(data) /\ i + 1 \in DOMAIN data.array
  THEN data.array[i + 1] ELSE Null

\* The string a value is, "" if it is none.
AsString(v) == IF "string" \in DOMAIN v THEN v.string ELSE Empty
AsNumber(v) == IF IsNumber(v) THEN v.number ELSE 0

StringAt(data, i) == AsString(SafeGetIndex(data, i))

-----------------------------------------------------------------------------
(* The envelope.                                                           *)

Answers(value, error) == [value |-> value, error |-> error]
Fails(error)          == Answers(Null, error)

\* The class is found by looking for "[8" and "[13" in the text of the error:
\* here the numbers that begin the error and its detail.
ParseRPCError(error) ==
  LET detail == SafeGetIndex(SafeGetIndex(error, 2), 0)
      begins == {SafeGetIndex(error, 0),
                 SafeGetIndex(SafeGetIndex(detail, 1), 0)}
  IN IF error = Null THEN Empty
     ELSE IF \/ Number(8) \in begins
             \/ StringAt(detail, 0) = "PhotosWebImportDriveItemsFailure"
     THEN "quota"
     ELSE IF Number(13) \in begins THEN "timeout"
     ELSE "rpc_error"

\* The error left aside when there is no payload.
NamedAnswerLenient(entry) ==
  LET payload == SafeGetIndex(entry, 2)
      error   == ParseRPCError(SafeGetIndex(entry, 5))
  IN IF "text" \in DOMAIN payload
     THEN Answers(payload.text, error) ELSE Fails(Empty)

HasPayload(entry) ==
  LET payload == SafeGetIndex(entry, 2)
  IN "text" \in DOMAIN payload /\ payload # JSON(Null)

\* What an entry of the RPC says: without a payload (null, "", "null") nothing
\* or its error, else the payload and the error.
NamedAnswer(entry) ==
  LET payload == SafeGetIndex(entry, 2)
      error   == ParseRPCError(SafeGetIndex(entry, 5))
  IN IF HasPayload(entry) THEN Answers(payload.text, error)
     ELSE IF "string" \in DOMAIN payload /\ payload # String(Empty) /\ error = Empty
     THEN Fails("not_parsed")
     ELSE Fails(error)

Names(entry, rpc) == SafeGetIndex(entry, 1) = String(rpc)

\* A line may be any array: entries that are no arrays make it a mixed one.
EntriesOf(line) == IF IsArray(line) THEN line.array ELSE line.cut

\* The first line that holds the name of the RPC; failing that the first array.
TargetLine(body, rpc) ==
  LET arrays == {i \in DOMAIN body : body[i] # Other}
      naming == {i \in arrays : \E j \in DOMAIN EntriesOf(body[i]) :
                                 Names(EntriesOf(body[i])[j], rpc)}
  IN IF naming # {} THEN body[Min(naming)]
     ELSE IF arrays # {} THEN body[Min(arrays)]
     ELSE Other

\* The entries of the RPC, those of two elements passed over.
Named(entries, rpc) ==
  {i \in DOMAIN entries : Names(entries[i], rpc) /\ Len(entries[i].array) >= 3}

\* An array of arrays: the entry of the RPC, failing that the first payload of
\* any entry.
FromEntries(entries, rpc) ==
  LET named == Named(entries, rpc)
      loose == {i \in DOMAIN entries : HasPayload(entries[i])}
  IN IF named # {} THEN NamedAnswer(entries[Min(named)])
     ELSE IF loose # {}
     THEN Answers(SafeGetIndex(entries[Min(loose)], 2).text, Empty)
     ELSE Fails("not_found")

\* An array with other things beside arrays: only an entry of the RPC counts.
FromMixed(items, rpc) ==
  LET named == {i \in Named(items, rpc) :
                  NamedAnswer(items[i]).error # "not_parsed"}
  IN IF named # {} THEN NamedAnswer(items[Min(named)])
     ELSE Fails("not_an_envelope")

ParseBatchexecuteEnvelope(body, rpc) ==
  LET line == TargetLine(body, rpc)
  IN IF line = Other \/ "cut" \in DOMAIN line THEN Fails("not_an_envelope")
     ELSE IF \A i \in DOMAIN line.array : IsArray(line.array[i])
     THEN FromEntries(line.array, rpc)
     ELSE FromMixed(line.array, rpc)

-----------------------------------------------------------------------------
(* The payloads.                                                           *)

\* SusGud: a list of [file, [key, [url, w, h], time, dedup, ...], status], in
\* a list of its own or by itself.
ImportItems(value) ==
  LET first  == SafeGetIndex(value, 0)
      list   == IF IsArray(first) THEN first.array
                ELSE IF IsArray(value) THEN value.array ELSE <<>>
      places == {i \in DOMAIN list : IsArray(list[i]) /\ list[i].array # <<>>}
      meta   == [i \in places |-> SafeGetIndex(list[i], 1)]
  IN [i \in places |->
        [file     |-> StringAt(list[i], 0),
         status   |-> AsNumber(SafeGetIndex(list[i], 2)),
         mediaKey |-> StringAt(meta[i], 0),
         dedupKey |-> StringAt(meta[i], 3),
         url      |-> StringAt(SafeGetIndex(meta[i], 1), 0)]]

\* Every item with a key counted as imported, whatever its status.
SucceededAnyStatus(item) == item.mediaKey # Empty

Succeeded(item) == item.mediaKey # Empty /\ item.status = 0

BatchResult(value) ==
  LET items == ImportItems(value)
      succeeded == {i \in DOMAIN items : Succeeded(items[i])}
  IN [items   |-> items,
      success |-> Cardinality(succeeded),
      failed  |-> Cardinality(DOMAIN items \ succeeded)]

\* VrseUb: [[.., .., .., dedup], url, ...] or the URL at 7, or all of it one
\* list deeper.
ReadDownload(value) ==
  LET read(v) ==
        [url      |-> IF StringAt(v, 1) # Empty THEN StringAt(v, 1)
                      ELSE StringAt(v, 7),
         dedupKey |-> StringAt(SafeGetIndex(v, 0), 3)]
  IN IF read(value) # [url |-> Empty, dedupKey |-> Empty] THEN read(value)
     ELSE read(SafeGetIndex(value, 0))

\* lcxiM: [[item, ...], next page, timestamp], the dedup key at 3 of an item.
ListedKeys(value) ==
  LET first == SafeGetIndex(value, 0)
      list  == IF IsArray(first) THEN first.array ELSE <<>>
  IN [keys |-> {StringAt(list[i], 3) : i \in DOMAIN list} \ {Empty},
      next |-> IF IsArray(first) THEN StringAt(value, 1) ELSE Empty]

\* SFKp8c: the link is looked for in the whole body, the payloads' texts too.
HasLink(body) ==
  \E i \in DOMAIN body : body[i] # Other /\
    \E j \in DOMAIN EntriesOf(body[i]) :
      LET payload == SafeGetIndex(EntriesOf(body[i])[j], 2)
      IN "text" \in DOMAIN payload /\ StringAt(payload.text, 1) # Empty
=============================================================================
