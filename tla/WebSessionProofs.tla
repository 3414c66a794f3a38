-------------------------- MODULE WebSessionProofs --------------------------
(***************************************************************************)
(* Proofs about WebSession, for any files, cookies, logins and storages.   *)
(***************************************************************************)
EXTENDS WebSession, FiniteSetTheorems, SequenceTheorems, TLAPS

-----------------------------------------------------------------------------
(* Values.                                                                 *)

\* The kinds of values differ.
LEMMA KindsDiffer ==
  ASSUME NEW s, NEW t
  PROVE  /\ IsArray(Array(s)) /\ Array(s).array = s
         /\ ~IsArray(Null) /\ ~IsArray(String(s)) /\ ~IsArray(Number(s))
         /\ ~IsArray(JSON(s)) /\ ~IsArray(Cut(s)) /\ ~IsArray(Other)
         /\ "cut" \notin DOMAIN Array(s) /\ "cut" \in DOMAIN Cut(s)
         /\ Cut(s).cut = s
         /\ Other \notin {Array(s), Cut(s)}
         /\ Null \notin {Array(s), String(s), Number(s), JSON(s)}
         /\ String(s) \notin {Array(t), Number(t), JSON(t)}
         /\ Number(s) # Array(t)
         /\ "text" \in DOMAIN JSON(s) /\ JSON(s).text = s
         /\ "text" \notin DOMAIN Null /\ "text" \notin DOMAIN String(s)
         /\ "text" \notin DOMAIN Number(s) /\ "text" \notin DOMAIN Array(s)
         /\ "string" \in DOMAIN String(s) /\ String(s).string = s
         /\ "string" \notin DOMAIN Null /\ "string" \notin DOMAIN JSON(s)
         /\ "string" \notin DOMAIN Array(s) /\ "string" \notin DOMAIN Number(s)
         /\ String(s) = String(t) <=> s = t
         /\ Number(s) = Number(t) <=> s = t
         /\ JSON(s) = JSON(t) <=> s = t
  BY DEF IsArray, Array, Null, String, Number, JSON, Cut, Other

\* No error and no URL is the empty one.
LEMMA NotEmpty ==
  Empty \notin {"quota", "timeout", "rpc_error", "transport", "refused",
                "not_parsed", "not_found", "not_an_envelope", "no_link", "url",
                "PhotosWebImportDriveItemsFailure"}
  BY Zenon DEF Empty

\* Indexing an array, and what is none.
LEMMA Indexing ==
  ASSUME NEW s, NEW i
  PROVE  /\ SafeGetIndex(Array(s), i) =
              IF i + 1 \in DOMAIN s THEN s[i + 1] ELSE Null
         /\ SafeGetIndex(Null, i) = Null
         /\ SafeGetIndex(String(s), i) = Null
         /\ SafeGetIndex(Number(s), i) = Null
         /\ SafeGetIndex(JSON(s), i) = Null
         /\ AsString(String(s)) = s /\ AsString(Null) = Empty
         /\ AsString(Array(s)) = Empty /\ AsString(Number(s)) = Empty
         /\ AsString(JSON(s)) = Empty
  BY KindsDiffer DEF SafeGetIndex, AsString

\* No string is in what is no array, nor in an empty one.
LEMMA NoString ==
  ASSUME NEW s, NEW i
  PROVE  /\ StringAt(Null, i) = Empty /\ StringAt(String(s), i) = Empty
         /\ StringAt(Number(s), i) = Empty /\ StringAt(JSON(s), i) = Empty
         /\ StringAt(Array(<< >>), i) = Empty
  <1>1. AsString(Null) = Empty
    BY DEF AsString, Null
  <1>2. SafeGetIndex(Array(<< >>), i) = Null
    BY DEF SafeGetIndex, Array, IsArray
  <1>3. QED
    BY <1>1, <1>2, Indexing DEF StringAt

\* The least place is the first.
LEMMA FirstPlace ==
  ASSUME NEW S, S \subseteq Nat, NEW n \in S, \A m \in S : n <= m
  PROVE  Min(S) = n
  <1> DEFINE Least(m) == m \in S /\ \A k \in S : m <= k
  <1>1. Min(S) = CHOOSE m : Least(m)
    BY DEF Min
  <1>2. Least(n)
    OBVIOUS
  <1>3. ASSUME NEW m, Least(m) PROVE m = n
    <2>1. m \in Nat /\ n \in Nat /\ m <= n /\ n <= m
      BY <1>3
    <2>2. QED
      BY <2>1
  <1> HIDE DEF Least
  <1>4. QED
    BY <1>1, <1>2, <1>3

-----------------------------------------------------------------------------
(* The envelope.                                                           *)

\* The parts of an entry.
LEMMA EntryParts ==
  ASSUME NEW rpc, NEW payload, NEW error
  PROVE  /\ IsArray(Entry(rpc, payload, error))
         /\ Len(Entry(rpc, payload, error).array) >= 3
         /\ Names(Entry(rpc, payload, error), rpc)
         /\ SafeGetIndex(Entry(rpc, payload, error), 2) = payload
         /\ SafeGetIndex(Entry(rpc, payload, error), 5) = error
  BY DEF IsArray, Array, SafeGetIndex, Entry, Names

\* What stands beside an entry in a body: nothing of it names an RPC.
LEMMA OtherParts ==
  ASSUME NEW rpc
  PROVE  /\ IsArray(Timing) /\ ~Names(Timing, rpc)
         /\ IsArray(Request) /\ ~Names(Request, rpc)
         /\ ~Names(Number(0), rpc) /\ ~Names(String("wrb.fr"), rpc)
         /\ SafeGetIndex(Timing, 2) = Null
         /\ SafeGetIndex(Request, 2) = JSON(Number(7))
  <1>1. /\ IsArray(Timing) /\ IsArray(Request)
        /\ SafeGetIndex(Timing, 1) = Number(1)
        /\ SafeGetIndex(Request, 1) = Number(1)
        /\ SafeGetIndex(Timing, 2) = Null
        /\ SafeGetIndex(Request, 2) = JSON(Number(7))
    BY DEF IsArray, Array, SafeGetIndex, Timing, Request
  <1>2. /\ SafeGetIndex(Number(0), 1) = Null
        /\ SafeGetIndex(String("wrb.fr"), 1) = Null
    BY Indexing
  <1>3. QED
    BY <1>1, <1>2, KindsDiffer DEF Names

\* The last line of a body is an array that holds one array, of no RPC.
LEMMA LastLine ==
  ASSUME NEW rpc
  PROVE  \E last : /\ End = Array(<<last>>) /\ IsArray(last)
                   /\ ~Names(last, rpc) /\ SafeGetIndex(last, 2) = Null
  <1> DEFINE last == Array(<<String("e"), Number(4), Null, Null, Number(1)>>)
  <1>1. /\ End = Array(<<last>>) /\ IsArray(last)
        /\ SafeGetIndex(last, 1) = Number(4) /\ SafeGetIndex(last, 2) = Null
    BY DEF IsArray, Array, SafeGetIndex, End
  <1>2. ~Names(last, rpc)
    BY <1>1, KindsDiffer DEF Names
  <1>3. QED
    BY <1>1, <1>2

\* The first array that names an RPC is the line that is read.
LEMMA NamingLine ==
  ASSUME NEW rpc, NEW body, DOMAIN body \subseteq Nat, NEW n \in DOMAIN body,
         body[n] # Other,
         \E j \in DOMAIN EntriesOf(body[n]) : Names(EntriesOf(body[n])[j], rpc),
         \A i \in DOMAIN body : i < n =>
           \/ body[i] = Other
           \/ \A j \in DOMAIN EntriesOf(body[i]) :
                ~Names(EntriesOf(body[i])[j], rpc)
  PROVE  TargetLine(body, rpc) = body[n]
  <1> DEFINE arrays == {i \in DOMAIN body : body[i] # Other}
             naming == {i \in arrays : \E j \in DOMAIN EntriesOf(body[i]) :
                                         Names(EntriesOf(body[i])[j], rpc)}
  <1>1. n \in naming /\ naming \subseteq Nat
    OBVIOUS
  <1>2. \A i \in naming : n <= i
    OBVIOUS
  <1>3. TargetLine(body, rpc) = IF naming # {} THEN body[Min(naming)]
          ELSE IF arrays # {} THEN body[Min(arrays)] ELSE Other
    BY DEF TargetLine
  <1> HIDE DEF naming
  <1>4. Min(naming) = n
    BY <1>1, <1>2, FirstPlace
  <1>5. QED
    BY <1>1, <1>3, <1>4

\* Without one, the first array is.
LEMMA AnyLine ==
  ASSUME NEW rpc, NEW body, DOMAIN body \subseteq Nat, NEW n \in DOMAIN body,
         body[n] # Other, \A i \in DOMAIN body : i < n => body[i] = Other,
         \A i \in DOMAIN body : body[i] # Other =>
           \A j \in DOMAIN EntriesOf(body[i]) :
             ~Names(EntriesOf(body[i])[j], rpc)
  PROVE  TargetLine(body, rpc) = body[n]
  <1> DEFINE arrays == {i \in DOMAIN body : body[i] # Other}
             naming == {i \in arrays : \E j \in DOMAIN EntriesOf(body[i]) :
                                         Names(EntriesOf(body[i])[j], rpc)}
  <1>1. naming = {} /\ n \in arrays /\ arrays \subseteq Nat
    OBVIOUS
  <1>2. \A i \in arrays : n <= i
    OBVIOUS
  <1>3. TargetLine(body, rpc) = IF naming # {} THEN body[Min(naming)]
          ELSE IF arrays # {} THEN body[Min(arrays)] ELSE Other
    BY DEF TargetLine
  <1> HIDE DEF naming, arrays
  <1>4. Min(arrays) = n
    BY <1>1, <1>2, FirstPlace
  <1>5. QED
    BY <1>1, <1>3, <1>4

ErrorOf(answer) == answer.error

\* The payload of the entry is a JSON text, if it is a text at all.
Parsed(entry) == ErrorOf(NamedAnswer(entry)) # "not_parsed"

\* Of an array, the first entry of the RPC is what is read.
LEMMA NamedEntry ==
  ASSUME NEW rpc, NEW entries, DOMAIN entries \subseteq Nat,
         NEW n \in DOMAIN entries, Names(entries[n], rpc),
         Len(entries[n].array) >= 3,
         \A i \in DOMAIN entries : i < n => ~Names(entries[i], rpc)
  PROVE  /\ FromEntries(entries, rpc) = NamedAnswer(entries[n])
         /\ Parsed(entries[n]) =>
              FromMixed(entries, rpc) = NamedAnswer(entries[n])
  <1> DEFINE named  == Named(entries, rpc)
             parsed == {i \in named : Parsed(entries[i])}
  <1>1. n \in named /\ named \subseteq Nat /\ \A i \in named : n <= i
    BY DEF Named
  <1>2. FromEntries(entries, rpc) = NamedAnswer(entries[n])
    <2> HIDE DEF named
    <2>1. Min(named) = n
      BY <1>1, FirstPlace
    <2>2. QED
      BY <1>1, <2>1 DEF FromEntries, named
  <1>3. ASSUME Parsed(entries[n])
        PROVE  FromMixed(entries, rpc) = NamedAnswer(entries[n])
    <2>1. n \in parsed /\ parsed \subseteq Nat /\ \A i \in parsed : n <= i
      BY <1>1, <1>3
    <2>2. FromMixed(entries, rpc) = IF parsed # {}
            THEN NamedAnswer(entries[Min(parsed)]) ELSE Fails("not_an_envelope")
      BY DEF FromMixed, Parsed, ErrorOf
    <2> HIDE DEF parsed
    <2>3. Min(parsed) = n
      BY <2>1, FirstPlace
    <2>4. QED
      BY <2>1, <2>2, <2>3
  <1>4. QED
    BY <1>2, <1>3

\* What a line is told apart by.
LEMMA Lines ==
  ASSUME NEW entries
  PROVE  /\ Array(entries) # Other /\ "cut" \notin DOMAIN Array(entries)
         /\ Array(entries).array = entries
         /\ EntriesOf(Array(entries)) = entries
         /\ Cut(entries) # Other /\ EntriesOf(Cut(entries)) = entries
         /\ ~IsArray(Cut(entries)) /\ "cut" \in DOMAIN Cut(entries)
  BY KindsDiffer DEF EntriesOf

\* The line that is read, with an entry of the RPC in it, is read as that entry.
LEMMA LineIsRead ==
  ASSUME NEW rpc, NEW body, NEW entries, DOMAIN entries \subseteq Nat,
         NEW n \in DOMAIN entries, TargetLine(body, rpc) = Array(entries),
         Names(entries[n], rpc), Len(entries[n].array) >= 3,
         \A i \in DOMAIN entries : i < n => ~Names(entries[i], rpc),
         Parsed(entries[n])
  PROVE  ParseBatchexecuteEnvelope(body, rpc) = NamedAnswer(entries[n])
  <1>1. /\ FromEntries(entries, rpc) = NamedAnswer(entries[n])
        /\ FromMixed(entries, rpc) = NamedAnswer(entries[n])
    BY NamedEntry
  <1>2. QED
    BY <1>1, Lines DEF ParseBatchexecuteEnvelope

\* An answer that holds an entry of the RPC is read as that entry, wherever it
\* stands.
LEMMA BodyIsRead ==
  ASSUME NEW rpc, NEW entry, NEW body \in Bodies(entry),
         IsArray(entry), Len(entry.array) >= 3, Names(entry, rpc),
         Parsed(entry)
  PROVE  ParseBatchexecuteEnvelope(body, rpc) = NamedAnswer(entry)
  <1>1. CASE body = <<Other, Array(<<entry, Timing, Request>>), Other, End>>
    <2>1. PICK entries : entries = <<entry, Timing, Request>>
      OBVIOUS
    <2>2. /\ entries[1] = entry /\ 1 \in DOMAIN entries
          /\ DOMAIN entries \subseteq Nat
          /\ \A i \in DOMAIN entries : ~(i < 1)
      BY <2>1
    <2>3. body = <<Other, Array(entries), Other, End>>
      BY <1>1, <2>1
    <2>4. /\ DOMAIN body \subseteq Nat /\ 2 \in DOMAIN body
          /\ body[2] = Array(entries)
          /\ \A i \in DOMAIN body : i < 2 => body[i] = Other
      BY <2>3
    <2>5. TargetLine(body, rpc) = body[2]
      BY <2>2, <2>4, Lines, NamingLine
    <2>6. QED
      BY <2>2, <2>4, <2>5, LineIsRead
  <1>2. CASE body = <<Other, Statistics, Array(<<entry>>)>>
    <2>1. PICK entries : entries = <<entry>>
      OBVIOUS
    <2>2. /\ entries[1] = entry /\ 1 \in DOMAIN entries
          /\ DOMAIN entries \subseteq Nat
          /\ \A i \in DOMAIN entries : ~(i < 1)
      BY <2>1
    <2>3. PICK others : others = <<Timing, Request>>
      OBVIOUS
    <2>4. \A j \in DOMAIN others : ~Names(others[j], rpc)
      BY <2>3, OtherParts
    <2>5. EntriesOf(Statistics) = others
      BY <2>3, Lines DEF Statistics
    <2>6. body = <<Other, Statistics, Array(entries)>>
      BY <1>2, <2>1
    <2>7. /\ DOMAIN body \subseteq Nat /\ 3 \in DOMAIN body
          /\ body[3] = Array(entries)
          /\ \A i \in DOMAIN body : i < 3 => body[i] \in {Other, Statistics}
      BY <2>6
    <2>8. TargetLine(body, rpc) = body[3]
      BY <2>2, <2>4, <2>5, <2>7, Lines, NamingLine
    <2>9. QED
      BY <2>2, <2>7, <2>8, LineIsRead
  <1>3. CASE body = <<End, Array(<<entry>>)>>
    <2>1. PICK entries : entries = <<entry>>
      OBVIOUS
    <2>2. /\ entries[1] = entry /\ 1 \in DOMAIN entries
          /\ DOMAIN entries \subseteq Nat
          /\ \A i \in DOMAIN entries : ~(i < 1)
      BY <2>1
    <2>3. PICK last : End = Array(<<last>>) /\ ~Names(last, rpc)
      BY LastLine
    <2>4. PICK others : others = <<last>>
      OBVIOUS
    <2>5. \A j \in DOMAIN others : ~Names(others[j], rpc)
      BY <2>3, <2>4
    <2>6. EntriesOf(End) = others
      BY <2>3, <2>4, Lines
    <2>7. body = <<End, Array(entries)>>
      BY <1>3, <2>1
    <2>8. /\ DOMAIN body \subseteq Nat /\ 2 \in DOMAIN body
          /\ body[2] = Array(entries)
          /\ \A i \in DOMAIN body : i < 2 => body[i] = End
      BY <2>7
    <2>9. TargetLine(body, rpc) = body[2]
      BY <2>2, <2>5, <2>6, <2>8, Lines, NamingLine
    <2>10. QED
      BY <2>2, <2>8, <2>9, LineIsRead
  <1>4. CASE body = <<Other, Array(<<Number(0), entry>>)>>
    <2>1. PICK entries : entries = <<Number(0), entry>>
      OBVIOUS
    <2>2. /\ entries[2] = entry /\ 2 \in DOMAIN entries
          /\ DOMAIN entries \subseteq Nat
          /\ \A i \in DOMAIN entries : i < 2 => entries[i] = Number(0)
      BY <2>1
    <2>3. ~Names(Number(0), rpc)
      BY OtherParts
    <2>4. body = <<Other, Array(entries)>>
      BY <1>4, <2>1
    <2>5. /\ DOMAIN body \subseteq Nat /\ 2 \in DOMAIN body
          /\ body[2] = Array(entries)
          /\ \A i \in DOMAIN body : i < 2 => body[i] = Other
      BY <2>4
    <2>6. TargetLine(body, rpc) = body[2]
      BY <2>2, <2>5, Lines, NamingLine
    <2>7. QED
      BY <2>2, <2>3, <2>5, <2>6, LineIsRead
  <1>5. QED
    BY <1>1, <1>2, <1>3, <1>4 DEF Bodies

\* An entry says its error, with a payload or without.
LEMMA EntryError ==
  ASSUME NEW entry, NEW class, SafeGetIndex(entry, 2) \in {Null, JSON(Array(<< >>))},
         ParseRPCError(SafeGetIndex(entry, 5)) = class
  PROVE  ErrorOf(NamedAnswer(entry)) = class
  <1>1. Array(<< >>) # Null
    BY KindsDiffer
  <1>2. CASE SafeGetIndex(entry, 2) = Null
    <2>1. NamedAnswer(entry) = Fails(class)
      BY <1>2, KindsDiffer DEF NamedAnswer, HasPayload
    <2>2. QED
      BY <2>1 DEF Fails, Answers, ErrorOf
  <1>3. CASE SafeGetIndex(entry, 2) = JSON(Array(<< >>))
    <2>1. HasPayload(entry)
      <3>1. JSON(Array(<< >>)) # JSON(Null)
        BY <1>1, KindsDiffer
      <3>2. "text" \in DOMAIN SafeGetIndex(entry, 2)
        BY <1>3, KindsDiffer
      <3>3. QED
        BY <1>3, <3>1, <3>2 DEF HasPayload
    <2>2. NamedAnswer(entry) = Answers(SafeGetIndex(entry, 2).text, class)
      BY <2>1 DEF NamedAnswer
    <2>3. QED
      BY <2>2 DEF Answers, ErrorOf
  <1>4. QED
    BY <1>2, <1>3

\* The errors the server answers with are read as their classes.
LEMMA Classes ==
  /\ ParseRPCError(Errors.quota) = "quota"
  /\ ParseRPCError(Errors.timeout) = "timeout"
  /\ ParseRPCError(Errors.other) = "rpc_error"
  /\ ParseRPCError(Null) = Empty
  <1> DEFINE detail == Array(<<String("PhotosWebImportDriveItemsFailure"),
                               Array(<<Number(1)>>)>>)
             Detail(error) == SafeGetIndex(SafeGetIndex(error, 2), 0)
             Read(error) ==
               IF error = Null THEN Empty
               ELSE IF \/ SafeGetIndex(error, 0) = Number(8)
                       \/ SafeGetIndex(SafeGetIndex(Detail(error), 1), 0) = Number(8)
                       \/ StringAt(Detail(error), 0)
                            = "PhotosWebImportDriveItemsFailure"
               THEN "quota"
               ELSE IF \/ SafeGetIndex(error, 0) = Number(13)
                       \/ SafeGetIndex(SafeGetIndex(Detail(error), 1), 0)
                            = Number(13)
               THEN "timeout"
               ELSE "rpc_error"
  <1>1. ASSUME NEW error
        PROVE  ParseRPCError(error) = Read(error)
    BY DEF ParseRPCError
  <1> HIDE DEF Read
  <1>2. /\ Errors.quota = Array(<<Number(8), Null, Array(<<detail>>)>>)
        /\ Errors.timeout = Array(<<Number(13)>>)
        /\ Errors.other = Array(<<Number(5), Null, Null>>)
    BY DEF Errors
  <1>3. /\ SafeGetIndex(Errors.quota, 0) = Number(8)
        /\ SafeGetIndex(Errors.timeout, 0) = Number(13)
        /\ SafeGetIndex(Errors.timeout, 2) = Null
        /\ SafeGetIndex(Errors.other, 0) = Number(5)
        /\ SafeGetIndex(Errors.other, 2) = Null
    BY <1>2 DEF SafeGetIndex, IsArray, Array
  <1>4. /\ Errors.quota # Null /\ Errors.timeout # Null /\ Errors.other # Null
    BY <1>2, KindsDiffer
  <1>5. /\ Number(5) # Number(8) /\ Number(13) # Number(8)
        /\ Number(5) # Number(13) /\ Null # Number(8) /\ Null # Number(13)
    BY KindsDiffer
  <1>6. ASSUME NEW error, SafeGetIndex(error, 2) = Null
        PROVE  /\ SafeGetIndex(SafeGetIndex(Detail(error), 1), 0) = Null
               /\ StringAt(Detail(error), 0) = Empty
    BY <1>6, Indexing DEF StringAt
  <1> HIDE DEF Detail
  <1>7. QED
    BY <1>1, <1>3, <1>4, <1>5, <1>6, NotEmpty DEF Read

\* A body with such an entry is read as the class.
LEMMA ErrorEntryIsRead ==
  ASSUME NEW rpc, NEW error, NEW class, NEW payload, NEW body,
         ParseRPCError(error) = class, class # "not_parsed",
         payload \in {Null, JSON(Array(<< >>))},
         body \in Bodies(Entry(rpc, payload, error))
  PROVE  ErrorOf(ParseBatchexecuteEnvelope(body, rpc)) = class
  <1> DEFINE entry == Entry(rpc, payload, error)
  <1>1. /\ IsArray(entry) /\ Len(entry.array) >= 3 /\ Names(entry, rpc)
        /\ SafeGetIndex(entry, 2) = payload /\ SafeGetIndex(entry, 5) = error
    BY EntryParts
  <1>2. body \in Bodies(entry)
    OBVIOUS
  <1> HIDE DEF entry
  <1>3. ErrorOf(NamedAnswer(entry)) = class
    BY <1>1, EntryError
  <1>4. Parsed(entry)
    BY <1>3 DEF Parsed
  <1>5. ParseBatchexecuteEnvelope(body, rpc) = NamedAnswer(entry)
    BY <1>1, <1>2, <1>4, BodyIsRead
  <1>6. QED
    BY <1>3, <1>5

\* The bodies of an error are read as its class.
LEMMA ErrorIsRead ==
  ASSUME NEW rpc, NEW class \in {"quota", "timeout", "rpc_error"},
         NEW body \in ErrorBodies(class, rpc)
  PROVE  ErrorOf(ParseBatchexecuteEnvelope(body, rpc)) = class
  <1>1. PICK error, payload :
          /\ ParseRPCError(error) = class
          /\ payload \in {Null, JSON(Array(<< >>))}
          /\ body \in Bodies(Entry(rpc, payload, error))
    <2>1. CASE class = "quota"
      BY <2>1, Classes DEF ErrorBodies
    <2>2. CASE class = "timeout"
      BY <2>2, Classes DEF ErrorBodies
    <2>3. CASE class = "rpc_error"
      BY <2>3, Classes DEF ErrorBodies
    <2>4. QED
      BY <2>1, <2>2, <2>3
  <1>2. class # "not_parsed"
    OBVIOUS
  <1>3. QED
    BY <1>1, <1>2, ErrorEntryIsRead

\* A page that is no answer is read as an error, unless it has the statistics.
LEMMA RefusalIsRead ==
  ASSUME NEW rpc, NEW body \in Refusals, ~Silent \/ body # <<Other, Statistics, End>>
  PROVE  ErrorOf(ParseBatchexecuteEnvelope(body, rpc)) # Empty
  <1>1. CASE body = <<Other>>
    <2>1. TargetLine(body, rpc) = Other
      BY <1>1 DEF TargetLine
    <2>2. QED
      BY <2>1, NotEmpty
      DEF ParseBatchexecuteEnvelope, Fails, Answers, ErrorOf
  <1>2. CASE body = <<Other, Cut(<<Array(<<String("wrb.fr")>>)>>)>>
    <2>1. PICK cut : cut = <<Array(<<String("wrb.fr")>>)>>
      OBVIOUS
    <2>2. \A j \in DOMAIN cut : ~Names(cut[j], rpc)
      <3>1. SafeGetIndex(Array(<<String("wrb.fr")>>), 1) = Null
        BY DEF SafeGetIndex, Array, IsArray
      <3>2. QED
        BY <2>1, <3>1, KindsDiffer DEF Names
    <2>3. body = <<Other, Cut(cut)>>
      BY <1>2, <2>1
    <2>4. /\ DOMAIN body \subseteq Nat /\ 2 \in DOMAIN body
          /\ body[2] = Cut(cut)
          /\ \A i \in DOMAIN body : body[i] \in {Other, Cut(cut)}
          /\ \A i \in DOMAIN body : i < 2 => body[i] = Other
      BY <2>3
    <2>5. TargetLine(body, rpc) = body[2]
      BY <2>2, <2>4, Lines, AnyLine
    <2>6. QED
      BY <2>4, <2>5, NotEmpty, Lines
      DEF ParseBatchexecuteEnvelope, Fails, Answers, ErrorOf
  <1>3. CASE body = <<End>>
    <2>1. PICK last : /\ End = Array(<<last>>) /\ IsArray(last)
                      /\ ~Names(last, rpc) /\ SafeGetIndex(last, 2) = Null
      BY LastLine
    <2>2. PICK entries : entries = <<last>>
      OBVIOUS
    <2>3. /\ \A j \in DOMAIN entries : ~Names(entries[j], rpc)
          /\ \A j \in DOMAIN entries : ~HasPayload(entries[j])
          /\ \A j \in DOMAIN entries : IsArray(entries[j])
      BY <2>1, <2>2, KindsDiffer DEF HasPayload
    <2>4. End = Array(entries)
      BY <2>1, <2>2
    <2>5. /\ DOMAIN body \subseteq Nat /\ 1 \in DOMAIN body
          /\ \A i \in DOMAIN body : body[i] = End /\ ~(i < 1)
      BY <1>3
    <2>6. TargetLine(body, rpc) = body[1]
      BY <2>3, <2>4, <2>5, Lines, AnyLine
    <2>7. FromEntries(entries, rpc) = Fails("not_found")
      BY <2>3 DEF FromEntries, Named
    <2>8. TargetLine(body, rpc) = Array(entries)
      BY <2>4, <2>5, <2>6
    <2>9. ParseBatchexecuteEnvelope(body, rpc) = FromEntries(entries, rpc)
      BY <2>3, <2>8, Lines DEF ParseBatchexecuteEnvelope
    <2>10. QED
      BY <2>7, <2>9, NotEmpty DEF Fails, Answers, ErrorOf
  <1>4. QED
    BY <1>1, <1>2, <1>3 DEF Refusals

\* The entry's payload has the link of a share.
HoldsLink(entry) ==
  /\ "text" \in DOMAIN SafeGetIndex(entry, 2)
  /\ StringAt(SafeGetIndex(entry, 2).text, 1) # Empty

\* Nothing that stands beside an entry in a body holds a link.
LEMMA NoLinkBeside ==
  ASSUME NEW entry, NEW body \in Bodies(entry), ~HoldsLink(entry)
  PROVE  ~HasLink(body)
  <1>1. PICK last : End = Array(<<last>>) /\ SafeGetIndex(last, 2) = Null
    BY LastLine
  <1>2. /\ ~HoldsLink(Timing) /\ ~HoldsLink(Request) /\ ~HoldsLink(last)
        /\ ~HoldsLink(Number(0))
    <2>1. StringAt(Number(7), 1) = Empty
      BY NoString
    <2>2. /\ SafeGetIndex(Timing, 2) = Null /\ SafeGetIndex(Number(0), 2) = Null
          /\ SafeGetIndex(Request, 2) = JSON(Number(7))
      BY OtherParts, Indexing
    <2>3. "text" \notin DOMAIN Null /\ JSON(Number(7)).text = Number(7)
      BY KindsDiffer
    <2>4. QED
      BY <1>1, <2>1, <2>2, <2>3 DEF HoldsLink
  <1>3. \A i \in DOMAIN body : body[i] # Other =>
          \A j \in DOMAIN EntriesOf(body[i]) : ~HoldsLink(EntriesOf(body[i])[j])
    <2>1. PICK s1, s2, s3, s4, s5 :
            /\ s1 = <<entry, Timing, Request>> /\ s2 = <<Timing, Request>>
            /\ s3 = <<entry>> /\ s4 = <<last>> /\ s5 = <<Number(0), entry>>
      OBVIOUS
    <2>2. /\ \A j \in DOMAIN s1 : ~HoldsLink(s1[j])
          /\ \A j \in DOMAIN s2 : ~HoldsLink(s2[j])
          /\ \A j \in DOMAIN s3 : ~HoldsLink(s3[j])
          /\ \A j \in DOMAIN s4 : ~HoldsLink(s4[j])
          /\ \A j \in DOMAIN s5 : ~HoldsLink(s5[j])
      BY <1>2, <2>1
    <2>3. /\ Statistics = Array(s2) /\ End = Array(s4)
      BY <1>1, <2>1 DEF Statistics
    <2>4. body \in {<<Other, Array(s1), Other, Array(s4)>>,
                    <<Other, Array(s2), Array(s3)>>,
                    <<Array(s4), Array(s3)>>, <<Other, Array(s5)>>}
      BY <2>1, <2>3 DEF Bodies
    <2>5. \A i \in DOMAIN body : body[i] \in
            {Other, Array(s1), Array(s2), Array(s3), Array(s4), Array(s5)}
      BY <2>4
    <2>6. \A s : EntriesOf(Array(s)) = s
      BY Lines
    <2>7. QED
      BY <2>2, <2>5, <2>6
  <1>4. QED
    BY <1>3 DEF HasLink, HoldsLink

\* An error has no link.
LEMMA ErrorHasNoLink ==
  ASSUME NEW rpc, NEW class, NEW body \in ErrorBodies(class, rpc)
  PROVE  ~HasLink(body)
  <1>1. ASSUME NEW payload \in {Null, JSON(Array(<< >>))}, NEW error,
               body \in Bodies(Entry(rpc, payload, error))
        PROVE  ~HasLink(body)
    <2> DEFINE entry == Entry(rpc, payload, error)
    <2>1. SafeGetIndex(entry, 2) = payload
      BY EntryParts
    <2>2. StringAt(Array(<< >>), 1) = Empty
      BY NoString
    <2> HIDE DEF entry
    <2>3. ~HoldsLink(entry)
      BY <2>1, <2>2, KindsDiffer DEF HoldsLink
    <2>4. QED
      BY <1>1, <2>3, NoLinkBeside DEF entry
  <1>2. QED
    BY <1>1 DEF ErrorBodies

\* Nor has a page that is no answer.
LEMMA RefusalHasNoLink ==
  ASSUME ~Silent, NEW body \in Refusals
  PROVE  ~HasLink(body)
  <1>1. PICK last : End = Array(<<last>>) /\ SafeGetIndex(last, 2) = Null
    BY LastLine
  <1>2. PICK s1, s2 : s1 = <<Array(<<String("wrb.fr")>>)>> /\ s2 = <<last>>
    OBVIOUS
  <1>3. SafeGetIndex(Array(<<String("wrb.fr")>>), 2) = Null
    BY DEF SafeGetIndex, Array, IsArray
  <1>4. \A s \in {s1, s2} :
          /\ \A j \in DOMAIN s : SafeGetIndex(s[j], 2) = Null
          /\ EntriesOf(Array(s)) = s /\ EntriesOf(Cut(s)) = s
    BY <1>1, <1>2, <1>3, Lines
  <1>5. body \in {<<Other>>, <<Other, Cut(s1)>>, <<Array(s2)>>}
    BY <1>1, <1>2 DEF Refusals
  <1>6. \A i \in DOMAIN body : body[i] \in {Other, Cut(s1), Array(s2)}
    BY <1>5
  <1>7. "text" \notin DOMAIN Null
    BY KindsDiffer
  <1>8. QED
    BY <1>4, <1>6, <1>7 DEF HasLink

-----------------------------------------------------------------------------
(* Errors.                                                                 *)

\* The RPCs and pages of an operation.
Steps == [import   |-> {"SusGud", "done"},
          cleanup  |-> {"SusGud", "XwAOJf", "e2FP6c", "done"},
          delete   |-> {"XwAOJf", "e2FP6c", "done"},
          list     |-> {"lcxiM", "done"},
          download |-> {"VrseUb", "page", "done"},
          share    |-> {"SFKp8c", "done"},
          quota    |-> {"quotamanagement", "main", "done"}]

\* An operation is at one of its own steps.
InStep(c) ==
  \/ c.op = "none" /\ c.rpc = "none"
  \/ c.op \in DOMAIN Steps /\ c.rpc \in Steps[c.op]

StepInv == DOMAIN call = {"op", "files", "rpc"} /\ InStep(call)

\* The server's error ends the operation.
ErrorInv ==
  /\ StepInv
  /\ call.rpc # "done" => said = Empty
  /\ ErrorIsReported

\* The operations of an RPC or page.
LEMMA OpsOfStep ==
  ASSUME NEW op \in DOMAIN Steps, NEW rpc \in Steps[op]
  PROVE  /\ rpc = "SusGud" => op \in {"import", "cleanup"}
         /\ rpc \in {"XwAOJf", "e2FP6c"} => op \in {"cleanup", "delete"}
         /\ rpc = "lcxiM" <=> op = "list" /\ rpc # "done"
         /\ rpc \in {"VrseUb", "page"} <=> op = "download" /\ rpc # "done"
         /\ rpc = "SFKp8c" <=> op = "share" /\ rpc # "done"
         /\ rpc \in {"quotamanagement", "main"} <=> op = "quota" /\ rpc # "done"
         /\ rpc # "none" /\ op # "none"
  <1>1. op \in {"import", "cleanup", "delete", "list", "download", "share",
                "quota"}
    BY DEF Steps
  <1>2. CASE op \in {"import", "cleanup"}
    BY <1>2 DEF Steps
  <1>3. CASE op \in {"delete", "list"}
    BY <1>3 DEF Steps
  <1>4. CASE op \in {"download", "share"}
    BY <1>4 DEF Steps
  <1>5. CASE op = "quota"
    BY <1>5 DEF Steps
  <1>6. QED
    BY <1>1, <1>2, <1>3, <1>4, <1>5

\* A step of a call leaves it its operation.
LEMMA CallGoesOn ==
  ASSUME StepInv, NEW rpc
  PROVE  /\ DOMAIN [call EXCEPT !.rpc = rpc] = {"op", "files", "rpc"}
         /\ [call EXCEPT !.rpc = rpc].op = call.op
         /\ [call EXCEPT !.rpc = rpc].rpc = rpc
         /\ [call EXCEPT !.rpc = rpc].files = call.files
         /\ \A keys :
              /\ DOMAIN [call EXCEPT !.rpc = rpc, !.files = keys]
                   = {"op", "files", "rpc"}
              /\ [call EXCEPT !.rpc = rpc, !.files = keys].op = call.op
              /\ [call EXCEPT !.rpc = rpc, !.files = keys].rpc = rpc
              /\ [call EXCEPT !.rpc = rpc, !.files = keys].files = keys
  BY DEF StepInv

\* What an operation makes of an answer is one of its steps, its last at an
\* error that counts.
LEMMA ProceedsInStep ==
  ASSUME StepInv, Sending, NEW answer, Proceeds(answer)
  PROVE  /\ DOMAIN call' = {"op", "files", "rpc"} /\ InStep(call')
         /\ call'.op = call.op
         /\ ~InCleanup /\ ErrorOf(answer) # Empty =>
              call'.rpc = "done" /\ report'.error = ErrorOf(answer)
  <1>1. ASSUME NEW rpc, call' = [call EXCEPT !.rpc = rpc],
               rpc \in Steps[call.op]
        PROVE  /\ DOMAIN call' = {"op", "files", "rpc"} /\ InStep(call')
               /\ call'.op = call.op /\ call'.rpc = rpc
    BY <1>1, CallGoesOn DEF InStep, StepInv, Sending, Steps
  <1>2. call.op \in DOMAIN Steps /\ call.rpc \in Steps[call.op]
    BY DEF StepInv, InStep, Sending
  <1>3. "done" \in Steps[call.op]
    BY <1>2 DEF Steps
  <1>4. CASE ErrorOf(answer) # Empty /\ ~InCleanup
    <2>1. Ends(ErrorOf(answer), Nothing)
      BY <1>4 DEF Proceeds, ErrorOf
    <2>2. /\ call' = [call EXCEPT !.rpc = "done"]
          /\ report' = [error |-> ErrorOf(answer), value |-> Nothing]
      BY <2>1 DEF Ends
    <2>3. report'.error = ErrorOf(answer)
      BY <2>2
    <2>4. QED
      BY <1>1, <1>3, <2>2, <2>3
  <1>5. CASE ~(ErrorOf(answer) # Empty /\ ~InCleanup)
    <2>1. CASE call.rpc = "SusGud"
      <3>1. PICK result : AfterImport(result)
        BY <1>5, <2>1 DEF Proceeds, ErrorOf
      <3>2. CASE call' = [call EXCEPT !.rpc = "done"]
        BY <1>1, <1>3, <1>5, <3>2
      <3>3. ASSUME NEW keys, call.op = "cleanup",
                   call' = [call EXCEPT !.rpc = "XwAOJf", !.files = keys]
            PROVE  DOMAIN call' = {"op", "files", "rpc"} /\ InStep(call')
                   /\ call'.op = call.op
        BY <3>3, CallGoesOn DEF InStep, Steps
      <3>4. QED
        BY <1>5, <3>1, <3>2, <3>3 DEF AfterImport
    <2>2. CASE call.rpc = "XwAOJf"
      <3>1. call' = [call EXCEPT !.rpc = "e2FP6c"]
        BY <1>5, <2>2 DEF Proceeds, ErrorOf, GoesOn
      <3>2. "e2FP6c" \in Steps[call.op]
        BY <1>2, <2>2 DEF Steps
      <3>3. QED
        BY <1>1, <1>5, <3>1, <3>2
    <2>3. CASE call.rpc = "e2FP6c"
      <3>1. call' = [call EXCEPT !.rpc = "done"]
        BY <1>5, <2>3 DEF Proceeds, ErrorOf, Ends
      <3>2. QED
        BY <1>1, <1>3, <1>5, <3>1
    <2>4. CASE call.rpc = "lcxiM"
      <3>1. call' = [call EXCEPT !.rpc = "done"]
        BY <1>5, <2>4 DEF Proceeds, ErrorOf, Ends
      <3>2. QED
        BY <1>1, <1>3, <1>5, <3>1
    <2>5. CASE call.rpc = "VrseUb"
      <3>1. PICK rpc \in {"page", "done"} : call' = [call EXCEPT !.rpc = rpc]
        BY <1>5, <2>5 DEF Proceeds, ErrorOf, Ends, GoesOn, AfterDownload
      <3>2. rpc \in Steps[call.op]
        BY <1>2, <2>5 DEF Steps
      <3>3. QED
        BY <1>1, <1>5, <3>1, <3>2
    <2>6. CASE call.rpc = "SFKp8c"
      <3>1. call' = [call EXCEPT !.rpc = "done"]
        BY <1>5, <2>6 DEF Proceeds, ErrorOf, Ends
      <3>2. QED
        BY <1>1, <1>3, <1>5, <3>1
    <2>7. call.rpc \in {"SusGud", "XwAOJf", "e2FP6c", "lcxiM", "VrseUb", "SFKp8c"}
      BY <1>2 DEF Sending, Steps
    <2>8. QED
      BY <2>1, <2>2, <2>3, <2>4, <2>5, <2>6, <2>7
  <1>6. QED
    BY <1>4, <1>5

\* What is read of an answer with an error, and of a page that is no answer: an
\* error, and its class but for a share.
LEMMA ErrorAnswers ==
  ASSUME StepInv, Sending
  PROVE  /\ \A class \in {"quota", "timeout", "rpc_error"} :
              \A body \in ErrorBodies(class, call.rpc) :
                /\ ErrorOf(ReadAnswer(body)) # Empty
                /\ call.op # "share" => ErrorOf(ReadAnswer(body)) = class
         /\ ~Silent => \A body \in Refusals : ErrorOf(ReadAnswer(body)) # Empty
  <1>1. call.rpc = "SFKp8c" => call.op = "share"
    <2>1. call.op \in DOMAIN Steps /\ call.rpc \in Steps[call.op]
      BY DEF StepInv, InStep, Sending
    <2>2. QED
      BY <2>1, OpsOfStep
  <1>2. ErrorOf(Fails("no_link")) = "no_link"
    BY DEF ErrorOf, Fails, Answers
  <1>3. ASSUME NEW class \in {"quota", "timeout", "rpc_error"},
               NEW body \in ErrorBodies(class, call.rpc)
        PROVE  /\ ErrorOf(ReadAnswer(body)) # Empty
               /\ call.op # "share" => ErrorOf(ReadAnswer(body)) = class
    BY <1>1, <1>2, NotEmpty, ErrorIsRead, ErrorHasNoLink DEF ReadAnswer
  <1>4. ASSUME ~Silent, NEW body \in Refusals
        PROVE  ErrorOf(ReadAnswer(body)) # Empty
    BY <1>2, <1>4, NotEmpty, RefusalIsRead, RefusalHasNoLink DEF ReadAnswer
  <1>5. QED
    BY <1>3, <1>4

\* A step of any actor leaves an operation at one of its own steps.
LEMMA StepInvStep ==
  ASSUME StepInv, [Next]_sessionVars
  PROVE  StepInv'
  <1>1. CASE UNCHANGED call
    BY <1>1 DEF StepInv, InStep
  <1>2. CASE TakeText \/ LoadCookies \/ UnmarshalBlob \/ GetGlobalData
             \/ GlobalDataFails \/ Export \/ CloseClient \/ Renew
    BY <1>1, <1>2 DEF TakeText, LoadCookies, UnmarshalBlob, GetGlobalData,
         GlobalDataFails, Export, CloseClient, Renew
  <1>3. CASE StartCall
    <2>1. PICK op \in DOMAIN RPCs : \E files :
            call' = [op |-> op, files |-> files, rpc |-> RPCs[op]]
      BY <1>3 DEF StartCall
    <2>2. op \in DOMAIN Steps /\ RPCs[op] \in Steps[op]
      BY <2>1 DEF RPCs, Steps
    <2>3. QED
      BY <2>1, <2>2 DEF StepInv, InStep
  <1>4. CASE Answered \/ AnsweredWithError \/ Refused \/ TransportFails
    <2>1. Sending /\ \E answer : Proceeds(answer)
      BY <1>4 DEF Answered, AnsweredWithError, Refused, TransportFails, Receives
    <2>2. QED
      BY <2>1, ProceedsInStep DEF StepInv
  <1>5. CASE ReadPhotoPage \/ ReadQuotaPage \/ QuotaPageFails
    <2>1. call.rpc \in {"page", "quotamanagement", "main"}
      BY <1>5 DEF ReadPhotoPage, ReadQuotaPage, QuotaPageFails
    <2>2. PICK rpc \in {"main", "done"} :
            /\ call' = [call EXCEPT !.rpc = rpc]
            /\ rpc = "main" => call.rpc = "quotamanagement"
      BY <1>5, <2>1 DEF ReadPhotoPage, ReadQuotaPage, QuotaPageFails, Ends,
           GoesOn
    <2>3. call.op \in DOMAIN Steps /\ rpc \in Steps[call.op]
      <3>1. call.op \in DOMAIN Steps /\ call.rpc \in Steps[call.op]
        BY <2>1 DEF StepInv, InStep
      <3>2. call.rpc = "quotamanagement" => call.op = "quota"
        BY <3>1, OpsOfStep
      <3>3. QED
        BY <2>2, <3>1, <3>2 DEF Steps
    <2>4. QED
      BY <2>2, <2>3, CallGoesOn DEF StepInv, InStep
  <1>6. CASE Finish
    BY <1>6 DEF Finish, StepInv, InStep, NoCall
  <1>7. QED
    BY <1>1, <1>2, <1>3, <1>4, <1>5, <1>6 DEF Next, sessionVars

\* No call has answered yet.
LEMMA ErrorInvInit ==
  ASSUME Init
  PROVE  ErrorInv
  BY DEF Init, ErrorInv, StepInv, InStep, ErrorIsReported, NoCall

\* A step reports the error the server answered it with.
LEMMA ErrorInvStep ==
  ASSUME ErrorInv, [Next]_sessionVars, ~Silent
  PROVE  ErrorInv'
  <1>1. StepInv /\ StepInv'
    BY StepInvStep DEF ErrorInv
  <1>2. CASE said' = Empty
    BY <1>1, <1>2 DEF ErrorInv, ErrorIsReported
  <1>3. CASE UNCHANGED <<call, report, said>>
    BY <1>1, <1>3 DEF ErrorInv, ErrorIsReported
  <1>4. CASE TakeText \/ LoadCookies \/ UnmarshalBlob \/ GetGlobalData
             \/ GlobalDataFails \/ Export \/ CloseClient \/ Renew
    BY <1>3, <1>4 DEF TakeText, LoadCookies, UnmarshalBlob, GetGlobalData,
         GlobalDataFails, Export, CloseClient, Renew
  <1>5. CASE StartCall \/ Answered \/ ReadPhotoPage \/ ReadQuotaPage
             \/ QuotaPageFails \/ Finish
    <2>1. said' = Empty
      BY <1>5 DEF StartCall, Answered, Sending, ReadPhotoPage, ReadQuotaPage,
           QuotaPageFails, Finish, ErrorInv, NoCall
    <2>2. QED
      BY <1>2, <2>1
  <1>6. CASE AnsweredWithError
    <2>1. Sending
      BY <1>6 DEF AnsweredWithError
    <2>2. PICK class \in {"quota", "timeout", "rpc_error"} :
            /\ said' = IF InCleanup THEN Empty ELSE class
            /\ Receives(ErrorBodies(class, call.rpc))
      BY <1>6 DEF AnsweredWithError
    <2>3. PICK body \in ErrorBodies(class, call.rpc) : Proceeds(ReadAnswer(body))
      BY <2>2 DEF Receives
    <2>4. /\ ErrorOf(ReadAnswer(body)) # Empty
          /\ call.op # "share" => ErrorOf(ReadAnswer(body)) = class
      BY <1>1, <2>1, ErrorAnswers
    <2>5. /\ call'.op = call.op
          /\ ~InCleanup => /\ call'.rpc = "done"
                           /\ report'.error = ErrorOf(ReadAnswer(body))
      BY <1>1, <2>1, <2>3, <2>4, ProceedsInStep
    <2>6. QED
      BY <1>1, <1>2, <2>2, <2>4, <2>5 DEF ErrorInv, ErrorIsReported
  <1>7. CASE Refused
    <2>1. Sending
      BY <1>7 DEF Refused
    <2>2. PICK body \in Refusals : Proceeds(ReadAnswer(body))
      BY <1>7 DEF Refused, Receives
    <2>3. ErrorOf(ReadAnswer(body)) # Empty
      BY <1>1, <2>1, ErrorAnswers
    <2>4. ~InCleanup => /\ call'.rpc = "done"
                        /\ report'.error = ErrorOf(ReadAnswer(body))
      BY <1>1, <2>1, <2>2, <2>3, ProceedsInStep
    <2>5. said' = IF InCleanup THEN Empty ELSE "refused"
      BY <1>7 DEF Refused
    <2>6. QED
      BY <1>1, <1>2, <2>3, <2>4, <2>5 DEF ErrorInv, ErrorIsReported
  <1>8. CASE TransportFails
    <2>1. Sending /\ Proceeds(Fails("transport"))
      BY <1>8 DEF TransportFails
    <2>2. ErrorOf(Fails("transport")) = "transport"
      BY DEF ErrorOf, Fails, Answers
    <2>3. ~InCleanup => call'.rpc = "done" /\ report'.error = "transport"
      BY <1>1, <2>1, <2>2, NotEmpty, ProceedsInStep
    <2>4. said' = IF InCleanup THEN Empty ELSE "transport"
      BY <1>8 DEF TransportFails
    <2>5. QED
      BY <1>1, <1>2, <2>3, <2>4, NotEmpty DEF ErrorInv, ErrorIsReported
  <1>9. QED
    BY <1>3, <1>4, <1>5, <1>6, <1>7, <1>8 DEF Next, sessionVars

\* Every error of an answer ends the operation with an error of its class, for
\* any files, cookies and storages, when the server names the RPC it refuses:
\* TLC's run refused_rpc shows that it must (parseBatchexecuteEnvelope,
\* parseRPCError).
THEOREM ErrorReported == ~Silent => (Spec => []ErrorIsReported)
  <1> SUFFICES ASSUME ~Silent
               PROVE  Spec => []ErrorIsReported
    OBVIOUS
  <1>1. Init => ErrorInv
    BY ErrorInvInit
  <1>2. ErrorInv /\ [Next]_sessionVars => ErrorInv'
    BY ErrorInvStep
  <1>3. ErrorInv => ErrorIsReported
    BY DEF ErrorInv
  <1>4. QED
    BY <1>1, <1>2, <1>3, PTL DEF Spec

-----------------------------------------------------------------------------
(* Payloads.                                                               *)

\* A payload without an error is read, the link of a share found.
LEMMA PayloadIsRead ==
  ASSUME NEW rpc, NEW v, v # Null, NEW body \in Bodies(Entry(rpc, JSON(v), Null))
  PROVE  ParseBatchexecuteEnvelope(body, rpc) = Answers(v, Empty)
  <1> DEFINE entry == Entry(rpc, JSON(v), Null)
  <1>1. /\ IsArray(entry) /\ Len(entry.array) >= 3 /\ Names(entry, rpc)
        /\ SafeGetIndex(entry, 2) = JSON(v) /\ SafeGetIndex(entry, 5) = Null
    BY EntryParts
  <1>2. body \in Bodies(entry)
    OBVIOUS
  <1> HIDE DEF entry
  <1>3. HasPayload(entry)
    BY <1>1, KindsDiffer DEF HasPayload
  <1>4. NamedAnswer(entry) = Answers(v, Empty)
    BY <1>1, <1>3, KindsDiffer, Classes DEF NamedAnswer
  <1>5. Parsed(entry)
    BY <1>4, NotEmpty DEF Parsed, ErrorOf, Answers
  <1>6. QED
    BY <1>1, <1>2, <1>4, <1>5, BodyIsRead

\* A finite set in some order: each element at one place.
LEMMA Ordered ==
  ASSUME NEW S, IsFiniteSet(S)
  PROVE  /\ SetToSeq(S) \in Bijection(1 .. Cardinality(S), S)
         /\ DOMAIN SetToSeq(S) = 1 .. Cardinality(S)
         /\ \A x \in S : \E i \in DOMAIN SetToSeq(S) : SetToSeq(S)[i] = x
         /\ \A i \in DOMAIN SetToSeq(S) : SetToSeq(S)[i] \in S
  <1> DEFINE D == 1 .. Cardinality(S)
  <1>1. PICK g : g \in [D -> S] /\ IsInjective(g)
    BY FS_CardinalityType DEF ExistsBijection, Bijection, Injection
  <1>2. SetToSeq(S) \in [D -> S] /\ IsInjective(SetToSeq(S))
    BY <1>1 DEF SetToSeq
  <1>3. IsFiniteSet(D) /\ Cardinality(D) = Cardinality(S)
    BY FS_CardinalityType, FS_Interval
  <1>4. SetToSeq(S) \in Injection(D, S)
    BY <1>2 DEF Injection
  <1>5. SetToSeq(S) \in Surjection(D, S)
    BY <1>3, <1>4, FS_Injection
  <1>6. QED
    BY <1>2, <1>4, <1>5 DEF Bijection, Surjection

\* A list of the library is read as the keys of the files in it.
LEMMA ListIsRead ==
  ASSUME IsFiniteSet(library), Empty \notin library
  PROVE  ListPayload # Null /\ ListedKeys(ListPayload).keys = library
  <1> DEFINE order == SetToSeq(library)
             items == [i \in DOMAIN order |->
               Array(<<String(order[i]), Null, Null, String(order[i])>>)]
             Keys(v) == LET first == SafeGetIndex(v, 0)
                            list  == IF IsArray(first) THEN first.array ELSE <<>>
                        IN {StringAt(list[i], 3) : i \in DOMAIN list} \ {Empty}
  <1>1. ASSUME NEW v PROVE ListedKeys(v).keys = Keys(v)
    BY DEF ListedKeys
  <1>2. CASE library = {}
    <2>1. ListPayload = Array(<<Null>>)
      BY <1>2 DEF ListPayload
    <2>2. SafeGetIndex(Array(<<Null>>), 0) = Null
      BY DEF SafeGetIndex, Array, IsArray
    <2>3. Keys(Array(<<Null>>)) = {}
      BY <2>2, KindsDiffer
    <2>4. QED
      BY <1>1, <1>2, <2>1, <2>3, KindsDiffer
  <1>3. CASE library # {}
    <2>1. ListPayload = Array(<<Array(items)>>)
      BY <1>3 DEF ListPayload
    <2>2. SafeGetIndex(Array(<<Array(items)>>), 0) = Array(items)
      BY DEF SafeGetIndex, Array, IsArray
    <2>3. ASSUME NEW f
          PROVE  StringAt(Array(<<String(f), Null, Null, String(f)>>), 3) = f
      <3>1. SafeGetIndex(Array(<<String(f), Null, Null, String(f)>>), 3)
              = String(f)
        BY DEF SafeGetIndex, Array, IsArray
      <3>2. QED
        BY <3>1, Indexing DEF StringAt
    <2>4. \A i \in DOMAIN items : StringAt(items[i], 3) = order[i]
      BY <2>3
    <2>5. /\ DOMAIN items = DOMAIN order
          /\ \A x \in library : \E i \in DOMAIN order : order[i] = x
          /\ \A i \in DOMAIN order : order[i] \in library
      BY Ordered
    <2> HIDE DEF items, order
    <2>6. {StringAt(items[i], 3) : i \in DOMAIN items} = library
      BY <2>4, <2>5
    <2>7. Keys(Array(<<Array(items)>>)) = library
      BY <2>2, <2>6, KindsDiffer
    <2>8. QED
      BY <1>1, <2>1, <2>7, KindsDiffer
  <1>4. QED
    BY <1>2, <1>3

\* The download of a file is read as its URL, wherever it stands, and its key.
LEMMA DownloadIsRead ==
  ASSUME NEW f, f # Empty, NEW d \in Downloads(f)
  PROVE  d.payload # Null /\ ReadDownload(d.payload) = [url |-> d.url, dedupKey |-> f]
  <1> DEFINE item == Array(<<String(f), Null, Null, String(f)>>)
             url  == String("url")
             Read(v) == [url |-> IF StringAt(v, 1) # Empty THEN StringAt(v, 1)
                                 ELSE StringAt(v, 7),
                         dedupKey |-> StringAt(SafeGetIndex(v, 0), 3)]
             p1 == Array(<<item, url>>)
             p2 == Array(<<item, Null, Null, Null, Null, Null, Null, url>>)
             p3 == Array(<<p1>>)
             p4 == Array(<<item>>)
  <1>1. ASSUME NEW v
        PROVE  ReadDownload(v) = IF Read(v) # [url |-> Empty, dedupKey |-> Empty]
                                 THEN Read(v) ELSE Read(SafeGetIndex(v, 0))
    BY DEF ReadDownload
  <1>2. StringAt(item, 3) = f
    <2>1. SafeGetIndex(item, 3) = String(f)
      BY DEF SafeGetIndex, Array, IsArray
    <2>2. QED
      BY <2>1, Indexing DEF StringAt
  <1>3. ASSUME NEW s, NEW i
        PROVE  StringAt(Array(s), i) = IF i + 1 \in DOMAIN s
                                       THEN AsString(s[i + 1]) ELSE Empty
    <2>1. AsString(Null) = Empty
      BY DEF AsString, Null
    <2>2. QED
      BY <2>1, Indexing DEF StringAt
  <1>4. /\ SafeGetIndex(p1, 0) = item /\ SafeGetIndex(p2, 0) = item
        /\ SafeGetIndex(p3, 0) = p1 /\ SafeGetIndex(p4, 0) = item
    BY Indexing
  <1>5. AsString(url) = "url" /\ AsString(Null) = Empty /\ "url" # Empty
    BY Indexing, NotEmpty
  <1>6. \A s : AsString(Array(s)) = Empty /\ Null # Array(s)
    BY Indexing, KindsDiffer
  <1> HIDE DEF item, url
  <1>7. /\ StringAt(p1, 1) = "url" /\ StringAt(p1, 3) = Empty
    BY <1>3, <1>5
  <1>8. /\ StringAt(p2, 1) = Empty /\ StringAt(p2, 7) = "url"
    BY <1>3, <1>5
  <1>9. /\ StringAt(p3, 1) = Empty /\ StringAt(p3, 7) = Empty
        /\ StringAt(p4, 1) = Empty /\ StringAt(p4, 7) = Empty
    BY <1>3
  <1>10. p1 # Null /\ p2 # Null /\ p3 # Null /\ p4 # Null
    BY <1>6
  <1> HIDE DEF p1, p2, p3, p4
  <1>11. /\ Read(p1) = [url |-> "url", dedupKey |-> f]
         /\ Read(p2) = [url |-> "url", dedupKey |-> f]
         /\ Read(p3) = [url |-> Empty, dedupKey |-> Empty]
         /\ Read(p4) = [url |-> Empty, dedupKey |-> f]
    BY <1>2, <1>4, <1>5, <1>7, <1>8, <1>9
  <1>12. /\ ReadDownload(p1) = [url |-> "url", dedupKey |-> f]
         /\ ReadDownload(p2) = [url |-> "url", dedupKey |-> f]
         /\ ReadDownload(p3) = [url |-> "url", dedupKey |-> f]
         /\ ReadDownload(p4) = [url |-> Empty, dedupKey |-> f]
    <2> HIDE DEF Read
    <2>1. /\ [url |-> "url", dedupKey |-> f] # [url |-> Empty, dedupKey |-> Empty]
          /\ [url |-> Empty, dedupKey |-> f] # [url |-> Empty, dedupKey |-> Empty]
      BY <1>5
    <2>2. QED
      BY <1>1, <1>4, <1>11, <2>1
  <1>13. d \in {[url |-> "url", payload |-> p1], [url |-> "url", payload |-> p2],
                [url |-> "url", payload |-> p3], [url |-> Empty, payload |-> p4]}
    BY DEF Downloads, item, url, p1, p2, p3, p4
  <1>14. QED
    BY <1>10, <1>12, <1>13

\* What is read of an item of an import.
LEMMA ItemIsRead ==
  ASSUME NEW f, NEW end,
         end \in {"imported", "keyless", "processing", "rejected"}
  PROVE  LET item == Item(f, end)
             meta == SafeGetIndex(item, 1)
         IN /\ IsArray(item) /\ item.array # << >>
            /\ StringAt(item, 0) = f
            /\ StringAt(meta, 0)
                 = IF end \in {"imported", "processing"} THEN f ELSE Empty
            /\ StringAt(meta, 3)
                 = IF end \in {"imported", "processing"} THEN f ELSE Empty
            /\ AsNumber(SafeGetIndex(item, 2)) = 0
                 <=> end \in {"imported", "keyless"}
  <1> DEFINE full   == Array(<<String(f), Array(<<String("url"), Number(1)>>),
                               Null, String(f)>>)
             meta   == IF end \in {"imported", "processing"} THEN full ELSE Null
             number == IF end = "processing" THEN 1
                       ELSE IF end = "rejected" THEN 3 ELSE 0
             s      == <<String(f), meta, Number(number)>>
  <1>1. Item(f, end) = Array(s)
    BY DEF Item
  <1>2. /\ SafeGetIndex(Array(s), 0) = String(f)
        /\ SafeGetIndex(Array(s), 1) = meta
        /\ SafeGetIndex(Array(s), 2) = Number(number)
        /\ s # << >>
    <2> HIDE DEF meta, number
    <2>1. /\ DOMAIN s = 1 .. 3
          /\ s[1] = String(f) /\ s[2] = meta /\ s[3] = Number(number)
      OBVIOUS
    <2> HIDE DEF s
    <2>2. QED
      BY <2>1, Indexing
  <1>3. /\ SafeGetIndex(full, 0) = String(f) /\ SafeGetIndex(full, 3) = String(f)
    <2> DEFINE u == Array(<<String("url"), Number(1)>>)
               t == <<String(f), u, Null, String(f)>>
    <2> HIDE DEF u
    <2>1. DOMAIN t = 1 .. 4 /\ t[1] = String(f) /\ t[4] = String(f)
      OBVIOUS
    <2>2. full = Array(t)
      BY DEF u
    <2> HIDE DEF t, full
    <2>3. QED
      BY <2>1, <2>2, Indexing
  <1>4. IsArray(Array(s)) /\ Array(s).array = s
    BY KindsDiffer
  <1>5. AsString(String(f)) = f /\ AsNumber(Number(number)) = number
    BY Indexing DEF AsNumber, IsNumber, Number
  <1>6. StringAt(Null, 0) = Empty /\ StringAt(Null, 3) = Empty
    BY NoString
  <1>7. number = 0 <=> end \in {"imported", "keyless"}
    OBVIOUS
  <1> HIDE DEF full, number, s
  <1>8. QED
    BY <1>1, <1>2, <1>3, <1>4, <1>5, <1>6, <1>7 DEF StringAt

\* The files an import has, by name and by key: an import with cleanup goes on
\* with the keys.
SucceededOf(result) ==
  LET done == {result.items[i] : i \in DOMAIN result.items}
  IN {item \in done : Succeeded(item)}
KeysOf(result) == {item.dedupKey : item \in SucceededOf(result)}
FilesOf(result) == {item.file : item \in SucceededOf(result)}

\* What becomes of the files of an import, and which are imported.
Fates == {"imported", "keyless", "processing", "rejected"}
Imported(files, end) == {f \in files : end[f] = "imported"}

\* The result of an import says of every file whether it was imported.
LEMMA ImportIsRead ==
  ASSUME NEW files, IsFiniteSet(files), Empty \notin files,
         NEW end \in [files -> Fates]
  PROVE  /\ ImportPayload(files, end) # Null
         /\ FilesOf(BatchResult(ImportPayload(files, end))) = Imported(files, end)
         /\ KeysOf(BatchResult(ImportPayload(files, end))) = Imported(files, end)
         /\ BatchResult(ImportPayload(files, end)).failed
              = Cardinality(files \ Imported(files, end))
  <1> DEFINE result == BatchResult(ImportPayload(files, end))
             imported == {f \in files : end[f] = "imported"}
             order == SetToSeq(files)
             list  == [i \in DOMAIN order |-> Item(order[i], end[order[i]])]
             v     == ImportPayload(files, end)
             items == ImportItems(v)
             succeeded == {i \in DOMAIN items : Succeeded(items[i])}
  <1>1. /\ order \in Bijection(1 .. Cardinality(files), files)
        /\ DOMAIN order = 1 .. Cardinality(files)
        /\ \A x \in files : \E i \in DOMAIN order : order[i] = x
        /\ \A i \in DOMAIN order : order[i] \in files
    BY Ordered
  <1>2. v = Array(<<Array(list)>>)
    BY DEF ImportPayload
  <1> HIDE DEF v
  <1>3. SafeGetIndex(v, 0) = Array(list) /\ v # Null
    <2> HIDE DEF list
    <2>1. QED
      BY <1>2, Indexing, KindsDiffer
  <1>4. /\ DOMAIN items = DOMAIN order
        /\ \A i \in DOMAIN order :
             items[i] = [file     |-> StringAt(list[i], 0),
                         status   |-> AsNumber(SafeGetIndex(list[i], 2)),
                         mediaKey |-> StringAt(SafeGetIndex(list[i], 1), 0),
                         dedupKey |-> StringAt(SafeGetIndex(list[i], 1), 3),
                         url      |-> StringAt(SafeGetIndex(
                                        SafeGetIndex(list[i], 1), 1), 0)]
    <2> DEFINE places == {i \in DOMAIN list : IsArray(list[i])
                                              /\ list[i].array # <<>>}
    <2>1. /\ DOMAIN list = DOMAIN order
          /\ \A i \in DOMAIN list : IsArray(list[i]) /\ list[i].array # <<>>
      BY <1>1, ItemIsRead DEF Fates
    <2>2. places = DOMAIN order
      BY <2>1
    <2> HIDE DEF list
    <2>3. IsArray(Array(list)) /\ Array(list).array = list
      BY KindsDiffer
    <2>4. QED
      BY <1>3, <2>2, <2>3 DEF ImportItems
  <1>5. \A i \in DOMAIN order :
          /\ items[i].file = order[i]
          /\ Succeeded(items[i]) <=> order[i] \in imported
          /\ Succeeded(items[i]) => items[i].dedupKey = order[i]
    <2>1. SUFFICES ASSUME NEW i \in DOMAIN order
                   PROVE  /\ items[i].file = order[i]
                          /\ Succeeded(items[i]) <=> order[i] \in imported
                          /\ Succeeded(items[i]) => items[i].dedupKey = order[i]
      OBVIOUS
    <2>2. order[i] \in files /\ order[i] # Empty
      BY <1>1
    <2>3. list[i] = Item(order[i], end[order[i]])
      OBVIOUS
    <2>4. end[order[i]] \in {"imported", "keyless", "processing", "rejected"}
      BY <2>2 DEF Fates
    <2> HIDE DEF list, items, order
    <2>5. /\ items[i].file = StringAt(list[i], 0)
          /\ items[i].status = AsNumber(SafeGetIndex(list[i], 2))
          /\ items[i].mediaKey = StringAt(SafeGetIndex(list[i], 1), 0)
          /\ items[i].dedupKey = StringAt(SafeGetIndex(list[i], 1), 3)
      BY <1>4
    <2>6. order[i] \in imported <=> end[order[i]] = "imported"
      BY <2>2
    <2>7. QED
      BY <2>2, <2>3, <2>4, <2>5, <2>6, ItemIsRead DEF Succeeded
  <1>6. /\ result.items = items
        /\ result.failed = Cardinality(DOMAIN items \ succeeded)
    BY DEF BatchResult, v
  <1> HIDE DEF items, list, result
  <1>7. FilesOf(result) = imported
    BY <1>1, <1>4, <1>5, <1>6 DEF FilesOf, SucceededOf
  <1>8. KeysOf(result) = imported
    BY <1>1, <1>4, <1>5, <1>6 DEF KeysOf, SucceededOf
  <1>9. Cardinality(DOMAIN items \ succeeded) = Cardinality(files \ imported)
    <2> DEFINE P == DOMAIN items \ succeeded
               g == [i \in P |-> order[i]]
    <2>1. P \subseteq 1 .. Cardinality(files)
      BY <1>1, <1>4
    <2>2. IsFiniteSet(P)
      <3>1. IsFiniteSet(1 .. Cardinality(files))
        BY FS_CardinalityType, FS_Interval
      <3> HIDE DEF P
      <3>2. QED
        BY <2>1, <3>1, FS_Subset
    <2>3. \A i \in P : order[i] \in files \ imported
      BY <1>1, <1>4, <1>5
    <2>4. \A x \in files \ imported : \E i \in P : order[i] = x
      BY <1>1, <1>4, <1>5
    <2>5. \A i, j \in P : order[i] = order[j] => i = j
      BY <1>1, <2>1 DEF Bijection, Injection, IsInjective
    <2> HIDE DEF P, order
    <2>6. g \in Bijection(P, files \ imported)
      BY <2>3, <2>4, <2>5 DEF Bijection, Injection, Surjection, IsInjective
    <2>7. ExistsBijection(P, files \ imported)
      BY <2>6 DEF ExistsBijection
    <2>8. QED
      BY <2>2, <2>7, FS_Bijection DEF P
  <1>10. QED
    BY <1>3, <1>6, <1>7, <1>8, <1>9 DEF v, result, Imported

\* A storage page that is read at all is read as what it shows.
LEMMA QuotaIsRead ==
  ASSUME NEW storage \in Storages, NEW shown \in QuotaPages(storage),
         ParseStorageQuotaHTML(shown.page) # None
  PROVE  ParseStorageQuotaHTML(shown.page) = shown.quota
  <1> DEFINE U == ParseSizeToBytes(storage.used)
             T == ParseSizeToBytes(storage.total)
             R == Round(1000 * U, T)
  <1>1. U \in Nat /\ T \in Nat /\ T > 0
    <2>1. /\ storage.used \in Size /\ storage.total \in Size
          /\ storage.total.tenths > 0
      BY SessionAssumption
    <2>2. ASSUME NEW size \in Size
          PROVE  /\ ParseSizeToBytes(size) \in Nat
                 /\ size.tenths > 0 => ParseSizeToBytes(size) > 0
      <3>1. size.tenths \in Nat /\ size.unit \in {"MB", "GB", "TB"}
        BY DEF Size
      <3>2. CASE size.unit = "MB"
        BY <3>1, <3>2 DEF ParseSizeToBytes
      <3>3. CASE size.unit = "GB"
        BY <3>1, <3>3 DEF ParseSizeToBytes
      <3>4. CASE size.unit = "TB"
        BY <3>1, <3>4 DEF ParseSizeToBytes
      <3>5. QED
        BY <3>1, <3>2, <3>3, <3>4
    <2>3. QED
      BY <2>1, <2>2
  <1> HIDE DEF U, T
  <1>2. R \in Int
    <2>1. 2 * (1000 * U) + T \in Int /\ 2 * T \in Nat \ {0}
      BY <1>1
    <2>2. \A n \in Int, d \in Nat \ {0} : n \div d \in Int
      OBVIOUS
    <2>3. QED
      BY <2>1, <2>2 DEF Round
  <1> HIDE DEF R
  <1>3. PICK p :
          /\ p.text \in {None, storage}
          /\ p.usedBar \in {None, [width |-> R]}
          /\ p.freeBar \in {None, [width |-> 1000 - R]}
          /\ shown.page = p
          /\ shown.quota =
               [used |-> IF p.text = None THEN 0 ELSE U,
                total |-> IF p.text = None THEN 0 ELSE T,
                usedPercent |-> R, freePercent |-> 1000 - R]
    BY DEF QuotaPages, R, U, T
  <1>4. storage # None /\ [width |-> R] # None /\ [width |-> 1000 - R] # None
    <2>1. "used" \in DOMAIN storage /\ "used" \notin DOMAIN None
      BY SessionAssumption DEF None
    <2>2. "width" \notin DOMAIN None
      BY DEF None
    <2>3. \A w : "width" \in DOMAIN [width |-> w]
      OBVIOUS
    <2>4. QED
      BY <2>1, <2>2, <2>3
  <1> DEFINE used  == IF p.text = None THEN 0 ELSE U
             total == IF p.text = None THEN 0 ELSE T
             bar   == IF p.usedBar = None THEN 0 ELSE p.usedBar.width
             free  == IF p.freeBar = None THEN 0 ELSE p.freeBar.width
             percent == IF bar > 0 THEN bar
                        ELSE IF free > 0 THEN 1000 - free
                        ELSE IF total > 0 THEN Round(1000 * used, total) ELSE 0
  <1>5. ParseStorageQuotaHTML(p) =
          IF p.text = None /\ percent = 0 THEN None
          ELSE [used |-> used, total |-> total, usedPercent |-> percent,
                freePercent |-> IF free > 0 THEN free ELSE 1000 - percent]
    <2>1. p.text # None => p.text = storage
      BY <1>3
    <2>2. QED
      BY <2>1 DEF ParseStorageQuotaHTML, U, T
  <1>6. p.text # None => Round(1000 * used, total) = R /\ total > 0
    BY <1>1 DEF R
  <1>7. bar \in {0, R} /\ free \in {0, 1000 - R}
    <2>1. \A w : [width |-> w].width = w
      OBVIOUS
    <2>2. QED
      BY <1>3, <2>1
  <1> HIDE DEF used, bar, free
  <1>8. p.text = None => total = 0
    OBVIOUS
  <1> HIDE DEF total
  <1>9. ~(p.text = None /\ percent = 0)
    BY <1>3, <1>5
  <1>10. percent = R
    BY <1>2, <1>6, <1>7, <1>8, <1>9
  <1>11. (IF free > 0 THEN free ELSE 1000 - percent) = 1000 - R
    BY <1>2, <1>7, <1>10
  <1>12. QED
    BY <1>3, <1>5, <1>9, <1>10, <1>11 DEF used, total

-----------------------------------------------------------------------------
(* The files of the library, the trash and a call.                         *)

FilesInv ==
  /\ StepInv
  /\ library \subseteq Files /\ trash \subseteq Files
  /\ library \cap trash = {}
  /\ call.files \subseteq Files

\* A page that is no answer to an RPC of the library is read as an error or, if
\* it has no entry of the RPC, as a number.
LEMMA SilenceIsRead ==
  ASSUME NEW rpc, NEW body \in Refusals
  PROVE  \/ ErrorOf(ParseBatchexecuteEnvelope(body, rpc)) # Empty
         \/ ParseBatchexecuteEnvelope(body, rpc) = Answers(Number(7), Empty)
  <1>1. CASE body = <<Other, Statistics, End>>
    <2>1. PICK last : End = Array(<<last>>) /\ ~Names(last, rpc)
      BY LastLine
    <2>2. PICK s1, s2 : s1 = <<Timing, Request>> /\ s2 = <<last>>
      OBVIOUS
    <2>3. /\ \A j \in DOMAIN s1 : ~Names(s1[j], rpc) /\ IsArray(s1[j])
          /\ \A j \in DOMAIN s2 : ~Names(s2[j], rpc)
      BY <2>1, <2>2, OtherParts
    <2>4. body = <<Other, Array(s1), Array(s2)>>
      BY <1>1, <2>1, <2>2 DEF Statistics
    <2>5. /\ DOMAIN body \subseteq Nat /\ 2 \in DOMAIN body
          /\ body[2] = Array(s1)
          /\ \A i \in DOMAIN body : body[i] \in {Other, Array(s1), Array(s2)}
          /\ \A i \in DOMAIN body : i < 2 => body[i] = Other
      BY <2>4
    <2>6. TargetLine(body, rpc) = Array(s1)
      BY <2>3, <2>5, Lines, AnyLine
    <2>7. ParseBatchexecuteEnvelope(body, rpc) = FromEntries(s1, rpc)
      BY <2>3, <2>6, Lines DEF ParseBatchexecuteEnvelope
    <2>8. /\ DOMAIN s1 = {1, 2} /\ s1[1] = Timing /\ s1[2] = Request
      BY <2>2
    <2>9. ~HasPayload(Timing) /\ HasPayload(Request)
      BY OtherParts, KindsDiffer DEF HasPayload
    <2>10. {i \in DOMAIN s1 : HasPayload(s1[i])} = {2}
      BY <2>8, <2>9
    <2>11. Min({2}) = 2
      BY FirstPlace
    <2>12. Named(s1, rpc) = {}
      BY <2>3 DEF Named
    <2>13. FromEntries(s1, rpc) = Answers(SafeGetIndex(s1[2], 2).text, Empty)
      BY <2>10, <2>11, <2>12 DEF FromEntries
    <2>14. SafeGetIndex(s1[2], 2).text = Number(7)
      BY <2>8, OtherParts, KindsDiffer
    <2>15. QED
      BY <2>7, <2>13, <2>14
  <1>2. CASE body # <<Other, Statistics, End>>
    BY <1>2, RefusalIsRead DEF Refusals
  <1>3. QED
    BY <1>1, <1>2

\* Nothing is imported by a number.
LEMMA NumberImportsNothing == KeysOf(BatchResult(Number(7))) = {}
  <1>1. SafeGetIndex(Number(7), 0) = Null
    BY Indexing
  <1>2. ~IsArray(Null) /\ ~IsArray(Number(7))
    BY KindsDiffer
  <1>3. DOMAIN ImportItems(Number(7)) = {}
    BY <1>1, <1>2 DEF ImportItems
  <1>4. QED
    BY <1>3 DEF KeysOf, SucceededOf, BatchResult

\* An import says of each file how it ended.
LEMMA ImportOutcomes ==
  ASSUME NEW files, NEW o \in Outcomes("SusGud", files)
  PROVE  \E end \in [files -> Fates] :
           /\ o.library = library \cup Imported(files, end)
           /\ o.trash = trash \ Imported(files, end)
           /\ o.payload = JSON(ImportPayload(files, end))
           /\ o.meant = [imported |-> Imported(files, end),
                         failed |-> Cardinality(files \ Imported(files, end))]
  <1> DEFINE Result(end) ==
               [library |-> library \cup Imported(files, end),
                trash |-> trash \ Imported(files, end),
                payload |-> JSON(ImportPayload(files, end)),
                meant |-> [imported |-> Imported(files, end),
                           failed |-> Cardinality(files \ Imported(files, end))]]
  <1>1. Outcomes("SusGud", files) = {Result(end) : end \in [files -> Fates]}
    BY DEF Outcomes, Imported, Fates
  <1>2. PICK end \in [files -> Fates] : o = Result(end)
    BY <1>1
  <1>3. QED
    BY <1>2

\* The answer to an import is read as what became of its files.
LEMMA ImportAnswered ==
  ASSUME FilesInv, call.rpc = "SusGud", NEW o \in Outcomes(call.rpc, call.files),
         NEW body \in Bodies(Entry(call.rpc, o.payload, Null))
  PROVE  \E v : /\ ReadAnswer(body) = Answers(v, Empty)
                /\ o.meant = [imported |-> FilesOf(BatchResult(v)),
                              failed |-> BatchResult(v).failed]
                /\ KeysOf(BatchResult(v)) \subseteq Files
  <1>1. PICK end \in [call.files -> Fates] :
          /\ o.library = library \cup Imported(call.files, end)
          /\ o.trash = trash \ Imported(call.files, end)
          /\ o.payload = JSON(ImportPayload(call.files, end))
          /\ o.meant = [imported |-> Imported(call.files, end),
                        failed |-> Cardinality(call.files
                                         \ Imported(call.files, end))]
    <2>1. o \in Outcomes("SusGud", call.files)
      OBVIOUS
    <2>2. QED
      BY <2>1, ImportOutcomes
  <1>2. IsFiniteSet(call.files) /\ Empty \notin call.files
    BY SessionAssumption, FS_Subset DEF FilesInv
  <1>3. PICK v : v = ImportPayload(call.files, end)
    OBVIOUS
  <1>4. /\ v # Null
        /\ FilesOf(BatchResult(v)) = Imported(call.files, end)
        /\ KeysOf(BatchResult(v)) = Imported(call.files, end)
        /\ BatchResult(v).failed
             = Cardinality(call.files \ Imported(call.files, end))
    BY <1>2, <1>3, ImportIsRead
  <1>5. ReadAnswer(body) = Answers(v, Empty)
    BY <1>1, <1>3, <1>4, PayloadIsRead DEF ReadAnswer
  <1>6. Imported(call.files, end) \subseteq Files
    BY DEF Imported, FilesInv
  <1>7. QED
    BY <1>1, <1>4, <1>5, <1>6

\* The files of a call stay files when the keys it goes on with are.
LEMMA ProceedsWithFiles ==
  ASSUME StepInv, Sending, call.files \subseteq Files,
         NEW answer, Proceeds(answer),
         call.rpc = "SusGud" =>
           ErrorOf(answer) # Empty \/ KeysOf(BatchResult(answer.value)) \subseteq Files
  PROVE  call'.files \subseteq Files
  <1>1. \A rpc : call' = [call EXCEPT !.rpc = rpc] => call'.files \subseteq Files
    BY CallGoesOn
  <1>2. CASE ErrorOf(answer) # Empty /\ ~InCleanup
    BY <1>1, <1>2 DEF Proceeds, Ends, ErrorOf
  <1>3. CASE ~(ErrorOf(answer) # Empty /\ ~InCleanup) /\ call.rpc = "SusGud"
    <2>1. AfterImport(BatchResult(answer.value))
      BY <1>3 DEF Proceeds, ErrorOf
    <2>2. ErrorOf(answer) = Empty
      BY <1>3 DEF InCleanup
    <2>3. PICK keys : keys = KeysOf(BatchResult(answer.value)) \ {Empty}
      OBVIOUS
    <2>4. \/ call' = [call EXCEPT !.rpc = "done"]
          \/ call' = [call EXCEPT !.rpc = "XwAOJf", !.files = keys]
      BY <2>1, <2>3 DEF AfterImport, KeysOf, SucceededOf
    <2>5. keys \subseteq Files
      BY <1>3, <2>2, <2>3
    <2>6. QED
      BY <1>1, <2>4, <2>5, CallGoesOn
  <1>4. CASE ~(ErrorOf(answer) # Empty /\ ~InCleanup) /\ call.rpc # "SusGud"
    <2>1. call.rpc \in {"XwAOJf", "e2FP6c", "lcxiM", "VrseUb", "SFKp8c"}
      <3>1. call.op \in DOMAIN Steps /\ call.rpc \in Steps[call.op]
        BY DEF StepInv, InStep, Sending
      <3>2. QED
        BY <1>4, <3>1 DEF Sending, Steps
    <2>2. \E rpc : call' = [call EXCEPT !.rpc = rpc]
      BY <1>4, <2>1 DEF Proceeds, ErrorOf, GoesOn, Ends, AfterDownload
    <2>3. QED
      BY <1>1, <2>2
  <1>5. QED
    BY <1>2, <1>3, <1>4

\* What an RPC may do keeps the files apart.
LEMMA OutcomeFiles ==
  ASSUME FilesInv, Sending, NEW o \in Outcomes(call.rpc, call.files)
  PROVE  /\ o.library \subseteq Files /\ o.trash \subseteq Files
         /\ o.library \cap o.trash = {}
  <1>1. CASE call.rpc = "SusGud"
    <2>1. o \in Outcomes("SusGud", call.files)
      BY <1>1
    <2>2. PICK end \in [call.files -> Fates] :
            /\ o.library = library \cup Imported(call.files, end)
            /\ o.trash = trash \ Imported(call.files, end)
      BY <2>1, ImportOutcomes
    <2>3. Imported(call.files, end) \subseteq call.files
      BY DEF Imported
    <2>4. QED
      BY <2>2, <2>3 DEF FilesInv
  <1>2. CASE call.rpc = "XwAOJf"
    <2>1. /\ o.library = library \ call.files
          /\ o.trash = trash \cup (call.files \cap library)
      BY <1>2 DEF Outcomes
    <2>2. QED
      BY <2>1 DEF FilesInv
  <1>3. CASE call.rpc \in {"e2FP6c", "lcxiM", "VrseUb", "SFKp8c"}
    <2>1. o.library = library /\ o.trash \in {trash, {}}
      BY <1>3 DEF Outcomes
    <2>2. QED
      BY <2>1 DEF FilesInv
  <1>4. call.rpc \in {"SusGud", "XwAOJf", "e2FP6c", "lcxiM", "VrseUb", "SFKp8c"}
    <2>1. call.op \in DOMAIN Steps /\ call.rpc \in Steps[call.op]
      BY DEF FilesInv, StepInv, InStep, Sending
    <2>2. QED
      BY <2>1 DEF Sending, Steps
  <1>5. QED
    BY <1>1, <1>2, <1>3, <1>4

\* A step leaves files files, and an operation at one of its own steps.
LEMMA FilesInvStep ==
  ASSUME FilesInv, [Next]_sessionVars
  PROVE  FilesInv'
  <1>1. StepInv /\ StepInv'
    BY StepInvStep DEF FilesInv
  <1>2. CASE UNCHANGED <<library, trash, call>>
    BY <1>1, <1>2 DEF FilesInv
  <1>3. CASE TakeText \/ LoadCookies \/ UnmarshalBlob \/ GetGlobalData
             \/ GlobalDataFails \/ Export \/ CloseClient \/ Renew
    BY <1>2, <1>3 DEF TakeText, LoadCookies, UnmarshalBlob, GetGlobalData,
         GlobalDataFails, Export, CloseClient, Renew
  <1>4. CASE StartCall
    <2>1. PICK op \in DOMAIN RPCs : \E files \in Arguments(op) :
            call' = [op |-> op, files |-> files, rpc |-> RPCs[op]]
      BY <1>4 DEF StartCall
    <2> PICK files \in Arguments(op) :
          call' = [op |-> op, files |-> files, rpc |-> RPCs[op]]
      BY <2>1
    <2>2. files \subseteq Files
      BY <2>1 DEF Arguments, RPCs, FilesInv
    <2>3. UNCHANGED <<library, trash>>
      BY <1>4 DEF StartCall
    <2>4. QED
      BY <1>1, <2>1, <2>2, <2>3 DEF FilesInv
  <1>5. CASE Answered
    <2>1. Sending
      BY <1>5 DEF Answered
    <2>2. PICK o \in Outcomes(call.rpc, call.files) :
            /\ library' = o.library /\ trash' = o.trash
            /\ Receives(Bodies(Entry(call.rpc, o.payload, Null)))
      BY <1>5 DEF Answered
    <2>3. PICK body \in Bodies(Entry(call.rpc, o.payload, Null)) :
            Proceeds(ReadAnswer(body))
      BY <2>2 DEF Receives
    <2>4. ASSUME call.rpc = "SusGud"
          PROVE  KeysOf(BatchResult(ReadAnswer(body).value)) \subseteq Files
      <3>1. PICK v : /\ ReadAnswer(body) = Answers(v, Empty)
                     /\ KeysOf(BatchResult(v)) \subseteq Files
        BY <2>4, ImportAnswered
      <3>2. ReadAnswer(body).value = v
        BY <3>1 DEF Answers
      <3>3. QED
        BY <3>1, <3>2
    <2>5. call'.files \subseteq Files
      BY <1>1, <2>1, <2>3, <2>4, ProceedsWithFiles DEF FilesInv
    <2>6. QED
      BY <1>1, <2>1, <2>2, <2>5, OutcomeFiles DEF FilesInv
  <1>6. ASSUME MayHaveEffect, Sending
        PROVE  /\ library' \subseteq Files /\ trash' \subseteq Files
               /\ library' \cap trash' = {}
    <2>1. \/ library' = library /\ trash' = trash
          \/ \E o \in Outcomes(call.rpc, call.files) :
               library' = o.library /\ trash' = o.trash
      BY <1>6 DEF MayHaveEffect
    <2>2. QED
      BY <1>6, <2>1, OutcomeFiles DEF FilesInv
  <1>7. CASE AnsweredWithError
    <2>1. Sending /\ MayHaveEffect
      BY <1>7 DEF AnsweredWithError
    <2>2. PICK class \in {"quota", "timeout", "rpc_error"} :
            \E body \in ErrorBodies(class, call.rpc) : Proceeds(ReadAnswer(body))
      BY <1>7 DEF AnsweredWithError, Receives
    <2> PICK body \in ErrorBodies(class, call.rpc) : Proceeds(ReadAnswer(body))
      BY <2>2
    <2>3. ErrorOf(ReadAnswer(body)) # Empty
      BY <1>1, <2>1, ErrorAnswers
    <2>4. call'.files \subseteq Files
      BY <1>1, <2>1, <2>2, <2>3, ProceedsWithFiles DEF FilesInv
    <2>5. QED
      BY <1>1, <1>6, <2>1, <2>4 DEF FilesInv
  <1>8. CASE Refused
    <2>1. Sending /\ UNCHANGED <<library, trash>>
      BY <1>8 DEF Refused
    <2>2. PICK body \in Refusals : Proceeds(ReadAnswer(body))
      BY <1>8 DEF Refused, Receives
    <2>3. ASSUME call.rpc = "SusGud"
          PROVE  \/ ErrorOf(ReadAnswer(body)) # Empty
                 \/ KeysOf(BatchResult(ReadAnswer(body).value)) \subseteq Files
      <3>1. ReadAnswer(body) = ParseBatchexecuteEnvelope(body, "SusGud")
        BY <2>3 DEF ReadAnswer
      <3>2. Answers(Number(7), Empty).value = Number(7)
        BY DEF Answers
      <3>3. QED
        BY <3>1, <3>2, SilenceIsRead, NumberImportsNothing
    <2>4. call'.files \subseteq Files
      BY <1>1, <2>1, <2>2, <2>3, ProceedsWithFiles DEF FilesInv
    <2>5. QED
      BY <1>1, <2>1, <2>4 DEF FilesInv
  <1>9. CASE TransportFails
    <2>1. Sending /\ MayHaveEffect /\ Proceeds(Fails("transport"))
      BY <1>9 DEF TransportFails
    <2>2. ErrorOf(Fails("transport")) # Empty
      BY NotEmpty DEF ErrorOf, Fails, Answers
    <2>3. call'.files \subseteq Files
      BY <1>1, <2>1, <2>2, ProceedsWithFiles DEF FilesInv
    <2>4. QED
      BY <1>1, <1>6, <2>1, <2>3 DEF FilesInv
  <1>10. CASE ReadPhotoPage \/ ReadQuotaPage \/ QuotaPageFails
    <2>1. /\ UNCHANGED <<library, trash>>
          /\ \E rpc : call' = [call EXCEPT !.rpc = rpc]
      BY <1>10 DEF ReadPhotoPage, ReadQuotaPage, QuotaPageFails, Ends, GoesOn
    <2>2. QED
      BY <1>1, <2>1, CallGoesOn DEF FilesInv
  <1>11. CASE Finish
    BY <1>1, <1>11 DEF Finish, FilesInv, NoCall
  <1>12. QED
    BY <1>2, <1>3, <1>4, <1>5, <1>7, <1>8, <1>9, <1>10, <1>11
    DEF Next, sessionVars

-----------------------------------------------------------------------------
(* Reports.                                                                *)

\* Between its RPCs an operation knows what the server knows.
TruthInv ==
  /\ FilesInv
  /\ ReportIsTrue
  /\ call.op = "cleanup" /\ call.rpc \in {"XwAOJf", "e2FP6c"} =>
       report.value = meant
  /\ call.rpc = "page" => report.value = meant
  /\ call.op = "delete" /\ call.rpc = "e2FP6c" => call.files \cap library = {}

\* The account fits in its storage, and no operation has ended.
LEMMA TruthInvInit ==
  ASSUME Init
  PROVE  TruthInv
  BY SessionAssumption
  DEF Init, TruthInv, FilesInv, StepInv, InStep, ReportIsTrue, NoCall

\* An operation that ends with an error, or with the truth.
LEMMA Ended ==
  ASSUME FilesInv', call'.rpc = "done",
         \/ report'.error # Empty
         \/ report'.value = meant' /\ call'.op # "delete"
  PROVE  TruthInv'
  BY DEF TruthInv, ReportIsTrue

\* What ends an operation is its report.
LEMMA EndsSo ==
  ASSUME StepInv, NEW error, NEW value, Ends(error, value)
  PROVE  /\ call'.rpc = "done" /\ call'.op = call.op
         /\ report'.error = error /\ report'.value = value
         /\ call'.files = call.files
  <1>1. report' = [error |-> error, value |-> value]
    BY DEF Ends
  <1>2. call' = [call EXCEPT !.rpc = "done"]
    BY DEF Ends
  <1>3. QED
    BY <1>1, <1>2, CallGoesOn

\* What an operation that goes on holds.
LEMMA GoesOnSo ==
  ASSUME StepInv, NEW rpc, NEW value, GoesOn(rpc, value)
  PROVE  /\ call'.rpc = rpc /\ call'.op = call.op
         /\ report'.value = value /\ call'.files = call.files
  <1>1. report' = [error |-> Empty, value |-> value]
    BY DEF GoesOn
  <1>2. call' = [call EXCEPT !.rpc = rpc]
    BY DEF GoesOn
  <1>3. QED
    BY <1>1, <1>2, CallGoesOn

\* The steps of a cleanup pass no report on that is not true.
LEMMA CleanupGoesOn ==
  ASSUME TruthInv, FilesInv', InCleanup, Sending, NEW answer, Proceeds(answer),
         meant' = meant
  PROVE  TruthInv'
  <1>1. StepInv /\ call.op = "cleanup" /\ call.rpc \in {"XwAOJf", "e2FP6c"}
    <2>1. StepInv /\ call.op = "cleanup" /\ call.rpc # "SusGud"
      BY DEF TruthInv, FilesInv, InCleanup
    <2>2. call.rpc \in Steps["cleanup"]
      BY <2>1 DEF StepInv, InStep
    <2>3. QED
      BY <2>1, <2>2 DEF Sending, Steps
  <1>2. report.value = meant
    BY <1>1 DEF TruthInv
  <1>3. CASE call.rpc = "XwAOJf"
    <2>1. GoesOn("e2FP6c", report.value)
      BY <1>3 DEF Proceeds
    <2>2. /\ call'.rpc = "e2FP6c" /\ call'.op = "cleanup"
          /\ report'.value = meant'
      BY <1>1, <1>2, <2>1, GoesOnSo
    <2>3. QED
      BY <2>2 DEF TruthInv, ReportIsTrue
  <1>4. CASE call.rpc = "e2FP6c"
    <2>1. Ends(Empty, report.value)
      BY <1>1, <1>4 DEF Proceeds
    <2>2. QED
      BY <1>1, <1>2, <2>1, EndsSo, Ended
  <1>5. QED
    BY <1>1, <1>3, <1>4

\* An error that is not ignored is reported.
LEMMA ErrorEnds ==
  ASSUME StepInv, FilesInv', ~InCleanup, NEW answer, ErrorOf(answer) # Empty,
         Proceeds(answer)
  PROVE  TruthInv'
  <1>1. Ends(ErrorOf(answer), Nothing)
    BY DEF Proceeds, ErrorOf
  <1>2. QED
    BY <1>1, EndsSo, Ended

\* What the server says it did is what the operation reports or goes on with.
LEMMA AnsweredTruly ==
  ASSUME TruthInv, FilesInv', Answered
  PROVE  TruthInv'
  <1>1. FilesInv /\ StepInv
    BY DEF TruthInv, FilesInv
  <1>2. Sending
    BY DEF Answered
  <1>3. PICK o \in Outcomes(call.rpc, call.files) :
          /\ library' = o.library /\ trash' = o.trash /\ meant' = o.meant
          /\ Receives(Bodies(Entry(call.rpc, o.payload, Null)))
    BY DEF Answered
  <1>4. PICK body \in Bodies(Entry(call.rpc, o.payload, Null)) :
          Proceeds(ReadAnswer(body))
    BY <1>3 DEF Receives
  <1>5. PICK answer : answer = ReadAnswer(body)
    OBVIOUS
  <1>6. Proceeds(answer)
    BY <1>4, <1>5
  <1>7. call.op \in DOMAIN Steps /\ call.rpc \in Steps[call.op]
    BY <1>1, <1>2 DEF StepInv, InStep, Sending
  <1>8. CASE ErrorOf(answer) # Empty /\ ~InCleanup
    BY <1>1, <1>6, <1>8, ErrorEnds
  <1>9. CASE InCleanup
    <2>1. call.op = "cleanup" /\ call.rpc \in {"XwAOJf", "e2FP6c"}
      BY <1>2, <1>7, <1>9 DEF InCleanup, Sending, Steps
    <2>2. o.meant = meant
      BY <2>1 DEF Outcomes
    <2>3. QED
      BY <1>2, <1>3, <1>6, <1>9, <2>2, CleanupGoesOn
  <1>10. CASE ErrorOf(answer) = Empty /\ ~InCleanup
    <2>1. CASE call.rpc = "SusGud"
      <3>1. PICK v : /\ answer = Answers(v, Empty)
                     /\ o.meant = [imported |-> FilesOf(BatchResult(v)),
                                   failed |-> BatchResult(v).failed]
        BY <1>1, <1>5, <2>1, ImportAnswered
      <3>2. answer.value = v
        BY <3>1 DEF Answers
      <3>3. AfterImport(BatchResult(v))
        BY <1>6, <1>10, <2>1, <3>2 DEF Proceeds, ErrorOf
      <3>4. report'.value = meant'
        BY <1>3, <3>1, <3>3 DEF AfterImport, FilesOf, SucceededOf
      <3>5. call.op \in {"import", "cleanup"}
        BY <1>7, <2>1, OpsOfStep
      <3>6. CASE call' = [call EXCEPT !.rpc = "done"]
        BY <1>1, <3>4, <3>5, <3>6, CallGoesOn, Ended
      <3>7. ASSUME NEW keys, call.op = "cleanup",
                   call' = [call EXCEPT !.rpc = "XwAOJf", !.files = keys]
            PROVE  TruthInv'
        <4>1. call'.rpc = "XwAOJf" /\ call'.op = "cleanup"
          BY <1>1, <3>7, CallGoesOn
        <4>2. QED
          BY <3>4, <4>1 DEF TruthInv, ReportIsTrue
      <3>8. QED
        BY <3>3, <3>6, <3>7 DEF AfterImport
    <2>2. CASE call.rpc = "XwAOJf"
      <3>1. call.op = "delete"
        BY <1>7, <1>10, <2>2, OpsOfStep DEF InCleanup
      <3>2. GoesOn("e2FP6c", report.value)
        BY <1>6, <1>10, <2>2 DEF Proceeds, ErrorOf
      <3>3. library' = library \ call.files
        BY <1>3, <2>2 DEF Outcomes
      <3>4. QED
        BY <1>1, <3>1, <3>2, <3>3, GoesOnSo DEF TruthInv, ReportIsTrue
    <2>3. CASE call.rpc = "e2FP6c"
      <3>1. call.op = "delete"
        BY <1>7, <1>10, <2>3, OpsOfStep DEF InCleanup
      <3>2. Ends(Empty, [deleted |-> TRUE])
        BY <1>6, <1>10, <2>3, <3>1 DEF Proceeds, ErrorOf
      <3>3. library' = library /\ trash' = {} /\ meant' = [deleted |-> TRUE]
        <4>1. PICK payload : o = [library |-> library, trash |-> {},
                                  payload |-> payload,
                                  meant |-> [deleted |-> TRUE]]
          BY <2>3, <3>1 DEF Outcomes
        <4>2. QED
          BY <1>3, <4>1
      <3>4. call.files \cap library = {}
        BY <2>3, <3>1 DEF TruthInv
      <3>5. QED
        BY <1>1, <3>2, <3>3, <3>4, EndsSo DEF TruthInv, ReportIsTrue
    <2>4. CASE call.rpc = "lcxiM"
      <3>1. o.payload = JSON(ListPayload) /\ o.meant = [keys |-> library]
        BY <2>4 DEF Outcomes
      <3>2. IsFiniteSet(library) /\ Empty \notin library
        BY <1>1, SessionAssumption, FS_Subset DEF FilesInv
      <3>3. answer = Answers(ListPayload, Empty)
        BY <1>5, <2>4, <3>1, <3>2, ListIsRead, PayloadIsRead DEF ReadAnswer
      <3>4. ListedKeys(answer.value).keys = library
        BY <3>2, <3>3, ListIsRead DEF Answers
      <3>5. Ends(Empty, [keys |-> library])
        BY <1>6, <1>10, <2>4, <3>4 DEF Proceeds, ErrorOf
      <3>6. call.op = "list"
        BY <1>7, <2>4, OpsOfStep
      <3>7. QED
        BY <1>1, <1>3, <3>1, <3>5, <3>6, EndsSo, Ended
    <2>5. CASE call.rpc = "VrseUb"
      <3>1. PICK f \in call.files : \E d \in Downloads(f) :
              /\ o.payload = JSON(d.payload)
              /\ o.meant = [url |-> d.url, dedupKey |-> f]
        BY <2>5 DEF Outcomes
      <3> PICK d \in Downloads(f) : /\ o.payload = JSON(d.payload)
                                    /\ o.meant = [url |-> d.url, dedupKey |-> f]
        BY <3>1
      <3>2. f # Empty
        BY <1>1, SessionAssumption DEF FilesInv
      <3>3. answer = Answers(d.payload, Empty)
        BY <1>5, <2>5, <3>2, DownloadIsRead, PayloadIsRead DEF ReadAnswer
      <3>4. ReadDownload(answer.value) = o.meant
        BY <3>2, <3>3, DownloadIsRead DEF Answers
      <3>5. AfterDownload(o.meant)
        BY <1>6, <1>10, <2>5, <3>4 DEF Proceeds, ErrorOf
      <3>6. call.op = "download"
        BY <1>7, <2>5, OpsOfStep
      <3>7. CASE GoesOn("page", o.meant)
        BY <1>1, <1>3, <3>6, <3>7, GoesOnSo DEF TruthInv, ReportIsTrue
      <3>8. CASE Ends(Empty, o.meant)
        BY <1>1, <1>3, <3>6, <3>8, EndsSo, Ended
      <3>9. QED
        BY <3>5, <3>7, <3>8 DEF AfterDownload
    <2>6. CASE call.rpc = "SFKp8c"
      <3>1. answer \in {Answers([link |-> "link"], Empty), Fails("no_link")}
        BY <1>5, <2>6 DEF ReadAnswer
      <3>2. answer # Fails("no_link")
        BY <1>10, NotEmpty DEF ErrorOf, Fails, Answers
      <3>3. answer.value = [link |-> "link"]
        BY <3>1, <3>2 DEF Answers
      <3>4. Ends(Empty, [link |-> "link"])
        BY <1>6, <1>10, <2>6, <3>3 DEF Proceeds, ErrorOf
      <3>5. o.meant = [link |-> "link"]
        BY <2>6 DEF Outcomes
      <3>6. call.op = "share"
        BY <1>7, <2>6, OpsOfStep
      <3>7. QED
        BY <1>1, <1>3, <3>4, <3>5, <3>6, EndsSo, Ended
    <2>7. call.rpc \in {"SusGud", "XwAOJf", "e2FP6c", "lcxiM", "VrseUb", "SFKp8c"}
      BY <1>2, <1>7 DEF Sending, Steps
    <2>8. QED
      BY <2>1, <2>2, <2>3, <2>4, <2>5, <2>6, <2>7
  <1>11. QED
    BY <1>8, <1>9, <1>10

\* A step that ends an operation reports the truth, or an error.
LEMMA TruthInvStep ==
  ASSUME TruthInv, [Next]_sessionVars, ~Silent
  PROVE  TruthInv'
  <1>1. FilesInv /\ FilesInv' /\ StepInv
    BY FilesInvStep DEF TruthInv, FilesInv
  <1>2. CASE UNCHANGED <<library, trash, call, report, meant>>
    BY <1>1, <1>2 DEF TruthInv, ReportIsTrue
  <1>3. CASE TakeText \/ LoadCookies \/ UnmarshalBlob \/ GetGlobalData
             \/ GlobalDataFails \/ Export \/ CloseClient \/ Renew
    BY <1>2, <1>3 DEF TakeText, LoadCookies, UnmarshalBlob, GetGlobalData,
         GlobalDataFails, Export, CloseClient, Renew
  <1>4. CASE StartCall
    <2>1. PICK op \in DOMAIN RPCs : \E files :
            call' = [op |-> op, files |-> files, rpc |-> RPCs[op]]
      BY <1>4 DEF StartCall
    <2>2. call'.rpc = RPCs[op] /\ call'.op = op
      BY <2>1
    <2>3. /\ RPCs[op] \notin {"done", "page", "e2FP6c"}
          /\ op = "cleanup" => RPCs[op] = "SusGud"
      BY DEF RPCs
    <2>4. QED
      BY <1>1, <2>2, <2>3 DEF TruthInv, ReportIsTrue
  <1>5. CASE Answered
    BY <1>1, <1>5, AnsweredTruly
  <1>6. CASE AnsweredWithError \/ Refused \/ TransportFails
    <2>1. Sending /\ meant' = meant
      BY <1>6 DEF AnsweredWithError, Refused, TransportFails
    <2>2. PICK answer : Proceeds(answer) /\ ErrorOf(answer) # Empty
      <3>1. CASE AnsweredWithError
        <4>1. PICK class \in {"quota", "timeout", "rpc_error"} :
                \E body \in ErrorBodies(class, call.rpc) :
                  Proceeds(ReadAnswer(body))
          BY <3>1 DEF AnsweredWithError, Receives
        <4>2. QED
          BY <1>1, <2>1, <4>1, ErrorAnswers
      <3>2. CASE Refused
        <4>1. PICK body \in Refusals : Proceeds(ReadAnswer(body))
          BY <3>2 DEF Refused, Receives
        <4>2. QED
          BY <1>1, <2>1, <4>1, ErrorAnswers
      <3>3. CASE TransportFails
        <4>1. ErrorOf(Fails("transport")) # Empty
          BY NotEmpty DEF ErrorOf, Fails, Answers
        <4>2. QED
          BY <3>3, <4>1 DEF TransportFails
      <3>4. QED
        BY <1>6, <3>1, <3>2, <3>3
    <2>3. QED
      BY <1>1, <2>1, <2>2, CleanupGoesOn, ErrorEnds
  <1>7. CASE ReadPhotoPage
    <2>1. PICK url : /\ meant' = [meant EXCEPT !.url = url]
                     /\ Ends(Empty, [report.value EXCEPT !.url = url])
      BY <1>7 DEF ReadPhotoPage
    <2>2. call.rpc = "page" /\ report.value = meant
      BY <1>7 DEF ReadPhotoPage, TruthInv
    <2>3. call.op # "delete"
      BY <1>1, <2>2, OpsOfStep DEF StepInv, InStep
    <2>4. QED
      BY <1>1, <2>1, <2>2, <2>3, EndsSo, Ended
  <1>8. CASE ReadQuotaPage
    <2>1. PICK storage \in Storages : \E shown \in QuotaPages(storage) :
            LET quota == ParseStorageQuotaHTML(shown.page)
            IN /\ meant' = shown.quota
               /\ IF quota # None THEN Ends(Empty, quota)
                  ELSE IF call.rpc = "main" THEN Ends("not_found", Nothing)
                  ELSE GoesOn("main", Nothing)
      BY <1>8 DEF ReadQuotaPage
    <2> PICK shown \in QuotaPages(storage) :
            LET quota == ParseStorageQuotaHTML(shown.page)
            IN /\ meant' = shown.quota
               /\ IF quota # None THEN Ends(Empty, quota)
                  ELSE IF call.rpc = "main" THEN Ends("not_found", Nothing)
                  ELSE GoesOn("main", Nothing)
      BY <2>1
    <2>2. call.op = "quota"
      BY <1>1, <1>8, OpsOfStep DEF ReadQuotaPage, StepInv, InStep
    <2>3. CASE ParseStorageQuotaHTML(shown.page) # None
      BY <1>1, <2>2, <2>3, QuotaIsRead, EndsSo, Ended
    <2>4. CASE Ends("not_found", Nothing)
      BY <1>1, <2>4, NotEmpty, EndsSo, Ended
    <2>5. CASE GoesOn("main", Nothing)
      BY <1>1, <2>2, <2>5, GoesOnSo DEF TruthInv, ReportIsTrue
    <2>6. QED
      BY <2>3, <2>4, <2>5
  <1>9. CASE QuotaPageFails
    <2>1. CASE Ends("transport", Nothing)
      BY <1>1, <2>1, NotEmpty, EndsSo, Ended
    <2>2. CASE GoesOn("main", Nothing)
      <3>1. call'.rpc = "main"
        BY <1>1, <2>2, GoesOnSo
      <3>2. QED
        BY <1>1, <3>1 DEF TruthInv, ReportIsTrue
    <2>3. QED
      BY <1>9, <2>1, <2>2 DEF QuotaPageFails
  <1>10. CASE Finish
    BY <1>1, <1>10 DEF Finish, NoCall, TruthInv, ReportIsTrue
  <1>11. QED
    BY <1>2, <1>3, <1>4, <1>5, <1>6, <1>7, <1>8, <1>9, <1>10
    DEF Next, sessionVars

\* What an operation returns without an error is what the server did or knows,
\* for any files and storages, when the server names the RPC it refuses: TLC's
\* run refused_rpc shows that it must (BatchImportFromDrive,
\* GPWC_DeletePermanently, ListLibraryItems, GetDownloadURL, CreateShareLink,
\* GetStorageQuota).
THEOREM ReportsAreTrue == ~Silent => (Spec => []ReportIsTrue)
  <1> SUFFICES ASSUME ~Silent
               PROVE  Spec => []ReportIsTrue
    OBVIOUS
  <1>1. Init => TruthInv
    BY TruthInvInit
  <1>2. TruthInv /\ [Next]_sessionVars => TruthInv'
    BY TruthInvStep
  <1>3. TruthInv => ReportIsTrue
    BY DEF TruthInv
  <1>4. QED
    BY <1>1, <1>2, <1>3, PTL DEF Spec

-----------------------------------------------------------------------------
(* Cookies.                                                                *)

Fields == {"name", "value", "domain", "path", "secure", "httpOnly", "expires"}

IsCookie(c) ==
  /\ DOMAIN c = Fields
  /\ c.secure \in BOOLEAN /\ c.httpOnly \in BOOLEAN

CookieList(cookies) ==
  /\ DOMAIN cookies \subseteq Int
  /\ \A i \in DOMAIN cookies : IsCookie(cookies[i])

\* A list of cookies that count, at places of a text.
WholeList(cookies) ==
  /\ DOMAIN cookies \subseteq Int
  /\ \A i \in DOMAIN cookies : IsCookie(cookies[i])
                               /\ HasNameAndValue(cookies[i])

SameKey(c, d) == c.name = d.name /\ c.domain = d.domain /\ c.path = d.path

WholeJar(cookies) ==
  \A c \in cookies :
    /\ IsCookie(c) /\ HasNameAndValue(c)
    /\ c.domain # <<>> /\ c.path # <<>>
    /\ \A d \in cookies : SameKey(c, d) => c = d

\* The flags of the objects of a document are flags.
GoodObjects(objects) ==
  /\ DOMAIN objects \subseteq Int
  /\ \A i \in DOMAIN objects :
       /\ "secure" \in DOMAIN objects[i] => objects[i].secure \in BOOLEAN
       /\ "httpOnly" \in DOMAIN objects[i] => objects[i].httpOnly \in BOOLEAN
       /\ "http_only" \in DOMAIN objects[i] => objects[i].http_only \in BOOLEAN

GoodJSON(json) ==
  \/ "none" \in DOMAIN json
  \/ "list" \in DOMAIN json /\ GoodObjects(json.list)
  \/ "list" \notin DOMAIN json /\ "cookies" \in DOMAIN json
       /\ GoodObjects(json.cookies)
  \/ DOMAIN json = {"flat"} /\ DOMAIN json.flat \subseteq Int

\* Entries that are cookies give cookies that count.
LEMMA KeptIsWhole ==
  ASSUME NEW cookies, CookieList(cookies)
  PROVE  WholeList(Kept(cookies))
  BY DEF CookieList, WholeList, Kept, Restrict

\* What a document gives are whole cookies.
LEMMA JSONIsWhole ==
  ASSUME NEW clean, NEW json, GoodJSON(json)
  PROVE  WholeList(ExtractFromJSON(clean, json))
  <1>1. ASSUME NEW o,
               "secure" \in DOMAIN o => o.secure \in BOOLEAN,
               "httpOnly" \in DOMAIN o => o.httpOnly \in BOOLEAN,
               "http_only" \in DOMAIN o => o.http_only \in BOOLEAN
        PROVE  IsCookie(FromObject(o))
    <2>1. /\ Field(o, "secure", FALSE) \in BOOLEAN
          /\ Field(o, "httpOnly", FALSE) \in BOOLEAN
          /\ Field(o, "http_only", FALSE) \in BOOLEAN
      BY <1>1 DEF Field
    <2>2. QED
      BY <2>1 DEF FromObject, IsCookie, Fields
  <1>2. ASSUME NEW objects, GoodObjects(objects)
        PROVE  WholeList(Kept([i \in DOMAIN objects |-> FromObject(objects[i])]))
    BY <1>1, <1>2, KeptIsWhole DEF GoodObjects, CookieList
  <1>3. ASSUME NEW name, NEW value PROVE IsCookie(Plain(name, value))
    BY DEF Plain, IsCookie, Fields
  <1>4. WholeList(Kept(<<>>))
    BY KeptIsWhole DEF CookieList
  <1>5. CASE clean # <<"JSON">>
    BY <1>4, <1>5, Zenon DEF ExtractFromJSON
  <1>6. CASE "none" \in DOMAIN json
    BY <1>4, <1>6, Zenon DEF ExtractFromJSON
  <1>7. CASE clean = <<"JSON">> /\ "none" \notin DOMAIN json
    <2>1. CASE "list" \in DOMAIN json /\ GoodObjects(json.list)
      BY <1>2, <1>7, <2>1 DEF ExtractFromJSON
    <2>2. CASE "list" \notin DOMAIN json /\ "cookies" \in DOMAIN json
               /\ GoodObjects(json.cookies)
      BY <1>2, <1>7, <2>2 DEF ExtractFromJSON
    <2>3. CASE DOMAIN json = {"flat"} /\ DOMAIN json.flat \subseteq Int
      <3> DEFINE cookies == [i \in DOMAIN json.flat |->
                               Plain(Trim(json.flat[i].name),
                                     Trim(json.flat[i].value))]
      <3>1. ExtractFromJSON(clean, json) = Kept(cookies)
        BY <1>7, <2>3 DEF ExtractFromJSON
      <3>2. \A i \in DOMAIN cookies : IsCookie(cookies[i])
        BY <1>3
      <3>3. DOMAIN cookies \subseteq Int
        BY <2>3
      <3> HIDE DEF cookies
      <3>4. QED
        BY <3>1, <3>2, <3>3, KeptIsWhole DEF CookieList
    <2>4. QED
      BY <1>7, <2>1, <2>2, <2>3 DEF GoodJSON
  <1>8. QED
    BY <1>5, <1>6, <1>7

\* So are those of the other formats.
LEMMA NetscapeIsWhole ==
  ASSUME NEW clean
  PROVE  WholeList(ExtractFromNetscape(clean))
  <1> DEFINE row(valid, bare(_)) == [i \in 1 .. Len(valid) |->
                    LET parts == Columns(bare(valid[i]))
                    IN [domain   |-> parts[1],
                        path     |-> parts[3],
                        secure   |-> parts[4] = <<"TRUE">>,
                        expires  |-> ParseInt(parts[5]),
                        name     |-> parts[6],
                        value    |-> parts[7],
                        httpOnly |-> valid[i][1] = "#HttpOnly_"]]
             bare(l) == IF l[1] = "#HttpOnly_" THEN Tail(l) ELSE l
  <1>1. \E valid : ExtractFromNetscape(clean) = Kept(row(valid, bare))
    BY Zenon DEF ExtractFromNetscape
  <1>2. PICK valid : ExtractFromNetscape(clean) = Kept(row(valid, bare))
    BY <1>1
  <1>3. \A i \in DOMAIN row(valid, bare) : IsCookie(row(valid, bare)[i])
    BY DEF IsCookie, Fields
  <1>4. DOMAIN row(valid, bare) \subseteq Int
    OBVIOUS
  <1>5. QED
    BY <1>2, <1>3, <1>4, KeptIsWhole DEF CookieList

\* The cookies of a header have every field.
LEMMA HeaderIsWhole ==
  ASSUME NEW clean
  PROVE  WholeList(ExtractFromHeader(clean))
  <1> DEFINE cookies(parts) == [i \in 1 .. Len(parts) |->
        LET eq == Min({j \in DOMAIN parts[i] : parts[i][j] = "="})
        IN Plain(Trim(SubSeq(parts[i], 1, eq - 1)),
                 Trim(SubSeq(parts[i], eq + 1, Len(parts[i]))))]
  <1>1. \E parts : ExtractFromHeader(clean) = Kept(cookies(parts))
    BY Zenon DEF ExtractFromHeader
  <1>2. PICK parts : ExtractFromHeader(clean) = Kept(cookies(parts))
    BY <1>1
  <1>3. \A i \in DOMAIN cookies(parts) : IsCookie(cookies(parts)[i])
    BY DEF Plain, IsCookie, Fields
  <1>4. DOMAIN cookies(parts) \subseteq Int
    OBVIOUS
  <1> HIDE DEF cookies
  <1>5. QED
    BY <1>2, <1>3, <1>4, KeptIsWhole DEF CookieList

\* Whatever the text, what is read of it are whole cookies.
LEMMA ParsedIsWhole ==
  ASSUME NEW text, GoodJSON(text.json)
  PROVE  WholeList(ParseCookies(text))
  BY JSONIsWhole, NetscapeIsWhole, HeaderIsWhole DEF ParseCookies

\* The jar holds one cookie for each key.
LEMMA LoadedIsWhole ==
  ASSUME NEW cookies, WholeList(cookies)
  PROVE  WholeJar(LoadIntoSession(cookies))
  <1> DEFINE whole == [i \in DOMAIN cookies |->
               [cookies[i] EXCEPT !.domain = IF @ = <<>> THEN Google ELSE @,
                                  !.path = IF @ = <<>> THEN Root ELSE @]]
             last == {j \in DOMAIN whole : \A k \in DOMAIN whole : k > j =>
                        <<whole[k].name, whole[k].domain, whole[k].path>>
                          # <<whole[j].name, whole[j].domain, whole[j].path>>}
  <1>1. LoadIntoSession(cookies) = {whole[i] : i \in last}
    BY DEF LoadIntoSession
  <1>2. \A i \in DOMAIN whole :
          /\ IsCookie(whole[i]) /\ HasNameAndValue(whole[i])
          /\ whole[i].domain # <<>> /\ whole[i].path # <<>>
    BY DEF WholeList, IsCookie, Fields, HasNameAndValue, Google, Root
  <1>3. DOMAIN whole \subseteq Int
    BY DEF WholeList
  <1> HIDE DEF whole
  <1>4. \A i, j \in last : SameKey(whole[i], whole[j]) => i = j
    BY <1>3 DEF SameKey
  <1>5. QED
    BY <1>1, <1>2, <1>4 DEF WholeJar

-----------------------------------------------------------------------------
(* Texts.                                                                  *)

\* What the user may hold: a text that can be read, or whole cookies.
GoodText(text) ==
  /\ text.kind = "blob" => WholeJar(text.jar)
  /\ text.kind \in {"written", "netscape", "header"} => GoodJSON(text.json)

\* A text without a document holds a good one.
LEMMA NoJSONIsGood == GoodJSON(NoJSON)
  BY DEF GoodJSON, NoJSON

\* What is written can be read.
LEMMA WrittenIsGood ==
  ASSUME NEW chars, NEW json, NEW cookies, GoodJSON(json)
  PROVE  \A text \in Quoted(Written(chars, json, cookies)) : GoodText(text)
  <1> DEFINE text == Written(chars, json, cookies)
             around(q) == [text EXCEPT !.chars = q \o @ \o q]
  <1>1. DOMAIN text = {"kind", "chars", "json", "jar"} /\ text.kind = "written"
        /\ text.json = json
    BY DEF Written
  <1> HIDE DEF text
  <1>2. ASSUME NEW q
        PROVE  /\ DOMAIN around(q) = {"kind", "chars", "json", "jar"}
               /\ around(q).kind = "written" /\ around(q).json = json
    BY <1>1
  <1>3. ASSUME NEW t, DOMAIN t = {"kind", "chars", "json", "jar"},
               t.kind = "written", t.json = json, NEW chars2
        PROVE  GoodText([t EXCEPT !.chars = chars2])
    BY <1>3 DEF GoodText
  <1>4. GoodText(text)
    BY <1>1 DEF GoodText
  <1>5. ASSUME NEW q PROVE GoodText(around(q))
    BY <1>2 DEF GoodText
  <1>6. Quoted(text) =
          {text, around(<<"'">>),
           [around(<<"DQ">>) EXCEPT !.chars = <<"NL">> \o @],
           [text EXCEPT !.chars = <<"'", "SP", "DQ">> \o @ \o <<"DQ", "SP", "'">>]}
    BY Zenon DEF Quoted
  <1>7. GoodText([around(<<"DQ">>) EXCEPT !.chars = <<"NL">> \o @])
    BY <1>2, <1>3
  <1>8. GoodText([text EXCEPT !.chars = <<"'", "SP", "DQ">> \o @ \o <<"DQ", "SP", "'">>])
    BY <1>1, <1>3
  <1> HIDE DEF around
  <1>9. \A t \in Quoted(text) : GoodText(t)
    BY <1>4, <1>5, <1>6, <1>7, <1>8
  <1>10. QED
    BY <1>9 DEF text

\* The documents of a list of cookies can be read.
LEMMA DocumentsAreGood ==
  ASSUME NEW cookies, CookieList(cookies)
  PROVE  \A t \in NetscapeTexts(cookies) \cup PlainTexts(cookies)
                    \cup JSONTexts(cookies) :
           \E chars, json, list : t = Written(chars, json, list) /\ GoodJSON(json)
  <1>1. ASSUME NEW t \in NetscapeTexts(cookies)
        PROVE  \E chars, list : t = Written(chars, NoJSON, list)
    BY <1>1 DEF NetscapeTexts
  <1>2. DOMAIN SentOf(cookies) \subseteq Int
    BY DEF SentOf, Restrict, CookieList
  <1>3. ASSUME NEW t \in PlainTexts(cookies)
        PROVE  \E chars, json, list : t = Written(chars, json, list) /\ GoodJSON(json)
    <2> DEFINE sent  == SentOf(cookies)
               plain == [i \in DOMAIN sent |-> Plain(sent[i].name, sent[i].value)]
    <2>1. \/ \E chars : t = Written(chars, NoJSON, plain)
          \/ t = Written(<<"JSON">>, [flat |-> plain], plain)
      BY <1>3, Zenon DEF PlainTexts
    <2>2. DOMAIN plain \subseteq Int
      BY <1>2
    <2> HIDE DEF plain
    <2>3. GoodJSON([flat |-> plain])
      BY <2>2 DEF GoodJSON
    <2>4. QED
      BY <2>1, <2>3, NoJSONIsGood
  <1>4. ASSUME NEW t \in JSONTexts(cookies)
        PROVE  \E chars, json, list : t = Written(chars, json, list) /\ GoodJSON(json)
    <2> DEFINE expiring == [i \in DOMAIN cookies |->
          [name |-> cookies[i].name, value |-> cookies[i].value,
           domain |-> cookies[i].domain, path |-> cookies[i].path,
           secure |-> cookies[i].secure, httpOnly |-> cookies[i].httpOnly,
           expirationDate |-> cookies[i].expires]]
               bare == [i \in DOMAIN cookies |->
          [name |-> cookies[i].name, value |-> cookies[i].value,
           domain |-> cookies[i].domain]]
               pairs == [i \in DOMAIN SentOf(cookies) |->
          [name |-> SentOf(cookies)[i].name, value |-> SentOf(cookies)[i].value]]
    <2>1. \E json \in {[list |-> expiring], [cookies |-> cookies],
                       [list |-> bare], [list |-> pairs]} :
            \E chars, list : t = Written(chars, json, list)
      BY <1>4, Zenon DEF JSONTexts
    <2>2. GoodObjects(expiring) /\ GoodObjects(bare) /\ GoodObjects(pairs)
      <3>1. GoodObjects(expiring)
        BY DEF GoodObjects, CookieList, IsCookie
      <3>2. GoodObjects(bare)
        BY DEF GoodObjects, CookieList
      <3>3. GoodObjects(pairs)
        BY <1>2 DEF GoodObjects
      <3>4. QED
        BY <3>1, <3>2, <3>3
    <2> HIDE DEF expiring, bare, pairs
    <2>3. \A objects : GoodObjects(objects) => GoodJSON([list |-> objects])
      BY DEF GoodJSON
    <2>4. GoodJSON([cookies |-> cookies])
      BY DEF GoodJSON, GoodObjects, CookieList, IsCookie, Fields
    <2>5. QED
      BY <2>1, <2>2, <2>3, <2>4
  <1>5. QED
    BY <1>1, <1>3, <1>4, NoJSONIsGood

\* With the login in it a browser's list is one of cookies.
LEMMA BrowsersAreLists ==
  ASSUME NEW b \in Browser
  PROVE  CookieList(WithLogin(b))
  <1>1. \A i \in DOMAIN b : b[i] \in Cookie
    BY SessionAssumption
  <1>2. ASSUME NEW c \in Cookie, NEW value
        PROVE  IsCookie([c EXCEPT !.value = value])
    BY DEF Cookie, IsCookie, Fields
  <1>3. DOMAIN WithLogin(b) = DOMAIN b /\ DOMAIN b \subseteq Int
    BY SessionAssumption DEF WithLogin
  <1>4. ASSUME NEW i \in DOMAIN b
        PROVE  IsCookie(WithLogin(b)[i])
    <2>1. WithLogin(b)[i] = [b[i] EXCEPT !.value =
                              IF @ = <<"LOGIN">> THEN <<Logins[login]>> ELSE @]
      BY DEF WithLogin
    <2>2. QED
      BY <1>1, <1>2, <2>1
  <1>5. QED
    BY <1>3, <1>4 DEF CookieList

\* Whatever text the user takes can be read.
LEMMA TextsAreGood ==
  ASSUME NEW text \in CookieTexts
  PROVE  GoodText(text)
  <1>1. PICK b \in Browser :
          \E t \in NetscapeTexts(WithLogin(b)) \cup PlainTexts(WithLogin(b))
                     \cup JSONTexts(WithLogin(b)) : text \in Quoted(t)
    BY DEF CookieTexts
  <1>2. CookieList(WithLogin(b))
    BY BrowsersAreLists
  <1> HIDE DEF WithLogin
  <1>3. PICK t \in NetscapeTexts(WithLogin(b)) \cup PlainTexts(WithLogin(b))
                     \cup JSONTexts(WithLogin(b)) : text \in Quoted(t)
    BY <1>1
  <1>4. QED
    BY <1>2, <1>3, DocumentsAreGood, WrittenIsGood

\* So can what the client exports.
LEMMA ExportIsGood ==
  ASSUME WholeJar(jar), Export
  PROVE  GoodText(held')
  <1>1. CASE held' = [kind |-> "blob", jar |-> jar]
    BY <1>1 DEF GoodText
  <1>2. ASSUME NEW kind \in {"netscape", "header"}, NEW chars,
               held' = Exported(kind, chars)
        PROVE  GoodText(held')
    BY <1>2, NoJSONIsGood DEF GoodText, Exported
  <1>3. QED
    BY <1>1, <1>2 DEF Export

-----------------------------------------------------------------------------
(* The client.                                                             *)

Renewed(c, value) ==
  IF Sent(c) /\ c.name = <<"SID">> THEN [c EXCEPT !.value = value] ELSE c

\* A renewed login is the cookie it was, with another value.
LEMMA RenewedJarIsWhole ==
  ASSUME NEW cookies, WholeJar(cookies), NEW value, value # <<>>
  PROVE  WholeJar({Renewed(c, value) : c \in cookies})
  <1>1. ASSUME NEW c \in cookies
        PROVE  /\ IsCookie(Renewed(c, value)) /\ HasNameAndValue(Renewed(c, value))
               /\ Renewed(c, value).domain # <<>> /\ Renewed(c, value).path # <<>>
               /\ SameKey(Renewed(c, value), c)
    BY DEF Renewed, WholeJar, IsCookie, Fields, HasNameAndValue, SameKey
  <1>2. \A c, d \in cookies :
          SameKey(Renewed(c, value), Renewed(d, value)) => c = d
    BY <1>1 DEF WholeJar, SameKey
  <1>3. QED
    BY <1>1, <1>2 DEF WholeJar

\* What the user holds can be read, and what a client has fits its status.
TypeInv ==
  /\ FilesInv
  /\ login \in DOMAIN Logins
  /\ status \in {"none", "loaded", "live"}
  /\ WholeJar(jar)
  /\ GoodText(held)
  /\ status = "none" => jar = {}
  /\ status # "live" => at = 0 /\ call = NoCall
  /\ at \in 0 .. login

\* There is a first login.
LEMMA LoginsAreSome == DOMAIN Logins \subseteq Nat /\ 1 \in DOMAIN Logins
  <1>1. Logins \in Seq(STRING) /\ Logins # <<>>
    BY SessionAssumption
  <1>2. QED
    BY <1>1

\* At the start nobody has written a text or logged in.
LEMMA TypeInvInit ==
  ASSUME Init
  PROVE  TypeInv
  <1>1. FilesInv
    BY SessionAssumption
    DEF Init, FilesInv, StepInv, InStep, NoCall, Steps
  <1>2. GoodText(NoText)
    BY DEF GoodText, NoText
  <1>3. QED
    BY <1>1, <1>2, LoginsAreSome DEF Init, TypeInv, WholeJar

\* A client is made and unmade with the jar it should have.
LEMMA TypeInvStep ==
  ASSUME TypeInv, [Next]_sessionVars
  PROVE  TypeInv'
  <1>1. FilesInv'
    BY FilesInvStep DEF TypeInv
  <1>2. GoodText(NoText) /\ WholeJar({})
    BY DEF GoodText, NoText, WholeJar
  <1>3. CASE UNCHANGED sessionVars
    BY <1>1, <1>3 DEF TypeInv, sessionVars, GoodText, WholeJar
  <1>4. CASE TakeText
    BY <1>1, <1>4, TextsAreGood DEF TypeInv, TakeText
  <1>5. CASE LoadCookies
    <2>1. WholeList(ParseCookies(held))
      BY <1>5, ParsedIsWhole DEF LoadCookies, TypeInv, GoodText
    <2>2. WholeJar(jar')
      BY <1>5, <2>1, LoadedIsWhole DEF LoadCookies
    <2>3. ParseCookies(held) = <<>> => jar' = {}
      BY <1>5 DEF LoadCookies, LoadIntoSession
    <2>4. QED
      BY <1>1, <1>2, <1>5, <2>2, <2>3 DEF LoadCookies, TypeInv
  <1>6. CASE UnmarshalBlob
    BY <1>1, <1>6 DEF UnmarshalBlob, TypeInv, GoodText
  <1>7. CASE GetGlobalData
    <2>1. PICK n \in {login, login + 1} \cap DOMAIN Logins :
            /\ login' = n /\ at' = n
            /\ jar' = {IF Sent(c) /\ c.name = <<"SID">>
                       THEN [c EXCEPT !.value = <<Logins[n]>>] ELSE c : c \in jar}
      BY <1>7 DEF GetGlobalData
    <2>2. WholeJar(jar')
      <3>1. PICK value : value = <<Logins[n]>>
        OBVIOUS
      <3>2. value # <<>>
        BY <3>1
      <3>3. jar' = {Renewed(c, value) : c \in jar}
        BY <2>1, <3>1, Zenon DEF Renewed
      <3>4. QED
        BY <3>2, <3>3, RenewedJarIsWhole DEF TypeInv
    <2>3. at' \in 0 .. login'
      BY <2>1, LoginsAreSome
    <2>4. QED
      BY <1>1, <1>2, <1>7, <2>1, <2>2, <2>3 DEF GetGlobalData, TypeInv
  <1>8. CASE GlobalDataFails
    BY <1>1, <1>2, <1>8 DEF GlobalDataFails, TypeInv
  <1>9. CASE Export
    <2>1. GoodText(held')
      BY <1>9, ExportIsGood DEF TypeInv
    <2>2. QED
      BY <1>1, <1>9, <2>1 DEF Export, TypeInv
  <1>10. CASE CloseClient
    BY <1>1, <1>2, <1>10, LoginsAreSome DEF CloseClient, TypeInv
  <1>11. CASE Renew
    <2>1. at \in 0 .. login'
      BY <1>11, LoginsAreSome DEF Renew, TypeInv
    <2>2. QED
      BY <1>1, <1>11, <2>1 DEF Renew, TypeInv
  <1>12. CASE StartCall \/ Answered \/ AnsweredWithError \/ Refused
              \/ TransportFails \/ ReadPhotoPage \/ ReadQuotaPage
              \/ QuotaPageFails \/ Finish
    <2>1. UNCHANGED <<login, held, status, jar, at>>
      BY <1>12 DEF StartCall, Answered, AnsweredWithError, Refused,
           TransportFails, ReadPhotoPage, ReadQuotaPage, QuotaPageFails, Finish
    <2>2. status = "live"
      <3>1. StartCall \/ call.rpc # "none"
        BY <1>12 DEF Answered, AnsweredWithError, Refused, Sending,
             TransportFails, ReadPhotoPage, ReadQuotaPage, QuotaPageFails, Finish
      <3>2. QED
        BY <3>1 DEF StartCall, TypeInv, NoCall
    <2>3. QED
      BY <1>1, <2>1, <2>2 DEF TypeInv
  <1>13. QED
    BY <1>3, <1>4, <1>5, <1>6, <1>7, <1>8, <1>9, <1>10, <1>11, <1>12 DEF Next

\* The jar holds whole cookies, one for a name, domain and path, whatever the
\* text they were read from; only a client has a jar, only a live one an "at"
\* token and calls; and no file is in library and trash at once (WebClient,
\* core/web_client.go, LoadIntoSession).
THEOREM TypeCorrect == Spec => []TypeOK
  <1>1. Init => TypeInv
    BY TypeInvInit
  <1>2. TypeInv /\ [Next]_sessionVars => TypeInv'
    BY TypeInvStep
  <1>3. TypeInv => TypeOK
    <2> SUFFICES ASSUME TypeInv
                 PROVE  TypeOK
      OBVIOUS
    <2>1. ASSUME NEW c \in jar
          PROVE  /\ <<>> \notin {c.name, c.value, c.domain, c.path}
                 /\ {c.secure, c.httpOnly} \subseteq BOOLEAN
                 /\ \A d \in jar \ {c} :
                      <<c.name, c.domain, c.path>> # <<d.name, d.domain, d.path>>
      BY DEF TypeInv, WholeJar, IsCookie, HasNameAndValue, SameKey
    <2>2. QED
      BY <2>1 DEF TypeOK, TypeInv, FilesInv
  <1>4. QED
    BY <1>1, <1>2, <1>3, PTL DEF Spec

-----------------------------------------------------------------------------
(* Documents.                                                              *)

\* The greatest place is the last.
LEMMA LastPlace ==
  ASSUME NEW S, S \subseteq Nat, NEW n \in S, \A m \in S : m <= n
  PROVE  Max(S) = n
  <1> DEFINE Most(m) == m \in S /\ \A k \in S : m >= k
  <1>1. Max(S) = CHOOSE m : Most(m)
    BY DEF Max
  <1>2. Most(n)
    OBVIOUS
  <1>3. ASSUME NEW m, Most(m) PROVE m = n
    <2>1. m \in Nat /\ n \in Nat /\ m <= n /\ n <= m
      BY <1>3
    <2>2. QED
      BY <2>1
  <1> HIDE DEF Most
  <1>4. QED
    BY <1>1, <1>2, <1>3

\* What is trimmed away is the space around what is no space.
LEMMA TrimmedAt ==
  ASSUME NEW S, NEW text \in Seq(S), NEW a \in DOMAIN text, NEW b \in DOMAIN text,
         text[a] \notin Space, text[b] \notin Space,
         \A i \in DOMAIN text : i < a \/ b < i => text[i] \in Space
  PROVE  Trim(text) = SubSeq(text, a, b)
  <1> DEFINE solid == {i \in DOMAIN text : text[i] \notin Space}
  <1>1. /\ solid \subseteq Nat /\ a \in solid /\ b \in solid
        /\ \A m \in solid : a <= m /\ m <= b
    OBVIOUS
  <1>2. Trim(text) = IF solid = {} THEN <<>>
                     ELSE SubSeq(text, Min(solid), Max(solid))
    BY DEF Trim
  <1> HIDE DEF solid
  <1>3. Min(solid) = a /\ Max(solid) = b
    BY <1>1, FirstPlace, LastPlace
  <1>4. QED
    BY <1>1, <1>2, <1>3

Solid(text) == text # <<>> /\ text[1] \notin Space /\ text[Len(text)] \notin Space

\* Space around a text that begins and ends with none is trimmed.
LEMMA Padded ==
  ASSUME NEW S, NEW text \in Seq(S), Solid(text), NEW pad \in Space, pad \in S
  PROVE  /\ Trim(text) = text
         /\ Trim(<<pad>> \o text) = text
         /\ Trim(<<pad>> \o text \o <<pad>>) = text
  <1> DEFINE n == Len(text)
  <1>1. n \in Nat /\ n >= 1 /\ DOMAIN text = 1 .. n
    BY EmptySeq, LenProperties DEF Solid
  <1>2. /\ <<pad>> \in Seq(S) /\ Len(<<pad>>) = 1 /\ <<pad>>[1] = pad
    OBVIOUS
  <1>3. Trim(text) = text
    <2>1. /\ 1 \in DOMAIN text /\ n \in DOMAIN text
          /\ \A i \in DOMAIN text : ~(i < 1 \/ n < i)
      BY <1>1
    <2>2. text[1] \notin Space /\ text[n] \notin Space
      BY DEF Solid
    <2>3. Trim(text) = SubSeq(text, 1, n)
      BY <2>1, <2>2, TrimmedAt
    <2>4. QED
      BY <2>3, SubSeqFull
  <1>4. PICK left : left = <<pad>> \o text
    OBVIOUS
  <1>5. PICK both : both = left \o <<pad>>
    OBVIOUS
  <1>6. /\ left \in Seq(S) /\ Len(left) = n + 1 /\ left[1] = pad
        /\ \A i \in 1 .. n : left[i + 1] = text[i]
    <2>1. /\ left \in Seq(S) /\ Len(left) = 1 + n
          /\ \A i \in 1 .. 1 + n : left[i] = IF i <= 1 THEN <<pad>>[i]
                                             ELSE text[i - 1]
      BY <1>2, <1>4, ConcatProperties
    <2>2. QED
      BY <1>1, <1>2, <2>1
  <1>7. /\ both \in Seq(S) /\ Len(both) = n + 2
        /\ both[1] = pad /\ both[n + 2] = pad
        /\ \A i \in 1 .. n : both[i + 1] = text[i]
    <2>1. /\ both \in Seq(S) /\ Len(both) = n + 1 + 1
          /\ \A i \in 1 .. n + 1 + 1 :
               both[i] = IF i <= n + 1 THEN left[i] ELSE <<pad>>[i - (n + 1)]
      BY <1>2, <1>5, <1>6, ConcatProperties
    <2>2. QED
      BY <1>1, <1>2, <1>6, <2>1
  <1>8. ASSUME NEW t \in Seq(S), Len(t) >= n + 1, 
               \A i \in 1 .. n : t[i + 1] = text[i],
               \A i \in DOMAIN t : i < 2 \/ n + 1 < i => t[i] \in Space
        PROVE  Trim(t) = text
    <2>1. DOMAIN t = 1 .. Len(t) /\ Len(t) \in Nat
      BY <1>8, LenProperties
    <2>2. t[2] = text[1] /\ t[n + 1] = text[n]
      BY <1>1, <1>8
    <2>3. Trim(t) = SubSeq(t, 2, n + 1)
      <3>1. 2 \in DOMAIN t /\ n + 1 \in DOMAIN t
        BY <1>1, <1>8, <2>1
      <3>2. t[2] \notin Space /\ t[n + 1] \notin Space
        BY <2>2 DEF Solid
      <3>3. QED
        BY <1>8, <3>1, <3>2, TrimmedAt
    <2>4. \A i \in 2 .. n + 1 : t[i] \in S
      BY <1>1, <1>8, <2>1, ElementOfSeq
    <2>5. /\ SubSeq(t, 2, n + 1) \in Seq(S)
          /\ Len(SubSeq(t, 2, n + 1)) = n
          /\ \A i \in 1 .. n : SubSeq(t, 2, n + 1)[i] = t[2 + i - 1]
      BY <1>1, <2>4, SubSeqProperties
    <2>6. SubSeq(t, 2, n + 1) = text
      BY <1>1, <1>8, <2>5, SeqEqual
    <2>7. QED
      BY <2>3, <2>6
  <1>9. Trim(left) = text
    <2>1. DOMAIN left = 1 .. n + 1
      BY <1>6, LenProperties
    <2>2. QED
      BY <1>1, <1>6, <1>8, <2>1
  <1>10. Trim(both) = text
    <2>1. DOMAIN both = 1 .. n + 2
      BY <1>7, LenProperties
    <2>2. QED
      BY <1>1, <1>7, <1>8, <2>1
  <1>11. QED
    BY <1>3, <1>4, <1>5, <1>9, <1>10

\* Quotes are no space, and come off together.
LEMMA Layer ==
  ASSUME NEW S, NEW text \in Seq(S), NEW q \in Quotes, q \in S
  PROVE  /\ <<q>> \o text \o <<q>> \in Seq(S)
         /\ Solid(<<q>> \o text \o <<q>>)
         /\ Unquote(<<q>> \o text \o <<q>>) = Trim(text)
  <1> DEFINE n == Len(text)
  <1>1. n \in Nat
    BY LenProperties
  <1>2. /\ <<q>> \in Seq(S) /\ Len(<<q>>) = 1 /\ <<q>>[1] = q
    OBVIOUS
  <1>3. PICK left : left = <<q>> \o text
    OBVIOUS
  <1>4. PICK both : both = left \o <<q>>
    OBVIOUS
  <1>5. /\ left \in Seq(S) /\ Len(left) = 1 + n
        /\ \A i \in 1 .. 1 + n : left[i] = IF i <= 1 THEN <<q>>[i]
                                           ELSE text[i - 1]
    BY <1>2, <1>3, ConcatProperties
  <1>6. /\ both \in Seq(S) /\ Len(both) = 1 + n + 1
        /\ \A i \in 1 .. 1 + n + 1 :
             both[i] = IF i <= 1 + n THEN left[i] ELSE <<q>>[i - (1 + n)]
    BY <1>2, <1>4, <1>5, ConcatProperties
  <1>7. /\ Len(both) = n + 2 /\ both[1] = q /\ both[n + 2] = q
        /\ \A i \in 1 .. n : both[i + 1] = text[i]
    BY <1>1, <1>2, <1>5, <1>6
  <1>8. q \notin Space
    BY Zenon DEF Quotes, Space
  <1>9. both # <<>>
    BY <1>1, <1>7, EmptySeq
  <1>10. Unquote(both) = Trim(SubSeq(both, 2, n + 1))
    BY <1>1, <1>7 DEF Unquote
  <1>11. \A i \in 2 .. n + 1 : both[i] \in S
    BY <1>1, <1>6, <1>7, ElementOfSeq
  <1>12. /\ SubSeq(both, 2, n + 1) \in Seq(S)
         /\ Len(SubSeq(both, 2, n + 1)) = n
         /\ \A i \in 1 .. n : SubSeq(both, 2, n + 1)[i] = both[2 + i - 1]
    <2>1. (IF 2 <= n + 1 THEN n + 1 - 2 + 1 ELSE 0) = n /\ n + 1 - 2 + 1 = n
      BY <1>1
    <2>2. QED
      BY <1>1, <1>11, <2>1, SubSeqProperties
  <1>13. SubSeq(both, 2, n + 1) = text
    BY <1>1, <1>7, <1>12, SeqEqual
  <1>14. QED
    BY <1>3, <1>4, <1>6, <1>7, <1>8, <1>9, <1>10, <1>13 DEF Solid

InLayers(text, a, b, c) ==
  <<a>> \o (<<b>> \o (<<c>> \o text \o <<c>>) \o <<b>>) \o <<a>>

\* Three characters before and behind are three layers.
LEMMA ThreeLayers ==
  ASSUME NEW S, NEW text \in Seq(S), NEW a \in S, NEW b \in S, NEW c \in S
  PROVE  <<a, b, c>> \o text \o <<c, b, a>> = InLayers(text, a, b, c)
  <1>1. /\ <<a>> \in Seq(S) /\ <<b>> \in Seq(S) /\ <<c>> \in Seq(S)
        /\ <<a, b>> \in Seq(S) /\ <<b, a>> \in Seq(S)
        /\ <<a, b, c>> \in Seq(S) /\ <<c, b, a>> \in Seq(S)
    OBVIOUS
  <1>2. ASSUME NEW x \in S, NEW y \in S
        PROVE  <<x, y>> = <<x>> \o <<y>>
    <2>1. PICK s : s = <<x>> \o <<y>>
      OBVIOUS
    <2>2. <<x>> \in Seq(S) /\ <<y>> \in Seq(S) /\ Len(<<x>>) = 1 /\ Len(<<y>>) = 1
      OBVIOUS
    <2>3. /\ s \in Seq(S) /\ Len(s) = 1 + 1
          /\ \A i \in 1 .. 1 + 1 : s[i] = IF i <= 1 THEN <<x>>[i] ELSE <<y>>[i - 1]
      BY <2>1, <2>2, ConcatProperties
    <2>4. s = <<x, y>>
      BY <2>3
    <2>5. QED
      BY <2>1, <2>4
  <1>3. ASSUME NEW x \in S, NEW y \in S, NEW z \in S
        PROVE  <<x, y, z>> = <<x>> \o (<<y>> \o <<z>>)
    <2>1. PICK r : r = <<y>> \o <<z>>
      OBVIOUS
    <2>2. r = <<y, z>>
      BY <1>2, <2>1
    <2>3. PICK l : l = <<x>>
      OBVIOUS
    <2>4. PICK s : s = l \o r
      OBVIOUS
    <2>5. /\ l \in Seq(S) /\ Len(l) = 1 /\ l[1] = x
          /\ r \in Seq(S) /\ Len(r) = 2 /\ r[1] = y /\ r[2] = z
      BY <2>2, <2>3
    <2>6. /\ s \in Seq(S) /\ Len(s) = Len(l) + Len(r)
          /\ \A i \in 1 .. Len(l) + Len(r) :
               s[i] = IF i <= Len(l) THEN l[i] ELSE r[i - Len(l)]
      BY <2>4, <2>5, ConcatProperties
    <2>7. s = <<x, y, z>>
      BY <2>5, <2>6
    <2>8. QED
      BY <2>1, <2>3, <2>4, <2>7
  <1> DEFINE A == <<a>>
             B == <<b>>
             C == <<c>>
  <1>4. <<a, b, c>> = A \o (B \o C) /\ <<c, b, a>> = C \o (B \o A)
    BY <1>3
  <1>5. A \in Seq(S) /\ B \in Seq(S) /\ C \in Seq(S)
    BY <1>1
  <1> DEFINE cat(s, t) == s \o t
  <1>6. /\ \A s, t \in Seq(S) : cat(s, t) \in Seq(S)
        /\ \A s, t, u \in Seq(S) : cat(cat(s, t), u) = cat(s, cat(t, u))
    BY ConcatAssociative, ConcatProperties
  <1> HIDE DEF A, B, C, cat
  <1>7. cat(cat(cat(A, cat(B, C)), text), cat(C, cat(B, A)))
          = cat(cat(A, cat(cat(B, cat(cat(C, text), C)), B)), A)
    <2>1. PICK D \in Seq(S) : D = cat(C, text)
      BY <1>5, <1>6
    <2>2. PICK E \in Seq(S) : E = cat(B, D)
      BY <1>5, <1>6
    <2>3. PICK F \in Seq(S) : F = cat(cat(B, cat(D, C)), B)
      BY <1>5, <1>6
    <2>4. PICK G \in Seq(S) : G = cat(B, A)
      BY <1>5, <1>6
    <2>5. cat(cat(A, cat(B, C)), text) = cat(A, E)
      BY <1>5, <1>6, <2>1, <2>2
    <2>6. cat(E, cat(C, G)) = cat(F, A)
      <3>1. cat(E, C) = cat(B, cat(D, C))
        BY <1>5, <1>6, <2>2
      <3>2. cat(E, cat(C, G)) = cat(cat(E, C), G)
        BY <1>5, <1>6
      <3>3. cat(cat(E, C), G) = cat(cat(cat(E, C), B), A)
        <4>1. PICK H \in Seq(S) : H = cat(E, C)
          BY <1>5, <1>6
        <4>2. cat(H, G) = cat(cat(H, B), A)
          BY <1>5, <1>6, <2>4
        <4>3. QED
          BY <4>1, <4>2
      <3>4. QED
        BY <2>3, <3>1, <3>2, <3>3
    <2>7. cat(cat(A, E), cat(C, G)) = cat(A, cat(F, A))
      BY <1>5, <1>6, <2>6
    <2>8. QED
      BY <1>5, <1>6, <2>1, <2>3, <2>4, <2>5, <2>7
  <1>8. QED
    BY <1>4, <1>7 DEF A, B, C, cat, InLayers

\* Layers of quotes and spaces are taken off.
LEMMA QuotesComeOff ==
  ASSUME NEW S, NEW text \in Seq(S), Solid(text), Unquote(text) = text,
         NEW q \in Quotes, q \in S, NEW d \in Quotes, d \in S,
         NEW sp \in Space, sp \in S
  PROVE  /\ Clean(text) = text
         /\ Clean(<<q>> \o text \o <<q>>) = text
         /\ Clean(<<sp>> \o (<<d>> \o text \o <<d>>)) = text
         /\ Clean(<<q, sp, d>> \o text \o <<d, sp, q>>) = text
  <1> DEFINE quoted(t, c) == <<c>> \o t \o <<c>>
             padded(t)    == <<sp>> \o t \o <<sp>>
  <1>1. Trim(text) = text
    BY Padded
  <1>2. ASSUME NEW t \in Seq(S), NEW c \in Quotes, c \in S
        PROVE  /\ quoted(t, c) \in Seq(S) /\ Solid(quoted(t, c))
               /\ Trim(quoted(t, c)) = quoted(t, c)
               /\ Unquote(quoted(t, c)) = Trim(t)
    <2>1. /\ quoted(t, c) \in Seq(S) /\ Solid(quoted(t, c))
          /\ Unquote(quoted(t, c)) = Trim(t)
      BY <1>2, Layer
    <2> HIDE DEF quoted
    <2>2. Trim(quoted(t, c)) = quoted(t, c)
      BY <2>1, Padded
    <2>3. QED
      BY <2>1, <2>2
  <1>3. /\ Trim(<<sp>> \o quoted(text, d)) = quoted(text, d)
        /\ Trim(padded(quoted(text, d))) = quoted(text, d)
    BY <1>2, Padded
  <1>4. padded(quoted(text, d)) \in Seq(S)
    <2>1. <<sp>> \in Seq(S)
      OBVIOUS
    <2> HIDE DEF quoted
    <2>2. QED
      BY <1>2, <2>1, ConcatProperties
  <1> HIDE DEF quoted, padded
  <1>5. Clean(text) = text
    BY <1>1 DEF Clean
  <1>6. Clean(quoted(text, q)) = text
    BY <1>1, <1>2 DEF Clean
  <1>7. Clean(<<sp>> \o quoted(text, d)) = text
    BY <1>1, <1>2, <1>3 DEF Clean
  <1>8. Clean(quoted(padded(quoted(text, d)), q)) = text
    BY <1>1, <1>2, <1>3, <1>4 DEF Clean
  <1>9. InLayers(text, q, sp, d) = quoted(padded(quoted(text, d)), q)
    BY DEF InLayers, quoted, padded
  <1>10. <<q, sp, d>> \o text \o <<d, sp, q>> = InLayers(text, q, sp, d)
    BY ThreeLayers
  <1>11. QED
    BY <1>5, <1>6, <1>7, <1>8, <1>9, <1>10 DEF quoted

JSONText == <<"JSON">>

\* However the text with a document is quoted, the document is found.
LEMMA DocumentIsClean ==
  ASSUME NEW json, NEW cookies,
         NEW text \in Quoted(Written(JSONText, json, cookies))
  PROVE  /\ Clean(text.chars) = JSONText /\ text.json = json
         /\ text.jar = LoadIntoSession(Kept(cookies))
         /\ text.kind = "written"
  <1> DEFINE t == Written(JSONText, json, cookies)
             around(q) == [t EXCEPT !.chars = q \o @ \o q]
  <1>1. DOMAIN t = {"kind", "chars", "json", "jar"} /\ t.kind = "written"
        /\ t.json = json /\ t.chars = JSONText
        /\ t.jar = LoadIntoSession(Kept(cookies))
    BY DEF Written
  <1> HIDE DEF t
  <1>2. PICK S : S = {"JSON", "'", "DQ", "SP", "NL"}
    OBVIOUS
  <1>3. PICK q \in S : q = "'"
    BY <1>2, Zenon
  <1>4. PICK d \in S : d = "DQ"
    BY <1>2, Zenon
  <1>5. PICK sp \in S : sp = "SP"
    BY <1>2, Zenon
  <1>6. PICK nl \in S : nl = "NL"
    BY <1>2, Zenon
  <1>7. q \in Quotes /\ d \in Quotes /\ sp \in Space /\ nl \in Space
    BY <1>3, <1>4, <1>5, <1>6, Zenon DEF Quotes, Space
  <1>8. JSONText \in Seq(S) /\ Solid(JSONText) /\ Unquote(JSONText) = JSONText
    <2>1. PICK j \in S : j = "JSON"
      BY <1>2, Zenon
    <2>2. j \notin Space
      BY <2>1, Zenon DEF Space
    <2>3. <<j>> \in Seq(S) /\ Solid(<<j>>) /\ Unquote(<<j>>) = <<j>>
      BY <2>2 DEF Solid, Unquote
    <2>4. QED
      BY <2>1, <2>3 DEF JSONText
  <1>9. Quoted(t) =
          {t, around(<<q>>),
           [around(<<d>>) EXCEPT !.chars = <<nl>> \o @],
           [t EXCEPT !.chars = <<q, sp, d>> \o @ \o <<d, sp, q>>]}
    BY <1>3, <1>4, <1>5, <1>6, Zenon DEF Quoted
  <1>10. ASSUME NEW c
         PROVE  /\ DOMAIN around(c) = {"kind", "chars", "json", "jar"}
                /\ around(c).chars = c \o JSONText \o c
                /\ around(c).kind = "written" /\ around(c).json = json
                /\ around(c).jar = LoadIntoSession(Kept(cookies))
    BY <1>1
  <1> HIDE DEF JSONText
  <1>11. /\ Clean(JSONText) = JSONText
         /\ Clean(<<q>> \o JSONText \o <<q>>) = JSONText
         /\ Clean(<<nl>> \o (<<d>> \o JSONText \o <<d>>)) = JSONText
         /\ Clean(<<q, sp, d>> \o JSONText \o <<d, sp, q>>) = JSONText
    <2>1. /\ Clean(JSONText) = JSONText
          /\ Clean(<<q>> \o JSONText \o <<q>>) = JSONText
          /\ Clean(<<q, sp, d>> \o JSONText \o <<d, sp, q>>) = JSONText
      BY <1>7, <1>8, QuotesComeOff
    <2>2. Clean(<<nl>> \o (<<d>> \o JSONText \o <<d>>)) = JSONText
      BY <1>7, <1>8, QuotesComeOff
    <2>3. QED
      BY <2>1, <2>2
  <1>12. CASE text = t
    BY <1>1, <1>11, <1>12
  <1>13. CASE text = around(<<q>>)
    BY <1>10, <1>11, <1>13
  <1>14. CASE text = [around(<<d>>) EXCEPT !.chars = <<nl>> \o @]
    BY <1>10, <1>11, <1>14
  <1>15. CASE text = [t EXCEPT !.chars = <<q, sp, d>> \o @ \o <<d, sp, q>>]
    BY <1>1, <1>11, <1>15
  <1>16. QED
    BY <1>9, <1>12, <1>13, <1>14, <1>15 DEF t

\* A cookie as a session keeps it.
Whole(c) == [c EXCEPT !.domain = IF @ = <<>> THEN Google ELSE @,
                      !.path = IF @ = <<>> THEN Root ELSE @]

\* A cookie without a domain is one of the default domain.
LEMMA SameWhole ==
  ASSUME NEW c, NEW d, DOMAIN c = Fields, DOMAIN d = Fields,
         c.name = d.name, c.value = d.value, c.secure = d.secure,
         c.httpOnly = d.httpOnly, c.expires = d.expires, c.path = d.path,
         c.domain = d.domain \/ (c.domain = <<>> /\ d.domain = Google)
  PROVE  Whole(c) = Whole(d)
  <1>1. Google # <<>>
    BY DEF Google
  <1>2. /\ DOMAIN Whole(c) = Fields /\ DOMAIN Whole(d) = Fields
        /\ \A f \in Fields : Whole(c)[f] = Whole(d)[f]
    BY <1>1 DEF Whole, Fields
  <1>3. QED
    BY <1>2 DEF Whole

\* Lists of cookies that are kept alike fill a session alike.
LEMMA LoadedAlike ==
  ASSUME NEW f, NEW g, DOMAIN f = DOMAIN g,
         \A i \in DOMAIN f : /\ f[i].name = g[i].name /\ f[i].value = g[i].value
                             /\ Whole(f[i]) = Whole(g[i])
  PROVE  LoadIntoSession(Kept(f)) = LoadIntoSession(Kept(g))
  <1> DEFINE wholes(list) == [i \in DOMAIN list |-> Whole(list[i])]
             places == {i \in DOMAIN f : HasNameAndValue(f[i])}
  <1>1. places = {i \in DOMAIN g : HasNameAndValue(g[i])}
    BY DEF HasNameAndValue
  <1>2. /\ DOMAIN Kept(f) = places /\ \A i \in places : Kept(f)[i] = f[i]
        /\ DOMAIN Kept(g) = places /\ \A i \in places : Kept(g)[i] = g[i]
    BY <1>1 DEF Kept, Restrict
  <1>3. wholes(Kept(f)) = wholes(Kept(g))
    BY <1>2
  <1>4. ASSUME NEW list
        PROVE  LoadIntoSession(list) =
                 LET whole  == wholes(list)
                     key(i) == <<whole[i].name, whole[i].domain, whole[i].path>>
                 IN {whole[i] : i \in {j \in DOMAIN whole :
                       \A k \in DOMAIN whole : k > j => key(k) # key(j)}}
    BY Zenon DEF LoadIntoSession, Whole
  <1> HIDE DEF wholes
  <1>5. QED
    BY <1>3, <1>4

\* The cookies of a browser have no space around name and value, and a path.
Trimmed(cookies) ==
  \A i \in DOMAIN cookies :
    /\ Trim(cookies[i].name) = cookies[i].name
    /\ Trim(cookies[i].value) = cookies[i].value
    /\ cookies[i].path # <<>>

\* A document gives the cookies it was written for.
ReadsAs(json, cookies) ==
  \E list : /\ ExtractFromJSON(JSONText, json) = Kept(list)
            /\ LoadIntoSession(Kept(list)) = LoadIntoSession(Kept(cookies))

\* A text a browser writes has no document, or one read as its cookies.
LEMMA DocumentsAreRead ==
  ASSUME NEW cookies, CookieList(cookies), Trimmed(cookies),
         NEW t \in PlainTexts(cookies) \cup JSONTexts(cookies)
  PROVE  \/ \E chars, list : t = Written(chars, NoJSON, list)
         \/ \E json, list : t = Written(JSONText, json, list) /\ ReadsAs(json, list)
  <1> DEFINE sent  == SentOf(cookies)
             plain == [i \in DOMAIN sent |-> Plain(sent[i].name, sent[i].value)]
             expiring == [i \in DOMAIN cookies |->
          [name |-> cookies[i].name, value |-> cookies[i].value,
           domain |-> cookies[i].domain, path |-> cookies[i].path,
           secure |-> cookies[i].secure, httpOnly |-> cookies[i].httpOnly,
           expirationDate |-> cookies[i].expires]]
             bare == [i \in DOMAIN cookies |->
          [name |-> cookies[i].name, value |-> cookies[i].value,
           domain |-> cookies[i].domain]]
             asBare(c) == [c EXCEPT !.path = Root, !.secure = FALSE,
                                    !.httpOnly = FALSE, !.expires = 0]
             pairs == [i \in DOMAIN sent |->
          [name |-> sent[i].name, value |-> sent[i].value]]
             bares == [i \in DOMAIN cookies |-> asBare(cookies[i])]
             sents == [i \in DOMAIN sent |->
                         [asBare(sent[i]) EXCEPT !.domain = Google]]
  <1>1. \/ \E chars, list : t = Written(chars, NoJSON, list)
        \/ t = Written(JSONText, [flat |-> plain], plain)
        \/ t = Written(JSONText, [list |-> expiring], cookies)
        \/ t = Written(JSONText, [cookies |-> cookies], cookies)
        \/ t = Written(JSONText, [list |-> bare], bares)
        \/ t = Written(JSONText, [list |-> pairs], sents)
    BY Zenon DEF PlainTexts, JSONTexts, JSONText
  <1>2. /\ DOMAIN sent \subseteq DOMAIN cookies
        /\ \A i \in DOMAIN sent : sent[i] = cookies[i]
    BY DEF SentOf, Restrict
  <1>3. \A i \in DOMAIN cookies :
          /\ IsCookie(cookies[i])
          /\ Trim(cookies[i].name) = cookies[i].name
          /\ Trim(cookies[i].value) = cookies[i].value
          /\ cookies[i].path # <<>>
    BY DEF CookieList, Trimmed
  <1> HIDE DEF sent
  <1>4. ReadsAs([flat |-> plain], plain)
    <2>1. ExtractFromJSON(JSONText, [flat |-> plain]) =
            Kept([i \in DOMAIN plain |->
                    Plain(Trim(plain[i].name), Trim(plain[i].value))])
      BY DEF ExtractFromJSON, JSONText
    <2>2. \A i \in DOMAIN plain :
            Plain(Trim(plain[i].name), Trim(plain[i].value)) = plain[i]
      BY <1>2, <1>3 DEF Plain
    <2>3. [i \in DOMAIN plain |->
             Plain(Trim(plain[i].name), Trim(plain[i].value))] = plain
      BY <2>2
    <2>4. QED
      BY <2>1, <2>3 DEF ReadsAs
  <1>5. ASSUME NEW objects, NEW written, DOMAIN objects = DOMAIN written,
               \A i \in DOMAIN written :
                 /\ FromObject(objects[i]).name = written[i].name
                 /\ FromObject(objects[i]).value = written[i].value
                 /\ Whole(FromObject(objects[i])) = Whole(written[i])
        PROVE  /\ ReadsAs([list |-> objects], written)
               /\ ReadsAs([cookies |-> objects], written)
    <2> DEFINE read == [i \in DOMAIN objects |-> FromObject(objects[i])]
    <2>1. LoadIntoSession(Kept(read)) = LoadIntoSession(Kept(written))
      BY <1>5, LoadedAlike
    <2>2. /\ ExtractFromJSON(JSONText, [list |-> objects]) = Kept(read)
          /\ ExtractFromJSON(JSONText, [cookies |-> objects]) = Kept(read)
      BY DEF ExtractFromJSON, JSONText
    <2>3. QED
      BY <2>1, <2>2 DEF ReadsAs
  <1>6. ReadsAs([list |-> expiring], cookies)
    <2>1. ASSUME NEW i \in DOMAIN cookies
          PROVE  /\ FromObject(expiring[i]).name = cookies[i].name
                 /\ FromObject(expiring[i]).value = cookies[i].value
                 /\ Whole(FromObject(expiring[i])) = Whole(cookies[i])
      <3>1. PICK c : c = cookies[i]
        OBVIOUS
      <3>2. PICK d : d = FromObject(expiring[i])
        OBVIOUS
      <3>3. DOMAIN c = Fields /\ DOMAIN d = Fields
        BY <1>3, <3>1, <3>2 DEF FromObject, IsCookie, Fields
      <3>4. /\ d.name = c.name /\ d.value = c.value /\ d.secure = c.secure
            /\ d.httpOnly = c.httpOnly /\ d.expires = c.expires
            /\ d.path = c.path /\ d.domain = c.domain
        BY <1>3, <3>1, <3>2 DEF FromObject, Field, IsCookie, Fields
      <3>5. Whole(d) = Whole(c)
        BY <3>3, <3>4, SameWhole
      <3>6. QED
        BY <3>1, <3>2, <3>4, <3>5
    <2>2. QED
      BY <1>5, <2>1
  <1>7. ReadsAs([cookies |-> cookies], cookies)
    <2>1. ASSUME NEW i \in DOMAIN cookies
          PROVE  /\ FromObject(cookies[i]).name = cookies[i].name
                 /\ FromObject(cookies[i]).value = cookies[i].value
                 /\ Whole(FromObject(cookies[i])) = Whole(cookies[i])
      <3>1. PICK c : c = cookies[i]
        OBVIOUS
      <3>2. PICK d : d = FromObject(cookies[i])
        OBVIOUS
      <3>3. DOMAIN c = Fields /\ DOMAIN d = Fields
        BY <1>3, <3>1, <3>2 DEF FromObject, IsCookie, Fields
      <3>4. /\ d.name = c.name /\ d.value = c.value /\ d.secure = c.secure
            /\ d.httpOnly = c.httpOnly /\ d.expires = c.expires
            /\ d.path = c.path /\ d.domain = c.domain
        <4>1. DOMAIN c = Fields /\ c.httpOnly \in BOOLEAN /\ c.path # <<>>
              /\ Trim(c.name) = c.name /\ Trim(c.value) = c.value
          BY <1>3, <3>1 DEF IsCookie
        <4>2. /\ Field(c, "name", <<>>) = c.name
              /\ Field(c, "value", <<>>) = c.value
              /\ Field(c, "domain", <<>>) = c.domain
              /\ Field(c, "path", <<>>) = c.path
              /\ Field(c, "secure", FALSE) = c.secure
              /\ Field(c, "httpOnly", FALSE) = c.httpOnly
              /\ Field(c, "http_only", FALSE) = FALSE
              /\ Field(c, "expirationDate", Field(c, "expires", 0)) = c.expires
          BY <4>1 DEF Field, Fields
        <4>3. d = FromObject(c)
          BY <3>1, <3>2
        <4>4. QED
          BY <4>1, <4>2, <4>3 DEF FromObject
      <3>5. Whole(d) = Whole(c)
        BY <3>3, <3>4, SameWhole
      <3>6. QED
        BY <3>1, <3>2, <3>4, <3>5
    <2>2. QED
      BY <1>5, <2>1
  <1>8. ReadsAs([list |-> bare], bares)
    <2>1. ASSUME NEW i \in DOMAIN cookies
          PROVE  FromObject(bare[i]) = bares[i]
      BY <1>3 DEF FromObject, Field, IsCookie, Fields
    <2>2. QED
      BY <1>5, <2>1
  <1>9. ReadsAs([list |-> pairs], sents)
    <2>1. ASSUME NEW i \in DOMAIN sent
          PROVE  /\ FromObject(pairs[i]).name = sents[i].name
                 /\ FromObject(pairs[i]).value = sents[i].value
                 /\ Whole(FromObject(pairs[i])) = Whole(sents[i])
      <3>1. PICK c : c = sents[i]
        OBVIOUS
      <3>2. PICK d : d = FromObject(pairs[i])
        OBVIOUS
      <3>3. DOMAIN c = Fields /\ DOMAIN d = Fields
        BY <1>2, <1>3, <3>1, <3>2 DEF FromObject, IsCookie, Fields
      <3>4. /\ c.name = sent[i].name /\ c.value = sent[i].value
            /\ c.secure = FALSE /\ c.httpOnly = FALSE /\ c.expires = 0
            /\ c.path = Root /\ c.domain = Google
        BY <1>2, <1>3, <3>1 DEF IsCookie, Fields
      <3>5. /\ d.name = sent[i].name /\ d.value = sent[i].value
            /\ d.secure = FALSE /\ d.httpOnly = FALSE /\ d.expires = 0
            /\ d.path = Root /\ d.domain = <<>>
        BY <1>2, <1>3, <3>2 DEF FromObject, Field
      <3>6. Whole(d) = Whole(c)
        BY <3>3, <3>4, <3>5, SameWhole
      <3>7. QED
        BY <3>1, <3>2, <3>4, <3>5, <3>6
    <2>2. DOMAIN pairs = DOMAIN sent /\ DOMAIN sents = DOMAIN sent
      OBVIOUS
    <2> HIDE DEF pairs, sents
    <2>3. QED
      BY <1>5, <2>1, <2>2
  <1>10. QED
    BY <1>1, <1>4, <1>6, <1>7, <1>8, <1>9

\* Quotes change the characters only.
LEMMA QuotedKeeps ==
  ASSUME NEW chars, NEW json, NEW cookies,
         NEW text \in Quoted(Written(chars, json, cookies))
  PROVE  text.json = json
  <1> DEFINE t == Written(chars, json, cookies)
  <1>1. DOMAIN t = {"kind", "chars", "json", "jar"} /\ t.json = json
    BY DEF Written
  <1> HIDE DEF t
  <1>2. \A u, c : DOMAIN u = {"kind", "chars", "json", "jar"} =>
          /\ DOMAIN [u EXCEPT !.chars = c] = {"kind", "chars", "json", "jar"}
          /\ [u EXCEPT !.chars = c].json = u.json
    OBVIOUS
  <1>3. \/ \E c : text = [t EXCEPT !.chars = c]
        \/ \E c, e : text = [[t EXCEPT !.chars = c] EXCEPT !.chars = e]
        \/ text = t
    BY Zenon DEF Quoted, t
  <1>4. QED
    BY <1>1, <1>2, <1>3

\* A login adds no space around a browser's cookies.
LEMMA BrowsersAreTrimmed ==
  ASSUME NEW b \in Browser, login \in DOMAIN Logins
  PROVE  Trimmed(WithLogin(b))
  <1>1. Logins[login] \notin Space
    BY BrowserAssumption
  <1>2. PICK value : value = <<Logins[login]>>
    OBVIOUS
  <1>3. Trim(value) = value
    <2>1. PICK S : S = {Logins[login]}
      OBVIOUS
    <2>2. value \in Seq(S) /\ Solid(value)
      BY <1>1, <1>2, <2>1 DEF Solid
    <2>3. QED
      <3>1. 1 \in DOMAIN value /\ \A i \in DOMAIN value : ~(i < 1 \/ 1 < i)
            /\ value[1] \notin Space
        BY <1>1, <1>2
      <3>2. Trim(value) = SubSeq(value, 1, 1)
        BY <2>2, <3>1, TrimmedAt
      <3>3. Len(value) = 1
        BY <1>2
      <3>4. QED
        BY <2>2, <3>2, <3>3, SubSeqFull
  <1>4. ASSUME NEW i \in DOMAIN b
        PROVE  LET c == WithLogin(b)[i]
               IN /\ Trim(c.name) = c.name /\ Trim(c.value) = c.value
                  /\ c.path # <<>>
    <2>1. b[i] \in Cookie
      BY SessionAssumption
    <2>2. PICK v : WithLogin(b)[i] = [b[i] EXCEPT !.value = v]
                   /\ v \in {value, b[i].value}
      BY <1>2 DEF WithLogin
    <2>3. /\ WithLogin(b)[i].name = b[i].name /\ WithLogin(b)[i].value = v
          /\ WithLogin(b)[i].path = b[i].path
      BY <2>1, <2>2 DEF Cookie
    <2>4. QED
      BY <1>3, <2>2, <2>3, BrowserAssumption
  <1>5. DOMAIN WithLogin(b) = DOMAIN b
    BY DEF WithLogin
  <1>6. QED
    BY <1>4, <1>5 DEF Trimmed

\* A text with a document that holds a cookie gives what it was written for.
LEMMA TextsAreRead ==
  ASSUME login \in DOMAIN Logins, NEW text \in CookieTexts,
         "none" \notin DOMAIN text.json, text.jar # {}
  PROVE  LoadIntoSession(ParseCookies(text)) = text.jar
  <1>1. PICK b \in Browser :
          \E t \in NetscapeTexts(WithLogin(b)) \cup PlainTexts(WithLogin(b))
                     \cup JSONTexts(WithLogin(b)) : text \in Quoted(t)
    BY DEF CookieTexts
  <1>2. PICK cookies : cookies = WithLogin(b)
    OBVIOUS
  <1>3. PICK t \in NetscapeTexts(cookies) \cup PlainTexts(cookies)
                     \cup JSONTexts(cookies) : text \in Quoted(t)
    BY <1>1, <1>2
  <1>4. CookieList(cookies)
    BY <1>2, BrowsersAreLists
  <1>5. Trimmed(cookies)
    BY <1>2, BrowsersAreTrimmed
  <1>6. \/ \E chars, list : t = Written(chars, NoJSON, list)
        \/ \E json, list : t = Written(JSONText, json, list) /\ ReadsAs(json, list)
    <2>1. CASE t \in NetscapeTexts(cookies)
      BY <2>1 DEF NetscapeTexts
    <2>2. QED
      BY <1>3, <1>4, <1>5, <2>1, DocumentsAreRead
  <1>7. ASSUME NEW chars, NEW list, t = Written(chars, NoJSON, list)
        PROVE  FALSE
    <2>1. text.json = NoJSON
      BY <1>3, <1>7, QuotedKeeps
    <2>2. QED
      BY <2>1 DEF NoJSON
  <1>8. ASSUME NEW json, NEW list, t = Written(JSONText, json, list),
               ReadsAs(json, list)
        PROVE  LoadIntoSession(ParseCookies(text)) = text.jar
    <2>1. /\ Clean(text.chars) = JSONText /\ text.json = json
          /\ text.jar = LoadIntoSession(Kept(list))
      BY <1>3, <1>8, DocumentIsClean
    <2>2. LoadIntoSession(ExtractFromJSON(JSONText, json)) = text.jar
      BY <1>8, <2>1 DEF ReadsAs
    <2>3. LoadIntoSession(<<>>) = {}
      BY DEF LoadIntoSession
    <2>4. ParseCookies(text) = ExtractFromJSON(JSONText, json)
      BY <2>1, <2>2, <2>3 DEF ParseCookies
    <2>5. QED
      BY <2>2, <2>4
  <1>9. QED
    BY <1>6, <1>7, <1>8

-----------------------------------------------------------------------------
(* What is loaded.                                                         *)

\* A text with a JSON document in which a cookie counts.
HoldsDocument ==
  held.kind = "written" /\ "none" \notin DOMAIN held.json /\ held.jar # {}

\* The document is read as it was written, before it is loaded and after.
LoadInv ==
  /\ TypeInv
  /\ HoldsDocument => LoadIntoSession(ParseCookies(held)) = held.jar
  /\ status = "loaded" /\ (HoldsDocument \/ held.kind = "blob") =>
       jar = held.jar

\* A step leaves what was loaded from a document the cookies it holds.
LEMMA LoadInvStep ==
  ASSUME LoadInv, [Next]_sessionVars
  PROVE  LoadInv'
  <1>1. TypeInv /\ TypeInv'
    BY TypeInvStep DEF LoadInv
  <1>2. CASE UNCHANGED <<held, status, jar>>
    BY <1>1, <1>2 DEF LoadInv, HoldsDocument
  <1>3. CASE TakeText
    <2>1. held' \in CookieTexts /\ status' = "none" /\ login \in DOMAIN Logins
      BY <1>1, <1>3 DEF TakeText, TypeInv
    <2>2. HoldsDocument' => LoadIntoSession(ParseCookies(held')) = held'.jar
      BY <2>1, TextsAreRead DEF HoldsDocument
    <2>3. QED
      BY <1>1, <2>1, <2>2 DEF LoadInv
  <1>4. CASE LoadCookies
    <2>1. held.kind # "blob" /\ jar' = LoadIntoSession(ParseCookies(held))
      BY <1>4 DEF LoadCookies
    <2>2. CASE held' = held
      BY <1>1, <2>1, <2>2 DEF LoadInv, HoldsDocument
    <2>3. CASE held' = NoText
      BY <1>1, <2>3 DEF LoadInv, HoldsDocument, NoText
    <2>4. QED
      BY <1>4, <2>2, <2>3 DEF LoadCookies
  <1>5. CASE UnmarshalBlob
    BY <1>1, <1>5 DEF UnmarshalBlob, LoadInv, HoldsDocument
  <1>6. CASE GetGlobalData \/ GlobalDataFails
    <2>1. held' = NoText
      BY <1>6 DEF GetGlobalData, GlobalDataFails
    <2>2. QED
      BY <1>1, <2>1 DEF LoadInv, HoldsDocument, NoText
  <1>7. CASE Export
    <2>1. held'.kind # "written"
      BY <1>7 DEF Export, Exported
    <2>2. status' = "live"
      BY <1>7 DEF Export
    <2>3. QED
      BY <1>1, <2>1, <2>2 DEF LoadInv, HoldsDocument
  <1>8. CASE CloseClient
    BY <1>1, <1>8 DEF CloseClient, LoadInv, HoldsDocument
  <1>9. CASE Renew \/ StartCall \/ Answered \/ AnsweredWithError \/ Refused
              \/ TransportFails \/ ReadPhotoPage \/ ReadQuotaPage
              \/ QuotaPageFails \/ Finish
    BY <1>2, <1>9 DEF Renew, StartCall, Answered, AnsweredWithError, Refused,
         TransportFails, ReadPhotoPage, ReadQuotaPage, QuotaPageFails, Finish
  <1>10. QED
    BY <1>2, <1>3, <1>4, <1>5, <1>6, <1>7, <1>8, <1>9 DEF Next, sessionVars

\* What was loaded from a document are the cookies it holds.
LEMMA LoadInvHolds == Spec => []LoadInv
  <1>1. Init => LoadInv
    BY TypeInvInit DEF Init, LoadInv, HoldsDocument, NoText
  <1>2. LoadInv /\ [Next]_sessionVars => LoadInv'
    BY LoadInvStep
  <1>3. QED
    BY <1>1, <1>2, PTL DEF Spec

\* Of a JSON text, a list, an object with a list or a dictionary, with any of
\* the attributes left out and in up to three layers of quotes, the session has
\* the cookies and no other (ParseCookies, extractFromJSON, core/cookies.go).
THEOREM DocumentsAreLoaded == Spec => [](HoldsDocument => LoadedAsWritten)
  <1>1. LoadInv => (HoldsDocument => LoadedAsWritten)
    BY DEF LoadInv, LoadedAsWritten
  <1>2. QED
    BY <1>1, LoadInvHolds, PTL

\* A session made from a blob has the jar the blob was made of
\* (GPWC_ExportSessionBlob, NewWebClientFromBlob).
THEOREM BlobsAreLoaded == Spec => [](held.kind = "blob" => ExportKeepsLogin)
  <1>1. LoadInv => (held.kind = "blob" => ExportKeepsLogin)
    BY DEF LoadInv, ExportKeepsLogin
  <1>2. QED
    BY <1>1, LoadInvHolds, PTL
=============================================================================
