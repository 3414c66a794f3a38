-------------------------- MODULE WebLibraryProofs --------------------------
(***************************************************************************)
(* Proofs about WebLibrary, for any sessions, listing and page size.       *)
(*                                                                         *)
(* The argument is that an item which has left the library stays out of it *)
(* whatever the sessions do, because only an import brings an item in and  *)
(* an item is imported once.  So what a session has achieved is not undone *)
(* by the others, and its invariant need only follow its own steps.        *)
(***************************************************************************)
EXTENDS WebLibrary, FiniteSetTheorems, WellFoundedInduction, TLAPS

Out(i)   == place[i] \in {"trash", "gone"}
Known(i) == i \in Items /\ place[i] # "absent"

\* The item of an import is not in the account, and nobody else's.
ImportInv(s) ==
  at[s] = "susgud" =>
    /\ item[s] \in Items
    /\ place[item[s]] = "absent"
    /\ \A t \in Sessions \ {s} : item[t] # item[s]

\* Which steps belong to which operation, and what is unset before and after.
ControlInv(s) ==
  /\ at[s] \in {"susgud", "trash", "resolve"} => oper[s] \in {"import", "cleanup"}
  /\ at[s] = "dtrash" => oper[s] = "delete"
  /\ at[s] \in {"lookup", "atrash", "adelete"} => oper[s] = "apidelete"
  /\ at[s] \in {"list", "rtrash", "next"} => oper[s] = "reset"
  /\ at[s] = "idle" => page[s] = 0
  /\ at[s] = "idle" \/ oper[s] # "reset" => counted[s] = {}

DeleteInv(s) ==
  at[s] # "idle" /\ oper[s] \in {"delete", "apidelete"} =>
    /\ Known(item[s])
    /\ at[s] = "empty" => Out(item[s])
    /\ at[s] = "done" /\ result[s] = "ok" => place[item[s]] = "gone"

\* The positions a reset has behind it: up to the page, and once it has taken a
\* listing, up to the next page or to the end.
Listed(s, n) ==
  \/ n <= page[s]
  \/ at[s] \in {"rtrash", "next"} /\ (listed[s].next = 0 \/ n <= listed[s].next)

ResetInv(s) ==
  /\ \A i \in present[s] \cup listed[s].keys : Known(i)
  /\ \A i \in counted[s] : Out(i)
  /\ at[s] \in {"rtrash", "next"} =>
       listed[s].next = 0 \/ listed[s].next > page[s]
  /\ at[s] \in {"list", "rtrash", "next"} =>
       \A n \in DOMAIN Listing :
         Listed(s, n) /\ Listing[n] \in present[s] \ Keyless =>
           Out(Listing[n]) \/ (at[s] = "rtrash" /\ Listing[n] \in listed[s].keys)
  /\ at[s] = "empty" /\ oper[s] = "reset" =>
       \A i \in present[s] \ Keyless : Out(i)
  /\ at[s] = "done" /\ result[s] = "ok" =>
       \A i \in counted[s] : place[i] = "gone"
  /\ at[s] = "done" /\ oper[s] = "reset" /\ result[s] = "ok" =>
       \A i \in present[s] \ Keyless : place[i] = "gone"

SessionInv(s) == ControlInv(s) /\ DeleteInv(s) /\ ResetInv(s)

ImportsInv == \A s \in Sessions : ImportInv(s)
LibraryInv == ImportsInv /\ \A s \in Sessions : SessionInv(s)

-----------------------------------------------------------------------------
(* The listing of a page.                                                  *)

\* A nonempty set of naturals has a least element.
LEMMA LeastExists ==
  ASSUME NEW S \in SUBSET Nat, S # {}
  PROVE  \E n \in S : \A m \in S : n <= m
  <1>1. PICK n \in S : \A m \in S : <<m, n>> \notin OpToRel(<, Nat)
    BY NatLessThanWellFounded, WFMin
  <1>2. \A m \in S : ~(m < n)
    BY <1>1 DEF OpToRel
  <1>3. QED
    BY <1>2

\* A nonempty set of naturals with an upper bound has a greatest element: the
\* least of its upper bounds.
LEMMA GreatestExists ==
  ASSUME NEW S \in SUBSET Nat, S # {}, NEW b \in Nat, \A m \in S : m <= b
  PROVE  \E n \in S : \A m \in S : m <= n
  <1> DEFINE Bounds == {c \in Nat : \A m \in S : m <= c}
  <1>1. PICK c \in Bounds : \A d \in Bounds : c <= d
    BY LeastExists
  <1>2. CASE c \in S
    BY <1>1, <1>2
  <1>3. CASE c \notin S
    <2>1. \A m \in S : m <= c - 1 /\ c - 1 \in Nat
      BY <1>1, <1>3
    <2>2. c - 1 \in Bounds
      BY <2>1
    <2>3. QED
      BY <1>1, <2>2
  <1>4. QED
    BY <1>2, <1>3

\* Every listed key was in the library, the next page is further on, and what
\* lies before it, or before the end if there is none, is on this page.
LEMMA PageCovers ==
  ASSUME TypeOK, NEW p \in 0..Len(Listing)
  PROVE  /\ Page(p) \in [keys : SUBSET (Items \ Keyless),
                         next : 0..Len(Listing)]
         /\ Page(p).next = 0 \/ Page(p).next > p
         /\ \A i \in Page(p).keys : place[i] = "library"
         /\ \A n \in DOMAIN Listing :
              /\ n > p /\ (Page(p).next = 0 \/ n <= Page(p).next)
              /\ place[Listing[n]] = "library" /\ Listing[n] \notin Keyless
              => Listing[n] \in Page(p).keys
  <1> DEFINE from   == {n \in DOMAIN Listing : n > p /\ place[Listing[n]] = "library"}
             upto(n) == {m \in from : m <= n}
             inPage == {n \in from : Cardinality(upto(n)) <= PageSize}
             last   == CHOOSE n \in inPage : \A m \in inPage : m <= n
             next   == IF inPage = from THEN 0 ELSE last
  <1> USE LibraryAssumption
  <1>1. DOMAIN Listing = 1..Len(Listing) /\ Len(Listing) \in Nat
    OBVIOUS
  <1>2. from \subseteq 1..Len(Listing)
    BY <1>1
  <1>3. IsFiniteSet(from)
    <2>1. IsFiniteSet(1..Len(Listing))
      BY <1>1, FS_Interval
    <2>2. QED
      BY <1>2, <2>1, FS_Subset
  <1>4. \A n \in from : \A m \in from :
          m <= n => Cardinality(upto(m)) <= Cardinality(upto(n))
    <2> SUFFICES ASSUME NEW n \in from, NEW m \in from, m <= n
                 PROVE  Cardinality(upto(m)) <= Cardinality(upto(n))
      OBVIOUS
    <2>1. IsFiniteSet(upto(n))
      BY <1>3, FS_Subset
    <2>2. upto(m) \subseteq upto(n)
      BY <1>2
    <2>3. QED
      BY <2>1, <2>2, FS_Subset
  <1>5. \A n \in from : Cardinality(upto(n)) \in Nat
    BY <1>3, FS_Subset, FS_CardinalityType
  <1>6. ASSUME inPage # from
        PROVE  last \in inPage /\ \A m \in inPage : m <= last
    <2>1. PICK least \in from : \A m \in from : least <= m
      BY <1>2, <1>6, LeastExists
    <2>2. upto(least) = {least}
      BY <1>2, <2>1
    <2>3. least \in inPage
      <3>1. Cardinality(upto(least)) = 1
        BY <2>2, FS_Singleton
      <3>2. QED
        BY <3>1
    <2>4. \E n \in inPage : \A m \in inPage : m <= n
      <3>1. inPage \in SUBSET Nat /\ \A m \in inPage : m <= Len(Listing)
        BY <1>1, <1>2
      <3> HIDE DEF inPage
      <3>2. QED
        BY <1>1, <2>3, <3>1, GreatestExists
    <2>5. QED
      BY <2>4
  <1>7. ASSUME NEW n \in from, next = 0 \/ n <= next
        PROVE  n \in inPage
    <2>1. CASE inPage = from
      BY <2>1
    <2>2. CASE inPage # from
      <3> HIDE DEF last
      <3>1. last \in inPage /\ last \in from /\ last > 0
        BY <1>2, <1>6, <2>2
      <3>2. n <= last
        BY <1>1, <1>2, <1>7, <2>2, <3>1
      <3>3. Cardinality(upto(n)) <= Cardinality(upto(last))
        BY <1>4, <1>7, <3>1, <3>2
      <3>4. Cardinality(upto(last)) <= PageSize
        BY <3>1
      <3> HIDE DEF upto
      <3>5. Cardinality(upto(n)) <= PageSize
        BY <1>5, <1>7, <3>1, <3>3, <3>4
      <3>6. QED
        BY <1>7, <3>5
    <2>3. QED
      BY <2>1, <2>2
  <1>8. Page(p) = [keys |-> {Listing[n] : n \in inPage} \ Keyless, next |-> next]
    BY DEF Page
  <1> HIDE DEF from, inPage, next
  <1>9. next \in 0..Len(Listing) /\ (next = 0 \/ next > p)
    BY <1>1, <1>2, <1>6 DEF next, from, inPage
  <1>10. Page(p).keys = {Listing[n] : n \in inPage} \ Keyless /\ Page(p).next = next
    BY <1>8
  <1>11. \A n \in inPage : Listing[n] \in Items /\ place[Listing[n]] = "library"
    BY DEF inPage, from, Items
  <1>12. Page(p) \in [keys : SUBSET (Items \ Keyless), next : 0..Len(Listing)]
    BY <1>8, <1>9, <1>11
  <1>13. QED
    BY <1>7, <1>9, <1>10, <1>11, <1>12 DEF from

-----------------------------------------------------------------------------
\* Every variable keeps its type; no key without a value is listed, trashed or
\* counted.
THEOREM TypeCorrect == Spec => []TypeOK
  <1>1. Init => TypeOK
    BY LibraryAssumption DEF Init, TypeOK, Operations, NoListing
  <1>2. TypeOK /\ [Next]_libraryVars => TypeOK'
    <2> SUFFICES ASSUME TypeOK, [Next]_libraryVars PROVE TypeOK'
      OBVIOUS
    <2>1. Len(Listing) \in Nat /\ 0 \in 0..Len(Listing)
      BY LibraryAssumption
    <2>2. NoListing \in [keys : SUBSET (Items \ Keyless), next : 0..Len(Listing)]
      BY <2>1 DEF NoListing
    <2> USE DEF TypeOK, Operations
    <2> DEFINE PlaceOK  == place' \in [Items -> {"absent", "library", "trash", "gone"}]
               AtOK     == at' \in [Sessions ->
                 {"idle", "susgud", "trash", "empty", "resolve", "dtrash", "lookup",
                  "atrash", "adelete", "list", "rtrash", "next", "done"}]
               ResultOK ==
                 result' \in [Sessions -> {"none", "ok", "error", "quota exceeded",
                                            "rejected", "trash not emptied"}]
    <2> DEFINE RestOK ==
                 /\ oper' \in [Sessions -> Operations]
                 /\ item' \in [Sessions -> Items \cup {Nothing}]
                 /\ page' \in [Sessions -> 0..Len(Listing)]
                 /\ listed' \in [Sessions -> [keys : SUBSET (Items \ Keyless),
                                              next : 0..Len(Listing)]]
                 /\ counted' \in [Sessions -> SUBSET (Items \ Keyless)]
                 /\ url' \in [Sessions -> BOOLEAN]
                 /\ present' \in [Sessions -> SUBSET Items]
               StepOK == PlaceOK /\ AtOK /\ ResultOK /\ RestOK
    <2>3. \A S : /\ TrashItems(S) => PlaceOK
                 /\ place' = MoveAll(S, "library") => PlaceOK
                 /\ place' = MoveAll(S, "gone") => PlaceOK
                 /\ UNCHANGED place => PlaceOK
      BY DEF TrashItems, MoveAll
    <2>4. PurgeTrash => PlaceOK
      BY DEF PurgeTrash, MoveAll
    <2>5. ASSUME NEW s, NEW from, NEW to \in
                   {"susgud", "trash", "empty", "resolve", "dtrash", "lookup",
                    "atrash", "adelete", "list", "rtrash", "next", "done", "idle"},
                 Goto(s, from, to)
          PROVE  AtOK
      BY <2>5 DEF Goto
    <2>6. ASSUME NEW s, NEW from, NEW r \in {"ok", "error", "quota exceeded",
                   "rejected", "trash not emptied"}, Return(s, from, r)
          PROVE  AtOK /\ ResultOK
      BY <2>5, <2>6 DEF Return
    <2>7. UNCHANGED result => ResultOK
      OBVIOUS
    <2> HIDE DEF PlaceOK, AtOK, ResultOK, RestOK
    <2>8. ASSUME NEW s \in Sessions, NEW i \in Items, NEW c \in BOOLEAN,
                 StartImport(s, i, c)
          PROVE  StepOK
      BY <2>7, <2>3, <2>4, <2>5, <2>6, <2>8 DEF StartImport, Begin, RestOK
    <2>9. ASSUME NEW s \in Sessions, Imported(s) PROVE StepOK
      BY <2>7, <2>3, <2>4, <2>5, <2>6, <2>9 DEF Imported, RestOK
    <2>10. ASSUME NEW s \in Sessions, ImportFails(s) PROVE StepOK
      BY <2>7, <2>3, <2>4, <2>5, <2>6, <2>10 DEF ImportFails, RestOK
    <2>11. ASSUME NEW s \in Sessions, CleanupTrash(s) PROVE StepOK
      BY <2>7, <2>3, <2>4, <2>5, <2>6, <2>11 DEF CleanupTrash, RestOK
    <2>12. ASSUME NEW s \in Sessions, CleanupEmpty(s) PROVE StepOK
      BY <2>7, <2>3, <2>4, <2>5, <2>6, <2>12 DEF CleanupEmpty, RestOK
    <2>13. ASSUME NEW s \in Sessions, ResolveURL(s) PROVE StepOK
      <3>1. PlaceOK /\ AtOK /\ ResultOK
        BY <2>3, <2>6, <2>13 DEF ResolveURL
      <3>2. PICK got \in BOOLEAN : url' = [url EXCEPT ![s] = got]
        BY <2>13 DEF ResolveURL
      <3>3. RestOK
        BY <2>13, <3>2 DEF ResolveURL, RestOK
      <3>4. QED
        BY <3>1, <3>3
    <2>14. ASSUME NEW s \in Sessions, NEW i \in Items, StartDelete(s, i) PROVE StepOK
      BY <2>7, <2>3, <2>4, <2>5, <2>6, <2>14 DEF StartDelete, Begin, RestOK
    <2>15. ASSUME NEW s \in Sessions, DeleteTrash(s) PROVE StepOK
      BY <2>7, <2>3, <2>4, <2>5, <2>6, <2>15 DEF DeleteTrash, RestOK
    <2>16. ASSUME NEW s \in Sessions, DeleteEmpty(s) PROVE StepOK
      BY <2>7, <2>3, <2>4, <2>5, <2>6, <2>16 DEF DeleteEmpty, RestOK
    <2>17. ASSUME NEW s \in Sessions, NEW i \in Items, StartApiDelete(s, i) PROVE StepOK
      BY <2>7, <2>3, <2>4, <2>5, <2>6, <2>17 DEF StartApiDelete, Begin, RestOK
    <2>18. ASSUME NEW s \in Sessions, Lookup(s) PROVE StepOK
      BY <2>7, <2>3, <2>4, <2>5, <2>6, <2>18 DEF Lookup, RestOK
    <2>19. ASSUME NEW s \in Sessions, ApiTrash(s) PROVE StepOK
      BY <2>7, <2>3, <2>4, <2>5, <2>6, <2>19 DEF ApiTrash, RestOK
    <2>20. ASSUME NEW s \in Sessions, ApiDeletePermanently(s) PROVE StepOK
      <3>1. PlaceOK
        BY <2>3, <2>20 DEF ApiDeletePermanently
      <3>2. \E r \in {"ok", "error"} : Return(s, "adelete", r)
        BY <2>20 DEF ApiDeletePermanently
      <3>3. AtOK /\ ResultOK
        BY <2>6, <3>2
      <3>4. RestOK
        BY <2>20 DEF ApiDeletePermanently, RestOK
      <3>5. QED
        BY <3>1, <3>3, <3>4
    <2>21. ASSUME NEW s \in Sessions, StartReset(s) PROVE StepOK
      BY <2>7, <2>3, <2>4, <2>5, <2>6, <2>21 DEF StartReset, Begin, In, RestOK
    <2>22. ASSUME NEW s \in Sessions, ListItems(s) PROVE StepOK
      <3>1. Page(page[s]) \in [keys : SUBSET (Items \ Keyless),
                               next : 0..Len(Listing)]
        BY PageCovers
      <3>2. AtOK /\ ResultOK
        BY <2>5, <2>6, <2>7, <2>22 DEF ListItems
      <3>3. listed' \in [Sessions -> [keys : SUBSET (Items \ Keyless),
                                      next : 0..Len(Listing)]]
        <4>1. listed' = [listed EXCEPT ![s] = Page(page[s])] \/ UNCHANGED listed
          BY <2>22 DEF ListItems
        <4>2. QED
          BY <4>1, <3>1
      <3>4. PlaceOK
        BY <2>3, <2>22 DEF ListItems
      <3>5. RestOK
        BY <2>22, <3>3 DEF ListItems, RestOK
      <3>6. QED
        BY <3>2, <3>4, <3>5
    <2>23. ASSUME NEW s \in Sessions, ResetTrash(s) PROVE StepOK
      BY <2>7, <2>3, <2>4, <2>5, <2>6, <2>23 DEF ResetTrash, RestOK
    <2>24. ASSUME NEW s \in Sessions, NextOrEmpty(s) PROVE StepOK
      <3>1. PlaceOK /\ AtOK /\ ResultOK
        BY <2>7, <2>3, <2>5, <2>24 DEF NextOrEmpty, NextPage
      <3>2. listed[s].next \in 0..Len(Listing)
        OBVIOUS
      <3>3. page' \in [Sessions -> 0..Len(Listing)]
        BY <2>24, <3>2 DEF NextOrEmpty, NextPage
      <3>4. RestOK
        BY <2>24, <2>2, <3>3 DEF NextOrEmpty, RestOK
      <3>5. QED
        BY <3>1, <3>4
    <2>25. ASSUME NEW s \in Sessions, ResetEmpty(s) PROVE StepOK
      BY <2>7, <2>3, <2>4, <2>5, <2>6, <2>25 DEF ResetEmpty, RestOK
    <2>26. ASSUME NEW s \in Sessions, Finish(s) PROVE StepOK
      <3>1. PlaceOK /\ AtOK
        BY <2>3, <2>5, <2>26 DEF Finish
      <3>2. ResultOK
        BY <2>26 DEF Finish, ResultOK
      <3>3. RestOK
        <4>1. page' \in [Sessions -> 0..Len(Listing)]
          BY <2>1, <2>26 DEF Finish
        <4>2. listed' \in [Sessions -> [keys : SUBSET (Items \ Keyless),
                                       next : 0..Len(Listing)]]
          BY <2>26, <2>2 DEF Finish
        <4>3. QED
          BY <2>26, <4>1, <4>2 DEF Finish, RestOK
      <3>4. QED
        BY <3>1, <3>2, <3>3
    <2>27. CASE UNCHANGED libraryVars
      BY <2>27 DEF libraryVars
    <2>28. StepOK => TypeOK'
      BY DEF PlaceOK, AtOK, ResultOK, RestOK
    <2> HIDE DEF StepOK, TypeOK
    <2>29. QED
      BY <2>8, <2>9, <2>10, <2>11, <2>12, <2>13, <2>14, <2>15, <2>16, <2>17, <2>18,
         <2>19, <2>20, <2>21, <2>22, <2>23, <2>24, <2>25, <2>26, <2>27, <2>28
      DEF Next, Start, Proceed
  <1>3. QED
    BY <1>1, <1>2, PTL DEF Spec

-----------------------------------------------------------------------------
(* What a step may change.                                                 *)

\* A session's step leaves the variables of the others alone.
LEMMA OthersKeep ==
  ASSUME TypeOK, NEW s \in Sessions, Start(s) \/ Proceed(s),
         NEW t \in Sessions \ {s}
  PROVE  /\ at'[t] = at[t] /\ oper'[t] = oper[t] /\ item'[t] = item[t]
         /\ page'[t] = page[t] /\ listed'[t] = listed[t]
         /\ counted'[t] = counted[t] /\ result'[t] = result[t]
         /\ present'[t] = present[t]
  <1> DEFINE Kept == /\ at'[t] = at[t] /\ oper'[t] = oper[t] /\ item'[t] = item[t]
                     /\ page'[t] = page[t] /\ listed'[t] = listed[t]
                     /\ counted'[t] = counted[t] /\ result'[t] = result[t]
                     /\ present'[t] = present[t]
  <1> USE DEF TypeOK, Goto, Return, Begin
  <1>1. ASSUME NEW o, NEW i, NEW first, Begin(s, o, i, first),
               UNCHANGED <<page, listed, counted, result>>,
               present'[t] = present[t]
        PROVE  Kept
    BY <1>1
  <1>2. ASSUME Start(s) PROVE Kept
    BY <1>1, <1>2 DEF Start, StartImport, StartDelete, StartApiDelete, StartReset
  <1>3. ASSUME Imported(s) \/ ImportFails(s) \/ CleanupTrash(s) \/ CleanupEmpty(s)
        PROVE  Kept
    BY <1>3 DEF Imported, ImportFails, CleanupTrash, CleanupEmpty
  <1>4. ASSUME ResolveURL(s) \/ DeleteTrash(s) \/ DeleteEmpty(s) PROVE Kept
    BY <1>4 DEF ResolveURL, DeleteTrash, DeleteEmpty
  <1>5. ASSUME Lookup(s) \/ ApiTrash(s) \/ ApiDeletePermanently(s) PROVE Kept
    BY <1>5 DEF Lookup, ApiTrash, ApiDeletePermanently
  <1>6. ASSUME ListItems(s) \/ ResetTrash(s) PROVE Kept
    BY <1>6 DEF ListItems, ResetTrash
  <1>7. ASSUME NextOrEmpty(s) PROVE Kept
    BY <1>7 DEF NextOrEmpty, NextPage
  <1>8. ASSUME ResetEmpty(s) PROVE Kept
    BY <1>8 DEF ResetEmpty
  <1>9. ASSUME Finish(s) PROVE Kept
    BY <1>9 DEF Finish
  <1>10. Kept
    <2> HIDE DEF Kept
    <2>1. QED
      BY <1>2, <1>3, <1>4, <1>5, <1>6, <1>7, <1>8, <1>9 DEF Proceed
  <1>11. QED
    BY <1>10

\* An item comes to the library by the import of a session that waits for
\* SusGud, leaves it for the trash and the trash for good, and moves in no other
\* way.
LEMMA PlacesMove ==
  ASSUME TypeOK, ImportsInv, NEW s \in Sessions, Start(s) \/ Proceed(s),
         NEW i \in Items
  PROVE  \/ place'[i] = place[i]
         \/ /\ place[i] = "absent" /\ place'[i] = "library"
            /\ at[s] = "susgud" /\ item[s] = i
         \/ place[i] = "library" /\ place'[i] = "trash"
         \/ place[i] = "trash" /\ place'[i] = "gone"
  <1> DEFINE Move == \/ place'[i] = place[i]
                     \/ /\ place[i] = "absent" /\ place'[i] = "library"
                        /\ at[s] = "susgud" /\ item[s] = i
                     \/ place[i] = "library" /\ place'[i] = "trash"
                     \/ place[i] = "trash" /\ place'[i] = "gone"
  <1>1. ASSUME UNCHANGED place PROVE Move
    BY <1>1
  <1>2. ASSUME NEW S, TrashItems(S) PROVE Move
    BY <1>2 DEF TrashItems, MoveAll, In
  <1>3. ASSUME PurgeTrash PROVE Move
    BY <1>3 DEF PurgeTrash, MoveAll, In
  <1>4. ASSUME at[s] = "susgud", place' = MoveAll({item[s]}, "library") PROVE Move
    BY <1>4 DEF MoveAll, ImportsInv, ImportInv
  <1>5. ASSUME place[item[s]] \in {"trash", "gone"},
               place' = MoveAll({item[s]}, "gone")
        PROVE  Move
    BY <1>5 DEF MoveAll
  <1> HIDE DEF Move
  <1>6. ASSUME Start(s) PROVE Move
    BY <1>1, <1>6 DEF Start, StartImport, StartDelete, StartApiDelete, StartReset
  <1>7. ASSUME Imported(s) \/ ImportFails(s) PROVE Move
    BY <1>1, <1>4, <1>7 DEF Imported, ImportFails, Goto, Return
  <1>8. ASSUME CleanupTrash(s) \/ CleanupEmpty(s) \/ ResolveURL(s) PROVE Move
    BY <1>1, <1>2, <1>3, <1>8 DEF CleanupTrash, CleanupEmpty, ResolveURL
  <1>9. ASSUME DeleteTrash(s) \/ DeleteEmpty(s) PROVE Move
    BY <1>1, <1>2, <1>3, <1>9 DEF DeleteTrash, DeleteEmpty
  <1>10. ASSUME Lookup(s) \/ ApiTrash(s) \/ ApiDeletePermanently(s) PROVE Move
    BY <1>1, <1>2, <1>5, <1>10 DEF Lookup, ApiTrash, ApiDeletePermanently
  <1>11. ASSUME ListItems(s) \/ ResetTrash(s) \/ NextOrEmpty(s) PROVE Move
    BY <1>1, <1>2, <1>11 DEF ListItems, ResetTrash, NextOrEmpty
  <1>12. ASSUME ResetEmpty(s) \/ Finish(s) PROVE Move
    BY <1>1, <1>3, <1>12 DEF ResetEmpty, Finish
  <1>13. Move
    BY <1>6, <1>7, <1>8, <1>9, <1>10, <1>11, <1>12 DEF Proceed
  <1>14. QED
    BY <1>13 DEF Move

\* So an item once in the account stays known, and once out of the library it
\* stays out.
LEMMA PlacesLast ==
  ASSUME TypeOK, ImportsInv, NEW s \in Sessions, Start(s) \/ Proceed(s),
         NEW i \in Items
  PROVE  /\ Known(i) => Known(i)'
         /\ Out(i) => Out(i)'
         /\ place[i] = "gone" => place'[i] = "gone"
  BY PlacesMove DEF Known, Out

\* Known items that are trashed are out of the library ...
LEMMA TrashPutsOut ==
  ASSUME TypeOK, NEW S, TrashItems(S), NEW i \in S, Known(i)
  PROVE  Out(i)'
  BY DEF TypeOK, TrashItems, MoveAll, In, Known, Out

\* ... and gone once the trash is emptied.
LEMMA PurgePutsGone ==
  ASSUME TypeOK, PurgeTrash, NEW i \in Items, Out(i)
  PROVE  place'[i] = "gone"
  BY DEF TypeOK, PurgeTrash, MoveAll, In, Out

-----------------------------------------------------------------------------
(* The invariant is inductive.                                             *)

\* How the item of a session comes and goes.
LEMMA ItemMoves ==
  ASSUME TypeOK, NEW s \in Sessions, Start(s) \/ Proceed(s)
  PROVE  \/ at'[s] # "susgud" /\ item'[s] \in {item[s], Nothing}
         \/ /\ at'[s] # "susgud" /\ UNCHANGED place
            /\ Known(item'[s])
         \/ /\ item'[s] \in Items /\ UNCHANGED place
            /\ place[item'[s]] = "absent"
            /\ \A t \in Sessions : item[t] # item'[s]
  <1> DEFINE Came == \/ at'[s] # "susgud" /\ item'[s] \in {item[s], Nothing}
                     \/ /\ at'[s] # "susgud" /\ UNCHANGED place
                        /\ Known(item'[s])
                     \/ /\ item'[s] \in Items /\ UNCHANGED place
                        /\ place[item'[s]] = "absent"
                        /\ \A t \in Sessions : item[t] # item'[s]
  <1>1. ASSUME NEW i \in Items, NEW c \in BOOLEAN, StartImport(s, i, c) PROVE Came
    BY <1>1 DEF TypeOK, StartImport, Begin
  <1>2. ASSUME NEW i \in Items, StartDelete(s, i) \/ StartApiDelete(s, i) PROVE Came
    BY <1>2 DEF TypeOK, StartDelete, StartApiDelete, Begin, Goto, Known
  <1>3. ASSUME StartReset(s) PROVE Came
    BY <1>3 DEF TypeOK, StartReset, Begin, Goto
  <1>4. ASSUME UNCHANGED item, at'[s] # "susgud" PROVE Came
    BY <1>4
  <1>5. ASSUME NEW from, NEW to, Goto(s, from, to), to # "susgud"
        PROVE  at'[s] # "susgud"
    BY <1>5 DEF TypeOK, Goto
  <1>6. ASSUME NEW from, NEW r, Return(s, from, r) PROVE at'[s] # "susgud"
    BY <1>5, <1>6 DEF Return
  <1>7. ASSUME Finish(s) PROVE Came
    BY <1>5, <1>7 DEF TypeOK, Finish
  <1> HIDE DEF Came
  <1>8. ASSUME Imported(s) \/ ImportFails(s) \/ CleanupTrash(s) \/ CleanupEmpty(s)
        PROVE  Came
    BY <1>4, <1>5, <1>6, <1>8 DEF Imported, ImportFails, CleanupTrash, CleanupEmpty
  <1>9. ASSUME ResolveURL(s) \/ DeleteTrash(s) \/ DeleteEmpty(s) PROVE Came
    BY <1>4, <1>5, <1>6, <1>9 DEF ResolveURL, DeleteTrash, DeleteEmpty
  <1>10. ASSUME Lookup(s) \/ ApiTrash(s) \/ ApiDeletePermanently(s) PROVE Came
    BY <1>4, <1>5, <1>6, <1>10 DEF Lookup, ApiTrash, ApiDeletePermanently
  <1>11. ASSUME ListItems(s) \/ ResetTrash(s) \/ ResetEmpty(s) PROVE Came
    BY <1>4, <1>5, <1>6, <1>11 DEF ListItems, ResetTrash, ResetEmpty
  <1>12. ASSUME NextOrEmpty(s) PROVE Came
    BY <1>4, <1>5, <1>12 DEF NextOrEmpty, NextPage
  <1>13. Came
    BY <1>1, <1>2, <1>3, <1>7, <1>8, <1>9, <1>10, <1>11, <1>12
    DEF Start, Proceed
  <1>14. QED
    BY <1>13 DEF Came

\* An item that is being imported is nobody else's, and still not there.
LEMMA ImportsKept ==
  ASSUME TypeOK, ImportsInv, NEW s \in Sessions, Start(s) \/ Proceed(s)
  PROVE  ImportsInv'
  <1> SUFFICES ASSUME NEW t \in Sessions, at'[t] = "susgud"
               PROVE  /\ item'[t] \in Items
                      /\ place'[item'[t]] = "absent"
                      /\ \A u \in Sessions \ {t} : item'[u] # item'[t]
    BY DEF ImportsInv, ImportInv
  <1>1. \A u \in Sessions \ {s} : at'[u] = at[u] /\ item'[u] = item[u]
    BY OthersKeep
  <1>2. CASE t = s
    BY <1>1, <1>2, ItemMoves
  <1>3. CASE t # s
    <2>1. /\ item[t] \in Items
          /\ place[item[t]] = "absent"
          /\ \A u \in Sessions \ {t} : item[u] # item[t]
      BY <1>1, <1>3 DEF ImportsInv, ImportInv
    <2>2. place'[item[t]] = "absent"
      BY <1>3, <2>1, PlacesMove
    <2>3. item'[s] # item[t]
      BY <1>3, <2>1, ItemMoves, LibraryAssumption DEF Known
    <2>4. QED
      BY <1>1, <1>3, <2>1, <2>2, <2>3
  <1>4. QED
    BY <1>2, <1>3

\* A session's achievements outlast the steps of the others.
LEMMA OthersInv ==
  ASSUME TypeOK, LibraryInv, NEW s \in Sessions, Start(s) \/ Proceed(s),
         NEW t \in Sessions \ {s}
  PROVE  SessionInv(t)'
  <1>1. /\ at'[t] = at[t] /\ oper'[t] = oper[t] /\ item'[t] = item[t]
        /\ page'[t] = page[t] /\ listed'[t] = listed[t]
        /\ counted'[t] = counted[t] /\ result'[t] = result[t]
        /\ present'[t] = present[t]
    BY OthersKeep
  <1>2. \A i \in Items : /\ Known(i) => Known(i)'
                         /\ Out(i) => Out(i)'
                         /\ place[i] = "gone" => place'[i] = "gone"
    BY PlacesLast DEF LibraryInv
  <1>3. SessionInv(t)
    BY DEF LibraryInv
  <1>4. /\ present[t] \subseteq Items /\ counted[t] \subseteq Items
        /\ item[t] \in Items \cup {Nothing}
        /\ \A n \in DOMAIN Listing : Listing[n] \in Items
    BY DEF TypeOK, Items
  <1>5. ControlInv(t)'
    BY <1>1, <1>3 DEF SessionInv, ControlInv
  <1>6. DeleteInv(t)'
    <2>1. DeleteInv(t)
      BY <1>3 DEF SessionInv
    <2>2. QED
      BY <1>1, <1>2, <2>1 DEF DeleteInv, Known
  <1>7. ResetInv(t)'
    <2>1. ResetInv(t)
      BY <1>3 DEF SessionInv
    <2>2. \A n : Listed(t, n)' <=> Listed(t, n)
      BY <1>1 DEF Listed
    <2>3. \A i \in present'[t] \cup listed'[t].keys : Known(i)'
      BY <1>1, <1>2, <2>1 DEF ResetInv, Known
    <2>4. \A i \in counted'[t] : Out(i)'
      BY <1>1, <1>2, <1>4, <2>1 DEF ResetInv
    <2>5. at'[t] \in {"list", "rtrash", "next"} =>
            \A n \in DOMAIN Listing :
              Listed(t, n)' /\ Listing[n] \in present'[t] \ Keyless =>
                Out(Listing[n])' \/ (at'[t] = "rtrash" /\ Listing[n] \in listed'[t].keys)
      BY <1>1, <1>2, <1>4, <2>1, <2>2 DEF ResetInv
    <2>6. at'[t] = "empty" /\ oper'[t] = "reset" =>
            \A i \in present'[t] \ Keyless : Out(i)'
      BY <1>1, <1>2, <1>4, <2>1 DEF ResetInv
    <2>7. /\ at'[t] = "done" /\ result'[t] = "ok" =>
               \A i \in counted'[t] : place'[i] = "gone"
          /\ at'[t] = "done" /\ oper'[t] = "reset" /\ result'[t] = "ok" =>
               \A i \in present'[t] \ Keyless : place'[i] = "gone"
      BY <1>1, <1>2, <1>4, <2>1 DEF ResetInv
    <2>8. QED
      BY <1>1, <2>1, <2>3, <2>4, <2>5, <2>6, <2>7 DEF ResetInv
  <1>8. QED
    BY <1>5, <1>6, <1>7 DEF SessionInv

\* A session goes from step to step of its operation.
LEMMA ControlKept ==
  ASSUME TypeOK, NEW s \in Sessions, ControlInv(s), Start(s) \/ Proceed(s)
  PROVE  ControlInv(s)'
  <1> USE DEF TypeOK, Goto, Return, ControlInv
  <1>1. ASSUME NEW i \in Items, NEW c \in BOOLEAN, StartImport(s, i, c)
        PROVE  ControlInv(s)'
    BY <1>1 DEF StartImport, Begin
  <1>2. ASSUME NEW i \in Items, StartDelete(s, i) \/ StartApiDelete(s, i)
        PROVE  ControlInv(s)'
    BY <1>2 DEF StartDelete, StartApiDelete, Begin
  <1>3. ASSUME StartReset(s) PROVE ControlInv(s)'
    BY <1>3 DEF StartReset, Begin
  <1>4. ASSUME Imported(s) PROVE ControlInv(s)'
    BY <1>4 DEF Imported
  <1>5. ASSUME ImportFails(s) PROVE ControlInv(s)'
    BY <1>5 DEF ImportFails
  <1>6. ASSUME CleanupTrash(s) \/ CleanupEmpty(s) PROVE ControlInv(s)'
    BY <1>6 DEF CleanupTrash, CleanupEmpty
  <1>7. ASSUME ResolveURL(s) PROVE ControlInv(s)'
    BY <1>7 DEF ResolveURL
  <1>8. ASSUME DeleteTrash(s) \/ DeleteEmpty(s) PROVE ControlInv(s)'
    BY <1>8 DEF DeleteTrash, DeleteEmpty
  <1>9. ASSUME Lookup(s) PROVE ControlInv(s)'
    BY <1>9 DEF Lookup
  <1>10. ASSUME ApiTrash(s) \/ ApiDeletePermanently(s) PROVE ControlInv(s)'
    BY <1>10 DEF ApiTrash, ApiDeletePermanently
  <1>11. ASSUME ListItems(s) PROVE ControlInv(s)'
    BY <1>11 DEF ListItems
  <1>12. ASSUME ResetTrash(s) PROVE ControlInv(s)'
    BY <1>12 DEF ResetTrash
  <1>13. ASSUME NextOrEmpty(s) PROVE ControlInv(s)'
    BY <1>13 DEF NextOrEmpty, NextPage
  <1>14. ASSUME ResetEmpty(s) PROVE ControlInv(s)'
    BY <1>14 DEF ResetEmpty
  <1>15. ASSUME Finish(s) PROVE ControlInv(s)'
    BY <1>15 DEF Finish
  <1> HIDE DEF ControlInv
  <1>16. QED
    BY <1>1, <1>2, <1>3, <1>4, <1>5, <1>6, <1>7, <1>8, <1>9, <1>10, <1>11,
       <1>12, <1>13, <1>14, <1>15 DEF Start, Proceed

\* A deletion moves its own item, and succeeds only with it gone.
LEMMA DeleteKept ==
  ASSUME TypeOK, LibraryInv, NEW s \in Sessions, Start(s) \/ Proceed(s)
  PROVE  DeleteInv(s)'
  <1>1. ControlInv(s) /\ DeleteInv(s)
    BY DEF LibraryInv, SessionInv
  <1>2. ControlInv(s)'
    BY <1>1, ControlKept
  <1>3. \A i \in Items : /\ Known(i) => Known(i)'
                         /\ Out(i) => Out(i)'
                         /\ place[i] = "gone" => place'[i] = "gone"
    BY PlacesLast DEF LibraryInv
  <1> USE DEF TypeOK, Goto, Return
  <1>4. ASSUME NEW i \in Items, NEW c \in BOOLEAN, StartImport(s, i, c)
        PROVE  DeleteInv(s)'
    BY <1>4 DEF StartImport, Begin, DeleteInv
  <1>5. ASSUME NEW i \in Items, StartDelete(s, i) \/ StartApiDelete(s, i)
        PROVE  DeleteInv(s)'
    BY <1>5 DEF StartDelete, StartApiDelete, Begin, DeleteInv, Known
  <1>6. ASSUME StartReset(s) PROVE DeleteInv(s)'
    BY <1>6 DEF StartReset, Begin, DeleteInv
  <1>7. ASSUME oper'[s] \notin {"delete", "apidelete"} PROVE DeleteInv(s)'
    BY <1>7 DEF DeleteInv
  <1>8. ASSUME Imported(s) PROVE oper'[s] \notin {"delete", "apidelete"}
    BY <1>1, <1>8 DEF Imported, ControlInv
  <1>9. ASSUME ImportFails(s) PROVE oper'[s] \notin {"delete", "apidelete"}
    BY <1>1, <1>9 DEF ImportFails, ControlInv
  <1>10. ASSUME CleanupTrash(s) \/ CleanupEmpty(s) PROVE oper'[s] \notin {"delete", "apidelete"}
    BY <1>1, <1>10 DEF CleanupTrash, CleanupEmpty, ControlInv
  <1>11. ASSUME ResolveURL(s) PROVE oper'[s] \notin {"delete", "apidelete"}
    BY <1>1, <1>11 DEF ResolveURL, ControlInv
  <1>12. ASSUME DeleteTrash(s) PROVE DeleteInv(s)'
    <2>1. Known(item[s]) /\ Known(item[s])' /\ item'[s] = item[s] /\ oper'[s] = "delete"
      BY <1>1, <1>3, <1>12 DEF DeleteTrash, ControlInv, DeleteInv, Known
    <2>2. CASE at'[s] = "empty"
      <3>1. TrashItems({item[s]})
        BY <1>12, <2>2 DEF DeleteTrash
      <3>2. Out(item[s])'
        BY <2>1, <3>1, TrashPutsOut
      <3>3. QED
        BY <2>1, <2>2, <3>2 DEF DeleteInv, Known, Out
    <2>3. CASE at'[s] = "done" /\ result'[s] = "error"
      BY <2>1, <2>3 DEF DeleteInv, Known
    <2>4. QED
      BY <1>12, <2>2, <2>3 DEF DeleteTrash
  <1>13. ASSUME DeleteEmpty(s) PROVE DeleteInv(s)'
    <2>1. /\ Known(item[s]) /\ Known(item[s])' /\ item'[s] = item[s]
          /\ Out(item[s]) /\ at'[s] = "done"
      BY <1>1, <1>3, <1>13 DEF DeleteEmpty, DeleteInv, Known
    <2>2. CASE PurgeTrash
      <3>1. place'[item[s]] = "gone"
        BY <2>1, <2>2, PurgePutsGone DEF Known
      <3>2. QED
        BY <2>1, <3>1 DEF DeleteInv, Known
    <2>3. CASE result'[s] = "error"
      BY <2>1, <2>3 DEF DeleteInv, Known
    <2>4. QED
      BY <1>13, <2>2, <2>3 DEF DeleteEmpty
  <1>14. ASSUME Lookup(s) PROVE DeleteInv(s)'
    BY <1>1, <1>14 DEF Lookup, ControlInv, DeleteInv, Known
  <1>15. ASSUME ApiTrash(s) PROVE DeleteInv(s)'
    <2>1. Known(item[s]) /\ Known(item[s])' /\ item'[s] = item[s] /\ at'[s] = "adelete"
      BY <1>1, <1>3, <1>15 DEF ApiTrash, ControlInv, DeleteInv, Known
    <2>2. QED
      BY <2>1 DEF DeleteInv, Known
  <1>16. ASSUME ApiDeletePermanently(s) PROVE DeleteInv(s)'
    <2>1. Known(item[s]) /\ Known(item[s])' /\ item'[s] = item[s] /\ at'[s] = "done"
      BY <1>1, <1>3, <1>16 DEF ApiDeletePermanently, ControlInv, DeleteInv, Known
    <2>2. CASE place' = MoveAll({item[s]}, "gone")
      BY <2>1, <2>2 DEF MoveAll, DeleteInv, Known
    <2>3. CASE result'[s] = "error"
      BY <2>1, <2>3 DEF DeleteInv, Known
    <2>4. QED
      BY <1>16, <2>2, <2>3 DEF ApiDeletePermanently
  <1>17. ASSUME ListItems(s) PROVE oper'[s] \notin {"delete", "apidelete"}
    BY <1>1, <1>17 DEF ListItems, ControlInv
  <1>18. ASSUME ResetTrash(s) PROVE oper'[s] \notin {"delete", "apidelete"}
    BY <1>1, <1>18 DEF ResetTrash, ControlInv
  <1>19. ASSUME NextOrEmpty(s) PROVE oper'[s] \notin {"delete", "apidelete"}
    BY <1>1, <1>19 DEF NextOrEmpty, NextPage, ControlInv
  <1>20. ASSUME ResetEmpty(s) PROVE oper'[s] \notin {"delete", "apidelete"}
    BY <1>20 DEF ResetEmpty
  <1>21. ASSUME Finish(s) PROVE oper'[s] \notin {"delete", "apidelete"}
    BY <1>21 DEF Finish
  <1>22. QED
    BY <1>4, <1>5, <1>6, <1>7, <1>8, <1>9, <1>10, <1>11, <1>12, <1>13, <1>14,
       <1>15, <1>16, <1>17, <1>18, <1>19, <1>20, <1>21 DEF Start, Proceed

\* The four steps of a reset: each leaves the pages behind it out of the
\* library.
LEMMA ListItemsKeeps ==
  ASSUME TypeOK, LibraryInv, NEW s \in Sessions, ListItems(s)
  PROVE  ResetInv(s)'
  <1>1. ResetInv(s)
    BY DEF LibraryInv, SessionInv
  <1>2. /\ at[s] = "list" /\ at' = [at EXCEPT ![s] = at'[s]]
        /\ UNCHANGED <<place, oper, item, page, counted, present>>
    BY DEF TypeOK, ListItems, Goto, Return
  <1>3. page[s] \in 0..Len(Listing) /\ Len(Listing) \in Nat
    <2>1. Len(Listing) \in Nat
      BY LibraryAssumption
    <2>2. QED
      BY <2>1 DEF TypeOK
  <1>4. CASE at'[s] = "done" /\ result'[s] = "error" /\ UNCHANGED listed
    BY <1>1, <1>2, <1>4 DEF ResetInv, Known, Out, Listed
  <1>5. CASE at'[s] \in {"next", "rtrash"}
    <2>1. /\ listed'[s] = Page(page[s])
          /\ Page(page[s]).keys = {} <=> at'[s] = "next"
      BY <1>5 DEF TypeOK, ListItems, Goto, Return
    <2>2. listed'[s].next = 0 \/ listed'[s].next > page'[s]
      BY <1>2, <1>3, <2>1, PageCovers
    <2>3. \A i \in present'[s] \cup listed'[s].keys : Known(i)'
      <3>1. \A i \in Page(page[s]).keys : i \in Items /\ place[i] = "library"
        BY <1>3, PageCovers
      <3>2. QED
        BY <1>1, <1>2, <2>1, <3>1 DEF ResetInv, Known
    <2>4. ASSUME NEW n \in DOMAIN Listing, Listed(s, n)',
                 Listing[n] \in present'[s] \ Keyless
          PROVE  Out(Listing[n])' \/
                   (at'[s] = "rtrash" /\ Listing[n] \in listed'[s].keys)
      <3>1. n \in Nat /\ Known(Listing[n])
        BY <1>1, <1>2, <2>4, LibraryAssumption DEF ResetInv
      <3>2. CASE n <= page[s]
        <4>1. Out(Listing[n])
          BY <1>1, <1>2, <2>4, <3>2 DEF ResetInv, Listed
        <4>2. QED
          BY <1>2, <4>1 DEF Out
      <3>3. CASE n > page[s] /\ place[Listing[n]] = "library"
        <4>1. Page(page[s]).next = 0 \/ n <= Page(page[s]).next
          BY <1>2, <2>1, <2>4, <3>1, <3>3, <1>3 DEF Listed
        <4>2. Listing[n] \in Page(page[s]).keys
          BY <1>3, <2>4, <3>3, <4>1, PageCovers
        <4>3. QED
          BY <1>5, <2>1, <4>2
      <3>4. CASE place[Listing[n]] # "library"
        BY <1>2, <3>1, <3>4 DEF TypeOK, Known, Out
      <3>5. QED
        BY <1>3, <3>1, <3>2, <3>3, <3>4
    <2>5. \A i \in counted'[s] : Out(i)'
      BY <1>1, <1>2 DEF ResetInv, Out
    <2>6. QED
      BY <1>5, <2>2, <2>3, <2>4, <2>5 DEF ResetInv
  <1>6. QED
    BY <1>2, <1>4, <1>5 DEF TypeOK, ListItems, Goto, Return

\* A listing that is trashed is out of the library.
LEMMA ResetTrashKeeps ==
  ASSUME TypeOK, LibraryInv, NEW s \in Sessions, ResetTrash(s)
  PROVE  ResetInv(s)'
  <1>1. ResetInv(s)
    BY DEF LibraryInv, SessionInv
  <1>2. \A i \in Items : (Known(i) => Known(i)') /\ (Out(i) => Out(i)')
    BY PlacesLast DEF LibraryInv, Proceed
  <1>3. /\ at[s] = "rtrash"
        /\ UNCHANGED <<oper, item, page, listed, present>>
    BY DEF ResetTrash, Goto, Return
  <1>4. /\ present[s] \subseteq Items /\ counted[s] \subseteq Items
        /\ \A n \in DOMAIN Listing : Listing[n] \in Items
    BY DEF TypeOK, Items
  <1>5. \A i \in present'[s] \cup listed'[s].keys : Known(i)'
    BY <1>1, <1>2, <1>3 DEF ResetInv, Known
  <1>6. CASE at'[s] = "done" /\ result'[s] = "error" /\ UNCHANGED counted
    <2>1. \A i \in counted'[s] : Out(i)'
      BY <1>1, <1>2, <1>4, <1>6 DEF ResetInv
    <2>2. QED
      BY <1>5, <1>6, <2>1 DEF ResetInv
  <1>7. CASE /\ at'[s] = "next" /\ TrashItems(listed[s].keys)
             /\ counted'[s] = counted[s] \cup listed[s].keys
    <2>1. \A i \in listed[s].keys : Out(i)'
      BY <1>1, <1>7, TrashPutsOut DEF ResetInv
    <2>2. \A i \in counted'[s] : Out(i)'
      BY <1>1, <1>2, <1>4, <1>7, <2>1 DEF ResetInv
    <2>3. ASSUME NEW n \in DOMAIN Listing, Listed(s, n)',
                 Listing[n] \in present'[s] \ Keyless
          PROVE  Out(Listing[n])'
      <3>1. Listed(s, n)
        BY <1>3, <1>7, <2>3 DEF Listed
      <3>2. Out(Listing[n]) \/ Listing[n] \in listed[s].keys
        BY <1>1, <1>3, <2>3, <3>1 DEF ResetInv
      <3>3. QED
        BY <1>2, <1>4, <2>1, <3>2
    <2>4. listed'[s].next = 0 \/ listed'[s].next > page'[s]
      BY <1>1, <1>3 DEF ResetInv
    <2>5. QED
      BY <1>5, <1>7, <2>2, <2>3, <2>4 DEF ResetInv
  <1>8. QED
    BY <1>6, <1>7 DEF TypeOK, ResetTrash, Goto, Return

\* A page left behind has no position before the next one that is not listed.
LEMMA NextOrEmptyKeeps ==
  ASSUME TypeOK, LibraryInv, NEW s \in Sessions, NextOrEmpty(s)
  PROVE  ResetInv(s)'
  <1>1. ResetInv(s)
    BY DEF LibraryInv, SessionInv
  <1>2. /\ at[s] = "next"
        /\ UNCHANGED <<place, oper, item, counted, result, present>>
    BY DEF NextOrEmpty, NextPage, Goto
  <1>3. listed'[s] = [keys |-> {}, next |-> 0]
    BY DEF TypeOK, NextOrEmpty, NoListing
  <1>4. \A i \in present'[s] \cup listed'[s].keys : Known(i)'
    BY <1>1, <1>2, <1>3 DEF ResetInv, Known
  <1>5. \A i \in counted'[s] : Out(i)'
    BY <1>1, <1>2 DEF ResetInv, Out
  <1>6. page[s] \in Nat /\ listed[s].next \in Nat
    <2>1. Len(Listing) \in Nat
      BY LibraryAssumption
    <2>2. page[s] \in 0..Len(Listing) /\ listed[s].next \in 0..Len(Listing)
      BY DEF TypeOK
    <2>3. QED
      BY <2>1, <2>2
  <1>7. \A n \in DOMAIN Listing :
          Listed(s, n) /\ Listing[n] \in present[s] \ Keyless => Out(Listing[n])
    BY <1>1, <1>2 DEF ResetInv
  <1>8. CASE at'[s] = "empty" /\ listed[s].next \in {0, page[s]}
    <2>1. listed[s].next = 0
      BY <1>1, <1>2, <1>6, <1>8 DEF ResetInv
    <2>2. \A i \in present[s] \ Keyless : Out(i)
      <3>1. \A i \in present[s] : \E n \in DOMAIN Listing : Listing[n] = i
        <4>1. present[s] \subseteq Items
          BY DEF TypeOK
        <4>2. QED
          BY <4>1 DEF Items
      <3>2. QED
        BY <1>2, <1>7, <2>1, <3>1 DEF Listed
    <2>3. \A i \in present'[s] \ Keyless : Out(i)'
      BY <1>2, <2>2 DEF Out
    <2>4. QED
      BY <1>4, <1>5, <1>8, <2>3 DEF ResetInv
  <1>9. CASE at'[s] = "list" /\ page'[s] = listed[s].next
    <2>1. ASSUME NEW n \in DOMAIN Listing, Listed(s, n)',
                 Listing[n] \in present'[s] \ Keyless
          PROVE  Out(Listing[n])'
      <3>1. Listed(s, n)
        BY <1>2, <1>9, <2>1 DEF Listed
      <3>2. QED
        BY <1>2, <1>7, <2>1, <3>1 DEF Out
    <2>2. QED
      BY <1>4, <1>5, <1>9, <2>1 DEF ResetInv
  <1>10. QED
    BY <1>8, <1>9 DEF TypeOK, NextOrEmpty, NextPage, Goto

\* The trash is emptied: what was counted is gone, unless it failed.
LEMMA ResetEmptyKeeps ==
  ASSUME TypeOK, LibraryInv, NEW s \in Sessions, ResetEmpty(s)
  PROVE  ResetInv(s)'
  <1>1. ResetInv(s)
    BY DEF LibraryInv, SessionInv
  <1>2. \A i \in Items : (Known(i) => Known(i)') /\ (Out(i) => Out(i)')
    BY PlacesLast DEF LibraryInv, Proceed
  <1>3. /\ at[s] = "empty" /\ oper[s] = "reset" /\ at'[s] = "done"
        /\ UNCHANGED <<oper, item, page, listed, counted, present>>
    BY DEF TypeOK, ResetEmpty, Goto, Return
  <1>4. present[s] \subseteq Items /\ counted[s] \subseteq Items
    BY DEF TypeOK
  <1>5. \A i \in present'[s] \cup listed'[s].keys : Known(i)'
    BY <1>1, <1>2, <1>3 DEF ResetInv, Known
  <1>6. \A i \in counted'[s] : Out(i)'
    BY <1>1, <1>2, <1>3, <1>4 DEF ResetInv
  <1>7. CASE result'[s] = "trash not emptied"
    BY <1>3, <1>5, <1>6, <1>7 DEF ResetInv
  <1>8. CASE PurgeTrash
    <2>1. \A i \in Items : Out(i) => place'[i] = "gone"
      BY <1>8, PurgePutsGone
    <2>2. /\ \A i \in counted'[s] : place'[i] = "gone"
          /\ \A i \in present'[s] \ Keyless : place'[i] = "gone"
      BY <1>1, <1>3, <1>4, <2>1 DEF ResetInv
    <2>3. QED
      BY <1>3, <1>5, <1>6, <2>2 DEF ResetInv
  <1>9. QED
    BY <1>7, <1>8 DEF TypeOK, ResetEmpty, Return

\* A reset goes on from page to page.
LEMMA ResetKept ==
  ASSUME TypeOK, LibraryInv, NEW s \in Sessions, Start(s) \/ Proceed(s)
  PROVE  ResetInv(s)'
  <1>1. ControlInv(s) /\ ResetInv(s)
    BY DEF LibraryInv, SessionInv
  <1>2. ControlInv(s)'
    BY <1>1, ControlKept
  <1>3. \A i \in Items : Known(i) => Known(i)'
    BY PlacesLast DEF LibraryInv
  <1>4. ASSUME oper'[s] # "reset", present'[s] = present[s], listed'[s] = listed[s]
        PROVE  ResetInv(s)'
    <2>1. counted'[s] = {} /\ at'[s] \notin {"list", "rtrash", "next"}
      BY <1>2, <1>4 DEF ControlInv
    <2>2. \A i \in present'[s] \cup listed'[s].keys : Known(i)'
      BY <1>1, <1>3, <1>4 DEF ResetInv, Known
    <2>3. QED
      BY <1>4, <2>1, <2>2 DEF ResetInv
  <1> USE DEF TypeOK
  <1>5. ASSUME NEW i \in Items,
               \/ \E c \in BOOLEAN : StartImport(s, i, c)
               \/ StartDelete(s, i)
               \/ StartApiDelete(s, i)
        PROVE  ResetInv(s)'
    BY <1>4, <1>5 DEF StartImport, StartDelete, StartApiDelete, Begin
  <1>6. ASSUME StartReset(s) PROVE ResetInv(s)'
    <2>1. /\ at'[s] = "list" /\ oper'[s] = "reset" /\ page'[s] = 0
          /\ counted'[s] = {} /\ listed'[s] = listed[s]
          /\ present'[s] = In("library") /\ UNCHANGED place
      BY <1>1, <1>6 DEF StartReset, Begin, Goto, ControlInv
    <2>2. \A i \in present'[s] \cup listed'[s].keys : Known(i)'
      BY <1>1, <2>1 DEF ResetInv, Known, In
    <2>3. \A n \in DOMAIN Listing : ~Listed(s, n)'
      <3> HIDE DEF TypeOK
      <3>1. \A n \in DOMAIN Listing : ~(n <= 0)
        BY LibraryAssumption
      <3>2. QED
        BY <2>1, <3>1 DEF Listed
    <2>4. QED
      BY <2>1, <2>2, <2>3 DEF ResetInv
  <1>7. ASSUME Imported(s) \/ ImportFails(s) PROVE ResetInv(s)'
    BY <1>1, <1>4, <1>7 DEF Imported, ImportFails, Goto, Return, ControlInv
  <1>8. ASSUME CleanupTrash(s) \/ CleanupEmpty(s) \/ ResolveURL(s)
        PROVE  ResetInv(s)'
    BY <1>1, <1>4, <1>8
    DEF CleanupTrash, CleanupEmpty, ResolveURL, Goto, Return, ControlInv
  <1>9. ASSUME DeleteTrash(s) \/ DeleteEmpty(s) PROVE ResetInv(s)'
    BY <1>1, <1>4, <1>9 DEF DeleteTrash, DeleteEmpty, Goto, Return, ControlInv
  <1>10. ASSUME Lookup(s) \/ ApiTrash(s) \/ ApiDeletePermanently(s)
         PROVE  ResetInv(s)'
    BY <1>1, <1>4, <1>10
    DEF Lookup, ApiTrash, ApiDeletePermanently, Goto, Return, ControlInv
  <1>11. ASSUME Finish(s) PROVE ResetInv(s)'
    <2>1. /\ at'[s] = "idle" /\ present'[s] = {} /\ counted'[s] = {}
          /\ listed'[s] = NoListing
      BY <1>11 DEF Finish, Goto
    <2> HIDE DEF TypeOK
    <2>2. listed'[s].keys = {}
      BY <2>1 DEF NoListing
    <2>3. QED
      BY <2>1, <2>2 DEF ResetInv
  <1>12. QED
    BY <1>5, <1>6, <1>7, <1>8, <1>9, <1>10, <1>11, ListItemsKeeps,
       ResetTrashKeeps, NextOrEmptyKeeps, ResetEmptyKeeps DEF Start, Proceed

-----------------------------------------------------------------------------

\* Nothing that left the library returns, and every session is where its
\* operation says.
THEOREM LibraryKept == Spec => []LibraryInv
  <1>1. Init => LibraryInv
    BY LibraryAssumption
    DEF Init, LibraryInv, ImportsInv, ImportInv, SessionInv, ControlInv,
        DeleteInv, ResetInv, NoListing
  <1>2. TypeOK /\ LibraryInv /\ [Next]_libraryVars => LibraryInv'
    <2> SUFFICES ASSUME TypeOK, LibraryInv, [Next]_libraryVars PROVE LibraryInv'
      OBVIOUS
    <2>1. ASSUME NEW s \in Sessions, Start(s) \/ Proceed(s) PROVE LibraryInv'
      <3>1. ImportsInv'
        BY <2>1, ImportsKept DEF LibraryInv
      <3>2. SessionInv(s)'
        <4>1. ControlInv(s)'
          BY <2>1, ControlKept DEF LibraryInv, SessionInv
        <4>2. QED
          BY <2>1, <4>1, DeleteKept, ResetKept DEF SessionInv
      <3>3. \A t \in Sessions \ {s} : SessionInv(t)'
        BY <2>1, OthersInv
      <3>4. QED
        BY <3>1, <3>2, <3>3 DEF LibraryInv
    <2>2. CASE UNCHANGED libraryVars
      BY <2>2
      DEF libraryVars, LibraryInv, ImportsInv, ImportInv, SessionInv,
          ControlInv, DeleteInv, ResetInv, Listed, Known, Out
    <2>3. QED
      BY <2>1, <2>2 DEF Next
  <1>3. QED
    BY <1>1, <1>2, TypeCorrect, PTL DEF Spec

\* A deletion that reports success has purged its item (GPWC_DeletePermanently
\* and DeleteByMediaKey), whatever the other sessions do in between.
THEOREM DeletedIsGone == Spec => []DeletedMeansGone
  <1>1. LibraryInv => DeletedMeansGone
    BY DEF LibraryInv, SessionInv, DeleteInv, DeletedMeansGone
  <1>2. QED
    BY <1>1, LibraryKept, PTL

\* A reset that succeeds has purged what was there when it started, for any
\* size of the library and of its pages (ResetAccount).
THEOREM ResetLeavesNothing == Spec => []ResetIsComplete
  <1>1. LibraryInv => ResetIsComplete
    BY DEF LibraryInv, SessionInv, ResetInv, ResetIsComplete
  <1>2. QED
    BY <1>1, LibraryKept, PTL

\* What a reset counts as deleted is deleted (totalDeleted of ResetAccount).
THEOREM CountIsTrue == Spec => []CountedIsDeleted
  <1>1. LibraryInv => CountedIsDeleted
    BY DEF LibraryInv, SessionInv, ResetInv, CountedIsDeleted, Out
  <1>2. QED
    BY <1>1, LibraryKept, PTL
=============================================================================
