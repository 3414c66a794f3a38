-------------------------- MODULE ShareImportProofs --------------------------
(***************************************************************************)
(* Proofs about ShareImport, for any album and library.                    *)
(*                                                                         *)
(* What the scraper collects from a page is what is found there, each item *)
(* once; a page that shows the album shows all of it, so an import asks    *)
(* for everything that was in the album when its attempt began.            *)
(***************************************************************************)
EXTENDS ShareImport, SequenceTheorems, WellFoundedInduction, TLAPS

-----------------------------------------------------------------------------
(* What the scraper collects.                                              *)

\* A nonempty set of naturals has a least element.
LEMMA LeastExists ==
  ASSUME NEW S \in SUBSET Nat, S # {}
  PROVE  \E n \in S : \A m \in S : n <= m
  <1>1. PICK n \in S : \A m \in S : <<m, n>> \notin OpToRel(<, Nat)
    BY NatLessThanWellFounded, WFMin
  <1>2. \A m \in S : ~(m < n)
    BY <1>1 DEF OpToRel
  <1>3. QED
    BY <1>2

\* Induction up to a bound, on a set.
LEMMA UpToBound ==
  ASSUME NEW N \in Nat, NEW S, 0 \in S,
         \A n \in 1..N : n - 1 \in S => n \in S
  PROVE  0..N \subseteq S
  <1> DEFINE Bad == (0..N) \ S
  <1> SUFFICES ASSUME Bad # {} PROVE FALSE
    OBVIOUS
  <1>1. PICK n \in Bad : \A m \in Bad : n <= m
    <2>1. Bad \in SUBSET Nat
      OBVIOUS
    <2> HIDE DEF Bad
    <2>2. QED
      BY <2>1, LeastExists
  <1>2. n - 1 \in (0..N) \ Bad /\ n \in 1..N
    BY <1>1
  <1>3. QED
    BY <1>2

\* What is seen after n keys, given what was after those before.
Seen(found, keys, n) ==
  IF n = 0 THEN <<>>
  ELSE LET seen == keys[n - 1]
       IN IF IsMediaKey(found[n]) /\ found[n] \notin ToSet(seen)
          THEN Append(seen, found[n]) ELSE seen

\* The recursion of Collecting defines a function.
LEMMA CollectingIsDefined ==
  ASSUME NEW S, NEW found \in Seq(S)
  PROVE  Collecting(found) =
           [n \in 0..Len(found) |-> Seen(found, Collecting(found), n)]
  <1> DEFINE Solves(g, m) == g = [n \in 0..m |-> Seen(found, g, n)]
             Solved == {m \in Nat : \E g : Solves(g, m)}
  <1>1. Len(found) \in Nat
    BY LenProperties
  <1>2. 0 \in Solved
    <2> DEFINE g == [n \in 0..0 |-> <<>>]
    <2>1. Solves(g, 0)
      BY DEF Seen
    <2>2. QED
      BY <2>1
  <1>3. ASSUME NEW m \in 1..Len(found), m - 1 \in Solved PROVE m \in Solved
    <2>1. PICK g : Solves(g, m - 1)
      BY <1>3
    <2> DEFINE h == [n \in 0..m |-> IF n = m THEN Seen(found, g, m) ELSE g[n]]
    <2>2. \A n \in 0..m : h[n] = Seen(found, g, n)
      BY <2>1
    <2>3. \A n \in 1..m : h[n - 1] = g[n - 1]
      OBVIOUS
    <2>4. \A n \in 0..m : Seen(found, g, n) = Seen(found, h, n)
      BY <2>3 DEF Seen
    <2>5. Solves(h, m)
      BY <2>2, <2>4
    <2> HIDE DEF h
    <2>6. QED
      BY <1>1, <2>5
  <1>4. Len(found) \in Solved
    <2> HIDE DEF Solved
    <2>1. 0..Len(found) \subseteq Solved
      BY <1>1, <1>2, <1>3, UpToBound
    <2>2. QED
      BY <1>1, <2>1
  <1>5. \E g : Solves(g, Len(found))
    BY <1>4
  <1>6. Collecting(found) = CHOOSE g : Solves(g, Len(found))
    BY DEF Collecting, Seen
  <1>7. QED
    BY <1>5, <1>6

\* One more key.
LEMMA OneMore ==
  ASSUME NEW S, NEW s \in Seq(S), NEW e \in S, e \notin ToSet(s),
         IsInjective(s)
  PROVE  /\ Append(s, e) \in Seq(S) /\ IsInjective(Append(s, e))
         /\ ToSet(Append(s, e)) = ToSet(s) \cup {e}
  <1>1. /\ Append(s, e) \in Seq(S) /\ Len(Append(s, e)) = Len(s) + 1
        /\ \A n \in 1..Len(s) : Append(s, e)[n] = s[n]
        /\ Append(s, e)[Len(s) + 1] = e
    BY AppendProperties
  <1>2. /\ Len(s) \in Nat /\ DOMAIN s = 1..Len(s)
        /\ DOMAIN Append(s, e) = 1..Len(s) + 1
    BY <1>1, LenProperties
  <1>3. \A n \in DOMAIN Append(s, e) : n \in DOMAIN s \/ n = Len(s) + 1
    BY <1>2
  <1>4. ToSet(Append(s, e)) = ToSet(s) \cup {e}
    BY <1>1, <1>2, <1>3 DEF ToSet
  <1>5. IsInjective(Append(s, e))
    BY <1>1, <1>2, <1>3 DEF IsInjective, ToSet
  <1>6. QED
    BY <1>1, <1>4, <1>5

\* Each media key that is found is collected, once.
LEMMA CollectedOnce ==
  ASSUME NEW S, NEW found \in Seq(S)
  PROVE  /\ Collected(found) \in Seq(S)
         /\ IsInjective(Collected(found))
         /\ ToSet(Collected(found)) = ToSet(found) \cap Items
  <1> DEFINE keys     == Collecting(found)
             First(n) == {found[i] : i \in 1..n} \cap Items
             Good     == {n \in 0..Len(found) :
                            /\ keys[n] \in Seq(S) /\ IsInjective(keys[n])
                            /\ ToSet(keys[n]) = First(n)}
  <1>1. Len(found) \in Nat /\ DOMAIN found = 1..Len(found)
    BY LenProperties
  <1>2. \A n \in 0..Len(found) : keys[n] = Seen(found, keys, n)
    BY CollectingIsDefined
  <1>3. 0 \in Good
    <2>1. keys[0] = <<>>
      BY <1>1, <1>2 DEF Seen
    <2>2. <<>> \in Seq(S) /\ ToSet(<<>>) = {} /\ IsInjective(<<>>)
      BY DEF ToSet, IsInjective
    <2>3. First(0) = {}
      OBVIOUS
    <2>4. keys[0] \in Seq(S) /\ IsInjective(keys[0]) /\ ToSet(keys[0]) = First(0)
      <3> HIDE DEF keys, First
      <3>1. QED
        BY <2>1, <2>2, <2>3
    <2> HIDE DEF keys, First
    <2>5. QED
      BY <1>1, <2>4
  <1>4. ASSUME NEW n \in 1..Len(found), n - 1 \in Good PROVE n \in Good
    <2> DEFINE seen == keys[n - 1]
    <2>1. /\ seen \in Seq(S) /\ IsInjective(seen) /\ ToSet(seen) = First(n - 1)
      BY <1>4
    <2>2. First(n) = First(n - 1) \cup ({found[n]} \cap Items)
      <3>1. 1..n = (1..(n - 1)) \cup {n}
        BY <1>1
      <3>2. QED
        BY <3>1
    <2>3. found[n] \in S
      BY <1>1, ElementOfSeq
    <2>4. keys[n] = IF found[n] \in Items /\ found[n] \notin ToSet(seen)
                    THEN Append(seen, found[n]) ELSE seen
      BY <1>1, <1>2 DEF Seen, IsMediaKey
    <2> HIDE DEF seen, keys, First
    <2>5. CASE found[n] \in Items /\ found[n] \notin ToSet(seen)
      <3>1. /\ Append(seen, found[n]) \in Seq(S)
            /\ IsInjective(Append(seen, found[n]))
            /\ ToSet(Append(seen, found[n])) = ToSet(seen) \cup {found[n]}
        BY <2>1, <2>3, <2>5, OneMore
      <3>2. /\ keys[n] \in Seq(S) /\ IsInjective(keys[n])
            /\ ToSet(keys[n]) = First(n)
        BY <2>1, <2>2, <2>4, <2>5, <3>1
      <3>3. QED
        BY <1>1, <3>2
    <2>6. CASE ~(found[n] \in Items /\ found[n] \notin ToSet(seen))
      <3>1. /\ keys[n] \in Seq(S) /\ IsInjective(keys[n])
            /\ ToSet(keys[n]) = First(n)
        BY <2>1, <2>2, <2>4, <2>6
      <3>2. QED
        BY <1>1, <3>1
    <2>7. QED
      BY <2>5, <2>6
  <1>5. Len(found) \in Good
    <2> HIDE DEF Good
    <2>1. 0..Len(found) \subseteq Good
      BY <1>1, <1>3, <1>4, UpToBound
    <2>2. QED
      BY <1>1, <2>1
  <1>6. ToSet(found) \cap Items = First(Len(found))
    BY <1>1 DEF ToSet
  <1>7. QED
    BY <1>5, <1>6 DEF Collected

-----------------------------------------------------------------------------
(* A page that shows the album.                                            *)

Keys == Items \cup {NoKey}

\* What two sequences of keys hold is what either holds.
LEMMA OfBoth ==
  ASSUME NEW S, NEW s \in Seq(S), NEW t \in Seq(S)
  PROVE  s \o t \in Seq(S) /\ ToSet(s \o t) = ToSet(s) \cup ToSet(t)
  <1>1. /\ s \o t \in Seq(S) /\ Len(s \o t) = Len(s) + Len(t)
        /\ \A i \in 1..(Len(s) + Len(t)) :
             (s \o t)[i] = IF i <= Len(s) THEN s[i] ELSE t[i - Len(s)]
    BY ConcatProperties
  <1>2. /\ Len(s) \in Nat /\ DOMAIN s = 1..Len(s)
        /\ Len(t) \in Nat /\ DOMAIN t = 1..Len(t)
        /\ DOMAIN (s \o t) = 1..(Len(s) + Len(t))
    BY <1>1, LenProperties
  <1>3. ASSUME NEW i \in DOMAIN s PROVE s[i] \in ToSet(s \o t)
    <2>1. i \in 1..(Len(s) + Len(t)) /\ (s \o t)[i] = s[i]
      BY <1>1, <1>2
    <2>2. QED
      BY <1>2, <2>1 DEF ToSet
  <1>4. ASSUME NEW i \in DOMAIN t PROVE t[i] \in ToSet(s \o t)
    <2>1. /\ i + Len(s) \in 1..(Len(s) + Len(t))
          /\ (s \o t)[i + Len(s)] = t[i]
      BY <1>1, <1>2
    <2>2. QED
      BY <1>2, <2>1 DEF ToSet
  <1>5. ASSUME NEW i \in DOMAIN (s \o t)
        PROVE  (s \o t)[i] \in ToSet(s) \cup ToSet(t)
    BY <1>1, <1>2 DEF ToSet
  <1>6. ToSet(s \o t) = ToSet(s) \cup ToSet(t)
    BY <1>3, <1>4, <1>5 DEF ToSet
  <1>7. QED
    BY <1>1, <1>6

\* The album holds items, at least one, and keeps them.
LEMMA AlbumHolds ==
  ASSUME NEW k \in DOMAIN Uploads, NEW n \in DOMAIN Uploads, k <= n
  PROVE  /\ SubSeq(Uploads, 1, n) \in Seq(Items)
         /\ Len(SubSeq(Uploads, 1, n)) = n
         /\ SubSeq(Uploads, 1, n) # <<>>
         /\ ToSet(SubSeq(Uploads, 1, k)) \subseteq ToSet(SubSeq(Uploads, 1, n))
         /\ Uploads[n] \in ToSet(SubSeq(Uploads, 1, n))
         /\ ToSet(SubSeq(Uploads, 1, n)) \subseteq Items
  <1>1. /\ Uploads \in Seq(Items) /\ Len(Uploads) \in Nat
        /\ DOMAIN Uploads = 1..Len(Uploads)
        /\ \A i \in 1..Len(Uploads) : Uploads[i] \in Items
    BY ShareAssumption, LenProperties, ElementOfSeq
  <1>2. ASSUME NEW m \in DOMAIN Uploads
        PROVE  /\ SubSeq(Uploads, 1, m) \in Seq(Items)
               /\ Len(SubSeq(Uploads, 1, m)) = m
               /\ \A i \in 1..m : SubSeq(Uploads, 1, m)[i] = Uploads[i]
               /\ DOMAIN SubSeq(Uploads, 1, m) = 1..m
    <2>1. m \in Int /\ 1 \in Int /\ \A i \in 1..m : Uploads[i] \in Items
      BY <1>1
    <2>2. /\ SubSeq(Uploads, 1, m) \in Seq(Items)
          /\ Len(SubSeq(Uploads, 1, m)) = IF 1 <= m THEN m - 1 + 1 ELSE 0
          /\ \A i \in 1..(m - 1 + 1) :
               SubSeq(Uploads, 1, m)[i] = Uploads[1 + i - 1]
      BY <2>1, SubSeqProperties
    <2>3. QED
      BY <1>1, <2>2, LenProperties
  <1>3. ToSet(SubSeq(Uploads, 1, k)) \subseteq ToSet(SubSeq(Uploads, 1, n))
    BY <1>1, <1>2 DEF ToSet
  <1>4. Uploads[n] \in ToSet(SubSeq(Uploads, 1, n))
    <2>1. n \in DOMAIN SubSeq(Uploads, 1, n) /\ SubSeq(Uploads, 1, n)[n] = Uploads[n]
      BY <1>1, <1>2
    <2>2. QED
      BY <2>1 DEF ToSet
  <1>5. ToSet(SubSeq(Uploads, 1, n)) \subseteq Items
    BY <1>1, <1>2 DEF ToSet
  <1>6. SubSeq(Uploads, 1, n) # <<>>
    BY <1>1, <1>2
  <1>7. QED
    BY <1>2, <1>3, <1>4, <1>5, <1>6

\* Whatever of the album a page shows, the scraper gets its keys and all that
\* is in the album, each item once.
LEMMA PageShowsAlbum ==
  ASSUME shared \in DOMAIN Uploads, NEW page \in AlbumPages
  PROVE  /\ ScrapeShareURL(page).albumKey = Album
         /\ ScrapeShareURL(page).authKey = Auth
         /\ IsInjective(ScrapeShareURL(page).mediaKeys)
         /\ ToSet(ScrapeShareURL(page).mediaKeys) = ToSet(InAlbum)
         /\ ScrapeShareURL(page).mediaKeys # <<>>
  <1> DEFINE block  == [items |-> Append(InAlbum, NoKey),
                        album |-> Album, auth |-> Auth]
             linked == <<NoKey, Head(InAlbum), Head(InAlbum)>>
             found  == page.links \o page.block.items
  <1>1. /\ page.links \in {<<>>, linked, InAlbum}
        /\ page.block \in {NoBlock, block}
        /\ page.links = InAlbum \/ page.block = block
        /\ \/ page.album = Album /\ page.auth = Auth
           \/ page.album = NoKey /\ page.auth \in {NoKey, Auth} /\ page.block = block
    BY DEF AlbumPages
  <1>2. NoKey # Album /\ NoKey # Auth /\ NoKey \notin Items
    BY ShareAssumption
  <1>3. InAlbum \in Seq(Items) /\ InAlbum # <<>> /\ ToSet(InAlbum) \subseteq Items
    <2>1. shared <= shared
      BY ShareAssumption, LenProperties
    <2>2. QED
      BY <2>1, AlbumHolds DEF InAlbum
  <1>4. InAlbum \in Seq(Keys) /\ NoKey \in Keys /\ Head(InAlbum) \in Keys
    BY <1>3, SeqMonotonic, HeadTailProperties DEF Keys
  <1>5. /\ <<>> \in Seq(Keys) /\ linked \in Seq(Keys)
        /\ Append(InAlbum, NoKey) \in Seq(Keys)
    BY <1>4, AppendProperties
  <1>6. /\ ToSet(<<>>) = {} /\ ToSet(linked) = {NoKey, Head(InAlbum)}
        /\ Head(InAlbum) \in ToSet(InAlbum)
    <2>1. ToSet(<<>>) = {} /\ ToSet(linked) = {NoKey, Head(InAlbum)}
      BY DEF ToSet
    <2>2. Head(InAlbum) \in ToSet(InAlbum)
      BY <1>3, LenProperties, EmptySeq DEF ToSet
    <2>3. QED
      BY <2>1, <2>2
  <1>7. ToSet(Append(InAlbum, NoKey)) = ToSet(InAlbum) \cup {NoKey}
    <2> DEFINE last == <<NoKey>>
    <2>1. Append(InAlbum, NoKey) = InAlbum \o last
      BY <1>4, AppendIsConcat
    <2>2. last \in Seq(Keys) /\ ToSet(last) = {NoKey}
      BY <1>4 DEF ToSet
    <2> HIDE DEF last
    <2>3. ToSet(InAlbum \o last) = ToSet(InAlbum) \cup ToSet(last)
      BY <1>4, <2>2, OfBoth
    <2>4. QED
      BY <2>1, <2>2, <2>3
  <1> DEFINE shown == page.block.items
  <1>8. /\ shown \in {<<>>, Append(InAlbum, NoKey)}
        /\ page.block = block => shown = Append(InAlbum, NoKey)
    BY <1>1 DEF NoBlock
  <1> HIDE DEF shown
  <1>9. page.links \in Seq(Keys) /\ shown \in Seq(Keys)
    BY <1>1, <1>4, <1>5, <1>8
  <1>10. found \in Seq(Keys) /\ ToSet(found) \cap Items = ToSet(InAlbum)
    <2>1. /\ found \in Seq(Keys)
          /\ ToSet(found) = ToSet(page.links) \cup ToSet(shown)
      BY <1>9, OfBoth DEF shown
    <2>2. /\ ToSet(page.links) \cap Items \subseteq ToSet(InAlbum)
          /\ page.links = InAlbum => ToSet(page.links) = ToSet(InAlbum)
      BY <1>1, <1>2, <1>6
    <2>3. /\ ToSet(shown) \cap Items \subseteq ToSet(InAlbum)
          /\ page.block = block => ToSet(InAlbum) \subseteq ToSet(shown)
      BY <1>2, <1>6, <1>7, <1>8
    <2>4. QED
      BY <1>1, <1>3, <2>1, <2>2, <2>3
  <1> HIDE DEF found
  <1>11. /\ IsInjective(Collected(found)) /\ Collected(found) # <<>>
         /\ ToSet(Collected(found)) = ToSet(InAlbum)
    <2>1. /\ IsInjective(Collected(found))
          /\ ToSet(Collected(found)) = ToSet(InAlbum)
      BY <1>10, CollectedOnce
    <2>2. QED
      BY <1>6, <2>1
  <1>12. ScrapeShareURL(page).mediaKeys = Collected(found)
    BY DEF ScrapeShareURL, found
  <1>13. /\ ScrapeShareURL(page).albumKey = Album
         /\ ScrapeShareURL(page).authKey = Auth
    BY <1>1, <1>2 DEF ScrapeShareURL
  <1>14. QED
    BY <1>11, <1>12, <1>13

\* From a page that shows nothing it gets nothing.
LEMMA EmptyPageShowsNothing == ScrapeShareURL(EmptyPage).mediaKeys = <<>>
  <1> DEFINE found == EmptyPage.links \o EmptyPage.block.items
  <1>1. found = <<>> /\ <<>> \in Seq(Items)
    BY ConcatEmptySeq DEF EmptyPage, NoBlock
  <1>2. Collected(<<>>) \in Seq(Items) /\ ToSet(Collected(<<>>)) = {}
    <2>1. ToSet(<<>>) = {}
      BY DEF ToSet
    <2>2. QED
      BY <1>1, <2>1, CollectedOnce
  <1>3. ASSUME Collected(<<>>) # <<>> PROVE FALSE
    <2> DEFINE s == Collected(<<>>)
    <2>1. s \in Seq(Items) /\ s # <<>> /\ ToSet(s) = {}
      BY <1>2, <1>3
    <2> HIDE DEF s
    <2>2. Len(s) \in Nat \ {0} /\ DOMAIN s = 1..Len(s)
      BY <2>1, EmptySeq, LenProperties
    <2>3. s[1] \in ToSet(s)
      BY <2>2 DEF ToSet
    <2>4. QED
      BY <2>1, <2>3
  <1>4. QED
    BY <1>1, <1>3 DEF ScrapeShareURL

-----------------------------------------------------------------------------
(* The invariant.                                                          *)

\* An import asks for all that was shared when its attempt began.
ShareInv ==
  /\ TypeOK
  /\ at = "import" => promised \subseteq ToSet(scraped.mediaKeys)
  /\ CompletedIsSaved

\* The invariant holds at the start ...
LEMMA ShareInvStarts == Init => ShareInv
  <1> SUFFICES ASSUME Init PROVE ShareInv
    OBVIOUS
  <1>1. TypeOK
    BY ShareAssumption DEF Init, TypeOK
  <1>2. QED
    BY <1>1 DEF Init, ShareInv, CompletedIsSaved

\* The album is a set of items.
LEMMA AlbumIsItems ==
  ASSUME TypeOK
  PROVE  ToSet(InAlbum) \subseteq Items
  <1>1. shared \in DOMAIN Uploads
    BY DEF TypeOK
  <1>2. shared <= shared
    BY <1>1, ShareAssumption, LenProperties
  <1>3. QED
    BY <1>1, <1>2, AlbumHolds DEF InAlbum

\* ... and every step keeps it.
LEMMA ShareInvKept ==
  ASSUME ShareInv, Next
  PROVE  ShareInv'
  <1> USE DEF ShareInv, TypeOK, CompletedIsSaved, Ends, InAlbum
  <1>1. CASE Scrape
    <2>1. PICK page \in AlbumPages \cup {EmptyPage} :
            /\ scraped' = ScrapeShareURL(page)
            /\ IF scraped'.mediaKeys = <<>> THEN Ends("raised")
               ELSE at' = "import" /\ UNCHANGED ending
      BY <1>1 DEF Scrape
    <2>2. CASE page \in AlbumPages
      BY <1>1, <2>1, <2>2, PageShowsAlbum DEF Scrape
    <2>3. CASE page = EmptyPage
      BY <1>1, <2>1, <2>3, EmptyPageShowsNothing DEF Scrape
    <2>4. QED
      BY <2>1, <2>2, <2>3
  <1>2. CASE ScrapeFails
    BY <1>2 DEF ScrapeFails
  <1>3. CASE Import
    <2>1. ToSet(scraped.mediaKeys) \subseteq Items
      BY <1>3, AlbumIsItems DEF Import
    <2> DEFINE asked == ToSet(scraped.mediaKeys)
    <2>2. \/ /\ UNCHANGED library
             /\ \/ at' = "wait" /\ UNCHANGED ending
                \/ Ends("processing")
          \/ library' = library \cup asked /\ Ends("completed")
      BY <1>3 DEF Import, Poll
    <2>3. QED
      BY <1>3, <2>1, <2>2 DEF Import
  <1>4. CASE ImportRefused
    <2>1. Ends("refused")
      BY <1>4 DEF ImportRefused, Poll
    <2>2. QED
      BY <1>4, <2>1 DEF ImportRefused
  <1>5. CASE ImportFails
    <2>1. ToSet(scraped.mediaKeys) \subseteq Items
      BY <1>5, AlbumIsItems DEF ImportFails
    <2>2. QED
      BY <1>5, <2>1 DEF ImportFails
  <1>6. CASE WaitEnds
    BY <1>6 DEF WaitEnds
  <1>7. CASE ShareMore
    <2>1. /\ ToSet(SubSeq(Uploads, 1, shared))
               \subseteq ToSet(SubSeq(Uploads, 1, shared + 1))
          /\ Uploads[shared + 1] \in ToSet(SubSeq(Uploads, 1, shared + 1))
      <3>1. /\ shared \in DOMAIN Uploads /\ shared + 1 \in DOMAIN Uploads
            /\ shared <= shared + 1
        <4>1. shared \in DOMAIN Uploads /\ shared + 1 \in DOMAIN Uploads
          BY <1>7 DEF ShareMore
        <4>2. QED
          BY <4>1, ShareAssumption, LenProperties
      <3>2. QED
        BY <3>1, AlbumHolds
    <2>2. QED
      BY <1>7, <2>1 DEF ShareMore
  <1>8. CASE TranscodingEnds
    BY <1>8 DEF TranscodingEnds
  <1>9. QED
    BY <1>1, <1>2, <1>3, <1>4, <1>5, <1>6, <1>7, <1>8 DEF Next, Script

\* What an import asks for is all that was in the album when its attempt
\* began, and it stays in the library.
THEOREM ShareKept == Spec => []ShareInv
  <1>1. ShareInv /\ UNCHANGED shareVars => ShareInv'
    BY DEF ShareInv, TypeOK, CompletedIsSaved, InAlbum, shareVars
  <1>2. QED
    BY <1>1, ShareInvStarts, ShareInvKept, PTL DEF Spec

\* What is imported is of this album, each item once, under the album's keys,
\* whatever a page shows of them (ScrapeShareURL).
THEOREM TypeCorrect == Spec => []TypeOK
  BY ShareKept, PTL DEF ShareInv

\* An import reported complete has saved all that the album held when its last
\* attempt began (save.py, import_share_url).
THEOREM CompletionIsTrue == Spec => []CompletedIsSaved
  BY ShareKept, PTL DEF ShareInv
=============================================================================
