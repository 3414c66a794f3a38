---------------------------- MODULE ShareImport -----------------------------
(***************************************************************************)
(* save.py: the share page is read (ScrapeShareURL, core/scraper.go), what *)
(* it shows is imported (import_share_url, photos_engine/client.py), and   *)
(* while the server still transcodes it the script waits and does both     *)
(* again.  Meanwhile the owner of the album shares more items.             *)
(*                                                                         *)
(* A page is what the expressions of the scraper look for: the album and   *)
(* the auth key of its address, the targets of its photo links, and the    *)
(* first data block of its scripts.  The page server, the import endpoint  *)
(* and the owner are external.                                             *)
(***************************************************************************)
EXTENDS Naturals, Sequences, SequencesExt

CONSTANTS
  Uploads,    \* the items the owner shares, in that order
  InLibrary,  \* those of them the user has already
  Album,      \* the album key of the share
  Auth,       \* its auth key
  NoKey       \* no key, ""

Items == ToSet(Uploads)

ASSUME ShareAssumption ==
  /\ Uploads \in Seq(Items) \ {<<>>}
  /\ InLibrary \subseteq Items
  /\ NoKey \notin {Album, Auth} \cup Items

VARIABLES
  shared,       \* how many of Uploads are in the album
  transcoding,  \* the items of the album that are not ready
  library,      \* the user's items
  waitMode,     \* --wait was given
  at,           \* where the script is
  scraped,      \* the ScrapedShare of this attempt
  ending,       \* how the script ended
  promised      \* history: the items shared when this attempt began

shareVars == <<shared, transcoding, library, waitMode, at, scraped, ending,
               promised>>

InAlbum   == SubSeq(Uploads, 1, shared)
NoScrape  == [albumKey |-> NoKey, authKey |-> NoKey, mediaKeys |-> <<>>]

Init ==
  /\ shared \in DOMAIN Uploads
  /\ transcoding \in SUBSET ToSet(InAlbum)
  /\ library = InLibrary
  /\ waitMode \in BOOLEAN
  /\ at = "scrape"
  /\ scraped = NoScrape
  /\ ending = "none"
  /\ promised = ToSet(InAlbum)

-----------------------------------------------------------------------------
(* The page and its scraper.                                               *)

NoBlock == [items |-> <<>>, album |-> NoKey, auth |-> NoKey]

\* Pages that show the album: in their links, in the data block, or in both,
\* and give its keys.  A photo may be linked twice, other things linked too.
AlbumPages ==
  LET linked == {<<>>, <<NoKey, Head(InAlbum), Head(InAlbum)>>, InAlbum}
      block  == [items |-> Append(InAlbum, NoKey),
                 album |-> Album, auth |-> Auth]
      pages  == [album : {Album}, auth : {Auth}, links : linked,
                 block : {NoBlock, block}]
                \cup [album : {NoKey}, auth : {NoKey, Auth}, links : linked,
                      block : {block}]
  IN {p \in pages : p.links = InAlbum \/ p.block = block}

\* A page that shows nothing of an album: consent, an album taken down.
EmptyPage ==
  [album |-> NoKey, auth |-> NoKey, links |-> <<>>, block |-> NoBlock]

IsMediaKey(key) == key \in Items

\* Every key found counts, those of a photo linked twice as well.
EveryKey(found) == SelectSeq(found, IsMediaKey)

\* Of what is found, the media keys that have not been seen before.
Collecting(found) ==
  LET keys[n \in 0..Len(found)] ==
        IF n = 0 THEN <<>>
        ELSE LET seen == keys[n - 1]
             IN IF IsMediaKey(found[n]) /\ found[n] \notin ToSet(seen)
                THEN Append(seen, found[n]) ELSE seen
  IN keys

Collected(found) == Collecting(found)[Len(found)]

ScrapeShareURL(page) ==
  [albumKey  |-> IF page.album = NoKey THEN page.block.album ELSE page.album,
   authKey   |-> IF page.auth = NoKey /\ page.album = NoKey
                 THEN page.block.auth ELSE page.auth,
   mediaKeys |-> Collected(page.links \o page.block.items)]

-----------------------------------------------------------------------------
(* The script.                                                             *)

Ends(how) == at' = "ended" /\ ending' = how

\* import_share_url reads the page.  Without keys it returns no import_result,
\* and the script raises KeyError.
Scrape ==
  /\ at = "scrape"
  /\ \E page \in AlbumPages \cup {EmptyPage} :
       /\ scraped' = ScrapeShareURL(page)
       /\ IF scraped'.mediaKeys = <<>> THEN Ends("raised")
          ELSE at' = "import" /\ UNCHANGED ending
  /\ UNCHANGED <<shared, transcoding, library, waitMode, promised>>

\* The page cannot be had: scrape_share_url raises.
ScrapeFails ==
  /\ at = "scrape"
  /\ Ends("raised")
  /\ UNCHANGED <<shared, transcoding, library, waitMode, scraped, promised>>

\* An import without new keys taken for one that is not ready.
PollUntilNew(status, new) ==
  IF status = 2 /\ new # {} THEN Ends("completed")
  ELSE IF status \in {1, 2} /\ waitMode THEN at' = "wait" /\ UNCHANGED ending
  ELSE Ends("processing")

\* What the script does with the status of an import and its new keys.
Poll(status, new) ==
  IF status = 2 THEN Ends("completed")
  ELSE IF status # 1 THEN Ends("refused")
  ELSE IF waitMode THEN at' = "wait" /\ UNCHANGED ending
  ELSE Ends("processing")

\* The server imports all the items asked for or none.
Import ==
  /\ at = "import"
  /\ LET asked == ToSet(scraped.mediaKeys)
     IN IF asked \cap transcoding # {}
        THEN Poll(1, {}) /\ UNCHANGED library
        ELSE Poll(2, asked \ library) /\ library' = library \cup asked
  /\ UNCHANGED <<shared, transcoding, waitMode, scraped, promised>>

\* It refuses with another status.
ImportRefused ==
  /\ at = "import"
  /\ Poll(0, {})
  /\ UNCHANGED <<shared, transcoding, library, waitMode, scraped, promised>>

\* An error or no answer, after the import or without it: the script raises.
ImportFails ==
  /\ at = "import"
  /\ Ends("raised")
  /\ LET asked == ToSet(scraped.mediaKeys)
     IN \/ UNCHANGED library
        \/ asked \cap transcoding = {} /\ library' = library \cup asked
  /\ UNCHANGED <<shared, transcoding, waitMode, scraped, promised>>

\* The next attempt imports what the page showed at the first.
WaitAndImport ==
  /\ at = "wait"
  /\ at' = "import"
  /\ promised' = ToSet(InAlbum)
  /\ UNCHANGED <<shared, transcoding, library, waitMode, scraped, ending>>

\* Ten seconds later the next attempt begins with the page.
WaitEnds ==
  /\ at = "wait"
  /\ at' = "scrape"
  /\ promised' = ToSet(InAlbum)
  /\ UNCHANGED <<shared, transcoding, library, waitMode, scraped, ending>>

Script == Scrape \/ ScrapeFails \/ Import \/ ImportRefused \/ ImportFails
            \/ WaitEnds

-----------------------------------------------------------------------------
(* The owner and the server.                                               *)

ShareMore ==
  /\ shared + 1 \in DOMAIN Uploads
  /\ shared' = shared + 1
  /\ transcoding' \in {transcoding, transcoding \cup {Uploads[shared + 1]}}
  /\ UNCHANGED <<library, waitMode, at, scraped, ending, promised>>

TranscodingEnds ==
  /\ \E item \in transcoding : transcoding' = transcoding \ {item}
  /\ UNCHANGED <<shared, library, waitMode, at, scraped, ending, promised>>

Next == Script \/ ShareMore \/ TranscodingEnds

Spec == Init /\ [][Next]_shareVars

\* Requests and the sleep have a timeout, so the script takes its next step.
\* Nothing is assumed of the owner and the server.
FairSpec == Spec /\ WF_shareVars(Script)

-----------------------------------------------------------------------------
(* What the script promises.                                               *)

\* What is imported is of this album, each item once, under the album's keys,
\* whatever of them the page has in its address, links and scripts
\* (ScrapeShareURL, core/scraper.go:67).
TypeOK ==
  /\ shared \in DOMAIN Uploads
  /\ transcoding \subseteq ToSet(InAlbum)
  /\ library \subseteq Items
  /\ promised \subseteq ToSet(InAlbum)
  /\ waitMode \in BOOLEAN
  /\ at \in {"scrape", "import", "wait", "ended"}
  /\ ending \in {"none", "raised", "completed", "processing", "refused"}
  /\ at = "ended" <=> ending # "none"
  /\ at \in {"import", "wait"} =>
       /\ scraped.mediaKeys # <<>>
       /\ IsInjective(scraped.mediaKeys)
       /\ ToSet(scraped.mediaKeys) \subseteq ToSet(InAlbum)
       /\ scraped.albumKey = Album /\ scraped.authKey = Auth

\* When the script says the import is complete, all that the album held when
\* its last attempt began is in the library: also what was shared while it
\* waited (save.py:56, import_share_url).
CompletedIsSaved == ending = "completed" => promised \subseteq library

\* Once nothing of the album is being transcoded any more, a waiting script
\* ends, also when the user has all the items already (save.py:63).
PollingEnds == <>[](transcoding = {}) => <>(at = "ended")
=============================================================================
