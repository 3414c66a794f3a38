----------------------------- MODULE WebLibrary -----------------------------
(***************************************************************************)
(* The operations that move, import and destroy media:                     *)
(*   importFromDriveInternal and BatchImportFromDrive  (core/web_client.go)*)
(*   ResetAccount and ListLibraryItems                 (core/web_client.go)*)
(*   GPWC_DeletePermanently                       (core/cshared/main.go)   *)
(*   DeleteByMediaKey                                  (core/client.go)    *)
(* run by several sessions on one account.  Each is a sequence of RPCs; an *)
(* RPC fails before the server carried it out, or after, or succeeds.      *)
(*                                                                         *)
(* The server lists the library in the order of Listing and pages by       *)
(* position, so trashing a page moves no item to another page.  Emptying   *)
(* the trash purges all of it, whoever trashed what.  An import is of one  *)
(* file, by itself or as a batch of one; WebSession has larger batches.    *)
(***************************************************************************)
EXTENDS Naturals, Sequences, FiniteSets

CONSTANTS
  Sessions,   \* client sessions on the account
  Listing,    \* every item that may come to be in the account, in list order
  Keyless,    \* items a listing gives no dedup key for
  InLibrary,  \* items in the library at the start
  PageSize,   \* items per page of a listing (500)
  Nothing     \* no item

Items == {Listing[n] : n \in DOMAIN Listing}

ASSUME LibraryAssumption ==
  /\ Listing \in Seq(Items)
  /\ Keyless \subseteq Items
  /\ InLibrary \subseteq Items
  /\ PageSize \in Nat \ {0}
  /\ Nothing \notin Items

VARIABLES
  place,    \* server: where each item is
  at,       \* where each session is in its operation
  oper,     \* the operation of each session
  item,     \* the item it imports or deletes
  page,     \* ResetAccount: pageID, the position it lists from, 0 for ""
  listed,   \* ResetAccount: the keys and the next page of the last listing
  counted,  \* ResetAccount: the items counted in totalDeleted
  result,   \* what the Go function returned
  url,      \* the import result has a download URL
  present   \* history: the library when ResetAccount started

sessionVars == <<at, oper, item, page, listed, counted, result, url,
                 present>>
libraryVars == <<place, at, oper, item, page, listed, counted, result, url,
                 present>>

Operations == {"none", "import", "cleanup", "delete", "apidelete", "reset"}
NoListing  == [keys |-> {}, next |-> 0]
In(where)  == {i \in Items : place[i] = where}

Init ==
  /\ place = [i \in Items |-> IF i \in InLibrary THEN "library" ELSE "absent"]
  /\ at = [s \in Sessions |-> "idle"]
  /\ oper = [s \in Sessions |-> "none"]
  /\ item = [s \in Sessions |-> Nothing]
  /\ page = [s \in Sessions |-> 0]
  /\ listed = [s \in Sessions |-> NoListing]
  /\ counted = [s \in Sessions |-> {}]
  /\ result = [s \in Sessions |-> "none"]
  /\ url = [s \in Sessions |-> FALSE]
  /\ present = [s \in Sessions |-> {}]

Goto(s, from, to) == at[s] = from /\ at' = [at EXCEPT ![s] = to]

\* jsonResponse and _parse_c_json: of an operation that returns an error the
\* caller gets that, an exception in Python, and no result Go had beside it.
Return(s, from, r) ==
  /\ Goto(s, from, "done")
  /\ result' = [result EXCEPT ![s] = r]

-----------------------------------------------------------------------------
(* What the RPCs do on the server when they are carried out.               *)

MoveAll(S, where) == [i \in Items |-> IF i \in S THEN where ELSE place[i]]

\* XwAOJf: items of the library move to the trash.
TrashItems(S) == place' = MoveAll(S \cap In("library"), "trash")

\* e2FP6c: everything in the trash is gone.
PurgeTrash == place' = MoveAll(In("trash"), "gone")

\* The listing without the test for an empty dedup key.
PageWithKeyless(p) ==
  LET from   == {n \in DOMAIN Listing : n > p /\ place[Listing[n]] = "library"}
      inPage == {n \in from : Cardinality({m \in from : m <= n}) <= PageSize}
      last   == CHOOSE n \in inPage : \A m \in inPage : m <= n
  IN [keys |-> {Listing[n] : n \in inPage},
      next |-> IF inPage = from THEN 0 ELSE last]

\* The page of the library after position p, and the position of its last item
\* if more follow, 0 ("") if none does.
Page(p) ==
  LET from   == {n \in DOMAIN Listing : n > p /\ place[Listing[n]] = "library"}
      inPage == {n \in from : Cardinality({m \in from : m <= n}) <= PageSize}
      last   == CHOOSE n \in inPage : \A m \in inPage : m <= n
  IN [keys |-> {Listing[n] : n \in inPage} \ Keyless,
      next |-> IF inPage = from THEN 0 ELSE last]

-----------------------------------------------------------------------------

Begin(s, o, i, first) ==
  /\ Goto(s, "idle", first)
  /\ oper' = [oper EXCEPT ![s] = o]
  /\ item' = [item EXCEPT ![s] = i]

-----------------------------------------------------------------------------
(* Import from Drive, with or without cleanup.                             *)

StartImport(s, i, cleanup) ==
  /\ place[i] = "absent"
  /\ \A t \in Sessions : item[t] # i
  /\ Begin(s, IF cleanup THEN "cleanup" ELSE "import", i, "susgud")
  /\ UNCHANGED <<place, page, listed, counted, result, url, present>>

\* SusGud imports the item; the answer may lack its download URL.  Cleanup
\* needs its dedup key and a status of 0, the import only its media key.
Imported(s) ==
  /\ \/ Goto(s, "susgud", "resolve")
     \/ /\ Goto(s, "susgud", "trash")
        /\ oper[s] = "cleanup"
        /\ item[s] \notin Keyless
  /\ place' = MoveAll({item[s]}, "library")
  /\ \E got \in BOOLEAN : url' = [url EXCEPT ![s] = got]
  /\ UNCHANGED <<oper, item, page, listed, counted, result, present>>

\* SusGud fails, perhaps after importing; the storage may be full; or the item
\* is answered without a media key (rejected or still processing).
ImportFails(s) ==
  /\ \/ /\ \E r \in {"error", "quota exceeded", "rejected"} :
             Return(s, "susgud", r)
        /\ UNCHANGED place
     \/ /\ Return(s, "susgud", "error")
        /\ place' = MoveAll({item[s]}, "library")
  /\ UNCHANGED <<oper, item, page, listed, counted, url, present>>

\* Cleanup ignores the errors of both of its RPCs.
CleanupTrash(s) ==
  /\ Goto(s, "trash", "empty")
  /\ TrashItems({item[s]}) \/ UNCHANGED place
  /\ UNCHANGED <<oper, item, page, listed, counted, result, url, present>>

CleanupEmpty(s) ==
  /\ oper[s] = "cleanup"
  /\ Goto(s, "empty", "resolve")
  /\ PurgeTrash \/ UNCHANGED place
  /\ UNCHANGED <<oper, item, page, listed, counted, result, url, present>>

\* A missing URL is asked for with VrseUb; an item that is gone has none.
\* Without it the import still succeeds.
ResolveURL(s) ==
  /\ Return(s, "resolve", "ok")
  /\ \E got \in {url[s]} \cup
       (IF place[item[s]] \in {"library", "trash"} THEN BOOLEAN ELSE {FALSE}) :
       /\ url[s] => got
       /\ url' = [url EXCEPT ![s] = got]
  /\ UNCHANGED <<place, oper, item, page, listed, counted, present>>

-----------------------------------------------------------------------------
(* GPWC_DeletePermanently: MoveToTrash, then EmptyTrash.                   *)

StartDelete(s, i) ==
  /\ place[i] = "library"
  /\ Begin(s, "delete", i, "dtrash")
  /\ UNCHANGED <<place, page, listed, counted, result, url, present>>

\* The trash emptied although the item may not be in it.
DeleteTrashUnchecked(s) ==
  /\ Goto(s, "dtrash", "empty")
  /\ TrashItems({item[s]}) \/ UNCHANGED place
  /\ UNCHANGED <<oper, item, page, listed, counted, result, url, present>>

DeleteTrash(s) ==
  /\ \/ Goto(s, "dtrash", "empty") /\ TrashItems({item[s]})
        /\ UNCHANGED result
     \/ Return(s, "dtrash", "error")
        /\ (TrashItems({item[s]}) \/ UNCHANGED place)
  /\ UNCHANGED <<oper, item, page, listed, counted, url, present>>

DeleteEmpty(s) ==
  /\ oper[s] = "delete"
  /\ \/ Return(s, "empty", "ok") /\ PurgeTrash
     \/ Return(s, "empty", "error") /\ (PurgeTrash \/ UNCHANGED place)
  /\ UNCHANGED <<oper, item, page, listed, counted, url, present>>

-----------------------------------------------------------------------------
(* DeleteByMediaKey of the API client.                                     *)

StartApiDelete(s, i) ==
  /\ place[i] = "library"
  /\ Begin(s, "apidelete", i, "lookup")
  /\ UNCHANGED <<place, page, listed, counted, result, url, present>>

\* GetDownloadURL gives the dedup key, or an error.
Lookup(s) ==
  /\ \/ /\ Goto(s, "lookup", "atrash")
        /\ place[item[s]] # "gone"
        /\ item[s] \notin Keyless
        /\ UNCHANGED result
     \/ Return(s, "lookup", "error")
  /\ UNCHANGED <<place, oper, item, page, listed, counted, url, present>>

\* The error of MoveToTrash is ignored.
ApiTrash(s) ==
  /\ Goto(s, "atrash", "adelete")
  /\ TrashItems({item[s]}) \/ UNCHANGED place
  /\ UNCHANGED <<oper, item, page, listed, counted, result, url, present>>

\* The item's own deletion, which the server refuses outside the trash.
ApiDeletePermanently(s) ==
  /\ \/ /\ \E r \in {"ok", "error"} : Return(s, "adelete", r)
        /\ place[item[s]] \in {"trash", "gone"}
        /\ place' = MoveAll({item[s]}, "gone")
     \/ Return(s, "adelete", "error") /\ UNCHANGED place
  /\ UNCHANGED <<oper, item, page, listed, counted, url, present>>

-----------------------------------------------------------------------------
(* ResetAccount.                                                           *)

StartReset(s) ==
  /\ Begin(s, "reset", Nothing, "list")
  /\ present' = [present EXCEPT ![s] = In("library")]
  /\ UNCHANGED <<place, page, listed, counted, result, url>>

ListItems(s) ==
  /\ \/ /\ Goto(s, "list", IF Page(page[s]).keys = {} THEN "next" ELSE "rtrash")
        /\ listed' = [listed EXCEPT ![s] = Page(page[s])]
        /\ UNCHANGED result
     \/ Return(s, "list", "error") /\ UNCHANGED listed
  /\ UNCHANGED <<place, oper, item, page, counted, url, present>>

\* Items counted whether or not they were trashed.
ResetTrashUnchecked(s) ==
  /\ Goto(s, "rtrash", "next")
  /\ TrashItems(listed[s].keys) \/ UNCHANGED place
  /\ counted' = [counted EXCEPT ![s] = @ \cup listed[s].keys]
  /\ UNCHANGED <<oper, item, page, listed, result, url, present>>

ResetTrash(s) ==
  /\ \/ /\ Goto(s, "rtrash", "next")
        /\ TrashItems(listed[s].keys)
        /\ counted' = [counted EXCEPT ![s] = @ \cup listed[s].keys]
        /\ UNCHANGED result
     \/ /\ Return(s, "rtrash", "error")
        /\ TrashItems(listed[s].keys) \/ UNCHANGED place
        /\ UNCHANGED counted
  /\ UNCHANGED <<oper, item, page, listed, url, present>>

\* The loop left at the first page without a key.
NextPageUntilEmpty(s) ==
  LET next == listed[s].next
  IN IF listed[s].keys = {} \/ next = 0
     THEN Goto(s, "next", "empty") /\ UNCHANGED page
     ELSE Goto(s, "next", "list") /\ page' = [page EXCEPT ![s] = next]

\* The page id never advanced.
NextPageStuck(s) ==
  LET next == listed[s].next
  IN IF next = 0
     THEN Goto(s, "next", "empty") /\ UNCHANGED page
     ELSE Goto(s, "next", "list") /\ UNCHANGED page

NextPage(s) ==
  LET next == listed[s].next
  IN IF next = 0 \/ next = page[s]
     THEN Goto(s, "next", "empty") /\ UNCHANGED page
     ELSE Goto(s, "next", "list") /\ page' = [page EXCEPT ![s] = next]

NextOrEmpty(s) ==
  /\ NextPage(s)
  /\ listed' = [listed EXCEPT ![s] = NoListing]
  /\ UNCHANGED <<place, oper, item, counted, result, url, present>>

\* An error of EmptyTrash is reported inside a success.
ResetEmpty(s) ==
  /\ oper[s] = "reset"
  /\ \/ Return(s, "empty", "ok") /\ PurgeTrash
     \/ Return(s, "empty", "trash not emptied")
        /\ (PurgeTrash \/ UNCHANGED place)
  /\ UNCHANGED <<oper, item, page, listed, counted, url, present>>

-----------------------------------------------------------------------------

\* The caller has the result and forgets the operation.
Finish(s) ==
  /\ Goto(s, "done", "idle")
  /\ oper' = [oper EXCEPT ![s] = "none"]
  /\ item' = [item EXCEPT ![s] = Nothing]
  /\ page' = [page EXCEPT ![s] = 0]
  /\ listed' = [listed EXCEPT ![s] = NoListing]
  /\ counted' = [counted EXCEPT ![s] = {}]
  /\ result' = [result EXCEPT ![s] = "none"]
  /\ url' = [url EXCEPT ![s] = FALSE]
  /\ present' = [present EXCEPT ![s] = {}]
  /\ UNCHANGED place

Start(s) ==
  \/ \E i \in Items : \/ \E cleanup \in BOOLEAN : StartImport(s, i, cleanup)
                      \/ StartDelete(s, i)
                      \/ StartApiDelete(s, i)
  \/ StartReset(s)

Proceed(s) ==
  \/ Imported(s) \/ ImportFails(s) \/ CleanupTrash(s) \/ CleanupEmpty(s)
  \/ ResolveURL(s)
  \/ DeleteTrash(s) \/ DeleteEmpty(s)
  \/ Lookup(s) \/ ApiTrash(s) \/ ApiDeletePermanently(s)
  \/ ListItems(s) \/ ResetTrash(s) \/ NextOrEmpty(s) \/ ResetEmpty(s)
  \/ Finish(s)

Next == \E s \in Sessions : Start(s) \/ Proceed(s)

Spec == Init /\ [][Next]_libraryVars

\* Every RPC has a timeout, so a started operation takes its next step.
FairSpec == Spec /\ \A s \in Sessions : WF_libraryVars(Proceed(s))

-----------------------------------------------------------------------------
(* Properties.                                                             *)

\* Every variable has its type; what is listed and counted has a dedup key.
TypeOK ==
  /\ place \in [Items -> {"absent", "library", "trash", "gone"}]
  /\ at \in [Sessions -> {"idle", "susgud", "trash", "empty", "resolve",
                          "dtrash", "lookup", "atrash", "adelete", "list",
                          "rtrash", "next", "done"}]
  /\ oper \in [Sessions -> Operations]
  /\ item \in [Sessions -> Items \cup {Nothing}]
  /\ page \in [Sessions -> 0..Len(Listing)]
  /\ listed \in [Sessions -> [keys : SUBSET (Items \ Keyless),
                             next : 0..Len(Listing)]]
  /\ counted \in [Sessions -> SUBSET (Items \ Keyless)]
  /\ result \in [Sessions -> {"none", "ok", "error", "quota exceeded",
                              "rejected", "trash not emptied"}]
  /\ url \in [Sessions -> BOOLEAN]
  /\ present \in [Sessions -> SUBSET Items]

\* A deletion that reports success has purged its item, whatever other
\* sessions trash, purge or delete in between.
DeletedMeansGone ==
  \A s \in Sessions :
    at[s] = "done" /\ oper[s] \in {"delete", "apidelete"} /\ result[s] = "ok" =>
      place[item[s]] = "gone"

\* A reset that emptied the trash has purged every item with a dedup key that
\* was in the library when it started, whoever trashed it, page by page.
ResetIsComplete ==
  \A s \in Sessions :
    at[s] = "done" /\ oper[s] = "reset" /\ result[s] = "ok" =>
      \A i \in present[s] \ Keyless : place[i] = "gone"

\* The items a reset counts as deleted are out of the library, even if a later
\* step of it fails, and gone if the trash was emptied.
CountedIsDeleted ==
  \A s \in Sessions : \A i \in counted[s] :
    /\ place[i] \in {"trash", "gone"}
    /\ at[s] = "done" /\ result[s] = "ok" => place[i] = "gone"

\* Every operation ends; ResetAccount does not list for ever.
EveryOperationEnds ==
  \A s \in Sessions : at[s] # "idle" ~> at[s] = "idle"
=============================================================================
