# Photos Engine in TLA+

A specification of the parts of Photos Engine that are hard to test: the token
cache and the 401 retry of the API client, the async bridge between Python
event loops and Go goroutines, the handles by which Python knows Go clients,
the operations that move and destroy media on an account other sessions use at
the same time, the life of a web session from a cookie text to its export with
the answers it reads, the script that imports a shared album, and the protobuf
messages the client writes and reads. TLC checks the models on small instances;
TLAPS proves the safety of the token cache, the API client, the handles, the
async bridge, the library operations and the album import for any number of
goroutines, threads, calls, sessions and items, that the bridge implements what
an awaited call promises, that a web session reports errors and results as the
server gave them and keeps the cookies of a JSON text, and that a varint is read
as it was written.

Paths in this text are relative to the repository.

## 1. The system and its parts

| Part | State | Operations | Talks to |
|---|---|---|---|
| Token manager, `core/auth.go` | `cachedToken`, `expiresAt` under an RWMutex | `GetToken`, `Invalidate` | the auth endpoint, by HTTP with a 30 s timeout, the write lock held |
| API client, `core/client.go` | a token manager, an HTTP client (45 s timeout) | `sendRequest`, `GetStreamManifest` and the operations built on them | the photos API; the token manager, by calls |
| Web client, `core/web_client.go`, `core/cookies.go` | an HTTP session with a cookie jar, `globalData` read once | creation from cookies or a blob, export, `SendBatchexecute` with its envelope parser, the library operations and the quota page | photos.google.com |
| C ABI, `core/cshared/main.go` | maps: handle to client, callback id to function pointer, callback id to cancel function, each under its lock | synchronous exports that return JSON, `_Async` exports that return at once | both clients, by calls; Python, by a callback on a goroutine's thread |
| Python package, `photos_engine/client.py` | `_pending` futures under a lock, the callback object, client handles | one method per export, sync and async | the C ABI, by ctypes; asyncio |
| Wire format, `core/proto.go` | none | encode, parse | - |
| Album import, `save.py`, `core/scraper.go` | the script's attempt | scrape a share page, import, wait, try again | the Python package, photos.google.com |
| CLI, examples, build | none worth a model | - | - |

What makes each part correct, and what is hard about it:

- **Token manager.** Goroutines find the cache stale together; a refresh is an
  HTTP request that may take 30 s and fails in many ways; a token may be
  invalidated while others use it. Correct: one refresh at a time and only when
  needed; no cached token is handed out stale, half-read or after it was
  invalidated; slow answers never undo newer ones.
- **API client.** A 401 invalidates a cache that all calls share, and the
  request is sent again. Correct: the second attempt uses a newer token than
  the rejected one; no call is carried out twice; success means done; every
  call returns.
- **Async bridge.** A call lives on both sides of the ABI in five places (two
  Go maps, `_pending`, a future, a goroutine), and completion, cancellation and
  the closing of the event loop race. Correct: a call ends exactly once with
  its own outcome or cancelled, a cancel reaches the context of the operation,
  an ended call has left the maps of requests and futures, every await ends, no
  freed callback is called.
- **Handles.** Python holds a number for each Go client; ctypes lets other
  threads construct and close objects between the read of the number and its
  lookup. Correct: a handle is never another client's, an open object can be
  used, no client stays in the map without an owner.
- **Library operations.** Each is a sequence of RPCs that may fail before or
  after taking effect, on an account shared with other sessions, with a trash
  that is emptied as a whole. Correct: what is reported as deleted is gone, a
  reset misses nothing it should delete, every operation ends.
- **Web session.** The same cookies come in three formats, quoted or not, and
  go out in two more; the tokens are read once while the login is renewed
  elsewhere; an answer is looked for in a text that holds other things beside
  it. Correct: the session has the cookies written down, an export can be loaded
  again, a report without an error is what the server did, and what is no
  success is an error.
- **Album import.** The script waits while items are transcoded and the album
  may grow meanwhile. Correct: complete means all of the album is saved, and a
  waiting script ends.
- **Wire formats.** Parsing what was built returns it; malformed input is an
  error and not an exception or an endless loop.

## 2. Modules

| Module | Models | Uses |
|---|---|---|
| `TokenManager` | `core/auth.go` | - |
| `TokenManagerProofs` | its theorems | `TokenManager`, TLAPS |
| `ApiClient` | `sendRequest`, `GetStreamManifest`, `GetToken` of `core/client.go` | extends `TokenManager`, whose actions its own are conjoined with |
| `ApiClientProofs` | its theorems | `ApiClient`, `TokenManagerProofs` |
| `AsyncCall` | abstract: what an awaited call promises | - |
| `AsyncBridge` | `dispatchAsync`, the callback maps, `_AsyncCallbackManager`, `_call_async` | `AsyncCall`, as the specification it implements |
| `AsyncBridgeProofs` | its theorems | `AsyncBridge`, TLAPS |
| `HandleRegistry` | `clientsMap`, `nextHandle` and the life of a `PhotosEngineClient` | - |
| `HandleRegistryProofs` | its theorems | `HandleRegistry`, TLAPS |
| `WebLibrary` | import with cleanup, `ResetAccount`, `GPWC_DeletePermanently`, `DeleteByMediaKey` | - |
| `WebLibraryProofs` | its theorems | `WebLibrary`, TLAPS |
| `Cookies` | `core/cookies.go`, as operators | - |
| `Batchexecute` | the envelope parser and the readers of payloads in `core/web_client.go`, as operators | - |
| `QuotaPage` | `parseStorageQuotaHTML`, as operators | - |
| `WebSession` | a web client made, used, exported, closed and made again | extends `Cookies`, `Batchexecute`, `QuotaPage` |
| `WebSessionProofs` | its theorems | `WebSession`, TLAPS |
| `ShareImport` | `save.py`, `import_share_url`, `ScrapeShareURL` | - |
| `ShareImportProofs` | its theorems | `ShareImport`, TLAPS |
| `Varint` | `encodeVarint`, `decodeVarint` of `core/proto.go`, as operators | - |
| `VarintProofs` | its theorems | `Varint`, TLAPS |
| `ProtoWire` | the other encoders and `ParseProtobuf` of `core/proto.go`, as operators | extends `Varint` |
| `ApiMessages` | the payload builders, the reading of answers in `core/client.go`, messages built field by field | extends `ProtoWire` |
| `MC*` | instances for TLC | the module of their name |

### TokenManager

One `pc` per goroutine, one action per stretch of code between two points
where another goroutine can see or change something: `RLock`, the freshness
test (`FastHit`, `FastMiss`), the read of the token with `RUnlock`
(`FastRead`), `Lock`, the double-check (`RecheckHit`, `RecheckMiss`), the
request (`AuthIssues` is the endpoint, `StoreToken` the answer, `FetchFails`
every error return) and `Return`. The test and the read are two actions,
although the read lock covers both: that the lock makes them one is a result
(`CachedReplyWasFresh`) and not an assumption. `Invalidate` is one action,
since nothing interleaves under the write lock and it makes no call.
`RWMutex` is `readers` and `writer`. A token is the number of its issue;
`checkedAt`, `cleared` and `since` are history variables the properties need.
Go's writer preference is left out: it restricts which of the modelled
behaviours happen, and matters only to liveness, where the fairness of the
mutex is assumed.

### ApiClient

`stage` is where a goroutine is in its call. Actions that call the token
manager conjoin the token manager's action (`StartRequest` with `CallGetToken`,
`Rejected` with `CallInvalidate`, `GotToken` with `Return`); `TokenStep` lets a
goroutine go on inside it. `sendRequest` and `GetStreamManifest` have the same
control and differ in `kind`: a manifest changes nothing on the server. The
server is external: it may revoke any token (`Revoke`), refuses a revoked one,
and may carry a request out although the client sees a failure. `answer`
collapses the status to 200, 401 and the rest.

`unread` has the goroutines whose request still has its payload to be read. The
payload is a reader; `NewRequest` makes it with the request, the first `Do` reads
it to its end, and `Retry` sets the token anew and nothing else. So the retry of a
POST is not `Whole`, and the server, which has the Content-Length, does not
carry it out: it fails in the transport or with an answer that is no 200.
(A manifest has no payload, and its retry may succeed.) This is what happens over
HTTP/2, which the transport asks for (`client.go:52`).

### AsyncBridge and AsyncCall

`running[l]` is the coroutine an event loop is executing, so that coroutines on
one loop do not interleave between awaits while loops on different threads and
goroutines interleave at every step. `ready[l]` is the loop's queue, in order.
`asyncCallbacks`, `activeRequests` and `pending` are the three maps. `held` is
a local of the goroutine: the pointer it read from the map, then the future it
took from `_pending`. A callback object is a number; the object Python refers
to is `callbackRef`, all others are freed. `CancelTask` has two cases, as
asyncio's has. While the future is pending it is the future that is cancelled, and
its done callback (`CancelRequest`, `UnregisterCallback`, `UnregisterRequest`,
`PopPending`) runs. Between `set_result` and the wake-up of the task the future is
left alone and the task is told to cancel (`mustCancel`): the await ends with
`CancelledError` when its turn comes (`RunDone`), and `fut.cancelled()` is false.
`CloseLoop` is what `asyncio.run` does when the tasks of the loop have ended. `AsyncCall` has four actions
(begin, the operation ends, settle, cancel); `ImplementsAsyncCall` says that
every behaviour of the bridge is one of its behaviours under the mapping in
`AsyncBridge`: a call waits until its coroutine has gone on, and ends as
`Ending` says.

### HandleRegistry

A thread works on one object at a time: `obj`, the handle it has in a local
(`arg`) and the client Go found for it (`client`). Construction is four steps:
`NewClient`, the atomic add (`TakeHandle`), the store under the lock
(`Register`), and the assignment to `_handle` (`BindHandle`). `_call` reads
`_handle` (`StartCall`) before Go looks it up (`GetClient`). `close` tests,
reads, deletes and zeroes in four steps, so that two threads may be closing one
object; `__del__` is the same steps once no thread refers to the object. An
`_Async` export looks the client up in the calling thread too. An exception
between Go's answer and the assignment (an interrupt, no memory) would lose the
handle and is not modelled. The web clients' map is the same code over its own
variables.

### WebLibrary

`place` is the server: each item is absent, in the library, in the trash or
gone. Every RPC is an action with three outcomes: done, failed before it was
carried out, failed after. Whether the code ignores, wraps or reports the
failure is in the action (`CleanupTrash` ignores it, `ResetEmpty` reports it
inside a success, `DeleteTrash` stops). `Page` is the server's answer to a
listing with the filter of `ListLibraryItems` applied. `Return` models
`jsonResponse` and `_parse_c_json`: an error is all the caller gets, an exception
in Python.

### WebSession, Cookies, Batchexecute and QuotaPage

`WebSession` is one client with one call at a time; what concurrent sessions do
to one library is `WebLibrary`. The split keeps each small: `WebLibrary` has
RPCs that succeed or fail, `WebSession` has the bodies they come in and what the
parser makes of them.

`held` is the text or blob the user has: taken from a browser (`TakeText`) or
exported (`Export`). `status` is the client: `loaded` once its jar is filled,
`live` once the start page gave its tokens (`GetGlobalData`). `login` counts the
login cookies the server has given out; another device may renew it (`Renew`),
and `at` then belongs to an older one, which the server refuses. `call.rpc` is
the request the operation sends next. `Answered`, `AnsweredWithError`,
`Refused` and `TransportFails` are what may come of it; each builds a body,
hands it to `ReadAnswer` and goes on with `Proceeds`, the code of the operations
after `SendBatchexecute`. `meant` and `said` are histories: the report that would
be true, and the error the server gave. `report` is what the operation returned.

`Cookies` sees a text as a sequence of tokens: the separators the parser looks
for and the words between them, so that splitting, trimming and format detection
are computed while words are not spelled out. A JSON document is one token with
its decoded value beside it, since `encoding/json` reads it. Every text of a
browser carries the jar it stands for (`Written`), built from the cookies and not
from the text. Where the code walks a list and skips elements, `Kept`,
`ImportItems` and `SentOf` keep the others at the places they had, and where it
stops at the first that fits (`TargetLine`, `FromEntries`, `FromMixed`) the
element at the least place is taken. `Empty` is the string of no characters: no
error, no URL, no key. `Batchexecute` sees a body as lines, of which some are JSON
arrays; a string may hold the text of another value. `ParseRPCError` looks for
the numbers where errors have them, the code in the whole text. `QuotaPage` has
sizes in tenths of a MB and percentages in tenths.

### ShareImport

`at` is the line of the script, `scraped` what the last page showed, `promised`
what the album held when the attempt began. `AlbumPages` are the pages the
scraper is made for: links, data block or both, a photo linked twice, a link to
something else. `Poll` is the branch on the status in `save.py`. The owner adds
items (`ShareMore`) and the server finishes them (`TranscodingEnds`) at any time;
it imports all the items asked for, or says they are not ready.

### Varint, ProtoWire and ApiMessages

`Varint` and `ProtoWire` compute with real bytes: a buffer is a sequence of
0..255, a word a number below `Word`, and `ParseFrom` is the loop of `ParseProtobuf`, down to a slice that would end
before it begins (outcome `panic`). A position is one more than in Go.
`ApiMessages` is the machine that uses it: a buffer grows by `encodeInt` and
`encodeString` (`WriteField`), is wrapped by `encodeLengthDelimited`
(`Enclose`), or is filled by a payload builder (`Build`) or by the server
(`Answer`, external: which fields the client expects is read off the client).
`message` is what was meant, `buf` what was written, and the properties compare
the first with what the parser makes of the second. `ReadDownload` and the
other `Read*` operators are the client's walks through the nodes. The client's
loop over the roots is a search for the field, since an answer has it once.
Texts are a few byte strings of printable ASCII, one of which happens to parse
as a
message; the fixed texts and the read mask in the payloads are one of them, and
the fixed number 49029607 is the largest word.

## 3. Runs

| Run | Instance | Shows |
|---|---|---|
| `token_cache` | 3 goroutines, 2 tokens, clock 0..3, expiry in the past, default (2) or beyond the margin (3) | the token manager's properties |
| `api_calls` | 2 goroutines, 2 tokens, clock 0..1 | the client's safety, that it uses the token manager as specified, and that every call returns |
| `async_bridge` | 2 calls on 2 loops, callback object already made | what a cancel reaches, what an ended call leaves, the abstract specification |
| `async_awaits_end` | 2 calls on 1 loop, first use | every await ends, no freed callback |
| `handles` | 3 threads, 3 objects | own client, usable until closed, no leak |
| `library` | 2 sessions, 3 items, 1 item per page | deletion, reset, termination |
| `wire` | 3 encoder calls, all payloads, all answers; words of 15 bits | what is written is read, whole, cut short, or as an answer |
| `web_session` | 1 client, 2 files, 2 logins, 5 browsers, 4 accounts | cookies in and out, errors reported, reports true |
| `share_import` | 3 items, 2 of them already in the library | complete means saved, waiting ends |
| `retry_payload` | as `api_calls` | **violated**: see Findings |
| `async_first_use` | 2 calls on 2 loops, first use | **violated**: see Findings |
| `refused_rpc` | as `web_session`, refusals may be silent | **violated**: see Findings |

Bounds and why they are enough:

- *Goroutines.* Three in `token_cache`: one refreshing, one waiting behind it
  and one invalidating. The composed runs take two; the proofs cover any
  number. Goroutines are interchangeable, so `token_cache` and `handles` use
  symmetry;
  the runs with liveness do not.
- *`MaxFetches`, `MaxTime`.* Two tokens are one that is rejected and its
  replacement; when they are used up the endpoint only fails. Time is needed to
  let a token go stale between two steps; `DefaultTTL` and the expiries are
  chosen on both sides of the margin. In `api_calls` a token
  issued at the first of two times is stale at the second; it is revoked at any.
- *`MaxId`, `Requests`.* Ids are never reused, so `MaxId` is the number of
  calls. Two calls are enough for one to take what belongs to the other.
- *`Threads`, `Objects`, `MaxHandles`.* Three threads: one calling, one closing,
  one constructing. An object is constructed once, so three handles suffice.
  The counter is 64 bits wide and does not wrap.
- *`Listing`, `PageSize`.* An item without a key, one with a key and one that
  comes during the run, one per page: a reset sees an empty page before a full
  one and a page that grows behind or ahead of it.
- *`Word`, `MaxGroups`.* Words of 15 bits in 3 groups of 7 in place of 64 in 10: TLC's
  integers have 32 bits. As in the code the last group holds one bit of the
  word. The integers written are 0, both sides of the second group, and the
  largest, which is -1.
- *`MaxSteps`, `Fields`, `Chunks`.* Three calls give two fields in a message, a
  field behind a message, and a message in a message in a message. 1 and 16 have
  tags of one and two bytes, and 130 is a length of two. The chunks also have no
  bytes, bytes of a text, of a text that parses as a message, and of a message
  with half a tag behind it. Payloads and answers nest deeper by themselves.
- *`Browser`, `Logins`, `Files`, `Storages`.* The lists of cookies have a login
  alone; the same name on two domains with a value that holds `=`; a cookie
  without a value beside a login and by itself (no cookie at all, an error); and
  no login. Each is written in every format, with tabs or spaces, both line ends
  and up to three layers of quotes (`Clean` takes off three). Two logins are the
  one the client has and a newer one.
  Two files are the batch in which one item succeeds and one does not; one is in
  the library, so that lists are empty and not. The accounts are empty, full,
  and in between with used space in both units.
- *`Silent`.* Whether a refusal may be an envelope with statistics only. In
  `web_session` it may not: with it the properties fail, which is finding 2.
- *`Uploads`.* Three items: one on the first page, one shared while the script
  waits, one already in the library. The script tries as often as it takes.
- `CHECK_DEADLOCK FALSE` is set only in the bridge's runs, where all calls may
  have ended and all loops be closed, in `handles`, where all objects may be
  finalised, and in `share_import`, where the script ends.

Fairness. Goroutines and event loops keep running (weak fairness of their next
step). `sync.RWMutex` does not starve a waiter, hence strong fairness of the
lock steps. Both HTTP clients have a timeout and every RPC of the web
client is given one, so a request in flight always has an enabled error step;
nothing is assumed of a server. The script of `ShareImport` goes on for the same
reason: its requests and its sleep end. Nothing is assumed of the owner of the
album or of transcoding: `PollingEnds` is about the behaviours in which
transcoding comes to an end. Calls need not be made, tasks not cancelled,
loops not closed.

Every property of a passing run is paired with a mutated action that stands
before the original in its module (`LockAsRLock` before `Lock`): a dropped
guard, an order swapped, a reset forgotten. Put in place of the original, it
makes TLC report that property.

### Findings

1. `_ensure_callback` (`photos_engine/client.py:206`) tests and sets
   `_callback_ref` without a lock. Two threads, each with an event loop, making
   the first async calls of a process may create two callback objects; the
   second assignment frees the one whose pointer the first thread has given to
   Go (`async_first_use`). After the first use, or with one event loop, no such
   behaviour exists (`async_awaits_end`).
2. A call that the server refuses with an envelope that has no entry of it is
   answered with the payload of another entry (`refused_rpc`): where the envelope
   has the usual `af.httprm` statistics, a deletion reports success and a listing
   is empty, in place of the error `rpcID %s not found in response envelope`.
3. The retry of a POST after a 401 (`client.go:115`) is sent without its payload,
   which the first attempt has read to its end (`retry_payload`). A call whose
   token was revoked or expired early ends with the 401, and only the next one
   has the new token; the retry of a manifest works.

Met while modelling and not stated as a property:

- *Library.* The result with `quota_exceeded` that Go builds for a full storage
  (`main.go:510`) is dropped on the way to Python, where an exception is raised;
  `docs/api-reference.md:832` has it set in the result. `DeleteByMediaKey`, which `docs/api-reference.md` calls atomic,
  leaves its item in the trash when its second request fails. Cleanup empties the
  trash before the download URL of an imported item is asked for, while
  `docs/cli-reference.md:161` says after. `ResetAccount` does not use its timeout.
  A context whose deadline has passed gives an import 120 s
  (`web_client.go:471`). The fallback for an import answer that is itself the
  list of items never
  applies, since its first item is taken for the list (`web_client.go:386`).
- *Web session.* A header with its name, "raw `Cookie: ...` header strings" in
  `docs/go-api-reference.md:169`, gives a first cookie of the name `Cookie: SID`
  and no `SID`. The runs have such texts, and the session such cookies;
  `LoadedAsWritten` excepts them and says so. A text whose only `=` is in a Netscape comment, or in JSON that does not parse, is taken for a
  header. A number of a million or more as a JSON value loses its digits
  (`fmt.Sprint`). The header of an export puts cookies of all domains together.
  `GPWC_CloseClient` does not close the session. `CreateShareLink` loses the class
  of an error. A quota text with more used than total, and no bars, gives a
  negative free percentage; an empty account shown by bars only is reported as
  not found.
- *Album import.* Without keys, `import_share_url` returns the page without an
  `import_result`, and `save.py:60` raises `KeyError` where it has a message for
  a failed scrape. The comment in `scraper.go:85` calls the script a fallback; its
  keys are always added. The auth key of the script is not taken when the
  address has an album key and no auth key.
- *API client.* The comment `Verify all bytes were consumed` (`proto.go:113`) is
  not what the code does: bytes that begin like a message and end in half a tag
  get children, by which no operation is misled (`AnswerIsRead`). A length of
  2^63 or more makes `ParseProtobuf` panic in place of returning an error, which
  no message of the encoders can do. A 401 for an old token throws away the token
  another goroutine has just fetched (one fetch more, no harm); an expiry within
  the margin makes every call fetch; a goroutine that waits for the lock does not
  look at its context (`auth.go:69`).
- *Async bridge.* `asyncCallbacks` keeps an entry for every call that completes
  (`main.go:51`), and for one that is cancelled between `set_result` and its
  wake-up, which ends as cancelled but runs no clean-up (`client.py:221`). Most web
  operations do not look at their context and go on after a cancel
  (`main.go:775`).

## 4. Proofs

`TokenManagerProofs` proves every property of `token_cache` for any set of
goroutines, any margin, lifetimes and bounds. The inductive invariant `Inv` has
three parts besides the types. `LockInv`: a goroutine in a locked
section holds the lock, and a writer excludes readers. `CacheInv`:
the cached token has been issued, and is newer than the last invalidation.
`CallerInv`: what a goroutine between two steps knows of the cache still holds:
the one past the test still finds what it tested, the one fetching has a stale
cache, an answer carries the newest token. None of the properties is inductive
by itself: that an invalidated token stays gone needs that no refresh can
deliver a token issued before the invalidation, which needs the lock.

`ApiClientProofs` first proves that the client's steps are the token manager's
(`ClientUsesTokenManager`), which carries `Inv` over. `ClientInv` adds, per
goroutine, how far the call has gone and what the server may have done: `pc` is
in step with `stage`, the first attempt leaves `applied` at 0 when it ends with
a 401, and in the second attempt the token asked for is newer than `floor`,
because its `GetToken` began after the `Invalidate`. A POST in its second attempt
has no payload left (`unread`), so the one that succeeds is in its first
(`SuccessIsReal`).

`HandleRegistryProofs` proves every property of `handles` for any threads,
objects and number of handles. The core is `NamesInv`: take all places where a
handle is kept (map, `_handle`, the local of a thread); two of them agree on
the object exactly when they agree on the handle. No step but `TakeHandle`
makes a new pair, and that one is fresh because the counter bounds all handles
in use (`NamesAreOld`, `NewNameIsFresh`). `ThreadInv` and `ObjectInv` say how
far each thread has come with its object and that a map entry outlives neither
its `_handle` nor the delete; the latter is why the second of two closes finds
nothing left to delete.

`AsyncBridgeProofs` proves every safety property of the bridge's runs for any
calls, loops and number of ids. `BridgeInv` has seven parts. `IdInv`: an id is
given out once, so what stands under it in a map is its call's (`MapsInv`),
whoever writes or removes it. `CallInv` ties the coroutine, the future, the
goroutine and the operation of a call to each other; `CallbackInv` says that a
call finds its callback registered when it is dispatched, or it would wait for
ever. `CancelInv` follows the done callback of a cancelled call: the entry of a
goroutine that has not ended is there until the coroutine takes it out, and what
is taken out stays out. `TakenInv` is the same of `_pending`: a future that a
goroutine has taken does not come back into it. `QueueInv` says what a callback in a loop's queue may
rely on when its turn comes. The properties are about the end of a call; that
they hold there needs all of these at the steps before. `ObjectStays` has a
hypothesis, which the run `async_first_use` shows is needed: the process has made
an async call before, or makes all of them on one event loop. Its
invariant adds `LoopInv`, that a loop runs one call's code at a time, and
`ObjectInv`, that the object is made only while there is none. The
refinement (`BridgeImplementsCall`) takes each step of the bridge to
a step of `AsyncCall` or to a stutter (`AbstractStep`): a call ends when its
coroutine goes on, at its wake-up (`RunDone`) or behind the clean-up of a cancelled
future (`PopPending`), and it is settled then unless it was told to cancel before.

`WebLibraryProofs` proves every safety property of `library` for any sessions,
any listing and any size of page. Four lemmas about places (`PlacesMove`,
`PlacesLast`, `TrashPutsOut`, `PurgePutsGone`) say that items go from the library
to the trash and from there for good, and come in by one import only
(`ImportsKept`); so what a session has achieved outlasts the steps of the others
(`OthersInv`), and `SessionInv` has to be followed through the session's own
steps only. For a reset that is `ResetInv`: the positions behind it hold nothing
that it found and that has a key, except what it has listed and not yet trashed.
That the next page leaves out no position is a lemma about the
listing (`PageCovers`), from the least and greatest elements of sets of
positions.

`ShareImportProofs` proves both safety properties of `share_import` for any
album, in any order of sharing and transcoding. Its main lemma `PageShowsAlbum`
says that whatever of the album a page shows, links, data block or
both, the scraper gets every item of the moment once, under the keys of the
album; it rests on `CollectedOnce`, about the loop that skips what it has seen.
`ShareInv` carries it over the steps to the import.

`WebSessionProofs` proves three of the five properties of `web_session` for any
files, browsers, logins and storages, and two more in part. The bottom are lemmas
about the readers: an entry of the RPC is found in a body wherever it
stands (`BodyIsRead`), an error is read as its class with a payload or without
(`ErrorIsRead`), a refusal that does not name the RPC is an error
(`RefusalIsRead`), and the payloads of an import, a listing, a download and a
quota page give what they were made from (`ImportIsRead`, `ListIsRead`,
`DownloadIsRead`, `QuotaIsRead`). The invariants stand on each other: `StepInv`
says which RPCs an operation may be at, `FilesInv` that a cleanup trashes files of
the import only and that no file is in two places, `ErrorInv` that no error has
been given before the operation ends, and `TruthInv` what must hold between two
requests for the report to be true at the end: a cleanup already has the report of
its import, a deletion has taken its files out of the library.
`ErrorReported` and `ReportsAreTrue` have the hypothesis `~Silent`, that a refusal
names the RPC or is no envelope; the run `refused_rpc` refutes the second without
it. `TypeInv` adds the session: what the parsers return are whole cookies for any
text at all (`ParsedIsWhole`), the last one for a name, domain and path is the one
that is kept (`LoadedIsWhole`), and a renewed login replaces a value and nothing
else. For a text with a JSON document the whole way is proved: the quotes come
off (`QuotesComeOff`), each shape of document gives the cookies it was written
for (`DocumentsAreRead`), and so the session has them (`DocumentsAreLoaded`, about
the texts in which at least one cookie counts). `BlobsAreLoaded` is the same of a
session blob.

`VarintProofs` proves for words of any size that `decodeVarint` reads the
word `encodeVarint` wrote, whatever stands before and behind it (`WordIsRead`),
and nothing from a varint that was cut short (`CutWordIsNotRead`). All nested
messages are built of these. `MaxGroups`
is assumed to be the length of the longest varint, which is what the 64 bits
and ten bytes of the code are; that no word is longer is `WordFits`.

The recursive functions of `ShareImport` and `Varint` are reasoned about
without the library's induction theorems, whose parameter is an operator: the
values for which a statement holds are a set, and if it is not all there is a least
value outside (`LeastExists`, `StrongInduction`, from `NatLessThanWellFounded`).
That the recursion defines a function is proved too
(`CollectingIsDefined`, `EncodingIsDefined`, `GroupsAreDefined`).

Assumptions are those named in the modules: no goroutine, session, item or object
is the value that stands for "nobody", times and bounds are natural numbers,
`Listing` is a sequence of items, `Uploads` a sequence with at least one (a
share page is of an album that has something in it), a browser's cookies have a
path and no space around name and value (`BrowserAssumption`), a login is no
space, files have names, there are finitely many, and an account has room for
something (`BrowserAssumption`, `SessionAssumption`).

Only model-checked:

- Liveness, which is out of the prover's reach: `EveryRequestEnds`,
  `EveryAwaitEnds`, `EveryOperationEnds`, `PollingEnds`.
- `ApiMessages`: a message contains messages, and the encoder and parser of
  `ProtoWire` are recursive operators, which the prover does not accept.
- `LoadedAsWritten` for Netscape and header texts and `ExportKeepsLogin` for
  exports in these formats: a line is split into a sequence whose elements are
  selected by a test (`SelectSeq`), which is an operator with an operator for a
  parameter and recursive, so the prover cannot look into it. What is proved of
  these texts is that whatever they give are whole cookies.

## 5. Not modelled

- `CheckCookieStatus`, which is one HTTP request and a search in its page, and
  `Cookie.Get` and `SetItem`, which only tests call.
- JSON, HTML and Netscape texts character by character: a JSON value, the
  matches of an expression and a column are the units. Expiry times other than
  none and one in the future. Cookies that are not strings.
- How long a request or a wait takes; the lengths of timeouts.
- That `net/http` itself sends a request again, with a new payload, when a reused
  HTTP/1.1 connection fails before anything was written to it: over such a
  connection a retry may be whole after all.
- Texts beyond ASCII in protobuf messages, and input that neither an encoder
  nor a cut of its output produces.
- `core/types.go`: plain records. The CLI, the build script and the examples: no
  state of their own.
- The contents of messages outside `ApiMessages`, logging and wording.
- `net/http`, asyncio, ctypes and the servers: modelled from how the code uses
  them (`AuthIssues`, `ServerAnswers`, `Revoke`, `RunSettle`, `CancelTask`,
  `CloseLoop`, the effect of each RPC on `place`).

## 6. State of the plan

Done: the token manager, the API client, the async bridge with its abstract
specification, the client handles, the library operations, the album import,
the varints and the web session, all with their proofs; the messages of the
photos API, model-checked.

Left: a proof that Netscape and header texts are read as they were written, for
which `Split` and `Words` would have to keep the places of what they select, and
one that a message is read as it was built, for which the encoder and the parser
of `ProtoWire` would have to be functions and not operators.
