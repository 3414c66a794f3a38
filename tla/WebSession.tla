----------------------------- MODULE WebSession -----------------------------
(***************************************************************************)
(* The life of a web client: made from a cookie text or a session blob     *)
(* (NewWebClient, NewWebClientFromBlob), used for calls, exported, closed  *)
(* and made again from what was exported (core/web_client.go, the GPWC_    *)
(* exports of core/cshared/main.go).  Cookies reads and writes the texts,  *)
(* Batchexecute and QuotaPage read the answers.                            *)
(*                                                                         *)
(* There is one client and one call at a time; WebLibrary has concurrent   *)
(* ones.  The server is external.  It replaces the login cookie now and    *)
(* then, and with it the "at" tokens it accepts; it carries a request out  *)
(* or not, and its answer may say so, be an error, or be lost.             *)
(***************************************************************************)
EXTENDS Cookies, Batchexecute, QuotaPage, FiniteSets

CONSTANTS
  Files,       \* files of the Drive and the library
  InLibrary,   \* those in the library at the start
  Browser,     \* lists of cookies a browser may have, "LOGIN" for the login
  Logins,      \* values the login cookie takes, one after the other
  Storages,    \* what the account may use of its storage
  Silent       \* a refusal may come without an entry of the RPC

Text == Seq(STRING)
Cookie == [name : Text, value : Text, domain : Text, path : Text,
           secure : BOOLEAN, httpOnly : BOOLEAN, expires : Nat]
Size == [tenths : Nat, unit : {"MB", "GB", "TB"}]

\* A file has a name, an account has room for something.
ASSUME SessionAssumption ==
  /\ InLibrary \subseteq Files /\ IsFiniteSet(Files) /\ Empty \notin Files
  /\ Browser \subseteq Seq(Cookie)
  /\ Logins \in Seq(STRING) \ {<<>>}
  /\ Storages \subseteq [used : Size, total : Size]
  /\ \A storage \in Storages : storage.total.tenths > 0
  /\ Silent \in BOOLEAN

\* A browser has no space around a name or value, and a path for each cookie.
ASSUME BrowserAssumption ==
  /\ \A cookies \in Browser : \A i \in DOMAIN cookies :
       /\ Trim(cookies[i].name) = cookies[i].name
       /\ Trim(cookies[i].value) = cookies[i].value
       /\ cookies[i].path # <<>>
  /\ \A n \in DOMAIN Logins : Logins[n] \notin Space

VARIABLES
  login,    \* server: how many login cookies it has given out
  library,  \* server: files in the library
  trash,    \* server: files in the trash
  held,     \* the text or blob the user has
  status,   \* of the client: none, loaded (its jar is filled), live
  jar,      \* the cookies of its session
  at,       \* globalData: the login its "at" token belongs to, 0 for none
  call,     \* the operation it is in, the files, and the RPC it sends next
  report,   \* what the operation returned
  meant,    \* history: what the server did, as a true report would put it
  said      \* history: the error the server answered with

sessionVars == <<login, library, trash, held, status, jar, at, call, report,
                 meant, said>>

NoText   == [kind |-> "none"]
NoCall   == [op |-> "none", files |-> {}, rpc |-> "none"]
Nothing  == [nothing |-> TRUE]
NoReport == [error |-> Empty, value |-> Nothing]

Init ==
  /\ login = 1
  /\ library = InLibrary
  /\ trash = {}
  /\ held = NoText
  /\ status = "none"
  /\ jar = {}
  /\ at = 0
  /\ call = NoCall
  /\ report = NoReport
  /\ meant = Nothing
  /\ said = Empty

-----------------------------------------------------------------------------
(* The texts a browser or a tool writes for a list of cookies, and the     *)
(* jar each stands for.                                                    *)

Written(chars, json, cookies) ==
  [kind |-> "written", chars |-> chars, json |-> json,
   jar |-> LoadIntoSession(Kept(cookies))]

Line(c, sep, end) ==
  (IF c.httpOnly THEN <<"#HttpOnly_">> ELSE <<>>) \o c.domain \o sep
    \o <<"TRUE">> \o sep \o c.path \o sep
    \o <<IF c.secure THEN "TRUE" ELSE "FALSE">> \o sep
    \o Digits(c.expires) \o sep \o c.name \o sep \o c.value \o end

NetscapeTexts(cookies) ==
  {Written(<<"#", "Netscape">> \o end \o end \o
             FlattenSeq([i \in DOMAIN cookies |-> Line(cookies[i], sep, end)]),
           NoJSON, cookies) :
     sep \in {<<"TAB">>, <<"SP", "SP">>}, end \in {<<"NL">>, <<"CR", "NL">>}}

\* A dictionary and a header have the cookies sent to photos.google.com.
Sent(cookie) == cookie.domain \in {Google, <<"photos.google.com">>}
SentOf(cookies) ==
  Restrict(cookies, {i \in DOMAIN cookies : Sent(cookies[i])})

\* A header, with or without its name in front.
HeaderName == "Cookie:"

Headers(cookies) ==
  LET sent     == SentOf(cookies)
      pairs(d) == FlattenSeq([i \in DOMAIN cookies |->
                    IF i \in DOMAIN sent
                    THEN sent[i].name \o <<"=">> \o sent[i].value \o d
                    ELSE <<>>])
  IN {name \o pairs(d) :
        name \in {<<>>, <<HeaderName, "SP">>}, d \in {<<";", "SP">>, <<";">>}}

PlainTexts(cookies) ==
  LET sent  == SentOf(cookies)
      plain == [i \in DOMAIN sent |-> Plain(sent[i].name, sent[i].value)]
  IN {Written(<<"JSON">>, [flat |-> plain], plain)} \cup
     {Written(header, NoJSON, plain) : header \in Headers(cookies)}

JSONTexts(cookies) ==
  LET expiring == [i \in DOMAIN cookies |->
        [name |-> cookies[i].name, value |-> cookies[i].value,
         domain |-> cookies[i].domain, path |-> cookies[i].path,
         secure |-> cookies[i].secure, httpOnly |-> cookies[i].httpOnly,
         expirationDate |-> cookies[i].expires]]
      bare == [i \in DOMAIN cookies |->
        [name |-> cookies[i].name, value |-> cookies[i].value,
         domain |-> cookies[i].domain]]
      asBare(c) == [c EXCEPT !.path = Root, !.secure = FALSE,
                             !.httpOnly = FALSE, !.expires = 0]
      sent  == SentOf(cookies)
      pairs == [i \in DOMAIN sent |->
        [name |-> sent[i].name, value |-> sent[i].value]]
  IN {Written(<<"JSON">>, [list |-> expiring], cookies),
      Written(<<"JSON">>, [cookies |-> cookies], cookies),
      Written(<<"JSON">>, [list |-> bare],
              [i \in DOMAIN cookies |-> asBare(cookies[i])]),
      Written(<<"JSON">>, [list |-> pairs],
              [i \in DOMAIN sent |->
                 [asBare(sent[i]) EXCEPT !.domain = Google]])}

\* A text copied with the quotes and the space around it.
Quoted(text) ==
  LET around(q) == [text EXCEPT !.chars = q \o @ \o q]
  IN {text, around(<<"'">>), [around(<<"DQ">>) EXCEPT !.chars = <<"NL">> \o @],
      [text EXCEPT !.chars = <<"'", "SP", "DQ">> \o @ \o <<"DQ", "SP", "'">>]}

\* The cookies with the login cookie of the moment.
WithLogin(cookies) ==
  [i \in DOMAIN cookies |->
     [cookies[i] EXCEPT !.value = IF @ = <<"LOGIN">> THEN <<Logins[login]>>
                                  ELSE @]]

CookieTexts ==
  UNION {Quoted(t) : t \in UNION {
    LET cookies == WithLogin(b)
    IN NetscapeTexts(cookies) \cup PlainTexts(cookies) \cup JSONTexts(cookies)
    : b \in Browser}}

-----------------------------------------------------------------------------
(* The client is made, exported and closed.                                *)

\* The user takes a text from the browser.
TakeText ==
  /\ status = "none"
  /\ held = NoText
  /\ held' \in CookieTexts
  /\ UNCHANGED <<login, library, trash, status, jar, at, call, report, meant,
                 said>>

\* NewWebClient: a text without a cookie is an error.
LoadCookies ==
  /\ status = "none"
  /\ held.kind \in {"written", "netscape", "header"}
  /\ LET cookies == ParseCookies(held)
     IN /\ status' = IF cookies = <<>> THEN "none" ELSE "loaded"
        /\ jar' = LoadIntoSession(cookies)
        /\ held' = IF cookies = <<>> THEN NoText ELSE held
  /\ UNCHANGED <<login, library, trash, at, call, report, meant, said>>

\* NewWebClientFromBlob.
UnmarshalBlob ==
  /\ status = "none"
  /\ held.kind = "blob"
  /\ status' = "loaded"
  /\ jar' = held.jar
  /\ UNCHANGED <<login, library, trash, held, at, call, report, meant, said>>

LoggedIn ==
  \E c \in jar : Sent(c) /\ c.name = <<"SID">> /\ c.value = <<Logins[login]>>

\* The start page has the tokens for a session that is logged in, and may come
\* with a new login cookie.
GetGlobalData ==
  /\ status = "loaded"
  /\ LoggedIn
  /\ status' = "live"
  /\ held' = NoText
  /\ \E n \in {login, login + 1} \cap DOMAIN Logins :
       /\ login' = n
       /\ at' = n
       /\ jar' = {IF Sent(c) /\ c.name = <<"SID">>
                  THEN [c EXCEPT !.value = <<Logins[n]>>] ELSE c : c \in jar}
  /\ UNCHANGED <<library, trash, call, report, meant, said>>

\* No answer, another status, or a page without the tokens: no client.
GlobalDataFails ==
  /\ status = "loaded"
  /\ status' = "none"
  /\ jar' = {}
  /\ held' = NoText
  /\ UNCHANGED <<login, library, trash, at, call, report, meant, said>>

Exported(kind, chars) ==
  [kind |-> kind, chars |-> chars, json |-> NoJSON, jar |-> jar]

\* MarshalSession and ExportCookies.
Export ==
  /\ status = "live"
  /\ call = NoCall
  /\ \/ held' = [kind |-> "blob", jar |-> jar]
     \/ \E cookies \in CookiesFromSession(jar) :
          \/ held' = Exported("netscape", ToNetscape(cookies))
          \/ held' = Exported("header", BuildCookieHeader(cookies))
  /\ UNCHANGED <<login, library, trash, status, jar, at, call, report, meant,
                 said>>

\* The handle is forgotten.
CloseClient ==
  /\ status = "live"
  /\ call = NoCall
  /\ status' = "none"
  /\ jar' = {}
  /\ at' = 0
  /\ UNCHANGED <<login, library, trash, held, call, report, meant, said>>

\* Another browser or device renews the login.
Renew ==
  /\ login + 1 \in DOMAIN Logins
  /\ login' = login + 1
  /\ UNCHANGED <<library, trash, held, status, jar, at, call, report, meant,
                 said>>

-----------------------------------------------------------------------------
(* What the server answers.                                                *)

Timing  == Array(<<String("di"), Number(1)>>)
Request == Array(<<String("af.httprm"), Number(1), JSON(Number(7)), Number(1)>>)
Statistics == Array(<<Timing, Request>>)
End == Array(<<Array(<<String("e"), Number(4), Null, Null, Number(1)>>)>>)

Entry(rpc, payload, error) ==
  Array(<<String("wrb.fr"), String(rpc), payload, Null, Null, error,
          String("generic")>>)

\* An entry comes with statistics in its line, before it or after it.
Bodies(entry) ==
  {<<Other, Array(<<entry, Timing, Request>>), Other, End>>,
   <<Other, Statistics, Array(<<entry>>)>>,
   <<End, Array(<<entry>>)>>,
   <<Other, Array(<<Number(0), entry>>)>>}

\* Errors seen by the code's tests, and one without a class of its own.
Errors ==
  LET detail == Array(<<String("PhotosWebImportDriveItemsFailure"),
                        Array(<<Number(1)>>)>>)
  IN [quota   |-> Array(<<Number(8), Null, Array(<<detail>>)>>),
      timeout |-> Array(<<Number(13)>>),
      other   |-> Array(<<Number(5), Null, Null>>)]

ErrorBodies(class, rpc) ==
  LET error == Errors[IF class = "rpc_error" THEN "other" ELSE class]
  IN Bodies(Entry(rpc, Null, error))
       \cup Bodies(Entry(rpc, JSON(Array(<< >>)), error))

\* Pages that are no answer to the RPC, at any HTTP status.
Refusals ==
  {<<Other>>, <<Other, Cut(<<Array(<<String("wrb.fr")>>)>>)>>, <<End>>}
    \cup (IF Silent THEN {<<Other, Statistics, End>>} ELSE {})

\* What the server may know of a file's download: the URL in one of two places
\* or in a list of one, or no URL.
Downloads(f) ==
  LET item == Array(<<String(f), Null, Null, String(f)>>)
      url  == String("url")
  IN {[url |-> "url", payload |-> Array(<<item, url>>)],
      [url |-> "url", payload |-> Array(<<item, Null, Null, Null, Null, Null,
                                          Null, url>>)],
      [url |-> "url", payload |-> Array(<<Array(<<item, url>>)>>)],
      [url |-> Empty,    payload |-> Array(<<item>>)]}

\* An item of an import that came to the given end.
Item(f, end) ==
  LET meta == Array(<<String(f), Array(<<String("url"), Number(1)>>), Null,
                      String(f)>>)
  IN Array(<<String(f),
             IF end \in {"imported", "processing"} THEN meta ELSE Null,
             Number(CASE end = "processing" -> 1 [] end = "rejected" -> 3
                      [] OTHER -> 0)>>)

ImportPayload(files, end) ==
  LET order == SetToSeq(files)
  IN Array(<<Array([i \in DOMAIN order |-> Item(order[i], end[order[i]])])>>)

\* An empty library is listed without a list.
ListPayload ==
  LET order == SetToSeq(library)
      items == [i \in DOMAIN order |->
        Array(<<String(order[i]), Null, Null, String(order[i])>>)]
  IN IF library = {} THEN Array(<<Null>>) ELSE Array(<<Array(items)>>)

\* What an RPC does when it is carried out: the library and trash after it,
\* the payload, and the report that would be true.
Outcomes(rpc, files) ==
  CASE rpc = "SusGud" ->
         {LET imported == {f \in files : end[f] = "imported"}
          IN [library |-> library \cup imported, trash |-> trash \ imported,
              payload |-> JSON(ImportPayload(files, end)),
              meant   |-> [imported |-> imported,
                           failed |-> Cardinality(files \ imported)]]
          : end \in [files -> {"imported", "keyless", "processing",
                               "rejected"}]}
    [] rpc = "XwAOJf" ->
         {[library |-> library \ files,
           trash |-> trash \cup (files \cap library),
           payload |-> p, meant |-> meant] :
          p \in {Null, String(Empty), JSON(Null), JSON(Array(<< >>))}}
    [] rpc = "e2FP6c" ->
         {[library |-> library, trash |-> {},
           payload |-> p,
           meant   |-> IF call.op = "delete" THEN [deleted |-> TRUE]
                       ELSE meant] :
          p \in {Null, JSON(Array(<< >>))}}
    [] rpc = "lcxiM" ->
         {[library |-> library, trash |-> trash,
           payload |-> JSON(ListPayload), meant |-> [keys |-> library]]}
    [] rpc = "VrseUb" ->
         UNION {{[library |-> library, trash |-> trash,
                  payload |-> JSON(d.payload),
                  meant   |-> [url |-> d.url, dedupKey |-> f]] :
                 d \in Downloads(f)} : f \in files}
    [] rpc = "SFKp8c" ->
         {[library |-> library, trash |-> trash,
           payload |-> JSON(Array(<<Null, String("link")>>)),
           meant   |-> [link |-> "link"]]}

-----------------------------------------------------------------------------
(* The operations.  An operation sends its RPCs in order and ends at the   *)
(* first error.                                                            *)

RPCs == [import |-> "SusGud", cleanup |-> "SusGud", delete |-> "XwAOJf",
         list |-> "lcxiM", download |-> "VrseUb", share |-> "SFKp8c",
         quota |-> "quotamanagement"]

\* What an operation may be called with.
Arguments(op) ==
  CASE op \in {"import", "cleanup", "delete"} -> SUBSET Files \ {{}}
    [] op \in {"download", "share"} -> {{f} : f \in library}
    [] op \in {"list", "quota"} -> {{}}

StartCall ==
  /\ status = "live"
  /\ call = NoCall
  /\ \E op \in DOMAIN RPCs : \E files \in Arguments(op) :
       call' = [op |-> op, files |-> files, rpc |-> RPCs[op]]
  /\ UNCHANGED <<login, library, trash, held, status, jar, at, report, meant,
                 said>>

Ends(error, value) ==
  /\ call' = [call EXCEPT !.rpc = "done"]
  /\ report' = [error |-> error, value |-> value]

GoesOn(rpc, value) ==
  /\ call' = [call EXCEPT !.rpc = rpc]
  /\ report' = [error |-> Empty, value |-> value]

\* CreateShareLink looks for a link in any line of the body, the others read
\* the envelope, whatever the HTTP status is.
ReadAnswer(body) ==
  IF call.rpc # "SFKp8c" THEN ParseBatchexecuteEnvelope(body, call.rpc)
  ELSE IF HasLink(body) THEN Answers([link |-> "link"], Empty)
  ELSE Fails("no_link")

\* The errors of a cleanup are ignored.
InCleanup == call.op = "cleanup" /\ call.rpc # "SusGud"

\* An import with cleanup goes on to trash and purge what it imported.
AfterImport(result) ==
  LET done     == {result.items[i] : i \in DOMAIN result.items}
      imported == {item \in done : Succeeded(item)}
      keys     == {item.dedupKey : item \in imported} \ {Empty}
      cleaning == call.op = "cleanup" /\ keys # {}
  IN /\ call' = IF cleaning THEN [call EXCEPT !.rpc = "XwAOJf", !.files = keys]
                ELSE [call EXCEPT !.rpc = "done"]
     /\ report' = [error |-> Empty,
                   value |-> [imported |-> {item.file : item \in imported},
                              failed   |-> result.failed]]

AfterDownload(info) ==
  IF info.url = Empty THEN GoesOn("page", info) ELSE Ends(Empty, info)

\* What the operations make of an answer: at an error they end.
Proceeds(answer) ==
  IF answer.error # Empty /\ ~InCleanup THEN Ends(answer.error, Nothing)
  ELSE CASE call.rpc = "SusGud" ->
              \E result \in {BatchResult(answer.value)} : AfterImport(result)
         [] call.rpc = "XwAOJf" -> GoesOn("e2FP6c", report.value)
         [] call.rpc = "e2FP6c" ->
              Ends(Empty, IF call.op = "delete" THEN [deleted |-> TRUE]
                       ELSE report.value)
         [] call.rpc = "lcxiM"  ->
              Ends(Empty, [keys |-> ListedKeys(answer.value).keys])
         [] call.rpc = "VrseUb" ->
              \E info \in {ReadDownload(answer.value)} : AfterDownload(info)
         [] call.rpc = "SFKp8c" -> Ends(Empty, answer.value)

Receives(bodies) ==
  \E answer \in {ReadAnswer(body) : body \in bodies} : Proceeds(answer)

Sending == call.rpc \notin {"none", "done", "page", "quotamanagement", "main"}
Accepted == LoggedIn /\ at = login

\* The RPC has one of its effects, or none, and the caller is not told.
MayHaveEffect ==
  LET effects == {[library |-> o.library, trash |-> o.trash] :
                    o \in Outcomes(call.rpc, call.files)}
  IN \E after \in {[library |-> library, trash |-> trash]} \cup
                  (IF Accepted THEN effects ELSE {}) :
       /\ library' = after.library
       /\ trash' = after.trash

\* The server carries the RPC out and says so.
Answered ==
  /\ Sending
  /\ Accepted
  /\ \E outcome \in Outcomes(call.rpc, call.files) :
       /\ library' = outcome.library
       /\ trash' = outcome.trash
       /\ meant' = outcome.meant
       /\ Receives(Bodies(Entry(call.rpc, outcome.payload, Null)))
  /\ UNCHANGED <<login, held, status, jar, at, said>>

\* It answers with an error of the RPC, and may have carried it out.
AnsweredWithError ==
  /\ Sending
  /\ MayHaveEffect
  /\ \E class \in {"quota", "timeout", "rpc_error"} :
       /\ said' = IF InCleanup THEN Empty ELSE class
       /\ Receives(ErrorBodies(class, call.rpc))
  /\ UNCHANGED <<login, held, status, jar, at, meant>>

\* It does not carry the RPC out, and its answer has no entry of it.
Refused ==
  /\ Sending
  /\ said' = IF InCleanup THEN Empty ELSE "refused"
  /\ Receives(Refusals)
  /\ UNCHANGED <<login, library, trash, held, status, jar, at, meant>>

\* No answer arrives in time, whether or not the RPC was carried out.
TransportFails ==
  /\ Sending
  /\ MayHaveEffect
  /\ said' = IF InCleanup THEN Empty ELSE "transport"
  /\ Proceeds(Fails("transport"))
  /\ UNCHANGED <<login, held, status, jar, at, meant>>

\* The photo page may have the URL; that it cannot be had is no error.
ReadPhotoPage ==
  /\ call.rpc = "page"
  /\ \E url \in {Empty, "url"} :
       /\ LoggedIn \/ url = Empty
       /\ meant' = [meant EXCEPT !.url = url]
       /\ Ends(Empty, [report.value EXCEPT !.url = url])
  /\ UNCHANGED <<login, library, trash, held, status, jar, at, said>>

\* A page with the storage of the account in some of its elements.
QuotaPages(storage) ==
  LET used == Round(1000 * ParseSizeToBytes(storage.used),
                    ParseSizeToBytes(storage.total))
  IN {[page   |-> p,
       quota  |-> [used  |-> IF p.text = None THEN 0
                             ELSE ParseSizeToBytes(storage.used),
                   total |-> IF p.text = None THEN 0
                             ELSE ParseSizeToBytes(storage.total),
                   usedPercent |-> used, freePercent |-> 1000 - used]] :
      p \in [text : {None, storage}, usedBar : {None, [width |-> used]},
             freeBar : {None, [width |-> 1000 - used]}]}

\* GetStorageQuota: without the quota on its own page, the main page is read.
ReadQuotaPage ==
  /\ call.rpc \in {"quotamanagement", "main"}
  /\ LoggedIn
  /\ \E shown \in UNION {QuotaPages(storage) : storage \in Storages} :
       \E quota \in {ParseStorageQuotaHTML(shown.page)} :
         /\ meant' = shown.quota
         /\ IF quota # None THEN Ends(Empty, quota)
            ELSE IF call.rpc = "main" THEN Ends("not_found", Nothing)
            ELSE GoesOn("main", Nothing)
  /\ UNCHANGED <<login, library, trash, held, status, jar, at, said>>

QuotaPageFails ==
  /\ call.rpc \in {"quotamanagement", "main"}
  /\ IF call.rpc = "main" THEN Ends("transport", Nothing)
     ELSE GoesOn("main", Nothing)
  /\ UNCHANGED <<login, library, trash, held, status, jar, at, meant, said>>

\* The caller has its report.
Finish ==
  /\ call.rpc = "done"
  /\ call' = NoCall
  /\ report' = NoReport
  /\ meant' = Nothing
  /\ said' = Empty
  /\ UNCHANGED <<login, library, trash, held, status, jar, at>>

Next ==
  \/ TakeText \/ LoadCookies \/ UnmarshalBlob \/ GetGlobalData
  \/ GlobalDataFails \/ Export \/ CloseClient \/ Renew
  \/ StartCall \/ Answered \/ AnsweredWithError \/ Refused \/ TransportFails
  \/ ReadPhotoPage \/ ReadQuotaPage \/ QuotaPageFails \/ Finish

Spec == Init /\ [][Next]_sessionVars

-----------------------------------------------------------------------------
(* What a web client promises.                                             *)

\* The jar holds whole cookies, one for a name, domain and path; only a client
\* has a jar, only a live one an "at" token and calls (WebClient,
\* core/web_client.go:24, LoadIntoSession).
TypeOK ==
  /\ login \in DOMAIN Logins
  /\ library \subseteq Files /\ trash \subseteq Files
  /\ library \cap trash = {}
  /\ status \in {"none", "loaded", "live"}
  /\ \A c \in jar :
       /\ <<>> \notin {c.name, c.value, c.domain, c.path}
       /\ {c.secure, c.httpOnly} \subseteq BOOLEAN
       /\ \A d \in jar \ {c} :
            <<c.name, c.domain, c.path>> # <<d.name, d.domain, d.path>>
  /\ status = "none" => jar = {}
  /\ status # "live" => at = 0 /\ call = NoCall
  /\ at \in 0 .. login
  /\ call.files \subseteq Files

\* The session has the cookies its text was written for, with their attributes,
\* and no other (ParseCookies, core/cookies.go:323), in a Netscape file, a JSON
\* export or the value of a header, with any quoting and line ends: none is taken
\* for another format.  A header with its name, which docs/go-api-reference.md:169
\* promises too, is excepted: the name is taken for a part of its first cookie's.
LoadedAsWritten ==
  status = "loaded" /\ held.kind = "written" /\ HeaderName \notin ToSet(held.chars)
    => jar = held.jar

\* An exported session is made again as it was: the Netscape text and the blob
\* give the same jar, the header text at least every cookie of Google Photos
\* that shares its name with no other (GPWC_ExportCookies,
\* GPWC_ExportSessionBlob).
ExportKeepsLogin ==
  status = "loaded" =>
    /\ held.kind \in {"netscape", "blob"} => jar = held.jar
    /\ held.kind = "header" =>
         \A c \in held.jar :
           Sent(c) /\ (\A d \in held.jar \ {c} : d.name # c.name) =>
             \E k \in jar : Sent(k) /\ k.name = c.name /\ k.value = c.value

\* What an operation returns without an error is what the server did or knows:
\* the files imported and the number of those not, the keys of the library, the
\* URLs, the storage used and free; and files reported deleted are in neither
\* library nor trash (BatchImportFromDrive, GPWC_DeletePermanently,
\* ListLibraryItems, GetDownloadURL, CreateShareLink, GetStorageQuota).
ReportIsTrue ==
  call.rpc = "done" /\ report.error = Empty =>
    /\ report.value = meant
    /\ call.op = "delete" => call.files \cap (library \cup trash) = {}

\* An answer with an error of any class, with or without a payload, a page that
\* is no answer, and a lost answer end the operation with an error, of the same
\* class where the server named one (parseBatchexecuteEnvelope, parseRPCError);
\* of a share link the class is lost.
ErrorIsReported ==
  said # Empty =>
    /\ call.rpc = "done"
    /\ report.error # Empty
    /\ said # "refused" /\ call.op # "share" => report.error = said
=============================================================================
