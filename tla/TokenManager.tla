---------------------------- MODULE TokenManager ----------------------------
(***************************************************************************)
(* core/auth.go: the OAuth2 token cache every API client owns.             *)
(*                                                                         *)
(* Goroutines (Callers) share one TokenManager.  GetToken reads the cache  *)
(* under the read lock, and on a miss takes the write lock, looks again    *)
(* and fetches a token from the auth endpoint WITH THE WRITE LOCK HELD.    *)
(* Invalidate clears the cache under the write lock.                       *)
(*                                                                         *)
(* A token is identified by the number of the fetch the auth endpoint      *)
(* answered with it; NoToken stands for the empty string.  Times are the   *)
(* wall clock in an arbitrary unit; 0 is the zero time.Time.               *)
(***************************************************************************)
EXTENDS Naturals, FiniteSets

CONSTANTS
  Callers,     \* goroutines that use the token manager
  Margin,      \* tokens are refreshed this long before they expire (5 min)
  DefaultTTL,  \* lifetime when the answer has no usable Expiry (50 min)
  Expiries,    \* the Expiry values the auth endpoint may answer with
  NoOne,       \* no caller holds the write lock
  MaxTime,     \* bound on the clock
  MaxFetches   \* bound on the tokens the auth endpoint issues

ASSUME CallersAssumption == NoOne \notin Callers
ASSUME TimesAssumption ==
  /\ Margin \in Nat
  /\ DefaultTTL \in Nat
  /\ Expiries \subseteq Nat
ASSUME BoundsAssumption == MaxTime \in Nat /\ MaxFetches \in Nat

VARIABLES
  now,          \* time.Now()
  cachedToken,  \* tm.cachedToken
  expiresAt,    \* tm.expiresAt
  readers,      \* callers that hold tm.mu for reading
  writer,       \* the caller that holds tm.mu for writing
  pc,           \* where each caller is in GetToken or Invalidate
  reply,        \* the result of the GetToken a caller is in
  issued,       \* tokens the auth endpoint has issued so far
  checkedAt,    \* history: when a caller in GetToken found the cache fresh
  cleared,      \* history: tokens issued before the last Invalidate
  since         \* history: cleared, when a caller in GetToken called it

lockVars  == <<readers, writer>>
cacheVars == <<cachedToken, expiresAt>>
histVars  == <<checkedAt, cleared, since>>
tmVars    == <<now, cachedToken, expiresAt, readers, writer, pc, reply,
               issued, checkedAt, cleared, since>>

NoToken == 0
NoReply == [from |-> "none", token |-> NoToken, expires |-> 0]
Failed  == [from |-> "error", token |-> NoToken, expires |-> 0]

\* The part of GetToken or Invalidate a caller can be in.
Steps == {"idle",      \* outside the token manager
          "rlock",     \* before RLock
          "check",     \* holds the read lock, before the fast-path test
          "read",      \* holds the read lock, the cache tested fresh
          "lock",      \* before Lock
          "recheck",   \* holds the write lock, before the double-check
          "fetch",     \* holds the write lock, auth request in flight
          "answered",  \* holds the write lock, the endpoint issued a token
          "returned",  \* GetToken is about to return reply[c]
          "ilock"}     \* in Invalidate, before Lock

WritePhase == {"recheck", "fetch", "answered"}
ReadPhase  == {"check", "read"}

\* cachedToken != "" && time.Now().Add(5*time.Minute).Before(expiresAt)
Fresh == cachedToken # NoToken /\ now + Margin < expiresAt

Goto(c, from, to) == pc[c] = from /\ pc' = [pc EXCEPT ![c] = to]

\* The reply a caller takes out of the cache.
FromCache == [from |-> "cache", token |-> cachedToken, expires |-> expiresAt]

Init ==
  /\ now = 0
  /\ cachedToken = NoToken
  /\ expiresAt = 0
  /\ readers = {}
  /\ writer = NoOne
  /\ pc = [c \in Callers |-> "idle"]
  /\ reply = [c \in Callers |-> NoReply]
  /\ issued = 0
  /\ checkedAt = [c \in Callers |-> 0]
  /\ cleared = 0
  /\ since = [c \in Callers |-> 0]

-----------------------------------------------------------------------------
(* GetToken, fast path.                                                    *)

CallGetToken(c) ==
  /\ Goto(c, "idle", "rlock")
  /\ since' = [since EXCEPT ![c] = cleared]
  /\ UNCHANGED <<now, cacheVars, lockVars, reply, issued, checkedAt, cleared>>

RLock(c) ==
  /\ Goto(c, "rlock", "check")
  /\ writer = NoOne
  /\ readers' = readers \cup {c}
  /\ UNCHANGED <<now, cacheVars, writer, reply, issued, histVars>>

\* The read lock released between the test and the read of cachedToken.
FastHitUnlocked(c) ==
  /\ Fresh
  /\ Goto(c, "check", "read")
  /\ checkedAt' = [checkedAt EXCEPT ![c] = now]
  /\ readers' = readers \ {c}
  /\ UNCHANGED <<now, cacheVars, writer, reply, issued, cleared, since>>

FastHit(c) ==
  /\ Fresh
  /\ Goto(c, "check", "read")
  /\ checkedAt' = [checkedAt EXCEPT ![c] = now]
  /\ UNCHANGED <<now, cacheVars, lockVars, reply, issued, cleared, since>>

FastRead(c) ==
  /\ Goto(c, "read", "returned")
  /\ reply' = [reply EXCEPT ![c] = FromCache]
  /\ readers' = readers \ {c}
  /\ UNCHANGED <<now, cacheVars, writer, issued, histVars>>

FastMiss(c) ==
  /\ ~Fresh
  /\ Goto(c, "check", "lock")
  /\ readers' = readers \ {c}
  /\ UNCHANGED <<now, cacheVars, writer, reply, issued, histVars>>

-----------------------------------------------------------------------------
(* GetToken, slow path: the write lock, the double-check, the fetch.       *)

\* The slow path entered under another read lock.
LockAsRLock(c) ==
  /\ Goto(c, "lock", "recheck")
  /\ writer = NoOne
  /\ writer' = c
  /\ UNCHANGED <<now, cacheVars, readers, reply, issued, histVars>>

Lock(c) ==
  /\ Goto(c, "lock", "recheck")
  /\ writer = NoOne
  /\ readers = {}
  /\ writer' = c
  /\ UNCHANGED <<now, cacheVars, readers, reply, issued, histVars>>

RecheckHit(c) ==
  /\ Fresh
  /\ Goto(c, "recheck", "returned")
  /\ reply' = [reply EXCEPT ![c] = FromCache]
  /\ checkedAt' = [checkedAt EXCEPT ![c] = now]
  /\ writer' = NoOne
  /\ UNCHANGED <<now, cacheVars, readers, issued, cleared, since>>

\* No double-check after the write lock.
RecheckMissAlways(c) ==
  /\ Goto(c, "recheck", "fetch")
  /\ UNCHANGED <<now, cacheVars, lockVars, reply, issued, histVars>>

\* The write lock given up for the duration of the auth request.
RecheckMissUnlocked(c) ==
  /\ ~Fresh
  /\ Goto(c, "recheck", "fetch")
  /\ writer' = NoOne
  /\ UNCHANGED <<now, cacheVars, readers, reply, issued, histVars>>

RecheckMiss(c) ==
  /\ ~Fresh
  /\ Goto(c, "recheck", "fetch")
  /\ UNCHANGED <<now, cacheVars, lockVars, reply, issued, histVars>>

\* The auth endpoint issues a token: its answer is on its way to the caller.
AuthIssues(c) ==
  /\ Goto(c, "fetch", "answered")
  /\ issued < MaxFetches
  /\ issued' = issued + 1
  /\ reply' = [reply EXCEPT ![c] =
                 [from |-> "fetch", token |-> issued + 1, expires |-> 0]]
  /\ UNCHANGED <<now, cacheVars, lockVars, histVars>>

\* The refresh time stored instead of the expiry.
StoreRefreshTime(c) ==
  /\ Goto(c, "answered", "returned")
  /\ \E expiry \in Expiries \cup {now + DefaultTTL} :
       /\ cachedToken' = reply[c].token
       /\ expiresAt' = expiry - Margin
       /\ reply' = [reply EXCEPT ![c].expires = expiry]
  /\ writer' = NoOne
  /\ UNCHANGED <<now, readers, issued, histVars>>

\* The answer read and parsed; Expiry missing or unusable means DefaultTTL.
StoreToken(c) ==
  /\ Goto(c, "answered", "returned")
  /\ \E expiry \in Expiries \cup {now + DefaultTTL} :
       /\ cachedToken' = reply[c].token
       /\ expiresAt' = expiry
       /\ reply' = [reply EXCEPT ![c].expires = expiry]
  /\ writer' = NoOne
  /\ UNCHANGED <<now, readers, issued, histVars>>

\* Every error return: no androidId, transport error, the 30 s timeout or the
\* caller's context, a status other than 200, an unreadable answer, no Auth.
FetchFails(c) ==
  /\ pc[c] \in {"fetch", "answered"}
  /\ pc' = [pc EXCEPT ![c] = "returned"]
  /\ reply' = [reply EXCEPT ![c] = Failed]
  /\ writer' = NoOne
  /\ UNCHANGED <<now, cacheVars, readers, issued, histVars>>

\* GetToken returns: the caller has reply[c], and its locals are gone.
Return(c) ==
  /\ Goto(c, "returned", "idle")
  /\ reply' = [reply EXCEPT ![c] = NoReply]
  /\ checkedAt' = [checkedAt EXCEPT ![c] = 0]
  /\ since' = [since EXCEPT ![c] = 0]
  /\ UNCHANGED <<now, cacheVars, lockVars, issued, cleared>>

-----------------------------------------------------------------------------
(* Invalidate.                                                             *)

CallInvalidate(c) ==
  /\ Goto(c, "idle", "ilock")
  /\ UNCHANGED <<now, cacheVars, lockVars, reply, issued, histVars>>

\* The cache cleared without the write lock.
InvalidateUnlocked(c) ==
  /\ Goto(c, "ilock", "idle")
  /\ cachedToken' = NoToken
  /\ expiresAt' = 0
  /\ cleared' = issued
  /\ UNCHANGED <<now, lockVars, reply, issued, checkedAt, since>>

\* Lock, clear and Unlock in one step: nothing else runs under the write lock.
Invalidate(c) ==
  /\ Goto(c, "ilock", "idle")
  /\ writer = NoOne
  /\ readers = {}
  /\ cachedToken' = NoToken
  /\ expiresAt' = 0
  /\ cleared' = issued
  /\ UNCHANGED <<now, lockVars, reply, issued, checkedAt, since>>

-----------------------------------------------------------------------------

Tick ==
  /\ now < MaxTime
  /\ now' = now + 1
  /\ UNCHANGED <<cacheVars, lockVars, pc, reply, issued, histVars>>

\* A caller that is inside GetToken or Invalidate takes its next step.
Proceed(c) ==
  \/ RLock(c) \/ FastHit(c) \/ FastRead(c) \/ FastMiss(c)
  \/ Lock(c) \/ RecheckHit(c) \/ RecheckMiss(c)
  \/ AuthIssues(c) \/ StoreToken(c) \/ FetchFails(c)
  \/ Return(c) \/ Invalidate(c)

Next ==
  \/ \E c \in Callers : CallGetToken(c) \/ CallInvalidate(c) \/ Proceed(c)
  \/ Tick

Spec == Init /\ [][Next]_tmVars

-----------------------------------------------------------------------------
(* Properties.                                                             *)

Reply == [from : {"none", "error", "cache", "fetch"},
          token : Nat, expires : Nat]

\* Every variable has its type.
TypeOK ==
  /\ now \in Nat
  /\ cachedToken \in Nat
  /\ expiresAt \in Nat
  /\ readers \subseteq Callers
  /\ writer \in Callers \cup {NoOne}
  /\ pc \in [Callers -> Steps]
  /\ reply \in [Callers -> Reply]
  /\ issued \in Nat
  /\ checkedAt \in [Callers -> Nat]
  /\ cleared \in Nat
  /\ since \in [Callers -> Nat]

\* While one caller refreshes (double-check, auth request, store), no other
\* caller reads the cache or refreshes too: one auth request at a time.
OneRefreshAtATime ==
  \A c, d \in Callers :
    c # d /\ pc[c] \in WritePhase => pc[d] \notin WritePhase \cup ReadPhase

\* The auth endpoint is asked only while the cache holds no usable token: the
\* callers that waited for a refresh share it instead of repeating it.
NoWastedFetch ==
  \A c \in Callers : pc[c] \in {"fetch", "answered"} => ~Fresh

\* A token GetToken takes out of the cache is a real one, and it is the one
\* whose expiry was found more than Margin away, not a later or cleared one.
CachedReplyWasFresh ==
  \A c \in Callers :
    pc[c] = "returned" /\ reply[c].from = "cache" =>
      /\ reply[c].token # NoToken
      /\ checkedAt[c] + Margin < reply[c].expires

\* A GetToken that starts after an Invalidate never returns a token issued
\* before it, whatever refreshes were in flight: a rejected token, once
\* invalidated, is not handed out again.
InvalidatedIsGone ==
  \A c \in Callers :
    pc[c] = "returned" /\ reply[c].from \in {"cache", "fetch"} =>
      reply[c].token > since[c]

\* The cache is only ever cleared or filled with the newest token issued: a
\* slow answer of the auth endpoint never replaces a newer token.
CacheMovesForward ==
  [][cachedToken' # cachedToken => cachedToken' \in {NoToken, issued}]_tmVars
=============================================================================
