------------------------- MODULE TokenManagerProofs -------------------------
(***************************************************************************)
(* Proofs about TokenManager, for any set of callers, margin, lifetime,    *)
(* set of Expiry values and bounds.                                        *)
(*                                                                         *)
(* Inv is inductive: LockInv says who holds tm.mu in terms of pc, DataInv  *)
(* relates the cache, the tokens on their way and the history variables.   *)
(***************************************************************************)
EXTENDS TokenManager, TLAPS

\* The lock and the program counters agree, and readers exclude the writer.
LockInv ==
  /\ \A c \in Callers : pc[c] \in WritePhase => writer = c
  /\ \A c \in Callers : pc[c] \in ReadPhase => c \in readers
  /\ writer # NoOne => readers = {}

\* What is in the cache was issued after the last Invalidate.
CacheInv ==
  /\ cleared <= issued
  /\ cachedToken <= issued
  /\ cachedToken # NoToken => cleared < cachedToken

\* What a caller in GetToken knows about the cache and about its own token.
CallerInv(c) ==
  /\ since[c] <= cleared
  /\ pc[c] = "read" => cachedToken # NoToken /\ checkedAt[c] + Margin < expiresAt
  /\ pc[c] \in {"fetch", "answered"} => ~Fresh
  /\ pc[c] = "answered" =>
       reply[c].from = "fetch" /\ reply[c].token = issued /\ cleared < issued
  /\ pc[c] = "returned" => reply[c].from # "none"
  /\ pc[c] = "returned" /\ reply[c].from \in {"cache", "fetch"} =>
       since[c] < reply[c].token
  /\ pc[c] = "returned" /\ reply[c].from = "cache" =>
       reply[c].token # NoToken /\ checkedAt[c] + Margin < reply[c].expires

DataInv == CacheInv /\ \A c \in Callers : CallerInv(c)

Inv == TypeOK /\ LockInv /\ DataInv
-----------------------------------------------------------------------------

\* Every reachable state is well typed.
THEOREM TypeCorrect == Spec => []TypeOK
  <1> USE CallersAssumption, TimesAssumption, BoundsAssumption
  <1>1. Init => TypeOK
    BY DEF Init, TypeOK, Steps, Reply, NoReply, NoToken
  <1>2. TypeOK /\ [Next]_tmVars => TypeOK'
    <2> SUFFICES ASSUME TypeOK, [Next]_tmVars PROVE TypeOK'
      OBVIOUS
    <2> USE DEF TypeOK, Goto, cacheVars, lockVars, histVars, Steps, Reply, NoToken
    <2>1. ASSUME NEW c \in Callers, CallGetToken(c) PROVE TypeOK'
      BY <2>1 DEF CallGetToken
    <2>2. ASSUME NEW c \in Callers, CallInvalidate(c) PROVE TypeOK'
      BY <2>2 DEF CallInvalidate
    <2>3. ASSUME NEW c \in Callers, RLock(c) PROVE TypeOK'
      BY <2>3 DEF RLock
    <2>4. ASSUME NEW c \in Callers, FastHit(c) PROVE TypeOK'
      BY <2>4 DEF FastHit
    <2>5. ASSUME NEW c \in Callers, FastRead(c) PROVE TypeOK'
      BY <2>5 DEF FastRead, FromCache
    <2>6. ASSUME NEW c \in Callers, FastMiss(c) PROVE TypeOK'
      BY <2>6 DEF FastMiss
    <2>7. ASSUME NEW c \in Callers, Lock(c) PROVE TypeOK'
      BY <2>7 DEF Lock
    <2>8. ASSUME NEW c \in Callers, RecheckHit(c) PROVE TypeOK'
      BY <2>8 DEF RecheckHit, FromCache
    <2>9. ASSUME NEW c \in Callers, RecheckMiss(c) PROVE TypeOK'
      BY <2>9 DEF RecheckMiss
    <2>10. ASSUME NEW c \in Callers, AuthIssues(c) PROVE TypeOK'
      BY <2>10 DEF AuthIssues
    <2>11. ASSUME NEW c \in Callers, StoreToken(c) PROVE TypeOK'
      <3>1. PICK expiry \in Expiries \cup {now + DefaultTTL} :
              /\ cachedToken' = reply[c].token
              /\ expiresAt' = expiry
              /\ reply' = [reply EXCEPT ![c].expires = expiry]
        BY <2>11 DEF StoreToken
      <3>2. expiry \in Nat
        OBVIOUS
      <3>3. reply[c].token \in Nat /\ [reply[c] EXCEPT !.expires = expiry] \in Reply
        BY <3>2
      <3>4. QED
        BY <2>11, <3>1, <3>2, <3>3 DEF StoreToken
    <2>12. ASSUME NEW c \in Callers, FetchFails(c) PROVE TypeOK'
      BY <2>12 DEF FetchFails, Failed
    <2>13. ASSUME NEW c \in Callers, Return(c) PROVE TypeOK'
      BY <2>13 DEF Return, NoReply
    <2>14. ASSUME NEW c \in Callers, Invalidate(c) PROVE TypeOK'
      BY <2>14 DEF Invalidate
    <2>15. CASE Tick
      BY <2>15 DEF Tick
    <2>16. CASE UNCHANGED tmVars
      BY <2>16 DEF tmVars
    <2>17. QED
      BY <2>1, <2>2, <2>3, <2>4, <2>5, <2>6, <2>7, <2>8, <2>9, <2>10, <2>11,
         <2>12, <2>13, <2>14, <2>15, <2>16 DEF Next, Proceed
  <1>3. QED
    BY <1>1, <1>2, PTL DEF Spec

-----------------------------------------------------------------------------

\* The read-write lock does what GetToken relies on: whoever is in the write
\* phase holds tm.mu alone.
LEMMA LockCorrect == Spec => []LockInv
  <1> USE CallersAssumption
  <1>1. Init => LockInv
    BY DEF Init, LockInv, WritePhase, ReadPhase
  <1>2. TypeOK /\ LockInv /\ [Next]_tmVars => LockInv'
    <2> SUFFICES ASSUME TypeOK, LockInv, [Next]_tmVars PROVE LockInv'
      OBVIOUS
    <2> USE DEF TypeOK, LockInv, WritePhase, ReadPhase, Goto, lockVars
    <2>1. ASSUME NEW c \in Callers, CallGetToken(c) PROVE LockInv'
      BY <2>1 DEF CallGetToken
    <2>2. ASSUME NEW c \in Callers, CallInvalidate(c) PROVE LockInv'
      BY <2>2 DEF CallInvalidate
    <2>3. ASSUME NEW c \in Callers, RLock(c) PROVE LockInv'
      BY <2>3 DEF RLock
    <2>4. ASSUME NEW c \in Callers, FastHit(c) PROVE LockInv'
      BY <2>4 DEF FastHit
    <2>5. ASSUME NEW c \in Callers, FastRead(c) PROVE LockInv'
      BY <2>5 DEF FastRead
    <2>6. ASSUME NEW c \in Callers, FastMiss(c) PROVE LockInv'
      BY <2>6 DEF FastMiss
    <2>7. ASSUME NEW c \in Callers, Lock(c) PROVE LockInv'
      BY <2>7 DEF Lock
    <2>8. ASSUME NEW c \in Callers, RecheckHit(c) PROVE LockInv'
      BY <2>8 DEF RecheckHit
    <2>9. ASSUME NEW c \in Callers, RecheckMiss(c) PROVE LockInv'
      BY <2>9 DEF RecheckMiss
    <2>10. ASSUME NEW c \in Callers, AuthIssues(c) PROVE LockInv'
      BY <2>10 DEF AuthIssues
    <2>11. ASSUME NEW c \in Callers, StoreToken(c) PROVE LockInv'
      BY <2>11 DEF StoreToken
    <2>12. ASSUME NEW c \in Callers, FetchFails(c) PROVE LockInv'
      BY <2>12 DEF FetchFails
    <2>13. ASSUME NEW c \in Callers, Return(c) PROVE LockInv'
      BY <2>13 DEF Return
    <2>14. ASSUME NEW c \in Callers, Invalidate(c) PROVE LockInv'
      BY <2>14 DEF Invalidate
    <2>15. CASE Tick
      BY <2>15 DEF Tick
    <2>16. CASE UNCHANGED tmVars
      BY <2>16 DEF tmVars
    <2>17. QED
      BY <2>1, <2>2, <2>3, <2>4, <2>5, <2>6, <2>7, <2>8, <2>9, <2>10, <2>11,
         <2>12, <2>13, <2>14, <2>15, <2>16 DEF Next, Proceed
  <1>3. QED
    BY <1>1, <1>2, TypeCorrect, PTL DEF Spec

\* Refreshes exclude one another and the readers of the cache.
THEOREM RefreshIsExclusive == Spec => []OneRefreshAtATime
  <1>1. LockInv => OneRefreshAtATime
    BY CallersAssumption DEF LockInv, OneRefreshAtATime
  <1>2. QED
    BY <1>1, LockCorrect, PTL

-----------------------------------------------------------------------------

LEMMA DataInit == Init => DataInv
  BY DEF Init, DataInv, CacheInv, CallerInv, NoToken, Fresh

\* A step of a caller, or of the clock, keeps the data invariant.  Only
\* StoreToken and Invalidate change the cache; both run alone, so no other
\* caller is between its test of the cache and its use of the result.
LEMMA DataStep == TypeOK /\ LockInv /\ DataInv /\ [Next]_tmVars => DataInv'
  <1> SUFFICES ASSUME TypeOK, LockInv, DataInv, [Next]_tmVars PROVE DataInv'
    OBVIOUS
  <1> USE CallersAssumption, TimesAssumption, BoundsAssumption
  <1> USE DEF TypeOK, DataInv, CacheInv, CallerInv, Fresh, NoToken, Goto,
              cacheVars, lockVars, histVars
  <1>1. ASSUME NEW c \in Callers, CallGetToken(c) PROVE DataInv'
    BY <1>1 DEF CallGetToken
  <1>2. ASSUME NEW c \in Callers, CallInvalidate(c) PROVE DataInv'
    BY <1>2 DEF CallInvalidate
  <1>3. ASSUME NEW c \in Callers, RLock(c) PROVE DataInv'
    BY <1>3 DEF RLock
  <1>4. ASSUME NEW c \in Callers, FastHit(c) PROVE DataInv'
    BY <1>4 DEF FastHit
  <1>5. ASSUME NEW c \in Callers, FastRead(c) PROVE DataInv'
    BY <1>5 DEF FastRead, FromCache
  <1>6. ASSUME NEW c \in Callers, FastMiss(c) PROVE DataInv'
    BY <1>6 DEF FastMiss
  <1>7. ASSUME NEW c \in Callers, Lock(c) PROVE DataInv'
    BY <1>7 DEF Lock
  <1>8. ASSUME NEW c \in Callers, RecheckHit(c) PROVE DataInv'
    BY <1>8 DEF RecheckHit, FromCache
  <1>9. ASSUME NEW c \in Callers, RecheckMiss(c) PROVE DataInv'
    BY <1>9 DEF RecheckMiss
  <1>10. ASSUME NEW c \in Callers, AuthIssues(c) PROVE DataInv'
    BY <1>10 DEF AuthIssues, LockInv, WritePhase
  <1>11. ASSUME NEW c \in Callers, StoreToken(c) PROVE DataInv'
    BY <1>11 DEF StoreToken, LockInv, WritePhase, ReadPhase
  <1>12. ASSUME NEW c \in Callers, FetchFails(c) PROVE DataInv'
    BY <1>12 DEF FetchFails, Failed
  <1>13. ASSUME NEW c \in Callers, Return(c) PROVE DataInv'
    BY <1>13 DEF Return, NoReply
  <1>14. ASSUME NEW c \in Callers, Invalidate(c) PROVE DataInv'
    BY <1>14 DEF Invalidate, LockInv, WritePhase, ReadPhase
  <1>15. CASE Tick
    BY <1>15 DEF Tick
  <1>16. CASE UNCHANGED tmVars
    BY <1>16 DEF tmVars
  <1>17. QED
    BY <1>1, <1>2, <1>3, <1>4, <1>5, <1>6, <1>7, <1>8, <1>9, <1>10, <1>11,
       <1>12, <1>13, <1>14, <1>15, <1>16 DEF Next, Proceed

LEMMA InvCorrect == Spec => []Inv
  BY TypeCorrect, LockCorrect, DataInit, DataStep, PTL DEF Spec, Inv

-----------------------------------------------------------------------------

\* The auth endpoint is never asked while the cache holds a usable token.
THEOREM FetchOnlyWhenStale == Spec => []NoWastedFetch
  <1>1. Inv => NoWastedFetch
    BY DEF Inv, DataInv, CallerInv, NoWastedFetch
  <1>2. QED
    BY <1>1, InvCorrect, PTL

\* What GetToken hands out of the cache is the token it found fresh.
THEOREM CachedRepliesAreFresh == Spec => []CachedReplyWasFresh
  <1>1. Inv => CachedReplyWasFresh
    BY DEF Inv, DataInv, CallerInv, CachedReplyWasFresh
  <1>2. QED
    BY <1>1, InvCorrect, PTL

\* A token issued before an Invalidate is not handed out by a later GetToken.
THEOREM InvalidationHolds == Spec => []InvalidatedIsGone
  <1>1. Inv => InvalidatedIsGone
    BY DEF Inv, TypeOK, Reply, DataInv, CallerInv, InvalidatedIsGone
  <1>2. QED
    BY <1>1, InvCorrect, PTL

\* The cache is only cleared or filled with the newest token.
THEOREM CacheNeverGoesBack == Spec => CacheMovesForward
  <1>1. Inv /\ [Next]_tmVars =>
          [cachedToken' # cachedToken => cachedToken' \in {NoToken, issued}]_tmVars
    <2> SUFFICES ASSUME Inv, [Next]_tmVars, cachedToken' # cachedToken
                 PROVE cachedToken' \in {NoToken, issued}
      OBVIOUS
    <2>1. PICK c \in Callers : StoreToken(c) \/ Invalidate(c)
      BY DEF Next, Proceed, tmVars, cacheVars, Tick, CallGetToken,
             CallInvalidate, RLock, FastHit, FastRead, FastMiss, Lock,
             RecheckHit, RecheckMiss, AuthIssues, FetchFails, Return
    <2>2. CASE StoreToken(c)
      BY <2>2 DEF StoreToken, Goto, Inv, DataInv, CallerInv
    <2>3. CASE Invalidate(c)
      BY <2>3 DEF Invalidate
    <2>4. QED
      BY <2>1, <2>2, <2>3
  <1>2. QED
    BY <1>1, InvCorrect, PTL DEF Spec, CacheMovesForward
=============================================================================
