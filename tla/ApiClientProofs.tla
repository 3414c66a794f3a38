--------------------------- MODULE ApiClientProofs ---------------------------
(***************************************************************************)
(* Proofs about ApiClient.  A client step is a step of the token manager   *)
(* or leaves it alone, so the invariant Inv of TokenManagerProofs holds in *)
(* every client; ClientInv adds what the stages of a call mean.            *)
(***************************************************************************)
EXTENDS ApiClient, TokenManagerProofs

\* A client drives the token manager only through its own operations.
THEOREM ClientUsesTokenManager == ClientSpec => UsesTokenManager
  <1>1. ClientInit => Init
    BY DEF ClientInit
  <1>2. [ClientNext]_apiVars => [Next]_tmVars
    <2> SUFFICES ASSUME [ClientNext]_apiVars PROVE [Next]_tmVars
      OBVIOUS
    <2>1. ASSUME NEW c \in Callers, NEW k \in Kinds, StartRequest(c, k)
          PROVE  CallGetToken(c)
      BY <2>1 DEF StartRequest
    <2>2. ASSUME NEW c \in Callers,
                 StartGetToken(c) \/ Retry(c) \/ Rejected(c)
          PROVE  CallGetToken(c) \/ CallInvalidate(c)
      BY <2>2 DEF StartGetToken, Retry, Rejected
    <2>3. ASSUME NEW c \in Callers,
                 TokenStep(c) \/ GotToken(c) \/ GotNoToken(c) \/ EndGetToken(c)
          PROVE  Proceed(c)
      BY <2>3 DEF TokenStep, GotToken, GotNoToken, EndGetToken, Proceed
    <2>4. ASSUME NEW c \in Callers,
                 \/ ServerAnswers(c) \/ TransportFails(c) \/ ReadFails(c)
                 \/ Succeeds(c) \/ Fails(c) \/ EndRequest(c)
          PROVE  UNCHANGED tmVars
      BY <2>4 DEF ServerAnswers, TransportFails, ReadFails, Succeeds, Fails,
                  EndRequest
    <2>5. Revoke => UNCHANGED tmVars
      BY DEF Revoke
    <2>6. ClockStep => Tick
      BY DEF ClockStep
    <2>7. UNCHANGED apiVars => UNCHANGED tmVars
      BY DEF apiVars
    <2>8. QED
      BY <2>1, <2>2, <2>3, <2>4, <2>5, <2>6, <2>7
         DEF ClientNext, Continue, Next
  <1>3. QED
    BY <1>1, <1>2, PTL DEF ClientSpec, Spec, UsesTokenManager

\* The token manager's invariant, inside a client.
LEMMA ClientKeepsInv == ClientSpec => []Inv
  BY ClientUsesTokenManager, InvCorrect, PTL DEF UsesTokenManager

-----------------------------------------------------------------------------

InGetToken == Steps \ {"idle", "ilock"}

\* Where the caller of each stage is inside the token manager.
StageInv(c) ==
  /\ stage[c] \in {"idle", "sent", "answered", "done"} => pc[c] = "idle"
  /\ stage[c] \in {"token", "gettoken"} => pc[c] \in InGetToken
  /\ stage[c] = "invalidate" => pc[c] \in {"ilock", "idle"}
  /\ attempt[c] = 2 => stage[c] \in {"token", "sent", "answered"}

\* From the 401 to the retry, the token to come is newer than floor[c].
FloorInv(c) ==
  /\ stage[c] = "invalidate" /\ pc[c] = "ilock" => floor[c] <= issued
  /\ stage[c] = "invalidate" /\ pc[c] = "idle" => floor[c] <= cleared
  /\ stage[c] = "token" /\ attempt[c] = 2 => floor[c] <= since[c]
  /\ stage[c] = "sent" => bearer[c] # NoToken
  /\ stage[c] = "sent" /\ attempt[c] = 2 => floor[c] < bearer[c]

\* What the server may have done for a call, by stage.
AppliedInv(c) ==
  /\ stage[c] \in Stages \ {"answered", "done"} => applied[c] = 0
  /\ stage[c] \in {"answered", "done"} => applied[c] \in {0, 1}
  /\ stage[c] = "answered" /\ answer[c] = "unauthorized" => applied[c] = 0
  /\ stage[c] = "answered" /\ answer[c] = "ok" /\ kind[c] = "post" =>
       applied[c] = 1
  /\ stage[c] = "done" /\ result[c] = "ok" /\ kind[c] = "post" =>
       applied[c] = 1

ClientTypes ==
  /\ stage \in [Callers -> Stages]
  /\ kind \in [Callers -> Kinds]
  /\ attempt \in [Callers -> {1, 2}]
  /\ bearer \in [Callers -> Nat]
  /\ unread \subseteq Callers
  /\ answer \in [Callers -> Answers]
  /\ result \in [Callers -> Results]
  /\ revoked \subseteq Nat
  /\ applied \in [Callers -> Nat]
  /\ floor \in [Callers -> Nat]

CallInv(c) == StageInv(c) /\ FloorInv(c) /\ AppliedInv(c)

ClientInv == ClientTypes /\ \A c \in Callers : CallInv(c)

LEMMA ClientInvInit == ClientInit => ClientInv
  BY DEF ClientInit, Init, ClientInv, ClientTypes, CallInv, StageInv, FloorInv,
         AppliedInv, Stages, Kinds, Answers, Results, NoToken

\* Every step keeps the types of the client and the server.
LEMMA ClientTypesStep == Inv /\ ClientTypes /\ [ClientNext]_apiVars => ClientTypes'
  <1> SUFFICES ASSUME Inv, ClientTypes, [ClientNext]_apiVars PROVE ClientTypes'
    OBVIOUS
  <1> USE DEF ClientTypes, Move, Conclude, clientVars, serverVars, Stages,
              Kinds, Answers, Results, NoToken
  <1>1. ASSUME NEW c \in Callers, NEW k \in Kinds, StartRequest(c, k)
        PROVE  ClientTypes'
    BY <1>1 DEF StartRequest
  <1>2. ASSUME NEW c \in Callers, TokenStep(c) PROVE ClientTypes'
    BY <1>2 DEF TokenStep
  <1>3. ASSUME NEW c \in Callers, GotToken(c) PROVE ClientTypes'
    BY <1>3 DEF GotToken, NewRequest, Inv, TypeOK, Reply
  <1>4. ASSUME NEW c \in Callers, GotNoToken(c) PROVE ClientTypes'
    BY <1>4 DEF GotNoToken
  <1>5. ASSUME NEW c \in Callers, TransportFails(c) PROVE ClientTypes'
    BY <1>5 DEF TransportFails
  <1>6. ASSUME NEW c \in Callers, ReadFails(c) PROVE ClientTypes'
    BY <1>6 DEF ReadFails
  <1>7. ASSUME NEW c \in Callers, Succeeds(c) PROVE ClientTypes'
    BY <1>7 DEF Succeeds
  <1>8. ASSUME NEW c \in Callers, Fails(c) PROVE ClientTypes'
    BY <1>8 DEF Fails
  <1>9. ASSUME NEW c \in Callers, Rejected(c) PROVE ClientTypes'
    BY <1>9 DEF Rejected, Inv, TypeOK
  <1>10. ASSUME NEW c \in Callers, Retry(c) PROVE ClientTypes'
    BY <1>10 DEF Retry
  <1>11. ASSUME NEW c \in Callers, EndRequest(c) PROVE ClientTypes'
    BY <1>11 DEF EndRequest
  <1>12. ASSUME NEW c \in Callers, EndGetToken(c) PROVE ClientTypes'
    BY <1>12 DEF EndGetToken
  <1>13. ASSUME NEW c \in Callers, StartGetToken(c) PROVE ClientTypes'
    BY <1>13 DEF StartGetToken
  <1>14. ASSUME NEW c \in Callers, ServerAnswers(c) PROVE ClientTypes'
    BY <1>14 DEF ServerAnswers, Answer
  <1>15. CASE Revoke
    BY <1>15 DEF Revoke, Inv, TypeOK
  <1>16. CASE ClockStep
    BY <1>16 DEF ClockStep
  <1>17. CASE UNCHANGED apiVars
    BY <1>17 DEF apiVars
  <1>18. QED
    BY <1>1, <1>2, <1>3, <1>4, <1>5, <1>6, <1>7, <1>8, <1>9, <1>10, <1>11,
       <1>12, <1>13, <1>14, <1>15, <1>16, <1>17 DEF ClientNext, Continue

\* What a step inside GetToken or Invalidate may do: it stays in GetToken up to
\* its return, Invalidate ends at once, and the histories only grow.
LEMMA ProceedEffect ==
  ASSUME Inv, NEW c \in Callers, pc[c] # "returned", Proceed(c)
  PROVE  /\ pc[c] \in InGetToken =>
              \E s \in InGetToken : pc' = [pc EXCEPT ![c] = s]
         /\ pc[c] = "ilock" =>
              pc' = [pc EXCEPT ![c] = "idle"] /\ cleared' = issued
         /\ pc[c] # "idle"
         /\ since' = since
         /\ cleared <= cleared'
         /\ issued <= issued'
  <1> USE DEF Inv, TypeOK, DataInv, CacheInv, Steps, InGetToken, Goto, histVars
  <1>1. CASE RLock(c) \/ FastHit(c) \/ FastRead(c) \/ FastMiss(c)
    BY <1>1 DEF RLock, FastHit, FastRead, FastMiss
  <1>2. CASE Lock(c) \/ RecheckHit(c) \/ RecheckMiss(c)
    BY <1>2 DEF Lock, RecheckHit, RecheckMiss
  <1>3. CASE AuthIssues(c) \/ StoreToken(c) \/ FetchFails(c)
    BY <1>3 DEF AuthIssues, StoreToken, FetchFails
  <1>4. CASE Return(c)
    BY <1>4 DEF Return
  <1>5. CASE Invalidate(c)
    BY <1>5 DEF Invalidate
  <1>6. QED
    BY <1>1, <1>2, <1>3, <1>4, <1>5 DEF Proceed

\* Every step keeps what the stages of every call mean.
LEMMA CallInvStep ==
  ASSUME Inv, Inv', ClientInv, [ClientNext]_apiVars
  PROVE  \A d \in Callers : CallInv(d)'
  <1> USE DEF ClientInv, ClientTypes, CallInv, StageInv, FloorInv, AppliedInv,
              Move, Conclude, clientVars, serverVars, Goto, histVars,
              InGetToken, Steps, Stages, NoToken
  <1> USE DEF Inv, TypeOK, DataInv, CacheInv, CallerInv
  <1>1. ASSUME NEW c \in Callers, NEW k \in Kinds, StartRequest(c, k)
        PROVE  \A d \in Callers : CallInv(d)'
    BY <1>1 DEF StartRequest, CallGetToken
  <1>2. ASSUME NEW c \in Callers, TokenStep(c)
        PROVE  \A d \in Callers : CallInv(d)'
    BY <1>2, ProceedEffect DEF TokenStep
  <1>3. ASSUME NEW c \in Callers, GotToken(c)
        PROVE  \A d \in Callers : CallInv(d)'
    BY <1>3 DEF GotToken, Return, Reply
  <1>4. ASSUME NEW c \in Callers, GotNoToken(c)
        PROVE  \A d \in Callers : CallInv(d)'
    BY <1>4 DEF GotNoToken, Return
  <1>5. ASSUME NEW c \in Callers, TransportFails(c)
        PROVE  \A d \in Callers : CallInv(d)'
    BY <1>5 DEF TransportFails, MayApply, tmVars
  <1>6. ASSUME NEW c \in Callers, ReadFails(c)
        PROVE  \A d \in Callers : CallInv(d)'
    BY <1>6 DEF ReadFails, tmVars
  <1>7. ASSUME NEW c \in Callers, Succeeds(c)
        PROVE  \A d \in Callers : CallInv(d)'
    BY <1>7 DEF Succeeds, tmVars
  <1>8. ASSUME NEW c \in Callers, Fails(c)
        PROVE  \A d \in Callers : CallInv(d)'
    BY <1>8 DEF Fails, tmVars
  <1>9. ASSUME NEW c \in Callers, Rejected(c)
        PROVE  \A d \in Callers : CallInv(d)'
    BY <1>9 DEF Rejected, CallInvalidate, Answers
  <1>10. ASSUME NEW c \in Callers, Retry(c)
        PROVE  \A d \in Callers : CallInv(d)'
    BY <1>10 DEF Retry, CallGetToken
  <1>11. ASSUME NEW c \in Callers, EndRequest(c)
        PROVE  \A d \in Callers : CallInv(d)'
    BY <1>11 DEF EndRequest, tmVars
  <1>12. ASSUME NEW c \in Callers, EndGetToken(c)
        PROVE  \A d \in Callers : CallInv(d)'
    BY <1>12 DEF EndGetToken, Return
  <1>13. ASSUME NEW c \in Callers, StartGetToken(c)
        PROVE  \A d \in Callers : CallInv(d)'
    BY <1>13 DEF StartGetToken, CallGetToken
  <1>14. ASSUME NEW c \in Callers, ServerAnswers(c)
        PROVE  \A d \in Callers : CallInv(d)'
    BY <1>14 DEF ServerAnswers, Answer, MayApply, tmVars, Answers, Kinds
  <1>15. CASE Revoke
    BY <1>15 DEF Revoke, tmVars
  <1>16. CASE ClockStep
    BY <1>16 DEF ClockStep, Tick
  <1>17. CASE UNCHANGED apiVars
    BY <1>17 DEF apiVars, tmVars
  <1>18. QED
    BY <1>1, <1>2, <1>3, <1>4, <1>5, <1>6, <1>7, <1>8, <1>9, <1>10, <1>11,
       <1>12, <1>13, <1>14, <1>15, <1>16, <1>17 DEF ClientNext, Continue

LEMMA ClientInvCorrect == ClientSpec => []ClientInv
  <1>1. Inv /\ Inv' /\ ClientInv /\ [ClientNext]_apiVars => ClientInv'
    BY ClientTypesStep, CallInvStep DEF ClientInv
  <1>2. QED
    BY <1>1, ClientInvInit, ClientKeepsInv, PTL DEF ClientSpec

-----------------------------------------------------------------------------

\* The client is well typed and never sends a request without a token.
THEOREM ClientTypeCorrect == ClientSpec => []ClientTypeOK
  <1>1. Inv /\ ClientInv => ClientTypeOK
    BY DEF ClientInv, ClientTypes, CallInv, FloorInv, ClientTypeOK
  <1>2. QED
    BY <1>1, ClientInvCorrect, ClientKeepsInv, PTL

\* The retry after a 401 carries a token issued after it.
THEOREM RetryIsFresh == ClientSpec => []RetryUsesNewToken
  <1>1. ClientInv => RetryUsesNewToken
    BY DEF ClientInv, ClientTypes, CallInv, FloorInv, RetryUsesNewToken
  <1>2. QED
    BY <1>1, ClientInvCorrect, PTL

\* A call is carried out at most once.
THEOREM NeverAppliedTwice == ClientSpec => []AppliedAtMostOnce
  <1>1. ClientInv => AppliedAtMostOnce
    BY DEF ClientInv, ClientTypes, CallInv, AppliedInv, AppliedAtMostOnce
  <1>2. QED
    BY <1>1, ClientInvCorrect, PTL

\* A call of sendRequest that reports success was carried out exactly once, so
\* no success is made of a retry whose payload was lost.
THEOREM SuccessIsReal == ClientSpec => []OkMeansApplied
  <1>1. ClientInv => OkMeansApplied
    BY DEF ClientInv, CallInv, AppliedInv, OkMeansApplied
  <1>2. QED
    BY <1>1, ClientInvCorrect, PTL
=============================================================================
