----------------------------- MODULE ApiClient -----------------------------
(***************************************************************************)
(* core/client.go: one authenticated API call, composed with the token     *)
(* manager all calls of a Client share.                                    *)
(*                                                                         *)
(* sendRequest and GetStreamManifest have the same control: get a token,   *)
(* send, and after a 401 invalidate the cache, get a token again and send  *)
(* the same request once more.  The payload of sendRequest is a reader     *)
(* which the first httpClient.Do reads to its end and nobody rewinds; a    *)
(* manifest request has none.  The server is external: it may revoke a     *)
(* token at any time, it answers a request with a revoked token by a 401   *)
(* (or by another failure) without applying it, and it refuses a request   *)
(* whose body is shorter than its Content-Length says.                     *)
(***************************************************************************)
EXTENDS TokenManager

VARIABLES
  stage,     \* where each goroutine is in its API call
  kind,      \* "post" (sendRequest) or "manifest" (GetStreamManifest)
  attempt,   \* 1, or 2 after a 401
  bearer,    \* the token of the Authorization header
  unread,    \* goroutines whose request has its payload still to be read
  answer,    \* the status of the response being handled
  result,    \* how the call ended
  revoked,   \* server: tokens it no longer accepts
  applied,   \* server: how often it carried out the call of each goroutine
  floor      \* history: tokens issued when the call was answered 401

clientVars == <<stage, kind, attempt, bearer, unread, answer, result, floor>>
serverVars == <<revoked, applied>>
apiVars == <<tmVars, stage, kind, attempt, bearer, unread, answer, result,
             revoked, applied, floor>>

Stages == {"idle",        \* not in an API call
           "token",       \* in GetToken
           "sent",        \* in httpClient.Do
           "answered",    \* has the response, body not read
           "invalidate",  \* in Invalidate
           "done",        \* about to return result[c]
           "gettoken"}    \* in Client.GetToken, no request follows

Kinds    == {"post", "manifest"}
Answers  == {"ok", "unauthorized", "other"}
Results  == {"ok", "error", "unauthorized"}

ClientInit ==
  /\ Init
  /\ stage = [c \in Callers |-> "idle"]
  /\ kind = [c \in Callers |-> "post"]
  /\ attempt = [c \in Callers |-> 1]
  /\ bearer = [c \in Callers |-> NoToken]
  /\ unread = {}
  /\ answer = [c \in Callers |-> "other"]
  /\ result = [c \in Callers |-> "error"]
  /\ revoked = {}
  /\ applied = [c \in Callers |-> 0]
  /\ floor = [c \in Callers |-> 0]

Move(c, from, to) == stage[c] = from /\ stage' = [stage EXCEPT ![c] = to]

\* The call returns r, from the stage it is in; its locals are gone.
Conclude(c, from, r) ==
  /\ Move(c, from, "done")
  /\ result' = [result EXCEPT ![c] = r]
  /\ attempt' = [attempt EXCEPT ![c] = 1]
  /\ bearer' = [bearer EXCEPT ![c] = NoToken]
  /\ unread' = unread \ {c}
  /\ answer' = [answer EXCEPT ![c] = "other"]
  /\ floor' = [floor EXCEPT ![c] = 0]
  /\ UNCHANGED kind

-----------------------------------------------------------------------------

StartRequest(c, k) ==
  /\ Move(c, "idle", "token")
  /\ CallGetToken(c)
  /\ kind' = [kind EXCEPT ![c] = k]
  /\ UNCHANGED <<attempt, bearer, unread, answer, result, floor, serverVars>>

\* The request is built once, with its payload, for the first attempt.
NewRequest(c) ==
  unread' = IF attempt[c] = 1 /\ kind[c] = "post" THEN unread \cup {c}
                                                  ELSE unread

\* The error of GetToken not looked at.
GotTokenUnchecked(c) ==
  /\ pc[c] = "returned"
  /\ Move(c, "token", "sent")
  /\ Return(c)
  /\ bearer' = [bearer EXCEPT ![c] = reply[c].token]
  /\ NewRequest(c)
  /\ UNCHANGED <<kind, attempt, answer, result, floor, serverVars>>

GotToken(c) ==
  /\ pc[c] = "returned"
  /\ reply[c].from # "error"
  /\ Move(c, "token", "sent")
  /\ Return(c)
  /\ bearer' = [bearer EXCEPT ![c] = reply[c].token]
  /\ NewRequest(c)
  /\ UNCHANGED <<kind, attempt, answer, result, floor, serverVars>>

\* A failed GetToken ends the first attempt with its error, and the second
\* one with the 401 the first attempt got.
GotNoToken(c) ==
  /\ pc[c] = "returned"
  /\ reply[c].from = "error"
  /\ Return(c)
  /\ Conclude(c, "token", IF attempt[c] = 1 THEN "error" ELSE "unauthorized")
  /\ UNCHANGED serverVars

\* What the server carries out: a request it accepts and that is whole.
Whole(c) == kind[c] = "post" => c \in unread
MayApply(c) == kind[c] = "post" /\ Whole(c) /\ bearer[c] \notin revoked

Answer(c) ==
  CASE bearer[c] \in revoked -> {"unauthorized", "other"}
    [] bearer[c] \notin revoked /\ Whole(c)  -> {"ok", "other"}
    [] bearer[c] \notin revoked /\ ~Whole(c) -> {"other"}

\* The server handles the request and answers.  A failure other than a 401 may
\* come after the request was applied; a manifest request changes nothing.
ServerAnswers(c) ==
  /\ Move(c, "sent", "answered")
  /\ \E a \in Answer(c), n \in {0, 1} :
       /\ n = 1 => MayApply(c)
       /\ a = "ok" /\ kind[c] = "post" => n = 1
       /\ answer' = [answer EXCEPT ![c] = a]
       /\ applied' = [applied EXCEPT ![c] = @ + n]
  /\ unread' = unread \ {c}
  /\ UNCHANGED <<tmVars, kind, attempt, bearer, result, floor, revoked>>

\* A client without a Timeout waits for the answer for ever.
TransportNeverFails(c) == FALSE /\ UNCHANGED apiVars

\* httpClient.Do returns an error: the 45 s timeout, the context, the
\* connection, or a payload that does not have its length.  The server may have
\* applied the request before.
TransportFails(c) ==
  /\ Conclude(c, "sent", IF attempt[c] = 1 THEN "error" ELSE "unauthorized")
  /\ \E n \in {0, 1} :
       /\ n = 1 => MayApply(c)
       /\ applied' = [applied EXCEPT ![c] = @ + n]
  /\ UNCHANGED <<tmVars, revoked>>

\* The body is read before the status is looked at, on the first attempt.
ReadFails(c) ==
  /\ attempt[c] = 1 \/ answer[c] = "ok"
  /\ Conclude(c, "answered", "error")
  /\ UNCHANGED <<tmVars, serverVars>>

\* Whatever the retry answers is returned as a success.
RetryAlwaysSucceeds(c) ==
  /\ answer[c] = "ok" \/ attempt[c] = 2
  /\ Conclude(c, "answered", "ok")
  /\ UNCHANGED <<tmVars, serverVars>>

Succeeds(c) ==
  /\ answer[c] = "ok"
  /\ Conclude(c, "answered", "ok")
  /\ UNCHANGED <<tmVars, serverVars>>

\* A 401 ends the first attempt only after the retry; any other failure of the
\* first attempt is reported, that of the second is hidden by the first's 401.
Fails(c) ==
  /\ answer[c] # "ok"
  /\ attempt[c] = 2 \/ answer[c] # "unauthorized"
  /\ Conclude(c, "answered", IF attempt[c] = 1 THEN "error" ELSE "unauthorized")
  /\ UNCHANGED <<tmVars, serverVars>>

\* The retry made for every status other than 200, with a request of its own.
RetryAnyFailure(c) ==
  /\ attempt[c] = 1
  /\ answer[c] # "ok"
  /\ Move(c, "answered", "invalidate")
  /\ CallInvalidate(c)
  /\ floor' = [floor EXCEPT ![c] = issued]
  /\ answer' = [answer EXCEPT ![c] = "other"]
  /\ bearer' = [bearer EXCEPT ![c] = NoToken]
  /\ unread' = unread \cup {c}
  /\ UNCHANGED <<kind, attempt, result, serverVars>>

\* The client clears the token manager's fields itself, without its lock.
ClearFieldsDirectly(c) ==
  /\ attempt[c] = 1
  /\ answer[c] = "unauthorized"
  /\ Move(c, "answered", "invalidate")
  /\ cachedToken' = NoToken
  /\ expiresAt' = 0
  /\ floor' = [floor EXCEPT ![c] = issued]
  /\ UNCHANGED <<now, lockVars, pc, reply, issued, histVars, kind, attempt,
                 bearer, unread, answer, result, serverVars>>

\* The retry made with whatever the cache holds.
NoInvalidate(c) ==
  /\ attempt[c] = 1
  /\ answer[c] = "unauthorized"
  /\ Move(c, "answered", "invalidate")
  /\ floor' = [floor EXCEPT ![c] = issued]
  /\ UNCHANGED <<tmVars, kind, attempt, bearer, unread, answer, result,
                 serverVars>>

Rejected(c) ==
  /\ attempt[c] = 1
  /\ answer[c] = "unauthorized"
  /\ Move(c, "answered", "invalidate")
  /\ CallInvalidate(c)
  /\ floor' = [floor EXCEPT ![c] = issued]
  /\ answer' = [answer EXCEPT ![c] = "other"]
  /\ bearer' = [bearer EXCEPT ![c] = NoToken]
  /\ UNCHANGED <<kind, attempt, unread, result, serverVars>>

\* Invalidate has returned: GetToken again, for the same request, of which
\* only the Authorization header is set anew.
Retry(c) ==
  /\ Move(c, "invalidate", "token")
  /\ CallGetToken(c)
  /\ attempt' = [attempt EXCEPT ![c] = 2]
  /\ UNCHANGED <<kind, bearer, unread, answer, result, floor, serverVars>>

\* The caller has the result.
EndRequest(c) ==
  /\ Move(c, "done", "idle")
  /\ kind' = [kind EXCEPT ![c] = "post"]
  /\ result' = [result EXCEPT ![c] = "error"]
  /\ applied' = [applied EXCEPT ![c] = 0]
  /\ UNCHANGED <<tmVars, attempt, bearer, unread, answer, floor, revoked>>

-----------------------------------------------------------------------------

\* Client.GetToken, exported to the C ABI.
StartGetToken(c) ==
  /\ Move(c, "idle", "gettoken")
  /\ CallGetToken(c)
  /\ UNCHANGED <<kind, attempt, bearer, unread, answer, result, floor,
                 serverVars>>

EndGetToken(c) ==
  /\ Move(c, "gettoken", "idle")
  /\ Return(c)
  /\ UNCHANGED <<kind, attempt, bearer, unread, answer, result, floor,
                 serverVars>>

\* The server stops accepting a token: it expired there, or was revoked.
Revoke ==
  /\ \E t \in 1..issued : revoked' = revoked \cup {t}
  /\ UNCHANGED <<tmVars, clientVars, applied>>

\* A step inside GetToken or Invalidate.
TokenStep(c) ==
  /\ pc[c] # "returned"
  /\ Proceed(c)
  /\ UNCHANGED <<clientVars, serverVars>>

ClockStep == Tick /\ UNCHANGED <<clientVars, serverVars>>

\* Everything a goroutine does by itself once its call has started.
Continue(c) ==
  \/ TokenStep(c) \/ GotToken(c) \/ GotNoToken(c)
  \/ TransportFails(c) \/ ReadFails(c) \/ Succeeds(c) \/ Fails(c)
  \/ Rejected(c) \/ Retry(c) \/ EndRequest(c) \/ EndGetToken(c)

ClientNext ==
  \/ \E c \in Callers :
       \/ \E k \in Kinds : StartRequest(c, k)
       \/ StartGetToken(c)
       \/ ServerAnswers(c)
       \/ Continue(c)
  \/ Revoke
  \/ ClockStep

ClientSpec == ClientInit /\ [][ClientNext]_apiVars

\* Goroutines run, tm.mu is handed out fairly, and both HTTP clients have a
\* Timeout.  Nothing is assumed of the servers.
ClientFairSpec ==
  /\ ClientSpec
  /\ \A c \in Callers :
       /\ WF_apiVars(Continue(c))
       /\ SF_apiVars(TokenStep(c) /\ pc[c] \in {"rlock", "lock", "ilock"})

-----------------------------------------------------------------------------
(* Properties.                                                             *)

\* Every variable of the client and the server has its type, and a request is
\* never sent without a token.
ClientTypeOK ==
  /\ stage \in [Callers -> Stages]
  /\ kind \in [Callers -> Kinds]
  /\ attempt \in [Callers -> {1, 2}]
  /\ bearer \in [Callers -> Nat]
  /\ unread \subseteq Callers
  /\ answer \in [Callers -> Answers]
  /\ result \in [Callers -> Results]
  /\ revoked \subseteq Nat
  /\ applied \in [Callers -> Nat]
  /\ floor \in [Callers -> Nat]
  /\ \A c \in Callers : stage[c] = "sent" => bearer[c] # NoToken

\* The calls drive the token manager only through GetToken and Invalidate:
\* what holds of the token manager alone holds inside every client.
UsesTokenManager == Spec

\* The retry after a 401 carries a token issued after that 401 arrived, never
\* the rejected one nor one another goroutine had in the cache by then.
RetryUsesNewToken ==
  \A c \in Callers :
    attempt[c] = 2 /\ stage[c] = "sent" => bearer[c] > floor[c]

\* However the retry goes, the server carries a call out at most once.
AppliedAtMostOnce == \A c \in Callers : applied[c] <= 1

\* A call that reports success was carried out, exactly once, and as it was
\* asked: neither a lost payload nor the failure of a retry is a success.
OkMeansApplied ==
  \A c \in Callers :
    stage[c] = "done" /\ result[c] = "ok" /\ kind[c] = "post" => applied[c] = 1

\* The retry after a 401 (the comment at core/client.go:109) sends the call
\* again, and so its payload.  The code sends the request without it.
RetryIsWhole == \A c \in Callers : stage[c] = "sent" => Whole(c)

\* Every call returns, even if neither server ever answers.
EveryRequestEnds == \A c \in Callers : stage[c] # "idle" ~> stage[c] = "idle"
=============================================================================
