-------------------------- MODULE AsyncBridgeProofs --------------------------
(***************************************************************************)
(* Proofs about AsyncBridge, for any calls, event loops and number of      *)
(* callback ids.                                                           *)
(*                                                                         *)
(* A callback id belongs to one call for ever, so the entries of the three *)
(* maps under it are that call's, whoever reads or removes them.  Each     *)
(* call's coroutine, future, goroutine and operation advance together, and *)
(* what is queued for an event loop agrees with where they are.            *)
(***************************************************************************)
EXTENDS AsyncBridge, SequenceTheorems, TLAPS

\* Before its coroutine has an id, and before it has dispatched.
NoId     == {"new", "create", "register"}
NotBegun == NoId \cup {"pend", "dispatch"}

\* An id is given out once.
IdInv ==
  /\ \A r \in Requests : py[r] \notin NoId => id[r] \in 1..nextCallbackID
  /\ \A r, q \in Requests :
       py[r] \notin NoId /\ py[q] \notin NoId /\ id[r] = id[q] => r = q

\* How far coroutine, future, goroutine and operation are.
CallInv(r) ==
  /\ future[r] = "none" <=> py[r] \in NoId \cup {"pend"}
  /\ py[r] = "dispatch" => future[r] = "pending"
  /\ py[r] \in {"cancel", "unregister", "unregister2", "pop"} =>
       future[r] = "cancelled"
  /\ py[r] = "finished" => future[r] \in Settled
  /\ go[r] = "none" <=> py[r] \in NotBegun
  /\ go[r] = "running" => op[r] = "running"
  /\ go[r] \notin {"none", "running"} => op[r] \in {"ok", "error"}
  /\ go[r] = "scheduling" => held[r] = r
  /\ future[r] \in {"ok", "error"} =>
       op[r] = future[r] /\ go[r] \in {"exiting", "gone"}
  /\ r \in mustCancel => future[r] \in {"ok", "error"}

\* A future that is settled, or about to be, has been taken out of _pending.
TakenInv(r) ==
  go[r] = "scheduling" \/ future[r] \in {"ok", "error"} =>
    pending[id[r]] = Nobody

\* The callback is there when the call is dispatched.
CallbackInv(r) ==
  /\ py[r] = "register" => callbackRef # 0
  /\ py[r] \in {"pend", "dispatch"} => asyncCallbacks[id[r]] # 0

\* The coroutine of a cancelled call has come to one of these steps.
Undoing(r, steps) ==
  py[r] \in steps \/ (py[r] = "finished" /\ future[r] = "cancelled")

\* What a cancellation finds and leaves.
CancelInv(r) ==
  /\ go[r] = "gone" => r \in ctxDone
  /\ py[r] \in {"await", "cancel"} /\ go[r] # "gone" =>
       activeRequests[id[r]] = r
  /\ Undoing(r, {"unregister", "unregister2", "pop"}) =>
       r \in ctxDone /\ activeRequests[id[r]] = Nobody
  /\ Undoing(r, {"unregister2", "pop"}) => asyncCallbacks[id[r]] = 0
  /\ Undoing(r, {}) => pending[id[r]] = Nobody

\* The maps have entries under the ids of their calls only.
MapsInv ==
  \A i \in CallbackIds :
    /\ pending[i] # Nobody =>
         py[pending[i]] \notin NoId /\ id[pending[i]] = i
    /\ activeRequests[i] # Nobody =>
         /\ py[activeRequests[i]] \notin NoId /\ id[activeRequests[i]] = i
         /\ go[activeRequests[i]] # "gone"

\* What a queued callback may rely on.
EntryInv(e) ==
  /\ e.what = "done" => future[e.request] \in Settled
  /\ e.what = "settle" =>
       /\ go[e.request] \in {"exiting", "gone"}
       /\ e.value = op[e.request]
       /\ pending[id[e.request]] = Nobody

\* The same of the state a step leads to.
EntryNext(e) ==
  /\ e.what = "done" => future'[e.request] \in Settled
  /\ e.what = "settle" =>
       /\ go'[e.request] \in {"exiting", "gone"}
       /\ e.value = op'[e.request]
       /\ pending'[id'[e.request]] = Nobody

\* A queue holds the callbacks of the calls made on its event loop.
QueueInv ==
  \A l \in Loops : \A n \in 1..Len(ready[l]) :
    EntryInv(ready[l][n]) /\ LoopOf[ready[l][n].request] = l

BridgeInv ==
  /\ TypeOK
  /\ IdInv
  /\ \A r \in Requests :
       CallInv(r) /\ TakenInv(r) /\ CallbackInv(r) /\ CancelInv(r)
  /\ MapsInv
  /\ QueueInv

\* Every call is made on one event loop.
OneLoopOnly == \A r, q \in Requests : LoopOf[r] = LoopOf[q]

Busied == {"create", "register", "pend", "dispatch", "cancel", "unregister",
           "unregister2", "pop"}

\* An event loop is in the Python code of one call at a time.
LoopInv == \A r \in Requests : py[r] \in Busied => running[LoopOf[r]] = r

\* A process that has made an async call, or makes them all on one event loop,
\* creates its callback object once.
ObjectInv ==
  /\ ~FirstUse => callbackRef # 0
  /\ \A r \in Requests : py[r] = "create" => callbackRef = 0
  /\ \A i \in CallbackIds : asyncCallbacks[i] \in {0, callbackRef}
  /\ \A r \in Requests : go[r] = "invoking" => held[r] # 0 /\ held[r] = callbackRef

-----------------------------------------------------------------------------
(* Queues.                                                                 *)

LEMMA HeadIsQueued ==
  ASSUME NEW S, NEW s \in Seq(S), s # <<>>
  PROVE  1 \in 1..Len(s) /\ Head(s) = s[1] /\ Head(s) \in S
  <1>1. Len(s) \in Nat \ {0}
    BY EmptySeq
  <1>2. QED
    BY <1>1

LEMMA TailIsQueued ==
  ASSUME NEW S, NEW s \in Seq(S), s # <<>>
  PROVE  /\ Tail(s) \in Seq(S)
         /\ \A n \in 1..Len(Tail(s)) : \E m \in 1..Len(s) : Tail(s)[n] = s[m]
  <1>1. /\ Tail(s) \in Seq(S) /\ Len(Tail(s)) = Len(s) - 1
        /\ \A n \in 1..Len(Tail(s)) : Tail(s)[n] = s[n + 1]
    BY HeadTailProperties
  <1>2. Len(s) \in Nat
    BY LenProperties
  <1>3. \A n \in 1..Len(Tail(s)) : n + 1 \in 1..Len(s)
    BY <1>1, <1>2
  <1>4. QED
    BY <1>1, <1>3

LEMMA AppendIsQueued ==
  ASSUME NEW S, NEW s \in Seq(S), NEW e \in S
  PROVE  /\ Append(s, e) \in Seq(S)
         /\ \A n \in 1..Len(Append(s, e)) :
              Append(s, e)[n] = e \/ \E m \in 1..Len(s) : Append(s, e)[n] = s[m]
  <1>1. /\ Append(s, e) \in Seq(S) /\ Len(Append(s, e)) = Len(s) + 1
        /\ \A n \in 1..Len(s) : Append(s, e)[n] = s[n]
        /\ Append(s, e)[Len(s) + 1] = e
    BY AppendProperties
  <1>2. Len(s) \in Nat
    BY LenProperties
  <1>3. \A n \in 1..Len(Append(s, e)) : n \in 1..Len(s) \/ n = Len(s) + 1
    BY <1>1, <1>2
  <1>4. QED
    BY <1>1, <1>3

Entries == [what : {"settle", "done"}, request : Requests,
            value : {"none", "ok", "error"}]

-----------------------------------------------------------------------------
(* The invariant is inductive.                                             *)

\* A map is read under an id that has been given out.
LEMMA IdIsCallbackId ==
  ASSUME BridgeInv, NEW r \in Requests, py[r] \notin NoId
  PROVE  id[r] \in CallbackIds /\ id[r] <= nextCallbackID
  BY BridgeAssumption DEF BridgeInv, IdInv, TypeOK, CallbackIds

\* A goroutine takes the future of its own call.
LEMMA TakesItsOwn ==
  ASSUME BridgeInv, NEW r \in Requests, py[r] \notin NoId
  PROVE  /\ pending[id[r]] \in {r, Nobody}
         /\ activeRequests[id[r]] \in {r, Nobody}
  <1>1. id[r] \in CallbackIds
    BY IdIsCallbackId
  <1>2. pending[id[r]] \in Requests \cup {Nobody} /\
        activeRequests[id[r]] \in Requests \cup {Nobody}
    BY <1>1 DEF BridgeInv, TypeOK
  <1>3. QED
    BY <1>1, <1>2 DEF BridgeInv, MapsInv, IdInv

\* The next callback of an event loop is a call's, and finds what it relies on.
LEMMA HeadHolds ==
  ASSUME BridgeInv, NEW l \in Loops, ready[l] # <<>>
  PROVE  /\ Head(ready[l]) \in Entries
         /\ Head(ready[l]).request \in Requests
         /\ LoopOf[Head(ready[l]).request] = l
         /\ EntryInv(Head(ready[l]))
  <1>1. ready[l] \in Seq(Entries)
    BY DEF BridgeInv, TypeOK, Entries
  <1>2. /\ Head(ready[l]) \in Entries /\ EntryInv(Head(ready[l]))
        /\ LoopOf[Head(ready[l]).request] = l
    BY <1>1, HeadIsQueued DEF BridgeInv, QueueInv
  <1>3. QED
    BY <1>2 DEF Entries

\* The types of the Python side, of the Go side, and of what both work on.
PythonTyped ==
  /\ callbackRef \in Nat
  /\ created \in Nat
  /\ pending \in [CallbackIds -> Requests \cup {Nobody}]
  /\ running \in [Loops -> Requests \cup {Nobody}]
  /\ ready \in [Loops -> Seq(Entries)]
  /\ closed \subseteq Loops
  /\ mustCancel \subseteq Requests

GoTyped ==
  /\ nextCallbackID \in 0..MaxId
  /\ asyncCallbacks \in [CallbackIds -> Nat]
  /\ activeRequests \in [CallbackIds -> Requests \cup {Nobody}]
  /\ id \in [Requests -> 0..MaxId]
  /\ ctxDone \subseteq Requests

CallTyped ==
  /\ py \in [Requests -> {"new", "create", "register", "pend", "dispatch",
                          "await", "cancel", "unregister", "unregister2",
                          "pop", "finished"}]
  /\ future \in [Requests -> {"none", "pending"} \cup Settled]
  /\ go \in [Requests -> {"none", "running", "built", "invoking", "scheduling",
                          "exiting", "gone"}]
  /\ op \in [Requests -> {"none", "running", "ok", "error"}]
  /\ held \in [Requests -> Requests \cup {Nobody} \cup Nat]

Typed == PythonTyped /\ GoTyped /\ CallTyped

LEMMA TypedKept ==
  ASSUME BridgeInv, Next
  PROVE  Typed'
  <1>1. Typed
    BY DEF BridgeInv, TypeOK, Typed, PythonTyped, GoTyped, CallTyped, Entries
  <1> USE BridgeAssumption, <1>1
      DEF Typed, Step, Yield, Busy, GoStep, pythonVars, mapVars, goVars
  <1>2. ASSUME NEW r \in Requests, StartCall(r) PROVE Typed'
    <2>1. PythonTyped'
      BY <1>2 DEF StartCall, PythonTyped
    <2>2. GoTyped' /\ CallTyped'
      BY <1>2 DEF StartCall, GoTyped, CallTyped
    <2>3. QED
      BY <2>1, <2>2
  <1>3. ASSUME NEW r \in Requests, CreateCallback(r) PROVE Typed'
    <2>1. PythonTyped'
      BY <1>3 DEF CreateCallback, PythonTyped
    <2>2. GoTyped' /\ CallTyped'
      BY <1>3 DEF CreateCallback, GoTyped, CallTyped
    <2>3. QED
      BY <2>1, <2>2
  <1>4. ASSUME NEW r \in Requests, RegisterCallback(r) PROVE Typed'
    <2>1. PythonTyped' /\ CallTyped'
      BY <1>4 DEF RegisterCallback, PythonTyped, CallTyped
    <2>2. nextCallbackID + 1 \in 0..MaxId
      BY <1>4 DEF RegisterCallback, GoTyped
    <2>3. asyncCallbacks' \in [CallbackIds -> Nat]
      BY <1>4 DEF RegisterCallback, GoTyped, PythonTyped
    <2>4. GoTyped'
      BY <1>4, <2>2, <2>3 DEF RegisterCallback, GoTyped
    <2>5. QED
      BY <2>1, <2>4
  <1>5. ASSUME NEW r \in Requests, AddPending(r) PROVE Typed'
    <2>1. PythonTyped'
      BY <1>5 DEF AddPending, PythonTyped
    <2>2. GoTyped' /\ CallTyped'
      BY <1>5 DEF AddPending, GoTyped, CallTyped
    <2>3. QED
      BY <2>1, <2>2
  <1>6. ASSUME NEW r \in Requests, Dispatch(r) PROVE Typed'
    <2>1. PythonTyped'
      BY <1>6 DEF Dispatch, PythonTyped
    <2>2. GoTyped'
      BY <1>6 DEF Dispatch, GoTyped
    <2>3. CallTyped'
      BY <1>6 DEF Dispatch, CallTyped
    <2>4. QED
      BY <2>1, <2>2, <2>3
  <1>7. ASSUME NEW r \in Requests, OpReturns(r) PROVE Typed'
    <2>1. PythonTyped' /\ GoTyped'
      BY <1>7 DEF OpReturns, PythonTyped, GoTyped
    <2>2. CallTyped'
      BY <1>7 DEF OpReturns, CallTyped
    <2>3. QED
      BY <2>1, <2>2
  <1>8. ASSUME NEW r \in Requests, LookupCallback(r) PROVE Typed'
    <2>1. PythonTyped' /\ GoTyped'
      BY <1>8 DEF LookupCallback, PythonTyped, GoTyped
    <2>2. asyncCallbacks[id[r]] \in Nat
      BY <1>8, IdIsCallbackId
      DEF LookupCallback, BridgeInv, CallInv, NotBegun, GoTyped
    <2>3. CallTyped'
      BY <1>8, <2>2 DEF LookupCallback, CallTyped
    <2>4. QED
      BY <2>1, <2>3
  <1>9. ASSUME NEW r \in Requests, TakePending(r) PROVE Typed'
    <2>1. PythonTyped'
      BY <1>9 DEF TakePending, PythonTyped
    <2>2. GoTyped'
      BY <1>9 DEF TakePending, GoTyped
    <2>3. pending[id[r]] \in {r, Nobody}
      BY <1>9, TakesItsOwn DEF TakePending, BridgeInv, CallInv, NotBegun
    <2>4. CallTyped'
      BY <1>9, <2>3 DEF TakePending, CallTyped
    <2>5. QED
      BY <2>1, <2>2, <2>4
  <1>10. ASSUME NEW r \in Requests, Schedule(r) PROVE Typed'
    <2>1. held[r] = r /\ op[r] \in {"ok", "error"}
      BY <1>10 DEF Schedule, BridgeInv, CallInv
    <2>2. [what |-> "settle", request |-> held[r], value |-> op[r]] \in Entries
      BY <2>1 DEF Entries
    <2>3. ready[LoopOf[r]] \in Seq(Entries)
      BY DEF PythonTyped
    <2>4. Append(ready[LoopOf[r]],
                 [what |-> "settle", request |-> held[r], value |-> op[r]])
            \in Seq(Entries)
      BY <2>2, <2>3, AppendIsQueued
    <2>5. PythonTyped'
      <3>1. \/ UNCHANGED ready
            \/ ready' = [ready EXCEPT ![LoopOf[r]] = Append(ready[LoopOf[r]],
                 [what |-> "settle", request |-> held[r], value |-> op[r]])]
        BY <1>10, <2>1 DEF Schedule, CallSoon, PythonTyped
      <3>2. ready' \in [Loops -> Seq(Entries)]
        BY <2>4, <3>1 DEF PythonTyped
      <3>3. QED
        BY <1>10, <3>2 DEF Schedule, PythonTyped
    <2>6. GoTyped' /\ CallTyped'
      BY <1>10 DEF Schedule, GoTyped, CallTyped
    <2>7. QED
      BY <2>5, <2>6
  <1>11. ASSUME NEW r \in Requests, GoroutineExits(r) PROVE Typed'
    <2>1. PythonTyped' /\ CallTyped'
      BY <1>11 DEF GoroutineExits, PythonTyped, CallTyped
    <2>2. GoTyped'
      BY <1>11 DEF GoroutineExits, GoTyped
    <2>3. QED
      BY <2>1, <2>2
  <1>12. ASSUME NEW l \in Loops, RunSettle(l) PROVE Typed'
    <2> DEFINE r == Head(ready[l]).request
               done == [what |-> "done", request |-> r, value |-> "none"]
    <2>1. ready[l] \in Seq(Entries) /\ ready[l] # <<>> /\ Head(ready[l]) \in Entries
      BY <1>12, HeadIsQueued DEF RunSettle, NextReady, PythonTyped
    <2>2. r \in Requests /\ done \in Entries
      BY <2>1 DEF Entries
    <2>3. Tail(ready[l]) \in Seq(Entries) /\ Append(Tail(ready[l]), done) \in Seq(Entries)
      BY <2>1, <2>2, TailIsQueued, AppendIsQueued
    <2>4. ready' \in [Loops -> Seq(Entries)]
      BY <1>12, <2>3 DEF RunSettle, PythonTyped
    <2>5. PythonTyped' /\ GoTyped'
      BY <1>12, <2>4 DEF RunSettle, PythonTyped, GoTyped
    <2>6. Head(ready[l]).what = "settle" => Head(ready[l]).value \in {"ok", "error"}
      <3>1. EntryInv(Head(ready[l]))
        BY <2>1, HeadIsQueued DEF BridgeInv, QueueInv
      <3>2. go[r] \in {"exiting", "gone"} => op[r] \in {"ok", "error"}
        BY <2>2 DEF BridgeInv, CallInv
      <3>3. QED
        BY <3>1, <3>2 DEF EntryInv
    <2>7. CallTyped'
      BY <1>12, <2>2, <2>6 DEF RunSettle, NextReady, CallTyped, Settled
    <2>8. QED
      BY <2>5, <2>7
  <1>13. ASSUME NEW r \in Requests, CancelTask(r) PROVE Typed'
    <2>1. [what |-> "done", request |-> r, value |-> "none"] \in Entries
      BY DEF Entries
    <2>2. Append(ready[LoopOf[r]],
                 [what |-> "done", request |-> r, value |-> "none"]) \in Seq(Entries)
      BY <2>1, AppendIsQueued DEF PythonTyped
    <2>3. PythonTyped'
      <3>1. \/ UNCHANGED mustCancel /\ CallSoon(LoopOf[r], "done", r, "none")
            \/ mustCancel' = mustCancel \cup {r} /\ UNCHANGED ready
        BY <1>13 DEF CancelTask
      <3>2. ready' \in [Loops -> Seq(Entries)]
        BY <2>2, <3>1 DEF CallSoon, PythonTyped
      <3>3. mustCancel' \subseteq Requests
        BY <3>1 DEF PythonTyped
      <3>4. QED
        BY <1>13, <3>2, <3>3 DEF CancelTask, PythonTyped
    <2>4. GoTyped' /\ CallTyped'
      BY <1>13 DEF CancelTask, GoTyped, CallTyped, Settled
    <2>5. QED
      BY <2>3, <2>4
  <1>14. ASSUME NEW l \in Loops, RunDone(l) PROVE Typed'
    <2> DEFINE r == Head(ready[l]).request
    <2>1. ready[l] \in Seq(Entries) /\ ready[l] # <<>> /\ Head(ready[l]) \in Entries
      BY <1>14, HeadIsQueued DEF RunDone, NextReady, PythonTyped
    <2>2. r \in Requests
      BY <2>1 DEF Entries
    <2>3. Tail(ready[l]) \in Seq(Entries)
      BY <2>1, TailIsQueued
    <2>4. PythonTyped'
      BY <1>14, <2>2, <2>3 DEF RunDone, PythonTyped
    <2>5. GoTyped'
      BY <1>14 DEF RunDone, GoTyped
    <2>6. CallTyped'
      BY <1>14 DEF RunDone, CallTyped
    <2>7. QED
      BY <2>4, <2>5, <2>6
  <1>15. ASSUME NEW r \in Requests, CancelRequest(r) PROVE Typed'
    <2>1. activeRequests[id[r]] \in {r, Nobody}
      BY <1>15, TakesItsOwn DEF CancelRequest, NoId
    <2>2. PythonTyped' /\ CallTyped'
      BY <1>15 DEF CancelRequest, PythonTyped, CallTyped
    <2>3. GoTyped'
      BY <1>15, <2>1 DEF CancelRequest, GoTyped
    <2>4. QED
      BY <2>2, <2>3
  <1>16. ASSUME NEW r \in Requests, UnregisterCallback(r) PROVE Typed'
    <2>1. PythonTyped' /\ CallTyped'
      BY <1>16 DEF UnregisterCallback, PythonTyped, CallTyped
    <2>2. GoTyped'
      BY <1>16 DEF UnregisterCallback, GoTyped
    <2>3. QED
      BY <2>1, <2>2
  <1>17. ASSUME NEW r \in Requests, UnregisterRequest(r) PROVE Typed'
    <2>1. PythonTyped' /\ CallTyped'
      BY <1>17 DEF UnregisterRequest, PythonTyped, CallTyped
    <2>2. GoTyped'
      BY <1>17 DEF UnregisterRequest, GoTyped
    <2>3. QED
      BY <2>1, <2>2
  <1>18. ASSUME NEW r \in Requests, PopPending(r) PROVE Typed'
    <2>1. PythonTyped'
      BY <1>18 DEF PopPending, PythonTyped
    <2>2. GoTyped' /\ CallTyped'
      BY <1>18 DEF PopPending, GoTyped, CallTyped
    <2>3. QED
      BY <2>1, <2>2
  <1>19. ASSUME NEW l \in Loops, CloseLoop(l) PROVE Typed'
    <2>1. <<>> \in Seq(Entries)
      OBVIOUS
    <2>2. PythonTyped'
      BY <1>19, <2>1 DEF CloseLoop, PythonTyped
    <2>3. GoTyped' /\ CallTyped'
      BY <1>19 DEF CloseLoop, GoTyped, CallTyped
    <2>4. QED
      BY <2>2, <2>3
  <1> HIDE DEF Typed
  <1>20. QED
    BY <1>2, <1>3, <1>4, <1>5, <1>6, <1>7, <1>8, <1>9, <1>10, <1>11, <1>12,
       <1>13, <1>14, <1>15, <1>16, <1>17, <1>18, <1>19
    DEF Next, Coroutine, Goroutine, EventLoop

\* Ids are only given out by the counter.
LEMMA IdKept ==
  ASSUME BridgeInv, Next
  PROVE  IdInv'
  <1>1. Typed
    BY DEF BridgeInv, TypeOK, Typed, PythonTyped, GoTyped, CallTyped, Entries
  <1> USE BridgeAssumption, <1>1 DEF Typed, GoTyped, CallTyped
  <1>2. IdInv
    BY DEF BridgeInv
  <1>3. ASSUME NEW r \in Requests, UNCHANGED <<nextCallbackID, id>>,
               NEW p, py' = [py EXCEPT ![r] = p],
               p \in NoId \/ py[r] \notin NoId
        PROVE  IdInv'
    BY <1>2, <1>3 DEF IdInv, NoId
  <1>4. ASSUME UNCHANGED <<nextCallbackID, id, py>> PROVE IdInv'
    BY <1>2, <1>4 DEF IdInv
  <1>5. ASSUME NEW r \in Requests, StartCall(r) PROVE IdInv'
    BY <1>3, <1>5 DEF StartCall, Step, mapVars, NoId
  <1>6. ASSUME NEW r \in Requests, CreateCallback(r) PROVE IdInv'
    BY <1>3, <1>6 DEF CreateCallback, Step, mapVars, NoId
  <1>7. ASSUME NEW r \in Requests, RegisterCallback(r) PROVE IdInv'
    <2>1. \A q \in Requests \ {r} : py'[q] = py[q] /\ id'[q] = id[q]
      BY <1>7 DEF RegisterCallback, Step
    <2>2. /\ id'[r] = nextCallbackID + 1 /\ nextCallbackID' = nextCallbackID + 1
          /\ nextCallbackID \in Nat
      BY <1>7 DEF RegisterCallback, Step
    <2>3. \A q \in Requests \ {r} : py[q] \notin NoId => id[q] \in 1..nextCallbackID
      BY <1>2 DEF IdInv
    <2>4. \A q \in Requests : py'[q] \notin NoId => id'[q] \in 1..nextCallbackID'
      BY <2>1, <2>2, <2>3
    <2>5. \A q, t \in Requests :
            py'[q] \notin NoId /\ py'[t] \notin NoId /\ id'[q] = id'[t] => q = t
      BY <1>2, <2>1, <2>2, <2>3 DEF IdInv
    <2>6. QED
      BY <2>4, <2>5 DEF IdInv
  <1>8. ASSUME NEW r \in Requests, AddPending(r) \/ Dispatch(r) PROVE IdInv'
    BY <1>3, <1>8 DEF AddPending, Dispatch, Step, mapVars, NoId
  <1>9. ASSUME NEW r \in Requests, Goroutine(r) PROVE IdInv'
    BY <1>4, <1>9
    DEF Goroutine, OpReturns, LookupCallback, TakePending, Schedule,
        GoroutineExits, pythonVars, mapVars
  <1>10. ASSUME NEW l \in Loops, RunSettle(l) \/ CloseLoop(l) PROVE IdInv'
    BY <1>4, <1>10 DEF RunSettle, CloseLoop, mapVars
  <1>11. ASSUME NEW l \in Loops, RunDone(l) PROVE IdInv'
    <2>1. Head(ready[l]).request \in Requests
      BY <1>11, HeadHolds DEF RunDone, NextReady
    <2>2. QED
      BY <1>3, <1>11, <2>1 DEF RunDone, Step, mapVars, NoId
  <1>12. ASSUME NEW r \in Requests, CancelTask(r) PROVE IdInv'
    BY <1>4, <1>12 DEF CancelTask, mapVars
  <1>13. ASSUME NEW r \in Requests,
                \/ CancelRequest(r)
                \/ UnregisterCallback(r)
                \/ UnregisterRequest(r)
                \/ PopPending(r)
         PROVE  IdInv'
    BY <1>3, <1>13
    DEF CancelRequest, UnregisterCallback, UnregisterRequest, PopPending, Step,
        mapVars, NoId
  <1>14. QED
    BY <1>5, <1>6, <1>7, <1>8, <1>9, <1>10, <1>11, <1>12, <1>13
    DEF Next, Coroutine, EventLoop

\* Coroutine, future, goroutine and operation of a call advance together.
LEMMA CallKept ==
  ASSUME BridgeInv, Next, NEW q \in Requests
  PROVE  CallInv(q)'
  <1>1. CallTyped /\ CallInv(q)
    BY DEF BridgeInv, TypeOK, CallTyped
  <1> USE <1>1 DEF CallTyped, Step, GoStep, goVars, pythonVars, CallInv, NoId,
                   NotBegun, Settled
  <1>2. ASSUME NEW r \in Requests, StartCall(r) PROVE CallInv(q)'
    BY <1>2 DEF StartCall
  <1>3. ASSUME NEW r \in Requests, CreateCallback(r) PROVE CallInv(q)'
    BY <1>3 DEF CreateCallback
  <1>4. ASSUME NEW r \in Requests, RegisterCallback(r) PROVE CallInv(q)'
    BY <1>4 DEF RegisterCallback
  <1>5. ASSUME NEW r \in Requests, AddPending(r) PROVE CallInv(q)'
    BY <1>5 DEF AddPending
  <1>6. ASSUME NEW r \in Requests, Dispatch(r) PROVE CallInv(q)'
    <2>1. asyncCallbacks[id[r]] # 0
      BY <1>6 DEF Dispatch, BridgeInv, CallbackInv
    <2>2. QED
      BY <1>6, <2>1 DEF Dispatch
  <1>7. ASSUME NEW r \in Requests, OpReturns(r) PROVE CallInv(q)'
    BY <1>7 DEF OpReturns
  <1>8. ASSUME NEW r \in Requests, LookupCallback(r) PROVE CallInv(q)'
    BY <1>8 DEF LookupCallback
  <1>9. ASSUME NEW r \in Requests, TakePending(r) PROVE CallInv(q)'
    <2>1. pending[id[r]] \in {r, Nobody}
      BY <1>9, TakesItsOwn DEF TakePending, BridgeInv
    <2>2. QED
      BY <1>9, <2>1 DEF TakePending
  <1>10. ASSUME NEW r \in Requests, Schedule(r) PROVE CallInv(q)'
    BY <1>10 DEF Schedule
  <1>11. ASSUME NEW r \in Requests, GoroutineExits(r) PROVE CallInv(q)'
    BY <1>11 DEF GoroutineExits
  <1>12. ASSUME NEW l \in Loops, RunSettle(l) PROVE CallInv(q)'
    <2> DEFINE r == Head(ready[l]).request
    <2>1. r \in Requests /\ go[r] \in {"exiting", "gone"}
          /\ Head(ready[l]).value = op[r]
          /\ Head(ready[l]).value \in {"ok", "error"}
      BY <1>12, HeadHolds DEF RunSettle, NextReady, EntryInv, BridgeInv
    <2>2. QED
      BY <1>12, <2>1 DEF RunSettle
  <1>13. ASSUME NEW r \in Requests, CancelTask(r) PROVE CallInv(q)'
    BY <1>13 DEF CancelTask
  <1>14. ASSUME NEW l \in Loops, RunDone(l) PROVE CallInv(q)'
    <2> DEFINE r == Head(ready[l]).request
    <2>1. r \in Requests /\ future[r] \in Settled
      BY <1>14, HeadHolds DEF RunDone, NextReady, EntryInv
    <2>2. QED
      BY <1>14, <2>1 DEF RunDone
  <1>15. ASSUME NEW r \in Requests, CancelRequest(r) PROVE CallInv(q)'
    BY <1>15 DEF CancelRequest
  <1>16. ASSUME NEW r \in Requests, UnregisterCallback(r) PROVE CallInv(q)'
    BY <1>16 DEF UnregisterCallback
  <1>17. ASSUME NEW r \in Requests, UnregisterRequest(r) PROVE CallInv(q)'
    BY <1>17 DEF UnregisterRequest
  <1>18. ASSUME NEW r \in Requests, PopPending(r) PROVE CallInv(q)'
    BY <1>18 DEF PopPending
  <1>19. ASSUME NEW l \in Loops, CloseLoop(l) PROVE CallInv(q)'
    BY <1>19 DEF CloseLoop
  <1> HIDE DEF CallInv
  <1>20. QED
    BY <1>2, <1>3, <1>4, <1>5, <1>6, <1>7, <1>8, <1>9, <1>10, <1>11, <1>12,
       <1>13, <1>14, <1>15, <1>16, <1>17, <1>18, <1>19
    DEF Next, Coroutine, Goroutine, EventLoop

\* Two calls with ids have different ones, and both are in the maps' range.
LEMMA IdsDiffer ==
  ASSUME BridgeInv, NEW r \in Requests, NEW q \in Requests, r # q,
         py[r] \notin NoId, py[q] \notin NoId
  PROVE  id[r] # id[q] /\ id[r] \in CallbackIds /\ id[q] \in CallbackIds
  BY IdIsCallbackId DEF BridgeInv, IdInv

\* What has been taken out of _pending is not put there again.
LEMMA TakenStays ==
  ASSUME BridgeInv, Next, NEW q \in Requests,
         go[q] # "none", pending[id[q]] = Nobody
  PROVE  pending'[id'[q]] = Nobody
  <1>1. Typed
    BY DEF BridgeInv, TypeOK, Typed, PythonTyped, GoTyped, CallTyped, Entries
  <1>2. py[q] \notin NotBegun /\ CallInv(q)
    BY DEF BridgeInv, CallInv
  <1>3. id[q] \in CallbackIds
    BY <1>2, IdIsCallbackId DEF NotBegun
  <1> DEFINE Stays == pending'[id'[q]] = Nobody
  <1> USE <1>1, <1>2, <1>3
      DEF Typed, PythonTyped, GoTyped, CallTyped, Step, GoStep, goVars, mapVars,
          pythonVars, NoId, NotBegun
  <1>4. ASSUME UNCHANGED id,
               \/ UNCHANGED pending
               \/ \E i : pending' = [pending EXCEPT ![i] = Nobody]
        PROVE  Stays
    BY <1>4
  <1>5. ASSUME NEW r \in Requests, RegisterCallback(r) PROVE Stays
    BY <1>5 DEF RegisterCallback
  <1>6. ASSUME NEW r \in Requests, AddPending(r) PROVE Stays
    <2>1. id[r] # id[q]
      BY <1>6, IdsDiffer DEF AddPending
    <2>2. QED
      BY <1>6, <2>1 DEF AddPending
  <1> HIDE DEF Stays
  <1>7. ASSUME NEW r \in Requests,
               StartCall(r) \/ CreateCallback(r) \/ Dispatch(r) \/ CancelTask(r)
        PROVE  Stays
    BY <1>4, <1>7 DEF StartCall, CreateCallback, Dispatch, CancelTask
  <1>8. ASSUME NEW r \in Requests, Goroutine(r) PROVE Stays
    BY <1>4, <1>8
    DEF Goroutine, OpReturns, LookupCallback, TakePending, Schedule,
        GoroutineExits
  <1>9. ASSUME NEW l \in Loops, EventLoop(l) \/ CloseLoop(l) PROVE Stays
    BY <1>4, <1>9 DEF EventLoop, RunSettle, RunDone, CloseLoop
  <1>10. ASSUME NEW r \in Requests,
                \/ CancelRequest(r) \/ UnregisterCallback(r)
                \/ UnregisterRequest(r) \/ PopPending(r)
         PROVE  Stays
    BY <1>4, <1>10
    DEF CancelRequest, UnregisterCallback, UnregisterRequest, PopPending
  <1>11. Stays
    BY <1>5, <1>6, <1>7, <1>8, <1>9, <1>10 DEF Next, Coroutine
  <1>12. QED
    BY <1>11 DEF Stays

\* The goroutine takes its future before it settles it.
LEMMA TakenKept ==
  ASSUME BridgeInv, Next, NEW q \in Requests
  PROVE  TakenInv(q)'
  <1>1. Typed
    BY DEF BridgeInv, TypeOK, Typed, PythonTyped, GoTyped, CallTyped, Entries
  <1>2. CallInv(q) /\ TakenInv(q)
    BY DEF BridgeInv
  <1> USE <1>1, <1>2
      DEF Typed, PythonTyped, GoTyped, CallTyped, Step, GoStep, goVars,
          pythonVars, mapVars, Settled
  <1>3. ASSUME go'[q] = "scheduling" => go[q] = "scheduling",
               future'[q] \in {"ok", "error"} => future[q] \in {"ok", "error"}
        PROVE  TakenInv(q)'
    <2>1. go[q] = "scheduling" \/ future[q] \in {"ok", "error"} => go[q] # "none"
      BY DEF CallInv
    <2>2. QED
      BY <1>3, <2>1, TakenStays DEF TakenInv
  <1>4. ASSUME NEW r \in Requests, TakePending(r) PROVE TakenInv(q)'
    <2>1. CASE r = q
      <3>1. py[q] \notin NoId
        BY <1>4, <2>1 DEF TakePending, CallInv, NotBegun
      <3>2. id[q] \in CallbackIds
        BY <3>1, IdIsCallbackId
      <3>3. QED
        BY <1>4, <2>1, <3>2 DEF TakePending, TakenInv
    <2>2. CASE r # q
      BY <1>3, <1>4, <2>2 DEF TakePending
    <2>3. QED
      BY <2>1, <2>2
  <1>5. ASSUME NEW l \in Loops, RunSettle(l) PROVE TakenInv(q)'
    <2> DEFINE r == Head(ready[l]).request
    <2>1. r \in Requests /\ pending[id[r]] = Nobody
      BY <1>5, HeadHolds DEF RunSettle, NextReady, EntryInv
    <2>2. CASE r = q
      BY <1>5, <2>1, <2>2 DEF RunSettle, TakenInv
    <2>3. CASE r # q
      BY <1>3, <1>5, <2>1, <2>3 DEF RunSettle
    <2>4. QED
      BY <2>2, <2>3
  <1> HIDE DEF TakenInv
  <1>6. ASSUME NEW r \in Requests,
               \/ StartCall(r) \/ CreateCallback(r) \/ RegisterCallback(r)
               \/ AddPending(r) \/ Dispatch(r) \/ CancelTask(r)
        PROVE  TakenInv(q)'
    BY <1>3, <1>6
    DEF StartCall, CreateCallback, RegisterCallback, AddPending, Dispatch,
        CancelTask
  <1>7. ASSUME NEW r \in Requests,
               \/ OpReturns(r) \/ LookupCallback(r) \/ Schedule(r)
               \/ GoroutineExits(r)
        PROVE  TakenInv(q)'
    BY <1>3, <1>7 DEF OpReturns, LookupCallback, Schedule, GoroutineExits
  <1>8. ASSUME NEW l \in Loops, RunDone(l) \/ CloseLoop(l) PROVE TakenInv(q)'
    BY <1>3, <1>8 DEF RunDone, CloseLoop
  <1>9. ASSUME NEW r \in Requests,
               \/ CancelRequest(r) \/ UnregisterCallback(r)
               \/ UnregisterRequest(r) \/ PopPending(r)
        PROVE  TakenInv(q)'
    BY <1>3, <1>9
    DEF CancelRequest, UnregisterCallback, UnregisterRequest, PopPending
  <1>10. QED
    BY <1>4, <1>5, <1>6, <1>7, <1>8, <1>9 DEF Next, Coroutine, Goroutine, EventLoop

\* The callback object is kept until the call is dispatched.
LEMMA CallbackKept ==
  ASSUME BridgeInv, Next, NEW q \in Requests
  PROVE  CallbackInv(q)'
  <1>1. Typed
    BY DEF BridgeInv, TypeOK, Typed, PythonTyped, GoTyped, CallTyped, Entries
  <1>2. IdInv /\ CallbackInv(q)
    BY DEF BridgeInv
  <1>3. py[q] \notin NoId => id[q] \in CallbackIds /\ id[q] <= nextCallbackID
    BY IdIsCallbackId
  <1> USE BridgeAssumption, <1>1, <1>2, <1>3
      DEF Typed, PythonTyped, GoTyped, CallTyped, Step, GoStep, goVars, mapVars,
          pythonVars, CallbackInv, NoId
  <1>4. ASSUME NEW r \in Requests, StartCall(r) PROVE CallbackInv(q)'
    BY <1>4 DEF StartCall
  <1>5. ASSUME NEW r \in Requests, CreateCallback(r) PROVE CallbackInv(q)'
    BY <1>5 DEF CreateCallback
  <1>6. ASSUME NEW r \in Requests, RegisterCallback(r) PROVE CallbackInv(q)'
    <2>1. r # q /\ py[q] \notin NoId => id[q] # nextCallbackID + 1
      BY <1>3 DEF GoTyped
    <2>2. nextCallbackID + 1 \in CallbackIds
      BY <1>6 DEF RegisterCallback, CallbackIds
    <2>3. CASE r = q
      BY <1>6, <2>2, <2>3 DEF RegisterCallback
    <2>4. CASE r # q
      BY <1>6, <2>1, <2>4 DEF RegisterCallback
    <2>5. QED
      BY <2>3, <2>4
  <1>7. ASSUME NEW r \in Requests, AddPending(r) PROVE CallbackInv(q)'
    BY <1>7 DEF AddPending
  <1>8. ASSUME NEW r \in Requests, Dispatch(r) PROVE CallbackInv(q)'
    BY <1>8 DEF Dispatch
  <1>9. ASSUME NEW r \in Requests, OpReturns(r) PROVE CallbackInv(q)'
    BY <1>9 DEF OpReturns
  <1>10. ASSUME NEW r \in Requests, LookupCallback(r) PROVE CallbackInv(q)'
    BY <1>10 DEF LookupCallback
  <1>11. ASSUME NEW r \in Requests, TakePending(r) PROVE CallbackInv(q)'
    BY <1>11 DEF TakePending
  <1>12. ASSUME NEW r \in Requests, Schedule(r) PROVE CallbackInv(q)'
    BY <1>12 DEF Schedule
  <1>13. ASSUME NEW r \in Requests, GoroutineExits(r) PROVE CallbackInv(q)'
    BY <1>13 DEF GoroutineExits
  <1>14. ASSUME NEW l \in Loops, RunSettle(l) PROVE CallbackInv(q)'
    BY <1>14 DEF RunSettle
  <1>15. ASSUME NEW r \in Requests, CancelTask(r) PROVE CallbackInv(q)'
    BY <1>15 DEF CancelTask
  <1>16. ASSUME NEW l \in Loops, RunDone(l) PROVE CallbackInv(q)'
    BY <1>16 DEF RunDone
  <1>17. ASSUME NEW r \in Requests, CancelRequest(r) PROVE CallbackInv(q)'
    BY <1>17 DEF CancelRequest
  <1>18. ASSUME NEW r \in Requests, UnregisterCallback(r) PROVE CallbackInv(q)'
    <2>1. r # q /\ py[q] \notin NoId => id[r] # id[q]
      BY <1>18, IdsDiffer DEF UnregisterCallback
    <2>2. QED
      BY <1>18, <2>1 DEF UnregisterCallback
  <1>19. ASSUME NEW r \in Requests, UnregisterRequest(r) PROVE CallbackInv(q)'
    BY <1>19 DEF UnregisterRequest
  <1>20. ASSUME NEW r \in Requests, PopPending(r) PROVE CallbackInv(q)'
    BY <1>20 DEF PopPending
  <1>21. ASSUME NEW l \in Loops, CloseLoop(l) PROVE CallbackInv(q)'
    BY <1>21 DEF CloseLoop
  <1>22. QED
    BY <1>4, <1>5, <1>6, <1>7, <1>8, <1>9, <1>10, <1>11, <1>12, <1>13, <1>14, <1>15, <1>16, <1>17, <1>18, <1>19, <1>20, <1>21
    DEF Next, Coroutine, Goroutine, EventLoop

\* What a cancellation undoes stays undone.
LEMMA CancelKept ==
  ASSUME BridgeInv, Next, NEW q \in Requests
  PROVE  CancelInv(q)'
  <1>1. Typed
    BY DEF BridgeInv, TypeOK, Typed, PythonTyped, GoTyped, CallTyped, Entries
  <1>2. IdInv /\ CancelInv(q) /\ CallInv(q)
    BY DEF BridgeInv
  <1>3. py[q] \notin NoId => id[q] \in CallbackIds /\ id[q] <= nextCallbackID
    BY IdIsCallbackId
  <1> USE BridgeAssumption, <1>1, <1>2, <1>3
      DEF Typed, PythonTyped, GoTyped, CallTyped, Step, GoStep, goVars, mapVars,
          pythonVars, CancelInv, Undoing, NoId
  <1>4. ASSUME NEW r \in Requests, StartCall(r) PROVE CancelInv(q)'
    BY <1>4 DEF StartCall
  <1>5. ASSUME NEW r \in Requests, CreateCallback(r) PROVE CancelInv(q)'
    BY <1>5 DEF CreateCallback
  <1>6. ASSUME NEW r \in Requests, RegisterCallback(r) PROVE CancelInv(q)'
    BY <1>6 DEF RegisterCallback
  <1>7. ASSUME NEW r \in Requests, AddPending(r) PROVE CancelInv(q)'
    <2>1. r # q /\ py[q] \notin NoId => id[r] # id[q]
      BY <1>7, IdsDiffer DEF AddPending
    <2>2. CASE r = q
      BY <1>7, <2>2 DEF AddPending, CallInv, NotBegun
    <2>3. CASE r # q
      BY <1>7, <2>1, <2>3 DEF AddPending
    <2>4. QED
      BY <2>2, <2>3
  <1>8. ASSUME NEW r \in Requests, Dispatch(r) PROVE CancelInv(q)'
    <2>1. r # q /\ py[q] \notin NoId => id[r] # id[q]
      BY <1>8, IdsDiffer DEF Dispatch
    <2>2. asyncCallbacks[id[r]] # 0 /\ id[r] \in CallbackIds
      BY <1>8, IdIsCallbackId DEF Dispatch, BridgeInv, CallbackInv
    <2>3. QED
      BY <1>8, <2>1, <2>2 DEF Dispatch
  <1>9. ASSUME NEW r \in Requests, OpReturns(r) PROVE CancelInv(q)'
    BY <1>9 DEF OpReturns
  <1>10. ASSUME NEW r \in Requests, LookupCallback(r) PROVE CancelInv(q)'
    BY <1>10 DEF LookupCallback
  <1>11. ASSUME NEW r \in Requests, TakePending(r) PROVE CancelInv(q)'
    BY <1>11 DEF TakePending
  <1>12. ASSUME NEW r \in Requests, Schedule(r) PROVE CancelInv(q)'
    BY <1>12 DEF Schedule
  <1>13. ASSUME NEW r \in Requests, GoroutineExits(r) PROVE CancelInv(q)'
    <2>1. py[r] \notin NoId /\ (r # q /\ py[q] \notin NoId => id[r] # id[q])
      BY <1>13, IdsDiffer DEF GoroutineExits, BridgeInv, CallInv, NotBegun
    <2>2. QED
      BY <1>13, <2>1 DEF GoroutineExits
  <1>14. ASSUME NEW l \in Loops, RunSettle(l) PROVE CancelInv(q)'
    <2> DEFINE r == Head(ready[l]).request
    <2>1. r \in Requests /\ (py[r] = "finished" => future[r] \in Settled)
      BY <1>14, HeadHolds DEF RunSettle, NextReady, BridgeInv, CallInv
    <2>2. \/ UNCHANGED future
          \/ /\ future[r] = "pending"
             /\ future' = [future EXCEPT ![r] = Head(ready[l]).value]
      BY <1>14 DEF RunSettle
    <2>3. py[q] = "finished" => UNCHANGED future[q]
      BY <2>1, <2>2 DEF Settled
    <2>4. UNCHANGED <<py, go, id, ctxDone, asyncCallbacks, activeRequests, pending>>
      BY <1>14 DEF RunSettle
    <2>5. QED
      BY <2>3, <2>4
  <1>15. ASSUME NEW r \in Requests, CancelTask(r) PROVE CancelInv(q)'
    BY <1>15 DEF CancelTask
  <1>16. ASSUME NEW l \in Loops, RunDone(l) PROVE CancelInv(q)'
    BY <1>16 DEF RunDone
  <1>17. ASSUME NEW r \in Requests, CancelRequest(r) PROVE CancelInv(q)'
    <2>1. py[r] \notin NoId /\ (r # q /\ py[q] \notin NoId => id[r] # id[q])
      BY <1>17, IdsDiffer DEF CancelRequest
    <2>2. CASE r # q
      BY <1>17, <2>1, <2>2 DEF CancelRequest
    <2>3. CASE r = q
      <3>1. py[q] = "cancel" /\ py'[q] = "unregister" /\ activeRequests'[id[q]] = Nobody
        BY <1>17, <2>3 DEF CancelRequest
      <3>2. go[q] = "gone" => q \in ctxDone
        BY <1>2
      <3>3. go[q] # "gone" => activeRequests[id[q]] = q
        BY <1>2, <3>1
      <3>4. q \in ctxDone'
        BY <1>17, <2>3, <3>2, <3>3 DEF CancelRequest
      <3>5. UNCHANGED <<id, go, future>>
        BY <1>17 DEF CancelRequest
      <3>6. QED
        BY <3>1, <3>4, <3>5
    <2>4. QED
      BY <2>2, <2>3
  <1>18. ASSUME NEW r \in Requests, UnregisterCallback(r) PROVE CancelInv(q)'
    BY <1>18 DEF UnregisterCallback
  <1>19. ASSUME NEW r \in Requests, UnregisterRequest(r) PROVE CancelInv(q)'
    <2>1. py[r] \notin NoId /\ (r # q /\ py[q] \notin NoId => id[r] # id[q])
      BY <1>19, IdsDiffer DEF UnregisterRequest
    <2>2. CASE r # q
      BY <1>19, <2>1, <2>2 DEF UnregisterRequest
    <2>3. CASE r = q
      <3>1. /\ py[q] = "unregister2" /\ py'[q] = "pop"
            /\ activeRequests'[id[q]] = Nobody
        BY <1>19, <2>3 DEF UnregisterRequest
      <3>2. UNCHANGED <<id, go, future, ctxDone, asyncCallbacks, pending>>
        BY <1>19 DEF UnregisterRequest
      <3>3. QED
        BY <1>2, <3>1, <3>2
    <2>4. QED
      BY <2>2, <2>3
  <1>20. ASSUME NEW r \in Requests, PopPending(r) PROVE CancelInv(q)'
    BY <1>20 DEF PopPending
  <1>21. ASSUME NEW l \in Loops, CloseLoop(l) PROVE CancelInv(q)'
    BY <1>21 DEF CloseLoop
  <1>22. QED
    BY <1>4, <1>5, <1>6, <1>7, <1>8, <1>9, <1>10, <1>11, <1>12, <1>13, <1>14, <1>15, <1>16, <1>17, <1>18, <1>19, <1>20, <1>21
    DEF Next, Coroutine, Goroutine, EventLoop

\* An entry is made under the id of its call, and the goroutine takes its own
\* away.
LEMMA MapsKept ==
  ASSUME BridgeInv, Next
  PROVE  MapsInv'
  <1>1. Typed
    BY DEF BridgeInv, TypeOK, Typed, PythonTyped, GoTyped, CallTyped, Entries
  <1>2. IdInv /\ MapsInv
    BY DEF BridgeInv
  <1>3. \A q \in Requests :
          py[q] \notin NoId => id[q] \in CallbackIds /\ id[q] <= nextCallbackID
    BY IdIsCallbackId
  <1> USE BridgeAssumption, <1>1, <1>2, <1>3
      DEF Typed, PythonTyped, GoTyped, CallTyped, Step, GoStep, goVars, mapVars,
          pythonVars, MapsInv, NoId
  <1>4. ASSUME NEW r \in Requests, StartCall(r) PROVE MapsInv'
    BY <1>4 DEF StartCall
  <1>5. ASSUME NEW r \in Requests, CreateCallback(r) PROVE MapsInv'
    BY <1>5 DEF CreateCallback
  <1>6. ASSUME NEW r \in Requests, RegisterCallback(r) PROVE MapsInv'
    BY <1>6 DEF RegisterCallback
  <1>7. ASSUME NEW r \in Requests, AddPending(r) PROVE MapsInv'
    BY <1>7 DEF AddPending
  <1>8. ASSUME NEW r \in Requests, Dispatch(r) PROVE MapsInv'
    BY <1>8 DEF Dispatch
  <1>9. ASSUME NEW r \in Requests, OpReturns(r) PROVE MapsInv'
    BY <1>9 DEF OpReturns
  <1>10. ASSUME NEW r \in Requests, LookupCallback(r) PROVE MapsInv'
    BY <1>10 DEF LookupCallback
  <1>11. ASSUME NEW r \in Requests, TakePending(r) PROVE MapsInv'
    BY <1>11 DEF TakePending
  <1>12. ASSUME NEW r \in Requests, Schedule(r) PROVE MapsInv'
    BY <1>12 DEF Schedule
  <1>13. ASSUME NEW r \in Requests, GoroutineExits(r) PROVE MapsInv'
    BY <1>13 DEF GoroutineExits
  <1>14. ASSUME NEW l \in Loops, RunSettle(l) PROVE MapsInv'
    BY <1>14 DEF RunSettle
  <1>15. ASSUME NEW r \in Requests, CancelTask(r) PROVE MapsInv'
    BY <1>15 DEF CancelTask
  <1>16. ASSUME NEW l \in Loops, RunDone(l) PROVE MapsInv'
    BY <1>16 DEF RunDone
  <1>17. ASSUME NEW r \in Requests, CancelRequest(r) PROVE MapsInv'
    BY <1>17 DEF CancelRequest
  <1>18. ASSUME NEW r \in Requests, UnregisterCallback(r) PROVE MapsInv'
    BY <1>18 DEF UnregisterCallback
  <1>19. ASSUME NEW r \in Requests, UnregisterRequest(r) PROVE MapsInv'
    BY <1>19 DEF UnregisterRequest
  <1>20. ASSUME NEW r \in Requests, PopPending(r) PROVE MapsInv'
    BY <1>20 DEF PopPending
  <1>21. ASSUME NEW l \in Loops, CloseLoop(l) PROVE MapsInv'
    BY <1>21 DEF CloseLoop
  <1>22. QED
    BY <1>4, <1>5, <1>6, <1>7, <1>8, <1>9, <1>10, <1>11, <1>12, <1>13, <1>14, <1>15, <1>16, <1>17, <1>18, <1>19, <1>20, <1>21
    DEF Next, Coroutine, Goroutine, EventLoop

\* What a queued callback relies on lasts: a settled future stays settled, a
\* goroutine that has scheduled ends, and its operation has its outcome.
LEMMA EntryLasts ==
  ASSUME BridgeInv, Next, NEW e \in Entries, EntryInv(e)
  PROVE  EntryNext(e)
  <1>1. CallTyped /\ e.request \in Requests
    BY DEF BridgeInv, TypeOK, CallTyped, Entries
  <1> DEFINE q == e.request
  <1>2. SUFFICES /\ future[q] \in Settled => future'[q] \in Settled
                 /\ go[q] \in {"exiting", "gone"} =>
                      go'[q] \in {"exiting", "gone"} /\ op'[q] = op[q]
                 /\ go[q] \in {"exiting", "gone"} /\ pending[id[q]] = Nobody =>
                      pending'[id'[q]] = Nobody
    BY DEF EntryInv, EntryNext
  <1>3. CallInv(q)
    BY <1>1 DEF BridgeInv
  <1> DEFINE Lasts == /\ future[q] \in Settled => future'[q] \in Settled
                      /\ go[q] \in {"exiting", "gone"} =>
                           go'[q] \in {"exiting", "gone"} /\ op'[q] = op[q]
  <1> USE <1>1, <1>3 DEF CallTyped, Step, GoStep, goVars, pythonVars, Settled
  <1>4. ASSUME UNCHANGED <<future, go, op>> PROVE Lasts
    BY <1>4
  <1>5. ASSUME NEW r \in Requests, AddPending(r) PROVE Lasts
    BY <1>5 DEF AddPending, CallInv, NoId
  <1>6. ASSUME NEW r \in Requests, Dispatch(r) PROVE Lasts
    BY <1>6 DEF Dispatch, CallInv, NotBegun
  <1>7. ASSUME NEW r \in Requests, OpReturns(r) PROVE Lasts
    BY <1>7 DEF OpReturns
  <1>8. ASSUME NEW r \in Requests, LookupCallback(r) PROVE Lasts
    BY <1>8 DEF LookupCallback
  <1>9. ASSUME NEW r \in Requests, TakePending(r) PROVE Lasts
    BY <1>9 DEF TakePending
  <1>10. ASSUME NEW r \in Requests, Schedule(r) PROVE Lasts
    BY <1>10 DEF Schedule
  <1>11. ASSUME NEW r \in Requests, GoroutineExits(r) PROVE Lasts
    BY <1>11 DEF GoroutineExits
  <1>12. ASSUME NEW l \in Loops, RunSettle(l) PROVE Lasts
    BY <1>12 DEF RunSettle
  <1>13. ASSUME NEW r \in Requests, CancelTask(r) PROVE Lasts
    BY <1>13 DEF CancelTask
  <1> HIDE DEF Lasts
  <1>14. ASSUME NEW r \in Requests,
                \/ StartCall(r) \/ CreateCallback(r) \/ RegisterCallback(r)
                \/ CancelRequest(r) \/ UnregisterCallback(r)
                \/ UnregisterRequest(r) \/ PopPending(r)
         PROVE  Lasts
    BY <1>4, <1>14
    DEF StartCall, CreateCallback, RegisterCallback, CancelRequest,
        UnregisterCallback, UnregisterRequest, PopPending
  <1>15. ASSUME NEW l \in Loops, RunDone(l) \/ CloseLoop(l) PROVE Lasts
    BY <1>4, <1>15 DEF RunDone, CloseLoop
  <1>16. Lasts
    BY <1>5, <1>6, <1>7, <1>8, <1>9, <1>10, <1>11, <1>12, <1>13, <1>14, <1>15
    DEF Next, Coroutine, Goroutine, EventLoop
  <1>17. go[q] \in {"exiting", "gone"} /\ pending[id[q]] = Nobody =>
           pending'[id'[q]] = Nobody
    BY TakenStays
  <1>18. QED
    BY <1>16, <1>17 DEF Lasts

\* What is in a queue was there before, or has been put there by the goroutine
\* of a call of its event loop, or with the future of one settled.
LEMMA QueueMoves ==
  ASSUME BridgeInv, Next, NEW l \in Loops, NEW n \in 1..Len(ready'[l])
  PROVE  \/ \E m \in 1..Len(ready[l]) : ready'[l][n] = ready[l][m]
         \/ EntryNext(ready'[l][n]) /\ LoopOf[ready'[l][n].request] = l
  <1>1. PythonTyped /\ CallTyped
    BY DEF BridgeInv, TypeOK, PythonTyped, CallTyped, Entries
  <1>2. ready[l] \in Seq(Entries)
    BY <1>1 DEF PythonTyped
  <1> DEFINE Moved == \/ \E m \in 1..Len(ready[l]) : ready'[l][n] = ready[l][m]
                      \/ /\ EntryNext(ready'[l][n])
                         /\ LoopOf[ready'[l][n].request] = l
  <1>3. ASSUME ready'[l] = ready[l] PROVE Moved
    BY <1>3
  <1>4. ASSUME NEW e \in Entries, ready'[l] = Append(ready[l], e), EntryNext(e),
               LoopOf[e.request] = l
        PROVE  Moved
    <2>1. ready'[l][n] = e \/ \E m \in 1..Len(ready[l]) : ready'[l][n] = ready[l][m]
      BY <1>2, <1>4, AppendIsQueued
    <2>2. CASE ready'[l][n] = e
      BY <1>4, <2>2
    <2>3. QED
      BY <2>1, <2>2
  <1>5. ASSUME ready[l] # <<>>, ready'[l] = Tail(ready[l]) PROVE Moved
    BY <1>2, <1>5, TailIsQueued
  <1>6. ASSUME NEW r \in Requests, Schedule(r) PROVE Moved
    <2> DEFINE e == [what |-> "settle", request |-> held[r], value |-> op[r]]
    <2>1. held[r] = r /\ op[r] \in {"ok", "error"}
      BY <1>6 DEF Schedule, GoStep, BridgeInv, CallInv
    <2>2. e \in Entries
      BY <2>1 DEF Entries
    <2>3. /\ go'[r] = "exiting" /\ op'[r] = op[r]
          /\ pending'[id'[r]] = Nobody
      BY <1>1, <1>6
      DEF Schedule, GoStep, CallTyped, mapVars, BridgeInv, TakenInv
    <2>4. EntryNext(e)
      BY <1>6, <2>1, <2>3 DEF EntryNext
    <2>5. \/ ready'[l] = ready[l]
          \/ ready'[l] = Append(ready[l], e) /\ LoopOf[e.request] = l
      BY <1>1, <1>6 DEF Schedule, CallSoon, PythonTyped
    <2>6. QED
      BY <1>3, <1>4, <2>2, <2>4, <2>5
  <1>7. ASSUME NEW r \in Requests, CancelTask(r) PROVE Moved
    <2> DEFINE e == [what |-> "done", request |-> r, value |-> "none"]
    <2>1. e \in Entries
      BY DEF Entries
    <2>2. EntryNext(e)
      BY <1>1, <1>7 DEF CancelTask, EntryNext, Settled, CallTyped
    <2>3. \/ ready'[l] = ready[l]
          \/ ready'[l] = Append(ready[l], e) /\ LoopOf[e.request] = l
      BY <1>1, <1>7 DEF CancelTask, CallSoon, PythonTyped
    <2>4. QED
      BY <1>3, <1>4, <2>1, <2>2, <2>3
  <1>8. ASSUME NEW k \in Loops, RunSettle(k) PROVE Moved
    <2> DEFINE r == Head(ready[k]).request
               e == [what |-> "done", request |-> r, value |-> "none"]
    <2>1. /\ r \in Requests /\ LoopOf[r] = k /\ ready[k] # <<>>
          /\ Head(ready[k]).value \in {"ok", "error"}
      BY <1>8, HeadHolds DEF RunSettle, NextReady, EntryInv, BridgeInv, CallInv
    <2>2. e \in Entries
      BY <2>1 DEF Entries
    <2>3. CASE k = l /\ future[r] = "pending"
      <3>1. ready'[l] = Append(Tail(ready[l]), e)
        BY <1>1, <1>8, <2>3 DEF RunSettle, PythonTyped
      <3>2. EntryNext(e)
        BY <1>1, <1>8, <2>1, <2>3 DEF RunSettle, EntryNext, Settled, CallTyped
      <3>3. Tail(ready[l]) \in Seq(Entries)
        BY <1>2, <2>1, <2>3, TailIsQueued
      <3>4. \/ ready'[l][n] = e
            \/ \E m \in 1..Len(Tail(ready[l])) : ready'[l][n] = Tail(ready[l])[m]
        BY <2>2, <3>1, <3>3, AppendIsQueued
      <3>5. ready'[l][n] = e \/ \E m \in 1..Len(ready[l]) : ready'[l][n] = ready[l][m]
        BY <1>2, <2>1, <2>3, <3>4, TailIsQueued
      <3>6. QED
        BY <2>1, <2>3, <3>2, <3>5
    <2>4. CASE k = l /\ future[r] # "pending"
      <3>1. ready'[l] = Tail(ready[l])
        BY <1>1, <1>8, <2>4 DEF RunSettle, PythonTyped
      <3>2. QED
        BY <1>5, <2>1, <2>4, <3>1
    <2>5. CASE k # l
      BY <1>1, <1>3, <1>8, <2>5 DEF RunSettle, PythonTyped
    <2>6. QED
      BY <2>3, <2>4, <2>5
  <1>9. ASSUME NEW k \in Loops, RunDone(k) PROVE Moved
    <2>1. CASE k = l
      BY <1>1, <1>5, <1>9, <2>1 DEF RunDone, NextReady, PythonTyped
    <2>2. CASE k # l
      BY <1>1, <1>3, <1>9, <2>2 DEF RunDone, PythonTyped
    <2>3. QED
      BY <2>1, <2>2
  <1>10. ASSUME NEW k \in Loops, CloseLoop(k) PROVE Moved
    <2>1. CASE k = l
      <3>1. ready'[l] = <<>>
        BY <1>1, <1>10, <2>1 DEF CloseLoop, PythonTyped
      <3>2. QED
        BY <3>1
    <2>2. CASE k # l
      BY <1>1, <1>3, <1>10, <2>2 DEF CloseLoop, PythonTyped
    <2>3. QED
      BY <2>1, <2>2
  <1> HIDE DEF Moved
  <1>11. ASSUME NEW r \in Requests,
                \/ StartCall(r) \/ CreateCallback(r) \/ RegisterCallback(r)
                \/ AddPending(r) \/ Dispatch(r)
         PROVE  Moved
    BY <1>3, <1>11
    DEF StartCall, CreateCallback, RegisterCallback, AddPending, Dispatch
  <1>12. ASSUME NEW r \in Requests,
                \/ OpReturns(r) \/ LookupCallback(r) \/ TakePending(r)
                \/ GoroutineExits(r)
         PROVE  Moved
    BY <1>3, <1>12
    DEF OpReturns, LookupCallback, TakePending, GoroutineExits, pythonVars
  <1>13. ASSUME NEW r \in Requests,
                \/ CancelRequest(r) \/ UnregisterCallback(r)
                \/ UnregisterRequest(r) \/ PopPending(r)
         PROVE  Moved
    BY <1>3, <1>13
    DEF CancelRequest, UnregisterCallback, UnregisterRequest, PopPending
  <1>14. Moved
    BY <1>6, <1>7, <1>8, <1>9, <1>10, <1>11, <1>12, <1>13
    DEF Next, Coroutine, Goroutine, EventLoop
  <1>15. QED
    BY <1>14 DEF Moved

LEMMA QueueKept ==
  ASSUME BridgeInv, Next
  PROVE  QueueInv'
  <1> SUFFICES ASSUME NEW l \in Loops, NEW n \in 1..Len(ready'[l])
               PROVE  /\ EntryNext(ready'[l][n])
                      /\ LoopOf[ready'[l][n].request] = l
    BY DEF QueueInv, EntryInv, EntryNext
  <1>1. CASE \E m \in 1..Len(ready[l]) : ready'[l][n] = ready[l][m]
    <2>1. PICK m \in 1..Len(ready[l]) : ready'[l][n] = ready[l][m]
      BY <1>1
    <2>2. ready[l][m] \in Entries
      BY ElementOfSeq DEF BridgeInv, TypeOK, Entries
    <2>3. EntryInv(ready[l][m]) /\ LoopOf[ready[l][m].request] = l
      BY DEF BridgeInv, QueueInv
    <2>4. EntryNext(ready[l][m])
      BY <2>2, <2>3, EntryLasts
    <2>5. QED
      BY <2>1, <2>3, <2>4
  <1>2. QED
    BY <1>1, QueueMoves

-----------------------------------------------------------------------------

LEMMA BridgeStarts == Init => BridgeInv
  <1> SUFFICES ASSUME Init PROVE BridgeInv
    OBVIOUS
  <1> USE BridgeAssumption DEF Init
  <1>1. TypeOK
    <2>1. <<>> \in Seq([what : {"settle", "done"}, request : Requests,
                        value : {"none", "ok", "error"}])
      OBVIOUS
    <2>2. QED
      BY <2>1 DEF TypeOK, CallbackIds, Settled
  <1>2. IdInv /\ MapsInv
    BY DEF IdInv, MapsInv, NoId
  <1>3. \A r \in Requests :
          CallInv(r) /\ TakenInv(r) /\ CallbackInv(r) /\ CancelInv(r)
    BY DEF CallInv, TakenInv, CallbackInv, CancelInv, Undoing, NoId, NotBegun,
           Settled
  <1>4. QueueInv
    <2>1. \A l \in Loops : 1..Len(ready[l]) = {}
      OBVIOUS
    <2>2. QED
      BY <2>1 DEF QueueInv
  <1>5. QED
    BY <1>1, <1>2, <1>3, <1>4 DEF BridgeInv

LEMMA BridgeStutters ==
  ASSUME BridgeInv, UNCHANGED bridgeVars
  PROVE  BridgeInv'
  <1> USE DEF bridgeVars, BridgeInv
  <1>1. TypeOK' /\ IdInv' /\ MapsInv'
    BY DEF TypeOK, IdInv, MapsInv
  <1>2. \A r \in Requests :
          CallInv(r)' /\ TakenInv(r)' /\ CallbackInv(r)' /\ CancelInv(r)'
    BY DEF CallInv, TakenInv, CallbackInv, CancelInv, Undoing
  <1>3. QueueInv'
    BY DEF QueueInv, EntryInv
  <1>4. QED
    BY <1>1, <1>2, <1>3

\* An id names one call, and its coroutine, goroutine, map entries and queued
\* callbacks agree on how far it is.
THEOREM BridgeKept == Spec => []BridgeInv
  <1>1. BridgeInv /\ [Next]_bridgeVars => BridgeInv'
    <2> SUFFICES ASSUME BridgeInv, [Next]_bridgeVars PROVE BridgeInv'
      OBVIOUS
    <2>1. CASE Next
      <3>1. \A r \in Requests :
              CallInv(r)' /\ TakenInv(r)' /\ CallbackInv(r)' /\ CancelInv(r)'
        BY <2>1, CallKept, TakenKept, CallbackKept, CancelKept
      <3>2. TypeOK'
        <4>1. Typed'
          BY <2>1, TypedKept
        <4>2. \A r \in Requests : go'[r] = "scheduling" => held'[r] = r
          BY <3>1 DEF CallInv
        <4>3. QED
          BY <4>1, <4>2
          DEF Typed, PythonTyped, GoTyped, CallTyped, TypeOK, Entries
      <3>3. IdInv' /\ MapsInv' /\ QueueInv'
        BY <2>1, IdKept, MapsKept, QueueKept
      <3>4. QED
        BY <3>1, <3>2, <3>3 DEF BridgeInv
    <2>2. CASE UNCHANGED bridgeVars
      BY <2>2, BridgeStutters
    <2>3. QED
      BY <2>1, <2>2
  <1>2. QED
    BY <1>1, BridgeStarts, PTL DEF Spec

\* Every variable keeps its type: a goroutine that settles a future has one
\* (the pop of _on_callback).
THEOREM TypeCorrect == Spec => []TypeOK
  <1>1. BridgeInv => TypeOK
    BY DEF BridgeInv
  <1>2. QED
    BY <1>1, BridgeKept, PTL

\* A call that ended as cancelled has had the context of its operation cancelled
\* (GPMC_CancelRequest), unless the operation had returned before.
THEOREM CancellationReaches == Spec => []CancelReachesContext
  <1>1. BridgeInv => CancelReachesContext
    BY DEF BridgeInv, CallInv, CancelInv, Undoing, Settled, Ending,
           CancelReachesContext
  <1>2. QED
    BY <1>1, BridgeKept, PTL

\* However a call ends, activeRequests and _pending have no entry of it when its
\* goroutine is gone, and after the done callback of a cancelled future
\* asyncCallbacks has none (_on_future_done, dispatchAsync).
THEOREM OnlyCallbackIsLeft == Spec => []EndedLeavesOnlyCallback
  <1>1. BridgeInv => EndedLeavesOnlyCallback
    <2> SUFFICES ASSUME BridgeInv, NEW r \in Requests, py[r] = "finished",
                        go[r] = "gone"
                 PROVE  /\ activeRequests[id[r]] = Nobody
                        /\ pending[id[r]] = Nobody
                        /\ future[r] = "cancelled" => asyncCallbacks[id[r]] = 0
      BY DEF EndedLeavesOnlyCallback
    <2>1. activeRequests[id[r]] \in {r, Nobody} /\ id[r] \in CallbackIds
      BY TakesItsOwn, IdIsCallbackId DEF NoId
    <2>2. activeRequests[id[r]] # r
      BY <2>1, BridgeAssumption DEF BridgeInv, MapsInv
    <2>3. pending[id[r]] = Nobody
      BY DEF BridgeInv, CallInv, TakenInv, CancelInv, Undoing, Settled
    <2>4. future[r] = "cancelled" => asyncCallbacks[id[r]] = 0
      BY DEF BridgeInv, CancelInv, Undoing
    <2>5. QED
      BY <2>1, <2>2, <2>3, <2>4
  <1>2. QED
    BY <1>1, BridgeKept, PTL

\* A cancel function in activeRequests is that of a goroutine that runs, under
\* the id of its call.
THEOREM ActiveRuns == Spec => []ActiveIsRunning
  <1>1. BridgeInv => ActiveIsRunning
    BY DEF BridgeInv, MapsInv, ActiveIsRunning
  <1>2. QED
    BY <1>1, BridgeKept, PTL

-----------------------------------------------------------------------------
(* The callback object.                                                    *)

\* No step of a call takes an event loop that is in another call's code.
LEMMA LoopKept ==
  ASSUME BridgeInv, LoopInv, Next
  PROVE  LoopInv'
  <1>1. PythonTyped /\ CallTyped
    BY DEF BridgeInv, TypeOK, PythonTyped, CallTyped, Entries
  <1> USE BridgeAssumption, <1>1
      DEF PythonTyped, CallTyped, Step, GoStep, Yield, Busy, goVars, pythonVars,
          LoopInv, Busied
  <1> DEFINE Quiet == py' = py /\ running' = running
  <1>2. ASSUME Quiet PROVE LoopInv'
    BY <1>2
  <1>3. ASSUME NEW r \in Requests, NEW from \in Busied, NEW to,
               Step(r, from, to), UNCHANGED running
        PROVE  LoopInv'
    BY <1>3
  <1>4. ASSUME NEW r \in Requests, NEW from \in Busied, NEW to,
               Step(r, from, to), to \notin Busied, Yield(r)
        PROVE  LoopInv'
    BY <1>4
  <1>5. ASSUME NEW r \in Requests, NEW from, NEW to,
               Step(r, from, to), Busy(r), running[LoopOf[r]] = Nobody
        PROVE  LoopInv'
    BY <1>5
  <1>6. ASSUME NEW r \in Requests, StartCall(r) PROVE LoopInv'
    BY <1>5, <1>6 DEF StartCall, IsFree
  <1>7. ASSUME NEW l \in Loops, RunDone(l) PROVE LoopInv'
    <2>1. PICK r \in Requests : Head(ready[l]).request = r /\ LoopOf[r] = l
      BY <1>7, HeadHolds DEF RunDone, NextReady
    <2>2. CASE future[r] = "cancelled"
      <3>1. /\ Step(r, "await", "cancel") /\ Busy(r)
            /\ running[LoopOf[r]] = Nobody
        BY <1>7, <2>1, <2>2 DEF RunDone, NextReady, IsFree
      <3>2. QED
        BY <1>5, <3>1
    <2>3. CASE future[r] # "cancelled"
      BY <1>7, <2>1, <2>3 DEF RunDone
    <2>4. QED
      BY <2>2, <2>3
  <1> HIDE DEF LoopInv
  <1>8. ASSUME NEW r \in Requests,
               \/ CreateCallback(r) \/ RegisterCallback(r) \/ AddPending(r)
               \/ CancelRequest(r) \/ UnregisterCallback(r)
               \/ UnregisterRequest(r)
        PROVE  LoopInv'
    BY <1>3, <1>8
    DEF CreateCallback, RegisterCallback, AddPending, CancelRequest,
        UnregisterCallback, UnregisterRequest
  <1>9. ASSUME NEW r \in Requests, Dispatch(r) \/ PopPending(r) PROVE LoopInv'
    BY <1>4, <1>9 DEF Dispatch, PopPending
  <1>10. ASSUME NEW r \in Requests, CancelTask(r) \/ Goroutine(r) PROVE LoopInv'
    BY <1>2, <1>10
    DEF CancelTask, Goroutine, OpReturns, LookupCallback, TakePending, Schedule,
        GoroutineExits
  <1>11. ASSUME NEW l \in Loops, RunSettle(l) \/ CloseLoop(l) PROVE LoopInv'
    BY <1>2, <1>11 DEF RunSettle, CloseLoop
  <1>12. QED
    BY <1>6, <1>7, <1>8, <1>9, <1>10, <1>11 DEF Next, Coroutine, EventLoop

\* An object is made when there is none: nobody else is about to make one, no
\* callback is registered and none is being called.
LEMMA ObjectKept ==
  ASSUME ~FirstUse \/ OneLoopOnly, BridgeInv, LoopInv, ObjectInv, Next
  PROVE  ObjectInv'
  <1>1. PythonTyped /\ GoTyped /\ CallTyped
    BY DEF BridgeInv, TypeOK, PythonTyped, GoTyped, CallTyped, Entries
  <1> USE BridgeAssumption, <1>1
      DEF PythonTyped, GoTyped, CallTyped, Step, GoStep, goVars, mapVars,
          pythonVars, ObjectInv
  <1>2. ASSUME UNCHANGED <<callbackRef, asyncCallbacks>>,
               \A q \in Requests : py'[q] = "create" => py[q] = "create",
               \A q \in Requests : go'[q] = "invoking" =>
                 go[q] = "invoking" /\ held'[q] = held[q]
        PROVE  ObjectInv'
    BY <1>2
  <1>3. ASSUME NEW r \in Requests, StartCall(r) PROVE ObjectInv'
    BY <1>3 DEF StartCall
  <1>4. ASSUME NEW r \in Requests, CreateCallback(r) PROVE ObjectInv'
    <2>1. callbackRef = 0 /\ OneLoopOnly
      BY <1>4 DEF CreateCallback
    <2>2. \A q \in Requests : py[q] = "create" => q = r
      BY <1>4, <2>1 DEF CreateCallback, LoopInv, Busied, OneLoopOnly
    <2>3. /\ \A i \in CallbackIds : asyncCallbacks[i] = 0
          /\ \A q \in Requests : go[q] # "invoking"
      BY <2>1
    <2>4. callbackRef' # 0
      BY <1>4 DEF CreateCallback
    <2>5. QED
      BY <1>4, <2>2, <2>3, <2>4 DEF CreateCallback
  <1>5. ASSUME NEW r \in Requests, RegisterCallback(r) PROVE ObjectInv'
    BY <1>5 DEF RegisterCallback
  <1>6. ASSUME NEW r \in Requests, UnregisterCallback(r) PROVE ObjectInv'
    BY <1>6 DEF UnregisterCallback
  <1>7. ASSUME NEW r \in Requests, LookupCallback(r) PROVE ObjectInv'
    <2>1. id[r] \in CallbackIds
      BY <1>7, IdIsCallbackId DEF LookupCallback, BridgeInv, CallInv, NotBegun
    <2>2. asyncCallbacks[id[r]] \in {0, callbackRef}
      BY <2>1
    <2>3. go'[r] = "invoking" => held'[r] # 0 /\ held'[r] = callbackRef
      BY <1>7, <2>2 DEF LookupCallback
    <2>4. QED
      BY <1>7, <2>3 DEF LookupCallback
  <1> HIDE DEF ObjectInv
  <1>8. ASSUME NEW r \in Requests,
               \/ AddPending(r) \/ CancelRequest(r) \/ UnregisterRequest(r)
               \/ PopPending(r) \/ CancelTask(r)
        PROVE  ObjectInv'
    BY <1>2, <1>8
    DEF AddPending, CancelRequest, UnregisterRequest, PopPending, CancelTask
  <1>9. ASSUME NEW r \in Requests, Dispatch(r) PROVE ObjectInv'
    BY <1>2, <1>9 DEF Dispatch
  <1>10. ASSUME NEW r \in Requests,
                OpReturns(r) \/ TakePending(r) \/ Schedule(r) \/ GoroutineExits(r)
         PROVE  ObjectInv'
    BY <1>2, <1>10 DEF OpReturns, TakePending, Schedule, GoroutineExits
  <1>11. ASSUME NEW l \in Loops, RunSettle(l) \/ RunDone(l) \/ CloseLoop(l)
         PROVE  ObjectInv'
    BY <1>2, <1>11 DEF RunSettle, RunDone, CloseLoop
  <1>12. QED
    BY <1>3, <1>4, <1>5, <1>6, <1>7, <1>8, <1>9, <1>10, <1>11
    DEF Next, Coroutine, Goroutine, EventLoop

\* In a process that has made an async call before, or that makes them all on
\* one event loop, Go never calls a callback object Python has let go of
\* (_ensure_callback).
THEOREM ObjectStays ==
  ~FirstUse \/ OneLoopOnly => (Spec => []CallbackIsAlive)
  <1> SUFFICES ASSUME ~FirstUse \/ OneLoopOnly
               PROVE  Spec => []CallbackIsAlive
    OBVIOUS
  <1> DEFINE Inv == BridgeInv /\ LoopInv /\ ObjectInv
  <1>1. Init => Inv
    <2> SUFFICES ASSUME Init PROVE Inv
      OBVIOUS
    <2>1. LoopInv /\ ObjectInv
      BY DEF Init, LoopInv, Busied, ObjectInv
    <2>2. QED
      BY <2>1, BridgeStarts
  <1>2. Inv /\ BridgeInv' /\ [Next]_bridgeVars => Inv'
    <2> SUFFICES ASSUME Inv, BridgeInv', [Next]_bridgeVars PROVE Inv'
      OBVIOUS
    <2>1. CASE Next
      BY <2>1, LoopKept, ObjectKept
    <2>2. CASE UNCHANGED bridgeVars
      BY <2>2 DEF bridgeVars, LoopInv, ObjectInv
    <2>3. QED
      BY <2>1, <2>2
  <1>3. Inv => CallbackIsAlive
    BY DEF ObjectInv, CallbackIsAlive
  <1> HIDE DEF Inv
  <1>4. QED
    BY <1>1, <1>2, <1>3, BridgeKept, PTL DEF Spec

-----------------------------------------------------------------------------
(* The refinement: what the coroutine sees is an AsyncCall.                *)

\* What the abstract specification calls a call.
Seen(r) == CASE py[r] = "finished" -> Ending(r)
             [] py[r] \in Awaiting -> "waiting"
             [] OTHER              -> "idle"

SeenNext(r) ==
  CASE py'[r] = "finished" -> IF r \in mustCancel' THEN "cancelled" ELSE future'[r]
    [] py'[r] \in Awaiting -> "waiting"
    [] OTHER               -> "idle"

\* A step that changes neither what is seen of the calls nor an outcome is a
\* stutter of AsyncCall.
LEMMA UnseenStutters ==
  ASSUME \A q \in Requests : SeenNext(q) = Seen(q), UNCHANGED op
  PROVE  UNCHANGED Abstract!callVars
  BY DEF Abstract!callVars, Seen, SeenNext, Ending

\* Every step is one of AsyncCall, or a stutter.
LEMMA AbstractStep ==
  ASSUME BridgeInv, Next
  PROVE  [Abstract!AbsNext]_(Abstract!callVars)
  <1>1. CallTyped /\ \A q \in Requests : CallInv(q)
    BY DEF BridgeInv, TypeOK, CallTyped
  <1> DEFINE Same(q)   == SeenNext(q) = Seen(q)
             Simulated == [Abstract!AbsNext]_(Abstract!callVars)
  <1>2. ASSUME \A q \in Requests : Same(q), UNCHANGED op PROVE Simulated
    BY <1>2, UnseenStutters
  <1>3. ASSUME NEW r \in Requests,
               \/ Abstract!Begin(r) \/ Abstract!OperationEnds(r)
               \/ Abstract!Settle(r) \/ Abstract!Cancel(r)
        PROVE  Simulated
    BY <1>3 DEF Abstract!AbsNext
  <1> HIDE DEF Simulated
  <1> USE <1>1 DEF Step, GoStep, goVars, pythonVars, Seen, SeenNext, Ending,
                   Awaiting, CallTyped, Settled
  <1>4. ASSUME NEW r \in Requests, NEW from, NEW to, Step(r, from, to),
               from \in Awaiting, to \in Awaiting,
               UNCHANGED <<op, mustCancel>>,
               \A q \in Requests \ {r} : future'[q] = future[q]
        PROVE  Simulated
    BY <1>2, <1>4
  <1>5. ASSUME NEW r \in Requests,
               \/ StartCall(r) \/ CreateCallback(r) \/ RegisterCallback(r)
        PROVE  Simulated
    <2>1. CASE StartCall(r)
      <3>1. \A q \in Requests : Same(q)
        BY <2>1 DEF StartCall
      <3>2. QED
        BY <1>2, <2>1, <3>1 DEF StartCall
    <2>2. CASE CreateCallback(r)
      <3>1. \A q \in Requests : Same(q)
        BY <2>2 DEF CreateCallback
      <3>2. QED
        BY <1>2, <2>2, <3>1 DEF CreateCallback
    <2>3. CASE RegisterCallback(r)
      <3>1. \A q \in Requests : Same(q)
        BY <2>3 DEF RegisterCallback
      <3>2. QED
        BY <1>2, <2>3, <3>1 DEF RegisterCallback
    <2>4. QED
      BY <1>5, <2>1, <2>2, <2>3
  <1>6. ASSUME NEW r \in Requests,
               \/ CancelRequest(r) \/ UnregisterCallback(r)
               \/ UnregisterRequest(r)
        PROVE  Simulated
    BY <1>4, <1>6 DEF CancelRequest, UnregisterCallback, UnregisterRequest
  <1>7. ASSUME NEW r \in Requests, AddPending(r) PROVE Simulated
    <2>1. \A q \in Requests : Same(q)
      BY <1>7 DEF AddPending
    <2>2. QED
      BY <1>2, <1>7, <2>1 DEF AddPending
  <1>8. ASSUME NEW r \in Requests, Dispatch(r) PROVE Simulated
    <2>1. asyncCallbacks[id[r]] # 0
      BY <1>8 DEF Dispatch, BridgeInv, CallbackInv
    <2>2. /\ \A q \in Requests \ {r} : Same(q)
          /\ Seen(r) = "idle" /\ SeenNext(r) = "waiting"
          /\ op' = [op EXCEPT ![r] = "running"]
      BY <1>8, <2>1 DEF Dispatch
    <2>3. [q \in Requests |-> SeenNext(q)] =
            [[q \in Requests |-> Seen(q)] EXCEPT ![r] = "waiting"]
      <3> HIDE DEF Seen, SeenNext
      <3>1. QED
        BY <2>2
    <2>4. Abstract!Begin(r)
      BY <2>2, <2>3 DEF Abstract!Begin
    <2>5. QED
      BY <1>3, <2>4
  <1>9. ASSUME NEW r \in Requests, OpReturns(r) PROVE Simulated
    <2>1. op[r] = "running" /\ \A q \in Requests : Same(q)
      BY <1>9 DEF OpReturns, CallInv
    <2>2. Abstract!OperationEnds(r)
      BY <1>9, <2>1 DEF OpReturns, Abstract!OperationEnds, Abstract!Ends
    <2>3. QED
      BY <1>3, <2>2
  <1>10. ASSUME NEW r \in Requests,
                \/ LookupCallback(r) \/ TakePending(r) \/ Schedule(r)
                \/ GoroutineExits(r)
         PROVE  Simulated
    BY <1>2, <1>10 DEF LookupCallback, TakePending, Schedule, GoroutineExits
  <1>11. ASSUME NEW l \in Loops, RunSettle(l) PROVE Simulated
    <2> DEFINE r == Head(ready[l]).request
    <2>1. /\ r \in Requests /\ go[r] \in {"exiting", "gone"}
          /\ UNCHANGED <<py, op, mustCancel>>
      BY <1>11, HeadHolds DEF RunSettle, NextReady, EntryInv
    <2>2. /\ \A q \in Requests \ {r} : future'[q] = future[q]
          /\ future[r] = "pending" \/ future'[r] = future[r]
      BY <1>11, <2>1 DEF RunSettle
    <2>3. future[r] = "pending" => py[r] = "await"
      BY <2>1 DEF CallInv, NoId, NotBegun
    <2>4. \A q \in Requests : Same(q)
      BY <2>1, <2>2, <2>3
    <2>5. QED
      BY <1>2, <2>1, <2>4
  <1>12. ASSUME NEW r \in Requests, CancelTask(r) PROVE Simulated
    <2>1. \A q \in Requests : Same(q)
      BY <1>12 DEF CancelTask
    <2>2. QED
      BY <1>2, <1>12, <2>1 DEF CancelTask
  <1>13. ASSUME NEW r \in Requests, NEW end, SeenNext(r) = end,
                Seen(r) = "waiting", UNCHANGED op,
                \A q \in Requests \ {r} : Same(q),
                end = "cancelled" \/ (end = op[r] /\ op[r] \in {"ok", "error"})
         PROVE  Simulated
    <2>1. [q \in Requests |-> SeenNext(q)] =
            [[q \in Requests |-> Seen(q)] EXCEPT ![r] = end]
      <3> HIDE DEF Seen, SeenNext
      <3>1. QED
        BY <1>13
    <2>2. Abstract!Settle(r) \/ Abstract!Cancel(r)
      BY <1>13, <2>1 DEF Abstract!Settle, Abstract!Cancel, Abstract!Ends
    <2>3. QED
      BY <1>3, <2>2
  <1>14. ASSUME NEW l \in Loops, RunDone(l) PROVE Simulated
    <2>1. PICK r \in Requests : Head(ready[l]).request = r /\ future[r] \in Settled
      BY <1>14, HeadHolds DEF RunDone, NextReady, EntryInv
    <2>2. UNCHANGED <<future, op, mustCancel>>
      BY <1>14 DEF RunDone
    <2>3. CASE future[r] = "cancelled"
      <3>1. Step(r, "await", "cancel")
        BY <1>14, <2>1, <2>3 DEF RunDone
      <3>2. QED
        BY <1>4, <2>2, <3>1
    <2>4. CASE future[r] \in {"ok", "error"}
      <3>1. Step(r, "await", "finished")
        BY <1>14, <2>1, <2>4 DEF RunDone
      <3>2. /\ \A q \in Requests \ {r} : Same(q)
            /\ Seen(r) = "waiting"
            /\ SeenNext(r) = Ending(r)
        BY <2>2, <3>1
      <3>3. future[r] = op[r] /\ op[r] \in {"ok", "error"}
        BY <2>4 DEF CallInv
      <3>4. Ending(r) = "cancelled" \/ Ending(r) = op[r]
        BY <3>3
      <3>5. QED
        BY <1>13, <2>2, <3>2, <3>3, <3>4
    <2>5. QED
      BY <2>1, <2>3, <2>4
  <1>15. ASSUME NEW r \in Requests, PopPending(r) PROVE Simulated
    <2>1. /\ \A q \in Requests \ {r} : Same(q)
          /\ Seen(r) = "waiting" /\ UNCHANGED op
      BY <1>15 DEF PopPending
    <2>2. SeenNext(r) = "cancelled"
      BY <1>15 DEF PopPending, CallInv
    <2>3. QED
      BY <1>13, <2>1, <2>2
  <1>16. ASSUME NEW l \in Loops, CloseLoop(l) PROVE Simulated
    BY <1>2, <1>16 DEF CloseLoop
  <1>17. Simulated
    BY <1>5, <1>6, <1>7, <1>8, <1>9, <1>10, <1>11, <1>12, <1>14, <1>15, <1>16
    DEF Next, Coroutine, Goroutine, EventLoop
  <1>18. QED
    BY <1>17 DEF Simulated

\* The bridge implements AsyncCall: a call ends once, with the outcome of its
\* own operation, or cancelled.
THEOREM BridgeImplementsCall == Spec => ImplementsAsyncCall
  <1>1. Init => Abstract!AbsInit
    BY DEF Init, Abstract!AbsInit, Awaiting
  <1>2. BridgeInv /\ [Next]_bridgeVars => [Abstract!AbsNext]_(Abstract!callVars)
    <2> SUFFICES ASSUME BridgeInv, [Next]_bridgeVars
                 PROVE  [Abstract!AbsNext]_(Abstract!callVars)
      OBVIOUS
    <2>1. CASE Next
      BY <2>1, AbstractStep
    <2>2. CASE UNCHANGED bridgeVars
      BY <2>2, UnseenStutters DEF bridgeVars, Seen, SeenNext, Ending
    <2>3. QED
      BY <2>1, <2>2
  <1>3. QED
    BY <1>1, <1>2, BridgeKept, PTL DEF Spec, ImplementsAsyncCall, Abstract!AbsSpec
=============================================================================
