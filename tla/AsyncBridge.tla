---------------------------- MODULE AsyncBridge ----------------------------
(***************************************************************************)
(* The async callback bridge: dispatchAsync and the callback maps of       *)
(* core/cshared/main.go with _AsyncCallbackManager and _call_async of      *)
(* photos_engine/client.py.                                                *)
(*                                                                         *)
(* A coroutine registers a callback id, puts a future under it, dispatches *)
(* the operation to a goroutine and awaits the future.  The goroutine      *)
(* looks the callback up and calls Python on its own thread, which takes   *)
(* the future out of _pending and asks the future's event loop to settle   *)
(* it.  A cancelled future cancels and unregisters from the event loop.    *)
(*                                                                         *)
(* An event loop runs one thing at a time: running[l] is the request whose *)
(* Python code it is executing, ready[l] its queue of scheduled callbacks. *)
(* A Go map is a total function whose default is the zero value.           *)
(***************************************************************************)
EXTENDS Naturals, Sequences

CONSTANTS
  Requests,    \* the async calls made
  Loops,       \* event loops, each in a thread of its own
  LoopOf,      \* LoopOf[r]: the loop whose coroutine makes call r
  Nobody,      \* no request
  MaxId,       \* bound on callback ids
  FirstUse     \* TRUE: no async call was ever made in this process

ASSUME BridgeAssumption ==
  /\ Nobody \notin Requests
  /\ LoopOf \in [Requests -> Loops]
  /\ MaxId \in Nat
  /\ FirstUse \in BOOLEAN

VARIABLES
  callbackRef,     \* Python: the callback object _callback_ref, 0 for None
  created,         \* Python: callback objects created so far
  nextCallbackID,  \* Go: the atomic counter
  asyncCallbacks,  \* Go: id -> callback object, 0 for none
  activeRequests,  \* Go: id -> the goroutine its cancel function stops
  pending,         \* Python: id -> the request whose future waits
  id,              \* each request's callback id, 0 before it has one
  py,              \* where each coroutine is
  future,          \* the state of each future
  running,         \* what each event loop is executing
  ready,           \* each event loop's queue of scheduled callbacks
  closed,          \* event loops that are closed
  mustCancel,      \* asyncio: tasks told to cancel after their future settled
  go,              \* where each goroutine is
  op,              \* the outcome of each operation
  ctxDone,         \* operations whose context was cancelled
  held             \* what each goroutine got from a map: object, then request

pythonVars == <<callbackRef, created, pending, py, future, running, ready,
                closed, mustCancel>>
mapVars    == <<nextCallbackID, asyncCallbacks, activeRequests>>
goVars     == <<go, op, ctxDone, held>>
bridgeVars == <<callbackRef, created, nextCallbackID, asyncCallbacks,
                activeRequests, pending, id, py, future, running, ready,
                closed, mustCancel, go, op, ctxDone, held>>

CallbackIds == 1..MaxId
Settled     == {"ok", "error", "cancelled"}

\* The steps of a coroutine from its await to the end of the done callback.
Awaiting == {"await", "cancel", "unregister", "unregister2", "pop"}

Init ==
  /\ callbackRef = IF FirstUse THEN 0 ELSE 1
  /\ created = callbackRef
  /\ nextCallbackID = 0
  /\ asyncCallbacks = [i \in CallbackIds |-> 0]
  /\ activeRequests = [i \in CallbackIds |-> Nobody]
  /\ pending = [i \in CallbackIds |-> Nobody]
  /\ id = [r \in Requests |-> 0]
  /\ py = [r \in Requests |-> "new"]
  /\ future = [r \in Requests |-> "none"]
  /\ running = [l \in Loops |-> Nobody]
  /\ ready = [l \in Loops |-> <<>>]
  /\ closed = {}
  /\ mustCancel = {}
  /\ go = [r \in Requests |-> "none"]
  /\ op = [r \in Requests |-> "none"]
  /\ ctxDone = {}
  /\ held = [r \in Requests |-> 0]

\* A coroutine step that keeps its event loop busy.
Step(r, from, to) == py[r] = from /\ py' = [py EXCEPT ![r] = to]

\* A coroutine step after which its event loop is free.
Yield(r) == running' = [running EXCEPT ![LoopOf[r]] = Nobody]

Busy(r) == running' = [running EXCEPT ![LoopOf[r]] = r]

IsFree(l) == running[l] = Nobody /\ l \notin closed

\* loop.call_soon, loop.call_soon_threadsafe.
CallSoon(l, what, r, value) ==
  ready' = [ready EXCEPT ![l] =
              Append(@, [what |-> what, request |-> r, value |-> value])]

-----------------------------------------------------------------------------
(* _call_async: register_request, then the exported _Async function.       *)

\* Every call makes a callback object of its own.
StartCallAlwaysCreates(r) ==
  /\ IsFree(LoopOf[r])
  /\ Step(r, "new", "create")
  /\ Busy(r)
  /\ UNCHANGED <<callbackRef, created, pending, future, ready, closed,
                 mustCancel, mapVars, goVars, id>>

\* _ensure_callback tests _callback_ref without a lock.
StartCall(r) ==
  /\ IsFree(LoopOf[r])
  /\ Step(r, "new", IF callbackRef = 0 THEN "create" ELSE "register")
  /\ Busy(r)
  /\ UNCHANGED <<callbackRef, created, pending, future, ready, closed,
                 mustCancel, mapVars, goVars, id>>

\* The new object replaces, and so frees, one another thread has just made.
CreateCallback(r) ==
  /\ Step(r, "create", "register")
  /\ created' = created + 1
  /\ callbackRef' = created + 1
  /\ UNCHANGED <<pending, future, running, ready, closed, mustCancel, mapVars,
                 goVars, id>>

\* The counter incremented without atomicity: an increment may be lost.
RegisterCallbackLossy(r) ==
  /\ nextCallbackID < MaxId
  /\ Step(r, "register", "pend")
  /\ nextCallbackID' \in {nextCallbackID, nextCallbackID + 1}
  /\ id' = [id EXCEPT ![r] = nextCallbackID + 1]
  /\ asyncCallbacks' = [asyncCallbacks EXCEPT ![nextCallbackID + 1] = callbackRef]
  /\ UNCHANGED <<callbackRef, created, pending, future, running, ready, closed,
                 mustCancel, activeRequests, goVars>>

RegisterCallback(r) ==
  /\ nextCallbackID < MaxId
  /\ Step(r, "register", "pend")
  /\ nextCallbackID' = nextCallbackID + 1
  /\ id' = [id EXCEPT ![r] = nextCallbackID + 1]
  /\ asyncCallbacks' = [asyncCallbacks EXCEPT ![nextCallbackID + 1] = callbackRef]
  /\ UNCHANGED <<callbackRef, created, pending, future, running, ready, closed,
                 mustCancel, activeRequests, goVars>>

\* The call dispatched before its future is in _pending.
AddPendingLate(r) ==
  /\ py[r] = "pend"
  /\ \/ /\ go[r] = "none"
        /\ go' = [go EXCEPT ![r] = "running"]
        /\ op' = [op EXCEPT ![r] = "running"]
        /\ UNCHANGED <<future, pending, py, running>>
     \/ /\ go[r] # "none"
        /\ future' = [future EXCEPT ![r] = "pending"]
        /\ pending' = [pending EXCEPT ![id[r]] = r]
        /\ py' = [py EXCEPT ![r] = "await"]
        /\ Yield(r)
        /\ UNCHANGED <<go, op>>
  /\ UNCHANGED <<callbackRef, created, ready, closed, mustCancel, mapVars,
                 ctxDone, held, id>>

\* The future created and put into _pending, its done callback added.
AddPending(r) ==
  /\ Step(r, "pend", "dispatch")
  /\ future' = [future EXCEPT ![r] = "pending"]
  /\ pending' = [pending EXCEPT ![id[r]] = r]
  /\ UNCHANGED <<callbackRef, created, running, ready, closed, mustCancel,
                 mapVars, goVars, id>>

\* dispatchAsync, whose early return leaves the coroutine waiting; then the
\* await, which gives the event loop back.
Dispatch(r) ==
  /\ Step(r, "dispatch", "await")
  /\ Yield(r)
  /\ IF asyncCallbacks[id[r]] = 0
     THEN UNCHANGED <<activeRequests, go, op>>
     ELSE /\ activeRequests' = [activeRequests EXCEPT ![id[r]] = r]
          /\ go' = [go EXCEPT ![r] = "running"]
          /\ op' = [op EXCEPT ![r] = "running"]
  /\ UNCHANGED <<callbackRef, created, pending, future, ready, closed,
                 mustCancel, nextCallbackID, asyncCallbacks, ctxDone, held,
                 id>>

-----------------------------------------------------------------------------
(* The goroutine of dispatchAsync and _on_callback on its thread.          *)

GoStep(r, from, to) == go[r] = from /\ go' = [go EXCEPT ![r] = to]

\* op(ctx) returns; a closed handle, a timeout or a cancelled context is an
\* error, and an operation that ignores its context may still succeed.
OpReturns(r) ==
  /\ GoStep(r, "running", "built")
  /\ \E v \in {"ok", "error"} : op' = [op EXCEPT ![r] = v]
  /\ UNCHANGED <<pythonVars, mapVars, id, ctxDone, held>>

LookupCallback(r) ==
  /\ GoStep(r, "built",
            IF asyncCallbacks[id[r]] = 0 THEN "exiting" ELSE "invoking")
  /\ held' = [held EXCEPT ![r] = asyncCallbacks[id[r]]]
  /\ UNCHANGED <<pythonVars, mapVars, id, op, ctxDone>>

\* _on_callback goes on without a future.
TakePendingUnchecked(r) ==
  /\ GoStep(r, "invoking", "scheduling")
  /\ held' = [held EXCEPT ![r] = pending[id[r]]]
  /\ pending' = [pending EXCEPT ![id[r]] = Nobody]
  /\ UNCHANGED <<callbackRef, created, py, future, running, ready, closed,
                 mustCancel, mapVars, id, op, ctxDone>>

\* _on_callback pops the future under the manager's lock.
TakePending(r) ==
  /\ GoStep(r, "invoking",
            IF pending[id[r]] = Nobody THEN "exiting" ELSE "scheduling")
  /\ held' = [held EXCEPT ![r] = pending[id[r]]]
  /\ pending' = [pending EXCEPT ![id[r]] = Nobody]
  /\ UNCHANGED <<callbackRef, created, py, future, running, ready, closed,
                 mustCancel, mapVars, id, op, ctxDone>>

\* call_soon_threadsafe raises on a closed loop; ctypes drops the exception.
Schedule(r) ==
  /\ GoStep(r, "scheduling", "exiting")
  /\ LET l == LoopOf[held[r]]
     IN IF l \in closed THEN UNCHANGED ready
                        ELSE CallSoon(l, "settle", held[r], op[r])
  /\ UNCHANGED <<callbackRef, created, pending, py, future, running, closed,
                 mustCancel, mapVars, id, op, ctxDone, held>>

\* The goroutine ends without unregisterActiveRequest.
GoroutineLeavesEntry(r) ==
  /\ GoStep(r, "exiting", "gone")
  /\ ctxDone' = ctxDone \cup {r}
  /\ held' = [held EXCEPT ![r] = 0]
  /\ UNCHANGED <<pythonVars, mapVars, id, op>>

\* The deferred cancel and unregisterActiveRequest.
GoroutineExits(r) ==
  /\ GoStep(r, "exiting", "gone")
  /\ ctxDone' = ctxDone \cup {r}
  /\ activeRequests' = [activeRequests EXCEPT ![id[r]] = Nobody]
  /\ held' = [held EXCEPT ![r] = 0]
  /\ UNCHANGED <<pythonVars, nextCallbackID, asyncCallbacks, id, op>>

-----------------------------------------------------------------------------
(* The event loop.                                                         *)

\* A free event loop takes the next scheduled callback.
NextReady(l, what) ==
  /\ IsFree(l)
  /\ ready[l] # <<>>
  /\ Head(ready[l]).what = what

\* set_result or set_exception; on a cancelled future it raises
\* InvalidStateError, which the event loop logs.
RunSettle(l) ==
  /\ NextReady(l, "settle")
  /\ LET r == Head(ready[l]).request
         done == [what |-> "done", request |-> r, value |-> "none"]
     IN IF future[r] = "pending"
        THEN /\ future' = [future EXCEPT ![r] = Head(ready[l]).value]
             /\ ready' = [ready EXCEPT ![l] = Append(Tail(@), done)]
        ELSE /\ ready' = [ready EXCEPT ![l] = Tail(@)]
             /\ UNCHANGED future
  /\ UNCHANGED <<callbackRef, created, pending, py, running, closed,
                 mustCancel, mapVars, goVars, id>>

\* The task is cancelled (wait_for, the end of asyncio.run, a user's cancel).
\* A future that is still pending is cancelled and its done callback scheduled;
\* one that has been settled stays as it is, and the task is told to cancel when
\* it wakes up.
CancelTask(r) ==
  /\ IsFree(LoopOf[r])
  /\ py[r] = "await"
  /\ \/ /\ future[r] = "pending"
        /\ future' = [future EXCEPT ![r] = "cancelled"]
        /\ CallSoon(LoopOf[r], "done", r, "none")
        /\ UNCHANGED mustCancel
     \/ /\ future[r] \in {"ok", "error"}
        /\ mustCancel' = mustCancel \cup {r}
        /\ UNCHANGED <<future, ready>>
  /\ UNCHANGED <<callbackRef, created, pending, py, running, closed, mapVars,
                 goVars, id>>

\* _on_future_done and the wake-up of the task.  Only a cancelled future has
\* anything to undo, whatever the task was told.
RunDone(l) ==
  /\ NextReady(l, "done")
  /\ ready' = [ready EXCEPT ![l] = Tail(@)]
  /\ LET r == Head(ready[l]).request
     IN IF future[r] = "cancelled"
        THEN Step(r, "await", "cancel") /\ Busy(r)
        ELSE Step(r, "await", "finished") /\ UNCHANGED running
  /\ UNCHANGED <<callbackRef, created, pending, future, closed, mustCancel,
                 mapVars, goVars, id>>

\* The callback unregistered before the request is cancelled.
CancelAfterUnregister(r) ==
  /\ Step(r, "cancel", "unregister")
  /\ activeRequests' = [activeRequests EXCEPT ![id[r]] = Nobody]
  /\ UNCHANGED <<callbackRef, created, pending, future, running, ready, closed,
                 mustCancel, nextCallbackID, asyncCallbacks, goVars, id>>

\* GPMC_CancelRequest: take the cancel function out of the map and call it.
CancelRequest(r) ==
  /\ Step(r, "cancel", "unregister")
  /\ activeRequests' = [activeRequests EXCEPT ![id[r]] = Nobody]
  /\ ctxDone' = IF activeRequests[id[r]] = Nobody THEN ctxDone
                ELSE ctxDone \cup {activeRequests[id[r]]}
  /\ UNCHANGED <<callbackRef, created, pending, future, running, ready, closed,
                 mustCancel, nextCallbackID, asyncCallbacks, go, op, held, id>>

\* A cancelled request that keeps its callback.
UnregisterNoCallback(r) ==
  /\ Step(r, "unregister", "unregister2")
  /\ UNCHANGED <<callbackRef, created, pending, future, running, ready, closed,
                 mustCancel, mapVars, goVars, id>>

\* GPMC_UnregisterCallback, under callbacksLock ...
UnregisterCallback(r) ==
  /\ Step(r, "unregister", "unregister2")
  /\ asyncCallbacks' = [asyncCallbacks EXCEPT ![id[r]] = 0]
  /\ UNCHANGED <<callbackRef, created, pending, future, running, ready, closed,
                 mustCancel, nextCallbackID, activeRequests, goVars, id>>

\* ... and then under requestsLock.
UnregisterRequest(r) ==
  /\ Step(r, "unregister2", "pop")
  /\ activeRequests' = [activeRequests EXCEPT ![id[r]] = Nobody]
  /\ UNCHANGED <<callbackRef, created, pending, future, running, ready, closed,
                 mustCancel, nextCallbackID, asyncCallbacks, goVars, id>>

PopPending(r) ==
  /\ Step(r, "pop", "finished")
  /\ pending' = [pending EXCEPT ![id[r]] = Nobody]
  /\ Yield(r)
  /\ UNCHANGED <<callbackRef, created, future, ready, closed, mustCancel,
                 mapVars, goVars, id>>

\* asyncio.run closes its loop when every task has ended; what is still
\* scheduled is dropped.
CloseLoop(l) ==
  /\ IsFree(l)
  /\ \A r \in Requests : LoopOf[r] = l => py[r] \in {"new", "finished"}
  /\ closed' = closed \cup {l}
  /\ ready' = [ready EXCEPT ![l] = <<>>]
  /\ UNCHANGED <<callbackRef, created, pending, py, future, running,
                 mustCancel, mapVars, goVars, id>>

-----------------------------------------------------------------------------

\* The event loop runs the coroutine or done callback it is in.
Coroutine(r) ==
  \/ CreateCallback(r) \/ RegisterCallback(r) \/ AddPending(r) \/ Dispatch(r)
  \/ CancelRequest(r) \/ UnregisterCallback(r) \/ UnregisterRequest(r)
  \/ PopPending(r)

Goroutine(r) ==
  \/ OpReturns(r) \/ LookupCallback(r) \/ TakePending(r) \/ Schedule(r)
  \/ GoroutineExits(r)

EventLoop(l) == RunSettle(l) \/ RunDone(l)

Next ==
  \/ \E r \in Requests :
       StartCall(r) \/ CancelTask(r) \/ Coroutine(r) \/ Goroutine(r)
  \/ \E l \in Loops : EventLoop(l) \/ CloseLoop(l)

Spec == Init /\ [][Next]_bridgeVars

\* Threads and event loops keep running, and every operation ends: the Go
\* clients and the contexts it runs under have timeouts.  No call has to be
\* made or cancelled, no loop closed.
FairSpec ==
  /\ Spec
  /\ \A r \in Requests : WF_bridgeVars(Coroutine(r)) /\ WF_bridgeVars(Goroutine(r))
  /\ \A l \in Loops : WF_bridgeVars(EventLoop(l))

-----------------------------------------------------------------------------
(* Properties.                                                             *)

\* Every variable has its type, and a goroutine that settles a future has one.
TypeOK ==
  /\ callbackRef \in Nat
  /\ created \in Nat
  /\ nextCallbackID \in 0..MaxId
  /\ asyncCallbacks \in [CallbackIds -> Nat]
  /\ activeRequests \in [CallbackIds -> Requests \cup {Nobody}]
  /\ pending \in [CallbackIds -> Requests \cup {Nobody}]
  /\ id \in [Requests -> 0..MaxId]
  /\ py \in [Requests -> {"new", "create", "register", "pend", "dispatch",
                          "await", "cancel", "unregister", "unregister2",
                          "pop", "finished"}]
  /\ future \in [Requests -> {"none", "pending"} \cup Settled]
  /\ running \in [Loops -> Requests \cup {Nobody}]
  /\ ready \in [Loops -> Seq([what : {"settle", "done"}, request : Requests,
                              value : {"none", "ok", "error"}])]
  /\ closed \subseteq Loops
  /\ mustCancel \subseteq Requests
  /\ go \in [Requests -> {"none", "running", "built", "invoking", "scheduling",
                          "exiting", "gone"}]
  /\ op \in [Requests -> {"none", "running", "ok", "error"}]
  /\ ctxDone \subseteq Requests
  /\ held \in [Requests -> Requests \cup {Nobody} \cup Nat]
  /\ \A r \in Requests : go[r] = "scheduling" => held[r] \in Requests

\* How the await of a call ends: CancelledError, or what settled its future.
Ending(r) == IF r \in mustCancel THEN "cancelled" ELSE future[r]

\* The bridge keeps the promise of AsyncCall: a call ends once, with the
\* outcome of its own operation, or cancelled.
Abstract == INSTANCE AsyncCall WITH
  outcome <- op,
  call <- [r \in Requests |->
             CASE py[r] = "finished" -> Ending(r)
               [] py[r] \in Awaiting -> "waiting"
               [] OTHER              -> "idle"]

ImplementsAsyncCall == Abstract!AbsSpec

\* Once the await of a call has ended as cancelled, the context of its operation
\* is cancelled, unless the operation had returned before (GPMC_CancelRequest,
\* core/cshared/main.go:68).  What an operation makes of its context is its own
\* affair: most of the web client's go on.
CancelReachesContext ==
  \A r \in Requests :
    py[r] = "finished" /\ Ending(r) = "cancelled" =>
      r \in ctxDone \/ (future[r] # "cancelled" /\ go[r] = "exiting")

\* When the coroutine of a call and its goroutine have both ended, in whatever
\* order and however the await ended, nothing is left of it in activeRequests
\* and _pending; and if its future was cancelled, nothing in asyncCallbacks.
\* Every other call leaves its callback there, one that was cancelled after its
\* future had been settled as well.
EndedLeavesOnlyCallback ==
  \A r \in Requests : py[r] = "finished" /\ go[r] = "gone" =>
    /\ activeRequests[id[r]] = Nobody
    /\ pending[id[r]] = Nobody
    /\ future[r] = "cancelled" => asyncCallbacks[id[r]] = 0

\* A cancel function is in activeRequests only while its goroutine is there to
\* be stopped, and only under the id of its own call.
ActiveIsRunning ==
  \A i \in CallbackIds : activeRequests[i] # Nobody =>
    id[activeRequests[i]] = i /\ go[activeRequests[i]] # "gone"

\* The function pointer a goroutine calls belongs to a callback object that
\* Python still refers to.
CallbackIsAlive ==
  \A r \in Requests : go[r] = "invoking" => held[r] = callbackRef

\* Every awaited call ends: no callback is lost between the goroutine, the
\* callback manager and the event loop, cancelled or not.
EveryAwaitEnds ==
  \A r \in Requests : py[r] = "await" ~> py[r] = "finished"
=============================================================================
