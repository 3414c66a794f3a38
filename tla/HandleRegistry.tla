--------------------------- MODULE HandleRegistry ---------------------------
(***************************************************************************)
(* The handle map of core/cshared/main.go (clientsMap, nextHandle) with    *)
(* the Python objects that own its entries (PhotosEngineClient of          *)
(* photos_engine/client.py).                                               *)
(*                                                                         *)
(* A Python object is constructed once, owns the Go client made for it and *)
(* knows it by a number, its handle.  Threads construct, use, close and    *)
(* finalise objects; ctypes releases the interpreter lock during a call,   *)
(* so they interleave at every step.  webClientsMap and NativeWebClient    *)
(* are the same code over a second map and counter, which no thread shares *)
(* with the first: the module stands for either.                           *)
(*                                                                         *)
(* A Go client is identified with the object it was made for.              *)
(***************************************************************************)
EXTENDS Naturals, FiniteSets

CONSTANTS
  Threads,     \* threads of the process
  Objects,     \* the Python client objects ever constructed
  NoObject,    \* no object, and Go's nil client
  MaxHandles   \* bound on handles given out

ASSUME RegistryAssumption ==
  /\ NoObject \notin Objects
  /\ MaxHandles \in Nat

VARIABLES
  nextHandle,  \* Go: the atomic counter
  clientsMap,  \* Go: handle -> client, NoObject for no entry
  handle,      \* Python: _handle of each object, 0 when unset or closed
  stage,       \* where each object is in its life
  pc,          \* where each thread is
  obj,         \* the object a thread is working on
  arg,         \* the handle a thread has in a local variable
  client       \* the client a thread got from the map

goVars       == <<nextHandle, clientsMap>>
registryVars == <<nextHandle, clientsMap, handle, stage, pc, obj, arg, client>>

Handles == 1..MaxHandles

Init ==
  /\ nextHandle = 0
  /\ clientsMap = [h \in Handles |-> NoObject]
  /\ handle = [o \in Objects |-> 0]
  /\ stage = [o \in Objects |-> "new"]
  /\ pc = [t \in Threads |-> "idle"]
  /\ obj = [t \in Threads |-> NoObject]
  /\ arg = [t \in Threads |-> 0]
  /\ client = [t \in Threads |-> NoObject]

Step(t, from, to) == pc[t] = from /\ pc' = [pc EXCEPT ![t] = to]

Begin(t, o, to) ==
  /\ Step(t, "idle", to)
  /\ obj' = [obj EXCEPT ![t] = o]

End(t, from) ==
  /\ Step(t, from, "idle")
  /\ obj' = [obj EXCEPT ![t] = NoObject]
  /\ arg' = [arg EXCEPT ![t] = 0]
  /\ client' = [client EXCEPT ![t] = NoObject]

-----------------------------------------------------------------------------
(* __init__ and GPMC_CreateClient.                                         *)

\* pe.NewClient accepts the auth data ...
NewClient(t, o) ==
  /\ stage[o] = "new"
  /\ Begin(t, o, "made")
  /\ stage' = [stage EXCEPT ![o] = "building"]
  /\ UNCHANGED <<goVars, handle, arg, client>>

\* ... or not: __init__ raises, and the object never has a _handle.
NewClientFails(o) ==
  /\ stage[o] = "new"
  /\ stage' = [stage EXCEPT ![o] = "failed"]
  /\ UNCHANGED <<goVars, handle, pc, obj, arg, client>>

\* The counter is read and not written back.
TakeHandleLossy(t) ==
  /\ Step(t, "made", "numbered")
  /\ nextHandle < MaxHandles
  /\ arg' = [arg EXCEPT ![t] = nextHandle + 1]
  /\ UNCHANGED <<goVars, handle, stage, obj, client>>

\* The handle is the size the map will have.
TakeHandleFromSize(t) ==
  /\ Step(t, "made", "numbered")
  /\ LET size == Cardinality({h \in Handles : clientsMap[h] # NoObject})
     IN /\ size < MaxHandles
        /\ nextHandle' = size + 1
        /\ arg' = [arg EXCEPT ![t] = size + 1]
  /\ UNCHANGED <<clientsMap, handle, stage, obj, client>>

\* atomic.AddUint64, before clientsLock is taken.
TakeHandle(t) ==
  /\ Step(t, "made", "numbered")
  /\ nextHandle < MaxHandles
  /\ nextHandle' = nextHandle + 1
  /\ arg' = [arg EXCEPT ![t] = nextHandle + 1]
  /\ UNCHANGED <<clientsMap, handle, stage, obj, client>>

\* The counter is read again under the lock.
RegisterReloaded(t) ==
  /\ Step(t, "numbered", "registered")
  /\ clientsMap' = [clientsMap EXCEPT ![nextHandle] = obj[t]]
  /\ UNCHANGED <<nextHandle, handle, stage, obj, arg, client>>

\* clientsMap[h] = c, under clientsLock.
Register(t) ==
  /\ Step(t, "numbered", "registered")
  /\ clientsMap' = [clientsMap EXCEPT ![arg[t]] = obj[t]]
  /\ UNCHANGED <<nextHandle, handle, stage, obj, arg, client>>

\* self._handle = data["handle"].
BindHandle(t) ==
  /\ End(t, "registered")
  /\ handle' = [handle EXCEPT ![obj[t]] = arg[t]]
  /\ stage' = [stage EXCEPT ![obj[t]] = "live"]
  /\ UNCHANGED goVars

-----------------------------------------------------------------------------
(* _call and _call_async, and the export they call.                        *)

\* func(self._handle, ...): the attribute is read, then the call is made.
StartCall(t, o) ==
  /\ stage[o] = "live"
  /\ Begin(t, o, "calling")
  /\ arg' = [arg EXCEPT ![t] = handle[o]]
  /\ UNCHANGED <<goVars, handle, stage, client>>

Entry(h) == IF h \in Handles THEN clientsMap[h] ELSE NoObject

\* getClient, under the read lock; a missing entry is nil.
GetClient(t) ==
  /\ Step(t, "calling", IF Entry(arg[t]) = NoObject THEN "refused" ELSE "using")
  /\ client' = [client EXCEPT ![t] = Entry(arg[t])]
  /\ UNCHANGED <<goVars, handle, stage, obj, arg>>

\* The client method and its answer, or "client handle not found".
EndCall(t) ==
  /\ End(t, "using") \/ End(t, "refused")
  /\ UNCHANGED <<goVars, handle, stage>>

-----------------------------------------------------------------------------
(* close, called explicitly, by __exit__ or by __del__.                    *)

\* "if ... self._handle": a closed object is left alone.
StartClose(t, o) ==
  /\ stage[o] = "live"
  /\ handle[o] # 0
  /\ Begin(t, o, "checked")
  /\ UNCHANGED <<goVars, handle, stage, arg, client>>

\* The object is dropped without __del__.
FinaliseForgets(t, o) ==
  /\ stage[o] = "live"
  /\ pc[t] = "idle"
  /\ \A u \in Threads : obj[u] # o
  /\ stage' = [stage EXCEPT ![o] = "finalised"]
  /\ UNCHANGED <<goVars, handle, pc, obj, arg, client>>

\* __del__, once no thread refers to the object.
Finalise(t, o) ==
  /\ stage[o] = "live"
  /\ \A u \in Threads : obj[u] # o
  /\ stage' = [stage EXCEPT ![o] = "finalised"]
  /\ \/ handle[o] # 0 /\ Begin(t, o, "checked")
     \/ handle[o] = 0 /\ pc[t] = "idle" /\ UNCHANGED <<pc, obj>>
  /\ UNCHANGED <<goVars, handle, arg, client>>

\* The argument of GPMC_CloseClient: another thread may have set it to 0.
ReadHandle(t) ==
  /\ Step(t, "checked", "closing")
  /\ arg' = [arg EXCEPT ![t] = handle[obj[t]]]
  /\ UNCHANGED <<goVars, handle, stage, obj, client>>

\* delete(clientsMap, handle) under clientsLock, of no effect when absent.
CloseClient(t) ==
  /\ Step(t, "closing", "zeroing")
  /\ clientsMap' = [h \in Handles |-> IF h = arg[t] THEN NoObject ELSE clientsMap[h]]
  /\ UNCHANGED <<nextHandle, handle, stage, obj, arg, client>>

\* self._handle = 0.
ZeroHandle(t) ==
  /\ End(t, "zeroing")
  /\ handle' = [handle EXCEPT ![obj[t]] = 0]
  /\ UNCHANGED <<goVars, stage>>

-----------------------------------------------------------------------------

Proceed(t) ==
  \/ TakeHandle(t) \/ Register(t) \/ BindHandle(t)
  \/ GetClient(t) \/ EndCall(t)
  \/ ReadHandle(t) \/ CloseClient(t) \/ ZeroHandle(t)

Next ==
  \/ \E t \in Threads : Proceed(t)
  \/ \E t \in Threads, o \in Objects :
       NewClient(t, o) \/ StartCall(t, o) \/ StartClose(t, o) \/ Finalise(t, o)
  \/ \E o \in Objects : NewClientFails(o)

Spec == Init /\ [][Next]_registryVars

-----------------------------------------------------------------------------

Steps == {"idle", "made", "numbered", "registered", "calling", "using",
          "refused", "checked", "closing", "zeroing"}

\* Types; no handle is in use that the counter has not given out.
TypeOK ==
  /\ nextHandle \in 0..MaxHandles
  /\ clientsMap \in [Handles -> Objects \cup {NoObject}]
  /\ handle \in [Objects -> 0..nextHandle]
  /\ stage \in [Objects -> {"new", "building", "live", "failed", "finalised"}]
  /\ pc \in [Threads -> Steps]
  /\ obj \in [Threads -> Objects \cup {NoObject}]
  /\ arg \in [Threads -> 0..nextHandle]
  /\ client \in [Threads -> Objects \cup {NoObject}]
  /\ \A t \in Threads : pc[t] = "idle" <=> obj[t] = NoObject

\* A call is carried out by the client of the object it was made on, whatever
\* is closed and constructed between the read of _handle, the lookup and the
\* call: a handle is never another client's, now or after it was closed.
CallReachesOwnClient ==
  \A t \in Threads : pc[t] = "using" => client[t] = obj[t]

\* No thread has closed o and is about to note it.
IsOpen(o) ==
  /\ stage[o] = "live" /\ handle[o] # 0
  /\ \A t \in Threads : obj[t] = o => pc[t] # "zeroing"

\* "client handle not found" only comes of closing: an object that nobody has
\* closed is in the map under its handle.
UsableUntilClosed ==
  \A o \in Objects : IsOpen(o) => clientsMap[handle[o]] = o

\* Thread t will yet bind h to its object, or pass it to GPMC_CloseClient.
WillUse(t, h) ==
  \/ pc[t] \in {"registered", "closing"} /\ arg[t] = h
  \/ pc[t] = "checked" /\ handle[obj[t]] = h

\* o can be closed by its handle h, or a thread is constructing or closing it.
IsOwned(o, h) ==
  \/ stage[o] = "live" /\ handle[o] = h
  \/ \E t \in Threads : obj[t] = o /\ WillUse(t, h)

\* No Go client is leaked: whoever is in the map is under construction, or its
\* object is alive and can close it, or its finaliser is closing it.
NoClientLeaked ==
  \A h \in Handles : clientsMap[h] # NoObject => IsOwned(clientsMap[h], h)
=============================================================================
