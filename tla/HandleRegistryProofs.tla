------------------------ MODULE HandleRegistryProofs ------------------------
(***************************************************************************)
(* Proofs about HandleRegistry, for any threads, objects and number of     *)
(* handles.                                                                *)
(*                                                                         *)
(* The inductive invariant says that handles and objects are in one-to-one *)
(* correspondence wherever a handle is kept (in the map, in _handle, in a  *)
(* local variable), and how far each thread has come with its object.      *)
(***************************************************************************)
EXTENDS HandleRegistry, TLAPS

\* Somebody takes h to be the handle of o.
Named(o, h) ==
  \/ clientsMap[h] = o
  \/ handle[o] = h
  \/ \E t \in Threads : obj[t] = o /\ arg[t] = h

\* One handle, one object.
NamesInv ==
  \A o, p \in Objects : \A h, k \in Handles :
    Named(o, h) /\ Named(p, k) => (o = p <=> h = k)

InMap(o) == \E h \in Handles : clientsMap[h] = o

Building == {"made", "numbered", "registered"}

\* What a thread knows of its object.
ThreadInv(t) ==
  /\ pc[t] \in {"idle", "made"} => arg[t] = 0
  /\ pc[t] \in Building =>
       /\ stage[obj[t]] = "building"
       /\ \A u \in Threads \ {t} : obj[u] # obj[t]
  /\ pc[t] \notin Building \cup {"idle"} =>
       stage[obj[t]] \in {"live", "finalised"}
  /\ pc[t] \in {"made", "numbered"} => ~InMap(obj[t])
  /\ pc[t] \in {"numbered", "registered"} => arg[t] \in Handles
  /\ pc[t] = "registered" => clientsMap[arg[t]] = obj[t]
  /\ pc[t] = "using" => client[t] = obj[t]
  /\ pc[t] = "closing" =>
       \A h \in Handles : clientsMap[h] = obj[t] => arg[t] = h
  /\ pc[t] = "zeroing" => ~InMap(obj[t])

\* What the map and _handle say of an object.
ObjectInv(o) ==
  /\ stage[o] \in {"new", "failed"} =>
       ~InMap(o) /\ \A t \in Threads : obj[t] # o
  /\ stage[o] \in {"new", "failed", "building"} => handle[o] = 0
  /\ stage[o] \in {"live", "finalised"} =>
       \A h \in Handles : clientsMap[h] = o => handle[o] = h

\* Handles above the counter are unused.
CounterInv == \A h \in Handles : clientsMap[h] # NoObject => h <= nextHandle

IdentityInv ==
  /\ NamesInv
  /\ CounterInv
  /\ \A t \in Threads : ThreadInv(t)
  /\ \A o \in Objects : ObjectInv(o)

-----------------------------------------------------------------------------
\* Every reachable state is well typed, and no handle is used before the
\* counter has given it out.
THEOREM TypeCorrect == Spec => []TypeOK
  <1> USE RegistryAssumption DEF Handles
  <1>1. Init => TypeOK
    BY DEF Init, TypeOK, Steps
  <1>2. TypeOK /\ [Next]_registryVars => TypeOK'
    <2> SUFFICES ASSUME TypeOK, [Next]_registryVars PROVE TypeOK'
      OBVIOUS
    <2> USE DEF TypeOK, Steps, Step, Begin, End, goVars
    <2>1. ASSUME NEW t \in Threads, NEW o \in Objects, NewClient(t, o) PROVE TypeOK'
      BY <2>1 DEF NewClient
    <2>2. ASSUME NEW o \in Objects, NewClientFails(o) PROVE TypeOK'
      BY <2>2 DEF NewClientFails
    <2>3. ASSUME NEW t \in Threads, TakeHandle(t) PROVE TypeOK'
      BY <2>3 DEF TakeHandle
    <2>4. ASSUME NEW t \in Threads, Register(t) PROVE TypeOK'
      BY <2>4 DEF Register
    <2>5. ASSUME NEW t \in Threads, BindHandle(t) PROVE TypeOK'
      BY <2>5 DEF BindHandle
    <2>6. ASSUME NEW t \in Threads, NEW o \in Objects, StartCall(t, o) PROVE TypeOK'
      BY <2>6 DEF StartCall
    <2>7. ASSUME NEW t \in Threads, GetClient(t) PROVE TypeOK'
      BY <2>7 DEF GetClient, Entry
    <2>8. ASSUME NEW t \in Threads, EndCall(t) PROVE TypeOK'
      <3>1. CASE End(t, "using")
        BY <2>8, <3>1 DEF EndCall
      <3>2. CASE End(t, "refused")
        BY <2>8, <3>2 DEF EndCall
      <3>3. QED
        BY <2>8, <3>1, <3>2 DEF EndCall
    <2>9. ASSUME NEW t \in Threads, NEW o \in Objects, StartClose(t, o) PROVE TypeOK'
      BY <2>9 DEF StartClose
    <2>10. ASSUME NEW t \in Threads, NEW o \in Objects, Finalise(t, o) PROVE TypeOK'
      BY <2>10 DEF Finalise
    <2>11. ASSUME NEW t \in Threads, ReadHandle(t) PROVE TypeOK'
      BY <2>11 DEF ReadHandle
    <2>12. ASSUME NEW t \in Threads, CloseClient(t) PROVE TypeOK'
      BY <2>12 DEF CloseClient
    <2>13. ASSUME NEW t \in Threads, ZeroHandle(t) PROVE TypeOK'
      BY <2>13 DEF ZeroHandle
    <2>14. CASE UNCHANGED registryVars
      BY <2>14 DEF registryVars
    <2>15. QED
      BY <2>1, <2>2, <2>3, <2>4, <2>5, <2>6, <2>7, <2>8, <2>9, <2>10,
         <2>11, <2>12, <2>13, <2>14 DEF Next, Proceed
  <1>3. QED
    BY <1>1, <1>2, PTL DEF Spec

-----------------------------------------------------------------------------

\* A thread's handle stands for its object and no other: in another thread ...
LEMMA ThreadsAgree ==
  ASSUME TypeOK, IdentityInv, NEW t \in Threads, NEW u \in Threads,
         pc[t] # "idle", pc[u] # "idle",
         arg[t] \in Handles, arg[u] \in Handles
  PROVE  obj[t] = obj[u] <=> arg[t] = arg[u]
  <1>1. obj[t] \in Objects /\ obj[u] \in Objects
    BY DEF TypeOK
  <1>2. Named(obj[t], arg[t]) /\ Named(obj[u], arg[u])
    BY DEF Named
  <1>3. QED
    BY <1>1, <1>2 DEF IdentityInv, NamesInv

\* ... and in the map.
LEMMA MapAgrees ==
  ASSUME TypeOK, IdentityInv, NEW t \in Threads, pc[t] # "idle",
         arg[t] \in Handles, NEW h \in Handles, clientsMap[h] # NoObject
  PROVE  clientsMap[h] = obj[t] <=> h = arg[t]
  <1>1. obj[t] \in Objects /\ clientsMap[h] \in Objects
    BY DEF TypeOK
  <1>2. Named(obj[t], arg[t]) /\ Named(clientsMap[h], h)
    BY DEF Named
  <1>3. QED
    BY <1>1, <1>2 DEF IdentityInv, NamesInv

\* A step gives an object no handle it was not known by, except TakeHandle.
LEMMA NamesAreOld ==
  ASSUME TypeOK, IdentityInv, [Next]_registryVars,
         \A t \in Threads : ~TakeHandle(t),
         NEW p \in Objects, NEW h \in Handles, Named(p, h)'
  PROVE  Named(p, h)
  <1> USE RegistryAssumption DEF Handles
  <1> USE DEF TypeOK, Step, Begin, End, goVars, Named, IdentityInv, ThreadInv
  <1>1. ASSUME NEW t \in Threads, NEW o \in Objects, NewClient(t, o) PROVE Named(p, h)
    BY <1>1 DEF NewClient
  <1>2. ASSUME NEW o \in Objects, NewClientFails(o) PROVE Named(p, h)
    BY <1>2 DEF NewClientFails
  <1>3. ASSUME NEW t \in Threads, TakeHandle(t) PROVE Named(p, h)
    BY <1>3
  <1>4. ASSUME NEW t \in Threads, Register(t) PROVE Named(p, h)
    BY <1>4 DEF Register
  <1>5. ASSUME NEW t \in Threads, BindHandle(t) PROVE Named(p, h)
    BY <1>5 DEF BindHandle
  <1>6. ASSUME NEW t \in Threads, NEW o \in Objects, StartCall(t, o) PROVE Named(p, h)
    BY <1>6 DEF StartCall
  <1>7. ASSUME NEW t \in Threads, GetClient(t) PROVE Named(p, h)
    BY <1>7 DEF GetClient
  <1>8. ASSUME NEW t \in Threads, EndCall(t) PROVE Named(p, h)
    <2>1. CASE End(t, "using")
      BY <1>8, <2>1 DEF EndCall
    <2>2. CASE End(t, "refused")
      BY <1>8, <2>2 DEF EndCall
    <2>3. QED
      BY <1>8, <2>1, <2>2 DEF EndCall
  <1>9. ASSUME NEW t \in Threads, NEW o \in Objects, StartClose(t, o) PROVE Named(p, h)
    BY <1>9 DEF StartClose
  <1>10. ASSUME NEW t \in Threads, NEW o \in Objects, Finalise(t, o) PROVE Named(p, h)
    BY <1>10 DEF Finalise
  <1>11. ASSUME NEW t \in Threads, ReadHandle(t) PROVE Named(p, h)
    BY <1>11 DEF ReadHandle
  <1>12. ASSUME NEW t \in Threads, CloseClient(t) PROVE Named(p, h)
    BY <1>12 DEF CloseClient
  <1>13. ASSUME NEW t \in Threads, ZeroHandle(t) PROVE Named(p, h)
    BY <1>13 DEF ZeroHandle
  <1>14. CASE UNCHANGED registryVars
    BY <1>14 DEF registryVars
  <1>15. QED
    BY <1>1, <1>2, <1>3, <1>4, <1>5, <1>6, <1>7, <1>8, <1>9, <1>10,
       <1>11, <1>12, <1>13, <1>14 DEF Next, Proceed

\* TakeHandle gives out a handle that nobody has, to an object that has none.
LEMMA NewNameIsFresh ==
  ASSUME TypeOK, IdentityInv, NEW t \in Threads, TakeHandle(t),
         NEW p \in Objects, NEW h \in Handles, Named(p, h)'
  PROVE  \/ Named(p, h) /\ p # obj[t] /\ h # nextHandle'
         \/ p = obj[t] /\ h = nextHandle'
  <1> USE RegistryAssumption DEF Handles, TypeOK, Step, TakeHandle, IdentityInv
  <1>1. pc[t] = "made" /\ obj[t] \in Objects /\ nextHandle' = nextHandle + 1
    OBVIOUS
  <1>2. ASSUME NEW k \in Handles PROVE ~Named(obj[t], k)
    BY <1>1 DEF ThreadInv, ObjectInv, Named, InMap, Building
  <1>3. ASSUME NEW q \in Objects PROVE ~Named(q, nextHandle + 1)
    BY <1>1 DEF CounterInv, Named
  <1>4. CASE Named(p, h)
    BY <1>1, <1>2, <1>3, <1>4
  <1>5. CASE ~Named(p, h)
    BY <1>1, <1>5 DEF Named
  <1>6. QED
    BY <1>4, <1>5

\* Handles and objects stay in one-to-one correspondence.
LEMMA NamesStep ==
  ASSUME TypeOK, IdentityInv, [Next]_registryVars
  PROVE  NamesInv'
  <1> SUFFICES ASSUME NEW p \in Objects, NEW q \in Objects,
                      NEW h \in Handles, NEW k \in Handles,
                      Named(p, h)', Named(q, k)'
               PROVE  p = q <=> h = k
    BY DEF NamesInv
  <1>1. CASE \A t \in Threads : ~TakeHandle(t)
    <2>1. Named(p, h) /\ Named(q, k)
      BY <1>1, NamesAreOld
    <2>2. QED
      BY <2>1 DEF IdentityInv, NamesInv
  <1>2. ASSUME NEW t \in Threads, TakeHandle(t) PROVE p = q <=> h = k
    <2>1. \/ Named(p, h) /\ p # obj[t] /\ h # nextHandle'
          \/ p = obj[t] /\ h = nextHandle'
      BY <1>2, NewNameIsFresh
    <2>2. \/ Named(q, k) /\ q # obj[t] /\ k # nextHandle'
          \/ q = obj[t] /\ k = nextHandle'
      BY <1>2, NewNameIsFresh
    <2>3. QED
      BY <2>1, <2>2 DEF IdentityInv, NamesInv
  <1>3. QED
    BY <1>1, <1>2

LEMMA CounterStep ==
  ASSUME TypeOK, IdentityInv, [Next]_registryVars
  PROVE  CounterInv'
  <1> USE RegistryAssumption DEF Handles, TypeOK, Step, Begin, End, goVars,
          IdentityInv, CounterInv, ThreadInv
  <1>1. ASSUME NEW t \in Threads, NEW o \in Objects, NewClient(t, o) PROVE CounterInv'
    BY <1>1 DEF NewClient
  <1>2. ASSUME NEW o \in Objects, NewClientFails(o) PROVE CounterInv'
    BY <1>2 DEF NewClientFails
  <1>3. ASSUME NEW t \in Threads, TakeHandle(t) PROVE CounterInv'
    BY <1>3 DEF TakeHandle
  <1>4. ASSUME NEW t \in Threads, Register(t) PROVE CounterInv'
    BY <1>4 DEF Register
  <1>5. ASSUME NEW t \in Threads, BindHandle(t) PROVE CounterInv'
    BY <1>5 DEF BindHandle
  <1>6. ASSUME NEW t \in Threads, NEW o \in Objects, StartCall(t, o) PROVE CounterInv'
    BY <1>6 DEF StartCall
  <1>7. ASSUME NEW t \in Threads, GetClient(t) PROVE CounterInv'
    BY <1>7 DEF GetClient
  <1>8. ASSUME NEW t \in Threads, EndCall(t) PROVE CounterInv'
    <2>1. CASE End(t, "using")
      BY <1>8, <2>1 DEF EndCall
    <2>2. CASE End(t, "refused")
      BY <1>8, <2>2 DEF EndCall
    <2>3. QED
      BY <1>8, <2>1, <2>2 DEF EndCall
  <1>9. ASSUME NEW t \in Threads, NEW o \in Objects, StartClose(t, o) PROVE CounterInv'
    BY <1>9 DEF StartClose
  <1>10. ASSUME NEW t \in Threads, NEW o \in Objects, Finalise(t, o) PROVE CounterInv'
    BY <1>10 DEF Finalise
  <1>11. ASSUME NEW t \in Threads, ReadHandle(t) PROVE CounterInv'
    BY <1>11 DEF ReadHandle
  <1>12. ASSUME NEW t \in Threads, CloseClient(t) PROVE CounterInv'
    BY <1>12 DEF CloseClient
  <1>13. ASSUME NEW t \in Threads, ZeroHandle(t) PROVE CounterInv'
    BY <1>13 DEF ZeroHandle
  <1>14. CASE UNCHANGED registryVars
    BY <1>14 DEF registryVars
  <1>15. QED
    BY <1>1, <1>2, <1>3, <1>4, <1>5, <1>6, <1>7, <1>8, <1>9, <1>10,
       <1>11, <1>12, <1>13, <1>14 DEF Next, Proceed

LEMMA ThreadStep ==
  ASSUME TypeOK, IdentityInv, [Next]_registryVars, NEW u \in Threads
  PROVE  ThreadInv(u)'
  <1> USE RegistryAssumption DEF Handles, TypeOK, Steps, Step, Begin, End, goVars,
          IdentityInv, ThreadInv, Building, InMap, ObjectInv
  <1>1. ASSUME NEW t \in Threads, NEW o \in Objects, NewClient(t, o) PROVE ThreadInv(u)'
    BY <1>1 DEF NewClient
  <1>2. ASSUME NEW o \in Objects, NewClientFails(o) PROVE ThreadInv(u)'
    BY <1>2 DEF NewClientFails
  <1>3. ASSUME NEW t \in Threads, TakeHandle(t) PROVE ThreadInv(u)'
    BY <1>3 DEF TakeHandle
  <1>4. ASSUME NEW t \in Threads, Register(t) PROVE ThreadInv(u)'
    BY <1>4, ThreadsAgree DEF Register
  <1>5. ASSUME NEW t \in Threads, BindHandle(t) PROVE ThreadInv(u)'
    BY <1>5 DEF BindHandle
  <1>6. ASSUME NEW t \in Threads, NEW o \in Objects, StartCall(t, o) PROVE ThreadInv(u)'
    BY <1>6 DEF StartCall
  <1>7. ASSUME NEW t \in Threads, GetClient(t) PROVE ThreadInv(u)'
    BY <1>7, MapAgrees DEF GetClient, Entry
  <1>8. ASSUME NEW t \in Threads, EndCall(t) PROVE ThreadInv(u)'
    <2>1. CASE End(t, "using")
      BY <1>8, <2>1 DEF EndCall
    <2>2. CASE End(t, "refused")
      BY <1>8, <2>2 DEF EndCall
    <2>3. QED
      BY <1>8, <2>1, <2>2 DEF EndCall
  <1>9. ASSUME NEW t \in Threads, NEW o \in Objects, StartClose(t, o) PROVE ThreadInv(u)'
    BY <1>9 DEF StartClose
  <1>10. ASSUME NEW t \in Threads, NEW o \in Objects, Finalise(t, o) PROVE ThreadInv(u)'
    BY <1>10 DEF Finalise
  <1>11. ASSUME NEW t \in Threads, ReadHandle(t) PROVE ThreadInv(u)'
    BY <1>11 DEF ReadHandle
  <1>12. ASSUME NEW t \in Threads, CloseClient(t) PROVE ThreadInv(u)'
    BY <1>12, ThreadsAgree, MapAgrees DEF CloseClient
  <1>13. ASSUME NEW t \in Threads, ZeroHandle(t) PROVE ThreadInv(u)'
    BY <1>13 DEF ZeroHandle
  <1>14. CASE UNCHANGED registryVars
    BY <1>14 DEF registryVars
  <1>15. QED
    BY <1>1, <1>2, <1>3, <1>4, <1>5, <1>6, <1>7, <1>8, <1>9, <1>10,
       <1>11, <1>12, <1>13, <1>14 DEF Next, Proceed

LEMMA ObjectStep ==
  ASSUME TypeOK, IdentityInv, [Next]_registryVars, NEW q \in Objects
  PROVE  ObjectInv(q)'
  <1> USE RegistryAssumption DEF Handles, TypeOK, Step, Begin, End, goVars,
          IdentityInv, ThreadInv, Building, InMap, ObjectInv
  <1>1. ASSUME NEW t \in Threads, NEW o \in Objects, NewClient(t, o) PROVE ObjectInv(q)'
    BY <1>1 DEF NewClient
  <1>2. ASSUME NEW o \in Objects, NewClientFails(o) PROVE ObjectInv(q)'
    BY <1>2 DEF NewClientFails
  <1>3. ASSUME NEW t \in Threads, TakeHandle(t) PROVE ObjectInv(q)'
    BY <1>3 DEF TakeHandle
  <1>4. ASSUME NEW t \in Threads, Register(t) PROVE ObjectInv(q)'
    BY <1>4 DEF Register
  <1>5. ASSUME NEW t \in Threads, BindHandle(t) PROVE ObjectInv(q)'
    BY <1>5, MapAgrees DEF BindHandle
  <1>6. ASSUME NEW t \in Threads, NEW o \in Objects, StartCall(t, o) PROVE ObjectInv(q)'
    BY <1>6 DEF StartCall
  <1>7. ASSUME NEW t \in Threads, GetClient(t) PROVE ObjectInv(q)'
    BY <1>7 DEF GetClient
  <1>8. ASSUME NEW t \in Threads, EndCall(t) PROVE ObjectInv(q)'
    <2>1. CASE End(t, "using")
      BY <1>8, <2>1 DEF EndCall
    <2>2. CASE End(t, "refused")
      BY <1>8, <2>2 DEF EndCall
    <2>3. QED
      BY <1>8, <2>1, <2>2 DEF EndCall
  <1>9. ASSUME NEW t \in Threads, NEW o \in Objects, StartClose(t, o) PROVE ObjectInv(q)'
    BY <1>9 DEF StartClose
  <1>10. ASSUME NEW t \in Threads, NEW o \in Objects, Finalise(t, o) PROVE ObjectInv(q)'
    BY <1>10 DEF Finalise
  <1>11. ASSUME NEW t \in Threads, ReadHandle(t) PROVE ObjectInv(q)'
    BY <1>11 DEF ReadHandle
  <1>12. ASSUME NEW t \in Threads, CloseClient(t) PROVE ObjectInv(q)'
    BY <1>12 DEF CloseClient
  <1>13. ASSUME NEW t \in Threads, ZeroHandle(t) PROVE ObjectInv(q)'
    BY <1>13 DEF ZeroHandle
  <1>14. CASE UNCHANGED registryVars
    BY <1>14 DEF registryVars
  <1>15. QED
    BY <1>1, <1>2, <1>3, <1>4, <1>5, <1>6, <1>7, <1>8, <1>9, <1>10,
       <1>11, <1>12, <1>13, <1>14 DEF Next, Proceed

\* The parts together: IdentityInv holds throughout.
LEMMA IdentityCorrect == Spec => [](TypeOK /\ IdentityInv)
  <1>1. Init => IdentityInv
    BY RegistryAssumption DEF Init, Handles, IdentityInv, NamesInv, CounterInv,
       Named, ThreadInv, ObjectInv, Building, InMap
  <1>2. TypeOK /\ IdentityInv /\ [Next]_registryVars => IdentityInv'
    BY NamesStep, CounterStep, ThreadStep, ObjectStep DEF IdentityInv
  <1>3. QED
    BY <1>1, <1>2, TypeCorrect, PTL DEF Spec

-----------------------------------------------------------------------------

\* For any threads and objects, a call is carried out by the client of the
\* object it was made on.
THEOREM OwnClient == Spec => []CallReachesOwnClient
  <1>1. TypeOK /\ IdentityInv => CallReachesOwnClient
    BY DEF IdentityInv, ThreadInv, CallReachesOwnClient
  <1>2. QED
    BY <1>1, IdentityCorrect, PTL

\* Only BindHandle opens an object.
LEMMA OpenWasOpen ==
  ASSUME TypeOK, IdentityInv, [Next]_registryVars,
         \A t \in Threads : ~BindHandle(t),
         NEW p \in Objects, IsOpen(p)'
  PROVE  IsOpen(p) /\ handle'[p] = handle[p]
  <1> DEFINE Goal == IsOpen(p) /\ handle'[p] = handle[p]
  <1> USE DEF TypeOK, Step, Begin, End, goVars, IsOpen
  <1>1. ASSUME NEW t \in Threads, NEW o \in Objects, NewClient(t, o) PROVE Goal
    BY <1>1 DEF NewClient
  <1>2. ASSUME NEW o \in Objects, NewClientFails(o) PROVE Goal
    BY <1>2 DEF NewClientFails
  <1>3. ASSUME NEW t \in Threads, TakeHandle(t) PROVE Goal
    BY <1>3 DEF TakeHandle
  <1>4. ASSUME NEW t \in Threads, Register(t) PROVE Goal
    BY <1>4 DEF Register
  <1>5. ASSUME NEW t \in Threads, BindHandle(t) PROVE Goal
    BY <1>5
  <1>6. ASSUME NEW t \in Threads, NEW o \in Objects, StartCall(t, o) PROVE Goal
    BY <1>6 DEF StartCall
  <1>7. ASSUME NEW t \in Threads, GetClient(t) PROVE Goal
    BY <1>7 DEF GetClient
  <1>8. ASSUME NEW t \in Threads, EndCall(t) PROVE Goal
    <2>1. CASE End(t, "using")
      BY <1>8, <2>1 DEF EndCall
    <2>2. CASE End(t, "refused")
      BY <1>8, <2>2 DEF EndCall
    <2>3. QED
      BY <1>8, <2>1, <2>2 DEF EndCall
  <1>9. ASSUME NEW t \in Threads, NEW o \in Objects, StartClose(t, o) PROVE Goal
    BY <1>9 DEF StartClose
  <1>10. ASSUME NEW t \in Threads, NEW o \in Objects, Finalise(t, o) PROVE Goal
    BY <1>10 DEF Finalise
  <1>11. ASSUME NEW t \in Threads, ReadHandle(t) PROVE Goal
    BY <1>11 DEF ReadHandle
  <1>12. ASSUME NEW t \in Threads, CloseClient(t) PROVE Goal
    BY <1>12 DEF CloseClient
  <1>13. ASSUME NEW t \in Threads, ZeroHandle(t) PROVE Goal
    BY <1>13 DEF ZeroHandle
  <1>14. CASE UNCHANGED registryVars
    BY <1>14 DEF registryVars
  <1>15. QED
    BY <1>1, <1>2, <1>3, <1>4, <1>5, <1>6, <1>7, <1>8, <1>9, <1>10,
       <1>11, <1>12, <1>13, <1>14 DEF Next, Proceed


\* For any threads and objects, an object that nobody has closed is in the map,
\* so that no call on it is refused.
THEOREM OpenIsUsable == Spec => []UsableUntilClosed
  <1>1. Init => UsableUntilClosed
    BY DEF Init, UsableUntilClosed, IsOpen
  <1>2. TypeOK /\ IdentityInv /\ UsableUntilClosed /\ [Next]_registryVars
        => UsableUntilClosed'
    <2> SUFFICES ASSUME TypeOK, IdentityInv, UsableUntilClosed,
                        [Next]_registryVars, NEW p \in Objects, IsOpen(p)'
                 PROVE  clientsMap'[handle'[p]] = p
      BY DEF UsableUntilClosed
    <2> USE DEF TypeOK, Step, Handles, goVars
    <2>1. ASSUME NEW t \in Threads, BindHandle(t)
          PROVE  clientsMap'[handle'[p]] = p
      <3>1. clientsMap[arg[t]] = obj[t] /\ clientsMap' = clientsMap
        BY <2>1 DEF BindHandle, End, IdentityInv, ThreadInv
      <3>2. CASE p = obj[t]
        BY <2>1, <3>1, <3>2 DEF BindHandle
      <3>3. CASE p # obj[t]
        BY <2>1, <3>1, <3>3 DEF BindHandle, End, IsOpen, UsableUntilClosed
      <3>4. QED
        BY <3>2, <3>3
    <2>2. CASE \A t \in Threads : ~BindHandle(t)
      <3>1. IsOpen(p) /\ handle'[p] = handle[p]
        BY <2>2, OpenWasOpen
      <3>2. /\ handle[p] \in Handles /\ stage[p] = "live"
            /\ clientsMap[handle[p]] = p /\ p # NoObject
        BY <3>1, RegistryAssumption DEF IsOpen, UsableUntilClosed
      <3>3. ASSUME NEW t \in Threads, Register(t)
            PROVE  clientsMap'[handle[p]] = p
        <4>1. obj[t] # p /\ arg[t] \in Handles /\ pc[t] # "idle"
          BY <3>2, <3>3 DEF Register, IdentityInv, ThreadInv, Building
        <4>2. arg[t] # handle[p]
          BY <3>2, <4>1, MapAgrees
        <4>3. QED
          BY <3>2, <3>3, <4>2 DEF Register
      <3>4. ASSUME NEW t \in Threads, CloseClient(t)
            PROVE  clientsMap'[handle[p]] = p
        <4>1. obj[t] # p /\ pc[t] # "idle"
          BY <3>4 DEF CloseClient, IsOpen
        <4>2. arg[t] # handle[p]
          BY <3>2, <4>1, MapAgrees
        <4>3. QED
          BY <3>2, <3>4, <4>2 DEF CloseClient
      <3>5. CASE UNCHANGED clientsMap
        BY <3>1, <3>2, <3>5
      <3>6. \/ UNCHANGED clientsMap
            \/ \E t \in Threads : Register(t) \/ CloseClient(t)
        BY DEF Next, Proceed, registryVars, NewClient, NewClientFails, TakeHandle,
           BindHandle, StartCall, GetClient, EndCall, StartClose, Finalise,
           ReadHandle, ZeroHandle
      <3>7. QED
        BY <3>1, <3>3, <3>4, <3>5, <3>6
    <2>3. QED
      BY <2>1, <2>2
  <1>3. QED
    BY <1>1, <1>2, IdentityCorrect, PTL DEF Spec

-----------------------------------------------------------------------------

\* For any threads and objects, whoever is in the map can still be closed.
THEOREM NothingLeaks == Spec => []NoClientLeaked
  <1>1. Init => NoClientLeaked
    BY DEF Init, NoClientLeaked
  <1>2. TypeOK /\ IdentityInv /\ NoClientLeaked /\ [Next]_registryVars
        => NoClientLeaked'
    <2> SUFFICES ASSUME TypeOK, IdentityInv, NoClientLeaked,
                        [Next]_registryVars,
                        NEW h \in Handles, clientsMap'[h] # NoObject
                 PROVE  IsOwned(clientsMap[h], h)'
      BY DEF NoClientLeaked
    <2> DEFINE Goal == IsOwned(clientsMap[h], h)'
    <2> USE RegistryAssumption DEF Handles, TypeOK, Step, Begin, End, goVars,
            NoClientLeaked, IsOwned, WillUse
    <2>1. ASSUME NEW t \in Threads, NEW o \in Objects, NewClient(t, o) PROVE Goal
      <3>1. /\ clientsMap'[h] = clientsMap[h] /\ clientsMap[h] \in Objects
            /\ IsOwned(clientsMap[h], h)
        BY <2>1 DEF NewClient
      <3>2. CASE stage[clientsMap[h]] = "live" /\ handle[clientsMap[h]] = h
        BY <2>1, <3>1, <3>2 DEF NewClient
      <3>3. ASSUME NEW u \in Threads, obj[u] = clientsMap[h], WillUse(u, h)
            PROVE  Goal
        <4>1. u # t
          BY <2>1, <3>1, <3>3 DEF NewClient
        <4>2. obj'[u] = clientsMap[h] /\ WillUse(u, h)'
          BY <2>1, <3>1, <3>3, <4>1 DEF NewClient
        <4>3. QED
          BY <3>1, <4>2
      <3>4. QED
        BY <3>1, <3>2, <3>3
    <2>2. ASSUME NEW o \in Objects, NewClientFails(o) PROVE Goal
      BY <2>2 DEF NewClientFails
    <2>3. ASSUME NEW t \in Threads, TakeHandle(t) PROVE Goal
      BY <2>3 DEF TakeHandle
    <2>4. ASSUME NEW t \in Threads, Register(t) PROVE Goal
      <3>0. CASE h = arg[t]
        <4>1. clientsMap'[h] = obj[t] /\ WillUse(t, h)' /\ obj'[t] = obj[t]
          BY <2>4, <3>0 DEF Register
        <4>2. QED
          BY <4>1
      <3>. SUFFICES ASSUME h # arg[t] PROVE Goal
        BY <3>0
      <3>1. /\ clientsMap'[h] = clientsMap[h] /\ clientsMap[h] \in Objects
            /\ IsOwned(clientsMap[h], h)
        BY <2>4 DEF Register
      <3>2. CASE stage[clientsMap[h]] = "live" /\ handle[clientsMap[h]] = h
        BY <2>4, <3>1, <3>2 DEF Register
      <3>3. ASSUME NEW u \in Threads, obj[u] = clientsMap[h], WillUse(u, h)
            PROVE  Goal
        <4>1. u # t
          BY <2>4, <3>1, <3>3 DEF Register
        <4>2. obj'[u] = clientsMap[h] /\ WillUse(u, h)'
          BY <2>4, <3>1, <3>3, <4>1 DEF Register
        <4>3. QED
          BY <3>1, <4>2
      <3>4. QED
        BY <3>1, <3>2, <3>3
    <2>5. ASSUME NEW t \in Threads, BindHandle(t) PROVE Goal
      <3>1. /\ clientsMap'[h] = clientsMap[h] /\ clientsMap[h] \in Objects
            /\ IsOwned(clientsMap[h], h)
        BY <2>5 DEF BindHandle
      <3>2. CASE clientsMap[h] = obj[t]
        <4>1. arg[t] \in Handles /\ pc[t] # "idle"
          BY <2>5 DEF BindHandle, IdentityInv, ThreadInv
        <4>2. h = arg[t]
          BY <3>1, <3>2, <4>1, MapAgrees
        <4>3. QED
          BY <2>5, <3>1, <3>2, <4>2 DEF BindHandle
      <3>3. CASE /\ clientsMap[h] # obj[t]
                 /\ stage[clientsMap[h]] = "live" /\ handle[clientsMap[h]] = h
        BY <2>5, <3>1, <3>3 DEF BindHandle
      <3>4. ASSUME NEW u \in Threads, obj[u] = clientsMap[h], WillUse(u, h),
                   clientsMap[h] # obj[t]
            PROVE  Goal
        <4>1. u # t
          BY <2>5, <3>1, <3>4 DEF BindHandle
        <4>2. obj'[u] = clientsMap[h] /\ WillUse(u, h)'
          BY <2>5, <3>1, <3>4, <4>1 DEF BindHandle
        <4>3. QED
          BY <3>1, <4>2
      <3>5. QED
        BY <3>1, <3>2, <3>3, <3>4
    <2>6. ASSUME NEW t \in Threads, NEW o \in Objects, StartCall(t, o) PROVE Goal
      BY <2>6 DEF StartCall
    <2>7. ASSUME NEW t \in Threads, GetClient(t) PROVE Goal
      BY <2>7 DEF GetClient
    <2>8. ASSUME NEW t \in Threads, EndCall(t) PROVE Goal
      <3>1. CASE End(t, "using")
        BY <2>8, <3>1 DEF EndCall
      <3>2. CASE End(t, "refused")
        BY <2>8, <3>2 DEF EndCall
      <3>3. QED
        BY <2>8, <3>1, <3>2 DEF EndCall
    <2>9. ASSUME NEW t \in Threads, NEW o \in Objects, StartClose(t, o) PROVE Goal
      BY <2>9 DEF StartClose
    <2>10. ASSUME NEW t \in Threads, NEW o \in Objects, Finalise(t, o) PROVE Goal
      <3>1. /\ clientsMap'[h] = clientsMap[h] /\ clientsMap[h] \in Objects
            /\ IsOwned(clientsMap[h], h)
        BY <2>10 DEF Finalise
      <3>2. CASE clientsMap[h] = o
        <4>1. stage[o] = "live" /\ handle[o] = h /\ h # 0
          BY <2>10, <3>1, <3>2 DEF Finalise
        <4>2. obj'[t] = o /\ WillUse(t, h)'
          BY <2>10, <4>1 DEF Finalise
        <4>3. QED
          BY <3>1, <3>2, <4>2
      <3>3. CASE /\ clientsMap[h] # o
                 /\ stage[clientsMap[h]] = "live" /\ handle[clientsMap[h]] = h
        BY <2>10, <3>1, <3>3 DEF Finalise
      <3>4. ASSUME NEW u \in Threads, obj[u] = clientsMap[h], WillUse(u, h),
                   clientsMap[h] # o
            PROVE  Goal
        <4>1. u # t
          BY <2>10, <3>1, <3>4 DEF Finalise
        <4>2. obj'[u] = clientsMap[h] /\ WillUse(u, h)'
          BY <2>10, <3>1, <3>4, <4>1 DEF Finalise
        <4>3. QED
          BY <3>1, <4>2
      <3>5. QED
        BY <3>1, <3>2, <3>3, <3>4
    <2>11. ASSUME NEW t \in Threads, ReadHandle(t) PROVE Goal
      <3>1. /\ clientsMap'[h] = clientsMap[h] /\ clientsMap[h] \in Objects
            /\ IsOwned(clientsMap[h], h)
        BY <2>11 DEF ReadHandle
      <3>2. CASE stage[clientsMap[h]] = "live" /\ handle[clientsMap[h]] = h
        BY <2>11, <3>1, <3>2 DEF ReadHandle
      <3>3. ASSUME NEW u \in Threads, obj[u] = clientsMap[h], WillUse(u, h)
            PROVE  Goal
        <4>1. obj'[u] = clientsMap[h] /\ WillUse(u, h)'
          BY <2>11, <3>1, <3>3 DEF ReadHandle
        <4>2. QED
          BY <3>1, <4>1
      <3>4. QED
        BY <3>1, <3>2, <3>3
    <2>12. ASSUME NEW t \in Threads, CloseClient(t) PROVE Goal
      BY <2>12 DEF CloseClient
    <2>13. ASSUME NEW t \in Threads, ZeroHandle(t) PROVE Goal
      <3>1. /\ clientsMap'[h] = clientsMap[h] /\ clientsMap[h] \in Objects
            /\ IsOwned(clientsMap[h], h)
        BY <2>13 DEF ZeroHandle
      <3>2. clientsMap[h] # obj[t]
        BY <2>13 DEF ZeroHandle, IdentityInv, ThreadInv, InMap
      <3>3. CASE stage[clientsMap[h]] = "live" /\ handle[clientsMap[h]] = h
        BY <2>13, <3>1, <3>2, <3>3 DEF ZeroHandle
      <3>4. ASSUME NEW u \in Threads, obj[u] = clientsMap[h], WillUse(u, h)
            PROVE  Goal
        <4>1. u # t
          BY <2>13, <3>1, <3>2, <3>4 DEF ZeroHandle
        <4>2. obj'[u] = clientsMap[h] /\ WillUse(u, h)'
          BY <2>13, <3>1, <3>2, <3>4, <4>1 DEF ZeroHandle
        <4>3. QED
          BY <3>1, <4>2
      <3>5. QED
        BY <3>1, <3>2, <3>3, <3>4
    <2>14. CASE UNCHANGED registryVars
      BY <2>14 DEF registryVars
    <2>15. QED
      BY <2>1, <2>2, <2>3, <2>4, <2>5, <2>6, <2>7, <2>8, <2>9, <2>10,
         <2>11, <2>12, <2>13, <2>14 DEF Next, Proceed
  <1>3. QED
    BY <1>1, <1>2, IdentityCorrect, PTL DEF Spec
=============================================================================
