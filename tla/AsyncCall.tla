----------------------------- MODULE AsyncCall -----------------------------
(***************************************************************************)
(* What the async bridge promises to a coroutine that awaits a call: it    *)
(* ends once, with the outcome of its own operation, or cancelled.         *)
(***************************************************************************)
CONSTANT Requests  \* the calls

VARIABLES
  call,     \* what the coroutine sees of each call
  outcome   \* what the operation of each call has come to

callVars == <<call, outcome>>

Ends == {"ok", "error"}

AbsInit ==
  /\ call = [r \in Requests |-> "idle"]
  /\ outcome = [r \in Requests |-> "none"]

Begin(r) ==
  /\ call[r] = "idle"
  /\ call' = [call EXCEPT ![r] = "waiting"]
  /\ outcome' = [outcome EXCEPT ![r] = "running"]

OperationEnds(r) ==
  /\ outcome[r] = "running"
  /\ \E v \in Ends : outcome' = [outcome EXCEPT ![r] = v]
  /\ UNCHANGED call

Settle(r) ==
  /\ call[r] = "waiting"
  /\ outcome[r] \in Ends
  /\ call' = [call EXCEPT ![r] = outcome[r]]
  /\ UNCHANGED outcome

Cancel(r) ==
  /\ call[r] = "waiting"
  /\ call' = [call EXCEPT ![r] = "cancelled"]
  /\ UNCHANGED outcome

AbsNext == \E r \in Requests :
  Begin(r) \/ OperationEnds(r) \/ Settle(r) \/ Cancel(r)

AbsSpec == AbsInit /\ [][AbsNext]_callVars
=============================================================================
