-------------------------- MODULE ReceiveContract ---------------------------
(***************************************************************************)
(* What pgrpc's wrapper promises, without its locks.  To poseidon: the     *)
(* receive state is driven by one goroutine at a time, Close never runs    *)
(* while a receive is in progress, and nothing is received after Close.    *)
(* To the user: the outcome of the call is decided once, by the receive    *)
(* that met it or by Close, and never changes.                             *)
(***************************************************************************)
CONSTANTS Users, Outcomes

VARIABLES
  users,   \* the goroutines inside poseidon's receive state
  shut,    \* the poseidon stream has been closed
  outcome  \* how the call ended, "running" until it has

vars == <<users, shut, outcome>>

Init == users = {} /\ shut = FALSE /\ outcome = "running"

Begin(u) ==
  /\ users = {} /\ ~shut /\ outcome = "running"
  /\ users' = {u}
  /\ UNCHANGED <<shut, outcome>>

\* A receive that delivered a message.
Return(u) ==
  /\ users = {u}
  /\ users' = {}
  /\ UNCHANGED <<shut, outcome>>

\* A receive that ended the call.
Finish(u) ==
  /\ users = {u} /\ outcome = "running"
  /\ users' = {}
  /\ outcome' \in Outcomes
  /\ UNCHANGED shut

Shut ==
  /\ users = {} /\ ~shut
  /\ shut' = TRUE
  /\ UNCHANGED <<users, outcome>>

\* Close decides the outcome of a call that nobody has seen end.
Abandon ==
  /\ users = {} /\ shut /\ outcome = "running"
  /\ outcome' \in Outcomes
  /\ UNCHANGED <<users, shut>>

Next == Shut \/ Abandon \/ \E u \in Users : Begin(u) \/ Return(u) \/ Finish(u)

Spec == Init /\ [][Next]_vars
=============================================================================
