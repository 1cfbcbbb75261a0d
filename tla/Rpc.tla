-------------------------------- MODULE Rpc --------------------------------
(***************************************************************************)
(* What ReconnectingSocket.request promises to the code that awaits it,    *)
(* without sockets, names or the relay: a call runs the remote handler at  *)
(* most once, it is settled at most once, and an answer (a resolved or a   *)
(* refused promise) comes only from a handler that ran for this very call. *)
(* A call that timed out, threw or was abandoned says nothing about the    *)
(* handler: it may have run, may still run, or may never run.              *)
(* Relay.tla is shown to implement this module.                            *)
(***************************************************************************)
EXTENDS Naturals

CONSTANT Id            \* the calls, each made at most once

VARIABLES
  promise,             \* what the caller's promise has come to
  served               \* how many times a handler ran for the call

vars == <<promise, served>>

Answer == {"resolved", "refused"}
Settled == Answer \cup {"timedout", "threw", "abandoned"}

TypeOK ==
  /\ promise \in [Id -> {"unsent", "waiting"} \cup Settled]
  /\ served \in [Id -> {0, 1}]

Init ==
  /\ promise = [i \in Id |-> "unsent"]
  /\ served = [i \in Id |-> 0]

\* The call is made; a socket that is still connecting throws at once.
Invoke(i) ==
  /\ promise[i] = "unsent"
  /\ \E r \in {"waiting", "threw"} : promise' = [promise EXCEPT ![i] = r]
  /\ UNCHANGED served

\* The callee's handler runs, whatever became of the promise meanwhile.
Serve(i) ==
  /\ promise[i] \notin {"unsent", "threw"}
  /\ served[i] = 0
  /\ served' = [served EXCEPT ![i] = 1]
  /\ UNCHANGED promise

Settle(i) ==
  /\ promise[i] = "waiting"
  /\ \/ /\ served[i] = 1
        /\ \E r \in Answer : promise' = [promise EXCEPT ![i] = r]
     \/ promise' = [promise EXCEPT ![i] = "timedout"]
  /\ UNCHANGED served

\* The caller's process ends: all its open calls are forgotten together.
Abandon ==
  /\ \E S \in SUBSET {i \in Id : promise[i] = "waiting"} :
       promise' = [i \in Id |-> IF i \in S THEN "abandoned" ELSE promise[i]]
  /\ UNCHANGED served

Next == Abandon \/ \E i \in Id : Invoke(i) \/ Serve(i) \/ Settle(i)

Spec == Init /\ [][Next]_vars
=============================================================================
