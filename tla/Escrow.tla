------------------------------- MODULE Escrow -------------------------------
(***************************************************************************)
(* What the cash deposit path promises for each bill, without the reader's *)
(* protocol, the relay or the kiosk page: a bill in the slot comes back or *)
(* is kept, it is kept only once the kiosk has agreed to it (or the        *)
(* service that held it restarted), and it is credited once at most, after *)
(* it is in the box.  Nothing is promised of a kept bill's credit arriving.*)
(* Cash.tla is shown to implement this module.                             *)
(***************************************************************************)
EXTENDS Naturals

CONSTANT Bill

VARIABLES
  where,       \* where[b]: "hand", "slot", "returned" or "box"
  agreed,      \* bills the kiosk agreed to take
  orphaned,    \* bills in the slot when the service restarted
  credits      \* credits[b]: how many deposits were recorded for b

vars == <<where, agreed, orphaned, credits>>

Init ==
  /\ where = [b \in Bill |-> "hand"]
  /\ agreed = {}
  /\ orphaned = {}
  /\ credits = [b \in Bill |-> 0]

Insert(b) ==
  /\ where[b] = "hand"
  /\ where' = [where EXCEPT ![b] = "slot"]
  /\ UNCHANGED <<agreed, orphaned, credits>>

\* The kiosk may agree when it is too late: the bill is returned then.
Agree(b) ==
  /\ where[b] # "hand"
  /\ agreed' = agreed \cup {b}
  /\ UNCHANGED <<where, orphaned, credits>>

Restart ==
  /\ orphaned' = orphaned \cup {b \in Bill : where[b] = "slot"}
  /\ UNCHANGED <<where, agreed, credits>>

Return(b) ==
  /\ where[b] = "slot"
  /\ where' = [where EXCEPT ![b] = "returned"]
  /\ UNCHANGED <<agreed, orphaned, credits>>

Keep(b) ==
  /\ where[b] = "slot"
  /\ b \in agreed \cup orphaned
  /\ where' = [where EXCEPT ![b] = "box"]
  /\ UNCHANGED <<agreed, orphaned, credits>>

Credit(b) ==
  /\ where[b] = "box"
  /\ credits[b] = 0
  /\ credits' = [credits EXCEPT ![b] = 1]
  /\ UNCHANGED <<where, agreed, orphaned>>

Next ==
  \/ Restart
  \/ \E b \in Bill : Insert(b) \/ Agree(b) \/ Return(b) \/ Keep(b) \/ Credit(b)

Spec == Init /\ [][Next]_vars
=============================================================================
