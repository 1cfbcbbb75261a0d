------------------------------ MODULE MCRelay ------------------------------
(***************************************************************************)
(* Instances of Relay for TLC.  "pos" and "inventory" are the kiosk page   *)
(* and the inventory service; "pos2" is a second page that claims the name *)
(* "pos" too, as when the kiosk is opened on another screen.               *)
(***************************************************************************)
EXTENDS Relay, TLC

CONSTANTS pos, pos2, inventory, k1, k2, k3, k4, i1, i2

\* Each client's own role, except that pos2 competes with pos.
MCRole == [c \in Client |-> IF c = inventory THEN "inventory" ELSE "pos"]

\* Requests from the page to the service.
MCCall == [i \in Id |-> [by |-> pos, to |-> "inventory"]]

\* Requests to the contested name, from the service.
MCCallBack == [i \in Id |-> [by |-> inventory, to |-> "pos"]]

Connections == Permutations(Conn)

\* Bound: once a link was lost, the second page stays away.
OnePage == cuts' > 0 => ws'[pos2] = NoConn /\ readyState'[pos2] = "off"
=============================================================================
