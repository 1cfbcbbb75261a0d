-------------------------------- MODULE Till --------------------------------
(***************************************************************************)
(* What the kiosk and the inventory service promise about money, without   *)
(* modes, tasks, requests and their timeouts: an order is placed by the    *)
(* user on the screen, is charged at most once, whole, and to that user,   *)
(* however late; an order that was closed is never charged; no balance     *)
(* changes otherwise; and a screen lists only what was charged to the user *)
(* it shows.  Nothing is promised of an order being charged at all.        *)
(* Pos.tla is shown to implement this module.                              *)
(***************************************************************************)
EXTENDS Integers

CONSTANTS User, Nobody, Order,
          Price, Bill          \* cents of an item and of a deposited bill

VARIABLES
  customer,    \* the user on the screen, or Nobody
  listed,      \* the purchases on the screen
  order,       \* order[o]: whether it is open, and then by whom and for how much
  row,         \* row[o]: the transaction of o, or none
  balance      \* balance[u]: the sum of u's transactions

vars == <<customer, listed, order, row, balance>>

New == [state |-> "new", by |-> Nobody, cents |-> 0]
Closed == [New EXCEPT !.state = "closed"]
Open(u, cents) == [state |-> "open", by |-> u, cents |-> cents]
NoRow == [user |-> Nobody, cents |-> 0]

Init ==
  /\ customer = Nobody
  /\ listed = {}
  /\ order = [o \in Order |-> New]
  /\ row = [o \in Order |-> NoRow]
  /\ balance = [u \in User |-> 0]

\* Something is scanned, or a bill credited.
Place(o, cents) ==
  /\ customer # Nobody
  /\ order[o] = New
  /\ order' = [order EXCEPT ![o] = Open(customer, cents)]
  /\ UNCHANGED <<customer, listed, row, balance>>

Charge(o) ==
  LET by == order[o].by IN
  /\ order[o].state = "open"
  /\ row' = [row EXCEPT ![o] = [user |-> by, cents |-> order[o].cents]]
  /\ balance' = [balance EXCEPT ![by] = @ + order[o].cents]
  /\ order' = [order EXCEPT ![o] = Closed]
  /\ UNCHANGED <<customer, listed>>

\* Another screen, or another list, or orders are given up: nothing is charged.
Turn ==
  /\ customer' \in User \cup {Nobody} /\ (customer' = Nobody => listed' = {})
  /\ \A o \in listed' : row[o] = [user |-> customer', cents |-> -Price]
  /\ order' = [o \in Order |-> IF order'[o] = Closed THEN Closed ELSE order[o]]
  /\ UNCHANGED <<row, balance>>

Next ==
  \/ Turn
  \/ \E o \in Order : Charge(o) \/ Place(o, -Price) \/ Place(o, Bill)

Spec == Init /\ [][Next]_vars
=============================================================================
