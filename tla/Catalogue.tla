----------------------------- MODULE Catalogue -----------------------------
(***************************************************************************)
(* What saving products promises, without what a thread reads before its   *)
(* transaction: a save is one step, which looks the code up and writes.    *)
(* It takes the product of the code's first spelling that is sold, and     *)
(* makes one only if none is, or if a spelling is somebody's card, which   *)
(* hides the others.  It changes no other code's product, and no card.     *)
(* That is promised of a code unless two saves of its product are under    *)
(* way at once, or update_info added a spelling of it; then the code is    *)
(* crossed, and the save may take any product, but leaves the code with    *)
(* one.  Any save may fail, as if it had not been asked for.  An invoice   *)
(* sets what a product is sold as, and nothing else.                       *)
(* ProductSave.tla is shown to implement this module.                      *)
(***************************************************************************)
EXTENDS Integers, Sequences, SequencesExt

CONSTANTS Code, Candidates, Item, Form, Thread, None

VARIABLES
  sold,      \* sold[c]: the product that code c leads to, or None
  cards,     \* the codes that are users' cards
  products,  \* the products there are
  form,      \* form[i]: what product i was last saved or priced as, or None
  asked,     \* asked[t]: the save that thread t is at
  crossed    \* the codes of which less is promised

vars == <<sold, cards, products, form, asked, crossed>>

NoSave == [code |-> None, item |-> None, form |-> None, done |-> FALSE]

Init ==
  /\ sold = [c \in Code |-> None]
  /\ cards = {}
  /\ products = {}
  /\ form = [i \in Item |-> None]
  /\ asked = [t \in Thread |-> NoSave]
  /\ crossed = {}

Alike(c, d) == c # None /\ ToSet(Candidates[c]) \cap ToSet(Candidates[d]) # {}
AllAlike(c) == {d \in Code : Alike(c, d)}

Ask(t, c, i, f) ==
  /\ asked[t] = NoSave
  /\ c = None \/ i = None
  /\ asked' = [asked EXCEPT ![t] = [code |-> c, item |-> i, form |-> f, done |-> FALSE]]
  /\ crossed' = IF \E u \in Thread \ {t} : asked[u].code # None /\ Alike(c, asked[u].code)
                THEN crossed \cup AllAlike(c) ELSE crossed
  /\ UNCHANGED <<sold, cards, products, form>>

\* Product i is the one that a save of code c has to update, or to make.
Known(c, i) ==
  /\ i \in products
  /\ \E k \in DOMAIN Candidates[c] :
       /\ sold[Candidates[c][k]] = i
       /\ \A j \in 1 .. (k - 1) : sold[Candidates[c][j]] = None
Made(c, i) ==
  /\ i \notin products
  /\ sold[c] = None
  /\ \/ \A d \in ToSet(Candidates[c]) : sold[d] = None
     \/ ToSet(Candidates[c]) \cap cards # {}

Save(t, i) ==
  LET c == asked[t].code IN
  /\ c # None /\ ~ asked[t].done
  /\ c \in crossed \/ Known(c, i) \/ Made(c, i)
  /\ products' = products \cup {i}
  /\ form' = [form EXCEPT ![i] = asked[t].form]
  /\ \/ sold' = [sold EXCEPT ![c] = i]
     \/ c \in crossed /\ sold[c] # None /\ sold' = sold
  /\ asked' = [asked EXCEPT ![t].done = TRUE]
  /\ UNCHANGED <<cards, crossed>>

\* A product without a code: a new one, or one that still has none.
SaveUncoded(t, i) ==
  /\ asked[t] # NoSave /\ asked[t].code = None
  /\ \/ asked[t].item = None /\ i \notin products
     \/ asked[t].item = i /\ i \in products /\ \A c \in Code : sold[c] # i
  /\ products' = products \cup {i}
  /\ form' = [form EXCEPT ![i] = asked[t].form]
  /\ asked' = [asked EXCEPT ![t] = NoSave]
  /\ UNCHANGED <<sold, cards, crossed>>

\* Requests are answered, fail, or end with their server.
End(T) ==
  /\ asked' = [t \in Thread |-> IF t \in T THEN NoSave ELSE asked[t]]
  /\ UNCHANGED <<sold, cards, products, form, crossed>>

\* update_info makes a product, looking at no other spelling.
Info(c, i) ==
  /\ sold[c] = None /\ c \notin cards
  /\ i \notin products
  /\ sold' = [sold EXCEPT ![c] = i]
  /\ products' = products \cup {i}
  /\ crossed' = crossed \cup AllAlike(c)
  /\ UNCHANGED <<cards, form, asked>>

\* An invoice prices a product.
Reprice(i, f) ==
  /\ i \in products
  /\ form' = [form EXCEPT ![i] = f]
  /\ UNCHANGED <<sold, cards, products, asked, crossed>>

Register(c) ==
  /\ sold[c] = None
  /\ cards' = cards \cup {c}
  /\ UNCHANGED <<sold, products, form, asked, crossed>>

Next ==
  \/ \E T \in SUBSET Thread : End(T)
  \/ \E t \in Thread, i \in Item : Save(t, i) \/ SaveUncoded(t, i)
  \/ \E c \in Code : Register(c)
  \/ \E c \in Code, i \in Item : Info(c, i)
  \/ \E i \in Item, f \in Form : Reprice(i, f)
  \/ \E t \in Thread, c \in Code \cup {None}, i \in Item \cup {None}, f \in Form : Ask(t, c, i, f)

Spec == Init /\ [][Next]_vars
=============================================================================
