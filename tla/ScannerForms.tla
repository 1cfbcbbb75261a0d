------------------------------ MODULE ScannerForms ------------------------------
(***************************************************************************)
(* The product forms of the scanner page, admin-web/static/app.js (and     *)
(* inventory-v2's, the same here): a form per captured code, filled by a   *)
(* lookup that may fail and be retried while the user types, saved by a    *)
(* request during which the user may go on typing, and thrown away by      *)
(* starting over, after a question if anything is unsaved.                 *)
(*                                                                         *)
(* What a form holds is the number of the user's last edit of it; 0 is     *)
(* what the lookup put there.                                              *)
(***************************************************************************)
EXTENDS Naturals, FiniteSets

CONSTANTS Barcode, NoBarcode, MaxEdit, MaxRetry, MaxLost, MaxWork, None

Key == Barcode \cup NoBarcode

\* raced (history): last edited while a save was under way, and that edit not stored.
\* stored (history): the edit that its last save stored.
Form == [init : BOOLEAN, dirty : BOOLEAN, saved : BOOLEAN, retryable : BOOLEAN, busy : BOOLEAN,
         itemId : BOOLEAN, token : Nat, content : Nat, stored : Nat, raced : BOOLEAN]

\* What the constants have to be.
FormsAssumption ==
    /\ MaxEdit \in Nat /\ MaxRetry \in Nat /\ MaxLost \in Nat /\ MaxWork \in Nat
    /\ Barcode \cap NoBarcode = {} /\ None \notin Form

VARIABLES view,     \* currentView
          captures, \* keys of the captures
          forms,    \* key -> its form on the page, or None
          work,     \* how often the captures were cleared: forms of earlier work are disconnected
          lookups,  \* answers that loadProductForm awaits
          saves,    \* requests of saveForm, each done at the server or not yet
          edits,    \* edits so far
          created,  \* history: products that key k created in the present work
          lost      \* history: answers to a creation that never came

vars == <<view, captures, forms, work, lookups, saves, edits, created, lost>>

Init ==
    /\ view = "scan" /\ captures = {} /\ forms = [k \in Key |-> None] /\ work = 0
    /\ lookups = {} /\ saves = {} /\ edits = 0
    /\ created = [k \in Key |-> 0] /\ lost = [k \in Key |-> 0]

Shown == {k \in Key : forms[k] # None}

NewForm == [init |-> FALSE, dirty |-> FALSE, saved |-> FALSE, retryable |-> FALSE, busy |-> FALSE,
            itemId |-> FALSE, token |-> 1, content |-> 0, stored |-> 0, raced |-> FALSE]

----------------------------------------------------------------------------
(* Captures become forms, and each form waits for its lookup. *)

\* showDetailsView, over captures cs.
ShowDetailsView(cs) ==
    LET new == cs \ Shown
    IN  /\ cs # {}
        /\ view' = "details"
        /\ forms' = [k \in Key |-> IF k \in new THEN NewForm ELSE forms[k]]
        /\ lookups' = lookups \cup {[key |-> k, work |-> work, token |-> 1, retry |-> FALSE] : k \in new}

\* The camera sees a code; the review follows when its timer is due.
Scanned(k) ==
    /\ view = "scan" /\ k \in Barcode \ captures
    /\ captures' = captures \cup {k}
    /\ UNCHANGED <<view, forms, work, lookups, saves, edits, created, lost>>

Review ==
    /\ view = "scan" /\ ShowDetailsView(captures)
    /\ UNCHANGED <<captures, work, saves, edits, created, lost>>

\* A code typed in or read off a picture, or a product without a barcode.
Entered(k) ==
    /\ view = "scan" /\ k \notin captures
    /\ captures' = captures \cup {k}
    /\ ShowDetailsView(captures')
    /\ UNCHANGED <<work, saves, edits, created, lost>>

Current(l) == l.work = work /\ forms[l.key] # None /\ forms[l.key].token = l.token

\* Mutant of Preserve: decided when the lookup was asked for.
PreserveNothing(l, f) == FALSE
Preserve(l, f) == l.retry /\ f.dirty

\* populateProductForm
Populated(f, preserve) ==
    [f EXCEPT !.init = TRUE, !.content = IF preserve THEN @ ELSE 0]

LookupOk(l) ==
    /\ lookups' = lookups \ {l}
    /\ forms' = IF Current(l)
                THEN [forms EXCEPT ![l.key] = Populated(@, Preserve(l, @))]
                ELSE forms
    /\ UNCHANGED <<view, captures, work, saves, edits, created, lost>>

LookupFailed(l) ==
    /\ l.key \in Barcode
    /\ lookups' = lookups \ {l}
    /\ forms' = IF Current(l)
                THEN [forms EXCEPT ![l.key] =
                        [(IF @.init THEN @ ELSE Populated(@, FALSE)) EXCEPT !.retryable = TRUE]]
                ELSE forms
    /\ UNCHANGED <<view, captures, work, saves, edits, created, lost>>

Retry(k) ==
    /\ k \in Shown /\ forms[k].retryable /\ forms[k].token <= MaxRetry
    /\ LET token == forms[k].token + 1
       IN  /\ forms' = [forms EXCEPT ![k].retryable = FALSE, ![k].token = token]
           /\ lookups' = lookups \cup {[key |-> k, work |-> work, token |-> token, retry |-> TRUE]}
    /\ UNCHANGED <<view, captures, work, saves, edits, created, lost>>

----------------------------------------------------------------------------
(* Editing and saving. *)

\* Mutant of MarkFormDirty: a form saved once stays saved.
DirtyOnly(f) == [f EXCEPT !.dirty = TRUE]
MarkFormDirty(f) == [f EXCEPT !.dirty = TRUE, !.saved = FALSE]

Edit(k) ==
    /\ k \in Shown /\ forms[k].init /\ edits < MaxEdit
    /\ edits' = edits + 1
    /\ forms' = [forms EXCEPT ![k] =
            [MarkFormDirty(@) EXCEPT !.content = edits + 1, !.raced = forms[k].busy]]
    /\ UNCHANGED <<view, captures, work, lookups, saves, created, lost>>

\* saveForm: a form the lookup filled has no price and is not valid.
Save(k) ==
    /\ k \in Shown /\ ~forms[k].busy /\ forms[k].content # 0
    /\ forms' = [forms EXCEPT ![k].busy = TRUE]
    /\ saves' = saves \cup {[key |-> k, work |-> work, content |-> forms[k].content, done |-> FALSE,
                             create |-> k \in NoBarcode /\ ~forms[k].itemId]}
    /\ UNCHANGED <<view, captures, work, lookups, edits, created, lost>>

\* The server stores it.
Commit(s) ==
    /\ ~s.done
    /\ saves' = (saves \ {s}) \cup {[s EXCEPT !.done = TRUE]}
    /\ created' = IF s.create /\ s.work = work THEN [created EXCEPT ![s.key] = @ + 1] ELSE created
    /\ UNCHANGED <<view, captures, forms, work, lookups, edits, lost>>

\* Mutant of Kept: the id of the new product is not remembered.
KeptNoId(s, f) ==
    [f EXCEPT !.busy = FALSE, !.saved = TRUE, !.dirty = FALSE, !.stored = s.content,
              !.raced = @ /\ f.content # s.content]

Kept(s, f) ==
    [f EXCEPT !.busy = FALSE, !.saved = TRUE, !.dirty = FALSE, !.stored = s.content,
              !.raced = @ /\ f.content # s.content, !.itemId = s.key \in NoBarcode]

SaveOk(s) ==
    /\ s.done
    /\ saves' = saves \ {s}
    /\ forms' = IF s.work = work THEN [forms EXCEPT ![s.key] = Kept(s, @)] ELSE forms
    /\ UNCHANGED <<view, captures, work, lookups, edits, created, lost>>

\* Mutant of NotKept: the button stays off, as without the finally.
NotKeptBusy(f) == f
NotKept(f) == [f EXCEPT !.busy = FALSE]

\* The request or its answer fails, or the answer is an error.
SaveFailed(s) ==
    /\ s.create /\ s.done => lost[s.key] < MaxLost
    /\ saves' = saves \ {s}
    /\ IF s.work = work
       THEN /\ forms' = [forms EXCEPT ![s.key] = NotKept(@)]
            /\ lost' = IF s.create /\ s.done THEN [lost EXCEPT ![s.key] = @ + 1] ELSE lost
       ELSE UNCHANGED <<forms, lost>>
    /\ UNCHANGED <<view, captures, work, lookups, edits, created>>

HasUnsavedWork ==
    \/ Cardinality(captures) > Cardinality(Shown)
    \/ \E k \in Shown : ~forms[k].saved

\* startOver and "scan another", once the question, if any, is answered.
StartOver ==
    /\ work < MaxWork
    /\ view' = "scan" /\ captures' = {} /\ forms' = [k \in Key |-> None] /\ work' = work + 1
    /\ created' = [k \in Key |-> 0] /\ lost' = [k \in Key |-> 0]
    /\ UNCHANGED <<lookups, saves, edits>>

Next ==
    \/ Review \/ StartOver
    \/ \E k \in Key : Scanned(k) \/ Entered(k) \/ Retry(k) \/ Edit(k) \/ Save(k)
    \/ \E l \in lookups : LookupOk(l) \/ LookupFailed(l)
    \/ \E s \in saves : Commit(s) \/ SaveOk(s) \/ SaveFailed(s)

Spec == Init /\ [][Next]_vars

----------------------------------------------------------------------------
(* Properties. *)

\* The types of the variables; a form's save button is off exactly while one
\* save of it is under way, and no form waits without a way to go on.
TypeOK ==
    /\ view \in {"scan", "details"} /\ work \in 0..MaxWork /\ edits \in 0..MaxEdit
    /\ Shown \subseteq captures /\ captures \subseteq Key /\ (view = "details" => Shown = captures)
    /\ \A k \in Shown : LET f == forms[k] IN
        /\ f \in Form
        /\ f.token \in 1..(MaxRetry + 1) /\ {f.content, f.stored} \subseteq 0..edits
        /\ Cardinality({s \in saves : s.key = k /\ s.work = work}) = IF f.busy THEN 1 ELSE 0
        /\ f.init \/ \E l \in lookups : Current(l) /\ l.key = k
    /\ lookups \subseteq [key : Key, work : 0..work, token : 1..(MaxRetry + 1), retry : BOOLEAN]
    /\ saves \subseteq [key : Key, work : 0..work, content : 1..edits, done : BOOLEAN, create : BOOLEAN]

Unsaved(k) == forms[k].content \notin {0, forms[k].stored}

\* If the page lets its work be thrown away without a question, all of it is
\* stored; only what was typed while the form's save was under way may not be.
WarnsUnlessRaced ==
    ~HasUnsavedWork => Shown = captures /\ \A k \in Shown : Unsaved(k) => forms[k].raced

\* A save of the form has succeeded since its last edit was typed, during it.
Overtaken(k) == forms[k].raced /\ ~forms[k].dirty

\* The answer of a lookup, first or retried, never replaces what the user typed before or
\* meanwhile and has not stored, be it during a save, as long as that save has not ended:
\* its success takes the mark off what was typed during it (app.js:905), and then a lookup
\* retried before the save fills the form anew (app.js:735).
EditsKept == [][\A k \in Shown :
    work' = work /\ Unsaved(k) /\ ~Overtaken(k) => forms'[k].content # 0]_vars

\* However often a product without a barcode is saved, changed and saved
\* again, it is created once; only an answer that never came is paid for with
\* a second product.
UnbarcodedOnce == \A k \in NoBarcode : created[k] <= 1 + lost[k]
=============================================================================
