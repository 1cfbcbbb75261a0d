------------------------------ MODULE AdminLedger ------------------------------
(***************************************************************************)
(* The writers of the table transactions besides the kiosk: the handlers   *)
(* add-transactions and refunds of web/api.js with their page,             *)
(* apps/admin/admin.js (and the scripts add_transactions.js, refund.js,    *)
(* which do the same one by one), and adjust_balance of admin-web.         *)
(*                                                                         *)
(* The handlers take the next id from one query and use it in another, so  *)
(* other writers come between; entries are committed one at a time.  The   *)
(* page keeps a list per kind, sends it whole, and clears it when an       *)
(* answer comes.  Its refund form offers what a user bought last.          *)
(*                                                                         *)
(* A list is a set of entries, each with its number: its order is theirs.  *)
(***************************************************************************)
EXTENDS Integers, Sequences, FiniteSets

CONSTANTS Email,      \* what can be entered as an email
          User,       \* those that are users
          Item,
          Cost,       \* cents of an item
          Limit,      \* transactions looked at for the refund form (5)
          MaxRow,     \* bound: rows of the ledger
          MaxWork,    \* bound: entries, submissions and queries on the page
          None

\* What the constants have to be.
LedgerAssumption ==
    /\ User \subseteq Email /\ Cost \in [Item -> Int] /\ None \notin Email \cup Item
    /\ Limit \in Nat /\ MaxRow \in Nat /\ MaxWork \in Nat

VARIABLES ledger,      \* table transactions: a row for an id
          adjustments, \* table admin_adjustments
          requests,    \* the submissions, in order, as the server and the page see them
          list,        \* transactions and pendingRefunds of the page
          entered,     \* counter: entries made
          form,        \* the refund form: its email and what it offers
          fetches      \* its queries, in order: on their way, or answered

vars == <<ledger, adjustments, requests, list, entered, form, fetches>>

Kind == {"transactions", "refunds"}
Row == [user : User, item : Item \cup {None}, cents : Int, by : Nat]
Entry == [n : 1..MaxWork, email : Email, item : Item \cup {None}, bought : BOOLEAN]

Init ==
    /\ ledger = [id \in {} |-> None]
    /\ adjustments = {}
    /\ requests = <<>>
    /\ list = [k \in Kind |-> {}]
    /\ entered = 0
    /\ form = [email |-> None, of |-> None, offers |-> {}]
    /\ fetches = <<>>

Abs(n) == IF n < 0 THEN -n ELSE n
\* What was done on the page.
Work == entered + Len(requests) + Len(fetches)

LastId == IF DOMAIN ledger = {} THEN 0 ELSE CHOOSE id \in DOMAIN ledger : \A j \in DOMAIN ledger : j <= id

Inserted(id, row) == [j \in DOMAIN ledger \cup {id} |-> IF j = id THEN row ELSE ledger[j]]

----------------------------------------------------------------------------
(* The page. *)

NewEntry(e, i, b) == [n |-> entered + 1, email |-> e, item |-> i, bought |-> b]

Listed(k, e, i, b) ==
    /\ Work < MaxWork
    /\ list' = [list EXCEPT ![k] = @ \cup {NewEntry(e, i, b)}]
    /\ entered' = entered + 1
    /\ UNCHANGED <<ledger, adjustments, requests, form, fetches>>

AddTransaction(e, i) == Listed("transactions", e, i, FALSE)

\* A transaction that is offered, or else any item.  An adjustment has no item
\* and is offered as well.  The offer may still be that of an earlier email.
AddRefund(i, offered) ==
    /\ form.email # None
    /\ offered => i \in form.offers
    /\ ~offered => i \in Item
    /\ Listed("refunds", form.email, i, offered /\ form.of = form.email)

Delete(k, e) ==
    /\ list' = [list EXCEPT ![k] = @ \ {e}]
    /\ UNCHANGED <<ledger, adjustments, requests, entered, form, fetches>>

\* The button stays on while a submission is on its way.
Submit(k) ==
    /\ list[k] # {} /\ Work < MaxWork
    /\ requests' = Append(requests, [kind |-> k, entries |-> list[k], todo |-> {}, pc |-> "sent",
                        cents |-> 0, last |-> 0, inserted |-> 0, failed |-> {}, invalid |-> {},
                        page |-> "waits"])
    /\ UNCHANGED <<ledger, adjustments, list, entered, form, fetches>>

\* The answer clears the list, with what was added meanwhile.
Cleared(r) == {}

Answered(r) ==
    /\ requests[r].pc = "done" /\ requests[r].page = "waits"
    /\ requests' = [requests EXCEPT ![r].page = "answered"]
    /\ list' = [list EXCEPT ![requests[r].kind] = Cleared(requests[r])]
    /\ UNCHANGED <<ledger, adjustments, entered, form, fetches>>

\* The connection fails: the page keeps its list, the server goes on.
Disconnected(r) ==
    /\ requests[r].page = "waits"
    /\ requests' = [requests EXCEPT ![r].page = "failed",
                                    ![r].pc = IF @ = "sent" THEN "ended" ELSE @]
    /\ UNCHANGED <<ledger, adjustments, list, entered, form, fetches>>

\* The refund form's email is changed: what the user bought last is fetched.
ChangeEmail(e) ==
    /\ Work < MaxWork
    /\ form' = [form EXCEPT !.email = e]
    /\ fetches' = Append(fetches, [email |-> e, status |-> "sent", items |-> {}])
    /\ UNCHANGED <<ledger, adjustments, requests, list, entered>>

\* An answer replaces the offers, in whatever order the answers come; that of
\* an unknown user (404) leaves none.
Offered(f) ==
    /\ fetches[f].status \in {"ok", "unknown"}
    /\ form' = [form EXCEPT !.of = fetches[f].email, !.offers = fetches[f].items]
    /\ fetches' = [fetches EXCEPT ![f].status = "end"]
    /\ UNCHANGED <<ledger, adjustments, requests, list, entered>>

FetchFailed(f) ==
    /\ fetches[f].status # "end"
    /\ fetches' = [fetches EXCEPT ![f].status = "end"]
    /\ UNCHANGED <<ledger, adjustments, requests, list, entered, form>>

----------------------------------------------------------------------------
(* The server: user-transactions. *)

\* The last Limit ids of a set.
LastOf(ids) == {id \in ids : Cardinality({j \in ids : j > id}) < Limit}

\* Mutant of UserTransactions: the user is forgotten.
AllTransactions(e) == LastOf({id \in DOMAIN ledger : ledger[id].cents <= 0})

\* The last rows of the user, and of those the ones that spend.
UserTransactions(e) ==
    {id \in LastOf({id \in DOMAIN ledger : ledger[id].user = e}) : ledger[id].cents <= 0}

ServeFetch(f) ==
    /\ fetches[f].status = "sent"
    /\ LET e == fetches[f].email
       IN fetches' = [fetches EXCEPT
            ![f].status = IF e \in User THEN "ok" ELSE "unknown",
            ![f].items = IF e \in User THEN {ledger[id].item : id \in UserTransactions(e)} ELSE {}]
    /\ UNCHANGED <<ledger, adjustments, requests, list, entered, form>>

----------------------------------------------------------------------------
(* The server: add-transactions and refunds, entry after entry. *)

\* Mutant of Next1: the entry after a failed one is skipped.
SkipAfterFailure(r, e) ==
    LET todo == r.todo \ {e}
    IN  [r EXCEPT !.todo = todo, !.pc = IF todo = {} \/ r.failed # {} THEN "done" ELSE "look"]

\* The next entry, or the end.
Next1(r, e) ==
    LET todo == r.todo \ {e}
    IN  [r EXCEPT !.todo = todo, !.pc = IF todo = {} THEN "done" ELSE "look"]

\* The entry at hand.
First(entries) == CHOOSE e \in entries : \A d \in entries : e.n <= d.n

\* refunds first puts aside the entries that name no item.
Begin(r) ==
    LET req == requests[r]
        valid == {e \in req.entries : e.item # None}
    IN /\ req.pc = "sent"
       /\ requests' = [requests EXCEPT ![r] =
              [req EXCEPT !.entries = valid, !.todo = valid, !.invalid = req.entries \ valid,
                          !.pc = IF valid = {} THEN "done" ELSE "look"]]
       /\ UNCHANGED <<ledger, adjustments, list, entered, form, fetches>>

\* The user and the price of the item; items are never deleted.
Look(r) ==
    LET req == requests[r]
        e == First(req.todo)
    IN /\ req.pc = "look"
       /\ requests' = [requests EXCEPT ![r] =
              IF e.email \notin User
              THEN Next1([req EXCEPT !.failed = @ \cup {e}], e)
              ELSE [req EXCEPT !.pc = "last",
                       !.cents = IF req.kind = "refunds" THEN Abs(Cost[e.item]) ELSE -Abs(Cost[e.item])]]
       /\ UNCHANGED <<ledger, adjustments, list, entered, form, fetches>>

ReadLast(r) ==
    /\ requests[r].pc = "last"
    /\ requests' = [requests EXCEPT ![r].pc = "insert", ![r].last = LastId]
    /\ UNCHANGED <<ledger, adjustments, list, entered, form, fetches>>

\* Mutant of Clash: INSERT OR REPLACE.
NoClash(id) == FALSE

\* The primary key.
Clash(id) == id \in DOMAIN ledger

Insert(r) ==
    LET req == requests[r]
        e == First(req.todo)
        id == req.last + 1
    IN /\ req.pc = "insert" /\ id <= MaxRow
       /\ IF Clash(id)
          THEN /\ requests' = [requests EXCEPT ![r] = Next1([req EXCEPT !.failed = @ \cup {e}], e)]
               /\ ledger' = ledger
          ELSE /\ ledger' = Inserted(id, [user |-> e.email, item |-> e.item,
                                          cents |-> req.cents, by |-> r])
               /\ requests' = [requests EXCEPT ![r] = Next1([req EXCEPT !.inserted = @ + 1], e)]
       /\ UNCHANGED <<adjustments, list, entered, form, fetches>>

\* The web server ends and is started again: what was committed stays.
Crash ==
    /\ \E r \in DOMAIN requests : requests[r].pc \notin {"done", "ended"}
    /\ requests' = [r \in DOMAIN requests |->
          IF requests[r].pc \in {"done", "ended"} THEN requests[r]
          ELSE [requests[r] EXCEPT !.pc = "ended", !.page = "failed"]]
    /\ UNCHANGED <<ledger, adjustments, list, entered, form, fetches>>

----------------------------------------------------------------------------
(* The other writers; the id is the table's own. *)

\* adjust_balance: three rows, one transaction.
Adjust(u, c) ==
    /\ LastId < MaxRow
    /\ ledger' = Inserted(LastId + 1, [user |-> u, item |-> None, cents |-> c, by |-> 0])
    /\ adjustments' = adjustments \cup {[id |-> LastId + 1, user |-> u, cents |-> c]}
    /\ UNCHANGED <<requests, list, entered, form, fetches>>

\* The kiosk: a purchase, or a deposit (no item).
Kiosk(u, i) ==
    /\ LastId < MaxRow
    /\ ledger' = Inserted(LastId + 1, [user |-> u, item |-> i, by |-> 0,
                                       cents |-> IF i = None THEN 1 ELSE -Cost[i]])
    /\ UNCHANGED <<adjustments, requests, list, entered, form, fetches>>

Next ==
    \/ \E e \in Email, i \in Item : AddTransaction(e, i)
    \/ \E i \in Item \cup {None}, offered \in BOOLEAN : AddRefund(i, offered)
    \/ \E k \in Kind : Submit(k) \/ \E e \in list[k] : Delete(k, e)
    \/ \E r \in DOMAIN requests : Answered(r) \/ Disconnected(r)
    \/ \E e \in Email : ChangeEmail(e)
    \/ \E f \in DOMAIN fetches : Offered(f) \/ FetchFailed(f) \/ ServeFetch(f)
    \/ \E r \in DOMAIN requests : Begin(r) \/ Look(r) \/ ReadLast(r) \/ Insert(r)
    \/ Crash
    \/ \E u \in User, c \in {-1, 1} : Adjust(u, c)
    \/ \E u \in User, i \in Item \cup {None} : Kiosk(u, i)

Spec == Init /\ [][Next]_vars

----------------------------------------------------------------------------
(* Properties. *)

\* The types of the variables; rows refer to submissions, ids are never
\* skipped, and a submission that works has an entry to do.
TypeOK ==
    /\ DOMAIN ledger = 1..LastId /\ \A id \in DOMAIN ledger : ledger[id] \in Row
    /\ \A id \in DOMAIN ledger : ledger[id].by \in 0..Len(requests)
    /\ \A k \in Kind : list[k] \subseteq Entry
    /\ \A r \in DOMAIN requests :
          /\ requests[r].pc \in {"sent", "look", "last", "insert", "done", "ended"}
          /\ requests[r].todo \cup requests[r].failed \subseteq requests[r].entries
          /\ requests[r].pc \in {"look", "last", "insert"} => requests[r].todo # {}
          /\ requests[r].last \in 0..LastId
    /\ form.email \in Email \cup {None} /\ form.of \in Email \cup {None}

\* The order of ids is the order of time, whoever writes (the last transactions
\* of a user are found by it), and a row that is there never changes.
InOrder ==
    [][/\ \A id \in DOMAIN ledger : id \in DOMAIN ledger' /\ ledger'[id] = ledger[id]
       /\ \A id \in DOMAIN ledger' \ DOMAIN ledger : id > LastId]_vars

Rows(r) == {id \in DOMAIN ledger : ledger[id].by = r}

\* What an answer counts is what happened, whichever writers came between: as
\* many rows as inserted, and one for each entry that was neither failed nor invalid.
ReportIsTrue ==
    \A r \in DOMAIN requests : requests[r].pc = "done" =>
        /\ Cardinality(Rows(r)) = requests[r].inserted
        /\ requests[r].inserted + Cardinality(requests[r].failed) = Cardinality(requests[r].entries)
        /\ \A id \in Rows(r) : \E e \in requests[r].entries \ requests[r].failed :
              e.email = ledger[id].user /\ e.item = ledger[id].item

\* An adjustment of the administrators and the transaction it names agree.
AdjustmentsMatch ==
    \A a \in adjustments :
        a.id \in DOMAIN ledger /\ ledger[a.id].user = a.user /\ ledger[a.id].cents = a.cents

\* What a submission charged or refunded and an answer reported is never
\* listed any more, so that it is not submitted again.
AnsweredIsGone ==
    \A r \in DOMAIN requests : requests[r].page = "answered" =>
        list[requests[r].kind] \cap (requests[r].entries \cup requests[r].invalid) = {}

\* A refund that was picked from the offers for the email in the form is of
\* something that user spent money on.
RefundedWasBought ==
    \A e \in list["refunds"] : e.bought =>
        \E id \in DOMAIN ledger :
            ledger[id].user = e.email /\ ledger[id].item = e.item /\ ledger[id].cents <= 0
=============================================================================
