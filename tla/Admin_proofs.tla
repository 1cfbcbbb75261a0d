------------------------------ MODULE Admin_proofs ------------------------------
(***************************************************************************)
(* Theorems about Admin, for any number of users, items, rows, requests,   *)
(* sessions, products and codes.  Those about products come from           *)
(* ProductSave_proofs.                                                     *)
(*                                                                         *)
(* The argument.  The ledger: ids are 1 up to the last, and the last id a  *)
(* request has read is not beyond it, so an insert that does not clash     *)
(* gets the next id, whoever wrote meanwhile.  Each entry of a request is  *)
(* still to do, failed, or has its one row (Counts); a new entry has a     *)
(* number of its own (Proceeds), so what an answer empties is not listed   *)
(* again.  What is offered was spent when the query was answered,          *)
(* and rows stay (OffersBought).  The users: a session knows what it read  *)
(* only until another writer changes names or emails, which its flag quiet *)
(* tells (Sees); a write that is not excused is of a name nobody has.      *)
(***************************************************************************)
EXTENDS Admin, ProductSave_proofs, FiniteSetTheorems, SequenceTheorems

\* The instances count as this module does.
LEMMA SameCount ==
  \A S : Ledger!Cardinality(S) = Cardinality(S) /\ Users!Cardinality(S) = Cardinality(S)
  BY DEF Ledger!Cardinality, Users!Cardinality, Cardinality

-----------------------------------------------------------------------------
(* The ledger: its invariant *)

LedgerAssumed == Ledger!LedgerAssumption
Ids == DOMAIN ledger
LastId == Ledger!LastId

\* A row that shows that user u spent on item i (or was charged, without one).
Spent(u, i) == \E id \in Ids : ledger[id].user = u /\ ledger[id].item = i /\ ledger[id].cents <= 0

Submission ==
    [kind : Ledger!Kind, entries : SUBSET Ledger!Entry, todo : SUBSET Ledger!Entry,
     pc : {"sent", "look", "last", "insert", "done", "ended"}, cents : Int, last : Nat,
     inserted : Nat, failed : SUBSET Ledger!Entry, invalid : SUBSET Ledger!Entry,
     page : {"waits", "answered", "failed"}]
Fetch == [email : Email, status : {"sent", "ok", "unknown", "end"}, items : SUBSET (Goods \cup {None})]

LedgerTypes ==
    /\ LastId \in Nat /\ Ids = 1..LastId
    /\ \A id \in Ids : ledger[id] \in Ledger!Row /\ ledger[id].by \in 0..Len(requests)
    /\ requests \in Seq(Submission) /\ fetches \in Seq(Fetch)
    /\ list \in [Ledger!Kind -> SUBSET Ledger!Entry] /\ entered \in 0..MaxWork
    /\ form \in [email : Email \cup {None}, of : Email \cup {None}, offers : SUBSET (Goods \cup {None})]

\* What was done of a submission q with the number r: as many rows as it counts,
\* each for an entry that is done and has not failed.
Counts(q, r) ==
    /\ Cardinality(Ledger!Rows(r)) = q.inserted
    /\ \A id \in Ledger!Rows(r) : \E e \in (q.entries \ q.failed) \ q.todo :
          e.email = ledger[id].user /\ e.item = ledger[id].item
    /\ q.pc = "sent" => q.inserted = 0 /\ q.failed = {} /\ q.todo = {}
    /\ q.pc \in {"look", "last", "insert", "done"} =>
          /\ q.inserted + Cardinality(q.failed) + Cardinality(q.todo) = Cardinality(q.entries)
          /\ \A e \in q.entries : e.item \in Goods

\* How far a submission is.
Proceeds(q) ==
    /\ IsFiniteSet(q.entries) /\ q.todo \cup q.failed \subseteq q.entries /\ q.todo \cap q.failed = {}
    /\ \A e \in q.entries \cup q.invalid : e.n <= entered
    /\ q.pc \in {"look", "last", "insert"} => q.todo # {}
    /\ q.pc = "done" => q.todo = {}
    /\ q.pc \in {"last", "insert"} => Ledger!First(q.todo).email \in Customer
    /\ q.last <= LastId
    /\ q.page = "answered" => q.pc = "done" /\ list[q.kind] \cap (q.entries \cup q.invalid) = {}

Submissions == \A r \in DOMAIN requests : Proceeds(requests[r]) /\ Counts(requests[r], r)

Listings == \A k \in Ledger!Kind : IsFiniteSet(list[k]) /\ \A e \in list[k] : e.n <= entered

\* What is offered, and what was picked from the offers, was bought.
OffersBought ==
    /\ \A f \in DOMAIN fetches : \A i \in fetches[f].items : Spent(fetches[f].email, i)
    /\ \A i \in form.offers : Spent(form.of, i)
    /\ RefundedWasBought

LedgerInv == LedgerTypes /\ Submissions /\ Listings /\ OffersBought /\ Ledger!AdjustmentsMatch
-----------------------------------------------------------------------------
(* The ledger: its rows *)

LEMMA LastOfInterval ==
  ASSUME NEW n \in Nat, n # 0
  PROVE  (CHOOSE id \in 1..n : \A j \in 1..n : j <= id) = n
<1>1. n \in 1..n /\ \A j \in 1..n : j <= n
  OBVIOUS
<1>2. \A id \in 1..n : (\A j \in 1..n : j <= id) => id = n
  OBVIOUS
<1>3. QED  BY <1>1, <1>2

LEMMA LastIsCount ==
  /\ \A n \in Nat : Ids = 1..n => LastId = n
  /\ (\A n \in Nat : Ids = 1..n => LastId = n)'
<1>1. \A n \in Nat : n = 0 <=> 1..n = {}
  <2>1. \A n \in Nat : n # 0 => 1 \in 1..n
    OBVIOUS
  <2>2. QED  BY <2>1
<1>2. \A n \in Nat : n # 0 => (CHOOSE id \in 1..n : \A j \in 1..n : j <= id) = n
  BY LastOfInterval
<1>3. \A n \in Nat : Ids = 1..n => LastId = n
  BY <1>1, <1>2 DEF Ids, LastId, Ledger!LastId
<1>4. \A n \in Nat : Ids' = 1..n => LastId' = n
  BY <1>1, <1>2 DEF Ids, LastId, Ledger!LastId
<1>5. QED  BY <1>3, <1>4

\* A row with the next id is the last, and leaves the others alone.
LEMMA RowAdded ==
  ASSUME LedgerTypes, NEW row, ledger' = Ledger!Inserted(LastId + 1, row)
  PROVE  /\ LastId' = LastId + 1 /\ Ids' = 1..(LastId + 1) /\ LastId + 1 \notin Ids
         /\ ledger'[LastId + 1] = row /\ \A id \in Ids : id \in Ids' /\ ledger'[id] = ledger[id]
<1>1. LastId \in Nat /\ Ids = 1..LastId
  BY DEF LedgerTypes
<1> DEFINE n == LastId + 1
<1>2. Ids \cup {n} = 1..n /\ n \notin Ids /\ n \in Nat
  BY <1>1
<1>3. ledger' = [j \in Ids \cup {n} |-> IF j = n THEN row ELSE ledger[j]]
  BY DEF Ledger!Inserted, Ids
<1> HIDE DEF n
<1>4. Ids' = 1..n /\ ledger'[n] = row /\ \A id \in Ids : id \in Ids' /\ ledger'[id] = ledger[id]
  BY <1>2, <1>3 DEF Ids
<1>5. LastId' = n
  BY <1>2, <1>4, LastIsCount
<1>6. QED  BY <1>2, <1>4, <1>5 DEF n

\* The rows of a submission, after one was added.
LEMMA RowsAdded ==
  ASSUME LedgerTypes, NEW row, ledger' = Ledger!Inserted(LastId + 1, row), NEW r
  PROVE  Ledger!Rows(r)' = IF row.by = r THEN Ledger!Rows(r) \cup {LastId + 1} ELSE Ledger!Rows(r)
<1>1. /\ Ids' = 1..(LastId + 1) /\ Ids = 1..LastId /\ LastId \in Nat /\ LastId + 1 \notin Ids
      /\ ledger'[LastId + 1] = row /\ \A id \in Ids : id \in Ids' /\ ledger'[id] = ledger[id]
  BY RowAdded DEF LedgerTypes
<1>2. Ids' = Ids \cup {LastId + 1}
  BY <1>1
<1>3. Ledger!Rows(r)' = {id \in Ids' : ledger'[id].by = r} /\ Ledger!Rows(r) = {id \in Ids : ledger[id].by = r}
  BY DEF Ledger!Rows, Ids
<1> HIDE DEF Ids, LastId
<1>4. QED  BY <1>1, <1>2, <1>3

LEMMA RowsFinite == ASSUME LedgerTypes, NEW r PROVE IsFiniteSet(Ledger!Rows(r)) /\ Ledger!Rows(r) \subseteq Ids
<1>1. IsFiniteSet(Ids)
  BY FS_Interval DEF LedgerTypes
<1>2. Ledger!Rows(r) \subseteq Ids
  BY DEF Ledger!Rows, Ids
<1>3. QED  BY <1>1, <1>2, FS_Subset

\* What was spent stays spent.
LEMMA SpentStays ==
  ASSUME \A id \in Ids : id \in Ids' /\ ledger'[id] = ledger[id]
  PROVE  \A u, i : Spent(u, i) => Spent(u, i)'
  BY DEF Spent

-----------------------------------------------------------------------------
(* The ledger: what the page does *)

\* The submissions and the rows are left alone, and new entries get new numbers.
LEMMA PageStep ==
  ASSUME LedgerInv, LedgerTypes', Listings', OffersBought',
         UNCHANGED <<ledger, adjustments, requests>>, entered <= entered',
         \A k \in Ledger!Kind : \A e \in list'[k] : e \in list[k] \/ e.n > entered
  PROVE  LedgerInv'
<1>1. Ledger!AdjustmentsMatch'
  BY DEF LedgerInv, Ledger!AdjustmentsMatch
<1>2. ASSUME NEW r \in DOMAIN requests  PROVE Proceeds(requests[r])' /\ Counts(requests[r], r)'
  <2>1. Proceeds(requests[r]) /\ Counts(requests[r], r) /\ requests[r] \in Submission
    BY <1>2 DEF LedgerInv, Submissions, LedgerTypes
  <2>2. Ledger!Rows(r)' = Ledger!Rows(r) /\ LastId' = LastId
    BY DEF Ledger!Rows, LastId, Ledger!LastId
  <2>3. Counts(requests[r], r)'
    BY <2>1, <2>2 DEF Counts
  <2>4. ASSUME NEW e \in requests[r].entries \cup requests[r].invalid
        PROVE  e.n <= entered' /\ (requests[r].page = "answered" => e \notin list'[requests[r].kind])
    <3>1. e.n <= entered /\ e.n \in Nat
      BY <2>1, <2>4 DEF Proceeds, Submission, Ledger!Entry
    <3>2. entered \in Nat /\ entered' \in Nat /\ requests[r].kind \in Ledger!Kind
      BY <2>1 DEF LedgerInv, LedgerTypes, Submission
    <3>3. requests[r].page = "answered" => e \notin list[requests[r].kind]
      BY <2>1, <2>4 DEF Proceeds
    <3>4. QED  BY <3>1, <3>2, <3>3
  <2>5. Proceeds(requests[r])'
    BY <2>1, <2>2, <2>4 DEF Proceeds
  <2>6. QED  BY <2>3, <2>5
<1>3. Submissions'
  BY <1>2 DEF Submissions
<1>4. QED  BY <1>1, <1>3 DEF LedgerInv

\* A new entry on one of the lists.
LEMMA ListedKeeps ==
  ASSUME LedgerAssumed, LedgerInv, NEW k \in Ledger!Kind, NEW e \in Email, NEW i \in Goods \cup {None}, NEW b \in BOOLEAN,
         Ledger!Listed(k, e, i, b), b => k = "refunds" /\ Spent(e, i)
  PROVE  LedgerInv'
<1>1. PICK new : new = [n |-> entered + 1, email |-> e, item |-> i, bought |-> b]
  OBVIOUS
<1>2. /\ entered \in Nat /\ entered' = entered + 1 /\ entered' \in 0..MaxWork
      /\ list \in [Ledger!Kind -> SUBSET Ledger!Entry]
      /\ list' = [list EXCEPT ![k] = list[k] \cup {new}]
      /\ UNCHANGED <<ledger, adjustments, requests, form, fetches>>
  <2>1. entered \in Nat /\ Len(requests) \in Nat /\ Len(fetches) \in Nat /\ MaxWork \in Nat
    BY DEF LedgerInv, LedgerTypes, LedgerAssumed, Ledger!LedgerAssumption
  <2>2. entered + Len(requests) + Len(fetches) < MaxWork
    BY DEF Ledger!Listed, Ledger!Work
  <2>3. QED  BY <1>1, <2>1, <2>2 DEF Ledger!Listed, Ledger!NewEntry, LedgerInv, LedgerTypes
<1>3. new \in Ledger!Entry /\ new.n = entered + 1 /\ new.bought = b /\ new.email = e /\ new.item = i
  BY <1>1, <1>2 DEF Ledger!Entry
<1>4. \A j \in Ledger!Kind : list'[j] = IF j = k THEN list[k] \cup {new} ELSE list[j]
  BY <1>2
<1>5. list' \in [Ledger!Kind -> SUBSET Ledger!Entry]
  BY <1>2, <1>3
<1>6. LedgerTypes'
  BY <1>2, <1>5 DEF LedgerInv, LedgerTypes, Ids, LastId, Ledger!LastId
<1>7. \A j \in Ledger!Kind : IsFiniteSet(list'[j])
  <2>1. \A j \in Ledger!Kind : IsFiniteSet(list[j])
    BY DEF LedgerInv, Listings
  <2>2. IsFiniteSet(list[k] \cup {new})
    BY <2>1, FS_AddElement
  <2>3. QED  BY <1>4, <2>1, <2>2
<1>8. \A j \in Ledger!Kind : \A d \in list'[j] : d \in list[j] \/ d = new
  BY <1>4
<1>9. Listings'
  <2>1. \A j \in Ledger!Kind : \A d \in list[j] : d.n <= entered /\ d.n \in Nat
    BY <1>2 DEF LedgerInv, Listings, Ledger!Entry
  <2>2. \A j \in Ledger!Kind : \A d \in list'[j] : d.n <= entered'
    BY <1>2, <1>3, <1>8, <2>1
  <2>3. QED  BY <1>7, <2>2 DEF Listings
<1>10. OffersBought'
  <2>1. \A u, x : Spent(u, x) => Spent(u, x)'
    BY <1>2 DEF Spent, Ids
  <2>2. Ledger!RefundedWasBought'
    <3>1. \A d \in list["refunds"] : d.bought => Spent(d.email, d.item)
      BY DEF LedgerInv, OffersBought, RefundedWasBought, Ledger!RefundedWasBought, Spent, Ids
    <3>2. ASSUME NEW d \in list'["refunds"], d.bought  PROVE Spent(d.email, d.item)
      <4>1. "refunds" \in Ledger!Kind
        BY DEF Ledger!Kind
      <4>2. CASE d \in list["refunds"]
        BY <3>1, <3>2, <4>2
      <4>3. CASE d \notin list["refunds"]
        BY <1>3, <1>4, <3>2, <4>1, <4>3
      <4>4. QED  BY <4>2, <4>3
    <3>3. QED  BY <1>2, <3>2 DEF Ledger!RefundedWasBought, Spent, Ids
  <2>3. QED  BY <1>2, <2>1, <2>2 DEF LedgerInv, OffersBought, RefundedWasBought
<1>11. entered <= entered'
  BY <1>2
<1>12. \A j \in Ledger!Kind : \A d \in list'[j] : d \in list[j] \/ d.n > entered
  BY <1>2, <1>3, <1>8
<1>13. QED  BY <1>2, <1>6, <1>9, <1>10, <1>11, <1>12, PageStep

LEMMA AddTransactionKeeps ==
  ASSUME LedgerAssumed, LedgerInv, NEW e \in Email, NEW i \in Goods, Ledger!AddTransaction(e, i)
  PROVE  LedgerInv'
<1>1. "transactions" \in Ledger!Kind
  BY DEF Ledger!Kind
<1>2. QED  BY <1>1, ListedKeeps DEF Ledger!AddTransaction

\* What was offered for the email in the form was bought by that user.
LEMMA AddRefundKeeps ==
  ASSUME LedgerAssumed, LedgerInv, NEW i \in Goods \cup {None}, NEW offered \in BOOLEAN, Ledger!AddRefund(i, offered)
  PROVE  LedgerInv'
<1>1. "refunds" \in Ledger!Kind
  BY DEF Ledger!Kind
<1>2. PICK b \in BOOLEAN : b = (offered /\ form.of = form.email)
  <2>1. (offered /\ form.of = form.email) \in BOOLEAN
    OBVIOUS
  <2>2. QED  BY <2>1
<1>3. PICK e \in Email : e = form.email
  BY DEF Ledger!AddRefund, LedgerInv, LedgerTypes
<1>4. b => Spent(e, i)
  BY <1>2, <1>3 DEF Ledger!AddRefund, LedgerInv, OffersBought
<1>5. Ledger!Listed("refunds", e, i, b)
  BY <1>2, <1>3, Zenon DEF Ledger!AddRefund
<1>6. QED  BY <1>1, <1>4, <1>5, ListedKeeps

LEMMA DeleteKeeps ==
  ASSUME LedgerInv, NEW k \in Ledger!Kind, NEW e \in list[k], Ledger!Delete(k, e)
  PROVE  LedgerInv'
<1>1. /\ list \in [Ledger!Kind -> SUBSET Ledger!Entry] /\ list' = [list EXCEPT ![k] = list[k] \ {e}]
      /\ UNCHANGED <<ledger, adjustments, requests, entered, form, fetches>>
  BY DEF Ledger!Delete, LedgerInv, LedgerTypes
<1>2. \A j \in Ledger!Kind : list'[j] \subseteq list[j]
  BY <1>1
<1>3. LedgerTypes'
  <2>1. list' \in [Ledger!Kind -> SUBSET Ledger!Entry]
    BY <1>1
  <2>2. QED  BY <1>1, <2>1 DEF LedgerInv, LedgerTypes, Ids, LastId, Ledger!LastId
<1>4. Listings'
  <2>1. \A j \in Ledger!Kind : IsFiniteSet(list'[j])
    BY <1>2, FS_Subset DEF LedgerInv, Listings
  <2>2. QED  BY <1>1, <1>2, <2>1 DEF LedgerInv, Listings
<1>5. OffersBought'
  <2>1. list'["refunds"] \subseteq list["refunds"]
    BY <1>2 DEF Ledger!Kind
  <2>2. QED
    BY <1>1, <2>1 DEF LedgerInv, OffersBought, RefundedWasBought, Ledger!RefundedWasBought, Spent, Ids
<1>6. entered <= entered'
  BY <1>1 DEF LedgerInv, LedgerTypes
<1>7. QED  BY <1>1, <1>2, <1>3, <1>4, <1>5, <1>6, PageStep

\* The queries of the refund form: what they fetch was bought.
LEMMA FetchStep ==
  ASSUME LedgerInv, UNCHANGED <<ledger, adjustments, requests, list, entered>>,
         fetches' \in Seq(Fetch),
         form' \in [email : Email \cup {None}, of : Email \cup {None}, offers : SUBSET (Goods \cup {None})],
         \A f \in DOMAIN fetches' : \A i \in fetches'[f].items : Spent(fetches'[f].email, i),
         \A i \in form'.offers : Spent(form'.of, i)
  PROVE  LedgerInv'
<1>1. LedgerTypes'
  BY DEF LedgerInv, LedgerTypes, Ids, LastId, Ledger!LastId
<1>2. OffersBought'
  BY DEF LedgerInv, OffersBought, RefundedWasBought, Ledger!RefundedWasBought, Spent, Ids
<1>3. Listings' /\ entered <= entered'
  BY DEF LedgerInv, Listings, LedgerTypes
<1>4. QED  BY <1>1, <1>2, <1>3, PageStep

LEMMA ChangeEmailKeeps ==
  ASSUME LedgerInv, NEW e \in Email, Ledger!ChangeEmail(e)
  PROVE  LedgerInv'
<1>1. PICK x : x = [email |-> e, status |-> "sent", items |-> {}]
  OBVIOUS
<1>2. /\ fetches' = Append(fetches, x) /\ fetches \in Seq(Fetch) /\ form' = [form EXCEPT !.email = e]
      /\ UNCHANGED <<ledger, adjustments, requests, list, entered>>
      /\ form \in [email : Email \cup {None}, of : Email \cup {None}, offers : SUBSET (Goods \cup {None})]
  BY <1>1 DEF Ledger!ChangeEmail, LedgerInv, LedgerTypes
<1>3. x \in Fetch /\ x.items = {}
  BY <1>1 DEF Fetch
<1>4. /\ form' \in [email : Email \cup {None}, of : Email \cup {None}, offers : SUBSET (Goods \cup {None})]
      /\ form'.of = form.of /\ form'.offers = form.offers
  BY <1>2
<1>5. /\ fetches' \in Seq(Fetch)
      /\ \A f \in DOMAIN fetches' : (f \in DOMAIN fetches /\ fetches'[f] = fetches[f]) \/ fetches'[f].items = {}
  BY <1>2, <1>3
<1>6. QED
  BY <1>2, <1>4, <1>5, FetchStep DEF LedgerInv, OffersBought

\* One of the queries changes.
LEMMA FetchChanges ==
  ASSUME LedgerInv, UNCHANGED <<ledger, adjustments, requests, list, entered>>, NEW f \in DOMAIN fetches,
         NEW x \in Fetch, fetches' = [fetches EXCEPT ![f] = x], \A i \in x.items : Spent(x.email, i),
         form' \in [email : Email \cup {None}, of : Email \cup {None}, offers : SUBSET (Goods \cup {None})],
         \A i \in form'.offers : Spent(form'.of, i)
  PROVE  LedgerInv'
<1>1. /\ fetches' \in Seq(Fetch) /\ DOMAIN fetches' = DOMAIN fetches
      /\ \A g \in DOMAIN fetches : fetches'[g] = IF g = f THEN x ELSE fetches[g]
  BY DEF LedgerInv, LedgerTypes
<1>2. \A g \in DOMAIN fetches' : \A i \in fetches'[g].items : Spent(fetches'[g].email, i)
  BY <1>1 DEF LedgerInv, OffersBought
<1>3. QED  BY <1>1, <1>2, FetchStep

LEMMA OfferedKeeps ==
  ASSUME LedgerInv, NEW f \in DOMAIN fetches, Ledger!Offered(f) \/ Ledger!FetchFailed(f)
  PROVE  LedgerInv'
<1>1. PICK x : x = [fetches[f] EXCEPT !.status = "end"]
  OBVIOUS
<1>2. fetches[f] \in Fetch /\ fetches \in Seq(Fetch)
      /\ form \in [email : Email \cup {None}, of : Email \cup {None}, offers : SUBSET (Goods \cup {None})]
  BY DEF LedgerInv, LedgerTypes
<1>3. x \in Fetch /\ x.email = fetches[f].email /\ x.items = fetches[f].items
  BY <1>1, <1>2 DEF Fetch
<1>4. /\ UNCHANGED <<ledger, adjustments, requests, list, entered>>
      /\ fetches' = [fetches EXCEPT ![f] = x]
  BY <1>1, <1>2 DEF Ledger!Offered, Ledger!FetchFailed
<1>5. \A i \in x.items : Spent(x.email, i)
  BY <1>3 DEF LedgerInv, OffersBought
<1>6. CASE Ledger!Offered(f)
  <2>1. form' = [form EXCEPT !.of = x.email, !.offers = x.items]
    BY <1>3, <1>6 DEF Ledger!Offered
  <2>2. /\ form' \in [email : Email \cup {None}, of : Email \cup {None}, offers : SUBSET (Goods \cup {None})]
        /\ form'.of = x.email /\ form'.offers = x.items
    BY <1>2, <1>3, <2>1 DEF Fetch
  <2>3. QED  BY <1>3, <1>4, <1>5, <2>2, FetchChanges
<1>7. CASE Ledger!FetchFailed(f)
  <2>1. form' = form
    BY <1>7 DEF Ledger!FetchFailed
  <2>2. QED  BY <1>2, <1>3, <1>4, <1>5, <2>1, FetchChanges DEF LedgerInv, OffersBought
<1>8. QED  BY <1>6, <1>7

LEMMA ServeFetchKeeps ==
  ASSUME LedgerInv, NEW f \in DOMAIN fetches, Ledger!ServeFetch(f)
  PROVE  LedgerInv'
<1>a. UNCHANGED <<ledger, adjustments, requests, list, entered>> /\ form' = form
  BY DEF Ledger!ServeFetch
<1>1. fetches[f] \in Fetch /\ fetches \in Seq(Fetch)
      /\ form \in [email : Email \cup {None}, of : Email \cup {None}, offers : SUBSET (Goods \cup {None})]
      /\ \A id \in Ids : ledger[id] \in Ledger!Row
  BY DEF LedgerInv, LedgerTypes
<1> DEFINE e == fetches[f].email
<1>2. PICK s \in {"ok", "unknown"} : s = IF e \in Customer THEN "ok" ELSE "unknown"
  OBVIOUS
<1>3. PICK items : items = IF e \in Customer THEN {ledger[id].item : id \in Ledger!UserTransactions(e)} ELSE {}
  OBVIOUS
<1>4. Ledger!UserTransactions(e) \subseteq {id \in Ids : ledger[id].user = e /\ ledger[id].cents <= 0}
  BY DEF Ledger!UserTransactions, Ledger!LastOf, Ids
<1>5. items \subseteq Goods \cup {None} /\ \A i \in items : Spent(e, i)
  BY <1>1, <1>3, <1>4 DEF Spent, Ledger!Row
<1>6. PICK x : x = [fetches[f] EXCEPT !.status = s, !.items = items]
  OBVIOUS
<1>7. x \in Fetch /\ x.email = e /\ x.items = items
  BY <1>1, <1>2, <1>5, <1>6 DEF Fetch
<1>8. fetches' = [fetches EXCEPT ![f] = x]
  BY <1>1, <1>2, <1>3, <1>6 DEF Ledger!ServeFetch
<1>9. QED
  BY <1>a, <1>1, <1>5, <1>7, <1>8, FetchChanges DEF LedgerInv, OffersBought

-----------------------------------------------------------------------------
(* The ledger: submissions, while the rows are left alone *)

\* A nonempty set of entries has a first.
LEMMA FirstIsOne ==
  ASSUME NEW S, S \subseteq Ledger!Entry, S # {}
  PROVE  Ledger!First(S) \in S
<1> DEFINE N == {e.n : e \in S}
<1>1. N \subseteq Nat /\ N # {}
  BY DEF Ledger!Entry
<1>2. Min(N) \in N
  BY <1>1, LeastOf
<1>3. \A n \in N : Min(N) <= n
  <2>1. \E x \in N : \A y \in N : x <= y
    <3> DEFINE R == OpToRel(<, Nat)
    <3>1. IsWellFoundedOn(R, Nat)
      BY NatLessThanWellFounded
    <3>2. R = {ss \in Nat \X Nat : ss[1] < ss[2]}
      BY DEF OpToRel
    <3> HIDE DEF R, N
    <3>3. PICK x \in N : \A y \in N : ~ (<<y, x>> \in R)
      BY <1>1, <3>1, WFMin
    <3>4. \A y \in N : x <= y
      <4> SUFFICES ASSUME NEW y \in N  PROVE x <= y
        OBVIOUS
      <4>1. <<y, x>> \in Nat \X Nat /\ ~ (<<y, x>> \in R)
        BY <1>1, <3>3
      <4>2. ~ (y < x)
        BY <3>2, <4>1
      <4>3. QED  BY <1>1, <4>2
    <3>5. QED  BY <3>4
  <2> HIDE DEF N
  <2>2. QED  BY <2>1 DEF Min
<1>4. PICK e \in S : e.n = Min(N)
  BY <1>2
<1>5. \A d \in S : e.n <= d.n
  BY <1>3, <1>4
<1>6. QED  BY <1>5 DEF Ledger!First

\* A submission of the invariant.
LEMMA OneSubmission ==
  ASSUME LedgerInv, NEW r \in DOMAIN requests
  PROVE  /\ requests[r] \in Submission /\ Proceeds(requests[r]) /\ Counts(requests[r], r)
         /\ requests \in Seq(Submission) /\ list \in [Ledger!Kind -> SUBSET Ledger!Entry]
         /\ LastId \in Nat /\ Ids = 1..LastId
  BY DEF LedgerInv, LedgerTypes, Submissions

\* One submission changes, and the lists at most shrink.
LEMMA RequestStep ==
  ASSUME LedgerInv, UNCHANGED <<ledger, adjustments, entered, form, fetches>>,
         NEW r \in DOMAIN requests, NEW q \in Submission, requests' = [requests EXCEPT ![r] = q],
         list' \in [Ledger!Kind -> SUBSET Ledger!Entry], \A k \in Ledger!Kind : list'[k] \subseteq list[k],
         Proceeds(q)', Counts(q, r)
  PROVE  LedgerInv'
<1>1. /\ requests' \in Seq(Submission) /\ DOMAIN requests' = DOMAIN requests /\ Len(requests') = Len(requests)
      /\ \A s \in DOMAIN requests : requests'[s] = IF s = r THEN q ELSE requests[s]
  BY DEF LedgerInv, LedgerTypes
<1>2. LastId' = LastId /\ Ids' = Ids /\ \A s : Ledger!Rows(s)' = Ledger!Rows(s)
  BY DEF LastId, Ids, Ledger!LastId, Ledger!Rows
<1>3. LedgerTypes'
  BY <1>1, <1>2 DEF LedgerInv, LedgerTypes
<1>4. ASSUME NEW s \in DOMAIN requests, s # r  PROVE Proceeds(requests[s])' /\ Counts(requests[s], s)'
  <2>a. requests[s] \in Submission /\ Proceeds(requests[s]) /\ Counts(requests[s], s) /\ requests'[s] = requests[s]
    BY <1>1, <1>4, OneSubmission
  <2>1. Proceeds(requests[s]) /\ Counts(requests[s], s) /\ requests'[s] = requests[s] /\ requests[s].kind \in Ledger!Kind
    BY <2>a DEF Submission
  <2>2. Counts(requests[s], s)'
    BY <1>2, <2>1 DEF Counts
  <2>3. list'[requests[s].kind] \subseteq list[requests[s].kind]
    BY <2>1
  <2>4. Proceeds(requests[s])'
    BY <1>2, <2>1, <2>3 DEF Proceeds
  <2>5. QED  BY <2>2, <2>4
<1>5. Proceeds(requests[r])' /\ Counts(requests[r], r)'
  <2>1. requests'[r] = q
    BY <1>1
  <2>2. Counts(requests[r], r)'
    BY <1>2, <2>1 DEF Counts
  <2>3. Proceeds(requests[r])'
    BY <2>1 DEF Proceeds
  <2>4. QED  BY <2>2, <2>3
<1>6. Submissions'
  BY <1>1, <1>4, <1>5 DEF Submissions
<1>7. Listings'
  <2>1. \A j \in Ledger!Kind : IsFiniteSet(list'[j])
    BY FS_Subset DEF LedgerInv, Listings
  <2>2. QED  BY <2>1 DEF LedgerInv, Listings
<1>8. OffersBought'
  <2>1. list'["refunds"] \subseteq list["refunds"]
    BY DEF Ledger!Kind
  <2>2. QED
    BY <2>1 DEF LedgerInv, OffersBought, RefundedWasBought, Ledger!RefundedWasBought, Spent, Ids
<1>9. Ledger!AdjustmentsMatch'
  BY DEF LedgerInv, Ledger!AdjustmentsMatch
<1>10. QED  BY <1>3, <1>6, <1>7, <1>8, <1>9 DEF LedgerInv

LEMMA SubmitKeeps ==
  ASSUME LedgerInv, NEW k \in Ledger!Kind, Ledger!Submit(k)
  PROVE  LedgerInv'
<1>1. PICK q : q = [kind |-> k, entries |-> list[k], todo |-> {}, pc |-> "sent",
                    cents |-> 0, last |-> 0, inserted |-> 0, failed |-> {}, invalid |-> {}, page |-> "waits"]
  OBVIOUS
<1>2. /\ requests' = Append(requests, q) /\ UNCHANGED <<ledger, adjustments, list, entered, form, fetches>>
      /\ requests \in Seq(Submission) /\ list \in [Ledger!Kind -> SUBSET Ledger!Entry]
  BY <1>1 DEF Ledger!Submit, LedgerInv, LedgerTypes
<1>3. /\ q \in Submission /\ q.entries = list[k] /\ q.todo = {} /\ q.failed = {} /\ q.invalid = {}
      /\ q.pc = "sent" /\ q.inserted = 0 /\ q.last = 0 /\ q.page = "waits"
  BY <1>1, <1>2 DEF Submission
<1>4. /\ requests' \in Seq(Submission) /\ Len(requests') = Len(requests) + 1 /\ Len(requests) \in Nat
      /\ DOMAIN requests' = DOMAIN requests \cup {Len(requests) + 1}
      /\ requests'[Len(requests) + 1] = q /\ DOMAIN requests = 1..Len(requests)
      /\ \A r \in DOMAIN requests : requests'[r] = requests[r]
  BY <1>2, <1>3
<1>5. LastId' = LastId /\ Ids' = Ids /\ \A s : Ledger!Rows(s)' = Ledger!Rows(s)
  BY <1>2 DEF LastId, Ids, Ledger!LastId, Ledger!Rows
<1>6. LedgerTypes'
  BY <1>2, <1>4, <1>5 DEF LedgerInv, LedgerTypes
<1>7. Ledger!Rows(Len(requests) + 1) = {}
  BY <1>4 DEF LedgerInv, LedgerTypes, Ledger!Rows, Ids
<1>8. Counts(q, Len(requests) + 1)
  BY <1>3, <1>7, FS_EmptySet DEF Counts
<1>9. Proceeds(q)
  <2>1. LastId \in Nat
    BY DEF LedgerInv, LedgerTypes
  <2>2. IsFiniteSet(list[k]) /\ \A e \in list[k] : e.n <= entered
    BY DEF LedgerInv, Listings
  <2>3. QED  BY <1>3, <2>1, <2>2 DEF Proceeds
<1>10. ASSUME NEW r \in DOMAIN requests'  PROVE Proceeds(requests[r])' /\ Counts(requests[r], r)'
  <2>1. Proceeds(requests'[r]) /\ Counts(requests'[r], r)
    BY <1>4, <1>8, <1>9, OneSubmission
  <2>2. QED  BY <1>2, <1>5, <2>1 DEF Proceeds, Counts
<1>11. Submissions'
  BY <1>10 DEF Submissions
<1>12. Listings' /\ OffersBought' /\ Ledger!AdjustmentsMatch'
  BY <1>2 DEF LedgerInv, Listings, OffersBought, RefundedWasBought, Ledger!RefundedWasBought, Spent, Ids,
              Ledger!AdjustmentsMatch
<1>13. QED  BY <1>6, <1>11, <1>12 DEF LedgerInv

\* One submission changes, and nothing else.
LEMMA ServerStep ==
  ASSUME LedgerInv, UNCHANGED <<ledger, adjustments, list, entered, form, fetches>>,
         NEW r \in DOMAIN requests, NEW q \in Submission, requests' = [requests EXCEPT ![r] = q],
         Proceeds(q), Counts(q, r)
  PROVE  LedgerInv'
<1>1. Proceeds(q)'
  <2>1. LastId' = LastId
    BY DEF LastId, Ledger!LastId
  <2>2. QED  BY <2>1 DEF Proceeds
<1>2. list' \in [Ledger!Kind -> SUBSET Ledger!Entry] /\ \A k \in Ledger!Kind : list'[k] \subseteq list[k]
  BY DEF LedgerInv, LedgerTypes
<1>3. QED  BY <1>1, <1>2, RequestStep

\* The answer empties the list.
LEMMA AnsweredKeeps ==
  ASSUME LedgerInv, NEW r \in DOMAIN requests, Ledger!Answered(r)
  PROVE  LedgerInv'
<1>1. PICK p : p = requests[r]
  OBVIOUS
<1>2. p \in Submission /\ Proceeds(p) /\ Counts(p, r) /\ p.pc = "done"
  BY <1>1, OneSubmission DEF Ledger!Answered
<1>3. PICK q : q = [p EXCEPT !.page = "answered"]
  OBVIOUS
<1>4. /\ q \in Submission /\ q.kind = p.kind /\ q.entries = p.entries /\ q.todo = p.todo /\ q.pc = p.pc
      /\ q.last = p.last /\ q.inserted = p.inserted /\ q.failed = p.failed /\ q.invalid = p.invalid
  BY <1>2, <1>3 DEF Submission
<1>5. /\ requests' = [requests EXCEPT ![r] = q]
      /\ list' = [list EXCEPT ![p.kind] = {}] /\ UNCHANGED <<ledger, adjustments, entered, form, fetches>>
  BY <1>1, <1>3 DEF Ledger!Answered, Ledger!Cleared
<1>6. list \in [Ledger!Kind -> SUBSET Ledger!Entry] /\ p.kind \in Ledger!Kind
  BY <1>2, OneSubmission DEF Submission
<1>7. /\ list' \in [Ledger!Kind -> SUBSET Ledger!Entry] /\ \A k \in Ledger!Kind : list'[k] \subseteq list[k]
      /\ list'[q.kind] = {}
  BY <1>4, <1>5, <1>6
<1>8. Counts(q, r)
  BY <1>2, <1>4 DEF Counts
<1>9. Proceeds(q)'
  <2>1. LastId' = LastId
    BY <1>5 DEF LastId, Ledger!LastId
  <2>2. QED  BY <1>2, <1>4, <1>5, <1>7, <2>1 DEF Proceeds
<1>10. QED  BY <1>4, <1>5, <1>7, <1>8, <1>9, RequestStep

LEMMA DisconnectedKeeps ==
  ASSUME LedgerInv, NEW r \in DOMAIN requests, Ledger!Disconnected(r)
  PROVE  LedgerInv'
<1>1. PICK p : p = requests[r]
  OBVIOUS
<1>2. p \in Submission /\ Proceeds(p) /\ Counts(p, r)
  BY <1>1, OneSubmission
<1>3. PICK c \in {"sent", "look", "last", "insert", "done", "ended"} : c = IF p.pc = "sent" THEN "ended" ELSE p.pc
  BY <1>2 DEF Submission
<1>4. PICK q : q = [p EXCEPT !.page = "failed", !.pc = c]
  OBVIOUS
<1>5. /\ q \in Submission /\ q.kind = p.kind /\ q.entries = p.entries /\ q.todo = p.todo /\ q.pc = c
      /\ q.last = p.last /\ q.inserted = p.inserted /\ q.failed = p.failed /\ q.invalid = p.invalid
      /\ q.page = "failed"
  BY <1>2, <1>4 DEF Submission
<1>6. /\ requests' = [requests EXCEPT ![r] = q]
      /\ UNCHANGED <<ledger, adjustments, list, entered, form, fetches>>
  <2>1. requests \in Seq(Submission)
    BY OneSubmission
  <2>2. QED  BY <1>1, <1>2, <1>3, <1>4, <2>1 DEF Ledger!Disconnected, Submission
<1>7. Counts(q, r)
  BY <1>2, <1>3, <1>5 DEF Counts
<1>8. Proceeds(q)
  BY <1>2, <1>3, <1>5 DEF Proceeds
<1>9. QED  BY <1>5, <1>6, <1>7, <1>8, ServerStep

\* What a submission is after the entry at hand.
LEMMA NextOne ==
  ASSUME NEW p \in Submission, NEW e \in p.todo, NEW q, q = Ledger!Next1(p, e)
  PROVE  /\ q \in Submission /\ q.kind = p.kind /\ q.entries = p.entries /\ q.todo = p.todo \ {e}
         /\ q.pc = (IF q.todo = {} THEN "done" ELSE "look") /\ q.last = p.last
         /\ q.inserted = p.inserted /\ q.failed = p.failed /\ q.invalid = p.invalid /\ q.page = p.page
<1>1. PICK t \in SUBSET Ledger!Entry : t = p.todo \ {e}
  BY DEF Submission
<1>2. PICK c \in {"done", "look"} : c = IF t = {} THEN "done" ELSE "look"
  OBVIOUS
<1>3. q = [p EXCEPT !.todo = p.todo \ {e}, !.pc = IF p.todo \ {e} = {} THEN "done" ELSE "look"]
  BY Zenon DEF Ledger!Next1
<1>4. (IF p.todo \ {e} = {} THEN "done" ELSE "look") = c
  BY <1>1, <1>2, Zenon
<1>5. q = [p EXCEPT !.todo = t, !.pc = c]
  BY <1>1, <1>3, <1>4, Zenon
<1>6. QED  BY <1>1, <1>2, <1>5 DEF Submission

LEMMA BeginKeeps ==
  ASSUME LedgerInv, NEW r \in DOMAIN requests, Ledger!Begin(r)
  PROVE  LedgerInv'
<1>1. PICK p : p = requests[r]
  OBVIOUS
<1>2. p \in Submission /\ Proceeds(p) /\ Counts(p, r) /\ p.pc = "sent"
  BY <1>1, OneSubmission DEF Ledger!Begin
<1>3. PICK valid : valid = {e \in p.entries : e.item # None}
  OBVIOUS
<1>4. PICK c \in {"done", "look"} : c = IF valid = {} THEN "done" ELSE "look"
  OBVIOUS
<1>5. PICK q : q = [p EXCEPT !.entries = valid, !.todo = valid, !.invalid = p.entries \ valid, !.pc = c]
  OBVIOUS
<1>6. /\ requests' = [requests EXCEPT ![r] = q]
      /\ UNCHANGED <<ledger, adjustments, list, entered, form, fetches>>
  BY <1>1, <1>3, <1>4, <1>5 DEF Ledger!Begin
<1>7. valid \subseteq p.entries /\ p.entries \subseteq Ledger!Entry
  BY <1>2, <1>3 DEF Submission
<1>8. /\ q \in Submission /\ q.kind = p.kind /\ q.entries = valid /\ q.todo = valid /\ q.pc = c
      /\ q.last = p.last /\ q.inserted = p.inserted /\ q.failed = p.failed /\ q.invalid = p.entries \ valid
      /\ q.page = p.page
  BY <1>2, <1>5, <1>7 DEF Submission
<1>9. \A e \in valid : e.item \in Goods
  BY <1>3, <1>7 DEF Ledger!Entry
<1>10. IsFiniteSet(valid) /\ Cardinality(valid) \in Nat
  BY <1>2, <1>7, FS_Subset, FS_CardinalityType DEF Proceeds
<1>11. p.inserted = 0 /\ p.failed = {} /\ Cardinality(Ledger!Rows(r)) = 0
  BY <1>2 DEF Counts
<1>12. Counts(q, r)
  <2>1. Ledger!Rows(r) = {}
    <3>1. LedgerTypes
      BY DEF LedgerInv
    <3>2. IsFiniteSet(Ledger!Rows(r))
      BY <3>1, RowsFinite
    <3>3. QED  BY <1>11, <3>2, FS_EmptySet
  <2>2. q.inserted + Cardinality(q.failed) + Cardinality(q.todo) = Cardinality(q.entries)
    BY <1>8, <1>10, <1>11, FS_EmptySet
  <2>3. Cardinality(Ledger!Rows(r)) = q.inserted /\ q.pc # "sent"
    BY <1>4, <1>8, <1>11
  <2>4. QED  BY <1>8, <1>9, <2>1, <2>2, <2>3 DEF Counts
<1>13. Proceeds(q)
  <2>1. q.todo \cup q.failed \subseteq q.entries /\ q.todo \cap q.failed = {}
    BY <1>8, <1>11
  <2>2. q.entries \cup q.invalid \subseteq p.entries \cup p.invalid
    BY <1>7, <1>8
  <2>3. q.page # "answered"
    BY <1>2, <1>8 DEF Proceeds
  <2>4. QED  BY <1>2, <1>4, <1>8, <1>10, <2>1, <2>2, <2>3 DEF Proceeds
<1>14. QED  BY <1>6, <1>8, <1>12, <1>13, ServerStep

\* An entry has failed: it is put aside.
LEMMA FailKeeps ==
  ASSUME LedgerInv, NEW r \in DOMAIN requests, NEW p, p = requests[r], p.pc \in {"look", "last", "insert"},
         NEW e, e = Ledger!First(p.todo),
         requests' = [requests EXCEPT ![r] = Ledger!Next1([p EXCEPT !.failed = p.failed \cup {e}], e)],
         UNCHANGED <<ledger, adjustments, list, entered, form, fetches>>
  PROVE  LedgerInv'
<1>1. p \in Submission /\ Proceeds(p) /\ Counts(p, r)
  BY OneSubmission
<1>2. e \in p.todo
  BY <1>1, FirstIsOne DEF Proceeds, Submission
<1>3. PICK x : x = [p EXCEPT !.failed = p.failed \cup {e}]
  OBVIOUS
<1>4. /\ x \in Submission /\ x.kind = p.kind /\ x.entries = p.entries /\ x.todo = p.todo
      /\ x.last = p.last /\ x.inserted = p.inserted /\ x.failed = p.failed \cup {e} /\ x.invalid = p.invalid
      /\ x.page = p.page
  BY <1>1, <1>2, <1>3 DEF Submission
<1>5. PICK q : q = Ledger!Next1(x, e)
  OBVIOUS
<1>6. /\ q \in Submission /\ q.kind = p.kind /\ q.entries = p.entries /\ q.todo = p.todo \ {e}
      /\ q.pc = (IF q.todo = {} THEN "done" ELSE "look") /\ q.last = p.last
      /\ q.inserted = p.inserted /\ q.failed = p.failed \cup {e} /\ q.invalid = p.invalid /\ q.page = p.page
  BY <1>2, <1>4, <1>5, NextOne
<1>7. requests' = [requests EXCEPT ![r] = q]
  BY <1>3, <1>5
<1>8. /\ IsFiniteSet(p.entries) /\ p.todo \cup p.failed \subseteq p.entries /\ p.todo \cap p.failed = {}
      /\ p.page # "answered"
  BY <1>1 DEF Proceeds
<1>9. /\ Cardinality(q.todo) = Cardinality(p.todo) - 1 /\ Cardinality(p.todo) \in Nat
      /\ Cardinality(q.failed) = Cardinality(p.failed) + 1 /\ Cardinality(p.failed) \in Nat
  <2>1. IsFiniteSet(p.todo) /\ IsFiniteSet(p.failed) /\ e \notin p.failed
    BY <1>2, <1>8, FS_Subset
  <2>2. Cardinality(p.todo \ {e}) = Cardinality(p.todo) - 1 /\ Cardinality(p.failed \cup {e}) = Cardinality(p.failed) + 1
    BY <1>2, <2>1, FS_AddElement, FS_RemoveElement
  <2>3. QED  BY <1>6, <2>1, <2>2, FS_CardinalityType
<1>10. Counts(q, r)
  <2>1. /\ Cardinality(Ledger!Rows(r)) = p.inserted /\ p.inserted \in Nat
        /\ p.inserted + Cardinality(p.failed) + Cardinality(p.todo) = Cardinality(p.entries)
        /\ \A d \in p.entries : d.item \in Goods
    BY <1>1 DEF Counts, Submission
  <2>2. \A id \in Ledger!Rows(r) : \E d \in (p.entries \ p.failed) \ p.todo :
            d.email = ledger[id].user /\ d.item = ledger[id].item
    BY <1>1 DEF Counts
  <2>3. (p.entries \ p.failed) \ p.todo \subseteq (q.entries \ q.failed) \ q.todo
    BY <1>2, <1>6
  <2>4. \A id \in Ledger!Rows(r) : \E d \in (q.entries \ q.failed) \ q.todo :
            d.email = ledger[id].user /\ d.item = ledger[id].item
    BY <2>2, <2>3
  <2>5. q.inserted + Cardinality(q.failed) + Cardinality(q.todo) = Cardinality(q.entries)
    BY <1>6, <1>9, <2>1
  <2>6. q.pc # "sent"
    BY <1>6
  <2>7. QED  BY <1>6, <2>1, <2>4, <2>5, <2>6 DEF Counts
<1>11. Proceeds(q)
  <2>1. q.todo \cup q.failed \subseteq q.entries /\ q.todo \cap q.failed = {}
    BY <1>2, <1>6, <1>8
  <2>2. q.pc \in {"done", "look"} /\ (q.pc = "look" => q.todo # {}) /\ (q.pc = "done" => q.todo = {})
    BY <1>6
  <2>3. QED  BY <1>1, <1>6, <1>8, <2>1, <2>2 DEF Proceeds
<1>12. QED  BY <1>6, <1>7, <1>10, <1>11, ServerStep

LEMMA LookKeeps ==
  ASSUME LedgerAssumed, LedgerInv, NEW r \in DOMAIN requests, Ledger!Look(r)
  PROVE  LedgerInv'
<1>1. PICK p : p = requests[r]
  OBVIOUS
<1>2. p \in Submission /\ Proceeds(p) /\ Counts(p, r) /\ p.pc = "look"
  BY <1>1, OneSubmission DEF Ledger!Look
<1>3. PICK e : e = Ledger!First(p.todo)
  OBVIOUS
<1>4. e \in p.todo
  BY <1>2, <1>3, FirstIsOne DEF Proceeds, Submission
<1>5. UNCHANGED <<ledger, adjustments, list, entered, form, fetches>>
  BY DEF Ledger!Look
<1>6. CASE e.email \notin Customer
  <2>1. requests' = [requests EXCEPT ![r] = Ledger!Next1([p EXCEPT !.failed = p.failed \cup {e}], e)]
    BY <1>1, <1>3, <1>6 DEF Ledger!Look
  <2>2. QED  BY <1>1, <1>2, <1>3, <1>5, <2>1, FailKeeps
<1>7. CASE e.email \in Customer
  <2>1. e.item \in Goods /\ Cost[e.item] \in Int
    BY <1>2, <1>4 DEF Counts, Proceeds, LedgerAssumed, Ledger!LedgerAssumption
  <2>2. Ledger!Abs(Cost[e.item]) \in Int /\ -Ledger!Abs(Cost[e.item]) \in Int
    BY <2>1 DEF Ledger!Abs
  <2>3. PICK c \in Int : c = IF p.kind = "refunds" THEN Ledger!Abs(Cost[e.item]) ELSE -Ledger!Abs(Cost[e.item])
    BY <2>2
  <2>4. PICK q : q = [p EXCEPT !.pc = "last", !.cents = c]
    OBVIOUS
  <2>5. requests' = [requests EXCEPT ![r] = q]
    BY <1>1, <1>3, <1>7, <2>3, <2>4 DEF Ledger!Look
  <2>6. /\ q \in Submission /\ q.kind = p.kind /\ q.entries = p.entries /\ q.todo = p.todo /\ q.pc = "last"
        /\ q.last = p.last /\ q.inserted = p.inserted /\ q.failed = p.failed /\ q.invalid = p.invalid
        /\ q.page = p.page
    BY <1>2, <2>4 DEF Submission
  <2>7. Counts(q, r)
    BY <1>2, <2>6 DEF Counts
  <2>8. Proceeds(q)
    BY <1>2, <1>3, <1>7, <2>6 DEF Proceeds
  <2>9. QED  BY <1>5, <2>5, <2>6, <2>7, <2>8, ServerStep
<1>8. QED  BY <1>6, <1>7

LEMMA ReadLastKeeps ==
  ASSUME LedgerInv, NEW r \in DOMAIN requests, Ledger!ReadLast(r)
  PROVE  LedgerInv'
<1>1. PICK p : p = requests[r]
  OBVIOUS
<1>2. p \in Submission /\ Proceeds(p) /\ Counts(p, r) /\ p.pc = "last" /\ LastId \in Nat /\ requests \in Seq(Submission)
  BY <1>1, OneSubmission DEF Ledger!ReadLast
<1>3. PICK n \in Nat : n = LastId
  BY <1>2
<1>4. PICK q : q = [p EXCEPT !.pc = "insert", !.last = n]
  OBVIOUS
<1>5. /\ q \in Submission /\ q.kind = p.kind /\ q.entries = p.entries /\ q.todo = p.todo /\ q.pc = "insert"
      /\ q.last = n /\ q.inserted = p.inserted /\ q.failed = p.failed /\ q.invalid = p.invalid
      /\ q.page = p.page
  BY <1>2, <1>4 DEF Submission
<1>6. requests' = [requests EXCEPT ![r] = q] /\ UNCHANGED <<ledger, adjustments, list, entered, form, fetches>>
  BY <1>1, <1>2, <1>3, <1>4 DEF Ledger!ReadLast, LastId
<1>7. Counts(q, r)
  BY <1>2, <1>5 DEF Counts
<1>8. Proceeds(q)
  BY <1>2, <1>3, <1>5 DEF Proceeds
<1>9. QED  BY <1>5, <1>6, <1>7, <1>8, ServerStep

\* The server ends: no row and no list is touched.
LEMMA CrashKeeps ==
  ASSUME LedgerInv, Ledger!Crash
  PROVE  LedgerInv'
<1>u. UNCHANGED <<ledger, adjustments, list, entered, form, fetches>>
  BY DEF Ledger!Crash
<1>1. /\ requests' = [r \in DOMAIN requests |->
             IF requests[r].pc \in {"done", "ended"} THEN requests[r]
             ELSE [requests[r] EXCEPT !.pc = "ended", !.page = "failed"]]
      /\ UNCHANGED <<ledger, adjustments, list, entered, form, fetches>>
  BY DEF Ledger!Crash
<1>2. LastId' = LastId /\ Ids' = Ids /\ \A s : Ledger!Rows(s)' = Ledger!Rows(s)
  BY <1>u DEF LastId, Ids, Ledger!LastId, Ledger!Rows
<1>3. ASSUME NEW r \in DOMAIN requests
      PROVE  requests'[r] \in Submission /\ Proceeds(requests'[r]) /\ Counts(requests'[r], r)
  <2>1. PICK p : p = requests[r]
    OBVIOUS
  <2>2. p \in Submission /\ Proceeds(p) /\ Counts(p, r)
    BY <2>1, OneSubmission
  <2>3. CASE p.pc \in {"done", "ended"}
    BY <1>1, <2>1, <2>2, <2>3
  <2>4. CASE p.pc \notin {"done", "ended"}
    <3>1. PICK q : q = [p EXCEPT !.pc = "ended", !.page = "failed"]
      OBVIOUS
    <3>2. requests'[r] = q
      BY <1>1, <2>1, <2>4, <3>1
    <3>3. /\ q \in Submission /\ q.kind = p.kind /\ q.entries = p.entries /\ q.todo = p.todo /\ q.pc = "ended"
          /\ q.last = p.last /\ q.inserted = p.inserted /\ q.failed = p.failed /\ q.invalid = p.invalid
          /\ q.page = "failed"
      BY <2>2, <3>1 DEF Submission
    <3>4. Counts(q, r)
      BY <2>2, <3>3 DEF Counts
    <3>5. Proceeds(q)
      BY <2>2, <3>3 DEF Proceeds
    <3>6. QED  BY <3>2, <3>3, <3>4, <3>5
  <2>5. QED  BY <2>3, <2>4
<1>4. DOMAIN requests' = DOMAIN requests /\ DOMAIN requests = 1..Len(requests) /\ Len(requests) \in Nat
  <2>1. DOMAIN requests' = DOMAIN requests
    BY <1>1, Zenon
  <2>2. requests \in Seq(Submission)
    BY DEF LedgerInv, LedgerTypes
  <2>3. QED  BY <2>1, <2>2
<1>5. requests' \in Seq(Submission) /\ Len(requests') = Len(requests)
  <2>1. requests' \in [1..Len(requests) -> Submission]
    BY <1>1, <1>3, <1>4
  <2>2. QED  BY <1>4, <2>1, SeqDef
<1>6. LedgerTypes'
  BY <1>u, <1>2, <1>5 DEF LedgerInv, LedgerTypes
<1>7. Submissions'
  <2>1. ASSUME NEW r \in DOMAIN requests'  PROVE Proceeds(requests[r])' /\ Counts(requests[r], r)'
    <3>1. Proceeds(requests'[r]) /\ Counts(requests'[r], r)
      BY <1>3, <1>4, <2>1
    <3>2. QED  BY <1>u, <1>2, <3>1 DEF Proceeds, Counts
  <2>2. QED  BY <2>1 DEF Submissions
<1>8. Listings' /\ OffersBought' /\ Ledger!AdjustmentsMatch'
  BY <1>u DEF LedgerInv, Listings, OffersBought, RefundedWasBought, Ledger!RefundedWasBought, Spent, Ids,
              Ledger!AdjustmentsMatch
<1>9. QED  BY <1>6, <1>7, <1>8 DEF LedgerInv

-----------------------------------------------------------------------------
(* The ledger: new rows *)

\* A row with the next id, written for the submission it names, or for none.
LEMMA LedgerGrows ==
  ASSUME LedgerInv, NEW row \in Ledger!Row, row.by \in 0..Len(requests),
         ledger' = Ledger!Inserted(LastId + 1, row), UNCHANGED <<list, entered, form, fetches>>,
         requests' \in Seq(Submission), Len(requests') = Len(requests),
         \A s \in DOMAIN requests : s # row.by => requests'[s] = requests[s],
         row.by # 0 => Proceeds(requests'[row.by]) /\ Counts(requests[row.by], row.by)',
         Ledger!AdjustmentsMatch'
  PROVE  LedgerInv'
<1>a. LedgerTypes
  BY DEF LedgerInv
<1>1. /\ LastId' = LastId + 1 /\ Ids' = 1..(LastId + 1) /\ LastId + 1 \notin Ids /\ LastId \in Nat /\ Ids = 1..LastId
      /\ ledger'[LastId + 1] = row /\ \A id \in Ids : id \in Ids' /\ ledger'[id] = ledger[id]
  BY <1>a, RowAdded DEF LedgerTypes
<1>2. DOMAIN requests' = DOMAIN requests /\ DOMAIN requests = 1..Len(requests) /\ Len(requests) \in Nat
  BY <1>a DEF LedgerTypes
<1>3. LedgerTypes'
  <2>1. \A id \in Ids' : ledger'[id] \in Ledger!Row /\ ledger'[id].by \in 0..Len(requests')
    <3>1. \A id \in Ids' : id \in Ids \/ id = LastId + 1
      BY <1>1
    <3>2. \A id \in Ids : ledger[id] \in Ledger!Row /\ ledger[id].by \in 0..Len(requests)
      BY <1>a DEF LedgerTypes
    <3>3. QED  BY <1>1, <3>1, <3>2
  <2>2. LastId' \in Nat /\ Ids' = 1..LastId'
    BY <1>1
  <2>3. QED  BY <1>a, <2>1, <2>2 DEF LedgerTypes
<1>4. ASSUME NEW q \in Submission, Proceeds(q)  PROVE Proceeds(q)'
  <2>1. q.last \in Nat
    BY DEF Submission
  <2>2. q.last <= LastId
    BY <1>4 DEF Proceeds
  <2>3. q.last <= LastId'
    BY <1>1, <2>1, <2>2
  <2>4. QED  BY <1>4, <2>3 DEF Proceeds
<1>5. Submissions'
  <2>1. ASSUME NEW r \in DOMAIN requests  PROVE Proceeds(requests[r])' /\ Counts(requests[r], r)'
    <3>1. CASE r = row.by
      <4>1. PICK q \in Submission : q = requests'[r]
        BY <1>2, <2>1
      <4>2. r # 0 /\ Proceeds(q) /\ Counts(requests[r], r)'
        BY <1>2, <2>1, <3>1, <4>1
      <4>3. Proceeds(q)'
        BY <1>4, <4>2
      <4>4. QED  BY <4>1, <4>2, <4>3
    <3>2. CASE r # row.by
      <4>1. requests'[r] = requests[r] /\ Proceeds(requests[r]) /\ Counts(requests[r], r)
        BY <2>1, <3>2, OneSubmission
      <4>2. Ledger!Rows(r)' = Ledger!Rows(r)
        BY <1>a, <3>2, RowsAdded
      <4>3. \A id \in Ledger!Rows(r) : ledger'[id] = ledger[id]
        BY <1>1 DEF Ledger!Rows, Ids
      <4>4. Counts(requests[r], r)'
        BY <4>1, <4>2, <4>3 DEF Counts
      <4>5. requests[r] \in Submission
        BY <2>1, OneSubmission
      <4>6. PICK q \in Submission : q = requests[r]
        BY <4>5
      <4>7. Proceeds(q)'
        BY <1>4, <4>1, <4>6
      <4>8. QED  BY <4>1, <4>4, <4>6, <4>7
    <3>3. QED  BY <3>1, <3>2
  <2>2. QED  BY <1>2, <2>1 DEF Submissions
<1>6. Listings'
  BY DEF LedgerInv, Listings
<1>7. OffersBought'
  <2>1. \A u, i : Spent(u, i) => Spent(u, i)'
    BY <1>1, SpentStays
  <2>2. Ledger!RefundedWasBought'
    <3>1. \A d \in list["refunds"] : d.bought => Spent(d.email, d.item)
      BY DEF LedgerInv, OffersBought, RefundedWasBought, Ledger!RefundedWasBought, Spent, Ids
    <3>2. \A d \in list["refunds"] : d.bought => Spent(d.email, d.item)'
      BY <2>1, <3>1
    <3>3. QED  BY <3>2 DEF Ledger!RefundedWasBought, Spent, Ids
  <2>3. QED  BY <2>1, <2>2 DEF LedgerInv, OffersBought, RefundedWasBought
<1>8. QED  BY <1>3, <1>5, <1>6, <1>7 DEF LedgerInv

\* The adjustments agree with the rows they name, which stay.
LEMMA AdjustmentsStay ==
  ASSUME LedgerInv, NEW row, ledger' = Ledger!Inserted(LastId + 1, row), UNCHANGED adjustments
  PROVE  Ledger!AdjustmentsMatch'
<1>1. \A id \in Ids : id \in Ids' /\ ledger'[id] = ledger[id]
  BY RowAdded DEF LedgerInv
<1>2. QED  BY <1>1 DEF LedgerInv, Ledger!AdjustmentsMatch, Ids

LEMMA InsertKeeps ==
  ASSUME LedgerInv, NEW r \in DOMAIN requests, Ledger!Insert(r)
  PROVE  LedgerInv'
<1>a. LedgerTypes
  BY DEF LedgerInv
<1>1. PICK p : p = requests[r]
  OBVIOUS
<1>2. /\ p \in Submission /\ Proceeds(p) /\ Counts(p, r) /\ p.pc = "insert" /\ LastId \in Nat /\ Ids = 1..LastId
      /\ requests \in Seq(Submission)
  BY <1>1, OneSubmission DEF Ledger!Insert
<1>3. PICK e : e = Ledger!First(p.todo)
  OBVIOUS
<1>4. e \in p.todo
  BY <1>2, <1>3, FirstIsOne DEF Proceeds, Submission
<1>5. UNCHANGED <<adjustments, list, entered, form, fetches>>
  BY DEF Ledger!Insert
<1>6. CASE p.last + 1 \in Ids
  <2>1. requests' = [requests EXCEPT ![r] = Ledger!Next1([p EXCEPT !.failed = p.failed \cup {e}], e)] /\ ledger' = ledger
    BY <1>1, <1>3, <1>6 DEF Ledger!Insert, Ledger!Clash, Ids
  <2>2. QED  BY <1>1, <1>2, <1>3, <1>5, <2>1, FailKeeps
<1>7. CASE p.last + 1 \notin Ids
  <2>a. p.last \in Nat /\ p.inserted \in Nat /\ p.inserted + 1 \in Nat
    BY <1>2 DEF Submission
  <2>b. p.last <= LastId
    BY <1>2 DEF Proceeds
  <2>1. p.last = LastId
    BY <1>2, <1>7, <2>a, <2>b
  <2>2. PICK row : row = [user |-> e.email, item |-> e.item, cents |-> p.cents, by |-> r]
    OBVIOUS
  <2>3. PICK x : x = [p EXCEPT !.inserted = p.inserted + 1]
    OBVIOUS
  <2>4. PICK q : q = Ledger!Next1(x, e)
    OBVIOUS
  <2>5. ledger' = Ledger!Inserted(LastId + 1, row) /\ requests' = [requests EXCEPT ![r] = q]
    BY <1>1, <1>3, <1>7, <2>1, <2>2, <2>3, <2>4, Zenon DEF Ledger!Insert, Ledger!Clash, Ids
  <2>6. /\ x \in Submission /\ x.kind = p.kind /\ x.entries = p.entries /\ x.todo = p.todo
        /\ x.last = p.last /\ x.inserted = p.inserted + 1 /\ x.failed = p.failed /\ x.invalid = p.invalid
        /\ x.page = p.page
    BY <1>2, <2>3, <2>a DEF Submission
  <2>7. /\ q \in Submission /\ q.kind = p.kind /\ q.entries = p.entries /\ q.todo = p.todo \ {e}
        /\ q.pc = (IF q.todo = {} THEN "done" ELSE "look") /\ q.last = p.last
        /\ q.inserted = p.inserted + 1 /\ q.failed = p.failed /\ q.invalid = p.invalid /\ q.page = p.page
    BY <1>4, <2>4, <2>6, NextOne
  <2>8. e.email \in Customer /\ e.item \in Goods /\ p.cents \in Int
    BY <1>2, <1>3, <1>4 DEF Proceeds, Counts, Submission
  <2>9. row \in Ledger!Row /\ row.by = r /\ r \in 1..Len(requests) /\ row.user = e.email /\ row.item = e.item
    BY <1>2, <2>2, <2>8 DEF Ledger!Row
  <2>10. /\ requests' \in Seq(Submission) /\ Len(requests') = Len(requests) /\ requests'[r] = q
         /\ \A s \in DOMAIN requests : s # r => requests'[s] = requests[s]
    BY <1>2, <2>5, <2>7
  <2>11. /\ IsFiniteSet(p.entries) /\ p.todo \cup p.failed \subseteq p.entries /\ p.todo \cap p.failed = {}
         /\ p.page # "answered"
    BY <1>2 DEF Proceeds
  <2>12. Proceeds(q)
    <3>1. q.todo \cup q.failed \subseteq q.entries /\ q.todo \cap q.failed = {}
      BY <1>4, <2>7, <2>11
    <3>2. q.pc \in {"done", "look"} /\ (q.pc = "look" => q.todo # {}) /\ (q.pc = "done" => q.todo = {})
      BY <2>7
    <3>3. QED  BY <1>2, <2>7, <2>11, <3>1, <3>2 DEF Proceeds
  <2>13. Counts(q, r)'
    <3>1. Ledger!Rows(r)' = Ledger!Rows(r) \cup {LastId + 1}
      BY <1>a, <2>5, <2>9, RowsAdded
    <3>2. /\ LastId + 1 \notin Ids /\ ledger'[LastId + 1] = row /\ \A id \in Ids : ledger'[id] = ledger[id]
      BY <1>a, <2>5, RowAdded
    <3>3. IsFiniteSet(Ledger!Rows(r)) /\ Ledger!Rows(r) \subseteq Ids
      BY <1>a, RowsFinite
    <3>4. Cardinality(Ledger!Rows(r)') = Cardinality(Ledger!Rows(r)) + 1
      BY <3>1, <3>2, <3>3, FS_AddElement
    <3>5. Cardinality(Ledger!Rows(r)) = p.inserted /\ p.inserted \in Nat
      BY <1>2 DEF Counts, Submission
    <3>6. p.inserted + Cardinality(p.failed) + Cardinality(p.todo) = Cardinality(p.entries) /\ \A d \in p.entries : d.item \in Goods
      BY <1>2 DEF Counts
    <3>7. Cardinality(q.todo) = Cardinality(p.todo) - 1 /\ Cardinality(p.todo) \in Nat /\ Cardinality(p.failed) \in Nat
      <4>1. IsFiniteSet(p.todo) /\ IsFiniteSet(p.failed)
        BY <2>11, FS_Subset
      <4>2. Cardinality(p.todo \ {e}) = Cardinality(p.todo) - 1
        BY <1>4, <4>1, FS_RemoveElement
      <4>3. QED  BY <2>7, <4>1, <4>2, FS_CardinalityType
    <3>8. (p.entries \ p.failed) \ p.todo \subseteq (q.entries \ q.failed) \ q.todo /\ e \in (q.entries \ q.failed) \ q.todo
      BY <1>4, <2>7, <2>11
    <3>9. \A id \in Ledger!Rows(r) : \E d \in (p.entries \ p.failed) \ p.todo :
              d.email = ledger[id].user /\ d.item = ledger[id].item
      BY <1>2 DEF Counts
    <3>10. \A id \in Ledger!Rows(r)' : \E d \in (q.entries \ q.failed) \ q.todo :
              d.email = ledger'[id].user /\ d.item = ledger'[id].item
      <4>1. ASSUME NEW id \in Ledger!Rows(r)'
            PROVE  \E d \in (q.entries \ q.failed) \ q.todo : d.email = ledger'[id].user /\ d.item = ledger'[id].item
        <5>1. CASE id = LastId + 1
          BY <2>9, <3>2, <3>8, <5>1
        <5>2. CASE id \in Ledger!Rows(r)
          BY <3>2, <3>3, <3>8, <3>9, <5>2
        <5>3. QED  BY <3>1, <4>1, <5>1, <5>2
      <4>2. QED  BY <4>1
    <3>11. q.inserted + Cardinality(q.failed) + Cardinality(q.todo) = Cardinality(q.entries) /\ q.pc # "sent"
      BY <2>7, <3>5, <3>6, <3>7
    <3>12. QED  BY <2>7, <3>4, <3>5, <3>6, <3>10, <3>11 DEF Counts
  <2>14. Counts(requests[r], r)'
    BY <2>10, <2>13 DEF Counts
  <2>15. Ledger!AdjustmentsMatch'
    BY <1>5, <2>5, AdjustmentsStay
  <2>16. row.by \in 0..Len(requests)
    BY <1>2, <2>9
  <2>17. QED  BY <1>5, <2>5, <2>9, <2>10, <2>12, <2>14, <2>15, <2>16, LedgerGrows
<1>8. QED  BY <1>6, <1>7

\* A row of the other writers.
LEMMA OthersGrow ==
  ASSUME LedgerInv, NEW row \in Ledger!Row, row.by = 0, ledger' = Ledger!Inserted(LastId + 1, row),
         UNCHANGED <<requests, list, entered, form, fetches>>, Ledger!AdjustmentsMatch'
  PROVE  LedgerInv'
<1>1. requests' \in Seq(Submission) /\ Len(requests') = Len(requests) /\ row.by \in 0..Len(requests)
  BY DEF LedgerInv, LedgerTypes
<1>2. QED  BY <1>1, LedgerGrows

LEMMA AdjustKeeps ==
  ASSUME LedgerInv, NEW u \in Customer, NEW c \in {-1, 1}, Ledger!Adjust(u, c)
  PROVE  LedgerInv'
<1>1. PICK row : row = [user |-> u, item |-> None, cents |-> c, by |-> 0]
  OBVIOUS
<1>2. row \in Ledger!Row /\ row.by = 0 /\ row.user = u /\ row.cents = c
  BY <1>1 DEF Ledger!Row
<1>3. /\ ledger' = Ledger!Inserted(LastId + 1, row) /\ UNCHANGED <<requests, list, entered, form, fetches>>
      /\ adjustments' = adjustments \cup {[id |-> LastId + 1, user |-> u, cents |-> c]}
  BY <1>1 DEF Ledger!Adjust, LastId
<1>4. /\ Ids' = 1..(LastId + 1) /\ LastId + 1 \in Ids' /\ ledger'[LastId + 1] = row
      /\ \A id \in Ids : id \in Ids' /\ ledger'[id] = ledger[id]
  <2>1. LedgerTypes /\ LastId \in Nat
    BY DEF LedgerInv, LedgerTypes
  <2>2. ledger' = Ledger!Inserted(LastId + 1, row)
    BY <1>3
  <2>3. QED  BY <2>1, <2>2, RowAdded
<1>5. Ledger!AdjustmentsMatch'
  <2>1. \A a \in adjustments : a.id \in Ids /\ ledger[a.id].user = a.user /\ ledger[a.id].cents = a.cents
    BY DEF LedgerInv, Ledger!AdjustmentsMatch, Ids
  <2>2. \A a \in adjustments' : a.id \in Ids' /\ ledger'[a.id].user = a.user /\ ledger'[a.id].cents = a.cents
    BY <1>2, <1>3, <1>4, <2>1
  <2>3. QED  BY <2>2 DEF Ledger!AdjustmentsMatch, Ids
<1>6. QED  BY <1>2, <1>3, <1>5, OthersGrow

LEMMA KioskKeeps ==
  ASSUME LedgerAssumed, LedgerInv, NEW u \in Customer, NEW i \in Goods \cup {None}, Ledger!Kiosk(u, i)
  PROVE  LedgerInv'
<1>1. PICK c \in Int : c = IF i = None THEN 1 ELSE -Cost[i]
  <2>1. i # None => Cost[i] \in Int
    BY DEF LedgerAssumed, Ledger!LedgerAssumption
  <2>2. (IF i = None THEN 1 ELSE -Cost[i]) \in Int
    BY <2>1
  <2>3. QED  BY <2>2
<1>2. PICK row : row = [user |-> u, item |-> i, by |-> 0, cents |-> c]
  OBVIOUS
<1>3. row \in Ledger!Row /\ row.by = 0
  BY <1>2 DEF Ledger!Row
<1>4. /\ ledger' = Ledger!Inserted(LastId + 1, row) /\ UNCHANGED <<adjustments, requests, list, entered, form, fetches>>
  BY <1>1, <1>2, Zenon DEF Ledger!Kiosk, LastId
<1>5. Ledger!AdjustmentsMatch'
  BY <1>4, AdjustmentsStay
<1>6. QED  BY <1>3, <1>4, <1>5, OthersGrow

-----------------------------------------------------------------------------
(* The ledger: every step *)

LEMMA LedgerInit == ASSUME LedgerAssumed, Ledger!Init PROVE LedgerInv
<1>1. /\ ledger = [id \in {} |-> None] /\ adjustments = {} /\ requests = <<>> /\ list = [k \in Ledger!Kind |-> {}]
      /\ entered = 0 /\ form = [email |-> None, of |-> None, offers |-> {}] /\ fetches = <<>>
  BY DEF Ledger!Init
<1>2. Ids = {} /\ Ids = 1..0
  BY <1>1 DEF Ids
<1>3. LastId = 0
  BY <1>2, LastIsCount
<1>4. LedgerTypes
  <2>1. requests \in Seq(Submission) /\ fetches \in Seq(Fetch)
    BY <1>1
  <2>2. list \in [Ledger!Kind -> SUBSET Ledger!Entry]
    BY <1>1
  <2>3. entered \in 0..MaxWork
    BY <1>1 DEF LedgerAssumed, Ledger!LedgerAssumption
  <2>4. form \in [email : Email \cup {None}, of : Email \cup {None}, offers : SUBSET (Goods \cup {None})]
    BY <1>1
  <2>5. \A id \in Ids : ledger[id] \in Ledger!Row /\ ledger[id].by \in 0..Len(requests)
    BY <1>2
  <2>6. QED  BY <1>2, <1>3, <2>1, <2>2, <2>3, <2>4, <2>5 DEF LedgerTypes
<1>5. Submissions /\ Ledger!AdjustmentsMatch
  BY <1>1 DEF Submissions, Ledger!AdjustmentsMatch
<1>6. Listings
  BY <1>1, FS_EmptySet DEF Listings
<1>7. OffersBought
  BY <1>1 DEF OffersBought, RefundedWasBought, Ledger!RefundedWasBought, Ledger!Kind
<1>8. QED  BY <1>4, <1>5, <1>6, <1>7 DEF LedgerInv

LEMMA LedgerNext == ASSUME LedgerAssumed, LedgerInv, Ledger!Next PROVE LedgerInv'
<1>1. ASSUME NEW e \in Email, NEW i \in Goods, Ledger!AddTransaction(e, i)  PROVE LedgerInv'
  BY <1>1, AddTransactionKeeps
<1>2. ASSUME NEW i \in Goods \cup {None}, NEW offered \in BOOLEAN, Ledger!AddRefund(i, offered)  PROVE LedgerInv'
  BY <1>2, AddRefundKeeps
<1>3. ASSUME NEW k \in Ledger!Kind, Ledger!Submit(k) \/ \E e \in list[k] : Ledger!Delete(k, e)  PROVE LedgerInv'
  BY <1>3, SubmitKeeps, DeleteKeeps
<1>4. ASSUME NEW r \in DOMAIN requests, Ledger!Answered(r) \/ Ledger!Disconnected(r)  PROVE LedgerInv'
  BY <1>4, AnsweredKeeps, DisconnectedKeeps
<1>5. ASSUME NEW e \in Email, Ledger!ChangeEmail(e)  PROVE LedgerInv'
  BY <1>5, ChangeEmailKeeps
<1>6. ASSUME NEW f \in DOMAIN fetches, Ledger!Offered(f) \/ Ledger!FetchFailed(f) \/ Ledger!ServeFetch(f)  PROVE LedgerInv'
  BY <1>6, OfferedKeeps, ServeFetchKeeps
<1>7. ASSUME NEW r \in DOMAIN requests, Ledger!Begin(r) \/ Ledger!Look(r) \/ Ledger!ReadLast(r) \/ Ledger!Insert(r)
      PROVE  LedgerInv'
  BY <1>7, BeginKeeps, LookKeeps, ReadLastKeeps, InsertKeeps
<1>8. ASSUME Ledger!Crash  PROVE LedgerInv'
  BY <1>8, CrashKeeps
<1>9. ASSUME NEW u \in Customer, NEW c \in {-1, 1}, Ledger!Adjust(u, c)  PROVE LedgerInv'
  BY <1>9, AdjustKeeps
<1>10. ASSUME NEW u \in Customer, NEW i \in Goods \cup {None}, Ledger!Kiosk(u, i)  PROVE LedgerInv'
  BY <1>10, KioskKeeps
<1>11. QED
  BY <1>1, <1>2, <1>3, <1>4, <1>5, <1>6, <1>7, <1>8, <1>9, <1>10, Zenon DEF Ledger!Next

\* The invariant reads nothing else.
LEMMA LedgerStutter == ASSUME LedgerInv, UNCHANGED ledgerVars PROVE LedgerInv'
<1>1. UNCHANGED <<ledger, adjustments, requests, list, entered, form, fetches>>
  BY DEF ledgerVars
<1>2. LastId' = LastId /\ Ids' = Ids /\ \A s : Ledger!Rows(s)' = Ledger!Rows(s)
  BY <1>1 DEF LastId, Ids, Ledger!LastId, Ledger!Rows
<1>3. LedgerTypes' /\ Listings'
  BY <1>1, <1>2 DEF LedgerInv, LedgerTypes, Listings
<1>4. Submissions'
  BY <1>1, <1>2 DEF LedgerInv, Submissions, Proceeds, Counts
<1>5. OffersBought' /\ Ledger!AdjustmentsMatch'
  BY <1>1 DEF LedgerInv, OffersBought, RefundedWasBought, Ledger!RefundedWasBought, Spent, Ids, Ledger!AdjustmentsMatch
<1>6. QED  BY <1>3, <1>4, <1>5 DEF LedgerInv

-----------------------------------------------------------------------------
(* The ledger: what follows *)

LEMMA LedgerTypeCorrect == ASSUME LedgerInv PROVE Ledger!TypeOK
<1>1. DOMAIN ledger = 1..Ledger!LastId /\ \A id \in DOMAIN ledger : ledger[id] \in Ledger!Row /\ ledger[id].by \in 0..Len(requests)
  BY DEF LedgerInv, LedgerTypes, Ids, LastId
<1>2. \A k \in Ledger!Kind : list[k] \subseteq Ledger!Entry
  BY DEF LedgerInv, LedgerTypes
<1>3. ASSUME NEW r \in DOMAIN requests
      PROVE  /\ requests[r].pc \in {"sent", "look", "last", "insert", "done", "ended"}
             /\ requests[r].todo \cup requests[r].failed \subseteq requests[r].entries
             /\ requests[r].pc \in {"look", "last", "insert"} => requests[r].todo # {}
             /\ requests[r].last \in 0..Ledger!LastId
  <2>1. PICK p \in Submission : p = requests[r] /\ Proceeds(p)
    BY <1>3, OneSubmission
  <2>2. p.pc \in {"sent", "look", "last", "insert", "done", "ended"} /\ p.last \in Nat
    BY DEF Submission
  <2>3. p.last <= LastId /\ LastId \in Nat
    BY <1>3, <2>1, OneSubmission DEF Proceeds
  <2>4. p.last \in 0..LastId
    BY <2>2, <2>3
  <2>5. QED  BY <2>1, <2>2, <2>4 DEF Proceeds, LastId
<1>4. form.email \in Email \cup {None} /\ form.of \in Email \cup {None}
  BY DEF LedgerInv, LedgerTypes
<1>5. QED  BY <1>1, <1>2, <1>3, <1>4 DEF Ledger!TypeOK

LEMMA ReportsAreTrue == ASSUME LedgerInv PROVE Ledger!ReportIsTrue
<1>1. ASSUME NEW r \in DOMAIN requests, requests[r].pc = "done"
      PROVE  /\ Ledger!Cardinality(Ledger!Rows(r)) = requests[r].inserted
             /\ requests[r].inserted + Ledger!Cardinality(requests[r].failed) = Ledger!Cardinality(requests[r].entries)
             /\ \A id \in Ledger!Rows(r) : \E e \in requests[r].entries \ requests[r].failed :
                    e.email = ledger[id].user /\ e.item = ledger[id].item
  <2>1. PICK p \in Submission : p = requests[r] /\ Proceeds(p) /\ Counts(p, r) /\ p.pc = "done"
    BY <1>1, OneSubmission
  <2>2. p.todo = {} /\ IsFiniteSet(p.failed)
    BY <2>1, FS_Subset DEF Proceeds
  <2>3. Cardinality(p.todo) = 0 /\ Cardinality(p.failed) \in Nat /\ p.inserted \in Nat
    BY <2>2, FS_EmptySet, FS_CardinalityType DEF Submission
  <2>4. /\ Cardinality(Ledger!Rows(r)) = p.inserted
        /\ p.inserted + Cardinality(p.failed) + Cardinality(p.todo) = Cardinality(p.entries)
        /\ \A id \in Ledger!Rows(r) : \E e \in (p.entries \ p.failed) \ p.todo :
               e.email = ledger[id].user /\ e.item = ledger[id].item
    BY <2>1 DEF Counts
  <2>5. p.inserted + Cardinality(p.failed) = Cardinality(p.entries)
    BY <2>3, <2>4
  <2>6. QED  BY <2>1, <2>4, <2>5, SameCount
<1>2. QED  BY <1>1 DEF Ledger!ReportIsTrue

LEMMA AnsweredAreGone == ASSUME LedgerInv PROVE Ledger!AnsweredIsGone
  BY OneSubmission DEF Ledger!AnsweredIsGone, Proceeds

\* A new row has the next id.
LEMMA LedgerGrowsAtTheEnd ==
  ASSUME LedgerInv, Ledger!Next
  PROVE  \/ ledger' = ledger
         \/ \E row : ledger' = Ledger!Inserted(LastId + 1, row)
<1>1. ASSUME NEW r \in DOMAIN requests, Ledger!Insert(r)
      PROVE  ledger' = ledger \/ \E row : ledger' = Ledger!Inserted(LastId + 1, row)
  <2>1. PICK p \in Submission : p = requests[r] /\ Proceeds(p)
    BY <1>1, OneSubmission
  <2>2. p.last \in Nat /\ LastId \in Nat /\ Ids = 1..LastId
    BY <1>1, OneSubmission DEF Submission
  <2>3. p.last <= LastId
    BY <2>1 DEF Proceeds
  <2>4. p.last + 1 \notin Ids => p.last = LastId
    BY <2>2, <2>3
  <2>5. p.last + 1 \in Ids => ledger' = ledger
    BY <1>1, <2>1 DEF Ledger!Insert, Ledger!Clash, Ids
  <2>6. p.last + 1 \notin Ids => \E row : ledger' = Ledger!Inserted(p.last + 1, row)
    BY <1>1, <2>1, Zenon DEF Ledger!Insert, Ledger!Clash, Ids
  <2>7. QED  BY <2>4, <2>5, <2>6
<1>2. ASSUME NEW u, NEW c, Ledger!Adjust(u, c) \/ Ledger!Kiosk(u, c)
      PROVE  \E row : ledger' = Ledger!Inserted(LastId + 1, row)
  BY <1>2 DEF Ledger!Adjust, Ledger!Kiosk, LastId
<1>3. ASSUME NEW k, NEW e, Ledger!AddTransaction(k, e) \/ Ledger!AddRefund(k, e) \/ Ledger!Delete(k, e)
      PROVE  ledger' = ledger
  BY <1>3 DEF Ledger!AddTransaction, Ledger!AddRefund, Ledger!Delete, Ledger!Listed
<1>4. ASSUME NEW r, \/ Ledger!Submit(r) \/ Ledger!Answered(r) \/ Ledger!Disconnected(r) \/ Ledger!ChangeEmail(r)
                    \/ Ledger!Offered(r) \/ Ledger!FetchFailed(r) \/ Ledger!ServeFetch(r)
                    \/ Ledger!Begin(r) \/ Ledger!Look(r) \/ Ledger!ReadLast(r) \/ Ledger!Crash
      PROVE  ledger' = ledger
  BY <1>4 DEF Ledger!Submit, Ledger!Answered, Ledger!Disconnected, Ledger!ChangeEmail, Ledger!Offered,
              Ledger!FetchFailed, Ledger!ServeFetch, Ledger!Begin, Ledger!Look, Ledger!ReadLast, Ledger!Crash
<1>5. QED  BY <1>1, <1>2, <1>3, <1>4, Zenon DEF Ledger!Next

LEMMA LedgerStepInOrder ==
  ASSUME LedgerInv, Ledger!Next
  PROVE  /\ \A id \in DOMAIN ledger : id \in DOMAIN ledger' /\ ledger'[id] = ledger[id]
         /\ \A id \in DOMAIN ledger' \ DOMAIN ledger : id > Ledger!LastId
<1>1. CASE ledger' = ledger
  BY <1>1
<1>2. CASE \E row : ledger' = Ledger!Inserted(LastId + 1, row)
  <2>1. PICK row : ledger' = Ledger!Inserted(LastId + 1, row)
    BY <1>2
  <2>2. LedgerTypes /\ LastId \in Nat /\ Ids = 1..LastId
    BY DEF LedgerInv, LedgerTypes
  <2>3. Ids' = 1..(LastId + 1) /\ \A id \in Ids : id \in Ids' /\ ledger'[id] = ledger[id]
    BY <2>1, <2>2, RowAdded
  <2>4. \A id \in Ids' \ Ids : id > LastId
    BY <2>2, <2>3
  <2>5. QED  BY <2>3, <2>4 DEF Ids, LastId
<1>3. QED  BY <1>1, <1>2, LedgerGrowsAtTheEnd

-----------------------------------------------------------------------------
(* The users: their invariant *)

UsersAssumed == Users!UsersAssumption
UserIds == DOMAIN users

Session ==
    [pc : {"idle", "conflicts", "batch", "existing", "update", "shown", "before", "ensure", "write", "reset"},
     list : Seq(Name), valid : Seq(Name), pos : Nat, found : SUBSET Name, missing : SUBSET Name, done : SUBSET Name,
     id : Nat, name : Name \cup {None}, mail : Name \cup {None}, quiet : BOOLEAN]
AuditEntry ==
    [id : Nat, action : {"user.create", "user.update", "user.password_reset"},
     name : Name \cup {None}, mail : Name \cup {None}, before : Seq(Name)]

UserTypes ==
    /\ users \in Seq(Users!User) /\ Len(users) <= MaxUser
    /\ userAudit \in Seq(AuditEntry) /\ userThread \in [Thread -> Session] /\ jobs \in 0..MaxJob

\* The entries before a place in a list.
Given(entries, place) == {entries[i] : i \in {j \in DOMAIN entries : j < place}}

\* What a session knows as long as no other writer came between: before it
\* writes, that no other user has the name or the email; of the passwords,
\* that who is not missing so far is a user and was reset.
Sees(w) ==
    /\ w.pc = "write" => \A i \in UserIds \ {w.id} :
           ~Users!Same(users[i].name, w.name) /\ ~Users!Same(users[i].mail, w.mail)
    /\ w.pc \in {"existing", "update"} =>
           /\ w.done = Given(w.list, w.pos) \ w.missing
           /\ w.done \subseteq Users!Mails /\ w.missing \cap Users!Mails = {}
    /\ w.pc = "update" => /\ w.done \cup w.found = Given(w.list, w.pos + Batch) \ w.missing
                          /\ w.found \subseteq Users!Mails

\* Where a session is; users are never removed.
Working(w) ==
    /\ w.id \in 0..Len(users)
    /\ w.pc \in {"shown", "before", "ensure", "write", "reset"} => w.name \in Name /\ w.mail \in Name
    /\ w.pc \in {"before", "ensure", "write"} => w.mail = Lower[w.mail]
    /\ w.pc \in {"shown", "before", "reset"} => w.id # 0
    /\ w.quiet => Sees(w)

UsersInv ==
    /\ UserTypes /\ Users!Unique(users) /\ \A t \in Thread : Working(userThread[t])
    /\ NoVariants /\ Users!AuditTellsUser /\ Users!ResetIsReported

\* Nobody's name or email changes, and nobody is added.
SameRows ==
    /\ users' \in Seq(Users!User) /\ Len(users') = Len(users)
    /\ \A i \in UserIds : /\ users'[i].name = users[i].name /\ users'[i].mail = users[i].mail
                          /\ users'[i].excused = users[i].excused

-----------------------------------------------------------------------------
(* The users: steps that leave the names and emails alone *)

LEMMA RowsStay ==
  ASSUME UserTypes, SameRows
  PROVE  /\ UserIds' = UserIds /\ UserIds = 1..Len(users) /\ Len(users) \in Nat /\ Users!Mails' = Users!Mails
         /\ Users!Unique(users) => Users!Unique(users)'
         /\ NoVariants => NoVariants'
<1>1. UserIds' = UserIds /\ UserIds = 1..Len(users) /\ Len(users) \in Nat
  BY DEF UserTypes, SameRows, UserIds
<1>2. Users!Mails' = Users!Mails
  BY <1>1 DEF Users!Mails, Users!Ids, UserIds, SameRows
<1>3. Users!Unique(users) => Users!Unique(users)'
  BY <1>1 DEF Users!Unique, UserIds, SameRows
<1>4. NoVariants => NoVariants'
  BY <1>1 DEF NoVariants, Users!NoVariants, Users!Ids, UserIds, SameRows
<1>5. QED  BY <1>1, <1>2, <1>3, <1>4

LEMMA WorkStays ==
  ASSUME UserTypes, SameRows, NEW w \in Session, Working(w)
  PROVE  Working(w)'
<1>1. /\ UserIds' = UserIds /\ UserIds = 1..Len(users) /\ Len(users) \in Nat /\ Users!Mails' = Users!Mails
      /\ Len(users') = Len(users)
  BY RowsStay DEF SameRows
<1>2. Sees(w) => Sees(w)'
  BY <1>1 DEF Sees, SameRows, Users!Same
<1>3. QED  BY <1>1, <1>2 DEF Working

\* The last entries that tell of a user's name are where they were.
LEMMA LogStays ==
  ASSUME UserTypes, SameRows, Users!AuditTellsUser,
         \/ userAudit' = userAudit
         \/ \E e \in AuditEntry : e.action = "user.password_reset" /\ userAudit' = Append(userAudit, e)
  PROVE  Users!AuditTellsUser' /\ userAudit' \in Seq(AuditEntry)
<1>1. UserIds' = UserIds /\ userAudit \in Seq(AuditEntry)
  BY RowsStay DEF UserTypes
<1>2. userAudit' \in Seq(AuditEntry)
  BY <1>1
<1>3. /\ DOMAIN userAudit \subseteq DOMAIN userAudit'
      /\ \A k \in DOMAIN userAudit : userAudit'[k] = userAudit[k]
      /\ \A k \in DOMAIN userAudit' : k \in DOMAIN userAudit \/ userAudit'[k].action = "user.password_reset"
  BY <1>1
<1>4. {k \in DOMAIN userAudit' : userAudit'[k].action # "user.password_reset"}
        = {k \in DOMAIN userAudit : userAudit[k].action # "user.password_reset"}
  BY <1>3
<1>5. ASSUME NEW k \in DOMAIN userAudit, userAudit[k].action # "user.password_reset",
             \A n \in {x \in DOMAIN userAudit : userAudit[x].action # "user.password_reset"} :
                 n > k => userAudit[n].id # userAudit[k].id
      PROVE  /\ userAudit[k].id \in UserIds /\ users[userAudit[k].id].name = userAudit[k].name
             /\ users[userAudit[k].id].mail = userAudit[k].mail
  BY <1>5 DEF Users!AuditTellsUser, Users!Ids, UserIds
<1>6. ASSUME NEW k \in DOMAIN userAudit', userAudit'[k].action # "user.password_reset",
             \A n \in {x \in DOMAIN userAudit' : userAudit'[x].action # "user.password_reset"} :
                 n > k => userAudit'[n].id # userAudit'[k].id
      PROVE  /\ userAudit'[k].id \in UserIds' /\ users'[userAudit'[k].id].name = userAudit'[k].name
             /\ users'[userAudit'[k].id].mail = userAudit'[k].mail
  <2>1. k \in DOMAIN userAudit /\ userAudit'[k] = userAudit[k] /\ userAudit[k].action # "user.password_reset"
    BY <1>3, <1>6
  <2>2. \A n \in {x \in DOMAIN userAudit : userAudit[x].action # "user.password_reset"} :
            n > k => userAudit[n].id # userAudit[k].id
    BY <1>3, <1>4, <1>6, <2>1
  <2>3. /\ userAudit[k].id \in UserIds /\ users[userAudit[k].id].name = userAudit[k].name
        /\ users[userAudit[k].id].mail = userAudit[k].mail
    BY <1>5, <2>1, <2>2
  <2>4. QED  BY <1>1, <2>1, <2>3 DEF SameRows
<1>7. Users!AuditTellsUser'
  BY <1>6 DEF Users!AuditTellsUser, Users!Ids, UserIds
<1>8. QED  BY <1>2, <1>7

\* The sessions go on, whatever they do to passwords.
LEMMA PasswordStep ==
  ASSUME UsersInv, SameRows, userThread' \in [Thread -> Session], \A s \in Thread : Working(userThread'[s]),
         jobs' \in 0..MaxJob, Users!ResetIsReported',
         \/ userAudit' = userAudit
         \/ \E e \in AuditEntry : e.action = "user.password_reset" /\ userAudit' = Append(userAudit, e)
  PROVE  UsersInv'
<1>1. UserTypes /\ Users!Unique(users) /\ NoVariants /\ Users!AuditTellsUser
  BY DEF UsersInv
<1>2. Users!AuditTellsUser' /\ userAudit' \in Seq(AuditEntry)
  BY <1>1, LogStays
<1>3. UserTypes'
  BY <1>1, <1>2 DEF UserTypes, SameRows
<1>4. Users!Unique(users)' /\ NoVariants'
  BY <1>1, RowsStay
<1>5. ASSUME NEW s \in Thread  PROVE Working(userThread[s])'
  <2>1. PICK v \in Session : v = userThread'[s] /\ Working(v)
    BY <1>5
  <2>2. Working(v)'
    BY <1>1, <2>1, WorkStays
  <2>3. QED  BY <2>1, <2>2 DEF Working, Sees
<1>6. QED  BY <1>2, <1>3, <1>4, <1>5 DEF UsersInv

\* One session goes on.
LEMMA SessionStep ==
  ASSUME UsersInv, SameRows, NEW t \in Thread, NEW w \in Session, Working(w), Users!At(t, w),
         jobs' \in 0..MaxJob, Users!ResetIsReported',
         \/ userAudit' = userAudit
         \/ \E e \in AuditEntry : e.action = "user.password_reset" /\ userAudit' = Append(userAudit, e)
  PROVE  UsersInv'
<1>1. userThread \in [Thread -> Session] /\ userThread' = [userThread EXCEPT ![t] = w]
  BY DEF UsersInv, UserTypes, Users!At
<1>2. userThread' \in [Thread -> Session] /\ \A s \in Thread : userThread'[s] = IF s = t THEN w ELSE userThread[s]
  BY <1>1
<1>3. \A s \in Thread : Working(userThread'[s])
  BY <1>2 DEF UsersInv
<1>4. QED  BY <1>2, <1>3, PasswordStep

\* The same, when only the session changes.
LEMMA SessionAlone ==
  ASSUME UsersInv, NEW t \in Thread, NEW w \in Session, Working(w), Users!At(t, w),
         UNCHANGED <<users, userAudit, reports>>, jobs' \in 0..MaxJob
  PROVE  UsersInv'
<1>1. SameRows
  BY DEF UsersInv, UserTypes, SameRows
<1>2. Users!ResetIsReported'
  BY DEF UsersInv, Users!ResetIsReported
<1>3. QED  BY <1>1, <1>2, SessionStep

LEMMA IdleIsOne ==
  LET w == Users!Idle
  IN  /\ w \in Session /\ w.pc = "idle" /\ w.list = <<>> /\ w.valid = <<>> /\ w.pos = 1 /\ w.missing = {}
      /\ w.found = {} /\ w.done = {} /\ w.id = 0 /\ w.name = None /\ w.mail = None /\ w.quiet = TRUE
  BY DEF Users!Idle, Session

LEMMA IdleWorks ==
  ASSUME UserTypes
  PROVE  Users!Idle \in Session /\ Working(Users!Idle)
<1>1. Len(users) \in Nat /\ 0 \in 0..Len(users)
  BY DEF UserTypes
<1>2. QED  BY <1>1, IdleIsOne DEF Working, Sees

LEMMA OneSession ==
  ASSUME UsersInv, NEW t \in Thread
  PROVE  /\ userThread[t] \in Session /\ Working(userThread[t]) /\ UserTypes /\ Len(users) \in Nat
         /\ UserIds = 1..Len(users) /\ \A i \in UserIds : users[i] \in Users!User
  BY DEF UsersInv, UserTypes, UserIds

\* A request or an action of the tool begins.
LEMMA Begins ==
  ASSUME UsersAssumed, UsersInv, NEW t \in Thread, jobs < MaxJob, jobs' = jobs + 1, NEW w \in Session, Working(w), Users!At(t, w),
         UNCHANGED <<users, userAudit, reports>>
  PROVE  UsersInv'
<1>1. jobs' \in 0..MaxJob
  <2>1. jobs \in 0..MaxJob /\ MaxJob \in Nat
    BY DEF UsersInv, UserTypes, UsersAssumed, Users!UsersAssumption
  <2>2. QED  BY <2>1
<1>2. QED  BY <1>1, SessionAlone

LEMMA SubmittedKeeps ==
  ASSUME UsersAssumed, UsersInv, NEW t \in Thread, NEW entries \in Lists,
         Users!AddUsers(t, entries) \/ Users!ResetPasswords(t, entries)
  PROVE  UsersInv'
<1>1. PICK c \in {"conflicts", "existing"} : Users!At(t, [Users!Idle EXCEPT !.pc = c, !.list = entries])
  BY Zenon DEF Users!AddUsers, Users!ResetPasswords
<1>2. PICK w : w = [Users!Idle EXCEPT !.pc = c, !.list = entries]
  OBVIOUS
<1>3. entries \in Seq(Name)
  BY DEF UsersAssumed, Users!UsersAssumption
<1>4. w \in Session /\ w.pc = c /\ w.id = 0 /\ w.list = entries /\ w.done = {} /\ w.missing = {} /\ w.pos = 1
  BY <1>2, <1>3, IdleIsOne DEF Session
<1>5. Given(entries, 1) = {}
  BY <1>3 DEF Given
<1>6. Working(w)
  BY <1>4, <1>5, OneSession DEF Working, Sees
<1>7. jobs < MaxJob /\ jobs' = jobs + 1 /\ UNCHANGED <<users, userAudit, reports>>
  BY DEF Users!AddUsers, Users!ResetPasswords
<1>8. QED  BY <1>1, <1>2, <1>4, <1>6, <1>7, Begins

LEMMA CreateKeeps ==
  ASSUME UsersAssumed, UsersInv, NEW t \in Thread, NEW n \in Name, NEW m \in Name, Users!Create(t, n, m)
  PROVE  UsersInv'
<1>1. Lower[m] \in Name /\ Lower[Lower[m]] = Lower[m]
  BY DEF UsersAssumed, Users!UsersAssumption
<1>2. PICK w : w = [Users!Idle EXCEPT !.pc = "ensure", !.name = n, !.mail = Lower[m]]
  OBVIOUS
<1>3. w \in Session /\ w.pc = "ensure" /\ w.id = 0 /\ w.name = n /\ w.mail = Lower[m]
  BY <1>1, <1>2, IdleIsOne DEF Session
<1>4. Working(w)
  BY <1>1, <1>3, OneSession DEF Working, Sees
<1>5. jobs < MaxJob /\ jobs' = jobs + 1 /\ UNCHANGED <<users, userAudit, reports>> /\ Users!At(t, w)
  BY <1>2 DEF Users!Create
<1>6. QED  BY <1>3, <1>4, <1>5, Begins

LEMMA ShownKeeps ==
  ASSUME UsersAssumed, UsersInv, NEW t \in Thread, NEW i \in UserIds, Users!Edit(t, i) \/ Users!ResetPassword(t, i)
  PROVE  UsersInv'
<1>1. users[i].name \in Name /\ users[i].mail \in Name /\ i \in 0..Len(users) /\ i # 0 /\ i \in Nat
  BY OneSession DEF Users!User
<1>2. PICK c \in {"shown", "reset"} :
        Users!At(t, [Users!Idle EXCEPT !.pc = c, !.id = i, !.name = users[i].name, !.mail = users[i].mail])
  BY Zenon DEF Users!Edit, Users!ResetPassword
<1>3. PICK n \in Name, m \in Name : n = users[i].name /\ m = users[i].mail
  BY <1>1
<1>4. PICK w : w = [Users!Idle EXCEPT !.pc = c, !.id = i, !.name = n, !.mail = m]
  OBVIOUS
<1>5. w \in Session /\ w.pc = c /\ w.id = i /\ w.name = n /\ w.mail = m
  BY <1>1, <1>4, IdleIsOne DEF Session
<1>6. Working(w)
  BY <1>1, <1>5 DEF Working, Sees
<1>7. jobs < MaxJob /\ jobs' = jobs + 1 /\ UNCHANGED <<users, userAudit, reports>>
  BY DEF Users!Edit, Users!ResetPassword
<1>8. Users!At(t, w)
  BY <1>2, <1>3, <1>4
<1>9. QED  BY <1>5, <1>6, <1>7, <1>8, Begins

\* A session goes on by itself.
LEMMA GoesOn ==
  ASSUME UsersInv, NEW t \in Thread, NEW w \in Session, Working(w), Users!At(t, w),
         UNCHANGED <<users, userAudit, jobs, reports>>
  PROVE  UsersInv'
<1>1. jobs' \in 0..MaxJob
  BY DEF UsersInv, UserTypes
<1>2. QED  BY <1>1, SessionAlone

LEMMA SaveKeeps ==
  ASSUME UsersAssumed, UsersInv, NEW t \in Thread, NEW n \in Name \cup {None}, NEW m \in Name \cup {None}, Users!Save(t, n, m)
  PROVE  UsersInv'
<1>1. PICK v \in Session : v = userThread[t] /\ Working(v) /\ v.pc = "shown"
  BY OneSession DEF Users!Save
<1>2. v.name \in Name /\ v.mail \in Name /\ v.id # 0 /\ v.id \in 0..Len(users)
  BY <1>1 DEF Working
<1>3. PICK a \in Name : a = IF n = None THEN v.name ELSE n
  BY <1>2
<1>4. PICK b \in Name : b = IF m = None THEN v.mail ELSE m
  BY <1>2
<1>5. PICK c \in Name : c = Lower[b] /\ Lower[c] = c
  BY DEF UsersAssumed, Users!UsersAssumption
<1>6. PICK w : w = [v EXCEPT !.pc = "before", !.name = a, !.mail = c]
  OBVIOUS
<1>7. w \in Session /\ w.pc = "before" /\ w.id = v.id /\ w.name = a /\ w.mail = c
  BY <1>6 DEF Session
<1>8. Working(w)
  BY <1>2, <1>5, <1>7 DEF Working, Sees
<1>9. Users!At(t, w) /\ UNCHANGED <<users, userAudit, jobs, reports>>
  BY <1>1, <1>3, <1>4, <1>5, <1>6, Zenon DEF Users!Save
<1>10. QED  BY <1>7, <1>8, <1>9, GoesOn

LEMMA ReadBeforeKeeps ==
  ASSUME UsersInv, NEW t \in Thread, Users!ReadBefore(t)
  PROVE  UsersInv'
<1>1. PICK v \in Session : v = userThread[t] /\ Working(v) /\ v.pc = "before"
  BY OneSession DEF Users!ReadBefore
<1>2. v.name \in Name /\ v.mail \in Name /\ v.mail = Lower[v.mail] /\ v.id # 0 /\ v.id \in 0..Len(users)
  BY <1>1 DEF Working
<1>3. PICK n \in Name, m \in Name : n = users[v.id].name /\ m = users[v.id].mail
  BY <1>2, OneSession DEF Users!User
<1>4. PICK w : w = [v EXCEPT !.pc = "ensure", !.valid = <<n, m>>]
  OBVIOUS
<1>a. <<n, m>> \in Seq(Name)
  OBVIOUS
<1>5. w \in Session /\ w.pc = "ensure" /\ w.id = v.id /\ w.name = v.name /\ w.mail = v.mail
  BY <1>4, <1>a DEF Session
<1>6. Working(w)
  BY <1>2, <1>5 DEF Working, Sees
<1>7. Users!At(t, w) /\ UNCHANGED <<users, userAudit, jobs, reports>>
  BY <1>1, <1>3, <1>4 DEF Users!ReadBefore
<1>8. QED  BY <1>5, <1>6, <1>7, GoesOn

\* After the check no other user has the name or the email.
LEMMA EnsureKeeps ==
  ASSUME UsersInv, NEW t \in Thread, Users!Ensure(t)
  PROVE  UsersInv'
<1>1. PICK v \in Session : v = userThread[t] /\ Working(v) /\ v.pc = "ensure"
  BY OneSession DEF Users!Ensure
<1>2. v.name \in Name /\ v.mail \in Name /\ v.mail = Lower[v.mail] /\ v.id \in 0..Len(users)
  BY <1>1 DEF Working
<1>3. PICK taken \in BOOLEAN : taken = \E i \in UserIds \ {v.id} :
                 Users!Same(users[i].name, v.name) \/ Users!Same(users[i].mail, v.mail)
  OBVIOUS
<1>4. Users!At(t, IF taken THEN Users!Idle ELSE [v EXCEPT !.pc = "write", !.quiet = TRUE])
  BY <1>1, <1>3, Zenon DEF Users!Ensure, Users!Ids, UserIds
<1>5. UNCHANGED <<users, userAudit, jobs, reports>>
  BY DEF Users!Ensure
<1>6. CASE taken
  <2>1. Users!At(t, Users!Idle)
    BY <1>4, <1>6
  <2>2. QED  BY <1>5, <2>1, OneSession, IdleWorks, GoesOn
<1>7. CASE ~taken
  <2>1. PICK w : w = [v EXCEPT !.pc = "write", !.quiet = TRUE]
    OBVIOUS
  <2>2. w \in Session /\ w.pc = "write" /\ w.id = v.id /\ w.name = v.name /\ w.mail = v.mail
    BY <2>1 DEF Session
  <2>3. \A i \in UserIds \ {v.id} : ~Users!Same(users[i].name, v.name) /\ ~Users!Same(users[i].mail, v.mail)
    BY <1>3, <1>7
  <2>4. Working(w)
    BY <1>2, <2>2, <2>3 DEF Working, Sees
  <2>5. QED  BY <1>4, <1>5, <1>7, <2>1, <2>2, <2>4, GoesOn
<1>8. QED  BY <1>6, <1>7

LEMMA ReadConflictsKeeps ==
  ASSUME UsersInv, NEW t \in Thread, Users!ReadConflicts(t)
  PROVE  UsersInv'
<1>1. PICK v \in Session : v = userThread[t] /\ Working(v)
  BY OneSession
<1>2. PICK places : places = Users!Free(v.list)
  OBVIOUS
<1>3. places \subseteq DOMAIN v.list /\ v.list \in Seq(Name) /\ DOMAIN v.list = 1..Len(v.list) /\ Len(v.list) \in Nat
  BY <1>2 DEF Users!Free, Session
<1>4. Cardinality(places) \in Nat
  <2>1. IsFiniteSet(1..Len(v.list))
    BY <1>3, FS_Interval
  <2>2. IsFiniteSet(places)
    BY <1>3, <2>1, FS_Subset
  <2>3. QED  BY <2>2, FS_CardinalityType
<1>5. PICK o \in Users!Orders(places) :
        Users!At(t, [v EXCEPT !.pc = "batch", !.valid = [p \in DOMAIN o |-> v.list[o[p]]]])
  BY <1>1, <1>2, Zenon DEF Users!ReadConflicts
<1>6. o \in [1..Cardinality(places) -> places]
  BY SameCount DEF Users!Orders
<1>7. PICK entries : entries = [p \in DOMAIN o |-> v.list[o[p]]]
  OBVIOUS
<1>8. entries \in [1..Cardinality(places) -> Name]
  BY <1>3, <1>6, <1>7
<1>9. entries \in Seq(Name)
  BY <1>4, <1>8, SeqDef
<1>10. PICK w : w = [v EXCEPT !.pc = "batch", !.valid = entries]
  OBVIOUS
<1>11. w \in Session /\ w.pc = "batch" /\ w.id = v.id
  BY <1>9, <1>10 DEF Session
<1>12. Working(w)
  BY <1>1, <1>11 DEF Working, Sees
<1>13. Users!At(t, w) /\ UNCHANGED <<users, userAudit, jobs, reports>>
  BY <1>5, <1>7, <1>10 DEF Users!ReadConflicts
<1>14. QED  BY <1>11, <1>12, <1>13, GoesOn

LEMMA EndsKeeps ==
  ASSUME UsersInv, NEW t \in Thread, Users!Crash(t)
  PROVE  UsersInv'
<1>1. Users!At(t, Users!Idle) /\ UNCHANGED <<users, userAudit, jobs, reports>>
  BY DEF Users!Crash
<1>2. QED  BY <1>1, OneSession, IdleWorks, GoesOn

LEMMA SetPasswordKeeps ==
  ASSUME UsersInv, NEW i \in UserIds, Users!SetPassword(i)
  PROVE  UsersInv'
<1>1. users' = [users EXCEPT ![i].password = TRUE] /\ UNCHANGED <<userAudit, userThread, jobs, reports>>
  BY DEF Users!SetPassword
<1>2. PICK row : row = [users[i] EXCEPT !.password = TRUE]
  OBVIOUS
<1>3. users[i] \in Users!User /\ users \in Seq(Users!User)
  BY OneSession DEF UsersInv, UserTypes, UserIds
<1>4. row \in Users!User /\ row.name = users[i].name /\ row.mail = users[i].mail /\ row.excused = users[i].excused
  BY <1>2, <1>3 DEF Users!User
<1>5. users' = [users EXCEPT ![i] = row]
  BY <1>1, <1>2, <1>3
<1>6. SameRows
  BY <1>3, <1>4, <1>5 DEF SameRows, UserIds
<1>7. userThread' \in [Thread -> Session] /\ \A s \in Thread : Working(userThread'[s])
  BY <1>1 DEF UsersInv, UserTypes
<1>8. jobs' \in 0..MaxJob /\ Users!ResetIsReported'
  BY <1>1 DEF UsersInv, UserTypes, Users!ResetIsReported
<1>9. QED  BY <1>1, <1>6, <1>7, <1>8, PasswordStep

LEMMA WriteResetKeeps ==
  ASSUME UsersInv, NEW t \in Thread, Users!WriteReset(t)
  PROVE  UsersInv'
<1>1. PICK v \in Session : v = userThread[t] /\ Working(v) /\ v.pc = "reset"
  BY OneSession DEF Users!WriteReset
<1>2. PICK i : i = v.id /\ i \in UserIds /\ i \in Nat
  BY <1>1, OneSession DEF Working
<1>3. users[i] \in Users!User /\ users \in Seq(Users!User)
  BY <1>2, OneSession DEF UsersInv, UserTypes, UserIds
<1>4. PICK row : row = [users[i] EXCEPT !.password = FALSE]
  OBVIOUS
<1>5. row \in Users!User /\ row.name = users[i].name /\ row.mail = users[i].mail /\ row.excused = users[i].excused
  BY <1>3, <1>4 DEF Users!User
<1>6. users' = [users EXCEPT ![i] = row]
  BY <1>1, <1>2, <1>3, <1>4 DEF Users!WriteReset
<1>7. SameRows
  BY <1>2, <1>3, <1>5, <1>6 DEF SameRows, UserIds
<1>8. PICK e : e = [id |-> i, action |-> "user.password_reset", name |-> v.name, mail |-> v.mail, before |-> v.valid]
  OBVIOUS
<1>9. e \in AuditEntry /\ e.action = "user.password_reset"
  BY <1>2, <1>8 DEF AuditEntry, Session
<1>10. userAudit' = Append(userAudit, e) /\ Users!At(t, Users!Idle) /\ UNCHANGED <<jobs, reports>>
  BY <1>1, <1>2, <1>8 DEF Users!WriteReset, Users!Entry
<1>11. jobs' \in 0..MaxJob /\ Users!ResetIsReported'
  BY <1>10 DEF UsersInv, UserTypes, Users!ResetIsReported
<1>12. QED  BY <1>7, <1>9, <1>10, <1>11, OneSession, IdleWorks, SessionStep

\* The entries up to the end of the current batch.
LEMMA GivenGrows ==
  ASSUME UsersAssumed, UsersInv, NEW t \in Thread
  PROVE  Given(userThread[t].list, userThread[t].pos + Batch)
             = Given(userThread[t].list, userThread[t].pos) \cup Users!CurrentBatch(t)
<1>1. PICK v \in Session : v = userThread[t]
  BY OneSession
<1>2. v.list \in Seq(Name) /\ v.pos \in Nat /\ Batch \in Nat \ {0}
  BY DEF Session, UsersAssumed, Users!UsersAssumption
<1>3. PICK entries : entries = v.list
  OBVIOUS
<1>4. PICK p \in Nat : p = v.pos
  BY <1>2
<1>5. DOMAIN entries = 1..Len(entries) /\ Len(entries) \in Nat
  BY <1>2, <1>3
<1>6. {j \in DOMAIN entries : j < p + Batch} = {j \in DOMAIN entries : j < p} \cup {j \in DOMAIN entries : j \in p..(p + Batch - 1)}
  BY <1>2, <1>5
<1>7. {entries[i] : i \in {j \in DOMAIN entries : j < p + Batch}}
        = {entries[i] : i \in {j \in DOMAIN entries : j < p}} \cup {entries[i] : i \in {j \in DOMAIN entries : j \in p..(p + Batch - 1)}}
  BY <1>6
<1>8. Users!CurrentBatch(t) = {entries[i] : i \in {j \in DOMAIN entries : j \in p..(p + Batch - 1)}}
  BY <1>1, <1>3, <1>4, Zenon DEF Users!CurrentBatch
<1>9. Given(entries, p + Batch) = Given(entries, p) \cup Users!CurrentBatch(t)
  BY <1>7, <1>8, Zenon DEF Given
<1>10. QED  BY <1>1, <1>3, <1>4, <1>9

LEMMA ReadExistingKeeps ==
  ASSUME UsersAssumed, UsersInv, NEW t \in Thread, Users!ReadExisting(t)
  PROVE  UsersInv'
<1>1. PICK v \in Session : v = userThread[t] /\ Working(v) /\ v.pc = "existing"
  BY OneSession DEF Users!ReadExisting
<1>2. PICK batch : batch = Users!CurrentBatch(t)
  OBVIOUS
<1>3. Given(v.list, v.pos + Batch) = Given(v.list, v.pos) \cup batch /\ batch \subseteq Name
  <2>1. batch \subseteq Name
    BY <1>1, <1>2 DEF Users!CurrentBatch, Session
  <2>2. QED  BY <1>1, <1>2, <2>1, GivenGrows
<1>4. PICK mails : mails = Users!Mails
  OBVIOUS
<1>5. PICK missing, found : missing = v.missing \cup (batch \ mails) /\ found = batch \cap mails
  OBVIOUS
<1>6. PICK w : w = [v EXCEPT !.pc = "update", !.found = found, !.missing = missing]
  OBVIOUS
<1>7. missing \subseteq Name /\ found \subseteq Name
  BY <1>3, <1>5 DEF Session
<1>8. /\ w \in Session /\ w.pc = "update" /\ w.id = v.id /\ w.list = v.list /\ w.pos = v.pos /\ w.done = v.done
      /\ w.missing = missing /\ w.found = found /\ w.quiet = v.quiet
  BY <1>6, <1>7 DEF Session
<1>9. ASSUME v.quiet  PROVE Sees(w)
  <2>1. /\ v.done = Given(v.list, v.pos) \ v.missing /\ v.done \subseteq mails /\ v.missing \cap mails = {}
    BY <1>1, <1>4, <1>9 DEF Working, Sees
  <2>2. v.done = Given(v.list, v.pos) \ missing /\ missing \cap mails = {}
    BY <1>5, <2>1
  <2>3. v.done \cup found = Given(v.list, v.pos + Batch) \ missing /\ found \subseteq mails
    BY <1>3, <1>5, <2>1
  <2>4. QED  BY <1>4, <1>8, <2>1, <2>2, <2>3 DEF Sees
<1>10. Working(w)
  BY <1>1, <1>8, <1>9 DEF Working
<1>11. Users!At(t, w) /\ UNCHANGED <<users, userAudit, jobs, reports>>
  BY <1>1, <1>2, <1>4, <1>5, <1>6 DEF Users!ReadExisting, Users!Found
<1>12. QED  BY <1>8, <1>10, <1>11, GoesOn

\* Passwords are reset for the batch; at the end of the list all is reported.
LEMMA UpdateBatchKeeps ==
  ASSUME UsersAssumed, UsersInv, NEW t \in Thread, Users!UpdateBatch(t)
  PROVE  UsersInv'
<1>1. PICK v \in Session : v = userThread[t] /\ Working(v) /\ v.pc = "update"
  BY OneSession DEF Users!UpdateBatch
<1>2. PICK found : found = v.found
  OBVIOUS
<1>4. found \subseteq Name
  BY <1>1, <1>2 DEF Session
<1>5. PICK hit : hit = {i \in UserIds : users[i].mail \in found}
  OBVIOUS
<1>6. PICK mails : mails = Users!Mails
  OBVIOUS
<1>7. PICK done : done = v.done \cup {users[i].mail : i \in hit}
  OBVIOUS
<1>8. done = v.done \cup (found \cap mails) /\ done \subseteq Name
  <2>1. {users[i].mail : i \in hit} = found \cap mails
    BY <1>5, <1>6 DEF Users!Mails, Users!Ids, UserIds
  <2>2. QED  BY <1>4, <1>7, <2>1 DEF Session
<1>9. users' = [i \in UserIds |-> IF i \in hit THEN [users[i] EXCEPT !.password = FALSE] ELSE users[i]]
  <2>1. hit = {i \in Users!Ids : users[i].mail \in userThread[t].found}
    BY <1>1, <1>2, <1>5 DEF Users!Ids, UserIds
  <2>2. QED  BY <2>1 DEF Users!UpdateBatch, Users!Ids, UserIds
<1>10. SameRows
  <2>1. ASSUME NEW i \in UserIds
        PROVE  /\ users'[i] \in Users!User /\ users'[i].name = users[i].name /\ users'[i].mail = users[i].mail
               /\ users'[i].excused = users[i].excused
    <3>1. users[i] \in Users!User /\ users'[i] = IF i \in hit THEN [users[i] EXCEPT !.password = FALSE] ELSE users[i]
      BY <1>9, <2>1, OneSession
    <3>2. QED  BY <3>1 DEF Users!User
  <2>2. UserIds = 1..Len(users) /\ Len(users) \in Nat /\ DOMAIN users' = UserIds
    BY <1>9, OneSession
  <2>3. users' \in [1..Len(users) -> Users!User]
    BY <1>9, <2>1, <2>2
  <2>4. users' \in Seq(Users!User) /\ Len(users') = Len(users)
    BY <2>2, <2>3, SeqDef
  <2>5. QED  BY <2>1, <2>4 DEF SameRows
<1>11. UNCHANGED <<userAudit, jobs>> /\ jobs' \in 0..MaxJob
  BY DEF Users!UpdateBatch, UsersInv, UserTypes
<1>12. PICK next : next = v.pos + Batch /\ next \in Nat
  BY DEF Session, UsersAssumed, Users!UsersAssumption
<1>13. ASSUME v.quiet
       PROVE  /\ done = Given(v.list, next) \ v.missing /\ done \subseteq mails /\ v.missing \cap mails = {}
  <2>1. /\ v.done = Given(v.list, v.pos) \ v.missing /\ v.done \subseteq mails /\ v.missing \cap mails = {}
        /\ v.done \cup found = Given(v.list, v.pos + Batch) \ v.missing /\ found \subseteq mails
    BY <1>1, <1>2, <1>6, <1>13 DEF Working, Sees
  <2>2. QED  BY <1>8, <1>12, <2>1
<1>14. CASE next <= Len(v.list)
  <2>1. PICK w : w = [v EXCEPT !.pc = "existing", !.pos = next, !.done = done]
    OBVIOUS
  <2>2. /\ w \in Session /\ w.pc = "existing" /\ w.id = v.id /\ w.list = v.list /\ w.pos = next /\ w.done = done
        /\ w.missing = v.missing /\ w.quiet = v.quiet
    BY <1>8, <1>12, <2>1 DEF Session
  <2>3. Working(w)
    BY <1>1, <1>6, <1>13, <2>2 DEF Working, Sees
  <2>4. Users!At(t, w) /\ UNCHANGED reports
    BY <1>1, <1>2, <1>5, <1>7, <1>12, <1>14, <2>1, Zenon DEF Users!UpdateBatch, Users!Ids, UserIds
  <2>5. Users!ResetIsReported'
    BY <2>4 DEF UsersInv, Users!ResetIsReported
  <2>6. QED  BY <1>10, <1>11, <2>2, <2>3, <2>4, <2>5, SessionStep
<1>15. CASE ~(next <= Len(v.list))
  <2>1. PICK given : given = Users!ToSet(v.list)
    OBVIOUS
  <2>2. PICK report : report = [quiet |-> v.quiet, given |-> given, done |-> done, missing |-> v.missing]
    OBVIOUS
  <2>4. Users!At(t, Users!Idle) /\ reports' = reports \cup {report}
    BY <1>1, <1>2, <1>5, <1>7, <1>12, <1>15, <2>1, <2>2, Zenon DEF Users!UpdateBatch, Users!Ids, UserIds
  <2>6. given = Given(v.list, next)
    <3>1. v.list \in Seq(Name)
      BY DEF Session
    <3>2. \A j \in DOMAIN v.list : j < next
      BY <1>12, <1>15, <3>1
    <3>3. QED  BY <2>1, <3>2 DEF Given, Users!ToSet
  <2>7. report.quiet => report.done = report.given \ report.missing
    BY <1>13, <2>2, <2>6
  <2>8. Users!ResetIsReported'
    BY <2>4, <2>7 DEF UsersInv, Users!ResetIsReported
  <2>9. QED  BY <1>10, <1>11, <2>4, <2>8, OneSession, IdleWorks, SessionStep
<1>16. QED  BY <1>14, <1>15

-----------------------------------------------------------------------------
(* The users: new names and emails *)

\* Rows were added or one was changed, by the session t: the others may have
\* been disturbed.
LEMMA TableStep ==
  ASSUME UsersInv, users' \in Seq(Users!User), Len(users') <= MaxUser, Len(users) <= Len(users'),
         NEW t \in Thread, userThread' = [Users!Disturbed(t, users' # users) EXCEPT ![t] = Users!Idle],
         Users!Unique(users'), NoVariants', userAudit' \in Seq(AuditEntry), Users!AuditTellsUser',
         UNCHANGED jobs, Users!ResetIsReported'
  PROVE  UsersInv'
<1>1. PICK changed \in BOOLEAN : changed = (users' # users)
  OBVIOUS
<1>2. \A s \in Thread : userThread[s] \in Session
  BY OneSession
<1>3. PICK others : others = [s \in Thread |-> IF s # t /\ changed THEN [userThread[s] EXCEPT !.quiet = FALSE] ELSE userThread[s]]
  OBVIOUS
<1>4. userThread' = [others EXCEPT ![t] = Users!Idle]
  BY <1>1, <1>3, Zenon DEF Users!Disturbed
<1>5. /\ DOMAIN userThread' = Thread /\ userThread'[t] = Users!Idle /\ userThread' \in [Thread -> {userThread'[s] : s \in Thread}]
      /\ \A s \in Thread : s # t => userThread'[s] = others[s]
  BY <1>3, <1>4
<1>6. Len(users') \in Nat /\ Len(users) \in Nat /\ Len(users) <= Len(users')
  BY OneSession
<1>7. ASSUME NEW s \in Thread  PROVE userThread'[s] \in Session /\ Working(userThread[s])'
  <2>1. CASE s = t
    <3>1. userThread'[s] = Users!Idle /\ 0 \in 0..Len(users')
      BY <1>5, <1>6, <2>1
    <3>2. QED  BY <3>1, IdleIsOne DEF Working, Sees
  <2>2. CASE s # t /\ changed
    <3>1. PICK v \in Session : v = userThread[s] /\ Working(v)
      BY <1>7, OneSession
    <3>2. PICK w : w = [v EXCEPT !.quiet = FALSE]
      OBVIOUS
    <3>3. /\ w \in Session /\ w.pc = v.pc /\ w.id = v.id /\ w.name = v.name /\ w.mail = v.mail /\ w.quiet = FALSE
      BY <3>2 DEF Session
    <3>4. userThread'[s] = w
      BY <1>3, <1>5, <2>2, <3>1, <3>2
    <3>5. w.id \in 0..Len(users')
      <4>1. v.id \in 0..Len(users)
        BY <3>1 DEF Working
      <4>2. QED  BY <1>6, <3>3, <4>1
    <3>6. Working(w)'
      BY <3>1, <3>3, <3>5 DEF Working
    <3>7. QED  BY <3>3, <3>4, <3>6 DEF Working, Sees
  <2>3. CASE s # t /\ ~changed
    <3>1. userThread'[s] = userThread[s] /\ users' = users
      BY <1>1, <1>3, <1>5, <2>3
    <3>2. QED  BY <1>7, <3>1, OneSession DEF Working, Sees, Users!Mails, Users!Ids, UserIds
  <2>4. QED  BY <2>1, <2>2, <2>3
<1>8. userThread' \in [Thread -> Session]
  BY <1>5, <1>7
<1>9. UserTypes'
  BY <1>8 DEF UsersInv, UserTypes
<1>10. QED  BY <1>7, <1>9 DEF UsersInv

LEMMA InsertBatchKeeps ==
  ASSUME UsersInv, NEW t \in Thread, Users!InsertBatch(t)
  PROVE  UsersInv'
<1>1. PICK v \in Session : v = userThread[t]
  BY OneSession
<1>2. PICK rows : rows = Users!InsertedRows(v.valid)
  OBVIOUS
<1>3. PICK fits \in BOOLEAN : fits = Users!Unique(users \o rows)
  <2>1. Users!Unique(users \o rows) \in BOOLEAN
    BY DEF Users!Unique
  <2>2. QED  BY <2>1
<1>4. /\ v.valid \in Seq(Name) /\ Len(v.valid) \in Nat /\ users \in Seq(Users!User) /\ Len(users) \in Nat
      /\ userAudit \in Seq(AuditEntry) /\ Len(users) <= MaxUser
  BY DEF Session, UsersInv, UserTypes
<1>5. Len(users) + Len(v.valid) <= MaxUser
  BY <1>1 DEF Users!InsertBatch
<1>6. /\ rows \in Seq(Users!User) /\ Len(rows) = Len(v.valid) /\ \A i \in DOMAIN rows : rows[i].excused
  <2>1. rows = [i \in DOMAIN v.valid |-> [name |-> v.valid[i], mail |-> v.valid[i], password |-> FALSE, excused |-> TRUE]]
    BY <1>2 DEF Users!InsertedRows, Users!Bulk
  <2>2. rows \in [1..Len(v.valid) -> Users!User] /\ \A i \in DOMAIN rows : rows[i].excused
    BY <1>4, <2>1 DEF Users!User
  <2>3. rows \in Seq(Users!User)
    BY <1>4, <2>2, SeqDef, SMTT(30)
  <2>4. Len(rows) = Len(v.valid)
    BY <1>4, <2>2, <2>3
  <2>5. QED  BY <2>2, <2>3, <2>4
<1>7. users' = IF fits THEN users \o rows ELSE users
  BY <1>1, <1>2, <1>3, Zenon DEF Users!InsertBatch
<1>8. /\ users' \in Seq(Users!User) /\ Len(users') = Len(users) + (IF fits THEN Len(v.valid) ELSE 0)
      /\ \A i \in UserIds : i \in UserIds' /\ users'[i] = users[i]
      /\ \A i \in UserIds' : i \notin UserIds => users'[i].excused
  <2>1. CASE fits
    <3>1. users' = users \o rows
      BY <1>7, <2>1
    <3>2. /\ users' \in Seq(Users!User) /\ Len(users') = Len(users) + Len(v.valid)
          /\ \A i \in 1..Len(users) : i \in 1..Len(users') /\ users'[i] = users[i]
          /\ \A i \in 1..Len(users') : i \notin 1..Len(users) => i - Len(users) \in 1..Len(rows) /\ users'[i] = rows[i - Len(users)]
      <4>1. /\ users' \in Seq(Users!User) /\ Len(users') = Len(users) + Len(rows) /\ Len(rows) \in Nat
            /\ \A i \in 1..(Len(users) + Len(rows)) :
                   users'[i] = IF i <= Len(users) THEN users[i] ELSE rows[i - Len(users)]
        BY <1>4, <1>6, <3>1, ConcatProperties, ZenonT(60)
      <4>2. Len(users) \in Nat
        BY <1>4
      <4>3. \A i \in 1..Len(users) : i \in 1..(Len(users) + Len(rows)) /\ i <= Len(users)
        BY <4>1, <4>2
      <4>4. \A i \in 1..(Len(users) + Len(rows)) :
                 i \notin 1..Len(users) => ~ (i <= Len(users)) /\ i - Len(users) \in 1..Len(rows)
        BY <4>1, <4>2
      <4>5. Len(rows) = Len(v.valid)
        BY <1>6
      <4>6. QED  BY <4>1, <4>3, <4>4, <4>5
    <3>3. DOMAIN rows = 1..Len(rows) /\ DOMAIN users = 1..Len(users) /\ DOMAIN users' = 1..Len(users')
      BY <1>4, <1>6, <3>2
    <3>4. QED  BY <1>6, <2>1, <3>2, <3>3 DEF UserIds
  <2>2. CASE ~fits
    BY <1>4, <1>7, <2>2 DEF UserIds
  <2>3. QED  BY <2>1, <2>2
<1>9. Users!Unique(users')
  <2>1. Users!Unique(users)
    BY DEF UsersInv
  <2>2. QED  BY <1>3, <1>7, <2>1
<1>10. NoVariants'
  <2>1. \A i \in UserIds' : ~users'[i].excused => i \in UserIds /\ users'[i] = users[i]
    BY <1>8
  <2>2. QED  BY <2>1 DEF UsersInv, NoVariants, Users!NoVariants, Users!Ids, UserIds
<1>11. UNCHANGED <<userAudit, jobs>>
  BY DEF Users!InsertBatch
<1>12. Users!AuditTellsUser'
  <2>1. DOMAIN userAudit' = DOMAIN userAudit
    BY <1>11
  <2>2. QED  BY <1>8, <1>11 DEF UsersInv, Users!AuditTellsUser, Users!Ids, UserIds
<1>13. Users!ResetIsReported'
  BY DEF Users!InsertBatch, UsersInv, Users!ResetIsReported
<1>14. userThread' = [Users!Disturbed(t, users' # users) EXCEPT ![t] = Users!Idle]
  BY Zenon DEF Users!InsertBatch
<1>15. Len(users') <= MaxUser /\ Len(users) <= Len(users')
  BY <1>4, <1>5, <1>8
<1>16. QED  BY <1>4, <1>8, <1>9, <1>10, <1>11, <1>12, <1>13, <1>14, <1>15, TableStep

\* The new row: nobody else has its name or email, unless it is excused, and
\* the entry of the audit log is the last one about it.
LEMMA WriteKeeps ==
  ASSUME UsersInv, NEW t \in Thread, Users!Write(t)
  PROVE  UsersInv'
<1>1. PICK w \in Session : w = userThread[t] /\ Working(w) /\ w.pc = "write"
  BY OneSession DEF Users!Write
<1>2. w.name \in Name /\ w.mail \in Name /\ w.id \in 0..Len(users)
  BY <1>1 DEF Working
<1>3. /\ users \in Seq(Users!User) /\ Len(users) \in Nat /\ UserIds = 1..Len(users) /\ Len(users) <= MaxUser
      /\ userAudit \in Seq(AuditEntry) /\ Users!Unique(users) /\ \A j \in UserIds : users[j] \in Users!User
  BY OneSession DEF UsersInv, UserTypes
<1>4. PICK i : i = IF w.id = 0 THEN Len(users) + 1 ELSE w.id
  OBVIOUS
<1>5. i \in 1..(Len(users) + 1) /\ i \in Nat /\ UserIds \ {w.id} = UserIds \ {i}
  BY <1>2, <1>3, <1>4
<1>6. PICK password \in BOOLEAN : password = (w.id # 0 /\ users[w.id].password)
  <2>1. w.id # 0 => users[w.id].password \in BOOLEAN
    BY <1>2, <1>3 DEF Users!User
  <2>2. (w.id # 0 /\ users[w.id].password) \in BOOLEAN
    BY <2>1
  <2>3. QED  BY <2>2
<1>7. PICK row : row = [name |-> w.name, mail |-> w.mail, excused |-> ~w.quiet, password |-> password]
  OBVIOUS
<1>8. row \in Users!User /\ row.name = w.name /\ row.mail = w.mail /\ row.excused = ~w.quiet
  BY <1>2, <1>7 DEF Users!User, Session
<1>9. PICK all : all = [j \in UserIds \cup {i} |-> IF j = i THEN row ELSE users[j]]
  OBVIOUS
<1>10. PICK n : n = IF w.id = 0 THEN Len(users) + 1 ELSE Len(users)
  OBVIOUS
<1>11. /\ UserIds \cup {i} = 1..n /\ n \in Nat /\ Len(users) <= n
  BY <1>2, <1>3, <1>4, <1>10
<1>12. /\ DOMAIN all = 1..n /\ all[i] = row /\ \A j \in 1..n : j # i => j \in UserIds /\ all[j] = users[j]
       /\ all \in [1..n -> Users!User]
  BY <1>3, <1>8, <1>9, <1>11
<1>13. all \in Seq(Users!User) /\ Len(all) = n
  BY <1>11, <1>12, SeqDef
<1>14. i <= MaxUser /\ n <= MaxUser
  BY <1>1, <1>3, <1>4, <1>10 DEF Users!Write
<1>15. PICK action \in {"user.create", "user.update"} : action = IF w.id = 0 THEN "user.create" ELSE "user.update"
  OBVIOUS
<1>16. PICK e : e = [id |-> i, action |-> action, name |-> w.name, mail |-> w.mail, before |-> w.valid]
  OBVIOUS
<1>17. e \in AuditEntry /\ e.action # "user.password_reset" /\ e.id = i /\ e.name = w.name /\ e.mail = w.mail
  BY <1>2, <1>5, <1>15, <1>16 DEF AuditEntry, Session
<1>18. IF Users!Unique(all) THEN users' = all /\ userAudit' = Append(userAudit, e) ELSE UNCHANGED <<users, userAudit>>
  BY <1>1, <1>4, <1>6, <1>7, <1>9, <1>15, <1>16, ZenonT(40) DEF Users!Write, Users!Entry, Users!RolledBack, Users!Ids, UserIds
<1>19. /\ userThread' = [Users!Disturbed(t, users' # users) EXCEPT ![t] = Users!Idle] /\ UNCHANGED <<jobs, reports>>
  BY Zenon DEF Users!Write
<1>20. Users!ResetIsReported'
  BY <1>19 DEF UsersInv, Users!ResetIsReported
<1>21. CASE ~Users!Unique(all)
  <2>1. UNCHANGED <<users, userAudit>>
    BY <1>18, <1>21
  <2>2. NoVariants' /\ Users!AuditTellsUser'
    BY <2>1 DEF UsersInv, NoVariants, Users!NoVariants, Users!AuditTellsUser, Users!Ids
  <2>3. /\ users' \in Seq(Users!User) /\ Len(users') <= MaxUser /\ Len(users) <= Len(users') /\ Users!Unique(users')
        /\ userAudit' \in Seq(AuditEntry)
    BY <1>3, <2>1
  <2>4. QED  BY <1>19, <1>20, <2>2, <2>3, TableStep
<1>22. CASE Users!Unique(all)
  <2>1. users' = all /\ userAudit' = Append(userAudit, e)
    BY <1>18, <1>22
  <2>2. /\ UserIds' = 1..n /\ users'[i] = row /\ \A j \in UserIds' : j # i => j \in UserIds /\ users'[j] = users[j]
        /\ i \in UserIds' /\ \A j \in UserIds : j \in UserIds'
    BY <1>11, <1>12, <2>1 DEF UserIds
  <2>3. NoVariants'
    <3>1. ASSUME NEW j \in UserIds', j # i, ~row.excused
          PROVE  Lower[users'[j].name] # Lower[row.name] /\ Lower[users'[j].mail] # Lower[row.mail]
      <4>1. j \in UserIds \ {w.id} /\ users'[j] = users[j]
        BY <1>5, <2>2, <3>1
      <4>2. w.quiet
        BY <1>8, <3>1 DEF Session
      <4>3. Sees(w)
        BY <1>1, <4>2 DEF Working
      <4>4. ~Users!Same(users[j].name, w.name) /\ ~Users!Same(users[j].mail, w.mail)
        BY <1>1, <4>1, <4>3 DEF Sees
      <4>5. QED  BY <1>8, <4>1, <4>4 DEF Users!Same
    <3>2. ASSUME NEW j \in UserIds, NEW k \in UserIds, j # k, ~users[j].excused, ~users[k].excused
          PROVE  Lower[users[j].name] # Lower[users[k].name] /\ Lower[users[j].mail] # Lower[users[k].mail]
      BY <3>2 DEF UsersInv, NoVariants, Users!NoVariants, Users!Ids, UserIds
    <3>3. ASSUME NEW j \in UserIds', NEW k \in UserIds', j # k, ~users'[j].excused, ~users'[k].excused
          PROVE  Lower[users'[j].name] # Lower[users'[k].name] /\ Lower[users'[j].mail] # Lower[users'[k].mail]
      <4>1. CASE j = i
        BY <2>2, <3>1, <3>3, <4>1
      <4>2. CASE k = i
        BY <2>2, <3>1, <3>3, <4>2
      <4>3. CASE j # i /\ k # i
        BY <2>2, <3>2, <3>3, <4>3
      <4>4. QED  BY <4>1, <4>2, <4>3
    <3>4. QED  BY <3>3 DEF NoVariants, Users!NoVariants, Users!Ids, UserIds
  <2>4. Users!AuditTellsUser'
    <3>1. PICK last : last = Len(userAudit) + 1
      OBVIOUS
    <3>2. /\ DOMAIN userAudit' = DOMAIN userAudit \cup {last} /\ userAudit'[last] = e
          /\ \A k \in DOMAIN userAudit : k < last /\ userAudit'[k] = userAudit[k]
      BY <1>3, <1>17, <2>1, <3>1
    <3>3. ASSUME NEW k \in DOMAIN userAudit', userAudit'[k].action # "user.password_reset",
                 \A m \in {x \in DOMAIN userAudit' : userAudit'[x].action # "user.password_reset"} :
                     m > k => userAudit'[m].id # userAudit'[k].id
          PROVE  /\ userAudit'[k].id \in UserIds' /\ users'[userAudit'[k].id].name = userAudit'[k].name
                 /\ users'[userAudit'[k].id].mail = userAudit'[k].mail
      <4>1. CASE k = last
        BY <1>8, <1>17, <2>2, <3>2, <4>1
      <4>2. CASE k # last
        <5>1. k \in DOMAIN userAudit /\ userAudit'[k] = userAudit[k] /\ last > k
          BY <1>3, <3>1, <3>2, <4>2
        <5>2. userAudit[k].id # i
          BY <1>17, <3>2, <3>3, <5>1
        <5>3. \A m \in {x \in DOMAIN userAudit : userAudit[x].action # "user.password_reset"} :
                  m > k => userAudit[m].id # userAudit[k].id
          BY <3>2, <3>3, <5>1
        <5>4. /\ userAudit[k].id \in UserIds /\ users[userAudit[k].id].name = userAudit[k].name
              /\ users[userAudit[k].id].mail = userAudit[k].mail
          BY <3>3, <5>1, <5>3 DEF UsersInv, Users!AuditTellsUser, Users!Ids, UserIds
        <5>5. userAudit[k].id \in UserIds' /\ users'[userAudit[k].id] = users[userAudit[k].id]
          BY <2>2, <5>2, <5>4
        <5>6. QED  BY <5>1, <5>4, <5>5
      <4>3. QED  BY <4>1, <4>2
    <3>4. QED  BY <3>3 DEF Users!AuditTellsUser, Users!Ids, UserIds
  <2>5. /\ users' \in Seq(Users!User) /\ Len(users') <= MaxUser /\ Len(users) <= Len(users') /\ Users!Unique(users')
        /\ userAudit' \in Seq(AuditEntry)
    BY <1>3, <1>11, <1>13, <1>14, <1>17, <1>22, <2>1
  <2>6. QED  BY <1>19, <1>20, <2>3, <2>4, <2>5, TableStep
<1>23. QED  BY <1>21, <1>22

-----------------------------------------------------------------------------
(* The users: every step *)

LEMMA UsersInit == ASSUME UsersAssumed, Users!Init PROVE UsersInv
<1>1. /\ users = <<>> /\ userAudit = <<>> /\ userThread = [t \in Thread |-> Users!Idle] /\ jobs = 0 /\ reports = {}
  BY DEF Users!Init
<1>2. UserIds = {} /\ users \in Seq(Users!User) /\ Len(users) = 0 /\ userAudit \in Seq(AuditEntry) /\ DOMAIN userAudit = {}
  BY <1>1 DEF UserIds
<1>3. UserTypes
  BY <1>1, <1>2, IdleIsOne DEF UserTypes, UsersAssumed, Users!UsersAssumption
<1>4. \A t \in Thread : Working(userThread[t])
  BY <1>1, <1>3, IdleWorks
<1>5. Users!Unique(users) /\ NoVariants
  BY <1>2 DEF Users!Unique, NoVariants, Users!NoVariants, Users!Ids, UserIds
<1>6. Users!AuditTellsUser
  BY <1>2 DEF Users!AuditTellsUser
<1>7. Users!ResetIsReported
  BY <1>1 DEF Users!ResetIsReported
<1>8. QED  BY <1>3, <1>4, <1>5, <1>6, <1>7 DEF UsersInv

LEMMA UsersNext == ASSUME UsersAssumed, UsersInv, Users!Next PROVE UsersInv'
<1>1. ASSUME NEW t \in Thread, NEW entries \in Lists, Users!AddUsers(t, entries) \/ Users!ResetPasswords(t, entries)
      PROVE  UsersInv'
  BY <1>1, SubmittedKeeps
<1>2. ASSUME NEW t \in Thread,
             \/ Users!ReadConflicts(t) \/ Users!InsertBatch(t) \/ Users!ReadExisting(t) \/ Users!UpdateBatch(t)
             \/ Users!ReadBefore(t) \/ Users!Ensure(t) \/ Users!Write(t) \/ Users!WriteReset(t) \/ Users!Crash(t)
      PROVE  UsersInv'
  BY <1>2, ReadConflictsKeeps, InsertBatchKeeps, ReadExistingKeeps, UpdateBatchKeeps, ReadBeforeKeeps, EnsureKeeps,
     WriteKeeps, WriteResetKeeps, EndsKeeps
<1>3. ASSUME NEW t \in Thread, NEW n \in Name, NEW m \in Name, Users!Create(t, n, m)  PROVE UsersInv'
  BY <1>3, CreateKeeps
<1>4. ASSUME NEW t \in Thread, NEW n \in Name \cup {None}, NEW m \in Name \cup {None}, Users!Save(t, n, m)  PROVE UsersInv'
  BY <1>4, SaveKeeps
<1>5. ASSUME NEW t \in Thread, NEW i \in UserIds, Users!Edit(t, i) \/ Users!ResetPassword(t, i)  PROVE UsersInv'
  BY <1>5, ShownKeeps
<1>6. ASSUME NEW i \in UserIds, Users!SetPassword(i)  PROVE UsersInv'
  BY <1>6, SetPasswordKeeps
<1>7. QED
  BY <1>1, <1>2, <1>3, <1>4, <1>5, <1>6, Zenon DEF Users!Next, Users!Ids, UserIds

\* The invariant reads nothing else.
LEMMA UsersStutter == ASSUME UsersInv, UNCHANGED userVars PROVE UsersInv'
<1>1. UNCHANGED <<users, userAudit, userThread, jobs, reports>>
  BY DEF userVars
<1>2. SameRows
  BY <1>1 DEF SameRows, UsersInv, UserTypes
<1>3. userThread' \in [Thread -> Session] /\ \A t \in Thread : Working(userThread'[t])
  BY <1>1 DEF UsersInv, UserTypes
<1>4. jobs' \in 0..MaxJob /\ Users!ResetIsReported'
  BY <1>1 DEF UsersInv, UserTypes, Users!ResetIsReported
<1>5. QED  BY <1>1, <1>2, <1>3, <1>4, PasswordStep

LEMMA UsersTypeCorrect == ASSUME UsersInv PROVE Users!TypeOK
<1>1. users \in Seq(Users!User) /\ Len(users) <= MaxUser /\ Users!Unique(users) /\ jobs \in 0..MaxJob
  BY DEF UsersInv, UserTypes
<1>2. ASSUME NEW t \in Thread
      PROVE  /\ userThread[t].pc \in {"idle", "conflicts", "batch", "existing", "update", "shown",
                                      "before", "ensure", "write", "reset"}
             /\ userThread[t].id \in 0..Len(users)
             /\ userThread[t].pc = "ensure" => userThread[t].mail = Lower[userThread[t].mail]
  BY <1>2, OneSession DEF Session, Working
<1>3. QED  BY <1>1, <1>2 DEF Users!TypeOK

-----------------------------------------------------------------------------
(* Admin *)

LEMMA Assumed == ProductAssumption /\ LedgerAssumed /\ UsersAssumed
  BY AdminAssumption DEF LedgerAssumed, UsersAssumed

\* What the products do in the administration is what they do alone.
LEMMA PartIsProducts == PartSpec => Spec
<1>1. PartInit => Init
  BY DEF PartInit
<1>2. [PartNext]_<<part, ledgerVars, userVars, vars>> => [Next]_vars
  BY DEF PartNext
<1>3. QED  BY <1>1, <1>2, PTL DEF PartSpec, Spec

PartInv == LedgerInv /\ UsersInv

\* The invariants of the ledger and the users hold in every reachable state.
THEOREM PartInductive == PartSpec => []PartInv
<1>1. PartInit => PartInv
  BY Assumed, LedgerInit, UsersInit DEF PartInit, PartInv
<1>2. ASSUME PartInv, [PartNext]_<<part, ledgerVars, userVars, vars>>  PROVE PartInv'
  <2>1. CASE Ledger!Next /\ UNCHANGED userVars
    BY <1>2, <2>1, Assumed, LedgerNext, UsersStutter DEF PartInv
  <2>2. CASE Users!Next /\ UNCHANGED ledgerVars
    BY <1>2, <2>2, Assumed, UsersNext, LedgerStutter DEF PartInv
  <2>3. CASE UNCHANGED ledgerVars /\ UNCHANGED userVars
    BY <1>2, <2>3, LedgerStutter, UsersStutter DEF PartInv
  <2>4. QED  BY <1>2, <2>1, <2>2, <2>3 DEF PartNext
<1>3. QED  BY <1>1, <1>2, PTL DEF PartSpec

\* The types of the variables; ids are never skipped, a submission that works
\* has an entry to do, users are unique.
THEOREM PartTypeCorrect == PartSpec => []PartTypeOK
<1>1. PartInv => Ledger!TypeOK /\ Users!TypeOK
  BY LedgerTypeCorrect, UsersTypeCorrect DEF PartInv
<1>2. ProductAssumption
  BY Assumed
<1>3. QED  BY <1>1, <1>2, PartInductive, PartIsProducts, TypeCorrect, PTL DEF PartTypeOK

\* Whoever writes, with whatever id he read, a new row is after all the others
\* and the others stay as they are.
THEOREM PartInOrder == PartSpec => InOrder
<1> DEFINE Ordered == /\ \A id \in DOMAIN ledger : id \in DOMAIN ledger' /\ ledger'[id] = ledger[id]
                      /\ \A id \in DOMAIN ledger' \ DOMAIN ledger : id > Ledger!LastId
<1>1. ASSUME PartInv, [PartNext]_<<part, ledgerVars, userVars, vars>>
      PROVE  Ordered \/ UNCHANGED Ledger!vars
  <2>1. CASE Ledger!Next
    BY <1>1, <2>1, LedgerStepInOrder DEF PartInv
  <2>2. CASE UNCHANGED ledgerVars
    BY <2>2 DEF ledgerVars, Ledger!vars
  <2>3. QED  BY <1>1, <2>1, <2>2 DEF PartNext
<1>2. InOrder <=> [][Ordered]_Ledger!vars
  BY PTL DEF InOrder, Ledger!InOrder
<1> HIDE DEF Ordered
<1>3. QED  BY <1>1, <1>2, PartInductive, PTL DEF PartSpec

\* What the answers to add-transactions and refunds count and name is what was
\* written for that request, with any other writers between its queries; who is
\* not reported missing was reset, if no user was written meanwhile; and what was
\* answered is off the lists.
THEOREM PartAnswers == PartSpec => []AnswersAreTrue
<1>1. PartInv => AnswersAreTrue
  BY ReportsAreTrue, AnsweredAreGone DEF PartInv, UsersInv, AnswersAreTrue
<1>2. QED  BY <1>1, PartInductive, PTL

\* An adjustment has its row, whoever inserts others, and a product keeps the
\* barcode it was made for.
THEOREM PartIsWhole == PartSpec => []AllOrNothing
<1>1. PartInv => Ledger!AdjustmentsMatch
  BY DEF PartInv, LedgerInv
<1>2. ProductAssumption
  BY Assumed
<1>3. QED  BY <1>1, <1>2, PartInductive, PartIsProducts, NoneIsOrphaned, PTL DEF AllOrNothing

\* The last audit entry of a user tells his name and email, that of a product its
\* whole price, and its unit price until update_info sets another.
THEOREM PartAudit == PartSpec => []AuditIsTrue
<1>1. PartInv => Users!AuditTellsUser
  BY DEF PartInv, UsersInv
<1>2. ProductAssumption
  BY Assumed
<1>3. QED  BY <1>1, <1>2, PartInductive, PartIsProducts, AuditTells, PTL DEF AuditIsTrue

\* What was picked from the offers of the email in the form was bought by him,
\* in whatever order the queries were answered.
THEOREM PartRefunds == PartSpec => []RefundedWasBought
<1>1. PartInv => RefundedWasBought
  BY DEF PartInv, LedgerInv, OffersBought
<1>2. QED  BY <1>1, PartInductive, PTL

\* The tool made no two users that differ only in case, unless the table was
\* written between its check and its transaction.
THEOREM PartVariants == PartSpec => []NoVariants
<1>1. PartInv => NoVariants
  BY DEF PartInv, UsersInv
<1>2. QED  BY <1>1, PartInductive, PTL

\* A product that was saved is found under its code, as it was entered unless
\* a save of the same product overlapped or an invoice priced it since.
THEOREM PartSaved == PartSpec => []SavedCanBeScanned
<1>1. ProductAssumption
  BY Assumed
<1>2. QED  BY <1>1, PartIsProducts, SavedIsScanned, PTL

\* The spellings of one barcode lead to one product unless their saves overlapped.
THEOREM PartOneProduct == PartSpec => []OneProduct
<1>1. ProductAssumption
  BY Assumed
<1>2. QED  BY <1>1, PartIsProducts, SpellingsAreOne, PTL

\* The whole price that was entered is never replaced by one derived from it.
THEOREM PartPack == PartSpec => []PackIsKept
<1>1. ProductAssumption
  BY Assumed
<1>2. QED  BY <1>1, PartIsProducts, PackStaysKept, PTL

\* A save of a product is one step on the tables, also among the other writers.
THEOREM PartCatalogue == PartSpec => ImplementsCatalogue
<1>1. ProductAssumption
  BY Assumed
<1>2. QED  BY <1>1, PartIsProducts, SavesAreOneStep, PTL
=============================================================================
