----------------------------- MODULE ProductSave -----------------------------
(***************************************************************************)
(* Saving products of the item scanner: save_product and                   *)
(* save_unbarcoded_product of admin-web/inventory.py and of                *)
(* inventory-v2/main.py, with the other writers of the two tables: the     *)
(* handlers update_info and add_user_card of inventory/inventory.js, and   *)
(* of admin-web apply_invoice (InvoiceImport.tla), whose transaction may   *)
(* set many products, here any one of them at a time.                      *)
(*                                                                         *)
(* A server runs one thread per request.  Python's sqlite3 opens the       *)
(* transaction at the first write, so what save_product reads before it is *)
(* read in steps of their own, outside the transaction; from the first     *)
(* write to the commit the write lock is held, which is one step.  Any     *)
(* write may fail: the database is shared, and may stay locked too long.   *)
(*                                                                         *)
(* Either server may be the one that runs, but one of them on a database:  *)
(* their audits and their meanings of cents are not mixed here.            *)
(*                                                                         *)
(* A form stands for what was entered: whole price, count and flags (a     *)
(* product's name is left out, and with it the renaming of update_info).   *)
(* An amount is <<"whole", f>> or <<"unit", f>>, the whole price of form f *)
(* or the unit price derived from it, or SetPrice, any price that          *)
(* update_info sets.                                                       *)
(***************************************************************************)
EXTENDS Integers, Sequences, SequencesExt

CONSTANTS Code,        \* barcodes, as scanned
          Candidates,  \* barcode_lookup_candidates: the spellings of a code
          Item,        \* ids of the table inventory
          Form,
          Thread,
          MaxSave,     \* bound: products saved or priced
          None

SetPrice == <<"set", None>>
Amount == ({"whole", "unit"} \X Form) \cup {SetPrice}
BarcodeRow == [item : Item \cup {None}, card : BOOLEAN]
ProductRow == [made : Code \cup {None}, pack : Form \cup {None},
               cents : Amount, whole : Amount \cup {None}]

\* Codes that may be spellings of one product.
Alike(c, d) == c # None /\ ToSet(Candidates[c]) \cap ToSet(Candidates[d]) # {}

\* What the constants have to be.  Of its candidates (a UPC-E code has the UPC-A
\* code it expands to, and that with two zeros before it; a UPC-A code has the
\* EAN-13 code with one zero before it, and that has the UPC-A code) a code
\* comes first, two that are each other's have no more, and what may be the
\* product of a candidate may be that of the code.
ProductAssumption ==
    /\ Candidates \in [Code -> Seq(Code)]
    /\ \A c \in Code : Candidates[c] # <<>> /\ Candidates[c][1] = c
    /\ \A c \in Code : \A d \in ToSet(Candidates[c]) \ {c} :
          /\ c \in ToSet(Candidates[d]) => ToSet(Candidates[c]) = {c, d}
          /\ \A e \in Code : Alike(d, e) => Alike(c, e)
    /\ Item \subseteq Nat /\ MaxSave \in Nat
    /\ None \notin Code \cup Item \cup Form \cup Amount \cup BarcodeRow \cup ProductRow

VARIABLES app,        \* the server: "admin" (admin-web) or "v2" (inventory-v2)
          barcodes,   \* table barcodes: the row of a code, or None
          inventory,  \* table inventory: the row of an id, or None
          audit,      \* audit_logs (admin-web only)
          thread,     \* the request of a thread: where it is and what it has read
          saves,      \* counter of the bound MaxSave: products saved or priced
          loose       \* history: codes whose saves overlapped, or saved without a look at others

vars == <<app, barcodes, inventory, audit, thread, saves, loose>>

Idle == [pc |-> "idle", code |-> None, item |-> None, form |-> None,
         row |-> None, match |-> None, before |-> None]

TypeOK ==
    /\ barcodes \in [Code -> BarcodeRow \cup {None}]
    /\ inventory \in [Item -> ProductRow \cup {None}]
    /\ \A c \in Code : barcodes[c] # None =>
          /\ barcodes[c].item # None => inventory[barcodes[c].item] # None
          /\ barcodes[c].item # None \/ barcodes[c].card
    /\ \A t \in Thread : thread[t].pc \in {"idle", "start", "match", "before", "write", "readback"}
    /\ saves \in 0..MaxSave

Init ==
    /\ app \in {"admin", "v2"}
    /\ barcodes = [c \in Code |-> None]
    /\ inventory = [i \in Item |-> None]
    /\ audit = <<>>
    /\ thread = [t \in Thread |-> Idle]
    /\ saves = 0
    /\ loose = {}

ItemOf(row) == IF row = None THEN None ELSE row.item

\* Mutant of FindBarcodeRow: other spellings are not looked up.
FindExactRow(c) == barcodes[c]

\* find_barcode_row: the row of the first spelling that has one.
FindBarcodeRow(c) ==
    LET found == {k \in DOMAIN Candidates[c] : barcodes[Candidates[c][k]] # None}
    IN IF found = {} THEN None ELSE barcodes[Candidates[c][Min(found)]]

----------------------------------------------------------------------------
(* A request. *)

\* product_save, or unbarcoded_product_create or _update with no code.
Begin(t, c, i, f) ==
    /\ thread[t] = Idle /\ saves < MaxSave
    /\ c = None \/ i = None
    /\ thread' = [thread EXCEPT ![t] = [Idle EXCEPT !.pc = "start", !.code = c, !.item = i, !.form = f]]
    /\ saves' = saves + 1
    /\ loose' = IF \E u \in Thread \ {t} : thread[u].code # None /\ Alike(c, thread[u].code)
                THEN loose \cup {d \in Code : Alike(c, d)} ELSE loose
    /\ UNCHANGED <<barcodes, inventory, audit>>

\* save_product: its barcode row; v2 does not read the product before it writes.
ReadRow(t) ==
    LET row == barcodes[thread[t].code]
    IN /\ thread[t].pc = "start" /\ thread[t].code # None
       /\ thread' = [thread EXCEPT ![t].row = row, ![t].match = row,
             ![t].pc = CASE row = None -> "match"
                         [] ItemOf(row) # None /\ app = "admin" -> "before"
                         [] OTHER -> "write"]
       /\ UNCHANGED <<barcodes, inventory, audit, saves, loose>>

Match(t) ==
    LET row == FindBarcodeRow(thread[t].code)
    IN /\ thread[t].pc = "match"
       /\ thread' = [thread EXCEPT ![t].match = row,
             ![t].pc = IF ItemOf(row) # None /\ app = "admin" THEN "before" ELSE "write"]
       /\ UNCHANGED <<barcodes, inventory, audit, saves, loose>>

ReadBefore(t) ==
    /\ thread[t].pc = "before"
    /\ thread' = [thread EXCEPT ![t].before = inventory[ItemOf(thread[t].match)], ![t].pc = "write"]
    /\ UNCHANGED <<barcodes, inventory, audit, saves, loose>>

\* save_unbarcoded_product: a new product has nothing to read.
ReadExisting(t) ==
    /\ thread[t].pc = "start" /\ thread[t].code = None
    /\ thread' = [thread EXCEPT ![t].pc = "write",
          ![t].before = IF thread[t].item = None THEN None ELSE inventory[thread[t].item]]
    /\ UNCHANGED <<barcodes, inventory, audit, saves, loose>>

\* What a form writes to a row: v2 keeps the whole price in cents.
Saved(made, f) == [made |-> made, pack |-> f, whole |-> <<"whole", f>>,
                   cents |-> <<IF app = "admin" THEN "unit" ELSE "whole", f>>]

Fresh == {i \in Item : inventory[i] = None /\ \A j \in 0..(i - 1) : j \in Item => inventory[j] # None}

\* log_audit, in the transaction.
Audit(i, t) ==
    audit' = IF app = "admin" THEN Append(audit, [item |-> i, before |-> thread[t].before,
                                                  after |-> thread[t].form, by |-> "save"])
                              ELSE audit

\* Mutant of Clash: INSERT OR REPLACE.
NeverClash(t) == FALSE

\* The unique index on barcodes.barcode: a row that was not there when it was read.
Clash(t) == thread[t].row = None /\ barcodes[thread[t].code] # None

\* The write fails, for a clash or because the database stays locked.
RollBack(t) == thread' = [thread EXCEPT ![t] = Idle] /\ UNCHANGED <<barcodes, inventory, audit>>

\* Mutant of Attached: a row that is there is left as it is.
AttachedIfNew(row, i) == IF row = None THEN [item |-> i, card |-> FALSE] ELSE row

\* Mutant of Attached: the id of another insert.
AttachedNext(row, i) == [item |-> i + 1, card |-> row # None /\ row.card]

\* The row of a code after product i was attached to it.
Attached(row, i) == [item |-> i, card |-> row # None /\ row.card]

\* The transaction of save_product: the product found is updated, or one made.
Write(t) ==
    LET c == thread[t].code
        found == ItemOf(thread[t].match)
        row == IF thread[t].row = None THEN None ELSE barcodes[c]
    IN /\ thread[t].pc = "write" /\ c # None
       /\ \/ RollBack(t)
          \/ /\ ~Clash(t)
             /\ \E i \in IF found # None THEN {found} ELSE Fresh :
                  /\ inventory' = [inventory EXCEPT ![i] =
                        Saved(IF found # None THEN inventory[i].made ELSE c, thread[t].form)]
                  /\ barcodes' = IF found # None /\ row # None THEN barcodes
                                 ELSE [barcodes EXCEPT ![c] = Attached(row, i)]
                  /\ Audit(i, t)
             /\ thread' = [thread EXCEPT ![t].pc = "readback"]
       /\ UNCHANGED <<saves, loose>>

\* The transaction of save_unbarcoded_product.
WriteUnbarcoded(t) ==
    LET i == thread[t].item
        gone == i # None /\ (inventory[i] = None \/ \E c \in Code : ItemOf(barcodes[c]) = i)
    IN /\ thread[t].pc = "write" /\ thread[t].code = None
       /\ \/ RollBack(t)
          \/ /\ ~gone
             /\ \E j \in IF i # None THEN {i} ELSE Fresh :
                  /\ inventory' = [inventory EXCEPT ![j] = Saved(None, thread[t].form)]
                  /\ Audit(j, t)
             /\ thread' = [thread EXCEPT ![t] = Idle]
             /\ UNCHANGED barcodes
       /\ UNCHANGED <<saves, loose>>

\* lookup_product of what was saved, after the commit.
ReadBack(t) ==
    /\ thread[t].pc = "readback"
    /\ thread' = [thread EXCEPT ![t] = Idle]
    /\ UNCHANGED <<barcodes, inventory, audit, saves, loose>>

----------------------------------------------------------------------------
(* The other writers. *)

\* update_info without an id: a product and its barcode, or neither.
CreateInfo(c) ==
    /\ barcodes[c] = None
    /\ \E i \in Fresh :
         /\ inventory' = [inventory EXCEPT ![i] =
                [made |-> c, pack |-> None, cents |-> SetPrice, whole |-> None]]
         /\ barcodes' = [barcodes EXCEPT ![c] = [item |-> i, card |-> FALSE]]
    /\ loose' = loose \cup {d \in Code : Alike(c, d)}
    /\ UNCHANGED <<audit, thread, saves>>

UpdateInfo(i) ==
    /\ inventory[i] # None
    /\ inventory' = [inventory EXCEPT ![i].cents = SetPrice]
    /\ UNCHANGED <<barcodes, audit, thread, saves, loose>>

AddUserCard(c) ==
    /\ barcodes[c] = None
    /\ barcodes' = [barcodes EXCEPT ![c] = [item |-> None, card |-> TRUE]]
    /\ UNCHANGED <<inventory, audit, thread, saves, loose>>

\* apply_invoice: admin-web sets the price of a product from an invoice line.
ApplyInvoice(i, f) ==
    /\ app = "admin" /\ saves < MaxSave
    /\ inventory[i] # None
    /\ inventory' = [inventory EXCEPT ![i] = Saved(inventory[i].made, f)]
    /\ audit' = Append(audit, [item |-> i, before |-> inventory[i], after |-> f, by |-> "invoice"])
    /\ saves' = saves + 1
    /\ UNCHANGED <<barcodes, thread, loose>>

\* Mutant of RepairedWhole: as in the other server.
RepairedByOther(row) ==
    IF app = "v2" THEN IF row.whole = None THEN [row EXCEPT !.whole = row.cents] ELSE row
                  ELSE [row EXCEPT !.whole = row.cents]

RepairedWhole(row) ==
    IF app = "v2" \/ row.whole = None THEN [row EXCEPT !.whole = row.cents] ELSE row

\* A restart: requests end, ensure_schema repairs the whole prices.
Restart ==
    /\ thread' = [t \in Thread |-> Idle]
    /\ inventory' = [i \in Item |-> IF inventory[i] = None THEN None ELSE RepairedWhole(inventory[i])]
    /\ UNCHANGED <<barcodes, audit, saves, loose>>

Next ==
    /\ UNCHANGED app
    /\ \/ \E t \in Thread, c \in Code \cup {None}, i \in Item \cup {None}, f \in Form : Begin(t, c, i, f)
       \/ \E t \in Thread : \/ ReadRow(t) \/ Match(t) \/ ReadBefore(t) \/ ReadExisting(t)
                            \/ Write(t) \/ WriteUnbarcoded(t) \/ ReadBack(t)
       \/ \E c \in Code : CreateInfo(c)
       \/ \E i \in Item : UpdateInfo(i) \/ \E f \in Form : ApplyInvoice(i, f)
       \/ \E c \in Code : AddUserCard(c)
       \/ Restart

Spec == Init /\ [][Next]_vars

----------------------------------------------------------------------------
(* Properties. *)

\* Entry k of the audit log is the last one of its product.
LastAudit(k) == \A n \in DOMAIN audit : n > k => audit[n].item # audit[k].item

\* The products that an invoice priced, and no save since.
Repriced == {audit[k].item : k \in {n \in DOMAIN audit : audit[n].by = "invoice" /\ LastAudit(n)}}

\* What was saved can be scanned: the mapping the save made is still there when
\* it is read back ("Product was saved but could not be read back." is never
\* raised), and it shows that form unless a save of the same product overlapped,
\* or an invoice has priced the product since.
SavedCanBeScanned ==
    \A t \in Thread : thread[t].pc = "readback" =>
        LET i == ItemOf(FindBarcodeRow(thread[t].code))
        IN /\ i # None
           /\ \/ thread[t].code \in loose \/ i \in Repriced
              \/ inventory[i].pack = thread[t].form

\* Two spellings of one barcode (each a candidate of the other) lead to one
\* product, unless their saves overlapped or one was a card or came from update_info.
OneProduct ==
    \A c, d \in Code :
        /\ c \in ToSet(Candidates[d]) /\ d \in ToSet(Candidates[c])
        /\ {c, d} \cap loose = {}
        /\ ItemOf(barcodes[c]) # None /\ ~barcodes[c].card
        /\ ItemOf(barcodes[d]) # None /\ ~barcodes[d].card
        => barcodes[c].item = barcodes[d].item

\* A product made for a barcode keeps it, whatever saves overlap: of two saves
\* that both make a product, one is rolled back.  (A card's row can be taken.)
NoOrphan ==
    \A i \in Item : inventory[i] # None /\ inventory[i].made # None =>
        LET row == barcodes[inventory[i].made] IN row # None /\ (row.card \/ row.item = i)

\* The audit log tells of no product that is not there, and the last entry of one
\* tells its price: the whole price, until the next entry (no other writer, no
\* restart and no save that was rolled back changes it), and the unit price, until
\* update_info sets another, which it does without an entry.
AuditTellsRow ==
    app = "admin" => \A k \in DOMAIN audit :
        LET row == inventory[audit[k].item]
        IN /\ row # None
           /\ LastAudit(k) => /\ row.whole = <<"whole", audit[k].after>>
                              /\ row.cents \in {<<"unit", audit[k].after>>, SetPrice}

\* admin-web: the whole price that was entered survives restarts and update_info,
\* and cents is the unit price derived from it unless update_info set it.
\* inventory-v2: what a restart derives from cents is a price somebody entered.
PackIsKept ==
    \A i \in Item : inventory[i] # None /\ inventory[i].pack # None =>
        LET row == inventory[i]
        IN /\ app = "admin" => row.whole = <<"whole", row.pack>>
           /\ row.cents = SetPrice \/ row.cents = Saved(None, row.pack).cents
           /\ app = "v2" => row.whole[1] # "unit"

\* A save is one step on the tables (Catalogue.tla), though its code is looked up
\* before the write lock is held: what was read is still true of a code that is
\* not loose, or the unique index rolls the save back.
Promise == INSTANCE Catalogue WITH
    sold <- [c \in Code |-> ItemOf(barcodes[c])],
    cards <- {c \in Code : barcodes[c] # None /\ barcodes[c].card},
    products <- {i \in Item : inventory[i] # None},
    form <- [i \in Item |-> IF inventory[i] = None THEN None ELSE inventory[i].pack],
    asked <- [t \in Thread |-> [code |-> thread[t].code, item |-> thread[t].item,
                                form |-> thread[t].form, done |-> thread[t].pc = "readback"]],
    crossed <- loose

ImplementsCatalogue == Promise!Spec
=============================================================================
