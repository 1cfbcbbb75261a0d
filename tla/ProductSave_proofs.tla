------------------------- MODULE ProductSave_proofs -------------------------
(***************************************************************************)
(* Theorems about ProductSave for any number of products, codes, spellings *)
(* and threads, in both servers.                                           *)
(*                                                                         *)
(* The argument.  What a thread read before its transaction may be out of  *)
(* date, but not in what matters: rows are never deleted, and the row of a *)
(* card stays one.  So a product that was matched is still there           *)
(* (Reads), and a save that makes a product finds its code free, or is     *)
(* rolled back, or takes a card's row, which tells that it is one.         *)
(*                                                                         *)
(* For the second invariant: two requests whose codes may be spellings of  *)
(* one product are known to overlap, and are loose (OverlapsLoose).  All   *)
(* codes that lead to a product, or whose save matched it, are alike       *)
(* (HoldersAlike), so a save of a code that is not loose is the only one   *)
(* that can change its row, its product, or the row of its other spelling  *)
(* while it is at work (Knows).                                            *)
(***************************************************************************)
EXTENDS ProductSave, WellFoundedInduction, TLAPS

\* A row of each table is as it should be.
Tables ==
    /\ barcodes \in [Code -> BarcodeRow \cup {None}]
    /\ inventory \in [Item -> ProductRow \cup {None}]
    /\ \A c \in Code : barcodes[c] # None =>
          /\ barcodes[c].item # None => inventory[barcodes[c].item] # None
          /\ barcodes[c].item # None \/ barcodes[c].card

Request == [pc : {"idle", "start", "match", "before", "write", "readback"},
            code : Code \cup {None}, item : Item \cup {None}, form : Form \cup {None},
            row : BarcodeRow \cup {None}, match : BarcodeRow \cup {None},
            before : ProductRow \cup {None}]

\* Of what a thread has read: a product is still there, a card is still one.
Reads(r) ==
    /\ r.pc # "idle" => r.form # None
    /\ ItemOf(r.match) # None => inventory[ItemOf(r.match)] # None
    /\ r.code # None /\ r.row # None =>
          /\ barcodes[r.code] # None
          /\ r.row.item = None => barcodes[r.code].card
    /\ r.row # None => r.match = r.row
    /\ r.pc = "match" => r.row = None /\ r.code # None
    /\ r.pc = "before" => ItemOf(r.match) # None

Threads == thread \in [Thread -> Request] /\ \A t \in Thread : Reads(thread[t])

IInv == app \in {"admin", "v2"} /\ Tables /\ Threads /\ saves \in 0..MaxSave /\ NoOrphan /\ PackIsKept

\* A nonempty set of naturals has a least element.
LEMMA LeastOf ==
  ASSUME NEW S, S \subseteq Nat, S # {}
  PROVE  Min(S) \in S /\ \A x \in S : Min(S) <= x
<1> DEFINE R == OpToRel(<, Nat)
<1>1. IsWellFoundedOn(R, Nat)
  BY NatLessThanWellFounded
<1>2. R = {ss \in Nat \X Nat : ss[1] < ss[2]}
  BY DEF OpToRel
<1> HIDE DEF R
<1>3. PICK x \in S : \A y \in S : ~ (<<y, x>> \in R)
  BY <1>1, WFMin
<1>4. \A y \in S : x <= y
  <2> SUFFICES ASSUME NEW y \in S  PROVE x <= y
    OBVIOUS
  <2>1. <<y, x>> \in Nat \X Nat /\ ~ (<<y, x>> \in R)
    BY <1>3
  <2>2. ~ (y < x)
    BY <1>2, <2>1
  <2>3. QED  BY <2>2
<1>5. QED  BY <1>4 DEF Min

\* find_barcode_row finds a row of the table, or none.
LEMMA FoundIsRow ==
  ASSUME ProductAssumption, NEW c \in Code
  PROVE  FindBarcodeRow(c) = None \/ \E d \in Code : FindBarcodeRow(c) = barcodes[d]
<1> DEFINE found == {k \in DOMAIN Candidates[c] : barcodes[Candidates[c][k]] # None}
<1>1. Candidates[c] \in Seq(Code)
  BY DEF ProductAssumption
<1>2. found \subseteq Nat /\ \A k \in found : Candidates[c][k] \in Code
  BY <1>1
<1>3. CASE found = {}
  BY <1>3 DEF FindBarcodeRow
<1>4. CASE found # {}
  <2>1. Min(found) \in found
    BY <1>2, <1>4, LeastOf
  <2>2. Candidates[c][Min(found)] \in Code
    BY <1>2, <2>1
  <2>3. FindBarcodeRow(c) = barcodes[Candidates[c][Min(found)]]
    BY <1>4 DEF FindBarcodeRow
  <2>4. QED  BY <2>2, <2>3
<1>5. QED  BY <1>3, <1>4

\* A product of the table, once saved or set, is a product of the table.
LEMMA SavedType ==
  ASSUME NEW made \in Code \cup {None}, NEW f \in Form
  PROVE  Saved(made, f) \in ProductRow
<1>1. <<"whole", f>> \in Amount /\ <<"unit", f>> \in Amount
  BY DEF Amount
<1>2. QED  BY <1>1 DEF Saved, ProductRow

LEMMA InitInvariant == ProductAssumption /\ Init => IInv
<1> SUFFICES ASSUME ProductAssumption, Init  PROVE IInv
  OBVIOUS
<1>1. Tables
  BY DEF Init, Tables
<1>2. Idle \in Request /\ Reads(Idle)
  BY DEF Idle, Request, Reads, ItemOf
<1>3. Threads
  BY <1>2 DEF Init, Threads
<1>4. NoOrphan /\ PackIsKept
  BY DEF Init, NoOrphan, PackIsKept
<1>5. QED  BY <1>1, <1>3, <1>4 DEF Init, IInv, ProductAssumption

-----------------------------------------------------------------------------
(* Steps that only read *)

\* A thread reads, or ends: the tables are left alone.
LEMMA ReadingStep ==
  ASSUME IInv, NEW t \in Thread, NEW r \in Request,
         thread' = [thread EXCEPT ![t] = r], Reads(r),
         UNCHANGED <<app, barcodes, inventory>>, saves' \in 0..MaxSave
  PROVE  IInv'
<1>1. thread' \in [Thread -> Request] /\ \A u \in Thread : Reads(thread'[u])
  BY DEF IInv, Threads
<1>2. Threads'
  BY <1>1 DEF Threads, Reads
<1>3. QED  BY <1>2 DEF IInv, Tables, NoOrphan, PackIsKept, Saved

LEMMA RequestFields ==
  ASSUME IInv, NEW t \in Thread
  PROVE  thread[t] \in Request /\ Reads(thread[t])
  BY DEF IInv, Threads

LEMMA IdleReads == Idle \in Request /\ Reads(Idle)
  BY DEF Idle, Request, Reads, ItemOf

LEMMA BeginStep ==
  ASSUME ProductAssumption, IInv, NEW t \in Thread, NEW c \in Code \cup {None},
         NEW i \in Item \cup {None}, NEW f \in Form, Begin(t, c, i, f), app' = app
  PROVE  IInv'
<1> DEFINE r == [Idle EXCEPT !.pc = "start", !.code = c, !.item = i, !.form = f]
<1>1. r \in Request /\ Reads(r)
  BY DEF ProductAssumption, Idle, Request, Reads, ItemOf
<1>2. saves' \in 0..MaxSave
  BY DEF Begin, IInv, ProductAssumption
<1>3. QED  BY <1>1, <1>2, ReadingStep DEF Begin

LEMMA ReadRowStep ==
  ASSUME IInv, NEW t \in Thread, ReadRow(t), app' = app
  PROVE  IInv'
<1> DEFINE row == barcodes[thread[t].code]
           r == [thread[t] EXCEPT !.row = row, !.match = row,
             !.pc = CASE row = None -> "match"
                      [] ItemOf(row) # None /\ app = "admin" -> "before"
                      [] OTHER -> "write"]
<1>1. thread[t] \in Request /\ Reads(thread[t]) /\ thread[t].code \in Code /\ thread[t].pc = "start"
      /\ thread[t].code # None
  BY RequestFields DEF ReadRow, Request
<1>2. row \in BarcodeRow \cup {None}
  BY <1>1 DEF IInv, Tables
<1>3. r \in Request
  BY <1>1, <1>2 DEF Request
<1>4. Reads(r)
  <2>1. /\ r.form # None /\ r.code = thread[t].code /\ r.row = row /\ r.match = row
        /\ r.pc = "match" => row = None
        /\ r.pc = "before" => ItemOf(row) # None
    BY <1>1 DEF Reads, Request, ItemOf
  <2> HIDE DEF r
  <2>2. ItemOf(row) # None => inventory[ItemOf(row)] # None
    BY <1>1 DEF ItemOf, IInv, Tables
  <2>3. row # None => (row.item = None => row.card)
    BY <1>1 DEF IInv, Tables
  <2>4. QED  BY <1>1, <2>1, <2>2, <2>3 DEF Reads
<1>5. thread \in [Thread -> Request] /\ saves \in 0..MaxSave
  BY DEF IInv, Threads
<1>6. thread' = [thread EXCEPT ![t] = r]
  BY <1>1, <1>5 DEF ReadRow, Request
<1> HIDE DEF r
<1>7. QED
  BY <1>3, <1>4, <1>5, <1>6, ReadingStep DEF ReadRow

LEMMA MatchStep ==
  ASSUME ProductAssumption, IInv, NEW t \in Thread, Match(t), app' = app
  PROVE  IInv'
<1> DEFINE row == FindBarcodeRow(thread[t].code)
           r == [thread[t] EXCEPT !.match = row,
                   !.pc = IF ItemOf(row) # None /\ app = "admin" THEN "before" ELSE "write"]
<1>1. thread[t] \in Request /\ Reads(thread[t]) /\ thread[t].pc = "match"
  BY RequestFields DEF Match
<1>2. thread[t].row = None
  BY <1>1 DEF Reads
<1>3. \/ row = None
      \/ \E d \in Code : row = barcodes[d]
  <2>1. CASE thread[t].code = None
    BY <2>1, <1>1 DEF Reads
  <2>2. CASE thread[t].code \in Code
    BY <2>2, FoundIsRow
  <2>3. QED  BY <1>1, <2>1, <2>2 DEF Request
<1> HIDE DEF row
<1>4. /\ row \in BarcodeRow \cup {None}
      /\ ItemOf(row) # None => inventory[ItemOf(row)] # None
  BY <1>3 DEF IInv, Tables, ItemOf
<1>5. r \in Request
  BY <1>1, <1>4, ZenonT(60) DEF Request
<1>6. Reads(r)
  BY <1>1, <1>2, <1>4 DEF Reads, Request
<1>7. QED
  BY <1>5, <1>6, ReadingStep DEF Match, IInv, row

LEMMA ReadBeforeStep ==
  ASSUME IInv, NEW t \in Thread, ReadBefore(t) \/ ReadExisting(t), app' = app
  PROVE  IInv'
<1>1. thread[t] \in Request /\ Reads(thread[t]) /\ thread \in [Thread -> Request]
  BY RequestFields DEF IInv, Threads
<1>2. \A b \in ProductRow \cup {None} :
        LET r == [thread[t] EXCEPT !.before = b, !.pc = "write"]
        IN r \in Request /\ (thread[t].pc # "idle" => Reads(r))
  BY <1>1 DEF Request, Reads
<1>3. \A i \in Item : inventory[i] \in ProductRow \cup {None}
  BY DEF IInv, Tables
<1>4. saves \in 0..MaxSave
  BY DEF IInv
<1>5. CASE ReadBefore(t)
  <2> DEFINE b == inventory[ItemOf(thread[t].match)]
             r == [thread[t] EXCEPT !.before = b, !.pc = "write"]
  <2>1. ItemOf(thread[t].match) \in Item
    BY <1>1, <1>5 DEF ReadBefore, Reads, Request, BarcodeRow, ItemOf
  <2>2. b \in ProductRow \cup {None}
    BY <1>3, <2>1
  <2>3. r \in Request /\ Reads(r)
    BY <1>2, <1>5, <2>2 DEF ReadBefore
  <2>4. thread' = [thread EXCEPT ![t] = r]
    BY <1>1, <1>5 DEF ReadBefore, Request
  <2> HIDE DEF r
  <2>5. QED  BY <1>4, <1>5, <2>3, <2>4, ReadingStep DEF ReadBefore
<1>6. CASE ReadExisting(t)
  <2> DEFINE b == IF thread[t].item = None THEN None ELSE inventory[thread[t].item]
             r == [thread[t] EXCEPT !.before = b, !.pc = "write"]
  <2>1. b \in ProductRow \cup {None}
    BY <1>1, <1>3 DEF Request
  <2>2. r \in Request /\ Reads(r)
    BY <1>2, <1>6, <2>1 DEF ReadExisting
  <2>3. thread' = [thread EXCEPT ![t] = r]
    BY <1>1, <1>6 DEF ReadExisting, Request
  <2> HIDE DEF r
  <2>4. QED  BY <1>4, <1>6, <2>2, <2>3, ReadingStep DEF ReadExisting
<1>7. QED  BY <1>5, <1>6

-----------------------------------------------------------------------------
(* Steps that write *)

\* What PackIsKept says of one row.
RowKept(row) == row.pack # None =>
    /\ app = "admin" => row.whole = <<"whole", row.pack>>
    /\ row.cents = SetPrice \/ row.cents = Saved(None, row.pack).cents
    /\ app = "v2" => row.whole[1] # "unit"

LEMMA SavedKept ==
  ASSUME ProductAssumption, app \in {"admin", "v2"}, NEW made, NEW f \in Form
  PROVE  RowKept(Saved(made, f))
  BY DEF ProductAssumption, RowKept, Saved

\* Rows are kept and stay what they were, so what was read of them holds.
LEMMA WritingStep ==
  ASSUME IInv, app' = app, Tables', NoOrphan', saves' \in 0..MaxSave,
         \A i \in Item : inventory'[i] = inventory[i] \/ (inventory'[i] # None /\ RowKept(inventory'[i])),
         \A c \in Code : barcodes[c] # None =>
            barcodes'[c] # None /\ (barcodes[c].card => barcodes'[c].card),
         \A t \in Thread : thread'[t] \in Request /\ Reads(thread'[t]),
         thread' \in [Thread -> Request]
  PROVE  IInv'
<1>1. \A r \in Request : Reads(r) => Reads(r)'
  <2> SUFFICES ASSUME NEW r \in Request, Reads(r)  PROVE Reads(r)'
    OBVIOUS
  <2>1. ItemOf(r.match) # None => ItemOf(r.match) \in Item
    BY DEF ItemOf, Request, BarcodeRow
  <2>2. r.code # None => r.code \in Code
    BY DEF Request
  <2>3. ItemOf(r.match) # None => inventory'[ItemOf(r.match)] # None
    BY <2>1 DEF Reads
  <2>4. r.code # None /\ r.row # None =>
          /\ barcodes'[r.code] # None
          /\ r.row.item = None => barcodes'[r.code].card
    BY <2>2 DEF Reads
  <2>5. QED  BY <2>3, <2>4 DEF Reads
<1>2. Threads'
  BY <1>1 DEF Threads, Reads
<1>3. PackIsKept'
  BY DEF IInv, PackIsKept, RowKept, Saved
<1>4. QED  BY <1>2, <1>3 DEF IInv

\* A request ends without having written.
LEMMA EndStep ==
  ASSUME IInv, NEW t \in Thread, thread' = [thread EXCEPT ![t] = Idle],
         UNCHANGED <<app, barcodes, inventory, saves>>
  PROVE  IInv'
  BY IdleReads, ReadingStep DEF IInv

\* The transaction of save_product: with a product that was matched, or a code
\* that is free, or the row of a card.
LEMMA WriteStep ==
  ASSUME ProductAssumption, IInv, NEW t \in Thread, Write(t), app' = app
  PROVE  IInv'
<1> DEFINE c == thread[t].code
           f == thread[t].form
           found == ItemOf(thread[t].match)
           row == IF thread[t].row = None THEN None ELSE barcodes[c]
           r == [thread[t] EXCEPT !.pc = "readback"]
<1>1. /\ thread[t] \in Request /\ Reads(thread[t]) /\ thread \in [Thread -> Request]
      /\ thread[t].pc = "write" /\ c # None /\ saves' = saves
      /\ Tables /\ saves \in 0..MaxSave
  BY RequestFields DEF Write, IInv, Threads
<1>2. c \in Code /\ f \in Form /\ (found # None => found \in Item /\ inventory[found] # None)
  BY <1>1 DEF Request, Reads, ItemOf, BarcodeRow
<1>3. CASE RollBack(t)
  BY <1>1, <1>3, EndStep DEF RollBack
<1>4. CASE ~ RollBack(t)
  <2> DEFINE made(i) == IF found # None THEN inventory[i].made ELSE c
  <2>1. PICK i \in (IF found # None THEN {found} ELSE Fresh) :
          /\ inventory' = [inventory EXCEPT ![i] = Saved(made(i), f)]
          /\ barcodes' = IF found # None /\ row # None THEN barcodes
                         ELSE [barcodes EXCEPT ![c] = Attached(row, i)]
    BY <1>4 DEF Write
  <2>2. ~ Clash(t) /\ thread' = [thread EXCEPT ![t].pc = "readback"]
    BY <1>4 DEF Write
  <2>3. row = barcodes[c]
    BY <1>1, <2>2 DEF Clash
  <2>4. i \in Item /\ (found # None => i = found) /\ (found = None => inventory[i] = None)
    BY <1>2, <2>1 DEF Fresh
  <2>5. made(i) \in Code \cup {None}
    BY <1>1, <1>2, <2>4 DEF Tables, ProductRow
  <2>6. /\ Saved(made(i), f) \in ProductRow /\ RowKept(Saved(made(i), f))
        /\ Saved(made(i), f) # None /\ Saved(made(i), f).made = made(i)
    BY <1>2, <2>5, SavedType, SavedKept DEF ProductAssumption, Saved, IInv
  <2>7. Attached(row, i) \in BarcodeRow /\ Attached(row, i) # None
        /\ Attached(row, i).item = i /\ (row # None /\ row.card => Attached(row, i).card)
    <3> DEFINE k == row # None /\ row.card
    <3>1. k \in BOOLEAN
      OBVIOUS
    <3>2. Attached(row, i) = [item |-> i, card |-> k]
      BY DEF Attached
    <3>3. row # None /\ row.card => k = TRUE
      OBVIOUS
    <3> HIDE DEF k
    <3>4. Attached(row, i) \in BarcodeRow
      BY <2>4, <3>1, <3>2 DEF BarcodeRow
    <3>5. row # None /\ row.card => Attached(row, i).card
      BY <3>2, <3>3
    <3>6. QED  BY <3>2, <3>4, <3>5 DEF ProductAssumption
  <2> HIDE DEF made, row
  <2>8. /\ \A j \in Item : inventory'[j] = IF j = i THEN Saved(made(i), f) ELSE inventory[j]
        /\ inventory' \in [Item -> ProductRow \cup {None}]
    BY <1>1, <2>1, <2>4, <2>6 DEF Tables
  <2>9. /\ \A d \in Code : \/ barcodes'[d] = barcodes[d] /\ (d = c => found # None /\ row # None)
                           \/ d = c /\ ~ (found # None /\ row # None) /\ barcodes'[d] = Attached(row, i)
        /\ barcodes' \in [Code -> BarcodeRow \cup {None}]
    BY <1>1, <1>2, <2>1, <2>7 DEF Tables
  <2>10. \A j \in Item : inventory[j] # None => inventory'[j] # None
    BY <2>6, <2>8
  <2>11. Tables'
    <3>1. ASSUME NEW d \in Code, barcodes'[d] # None
          PROVE  /\ barcodes'[d].item # None => inventory'[barcodes'[d].item] # None
                 /\ barcodes'[d].item # None \/ barcodes'[d].card
      <4>1. CASE barcodes'[d] = barcodes[d]
        <5>1. barcodes[d].item # None => barcodes[d].item \in Item
          BY <1>1, <3>1, <4>1 DEF Tables, BarcodeRow
        <5>2. QED  BY <1>1, <2>10, <3>1, <4>1, <5>1 DEF Tables
      <4>2. CASE barcodes'[d] = Attached(row, i)
        <5>1. i # None
          BY <2>4 DEF ProductAssumption
        <5>2. QED  BY <2>4, <2>6, <2>7, <2>8, <4>2, <5>1
      <4>3. QED  BY <2>9, <4>1, <4>2
    <3>2. QED  BY <2>8, <2>9, <3>1 DEF Tables
  <2>12. \A d \in Code : barcodes[d] # None =>
            barcodes'[d] # None /\ (barcodes[d].card => barcodes'[d].card)
    BY <2>3, <2>7, <2>9
  <2>13. NoOrphan'
    <3> SUFFICES ASSUME NEW j \in Item, inventory'[j] # None, inventory'[j].made # None
                 PROVE  LET new == barcodes'[inventory'[j].made]
                        IN  new # None /\ (new.card \/ new.item = j)
      BY DEF NoOrphan
    <3> DEFINE m == inventory'[j].made
    <3>1. CASE j = i /\ found = None
      <4>1. m = c
        BY <2>6, <2>8, <3>1 DEF made
      <4>2. QED  BY <1>2, <2>7, <2>9, <3>1, <4>1
    <3>2. CASE j # i \/ found # None
      <4>1. inventory[j] # None /\ m = inventory[j].made /\ m \in Code
        <5>1. CASE j # i
          BY <1>1, <2>8, <5>1 DEF Tables, ProductRow
        <5>2. CASE j = i /\ found # None
          BY <1>1, <1>2, <2>4, <2>5, <2>6, <2>8, <5>2 DEF made
        <5>3. QED  BY <3>2, <5>1, <5>2
      <4>2. barcodes[m] # None /\ (barcodes[m].card \/ barcodes[m].item = j)
        BY <4>1 DEF IInv, NoOrphan
      <4> HIDE DEF m
      <4>3. CASE barcodes'[m] = barcodes[m]
        BY <4>2, <4>3 DEF m
      <4>4. CASE m = c /\ ~ (found # None /\ row # None) /\ barcodes'[m] = Attached(row, i)
        <5>1. row # None /\ found = None /\ thread[t].row # None
          BY <2>3, <4>2, <4>4 DEF row
        <5>2. thread[t].row.item = None
          BY <1>1, <5>1 DEF Reads, ItemOf
        <5>3. barcodes[c].card
          BY <1>1, <5>1, <5>2 DEF Reads
        <5>4. QED  BY <1>2, <2>3, <2>7, <4>4, <5>1, <5>3 DEF m
      <4>5. QED  BY <2>9, <4>1, <4>3, <4>4
    <3>3. QED  BY <3>1, <3>2
  <2>14. r \in Request /\ Reads(r) /\ thread' = [thread EXCEPT ![t] = r]
    BY <1>1, <2>2 DEF Request, Reads
  <2> HIDE DEF r
  <2>15. thread' \in [Thread -> Request] /\ \A u \in Thread : thread'[u] \in Request /\ Reads(thread'[u])
    BY <1>1, <2>14 DEF IInv, Threads
  <2>16. QED
    BY <1>1, <2>6, <2>8, <2>11, <2>12, <2>13, <2>15, WritingStep
<1>5. QED  BY <1>3, <1>4

\* The transaction of save_unbarcoded_product makes or takes a product of no code.
LEMMA WriteUnbarcodedStep ==
  ASSUME ProductAssumption, IInv, NEW t \in Thread, WriteUnbarcoded(t), app' = app
  PROVE  IInv'
<1> DEFINE f == thread[t].form
           i == thread[t].item
           gone == i # None /\ (inventory[i] = None \/ \E c \in Code : ItemOf(barcodes[c]) = i)
<1>1. /\ thread[t] \in Request /\ Reads(thread[t]) /\ thread \in [Thread -> Request]
      /\ thread[t].pc = "write" /\ saves' = saves /\ Tables /\ saves \in 0..MaxSave
  BY RequestFields DEF WriteUnbarcoded, IInv, Threads
<1>2. CASE RollBack(t)
  BY <1>1, <1>2, EndStep DEF RollBack
<1>3. CASE ~ RollBack(t)
  <2>1. PICK j \in (IF i # None THEN {i} ELSE Fresh) :
          inventory' = [inventory EXCEPT ![j] = Saved(None, f)]
    BY <1>3 DEF WriteUnbarcoded
  <2>2. barcodes' = barcodes /\ thread' = [thread EXCEPT ![t] = Idle]
    BY <1>3 DEF WriteUnbarcoded
  <2>3. j \in Item
    BY <1>1, <2>1 DEF Fresh, Request
  <2>4. f \in Form
    BY <1>1 DEF Request, Reads
  <2>5. /\ Saved(None, f) \in ProductRow /\ RowKept(Saved(None, f))
        /\ Saved(None, f) # None /\ Saved(None, f).made = None
    BY <2>4, SavedType, SavedKept DEF ProductAssumption, Saved, IInv
  <2> HIDE DEF f
  <2>6. /\ \A k \in Item : inventory'[k] = IF k = j THEN Saved(None, f) ELSE inventory[k]
        /\ inventory' \in [Item -> ProductRow \cup {None}]
    BY <1>1, <2>1, <2>3, <2>5 DEF Tables
  <2>7. \A c \in Code : barcodes[c] # None /\ barcodes[c].item # None => barcodes[c].item \in Item
    BY <1>1 DEF Tables, BarcodeRow
  <2>8. Tables'
    BY <1>1, <2>2, <2>5, <2>6, <2>7 DEF Tables
  <2>9. NoOrphan'
    BY <2>2, <2>5, <2>6 DEF IInv, NoOrphan
  <2>10. thread' \in [Thread -> Request] /\ \A u \in Thread : thread'[u] \in Request /\ Reads(thread'[u])
    BY <1>1, <2>2, IdleReads DEF IInv, Threads
  <2>11. QED
    BY <1>1, <2>2, <2>5, <2>6, <2>8, <2>9, <2>10, WritingStep
<1>4. QED  BY <1>2, <1>3

LEMMA CreateInfoStep ==
  ASSUME ProductAssumption, IInv, NEW c \in Code, CreateInfo(c), app' = app
  PROVE  IInv'
<1> DEFINE new == [made |-> c, pack |-> None, cents |-> SetPrice, whole |-> None]
           row(i) == [item |-> i, card |-> FALSE]
<1>1. PICK i \in Fresh : inventory' = [inventory EXCEPT ![i] = new]
                         /\ barcodes' = [barcodes EXCEPT ![c] = row(i)]
  BY DEF CreateInfo
<1>2. i \in Item /\ inventory[i] = None /\ barcodes[c] = None /\ Tables
      /\ thread' = thread /\ saves' = saves
  BY DEF Fresh, CreateInfo, IInv
<1>3. new \in ProductRow /\ RowKept(new) /\ new # None /\ new.made = c
  <2>1. SetPrice \in Amount
    BY DEF Amount
  <2>2. new \in ProductRow
    BY <2>1 DEF ProductRow
  <2>3. QED  BY <2>2 DEF RowKept, ProductAssumption
<1>4. row(i) \in BarcodeRow /\ row(i) # None /\ row(i).item = i
  <2>1. row(i) \in BarcodeRow
    BY <1>2 DEF BarcodeRow
  <2>2. QED  BY <2>1 DEF ProductAssumption
<1> HIDE DEF new, row
<1>5. /\ \A j \in Item : inventory'[j] = IF j = i THEN new ELSE inventory[j]
      /\ inventory' \in [Item -> ProductRow \cup {None}]
      /\ \A d \in Code : barcodes'[d] = IF d = c THEN row(i) ELSE barcodes[d]
      /\ barcodes' \in [Code -> BarcodeRow \cup {None}]
  BY <1>1, <1>2, <1>3, <1>4 DEF Tables
<1>6. \A d \in Code : barcodes[d] # None /\ barcodes[d].item # None => barcodes[d].item \in Item
  BY <1>2 DEF Tables, BarcodeRow
<1>7. i # None
  BY <1>2 DEF ProductAssumption
<1>8. Tables'
  BY <1>2, <1>3, <1>4, <1>5, <1>6, <1>7 DEF Tables
<1>9. \A j \in Item : inventory[j] # None /\ inventory[j].made # None => inventory[j].made \in Code
  BY <1>2 DEF Tables, ProductRow
<1>10. NoOrphan'
  BY <1>2, <1>3, <1>4, <1>5, <1>9 DEF IInv, NoOrphan
<1>11. thread' \in [Thread -> Request] /\ \A u \in Thread : thread'[u] \in Request /\ Reads(thread'[u])
  BY <1>2 DEF IInv, Threads
<1>12. saves' \in 0..MaxSave
  BY <1>2 DEF IInv
<1>13. QED
  BY <1>2, <1>3, <1>5, <1>8, <1>10, <1>11, <1>12, WritingStep

LEMMA UpdateInfoStep ==
  ASSUME ProductAssumption, IInv, NEW i \in Item, UpdateInfo(i), app' = app
  PROVE  IInv'
<1> DEFINE new == [inventory[i] EXCEPT !.cents = SetPrice]
<1>1. inventory[i] \in ProductRow /\ Tables /\ RowKept(inventory[i])
  BY DEF UpdateInfo, IInv, Tables, PackIsKept, RowKept
<1>2. inventory' = [inventory EXCEPT ![i] = new] /\ barcodes' = barcodes
      /\ thread' = thread /\ saves' = saves /\ inventory[i] # None
  BY DEF UpdateInfo
<1>3. new \in ProductRow /\ RowKept(new) /\ new # None /\ new.made = inventory[i].made
  <2>1. SetPrice \in Amount
    BY DEF Amount
  <2>2. new \in ProductRow
    BY <1>1, <2>1 DEF ProductRow
  <2>3. RowKept(new)
    BY <1>1 DEF RowKept, ProductRow
  <2>4. QED  BY <1>1, <2>2, <2>3 DEF ProductAssumption, ProductRow
<1> HIDE DEF new
<1>4. /\ \A j \in Item : inventory'[j] = IF j = i THEN new ELSE inventory[j]
      /\ inventory' \in [Item -> ProductRow \cup {None}]
  BY <1>1, <1>2, <1>3 DEF Tables
<1>5. \A d \in Code : barcodes[d] # None /\ barcodes[d].item # None => barcodes[d].item \in Item
  BY <1>1 DEF Tables, BarcodeRow
<1>6. Tables'
  BY <1>1, <1>2, <1>3, <1>4, <1>5 DEF Tables
<1>7. NoOrphan'
  BY <1>2, <1>3, <1>4 DEF IInv, NoOrphan
<1>8. thread' \in [Thread -> Request] /\ \A u \in Thread : thread'[u] \in Request /\ Reads(thread'[u])
  BY <1>2 DEF IInv, Threads
<1>9. saves' \in 0..MaxSave
  BY <1>2 DEF IInv
<1>10. QED
  BY <1>2, <1>3, <1>4, <1>6, <1>7, <1>8, <1>9, WritingStep

\* What an invoice writes to a product's row.
LEMMA InvoiceRow ==
  ASSUME ProductAssumption, IInv, NEW i \in Item, NEW f \in Form, ApplyInvoice(i, f)
  PROVE  LET new == Saved(inventory[i].made, f)
         IN  /\ inventory' = [inventory EXCEPT ![i] = new]
             /\ new \in ProductRow /\ new # None /\ new.made = inventory[i].made /\ new.pack = f
             /\ \A j \in Item : inventory'[j] = IF j = i THEN new ELSE inventory[j]
             /\ inventory' \in [Item -> ProductRow \cup {None}]
<1> DEFINE new == Saved(inventory[i].made, f)
<1>1. inventory' = [inventory EXCEPT ![i] = new] /\ inventory \in [Item -> ProductRow \cup {None}]
  BY DEF ApplyInvoice, IInv, Tables
<1>2. inventory[i].made \in Code \cup {None}
  BY <1>1 DEF ApplyInvoice, ProductRow
<1>3. new \in ProductRow /\ new # None /\ new.made = inventory[i].made /\ new.pack = f
  BY <1>2, SavedType DEF ProductAssumption, Saved
<1> HIDE DEF new
<1>4. QED  BY <1>1, <1>3 DEF new

LEMMA ApplyInvoiceStep ==
  ASSUME ProductAssumption, IInv, NEW i \in Item, NEW f \in Form, ApplyInvoice(i, f), app' = app
  PROVE  IInv'
<1>1. PICK new : new = Saved(inventory[i].made, f)
  OBVIOUS
<1>2. /\ new \in ProductRow /\ new # None /\ new.made = inventory[i].made /\ RowKept(new)
      /\ \A j \in Item : inventory'[j] = IF j = i THEN new ELSE inventory[j]
      /\ inventory' \in [Item -> ProductRow \cup {None}]
  BY <1>1, InvoiceRow, SavedKept DEF IInv
<1>3. /\ barcodes' = barcodes /\ thread' = thread /\ inventory[i] # None /\ Tables
      /\ saves < MaxSave /\ saves' = saves + 1
  BY DEF ApplyInvoice, IInv
<1>4. \A d \in Code : barcodes[d] # None /\ barcodes[d].item # None => barcodes[d].item \in Item
  BY <1>3 DEF Tables, BarcodeRow
<1>5. Tables'
  BY <1>2, <1>3, <1>4 DEF Tables
<1>6. NoOrphan'
  BY <1>2, <1>3 DEF IInv, NoOrphan
<1>7. thread' \in [Thread -> Request] /\ \A u \in Thread : thread'[u] \in Request /\ Reads(thread'[u])
  BY <1>3 DEF IInv, Threads
<1>8. saves' \in 0..MaxSave
  BY <1>3 DEF IInv, ProductAssumption
<1>9. QED
  BY <1>2, <1>3, <1>5, <1>6, <1>7, <1>8, WritingStep

LEMMA AddUserCardStep ==
  ASSUME ProductAssumption, IInv, NEW c \in Code, AddUserCard(c), app' = app
  PROVE  IInv'
<1> DEFINE row == [item |-> None, card |-> TRUE]
<1>1. barcodes' = [barcodes EXCEPT ![c] = row] /\ barcodes[c] = None /\ inventory' = inventory
      /\ thread' = thread /\ saves' = saves /\ Tables
  BY DEF AddUserCard, IInv
<1>2. row \in BarcodeRow /\ row # None /\ row.item = None /\ row.card
  <2>1. row \in BarcodeRow
    BY DEF BarcodeRow
  <2>2. QED  BY <2>1 DEF ProductAssumption
<1> HIDE DEF row
<1>3. /\ \A d \in Code : barcodes'[d] = IF d = c THEN row ELSE barcodes[d]
      /\ barcodes' \in [Code -> BarcodeRow \cup {None}]
  BY <1>1, <1>2 DEF Tables
<1>4. Tables'
  BY <1>1, <1>2, <1>3 DEF Tables
<1>5. \A j \in Item : inventory[j] # None /\ inventory[j].made # None => inventory[j].made \in Code
  BY <1>1 DEF Tables, ProductRow
<1>6. NoOrphan'
  BY <1>1, <1>3, <1>5 DEF IInv, NoOrphan
<1>7. thread' \in [Thread -> Request] /\ \A u \in Thread : thread'[u] \in Request /\ Reads(thread'[u])
  BY <1>1 DEF IInv, Threads
<1>8. saves' \in 0..MaxSave
  BY <1>1 DEF IInv
<1>9. QED
  BY <1>1, <1>2, <1>3, <1>4, <1>6, <1>7, <1>8, WritingStep

\* A start of the server repairs the whole prices: that of admin-web only those
\* that are missing, and a product with a pack misses none.
LEMMA RestartStep ==
  ASSUME ProductAssumption, IInv, Restart, app' = app
  PROVE  IInv'
<1>1. /\ Tables /\ barcodes' = barcodes /\ saves' = saves /\ saves \in 0..MaxSave
      /\ \A i \in Item : inventory'[i] = IF inventory[i] = None THEN None ELSE RepairedWhole(inventory[i])
      /\ inventory' = [i \in Item |-> IF inventory[i] = None THEN None ELSE RepairedWhole(inventory[i])]
  BY DEF Restart, IInv
<1>2. ASSUME NEW i \in Item, inventory[i] # None
      PROVE  LET new == RepairedWhole(inventory[i])
             IN  new \in ProductRow /\ RowKept(new) /\ new # None /\ new.made = inventory[i].made
  <2> DEFINE new == RepairedWhole(inventory[i])
  <2>1. inventory[i] \in ProductRow /\ RowKept(inventory[i])
    BY <1>1, <1>2 DEF Tables, IInv, PackIsKept, RowKept
  <2>2. new = inventory[i] \/ (new = [inventory[i] EXCEPT !.whole = inventory[i].cents]
                                /\ (app = "v2" \/ inventory[i].whole = None))
    BY DEF RepairedWhole
  <2>3. new \in ProductRow /\ new.made = inventory[i].made /\ new.pack = inventory[i].pack
        /\ new.cents = inventory[i].cents
    BY <2>1, <2>2 DEF ProductRow
  <2>4. RowKept(new)
    <3>1. CASE new = inventory[i]
      BY <2>1, <3>1
    <3>2. CASE new.pack = None
      BY <3>2 DEF RowKept
    <3>3. CASE new.pack # None /\ app = "admin" /\ new # inventory[i]
      <4>1. inventory[i].whole = None /\ inventory[i].whole = <<"whole", inventory[i].pack>>
        BY <2>1, <2>2, <2>3, <3>3 DEF RowKept, ProductAssumption
      <4>2. <<"whole", inventory[i].pack>> \in Amount
        BY <2>1, <2>3, <3>3 DEF ProductRow, Amount
      <4>3. QED  BY <4>1, <4>2 DEF ProductAssumption
    <3>4. CASE new.pack # None /\ app = "v2" /\ new # inventory[i]
      <4>1. new.whole = inventory[i].cents
        BY <2>1, <2>2, <3>4 DEF ProductRow
      <4>2. inventory[i].cents = SetPrice \/ inventory[i].cents = <<"whole", new.pack>>
        BY <2>1, <2>3, <3>4 DEF RowKept, Saved
      <4>3. new.whole[1] # "unit"
        BY <4>1, <4>2 DEF SetPrice
      <4>4. QED  BY <2>1, <2>3, <3>4, <4>3 DEF RowKept
    <3>5. QED  BY <3>1, <3>2, <3>3, <3>4 DEF IInv
  <2>5. QED  BY <2>3, <2>4 DEF ProductAssumption
<1>3. Tables'
  <2>1. inventory' \in [Item -> ProductRow \cup {None}]
    BY <1>1, <1>2
  <2>2. \A d \in Code : barcodes[d] # None /\ barcodes[d].item # None => barcodes[d].item \in Item
    BY <1>1 DEF Tables, BarcodeRow
  <2>3. \A i \in Item : inventory[i] # None => inventory'[i] # None
    BY <1>1, <1>2
  <2>4. QED  BY <1>1, <2>1, <2>2, <2>3 DEF Tables
<1>4. NoOrphan'
  BY <1>1, <1>2 DEF IInv, NoOrphan
<1>5. thread' \in [Thread -> Request] /\ \A u \in Thread : thread'[u] \in Request /\ Reads(thread'[u])
  BY IdleReads DEF Restart
<1>6. \A i \in Item : inventory'[i] = inventory[i] \/ (inventory'[i] # None /\ RowKept(inventory'[i]))
  BY <1>1, <1>2
<1>7. QED
  BY <1>1, <1>3, <1>4, <1>5, <1>6, WritingStep

LEMMA NextInvariant ==
  ASSUME ProductAssumption, IInv, [Next]_vars
  PROVE  IInv'
<1>1. CASE UNCHANGED vars
  BY <1>1 DEF vars, IInv, Tables, Threads, Reads, NoOrphan, PackIsKept, Saved
<1>2. ASSUME NEW t \in Thread, ReadBack(t), app' = app  PROVE IInv'
  BY <1>2, EndStep DEF ReadBack
<1>3. CASE Next
  BY <1>2, <1>3, BeginStep, ReadRowStep, MatchStep, ReadBeforeStep, WriteStep, WriteUnbarcodedStep,
     CreateInfoStep, UpdateInfoStep, ApplyInvoiceStep, AddUserCardStep, RestartStep DEF Next
<1>4. QED  BY <1>1, <1>3

-----------------------------------------------------------------------------
(* The spellings of a code *)

LEMMA AlikeSelf == ASSUME ProductAssumption, NEW c \in Code  PROVE Alike(c, c)
<1>1. Candidates[c] \in Seq(Code) /\ Candidates[c] # <<>> /\ Candidates[c][1] = c
  BY DEF ProductAssumption
<1>2. c \in ToSet(Candidates[c])
  BY <1>1 DEF ToSet
<1>3. QED  BY <1>2 DEF Alike, ProductAssumption

LEMMA AlikeBoth ==
  ASSUME ProductAssumption, NEW c \in Code, NEW d \in Code, Alike(c, d)
  PROVE  Alike(d, c)
  BY DEF Alike, ProductAssumption

\* What may be the product of a candidate may be that of the code.
LEMMA AlikeFurther ==
  ASSUME ProductAssumption, NEW c \in Code, NEW e \in ToSet(Candidates[c]), NEW d \in Code, Alike(e, d)
  PROVE  Alike(c, d)
  BY DEF ProductAssumption

\* Two spellings of one barcode.
Twins(c, d) == c # d /\ c \in ToSet(Candidates[d]) /\ d \in ToSet(Candidates[c])

LEMMA TwinsAlike ==
  ASSUME ProductAssumption, NEW c \in Code, NEW d \in Code, Twins(c, d)
  PROVE  Alike(c, d) /\ Alike(d, c) /\ ToSet(Candidates[c]) = {c, d} /\ ToSet(Candidates[d]) = {c, d}
<1>1. ToSet(Candidates[c]) = {c, d} /\ ToSet(Candidates[d]) = {c, d}
  BY DEF Twins, ProductAssumption
<1>2. QED  BY <1>1 DEF Alike, ProductAssumption

\* What find_barcode_row finds is the row of a candidate; the code's own if it has one.
LEMMA FoundIsCandidate ==
  ASSUME ProductAssumption, NEW c \in Code
  PROVE  /\ FindBarcodeRow(c) # None => \E d \in ToSet(Candidates[c]) : FindBarcodeRow(c) = barcodes[d]
         /\ barcodes[c] # None => FindBarcodeRow(c) = barcodes[c]
         /\ \A d \in ToSet(Candidates[c]) : barcodes[d] # None => FindBarcodeRow(c) # None
<1> DEFINE found == {k \in DOMAIN Candidates[c] : barcodes[Candidates[c][k]] # None}
<1>1. Candidates[c] \in Seq(Code) /\ Candidates[c] # <<>> /\ Candidates[c][1] = c
  BY DEF ProductAssumption
<1>2. found \subseteq Nat /\ found \subseteq DOMAIN Candidates[c] /\ 1 \in DOMAIN Candidates[c]
      /\ \A k \in found : k >= 1 /\ barcodes[Candidates[c][k]] # None
  BY <1>1
<1>3. FindBarcodeRow(c) = IF found = {} THEN None ELSE barcodes[Candidates[c][Min(found)]]
  BY DEF FindBarcodeRow
<1>4. \A d \in ToSet(Candidates[c]) : barcodes[d] # None => found # {}
  BY DEF ToSet
<1>5. found # {} => Min(found) \in found
  BY <1>2, LeastOf
<1>6. found # {} => /\ Candidates[c][Min(found)] \in ToSet(Candidates[c])
                    /\ barcodes[Candidates[c][Min(found)]] # None
  BY <1>2, <1>5 DEF ToSet
<1>7. ASSUME barcodes[c] # None  PROVE Min(found) = 1
  <2>1. 1 \in found
    BY <1>1, <1>2, <1>7
  <2> HIDE DEF found
  <2>2. \A x \in found : (\A y \in found : x <= y) => x = 1
    BY <1>2, <2>1
  <2>3. \A y \in found : 1 <= y
    BY <1>2
  <2>4. \E x \in found : \A y \in found : x <= y
    BY <2>1, <2>3
  <2>5. QED  BY <2>2, <2>4 DEF Min
<1>8. barcodes[c] # None => found # {}
  BY <1>1, <1>2
<1> HIDE DEF found
<1>9. QED  BY <1>1, <1>3, <1>4, <1>6, <1>7, <1>8

-----------------------------------------------------------------------------
(* What the tables say of a code that is not loose *)

\* The code is sold: its row leads to a product and is no card's.
Sold(c) == ItemOf(barcodes[c]) # None /\ ~ barcodes[c].card

\* A code leads to product i, or a save of the code is about to.
Holds(c, i) == \/ ItemOf(barcodes[c]) = i
               \/ \E t \in Thread : thread[t].code = c /\ ItemOf(thread[t].match) = i

HoldersAlike == \A i \in Item, c, d \in Code : Holds(c, i) /\ Holds(d, i) => Alike(c, d)

\* Saves of codes that may be spellings of one product are known to overlap.
OverlapsLoose ==
    \A t, u \in Thread : /\ t # u /\ thread[t].code # None /\ thread[u].code # None
                         /\ Alike(thread[t].code, thread[u].code)
                         => thread[t].code \in loose

\* What a thread has read or written, as far as its code is not loose: the
\* product it read is still that of the code, the one it wrote is as written or
\* an invoice priced it since,
\* and the one that is sold under another spelling is the one it matched.
Knows(r) ==
    /\ r.code # None /\ ItemOf(r.row) # None =>
          /\ ItemOf(barcodes[r.code]) # None
          /\ r.code \in loose \/ ItemOf(barcodes[r.code]) = ItemOf(r.row)
    /\ r.pc = "readback" =>
          /\ r.code # None /\ ItemOf(barcodes[r.code]) # None
          /\ \/ r.code \in loose \/ ItemOf(barcodes[r.code]) \in Repriced
             \/ inventory[ItemOf(barcodes[r.code])].pack = r.form
    /\ r.pc \in {"before", "write"} /\ r.row = None /\ r.code # None =>
          \A c \in Code : /\ Twins(c, r.code) /\ {c, r.code} \cap loose = {}
                          /\ barcodes[r.code] = None /\ Sold(c)
                          => ItemOf(r.match) = ItemOf(barcodes[c])

Entry == [item : Item, before : ProductRow \cup {None}, after : Form, by : {"save", "invoice"}]

\* The last audit entry of a product tells its form; what the form says of the
\* price is PackIsKept.
AuditInv ==
    /\ audit \in Seq(Entry)
    /\ app = "admin" => \A k \in DOMAIN audit :
          /\ inventory[audit[k].item] # None
          /\ LastAudit(k) => inventory[audit[k].item].pack = audit[k].after

JInv == /\ loose \subseteq Code /\ OverlapsLoose /\ HoldersAlike
        /\ \A t \in Thread : Knows(thread[t])
        /\ OneProduct /\ AuditInv

\* A thread reads, begins or ends, and knows what it has to.
LEMMA ReadingKnows ==
  ASSUME ProductAssumption, IInv, JInv, UNCHANGED <<app, barcodes, inventory, audit>>,
         loose \subseteq loose', loose' \subseteq Code,
         NEW t \in Thread, NEW r \in Request, thread' = [thread EXCEPT ![t] = r], Knows(r),
         \A c \in Code, i \in Item : r.code = c /\ ItemOf(r.match) = i =>
            \A d \in Code : Holds(d, i) => Alike(c, d),
         \A u \in Thread \ {t} :
            r.code # None /\ thread[u].code # None /\ Alike(r.code, thread[u].code) =>
               r.code \in loose' /\ thread[u].code \in loose'
  PROVE  JInv'
<1>1. /\ thread' \in [Thread -> Request] /\ thread'[t] = r
      /\ \A u \in Thread \ {t} : thread'[u] = thread[u]
      /\ \A u \in Thread : Knows(thread'[u])
  BY DEF IInv, Threads, JInv
<1>1a. Repriced' = Repriced
  BY DEF Repriced, LastAudit
<1>2. \A s \in Request : Knows(s) => Knows(s)'
  BY <1>1a DEF Knows, Sold
<1>3. (\A u \in Thread : Knows(thread[u]))'
  BY <1>1, <1>2 DEF Knows, Sold
<1>4. OverlapsLoose'
  <2> SUFFICES ASSUME NEW v \in Thread, NEW u \in Thread, v # u,
                      thread'[v].code # None, thread'[u].code # None,
                      Alike(thread'[v].code, thread'[u].code)
               PROVE  thread'[v].code \in loose'
    BY DEF OverlapsLoose, Alike
  <2>1. thread'[v].code \in Code /\ thread'[u].code \in Code
    BY <1>1 DEF Request
  <2>2. Alike(thread'[u].code, thread'[v].code)
    BY <2>1, AlikeBoth
  <2>3. CASE v = t
    BY <1>1, <2>3
  <2>4. CASE u = t
    BY <1>1, <2>2, <2>4
  <2>5. CASE v # t /\ u # t
    BY <1>1, <2>5 DEF JInv, OverlapsLoose
  <2>6. QED  BY <2>3, <2>4, <2>5
<1>5. HoldersAlike'
  <2> SUFFICES ASSUME NEW i \in Item, NEW c \in Code, NEW d \in Code, Holds(c, i)', Holds(d, i)'
               PROVE  Alike(c, d)
    BY DEF HoldersAlike, Alike
  <2>1. \A e \in Code : Holds(e, i)' => Holds(e, i) \/ (r.code = e /\ ItemOf(r.match) = i)
    BY <1>1 DEF Holds
  <2>2. CASE Holds(c, i) /\ Holds(d, i)
    BY <2>2 DEF JInv, HoldersAlike
  <2>3. CASE r.code = c /\ ItemOf(r.match) = i /\ Holds(d, i)
    BY <2>3
  <2>4. CASE r.code = d /\ ItemOf(r.match) = i /\ Holds(c, i)
    <3>1. Alike(d, c)
      BY <2>4
    <3>2. QED  BY <3>1, AlikeBoth
  <2>5. CASE r.code = c /\ r.code = d
    BY <2>5, AlikeSelf
  <2>6. QED  BY <2>1, <2>2, <2>3, <2>4, <2>5
<1>6. OneProduct' /\ AuditInv'
  BY DEF JInv, OneProduct, AuditInv, LastAudit
<1>7. QED  BY <1>3, <1>4, <1>5, <1>6 DEF JInv

\* The overlaps of a thread that keeps its code are known.
LEMMA OverlapsKnown ==
  ASSUME ProductAssumption, IInv, JInv, NEW t \in Thread, thread[t].code # None,
         NEW u \in Thread \ {t}, thread[u].code # None, Alike(thread[t].code, thread[u].code)
  PROVE  thread[t].code \in loose /\ thread[u].code \in loose
<1>1. thread[t].code \in Code /\ thread[u].code \in Code
  BY DEF IInv, Threads, Request
<1>2. Alike(thread[u].code, thread[t].code)
  BY <1>1, AlikeBoth
<1>3. QED  BY <1>2 DEF JInv, OverlapsLoose

LEMMA IdleKnows == ASSUME ProductAssumption PROVE Knows(Idle) /\ Idle.code = None
  BY DEF Knows, Idle, ItemOf

LEMMA EndKnows ==
  ASSUME ProductAssumption, IInv, JInv, NEW t \in Thread, thread' = [thread EXCEPT ![t] = Idle],
         UNCHANGED <<app, barcodes, inventory, audit, loose>>
  PROVE  JInv'
<1>1. None \notin Code
  BY DEF ProductAssumption
<1>2. QED  BY <1>1, IdleKnows, IdleReads, ReadingKnows DEF JInv

LEMMA BeginKnows ==
  ASSUME ProductAssumption, IInv, JInv, NEW t \in Thread, NEW c \in Code \cup {None},
         NEW i \in Item \cup {None}, NEW f \in Form, Begin(t, c, i, f), app' = app
  PROVE  JInv'
<1> DEFINE r == [Idle EXCEPT !.pc = "start", !.code = c, !.item = i, !.form = f]
<1>1. /\ r \in Request /\ r.code = c /\ r.pc = "start" /\ r.row = None /\ ItemOf(r.match) = None
  BY DEF Idle, Request, ItemOf
<1>2. thread' = [thread EXCEPT ![t] = r] /\ UNCHANGED <<barcodes, inventory, audit>>
  BY DEF Begin
<1> HIDE DEF r
<1>3. loose \subseteq loose' /\ loose' \subseteq Code
  BY DEF Begin, JInv
<1>4. ASSUME NEW u \in Thread \ {t}, r.code # None, thread[u].code # None, Alike(r.code, thread[u].code)
      PROVE  r.code \in loose' /\ thread[u].code \in loose'
  <2>1. c \in Code /\ thread[u].code \in Code
    BY <1>1, <1>4 DEF IInv, Threads, Request
  <2>2. loose' = loose \cup {d \in Code : Alike(c, d)}
    BY <1>1, <1>4 DEF Begin
  <2>3. QED  BY <1>1, <1>4, <2>1, <2>2, AlikeSelf
<1>5. Knows(r)
  BY <1>1 DEF Knows, ItemOf
<1>6. None \notin Item
  BY DEF ProductAssumption
<1>7. QED  BY <1>1, <1>2, <1>3, <1>4, <1>5, <1>6, ReadingKnows

LEMMA ReadRowKnows ==
  ASSUME ProductAssumption, IInv, JInv, NEW t \in Thread, ReadRow(t), app' = app
  PROVE  JInv'
<1> DEFINE row == barcodes[thread[t].code]
           c == thread[t].code
           next == CASE row = None -> "match"
                     [] ItemOf(row) # None /\ app = "admin" -> "before"
                     [] OTHER -> "write"
<1>a. PICK p \in {"match", "before", "write"} : p = next /\ (row = None => p = "match")
  <2>1. CASE row = None
    <3>1. next = "match"
      BY <2>1, Zenon DEF ItemOf
    <3>2. QED  BY <3>1
  <2>2. CASE row # None /\ ItemOf(row) # None /\ app = "admin"
    <3>1. next = "before"
      BY <2>2
    <3>2. QED  BY <2>2, <3>1
  <2>3. CASE row # None /\ ~ (ItemOf(row) # None /\ app = "admin")
    <3>1. next = "write"
      BY <2>3
    <3>2. QED  BY <2>3, <3>1
  <2>4. QED  BY <2>1, <2>2, <2>3
<1>1. PICK r : r = [thread[t] EXCEPT !.row = row, !.match = row, !.pc = p]
  OBVIOUS
<1>2. thread[t] \in Request /\ c \in Code /\ c # None /\ thread \in [Thread -> Request]
  BY RequestFields DEF ReadRow, Request, IInv, Threads
<1>3. row \in BarcodeRow \cup {None}
  BY <1>2 DEF IInv, Tables
<1>5. /\ thread' = [thread EXCEPT ![t] = r]
      /\ UNCHANGED <<barcodes, inventory, audit, loose>>
  BY <1>a, <1>1, <1>2 DEF ReadRow, Request
<1> HIDE DEF row, next
<1>4. /\ r \in Request /\ r.code = c /\ r.row = row /\ r.match = row
      /\ r.pc \in {"match", "before", "write"} /\ (row = None => r.pc = "match")
  BY <1>a, <1>1, <1>2, <1>3 DEF Request
<1>6. Knows(r)
  BY <1>2, <1>4 DEF Knows, row
<1>7. \A e \in Code, i \in Item : r.code = e /\ ItemOf(r.match) = i =>
         \A d \in Code : Holds(d, i) => Alike(e, d)
  BY <1>2, <1>4 DEF row, Holds, JInv, HoldersAlike
<1>8. \A u \in Thread \ {t} :
        r.code # None /\ thread[u].code # None /\ Alike(r.code, thread[u].code) =>
           r.code \in loose' /\ thread[u].code \in loose'
  BY <1>2, <1>4, <1>5, OverlapsKnown
<1>9. loose \subseteq loose' /\ loose' \subseteq Code
  BY <1>5 DEF JInv
<1>10. QED  BY <1>4, <1>5, <1>6, <1>7, <1>8, <1>9, ReadingKnows

\* A match is that of a candidate, and what is alike to the candidate is alike
\* to the code.
LEMMA MatchKnows ==
  ASSUME ProductAssumption, IInv, JInv, NEW t \in Thread, Match(t), app' = app
  PROVE  JInv'
<1> DEFINE row == FindBarcodeRow(thread[t].code)
           c == thread[t].code
           next == IF ItemOf(row) # None /\ app = "admin" THEN "before" ELSE "write"
<1>a. PICK p \in {"before", "write"} : p = next
  OBVIOUS
<1>1. PICK r : r = [thread[t] EXCEPT !.match = row, !.pc = p]
  OBVIOUS
<1>2. /\ thread[t] \in Request /\ thread \in [Thread -> Request]
      /\ thread[t].row = None /\ c \in Code /\ c # None
  BY RequestFields DEF Match, Reads, Request, IInv, Threads
<1>3. /\ row # None => \E d \in ToSet(Candidates[c]) : row = barcodes[d]
      /\ barcodes[c] # None => row = barcodes[c]
      /\ \A d \in ToSet(Candidates[c]) : barcodes[d] # None => row # None
  BY <1>2, FoundIsCandidate
<1>7. /\ thread' = [thread EXCEPT ![t] = r]
      /\ UNCHANGED <<barcodes, inventory, audit, loose>>
  BY <1>a, <1>1, <1>2 DEF Match, Request
<1> HIDE DEF row, next
<1>4. ToSet(Candidates[c]) \subseteq Code
  BY <1>2 DEF ProductAssumption, ToSet
<1>5. row \in BarcodeRow \cup {None}
  BY <1>3, <1>4 DEF IInv, Tables
<1>6. /\ r \in Request /\ r.code = c /\ r.row = None /\ r.match = row
      /\ r.pc \in {"before", "write"}
  BY <1>a, <1>1, <1>2, <1>5 DEF Request
<1>8. Knows(r)
  <2> SUFFICES ASSUME NEW d \in Code, Twins(d, c), barcodes[c] = None, Sold(d)
               PROVE  ItemOf(row) = ItemOf(barcodes[d])
    BY <1>6 DEF Knows, ItemOf
  <2>1. ToSet(Candidates[c]) = {c, d} /\ barcodes[d] # None
    BY <1>2, TwinsAlike DEF Sold, ItemOf
  <2>2. QED  BY <1>3, <2>1
<1>9. ASSUME NEW e0 \in Code, NEW i \in Item, r.code = e0 /\ ItemOf(r.match) = i,
             NEW d \in Code, Holds(d, i)
      PROVE  Alike(e0, d)
  <2>1. row # None
    BY <1>6, <1>9 DEF ItemOf, ProductAssumption
  <2>2. PICK e \in ToSet(Candidates[c]) : row = barcodes[e]
    BY <1>3, <2>1
  <2>3. Holds(e, i) /\ e \in Code
    BY <1>4, <1>6, <1>9, <2>2 DEF Holds
  <2>4. Alike(e, d)
    BY <1>9, <2>3 DEF JInv, HoldersAlike
  <2>5. QED  BY <1>2, <1>6, <1>9, <2>4, AlikeFurther
<1>10. \A u \in Thread \ {t} :
        r.code # None /\ thread[u].code # None /\ Alike(r.code, thread[u].code) =>
           r.code \in loose' /\ thread[u].code \in loose'
  BY <1>2, <1>6, <1>7, OverlapsKnown
<1>11. loose \subseteq loose' /\ loose' \subseteq Code
  BY <1>7 DEF JInv
<1>12. QED  BY <1>6, <1>7, <1>8, <1>9, <1>10, <1>11, ReadingKnows

LEMMA ReadBeforeKnows ==
  ASSUME ProductAssumption, IInv, JInv, NEW t \in Thread, ReadBefore(t) \/ ReadExisting(t), app' = app
  PROVE  JInv'
<1>1. /\ thread[t] \in Request /\ Reads(thread[t]) /\ Knows(thread[t]) /\ thread \in [Thread -> Request]
      /\ UNCHANGED <<barcodes, inventory, audit, loose>>
  BY RequestFields DEF IInv, Threads, JInv, ReadBefore, ReadExisting
<1>2. PICK b \in ProductRow \cup {None} :
        thread' = [thread EXCEPT ![t] = [thread[t] EXCEPT !.before = b, !.pc = "write"]]
  <2>1. \A i \in Item : inventory[i] \in ProductRow \cup {None}
    BY DEF IInv, Tables
  <2>2. CASE ReadBefore(t)
    <3>1. ItemOf(thread[t].match) \in Item
      BY <1>1, <2>2 DEF ReadBefore, Reads, Request, BarcodeRow, ItemOf
    <3>2. thread' = [thread EXCEPT ![t] = [thread[t] EXCEPT !.before = inventory[ItemOf(thread[t].match)], !.pc = "write"]]
      BY <1>1, <2>2 DEF ReadBefore, Request
    <3>3. QED  BY <2>1, <3>1, <3>2
  <2>3. CASE ReadExisting(t)
    <3> DEFINE b == IF thread[t].item = None THEN None ELSE inventory[thread[t].item]
    <3>1. b \in ProductRow \cup {None}
      BY <1>1, <2>1 DEF Request
    <3>2. thread' = [thread EXCEPT ![t] = [thread[t] EXCEPT !.before = b, !.pc = "write"]]
      BY <1>1, <2>3 DEF ReadExisting, Request
    <3> HIDE DEF b
    <3>3. QED  BY <3>1, <3>2
  <2>4. QED  BY <2>2, <2>3
<1>3. PICK r : r = [thread[t] EXCEPT !.before = b, !.pc = "write"]
  OBVIOUS
<1>4. /\ r \in Request /\ r.pc = "write" /\ r.code = thread[t].code /\ r.row = thread[t].row
      /\ r.match = thread[t].match /\ r.form = thread[t].form
  BY <1>1, <1>3 DEF Request
<1>5. thread[t].pc = "before" \/ (thread[t].pc = "start" /\ thread[t].code = None)
  BY DEF ReadBefore, ReadExisting
<1>6. Knows(r)
  BY <1>1, <1>4, <1>5 DEF Knows
<1>7. \A c \in Code, i \in Item : r.code = c /\ ItemOf(r.match) = i =>
         \A d \in Code : Holds(d, i) => Alike(c, d)
  BY <1>4 DEF JInv, HoldersAlike, Holds
<1>8. \A u \in Thread \ {t} :
        r.code # None /\ thread[u].code # None /\ Alike(r.code, thread[u].code) =>
           r.code \in loose' /\ thread[u].code \in loose'
  BY <1>1, <1>4, OverlapsKnown
<1>9. loose \subseteq loose' /\ loose' \subseteq Code
  BY <1>1 DEF JInv
<1>10. thread' = [thread EXCEPT ![t] = r]
  BY <1>2, <1>3
<1>11. QED  BY <1>1, <1>4, <1>6, <1>7, <1>8, <1>9, <1>10, ReadingKnows

-----------------------------------------------------------------------------
(* Writing to the tables *)

\* An entry is added to the audit log, of product i.
LEMMA EntryAdded ==
  ASSUME audit \in Seq(Entry), NEW e \in Entry, audit' = Append(audit, e)
  PROVE  /\ audit' \in Seq(Entry) /\ Len(audit) \in Nat /\ DOMAIN audit = 1..Len(audit)
         /\ DOMAIN audit' = 1..(Len(audit) + 1)
         /\ \A k \in 1..Len(audit) : audit'[k] = audit[k] /\ audit[k] \in Entry /\ audit[k].item \in Item
         /\ audit'[Len(audit) + 1] = e
<1>1. /\ audit' \in Seq(Entry) /\ Len(audit) \in Nat /\ DOMAIN audit = 1..Len(audit)
      /\ DOMAIN audit' = 1..(Len(audit) + 1)
      /\ \A k \in 1..Len(audit) : audit'[k] = audit[k] /\ audit[k] \in Entry
      /\ audit'[Len(audit) + 1] = e
  OBVIOUS
<1>2. \A x \in Entry : x.item \in Item
  BY DEF Entry
<1>3. QED  BY <1>1, <1>2

\* A product that an invoice priced stays so until its next entry; the entry of
\* an invoice makes it one.
LEMMA RepricedStays ==
  ASSUME audit \in Seq(Entry), NEW e \in Entry, audit' \in {audit, Append(audit, e)}
  PROVE  /\ \A j \in Repriced : j # e.item => j \in Repriced'
         /\ audit' = audit => Repriced' = Repriced
         /\ audit' # audit /\ e.by = "invoice" => e.item \in Repriced'
<1>1. CASE audit' = audit
  BY <1>1 DEF Repriced, LastAudit
<1>2. CASE audit' = Append(audit, e)
  <2>1. /\ Len(audit) \in Nat /\ DOMAIN audit = 1..Len(audit) /\ DOMAIN audit' = 1..(Len(audit) + 1)
        /\ \A k \in 1..Len(audit) : audit'[k] = audit[k]
        /\ audit'[Len(audit) + 1] = e
    BY <1>2, EntryAdded
  <2>2. ASSUME NEW j \in Repriced, j # e.item  PROVE j \in Repriced'
    <3>1. PICK k \in 1..Len(audit) : audit[k].item = j /\ audit[k].by = "invoice" /\ LastAudit(k)
      BY <2>1 DEF Repriced
    <3>2. k \in DOMAIN audit' /\ audit'[k] = audit[k]
      BY <2>1
    <3>3. \A n \in DOMAIN audit' : n > k => audit'[n].item # audit'[k].item
      BY <2>1, <2>2, <3>1, <3>2 DEF LastAudit
    <3>4. QED  BY <3>1, <3>2, <3>3 DEF Repriced, LastAudit
  <2>3. e.by = "invoice" => e.item \in Repriced'
    <3>1. Len(audit) + 1 \in DOMAIN audit' /\ \A n \in DOMAIN audit' : ~ (n > Len(audit) + 1)
      BY <2>1
    <3>2. QED  BY <2>1, <3>1 DEF Repriced, LastAudit
  <2>4. audit' # audit
    BY <2>1
  <2>5. QED  BY <2>2, <2>3, <2>4
<1>3. QED  BY <1>1, <1>2

\* Product i is written and told in the audit log.
LEMMA AuditWritten ==
  ASSUME IInv, JInv, app' = app, NEW e \in Entry,
         \A j \in Item : j # e.item => inventory'[j] = inventory[j],
         inventory'[e.item] # None, inventory'[e.item].pack = e.after,
         audit' = IF app = "admin" THEN Append(audit, e) ELSE audit
  PROVE  AuditInv'
<1>1. audit \in Seq(Entry) /\ AuditInv
  BY DEF JInv, AuditInv
<1>2. CASE app = "admin"
  <2>1. audit' = Append(audit, e)
    BY <1>2
  <2>2. /\ audit' \in Seq(Entry) /\ Len(audit) \in Nat /\ DOMAIN audit = 1..Len(audit)
        /\ DOMAIN audit' = 1..(Len(audit) + 1)
        /\ \A k \in 1..Len(audit) : audit'[k] = audit[k] /\ audit[k].item \in Item
        /\ audit'[Len(audit) + 1] = e
    BY <1>1, <2>1, EntryAdded
  <2>3. ASSUME NEW k \in DOMAIN audit'
        PROVE  /\ inventory'[audit'[k].item] # None
               /\ (\A n \in DOMAIN audit' : n > k => audit'[n].item # audit'[k].item)
                     => inventory'[audit'[k].item].pack = audit'[k].after
    <3>1. CASE k = Len(audit) + 1
      BY <2>2, <3>1
    <3>2. CASE k \in 1..Len(audit) /\ audit[k].item = e.item
      <4>1. Len(audit) + 1 \in DOMAIN audit' /\ Len(audit) + 1 > k
        BY <2>2, <3>2
      <4>2. QED  BY <2>2, <3>2, <4>1
    <3>3. CASE k \in 1..Len(audit) /\ audit[k].item # e.item
      <4>1. audit'[k] = audit[k] /\ inventory'[audit[k].item] = inventory[audit[k].item]
        BY <2>2, <3>3
      <4>2. /\ inventory[audit[k].item] # None
            /\ (\A n \in DOMAIN audit : n > k => audit[n].item # audit[k].item)
                     => inventory[audit[k].item].pack = audit[k].after
        BY <1>1, <1>2, <2>2, <3>3 DEF AuditInv, LastAudit
      <4>3. (\A n \in DOMAIN audit' : n > k => audit'[n].item # audit[k].item)
              => (\A n \in DOMAIN audit : n > k => audit[n].item # audit[k].item)
        BY <2>2
      <4>4. QED  BY <4>1, <4>2, <4>3
    <3>4. QED  BY <2>2, <3>1, <3>2, <3>3
  <2>4. QED  BY <2>2, <2>3 DEF AuditInv, LastAudit
<1>3. CASE app # "admin"
  BY <1>1, <1>3 DEF AuditInv
<1>4. QED  BY <1>2, <1>3

\* Products are written, but not what their forms said.
LEMMA AuditStays ==
  ASSUME JInv, app' = app, audit' = audit,
         \A j \in Item : inventory[j] # None => inventory'[j] # None /\ inventory'[j].pack = inventory[j].pack
  PROVE  AuditInv' /\ Repriced' = Repriced
<1>1. audit \in Seq(Entry) /\ AuditInv
  BY DEF JInv, AuditInv
<1>2. \A k \in DOMAIN audit : audit[k].item \in Item
  <2>1. \A e \in Entry : e.item \in Item
    BY DEF Entry
  <2>2. QED  BY <1>1, <2>1
<1>3. AuditInv'
  BY <1>1, <1>2 DEF AuditInv, LastAudit
<1>4. QED  BY <1>3 DEF Repriced, LastAudit

\* Code c is written, with product i: what is known of codes that are not alike
\* to it stays so, and those that are and of which something is known are loose.
LEMMA CodeWritten ==
  ASSUME ProductAssumption, IInv, loose \subseteq loose', NEW c \in Code, NEW i,
         \A d \in Code : d # c => barcodes'[d] = barcodes[d],
         ItemOf(barcodes[c]) # None => ItemOf(barcodes'[c]) # None,
         \A j \in Item : j # i => inventory'[j] = inventory[j] /\ (j \in Repriced => j \in Repriced'),
         \A d \in Code : ItemOf(barcodes[d]) = i => Alike(c, d)
  PROVE  \A r \in Request :
            Knows(r) /\ (r.code # None /\ Alike(c, r.code) => r.code \in loose') => Knows(r)'
<1> SUFFICES ASSUME NEW r \in Request, Knows(r), r.code # None /\ Alike(c, r.code) => r.code \in loose'
             PROVE  Knows(r)'
  OBVIOUS
<1>1. r.code \in Code \/ r.code = None
  BY DEF Request
<1>2. CASE r.code = None
  BY <1>2 DEF Knows
<1>3. CASE r.code \in loose' /\ r.code \in Code
  <2>1. ItemOf(barcodes[r.code]) # None => ItemOf(barcodes'[r.code]) # None
    BY <1>3
  <2>2. QED  BY <1>3, <2>1 DEF Knows
<1>4. CASE r.code \in Code /\ ~ Alike(c, r.code)
  <2>1. r.code # c /\ barcodes'[r.code] = barcodes[r.code]
    BY <1>4, AlikeSelf
  <2>2. ItemOf(barcodes[r.code]) # i
    BY <1>4
  <2>3. ItemOf(barcodes[r.code]) # None => ItemOf(barcodes[r.code]) \in Item
    BY <1>4 DEF ItemOf, IInv, Tables, BarcodeRow
  <2>4. ItemOf(barcodes[r.code]) # None =>
          /\ inventory'[ItemOf(barcodes[r.code])] = inventory[ItemOf(barcodes[r.code])]
          /\ ItemOf(barcodes[r.code]) \in Repriced => ItemOf(barcodes[r.code]) \in Repriced'
    BY <2>2, <2>3
  <2>5. \A d \in Code : Twins(d, r.code) => d # c /\ barcodes'[d] = barcodes[d]
    BY <1>4, TwinsAlike
  <2>6. QED  BY <2>1, <2>4, <2>5 DEF Knows, Sold
<1>5. QED  BY <1>1, <1>2, <1>3, <1>4 DEF ProductAssumption

LEMMA WrittenKeeps ==
  ASSUME ProductAssumption, IInv, JInv, loose \subseteq loose', loose' \subseteq Code,
         NEW c \in Code, NEW i,
         \A d \in Code : d # c => barcodes'[d] = barcodes[d],
         ItemOf(barcodes'[c]) \in {ItemOf(barcodes[c]), i},
         \A d \in Code : Holds(d, i) => Alike(c, d),
         \A d \in Code : Twins(d, c) /\ {c, d} \cap loose' = {} /\ Sold(d) /\ Sold(c)' =>
                            ItemOf(barcodes'[c]) = ItemOf(barcodes[d]),
         \A u \in Thread : thread'[u].code = thread[u].code /\ thread'[u].match = thread[u].match,
         (\A u \in Thread : Knows(thread[u]))', AuditInv'
  PROVE  JInv'
<1>1. OverlapsLoose'
  BY DEF OverlapsLoose, JInv, Alike
<1>2. HoldersAlike'
  <2> SUFFICES ASSUME NEW k \in Item, NEW d \in Code, NEW e \in Code, Holds(d, k)', Holds(e, k)'
               PROVE  Alike(d, e)
    BY DEF HoldersAlike, Alike
  <2>1. \A x \in Code : Holds(x, k)' => Holds(x, k) \/ (x = c /\ k = i)
    BY DEF Holds
  <2>2. CASE Holds(d, k) /\ Holds(e, k)
    BY <2>2 DEF JInv, HoldersAlike
  <2>3. CASE d = c /\ k = i /\ Holds(e, k)
    BY <2>3
  <2>4. CASE e = c /\ k = i /\ Holds(d, k)
    BY <2>4, AlikeBoth
  <2>5. CASE d = c /\ e = c
    BY <2>5, AlikeSelf
  <2>6. QED  BY <2>1, <2>2, <2>3, <2>4, <2>5
<1>3. OneProduct'
  <2> SUFFICES ASSUME NEW d \in Code, NEW e \in Code,
                      d \in ToSet(Candidates[e]), e \in ToSet(Candidates[d]),
                      {d, e} \cap loose' = {},
                      ItemOf(barcodes'[d]) # None, ~ barcodes'[d].card,
                      ItemOf(barcodes'[e]) # None, ~ barcodes'[e].card
               PROVE  barcodes'[d].item = barcodes'[e].item
    BY DEF OneProduct
  <2>1. CASE d # c /\ e # c
    BY <2>1 DEF JInv, OneProduct
  <2>2. CASE d = e
    BY <2>2
  <2>3. CASE d = c /\ e # c
    <3>1. Twins(e, c) /\ Sold(e) /\ Sold(c)' /\ barcodes'[e] = barcodes[e] /\ {c, e} \cap loose' = {}
      BY <2>3 DEF Twins, Sold
    <3>2. ItemOf(barcodes'[c]) = ItemOf(barcodes[e])
      BY <3>1
    <3>3. QED  BY <2>3, <3>1, <3>2 DEF ItemOf
  <2>4. CASE e = c /\ d # c
    <3>1. Twins(d, c) /\ Sold(d) /\ Sold(c)' /\ barcodes'[d] = barcodes[d] /\ {c, d} \cap loose' = {}
      BY <2>4 DEF Twins, Sold
    <3>2. ItemOf(barcodes'[c]) = ItemOf(barcodes[d])
      BY <3>1
    <3>3. QED  BY <2>4, <3>1, <3>2 DEF ItemOf
  <2>5. QED  BY <2>1, <2>2, <2>3, <2>4
<1>4. QED  BY <1>1, <1>2, <1>3 DEF JInv

\* The transaction of save_product: its product is that of the row it read, or
\* that of the spelling it matched, or new.
LEMMA WriteKnows ==
  ASSUME ProductAssumption, IInv, JInv, NEW t \in Thread, Write(t), app' = app
  PROVE  JInv'
<1>a. thread[t] \in Request /\ Reads(thread[t]) /\ thread[t].code # None /\ thread[t].pc = "write"
  BY RequestFields DEF Write
<1>b. PICK c \in Code : c = thread[t].code
  BY <1>a DEF Request
<1>c. PICK f \in Form : f = thread[t].form
  BY <1>a DEF Request, Reads
<1> DEFINE found == ItemOf(thread[t].match)
           row == IF thread[t].row = None THEN None ELSE barcodes[c]
           made(i) == IF found # None THEN inventory[i].made ELSE c
<1>1. /\ Knows(thread[t]) /\ thread \in [Thread -> Request] /\ c # None /\ loose' = loose
      /\ Tables /\ barcodes \in [Code -> BarcodeRow \cup {None}]
      /\ inventory \in [Item -> ProductRow \cup {None}] /\ loose \subseteq Code
  BY <1>a, <1>b DEF Write, IInv, Threads, Tables, JInv
<1>2. (found # None => found \in Item /\ inventory[found] # None)
  BY <1>a DEF Request, Reads, ItemOf, BarcodeRow
<1>3. CASE RollBack(t)
  BY <1>a, <1>b, <1>c, <1>1, <1>3, EndKnows DEF RollBack
<1>4. CASE ~ RollBack(t)
  <2>1. PICK i \in (IF found # None THEN {found} ELSE Fresh) :
          /\ inventory' = [inventory EXCEPT ![i] = Saved(made(i), f)]
          /\ barcodes' = IF found # None /\ row # None THEN barcodes
                         ELSE [barcodes EXCEPT ![c] = Attached(row, i)]
          /\ Audit(i, t)
    BY <1>4, <1>b, <1>c DEF Write
  <2>2. ~ Clash(t) /\ thread' = [thread EXCEPT ![t].pc = "readback"]
    BY <1>4 DEF Write
  <2>3. row = barcodes[c]
    BY <1>a, <1>b, <1>c, <1>1, <2>2 DEF Clash
  <2>4. i \in Item /\ (found # None => i = found) /\ (found = None => inventory[i] = None)
    BY <1>2, <2>1 DEF Fresh
  <2>5. /\ \A j \in Item : j # i => inventory'[j] = inventory[j]
        /\ inventory'[i] = Saved(made(i), f) /\ inventory'[i] # None /\ inventory'[i].pack = f
    <3>1. inventory'[i] = Saved(made(i), f) /\ \A j \in Item : j # i => inventory'[j] = inventory[j]
      BY <1>a, <1>b, <1>c, <1>1, <2>1, <2>4
    <3>2. made(i) \in Code \cup {None}
      BY <1>a, <1>b, <1>c, <1>1, <1>2, <2>4 DEF Tables, ProductRow
    <3>3. Saved(made(i), f) # None /\ Saved(made(i), f).pack = f
      BY <1>2, <3>2, SavedType DEF ProductAssumption, Saved
    <3>4. QED  BY <3>1, <3>3
  <2>6. Attached(row, i).item = i /\ Attached(row, i) # None /\ ItemOf(Attached(row, i)) = i
        /\ (row # None /\ row.card => Attached(row, i).card)
    <3> DEFINE k == row # None /\ row.card
    <3>1. k \in BOOLEAN /\ (row # None /\ row.card => k = TRUE) /\ Attached(row, i) = [item |-> i, card |-> k]
      BY DEF Attached
    <3> HIDE DEF k
    <3>2. Attached(row, i) \in BarcodeRow /\ Attached(row, i).item = i
      BY <2>4, <3>1 DEF BarcodeRow
    <3>3. Attached(row, i) # None
      BY <3>2 DEF ProductAssumption
    <3>4. row # None /\ row.card => Attached(row, i).card
      BY <3>1
    <3>5. QED  BY <3>2, <3>3, <3>4 DEF ItemOf
  <2> HIDE DEF made, row
  <2>7. /\ \A d \in Code : d # c => barcodes'[d] = barcodes[d]
        /\ \/ barcodes'[c] = barcodes[c] /\ found # None /\ row # None
           \/ barcodes'[c] = Attached(row, i) /\ ~ (found # None /\ row # None)
    BY <1>a, <1>b, <1>c, <1>1, <1>2, <2>1
  <2>8. i # None
    BY <2>4 DEF ProductAssumption
  <2>9. ItemOf(barcodes'[c]) \in {ItemOf(barcodes[c]), i}
        /\ (ItemOf(barcodes[c]) # None => ItemOf(barcodes'[c]) # None)
    BY <2>6, <2>7, <2>8
  <2>10. \A d \in Code : Holds(d, i) => Alike(c, d)
    <3>1. CASE found # None
      <4>1. Holds(c, i)
        BY <1>b, <2>4, <3>1 DEF Holds
      <4>2. QED  BY <1>2, <2>4, <4>1 DEF JInv, HoldersAlike
    <3>2. CASE found = None
      <4>1. \A d \in Code : ItemOf(barcodes[d]) # i
        BY <1>a, <1>b, <1>c, <1>1, <2>4, <2>8, <3>2 DEF Tables, ItemOf
      <4>2. \A u \in Thread : ItemOf(thread[u].match) # i
        BY <2>4, <2>8, <3>2, RequestFields DEF Reads
      <4>3. QED  BY <4>1, <4>2 DEF Holds
    <3>3. QED  BY <3>1, <3>2
  <2>11. \A u \in Thread : /\ thread'[u] \in Request
                           /\ thread'[u].code = thread[u].code /\ thread'[u].match = thread[u].match
                           /\ u # t => thread'[u] = thread[u]
    BY <1>a, <1>b, <1>c, <1>1, <2>2 DEF Request
  <2>12. /\ thread'[t].code = c /\ thread'[t].row = thread[t].row /\ thread'[t].match = thread[t].match
         /\ thread'[t].pc = "readback" /\ thread'[t].form = f
    BY <1>a, <1>b, <1>c, <1>1, <2>2 DEF Request
  <2>13. thread[t].row # None /\ found = None => barcodes[c].card
    BY <1>a, <1>b, <1>c, <1>1 DEF Reads, ItemOf
  <2>14. found # None /\ row # None => ItemOf(thread[t].row) = i /\ thread[t].row # None
    BY <1>a, <1>b, <1>c, <1>1, <2>4 DEF Reads, row
  <2>14a. PICK v \in Request : v = thread'[t]
    BY <2>11
  <2>15. Knows(v)'
    <3>1. CASE barcodes'[c] = barcodes[c] /\ found # None /\ row # None
      <4>1. ItemOf(barcodes[c]) # None /\ (c \in loose \/ ItemOf(barcodes[c]) = i)
        BY <1>a, <1>b, <1>c, <1>1, <2>8, <2>14, <3>1 DEF Knows
      <4>2. ItemOf(barcodes'[c]) # None /\ (c \in loose' \/ ItemOf(barcodes'[c]) = i)
        BY <1>a, <1>b, <1>c, <1>1, <3>1, <4>1
      <4>3. ItemOf(thread[t].row) = i
        BY <2>14, <3>1
      <4>4. /\ v.code = c /\ v.pc = "readback" /\ v.form = f /\ ItemOf(v.row) = i
        BY <1>b, <1>c, <2>12, <2>14a, <4>3
      <4>5. inventory'[i].pack = v.form
        BY <2>5, <4>4
      <4>6. /\ ItemOf(barcodes'[v.code]) # None
            /\ v.code \in loose' \/ ItemOf(barcodes'[v.code]) = i
        BY <4>2, <4>4
      <4>7. QED  BY <1>a, <1>b, <1>c, <1>1, <4>4, <4>5, <4>6 DEF Knows
    <3>2. CASE barcodes'[c] = Attached(row, i) /\ ~ (found # None /\ row # None)
      <4>1. ItemOf(barcodes'[c]) = i
        BY <2>6, <3>2
      <4>2. ItemOf(thread[t].row) = None
        <5>1. CASE thread[t].row = None
          BY <5>1 DEF ItemOf
        <5>2. CASE thread[t].row # None
          <6>1. row # None
            BY <1>a, <1>b, <1>c, <1>1, <2>3, <5>2 DEF Reads
          <6>2. QED  BY <1>a, <1>b, <1>c, <1>1, <3>2, <5>2, <6>1 DEF Reads
        <5>3. QED  BY <5>1, <5>2
      <4>3. /\ v.code = c /\ v.pc = "readback" /\ v.form = f /\ ItemOf(v.row) = None
        BY <1>b, <1>c, <2>12, <2>14a, <4>2
      <4>4. inventory'[i].pack = v.form
        BY <2>5, <4>3
      <4>5. ItemOf(barcodes'[v.code]) = i
        BY <4>1, <4>3
      <4>6. QED  BY <1>a, <1>b, <1>c, <1>1, <2>8, <4>3, <4>4, <4>5 DEF Knows
    <3>3. QED  BY <2>7, <3>1, <3>2
  <2>15a. PICK b \in ProductRow \cup {None} : b = thread[t].before
    BY <1>a, <1>b, <1>c, <1>1 DEF Request
  <2>15b. PICK e \in Entry : e = [item |-> i, before |-> b, after |-> f, by |-> "save"]
    BY <2>4 DEF Entry
  <2>15c. e.item = i /\ e.after = f /\ audit' = IF app = "admin" THEN Append(audit, e) ELSE audit
    BY <1>c, <2>1, <2>15a, <2>15b DEF Audit
  <2>15d. \A j \in Item : j # i => (j \in Repriced => j \in Repriced')
    BY <2>15c, RepricedStays DEF JInv, AuditInv
  <2>16. (\A u \in Thread : Knows(thread[u]))'
    <3>1. \A d \in Code : ItemOf(barcodes[d]) = i => Alike(c, d)
      BY <2>10 DEF Holds
    <3>2. \A r \in Request :
             Knows(r) /\ (r.code # None /\ Alike(c, r.code) => r.code \in loose') => Knows(r)'
      BY <1>a, <1>b, <1>c, <1>1, <1>2, <2>5, <2>7, <2>9, <2>15d, <3>1, CodeWritten
    <3>3. ASSUME NEW u \in Thread, u # t, NEW w, w = thread'[u]  PROVE Knows(w)'
      <4>1. w \in Request /\ w = thread[u] /\ Knows(w)
        BY <2>11, <3>3 DEF JInv
      <4>2. w.code # None /\ Alike(c, w.code) => w.code \in loose'
        BY <1>a, <1>b, <1>c, <1>1, <3>3, <4>1, OverlapsKnown
      <4>3. QED  BY <3>2, <4>1, <4>2
    <3>4. \A u \in Thread : \A w : w = thread'[u] => Knows(w)'
      BY <2>14a, <2>15, <3>3
    <3>5. QED  BY <3>4 DEF Knows, Sold
  <2>17. ASSUME NEW d \in Code, Twins(d, c), {c, d} \cap loose' = {}, Sold(d), Sold(c)'
         PROVE  ItemOf(barcodes'[c]) = ItemOf(barcodes[d])
    <3>1. CASE barcodes'[c] = barcodes[c]
      <4>1. Sold(c)
        BY <2>17, <3>1 DEF Sold
      <4>2. /\ c \in ToSet(Candidates[d]) /\ d \in ToSet(Candidates[c]) /\ {c, d} \cap loose = {}
            /\ ItemOf(barcodes[c]) # None /\ ~ barcodes[c].card
            /\ ItemOf(barcodes[d]) # None /\ ~ barcodes[d].card
        BY <1>1, <2>17, <4>1 DEF Twins, Sold
      <4>3. barcodes[c].item = barcodes[d].item
        BY <4>2 DEF JInv, OneProduct
      <4>4. QED  BY <3>1, <4>2, <4>3 DEF ItemOf
    <3>2. CASE barcodes'[c] = Attached(row, i) /\ ~ (found # None /\ row # None)
      <4>1. row = None
        <5>1. CASE thread[t].row # None
          <6>1. row # None
            BY <1>a, <1>b, <1>c, <1>1, <2>3, <5>1 DEF Reads
          <6>2. row.card
            BY <1>b, <2>3, <2>13, <3>2, <5>1, <6>1
          <6>3. QED  BY <2>6, <2>17, <3>2, <6>1, <6>2 DEF Sold
        <5>2. CASE thread[t].row = None
          BY <5>2 DEF row
        <5>3. QED  BY <5>1, <5>2
      <4>2. thread[t].row = None /\ barcodes[c] = None
        BY <1>a, <1>b, <1>c, <1>1, <2>3, <4>1 DEF Reads
      <4>3. found = ItemOf(barcodes[d])
        BY <1>a, <1>b, <1>c, <1>1, <1>2, <2>17, <4>2 DEF Knows
      <4>4. found # None
        BY <2>17, <4>3 DEF Sold
      <4>5. QED  BY <2>4, <2>6, <3>2, <4>3, <4>4
    <3>3. QED  BY <2>7, <3>1, <3>2
  <2>18. AuditInv'
    BY <2>4, <2>5, <2>15c, AuditWritten
  <2> HIDE DEF found
  <2>19. loose \subseteq loose' /\ loose' \subseteq Code
    BY <1>1
  <2>20. QED
    BY <2>7, <2>9, <2>10, <2>11, <2>16, <2>17, <2>18, <2>19, WrittenKeeps
<1>5. QED  BY <1>3, <1>4

LEMMA CreateInfoKnows ==
  ASSUME ProductAssumption, IInv, JInv, NEW c \in Code, CreateInfo(c), app' = app
  PROVE  JInv'
<1>1. PICK i \in Fresh :
        /\ inventory' = [inventory EXCEPT ![i] = [made |-> c, pack |-> None, cents |-> SetPrice, whole |-> None]]
        /\ barcodes' = [barcodes EXCEPT ![c] = [item |-> i, card |-> FALSE]]
  BY DEF CreateInfo
<1>2. /\ i \in Item /\ inventory[i] = None /\ barcodes[c] = None /\ Tables
      /\ thread' = thread /\ audit' = audit /\ loose' = loose \cup {d \in Code : Alike(c, d)}
      /\ barcodes \in [Code -> BarcodeRow \cup {None}] /\ inventory \in [Item -> ProductRow \cup {None}]
  BY DEF Fresh, CreateInfo, IInv, Tables
<1>3. i # None
  BY <1>2 DEF ProductAssumption
<1>4. /\ \A d \in Code : d # c => barcodes'[d] = barcodes[d]
      /\ barcodes'[c].item = i /\ ItemOf(barcodes'[c]) = i
      /\ \A j \in Item : j # i => inventory'[j] = inventory[j]
  <2>1. barcodes'[c] = [item |-> i, card |-> FALSE]
    BY <1>1, <1>2
  <2>2. barcodes'[c] \in BarcodeRow
    BY <1>2, <2>1 DEF BarcodeRow
  <2>3. barcodes'[c] # None
    BY <2>2 DEF ProductAssumption
  <2>4. QED  BY <1>1, <1>2, <2>1, <2>3 DEF ItemOf
<1>5. \A d \in Code : ~ Holds(d, i)
  <2>1. \A d \in Code : ItemOf(barcodes[d]) # i
    BY <1>2, <1>3 DEF Tables, ItemOf
  <2>2. \A u \in Thread : ItemOf(thread[u].match) # i
    BY <1>2, <1>3, RequestFields DEF Reads
  <2>3. QED  BY <2>1, <2>2 DEF Holds
<1>6. loose \subseteq loose' /\ loose' \subseteq Code /\ c \in loose'
      /\ \A d \in Code : Alike(c, d) => d \in loose'
  BY <1>2, AlikeSelf DEF JInv
<1>8. AuditInv' /\ Repriced' = Repriced
  <2>1. \A j \in Item : inventory[j] # None => inventory'[j] # None /\ inventory'[j].pack = inventory[j].pack
    BY <1>2, <1>4
  <2>2. QED  BY <1>2, <2>1, AuditStays
<1>7. (\A u \in Thread : Knows(thread[u]))'
  <2>1. ItemOf(barcodes[c]) # None => ItemOf(barcodes'[c]) # None
    BY <1>3, <1>4
  <2>2. \A d \in Code : ItemOf(barcodes[d]) = i => Alike(c, d)
    BY <1>5 DEF Holds
  <2>3. \A r \in Request :
           Knows(r) /\ (r.code # None /\ Alike(c, r.code) => r.code \in loose') => Knows(r)'
    BY <1>4, <1>6, <1>8, <2>1, <2>2, CodeWritten
  <2>4. ASSUME NEW u \in Thread, NEW w, w = thread'[u]  PROVE Knows(w)'
    <3>1. w = thread[u] /\ w \in Request /\ Knows(w)
      BY <1>2, <2>4 DEF JInv, IInv, Threads
    <3>2. w.code # None => w.code \in Code
      BY <3>1 DEF Request
    <3>3. QED  BY <1>6, <2>3, <3>1, <3>2
  <2>5. QED  BY <2>4 DEF Knows, Sold
<1>9. \A d \in Code : Holds(d, i) => Alike(c, d)
  BY <1>5
<1>10. \A u \in Thread : thread'[u].code = thread[u].code /\ thread'[u].match = thread[u].match
  BY <1>2
<1>11. \A d \in Code : Twins(d, c) /\ {c, d} \cap loose' = {} /\ Sold(d) /\ Sold(c)' =>
                            ItemOf(barcodes'[c]) = ItemOf(barcodes[d])
  BY <1>6
<1>12. ItemOf(barcodes'[c]) \in {ItemOf(barcodes[c]), i}
  BY <1>4
<1>13. QED  BY <1>4, <1>6, <1>7, <1>8, <1>9, <1>10, <1>11, <1>12, WrittenKeeps

\* A card's row was nobody's before, and leads to no product.
LEMMA AddUserCardKnows ==
  ASSUME ProductAssumption, IInv, JInv, NEW c \in Code, AddUserCard(c), app' = app
  PROVE  JInv'
<1>1. /\ barcodes[c] = None /\ barcodes \in [Code -> BarcodeRow \cup {None}]
      /\ barcodes' = [barcodes EXCEPT ![c] = [item |-> None, card |-> TRUE]]
      /\ UNCHANGED <<inventory, audit, thread, saves, loose>>
  BY DEF AddUserCard, IInv, Tables
<1>2. /\ \A d \in Code : d # c => barcodes'[d] = barcodes[d]
      /\ barcodes'[c] # None /\ barcodes'[c].card
      /\ \A d \in Code : ItemOf(barcodes'[d]) = ItemOf(barcodes[d])
  <2>1. [item |-> None, card |-> TRUE] \in BarcodeRow
    BY DEF BarcodeRow
  <2>2. QED  BY <1>1, <2>1 DEF ItemOf, ProductAssumption
<1>3. \A d \in Code : Sold(d)' => Sold(d) /\ barcodes'[d] = barcodes[d]
  BY <1>2 DEF Sold
<1>8. AuditInv' /\ Repriced' = Repriced
  BY <1>1, AuditStays
<1>4. ASSUME NEW r \in Request, Knows(r)  PROVE Knows(r)'
  <2>1. r.code \in Code \/ r.code = None
    BY DEF Request
  <2>2. r.code \in Code => ItemOf(barcodes'[r.code]) = ItemOf(barcodes[r.code])
                           /\ (barcodes'[r.code] = None => barcodes[r.code] = None)
    BY <1>1, <1>2
  <2>3. QED  BY <1>1, <1>3, <1>4, <1>8, <2>1, <2>2 DEF Knows
<1>5. (\A u \in Thread : Knows(thread[u]))'
  <2>1. \A u \in Thread : thread'[u] \in Request /\ Knows(thread'[u])
    BY <1>1 DEF JInv, IInv, Threads
  <2>2. QED  BY <1>4, <2>1 DEF Knows, Sold
<1>6. OverlapsLoose' /\ HoldersAlike'
  <2>1. OverlapsLoose'
    BY <1>1 DEF OverlapsLoose, JInv, Alike
  <2>2. \A i \in Item, d \in Code : Holds(d, i)' => Holds(d, i)
    BY <1>1, <1>2 DEF Holds
  <2>3. HoldersAlike'
    BY <2>2 DEF HoldersAlike, JInv, Alike
  <2>4. QED  BY <2>1, <2>3
<1>7. OneProduct'
  <2>1. \A d \in Code : ItemOf(barcodes'[d]) # None /\ ~ barcodes'[d].card =>
           barcodes'[d] = barcodes[d] /\ ItemOf(barcodes[d]) # None /\ ~ barcodes[d].card
    BY <1>3 DEF Sold
  <2>2. QED  BY <1>1, <2>1 DEF JInv, OneProduct
<1>9. QED  BY <1>1, <1>5, <1>6, <1>7, <1>8 DEF JInv

\* The mapping is left alone, and what was entered for the products it leads to
\* too, or an invoice priced them.
LEMMA UncodedKnows ==
  ASSUME ProductAssumption, IInv, JInv, UNCHANGED <<app, barcodes, loose>>, AuditInv',
         \A u \in Thread : thread'[u] = thread[u] \/ thread'[u] = Idle,
         \A c \in Code, j \in Item : ItemOf(barcodes[c]) = j =>
            \/ j \in Repriced'
            \/ inventory'[j].pack = inventory[j].pack /\ (j \in Repriced => j \in Repriced')
  PROVE  JInv'
<1>1. ASSUME NEW r \in Request, Knows(r)  PROVE Knows(r)'
  <2>1. r.code \in Code \/ r.code = None
    BY DEF Request
  <2>2. \A c \in Code : ItemOf(barcodes[c]) # None => ItemOf(barcodes[c]) \in Item
    BY DEF ItemOf, IInv, Tables, BarcodeRow
  <2>3. QED  BY <1>1, <2>1, <2>2 DEF Knows, Sold
<1>2. \A u \in Thread : /\ thread'[u] \in Request /\ Knows(thread'[u])
                        /\ thread'[u].code # None => thread'[u] = thread[u]
  BY IdleKnows, IdleReads DEF JInv, IInv, Threads
<1>3. (\A u \in Thread : Knows(thread[u]))'
  BY <1>1, <1>2 DEF Knows, Sold
<1>4. OverlapsLoose'
  BY <1>2 DEF OverlapsLoose, JInv, Alike
<1>5. HoldersAlike'
  <2> SUFFICES ASSUME NEW i \in Item, NEW c \in Code, NEW d \in Code, Holds(c, i)', Holds(d, i)'
               PROVE  Alike(c, d)
    BY DEF HoldersAlike, Alike
  <2>1. \A e \in Code : e # None
    BY DEF ProductAssumption
  <2>2. \A e \in Code : Holds(e, i)' => Holds(e, i)
    BY <1>2, <2>1 DEF Holds
  <2>3. QED  BY <2>2 DEF JInv, HoldersAlike
<1>6. OneProduct'
  BY DEF OneProduct, JInv
<1>7. QED  BY <1>3, <1>4, <1>5, <1>6 DEF JInv

LEMMA WriteUnbarcodedKnows ==
  ASSUME ProductAssumption, IInv, JInv, NEW t \in Thread, WriteUnbarcoded(t), app' = app
  PROVE  JInv'
<1> DEFINE i == thread[t].item
           gone == i # None /\ (inventory[i] = None \/ \E c \in Code : ItemOf(barcodes[c]) = i)
<1>1. /\ thread[t] \in Request /\ Reads(thread[t]) /\ thread \in [Thread -> Request]
      /\ thread[t].pc = "write" /\ loose' = loose /\ Tables
      /\ inventory \in [Item -> ProductRow \cup {None}]
  BY RequestFields DEF WriteUnbarcoded, IInv, Threads, Tables
<1>2. PICK f \in Form : f = thread[t].form
  BY <1>1 DEF Request, Reads
<1>3. PICK b \in ProductRow \cup {None} : b = thread[t].before
  BY <1>1 DEF Request
<1>4. CASE RollBack(t)
  BY <1>1, <1>4, EndKnows DEF RollBack
<1>5. CASE ~ RollBack(t)
  <2>1. ~ gone /\ barcodes' = barcodes /\ thread' = [thread EXCEPT ![t] = Idle]
    BY <1>5 DEF WriteUnbarcoded
  <2>2. PICK j \in (IF i # None THEN {i} ELSE Fresh) :
          inventory' = [inventory EXCEPT ![j] = Saved(None, f)] /\ Audit(j, t)
    BY <1>2, <1>5 DEF WriteUnbarcoded
  <2>3. j \in Item /\ (j = i \/ inventory[j] = None)
    BY <1>1, <2>2 DEF Fresh, Request
  <2>4. /\ \A k \in Item : k # j => inventory'[k] = inventory[k]
        /\ inventory'[j] # None /\ inventory'[j].pack = f
    <3>1. inventory'[j] = Saved(None, f)
      BY <1>1, <2>2, <2>3
    <3>2. Saved(None, f) # None /\ Saved(None, f).pack = f
      BY SavedType DEF ProductAssumption, Saved
    <3>3. QED  BY <1>1, <2>2, <2>3, <3>1, <3>2
  <2>5. PICK e \in Entry : e = [item |-> j, before |-> b, after |-> f, by |-> "save"]
    BY <2>3 DEF Entry
  <2>5a. e.item = j /\ e.after = f /\ audit' = IF app = "admin" THEN Append(audit, e) ELSE audit
    BY <1>2, <1>3, <2>2, <2>5 DEF Audit
  <2>6. AuditInv'
    BY <2>3, <2>4, <2>5a, AuditWritten
  <2>6a. \A k \in Item : k # j => (k \in Repriced => k \in Repriced')
    BY <2>5a, RepricedStays DEF JInv, AuditInv
  <2>7. ASSUME NEW c \in Code, NEW k \in Item, ItemOf(barcodes[c]) = k
        PROVE  inventory'[k].pack = inventory[k].pack /\ (k \in Repriced => k \in Repriced')
    <3>1. k # None /\ inventory[k] # None
      BY <1>1, <2>7 DEF Tables, ItemOf, BarcodeRow, ProductAssumption
    <3>2. k # j
      BY <2>1, <2>3, <3>1, <2>7
    <3>3. QED  BY <2>4, <2>6a, <3>1, <3>2
  <2>8. \A u \in Thread : thread'[u] = thread[u] \/ thread'[u] = Idle
    BY <1>1, <2>1
  <2>9. QED  BY <1>1, <2>1, <2>6, <2>7, <2>8, UncodedKnows
<1>6. QED  BY <1>4, <1>5

LEMMA UpdateInfoKnows ==
  ASSUME ProductAssumption, IInv, JInv, NEW i \in Item, UpdateInfo(i), app' = app
  PROVE  JInv'
<1>1. /\ UNCHANGED <<barcodes, audit, thread, saves, loose>> /\ inventory[i] # None
      /\ inventory' = [inventory EXCEPT ![i] = [inventory[i] EXCEPT !.cents = SetPrice]]
      /\ Tables /\ inventory \in [Item -> ProductRow \cup {None}]
  BY DEF UpdateInfo, IInv, Tables
<1>2. \A j \in Item : inventory[j] # None => inventory'[j] # None /\ inventory'[j].pack = inventory[j].pack
  <2>1. SetPrice \in Amount /\ inventory[i] \in ProductRow
    BY <1>1 DEF Amount
  <2>2. PICK new : new = [inventory[i] EXCEPT !.cents = SetPrice]
    OBVIOUS
  <2>3. new \in ProductRow /\ new.pack = inventory[i].pack
    BY <2>1, <2>2 DEF ProductRow
  <2>4. QED  BY <1>1, <2>2, <2>3 DEF ProductAssumption
<1>3. \A c \in Code, j \in Item : ItemOf(barcodes[c]) = j => inventory'[j].pack = inventory[j].pack
  BY <1>1, <1>2 DEF Tables, BarcodeRow, ItemOf, ProductAssumption
<1>4. AuditInv' /\ Repriced' = Repriced
  BY <1>1, <1>2, AuditStays
<1>5. QED  BY <1>1, <1>3, <1>4, UncodedKnows

LEMMA ApplyInvoiceKnows ==
  ASSUME ProductAssumption, IInv, JInv, NEW i \in Item, NEW f \in Form, ApplyInvoice(i, f), app' = app
  PROVE  JInv'
<1>1. /\ \A j \in Item : j # i => inventory'[j] = inventory[j]
      /\ inventory'[i] # None /\ inventory'[i].pack = f
  BY InvoiceRow
<1>2. /\ UNCHANGED <<barcodes, thread, loose>> /\ app = "admin" /\ inventory[i] # None
      /\ inventory[i] \in ProductRow \cup {None}
  BY DEF ApplyInvoice, IInv, Tables
<1>3. PICK e \in Entry : e = [item |-> i, before |-> inventory[i], after |-> f, by |-> "invoice"]
  BY <1>2 DEF Entry
<1>4. e.item = i /\ e.after = f /\ e.by = "invoice" /\ audit' = Append(audit, e)
  BY <1>3 DEF ApplyInvoice
<1>5. AuditInv'
  BY <1>1, <1>2, <1>4, AuditWritten
<1>6. audit \in Seq(Entry) /\ audit' # audit
  BY <1>4, EntryAdded DEF JInv, AuditInv
<1>7. i \in Repriced' /\ \A j \in Item : j # i => (j \in Repriced => j \in Repriced')
  BY <1>4, <1>6, RepricedStays
<1>8. QED  BY <1>1, <1>2, <1>5, <1>7, UncodedKnows

LEMMA RestartKnows ==
  ASSUME ProductAssumption, IInv, JInv, Restart, app' = app
  PROVE  JInv'
<1>1. /\ UNCHANGED <<barcodes, audit, saves, loose>>
      /\ \A u \in Thread : thread'[u] = Idle
      /\ \A j \in Item : inventory'[j] = IF inventory[j] = None THEN None ELSE RepairedWhole(inventory[j])
      /\ Tables /\ inventory \in [Item -> ProductRow \cup {None}]
  BY DEF Restart, IInv, Tables
<1>2. ASSUME NEW j \in Item, inventory[j] # None
      PROVE  inventory'[j] # None /\ inventory'[j].pack = inventory[j].pack
  <2>1. inventory[j] \in ProductRow
    BY <1>1, <1>2
  <2>2. inventory'[j] = inventory[j] \/ inventory'[j] = [inventory[j] EXCEPT !.whole = inventory[j].cents]
    BY <1>1, <1>2 DEF RepairedWhole
  <2>3. inventory'[j] \in ProductRow /\ inventory'[j].pack = inventory[j].pack
    BY <2>1, <2>2 DEF ProductRow
  <2>4. QED  BY <2>3 DEF ProductAssumption
<1>3. \A c \in Code, j \in Item : ItemOf(barcodes[c]) = j => inventory'[j].pack = inventory[j].pack
  BY <1>1, <1>2 DEF Tables, BarcodeRow, ItemOf, ProductAssumption
<1>4. AuditInv' /\ Repriced' = Repriced
  BY <1>1, <1>2, AuditStays
<1>5. QED  BY <1>1, <1>3, <1>4, UncodedKnows

LEMMA InitKnows == ProductAssumption /\ Init => JInv
<1> SUFFICES ASSUME ProductAssumption, Init  PROVE JInv
  OBVIOUS
<1>1. /\ barcodes = [c \in Code |-> None] /\ thread = [t \in Thread |-> Idle] /\ loose = {} /\ audit = <<>>
  BY DEF Init
<1>2. \A t \in Thread : thread[t] = Idle /\ thread[t].code = None /\ Knows(thread[t])
  BY <1>1, IdleKnows
<1>3. \A c \in Code : ItemOf(barcodes[c]) = None /\ c # None
  BY <1>1 DEF ItemOf, ProductAssumption
<1>4. HoldersAlike
  <2>1. None \notin Item
    BY DEF ProductAssumption
  <2>2. QED  BY <1>2, <1>3, <2>1 DEF HoldersAlike, Holds
<1>5. OneProduct
  BY <1>3 DEF OneProduct
<1>6. AuditInv
  BY <1>1 DEF AuditInv
<1>7. QED  BY <1>1, <1>2, <1>4, <1>5, <1>6 DEF JInv, OverlapsLoose

LEMMA NextKnows ==
  ASSUME ProductAssumption, IInv, JInv, [Next]_vars
  PROVE  JInv'
<1>1. CASE UNCHANGED vars
  <2>1. \A u \in Thread : thread'[u] = thread[u] \/ thread'[u] = Idle
    BY <1>1 DEF vars
  <2>2. AuditInv' /\ Repriced' = Repriced
    BY <1>1 DEF vars, AuditInv, Repriced, LastAudit, JInv
  <2>3. QED  BY <1>1, <2>1, <2>2, UncodedKnows DEF vars
<1>2. ASSUME NEW t \in Thread, ReadBack(t), app' = app  PROVE JInv'
  BY <1>2, EndKnows DEF ReadBack
<1>3. CASE Next
  BY <1>2, <1>3, BeginKnows, ReadRowKnows, MatchKnows, ReadBeforeKnows, WriteKnows, WriteUnbarcodedKnows,
     CreateInfoKnows, UpdateInfoKnows, ApplyInvoiceKnows, AddUserCardKnows, RestartKnows DEF Next
<1>4. QED  BY <1>1, <1>3

-----------------------------------------------------------------------------
(* A save is one step on the tables *)

\* A user's card.
IsCard(c) == barcodes[c] # None /\ barcodes[c].card

\* What a thread has looked up before its transaction, as far as its code is not
\* loose: the product it matched is still that of the first spelling that is
\* sold, or, if it matched none, none is sold or a card hid the others; a card's
\* row that led to no product still leads to none.
Matches(r) ==
    /\ r.pc \in {"before", "write"} /\ r.code # None /\ r.row = None /\ r.code \notin loose =>
          IF ItemOf(r.match) # None
          THEN \E k \in DOMAIN Candidates[r.code] :
                 /\ ItemOf(barcodes[Candidates[r.code][k]]) = ItemOf(r.match)
                 /\ \A j \in 1..(k - 1) : ItemOf(barcodes[Candidates[r.code][j]]) = None
          ELSE \/ \A d \in ToSet(Candidates[r.code]) : ItemOf(barcodes[d]) = None
               \/ \E d \in ToSet(Candidates[r.code]) : IsCard(d)
    /\ r.pc # "readback" /\ r.code # None /\ r.row # None /\ ItemOf(r.row) = None /\ r.code \notin loose =>
          ItemOf(barcodes[r.code]) = None

MInv == \A t \in Thread : Matches(thread[t])

\* The spellings of a code are codes, the code the first of them.
LEMMA CandidateOf ==
  ASSUME ProductAssumption, NEW c \in Code
  PROVE  /\ 1 \in DOMAIN Candidates[c] /\ Candidates[c][1] = c
         /\ DOMAIN Candidates[c] = 1..Len(Candidates[c]) /\ Len(Candidates[c]) \in Nat
         /\ \A k \in DOMAIN Candidates[c] :
               Candidates[c][k] \in Code /\ Candidates[c][k] \in ToSet(Candidates[c])
         /\ ToSet(Candidates[c]) \subseteq Code
         /\ c \in ToSet(Candidates[c])
<1>1. Candidates[c] \in Seq(Code) /\ Candidates[c] # <<>> /\ Candidates[c][1] = c
  BY DEF ProductAssumption
<1>2. QED  BY <1>1 DEF ToSet

\* What is known of a request stays so unless a spelling of its code gets another
\* product, which makes the code loose.
LEMMA MatchesKept ==
  ASSUME ProductAssumption, loose \subseteq loose', NEW r \in Request, Matches(r),
         r.code # None /\ r.code \notin loose' =>
            \A d \in ToSet(Candidates[r.code]) :
               ItemOf(barcodes'[d]) = ItemOf(barcodes[d]) /\ (IsCard(d) => IsCard(d)')
  PROVE  Matches(r)'
<1>1. CASE r.code = None \/ r.code \in loose'
  BY <1>1 DEF Matches
<1>2. CASE r.code # None /\ r.code \notin loose'
  <2>1. r.code \in Code /\ r.code \notin loose
    BY <1>2 DEF Request
  <2>2. /\ r.code \in ToSet(Candidates[r.code])
        /\ DOMAIN Candidates[r.code] = 1..Len(Candidates[r.code]) /\ Len(Candidates[r.code]) \in Nat
        /\ \A k \in DOMAIN Candidates[r.code] : Candidates[r.code][k] \in ToSet(Candidates[r.code])
    BY <2>1, CandidateOf
  <2>3. \A k \in DOMAIN Candidates[r.code] : \A j \in 1..(k - 1) : j \in DOMAIN Candidates[r.code]
    BY <2>2
  <2>4. /\ \A d \in ToSet(Candidates[r.code]) :
             ItemOf(barcodes'[d]) = ItemOf(barcodes[d]) /\ (IsCard(d) => IsCard(d)')
        /\ \A k \in DOMAIN Candidates[r.code] :
             ItemOf(barcodes'[Candidates[r.code][k]]) = ItemOf(barcodes[Candidates[r.code][k]])
    BY <1>2, <2>2
  <2>5. ASSUME r.pc \in {"before", "write"}, r.row = None, ItemOf(r.match) # None
        PROVE  \E k \in DOMAIN Candidates[r.code] :
                 /\ ItemOf(barcodes'[Candidates[r.code][k]]) = ItemOf(r.match)
                 /\ \A j \in 1..(k - 1) : ItemOf(barcodes'[Candidates[r.code][j]]) = None
    <3>1. PICK k \in DOMAIN Candidates[r.code] :
                 /\ ItemOf(barcodes[Candidates[r.code][k]]) = ItemOf(r.match)
                 /\ \A j \in 1..(k - 1) : ItemOf(barcodes[Candidates[r.code][j]]) = None
      BY <1>2, <2>1, <2>5 DEF Matches
    <3>2. QED  BY <2>3, <2>4, <3>1
  <2>6. ASSUME r.pc \in {"before", "write"}, r.row = None, ItemOf(r.match) = None
        PROVE  \/ \A d \in ToSet(Candidates[r.code]) : ItemOf(barcodes'[d]) = None
               \/ \E d \in ToSet(Candidates[r.code]) : IsCard(d)'
    <3>1. \/ \A d \in ToSet(Candidates[r.code]) : ItemOf(barcodes[d]) = None
          \/ \E d \in ToSet(Candidates[r.code]) : IsCard(d)
      BY <1>2, <2>1, <2>6 DEF Matches
    <3>2. QED  BY <2>4, <3>1
  <2>7. r.pc # "readback" /\ r.row # None /\ ItemOf(r.row) = None => ItemOf(barcodes'[r.code]) = None
    BY <1>2, <2>1, <2>2, <2>4 DEF Matches
  <2>8. QED  BY <2>5, <2>6, <2>7 DEF Matches
<1>3. QED  BY <1>1, <1>2

\* A thread reads, begins or ends, and what it has looked up is so.
LEMMA ReadingMatches ==
  ASSUME ProductAssumption, IInv, MInv, UNCHANGED barcodes, loose \subseteq loose',
         NEW t \in Thread, NEW r \in Request, thread' = [thread EXCEPT ![t] = r], Matches(r)'
  PROVE  MInv'
<1>1. ASSUME NEW u \in Thread, NEW w, w = thread'[u]  PROVE Matches(w)'
  <2>1. CASE u = t
    <3>1. w = r
      BY <1>1, <2>1 DEF IInv, Threads
    <3>2. QED  BY <3>1
  <2>2. CASE u # t
    <3>1. w \in Request /\ Matches(w)
      BY <1>1, <2>2 DEF IInv, Threads, MInv
    <3>2. \A d : ItemOf(barcodes'[d]) = ItemOf(barcodes[d]) /\ (IsCard(d) => IsCard(d)')
      BY DEF IsCard
    <3>3. QED  BY <3>1, <3>2, MatchesKept
  <2>3. QED  BY <2>1, <2>2
<1>2. QED  BY <1>1 DEF MInv, Matches, IsCard

LEMMA IdleMatches == Matches(Idle) /\ Matches(Idle)'
<1>1. Idle.pc = "idle" /\ Idle.row = None
  BY DEF Idle
<1>2. QED  BY <1>1 DEF Matches

\* find_barcode_row tells of a code's spellings what is so when it is called.
LEMMA FoundMatches ==
  ASSUME ProductAssumption, Tables, NEW c \in Code
  PROVE  IF ItemOf(FindBarcodeRow(c)) # None
         THEN \E k \in DOMAIN Candidates[c] :
                /\ ItemOf(barcodes[Candidates[c][k]]) = ItemOf(FindBarcodeRow(c))
                /\ \A j \in 1..(k - 1) : ItemOf(barcodes[Candidates[c][j]]) = None
         ELSE \/ \A d \in ToSet(Candidates[c]) : ItemOf(barcodes[d]) = None
              \/ \E d \in ToSet(Candidates[c]) : IsCard(d)
<1> DEFINE found == {k \in DOMAIN Candidates[c] : barcodes[Candidates[c][k]] # None}
<1>1. /\ DOMAIN Candidates[c] = 1..Len(Candidates[c]) /\ Len(Candidates[c]) \in Nat
      /\ \A k \in DOMAIN Candidates[c] :
            Candidates[c][k] \in Code /\ Candidates[c][k] \in ToSet(Candidates[c])
      /\ \A d \in ToSet(Candidates[c]) : \E k \in DOMAIN Candidates[c] : d = Candidates[c][k]
  BY CandidateOf DEF ToSet
<1>2. FindBarcodeRow(c) = IF found = {} THEN None ELSE barcodes[Candidates[c][Min(found)]]
  BY DEF FindBarcodeRow
<1>3. found \subseteq Nat /\ found \subseteq DOMAIN Candidates[c]
  BY <1>1
<1>4. CASE found = {}
  <2>1. \A d \in ToSet(Candidates[c]) : barcodes[d] = None
    BY <1>1, <1>4
  <2>2. QED  BY <1>2, <1>4, <2>1 DEF ItemOf
<1>5. CASE found # {}
  <2>1. PICK k \in found : k = Min(found)
    BY <1>3, <1>5, LeastOf
  <2>2. /\ k \in DOMAIN Candidates[c] /\ k \in Nat /\ Candidates[c][k] \in Code
        /\ Candidates[c][k] \in ToSet(Candidates[c])
        /\ barcodes[Candidates[c][k]] # None /\ FindBarcodeRow(c) = barcodes[Candidates[c][k]]
    BY <1>1, <1>2, <1>3, <1>5, <2>1
  <2>3. \A j \in found : k <= j
    BY <1>3, <1>5, <2>1, LeastOf
  <2>4. \A j \in 1..(k - 1) : j \in DOMAIN Candidates[c] /\ j \notin found
    BY <1>1, <1>3, <2>2, <2>3, SMTT(40)
  <2>5. \A j \in 1..(k - 1) : ItemOf(barcodes[Candidates[c][j]]) = None
    BY <2>4 DEF ItemOf
  <2>6. ItemOf(barcodes[Candidates[c][k]]) # None \/ IsCard(Candidates[c][k])
    BY <2>2 DEF Tables, ItemOf, IsCard
  <2>7. QED  BY <2>2, <2>5, <2>6
<1>6. QED  BY <1>4, <1>5

LEMMA BeginMatches ==
  ASSUME ProductAssumption, IInv, MInv, NEW t \in Thread, NEW c \in Code \cup {None},
         NEW i \in Item \cup {None}, NEW f \in Form, Begin(t, c, i, f)
  PROVE  MInv'
<1>1. PICK r : r = [Idle EXCEPT !.pc = "start", !.code = c, !.item = i, !.form = f]
  OBVIOUS
<1>2. r \in Request /\ r.pc = "start" /\ r.row = None
  BY <1>1 DEF Idle, Request
<1>3. Matches(r)'
  BY <1>2 DEF Matches
<1>4. thread' = [thread EXCEPT ![t] = r] /\ UNCHANGED barcodes /\ loose \subseteq loose'
  BY <1>1 DEF Begin
<1>5. QED  BY <1>2, <1>3, <1>4, ReadingMatches

LEMMA ReadRowMatches ==
  ASSUME ProductAssumption, IInv, MInv, NEW t \in Thread, ReadRow(t)
  PROVE  MInv'
<1> DEFINE row == barcodes[thread[t].code]
           next == CASE row = None -> "match"
                     [] ItemOf(row) # None /\ app = "admin" -> "before"
                     [] OTHER -> "write"
<1>1. PICK r : r = [thread[t] EXCEPT !.row = row, !.match = row, !.pc = next]
  OBVIOUS
<1>2. /\ thread[t] \in Request /\ thread[t].code \in Code /\ row \in BarcodeRow \cup {None}
      /\ thread \in [Thread -> Request]
  BY RequestFields DEF ReadRow, Request, IInv, Tables, Threads
<1>3. PICK p \in {"match", "before", "write"} : p = next /\ (row = None => p = "match")
  <2>1. CASE row = None
    <3>1. next = "match"
      BY <2>1, Zenon DEF ItemOf
    <3>2. QED  BY <3>1
  <2>2. CASE row # None /\ ItemOf(row) # None /\ app = "admin"
    <3>1. next = "before"
      BY <2>2
    <3>2. QED  BY <2>2, <3>1
  <2>3. CASE row # None /\ ~ (ItemOf(row) # None /\ app = "admin")
    <3>1. next = "write"
      BY <2>3
    <3>2. QED  BY <2>3, <3>1
  <2>4. QED  BY <2>1, <2>2, <2>3
<1>4. /\ thread' = [thread EXCEPT ![t] = r]
      /\ UNCHANGED <<barcodes, loose>>
  BY <1>1, <1>2 DEF ReadRow, Request
<1> HIDE DEF next
<1>5. r \in Request /\ r.pc = p /\ r.row = row /\ r.code = thread[t].code
  BY <1>1, <1>2, <1>3 DEF Request
<1> HIDE DEF row
<1>6. Matches(r)'
  BY <1>3, <1>4, <1>5 DEF Matches, row
<1>7. QED  BY <1>4, <1>5, <1>6, ReadingMatches

LEMMA MatchMatches ==
  ASSUME ProductAssumption, IInv, MInv, NEW t \in Thread, Match(t)
  PROVE  MInv'
<1> DEFINE row == FindBarcodeRow(thread[t].code)
           next == IF ItemOf(row) # None /\ app = "admin" THEN "before" ELSE "write"
<1>1. PICK p \in {"before", "write"} : p = next
  OBVIOUS
<1>2. PICK r : r = [thread[t] EXCEPT !.match = row, !.pc = p]
  OBVIOUS
<1>3. /\ thread[t] \in Request /\ thread[t].row = None /\ Tables
      /\ thread[t].code \in Code /\ thread \in [Thread -> Request]
  BY RequestFields DEF Match, Reads, Request, IInv, Threads
<1>4. row \in BarcodeRow \cup {None}
  BY <1>3, FoundIsRow DEF Tables
<1>5. /\ thread' = [thread EXCEPT ![t] = r]
      /\ UNCHANGED <<barcodes, loose>>
  BY <1>1, <1>2, <1>3 DEF Match, Request
<1>6. IF ItemOf(row) # None
      THEN \E k \in DOMAIN Candidates[thread[t].code] :
             /\ ItemOf(barcodes[Candidates[thread[t].code][k]]) = ItemOf(row)
             /\ \A j \in 1..(k - 1) : ItemOf(barcodes[Candidates[thread[t].code][j]]) = None
      ELSE \/ \A d \in ToSet(Candidates[thread[t].code]) : ItemOf(barcodes[d]) = None
           \/ \E d \in ToSet(Candidates[thread[t].code]) : IsCard(d)
  BY <1>3, FoundMatches
<1> HIDE DEF row, next
<1>7. r \in Request /\ r.row = None /\ r.code = thread[t].code /\ r.match = row
  BY <1>2, <1>3, <1>4 DEF Request
<1>8. Matches(r)
  BY <1>6, <1>7 DEF Matches
<1>9. Matches(r)'
  BY <1>5, <1>7, <1>8, MatchesKept DEF IsCard
<1>10. QED  BY <1>5, <1>7, <1>9, ReadingMatches

LEMMA ReadBeforeMatches ==
  ASSUME ProductAssumption, IInv, MInv, NEW t \in Thread, ReadBefore(t) \/ ReadExisting(t)
  PROVE  MInv'
<1> DEFINE read == IF ReadBefore(t) THEN inventory[ItemOf(thread[t].match)]
                   ELSE IF thread[t].item = None THEN None ELSE inventory[thread[t].item]
<1>1. /\ thread[t] \in Request /\ Reads(thread[t]) /\ Matches(thread[t]) /\ thread \in [Thread -> Request]
      /\ UNCHANGED <<barcodes, loose>> /\ inventory \in [Item -> ProductRow \cup {None}]
  BY RequestFields DEF IInv, Threads, Tables, MInv, ReadBefore, ReadExisting
<1>2. read \in ProductRow \cup {None}
  <2>1. CASE ReadBefore(t)
    <3>1. ItemOf(thread[t].match) \in Item
      BY <1>1, <2>1 DEF ReadBefore, Reads, Request, BarcodeRow, ItemOf
    <3>2. QED  BY <1>1, <2>1, <3>1
  <2>2. CASE ~ ReadBefore(t)
    BY <1>1, <2>2 DEF Request
  <2>3. QED  BY <2>1, <2>2
<1>3. PICK r : r = [thread[t] EXCEPT !.before = read, !.pc = "write"]
  OBVIOUS
<1>4. thread' = [thread EXCEPT ![t] = r]
  <2>1. CASE ReadBefore(t)
    BY <1>1, <1>3, <2>1 DEF ReadBefore, Request
  <2>2. CASE ~ ReadBefore(t)
    <3>1. read = IF thread[t].item = None THEN None ELSE inventory[thread[t].item]
      BY <2>2
    <3>2. ReadExisting(t)
      BY <2>2
    <3> HIDE DEF read
    <3>3. QED  BY <1>1, <1>3, <3>1, <3>2 DEF ReadExisting, Request
  <2>3. QED  BY <2>1, <2>2
<1> HIDE DEF read
<1>5. /\ r \in Request /\ r.pc = "write" /\ r.row = thread[t].row /\ r.code = thread[t].code
      /\ r.match = thread[t].match
  BY <1>1, <1>2, <1>3 DEF Request
<1>6. thread[t].pc = "before" \/ thread[t].code = None
  BY DEF ReadBefore, ReadExisting
<1>7. Matches(r)
  BY <1>1, <1>5, <1>6 DEF Matches
<1>8. Matches(r)'
  BY <1>1, <1>5, <1>7, MatchesKept DEF IsCard
<1>9. QED  BY <1>1, <1>4, <1>5, <1>8, ReadingMatches

\* The row of code c is written: of the codes it may be a spelling of, those that
\* are at work are loose.
LEMMA WrittenMatches ==
  ASSUME ProductAssumption, IInv, MInv, loose \subseteq loose', NEW c \in Code,
         \A d \in Code : d # c => barcodes'[d] = barcodes[d],
         \A u \in Thread : \/ thread'[u].pc = "readback"
                           \/ /\ thread'[u] = thread[u]
                              /\ thread[u].code # None /\ Alike(c, thread[u].code) => thread[u].code \in loose'
  PROVE  MInv'
<1>1. ASSUME NEW u \in Thread, NEW w, w = thread'[u]  PROVE Matches(w)'
  <2>1. CASE thread'[u].pc = "readback"
    BY <1>1, <2>1 DEF Matches
  <2>2. CASE /\ thread'[u] = thread[u]
             /\ thread[u].code # None /\ Alike(c, thread[u].code) => thread[u].code \in loose'
    <3>1. w \in Request /\ Matches(w) /\ w = thread[u]
      BY <1>1, <2>2 DEF IInv, Threads, MInv
    <3>2. ASSUME w.code # None, w.code \notin loose', NEW d \in ToSet(Candidates[w.code])
          PROVE  barcodes'[d] = barcodes[d]
      <4>1. w.code \in Code
        BY <3>1, <3>2 DEF Request
      <4>2. d \in Code
        BY <3>2, <4>1, CandidateOf
      <4>3. d \in ToSet(Candidates[d])
        BY <4>2, CandidateOf
      <4>4. d # c
        BY <2>2, <3>1, <3>2, <4>2, <4>3 DEF Alike, ProductAssumption
      <4>5. QED  BY <4>2, <4>4
    <3>3. w.code # None /\ w.code \notin loose' =>
            \A d \in ToSet(Candidates[w.code]) :
               ItemOf(barcodes'[d]) = ItemOf(barcodes[d]) /\ (IsCard(d) => IsCard(d)')
      BY <3>2 DEF IsCard
    <3>4. QED  BY <3>1, <3>3, MatchesKept
  <2>3. QED  BY <2>1, <2>2
<1>2. QED  BY <1>1 DEF MInv, Matches, IsCard

LEMMA WriteMatches ==
  ASSUME ProductAssumption, IInv, JInv, MInv, NEW t \in Thread, Write(t)
  PROVE  MInv'
<1>1. /\ thread[t] \in Request /\ thread[t].code \in Code /\ thread[t].code # None
      /\ thread \in [Thread -> Request] /\ barcodes \in [Code -> BarcodeRow \cup {None}] /\ loose' = loose
  BY RequestFields DEF Write, Request, IInv, Threads, Tables
<1>2. CASE RollBack(t)
  BY <1>1, <1>2, IdleReads, IdleMatches, ReadingMatches DEF RollBack
<1>3. CASE ~ RollBack(t)
  <2>1. \A d \in Code : d # thread[t].code => barcodes'[d] = barcodes[d]
    BY <1>1, <1>3 DEF Write
  <2>2. thread' = [thread EXCEPT ![t].pc = "readback"]
    BY <1>3 DEF Write
  <2>3. thread'[t] \in Request /\ thread'[t].pc = "readback" /\ \A u \in Thread \ {t} : thread'[u] = thread[u]
    BY <1>1, <2>2 DEF Request
  <2>4. \A u \in Thread \ {t} :
          /\ thread'[u] = thread[u]
          /\ thread[u].code # None /\ Alike(thread[t].code, thread[u].code) => thread[u].code \in loose'
    BY <1>1, <2>3, OverlapsKnown
  <2>5. PICK c \in Code : c = thread[t].code
    BY <1>1
  <2>6. \A u \in Thread : \/ thread'[u].pc = "readback"
                          \/ /\ thread'[u] = thread[u]
                             /\ thread[u].code # None /\ Alike(c, thread[u].code) => thread[u].code \in loose'
    BY <2>3, <2>4, <2>5
  <2>7. loose \subseteq loose' /\ \A d \in Code : d # c => barcodes'[d] = barcodes[d]
    BY <1>1, <2>1, <2>5
  <2>8. QED  BY <2>6, <2>7, WrittenMatches
<1>4. QED  BY <1>2, <1>3

LEMMA NextMatches ==
  ASSUME ProductAssumption, IInv, JInv, MInv, [Next]_vars
  PROVE  MInv'
<1>0. \A d : barcodes' = barcodes => ItemOf(barcodes'[d]) = ItemOf(barcodes[d]) /\ (IsCard(d) => IsCard(d)')
  BY DEF IsCard
<1>1. CASE UNCHANGED vars
  BY <1>1 DEF vars, MInv, Matches, IsCard
<1>2. ASSUME NEW t \in Thread, thread' = [thread EXCEPT ![t] = Idle], UNCHANGED <<barcodes, loose>>
      PROVE  MInv'
  BY <1>2, IdleReads, IdleMatches, ReadingMatches
<1>3. ASSUME NEW t \in Thread, WriteUnbarcoded(t)  PROVE MInv'
  <2>1. thread' = [thread EXCEPT ![t] = Idle] /\ UNCHANGED <<barcodes, loose>>
    BY <1>3 DEF WriteUnbarcoded, RollBack
  <2>2. QED  BY <1>2, <2>1
<1>4. ASSUME NEW t \in Thread, ReadBack(t)  PROVE MInv'
  <2>1. thread' = [thread EXCEPT ![t] = Idle] /\ UNCHANGED <<barcodes, loose>>
    BY <1>4 DEF ReadBack
  <2>2. QED  BY <1>2, <2>1
<1>5. ASSUME NEW c \in Code, CreateInfo(c)  PROVE MInv'
  <2>1. /\ loose' = loose \cup {d \in Code : Alike(c, d)} /\ thread' = thread
        /\ \A d \in Code : d # c => barcodes'[d] = barcodes[d]
    BY <1>5 DEF CreateInfo, IInv, Tables
  <2>2. \A u \in Thread : /\ thread'[u] = thread[u]
                          /\ thread[u].code # None /\ Alike(c, thread[u].code) => thread[u].code \in loose'
    BY <2>1 DEF IInv, Threads, Request
  <2>3. QED  BY <2>1, <2>2, WrittenMatches
<1>6. ASSUME NEW c \in Code, AddUserCard(c)  PROVE MInv'
  <2>1. /\ loose' = loose /\ thread' = thread
        /\ barcodes \in [Code -> BarcodeRow \cup {None}] /\ barcodes[c] = None
        /\ barcodes' = [barcodes EXCEPT ![c] = [item |-> None, card |-> TRUE]]
    BY <1>6 DEF AddUserCard, IInv, Tables
  <2>2. \A d \in Code : ItemOf(barcodes'[d]) = ItemOf(barcodes[d]) /\ (IsCard(d) => IsCard(d)')
    BY <2>1 DEF IsCard, ItemOf
  <2>3. ASSUME NEW u \in Thread, NEW w, w = thread'[u]  PROVE Matches(w)'
    <3>1. w \in Request /\ Matches(w)
      BY <2>1, <2>3 DEF IInv, Threads, MInv
    <3>2. w.code # None => ToSet(Candidates[w.code]) \subseteq Code
      BY <3>1, CandidateOf DEF Request
    <3>3. QED  BY <2>1, <2>2, <3>1, <3>2, MatchesKept
  <2>4. QED  BY <2>3 DEF MInv, Matches, IsCard
<1>7. ASSUME NEW i \in Item, UpdateInfo(i)  PROVE MInv'
  BY <1>7 DEF UpdateInfo, MInv, Matches, IsCard
<1>7a. ASSUME NEW i \in Item, NEW f \in Form, ApplyInvoice(i, f)  PROVE MInv'
  BY <1>7a DEF ApplyInvoice, MInv, Matches, IsCard
<1>8. CASE Restart
  <2>1. \A u \in Thread : thread'[u] = Idle
    BY <1>8 DEF Restart
  <2>2. ASSUME NEW u \in Thread, NEW w, w = thread'[u]  PROVE Matches(w)'
    BY <2>1, <2>2, IdleMatches
  <2>3. QED  BY <2>2 DEF MInv, Matches, IsCard
<1>9. CASE Next
  BY <1>3, <1>4, <1>5, <1>6, <1>7, <1>7a, <1>8, <1>9, BeginMatches, ReadRowMatches, MatchMatches, ReadBeforeMatches,
     WriteMatches DEF Next
<1>10. QED  BY <1>1, <1>9

\* What Catalogue sees of the tables and of the requests.
SoldNow == [c \in Code |-> ItemOf(barcodes[c])]
CardsNow == {c \in Code : barcodes[c] # None /\ barcodes[c].card}
ProductsNow == {i \in Item : inventory[i] # None}
FormNow == [i \in Item |-> IF inventory[i] = None THEN None ELSE inventory[i].pack]
AskedOf(r) == [code |-> r.code, item |-> r.item, form |-> r.form, done |-> r.pc = "readback"]
AskedNow == [t \in Thread |-> [code |-> thread[t].code, item |-> thread[t].item,
                               form |-> thread[t].form, done |-> thread[t].pc = "readback"]]
Tabled == <<SoldNow, CardsNow, ProductsNow, FormNow>>

LEMMA AskedIs == AskedNow = [t \in Thread |-> AskedOf(thread[t])]
  BY DEF AskedNow, AskedOf

LEMMA IdleAsks == AskedOf(Idle) = Promise!NoSave
  BY DEF AskedOf, Idle, Promise!NoSave

\* A request is told by its code, its form and whether it was saved.
LEMMA AskedTold ==
  ASSUME NEW r \in Request, NEW s \in Request,
         s.code = r.code, s.item = r.item, s.form = r.form, r.pc # "readback", s.pc # "readback"
  PROVE  AskedOf(s) = AskedOf(r)
<1>1. (r.pc = "readback") = FALSE /\ (s.pc = "readback") = FALSE
  OBVIOUS
<1>2. QED  BY <1>1 DEF AskedOf

LEMMA InitCatalogue == ProductAssumption /\ Init => Promise!Init
<1> SUFFICES ASSUME ProductAssumption, Init  PROVE Promise!Init
  OBVIOUS
<1>1. /\ barcodes = [c \in Code |-> None] /\ inventory = [i \in Item |-> None]
      /\ thread = [t \in Thread |-> Idle] /\ loose = {}
  BY DEF Init
<1>2. SoldNow = [c \in Code |-> None] /\ CardsNow = {} /\ ProductsNow = {} /\ FormNow = [i \in Item |-> None]
  BY <1>1 DEF SoldNow, CardsNow, ProductsNow, FormNow, ItemOf
<1>3. AskedNow = [t \in Thread |-> Promise!NoSave]
  BY <1>1, AskedIs, IdleAsks
<1>4. QED  BY <1>1, <1>2, <1>3 DEF Promise!Init, SoldNow, CardsNow, ProductsNow, FormNow, AskedNow

\* Steps that read change nothing a client sees.
LEMMA ReadsQuietly ==
  ASSUME IInv, UNCHANGED <<Tabled, loose>>, NEW t \in Thread,
         NEW r \in Request, thread' = [thread EXCEPT ![t] = r], AskedOf(r) = AskedOf(thread[t])
  PROVE  UNCHANGED Promise!vars
<1>1. AskedNow' = AskedNow
  <2>1. thread \in [Thread -> Request] /\ AskedNow' = [u \in Thread |-> AskedOf(thread'[u])]
    BY DEF IInv, Threads, AskedNow, AskedOf
  <2>2. \A u \in Thread : AskedOf(thread'[u]) = AskedOf(thread[u])
    BY <2>1
  <2>3. QED  BY <2>1, <2>2, AskedIs
<1>2. QED  BY <1>1 DEF Promise!vars, Tabled, SoldNow, CardsNow, ProductsNow, FormNow, AskedNow

\* Requests end, and nothing was written.
LEMMA EndsQuietly ==
  ASSUME UNCHANGED <<Tabled, loose>>, NEW T \in SUBSET Thread,
         \A u \in Thread : thread'[u] = IF u \in T THEN Idle ELSE thread[u]
  PROVE  Promise!Next
<1>1. \A u \in Thread : AskedOf(thread'[u]) = IF u \in T THEN Promise!NoSave ELSE AskedOf(thread[u])
  BY IdleAsks
<1>2. AskedNow' = [u \in Thread |-> AskedOf(thread'[u])]
  BY DEF AskedNow, AskedOf
<1>3. AskedNow' = [u \in Thread |-> IF u \in T THEN Promise!NoSave ELSE AskedNow[u]]
  <2>1. \A u \in Thread : AskedNow[u] = AskedOf(thread[u])
    BY AskedIs
  <2>2. QED  BY <1>1, <1>2, <2>1
<1>4. Promise!End(T)
  BY <1>3 DEF Promise!End, Tabled, SoldNow, CardsNow, ProductsNow, FormNow, AskedNow
<1>5. QED  BY <1>4 DEF Promise!Next

LEMMA EndCatalogue ==
  ASSUME IInv, NEW t \in Thread, thread' = [thread EXCEPT ![t] = Idle], UNCHANGED <<Tabled, loose>>
  PROVE  Promise!Next
<1>1. PICK T \in SUBSET Thread : T = {t}
  OBVIOUS
<1>2. \A u \in Thread : thread'[u] = IF u \in T THEN Idle ELSE thread[u]
  BY <1>1 DEF IInv, Threads
<1>3. QED  BY <1>2, EndsQuietly

LEMMA TablesUnchanged == UNCHANGED <<barcodes, inventory>> => UNCHANGED Tabled
  BY DEF Tabled, SoldNow, CardsNow, ProductsNow, FormNow

LEMMA BeginCatalogue ==
  ASSUME ProductAssumption, IInv, NEW t \in Thread, NEW c \in Code \cup {None},
         NEW i \in Item \cup {None}, NEW f \in Form, Begin(t, c, i, f)
  PROVE  Promise!Next
<1>1. PICK r : r = [Idle EXCEPT !.pc = "start", !.code = c, !.item = i, !.form = f]
  OBVIOUS
<1>2. r \in Request /\ r.pc = "start" /\ r.code = c /\ r.item = i /\ r.form = f
  BY <1>1 DEF Idle, Request
<1>3. AskedOf(r) = [code |-> c, item |-> i, form |-> f, done |-> FALSE]
  <2>1. (r.pc = "readback") = FALSE
    BY <1>2
  <2>2. QED  BY <1>2, <2>1 DEF AskedOf
<1>4. /\ thread' = [thread EXCEPT ![t] = r] /\ thread[t] = Idle /\ UNCHANGED <<barcodes, inventory>>
      /\ thread \in [Thread -> Request] /\ (c = None \/ i = None)
      /\ loose' = IF \E u \in Thread \ {t} : thread[u].code # None /\ Alike(c, thread[u].code)
                  THEN loose \cup {d \in Code : Alike(c, d)} ELSE loose
  BY <1>1 DEF Begin, IInv, Threads
<1>5. AskedNow[t] = Promise!NoSave /\ \A u \in Thread : AskedNow[u].code = thread[u].code
  BY <1>4, IdleAsks, AskedIs DEF AskedOf
<1>6. AskedNow' = [AskedNow EXCEPT ![t] = [code |-> c, item |-> i, form |-> f, done |-> FALSE]]
  <2>1. AskedNow' = [u \in Thread |-> AskedOf(thread'[u])]
    BY DEF AskedNow, AskedOf
  <2>2. \A u \in Thread : AskedOf(thread'[u]) = IF u = t THEN AskedOf(r) ELSE AskedOf(thread[u])
    BY <1>4
  <2>3. QED  BY <1>3, <2>1, <2>2, AskedIs
<1>7. UNCHANGED Tabled
  BY <1>4, TablesUnchanged
<1>8. \A d, e : Promise!Alike(d, e) <=> Alike(d, e)
  BY DEF Promise!Alike, Alike, Promise!ToSet, ToSet
<1>9. Promise!AllAlike(c) = {d \in Code : Alike(c, d)}
  BY <1>8 DEF Promise!AllAlike
<1>10. loose' = IF \E u \in Thread \ {t} : AskedNow[u].code # None /\ Promise!Alike(c, AskedNow[u].code)
                THEN loose \cup Promise!AllAlike(c) ELSE loose
  BY <1>4, <1>5, <1>8, <1>9
<1>11. Promise!Ask(t, c, i, f)
  BY <1>4, <1>5, <1>6, <1>7, <1>10
     DEF Promise!Ask, Tabled, SoldNow, CardsNow, ProductsNow, FormNow, AskedNow
<1>12. QED  BY <1>11 DEF Promise!Next

\* The reads of save_product: only the thread's own request changes.
LEMMA ReadCatalogue ==
  ASSUME ProductAssumption, IInv, NEW t \in Thread,
         ReadRow(t) \/ Match(t) \/ ReadBefore(t) \/ ReadExisting(t), UNCHANGED app
  PROVE  UNCHANGED Promise!vars
<1>1. thread \in [Thread -> Request] /\ thread[t] \in Request /\ UNCHANGED <<barcodes, inventory, loose>>
  BY RequestFields DEF IInv, Threads, ReadRow, Match, ReadBefore, ReadExisting
<1>2. IInv'
  BY ReadRowStep, MatchStep, ReadBeforeStep
<1>3. thread' \in [Thread -> Request]
  BY <1>2 DEF IInv, Threads
<1>4. PICK r : r = thread'[t]
  OBVIOUS
<1>5. /\ thread[t].pc # "readback" /\ r.pc # "readback"
      /\ r.code = thread[t].code /\ r.item = thread[t].item /\ r.form = thread[t].form
      /\ thread' = [thread EXCEPT ![t] = r]
  <2>1. CASE ReadRow(t)
    <3> DEFINE row == barcodes[thread[t].code]
               next == CASE row = None -> "match"
                         [] ItemOf(row) # None /\ app = "admin" -> "before"
                         [] OTHER -> "write"
    <3>1. /\ thread[t].pc = "start"
          /\ thread' = [thread EXCEPT ![t] = [thread[t] EXCEPT !.row = row, !.match = row, !.pc = next]]
      BY <1>1, <2>1 DEF ReadRow, Request
    <3>2. next # "readback"
      <4>1. CASE row = None
        <5>1. next = "match"
          BY <4>1, Zenon DEF ItemOf
        <5>2. QED  BY <5>1
      <4>2. CASE row # None /\ ItemOf(row) # None /\ app = "admin"
        BY <4>2
      <4>3. CASE row # None /\ ~ (ItemOf(row) # None /\ app = "admin")
        BY <4>3
      <4>4. QED  BY <4>1, <4>2, <4>3
    <3> HIDE DEF row, next
    <3>3. r = [thread[t] EXCEPT !.row = row, !.match = row, !.pc = next]
      BY <1>1, <1>4, <3>1
    <3>4. QED  BY <1>1, <3>1, <3>2, <3>3 DEF Request
  <2>2. CASE Match(t)
    <3> DEFINE row == FindBarcodeRow(thread[t].code)
               next == IF ItemOf(row) # None /\ app = "admin" THEN "before" ELSE "write"
    <3>1. /\ thread[t].pc = "match" /\ next # "readback"
          /\ thread' = [thread EXCEPT ![t] = [thread[t] EXCEPT !.match = row, !.pc = next]]
      BY <1>1, <2>2 DEF Match, Request
    <3> HIDE DEF row, next
    <3>2. r = [thread[t] EXCEPT !.match = row, !.pc = next]
      BY <1>1, <1>4, <3>1
    <3>3. QED  BY <1>1, <3>1, <3>2 DEF Request
  <2>3. CASE ReadBefore(t)
    <3> DEFINE b == inventory[ItemOf(thread[t].match)]
    <3>1. /\ thread[t].pc = "before"
          /\ thread' = [thread EXCEPT ![t] = [thread[t] EXCEPT !.before = b, !.pc = "write"]]
      BY <1>1, <2>3 DEF ReadBefore, Request
    <3> HIDE DEF b
    <3>2. r = [thread[t] EXCEPT !.before = b, !.pc = "write"]
      BY <1>1, <1>4, <3>1
    <3>3. QED  BY <1>1, <3>1, <3>2 DEF Request
  <2>4. CASE ReadExisting(t)
    <3> DEFINE b == IF thread[t].item = None THEN None ELSE inventory[thread[t].item]
    <3>1. /\ thread[t].pc = "start"
          /\ thread' = [thread EXCEPT ![t] = [thread[t] EXCEPT !.before = b, !.pc = "write"]]
      BY <2>4, ZenonT(40) DEF ReadExisting
    <3> HIDE DEF b
    <3>2. r = [thread[t] EXCEPT !.before = b, !.pc = "write"]
      BY <1>1, <1>4, <3>1
    <3>3. QED  BY <1>1, <3>1, <3>2 DEF Request
  <2>5. QED  BY <2>1, <2>2, <2>3, <2>4
<1>6. r \in Request
  BY <1>3, <1>4
<1>7. AskedOf(r) = AskedOf(thread[t])
  BY <1>1, <1>5, <1>6, AskedTold
<1>8. QED  BY <1>1, <1>5, <1>6, <1>7, TablesUnchanged, ReadsQuietly

\* The transaction of save_product is the step: the product that the save takes,
\* or makes, is the one it would look up now, or its code is loose.
LEMMA WriteCatalogue ==
  ASSUME ProductAssumption, IInv, JInv, MInv, NEW t \in Thread, Write(t)
  PROVE  Promise!Next
<1>1. /\ thread[t] \in Request /\ Reads(thread[t]) /\ Knows(thread[t]) /\ Matches(thread[t])
      /\ thread[t].code # None /\ thread[t].pc = "write" /\ loose' = loose
      /\ thread \in [Thread -> Request] /\ Tables
      /\ barcodes \in [Code -> BarcodeRow \cup {None}] /\ inventory \in [Item -> ProductRow \cup {None}]
  BY RequestFields DEF Write, IInv, Threads, Tables, JInv, MInv
<1>2. PICK c \in Code : c = thread[t].code
  BY <1>1 DEF Request
<1>3. PICK f \in Form : f = thread[t].form
  BY <1>1 DEF Request, Reads
<1> DEFINE found == ItemOf(thread[t].match)
           row == IF thread[t].row = None THEN None ELSE barcodes[c]
           made(i) == IF found # None THEN inventory[i].made ELSE c
<1>4. found # None => found \in Item /\ inventory[found] # None
  BY <1>1 DEF Request, Reads, ItemOf, BarcodeRow
<1>5. CASE RollBack(t)
  BY <1>1, <1>5, TablesUnchanged, EndCatalogue DEF RollBack
<1>6. CASE ~ RollBack(t)
  <2>1. PICK i \in (IF found # None THEN {found} ELSE Fresh) :
          /\ inventory' = [inventory EXCEPT ![i] = Saved(made(i), f)]
          /\ barcodes' = IF found # None /\ row # None THEN barcodes
                         ELSE [barcodes EXCEPT ![c] = Attached(row, i)]
    BY <1>2, <1>3, <1>6 DEF Write
  <2>2. ~ Clash(t) /\ thread' = [thread EXCEPT ![t].pc = "readback"]
    BY <1>6 DEF Write
  <2>3. row = barcodes[c] /\ (thread[t].row = None <=> barcodes[c] = None)
    BY <1>1, <1>2, <2>2 DEF Clash, Reads
  <2>4. i \in Item /\ i # None /\ (found # None => i = found) /\ (found = None => inventory[i] = None)
    BY <1>4, <2>1 DEF Fresh, ProductAssumption
  <2>5. /\ \A j \in Item : j # i => inventory'[j] = inventory[j]
        /\ inventory'[i] # None /\ inventory'[i].pack = f
    <3>1. inventory'[i] = Saved(made(i), f) /\ \A j \in Item : j # i => inventory'[j] = inventory[j]
      BY <1>1, <2>1, <2>4
    <3>2. made(i) \in Code \cup {None}
      BY <1>1, <1>4, <2>4 DEF Tables, ProductRow
    <3>3. Saved(made(i), f) # None /\ Saved(made(i), f).pack = f
      BY <3>2, SavedType DEF ProductAssumption, Saved
    <3>4. QED  BY <3>1, <3>3
  <2>6. /\ ItemOf(Attached(row, i)) = i /\ Attached(row, i) # None
        /\ Attached(row, i).card <=> row # None /\ row.card
    <3> DEFINE k == row # None /\ row.card
    <3>1. k \in BOOLEAN /\ Attached(row, i) = [item |-> i, card |-> k]
      BY DEF Attached
    <3>2. (k = TRUE) <=> row # None /\ row.card
      BY <1>1, <2>3 DEF BarcodeRow
    <3> HIDE DEF k
    <3>3. Attached(row, i) \in BarcodeRow /\ Attached(row, i).item = i /\ Attached(row, i).card = k
      BY <2>4, <3>1 DEF BarcodeRow
    <3>4. QED  BY <3>2, <3>3 DEF ItemOf, ProductAssumption
  <2> HIDE DEF made, row
  <2>7. /\ \A d \in Code : d # c => barcodes'[d] = barcodes[d]
        /\ \/ barcodes'[c] = barcodes[c] /\ found # None /\ row # None
           \/ barcodes'[c] = Attached(row, i) /\ ~ (found # None /\ row # None)
    BY <1>1, <2>1
  <2>8. \/ SoldNow' = [SoldNow EXCEPT ![c] = i]
        \/ c \in loose /\ SoldNow[c] # None /\ SoldNow' = SoldNow
    <3>1. SoldNow' = [d \in Code |-> ItemOf(barcodes'[d])]
      BY DEF SoldNow, ItemOf
    <3>2. CASE barcodes'[c] = Attached(row, i)
      <4>1. ItemOf(barcodes'[c]) = i
        BY <2>6, <3>2
      <4>2. \A d \in Code : ItemOf(barcodes'[d]) = IF d = c THEN i ELSE ItemOf(barcodes[d])
        BY <2>7, <4>1
      <4>3. SoldNow' = [d \in Code |-> IF d = c THEN i ELSE ItemOf(barcodes[d])]
        BY <3>1, <4>2
      <4>4. SoldNow = [d \in Code |-> ItemOf(barcodes[d])]
        BY DEF SoldNow
      <4>5. QED  BY <4>3, <4>4
    <3>3. CASE barcodes'[c] = barcodes[c] /\ found # None /\ row # None
      <4>1. ItemOf(thread[t].row) = i
        BY <1>1, <2>3, <2>4, <3>3 DEF Reads
      <4>2. ItemOf(barcodes[c]) # None /\ (c \in loose \/ ItemOf(barcodes[c]) = i)
        BY <1>1, <1>2, <2>4, <4>1 DEF Knows
      <4>3. SoldNow' = SoldNow /\ SoldNow[c] = ItemOf(barcodes[c])
        BY <2>7, <3>1, <3>3 DEF SoldNow
      <4>4. QED  BY <4>2, <4>3 DEF SoldNow
    <3>4. QED  BY <2>7, <3>2, <3>3
  <2>9. CardsNow' = CardsNow
    <3>1. \A d \in Code : (barcodes'[d] # None /\ barcodes'[d].card) <=> (barcodes[d] # None /\ barcodes[d].card)
      BY <2>3, <2>6, <2>7
    <3>2. QED  BY <3>1 DEF CardsNow
  <2>10. ProductsNow' = ProductsNow \cup {i}
    BY <2>4, <2>5 DEF ProductsNow
  <2>11. FormNow' = [FormNow EXCEPT ![i] = f]
    <3>1. FormNow' = [j \in Item |-> IF inventory'[j] = None THEN None ELSE inventory'[j].pack]
      BY DEF FormNow
    <3>2. QED  BY <2>4, <2>5, <3>1 DEF FormNow
  <2>12. c \in loose \/ Promise!Known(c, i) \/ Promise!Made(c, i)
    <3> SUFFICES ASSUME c \notin loose  PROVE Promise!Known(c, i) \/ Promise!Made(c, i)
      OBVIOUS
    <3>1. /\ 1 \in DOMAIN Candidates[c] /\ Candidates[c][1] = c /\ c \in ToSet(Candidates[c])
          /\ DOMAIN Candidates[c] = 1..Len(Candidates[c]) /\ Len(Candidates[c]) \in Nat
          /\ \A k \in DOMAIN Candidates[c] : Candidates[c][k] \in Code
          /\ ToSet(Candidates[c]) \subseteq Code
      BY CandidateOf
    <3>2. \A d \in Code : SoldNow[d] = ItemOf(barcodes[d]) /\ (IsCard(d) => d \in CardsNow)
      BY DEF SoldNow, CardsNow, IsCard
    <3>3. CASE found # None
      <4>1. PICK k \in DOMAIN Candidates[c] :
               /\ ItemOf(barcodes[Candidates[c][k]]) = i
               /\ \A j \in 1..(k - 1) : ItemOf(barcodes[Candidates[c][j]]) = None
        <5>1. CASE thread[t].row # None
          <6>1. ItemOf(thread[t].row) = i
            BY <1>1, <2>4, <3>3, <5>1 DEF Reads
          <6>2. ItemOf(barcodes[c]) = i
            BY <1>1, <1>2, <2>4, <6>1 DEF Knows
          <6>3. \A j \in 1..(1 - 1) : ItemOf(barcodes[Candidates[c][j]]) = None
            OBVIOUS
          <6>4. QED  BY <3>1, <6>2, <6>3
        <5>2. CASE thread[t].row = None
          BY <1>1, <1>2, <2>4, <3>3, <5>2 DEF Matches
        <5>3. QED  BY <5>1, <5>2
      <4>2. SoldNow[Candidates[c][k]] = i /\ \A j \in 1..(k - 1) : SoldNow[Candidates[c][j]] = None
        <5>1. \A j \in 1..(k - 1) : j \in DOMAIN Candidates[c]
          BY <3>1
        <5>2. QED  BY <3>1, <3>2, <4>1, <5>1
      <4>3. i \in ProductsNow
        BY <1>4, <2>4, <3>3 DEF ProductsNow
      <4>4. QED  BY <4>2, <4>3 DEF Promise!Known, SoldNow, ProductsNow
    <3>4. CASE found = None
      <4>1. i \notin ProductsNow
        BY <2>4, <3>4 DEF ProductsNow
      <4>2. SoldNow[c] = None
        <5>1. CASE thread[t].row # None
          <6>1. ItemOf(thread[t].row) = None
            BY <1>1, <3>4, <5>1 DEF Reads
          <6>2. QED  BY <1>1, <1>2, <3>2, <5>1, <6>1 DEF Matches
        <5>2. CASE thread[t].row = None
          BY <2>3, <3>2, <5>2 DEF ItemOf
        <5>3. QED  BY <5>1, <5>2
      <4>3. \/ \A d \in ToSet(Candidates[c]) : ItemOf(barcodes[d]) = None
            \/ \E d \in ToSet(Candidates[c]) : IsCard(d)
        <5>1. CASE thread[t].row # None
          <6>1. thread[t].row.item = None
            BY <1>1, <3>4, <5>1 DEF Reads, ItemOf
          <6>2. IsCard(c)
            BY <1>1, <1>2, <5>1, <6>1 DEF Reads, IsCard
          <6>3. QED  BY <3>1, <6>2
        <5>2. CASE thread[t].row = None
          BY <1>1, <1>2, <3>4, <5>2 DEF Matches
        <5>3. QED  BY <5>1, <5>2
      <4>4. \/ \A d \in ToSet(Candidates[c]) : SoldNow[d] = None
            \/ ToSet(Candidates[c]) \cap CardsNow # {}
        BY <3>1, <3>2, <4>3
      <4>5. Promise!ToSet(Candidates[c]) = ToSet(Candidates[c])
        BY DEF Promise!ToSet, ToSet
      <4>6. QED  BY <4>1, <4>2, <4>4, <4>5 DEF Promise!Made, SoldNow, ProductsNow, CardsNow
    <3>5. QED  BY <3>3, <3>4
  <2>13. AskedNow[t].code = c /\ AskedNow[t].form = f /\ AskedNow[t].done = FALSE /\ c # None
    <3>1. (thread[t].pc = "readback") = FALSE
      BY <1>1
    <3>2. AskedNow[t] = [code |-> c, item |-> thread[t].item, form |-> f, done |-> FALSE]
      BY <1>2, <1>3, <3>1 DEF AskedNow
    <3>3. QED  BY <1>1, <1>2, <3>2
  <2>14. AskedNow' = [AskedNow EXCEPT ![t].done = TRUE]
    <3>1. /\ thread'[t].code = thread[t].code /\ thread'[t].item = thread[t].item
          /\ thread'[t].form = thread[t].form /\ thread'[t].pc = "readback"
          /\ \A u \in Thread \ {t} : thread'[u] = thread[u]
      BY <1>1, <2>2 DEF Request
    <3>2. (thread'[t].pc = "readback") = TRUE
      BY <3>1
    <3>3. AskedOf(thread'[t]) = [AskedOf(thread[t]) EXCEPT !.done = TRUE]
      <4>1. AskedOf(thread'[t]) = [code |-> thread[t].code, item |-> thread[t].item, form |-> thread[t].form,
                                   done |-> TRUE]
        BY <3>1, <3>2 DEF AskedOf
      <4>2. AskedOf(thread[t]) = [code |-> thread[t].code, item |-> thread[t].item, form |-> thread[t].form,
                                  done |-> thread[t].pc = "readback"]
        BY DEF AskedOf
      <4>3. PICK b : b = (thread[t].pc = "readback")
        OBVIOUS
      <4>4. AskedOf(thread[t]) = [code |-> thread[t].code, item |-> thread[t].item, form |-> thread[t].form,
                                  done |-> b]
        BY <4>2, <4>3
      <4>5. PICK done : done = TRUE
        OBVIOUS
      <4>6. AskedOf(thread'[t]) = [code |-> thread[t].code, item |-> thread[t].item, form |-> thread[t].form,
                                   done |-> done]
        BY <4>1, <4>5, Zenon
      <4>7. [AskedOf(thread[t]) EXCEPT !.done = done] = AskedOf(thread'[t])
        <5>1. PICK x, y, z : x = thread[t].code /\ y = thread[t].item /\ z = thread[t].form
          OBVIOUS
        <5>2. PICK o, n : o = AskedOf(thread[t]) /\ n = AskedOf(thread'[t])
          OBVIOUS
        <5>3. o = [code |-> x, item |-> y, form |-> z, done |-> b]
          BY <4>4, <5>1, <5>2
        <5>4. n = [code |-> x, item |-> y, form |-> z, done |-> done]
          BY <4>6, <5>1, <5>2
        <5>5. [o EXCEPT !.done = done] = n
          BY <5>3, <5>4
        <5>6. QED  BY <5>2, <5>5
      <4>8. QED  BY <4>5, <4>7, Zenon
    <3>4. AskedNow' = [u \in Thread |-> AskedOf(thread'[u])]
      BY DEF AskedNow, AskedOf
    <3>5. AskedNow = [u \in Thread |-> AskedOf(thread[u])]
      BY AskedIs
    <3>6. \A u \in Thread : AskedOf(thread'[u]) = IF u = t THEN [AskedOf(thread[u]) EXCEPT !.done = TRUE]
                                                           ELSE AskedOf(thread[u])
      BY <3>1, <3>3
    <3> HIDE DEF AskedOf
    <3>7. QED  BY <3>4, <3>5, <3>6
  <2>15. Promise!Save(t, i)
    BY <1>1, <2>8, <2>9, <2>10, <2>11, <2>12, <2>13, <2>14
       DEF Promise!Save, SoldNow, CardsNow, ProductsNow, FormNow, AskedNow
  <2>16. QED  BY <2>4, <2>15 DEF Promise!Next
<1>7. QED  BY <1>5, <1>6

LEMMA WriteUnbarcodedCatalogue ==
  ASSUME ProductAssumption, IInv, NEW t \in Thread, WriteUnbarcoded(t)
  PROVE  Promise!Next
<1> DEFINE i == thread[t].item
           gone == i # None /\ (inventory[i] = None \/ \E c \in Code : ItemOf(barcodes[c]) = i)
<1>1. /\ thread[t] \in Request /\ Reads(thread[t]) /\ thread \in [Thread -> Request] /\ loose' = loose
      /\ thread[t].pc = "write" /\ thread[t].code = None
      /\ inventory \in [Item -> ProductRow \cup {None}]
  BY RequestFields DEF WriteUnbarcoded, IInv, Threads, Tables
<1>2. PICK f \in Form : f = thread[t].form
  BY <1>1 DEF Request, Reads
<1>3. CASE RollBack(t)
  BY <1>1, <1>3, TablesUnchanged, EndCatalogue DEF RollBack
<1>4. CASE ~ RollBack(t)
  <2>1. ~ gone /\ barcodes' = barcodes /\ thread' = [thread EXCEPT ![t] = Idle]
    BY <1>4 DEF WriteUnbarcoded
  <2>2. PICK j \in (IF i # None THEN {i} ELSE Fresh) : inventory' = [inventory EXCEPT ![j] = Saved(None, f)]
    BY <1>2, <1>4 DEF WriteUnbarcoded
  <2>3. /\ j \in Item
        /\ \/ i = None /\ inventory[j] = None
           \/ i = j /\ inventory[j] # None /\ \A c \in Code : ItemOf(barcodes[c]) # j
    BY <1>1, <2>1, <2>2 DEF Fresh, Request
  <2>4. /\ \A k \in Item : k # j => inventory'[k] = inventory[k]
        /\ inventory'[j] # None /\ inventory'[j].pack = f
    <3>1. inventory'[j] = Saved(None, f) /\ \A k \in Item : k # j => inventory'[k] = inventory[k]
      BY <1>1, <2>2, <2>3
    <3>2. Saved(None, f) # None /\ Saved(None, f).pack = f
      BY SavedType DEF ProductAssumption, Saved
    <3>3. QED  BY <3>1, <3>2
  <2>5. SoldNow' = SoldNow /\ CardsNow' = CardsNow
    BY <2>1 DEF SoldNow, CardsNow
  <2>6. ProductsNow' = ProductsNow \cup {j}
    BY <2>3, <2>4 DEF ProductsNow
  <2>7. FormNow' = [FormNow EXCEPT ![j] = f]
    <3>1. FormNow' = [k \in Item |-> IF inventory'[k] = None THEN None ELSE inventory'[k].pack]
      BY DEF FormNow
    <3>2. QED  BY <2>3, <2>4, <3>1 DEF FormNow
  <2>8. /\ AskedNow[t].code = None /\ AskedNow[t].item = i /\ AskedNow[t].form = f
        /\ AskedNow[t] # Promise!NoSave
    <3>1. AskedNow[t].code = None /\ AskedNow[t].item = i /\ AskedNow[t].form = f
      BY <1>1, <1>2 DEF AskedNow
    <3>2. Promise!NoSave.form = None /\ f # None
      BY DEF Promise!NoSave, ProductAssumption
    <3>3. QED  BY <3>1, <3>2
  <2>9. AskedNow' = [AskedNow EXCEPT ![t] = Promise!NoSave]
    <3>1. AskedNow' = [u \in Thread |-> AskedOf(thread'[u])]
      BY DEF AskedNow, AskedOf
    <3>2. \A u \in Thread : AskedOf(thread'[u]) = IF u = t THEN Promise!NoSave ELSE AskedOf(thread[u])
      BY <1>1, <2>1, IdleAsks
    <3>3. QED  BY <3>1, <3>2, AskedIs
  <2>10. \/ AskedNow[t].item = None /\ j \notin ProductsNow
         \/ AskedNow[t].item = j /\ j \in ProductsNow /\ \A c \in Code : SoldNow[c] # j
    BY <2>3, <2>8 DEF ProductsNow, SoldNow
  <2>11. Promise!SaveUncoded(t, j)
    BY <1>1, <2>5, <2>6, <2>7, <2>8, <2>9, <2>10
       DEF Promise!SaveUncoded, SoldNow, CardsNow, ProductsNow, FormNow, AskedNow
  <2>12. QED  BY <2>3, <2>11 DEF Promise!Next
<1>5. QED  BY <1>3, <1>4

LEMMA CreateInfoCatalogue ==
  ASSUME ProductAssumption, IInv, NEW c \in Code, CreateInfo(c)
  PROVE  Promise!Next
<1> DEFINE new == [made |-> c, pack |-> None, cents |-> SetPrice, whole |-> None]
           row(i) == [item |-> i, card |-> FALSE]
<1>1. PICK i \in Fresh : inventory' = [inventory EXCEPT ![i] = new]
                         /\ barcodes' = [barcodes EXCEPT ![c] = row(i)]
  BY DEF CreateInfo
<1>2. /\ i \in Item /\ inventory[i] = None /\ barcodes[c] = None /\ thread' = thread
      /\ loose' = loose \cup {d \in Code : Alike(c, d)}
      /\ barcodes \in [Code -> BarcodeRow \cup {None}] /\ inventory \in [Item -> ProductRow \cup {None}]
  BY DEF Fresh, CreateInfo, IInv, Tables
<1>3. /\ inventory'[i] # None /\ inventory'[i].pack = None
      /\ \A j \in Item : j # i => inventory'[j] = inventory[j]
  <2>1. SetPrice \in Amount
    BY DEF Amount
  <2>2. new \in ProductRow /\ new.pack = None
    BY <2>1 DEF ProductRow
  <2>3. new # None
    BY <2>2 DEF ProductAssumption
  <2> HIDE DEF new
  <2>4. QED  BY <1>1, <1>2, <2>2, <2>3
<1>4. /\ barcodes'[c] # None /\ ItemOf(barcodes'[c]) = i /\ ~ barcodes'[c].card
      /\ \A d \in Code : d # c => barcodes'[d] = barcodes[d]
  <2>1. row(i) \in BarcodeRow /\ row(i).item = i /\ ~ row(i).card
    BY <1>2 DEF BarcodeRow
  <2>2. row(i) # None
    BY <2>1 DEF ProductAssumption
  <2> HIDE DEF row
  <2>3. QED  BY <1>1, <1>2, <2>1, <2>2 DEF ItemOf
<1>5. SoldNow' = [SoldNow EXCEPT ![c] = i]
  <2>1. SoldNow' = [d \in Code |-> ItemOf(barcodes'[d])]
    BY DEF SoldNow, ItemOf
  <2>2. \A d \in Code : ItemOf(barcodes'[d]) = IF d = c THEN i ELSE ItemOf(barcodes[d])
    BY <1>4
  <2>3. SoldNow = [d \in Code |-> ItemOf(barcodes[d])]
    BY DEF SoldNow
  <2>4. QED  BY <2>1, <2>2, <2>3
<1>6. CardsNow' = CardsNow
  BY <1>2, <1>4 DEF CardsNow
<1>7. ProductsNow' = ProductsNow \cup {i} /\ i \notin ProductsNow
  BY <1>2, <1>3 DEF ProductsNow
<1>8. FormNow' = FormNow
  BY <1>2, <1>3 DEF FormNow
<1>9. SoldNow[c] = None /\ c \notin CardsNow
  BY <1>2 DEF SoldNow, CardsNow, ItemOf
<1>10. loose' = loose \cup Promise!AllAlike(c)
  <2>1. \A d : Promise!Alike(c, d) <=> Alike(c, d)
    BY DEF Promise!Alike, Alike, Promise!ToSet, ToSet
  <2>2. QED  BY <1>2, <2>1 DEF Promise!AllAlike
<1>11. AskedNow' = AskedNow
  BY <1>2 DEF AskedNow
<1>12. Promise!Info(c, i)
  BY <1>5, <1>6, <1>7, <1>8, <1>9, <1>10, <1>11
     DEF Promise!Info, SoldNow, CardsNow, ProductsNow, FormNow, AskedNow
<1>13. QED  BY <1>2, <1>12 DEF Promise!Next

LEMMA AddUserCardCatalogue ==
  ASSUME ProductAssumption, IInv, NEW c \in Code, AddUserCard(c)
  PROVE  Promise!Next
<1>1. /\ barcodes[c] = None /\ UNCHANGED <<inventory, thread, loose>>
      /\ barcodes' = [barcodes EXCEPT ![c] = [item |-> None, card |-> TRUE]]
      /\ barcodes \in [Code -> BarcodeRow \cup {None}]
  BY DEF AddUserCard, IInv, Tables
<1>2. /\ barcodes'[c] # None /\ barcodes'[c].item = None /\ barcodes'[c].card
      /\ \A d \in Code : d # c => barcodes'[d] = barcodes[d]
  <2>1. [item |-> None, card |-> TRUE] \in BarcodeRow
    BY DEF BarcodeRow
  <2>2. QED  BY <1>1, <2>1 DEF ProductAssumption
<1>3. \A d \in Code : ItemOf(barcodes'[d]) = ItemOf(barcodes[d])
  BY <1>1, <1>2 DEF ItemOf
<1>4. SoldNow' = SoldNow /\ SoldNow[c] = None
  BY <1>1, <1>3 DEF SoldNow, ItemOf
<1>5. CardsNow' = CardsNow \cup {c}
  BY <1>2 DEF CardsNow
<1>6. ProductsNow' = ProductsNow /\ FormNow' = FormNow /\ AskedNow' = AskedNow
  BY <1>1 DEF ProductsNow, FormNow, AskedNow
<1>7. Promise!Register(c)
  BY <1>1, <1>4, <1>5, <1>6 DEF Promise!Register, SoldNow, CardsNow, ProductsNow, FormNow, AskedNow
<1>8. QED  BY <1>7 DEF Promise!Next

\* Prices are set, or repaired: the products there are and their forms stay.
LEMMA PricesQuietly ==
  ASSUME UNCHANGED barcodes,
         \A i \in Item : \/ inventory[i] = None /\ inventory'[i] = None
                         \/ inventory[i] # None /\ inventory'[i] # None /\ inventory'[i].pack = inventory[i].pack
  PROVE  UNCHANGED Tabled
  BY DEF Tabled, SoldNow, CardsNow, ProductsNow, FormNow

LEMMA UpdateInfoCatalogue ==
  ASSUME ProductAssumption, IInv, NEW i \in Item, UpdateInfo(i)
  PROVE  UNCHANGED Promise!vars
<1>1. /\ UNCHANGED <<barcodes, thread, loose>> /\ inventory[i] # None
      /\ inventory' = [inventory EXCEPT ![i] = [inventory[i] EXCEPT !.cents = SetPrice]]
      /\ inventory \in [Item -> ProductRow \cup {None}]
  BY DEF UpdateInfo, IInv, Tables
<1>2. PICK new : new = [inventory[i] EXCEPT !.cents = SetPrice]
  OBVIOUS
<1>3. new \in ProductRow /\ new.pack = inventory[i].pack
  BY <1>1, <1>2 DEF ProductRow, Amount
<1>4. \A j \in Item : \/ inventory[j] = None /\ inventory'[j] = None
                      \/ inventory[j] # None /\ inventory'[j] # None /\ inventory'[j].pack = inventory[j].pack
  BY <1>1, <1>2, <1>3 DEF ProductAssumption
<1>5. UNCHANGED Tabled
  BY <1>1, <1>4, PricesQuietly
<1>6. AskedNow' = AskedNow
  BY <1>1 DEF AskedNow
<1>7. QED  BY <1>1, <1>5, <1>6 DEF Promise!vars, Tabled, SoldNow, CardsNow, ProductsNow, FormNow, AskedNow

LEMMA ApplyInvoiceCatalogue ==
  ASSUME ProductAssumption, IInv, NEW i \in Item, NEW f \in Form, ApplyInvoice(i, f)
  PROVE  Promise!Next
<1>1. /\ UNCHANGED <<barcodes, thread, loose>> /\ inventory[i] # None
      /\ \A j \in Item : j # i => inventory'[j] = inventory[j]
      /\ inventory'[i] # None /\ inventory'[i].pack = f
  BY InvoiceRow DEF ApplyInvoice
<1>2. SoldNow' = SoldNow /\ CardsNow' = CardsNow /\ AskedNow' = AskedNow
  BY <1>1 DEF SoldNow, CardsNow, AskedNow
<1>3. ProductsNow' = ProductsNow /\ i \in ProductsNow
  BY <1>1 DEF ProductsNow
<1>4. FormNow' = [FormNow EXCEPT ![i] = f]
  BY <1>1 DEF FormNow
<1>5. Promise!Reprice(i, f)
  BY <1>1, <1>2, <1>3, <1>4 DEF Promise!Reprice, SoldNow, CardsNow, ProductsNow, FormNow, AskedNow
<1>6. QED  BY <1>5 DEF Promise!Next

LEMMA RestartCatalogue ==
  ASSUME ProductAssumption, IInv, Restart
  PROVE  Promise!Next
<1>1. /\ UNCHANGED <<barcodes, loose>> /\ \A u \in Thread : thread'[u] = Idle
      /\ \A j \in Item : inventory'[j] = IF inventory[j] = None THEN None ELSE RepairedWhole(inventory[j])
      /\ inventory \in [Item -> ProductRow \cup {None}]
  BY DEF Restart, IInv, Tables
<1>2. ASSUME NEW j \in Item, inventory[j] # None
      PROVE  inventory'[j] # None /\ inventory'[j].pack = inventory[j].pack
  <2>1. inventory[j] \in ProductRow
    BY <1>1, <1>2
  <2>2. inventory'[j] = inventory[j] \/ inventory'[j] = [inventory[j] EXCEPT !.whole = inventory[j].cents]
    BY <1>1, <1>2 DEF RepairedWhole
  <2>3. inventory'[j] \in ProductRow /\ inventory'[j].pack = inventory[j].pack
    BY <2>1, <2>2 DEF ProductRow
  <2>4. QED  BY <2>3 DEF ProductAssumption
<1>3. UNCHANGED Tabled
  BY <1>1, <1>2, PricesQuietly
<1>4. \A u \in Thread : thread'[u] = IF u \in Thread THEN Idle ELSE thread[u]
  BY <1>1
<1>5. QED  BY <1>1, <1>3, <1>4, EndsQuietly

LEMMA NextCatalogue ==
  ASSUME ProductAssumption, IInv, JInv, MInv, [Next]_vars
  PROVE  [Promise!Next]_(Promise!vars)
<1>1. CASE UNCHANGED vars
  BY <1>1 DEF vars, Promise!vars
<1>2. ASSUME NEW t \in Thread, ReadBack(t)  PROVE Promise!Next
  BY <1>2, TablesUnchanged, EndCatalogue DEF ReadBack
<1>3. CASE Next
  BY <1>2, <1>3, BeginCatalogue, ReadCatalogue, WriteCatalogue, WriteUnbarcodedCatalogue, CreateInfoCatalogue,
     UpdateInfoCatalogue, ApplyInvoiceCatalogue, AddUserCardCatalogue, RestartCatalogue DEF Next
<1>4. QED  BY <1>1, <1>3

-----------------------------------------------------------------------------
(* Theorems *)

\* The inductive invariants hold in every reachable state.
THEOREM Inductive == ASSUME ProductAssumption PROVE Spec => [](IInv /\ JInv)
<1>1. Init => IInv /\ JInv
  BY InitInvariant, InitKnows
<1>2. IInv /\ JInv /\ [Next]_vars => (IInv /\ JInv)'
  BY NextInvariant, NextKnows
<1>3. QED  BY <1>1, <1>2, PTL DEF Spec

\* The tables and the requests keep their types; a row's product is there.
THEOREM TypeCorrect == ASSUME ProductAssumption PROVE Spec => []TypeOK
<1>1. IInv => TypeOK
  BY DEF IInv, Tables, Threads, Request, TypeOK
<1>2. QED  BY <1>1, Inductive, PTL

\* A product made for a barcode keeps it, however many saves, cards and restarts
\* come between the look at the table and the transaction.
THEOREM NoneIsOrphaned == ASSUME ProductAssumption PROVE Spec => []NoOrphan
<1>1. IInv => NoOrphan
  BY DEF IInv
<1>2. QED  BY <1>1, Inductive, PTL

\* The price that was entered is never replaced by one derived from it, in
\* either server, however often they restart.
THEOREM PackStaysKept == ASSUME ProductAssumption PROVE Spec => []PackIsKept
<1>1. IInv => PackIsKept
  BY DEF IInv
<1>2. QED  BY <1>1, Inductive, PTL

\* What was saved is found under its code when it is read back, and unless a
\* save of the same product overlapped it is as it was entered.
THEOREM SavedIsScanned == ASSUME ProductAssumption PROVE Spec => []SavedCanBeScanned
<1>1. ASSUME ProductAssumption, IInv, JInv, NEW t \in Thread, thread[t].pc = "readback"
      PROVE  LET i == ItemOf(FindBarcodeRow(thread[t].code))
             IN  /\ i # None
                 /\ \/ thread[t].code \in loose \/ i \in Repriced
                    \/ inventory[i].pack = thread[t].form
  <2>1. /\ thread[t].code \in Code /\ ItemOf(barcodes[thread[t].code]) # None
        /\ \/ thread[t].code \in loose \/ ItemOf(barcodes[thread[t].code]) \in Repriced
           \/ inventory[ItemOf(barcodes[thread[t].code])].pack = thread[t].form
    BY <1>1, RequestFields DEF JInv, Knows, Request
  <2>2. barcodes[thread[t].code] # None
    BY <2>1 DEF ItemOf
  <2>3. FindBarcodeRow(thread[t].code) = barcodes[thread[t].code]
    BY <2>1, <2>2, FoundIsCandidate
  <2>4. QED  BY <2>1, <2>3
<1>2. ASSUME ProductAssumption PROVE IInv /\ JInv => SavedCanBeScanned
  BY <1>1, <1>2 DEF SavedCanBeScanned
<1>3. QED  BY <1>2, Inductive, PTL

\* The spellings of one barcode lead to one product unless their saves overlapped,
\* though each save looks for the other's row outside its transaction.
THEOREM SpellingsAreOne == ASSUME ProductAssumption PROVE Spec => []OneProduct
<1>1. JInv => OneProduct
  BY DEF JInv
<1>2. QED  BY <1>1, Inductive, PTL

\* The audit log of admin-web tells the price of each product it tells of: the
\* whole price is that of its last entry, and the unit price too, or update_info
\* has set another.
THEOREM AuditTells == ASSUME ProductAssumption PROVE Spec => []AuditTellsRow
<1>1. ASSUME ProductAssumption, IInv, JInv, app = "admin", NEW k \in DOMAIN audit, NEW row,
             row = inventory[audit[k].item]
      PROVE  /\ row # None
             /\ LastAudit(k) => /\ row.whole = <<"whole", audit[k].after>>
                                /\ row.cents \in {<<"unit", audit[k].after>>, SetPrice}
  <2>1. audit[k] \in Entry
    BY <1>1 DEF JInv, AuditInv
  <2>2. audit[k].item \in Item /\ audit[k].after \in Form /\ audit[k].after # None
    BY <1>1, <2>1 DEF Entry, ProductAssumption
  <2>3. row # None /\ (LastAudit(k) => row.pack = audit[k].after)
    BY <1>1 DEF JInv, AuditInv
  <2>4. ASSUME LastAudit(k)
        PROVE  row.whole = <<"whole", audit[k].after>> /\ row.cents \in {<<"unit", audit[k].after>>, SetPrice}
    BY <1>1, <2>2, <2>3, <2>4 DEF IInv, PackIsKept, Saved
  <2>5. QED  BY <2>3, <2>4
<1>2. ASSUME ProductAssumption  PROVE IInv /\ JInv => AuditTellsRow
  BY <1>1, <1>2 DEF AuditTellsRow
<1>3. QED  BY <1>2, Inductive, PTL

\* A save that looks its code up outside its transaction is seen as if the look
\* and the write were one step (Catalogue.tla), but where the code is loose: what
\* was read is still so (MInv), or the unique index undoes the save.
THEOREM SavesAreOneStep == ASSUME ProductAssumption PROVE Spec => ImplementsCatalogue
<1>1. Init => MInv
  <2>1. Init => \A t \in Thread : thread[t] = Idle
    BY DEF Init
  <2>2. QED  BY <2>1, IdleMatches DEF MInv
<1>2. Init => IInv /\ JInv
  BY InitInvariant, InitKnows
<1>3. IInv /\ JInv /\ MInv /\ [Next]_vars => (IInv /\ JInv /\ MInv)'
  BY NextInvariant, NextKnows, NextMatches
<1>4. Spec => [](IInv /\ JInv /\ MInv)
  BY <1>1, <1>2, <1>3, PTL DEF Spec
<1>5. Init => Promise!Init
  BY InitCatalogue
<1>6. IInv /\ JInv /\ MInv /\ [Next]_vars => [Promise!Next]_(Promise!vars)
  BY NextCatalogue
<1>7. QED  BY <1>4, <1>5, <1>6, PTL DEF Spec, ImplementsCatalogue, Promise!Spec
=============================================================================
