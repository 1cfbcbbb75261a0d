------------------------ MODULE InvoiceImport_proofs ------------------------
(***************************************************************************)
(* Theorems about InvoiceImport for any number of previews, lines, items,  *)
(* rows and units, and any number of edits and applications on their way.  *)
(***************************************************************************)
EXTENDS InvoiceImport, SequenceTheorems, TLAPS

-----------------------------------------------------------------------------
(* The changes of an update *)

LEMMA UpdateType ==
  ASSUME NEW u \in Updates
  PROVE  /\ DOMAIN u \subseteq Line
         /\ \A l \in DOMAIN u : /\ u[l].items \subseteq Item
                                /\ u[l].count \in Count
<1>1. PICK L \in SUBSET Line : u \in [L -> [items : SUBSET Item, count : Count]]
  BY DEF Updates
<1>2. QED  BY <1>1

LEMMA InUpdates ==
  ASSUME NEW L \in SUBSET Line, NEW u \in [L -> [items : SUBSET Item, count : Count]]
  PROVE  u \in Updates
BY DEF Updates

LEMMA ProposalsMember ==
  ASSUME NEW table, NEW p, NEW u, NEW x
  PROVE  x \in Proposals(table, p, u) <=>
           \E l \in DOMAIN u : \E i \in u[l].items :
               x = [item |-> i, before |-> table[i], after |-> <<p, l, u[l].count>>]
BY DEF Proposals

LEMMA ProposalsType ==
  ASSUME NEW table \in [Item -> CatalogRow], NEW p \in Preview, NEW u \in Updates
  PROVE  Proposals(table, p, u) \subseteq Change
<1>1. SUFFICES ASSUME NEW l \in DOMAIN u, NEW i \in u[l].items
               PROVE  [item |-> i, before |-> table[i], after |-> <<p, l, u[l].count>>] \in Change
  BY ProposalsMember
<1>2. l \in Line /\ i \in Item /\ u[l].count \in Count
  BY UpdateType
<1>3. <<p, l, u[l].count>> \in Price
  BY <1>2 DEF Price
<1>4. QED  BY <1>2, <1>3 DEF Change

\* Acceptable updates do to the catalogue what they do to the snapshot.
LEMMA AcceptableIsExpected ==
  ASSUME NEW p, NEW u, Acceptable(p, u)
  PROVE  Proposals(catalog, p, u) = Expected(p, u)
<1>1. \A l \in DOMAIN u : \A i \in u[l].items : catalog[i] = preview[p].snapshot[i]
  BY DEF Acceptable
<1> DEFINE snap == preview[p].snapshot
<1>2. SUFFICES ASSUME NEW x
               PROVE  x \in Proposals(catalog, p, u) <=> x \in Proposals(snap, p, u)
  <2>1. \A S, T : (\A x : x \in S <=> x \in T) => S = T
    OBVIOUS
  <2>2. Proposals(catalog, p, u) = Proposals(snap, p, u)
    BY <1>2, <2>1
  <2>3. QED  BY <2>2 DEF Expected
<1>4. /\ x \in Proposals(catalog, p, u) <=>
           \E l \in DOMAIN u : \E i \in u[l].items :
               x = [item |-> i, before |-> catalog[i], after |-> <<p, l, u[l].count>>]
      /\ x \in Proposals(snap, p, u) <=>
           \E l \in DOMAIN u : \E i \in u[l].items :
               x = [item |-> i, before |-> snap[i], after |-> <<p, l, u[l].count>>]
  BY ProposalsMember
<1>5. QED  BY <1>1, <1>4

-----------------------------------------------------------------------------
(* Rows of the form *)

LEMMA RecalculatedRow ==
  ASSUME NEW row \in RowType, NEW n \in Count \cup {0}, row.version < MaxVersion
  PROVE  /\ Recalculated(row, n) \in RowType
         /\ Recalculated(row, n).units = n
         /\ Recalculated(row, n).price = None
         /\ Recalculated(row, n).timer = (n # 0)
         /\ Recalculated(row, n).version = row.version + 1
<1> DEFINE due == n # 0
<1>1. row.version + 1 \in 0 .. MaxVersion
  BY InvoiceAssumption DEF RowType
<1>2. due \in BOOLEAN
  OBVIOUS
<1>3. Recalculated(row, n) = [row EXCEPT !.units = n, !.price = None, !.calculating = due,
                                         !.timer = due, !.version = row.version + 1]
  BY DEF Recalculated
<1>4. /\ Recalculated(row, n).units = n
      /\ Recalculated(row, n).price = None
      /\ Recalculated(row, n).version = row.version + 1
  BY DEF Recalculated, RowType
<1>5. Recalculated(row, n).timer = (n # 0)
  BY DEF Recalculated, RowType
<1>6. Recalculated(row, n) \in RowType
  <2> HIDE DEF due
  <2>1. QED  BY <1>1, <1>2, <1>3 DEF RowType
<1>7. QED  BY <1>4, <1>5, <1>6

LEMMA EmptyRowType ==
  /\ EmptyRow \in RowType
  /\ EmptyRow.price = None /\ EmptyRow.timer = FALSE /\ EmptyRow.units = 0
<1>1. 0 \in 0 .. MaxVersion
  BY InvoiceAssumption
<1>2. EmptyRow \in RowType
  BY <1>1 DEF EmptyRow, RowType
<1>3. QED  BY <1>2 DEF EmptyRow

LEMMA RenderedRow ==
  ASSUME NEW a, a.preview \in Preview, a.items \in [Line -> SUBSET Item],
         a.units \in [Line -> Count \cup {0}]
  PROVE  /\ Rendered(a) \in [Line -> RowType]
         /\ \A l \in Line : /\ Rendered(a)[l].units = a.units[l]
                            /\ Rendered(a)[l].timer = FALSE
                            /\ Rendered(a)[l].price # None =>
                                   Rendered(a)[l].price = <<a.preview, l, a.units[l]>>
<1> DEFINE price(l) == IF a.units[l] = 0 THEN None ELSE <<a.preview, l, a.units[l]>>
           row(l) == [EmptyRow EXCEPT !.items = a.items[l], !.units = a.units[l], !.price = price(l)]
<1>1. ASSUME NEW l \in Line
      PROVE  /\ row(l) \in RowType
             /\ row(l).units = a.units[l]
             /\ row(l).timer = FALSE
             /\ row(l).price # None => row(l).price = <<a.preview, l, a.units[l]>>
  <2>1. a.items[l] \in SUBSET Item /\ a.units[l] \in Count \cup {0}
    OBVIOUS
  <2>2. price(l) \in Price \cup {None}
    BY <2>1 DEF Price
  <2>3. price(l) # None => price(l) = <<a.preview, l, a.units[l]>>
    OBVIOUS
  <2> HIDE DEF price
  <2>4. /\ row(l).units = a.units[l]
        /\ row(l).timer = FALSE
        /\ row(l).price = price(l)
    BY DEF EmptyRow
  <2>5. EmptyRow \in RowType
    BY EmptyRowType
  <2>6. row(l) \in RowType
    BY <2>1, <2>2, <2>5 DEF RowType
  <2>7. QED  BY <2>3, <2>4, <2>6
<1>2. Rendered(a) = [l \in Line |-> row(l)]
  BY DEF Rendered
<1> HIDE DEF row
<1>3. QED  BY <1>1, <1>2

\* Units typed into a row clear its price and make its requests old.
LEMMA RowRecalculated ==
  ASSUME TypeOK, CallsOK, PriceIsOfUnits, PricesInOrder, page.view = "matching",
         NEW l \in Line, NEW row \in RowType, row.version = rows[l].version,
         rows[l].version < MaxVersion, NEW n \in Count \cup {0},
         rows' = [rows EXCEPT ![l] = Recalculated(row, n)],
         UNCHANGED <<page, upload, prices>>
  PROVE  /\ rows' \in [Line -> RowType]
         /\ PriceIsOfUnits'
         /\ PricesInOrder'
<1> DEFINE new == Recalculated(row, n)
<1>1. /\ new \in RowType
      /\ new.units = n
      /\ new.price = None
      /\ new.timer = (n # 0)
      /\ new.version = rows[l].version + 1
  BY RecalculatedRow
<1> HIDE DEF new
<1>2. /\ rows \in [Line -> RowType]
      /\ rows' \in [Line -> RowType]
      /\ rows'[l] = new
      /\ \A k \in Line : k # l => rows'[k] = rows[k]
  BY <1>1 DEF TypeOK, new
<1>3. PriceIsOfUnits'
  BY <1>1, <1>2 DEF PriceIsOfUnits
<1>4. PricesInOrder'
  <2>1. \A k \in DOMAIN rows' : rows'[k].timer => page'.preview # None /\ rows'[k].units # 0
    BY <1>1, <1>2 DEF PricesInOrder, TypeOK
  <2>2. ASSUME NEW c \in prices', c.preview = page'.preview
        PROVE  /\ c.version <= rows'[c.line].version
               /\ c.version = rows'[c.line].version => c.count = rows'[c.line].units
    <3>1. c.line \in Line /\ c.version \in Nat /\ rows[c.line].version \in Nat
      BY <1>2, InvoiceAssumption DEF CallsOK, PricesOK, RowType
    <3>2. /\ c.version <= rows[c.line].version
          /\ c.version = rows[c.line].version => c.count = rows[c.line].units
      BY <2>2 DEF PricesInOrder
    <3>3. CASE c.line = l
      BY <1>1, <1>2, <3>1, <3>2, <3>3
    <3>4. CASE c.line # l
      BY <1>2, <3>1, <3>2, <3>4
    <3>5. QED  BY <3>3, <3>4
  <2>3. QED  BY <2>1, <2>2 DEF PricesInOrder
<1>5. QED  BY <1>2, <1>3, <1>4

-----------------------------------------------------------------------------
(* The initial states *)

LEMMA InitInvariant == Init => IInv
<1> SUFFICES ASSUME Init PROVE IInv
  OBVIOUS
<1> USE DEF Init
<1>2. TypeOK
  <2>1. preview \in [Preview -> PreviewType]
    BY DEF PreviewType, NoPreview
  <2>2. page \in PageType /\ page.view = "upload"
    BY DEF PageType
  <2>3. rows \in [Line -> RowType]
    BY EmptyRowType
  <2>4. catalog \in [Item -> CatalogRow]
    BY DEF CatalogRow
  <2>5. QED  BY <2>1, <2>2, <2>3, <2>4, InvoiceAssumption DEF TypeOK
<1>3. CallsOK
  <2>1. UploadOK
    BY DEF UploadOK, NoUpload, Status
  <2>2. ReviewOK
    BY DEF ReviewOK, NoReview, Status
  <2>3. ApplyOK
    BY DEF ApplyOK, NoApply, Status
  <2>4. QED  BY <2>1, <2>2, <2>3 DEF CallsOK, PricesOK
<1>4. AppliedOnce /\ AppliedIsMarked /\ AppliedIsShown
  BY DEF AppliedOnce, AppliedIsMarked, AppliedIsShown
<1>5. ShownIsExpected /\ PriceIsOfUnits /\ PricesInOrder
  BY DEF ShownIsExpected, PriceIsOfUnits, PricesInOrder, NoUpload, NoReview, NoApply, EmptyRow
<1>6. QED  BY <1>2, <1>3, <1>4, <1>5 DEF IInv

-----------------------------------------------------------------------------
(* What a step leaves alone *)

LEMMA AuditSame ==
  ASSUME AppliedOnce, AppliedIsMarked, AppliedIsShown, UNCHANGED <<audit, preview>>
  PROVE  AppliedOnce' /\ AppliedIsMarked' /\ AppliedIsShown'
BY DEF AppliedOnce, AppliedIsMarked, AppliedIsShown

LEMMA AuditPreview ==
  ASSUME TypeOK, NEW i \in DOMAIN audit
  PROVE  audit[i].preview \in Preview
<1> DEFINE entry == [preview : Preview, changes : SUBSET Change, shown : SUBSET Change, mixed : BOOLEAN]
<1>1. audit \in Seq(entry)
  BY DEF TypeOK
<1> HIDE DEF entry
<1>2. audit[i] \in entry
  BY <1>1
<1>3. QED  BY <1>2 DEF entry

LEMMA CallsSame ==
  ASSUME UNCHANGED preview
  PROVE  /\ UploadOK /\ UNCHANGED upload => UploadOK'
         /\ ReviewOK /\ UNCHANGED <<page, review>> => ReviewOK'
         /\ ApplyOK /\ UNCHANGED apply => ApplyOK'
         /\ PricesOK /\ UNCHANGED prices => PricesOK'
BY DEF UploadOK, ReviewOK, ApplyOK, PricesOK, Stored

LEMMA PageSame ==
  ASSUME UNCHANGED <<preview, page>>, page.preview # None => Stored(page.preview)
  PROVE  (page.preview # None => Stored(page.preview))'
BY DEF Stored

\* Requests and answers leave the server, the page and its rows alone.
LEMMA TypesSame ==
  ASSUME TypeOK, UNCHANGED <<server, page, rows>>
  PROVE  TypeOK'
BY DEF TypeOK, server

-----------------------------------------------------------------------------
(* The steps of the user *)

LEMMA UploadStep ==
  ASSUME IInv, Upload
  PROVE  IInv'
<1> USE DEF Upload, server, calls
<1>1. TypeOK'
  BY TypesSame DEF IInv
<1>2. CallsOK'
  <2>1. UploadOK'
    BY DEF UploadOK, NoUpload, Status
  <2>2. QED  BY <2>1, CallsSame, PageSame DEF IInv, CallsOK
<1>3. AppliedOnce' /\ AppliedIsMarked' /\ AppliedIsShown'
  BY AuditSame DEF IInv
<1>4. ShownIsExpected'
  BY DEF IInv, ShownIsExpected, Expected
<1>5. PriceIsOfUnits'
  BY DEF IInv, PriceIsOfUnits
<1>6. PricesInOrder'
  <2>1. upload'.status = "sent"
    BY DEF NoUpload
  <2>2. QED  BY <2>1 DEF IInv, PricesInOrder
<1>7. QED  BY <1>1, <1>2, <1>3, <1>4, <1>5, <1>6 DEF IInv

LEMMA EnterUnitsStep ==
  ASSUME IInv, NEW l \in Line, NEW n \in Count \cup {0}, EnterUnits(l, n)
  PROVE  IInv'
<1> USE DEF EnterUnits, server, calls
<1>1. /\ rows' \in [Line -> RowType]
      /\ PriceIsOfUnits'
      /\ PricesInOrder'
  BY RowRecalculated DEF IInv, TypeOK
<1>2. TypeOK'
  BY <1>1 DEF IInv, TypeOK
<1>3. CallsOK'
  BY CallsSame, PageSame DEF IInv, CallsOK
<1>4. AppliedOnce' /\ AppliedIsMarked' /\ AppliedIsShown'
  BY AuditSame DEF IInv
<1>5. ShownIsExpected'
  BY DEF IInv, ShownIsExpected, Expected
<1>6. QED  BY <1>1, <1>2, <1>3, <1>4, <1>5 DEF IInv

LEMMA ToggleMatchStep ==
  ASSUME IInv, NEW l \in Line, NEW i \in Item, NEW n \in Count, ToggleMatch(l, i, n)
  PROVE  IInv'
<1> USE DEF ToggleMatch, server, calls
<1> DEFINE row == [rows[l] EXCEPT !.items = IF i \notin rows[l].items THEN @ \cup {i} ELSE @ \ {i}]
<1>1. rows \in [Line -> RowType] /\ rows[l] \in RowType
  BY DEF IInv, TypeOK
<1>2. /\ row \in RowType
      /\ row.version = rows[l].version
      /\ row.units = rows[l].units /\ row.price = rows[l].price /\ row.timer = rows[l].timer
  <2> HIDE DEF ToggleMatch
  <2>1. QED  BY <1>1 DEF RowType
<1>3. /\ page.view = "matching"
      /\ \/ row.version < MaxVersion /\ rows' = [rows EXCEPT ![l] = Recalculated(row, n)]
         \/ rows' = [rows EXCEPT ![l] = row]
  OBVIOUS
<1> HIDE DEF row
<1>4. /\ rows' \in [Line -> RowType]
      /\ PriceIsOfUnits'
      /\ PricesInOrder'
  <2>1. CASE row.version < MaxVersion /\ rows' = [rows EXCEPT ![l] = Recalculated(row, n)]
    BY <1>2, <1>3, <2>1, RowRecalculated DEF IInv
  <2>2. CASE rows' = [rows EXCEPT ![l] = row]
    <3>1. /\ rows' \in [Line -> RowType]
          /\ \A k \in Line : /\ rows'[k].version = rows[k].version
                             /\ rows'[k].units = rows[k].units
                             /\ rows'[k].price = rows[k].price
                             /\ rows'[k].timer = rows[k].timer
      BY <1>1, <1>2, <2>2
    <3>2. PriceIsOfUnits'
      BY <1>1, <3>1 DEF IInv, PriceIsOfUnits
    <3>3. PricesInOrder'
      <4>1. \A c \in prices : c.line \in Line
        BY DEF IInv, CallsOK, PricesOK
      <4>2. DOMAIN rows = Line /\ DOMAIN rows' = Line
        BY <1>1, <3>1
      <4>3. UNCHANGED <<page, upload, prices>>
        OBVIOUS
      <4> HIDE DEF ToggleMatch
      <4>4. QED  BY <3>1, <4>1, <4>2, <4>3 DEF IInv, PricesInOrder
    <3>4. QED  BY <3>1, <3>2, <3>3
  <2>3. QED  BY <1>3, <2>1, <2>2
<1>5. TypeOK'
  BY <1>4 DEF IInv, TypeOK
<1>6. CallsOK'
  BY CallsSame, PageSame DEF IInv, CallsOK
<1>7. AppliedOnce' /\ AppliedIsMarked' /\ AppliedIsShown'
  BY AuditSame DEF IInv
<1>8. ShownIsExpected'
  BY DEF IInv, ShownIsExpected, Expected
<1>9. QED  BY <1>4, <1>5, <1>6, <1>7, <1>8 DEF IInv

LEMMA CalculateTimerStep ==
  ASSUME IInv, NEW l \in Line, CalculateTimer(l)
  PROVE  IInv'
<1> USE DEF server, calls
<1> DEFINE c == [preview |-> page.preview, line |-> l, count |-> rows[l].units,
                 version |-> rows[l].version, status |-> "sent", price |-> None]
<1>1. /\ rows[l].timer
      /\ rows' = [rows EXCEPT ![l].timer = FALSE]
      /\ prices' = prices \cup {c}
      /\ UNCHANGED <<server, page, upload, review, apply>>
  <2>1. rows[l].timer
    BY DEF CalculateTimer
  <2>2. rows' = [rows EXCEPT ![l].timer = FALSE]
    BY DEF CalculateTimer
  <2>3. prices' = prices \cup {c}
    BY DEF CalculateTimer
  <2>4. UNCHANGED <<server, page, upload, review, apply>>
    BY DEF CalculateTimer
  <2>5. QED  BY <2>1, <2>2, <2>3, <2>4
<1>2. /\ rows \in [Line -> RowType] /\ rows[l] \in RowType
      /\ page.preview \in Preview /\ Stored(page.preview)
      /\ rows[l].units \in Count
  <2>1. rows \in [Line -> RowType] /\ rows[l] \in RowType
    BY DEF IInv, TypeOK
  <2>2. page.preview # None /\ rows[l].units # 0
    BY <1>1, <2>1 DEF IInv, PricesInOrder
  <2>3. rows[l].units \in Count
    BY <2>1, <2>2 DEF RowType
  <2>4. Stored(page.preview)
    BY <2>2 DEF IInv, CallsOK
  <2>5. page.preview \in Preview
    BY <2>4 DEF Stored
  <2>6. QED  BY <2>1, <2>3, <2>4, <2>5
<1>3. /\ c.preview = page.preview /\ c.line = l /\ c.count = rows[l].units
      /\ c.version = rows[l].version /\ c.price = None
      /\ c \in [preview : Preview, line : Line, count : Count, version : 0..MaxVersion,
                status : Status, price : Price \cup {None}]
  BY <1>2 DEF RowType, Status
<1> HIDE DEF c
<1>4. /\ rows' \in [Line -> RowType]
      /\ \A k \in Line : /\ rows'[k].version = rows[k].version
                         /\ rows'[k].units = rows[k].units
                         /\ rows'[k].price = rows[k].price
                         /\ rows'[k].timer => rows[k].timer
  <2>1. rows' \in [Line -> RowType]
    BY <1>1, <1>2 DEF RowType
  <2>2. \A k \in Line : /\ rows'[k].version = rows[k].version
                       /\ rows'[k].units = rows[k].units
                       /\ rows'[k].price = rows[k].price
    BY <1>1, <1>2 DEF RowType
  <2>3. \A k \in Line : rows'[k].timer => rows[k].timer
    BY <1>1, <1>2 DEF RowType
  <2>4. QED  BY <2>1, <2>2, <2>3
<1>5. TypeOK'
  BY <1>1, <1>4 DEF IInv, TypeOK
<1>6. CallsOK'
  <2>1. PricesOK'
    BY <1>1, <1>2, <1>3 DEF IInv, CallsOK, PricesOK, Stored
  <2>2. QED  BY <1>1, <2>1, CallsSame, PageSame DEF IInv, CallsOK
<1>7. AppliedOnce' /\ AppliedIsMarked' /\ AppliedIsShown'
  BY <1>1, AuditSame DEF IInv
<1>8. ShownIsExpected'
  BY <1>1 DEF IInv, ShownIsExpected, Expected
<1>9. PriceIsOfUnits'
  BY <1>1, <1>2, <1>4 DEF IInv, PriceIsOfUnits
<1>10. PricesInOrder'
  <2>1. \A d \in prices : d.line \in Line
    BY DEF IInv, CallsOK, PricesOK
  <2>2. rows[l].version \in Nat
    BY <1>2 DEF RowType
  <2>3. QED  BY <1>1, <1>2, <1>3, <1>4, <2>1, <2>2 DEF IInv, PricesInOrder
<1>11. QED  BY <1>5, <1>6, <1>7, <1>8, <1>9, <1>10 DEF IInv

LEMMA ReviewStep ==
  ASSUME IInv, NEW checked \in SUBSET Line, Review(checked)
  PROVE  IInv'
<1> USE DEF server, calls
<1> DEFINE updates == [l \in checked |-> [items |-> rows[l].items, count |-> rows[l].units]]
<1>1. /\ page.view = "matching"
      /\ \A l \in checked : rows[l].items # {} /\ rows[l].units # 0
      /\ review' = [status |-> "sent", preview |-> page.preview, proposals |-> {}, updates |-> updates]
      /\ UNCHANGED <<server, page, rows, upload, apply, prices>>
  BY DEF Review
<1>2. updates \in Updates
  <2>1. ASSUME NEW l \in checked
        PROVE  [items |-> rows[l].items, count |-> rows[l].units] \in [items : SUBSET Item, count : Count]
    BY <1>1 DEF IInv, TypeOK, RowType
  <2>2. QED  BY <2>1, InUpdates
<1> HIDE DEF updates
<1>3. page.preview \in Preview /\ Stored(page.preview)
  BY <1>1 DEF IInv, TypeOK, CallsOK, Stored
<1>4. TypeOK'
  BY <1>1, TypesSame DEF IInv
<1>5. CallsOK'
  <2>1. ReviewOK'
    BY <1>1, <1>2, <1>3 DEF ReviewOK, Stored, Status
  <2>2. QED  BY <1>1, <2>1, CallsSame, PageSame DEF IInv, CallsOK
<1>6. AppliedOnce' /\ AppliedIsMarked' /\ AppliedIsShown'
  BY <1>1, AuditSame DEF IInv
<1>7. ShownIsExpected'
  BY <1>1 DEF IInv, ShownIsExpected, Expected
<1>8. PriceIsOfUnits'
  BY <1>1 DEF IInv, PriceIsOfUnits
<1>9. PricesInOrder'
  BY <1>1 DEF IInv, PricesInOrder
<1>10. QED  BY <1>4, <1>5, <1>6, <1>7, <1>8, <1>9 DEF IInv

LEMMA BackStep ==
  ASSUME IInv, Back
  PROVE  IInv'
<1> USE DEF Back, server, calls
<1>1. TypeOK'
  BY DEF IInv, TypeOK, PageType
<1>2. page' \in PageType /\ page'.preview = page.preview /\ page'.mixed = page.mixed
      /\ page'.reviewed = page.reviewed /\ page'.shown = page.shown /\ page'.view = "matching"
  BY DEF IInv, TypeOK, PageType
<1>3. CallsOK'
  <2>1. ReviewOK'
    BY <1>2 DEF IInv, CallsOK, ReviewOK, Stored
  <2>2. QED  BY <1>2, <2>1, CallsSame DEF IInv, CallsOK, Stored
<1>4. AppliedOnce' /\ AppliedIsMarked' /\ AppliedIsShown'
  BY AuditSame DEF IInv
<1>5. ShownIsExpected'
  BY <1>2 DEF IInv, ShownIsExpected, Expected
<1>6. PriceIsOfUnits' /\ PricesInOrder'
  BY <1>2 DEF IInv, PriceIsOfUnits, PricesInOrder
<1>7. QED  BY <1>1, <1>3, <1>4, <1>5, <1>6 DEF IInv

LEMMA ConfirmStep ==
  ASSUME IInv, NEW s \in Slot, Confirm(s)
  PROVE  IInv'
<1> USE DEF server, calls
<1> DEFINE a == [status |-> "sent", preview |-> page.preview, updates |-> page.reviewed,
                 shown |-> page.shown, mixed |-> page.mixed]
<1>1. /\ page.view = "confirmation" /\ page.reviewed # None
      /\ apply' = [apply EXCEPT ![s] = a]
      /\ page' = [page EXCEPT !.confirm = FALSE, !.back = FALSE]
      /\ UNCHANGED <<server, rows, upload, review, prices>>
  BY DEF Confirm
<1>2. /\ page' \in PageType /\ page'.preview = page.preview /\ page'.mixed = page.mixed
      /\ page'.reviewed = page.reviewed /\ page'.shown = page.shown /\ page'.view = page.view
  BY <1>1 DEF IInv, TypeOK, PageType
<1>3. /\ Stored(page.preview) /\ page.preview \in Preview
      /\ page.reviewed \in Updates /\ page.shown \in SUBSET Change /\ page.mixed \in BOOLEAN
  <2>1. Stored(page.preview)
    BY <1>1 DEF IInv, TypeOK, CallsOK
  <2>2. QED  BY <1>1, <2>1 DEF IInv, TypeOK, PageType, Stored
<1>4. /\ a.status = "sent" /\ a.preview = page.preview /\ a.updates = page.reviewed
      /\ a.shown = page.shown /\ a.mixed = page.mixed
      /\ a \in [status : Status, preview : Preview \cup {None},
                updates : Updates \cup {None}, shown : SUBSET Change, mixed : BOOLEAN]
  BY <1>3 DEF Status
<1> HIDE DEF a
<1>5. TypeOK'
  BY <1>1, <1>2 DEF IInv, TypeOK
<1>6. CallsOK'
  <2>1. ApplyOK'
    BY <1>1, <1>3, <1>4 DEF IInv, CallsOK, ApplyOK, Stored
  <2>2. ReviewOK'
    BY <1>1, <1>2 DEF IInv, CallsOK, ReviewOK, Stored
  <2>3. QED  BY <1>1, <1>2, <2>1, <2>2, CallsSame DEF IInv, CallsOK, Stored
<1>7. AppliedOnce' /\ AppliedIsMarked' /\ AppliedIsShown'
  BY <1>1, AuditSame DEF IInv
<1>8. ShownIsExpected'
  <2>1. \A k \in Slot : apply'[k] = IF k = s THEN a ELSE apply[k]
    BY <1>1 DEF IInv, CallsOK, ApplyOK
  <2>2. \A p, u : Expected(p, u)' = Expected(p, u)
    BY <1>1 DEF Expected
  <2>3. \A k \in Slot : apply'[k].status # "idle" /\ ~apply'[k].mixed =>
           apply'[k].shown = Expected(apply'[k].preview, apply'[k].updates)
    BY <1>1, <1>4, <2>1 DEF IInv, ShownIsExpected
  <2>4. QED  BY <1>1, <1>2, <2>2, <2>3 DEF IInv, ShownIsExpected, Expected
<1>9. PriceIsOfUnits' /\ PricesInOrder'
  BY <1>1, <1>2 DEF IInv, PriceIsOfUnits, PricesInOrder
<1>10. QED  BY <1>5, <1>6, <1>7, <1>8, <1>9 DEF IInv

LEMMA ImportAnotherStep ==
  ASSUME IInv, ImportAnother
  PROVE  IInv'
<1> USE DEF server, calls
<1>1. /\ page.view = "done"
      /\ page' = [page EXCEPT !.preview = None, !.reviewed = None, !.applied = FALSE, !.view = "upload"]
      /\ rows' = [l \in Line |-> EmptyRow]
      /\ UNCHANGED <<server, calls>>
  BY DEF ImportAnother
<1>2. page' \in PageType /\ page'.preview = None /\ page'.reviewed = None /\ page'.view = "upload"
  BY <1>1 DEF IInv, TypeOK, PageType
<1>3. review.status = "idle"
  BY <1>1 DEF IInv, CallsOK, ReviewOK
<1>4. rows' \in [Line -> RowType] /\ \A l \in Line : rows'[l].price = None /\ rows'[l].timer = FALSE
  BY <1>1, EmptyRowType
<1>5. TypeOK'
  BY <1>1, <1>2, <1>4 DEF IInv, TypeOK
<1>6. CallsOK'
  <2>1. ReviewOK'
    BY <1>1, <1>3 DEF IInv, CallsOK, ReviewOK
  <2>2. QED  BY <1>1, <1>2, <2>1, CallsSame DEF IInv, CallsOK
<1>7. AppliedOnce' /\ AppliedIsMarked' /\ AppliedIsShown'
  BY <1>1, AuditSame DEF IInv
<1>8. ShownIsExpected'
  BY <1>1, <1>2, <1>3 DEF IInv, ShownIsExpected, Expected
<1>9. PriceIsOfUnits'
  BY <1>1, <1>4 DEF PriceIsOfUnits
<1>10. PricesInOrder'
  <2>1. \A c \in prices : c.preview # None
    BY InvoiceAssumption DEF IInv, CallsOK, PricesOK
  <2>2. upload.status = "ok" => upload.preview # None
    BY InvoiceAssumption DEF IInv, CallsOK, UploadOK, Stored
  <2>3. \A l \in DOMAIN rows' : ~rows'[l].timer
    BY <1>1, <1>4
  <2>4. QED  BY <1>1, <1>2, <2>1, <2>2, <2>3 DEF IInv, PricesInOrder
<1>11. QED  BY <1>5, <1>6, <1>7, <1>8, <1>9, <1>10 DEF IInv

-----------------------------------------------------------------------------
(* The answers *)

LEMMA UploadedStep ==
  ASSUME IInv, Uploaded
  PROVE  IInv'
<1> USE DEF server, calls
<1>1. upload' = NoUpload /\ UNCHANGED <<server, review, apply, prices>>
  BY DEF Uploaded
<1>2. UploadOK' /\ upload'.status = "idle"
  BY <1>1 DEF UploadOK, NoUpload, Status
<1>3. AppliedOnce' /\ AppliedIsMarked' /\ AppliedIsShown'
  BY <1>1, AuditSame DEF IInv
<1>4. CASE upload.status # "ok"
  <2>1. UNCHANGED <<page, rows>>
    BY <1>4 DEF Uploaded
  <2>2. TypeOK'
    BY <1>1, <2>1, TypesSame DEF IInv
  <2>3. CallsOK'
    BY <1>1, <1>2, <2>1, CallsSame, PageSame DEF IInv, CallsOK
  <2>4. ShownIsExpected'
    BY <1>1, <2>1 DEF IInv, ShownIsExpected, Expected
  <2>5. PriceIsOfUnits' /\ PricesInOrder'
    BY <1>1, <1>2, <2>1 DEF IInv, PriceIsOfUnits, PricesInOrder
  <2>6. QED  BY <1>3, <2>2, <2>3, <2>4, <2>5 DEF IInv
<1>5. CASE upload.status = "ok"
  <2> DEFINE busy == review.status # "idle" \/ \E s \in Slot : apply[s].status # "idle"
  <2>1. /\ page' = [page EXCEPT !.preview = upload.preview, !.reviewed = None, !.applied = FALSE,
                               !.view = "matching", !.mixed = busy]
        /\ rows' = Rendered(upload)
    BY <1>5 DEF Uploaded
  <2>2. /\ Stored(upload.preview) /\ upload.preview \in Preview
        /\ upload.items \in [Line -> SUBSET Item]
        /\ upload.units \in [Line -> Count \cup {0}]
    BY <1>5 DEF IInv, CallsOK, UploadOK, Stored
  <2>3. busy \in BOOLEAN
    OBVIOUS
  <2>4. review.status # "idle" => busy = TRUE
    OBVIOUS
  <2> HIDE DEF busy
  <2>5. /\ page' \in PageType /\ page'.preview = upload.preview /\ page'.reviewed = None
        /\ page'.view = "matching" /\ page'.mixed = busy
    BY <2>1, <2>2, <2>3 DEF IInv, TypeOK, PageType
  <2>6. /\ rows' \in [Line -> RowType]
        /\ \A l \in Line : /\ rows'[l].timer = FALSE
                           /\ rows'[l].price # None =>
                                 rows'[l].price = <<upload.preview, l, rows'[l].units>>
    BY <2>1, <2>2, RenderedRow, ZenonT(60)
  <2>7. page'.preview # None
    BY <2>2, <2>5, InvoiceAssumption
  <2>8. TypeOK'
    BY <1>1, <2>5, <2>6, <2>7 DEF IInv, TypeOK
  <2>9. CallsOK'
    <3>1. ReviewOK'
      BY <1>1, <2>5 DEF IInv, CallsOK, ReviewOK, Stored
    <3>2. Stored(page.preview)'
      BY <1>1, <2>2, <2>5 DEF Stored
    <3>3. QED  BY <1>1, <1>2, <3>1, <3>2, CallsSame DEF IInv, CallsOK
  <2>10. ShownIsExpected'
    BY <1>1, <2>4, <2>5 DEF IInv, ShownIsExpected, Expected
  <2>11. PriceIsOfUnits'
    BY <2>5, <2>6 DEF PriceIsOfUnits
  <2>12. PricesInOrder'
    <3>1. \A c \in prices : c.preview # upload.preview
      BY <1>5 DEF IInv, PricesInOrder
    <3>2. \A l \in DOMAIN rows' : ~rows'[l].timer
      BY <2>6
    <3>3. QED  BY <1>1, <1>2, <2>5, <3>1, <3>2 DEF IInv, PricesInOrder
  <2>13. QED  BY <1>3, <2>8, <2>9, <2>10, <2>11, <2>12 DEF IInv
<1>6. QED  BY <1>4, <1>5

LEMMA CalculatedStep ==
  ASSUME IInv, NEW c \in prices, Calculated(c)
  PROVE  IInv'
<1> USE DEF server, calls
<1>1. /\ rows' = IF Current(c) THEN [rows EXCEPT ![c.line].calculating = FALSE, ![c.line].price = c.price]
                               ELSE rows
      /\ prices' = prices \ {c}
      /\ UNCHANGED <<server, page, upload, review, apply>>
  BY DEF Calculated
<1>2. /\ rows \in [Line -> RowType]
      /\ c.line \in Line /\ c.price \in Price \cup {None}
      /\ \A d \in prices : d.line \in Line
  BY DEF IInv, TypeOK, CallsOK, PricesOK
<1>3. c.price # None => c.price = <<c.preview, c.line, c.count>>
  BY DEF IInv, PricesInOrder
<1>4. Current(c) => page.preview = c.preview /\ rows[c.line].units = c.count
  BY DEF IInv, PricesInOrder, Current
<1>5. /\ rows' \in [Line -> RowType]
      /\ \A l \in Line : /\ rows'[l].version = rows[l].version
                         /\ rows'[l].units = rows[l].units
                         /\ rows'[l].timer = rows[l].timer
                         /\ \/ rows'[l].price = rows[l].price
                            \/ l = c.line /\ Current(c) /\ rows'[l].price = c.price
  <2>1. CASE Current(c)
    <3>1. rows' = [rows EXCEPT ![c.line] = [[rows[c.line] EXCEPT !.calculating = FALSE] EXCEPT !.price = c.price]]
      BY <1>1, <1>2, <2>1
    <3>2. rows[c.line] \in RowType
      BY <1>2
    <3> DEFINE row == [[rows[c.line] EXCEPT !.calculating = FALSE] EXCEPT !.price = c.price]
    <3>3. row \in RowType
      BY <1>2, <3>2 DEF RowType
    <3>4. /\ row.version = rows[c.line].version /\ row.units = rows[c.line].units
          /\ row.timer = rows[c.line].timer /\ row.price = c.price
      BY <3>2 DEF RowType
    <3> HIDE DEF row
    <3>5. rows' = [rows EXCEPT ![c.line] = row]
      BY <3>1 DEF row
    <3>6. QED  BY <1>2, <2>1, <3>3, <3>4, <3>5
  <2>2. CASE ~Current(c)
    BY <1>1, <1>2, <2>2
  <2>3. QED  BY <2>1, <2>2
<1>6. TypeOK'
  BY <1>1, <1>5 DEF IInv, TypeOK
<1>7. CallsOK'
  <2>1. PricesOK'
    BY <1>1 DEF IInv, CallsOK, PricesOK, Stored
  <2>2. QED  BY <1>1, <2>1, CallsSame, PageSame DEF IInv, CallsOK
<1>8. AppliedOnce' /\ AppliedIsMarked' /\ AppliedIsShown'
  BY <1>1, AuditSame DEF IInv
<1>9. ShownIsExpected'
  BY <1>1 DEF IInv, ShownIsExpected, Expected
<1>10. PriceIsOfUnits'
  BY <1>1, <1>2, <1>3, <1>4, <1>5 DEF IInv, PriceIsOfUnits
<1>11. PricesInOrder'
  BY <1>1, <1>2, <1>5 DEF IInv, PricesInOrder
<1>12. QED  BY <1>6, <1>7, <1>8, <1>9, <1>10, <1>11 DEF IInv

LEMMA ReviewedStep ==
  ASSUME IInv, Reviewed
  PROVE  IInv'
<1> USE DEF server, calls
<1>1. review' = NoReview /\ UNCHANGED <<server, rows, upload, apply, prices>>
  BY DEF Reviewed
<1>2. ReviewOK' /\ review'.status = "idle"
  BY <1>1 DEF ReviewOK, NoReview, Status
<1>3. AppliedOnce' /\ AppliedIsMarked' /\ AppliedIsShown'
  BY <1>1, AuditSame DEF IInv
<1>4. CASE review.status # "ok"
  <2>1. UNCHANGED page
    BY <1>4 DEF Reviewed
  <2>2. TypeOK'
    BY <1>1, <2>1, TypesSame DEF IInv
  <2>3. CallsOK'
    BY <1>1, <1>2, <2>1, CallsSame, PageSame DEF IInv, CallsOK
  <2>4. ShownIsExpected'
    BY <1>1, <1>2, <2>1 DEF IInv, ShownIsExpected, Expected
  <2>5. PriceIsOfUnits' /\ PricesInOrder'
    BY <1>1, <2>1 DEF IInv, PriceIsOfUnits, PricesInOrder
  <2>6. QED  BY <1>2, <1>3, <2>2, <2>3, <2>4, <2>5 DEF IInv
<1>5. CASE review.status = "ok"
  <2>1. page' = [page EXCEPT !.reviewed = review.updates, !.shown = review.proposals,
                           !.view = "confirmation", !.confirm = TRUE]
    BY <1>5 DEF Reviewed
  <2>2. /\ page.view = "matching" /\ page.preview # None
        /\ review.updates \in Updates /\ review.proposals \in SUBSET Change
    BY <1>5 DEF IInv, TypeOK, CallsOK, ReviewOK
  <2>3. /\ page' \in PageType /\ page'.preview = page.preview /\ page'.mixed = page.mixed
        /\ page'.reviewed = review.updates /\ page'.shown = review.proposals
    BY <2>1, <2>2 DEF IInv, TypeOK, PageType
  <2>4. TypeOK'
    BY <1>1, <2>2, <2>3 DEF IInv, TypeOK
  <2>5. CallsOK'
    BY <1>1, <1>2, <2>3, CallsSame DEF IInv, CallsOK, Stored
  <2>6. ShownIsExpected'
    <3>1. ~page.mixed => review.preview = page.preview
      BY <1>5 DEF IInv, ShownIsExpected
    <3>2. review.proposals = Expected(review.preview, review.updates)
      BY <1>5 DEF IInv, ShownIsExpected
    <3>3. QED  BY <1>1, <1>2, <2>2, <2>3, <3>1, <3>2 DEF IInv, ShownIsExpected, Expected
  <2>7. PriceIsOfUnits' /\ PricesInOrder'
    BY <1>1, <2>3 DEF IInv, PriceIsOfUnits, PricesInOrder
  <2>8. QED  BY <1>2, <1>3, <2>4, <2>5, <2>6, <2>7 DEF IInv
<1>6. QED  BY <1>4, <1>5

LEMMA AppliedStep ==
  ASSUME IInv, NEW s \in Slot, Applied(s)
  PROVE  IInv'
<1> USE DEF server, calls
<1> DEFINE done == page.applied \/ apply[s].status = "ok"
           view == IF page.view = "confirmation" /\ apply[s].status = "ok" THEN "done" ELSE page.view
<1>1. /\ page' = [page EXCEPT !.confirm = TRUE, !.back = TRUE, !.applied = done, !.view = view]
      /\ apply' = [apply EXCEPT ![s] = NoApply]
      /\ UNCHANGED <<server, rows, upload, review, prices>>
  BY DEF Applied
<1>2. /\ done \in BOOLEAN
      /\ view \in {"upload", "matching", "confirmation", "done"}
      /\ view = page.view \/ (page.view = "confirmation" /\ view = "done")
  BY DEF IInv, TypeOK, PageType
<1> HIDE DEF done, view
<1>3. /\ page' \in PageType /\ page'.preview = page.preview /\ page'.mixed = page.mixed
      /\ page'.reviewed = page.reviewed /\ page'.shown = page.shown /\ page'.view = view
  BY <1>1, <1>2 DEF IInv, TypeOK, PageType
<1>4. TypeOK'
  BY <1>1, <1>2, <1>3 DEF IInv, TypeOK
<1>5. CallsOK'
  <2>1. ApplyOK'
    <3>1. /\ NoApply.status = "idle"
          /\ NoApply \in [status : Status, preview : Preview \cup {None},
                          updates : Updates \cup {None}, shown : SUBSET Change, mixed : BOOLEAN]
      BY DEF NoApply, Status
    <3>2. QED  BY <1>1, <3>1 DEF IInv, CallsOK, ApplyOK, Stored
  <2>2. ReviewOK'
    BY <1>1, <1>2, <1>3 DEF IInv, CallsOK, ReviewOK, Stored
  <2>3. QED  BY <1>1, <1>3, <2>1, <2>2, CallsSame DEF IInv, CallsOK, Stored
<1>6. AppliedOnce' /\ AppliedIsMarked' /\ AppliedIsShown'
  BY <1>1, AuditSame DEF IInv
<1>7. ShownIsExpected'
  <2>1. \A k \in Slot : apply'[k].status # "idle" => apply'[k] = apply[k]
    BY <1>1 DEF IInv, CallsOK, ApplyOK, NoApply
  <2>2. QED  BY <1>1, <1>3, <2>1 DEF IInv, ShownIsExpected, Expected
<1>8. PriceIsOfUnits' /\ PricesInOrder'
  BY <1>1, <1>3 DEF IInv, PriceIsOfUnits, PricesInOrder
<1>9. QED  BY <1>4, <1>5, <1>6, <1>7, <1>8 DEF IInv

-----------------------------------------------------------------------------
(* The server *)

LEMMA ServeCalculateStep ==
  ASSUME IInv, NEW c \in prices, ServeCalculate(c)
  PROVE  IInv'
<1> USE DEF server, calls
<1> DEFINE answer == IF Loads(c.preview) THEN [c EXCEPT !.status = "ok", !.price = <<c.preview, c.line, c.count>>]
                                         ELSE [c EXCEPT !.status = "error"]
           call == [preview : Preview, line : Line, count : Count, version : 0..MaxVersion,
                    status : Status, price : Price \cup {None}]
<1>1. /\ prices' = (prices \ {c}) \cup {answer}
      /\ UNCHANGED <<server, page, rows, upload, review, apply>>
  BY DEF ServeCalculate
<1>2. c \in call /\ Stored(c.preview)
  BY DEF IInv, CallsOK, PricesOK
<1>3. c.price # None => c.price = <<c.preview, c.line, c.count>>
  BY DEF IInv, PricesInOrder
<1>4. /\ answer \in call
      /\ answer.preview = c.preview /\ answer.line = c.line /\ answer.count = c.count
      /\ answer.version = c.version
      /\ answer.price # None => answer.price = <<c.preview, c.line, c.count>>
  <2>1. <<c.preview, c.line, c.count>> \in Price
    BY <1>2 DEF Price
  <2>2. CASE Loads(c.preview)
    BY <1>2, <2>1, <2>2 DEF Status
  <2>3. CASE ~Loads(c.preview)
    BY <1>2, <1>3, <2>3 DEF Status
  <2>4. QED  BY <2>2, <2>3
<1> HIDE DEF answer
<1>5. TypeOK'
  BY <1>1, TypesSame DEF IInv
<1>6. CallsOK'
  <2>1. PricesOK'
    BY <1>1, <1>2, <1>4 DEF IInv, CallsOK, PricesOK, Stored
  <2>2. QED  BY <1>1, <2>1, CallsSame, PageSame DEF IInv, CallsOK
<1>7. AppliedOnce' /\ AppliedIsMarked' /\ AppliedIsShown'
  BY <1>1, AuditSame DEF IInv
<1>8. ShownIsExpected'
  BY <1>1 DEF IInv, ShownIsExpected, Expected
<1>9. PriceIsOfUnits'
  BY <1>1 DEF IInv, PriceIsOfUnits
<1>10. PricesInOrder'
  BY <1>1, <1>4 DEF IInv, PricesInOrder
<1>11. QED  BY <1>5, <1>6, <1>7, <1>8, <1>9, <1>10 DEF IInv

LEMMA ServeReviewStep ==
  ASSUME IInv, ServeReview
  PROVE  IInv'
<1> USE DEF server, calls
<1> DEFINE p == review.preview
           u == review.updates
           ok == Loads(p) /\ Acceptable(p, u)
<1>1. /\ review.status = "sent"
      /\ review' = IF ok THEN [review EXCEPT !.status = "ok", !.proposals = Proposals(catalog, p, u)]
                         ELSE [review EXCEPT !.status = "error"]
      /\ UNCHANGED <<server, page, rows, upload, apply, prices>>
  BY DEF ServeReview
<1>2. /\ review \in [status : Status, preview : Preview \cup {None},
                     updates : Updates \cup {None}, proposals : SUBSET Change]
      /\ Stored(p) /\ p \in Preview /\ u \in Updates /\ page.view = "matching"
  BY <1>1 DEF IInv, CallsOK, ReviewOK, Stored
<1>3. Proposals(catalog, p, u) \in SUBSET Change
  BY <1>2, ProposalsType DEF IInv, TypeOK
<1>4. ok => Proposals(catalog, p, u) = Expected(p, u)
  BY AcceptableIsExpected
<1> HIDE DEF ok
<1>5. /\ review' \in [status : Status, preview : Preview \cup {None},
                      updates : Updates \cup {None}, proposals : SUBSET Change]
      /\ review'.preview = p /\ review'.updates = u
      /\ review'.status = "ok" => review'.proposals = Expected(p, u)
  <2>1. CASE ok
    BY <1>1, <1>2, <1>3, <1>4, <2>1 DEF Status
  <2>2. CASE ~ok
    BY <1>1, <1>2, <2>2 DEF Status
  <2>3. QED  BY <2>1, <2>2
<1>6. TypeOK'
  BY <1>1, TypesSame DEF IInv
<1>7. CallsOK'
  <2>1. ReviewOK'
    BY <1>1, <1>2, <1>5 DEF ReviewOK, Stored
  <2>2. QED  BY <1>1, <2>1, CallsSame, PageSame DEF IInv, CallsOK
<1>8. AppliedOnce' /\ AppliedIsMarked' /\ AppliedIsShown'
  BY <1>1, AuditSame DEF IInv
<1>9. ShownIsExpected'
  <2>1. ~page.mixed => p = page.preview
    BY <1>1 DEF IInv, ShownIsExpected
  <2>2. QED  BY <1>1, <1>5, <2>1 DEF IInv, ShownIsExpected, Expected
<1>10. PriceIsOfUnits'
  BY <1>1 DEF IInv, PriceIsOfUnits
<1>11. PricesInOrder'
  BY <1>1 DEF IInv, PricesInOrder
<1>12. QED  BY <1>6, <1>7, <1>8, <1>9, <1>10, <1>11 DEF IInv

\* A new preview is one that nothing was asked about.
LEMMA ServeUploadStep ==
  ASSUME IInv, NEW q \in Preview, NEW items \in [Line -> SUBSET Item],
         NEW units \in [Line -> Count \cup {0}], ServeUpload(q, items, units)
  PROVE  IInv'
<1> USE DEF server, calls
<1>1. /\ preview[q] = NoPreview
      /\ preview' = [preview EXCEPT ![q] = [state |-> "stored", snapshot |-> catalog]]
      /\ upload' = [status |-> "ok", preview |-> q, items |-> items, units |-> units]
      /\ UNCHANGED <<catalog, edits, matches, audit, page, rows, review, apply, prices>>
  BY DEF ServeUpload
<1>2. /\ preview' \in [Preview -> PreviewType]
      /\ preview'[q].state = "stored" /\ preview'[q].snapshot = catalog
      /\ \A p \in Preview : p # q => preview'[p] = preview[p]
      /\ catalog \in [Item -> CatalogRow]
  BY <1>1 DEF IInv, TypeOK, PreviewType
<1>3. ~Stored(q)
  BY <1>1 DEF Stored, NoPreview
<1>4. \A p : Stored(p) => p \in Preview /\ p # q /\ Stored(p)'
  BY <1>2, <1>3 DEF Stored
<1>5. Stored(q)'
  BY <1>1, <1>2 DEF Stored
<1>6. TypeOK'
  BY <1>1, <1>2 DEF IInv, TypeOK
<1>7. CallsOK'
  <2>1. UploadOK'
    BY <1>1, <1>5 DEF UploadOK, Status
  <2>2. ReviewOK'
    BY <1>1, <1>4 DEF IInv, CallsOK, ReviewOK
  <2>3. ApplyOK'
    BY <1>1, <1>4 DEF IInv, CallsOK, ApplyOK
  <2>4. PricesOK'
    BY <1>1, <1>4 DEF IInv, CallsOK, PricesOK
  <2>5. QED  BY <1>1, <1>4, <2>1, <2>2, <2>3, <2>4 DEF IInv, CallsOK
<1>8. AppliedOnce' /\ AppliedIsShown'
  BY <1>1 DEF IInv, AppliedOnce, AppliedIsShown
<1>9. AppliedIsMarked'
  <2>1. ASSUME NEW i \in DOMAIN audit
        PROVE  preview'[audit[i].preview].state \in {"applied", "expired"}
    <3>1. preview[audit[i].preview].state \in {"applied", "expired"} /\ audit[i].preview \in Preview
      BY AuditPreview DEF IInv, AppliedIsMarked
    <3>2. audit[i].preview # q
      BY <1>1, <3>1 DEF NoPreview
    <3>3. QED  BY <1>2, <3>1, <3>2
  <2>2. QED  BY <1>1, <2>1 DEF AppliedIsMarked
<1>10. ShownIsExpected'
  <2>1. review.status = "ok" => Stored(review.preview)
    BY DEF IInv, CallsOK, ReviewOK
  <2>2. page.preview # None => Stored(page.preview)
    BY DEF IInv, CallsOK
  <2>3. \A s \in Slot : apply[s].status # "idle" => Stored(apply[s].preview)
    BY DEF IInv, CallsOK, ApplyOK
  <2>4. (review.status = "ok" => review.proposals = Expected(review.preview, review.updates))'
    <3>1. SUFFICES ASSUME review.status = "ok"
                   PROVE  review.proposals = Expected(review.preview, review.updates)'
      BY <1>1
    <3>2. review.proposals = Proposals(preview[review.preview].snapshot, review.preview, review.updates)
      BY <3>1 DEF IInv, ShownIsExpected, Expected
    <3>3. preview'[review.preview] = preview[review.preview]
      BY <1>2, <1>4, <2>1, <3>1
    <3>4. QED  BY <1>1, <3>2, <3>3 DEF Expected
  <2>5. (~page.mixed /\ review.status # "idle" => review.preview = page.preview)'
    BY <1>1 DEF IInv, ShownIsExpected
  <2>6. (~page.mixed /\ page.reviewed # None =>
            page.preview # None /\ page.shown = Expected(page.preview, page.reviewed))'
    <3>1. SUFFICES ASSUME ~page.mixed, page.reviewed # None
                   PROVE  page.preview # None /\ page.shown = Expected(page.preview, page.reviewed)'
      BY <1>1
    <3>2. /\ page.preview # None
          /\ page.shown = Proposals(preview[page.preview].snapshot, page.preview, page.reviewed)
      BY <3>1 DEF IInv, ShownIsExpected, Expected
    <3>3. preview'[page.preview] = preview[page.preview]
      BY <1>2, <1>4, <2>2, <3>2
    <3>4. QED  BY <1>1, <3>2, <3>3 DEF Expected
  <2>7. ASSUME NEW s \in Slot, apply[s].status # "idle", ~apply[s].mixed
        PROVE  apply[s].shown = Expected(apply[s].preview, apply[s].updates)'
    <3>1. apply[s].shown = Proposals(preview[apply[s].preview].snapshot, apply[s].preview, apply[s].updates)
      BY <2>7 DEF IInv, ShownIsExpected, Expected
    <3>2. preview'[apply[s].preview] = preview[apply[s].preview]
      BY <1>2, <1>4, <2>3, <2>7
    <3>3. QED  BY <1>1, <3>1, <3>2 DEF Expected
  <2>8. QED  BY <1>1, <2>4, <2>5, <2>6, <2>7 DEF ShownIsExpected
<1>11. PriceIsOfUnits'
  BY <1>1 DEF IInv, PriceIsOfUnits
<1>12. PricesInOrder'
  <2>1. \A c \in prices : c.preview # q
    BY <1>4 DEF IInv, CallsOK, PricesOK
  <2>2. page.preview # q
    BY <1>4, InvoiceAssumption DEF IInv, CallsOK
  <2>3. QED  BY <1>1, <2>1, <2>2 DEF IInv, PricesInOrder
<1>13. QED  BY <1>6, <1>7, <1>8, <1>9, <1>10, <1>11, <1>12 DEF IInv
LEMMA ServeApplyStep ==
  ASSUME IInv, NEW s \in Slot, ServeApply(s)
  PROVE  IInv'
<1> USE DEF server, calls
<1> DEFINE p == apply[s].preview
           u == apply[s].updates
           ok == Loads(p) /\ Acceptable(p, u)
           changes == Proposals(catalog, p, u)
           entry == [preview |-> p, changes |-> changes, shown |-> apply[s].shown, mixed |-> apply[s].mixed]
           Entry == [preview : Preview, changes : SUBSET Change, shown : SUBSET Change, mixed : BOOLEAN]
           answer == IF ok THEN "ok" ELSE "error"
<1>1. /\ apply[s].status = "sent"
      /\ apply' = [apply EXCEPT ![s].status = answer]
      /\ ~ok => UNCHANGED server
      /\ ok => Commit(p, u, apply[s])
      /\ UNCHANGED <<page, rows, upload, review, prices>>
  BY DEF ServeApply
<1>2. /\ Stored(p) /\ p \in Preview /\ u \in Updates
      /\ apply[s].shown \in SUBSET Change /\ apply[s].mixed \in BOOLEAN
  BY <1>1 DEF IInv, CallsOK, ApplyOK, Stored
<1>3. changes \in SUBSET Change
  BY <1>2, ProposalsType DEF IInv, TypeOK
<1>4. ok => preview[p].state = "stored" /\ changes = Expected(p, u)
  BY AcceptableIsExpected DEF Loads
<1>5. answer \in Status /\ answer # "idle"
  BY DEF Status
<1>6. entry \in Entry
  BY <1>2, <1>3
<1> HIDE DEF answer
<1>7. /\ apply' \in [Slot -> [status : Status, preview : Preview \cup {None},
                              updates : Updates \cup {None}, shown : SUBSET Change, mixed : BOOLEAN]]
      /\ \A k \in Slot : /\ apply'[k].preview = apply[k].preview
                         /\ apply'[k].updates = apply[k].updates
                         /\ apply'[k].shown = apply[k].shown
                         /\ apply'[k].mixed = apply[k].mixed
                         /\ apply'[k].status # "idle" => apply[k].status # "idle"
  BY <1>1, <1>5 DEF IInv, CallsOK, ApplyOK
<1>8. PriceIsOfUnits' /\ PricesInOrder'
  BY <1>1 DEF IInv, PriceIsOfUnits, PricesInOrder
<1> HIDE DEF p, u, ok, changes, entry
<1>9. CASE ~ok
  <2>1. UNCHANGED server
    BY <1>1, <1>9
  <2>2. TypeOK'
    BY <1>1, <2>1, TypesSame DEF IInv
  <2>3. CallsOK'
    <3>1. ApplyOK'
      BY <1>7, <2>1 DEF IInv, CallsOK, ApplyOK, Stored
    <3>2. QED  BY <1>1, <2>1, <3>1, CallsSame, PageSame DEF IInv, CallsOK
  <2>4. AppliedOnce' /\ AppliedIsMarked' /\ AppliedIsShown'
    BY <2>1, AuditSame DEF IInv
  <2>5. ShownIsExpected'
    BY <1>1, <1>7, <2>1 DEF IInv, ShownIsExpected, Expected
  <2>6. QED  BY <1>8, <2>2, <2>3, <2>4, <2>5 DEF IInv
<1>10. CASE ok
  <2>1. /\ catalog' = [i \in Item |-> IF \E x \in changes : x.item = i
                                    THEN (CHOOSE x \in changes : x.item = i).after
                                    ELSE catalog[i]]
        /\ matches' = [l \in Line |-> IF l \in DOMAIN u THEN u[l].items ELSE matches[l]]
        /\ preview' = [preview EXCEPT ![p].state = "applied"]
        /\ audit' = Append(audit, entry)
        /\ edits' = edits
    BY <1>1, <1>10 DEF Commit, changes, entry
  <2>2. catalog' \in [Item -> CatalogRow]
    <3>1. ASSUME NEW i \in Item, \E x \in changes : x.item = i
          PROVE  (CHOOSE x \in changes : x.item = i).after \in CatalogRow
      BY <1>3, <3>1 DEF Change, CatalogRow
    <3>2. QED  BY <2>1, <3>1 DEF IInv, TypeOK
  <2>3. matches' \in [Line -> SUBSET Item]
    BY <1>2, <2>1, UpdateType DEF IInv, TypeOK
  <2>4. /\ preview' \in [Preview -> PreviewType]
        /\ preview'[p].state = "applied"
        /\ \A q \in Preview : /\ preview'[q].snapshot = preview[q].snapshot
                              /\ q # p => preview'[q] = preview[q]
    BY <1>2, <2>1 DEF IInv, TypeOK, PreviewType
  <2>5. /\ audit \in Seq(Entry) /\ audit' \in Seq(Entry)
        /\ Len(audit) \in Nat /\ DOMAIN audit = 1 .. Len(audit)
        /\ DOMAIN audit' = 1 .. Len(audit) + 1
        /\ \A i \in 1 .. Len(audit) : audit'[i] = audit[i]
        /\ audit'[Len(audit) + 1] = entry
    <3> HIDE DEF Entry
    <3>1. audit \in Seq(Entry)
      BY DEF IInv, TypeOK, Entry
    <3>2. QED  BY <1>6, <2>1, <3>1, AppendProperties
  <2>6. /\ entry.preview = p /\ entry.changes = changes
        /\ entry.shown = apply[s].shown /\ entry.mixed = apply[s].mixed
    BY DEF entry
  <2>7. TypeOK'
    BY <1>1, <2>1, <2>2, <2>3, <2>4, <2>5 DEF IInv, TypeOK
  <2>8. \A q : Stored(q) => Stored(q)'
    BY <2>4 DEF Stored
  <2>9. CallsOK'
    <3>1. ApplyOK'
      BY <1>7, <2>8 DEF IInv, CallsOK, ApplyOK
    <3>2. UploadOK'
      BY <1>1, <2>8 DEF IInv, CallsOK, UploadOK
    <3>3. ReviewOK'
      BY <1>1, <2>8 DEF IInv, CallsOK, ReviewOK
    <3>4. PricesOK'
      BY <1>1, <2>8 DEF IInv, CallsOK, PricesOK
    <3>5. QED  BY <1>1, <2>8, <3>1, <3>2, <3>3, <3>4 DEF IInv, CallsOK
  <2>10. \A i \in DOMAIN audit : audit[i].preview # p
    BY <1>4, <1>10 DEF IInv, AppliedIsMarked
  <2>11. AppliedOnce'
    BY <2>5, <2>6, <2>10 DEF IInv, AppliedOnce
  <2>12. AppliedIsMarked'
    <3>1. ASSUME NEW i \in DOMAIN audit
          PROVE  preview'[audit[i].preview].state \in {"applied", "expired"}
      BY <2>4, <2>10, AuditPreview DEF IInv, AppliedIsMarked
    <3>2. QED  BY <2>4, <2>5, <2>6, <3>1 DEF AppliedIsMarked
  <2>13. AppliedIsShown'
    <3>1. ~apply[s].mixed => apply[s].shown = changes
      BY <1>1, <1>4, <1>10 DEF IInv, ShownIsExpected, p, u
    <3>2. QED  BY <2>5, <2>6, <3>1 DEF IInv, AppliedIsShown
  <2>14. ShownIsExpected'
    <3>1. \A q \in Preview : preview'[q].snapshot = preview[q].snapshot
      BY <2>4
    <3>2. /\ review.status # "idle" => review.preview \in Preview
          /\ page.preview # None => page.preview \in Preview
          /\ \A k \in Slot : apply[k].status # "idle" => apply[k].preview \in Preview
      BY DEF IInv, CallsOK, ReviewOK, ApplyOK, Stored
    <3>3. QED  BY <1>1, <1>7, <3>1, <3>2 DEF IInv, ShownIsExpected, Expected
  <2>15. QED  BY <1>8, <2>7, <2>9, <2>11, <2>12, <2>13, <2>14 DEF IInv
<1>11. QED  BY <1>9, <1>10

LEMMA ExpireStep ==
  ASSUME IInv, NEW p \in Preview, Expire(p)
  PROVE  IInv'
<1> USE DEF server, calls
<1>1. /\ preview[p].state \in {"stored", "applied"}
      /\ preview' = [preview EXCEPT ![p].state = "expired"]
      /\ UNCHANGED <<catalog, edits, matches, audit, page, rows, calls>>
  BY DEF Expire
<1>2. /\ preview' \in [Preview -> PreviewType]
      /\ preview'[p].state = "expired"
      /\ \A q \in Preview : /\ preview'[q].snapshot = preview[q].snapshot
                            /\ q # p => preview'[q] = preview[q]
  BY <1>1 DEF IInv, TypeOK, PreviewType
<1>3. \A q : Stored(q) => Stored(q)'
  BY <1>2 DEF Stored
<1>4. TypeOK'
  BY <1>1, <1>2 DEF IInv, TypeOK
<1>5. CallsOK'
  <2>1. ApplyOK'
    BY <1>1, <1>3 DEF IInv, CallsOK, ApplyOK
  <2>2. UploadOK'
    BY <1>1, <1>3 DEF IInv, CallsOK, UploadOK
  <2>3. ReviewOK'
    BY <1>1, <1>3 DEF IInv, CallsOK, ReviewOK
  <2>4. PricesOK'
    BY <1>1, <1>3 DEF IInv, CallsOK, PricesOK
  <2>5. QED  BY <1>1, <1>3, <2>1, <2>2, <2>3, <2>4 DEF IInv, CallsOK
<1>6. AppliedOnce' /\ AppliedIsShown'
  BY <1>1 DEF IInv, AppliedOnce, AppliedIsShown
<1>7. AppliedIsMarked'
  <2>1. ASSUME NEW i \in DOMAIN audit
        PROVE  preview'[audit[i].preview].state \in {"applied", "expired"}
    BY <1>2, AuditPreview DEF IInv, AppliedIsMarked
  <2>2. QED  BY <1>1, <2>1 DEF AppliedIsMarked
<1>8. ShownIsExpected'
  <2>1. /\ review.status # "idle" => review.preview \in Preview
        /\ page.preview # None => page.preview \in Preview
        /\ \A k \in Slot : apply[k].status # "idle" => apply[k].preview \in Preview
    BY DEF IInv, CallsOK, ReviewOK, ApplyOK, Stored
  <2>2. QED  BY <1>1, <1>2, <2>1 DEF IInv, ShownIsExpected, Expected
<1>9. PriceIsOfUnits' /\ PricesInOrder'
  BY <1>1 DEF IInv, PriceIsOfUnits, PricesInOrder
<1>10. QED  BY <1>4, <1>5, <1>6, <1>7, <1>8, <1>9 DEF IInv

LEMMA EditStep ==
  ASSUME IInv, NEW i \in Item, NEW r \in Row, Edit(i, r)
  PROVE  IInv'
<1> USE DEF server, calls
<1>1. /\ edits < MaxEdit /\ edits' = edits + 1
      /\ catalog' = [catalog EXCEPT ![i] = r]
      /\ UNCHANGED <<preview, matches, audit, page, rows, calls>>
  BY DEF Edit
<1>2. catalog' \in [Item -> CatalogRow]
  BY <1>1 DEF IInv, TypeOK, CatalogRow
<1>3. edits' \in 0 .. MaxEdit
  BY <1>1, InvoiceAssumption DEF IInv, TypeOK
<1>4. TypeOK'
  BY <1>1, <1>2, <1>3 DEF IInv, TypeOK
<1>5. CallsOK'
  BY <1>1, CallsSame, PageSame DEF IInv, CallsOK
<1>6. AppliedOnce' /\ AppliedIsMarked' /\ AppliedIsShown'
  BY <1>1, AuditSame DEF IInv
<1>7. ShownIsExpected'
  BY <1>1 DEF IInv, ShownIsExpected, Expected
<1>8. PriceIsOfUnits' /\ PricesInOrder'
  BY <1>1 DEF IInv, PriceIsOfUnits, PricesInOrder
<1>9. QED  BY <1>4, <1>5, <1>6, <1>7, <1>8 DEF IInv

-----------------------------------------------------------------------------
(* The connection *)

LEMMA LoseStep ==
  ASSUME IInv, Lose
  PROVE  IInv'
<1> USE DEF server
<1>1. UNCHANGED <<server, page, rows>>
  BY DEF Lose
<1>2. TypeOK'
  BY <1>1, TypesSame DEF IInv
<1>3. AppliedOnce' /\ AppliedIsMarked' /\ AppliedIsShown'
  BY <1>1, AuditSame DEF IInv
<1>4. PriceIsOfUnits'
  BY <1>1 DEF IInv, PriceIsOfUnits
<1>5. CASE /\ upload.status \in {"sent", "ok"}
           /\ upload' = [upload EXCEPT !.status = "error"]
           /\ UNCHANGED <<review, apply, prices>>
  <2>1. UploadOK' /\ upload'.status = "error"
    BY <1>5 DEF IInv, CallsOK, UploadOK, Status
  <2>2. CallsOK'
    BY <1>1, <1>5, <2>1, CallsSame, PageSame DEF IInv, CallsOK
  <2>3. ShownIsExpected'
    BY <1>1, <1>5 DEF IInv, ShownIsExpected, Expected
  <2>4. PricesInOrder'
    BY <1>1, <1>5, <2>1 DEF IInv, PricesInOrder
  <2>5. QED  BY <1>2, <1>3, <1>4, <2>2, <2>3, <2>4 DEF IInv
<1>6. CASE /\ review.status \in {"sent", "ok"}
           /\ review' = [review EXCEPT !.status = "error"]
           /\ UNCHANGED <<upload, apply, prices>>
  <2>1. /\ ReviewOK'
        /\ review'.status = "error" /\ review'.preview = review.preview
    BY <1>1, <1>6 DEF IInv, CallsOK, ReviewOK, Status, Stored
  <2>2. CallsOK'
    BY <1>1, <1>6, <2>1, CallsSame, PageSame DEF IInv, CallsOK
  <2>3. ShownIsExpected'
    BY <1>1, <1>6, <2>1 DEF IInv, ShownIsExpected, Expected
  <2>4. PricesInOrder'
    BY <1>1, <1>6 DEF IInv, PricesInOrder
  <2>5. QED  BY <1>2, <1>3, <1>4, <2>2, <2>3, <2>4 DEF IInv
<1>7. ASSUME NEW s \in Slot, apply[s].status \in {"sent", "ok"},
             apply' = [apply EXCEPT ![s].status = "error"],
             UNCHANGED <<upload, review, prices>>
      PROVE  IInv'
  <2>1. /\ apply' \in [Slot -> [status : Status, preview : Preview \cup {None},
                                updates : Updates \cup {None}, shown : SUBSET Change, mixed : BOOLEAN]]
        /\ \A k \in Slot : /\ apply'[k].preview = apply[k].preview
                           /\ apply'[k].updates = apply[k].updates
                           /\ apply'[k].shown = apply[k].shown
                           /\ apply'[k].mixed = apply[k].mixed
                           /\ apply'[k].status # "idle" => apply[k].status # "idle"
    BY <1>7 DEF IInv, CallsOK, ApplyOK, Status
  <2>2. CallsOK'
    <3>1. ApplyOK'
      BY <1>1, <2>1 DEF IInv, CallsOK, ApplyOK, Stored
    <3>2. QED  BY <1>1, <1>7, <3>1, CallsSame, PageSame DEF IInv, CallsOK
  <2>3. ShownIsExpected'
    BY <1>1, <1>7, <2>1 DEF IInv, ShownIsExpected, Expected
  <2>4. PricesInOrder'
    BY <1>1, <1>7 DEF IInv, PricesInOrder
  <2>5. QED  BY <1>2, <1>3, <1>4, <2>2, <2>3, <2>4 DEF IInv
<1>8. ASSUME NEW c \in prices, c.status \in {"sent", "ok"},
             prices' = (prices \ {c}) \cup {[c EXCEPT !.status = "error", !.price = None]},
             UNCHANGED <<upload, review, apply>>
      PROVE  IInv'
  <2> DEFINE lost == [c EXCEPT !.status = "error", !.price = None]
             call == [preview : Preview, line : Line, count : Count, version : 0..MaxVersion,
                      status : Status, price : Price \cup {None}]
  <2>1. c \in call /\ Stored(c.preview)
    BY DEF IInv, CallsOK, PricesOK
  <2>2. /\ lost \in call
        /\ lost.preview = c.preview /\ lost.line = c.line /\ lost.count = c.count
        /\ lost.version = c.version /\ lost.price = None
    BY <2>1 DEF Status
  <2>3. prices' = (prices \ {c}) \cup {lost}
    BY <1>8
  <2> HIDE DEF lost
  <2>4. CallsOK'
    <3>1. PricesOK'
      BY <1>1, <2>1, <2>2, <2>3 DEF IInv, CallsOK, PricesOK, Stored
    <3>2. QED  BY <1>1, <1>8, <3>1, CallsSame, PageSame DEF IInv, CallsOK
  <2>5. ShownIsExpected'
    BY <1>1, <1>8 DEF IInv, ShownIsExpected, Expected
  <2>6. PricesInOrder'
    BY <1>1, <1>8, <2>2, <2>3 DEF IInv, PricesInOrder
  <2>7. QED  BY <1>2, <1>3, <1>4, <2>4, <2>5, <2>6 DEF IInv
<1>9. QED  BY <1>5, <1>6, <1>7, <1>8 DEF Lose

-----------------------------------------------------------------------------
(* The theorems *)

LEMMA StutterStep ==
  ASSUME IInv, UNCHANGED vars
  PROVE  IInv'
<1> USE DEF vars, server, calls
<1>1. TypeOK'
  BY TypesSame DEF IInv
<1>2. CallsOK'
  BY CallsSame, PageSame DEF IInv, CallsOK
<1>3. AppliedOnce' /\ AppliedIsMarked' /\ AppliedIsShown'
  BY AuditSame DEF IInv
<1>4. ShownIsExpected' /\ PriceIsOfUnits' /\ PricesInOrder'
  BY DEF IInv, ShownIsExpected, Expected, PriceIsOfUnits, PricesInOrder
<1>5. QED  BY <1>1, <1>2, <1>3, <1>4 DEF IInv

LEMMA NextStep ==
  ASSUME IInv, [Next]_vars
  PROVE  IInv'
<1>1. CASE PageNext
  <2>1. ASSUME NEW l \in Line, OpenItem(l) PROVE IInv'
    <3>1. rows[l].units \in Count \cup {0}
      BY DEF IInv, TypeOK, RowType
    <3>2. QED  BY <2>1, <3>1, EnterUnitsStep DEF OpenItem
  <2>2. QED  BY <1>1, <2>1, UploadStep, BackStep, ImportAnotherStep, CalculateTimerStep, EnterUnitsStep,
                ToggleMatchStep, ReviewStep, UploadedStep, ReviewedStep, ConfirmStep,
                AppliedStep, CalculatedStep DEF PageNext
<1>2. CASE ServerNext
  BY <1>2, ServeUploadStep, ServeReviewStep, ServeApplyStep, ServeCalculateStep, ExpireStep, EditStep
     DEF ServerNext
<1>3. CASE Lose
  BY <1>3, LoseStep
<1>4. CASE UNCHANGED vars
  BY <1>4, StutterStep
<1>5. QED  BY <1>1, <1>2, <1>3, <1>4 DEF Next

\* The inductive invariant: the types, what the requests on their way carry,
\* what was applied and what the page shows of it.
THEOREM Inductive == Spec => []IInv
<1>1. QED  BY InitInvariant, NextStep, PTL DEF Spec

\* Variables keep their types, however many previews, lines and edits there are.
THEOREM TypeCorrect == Spec => []TypeOK
<1>1. IInv => TypeOK
  BY DEF IInv
<1>2. QED  BY <1>1, Inductive, PTL

\* However often a confirmation is sent, a preview is applied once.
THEOREM AppliesOnce == Spec => []AppliedOnce
<1>1. IInv => AppliedOnce
  BY DEF IInv
<1>2. QED  BY <1>1, Inductive, PTL

\* What was applied is what the confirmed table showed, unless an upload was
\* answered while a review or an application was on its way.
THEOREM AppliesWhatIsShown == Spec => []AppliedIsShown
<1>1. IInv => AppliedIsShown
  BY DEF IInv
<1>2. QED  BY <1>1, Inductive, PTL

\* The price next to a line is that of the line's units in this invoice.
THEOREM PricesAreOfTheirUnits == Spec => []PriceIsOfUnits
<1>1. IInv => PriceIsOfUnits
  BY DEF IInv
<1>2. QED  BY <1>1, Inductive, PTL

\* An application overwrites only rows that are as they were at the upload.
LEMMA ApplyKeepsEdits ==
  ASSUME IInv, Next, audit' # audit, NEW i \in Item, catalog'[i] # catalog[i]
  PROVE  catalog[i] = preview[audit'[Len(audit')].preview].snapshot[i]
<1> USE DEF server, calls
<1>1. PICK s \in Slot : ServeApply(s)
  <2>1. PageNext => UNCHANGED audit
    BY DEF PageNext, Upload, Back, ImportAnother, OpenItem, CalculateTimer, EnterUnits, ToggleMatch, Review,
           Uploaded, Reviewed, Confirm, Applied, Calculated
  <2>2. Lose => UNCHANGED audit
    BY DEF Lose
  <2>3. QED  BY <2>1, <2>2 DEF Next, ServerNext, ServeUpload, ServeReview, ServeCalculate, Expire, Edit
<1> DEFINE p == apply[s].preview
           u == apply[s].updates
           changes == Proposals(catalog, p, u)
           entry == [preview |-> p, changes |-> changes, shown |-> apply[s].shown, mixed |-> apply[s].mixed]
           Entry == [preview : Preview, changes : SUBSET Change, shown : SUBSET Change, mixed : BOOLEAN]
<1>2. Acceptable(p, u) /\ Commit(p, u, apply[s]) /\ apply[s].status = "sent"
  BY <1>1 DEF ServeApply
<1>3. /\ p \in Preview /\ u \in Updates
      /\ apply[s].shown \in SUBSET Change /\ apply[s].mixed \in BOOLEAN
  BY <1>2 DEF IInv, CallsOK, ApplyOK, Stored
<1>4. changes \in SUBSET Change
  BY <1>3, ProposalsType DEF IInv, TypeOK
<1>5. /\ catalog' = [j \in Item |-> IF \E x \in changes : x.item = j
                                  THEN (CHOOSE x \in changes : x.item = j).after
                                  ELSE catalog[j]]
      /\ audit' = Append(audit, entry)
  BY <1>2 DEF Commit
<1>6. entry \in Entry /\ entry.preview = p
  BY <1>3, <1>4
<1>7. audit'[Len(audit')] = entry
  <2> HIDE DEF Entry, entry
  <2>1. audit \in Seq(Entry)
    BY DEF IInv, TypeOK, Entry
  <2>2. QED  BY <1>5, <1>6, <2>1, AppendProperties
<1>8. PICK x \in changes : x.item = i
  BY <1>5
<1>9. PICK l \in DOMAIN u : i \in u[l].items
  BY <1>8, ProposalsMember
<1>10. catalog[i] = preview[p].snapshot[i]
  BY <1>2, <1>9 DEF Acceptable
<1> HIDE DEF entry
<1>11. QED  BY <1>6, <1>7, <1>10

\* An edit made while an invoice is reviewed is never overwritten by it.
THEOREM KeepsEdits == Spec => NoEditLost
<1> DEFINE A == audit' # audit => \A i \in Item : catalog'[i] # catalog[i] =>
                    catalog[i] = preview[audit'[Len(audit')].preview].snapshot[i]
<1>1. IInv /\ [Next]_vars => [A]_vars
  BY ApplyKeepsEdits
<1>2. QED  BY <1>1, Inductive, PTL DEF Spec, NoEditLost
=============================================================================
