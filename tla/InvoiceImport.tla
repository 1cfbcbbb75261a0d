---------------------------- MODULE InvoiceImport ----------------------------
(***************************************************************************)
(* Importing the prices of an invoice: admin-web/invoice_import.py, served *)
(* by threads over one database, and its page, static/costco.js.           *)
(*                                                                         *)
(* An upload stores a preview: the lines of the invoice and a snapshot of  *)
(* the catalogue.  The page matches lines to items, has the updates        *)
(* reviewed, shows them, and on confirmation sends them again to be        *)
(* applied.  Other administrators edit the catalogue all the while, and a  *)
(* preview expires after a day.  The application is one transaction, which *)
(* locks before it reads.  An upload reads catalogue and matches before it *)
(* stores its preview, and a review reads preview and rows one by one;     *)
(* each is one action here: an upload's snapshot may be old by then as it  *)
(* may be later, and what a review answers depends on the snapshot only.   *)
(* Answers may be late or lost.                                            *)
(*                                                                         *)
(* A price is what it was computed from, <<preview, line, count>>; a row of*)
(* the catalogue is such a price or one written by another administrator.  *)
(***************************************************************************)
EXTENDS Naturals, Sequences, FiniteSets

CONSTANTS Preview,    \* preview ids
          Line,       \* lines of an invoice, each of another item number (sku), which matches go by
          Item,       \* items of the catalogue
          Row,        \* what other administrators write into a row
          Count,      \* valid numbers of units in a package
          MaxVersion, \* bound: edits of the units of one line of one preview
          MaxEdit,    \* bound: edits by other administrators
          Slot,       \* bound: applications on their way at once
          None

ASSUME InvoiceAssumption ==
    /\ None \notin Preview \cup Row
    /\ Count \subseteq Nat \ {0}
    /\ MaxVersion \in Nat /\ MaxEdit \in Nat
    /\ IsFiniteSet(Line) /\ IsFiniteSet(Item)

VARIABLES catalog,  \* inventory: the row of an item
          edits,    \* counter of the bound MaxEdit
          preview,  \* costco_invoice_previews
          matches,  \* costco_inventory_matches: the items remembered for a line
          audit,    \* audit_log: the applications, in order
          page,     \* the variables of the page and its confirmation table
          rows,     \* selections: one row of the form per line
          upload,   \* the requests of the page: at most one upload ...
          review,   \* ... and one review,
          apply,    \* usually one application, two if uploads come between
          prices    \* and those for single prices

server == <<catalog, edits, preview, matches, audit>>
calls == <<upload, review, apply, prices>>
vars == <<server, page, rows, calls>>

Price == Preview \X Line \X Count
CatalogRow == Row \cup Price
Updates == UNION {[L -> [items : SUBSET Item, count : Count]] : L \in SUBSET Line}

Status == {"idle", "sent", "ok", "error"}
NoUpload == [status |-> "idle", preview |-> None, items |-> None, units |-> None]
NoReview == [status |-> "idle", preview |-> None, updates |-> None, proposals |-> {}]
NoApply == [status |-> "idle", preview |-> None, updates |-> None, shown |-> {}, mixed |-> FALSE]
NoPreview == [state |-> "none", snapshot |-> None]
EmptyRow == [items |-> {}, units |-> 0, price |-> None,
             calculating |-> FALSE, timer |-> FALSE, version |-> 0]

Init ==
    /\ catalog \in [Item -> Row]
    /\ edits = 0
    /\ preview = [p \in Preview |-> NoPreview]
    /\ matches = [l \in Line |-> {}]
    /\ audit = <<>>
    /\ page = [preview |-> None, reviewed |-> None, applied |-> FALSE,
               view |-> "upload", shown |-> {}, mixed |-> FALSE,
               confirm |-> TRUE, back |-> TRUE]
    /\ rows = [l \in Line |-> EmptyRow]
    /\ upload = NoUpload /\ review = NoReview
    /\ apply = [s \in Slot |-> NoApply]
    /\ prices = {}

----------------------------------------------------------------------------
(* The page: what the user does. *)

\* The upload form is on every view; its button is off while it runs.
Upload ==
    /\ upload.status = "idle"
    /\ upload' = [NoUpload EXCEPT !.status = "sent"]
    /\ UNCHANGED <<server, page, rows, review, apply, prices>>

\* calculateRow(row) after its units became n: the old timer is cleared.
Recalculated(row, n) ==
    [row EXCEPT !.units = n, !.price = None, !.calculating = n # 0,
                !.timer = n # 0, !.version = @ + 1]

EnterUnits(l, n) ==
    /\ page.view = "matching"
    /\ rows[l].version < MaxVersion
    /\ rows' = [rows EXCEPT ![l] = Recalculated(@, n)]
    /\ UNCHANGED <<server, page, calls>>

\* openItem(row) asks again for a price that could not be calculated.
OpenItem(l) ==
    /\ rows[l].price = None /\ ~rows[l].calculating /\ rows[l].units # 0
    /\ EnterUnits(l, rows[l].units)

\* A box of the line's matches; ticking the first one fills in empty units (0
\* stands for empty units and for invalid ones, which stay).
ToggleMatch(l, i, n) ==
    LET ticked == i \notin rows[l].items
        row == [rows[l] EXCEPT !.items = IF ticked THEN @ \cup {i} ELSE @ \ {i}]
    IN /\ page.view = "matching"
       /\ \/ /\ row.units = 0 /\ row.items # {} /\ row.version < MaxVersion
             /\ rows' = [rows EXCEPT ![l] = Recalculated(row, n)]
          \/ rows' = [rows EXCEPT ![l] = row]
       /\ UNCHANGED <<server, page, calls>>

CalculateTimer(l) ==
    /\ rows[l].timer
    /\ rows' = [rows EXCEPT ![l].timer = FALSE]
    /\ prices' = prices \cup {[preview |-> page.preview, line |-> l, count |-> rows[l].units,
                               version |-> rows[l].version, status |-> "sent", price |-> None]}
    /\ UNCHANGED <<server, page, upload, review, apply>>

\* The match form: the checked lines, each with a match and its units.
Review(checked) ==
    /\ page.view = "matching" /\ review.status = "idle"
    /\ checked # {}
    /\ \A l \in checked : rows[l].items # {} /\ rows[l].units # 0
    /\ review' = [status |-> "sent", preview |-> page.preview, proposals |-> {},
                  updates |-> [l \in checked |-> [items |-> rows[l].items, count |-> rows[l].units]]]
    /\ UNCHANGED <<server, page, rows, upload, apply, prices>>

Back ==
    /\ page.view = "confirmation" /\ page.back
    /\ page' = [page EXCEPT !.view = "matching"]
    /\ UNCHANGED <<server, rows, calls>>

Confirm(s) ==
    /\ page.view = "confirmation" /\ page.confirm
    /\ page.reviewed # None /\ ~page.applied
    /\ apply[s].status = "idle"
    /\ apply' = [apply EXCEPT ![s] = [status |-> "sent", preview |-> page.preview,
                     updates |-> page.reviewed, shown |-> page.shown, mixed |-> page.mixed]]
    /\ page' = [page EXCEPT !.confirm = FALSE, !.back = FALSE]
    /\ UNCHANGED <<server, rows, upload, review, prices>>

\* Mutant of ImportAnother: the confirmation is not hidden.
ImportAnotherStays ==
    /\ page.view = "done"
    /\ page' = [page EXCEPT !.preview = None, !.reviewed = None, !.applied = FALSE]
    /\ rows' = [l \in Line |-> EmptyRow]
    /\ UNCHANGED <<server, calls>>

ImportAnother ==
    /\ page.view = "done"
    /\ page' = [page EXCEPT !.preview = None, !.reviewed = None, !.applied = FALSE, !.view = "upload"]
    /\ rows' = [l \in Line |-> EmptyRow]
    /\ UNCHANGED <<server, calls>>

----------------------------------------------------------------------------
(* The server. *)

\* Mutant of Loads: only the age of the preview is checked.
LoadsApplied(p) == preview[p].state \in {"stored", "applied"}

\* load_preview: stored, not older than a day, and not applied.
Loads(p) == preview[p].state = "stored"

\* match_candidates: the remembered match, else none or one whose name fits.
Suggested(l) == IF matches[l] # {} THEN {matches[l]} ELSE {{}} \cup {{i} : i \in Item}

\* preview_invoice; units that cannot be read are taken from the match, if any.
ServeUpload(p, items, units) ==
    /\ upload.status = "sent"
    /\ preview[p] = NoPreview
    /\ \A l \in Line : items[l] \in Suggested(l) /\ (items[l] # {} => units[l] # 0)
    /\ preview' = [preview EXCEPT ![p] = [state |-> "stored", snapshot |-> catalog]]
    /\ upload' = [status |-> "ok", preview |-> p, items |-> items, units |-> units]
    /\ UNCHANGED <<catalog, edits, matches, audit, page, rows, review, apply, prices>>

ServeCalculate(c) ==
    /\ c.status = "sent"
    /\ prices' = (prices \ {c}) \cup
         {IF Loads(c.preview) THEN [c EXCEPT !.status = "ok", !.price = <<c.preview, c.line, c.count>>]
                              ELSE [c EXCEPT !.status = "error"]}
    /\ UNCHANGED <<server, page, rows, upload, review, apply>>

\* Mutant of Acceptable: the rows are not compared with the snapshot.
AcceptableStale(p, u) == \A l, k \in DOMAIN u : l # k => u[l].items \cap u[k].items = {}

\* proposed_updates: no item twice, and every row as it was at the upload.
Acceptable(p, u) ==
    /\ \A l, k \in DOMAIN u : l # k => u[l].items \cap u[k].items = {}
    /\ \A l \in DOMAIN u : \A i \in u[l].items : catalog[i] = preview[p].snapshot[i]

\* The changes to the rows of a table, the catalogue or a snapshot of it.
Proposals(table, p, u) ==
    UNION {{[item |-> i, before |-> table[i], after |-> <<p, l, u[l].count>>] : i \in u[l].items}
           : l \in DOMAIN u}

ServeReview ==
    /\ review.status = "sent"
    /\ review' = IF Loads(review.preview) /\ Acceptable(review.preview, review.updates)
                 THEN [review EXCEPT !.status = "ok",
                                     !.proposals = Proposals(catalog, review.preview, review.updates)]
                 ELSE [review EXCEPT !.status = "error"]
    /\ UNCHANGED <<server, page, rows, upload, apply, prices>>

\* apply_invoice, under the write lock from its first read to the commit.
Commit(p, u, a) ==
    LET changes == Proposals(catalog, p, u)
    IN /\ catalog' = [i \in Item |-> IF \E x \in changes : x.item = i
                                     THEN (CHOOSE x \in changes : x.item = i).after
                                     ELSE catalog[i]]
       /\ matches' = [l \in Line |-> IF l \in DOMAIN u THEN u[l].items ELSE matches[l]]
       /\ preview' = [preview EXCEPT ![p].state = "applied"]
       /\ audit' = Append(audit, [preview |-> p, changes |-> changes,
                                  shown |-> a.shown, mixed |-> a.mixed])
       /\ edits' = edits

ServeApply(s) ==
    LET a == apply[s]
    IN /\ a.status = "sent"
       /\ IF Loads(a.preview) /\ Acceptable(a.preview, a.updates)
          THEN /\ Commit(a.preview, a.updates, a)
               /\ apply' = [apply EXCEPT ![s].status = "ok"]
          ELSE /\ apply' = [apply EXCEPT ![s].status = "error"]
               /\ UNCHANGED server
       /\ UNCHANGED <<page, rows, upload, review, prices>>

Expire(p) ==
    /\ preview[p].state \in {"stored", "applied"}
    /\ preview' = [preview EXCEPT ![p].state = "expired"]
    /\ UNCHANGED <<catalog, edits, matches, audit, page, rows, calls>>

\* Another administrator, or another import, writes a row.
Edit(i, r) ==
    /\ edits < MaxEdit
    /\ catalog' = [catalog EXCEPT ![i] = r]
    /\ edits' = edits + 1
    /\ UNCHANGED <<preview, matches, audit, page, rows, calls>>

\* The connection fails: the page sees an error, whether it was served or not.
Lose ==
    /\ \/ /\ upload.status \in {"sent", "ok"}
          /\ upload' = [upload EXCEPT !.status = "error"]
          /\ UNCHANGED <<review, apply, prices>>
       \/ /\ review.status \in {"sent", "ok"}
          /\ review' = [review EXCEPT !.status = "error"]
          /\ UNCHANGED <<upload, apply, prices>>
       \/ /\ \E s \in Slot : /\ apply[s].status \in {"sent", "ok"}
                            /\ apply' = [apply EXCEPT ![s].status = "error"]
          /\ UNCHANGED <<upload, review, prices>>
       \/ /\ \E c \in prices : /\ c.status \in {"sent", "ok"}
                              /\ prices' = (prices \ {c}) \cup {[c EXCEPT !.status = "error", !.price = None]}
          /\ UNCHANGED <<upload, review, apply>>
    /\ UNCHANGED <<server, page, rows>>

----------------------------------------------------------------------------
(* The page: the answers.  An error is shown and changes nothing but the button. *)

\* renderLines: new rows; the timers of the old ones are cleared.
Rendered(a) ==
    [l \in Line |-> [EmptyRow EXCEPT !.items = a.items[l], !.units = a.units[l],
        !.price = IF a.units[l] = 0 THEN None ELSE <<a.preview, l, a.units[l]>>]]

Uploaded ==
    /\ upload.status \in {"ok", "error"}
    /\ upload' = NoUpload
    /\ IF upload.status = "ok"
       THEN /\ page' = [page EXCEPT !.preview = upload.preview, !.reviewed = None,
                           !.applied = FALSE, !.view = "matching",
                           !.mixed = review.status # "idle" \/ \E s \in Slot : apply[s].status # "idle"]
            /\ rows' = Rendered(upload)
       ELSE UNCHANGED <<page, rows>>
    /\ UNCHANGED <<server, review, apply, prices>>

\* Mutant of Current: only the preview is compared.
CurrentPreview(c) == page.preview = c.preview

\* The late answer of an earlier preview or of earlier units is dropped.
Current(c) == page.preview = c.preview /\ rows[c.line].version = c.version

Calculated(c) ==
    /\ c.status \in {"ok", "error"}
    /\ rows' = IF Current(c)
               THEN [rows EXCEPT ![c.line].calculating = FALSE, ![c.line].price = c.price]
               ELSE rows
    /\ prices' = prices \ {c}
    /\ UNCHANGED <<server, page, upload, review, apply>>

\* Mutant of Reviewed: the updates of the first review are kept.
ReviewedFirst ==
    /\ review.status \in {"ok", "error"}
    /\ page' = IF review.status = "ok"
               THEN [page EXCEPT !.reviewed = IF @ = None THEN review.updates ELSE @, !.confirm = TRUE,
                                 !.shown = review.proposals, !.view = "confirmation"]
               ELSE page
    /\ review' = NoReview
    /\ UNCHANGED <<server, rows, upload, apply, prices>>

Reviewed ==
    /\ review.status \in {"ok", "error"}
    /\ page' = IF review.status = "ok"
               THEN [page EXCEPT !.reviewed = review.updates, !.shown = review.proposals,
                                 !.view = "confirmation", !.confirm = TRUE]
               ELSE page
    /\ review' = NoReview
    /\ UNCHANGED <<server, rows, upload, apply, prices>>

Applied(s) ==
    /\ apply[s].status \in {"ok", "error"}
    /\ page' = [page EXCEPT !.confirm = TRUE, !.back = TRUE,
                   !.applied = @ \/ apply[s].status = "ok",
                   !.view = IF @ = "confirmation" /\ apply[s].status = "ok" THEN "done" ELSE @]
    /\ apply' = [apply EXCEPT ![s] = NoApply]
    /\ UNCHANGED <<server, rows, upload, review, prices>>

PageNext ==
    \/ Upload \/ Back \/ ImportAnother
    \/ \E l \in Line : OpenItem(l) \/ CalculateTimer(l)
    \/ \E l \in Line, n \in Count \cup {0} : EnterUnits(l, n)
    \/ \E l \in Line, i \in Item, n \in Count : ToggleMatch(l, i, n)
    \/ \E checked \in SUBSET Line : Review(checked)
    \/ Uploaded \/ Reviewed
    \/ \E s \in Slot : Confirm(s) \/ Applied(s)
    \/ \E c \in prices : Calculated(c)

ServerNext ==
    \/ \E p \in Preview, items \in [Line -> SUBSET Item], units \in [Line -> Count \cup {0}] :
           ServeUpload(p, items, units)
    \/ ServeReview
    \/ \E s \in Slot : ServeApply(s)
    \/ \E c \in prices : ServeCalculate(c)
    \/ \E p \in Preview : Expire(p)
    \/ \E i \in Item, r \in Row : Edit(i, r)

Next == PageNext \/ ServerNext \/ Lose
Spec == Init /\ [][Next]_vars

----------------------------------------------------------------------------
(* Properties. *)

Change == [item : Item, before : CatalogRow, after : Price]
PageType == [preview : Preview \cup {None}, reviewed : Updates \cup {None}, applied : BOOLEAN,
             view : {"upload", "matching", "confirmation", "done"}, mixed : BOOLEAN,
             shown : SUBSET Change, confirm : BOOLEAN, back : BOOLEAN]
RowType == [items : SUBSET Item, units : Count \cup {0}, price : Price \cup {None},
            calculating : BOOLEAN, timer : BOOLEAN, version : 0..MaxVersion]
PreviewType == [state : {"none", "stored", "applied", "expired"},
                snapshot : [Item -> CatalogRow] \cup {None}]

\* The types of the variables; what a view shows was loaded before.
TypeOK ==
    /\ catalog \in [Item -> CatalogRow]
    /\ edits \in 0..MaxEdit
    /\ preview \in [Preview -> PreviewType]
    /\ matches \in [Line -> SUBSET Item]
    /\ audit \in Seq([preview : Preview, changes : SUBSET Change, shown : SUBSET Change, mixed : BOOLEAN])
    /\ page \in PageType
    /\ page.view # "upload" => page.preview # None
    /\ rows \in [Line -> RowType]

\* An upload the server knows: its snapshot is never written again.
Stored(p) == p \in Preview /\ preview[p].state # "none" /\ preview[p].snapshot \in [Item -> CatalogRow]

\* What the page has asked for, about uploads it was told of; a review is only
\* on its way while the matches are on the screen.
UploadOK ==
    /\ upload \in [status : Status, preview : Preview \cup {None},
                   items : [Line -> SUBSET Item] \cup {None}, units : [Line -> Count \cup {0}] \cup {None}]
    /\ upload.status = "ok" => /\ Stored(upload.preview)
                               /\ upload.items \in [Line -> SUBSET Item]
                               /\ upload.units \in [Line -> Count \cup {0}]
ReviewOK ==
    /\ review \in [status : Status, preview : Preview \cup {None},
                   updates : Updates \cup {None}, proposals : SUBSET Change]
    /\ review.status # "idle" =>
          Stored(review.preview) /\ review.updates \in Updates /\ page.view = "matching"
ApplyOK ==
    /\ apply \in [Slot -> [status : Status, preview : Preview \cup {None},
                           updates : Updates \cup {None}, shown : SUBSET Change, mixed : BOOLEAN]]
    /\ \A s \in Slot : apply[s].status # "idle" => Stored(apply[s].preview) /\ apply[s].updates \in Updates
PricesOK ==
    /\ prices \subseteq [preview : Preview, line : Line, count : Count, version : 0..MaxVersion,
                         status : Status, price : Price \cup {None}]
    /\ \A c \in prices : Stored(c.preview)
CallsOK ==
    /\ page.preview # None => Stored(page.preview)
    /\ UploadOK /\ ReviewOK /\ ApplyOK /\ PricesOK

\* One invoice, one change of prices: however often the confirmation is sent
\* again after an answer was lost, a preview is applied once (load_preview
\* run again under the write lock).
AppliedOnce ==
    \A i, k \in DOMAIN audit : audit[i].preview = audit[k].preview => i = k

\* What was applied is marked as such, or has expired since.
AppliedIsMarked ==
    \A i \in DOMAIN audit : preview[audit[i].preview].state \in {"applied", "expired"}

\* An application writes over no row that changed since the upload showed it:
\* an edit made meanwhile is never lost (proposed_updates against the snapshot).
NoEditLost ==
    [][audit' # audit => \A i \in Item : catalog'[i] # catalog[i] =>
            catalog[i] = preview[audit'[Len(audit')].preview].snapshot[i]]_vars

\* The prices an application writes are those of the table that was confirmed,
\* unless an upload was answered while a review or an application of the same
\* page was on its way: then updates of one invoice are confirmed for another.
AppliedIsShown ==
    \A i \in DOMAIN audit : ~audit[i].mixed => audit[i].changes = audit[i].shown

\* The changes that updates u of preview p make while the rows are as they were.
Expected(p, u) == Proposals(preview[p].snapshot, p, u)

\* What was reviewed, is shown, or was confirmed is what its updates would do.
ShownIsExpected ==
    /\ review.status = "ok" => review.proposals = Expected(review.preview, review.updates)
    /\ ~page.mixed /\ review.status # "idle" => review.preview = page.preview
    /\ ~page.mixed /\ page.reviewed # None =>
          page.preview # None /\ page.shown = Expected(page.preview, page.reviewed)
    /\ \A s \in Slot : apply[s].status # "idle" /\ ~apply[s].mixed =>
          apply[s].shown = Expected(apply[s].preview, apply[s].updates)

\* A price next to a line is the price of its units: the late answer for other
\* units or for another invoice is never shown (calculateRow).
PriceIsOfUnits ==
    \A l \in DOMAIN rows : rows[l].price # None =>
        rows[l].price = <<page.preview, l, rows[l].units>>

\* A request for a price is as old as its version tells, and no upload takes
\* over the prices of another.
PricesInOrder ==
    /\ upload.status = "ok" =>
          page.preview # upload.preview /\ \A c \in prices : c.preview # upload.preview
    /\ \A l \in DOMAIN rows : rows[l].timer => page.preview # None /\ rows[l].units # 0
    /\ \A c \in prices : c.price # None => c.price = <<c.preview, c.line, c.count>>
    /\ \A c \in prices : c.preview = page.preview =>
          /\ c.version <= rows[c.line].version
          /\ c.version = rows[c.line].version => c.count = rows[c.line].units

\* The inductive invariant of the proofs.
IInv == /\ TypeOK /\ CallsOK
        /\ AppliedOnce /\ AppliedIsMarked /\ AppliedIsShown /\ ShownIsExpected
        /\ PriceIsOfUnits /\ PricesInOrder
=============================================================================
