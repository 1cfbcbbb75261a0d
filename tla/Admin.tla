---------------------------------- MODULE Admin ----------------------------------
(***************************************************************************)
(* What writes the administrators' tables: the products as admin-web and   *)
(* inventory-v2 save them (ProductSave), the ledger (AdminLedger) and the  *)
(* users (AdminUsers).  They have one database but write no table in       *)
(* common (each has its own entries of audit_logs), so an interleaving of  *)
(* two of them shows nothing new: a behaviour picks the one at work.       *)
(***************************************************************************)
EXTENDS ProductSave, FiniteSets

CONSTANTS Email, Customer, Goods, Cost, Limit, MaxRow, MaxWork,                   \* ledger
          Name, Lower, Batch, Lists, MaxUser, MaxJob                             \* users

VARIABLES part,
          ledger, adjustments, requests, list, entered, form, fetches,           \* ledger
          users, userAudit, userThread, jobs, reports                            \* users

Ledger == INSTANCE AdminLedger WITH User <- Customer, Item <- Goods
Users == INSTANCE AdminUsers WITH audit <- userAudit, thread <- userThread

ASSUME AdminAssumption == ProductAssumption /\ Ledger!LedgerAssumption /\ Users!UsersAssumption

ledgerVars == <<ledger, adjustments, requests, list, entered, form, fetches>>
userVars == <<users, userAudit, userThread, jobs, reports>>

PartInit ==
    /\ part \in {"ledger", "users", "products"}
    /\ Ledger!Init /\ Users!Init /\ Init
    /\ part # "products" => app = "admin"

PartNext ==
    /\ UNCHANGED part
    /\ \/ part = "ledger" /\ Ledger!Next /\ UNCHANGED <<userVars, vars>>
       \/ part = "users" /\ Users!Next /\ UNCHANGED <<ledgerVars, vars>>
       \/ part = "products" /\ Next /\ UNCHANGED <<ledgerVars, userVars>>

PartSpec == PartInit /\ [][PartNext]_<<part, ledgerVars, userVars, vars>>

----------------------------------------------------------------------------
(* Properties, of the modules; SavedCanBeScanned, OneProduct and PackIsKept *)
(* are ProductSave's.                                                      *)

\* The types of the variables.
PartTypeOK == TypeOK /\ Ledger!TypeOK /\ Users!TypeOK

\* The order of the transactions' ids is the order of time, whoever
\* writes, and a row that is there never changes.
InOrder == Ledger!InOrder

\* The answers of web/api.js tell what happened: what add-transactions and
\* refunds inserted and could not, whichever writers came between, and who was
\* reset, unless users were written meanwhile; and what was answered is not
\* submitted again.
AnswersAreTrue == Ledger!ReportIsTrue /\ Ledger!AnsweredIsGone /\ Users!ResetIsReported

\* What was written together belongs together, whoever inserts meanwhile: an
\* adjustment and the one ledger row that it names, a product made for a barcode
\* and that barcode.
AllOrNothing == Ledger!AdjustmentsMatch /\ NoOrphan

\* The last audit entry of a user tells his name and email, and that of a product
\* its whole price; its unit price too, until update_info sets another, which it
\* does without an entry.
AuditIsTrue == Users!AuditTellsUser /\ AuditTellsRow

\* A refund picked from the offers of its own email is of something bought.
RefundedWasBought == Ledger!RefundedWasBought

\* Users that differ only in case were not both made by the tool, unless their
\* sessions overlapped.
NoVariants == Users!NoVariants
=============================================================================
