-------------------------- MODULE MCInvoiceImport --------------------------
(***************************************************************************)
(* The instance of InvoiceImport for TLC.  Reviews and applications need   *)
(* two lines, an item and an administrator who edits it; the prices of     *)
(* single lines need several units, and nothing of the others.  A          *)
(* behaviour does the one or the other.                                    *)
(***************************************************************************)
EXTENDS InvoiceImport, TLC

CONSTANT l1

VARIABLE part

\* Bound of the one part: units as the upload read them, all of them one.
Applies ==
    /\ \A l \in Line : rows'[l].version = 0
    /\ upload'.status = "ok" => \A l \in Line : upload'.units[l] <= 1

\* Bound of the other: the units of one line, which is never matched.
Prices ==
    /\ catalog' = catalog
    /\ \A l \in Line : rows'[l].items = {} /\ (rows'[l].version # 0 => l = l1)
    /\ upload'.status = "ok" => \A l \in Line : upload'.items[l] = {} /\ (upload'.units[l] # 0 => l = l1)

PartInit ==
    /\ Init
    /\ part \in {"apply", "prices"}

PartNext ==
    /\ Next
    /\ UNCHANGED part
    /\ part = "apply" => Applies
    /\ part = "prices" => Prices

PartSpec == PartInit /\ [][PartNext]_<<part, vars>>

Symmetry == Permutations(Preview) \cup Permutations(Row)
=============================================================================
