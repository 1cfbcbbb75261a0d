-------------------------------- MODULE MCAdmin --------------------------------
(***************************************************************************)
(* The instance of Admin for TLC: two customers and an email that is       *)
(* nobody's; lists of users of which two names differ only in case; a      *)
(* UPC-A code, the same as an EAN-13, and the UPC-E code that expands to   *)
(* it.                                                                     *)
(***************************************************************************)
EXTENDS Admin, TLC

CONSTANTS u1, u2, ann, Ann, bob, upce, upca, ean13, i1, t1, t2, f1, f2

Costs == i1 :> 2
SmallLetters == (ann :> ann) @@ (Ann :> ann) @@ (bob :> bob)
EmailLists == {<<ann>>, <<Ann, ann>>, <<ann, ann>>}
Spellings == (upce :> <<upce, upca>>) @@ (upca :> <<upca, ean13>>) @@ (ean13 :> <<ean13, upca>>)

Symmetry == Permutations({t1, t2}) \cup Permutations({f1, f2}) \cup Permutations({u1, u2})
=============================================================================
