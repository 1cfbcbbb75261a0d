-------------------------------- MODULE MCScanning --------------------------------
(***************************************************************************)
(* The instance of Scanning for TLC.  With one digit, codes differ in      *)
(* their length.                                                           *)
(***************************************************************************)
EXTENDS Scanning, TLC

Symmetry == Permutations(Barcode) \cup Permutations(Code)
=============================================================================
