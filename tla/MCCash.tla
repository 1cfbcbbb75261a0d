------------------------------- MODULE MCCash -------------------------------
(***************************************************************************)
(* Instances of Cash for TLC: two bills, one after the other.              *)
(***************************************************************************)
EXTENDS Cash, TLC
CONSTANTS b1, b2
=============================================================================
