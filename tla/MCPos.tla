------------------------------- MODULE MCPos -------------------------------
(***************************************************************************)
(* Instances of Pos for TLC: two users who may follow each other at the    *)
(* kiosk, one item, one card that is blank or registered.                  *)
(***************************************************************************)
EXTENDS Pos, TLC

CONSTANTS alice, bob

Users == Permutations({alice, bob})
=============================================================================
