------------------------------ MODULE MCKitchen ------------------------------
(***************************************************************************)
(* A small kitchen for TLC: one robot that may move between two positions. *)
(***************************************************************************)
EXTENDS Kitchen, TLC

CONSTANT r1

MCPosition == {1, 2}
MCStartPosition == r1 :> 1
==============================================================================
