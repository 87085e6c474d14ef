------------------------------- MODULE MCSystem -------------------------------
(***************************************************************************)
(* The small kitchen of MCController, with its kitchen agent.              *)
(***************************************************************************)
EXTENDS System, MCController
==============================================================================
