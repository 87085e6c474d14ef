------------------------------ MODULE MCConveyor ------------------------------
(***************************************************************************)
(* A small kitchen for TLC: a belt of three plates, two robots; a dish one *)
(* robot begins and the other ends, and one that the other does alone or   *)
(* (MCCooksBoth) that takes both robots the other way round.               *)
(***************************************************************************)
EXTENDS Conveyor, TLC

CONSTANTS r1, r2, soup, salad

MCRobot == {r1, r2}
MCDish == {soup, salad}
MCRecipe == {1, 2}
MCRecipeOf == (soup :> 1) @@ (salad :> 2)
MCCooks == <<<<{r1}, {r2}>>, <<{r2}>>>>
MCCooksBoth == <<<<{r1}, {r2}>>, <<{r2}, {r1}>>>>
MCStartPosition == (r1 :> 1) @@ (r2 :> 2)
==============================================================================
