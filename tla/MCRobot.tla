------------------------------- MODULE MCRobot -------------------------------
(***************************************************************************)
(* A small kitchen for TLC: two recipes, three actions with two tools, two *)
(* profiles neither of which can do everything.                            *)
(***************************************************************************)
EXTENDS Robot

MCToolOf == [peel |-> "peeler", cut |-> "knife", slice |-> "knife"]
MCAction == DOMAIN MCToolOf
MCTool == {"peeler", "knife"}
Act(a, d) == [name |-> a, duration |-> d]
MCInstructions == <<
    <<Act("peel", 1), Act("cut", 2), Act("slice", 1)>>,
    <<Act("cut", 1)>> >>
MCRecipe == DOMAIN MCInstructions
MCCapabilities == [cook1 |-> {"peel", "cut"}, cook2 |-> {"cut", "slice"}]
MCProfile == DOMAIN MCCapabilities
==============================================================================
