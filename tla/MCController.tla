----------------------------- MODULE MCController -----------------------------
(***************************************************************************)
(* A small kitchen for TLC: two robots that are needed for both recipes    *)
(* and stand in the wrong order for the first one, and after a swap or a   *)
(* reconfiguration for the second.                                         *)
(***************************************************************************)
EXTENDS Controller, TLC

CONSTANTS r1, r2

MCToolOf == [peel |-> "peeler", cut |-> "knife", slice |-> "knife"]
MCAction == DOMAIN MCToolOf
MCTool == {"peeler", "knife"}
Act(a) == [name |-> a, duration |-> 1]
MCInstructions == << <<Act("peel"), Act("cut"), Act("slice")>>,
                     <<Act("slice"), Act("peel")>> >>
MCRecipe == DOMAIN MCInstructions
MCCapabilities == [cook1 |-> {"peel", "cut"}, cook2 |-> {"cut", "slice"}]
MCProfile == DOMAIN MCCapabilities

MCRobot == {r1, r2}
MCStartPosition == (r1 :> 2) @@ (r2 :> 1)
MCStartProfile == (r1 :> "cook1") @@ (r2 :> "cook2")
==============================================================================
