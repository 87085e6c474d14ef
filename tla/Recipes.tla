------------------------------- MODULE Recipes -------------------------------
(***************************************************************************)
(* Recipes, actions, tools and capability profiles: the static data that   *)
(* recipe_parser, robot_actions and capability_parser load once, and the   *)
(* questions the agents ask about it.  An instruction is an action with a  *)
(* duration; the tool an action needs is fixed by the action.              *)
(***************************************************************************)
EXTENDS Integers, Sequences, FiniteSetsExt

CONSTANTS Action,         \* action names of the robot_actions registry
          Tool,           \* robot_tool values
          ToolOf,         \* the tool each action requires
          Recipe,         \* recipe ids of recipes.json, all > 0
          Instructions,   \* recipe id -> sequence of [name, duration]
          Profile,        \* capability profiles (files under capabilities/)
          Capabilities,   \* profile -> set of action names
          RETOOLING_TIME  \* time units one tool change takes

(* recipes.json gives every instruction a positive duration: a robot        *)
(* counts it down to zero from there.                                       *)
ASSUME RecipesAssumption ==
    /\ ToolOf \in [Action -> Tool]
    /\ Recipe \subseteq Nat \ {0}
    /\ Instructions \in [Recipe -> Seq([name : Action, duration : Nat \ {0}])]
    /\ \A r \in Recipe : Len(Instructions[r]) > 0
    /\ Capabilities \in [Profile -> (SUBSET Action) \ {{}}]
    /\ RETOOLING_TIME \in Nat

Instruction == [name : Action, duration : Nat \ {0}]

(* The action queue of a recipe after `steps` of its steps are processed.   *)
Remaining(recipe, steps) ==
    SubSeq(Instructions[recipe], steps + 1, Len(Instructions[recipe]))

IsCapableTo(profile, act) == act.name \in Capabilities[profile]

RequiredTool(act) == ToolOf[act.name]

(* How many leading actions a robot with this profile can perform: it stops *)
(* at the first one it is not capable to.                                   *)
ProcessableSteps(profile, acts) ==
    CHOOSE n \in 0..Len(acts) :
        /\ \A i \in 1..n : IsCapableTo(profile, acts[i])
        /\ n < Len(acts) => ~ IsCapableTo(profile, acts[n + 1])

Processable(profile, acts) == SubSeq(acts, 1, ProcessableSteps(profile, acts))

(* The tool equipped once all of acts are performed.                        *)
ToolAfter(tool, acts) ==
    IF acts = <<>> THEN tool ELSE RequiredTool(acts[Len(acts)])

(* What a robot that holds `tool` needs to equip the one for act.           *)
Retooling(tool, act) ==
    IF tool # RequiredTool(act) THEN RETOOLING_TIME ELSE 0

(* Durations of acts plus one RETOOLING_TIME per change of tool, for a      *)
(* robot that holds `tool` when it starts.                                  *)
PlanTime(tool, acts) ==
    LET ToolBefore(i) == ToolAfter(tool, SubSeq(acts, 1, i - 1))
        Time(i)       == acts[i].duration + Retooling(ToolBefore(i), acts[i])
        Until[n \in 0..Len(acts)] == IF n = 0 THEN 0 ELSE Until[n - 1] + Time(n)
    IN Until[Len(acts)]
==============================================================================
