--------------------------------- MODULE Mape ---------------------------------
(***************************************************************************)
(* The scheduling strategies of kitchen_mape (src/mape_implementation).    *)
(* `robots` is the controller's map position_remote_robot_map_: position   *)
(* -> remote robot or None, visited from the greatest position down.  A    *)
(* strategy names the robot the next order goes to and the adaptations it  *)
(* asks for through its two callbacks.                                     *)
(***************************************************************************)
EXTENDS Recipes

CONSTANT None

Candidates(robots, act) ==
    {p \in DOMAIN robots : /\ robots[p] # None
                           /\ ~ robots[p].adapting
                           /\ IsCapableTo(robots[p].profile, act)}

(* The first in the map's order: the robot nearest to the end of the belt.  *)
Foremost(robots, act) ==
    LET ready == Candidates(robots, act)
    IN IF ready = {} THEN 0 ELSE Max(ready)

(* The actions beyond what the robot at p does in one go.                   *)
Rest(robots, p, todo) ==
    SubSeq(todo, ProcessableSteps(robots[p].profile, todo) + 1, Len(todo))

Next1(robots, todo) == Foremost(robots, Head(todo))
AfterNext(robots, todo) ==
    LET p == Next1(robots, todo)
    IN IF p = 0 \/ Rest(robots, p, todo) = <<>> THEN 0
       ELSE Foremost(robots, Head(Rest(robots, p, todo)))

(* The dish would have to go round: the robot after next stands before the  *)
(* next one.                                                                *)
OutOfOrder(robots, todo) ==
    LET p == Next1(robots, todo)
        q == AfterNext(robots, todo)
    IN p # 0 /\ q # 0 /\ robots[p].cached > robots[q].cached

ProfilesFor(act) == {f \in Profile : IsCapableTo(f, act)}

Switch(from, to) == [op |-> "switch", from |-> from, to |-> to]
Reconfigure(at, profile) == [op |-> "reconfigure", at |-> at, profile |-> profile]

simple_capability_check(robots, todo) == {<<>>}

simple_rearranging(robots, todo) ==
    IF OutOfOrder(robots, todo)
    THEN {<<Switch(robots[Next1(robots, todo)].cached,
                   robots[AfterNext(robots, todo)].cached)>>}
    ELSE {<<>>}

(* Each of the two gets some profile for the other's action; the first the  *)
(* unordered map of profiles offers may be any.                             *)
simple_reconfiguration(robots, todo) ==
    LET p == Next1(robots, todo)
        q == AfterNext(robots, todo)
    IN IF OutOfOrder(robots, todo)
       THEN {<<Reconfigure(robots[p].cached, f), Reconfigure(robots[q].cached, g)>> :
                f \in ProfilesFor(Head(Rest(robots, p, todo))),
                g \in ProfilesFor(Head(todo))}
       ELSE {<<>>}

(* The adaptations a strategy may ask for.                                  *)
Adaptations(strategy, robots, todo) ==
    CASE strategy = "simple_capability_check" -> simple_capability_check(robots, todo)
      [] strategy = "simple_rearranging" -> simple_rearranging(robots, todo)
      [] strategy = "simple_reconfiguration" -> simple_reconfiguration(robots, todo)
==============================================================================
