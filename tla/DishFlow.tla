------------------------------- MODULE DishFlow -------------------------------
(***************************************************************************)
(* What the kitchen promises of every dish (src/README.md:18-23): it is    *)
(* assigned to a robot, which does some of its steps; the conveyor takes   *)
(* it from there, to another robot while steps remain, to the kitchen when *)
(* none does.  A dish is in one place and is delivered once.               *)
(***************************************************************************)
EXTENDS Naturals

CONSTANTS Dish,
          Visits      \* dish -> robots it has to visit

VARIABLES at,         \* dish -> where it is
          done        \* dish -> visits behind it

flowVars == <<at, done>>

Init ==
    /\ at = [d \in Dish |-> "ordered"]
    /\ done = [d \in Dish |-> 0]

Move(d, from, to) == at[d] = from /\ at' = [at EXCEPT ![d] = to]

Assign(d) == Move(d, "ordered", "robot") /\ UNCHANGED done

Retrieve(d) ==
    /\ Move(d, "robot", "belt")
    /\ done[d] < Visits[d]
    /\ done' = [done EXCEPT ![d] = @ + 1]

Pass(d) == Move(d, "belt", "robot") /\ done[d] < Visits[d] /\ UNCHANGED done

Deliver(d) == Move(d, "belt", "kitchen") /\ done[d] = Visits[d] /\ UNCHANGED done

Next == \E d \in Dish : Assign(d) \/ Retrieve(d) \/ Pass(d) \/ Deliver(d)

Spec == Init /\ [][Next]_flowVars
==============================================================================
