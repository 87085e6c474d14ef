------------------------------ MODULE Conveyor ------------------------------
(***************************************************************************)
(* The conveyor agent (src/conveyor).  A circular belt of plates, position *)
(* 0 being the output.  The worker thread runs io_context_, a FIFO of      *)
(* posted handlers and timer completions, and owns the plates, the         *)
(* notifications, the next-robot requests and the map of remote robots;    *)
(* the server thread and one thread per remote robot only post to it; the  *)
(* client thread keeps the clients of controller and kitchen alive.  The   *)
(* worker calls robots, controller and kitchen in the midst of its         *)
(* handlers: each call is a step of its own, and todo holds what the loop  *)
(* around it has still to visit, in any order (unordered containers).      *)
(*                                                                         *)
(* Plates are indexed by their position; a plate is occupied exactly when  *)
(* a dish is on it (place_recipe_id, set_occupied and occupied_plates_ are *)
(* always changed together).  The identity of a dish is a ghost: the code  *)
(* compares recipe ids only.  Robots, controller and kitchen are external, *)
(* as the conveyor uses them.                                              *)
(***************************************************************************)
EXTENDS Integers, Sequences, FiniteSets

CONSTANTS ConveyorSize,     \* plates, one more than robots
          Robot, Dish, Recipe,
          RecipeOf,         \* dish -> recipe id
          Cooks,            \* recipe -> for each visit the robots able to do it
          StartPosition,    \* robot -> position it starts at
          None,
          MaxMoves,         \* bound: position switches and swaps
          MaxFaults,        \* bound: broken connections, crashes, lost calls
          MaxDisturbances,  \* bound: moves and faults together
          LosesAnswers      \* may an executed call fail for its caller?

Position == 0..(ConveyorSize - 1)
OUTPUT_POSITION == 0
RobotPosition == Position \ {OUTPUT_POSITION}
Visits == [d \in Dish |-> Len(Cooks[RecipeOf[d]])]

ASSUME ConveyorAssumption ==
    /\ ConveyorSize \in Nat /\ ConveyorSize > 1
    /\ RecipeOf \in [Dish -> Recipe]
    /\ Recipe \subseteq Nat \ {0}
    /\ Cooks \in [Recipe -> Seq((SUBSET Robot) \ {{}})]
    /\ \A r \in Recipe : Len(Cooks[r]) > 0
    /\ StartPosition \in [Robot -> RobotPosition]
    /\ None \notin Robot \cup Dish
    /\ {MaxMoves, MaxFaults, MaxDisturbances} \subseteq Nat
    /\ LosesAnswers \in BOOLEAN

(* The controller registers one robot per position (controller.cpp:163).    *)
ASSUME StartsApart ==
    \A r, s \in Robot : StartPosition[r] = StartPosition[s] => r = s

VARIABLES
    plates,            \* position -> plate there
    notifications,     \* keys of notifications_map_
    requests,          \* next_robot_request_queue_
    state_status,
    known,             \* position_remote_robot_map_
    io,                \* handlers queued in io_context_
    timer,             \* what steady_timer_ is armed for
    worker, todo,      \* the worker's loop and what it has to visit
    running,           \* running_
    client,            \* controller_client_ and kitchen_client_
    asked,             \* external: requests the controller has to answer
    place, bound_for,  \* external: a robot's position; where it goes, 0 if nowhere
    up,                \* external: the robot is alive
    queue, ready,      \* external: a robot's dishes; the first is done
    ordered, delivered,\* external: dishes not yet begun; dishes in the kitchen
    receiver,          \* external: the controller's way back to the conveyor
    lost,              \* history: dish -> how often a crashed robot or a lost
                       \* answer took it,
    overwritten,       \* how often another was put on its plate,
    copied,            \* how often a lost answer left it in two places
    forgotten,         \* history: an answer to the present requests got lost
    repeated,          \* history: a dish was announced twice
    moves, faults      \* counters of the bounds

beltVars   == <<plates, notifications, requests, state_status>>
workVars   == <<worker, todo>>
timerVars  == <<timer, running>>
robotVars  == <<place, bound_for, up, queue, ready>>
dishVars   == <<ordered, delivered, lost, overwritten, copied>>
callVars   == <<receiver, forgotten, repeated>>
boundVars  == <<moves, faults>>
vars == <<beltVars, workVars, timerVars, robotVars, dishVars, boundVars, known,
          io, client, asked, callVars>>

------------------------------------------------------------------------------
Agent == {"controller", "kitchen"}
EmptyPlate == [dish |-> None, steps |-> 0, finished |-> FALSE, target |-> 0]
Occupied == {p \in Position : plates[p].dish # None}
RecipeAt(p) == IF plates[p].dish = None THEN 0 ELSE RecipeOf[plates[p].dish]

(* remote_robot: cached is 0 until the first notification of its            *)
(* subscription; link is stopped once running_ is false.                    *)
Remote(r) == [robot |-> r, cached |-> 0, link |-> "live"]

Init ==
    /\ plates = [p \in Position |-> EmptyPlate]
    /\ notifications = {} /\ requests = <<>> /\ state_status = "IDLING"
    /\ known = [p \in Position |-> None]
    /\ io = <<>> /\ timer = "none" /\ worker = "idle" /\ todo = {}
    /\ running = TRUE
    /\ client = [a \in Agent |-> "live"] /\ asked = <<>>
    /\ place = StartPosition /\ bound_for = [r \in Robot |-> 0]
    /\ up = [r \in Robot |-> TRUE]
    /\ queue = [r \in Robot |-> <<>>] /\ ready = [r \in Robot |-> FALSE]
    /\ ordered = Dish /\ delivered = <<>>
    /\ receiver = TRUE /\ forgotten = FALSE /\ repeated = FALSE
    /\ lost = [d \in Dish |-> 0]
    /\ overwritten = [d \in Dish |-> 0] /\ copied = [d \in Dish |-> 0]
    /\ moves = 0 /\ faults = 0

Post(h) == io' = Append(io, h)

(* The worker thread takes the next handler of the given kind.              *)
Take(op) ==
    /\ running /\ worker = "idle"
    /\ io # <<>> /\ Head(io).op = op
    /\ io' = Tail(io)

(* expires_from_now and async_wait: a wait already armed is cancelled, and  *)
(* its handler answers the error with stop().                               *)
Arm(op) ==
    /\ timer' = op
    /\ IF timer = "none" THEN UNCHANGED running ELSE running' = FALSE

Undisturbed == moves + faults < MaxDisturbances
Fault == faults < MaxFaults /\ Undisturbed /\ faults' = faults + 1

(* The worker's loop at `stage` visits x next, and leaves the loop.         *)
Visit(stage, x) ==
    /\ running /\ worker = stage /\ x \in todo
    /\ todo' = todo \ {x}
    /\ UNCHANGED worker
Finished(stage) == running /\ worker = stage /\ todo = {}
Enter(stage, elements) == worker' = stage /\ todo' = elements
Leave == worker' = "idle" /\ UNCHANGED todo

------------------------------------------------------------------------------
(* Remote robots.                                                           *)

Stopped(p) == known[p] # None /\ known[p].link = "stopped"

remove_stopped_robots == [p \in Position |-> IF Stopped(p) THEN None ELSE known[p]]

Reachable(p) == known[p] # None /\ known[p].link = "live"

(* The robot at p no longer answers: its remote_robot stops.                *)
StopRemote(p) ==
    known' = IF known[p] = None THEN known
             ELSE [known EXCEPT ![p].link = "stopped"]

(* A robot named by a notification or by the controller replaces the one    *)
(* known at its position, if that is another; ok tells whether a connection *)
(* could be made where one was needed.                                      *)
Reach(p, r, ok) ==
    LET robots == remove_stopped_robots
        Same   == robots[p] # None /\ robots[p].robot = r
    IN IF Same
       THEN ok /\ known' = robots /\ UNCHANGED faults
       ELSE /\ known' = [robots EXCEPT ![p] = IF ok THEN Remote(r) ELSE None]
            /\ IF ok THEN up[r] /\ UNCHANGED faults
               ELSE IF up[r] THEN Fault ELSE UNCHANGED faults

------------------------------------------------------------------------------
(* Notification of a dish ready at a robot.                                 *)

NoteNotification(p) ==
    /\ notifications' = notifications \cup {p}
    /\ IF state_status = "IDLING"
       THEN state_status' = "MOVING" /\ Arm("retrieve")
       ELSE UNCHANGED <<state_status, timerVars>>

HandleFinishedOrderNotification ==
    /\ Take("notified")
    /\ LET h == Head(io)
       IN \/ Reach(h.position, h.robot, TRUE) /\ NoteNotification(h.position)
          \/ /\ Reach(h.position, h.robot, FALSE)
             /\ UNCHANGED <<notifications, state_status, timerVars>>
    /\ UNCHANGED <<plates, requests, workVars, robotVars, dishVars, moves,
                   client, asked, callVars>>

------------------------------------------------------------------------------
(* handle_retrieve_finished_orders.                                         *)

Retrieving == Enter("retrieve", notifications)

HandleRetrieveFinishedOrders ==
    /\ Take("retrieve")
    /\ known' = remove_stopped_robots
    /\ Retrieving
    /\ UNCHANGED <<beltVars, timerVars, robotVars, dishVars, boundVars, client,
                   asked, callVars>>

(* Another dish passes there: the notification waits for a free plate.      *)
RetrieveLater(p) ==
    /\ Visit("retrieve", p)
    /\ p \in Occupied
    /\ UNCHANGED <<beltVars, timerVars, robotVars, dishVars, boundVars, known,
                   io, client, asked, callVars>>

(* The robot gives the first dish of its queue away, if that awaits pickup. *)
GiveAway(r) ==
    /\ ready' = [ready EXCEPT ![r] = FALSE]
    /\ queue' = [queue EXCEPT ![r] = Tail(@)]
    /\ UNCHANGED <<place, bound_for, up>>

(* Mutant: the visit just made is not counted for the end.                  *)
HandedOver_Late(r) ==
    LET t == Head(queue[r])
    IN [dish |-> t.dish, steps |-> t.steps + 1,
        finished |-> t.steps = Visits[t.dish]]

HandedOver(r) ==
    LET t == Head(queue[r])
    IN [dish |-> t.dish, steps |-> t.steps + 1,
        finished |-> t.steps + 1 = Visits[t.dish]]

(* Mutant: every dish is taken for finished.                                *)
PlaceDish_Finished(p, dish) ==
    plates' = [plates EXCEPT ![p] = [@ EXCEPT !.dish = dish.dish,
                                              !.steps = dish.steps,
                                              !.finished = TRUE]]

(* handle_handover_finished_order: the plate at the robot's own position.   *)
PlaceDish(p, dish) ==
    plates' = [plates EXCEPT ![p] = [@ EXCEPT !.dish = dish.dish,
                                              !.steps = dish.steps,
                                              !.finished = dish.finished]]

(* Once more for dish d in one of the histories.                            *)
Count(history, d) == [history EXCEPT ![d] = @ + 1]

(* Another dish on the plate is gone.                                       *)
Overwrite(p) ==
    overwritten' = IF p \in Occupied THEN Count(overwritten, plates[p].dish)
                   ELSE overwritten


Unoccupied(p) == p \notin Occupied

RetrieveDish(p) ==
    /\ Visit("retrieve", p)
    /\ Unoccupied(p) /\ Reachable(p)
    /\ LET r == known[p].robot
       IN IF ready[r]
          THEN /\ PlaceDish(place[r], HandedOver(r))
               /\ Overwrite(place[r])
               /\ GiveAway(r)
          ELSE UNCHANGED <<plates, overwritten, robotVars>>
    /\ notifications' = notifications \ {p}
    /\ UNCHANGED <<requests, state_status, timerVars, ordered, delivered, lost,
                   copied, boundVars, known, io, client, asked, callVars>>

(* The call fails and the notification is forgotten all the same; the robot *)
(* may have given its dish away.                                            *)
RetrieveFails(p) ==
    /\ Visit("retrieve", p)
    /\ Unoccupied(p)
    /\ IF Reachable(p) THEN Fault ELSE UNCHANGED faults
    /\ notifications' = notifications \ {p}
    /\ StopRemote(p)
    /\ \/ UNCHANGED <<robotVars, lost>>
       \/ /\ LosesAnswers /\ Reachable(p) /\ ready[known[p].robot]
          /\ GiveAway(known[p].robot)
          /\ lost' = Count(lost, HandedOver(known[p].robot).dish)
    /\ UNCHANGED <<plates, requests, state_status, timerVars, ordered, delivered,
                   overwritten, copied, moves, io, client, asked, callVars>>

------------------------------------------------------------------------------
(* request_next_robots.                                                     *)

(* Mutant: dishes that have a target are asked for again.                   *)
Waiting_Again(p) == p \in Occupied /\ ~ plates[p].finished

Waiting(p) == p \in Occupied /\ ~ plates[p].finished /\ plates[p].target = 0

Requesting == Enter("request", {p \in Position : Waiting(p)})

RetrieveDone ==
    /\ Finished("retrieve")
    /\ Requesting
    /\ UNCHANGED <<beltVars, timerVars, robotVars, dishVars, boundVars, known,
                   io, client, asked, callVars>>

Question(p) == [recipe |-> RecipeAt(p), steps |-> plates[p].steps]

RequestNextRobot(p) ==
    /\ Visit("request", p)
    /\ client["controller"] = "live"
    /\ asked' = Append(asked, Question(p))
    /\ requests' = Append(requests, p)
    /\ UNCHANGED <<plates, notifications, state_status, timerVars, robotVars,
                   dishVars, boundVars, known, io, client, callVars>>

(* Without an answer the request is not queued, even if the controller got  *)
(* it; the dish goes round and is asked for again.                          *)
RequestFails(p) ==
    /\ Visit("request", p)
    /\ \/ client["controller"] # "live" /\ UNCHANGED <<asked, faults>>
       \/ client["controller"] = "live" /\ Fault /\ UNCHANGED asked
       \/ /\ client["controller"] = "live" /\ Fault
          /\ asked' = Append(asked, Question(p))
    /\ UNCHANGED <<beltVars, timerVars, robotVars, dishVars, moves, known, io,
                   client, callVars>>

(* Mutant: the belt moves while answers are outstanding.                    *)
StartMoving_Now == Arm("move")

StartMoving == IF requests = <<>> THEN Arm("move") ELSE UNCHANGED timerVars

RequestsDone ==
    /\ Finished("request")
    /\ Leave
    /\ StartMoving
    /\ UNCHANGED <<beltVars, robotVars, dishVars, boundVars, known, io, client,
                   asked, callVars>>

------------------------------------------------------------------------------
(* handle_receive_next_robot.                                               *)

IgnoreNextRobot ==
    /\ Take("next_robot")
    /\ requests = <<>>
    /\ known' = remove_stopped_robots
    /\ UNCHANGED <<beltVars, workVars, timerVars, robotVars, dishVars, boundVars,
                   client, asked, callVars>>

(* The robot named in the answer becomes known, whatever the answer is for. *)
MeetRobot(h) ==
    IF h.position = 0
    THEN known' = remove_stopped_robots /\ UNCHANGED faults
    ELSE \E ok \in BOOLEAN : Reach(h.position, h.robot, ok)

MismatchedNextRobot ==
    /\ Take("next_robot")
    /\ requests # <<>> /\ RecipeAt(Head(requests)) # Head(io).recipe
    /\ MeetRobot(Head(io))
    /\ UNCHANGED <<beltVars, workVars, timerVars, robotVars, dishVars, moves,
                   client, asked, callVars>>

HandleReceiveNextRobot ==
    /\ Take("next_robot")
    /\ requests # <<>> /\ RecipeAt(Head(requests)) = Head(io).recipe
    /\ MeetRobot(Head(io))
    /\ requests' = Tail(requests)
    /\ plates' = IF Head(io).position = 0 THEN plates
                 ELSE [plates EXCEPT ![Head(requests)].target = Head(io).position]
    /\ IF Tail(requests) = <<>> THEN Arm("move") ELSE UNCHANGED timerVars
    /\ UNCHANGED <<notifications, state_status, workVars, robotVars, dishVars,
                   moves, client, asked, callVars>>

------------------------------------------------------------------------------
(* move_conveyor and deliver_finished_order.                                *)

(* Mutant: the positions do not wrap.                                       *)
Moved_NoWrap == [p \in 1..ConveyorSize |-> plates[p - 1]]

Moved == [p \in Position |-> plates[(p - 1) % ConveyorSize]]

AtOutput(plate, p) == plate.finished /\ p = OUTPUT_POSITION
AtTarget(plate, p) == ~ plate.finished /\ plate.target = p /\ p # 0

(* The loop over the occupied plates passes by those that have not arrived. *)
Arrived(belt) ==
    {p \in DOMAIN belt : /\ belt[p].dish # None
                         /\ AtOutput(belt[p], p) \/ AtTarget(belt[p], p)}

MoveConveyor ==
    /\ Take("move")
    /\ plates' = Moved
    /\ known' = remove_stopped_robots
    /\ Enter("deliver", Arrived(Moved))
    /\ UNCHANGED <<notifications, requests, state_status, timerVars, robotVars,
                   dishVars, boundVars, client, asked, callVars>>

(* Mutant: only the target is reset.                                        *)
reset_plate_Target(p) == plates' = [plates EXCEPT ![p].target = 0]

reset_plate(p) == plates' = [plates EXCEPT ![p] = EmptyPlate]
LoseTarget(p) == plates' = [plates EXCEPT ![p].target = 0]

DeliverToKitchen(p) ==
    /\ Visit("deliver", p)
    /\ AtOutput(plates[p], p)
    /\ client["kitchen"] = "live"
    /\ delivered' = Append(delivered, plates[p].dish)
    /\ reset_plate(p)
    /\ UNCHANGED <<notifications, requests, state_status, timerVars, robotVars,
                   ordered, lost, overwritten, copied, boundVars, known, io,
                   client, asked, callVars>>

(* The dish stays on its plate and goes round, even if the kitchen has it.  *)
DeliverToKitchenFails(p) ==
    /\ Visit("deliver", p)
    /\ AtOutput(plates[p], p)
    /\ IF client["kitchen"] = "live" THEN Fault ELSE UNCHANGED faults
    /\ \/ UNCHANGED <<delivered, copied>>
       \/ /\ LosesAnswers /\ client["kitchen"] = "live"
          /\ delivered' = Append(delivered, plates[p].dish)
          /\ copied' = Count(copied, plates[p].dish)
    /\ UNCHANGED <<beltVars, timerVars, robotVars, ordered, lost, overwritten,
                   moves, known, io, client, asked, callVars>>

Available(r) == up[r] /\ bound_for[r] = 0
CanCook(r, recipe, steps) ==
    steps < Len(Cooks[recipe]) /\ r \in Cooks[recipe][steps + 1]

(* receive_task of the robot; get_position and is_available, read before,   *)
(* refuse nothing that the robot would not refuse.                          *)
Accepts(r, p) ==
    /\ Available(r) /\ place[r] = p
    /\ CanCook(r, RecipeAt(p), plates[p].steps)

GiveTask(r, p) ==
    /\ queue' = [queue EXCEPT ![r] = Append(@, [dish |-> plates[p].dish,
                                               steps |-> plates[p].steps])]
    /\ UNCHANGED <<place, bound_for, up, ready>>

DeliverToRobot(p) ==
    /\ Visit("deliver", p)
    /\ AtTarget(plates[p], p) /\ Reachable(p)
    /\ Accepts(known[p].robot, p)
    /\ GiveTask(known[p].robot, p)
    /\ reset_plate(p)
    /\ UNCHANGED <<notifications, requests, state_status, timerVars, dishVars,
                   boundVars, known, io, client, asked, callVars>>

(* The robot is unknown, elsewhere, unavailable or refuses.                 *)
RobotRefuses(p) ==
    /\ Visit("deliver", p)
    /\ AtTarget(plates[p], p)
    /\ known[p] = None \/ (Reachable(p) /\ ~ Accepts(known[p].robot, p))
    /\ LoseTarget(p)
    /\ UNCHANGED <<notifications, requests, state_status, timerVars, robotVars,
                   dishVars, boundVars, known, io, client, asked, callVars>>

(* A read or the call fails: the dish stays, even if the robot has it.      *)
DeliverToRobotFails(p) ==
    /\ Visit("deliver", p)
    /\ AtTarget(plates[p], p) /\ known[p] # None
    /\ IF Reachable(p) THEN Fault ELSE UNCHANGED faults
    /\ LoseTarget(p)
    /\ StopRemote(p)
    /\ \/ UNCHANGED <<robotVars, copied>>
       \/ /\ LosesAnswers /\ Reachable(p) /\ Accepts(known[p].robot, p)
          /\ GiveTask(known[p].robot, p)
          /\ copied' = Count(copied, plates[p].dish)
    /\ UNCHANGED <<notifications, requests, state_status, timerVars, ordered,
                   delivered, lost, overwritten, moves, io, client, asked,
                   callVars>>

(* Mutant: the belt idles although notifications are waiting.               *)
DetermineNextMovement_Idle ==
    IF Occupied # {} THEN Requesting /\ UNCHANGED <<state_status, known>>
    ELSE Leave /\ state_status' = "IDLING" /\ UNCHANGED known

DetermineNextMovement ==
    IF notifications # {}
    THEN /\ known' = remove_stopped_robots
         /\ Retrieving
         /\ UNCHANGED state_status
    ELSE IF Occupied # {}
    THEN Requesting /\ UNCHANGED <<state_status, known>>
    ELSE Leave /\ state_status' = "IDLING" /\ UNCHANGED known

DeliverDone ==
    /\ Finished("deliver")
    /\ DetermineNextMovement
    /\ UNCHANGED <<plates, notifications, requests, timerVars, robotVars,
                   dishVars, boundVars, io, client, asked, callVars>>

------------------------------------------------------------------------------
(* Handlers posted by the client thread and by the remote robots' threads.  *)

HandleReconnected ==
    /\ Take("reconnected")
    /\ IF state_status = "MOVING" /\ requests # <<>>
       THEN requests' = <<>> /\ forgotten' = FALSE /\ DetermineNextMovement
       ELSE UNCHANGED <<requests, forgotten, state_status, known, workVars>>
    /\ UNCHANGED <<plates, notifications, timerVars, robotVars, dishVars,
                   boundVars, client, asked, receiver, repeated>>

(* get_position of the robot known at p is read and is not p; a robot that  *)
(* does not answer reads as 0.                                              *)
NotAt(robots, p) ==
    robots[p] = None \/ robots[p].link # "live" \/ place[robots[p].robot] # p

(* Mutant: the entries are swapped without looking where the robots are.    *)
Swapped_Blindly(robots, old, new) ==
    [robots EXCEPT ![old] = robots[new], ![new] = robots[old]]

Swapped(robots, old, new) ==
    IF NotAt(robots, old) /\ NotAt(robots, new)
    THEN [robots EXCEPT ![old] = robots[new], ![new] = robots[old]]
    ELSE robots

(* Reading a position over a broken connection stops the remote robot; the  *)
(* second is read only if the first is not where it was.                    *)
ReadPositions(robots, old, new) ==
    LET Read == IF NotAt(robots, old) THEN {old, new} ELSE {old}
    IN [p \in Position |->
           IF p \in Read /\ robots[p] # None /\ robots[p].link # "live"
           THEN [robots[p] EXCEPT !.link = "stopped"] ELSE robots[p]]

HandlePositionSwapped ==
    /\ Take("swapped")
    /\ LET h == Head(io)
           robots == ReadPositions(remove_stopped_robots, h.old, h.new)
       IN known' = Swapped(robots, h.old, h.new)
    /\ UNCHANGED <<beltVars, workVars, timerVars, robotVars, dishVars, boundVars,
                   client, asked, callVars>>

TimerExpires ==
    /\ running /\ timer # "none"
    /\ Post([op |-> timer])
    /\ timer' = "none"
    /\ UNCHANGED <<beltVars, workVars, running, robotVars, dishVars, boundVars,
                   known, client, asked, callVars>>

(* Client thread of a remote robot: the subscription reports a position.    *)
PositionChanged(p) ==
    /\ running /\ Reachable(p)
    /\ LET k == known[p] IN
       /\ place[k.robot] # k.cached
       /\ known' = [known EXCEPT ![p].cached = place[k.robot]]
       /\ IF k.cached = 0 THEN UNCHANGED io
          ELSE Post([op |-> "swapped", old |-> k.cached, new |-> place[k.robot]])
    /\ UNCHANGED <<beltVars, workVars, timerVars, robotVars, dishVars, boundVars,
                   client, asked, callVars>>

(* ... or its iteration fails.                                              *)
RemoteStops(p) ==
    /\ running /\ known[p] # None /\ known[p].link = "broken"
    /\ StopRemote(p)
    /\ UNCHANGED <<beltVars, workVars, timerVars, robotVars, dishVars, boundVars,
                   io, client, asked, callVars>>

(* Client thread: UA_Client_run_iterate fails on a broken connection ...    *)
ClientDrops(a) ==
    /\ running /\ client[a] = "stale"
    /\ client' = [client EXCEPT ![a] = "null"]
    /\ UNCHANGED <<beltVars, workVars, timerVars, robotVars, dishVars, boundVars,
                   known, io, asked, callVars>>

(* Mutant: nothing is posted after a reconnection.                          *)
Resumes_Never(a) == UNCHANGED io

Resumes(a) ==
    IF a = "controller" THEN Post([op |-> "reconnected"]) ELSE UNCHANGED io

(* ... and discover_and_connect succeeds.                                   *)
ClientReconnects(a) ==
    /\ running /\ client[a] = "null"
    /\ client' = [client EXCEPT ![a] = "live"]
    /\ Resumes(a)
    /\ UNCHANGED <<beltVars, workVars, timerVars, robotVars, dishVars, boundVars,
                   known, asked, callVars>>

------------------------------------------------------------------------------
(* The robots, the controller and the kitchen around the conveyor.          *)

KitchenAssigns(d, r) ==
    /\ d \in ordered /\ Available(r) /\ CanCook(r, RecipeOf[d], 0)
    /\ ordered' = ordered \ {d}
    /\ queue' = [queue EXCEPT ![r] = Append(@, [dish |-> d, steps |-> 0])]
    /\ UNCHANGED <<beltVars, workVars, timerVars, place, bound_for, up, ready,
                   delivered, lost, overwritten, copied, boundVars, known, io,
                   client, asked, callVars>>

Notify(r) == Post([op |-> "notified", position |-> place[r], robot |-> r])

RobotFinishes(r) ==
    /\ up[r] /\ queue[r] # <<>> /\ ~ ready[r] /\ place[r] # bound_for[r]
    /\ ready' = [ready EXCEPT ![r] = TRUE]
    /\ Notify(r)
    /\ UNCHANGED <<beltVars, workVars, timerVars, place, bound_for, up, queue,
                   dishVars, boundVars, known, client, asked, callVars>>

(* The robot announces its dish again after it lost the connection.         *)
RobotReannounces(r) ==
    /\ up[r] /\ ready[r]
    /\ Fault
    /\ Notify(r)
    /\ repeated' = TRUE
    /\ UNCHANGED <<beltVars, workVars, timerVars, robotVars, dishVars, moves,
                   known, client, asked, receiver, forgotten>>

(* The controller sends r to p, and the robot there to r's position.        *)
Rearrange(r, p) ==
    /\ moves < MaxMoves /\ Undisturbed
    /\ Available(r) /\ place[r] # p
    /\ \A s \in Robot : up[s] => bound_for[s] \notin {p, place[r]}
    /\ \A s \in Robot : up[s] /\ place[s] = p => Available(s)
    /\ bound_for' = [s \in Robot |->
                        IF s = r THEN p
                        ELSE IF up[s] /\ place[s] = p THEN place[r]
                        ELSE bound_for[s]]
    /\ moves' = moves + 1
    /\ UNCHANGED <<beltVars, workVars, timerVars, place, up, queue, ready,
                   dishVars, faults, known, io, client, asked, callVars>>

(* A robot moves between two dishes only, and then does nothing until the   *)
(* controller commits the move, which it does once both robots have moved.  *)
RobotMoves(r) ==
    /\ up[r] /\ bound_for[r] \notin {0, place[r]} /\ ~ ready[r]
    /\ place' = [place EXCEPT ![r] = bound_for[r]]
    /\ UNCHANGED <<beltVars, workVars, timerVars, bound_for, up, queue, ready,
                   dishVars, boundVars, known, io, client, asked, callVars>>

ControllerCommits(r) ==
    /\ up[r] /\ place[r] = bound_for[r]
    /\ \A s \in Robot \ {r} : up[s] => place[s] # place[r]
    /\ bound_for' = [bound_for EXCEPT ![r] = 0]
    /\ UNCHANGED <<beltVars, workVars, timerVars, place, up, queue, ready,
                   dishVars, boundVars, known, io, client, asked, callVars>>

(* The controller answers in the order it was asked, with a robot that is   *)
(* available now, or with none.                                             *)
Suitable(q) == {r \in Robot : Available(r) /\ CanCook(r, q.recipe, q.steps)}
NextRobot(p, r, recipe) ==
    [op |-> "next_robot", position |-> p, robot |-> r, recipe |-> recipe]

ControllerAnswers ==
    /\ asked # <<>>
    /\ asked' = Tail(asked)
    /\ LET q == Head(asked) IN
       \/ /\ receiver
          /\ \E r \in Suitable(q) : Post(NextRobot(place[r], r, q.recipe))
          /\ UNCHANGED <<faults, forgotten>>
       \/ /\ receiver
          /\ IF Suitable(q) = {} THEN UNCHANGED faults ELSE Fault
          /\ Post(NextRobot(0, None, q.recipe))
          /\ UNCHANGED forgotten
       \/ ~ receiver /\ forgotten' = TRUE /\ UNCHANGED <<io, faults>>
    /\ UNCHANGED <<beltVars, workVars, timerVars, robotVars, dishVars, moves,
                   known, client, receiver, repeated>>

(* Its call of receive_next_robot fails, and it forgets the request.        *)
ControllerAnswerLost ==
    /\ LosesAnswers /\ asked # <<>>
    /\ Fault
    /\ asked' = Tail(asked)
    /\ forgotten' = TRUE
    /\ UNCHANGED <<beltVars, workVars, timerVars, robotVars, dishVars, moves,
                   known, io, client, receiver, repeated>>

(* A controller that loses its connection to the conveyor keeps the stopped *)
(* receiver (controller.cpp:240): from then on it answers nothing.          *)
ReceiverBreaks ==
    /\ receiver
    /\ Fault
    /\ receiver' = FALSE
    /\ UNCHANGED <<beltVars, workVars, timerVars, robotVars, dishVars, moves,
                   known, io, client, asked, forgotten, repeated>>

(* The connection breaks; a controller that crashed forgets its requests.   *)
ConnectionBreaks(a) ==
    /\ client[a] = "live"
    /\ Fault
    /\ client' = [client EXCEPT ![a] = "stale"]
    /\ \/ UNCHANGED <<asked, receiver>>
       \/ a = "controller" /\ asked' = <<>> /\ receiver' = TRUE
    /\ UNCHANGED <<beltVars, workVars, timerVars, robotVars, dishVars, moves,
                   known, io, forgotten, repeated>>

LinkBreaks(p) ==
    /\ Reachable(p)
    /\ Fault
    /\ known' = [known EXCEPT ![p].link = "broken"]
    /\ UNCHANGED <<beltVars, workVars, timerVars, robotVars, dishVars, moves, io,
                   client, asked, callVars>>

AtRobot(d)  == {t \in UNION {{r} \X DOMAIN queue[r] : r \in Robot} :
                    queue[t[1]][t[2]].dish = d}
TasksOf(r, d) == {t \in AtRobot(d) : t[1] = r}

(* A robot that crashes is gone, and so are its dishes.                     *)
RobotCrashes(r) ==
    /\ up[r]
    /\ Fault
    /\ up' = [up EXCEPT ![r] = FALSE]
    /\ queue' = [queue EXCEPT ![r] = <<>>]
    /\ ready' = [ready EXCEPT ![r] = FALSE]
    /\ lost' = [d \in Dish |-> lost[d] + Cardinality(TasksOf(r, d))]
    /\ known' = [p \in Position |->
                    IF Reachable(p) /\ known[p].robot = r
                    THEN [known[p] EXCEPT !.link = "broken"] ELSE known[p]]
    /\ UNCHANGED <<beltVars, workVars, timerVars, place, bound_for, ordered,
                   delivered, overwritten, copied, moves, io, client, asked,
                   callVars>>

------------------------------------------------------------------------------
RetrieveStep(p) == RetrieveLater(p) \/ RetrieveDish(p) \/ RetrieveFails(p)
RequestStep(p)  == RequestNextRobot(p) \/ RequestFails(p)
DeliverStep(p)  == \/ DeliverToKitchen(p) \/ DeliverToKitchenFails(p)
                   \/ DeliverToRobot(p) \/ RobotRefuses(p)
                   \/ DeliverToRobotFails(p)

WorkerStep ==
    \/ HandleFinishedOrderNotification \/ HandleRetrieveFinishedOrders
    \/ \E p \in Position : RetrieveStep(p) \/ RequestStep(p) \/ DeliverStep(p)
    \/ RetrieveDone \/ RequestsDone \/ DeliverDone
    \/ IgnoreNextRobot \/ MismatchedNextRobot \/ HandleReceiveNextRobot
    \/ MoveConveyor \/ HandleReconnected \/ HandlePositionSwapped

ClientStep ==
    \/ \E p \in Position : PositionChanged(p) \/ RemoteStops(p)
    \/ \E a \in Agent : ClientDrops(a) \/ ClientReconnects(a)

RobotStep(r) == RobotFinishes(r) \/ RobotMoves(r) \/ ControllerCommits(r)

Disturbance ==
    \/ \E d \in Dish, r \in Robot : KitchenAssigns(d, r)
    \/ \E r \in Robot, p \in RobotPosition : Rearrange(r, p)
    \/ \E r \in Robot : RobotReannounces(r) \/ RobotCrashes(r)
    \/ \E a \in Agent : ConnectionBreaks(a)
    \/ \E p \in Position : LinkBreaks(p)
    \/ ControllerAnswerLost \/ ReceiverBreaks

Next == \/ WorkerStep \/ TimerExpires \/ ClientStep
        \/ \E r \in Robot : RobotStep(r)
        \/ ControllerAnswers \/ Disturbance

Spec == Init /\ [][Next]_vars

(* The threads run, timers expire, robots finish and move, the controller   *)
(* answers.  Nobody is obliged to order or to rearrange.                    *)
Fairness ==
    /\ WF_vars(WorkerStep) /\ WF_vars(TimerExpires)
    /\ WF_vars(ClientStep) /\ WF_vars(ControllerAnswers)
    /\ \A r \in Robot : WF_vars(RobotStep(r))

FairSpec == Spec /\ Fairness

------------------------------------------------------------------------------
(* Properties.                                                              *)

PlateType == [dish : Dish \cup {None}, steps : Nat, finished : BOOLEAN,
              target : Position]
RemoteType == [robot : Robot, cached : Position,
               link : {"live", "broken", "stopped"}]
(* An entry of position_remote_robot_map_ is there or it is not.            *)
ASSUME NoneIsNoRemote == None \notin RemoteType
TaskType == [dish : Dish, steps : Nat]
Handler ==
         [op : {"retrieve", "move", "reconnected"}]
    \cup [op : {"notified"}, position : RobotPosition, robot : Robot]
    \cup [op : {"next_robot"}, position : RobotPosition, robot : Robot,
          recipe : Recipe]
    \cup [op : {"next_robot"}, position : {0}, robot : {None}, recipe : Recipe]
    \cup [op : {"swapped"}, old : RobotPosition, new : RobotPosition]

BeltTypes ==
    /\ plates \in [Position -> PlateType]
    /\ notifications \subseteq RobotPosition
    /\ requests \in Seq(Position)
    /\ known \in [Position -> RemoteType \cup {None}]
    /\ todo \subseteq Position

ControlTypes ==
    /\ state_status \in {"IDLING", "MOVING"}
    /\ io \in Seq(Handler)
    /\ timer \in {"none", "retrieve", "move"}
    /\ worker \in {"idle", "retrieve", "request", "deliver"}
    /\ running \in BOOLEAN
    /\ client \in [Agent -> {"live", "stale", "null"}]
    /\ moves \in Nat /\ faults \in Nat

WorldTypes ==
    /\ asked \in Seq([recipe : Recipe, steps : Nat])
    /\ place \in [Robot -> RobotPosition]
    /\ bound_for \in [Robot -> Position]
    /\ up \in [Robot -> BOOLEAN] /\ ready \in [Robot -> BOOLEAN]
    /\ queue \in [Robot -> Seq(TaskType)]
    /\ ordered \subseteq Dish /\ delivered \in Seq(Dish)
    /\ lost \in [Dish -> Nat] /\ overwritten \in [Dish -> Nat]
    /\ copied \in [Dish -> Nat]
    /\ receiver \in BOOLEAN /\ forgotten \in BOOLEAN /\ repeated \in BOOLEAN

(* Every variable keeps its type: a target is a position, a request names   *)
(* one, the output never holds a robot.                                     *)
TypeOK == BeltTypes /\ ControlTypes /\ WorldTypes

(* What keeps a moving belt going: the armed timer, a handler of it in the  *)
(* queue, the worker in one of its loops, or an answer of the controller.   *)
Queued(op) == \E i \in DOMAIN io : io[i].op = op
DrivingOp == {"retrieve", "move"}
Driver == {"timer", "queued", "worker", "answer"}
Drives(d) ==
    \/ d = "timer"  /\ timer # "none"
    \/ d = "queued" /\ \E op \in DrivingOp : Queued(op)
    \/ d = "worker" /\ worker # "idle"
    \/ d = "answer" /\ worker = "idle" /\ requests # <<>>

OneQueuedDriver ==
    \A i, j \in DOMAIN io :
        io[i].op \in DrivingOp /\ io[j].op \in DrivingOp => i = j

(* A MOVING conveyor is driven by exactly one thing, an IDLING one by none  *)
(* and then it has neither a notification nor a dish: state_status_ alone   *)
(* decides whether a notification starts the belt.                          *)
BeltDriven ==
    /\ \A d \in Driver : Drives(d) => \A e \in Driver : Drives(e) => d = e
    /\ OneQueuedDriver
    /\ state_status = "MOVING" <=> \E d \in Driver : Drives(d)
    /\ state_status = "IDLING" => notifications = {} /\ Occupied = {}

(* No wait on steady_timer_ is cancelled: such a wait answers with stop()   *)
(* and takes the conveyor out of the kitchen.                               *)
TimerNeverCancelled == running

(* While the belt stands for answers, the request queue names plates that   *)
(* wait for a robot, each once: an answer can only give a target to a plate *)
(* that wants one, although it names just the recipe.                       *)
RequestsAwaitAnswers ==
    /\ \A i, j \in DOMAIN requests : requests[i] = requests[j] => i = j
    /\ \A i \in DOMAIN requests :
          LET plate == plates[requests[i]]
          IN plate.dish # None /\ ~ plate.finished /\ plate.target = 0

OnPlate(d)  == {p \in Position : plates[p].dish = d}
InKitchen(d) == {i \in DOMAIN delivered : delivered[i] = d}
Places(d) == Cardinality(OnPlate(d)) + Cardinality(AtRobot(d))
             + Cardinality(InKitchen(d)) + (IF d \in ordered THEN 1 ELSE 0)

(* Every dish is in one place: retrieval, belt, delivery and refusal lose   *)
(* none and double none.  What is missing was with a crashed robot, in a    *)
(* handover whose answer got lost, or on a plate that another dish took;    *)
(* there is one copy for each answer to a delivery that got lost.  As long  *)
(* as nothing has failed, nothing is missing and nothing is there twice.    *)
DishesConserved ==
    \A d \in Dish : Places(d) + lost[d] + overwritten[d] = 1 + copied[d]
DishesKept == DishesConserved /\ (faults = 0 => \A d \in Dish : Places(d) = 1)


(* A dish is never put on a plate that holds another: the plate is found by *)
(* the position the robot answers with, while the one that was looked at is *)
(* the plate at the notified position.                                      *)
NoDishOverwritten ==
    [][worker = "retrieve" => \A p \in Occupied : plates'[p] = plates[p]]_vars

(* A robot whose announcement the conveyor has taken is found where the     *)
(* conveyor will look for it: notification and map of robots agree with the *)
(* robot's place, whatever swaps and callbacks were on their way, as long   *)
(* as no connection has failed.                                             *)
Announcing(r) == \E i \in DOMAIN io : io[i].op = "notified" /\ io[i].robot = r
AnnouncedDishIsFindable ==
    faults = 0 =>
        \A r \in Robot :
            up[r] /\ ready[r] /\ ~ Announcing(r)
              => /\ place[r] \in notifications
                 /\ known[place[r]] # None /\ known[place[r]].robot = r

(* A dish that still wants a robot has work left: whatever was retrieved,   *)
(* lost, doubled or refused, the count the conveyor hands to a robot leaves *)
(* an action in the recipe's queue, which receive_task empties unchecked.   *)
StepsRemain ==
    \A p \in Occupied :
        ~ plates[p].finished => plates[p].steps < Visits[plates[p].dish]

(* As long as nothing fails the dishes go the way the README describes: no  *)
(* step of the conveyor, the robots or the kitchen takes another.           *)
Where == [d \in Dish |->
            IF d \in ordered THEN "ordered"
            ELSE IF InKitchen(d) # {} THEN "kitchen"
            ELSE IF OnPlate(d) # {} THEN "belt" ELSE "robot"]
StepsDone == [d \in Dish |->
            IF d \in ordered THEN 0
            ELSE IF InKitchen(d) # {} THEN Visits[d]
            ELSE IF OnPlate(d) # {}
            THEN plates[CHOOSE p \in OnPlate(d) : TRUE].steps
            ELSE LET q == CHOOSE q \in AtRobot(d) : TRUE
                 IN queue[q[1]][q[2]].steps]
Flow == INSTANCE DishFlow WITH at <- Where, done <- StepsDone
DishesFlow ==
    /\ Flow!Init
    /\ [][faults' = 0 => \/ UNCHANGED <<plates, queue, ordered, delivered>>
                         \/ [Flow!Next]_(Flow!flowVars)]_vars

(* README.md:20-23: every dish given to a robot reaches the kitchen, as     *)
(* long as nothing fails (a fault may leave a robot nobody finds).  Dishes  *)
(* are ordered once, so in the end none is under way.                       *)
UnderWay == {d \in Dish \ ordered : InKitchen(d) = {}}
DishesDelivered == UnderWay # {} ~> UnderWay = {} \/ faults > 0

(* The belt does not wait for ever for answers that are late, mismatched or *)
(* gone with a controller that was lost: they come, or the reconnection     *)
(* clears the requests.  What it may wait for is an answer the controller   *)
(* has dropped, for its call failed or its receiver has stopped.            *)
Awaiting == requests # <<>>
BeltKeepsMoving == Awaiting ~> ~ Awaiting \/ forgotten
==============================================================================
