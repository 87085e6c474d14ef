-------------------------------- MODULE Kitchen --------------------------------
(***************************************************************************)
(* The kitchen agent (src/kitchen).  The server thread posts orders, the   *)
(* controller's answers and completed dishes to io_context_; the worker    *)
(* thread runs the handlers one at a time.  An order passes the placing    *)
(* gate, which the timer opens once per PlACING_RATE; the worker then asks *)
(* the controller for a robot, and if the call fails waits for the client  *)
(* thread to reconnect.  `phase` is where the worker stands in its handler;*)
(* no thread of a killed process acts.                                     *)
(*                                                                         *)
(* External: the controller answers requests in any order with a robot     *)
(* where it stands or with none; robots adapt and move, accept orders and  *)
(* cook them; the conveyor delivers the dishes, some of them twice.        *)
(***************************************************************************)
EXTENDS Integers, FiniteSets, Sequences

CONSTANTS Position, Robot, None,
          StartPosition,    \* robot -> position it starts at
          MaxOrders,        \* bound: orders placed
          MaxMoves,         \* bound: moves of the robots
          FaultKinds,       \* what may fail
          MaxFaults         \* bound: failures

FaultKind == {"controller", "receiver", "robot", "choose_answer",
              "instruct_answer", "delivery_answer", "task_answer"}

RemoteType == [robot : Robot, cached : Position \cup {0},
               link : {"live", "broken", "stopped"}]

ASSUME KitchenAssumption ==
    /\ Position \subseteq Nat \ {0}
    /\ StartPosition \in [Robot -> Position]
    /\ \A r, s \in Robot : StartPosition[r] = StartPosition[s] => r = s
    /\ None \notin Robot \cup RemoteType
    /\ FaultKinds \subseteq FaultKind
    /\ {MaxOrders, MaxMoves, MaxFaults} \subseteq Nat

VARIABLES
    known,              \* position_remote_robot_map_
    gate_open,          \* placing_gate_open_
    placing_queue,      \* length of placing_queue_
    timer,              \* whether placing_timer_ is armed
    received, assigned, dropped, completed, \* the four counters
    io,                 \* handlers queued in io_context_
    phase,              \* what the worker is at: see Phase
    addressed,          \* position of the robot it instructs, else 0
    client,             \* controller_client_
    requests,           \* external: requests the controller holds
    receiver,           \* external: whether its connection for answers lasts
    up, place, free,    \* external: robots, and whether one is AVAILABLE
    cooking,            \* external: dishes accepted and not yet delivered
    ordered, moves, faults, \* bounds: counts so far
    repeated,           \* ghost: requests made again after a lost answer
    forgotten,          \* ghost: requests nobody will answer any more
    unconfirmed,        \* ghost: orders accepted whose answer got lost
    doubled             \* ghost: dishes cooked or delivered once more

orderVars   == <<gate_open, placing_queue, timer>>
counterVars == <<received, assigned, dropped, completed>>
workVars    == <<phase, addressed>>
worldVars   == <<up, place, free, receiver>>
ghostVars   == <<repeated, forgotten, unconfirmed, doubled>>
boundVars   == <<ordered, moves, faults>>
vars == <<known, orderVars, counterVars, io, workVars, client, requests, worldVars,
          cooking, boundVars, ghostVars>>

Phase == {"idle", "choosing", "waiting", "instructing", "killed"}
Killed == phase = "killed"

------------------------------------------------------------------------------
(* `cached` is cached_position_, 0 until the first notification, which is  *)
(* swallowed, has arrived; `link` is "broken" once the robot is lost and    *)
(* "stopped" once the remote robot has noticed.                             *)
Remote(r) == [robot |-> r, cached |-> 0, link |-> "live"]

Init ==
    /\ known = [p \in Position |-> None]
    /\ gate_open = TRUE /\ placing_queue = 0 /\ timer = FALSE
    /\ received = 0 /\ assigned = 0 /\ dropped = 0 /\ completed = 0
    /\ io = <<>> /\ phase = "idle" /\ addressed = 0
    /\ client = "live" /\ requests = 0 /\ receiver = TRUE
    /\ up = [r \in Robot |-> TRUE] /\ place = StartPosition
    /\ free = [r \in Robot |-> TRUE]
    /\ cooking = 0
    /\ ordered = 0 /\ moves = 0 /\ faults = 0
    /\ repeated = 0 /\ forgotten = 0 /\ unconfirmed = 0 /\ doubled = 0

Fault(kind) ==
    /\ kind \in FaultKinds /\ faults < MaxFaults
    /\ faults' = faults + 1
    /\ UNCHANGED <<ordered, moves>>

Take(op) ==
    /\ phase = "idle"
    /\ io # <<>> /\ Head(io).op = op
    /\ io' = Tail(io)

remove_stopped_robots ==
    [p \in Position |-> IF known[p] # None /\ known[p].link = "stopped" THEN None
                        ELSE known[p]]

Live(e) == e # None /\ e.link = "live"

------------------------------------------------------------------------------
(* Placing orders.                                                          *)

PlaceRandomOrder ==
    /\ ~ Killed /\ ordered < MaxOrders
    /\ ordered' = ordered + 1
    /\ io' = Append(io, [op |-> "order"])
    /\ UNCHANGED <<known, orderVars, counterVars, workVars, client, requests,
                   worldVars, cooking, moves, faults, ghostVars>>

(* do_place begins: the order is counted and a robot asked for.             *)
Place == received' = received + 1 /\ phase' = "choosing"

(* Mutant: the gate stays open behind an order.                             *)
Pass_Open == gate_open

Pass == FALSE

HandleRandomOrderRequest ==
    /\ Take("order")
    /\ known' = remove_stopped_robots
    /\ IF gate_open
       THEN gate_open' = Pass /\ Place /\ UNCHANGED placing_queue
       ELSE placing_queue' = placing_queue + 1
            /\ UNCHANGED <<gate_open, received, phase>>
    /\ UNCHANGED <<timer, assigned, dropped, completed, addressed, client, requests,
                   worldVars, cooking, boundVars, ghostVars>>

TimerExpires ==
    /\ ~ Killed /\ timer
    /\ timer' = FALSE
    /\ io' = Append(io, [op |-> "gate"])
    /\ UNCHANGED <<known, gate_open, placing_queue, counterVars, workVars, client,
                   requests, worldVars, cooking, boundVars, ghostVars>>

Waiting == placing_queue > 0

(* Mutant: an empty queue leaves the gate shut.                             *)
Reopened_Shut == gate_open

Reopened == TRUE

HandlePlacingGate ==
    /\ Take("gate")
    /\ IF Waiting
       THEN placing_queue' = placing_queue - 1 /\ Place /\ UNCHANGED gate_open
       ELSE gate_open' = Reopened /\ UNCHANGED <<placing_queue, received, phase>>
    /\ UNCHANGED <<known, timer, assigned, dropped, completed, addressed, client,
                   requests, worldVars, cooking, boundVars, ghostVars>>

(* The worker calls when the order passes the gate and again when it wakes  *)
(* up: remote_controller_connected_cv_ wakes it only to a client.           *)
Asking == phase \in {"choosing", "waiting"}

(* choose_next_robot answers, and the placing timer is armed.               *)
ChooseNextRobot ==
    /\ Asking /\ client = "live"
    /\ requests' = requests + 1
    /\ phase' = "idle" /\ timer' = TRUE
    /\ UNCHANGED <<known, gate_open, placing_queue, counterVars, io, addressed,
                   client, worldVars, cooking, boundVars, ghostVars>>

(* It fails: the client is deleted and the worker waits for another.  A     *)
(* request whose answer got lost is made again.                             *)
ChooseNextRobotFails ==
    /\ Asking
    /\ \/ /\ client = "stale"
          /\ UNCHANGED <<requests, boundVars, repeated>>
       \/ /\ client = "live" /\ Fault("choose_answer")
          /\ requests' = requests + 1 /\ repeated' = repeated + 1
    /\ client' = "null" /\ phase' = "waiting"
    /\ UNCHANGED <<known, orderVars, counterVars, io, addressed, worldVars, cooking,
                   forgotten, unconfirmed, doubled>>

(* The client thread has dropped the controller before: the call is skipped,*)
(* but not the UA_Client_delete after it, and deleting the null client kills*)
(* the process.                                                             *)
ChooseWithoutClient ==
    /\ phase = "choosing" /\ client = "null"
    /\ phase' = "killed"
    /\ UNCHANGED <<known, orderVars, counterVars, io, addressed, client, requests,
                   worldVars, cooking, boundVars, ghostVars>>

------------------------------------------------------------------------------
(* The controller's answers.                                                *)

(* A robot the kitchen does not know at that position is connected to.      *)
Met(p, r) ==
    LET e == remove_stopped_robots[p]
    IN IF e # None /\ e.robot = r THEN e
       ELSE IF up[r] THEN Remote(r) ELSE None

Available(r) == free[r]

(* get_position and is_available; a read that fails stops the remote robot. *)
HandleReceiveNextRobot ==
    LET p == Head(io).position
        r == Head(io).robot
        e == Met(p, r)
    IN /\ Take("next_robot")
       /\ IF p # 0 /\ Live(e) /\ place[r] = p /\ Available(r)
          THEN phase' = "instructing" /\ addressed' = p /\ UNCHANGED dropped
          ELSE dropped' = dropped + 1 /\ UNCHANGED <<phase, addressed>>
       /\ known' = IF p = 0 THEN remove_stopped_robots
                   ELSE [remove_stopped_robots EXCEPT
                            ![p] = IF e = None \/ Live(e) THEN e
                                   ELSE [e EXCEPT !.link = "stopped"]]
       /\ UNCHANGED <<orderVars, received, assigned, completed, client, requests,
                      worldVars, cooking, boundVars, ghostVars>>

Instructed == phase' = "idle" /\ addressed' = 0

(* Mutant: the robot's answer is not read.                                  *)
Confirmed_Unread(yes) == TRUE

Confirmed(yes) == yes

(* The robot refuses when it has begun to adapt since its availability was  *)
(* read, or when it has other capabilities by now.                          *)
InstructRobot ==
    LET r == known[addressed].robot
    IN /\ phase = "instructing" /\ Live(known[addressed])
       /\ \E yes \in {Available(r) /\ place[r] = addressed, FALSE} :
             /\ cooking' = cooking + (IF yes THEN 1 ELSE 0)
             /\ IF Confirmed(yes)
                THEN assigned' = assigned + 1 /\ UNCHANGED dropped
                ELSE dropped' = dropped + 1 /\ UNCHANGED assigned
       /\ Instructed
       /\ UNCHANGED <<known, orderVars, received, completed, io, client, requests,
                      worldVars, boundVars, ghostVars>>

(* Mutant: an order that could not be assigned is forgotten.                *)
Drop_Silently == dropped

Drop == dropped + 1

(* The call fails, after the robot has accepted or not.                     *)
InstructFails ==
    LET e == known[addressed]
    IN /\ phase = "instructing"
       /\ \/ ~ Live(e) /\ UNCHANGED <<boundVars, cooking, unconfirmed>>
          \/ /\ Live(e) /\ Available(e.robot) /\ place[e.robot] = addressed
             /\ Fault("instruct_answer")
             /\ cooking' = cooking + 1 /\ unconfirmed' = unconfirmed + 1
       /\ dropped' = Drop
       /\ known' = [known EXCEPT ![addressed].link = "stopped"]
       /\ Instructed
       /\ UNCHANGED <<orderVars, received, assigned, completed, io, client, requests,
                      worldVars, repeated, forgotten, doubled>>

HandleCompletedOrder ==
    /\ Take("completed")
    /\ completed' = completed + 1
    /\ UNCHANGED <<known, orderVars, received, assigned, dropped, workVars, client,
                   requests, worldVars, cooking, boundVars, ghostVars>>

------------------------------------------------------------------------------
(* Robots that move.                                                        *)

NotAt(m, p) == m[p] # None => ~ Live(m[p]) \/ place[m[p].robot] # p

(* Reading a position over a broken connection stops the remote robot.      *)
ReadPositions(m, S) ==
    [p \in Position |-> IF p \in S /\ m[p] # None /\ ~ Live(m[p])
                        THEN [m[p] EXCEPT !.link = "stopped"] ELSE m[p]]

HandlePositionSwapped ==
    LET old == Head(io).old
        new == Head(io).new
        read == ReadPositions(known, IF NotAt(known, old) THEN {old, new} ELSE {old})
    IN /\ Take("swapped")
       /\ known' = IF NotAt(known, old) /\ NotAt(known, new)
                   THEN [read EXCEPT ![old] = read[new], ![new] = read[old]]
                   ELSE read
       /\ UNCHANGED <<orderVars, counterVars, workVars, client, requests, worldVars,
                      cooking, boundVars, ghostVars>>

PositionChanged(p) ==
    /\ ~ Killed
    /\ Live(known[p]) /\ known[p].cached # place[known[p].robot]
    /\ known' = [known EXCEPT ![p].cached = place[known[p].robot]]
    /\ IF known[p].cached = 0 THEN UNCHANGED io
       ELSE io' = Append(io, [op |-> "swapped", old |-> known[p].cached,
                              new |-> place[known[p].robot]])
    /\ UNCHANGED <<orderVars, counterVars, workVars, client, requests, worldVars,
                   cooking, boundVars, ghostVars>>

RemoteStops(p) ==
    /\ ~ Killed
    /\ known[p] # None /\ known[p].link = "broken"
    /\ known' = [known EXCEPT ![p].link = "stopped"]
    /\ UNCHANGED <<orderVars, counterVars, io, workVars, client, requests, worldVars,
                   cooking, boundVars, ghostVars>>

------------------------------------------------------------------------------
(* The client thread: a broken connection is dropped, a controller found.   *)

DropController ==
    /\ ~ Killed /\ client = "stale"
    /\ client' = "null"
    /\ UNCHANGED <<known, orderVars, counterVars, io, workVars, requests, worldVars,
                   cooking, boundVars, ghostVars>>

Reconnect ==
    /\ ~ Killed /\ client = "null"
    /\ client' = "live"
    /\ UNCHANGED <<known, orderVars, counterVars, io, workVars, requests, worldVars,
                   cooking, boundVars, ghostVars>>

------------------------------------------------------------------------------
(* External.                                                                *)

(* The controller's call may fail and is not repeated.  A controller that   *)
(* has lost its connection to the kitchen keeps the stopped receiver: it    *)
(* takes requests and answers none.                                         *)
AnswerMayFail == Killed \/ ~ receiver \/ "receiver" \in FaultKinds

ControllerAnswers ==
    /\ requests > 0
    /\ requests' = requests - 1
    /\ \/ /\ receiver /\ ~ Killed /\ UNCHANGED forgotten
          /\ \/ io' = Append(io, [op |-> "next_robot", position |-> 0, robot |-> None])
             \/ \E r \in Robot :
                   io' = Append(io, [op |-> "next_robot", position |-> place[r],
                                     robot |-> r])
       \/ /\ AnswerMayFail /\ UNCHANGED io
          /\ forgotten' = forgotten + 1
    /\ UNCHANGED <<known, orderVars, counterVars, workVars, client, worldVars,
                   cooking, boundVars, repeated, unconfirmed, doubled>>

ReceiverBreaks ==
    /\ receiver /\ Fault("receiver")
    /\ receiver' = FALSE
    /\ UNCHANGED <<known, orderVars, counterVars, io, workVars, client, requests,
                   up, place, free, cooking, ghostVars>>

ControllerRestarts ==
    /\ Fault("controller")
    /\ client' = IF client = "live" THEN "stale" ELSE client
    /\ forgotten' = forgotten + requests /\ requests' = 0 /\ receiver' = TRUE
    /\ UNCHANGED <<known, orderVars, counterVars, io, workVars, up, place, free,
                   cooking, repeated, unconfirmed, doubled>>

(* A robot begins to adapt, moves, and is done.                             *)
Adapt(r) ==
    /\ up[r] /\ free[r]
    /\ free' = [free EXCEPT ![r] = FALSE]
    /\ UNCHANGED <<known, orderVars, counterVars, io, workVars, client, requests,
                   up, place, receiver, cooking, boundVars, ghostVars>>

Move(r, p) ==
    /\ up[r] /\ place[r] # p
    /\ moves < MaxMoves /\ moves' = moves + 1
    /\ place' = [place EXCEPT ![r] = p]
    /\ UNCHANGED <<known, orderVars, counterVars, io, workVars, client, requests,
                   up, free, receiver, cooking, ordered, faults, ghostVars>>

Adapted(r) ==
    /\ up[r] /\ ~ free[r]
    /\ free' = [free EXCEPT ![r] = TRUE]
    /\ UNCHANGED <<known, orderVars, counterVars, io, workVars, client, requests,
                   up, place, receiver, cooking, boundVars, ghostVars>>

RobotCrashes(r) ==
    /\ up[r] /\ Fault("robot")
    /\ up' = [up EXCEPT ![r] = FALSE]
    /\ known' = [p \in Position |->
                    IF Live(known[p]) /\ known[p].robot = r
                    THEN [known[p] EXCEPT !.link = "broken"] ELSE known[p]]
    /\ UNCHANGED <<orderVars, counterVars, io, workVars, client, requests, place,
                   free, receiver, cooking, ghostVars>>

(* The conveyor calls receive_completed_order with a finished dish.  When   *)
(* the kitchen's answer gets lost it keeps the dish and calls again.        *)
DeliverDish ==
    /\ ~ Killed /\ cooking > 0
    /\ io' = Append(io, [op |-> "completed"])
    /\ \/ cooking' = cooking - 1 /\ UNCHANGED <<boundVars, doubled>>
       \/ /\ Fault("delivery_answer")
          /\ doubled' = doubled + 1 /\ UNCHANGED cooking
    /\ UNCHANGED <<known, orderVars, counterVars, workVars, client, requests,
                   worldVars, repeated, forgotten, unconfirmed>>

(* The conveyor hands an unfinished dish on to a robot that takes it, but   *)
(* whose answer gets lost: the dish stays on the belt and is cooked twice.  *)
DoubleDish ==
    /\ cooking > 0 /\ Fault("task_answer")
    /\ cooking' = cooking + 1 /\ doubled' = doubled + 1
    /\ UNCHANGED <<known, orderVars, counterVars, io, workVars, client, requests,
                   worldVars, repeated, forgotten, unconfirmed>>

------------------------------------------------------------------------------
WorkerStep ==
    \/ HandleRandomOrderRequest \/ HandlePlacingGate
    \/ ChooseNextRobot \/ ChooseNextRobotFails \/ ChooseWithoutClient
    \/ HandleReceiveNextRobot \/ InstructRobot \/ InstructFails
    \/ HandleCompletedOrder \/ HandlePositionSwapped

ClientStep == DropController \/ Reconnect
RemoteStep == \E p \in Position : PositionChanged(p) \/ RemoteStops(p)
RobotStep == \E r \in Robot : Adapted(r) \/ \E p \in Position : Move(r, p)

Disturbance ==
    \/ PlaceRandomOrder \/ ControllerRestarts \/ ReceiverBreaks
    \/ \E r \in Robot : Adapt(r) \/ RobotCrashes(r)
    \/ DeliverDish \/ DoubleDish

Next == WorkerStep \/ TimerExpires \/ ClientStep \/ RemoteStep \/ RobotStep
        \/ ControllerAnswers \/ Disturbance

Spec == Init /\ [][Next]_vars

(* The threads run, the timer expires, the controller answers what it was   *)
(* asked and did not forget.                                                *)
Fairness ==
    /\ WF_vars(WorkerStep) /\ WF_vars(TimerExpires) /\ WF_vars(ClientStep)
    /\ WF_vars(ControllerAnswers)

FairSpec == Spec /\ Fairness

------------------------------------------------------------------------------
(* Properties.                                                              *)

Handler ==
         [op : {"order", "gate", "completed"}]
    \cup [op : {"next_robot"}, position : Position, robot : Robot]
    \cup [op : {"next_robot"}, position : {0}, robot : {None}]
    \cup [op : {"swapped"}, old : Position, new : Position]

MapTypes == known \in [Position -> RemoteType \cup {None}]

GateTypes == gate_open \in BOOLEAN /\ timer \in BOOLEAN

CounterTypes ==
    /\ placing_queue \in Nat /\ received \in Nat /\ assigned \in Nat
    /\ dropped \in Nat /\ completed \in Nat /\ requests \in Nat /\ cooking \in Nat
    /\ ordered \in Nat /\ moves \in Nat /\ faults \in Nat
    /\ repeated \in Nat /\ forgotten \in Nat /\ unconfirmed \in Nat
    /\ doubled \in Nat

WorkTypes ==
    /\ io \in Seq(Handler) /\ phase \in Phase
    /\ IF phase = "instructing" THEN addressed \in Position /\ known[addressed] # None
       ELSE addressed = 0
    /\ client \in {"live", "stale", "null"}

WorldTypes ==
    /\ up \in [Robot -> BOOLEAN] /\ place \in [Robot -> Position]
    /\ free \in [Robot -> BOOLEAN] /\ receiver \in BOOLEAN

(* Every variable keeps its type; the worker addresses a robot of the map.  *)
TypeOK == MapTypes /\ GateTypes /\ CounterTypes /\ WorkTypes /\ WorldTypes

Count(op) == Cardinality({i \in DOMAIN io : io[i].op = op})
One(b) == IF b THEN 1 ELSE 0

OneGateDriver ==
    One(gate_open) + One(timer) + One(Asking \/ Killed) + Count("gate") = 1
NoOrderStranded == gate_open => placing_queue = 0

(* The gate is open, or exactly one thing will open it or let the next order*)
(* through: the timer, its queued completion, or the order being placed,    *)
(* unless the process died over it.  No order waits behind an open gate:    *)
(* nothing would come to fetch it.                                          *)
GateDriven == OneGateDriver /\ NoOrderStranded

(* RECEIVED_ORDERS against ASSIGNED_ORDERS plus DROPPED_ORDERS: an order is *)
(* being placed, asked for, answered or assigned, or it is settled, once.   *)
(* Only a lost answer of the controller doubles it, only a controller that  *)
(* goes down or has lost its way back to the kitchen takes it along.        *)
OrdersAccounted ==
    received + repeated =
        assigned + dropped + requests + forgotten + Count("next_robot")
        + One(phase # "idle")

(* COMPLETED_ORDERS against ASSIGNED_ORDERS: a completed dish was assigned, *)
(* but for the orders whose robot's answer got lost, which count as dropped *)
(* and are delivered nevertheless; and it was assigned once, but for the    *)
(* dishes the conveyor delivered or had cooked again after a lost answer.   *)
(* Each lost answer makes the counters differ by one and no more.           *)
DishesCounted ==
    completed + Count("completed") + cooking = assigned + unconfirmed + doubled
LostAnswers == repeated + unconfirmed + doubled
DishesAccounted == DishesCounted /\ LostAnswers <= faults

(* Every order placed passes the gate, however often the controller goes and*)
(* comes, unless the kitchen has killed its own process.                    *)
OrdersReceived == \A n \in 1..MaxOrders : ordered = n ~> received >= n \/ Killed

(* Every order that was received is assigned or dropped in the end, unless  *)
(* the controller took it along or the kitchen has killed its own process.  *)
OrdersSettled ==
    \A n \in 1..MaxOrders :
        received = n ~> assigned + dropped + forgotten >= n \/ Killed
==============================================================================
