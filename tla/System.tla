-------------------------------- MODULE System --------------------------------
(***************************************************************************)
(* The kitchen and the controller together, with the robots both of them   *)
(* watch.  Module Controller is extended; the kitchen is K, the module     *)
(* Kitchen with what is external to it replaced by the controller and its  *)
(* robots: a robot is free while it is AVAILABLE, it stands where the      *)
(* controller moved it, and the requests somebody holds are the handlers   *)
(* and calls of the controller.                                            *)
(*                                                                         *)
(* A call between the two processes is one step of both, as the caller     *)
(* waits for the answer: choose_next_robot of the kitchen,                 *)
(* receive_next_robot of the controller.                                   *)
(***************************************************************************)
EXTENDS Controller

CONSTANT MaxOrders      \* bound: orders placed, the other requests are the conveyor's

ASSUME SystemAssumption ==
    /\ MaxOrders \in 0..MaxRequests
    /\ FaultKinds \subseteq {"robot", "controller", "receiver"}
    /\ Agent = IF MaxOrders = MaxRequests THEN {"kitchen"} ELSE {"kitchen", "conveyor"}

VARIABLES
    kitchen_known,      \* position_remote_robot_map_ of the kitchen
    gate_open, placing_queue, timer,
    received, assigned, dropped, completed,
    kitchen_io,         \* handlers queued in the kitchen's io_context_
    phase, addressed,
    kitchen_client,     \* controller_client_ of the kitchen
    cooking,
    ordered,            \* bound: orders placed so far
    moves,              \* history: moves of the robots
    forgotten           \* ghost: requests lost with the controller

kitchenVars == <<kitchen_known, gate_open, placing_queue, timer, received,
                 assigned, dropped, completed, kitchen_io, phase, addressed,
                 kitchen_client, cooking, ordered, forgotten>>
systemVars == <<vars, kitchenVars, moves>>

(* The kitchen's requests the controller has not answered yet.              *)
Held ==
    Cardinality({i \in DOMAIN io : io[i].op = "next_robot" /\ io[i].agent = "kitchen"})
    + Cardinality({i \in DOMAIN calls : calls[i].op = "answer"
                                        /\ calls[i].agent = "kitchen"})

K == INSTANCE Kitchen WITH
        MaxMoves <- 2 * MaxRequests,
        known <- kitchen_known, io <- kitchen_io, client <- kitchen_client,
        requests <- Held, free <- [r \in Robot |-> state[r] = "AVAILABLE"],
        receiver <- receivers["kitchen"] # "stopped",
        faults <- Cardinality(faults),
        repeated <- 0, unconfirmed <- 0, doubled <- 0

(* None is no remote robot of the kitchen.                                  *)
ASSUME RemotesAssumption == None \notin K!RemoteType

SystemInit == Init /\ K!Init

------------------------------------------------------------------------------
KitchenStep ==
    /\ UNCHANGED <<vars, moves>>
    /\ \/ K!HandleRandomOrderRequest \/ K!HandlePlacingGate
       \/ K!ChooseNextRobotFails \/ K!ChooseWithoutClient
       \/ K!HandleReceiveNextRobot \/ K!InstructRobot \/ K!InstructFails
       \/ K!HandleCompletedOrder \/ K!HandlePositionSwapped

KitchenTimer   == UNCHANGED <<vars, moves>> /\ K!TimerExpires
KitchenClient  == UNCHANGED <<vars, moves>> /\ K!ClientStep
KitchenRemotes == UNCHANGED <<vars, moves>> /\ K!RemoteStep
KitchenOrders  == /\ UNCHANGED <<vars, moves>>
                  /\ K!PlaceRandomOrder \/ K!DeliverDish

(* choose_next_robot: the kitchen names the recipe, of which nothing is     *)
(* done yet.                                                                *)
ChooseNextRobot ==
    /\ Ask("kitchen") /\ io'[Len(io')].steps = 0
    /\ K!ChooseNextRobot
    /\ UNCHANGED moves

AskedByKitchen == received - K!One(K!Asking \/ K!Killed)

(* The conveyor asks too, about a dish it carries.                          *)
ConveyorAsks ==
    /\ "conveyor" \in Agent
    /\ asked - AskedByKitchen < MaxRequests - MaxOrders
    /\ Ask("conveyor")
    /\ UNCHANGED <<kitchenVars, moves>>

(* Mutant: without a robot the kitchen is not answered.                     *)
Response_RobotsOnly ==
    IF answer'.robot = None THEN kitchen_io
    ELSE Append(kitchen_io, [op |-> "next_robot", position |-> answer'.position,
                             robot |-> answer'.robot])

(* receive_next_robot, with what the controller's worker answers, if the    *)
(* call arrives: a kitchen that has died takes none.                        *)
Response == Append(kitchen_io, [op |-> "next_robot", position |-> answer'.position,
                                robot |-> answer'.robot])

AnswersKitchen == Calling("answer") /\ Head(calls).agent = "kitchen"

ReceiveNextRobot ==
    /\ AnswersKitchen
    /\ \/ ~ K!Killed /\ Answer /\ kitchen_io' = Response /\ UNCHANGED forgotten
       \/ /\ K!Killed \/ receivers["kitchen"] # "live"
          /\ AnswerFails /\ forgotten' = forgotten + 1 /\ UNCHANGED kitchen_io
    /\ UNCHANGED <<kitchen_known, gate_open, placing_queue, timer, received,
                   assigned, dropped, completed, phase, addressed,
                   kitchen_client, cooking, ordered, moves>>

ControllerStep == WorkerStep /\ ~ AnswersKitchen /\ UNCHANGED <<kitchenVars, moves>>
ControllerRemotes == RemoteStep /\ UNCHANGED <<kitchenVars, moves>>
RobotsStep(r) ==
    /\ RobotStep(r)
    /\ moves' = IF place' = place THEN moves ELSE moves + 1
    /\ UNCHANGED kitchenVars

(* What fails, fails for both.                                              *)
Failure ==
    /\ \/ \E r \in Robot : RobotCrashes(r) /\ K!RobotCrashes(r)
       \/ ReceiverBreaks("kitchen") /\ K!ReceiverBreaks
       \/ ControllerCrashes /\ K!ControllerRestarts
    /\ UNCHANGED moves

SystemNext ==
    \/ KitchenStep \/ KitchenTimer \/ KitchenClient \/ KitchenRemotes
    \/ KitchenOrders \/ ChooseNextRobot \/ ReceiveNextRobot \/ ConveyorAsks
    \/ ControllerStep \/ ControllerRemotes
    \/ \E r \in Robot : RobotsStep(r)
    \/ Failure

(* The threads of the three agents run, and the timer expires.              *)
SystemFairness ==
    /\ WF_systemVars(KitchenStep \/ ChooseNextRobot)
    /\ WF_systemVars(KitchenTimer) /\ WF_systemVars(KitchenClient)
    /\ WF_systemVars(ControllerStep \/ ReceiveNextRobot)
    /\ WF_systemVars(ControllerRemotes)
    /\ \A r \in Robot : WF_systemVars(RobotsStep(r))

SystemSpec == SystemInit /\ [][SystemNext]_systemVars /\ SystemFairness

------------------------------------------------------------------------------
(* Properties.                                                              *)

(* The kitchen finds in the controller and its robots what module Kitchen   *)
(* takes for granted: whoever asks is answered once, with a robot where it  *)
(* stands, and what becomes of robots and controller is a step Kitchen      *)
(* allows.  Its invariants hold here by the theorems of KitchenProofs.      *)
KitchenInContext == K!Spec

(* ORDERS end: RECEIVED_ORDERS = ASSIGNED_ORDERS + DROPPED_ORDERS once the  *)
(* controller's worker, its remote robots and the robots have done their    *)
(* part, which no process waits for.                                        *)
OrdersSettled ==
    \A n \in 1..MaxOrders :
        received = n ~> assigned + dropped + forgotten >= n
==============================================================================
