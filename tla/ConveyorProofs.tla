---------------------------- MODULE ConveyorProofs ----------------------------
(***************************************************************************)
(* Theorems about Conveyor, for every belt, every set of robots, dishes    *)
(* and recipes and any number of moves and faults.  The inductive          *)
(* invariant ConveyorInv adds to the types and to BeltDriven what the      *)
(* worker's loops rely on (Loops): requests are empty in the loops that    *)
(* change plates, and what a loop has still to visit is there when it gets *)
(* to it, although calls to robots and controller lie in between.          *)
(* On it rest the theorems about the dishes: how far they are (StepsInv),  *)
(* that none gets lost or doubled unnoticed (DishesKept), that the robot   *)
(* that announced one is found (FindInv), and that without a fault every   *)
(* step of the conveyor and the robots is one of DishFlow.                 *)
(***************************************************************************)
EXTENDS Conveyor, FunctionTheorems, FiniteSetTheorems, TLAPS

Asked(p) == \E i \in DOMAIN requests : requests[i] = p

Loops ==
    /\ worker \in {"retrieve", "deliver"} => requests = <<>>
    /\ worker = "request" => \A p \in todo : Waiting(p) /\ ~ Asked(p)
    /\ worker = "deliver" => todo \subseteq Occupied

ReadyHasDish == \A r \in Robot : ready[r] => queue[r] # <<>>

Driving == running /\ BeltDriven /\ Loops /\ RequestsAwaitAnswers

ConveyorInv == TypeOK /\ ReadyHasDish /\ Driving

------------------------------------------------------------------------------
(* The three things a step does with io_context_.                           *)

LEMMA SameQueue ==
    ASSUME UNCHANGED io
    PROVE  /\ \A op \in DrivingOp : Queued(op)' <=> Queued(op)
           /\ OneQueuedDriver => OneQueuedDriver'
  BY DEF Queued, OneQueuedDriver

(* Posting: the new handler comes last.                                     *)
LEMMA PostFacts ==
    ASSUME io \in Seq(Handler), NEW h \in Handler, Post(h)
    PROVE  /\ io' \in Seq(Handler)
           /\ \A op \in DrivingOp : Queued(op)' <=> Queued(op) \/ h.op = op
           /\ OneQueuedDriver
                /\ (h.op \in DrivingOp => \A op \in DrivingOp : ~ Queued(op))
              => OneQueuedDriver'
<1>1. /\ io' \in Seq(Handler)
      /\ DOMAIN io = 1..Len(io) /\ Len(io) \in Nat
      /\ DOMAIN io' = 1..(Len(io) + 1)
      /\ \A i \in 1..Len(io) : io'[i] = io[i]
      /\ io'[Len(io) + 1] = h
  BY DEF Post
<1>2. \A op \in DrivingOp : Queued(op)' <=> Queued(op) \/ h.op = op
  BY <1>1 DEF Queued
<1>3. ASSUME OneQueuedDriver,
             h.op \in DrivingOp => \A op \in DrivingOp : ~ Queued(op)
      PROVE  OneQueuedDriver'
  BY <1>1, <1>3 DEF OneQueuedDriver, Queued
<1> QED BY <1>1, <1>2, <1>3

(* Taking: the first handler goes, the others move up.                      *)
LEMMA TakeFacts ==
    ASSUME io \in Seq(Handler), NEW o, Take(o)
    PROVE  /\ io' \in Seq(Handler)
           /\ Head(io) \in Handler /\ Head(io).op = o
           /\ o \in DrivingOp => Queued(o)
           /\ o \notin DrivingOp
                => \A op \in DrivingOp : Queued(op)' <=> Queued(op)
           /\ OneQueuedDriver => OneQueuedDriver'
           /\ OneQueuedDriver /\ o \in DrivingOp
                => \A op \in DrivingOp : ~ Queued(op)'
<1>1. /\ io' \in Seq(Handler)
      /\ DOMAIN io = 1..Len(io) /\ Len(io) \in Nat \ {0}
      /\ DOMAIN io' = 1..(Len(io) - 1)
      /\ \A i \in 1..(Len(io) - 1) : io'[i] = io[i + 1]
      /\ io[1] \in Handler /\ Head(io) = io[1] /\ io[1].op = o
  BY DEF Take
<1>2. o \in DrivingOp => Queued(o)
  BY <1>1 DEF Queued
<1>3. ASSUME o \notin DrivingOp, NEW op \in DrivingOp
      PROVE  Queued(op)' <=> Queued(op)
  <2>1. ASSUME Queued(op)'
        PROVE  Queued(op)
    <3>1. PICK i \in DOMAIN io' : io'[i].op = op
      BY <2>1 DEF Queued
    <3>2. i + 1 \in DOMAIN io /\ io[i + 1].op = op
      BY <3>1, <1>1
    <3> QED BY <3>2 DEF Queued
  <2>2. ASSUME Queued(op)
        PROVE  Queued(op)'
    <3>1. PICK i \in DOMAIN io : io[i].op = op
      BY <2>2 DEF Queued
    <3>2. i # 1
      BY <3>1, <1>1, <1>3
    <3>3. i - 1 \in 1..(Len(io) - 1) /\ (i - 1) + 1 = i
      BY <3>1, <3>2, <1>1
    <3>4. i - 1 \in DOMAIN io' /\ io'[i - 1].op = op
      BY <3>1, <3>3, <1>1
    <3> QED BY <3>4 DEF Queued
  <2> QED BY <2>1, <2>2
<1>4. ASSUME OneQueuedDriver
      PROVE  OneQueuedDriver'
  <2>1. ASSUME NEW i \in DOMAIN io', NEW j \in DOMAIN io',
               io'[i].op \in DrivingOp, io'[j].op \in DrivingOp
        PROVE  i = j
    <3>1. /\ i \in Nat /\ i + 1 \in DOMAIN io /\ io[i + 1].op \in DrivingOp
          /\ j \in Nat /\ j + 1 \in DOMAIN io /\ io[j + 1].op \in DrivingOp
      BY <2>1, <1>1
    <3>2. i + 1 = j + 1
      BY <3>1, <1>4 DEF OneQueuedDriver
    <3> QED BY <3>1, <3>2
  <2> QED BY <2>1 DEF OneQueuedDriver, DrivingOp
<1>5. ASSUME OneQueuedDriver, o \in DrivingOp, NEW op \in DrivingOp, Queued(op)'
      PROVE  FALSE
  <2>1. PICK i \in DOMAIN io' : io'[i].op = op
    BY <1>5 DEF Queued
  <2>2. i + 1 \in DOMAIN io /\ io[i + 1].op = op
    BY <2>1, <1>1
  <2> QED BY <2>2, <1>1, <1>5 DEF OneQueuedDriver
<1> QED BY <1>1, <1>2, <1>3, <1>4, <1>5

(* A step is quiet if it posts and takes no completion of the timer.        *)
QuietQueue ==
    /\ io' \in Seq(Handler)
    /\ \A op \in DrivingOp : Queued(op)' <=> Queued(op)
    /\ OneQueuedDriver => OneQueuedDriver'

LEMMA QuietSame ==
    ASSUME TypeOK, UNCHANGED io
    PROVE  QuietQueue
  BY SameQueue DEF QuietQueue, TypeOK, ControlTypes

LEMMA QuietPost ==
    ASSUME TypeOK, NEW h \in Handler, h.op \notin DrivingOp, Post(h)
    PROVE  QuietQueue
  BY PostFacts DEF QuietQueue, TypeOK, ControlTypes

LEMMA QuietTake ==
    ASSUME TypeOK, NEW o, o \notin DrivingOp, Take(o)
    PROVE  QuietQueue /\ Head(io) \in Handler /\ Head(io).op = o
  BY TakeFacts DEF QuietQueue, TypeOK, ControlTypes

(* The request queue grows at its end and is answered at its head.          *)
LEMMA AskFacts ==
    ASSUME requests \in Seq(Position), NEW p \in Position,
           requests' = Append(requests, p)
    PROVE  /\ requests' \in Seq(Position) /\ requests' # <<>>
           /\ DOMAIN requests = 1..Len(requests) /\ Len(requests) \in Nat
           /\ DOMAIN requests' = 1..(Len(requests) + 1)
           /\ \A i \in 1..Len(requests) : requests'[i] = requests[i]
           /\ requests'[Len(requests) + 1] = p
  OBVIOUS

LEMMA AnswerFacts ==
    ASSUME requests \in Seq(Position), requests # <<>>,
           requests' = Tail(requests)
    PROVE  /\ requests' \in Seq(Position) /\ Head(requests) \in Position
           /\ DOMAIN requests = 1..Len(requests) /\ Len(requests) \in Nat \ {0}
           /\ DOMAIN requests' = 1..(Len(requests) - 1)
           /\ \A i \in 1..(Len(requests) - 1) : requests'[i] = requests[i + 1]
           /\ Head(requests) = requests[1]
  OBVIOUS

------------------------------------------------------------------------------
(* What keeps the belt going.                                               *)

LEMMA DriversOf ==
    /\ Drives("timer") <=> timer # "none"
    /\ Drives("queued") <=> \E op \in DrivingOp : Queued(op)
    /\ Drives("worker") <=> worker # "idle"
    /\ Drives("answer") <=> worker = "idle" /\ requests # <<>>
  BY DEF Drives

(* A step that leaves belt, worker and timer alone and posts or takes no    *)
(* completion of the timer changes nothing of what drives the belt.         *)
LEMMA QuietKeeps ==
    ASSUME Driving, UNCHANGED <<beltVars, workVars, timerVars>>, QuietQueue
    PROVE  Driving'
<1>1. running' /\ Occupied' = Occupied /\ \A p : Waiting(p)' <=> Waiting(p)
  BY DEF Driving, beltVars, timerVars, Occupied, Waiting
<1>2. \A d : Drives(d)' <=> Drives(d)
  BY DEF beltVars, workVars, timerVars, Drives, QuietQueue
<1>3. BeltDriven'
  BY <1>1, <1>2 DEF Driving, BeltDriven, beltVars, QuietQueue
<1>4. Loops'
  BY <1>1 DEF Driving, Loops, Asked, beltVars, workVars
<1>5. RequestsAwaitAnswers'
  BY DEF Driving, RequestsAwaitAnswers, beltVars
<1> QED BY <1>1, <1>3, <1>4, <1>5 DEF Driving

------------------------------------------------------------------------------
(* What the helpers return.                                                 *)

LEMMA Positions ==
    /\ RobotPosition \subseteq Position /\ OUTPUT_POSITION \in Position
    /\ 0 \notin RobotPosition /\ Position \subseteq Nat
  BY ConveyorAssumption DEF Position, RobotPosition, OUTPUT_POSITION

LEMMA RobotsType ==
    ASSUME TypeOK
    PROVE  /\ remove_stopped_robots \in [Position -> RemoteType \cup {None}]
           /\ \A p \in Position : Reachable(p) =>
                 known[p] \in RemoteType /\ known[p].robot \in Robot
           /\ \A p \in Position : known[p] = None \/ known[p] \in RemoteType
<1>1. known \in [Position -> RemoteType \cup {None}]
  BY DEF TypeOK, BeltTypes
<1>2. remove_stopped_robots \in [Position -> RemoteType \cup {None}]
  BY <1>1 DEF remove_stopped_robots
<1> QED BY <1>1, <1>2 DEF Reachable, RemoteType

LEMMA StopRemoteType ==
    ASSUME TypeOK, NEW p \in Position, StopRemote(p)
    PROVE  known' \in [Position -> RemoteType \cup {None}]
<1>1. known \in [Position -> RemoteType \cup {None}]
  BY DEF TypeOK, BeltTypes
<1>2. CASE known[p] = None
  BY <1>1, <1>2 DEF StopRemote
<1>3. CASE known[p] # None
  <2>1. [known[p] EXCEPT !.link = "stopped"] \in RemoteType
    BY <1>1, <1>3 DEF RemoteType
  <2> QED BY <1>1, <1>3, <2>1 DEF StopRemote
<1> QED BY <1>2, <1>3

LEMMA FaultType ==
    ASSUME TypeOK, Fault \/ UNCHANGED faults
    PROVE  faults' \in Nat
  BY DEF TypeOK, ControlTypes, Fault

LEMMA ReachType ==
    ASSUME TypeOK, NEW p \in Position, NEW r \in Robot, NEW ok \in BOOLEAN,
           Reach(p, r, ok)
    PROVE  known' \in [Position -> RemoteType \cup {None}] /\ faults' \in Nat
<1>1. remove_stopped_robots \in [Position -> RemoteType \cup {None}]
  BY RobotsType
<1>2. Remote(r) \in RemoteType
  BY ConveyorAssumption DEF Remote, RemoteType, Position
<1>3. known' \in [Position -> RemoteType \cup {None}]
  BY <1>1, <1>2 DEF Reach
<1>4. Fault \/ UNCHANGED faults
  BY DEF Reach
<1> QED BY <1>3, <1>4, FaultType

LEMMA PlatesType ==
    ASSUME TypeOK
    PROVE  /\ \A p \in Position : plates[p] \in PlateType
           /\ \A p \in Occupied : p \in Position /\ plates[p].dish \in Dish
           /\ \A p \in Occupied : RecipeAt(p) \in Recipe
           /\ EmptyPlate \in PlateType
<1>1. plates \in [Position -> PlateType]
  BY DEF TypeOK, BeltTypes
<1>2. \A p \in Occupied : p \in Position /\ plates[p].dish \in Dish
  BY <1>1 DEF Occupied, PlateType
<1>3. \A p \in Occupied : RecipeAt(p) \in Recipe
  BY <1>2, ConveyorAssumption DEF Occupied, RecipeAt
<1>4. EmptyPlate \in PlateType
  BY Positions DEF EmptyPlate, PlateType, OUTPUT_POSITION
<1> QED BY <1>1, <1>2, <1>3, <1>4

(* Giving a dish away and taking one on.                                    *)
LEMMA GiveAwayFacts ==
    ASSUME TypeOK, ReadyHasDish, NEW r \in Robot, ready[r], GiveAway(r)
    PROVE  /\ HandedOver(r) \in [dish : Dish, steps : Nat, finished : BOOLEAN]
           /\ queue' \in [Robot -> Seq(TaskType)]
           /\ ready' \in [Robot -> BOOLEAN]
           /\ ReadyHasDish'
           /\ UNCHANGED <<place, bound_for, up>>
<1>1. /\ queue \in [Robot -> Seq(TaskType)] /\ ready \in [Robot -> BOOLEAN]
      /\ queue[r] # <<>>
  BY DEF TypeOK, WorldTypes, ReadyHasDish
<1>2. Head(queue[r]) \in TaskType /\ Tail(queue[r]) \in Seq(TaskType)
  BY <1>1
<1>3. HandedOver(r) \in [dish : Dish, steps : Nat, finished : BOOLEAN]
  BY <1>2 DEF HandedOver, TaskType
<1>4. queue' \in [Robot -> Seq(TaskType)]
  BY <1>1, <1>2 DEF GiveAway
<1>5. ready' \in [Robot -> BOOLEAN]
  BY <1>1 DEF GiveAway
<1>6. ReadyHasDish'
  BY <1>1 DEF ReadyHasDish, GiveAway
<1> QED BY <1>3, <1>4, <1>5, <1>6 DEF GiveAway

LEMMA GiveTaskFacts ==
    ASSUME TypeOK, ReadyHasDish, NEW r \in Robot, NEW p \in Occupied,
           GiveTask(r, p)
    PROVE  /\ queue' \in [Robot -> Seq(TaskType)]
           /\ ReadyHasDish'
           /\ UNCHANGED <<place, bound_for, up, ready>>
<1>1. queue \in [Robot -> Seq(TaskType)]
  BY DEF TypeOK, WorldTypes
<1>2. [dish |-> plates[p].dish, steps |-> plates[p].steps] \in TaskType
  BY PlatesType DEF TaskType, PlateType
<1>3. /\ queue' = [queue EXCEPT ![r] = Append(@,
                     [dish |-> plates[p].dish, steps |-> plates[p].steps])]
      /\ UNCHANGED <<place, bound_for, up, ready>>
  BY DEF GiveTask
<1>4. queue' \in [Robot -> Seq(TaskType)]
  BY <1>1, <1>2, <1>3
<1>5. ReadyHasDish'
  BY <1>1, <1>2, <1>3 DEF ReadyHasDish
<1> QED BY <1>3, <1>4, <1>5

(* A history of the dishes stays one.                                       *)
LEMMA CountType ==
    ASSUME NEW h \in [Dish -> Nat], NEW x \in Dish
    PROVE  Count(h, x) \in [Dish -> Nat]
  BY DEF Count

LEMMA KitchenAssignsKeeps ==
    ASSUME ConveyorInv, NEW d \in Dish, NEW r \in Robot, KitchenAssigns(d, r)
    PROVE  ConveyorInv'
<1> USE DEF ConveyorInv
<1>1. QuietQueue
  BY QuietSame DEF KitchenAssigns
<1>2. BeltTypes'
  BY DEF KitchenAssigns, TypeOK, BeltTypes, beltVars, workVars
<1>3. ControlTypes'
  BY <1>1 DEF KitchenAssigns, TypeOK, ControlTypes, QuietQueue, beltVars,
     workVars, timerVars, boundVars
<1>4. WorldTypes'
  <2>1. [dish |-> d, steps |-> 0] \in TaskType
    BY DEF TaskType
  <2>2. queue' \in [Robot -> Seq(TaskType)]
    BY <2>1 DEF KitchenAssigns, TypeOK, WorldTypes, callVars
  <2>3. ordered' \subseteq Dish
    BY DEF KitchenAssigns, TypeOK, WorldTypes, callVars
  <2> QED BY <2>2, <2>3 DEF KitchenAssigns, TypeOK, WorldTypes, callVars
<1>5. ReadyHasDish'
  <2>1. queue \in [Robot -> Seq(TaskType)] /\ UNCHANGED ready
    BY DEF KitchenAssigns, TypeOK, WorldTypes
  <2>2. \A s \in Robot : queue[s] # <<>> => queue'[s] # <<>>
    BY <2>1 DEF KitchenAssigns
  <2> QED BY <2>1, <2>2 DEF ReadyHasDish
<1>6. Driving'
  BY <1>1, QuietKeeps DEF KitchenAssigns
<1> QED BY <1>2, <1>3, <1>4, <1>5, <1>6 DEF TypeOK

LEMMA RobotFinishesKeeps ==
    ASSUME ConveyorInv, NEW r \in Robot, RobotFinishes(r)
    PROVE  ConveyorInv'
<1> USE DEF ConveyorInv
<1>1. QuietQueue
  <2>1. Post([op |-> "notified", position |-> place[r], robot |-> r])
    BY DEF Notify, RobotFinishes
  <2>2. [op |-> "notified", position |-> place[r], robot |-> r] \in Handler
    BY DEF Handler, TypeOK, WorldTypes
  <2> QED BY <2>1, <2>2, QuietPost DEF DrivingOp
<1>2. BeltTypes'
  BY DEF RobotFinishes, TypeOK, BeltTypes, beltVars, workVars
<1>3. ControlTypes'
  BY <1>1 DEF RobotFinishes, TypeOK, ControlTypes, QuietQueue, beltVars,
     workVars, timerVars, boundVars
<1>4. WorldTypes'
  BY DEF RobotFinishes, TypeOK, WorldTypes, callVars, dishVars
<1>5. ReadyHasDish'
  BY DEF RobotFinishes, TypeOK, WorldTypes, ReadyHasDish
<1>6. Driving'
  BY <1>1, QuietKeeps DEF RobotFinishes
<1> QED BY <1>2, <1>3, <1>4, <1>5, <1>6 DEF TypeOK

LEMMA RobotReannouncesKeeps ==
    ASSUME ConveyorInv, NEW r \in Robot, RobotReannounces(r)
    PROVE  ConveyorInv'
<1> USE DEF ConveyorInv
<1>1. QuietQueue
  <2>1. Post([op |-> "notified", position |-> place[r], robot |-> r])
    BY DEF Notify, RobotReannounces
  <2>2. [op |-> "notified", position |-> place[r], robot |-> r] \in Handler
    BY DEF Handler, TypeOK, WorldTypes
  <2> QED BY <2>1, <2>2, QuietPost DEF DrivingOp
<1>2. BeltTypes'
  BY DEF RobotReannounces, TypeOK, BeltTypes, beltVars, workVars
<1>3. ControlTypes'
  BY <1>1 DEF RobotReannounces, TypeOK, ControlTypes, QuietQueue, beltVars,
     workVars, timerVars, Fault
<1>4. WorldTypes'
  BY DEF RobotReannounces, TypeOK, WorldTypes, callVars, robotVars, dishVars
<1>5. ReadyHasDish'
  BY DEF RobotReannounces, TypeOK, WorldTypes, ReadyHasDish, robotVars
<1>6. Driving'
  BY <1>1, QuietKeeps DEF RobotReannounces
<1> QED BY <1>2, <1>3, <1>4, <1>5, <1>6 DEF TypeOK

LEMMA RearrangeKeeps ==
    ASSUME ConveyorInv, NEW r \in Robot, NEW p \in RobotPosition, Rearrange(r, p)
    PROVE  ConveyorInv'
<1> USE DEF ConveyorInv
<1>1. QuietQueue
  BY QuietSame DEF Rearrange
<1>2. BeltTypes'
  BY DEF Rearrange, TypeOK, BeltTypes, beltVars, workVars
<1>3. ControlTypes'
  BY <1>1 DEF Rearrange, TypeOK, ControlTypes, QuietQueue, beltVars, workVars,
     timerVars
<1>4. WorldTypes'
  <2>1. place[r] \in Position /\ p \in Position
    BY Positions DEF TypeOK, WorldTypes, callVars
  <2>2. bound_for' \in [Robot -> Position]
    BY <2>1 DEF Rearrange, TypeOK, WorldTypes, callVars
  <2> QED BY <2>2 DEF Rearrange, TypeOK, WorldTypes, callVars, dishVars
<1>5. ReadyHasDish'
  BY DEF Rearrange, TypeOK, WorldTypes, ReadyHasDish
<1>6. Driving'
  BY <1>1, QuietKeeps DEF Rearrange
<1> QED BY <1>2, <1>3, <1>4, <1>5, <1>6 DEF TypeOK

LEMMA RobotMovesKeeps ==
    ASSUME ConveyorInv, NEW r \in Robot, RobotMoves(r)
    PROVE  ConveyorInv'
<1> USE DEF ConveyorInv
<1>1. QuietQueue
  BY QuietSame DEF RobotMoves
<1>2. BeltTypes'
  BY DEF RobotMoves, TypeOK, BeltTypes, beltVars, workVars
<1>3. ControlTypes'
  BY <1>1 DEF RobotMoves, TypeOK, ControlTypes, QuietQueue, beltVars,
     workVars, timerVars, boundVars
<1>4. WorldTypes'
  <2>1. bound_for[r] \in RobotPosition
    BY DEF RobotMoves, TypeOK, WorldTypes, callVars, RobotPosition, OUTPUT_POSITION
  <2>2. place' \in [Robot -> RobotPosition]
    BY <2>1 DEF RobotMoves, TypeOK, WorldTypes, callVars
  <2> QED BY <2>2 DEF RobotMoves, TypeOK, WorldTypes, callVars, dishVars
<1>5. ReadyHasDish'
  BY DEF RobotMoves, TypeOK, WorldTypes, ReadyHasDish
<1>6. Driving'
  BY <1>1, QuietKeeps DEF RobotMoves
<1> QED BY <1>2, <1>3, <1>4, <1>5, <1>6 DEF TypeOK

LEMMA ControllerCommitsKeeps ==
    ASSUME ConveyorInv, NEW r \in Robot, ControllerCommits(r)
    PROVE  ConveyorInv'
<1> USE DEF ConveyorInv
<1>1. QuietQueue
  BY QuietSame DEF ControllerCommits
<1>2. BeltTypes'
  BY DEF ControllerCommits, TypeOK, BeltTypes, beltVars, workVars
<1>3. ControlTypes'
  BY <1>1 DEF ControllerCommits, TypeOK, ControlTypes, QuietQueue, beltVars,
     workVars, timerVars, boundVars
<1>4. WorldTypes'
  <2>1. bound_for' \in [Robot -> Position]
    BY Positions DEF ControllerCommits, TypeOK, WorldTypes, callVars, OUTPUT_POSITION
  <2> QED BY <2>1 DEF ControllerCommits, TypeOK, WorldTypes, callVars, dishVars
<1>5. ReadyHasDish'
  BY DEF ControllerCommits, TypeOK, WorldTypes, ReadyHasDish
<1>6. Driving'
  BY <1>1, QuietKeeps DEF ControllerCommits
<1> QED BY <1>2, <1>3, <1>4, <1>5, <1>6 DEF TypeOK

LEMMA TasksFinite ==
    ASSUME TypeOK, NEW r \in Robot, NEW d
    PROVE  IsFiniteSet(TasksOf(r, d))
<1>1. queue[r] \in Seq(TaskType)
  BY DEF TypeOK, WorldTypes
<1>2. DOMAIN queue[r] = 1..Len(queue[r]) /\ Len(queue[r]) \in Nat
  BY <1>1
<1>3. IsFiniteSet(DOMAIN queue[r]) /\ IsFiniteSet({r})
  <2>1. IsFiniteSet(1..Len(queue[r]))
    BY <1>2, FS_Interval
  <2>2. IsFiniteSet({r})
    BY FS_Singleton
  <2> QED BY <1>2, <2>1, <2>2
<1>4. IsFiniteSet({r} \X DOMAIN queue[r])
  BY <1>3, FS_Product
<1>5. TasksOf(r, d) \subseteq {r} \X DOMAIN queue[r]
  BY DEF TasksOf, AtRobot
<1> QED BY <1>4, <1>5, FS_Subset

LEMMA RobotCrashesKeeps ==
    ASSUME ConveyorInv, NEW r \in Robot, RobotCrashes(r)
    PROVE  ConveyorInv'
<1> USE DEF ConveyorInv
<1>1. QuietQueue
  BY QuietSame DEF RobotCrashes
<1>2. BeltTypes'
  <2>1. \A p \in Position : Reachable(p) =>
           [known[p] EXCEPT !.link = "broken"] \in RemoteType
    BY RobotsType DEF RemoteType
  <2>2. known' \in [Position -> RemoteType \cup {None}]
    BY <2>1, RobotsType DEF RobotCrashes
  <2> QED BY <2>2 DEF RobotCrashes, TypeOK, BeltTypes, beltVars, workVars
<1>3. ControlTypes'
  BY <1>1 DEF RobotCrashes, TypeOK, ControlTypes, QuietQueue, beltVars,
     workVars, timerVars, Fault
<1>4. WorldTypes'
  <2>1. \A d : Cardinality(TasksOf(r, d)) \in Nat
    BY TasksFinite, FS_CardinalityType
  <2>2. lost' \in [Dish -> Nat]
    BY <2>1 DEF RobotCrashes, TypeOK, WorldTypes
  <2>3. queue' \in [Robot -> Seq(TaskType)]
    BY DEF RobotCrashes, TypeOK, WorldTypes, callVars
  <2>4. up' \in [Robot -> BOOLEAN] /\ ready' \in [Robot -> BOOLEAN]
    BY DEF RobotCrashes, TypeOK, WorldTypes, callVars
  <2> QED BY <2>2, <2>3, <2>4 DEF RobotCrashes, TypeOK, WorldTypes, callVars
<1>5. ReadyHasDish'
  BY DEF RobotCrashes, TypeOK, WorldTypes, ReadyHasDish
<1>6. Driving'
  BY <1>1, QuietKeeps DEF RobotCrashes
<1> QED BY <1>2, <1>3, <1>4, <1>5, <1>6 DEF TypeOK

LEMMA ControllerAnswerLostKeeps ==
    ASSUME ConveyorInv, ControllerAnswerLost
    PROVE  ConveyorInv'
<1> USE DEF ConveyorInv
<1>1. QuietQueue
  BY QuietSame DEF ControllerAnswerLost
<1>2. BeltTypes'
  BY DEF ControllerAnswerLost, TypeOK, BeltTypes, beltVars, workVars
<1>3. ControlTypes'
  BY <1>1 DEF ControllerAnswerLost, TypeOK, ControlTypes, QuietQueue,
     beltVars, workVars, timerVars, Fault
<1>4. WorldTypes'
  BY DEF ControllerAnswerLost, TypeOK, WorldTypes, callVars, robotVars, dishVars
<1>5. ReadyHasDish'
  BY DEF ControllerAnswerLost, TypeOK, WorldTypes, ReadyHasDish, robotVars
<1>6. Driving'
  BY <1>1, QuietKeeps DEF ControllerAnswerLost
<1> QED BY <1>2, <1>3, <1>4, <1>5, <1>6 DEF TypeOK

LEMMA ReceiverBreaksKeeps ==
    ASSUME ConveyorInv, ReceiverBreaks
    PROVE  ConveyorInv'
<1> USE DEF ConveyorInv
<1>1. QuietQueue
  BY QuietSame DEF ReceiverBreaks
<1>2. BeltTypes'
  BY DEF ReceiverBreaks, TypeOK, BeltTypes, beltVars, workVars
<1>3. ControlTypes'
  BY <1>1 DEF ReceiverBreaks, TypeOK, ControlTypes, QuietQueue,
     beltVars, workVars, timerVars, Fault
<1>4. WorldTypes'
  BY DEF ReceiverBreaks, TypeOK, WorldTypes, robotVars, dishVars
<1>5. ReadyHasDish'
  BY DEF ReceiverBreaks, TypeOK, WorldTypes, ReadyHasDish, robotVars
<1>6. Driving'
  BY <1>1, QuietKeeps DEF ReceiverBreaks
<1> QED BY <1>2, <1>3, <1>4, <1>5, <1>6 DEF TypeOK

LEMMA ConnectionBreaksKeeps ==
    ASSUME ConveyorInv, NEW a \in Agent, ConnectionBreaks(a)
    PROVE  ConveyorInv'
<1> USE DEF ConveyorInv
<1>1. QuietQueue
  BY QuietSame DEF ConnectionBreaks
<1>2. BeltTypes'
  BY DEF ConnectionBreaks, TypeOK, BeltTypes, beltVars, workVars
<1>3. ControlTypes'
  BY <1>1 DEF ConnectionBreaks, TypeOK, ControlTypes, QuietQueue, beltVars,
     workVars, timerVars, Fault
<1>4. WorldTypes'
  <2>1. asked' = asked \/ asked' = <<>>
    BY DEF ConnectionBreaks
  <2>2. asked' \in Seq([recipe : Recipe, steps : Nat])
    <3>1. CASE asked' = asked
      BY <3>1 DEF TypeOK, WorldTypes, callVars
    <3>2. CASE asked' = <<>>
      BY <3>2
    <3> QED BY <2>1, <3>1, <3>2
  <2> QED BY <2>2 DEF ConnectionBreaks, TypeOK, WorldTypes, callVars, robotVars,
         dishVars
<1>5. ReadyHasDish'
  BY DEF ConnectionBreaks, TypeOK, WorldTypes, ReadyHasDish, robotVars
<1>6. Driving'
  BY <1>1, QuietKeeps DEF ConnectionBreaks
<1> QED BY <1>2, <1>3, <1>4, <1>5, <1>6 DEF TypeOK

LEMMA LinkBreaksKeeps ==
    ASSUME ConveyorInv, NEW p \in Position, LinkBreaks(p)
    PROVE  ConveyorInv'
<1> USE DEF ConveyorInv
<1>1. QuietQueue
  BY QuietSame DEF LinkBreaks
<1>2. BeltTypes'
  <2>1. [known[p] EXCEPT !.link = "broken"] \in RemoteType
    BY RobotsType DEF LinkBreaks, RemoteType
  <2>2. known' \in [Position -> RemoteType \cup {None}]
    BY <2>1 DEF LinkBreaks, TypeOK, BeltTypes
  <2> QED BY <2>2 DEF LinkBreaks, TypeOK, BeltTypes, beltVars, workVars
<1>3. ControlTypes'
  BY <1>1 DEF LinkBreaks, TypeOK, ControlTypes, QuietQueue, beltVars,
     workVars, timerVars, Fault
<1>4. WorldTypes'
  BY DEF LinkBreaks, TypeOK, WorldTypes, callVars, robotVars, dishVars
<1>5. ReadyHasDish'
  BY DEF LinkBreaks, TypeOK, WorldTypes, ReadyHasDish, robotVars
<1>6. Driving'
  BY <1>1, QuietKeeps DEF LinkBreaks
<1> QED BY <1>2, <1>3, <1>4, <1>5, <1>6 DEF TypeOK

LEMMA RemoteStopsKeeps ==
    ASSUME ConveyorInv, NEW p \in Position, RemoteStops(p)
    PROVE  ConveyorInv'
<1> USE DEF ConveyorInv
<1>1. QuietQueue
  BY QuietSame DEF RemoteStops
<1>2. BeltTypes'
  <2>1. known' \in [Position -> RemoteType \cup {None}]
    BY StopRemoteType DEF RemoteStops
  <2> QED BY <2>1 DEF RemoteStops, TypeOK, BeltTypes, beltVars, workVars
<1>3. ControlTypes'
  BY <1>1 DEF RemoteStops, TypeOK, ControlTypes, QuietQueue, beltVars,
     workVars, timerVars, boundVars
<1>4. WorldTypes'
  BY DEF RemoteStops, TypeOK, WorldTypes, callVars, robotVars, dishVars
<1>5. ReadyHasDish'
  BY DEF RemoteStops, TypeOK, WorldTypes, ReadyHasDish, robotVars
<1>6. Driving'
  BY <1>1, QuietKeeps DEF RemoteStops
<1> QED BY <1>2, <1>3, <1>4, <1>5, <1>6 DEF TypeOK

LEMMA ClientDropsKeeps ==
    ASSUME ConveyorInv, NEW a \in Agent, ClientDrops(a)
    PROVE  ConveyorInv'
<1> USE DEF ConveyorInv
<1>1. QuietQueue
  BY QuietSame DEF ClientDrops
<1>2. BeltTypes'
  BY DEF ClientDrops, TypeOK, BeltTypes, beltVars, workVars
<1>3. ControlTypes'
  BY <1>1 DEF ClientDrops, TypeOK, ControlTypes, QuietQueue, beltVars,
     workVars, timerVars, boundVars
<1>4. WorldTypes'
  BY DEF ClientDrops, TypeOK, WorldTypes, callVars, robotVars, dishVars
<1>5. ReadyHasDish'
  BY DEF ClientDrops, TypeOK, WorldTypes, ReadyHasDish, robotVars
<1>6. Driving'
  BY <1>1, QuietKeeps DEF ClientDrops
<1> QED BY <1>2, <1>3, <1>4, <1>5, <1>6 DEF TypeOK


LEMMA PositionChangedKeeps ==
    ASSUME ConveyorInv, NEW p \in Position, PositionChanged(p)
    PROVE  ConveyorInv'
<1> USE DEF ConveyorInv
<1> DEFINE k == known[p]
<1>1. /\ k \in RemoteType /\ k.robot \in Robot
      /\ place[k.robot] \in RobotPosition
  BY RobotsType DEF PositionChanged, TypeOK, WorldTypes
<1>2. QuietQueue
  <2>1. CASE UNCHANGED io
    BY <2>1, QuietSame
  <2>2. CASE k.cached # 0
    <3>1. Post([op |-> "swapped", old |-> k.cached, new |-> place[k.robot]])
      BY <2>2 DEF PositionChanged
    <3>2. k.cached \in RobotPosition
      BY <1>1, <2>2 DEF RemoteType, RobotPosition, OUTPUT_POSITION
    <3>3. [op |-> "swapped", old |-> k.cached, new |-> place[k.robot]]
            \in Handler
      BY <1>1, <3>2 DEF Handler
    <3> QED BY <3>1, <3>3, QuietPost DEF DrivingOp
  <2> QED BY <2>1, <2>2 DEF PositionChanged
<1>3. BeltTypes'
  <2>1. [k EXCEPT !.cached = place[k.robot]] \in RemoteType
    BY <1>1, Positions DEF RemoteType
  <2>2. known' \in [Position -> RemoteType \cup {None}]
    BY <2>1 DEF PositionChanged, TypeOK, BeltTypes
  <2> QED BY <2>2 DEF PositionChanged, TypeOK, BeltTypes, beltVars, workVars
<1>4. ControlTypes'
  BY <1>2 DEF PositionChanged, TypeOK, ControlTypes, QuietQueue, beltVars,
         workVars, timerVars, boundVars
<1>5. WorldTypes' /\ ReadyHasDish'
  BY DEF PositionChanged, TypeOK, WorldTypes, callVars, ReadyHasDish, robotVars,
         dishVars
<1>6. Driving'
  BY <1>2, QuietKeeps DEF PositionChanged
<1> QED BY <1>3, <1>4, <1>5, <1>6 DEF TypeOK

LEMMA ClientReconnectsKeeps ==
    ASSUME ConveyorInv, NEW a \in Agent, ClientReconnects(a)
    PROVE  ConveyorInv'
<1> USE DEF ConveyorInv
<1>1. QuietQueue
  <2>1. CASE UNCHANGED io
    BY <2>1, QuietSame
  <2>2. CASE Post([op |-> "reconnected"])
    <3>1. [op |-> "reconnected"] \in Handler
      BY DEF Handler
    <3> QED BY <2>2, <3>1, QuietPost DEF DrivingOp
  <2> QED BY <2>1, <2>2 DEF ClientReconnects, Resumes
<1>2. BeltTypes'
  BY DEF ClientReconnects, TypeOK, BeltTypes, beltVars, workVars
<1>3. ControlTypes'
  BY <1>1 DEF ClientReconnects, TypeOK, ControlTypes, QuietQueue, beltVars,
         workVars, timerVars, boundVars
<1>4. WorldTypes' /\ ReadyHasDish'
  BY DEF ClientReconnects, TypeOK, WorldTypes, callVars, ReadyHasDish, robotVars,
         dishVars
<1>5. Driving'
  BY <1>1, QuietKeeps DEF ClientReconnects
<1> QED BY <1>2, <1>3, <1>4, <1>5 DEF TypeOK

LEMMA ControllerAnswersKeeps ==
    ASSUME ConveyorInv, ControllerAnswers
    PROVE  ConveyorInv'
<1> USE DEF ConveyorInv
<1>1. /\ asked \in Seq([recipe : Recipe, steps : Nat])
      /\ Head(asked).recipe \in Recipe
      /\ asked' \in Seq([recipe : Recipe, steps : Nat])
  <2> DEFINE Questions == [recipe : Recipe, steps : Nat]
  <2>1. asked # <<>> /\ asked' = Tail(asked)
    BY DEF ControllerAnswers
  <2>2. asked \in Seq(Questions)
    BY DEF TypeOK, WorldTypes
  <2>3. Head(asked) \in Questions /\ asked' \in Seq(Questions)
    <3> HIDE DEF Questions
    <3> QED BY <2>1, <2>2
  <2> QED BY <2>2, <2>3
<1>2. QuietQueue
  <2>1. CASE \E r \in Robot :
               Post(NextRobot(place[r], r, Head(asked).recipe))
    <3>1. PICK r \in Robot : Post(NextRobot(place[r], r, Head(asked).recipe))
      BY <2>1
    <3>2. NextRobot(place[r], r, Head(asked).recipe) \in Handler
      BY <1>1 DEF NextRobot, Handler, TypeOK, WorldTypes
    <3> QED BY <3>1, <3>2, QuietPost DEF DrivingOp, NextRobot
  <2>2. CASE Post(NextRobot(0, None, Head(asked).recipe))
    <3>1. NextRobot(0, None, Head(asked).recipe) \in Handler
      BY <1>1 DEF NextRobot, Handler
    <3> QED BY <2>2, <3>1, QuietPost DEF DrivingOp, NextRobot
  <2>3. CASE UNCHANGED io
    BY <2>3, QuietSame
  <2> QED BY <2>1, <2>2, <2>3 DEF ControllerAnswers, Suitable
<1>3. BeltTypes'
  BY DEF ControllerAnswers, TypeOK, BeltTypes, beltVars, workVars
<1>4. ControlTypes'
  <2>1. faults' \in Nat
    BY FaultType DEF ControllerAnswers
  <2> QED BY <1>2, <2>1 DEF ControllerAnswers, TypeOK, ControlTypes, QuietQueue,
             beltVars, workVars, timerVars
<1>5. WorldTypes' /\ ReadyHasDish'
  BY <1>1 DEF ControllerAnswers, TypeOK, WorldTypes, callVars, ReadyHasDish, robotVars,
         dishVars
<1>6. Driving'
  BY <1>2, QuietKeeps DEF ControllerAnswers
<1> QED BY <1>3, <1>4, <1>5, <1>6 DEF TypeOK

(* An answer that is not used makes its robot known all the same.           *)
LEMMA MeetRobotType ==
    ASSUME ConveyorInv, NEW h \in Handler, h.op = "next_robot", MeetRobot(h)
    PROVE  known' \in [Position -> RemoteType \cup {None}] /\ faults' \in Nat
<1> USE DEF ConveyorInv
<1>1. CASE h.position = 0
  BY <1>1, RobotsType, FaultType DEF MeetRobot
<1>2. CASE h.position # 0
  <2>1. h.position \in Position /\ h.robot \in Robot
    BY <1>2, Positions DEF Handler
  <2>2. PICK ok \in BOOLEAN : Reach(h.position, h.robot, ok)
    BY <1>2 DEF MeetRobot
  <2> QED BY <2>1, <2>2, ReachType
<1> QED BY <1>1, <1>2

LEMMA IgnoreNextRobotKeeps ==
    ASSUME ConveyorInv, IgnoreNextRobot
    PROVE  ConveyorInv'
<1> USE DEF ConveyorInv
<1>1. QuietQueue
  BY QuietTake DEF IgnoreNextRobot, DrivingOp
<1>2. BeltTypes'
  BY RobotsType DEF IgnoreNextRobot, TypeOK, BeltTypes, beltVars, workVars
<1>3. ControlTypes'
  BY <1>1 DEF IgnoreNextRobot, TypeOK, ControlTypes, QuietQueue, beltVars,
         workVars, timerVars, boundVars
<1>4. WorldTypes' /\ ReadyHasDish'
  BY DEF IgnoreNextRobot, TypeOK, WorldTypes, callVars, ReadyHasDish, robotVars,
         dishVars
<1>5. Driving'
  BY <1>1, QuietKeeps DEF IgnoreNextRobot
<1> QED BY <1>2, <1>3, <1>4, <1>5 DEF TypeOK

LEMMA MismatchedNextRobotKeeps ==
    ASSUME ConveyorInv, MismatchedNextRobot
    PROVE  ConveyorInv'
<1> USE DEF ConveyorInv
<1>1. QuietQueue /\ Head(io) \in Handler /\ Head(io).op = "next_robot"
  BY QuietTake DEF MismatchedNextRobot, DrivingOp
<1>2. known' \in [Position -> RemoteType \cup {None}] /\ faults' \in Nat
  BY <1>1, MeetRobotType DEF MismatchedNextRobot
<1>3. BeltTypes'
  BY <1>2 DEF MismatchedNextRobot, TypeOK, BeltTypes, beltVars, workVars
<1>4. ControlTypes'
  BY <1>1, <1>2 DEF MismatchedNextRobot, TypeOK, ControlTypes, QuietQueue,
         beltVars, workVars, timerVars
<1>5. WorldTypes' /\ ReadyHasDish'
  BY DEF MismatchedNextRobot, TypeOK, WorldTypes, callVars, ReadyHasDish, robotVars,
         dishVars
<1>6. Driving'
  BY <1>1, QuietKeeps DEF MismatchedNextRobot
<1> QED BY <1>3, <1>4, <1>5, <1>6 DEF TypeOK

LEMMA HandlePositionSwappedKeeps ==
    ASSUME ConveyorInv, HandlePositionSwapped
    PROVE  ConveyorInv'
<1> USE DEF ConveyorInv
<1>1. QuietQueue /\ Head(io) \in Handler /\ Head(io).op = "swapped"
  BY QuietTake DEF HandlePositionSwapped, DrivingOp
<1>2. known' \in [Position -> RemoteType \cup {None}]
  <2> DEFINE h == Head(io)
             robots == ReadPositions(remove_stopped_robots, h.old, h.new)
  <2>1. h.old \in Position /\ h.new \in Position
    BY <1>1, Positions DEF Handler
  <2>2. robots \in [Position -> RemoteType \cup {None}]
    <3>1. ASSUME NEW r \in RemoteType
          PROVE  [r EXCEPT !.link = "stopped"] \in RemoteType
      BY DEF RemoteType
    <3> QED BY <3>1, RobotsType DEF ReadPositions
  <2>3. known' = Swapped(robots, h.old, h.new)
    BY DEF HandlePositionSwapped
  <2> HIDE DEF robots, h
  <2> QED BY <2>1, <2>2, <2>3 DEF Swapped
<1>3. BeltTypes'
  BY <1>2 DEF HandlePositionSwapped, TypeOK, BeltTypes, beltVars, workVars
<1>4. ControlTypes'
  BY <1>1 DEF HandlePositionSwapped, TypeOK, ControlTypes, QuietQueue,
         beltVars, workVars, timerVars, boundVars
<1>5. WorldTypes' /\ ReadyHasDish'
  BY DEF HandlePositionSwapped, TypeOK, WorldTypes, callVars, ReadyHasDish, robotVars,
         dishVars
<1>6. Driving'
  BY <1>1, QuietKeeps DEF HandlePositionSwapped
<1> QED BY <1>3, <1>4, <1>5, <1>6 DEF TypeOK


------------------------------------------------------------------------------
(* The worker's loops over notifications and plates: requests are empty,    *)
(* and the loop itself drives the belt.                                     *)

LEMMA LoopKeeps ==
    ASSUME ConveyorInv, worker \in {"retrieve", "deliver"},
           UNCHANGED <<requests, state_status, timerVars, worker, io>>,
           worker = "deliver" => todo' \subseteq Occupied'
    PROVE  Driving'
<1> USE DEF ConveyorInv, Driving
<1>1. requests = <<>> /\ requests' = <<>> /\ running'
  BY DEF Loops, timerVars
<1>2. state_status = "MOVING"
  BY DEF BeltDriven, Driver, Drives
<1>3. QuietQueue
  BY QuietSame
<1>4. \A d : Drives(d)' <=> Drives(d)
  BY <1>3 DEF Drives, QuietQueue, timerVars
<1>5. BeltDriven'
  BY <1>2, <1>3, <1>4 DEF BeltDriven, QuietQueue
<1>6. Loops'
  BY <1>1 DEF Loops
<1>7. RequestsAwaitAnswers'
  BY <1>1 DEF RequestsAwaitAnswers
<1> QED BY <1>1, <1>5, <1>6, <1>7

LEMMA RetrieveLaterKeeps ==
    ASSUME ConveyorInv, NEW p \in Position, RetrieveLater(p)
    PROVE  ConveyorInv'
<1> USE DEF ConveyorInv
<1>1. BeltTypes'
  BY DEF RetrieveLater, Visit, TypeOK, BeltTypes, beltVars
<1>2. ControlTypes'
  BY DEF RetrieveLater, Visit, TypeOK, ControlTypes, beltVars, timerVars,
         boundVars
<1>3. WorldTypes' /\ ReadyHasDish'
  BY DEF RetrieveLater, TypeOK, WorldTypes, callVars, ReadyHasDish, robotVars, dishVars
<1>4. Driving'
  BY LoopKeeps DEF RetrieveLater, Visit, beltVars
<1> QED BY <1>1, <1>2, <1>3, <1>4 DEF TypeOK

LEMMA RetrieveDishKeeps ==
    ASSUME ConveyorInv, NEW p \in Position, RetrieveDish(p)
    PROVE  ConveyorInv'
<1> USE DEF ConveyorInv
<1> DEFINE r == known[p].robot
<1>1. r \in Robot /\ place[r] \in Position
  BY RobotsType, Positions DEF RetrieveDish, TypeOK, WorldTypes
<1>2. /\ plates' \in [Position -> PlateType]
      /\ overwritten' \in [Dish -> Nat]
      /\ queue' \in [Robot -> Seq(TaskType)] /\ ready' \in [Robot -> BOOLEAN]
      /\ ReadyHasDish' /\ UNCHANGED <<place, bound_for, up>>
  <2>1. CASE ready[r]
    <3>1. /\ PlaceDish(place[r], HandedOver(r)) /\ GiveAway(r)
          /\ Overwrite(place[r])
      BY <2>1 DEF RetrieveDish
    <3>2. HandedOver(r) \in [dish : Dish, steps : Nat, finished : BOOLEAN]
      BY <1>1, <2>1, <3>1, GiveAwayFacts
    <3>3. plates' \in [Position -> PlateType]
      <4> DEFINE h == HandedOver(r)
      <4>1. [plates[place[r]] EXCEPT !.dish = h.dish, !.steps = h.steps,
                                     !.finished = h.finished] \in PlateType
        <5>1. plates[place[r]] \in PlateType
          BY <1>1, PlatesType
        <5>2. h.dish \in Dish /\ h.steps \in Nat /\ h.finished \in BOOLEAN
          BY <3>2
        <5> HIDE DEF h
        <5> QED BY <5>1, <5>2 DEF PlateType
      <4> QED BY <1>1, <3>1, <4>1 DEF PlaceDish, TypeOK, BeltTypes
    <3>4. overwritten' \in [Dish -> Nat]
      <4>1. overwritten \in [Dish -> Nat]
        BY DEF TypeOK, WorldTypes
      <4>2. CASE place[r] \in Occupied
        BY <3>1, <4>1, <4>2, PlatesType, CountType DEF Overwrite
      <4>3. CASE place[r] \notin Occupied
        BY <3>1, <4>1, <4>3 DEF Overwrite
      <4> QED BY <4>2, <4>3
    <3> QED BY <1>1, <2>1, <3>1, <3>3, <3>4, GiveAwayFacts
  <2>2. CASE ~ ready[r]
    BY <2>2 DEF RetrieveDish, robotVars, TypeOK, BeltTypes, WorldTypes,
                ReadyHasDish
  <2> QED BY <2>1, <2>2
<1>3. BeltTypes'
  BY <1>2 DEF RetrieveDish, Visit, TypeOK, BeltTypes
<1>4. ControlTypes'
  BY DEF RetrieveDish, Visit, TypeOK, ControlTypes, timerVars, boundVars
<1>5. WorldTypes'
  BY <1>2 DEF RetrieveDish, TypeOK, WorldTypes, callVars
<1>6. Driving'
  BY LoopKeeps DEF RetrieveDish, Visit
<1> QED BY <1>2, <1>3, <1>4, <1>5, <1>6 DEF TypeOK

LEMMA RetrieveFailsKeeps ==
    ASSUME ConveyorInv, NEW p \in Position, RetrieveFails(p)
    PROVE  ConveyorInv'
<1> USE DEF ConveyorInv
<1>1. /\ lost' \in [Dish -> Nat]
      /\ queue' \in [Robot -> Seq(TaskType)] /\ ready' \in [Robot -> BOOLEAN]
      /\ ReadyHasDish' /\ UNCHANGED <<place, bound_for, up>>
  <2> DEFINE r == known[p].robot
  <2>1. CASE UNCHANGED <<robotVars, lost>>
    BY <2>1 DEF robotVars, TypeOK, WorldTypes, ReadyHasDish
  <2>2. CASE /\ Reachable(p) /\ ready[r] /\ GiveAway(r)
             /\ lost' = Count(lost, HandedOver(r).dish)
    <3>1. r \in Robot
      BY <2>2, RobotsType
    <3>2. HandedOver(r).dish \in Dish
      BY <2>2, <3>1, GiveAwayFacts
    <3> QED BY <2>2, <3>1, <3>2, GiveAwayFacts DEF TypeOK, WorldTypes, Count
  <2> QED BY <2>1, <2>2 DEF RetrieveFails
<1>2. BeltTypes'
  BY StopRemoteType DEF RetrieveFails, Visit, TypeOK, BeltTypes
<1>3. ControlTypes'
  <2>1. faults' \in Nat
    BY FaultType DEF RetrieveFails
  <2> QED BY <2>1 DEF RetrieveFails, Visit, TypeOK, ControlTypes, timerVars
<1>4. WorldTypes'
  BY <1>1 DEF RetrieveFails, TypeOK, WorldTypes, callVars
<1>5. Driving'
  BY LoopKeeps DEF RetrieveFails, Visit
<1> QED BY <1>1, <1>2, <1>3, <1>4, <1>5 DEF TypeOK

(* What the delivery of one plate does to the plates still to be visited.   *)
LEMMA DeliveringFacts ==
    ASSUME ConveyorInv, NEW p \in Position, Visit("deliver", p)
    PROVE  /\ p \in Occupied /\ plates[p].dish \in Dish
           /\ reset_plate(p) => /\ plates' \in [Position -> PlateType]
                                /\ todo' \subseteq Occupied'
           /\ LoseTarget(p) => /\ plates' \in [Position -> PlateType]
                               /\ todo' \subseteq Occupied'
           /\ UNCHANGED plates => todo' \subseteq Occupied'
<1> USE DEF ConveyorInv, Driving
<1>1. p \in Occupied /\ todo \subseteq Occupied /\ todo' = todo \ {p}
  BY DEF Visit, Loops
<1>2. plates[p].dish \in Dish /\ plates \in [Position -> PlateType]
  BY <1>1, PlatesType DEF TypeOK, BeltTypes
<1>3. ASSUME reset_plate(p)
      PROVE  plates' \in [Position -> PlateType] /\ todo' \subseteq Occupied'
  BY <1>1, <1>2, <1>3, PlatesType DEF reset_plate, Occupied
<1>4. ASSUME LoseTarget(p)
      PROVE  plates' \in [Position -> PlateType] /\ todo' \subseteq Occupied'
  <2>1. [plates[p] EXCEPT !.target = 0] \in PlateType
    BY <1>2, Positions DEF PlateType, OUTPUT_POSITION
  <2>2. plates' = [plates EXCEPT ![p] = [plates[p] EXCEPT !.target = 0]]
    BY <1>4 DEF LoseTarget
  <2>3. \A q \in Position : plates'[q].dish = plates[q].dish
    BY <1>2, <2>2 DEF PlateType
  <2> QED BY <1>1, <1>2, <2>1, <2>2, <2>3 DEF Occupied
<1>5. UNCHANGED plates => todo' \subseteq Occupied'
  BY <1>1 DEF Occupied
<1> QED BY <1>1, <1>2, <1>3, <1>4, <1>5

LEMMA DeliverToKitchenKeeps ==
    ASSUME ConveyorInv, NEW p \in Position, DeliverToKitchen(p)
    PROVE  ConveyorInv'
<1> USE DEF ConveyorInv
<1>1. /\ plates' \in [Position -> PlateType] /\ todo' \subseteq Occupied'
      /\ plates[p].dish \in Dish
  BY DeliveringFacts DEF DeliverToKitchen
<1>2. BeltTypes'
  BY <1>1 DEF DeliverToKitchen, Visit, TypeOK, BeltTypes
<1>3. ControlTypes'
  BY DEF DeliverToKitchen, Visit, TypeOK, ControlTypes, timerVars, boundVars
<1>4. WorldTypes' /\ ReadyHasDish'
  BY <1>1 DEF DeliverToKitchen, TypeOK, WorldTypes, callVars, ReadyHasDish, robotVars
<1>5. Driving'
  BY <1>1, LoopKeeps DEF DeliverToKitchen, Visit
<1> QED BY <1>2, <1>3, <1>4, <1>5 DEF TypeOK

LEMMA DeliverToKitchenFailsKeeps ==
    ASSUME ConveyorInv, NEW p \in Position, DeliverToKitchenFails(p)
    PROVE  ConveyorInv'
<1> USE DEF ConveyorInv
<1>1. todo' \subseteq Occupied' /\ plates[p].dish \in Dish
  BY DeliveringFacts DEF DeliverToKitchenFails, beltVars
<1>2. BeltTypes'
  BY DEF DeliverToKitchenFails, Visit, TypeOK, BeltTypes, beltVars
<1>3. ControlTypes'
  <2>1. faults' \in Nat
    BY FaultType DEF DeliverToKitchenFails
  <2> QED BY <2>1 DEF DeliverToKitchenFails, Visit, TypeOK, ControlTypes,
             beltVars, timerVars
<1>4. WorldTypes' /\ ReadyHasDish'
  <2>1. delivered \in Seq(Dish)
    BY DEF TypeOK, WorldTypes, callVars
  <2>2. delivered' = delivered \/ delivered' = Append(delivered, plates[p].dish)
    BY DEF DeliverToKitchenFails
  <2>3. delivered' \in Seq(Dish)
    BY <1>1, <2>1, <2>2
  <2>4. copied' \in [Dish -> Nat]
    <3>1. copied \in [Dish -> Nat]
      BY DEF TypeOK, WorldTypes
    <3>2. copied' = copied \/ copied' = Count(copied, plates[p].dish)
      BY DEF DeliverToKitchenFails
    <3> QED BY <1>1, <3>1, <3>2, CountType
  <2> QED BY <2>3, <2>4 DEF DeliverToKitchenFails, TypeOK, WorldTypes, callVars,
             ReadyHasDish, robotVars
<1>5. Driving'
  BY <1>1, LoopKeeps DEF DeliverToKitchenFails, Visit, beltVars
<1> QED BY <1>2, <1>3, <1>4, <1>5 DEF TypeOK

LEMMA DeliverToRobotKeeps ==
    ASSUME ConveyorInv, NEW p \in Position, DeliverToRobot(p)
    PROVE  ConveyorInv'
<1> USE DEF ConveyorInv
<1>1. /\ plates' \in [Position -> PlateType] /\ todo' \subseteq Occupied'
      /\ p \in Occupied
  BY DeliveringFacts DEF DeliverToRobot
<1>2. /\ queue' \in [Robot -> Seq(TaskType)] /\ ReadyHasDish'
      /\ UNCHANGED <<place, bound_for, up, ready>>
  BY <1>1, RobotsType, GiveTaskFacts DEF DeliverToRobot
<1>3. BeltTypes'
  BY <1>1 DEF DeliverToRobot, Visit, TypeOK, BeltTypes
<1>4. ControlTypes'
  BY DEF DeliverToRobot, Visit, TypeOK, ControlTypes, timerVars, boundVars
<1>5. WorldTypes'
  BY <1>2 DEF DeliverToRobot, TypeOK, WorldTypes, callVars, dishVars
<1>6. Driving'
  BY <1>1, LoopKeeps DEF DeliverToRobot, Visit
<1> QED BY <1>2, <1>3, <1>4, <1>5, <1>6 DEF TypeOK

LEMMA RobotRefusesKeeps ==
    ASSUME ConveyorInv, NEW p \in Position, RobotRefuses(p)
    PROVE  ConveyorInv'
<1> USE DEF ConveyorInv
<1>1. plates' \in [Position -> PlateType] /\ todo' \subseteq Occupied'
  BY DeliveringFacts DEF RobotRefuses
<1>2. BeltTypes'
  BY <1>1 DEF RobotRefuses, Visit, TypeOK, BeltTypes
<1>3. ControlTypes'
  BY DEF RobotRefuses, Visit, TypeOK, ControlTypes, timerVars, boundVars
<1>4. WorldTypes' /\ ReadyHasDish'
  BY DEF RobotRefuses, TypeOK, WorldTypes, callVars, ReadyHasDish, robotVars, dishVars
<1>5. Driving'
  BY <1>1, LoopKeeps DEF RobotRefuses, Visit
<1> QED BY <1>2, <1>3, <1>4, <1>5 DEF TypeOK

LEMMA DeliverToRobotFailsKeeps ==
    ASSUME ConveyorInv, NEW p \in Position, DeliverToRobotFails(p)
    PROVE  ConveyorInv'
<1> USE DEF ConveyorInv
<1>1. /\ plates' \in [Position -> PlateType] /\ todo' \subseteq Occupied'
      /\ p \in Occupied
  BY DeliveringFacts DEF DeliverToRobotFails
<1>2. /\ queue' \in [Robot -> Seq(TaskType)] /\ ReadyHasDish'
      /\ UNCHANGED <<place, bound_for, up, ready>>
  <2>1. CASE UNCHANGED robotVars
    BY <2>1 DEF robotVars, TypeOK, WorldTypes, ReadyHasDish
  <2>2. CASE Reachable(p) /\ GiveTask(known[p].robot, p)
    BY <1>1, <2>2, RobotsType, GiveTaskFacts
  <2> QED BY <2>1, <2>2 DEF DeliverToRobotFails
<1>3. BeltTypes'
  BY <1>1, StopRemoteType DEF DeliverToRobotFails, Visit, TypeOK, BeltTypes
<1>4. ControlTypes'
  <2>1. faults' \in Nat
    BY FaultType DEF DeliverToRobotFails
  <2> QED BY <2>1 DEF DeliverToRobotFails, Visit, TypeOK, ControlTypes,
             timerVars
<1>5. WorldTypes'
  <2>1. copied' \in [Dish -> Nat]
    <3>1. copied \in [Dish -> Nat] /\ plates[p].dish \in Dish
      BY <1>1, PlatesType DEF TypeOK, WorldTypes
    <3>2. copied' = copied \/ copied' = Count(copied, plates[p].dish)
      BY DEF DeliverToRobotFails, dishVars
    <3> QED BY <3>1, <3>2, CountType
  <2> QED BY <1>2, <2>1 DEF DeliverToRobotFails, TypeOK, WorldTypes, callVars,
             dishVars
<1>6. Driving'
  BY <1>1, LoopKeeps DEF DeliverToRobotFails, Visit
<1> QED BY <1>2, <1>3, <1>4, <1>5, <1>6 DEF TypeOK


------------------------------------------------------------------------------
(* The steps that hand the belt from one driver to the next.                *)

LEMMA HandleFinishedOrderNotificationKeeps ==
    ASSUME ConveyorInv, HandleFinishedOrderNotification
    PROVE  ConveyorInv'
<1> USE DEF ConveyorInv, Driving
<1> DEFINE h == Head(io)
<1>1. QuietQueue /\ h \in Handler /\ h.op = "notified"
  BY QuietTake DEF HandleFinishedOrderNotification, DrivingOp
<1>2. h.position \in RobotPosition /\ h.robot \in Robot
  BY <1>1 DEF Handler
<1>3. known' \in [Position -> RemoteType \cup {None}] /\ faults' \in Nat
  BY <1>2, Positions, ReachType DEF HandleFinishedOrderNotification
<1>4. \/ UNCHANGED <<notifications, state_status, timerVars>>
      \/ NoteNotification(h.position)
  BY DEF HandleFinishedOrderNotification
<1>5. BeltTypes'
  <2>1. notifications' \subseteq RobotPosition
    BY <1>2, <1>4 DEF NoteNotification, TypeOK, BeltTypes
  <2> QED BY <1>3, <2>1 DEF HandleFinishedOrderNotification, TypeOK, BeltTypes,
             workVars
<1>6. WorldTypes' /\ ReadyHasDish'
  BY DEF HandleFinishedOrderNotification, TypeOK, WorldTypes, callVars, ReadyHasDish,
         robotVars, dishVars
<1>7. CASE UNCHANGED <<notifications, state_status, timerVars>>
  <2>1. ControlTypes'
    BY <1>1, <1>3, <1>7 DEF HandleFinishedOrderNotification, TypeOK,
       ControlTypes, QuietQueue, workVars, timerVars
  <2>2. Driving'
    BY <1>1, <1>7, QuietKeeps DEF HandleFinishedOrderNotification, beltVars
  <2> QED BY <1>5, <1>6, <2>1, <2>2 DEF TypeOK
<1>8. CASE NoteNotification(h.position) /\ state_status = "MOVING"
  <2>1. UNCHANGED <<state_status, timerVars>>
    BY <1>8 DEF NoteNotification
  <2>2. ControlTypes'
    BY <1>1, <1>3, <2>1 DEF HandleFinishedOrderNotification, TypeOK,
       ControlTypes, QuietQueue, workVars, timerVars
  <2>3. running' /\ Occupied' = Occupied /\ \A p : Waiting(p)' <=> Waiting(p)
    BY <2>1 DEF HandleFinishedOrderNotification, timerVars, Occupied, Waiting
  <2>4. \A d : Drives(d)' <=> Drives(d)
    BY <1>1, <2>1 DEF HandleFinishedOrderNotification, workVars, timerVars,
       Drives, QuietQueue
  <2>5. BeltDriven'
    BY <1>1, <1>8, <2>1, <2>4 DEF BeltDriven, QuietQueue
  <2>6. Loops' /\ RequestsAwaitAnswers'
    BY <2>3 DEF HandleFinishedOrderNotification, Loops, Asked, workVars,
       RequestsAwaitAnswers
  <2> QED BY <1>5, <1>6, <2>2, <2>3, <2>5, <2>6 DEF TypeOK
<1>9. CASE NoteNotification(h.position) /\ state_status = "IDLING"
  <2>1. /\ timer = "none" /\ worker = "idle" /\ requests = <<>>
        /\ \A op \in DrivingOp : ~ Queued(op)
    BY <1>9 DEF BeltDriven, Driver, Drives
  <2>2. state_status' = "MOVING" /\ timer' = "retrieve" /\ running'
    BY <1>9, <2>1 DEF NoteNotification, Arm
  <2>3. worker' = "idle" /\ requests' = <<>>
    BY <2>1 DEF HandleFinishedOrderNotification, workVars
  <2>4. ControlTypes'
    BY <1>1, <1>3, <2>2, <2>3 DEF HandleFinishedOrderNotification, TypeOK,
       ControlTypes, QuietQueue
  <2>5. \A op \in DrivingOp : ~ Queued(op)'
    BY <1>1, <2>1 DEF QuietQueue
  <2>6. BeltDriven'
    BY <1>1, <2>2, <2>3, <2>5 DEF BeltDriven, Driver, Drives, QuietQueue
  <2>7. Loops' /\ RequestsAwaitAnswers'
    BY <2>3 DEF Loops, RequestsAwaitAnswers
  <2> QED BY <1>5, <1>6, <2>2, <2>4, <2>6, <2>7 DEF TypeOK
<1> QED BY <1>4, <1>7, <1>8, <1>9 DEF TypeOK, ControlTypes

LEMMA HandleRetrieveFinishedOrdersKeeps ==
    ASSUME ConveyorInv, HandleRetrieveFinishedOrders
    PROVE  ConveyorInv'
<1> USE DEF ConveyorInv, Driving
<1>1. /\ io' \in Seq(Handler) /\ OneQueuedDriver'
      /\ Queued("retrieve") /\ \A op \in DrivingOp : ~ Queued(op)'
  BY TakeFacts DEF HandleRetrieveFinishedOrders, DrivingOp, BeltDriven, TypeOK,
                   ControlTypes
<1>2. /\ state_status = "MOVING" /\ timer = "none" /\ worker = "idle"
      /\ requests = <<>>
  BY <1>1 DEF BeltDriven, Driver, Drives, DrivingOp
<1>3. /\ worker' = "retrieve" /\ todo' = notifications
      /\ requests' = <<>> /\ timer' = "none" /\ running'
      /\ state_status' = "MOVING"
  BY <1>2 DEF HandleRetrieveFinishedOrders, Retrieving, Enter, beltVars,
              timerVars
<1>4. BeltTypes'
  BY <1>3, RobotsType, Positions DEF HandleRetrieveFinishedOrders, TypeOK,
     BeltTypes, beltVars
<1>5. ControlTypes'
  BY <1>1, <1>3 DEF HandleRetrieveFinishedOrders, TypeOK, ControlTypes,
     boundVars
<1>6. WorldTypes' /\ ReadyHasDish'
  BY DEF HandleRetrieveFinishedOrders, TypeOK, WorldTypes, callVars, ReadyHasDish,
         robotVars, dishVars
<1>7. BeltDriven'
  BY <1>1, <1>3 DEF BeltDriven, Driver, Drives
<1>8. Loops' /\ RequestsAwaitAnswers'
  BY <1>3 DEF Loops, RequestsAwaitAnswers
<1> QED BY <1>3, <1>4, <1>5, <1>6, <1>7, <1>8 DEF TypeOK

(* The worker goes on to the plates that wait for a robot.                  *)
LEMMA RequestingKeeps ==
    ASSUME ConveyorInv, worker # "idle" \/ requests # <<>>,
           Requesting, requests' = <<>>,
           UNCHANGED <<plates, notifications, state_status, timerVars>>,
           QuietQueue
    PROVE  Driving' /\ todo' \subseteq Position /\ worker' = "request"
<1> USE DEF ConveyorInv, Driving
<1>1. /\ state_status = "MOVING" /\ timer = "none"
      /\ \A op \in DrivingOp : ~ Queued(op)
  BY DEF BeltDriven, Driver, Drives
<1>2. worker' = "request" /\ todo' = {p \in Position : Waiting(p)}
  BY DEF Requesting, Enter
<1>3. running' /\ timer' = "none" /\ state_status' = "MOVING"
  BY <1>1 DEF timerVars
<1>4. BeltDriven'
  BY <1>1, <1>2, <1>3 DEF BeltDriven, Driver, Drives, QuietQueue
<1>5. \A p : Waiting(p)' <=> Waiting(p)
  BY DEF Waiting, Occupied
<1>6. Loops' /\ RequestsAwaitAnswers'
  BY <1>2, <1>5 DEF Loops, Asked, RequestsAwaitAnswers
<1> QED BY <1>2, <1>3, <1>4, <1>6

LEMMA RetrieveDoneKeeps ==
    ASSUME ConveyorInv, RetrieveDone
    PROVE  ConveyorInv'
<1> USE DEF ConveyorInv
<1>1. QuietQueue
  BY QuietSame DEF RetrieveDone
<1>2. worker = "retrieve" /\ requests' = <<>>
  BY DEF RetrieveDone, Finished, Driving, Loops, beltVars
<1>3. Driving' /\ todo' \subseteq Position /\ worker' = "request"
  BY <1>1, <1>2, RequestingKeeps DEF RetrieveDone, beltVars
<1>4. BeltTypes'
  BY <1>3 DEF RetrieveDone, TypeOK, BeltTypes, beltVars
<1>5. ControlTypes'
  BY <1>3 DEF RetrieveDone, TypeOK, ControlTypes, beltVars, timerVars,
              boundVars
<1>6. WorldTypes' /\ ReadyHasDish'
  BY DEF RetrieveDone, TypeOK, WorldTypes, callVars, ReadyHasDish, robotVars, dishVars
<1> QED BY <1>3, <1>4, <1>5, <1>6 DEF TypeOK

(* determine_next_movement, called from the delivery loop or, once the      *)
(* requests are cleared, after a reconnection.                              *)
LEMMA DetermineKeeps ==
    ASSUME ConveyorInv, worker # "idle" \/ requests # <<>>,
           DetermineNextMovement, requests' = <<>>,
           UNCHANGED <<plates, notifications, timerVars>>, QuietQueue
    PROVE  /\ Driving' /\ todo' \subseteq Position
           /\ known' \in [Position -> RemoteType \cup {None}]
           /\ worker' \in {"idle", "retrieve", "request"}
           /\ state_status' \in {"IDLING", "MOVING"}
<1> USE DEF ConveyorInv, Driving
<1>1. /\ state_status = "MOVING" /\ timer = "none"
      /\ \A op \in DrivingOp : ~ Queued(op)
  BY DEF BeltDriven, Driver, Drives
<1>2. running' /\ timer' = "none" /\ \A op \in DrivingOp : ~ Queued(op)'
  BY <1>1 DEF timerVars, QuietQueue
<1>3. CASE notifications # {}
  <2>1. /\ known' = remove_stopped_robots
        /\ worker' = "retrieve" /\ todo' = notifications
        /\ state_status' = "MOVING"
    BY <1>1, <1>3 DEF DetermineNextMovement, Retrieving, Enter
  <2>2. BeltDriven'
    BY <1>2, <2>1 DEF BeltDriven, Driver, Drives, QuietQueue
  <2>3. Loops' /\ RequestsAwaitAnswers'
    BY <2>1 DEF Loops, RequestsAwaitAnswers
  <2>4. todo' \subseteq Position
    BY <2>1, Positions DEF TypeOK, BeltTypes
  <2> QED BY <1>2, <2>1, <2>2, <2>3, <2>4, RobotsType
<1>4. CASE notifications = {} /\ Occupied # {}
  <2>1. Requesting /\ UNCHANGED <<state_status, known>>
    BY <1>4 DEF DetermineNextMovement
  <2> QED BY <1>1, <2>1, RequestingKeeps DEF TypeOK, BeltTypes
<1>5. CASE notifications = {} /\ Occupied = {}
  <2>1. /\ worker' = "idle" /\ todo' = todo /\ state_status' = "IDLING"
        /\ known' = known
    BY <1>5 DEF DetermineNextMovement, Leave
  <2>2. Occupied' = {} /\ notifications' = {}
    BY <1>5 DEF Occupied
  <2>3. BeltDriven'
    BY <1>2, <2>1, <2>2 DEF BeltDriven, Driver, Drives, QuietQueue
  <2>4. Loops' /\ RequestsAwaitAnswers'
    BY <2>1 DEF Loops, RequestsAwaitAnswers
  <2> QED BY <1>2, <2>1, <2>3, <2>4 DEF TypeOK, BeltTypes
<1> QED BY <1>3, <1>4, <1>5

LEMMA DeliverDoneKeeps ==
    ASSUME ConveyorInv, DeliverDone
    PROVE  ConveyorInv'
<1> USE DEF ConveyorInv
<1>1. QuietQueue
  BY QuietSame DEF DeliverDone
<1>2. worker = "deliver" /\ requests' = <<>>
  BY DEF DeliverDone, Finished, Driving, Loops
<1>3. /\ Driving' /\ todo' \subseteq Position
      /\ known' \in [Position -> RemoteType \cup {None}]
      /\ worker' \in {"idle", "retrieve", "request"}
      /\ state_status' \in {"IDLING", "MOVING"}
  BY <1>1, <1>2, DetermineKeeps DEF DeliverDone
<1>4. BeltTypes'
  BY <1>3 DEF DeliverDone, TypeOK, BeltTypes
<1>5. ControlTypes'
  BY <1>3 DEF DeliverDone, TypeOK, ControlTypes, timerVars, boundVars
<1>6. WorldTypes' /\ ReadyHasDish'
  BY DEF DeliverDone, TypeOK, WorldTypes, callVars, ReadyHasDish, robotVars, dishVars
<1> QED BY <1>3, <1>4, <1>5, <1>6 DEF TypeOK

LEMMA HandleReconnectedKeeps ==
    ASSUME ConveyorInv, HandleReconnected
    PROVE  ConveyorInv'
<1> USE DEF ConveyorInv
<1>1. QuietQueue
  BY QuietTake DEF HandleReconnected, DrivingOp
<1>2. WorldTypes' /\ ReadyHasDish'
  BY DEF HandleReconnected, TypeOK, WorldTypes, callVars, ReadyHasDish, robotVars,
         dishVars
<1>3. CASE state_status = "MOVING" /\ requests # <<>>
  <2>1. requests' = <<>> /\ DetermineNextMovement
    BY <1>3 DEF HandleReconnected
  <2>2. /\ Driving' /\ todo' \subseteq Position
        /\ known' \in [Position -> RemoteType \cup {None}]
        /\ worker' \in {"idle", "retrieve", "request"}
        /\ state_status' \in {"IDLING", "MOVING"}
    BY <1>1, <1>3, <2>1, DetermineKeeps DEF HandleReconnected
  <2>3. BeltTypes'
    BY <2>1, <2>2 DEF HandleReconnected, TypeOK, BeltTypes
  <2>4. ControlTypes'
    BY <1>1, <2>2 DEF HandleReconnected, TypeOK, ControlTypes, QuietQueue,
       timerVars, boundVars
  <2> QED BY <1>2, <2>2, <2>3, <2>4 DEF TypeOK
<1>4. CASE ~ (state_status = "MOVING" /\ requests # <<>>)
  <2>1. UNCHANGED <<requests, state_status, known, workVars>>
    BY <1>4 DEF HandleReconnected
  <2>2. Driving'
    BY <1>1, <2>1, QuietKeeps DEF HandleReconnected, beltVars
  <2>3. BeltTypes'
    BY <2>1 DEF HandleReconnected, TypeOK, BeltTypes, workVars
  <2>4. ControlTypes'
    BY <1>1, <2>1 DEF HandleReconnected, TypeOK, ControlTypes, QuietQueue,
       timerVars, boundVars, workVars
  <2> QED BY <1>2, <2>2, <2>3, <2>4 DEF TypeOK
<1> QED BY <1>3, <1>4


LEMMA RequestNextRobotKeeps ==
    ASSUME ConveyorInv, NEW p \in Position, RequestNextRobot(p)
    PROVE  ConveyorInv'
<1> USE DEF ConveyorInv, Driving
<1>1. /\ worker = "request" /\ worker' = "request" /\ p \in todo
      /\ todo' = todo \ {p} /\ requests' = Append(requests, p)
      /\ UNCHANGED <<plates, notifications, state_status, timerVars, io>>
  BY DEF RequestNextRobot, Visit
<1>2. requests \in Seq(Position)
  BY DEF TypeOK, BeltTypes
<1>3. /\ requests' \in Seq(Position)
      /\ DOMAIN requests = 1..Len(requests) /\ Len(requests) \in Nat
      /\ DOMAIN requests' = 1..(Len(requests) + 1)
      /\ \A i \in 1..Len(requests) : requests'[i] = requests[i]
      /\ requests'[Len(requests) + 1] = p
  BY <1>1, <1>2, AskFacts
<1>4. Waiting(p) /\ ~ Asked(p) /\ \A q : Waiting(q)' <=> Waiting(q)
  BY <1>1 DEF Loops, Waiting, Occupied
<1>5. QuietQueue
  BY <1>1, QuietSame
<1>6. BeltTypes'
  BY <1>1, <1>3 DEF RequestNextRobot, TypeOK, BeltTypes
<1>7. ControlTypes'
  BY <1>1, <1>5 DEF RequestNextRobot, TypeOK, ControlTypes, QuietQueue,
     timerVars, boundVars
<1>8. WorldTypes' /\ ReadyHasDish'
  <2> DEFINE Questions == [recipe : Recipe, steps : Nat]
  <2>1. Question(p) \in Questions
    BY <1>4, PlatesType DEF Question, Waiting, PlateType
  <2>2. asked \in Seq(Questions) /\ asked' = Append(asked, Question(p))
    BY DEF RequestNextRobot, TypeOK, WorldTypes, callVars
  <2>3. asked' \in Seq(Questions)
    <3> HIDE DEF Questions
    <3> QED BY <2>1, <2>2
  <2> QED BY <2>3 DEF RequestNextRobot, TypeOK, WorldTypes, callVars, ReadyHasDish,
             robotVars, dishVars
<1>9. BeltDriven'
  <2>1. \A d \in Driver : Drives(d)' <=> Drives(d)
    BY <1>1, <1>5 DEF Driver, Drives, QuietQueue, timerVars
  <2>2. state_status' = state_status /\ state_status # "IDLING"
    BY <1>1 DEF BeltDriven, Driver, Drives
  <2> QED BY <1>5, <2>1, <2>2 DEF BeltDriven, QuietQueue
<1>10. Loops'
  <2>1. ASSUME NEW q \in todo'
        PROVE  Waiting(q)' /\ ~ Asked(q)'
    <3>1. q \in todo /\ q # p
      BY <1>1
    <3>2. Waiting(q) /\ ~ Asked(q)
      BY <1>1, <3>1 DEF Loops
    <3> QED BY <1>3, <1>4, <3>1, <3>2 DEF Asked
  <2> QED BY <1>1, <2>1 DEF Loops
<1>11. RequestsAwaitAnswers'
  <2>1. \A i \in DOMAIN requests : requests[i] # p
    BY <1>4 DEF Asked
  <2>2. \A i, j \in DOMAIN requests' : requests'[i] = requests'[j] => i = j
    BY <1>3, <2>1 DEF RequestsAwaitAnswers
  <2>3. \A i \in DOMAIN requests' :
           \/ i \in DOMAIN requests /\ requests'[i] = requests[i]
           \/ requests'[i] = p
    BY <1>3
  <2>4. plates[p].dish # None /\ ~ plates[p].finished /\ plates[p].target = 0
    BY <1>4 DEF Waiting, Occupied
  <2> QED BY <1>1, <2>2, <2>3, <2>4 DEF RequestsAwaitAnswers
<1>12. running'
  BY <1>1 DEF timerVars
<1> QED BY <1>6, <1>7, <1>8, <1>9, <1>10, <1>11, <1>12 DEF TypeOK

LEMMA RequestFailsKeeps ==
    ASSUME ConveyorInv, NEW p \in Position, RequestFails(p)
    PROVE  ConveyorInv'
<1> USE DEF ConveyorInv, Driving
<1>1. /\ worker = "request" /\ worker' = "request" /\ p \in todo
      /\ todo' = todo \ {p}
      /\ UNCHANGED <<beltVars, timerVars, io>>
  BY DEF RequestFails, Visit
<1>2. QuietQueue
  BY <1>1, QuietSame
<1>3. Waiting(p) /\ \A q : Waiting(q)' <=> Waiting(q)
  BY <1>1 DEF Loops, Waiting, Occupied, beltVars
<1>4. BeltTypes'
  BY <1>1 DEF RequestFails, TypeOK, BeltTypes, beltVars
<1>5. ControlTypes'
  <2>1. faults' \in Nat
    BY FaultType DEF RequestFails
  <2> QED BY <1>1, <1>2, <2>1 DEF RequestFails, TypeOK, ControlTypes,
             QuietQueue, beltVars, timerVars
<1>6. WorldTypes' /\ ReadyHasDish'
  <2> DEFINE Questions == [recipe : Recipe, steps : Nat]
  <2>1. Question(p) \in Questions
    BY <1>3, PlatesType DEF Question, Waiting, PlateType
  <2>2. asked \in Seq(Questions)
    BY DEF TypeOK, WorldTypes, callVars
  <2>3. asked' = asked \/ asked' = Append(asked, Question(p))
    BY DEF RequestFails
  <2>4. asked' \in Seq(Questions)
    <3> HIDE DEF Questions
    <3> QED BY <2>1, <2>2, <2>3
  <2> QED BY <2>4 DEF RequestFails, TypeOK, WorldTypes, callVars, ReadyHasDish,
             robotVars, dishVars
<1>7. BeltDriven'
  <2>1. \A d : Drives(d)' <=> Drives(d)
    BY <1>1, <1>2 DEF Drives, QuietQueue, timerVars, beltVars
  <2>2. state_status' = state_status /\ state_status # "IDLING"
    BY <1>1 DEF BeltDriven, Driver, Drives, beltVars
  <2> QED BY <1>2, <2>1, <2>2 DEF BeltDriven, QuietQueue
<1>8. Loops' /\ RequestsAwaitAnswers' /\ running'
  BY <1>1, <1>3 DEF Loops, Asked, RequestsAwaitAnswers, beltVars, timerVars
<1> QED BY <1>4, <1>5, <1>6, <1>7, <1>8 DEF TypeOK

LEMMA RequestsDoneKeeps ==
    ASSUME ConveyorInv, RequestsDone
    PROVE  ConveyorInv'
<1> USE DEF ConveyorInv, Driving
<1>1. /\ worker = "request" /\ worker' = "idle" /\ todo' = todo
      /\ UNCHANGED <<beltVars, io>>
  BY DEF RequestsDone, Finished, Leave
<1>2. QuietQueue
  BY <1>1, QuietSame
<1>3. /\ state_status = "MOVING" /\ timer = "none"
      /\ \A op \in DrivingOp : ~ Queued(op)
  BY <1>1 DEF BeltDriven, Driver, Drives
<1>4. /\ running'
      /\ \/ requests = <<>> /\ timer' = "move"
         \/ requests # <<>> /\ timer' = "none"
  BY <1>3 DEF RequestsDone, StartMoving, Arm, timerVars
<1>5. BeltTypes'
  BY <1>1 DEF RequestsDone, TypeOK, BeltTypes, beltVars
<1>6. ControlTypes'
  <2>1. timer' \in {"none", "retrieve", "move"} /\ running' \in BOOLEAN
    BY <1>4
  <2> QED BY <1>1, <1>2, <2>1 DEF RequestsDone, TypeOK, ControlTypes,
             QuietQueue, beltVars, boundVars
<1>7. WorldTypes' /\ ReadyHasDish'
  BY DEF RequestsDone, TypeOK, WorldTypes, callVars, ReadyHasDish, robotVars, dishVars
<1>8. BeltDriven'
  BY <1>1, <1>2, <1>3, <1>4 DEF BeltDriven, Driver, Drives, QuietQueue,
     beltVars
<1>9. Loops' /\ RequestsAwaitAnswers'
  BY <1>1 DEF Loops, RequestsAwaitAnswers, beltVars
<1> QED BY <1>4, <1>5, <1>6, <1>7, <1>8, <1>9 DEF TypeOK

LEMMA HandleReceiveNextRobotKeeps ==
    ASSUME ConveyorInv, HandleReceiveNextRobot
    PROVE  ConveyorInv'
<1> USE DEF ConveyorInv, Driving
<1> DEFINE h == Head(io)
           p == Head(requests)
<1>1. QuietQueue /\ h \in Handler /\ h.op = "next_robot"
  BY QuietTake DEF HandleReceiveNextRobot, DrivingOp
<1>2. /\ requests # <<>> /\ requests' = Tail(requests)
      /\ worker = "idle" /\ worker' = "idle" /\ todo' = todo
      /\ UNCHANGED <<notifications, state_status>>
  BY DEF HandleReceiveNextRobot, Take, workVars
<1>3. requests \in Seq(Position) /\ plates \in [Position -> PlateType]
  BY DEF TypeOK, BeltTypes
<1>4. /\ requests' \in Seq(Position) /\ p \in Position
      /\ DOMAIN requests = 1..Len(requests) /\ Len(requests) \in Nat \ {0}
      /\ DOMAIN requests' = 1..(Len(requests) - 1)
      /\ \A i \in 1..(Len(requests) - 1) : requests'[i] = requests[i + 1]
      /\ p = requests[1]
  BY <1>2, <1>3, AnswerFacts
<1>5. known' \in [Position -> RemoteType \cup {None}] /\ faults' \in Nat
  BY <1>1, MeetRobotType DEF HandleReceiveNextRobot
<1>6. h.position \in Position
  BY <1>1, Positions DEF Handler, OUTPUT_POSITION
<1>7. /\ plates' \in [Position -> PlateType]
      /\ \A q \in Position : q # p => plates'[q] = plates[q]
  <2>1. [plates[p] EXCEPT !.target = h.position] \in PlateType
    <3>1. plates[p] \in PlateType
      BY <1>3, <1>4
    <3> HIDE DEF h, p
    <3> QED BY <1>6, <3>1 DEF PlateType
  <2>2. \/ plates' = plates
        \/ plates' = [plates EXCEPT ![p] =
                         [plates[p] EXCEPT !.target = h.position]]
    BY DEF HandleReceiveNextRobot
  <2> HIDE DEF h, p
  <2> QED BY <1>3, <1>4, <2>1, <2>2
<1>8. /\ state_status = "MOVING" /\ timer = "none"
      /\ \A op \in DrivingOp : ~ Queued(op)
  BY <1>2 DEF BeltDriven, Driver, Drives
<1>9. /\ running'
      /\ \/ requests' = <<>> /\ timer' = "move"
         \/ requests' # <<>> /\ timer' = "none"
  BY <1>2, <1>8 DEF HandleReceiveNextRobot, Arm, timerVars
<1>10. BeltTypes'
  BY <1>2, <1>4, <1>5, <1>7 DEF TypeOK, BeltTypes
<1>11. ControlTypes'
  <2>1. timer' \in {"none", "retrieve", "move"} /\ running' \in BOOLEAN
    BY <1>9
  <2> QED BY <1>1, <1>2, <1>5, <2>1 DEF HandleReceiveNextRobot, TypeOK,
             ControlTypes, QuietQueue
<1>12. WorldTypes' /\ ReadyHasDish'
  BY DEF HandleReceiveNextRobot, TypeOK, WorldTypes, callVars, ReadyHasDish, robotVars,
         dishVars
<1>13. BeltDriven'
  BY <1>1, <1>2, <1>8, <1>9 DEF BeltDriven, Driver, Drives, QuietQueue
<1>14. Loops'
  BY <1>2 DEF Loops
<1>15. RequestsAwaitAnswers'
  <2>1. \A i \in DOMAIN requests' :
           /\ i \in Nat /\ i + 1 \in DOMAIN requests
           /\ requests'[i] = requests[i + 1] /\ requests'[i] \in Position
           /\ requests'[i] # p
    BY <1>4 DEF RequestsAwaitAnswers
  <2>2. \A i, j \in DOMAIN requests' : requests'[i] = requests'[j] => i = j
    <3> SUFFICES ASSUME NEW i \in DOMAIN requests', NEW j \in DOMAIN requests',
                        requests'[i] = requests'[j]
                 PROVE  i = j
      OBVIOUS
    <3>1. i + 1 = j + 1
      BY <2>1 DEF RequestsAwaitAnswers
    <3> QED BY <3>1, <2>1
  <2>3. \A i \in DOMAIN requests' :
           plates'[requests'[i]] = plates[requests[i + 1]]
    BY <1>7, <2>1
  <2> QED BY <2>1, <2>2, <2>3 DEF RequestsAwaitAnswers
<1> QED BY <1>9, <1>10, <1>11, <1>12, <1>13, <1>14, <1>15 DEF TypeOK

LEMMA MoveConveyorKeeps ==
    ASSUME ConveyorInv, MoveConveyor
    PROVE  ConveyorInv'
<1> USE DEF ConveyorInv, Driving
<1>1. /\ io' \in Seq(Handler) /\ OneQueuedDriver'
      /\ Queued("move") /\ \A op \in DrivingOp : ~ Queued(op)'
  BY TakeFacts DEF MoveConveyor, DrivingOp, BeltDriven, TypeOK, ControlTypes
<1>2. /\ state_status = "MOVING" /\ timer = "none" /\ worker = "idle"
      /\ requests = <<>>
  BY <1>1 DEF BeltDriven, Driver, Drives, DrivingOp
<1>3. plates' \in [Position -> PlateType] /\ DOMAIN Moved = Position
  <2>1. \A p \in Position : (p - 1) % ConveyorSize \in Position
    BY ConveyorAssumption DEF Position
  <2> QED BY <2>1 DEF MoveConveyor, Moved, TypeOK, BeltTypes
<1>4. /\ worker' = "deliver" /\ requests' = <<>> /\ timer' = "none" /\ running'
      /\ state_status' = "MOVING"
      /\ todo' \subseteq {p \in Position : plates'[p].dish # None}
  BY <1>2, <1>3 DEF MoveConveyor, Enter, Arrived, timerVars
<1>5. BeltTypes'
  BY <1>3, <1>4, RobotsType DEF MoveConveyor, TypeOK, BeltTypes
<1>6. ControlTypes'
  BY <1>1, <1>4 DEF MoveConveyor, TypeOK, ControlTypes, boundVars
<1>7. WorldTypes' /\ ReadyHasDish'
  BY DEF MoveConveyor, TypeOK, WorldTypes, callVars, ReadyHasDish, robotVars, dishVars
<1>8. BeltDriven'
  BY <1>1, <1>4 DEF BeltDriven, Driver, Drives
<1>9. Loops' /\ RequestsAwaitAnswers'
  BY <1>4 DEF Loops, RequestsAwaitAnswers, Occupied
<1> QED BY <1>4, <1>5, <1>6, <1>7, <1>8, <1>9 DEF TypeOK

LEMMA TimerExpiresKeeps ==
    ASSUME ConveyorInv, TimerExpires
    PROVE  ConveyorInv'
<1> USE DEF ConveyorInv, Driving
<1> DEFINE h == [op |-> timer]
<1>1. /\ timer \in DrivingOp /\ timer' = "none" /\ running' /\ Post(h)
      /\ UNCHANGED <<beltVars, workVars>>
  BY DEF TimerExpires, TypeOK, ControlTypes, DrivingOp
<1>2. h \in Handler
  BY <1>1 DEF Handler, DrivingOp
<1>3. /\ worker = "idle" /\ requests = <<>> /\ state_status = "MOVING"
      /\ \A op \in DrivingOp : ~ Queued(op)
  BY <1>1 DEF BeltDriven, Driver, Drives, DrivingOp
<1>4. /\ io' \in Seq(Handler) /\ OneQueuedDriver'
      /\ \E op \in DrivingOp : Queued(op)'
  <2>1. io \in Seq(Handler) /\ OneQueuedDriver
    BY DEF TypeOK, ControlTypes, BeltDriven
  <2>2. /\ io' \in Seq(Handler) /\ OneQueuedDriver'
        /\ \A op \in DrivingOp : Queued(op)' <=> Queued(op) \/ h.op = op
    <3> HIDE DEF h
    <3> QED BY <1>1, <1>2, <1>3, <2>1, PostFacts
  <2> QED BY <1>1, <2>2
<1>5. BeltTypes'
  BY <1>1 DEF TimerExpires, TypeOK, BeltTypes, beltVars, workVars
<1>6. ControlTypes'
  BY <1>1, <1>4 DEF TimerExpires, TypeOK, ControlTypes, beltVars, workVars,
     boundVars
<1>7. WorldTypes' /\ ReadyHasDish'
  BY DEF TimerExpires, TypeOK, WorldTypes, callVars, ReadyHasDish, robotVars, dishVars
<1>8. BeltDriven'
  BY <1>1, <1>3, <1>4 DEF BeltDriven, Driver, Drives, beltVars, workVars
<1>9. Loops' /\ RequestsAwaitAnswers'
  BY <1>1, <1>3 DEF Loops, RequestsAwaitAnswers, beltVars, workVars
<1> QED BY <1>1, <1>5, <1>6, <1>7, <1>8, <1>9 DEF TypeOK

LEMMA StutterKeeps ==
    ASSUME ConveyorInv, UNCHANGED vars
    PROVE  ConveyorInv'
<1> USE DEF ConveyorInv
<1>1. QuietQueue
  BY QuietSame DEF vars
<1>2. BeltTypes'
  BY DEF TypeOK, BeltTypes, vars, beltVars, workVars
<1>3. ControlTypes'
  BY DEF TypeOK, ControlTypes, vars, beltVars, workVars, timerVars, boundVars
<1>4. WorldTypes' /\ ReadyHasDish'
  BY DEF TypeOK, WorldTypes, callVars, ReadyHasDish, vars, robotVars, dishVars
<1>5. Driving'
  BY <1>1, QuietKeeps DEF vars
<1> QED BY <1>2, <1>3, <1>4, <1>5 DEF TypeOK

------------------------------------------------------------------------------
LEMMA InitEstablishes == Init => ConveyorInv
<1> SUFFICES ASSUME Init PROVE ConveyorInv
  OBVIOUS
<1>1. BeltTypes
  BY PlatesType, Positions DEF Init, BeltTypes, EmptyPlate, PlateType,
     OUTPUT_POSITION
<1>2. ControlTypes
  BY DEF Init, ControlTypes, Agent
<1>3. WorldTypes /\ ReadyHasDish
  <2>1. /\ lost \in [Dish -> Nat] /\ overwritten \in [Dish -> Nat]
        /\ copied \in [Dish -> Nat]
    BY DEF Init
  <2>2. asked = <<>> /\ delivered = <<>> /\ queue = [r \in Robot |-> <<>>]
    BY DEF Init
  <2>3. /\ asked \in Seq([recipe : Recipe, steps : Nat])
        /\ delivered \in Seq(Dish) /\ queue \in [Robot -> Seq(TaskType)]
    BY <2>2
  <2>4. place \in [Robot -> RobotPosition] /\ bound_for \in [Robot -> Position]
    <3>1. place = StartPosition /\ bound_for = [r \in Robot |-> 0]
      BY DEF Init
    <3>2. 0 \in Position
      BY Positions DEF OUTPUT_POSITION
    <3> QED BY <3>1, <3>2, ConveyorAssumption
  <2>5. /\ up \in [Robot -> BOOLEAN] /\ ready \in [Robot -> BOOLEAN]
        /\ ordered \subseteq Dish /\ ReadyHasDish
        /\ receiver \in BOOLEAN /\ forgotten \in BOOLEAN /\ repeated \in BOOLEAN
    BY DEF Init, ReadyHasDish
  <2> QED BY <2>1, <2>3, <2>4, <2>5 DEF WorldTypes
<1>4. Occupied = {} /\ OneQueuedDriver /\ \A op : ~ Queued(op)
  BY DEF Init, Occupied, EmptyPlate, OneQueuedDriver, Queued
<1>5. Driving
  BY <1>4 DEF Init, Driving, BeltDriven, Driver, Drives, Loops,
     RequestsAwaitAnswers
<1> QED BY <1>1, <1>2, <1>3, <1>5 DEF ConveyorInv, TypeOK

LEMMA NextKeeps == ConveyorInv /\ [Next]_vars => ConveyorInv'
<1> SUFFICES ASSUME ConveyorInv, [Next]_vars PROVE ConveyorInv'
  OBVIOUS
<1>1. CASE WorkerStep
  <2>1. CASE \E p \in Position : RetrieveStep(p)
    BY <2>1, RetrieveLaterKeeps, RetrieveDishKeeps, RetrieveFailsKeeps
       DEF RetrieveStep
  <2>2. CASE \E p \in Position : RequestStep(p)
    BY <2>2, RequestNextRobotKeeps, RequestFailsKeeps DEF RequestStep
  <2>3. CASE \E p \in Position : DeliverStep(p)
    BY <2>3, DeliverToKitchenKeeps,
       DeliverToKitchenFailsKeeps, DeliverToRobotKeeps, RobotRefusesKeeps,
       DeliverToRobotFailsKeeps
       DEF DeliverStep
  <2> QED BY <1>1, <2>1, <2>2, <2>3, HandleFinishedOrderNotificationKeeps,
             HandleRetrieveFinishedOrdersKeeps, RetrieveDoneKeeps,
             RequestsDoneKeeps, DeliverDoneKeeps, IgnoreNextRobotKeeps,
             MismatchedNextRobotKeeps, HandleReceiveNextRobotKeeps,
             MoveConveyorKeeps, HandleReconnectedKeeps,
             HandlePositionSwappedKeeps
             DEF WorkerStep
<1>2. CASE ClientStep
  BY <1>2, PositionChangedKeeps, RemoteStopsKeeps, ClientDropsKeeps,
     ClientReconnectsKeeps
     DEF ClientStep
<1>3. CASE \E r \in Robot : RobotStep(r)
  BY <1>3, RobotFinishesKeeps, RobotMovesKeeps, ControllerCommitsKeeps
     DEF RobotStep
<1>4. CASE Disturbance
  BY <1>4, KitchenAssignsKeeps, RearrangeKeeps, RobotReannouncesKeeps,
     RobotCrashesKeeps, ConnectionBreaksKeeps, LinkBreaksKeeps,
     ControllerAnswerLostKeeps, ReceiverBreaksKeeps
     DEF Disturbance
<1>5. CASE TimerExpires \/ ControllerAnswers
  BY <1>5, TimerExpiresKeeps, ControllerAnswersKeeps
<1>6. CASE UNCHANGED vars
  BY <1>6, StutterKeeps
<1> QED BY <1>1, <1>2, <1>3, <1>4, <1>5, <1>6 DEF Next

(* ConveyorInv holds in every state the conveyor reaches.                   *)
THEOREM Invariance == Spec => []ConveyorInv
BY InitEstablishes, NextKeeps, PTL DEF Spec

(* Every variable keeps its type: a target is a position, a request names   *)
(* one, and a robot whose dish is ready has one.                            *)
THEOREM TypeCorrect == Spec => []TypeOK
<1>1. ConveyorInv => TypeOK
  BY DEF ConveyorInv
<1> QED BY <1>1, Invariance, PTL

(* A MOVING conveyor is driven by exactly one of timer, queued completion,  *)
(* loop and outstanding answer, an IDLING one has nothing left to do.       *)
THEOREM BeltIsDriven == Spec => []BeltDriven
<1>1. ConveyorInv => BeltDriven
  BY DEF ConveyorInv, Driving
<1> QED BY <1>1, Invariance, PTL

(* No handler arms steady_timer_ while it is armed: no cancelled wait takes *)
(* the conveyor out of the kitchen.                                         *)
THEOREM NoWaitIsCancelled == Spec => []TimerNeverCancelled
<1>1. ConveyorInv => TimerNeverCancelled
  BY DEF ConveyorInv, Driving, TimerNeverCancelled
<1> QED BY <1>1, Invariance, PTL

(* Every request at the conveyor is for a plate that waits for a robot, and *)
(* each such plate is asked for once, also after reconnections, mismatched  *)
(* and lost answers.                                                        *)
THEOREM RequestsAreForWaitingPlates == Spec => []RequestsAwaitAnswers
<1>1. ConveyorInv => RequestsAwaitAnswers
  BY DEF ConveyorInv, Driving
<1> QED BY <1>1, Invariance, PTL

(* A plate gets a target only while it waits for one: what an answer of the *)
(* controller says never redirects a dish that is under way or finished.    *)
THEOREM TargetsAreNotOverwritten ==
    Spec => [][HandleReceiveNextRobot
                 => \A p \in Position :
                       plates'[p] # plates[p] => Waiting(p)]_vars
<1>1. ASSUME ConveyorInv, HandleReceiveNextRobot,
             NEW p \in Position, plates'[p] # plates[p]
      PROVE  Waiting(p)
  <2>1. requests \in Seq(Position) /\ plates \in [Position -> PlateType]
    BY <1>1 DEF ConveyorInv, TypeOK, BeltTypes
  <2>2. requests # <<>> /\ Head(requests) = requests[1]
        /\ 1 \in DOMAIN requests
    BY <1>1, <2>1 DEF HandleReceiveNextRobot
  <2>3. p = Head(requests)
    BY <1>1, <2>1 DEF HandleReceiveNextRobot
  <2> QED BY <1>1, <2>2, <2>3 DEF ConveyorInv, Driving, RequestsAwaitAnswers,
             Waiting, Occupied
<1>2. ConveyorInv /\ [Next]_vars
        => [HandleReceiveNextRobot
              => \A p \in Position :
                    plates'[p] # plates[p] => Waiting(p)]_vars
  BY <1>1
<1> QED BY <1>2, Invariance, PTL DEF Spec

------------------------------------------------------------------------------
(* The dishes.                                                              *)

(* A dish at a robot has work left for it; one on the belt has work left    *)
(* exactly as long as it is not finished.                                   *)
TaskFits(t) == t.steps < Visits[t.dish]
PlateFits(plate) ==
    plate.dish # None =>
        IF plate.finished THEN plate.steps = Visits[plate.dish]
        ELSE plate.steps < Visits[plate.dish]
StepsInv ==
    /\ \A r \in Robot : \A i \in DOMAIN queue[r] : TaskFits(queue[r][i])
    /\ \A p \in Position : PlateFits(plates[p])

(* A robot that is sent somewhere and one that stands there make way for    *)
(* each other: no two robots are bound for one position, and of two that    *)
(* are at one position one has arrived and the other is about to leave.     *)
RobotsPass ==
    \A r, s \in Robot : r # s =>
        /\ bound_for[r] # 0 =>
              bound_for[r] # bound_for[s] /\ (place[s] = bound_for[r]
                                                => bound_for[s] # 0)
        /\ place[r] = place[s] =>
              /\ bound_for[r] # 0 /\ bound_for[s] # 0
              /\ bound_for[r] = place[r] \/ bound_for[s] = place[s]
ReadyStays == \A r \in Robot : ready[r] => place[r] # bound_for[r]
LinksLive ==
    /\ \A r \in Robot : up[r]
    /\ \A p \in Position : known[p] # None => known[p].link = "live"

(* A queued announcement is the robot's only one, and is made where it is.  *)
IsAnnouncement(i, r) == io[i].op = "notified" /\ io[i].robot = r
Announcements ==
    /\ \A i \in DOMAIN io : io[i].op = "notified" =>
          ready[io[i].robot] /\ place[io[i].robot] = io[i].position
    /\ \A r \in Robot : \A i, j \in DOMAIN io :
          IsAnnouncement(i, r) /\ IsAnnouncement(j, r) => i = j
(* An answer that names a position where meanwhile another robot waits for  *)
(* the conveyor is handled before the announcement of that robot.           *)
AnswersComeFirst ==
    \A i \in DOMAIN io : io[i].op = "next_robot" =>
        \A r \in Robot :
            ready[r] /\ place[r] = io[i].position /\ r # io[i].robot
              => \E j \in DOMAIN io : i < j /\ IsAnnouncement(j, r)
Findable(r) ==
    /\ place[r] \in notifications
    /\ known[place[r]] # None /\ known[place[r]].robot = r
Announced ==
    /\ \A p \in notifications : \E r \in Robot :
          ready[r] /\ place[r] = p /\ ~ Announcing(r)
    /\ \A r \in Robot : ready[r] /\ ~ Announcing(r) => Findable(r)
    /\ worker = "retrieve" => todo \subseteq notifications

(* Nothing was taken, overwritten or copied.                                *)
Unharmed == \A d \in Dish : lost[d] = 0 /\ overwritten[d] = 0 /\ copied[d] = 0
FindParts == /\ RobotsPass /\ ReadyStays /\ LinksLive
             /\ Announcements /\ AnswersComeFirst /\ Announced
             /\ Unharmed
FindInv == faults = 0 => FindParts

------------------------------------------------------------------------------
(* What a step does to the dishes, whichever action takes it.               *)

(* Every plate keeps its dish; at most its target changes.                  *)
SamePlates ==
    \A p \in Position : /\ plates'[p].dish = plates[p].dish
                        /\ plates'[p].steps = plates[p].steps
                        /\ plates'[p].finished = plates[p].finished
Stays == SamePlates /\ UNCHANGED <<queue, ordered, delivered, lost,
                               overwritten, copied>>
Turns == plates' = Moved /\ UNCHANGED <<queue, ordered, delivered, lost,
                               overwritten, copied>>
Assigned(d, r) ==
    /\ d \in ordered /\ CanCook(r, RecipeOf[d], 0)
    /\ ordered' = ordered \ {d}
    /\ queue' = [queue EXCEPT ![r] = Append(@, [dish |-> d, steps |-> 0])]
    /\ UNCHANGED <<plates, delivered, lost, overwritten, copied>>
Retrieved(r) ==
    /\ ready[r] /\ GiveAway(r) /\ PlaceDish(place[r], HandedOver(r))
    /\ Overwrite(place[r])
    /\ UNCHANGED <<ordered, delivered, lost, copied>>
Passed(r, p) ==
    /\ p \in Occupied /\ AtTarget(plates[p], p) /\ Accepts(r, p)
    /\ GiveTask(r, p) /\ reset_plate(p)
    /\ UNCHANGED <<ordered, delivered, lost, overwritten, copied>>
Served(p) ==
    /\ p \in Occupied /\ AtOutput(plates[p], p)
    /\ delivered' = Append(delivered, plates[p].dish) /\ reset_plate(p)
    /\ UNCHANGED <<queue, ordered, lost, overwritten, copied>>

(* The other steps take a fault: an answer is lost, a robot crashes.        *)
Dropped(r) ==
    /\ ready[r] /\ GiveAway(r)
    /\ lost' = Count(lost, HandedOver(r).dish)
    /\ UNCHANGED <<plates, ordered, delivered, overwritten, copied>>
PassedTwice(r, p) ==
    /\ p \in Occupied /\ AtTarget(plates[p], p) /\ Accepts(r, p)
    /\ GiveTask(r, p) /\ SamePlates
    /\ copied' = Count(copied, plates[p].dish)
    /\ UNCHANGED <<ordered, delivered, lost, overwritten>>
ServedTwice(p) ==
    /\ p \in Occupied
    /\ delivered' = Append(delivered, plates[p].dish)
    /\ copied' = Count(copied, plates[p].dish)
    /\ UNCHANGED <<plates, queue, ordered, lost, overwritten>>
Crashed(r) ==
    /\ queue' = [queue EXCEPT ![r] = <<>>]
    /\ lost' = [d \in Dish |-> lost[d] + Cardinality(TasksOf(r, d))]
    /\ UNCHANGED <<plates, ordered, delivered, overwritten, copied>>

Regular ==
    \/ Stays \/ Turns
    \/ \E d \in Dish, r \in Robot : Assigned(d, r)
    \/ \E r \in Robot : Retrieved(r)
    \/ \E r \in Robot, p \in Position : Passed(r, p)
    \/ \E p \in Position : Served(p)
Faulty ==
    \/ \E r \in Robot : Dropped(r) \/ Crashed(r)
    \/ \E r \in Robot, p \in Position : PassedTwice(r, p)
    \/ \E p \in Position : ServedTwice(p)
DishStep ==
    \/ Regular /\ faults' \in {faults, faults + 1}
    \/ Faulty /\ faults' = faults + 1

LEMMA ReachFault ==
    ASSUME NEW p, NEW r, NEW ok, Reach(p, r, ok)
    PROVE  faults' \in {faults, faults + 1}
  BY DEF Reach, Fault

LEMMA MeetFault ==
    ASSUME NEW h, MeetRobot(h)
    PROVE  faults' \in {faults, faults + 1}
  BY ReachFault DEF MeetRobot

LEMMA DeliverIsDishStep ==
    ASSUME ConveyorInv, NEW p \in Position, DeliverStep(p)
    PROVE  DishStep
<1> USE DEF ConveyorInv, Driving
<1>1. worker = "deliver" => todo \subseteq Occupied
  BY DEF Loops
<1>2. plates \in [Position -> PlateType]
  BY DEF TypeOK, BeltTypes
<1>3. known[p] # None => known[p].robot \in Robot
  BY RobotsType DEF RemoteType
<1>4. CASE DeliverToKitchen(p)
  <2>1. Served(p) /\ faults' = faults
    BY <1>1, <1>4 DEF DeliverToKitchen, Served, Visit, robotVars, boundVars
  <2> QED BY <2>1 DEF DishStep, Regular
<1>5. CASE DeliverToKitchenFails(p)
  <2>1. p \in Occupied
        /\ UNCHANGED <<plates, queue, ordered, lost, overwritten>>
    BY <1>1, <1>5 DEF DeliverToKitchenFails, Visit, beltVars, robotVars
  <2>2. CASE UNCHANGED <<delivered, copied>>
    <3>1. Stays /\ faults' \in {faults, faults + 1}
      BY <1>5, <2>1, <2>2 DEF DeliverToKitchenFails, Stays, SamePlates, Fault
    <3> QED BY <3>1 DEF DishStep, Regular
  <2>3. CASE ~ UNCHANGED <<delivered, copied>>
    <3>1. ServedTwice(p) /\ faults' = faults + 1
      BY <1>5, <2>1, <2>3 DEF DeliverToKitchenFails, ServedTwice, Fault
    <3> QED BY <3>1 DEF DishStep, Faulty
  <2> QED BY <2>2, <2>3
<1>6. CASE DeliverToRobot(p)
  <2>1. Passed(known[p].robot, p) /\ faults' = faults
    BY <1>1, <1>6 DEF DeliverToRobot, Passed, Visit, dishVars, boundVars
  <2> QED BY <1>3, <1>6, <2>1 DEF DishStep, Regular, DeliverToRobot, Reachable
<1>7. CASE RobotRefuses(p)
  <2>1. Stays /\ faults' = faults
    BY <1>2, <1>7 DEF RobotRefuses, Stays, SamePlates, LoseTarget, PlateType,
       dishVars, robotVars, boundVars
  <2> QED BY <2>1 DEF DishStep, Regular
<1>8. CASE DeliverToRobotFails(p)
  <2>1. SamePlates /\ p \in Occupied
        /\ UNCHANGED <<ordered, delivered, lost, overwritten>>
    BY <1>1, <1>2, <1>8 DEF DeliverToRobotFails, SamePlates, LoseTarget, Visit,
       PlateType, dishVars
  <2>2. CASE UNCHANGED <<robotVars, copied>>
    <3>1. Stays /\ faults' \in {faults, faults + 1}
      BY <1>8, <2>1, <2>2 DEF DeliverToRobotFails, Stays, Fault, robotVars
    <3> QED BY <3>1 DEF DishStep, Regular
  <2>3. CASE ~ UNCHANGED <<robotVars, copied>>
    <3>1. PassedTwice(known[p].robot, p) /\ faults' = faults + 1
      BY <1>8, <2>1, <2>3 DEF DeliverToRobotFails, PassedTwice, Fault
    <3> QED BY <1>3, <1>8, <3>1 DEF DishStep, Faulty, DeliverToRobotFails
  <2> QED BY <2>2, <2>3
<1> QED BY <1>4, <1>5, <1>6, <1>7, <1>8 DEF DeliverStep

LEMMA RetrieveIsDishStep ==
    ASSUME ConveyorInv, NEW p \in Position, RetrieveStep(p)
    PROVE  DishStep
<1>1. known[p] # None => known[p].robot \in Robot
  BY RobotsType DEF RemoteType, ConveyorInv
<1>2. CASE RetrieveLater(p)
  <2>1. Stays /\ faults' = faults
    BY <1>2 DEF RetrieveLater, Stays, SamePlates, beltVars, dishVars, robotVars,
       boundVars
  <2> QED BY <2>1 DEF DishStep, Regular
<1>3. CASE RetrieveDish(p)
  <2> DEFINE r == known[p].robot
  <2>1. r \in Robot /\ faults' = faults
    BY <1>1, <1>3 DEF RetrieveDish, Reachable, boundVars
  <2>2. CASE ready[r]
    <3>1. Retrieved(r)
      BY <1>3, <2>2 DEF RetrieveDish, Retrieved
    <3> QED BY <2>1, <3>1 DEF DishStep, Regular
  <2>3. CASE ~ ready[r]
    <3>1. Stays
      BY <1>3, <2>3 DEF RetrieveDish, Stays, SamePlates, robotVars
    <3> QED BY <2>1, <3>1 DEF DishStep, Regular
  <2> QED BY <2>2, <2>3
<1>4. CASE RetrieveFails(p)
  <2>1. faults' \in {faults, faults + 1}
        /\ UNCHANGED <<plates, ordered, delivered, overwritten, copied>>
    BY <1>4 DEF RetrieveFails, Fault
  <2>2. CASE UNCHANGED <<robotVars, lost>>
    <3>1. Stays
      BY <2>1, <2>2 DEF Stays, SamePlates, robotVars
    <3> QED BY <2>1, <3>1 DEF DishStep, Regular
  <2>3. CASE ~ UNCHANGED <<robotVars, lost>>
    <3>1. Dropped(known[p].robot) /\ faults' = faults + 1
      BY <1>4, <2>1, <2>3 DEF RetrieveFails, Dropped, Fault
    <3> QED BY <1>1, <1>4, <2>3, <3>1 DEF DishStep, Faulty, RetrieveFails,
               Reachable
  <2> QED BY <2>2, <2>3
<1> QED BY <1>2, <1>3, <1>4 DEF RetrieveStep

LEMMA OtherIsDishStep ==
    ASSUME ConveyorInv, UNCHANGED <<plates, queue, ordered, delivered, lost,
                                    overwritten, copied>>,
           faults' \in {faults, faults + 1}
    PROVE  DishStep
  BY DEF DishStep, Regular, Stays, SamePlates

LEMMA WorkerIsDishStep ==
    ASSUME ConveyorInv, WorkerStep
    PROVE  DishStep
<1> USE DEF beltVars, robotVars, dishVars, boundVars
<1>1. CASE \E p \in Position : RetrieveStep(p)
  BY <1>1, RetrieveIsDishStep
<1>2. CASE \E p \in Position : RequestStep(p)
  BY <1>2, OtherIsDishStep DEF RequestStep, RequestNextRobot, RequestFails,
     Fault
<1>3. CASE \E p \in Position : DeliverStep(p)
  BY <1>3, DeliverIsDishStep
<1>4. CASE HandleReceiveNextRobot
  <2>1. faults' \in {faults, faults + 1}
    BY <1>4, MeetFault DEF HandleReceiveNextRobot
  <2>2. plates \in [Position -> PlateType]
    BY DEF ConveyorInv, TypeOK, BeltTypes
  <2>3. SamePlates
    BY <1>4, <2>2 DEF HandleReceiveNextRobot, SamePlates, PlateType
  <2> QED BY <1>4, <2>1, <2>3 DEF HandleReceiveNextRobot, DishStep, Regular,
             Stays
<1>5. CASE MoveConveyor
  BY <1>5 DEF MoveConveyor, DishStep, Regular, Turns
<1>6. CASE HandleFinishedOrderNotification
  BY <1>6, ReachFault, OtherIsDishStep DEF HandleFinishedOrderNotification
<1>7. CASE MismatchedNextRobot
  BY <1>7, MeetFault, OtherIsDishStep DEF MismatchedNextRobot
<1>8. CASE \/ HandleRetrieveFinishedOrders \/ RetrieveDone \/ RequestsDone
           \/ DeliverDone \/ IgnoreNextRobot \/ HandleReconnected
           \/ HandlePositionSwapped
  BY <1>8, OtherIsDishStep DEF HandleRetrieveFinishedOrders, RetrieveDone,
     RequestsDone, DeliverDone, IgnoreNextRobot, HandleReconnected,
     HandlePositionSwapped
<1> QED BY <1>1, <1>2, <1>3, <1>4, <1>5, <1>6, <1>7, <1>8 DEF WorkerStep

LEMMA NextIsDishStep ==
    ASSUME ConveyorInv, [Next]_vars
    PROVE  DishStep
<1> USE DEF beltVars, robotVars, dishVars, boundVars
<1>1. CASE WorkerStep
  BY <1>1, WorkerIsDishStep
<1>2. CASE ClientStep
  BY <1>2, OtherIsDishStep DEF ClientStep, PositionChanged, RemoteStops,
     ClientDrops, ClientReconnects
<1>3. CASE \E r \in Robot : RobotStep(r)
  BY <1>3, OtherIsDishStep DEF RobotStep, RobotFinishes, RobotMoves,
     ControllerCommits
<1>4. CASE TimerExpires \/ ControllerAnswers
  BY <1>4, OtherIsDishStep DEF TimerExpires, ControllerAnswers, Fault
<1>5. CASE \E d \in Dish, r \in Robot : KitchenAssigns(d, r)
  BY <1>5 DEF KitchenAssigns, Assigned, DishStep, Regular
<1>6. CASE \E r \in Robot : RobotCrashes(r)
  BY <1>6 DEF RobotCrashes, Crashed, DishStep, Faulty, Fault
<1>7. CASE Disturbance
  BY <1>5, <1>6, <1>7, OtherIsDishStep DEF Disturbance, Rearrange,
     RobotReannounces, ConnectionBreaks, LinkBreaks, ControllerAnswerLost, ReceiverBreaks, Fault
<1>8. CASE UNCHANGED vars
  BY <1>8, OtherIsDishStep DEF vars
<1> QED BY <1>1, <1>2, <1>3, <1>4, <1>7, <1>8 DEF Next

------------------------------------------------------------------------------
(* How far the dishes are.                                                  *)

LEMMA QueueFacts ==
    ASSUME TypeOK, NEW r \in Robot
    PROVE  /\ queue \in [Robot -> Seq(TaskType)]
           /\ queue[r] \in Seq(TaskType) /\ Len(queue[r]) \in Nat
           /\ DOMAIN queue[r] = 1..Len(queue[r])
           /\ \A i \in DOMAIN queue[r] : queue[r][i] \in TaskType
  BY DEF TypeOK, WorldTypes

LEMMA VisitsType == Visits \in [Dish -> Nat]
  BY ConveyorAssumption DEF Visits

(* The first dish of a queue goes, the others move up.                      *)
LEMMA TailFacts ==
    ASSUME TypeOK, ReadyHasDish, NEW r \in Robot, ready[r], GiveAway(r)
    PROVE  /\ \A s \in Robot : s # r => queue'[s] = queue[s]
           /\ Len(queue[r]) \in Nat \ {0}
           /\ DOMAIN queue[r] = 1..Len(queue[r])
           /\ DOMAIN queue'[r] = 1..(Len(queue[r]) - 1)
           /\ \A i \in 1..(Len(queue[r]) - 1) : queue'[r][i] = queue[r][i + 1]
           /\ Head(queue[r]) = queue[r][1] /\ queue[r][1] \in TaskType
           /\ DOMAIN queue = Robot /\ DOMAIN queue' = Robot
<1>1. queue \in [Robot -> Seq(TaskType)] /\ queue[r] # <<>>
  BY DEF TypeOK, WorldTypes, ReadyHasDish
<1>2. queue' = [queue EXCEPT ![r] = Tail(queue[r])]
  BY DEF GiveAway
<1>3. queue'[r] = Tail(queue[r]) /\ queue[r] \in Seq(TaskType)
  BY <1>1, <1>2
<1> QED BY <1>1, <1>2, <1>3

(* A dish more comes last.                                                  *)
LEMMA AppendFacts ==
    ASSUME TypeOK, NEW r \in Robot, NEW t \in TaskType,
           queue' = [queue EXCEPT ![r] = Append(@, t)]
    PROVE  /\ \A s \in Robot : s # r => queue'[s] = queue[s]
           /\ Len(queue[r]) \in Nat
           /\ DOMAIN queue[r] = 1..Len(queue[r])
           /\ DOMAIN queue'[r] = 1..(Len(queue[r]) + 1)
           /\ \A i \in 1..Len(queue[r]) : queue'[r][i] = queue[r][i]
           /\ queue'[r][Len(queue[r]) + 1] = t
           /\ DOMAIN queue = Robot /\ DOMAIN queue' = Robot
<1>1. queue \in [Robot -> Seq(TaskType)]
  BY DEF TypeOK, WorldTypes
<1>2. queue'[r] = Append(queue[r], t) /\ queue[r] \in Seq(TaskType)
  BY <1>1
<1> QED BY <1>1, <1>2

LEMMA HandedOverFits ==
    ASSUME TypeOK, ReadyHasDish, StepsInv, NEW r \in Robot, ready[r]
    PROVE  /\ HandedOver(r).dish = queue[r][1].dish
           /\ HandedOver(r).dish \in Dish
           /\ HandedOver(r).steps = queue[r][1].steps + 1
           /\ PlateFits(HandedOver(r))
<1>1. queue[r] \in Seq(TaskType) /\ queue[r] # <<>>
  BY DEF TypeOK, WorldTypes, ReadyHasDish
<1>2. /\ Head(queue[r]) = queue[r][1] /\ queue[r][1] \in TaskType
      /\ 1 \in DOMAIN queue[r]
  BY <1>1
<1>3. queue[r][1].steps < Visits[queue[r][1].dish]
  BY <1>2 DEF StepsInv, TaskFits
<1>4. Visits[queue[r][1].dish] \in Nat
  BY <1>2, VisitsType DEF TaskType
<1>5. HandedOver(r) = [dish |-> queue[r][1].dish,
                       steps |-> queue[r][1].steps + 1,
                       finished |-> queue[r][1].steps + 1
                                      = Visits[queue[r][1].dish]]
  BY <1>2 DEF HandedOver
<1>6. queue[r][1].steps \in Nat /\ queue[r][1].dish \in Dish
  BY <1>2 DEF TaskType
<1>7. PlateFits(HandedOver(r))
  <2> DEFINE n == queue[r][1].steps + 1
             v == Visits[queue[r][1].dish]
  <2>1. /\ HandedOver(r).finished = (n = v) /\ HandedOver(r).steps = n
        /\ HandedOver(r).dish = queue[r][1].dish
    BY <1>5
  <2>2. n \in Nat /\ v \in Nat /\ n <= v
    BY <1>3, <1>4, <1>6
  <2>3. CASE n = v
    BY <2>1, <2>3 DEF PlateFits
  <2>4. CASE n # v
    <3>1. n < v
      BY <2>2, <2>4
    <3>2. ~ HandedOver(r).finished
      BY <2>1, <2>4
    <3> QED BY <2>1, <3>1, <3>2 DEF PlateFits
  <2> QED BY <2>3, <2>4
<1> QED BY <1>5, <1>6, <1>7

LEMMA GiveAwayKeepsSteps ==
    ASSUME TypeOK, ReadyHasDish, StepsInv, NEW r \in Robot, ready[r],
           GiveAway(r)
    PROVE  \A s \in Robot : \A i \in DOMAIN queue'[s] : TaskFits(queue'[s][i])
  BY TailFacts DEF StepsInv

LEMMA AppendKeepsSteps ==
    ASSUME TypeOK, StepsInv, NEW r \in Robot, NEW t \in TaskType, TaskFits(t),
           queue' = [queue EXCEPT ![r] = Append(@, t)]
    PROVE  \A s \in Robot : \A i \in DOMAIN queue'[s] : TaskFits(queue'[s][i])
<1>1. ASSUME NEW i \in DOMAIN queue'[r]
      PROVE  TaskFits(queue'[r][i])
  <2>1. i \in 1..Len(queue[r]) \/ i = Len(queue[r]) + 1
    BY AppendFacts
  <2> QED BY <2>1, AppendFacts DEF StepsInv
<1> QED BY <1>1, AppendFacts DEF StepsInv

LEMMA GiveTaskKeepsSteps ==
    ASSUME TypeOK, StepsInv, NEW r \in Robot, NEW p \in Occupied,
           AtTarget(plates[p], p), GiveTask(r, p)
    PROVE  \A s \in Robot : \A i \in DOMAIN queue'[s] : TaskFits(queue'[s][i])
<1> DEFINE t == [dish |-> plates[p].dish, steps |-> plates[p].steps]
<1>1. plates[p] \in PlateType /\ plates[p].dish \in Dish /\ p \in Position
  BY PlatesType
<1>2. t \in TaskType
  BY <1>1 DEF TaskType, PlateType
<1>3. TaskFits(t)
  BY <1>1, ConveyorAssumption DEF TaskFits, StepsInv, PlateFits, AtTarget
<1>4. queue' = [queue EXCEPT ![r] = Append(@, t)]
  BY DEF GiveTask
<1> QED BY <1>2, <1>3, <1>4, AppendKeepsSteps

LEMMA TurnFacts ==
    \A p \in Position :
        /\ (p - 1) % ConveyorSize = IF p = 0 THEN ConveyorSize - 1 ELSE p - 1
        /\ (p - 1) % ConveyorSize \in Position
  BY ConveyorAssumption DEF Position

(* StepsInv is kept.                                                        *)
LEMMA StepsNextKeeps == ConveyorInv /\ StepsInv /\ [Next]_vars => StepsInv'
<1> SUFFICES ASSUME ConveyorInv, StepsInv, [Next]_vars PROVE StepsInv'
  OBVIOUS
<1> USE DEF ConveyorInv
<1> DEFINE QueueFits ==
             \A s \in Robot : \A i \in DOMAIN queue'[s] : TaskFits(queue'[s][i])
           BeltFits == \A p \in Position : PlateFits(plates'[p])
<1>1. DishStep
  BY NextIsDishStep
<1>2. plates \in [Position -> PlateType]
  BY DEF TypeOK, BeltTypes
<1>3. PlateFits(EmptyPlate)
  BY DEF PlateFits, EmptyPlate
<1>4. SamePlates => BeltFits
  BY DEF SamePlates, StepsInv, PlateFits
<1>5. UNCHANGED queue => QueueFits
  BY DEF StepsInv
<1>6. UNCHANGED plates => BeltFits
  BY DEF StepsInv
<1>7. CASE Stays
  BY <1>7, <1>4, <1>5 DEF Stays, StepsInv
<1>8. CASE Turns
  <2>1. BeltFits
    BY <1>2, <1>8, TurnFacts DEF Turns, Moved, StepsInv
  <2> QED BY <1>5, <1>8, <2>1 DEF Turns, StepsInv
<1>9. ASSUME NEW d \in Dish, NEW r \in Robot, Assigned(d, r)
      PROVE  StepsInv'
  <2>1. [dish |-> d, steps |-> 0] \in TaskType
    BY DEF TaskType
  <2>2. TaskFits([dish |-> d, steps |-> 0])
    BY <1>9 DEF Assigned, CanCook, TaskFits, Visits
  <2>3. QueueFits
    BY <1>9, <2>1, <2>2, AppendKeepsSteps DEF Assigned
  <2> QED BY <1>6, <1>9, <2>3 DEF Assigned, StepsInv
<1>10. ASSUME NEW r \in Robot, Retrieved(r)
       PROVE  StepsInv'
  <2>1. QueueFits
    BY <1>10, GiveAwayKeepsSteps DEF Retrieved
  <2>2. PlateFits(HandedOver(r))
    BY <1>10, HandedOverFits DEF Retrieved
  <2>3. BeltFits
    BY <1>2, <1>10, <2>2 DEF Retrieved, PlaceDish, PlateFits, StepsInv,
       PlateType
  <2> QED BY <2>1, <2>3 DEF StepsInv
<1>11. ASSUME NEW r \in Robot, NEW p \in Position, Passed(r, p)
       PROVE  StepsInv'
  <2>1. QueueFits
    BY <1>11, GiveTaskKeepsSteps DEF Passed
  <2>2. BeltFits
    BY <1>2, <1>3, <1>11 DEF Passed, reset_plate, StepsInv
  <2> QED BY <2>1, <2>2 DEF StepsInv
<1>12. ASSUME NEW p \in Position, Served(p)
       PROVE  StepsInv'
  <2>1. BeltFits
    BY <1>2, <1>3, <1>12 DEF Served, reset_plate, StepsInv
  <2> QED BY <1>5, <1>12, <2>1 DEF Served, StepsInv
<1>13. ASSUME NEW r \in Robot, Dropped(r)
       PROVE  StepsInv'
  BY <1>6, <1>13, GiveAwayKeepsSteps DEF Dropped, StepsInv
<1>14. ASSUME NEW r \in Robot, Crashed(r)
       PROVE  StepsInv'
  BY <1>6, <1>14 DEF Crashed, StepsInv, TypeOK, WorldTypes
<1>15. ASSUME NEW r \in Robot, NEW p \in Position, PassedTwice(r, p)
       PROVE  StepsInv'
  BY <1>4, <1>15, GiveTaskKeepsSteps DEF PassedTwice, StepsInv
<1>16. ASSUME NEW p \in Position, ServedTwice(p)
       PROVE  StepsInv'
  BY <1>5, <1>6, <1>16 DEF ServedTwice, StepsInv
<1> QED BY <1>1, <1>7, <1>8, <1>9, <1>10, <1>11, <1>12, <1>13, <1>14, <1>15,
           <1>16 DEF DishStep, Regular, Faulty

LEMMA InitSteps == Init => StepsInv
  BY DEF Init, StepsInv, PlateFits, EmptyPlate

(* Whatever the steps of a robot, a crash or a lost answer: what is handed  *)
(* to a robot leaves an action in its recipe, and a dish is declared        *)
(* finished after exactly the visits its recipe asks for.                   *)
THEOREM StepsInvariance == Spec => []StepsInv
<1>1. Init => StepsInv
  BY InitSteps
<1>2. ConveyorInv /\ StepsInv /\ [Next]_vars => StepsInv'
  BY StepsNextKeeps
<1> QED BY <1>1, <1>2, Invariance, PTL DEF Spec

(* A dish that still wants a robot has work left (robot.cpp:307 pops the    *)
(* processed steps from the recipe's queue without a check).                *)
THEOREM WorkRemains == Spec => []StepsRemain
<1>1. ConveyorInv /\ StepsInv => StepsRemain
  BY PlatesType DEF ConveyorInv, StepsInv, PlateFits, StepsRemain, Occupied
<1> QED BY <1>1, Invariance, StepsInvariance, PTL

------------------------------------------------------------------------------
(* How many there are of a dish: on the belt.                               *)

LEMMA OnPlateFinite ==
    ASSUME NEW d
    PROVE  IsFiniteSet(OnPlate(d)) /\ Cardinality(OnPlate(d)) \in Nat
<1>1. IsFiniteSet(Position)
  BY FS_Interval, ConveyorAssumption DEF Position
<1>2. OnPlate(d) \in SUBSET Position
  BY DEF OnPlate
<1> QED BY <1>1, <1>2, FS_Subset, FS_CardinalityType

LEMMA SamePlatesCount ==
    ASSUME SamePlates, NEW d
    PROVE  OnPlate(d)' = OnPlate(d)
  BY DEF SamePlates, OnPlate

LEMMA ResetCount ==
    ASSUME TypeOK, NEW p \in Occupied, reset_plate(p), NEW d \in Dish
    PROVE  /\ d = plates[p].dish
                => /\ p \in OnPlate(d) /\ OnPlate(d)' = OnPlate(d) \ {p}
                   /\ Cardinality(OnPlate(d)') = Cardinality(OnPlate(d)) - 1
           /\ d # plates[p].dish => OnPlate(d)' = OnPlate(d)
<1>1. plates \in [Position -> PlateType] /\ p \in Position
  BY DEF TypeOK, BeltTypes, Occupied
<1>2. d # None
  BY ConveyorAssumption
<1>3. OnPlate(d)' = OnPlate(d) \ {p}
  BY <1>1, <1>2 DEF OnPlate, reset_plate, EmptyPlate
<1>4. p \in OnPlate(d) <=> d = plates[p].dish
  BY <1>1 DEF OnPlate
<1>5. IsFiniteSet(OnPlate(d)) /\ Cardinality(OnPlate(d)) \in Nat
  BY OnPlateFinite
<1>6. p \in OnPlate(d) =>
        Cardinality(OnPlate(d) \ {p}) = Cardinality(OnPlate(d)) - 1
  BY <1>5, FS_RemoveElement
<1>7. p \notin OnPlate(d) => OnPlate(d) \ {p} = OnPlate(d)
  OBVIOUS
<1> QED BY <1>3, <1>4, <1>6, <1>7

LEMMA PlaceCount ==
    ASSUME TypeOK, NEW p \in Position, NEW t, PlaceDish(p, t), NEW d
    PROVE  /\ d = t.dish
                => /\ OnPlate(d)' = OnPlate(d) \cup {p}
                   /\ Cardinality(OnPlate(d)')
                        = Cardinality(OnPlate(d))
                          + (IF plates[p].dish = d THEN 0 ELSE 1)
           /\ d # t.dish
                => /\ OnPlate(d)' = OnPlate(d) \ {p}
                   /\ Cardinality(OnPlate(d)')
                        = Cardinality(OnPlate(d))
                          - (IF plates[p].dish = d THEN 1 ELSE 0)
<1>1. plates \in [Position -> PlateType]
  BY DEF TypeOK, BeltTypes
<1>2. /\ plates'[p].dish = t.dish
      /\ \A q \in Position : q # p => plates'[q] = plates[q]
  BY <1>1 DEF PlaceDish, PlateType
<1>3. p \in OnPlate(d) <=> plates[p].dish = d
  BY DEF OnPlate
<1>4. d = t.dish => OnPlate(d)' = OnPlate(d) \cup {p}
  BY <1>2 DEF OnPlate
<1>5. d # t.dish => OnPlate(d)' = OnPlate(d) \ {p}
  BY <1>2 DEF OnPlate
<1>6. Cardinality(OnPlate(d)) \in Nat
  BY OnPlateFinite
<1> QED BY <1>3, <1>4, <1>5, <1>6, OnPlateFinite, FS_AddElement,
           FS_RemoveElement

(* The belt turns: a bijection between the plates of a dish.                *)
LEMMA TurnCount ==
    ASSUME TypeOK, plates' = Moved, NEW d
    PROVE  /\ Cardinality(OnPlate(d)') = Cardinality(OnPlate(d))
           /\ \A p \in OnPlate(d)' : \E q \in OnPlate(d) : plates'[p] = plates[q]
<1> DEFINE From(p) == (p - 1) % ConveyorSize
           f == [p \in OnPlate(d)' |-> From(p)]
<1>1. plates \in [Position -> PlateType]
  BY DEF TypeOK, BeltTypes
<1>2. \A p \in Position : From(p) \in Position /\ plates'[p] = plates[From(p)]
  BY <1>1, TurnFacts DEF Moved
<1>3. \A p \in OnPlate(d)' : From(p) \in OnPlate(d)
  BY <1>2 DEF OnPlate
<1>4. \A p, q \in Position : From(p) = From(q) => p = q
  BY TurnFacts, ConveyorAssumption DEF Position
<1>5. \A q \in OnPlate(d) : \E p \in OnPlate(d)' : From(p) = q
  <2> SUFFICES ASSUME NEW q \in OnPlate(d)
               PROVE  \E p \in OnPlate(d)' : From(p) = q
    OBVIOUS
  <2> DEFINE p == IF q = ConveyorSize - 1 THEN 0 ELSE q + 1
  <2>1. q \in Position /\ plates[q].dish = d
    BY DEF OnPlate
  <2>2. p \in Position /\ From(p) = q
    BY <2>1, TurnFacts, ConveyorAssumption DEF Position
  <2>3. p \in OnPlate(d)'
    BY <1>2, <2>1, <2>2 DEF OnPlate
  <2> QED BY <2>2, <2>3
<1>6. f \in Bijection(OnPlate(d)', OnPlate(d))
  <2> HIDE DEF From
  <2>1. f \in [OnPlate(d)' -> OnPlate(d)]
    BY <1>3
  <2>2. \A p \in OnPlate(d)' : p \in Position
    BY DEF OnPlate
  <2>3. f \in Injection(OnPlate(d)', OnPlate(d))
    BY <1>4, <2>1, <2>2 DEF Injection, IsInjective
  <2>4. f \in Surjection(OnPlate(d)', OnPlate(d))
    BY <1>5, <2>1 DEF Surjection
  <2> QED BY <2>3, <2>4 DEF Bijection
<1>7. IsFiniteSet(OnPlate(d)')
  <2>1. OnPlate(d)' \in SUBSET Position
    BY DEF OnPlate
  <2>2. IsFiniteSet(Position)
    BY FS_Interval, ConveyorAssumption DEF Position
  <2> QED BY <2>1, <2>2, FS_Subset
<1>8. Cardinality(OnPlate(d)') = Cardinality(OnPlate(d))
  <2>1. ExistsBijection(OnPlate(d)', OnPlate(d))
    BY <1>6 DEF ExistsBijection
  <2> HIDE DEF f, From
  <2> QED BY <1>7, <2>1, FS_Bijection
<1>9. \A p \in OnPlate(d)' : \E q \in OnPlate(d) : plates'[p] = plates[q]
  BY <1>2, <1>3 DEF OnPlate
<1> QED BY <1>8, <1>9

------------------------------------------------------------------------------
(* In the kitchen.                                                          *)

LEMMA InKitchenFinite ==
    ASSUME TypeOK, NEW d
    PROVE  IsFiniteSet(InKitchen(d)) /\ Cardinality(InKitchen(d)) \in Nat
<1>1. delivered \in Seq(Dish)
  BY DEF TypeOK, WorldTypes
<1>2. DOMAIN delivered = 1..Len(delivered) /\ Len(delivered) \in Nat
  BY <1>1
<1>3. IsFiniteSet(1..Len(delivered))
  BY <1>2, FS_Interval
<1>4. InKitchen(d) \in SUBSET (1..Len(delivered))
  BY <1>2 DEF InKitchen
<1> QED BY <1>3, <1>4, FS_Subset, FS_CardinalityType

LEMMA DeliveredCount ==
    ASSUME TypeOK, NEW x \in Dish, delivered' = Append(delivered, x), NEW d
    PROVE  /\ d = x => /\ InKitchen(d)' # {}
                       /\ Cardinality(InKitchen(d)')
                            = Cardinality(InKitchen(d)) + 1
           /\ d # x => InKitchen(d)' = InKitchen(d)
<1> DEFINE n == Len(delivered) + 1
<1>1. delivered \in Seq(Dish)
  BY DEF TypeOK, WorldTypes
<1>2. /\ DOMAIN delivered = 1..Len(delivered) /\ Len(delivered) \in Nat
      /\ DOMAIN delivered' = 1..n
      /\ delivered'[n] = x
      /\ \A i \in DOMAIN delivered : delivered'[i] = delivered[i]
  BY <1>1
<1>3. n \notin InKitchen(d)
  BY <1>2 DEF InKitchen
<1>4. d = x => InKitchen(d)' = InKitchen(d) \cup {n}
  BY <1>2 DEF InKitchen
<1>5. d # x => InKitchen(d)' = InKitchen(d)
  BY <1>2 DEF InKitchen
<1>6. IsFiniteSet(InKitchen(d))
  BY InKitchenFinite
<1>7. Cardinality(InKitchen(d) \cup {n}) = Cardinality(InKitchen(d)) + 1
  <2> HIDE DEF n
  <2> QED BY <1>3, <1>6, FS_AddElement
<1> QED BY <1>4, <1>5, <1>7

------------------------------------------------------------------------------
(* At the robots.                                                           *)

Spots(q, d) ==
    {t \in UNION {{r} \X DOMAIN q[r] : r \in Robot} : q[t[1]][t[2]].dish = d}

LEMMA SpotMembers ==
    ASSUME NEW q, NEW d
    PROVE  /\ \A r \in Robot : \A i \in DOMAIN q[r] :
                 <<r, i>> \in Spots(q, d) <=> q[r][i].dish = d
           /\ \A t \in Spots(q, d) : \E r \in Robot : \E i \in DOMAIN q[r] :
                 t = <<r, i>> /\ q[r][i].dish = d
<1>1. ASSUME NEW r \in Robot, NEW i \in DOMAIN q[r]
      PROVE  <<r, i>> \in Spots(q, d) <=> q[r][i].dish = d
  <2>1. <<r, i>> \in {r} \X DOMAIN q[r]
    OBVIOUS
  <2> QED BY <2>1 DEF Spots
<1>2. ASSUME NEW t \in Spots(q, d)
      PROVE  \E r \in Robot : \E i \in DOMAIN q[r] :
                t = <<r, i>> /\ q[r][i].dish = d
  <2>1. PICK r \in Robot : t \in {r} \X DOMAIN q[r]
    BY DEF Spots
  <2>2. q[t[1]][t[2]].dish = d
    BY DEF Spots
  <2> QED BY <2>1, <2>2
<1> QED BY <1>1, <1>2

LEMMA AtRobotMembers ==
    ASSUME NEW d
    PROVE  /\ \A r \in Robot : \A i \in DOMAIN queue[r] :
                 <<r, i>> \in AtRobot(d) <=> queue[r][i].dish = d
           /\ \A t \in AtRobot(d) : \E r \in Robot : \E i \in DOMAIN queue[r] :
                 t = <<r, i>> /\ queue[r][i].dish = d
           /\ \A r \in Robot : \A i \in DOMAIN queue'[r] :
                 <<r, i>> \in AtRobot(d)' <=> queue'[r][i].dish = d
           /\ \A t \in AtRobot(d)' :
                 \E r \in Robot : \E i \in DOMAIN queue'[r] :
                    t = <<r, i>> /\ queue'[r][i].dish = d
<1>1. AtRobot(d) = Spots(queue, d) /\ AtRobot(d)' = Spots(queue', d)
  BY DEF AtRobot, Spots
<1> HIDE DEF AtRobot
<1> QED BY <1>1, SpotMembers

LEMMA QueuedCount ==
    ASSUME TypeOK, NEW r \in Robot, NEW x \in TaskType,
           queue' = [queue EXCEPT ![r] = Append(@, x)],
           NEW d, IsFiniteSet(AtRobot(d))
    PROVE  /\ IsFiniteSet(AtRobot(d)')
           /\ d = x.dish => /\ <<r, Len(queue[r]) + 1>> \in AtRobot(d)'
                            /\ Cardinality(AtRobot(d)')
                                 = Cardinality(AtRobot(d)) + 1
           /\ d # x.dish => AtRobot(d)' = AtRobot(d)
<1> DEFINE n == Len(queue[r]) + 1
           S == IF d = x.dish THEN {<<r, n>>} ELSE {}
<1>1. <<r, n>> \notin AtRobot(d)
  <2>1. ASSUME <<r, n>> \in AtRobot(d)
        PROVE  FALSE
    <3>1. PICK s \in Robot : \E i \in DOMAIN queue[s] : <<r, n>> = <<s, i>>
      BY <2>1, AtRobotMembers
    <3>2. n \in DOMAIN queue[r]
      BY <3>1
    <3> QED BY <3>2, AppendFacts
  <2> QED BY <2>1
<1>2. AtRobot(d)' = AtRobot(d) \cup S
  <2>1. ASSUME NEW t \in AtRobot(d)'
        PROVE  t \in AtRobot(d) \cup S
    <3>0. PICK s \in Robot : \E i \in DOMAIN queue'[s] :
             t = <<s, i>> /\ queue'[s][i].dish = d
      BY AtRobotMembers
    <3>1. PICK i \in DOMAIN queue'[s] :
             t = <<s, i>> /\ queue'[s][i].dish = d
      BY <3>0
    <3>2. CASE s = r /\ i = n
      BY <3>1, <3>2, AppendFacts
    <3>3. CASE ~ (s = r /\ i = n)
      <4>1. i \in DOMAIN queue[s] /\ queue'[s][i] = queue[s][i]
        BY <3>1, <3>3, AppendFacts
      <4> QED BY <3>1, <4>1, AtRobotMembers
    <3> QED BY <3>2, <3>3
  <2>2. ASSUME NEW t \in AtRobot(d)
        PROVE  t \in AtRobot(d)'
    <3>0. PICK s \in Robot : \E i \in DOMAIN queue[s] :
             t = <<s, i>> /\ queue[s][i].dish = d
      BY AtRobotMembers
    <3>1. PICK i \in DOMAIN queue[s] :
             t = <<s, i>> /\ queue[s][i].dish = d
      BY <3>0
    <3>2. i \in DOMAIN queue'[s] /\ queue'[s][i] = queue[s][i]
      BY <3>1, AppendFacts
    <3> QED BY <3>1, <3>2, AtRobotMembers
  <2>3. d = x.dish => <<r, n>> \in AtRobot(d)'
    <3>1. /\ DOMAIN queue'[r] = 1..n /\ queue'[r][n] = x
          /\ Len(queue[r]) \in Nat
      BY AppendFacts
    <3>2. n \in DOMAIN queue'[r]
      BY <3>1
    <3> QED BY <3>1, <3>2, AtRobotMembers
  <2> QED BY <2>1, <2>2, <2>3
<1> HIDE DEF n
<1> QED BY <1>1, <1>2, FS_AddElement DEF n

LEMMA SameSize ==
    ASSUME NEW S, NEW T, ExistsBijection(S, T), IsFiniteSet(T)
    PROVE  IsFiniteSet(S) /\ Cardinality(S) = Cardinality(T)
<1>1. ExistsBijection(T, S)
  BY Fun_ExistsBijSymmetric
<1> QED BY <1>1, FS_Bijection

(* The first dish of r goes: a bijection between the others.                *)
LEMMA GivenAwayCount ==
    ASSUME TypeOK, ReadyHasDish, NEW r \in Robot, ready[r], GiveAway(r),
           NEW d, IsFiniteSet(AtRobot(d))
    PROVE  /\ IsFiniteSet(AtRobot(d)')
           /\ <<r, 1>> \in AtRobot(d) <=> d = queue[r][1].dish
           /\ Cardinality(AtRobot(d)')
                = Cardinality(AtRobot(d))
                  - (IF d = queue[r][1].dish THEN 1 ELSE 0)
           /\ \A t \in AtRobot(d)' : \E u \in AtRobot(d) :
                 queue'[t[1]][t[2]] = queue[u[1]][u[2]]
<1> DEFINE From(t) == IF t[1] = r THEN <<r, t[2] + 1>> ELSE t
           Rest == AtRobot(d) \ {<<r, 1>>}
           f == [t \in AtRobot(d)' |-> From(t)]
<1>1. <<r, 1>> \in AtRobot(d) <=> d = queue[r][1].dish
  BY TailFacts, AtRobotMembers
<1>2. ASSUME NEW t \in AtRobot(d)'
      PROVE  /\ From(t) \in Rest
             /\ queue'[t[1]][t[2]] = queue[From(t)[1]][From(t)[2]]
             /\ \E s \in Robot, i \in Nat : t = <<s, i>>
  <2>0. PICK s \in Robot : \E i \in DOMAIN queue'[s] :
           t = <<s, i>> /\ queue'[s][i].dish = d
    BY AtRobotMembers
  <2>1. PICK i \in DOMAIN queue'[s] :
           t = <<s, i>> /\ queue'[s][i].dish = d
    BY <2>0
  <2>2. CASE s = r
    <3>1. /\ i \in 1..(Len(queue[r]) - 1) /\ i + 1 \in DOMAIN queue[r]
          /\ queue'[r][i] = queue[r][i + 1] /\ i + 1 # 1 /\ i \in Nat
      BY <2>1, <2>2, TailFacts
    <3>2. <<r, i + 1>> \in Rest /\ From(t) = <<r, i + 1>>
      BY <2>1, <2>2, <3>1, AtRobotMembers
    <3> QED BY <2>1, <2>2, <3>1, <3>2
  <2>3. CASE s # r
    <3>1. queue'[s] = queue[s] /\ From(t) = t /\ t # <<r, 1>>
      BY <2>1, <2>3, TailFacts
    <3>2. i \in Nat
      BY <2>1, <3>1, QueueFacts
    <3> QED BY <2>1, <3>1, <3>2, AtRobotMembers
  <2> QED BY <2>2, <2>3
<1>3. ASSUME NEW t \in AtRobot(d)', NEW u \in AtRobot(d)', From(t) = From(u)
      PROVE  t = u
  <2>1. PICK s \in Robot, i \in Nat : t = <<s, i>>
    BY <1>2
  <2>2. PICK w \in Robot, j \in Nat : u = <<w, j>>
    BY <1>2
  <2> QED BY <1>3, <2>1, <2>2
<1>4. ASSUME NEW u \in Rest
      PROVE  \E t \in AtRobot(d)' : From(t) = u
  <2>0. PICK s \in Robot : \E i \in DOMAIN queue[s] :
           u = <<s, i>> /\ queue[s][i].dish = d
    BY AtRobotMembers
  <2>1. PICK i \in DOMAIN queue[s] :
           u = <<s, i>> /\ queue[s][i].dish = d
    BY <2>0
  <2>2. CASE s = r
    <3>1. i # 1
      BY <2>1, <2>2
    <3>2. /\ i \in Nat /\ i - 1 \in DOMAIN queue'[r] /\ (i - 1) + 1 = i
          /\ queue'[r][i - 1] = queue[r][i]
      BY <2>1, <2>2, <3>1, TailFacts
    <3>3. <<r, i - 1>> \in AtRobot(d)'
      BY <2>1, <2>2, <3>2, AtRobotMembers
    <3> QED BY <2>1, <2>2, <3>2, <3>3
  <2>3. CASE s # r
    <3>1. queue'[s] = queue[s] /\ From(u) = u
      BY <2>1, <2>3, TailFacts
    <3>2. u \in AtRobot(d)'
      BY <2>1, <3>1, AtRobotMembers
    <3> QED BY <3>1, <3>2
  <2> QED BY <2>2, <2>3
<1>5. ExistsBijection(AtRobot(d)', Rest)
  <2> HIDE DEF From, Rest
  <2>1. f \in [AtRobot(d)' -> Rest]
    BY <1>2
  <2>2. f \in Injection(AtRobot(d)', Rest)
    BY <1>3, <2>1 DEF Injection, IsInjective
  <2>3. f \in Surjection(AtRobot(d)', Rest)
    BY <1>4, <2>1 DEF Surjection
  <2> QED BY <2>2, <2>3 DEF Bijection, ExistsBijection
<1>7. /\ IsFiniteSet(Rest) /\ Cardinality(AtRobot(d)) \in Nat
      /\ Cardinality(Rest)
           = IF <<r, 1>> \in AtRobot(d) THEN Cardinality(AtRobot(d)) - 1
             ELSE Cardinality(AtRobot(d))
  BY FS_RemoveElement, FS_CardinalityType
<1>8. IsFiniteSet(AtRobot(d)') /\ Cardinality(AtRobot(d)') = Cardinality(Rest)
  <2> HIDE DEF Rest
  <2> QED BY <1>5, <1>7, SameSize
<1>9. \A t \in AtRobot(d)' : \E u \in AtRobot(d) :
         queue'[t[1]][t[2]] = queue[u[1]][u[2]]
  BY <1>2
<1> QED BY <1>1, <1>7, <1>8, <1>9

LEMMA CrashedCount ==
    ASSUME NEW r \in Robot, queue' = [queue EXCEPT ![r] = <<>>], TypeOK,
           NEW d, IsFiniteSet(AtRobot(d))
    PROVE  /\ IsFiniteSet(AtRobot(d)')
           /\ Cardinality(TasksOf(r, d)) \in Nat
           /\ Cardinality(AtRobot(d)')
                = Cardinality(AtRobot(d)) - Cardinality(TasksOf(r, d))
<1>1. /\ queue'[r] = <<>> /\ \A s \in Robot : s # r => queue'[s] = queue[s]
  BY DEF TypeOK, WorldTypes
<1>2. ASSUME NEW t \in AtRobot(d)'
      PROVE  t \in AtRobot(d) /\ t[1] # r
  <2>0. PICK s \in Robot : \E i \in DOMAIN queue'[s] :
           t = <<s, i>> /\ queue'[s][i].dish = d
    BY AtRobotMembers
  <2>1. PICK i \in DOMAIN queue'[s] :
           t = <<s, i>> /\ queue'[s][i].dish = d
    BY <2>0
  <2>2. s # r
    BY <1>1, <2>1
  <2> QED BY <1>1, <2>1, <2>2, AtRobotMembers
<1>3. ASSUME NEW t \in AtRobot(d), t[1] # r
      PROVE  t \in AtRobot(d)'
  <2>0. PICK s \in Robot : \E i \in DOMAIN queue[s] :
           t = <<s, i>> /\ queue[s][i].dish = d
    BY AtRobotMembers
  <2>1. PICK i \in DOMAIN queue[s] :
           t = <<s, i>> /\ queue[s][i].dish = d
    BY <2>0
  <2>2. s # r
    BY <1>3, <2>1
  <2> QED BY <1>1, <2>1, <2>2, AtRobotMembers
<1>4. AtRobot(d)' = AtRobot(d) \ TasksOf(r, d)
  BY <1>2, <1>3 DEF TasksOf
<1>5. TasksOf(r, d) \in SUBSET AtRobot(d)
  BY DEF TasksOf
<1>6. /\ IsFiniteSet(AtRobot(d) \ TasksOf(r, d))
      /\ Cardinality(AtRobot(d) \ TasksOf(r, d))
           = Cardinality(AtRobot(d)) - Cardinality(TasksOf(r, d))
  <2>1. TasksOf(r, d) \cap AtRobot(d) = TasksOf(r, d)
    BY <1>5
  <2>2. Cardinality(AtRobot(d) \ TasksOf(r, d))
          = Cardinality(AtRobot(d)) - Cardinality(AtRobot(d) \cap TasksOf(r, d))
    BY TasksFinite, FS_Difference
  <2>3. AtRobot(d) \cap TasksOf(r, d) = TasksOf(r, d)
    BY <1>5
  <2> QED BY <2>2, <2>3, FS_Difference
<1>7. Cardinality(TasksOf(r, d)) \in Nat
  BY TasksFinite, FS_CardinalityType
<1> QED BY <1>4, <1>6, <1>7

------------------------------------------------------------------------------
(* No dish gets lost or doubled unnoticed.                                  *)

(* A dish and its copies are somewhere or were taken or overwritten.        *)
Traces(d) == Places(d) + lost[d] + overwritten[d]
KeptInv ==
    \A d \in Dish : IsFiniteSet(AtRobot(d)) /\ Traces(d) = 1 + copied[d]

(* A step moves a dish, or takes it away and records it as lost.            *)
Balanced(d) == /\ IsFiniteSet(AtRobot(d)')
               /\ Places(d)' + lost'[d] + overwritten'[d] + copied[d]
                    = Places(d) + lost[d] + overwritten[d] + copied'[d]

LEMMA CountsAreNat ==
    ASSUME TypeOK, NEW d \in Dish, IsFiniteSet(AtRobot(d))
    PROVE  /\ Cardinality(OnPlate(d)) \in Nat
           /\ Cardinality(AtRobot(d)) \in Nat
           /\ Cardinality(InKitchen(d)) \in Nat
           /\ Places(d) \in Nat
           /\ lost[d] \in Nat /\ overwritten[d] \in Nat /\ copied[d] \in Nat
<1>1. /\ Cardinality(OnPlate(d)) \in Nat
      /\ Cardinality(AtRobot(d)) \in Nat
      /\ Cardinality(InKitchen(d)) \in Nat
  BY OnPlateFinite, InKitchenFinite, FS_CardinalityType
<1>2. Places(d) \in Nat
  BY <1>1 DEF Places
<1>3. lost[d] \in Nat /\ overwritten[d] \in Nat /\ copied[d] \in Nat
  BY DEF TypeOK, WorldTypes
<1> QED BY <1>1, <1>2, <1>3

LEMMA CountsAreNatNext ==
    ASSUME NEW d \in Dish
    PROVE  (TypeOK /\ IsFiniteSet(AtRobot(d)) =>
               /\ Places(d) \in Nat
               /\ lost[d] \in Nat /\ overwritten[d] \in Nat
               /\ copied[d] \in Nat)'
<1>1. TypeOK /\ IsFiniteSet(AtRobot(d)) =>
          /\ Places(d) \in Nat
          /\ lost[d] \in Nat /\ overwritten[d] \in Nat /\ copied[d] \in Nat
  BY CountsAreNat
<1> QED BY <1>1, PTL

LEMMA SameCounts ==
    ASSUME NEW d
    PROVE  /\ UNCHANGED plates => OnPlate(d)' = OnPlate(d)
           /\ UNCHANGED queue => AtRobot(d)' = AtRobot(d)
           /\ UNCHANGED delivered => InKitchen(d)' = InKitchen(d)
  BY DEF OnPlate, AtRobot, InKitchen

(* Once more in a history, for the dish it is about and for the others.     *)
LEMMA CountFacts ==
    ASSUME NEW h \in [Dish -> Nat], NEW x, NEW d \in Dish
    PROVE  /\ d = x => Count(h, x)[d] = h[d] + 1
           /\ d # x => Count(h, x)[d] = h[d]
  BY DEF Count

LEMMA HistoryTypes ==
    ASSUME TypeOK
    PROVE  /\ lost \in [Dish -> Nat] /\ overwritten \in [Dish -> Nat]
           /\ copied \in [Dish -> Nat]
  BY DEF TypeOK, WorldTypes

LEMMA RegularBalance ==
    ASSUME TypeOK, ReadyHasDish, StepsInv, Regular,
           NEW d \in Dish, IsFiniteSet(AtRobot(d))
    PROVE  Balanced(d)
<1>1. /\ Cardinality(OnPlate(d)) \in Nat
      /\ Cardinality(AtRobot(d)) \in Nat
      /\ Cardinality(InKitchen(d)) \in Nat
      /\ lost[d] \in Nat /\ overwritten[d] \in Nat /\ copied[d] \in Nat
  BY CountsAreNat
<1>2. d # None
  BY ConveyorAssumption
<1>3. CASE Stays \/ Turns
  <2>1. Cardinality(OnPlate(d)') = Cardinality(OnPlate(d)) + 0
    BY <1>1, <1>3, SamePlatesCount, TurnCount DEF Stays, Turns
  <2>2. /\ AtRobot(d)' = AtRobot(d) /\ InKitchen(d)' = InKitchen(d)
        /\ UNCHANGED <<ordered, lost, overwritten, copied>>
    BY <1>3, SameCounts DEF Stays, Turns
  <2> QED BY <1>1, <2>1, <2>2 DEF Places, Balanced
<1>4. ASSUME NEW x \in Dish, NEW r \in Robot, Assigned(x, r)
      PROVE  Balanced(d)
  <2> DEFINE t == [dish |-> x, steps |-> 0]
  <2>1. t \in TaskType /\ t.dish = x
    BY DEF TaskType
  <2>2. queue' = [queue EXCEPT ![r] = Append(@, t)]
    BY <1>4 DEF Assigned
  <2>3. /\ IsFiniteSet(AtRobot(d)')
        /\ d = x => Cardinality(AtRobot(d)') = Cardinality(AtRobot(d)) + 1
        /\ d # x => AtRobot(d)' = AtRobot(d)
    <3> HIDE DEF t
    <3> QED BY <2>1, <2>2, QueuedCount
  <2>4. /\ OnPlate(d)' = OnPlate(d) /\ InKitchen(d)' = InKitchen(d)
        /\ UNCHANGED <<lost, overwritten, copied>>
        /\ d = x => d \in ordered /\ d \notin ordered'
        /\ d # x => (d \in ordered' <=> d \in ordered)
    BY <1>4, SameCounts DEF Assigned
  <2>5. CASE d = x
    BY <1>1, <2>3, <2>4, <2>5 DEF Places, Balanced
  <2>6. CASE d # x
    BY <1>1, <2>3, <2>4, <2>6 DEF Places, Balanced
  <2> QED BY <2>5, <2>6
<1>5. ASSUME NEW r \in Robot, Retrieved(r)
      PROVE  Balanced(d)
  <2> DEFINE p == place[r]
             x == HandedOver(r).dish
  <2>1. p \in Position
    BY DEF TypeOK, WorldTypes, RobotPosition
  <2>2. /\ IsFiniteSet(AtRobot(d)')
        /\ Cardinality(AtRobot(d)')
             = Cardinality(AtRobot(d)) - (IF d = x THEN 1 ELSE 0)
    BY <1>5, GivenAwayCount, HandedOverFits DEF Retrieved
  <2>3. /\ d = x => Cardinality(OnPlate(d)') = Cardinality(OnPlate(d))
                          + (IF plates[p].dish = d THEN 0 ELSE 1)
        /\ d # x => Cardinality(OnPlate(d)') = Cardinality(OnPlate(d))
                          - (IF plates[p].dish = d THEN 1 ELSE 0)
    BY <1>5, <2>1, PlaceCount DEF Retrieved
  <2>4. /\ InKitchen(d)' = InKitchen(d) /\ UNCHANGED ordered
        /\ UNCHANGED <<lost, copied>>
    BY <1>5, SameCounts DEF Retrieved
  <2>4a. overwritten'[d]
           = IF plates[p].dish = d THEN overwritten[d] + 1 ELSE overwritten[d]
    BY <1>2, <1>5, <2>1, HistoryTypes, CountFacts DEF Retrieved, Overwrite, Occupied
  <2> HIDE DEF p, x
  <2>5. CASE plates[p].dish = d
    <3>1. CASE d = x
      BY <1>1, <2>2, <2>3, <2>4, <2>4a, <2>5, <3>1 DEF Places, Balanced
    <3>2. CASE d # x
      BY <1>1, <2>2, <2>3, <2>4, <2>4a, <2>5, <3>2 DEF Places, Balanced
    <3> QED BY <3>1, <3>2
  <2>6. CASE plates[p].dish # d
    <3>1. CASE d = x
      BY <1>1, <2>2, <2>3, <2>4, <2>4a, <2>6, <3>1 DEF Places, Balanced
    <3>2. CASE d # x
      BY <1>1, <2>2, <2>3, <2>4, <2>4a, <2>6, <3>2 DEF Places, Balanced
    <3> QED BY <3>1, <3>2
  <2> QED BY <2>5, <2>6
<1>6. ASSUME NEW r \in Robot, NEW p \in Position, Passed(r, p)
      PROVE  Balanced(d)
  <2> DEFINE t == [dish |-> plates[p].dish, steps |-> plates[p].steps]
  <2>1. t \in TaskType /\ t.dish = plates[p].dish
    BY <1>6, PlatesType DEF TaskType, PlateType, Passed
  <2>2. queue' = [queue EXCEPT ![r] = Append(@, t)]
    BY <1>6 DEF Passed, GiveTask
  <2>3. /\ IsFiniteSet(AtRobot(d)')
        /\ d = plates[p].dish
             => Cardinality(AtRobot(d)') = Cardinality(AtRobot(d)) + 1
        /\ d # plates[p].dish => AtRobot(d)' = AtRobot(d)
    <3> HIDE DEF t
    <3> QED BY <2>1, <2>2, QueuedCount
  <2>4. /\ d = plates[p].dish
             => Cardinality(OnPlate(d)') = Cardinality(OnPlate(d)) - 1
        /\ d # plates[p].dish => OnPlate(d)' = OnPlate(d)
    BY <1>6, ResetCount DEF Passed
  <2>5. InKitchen(d)' = InKitchen(d) /\ UNCHANGED <<ordered, lost, overwritten, copied>>
    BY <1>6, SameCounts DEF Passed
  <2>6. CASE d = plates[p].dish
    BY <1>1, <2>3, <2>4, <2>5, <2>6 DEF Places, Balanced
  <2>7. CASE d # plates[p].dish
    BY <1>1, <2>3, <2>4, <2>5, <2>7 DEF Places, Balanced
  <2> QED BY <2>6, <2>7
<1>7. ASSUME NEW p \in Position, Served(p)
      PROVE  Balanced(d)
  <2>1. /\ d = plates[p].dish
             => Cardinality(InKitchen(d)') = Cardinality(InKitchen(d)) + 1
        /\ d # plates[p].dish => InKitchen(d)' = InKitchen(d)
    BY <1>7, PlatesType, DeliveredCount DEF Served
  <2>2. /\ d = plates[p].dish
             => Cardinality(OnPlate(d)') = Cardinality(OnPlate(d)) - 1
        /\ d # plates[p].dish => OnPlate(d)' = OnPlate(d)
    BY <1>7, ResetCount DEF Served
  <2>3. AtRobot(d)' = AtRobot(d) /\ UNCHANGED <<ordered, lost, overwritten, copied>>
    BY <1>7, SameCounts DEF Served
  <2>4. CASE d = plates[p].dish
    BY <1>1, <2>1, <2>2, <2>3, <2>4 DEF Places, Balanced
  <2>5. CASE d # plates[p].dish
    BY <1>1, <2>1, <2>2, <2>3, <2>5 DEF Places, Balanced
  <2> QED BY <2>4, <2>5
<1> QED BY <1>3, <1>4, <1>5, <1>6, <1>7 DEF Regular

(* A crash or a lost answer takes a dish, or leaves a copy of it.           *)
LEMMA FaultyBalance ==
    ASSUME TypeOK, ReadyHasDish, StepsInv, Faulty,
           NEW d \in Dish, IsFiniteSet(AtRobot(d))
    PROVE  Balanced(d)
<1>1. /\ Cardinality(OnPlate(d)) \in Nat
      /\ Cardinality(AtRobot(d)) \in Nat
      /\ Cardinality(InKitchen(d)) \in Nat
      /\ lost[d] \in Nat /\ overwritten[d] \in Nat /\ copied[d] \in Nat
  BY CountsAreNat
<1>2. ASSUME NEW r \in Robot, Dropped(r)
      PROVE  Balanced(d)
  <2> DEFINE x == HandedOver(r).dish
  <2>1. /\ IsFiniteSet(AtRobot(d)')
        /\ Cardinality(AtRobot(d)')
             = Cardinality(AtRobot(d)) - (IF d = x THEN 1 ELSE 0)
    BY <1>2, GivenAwayCount, HandedOverFits DEF Dropped
  <2>2. /\ OnPlate(d)' = OnPlate(d) /\ InKitchen(d)' = InKitchen(d)
        /\ UNCHANGED <<ordered, overwritten, copied>>
        /\ lost' = Count(lost, x)
    BY <1>2, SameCounts DEF Dropped
  <2>2a. lost'[d] = IF d = x THEN lost[d] + 1 ELSE lost[d]
    BY <2>2, HistoryTypes, CountFacts
  <2> HIDE DEF x
  <2>3. CASE d = x
    BY <1>1, <2>1, <2>2, <2>2a, <2>3 DEF Places, Balanced
  <2>4. CASE d # x
    BY <1>1, <2>1, <2>2, <2>2a, <2>4 DEF Places, Balanced
  <2> QED BY <2>3, <2>4
<1>3. ASSUME NEW r \in Robot, Crashed(r)
      PROVE  Balanced(d)
  <2> DEFINE n == Cardinality(TasksOf(r, d))
  <2>1. /\ IsFiniteSet(AtRobot(d)') /\ n \in Nat
        /\ Cardinality(AtRobot(d)') = Cardinality(AtRobot(d)) - n
    BY <1>3, CrashedCount DEF Crashed
  <2>2. /\ OnPlate(d)' = OnPlate(d) /\ InKitchen(d)' = InKitchen(d)
        /\ UNCHANGED <<ordered, overwritten, copied>>
        /\ lost'[d] = lost[d] + n
    BY <1>3, SameCounts DEF Crashed
  <2> HIDE DEF n
  <2> QED BY <1>1, <2>1, <2>2 DEF Places, Balanced
<1>4. ASSUME NEW r \in Robot, NEW p \in Position, PassedTwice(r, p)
      PROVE  Balanced(d)
  <2> DEFINE t == [dish |-> plates[p].dish, steps |-> plates[p].steps]
  <2>1. t \in TaskType /\ t.dish = plates[p].dish
    BY <1>4, PlatesType DEF TaskType, PlateType, PassedTwice
  <2>2. queue' = [queue EXCEPT ![r] = Append(@, t)]
    BY <1>4 DEF PassedTwice, GiveTask
  <2>3. /\ IsFiniteSet(AtRobot(d)')
        /\ d = plates[p].dish
             => Cardinality(AtRobot(d)') = Cardinality(AtRobot(d)) + 1
        /\ d # plates[p].dish => AtRobot(d)' = AtRobot(d)
    <3> HIDE DEF t
    <3> QED BY <2>1, <2>2, QueuedCount
  <2>4. /\ OnPlate(d)' = OnPlate(d) /\ InKitchen(d)' = InKitchen(d)
        /\ UNCHANGED <<ordered, lost, overwritten>>
    BY <1>4, SameCounts, SamePlatesCount DEF PassedTwice
  <2>4a. copied'[d]
           = IF d = plates[p].dish THEN copied[d] + 1 ELSE copied[d]
    BY <1>4, HistoryTypes, CountFacts DEF PassedTwice
  <2>5. CASE d = plates[p].dish
    BY <1>1, <2>3, <2>4, <2>4a, <2>5 DEF Places, Balanced
  <2>6. CASE d # plates[p].dish
    BY <1>1, <2>3, <2>4, <2>4a, <2>6 DEF Places, Balanced
  <2> QED BY <2>5, <2>6
<1>5. ASSUME NEW p \in Position, ServedTwice(p)
      PROVE  Balanced(d)
  <2>1. /\ d = plates[p].dish
             => Cardinality(InKitchen(d)') = Cardinality(InKitchen(d)) + 1
        /\ d # plates[p].dish => InKitchen(d)' = InKitchen(d)
    BY <1>5, PlatesType, DeliveredCount DEF ServedTwice
  <2>2. /\ OnPlate(d)' = OnPlate(d) /\ AtRobot(d)' = AtRobot(d)
        /\ UNCHANGED <<ordered, lost, overwritten>>
    BY <1>5, SameCounts DEF ServedTwice
  <2>2a. copied'[d]
           = IF d = plates[p].dish THEN copied[d] + 1 ELSE copied[d]
    BY <1>5, HistoryTypes, CountFacts DEF ServedTwice
  <2>3. CASE d = plates[p].dish
    BY <1>1, <2>1, <2>2, <2>2a, <2>3 DEF Places, Balanced
  <2>4. CASE d # plates[p].dish
    BY <1>1, <2>1, <2>2, <2>2a, <2>4 DEF Places, Balanced
  <2> QED BY <2>3, <2>4
<1> QED BY <1>2, <1>3, <1>4, <1>5 DEF Faulty

(* KeptInv is kept.                                                         *)
LEMMA KeptNextKeeps ==
    ConveyorInv /\ StepsInv /\ KeptInv /\ [Next]_vars => KeptInv'
<1> SUFFICES ASSUME ConveyorInv, StepsInv, KeptInv, [Next]_vars,
                    NEW d \in Dish
             PROVE  IsFiniteSet(AtRobot(d)') /\ Traces(d)' = 1 + copied'[d]
  BY DEF KeptInv
<1>1. DishStep
  BY NextIsDishStep
<1>2. TypeOK /\ ReadyHasDish /\ IsFiniteSet(AtRobot(d))
  BY DEF ConveyorInv, KeptInv
<1>3. Balanced(d)
  BY <1>1, <1>2, RegularBalance, FaultyBalance DEF DishStep
<1>4. IsFiniteSet(AtRobot(d)')
  BY <1>3 DEF Balanced
<1>5. TypeOK'
  BY NextKeeps DEF ConveyorInv
<1>6. /\ Places(d)' \in Nat
      /\ lost'[d] \in Nat /\ overwritten'[d] \in Nat /\ copied'[d] \in Nat
  BY <1>4, <1>5, CountsAreNatNext
<1>7. /\ Places(d) \in Nat
      /\ lost[d] \in Nat /\ overwritten[d] \in Nat /\ copied[d] \in Nat
  BY <1>2, CountsAreNat
<1>8. Places(d) + lost[d] + overwritten[d] = 1 + copied[d]
  BY DEF KeptInv, Traces
<1>9. Places(d)' + lost'[d] + overwritten'[d] + copied[d]
        = Places(d) + lost[d] + overwritten[d] + copied'[d]
  BY <1>3 DEF Balanced
<1>10. Places(d)' + lost'[d] + overwritten'[d] = 1 + copied'[d]
  BY <1>6, <1>7, <1>8, <1>9
<1> QED BY <1>4, <1>10 DEF Traces

LEMMA InitKept == Init => KeptInv
<1> SUFFICES ASSUME Init, NEW d \in Dish
             PROVE  IsFiniteSet(AtRobot(d)) /\ Traces(d) = 1 + copied[d]
  BY DEF KeptInv
<1>1. OnPlate(d) = {} /\ InKitchen(d) = {} /\ d \in ordered
  BY ConveyorAssumption DEF Init, OnPlate, InKitchen, EmptyPlate
<1>2. AtRobot(d) = {}
  <2>1. \A r \in Robot : DOMAIN queue[r] = {}
    BY DEF Init
  <2> QED BY <2>1, AtRobotMembers
<1>3. IsFiniteSet({}) /\ Cardinality({}) = 0
  BY FS_EmptySet
<1>4. lost[d] = 0 /\ overwritten[d] = 0 /\ copied[d] = 0
  BY DEF Init
<1>5. Places(d) = 1
  BY <1>1, <1>2, <1>3 DEF Places
<1> QED BY <1>2, <1>3, <1>4, <1>5 DEF Traces

THEOREM KeptInvariance == Spec => []KeptInv
<1>1. Init => KeptInv
  BY InitKept
<1>2. ConveyorInv /\ StepsInv /\ KeptInv /\ [Next]_vars => KeptInv'
  BY KeptNextKeeps
<1> QED BY <1>1, <1>2, Invariance, StepsInvariance, PTL DEF Spec

------------------------------------------------------------------------------
(* The robot that announced a dish is found.                                *)

LEMMA QueueType ==
    ASSUME TypeOK
    PROVE  /\ io \in Seq(Handler) /\ Len(io) \in Nat /\ DOMAIN io = 1..Len(io)
           /\ \A i \in DOMAIN io : io[i] \in Handler
  BY DEF TypeOK, ControlTypes

LEMMA PostedFacts ==
    ASSUME TypeOK, NEW h, Post(h)
    PROVE  /\ DOMAIN io' = 1..(Len(io) + 1) /\ io'[Len(io) + 1] = h
           /\ \A i \in DOMAIN io : i \in DOMAIN io' /\ io'[i] = io[i]
           /\ \A i \in DOMAIN io' : i \in DOMAIN io \/ i = Len(io) + 1
           /\ \A r : Announcing(r)'
                       <=> Announcing(r) \/ (h.op = "notified" /\ h.robot = r)
<1>1. /\ DOMAIN io' = 1..(Len(io) + 1) /\ io'[Len(io) + 1] = h
      /\ \A i \in DOMAIN io : i \in DOMAIN io' /\ io'[i] = io[i]
      /\ \A i \in DOMAIN io' : i \in DOMAIN io \/ i = Len(io) + 1
      /\ Len(io) + 1 \in DOMAIN io'
  BY QueueType DEF Post
<1> QED BY <1>1 DEF Announcing

LEMMA TakenFacts ==
    ASSUME TypeOK, io # <<>>, io' = Tail(io)
    PROVE  /\ 1 \in DOMAIN io /\ Head(io) = io[1] /\ io[1] \in Handler
           /\ \A i \in DOMAIN io' : i + 1 \in DOMAIN io /\ io'[i] = io[i + 1]
           /\ \A i \in DOMAIN io : i # 1 =>
                 i - 1 \in DOMAIN io' /\ io'[i - 1] = io[i]
           /\ \A i \in DOMAIN io : i \in Nat
           /\ DOMAIN io' \subseteq Nat \ {0}
           /\ \A r : Announcing(r)
                       <=> Announcing(r)' \/ (io[1].op = "notified"
                                               /\ io[1].robot = r)
<1>1. /\ 1 \in DOMAIN io /\ Head(io) = io[1] /\ io[1] \in Handler
      /\ DOMAIN io' = 1..(Len(io) - 1) /\ Len(io) \in Nat
      /\ DOMAIN io = 1..Len(io)
      /\ \A i \in 1..(Len(io) - 1) : io'[i] = io[i + 1]
  BY QueueType
<1>2. /\ \A i \in DOMAIN io' : i + 1 \in DOMAIN io /\ io'[i] = io[i + 1]
      /\ \A i \in DOMAIN io : i # 1 =>
            i - 1 \in DOMAIN io' /\ io'[i - 1] = io[i]
  BY <1>1
<1>3. (\A i \in DOMAIN io : i \in Nat) /\ DOMAIN io' \subseteq Nat \ {0}
  BY <1>1
<1>4. ASSUME NEW r
      PROVE  Announcing(r)
               <=> Announcing(r)' \/ (io[1].op = "notified" /\ io[1].robot = r)
  <2>1. Announcing(r) => Announcing(r)' \/ (io[1].op = "notified"
                                             /\ io[1].robot = r)
    BY <1>2, ZenonT(60) DEF Announcing
  <2>2. Announcing(r)' => Announcing(r)
    BY <1>2 DEF Announcing
  <2>3. io[1].op = "notified" /\ io[1].robot = r => Announcing(r)
    BY <1>1 DEF Announcing
  <2> QED BY <2>1, <2>2, <2>3
<1> QED BY <1>1, <1>2, <1>3, <1>4

(* A posted handler that is no announcement, and names no position where    *)
(* another robot waits.                                                     *)
Harmless(h) ==
    /\ h.op # "notified"
    /\ h.op = "next_robot" =>
          \A r \in Robot : ready[r] /\ place[r] = h.position => r = h.robot
IoQuiet ==
    \/ UNCHANGED io
    \/ \E h : Post(h) /\ Harmless(h)
    \/ io # <<>> /\ io' = Tail(io) /\ Head(io).op # "notified"
KnownQuiet ==
    /\ \A p \in Position : known'[p] # None => known'[p].link = "live"
    /\ \A r \in Robot : ready[r] /\ ~ Announcing(r) =>
          known'[place[r]] # None /\ known'[place[r]].robot = r
LoopQuiet == worker' = "retrieve" => todo' \subseteq notifications
Quiet == /\ UNCHANGED <<place, bound_for, up, ready, notifications,
                       lost, overwritten, copied>>
         /\ IoQuiet /\ KnownQuiet /\ LoopQuiet

LEMMA TakeKeepsOrder ==
    ASSUME TypeOK, Announcements, AnswersComeFirst,
           io # <<>>, io' = Tail(io), UNCHANGED <<place, ready>>
    PROVE  Announcements' /\ AnswersComeFirst'
<1>1. Announcements'
  BY TakenFacts DEF Announcements, IsAnnouncement
<1>2. AnswersComeFirst'
  <2> SUFFICES ASSUME NEW i \in DOMAIN io', io'[i].op = "next_robot",
                      NEW r \in Robot, ready[r], place[r] = io'[i].position,
                      r # io'[i].robot
               PROVE  \E j \in DOMAIN io' : i < j /\ io'[j].op = "notified"
                                                  /\ io'[j].robot = r
    BY DEF AnswersComeFirst, IsAnnouncement
  <2>1. i + 1 \in DOMAIN io /\ io'[i] = io[i + 1] /\ i \in Nat
    BY TakenFacts
  <2>2. PICK j \in DOMAIN io : i + 1 < j /\ IsAnnouncement(j, r)
    BY <2>1 DEF AnswersComeFirst
  <2>3. j - 1 \in DOMAIN io' /\ io'[j - 1] = io[j] /\ i < j - 1
    BY <2>1, <2>2, TakenFacts
  <2> QED BY <2>2, <2>3 DEF IsAnnouncement
<1> QED BY <1>1, <1>2

LEMMA PostKeepsOrder ==
    ASSUME TypeOK, Announcements, AnswersComeFirst, NEW h, Post(h),
           Harmless(h), UNCHANGED <<place, ready>>
    PROVE  Announcements' /\ AnswersComeFirst'
<1>1. Announcements'
  BY PostedFacts DEF Announcements, IsAnnouncement, Harmless
<1>2. AnswersComeFirst'
  <2> SUFFICES ASSUME NEW i \in DOMAIN io', io'[i].op = "next_robot",
                      NEW r \in Robot, ready[r], place[r] = io'[i].position,
                      r # io'[i].robot
               PROVE  \E j \in DOMAIN io' : i < j /\ io'[j].op = "notified"
                                                  /\ io'[j].robot = r
    BY DEF AnswersComeFirst, IsAnnouncement
  <2>1. i \in DOMAIN io /\ io'[i] = io[i]
    BY PostedFacts DEF Harmless
  <2>2. PICK j \in DOMAIN io : i < j /\ IsAnnouncement(j, r)
    BY <2>1 DEF AnswersComeFirst
  <2> QED BY <2>2, PostedFacts DEF IsAnnouncement
<1> QED BY <1>1, <1>2

LEMMA QuietKeepsFind ==
    ASSUME TypeOK, FindParts, Quiet
    PROVE  FindParts'
<1> USE DEF FindParts, Quiet
<1>1. RobotsPass' /\ ReadyStays'
  BY DEF RobotsPass, ReadyStays
<1>2. LinksLive'
  BY DEF LinksLive, KnownQuiet
<1>3. Announcements' /\ AnswersComeFirst' /\ \A r : Announcing(r)' <=> Announcing(r)
  <2>1. CASE UNCHANGED io
    BY <2>1 DEF Announcements, AnswersComeFirst, IsAnnouncement, Announcing
  <2>2. CASE \E h : Post(h) /\ Harmless(h)
    BY <2>2, PostKeepsOrder, PostedFacts DEF Harmless
  <2>3. CASE io # <<>> /\ io' = Tail(io) /\ Head(io).op # "notified"
    BY <2>3, TakeKeepsOrder, TakenFacts
  <2> QED BY <2>1, <2>2, <2>3 DEF IoQuiet
<1>4. Announced'
  BY <1>3 DEF Announced, Findable, KnownQuiet, LoopQuiet
<1>5. Unharmed'
  BY DEF Unharmed
<1> QED BY <1>1, <1>2, <1>3, <1>4, <1>5

------------------------------------------------------------------------------
(* The steps that are quiet.  No fault has happened, and none does.         *)

LEMMA NoFault == ~ (TypeOK /\ faults = 0 /\ faults' = 0 /\ Fault)
  BY DEF Fault

(* While no link is broken, no robot is stopped, and all are reached.       *)
LEMMA LiveFacts ==
    ASSUME TypeOK, LinksLive
    PROVE  /\ remove_stopped_robots = known
           /\ \A p \in Position : ~ Stopped(p) /\ (Reachable(p) <=> known[p] # None)
<1>1. \A p \in Position : ~ Stopped(p) /\ (Reachable(p) <=> known[p] # None)
  BY DEF LinksLive, Stopped, Reachable
<1>2. known = [p \in Position |-> known[p]]
  BY DEF TypeOK, BeltTypes
<1> QED BY <1>1, <1>2 DEF remove_stopped_robots

LEMMA SameKnownIsQuiet ==
    ASSUME FindParts, UNCHANGED known
    PROVE  KnownQuiet
  BY DEF KnownQuiet, FindParts, LinksLive, Announced, Findable

(* Two robots that are both ready are at two positions, and no robot that   *)
(* is not being moved is where another is.                                  *)
LEMMA OneRobotThere ==
    ASSUME TypeOK, FindParts, NEW r \in Robot, NEW s \in Robot,
           place[r] = place[s], bound_for[r] = 0 \/ (ready[r] /\ ready[s])
    PROVE  r = s
  BY DEF FindParts, RobotsPass, ReadyStays

(* A robot that is met in an answer takes nobody's place.                   *)
LEMMA MeetIsQuiet ==
    ASSUME TypeOK, FindParts, faults = 0, faults' = 0, io # <<>>,
           Head(io).op = "next_robot", MeetRobot(Head(io))
    PROVE  KnownQuiet
<1> DEFINE h == Head(io)
<1>1. remove_stopped_robots = known
  BY LiveFacts DEF FindParts
<1>2. CASE UNCHANGED known
  BY <1>2, SameKnownIsQuiet
<1>3. CASE known' # known
  <2>1. h = io[1] /\ h \in Handler /\ 1 \in DOMAIN io
    BY QueueType
  <2>2. h.position # 0 /\ h.position \in RobotPosition /\ h.robot \in Robot
    BY <1>1, <1>3, <2>1 DEF MeetRobot, Handler
  <2>3. up[h.robot]
    BY <2>2 DEF FindParts, LinksLive
  <2>4. /\ known' = [known EXCEPT ![h.position] = Remote(h.robot)]
    BY <1>1, <1>3, <2>2, <2>3, NoFault DEF MeetRobot, Reach
  <2>5. ASSUME NEW r \in Robot, ready[r], ~ Announcing(r),
               place[r] = h.position
        PROVE  r = h.robot
    BY <2>1, <2>5 DEF FindParts, AnswersComeFirst, Announcing, IsAnnouncement
  <2>6. known \in [Position -> RemoteType \cup {None}] /\ h.position \in Position
    BY <2>2, Positions DEF TypeOK, BeltTypes
  <2>7. /\ known'[h.position] = Remote(h.robot)
        /\ \A p \in Position : p # h.position => known'[p] = known[p]
    BY <2>4, <2>6
  <2>8. Remote(h.robot) # None
    <3>1. Remote(h.robot) \in RemoteType
      BY <2>2, Positions DEF Remote, RemoteType, OUTPUT_POSITION
    <3> QED BY <3>1, NoneIsNoRemote
  <2> HIDE DEF h
  <2>9. \A p \in Position : known'[p] # None => known'[p].link = "live"
    BY <2>7 DEF FindParts, LinksLive, Remote
  <2>10. ASSUME NEW r \in Robot, ready[r], ~ Announcing(r)
         PROVE  known'[place[r]] # None /\ known'[place[r]].robot = r
    <3>1. CASE place[r] = h.position
      BY <2>5, <2>7, <2>8, <2>10, <3>1 DEF Remote
    <3>2. CASE place[r] # h.position
      <4>1. place[r] \in Position
        BY Positions DEF TypeOK, WorldTypes
      <4>2. known'[place[r]] = known[place[r]]
        BY <2>7, <3>2, <4>1
      <4> QED BY <2>10, <4>2 DEF FindParts, Announced, Findable
    <3> QED BY <3>1, <3>2
  <2> QED BY <2>9, <2>10 DEF KnownQuiet
<1> QED BY <1>2, <1>3

LEMMA SwapIsQuiet ==
    ASSUME TypeOK, FindParts, HandlePositionSwapped
    PROVE  KnownQuiet
<1> DEFINE h == Head(io)
<1>1. /\ remove_stopped_robots = known
      /\ known = [p \in Position |-> known[p]]
  BY LiveFacts DEF FindParts, TypeOK, BeltTypes
<1>2. ReadPositions(known, h.old, h.new) = known
  BY <1>1 DEF ReadPositions, FindParts, LinksLive
<1>3. known' = Swapped(known, h.old, h.new)
  BY <1>1, <1>2 DEF HandlePositionSwapped
<1>4. h \in Handler /\ h.op = "swapped"
  BY QueueType DEF HandlePositionSwapped, Take
<1>5. h.old \in Position /\ h.new \in Position
  BY <1>4, Positions DEF Handler
<1> HIDE DEF h
<1>6. CASE UNCHANGED known
  BY <1>6, SameKnownIsQuiet
<1>7. CASE /\ NotAt(known, h.old) /\ NotAt(known, h.new)
           /\ known' = [known EXCEPT ![h.old] = known[h.new],
                                     ![h.new] = known[h.old]]
  <2>1. \A p \in Position : \E q \in Position :
           /\ known'[p] = known[q]
           /\ p \notin {h.old, h.new} => q = p
    BY <1>1, <1>5, <1>7
  <2>2. ASSUME NEW r \in Robot, ready[r], ~ Announcing(r)
        PROVE  known'[place[r]] # None /\ known'[place[r]].robot = r
    <3>1. Findable(r) /\ place[r] \in Position
      BY <2>2, Positions DEF FindParts, Announced, TypeOK, WorldTypes
    <3>2. ~ NotAt(known, place[r])
      BY <3>1 DEF NotAt, Findable, FindParts, LinksLive
    <3> QED BY <1>7, <2>1, <3>1, <3>2 DEF Findable
  <2> QED BY <2>1, <2>2 DEF KnownQuiet, FindParts, LinksLive
<1> QED BY <1>3, <1>6, <1>7 DEF Swapped

LEMMA CachedIsQuiet ==
    ASSUME TypeOK, FindParts, NEW p \in Position, PositionChanged(p)
    PROVE  KnownQuiet
<1> DEFINE k == [known[p] EXCEPT !.cached = place[known[p].robot]]
<1>1. known[p] \in RemoteType
  BY RobotsType DEF PositionChanged
<1>2. k \in RemoteType /\ k.robot = known[p].robot /\ k.link = known[p].link
  BY <1>1, Positions DEF RemoteType, TypeOK, WorldTypes
<1>3. known' = [known EXCEPT ![p] = k]
  BY <1>1 DEF PositionChanged, RemoteType
<1> HIDE DEF k
<1>4. /\ known'[p] = k /\ \A q \in Position : q # p => known'[q] = known[q]
  BY <1>3 DEF TypeOK, BeltTypes
<1>5. k # None /\ k.link = "live"
  BY <1>2, NoneIsNoRemote DEF PositionChanged, Reachable
<1>6. \A r \in Robot : place[r] \in Position
  BY Positions DEF TypeOK, WorldTypes
<1> QED BY <1>2, <1>4, <1>5, <1>6 DEF KnownQuiet, FindParts, LinksLive,
           Announced, Findable

(* The worker's loops.                                                      *)
LEMMA TakeIsQuiet ==
    ASSUME NEW op, op # "notified", Take(op)
    PROVE  IoQuiet /\ worker = "idle"
  BY DEF Take, IoQuiet

LEMMA VisitIsQuiet ==
    ASSUME TypeOK, FindParts, NEW stage, NEW p, Visit(stage, p)
    PROVE  LoopQuiet /\ worker = stage /\ p \in todo
  BY DEF Visit, LoopQuiet, FindParts, Announced

LEMMA DetermineIsQuiet ==
    ASSUME TypeOK, FindParts, DetermineNextMovement
    PROVE  UNCHANGED known /\ LoopQuiet
<1>1. UNCHANGED known
  BY LiveFacts DEF DetermineNextMovement, FindParts
<1>2. LoopQuiet
  BY DEF DetermineNextMovement, Retrieving, Requesting, Enter, Leave, LoopQuiet
<1> QED BY <1>1, <1>2

LEMMA WorkerIsQuiet ==
    ASSUME ConveyorInv, FindParts, faults = 0, faults' = 0, WorkerStep,
           ~ \E p \in Position : RetrieveDish(p),
           ~ HandleFinishedOrderNotification
    PROVE  Quiet
<1> USE DEF ConveyorInv, beltVars, robotVars, dishVars, boundVars
<1>1. remove_stopped_robots = known
      /\ \A p \in Position : Reachable(p) <=> known[p] # None
  BY LiveFacts DEF FindParts
<1>2. UNCHANGED known => KnownQuiet
  BY SameKnownIsQuiet
<1>3. UNCHANGED io => IoQuiet
  BY DEF IoQuiet
<1>4. ~ Fault
  BY NoFault
<1>5. worker = "idle" /\ UNCHANGED worker => LoopQuiet
  BY DEF LoopQuiet
<1>6. ASSUME NEW p \in Position, RetrieveLater(p)
      PROVE  Quiet
  BY <1>2, <1>3, <1>6, VisitIsQuiet DEF RetrieveLater, Quiet
<1>7. ASSUME NEW p \in Position, RetrieveFails(p)
      PROVE  FALSE
  <2>1. p \in notifications
    BY <1>7 DEF RetrieveFails, Visit, FindParts, Announced
  <2>2. PICK r \in Robot : ready[r] /\ place[r] = p /\ ~ Announcing(r)
    BY <2>1 DEF FindParts, Announced
  <2>3. known[p] # None
    BY <2>2 DEF FindParts, Announced, Findable
  <2> QED BY <1>1, <1>4, <1>7, <2>3 DEF RetrieveFails
<1>8. ASSUME NEW p \in Position, RequestStep(p)
      PROVE  Quiet
  <2>1. LoopQuiet
    BY <1>8, VisitIsQuiet DEF RequestStep, RequestNextRobot, RequestFails
  <2> QED BY <1>2, <1>3, <1>8, <2>1 DEF RequestStep, RequestNextRobot,
             RequestFails, Quiet
<1>9. ASSUME NEW p \in Position, DeliverToKitchen(p) \/ DeliverToKitchenFails(p)
      PROVE  Quiet
  <2>1. LoopQuiet
    BY <1>9, VisitIsQuiet DEF DeliverToKitchen, DeliverToKitchenFails
  <2>2. UNCHANGED <<lost, overwritten, copied>>
    <3>1. CASE DeliverToKitchen(p)
      BY <3>1 DEF DeliverToKitchen
    <3>2. CASE DeliverToKitchenFails(p)
      <4>1. client["kitchen"] # "live"
        BY <1>4, <3>2 DEF DeliverToKitchenFails
      <4> QED BY <3>2, <4>1 DEF DeliverToKitchenFails
    <3> QED BY <1>9, <3>1, <3>2
  <2>3. UNCHANGED <<place, bound_for, up, ready, notifications, known, io>>
    BY <1>9 DEF DeliverToKitchen, DeliverToKitchenFails
  <2> QED BY <1>2, <1>3, <2>1, <2>2, <2>3 DEF Quiet
<1>10. ASSUME NEW p \in Position, DeliverToRobot(p) \/ RobotRefuses(p)
       PROVE  Quiet
  <2>1. LoopQuiet
    BY <1>10, VisitIsQuiet DEF DeliverToRobot, RobotRefuses
  <2> QED BY <1>2, <1>3, <1>10, <2>1 DEF DeliverToRobot, RobotRefuses,
             GiveTask, Quiet
<1>11. ASSUME NEW p \in Position, DeliverToRobotFails(p)
       PROVE  FALSE
  BY <1>1, <1>4, <1>11 DEF DeliverToRobotFails
<1>12. CASE HandleRetrieveFinishedOrders
  <2>1. IoQuiet
    BY <1>12, TakeIsQuiet DEF HandleRetrieveFinishedOrders
  <2> QED BY <1>1, <1>2, <1>12, <2>1 DEF HandleRetrieveFinishedOrders, Quiet,
             Retrieving, Enter, LoopQuiet
<1>13. CASE RetrieveDone \/ RequestsDone
  <2>1. LoopQuiet
    BY <1>13 DEF RetrieveDone, RequestsDone, Requesting, Enter, Leave, LoopQuiet
  <2> QED BY <1>2, <1>3, <1>13, <2>1 DEF RetrieveDone, RequestsDone, Quiet
<1>14. CASE DeliverDone
  BY <1>2, <1>3, <1>14, DetermineIsQuiet DEF DeliverDone, Quiet
<1>15. CASE IgnoreNextRobot
  <2>1. IoQuiet /\ worker = "idle"
    BY <1>15, TakeIsQuiet DEF IgnoreNextRobot
  <2> QED BY <1>1, <1>2, <1>5, <1>15, <2>1 DEF IgnoreNextRobot, Quiet, workVars
<1>16. CASE MismatchedNextRobot \/ HandleReceiveNextRobot
  <2>1. Take("next_robot") /\ MeetRobot(Head(io))
    BY <1>16 DEF MismatchedNextRobot, HandleReceiveNextRobot
  <2>2. IoQuiet /\ worker = "idle" /\ io # <<>> /\ Head(io).op = "next_robot"
    BY <2>1, TakeIsQuiet DEF Take
  <2>3. KnownQuiet
    BY <2>1, <2>2, MeetIsQuiet
  <2> QED BY <1>5, <1>16, <2>2, <2>3 DEF MismatchedNextRobot,
             HandleReceiveNextRobot, Quiet, workVars
<1>17. CASE MoveConveyor
  <2>1. IoQuiet
    BY <1>17, TakeIsQuiet DEF MoveConveyor
  <2>2. LoopQuiet
    BY <1>17 DEF MoveConveyor, Enter, LoopQuiet
  <2> QED BY <1>1, <1>2, <1>17, <2>1, <2>2 DEF MoveConveyor, Quiet
<1>18. CASE HandleReconnected
  <2>1. IoQuiet /\ worker = "idle"
    BY <1>18, TakeIsQuiet DEF HandleReconnected
  <2>2. UNCHANGED known /\ LoopQuiet
    BY <1>5, <1>18, <2>1, DetermineIsQuiet DEF HandleReconnected, workVars
  <2> QED BY <1>2, <1>18, <2>1, <2>2 DEF HandleReconnected, Quiet
<1>19. CASE HandlePositionSwapped
  <2>1. IoQuiet /\ worker = "idle"
    BY <1>19, TakeIsQuiet DEF HandlePositionSwapped
  <2> QED BY <1>5, <1>19, <2>1, SwapIsQuiet DEF HandlePositionSwapped, Quiet,
             workVars
<1> QED BY <1>6, <1>7, <1>8, <1>9, <1>10, <1>11, <1>12, <1>13, <1>14, <1>15,
           <1>16, <1>17, <1>18, <1>19 DEF WorkerStep, RetrieveStep, DeliverStep

LEMMA WorldIsQuiet ==
    ASSUME ConveyorInv, FindParts, faults = 0, faults' = 0,
           \/ TimerExpires \/ ClientStep \/ ControllerAnswers
           \/ \E d \in Dish, r \in Robot : KitchenAssigns(d, r)
    PROVE  Quiet
<1> USE DEF ConveyorInv, beltVars, robotVars, dishVars, workVars
<1>1. LoopQuiet
  BY DEF TimerExpires, ClientStep, PositionChanged, RemoteStops, ClientDrops,
     ClientReconnects, ControllerAnswers, KitchenAssigns, LoopQuiet, FindParts,
     Announced
<1>2. UNCHANGED known => KnownQuiet
  BY SameKnownIsQuiet
<1>3. UNCHANGED io => IoQuiet
  BY DEF IoQuiet
<1>4. ~ Fault
  BY NoFault
<1>5. \A h : Post(h) /\ h.op \notin {"notified", "next_robot"} => IoQuiet
  BY DEF IoQuiet, Harmless
<1>6. CASE TimerExpires
  <2>1. Post([op |-> timer]) /\ timer \in {"retrieve", "move"}
    BY <1>6 DEF TimerExpires, TypeOK, ControlTypes
  <2>2. IoQuiet
    BY <1>5, <2>1
  <2> QED BY <1>1, <1>2, <1>6, <2>2 DEF TimerExpires, Quiet
<1>7. ASSUME NEW p \in Position, PositionChanged(p)
      PROVE  Quiet
  <2>1. IoQuiet
    BY <1>3, <1>5, <1>7 DEF PositionChanged
  <2> QED BY <1>1, <1>7, <2>1, CachedIsQuiet DEF PositionChanged, Quiet
<1>8. ASSUME NEW p \in Position, RemoteStops(p)
      PROVE  FALSE
  BY <1>8 DEF RemoteStops, FindParts, LinksLive
<1>9. ASSUME NEW a \in Agent, ClientDrops(a) \/ ClientReconnects(a)
      PROVE  Quiet
  <2>1. IoQuiet
    BY <1>3, <1>5, <1>9 DEF ClientDrops, ClientReconnects, Resumes
  <2> QED BY <1>1, <1>2, <1>9, <2>1 DEF ClientDrops, ClientReconnects, Quiet
<1>10. CASE ControllerAnswers
  <2>1. IoQuiet
    <3>1. CASE \E r \in Suitable(Head(asked)) :
                  Post(NextRobot(place[r], r, Head(asked).recipe))
      <4>1. PICK r \in Suitable(Head(asked)) :
                    Post(NextRobot(place[r], r, Head(asked).recipe))
        BY <3>1
      <4>2. r \in Robot /\ bound_for[r] = 0
        BY DEF Suitable, Available
      <4>3. Harmless(NextRobot(place[r], r, Head(asked).recipe))
        BY <4>2, OneRobotThere DEF Harmless, NextRobot
      <4> QED BY <4>1, <4>3 DEF IoQuiet
    <3>2. CASE Post(NextRobot(0, None, Head(asked).recipe))
      <4>1. Harmless(NextRobot(0, None, Head(asked).recipe))
        BY Positions DEF Harmless, NextRobot, TypeOK, WorldTypes
      <4> QED BY <3>2, <4>1 DEF IoQuiet
    <3>3. CASE UNCHANGED io
      BY <1>3, <3>3
    <3> QED BY <1>10, <3>1, <3>2, <3>3 DEF ControllerAnswers
  <2> QED BY <1>1, <1>2, <1>10, <2>1 DEF ControllerAnswers, Quiet
<1>11. CASE \E d \in Dish, r \in Robot : KitchenAssigns(d, r)
  BY <1>1, <1>2, <1>3, <1>11 DEF KitchenAssigns, Quiet
<1> QED BY <1>6, <1>7, <1>8, <1>9, <1>10, <1>11 DEF ClientStep

------------------------------------------------------------------------------
(* The steps that change who is announced, or where the robots are.         *)

LEMMA NotificationKeepsFind ==
    ASSUME ConveyorInv, FindParts, faults = 0, faults' = 0,
           HandleFinishedOrderNotification
    PROVE  FindParts'
<1> USE DEF ConveyorInv, FindParts
<1> DEFINE h == Head(io)
<1>1. io # <<>> /\ io' = Tail(io) /\ h.op = "notified" /\ worker = "idle"
  BY DEF HandleFinishedOrderNotification, Take
<1>2. h = io[1] /\ 1 \in DOMAIN io /\ h \in Handler
  BY <1>1, TakenFacts
<1>3. PICK r \in Robot, p \in RobotPosition : r = h.robot /\ p = h.position
  BY <1>1, <1>2 DEF Handler
<1>4. p \in Position
  BY Positions
<1>5. ready[r] /\ place[r] = p
  BY <1>1, <1>2, <1>3 DEF Announcements
<1>6. ~ Announcing(r)'
  <2>1. ASSUME NEW i \in DOMAIN io', io'[i].op = "notified", io'[i].robot = r
        PROVE  FALSE
    <3>1. i + 1 \in DOMAIN io /\ io[i + 1] = io'[i] /\ i + 1 # 1
      BY <1>1, TakenFacts
    <3> QED BY <1>1, <1>2, <1>3, <1>4, <2>1, <3>1 DEF Announcements, IsAnnouncement
  <2> QED BY <2>1 DEF Announcing
<1>7. \A s \in Robot : s # r => (Announcing(s)' <=> Announcing(s))
  BY <1>1, <1>2, <1>3, <1>4, TakenFacts
<1>8. UNCHANGED <<place, ready, bound_for, up, worker, todo,
                 lost, overwritten, copied>>
  BY DEF HandleFinishedOrderNotification, robotVars, dishVars, workVars
<1>9. /\ notifications' = notifications \cup {p}
      /\ Reach(p, r, TRUE)
  BY <1>3, <1>4, NoFault DEF HandleFinishedOrderNotification,
     NoteNotification, Reach, LinksLive
<1>10. /\ known'[p] # None /\ known'[p].robot = r /\ known'[p].link = "live"
      /\ \A q \in Position : q # p => known'[q] = known[q]
  <2>1. /\ remove_stopped_robots = known
        /\ known \in [Position -> RemoteType \cup {None}]
    BY LiveFacts DEF TypeOK, BeltTypes
  <2>2. Remote(r) \in RemoteType /\ Remote(r) # None
    BY <1>3, <1>4, Positions, NoneIsNoRemote DEF Remote, RemoteType, OUTPUT_POSITION
  <2>3. CASE known[p] # None /\ known[p].robot = r
    BY <1>3, <1>4, <1>9, <2>1, <2>3 DEF Reach, LinksLive
  <2>4. CASE ~ (known[p] # None /\ known[p].robot = r)
    <3>1. known' = [known EXCEPT ![p] = Remote(r)]
      BY <1>9, <2>1, <2>4 DEF Reach
    <3> QED BY <1>3, <1>4, <2>1, <2>2, <3>1 DEF Remote
  <2> QED BY <2>3, <2>4
<1> HIDE DEF h
<1>11. RobotsPass' /\ ReadyStays' /\ LinksLive' /\ Unharmed'
  BY <1>3, <1>4, <1>8, <1>10 DEF Unharmed, RobotsPass, ReadyStays, LinksLive
<1>12. Announcements' /\ AnswersComeFirst'
  BY <1>1, <1>8, TakeKeepsOrder
<1>13. Announced'
  <2>1. ASSUME NEW s \in Robot, s # r, ready[s]
        PROVE  place[s] # p
    BY <1>3, <1>4, <1>5, <2>1, OneRobotThere
  <2>2. ASSUME NEW q \in notifications'
        PROVE  \E s \in Robot : ready'[s] /\ place'[s] = q /\ ~ Announcing(s)'
    <3>1. CASE q = p
      BY <1>3, <1>4, <1>5, <1>6, <1>8, <3>1
    <3>2. CASE q # p
      <4>1. PICK s \in Robot : ready[s] /\ place[s] = q /\ ~ Announcing(s)
        BY <1>9, <2>2, <3>2 DEF Announced
      <4>2. s # r
        BY <1>5, <3>2, <4>1
      <4> QED BY <1>7, <1>8, <4>1, <4>2
    <3> QED BY <3>1, <3>2
  <2>3. ASSUME NEW s \in Robot, ready'[s], ~ Announcing(s)'
        PROVE  Findable(s)'
    <3>1. CASE s = r
      BY <1>3, <1>4, <1>5, <1>8, <1>9, <1>10, <3>1 DEF Findable
    <3>2. CASE s # r
      <4>1. Findable(s) /\ place[s] # p /\ place[s] \in Position
        BY <1>7, <1>8, <2>1, <2>3, <3>2, Positions DEF Announced, TypeOK,
           WorldTypes
      <4>2. known'[place[s]] = known[place[s]]
        BY <1>10, <4>1
      <4> QED BY <1>8, <1>9, <4>1, <4>2 DEF Findable
    <3> QED BY <3>1, <3>2
  <2> QED BY <1>1, <1>8, <2>2, <2>3 DEF Announced
<1> QED BY <1>11, <1>12, <1>13

(* The dish that is looked for is found, and taken from where it was.       *)
LEMMA RetrieveFacts ==
    ASSUME ConveyorInv, FindParts, NEW p \in Position, RetrieveDish(p)
    PROVE  \E r \in Robot :
              /\ known[p].robot = r /\ ready[r] /\ place[r] = p /\ p \notin Occupied
              /\ ~ Announcing(r)
<1>1. p \in notifications
  BY DEF RetrieveDish, Visit, FindParts, Announced
<1>2. PICK r \in Robot : ready[r] /\ place[r] = p /\ ~ Announcing(r)
  BY <1>1 DEF FindParts, Announced
<1>3. known[p].robot = r
  BY <1>2 DEF FindParts, Announced, Findable
<1> QED BY <1>2, <1>3 DEF RetrieveDish, Unoccupied

LEMMA RetrieveKeepsFind ==
    ASSUME ConveyorInv, FindParts, NEW p \in Position, RetrieveDish(p)
    PROVE  FindParts'
<1> USE DEF ConveyorInv, FindParts
<1>1. PICK r \in Robot :
         /\ known[p].robot = r /\ ready[r] /\ place[r] = p /\ p \notin Occupied
         /\ ~ Announcing(r)
  BY RetrieveFacts
<1>2. /\ UNCHANGED <<place, bound_for, up, known, io, worker>>
      /\ ready' = [ready EXCEPT ![r] = FALSE]
      /\ notifications' = notifications \ {p}
      /\ UNCHANGED <<lost, overwritten, copied>> /\ todo' = todo \ {p}
  BY <1>1 DEF RetrieveDish, GiveAway, Overwrite, Visit
<1>3. ready \in [Robot -> BOOLEAN]
  BY DEF TypeOK, WorldTypes
<1>4. ~ ready'[r] /\ \A s \in Robot : s # r => ready'[s] = ready[s]
  BY <1>2, <1>3
<1>5. \A s : Announcing(s)' <=> Announcing(s)
  BY <1>2 DEF Announcing
<1>6. RobotsPass' /\ ReadyStays' /\ LinksLive' /\ Unharmed'
  BY <1>2, <1>4 DEF Unharmed, RobotsPass, ReadyStays, LinksLive
<1>7. \A i \in DOMAIN io : io[i].op = "notified" =>
         io[i].robot \in Robot /\ io[i].robot # r
  BY <1>1, QueueType DEF Announcing, Handler
<1>8. Announcements'
  BY <1>2, <1>4, <1>7 DEF Announcements, IsAnnouncement
<1>9. AnswersComeFirst'
  BY <1>2, <1>4 DEF AnswersComeFirst, IsAnnouncement
<1>10. Announced'
  <2>1. ASSUME NEW s \in Robot, s # r, ready[s]
        PROVE  place[s] # p
    BY <1>1, <2>1, OneRobotThere
  <2>2. ASSUME NEW q \in notifications'
        PROVE  \E s \in Robot : ready'[s] /\ place'[s] = q /\ ~ Announcing(s)'
    <3>1. PICK s \in Robot : ready[s] /\ place[s] = q /\ ~ Announcing(s)
      BY <1>2, <2>2 DEF Announced
    <3> QED BY <1>1, <1>2, <1>4, <1>5, <2>2, <3>1
  <2>3. ASSUME NEW s \in Robot, ready'[s], ~ Announcing(s)'
        PROVE  Findable(s)'
    BY <1>2, <1>4, <1>5, <2>1, <2>3 DEF Announced, Findable
  <2> QED BY <1>2, <2>2, <2>3 DEF Announced
<1> QED BY <1>6, <1>8, <1>9, <1>10

LEMMA FinishKeepsFind ==
    ASSUME ConveyorInv, FindParts, NEW r \in Robot, RobotFinishes(r)
    PROVE  FindParts'
<1> USE DEF ConveyorInv, FindParts
<1> DEFINE h == [op |-> "notified", position |-> place[r], robot |-> r]
<1>1. /\ UNCHANGED <<place, bound_for, up, known, worker, todo, notifications,
                     lost, overwritten, copied>>
      /\ ~ ready[r] /\ place[r] # bound_for[r]
      /\ ready' = [ready EXCEPT ![r] = TRUE]
      /\ Post(h)
  BY DEF RobotFinishes, Notify, beltVars, workVars, dishVars
<1>2. ready'[r] /\ \A s \in Robot : s # r => ready'[s] = ready[s]
  BY <1>1 DEF TypeOK, WorldTypes
<1>3. ~ Announcing(r)
  BY <1>1 DEF Announcing, Announcements
<1>4. /\ DOMAIN io' = 1..(Len(io) + 1) /\ io'[Len(io) + 1] = h
      /\ \A i \in DOMAIN io : i \in DOMAIN io' /\ io'[i] = io[i]
      /\ \A i \in DOMAIN io' : i \in DOMAIN io \/ i = Len(io) + 1
      /\ \A s : Announcing(s)' <=> Announcing(s) \/ s = r
      /\ Len(io) + 1 \in DOMAIN io'
      /\ \A i \in DOMAIN io : i < Len(io) + 1
  <2>1. h.op = "notified" /\ h.robot = r
    OBVIOUS
  <2> HIDE DEF h
  <2> QED BY <1>1, <2>1, PostedFacts, QueueType
<1>5. RobotsPass' /\ ReadyStays' /\ LinksLive' /\ Unharmed'
  BY <1>1, <1>2 DEF Unharmed, RobotsPass, ReadyStays, LinksLive
<1>6. \A i \in DOMAIN io : io[i].op = "notified" =>
         io[i].robot \in Robot /\ io[i].robot # r
  BY <1>3, QueueType DEF Announcing, Handler
<1>7. Announcements'
  <2>1. ASSUME NEW i \in DOMAIN io', io'[i].op = "notified"
        PROVE  ready'[io'[i].robot] /\ place'[io'[i].robot] = io'[i].position
    <3>1. CASE i \in DOMAIN io
      BY <1>1, <1>2, <1>4, <1>6, <2>1, <3>1 DEF Announcements
    <3>2. CASE i = Len(io) + 1
      BY <1>1, <1>2, <1>4, <3>2
    <3> QED BY <1>4, <3>1, <3>2
  <2>2. ASSUME NEW s \in Robot, NEW i \in DOMAIN io', NEW j \in DOMAIN io',
               IsAnnouncement(i, s)', IsAnnouncement(j, s)'
        PROVE  i = j
    <3>1. CASE s = r
      BY <1>4, <1>6, <2>2, <3>1 DEF IsAnnouncement
    <3>2. CASE s # r
      <4>1. i \in DOMAIN io /\ j \in DOMAIN io
        BY <1>4, <2>2, <3>2 DEF IsAnnouncement
      <4> QED BY <1>4, <2>2, <4>1 DEF IsAnnouncement, Announcements
    <3> QED BY <3>1, <3>2
  <2> QED BY <2>1, <2>2 DEF Announcements
<1>8. AnswersComeFirst'
  <2> SUFFICES ASSUME NEW i \in DOMAIN io', io'[i].op = "next_robot",
                      NEW s \in Robot, ready'[s], place[s] = io'[i].position,
                      s # io'[i].robot
               PROVE  \E j \in DOMAIN io' : i < j /\ io'[j].op = "notified"
                                                  /\ io'[j].robot = s
    BY <1>1 DEF AnswersComeFirst, IsAnnouncement
  <2>1. i \in DOMAIN io /\ io'[i] = io[i]
    BY <1>4
  <2>2. CASE s = r
    BY <1>4, <2>1, <2>2
  <2>3. CASE s # r
    <3>1. PICK j \in DOMAIN io : i < j /\ IsAnnouncement(j, s)
      BY <1>2, <2>1, <2>3 DEF AnswersComeFirst
    <3> QED BY <1>4, <3>1 DEF IsAnnouncement
  <2> QED BY <2>2, <2>3
<1>9. Announced'
  BY <1>1, <1>2, <1>4 DEF Announced, Findable
<1> QED BY <1>5, <1>7, <1>8, <1>9

LEMMA MoveKeepsFind ==
    ASSUME ConveyorInv, FindParts, NEW r \in Robot, RobotMoves(r)
    PROVE  FindParts'
<1> USE DEF ConveyorInv, FindParts
<1>1. /\ UNCHANGED <<bound_for, up, ready, known, io, worker, todo, notifications,
                     lost, overwritten, copied>>
      /\ ~ ready[r] /\ bound_for[r] # 0
      /\ place' = [place EXCEPT ![r] = bound_for[r]]
  BY DEF RobotMoves, beltVars, workVars, dishVars
<1>2. /\ place'[r] = bound_for[r]
      /\ \A s \in Robot : s # r => place'[s] = place[s]
  BY <1>1 DEF TypeOK, WorldTypes
<1>3. RobotsPass'
  <2> SUFFICES ASSUME NEW s \in Robot, NEW t \in Robot, s # t
               PROVE  /\ bound_for[s] # 0 => /\ bound_for[s] # bound_for[t]
                                             /\ place'[t] = bound_for[s]
                                                  => bound_for[t] # 0
                      /\ place'[s] = place'[t] =>
                            /\ bound_for[s] # 0 /\ bound_for[t] # 0
                            /\ \/ bound_for[s] = place'[s]
                               \/ bound_for[t] = place'[t]
    BY <1>1 DEF RobotsPass
  <2>1. CASE s # r /\ t # r
    BY <1>2, <2>1 DEF RobotsPass
  <2>2. CASE s = r
    BY <1>1, <1>2, <2>2 DEF RobotsPass
  <2>3. CASE t = r
    BY <1>1, <1>2, <2>3 DEF RobotsPass
  <2> QED BY <2>1, <2>2, <2>3
<1>4. ReadyStays' /\ LinksLive' /\ Unharmed'
  BY <1>1, <1>2 DEF Unharmed, ReadyStays, LinksLive
<1>5. \A i \in DOMAIN io : io[i].op = "notified" =>
         io[i].robot \in Robot /\ io[i].robot # r
  BY <1>1, QueueType DEF Announcements, Handler
<1>6. Announcements'
  BY <1>1, <1>2, <1>5 DEF Announcements, IsAnnouncement
<1>7. AnswersComeFirst'
  BY <1>1, <1>2 DEF AnswersComeFirst, IsAnnouncement
<1>8. \A s : Announcing(s)' <=> Announcing(s)
  BY <1>1 DEF Announcing
<1>9. Announced'
  <2>1. ASSUME NEW q \in notifications
        PROVE  \E s \in Robot : ready'[s] /\ place'[s] = q /\ ~ Announcing(s)'
    <3>1. PICK s \in Robot : ready[s] /\ place[s] = q /\ ~ Announcing(s)
      BY DEF Announced
    <3>2. s # r
      BY <1>1, <3>1
    <3> QED BY <1>1, <1>2, <1>8, <3>1, <3>2
  <2>2. ASSUME NEW s \in Robot, ready'[s], ~ Announcing(s)'
        PROVE  Findable(s)'
    <3>1. s # r
      BY <1>1, <2>2
    <3> QED BY <1>1, <1>2, <1>8, <2>2, <3>1 DEF Announced, Findable
  <2> QED BY <1>1, <2>1, <2>2 DEF Announced
<1> QED BY <1>3, <1>4, <1>6, <1>7, <1>9

(* What is announced depends on none but these.                             *)
LEMMA SameAnnounced ==
    ASSUME Announcements, AnswersComeFirst, Announced,
           UNCHANGED <<place, ready, known, io, worker, todo, notifications>>
    PROVE  Announcements' /\ AnswersComeFirst' /\ Announced'
<1>1. \A s : Announcing(s)' <=> Announcing(s)
  BY DEF Announcing
<1> QED BY <1>1 DEF Announcements, AnswersComeFirst, Announced, Findable,
           IsAnnouncement

LEMMA CommitKeepsFind ==
    ASSUME ConveyorInv, FindParts, NEW r \in Robot, ControllerCommits(r)
    PROVE  FindParts'
<1> USE DEF ConveyorInv, FindParts
<1>1. /\ UNCHANGED <<place, up, ready, known, io, worker, todo, notifications,
                     lost, overwritten, copied>>
      /\ place[r] = bound_for[r] /\ place[r] # 0
      /\ \A s \in Robot \ {r} : place[s] # place[r]
      /\ bound_for' = [bound_for EXCEPT ![r] = 0]
  BY Positions DEF ControllerCommits, beltVars, workVars, dishVars, LinksLive,
     TypeOK, WorldTypes
<1>2. /\ bound_for'[r] = 0
      /\ \A s \in Robot : s # r => bound_for'[s] = bound_for[s]
  BY <1>1 DEF TypeOK, WorldTypes
<1>3. RobotsPass'
  <2> SUFFICES ASSUME NEW s \in Robot, NEW t \in Robot, s # t
               PROVE  /\ bound_for'[s] # 0 => /\ bound_for'[s] # bound_for'[t]
                                              /\ place[t] = bound_for'[s]
                                                   => bound_for'[t] # 0
                      /\ place[s] = place[t] =>
                            /\ bound_for'[s] # 0 /\ bound_for'[t] # 0
                            /\ \/ bound_for'[s] = place[s]
                               \/ bound_for'[t] = place[t]
    BY <1>1 DEF RobotsPass
  <2>1. CASE s # r /\ t # r
    BY <1>2, <2>1 DEF RobotsPass
  <2>2. CASE s = r
    BY <1>1, <1>2, <2>2 DEF RobotsPass
  <2>3. CASE t = r
    BY <1>1, <1>2, <2>3 DEF RobotsPass
  <2> QED BY <2>1, <2>2, <2>3
<1>4. ReadyStays' /\ LinksLive' /\ Unharmed'
  BY <1>1, <1>2 DEF Unharmed, ReadyStays, LinksLive
<1> QED BY <1>1, <1>3, <1>4, SameAnnounced

LEMMA RearrangeKeepsFind ==
    ASSUME ConveyorInv, FindParts, NEW r \in Robot, NEW p \in RobotPosition,
           Rearrange(r, p)
    PROVE  FindParts'
<1> USE DEF ConveyorInv, FindParts
<1>1. /\ UNCHANGED <<place, up, ready, known, io, worker, todo, notifications,
                     lost, overwritten, copied>>
      /\ bound_for[r] = 0 /\ place[r] # p
      /\ \A s \in Robot : bound_for[s] # p /\ bound_for[s] # place[r]
      /\ \A s \in Robot : place[s] = p => bound_for[s] = 0
      /\ bound_for' = [s \in Robot |-> IF s = r THEN p
                                       ELSE IF place[s] = p THEN place[r]
                                       ELSE bound_for[s]]
  BY DEF Rearrange, Available, beltVars, workVars, dishVars, LinksLive
<1>2. p # 0 /\ \A s \in Robot : place[s] # 0
  BY Positions DEF TypeOK, WorldTypes
<1>3. \A s, t \in Robot : place[s] = p /\ place[t] = p => s = t
  BY <1>1, OneRobotThere
<1>4. \A s \in Robot : place[s] = place[r] => s = r
  BY <1>1, OneRobotThere
<1>5. /\ bound_for'[r] = p
      /\ \A s \in Robot : place[s] = p => s # r /\ bound_for'[s] = place[r]
      /\ \A s \in Robot : s # r /\ place[s] # p => bound_for'[s] = bound_for[s]
  BY <1>1
<1>6. RobotsPass'
  <2> SUFFICES ASSUME NEW s \in Robot, NEW t \in Robot, s # t
               PROVE  /\ bound_for'[s] # 0 => /\ bound_for'[s] # bound_for'[t]
                                              /\ place[t] = bound_for'[s]
                                                   => bound_for'[t] # 0
                      /\ place[s] = place[t] =>
                            /\ bound_for'[s] # 0 /\ bound_for'[t] # 0
                            /\ \/ bound_for'[s] = place[s]
                               \/ bound_for'[t] = place[t]
    BY <1>1 DEF RobotsPass
  <2>1. CASE s = r
    BY <1>1, <1>2, <1>3, <1>4, <1>5, <2>1
  <2>2. CASE t = r
    BY <1>1, <1>2, <1>3, <1>4, <1>5, <2>2
  <2>3. CASE s # r /\ t # r /\ place[s] = p
    BY <1>1, <1>2, <1>3, <1>4, <1>5, <2>3
  <2>4. CASE s # r /\ t # r /\ place[t] = p
    BY <1>1, <1>2, <1>3, <1>4, <1>5, <2>4
  <2>5. CASE s # r /\ t # r /\ place[s] # p /\ place[t] # p
    <3>1. bound_for'[s] = bound_for[s] /\ bound_for'[t] = bound_for[t]
      BY <1>5, <2>5
    <3> QED BY <3>1 DEF RobotsPass
  <2> QED BY <2>1, <2>2, <2>3, <2>4, <2>5
<1>7. ReadyStays'
  BY <1>1, <1>5 DEF ReadyStays
<1>8. LinksLive' /\ Unharmed'
  BY <1>1 DEF Unharmed, LinksLive
<1> QED BY <1>1, <1>6, <1>7, <1>8, SameAnnounced

(* FindInv is kept.                                                         *)
LEMMA FindNextKeeps == ConveyorInv /\ FindInv /\ [Next]_vars => FindInv'
<1> SUFFICES ASSUME ConveyorInv, FindInv, [Next]_vars, faults' = 0
             PROVE  FindParts'
  BY DEF FindInv
<1>1. faults = 0
  <2>1. faults' \in {faults, faults + 1}
    BY NextIsDishStep DEF DishStep
  <2>2. faults \in Nat
    BY DEF ConveyorInv, TypeOK, ControlTypes
  <2> QED BY <2>1, <2>2
<1>2. FindParts
  BY <1>1 DEF FindInv
<1>3. TypeOK /\ ~ Fault
  BY <1>1, NoFault DEF ConveyorInv
<1>4. CASE WorkerStep
  <2>1. CASE HandleFinishedOrderNotification
    BY <1>1, <1>2, <2>1, NotificationKeepsFind
  <2>2. CASE \E p \in Position : RetrieveDish(p)
    BY <1>2, <2>2, RetrieveKeepsFind
  <2> QED BY <1>1, <1>2, <1>3, <1>4, <2>1, <2>2, WorkerIsQuiet, QuietKeepsFind
<1>5. CASE \/ TimerExpires \/ ClientStep \/ ControllerAnswers
           \/ \E d \in Dish, r \in Robot : KitchenAssigns(d, r)
  BY <1>1, <1>2, <1>3, <1>5, WorldIsQuiet, QuietKeepsFind
<1>6. CASE \E r \in Robot : RobotStep(r)
  BY <1>2, <1>6, FinishKeepsFind, MoveKeepsFind, CommitKeepsFind DEF RobotStep
<1>7. CASE \E r \in Robot, p \in RobotPosition : Rearrange(r, p)
  BY <1>2, <1>7, RearrangeKeepsFind
<1>8. CASE Disturbance
  BY <1>3, <1>5, <1>7, <1>8 DEF Disturbance, RobotReannounces, RobotCrashes,
     ConnectionBreaks, LinkBreaks, ControllerAnswerLost, ReceiverBreaks
<1>9. CASE UNCHANGED vars
  <2>1. Quiet
    BY <1>2, <1>9, SameKnownIsQuiet DEF vars, beltVars, workVars, robotVars,
       dishVars, Quiet, IoQuiet, LoopQuiet, FindParts, Announced
  <2> QED BY <1>2, <1>3, <2>1, QuietKeepsFind
<1> QED BY <1>4, <1>5, <1>6, <1>8, <1>9 DEF Next

LEMMA InitFind == Init => FindInv
<1> SUFFICES ASSUME Init PROVE FindParts
  BY DEF FindInv
<1>1. RobotsPass /\ ReadyStays
  BY StartsApart, Positions, ConveyorAssumption DEF Init, RobotsPass, ReadyStays
<1>2. LinksLive /\ Unharmed
  BY DEF Init, Unharmed, LinksLive
<1>3. DOMAIN io = {}
  BY DEF Init
<1>4. Announcements /\ AnswersComeFirst
  BY <1>3 DEF Announcements, AnswersComeFirst
<1>5. Announced
  BY DEF Init, Announced
<1> QED BY <1>1, <1>2, <1>4, <1>5 DEF FindParts

THEOREM FindInvariance == Spec => []FindInv
<1>1. Init => FindInv
  BY InitFind
<1>2. ConveyorInv /\ FindInv /\ [Next]_vars => FindInv'
  BY FindNextKeeps
<1> QED BY <1>1, <1>2, Invariance, PTL DEF Spec

(* Retrieval, belt, delivery and refusal lose no dish and double none: what *)
(* is missing was with a robot that crashed, in an answer that was lost or  *)
(* on a plate another dish took, and there is one copy for each answer lost *)
(* on its way.  As long as nothing has failed a dish is in one place: then  *)
(* none is overwritten either, because every announced robot is where the   *)
(* conveyor calls it (FindInv).                                             *)
THEOREM DishesAreKept == Spec => []DishesKept
<1>1. KeptInv => DishesConserved
  BY DEF KeptInv, DishesConserved, Traces
<1>2. ASSUME ConveyorInv, KeptInv, FindInv, faults = 0, NEW d \in Dish
      PROVE  Places(d) = 1
  <2>1. lost[d] = 0 /\ overwritten[d] = 0 /\ copied[d] = 0
    BY <1>2 DEF FindInv, FindParts, Unharmed
  <2>2. Places(d) \in Nat /\ Places(d) + lost[d] + overwritten[d] = 1 + copied[d]
    BY <1>2, CountsAreNat DEF KeptInv, ConveyorInv, Traces
  <2> QED BY <2>1, <2>2
<1>3. ConveyorInv /\ KeptInv /\ FindInv => DishesKept
  BY <1>1, <1>2 DEF DishesKept
<1> QED BY <1>3, Invariance, KeptInvariance, FindInvariance, PTL

(* As long as no connection has failed, a robot whose announcement was      *)
(* taken is found where the conveyor will look for it, whatever swaps and   *)
(* late answers of the controller are handled in between.                   *)
THEOREM AnnouncedIsFound == Spec => []AnnouncedDishIsFindable
<1>1. FindInv => AnnouncedDishIsFindable
  BY DEF FindInv, FindParts, Announced, Findable, AnnouncedDishIsFindable
<1> QED BY <1>1, FindInvariance, PTL

------------------------------------------------------------------------------
(* Without a fault every step is one of DishFlow.                           *)

WhereFacts(d) ==
    /\ d \in ordered => Where[d] = "ordered" /\ StepsDone[d] = 0
    /\ InKitchen(d) # {} => Where[d] = "kitchen" /\ StepsDone[d] = Visits[d]
    /\ \A p \in OnPlate(d) :
          Where[d] = "belt" /\ StepsDone[d] = plates[p].steps
    /\ \A t \in AtRobot(d) :
          Where[d] = "robot" /\ StepsDone[d] = queue[t[1]][t[2]].steps
    /\ \/ d \in ordered \/ InKitchen(d) # {}
       \/ OnPlate(d) # {} \/ AtRobot(d) # {}

(* Every dish is in one place.                                              *)
Tidy == TypeOK /\ KeptInv /\ faults = 0 /\ Unharmed

LEMMA OnePlace ==
    ASSUME NEW d \in Dish
    PROVE  Tidy => WhereFacts(d)
<1> SUFFICES ASSUME Tidy PROVE WhereFacts(d)
  OBVIOUS
<1> USE DEF Tidy
<1>1. /\ IsFiniteSet(OnPlate(d)) /\ IsFiniteSet(AtRobot(d))
      /\ IsFiniteSet(InKitchen(d))
  BY OnPlateFinite, InKitchenFinite DEF KeptInv
<1>2. /\ Cardinality(OnPlate(d)) \in Nat
      /\ Cardinality(AtRobot(d)) \in Nat
      /\ Cardinality(InKitchen(d)) \in Nat
  BY <1>1, CountsAreNat
<1>3. Cardinality(OnPlate(d)) + Cardinality(AtRobot(d))
        + Cardinality(InKitchen(d)) + (IF d \in ordered THEN 1 ELSE 0) = 1
  <2>1. Traces(d) = 1 + copied[d]
    BY DEF KeptInv
  <2>2. lost[d] = 0 /\ overwritten[d] = 0 /\ copied[d] = 0
    BY DEF Unharmed
  <2> QED BY <1>2, <2>1, <2>2 DEF Traces, Places
<1>4. \A S : IsFiniteSet(S) => (Cardinality(S) = 0 <=> S = {})
  BY FS_EmptySet
<1>5. \A S : IsFiniteSet(S) /\ Cardinality(S) = 1 => \E x : S = {x}
  BY FS_Singleton
<1>6. /\ Where[d] = IF d \in ordered THEN "ordered"
                    ELSE IF InKitchen(d) # {} THEN "kitchen"
                    ELSE IF OnPlate(d) # {} THEN "belt" ELSE "robot"
      /\ StepsDone[d] = IF d \in ordered THEN 0
                        ELSE IF InKitchen(d) # {} THEN Visits[d]
                        ELSE IF OnPlate(d) # {}
                        THEN plates[CHOOSE p \in OnPlate(d) : TRUE].steps
                        ELSE LET q == CHOOSE q \in AtRobot(d) : TRUE
                             IN queue[q[1]][q[2]].steps
  BY DEF Where, StepsDone
<1>7. CASE d \in ordered
  <2>1. OnPlate(d) = {} /\ AtRobot(d) = {} /\ InKitchen(d) = {}
    BY <1>1, <1>2, <1>3, <1>4, <1>7
  <2> QED BY <1>6, <1>7, <2>1 DEF WhereFacts
<1>8. CASE d \notin ordered /\ InKitchen(d) # {}
  <2>1. OnPlate(d) = {} /\ AtRobot(d) = {}
    BY <1>1, <1>2, <1>3, <1>4, <1>8
  <2> QED BY <1>6, <1>8, <2>1 DEF WhereFacts
<1>9. CASE d \notin ordered /\ InKitchen(d) = {} /\ OnPlate(d) # {}
  <2>1. AtRobot(d) = {} /\ Cardinality(OnPlate(d)) = 1
    BY <1>1, <1>2, <1>3, <1>4, <1>9
  <2>2. PICK x : OnPlate(d) = {x}
    BY <1>1, <1>5, <2>1
  <2>3. (CHOOSE p \in OnPlate(d) : TRUE) = x
    BY <2>2
  <2> QED BY <1>6, <1>9, <2>1, <2>2, <2>3 DEF WhereFacts
<1>10. CASE d \notin ordered /\ InKitchen(d) = {} /\ OnPlate(d) = {}
  <2>1. Cardinality(AtRobot(d)) = 1
    BY <1>1, <1>2, <1>3, <1>4, <1>10
  <2>2. PICK x : AtRobot(d) = {x}
    BY <1>1, <1>5, <2>1
  <2>3. (CHOOSE q \in AtRobot(d) : TRUE) = x
    BY <2>2
  <2> QED BY <1>6, <1>10, <2>2, <2>3 DEF WhereFacts
<1> QED BY <1>7, <1>8, <1>9, <1>10

LEMMA OnePlaceNext ==
    ASSUME NEW d \in Dish
    PROVE  (Tidy => WhereFacts(d))'
<1>1. Tidy => WhereFacts(d)
  BY OnePlace
<1> QED BY <1>1, PTL

(* A dish is where it was.                                                  *)
SameSpot(d) ==
    /\ d \in ordered' => d \in ordered
    /\ InKitchen(d)' # {} => InKitchen(d) # {}
    /\ \A p \in OnPlate(d)' : \E q \in OnPlate(d) :
          plates'[p].steps = plates[q].steps
    /\ \A t \in AtRobot(d)' : \E u \in AtRobot(d) :
          queue'[t[1]][t[2]].steps = queue[u[1]][u[2]].steps

LEMMA SameSpotFlow ==
    ASSUME NEW d \in Dish, Tidy, Tidy', SameSpot(d)
    PROVE  Where'[d] = Where[d] /\ StepsDone'[d] = StepsDone[d]
<1>1. WhereFacts(d)
  BY OnePlace
<1>2. WhereFacts(d)'
  BY OnePlaceNext
<1> QED BY <1>1, <1>2 DEF WhereFacts, SameSpot

LEMMA FlowFunctions ==
    /\ DOMAIN Where = Dish /\ DOMAIN Where' = Dish
    /\ DOMAIN StepsDone = Dish /\ DOMAIN StepsDone' = Dish
    /\ Where = [d \in Dish |-> Where[d]] /\ Where' = [d \in Dish |-> Where'[d]]
    /\ StepsDone = [d \in Dish |-> StepsDone[d]]
    /\ StepsDone' = [d \in Dish |-> StepsDone'[d]]
  BY DEF Where, StepsDone

(* One dish moves on, the others stay.                                      *)
LEMMA MoveFlow ==
    ASSUME NEW d \in Dish, \A e \in Dish \ {d} : SameSpot(e), Tidy, Tidy',
           NEW from, NEW to, Where[d] = from, Where'[d] = to
    PROVE  /\ Flow!Move(d, from, to)
           /\ StepsDone' = [StepsDone EXCEPT ![d] = StepsDone'[d]]
<1>1. \A e \in Dish \ {d} : Where'[e] = Where[e] /\ StepsDone'[e] = StepsDone[e]
  BY SameSpotFlow
<1> HIDE DEF Where, StepsDone
<1>2. Where' = [Where EXCEPT ![d] = to]
  BY <1>1, FlowFunctions
<1>3. StepsDone' = [StepsDone EXCEPT ![d] = StepsDone'[d]]
  BY <1>1, FlowFunctions
<1> QED BY <1>2, <1>3 DEF Flow!Move

(* A dish that the step does not touch stays at its robot, or on its plate. *)
LEMMA SameAtRobot ==
    ASSUME NEW d, UNCHANGED queue
    PROVE  \A t \in AtRobot(d)' : \E u \in AtRobot(d) :
              queue'[t[1]][t[2]].steps = queue[u[1]][u[2]].steps
  BY SameCounts

LEMMA OthersAtRobot ==
    ASSUME TypeOK, NEW r \in Robot, NEW x \in TaskType,
           queue' = [queue EXCEPT ![r] = Append(@, x)], NEW d, d # x.dish,
           NEW t \in AtRobot(d)'
    PROVE  \E u \in AtRobot(d) :
              queue'[t[1]][t[2]].steps = queue[u[1]][u[2]].steps
<1>1. PICK s \in Robot : \E i \in DOMAIN queue'[s] :
         t = <<s, i>> /\ queue'[s][i].dish = d
  BY AtRobotMembers
<1>2. PICK i \in DOMAIN queue'[s] : t = <<s, i>> /\ queue'[s][i].dish = d
  BY <1>1
<1>3. i \in DOMAIN queue[s] /\ queue'[s][i] = queue[s][i]
  <2>1. CASE s # r
    BY <2>1, AppendFacts
  <2>2. CASE s = r
    <3>1. i \in 1..(Len(queue[r]) + 1) /\ Len(queue[r]) \in Nat
      BY <2>2, AppendFacts
    <3>2. i # Len(queue[r]) + 1
      <4>1. queue'[r][Len(queue[r]) + 1] = x
        BY AppendFacts
      <4> QED BY <1>2, <2>2, <4>1
    <3> QED BY <2>2, <3>1, <3>2, AppendFacts
  <2> QED BY <2>1, <2>2
<1>4. <<s, i>> \in AtRobot(d)
  BY <1>2, <1>3, AtRobotMembers
<1> QED BY <1>2, <1>3, <1>4

LEMMA AppendedAtRobot ==
    ASSUME TypeOK, NEW r \in Robot, NEW x \in TaskType,
           queue' = [queue EXCEPT ![r] = Append(@, x)], NEW d, d = x.dish
    PROVE  \E t \in AtRobot(d)' : queue'[t[1]][t[2]] = x
<1> DEFINE n == Len(queue[r]) + 1
<1>1. /\ DOMAIN queue'[r] = 1..n /\ queue'[r][n] = x
      /\ Len(queue[r]) \in Nat
  BY AppendFacts
<1>2. n \in DOMAIN queue'[r]
  BY <1>1
<1>3. <<r, n>> \in AtRobot(d)'
  BY <1>1, <1>2, AtRobotMembers
<1> QED BY <1>1, <1>3

LEMMA StaysFlow ==
    ASSUME Tidy, Tidy', Stays \/ Turns
    PROVE  UNCHANGED <<Where, StepsDone>>
<1>1. ASSUME NEW d \in Dish
      PROVE  SameSpot(d)
  <2>1. \A p \in OnPlate(d)' : \E q \in OnPlate(d) :
           plates'[p].steps = plates[q].steps
    <3>1. CASE Stays
      BY <3>1, SamePlatesCount DEF Stays, SamePlates, OnPlate
    <3>2. CASE Turns
      <4>1. \A p \in OnPlate(d)' : \E q \in OnPlate(d) : plates'[p] = plates[q]
        BY <3>2, TurnCount DEF Turns, Tidy
      <4> QED BY <4>1
    <3> QED BY <3>1, <3>2
  <2> QED BY <2>1, SameAtRobot, SameCounts DEF SameSpot, Stays, Turns
<1>2. \A d \in Dish : Where'[d] = Where[d] /\ StepsDone'[d] = StepsDone[d]
  BY <1>1, SameSpotFlow
<1> HIDE DEF Where, StepsDone
<1> QED BY <1>2, FlowFunctions

LEMMA AssignedFlow ==
    ASSUME Tidy, Tidy', NEW d \in Dish, NEW r \in Robot, Assigned(d, r)
    PROVE  Flow!Assign(d)
<1> DEFINE x == [dish |-> d, steps |-> 0]
<1>1. x \in TaskType /\ x.dish = d /\ x.steps = 0
  BY DEF TaskType
<1>2. TypeOK /\ queue' = [queue EXCEPT ![r] = Append(@, x)]
  BY DEF Assigned, Tidy
<1> HIDE DEF x
<1>3. WhereFacts(d) /\ WhereFacts(d)'
  BY OnePlace, OnePlaceNext
<1>4. Where[d] = "ordered" /\ StepsDone[d] = 0
  BY <1>3 DEF WhereFacts, Assigned
<1>5. Where'[d] = "robot" /\ StepsDone'[d] = 0
  <2>1. PICK t \in AtRobot(d)' : queue'[t[1]][t[2]] = x
    BY <1>1, <1>2, AppendedAtRobot
  <2> QED BY <1>1, <1>3, <2>1 DEF WhereFacts
<1>6. ASSUME NEW e \in Dish \ {d}
      PROVE  SameSpot(e)
  <2>1. UNCHANGED <<plates, delivered>> /\ (e \in ordered' => e \in ordered)
    BY DEF Assigned
  <2>2. \A t \in AtRobot(e)' : \E u \in AtRobot(e) :
           queue'[t[1]][t[2]].steps = queue[u[1]][u[2]].steps
    <3>1. e # x.dish
      BY <1>1
    <3> QED BY <1>1, <1>2, <3>1, OthersAtRobot, ZenonT(60)
  <2> QED BY <2>1, <2>2, SameCounts DEF SameSpot
<1>7. Flow!Move(d, "ordered", "robot")
  BY <1>4, <1>5, <1>6, MoveFlow
<1>8. StepsDone' = [StepsDone EXCEPT ![d] = StepsDone'[d]]
  BY <1>4, <1>5, <1>6, MoveFlow
<1> HIDE DEF Where, StepsDone
<1>9. UNCHANGED StepsDone
  BY <1>4, <1>5, <1>8, FlowFunctions
<1> QED BY <1>7, <1>9 DEF Flow!Assign

LEMMA RetrievedFlow ==
    ASSUME Tidy, Tidy', ReadyHasDish, StepsInv, NEW r \in Robot, Retrieved(r)
    PROVE  \E d \in Dish : Flow!Retrieve(d)
<1>1. TypeOK /\ ready[r] /\ GiveAway(r) /\ PlaceDish(place[r], HandedOver(r))
  BY DEF Retrieved, Tidy
<1>2. PICK d \in Dish : d = queue[r][1].dish
  BY <1>1, TailFacts DEF TaskType
<1>3. HandedOver(r).dish = d /\ HandedOver(r).steps = queue[r][1].steps + 1
  BY <1>1, <1>2, HandedOverFits
<1>4. PICK p \in Position : p = place[r]
  BY <1>1, Positions DEF TypeOK, WorldTypes
<1>5. plates'[p].dish = d /\ plates'[p].steps = queue[r][1].steps + 1
      /\ \A q \in Position : q # p => plates'[q] = plates[q]
  <2>1. plates \in [Position -> PlateType]
    BY <1>1 DEF TypeOK, BeltTypes
  <2> QED BY <1>1, <1>3, <1>4, <2>1 DEF PlaceDish, PlateType
<1>6. WhereFacts(d) /\ WhereFacts(d)'
  BY OnePlace, OnePlaceNext
<1>7. Where[d] = "robot" /\ StepsDone[d] = queue[r][1].steps
  <2>1. <<r, 1>> \in AtRobot(d)
    BY <1>1, <1>2, TailFacts, AtRobotMembers
  <2> QED BY <1>6, <2>1 DEF WhereFacts
<1>8. Where'[d] = "belt" /\ StepsDone'[d] = StepsDone[d] + 1
  <2>1. p \in OnPlate(d)'
    BY <1>5 DEF OnPlate
  <2> QED BY <1>5, <1>6, <1>7, <2>1 DEF WhereFacts
<1>9. ASSUME NEW e \in Dish \ {d}
      PROVE  SameSpot(e)
  <2>1. UNCHANGED <<ordered, delivered>>
    BY DEF Retrieved
  <2>2. \A t \in AtRobot(e)' : \E u \in AtRobot(e) :
           queue'[t[1]][t[2]].steps = queue[u[1]][u[2]].steps
    <3>1. IsFiniteSet(AtRobot(e))
      BY DEF Tidy, KeptInv
    <3>2. \A t \in AtRobot(e)' : \E u \in AtRobot(e) :
             queue'[t[1]][t[2]] = queue[u[1]][u[2]]
      BY <1>1, <3>1, GivenAwayCount
    <3> QED BY <3>2
  <2>3. \A q \in OnPlate(e)' : q \in OnPlate(e) /\ plates'[q] = plates[q]
    BY <1>5 DEF OnPlate
  <2> QED BY <2>1, <2>2, <2>3, SameCounts DEF SameSpot
<1>10. StepsDone[d] < Visits[d]
  BY <1>1, <1>2, <1>7, TailFacts DEF StepsInv, TaskFits
<1>11. /\ Flow!Move(d, "robot", "belt")
       /\ StepsDone' = [StepsDone EXCEPT ![d] = StepsDone'[d]]
  BY <1>7, <1>8, <1>9, MoveFlow
<1> HIDE DEF Where, StepsDone
<1>12. StepsDone' = [StepsDone EXCEPT ![d] = @ + 1]
  BY <1>8, <1>11
<1> QED BY <1>10, <1>11, <1>12 DEF Flow!Retrieve

LEMMA PassedFlow ==
    ASSUME Tidy, Tidy', StepsInv, NEW r \in Robot, NEW p \in Position,
           Passed(r, p)
    PROVE  \E d \in Dish : Flow!Pass(d)
<1> DEFINE x == [dish |-> plates[p].dish, steps |-> plates[p].steps]
<1>1. TypeOK /\ p \in Occupied /\ AtTarget(plates[p], p) /\ reset_plate(p)
  BY DEF Passed, Tidy
<1>2. PICK d \in Dish : d = plates[p].dish
  BY <1>1, PlatesType
<1>3. x \in TaskType /\ x.dish = d /\ x.steps = plates[p].steps
  BY <1>2, <1>1, PlatesType DEF TaskType, PlateType
<1>4. queue' = [queue EXCEPT ![r] = Append(@, x)]
  BY DEF Passed, GiveTask
<1> HIDE DEF x
<1>5. WhereFacts(d) /\ WhereFacts(d)'
  BY OnePlace, OnePlaceNext
<1>6. Where[d] = "belt" /\ StepsDone[d] = plates[p].steps
  BY <1>2, <1>5 DEF WhereFacts, OnPlate
<1>7. Where'[d] = "robot" /\ StepsDone'[d] = plates[p].steps
  <2>1. PICK t \in AtRobot(d)' : queue'[t[1]][t[2]] = x
    BY <1>1, <1>3, <1>4, AppendedAtRobot
  <2> QED BY <1>3, <1>5, <2>1 DEF WhereFacts
<1>8. ASSUME NEW e \in Dish \ {d}
      PROVE  SameSpot(e)
  <2>1. UNCHANGED <<ordered, delivered>>
    BY DEF Passed
  <2>2. \A t \in AtRobot(e)' : \E u \in AtRobot(e) :
           queue'[t[1]][t[2]].steps = queue[u[1]][u[2]].steps
    <3>1. e # x.dish
      BY <1>3
    <3> QED BY <1>1, <1>3, <1>4, <3>1, OthersAtRobot, ZenonT(60)
  <2>3. \A q \in OnPlate(e)' : q \in OnPlate(e) /\ plates'[q] = plates[q]
    BY <1>1, ConveyorAssumption DEF OnPlate, reset_plate, EmptyPlate, TypeOK,
       BeltTypes
  <2> QED BY <2>1, <2>2, <2>3, SameCounts DEF SameSpot
<1>9. StepsDone[d] < Visits[d]
  <2>1. d # None
    BY ConveyorAssumption
  <2> QED BY <1>1, <1>2, <1>6, <2>1 DEF StepsInv, PlateFits, AtTarget
<1>10. /\ Flow!Move(d, "belt", "robot")
       /\ StepsDone' = [StepsDone EXCEPT ![d] = StepsDone'[d]]
  BY <1>6, <1>7, <1>8, MoveFlow
<1> HIDE DEF Where, StepsDone
<1>11. UNCHANGED StepsDone
  BY <1>6, <1>7, <1>10, FlowFunctions
<1> QED BY <1>9, <1>10, <1>11 DEF Flow!Pass

LEMMA ServedFlow ==
    ASSUME Tidy, Tidy', StepsInv, NEW p \in Position, Served(p)
    PROVE  \E d \in Dish : Flow!Deliver(d)
<1>1. TypeOK /\ p \in Occupied /\ AtOutput(plates[p], p) /\ reset_plate(p)
  BY DEF Served, Tidy
<1>2. PICK d \in Dish : d = plates[p].dish
  BY <1>1, PlatesType
<1>3. delivered' = Append(delivered, d)
  BY <1>2 DEF Served
<1>4. WhereFacts(d) /\ WhereFacts(d)'
  BY OnePlace, OnePlaceNext
<1>5. Where[d] = "belt" /\ StepsDone[d] = plates[p].steps
  BY <1>2, <1>4 DEF WhereFacts, OnPlate
<1>6. StepsDone[d] = Visits[d]
  <2>1. d # None
    BY ConveyorAssumption
  <2> QED BY <1>1, <1>2, <1>5, <2>1 DEF StepsInv, PlateFits, AtOutput
<1>7. Where'[d] = "kitchen" /\ StepsDone'[d] = Visits[d]
  BY <1>1, <1>3, <1>4, DeliveredCount DEF WhereFacts
<1>8. ASSUME NEW e \in Dish \ {d}
      PROVE  SameSpot(e)
  <2>1. UNCHANGED <<ordered, queue>>
    BY DEF Served
  <2>2. InKitchen(e)' = InKitchen(e)
    BY <1>1, <1>3, DeliveredCount
  <2>3. \A q \in OnPlate(e)' : q \in OnPlate(e) /\ plates'[q] = plates[q]
    BY <1>1, ConveyorAssumption DEF OnPlate, reset_plate, EmptyPlate, TypeOK,
       BeltTypes
  <2> QED BY <2>1, <2>2, <2>3, SameAtRobot DEF SameSpot
<1>9. /\ Flow!Move(d, "belt", "kitchen")
      /\ StepsDone' = [StepsDone EXCEPT ![d] = StepsDone'[d]]
  BY <1>5, <1>7, <1>8, MoveFlow
<1> HIDE DEF Where, StepsDone
<1>10. UNCHANGED StepsDone
  BY <1>6, <1>7, <1>9, FlowFunctions
<1> QED BY <1>6, <1>9, <1>10 DEF Flow!Deliver

FlowInv == ConveyorInv /\ StepsInv /\ KeptInv /\ FindInv

LEMMA FlowStep ==
    ASSUME FlowInv, FlowInv', [Next]_vars, faults' = 0
    PROVE  [Flow!Next]_(Flow!flowVars)
<1>1. faults = 0 /\ Regular
  <2>1. faults \in Nat
    BY DEF FlowInv, ConveyorInv, TypeOK, ControlTypes
  <2>2. DishStep
    BY NextIsDishStep DEF FlowInv
  <2> QED BY <2>1, <2>2 DEF DishStep
<1>2. Tidy /\ Tidy'
  BY <1>1 DEF FlowInv, ConveyorInv, FindInv, FindParts, Tidy
<1>3. ReadyHasDish /\ StepsInv
  BY DEF FlowInv, ConveyorInv
<1>4. CASE Stays \/ Turns
  BY <1>2, <1>4, StaysFlow DEF Flow!flowVars
<1>5. ASSUME NEW d \in Dish, NEW r \in Robot, Assigned(d, r)
      PROVE  Flow!Next
  BY <1>2, <1>5, AssignedFlow DEF Flow!Next
<1>6. ASSUME NEW r \in Robot, Retrieved(r)
      PROVE  Flow!Next
  BY <1>2, <1>3, <1>6, RetrievedFlow DEF Flow!Next
<1>7. ASSUME NEW r \in Robot, NEW p \in Position, Passed(r, p)
      PROVE  Flow!Next
  BY <1>2, <1>3, <1>7, PassedFlow DEF Flow!Next
<1>8. ASSUME NEW p \in Position, Served(p)
      PROVE  Flow!Next
  BY <1>2, <1>3, <1>8, ServedFlow DEF Flow!Next
<1> QED BY <1>1, <1>4, <1>5, <1>6, <1>7, <1>8 DEF Regular

LEMMA FlowInit == Init => Flow!Init
<1> SUFFICES ASSUME Init PROVE Flow!Init
  OBVIOUS
<1>1. ordered = Dish
  BY DEF Init
<1> QED BY <1>1 DEF Flow!Init, Where, StepsDone

(* As long as nothing fails, conveyor, robots and kitchen implement the way *)
(* of the dishes that README.md:18-23 describes: assigned, taken from its   *)
(* robot, passed on while steps remain, delivered once when none does.      *)
THEOREM ImplementsDishFlow == Spec => DishesFlow
<1>1. Init => Flow!Init
  BY FlowInit
<1>2. FlowInv /\ FlowInv' /\ [Next]_vars
        => [faults' = 0 => \/ UNCHANGED <<plates, queue, ordered, delivered>>
                           \/ [Flow!Next]_(Flow!flowVars)]_vars
  BY FlowStep
<1>3. Spec => []FlowInv
  BY Invariance, StepsInvariance, KeptInvariance, FindInvariance, PTL DEF FlowInv
<1> QED BY <1>1, <1>2, <1>3, PTL DEF Spec, DishesFlow

==============================================================================
