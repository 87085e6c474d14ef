----------------------------- MODULE RobotProofs -----------------------------
(***************************************************************************)
(* Theorems about Robot, for every recipe book, every number of tasks,     *)
(* adaptations and faults.  The inductive invariant RobotInv says, besides *)
(* the types, which flag stands for which driver of the robot (Phases),    *)
(* that a posted request is handled before the completion of what it       *)
(* started (Requests), and what is at hand while a dish is prepared.       *)
(***************************************************************************)
EXTENDS Robot, WellFoundedInduction, TLAPS

Pending(op) == timer = op \/ Queued(op)

(* The worker announces a dish, or has killed the process over it.          *)
Notifying ==
    worker \in {"notify", "calling", "answered", "waiting", "killed"}

(* A dish is on its way: cooked, announced, waiting or being handed over.   *)
DishUnderWay ==
    \/ Pending("retool") \/ Pending("pass_time")
    \/ Notifying \/ pending_pickup \/ server = "replying"

Phases ==
    /\ DishUnderWay \/ Queued("cook_next_order") => preparing_dish
    /\ worker = "cook" => ~ DishUnderWay /\ ~ Queued("cook_next_order")
    /\ already_rearranging => robot_state = "REARRANGING"
    /\ already_reconfiguring => robot_state = "RECONFIGURING"
    /\ Pending("move_to_new_position")
         => already_rearranging /\ ~ commit_pending
    /\ commit_pending => already_rearranging
    /\ Queued("new_position_commit") => commit_pending /\ commit_sent
    /\ Pending("complete_reconfiguration")
         => already_reconfiguring /\ state_lock = "free"
    /\ worker = "recompute" => already_reconfiguring /\ state_lock = "worker"
    /\ state_lock = "worker"
         => worker \in {"recompute", "cook"} /\ robot_state = "RECONFIGURING"

(* io_context_ is a FIFO: what a request brings is there before the timer   *)
(* it starts, or somebody else started for it, completes.                   *)
RequestFirst ==
    \A i, j \in DOMAIN io :
        \/ io[i].op = "switch_position" /\ io[j].op = "move_to_new_position"
        \/ /\ io[i].op = "handle_reconfiguration"
           /\ io[j].op = "complete_reconfiguration"
        => i < j

Requests ==
    /\ RequestFirst
    /\ Queued("switch_position")
         => robot_state = "REARRANGING" /\ ~ commit_pending
    /\ Queued("handle_reconfiguration")
         => robot_state = "RECONFIGURING" /\ state_lock = "free"
    /\ robot_state = "REARRANGING" /\ ~ commit_pending
         => new_target_position # 0 \/ Queued("switch_position")
    /\ robot_state = "RECONFIGURING" /\ state_lock = "free"
         => new_profile \in Profile

AtHand ==
    /\ DishUnderWay => dish.recipe_id \in Recipe
    /\ dish # NoDish => DishUnderWay
    /\ Pending("retool") \/ Pending("pass_time")
         => action_queue_in_process # <<>>
    /\ Pending("pass_time") => duration_left > 0

RobotInv ==
    TypeOK /\ running /\ SingleDriver /\ Phases /\ Requests /\ AtHand

------------------------------------------------------------------------------
(* The three things a step does with io_context_.                           *)

HandlerOp == PlainOp \cup {"receive_task", "switch_position"}

LEMMA HandlerOps == \A h \in Handler : h.op \in HandlerOp
  BY DEF Handler, HandlerOp, PlainOp, TimedOp

(* A queue that stays has the same handlers in the same order.              *)
LEMMA SameQueue ==
    ASSUME UNCHANGED io
    PROVE  /\ \A op \in HandlerOp : Queued(op)' <=> Queued(op)
           /\ OneQueuedDriver => OneQueuedDriver'
           /\ RequestFirst => RequestFirst'
  BY DEF Queued, OneQueuedDriver, RequestFirst

(* Posting: the new handler comes last.                                     *)
LEMMA PostFacts ==
    ASSUME io \in Seq(Handler), NEW h \in Handler, Post(h)
    PROVE  /\ io' \in Seq(Handler)
           /\ \A op \in HandlerOp : Queued(op)' <=> Queued(op) \/ h.op = op
           /\ OneQueuedDriver
                /\ (h.op \in DrivingOp => \A op \in DrivingOp : ~ Queued(op))
              => OneQueuedDriver'
           /\ RequestFirst
                /\ (h.op = "switch_position"
                      => ~ Queued("move_to_new_position"))
                /\ (h.op = "handle_reconfiguration"
                      => ~ Queued("complete_reconfiguration"))
              => RequestFirst'
<1>1. /\ io' \in Seq(Handler)
      /\ DOMAIN io = 1..Len(io) /\ Len(io) \in Nat
      /\ DOMAIN io' = 1..(Len(io) + 1)
      /\ \A i \in 1..Len(io) : io'[i] = io[i]
      /\ io'[Len(io) + 1] = h
  BY DEF Post
<1>2. \A op \in HandlerOp : Queued(op)' <=> Queued(op) \/ h.op = op
  BY <1>1 DEF Queued
<1>3. ASSUME OneQueuedDriver,
             h.op \in DrivingOp => \A op \in DrivingOp : ~ Queued(op)
      PROVE  OneQueuedDriver'
  BY <1>1, <1>3 DEF OneQueuedDriver, Queued
<1>4. ASSUME RequestFirst,
             h.op = "switch_position" => ~ Queued("move_to_new_position"),
             h.op = "handle_reconfiguration"
               => ~ Queued("complete_reconfiguration")
      PROVE  RequestFirst'
  BY <1>1, <1>4 DEF RequestFirst, Queued
<1> QED BY <1>1, <1>2, <1>3, <1>4

(* Taking: the first handler goes, the others move up.                      *)
LEMMA TakeFacts ==
    ASSUME io \in Seq(Handler), NEW o \in HandlerOp, Take(o)
    PROVE  /\ io' \in Seq(Handler) /\ Queued(o)
           /\ Head(io) \in Handler /\ Head(io).op = o
           /\ \A op \in HandlerOp : Queued(op)' => Queued(op)
           /\ \A op \in HandlerOp \ {o} : Queued(op) => Queued(op)'
           /\ OneQueuedDriver => OneQueuedDriver'
           /\ OneQueuedDriver /\ o \in DrivingOp
                => \A op \in DrivingOp : ~ Queued(op)'
           /\ RequestFirst => RequestFirst'
           /\ RequestFirst /\ o = "move_to_new_position"
                => ~ Queued("switch_position")
           /\ RequestFirst /\ o = "complete_reconfiguration"
                => ~ Queued("handle_reconfiguration")
<1>1. /\ io' \in Seq(Handler)
      /\ DOMAIN io = 1..Len(io) /\ Len(io) \in Nat \ {0}
      /\ DOMAIN io' = 1..(Len(io) - 1)
      /\ \A i \in 1..(Len(io) - 1) : io'[i] = io[i + 1]
      /\ io[1] \in Handler /\ Head(io) = io[1] /\ io[1].op = o
  BY DEF Take
<1>2. Queued(o)
  BY <1>1 DEF Queued
<1>8. ASSUME NEW op \in HandlerOp, Queued(op)'
      PROVE  Queued(op)
  <2>1. PICK i \in 1..(Len(io) - 1) : io'[i].op = op
    BY <1>8, <1>1 DEF Queued
  <2>2. i + 1 \in DOMAIN io /\ io[i + 1].op = op
    BY <2>1, <1>1
  <2> QED BY <2>2 DEF Queued
<1>3. ASSUME NEW op \in HandlerOp \ {o}, Queued(op)
      PROVE  Queued(op)'
  <2>1. PICK i \in DOMAIN io : io[i].op = op
    BY <1>3 DEF Queued
  <2>2. i # 1
    BY <2>1, <1>1
  <2>3. i - 1 \in 1..(Len(io) - 1) /\ (i - 1) + 1 = i
    BY <2>1, <2>2, <1>1
  <2>4. i - 1 \in DOMAIN io' /\ io'[i - 1].op = op
    BY <2>1, <2>3, <1>1
  <2> QED BY <2>4 DEF Queued
<1>4. ASSUME OneQueuedDriver
      PROVE  OneQueuedDriver'
  <2>1. ASSUME NEW i \in DOMAIN io', NEW j \in DOMAIN io',
               io'[i].op \in DrivingOp, io'[j].op \in DrivingOp
        PROVE  i = j
    <3>1. /\ i \in Nat /\ i + 1 \in DOMAIN io /\ io[i + 1].op \in DrivingOp
          /\ j \in Nat /\ j + 1 \in DOMAIN io /\ io[j + 1].op \in DrivingOp
      BY <2>1, <1>1
    <3>2. i + 1 = j + 1
      BY <3>1, <1>4 DEF OneQueuedDriver
    <3> QED BY <3>1, <3>2
  <2> QED BY <2>1 DEF OneQueuedDriver, DrivingOp
<1>5. ASSUME OneQueuedDriver, o \in DrivingOp, NEW op \in DrivingOp, Queued(op)'
      PROVE  FALSE
  <2>1. PICK i \in DOMAIN io' : io'[i].op = op
    BY <1>5 DEF Queued
  <2>2. i + 1 \in DOMAIN io /\ io[i + 1].op = op
    BY <2>1, <1>1
  <2> QED BY <2>2, <1>1, <1>5 DEF OneQueuedDriver
<1>6. RequestFirst => RequestFirst'
  BY <1>1, SMTT(60) DEF RequestFirst
<1>7. /\ RequestFirst /\ o = "move_to_new_position"
           => ~ Queued("switch_position")
      /\ RequestFirst /\ o = "complete_reconfiguration"
           => ~ Queued("handle_reconfiguration")
  BY <1>1 DEF RequestFirst, Queued
<1> QED BY <1>1, <1>2, <1>3, <1>4, <1>5, <1>6, <1>7, <1>8

------------------------------------------------------------------------------
(* The least number principle, from the well-foundedness of the naturals,   *)
(* which is stated of sets: induction as the library states it takes an     *)
(* operator.                                                                *)

(* Some well-founded relation on the naturals contains their order.         *)
LEMMA LessThan ==
    \E R : /\ IsWellFoundedOn(R, Nat)
          /\ \A m, n \in Nat : m < n => <<m, n>> \in R
<1>1. IsWellFoundedOn(OpToRel(<, Nat), Nat)
  BY NatLessThanWellFounded
<1>2. \A m, n \in Nat : m < n => <<m, n>> \in OpToRel(<, Nat)
  BY DEF OpToRel
<1> QED BY <1>1, <1>2, Zenon

(* Every nonempty set of naturals has a least member.                       *)
LEMMA LeastNumber ==
    ASSUME NEW T, T \subseteq Nat, T # {}
    PROVE  \E n \in T : \A m \in T : n <= m
<1>1. PICK R : /\ IsWellFoundedOn(R, Nat)
               /\ \A m, n \in Nat : m < n => <<m, n>> \in R
  BY LessThan, Zenon
<1>2. \E n \in T : \A m \in T : ~ (<<m, n>> \in R)
  <2>1. IsWellFoundedOn(R, Nat)
    BY <1>1
  <2>2. T \subseteq Nat
    OBVIOUS
  <2>3. T # {}
    OBVIOUS
  <2> HIDE <1>1
  <2> QED BY <2>1, <2>2, <2>3, WFMin, ZenonT(60)
<1>3. PICK n \in T : \A m \in T : ~ (<<m, n>> \in R)
  BY <1>2, Zenon
<1>4. \A m \in T : ~ (m < n)
  BY <1>1, <1>3, Zenon
<1>5. \A m \in T : n <= m
  BY <1>4
<1> QED BY <1>5

------------------------------------------------------------------------------
(* What the operators on recipes return.                                    *)

LEMMA RemainingType ==
    ASSUME NEW r \in Recipe, NEW s \in Nat
    PROVE  Remaining(r, s) \in Seq(Instruction)
<1>1. Instructions[r] \in Seq(Instruction)
  BY RecipesAssumption DEF Instruction
<1> QED BY <1>1 DEF Remaining

(* The loop over the action queue stops where it should, and only there.    *)
LEMMA ProcessableStepsExact ==
    ASSUME NEW q, NEW acts \in Seq(Instruction)
    PROVE  LET n == ProcessableSteps(q, acts)
           IN  /\ n \in 0..Len(acts)
               /\ \A i \in 1..n : IsCapableTo(q, acts[i])
               /\ n < Len(acts) => ~ IsCapableTo(q, acts[n + 1])
<1> DEFINE Stop == {n \in 0..Len(acts) :
                      n = Len(acts) \/ ~ IsCapableTo(q, acts[n + 1])}
<1>1. Len(acts) \in Nat
  OBVIOUS
<1>2. Stop \subseteq Nat /\ Stop # {}
  BY <1>1
<1>3. PICK n \in Stop : \A m \in Stop : n <= m
  <2>1. Stop \subseteq Nat
    BY <1>2
  <2>2. Stop # {}
    BY <1>2
  <2> HIDE DEF Stop
  <2> QED BY <2>1, <2>2, LeastNumber
<1>4. n \in 0..Len(acts) /\ (n < Len(acts) => ~ IsCapableTo(q, acts[n + 1]))
  BY <1>1
<1>5. \A m \in Stop : ~ (m < n)
  BY <1>2, <1>3
<1>6. ASSUME NEW i \in 1..n, ~ IsCapableTo(q, acts[i])
      PROVE  FALSE
  <2>1. i - 1 \in 0..Len(acts) /\ (i - 1) + 1 = i /\ i - 1 < n
    BY <1>1, <1>4
  <2> QED BY <2>1, <1>5, <1>6
<1>7. \E k \in 0..Len(acts) :
         /\ \A i \in 1..k : IsCapableTo(q, acts[i])
         /\ k < Len(acts) => ~ IsCapableTo(q, acts[k + 1])
  BY <1>4, <1>6
<1> QED BY <1>7 DEF ProcessableSteps

LEMMA ProcessableType ==
    ASSUME NEW q, NEW acts \in Seq(Instruction)
    PROVE  Processable(q, acts) \in Seq(Instruction)
<1>1. Len(acts) \in Nat /\ ProcessableSteps(q, acts) \in 0..Len(acts)
  BY ProcessableStepsExact
<1> QED BY <1>1 DEF Processable

LEMMA ToolAfterType ==
    ASSUME NEW tool \in Tool, NEW acts \in Seq(Instruction)
    PROVE  ToolAfter(tool, acts) \in Tool
<1>1. CASE acts = <<>>
  BY <1>1 DEF ToolAfter
<1>2. CASE acts # <<>>
  <2>1. acts[Len(acts)] \in Instruction
    BY <1>2
  <2>2. RequiredTool(acts[Len(acts)]) \in Tool
    BY <2>1, RecipesAssumption DEF RequiredTool, Instruction
  <2> QED BY <1>2, <2>2 DEF ToolAfter
<1> QED BY <1>1, <1>2

LEMMA DistanceType ==
    ASSUME NEW from \in 0..(ConveyorSize - 1), NEW to \in 0..(ConveyorSize - 1)
    PROVE  Distance(from, to) \in Nat
<1>1. /\ (to - from + ConveyorSize) % ConveyorSize \in Nat
      /\ (from - to + ConveyorSize) % ConveyorSize \in Nat
  BY RobotAssumption
<1> QED BY <1>1 DEF Distance

(* A move the robot may start covers a distance.                            *)
LEMMA TravelType ==
    ASSUME TypeOK, NEW target \in RobotPosition \cup {0},
           StartRearranging(target)
    PROVE  travel' \in Nat
<1>1. /\ position \in 0..(ConveyorSize - 1) /\ target \in 0..(ConveyorSize - 1)
      /\ travel \in Nat
  BY RobotAssumption DEF TypeOK, DataTypes, RobotPosition
<1>2. Distance(position, target) \in Nat
  BY <1>1, DistanceType
<1>3. CASE already_rearranging
  BY <1>1, <1>3 DEF StartRearranging
<1>4. CASE ~ already_rearranging
  BY <1>2, <1>4 DEF StartRearranging
<1> QED BY <1>3, <1>4

LEMMA EnqueueOrderType ==
    ASSUME TypeOK, NEW r \in Recipe, NEW s \in Nat, EnqueueOrder(r, s)
    PROVE  order_queue' \in Seq(Order) /\ last_tool' \in Tool
<1> DEFINE todo == Processable(profile, Remaining(r, s))
<1>1. todo \in Seq(Instruction) /\ Len(todo) \in Nat
  BY RemainingType, ProcessableType
<1>2. last_tool' \in Tool
  BY <1>1, ToolAfterType DEF EnqueueOrder, TypeOK, DataTypes
<1>3. [recipe_id |-> r, steps |-> s, processable |-> Len(todo)] \in Order
  BY <1>1 DEF Order
<1>4. order_queue \in Seq(Order)
  BY DEF TypeOK, DataTypes
<1>5. order_queue' \in Seq(Order)
  BY <1>3, <1>4 DEF EnqueueOrder
<1> QED BY <1>2, <1>5

LEMMA FirstInstruction ==
    ASSUME NEW acts \in Seq(Instruction), acts # <<>>
    PROVE  /\ acts[1].duration \in Nat \ {0}
           /\ RequiredTool(acts[1]) \in Tool
           /\ Tail(acts) \in Seq(Instruction)
<1>1. acts[1] \in Instruction /\ Tail(acts) \in Seq(Instruction)
  OBVIOUS
<1> QED BY <1>1, RecipesAssumption DEF Instruction, RequiredTool

(* A robot whose timer is free ends determine_next_action announcing the    *)
(* dish, retooling or in an action that takes time.                         *)
LEMMA NextActionFacts ==
    ASSUME NEW acts \in Seq(Instruction), NEW tool, NEW left \in Nat,
           DetermineNextAction(acts, tool, left),
           running, timer = "none", is_dish_finished \in BOOLEAN
    PROVE  /\ running'
           /\ duration_left' \in Nat
           /\ is_dish_finished' \in BOOLEAN
           /\ \/ timer' = "none" /\ worker' = "notify"
              \/ timer' = "retool" /\ worker' = "idle" /\ acts # <<>>
              \/ /\ timer' = "pass_time" /\ worker' = "idle"
                 /\ acts # <<>> /\ duration_left' > 0
<1>1. CASE acts = <<>> \/ ReportsPartialDish(acts)
  BY <1>1 DEF DetermineNextAction
<1>2. CASE ~ (acts = <<>> \/ ReportsPartialDish(acts))
  <2>1. acts # <<>> /\ acts[1].duration \in Nat \ {0}
    BY <1>2, FirstInstruction
  <2>2. running' /\ is_dish_finished' \in BOOLEAN /\ worker' = "idle"
    BY <1>2 DEF DetermineNextAction, Arm
  <2>3. \/ timer' = "retool" /\ duration_left' = left
        \/ timer' = "pass_time" /\ duration_left' = acts[1].duration
    BY <1>2 DEF DetermineNextAction, Arm
  <2> QED BY <2>1, <2>2, <2>3
<1> QED BY <1>1, <1>2

------------------------------------------------------------------------------
(* Every step preserves RobotInv: what it does to the queue (<1>1), then    *)
(* the types, the drivers, and the three other parts in turn.               *)

LEMMA ReceiveTaskKeeps ==
    ASSUME RobotInv,
           NEW r \in Recipe,
           NEW p \in RobotPosition,
           NEW s \in 0..(Len(Instructions[r]) - 1),
           ReceiveTask(r, s, p)
    PROVE  RobotInv'
<1> USE DEF RobotInv
<1>0. TaskHandler(r, s) \in Handler /\ Post(TaskHandler(r, s))
  BY RecipesAssumption DEF ReceiveTask, ServerFree, Accepts, TaskHandler,
         Handler, PlainOp, TimedOp, TypeOK, FlagTypes, ControlTypes, DataTypes
<1>1. /\ io' \in Seq(Handler)
      /\ \A op \in HandlerOp :
            Queued(op)' <=> Queued(op) \/ TaskHandler(r, s).op = op
      /\ OneQueuedDriver' /\ RequestFirst'
  BY <1>0, PostFacts DEF TypeOK, FlagTypes, ControlTypes, DataTypes,
         SingleDriver, Driver, Drives, Requests, Phases, ReceiveTask,
         ServerFree, Accepts, TaskHandler, adaptVars, placeVars, orderVars,
         dishVars, linkVars, callVars, DrivingOp, HandlerOp, PlainOp, TimedOp
<1>1a. s \in Nat
  BY RecipesAssumption
<1>2. TypeOK'
  BY <1>1, <1>1a DEF TypeOK, FlagTypes, ControlTypes, DataTypes, ReceiveTask,
         ServerFree, Accepts, TaskHandler, adaptVars, placeVars, orderVars,
         dishVars, linkVars, callVars, Task
<1>3. running' /\ SingleDriver'
  BY <1>1 DEF SingleDriver, Driver, Drives, TypeOK, FlagTypes, ControlTypes,
         DataTypes, Phases, ReceiveTask, ServerFree, Accepts, TaskHandler,
         adaptVars, placeVars, orderVars, dishVars, linkVars, callVars,
         DrivingOp, HandlerOp, PlainOp, TimedOp
<1>4. Phases'
  BY <1>1 DEF Phases, DishUnderWay, Pending, Notifying, SingleDriver, Driver,
         Drives, TypeOK, FlagTypes, ControlTypes, DataTypes, Requests,
         ReceiveTask, ServerFree, Accepts, TaskHandler, adaptVars, placeVars,
         orderVars, dishVars, linkVars, callVars, DrivingOp, HandlerOp,
         PlainOp, TimedOp
<1>5. Requests'
  BY <1>1 DEF Requests, Phases, DishUnderWay, Pending, TypeOK, FlagTypes,
         ControlTypes, DataTypes, ReceiveTask, ServerFree, Accepts,
         TaskHandler, adaptVars, placeVars, orderVars, dishVars, linkVars,
         callVars, HandlerOp, PlainOp, TimedOp, DrivingOp
<1>6. AtHand'
  BY <1>1 DEF AtHand, Phases, DishUnderWay, Pending, Notifying, TypeOK,
         FlagTypes, ControlTypes, DataTypes, ReceiveTask, ServerFree, Accepts,
         TaskHandler, adaptVars, placeVars, orderVars, dishVars, linkVars,
         callVars, HandlerOp, PlainOp, TimedOp, DrivingOp
<1> QED BY <1>2, <1>3, <1>4, <1>5, <1>6

LEMMA SwitchPositionKeeps ==
    ASSUME RobotInv, NEW p \in RobotPosition, SwitchPosition(p)
    PROVE  RobotInv'
<1> USE DEF RobotInv
<1>0. SwitchHandler(p) \in Handler /\ Post(SwitchHandler(p))
  BY RecipesAssumption DEF SwitchPosition, ServerFree, SwitchHandler, Handler,
         PlainOp, TimedOp, TypeOK, FlagTypes, ControlTypes, DataTypes
<1>1. /\ io' \in Seq(Handler)
      /\ \A op \in HandlerOp :
            Queued(op)' <=> Queued(op) \/ SwitchHandler(p).op = op
      /\ OneQueuedDriver' /\ RequestFirst'
  BY <1>0, PostFacts DEF TypeOK, FlagTypes, ControlTypes, DataTypes,
         SingleDriver, Driver, Drives, Requests, Phases, SwitchPosition,
         ServerFree, SwitchHandler, placeVars, orderVars, dishVars, linkVars,
         histVars, DrivingOp, HandlerOp, PlainOp, TimedOp, Pending
<1>2. TypeOK'
  <2>1. FlagTypes'
    BY <1>1 DEF TypeOK, FlagTypes, SwitchPosition, ServerFree, SwitchHandler,
           placeVars, orderVars, dishVars, linkVars, histVars
  <2>2. ControlTypes'
    BY <1>1 DEF TypeOK, ControlTypes, SwitchPosition, ServerFree,
           SwitchHandler, placeVars, orderVars, dishVars, linkVars, histVars,
           TimedOp
  <2>3. DataTypes'
    BY <1>1 DEF TypeOK, DataTypes, SwitchPosition, ServerFree, SwitchHandler,
           placeVars, orderVars, dishVars, linkVars, histVars
  <2> QED BY <2>1, <2>2, <2>3 DEF TypeOK
<1>3. running' /\ SingleDriver'
  BY <1>1 DEF SingleDriver, Driver, Drives, TypeOK, FlagTypes, ControlTypes,
         DataTypes, Phases, SwitchPosition, ServerFree, SwitchHandler,
         placeVars, orderVars, dishVars, linkVars, histVars, DrivingOp,
         HandlerOp, PlainOp, TimedOp
<1>4. Phases'
  BY <1>1 DEF Phases, DishUnderWay, Pending, Notifying, SingleDriver, Driver,
         Drives, TypeOK, FlagTypes, ControlTypes, DataTypes, Requests,
         SwitchPosition, ServerFree, SwitchHandler, placeVars, orderVars,
         dishVars, linkVars, histVars, DrivingOp, HandlerOp, PlainOp, TimedOp
<1>5. Requests'
  BY <1>1 DEF Requests, Phases, DishUnderWay, Pending, TypeOK, FlagTypes,
         ControlTypes, DataTypes, SwitchPosition, ServerFree, SwitchHandler,
         placeVars, orderVars, dishVars, linkVars, histVars, HandlerOp,
         PlainOp, TimedOp, DrivingOp
<1>6. AtHand'
  BY <1>1 DEF AtHand, Phases, DishUnderWay, Pending, Notifying, TypeOK,
         FlagTypes, ControlTypes, DataTypes, SwitchPosition, ServerFree,
         SwitchHandler, placeVars, orderVars, dishVars, linkVars, histVars,
         HandlerOp, PlainOp, TimedOp, DrivingOp
<1> QED BY <1>2, <1>3, <1>4, <1>5, <1>6

LEMMA ReconfigureKeeps ==
    ASSUME RobotInv, NEW q \in Profile, Reconfigure(q)
    PROVE  RobotInv'
<1> USE DEF RobotInv
<1>0. Plain("handle_reconfiguration") \in Handler /\ Post(Plain("handle_reconfiguration"))
  BY RecipesAssumption DEF Reconfigure, ServerFree, Plain, Handler, PlainOp,
         TimedOp, TypeOK, FlagTypes, ControlTypes, DataTypes
<1>1. /\ io' \in Seq(Handler)
      /\ \A op \in HandlerOp :
            Queued(op)' <=> Queued(op) \/ Plain("handle_reconfiguration").op = op
      /\ OneQueuedDriver' /\ RequestFirst'
  BY <1>0, PostFacts DEF TypeOK, FlagTypes, ControlTypes, DataTypes,
         SingleDriver, Driver, Drives, Requests, Phases, Reconfigure,
         ServerFree, Plain, placeVars, orderVars, dishVars, linkVars,
         histVars, DrivingOp, HandlerOp, PlainOp, TimedOp, Pending
<1>2. TypeOK'
  BY <1>1 DEF TypeOK, FlagTypes, ControlTypes, DataTypes, Reconfigure,
         ServerFree, Plain, placeVars, orderVars, dishVars, linkVars, histVars
<1>3. running' /\ SingleDriver'
  BY <1>1 DEF SingleDriver, Driver, Drives, TypeOK, FlagTypes, ControlTypes,
         DataTypes, Phases, Reconfigure, ServerFree, Plain, placeVars,
         orderVars, dishVars, linkVars, histVars, DrivingOp, HandlerOp,
         PlainOp, TimedOp
<1>4. Phases'
  BY <1>1 DEF Phases, DishUnderWay, Pending, Notifying, SingleDriver, Driver,
         Drives, TypeOK, FlagTypes, ControlTypes, DataTypes, Requests,
         Reconfigure, ServerFree, Plain, placeVars, orderVars, dishVars,
         linkVars, histVars, DrivingOp, HandlerOp, PlainOp, TimedOp
<1>5. Requests'
  BY <1>1 DEF Requests, Phases, DishUnderWay, Pending, TypeOK, FlagTypes,
         ControlTypes, DataTypes, Reconfigure, ServerFree, Plain, placeVars,
         orderVars, dishVars, linkVars, histVars, HandlerOp, PlainOp, TimedOp,
         DrivingOp
<1>6. AtHand'
  BY <1>1 DEF AtHand, Phases, DishUnderWay, Pending, Notifying, TypeOK,
         FlagTypes, ControlTypes, DataTypes, Reconfigure, ServerFree, Plain,
         placeVars, orderVars, dishVars, linkVars, histVars, HandlerOp,
         PlainOp, TimedOp, DrivingOp
<1> QED BY <1>2, <1>3, <1>4, <1>5, <1>6

LEMMA CommitNewPositionKeeps ==
    ASSUME RobotInv, CommitNewPosition
    PROVE  RobotInv'
<1> USE DEF RobotInv
<1>0. Plain("new_position_commit") \in Handler /\ Post(Plain("new_position_commit"))
  BY RecipesAssumption DEF CommitNewPosition, ServerFree, CommitExpected,
         Plain, Handler, PlainOp, TimedOp, TypeOK, FlagTypes, ControlTypes,
         DataTypes
<1>1. /\ io' \in Seq(Handler)
      /\ \A op \in HandlerOp :
            Queued(op)' <=> Queued(op) \/ Plain("new_position_commit").op = op
      /\ OneQueuedDriver' /\ RequestFirst'
  BY <1>0, PostFacts DEF TypeOK, FlagTypes, ControlTypes, DataTypes,
         SingleDriver, Driver, Drives, Requests, Phases, CommitNewPosition,
         ServerFree, CommitExpected, Plain, adaptVars, placeVars, orderVars,
         dishVars, linkVars, histVars, DrivingOp, HandlerOp, PlainOp, TimedOp
<1> QED
  BY <1>1 DEF TypeOK, FlagTypes, ControlTypes, DataTypes, SingleDriver,
         Driver, Drives, Phases, Requests, AtHand, DishUnderWay, Pending,
         Notifying, CommitNewPosition, ServerFree, CommitExpected, Plain,
         adaptVars, placeVars, orderVars, dishVars, linkVars, histVars,
         DrivingOp, HandlerOp, PlainOp, TimedOp

LEMMA HandoverCallKeeps ==
    ASSUME RobotInv, NEW p \in RobotPosition, HandoverCall(p)
    PROVE  RobotInv'
<1> USE DEF RobotInv
<1>1. /\ \A op \in HandlerOp : Queued(op)' <=> Queued(op)
      /\ OneQueuedDriver' /\ RequestFirst'
  BY SameQueue DEF HandoverCall, SingleDriver, Requests
<1> QED
  BY <1>1 DEF TypeOK, FlagTypes, ControlTypes, DataTypes, SingleDriver,
         Driver, Drives, Phases, Requests, AtHand, DishUnderWay, Pending,
         Notifying, HandoverCall, adaptVars, placeVars, orderVars, dishVars,
         histVars, callVars, DrivingOp, HandlerOp, PlainOp, TimedOp

LEMMA HandoverStartKeeps ==
    ASSUME RobotInv, HandoverStart
    PROVE  RobotInv'
<1> USE DEF RobotInv
<1>1. /\ \A op \in HandlerOp : Queued(op)' <=> Queued(op)
      /\ OneQueuedDriver' /\ RequestFirst'
  BY SameQueue DEF HandoverStart, SingleDriver, Requests
<1>2. TypeOK'
  <2>1. FlagTypes'
    BY <1>1 DEF TypeOK, FlagTypes, HandoverStart, HandoverOutcome, adaptVars,
           placeVars, orderVars, dishVars, linkVars, histVars, callVars
  <2>2. ControlTypes'
    BY <1>1 DEF TypeOK, ControlTypes, HandoverStart, HandoverOutcome,
           adaptVars, placeVars, orderVars, dishVars, linkVars, histVars,
           callVars, TimedOp
  <2>3. DataTypes'
    BY <1>1 DEF TypeOK, DataTypes, HandoverStart, HandoverOutcome, adaptVars,
           placeVars, orderVars, dishVars, linkVars, histVars, callVars
  <2> QED BY <2>1, <2>2, <2>3 DEF TypeOK
<1>3. running' /\ SingleDriver'
  BY <1>1 DEF SingleDriver, Driver, Drives, TypeOK, FlagTypes, ControlTypes,
         DataTypes, Phases, HandoverStart, HandoverOutcome, adaptVars,
         placeVars, orderVars, dishVars, linkVars, histVars, callVars,
         DrivingOp, HandlerOp, PlainOp, TimedOp
<1>4. Phases'
  BY <1>1 DEF Phases, DishUnderWay, Pending, Notifying, SingleDriver, Driver,
         Drives, TypeOK, FlagTypes, ControlTypes, DataTypes, Requests,
         HandoverStart, HandoverOutcome, adaptVars, placeVars, orderVars,
         dishVars, linkVars, histVars, callVars, DrivingOp, HandlerOp,
         PlainOp, TimedOp
<1>5. Requests'
  BY <1>1 DEF Requests, Phases, DishUnderWay, Pending, TypeOK, FlagTypes,
         ControlTypes, DataTypes, HandoverStart, HandoverOutcome, adaptVars,
         placeVars, orderVars, dishVars, linkVars, histVars, callVars,
         HandlerOp, PlainOp, TimedOp, DrivingOp
<1>6. AtHand'
  BY <1>1 DEF AtHand, Phases, DishUnderWay, Pending, Notifying, TypeOK,
         FlagTypes, ControlTypes, DataTypes, HandoverStart, HandoverOutcome,
         adaptVars, placeVars, orderVars, dishVars, linkVars, histVars,
         callVars, HandlerOp, PlainOp, TimedOp, DrivingOp
<1> QED BY <1>2, <1>3, <1>4, <1>5, <1>6

LEMMA HandoverReplyKeeps ==
    ASSUME RobotInv, HandoverReply
    PROVE  RobotInv'
<1> USE DEF RobotInv
<1>0. Plain("cook_next_order") \in Handler /\ Post(Plain("cook_next_order"))
  BY RecipesAssumption DEF HandoverReply, Plain, Handler, PlainOp, TimedOp,
         TypeOK, FlagTypes, ControlTypes, DataTypes
<1>1. /\ io' \in Seq(Handler)
      /\ \A op \in HandlerOp :
            Queued(op)' <=> Queued(op) \/ Plain("cook_next_order").op = op
      /\ OneQueuedDriver' /\ RequestFirst'
  BY <1>0, PostFacts DEF TypeOK, FlagTypes, ControlTypes, DataTypes,
         SingleDriver, Driver, Drives, Requests, Phases, HandoverReply, Plain,
         adaptVars, placeVars, orderVars, linkVars, callVars, DrivingOp,
         HandlerOp, PlainOp, TimedOp
<1>1a. ~ DishUnderWay'
  BY <1>1 DEF DishUnderWay, Pending, Notifying, SingleDriver, Driver, Drives,
         HandoverReply, Plain, DrivingOp, HandlerOp, PlainOp, TimedOp
<1>2. TypeOK'
  <2>1. FlagTypes'
    BY <1>1 DEF TypeOK, FlagTypes, HandoverReply, Plain, adaptVars, placeVars,
           orderVars, linkVars, callVars, AtHand, DishUnderWay, NoDish,
           ControlTypes, DataTypes
  <2>2. ControlTypes'
    BY <1>1 DEF TypeOK, ControlTypes, HandoverReply, Plain, adaptVars,
           placeVars, orderVars, linkVars, callVars, AtHand, DishUnderWay,
           NoDish, TimedOp, FlagTypes, DataTypes
  <2>3. DataTypes'
    BY <1>1 DEF TypeOK, DataTypes, HandoverReply, Plain, adaptVars, placeVars,
           orderVars, linkVars, callVars, AtHand, DishUnderWay, NoDish,
           FlagTypes, ControlTypes
  <2> QED BY <2>1, <2>2, <2>3 DEF TypeOK
<1>3. running' /\ SingleDriver'
  BY <1>1 DEF SingleDriver, Driver, Drives, TypeOK, FlagTypes, ControlTypes,
         DataTypes, Phases, HandoverReply, Plain, adaptVars, placeVars,
         orderVars, linkVars, callVars, DrivingOp, HandlerOp, PlainOp, TimedOp
<1>4. Phases'
  BY <1>1 DEF Phases, DishUnderWay, Pending, Notifying, SingleDriver, Driver,
         Drives, TypeOK, FlagTypes, ControlTypes, DataTypes, Requests,
         HandoverReply, Plain, adaptVars, placeVars, orderVars, linkVars,
         callVars, DrivingOp, HandlerOp, PlainOp, TimedOp
<1>5. Requests'
  BY <1>1 DEF Requests, Phases, DishUnderWay, Pending, TypeOK, FlagTypes,
         ControlTypes, DataTypes, HandoverReply, Plain, adaptVars, placeVars,
         orderVars, linkVars, callVars, HandlerOp, PlainOp, TimedOp, DrivingOp
<1>6. AtHand'
  BY <1>1, <1>1a DEF AtHand, Phases, DishUnderWay, Pending, Notifying, TypeOK,
         FlagTypes, ControlTypes, DataTypes, HandoverReply, Plain, adaptVars,
         placeVars, orderVars, linkVars, callVars, HandlerOp, PlainOp,
         TimedOp, DrivingOp, SingleDriver, Driver, Drives, NoDish
<1> QED BY <1>2, <1>3, <1>4, <1>5, <1>6

LEMMA HandleReceiveTaskKeeps ==
    ASSUME RobotInv, HandleReceiveTask
    PROVE  RobotInv'
<1> USE DEF RobotInv
<1>0. "receive_task" \in HandlerOp /\ Take("receive_task")
  BY DEF HandleReceiveTask, HandlerOp, PlainOp, TimedOp
<1>1. /\ io' \in Seq(Handler) /\ Queued("receive_task")
      /\ Head(io) \in Handler /\ Head(io).op = "receive_task"
      /\ \A op \in HandlerOp : Queued(op)' => Queued(op)
      /\ \A op \in HandlerOp \ {"receive_task"} : Queued(op) => Queued(op)'
      /\ OneQueuedDriver' /\ RequestFirst'
  BY <1>0, TakeFacts DEF TypeOK, FlagTypes, ControlTypes, DataTypes,
         SingleDriver, Requests, DrivingOp, HandlerOp, PlainOp, TimedOp
<1>1a. order_queue' \in Seq(Order) /\ last_tool' \in Tool
  <2>1. Head(io).recipe_id \in Recipe /\ Head(io).steps \in Nat
    BY <1>1 DEF Handler, PlainOp, TimedOp
  <2> QED BY <2>1, EnqueueOrderType DEF HandleReceiveTask
<1>2. TypeOK'
  BY <1>1, <1>1a DEF TypeOK, FlagTypes, ControlTypes, DataTypes,
         HandleReceiveTask, adaptVars, placeVars, dishVars, linkVars,
         histVars, callVars, Take
<1>3. running' /\ SingleDriver'
  BY <1>1 DEF SingleDriver, Driver, Drives, TypeOK, FlagTypes, ControlTypes,
         DataTypes, Phases, HandleReceiveTask, adaptVars, placeVars, dishVars,
         linkVars, histVars, callVars, Take, DrivingOp, HandlerOp, PlainOp,
         TimedOp
<1>4. Phases'
  BY <1>1 DEF Phases, DishUnderWay, Pending, Notifying, SingleDriver, Driver,
         Drives, TypeOK, FlagTypes, ControlTypes, DataTypes, Requests,
         HandleReceiveTask, adaptVars, placeVars, dishVars, linkVars,
         histVars, callVars, Take, DrivingOp, HandlerOp, PlainOp, TimedOp
<1>5. Requests'
  BY <1>1 DEF Requests, Phases, DishUnderWay, Pending, TypeOK, FlagTypes,
         ControlTypes, DataTypes, HandleReceiveTask, adaptVars, placeVars,
         dishVars, linkVars, histVars, callVars, Take, HandlerOp, PlainOp,
         TimedOp, DrivingOp
<1>6. AtHand'
  BY <1>1 DEF AtHand, Phases, DishUnderWay, Pending, Notifying, TypeOK,
         FlagTypes, ControlTypes, DataTypes, HandleReceiveTask, adaptVars,
         placeVars, dishVars, linkVars, histVars, callVars, Take, HandlerOp,
         PlainOp, TimedOp, DrivingOp
<1> QED BY <1>2, <1>3, <1>4, <1>5, <1>6

LEMMA CookPostedKeeps ==
    ASSUME RobotInv, CookPosted
    PROVE  RobotInv'
<1> USE DEF RobotInv
<1>0. "cook_next_order" \in HandlerOp /\ Take("cook_next_order")
  BY DEF CookPosted, HandlerOp, PlainOp, TimedOp
<1>1. /\ io' \in Seq(Handler) /\ Queued("cook_next_order")
      /\ Head(io) \in Handler /\ Head(io).op = "cook_next_order"
      /\ \A op \in HandlerOp : Queued(op)' => Queued(op)
      /\ \A op \in HandlerOp \ {"cook_next_order"} : Queued(op) => Queued(op)'
      /\ OneQueuedDriver' /\ RequestFirst'
      /\ \A op \in DrivingOp : ~ Queued(op)'
  BY <1>0, TakeFacts DEF TypeOK, FlagTypes, ControlTypes, DataTypes,
         SingleDriver, Requests, DrivingOp, HandlerOp, PlainOp, TimedOp
<1> QED
  BY <1>1 DEF TypeOK, FlagTypes, ControlTypes, DataTypes, SingleDriver,
         Driver, Drives, Phases, Requests, AtHand, DishUnderWay, Pending,
         Notifying, CookPosted, adaptVars, placeVars, orderVars, dishVars,
         linkVars, histVars, callVars, Take, DrivingOp, HandlerOp, PlainOp,
         TimedOp

LEMMA CookRearrangesKeeps ==
    ASSUME RobotInv, CookRearranges
    PROVE  RobotInv'
<1> USE DEF RobotInv
<1>1. /\ \A op \in HandlerOp : Queued(op)' <=> Queued(op)
      /\ OneQueuedDriver' /\ RequestFirst'
  BY SameQueue DEF CookRearranges, SingleDriver, Requests
<1>1a. travel' \in Nat
  BY TravelType DEF CookRearranges, TypeOK, DataTypes
<1>2. TypeOK'
  <2>1. FlagTypes'
    BY <1>1, <1>1a DEF TypeOK, FlagTypes, CookRearranges, AtCook,
           StartRearranging, Arm, placeVars, orderVars, dishVars, linkVars,
           histVars, callVars
  <2>2. ControlTypes'
    BY <1>1, <1>1a DEF TypeOK, ControlTypes, CookRearranges, AtCook,
           StartRearranging, Arm, placeVars, orderVars, dishVars, linkVars,
           histVars, callVars, TimedOp
  <2>3. DataTypes'
    BY <1>1, <1>1a DEF TypeOK, DataTypes, CookRearranges, AtCook,
           StartRearranging, Arm, placeVars, orderVars, dishVars, linkVars,
           histVars, callVars
  <2> QED BY <2>1, <2>2, <2>3 DEF TypeOK
<1>3. running' /\ SingleDriver'
  BY <1>1, ZenonT(60) DEF SingleDriver, Driver, Drives, TypeOK, FlagTypes, ControlTypes,
         DataTypes, Phases, CookRearranges, AtCook, StartRearranging, Arm,
         placeVars, orderVars, dishVars, linkVars, histVars, callVars,
         DrivingOp, HandlerOp, PlainOp, TimedOp, Pending, DishUnderWay,
         Notifying, Requests, RequestFirst
<1>4. Phases'
  BY <1>1 DEF Phases, DishUnderWay, Pending, Notifying, SingleDriver, Driver,
         Drives, TypeOK, FlagTypes, ControlTypes, DataTypes, Requests,
         CookRearranges, AtCook, StartRearranging, Arm, placeVars, orderVars,
         dishVars, linkVars, histVars, callVars, DrivingOp, HandlerOp,
         PlainOp, TimedOp
<1>5. Requests'
  BY <1>1 DEF Requests, Phases, DishUnderWay, Pending, TypeOK, FlagTypes,
         ControlTypes, DataTypes, CookRearranges, AtCook, StartRearranging,
         Arm, placeVars, orderVars, dishVars, linkVars, histVars, callVars,
         HandlerOp, PlainOp, TimedOp, DrivingOp
<1>6. AtHand'
  BY <1>1 DEF AtHand, Phases, DishUnderWay, Pending, Notifying, TypeOK,
         FlagTypes, ControlTypes, DataTypes, CookRearranges, AtCook,
         StartRearranging, Arm, placeVars, orderVars, dishVars, linkVars,
         histVars, callVars, HandlerOp, PlainOp, TimedOp, DrivingOp
<1> QED BY <1>2, <1>3, <1>4, <1>5, <1>6

LEMMA CookReconfiguresKeeps ==
    ASSUME RobotInv, CookReconfigures
    PROVE  RobotInv'
<1> USE DEF RobotInv
<1>1. /\ \A op \in HandlerOp : Queued(op)' <=> Queued(op)
      /\ OneQueuedDriver' /\ RequestFirst'
  BY SameQueue DEF CookReconfigures, SingleDriver, Requests
<1>2. TypeOK'
  <2>1. FlagTypes'
    BY <1>1 DEF TypeOK, FlagTypes, CookReconfigures, AtCook,
           StartReconfiguration, Arm, placeVars, orderVars, dishVars,
           linkVars, histVars, callVars
  <2>2. ControlTypes'
    BY <1>1 DEF TypeOK, ControlTypes, CookReconfigures, AtCook,
           StartReconfiguration, Arm, placeVars, orderVars, dishVars,
           linkVars, histVars, callVars, TimedOp
  <2>3. DataTypes'
    BY <1>1 DEF TypeOK, DataTypes, CookReconfigures, AtCook,
           StartReconfiguration, Arm, placeVars, orderVars, dishVars,
           linkVars, histVars, callVars
  <2> QED BY <2>1, <2>2, <2>3 DEF TypeOK
<1>3. running' /\ SingleDriver'
  BY <1>1, ZenonT(60) DEF SingleDriver, Driver, Drives, TypeOK, FlagTypes, ControlTypes,
         DataTypes, Phases, CookReconfigures, AtCook, StartReconfiguration,
         Arm, placeVars, orderVars, dishVars, linkVars, histVars, callVars,
         DrivingOp, HandlerOp, PlainOp, TimedOp, Pending, DishUnderWay,
         Notifying, Requests, RequestFirst
<1>4. Phases'
  BY <1>1 DEF Phases, DishUnderWay, Pending, Notifying, SingleDriver, Driver,
         Drives, TypeOK, FlagTypes, ControlTypes, DataTypes, Requests,
         CookReconfigures, AtCook, StartReconfiguration, Arm, placeVars,
         orderVars, dishVars, linkVars, histVars, callVars, DrivingOp,
         HandlerOp, PlainOp, TimedOp
<1>5. Requests'
  BY <1>1 DEF Requests, Phases, DishUnderWay, Pending, TypeOK, FlagTypes,
         ControlTypes, DataTypes, CookReconfigures, AtCook,
         StartReconfiguration, Arm, placeVars, orderVars, dishVars, linkVars,
         histVars, callVars, HandlerOp, PlainOp, TimedOp, DrivingOp
<1>6. AtHand'
  BY <1>1 DEF AtHand, Phases, DishUnderWay, Pending, Notifying, TypeOK,
         FlagTypes, ControlTypes, DataTypes, CookReconfigures, AtCook,
         StartReconfiguration, Arm, placeVars, orderVars, dishVars, linkVars,
         histVars, callVars, HandlerOp, PlainOp, TimedOp, DrivingOp
<1> QED BY <1>2, <1>3, <1>4, <1>5, <1>6

LEMMA CookIdlesKeeps ==
    ASSUME RobotInv, CookIdles
    PROVE  RobotInv'
<1> USE DEF RobotInv
<1>1. /\ \A op \in HandlerOp : Queued(op)' <=> Queued(op)
      /\ OneQueuedDriver' /\ RequestFirst'
  BY SameQueue DEF CookIdles, SingleDriver, Requests
<1>2. TypeOK'
  <2>1. FlagTypes'
    BY <1>1 DEF TypeOK, FlagTypes, CookIdles, AtCook, adaptVars, placeVars,
           orderVars, linkVars, histVars, callVars
  <2>2. ControlTypes'
    BY <1>1 DEF TypeOK, ControlTypes, CookIdles, AtCook, adaptVars, placeVars,
           orderVars, linkVars, histVars, callVars, TimedOp
  <2>3. DataTypes'
    BY <1>1 DEF TypeOK, DataTypes, CookIdles, AtCook, adaptVars, placeVars,
           orderVars, linkVars, histVars, callVars
  <2> QED BY <2>1, <2>2, <2>3 DEF TypeOK
<1>3. running' /\ SingleDriver'
  BY <1>1 DEF SingleDriver, Driver, Drives, TypeOK, FlagTypes, ControlTypes,
         DataTypes, Phases, CookIdles, AtCook, adaptVars, placeVars,
         orderVars, linkVars, histVars, callVars, DrivingOp, HandlerOp,
         PlainOp, TimedOp
<1>4. Phases'
  BY <1>1 DEF Phases, DishUnderWay, Pending, Notifying, SingleDriver, Driver,
         Drives, TypeOK, FlagTypes, ControlTypes, DataTypes, Requests,
         CookIdles, AtCook, adaptVars, placeVars, orderVars, linkVars,
         histVars, callVars, DrivingOp, HandlerOp, PlainOp, TimedOp
<1>5. Requests'
  BY <1>1 DEF Requests, Phases, DishUnderWay, Pending, TypeOK, FlagTypes,
         ControlTypes, DataTypes, CookIdles, AtCook, adaptVars, placeVars,
         orderVars, linkVars, histVars, callVars, HandlerOp, PlainOp, TimedOp,
         DrivingOp
<1>6. AtHand'
  BY <1>1 DEF AtHand, Phases, DishUnderWay, Pending, Notifying, TypeOK,
         FlagTypes, ControlTypes, DataTypes, CookIdles, AtCook, adaptVars,
         placeVars, orderVars, linkVars, histVars, callVars, HandlerOp,
         PlainOp, TimedOp, DrivingOp
<1> QED BY <1>2, <1>3, <1>4, <1>5, <1>6

LEMMA CookStartsKeeps ==
    ASSUME RobotInv, CookStarts
    PROVE  RobotInv'
<1> USE DEF RobotInv
<1>1. /\ \A op \in HandlerOp : Queued(op)' <=> Queued(op)
      /\ OneQueuedDriver' /\ RequestFirst'
  BY SameQueue DEF CookStarts, SingleDriver, Requests
<1>1a. timer = "none"
  BY DEF CookStarts, AtCook, Phases, DishUnderWay, Pending, Notifying, TypeOK,
         ControlTypes, TimedOp
<1>1b. Head(order_queue) \in Order /\ order_queue' \in Seq(Order)
  BY DEF CookStarts, AtCook, TypeOK, DataTypes
<1>1c. /\ action_queue_in_process' \in Seq(Instruction)
       /\ dish' \in [recipe_id : Recipe, steps : Nat, processed : Nat,
                     processable : Nat]
  BY <1>1b, RemainingType DEF CookStarts, Order
<1>1d. /\ running' /\ duration_left' \in Nat
       /\ is_dish_finished' \in BOOLEAN
       /\ \/ timer' = "none" /\ worker' = "notify"
          \/ /\ timer' = "retool" /\ worker' = "idle"
             /\ action_queue_in_process' # <<>>
          \/ /\ timer' = "pass_time" /\ worker' = "idle"
             /\ action_queue_in_process' # <<>> /\ duration_left' > 0
  <2> DEFINE acts == Remaining(Head(order_queue).recipe_id,
                               Head(order_queue).steps)
  <2>1. /\ acts \in Seq(Instruction) /\ action_queue_in_process' = acts
        /\ DetermineNextAction(acts, current_tool, duration_left)
    BY <1>1b, RemainingType DEF CookStarts, Order
  <2>2. running /\ duration_left \in Nat /\ is_dish_finished \in BOOLEAN
    BY DEF TypeOK, FlagTypes, DataTypes
  <2> HIDE DEF acts
  <2> QED BY <1>1a, <2>1, <2>2, NextActionFacts
<1>2. TypeOK'
  <2>1. FlagTypes'
    BY <1>1, <1>1a, <1>1b, <1>1c, <1>1d DEF TypeOK, FlagTypes, CookStarts,
           AtCook, adaptVars, placeVars, linkVars, histVars, callVars
  <2>2. ControlTypes'
    BY <1>1, <1>1a, <1>1b, <1>1c, <1>1d DEF TypeOK, ControlTypes, CookStarts,
           AtCook, adaptVars, placeVars, linkVars, histVars, callVars, TimedOp
  <2>3. DataTypes'
    BY <1>1, <1>1a, <1>1b, <1>1c, <1>1d DEF TypeOK, DataTypes, CookStarts,
           AtCook, adaptVars, placeVars, linkVars, histVars, callVars
  <2> QED BY <2>1, <2>2, <2>3 DEF TypeOK
<1>3. running' /\ SingleDriver'
  BY <1>1, <1>1a, <1>1b, <1>1c, <1>1d DEF SingleDriver, Driver, Drives,
         TypeOK, FlagTypes, ControlTypes, DataTypes, Phases, CookStarts,
         AtCook, adaptVars, placeVars, linkVars, histVars, callVars,
         DrivingOp, HandlerOp, PlainOp, TimedOp, Pending, DishUnderWay,
         Notifying
<1>4. Phases'
  BY <1>1, <1>1a, <1>1b, <1>1c, <1>1d DEF Phases, DishUnderWay, Pending,
         Notifying, SingleDriver, Driver, Drives, TypeOK, FlagTypes,
         ControlTypes, DataTypes, Requests, CookStarts, AtCook, adaptVars,
         placeVars, linkVars, histVars, callVars, DrivingOp, HandlerOp,
         PlainOp, TimedOp
<1>5. Requests'
  BY <1>1, <1>1a, <1>1b, <1>1c, <1>1d DEF Requests, Phases, DishUnderWay,
         Pending, TypeOK, FlagTypes, ControlTypes, DataTypes, CookStarts,
         AtCook, adaptVars, placeVars, linkVars, histVars, callVars,
         HandlerOp, PlainOp, TimedOp, DrivingOp
<1>6. AtHand'
  BY <1>1, <1>1a, <1>1b, <1>1c, <1>1d DEF AtHand, Phases, DishUnderWay,
         Pending, Notifying, TypeOK, FlagTypes, ControlTypes, DataTypes,
         CookStarts, AtCook, adaptVars, placeVars, linkVars, histVars,
         callVars, HandlerOp, PlainOp, TimedOp, DrivingOp
<1> QED BY <1>2, <1>3, <1>4, <1>5, <1>6

LEMMA HandleSwitchRequestKeeps ==
    ASSUME RobotInv, HandleSwitchRequest
    PROVE  RobotInv'
<1> USE DEF RobotInv
<1>0. "switch_position" \in HandlerOp /\ Take("switch_position")
  BY DEF HandleSwitchRequest, HandlerOp, PlainOp, TimedOp
<1>1. /\ io' \in Seq(Handler) /\ Queued("switch_position")
      /\ Head(io) \in Handler /\ Head(io).op = "switch_position"
      /\ \A op \in HandlerOp : Queued(op)' => Queued(op)
      /\ \A op \in HandlerOp \ {"switch_position"} : Queued(op) => Queued(op)'
      /\ OneQueuedDriver' /\ RequestFirst'
  BY <1>0, TakeFacts DEF TypeOK, FlagTypes, ControlTypes, DataTypes,
         SingleDriver, Requests, DrivingOp, HandlerOp, PlainOp, TimedOp
<1>1a. new_target_position' \in RobotPosition /\ travel' \in Nat
  <2>1. new_target_position' \in RobotPosition
    BY <1>1 DEF HandleSwitchRequest, TargetOf, Handler, PlainOp, TimedOp
  <2>2. CASE WorkerBusy
    BY <2>1, <2>2 DEF HandleSwitchRequest, TypeOK, DataTypes
  <2>3. CASE ~ WorkerBusy
    <3>1. StartRearranging(new_target_position')
      BY <2>3 DEF HandleSwitchRequest
    <3> QED BY <2>1, <3>1, TravelType
  <2> QED BY <2>1, <2>2, <2>3
<1>2. TypeOK'
  <2>1. FlagTypes'
    BY <1>1, <1>1a DEF TypeOK, FlagTypes, HandleSwitchRequest, WorkerBusy,
           TargetOf, StartRearranging, Arm, placeVars, orderVars, dishVars,
           linkVars, histVars, callVars, Take
  <2>2. ControlTypes'
    BY <1>1, <1>1a DEF TypeOK, ControlTypes, HandleSwitchRequest, WorkerBusy,
           TargetOf, StartRearranging, Arm, placeVars, orderVars, dishVars,
           linkVars, histVars, callVars, Take, TimedOp
  <2>3. DataTypes'
    BY <1>1, <1>1a DEF TypeOK, DataTypes, HandleSwitchRequest, WorkerBusy,
           TargetOf, StartRearranging, Arm, placeVars, orderVars, dishVars,
           linkVars, histVars, callVars, Take
  <2> QED BY <2>1, <2>2, <2>3 DEF TypeOK
<1>3. running' /\ SingleDriver'
  BY <1>1, ZenonT(60) DEF SingleDriver, Driver, Drives, TypeOK, FlagTypes, ControlTypes,
         DataTypes, Phases, HandleSwitchRequest, WorkerBusy, TargetOf,
         StartRearranging, Arm, placeVars, orderVars, dishVars, linkVars,
         histVars, callVars, Take, DrivingOp, HandlerOp, PlainOp, TimedOp,
         Pending, DishUnderWay, Notifying, Requests, RequestFirst
<1>4. Phases'
  BY <1>1 DEF Phases, DishUnderWay, Pending, Notifying, SingleDriver, Driver,
         Drives, TypeOK, FlagTypes, ControlTypes, DataTypes, Requests,
         HandleSwitchRequest, WorkerBusy, TargetOf, StartRearranging, Arm,
         placeVars, orderVars, dishVars, linkVars, histVars, callVars, Take,
         DrivingOp, HandlerOp, PlainOp, TimedOp
<1>5. Requests'
  BY <1>1, <1>1a DEF Requests, Phases, DishUnderWay, Pending, TypeOK,
         FlagTypes, ControlTypes, DataTypes, HandleSwitchRequest, WorkerBusy,
         TargetOf, StartRearranging, Arm, placeVars, orderVars, dishVars,
         linkVars, histVars, callVars, Take, HandlerOp, PlainOp, TimedOp,
         DrivingOp, RobotPosition
<1>6. AtHand'
  BY <1>1 DEF AtHand, Phases, DishUnderWay, Pending, Notifying, TypeOK,
         FlagTypes, ControlTypes, DataTypes, HandleSwitchRequest, WorkerBusy,
         TargetOf, StartRearranging, Arm, placeVars, orderVars, dishVars,
         linkVars, histVars, callVars, Take, HandlerOp, PlainOp, TimedOp,
         DrivingOp
<1> QED BY <1>2, <1>3, <1>4, <1>5, <1>6

LEMMA HandleReconfigureRequestKeeps ==
    ASSUME RobotInv, HandleReconfigureRequest
    PROVE  RobotInv'
<1> USE DEF RobotInv
<1>0. "handle_reconfiguration" \in HandlerOp /\ Take("handle_reconfiguration")
  BY DEF HandleReconfigureRequest, HandlerOp, PlainOp, TimedOp
<1>1. /\ io' \in Seq(Handler) /\ Queued("handle_reconfiguration")
      /\ Head(io) \in Handler /\ Head(io).op = "handle_reconfiguration"
      /\ \A op \in HandlerOp : Queued(op)' => Queued(op)
      /\ \A op \in HandlerOp \ {"handle_reconfiguration"} : Queued(op) => Queued(op)'
      /\ OneQueuedDriver' /\ RequestFirst'
  BY <1>0, TakeFacts DEF TypeOK, FlagTypes, ControlTypes, DataTypes,
         SingleDriver, Requests, DrivingOp, HandlerOp, PlainOp, TimedOp
<1>2. TypeOK'
  <2>1. FlagTypes'
    BY <1>1 DEF TypeOK, FlagTypes, HandleReconfigureRequest, WorkerBusy,
           StartReconfiguration, Arm, placeVars, orderVars, dishVars,
           linkVars, histVars, callVars, Take
  <2>2. ControlTypes'
    BY <1>1 DEF TypeOK, ControlTypes, HandleReconfigureRequest, WorkerBusy,
           StartReconfiguration, Arm, placeVars, orderVars, dishVars,
           linkVars, histVars, callVars, Take, TimedOp
  <2>3. DataTypes'
    BY <1>1 DEF TypeOK, DataTypes, HandleReconfigureRequest, WorkerBusy,
           StartReconfiguration, Arm, placeVars, orderVars, dishVars,
           linkVars, histVars, callVars, Take
  <2> QED BY <2>1, <2>2, <2>3 DEF TypeOK
<1>3. running' /\ SingleDriver'
  BY <1>1, ZenonT(60) DEF SingleDriver, Driver, Drives, TypeOK, FlagTypes, ControlTypes,
         DataTypes, Phases, HandleReconfigureRequest, WorkerBusy,
         StartReconfiguration, Arm, placeVars, orderVars, dishVars, linkVars,
         histVars, callVars, Take, DrivingOp, HandlerOp, PlainOp, TimedOp,
         Pending, DishUnderWay, Notifying, Requests, RequestFirst
<1>4. Phases'
  BY <1>1 DEF Phases, DishUnderWay, Pending, Notifying, SingleDriver, Driver,
         Drives, TypeOK, FlagTypes, ControlTypes, DataTypes, Requests,
         HandleReconfigureRequest, WorkerBusy, StartReconfiguration, Arm,
         placeVars, orderVars, dishVars, linkVars, histVars, callVars, Take,
         DrivingOp, HandlerOp, PlainOp, TimedOp
<1>5. Requests'
  BY <1>1 DEF Requests, Phases, DishUnderWay, Pending, TypeOK, FlagTypes,
         ControlTypes, DataTypes, HandleReconfigureRequest, WorkerBusy,
         StartReconfiguration, Arm, placeVars, orderVars, dishVars, linkVars,
         histVars, callVars, Take, HandlerOp, PlainOp, TimedOp, DrivingOp
<1>6. AtHand'
  BY <1>1 DEF AtHand, Phases, DishUnderWay, Pending, Notifying, TypeOK,
         FlagTypes, ControlTypes, DataTypes, HandleReconfigureRequest,
         WorkerBusy, StartReconfiguration, Arm, placeVars, orderVars,
         dishVars, linkVars, histVars, callVars, Take, HandlerOp, PlainOp,
         TimedOp, DrivingOp
<1> QED BY <1>2, <1>3, <1>4, <1>5, <1>6

LEMMA RetoolKeeps ==
    ASSUME RobotInv, Retool
    PROVE  RobotInv'
<1> USE DEF RobotInv
<1>0. "retool" \in HandlerOp /\ Take("retool")
  BY DEF Retool, HandlerOp, PlainOp, TimedOp
<1>1. /\ io' \in Seq(Handler) /\ Queued("retool")
      /\ Head(io) \in Handler /\ Head(io).op = "retool"
      /\ \A op \in HandlerOp : Queued(op)' => Queued(op)
      /\ \A op \in HandlerOp \ {"retool"} : Queued(op) => Queued(op)'
      /\ OneQueuedDriver' /\ RequestFirst'
      /\ \A op \in DrivingOp : ~ Queued(op)'
  BY <1>0, TakeFacts DEF TypeOK, FlagTypes, ControlTypes, DataTypes,
         SingleDriver, Requests, DrivingOp, HandlerOp, PlainOp, TimedOp
<1>1a. timer = "none"
  BY <1>1 DEF SingleDriver, Driver, Drives, DrivingOp, TimedOp
<1>1b. /\ action_queue_in_process # <<>>
       /\ RequiredTool(action_queue_in_process[1]) \in Tool
       /\ action_queue_in_process' = action_queue_in_process
  BY <1>1, FirstInstruction DEF AtHand, Pending, TypeOK, DataTypes, Retool
<1>1c. /\ running' /\ duration_left' \in Nat
       /\ is_dish_finished' \in BOOLEAN
       /\ \/ timer' = "none" /\ worker' = "notify"
          \/ /\ timer' = "retool" /\ worker' = "idle"
             /\ action_queue_in_process' # <<>>
          \/ /\ timer' = "pass_time" /\ worker' = "idle"
             /\ action_queue_in_process' # <<>> /\ duration_left' > 0
  <2>1. /\ running /\ duration_left \in Nat /\ is_dish_finished \in BOOLEAN
        /\ action_queue_in_process \in Seq(Instruction)
    BY DEF TypeOK, FlagTypes, DataTypes
  <2>2. DetermineNextAction(action_queue_in_process, current_tool',
                            duration_left)
    BY DEF Retool
  <2> QED BY <1>1a, <1>1b, <2>1, <2>2, NextActionFacts
<1>1d. dish'.recipe_id \in Recipe
  BY <1>1 DEF AtHand, DishUnderWay, Pending, Retool
<1>2. TypeOK'
  <2>1. FlagTypes'
    BY <1>1, <1>1a, <1>1b, <1>1c, <1>1d DEF TypeOK, FlagTypes, Retool,
           adaptVars, placeVars, linkVars, histVars, callVars, Take
  <2>2. ControlTypes'
    BY <1>1, <1>1a, <1>1b, <1>1c, <1>1d DEF TypeOK, ControlTypes, Retool,
           adaptVars, placeVars, linkVars, histVars, callVars, Take, TimedOp
  <2>3. DataTypes'
    BY <1>1, <1>1a, <1>1b, <1>1c, <1>1d DEF TypeOK, DataTypes, Retool,
           adaptVars, placeVars, linkVars, histVars, callVars, Take
  <2> QED BY <2>1, <2>2, <2>3 DEF TypeOK
<1>3. running' /\ SingleDriver'
  BY <1>1, <1>1a, <1>1b, <1>1c, <1>1d DEF SingleDriver, Driver, Drives,
         TypeOK, FlagTypes, ControlTypes, DataTypes, Phases, Retool,
         adaptVars, placeVars, linkVars, histVars, callVars, Take, DrivingOp,
         HandlerOp, PlainOp, TimedOp
<1>4. Phases'
  BY <1>1, <1>1a, <1>1b, <1>1c, <1>1d DEF Phases, DishUnderWay, Pending,
         Notifying, SingleDriver, Driver, Drives, TypeOK, FlagTypes,
         ControlTypes, DataTypes, Requests, Retool, adaptVars, placeVars,
         linkVars, histVars, callVars, Take, DrivingOp, HandlerOp, PlainOp,
         TimedOp
<1>5. Requests'
  BY <1>1, <1>1a, <1>1b, <1>1c, <1>1d DEF Requests, Phases, DishUnderWay,
         Pending, TypeOK, FlagTypes, ControlTypes, DataTypes, Retool,
         adaptVars, placeVars, linkVars, histVars, callVars, Take, HandlerOp,
         PlainOp, TimedOp, DrivingOp
<1>6. AtHand'
  BY <1>1, <1>1a, <1>1b, <1>1c, <1>1d DEF AtHand, Phases, DishUnderWay,
         Pending, Notifying, TypeOK, FlagTypes, ControlTypes, DataTypes,
         Retool, adaptVars, placeVars, linkVars, histVars, callVars, Take,
         HandlerOp, PlainOp, TimedOp, DrivingOp
<1> QED BY <1>2, <1>3, <1>4, <1>5, <1>6

LEMMA PassTimeKeeps ==
    ASSUME RobotInv, PassTime
    PROVE  RobotInv'
<1> USE DEF RobotInv
<1>0. "pass_time" \in HandlerOp /\ Take("pass_time")
  BY DEF PassTime, HandlerOp, PlainOp, TimedOp
<1>1. /\ io' \in Seq(Handler) /\ Queued("pass_time")
      /\ Head(io) \in Handler /\ Head(io).op = "pass_time"
      /\ \A op \in HandlerOp : Queued(op)' => Queued(op)
      /\ \A op \in HandlerOp \ {"pass_time"} : Queued(op) => Queued(op)'
      /\ OneQueuedDriver' /\ RequestFirst'
      /\ \A op \in DrivingOp : ~ Queued(op)'
  BY <1>0, TakeFacts DEF TypeOK, FlagTypes, ControlTypes, DataTypes,
         SingleDriver, Requests, DrivingOp, HandlerOp, PlainOp, TimedOp
<1>2. TypeOK'
  <2>1. FlagTypes'
    BY <1>1, ZenonT(60) DEF TypeOK, FlagTypes, PassTime, Arm, adaptVars, placeVars,
           linkVars, histVars, callVars, Take, AtHand, Pending, ControlTypes,
           DataTypes
  <2>2. ControlTypes'
    BY <1>1 DEF TypeOK, ControlTypes, PassTime, Arm, adaptVars, placeVars,
           linkVars, histVars, callVars, Take, AtHand, Pending, TimedOp,
           FlagTypes, DataTypes
  <2>3. DataTypes'
    BY <1>1 DEF TypeOK, DataTypes, PassTime, Arm, adaptVars, placeVars,
           linkVars, histVars, callVars, Take, AtHand, Pending, FlagTypes,
           ControlTypes
  <2> QED BY <2>1, <2>2, <2>3 DEF TypeOK
<1>3. running' /\ SingleDriver'
  BY <1>1 DEF SingleDriver, Driver, Drives, TypeOK, FlagTypes, ControlTypes,
         DataTypes, Phases, PassTime, Arm, adaptVars, placeVars, linkVars,
         histVars, callVars, Take, DrivingOp, HandlerOp, PlainOp, TimedOp
<1>4. Phases'
  BY <1>1 DEF Phases, DishUnderWay, Pending, Notifying, SingleDriver, Driver,
         Drives, TypeOK, FlagTypes, ControlTypes, DataTypes, Requests,
         PassTime, Arm, adaptVars, placeVars, linkVars, histVars, callVars,
         Take, DrivingOp, HandlerOp, PlainOp, TimedOp
<1>5. Requests'
  BY <1>1 DEF Requests, Phases, DishUnderWay, Pending, TypeOK, FlagTypes,
         ControlTypes, DataTypes, PassTime, Arm, adaptVars, placeVars,
         linkVars, histVars, callVars, Take, HandlerOp, PlainOp, TimedOp,
         DrivingOp
<1>6. AtHand'
  BY <1>1 DEF AtHand, Phases, DishUnderWay, Pending, Notifying, TypeOK,
         FlagTypes, ControlTypes, DataTypes, PassTime, Arm, adaptVars,
         placeVars, linkVars, histVars, callVars, Take, HandlerOp, PlainOp,
         TimedOp, DrivingOp
<1> QED BY <1>2, <1>3, <1>4, <1>5, <1>6

LEMMA ActionPerformedKeeps ==
    ASSUME RobotInv, ActionPerformed
    PROVE  RobotInv'
<1> USE DEF RobotInv
<1>0. "pass_time" \in HandlerOp /\ Take("pass_time")
  BY DEF ActionPerformed, HandlerOp, PlainOp, TimedOp
<1>1. /\ io' \in Seq(Handler) /\ Queued("pass_time")
      /\ Head(io) \in Handler /\ Head(io).op = "pass_time"
      /\ \A op \in HandlerOp : Queued(op)' => Queued(op)
      /\ \A op \in HandlerOp \ {"pass_time"} : Queued(op) => Queued(op)'
      /\ OneQueuedDriver' /\ RequestFirst'
      /\ \A op \in DrivingOp : ~ Queued(op)'
  BY <1>0, TakeFacts DEF TypeOK, FlagTypes, ControlTypes, DataTypes,
         SingleDriver, Requests, DrivingOp, HandlerOp, PlainOp, TimedOp
<1>1a. timer = "none"
  BY <1>1 DEF SingleDriver, Driver, Drives, DrivingOp, TimedOp
<1>1b. action_queue_in_process' \in Seq(Instruction)
  BY <1>1, FirstInstruction
     DEF AtHand, Pending, TypeOK, DataTypes, ActionPerformed
<1>1c. /\ running' /\ duration_left' \in Nat
       /\ is_dish_finished' \in BOOLEAN
       /\ \/ timer' = "none" /\ worker' = "notify"
          \/ /\ timer' = "retool" /\ worker' = "idle"
             /\ action_queue_in_process' # <<>>
          \/ /\ timer' = "pass_time" /\ worker' = "idle"
             /\ action_queue_in_process' # <<>> /\ duration_left' > 0
  <2>1. running /\ is_dish_finished \in BOOLEAN
    BY DEF TypeOK, FlagTypes
  <2>2. DetermineNextAction(action_queue_in_process', current_tool, 0)
    BY DEF ActionPerformed
  <2> QED BY <1>1a, <1>1b, <2>1, <2>2, NextActionFacts
<1>1d. /\ dish' \in [recipe_id : Recipe \cup {0}, steps : Nat,
                     processed : Nat, processable : Nat]
       /\ dish'.recipe_id = dish.recipe_id
  <2>1. dish \in [recipe_id : Recipe \cup {0}, steps : Nat, processed : Nat,
                  processable : Nat]
    BY DEF TypeOK, DataTypes
  <2>2. dish' = [dish EXCEPT !.processed = dish.processed + 1]
    BY DEF ActionPerformed
  <2> QED BY <2>1, <2>2
<1>1e. dish'.recipe_id \in Recipe
  BY <1>1, <1>1d DEF AtHand, DishUnderWay, Pending
<1>2. TypeOK'
  <2>1. FlagTypes'
    BY <1>1, <1>1a, <1>1b, <1>1c, <1>1d, <1>1e DEF TypeOK, FlagTypes,
           ActionPerformed, adaptVars, placeVars, linkVars, histVars,
           callVars, Take
  <2>2. ControlTypes'
    BY <1>1, <1>1a, <1>1b, <1>1c, <1>1d, <1>1e DEF TypeOK, ControlTypes,
           ActionPerformed, adaptVars, placeVars, linkVars, histVars,
           callVars, Take, TimedOp
  <2>3. DataTypes'
    BY <1>1, <1>1a, <1>1b, <1>1c, <1>1d, <1>1e DEF TypeOK, DataTypes,
           ActionPerformed, adaptVars, placeVars, linkVars, histVars,
           callVars, Take
  <2> QED BY <2>1, <2>2, <2>3 DEF TypeOK
<1>3. running' /\ SingleDriver'
  BY <1>1, <1>1a, <1>1b, <1>1c, <1>1d, <1>1e DEF SingleDriver, Driver, Drives,
         TypeOK, FlagTypes, ControlTypes, DataTypes, Phases, ActionPerformed,
         adaptVars, placeVars, linkVars, histVars, callVars, Take, DrivingOp,
         HandlerOp, PlainOp, TimedOp
<1>4. Phases'
  BY <1>1, <1>1a, <1>1b, <1>1c, <1>1d, <1>1e DEF Phases, DishUnderWay,
         Pending, Notifying, SingleDriver, Driver, Drives, TypeOK, FlagTypes,
         ControlTypes, DataTypes, Requests, ActionPerformed, adaptVars,
         placeVars, linkVars, histVars, callVars, Take, DrivingOp, HandlerOp,
         PlainOp, TimedOp
<1>5. Requests'
  BY <1>1, <1>1a, <1>1b, <1>1c, <1>1d, <1>1e DEF Requests, Phases,
         DishUnderWay, Pending, TypeOK, FlagTypes, ControlTypes, DataTypes,
         ActionPerformed, adaptVars, placeVars, linkVars, histVars, callVars,
         Take, HandlerOp, PlainOp, TimedOp, DrivingOp
<1>6. AtHand'
  BY <1>1, <1>1a, <1>1b, <1>1c, <1>1d, <1>1e DEF AtHand, Phases, DishUnderWay,
         Pending, Notifying, TypeOK, FlagTypes, ControlTypes, DataTypes,
         ActionPerformed, adaptVars, placeVars, linkVars, histVars, callVars,
         Take, HandlerOp, PlainOp, TimedOp, DrivingOp
<1> QED BY <1>2, <1>3, <1>4, <1>5, <1>6

LEMMA MoveToNewPositionKeeps ==
    ASSUME RobotInv, MoveToNewPosition
    PROVE  RobotInv'
<1> USE DEF RobotInv
<1>0. "move_to_new_position" \in HandlerOp /\ Take("move_to_new_position")
  BY DEF MoveToNewPosition, HandlerOp, PlainOp, TimedOp
<1>1. /\ io' \in Seq(Handler) /\ Queued("move_to_new_position")
      /\ Head(io) \in Handler /\ Head(io).op = "move_to_new_position"
      /\ \A op \in HandlerOp : Queued(op)' => Queued(op)
      /\ \A op \in HandlerOp \ {"move_to_new_position"} : Queued(op) => Queued(op)'
      /\ OneQueuedDriver' /\ RequestFirst'
      /\ \A op \in DrivingOp : ~ Queued(op)'
      /\ ~ Queued("switch_position")
  BY <1>0, TakeFacts DEF TypeOK, FlagTypes, ControlTypes, DataTypes,
         SingleDriver, Requests, DrivingOp, HandlerOp, PlainOp, TimedOp
<1>2. TypeOK'
  BY <1>1 DEF TypeOK, FlagTypes, ControlTypes, DataTypes, MoveToNewPosition,
         orderVars, dishVars, linkVars, histVars, callVars, Take, Requests,
         Phases, Pending
<1>3. running' /\ SingleDriver'
  BY <1>1 DEF SingleDriver, Driver, Drives, TypeOK, FlagTypes, ControlTypes,
         DataTypes, Phases, MoveToNewPosition, orderVars, dishVars, linkVars,
         histVars, callVars, Take, DrivingOp, HandlerOp, PlainOp, TimedOp
<1>4. Phases'
  BY <1>1 DEF Phases, DishUnderWay, Pending, Notifying, SingleDriver, Driver,
         Drives, TypeOK, FlagTypes, ControlTypes, DataTypes, Requests,
         MoveToNewPosition, orderVars, dishVars, linkVars, histVars, callVars,
         Take, DrivingOp, HandlerOp, PlainOp, TimedOp
<1>5. Requests'
  BY <1>1 DEF Requests, Phases, DishUnderWay, Pending, TypeOK, FlagTypes,
         ControlTypes, DataTypes, MoveToNewPosition, orderVars, dishVars,
         linkVars, histVars, callVars, Take, HandlerOp, PlainOp, TimedOp,
         DrivingOp
<1>6. AtHand'
  BY <1>1 DEF AtHand, Phases, DishUnderWay, Pending, Notifying, TypeOK,
         FlagTypes, ControlTypes, DataTypes, MoveToNewPosition, orderVars,
         dishVars, linkVars, histVars, callVars, Take, HandlerOp, PlainOp,
         TimedOp, DrivingOp
<1> QED BY <1>2, <1>3, <1>4, <1>5, <1>6

LEMMA HandleNewPositionCommitKeeps ==
    ASSUME RobotInv, HandleNewPositionCommit
    PROVE  RobotInv'
<1> USE DEF RobotInv
<1>0. "new_position_commit" \in HandlerOp /\ Take("new_position_commit")
  BY DEF HandleNewPositionCommit, HandlerOp, PlainOp, TimedOp
<1>1. /\ io' \in Seq(Handler) /\ Queued("new_position_commit")
      /\ Head(io) \in Handler /\ Head(io).op = "new_position_commit"
      /\ \A op \in HandlerOp : Queued(op)' => Queued(op)
      /\ \A op \in HandlerOp \ {"new_position_commit"} : Queued(op) => Queued(op)'
      /\ OneQueuedDriver' /\ RequestFirst'
      /\ \A op \in DrivingOp : ~ Queued(op)'
  BY <1>0, TakeFacts DEF TypeOK, FlagTypes, ControlTypes, DataTypes,
         SingleDriver, Requests, DrivingOp, HandlerOp, PlainOp, TimedOp
<1>2. TypeOK'
  <2>1. FlagTypes'
    BY <1>1 DEF TypeOK, FlagTypes, HandleNewPositionCommit, placeVars,
           orderVars, dishVars, linkVars, histVars, callVars, Take
  <2>2. ControlTypes'
    BY <1>1 DEF TypeOK, ControlTypes, HandleNewPositionCommit, placeVars,
           orderVars, dishVars, linkVars, histVars, callVars, Take, TimedOp
  <2>3. DataTypes'
    BY <1>1 DEF TypeOK, DataTypes, HandleNewPositionCommit, placeVars,
           orderVars, dishVars, linkVars, histVars, callVars, Take
  <2> QED BY <2>1, <2>2, <2>3 DEF TypeOK
<1>3. running' /\ SingleDriver'
  BY <1>1 DEF SingleDriver, Driver, Drives, TypeOK, FlagTypes, ControlTypes,
         DataTypes, Phases, HandleNewPositionCommit, placeVars, orderVars,
         dishVars, linkVars, histVars, callVars, Take, DrivingOp, HandlerOp,
         PlainOp, TimedOp
<1>4. Phases'
  BY <1>1 DEF Phases, DishUnderWay, Pending, Notifying, SingleDriver, Driver,
         Drives, TypeOK, FlagTypes, ControlTypes, DataTypes, Requests,
         HandleNewPositionCommit, placeVars, orderVars, dishVars, linkVars,
         histVars, callVars, Take, DrivingOp, HandlerOp, PlainOp, TimedOp
<1>5. Requests'
  BY <1>1 DEF Requests, Phases, DishUnderWay, Pending, TypeOK, FlagTypes,
         ControlTypes, DataTypes, HandleNewPositionCommit, placeVars,
         orderVars, dishVars, linkVars, histVars, callVars, Take, HandlerOp,
         PlainOp, TimedOp, DrivingOp
<1>6. AtHand'
  BY <1>1 DEF AtHand, Phases, DishUnderWay, Pending, Notifying, TypeOK,
         FlagTypes, ControlTypes, DataTypes, HandleNewPositionCommit,
         placeVars, orderVars, dishVars, linkVars, histVars, callVars, Take,
         HandlerOp, PlainOp, TimedOp, DrivingOp
<1> QED BY <1>2, <1>3, <1>4, <1>5, <1>6

LEMMA CompleteReconfigurationKeeps ==
    ASSUME RobotInv, CompleteReconfiguration
    PROVE  RobotInv'
<1> USE DEF RobotInv
<1>0. "complete_reconfiguration" \in HandlerOp /\ Take("complete_reconfiguration")
  BY DEF CompleteReconfiguration, HandlerOp, PlainOp, TimedOp
<1>1. /\ io' \in Seq(Handler) /\ Queued("complete_reconfiguration")
      /\ Head(io) \in Handler /\ Head(io).op = "complete_reconfiguration"
      /\ \A op \in HandlerOp : Queued(op)' => Queued(op)
      /\ \A op \in HandlerOp \ {"complete_reconfiguration"} : Queued(op) => Queued(op)'
      /\ OneQueuedDriver' /\ RequestFirst'
      /\ \A op \in DrivingOp : ~ Queued(op)'
      /\ ~ Queued("handle_reconfiguration")
  BY <1>0, TakeFacts DEF TypeOK, FlagTypes, ControlTypes, DataTypes,
         SingleDriver, Requests, DrivingOp, HandlerOp, PlainOp, TimedOp
<1>1a. profile' \in Profile /\ current_tool' \in Tool
  <2>1. new_profile \in Profile
    BY <1>1 DEF Requests, Phases, Pending, TypeOK, DataTypes,
           ControlTypes
  <2>2. \A a \in Capabilities[new_profile] : ToolOf[a] \in Tool
    BY <2>1, RecipesAssumption
  <2> QED BY <2>1, <2>2 DEF CompleteReconfiguration
<1>2. TypeOK'
  BY <1>1, <1>1a DEF TypeOK, FlagTypes, ControlTypes, DataTypes,
         CompleteReconfiguration, linkVars, histVars, callVars, Take
<1>3. running' /\ SingleDriver'
  BY <1>1 DEF SingleDriver, Driver, Drives, TypeOK, FlagTypes, ControlTypes,
         DataTypes, Phases, CompleteReconfiguration, linkVars, histVars,
         callVars, Take, DrivingOp, HandlerOp, PlainOp, TimedOp
<1>4. Phases'
  BY <1>1 DEF Phases, DishUnderWay, Pending, Notifying, SingleDriver, Driver,
         Drives, TypeOK, FlagTypes, ControlTypes, DataTypes, Requests,
         CompleteReconfiguration, linkVars, histVars, callVars, Take,
         DrivingOp, HandlerOp, PlainOp, TimedOp
<1>5. Requests'
  BY <1>1 DEF Requests, Phases, DishUnderWay, Pending, TypeOK, FlagTypes,
         ControlTypes, DataTypes, CompleteReconfiguration, linkVars, histVars,
         callVars, Take, HandlerOp, PlainOp, TimedOp, DrivingOp
<1>6. AtHand'
  BY <1>1 DEF AtHand, Phases, DishUnderWay, Pending, Notifying, TypeOK,
         FlagTypes, ControlTypes, DataTypes, CompleteReconfiguration,
         linkVars, histVars, callVars, Take, HandlerOp, PlainOp, TimedOp,
         DrivingOp
<1> QED BY <1>2, <1>3, <1>4, <1>5, <1>6

LEMMA RecomputeOrderKeeps ==
    ASSUME RobotInv, RecomputeOrder
    PROVE  RobotInv'
<1> USE DEF RobotInv
<1>1. /\ \A op \in HandlerOp : Queued(op)' <=> Queued(op)
      /\ OneQueuedDriver' /\ RequestFirst'
  BY SameQueue DEF RecomputeOrder, SingleDriver, Requests
<1>1a. /\ order_queue' \in Seq(Order) /\ last_tool' \in Tool
       /\ pending_orders' \in Seq(Order)
  <2>1. Head(pending_orders) \in Order /\ pending_orders' \in Seq(Order)
    BY DEF RecomputeOrder, TypeOK, DataTypes
  <2>2. /\ Head(pending_orders).recipe_id \in Recipe
        /\ Head(pending_orders).steps \in Nat
    BY <2>1 DEF Order
  <2> QED BY <2>1, <2>2, EnqueueOrderType DEF RecomputeOrder
<1>2. TypeOK'
  BY <1>1, <1>1a DEF TypeOK, FlagTypes, ControlTypes, DataTypes,
         RecomputeOrder, adaptVars, placeVars, dishVars, linkVars, histVars,
         callVars
<1>3. running' /\ SingleDriver'
  BY <1>1 DEF SingleDriver, Driver, Drives, TypeOK, FlagTypes, ControlTypes,
         DataTypes, Phases, RecomputeOrder, adaptVars, placeVars, dishVars,
         linkVars, histVars, callVars, DrivingOp, HandlerOp, PlainOp, TimedOp
<1>4. Phases'
  BY <1>1 DEF Phases, DishUnderWay, Pending, Notifying, SingleDriver, Driver,
         Drives, TypeOK, FlagTypes, ControlTypes, DataTypes, Requests,
         RecomputeOrder, adaptVars, placeVars, dishVars, linkVars, histVars,
         callVars, DrivingOp, HandlerOp, PlainOp, TimedOp
<1>5. Requests'
  BY <1>1 DEF Requests, Phases, DishUnderWay, Pending, TypeOK, FlagTypes,
         ControlTypes, DataTypes, RecomputeOrder, adaptVars, placeVars,
         dishVars, linkVars, histVars, callVars, HandlerOp, PlainOp, TimedOp,
         DrivingOp
<1>6. AtHand'
  BY <1>1 DEF AtHand, Phases, DishUnderWay, Pending, Notifying, TypeOK,
         FlagTypes, ControlTypes, DataTypes, RecomputeOrder, adaptVars,
         placeVars, dishVars, linkVars, histVars, callVars, HandlerOp,
         PlainOp, TimedOp, DrivingOp
<1> QED BY <1>2, <1>3, <1>4, <1>5, <1>6

LEMMA RecomputeDoneKeeps ==
    ASSUME RobotInv, RecomputeDone
    PROVE  RobotInv'
<1> USE DEF RobotInv
<1>1. /\ \A op \in HandlerOp : Queued(op)' <=> Queued(op)
      /\ OneQueuedDriver' /\ RequestFirst'
  BY SameQueue DEF RecomputeDone, SingleDriver, Requests
<1>2. TypeOK'
  <2>1. FlagTypes'
    BY <1>1 DEF TypeOK, FlagTypes, RecomputeDone, placeVars, orderVars,
           dishVars, linkVars, histVars, callVars
  <2>2. ControlTypes'
    BY <1>1 DEF TypeOK, ControlTypes, RecomputeDone, placeVars, orderVars,
           dishVars, linkVars, histVars, callVars, TimedOp
  <2>3. DataTypes'
    BY <1>1 DEF TypeOK, DataTypes, RecomputeDone, placeVars, orderVars,
           dishVars, linkVars, histVars, callVars
  <2> QED BY <2>1, <2>2, <2>3 DEF TypeOK
<1>3. running' /\ SingleDriver'
  BY <1>1 DEF SingleDriver, Driver, Drives, TypeOK, FlagTypes, ControlTypes,
         DataTypes, Phases, RecomputeDone, placeVars, orderVars, dishVars,
         linkVars, histVars, callVars, DrivingOp, HandlerOp, PlainOp, TimedOp
<1>4. Phases'
  BY <1>1 DEF Phases, DishUnderWay, Pending, Notifying, SingleDriver, Driver,
         Drives, TypeOK, FlagTypes, ControlTypes, DataTypes, Requests,
         RecomputeDone, placeVars, orderVars, dishVars, linkVars, histVars,
         callVars, DrivingOp, HandlerOp, PlainOp, TimedOp
<1>5. Requests'
  BY <1>1 DEF Requests, Phases, DishUnderWay, Pending, TypeOK, FlagTypes,
         ControlTypes, DataTypes, RecomputeDone, placeVars, orderVars,
         dishVars, linkVars, histVars, callVars, HandlerOp, PlainOp, TimedOp,
         DrivingOp
<1>6. AtHand'
  BY <1>1 DEF AtHand, Phases, DishUnderWay, Pending, Notifying, TypeOK,
         FlagTypes, ControlTypes, DataTypes, RecomputeDone, placeVars,
         orderVars, dishVars, linkVars, histVars, callVars, HandlerOp,
         PlainOp, TimedOp, DrivingOp
<1> QED BY <1>2, <1>3, <1>4, <1>5, <1>6

LEMMA NotifyReturnsKeeps ==
    ASSUME RobotInv, NotifyReturns
    PROVE  RobotInv'
<1> USE DEF RobotInv
<1>1. /\ \A op \in HandlerOp : Queued(op)' <=> Queued(op)
      /\ OneQueuedDriver' /\ RequestFirst'
  BY SameQueue DEF NotifyReturns, SingleDriver, Requests
<1> QED
  BY <1>1 DEF TypeOK, FlagTypes, ControlTypes, DataTypes, SingleDriver,
         Driver, Drives, Phases, Requests, AtHand, DishUnderWay, Pending,
         Notifying, NotifyReturns, adaptVars, placeVars, orderVars, dishVars,
         linkVars, histVars, callVars, DrivingOp, HandlerOp, PlainOp, TimedOp

LEMMA TimerExpiresKeeps ==
    ASSUME RobotInv, TimerExpires
    PROVE  RobotInv'
<1> USE DEF RobotInv
<1>0. Plain(timer) \in Handler /\ Post(Plain(timer))
  BY RecipesAssumption DEF TimerExpires, Plain, Handler, PlainOp, TimedOp,
         TypeOK, FlagTypes, ControlTypes, DataTypes
<1>1. /\ io' \in Seq(Handler)
      /\ \A op \in HandlerOp :
            Queued(op)' <=> Queued(op) \/ Plain(timer).op = op
      /\ OneQueuedDriver' /\ RequestFirst'
  BY <1>0, PostFacts DEF TypeOK, FlagTypes, ControlTypes, DataTypes,
         SingleDriver, Driver, Drives, Requests, Phases, TimerExpires, Plain,
         adaptVars, placeVars, orderVars, dishVars, linkVars, histVars,
         callVars, DrivingOp, HandlerOp, PlainOp, TimedOp
<1>2. TypeOK'
  BY <1>1 DEF TypeOK, FlagTypes, ControlTypes, DataTypes, TimerExpires, Plain,
         adaptVars, placeVars, orderVars, dishVars, linkVars, histVars,
         callVars
<1>3. running' /\ SingleDriver'
  BY <1>1 DEF SingleDriver, Driver, Drives, TypeOK, FlagTypes, ControlTypes,
         DataTypes, Phases, TimerExpires, Plain, adaptVars, placeVars,
         orderVars, dishVars, linkVars, histVars, callVars, DrivingOp,
         HandlerOp, PlainOp, TimedOp
<1>4. Phases'
  BY <1>1 DEF Phases, DishUnderWay, Pending, Notifying, SingleDriver, Driver,
         Drives, TypeOK, FlagTypes, ControlTypes, DataTypes, Requests,
         TimerExpires, Plain, adaptVars, placeVars, orderVars, dishVars,
         linkVars, histVars, callVars, DrivingOp, HandlerOp, PlainOp, TimedOp
<1>5. Requests'
  BY <1>1 DEF Requests, Phases, DishUnderWay, Pending, TypeOK, FlagTypes,
         ControlTypes, DataTypes, TimerExpires, Plain, adaptVars, placeVars,
         orderVars, dishVars, linkVars, histVars, callVars, HandlerOp,
         PlainOp, TimedOp, DrivingOp
<1>6. AtHand'
  BY <1>1 DEF AtHand, Phases, DishUnderWay, Pending, Notifying, TypeOK,
         FlagTypes, ControlTypes, DataTypes, TimerExpires, Plain, adaptVars,
         placeVars, orderVars, dishVars, linkVars, histVars, callVars,
         HandlerOp, PlainOp, TimedOp, DrivingOp
<1> QED BY <1>2, <1>3, <1>4, <1>5, <1>6

(* The steps of the link to the conveyor leave alone all that RobotInv      *)
(* speaks of, but for the place of a worker that notifies.                  *)
LinkStep ==
    \/ NotifyCall \/ ConveyorAnswers \/ NotifyFails \/ NotifyWithoutClient
    \/ SpuriousWakeup \/ ClientDropsConveyor \/ ClientReconnects
    \/ ClientReconnectFails \/ ConveyorCrashes \/ ConveyorRestarts
    \/ ConnectionDrops \/ \E p \in RobotPosition : HandoverCallLost(p)

LEMMA LinkStepKeeps ==
    ASSUME RobotInv, LinkStep
    PROVE  RobotInv'
<1>1. /\ UNCHANGED <<adaptVars, placeVars, orderVars, dishVars, histVars,
                      callVars, pending_pickup, state_lock, io, timer, server,
                      running>>
      /\ worker' = worker \/ (Notifying /\ Notifying')
  BY DEF LinkStep, NotifyCall, ConveyorAnswers, NotifyFails, Notifying,
         NotifyWithoutClient, SpuriousWakeup, ClientDropsConveyor,
         ClientReconnects, Woken, ClientReconnectFails, ConveyorCrashes,
         ConveyorRestarts, ConnectionDrops, HandoverCallLost
<1>2. /\ conveyor_up' \in BOOLEAN
      /\ conveyor_client' \in {"null", "live", "stale"}
      /\ notifications' \subseteq RobotPosition /\ faults' \in Nat
  <2>1. conveyor_up' \in BOOLEAN
    BY DEF LinkStep, NotifyCall, ConveyorAnswers, NotifyFails, RobotInv,
           NotifyWithoutClient, SpuriousWakeup, ClientDropsConveyor,
           ClientReconnects, ClientReconnectFails, ConveyorCrashes,
           ConveyorRestarts, ConnectionDrops, HandoverCallLost, linkVars,
           TypeOK, FlagTypes
  <2>2. faults' \in Nat
    <3>1. faults' = faults \/ faults' = faults + 1
      BY DEF LinkStep, NotifyCall, ConveyorAnswers, NotifyFails,
             NotifyWithoutClient, SpuriousWakeup, ClientDropsConveyor,
             ClientReconnects, ClientReconnectFails, ConveyorCrashes,
             ConveyorRestarts, ConnectionDrops, HandoverCallLost, linkVars
    <3> QED BY <3>1 DEF RobotInv, TypeOK, DataTypes
  <2>3. conveyor_client' \in {"null", "live", "stale"}
    BY DEF LinkStep, NotifyCall, ConveyorAnswers, NotifyFails, RobotInv,
           NotifyWithoutClient, SpuriousWakeup, ClientDropsConveyor,
           ClientReconnects, ClientReconnectFails, ConveyorCrashes, Broken,
           ConveyorRestarts, ConnectionDrops, HandoverCallLost, linkVars,
           TypeOK, ControlTypes
  <2>4. notifications' \subseteq RobotPosition
    BY DEF LinkStep, NotifyCall, ConveyorAnswers, NotifyFails, RobotInv,
           NotifyWithoutClient, SpuriousWakeup, ClientDropsConveyor,
           ClientReconnects, Reannounced, ClientReconnectFails,
           ConveyorCrashes, ConveyorRestarts, ConnectionDrops,
           HandoverCallLost, linkVars, TypeOK, DataTypes
  <2> QED BY <2>1, <2>2, <2>3, <2>4
<1>3. /\ \A op \in HandlerOp : Queued(op)' <=> Queued(op)
      /\ OneQueuedDriver' /\ RequestFirst'
  BY <1>1, SameQueue DEF RobotInv, SingleDriver, Requests
<1>4. FlagTypes'
  BY <1>1, <1>2 DEF RobotInv, TypeOK, FlagTypes, adaptVars, callVars, dishVars
<1>5. ControlTypes'
  BY <1>1, <1>2 DEF RobotInv, TypeOK, ControlTypes, adaptVars, Notifying
<1>6. DataTypes'
  BY <1>1, <1>2 DEF RobotInv, TypeOK, DataTypes, adaptVars, placeVars,
         orderVars, dishVars, histVars, callVars
<1>7. running' /\ SingleDriver'
  BY <1>1, <1>3 DEF RobotInv, SingleDriver, Driver, Drives, DrivingOp,
         HandlerOp, PlainOp, TimedOp, adaptVars, callVars, Notifying
<1>8. Phases'
  BY <1>1, <1>3 DEF RobotInv, Phases, DishUnderWay, Pending, HandlerOp,
         PlainOp, TimedOp, adaptVars, dishVars, callVars, Notifying
<1>9. Requests' /\ AtHand'
  BY <1>1, <1>3 DEF RobotInv, Requests, AtHand, DishUnderWay, Pending,
         HandlerOp, PlainOp, TimedOp, adaptVars, dishVars, Notifying
<1> QED BY <1>4, <1>5, <1>6, <1>7, <1>8, <1>9 DEF RobotInv, TypeOK

LEMMA StutterKeeps ==
    ASSUME RobotInv, UNCHANGED vars
    PROVE  RobotInv'
<1>1. UNCHANGED io
  BY DEF vars
<1>2. /\ \A op \in HandlerOp : Queued(op)' <=> Queued(op)
      /\ OneQueuedDriver' /\ RequestFirst'
  BY <1>1, SameQueue DEF RobotInv, SingleDriver, Requests
<1>3. FlagTypes' /\ ControlTypes'
  BY DEF RobotInv, TypeOK, FlagTypes, ControlTypes, vars, adaptVars, dishVars,
         linkVars, callVars
<1>4. DataTypes'
  BY DEF RobotInv, TypeOK, DataTypes, vars, adaptVars, placeVars, orderVars,
         dishVars, linkVars, histVars, callVars
<1>5. running' /\ SingleDriver'
  BY <1>2 DEF RobotInv, SingleDriver, Driver, Drives, DrivingOp, HandlerOp,
              PlainOp, TimedOp, vars, adaptVars, callVars
<1>6. Phases' /\ Requests' /\ AtHand'
  BY <1>2 DEF RobotInv, Phases, Requests, AtHand, DishUnderWay, Pending,
              Notifying, HandlerOp, PlainOp, TimedOp, vars, adaptVars,
              dishVars, callVars
<1> QED BY <1>3, <1>4, <1>5, <1>6 DEF RobotInv, TypeOK

------------------------------------------------------------------------------
LEMMA InitEstablishes == Init => RobotInv
<1> SUFFICES ASSUME Init PROVE RobotInv
  OBVIOUS
<1>1. /\ \A op : ~ Queued(op)
      /\ OneQueuedDriver /\ RequestFirst
  BY DEF Init, Queued, OneQueuedDriver, RequestFirst
<1>2. current_tool \in Tool
  BY RecipesAssumption, RobotAssumption DEF Init
<1>3. FlagTypes /\ ControlTypes
  <2>1. FlagTypes
    BY DEF Init, FlagTypes
  <2>2. ControlTypes
    BY DEF Init, ControlTypes
  <2> QED BY <2>1, <2>2
<1>4. DataTypes
  BY <1>2, RobotAssumption DEF Init, DataTypes, NoDish
<1>5. running /\ SingleDriver
  BY <1>1 DEF Init, SingleDriver, Driver, Drives
<1>6. Phases /\ Requests /\ AtHand
  BY <1>1 DEF Init, Phases, Requests, AtHand, DishUnderWay, Pending, Notifying
<1> QED BY <1>3, <1>4, <1>5, <1>6 DEF RobotInv, TypeOK

LEMMA NextKeeps == RobotInv /\ [Next]_vars => RobotInv'
<1> SUFFICES ASSUME RobotInv, [Next]_vars PROVE RobotInv'
  OBVIOUS
<1>1. CASE ServerStep
  BY <1>1, ReceiveTaskKeeps, SwitchPositionKeeps, ReconfigureKeeps,
     CommitNewPositionKeeps, HandoverCallKeeps, HandoverStartKeeps,
     HandoverReplyKeeps
     DEF ServerStep
<1>2. CASE WorkerStep
  BY <1>2, HandleReceiveTaskKeeps, CookPostedKeeps, CookRearrangesKeeps,
     CookReconfiguresKeeps, CookIdlesKeeps, CookStartsKeeps,
     HandleSwitchRequestKeeps, HandleReconfigureRequestKeeps, RetoolKeeps,
     PassTimeKeeps, ActionPerformedKeeps, MoveToNewPositionKeeps,
     HandleNewPositionCommitKeeps, CompleteReconfigurationKeeps,
     RecomputeOrderKeeps, RecomputeDoneKeeps, NotifyReturnsKeeps,
     LinkStepKeeps
     DEF WorkerStep, LinkStep
<1>3. CASE ClientStep
  BY <1>3, LinkStepKeeps DEF ClientStep, LinkStep
<1>4. CASE ConveyorAnswers \/ TimerExpires \/ ConveyorRestarts
  BY <1>4, LinkStepKeeps, TimerExpiresKeeps DEF LinkStep
<1>5. CASE Fault
  BY <1>5, LinkStepKeeps DEF Fault, LinkStep
<1>6. CASE UNCHANGED vars
  BY <1>6, StutterKeeps
<1> QED BY <1>1, <1>2, <1>3, <1>4, <1>5, <1>6 DEF Next

(* RobotInv holds in every state the robot reaches.                         *)
THEOREM Invariance == Spec => []RobotInv
BY InitEstablishes, NextKeeps, PTL DEF Spec

(* Whatever the recipes, the belt and the number of tasks, adaptations and  *)
(* faults: every variable keeps its type; position_ is never the output's.  *)
THEOREM TypeCorrect == Spec => []TypeOK
<1>1. RobotInv => TypeOK
  BY DEF RobotInv
<1> QED BY <1>1, Invariance, PTL

(* One thing at a time drives the robot (the single steady_timer_, the      *)
(* single dish of determine_next_action).                                   *)
THEOREM OneDriverAtATime == Spec => []SingleDriver
<1>1. RobotInv => SingleDriver
  BY DEF RobotInv
<1> QED BY <1>1, Invariance, PTL

(* No handler arms steady_timer_ while it is armed, so stop() is never      *)
(* reached through a cancelled wait.                                        *)
THEOREM NoWaitIsCancelled == Spec => []TimerNeverCancelled
<1>1. RobotInv => TimerNeverCancelled
  BY DEF RobotInv, TimerNeverCancelled
<1> QED BY <1>1, Invariance, PTL

(* Who may change position_ and capability_parser_.                         *)
LEMMA AdaptationSteps ==
    ASSUME [Next]_vars, position' # position \/ profile' # profile
    PROVE  MoveToNewPosition \/ CompleteReconfiguration
<1>1. CASE ServerStep
  BY <1>1 DEF ServerStep, ReceiveTask, SwitchPosition, Reconfigure,
         CommitNewPosition, HandoverCall, HandoverStart, HandoverReply,
         placeVars
<1>2. CASE WorkerStep
  BY <1>2 DEF WorkerStep, HandleReceiveTask, CookPosted, CookRearranges,
         CookReconfigures, CookIdles, CookStarts, HandleSwitchRequest,
         HandleReconfigureRequest, Retool, PassTime, ActionPerformed,
         HandleNewPositionCommit, RecomputeOrder, RecomputeDone, NotifyCall,
         NotifyReturns, NotifyFails, NotifyWithoutClient, placeVars
<1>3. CASE ClientStep \/ ConveyorAnswers \/ TimerExpires \/ ConveyorRestarts
  BY <1>3 DEF ClientStep, ClientDropsConveyor, ClientReconnects,
         ConveyorAnswers, TimerExpires, ConveyorRestarts, placeVars
<1>4. CASE Fault
  BY <1>4 DEF Fault, SpuriousWakeup, ClientReconnectFails, ConveyorCrashes,
         ConnectionDrops, HandoverCallLost, placeVars
<1>5. CASE UNCHANGED vars
  BY <1>5 DEF vars, placeVars
<1> QED BY <1>1, <1>2, <1>3, <1>4, <1>5 DEF Next

(* A move or a reconfiguration completes with no dish under way.            *)
LEMMA AdaptationIsAlone ==
    ASSUME RobotInv, MoveToNewPosition \/ CompleteReconfiguration
    PROVE  dish = NoDish /\ ~ DishUnderWay
<1>1. Queued("move_to_new_position") \/ Queued("complete_reconfiguration")
  <2>1. Take("move_to_new_position") \/ Take("complete_reconfiguration")
    BY DEF MoveToNewPosition, CompleteReconfiguration
  <2>2. {"move_to_new_position", "complete_reconfiguration"}
          \subseteq HandlerOp
    BY DEF HandlerOp, PlainOp, TimedOp
  <2>3. io \in Seq(Handler)
    BY DEF RobotInv, TypeOK, ControlTypes
  <2> QED BY <2>1, <2>2, <2>3, TakeFacts
<1>2. Drives("queued")
  BY <1>1 DEF Drives, DrivingOp, TimedOp
<1>3. /\ ~ pending_pickup /\ timer = "none" /\ server # "replying"
      /\ ~ Notifying
  BY <1>2 DEF RobotInv, SingleDriver, Driver, Drives, Notifying
<1>4. ~ Queued("retool") /\ ~ Queued("pass_time")
  <2>1. OneQueuedDriver
    BY DEF RobotInv, SingleDriver
  <2>2. PICK i \in DOMAIN io :
           io[i].op \in {"move_to_new_position", "complete_reconfiguration"}
    BY <1>1 DEF Queued
  <2>3. \A j \in DOMAIN io : io[j].op \in DrivingOp => j = i
    BY <2>1, <2>2 DEF OneQueuedDriver, DrivingOp, TimedOp
  <2> QED BY <2>2, <2>3 DEF Queued, DrivingOp, TimedOp
<1> QED BY <1>3, <1>4 DEF RobotInv, AtHand, DishUnderWay, Pending

(* The robot moves and takes on a new profile only with no dish aboard and  *)
(* none waiting for the conveyor, in every run.                             *)
THEOREM AdaptationSparesDishes == Spec => AdaptsOnlyBetweenDishes
<1>1. ASSUME RobotInv, [Next]_vars,
             position' # position \/ profile' # profile
      PROVE  dish = NoDish /\ ~ pending_pickup
  BY <1>1, AdaptationSteps, AdaptationIsAlone DEF DishUnderWay
<1>2. RobotInv /\ [Next]_vars
        => [position' # position \/ profile' # profile
              => dish = NoDish /\ ~ pending_pickup]_vars
  BY <1>1
<1> QED BY <1>2, Invariance, PTL DEF Spec, AdaptsOnlyBetweenDishes
==============================================================================
