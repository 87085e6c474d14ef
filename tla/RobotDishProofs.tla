--------------------------- MODULE RobotDishProofs ---------------------------
(***************************************************************************)
(* Theorems about the dishes of Robot: how far each is cooked, that none   *)
(* leaves the robot unfinished by mistake, that the conveyor is told of    *)
(* every dish that waits, that they leave in the order of the tasks, and   *)
(* that the time the robot announces is the time they take.  DishInv,      *)
(* LinkInv, FlowInv and TimeInv rest on RobotInv, TimeInv on DishInv too.  *)
(***************************************************************************)
EXTENDS RobotProofs, SequenceTheorems

(* The dish is announced or leaves: determine_next_action is done with it.  *)
Announced == Notifying \/ pending_pickup \/ server = "replying"

(* PROCESSABLE_STEPS of the queued orders fits the present profile.         *)
OrdersSized ==
    \A i \in DOMAIN order_queue :
        order_queue[i].processable =
            ProcessableSteps(profile, Remaining(order_queue[i].recipe_id,
                                                order_queue[i].steps))

(* The three step counters of the dish aboard fit its action queue.         *)
DishSized ==
    dish # NoDish =>
      /\ dish.processable =
            ProcessableSteps(profile, Remaining(dish.recipe_id, dish.steps))
      /\ dish.processed + ProcessableSteps(profile, action_queue_in_process)
            = dish.processable
      /\ action_queue_in_process
            = Remaining(dish.recipe_id, dish.steps + dish.processed)

(* The dish is announced only when the robot can do no more of it, and      *)
(* only an action the robot is capable to runs.                             *)
Ready ==
    /\ Announced =>
         /\ is_dish_finished = (action_queue_in_process = <<>>)
         /\ ProcessableSteps(profile, action_queue_in_process) = 0
    /\ Pending("pass_time") => IsCapableTo(profile, action_queue_in_process[1])

DishInv == OrdersSized /\ DishSized /\ Ready /\ HandoverIsExact

(* A conveyor that has answered knows the position until it asks.           *)
LinkInv ==
    /\ NotificationOutstanding
    /\ worker = "answered" /\ conveyor_client = "live"
         => position \in notifications \/ server = "called"

------------------------------------------------------------------------------
(* What is left of a recipe, and how much of it a profile can do.           *)

(* What remains of a recipe, element by element.                            *)
LEMMA RemainingElements ==
    ASSUME NEW r \in Recipe, NEW s \in Nat
    PROVE  LET whole == Instructions[r]
               acts  == Remaining(r, s)
           IN  /\ Len(whole) \in Nat
               /\ Len(acts) = IF s < Len(whole) THEN Len(whole) - s ELSE 0
               /\ \A i \in 1..Len(acts) : acts[i] = whole[s + i]
<1>1. Instructions[r] \in Seq(Instruction)
  BY RecipesAssumption DEF Instruction
<1> QED BY <1>1 DEF Remaining

(* pop_front on the action queue leaves what remains one step later.        *)
LEMMA RemainingTail ==
    ASSUME NEW r \in Recipe, NEW s \in Nat, Remaining(r, s) # <<>>
    PROVE  Tail(Remaining(r, s)) = Remaining(r, s + 1)
<1> DEFINE whole == Instructions[r]
           now   == Remaining(r, s)
           later == Remaining(r, s + 1)
<1>1. now \in Seq(Instruction) /\ later \in Seq(Instruction)
  BY RemainingType
<1>2. /\ Len(whole) \in Nat
      /\ Len(now) = IF s < Len(whole) THEN Len(whole) - s ELSE 0
      /\ \A i \in 1..Len(now) : now[i] = whole[s + i]
  BY RemainingElements
<1>3. /\ Len(later) = IF s + 1 < Len(whole) THEN Len(whole) - (s + 1) ELSE 0
      /\ \A i \in 1..Len(later) : later[i] = whole[(s + 1) + i]
  BY RemainingElements
<1> HIDE DEF now, later, whole
<1>4. now # <<>>
  BY DEF now
<1>5. s < Len(whole) /\ Len(later) = Len(now) - 1
  BY <1>1, <1>2, <1>3, <1>4
<1>6. /\ Tail(now) \in Seq(Instruction) /\ Len(Tail(now)) = Len(now) - 1
      /\ \A i \in 1..(Len(now) - 1) : Tail(now)[i] = now[i + 1]
  BY <1>1, <1>4
<1>7. ASSUME NEW i \in 1..Len(later)
      PROVE  Tail(now)[i] = later[i]
  <2>1. i + 1 \in 1..Len(now) /\ s + (i + 1) = (s + 1) + i
    BY <1>1, <1>5
  <2> QED BY <2>1, <1>2, <1>3, <1>5, <1>6
<1>8. Tail(now) = later
  BY <1>1, <1>5, <1>6, <1>7
<1> QED BY <1>8 DEF now, later

(* The number the loop counts is the only one with its two properties.      *)
LEMMA ProcessableStepsUnique ==
    ASSUME NEW q, NEW acts \in Seq(Instruction), NEW n \in 0..Len(acts),
           \A i \in 1..n : IsCapableTo(q, acts[i]),
           n < Len(acts) => ~ IsCapableTo(q, acts[n + 1])
    PROVE  ProcessableSteps(q, acts) = n
<1> DEFINE m == ProcessableSteps(q, acts)
<1>1. /\ m \in 0..Len(acts)
      /\ \A i \in 1..m : IsCapableTo(q, acts[i])
      /\ m < Len(acts) => ~ IsCapableTo(q, acts[m + 1])
  BY ProcessableStepsExact
<1> HIDE DEF m
<1>2. Len(acts) \in Nat
  OBVIOUS
<1>3. ~ (m < n)
  BY <1>1, <1>2
<1>4. ~ (n < m)
  BY <1>1, <1>2
<1>5. m = n
  BY <1>1, <1>2, <1>3, <1>4
<1> QED BY <1>5 DEF m

(* A dish to be announced: nothing of its queue can be done here.           *)
LEMMA NothingProcessable ==
    ASSUME NEW acts \in Seq(Instruction), acts = <<>> \/ ReportsPartialDish(acts)
    PROVE  ProcessableSteps(profile, acts) = 0
<1>1. Len(acts) \in Nat
  OBVIOUS
<1>2. 0 < Len(acts) => ~ IsCapableTo(profile, acts[0 + 1])
  BY DEF ReportsPartialDish
<1> QED BY <1>1, <1>2, ProcessableStepsUnique

(* An action performed takes one step off what can be done.                 *)
LEMMA ProcessableTail ==
    ASSUME NEW q, NEW acts \in Seq(Instruction), acts # <<>>,
           IsCapableTo(q, acts[1])
    PROVE  ProcessableSteps(q, acts) = ProcessableSteps(q, Tail(acts)) + 1
<1> DEFINE rest == Tail(acts)
           m    == ProcessableSteps(q, rest)
<1>1. /\ rest \in Seq(Instruction) /\ Len(acts) \in Nat \ {0}
      /\ Len(rest) = Len(acts) - 1
      /\ \A i \in 1..Len(rest) : rest[i] = acts[i + 1]
  OBVIOUS
<1>2. /\ m \in 0..Len(rest)
      /\ \A i \in 1..m : IsCapableTo(q, rest[i])
      /\ m < Len(rest) => ~ IsCapableTo(q, rest[m + 1])
  BY <1>1, ProcessableStepsExact
<1> HIDE DEF rest, m
<1>3. m + 1 \in 0..Len(acts)
  BY <1>1, <1>2
<1>4. ASSUME NEW i \in 1..(m + 1)
      PROVE  IsCapableTo(q, acts[i])
  <2>1. CASE i = 1
    BY <2>1
  <2>2. CASE i # 1
    <3>1. i - 1 \in 1..m /\ i - 1 \in 1..Len(rest) /\ (i - 1) + 1 = i
      BY <2>2, <1>1, <1>2
    <3> QED BY <3>1, <1>1, <1>2
  <2> QED BY <2>1, <2>2
<1>5. m + 1 < Len(acts) => ~ IsCapableTo(q, acts[(m + 1) + 1])
  BY <1>1, <1>2
<1>6. ProcessableSteps(q, acts) = m + 1
  BY <1>3, <1>4, <1>5, ProcessableStepsUnique
<1> QED BY <1>6 DEF m, rest

(* PROCESSABLE_STEPS as EnqueueOrder stores it.                             *)
LEMMA ProcessableLength ==
    ASSUME NEW q, NEW acts \in Seq(Instruction)
    PROVE  Len(Processable(q, acts)) = ProcessableSteps(q, acts)
<1>1. Len(acts) \in Nat /\ ProcessableSteps(q, acts) \in 0..Len(acts)
  BY ProcessableStepsExact
<1> QED BY <1>1 DEF Processable

------------------------------------------------------------------------------
(* Every step preserves DishInv.                                            *)

LEMMA DishInitEstablishes == Init => DishInv /\ LinkInv
  BY DEF Init, DishInv, OrdersSized, DishSized, Ready, Announced, Notifying,
         Pending, Queued, HandoverIsExact, LinkInv, NotificationOutstanding

(* A step that leaves the dish alone and announces or starts nothing.       *)
LEMMA DishUntouched ==
    ASSUME DishInv,
           UNCHANGED <<order_queue, profile, dish, action_queue_in_process,
                       is_dish_finished, handed>>,
           Announced' => Announced,
           Pending("pass_time")' => Pending("pass_time")
    PROVE  DishInv'
<1>1. OrdersSized'
  BY DEF DishInv, OrdersSized
<1>2. DishSized'
  BY DEF DishInv, DishSized
<1>3. Ready'
  BY DEF DishInv, Ready
<1>4. HandoverIsExact'
  BY DEF DishInv, HandoverIsExact
<1> QED BY <1>1, <1>2, <1>3, <1>4 DEF DishInv

(* The steps that neither take nor post a handler.                          *)
QuietStep ==
    \/ CookRearranges \/ CookReconfigures \/ CookIdles \/ RecomputeDone
    \/ NotifyReturns \/ LinkStep \/ HandoverStart
    \/ \E p \in RobotPosition : HandoverCall(p)

LEMMA QuietStepKeepsDish ==
    ASSUME RobotInv, DishInv, QuietStep
    PROVE  DishInv'
<1>1. UNCHANGED <<order_queue, profile, dish, action_queue_in_process,
                  is_dish_finished, handed, io>>
  BY DEF QuietStep, LinkStep, CookRearranges, CookReconfigures, CookIdles,
         RecomputeDone, NotifyCall, NotifyReturns, NotifyFails,
         NotifyWithoutClient, ConveyorAnswers, SpuriousWakeup,
         ClientDropsConveyor, ClientReconnects, ClientReconnectFails,
         ConveyorCrashes, ConveyorRestarts, ConnectionDrops, HandoverCallLost,
         HandoverStart, HandoverCall, placeVars, orderVars, dishVars, histVars
<1>2. timer' = "pass_time" => timer = "pass_time"
  BY DEF QuietStep, LinkStep, CookRearranges, CookReconfigures, CookIdles,
         RecomputeDone, NotifyCall, NotifyReturns, NotifyFails,
         NotifyWithoutClient, ConveyorAnswers, SpuriousWakeup,
         ClientDropsConveyor, ClientReconnects, ClientReconnectFails,
         ConveyorCrashes, ConveyorRestarts, ConnectionDrops, HandoverCallLost,
         HandoverStart, HandoverCall, StartRearranging, StartReconfiguration,
         Arm
<1>3. Pending("pass_time")' => Pending("pass_time")
  BY <1>1, <1>2 DEF Pending, Queued
<1>4. Announced' => Announced
  BY DEF Announced, Notifying, QuietStep, LinkStep, CookRearranges,
         CookReconfigures, CookIdles, RecomputeDone, NotifyCall,
         NotifyReturns, NotifyFails, NotifyWithoutClient, ConveyorAnswers,
         SpuriousWakeup, ClientDropsConveyor, ClientReconnects, Woken,
         ClientReconnectFails, ConveyorCrashes, ConveyorRestarts,
         ConnectionDrops, HandoverCallLost, HandoverStart, HandoverOutcome,
         HandoverCall
<1> QED BY <1>1, <1>3, <1>4, DishUntouched

(* The steps that take a handler which does not cook.                       *)
TakingStep ==
    \/ CookPosted \/ HandleSwitchRequest \/ HandleReconfigureRequest
    \/ MoveToNewPosition \/ HandleNewPositionCommit

LEMMA TakingStepKeepsDish ==
    ASSUME RobotInv, DishInv, TakingStep
    PROVE  DishInv'
<1>1. UNCHANGED <<order_queue, profile, dish, action_queue_in_process,
                  is_dish_finished, handed>>
  BY DEF TakingStep, CookPosted, HandleSwitchRequest,
         HandleReconfigureRequest, MoveToNewPosition,
         HandleNewPositionCommit, placeVars, orderVars, dishVars, histVars
<1>2. timer' = "pass_time" => timer = "pass_time"
  BY DEF TakingStep, CookPosted, HandleSwitchRequest,
         HandleReconfigureRequest, MoveToNewPosition,
         HandleNewPositionCommit, StartRearranging, StartReconfiguration, Arm
<1>3. PICK o \in HandlerOp : Take(o)
  BY DEF TakingStep, CookPosted, HandleSwitchRequest,
         HandleReconfigureRequest, MoveToNewPosition,
         HandleNewPositionCommit, HandlerOp, PlainOp, TimedOp
<1>4. Queued("pass_time")' => Queued("pass_time")
  <2>1. io \in Seq(Handler) /\ "pass_time" \in HandlerOp
    BY DEF RobotInv, TypeOK, ControlTypes, HandlerOp, PlainOp, TimedOp
  <2> QED BY <1>3, <2>1, TakeFacts
<1>5. Announced' => Announced
  BY DEF Announced, Notifying, TakingStep, CookPosted, HandleSwitchRequest,
         HandleReconfigureRequest, MoveToNewPosition, HandleNewPositionCommit
<1> QED BY <1>1, <1>2, <1>4, <1>5, DishUntouched DEF Pending

(* The steps that post a handler and leave the dish alone.                  *)
PostingStep ==
    \/ \E r \in Recipe, p \in RobotPosition :
          \E s \in 0..(Len(Instructions[r]) - 1) : ReceiveTask(r, s, p)
    \/ \E p \in RobotPosition : SwitchPosition(p)
    \/ \E q \in Profile : Reconfigure(q)
    \/ CommitNewPosition \/ TimerExpires

(* The completion of an action or of a retooling is posted by the timer.    *)
LEMMA PostedHandler ==
    ASSUME RobotInv, PostingStep
    PROVE  \E h \in Handler :
              /\ Post(h)
              /\ h.op \in {"pass_time", "retool"} => timer = h.op
              /\ timer' # timer => h.op = timer /\ timer' = "none"
<1>1. CASE \E r \in Recipe, p \in RobotPosition :
              \E s \in 0..(Len(Instructions[r]) - 1) : ReceiveTask(r, s, p)
  <2>1. PICK r \in Recipe, p \in RobotPosition :
           \E s \in 0..(Len(Instructions[r]) - 1) : ReceiveTask(r, s, p)
    BY <1>1
  <2>2. PICK s \in 0..(Len(Instructions[r]) - 1) : ReceiveTask(r, s, p)
    BY <2>1
  <2>3. TaskHandler(r, s) \in Handler
    BY DEF TaskHandler, Handler
  <2> QED BY <2>2, <2>3 DEF ReceiveTask, TaskHandler
<1>2. CASE \E p \in RobotPosition : SwitchPosition(p)
  <2>1. PICK p \in RobotPosition : SwitchPosition(p)
    BY <1>2
  <2>2. SwitchHandler(p) \in Handler
    BY DEF SwitchHandler, Handler
  <2> QED BY <2>1, <2>2 DEF SwitchPosition, SwitchHandler
<1>3. CASE (\E q \in Profile : Reconfigure(q)) \/ CommitNewPosition
  <2>1. Plain("handle_reconfiguration") \in Handler
    BY DEF Plain, Handler, PlainOp, TimedOp
  <2>2. Plain("new_position_commit") \in Handler
    BY DEF Plain, Handler, PlainOp, TimedOp
  <2> QED BY <1>3, <2>1, <2>2 DEF Reconfigure, CommitNewPosition, Plain
<1>4. CASE TimerExpires
  <2>1. timer \in TimedOp
    BY <1>4 DEF TimerExpires, RobotInv, TypeOK, ControlTypes
  <2>2. Plain(timer) \in Handler /\ Plain(timer).op = timer
    BY <2>1 DEF Plain, Handler, PlainOp
  <2> QED BY <1>4, <2>2 DEF TimerExpires
<1> QED BY <1>1, <1>2, <1>3, <1>4 DEF PostingStep

LEMMA PostingStepKeepsDish ==
    ASSUME RobotInv, DishInv, PostingStep
    PROVE  DishInv'
<1>1. UNCHANGED <<order_queue, profile, dish, action_queue_in_process,
                  is_dish_finished, handed, worker, server, pending_pickup>>
  BY DEF PostingStep, ReceiveTask, SwitchPosition, Reconfigure,
         CommitNewPosition, TimerExpires, placeVars, orderVars, dishVars,
         histVars
<1>2. Announced' => Announced
  BY <1>1 DEF Announced, Notifying
<1>3. Pending("pass_time")' => Pending("pass_time")
  <2>1. PICK h \in Handler : Post(h) /\ (h.op = "pass_time" => timer = h.op)
    BY PostedHandler
  <2>2. Queued("pass_time")' <=> Queued("pass_time") \/ h.op = "pass_time"
    <3>1. io \in Seq(Handler) /\ "pass_time" \in HandlerOp
      BY DEF RobotInv, TypeOK, ControlTypes, HandlerOp, PlainOp, TimedOp
    <3> QED BY <2>1, <3>1, PostFacts
  <2>3. timer' = "pass_time" => timer = "pass_time"
    BY DEF PostingStep, ReceiveTask, SwitchPosition, Reconfigure,
           CommitNewPosition, TimerExpires
  <2> QED BY <2>1, <2>2, <2>3 DEF Pending
<1> QED BY <1>1, <1>2, <1>3, DishUntouched

(* An order that joins the queue brings the number of steps the present     *)
(* profile can do of it.                                                    *)
LEMMA EnqueueOrderKeepsSizes ==
    ASSUME TypeOK, OrdersSized, NEW r \in Recipe, NEW s \in Nat,
           EnqueueOrder(r, s), profile' = profile
    PROVE  OrdersSized'
<1> DEFINE acts == Remaining(r, s)
           o    == [recipe_id |-> r, steps |-> s,
                    processable |-> Len(Processable(profile, acts))]
<1>1. acts \in Seq(Instruction)
  BY RemainingType
<1>2. o.processable = ProcessableSteps(profile, acts)
  BY <1>1, ProcessableLength
<1>3. order_queue' = Append(order_queue, o) /\ order_queue \in Seq(Order)
  BY DEF EnqueueOrder, TypeOK, DataTypes
<1>4. o.recipe_id = r /\ o.steps = s
  OBVIOUS
<1>5. o.processable =
        ProcessableSteps(profile, Remaining(o.recipe_id, o.steps))
  BY <1>2, <1>4
<1> HIDE DEF o
<1>6. /\ DOMAIN order_queue = 1..Len(order_queue) /\ Len(order_queue) \in Nat
      /\ DOMAIN order_queue' = 1..(Len(order_queue) + 1)
      /\ \A i \in 1..Len(order_queue) : order_queue'[i] = order_queue[i]
      /\ order_queue'[Len(order_queue) + 1] = o
  BY <1>3
<1>7. ASSUME NEW i \in DOMAIN order_queue'
      PROVE  order_queue'[i].processable =
               ProcessableSteps(profile, Remaining(order_queue'[i].recipe_id,
                                                   order_queue'[i].steps))
  <2>1. CASE i = Len(order_queue) + 1
    BY <2>1, <1>5, <1>6
  <2>2. CASE i # Len(order_queue) + 1
    <3>1. i \in DOMAIN order_queue /\ order_queue'[i] = order_queue[i]
      BY <2>2, <1>6
    <3> QED BY <3>1 DEF OrdersSized
  <2> QED BY <2>1, <2>2
<1> QED BY <1>7 DEF OrdersSized

(* The two ways into EnqueueOrder.                                          *)
LEMMA EnqueueingKeepsDish ==
    ASSUME RobotInv, DishInv, HandleReceiveTask \/ RecomputeOrder
    PROVE  DishInv'
<1>1. UNCHANGED <<profile, dish, action_queue_in_process, is_dish_finished,
                  handed, server, pending_pickup, timer>>
  BY DEF HandleReceiveTask, RecomputeOrder, placeVars, dishVars, histVars
<1>2. OrdersSized'
  <2>1. CASE HandleReceiveTask
    <3>1. Head(io) \in Handler /\ Head(io).op = "receive_task"
      <4>1. io \in Seq(Handler) /\ "receive_task" \in HandlerOp
        BY DEF RobotInv, TypeOK, ControlTypes, HandlerOp
      <4> QED BY <2>1, <4>1, TakeFacts DEF HandleReceiveTask
    <3>2. Head(io).recipe_id \in Recipe /\ Head(io).steps \in Nat
      BY <3>1 DEF Handler, PlainOp, TimedOp
    <3> QED BY <2>1, <3>2, <1>1, EnqueueOrderKeepsSizes
            DEF HandleReceiveTask, RobotInv, DishInv
  <2>2. CASE RecomputeOrder
    <3>1. Head(pending_orders) \in Order
      BY <2>2 DEF RecomputeOrder, RobotInv, TypeOK, DataTypes
    <3>2. /\ Head(pending_orders).recipe_id \in Recipe
          /\ Head(pending_orders).steps \in Nat
      BY <3>1 DEF Order
    <3> QED BY <2>2, <3>2, <1>1, EnqueueOrderKeepsSizes
            DEF RecomputeOrder, RobotInv, DishInv
  <2> QED BY <2>1, <2>2
<1>3. Announced' => Announced
  BY <1>1 DEF Announced, Notifying, HandleReceiveTask, RecomputeOrder, Take
<1>4. Queued("pass_time")' => Queued("pass_time")
  <2>1. io \in Seq(Handler) /\ {"pass_time", "receive_task"} \subseteq HandlerOp
    BY DEF RobotInv, TypeOK, ControlTypes, HandlerOp, PlainOp, TimedOp
  <2>2. CASE HandleReceiveTask
    BY <2>1, <2>2, TakeFacts DEF HandleReceiveTask
  <2>3. CASE RecomputeOrder
    BY <2>3 DEF RecomputeOrder, Queued
  <2> QED BY <2>2, <2>3
<1>5. DishSized'
  BY <1>1 DEF DishInv, DishSized
<1>6. Ready'
  BY <1>1, <1>3, <1>4 DEF DishInv, Ready, Pending
<1>7. HandoverIsExact'
  BY <1>1 DEF DishInv, HandoverIsExact
<1> QED BY <1>2, <1>5, <1>6, <1>7 DEF DishInv

(* determine_next_action announces only what the robot can do no more of,   *)
(* and starts only what it is capable to.                                   *)
LEMMA NextActionReady ==
    ASSUME NEW acts \in Seq(Instruction), NEW tool, NEW left,
           DetermineNextAction(acts, tool, left),
           action_queue_in_process' = acts, profile' = profile,
           timer = "none", ~ Queued("pass_time")',
           ~ pending_pickup', server' # "replying"
    PROVE  Ready'
<1>1. CASE acts = <<>> \/ ReportsPartialDish(acts)
  <2>1. is_dish_finished' = (acts = <<>>) /\ timer' = "none"
    BY <1>1 DEF DetermineNextAction
  <2>2. ProcessableSteps(profile, acts) = 0
    BY <1>1, NothingProcessable
  <2> QED BY <2>1, <2>2 DEF Ready, Pending
<1>2. CASE ~ (acts = <<>> \/ ReportsPartialDish(acts))
  <2>1. IsCapableTo(profile, acts[1])
    BY <1>2 DEF ReportsPartialDish
  <2>2. worker' = "idle"
    BY <1>2 DEF DetermineNextAction
  <2>3. ~ Announced'
    BY <2>2 DEF Announced, Notifying
  <2> QED BY <2>1, <2>3 DEF Ready
<1> QED BY <1>1, <1>2

(* cook_next_order takes the first order and starts the dish.               *)
LEMMA CookStartsKeepsDish ==
    ASSUME RobotInv, DishInv, CookStarts
    PROVE  DishInv'
<1> DEFINE next == Head(order_queue)
           acts == Remaining(next.recipe_id, next.steps)
<1>1. /\ order_queue \in Seq(Order) /\ order_queue # <<>>
      /\ order_queue' = Tail(order_queue)
  BY DEF RobotInv, TypeOK, DataTypes, CookStarts
<1>2. /\ next = order_queue[1] /\ next \in Order /\ 1 \in DOMAIN order_queue
      /\ DOMAIN order_queue' = 1..(Len(order_queue) - 1)
      /\ \A i \in DOMAIN order_queue' :
            /\ order_queue'[i] = order_queue[i + 1]
            /\ i + 1 \in DOMAIN order_queue
  BY <1>1
<1>3. next.recipe_id \in Recipe /\ next.steps \in Nat
  BY <1>2 DEF Order
<1>4. acts \in Seq(Instruction)
  BY <1>3, RemainingType
<1>5. next.processable = ProcessableSteps(profile, acts)
  BY <1>2 DEF DishInv, OrdersSized
<1>6. /\ dish' = [recipe_id |-> next.recipe_id, steps |-> next.steps,
                  processed |-> 0, processable |-> next.processable]
      /\ action_queue_in_process' = acts
      /\ DetermineNextAction(acts, current_tool, duration_left)
      /\ profile' = profile /\ handed' = handed
  BY DEF CookStarts, placeVars, histVars
<1>7. ~ DishUnderWay
  BY DEF RobotInv, Phases, CookStarts, AtCook
<1> HIDE DEF acts, next
<1>8. OrdersSized'
  BY <1>2, <1>6 DEF DishInv, OrdersSized
<1>9. DishSized'
  <2>1. /\ dish'.recipe_id = next.recipe_id /\ dish'.steps = next.steps
        /\ dish'.processed = 0 /\ dish'.processable = next.processable
    BY <1>6
  <2>2. dish'.steps + dish'.processed = next.steps
    BY <2>1, <1>3
  <2>3. ProcessableSteps(profile, acts) \in Nat
    <3>1. Len(acts) \in Nat /\ ProcessableSteps(profile, acts) \in 0..Len(acts)
      BY <1>4, ProcessableStepsExact
    <3> QED BY <3>1
  <2>4. dish'.processable
          = ProcessableSteps(profile', Remaining(dish'.recipe_id, dish'.steps))
    BY <2>1, <1>5, <1>6 DEF acts
  <2>5. dish'.processed + ProcessableSteps(profile', action_queue_in_process')
          = dish'.processable
    BY <2>1, <2>3, <1>5, <1>6
  <2>6. action_queue_in_process'
          = Remaining(dish'.recipe_id, dish'.steps + dish'.processed)
    BY <2>1, <2>2, <1>6 DEF acts
  <2> QED BY <2>4, <2>5, <2>6 DEF DishSized
<1>10. Ready'
  <2>1. /\ timer = "none" /\ ~ Queued("pass_time")'
        /\ ~ pending_pickup' /\ server' # "replying"
    BY <1>7 DEF DishUnderWay, Pending, Queued, CookStarts, AtCook, RobotInv,
           SingleDriver, Driver, Drives, Phases, TypeOK, ControlTypes, TimedOp
  <2> QED BY <2>1, <1>4, <1>6, NextActionReady
<1>11. HandoverIsExact'
  BY <1>6 DEF DishInv, HandoverIsExact
<1> QED BY <1>8, <1>9, <1>10, <1>11 DEF DishInv

(* What a handler of a running action or retooling finds.                   *)
LEMMA CookingStepFacts ==
    ASSUME RobotInv, NEW o \in {"retool", "pass_time"}, Take(o)
    PROVE  /\ Queued(o) /\ ~ Queued("pass_time")' /\ ~ Queued("retool")'
           /\ timer = "none" /\ ~ pending_pickup /\ server # "replying"
           /\ action_queue_in_process \in Seq(Instruction)
           /\ action_queue_in_process # <<>>
           /\ dish.recipe_id \in Recipe /\ dish # NoDish
<1>1. o \in HandlerOp /\ o \in DrivingOp /\ io \in Seq(Handler)
  BY DEF RobotInv, TypeOK, ControlTypes, HandlerOp, DrivingOp, PlainOp, TimedOp
<1>2. Queued(o) /\ \A op \in DrivingOp : ~ Queued(op)'
  BY <1>1, TakeFacts DEF RobotInv, SingleDriver
<1>3. ~ Queued("pass_time")' /\ ~ Queued("retool")'
  BY <1>2 DEF DrivingOp, TimedOp
<1>4. Drives("queued")
  BY <1>1, <1>2 DEF Drives
<1>5. timer = "none" /\ ~ pending_pickup /\ server # "replying"
  BY <1>4 DEF RobotInv, SingleDriver, Driver, Drives
<1>6. /\ action_queue_in_process # <<>> /\ dish.recipe_id \in Recipe
      /\ action_queue_in_process \in Seq(Instruction)
  BY <1>2 DEF RobotInv, AtHand, DishUnderWay, Pending, TypeOK, DataTypes
<1>7. dish # NoDish
  BY <1>6, RecipesAssumption DEF NoDish
<1> QED BY <1>2, <1>3, <1>5, <1>6, <1>7

LEMMA RetoolKeepsDish ==
    ASSUME RobotInv, DishInv, Retool
    PROVE  DishInv'
<1>1. /\ timer = "none" /\ ~ Queued("pass_time")'
      /\ ~ pending_pickup /\ server # "replying"
      /\ action_queue_in_process \in Seq(Instruction)
  BY CookingStepFacts DEF Retool
<1>2. UNCHANGED <<order_queue, profile, dish, action_queue_in_process, handed,
                  pending_pickup, server>>
  BY DEF Retool, placeVars, histVars
<1>3. Ready'
  <2>1. DetermineNextAction(action_queue_in_process, current_tool',
                            duration_left)
    BY DEF Retool
  <2> QED BY <1>1, <1>2, <2>1, NextActionReady
<1>4. OrdersSized' /\ DishSized'
  BY <1>2 DEF DishInv, OrdersSized, DishSized
<1>5. HandoverIsExact'
  BY <1>2 DEF DishInv, HandoverIsExact
<1> QED BY <1>3, <1>4, <1>5 DEF DishInv

LEMMA PassTimeKeepsDish ==
    ASSUME RobotInv, DishInv, PassTime
    PROVE  DishInv'
<1>1. Queued("pass_time")
  BY CookingStepFacts DEF PassTime
<1>2. UNCHANGED <<order_queue, profile, dish, action_queue_in_process, handed,
                  is_dish_finished, worker, pending_pickup, server>>
  BY DEF PassTime, placeVars, histVars
<1>3. Announced' => Announced
  BY <1>2 DEF Announced, Notifying
<1> QED BY <1>1, <1>2, <1>3, DishUntouched DEF Pending

(* action_performed: one step more, one action less.                        *)
LEMMA ActionPerformedKeepsDish ==
    ASSUME RobotInv, DishInv, ActionPerformed
    PROVE  DishInv'
<1> DEFINE acts == action_queue_in_process
           n    == ProcessableSteps(profile, Tail(acts))
<1>1. /\ Queued("pass_time") /\ timer = "none" /\ ~ Queued("pass_time")'
      /\ ~ pending_pickup /\ server # "replying"
      /\ acts \in Seq(Instruction) /\ acts # <<>>
      /\ dish.recipe_id \in Recipe /\ dish # NoDish
  BY CookingStepFacts DEF ActionPerformed
<1>2. UNCHANGED <<order_queue, profile, handed, pending_pickup, server>>
  BY DEF ActionPerformed, placeVars, histVars
<1>3. action_queue_in_process' = Tail(acts) /\ Tail(acts) \in Seq(Instruction)
  BY <1>1 DEF ActionPerformed
<1>4. Ready'
  <2>1. DetermineNextAction(Tail(acts), current_tool, 0)
    BY <1>3 DEF ActionPerformed
  <2> QED BY <1>1, <1>2, <1>3, <2>1, NextActionReady
<1>5. /\ dish'.recipe_id = dish.recipe_id /\ dish'.steps = dish.steps
      /\ dish'.processable = dish.processable
      /\ dish'.processed = dish.processed + 1
      /\ dish.steps \in Nat /\ dish.processed \in Nat
  <2>1. dish \in [recipe_id : Recipe \cup {0}, steps : Nat, processed : Nat,
                  processable : Nat]
    BY DEF RobotInv, TypeOK, DataTypes
  <2>2. dish' = [dish EXCEPT !.processed = dish.processed + 1]
    BY DEF ActionPerformed
  <2> QED BY <2>1, <2>2
<1>6. /\ dish.processable
            = ProcessableSteps(profile, Remaining(dish.recipe_id, dish.steps))
      /\ dish.processed + ProcessableSteps(profile, acts) = dish.processable
      /\ acts = Remaining(dish.recipe_id, dish.steps + dish.processed)
  BY <1>1 DEF DishInv, DishSized
<1>7. ProcessableSteps(profile, acts) = n + 1
  <2>1. IsCapableTo(profile, acts[1])
    BY <1>1 DEF DishInv, Ready, Pending
  <2> QED BY <1>1, <2>1, ProcessableTail
<1>8. n \in Nat
  <2> DEFINE rest == Tail(acts)
  <2>1. rest \in Seq(Instruction)
    BY <1>3
  <2> HIDE DEF rest
  <2>2. Len(rest) \in Nat /\ ProcessableSteps(profile, rest) \in 0..Len(rest)
    BY <2>1, ProcessableStepsExact
  <2>3. ProcessableSteps(profile, rest) \in Nat
    BY <2>2
  <2> QED BY <2>3 DEF rest
<1>9. Tail(acts)
        = Remaining(dish.recipe_id, dish.steps + (dish.processed + 1))
  <2>1. /\ dish.steps + dish.processed \in Nat
        /\ (dish.steps + dish.processed) + 1
              = dish.steps + (dish.processed + 1)
    BY <1>5
  <2>2. Tail(acts)
          = Remaining(dish.recipe_id, (dish.steps + dish.processed) + 1)
    BY <1>1, <1>6, <2>1, RemainingTail
  <2> QED BY <2>1, <2>2
<1> HIDE DEF acts, n
<1>10. DishSized'
  <2>1. dish'.processed + n = dish'.processable
    BY <1>5, <1>6, <1>7, <1>8
  <2>2. ProcessableSteps(profile', action_queue_in_process') = n
    BY <1>2, <1>3 DEF n
  <2>3. action_queue_in_process'
          = Remaining(dish'.recipe_id, dish'.steps + dish'.processed)
    BY <1>3, <1>5, <1>9
  <2>4. dish'.processable
          = ProcessableSteps(profile', Remaining(dish'.recipe_id, dish'.steps))
    BY <1>2, <1>5, <1>6
  <2> QED BY <2>1, <2>2, <2>3, <2>4 DEF DishSized
<1>11. OrdersSized' /\ HandoverIsExact'
  BY <1>2 DEF DishInv, OrdersSized, HandoverIsExact
<1> QED BY <1>4, <1>10, <1>11 DEF DishInv

(* A new profile finds no dish aboard and empties the queue.                *)
LEMMA CompleteReconfigurationKeepsDish ==
    ASSUME RobotInv, DishInv, CompleteReconfiguration
    PROVE  DishInv'
<1>1. dish = NoDish /\ ~ DishUnderWay
  BY AdaptationIsAlone
<1>2. /\ order_queue' = <<>> /\ dish' = dish /\ handed' = handed
      /\ timer' = timer /\ worker' = "recompute"
      /\ pending_pickup' = pending_pickup /\ server' = server
  BY DEF CompleteReconfiguration, histVars
<1>3. ~ Announced' /\ timer' # "pass_time"
  BY <1>1, <1>2 DEF Announced, Notifying, DishUnderWay, Pending
<1>4. ~ Queued("pass_time")'
  <2>1. /\ io \in Seq(Handler)
        /\ {"pass_time", "complete_reconfiguration"} \subseteq HandlerOp
    BY DEF RobotInv, TypeOK, ControlTypes, HandlerOp, PlainOp, TimedOp
  <2>2. Queued("pass_time")' => Queued("pass_time")
    BY <2>1, TakeFacts DEF CompleteReconfiguration
  <2> QED BY <1>1, <2>2 DEF DishUnderWay, Pending
<1>5. OrdersSized' /\ DishSized'
  BY <1>1, <1>2 DEF OrdersSized, DishSized, NoDish
<1>6. Ready'
  BY <1>3, <1>4 DEF Ready, Pending
<1>7. HandoverIsExact'
  BY <1>2 DEF DishInv, HandoverIsExact
<1> QED BY <1>5, <1>6, <1>7 DEF DishInv

(* What leaves has gone as far as it can here, and says so.                 *)
LEMMA HandedDishIsExact ==
    ASSUME RobotInv, DishInv, server = "replying"
    PROVE  LET all == Remaining(dish.recipe_id, dish.steps)
           IN  /\ dish.processed = ProcessableSteps(profile, all)
               /\ is_dish_finished = (dish.processed = Len(all))
<1> DEFINE all  == Remaining(dish.recipe_id, dish.steps)
           left == action_queue_in_process
<1>1. dish.recipe_id \in Recipe /\ dish # NoDish
  <2>1. dish.recipe_id \in Recipe
    BY DEF RobotInv, AtHand, DishUnderWay
  <2> QED BY <2>1, RecipesAssumption DEF NoDish
<1>2. dish.steps \in Nat /\ dish.processed \in Nat
  BY DEF RobotInv, TypeOK, DataTypes
<1>3. /\ dish.processable = ProcessableSteps(profile, all)
      /\ dish.processed + ProcessableSteps(profile, left) = dish.processable
      /\ left = Remaining(dish.recipe_id, dish.steps + dish.processed)
  BY <1>1 DEF DishInv, DishSized
<1>4. ProcessableSteps(profile, left) = 0 /\ is_dish_finished = (left = <<>>)
  BY DEF DishInv, Ready, Announced
<1>5. dish.processed = ProcessableSteps(profile, all)
  BY <1>2, <1>3, <1>4
<1>6. all \in Seq(Instruction) /\ left \in Seq(Instruction)
  BY <1>1, <1>2, <1>3, RemainingType
<1>7. dish.processed <= Len(all)
  <2>1. Len(all) \in Nat /\ ProcessableSteps(profile, all) \in 0..Len(all)
    BY <1>6, ProcessableStepsExact
  <2> QED BY <2>1, <1>5
<1>8. /\ Len(Instructions[dish.recipe_id]) \in Nat
      /\ Len(all) = IF dish.steps < Len(Instructions[dish.recipe_id])
                     THEN Len(Instructions[dish.recipe_id]) - dish.steps
                     ELSE 0
  BY <1>1, <1>2, RemainingElements
<1>9. Len(left) = IF dish.steps + dish.processed
                        < Len(Instructions[dish.recipe_id])
                  THEN Len(Instructions[dish.recipe_id])
                         - (dish.steps + dish.processed)
                  ELSE 0
  <2>1. dish.steps + dish.processed \in Nat
    BY <1>2
  <2> QED BY <1>1, <1>3, <2>1, RemainingElements
<1> HIDE DEF all, left
<1>10. Len(left) = 0 <=> dish.processed = Len(all)
  BY <1>2, <1>7, <1>8, <1>9
<1>11. left = <<>> <=> dish.processed = Len(all)
  BY <1>6, <1>10
<1>12. is_dish_finished = (dish.processed = Len(all))
  BY <1>4, <1>11
<1> QED BY <1>5, <1>12 DEF all

LEMMA HandoverReplyKeepsDish ==
    ASSUME RobotInv, RobotInv', DishInv, HandoverReply
    PROVE  DishInv'
<1> DEFINE h == [recipe_id |-> dish.recipe_id, steps |-> dish.steps,
                 processed |-> dish.processed, finished |-> is_dish_finished,
                 profile   |-> profile]
           Exact(e) ==
             /\ e.processed = ProcessableSteps(e.profile,
                                 Remaining(e.recipe_id, e.steps))
             /\ e.finished = (e.processed = Len(Remaining(e.recipe_id, e.steps)))
<1>1. /\ UNCHANGED <<order_queue, profile, action_queue_in_process, timer>>
      /\ handed' = Append(handed, h) /\ dish' = NoDish /\ server = "replying"
  BY DEF HandoverReply, placeVars, orderVars
<1>2. Exact(h)
  BY <1>1, HandedDishIsExact
<1> HIDE DEF h, Exact
<1>3. /\ DOMAIN handed' = 1..(Len(handed) + 1) /\ DOMAIN handed = 1..Len(handed)
      /\ \A i \in 1..Len(handed) : handed'[i] = handed[i]
      /\ handed'[Len(handed) + 1] = h /\ Len(handed) \in Nat
  <2>1. handed \in Seq([recipe_id : Recipe, steps : Nat, processed : Nat,
                        finished : BOOLEAN, profile : Profile])
    BY DEF RobotInv, TypeOK, DataTypes
  <2> QED BY <1>1, <2>1
<1>4. \A i \in DOMAIN handed : Exact(handed[i])
  BY DEF DishInv, HandoverIsExact, Exact
<1>5. \A i \in DOMAIN handed' : Exact(handed'[i])
  BY <1>2, <1>3, <1>4
<1>6. HandoverIsExact'
  BY <1>5 DEF HandoverIsExact, Exact
<1>7. ~ DishUnderWay'
  <2>1. Queued("cook_next_order")'
    <3>1. Plain("cook_next_order") \in Handler /\ "cook_next_order" \in HandlerOp
      BY DEF Plain, Handler, HandlerOp, PlainOp, TimedOp
    <3>2. io \in Seq(Handler) /\ Plain("cook_next_order").op = "cook_next_order"
      BY DEF RobotInv, TypeOK, ControlTypes, Plain
    <3> QED BY <3>1, <3>2, PostFacts DEF HandoverReply
  <2>2. Drives("queued")'
    BY <2>1 DEF Drives, DrivingOp
  <2>3. /\ timer' = "none" /\ ~ pending_pickup' /\ server' # "replying"
        /\ worker' \in {"idle", "cook"}
    BY <2>2 DEF RobotInv, SingleDriver, Driver, Drives
  <2>4. OneQueuedDriver'
    BY DEF RobotInv, SingleDriver
  <2>5. ~ Queued("retool")' /\ ~ Queued("pass_time")'
    BY <2>1, <2>4 DEF OneQueuedDriver, Queued, DrivingOp, TimedOp
  <2> QED BY <2>3, <2>5 DEF DishUnderWay, Pending, Notifying
<1>8. Ready'
  BY <1>7 DEF Ready, Announced, DishUnderWay
<1>9. OrdersSized' /\ DishSized'
  BY <1>1 DEF DishInv, OrdersSized, DishSized
<1> QED BY <1>6, <1>8, <1>9 DEF DishInv

LEMMA DishNextKeeps ==
    ASSUME RobotInv, RobotInv', DishInv, [Next]_vars
    PROVE  DishInv'
<1>1. CASE ServerStep
  BY <1>1, PostingStepKeepsDish, QuietStepKeepsDish, HandoverReplyKeepsDish
     DEF ServerStep, PostingStep, QuietStep
<1>2. CASE WorkerStep
  BY <1>2, QuietStepKeepsDish, TakingStepKeepsDish, EnqueueingKeepsDish,
     CookStartsKeepsDish, RetoolKeepsDish, PassTimeKeepsDish,
     ActionPerformedKeepsDish, CompleteReconfigurationKeepsDish
     DEF WorkerStep, QuietStep, TakingStep, LinkStep
<1>3. CASE ClientStep \/ ConveyorAnswers \/ ConveyorRestarts \/ Fault
  BY <1>3, QuietStepKeepsDish DEF ClientStep, Fault, QuietStep, LinkStep
<1>4. CASE TimerExpires
  BY <1>4, PostingStepKeepsDish DEF PostingStep
<1>5. CASE UNCHANGED vars
  BY <1>5, DishUntouched DEF vars, placeVars, orderVars, dishVars, histVars,
     Announced, Notifying, Pending, Queued
<1> QED BY <1>1, <1>2, <1>3, <1>4, <1>5 DEF Next

(* DishInv holds in every state the robot reaches.                          *)
THEOREM DishInvariance == Spec => []DishInv
<1>1. RobotInv /\ RobotInv' /\ DishInv /\ [Next]_vars => DishInv'
  BY DishNextKeeps
<1>2. Init => DishInv
  BY DishInitEstablishes
<1> QED BY <1>1, <1>2, Invariance, PTL DEF Spec

(* Every dish the robot ever gave away went exactly as far as its profile   *)
(* could take it, and was flagged finished exactly when nothing remained.   *)
THEOREM HandedOverExact == Spec => []HandoverIsExact
<1>1. DishInv => HandoverIsExact
  BY DEF DishInv
<1> QED BY <1>1, DishInvariance, PTL

(* PROCESSABLE_STEPS and the action queue stay right across any number of   *)
(* reconfigurations, for every queue.                                       *)
THEOREM StepsKept == Spec => []ProcessableStepsKept
<1>1. ASSUME RobotInv, DishInv
      PROVE  ProcessableStepsKept
  <2>1. action_queue_in_process \in Seq(Instruction)
    BY <1>1 DEF RobotInv, TypeOK, DataTypes
  <2>2. Len(Processable(profile, action_queue_in_process))
          = ProcessableSteps(profile, action_queue_in_process)
    BY <2>1, ProcessableLength
  <2> QED BY <1>1, <2>2 DEF DishInv, OrdersSized, DishSized,
                            ProcessableStepsKept
<1>2. RobotInv /\ DishInv => ProcessableStepsKept
  BY <1>1
<1> QED BY <1>2, Invariance, DishInvariance, PTL

------------------------------------------------------------------------------
(* The conveyor and the dish that waits, when no handover call of the       *)
(* conveyor is lost: any number of its crashes and restarts, of broken      *)
(* connections and of answers that do not arrive.                           *)

LEMMA ConveyorSideKeepsLink ==
    ASSUME RobotInv, LinkInv, ~ LosesHandoverCalls, LinkStep
    PROVE  LinkInv'
<1>1. position' = position
  BY DEF LinkStep, NotifyCall, ConveyorAnswers, NotifyFails,
         NotifyWithoutClient, SpuriousWakeup, ClientDropsConveyor,
         ClientReconnects, ClientReconnectFails, ConveyorCrashes,
         ConveyorRestarts, ConnectionDrops, HandoverCallLost, placeVars
<1>2. pending_pickup' = pending_pickup /\ server' = server
  BY DEF LinkStep, NotifyCall, ConveyorAnswers, NotifyFails,
         NotifyWithoutClient, SpuriousWakeup, ClientDropsConveyor,
         ClientReconnects, ClientReconnectFails, ConveyorCrashes,
         ConveyorRestarts, ConnectionDrops, HandoverCallLost
<1>3. CASE ConveyorCrashes \/ ConnectionDrops \/ NotifyFails
           \/ ClientDropsConveyor
  BY <1>3 DEF LinkInv, NotificationOutstanding, ConveyorCrashes,
         ConnectionDrops, NotifyFails, ClientDropsConveyor, Broken
<1>4. CASE ClientReconnects
  BY <1>1, <1>2, <1>4 DEF LinkInv, NotificationOutstanding,
         ClientReconnects, Reannounced, Woken, ClientMutexFree
<1>5. CASE ClientReconnectFails
  BY <1>1, <1>2, <1>5 DEF LinkInv, NotificationOutstanding,
         ClientReconnectFails, ClientMutexFree
<1>6. CASE ConveyorAnswers
  BY <1>1, <1>2, <1>6 DEF LinkInv, NotificationOutstanding, ConveyorAnswers
<1>7. CASE NotifyCall \/ NotifyWithoutClient \/ SpuriousWakeup
           \/ ConveyorRestarts
  BY <1>1, <1>2, <1>7 DEF LinkInv, NotificationOutstanding, NotifyCall,
         NotifyWithoutClient, SpuriousWakeup, ConveyorRestarts, linkVars
<1>8. CASE \E p \in RobotPosition : HandoverCallLost(p)
  BY <1>8 DEF HandoverCallLost
<1> QED BY <1>3, <1>4, <1>5, <1>6, <1>7, <1>8 DEF LinkStep

LEMMA HandoverKeepsLink ==
    ASSUME RobotInv, LinkInv,
           \/ HandoverStart \/ HandoverReply \/ NotifyReturns
           \/ \E p \in RobotPosition : HandoverCall(p)
    PROVE  LinkInv'
<1>1. CASE \E p \in RobotPosition : HandoverCall(p)
  BY <1>1 DEF LinkInv, NotificationOutstanding, HandoverCall
<1>2. CASE HandoverStart
  BY <1>2 DEF LinkInv, NotificationOutstanding, HandoverStart,
         ClientMutexFree, placeVars, linkVars
<1>3. CASE HandoverReply
  <2>1. ~ pending_pickup /\ worker # "answered"
    BY <1>3 DEF HandoverReply, RobotInv, SingleDriver, Driver, Drives
  <2> QED BY <1>3, <2>1 DEF LinkInv, NotificationOutstanding, HandoverReply
<1>4. CASE NotifyReturns
  BY <1>4 DEF LinkInv, NotificationOutstanding, NotifyReturns, placeVars,
         linkVars
<1> QED BY <1>1, <1>2, <1>3, <1>4

(* The robot moves and reconfigures with nothing announced.                 *)
LEMMA AdaptationKeepsLink ==
    ASSUME RobotInv, LinkInv, MoveToNewPosition \/ CompleteReconfiguration
    PROVE  LinkInv'
<1>1. ~ pending_pickup /\ ~ Notifying
  BY AdaptationIsAlone DEF DishUnderWay
<1>2. pending_pickup' = pending_pickup /\ worker' # "answered"
  BY <1>1 DEF MoveToNewPosition, CompleteReconfiguration, Notifying
<1> QED BY <1>1, <1>2 DEF LinkInv, NotificationOutstanding

(* The other steps neither move the robot nor touch the announcement.       *)
LEMMA OtherStepKeepsLink ==
    ASSUME LinkInv, position' = position,
           UNCHANGED <<notifications, conveyor_client, server, pending_pickup>>,
           worker' = "answered" => worker = "answered"
    PROVE  LinkInv'
  BY DEF LinkInv, NotificationOutstanding

LEMMA LinkNextKeeps ==
    ASSUME RobotInv, LinkInv, ~ LosesHandoverCalls, [Next]_vars
    PROVE  LinkInv'
<1>1. CASE PostingStep
  BY <1>1, OtherStepKeepsLink
     DEF PostingStep, ReceiveTask, SwitchPosition, Reconfigure,
         CommitNewPosition, TimerExpires, placeVars, linkVars
<1>2. CASE CookRearranges \/ CookReconfigures \/ CookIdles \/ RecomputeDone
  BY <1>2, OtherStepKeepsLink
     DEF CookRearranges, CookReconfigures, CookIdles, RecomputeDone,
         placeVars, linkVars
<1>3. CASE CookPosted \/ HandleSwitchRequest \/ HandleReconfigureRequest
           \/ HandleNewPositionCommit \/ HandleReceiveTask \/ RecomputeOrder
  BY <1>3, OtherStepKeepsLink
     DEF CookPosted, HandleSwitchRequest, HandleReconfigureRequest,
         HandleNewPositionCommit, HandleReceiveTask, RecomputeOrder,
         placeVars, linkVars
<1>4. CASE CookStarts \/ Retool \/ PassTime \/ ActionPerformed
  <2>1. /\ position' = position
        /\ UNCHANGED <<notifications, conveyor_client, server, pending_pickup>>
    BY <1>4 DEF CookStarts, Retool, PassTime, ActionPerformed, placeVars,
           linkVars
  <2>2. worker' = "answered" => worker = "answered"
    BY <1>4 DEF CookStarts, Retool, PassTime, ActionPerformed,
           DetermineNextAction
  <2> QED BY <2>1, <2>2, OtherStepKeepsLink
<1>5. CASE \/ HandoverStart \/ HandoverReply \/ NotifyReturns
           \/ \E p \in RobotPosition : HandoverCall(p)
  BY <1>5, HandoverKeepsLink
<1>6. CASE MoveToNewPosition \/ CompleteReconfiguration
  BY <1>6, AdaptationKeepsLink
<1>7. CASE LinkStep
  BY <1>7, ConveyorSideKeepsLink
<1>8. CASE UNCHANGED vars
  BY <1>8, OtherStepKeepsLink DEF vars, placeVars, linkVars
<1> QED
  BY <1>1, <1>2, <1>3, <1>4, <1>5, <1>6, <1>7, <1>8
     DEF Next, ServerStep, WorkerStep, ClientStep, Fault, PostingStep, LinkStep

(* As long as the conveyor's own handover calls arrive, it always knows of  *)
(* a dish that waits at a robot which believes it connected, however often  *)
(* it crashed and however often the connection broke.                       *)
THEOREM AnnouncementSurvives ==
    ASSUME ~ LosesHandoverCalls
    PROVE  Spec => []NotificationOutstanding
<1>1. RobotInv /\ LinkInv /\ [Next]_vars => LinkInv'
  BY LinkNextKeeps
<1>2. Init => LinkInv
  BY DishInitEstablishes
<1>3. LinkInv => NotificationOutstanding
  BY DEF LinkInv
<1> QED BY <1>1, <1>2, <1>3, Invariance, PTL DEF Spec


------------------------------------------------------------------------------
(* First come, first served: DishesInOrder.  A list of the posted tasks     *)
(* grows at its end, loses its first or moves up, whatever else is posted   *)
(* or taken meanwhile.                                                      *)

(* Orders wait to be recomputed only while state_mutex_ is held.            *)
RecomputedInOneGo == pending_orders # <<>> => state_lock = "worker"

(* at lists the k posted tasks, and what is accepted is what is known       *)
(* followed by them.                                                        *)
Listing(k, at) ==
    /\ \A n \in 1..k : at[n] \in Posted
    /\ \A m, n \in 1..k : m < n => at[m] < at[n]
    /\ \A i \in Posted : \E n \in 1..k : at[n] = i
    /\ Len(accepted) = Len(Known) + k
    /\ \A i \in 1..Len(Known) : accepted[i] = Known[i]
    /\ \A n \in 1..k : accepted[Len(Known) + n] = TaskOf(io[at[n]])

InOrder == \E k \in Nat : \E at \in [1..k -> Nat] : Listing(k, at)

FlowInv == RecomputedInOneGo /\ InOrder

Dishes == [recipe_id : Recipe \cup {0}, steps : Nat]

(* The tasks of a queue, one by one; S is whatever the queue holds.         *)
LEMMA TasksFacts ==
    ASSUME NEW S, NEW orders \in Seq(S), \A o \in S : TaskOf(o) \in Dishes
    PROVE  /\ Tasks(orders) \in Seq(Dishes)
           /\ Len(Tasks(orders)) = Len(orders)
           /\ \A i \in 1..Len(orders) : Tasks(orders)[i] = TaskOf(orders[i])
<1>1. DOMAIN orders = 1..Len(orders) /\ Len(orders) \in Nat
  OBVIOUS
<1>2. \A i \in 1..Len(orders) : TaskOf(orders[i]) \in Dishes
  BY <1>1
<1> QED BY <1>1, <1>2 DEF Tasks

LEMMA TasksOfAppend ==
    ASSUME NEW S, NEW orders \in Seq(S), NEW o \in S,
           \A e \in S : TaskOf(e) \in Dishes
    PROVE  Tasks(Append(orders, o)) = Tasks(orders) \o <<TaskOf(o)>>
<1> DEFINE more == Append(orders, o)
<1>1. /\ more \in Seq(S) /\ Len(more) = Len(orders) + 1 /\ Len(orders) \in Nat
      /\ \A i \in 1..Len(orders) : more[i] = orders[i]
      /\ more[Len(orders) + 1] = o
  OBVIOUS
<1> HIDE DEF more
<1>2. /\ Tasks(orders) \in Seq(Dishes) /\ Len(Tasks(orders)) = Len(orders)
      /\ \A i \in 1..Len(orders) : Tasks(orders)[i] = TaskOf(orders[i])
  BY TasksFacts
<1>3. /\ Tasks(more) \in Seq(Dishes) /\ Len(Tasks(more)) = Len(orders) + 1
      /\ \A i \in 1..(Len(orders) + 1) : Tasks(more)[i] = TaskOf(more[i])
  BY <1>1, TasksFacts
<1> DEFINE whole == Tasks(orders) \o <<TaskOf(o)>>
<1>4. /\ whole \in Seq(Dishes) /\ Len(whole) = Len(orders) + 1
      /\ \A i \in 1..Len(orders) : whole[i] = Tasks(orders)[i]
      /\ whole[Len(orders) + 1] = TaskOf(o)
  <2>1. <<TaskOf(o)>> \in Seq(Dishes) /\ Len(<<TaskOf(o)>>) = 1
    OBVIOUS
  <2> QED BY <1>1, <1>2, <2>1
<1> HIDE DEF whole
<1>5. ASSUME NEW i \in 1..(Len(orders) + 1)
      PROVE  Tasks(more)[i] = whole[i]
  <2>1. CASE i = Len(orders) + 1
    BY <2>1, <1>1, <1>3, <1>4
  <2>2. CASE i # Len(orders) + 1
    <3>1. i \in 1..Len(orders)
      BY <2>2, <1>1
    <3> QED BY <3>1, <1>1, <1>2, <1>3, <1>4
  <2> QED BY <2>1, <2>2
<1>6. Tasks(more) = whole
  BY <1>1, <1>3, <1>4, <1>5
<1> QED BY <1>6 DEF more, whole

LEMMA TasksOfTail ==
    ASSUME NEW S, NEW orders \in Seq(S), orders # <<>>,
           \A e \in S : TaskOf(e) \in Dishes
    PROVE  Tasks(orders) = <<TaskOf(Head(orders))>> \o Tasks(Tail(orders))
<1> DEFINE rest == Tail(orders)
<1>1. /\ rest \in Seq(S) /\ Len(rest) = Len(orders) - 1
      /\ Len(orders) \in Nat \ {0}
      /\ \A i \in 1..Len(rest) : rest[i] = orders[i + 1]
      /\ Head(orders) = orders[1] /\ orders[1] \in S
  OBVIOUS
<1> HIDE DEF rest
<1>2. /\ Tasks(orders) \in Seq(Dishes) /\ Len(Tasks(orders)) = Len(orders)
      /\ \A i \in 1..Len(orders) : Tasks(orders)[i] = TaskOf(orders[i])
  BY TasksFacts
<1>3. /\ Tasks(rest) \in Seq(Dishes) /\ Len(Tasks(rest)) = Len(rest)
      /\ \A i \in 1..Len(rest) : Tasks(rest)[i] = TaskOf(rest[i])
  BY <1>1, TasksFacts
<1> DEFINE whole == <<TaskOf(Head(orders))>> \o Tasks(rest)
<1>4. /\ whole \in Seq(Dishes) /\ Len(whole) = Len(orders)
      /\ whole[1] = TaskOf(orders[1])
      /\ \A i \in 2..Len(orders) : whole[i] = Tasks(rest)[i - 1]
  <2>1. <<TaskOf(Head(orders))>> \in Seq(Dishes)
    BY <1>1
  <2> QED BY <1>1, <1>3, <2>1
<1> HIDE DEF whole
<1>5. ASSUME NEW i \in 1..Len(orders)
      PROVE  Tasks(orders)[i] = whole[i]
  <2>1. CASE i = 1
    BY <2>1, <1>2, <1>4
  <2>2. CASE i # 1
    <3>1. i \in 2..Len(orders) /\ i - 1 \in 1..Len(rest) /\ (i - 1) + 1 = i
      BY <2>2, <1>1
    <3> QED BY <3>1, <1>1, <1>2, <1>3, <1>4
  <2> QED BY <2>1, <2>2
<1>6. Tasks(orders) = whole
  BY <1>2, <1>4, <1>5
<1> QED BY <1>6 DEF rest, whole


LEMMA KnownType ==
    ASSUME TypeOK
    PROVE  /\ Tasks(handed) \in Seq(Dishes) /\ Aboard \in Seq(Dishes)
           /\ Tasks(order_queue) \in Seq(Dishes)
           /\ Tasks(pending_orders) \in Seq(Dishes)
           /\ Known \in Seq(Dishes)
<1>1. Tasks(handed) \in Seq(Dishes)
  <2> DEFINE Given == [recipe_id : Recipe, steps : Nat, processed : Nat,
                       finished : BOOLEAN, profile : Profile]
  <2>1. handed \in Seq(Given)
    BY DEF TypeOK, DataTypes
  <2>2. \A o \in Given : TaskOf(o) \in Dishes
    BY DEF TaskOf, Dishes
  <2> HIDE DEF Given
  <2> QED BY <2>1, <2>2, TasksFacts
<1>2. \A o \in Order : TaskOf(o) \in Dishes
  BY DEF TaskOf, Dishes, Order
<1>3. Tasks(order_queue) \in Seq(Dishes) /\ Tasks(pending_orders) \in Seq(Dishes)
  <2>1. order_queue \in Seq(Order) /\ pending_orders \in Seq(Order)
    BY DEF TypeOK, DataTypes
  <2> QED BY <1>2, <2>1, TasksFacts
<1>4. Aboard \in Seq(Dishes)
  <2>1. TaskOf(dish) \in Dishes
    BY DEF TaskOf, Dishes, TypeOK, DataTypes
  <2> QED BY <2>1 DEF Aboard
<1>5. Known \in Seq(Dishes)
  BY <1>1, <1>3, <1>4 DEF Known
<1> QED BY <1>1, <1>3, <1>4, <1>5

LEMMA KnownUntouched ==
    ASSUME UNCHANGED <<handed, order_queue, pending_orders>>, Aboard' = Aboard
    PROVE  Known' = Known
  BY DEF Known, Tasks

(* The order EnqueueOrder queues stands for the task it was given.          *)
LEMMA EnqueuedTask ==
    ASSUME NEW r \in Recipe, NEW s \in Nat, EnqueueOrder(r, s)
    PROVE  \E o \in Order : /\ order_queue' = Append(order_queue, o)
                            /\ TaskOf(o) = [recipe_id |-> r, steps |-> s]
<1> DEFINE todo == Processable(profile, Remaining(r, s))
           o    == [recipe_id |-> r, steps |-> s, processable |-> Len(todo)]
<1>1. Len(todo) \in Nat
  <2>1. todo \in Seq(Instruction)
    BY RemainingType, ProcessableType
  <2> QED BY <2>1
<1>2. o \in Order
  BY <1>1 DEF Order
<1>3. order_queue' = Append(order_queue, o)
  BY DEF EnqueueOrder
<1>4. TaskOf(o) = [recipe_id |-> r, steps |-> s]
  BY DEF TaskOf
<1> HIDE DEF o
<1> QED BY <1>2, <1>3, <1>4

(* HandleReceiveTask: the task joins the end of what is known.              *)
LEMMA QueuedTaskIsKnown ==
    ASSUME RobotInv, RobotInv', RecomputedInOneGo, HandleReceiveTask
    PROVE  Known' = Known \o <<TaskOf(Head(io))>>
<1>1. Head(io).recipe_id \in Recipe /\ Head(io).steps \in Nat
  <2>1. io \in Seq(Handler) /\ "receive_task" \in HandlerOp
    BY DEF RobotInv, TypeOK, ControlTypes, HandlerOp
  <2>2. Head(io) \in Handler /\ Head(io).op = "receive_task"
    BY <2>1, TakeFacts DEF HandleReceiveTask
  <2> QED BY <2>2 DEF Handler, PlainOp, TimedOp
<1>2. PICK o \in Order : /\ order_queue' = Append(order_queue, o)
                         /\ TaskOf(o) = TaskOf(Head(io))
  <2>1. PICK o \in Order :
           /\ order_queue' = Append(order_queue, o)
           /\ TaskOf(o) = [recipe_id |-> Head(io).recipe_id,
                           steps     |-> Head(io).steps]
    BY <1>1, EnqueuedTask DEF HandleReceiveTask
  <2> QED BY <2>1 DEF TaskOf
<1>3. /\ UNCHANGED <<handed, dish, pending_orders>>
      /\ worker = "idle"
  BY DEF HandleReceiveTask, Take, histVars, dishVars
<1>4. pending_orders = <<>>
  BY <1>3 DEF RecomputedInOneGo, RobotInv, Phases
<1>5. Tasks(pending_orders) = <<>> /\ Tasks(pending_orders') = <<>>
  BY <1>3, <1>4 DEF Tasks
<1>6. Tasks(order_queue') = Tasks(order_queue) \o <<TaskOf(Head(io))>>
  <2>1. order_queue \in Seq(Order)
    BY DEF RobotInv, TypeOK, DataTypes
  <2>2. \A e \in Order : TaskOf(e) \in Dishes
    BY DEF TaskOf, Dishes, Order
  <2> QED BY <1>2, <2>1, <2>2, TasksOfAppend
<1>7. /\ Tasks(handed)' = Tasks(handed) /\ Aboard' = Aboard
      /\ Tasks(pending_orders)' = <<>>
      /\ Tasks(order_queue)' = Tasks(order_queue) \o <<TaskOf(Head(io))>>
  BY <1>3, <1>5, <1>6 DEF Tasks, Aboard, TaskOf
<1> DEFINE before == Tasks(handed) \o Aboard
           t      == <<TaskOf(Head(io))>>
<1>8. /\ before \in Seq(Dishes) /\ Tasks(order_queue) \in Seq(Dishes)
      /\ t \in Seq(Dishes)
  <2>1. TaskOf(Head(io)) \in Dishes
    BY <1>1 DEF TaskOf, Dishes
  <2>2. Tasks(handed) \in Seq(Dishes) /\ Aboard \in Seq(Dishes)
    BY KnownType DEF RobotInv
  <2>3. Tasks(order_queue) \in Seq(Dishes)
    BY KnownType DEF RobotInv
  <2> QED BY <2>1, <2>2, <2>3
<1>9. Known = before \o Tasks(order_queue)
  <2>1. (before \o Tasks(order_queue)) \o <<>> = before \o Tasks(order_queue)
    <3>1. before \o Tasks(order_queue) \in Seq(Dishes)
      BY <1>8
    <3> HIDE DEF before
    <3> QED BY <3>1, ConcatEmptySeq
  <2> QED BY <2>1, <1>5 DEF Known
<1>10. Known' = before \o (Tasks(order_queue) \o t)
  <2>1. Known' = (before \o (Tasks(order_queue) \o t)) \o <<>>
    BY <1>7 DEF Known
  <2>2. before \o (Tasks(order_queue) \o t) \in Seq(Dishes)
    BY <1>8
  <2> HIDE DEF before, t
  <2> QED BY <2>1, <2>2, ConcatEmptySeq
<1> HIDE DEF before
<1>11. before \o (Tasks(order_queue) \o t) = (before \o Tasks(order_queue)) \o t
  BY <1>8, ConcatAssociative
<1> QED BY <1>9, <1>10, <1>11

(* CookStarts: the first order of the queue comes aboard.                   *)
LEMMA DishAboardIsKnown ==
    ASSUME RobotInv, RobotInv', CookStarts
    PROVE  Known' = Known
<1> DEFINE next == Head(order_queue)
<1>1. /\ UNCHANGED <<handed, pending_orders>>
      /\ order_queue # <<>> /\ order_queue' = Tail(order_queue)
      /\ dish'.recipe_id = next.recipe_id /\ dish'.steps = next.steps
      /\ worker = "cook"
  BY DEF CookStarts, AtCook, histVars
<1>2. next \in Order
  <2>1. order_queue \in Seq(Order)
    BY DEF RobotInv, TypeOK, DataTypes
  <2> QED BY <2>1, <1>1
<1>3. dish = NoDish
  BY <1>1 DEF RobotInv, AtHand, Phases
<1>4. dish' # NoDish
  <2>1. dish'.recipe_id \in Recipe
    BY <1>1, <1>2 DEF Order
  <2> QED BY <2>1, RecipesAssumption DEF NoDish
<1>5. Aboard = <<>> /\ Aboard' = <<TaskOf(next)>>
  BY <1>1, <1>3, <1>4 DEF Aboard, TaskOf
<1>6. Tasks(order_queue) = <<TaskOf(next)>> \o Tasks(order_queue')
  <2>1. order_queue \in Seq(Order)
    BY DEF RobotInv, TypeOK, DataTypes
  <2>2. \A e \in Order : TaskOf(e) \in Dishes
    BY DEF TaskOf, Dishes, Order
  <2> QED BY <1>1, <2>1, <2>2, TasksOfTail
<1>7. /\ Tasks(handed)' = Tasks(handed)
      /\ Tasks(pending_orders)' = Tasks(pending_orders)
      /\ Tasks(order_queue)' = Tasks(order_queue')
  BY <1>1 DEF Tasks, TaskOf
<1> DEFINE h == Tasks(handed)
           n == <<TaskOf(next)>>
           q == Tasks(order_queue')
           p == Tasks(pending_orders)
<1>8. {h, n, q, p} \subseteq Seq(Dishes)
  <2>1. h \in Seq(Dishes) /\ p \in Seq(Dishes)
    BY KnownType DEF RobotInv
  <2>2. n \in Seq(Dishes)
    BY <1>2 DEF TaskOf, Dishes, Order
  <2>3. q \in Seq(Dishes)
    <3>1. order_queue' \in Seq(Order)
      BY DEF RobotInv, TypeOK, DataTypes
    <3>2. \A e \in Order : TaskOf(e) \in Dishes
      BY DEF TaskOf, Dishes, Order
    <3> QED BY <3>1, <3>2, TasksFacts
  <2> QED BY <2>1, <2>2, <2>3
<1>9. Known = ((h \o <<>>) \o (n \o q)) \o p
  BY <1>5, <1>6 DEF Known
<1>10. Known' = ((h \o n) \o q) \o p
  BY <1>5, <1>7 DEF Known
<1> HIDE DEF h, n, q, p
<1>11. h \o <<>> = h /\ (h \o n) \o q = h \o (n \o q)
  BY <1>8, ConcatEmptySeq, ConcatAssociative, SMTT(60)
<1> QED BY <1>9, <1>10, <1>11

(* HandoverReply: the dish aboard is the last one given away.               *)
LEMMA HandedDishIsKnown ==
    ASSUME RobotInv, RobotInv', HandoverReply
    PROVE  Known' = Known
<1> DEFINE Given == [recipe_id : Recipe, steps : Nat, processed : Nat,
                     finished : BOOLEAN, profile : Profile]
           h == [recipe_id |-> dish.recipe_id, steps |-> dish.steps,
                 processed |-> dish.processed, finished |-> is_dish_finished,
                 profile   |-> profile]
<1>1. /\ UNCHANGED <<order_queue, pending_orders>>
      /\ handed' = Append(handed, h) /\ dish' = NoDish /\ server = "replying"
  BY DEF HandoverReply, orderVars
<1>2. dish.recipe_id \in Recipe /\ dish # NoDish
  <2>1. dish.recipe_id \in Recipe
    BY <1>1 DEF RobotInv, AtHand, DishUnderWay
  <2> QED BY <2>1, RecipesAssumption DEF NoDish
<1>3. h \in Given /\ TaskOf(h) = TaskOf(dish)
  BY <1>2 DEF RobotInv, TypeOK, DataTypes, FlagTypes, TaskOf
<1>4. handed \in Seq(Given) /\ \A e \in Given : TaskOf(e) \in Dishes
  BY DEF RobotInv, TypeOK, DataTypes, TaskOf, Dishes
<1> HIDE DEF Given, h
<1>5. Tasks(handed') = Tasks(handed) \o <<TaskOf(dish)>>
  BY <1>1, <1>3, <1>4, TasksOfAppend
<1>6. /\ Tasks(handed)' = Tasks(handed) \o Aboard
      /\ Aboard' = <<>>
      /\ Tasks(order_queue)' = Tasks(order_queue)
      /\ Tasks(pending_orders)' = Tasks(pending_orders)
  BY <1>1, <1>2, <1>5 DEF Tasks, TaskOf, Aboard
<1>7. Tasks(handed) \o Aboard \in Seq(Dishes)
  <2>1. Tasks(handed) \in Seq(Dishes) /\ Aboard \in Seq(Dishes)
    BY KnownType DEF RobotInv
  <2> QED BY <2>1
<1>8. (Tasks(handed) \o Aboard) \o <<>> = Tasks(handed) \o Aboard
  BY <1>7, ConcatEmptySeq
<1> QED BY <1>6, <1>8 DEF Known

(* Reconfiguring moves the orders out and back in, in their order.          *)
LEMMA RecomputedOrdersAreKnown ==
    ASSUME RobotInv, RobotInv', RecomputedInOneGo,
           CompleteReconfiguration \/ RecomputeOrder
    PROVE  Known' = Known
<1>1. UNCHANGED <<handed, dish>>
  BY DEF CompleteReconfiguration, RecomputeOrder, histVars, dishVars
<1>2. Tasks(handed)' = Tasks(handed) /\ Aboard' = Aboard
  BY <1>1 DEF Tasks, TaskOf, Aboard
<1>3. \A e \in Order : TaskOf(e) \in Dishes
  BY DEF TaskOf, Dishes, Order
<1>4. /\ order_queue \in Seq(Order) /\ pending_orders \in Seq(Order)
      /\ order_queue' \in Seq(Order) /\ pending_orders' \in Seq(Order)
  BY DEF RobotInv, TypeOK, DataTypes
<1> DEFINE before == Tasks(handed) \o Aboard
           q      == Tasks(order_queue)
           p      == Tasks(pending_orders)
<1>5. before \in Seq(Dishes) /\ q \in Seq(Dishes) /\ p \in Seq(Dishes)
  <2>1. Tasks(handed) \in Seq(Dishes) /\ Aboard \in Seq(Dishes)
    BY KnownType DEF RobotInv
  <2>2. q \in Seq(Dishes) /\ p \in Seq(Dishes)
    BY KnownType, SMTT(60) DEF RobotInv
  <2> QED BY <2>1, <2>2
<1>6. /\ Known = (before \o q) \o p
      /\ Known' = (before \o Tasks(order_queue')) \o Tasks(pending_orders')
  BY <1>2 DEF Known, Tasks, TaskOf
<1>7. CASE CompleteReconfiguration
  <2>1. /\ pending_orders' = order_queue /\ order_queue' = <<>>
        /\ pending_orders = <<>>
    BY <1>7 DEF CompleteReconfiguration, RecomputedInOneGo
  <2>2. /\ Tasks(pending_orders') = q /\ Tasks(order_queue') = <<>>
        /\ p = <<>>
    BY <2>1 DEF Tasks
  <2>3. /\ Known = (before \o q) \o <<>>
        /\ Known' = (before \o <<>>) \o q
    BY <1>6, <2>2
  <2> HIDE DEF before, q
  <2>4. before \o <<>> = before /\ (before \o q) \o <<>> = before \o q
    <3>1. before \o q \in Seq(Dishes)
      BY <1>5
    <3> QED BY <1>5, <3>1, ConcatEmptySeq
  <2> QED BY <2>3, <2>4
<1>8. CASE RecomputeOrder
  <2> DEFINE first == Head(pending_orders)
  <2>1. /\ pending_orders # <<>> /\ pending_orders' = Tail(pending_orders)
        /\ first \in Order
    BY <1>4, <1>8 DEF RecomputeOrder
  <2>2. PICK o \in Order : /\ order_queue' = Append(order_queue, o)
                           /\ TaskOf(o) = TaskOf(first)
    <3>1. first.recipe_id \in Recipe /\ first.steps \in Nat
      BY <2>1 DEF Order
    <3>2. PICK o \in Order :
             /\ order_queue' = Append(order_queue, o)
             /\ TaskOf(o) = [recipe_id |-> first.recipe_id,
                             steps     |-> first.steps]
      BY <1>8, <3>1, EnqueuedTask DEF RecomputeOrder
    <3> QED BY <3>2 DEF TaskOf
  <2> DEFINE t    == <<TaskOf(first)>>
             rest == Tasks(pending_orders')
  <2>3. Tasks(order_queue') = q \o t
    BY <1>3, <1>4, <2>2, TasksOfAppend
  <2>4. p = t \o rest
    BY <1>3, <1>4, <2>1, TasksOfTail
  <2>5. t \in Seq(Dishes) /\ rest \in Seq(Dishes)
    <3>1. TaskOf(first) \in Dishes
      BY <1>3, <2>1
    <3>2. rest \in Seq(Dishes)
      BY <1>3, <1>4, TasksFacts
    <3> QED BY <3>1, <3>2
  <2>6. /\ Known = (before \o q) \o (t \o rest)
        /\ Known' = (before \o (q \o t)) \o rest
    BY <1>6, <2>3, <2>4
  <2> HIDE DEF before, q, t, rest
  <2>7. before \o (q \o t) = (before \o q) \o t
    <3>1. before \in Seq(Dishes) /\ q \in Seq(Dishes)
      BY <1>5
    <3>2. t \in Seq(Dishes)
      BY <2>5
    <3> QED BY <3>1, <3>2, ConcatAssociative
  <2>8. before \o q \in Seq(Dishes)
    BY <1>5
  <2>9. ASSUME NEW w \in Seq(Dishes)
        PROVE  w \o (t \o rest) = (w \o t) \o rest
    BY <2>5, ConcatAssociative
  <2> QED BY <2>6, <2>7, <2>8, <2>9
<1> QED BY <1>7, <1>8


------------------------------------------------------------------------------
(* The list of the posted tasks, as io_context_ changes.                    *)

LEMMA ListTypes ==
    ASSUME TypeOK
    PROVE  /\ io \in Seq(Handler) /\ Len(io) \in Nat
           /\ Known \in Seq(Dishes) /\ Len(Known) \in Nat
           /\ accepted \in Seq(Dishes) /\ Len(accepted) \in Nat
<1>1. accepted \in Seq(Dishes)
  <2>1. accepted \in Seq(Task) /\ Task \subseteq Dishes
    BY DEF TypeOK, DataTypes, Task, Dishes
  <2> QED BY <2>1, SeqMonotonic
<1>2. Known \in Seq(Dishes)
  BY KnownType
<1>3. io \in Seq(Handler)
  BY DEF TypeOK, ControlTypes
<1> QED BY <1>1, <1>2, <1>3

LEMMA ListingKept ==
    ASSUME InOrder, UNCHANGED <<io, accepted>>, Known' = Known
    PROVE  InOrder'
<1>1. PICK k \in Nat : \E at \in [1..k -> Nat] : Listing(k, at)
  BY DEF InOrder
<1>2. PICK at \in [1..k -> Nat] : Listing(k, at)
  BY <1>1
<1>3. Listing(k, at)'
  BY <1>2 DEF Listing, Posted, TaskOf
<1> QED BY <1>3 DEF InOrder

(* Posting anything but a task leaves the list as it is.                    *)
LEMMA ListingSurvivesPost ==
    ASSUME TypeOK, InOrder, NEW h \in Handler, Post(h),
           h.op # "receive_task", accepted' = accepted, Known' = Known
    PROVE  InOrder'
<1>1. PICK k \in Nat : \E at \in [1..k -> Nat] : Listing(k, at)
  BY DEF InOrder
<1>2. PICK at \in [1..k -> Nat] : Listing(k, at)
  BY <1>1
<1>3. /\ DOMAIN io' = 1..(Len(io) + 1) /\ DOMAIN io = 1..Len(io)
      /\ Len(io) \in Nat
      /\ \A i \in 1..Len(io) : io'[i] = io[i]
      /\ io'[Len(io) + 1] = h
  BY ListTypes DEF Post
<1>4. Posted' = Posted
  BY <1>3 DEF Posted
<1>5. \A n \in 1..k : io'[at[n]] = io[at[n]]
  BY <1>2, <1>3 DEF Listing, Posted
<1>6. Listing(k, at)'
  BY <1>2, <1>4, <1>5 DEF Listing, TaskOf
<1> QED BY <1>6 DEF InOrder

(* An accepted task is posted behind all others.                            *)
LEMMA ListingGrows ==
    ASSUME TypeOK, TypeOK', InOrder, NEW h \in Handler, Post(h),
           h.op = "receive_task", accepted' = Append(accepted, TaskOf(h)),
           Known' = Known
    PROVE  InOrder'
<1>1. PICK k \in Nat : \E at \in [1..k -> Nat] : Listing(k, at)
  BY DEF InOrder
<1>2. PICK at \in [1..k -> Nat] : Listing(k, at)
  BY <1>1
<1>3. /\ DOMAIN io' = 1..(Len(io) + 1) /\ DOMAIN io = 1..Len(io)
      /\ Len(io) \in Nat
      /\ \A i \in 1..Len(io) : io'[i] = io[i]
      /\ io'[Len(io) + 1] = h
  BY ListTypes DEF Post
<1>4. Posted' = Posted \cup {Len(io) + 1} /\ Posted \subseteq 1..Len(io)
  BY <1>3 DEF Posted
<1>5. PICK moved \in [1..(k + 1) -> Nat] :
         /\ \A n \in 1..k : moved[n] = at[n]
         /\ moved[k + 1] = Len(io) + 1
  <2> DEFINE f == [n \in 1..(k + 1) |-> IF n = k + 1 THEN Len(io) + 1
                                        ELSE at[n]]
  <2>1. f \in [1..(k + 1) -> Nat]
    BY <1>2, <1>3 DEF Listing
  <2>2. (\A n \in 1..k : f[n] = at[n]) /\ f[k + 1] = Len(io) + 1
    OBVIOUS
  <2> QED BY <2>1, <2>2
<1>6. /\ Len(Known) \in Nat /\ Len(accepted) = Len(Known) + k
      /\ Len(accepted') = Len(Known) + (k + 1)
      /\ \A i \in 1..(Len(Known) + k) : accepted'[i] = accepted[i]
      /\ accepted'[Len(Known) + (k + 1)] = TaskOf(h)
  <2>1. /\ Len(Known) \in Nat /\ accepted \in Seq(Dishes)
        /\ Len(accepted) = Len(Known) + k
    BY <1>2, ListTypes DEF Listing
  <2>2. /\ Len(accepted') = Len(accepted) + 1
        /\ \A i \in 1..Len(accepted) : accepted'[i] = accepted[i]
        /\ accepted'[Len(accepted) + 1] = TaskOf(h)
    <3>1. TaskOf(h) \in Dishes
      BY DEF TaskOf, Dishes, Handler, PlainOp, TimedOp
    <3>2. PICK task \in Dishes : task = TaskOf(h)
      BY <3>1
    <3>3. accepted' = Append(accepted, task)
      BY <3>2
    <3>4. /\ Len(accepted') = Len(accepted) + 1
          /\ \A i \in 1..Len(accepted) : accepted'[i] = accepted[i]
          /\ accepted'[Len(accepted) + 1] = task
      <4>1. accepted \in Seq(Dishes)
        BY <2>1
      <4>2. /\ Len(Append(accepted, task)) = Len(accepted) + 1
            /\ \A i \in 1..Len(accepted) : Append(accepted, task)[i] = accepted[i]
            /\ Append(accepted, task)[Len(accepted) + 1] = task
        BY <4>1, AppendProperties
      <4> QED BY <4>2, <3>3
    <3> QED BY <3>2, <3>4
  <2> QED BY <2>1, <2>2
<1>7. \A n \in 1..k : at[n] \in 1..Len(io)
  BY <1>2, <1>4 DEF Listing
<1>8. Listing(k + 1, moved)'
  <2>1. ASSUME NEW n \in 1..(k + 1)
        PROVE  moved[n] \in Posted'
    <3>1. CASE n = k + 1
      BY <3>1, <1>4, <1>5
    <3>2. CASE n # k + 1
      <4>1. n \in 1..k
        BY <3>2
      <4> QED BY <4>1, <1>2, <1>4, <1>5 DEF Listing
    <3> QED BY <3>1, <3>2
  <2>2. \A m, n \in 1..(k + 1) : m < n => moved[m] < moved[n]
    <3>1. ASSUME NEW m \in 1..(k + 1), NEW n \in 1..(k + 1), m < n
          PROVE  moved[m] < moved[n]
      <4>1. m \in 1..k /\ moved[m] = at[m]
        BY <1>5, <3>1
      <4>2. CASE n = k + 1
        BY <4>1, <4>2, <1>3, <1>5, <1>7
      <4>3. CASE n # k + 1
        <5>1. n \in 1..k /\ moved[n] = at[n]
          BY <1>5, <3>1, <4>3
        <5> QED BY <3>1, <4>1, <5>1, <1>2 DEF Listing
      <4> QED BY <4>2, <4>3
    <3> QED BY <3>1
  <2>3. \A i \in Posted' : \E n \in 1..(k + 1) : moved[n] = i
    <3>1. ASSUME NEW i \in Posted
          PROVE  \E n \in 1..(k + 1) : moved[n] = i
      <4>1. PICK n \in 1..k : at[n] = i
        BY <1>2 DEF Listing
      <4> QED BY <4>1, <1>5
    <3>2. k + 1 \in 1..(k + 1)
      OBVIOUS
    <3> QED BY <3>1, <3>2, <1>4, <1>5
  <2>4. \A i \in 1..Len(Known) : accepted'[i] = Known[i]
    BY <1>2, <1>6 DEF Listing
  <2>5. ASSUME NEW n \in 1..(k + 1)
        PROVE  accepted'[Len(Known) + n] = TaskOf(io'[moved[n]])
    <3>1. CASE n = k + 1
      BY <3>1, <1>3, <1>5, <1>6
    <3>2. CASE n # k + 1
      <4>1. n \in 1..k /\ moved[n] = at[n]
        BY <1>5, <3>2
      <4>2. accepted'[Len(Known) + n] = accepted[Len(Known) + n]
        BY <4>1, <1>6
      <4>3. io'[moved[n]] = io[at[n]]
        BY <4>1, <1>3, <1>7
      <4> QED BY <4>1, <4>2, <4>3, <1>2 DEF Listing
    <3> QED BY <3>1, <3>2
  <2> QED BY <2>1, <2>2, <2>3, <2>4, <2>5, <1>6 DEF Listing, TaskOf
<1>9. k + 1 \in Nat
  OBVIOUS
<1> QED BY <1>8, <1>9 DEF InOrder

(* Taking anything but a task moves the list up by one.                     *)
LEMMA ListingMovesUp ==
    ASSUME TypeOK, InOrder, NEW op, Take(op), op # "receive_task",
           accepted' = accepted, Known' = Known
    PROVE  InOrder'
<1>1. PICK k \in Nat : \E at \in [1..k -> Nat] : Listing(k, at)
  BY DEF InOrder
<1>2. PICK at \in [1..k -> Nat] : Listing(k, at)
  BY <1>1
<1>3. /\ DOMAIN io' = 1..(Len(io) - 1) /\ DOMAIN io = 1..Len(io)
      /\ Len(io) \in Nat \ {0}
      /\ \A i \in 1..(Len(io) - 1) : io'[i] = io[i + 1]
      /\ io[1].op = op
  BY ListTypes DEF Take
<1>4. /\ 1 \notin Posted /\ Posted \subseteq 2..Len(io)
      /\ \A i \in Nat : i \in Posted' <=> i + 1 \in Posted
      /\ Posted' \subseteq Nat
  BY <1>3 DEF Posted
<1>5. \A n \in 1..k : at[n] \in 2..Len(io)
  BY <1>2, <1>4 DEF Listing
<1>6. PICK moved \in [1..k -> Nat] : \A n \in 1..k : moved[n] = at[n] - 1
  <2> DEFINE f == [n \in 1..k |-> at[n] - 1]
  <2>1. f \in [1..k -> Nat] /\ \A n \in 1..k : f[n] = at[n] - 1
    BY <1>5
  <2> QED BY <2>1
<1>7. \A n \in 1..k : moved[n] + 1 = at[n] /\ io'[moved[n]] = io[at[n]]
  BY <1>3, <1>5, <1>6, SMTT(60)
<1>8. Listing(k, moved)'
  <2>1. \A n \in 1..k : moved[n] \in Posted'
    BY <1>2, <1>4, <1>7 DEF Listing
  <2>2. ASSUME NEW m \in 1..k, NEW n \in 1..k, m < n
        PROVE  moved[m] < moved[n]
    <3>1. at[m] < at[n]
      BY <1>2, <2>2 DEF Listing
    <3>2. at[m] \in Nat /\ at[n] \in Nat
      BY <1>5
    <3> QED BY <3>1, <3>2, <1>6
  <2>3. ASSUME NEW i \in Posted'
        PROVE  \E n \in 1..k : moved[n] = i
    <3>1. i \in Nat /\ i + 1 \in Posted
      BY <1>4
    <3>2. PICK n \in 1..k : at[n] = i + 1
      BY <1>2, <3>1 DEF Listing
    <3> QED BY <3>1, <3>2, <1>6
  <2>4. \A n \in 1..k : accepted'[Len(Known) + n] = TaskOf(io'[moved[n]])
    BY <1>2, <1>7 DEF Listing
  <2> QED BY <2>1, <2>2, <2>3, <2>4, <1>2 DEF Listing, TaskOf
<1> QED BY <1>8 DEF InOrder

(* The task taken is the first of the list; it joins what is known.         *)
LEMMA ListingShrinks ==
    ASSUME TypeOK, InOrder, Take("receive_task"), accepted' = accepted,
           Known' = Known \o <<TaskOf(Head(io))>>,
           TaskOf(Head(io)) \in Dishes
    PROVE  InOrder'
<1>1. PICK k \in Nat : \E at \in [1..k -> Nat] : Listing(k, at)
  BY DEF InOrder
<1>2. PICK at \in [1..k -> Nat] : Listing(k, at)
  BY <1>1
<1>3. /\ DOMAIN io' = 1..(Len(io) - 1) /\ DOMAIN io = 1..Len(io)
      /\ Len(io) \in Nat \ {0}
      /\ \A i \in 1..(Len(io) - 1) : io'[i] = io[i + 1]
      /\ io[1].op = "receive_task" /\ Head(io) = io[1]
  BY ListTypes DEF Take
<1>4. /\ 1 \in Posted /\ Posted \subseteq 1..Len(io)
      /\ \A i \in Nat : i \in Posted' <=> i + 1 \in Posted /\ i # 0
      /\ Posted' \subseteq Nat \ {0}
  BY <1>3 DEF Posted
<1>5. \A n \in 1..k : at[n] \in 1..Len(io)
  BY <1>2, <1>4 DEF Listing
<1>6. k > 0 /\ at[1] = 1
  <2>1. PICK n \in 1..k : at[n] = 1
    BY <1>2, <1>4 DEF Listing
  <2>2. n = 1
    <3>1. SUFFICES ASSUME n # 1 PROVE FALSE
      OBVIOUS
    <3>2. 1 \in 1..k /\ 1 < n
      BY <2>1, <3>1
    <3>3. at[1] < at[n]
      BY <1>2, <3>2 DEF Listing
    <3> QED BY <2>1, <3>2, <3>3, <1>5
  <2> QED BY <2>1, <2>2
<1>7. PICK moved \in [1..(k - 1) -> Nat] :
         \A n \in 1..(k - 1) : moved[n] = at[n + 1] - 1
  <2> DEFINE f == [n \in 1..(k - 1) |-> at[n + 1] - 1]
  <2>1. \A n \in 1..(k - 1) : n + 1 \in 1..k
    BY <1>6
  <2>2. f \in [1..(k - 1) -> Nat]
     /\ \A n \in 1..(k - 1) : f[n] = at[n + 1] - 1
    BY <1>5, <2>1
  <2> QED BY <2>2
<1>8. ASSUME NEW n \in 1..(k - 1)
      PROVE  /\ n + 1 \in 1..k /\ moved[n] + 1 = at[n + 1]
             /\ at[n + 1] \in 2..Len(io)
             /\ io'[moved[n]] = io[at[n + 1]]
  <2>1. n + 1 \in 1..k /\ 1 \in 1..k /\ 1 < n + 1
    BY <1>6
  <2>2. at[1] < at[n + 1]
    BY <1>2, <2>1 DEF Listing
  <2>3. at[n + 1] \in 2..Len(io)
    BY <2>1, <2>2, <1>5, <1>6
  <2>4. moved[n] = at[n + 1] - 1
    BY <1>7
  <2>5. moved[n] + 1 = at[n + 1] /\ moved[n] \in 1..(Len(io) - 1)
    <3>1. ASSUME NEW a \in 2..Len(io)
          PROVE  (a - 1) + 1 = a /\ a - 1 \in 1..(Len(io) - 1)
      BY <1>3
    <3> QED BY <2>3, <2>4, <3>1
  <2> QED BY <2>1, <2>3, <2>5, <1>3
<1>9. /\ Len(Known) \in Nat /\ Len(Known') = Len(Known) + 1
      /\ \A i \in 1..Len(Known) : Known'[i] = Known[i]
      /\ Known'[Len(Known) + 1] = TaskOf(io[1])
  <2>1. Known \in Seq(Dishes) /\ <<TaskOf(Head(io))>> \in Seq(Dishes)
    BY ListTypes
  <2> QED BY <2>1, <1>3
<1>10. accepted[Len(Known) + 1] = TaskOf(io[1])
  BY <1>2, <1>6 DEF Listing
<1>11. Listing(k - 1, moved)'
  <2>1. \A n \in 1..(k - 1) : moved[n] \in Posted'
    <3>1. ASSUME NEW n \in 1..(k - 1) PROVE moved[n] \in Posted'
      <4>1. at[n + 1] \in Posted
        BY <1>2, <1>8 DEF Listing
      <4>2. moved[n] \in Nat /\ moved[n] # 0 /\ moved[n] + 1 \in Posted
        BY <1>8, <4>1
      <4> QED BY <4>2, <1>4
    <3> QED BY <3>1
  <2>2. ASSUME NEW m \in 1..(k - 1), NEW n \in 1..(k - 1), m < n
        PROVE  moved[m] < moved[n]
    <3>1. m + 1 \in 1..k /\ n + 1 \in 1..k /\ m + 1 < n + 1
      BY <1>8, <2>2
    <3>2. at[m + 1] < at[n + 1]
      BY <1>2, <3>1 DEF Listing
    <3>3. at[m + 1] \in Nat /\ at[n + 1] \in Nat
      BY <1>8
    <3> QED BY <3>2, <3>3, <1>7
  <2>3. ASSUME NEW i \in Posted'
        PROVE  \E n \in 1..(k - 1) : moved[n] = i
    <3>1. i \in Nat \ {0} /\ i + 1 \in Posted
      BY <1>4
    <3>2. PICK n \in 1..k : at[n] = i + 1
      BY <1>2, <3>1 DEF Listing
    <3>3. n # 1
      BY <3>1, <3>2, <1>6
    <3>4. n - 1 \in 1..(k - 1) /\ (n - 1) + 1 = n
      BY <3>2, <3>3
    <3>5. moved[n - 1] = at[n] - 1
      BY <3>4, <1>7
    <3> QED BY <3>1, <3>2, <3>4, <3>5
  <2>4. Len(accepted) = Len(Known') + (k - 1) /\ k - 1 \in Nat
    BY <1>2, <1>6, <1>9 DEF Listing
  <2>5. ASSUME NEW i \in 1..Len(Known')
        PROVE  accepted[i] = Known'[i]
    <3>1. CASE i = Len(Known) + 1
      BY <3>1, <1>9, <1>10
    <3>2. CASE i # Len(Known) + 1
      <4>1. i \in 1..Len(Known)
        BY <3>2, <1>9
      <4> QED BY <4>1, <1>2, <1>9 DEF Listing
    <3> QED BY <3>1, <3>2
  <2>6. ASSUME NEW n \in 1..(k - 1)
        PROVE  accepted[Len(Known') + n] = TaskOf(io'[moved[n]])
    <3>1. Len(Known') + n = Len(Known) + (n + 1) /\ n + 1 \in 1..k
      <4>1. n \in Int
        OBVIOUS
      <4> QED BY <4>1, <1>8, <1>9
    <3>2. accepted[Len(Known) + (n + 1)] = TaskOf(io[at[n + 1]])
      BY <1>2, <3>1 DEF Listing
    <3> QED BY <3>1, <3>2, <1>8
  <2> QED BY <2>1, <2>2, <2>3, <2>4, <2>5, <2>6 DEF Listing, TaskOf
<1>12. k - 1 \in Nat
  BY <1>6
<1> QED BY <1>11, <1>12 DEF InOrder


------------------------------------------------------------------------------
(* Every step preserves FlowInv.                                            *)

LEMMA FlowInitEstablishes == Init => FlowInv
<1> SUFFICES ASSUME Init PROVE FlowInv
  OBVIOUS
<1>1. RecomputedInOneGo
  BY DEF Init, RecomputedInOneGo
<1>2. Known = <<>> /\ Posted = {} /\ accepted = <<>>
  <2>1. /\ Tasks(handed) = <<>> /\ Aboard = <<>> /\ Tasks(order_queue) = <<>>
        /\ Tasks(pending_orders) = <<>>
    BY DEF Init, Tasks, Aboard
  <2>2. Known = <<>>
    BY <2>1 DEF Known
  <2> QED BY <2>2 DEF Init, Posted
<1>3. Listing(0, <<>>)
  BY <1>2 DEF Listing
<1>4. <<>> \in [1..0 -> Nat]
  OBVIOUS
<1> QED BY <1>1, <1>3, <1>4 DEF FlowInv, InOrder

(* The mutex is given back only with nothing left to recompute.             *)
LEMMA RecomputingKept ==
    ASSUME RobotInv, RecomputedInOneGo, [Next]_vars
    PROVE  RecomputedInOneGo'
<1>1. CASE UNCHANGED <<pending_orders, state_lock>>
  BY <1>1 DEF RecomputedInOneGo
<1>2. CASE CompleteReconfiguration
  BY <1>2 DEF CompleteReconfiguration, RecomputedInOneGo
<1>3. CASE RecomputeOrder
  BY <1>3 DEF RecomputeOrder, RecomputedInOneGo
<1>4. CASE RecomputeDone
  BY <1>4 DEF RecomputeDone, RecomputedInOneGo, orderVars
<1>5. \/ UNCHANGED <<pending_orders, state_lock>>
      \/ CompleteReconfiguration \/ RecomputeOrder \/ RecomputeDone
  <2>1. CASE ServerStep \/ TimerExpires
    BY <2>1 DEF ServerStep, ReceiveTask, SwitchPosition, Reconfigure,
       CommitNewPosition, HandoverCall, HandoverStart, HandoverReply,
       TimerExpires, orderVars
  <2>2. CASE WorkerStep
    BY <2>2 DEF WorkerStep, HandleReceiveTask, CookPosted, CookRearranges,
       CookReconfigures, CookIdles, CookStarts, HandleSwitchRequest,
       HandleReconfigureRequest, Retool, PassTime, ActionPerformed,
       MoveToNewPosition, HandleNewPositionCommit, NotifyCall, NotifyReturns,
       NotifyFails, NotifyWithoutClient, orderVars
  <2>3. CASE ClientStep \/ ConveyorAnswers \/ ConveyorRestarts \/ Fault
    BY <2>3 DEF ClientStep, Fault, ConveyorAnswers, SpuriousWakeup,
       ClientDropsConveyor, ClientReconnects, ClientReconnectFails,
       ConveyorCrashes, ConveyorRestarts, ConnectionDrops, HandoverCallLost,
       orderVars
  <2>4. CASE UNCHANGED vars
    BY <2>4 DEF vars, orderVars
  <2> QED BY <2>1, <2>2, <2>3, <2>4 DEF Next
<1> QED BY <1>1, <1>2, <1>3, <1>4, <1>5

LEMMA QuietStepKeepsOrder ==
    ASSUME InOrder, QuietStep
    PROVE  InOrder'
<1>1. UNCHANGED <<order_queue, pending_orders, dish, handed, accepted, io>>
  BY DEF QuietStep, LinkStep, CookRearranges, CookReconfigures, CookIdles,
         RecomputeDone, NotifyCall, NotifyReturns, NotifyFails,
         NotifyWithoutClient, ConveyorAnswers, SpuriousWakeup,
         ClientDropsConveyor, ClientReconnects, ClientReconnectFails,
         ConveyorCrashes, ConveyorRestarts, ConnectionDrops, HandoverCallLost,
         HandoverStart, HandoverCall, orderVars, dishVars, histVars
<1>2. Known' = Known
  BY <1>1, KnownUntouched DEF Aboard, TaskOf
<1> QED BY <1>1, <1>2, ListingKept

(* The steps that take a handler other than a task.                         *)
LEMMA TakingStepKeepsOrder ==
    ASSUME RobotInv, RobotInv', FlowInv,
           TakingStep \/ Retool \/ PassTime \/ ActionPerformed
             \/ CompleteReconfiguration
    PROVE  InOrder'
<1>1. PICK op \in HandlerOp \ {"receive_task"} : Take(op)
  BY DEF TakingStep, CookPosted, HandleSwitchRequest,
         HandleReconfigureRequest, MoveToNewPosition,
         HandleNewPositionCommit, Retool, PassTime, ActionPerformed,
         CompleteReconfiguration, HandlerOp, PlainOp, TimedOp
<1>2. accepted' = accepted
  BY DEF TakingStep, CookPosted, HandleSwitchRequest,
         HandleReconfigureRequest, MoveToNewPosition,
         HandleNewPositionCommit, Retool, PassTime, ActionPerformed,
         CompleteReconfiguration, histVars
<1>3. Known' = Known
  <2>1. CASE TakingStep \/ Retool \/ PassTime
    <3>1. UNCHANGED <<order_queue, pending_orders, dish, handed>>
      BY <2>1 DEF TakingStep, CookPosted, HandleSwitchRequest,
         HandleReconfigureRequest, MoveToNewPosition,
         HandleNewPositionCommit, Retool, PassTime, orderVars, dishVars,
         histVars
    <3> QED BY <3>1, KnownUntouched DEF Aboard, TaskOf
  <2>2. CASE ActionPerformed
    <3>1. /\ UNCHANGED <<order_queue, pending_orders, handed>>
          /\ dish' = [dish EXCEPT !.processed = @ + 1]
          /\ Queued("pass_time")
      <4>1. io \in Seq(Handler) /\ "pass_time" \in HandlerOp
        BY DEF RobotInv, TypeOK, ControlTypes, HandlerOp, PlainOp, TimedOp
      <4> QED BY <2>2, <4>1, TakeFacts DEF ActionPerformed, histVars
    <3>2. dish.recipe_id \in Recipe
      BY <3>1 DEF RobotInv, AtHand, DishUnderWay, Pending
    <3>3. dish'.recipe_id = dish.recipe_id /\ dish'.steps = dish.steps
      BY <3>1 DEF RobotInv, TypeOK, DataTypes
    <3>4. dish # NoDish /\ dish' # NoDish
      BY <3>2, <3>3, RecipesAssumption DEF NoDish
    <3>5. Aboard' = Aboard
      BY <3>3, <3>4 DEF Aboard, TaskOf
    <3> QED BY <3>1, <3>5, KnownUntouched
  <2>3. CASE CompleteReconfiguration
    BY <2>3, RecomputedOrdersAreKnown DEF FlowInv
  <2> QED BY <2>1, <2>2, <2>3
<1> QED BY <1>1, <1>2, <1>3, ListingMovesUp DEF RobotInv, FlowInv

(* The steps that post a handler other than a task.                         *)
LEMMA PostingStepKeepsOrder ==
    ASSUME RobotInv, RobotInv', FlowInv,
           \/ \E p \in RobotPosition : SwitchPosition(p)
           \/ \E q \in Profile : Reconfigure(q)
           \/ CommitNewPosition \/ TimerExpires \/ HandoverReply
    PROVE  InOrder'
<1>1. PICK h \in Handler : Post(h) /\ h.op # "receive_task"
  <2>1. CASE \E p \in RobotPosition : SwitchPosition(p)
    <3>1. PICK p \in RobotPosition : SwitchPosition(p)
      BY <2>1
    <3>2. SwitchHandler(p) \in Handler
      BY DEF SwitchHandler, Handler
    <3> QED BY <3>1, <3>2 DEF SwitchPosition, SwitchHandler
  <2>2. CASE (\E q \in Profile : Reconfigure(q)) \/ CommitNewPosition
               \/ HandoverReply
    <3>1. {Plain(op) : op \in PlainOp} \subseteq Handler
      BY DEF Plain, Handler
    <3>2. {"handle_reconfiguration", "new_position_commit", "cook_next_order"}
             \subseteq PlainOp
      BY DEF PlainOp
    <3>3. \E op \in PlainOp : Post(Plain(op)) /\ op # "receive_task"
      BY <2>2, <3>2 DEF Reconfigure, CommitNewPosition, HandoverReply
    <3>4. \A op \in PlainOp : Plain(op) \in Handler /\ Plain(op).op = op
      BY DEF Plain, Handler
    <3> QED BY <3>3, <3>4
  <2>3. CASE TimerExpires
    <3>1. timer \in TimedOp
      BY <2>3 DEF TimerExpires, RobotInv, TypeOK, ControlTypes
    <3>2. Plain(timer) \in Handler /\ Plain(timer).op # "receive_task"
      BY <3>1 DEF Plain, Handler, PlainOp, TimedOp
    <3> QED BY <2>3, <3>2 DEF TimerExpires
  <2> QED BY <2>1, <2>2, <2>3
<1>2. accepted' = accepted
  BY DEF SwitchPosition, Reconfigure, CommitNewPosition, TimerExpires,
         HandoverReply, histVars
<1>3. Known' = Known
  <2>1. CASE HandoverReply
    BY <2>1, HandedDishIsKnown
  <2>2. CASE ~ HandoverReply
    <3>1. UNCHANGED <<order_queue, pending_orders, dish, handed>>
      BY <2>2 DEF SwitchPosition, Reconfigure, CommitNewPosition, TimerExpires,
         orderVars, dishVars, histVars
    <3> QED BY <3>1, KnownUntouched DEF Aboard, TaskOf
  <2> QED BY <2>1, <2>2
<1> QED BY <1>1, <1>2, <1>3, ListingSurvivesPost DEF RobotInv, FlowInv

LEMMA ReceiveTaskKeepsOrder ==
    ASSUME RobotInv, RobotInv', FlowInv, NEW r \in Recipe, NEW s \in Nat, NEW p,
           ReceiveTask(r, s, p)
    PROVE  InOrder'
<1> DEFINE h == TaskHandler(r, s)
<1>1. /\ h \in Handler /\ h.op = "receive_task"
      /\ TaskOf(h) = [recipe_id |-> r, steps |-> s]
  BY DEF TaskHandler, Handler, TaskOf
<1>2. /\ Post(h) /\ accepted' = Append(accepted, TaskOf(h))
      /\ UNCHANGED <<order_queue, pending_orders, dish, handed>>
  BY <1>1 DEF ReceiveTask, orderVars, dishVars
<1> HIDE DEF h
<1>3. Known' = Known
  BY <1>2, KnownUntouched DEF Aboard, TaskOf
<1> QED BY <1>1, <1>2, <1>3, ListingGrows DEF RobotInv, FlowInv

LEMMA OtherStepKeepsOrder ==
    ASSUME RobotInv, RobotInv', FlowInv,
           HandleReceiveTask \/ CookStarts \/ RecomputeOrder
    PROVE  InOrder'
<1>1. CASE HandleReceiveTask
  <2>1. Known' = Known \o <<TaskOf(Head(io))>>
    BY <1>1, QueuedTaskIsKnown DEF FlowInv
  <2>2. TaskOf(Head(io)) \in Dishes
    <3>1. io \in Seq(Handler) /\ "receive_task" \in HandlerOp
      BY DEF RobotInv, TypeOK, ControlTypes, HandlerOp
    <3>2. Head(io) \in Handler /\ Head(io).op = "receive_task"
      BY <1>1, <3>1, TakeFacts DEF HandleReceiveTask
    <3> QED BY <3>2 DEF Handler, PlainOp, TimedOp, TaskOf, Dishes
  <2>3. Take("receive_task") /\ accepted' = accepted
    BY <1>1 DEF HandleReceiveTask, histVars
  <2> QED BY <2>1, <2>2, <2>3, ListingShrinks DEF RobotInv, FlowInv
<1>2. CASE CookStarts \/ RecomputeOrder
  <2>1. Known' = Known
    BY <1>2, DishAboardIsKnown, RecomputedOrdersAreKnown DEF FlowInv
  <2>2. UNCHANGED <<io, accepted>>
    BY <1>2 DEF CookStarts, RecomputeOrder, histVars
  <2> QED BY <2>1, <2>2, ListingKept DEF FlowInv
<1> QED BY <1>1, <1>2

LEMMA FlowNextKeeps ==
    ASSUME RobotInv, RobotInv', FlowInv, [Next]_vars
    PROVE  FlowInv'
<1>1. CASE ServerStep
  <2>1. CASE \E r \in Recipe, p \in RobotPosition :
               \E s \in 0..(Len(Instructions[r]) - 1) : ReceiveTask(r, s, p)
    <3>1. PICK r \in Recipe, p \in RobotPosition :
             \E s \in 0..(Len(Instructions[r]) - 1) : ReceiveTask(r, s, p)
      BY <2>1
    <3>2. PICK s \in 0..(Len(Instructions[r]) - 1) : ReceiveTask(r, s, p)
      BY <3>1
    <3> QED BY <3>2, ReceiveTaskKeepsOrder, RecomputingKept DEF FlowInv
  <2>2. CASE HandoverStart \/ \E p \in RobotPosition : HandoverCall(p)
    BY <2>2, QuietStepKeepsOrder, RecomputingKept DEF QuietStep, FlowInv
  <2> QED BY <1>1, <2>1, <2>2, PostingStepKeepsOrder, RecomputingKept
          DEF ServerStep, FlowInv
<1>2. CASE WorkerStep
  BY <1>2, QuietStepKeepsOrder, TakingStepKeepsOrder, OtherStepKeepsOrder,
     RecomputingKept
     DEF WorkerStep, QuietStep, TakingStep, LinkStep, FlowInv
<1>3. CASE ClientStep \/ ConveyorAnswers \/ ConveyorRestarts \/ Fault
  BY <1>3, QuietStepKeepsOrder, RecomputingKept
     DEF ClientStep, Fault, QuietStep, LinkStep, FlowInv
<1>4. CASE TimerExpires
  BY <1>4, PostingStepKeepsOrder, RecomputingKept DEF FlowInv
<1>5. CASE UNCHANGED vars
  <2>1. UNCHANGED <<order_queue, pending_orders, dish, handed, accepted, io>>
    BY <1>5 DEF vars, orderVars, dishVars, histVars
  <2>2. Known' = Known
    BY <2>1, KnownUntouched DEF Aboard, TaskOf
  <2> QED BY <2>1, <2>2, ListingKept, RecomputingKept DEF FlowInv
<1> QED BY <1>1, <1>2, <1>3, <1>4, <1>5 DEF Next

(* FlowInv holds in every state the robot reaches.                          *)
THEOREM FlowInvariance == Spec => []FlowInv
<1>1. RobotInv /\ RobotInv' /\ FlowInv /\ [Next]_vars => FlowInv'
  BY FlowNextKeeps
<1>2. Init => FlowInv
  BY FlowInitEstablishes
<1> QED BY <1>1, <1>2, Invariance, PTL DEF Spec

(* The list InOrder speaks of is the one DishesInOrder asks for.            *)
LEMMA ListedInOrder ==
    ASSUME TypeOK, InOrder
    PROVE  DishesInOrder
<1>1. PICK k \in Nat : \E at \in [1..k -> Nat] : Listing(k, at)
  BY DEF InOrder
<1>2. PICK at \in [1..k -> Nat] : Listing(k, at)
  BY <1>1
<1>3. /\ Len(Known) \in Nat /\ Len(accepted) = Len(Known) + k
      /\ accepted \in Seq(Dishes) /\ Known \in Seq(Dishes)
  BY <1>2, ListTypes DEF Listing
<1>4. Len(accepted) - Len(Known) = k
  BY <1>3
<1>5. at \in [1..k -> Posted] /\ DOMAIN at = 1..k
  BY <1>2 DEF Listing
<1> DEFINE queued == [n \in 1..k |-> TaskOf(io[at[n]])]
<1>6. /\ queued \in Seq(Dishes) /\ Len(queued) = k
      /\ \A n \in 1..k : queued[n] = accepted[Len(Known) + n]
  <2>1. ASSUME NEW n \in 1..k
        PROVE  /\ TaskOf(io[at[n]]) = accepted[Len(Known) + n]
               /\ accepted[Len(Known) + n] \in Dishes
    <3>1. Len(Known) + n \in 1..Len(accepted)
      BY <1>3
    <3> QED BY <1>2, <1>3, <3>1 DEF Listing
  <2> DEFINE e(n) == accepted[Len(Known) + n]
  <2>2. queued = [n \in 1..k |-> e(n)] /\ \A n \in 1..k : e(n) \in Dishes
    BY <2>1
  <2> HIDE DEF queued, e
  <2>3. /\ queued \in Seq(Dishes) /\ Len(queued) = k
        /\ \A n \in 1..k : queued[n] = e(n)
    BY <2>2
  <2> QED BY <2>3 DEF e
<1> HIDE DEF queued
<1>7. /\ Known \o queued \in Seq(Dishes)
      /\ Len(Known \o queued) = Len(Known) + k
      /\ \A i \in 1..(Len(Known) + k) :
            (Known \o queued)[i] = IF i <= Len(Known) THEN Known[i]
                                   ELSE queued[i - Len(Known)]
  BY <1>3, <1>6, ConcatProperties
<1>8. ASSUME NEW i \in 1..Len(accepted)
      PROVE  accepted[i] = (Known \o queued)[i]
  <2>1. CASE i <= Len(Known)
    <3>1. i \in 1..Len(Known) /\ i \in 1..(Len(Known) + k)
      BY <2>1, <1>3
    <3> QED BY <2>1, <3>1, <1>2, <1>7 DEF Listing
  <2>2. CASE ~ (i <= Len(Known))
    <3>1. /\ i - Len(Known) \in 1..k /\ Len(Known) + (i - Len(Known)) = i
          /\ i \in 1..(Len(Known) + k)
      BY <2>2, <1>3
    <3> QED BY <2>2, <3>1, <1>6, <1>7
  <2> QED BY <2>1, <2>2
<1>9. accepted = Known \o queued
  BY <1>3, <1>7, <1>8, SeqEqual
<1>10. /\ \A m, n \in DOMAIN at : m < n => at[m] < at[n]
       /\ \A i \in Posted : \E n \in DOMAIN at : at[n] = i
  BY <1>2, <1>5 DEF Listing
<1>11. accepted = Known \o [n \in DOMAIN at |-> TaskOf(io[at[n]])]
  BY <1>5, <1>9 DEF queued
<1> QED BY <1>4, <1>5, <1>10, <1>11 DEF DishesInOrder

(* For every recipe book and any number of tasks, adaptations, crashes and  *)
(* retries, the robot hands over what it accepted in the order it accepted  *)
(* it, and nothing in between is lost or doubled.                           *)
THEOREM FirstComeFirstServed == Spec => []DishesInOrder
<1>1. RobotInv /\ FlowInv => DishesInOrder
  BY ListedInOrder DEF RobotInv, FlowInv
<1> QED BY <1>1, Invariance, FlowInvariance, PTL

------------------------------------------------------------------------------
(* Running totals.  TLA+ defines a recursive function as some function that *)
(* satisfies its equation; that there is one, and what it returns, is shown *)
(* by the least number principle.                                           *)

(* f adds up t, one element after the other.                                *)
Totals(f, t, N) ==
    /\ f \in [0..N -> Nat] /\ f[0] = 0
    /\ \A i \in 1..N : f[i] = f[i - 1] + t[i]

(* Every list of times has running totals.                                  *)
LEMMA TotalsExist ==
    ASSUME NEW N \in Nat, NEW t \in [1..N -> Nat]
    PROVE  \E f : Totals(f, t, N)
<1> DEFINE Bad == {n \in 0..N : ~ \E f : Totals(f, t, n)}
<1>1. 0 \notin Bad
  <2>1. Totals([i \in 0..0 |-> 0], t, 0)
    BY DEF Totals
  <2> QED BY <2>1
<1>2. ASSUME NEW n \in 0..N, n + 1 \in 0..N, NEW f, Totals(f, t, n)
      PROVE  \E g : Totals(g, t, n + 1)
  <2> DEFINE g == [i \in 0..(n + 1) |->
                     IF i = n + 1 THEN f[n] + t[n + 1] ELSE f[i]]
  <2>1. f[n] \in Nat /\ t[n + 1] \in Nat
    BY <1>2 DEF Totals
  <2>2. g \in [0..(n + 1) -> Nat]
    BY <2>1, <1>2 DEF Totals
  <2>3. g[0] = 0
    BY <1>2 DEF Totals
  <2>4. ASSUME NEW i \in 1..(n + 1)
        PROVE  g[i] = g[i - 1] + t[i]
    <3>1. CASE i = n + 1
      BY <3>1, <1>2
    <3>2. CASE i # n + 1
      <4>1. i \in 1..n /\ i - 1 \in 0..(n + 1) /\ i - 1 # n + 1
        BY <3>2
      <4> QED BY <4>1, <1>2 DEF Totals
    <3> QED BY <3>1, <3>2
  <2> QED BY <2>2, <2>3, <2>4 DEF Totals
<1>3. Bad = {}
  <2> SUFFICES ASSUME Bad # {} PROVE FALSE
    OBVIOUS
  <2>1. Bad \subseteq Nat
    OBVIOUS
  <2>2. PICK n \in Bad : \A m \in Bad : n <= m
    <3> HIDE DEF Bad
    <3> QED BY <2>1, LeastNumber
  <2>3. n \in 0..N /\ n # 0
    BY <1>1
  <2>4. n - 1 \in 0..N /\ (n - 1) + 1 = n
    BY <2>3
  <2>5. n - 1 \notin Bad
    BY <2>2, <2>3
  <2>6. PICK f : Totals(f, t, n - 1)
    BY <2>4, <2>5
  <2>7. \E g : Totals(g, t, n)
    BY <2>3, <2>4, <2>6, <1>2
  <2> QED BY <2>7
<1>4. N \in 0..N
  OBVIOUS
<1> QED BY <1>3, <1>4

(* The time of the i-th action of a plan.                                   *)
TimeOf(tool, acts, i) ==
    acts[i].duration + Retooling(ToolAfter(tool, SubSeq(acts, 1, i - 1)), acts[i])
TimesOf(tool, acts) == [i \in 1..Len(acts) |-> TimeOf(tool, acts, i)]

(* Changing the tool takes a natural number of time units.                  *)
LEMMA RetoolingType ==
    ASSUME NEW tool, NEW act PROVE Retooling(tool, act) \in Nat
  BY RecipesAssumption DEF Retooling

(* So does every action of a plan, with the retooling before it.            *)
LEMMA TimesType ==
    ASSUME NEW tool, NEW acts \in Seq(Instruction)
    PROVE  TimesOf(tool, acts) \in [1..Len(acts) -> Nat]
<1>1. ASSUME NEW i \in 1..Len(acts)
      PROVE  TimeOf(tool, acts, i) \in Nat
  <2>1. acts[i] \in Instruction
    OBVIOUS
  <2>2. acts[i].duration \in Nat
    BY <2>1 DEF Instruction
  <2>3. Retooling(ToolAfter(tool, SubSeq(acts, 1, i - 1)), acts[i]) \in Nat
    BY RetoolingType
  <2> QED BY <2>2, <2>3 DEF TimeOf
<1> QED BY <1>1 DEF TimesOf

(* The time of a plan is the last of its running totals.                    *)
LEMMA PlanTotal ==
    ASSUME NEW tool, NEW acts \in Seq(Instruction), NEW f,
           Totals(f, TimesOf(tool, acts), Len(acts))
    PROVE  PlanTime(tool, acts) = f[Len(acts)]
<1> DEFINE N == Len(acts)
           Sum(u) == [n \in 0..N |-> IF n = 0 THEN 0
                                     ELSE u[n - 1] + TimeOf(tool, acts, n)]
           U == CHOOSE u : u = Sum(u)
<1>1. N \in Nat /\ TimesOf(tool, acts) \in [1..N -> Nat]
  BY TimesType
<1>2. \A i \in 1..N : TimesOf(tool, acts)[i] = TimeOf(tool, acts, i)
  BY DEF TimesOf
<1>3. f = Sum(f)
  BY <1>1, <1>2 DEF Totals
<1>4. U = Sum(U)
  <2> HIDE DEF Sum
  <2> QED BY <1>3
<1>5. PlanTime(tool, acts) = U[N]
  BY DEF PlanTime, TimeOf
<1> HIDE DEF U
<1>6. U = f
  <2> DEFINE Bad == {n \in 0..N : U[n] # f[n]}
  <2>1. Bad = {}
    <3> SUFFICES ASSUME Bad # {} PROVE FALSE
      OBVIOUS
    <3>1. Bad \subseteq Nat
      OBVIOUS
    <3>2. PICK n \in Bad : \A m \in Bad : n <= m
      <4> HIDE DEF Bad
      <4> QED BY <3>1, LeastNumber
    <3>3. n \in 1..N
      BY <1>3, <1>4
    <3>4. n - 1 \in 0..N /\ n - 1 \notin Bad
      BY <3>2, <3>3
    <3>5. U[n - 1] = f[n - 1]
      BY <3>4
    <3>6. U[n] = f[n]
      BY <3>3, <3>5, <1>3, <1>4
    <3> QED BY <3>6
  <2>2. \A n \in 0..N : U[n] = f[n]
    BY <2>1
  <2>3. ASSUME NEW n \in 0..N, n # 0 PROVE n - 1 \in 0..N
    BY <2>3, <1>1
  <2>4. Sum(U) = Sum(f)
    BY <2>2, <2>3
  <2> QED BY <2>4, <1>3, <1>4
<1> QED BY <1>5, <1>6

(* The tool before an action is the one the action before it needed.        *)
LEMMA ToolBefore ==
    ASSUME NEW tool, NEW acts \in Seq(Instruction), NEW i \in 1..Len(acts)
    PROVE  TimeOf(tool, acts, i) =
              acts[i].duration
              + Retooling(IF i = 1 THEN tool ELSE RequiredTool(acts[i - 1]),
                          acts[i])
<1> DEFINE before == SubSeq(acts, 1, i - 1)
<1>1. /\ before \in Seq(Instruction) /\ Len(before) = i - 1
      /\ \A j \in 1..(i - 1) : before[j] = acts[j]
  OBVIOUS
<1> HIDE DEF before
<1>2. CASE i = 1
  <2>1. before = <<>>
    BY <1>1, <1>2
  <2> QED BY <2>1, <1>2 DEF TimeOf, ToolAfter, before
<1>3. CASE i # 1
  <2>1. before # <<>> /\ before[Len(before)] = acts[i - 1]
    BY <1>1, <1>3
  <2> QED BY <2>1, <1>3 DEF TimeOf, ToolAfter, before
<1> QED BY <1>2, <1>3

(* The elements of two lists one after the other.                           *)
LEMMA ConcatElements ==
    ASSUME NEW a \in Seq(Instruction), NEW b \in Seq(Instruction)
    PROVE  /\ a \o b \in Seq(Instruction) /\ Len(a) \in Nat /\ Len(b) \in Nat
           /\ Len(a \o b) = Len(a) + Len(b)
           /\ \A i \in 1..Len(a) : (a \o b)[i] = a[i]
           /\ \A i \in 1..Len(b) : (a \o b)[Len(a) + i] = b[i]
<1>1. \A i \in 1..Len(b) : /\ Len(a) + i \in 1..(Len(a) + Len(b))
                           /\ ~ (Len(a) + i <= Len(a))
  OBVIOUS
<1> QED BY <1>1

(* The tool the first part leaves is the one the rest starts with.          *)
LEMMA ToolAfterConcat ==
    ASSUME NEW tool, NEW a \in Seq(Instruction), NEW b \in Seq(Instruction)
    PROVE  ToolAfter(tool, a \o b) = ToolAfter(ToolAfter(tool, a), b)
<1>1. CASE b = <<>>
  <2>1. a \o b = a
    BY <1>1, ConcatEmptySeq
  <2> QED BY <2>1, <1>1 DEF ToolAfter
<1>2. CASE b # <<>>
  <2>1. Len(b) \in 1..Len(b)
    BY <1>2
  <2>2. (a \o b)[Len(a \o b)] = b[Len(b)] /\ a \o b # <<>>
    BY <2>1, ConcatElements
  <2> QED BY <2>2, <1>2 DEF ToolAfter
<1> QED BY <1>1, <1>2

(* A plan takes the time of its first part and then, with the tool that     *)
(* part leaves, the time of the rest.                                       *)
LEMMA PlanConcat ==
    ASSUME NEW tool, NEW a \in Seq(Instruction), NEW b \in Seq(Instruction)
    PROVE  /\ PlanTime(tool, a) \in Nat /\ PlanTime(tool, b) \in Nat
           /\ PlanTime(tool, a \o b)
                = PlanTime(tool, a) + PlanTime(ToolAfter(tool, a), b)
<1> DEFINE then == ToolAfter(tool, a)
           s == TimesOf(tool, a)
           t == TimesOf(then, b)
           u == TimesOf(tool, a \o b)
           M == Len(a)
           N == Len(b)
<1>1. /\ a \o b \in Seq(Instruction) /\ M \in Nat /\ N \in Nat
      /\ Len(a \o b) = M + N
      /\ \A i \in 1..M : (a \o b)[i] = a[i]
      /\ \A i \in 1..N : (a \o b)[M + i] = b[i]
  BY ConcatElements
<1>2. \A i \in 1..M : u[i] = s[i]
  <2>1. ASSUME NEW i \in 1..M
        PROVE  TimeOf(tool, a \o b, i) = TimeOf(tool, a, i)
    <3> DEFINE c == a \o b
    <3>1. c \in Seq(Instruction) /\ i \in 1..Len(c) /\ c[i] = a[i]
      BY <1>1
    <3>2. i # 1 => c[i - 1] = a[i - 1]
      BY <1>1
    <3> HIDE DEF c
    <3>3. TimeOf(tool, c, i)
            = c[i].duration
              + Retooling(IF i = 1 THEN tool ELSE RequiredTool(c[i - 1]), c[i])
      BY <3>1, ToolBefore
    <3>4. TimeOf(tool, a, i)
            = a[i].duration
              + Retooling(IF i = 1 THEN tool ELSE RequiredTool(a[i - 1]), a[i])
      BY ToolBefore
    <3>5. TimeOf(tool, c, i) = TimeOf(tool, a, i)
      BY <3>1, <3>2, <3>3, <3>4
    <3> QED BY <3>5 DEF c
  <2> QED BY <2>1, <1>1 DEF TimesOf
<1>3. \A i \in 1..N : u[M + i] = t[i]
  <2>1. ASSUME NEW i \in 1..N
        PROVE  TimeOf(tool, a \o b, M + i) = TimeOf(then, b, i)
    <3> DEFINE c == a \o b
    <3>1. M + i \in 1..Len(c) /\ c[M + i] = b[i] /\ c \in Seq(Instruction)
      BY <1>1
    <3> HIDE DEF c
    <3>2. (IF M + i = 1 THEN tool ELSE RequiredTool(c[(M + i) - 1]))
            = IF i = 1 THEN then ELSE RequiredTool(b[i - 1])
      <4>1. CASE i = 1 /\ M = 0
        <5>1. a = <<>>
          BY <4>1
        <5> QED BY <4>1, <5>1 DEF ToolAfter
      <4>2. CASE i = 1 /\ M # 0
        <5>1. (M + i) - 1 = M /\ M + i # 1 /\ M \in 1..M /\ a # <<>>
          BY <4>2, <1>1
        <5>2. c[M] = a[M]
          BY <5>1, <1>1 DEF c
        <5> QED BY <4>2, <5>1, <5>2 DEF ToolAfter
      <4>3. CASE i # 1
        <5>1. i - 1 \in 1..N /\ (M + i) - 1 = M + (i - 1) /\ M + i # 1
          BY <4>3, <1>1
        <5>2. c[M + (i - 1)] = b[i - 1]
          BY <5>1, <1>1 DEF c
        <5> QED BY <4>3, <5>1, <5>2
      <4> QED BY <4>1, <4>2, <4>3
    <3>3. TimeOf(tool, c, M + i)
            = b[i].duration
              + Retooling(IF M + i = 1 THEN tool
                          ELSE RequiredTool(c[(M + i) - 1]), b[i])
      BY <3>1, ToolBefore
    <3>4. TimeOf(then, b, i)
            = b[i].duration
              + Retooling(IF i = 1 THEN then ELSE RequiredTool(b[i - 1]), b[i])
      BY ToolBefore
    <3>5. TimeOf(tool, c, M + i) = TimeOf(then, b, i)
      BY <3>2, <3>3, <3>4
    <3> QED BY <3>5 DEF c
  <2>2. ASSUME NEW i \in 1..N PROVE M + i \in 1..(M + N)
    BY <1>1
  <2> QED BY <2>1, <2>2, <1>1 DEF TimesOf
<1>4. PICK f : Totals(f, s, M)
  BY <1>1, TimesType, TotalsExist
<1>5. PICK g : Totals(g, t, N)
  BY <1>1, TimesType, TotalsExist
<1> DEFINE h == [n \in 0..(M + N) |-> IF n <= M THEN f[n] ELSE f[M] + g[n - M]]
<1> HIDE DEF s, t, u, M, N, then
<1>6. /\ f \in [0..M -> Nat] /\ f[0] = 0 /\ \A i \in 1..M : f[i] = f[i - 1] + s[i]
      /\ g \in [0..N -> Nat] /\ g[0] = 0 /\ \A i \in 1..N : g[i] = g[i - 1] + t[i]
  BY <1>4, <1>5 DEF Totals
<1>7. Totals(h, u, M + N)
  <2>1. f[M] \in Nat
    BY <1>1, <1>6
  <2>2. ASSUME NEW n \in 0..(M + N), ~ (n <= M)
        PROVE  n - M \in 1..N /\ g[n - M] \in Nat
    <3>1. n - M \in 1..N
      BY <1>1, <2>2
    <3> QED BY <3>1, <1>6
  <2>3. \A n \in 0..(M + N) : h[n] \in Nat
    BY <2>1, <2>2, <1>1, <1>6
  <2>4. h \in [0..(M + N) -> Nat]
    BY <2>3
  <2>5. h[0] = 0
    BY <1>1, <1>6
  <2>6. ASSUME NEW i \in 1..(M + N)
        PROVE  h[i] = h[i - 1] + u[i]
    <3>1. i \in 0..(M + N) /\ i - 1 \in 0..(M + N)
      BY <1>1
    <3>2. CASE i <= M
      <4>1. i \in 1..M /\ i - 1 <= M
        BY <3>2, <1>1
      <4> QED BY <3>1, <4>1, <1>2, <1>6
    <3>3. CASE i = M + 1
      <4>1. ~ (i <= M) /\ i - 1 = M /\ M <= M /\ i - M = 1 /\ 1 \in 1..N
        BY <3>3, <1>1
      <4>2. g[1] = t[1]
        <5>1. g[1] = g[1 - 1] + t[1] /\ 1 - 1 = 0 /\ g[1] \in Nat
          BY <4>1, <1>6, <1>1
        <5>2. t[1] \in Nat
          BY <1>1, <4>1, TimesType DEF t, N
        <5> QED BY <5>1, <5>2, <1>6
      <4>3. u[i] = t[1]
        BY <3>3, <4>1, <1>3
      <4> QED BY <3>1, <4>1, <4>2, <4>3
    <3>4. CASE ~ (i <= M) /\ i # M + 1
      <4>1. /\ ~ (i - 1 <= M) /\ i - M \in 1..N /\ (i - 1) - M = (i - M) - 1
            /\ i = M + (i - M) /\ (i - M) - 1 \in 0..N
        BY <3>4, <1>1
      <4>2. u[i] = t[i - M]
        BY <4>1, <1>3
      <4>3. g[i - M] = g[(i - M) - 1] + t[i - M]
        BY <4>1, <1>6
      <4>4. t[i - M] \in Nat /\ g[(i - M) - 1] \in Nat
        BY <1>1, <1>6, <4>1, TimesType, ZenonT(60) DEF t, N
      <4> QED BY <3>1, <3>4, <4>1, <4>2, <4>3, <4>4, <2>1
    <3> QED BY <3>2, <3>3, <3>4
  <2> QED BY <2>4, <2>5, <2>6 DEF Totals
<1>8. /\ PlanTime(tool, a) = f[M]
      /\ PlanTime(then, b) = g[N]
      /\ PlanTime(tool, a \o b) = h[M + N]
  <2>1. PlanTime(tool, a) = f[M]
    BY <1>4, PlanTotal DEF s, M
  <2>2. PlanTime(then, b) = g[N]
    BY <1>5, PlanTotal DEF t, N
  <2>3. Totals(h, TimesOf(tool, a \o b), Len(a \o b))
    BY <1>1, <1>7 DEF u
  <2> HIDE DEF h
  <2>4. PlanTime(tool, a \o b) = h[Len(a \o b)]
    BY <1>1, <2>3, PlanTotal
  <2> QED BY <2>1, <2>2, <2>4, <1>1
<1>9. h[M + N] = f[M] + g[N]
  <2>1. CASE N = 0
    BY <2>1, <1>1, <1>6
  <2>2. CASE N # 0
    <3>1. ~ (M + N <= M) /\ (M + N) - M = N /\ M + N \in 0..(M + N)
      BY <2>2, <1>1
    <3> QED BY <3>1
  <2> QED BY <2>1, <2>2
<1>10. f[M] \in Nat
  BY <1>1, <1>6
<1>11. PlanTime(tool, b) \in Nat
  <2>1. PICK k : Totals(k, TimesOf(tool, b), N)
    BY <1>1, TimesType, TotalsExist DEF N
  <2>2. PlanTime(tool, b) = k[N]
    BY <2>1, PlanTotal DEF N
  <2> QED BY <2>1, <2>2, <1>1 DEF Totals
<1> QED BY <1>8, <1>9, <1>10, <1>11 DEF then

(* The time of one action.                                                  *)
LEMMA PlanOfOne ==
    ASSUME NEW tool, NEW act \in Instruction
    PROVE  PlanTime(tool, <<act>>) = act.duration + Retooling(tool, act)
<1> DEFINE acts == <<act>>
           t == TimesOf(tool, acts)
<1>1. /\ acts \in Seq(Instruction) /\ Len(acts) = 1
      /\ acts[1] = act /\ 1 \in 1..Len(acts)
  OBVIOUS
<1> HIDE DEF acts
<1>2. TimeOf(tool, acts, 1) = act.duration + Retooling(tool, act)
  <2>1. TimeOf(tool, acts, 1)
          = acts[1].duration
            + Retooling(IF 1 = 1 THEN tool ELSE RequiredTool(acts[1 - 1]),
                        acts[1])
    BY <1>1, ToolBefore
  <2> QED BY <2>1, <1>1
<1>3. t \in [1..1 -> Nat]
  BY <1>1, TimesType
<1>4. t[1] = act.duration + Retooling(tool, act)
  BY <1>1, <1>2 DEF TimesOf
<1> HIDE DEF t
<1>5. PICK f : Totals(f, t, 1)
  BY <1>3, TotalsExist
<1>6. f[1] = f[1 - 1] + t[1] /\ f[0] = 0 /\ 1 - 1 = 0
  BY <1>5 DEF Totals
<1>7. PlanTime(tool, acts) = f[1]
  BY <1>1, <1>5, PlanTotal DEF t
<1>8. t[1] \in Nat
  BY <1>3
<1>9. PlanTime(tool, acts) = act.duration + Retooling(tool, act)
  BY <1>4, <1>6, <1>7, <1>8
<1> QED BY <1>9 DEF acts

(* A robot with nothing to do needs no time.                                *)
LEMMA PlanOfNothing ==
    ASSUME NEW tool
    PROVE  PlanTime(tool, <<>>) = 0
<1>1. <<>> \in Seq(Instruction) /\ Len(<<>>) = 0
  OBVIOUS
<1>2. PICK f : Totals(f, TimesOf(tool, <<>>), 0)
  BY <1>1, TimesType, TotalsExist
<1> QED BY <1>1, <1>2, PlanTotal DEF Totals

(* Lists joined one after the other.                                        *)
Joins(f, s) ==
    /\ DOMAIN f = 1..Len(s) /\ f[1] = s[1]
    /\ \A i \in 2..Len(s) : f[i] = f[i - 1] \o s[i]

(* Every list of lists can be joined.                                       *)
LEMMA JoinsExist ==
    ASSUME NEW S, NEW s \in Seq(Seq(S)), s # <<>>
    PROVE  \E f \in [1..Len(s) -> Seq(S)] : Joins(f, s)
<1> DEFINE N == Len(s)
           Upto(n, f) == /\ f \in [1..n -> Seq(S)] /\ f[1] = s[1]
                         /\ \A i \in 2..n : f[i] = f[i - 1] \o s[i]
           Bad == {n \in 1..N : ~ \E f : Upto(n, f)}
<1>1. /\ N \in Nat \ {0} /\ \A i \in 1..N : s[i] \in Seq(S)
  OBVIOUS
<1> HIDE DEF N
<1>2. 1 \notin Bad
  <2>1. Upto(1, [i \in 1..1 |-> s[1]])
    BY <1>1
  <2> QED BY <2>1
<1>3. ASSUME NEW n \in 1..N, n + 1 \in 1..N, NEW f, Upto(n, f)
      PROVE  \E g : Upto(n + 1, g)
  <2> DEFINE g == [i \in 1..(n + 1) |->
                     IF i = n + 1 THEN f[n] \o s[n + 1] ELSE f[i]]
  <2>1. f[n] \in Seq(S) /\ s[n + 1] \in Seq(S)
    BY <1>1, <1>3
  <2>2. f[n] \o s[n + 1] \in Seq(S)
    BY <2>1
  <2>3. g \in [1..(n + 1) -> Seq(S)]
    BY <2>2, <1>3
  <2>4. g[1] = s[1]
    BY <1>3
  <2>5. ASSUME NEW i \in 2..(n + 1)
        PROVE  g[i] = g[i - 1] \o s[i]
    <3>1. i \in 1..(n + 1) /\ i - 1 \in 1..(n + 1) /\ i - 1 # n + 1
      OBVIOUS
    <3>2. CASE i = n + 1
      <4>1. i - 1 = n /\ n \in 1..(n + 1) /\ n # n + 1 /\ n + 1 \in 1..(n + 1)
        BY <3>2, <1>1
      <4>2. g[n] = f[n] /\ g[n + 1] = f[n] \o s[n + 1]
        BY <4>1
      <4> QED BY <3>2, <4>1, <4>2
    <3>3. CASE i # n + 1
      <4>1. i \in 2..n
        BY <3>3
      <4>2. f[i] = f[i - 1] \o s[i]
        BY <4>1, <1>3
      <4> QED BY <3>1, <3>3, <4>2
    <3> QED BY <3>2, <3>3
  <2>6. Upto(n + 1, g)
    <3> HIDE DEF g
    <3> QED BY <2>3, <2>4, <2>5
  <2> QED BY <2>6
<1>4. Bad = {}
  <2>1. Bad \subseteq Nat
    <3> HIDE DEF Upto
    <3> QED BY <1>1
  <2>2. ASSUME Bad # {} PROVE FALSE
    <3>1. PICK n \in Bad : \A m \in Bad : n <= m
      <4> HIDE DEF Bad
      <4> QED BY <2>1, <2>2, LeastNumber
    <3>2. n \in 1..N /\ n # 1
      BY <1>2
    <3>3. n - 1 \in 1..N /\ (n - 1) + 1 = n
      BY <1>1, <3>2
    <3>4. n - 1 \notin Bad
      <4> HIDE DEF Bad
      <4> QED BY <1>1, <3>1, <3>2
    <3> HIDE DEF Upto
    <3>5. PICK f : Upto(n - 1, f)
      BY <3>3, <3>4
    <3>6. \E g : Upto(n, g)
      BY <3>2, <3>3, <3>5, <1>3
    <3> QED BY <3>6
  <2> HIDE DEF Bad
  <2> QED BY <2>2
<1>5. PICK f : Upto(N, f)
  <2> HIDE DEF Upto
  <2>1. N \in 1..N
    BY <1>1
  <2> QED BY <2>1, <1>4
<1> QED BY <1>5 DEF Joins, N

(* FlattenSeq is the last of what is joined.                                *)
LEMMA FlattenJoins ==
    ASSUME NEW s, NEW f, Len(s) \in Nat \ {0}, Joins(f, s),
           f = [i \in 1..Len(s) |-> f[i]]
    PROVE  FlattenSeq(s) = f[Len(s)]
<1> DEFINE N == Len(s)
           Join(u) == [i \in 1..N |-> IF i = 1 THEN s[i] ELSE u[i - 1] \o s[i]]
           U == CHOOSE u : u = Join(u)
<1>1. f = Join(f)
  <2>1. ASSUME NEW i \in 1..N PROVE f[i] = Join(f)[i]
    <3>1. CASE i = 1
      BY <3>1 DEF Joins
    <3>2. CASE i # 1
      <4>1. i \in 2..N
        BY <3>2
      <4> QED BY <3>2, <4>1 DEF Joins
    <3> QED BY <3>1, <3>2
  <2> QED BY <2>1
<1>2. U = Join(U)
  <2> HIDE DEF Join
  <2> QED BY <1>1
<1>3. FlattenSeq(s) = U[N]
  BY DEF FlattenSeq
<1> HIDE DEF U
<1>4. U[N] = f[N]
  <2> DEFINE Bad == {n \in 1..N : U[n] # f[n]}
  <2>1. Bad = {}
    <3> SUFFICES ASSUME Bad # {} PROVE FALSE
      OBVIOUS
    <3>1. Bad \subseteq Nat
      OBVIOUS
    <3>2. PICK n \in Bad : \A m \in Bad : n <= m
      <4> HIDE DEF Bad
      <4> QED BY <3>1, LeastNumber
    <3>3. n \in 1..N /\ n # 1
      BY <1>1, <1>2
    <3>4. n - 1 \in 1..N /\ n - 1 \notin Bad
      BY <3>2, <3>3
    <3>5. U[n - 1] = f[n - 1]
      BY <3>4
    <3>6. Join(U)[n] = Join(f)[n]
      BY <3>3, <3>5
    <3> HIDE DEF Join
    <3>7. U[n] = f[n]
      BY <3>6, <1>1, <1>2
    <3> QED BY <3>7
  <2>2. N \in 1..N
    OBVIOUS
  <2> QED BY <2>1, <2>2
<1> QED BY <1>3, <1>4

LEMMA FlattenNothing == FlattenSeq(<<>>) = <<>>
  BY DEF FlattenSeq

(* What FlattenSeq joins is a list of the same things.                      *)
LEMMA FlattenType ==
    ASSUME NEW S, NEW s \in Seq(Seq(S))
    PROVE  FlattenSeq(s) \in Seq(S)
<1>1. CASE s = <<>>
  <2>1. FlattenSeq(s) = <<>>
    BY <1>1, FlattenNothing
  <2> QED BY <2>1
<1>2. CASE s # <<>>
  <2>1. PICK f \in [1..Len(s) -> Seq(S)] : Joins(f, s)
    BY <1>2, JoinsExist
  <2>2. Len(s) \in Nat \ {0} /\ Len(s) \in 1..Len(s)
    BY <1>2
  <2>3. FlattenSeq(s) = f[Len(s)]
    BY <2>1, <2>2, FlattenJoins
  <2> QED BY <2>2, <2>3
<1> QED BY <1>1, <1>2

(* A list added at the end comes last in what is joined.                    *)
LEMMA FlattenAppend ==
    ASSUME NEW S, NEW s \in Seq(Seq(S)), NEW x \in Seq(S)
    PROVE  FlattenSeq(Append(s, x)) = FlattenSeq(s) \o x
<1> DEFINE t == Append(s, x)
           N == Len(s)
<1>1. /\ N \in Nat /\ t \in Seq(Seq(S)) /\ Len(t) = N + 1
      /\ t[N + 1] = x /\ \A i \in 1..N : t[i] = s[i]
  <2> DEFINE T == Seq(S)
  <2>1. s \in Seq(T) /\ x \in T
    OBVIOUS
  <2> HIDE DEF T
  <2>2. /\ N \in Nat /\ t \in Seq(T) /\ Len(t) = N + 1
        /\ t[N + 1] = x /\ \A i \in 1..N : t[i] = s[i]
    BY <2>1
  <2> QED BY <2>2 DEF T
<1> HIDE DEF t
<1>2. t # <<>> /\ Len(t) \in Nat \ {0}
  BY <1>1
<1>3. PICK g \in [1..Len(t) -> Seq(S)] : Joins(g, t)
  BY <1>1, <1>2, JoinsExist
<1>4. FlattenSeq(t) = g[N + 1]
  <2>1. g = [i \in 1..Len(t) |-> g[i]]
    OBVIOUS
  <2> QED BY <2>1, <1>1, <1>3, <1>2, FlattenJoins
<1>5. CASE s = <<>>
  <2>1. N = 0 /\ FlattenSeq(t) = x
    BY <1>1, <1>3, <1>4, <1>5 DEF Joins
  <2>2. FlattenSeq(s) \o x = x
    BY <1>5, FlattenNothing, ConcatEmptySeq
  <2> QED BY <2>1, <2>2 DEF t
<1>6. CASE s # <<>>
  <2> DEFINE f == [i \in 1..N |-> g[i]]
  <2>1. N \in 1..N /\ N + 1 \in 2..(N + 1) /\ (N + 1) - 1 = N
    BY <1>1, <1>6
  <2>2. Joins(f, s)
    <3>1. f[1] = s[1]
      BY <1>1, <1>3, <2>1 DEF Joins
    <3>2. ASSUME NEW i \in 2..N PROVE f[i] = f[i - 1] \o s[i]
      <4>1. i \in 1..N /\ i - 1 \in 1..N /\ i \in 2..Len(t)
        BY <1>1, SMTT(60)
      <4> QED BY <4>1, <1>1, <1>3 DEF Joins
    <3> HIDE DEF f
    <3>3. DOMAIN f = 1..N
      BY DEF f
    <3> QED BY <3>1, <3>2, <3>3 DEF Joins
  <2>3. FlattenSeq(s) = f[N]
    <3>1. f = [i \in 1..N |-> f[i]]
      OBVIOUS
    <3>2. Len(s) \in Nat \ {0}
      BY <1>6
    <3> HIDE DEF f
    <3> QED BY <2>2, <3>1, <3>2, FlattenJoins
  <2>4. g[N + 1] = g[N] \o t[N + 1]
    BY <1>1, <1>3, <2>1 DEF Joins
  <2> QED BY <1>1, <1>4, <2>1, <2>3, <2>4 DEF t
<1> QED BY <1>5, <1>6

LEMMA ConcatThree ==
    ASSUME NEW S, NEW a \in Seq(S), NEW b \in Seq(S), NEW c \in Seq(S)
    PROVE  (a \o b) \o c = a \o (b \o c)
  BY ConcatAssociative

(* The first list comes first in what is joined.                            *)
LEMMA FlattenFirst ==
    ASSUME NEW S, NEW s \in Seq(Seq(S)), s # <<>>
    PROVE  FlattenSeq(s) = Head(s) \o FlattenSeq(Tail(s))
<1>0. ASSUME NEW a \in Seq(S), NEW b \in Seq(S), NEW c \in Seq(S)
      PROVE  (a \o b) \o c = a \o (b \o c)
  BY ConcatThree, SMTT(60)
<1> DEFINE t == Tail(s)
           N == Len(s)
<1>1. /\ N \in Nat \ {0} /\ t \in Seq(Seq(S)) /\ Len(t) = N - 1
      /\ \A i \in 1..N : s[i] \in Seq(S)
      /\ Head(s) = s[1] /\ \A i \in 1..(N - 1) : t[i] = s[i + 1]
  OBVIOUS
<1> HIDE DEF t
<1>2. CASE N = 1
  <2>1. t = <<>> /\ s[1] \in Seq(S)
    BY <1>1, <1>2
  <2>2. Joins(<<s[1]>>, s)
    BY <1>2 DEF Joins
  <2>3. FlattenSeq(s) = s[1]
    BY <1>2, <2>2, FlattenJoins
  <2>4. s[1] \o FlattenSeq(t) = s[1]
    BY <2>1, FlattenNothing, ConcatEmptySeq
  <2> QED BY <1>1, <2>3, <2>4 DEF t
<1>3. CASE N # 1
  <2>1. t # <<>> /\ Len(t) \in Nat \ {0} /\ Len(t) = N - 1
    BY <1>1, <1>3, SMTT(60)
  <2>2. PICK g \in [1..Len(t) -> Seq(S)] : Joins(g, t)
    BY <1>1, <2>1, JoinsExist
  <2>3. FlattenSeq(t) = g[N - 1]
    BY <2>1, <2>2, FlattenJoins
  <2> DEFINE f == [i \in 1..N |-> IF i = 1 THEN s[1] ELSE s[1] \o g[i - 1]]
  <2>4. ASSUME NEW i \in 2..N PROVE f[i] = f[i - 1] \o s[i]
    <3>1. /\ i \in 1..N /\ i # 1 /\ i - 1 \in 1..N
          /\ i - 1 \in 1..(N - 1) /\ (i - 1) + 1 = i
      BY <1>1
    <3>2. t[i - 1] = s[i]
      BY <3>1, <1>1
    <3>3. CASE i = 2
      <4>1. g[1] = s[2]
        BY <3>2, <3>3, <2>2 DEF Joins
      <4>2. f[2] = s[1] \o g[1] /\ f[1] = s[1]
        <5>1. 2 \in 1..N /\ 1 \in 1..N /\ 2 # 1 /\ 2 - 1 = 1
          BY <3>1, <3>3, <1>1, SMTT(60)
        <5> QED BY <5>1
      <4>3. i - 1 = 1
        BY <3>3, SMTT(60)
      <4> QED BY <3>3, <4>1, <4>2, <4>3
    <3>4. CASE i # 2
      <4>1. /\ i - 1 # 1 /\ i - 1 \in 2..(N - 1) /\ (i - 1) - 1 \in 1..(N - 1)
        BY <3>1, <3>4
      <4>2. g[i - 1] = g[(i - 1) - 1] \o s[i]
        BY <4>1, <3>2, <2>1, <2>2 DEF Joins
      <4>3. g[(i - 1) - 1] \in Seq(S) /\ s[1] \in Seq(S) /\ s[i] \in Seq(S)
        <5>1. 1 \in 1..N /\ (i - 1) - 1 \in 1..Len(t)
          BY <4>1, <2>1, <1>1
        <5> QED BY <5>1, <3>1, <1>1
      <4>4. (s[1] \o g[(i - 1) - 1]) \o s[i] = s[1] \o (g[(i - 1) - 1] \o s[i])
        BY <4>3, <1>0
      <4>5. f[i] = s[1] \o g[i - 1] /\ f[i - 1] = s[1] \o g[(i - 1) - 1]
        BY <3>1, <4>1
      <4> QED BY <4>2, <4>4, <4>5
    <3> QED BY <3>3, <3>4
  <2>5. f[1] = s[1] /\ f[N] = s[1] \o g[N - 1] /\ f = [i \in 1..N |-> f[i]]
    <3>1. 1 \in 1..N /\ N \in 1..N
      BY <1>1
    <3> QED BY <3>1, <1>3
  <2>6. DOMAIN f = 1..N
    OBVIOUS
  <2> HIDE DEF f
  <2>7. Joins(f, s)
    BY <2>4, <2>5, <2>6 DEF Joins
  <2>8. FlattenSeq(s) = f[N]
    BY <1>1, <2>5, <2>7, FlattenJoins
  <2> QED BY <1>1, <2>3, <2>5, <2>8 DEF t
<1> QED BY <1>2, <1>3

------------------------------------------------------------------------------
(* The work ahead of the robot and its account of it.                       *)

(* What a robot with profile q can do of each of the orders.                *)
Works(q, orders) ==
    [i \in DOMAIN orders |->
        Processable(q, Remaining(orders[i].recipe_id, orders[i].steps))]

(* What runs or is about to be equipped is the first action of the queue.   *)
AtWork ==
    /\ Pending("pass_time") =>
         /\ current_tool = RequiredTool(action_queue_in_process[1])
         /\ duration_left \in 1..action_queue_in_process[1].duration
    /\ Pending("retool") =>
         /\ current_tool # RequiredTool(action_queue_in_process[1])
         /\ IsCapableTo(profile, action_queue_in_process[1])

(* OVERALL_TIME and LAST_EQUIPPED_TOOL are those of the work ahead.         *)
Accounted ==
    /\ overall_time = PlanTime(current_tool, WorkAhead) - Elapsed
    /\ last_tool = ToolAfter(current_tool, WorkAhead)

TimeInv == Accounted /\ AtWork

LEMMA WorksType ==
    ASSUME NEW q, NEW orders \in Seq(Order)
    PROVE  /\ Works(q, orders) \in Seq(Seq(Instruction))
           /\ Len(Works(q, orders)) = Len(orders)
           /\ \A i \in 1..Len(orders) :
                 Works(q, orders)[i]
                   = Processable(q, Remaining(orders[i].recipe_id,
                                              orders[i].steps))
<1> DEFINE N == Len(orders)
<1>1. DOMAIN orders = 1..N /\ N \in Nat
  OBVIOUS
<1>2. ASSUME NEW i \in 1..N
      PROVE  Processable(q, Remaining(orders[i].recipe_id, orders[i].steps))
               \in Seq(Instruction)
  <2>1. orders[i] \in Order
    BY <1>1
  <2>2. orders[i].recipe_id \in Recipe /\ orders[i].steps \in Nat
    BY <2>1 DEF Order
  <2> QED BY <2>2, RemainingType, ProcessableType
<1> HIDE DEF N
<1>3. Works(q, orders) \in [1..N -> Seq(Instruction)]
  BY <1>1, <1>2 DEF Works
<1>4. Works(q, orders) \in Seq(Seq(Instruction)) /\ Len(Works(q, orders)) = N
  <2> DEFINE T == Seq(Instruction)
             w == Works(q, orders)
  <2>1. w \in [1..N -> T]
    BY <1>3
  <2> HIDE DEF T, w
  <2>2. w \in Seq(T) /\ Len(w) = N
    BY <2>1, <1>1
  <2> QED BY <2>2 DEF T, w
<1> QED BY <1>1, <1>4 DEF Works, N

(* An order more is its work more, at the end.                              *)
LEMMA WorksAppend ==
    ASSUME NEW q, NEW orders \in Seq(Order), NEW o \in Order
    PROVE  Works(q, Append(orders, o))
             = Append(Works(q, orders),
                      Processable(q, Remaining(o.recipe_id, o.steps)))
<1> DEFINE N == Len(orders)
           more == Append(orders, o)
           T == Seq(Instruction)
           w == Works(q, orders)
           x == Processable(q, Remaining(o.recipe_id, o.steps))
           v == Works(q, more)
<1>1. /\ N \in Nat /\ more \in Seq(Order) /\ Len(more) = N + 1
      /\ more[N + 1] = o /\ \A i \in 1..N : more[i] = orders[i]
  OBVIOUS
<1>2. /\ w \in Seq(T) /\ Len(w) = N
      /\ \A i \in 1..N :
            w[i] = Processable(q, Remaining(orders[i].recipe_id, orders[i].steps))
  BY WorksType
<1>3. x \in T
  <2>1. o.recipe_id \in Recipe /\ o.steps \in Nat
    BY DEF Order
  <2> QED BY <2>1, RemainingType, ProcessableType
<1> HIDE DEF more
<1>4. /\ v \in Seq(T) /\ Len(v) = N + 1
      /\ \A i \in 1..(N + 1) :
            v[i] = Processable(q, Remaining(more[i].recipe_id, more[i].steps))
  BY <1>1, WorksType
<1> HIDE DEF N, T, w, v
<1>5. v[N + 1] = x /\ \A i \in 1..N : v[i] = w[i]
  <2>1. v[N + 1] = x
    BY <1>1, <1>4
  <2>2. ASSUME NEW i \in 1..N PROVE v[i] = w[i]
    <3>1. i \in 1..(N + 1) /\ more[i] = orders[i]
      BY <1>1
    <3> QED BY <3>1, <1>2, <1>4
  <2> QED BY <2>1, <2>2
<1> HIDE DEF x
<1>6. v = Append(w, x)
  BY <1>1, <1>2, <1>3, <1>4, <1>5
<1> QED BY <1>6 DEF w, x, v, more

(* An order less is its work less, at the front.                            *)
LEMMA WorksTail ==
    ASSUME NEW q, NEW orders \in Seq(Order), orders # <<>>
    PROVE  /\ Works(q, orders) # <<>>
           /\ Tail(orders) \in Seq(Order)
           /\ Works(q, Tail(orders)) = Tail(Works(q, orders))
           /\ Head(Works(q, orders))
                = Processable(q, Remaining(Head(orders).recipe_id,
                                           Head(orders).steps))
<1> DEFINE N == Len(orders)
           less == Tail(orders)
           T == Seq(Instruction)
           w == Works(q, orders)
           v == Works(q, less)
<1>1. /\ N \in Nat \ {0} /\ less \in Seq(Order) /\ Len(less) = N - 1
      /\ Head(orders) = orders[1] /\ \A i \in 1..(N - 1) : less[i] = orders[i + 1]
  OBVIOUS
<1>2. /\ w \in Seq(T) /\ Len(w) = N
      /\ \A i \in 1..N :
            w[i] = Processable(q, Remaining(orders[i].recipe_id, orders[i].steps))
  BY WorksType
<1> HIDE DEF less
<1>3. /\ v \in Seq(T) /\ Len(v) = N - 1
      /\ \A i \in 1..(N - 1) :
            v[i] = Processable(q, Remaining(less[i].recipe_id, less[i].steps))
  BY <1>1, WorksType
<1> HIDE DEF N, T, w, v
<1>4. ASSUME NEW i \in 1..(N - 1) PROVE v[i] = w[i + 1]
  <2>1. i + 1 \in 1..N /\ less[i] = orders[i + 1]
    BY <1>1
  <2> QED BY <2>1, <1>2, <1>3
<1>5. /\ w # <<>> /\ Head(w) = w[1] /\ Tail(w) \in Seq(T) /\ Len(Tail(w)) = N - 1
      /\ \A i \in 1..(N - 1) : Tail(w)[i] = w[i + 1]
  BY <1>1, <1>2
<1>6. v = Tail(w)
  BY <1>1, <1>3, <1>4, <1>5
<1>7. w[1] = Processable(q, Remaining(Head(orders).recipe_id, Head(orders).steps))
  BY <1>1, <1>2
<1> QED BY <1>1, <1>5, <1>6, <1>7 DEF w, v, less

(* An action the robot is capable to comes first in what it can do.         *)
LEMMA ProcessableFirst ==
    ASSUME NEW q, NEW acts \in Seq(Instruction), acts # <<>>,
           IsCapableTo(q, acts[1])
    PROVE  Processable(q, acts) = <<acts[1]>> \o Processable(q, Tail(acts))
<1> DEFINE rest == Tail(acts)
           n == ProcessableSteps(q, acts)
           m == ProcessableSteps(q, rest)
           p == Processable(q, acts)
           r == Processable(q, rest)
           one == <<acts[1]>>
<1>1. /\ rest \in Seq(Instruction) /\ Len(acts) \in Nat \ {0}
      /\ Len(rest) = Len(acts) - 1
      /\ \A i \in 1..Len(rest) : rest[i] = acts[i + 1]
      /\ acts[1] \in Instruction
  OBVIOUS
<1>2. n = m + 1
  BY ProcessableTail
<1>3. n \in 0..Len(acts)
  BY ProcessableStepsExact
<1> HIDE DEF rest
<1>4. m \in 0..Len(rest)
  BY <1>1, ProcessableStepsExact
<1> HIDE DEF n, m
<1>5. /\ p \in Seq(Instruction) /\ Len(p) = n
      /\ \A i \in 1..n : p[i] = acts[i]
  BY <1>1, <1>3 DEF Processable, n
<1>6. /\ r \in Seq(Instruction) /\ Len(r) = m
      /\ \A i \in 1..m : r[i] = rest[i]
  BY <1>1, <1>4 DEF Processable, m
<1>7. one \in Seq(Instruction) /\ Len(one) = 1 /\ one[1] = acts[1]
  BY <1>1
<1> HIDE DEF p, r, one
<1>8. /\ one \o r \in Seq(Instruction) /\ Len(one \o r) = 1 + m
      /\ (one \o r)[1] = acts[1]
      /\ \A i \in 1..m : (one \o r)[1 + i] = r[i]
  <2>1. /\ one \o r \in Seq(Instruction) /\ Len(one \o r) = Len(one) + Len(r)
        /\ \A i \in 1..Len(one) : (one \o r)[i] = one[i]
        /\ \A i \in 1..Len(r) : (one \o r)[Len(one) + i] = r[i]
    BY <1>6, <1>7, ConcatElements
  <2>2. 1 \in 1..Len(one)
    BY <1>7
  <2> QED BY <2>1, <2>2, <1>6, <1>7
<1>9. ASSUME NEW i \in 1..n
      PROVE  p[i] = (one \o r)[i]
  <2>1. CASE i = 1
    BY <2>1, <1>5, <1>8
  <2>2. CASE i # 1
    <3>1. /\ i - 1 \in 1..m /\ i - 1 \in 1..Len(rest)
          /\ 1 + (i - 1) = i /\ (i - 1) + 1 = i
      BY <2>2, <1>1, <1>2, <1>3, <1>4
    <3>2. /\ (one \o r)[i] = r[i - 1] /\ r[i - 1] = rest[i - 1]
          /\ rest[i - 1] = acts[i]
      BY <3>1, <1>1, <1>6, <1>8
    <3> QED BY <3>2, <1>5
  <2> QED BY <2>1, <2>2
<1> DEFINE all == one \o r
<1>10. all \in Seq(Instruction) /\ Len(all) = n /\ \A i \in 1..n : p[i] = all[i]
  <2>1. Len(all) = n
    BY <1>2, <1>4, <1>8, <1>1
  <2> QED BY <2>1, <1>8, <1>9
<1> HIDE DEF all
<1>11. p = all
  BY <1>5, <1>10
<1> QED BY <1>11 DEF all, p, r, one, rest

(* The time of a plan is that of its first action and that of the rest.     *)
LEMMA PlanFirst ==
    ASSUME NEW tool, NEW act \in Instruction, NEW rest \in Seq(Instruction)
    PROVE  /\ PlanTime(RequiredTool(act), rest) \in Nat
           /\ PlanTime(tool, <<act>> \o rest)
                = (act.duration + Retooling(tool, act))
                  + PlanTime(RequiredTool(act), rest)
           /\ ToolAfter(tool, <<act>> \o rest)
                = ToolAfter(RequiredTool(act), rest)
<1> DEFINE one == <<act>>
<1>1. one \in Seq(Instruction) /\ one # <<>> /\ Len(one) = 1 /\ one[1] = act
  OBVIOUS
<1>2. PlanTime(tool, one) = act.duration + Retooling(tool, act)
  BY PlanOfOne
<1> HIDE DEF one
<1>3. ToolAfter(tool, one) = RequiredTool(act)
  BY <1>1 DEF ToolAfter
<1>4. PlanTime(tool, one \o rest)
        = PlanTime(tool, one) + PlanTime(ToolAfter(tool, one), rest)
  BY <1>1, PlanConcat
<1>5. ToolAfter(tool, one \o rest) = ToolAfter(ToolAfter(tool, one), rest)
  BY <1>1, ToolAfterConcat
<1>6. PlanTime(RequiredTool(act), rest) \in Nat
  BY PlanConcat
<1> QED BY <1>2, <1>3, <1>4, <1>5, <1>6 DEF one

LEMMA WorkFacts ==
    ASSUME TypeOK
    PROVE  /\ FlattenSeq(Works(profile, order_queue)) \in Seq(Instruction)
           /\ WorkAboard \in Seq(Instruction)
           /\ WorkAhead = WorkAboard \o FlattenSeq(Works(profile, order_queue))
           /\ WorkAhead \in Seq(Instruction)
<1>1. order_queue \in Seq(Order) /\ action_queue_in_process \in Seq(Instruction)
  BY DEF TypeOK, DataTypes
<1>2. Works(profile, order_queue) \in Seq(Seq(Instruction))
  BY <1>1, WorksType
<1>3. FlattenSeq(Works(profile, order_queue)) \in Seq(Instruction)
  BY <1>2, FlattenType
<1>4. WorkAboard \in Seq(Instruction)
  BY <1>1, ProcessableType DEF WorkAboard
<1>5. WorkAhead = WorkAboard \o FlattenSeq(Works(profile, order_queue))
  BY DEF WorkAhead, WorkOf, Works
<1> QED BY <1>3, <1>4, <1>5, ConcatElements

LEMMA ElapsedType ==
    ASSUME RobotInv
    PROVE  Elapsed \in Int
<1>1. CASE Pending("pass_time")
  <2>1. /\ action_queue_in_process # <<>> /\ duration_left \in Nat
        /\ action_queue_in_process \in Seq(Instruction)
    BY <1>1 DEF RobotInv, AtHand, TypeOK, DataTypes
  <2>2. action_queue_in_process[1].duration \in Nat
    BY <2>1, FirstInstruction
  <2>3. Elapsed = action_queue_in_process[1].duration - duration_left
    BY <1>1 DEF Elapsed, Pending
  <2> QED BY <2>1, <2>2, <2>3
<1>2. CASE ~ Pending("pass_time")
  BY <1>2 DEF Elapsed, Pending
<1> QED BY <1>1, <1>2

------------------------------------------------------------------------------
(* Every step preserves TimeInv.                                            *)

LEMMA TimeInitEstablishes == Init => TimeInv
<1> SUFFICES ASSUME Init PROVE TimeInv
  OBVIOUS
<1>1. ~ Pending("pass_time") /\ ~ Pending("retool")
  BY DEF Init, Pending, Queued
<1>2. Elapsed = 0
  BY <1>1 DEF Elapsed, Pending
<1>3. WorkAhead = <<>>
  <2>1. Works(profile, order_queue) = <<>>
    BY DEF Init, Works
  <2>2. WorkAboard = <<>>
    BY DEF Init, WorkAboard
  <2>3. WorkAhead = WorkAboard \o FlattenSeq(Works(profile, order_queue))
    BY DEF WorkAhead, WorkOf, Works
  <2>4. <<>> \in Seq(Instruction)
    OBVIOUS
  <2> QED BY <2>1, <2>2, <2>3, <2>4, FlattenNothing, ConcatEmptySeq
<1>4. overall_time = 0 /\ last_tool = current_tool
  BY DEF Init
<1> QED BY <1>1, <1>2, <1>3, <1>4, PlanOfNothing
        DEF TimeInv, Accounted, AtWork, ToolAfter

(* A step that leaves the work and what is at hand alone.                   *)
LEMMA TimeUntouched ==
    ASSUME TimeInv,
           UNCHANGED <<overall_time, last_tool, current_tool, duration_left,
                       order_queue, profile, dish, action_queue_in_process>>,
           Pending("pass_time")' <=> Pending("pass_time"),
           Pending("retool")' => Pending("retool")
    PROVE  TimeInv'
<1>1. WorkAhead' = WorkAhead
  BY DEF WorkAhead, WorkAboard, WorkOf
<1>2. Elapsed' = Elapsed
  BY DEF Elapsed, Pending
<1>3. Accounted'
  BY <1>1, <1>2 DEF TimeInv, Accounted
<1>4. AtWork'
  BY DEF TimeInv, AtWork
<1> QED BY <1>3, <1>4 DEF TimeInv

LEMMA QuietStepKeepsTime ==
    ASSUME RobotInv, RobotInv', TimeInv, QuietStep
    PROVE  TimeInv'
<1>1. UNCHANGED <<overall_time, last_tool, current_tool, duration_left,
                  order_queue, profile, dish, action_queue_in_process, io>>
  BY DEF QuietStep, LinkStep, CookRearranges, CookReconfigures, CookIdles,
         RecomputeDone, NotifyCall, NotifyReturns, NotifyFails,
         NotifyWithoutClient, ConveyorAnswers, SpuriousWakeup,
         ClientDropsConveyor, ClientReconnects, ClientReconnectFails,
         ConveyorCrashes, ConveyorRestarts, ConnectionDrops, HandoverCallLost,
         HandoverStart, HandoverCall, placeVars, orderVars, dishVars
<1>2. \/ timer' = timer
      \/ timer = "none" /\ timer' \notin {"pass_time", "retool"}
  <2>1. running'
    BY DEF RobotInv
  <2> QED BY <2>1
      DEF QuietStep, LinkStep, CookRearranges, CookReconfigures, CookIdles,
         RecomputeDone, NotifyCall, NotifyReturns, NotifyFails,
         NotifyWithoutClient, ConveyorAnswers, SpuriousWakeup,
         ClientDropsConveyor, ClientReconnects, ClientReconnectFails,
         ConveyorCrashes, ConveyorRestarts, ConnectionDrops, HandoverCallLost,
         HandoverStart, HandoverCall, StartRearranging, StartReconfiguration,
         Arm
<1>3. /\ Pending("pass_time")' <=> Pending("pass_time")
      /\ Pending("retool")' => Pending("retool")
  BY <1>1, <1>2 DEF Pending, Queued
<1> QED BY <1>1, <1>3, TimeUntouched

LEMMA TakingStepKeepsTime ==
    ASSUME RobotInv, RobotInv', TimeInv, TakingStep
    PROVE  TimeInv'
<1>1. UNCHANGED <<overall_time, last_tool, current_tool, duration_left,
                  order_queue, profile, dish, action_queue_in_process>>
  BY DEF TakingStep, CookPosted, HandleSwitchRequest,
         HandleReconfigureRequest, MoveToNewPosition,
         HandleNewPositionCommit, placeVars, orderVars, dishVars
<1>2. \/ timer' = timer
      \/ timer = "none" /\ timer' \notin {"pass_time", "retool"}
  <2>1. running'
    BY DEF RobotInv
  <2> QED BY <2>1
      DEF TakingStep, CookPosted, HandleSwitchRequest,
         HandleReconfigureRequest, MoveToNewPosition,
         HandleNewPositionCommit, StartRearranging, StartReconfiguration, Arm
<1>3. PICK o \in HandlerOp \ {"pass_time", "retool"} : Take(o)
  BY DEF TakingStep, CookPosted, HandleSwitchRequest,
         HandleReconfigureRequest, MoveToNewPosition,
         HandleNewPositionCommit, HandlerOp, PlainOp, TimedOp
<1>4. \A op \in {"pass_time", "retool"} : Queued(op)' <=> Queued(op)
  <2>1. /\ io \in Seq(Handler)
        /\ {"pass_time", "retool"} \subseteq HandlerOp \ {o}
    BY <1>3 DEF RobotInv, TypeOK, ControlTypes, HandlerOp, PlainOp, TimedOp
  <2> QED BY <1>3, <2>1, TakeFacts
<1>5. /\ Pending("pass_time")' <=> Pending("pass_time")
      /\ Pending("retool")' => Pending("retool")
  BY <1>2, <1>4 DEF Pending
<1> QED BY <1>1, <1>5, TimeUntouched

LEMMA PostingStepKeepsTime ==
    ASSUME RobotInv, TimeInv, PostingStep
    PROVE  TimeInv'
<1>1. UNCHANGED <<overall_time, last_tool, current_tool, duration_left,
                  order_queue, profile, dish, action_queue_in_process>>
  BY DEF PostingStep, ReceiveTask, SwitchPosition, Reconfigure,
         CommitNewPosition, TimerExpires, placeVars, orderVars, dishVars
<1>2. PICK h \in Handler :
         /\ Post(h)
         /\ h.op \in {"pass_time", "retool"} => timer = h.op
         /\ timer' # timer => h.op = timer /\ timer' = "none"
  BY PostedHandler
<1>3. \A op \in {"pass_time", "retool"} : Queued(op)' <=> Queued(op) \/ h.op = op
  <2>1. io \in Seq(Handler) /\ {"pass_time", "retool"} \subseteq HandlerOp
    BY DEF RobotInv, TypeOK, ControlTypes, HandlerOp, PlainOp, TimedOp
  <2> QED BY <1>2, <2>1, PostFacts
<1>4. /\ Pending("pass_time")' <=> Pending("pass_time")
      /\ Pending("retool")' => Pending("retool")
  BY <1>2, <1>3 DEF Pending
<1> QED BY <1>1, <1>4, TimeUntouched

(* An order that joins the queue adds its work at the end.                  *)
LEMMA EnqueueOrderKeepsTime ==
    ASSUME RobotInv, TimeInv, NEW r \in Recipe, NEW s \in Nat, EnqueueOrder(r, s),
           UNCHANGED <<current_tool, duration_left, profile, dish,
                       action_queue_in_process>>,
           Pending("pass_time")' <=> Pending("pass_time"),
           Pending("retool")' => Pending("retool")
    PROVE  TimeInv'
<1> DEFINE todo == Processable(profile, Remaining(r, s))
           o    == [recipe_id |-> r, steps |-> s, processable |-> Len(todo)]
           works == Works(profile, order_queue)
<1>1. todo \in Seq(Instruction)
  BY RemainingType, ProcessableType
<1>2. o \in Order /\ o.recipe_id = r /\ o.steps = s
  BY <1>1 DEF Order
<1>3. /\ order_queue \in Seq(Order) /\ order_queue' = Append(order_queue, o)
      /\ overall_time' = overall_time + PlanTime(last_tool, todo)
      /\ last_tool' = ToolAfter(last_tool, todo)
  BY DEF EnqueueOrder, RobotInv, TypeOK, DataTypes
<1>4. Works(profile, Append(order_queue, o)) = Append(works, todo)
  <2> HIDE DEF o
  <2>1. Works(profile, Append(order_queue, o))
          = Append(works, Processable(profile, Remaining(o.recipe_id, o.steps)))
    BY <1>2, <1>3, WorksAppend
  <2> QED BY <2>1, <1>2
<1> HIDE DEF o
<1>5. Works(profile, order_queue)' = Append(works, todo)
  BY <1>3, <1>4
<1>6. /\ FlattenSeq(works) \in Seq(Instruction)
      /\ WorkAboard \in Seq(Instruction) /\ WorkAhead \in Seq(Instruction)
      /\ WorkAhead = WorkAboard \o FlattenSeq(works)
  BY WorkFacts DEF RobotInv
<1>7. works \in Seq(Seq(Instruction))
  BY <1>3, WorksType
<1>8. WorkAhead' = WorkAboard' \o FlattenSeq(Works(profile, order_queue)')
  BY DEF WorkAhead, WorkOf, Works
<1>9. WorkAboard' = WorkAboard
  BY DEF WorkAboard
<1> HIDE DEF works, todo
<1>10. FlattenSeq(Append(works, todo)) = FlattenSeq(works) \o todo
  BY <1>1, <1>7, FlattenAppend
<1>11. WorkAhead' = WorkAhead \o todo
  <2>1. WorkAhead' = WorkAboard \o (FlattenSeq(works) \o todo)
    BY <1>5, <1>8, <1>9, <1>10
  <2>2. (WorkAboard \o FlattenSeq(works)) \o todo
          = WorkAboard \o (FlattenSeq(works) \o todo)
    BY <1>1, <1>6, ConcatThree
  <2> QED BY <2>1, <2>2, <1>6
<1>12. Elapsed' = Elapsed
  BY DEF Elapsed, Pending
<1>13. Accounted'
  <2>1. /\ PlanTime(current_tool, WorkAhead) \in Nat
        /\ PlanTime(current_tool, WorkAhead \o todo)
             = PlanTime(current_tool, WorkAhead)
               + PlanTime(ToolAfter(current_tool, WorkAhead), todo)
    BY <1>1, <1>6, PlanConcat
  <2>2. PlanTime(last_tool, todo) \in Nat
    BY <1>1, <1>6, PlanConcat
  <2>3. ToolAfter(current_tool, WorkAhead \o todo)
          = ToolAfter(ToolAfter(current_tool, WorkAhead), todo)
    BY <1>1, <1>6, ToolAfterConcat
  <2>4. /\ overall_time = PlanTime(current_tool, WorkAhead) - Elapsed
        /\ last_tool = ToolAfter(current_tool, WorkAhead)
        /\ Elapsed \in Int
    BY ElapsedType DEF TimeInv, Accounted
  <2>5. overall_time' = PlanTime(current_tool, WorkAhead \o todo) - Elapsed
    BY <2>1, <2>2, <2>4, <1>3 DEF todo
  <2>6. last_tool' = ToolAfter(current_tool, WorkAhead \o todo)
    BY <2>3, <2>4, <1>3 DEF todo
  <2> QED BY <2>5, <2>6, <1>11, <1>12 DEF Accounted
<1>14. AtWork'
  BY DEF TimeInv, AtWork
<1> QED BY <1>13, <1>14 DEF TimeInv

LEMMA EnqueueingKeepsTime ==
    ASSUME RobotInv, TimeInv, HandleReceiveTask \/ RecomputeOrder
    PROVE  TimeInv'
<1>1. UNCHANGED <<current_tool, duration_left, profile, dish,
                  action_queue_in_process, timer>>
  BY DEF HandleReceiveTask, RecomputeOrder, placeVars, dishVars
<1>2. \A op \in {"pass_time", "retool"} : Queued(op)' <=> Queued(op)
  <2>1. /\ io \in Seq(Handler) /\ "receive_task" \in HandlerOp
        /\ {"pass_time", "retool"} \subseteq HandlerOp \ {"receive_task"}
    BY DEF RobotInv, TypeOK, ControlTypes, HandlerOp, PlainOp, TimedOp
  <2>2. CASE HandleReceiveTask
    BY <2>1, <2>2, TakeFacts DEF HandleReceiveTask
  <2>3. CASE RecomputeOrder
    BY <2>3 DEF RecomputeOrder, Queued
  <2> QED BY <2>2, <2>3
<1>3. /\ Pending("pass_time")' <=> Pending("pass_time")
      /\ Pending("retool")' => Pending("retool")
  BY <1>1, <1>2 DEF Pending
<1>4. PICK r \in Recipe, s \in Nat : EnqueueOrder(r, s)
  <2>1. CASE HandleReceiveTask
    <3>1. Head(io) \in Handler /\ Head(io).op = "receive_task"
      <4>1. io \in Seq(Handler) /\ "receive_task" \in HandlerOp
        BY DEF RobotInv, TypeOK, ControlTypes, HandlerOp
      <4> QED BY <2>1, <4>1, TakeFacts DEF HandleReceiveTask
    <3>2. Head(io).recipe_id \in Recipe /\ Head(io).steps \in Nat
      BY <3>1 DEF Handler, PlainOp, TimedOp
    <3> QED BY <2>1, <3>2 DEF HandleReceiveTask
  <2>2. CASE RecomputeOrder
    <3>1. Head(pending_orders) \in Order
      BY <2>2 DEF RecomputeOrder, RobotInv, TypeOK, DataTypes
    <3>2. /\ Head(pending_orders).recipe_id \in Recipe
          /\ Head(pending_orders).steps \in Nat
      BY <3>1 DEF Order
    <3> QED BY <2>2, <3>2 DEF RecomputeOrder
  <2> QED BY <2>1, <2>2
<1> QED BY <1>1, <1>3, <1>4, EnqueueOrderKeepsTime

(* Retooling and an action start as AtWork says, with no time passed.       *)
LEMMA NextActionAtWork ==
    ASSUME NEW acts \in Seq(Instruction), NEW tool, NEW left,
           DetermineNextAction(acts, tool, left),
           action_queue_in_process' = acts, profile' = profile,
           current_tool' = tool, timer = "none",
           ~ Queued("pass_time")', ~ Queued("retool")'
    PROVE  AtWork' /\ Elapsed' = 0
<1>1. CASE acts = <<>> \/ ReportsPartialDish(acts)
  <2>1. timer' = "none"
    BY <1>1 DEF DetermineNextAction
  <2> QED BY <2>1 DEF AtWork, Elapsed, Pending
<1>2. CASE ~ (acts = <<>> \/ ReportsPartialDish(acts))
  <2>1. IsCapableTo(profile, acts[1]) /\ acts[1].duration \in Nat \ {0}
    BY <1>2, FirstInstruction DEF ReportsPartialDish
  <2>2. IsCapableTo(profile', action_queue_in_process'[1])
    BY <2>1
  <2>3. CASE RequiredTool(acts[1]) # tool
    <3>1. timer' = "retool"
      BY <1>2, <2>3 DEF DetermineNextAction, Arm
    <3>2. Elapsed' = 0
      BY <3>1 DEF Elapsed
    <3>3. AtWork'
      BY <3>1, <2>2, <2>3 DEF AtWork, Pending
    <3> QED BY <3>2, <3>3
  <2>4. CASE RequiredTool(acts[1]) = tool
    <3>1. timer' = "pass_time" /\ duration_left' = acts[1].duration
      BY <1>2, <2>4 DEF DetermineNextAction, Arm
    <3>2. Elapsed' = 0
      BY <3>1, <2>1 DEF Elapsed
    <3>3. duration_left' \in 1..action_queue_in_process'[1].duration
      BY <3>1, <2>1
    <3>4. AtWork'
      BY <3>1, <3>3, <2>4 DEF AtWork, Pending
    <3> QED BY <3>2, <3>4
  <2> QED BY <2>3, <2>4
<1> QED BY <1>1, <1>2

(* While the robot can go on with the dish, its next action comes first.    *)
LEMMA ActionFirst ==
    ASSUME RobotInv, dish # NoDish, action_queue_in_process # <<>>,
           IsCapableTo(profile, action_queue_in_process[1])
    PROVE  LET act  == action_queue_in_process[1]
               rest == Processable(profile, Tail(action_queue_in_process))
                         \o FlattenSeq(Works(profile, order_queue))
           IN  /\ act \in Instruction /\ act.duration \in Nat
               /\ rest \in Seq(Instruction)
               /\ WorkAhead = <<act>> \o rest
<1> DEFINE acts  == action_queue_in_process
           one   == <<acts[1]>>
           more  == Processable(profile, Tail(acts))
           queue == FlattenSeq(Works(profile, order_queue))
<1>1. acts \in Seq(Instruction)
  BY DEF RobotInv, TypeOK, DataTypes
<1>2. acts[1] \in Instruction /\ Tail(acts) \in Seq(Instruction)
  BY <1>1
<1>3. acts[1].duration \in Nat
  BY <1>2 DEF Instruction
<1>4. one \in Seq(Instruction)
  BY <1>2
<1>5. more \in Seq(Instruction)
  BY <1>2, ProcessableType
<1>6. queue \in Seq(Instruction) /\ WorkAhead = WorkAboard \o queue
  BY WorkFacts DEF RobotInv
<1>7. WorkAboard = one \o more
  BY <1>1, ProcessableFirst DEF WorkAboard
<1> HIDE DEF one, more, queue
<1>8. more \o queue \in Seq(Instruction)
  BY <1>5, <1>6, ConcatElements
<1>9. (one \o more) \o queue = one \o (more \o queue)
  BY <1>4, <1>5, <1>6, ConcatThree
<1>10. WorkAhead = one \o (more \o queue)
  BY <1>6, <1>7, <1>9
<1> QED BY <1>2, <1>3, <1>8, <1>10 DEF one, more, queue

(* cook_next_order moves work from the queue to the dish aboard.            *)
LEMMA CookStartsKeepsTime ==
    ASSUME RobotInv, RobotInv', TimeInv, CookStarts
    PROVE  TimeInv'
<1> DEFINE next == Head(order_queue)
           acts == Remaining(next.recipe_id, next.steps)
           works == Works(profile, order_queue)
           todo == Processable(profile, acts)
<1>1. order_queue \in Seq(Order) /\ order_queue # <<>>
  BY DEF RobotInv, TypeOK, DataTypes, CookStarts
<1>2. next \in Order
  BY <1>1
<1>3. next.recipe_id \in Recipe /\ next.steps \in Nat
  BY <1>2 DEF Order
<1>4. acts \in Seq(Instruction)
  BY <1>3, RemainingType
<1>5. /\ dish' = [recipe_id |-> next.recipe_id, steps |-> next.steps,
                  processed |-> 0, processable |-> next.processable]
      /\ action_queue_in_process' = acts
      /\ DetermineNextAction(acts, current_tool, duration_left)
      /\ order_queue' = Tail(order_queue)
      /\ UNCHANGED <<profile, current_tool, overall_time, last_tool, io>>
  BY DEF CookStarts, placeVars
<1>6. ~ DishUnderWay /\ dish = NoDish
  BY DEF RobotInv, Phases, AtHand, CookStarts, AtCook
<1>7. timer = "none" /\ ~ Queued("pass_time")' /\ ~ Queued("retool")'
  <2>1. ~ Queued("pass_time") /\ ~ Queued("retool") /\ ~ Pending("retool")
    BY <1>6 DEF DishUnderWay, Pending
  <2>2. running'
    BY DEF RobotInv
  <2>3. timer # "none" => UNCHANGED timer
    BY <1>5, <2>2 DEF DetermineNextAction, Arm
  <2> QED BY <2>1, <1>5, <1>6
          DEF Queued, DishUnderWay, Pending, CookStarts, AtCook, RobotInv,
              Phases, TypeOK, ControlTypes, TimedOp
<1>8. AtWork' /\ Elapsed' = 0
  <2> HIDE DEF acts
  <2> QED BY <1>4, <1>5, <1>7, NextActionAtWork
<1>9. Elapsed = 0
  BY <1>6 DEF DishUnderWay, Elapsed, Pending
<1>10. /\ works # <<>> /\ Works(profile, Tail(order_queue)) = Tail(works)
       /\ Head(works) = todo
  BY <1>1, WorksTail
<1>11. works \in Seq(Seq(Instruction))
  BY <1>1, WorksType
<1>12. WorkAhead = FlattenSeq(works)
  <2>1. WorkAhead = WorkAboard \o FlattenSeq(works)
    BY WorkFacts DEF RobotInv
  <2>2. WorkAboard = <<>>
    BY <1>6 DEF WorkAboard
  <2>3. FlattenSeq(works) \in Seq(Instruction)
    BY WorkFacts DEF RobotInv
  <2> QED BY <2>1, <2>2, <2>3, ConcatEmptySeq
<1>13. WorkAhead' = todo \o FlattenSeq(Tail(works))
  <2>1. WorkAhead' = WorkAboard' \o FlattenSeq(Works(profile, order_queue)')
    BY DEF WorkAhead, WorkOf, Works
  <2>2. Works(profile, order_queue)' = Tail(works)
    BY <1>5, <1>10
  <2>3. dish' # NoDish
    BY <1>3, <1>5, RecipesAssumption DEF NoDish
  <2>4. WorkAboard' = todo
    BY <1>5, <2>3 DEF WorkAboard
  <2> QED BY <2>1, <2>2, <2>4
<1> HIDE DEF works, todo
<1>14. WorkAhead' = WorkAhead
  BY <1>10, <1>11, <1>12, <1>13, FlattenFirst
<1>15. Accounted'
  BY <1>5, <1>8, <1>9, <1>14 DEF TimeInv, Accounted
<1> QED BY <1>8, <1>15 DEF TimeInv

(* The tool the first action needs is equipped: RETOOLING_TIME less.        *)
LEMMA RetoolKeepsTime ==
    ASSUME RobotInv, TimeInv, Retool
    PROVE  TimeInv'
<1> DEFINE acts == action_queue_in_process
           act  == acts[1]
           rest == Processable(profile, Tail(acts))
                     \o FlattenSeq(Works(profile, order_queue))
           p    == PlanTime(RequiredTool(act), rest)
<1>1. /\ Queued("retool") /\ ~ Queued("pass_time")' /\ ~ Queued("retool")'
      /\ timer = "none" /\ acts \in Seq(Instruction) /\ acts # <<>>
      /\ dish # NoDish
  BY CookingStepFacts DEF Retool
<1>2. /\ current_tool # RequiredTool(act) /\ IsCapableTo(profile, act)
      /\ ~ Pending("pass_time")
  <2>1. Pending("retool")
    BY <1>1 DEF Pending
  <2>2. ~ Pending("pass_time")
    <3>1. OneQueuedDriver
      BY DEF RobotInv, SingleDriver
    <3>2. ~ Queued("pass_time")
      BY <1>1, <3>1 DEF OneQueuedDriver, Queued, DrivingOp, TimedOp
    <3> QED BY <3>2, <1>1 DEF Pending
  <2> QED BY <2>1, <2>2 DEF TimeInv, AtWork
<1>3. /\ current_tool' = RequiredTool(act)
      /\ overall_time' = overall_time - RETOOLING_TIME
      /\ DetermineNextAction(acts, RequiredTool(act), duration_left)
      /\ UNCHANGED <<profile, order_queue, dish, action_queue_in_process,
                     last_tool>>
  BY DEF Retool, placeVars
<1>4. AtWork' /\ Elapsed' = 0
  <2> DEFINE tool == RequiredTool(act)
  <2>1. current_tool' = tool /\ DetermineNextAction(acts, tool, duration_left)
    BY <1>3
  <2> HIDE DEF tool
  <2> QED BY <1>1, <1>3, <2>1, NextActionAtWork
<1>5. /\ act \in Instruction /\ act.duration \in Nat
      /\ rest \in Seq(Instruction) /\ WorkAhead = <<act>> \o rest
  BY <1>1, <1>2, ActionFirst
<1>6. WorkAhead' = WorkAhead
  BY <1>3 DEF WorkAhead, WorkAboard, WorkOf
<1>7. Elapsed = 0
  BY <1>2 DEF Elapsed, Pending
<1> HIDE DEF rest, act
<1>8. /\ p \in Nat
      /\ PlanTime(current_tool, <<act>> \o rest)
           = (act.duration + Retooling(current_tool, act)) + p
      /\ PlanTime(RequiredTool(act), <<act>> \o rest)
           = (act.duration + Retooling(RequiredTool(act), act)) + p
      /\ ToolAfter(current_tool, <<act>> \o rest)
           = ToolAfter(RequiredTool(act), rest)
      /\ ToolAfter(RequiredTool(act), <<act>> \o rest)
           = ToolAfter(RequiredTool(act), rest)
  BY <1>5, PlanFirst
<1>9. /\ Retooling(current_tool, act) = RETOOLING_TIME
      /\ Retooling(RequiredTool(act), act) = 0 /\ RETOOLING_TIME \in Nat
  BY <1>2, RecipesAssumption DEF Retooling, act
<1>10. Accounted'
  <2>1. /\ overall_time = PlanTime(current_tool, WorkAhead) - Elapsed
        /\ last_tool = ToolAfter(current_tool, WorkAhead)
    BY DEF TimeInv, Accounted
  <2> HIDE DEF p
  <2>2. overall_time = (act.duration + RETOOLING_TIME) + p
    BY <2>1, <1>5, <1>7, <1>8, <1>9
  <2>3. overall_time' = (act.duration + 0) + p
    BY <2>2, <1>3, <1>5, <1>8, <1>9 
  <2>4. overall_time' = PlanTime(current_tool', WorkAhead') - Elapsed'
    BY <2>3, <1>3, <1>4, <1>5, <1>6, <1>8, <1>9
  <2>5. last_tool' = ToolAfter(current_tool', WorkAhead')
    BY <2>1, <1>3, <1>5, <1>6, <1>8
  <2> QED BY <2>4, <2>5 DEF Accounted
<1> QED BY <1>4, <1>10 DEF TimeInv

(* One time unit of the action is over.                                     *)
LEMMA PassTimeKeepsTime ==
    ASSUME RobotInv, TimeInv, PassTime
    PROVE  TimeInv'
<1> DEFINE length == action_queue_in_process[1].duration
<1>1. /\ Queued("pass_time") /\ ~ Queued("retool")'
      /\ timer = "none"
  BY CookingStepFacts DEF PassTime
<1>2. Pending("pass_time")
  BY <1>1 DEF Pending
<1>3. /\ current_tool = RequiredTool(action_queue_in_process[1])
      /\ duration_left \in 1..length
  BY <1>2 DEF TimeInv, AtWork
<1>4. /\ duration_left # 1 /\ duration_left' = duration_left - 1
      /\ overall_time' = overall_time - 1 /\ timer' = "pass_time"
      /\ UNCHANGED <<profile, order_queue, dish, action_queue_in_process,
                     last_tool, current_tool>>
  BY DEF PassTime, Arm, placeVars
<1>5. length \in Nat
  <2>1. /\ action_queue_in_process # <<>>
        /\ action_queue_in_process \in Seq(Instruction)
    BY CookingStepFacts DEF PassTime
  <2> QED BY <2>1, FirstInstruction
<1> HIDE DEF length
<1>6. AtWork'
  <2>1. duration_left' \in 1..length
    BY <1>3, <1>4, <1>5
  <2> QED BY <2>1, <1>1, <1>3, <1>4 DEF AtWork, Pending, length
<1>7. Elapsed = length - duration_left /\ Elapsed' = length - duration_left'
  BY <1>2, <1>4 DEF Elapsed, Pending, length
<1>8. WorkAhead' = WorkAhead
  BY <1>4 DEF WorkAhead, WorkAboard, WorkOf
<1>9. PlanTime(current_tool, WorkAhead) \in Nat
  <2>1. WorkAhead \in Seq(Instruction)
    BY WorkFacts DEF RobotInv
  <2> QED BY <2>1, PlanConcat
<1>10. Accounted'
  <2>1. /\ overall_time = PlanTime(current_tool, WorkAhead) - Elapsed
        /\ last_tool = ToolAfter(current_tool, WorkAhead)
    BY DEF TimeInv, Accounted
  <2>2. overall_time' = PlanTime(current_tool, WorkAhead) - Elapsed'
    BY <2>1, <1>3, <1>4, <1>5, <1>7, <1>9
  <2> QED BY <2>1, <2>2, <1>4, <1>8 DEF Accounted
<1> QED BY <1>6, <1>10 DEF TimeInv

(* The last time unit is over: the action leaves the work ahead.            *)
LEMMA ActionPerformedKeepsTime ==
    ASSUME RobotInv, DishInv, TimeInv, ActionPerformed
    PROVE  TimeInv'
<1> DEFINE acts == action_queue_in_process
           act  == acts[1]
           rest == Processable(profile, Tail(acts))
                     \o FlattenSeq(Works(profile, order_queue))
           p    == PlanTime(RequiredTool(act), rest)
<1>1. /\ Queued("pass_time") /\ ~ Queued("pass_time")' /\ ~ Queued("retool")'
      /\ timer = "none" /\ acts \in Seq(Instruction) /\ acts # <<>>
      /\ dish # NoDish /\ dish.recipe_id \in Recipe
  BY CookingStepFacts DEF ActionPerformed
<1>2. Pending("pass_time")
  BY <1>1 DEF Pending
<1>3. current_tool = RequiredTool(act) /\ IsCapableTo(profile, act)
  BY <1>2 DEF TimeInv, AtWork, DishInv, Ready
<1>4. /\ duration_left = 1 /\ overall_time' = overall_time - 1
      /\ action_queue_in_process' = Tail(acts)
      /\ DetermineNextAction(Tail(acts), current_tool, 0)
      /\ dish' = [dish EXCEPT !.processed = @ + 1]
      /\ UNCHANGED <<profile, order_queue, last_tool, current_tool>>
  BY DEF ActionPerformed, placeVars
<1>5. AtWork' /\ Elapsed' = 0
  <2> DEFINE left == Tail(acts)
  <2>1. left \in Seq(Instruction)
    BY <1>1
  <2>2. /\ action_queue_in_process' = left
        /\ DetermineNextAction(left, current_tool, 0)
    BY <1>4
  <2> HIDE DEF left
  <2> QED BY <1>1, <1>4, <2>1, <2>2, NextActionAtWork
<1>6. /\ act \in Instruction /\ act.duration \in Nat
      /\ rest \in Seq(Instruction) /\ WorkAhead = <<act>> \o rest
  BY <1>1, <1>3, ActionFirst
<1>7. WorkAhead' = rest
  <2>1. dish' # NoDish
    <3>1. dish'.recipe_id = dish.recipe_id
      <4>1. dish \in [recipe_id : Recipe \cup {0}, steps : Nat, processed : Nat,
                      processable : Nat]
        BY DEF RobotInv, TypeOK, DataTypes
      <4> QED BY <4>1, <1>4
    <3> QED BY <3>1, <1>1, RecipesAssumption DEF NoDish
  <2>2. WorkAboard' = Processable(profile, Tail(acts))
    BY <2>1, <1>4 DEF WorkAboard
  <2>3. WorkAhead' = WorkAboard' \o FlattenSeq(Works(profile, order_queue)')
    BY DEF WorkAhead, WorkOf, Works
  <2>4. Works(profile, order_queue)' = Works(profile, order_queue)
    BY <1>4
  <2> QED BY <2>2, <2>3, <2>4
<1>8. Elapsed = act.duration - 1
  BY <1>2, <1>4 DEF Elapsed, Pending
<1> HIDE DEF rest, act
<1>9. /\ p \in Nat
      /\ PlanTime(current_tool, <<act>> \o rest)
           = (act.duration + Retooling(current_tool, act)) + p
      /\ ToolAfter(current_tool, <<act>> \o rest)
           = ToolAfter(RequiredTool(act), rest)
  BY <1>6, PlanFirst
<1>10. Retooling(current_tool, act) = 0
  BY <1>3 DEF Retooling, act
<1>11. Accounted'
  <2>1. /\ overall_time = PlanTime(current_tool, WorkAhead) - Elapsed
        /\ last_tool = ToolAfter(current_tool, WorkAhead)
    BY DEF TimeInv, Accounted
  <2>2. RequiredTool(act) = current_tool
    BY <1>3 DEF act
  <2>3. p = PlanTime(current_tool', WorkAhead')
    BY <2>2, <1>4, <1>7
  <2>4. last_tool' = ToolAfter(current_tool', WorkAhead')
    BY <2>1, <2>2, <1>4, <1>6, <1>7, <1>9
  <2> HIDE DEF p
  <2>5. overall_time = ((act.duration + 0) + p) - (act.duration - 1)
    BY <2>1, <1>6, <1>8, <1>9, <1>10
  <2>6. overall_time' = p - 0
    BY <2>5, <1>4, <1>6, <1>9
  <2>7. overall_time' = PlanTime(current_tool', WorkAhead') - Elapsed'
    BY <2>3, <2>6, <1>5
  <2> QED BY <2>4, <2>7 DEF Accounted
<1> QED BY <1>5, <1>11 DEF TimeInv

(* A new profile starts its account with the queue emptied.                 *)
LEMMA CompleteReconfigurationKeepsTime ==
    ASSUME RobotInv, TimeInv, CompleteReconfiguration
    PROVE  TimeInv'
<1>1. dish = NoDish /\ ~ DishUnderWay
  BY AdaptationIsAlone
<1>2. /\ order_queue' = <<>> /\ dish' = dish /\ timer' = timer
      /\ overall_time' = 0 /\ last_tool' = current_tool'
  BY DEF CompleteReconfiguration
<1>3. ~ Pending("pass_time")' /\ ~ Pending("retool")'
  <2>1. /\ io \in Seq(Handler)
        /\ {"pass_time", "retool", "complete_reconfiguration"} \subseteq HandlerOp
    BY DEF RobotInv, TypeOK, ControlTypes, HandlerOp, PlainOp, TimedOp
  <2>2. \A op \in {"pass_time", "retool"} : Queued(op)' => Queued(op)
    BY <2>1, TakeFacts DEF CompleteReconfiguration
  <2> QED BY <1>1, <1>2, <2>2 DEF DishUnderWay, Pending
<1>4. Elapsed' = 0
  BY <1>3 DEF Elapsed, Pending
<1>5. WorkAhead' = <<>>
  <2>1. WorkAhead' = WorkAboard' \o FlattenSeq(Works(profile, order_queue)')
    BY DEF WorkAhead, WorkOf, Works
  <2>2. Works(profile, order_queue)' = <<>>
    BY <1>2 DEF Works
  <2>3. WorkAboard' = <<>>
    BY <1>1, <1>2 DEF WorkAboard, NoDish
  <2>4. <<>> \in Seq(Instruction)
    OBVIOUS
  <2> QED BY <2>1, <2>2, <2>3, <2>4, FlattenNothing, ConcatEmptySeq
<1>6. Accounted'
  <2>1. PlanTime(current_tool', <<>>) = 0
    BY PlanOfNothing
  <2>2. ToolAfter(current_tool', <<>>) = current_tool'
    BY DEF ToolAfter
  <2> QED BY <2>1, <2>2, <1>2, <1>4, <1>5 DEF Accounted
<1>7. AtWork'
  BY <1>3 DEF AtWork
<1> QED BY <1>6, <1>7 DEF TimeInv

(* A dish that leaves takes no work with it: the robot could do no more.    *)
LEMMA HandoverReplyKeepsTime ==
    ASSUME RobotInv, DishInv, TimeInv, HandoverReply
    PROVE  TimeInv'
<1> DEFINE acts == action_queue_in_process
<1>1. /\ server = "replying" /\ dish' = NoDish
      /\ UNCHANGED <<overall_time, last_tool, current_tool, duration_left,
                     order_queue, profile, action_queue_in_process, timer>>
  BY DEF HandoverReply, placeVars, orderVars
<1>2. /\ Pending("pass_time")' <=> Pending("pass_time")
      /\ Pending("retool")' <=> Pending("retool")
  <2>1. /\ Plain("cook_next_order") \in Handler
        /\ Plain("cook_next_order").op = "cook_next_order"
    BY DEF Plain, Handler, PlainOp
  <2>2. io \in Seq(Handler) /\ {"pass_time", "retool"} \subseteq HandlerOp
    BY DEF RobotInv, TypeOK, ControlTypes, HandlerOp, PlainOp, TimedOp
  <2>3. Post(Plain("cook_next_order"))
    BY DEF HandoverReply
  <2>4. \A op \in HandlerOp : Queued(op)' <=> Queued(op) \/ op = "cook_next_order"
    BY <2>1, <2>2, <2>3, PostFacts
  <2> QED BY <2>2, <2>4, <1>1 DEF Pending
<1>3. acts \in Seq(Instruction) /\ ProcessableSteps(profile, acts) = 0
  BY <1>1 DEF RobotInv, TypeOK, DataTypes, DishInv, Ready, Announced
<1>4. WorkAboard = <<>>
  <2>1. /\ Len(Processable(profile, acts)) = 0
        /\ Processable(profile, acts) \in Seq(Instruction)
    BY <1>3, ProcessableLength, ProcessableType
  <2> QED BY <2>1 DEF WorkAboard
<1>5. WorkAhead' = WorkAhead
  <2>1. WorkAboard' = <<>>
    BY <1>1 DEF WorkAboard, NoDish
  <2>2. WorkAhead' = WorkAboard' \o FlattenSeq(Works(profile, order_queue)')
    BY DEF WorkAhead, WorkOf, Works
  <2>3. WorkAhead = WorkAboard \o FlattenSeq(Works(profile, order_queue))
    BY DEF WorkAhead, WorkOf, Works
  <2>4. Works(profile, order_queue)' = Works(profile, order_queue)
    BY <1>1
  <2> QED BY <2>1, <2>2, <2>3, <2>4, <1>4
<1>6. Elapsed' = Elapsed
  BY <1>1, <1>2 DEF Elapsed, Pending
<1>7. Accounted'
  BY <1>1, <1>5, <1>6 DEF TimeInv, Accounted
<1>8. AtWork'
  BY <1>1, <1>2 DEF TimeInv, AtWork
<1> QED BY <1>7, <1>8 DEF TimeInv

LEMMA TimeNextKeeps ==
    ASSUME RobotInv, RobotInv', DishInv, TimeInv, [Next]_vars
    PROVE  TimeInv'
<1>1. CASE ServerStep
  BY <1>1, PostingStepKeepsTime, QuietStepKeepsTime, HandoverReplyKeepsTime
     DEF ServerStep, PostingStep, QuietStep
<1>2. CASE WorkerStep
  BY <1>2, QuietStepKeepsTime, TakingStepKeepsTime, EnqueueingKeepsTime,
     CookStartsKeepsTime, RetoolKeepsTime, PassTimeKeepsTime,
     ActionPerformedKeepsTime, CompleteReconfigurationKeepsTime
     DEF WorkerStep, QuietStep, TakingStep, LinkStep
<1>3. CASE ClientStep \/ ConveyorAnswers \/ ConveyorRestarts \/ Fault
  BY <1>3, QuietStepKeepsTime DEF ClientStep, Fault, QuietStep, LinkStep
<1>4. CASE TimerExpires
  BY <1>4, PostingStepKeepsTime DEF PostingStep
<1>5. CASE UNCHANGED vars
  BY <1>5, TimeUntouched DEF vars, placeVars, orderVars, dishVars, Pending, Queued
<1> QED BY <1>1, <1>2, <1>3, <1>4, <1>5 DEF Next

(* TimeInv holds in every state the robot reaches.                          *)
THEOREM TimeInvariance == Spec => []TimeInv
<1>1. RobotInv /\ RobotInv' /\ DishInv /\ TimeInv /\ [Next]_vars => TimeInv'
  BY TimeNextKeeps
<1>2. Init => TimeInv
  BY TimeInitEstablishes
<1> QED BY <1>1, <1>2, Invariance, DishInvariance, PTL DEF Spec

(* OVERALL_TIME is to the time unit what the robot has still to do, from    *)
(* the tool it holds, and never wraps below zero, whatever the recipes, the *)
(* tools, the queue and the number of reconfigurations.                     *)
THEOREM OverallTimeIsExact == Spec => []OverallTimeExact
<1>1. ASSUME RobotInv, DishInv, TimeInv
      PROVE  OverallTimeExact
  <2>1. WorkAhead \in Seq(Instruction)
    BY <1>1, WorkFacts DEF RobotInv
  <2>2. /\ overall_time = PlanTime(current_tool, WorkAhead) - Elapsed
        /\ last_tool = ToolAfter(current_tool, WorkAhead)
    BY <1>1 DEF TimeInv, Accounted
  <2>3. PlanTime(current_tool, WorkAhead) \in Nat
    BY <2>1, PlanConcat
  <2>4. CASE ~ Pending("pass_time")
    <3>1. Elapsed = 0
      BY <2>4 DEF Elapsed, Pending
    <3> QED BY <3>1, <2>2, <2>3 DEF OverallTimeExact
  <2>5. CASE Pending("pass_time")
    <3> DEFINE act  == action_queue_in_process[1]
               rest == Processable(profile, Tail(action_queue_in_process))
                         \o FlattenSeq(Works(profile, order_queue))
    <3>1. /\ action_queue_in_process # <<>> /\ IsCapableTo(profile, act)
          /\ duration_left \in 1..act.duration
      BY <1>1, <2>5 DEF RobotInv, AtHand, DishInv, Ready, TimeInv, AtWork
    <3>2. dish # NoDish
      <4>1. dish.recipe_id \in Recipe
        BY <1>1, <2>5 DEF RobotInv, AtHand, DishUnderWay
      <4> QED BY <4>1, RecipesAssumption DEF NoDish
    <3>3. /\ act \in Instruction /\ act.duration \in Nat
          /\ rest \in Seq(Instruction) /\ WorkAhead = <<act>> \o rest
      BY <1>1, <3>1, <3>2, ActionFirst
    <3>4. Elapsed = act.duration - duration_left
      BY <2>5 DEF Elapsed, Pending
    <3> HIDE DEF act, rest
    <3>5. /\ PlanTime(RequiredTool(act), rest) \in Nat
          /\ PlanTime(current_tool, <<act>> \o rest)
               = (act.duration + Retooling(current_tool, act))
                 + PlanTime(RequiredTool(act), rest)
      BY <3>3, PlanFirst
    <3>6. Retooling(current_tool, act) \in Nat
      BY RetoolingType
    <3>7. PlanTime(current_tool, WorkAhead) >= act.duration
      <4>1. PlanTime(current_tool, WorkAhead)
              = (act.duration + Retooling(current_tool, act))
                + PlanTime(RequiredTool(act), rest)
        BY <3>3, <3>5
      <4> QED BY <4>1, <3>3, <3>5, <3>6
    <3>8. overall_time >= 0
      BY <2>2, <2>3, <3>1, <3>3, <3>4, <3>7
    <3> QED BY <2>2, <3>8 DEF OverallTimeExact
  <2> QED BY <2>4, <2>5
<1> QED BY <1>1, Invariance, DishInvariance, TimeInvariance, PTL
==============================================================================
