-------------------------------- MODULE Robot --------------------------------
(***************************************************************************)
(* One robot agent (src/robot).  Three threads share its state:            *)
(*   - the server thread runs the OPC UA method callbacks one at a time;   *)
(*   - the worker thread runs io_context_, a FIFO of posted handlers and   *)
(*     of timer completions; there is ONE steady_timer_ for everything;    *)
(*   - the client thread keeps the connection to the conveyor alive.       *)
(* state_mutex_ protects robot_state_, client_mutex_ protects the conveyor *)
(* client and pending_pickup_.  The conveyor, the controller and the       *)
(* kitchen appear as the calls they make and as the notifications the      *)
(* conveyor holds.                                                         *)
(*                                                                         *)
(* A call the code refuses changes nothing and is no action.  Stopping the *)
(* process by hand is not modelled: running falls only by the agent's own  *)
(* stop().  The one way this code kills its own process, deleting a client *)
(* that is null, is modelled: no thread of a killed process acts.          *)
(***************************************************************************)
EXTENDS Recipes, SequencesExt

CONSTANTS ConveyorSize,     \* conveyor_size_: positions, 0 is the output
          InitialPosition,
          InitialProfile,
          MaxTasks,         \* bound: tasks ever accepted
          MaxAdaptations,   \* bound: switches and reconfigurations accepted
          MaxFaults,        \* bound: crashes, lost connections and calls
          LosesHandoverCalls  \* may the conveyor's handover call fail?

RobotPosition == 1..(ConveyorSize - 1)

ASSUME RobotAssumption ==
    /\ ConveyorSize \in Nat /\ ConveyorSize > 1
    /\ InitialPosition \in RobotPosition
    /\ InitialProfile \in Profile
    /\ {MaxTasks, MaxAdaptations, MaxFaults} \subseteq Nat
    /\ LosesHandoverCalls \in BOOLEAN

VARIABLES
    robot_state,              \* robot_state_
    state_lock,               \* who holds state_mutex_ across steps
    already_rearranging, already_reconfiguring,
    new_target_position,      \* 0: none set
    new_profile,              \* new_capabilities_profile_
    commit_pending,           \* attribute NEW_POSITION_COMMIT_IS_PENDING
    travel,                   \* distance the running move was timed for
    position, profile,        \* position_ and the parsed capabilities
    order_queue,              \* order_queue_
    pending_orders,           \* orders still to be recomputed
    last_tool, overall_time,  \* LAST_EQUIPPED_TOOL and OVERALL_TIME
    preparing_dish,           \* preparing_dish_
    action_queue_in_process,  \* action_queue_in_process_
    current_tool,
    duration_left,            \* current_action_duration_
    dish,                     \* RECIPE_ID and the three step counters
    is_dish_finished,
    pending_pickup,
    io,                       \* handlers queued in io_context_
    timer,                    \* what steady_timer_ is armed for
    worker, server,           \* where the two threads are
    running,                  \* running_
    conveyor_client,          \* conveyor_client_ and its connection
    conveyor_up,              \* external: the conveyor agent is alive
    notifications,            \* external: positions the conveyor will visit
    faults, adaptations,      \* counters of the bounds
    commit_sent,              \* external: the controller has committed
    accepted, handed          \* history: tasks taken and dishes given away

adaptVars == <<robot_state, already_rearranging, already_reconfiguring,
               new_target_position, new_profile, commit_pending, travel>>
placeVars == <<position, profile>>
orderVars == <<order_queue, pending_orders, last_tool, overall_time>>
dishVars  == <<preparing_dish, action_queue_in_process, current_tool,
               duration_left, dish, is_dish_finished>>
linkVars  == <<conveyor_client, conveyor_up, notifications, faults>>
histVars  == <<accepted, handed>>
callVars  == <<adaptations, commit_sent>>
vars == <<adaptVars, placeVars, orderVars, dishVars, linkVars, histVars,
          callVars, pending_pickup, state_lock, io, timer, worker, server,
          running>>

------------------------------------------------------------------------------
(* What travels through io_context_.                                        *)

TimedOp  == {"retool", "pass_time", "move_to_new_position",
             "complete_reconfiguration"}
PlainOp  == TimedOp \cup {"handle_reconfiguration", "new_position_commit",
                          "cook_next_order"}
Plain(op)          == [op |-> op]
TaskHandler(r, s)  == [op |-> "receive_task", recipe_id |-> r, steps |-> s]
SwitchHandler(p)   == [op |-> "switch_position", target |-> p]

Handler == [op : PlainOp]
      \cup [op : {"receive_task"}, recipe_id : Recipe, steps : Nat]
      \cup [op : {"switch_position"}, target : RobotPosition]

Order == [recipe_id : Recipe, steps : Nat, processable : Nat]
Task  == [recipe_id : Recipe, steps : Nat]
NoProfile == ""
NoDish == [recipe_id |-> 0, steps |-> 0, processed |-> 0, processable |-> 0]

Init ==
    /\ robot_state = "AVAILABLE" /\ state_lock = "free"
    /\ already_rearranging = FALSE /\ already_reconfiguring = FALSE
    /\ new_target_position = 0 /\ new_profile = NoProfile
    /\ commit_pending = FALSE /\ travel = 0
    /\ position = InitialPosition /\ profile = InitialProfile
    /\ order_queue = <<>> /\ pending_orders = <<>> /\ overall_time = 0
    /\ current_tool \in {ToolOf[a] : a \in Capabilities[InitialProfile]}
    /\ last_tool = current_tool
    /\ preparing_dish = FALSE /\ action_queue_in_process = <<>>
    /\ duration_left = 0 /\ dish = NoDish /\ is_dish_finished = FALSE
    /\ pending_pickup = FALSE
    /\ io = <<>> /\ timer = "none" /\ worker = "idle" /\ server = "idle"
    /\ running = TRUE
    /\ conveyor_client = "live" /\ conveyor_up = TRUE /\ notifications = {}
    /\ faults = 0 /\ adaptations = 0 /\ commit_sent = FALSE
    /\ accepted = <<>> /\ handed = <<>>

------------------------------------------------------------------------------
(* Helpers of the three threads.                                            *)

Killed == worker = "killed"
ServerFree == running /\ ~ Killed /\ server = "idle" /\ state_lock = "free"
ClientMutexFree == ~ Killed /\ worker \notin {"calling", "answered"}
Post(h) == io' = Append(io, h)

(* The worker thread takes the next handler of the given kind.              *)
Take(op) ==
    /\ running /\ worker = "idle"
    /\ io # <<>> /\ Head(io).op = op
    /\ io' = Tail(io)

(* expires_from_now and async_wait.  A wait already armed is cancelled, and *)
(* its handler answers the error with stop().                               *)
Arm(op) ==
    /\ timer' = op
    /\ IF timer = "none" THEN UNCHANGED running ELSE running' = FALSE

(* The shorter way round the belt, as handle_switch_position computes it.   *)
Distance(from, to) ==
    LET cw  == (to - from + ConveyorSize) % ConveyorSize
        ccw == (from - to + ConveyorSize) % ConveyorSize
    IN IF cw < ccw THEN cw ELSE ccw

(* Mutant: looks at the last action of the queue instead of the first.      *)
ReportsPartialDish_Back(acts) ==
    acts # <<>> /\ ~ IsCapableTo(profile, acts[Len(acts)])

ReportsPartialDish(acts) == acts # <<>> /\ ~ IsCapableTo(profile, acts[1])

(* determine_next_action: a complete dish or one this robot cannot go on    *)
(* with is announced to the conveyor; otherwise the robot retools for the   *)
(* next action or starts it.  left is what remains of the action before.    *)
DetermineNextAction(acts, tool, left) ==
    IF acts = <<>> \/ ReportsPartialDish(acts)
    THEN /\ is_dish_finished' = (acts = <<>>)
         /\ worker' = "notify"
         /\ duration_left' = left
         /\ UNCHANGED <<timer, running>>
    ELSE /\ IF RequiredTool(acts[1]) # tool
            THEN Arm("retool") /\ duration_left' = left
            ELSE Arm("pass_time") /\ duration_left' = acts[1].duration
         /\ worker' = "idle"
         /\ UNCHANGED is_dish_finished

(* handle_switch_position: the move is timed for the distance to the target *)
(* known now.                                                               *)
StartRearranging(target) ==
    IF already_rearranging
    THEN UNCHANGED <<already_rearranging, travel, timer, running>>
    ELSE /\ already_rearranging' = TRUE
         /\ travel' = Distance(position, target)
         /\ Arm("move_to_new_position")

(* handle_reconfiguration.                                                  *)
StartReconfiguration ==
    IF already_reconfiguring
    THEN UNCHANGED <<already_reconfiguring, timer, running>>
    ELSE already_reconfiguring' = TRUE /\ Arm("complete_reconfiguration")

(* Mutants: the steps beyond the robot's capabilities are counted too; the  *)
(* plan starts from the tool equipped now and not from the last one planned.*)
EnqueueOrder_AllSteps(r, s) ==
    LET todo == Processable(profile, Remaining(r, s))
    IN /\ order_queue' = Append(order_queue,
              [recipe_id |-> r, steps |-> s,
               processable |-> Len(Remaining(r, s))])
       /\ overall_time' = overall_time + PlanTime(last_tool, todo)
       /\ last_tool' = ToolAfter(last_tool, todo)

EnqueueOrder_CurrentTool(r, s) ==
    LET todo == Processable(profile, Remaining(r, s))
    IN /\ order_queue' = Append(order_queue,
              [recipe_id |-> r, steps |-> s, processable |-> Len(todo)])
       /\ overall_time' = overall_time + PlanTime(current_tool, todo)
       /\ last_tool' = ToolAfter(last_tool, todo)

(* The body of handle_receive_task up to the push: what the robot can do of *)
(* the dish is added to OVERALL_TIME and moves LAST_EQUIPPED_TOOL on.       *)
EnqueueOrder(r, s) ==
    LET todo == Processable(profile, Remaining(r, s))
    IN /\ order_queue' = Append(order_queue,
              [recipe_id |-> r, steps |-> s, processable |-> Len(todo)])
       /\ overall_time' = overall_time + PlanTime(last_tool, todo)
       /\ last_tool' = ToolAfter(last_tool, todo)

------------------------------------------------------------------------------
(* Server thread: method callbacks of the kitchen, the controller and the   *)
(* conveyor.                                                                *)

(* receive_task's checks: only an available robot takes a task, addressed   *)
(* to the position it has, whose next action it can perform.                *)
Accepts(r, s, p) ==
    /\ robot_state = "AVAILABLE"
    /\ p = position
    /\ IsCapableTo(profile, Remaining(r, s)[1])

ReceiveTask(r, s, p) ==
    /\ ServerFree
    /\ Len(accepted) < MaxTasks
    /\ Accepts(r, s, p)
    /\ Post(TaskHandler(r, s))
    /\ accepted' = Append(accepted, [recipe_id |-> r, steps |-> s])
    /\ UNCHANGED <<adaptVars, placeVars, orderVars, dishVars, linkVars, handed,
                   callVars, pending_pickup, state_lock, timer, worker, server,
                   running>>

SwitchPosition(p) ==
    /\ ServerFree
    /\ adaptations < MaxAdaptations
    /\ p \in RobotPosition \ {position}
    /\ robot_state = "AVAILABLE"
    /\ robot_state' = "REARRANGING"
    /\ Post(SwitchHandler(p))
    /\ adaptations' = adaptations + 1
    /\ commit_sent' = FALSE
    /\ UNCHANGED <<already_rearranging, already_reconfiguring,
                   new_target_position, new_profile, commit_pending, travel,
                   placeVars, orderVars, dishVars, linkVars, histVars,
                   pending_pickup, state_lock, timer, worker, server, running>>

Reconfigure(q) ==
    /\ ServerFree
    /\ adaptations < MaxAdaptations
    /\ Capabilities[q] # Capabilities[profile]
    /\ robot_state = "AVAILABLE"
    /\ robot_state' = "RECONFIGURING"
    /\ new_profile' = q
    /\ Post(Plain("handle_reconfiguration"))
    /\ adaptations' = adaptations + 1
    /\ UNCHANGED <<already_rearranging, already_reconfiguring,
                   new_target_position, commit_pending, travel, placeVars,
                   orderVars, dishVars, linkVars, histVars, commit_sent,
                   pending_pickup, state_lock, timer, worker, server, running>>

(* Mutant: any rearranging robot takes the commit.                          *)
CommitExpected_Early == robot_state = "REARRANGING"

CommitExpected == robot_state = "REARRANGING" /\ commit_pending

(* commit_new_position; the controller commits an accepted switch once.     *)
CommitNewPosition ==
    /\ ServerFree
    /\ ~ commit_sent
    /\ CommitExpected
    /\ Post(Plain("new_position_commit"))
    /\ commit_sent' = TRUE
    /\ UNCHANGED <<adaptVars, placeVars, orderVars, dishVars, linkVars, histVars,
                   adaptations, pending_pickup, state_lock, timer, worker,
                   server, running>>

(* The conveyor, at position p, calls handover_finished_order; the callback *)
(* occupies the server thread until client_mutex_ is free.                  *)
HandoverCall(p) ==
    /\ running /\ ~ Killed /\ server = "idle"
    /\ conveyor_up /\ p \in notifications
    /\ notifications' = notifications \ {p}
    /\ server' = "called"
    /\ UNCHANGED <<adaptVars, placeVars, orderVars, dishVars, histVars, callVars,
                   conveyor_client, conveyor_up, faults, pending_pickup,
                   state_lock, io, timer, worker, running>>

(* Mutant: the flag is not looked at.                                       *)
HandoverOutcome_Unchecked == "replying"

HandoverOutcome == IF pending_pickup THEN "replying" ELSE "idle"

(* The part of handle_handover_finished_order under client_mutex_: without  *)
(* a pending pickup the answer is all zeros and nothing happens.            *)
HandoverStart ==
    /\ running /\ server = "called" /\ ClientMutexFree
    /\ pending_pickup' = FALSE
    /\ server' = HandoverOutcome
    /\ UNCHANGED <<adaptVars, placeVars, orderVars, dishVars, linkVars, histVars,
                   callVars, state_lock, io, timer, worker, running>>

(* The rest: the dish leaves with the reply and the worker is told to go on.*)
HandoverReply ==
    /\ running /\ ~ Killed /\ server = "replying"
    /\ handed' = Append(handed,
                        [recipe_id |-> dish.recipe_id,
                         steps     |-> dish.steps,
                         processed |-> dish.processed,
                         finished  |-> is_dish_finished,
                         profile   |-> profile])
    /\ dish' = NoDish /\ is_dish_finished' = FALSE
    /\ Post(Plain("cook_next_order"))
    /\ server' = "idle"
    /\ UNCHANGED <<adaptVars, placeVars, orderVars, preparing_dish,
                   action_queue_in_process, current_tool, duration_left,
                   linkVars, accepted, callVars, pending_pickup, state_lock,
                   timer, worker, running>>

------------------------------------------------------------------------------
(* Worker thread.                                                           *)

(* handle_receive_task and a posted cook_next_order lead to "cook" when     *)
(* cook_next_order is about to take state_mutex_.                           *)
HandleReceiveTask ==
    /\ Take("receive_task")
    /\ EnqueueOrder(Head(io).recipe_id, Head(io).steps)
    /\ worker' = IF preparing_dish THEN "idle" ELSE "cook"
    /\ UNCHANGED <<adaptVars, placeVars, pending_orders, dishVars, linkVars,
                   histVars, callVars, pending_pickup, state_lock, timer,
                   server, running>>

CookPosted ==
    /\ Take("cook_next_order")
    /\ worker' = "cook"
    /\ UNCHANGED <<adaptVars, placeVars, orderVars, dishVars, linkVars, histVars,
                   callVars, pending_pickup, state_lock, timer, server, running>>

AtCook == running /\ worker = "cook" /\ state_lock = "free"

CookRearranges ==
    /\ AtCook /\ robot_state = "REARRANGING"
    /\ StartRearranging(new_target_position)
    /\ worker' = "idle"
    /\ UNCHANGED <<robot_state, already_reconfiguring, new_target_position,
                   new_profile, commit_pending, placeVars, orderVars, dishVars,
                   linkVars, histVars, callVars, pending_pickup, state_lock, io,
                   server>>

CookReconfigures ==
    /\ AtCook /\ robot_state = "RECONFIGURING"
    /\ StartReconfiguration
    /\ worker' = "idle"
    /\ UNCHANGED <<robot_state, already_rearranging, new_target_position,
                   new_profile, commit_pending, travel, placeVars, orderVars,
                   dishVars, linkVars, histVars, callVars, pending_pickup,
                   state_lock, io, server>>

CookIdles ==
    /\ AtCook /\ robot_state = "AVAILABLE" /\ order_queue = <<>>
    /\ preparing_dish' = FALSE
    /\ worker' = "idle"
    /\ UNCHANGED <<adaptVars, placeVars, orderVars, action_queue_in_process,
                   current_tool, duration_left, dish, is_dish_finished,
                   linkVars, histVars, callVars, pending_pickup, state_lock, io,
                   timer, server, running>>

CookStarts ==
    /\ AtCook /\ robot_state = "AVAILABLE" /\ order_queue # <<>>
    /\ LET next == Head(order_queue)
           acts == Remaining(next.recipe_id, next.steps)
       IN /\ dish' = [recipe_id   |-> next.recipe_id,
                      steps       |-> next.steps,
                      processed   |-> 0,
                      processable |-> next.processable]
          /\ action_queue_in_process' = acts
          /\ DetermineNextAction(acts, current_tool, duration_left)
    /\ preparing_dish' = TRUE
    /\ order_queue' = Tail(order_queue)
    /\ UNCHANGED <<adaptVars, placeVars, pending_orders, last_tool, overall_time,
                   current_tool, linkVars, histVars, callVars, pending_pickup,
                   state_lock, io, server>>

(* Mutants: the posted adaptation handlers ignore preparing_dish_, or take  *)
(* an idle robot for a busy one; the posted handler brings no target.       *)
WorkerBusy_Never == FALSE
WorkerBusy_Always == TRUE
TargetOf_Stale(h) == new_target_position

WorkerBusy == preparing_dish
TargetOf(h) == h.target

(* The handler switch_position posts: only now does the target arrive.      *)
HandleSwitchRequest ==
    /\ Take("switch_position")
    /\ new_target_position' = TargetOf(Head(io))
    /\ IF WorkerBusy
       THEN UNCHANGED <<already_rearranging, travel, timer, running>>
       ELSE StartRearranging(new_target_position')
    /\ UNCHANGED <<robot_state, already_reconfiguring, new_profile,
                   commit_pending, placeVars, orderVars, dishVars, linkVars,
                   histVars, callVars, pending_pickup, state_lock, worker,
                   server>>

HandleReconfigureRequest ==
    /\ Take("handle_reconfiguration")
    /\ IF WorkerBusy
       THEN UNCHANGED <<already_reconfiguring, timer, running>>
       ELSE StartReconfiguration
    /\ UNCHANGED <<robot_state, already_rearranging, new_target_position,
                   new_profile, commit_pending, travel, placeVars, orderVars,
                   dishVars, linkVars, histVars, callVars, pending_pickup,
                   state_lock, worker, server>>

Retool ==
    /\ Take("retool")
    /\ current_tool' = RequiredTool(action_queue_in_process[1])
    /\ overall_time' = overall_time - RETOOLING_TIME
    /\ DetermineNextAction(action_queue_in_process, current_tool', duration_left)
    /\ UNCHANGED <<adaptVars, placeVars, order_queue, pending_orders, last_tool,
                   preparing_dish, action_queue_in_process, dish, linkVars,
                   histVars, callVars, pending_pickup, state_lock, server>>

(* pass_time before the last time unit of an action.                        *)
PassTime ==
    /\ Take("pass_time")
    /\ duration_left # 1
    /\ duration_left' = duration_left - 1
    /\ overall_time' = overall_time - 1
    /\ Arm("pass_time")
    /\ UNCHANGED <<adaptVars, placeVars, order_queue, pending_orders, last_tool,
                   preparing_dish, action_queue_in_process, current_tool, dish,
                   is_dish_finished, linkVars, histVars, callVars,
                   pending_pickup, state_lock, worker, server>>

(* The last time unit: pass_time goes through action_performed into         *)
(* determine_next_action.                                                   *)
ActionPerformed ==
    /\ Take("pass_time")
    /\ duration_left = 1
    /\ overall_time' = overall_time - 1
    /\ dish' = [dish EXCEPT !.processed = @ + 1]
    /\ action_queue_in_process' = Tail(action_queue_in_process)
    /\ DetermineNextAction(action_queue_in_process', current_tool, 0)
    /\ UNCHANGED <<adaptVars, placeVars, order_queue, pending_orders, last_tool,
                   preparing_dish, current_tool, linkVars, histVars, callVars,
                   pending_pickup, state_lock, server>>

(* The robot stands at its target; the controller has yet to commit it.     *)
MoveToNewPosition ==
    /\ Take("move_to_new_position")
    /\ commit_pending' = TRUE
    /\ position' = new_target_position
    /\ new_target_position' = 0
    /\ UNCHANGED <<robot_state, already_rearranging, already_reconfiguring,
                   new_profile, travel, profile, orderVars, dishVars, linkVars,
                   histVars, callVars, pending_pickup, state_lock, timer,
                   worker, server, running>>

(* state_mutex_ is released before cook_next_order takes it again.          *)
HandleNewPositionCommit ==
    /\ Take("new_position_commit") /\ state_lock = "free"
    /\ already_rearranging' = FALSE
    /\ commit_pending' = FALSE
    /\ robot_state' = "AVAILABLE"
    /\ worker' = "cook"
    /\ UNCHANGED <<already_reconfiguring, new_target_position, new_profile,
                   travel, placeVars, orderVars, dishVars, linkVars, histVars,
                   callVars, pending_pickup, state_lock, timer, server, running>>

(* complete_reconfiguration under state_mutex_, in three steps: the new     *)
(* profile with a random tool of it, every waiting order through            *)
(* handle_receive_task, and the end.                                        *)
CompleteReconfiguration ==
    /\ Take("complete_reconfiguration") /\ state_lock = "free"
    /\ state_lock' = "worker"
    /\ profile' = new_profile
    /\ new_profile' = NoProfile
    /\ \E a \in Capabilities[new_profile] : current_tool' = ToolOf[a]
    /\ last_tool' = current_tool'
    /\ overall_time' = 0
    /\ pending_orders' = order_queue /\ order_queue' = <<>>
    /\ worker' = "recompute"
    /\ UNCHANGED <<robot_state, already_rearranging, already_reconfiguring,
                   new_target_position, commit_pending, travel, position,
                   preparing_dish, action_queue_in_process, duration_left,
                   dish, is_dish_finished, linkVars, histVars, callVars,
                   pending_pickup, timer, server, running>>

(* handle_receive_task ends in cook_next_order, which wants the mutex the   *)
(* worker holds, unless preparing_dish_ is set.                             *)
RecomputeOrder ==
    /\ running /\ worker = "recompute" /\ pending_orders # <<>>
    /\ EnqueueOrder(Head(pending_orders).recipe_id, Head(pending_orders).steps)
    /\ pending_orders' = Tail(pending_orders)
    /\ worker' = IF preparing_dish THEN "recompute" ELSE "cook"
    /\ UNCHANGED <<adaptVars, placeVars, dishVars, linkVars, histVars, callVars,
                   pending_pickup, state_lock, io, timer, server, running>>

RecomputeDone ==
    /\ running /\ worker = "recompute" /\ pending_orders = <<>>
    /\ already_reconfiguring' = FALSE
    /\ robot_state' = "AVAILABLE"
    /\ state_lock' = "free"
    /\ worker' = "cook"
    /\ UNCHANGED <<already_rearranging, new_target_position, new_profile,
                   commit_pending, travel, placeVars, orderVars, dishVars,
                   linkVars, histVars, callVars, pending_pickup, io, timer,
                   server, running>>

(* The notification loop of determine_next_action.  The worker holds        *)
(* client_mutex_ from the call until pending_pickup_ is set.                *)
NotifyCall ==
    /\ running /\ worker = "notify" /\ conveyor_client # "null"
    /\ worker' = "calling"
    /\ UNCHANGED <<adaptVars, placeVars, orderVars, dishVars, linkVars, histVars,
                   callVars, pending_pickup, state_lock, io, timer, server,
                   running>>

(* The conveyor takes the notification and answers true.                    *)
ConveyorAnswers ==
    /\ worker = "calling" /\ conveyor_client = "live"
    /\ notifications' = notifications \cup {position}
    /\ worker' = "answered"
    /\ UNCHANGED <<adaptVars, placeVars, orderVars, dishVars, histVars, callVars,
                   conveyor_client, conveyor_up, faults, pending_pickup,
                   state_lock, io, timer, server, running>>

NotifyReturns ==
    /\ running /\ worker = "answered"
    /\ pending_pickup' = TRUE
    /\ worker' = "idle"
    /\ UNCHANGED <<adaptVars, placeVars, orderVars, dishVars, linkVars, histVars,
                   callVars, state_lock, io, timer, server, running>>

(* The connection broke before the call or before its answer: the client is *)
(* deleted and the worker waits for the client thread.                      *)
NotifyFails ==
    /\ running /\ worker \in {"calling", "answered"}
    /\ conveyor_client = "stale"
    /\ conveyor_client' = "null"
    /\ worker' = "waiting"
    /\ UNCHANGED <<adaptVars, placeVars, orderVars, dishVars, histVars, callVars,
                   conveyor_up, notifications, faults, pending_pickup,
                   state_lock, io, timer, server, running>>

(* With no client the call is skipped, but not the UA_Client_delete after   *)
(* it: deleting the null client kills the process.  The worker comes here   *)
(* when the client thread has dropped the conveyor first, and when it wakes *)
(* and finds the connection not restored or lost again.                     *)
NotifyWithoutClient ==
    /\ running /\ worker = "notify" /\ conveyor_client = "null"
    /\ worker' = "killed"
    /\ UNCHANGED <<adaptVars, placeVars, orderVars, dishVars, linkVars, histVars,
                   callVars, pending_pickup, state_lock, io, timer, server,
                   running>>

(* A spurious wakeup of conveyor_connected_condition_: wait has no          *)
(* predicate, so the loop simply tries again.                               *)
SpuriousWakeup ==
    /\ running /\ worker = "waiting"
    /\ faults < MaxFaults
    /\ faults' = faults + 1
    /\ worker' = "notify"
    /\ UNCHANGED <<adaptVars, placeVars, orderVars, dishVars, histVars, callVars,
                   conveyor_client, conveyor_up, notifications, pending_pickup,
                   state_lock, io, timer, server, running>>

TimerExpires ==
    /\ running /\ ~ Killed /\ timer # "none"
    /\ Post(Plain(timer))
    /\ timer' = "none"
    /\ UNCHANGED <<adaptVars, placeVars, orderVars, dishVars, linkVars, histVars,
                   callVars, pending_pickup, state_lock, worker, server, running>>

------------------------------------------------------------------------------
(* Client thread, under client_mutex_.                                      *)

(* UA_Client_run_iterate fails on a broken connection.                      *)
ClientDropsConveyor ==
    /\ running /\ ClientMutexFree /\ conveyor_client = "stale"
    /\ conveyor_client' = "null"
    /\ UNCHANGED <<adaptVars, placeVars, orderVars, dishVars, histVars, callVars,
                   conveyor_up, notifications, faults, pending_pickup,
                   state_lock, io, timer, worker, server, running>>

(* Mutants: nothing is announced again; the worker is not woken.            *)
Reannounced_Nothing == {}
Woken_Nobody == worker

Reannounced == IF pending_pickup THEN {position} ELSE {}
Woken == IF worker = "waiting" THEN "notify" ELSE worker

(* Whatever awaits pickup is announced again, then the worker is woken.     *)
ClientReconnects ==
    /\ running /\ ClientMutexFree /\ conveyor_client = "null" /\ conveyor_up
    /\ conveyor_client' = "live"
    /\ notifications' = notifications \cup Reannounced
    /\ worker' = Woken
    /\ UNCHANGED <<adaptVars, placeVars, orderVars, dishVars, histVars, callVars,
                   conveyor_up, faults, pending_pickup, state_lock, io, timer,
                   server, running>>

(* The announcement reaches the conveyor, its answer does not come back.    *)
ClientReconnectFails ==
    /\ running /\ ClientMutexFree /\ conveyor_client = "null" /\ conveyor_up
    /\ pending_pickup
    /\ faults < MaxFaults
    /\ faults' = faults + 1
    /\ notifications' = notifications \cup {position}
    /\ UNCHANGED <<adaptVars, placeVars, orderVars, dishVars, histVars, callVars,
                   conveyor_client, conveyor_up, pending_pickup, state_lock, io,
                   timer, worker, server, running>>

------------------------------------------------------------------------------
(* The conveyor's side: it may crash and come back without its              *)
(* notifications, its connection may break, a handover call of it may fail  *)
(* (handle_retrieve_finished_orders then forgets the notification).         *)

Broken == IF conveyor_client = "live" THEN "stale" ELSE conveyor_client

ConveyorCrashes ==
    /\ conveyor_up /\ faults < MaxFaults
    /\ conveyor_up' = FALSE /\ notifications' = {}
    /\ conveyor_client' = Broken
    /\ faults' = faults + 1
    /\ UNCHANGED <<adaptVars, placeVars, orderVars, dishVars, histVars, callVars,
                   pending_pickup, state_lock, io, timer, worker, server,
                   running>>

ConveyorRestarts ==
    /\ ~ conveyor_up
    /\ conveyor_up' = TRUE
    /\ UNCHANGED <<adaptVars, placeVars, orderVars, dishVars, histVars, callVars,
                   conveyor_client, notifications, faults, pending_pickup,
                   state_lock, io, timer, worker, server, running>>

ConnectionDrops ==
    /\ conveyor_client = "live" /\ faults < MaxFaults
    /\ conveyor_client' = "stale"
    /\ faults' = faults + 1
    /\ UNCHANGED <<adaptVars, placeVars, orderVars, dishVars, histVars, callVars,
                   conveyor_up, notifications, pending_pickup, state_lock, io,
                   timer, worker, server, running>>

HandoverCallLost(p) ==
    /\ LosesHandoverCalls
    /\ conveyor_up /\ p \in notifications
    /\ faults < MaxFaults
    /\ notifications' = notifications \ {p}
    /\ faults' = faults + 1
    /\ UNCHANGED <<adaptVars, placeVars, orderVars, dishVars, histVars, callVars,
                   conveyor_client, conveyor_up, pending_pickup, state_lock, io,
                   timer, worker, server, running>>

------------------------------------------------------------------------------
ServerStep ==
    \/ \E r \in Recipe, p \in RobotPosition :
          \E s \in 0..(Len(Instructions[r]) - 1) : ReceiveTask(r, s, p)
    \/ \E p \in RobotPosition : SwitchPosition(p)
    \/ \E q \in Profile : Reconfigure(q)
    \/ CommitNewPosition
    \/ \E p \in RobotPosition : HandoverCall(p)
    \/ HandoverStart
    \/ HandoverReply

WorkerStep ==
    \/ HandleReceiveTask \/ CookPosted
    \/ CookRearranges \/ CookReconfigures \/ CookIdles \/ CookStarts
    \/ HandleSwitchRequest \/ HandleReconfigureRequest
    \/ Retool \/ PassTime \/ ActionPerformed
    \/ MoveToNewPosition \/ HandleNewPositionCommit
    \/ CompleteReconfiguration \/ RecomputeOrder \/ RecomputeDone
    \/ NotifyCall \/ NotifyReturns \/ NotifyFails \/ NotifyWithoutClient

ClientStep == ClientDropsConveyor \/ ClientReconnects

Fault ==
    \/ SpuriousWakeup \/ ClientReconnectFails
    \/ ConveyorCrashes \/ ConnectionDrops
    \/ \E p \in RobotPosition : HandoverCallLost(p)

Next == \/ ServerStep \/ WorkerStep \/ ClientStep \/ ConveyorAnswers
        \/ TimerExpires \/ ConveyorRestarts \/ Fault

Spec == Init /\ [][Next]_vars

(* Each thread runs, timers expire, the conveyor answers, comes back and    *)
(* visits the positions it was told of, the controller commits a switch.    *)
(* Nothing obliges anyone to send a task or to adapt the robot.             *)
Fairness ==
    /\ WF_vars(WorkerStep) /\ WF_vars(ClientStep) /\ WF_vars(TimerExpires)
    /\ WF_vars(HandoverStart) /\ WF_vars(HandoverReply)
    /\ WF_vars(\E p \in RobotPosition : HandoverCall(p))
    /\ WF_vars(CommitNewPosition)
    /\ WF_vars(ConveyorAnswers) /\ WF_vars(ConveyorRestarts)

FairSpec == Spec /\ Fairness

------------------------------------------------------------------------------
(* Properties.                                                              *)

FlagTypes ==
    /\ already_rearranging \in BOOLEAN /\ already_reconfiguring \in BOOLEAN
    /\ commit_pending \in BOOLEAN /\ commit_sent \in BOOLEAN
    /\ preparing_dish \in BOOLEAN /\ is_dish_finished \in BOOLEAN
    /\ pending_pickup \in BOOLEAN /\ running \in BOOLEAN
    /\ conveyor_up \in BOOLEAN

ControlTypes ==
    /\ robot_state \in {"AVAILABLE", "REARRANGING", "RECONFIGURING"}
    /\ state_lock \in {"free", "worker"}
    /\ io \in Seq(Handler)
    /\ timer \in TimedOp \cup {"none"}
    /\ worker \in {"idle", "cook", "recompute", "notify", "calling",
                    "answered", "waiting", "killed"}
    /\ server \in {"idle", "called", "replying"}
    /\ conveyor_client \in {"null", "live", "stale"}

DataTypes ==
    /\ new_target_position \in RobotPosition \cup {0}
    /\ new_profile \in Profile \cup {NoProfile}
    /\ travel \in Nat
    /\ position \in RobotPosition /\ profile \in Profile
    /\ order_queue \in Seq(Order) /\ pending_orders \in Seq(Order)
    /\ current_tool \in Tool /\ last_tool \in Tool
    /\ duration_left \in Nat
    /\ action_queue_in_process \in Seq(Instruction)
    /\ dish \in [recipe_id : Recipe \cup {0}, steps : Nat, processed : Nat,
                  processable : Nat]
    /\ notifications \subseteq RobotPosition
    /\ faults \in Nat /\ adaptations \in Nat
    /\ accepted \in Seq(Task)
    /\ handed \in Seq([recipe_id : Recipe, steps : Nat, processed : Nat,
                       finished : BOOLEAN, profile : Profile])

(* Every variable but overall_time (OverallTimeExact) keeps its type; in    *)
(* particular the robot never stands at the output, position 0, although    *)
(* the target of a move arrives by a handler of its own.                    *)
TypeOK == FlagTypes /\ ControlTypes /\ DataTypes

(* What is going on in the robot right now; a posted task or adaptation     *)
(* request is not counted, it waits for whatever this is to end.            *)
Queued(op) == \E i \in DOMAIN io : io[i].op = op
DrivingOp == TimedOp \cup {"cook_next_order", "new_position_commit"}
Driver == {"timer", "queued", "worker", "pickup", "reply", "commit"}
Drives(d) ==
    \/ d = "timer"  /\ timer # "none"
    \/ d = "queued" /\ \E op \in DrivingOp : Queued(op)
    \/ d = "worker" /\ worker \notin {"idle", "cook"}
    \/ d = "pickup" /\ pending_pickup
    \/ d = "reply"  /\ server = "replying"
    \/ d = "commit" /\ commit_pending /\ ~ commit_sent

OneQueuedDriver ==
    \A i, j \in DOMAIN io :
        io[i].op \in DrivingOp /\ io[j].op \in DrivingOp => i = j

(* One thing drives the robot at a time: an action, a retooling, a move, a  *)
(* reconfiguration, a notification, a pickup or the commit it waits for.    *)
(* The single steady_timer_, the single dish and stop() on a cancelled wait *)
(* depend on it.                                                            *)
SingleDriver ==
    /\ \A d, e \in Driver : Drives(d) /\ Drives(e) => d = e
    /\ OneQueuedDriver

(* No wait on steady_timer_ is ever cancelled by arming it again: such a    *)
(* wait answers with stop() and takes the robot out of the kitchen.         *)
TimerNeverCancelled == running

TaskOf(o) == [recipe_id |-> o.recipe_id, steps |-> o.steps]
Tasks(orders) == [i \in DOMAIN orders |-> TaskOf(orders[i])]
Aboard == IF dish = NoDish THEN <<>> ELSE <<TaskOf(dish)>>
Known == Tasks(handed) \o Aboard \o Tasks(order_queue) \o Tasks(pending_orders)
Posted == {i \in DOMAIN io : io[i].op = "receive_task"}

(* README.md:12, FIFO: at every moment the accepted tasks are, in order,    *)
(* the dishes handed over, the one aboard, the queue and the tasks posted   *)
(* but not yet queued; no reconfiguration, crash or retry loses, doubles or *)
(* reorders one.  at lists the places of the posted tasks in io, front to   *)
(* back and all of them.                                                    *)
DishesInOrder ==
    \E at \in [1..(Len(accepted) - Len(Known)) -> Posted] :
        /\ \A m, n \in DOMAIN at : m < n => at[m] < at[n]
        /\ \A i \in Posted : \E n \in DOMAIN at : at[n] = i
        /\ accepted = Known \o [n \in DOMAIN at |-> TaskOf(io[at[n]])]

(* A handed-over dish went exactly as far as the profile the robot now      *)
(* had can take it, and is flagged finished exactly when nothing remains.   *)
HandoverIsExact ==
    \A i \in DOMAIN handed :
        LET h == handed[i]
            acts == Remaining(h.recipe_id, h.steps)
        IN /\ h.processed = ProcessableSteps(h.profile, acts)
           /\ h.finished = (h.processed = Len(acts))

(* PROCESSABLE_STEPS of the dish aboard and of every queued order is what   *)
(* the present profile can do of it, across reconfigurations.               *)
ProcessableStepsKept ==
    /\ \A i \in DOMAIN order_queue :
          LET o == order_queue[i]
          IN o.processable =
                ProcessableSteps(profile, Remaining(o.recipe_id, o.steps))
    /\ dish # NoDish =>
          /\ dish.processed + Len(Processable(profile, action_queue_in_process))
                = dish.processable
          /\ action_queue_in_process
                = Remaining(dish.recipe_id, dish.steps + dish.processed)

(* All the robot has still to do of the dishes it knows of, in order.       *)
WorkOf(o) == Processable(profile, Remaining(o.recipe_id, o.steps))
WorkAboard ==
    IF dish = NoDish THEN <<>> ELSE Processable(profile, action_queue_in_process)
WorkAhead ==
    WorkAboard \o FlattenSeq([i \in DOMAIN order_queue |-> WorkOf(order_queue[i])])

(* Time units of the running action that have passed.                       *)
Elapsed ==
    LET Performing == timer = "pass_time" \/ Queued("pass_time")
    IN IF Performing THEN action_queue_in_process[1].duration - duration_left
       ELSE 0

(* OVERALL_TIME, which the controller compares between robots, is exactly   *)
(* the time the known work still takes from the tool now equipped, so the   *)
(* unsigned attribute never wraps below zero; LAST_EQUIPPED_TOOL is the     *)
(* tool the last of this work leaves behind.                                *)
OverallTimeExact ==
    /\ overall_time = PlanTime(current_tool, WorkAhead) - Elapsed
    /\ overall_time >= 0
    /\ last_tool = ToolAfter(current_tool, WorkAhead)

(* Position and capabilities change only while no dish is aboard and none   *)
(* waits for the conveyor.                                                  *)
AdaptsOnlyBetweenDishes ==
    [][position' # position \/ profile' # profile
        => dish = NoDish /\ ~ pending_pickup]_vars

(* While a dish waits and the robot believes the conveyor connected, the    *)
(* conveyor knows the position to visit or is already asking for the dish:  *)
(* crashes of the conveyor, lost connections and answers are made good.     *)
NotificationOutstanding ==
    pending_pickup /\ conveyor_client = "live"
        => position \in notifications \/ server = "called"

(* The worker waits for state_mutex_ while it holds it.                     *)
SelfDeadlocked == worker = "cook" /\ state_lock = "worker"

(* README.md:12: every task a robot accepted is prepared and handed over.   *)
AcceptedDishesAreHandedOver ==
    \A n \in 1..MaxTasks : Len(accepted) >= n ~> Len(handed) >= n

(* The two ways in which the worker never goes on: it deadlocks on itself   *)
(* in complete_reconfiguration, or it has killed the process.               *)
WorkerIsLost == SelfDeadlocked \/ Killed

(* The same, unless the worker is lost: crashes of the conveyor, dropped    *)
(* connections and spurious wakeups by themselves keep no dish aboard.      *)
DishesHandedOverOrLost ==
    \A n \in 1..MaxTasks :
        Len(accepted) >= n ~> Len(handed) >= n \/ WorkerIsLost

(* A switch or a reconfiguration ends and the robot takes tasks again,      *)
(* unless the worker is lost.                                               *)
AdaptationEnds ==
    robot_state # "AVAILABLE" ~> robot_state = "AVAILABLE" \/ WorkerIsLost
==============================================================================
