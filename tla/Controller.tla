------------------------------ MODULE Controller ------------------------------
(***************************************************************************)
(* The controller agent (src/controller) with its MAPE.  The server thread *)
(* posts registrations and next-robot requests to io_context_, a thread    *)
(* per remote robot caches what its subscriptions report and posts the     *)
(* callbacks; the worker thread runs the posted handlers one at a time and *)
(* owns the maps.  A handler calls robots and receivers in its midst: each *)
(* remote call is a step of its own, and `calls` is what the running       *)
(* handler still calls (the worker is idle when it is empty).              *)
(*                                                                         *)
(* The robots, external here, move, reconfigure, commit and register as    *)
(* src/robot does (module Robot has their detail).  A crashed robot stays  *)
(* down; a crashed controller is up again at once.                         *)
(***************************************************************************)
EXTENDS Mape

CONSTANTS ConveyorSize,
          Robot,
          StartPosition,    \* robot -> position it starts at
          StartProfile,     \* robot -> capability profile it starts with
          Agent,            \* next-robot receivers
          Strategies,       \* what on_new_order may delegate to
          MaxRequests,      \* bound: next-robot requests
          FaultKinds,       \* which faults may occur, each once
          MaxFaults         \* bound: faults

Position == 1..(ConveyorSize - 1)
FaultKind == {"robot", "controller", "link", "receiver", "answer"}
Strategy == {"simple_capability_check", "simple_rearranging",
             "simple_reconfiguration"}

ASSUME ControllerAssumption ==
    /\ ConveyorSize \in Nat /\ ConveyorSize > 1
    /\ StartPosition \in [Robot -> Position]
    /\ \A r, s \in Robot : StartPosition[r] = StartPosition[s] => r = s
    /\ StartProfile \in [Robot -> Profile]
    /\ None \notin Robot \cup Agent
    /\ Strategies \subseteq Strategy
    /\ FaultKinds \subseteq FaultKind
    /\ {MaxRequests, MaxFaults} \subseteq Nat

VARIABLES
    known,              \* position_remote_robot_map_
    pending_swaps,      \* pending_swaps_: <<lower, greater>> -> acked positions
    receivers,          \* next_robot_receiver_map_, by agent
    registered,         \* REGISTERED_ROBOTS
    io,                 \* handlers queued in io_context_
    calls,              \* remote calls the running handler still makes
    running,            \* running_
    up, place, profile, \* external: a robot, its position and capabilities
    state, pending,     \* external: robot_state_, NEW_POSITION_COMMIT_IS_PENDING
    target, new_profile,\* external: what a robot adapts to
    commits,            \* external: commit handlers queued at a robot
    client,             \* external: a robot's client to the controller
    asked, answered,    \* next-robot requests made and answers received
    answer,             \* the last answer
    faults              \* the kinds of faults that occurred

mapVars    == <<known, pending_swaps, registered>>
workVars   == <<io, calls, running>>
goalVars   == <<state, target, new_profile>>
robotVars  == <<up, place, profile, goalVars, pending, commits>>
boundVars  == <<asked, answered, answer, faults>>
vars == <<mapVars, workVars, robotVars, boundVars, receivers, client>>

------------------------------------------------------------------------------
Remote(r, p, f) == [robot |-> r, cached |-> p, profile |-> f,
                    adapting |-> FALSE, link |-> "live"]

NoRobot == [position |-> 0, robot |-> None]
NoSwaps == [k \in {} |-> {}]
NoRobots == [p \in Position |-> None]

Init ==
    /\ known = NoRobots /\ pending_swaps = NoSwaps /\ registered = 0
    /\ receivers = [a \in Agent |-> "none"]
    /\ io = <<>> /\ calls = <<>> /\ running = TRUE
    /\ up = [r \in Robot |-> TRUE]
    /\ place = StartPosition /\ profile = StartProfile
    /\ state = [r \in Robot |-> "AVAILABLE"]
    /\ pending = [r \in Robot |-> FALSE]
    /\ target = [r \in Robot |-> None] /\ new_profile = [r \in Robot |-> None]
    /\ commits = [r \in Robot |-> 0]
    /\ client = [r \in Robot |-> "null"]
    /\ asked = 0 /\ answered = 0 /\ answer = NoRobot /\ faults = {}

Fault(kind) ==
    /\ kind \in FaultKinds \ faults /\ Cardinality(faults) < MaxFaults
    /\ faults' = faults \cup {kind}

Take(op) ==
    /\ running /\ calls = <<>>
    /\ io # <<>> /\ Head(io).op = op
    /\ io' = Tail(io)

(* The worker makes the first of its calls.                                 *)
Calling(op) == calls # <<>> /\ Head(calls).op = op

Alive(p) == known[p] # None /\ known[p].link = "live"
Stop(m, p) == IF m[p] = None THEN m ELSE [m EXCEPT ![p].link = "stopped"]

------------------------------------------------------------------------------
(* What the handlers begin with.                                            *)

(* Mutant: a swap is known by the order its positions were named in.        *)
Key_AsNamed(p, q) == <<p, q>>

Key(p, q) == IF p < q THEN <<p, q>> ELSE <<q, p>>
Positions(k) == {k[1], k[2]}
Swapping(p) == \E k \in DOMAIN pending_swaps : p \in Positions(k)

Gone == {p \in Position : known[p] # None /\ known[p].link = "stopped"}

(* Mutant: the counter forgets the removals.                                *)
StillRegistered_Kept == registered

(* A stopped robot leaves the map, and its side of a swap counts as acked.  *)
remove_stopped_robots == [p \in Position |-> IF p \in Gone THEN None ELSE known[p]]
AckedByRemoval ==
    [k \in DOMAIN pending_swaps |-> pending_swaps[k] \cup (Gone \cap Positions(k))]
StillRegistered == registered - Cardinality(Gone)

Restricted(f, S) == [k \in S |-> f[k]]

(* erase_stale_pending_swap_entries, after the removal of stopped robots.   *)
Fresh == {k \in DOMAIN pending_swaps :
             \E p \in Positions(k) : remove_stopped_robots[p] # None}
Swaps == Restricted(AckedByRemoval, Fresh)

------------------------------------------------------------------------------
(* Registration.                                                            *)

Vacant(p) ==
    /\ remove_stopped_robots[p] = None
    /\ \A k \in Fresh : p \notin Positions(k)

(* The robot was told `true` when it called: a refusal is only logged.  The *)
(* entry's key is the position it called with; its first notifications      *)
(* bring what it cached up to date.                                         *)
HandleRobotRegistration ==
    LET r == Head(io).robot
        p == Head(io).position
    IN /\ Take("register")
       /\ pending_swaps' = Swaps
       /\ IF Vacant(p) /\ up[r]
          THEN /\ known' = [remove_stopped_robots EXCEPT
                                ![p] = Remote(r, place[r], profile[r])]
               /\ registered' = StillRegistered + 1
               /\ calls' = <<[op |-> "resolve", at |-> p]>>
          ELSE /\ known' = remove_stopped_robots
               /\ registered' = StillRegistered
               /\ UNCHANGED calls
       /\ UNCHANGED <<robotVars, boundVars, running, receivers, client>>

(* commit_new_position of the robot: it must have moved and not be committed*)
(* yet.                                                                     *)
Uncommitted(r) == state[r] = "REARRANGING" /\ pending[r]

(* Mutant: the robot takes any commit.                                      *)
CommitCall_Unchecked(r) == commits' = [commits EXCEPT ![r] = @ + 1]

CommitCall(r) ==
    commits' = IF Uncommitted(r) THEN [commits EXCEPT ![r] = @ + 1] ELSE commits

(* resolve_missed_new_position_commit: a robot that is waiting for a commit *)
(* nobody remembers gets it.                                                *)
Resolve ==
    LET p == Head(calls).at
    IN /\ Calling("resolve")
       /\ calls' = Tail(calls)
       /\ IF Alive(p)
          THEN CommitCall(known[p].robot) /\ UNCHANGED known
          ELSE known' = Stop(known, p) /\ UNCHANGED commits
       /\ UNCHANGED <<pending_swaps, registered, io, running, up, place, profile,
                      goalVars, pending, boundVars, receivers, client>>

------------------------------------------------------------------------------
(* Next-robot requests.                                                     *)

(* Mutant: a request no robot can take is not answered.                     *)
Reply_RobotsOnly(a, p) ==
    IF p = 0 THEN <<>> ELSE <<[op |-> "answer", agent |-> a, at |-> p]>>

(* The answer comes last, with position 0 if no robot can take the order.   *)
Reply(a, p) == <<[op |-> "answer", agent |-> a, at |-> p]>>

(* initialize_and_start of a new receiver may fail; it is not entered then. *)
(* A receiver once in the map stays there, whatever became of it.           *)
Connected == {"live"} \cup (IF "receiver" \in FaultKinds THEN {"none"} ELSE {})

HandleNextRobotRequest ==
    LET req == Head(io)
        todo == Remaining(req.recipe, req.steps)
        robots == remove_stopped_robots
    IN /\ Take("next_robot")
       /\ known' = robots /\ pending_swaps' = Swaps
       /\ registered' = StillRegistered
       /\ IF receivers[req.agent] = "none"
          THEN \E l \in Connected : receivers' = [receivers EXCEPT ![req.agent] = l]
          ELSE UNCHANGED receivers
       /\ \E s \in Strategies : \E wanted \in Adaptations(s, robots, todo) :
             calls' = wanted \o Reply(req.agent, Next1(robots, todo))
       /\ UNCHANGED <<robotVars, boundVars, running, client>>

(* Mutant: a robot under adaptation is answered nevertheless.               *)
Chosen_Adapting(p) == p # 0 /\ known[p] # None

Chosen(p) == p # 0 /\ known[p] # None /\ ~ known[p].adapting

(* receive_next_robot is called with the robot or with position 0.          *)
Answer ==
    LET p == Head(calls).at
    IN /\ Calling("answer")
       /\ receivers[Head(calls).agent] = "live"
       /\ calls' = Tail(calls)
       /\ answer' = IF Chosen(p)
                    THEN [position |-> known[p].cached, robot |-> known[p].robot]
                    ELSE NoRobot
       /\ answered' = answered + 1
       /\ UNCHANGED <<mapVars, io, running, robotVars, asked, faults, receivers,
                      client>>

(* The call fails, or there is no receiver to make it, and nothing is       *)
(* retried.  The kitchen may be gone: it dies when an order finds no        *)
(* controller (kitchen.cpp:270).                                            *)
AnswerFails ==
    /\ Calling("answer")
    /\ receivers[Head(calls).agent] # "live" \/ "controller" \in faults
    /\ calls' = Tail(calls)
    /\ UNCHANGED <<mapVars, io, running, robotVars, boundVars, receivers, client>>

------------------------------------------------------------------------------
(* swap_robot_positions.                                                    *)

Refused(from, to) ==
    \/ from = to \/ Swapping(from) \/ Swapping(to)
    \/ known[from] = None \/ known[from].adapting
    \/ known[to] # None /\ known[to].adapting

(* Mutant: a robot that answers is taken for available.                     *)
Available_Unread(p) == Alive(p)

(* is_available of the robot at p: a read that fails stops the remote robot.*)
Available(p) == Alive(p) /\ state[known[p].robot] = "AVAILABLE"
Unavailable(p) == known[p] # None /\ ~ Available(p)
StopUnlessAlive(m, p) == IF Alive(p) THEN m ELSE Stop(m, p)

SwitchSkipped ==
    LET from == Head(calls).from
        to == Head(calls).to
    IN /\ Calling("switch")
       /\ Refused(from, to) \/ Unavailable(from) \/ Unavailable(to)
       /\ calls' = Tail(calls)
       /\ known' = IF Refused(from, to) THEN known
                   ELSE StopUnlessAlive(known, IF Unavailable(from) THEN from ELSE to)
       /\ UNCHANGED <<pending_swaps, registered, io, running, robotVars,
                      boundVars, receivers, client>>

(* The robot's switch_position and reconfigure answer whether they adapt.   *)
WillSwitch(r, p) == state[r] = "AVAILABLE" /\ place[r] # p
WillReconfigure(r, f) ==
    state[r] = "AVAILABLE" /\ Capabilities[f] # Capabilities[profile[r]]

SwitchPosition(r, p) ==
    /\ IF WillSwitch(r, p)
       THEN /\ state' = [state EXCEPT ![r] = "REARRANGING"]
            /\ target' = [target EXCEPT ![r] = p]
       ELSE UNCHANGED <<state, target>>
    /\ UNCHANGED new_profile

ReconfigureTo(r, f) ==
    /\ IF WillReconfigure(r, f)
       THEN /\ state' = [state EXCEPT ![r] = "RECONFIGURING"]
            /\ new_profile' = [new_profile EXCEPT ![r] = f]
       ELSE UNCHANGED <<state, new_profile>>
    /\ UNCHANGED target

Flagged(m, p) == [m EXCEPT ![p].adapting = TRUE]

(* A robot that refuses after it was available stops the controller: that   *)
(* branch "should actually never be entered".                               *)
SwitchFirst ==
    LET from == Head(calls).from
        to == Head(calls).to
        r == known[from].robot
        yes == WillSwitch(r, to)
    IN /\ Calling("switch")
       /\ ~ Refused(from, to) /\ ~ Unavailable(from) /\ ~ Unavailable(to)
       /\ SwitchPosition(r, to)
       /\ known' = IF yes THEN Flagged(known, from) ELSE known
       /\ calls' = IF yes
                   THEN <<[op |-> "switch_second", from |-> from, to |-> to]>>
                        \o Tail(calls)
                   ELSE Tail(calls)
       /\ running' = (running /\ yes)
       /\ UNCHANGED <<pending_swaps, registered, io, up, place, profile, pending,
                      commits, boundVars, receivers, client>>

(* The robot switches, but its answer is lost.                              *)
SwitchFirstFails ==
    LET from == Head(calls).from
        to == Head(calls).to
        r == known[from].robot
    IN /\ Calling("switch")
       /\ ~ Refused(from, to) /\ ~ Unavailable(from) /\ ~ Unavailable(to)
       /\ Fault("answer")
       /\ SwitchPosition(r, to)
       /\ known' = Stop(known, from)
       /\ calls' = Tail(calls)
       /\ UNCHANGED <<pending_swaps, registered, io, running, up, place, profile,
                      pending, commits, asked, answered, answer, receivers, client>>

AddSwap(from, to, acked) ==
    [k \in DOMAIN pending_swaps \cup {Key(from, to)} |->
        IF k = Key(from, to) THEN acked ELSE pending_swaps[k]]

(* Without a robot at the target its side counts as acked.                  *)
SwitchSecond ==
    LET from == Head(calls).from
        to == Head(calls).to
        alone == known[to] = None
        r == known[to].robot
        yes == alone \/ WillSwitch(r, from)
    IN /\ Calling("switch_second")
       /\ alone \/ Alive(to)
       /\ calls' = Tail(calls)
       /\ IF alone THEN UNCHANGED <<goalVars, known>>
          ELSE /\ SwitchPosition(r, from)
               /\ known' = IF yes THEN Flagged(known, to) ELSE known
       /\ pending_swaps' = IF yes THEN AddSwap(from, to, IF alone THEN {to} ELSE {})
                           ELSE pending_swaps
       /\ running' = (running /\ yes)
       /\ UNCHANGED <<registered, io, up, place, profile, pending,
                      commits, boundVars, receivers, client>>

(* The second call fails, executed or not: the swap goes on without that    *)
(* robot.                                                                   *)
SwitchSecondFails ==
    LET from == Head(calls).from
        to == Head(calls).to
        r == known[to].robot
    IN /\ Calling("switch_second")
       /\ known[to] # None
       /\ \/ ~ Alive(to) /\ UNCHANGED <<goalVars, faults>>
          \/ /\ Alive(to) /\ Fault("answer")
             /\ SwitchPosition(r, from)
       /\ calls' = Tail(calls)
       /\ known' = Flagged(Stop(known, to), to)
       /\ pending_swaps' = AddSwap(from, to, {to})
       /\ UNCHANGED <<registered, io, running, up, place, profile,
                      pending, commits, asked, answered, answer, receivers, client>>

------------------------------------------------------------------------------
(* reconfigure_robot_capability.                                            *)

ReconfigureSkipped ==
    LET p == Head(calls).at
    IN /\ Calling("reconfigure")
       /\ known[p] = None \/ known[p].adapting \/ ~ Available(p)
       /\ calls' = Tail(calls)
       /\ known' = IF known[p] = None \/ known[p].adapting THEN known
                   ELSE StopUnlessAlive(known, p)
       /\ UNCHANGED <<pending_swaps, registered, io, running, robotVars, boundVars,
                      receivers, client>>

(* A robot refuses the profile it has; nothing happens then.                *)
ReconfigureCall ==
    LET p == Head(calls).at
        r == known[p].robot
        yes == WillReconfigure(r, Head(calls).profile)
    IN /\ Calling("reconfigure")
       /\ known[p] # None /\ ~ known[p].adapting /\ Available(p)
       /\ calls' = Tail(calls)
       /\ ReconfigureTo(r, Head(calls).profile)
       /\ \/ /\ known' = IF yes THEN Flagged(known, p) ELSE known
             /\ UNCHANGED faults
          \/ known' = Stop(known, p) /\ Fault("answer")
       /\ UNCHANGED <<pending_swaps, registered, io, running, up, place, profile,
                      pending, commits, asked, answered, answer, receivers, client>>

------------------------------------------------------------------------------
(* The callbacks of the subscriptions.                                      *)

(* Mutant: one acknowledgement completes the swap.                          *)
Complete_OneAck(k, acked) == acked # {}

Complete(k, acked) == acked = Positions(k)

(* Mutant: the flag outlives the swap.                                      *)
Settled_Flagged(e) == e

Settled(e) == [e EXCEPT !.adapting = FALSE]

CommitOf(e) == [op |-> "commit", at |-> e.cached, robot |-> e.robot]

(* The entries of both positions are keyed anew by their robots' positions. *)
Rekeyed(m, k) ==
    LET At(e, p) == e # None /\ e.cached = p
    IN [p \in Position |-> IF At(m[k[2]], p) THEN Settled(m[k[2]])
                           ELSE IF At(m[k[1]], p) THEN Settled(m[k[1]])
                           ELSE IF p \in Positions(k) THEN None
                           ELSE m[p]]

CommitBoth(m, k) ==
    LET At(p) == IF m[p] = None THEN <<>> ELSE <<CommitOf(m[p])>>
    IN At(k[1]) \o At(k[2])

HandlePositionSwapped ==
    LET old == Head(io).old
        k == Key(old, Head(io).new)
        robots == remove_stopped_robots
        acked == Swaps[k] \cup {old}
    IN /\ Take("swapped")
       /\ registered' = StillRegistered
       /\ IF k \notin Fresh
          THEN known' = robots /\ pending_swaps' = Swaps /\ UNCHANGED calls
          ELSE IF Complete(k, acked)
          THEN /\ known' = Rekeyed(robots, k)
               /\ pending_swaps' = Restricted(AckedByRemoval, Fresh \ {k})
               /\ calls' = CommitBoth(robots, k)
          ELSE /\ known' = robots
               /\ pending_swaps' = [Swaps EXCEPT ![k] = acked]
               /\ UNCHANGED calls
       /\ UNCHANGED <<robotVars, boundVars, running, receivers, client>>

(* The first of two robots that report the same position is committed       *)
(* before the second takes its entry.                                       *)
Commit ==
    LET p == Head(calls).at
        r == Head(calls).robot
    IN /\ Calling("commit")
       /\ calls' = Tail(calls)
       /\ IF Alive(p) \/ known[p].robot # r
          THEN CommitCall(r) /\ UNCHANGED known
          ELSE known' = Stop(known, p) /\ UNCHANGED commits
       /\ UNCHANGED <<pending_swaps, registered, io, running, up, place, profile,
                      goalVars, pending, boundVars, receivers, client>>

HandleCapabilitiesReconfigured ==
    LET p == Head(io).at
        robots == remove_stopped_robots
    IN /\ Take("reconfigured")
       /\ registered' = StillRegistered
       /\ pending_swaps' = AckedByRemoval
       /\ known' = IF robots[p] = None THEN robots
                   ELSE [robots EXCEPT ![p] = Settled(@)]
       /\ UNCHANGED <<robotVars, boundVars, calls, running, receivers, client>>

(* The thread of the remote robot: position_changed,                        *)
(* capabilities_reconfigured, and the end of it.                            *)
PositionChanged(p) ==
    /\ Alive(p) /\ known[p].cached # place[known[p].robot]
    /\ known' = [known EXCEPT ![p].cached = place[known[p].robot]]
    /\ io' = Append(io, [op |-> "swapped", old |-> known[p].cached,
                         new |-> place[known[p].robot]])
    /\ UNCHANGED <<pending_swaps, registered, calls, running, robotVars, boundVars,
                   receivers, client>>

CapabilitiesChanged(p) ==
    /\ Alive(p) /\ known[p].profile # profile[known[p].robot]
    /\ known' = [known EXCEPT ![p].profile = profile[known[p].robot]]
    /\ io' = Append(io, [op |-> "reconfigured", at |-> known[p].cached])
    /\ UNCHANGED <<pending_swaps, registered, calls, running, robotVars, boundVars,
                   receivers, client>>

RemoteStops(p) ==
    /\ known[p] # None /\ known[p].link = "broken"
    /\ known' = Stop(known, p)
    /\ UNCHANGED <<pending_swaps, registered, workVars, robotVars, boundVars,
                   receivers, client>>

------------------------------------------------------------------------------
(* The robots and the receivers, external.                                  *)

Move(r) ==
    /\ up[r] /\ target[r] # None
    /\ pending' = [pending EXCEPT ![r] = TRUE]
    /\ place' = [place EXCEPT ![r] = target[r]]
    /\ target' = [target EXCEPT ![r] = None]
    /\ UNCHANGED <<mapVars, workVars, boundVars, up, profile, state, new_profile,
                   commits, receivers, client>>

CompleteReconfiguration(r) ==
    /\ up[r] /\ new_profile[r] # None
    /\ state' = [state EXCEPT ![r] = "AVAILABLE"]
    /\ profile' = [profile EXCEPT ![r] = new_profile[r]]
    /\ new_profile' = [new_profile EXCEPT ![r] = None]
    /\ UNCHANGED <<mapVars, workVars, boundVars, up, place, pending, target, commits,
                   receivers, client>>

(* Whatever the robot does when the handler runs, it is AVAILABLE then.     *)
HandleNewPositionCommit(r) ==
    /\ up[r] /\ commits[r] > 0
    /\ commits' = [commits EXCEPT ![r] = @ - 1]
    /\ state' = [state EXCEPT ![r] = "AVAILABLE"]
    /\ pending' = [pending EXCEPT ![r] = FALSE]
    /\ UNCHANGED <<mapVars, workVars, boundVars, up, place, profile, target,
                   new_profile, receivers, client>>

Register(r) ==
    /\ up[r] /\ client[r] = "null"
    /\ state[r] = "AVAILABLE" \/ pending[r]
    /\ client' = [client EXCEPT ![r] = "live"]
    /\ io' = Append(io, [op |-> "register", robot |-> r, position |-> place[r],
                         profile |-> profile[r]])
    /\ UNCHANGED <<mapVars, calls, running, robotVars, boundVars, receivers>>

DropController(r) ==
    /\ client[r] = "stale"
    /\ client' = [client EXCEPT ![r] = "null"]
    /\ UNCHANGED <<mapVars, workVars, robotVars, boundVars, receivers>>

Ask(a) ==
    /\ asked < MaxRequests
    /\ asked' = asked + 1
    /\ \E r \in Recipe : \E n \in 0..(Len(Instructions[r]) - 1) :
          io' = Append(io, [op |-> "next_robot", agent |-> a, recipe |-> r,
                            steps |-> n])
    /\ UNCHANGED <<mapVars, calls, running, robotVars, answered, answer, faults, receivers,
                   client>>

Cut(m, r) == [p \in Position |->
                IF Alive(p) /\ m[p].robot = r THEN [m[p] EXCEPT !.link = "broken"]
                ELSE m[p]]
Stale(r) == IF client[r] = "live" THEN "stale" ELSE client[r]

RobotCrashes(r) ==
    /\ up[r] /\ Fault("robot")
    /\ up' = [up EXCEPT ![r] = FALSE]
    /\ known' = Cut(known, r)
    /\ UNCHANGED <<pending_swaps, registered, workVars, place, profile, goalVars,
                   pending, commits, asked, answered, answer, receivers, client>>

LinkBreaks(r) ==
    /\ up[r] /\ client[r] = "live" /\ Fault("link")
    /\ known' = Cut(known, r)
    /\ client' = [client EXCEPT ![r] = Stale(r)]
    /\ UNCHANGED <<pending_swaps, registered, workVars, robotVars, asked, answered, answer,
                   receivers>>

(* The client of a remote robot fails on its own; the robot does not know.  *)
RemoteFails(p) ==
    /\ Alive(p) /\ Fault("answer")
    /\ known' = Stop(known, p)
    /\ UNCHANGED <<pending_swaps, registered, workVars, robotVars, asked, answered,
                   answer, receivers, client>>

ReceiverBreaks(a) ==
    /\ receivers[a] = "live" /\ Fault("receiver")
    /\ receivers' = [receivers EXCEPT ![a] = "stopped"]
    /\ UNCHANGED <<mapVars, workVars, robotVars, asked, answered, answer, client>>

(* The controller crashes and starts again with nothing.                    *)
ControllerCrashes ==
    /\ Fault("controller")
    /\ known' = NoRobots /\ pending_swaps' = NoSwaps /\ registered' = 0
    /\ receivers' = [a \in Agent |-> "none"]
    /\ io' = <<>> /\ calls' = <<>> /\ running' = TRUE
    /\ client' = [r \in Robot |-> Stale(r)]
    /\ UNCHANGED <<robotVars, asked, answered, answer>>

------------------------------------------------------------------------------
WorkerStep ==
    \/ HandleRobotRegistration \/ Resolve
    \/ HandleNextRobotRequest \/ Answer \/ AnswerFails
    \/ SwitchSkipped \/ SwitchFirst \/ SwitchFirstFails
    \/ SwitchSecond \/ SwitchSecondFails
    \/ ReconfigureSkipped \/ ReconfigureCall
    \/ HandlePositionSwapped \/ Commit
    \/ HandleCapabilitiesReconfigured

RemoteStep ==
    \E p \in Position : PositionChanged(p) \/ CapabilitiesChanged(p) \/ RemoteStops(p)

RobotStep(r) ==
    \/ Move(r) \/ CompleteReconfiguration(r) \/ HandleNewPositionCommit(r)
    \/ Register(r) \/ DropController(r)

Disturbance ==
    \/ \E a \in Agent : Ask(a) \/ ReceiverBreaks(a)
    \/ \E r \in Robot : RobotCrashes(r) \/ LinkBreaks(r)
    \/ \E p \in Position : RemoteFails(p)
    \/ ControllerCrashes

Next == \/ WorkerStep \/ RemoteStep
        \/ \E r \in Robot : RobotStep(r)
        \/ Disturbance

Spec == Init /\ [][Next]_vars

(* The threads of controller and robots run; nobody is obliged to ask.      *)
Fairness ==
    /\ WF_vars(WorkerStep) /\ WF_vars(RemoteStep)
    /\ \A r \in Robot : WF_vars(RobotStep(r))

FairSpec == Spec /\ Fairness

------------------------------------------------------------------------------
(* Properties.                                                              *)

RemoteType == [robot : Robot, cached : Position, profile : Profile,
               adapting : BOOLEAN, link : {"live", "broken", "stopped"}]

ASSUME NoneIsNoRemote == None \notin RemoteType

SwapKey == {k \in Position \X Position : k[1] < k[2]}
Handler ==
         [op : {"register"}, robot : Robot, position : Position, profile : Profile]
    \cup [op : {"next_robot"}, agent : Agent, recipe : Recipe, steps : Nat]
    \cup [op : {"swapped"}, old : Position, new : Position]
    \cup [op : {"reconfigured"}, at : Position]
Call ==
         [op : {"resolve"}, at : Position]
    \cup [op : {"commit"}, at : Position, robot : Robot]
    \cup [op : {"switch", "switch_second"}, from : Position, to : Position]
    \cup [op : {"reconfigure"}, at : Position, profile : Profile]
    \cup [op : {"answer"}, agent : Agent, at : Position \cup {0}]

(* Every variable keeps its type; a swap is between two positions, lower    *)
(* first, and only those two acknowledge it.                                *)
TypeOK ==
    /\ known \in [Position -> RemoteType \cup {None}]
    /\ DOMAIN pending_swaps \subseteq SwapKey
    /\ \A k \in DOMAIN pending_swaps : pending_swaps[k] \subseteq Positions(k)
    /\ receivers \in [Agent -> {"none", "live", "stopped"}]
    /\ registered \in Nat
    /\ io \in Seq(Handler) /\ calls \in Seq(Call) /\ running \in BOOLEAN
    /\ up \in [Robot -> BOOLEAN]
    /\ place \in [Robot -> Position] /\ profile \in [Robot -> Profile]
    /\ state \in [Robot -> {"AVAILABLE", "REARRANGING", "RECONFIGURING"}]
    /\ pending \in [Robot -> BOOLEAN]
    /\ target \in [Robot -> Position \cup {None}]
    /\ new_profile \in [Robot -> Profile \cup {None}]
    /\ commits \in [Robot -> Nat]
    /\ client \in [Robot -> {"live", "stale", "null"}]
    /\ asked \in Nat /\ answered \in Nat /\ faults \subseteq FaultKinds
    /\ answer \in [position : Position \cup {0}, robot : Robot \cup {None}]

(* A robot registers once more after a broken connection or a restart of the*)
(* controller.  If yet another fault occurs, a registration that waited in  *)
(* the queue may enter a position its robot has left, and an acknowledgement*)
(* of a swap that was given up is credited to the next one.                 *)
Mistaken ==
    /\ faults \cap {"link", "controller"} # {}
    /\ Cardinality(faults \ {"receiver"}) > 1

(* The branches that "should actually never be entered" (controller.cpp:342 *)
(* and 367) are not: a robot that was available a call ago does switch.     *)
NeverRefused == running \/ Mistaken

RegisteredOnce ==
    \A p, q \in Position :
        Alive(p) /\ Alive(q) /\ known[p].robot = known[q].robot => p = q

(* REGISTERED_ROBOTS is the number of robots in the map, through removals,  *)
(* refused registrations and the re-keying of swaps, and no robot the map   *)
(* still reaches is in it twice.                                            *)
RegisteredCounted ==
    /\ RegisteredOnce
    /\ registered = Cardinality({p \in Position : known[p] # None}) \/ Mistaken

(* A robot that takes orders has no adaptation before it: no commit reaches *)
(* it a second time and ends the next adaptation before it was made.  Only  *)
(* a controller that restarts, or a robot that registers once more over a   *)
(* new connection, is told to commit both by the swap and by                *)
(* resolve_missed_new_position_commit.                                      *)
AvailableIsIdle ==
    faults \subseteq {"robot", "receiver", "answer"} =>
        \A r \in Robot :
            state[r] = "AVAILABLE" => target[r] = None /\ new_profile[r] = None

(* A robot is told to work on only at a place of its own: its partner has   *)
(* left.  swap_state "tracks whether pair-wise swap is acknowledged by both *)
(* robots" (controller.hpp:720).                                            *)
CommittedPlaceIsOwn ==
    \A r \in Robot : commits[r] > 0 =>
        \A s \in Robot : up[s] /\ place[s] = place[r] => s = r

(* ... as long as only robots and receivers fail.                           *)
CommittedPlaceIsOwnUnlessCut ==
    faults \subseteq {"robot", "receiver"} => CommittedPlaceIsOwn

(* An answer names a robot that stands where the answer says and stays,     *)
(* unless the answer to a call got lost or an acknowledgement is miscredited*)
AnswersHold ==
    [][answered' # answered /\ answer'.robot # None
         /\ "answer" \notin faults /\ ~ Mistaken
        => /\ place[answer'.robot] = answer'.position
           /\ target[answer'.robot] = None]_vars

(* controller.hpp:905: a robot that waits for its commit gets it, whatever  *)
(* becomes of the controller.                                               *)
StuckRobotsResolved ==
    \A r \in Robot : Uncommitted(r) ~> ~ Uncommitted(r) \/ ~ up[r]

(* Every adaptation ends and its robot is free for orders again.            *)
AdaptationsEnd ==
    \A p \in Position :
        known[p] # None /\ known[p].adapting
          ~> known[p] = None \/ ~ known[p].adapting

(* README.md:167: every request is responded to.                            *)
RequestsAnswered == \A n \in 1..MaxRequests : asked = n ~> answered >= n

==============================================================================
