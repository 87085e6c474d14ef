------------------------------ MODULE Lifecycle ------------------------------
(***************************************************************************)
(* The life of one agent process, from its constructor to the end of main. *)
(* Every agent runs the same kinds of threads, and each class repeats the  *)
(* same protocol with small differences:                                   *)
(*   - main constructs the agent (server, discovery, peers), calls start() *)
(*     and joins the threads; SIGINT and SIGTERM interrupt it with stop(); *)
(*   - discovery renews the entry at the discovery server;                 *)
(*   - server, client, worker and, in the kitchen, scan loop while         *)
(*     running_; the worker runs the handlers of io_context_ and ends the  *)
(*     agent itself when an answer is not what it expects.                 *)
(* What the handlers do to the agent's own state is in Robot, Conveyor,    *)
(* Controller and Kitchen; here a handler is a call under client_mutex_.   *)
(* A signal is delivered to the main thread, and one at a time.            *)
(***************************************************************************)
EXTENDS Naturals, Sequences

CONSTANTS Agents,       \* the classes looked at
          MaxSignals,   \* bound: signals sent to the process
          MaxFaults     \* bound: outages of the discovery server, lost
                        \* calls and broken connections

ASSUME LifecycleAssumption ==
    /\ Agents \subseteq {"robot", "conveyor", "kitchen", "controller"}
    /\ {MaxSignals, MaxFaults} \subseteq Nat

VARIABLES
    agent,         \* the class this process runs; it never changes
    main,          \* where the main thread is
    at,            \* where each other thread is
    stopping,      \* where each caller of stop() is in it
    client_mutex,  \* who holds client_mutex_
    running,       \* running_ of the agent
    context,       \* does io_context_ still run handlers?
    discovering,   \* running_ of discovery_util
    clients,       \* the peers whose UA_Client is connected
    remotes,       \* has the kitchen remote robots, which use its server?
    freed,         \* is the UA_Server deleted?
    process,       \* external: alive, returned from main, or killed
    listed,        \* external: the discovery server lists the agent
    reachable,     \* external: the discovery server answers
    deregistered,  \* history: a deregistration was answered
    signals, faults   \* counters of the bounds

flagVars  == <<running, context, discovering>>
linkVars  == <<clients, remotes, freed>>
entryVars == <<listed, deregistered, reachable>>
boundVars == <<signals, faults>>
vars == <<agent, main, at, stopping, client_mutex, flagVars, linkVars,
          process, entryVars, boundVars>>

------------------------------------------------------------------------------
(* What the four classes do differently.                                    *)

Loops   == {"discovery", "server", "client", "worker", "scan"}
Callers == {"main", "handler", "worker"}
Peers   == {"controller", "conveyor", "kitchen"}

(* robot and kitchen lock client_mutex_ in stop(), since their worker waits *)
(* on its condition for the peer it calls.                                  *)
Waits == agent \in {"robot", "kitchen"}
CalledPeer == IF agent = "robot" THEN "conveyor" ELSE "controller"

(* The peers a constructor connects to, one after the other.                *)
RobotPeers    == <<"controller", "conveyor">>
ConveyorPeers == <<"controller", "kitchen">>
KitchenPeers  == <<"controller", "conveyor">>

(* The threads start() creates, and those join_threads waits for.           *)
Spawned == CASE agent = "kitchen"    -> <<"client", "worker", "scan">>
             [] agent = "controller" -> <<"worker">>
             [] OTHER                -> <<"client", "worker">>
RobotJoins      == <<"server", "worker", "client">>
ConveyorJoins   == <<"server", "client", "worker">>
KitchenJoins_NoScan == <<"server", "client", "worker">>
KitchenJoins    == <<"server", "client", "scan", "worker">>
ControllerJoins == <<"server", "worker">>
Joined == CASE agent = "robot"    -> RobotJoins
            [] agent = "conveyor" -> ConveyorJoins
            [] agent = "kitchen"  -> KitchenJoins
            [] OTHER              -> ControllerJoins

Init ==
    /\ agent \in Agents
    /\ main = "setup"
    /\ at = [t \in Loops |-> "unborn"]
    /\ stopping = [c \in Callers |-> "no"]
    /\ client_mutex = "free"
    /\ running = TRUE /\ context = TRUE /\ discovering = TRUE
    /\ clients = {} /\ remotes = FALSE /\ freed = FALSE
    /\ process = "alive"
    /\ listed = FALSE /\ reachable = TRUE /\ deregistered = FALSE
    /\ signals = 0 /\ faults = 0

------------------------------------------------------------------------------
(* Helpers.                                                                 *)

Alive == process = "alive"

(* The main thread is not in stop() and its signal handler does not run.    *)
Main(place) ==
    Alive /\ main = place /\ stopping["main"] = "no"
          /\ stopping["handler"] = "no"
GoTo(place) == main' = place
CallStop == stopping' = [stopping EXCEPT !["main"] = "flag"]

Thread(t, place) ==
    Alive /\ at[t] = place
          /\ (t = "worker" => stopping["worker"] = "no")
Move(t, place) == at' = [at EXCEPT ![t] = place]
Joinable(t) == at[t] \notin {"unborn", "joined"}

Lock(t)   == client_mutex = "free" /\ client_mutex' = t
Unlock_Never(t) == client_mutex = t /\ UNCHANGED client_mutex
Unlock(t) == client_mutex = t /\ client_mutex' = "free"

(* notify_all of the condition the worker waits on: it takes the lock again.*)
Notified == [at EXCEPT !["worker"] = IF @ = "waiting" THEN "locking" ELSE @]

(* Something fails, at most MaxFaults times.                                *)
Fault == faults < MaxFaults /\ faults' = faults + 1

(* A lookup at the discovery server; whether the peer is found and accepts  *)
(* the connection is left open.                                             *)
discover_and_connect(p) == reachable /\ clients' = clients \cup {p}

MainStep == UNCHANGED <<agent, at, client_mutex, flagVars, remotes, freed,
                        process, entryVars, signals>>

------------------------------------------------------------------------------
(* Construction, in the main thread.                                        *)

(* A step of the server's setup fails and the constructor returns, most     *)
(* often with running_ cleared; the kitchen's never clears it, but calls    *)
(* stop() where an attribute cannot be set.                                 *)
SetupFails ==
    /\ Main("setup")
    /\ GoTo("constructed")
    /\ running' \in CASE agent = "kitchen"  -> {TRUE}
                       [] agent = "conveyor" -> {TRUE, FALSE}
                       [] OTHER              -> {FALSE}
    /\ UNCHANGED <<agent, at, stopping, client_mutex, context, discovering,
                   linkVars, process, entryVars, boundVars>>

KitchenSetupStops ==
    /\ agent = "kitchen" /\ Main("setup")
    /\ CallStop /\ GoTo("constructed")
    /\ UNCHANGED <<clients, faults>> /\ MainStep

(* register_server_repeatedly and the server thread.                        *)
SetUp(next) ==
    /\ Main("setup")
    /\ at' = [at EXCEPT !["discovery"] = "top", !["server"] = "top"]
    /\ GoTo(next)
    /\ UNCHANGED <<agent, stopping, client_mutex, flagVars, linkVars,
                   process, entryVars, boundVars>>

RobotSetUp      == agent = "robot" /\ SetUp("connect")
ConveyorSetUp   == agent = "conveyor" /\ SetUp("connect")
KitchenSetUp    == agent = "kitchen" /\ SetUp("connect")
ControllerSetUp == agent = "controller" /\ SetUp("constructed")

(* The next peer is connected.  The constructor gives up when the method it *)
(* calls there is not found; the kitchen calls none of its second peer.     *)
Connect(order) ==
    /\ Main("connect")
    /\ \E i \in DOMAIN order :
         /\ \A j \in DOMAIN order : order[j] \in clients <=> j < i
         /\ discover_and_connect(order[i])
         /\ \/ /\ GoTo(IF i = Len(order) THEN "constructed" ELSE "connect")
               /\ UNCHANGED stopping
            \/ /\ <<agent, order[i]>> # <<"kitchen", "conveyor">>
               /\ CallStop /\ GoTo("constructed")
    /\ UNCHANGED faults /\ MainStep

RobotConnects    == agent = "robot" /\ Connect(RobotPeers)
ConveyorConnects == agent = "conveyor" /\ Connect(ConveyorPeers)
KitchenConnects  == agent = "kitchen" /\ Connect(KitchenPeers)

(* main stores the instance's address for its signal handler.               *)
AssignInstance ==
    /\ Main("constructed") /\ GoTo("start")
    /\ UNCHANGED <<stopping, clients, faults>> /\ MainStep

------------------------------------------------------------------------------
(* start(), in the main thread.                                             *)

(* robot and kitchen return when the constructor gave up; conveyor and      *)
(* controller call stop() and go on.                                        *)
Start(next, otherwise) ==
    /\ Main("start")
    /\ IF running
       THEN GoTo(next) /\ UNCHANGED stopping
       ELSE GoTo(otherwise) /\ CallStop
    /\ UNCHANGED <<clients, faults>> /\ MainStep

RobotStarts      == agent = "robot" /\ Start("lookup", "destroy")
KitchenStarts    == agent = "kitchen" /\ Start("lookup", "destroy")
ConveyorStarts   == agent = "conveyor" /\ Start("lookup", "lookup")
ControllerStarts == agent = "controller" /\ Start("spawn", "spawn")

(* The loop that looks up the own endpoint.                                 *)
LookUp(next) ==
    /\ Main("lookup")
    /\ \/ running /\ reachable /\ listed /\ GoTo(next) /\ UNCHANGED stopping
       \/ ~running /\ GoTo("destroy") /\ CallStop
    /\ UNCHANGED <<clients, faults>> /\ MainStep

RobotLooksUp    == agent = "robot" /\ LookUp("register")
ConveyorLooksUp == agent = "conveyor" /\ LookUp("spawn")
KitchenLooksUp  == agent = "kitchen" /\ LookUp("spawn")

(* The robot registers before it has a client thread.  A failed call drops  *)
(* the client and looks for the controller once; without a client the loop  *)
(* does nothing until running_ falls.                                       *)
RegisterAnswered ==
    /\ "controller" \in clients /\ running
    /\ GoTo("spawn") /\ UNCHANGED <<stopping, clients, faults>>
RegisterFails ==
    /\ "controller" \in clients /\ Fault
    /\ \/ clients' = clients \ {"controller"}
       \/ discover_and_connect("controller")
    /\ UNCHANGED <<main, stopping>>
RegisterEnds ==
    /\ ~running
    /\ GoTo("destroy") /\ CallStop /\ UNCHANGED <<clients, faults>>

RobotRegisters ==
    /\ agent = "robot" /\ Main("register")
    /\ RegisterAnswered \/ RegisterFails \/ RegisterEnds
    /\ MainStep

(* start() creates its threads one after the other, then joins them.        *)
Spawn ==
    /\ Main("spawn")
    /\ \E i \in DOMAIN Spawned :
         /\ \A j \in DOMAIN Spawned : at[Spawned[j]] = "unborn" <=> j >= i
         /\ Move(Spawned[i], "top")
         /\ GoTo(IF i = Len(Spawned) THEN "join" ELSE "spawn")
    /\ UNCHANGED <<agent, stopping, client_mutex, flagVars, linkVars,
                   process, entryVars, boundVars>>

(* join_threads waits for the first thread of the list still joinable.      *)
JoinThread ==
    /\ Main("join") \/ Main("rejoin")
    /\ \E i \in DOMAIN Joined :
         /\ at[Joined[i]] = "ended"
         /\ \A j \in 1..(i - 1) : ~Joinable(Joined[j])
         /\ Move(Joined[i], "joined")
    /\ UNCHANGED <<agent, main, stopping, client_mutex, flagVars, linkVars,
                   process, entryVars, boundVars>>

JoinReturns ==
    /\ \/ Main("join") /\ GoTo("destroy")
       \/ Main("rejoin") /\ GoTo("clear")
    /\ \A i \in DOMAIN Joined : ~Joinable(Joined[i])
    /\ UNCHANGED <<stopping, clients, faults>> /\ MainStep

------------------------------------------------------------------------------
(* stop(), called by main, by its signal handler or by the worker.          *)

Stopping(c, place) ==
    /\ Alive /\ stopping[c] = place
    /\ c = "main" => stopping["handler"] = "no"
StopGoes(c, place) == stopping' = [stopping EXCEPT ![c] = place]

(* robot and kitchen clear running_ and notify under client_mutex_, the     *)
(* other two clear it without a lock.                                       *)
ClearLocked_NoLock == running' = FALSE /\ at' = Notified
ClearLocked   == client_mutex = "free" /\ running' = FALSE /\ at' = Notified
ClearUnlocked == running' = FALSE /\ UNCHANGED at

RobotStops      == agent = "robot" /\ ClearLocked
KitchenStops    == agent = "kitchen" /\ ClearLocked
ConveyorStops   == agent = "conveyor" /\ ClearUnlocked
ControllerStops == agent = "controller" /\ ClearUnlocked

StopFlag(c) ==
    /\ Stopping(c, "flag")
    /\ RobotStops \/ KitchenStops \/ ConveyorStops \/ ControllerStops
    /\ StopGoes(c, "context")
    /\ UNCHANGED <<agent, main, client_mutex, context, discovering, linkVars,
                   process, entryVars, boundVars>>

StopContext(c) ==
    /\ Stopping(c, "context")
    /\ context' = FALSE
    /\ StopGoes(c, "discovery")
    /\ UNCHANGED <<agent, main, at, client_mutex, running, discovering,
                   linkVars, process, entryVars, boundVars>>

StopDiscovery_Silently(c) ==
    /\ Stopping(c, "discovery")
    /\ discovering' = FALSE
    /\ StopGoes(c, "join")
    /\ UNCHANGED <<agent, main, at, client_mutex, running, context, linkVars,
                   process, entryVars, boundVars>>

(* discovery_util::stop: flag and notification under discovery_mutex_.      *)
StopDiscovery(c) ==
    /\ Stopping(c, "discovery")
    /\ discovering' = FALSE
    /\ IF at["discovery"] = "waiting"
       THEN Move("discovery", "top") ELSE UNCHANGED at
    /\ StopGoes(c, "join")
    /\ UNCHANGED <<agent, main, client_mutex, running, context, linkVars,
                   process, entryVars, boundVars>>

JoinDiscovery_Later(c) ==
    /\ Stopping(c, "join")
    /\ StopGoes(c, "deregister")
    /\ UNCHANGED <<agent, main, at, client_mutex, flagVars, linkVars,
                   process, entryVars, boundVars>>

(* Joining a thread another caller is joining throws; nobody catches it.    *)
JoinDiscovery(c) ==
    /\ Stopping(c, "join")
    /\ IF ~Joinable("discovery")
       THEN StopGoes(c, "deregister") /\ UNCHANGED process
       ELSE IF \E d \in Callers \ {c} : stopping[d] = "joining"
       THEN process' = "killed" /\ UNCHANGED stopping
       ELSE StopGoes(c, "joining") /\ UNCHANGED process
    /\ UNCHANGED <<agent, main, at, client_mutex, flagVars, linkVars,
                   entryVars, boundVars>>

DiscoveryJoined(c) ==
    /\ Stopping(c, "joining")
    /\ at["discovery"] = "ended"
    /\ Move("discovery", "joined")
    /\ StopGoes(c, "deregister")
    /\ UNCHANGED <<agent, main, client_mutex, flagVars, linkVars, process,
                   entryVars, boundVars>>

(* deregister_server; its result is not looked at.                          *)
Deregister(c) ==
    /\ Stopping(c, "deregister")
    /\ listed' = (listed /\ ~reachable)
    /\ deregistered' = (deregistered \/ reachable)
    /\ StopGoes(c, "no")
    /\ UNCHANGED <<agent, main, at, client_mutex, flagVars, linkVars,
                   process, reachable, boundVars>>

Stop(c) ==
    \/ StopFlag(c) \/ StopContext(c) \/ StopDiscovery(c)
    \/ JoinDiscovery(c) \/ DiscoveryJoined(c) \/ Deregister(c)

------------------------------------------------------------------------------
(* The destructor, in the main thread after start() has returned.           *)

(* The robot only clears running_, the others call stop() once more.        *)
RobotDestroyed ==
    /\ agent = "robot" /\ Main("destroy")
    /\ running' = FALSE /\ GoTo("rejoin")
    /\ UNCHANGED <<agent, at, stopping, client_mutex, context, discovering,
                   linkVars, process, entryVars, boundVars>>

DestroyedByStop ==
    /\ Main("destroy")
    /\ CallStop /\ GoTo("rejoin")
    /\ UNCHANGED <<clients, faults>> /\ MainStep

ConveyorDestroyed   == agent = "conveyor" /\ DestroyedByStop
KitchenDestroyed    == agent = "kitchen" /\ DestroyedByStop
ControllerDestroyed == agent = "controller" /\ DestroyedByStop

(* The peers' clients are deleted, the kitchen's remote robots before them. *)
ClearRemotes ==
    /\ Main("clear")
    /\ remotes' = FALSE /\ clients' = {}
    /\ GoTo("delete")
    /\ UNCHANGED <<agent, at, stopping, client_mutex, flagVars, freed,
                   process, entryVars, boundVars>>

DeleteServer ==
    /\ Main("delete")
    /\ freed' = TRUE
    /\ GoTo("leave")
    /\ UNCHANGED <<agent, at, stopping, client_mutex, flagVars, clients,
                   remotes, process, entryVars, boundVars>>

LeaveMain ==
    /\ Main("leave")
    /\ process' = "returned"
    /\ UNCHANGED <<agent, main, at, stopping, client_mutex, flagVars, linkVars,
                   entryVars, boundVars>>

------------------------------------------------------------------------------
(* The discovery thread.                                                    *)

DiscoveryStep == UNCHANGED <<agent, main, stopping, client_mutex, flagVars,
                             linkVars, process, reachable, deregistered,
                             boundVars>>

DiscoveryLoops ==
    /\ Thread("discovery", "top")
    /\ Move("discovery", IF discovering THEN "busy" ELSE "ended")
    /\ UNCHANGED listed /\ DiscoveryStep

(* register_server; after a failure the thread sleeps and tries again.      *)
RegisterServer ==
    /\ Thread("discovery", "busy")
    /\ listed' = (listed \/ reachable)
    /\ Move("discovery", IF reachable THEN "registered" ELSE "top")
    /\ DiscoveryStep

(* Under discovery_mutex_: wait, unless stop() has been called meanwhile.   *)
AwaitRenewal ==
    /\ Thread("discovery", "registered")
    /\ Move("discovery", IF discovering THEN "waiting" ELSE "top")
    /\ UNCHANGED listed /\ DiscoveryStep

RenewalDue ==
    /\ Thread("discovery", "waiting")
    /\ Move("discovery", "top")
    /\ UNCHANGED listed /\ DiscoveryStep

------------------------------------------------------------------------------
(* The loops of the other threads.                                          *)

LoopStep == UNCHANGED <<agent, main, flagVars, freed, process, entryVars,
                        signals>>

(* The server and the scan thread leave their loops with running_, the      *)
(* worker with io_context_.                                                 *)
LoopEnds(t) ==
    /\ Thread(t, "top")
    /\ IF t = "worker" THEN ~context ELSE ~running
    /\ Move(t, "ended")
    /\ UNCHANGED <<stopping, client_mutex, clients, remotes, faults>>
    /\ LoopStep

(* One round of the client thread, under client_mutex_, which it takes      *)
(* after it has looked at running_.                                         *)
ClientLoops ==
    /\ Thread("client", "top") /\ running
    /\ Move("client", "locking")
    /\ UNCHANGED <<stopping, client_mutex, clients, remotes, faults>>
    /\ LoopStep

ClientLocks ==
    /\ Thread("client", "locking")
    /\ Lock("client") /\ Move("client", "busy")
    /\ UNCHANGED <<stopping, clients, remotes, faults>> /\ LoopStep

(* Both peers are iterated, or a connection breaks or is made again, which  *)
(* a waiting worker is told.                                                *)
ClientIterates ==
    /\ Thread("client", "busy") /\ Unlock("client")
    /\ Move("client", "top")
    /\ UNCHANGED <<stopping, clients, remotes, faults>> /\ LoopStep

ClientLosesPeer ==
    /\ Thread("client", "busy") /\ Unlock("client")
    /\ Fault
    /\ \E p \in clients : clients' = clients \ {p}
    /\ Move("client", "top")
    /\ UNCHANGED <<stopping, remotes>> /\ LoopStep

ClientReconnects(p) ==
    /\ Thread("client", "busy") /\ Unlock("client")
    /\ p \notin clients /\ discover_and_connect(p)
    /\ at' = [(IF p = CalledPeer THEN Notified ELSE at)
                 EXCEPT !["client"] = "top"]
    /\ UNCHANGED <<stopping, remotes, faults>> /\ LoopStep

(* The worker takes the next handler, one that calls a peer; a handler that *)
(* has been woken calls it again.                                           *)
HandlerBegins ==
    /\ agent # "controller"
    /\ Thread("worker", "top") /\ context
    /\ Move("worker", "locking")
    /\ UNCHANGED <<stopping, client_mutex, clients, remotes, faults>>
    /\ LoopStep

HandlerLocks ==
    /\ Thread("worker", "locking")
    /\ Lock("worker") /\ Move("worker", "busy")
    /\ UNCHANGED <<stopping, clients, remotes, faults>> /\ LoopStep

HandlerAnswered ==
    /\ Thread("worker", "busy") /\ Unlock("worker")
    /\ CalledPeer \in clients
    /\ Move("worker", "top")
    /\ UNCHANGED <<stopping, clients, remotes, faults>> /\ LoopStep

(* The answer is refused or malformed: the handler calls stop(), with the   *)
(* lock released.                                                           *)
HandlerStops ==
    /\ Thread("worker", "busy") /\ Unlock("worker")
    /\ CalledPeer \in clients /\ running
    /\ Move("worker", "top")
    /\ stopping' = [stopping EXCEPT !["worker"] = "flag"]
    /\ UNCHANGED <<clients, remotes, faults>> /\ LoopStep

(* The call fails.  A worker of a running robot or kitchen drops the client *)
(* and waits for the client thread to connect again; it looks at running_   *)
(* and begins to wait under the same lock.                                  *)
HandlerFails ==
    /\ Thread("worker", "busy")
    /\ \/ CalledPeer \notin clients /\ UNCHANGED faults
       \/ CalledPeer \in clients /\ Fault
    /\ clients' = IF running THEN clients \ {CalledPeer} ELSE clients
    /\ IF Waits /\ running
       THEN Move("worker", "failed") /\ UNCHANGED client_mutex
       ELSE Move("worker", "top") /\ Unlock("worker")
    /\ UNCHANGED <<stopping, remotes>> /\ LoopStep

HandlerWaits ==
    /\ Thread("worker", "failed") /\ Unlock("worker")
    /\ Move("worker", "waiting")
    /\ UNCHANGED <<stopping, clients, remotes, faults>> /\ LoopStep

(* A handler of the kitchen that meets a new robot makes a remote_robot.    *)
HandlerAddsRemote ==
    /\ agent = "kitchen" /\ Thread("worker", "top") /\ context
    /\ remotes' = TRUE
    /\ UNCHANGED <<at, stopping, client_mutex, clients, faults>> /\ LoopStep

------------------------------------------------------------------------------
(* The environment.                                                         *)

(* SIGINT or SIGTERM.  The handler calls stop() through the stored address: *)
(* before the constructor has returned it is null, and after the server is  *)
(* deleted stop() works on a destroyed agent.                               *)
Signal ==
    /\ Alive /\ signals < MaxSignals /\ signals' = signals + 1
    /\ \/ /\ main \in {"setup", "connect", "constructed", "leave"}
          /\ process' = "killed" /\ UNCHANGED stopping
       \/ /\ main \notin {"setup", "connect", "constructed", "leave"}
          /\ stopping["handler"] = "no"
          /\ stopping' = [stopping EXCEPT !["handler"] = "flag"]
          /\ UNCHANGED process
    /\ UNCHANGED <<agent, main, at, client_mutex, flagVars, linkVars,
                   entryVars, faults>>

DirectoryGoes ==
    /\ reachable /\ Fault
    /\ reachable' = FALSE
    /\ UNCHANGED <<agent, main, at, stopping, client_mutex, flagVars,
                   linkVars, process, listed, deregistered, signals>>
DirectoryReturns ==
    /\ ~reachable /\ reachable' = TRUE
    /\ UNCHANGED <<agent, main, at, stopping, client_mutex, flagVars,
                   linkVars, process, listed, deregistered, boundVars>>

------------------------------------------------------------------------------

Construction == \/ SetupFails \/ KitchenSetupStops \/ RobotSetUp
                \/ ConveyorSetUp \/ KitchenSetUp \/ ControllerSetUp
                \/ RobotConnects \/ ConveyorConnects \/ KitchenConnects
                \/ AssignInstance
Starting == \/ RobotStarts \/ KitchenStarts \/ ConveyorStarts
            \/ ControllerStarts \/ RobotLooksUp \/ ConveyorLooksUp
            \/ KitchenLooksUp \/ RobotRegisters \/ Spawn
            \/ JoinThread \/ JoinReturns
Destruction == \/ RobotDestroyed \/ ConveyorDestroyed \/ KitchenDestroyed
               \/ ControllerDestroyed \/ ClearRemotes \/ DeleteServer
               \/ LeaveMain
MainThread == Construction \/ Starting \/ Destruction

Discovery == DiscoveryLoops \/ RegisterServer \/ AwaitRenewal
Client == \/ ClientLoops \/ ClientLocks \/ ClientIterates
          \/ ClientLosesPeer \/ \E p \in Peers : ClientReconnects(p)
          \/ LoopEnds("client")
Worker == \/ HandlerLocks \/ HandlerAnswered \/ HandlerStops
          \/ HandlerFails \/ HandlerWaits \/ LoopEnds("worker")
Environment == Signal \/ DirectoryGoes \/ DirectoryReturns

Next ==
    \/ MainThread
    \/ \E c \in Callers : Stop(c)
    \/ Discovery \/ RenewalDue
    \/ LoopEnds("server") \/ LoopEnds("scan")
    \/ Client \/ Worker \/ HandlerBegins \/ HandlerAddsRemote
    \/ Environment

(* Every thread the system schedules goes on, a call under client_mutex_    *)
(* returns by its timeout, and a caller of stop() gets the mutex: its       *)
(* holders release it again and again and sleep in between.  Nothing is     *)
(* assumed of handlers, signals, peers, the discovery server or the 300 s   *)
(* timeout.                                                                 *)
Fairness ==
    /\ WF_vars(MainThread) /\ WF_vars(Discovery)
    /\ WF_vars(Client) /\ WF_vars(Worker)
    /\ \A t \in {"server", "scan"} : WF_vars(LoopEnds(t))
    /\ \A c \in Callers : WF_vars(Stop(c)) /\ SF_vars(StopFlag(c))

Spec == Init /\ [][Next]_vars /\ Fairness

------------------------------------------------------------------------------
(* Properties.                                                              *)

MainPlaces == {"setup", "connect", "constructed", "start", "lookup",
               "register", "spawn", "join", "destroy", "rejoin", "clear",
               "delete", "leave"}
ThreadPlaces == {"unborn", "top", "busy", "registered", "locking", "failed",
                 "waiting", "ended", "joined"}
StopPlaces == {"no", "flag", "context", "discovery", "join", "joining",
               "deregister"}

(* The type invariant: where the threads are, the flags and the links; who  *)
(* holds client_mutex_ is where it may hold it.                             *)
TypeOK ==
    /\ agent \in Agents /\ main \in MainPlaces
    /\ at \in [Loops -> ThreadPlaces]
    /\ stopping \in [Callers -> StopPlaces]
    /\ client_mutex = IF at["client"] = "busy" THEN "client"
                      ELSE IF at["worker"] \in {"busy", "failed"} THEN "worker"
                      ELSE "free"
    /\ {running, context, discovering, remotes, freed} \subseteq BOOLEAN
    /\ clients \subseteq Peers
    /\ process \in {"alive", "returned", "killed"}
    /\ {listed, reachable, deregistered} \subseteq BOOLEAN
    /\ {signals, faults} \subseteq Nat

(* A worker of a robot or of the kitchen that waits for its peer waits in a *)
(* running agent, without a connection: whoever stops the agent or connects *)
(* again wakes it, and none of the two can slip in between its last look at *)
(* running_ and its wait.                                                   *)
NoLostWakeup ==
    at["worker"] = "waiting" => running /\ CalledPeer \notin clients

(* Once a deregistration has been answered the agent is never listed again: *)
(* stop() ends the thread that renews the entry before it deregisters, so   *)
(* no renewal under way arrives after it.                                   *)
DeregisteredForGood == deregistered => ~listed

(* The UA_Server is deleted last: no thread that uses it is left, whoever   *)
(* called stop() and wherever construction or start() gave up; the          *)
(* kitchen's remote robots, which write to it, are gone as well, as the     *)
(* comment in its destructor demands.                                       *)
ServerFreedLast ==
    freed => /\ \A t \in Loops : ~Joinable(t)
             /\ ~remotes

(* Whoever calls stop(), in whatever phase, the process ends: no thread is  *)
(* left waiting for a peer, for the next renewal or for another thread.     *)
StopEndsProcess ==
    (\E c \in Callers : stopping[c] # "no") ~> process # "alive"
==============================================================================
