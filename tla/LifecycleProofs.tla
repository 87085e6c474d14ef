--------------------------- MODULE LifecycleProofs ---------------------------
(***************************************************************************)
(* Theorems about Lifecycle, for every set of agents and every number of   *)
(* signals and faults.  The inductive invariant LifecycleInv adds to the   *)
(* properties where each thread may be while main is in a phase, and who   *)
(* still has to join the thread that renews the entry.                     *)
(***************************************************************************)
EXTENDS Lifecycle, TLAPS

(* client_mutex_ has one holder.                                            *)
MutexExclusive ==
    at["client"] = "busy" => at["worker"] \notin {"busy", "failed"}

(* Nothing runs, and nobody stops, before the constructor has set the       *)
(* server up.                                                               *)
NothingBeforeSetup ==
    main = "setup" => /\ \A c \in Callers : stopping[c] = "no"
                      /\ \A t \in Loops : at[t] = "unborn"
                      /\ running /\ ~deregistered

(* The worker lives while main is in start(); it stops the agent from a     *)
(* handler that is over, and it waits only in a running agent without its   *)
(* peer.                                                                    *)
WorkerPhases ==
    /\ main \notin {"spawn", "join"} => ~Joinable("worker")
    /\ stopping["worker"] # "no" => at["worker"] = "top"
    /\ at["worker"] \in {"failed", "waiting"}
         => Waits /\ running /\ CalledPeer \notin clients

(* The server and the discovery thread start together; the server ends when *)
(* the agent no longer runs.                                                *)
ServerPhases ==
    /\ at["server"] = "unborn" <=> at["discovery"] = "unborn"
    /\ at["server"] \in {"ended", "joined"} => ~running

(* The agent deregisters after its discovery thread; once it no longer runs *)
(* the thread is gone or a caller of stop() will join it; main is past      *)
(* start() only when it runs no more, or is about to stop it.               *)
StopUnderWay ==
    \E c \in Callers : stopping[c] \in {"context", "discovery", "join",
                                        "joining"}
DiscoveryPhases ==
    /\ deregistered \/ (\E c \in Callers : stopping[c] = "deregister")
         => ~Joinable("discovery")
    /\ ~running => ~Joinable("discovery") \/ StopUnderWay
    /\ main \in {"destroy", "rejoin", "clear", "delete", "leave"}
         => ~running \/ ~Joinable("discovery") \/ stopping["main"] = "flag"
    /\ deregistered => ~listed

(* The conveyor and the robot have no scan thread, the controller no client *)
(* thread either; the server is deleted after everything else.              *)
EndPhases ==
    /\ agent # "kitchen" => at["scan"] = "unborn"
    /\ agent = "controller" => at["client"] = "unborn"
    /\ main \in {"clear", "delete", "leave"}
         => \A t \in Loops : ~Joinable(t)
    /\ main \in {"delete", "leave"} => ~remotes
    /\ freed => main = "leave"

LifecycleInv ==
    /\ TypeOK /\ MutexExclusive /\ NothingBeforeSetup /\ WorkerPhases
    /\ ServerPhases /\ DiscoveryPhases /\ EndPhases

------------------------------------------------------------------------------


(* The initial state, and every step: the types and client_mutex_, then    *)
(* where the threads may be, then the order in which they end.              *)

LEMMA InitEstablishes == Init => LifecycleInv
<1> SUFFICES ASSUME Init PROVE LifecycleInv
  OBVIOUS
<1> USE DEF Init, Loops, Callers
<1>1. TypeOK
  <2>1. {signals, faults} \subseteq Nat
    OBVIOUS
  <2>2. at \in [Loops -> ThreadPlaces] /\ stopping \in [Callers -> StopPlaces]
    BY DEF ThreadPlaces, StopPlaces
  <2> QED
    BY <2>1, <2>2 DEF TypeOK, MainPlaces
<1>2. MutexExclusive /\ NothingBeforeSetup
  BY DEF MutexExclusive, NothingBeforeSetup
<1>3. WorkerPhases /\ ServerPhases
  BY DEF WorkerPhases, ServerPhases, Joinable
<1>4. DiscoveryPhases /\ EndPhases
  BY DEF DiscoveryPhases, EndPhases, Joinable, StopUnderWay
<1> QED
  BY <1>1, <1>2, <1>3, <1>4 DEF LifecycleInv

LEMMA SetupFailsKeeps ==
    ASSUME LifecycleInv, SetupFails
    PROVE  LifecycleInv'
<1> USE DEF SetupFails, Main, Alive, GoTo, linkVars, entryVars, boundVars
<1>1. TypeOK'
  BY DEF LifecycleInv, TypeOK, MainPlaces
<1>2. MutexExclusive' /\ NothingBeforeSetup'
  BY DEF LifecycleInv, MutexExclusive, NothingBeforeSetup
<1>3. WorkerPhases' /\ ServerPhases'
  BY DEF LifecycleInv, WorkerPhases, ServerPhases, NothingBeforeSetup,
     Joinable
<1>4. DiscoveryPhases' /\ EndPhases'
  BY DEF LifecycleInv, DiscoveryPhases, EndPhases, NothingBeforeSetup,
     Joinable, StopUnderWay, Loops
<1> QED
  BY <1>1, <1>2, <1>3, <1>4 DEF LifecycleInv

LEMMA KitchenSetupStopsKeeps ==
    ASSUME LifecycleInv, KitchenSetupStops
    PROVE  LifecycleInv'
<1> USE DEF KitchenSetupStops, Main, Alive, GoTo, CallStop, MainStep,
    flagVars, entryVars
<1>1. TypeOK'
  BY DEF LifecycleInv, TypeOK, MainPlaces, StopPlaces
<1>2. MutexExclusive' /\ NothingBeforeSetup'
  BY DEF LifecycleInv, MutexExclusive, NothingBeforeSetup
<1>3. WorkerPhases' /\ ServerPhases'
  BY DEF LifecycleInv, WorkerPhases, ServerPhases, NothingBeforeSetup,
     Joinable, Callers, TypeOK
<1>4. DiscoveryPhases' /\ EndPhases'
  BY DEF LifecycleInv, DiscoveryPhases, EndPhases, NothingBeforeSetup,
     Joinable, StopUnderWay, Loops, Callers, TypeOK
<1> QED
  BY <1>1, <1>2, <1>3, <1>4 DEF LifecycleInv

LEMMA SetUpKeeps ==
    ASSUME NEW next \in {"connect", "constructed"}, LifecycleInv, SetUp(next)
    PROVE  LifecycleInv'
<1> USE DEF SetUp, Main, Alive, GoTo, flagVars, linkVars, entryVars, boundVars
<1>1. TypeOK'
  BY DEF LifecycleInv, TypeOK, MainPlaces, ThreadPlaces, Loops
<1>2. MutexExclusive' /\ NothingBeforeSetup'
  BY DEF LifecycleInv, MutexExclusive, NothingBeforeSetup, TypeOK, Loops
<1>3. WorkerPhases' /\ ServerPhases'
  BY DEF LifecycleInv, WorkerPhases, ServerPhases, Joinable, Loops, TypeOK
<1>4. DiscoveryPhases' /\ EndPhases'
  BY DEF LifecycleInv, DiscoveryPhases, EndPhases, NothingBeforeSetup,
     StopUnderWay, Loops, TypeOK
<1> QED
  BY <1>1, <1>2, <1>3, <1>4 DEF LifecycleInv

LEMMA ConnectKeeps ==
    ASSUME NEW order \in {RobotPeers, ConveyorPeers, KitchenPeers},
           LifecycleInv, Connect(order)
    PROVE  LifecycleInv'
<1> USE DEF Connect, Main, Alive, discover_and_connect, GoTo, CallStop,
    MainStep, flagVars, entryVars
<1>0. \A i \in DOMAIN order : order[i] \in Peers
  BY DEF RobotPeers, ConveyorPeers, KitchenPeers, Peers
<1>1. TypeOK'
  <2>1. clients' \subseteq Peers
    BY <1>0 DEF LifecycleInv, TypeOK
  <2>2. stopping' \in [Callers -> StopPlaces]
    BY DEF LifecycleInv, TypeOK, StopPlaces, Callers
  <2>3. main' \in MainPlaces
    BY DEF MainPlaces
  <2> HIDE DEF Connect
  <2> QED
    BY <2>1, <2>2, <2>3 DEF Connect, LifecycleInv, TypeOK
<1>2. MutexExclusive' /\ NothingBeforeSetup'
  BY DEF LifecycleInv, MutexExclusive, NothingBeforeSetup
<1>3. WorkerPhases' /\ ServerPhases'
  BY DEF LifecycleInv, WorkerPhases, ServerPhases, Joinable, Callers, TypeOK
<1>4. DiscoveryPhases' /\ EndPhases'
  BY DEF LifecycleInv, DiscoveryPhases, EndPhases, Joinable, StopUnderWay,
     TypeOK
<1> QED
  BY <1>1, <1>2, <1>3, <1>4 DEF LifecycleInv

LEMMA AssignInstanceKeeps ==
    ASSUME LifecycleInv, AssignInstance
    PROVE  LifecycleInv'
<1> USE DEF AssignInstance, Main, Alive, GoTo, MainStep, flagVars, entryVars
<1>1. TypeOK'
  BY DEF LifecycleInv, TypeOK, MainPlaces
<1>2. MutexExclusive' /\ NothingBeforeSetup'
  BY DEF LifecycleInv, MutexExclusive, NothingBeforeSetup
<1>3. WorkerPhases' /\ ServerPhases'
  BY DEF LifecycleInv, WorkerPhases, ServerPhases, Joinable
<1>4. DiscoveryPhases' /\ EndPhases'
  BY DEF LifecycleInv, DiscoveryPhases, EndPhases, Joinable, StopUnderWay
<1> QED
  BY <1>1, <1>2, <1>3, <1>4 DEF LifecycleInv

LEMMA StartKeeps ==
    ASSUME NEW next \in {"lookup", "spawn"},
           NEW otherwise \in {"destroy", "lookup", "spawn"},
           LifecycleInv, Start(next, otherwise)
    PROVE  LifecycleInv'
<1> USE DEF Start, Main, Alive, GoTo, CallStop, MainStep, flagVars, entryVars
<1>1. TypeOK'
  BY DEF LifecycleInv, TypeOK, MainPlaces, StopPlaces
<1>2. MutexExclusive' /\ NothingBeforeSetup'
  BY DEF LifecycleInv, MutexExclusive, NothingBeforeSetup
<1>3. WorkerPhases' /\ ServerPhases'
  BY DEF LifecycleInv, WorkerPhases, ServerPhases, Joinable, Callers, TypeOK
<1>4. DiscoveryPhases' /\ EndPhases'
  BY DEF LifecycleInv, DiscoveryPhases, EndPhases, Joinable, StopUnderWay,
     TypeOK
<1> QED
  BY <1>1, <1>2, <1>3, <1>4 DEF LifecycleInv

LEMMA LookUpKeeps ==
    ASSUME NEW next \in {"register", "spawn"}, LifecycleInv, LookUp(next)
    PROVE  LifecycleInv'
<1> USE DEF LookUp, Main, Alive, GoTo, CallStop, MainStep, flagVars, entryVars
<1>1. TypeOK'
  BY DEF LifecycleInv, TypeOK, MainPlaces, StopPlaces
<1>2. MutexExclusive' /\ NothingBeforeSetup'
  BY DEF LifecycleInv, MutexExclusive, NothingBeforeSetup
<1>3. WorkerPhases' /\ ServerPhases'
  BY DEF LifecycleInv, WorkerPhases, ServerPhases, Joinable, Callers, TypeOK
<1>4. DiscoveryPhases' /\ EndPhases'
  BY DEF LifecycleInv, DiscoveryPhases, EndPhases, Joinable, StopUnderWay,
     TypeOK
<1> QED
  BY <1>1, <1>2, <1>3, <1>4 DEF LifecycleInv

LEMMA RobotRegistersKeeps ==
    ASSUME LifecycleInv, RobotRegisters
    PROVE  LifecycleInv'
<1> USE DEF RobotRegisters, Main, Alive, RegisterAnswered, GoTo,
    RegisterFails, Fault, discover_and_connect, RegisterEnds, CallStop,
    MainStep, flagVars, entryVars
<1>1. TypeOK'
  BY DEF LifecycleInv, TypeOK, MainPlaces, StopPlaces
<1>2. MutexExclusive' /\ NothingBeforeSetup'
  BY DEF LifecycleInv, MutexExclusive, NothingBeforeSetup
<1>3. WorkerPhases' /\ ServerPhases'
  BY DEF LifecycleInv, WorkerPhases, ServerPhases, Joinable, Callers, TypeOK
<1>4. DiscoveryPhases' /\ EndPhases'
  BY DEF LifecycleInv, DiscoveryPhases, EndPhases, Joinable, StopUnderWay,
     TypeOK
<1> QED
  BY <1>1, <1>2, <1>3, <1>4 DEF LifecycleInv

LEMMA SpawnKeeps ==
    ASSUME LifecycleInv, Spawn
    PROVE  LifecycleInv'
<1> USE DEF Spawn, Main, Alive, Spawned, Move, GoTo, flagVars, linkVars,
    entryVars, boundVars
<1>1. TypeOK'
  BY DEF LifecycleInv, TypeOK, MainPlaces, ThreadPlaces, Loops
<1>2. MutexExclusive' /\ NothingBeforeSetup'
  BY DEF LifecycleInv, MutexExclusive, NothingBeforeSetup
<1>3. WorkerPhases' /\ ServerPhases'
  BY DEF LifecycleInv, WorkerPhases, ServerPhases, Waits, CalledPeer
<1>4. DiscoveryPhases' /\ EndPhases'
  BY DEF LifecycleInv, DiscoveryPhases, EndPhases, Joinable, StopUnderWay
<1> QED
  BY <1>1, <1>2, <1>3, <1>4 DEF LifecycleInv

LEMMA JoinThreadKeeps ==
    ASSUME LifecycleInv, JoinThread
    PROVE  LifecycleInv'
<1> USE DEF JoinThread, Main, Alive, Joined, RobotJoins, ConveyorJoins,
    KitchenJoins, ControllerJoins, Joinable, Move, flagVars, linkVars,
    entryVars, boundVars
<1>1. TypeOK'
  BY DEF LifecycleInv, TypeOK, ThreadPlaces, Loops
<1>2. MutexExclusive' /\ NothingBeforeSetup'
  BY DEF LifecycleInv, MutexExclusive, NothingBeforeSetup
<1>3. WorkerPhases' /\ ServerPhases'
  BY DEF LifecycleInv, WorkerPhases, ServerPhases, Waits, CalledPeer
<1>4. DiscoveryPhases' /\ EndPhases'
  BY DEF LifecycleInv, DiscoveryPhases, EndPhases, StopUnderWay
<1> QED
  BY <1>1, <1>2, <1>3, <1>4 DEF LifecycleInv

LEMMA JoinReturnsKeeps ==
    ASSUME LifecycleInv, JoinReturns
    PROVE  LifecycleInv'
<1> USE DEF JoinReturns, Main, Alive, GoTo, Joined, RobotJoins, ConveyorJoins,
    KitchenJoins, ControllerJoins, Joinable, MainStep, flagVars, entryVars
<1>1. TypeOK'
  BY DEF LifecycleInv, TypeOK, MainPlaces
<1>2. MutexExclusive' /\ NothingBeforeSetup'
  BY DEF LifecycleInv, MutexExclusive, NothingBeforeSetup
<1>3. WorkerPhases' /\ ServerPhases'
  BY DEF LifecycleInv, WorkerPhases, ServerPhases
<1>4. DiscoveryPhases' /\ EndPhases'
  <2>1. \A t \in {"server", "worker"} : ~Joinable(t)
    BY DEF Joinable
  <2>2. \A t \in {"client", "scan"} : ~Joinable(t)
    BY LifecycleAssumption DEF LifecycleInv, TypeOK, EndPhases, Joinable
  <2>3. ~running \/ ~Joinable("discovery")
    BY <2>1 DEF LifecycleInv, ServerPhases, Joinable
  <2>4. \A c \in Callers : stopping[c] = "no"
    BY <2>1 DEF LifecycleInv, WorkerPhases, Joinable, Callers
  <2>5. ~Joinable("discovery")
    BY <2>3, <2>4 DEF LifecycleInv, DiscoveryPhases, StopUnderWay
  <2> QED
    BY <2>1, <2>2, <2>5
       DEF LifecycleInv, DiscoveryPhases, EndPhases, Joinable, StopUnderWay,
           Loops
<1> QED
  BY <1>1, <1>2, <1>3, <1>4 DEF LifecycleInv

LEMMA StopFlagKeeps ==
    ASSUME NEW c \in Callers, LifecycleInv, StopFlag(c)
    PROVE  LifecycleInv'
<1> USE DEF StopFlag, Stopping, Alive, RobotStops, ClearLocked, Notified,
    KitchenStops, ConveyorStops, ClearUnlocked, ControllerStops, StopGoes,
    linkVars, entryVars, boundVars
<1>1. TypeOK'
  <2>1. at' \in [Loops -> ThreadPlaces]
    BY DEF LifecycleInv, TypeOK, Loops, ThreadPlaces
  <2>2. stopping' \in [Callers -> StopPlaces]
    BY DEF LifecycleInv, TypeOK, StopPlaces, Callers
  <2>3. /\ at'["client"] = "busy" <=> at["client"] = "busy"
        /\ at'["worker"] \in {"busy", "failed"}
             <=> at["worker"] \in {"busy", "failed"}
    BY DEF LifecycleInv, TypeOK, Loops
  <2> QED
    BY <2>1, <2>2, <2>3 DEF LifecycleInv, TypeOK
<1>2. MutexExclusive' /\ NothingBeforeSetup'
  BY DEF LifecycleInv, MutexExclusive, NothingBeforeSetup, TypeOK
<1>3. WorkerPhases' /\ ServerPhases'
  BY DEF LifecycleInv, WorkerPhases, ServerPhases, Joinable, Loops, Waits,
     TypeOK
<1>4. DiscoveryPhases' /\ EndPhases'
  BY DEF LifecycleInv, DiscoveryPhases, EndPhases, Joinable, StopUnderWay,
     Loops, TypeOK
<1> QED
  BY <1>1, <1>2, <1>3, <1>4 DEF LifecycleInv

LEMMA StopContextKeeps ==
    ASSUME NEW c \in Callers, LifecycleInv, StopContext(c)
    PROVE  LifecycleInv'
<1> USE DEF StopContext, Stopping, Alive, StopGoes, linkVars, entryVars,
    boundVars
<1>1. TypeOK'
  BY DEF LifecycleInv, TypeOK, StopPlaces
<1>2. MutexExclusive' /\ NothingBeforeSetup'
  BY DEF LifecycleInv, MutexExclusive, NothingBeforeSetup
<1>3. WorkerPhases' /\ ServerPhases'
  BY DEF LifecycleInv, WorkerPhases, ServerPhases, Joinable, Waits,
     CalledPeer
<1>4. DiscoveryPhases' /\ EndPhases'
  BY DEF LifecycleInv, DiscoveryPhases, EndPhases, Joinable, StopUnderWay
<1> QED
  BY <1>1, <1>2, <1>3, <1>4 DEF LifecycleInv

LEMMA StopDiscoveryKeeps ==
    ASSUME NEW c \in Callers, LifecycleInv, StopDiscovery(c)
    PROVE  LifecycleInv'
<1> USE DEF StopDiscovery, Stopping, Alive, Move, StopGoes, linkVars,
    entryVars, boundVars
<1>1. TypeOK'
  BY ZenonT(60) DEF LifecycleInv, TypeOK, ThreadPlaces, StopPlaces, Loops
<1>2. MutexExclusive' /\ NothingBeforeSetup'
  BY DEF LifecycleInv, MutexExclusive, NothingBeforeSetup, TypeOK, Loops
<1>3. WorkerPhases' /\ ServerPhases'
  BY DEF LifecycleInv, WorkerPhases, ServerPhases, Joinable, Loops, Waits,
     CalledPeer, TypeOK
<1>4. DiscoveryPhases' /\ EndPhases'
  BY DEF LifecycleInv, DiscoveryPhases, EndPhases, Joinable, StopUnderWay,
     Loops, TypeOK
<1> QED
  BY <1>1, <1>2, <1>3, <1>4 DEF LifecycleInv

LEMMA JoinDiscoveryKeeps ==
    ASSUME NEW c \in Callers, LifecycleInv, JoinDiscovery(c)
    PROVE  LifecycleInv'
<1> USE DEF JoinDiscovery, Stopping, Alive, Joinable, StopGoes, flagVars,
    linkVars, entryVars, boundVars
<1>1. TypeOK'
  BY DEF LifecycleInv, TypeOK, StopPlaces
<1>2. MutexExclusive' /\ NothingBeforeSetup'
  BY DEF LifecycleInv, MutexExclusive, NothingBeforeSetup
<1>3. WorkerPhases' /\ ServerPhases'
  BY DEF LifecycleInv, WorkerPhases, ServerPhases, Callers, Waits,
     CalledPeer, TypeOK
<1>4. DiscoveryPhases' /\ EndPhases'
  BY DEF LifecycleInv, DiscoveryPhases, EndPhases, StopUnderWay, Callers,
     TypeOK
<1> QED
  BY <1>1, <1>2, <1>3, <1>4 DEF LifecycleInv

LEMMA DiscoveryJoinedKeeps ==
    ASSUME NEW c \in Callers, LifecycleInv, DiscoveryJoined(c)
    PROVE  LifecycleInv'
<1> USE DEF DiscoveryJoined, Stopping, Alive, Move, StopGoes, flagVars,
    linkVars, entryVars, boundVars
<1>1. TypeOK'
  BY DEF LifecycleInv, TypeOK, ThreadPlaces, StopPlaces, Loops
<1>2. MutexExclusive' /\ NothingBeforeSetup'
  BY DEF LifecycleInv, MutexExclusive, NothingBeforeSetup
<1>3. WorkerPhases' /\ ServerPhases'
  BY DEF LifecycleInv, WorkerPhases, ServerPhases, Joinable, Waits,
     CalledPeer
<1>4. DiscoveryPhases' /\ EndPhases'
  BY DEF LifecycleInv, DiscoveryPhases, EndPhases, Joinable, StopUnderWay,
     Loops, TypeOK
<1> QED
  BY <1>1, <1>2, <1>3, <1>4 DEF LifecycleInv

LEMMA DeregisterKeeps ==
    ASSUME NEW c \in Callers, LifecycleInv, Deregister(c)
    PROVE  LifecycleInv'
<1> USE DEF Deregister, Stopping, Alive, StopGoes, flagVars, linkVars,
    boundVars
<1>1. TypeOK'
  BY DEF LifecycleInv, TypeOK, StopPlaces
<1>2. MutexExclusive' /\ NothingBeforeSetup'
  BY DEF LifecycleInv, MutexExclusive, NothingBeforeSetup
<1>3. WorkerPhases' /\ ServerPhases'
  BY DEF LifecycleInv, WorkerPhases, ServerPhases, Joinable, Waits,
     CalledPeer
<1>4. DiscoveryPhases' /\ EndPhases'
  BY DEF LifecycleInv, DiscoveryPhases, EndPhases, Joinable, StopUnderWay
<1> QED
  BY <1>1, <1>2, <1>3, <1>4 DEF LifecycleInv

LEMMA RobotDestroyedKeeps ==
    ASSUME LifecycleInv, RobotDestroyed
    PROVE  LifecycleInv'
<1> USE DEF RobotDestroyed, Main, Alive, GoTo, linkVars, entryVars, boundVars
<1>1. TypeOK'
  BY DEF LifecycleInv, TypeOK, MainPlaces
<1>2. MutexExclusive' /\ NothingBeforeSetup'
  BY DEF LifecycleInv, MutexExclusive, NothingBeforeSetup
<1>3. WorkerPhases' /\ ServerPhases'
  BY DEF LifecycleInv, WorkerPhases, ServerPhases, Joinable
<1>4. DiscoveryPhases' /\ EndPhases'
  BY DEF LifecycleInv, DiscoveryPhases, EndPhases, Joinable, StopUnderWay
<1> QED
  BY <1>1, <1>2, <1>3, <1>4 DEF LifecycleInv

LEMMA DestroyedByStopKeeps ==
    ASSUME LifecycleInv, DestroyedByStop
    PROVE  LifecycleInv'
<1> USE DEF DestroyedByStop, Main, Alive, CallStop, GoTo, MainStep, flagVars,
    entryVars
<1>1. TypeOK'
  BY DEF LifecycleInv, TypeOK, MainPlaces, StopPlaces
<1>2. MutexExclusive' /\ NothingBeforeSetup'
  BY DEF LifecycleInv, MutexExclusive, NothingBeforeSetup
<1>3. WorkerPhases' /\ ServerPhases'
  BY DEF LifecycleInv, WorkerPhases, ServerPhases, Joinable
<1>4. DiscoveryPhases' /\ EndPhases'
  BY DEF LifecycleInv, DiscoveryPhases, EndPhases, Joinable, StopUnderWay
<1> QED
  BY <1>1, <1>2, <1>3, <1>4 DEF LifecycleInv

LEMMA ClearRemotesKeeps ==
    ASSUME LifecycleInv, ClearRemotes
    PROVE  LifecycleInv'
<1> USE DEF ClearRemotes, Main, Alive, GoTo, flagVars, entryVars, boundVars
<1>1. TypeOK'
  BY DEF LifecycleInv, TypeOK, MainPlaces
<1>2. MutexExclusive' /\ NothingBeforeSetup'
  BY DEF LifecycleInv, MutexExclusive, NothingBeforeSetup
<1>3. WorkerPhases' /\ ServerPhases'
  BY DEF LifecycleInv, WorkerPhases, ServerPhases, Joinable
<1>4. DiscoveryPhases' /\ EndPhases'
  BY DEF LifecycleInv, DiscoveryPhases, EndPhases, Joinable, StopUnderWay
<1> QED
  BY <1>1, <1>2, <1>3, <1>4 DEF LifecycleInv

LEMMA DeleteServerKeeps ==
    ASSUME LifecycleInv, DeleteServer
    PROVE  LifecycleInv'
<1> USE DEF DeleteServer, Main, Alive, GoTo, flagVars, entryVars, boundVars
<1>1. TypeOK'
  BY DEF LifecycleInv, TypeOK, MainPlaces
<1>2. MutexExclusive' /\ NothingBeforeSetup'
  BY DEF LifecycleInv, MutexExclusive, NothingBeforeSetup
<1>3. WorkerPhases' /\ ServerPhases'
  BY DEF LifecycleInv, WorkerPhases, ServerPhases, Joinable
<1>4. DiscoveryPhases' /\ EndPhases'
  BY DEF LifecycleInv, DiscoveryPhases, EndPhases, Joinable, StopUnderWay
<1> QED
  BY <1>1, <1>2, <1>3, <1>4 DEF LifecycleInv

LEMMA LeaveMainKeeps ==
    ASSUME LifecycleInv, LeaveMain
    PROVE  LifecycleInv'
<1> USE DEF LeaveMain, Main, Alive, flagVars, linkVars, entryVars, boundVars
<1>1. TypeOK'
  BY DEF LifecycleInv, TypeOK
<1>2. MutexExclusive' /\ NothingBeforeSetup'
  BY DEF LifecycleInv, MutexExclusive, NothingBeforeSetup
<1>3. WorkerPhases' /\ ServerPhases'
  BY DEF LifecycleInv, WorkerPhases, ServerPhases, Joinable
<1>4. DiscoveryPhases' /\ EndPhases'
  BY DEF LifecycleInv, DiscoveryPhases, EndPhases, Joinable, StopUnderWay
<1> QED
  BY <1>1, <1>2, <1>3, <1>4 DEF LifecycleInv

LEMMA DiscoveryLoopsKeeps ==
    ASSUME LifecycleInv, DiscoveryLoops
    PROVE  LifecycleInv'
<1> USE DEF DiscoveryLoops, Thread, Alive, Move, DiscoveryStep, flagVars,
    linkVars, boundVars
<1>1. TypeOK'
  BY DEF LifecycleInv, TypeOK, ThreadPlaces, Loops
<1>2. MutexExclusive' /\ NothingBeforeSetup'
  BY DEF LifecycleInv, MutexExclusive, NothingBeforeSetup
<1>3. WorkerPhases' /\ ServerPhases'
  BY DEF LifecycleInv, WorkerPhases, ServerPhases, Joinable, Waits,
     CalledPeer
<1>4. DiscoveryPhases' /\ EndPhases'
  BY DEF LifecycleInv, DiscoveryPhases, EndPhases, Joinable, StopUnderWay
<1> QED
  BY <1>1, <1>2, <1>3, <1>4 DEF LifecycleInv

LEMMA RegisterServerKeeps ==
    ASSUME LifecycleInv, RegisterServer
    PROVE  LifecycleInv'
<1> USE DEF RegisterServer, Thread, Alive, Move, DiscoveryStep, flagVars,
    linkVars, boundVars
<1>1. TypeOK'
  BY DEF LifecycleInv, TypeOK, ThreadPlaces, Loops
<1>2. MutexExclusive' /\ NothingBeforeSetup'
  BY DEF LifecycleInv, MutexExclusive, NothingBeforeSetup
<1>3. WorkerPhases' /\ ServerPhases'
  BY DEF LifecycleInv, WorkerPhases, ServerPhases, Joinable, Waits,
     CalledPeer
<1>4. DiscoveryPhases' /\ EndPhases'
  BY DEF LifecycleInv, DiscoveryPhases, EndPhases, Joinable, StopUnderWay
<1> QED
  BY <1>1, <1>2, <1>3, <1>4 DEF LifecycleInv

LEMMA AwaitRenewalKeeps ==
    ASSUME LifecycleInv, AwaitRenewal
    PROVE  LifecycleInv'
<1> USE DEF AwaitRenewal, Thread, Alive, Move, DiscoveryStep, flagVars,
    linkVars, boundVars
<1>1. TypeOK'
  BY DEF LifecycleInv, TypeOK, ThreadPlaces, Loops
<1>2. MutexExclusive' /\ NothingBeforeSetup'
  BY DEF LifecycleInv, MutexExclusive, NothingBeforeSetup
<1>3. WorkerPhases' /\ ServerPhases'
  BY DEF LifecycleInv, WorkerPhases, ServerPhases, Joinable, Waits,
     CalledPeer
<1>4. DiscoveryPhases' /\ EndPhases'
  BY DEF LifecycleInv, DiscoveryPhases, EndPhases, Joinable, StopUnderWay
<1> QED
  BY <1>1, <1>2, <1>3, <1>4 DEF LifecycleInv

LEMMA RenewalDueKeeps ==
    ASSUME LifecycleInv, RenewalDue
    PROVE  LifecycleInv'
<1> USE DEF RenewalDue, Thread, Alive, Move, DiscoveryStep, flagVars,
    linkVars, boundVars
<1>1. TypeOK'
  BY DEF LifecycleInv, TypeOK, ThreadPlaces, Loops
<1>2. MutexExclusive' /\ NothingBeforeSetup'
  BY DEF LifecycleInv, MutexExclusive, NothingBeforeSetup
<1>3. WorkerPhases' /\ ServerPhases'
  BY DEF LifecycleInv, WorkerPhases, ServerPhases, Joinable, Waits,
     CalledPeer
<1>4. DiscoveryPhases' /\ EndPhases'
  BY DEF LifecycleInv, DiscoveryPhases, EndPhases, Joinable, StopUnderWay
<1> QED
  BY <1>1, <1>2, <1>3, <1>4 DEF LifecycleInv

LEMMA LoopEndsKeeps ==
    ASSUME NEW t \in {"client", "worker", "server", "scan"},
           LifecycleInv, LoopEnds(t)
    PROVE  LifecycleInv'
<1> USE DEF LoopEnds, Thread, Alive, Move, LoopStep, flagVars, entryVars
<1>1. TypeOK'
  BY DEF LifecycleInv, TypeOK, ThreadPlaces, Loops
<1>2. MutexExclusive' /\ NothingBeforeSetup'
  BY DEF LifecycleInv, MutexExclusive, NothingBeforeSetup
<1>3. WorkerPhases' /\ ServerPhases'
  BY DEF LifecycleInv, WorkerPhases, ServerPhases, Joinable
<1>4. DiscoveryPhases' /\ EndPhases'
  BY DEF LifecycleInv, DiscoveryPhases, EndPhases, Joinable, StopUnderWay
<1> QED
  BY <1>1, <1>2, <1>3, <1>4 DEF LifecycleInv

LEMMA ClientLoopsKeeps ==
    ASSUME LifecycleInv, ClientLoops
    PROVE  LifecycleInv'
<1> USE DEF ClientLoops, Thread, Alive, Move, LoopStep, flagVars, entryVars
<1>1. TypeOK'
  BY DEF LifecycleInv, TypeOK, ThreadPlaces, Loops
<1>2. MutexExclusive' /\ NothingBeforeSetup'
  BY DEF LifecycleInv, MutexExclusive, NothingBeforeSetup
<1>3. WorkerPhases' /\ ServerPhases'
  BY DEF LifecycleInv, WorkerPhases, ServerPhases, Joinable, Waits,
     CalledPeer
<1>4. DiscoveryPhases' /\ EndPhases'
  BY DEF LifecycleInv, DiscoveryPhases, EndPhases, Joinable, StopUnderWay
<1> QED
  BY <1>1, <1>2, <1>3, <1>4 DEF LifecycleInv

LEMMA ClientLocksKeeps ==
    ASSUME LifecycleInv, ClientLocks
    PROVE  LifecycleInv'
<1> USE DEF ClientLocks, Thread, Alive, Lock, Move, LoopStep, flagVars,
    entryVars
<1>1. TypeOK'
  BY DEF LifecycleInv, TypeOK, ThreadPlaces, Loops
<1>2. MutexExclusive' /\ NothingBeforeSetup'
  BY DEF LifecycleInv, MutexExclusive, NothingBeforeSetup, TypeOK
<1>3. WorkerPhases' /\ ServerPhases'
  BY DEF LifecycleInv, WorkerPhases, ServerPhases, Joinable, Waits,
     CalledPeer
<1>4. DiscoveryPhases' /\ EndPhases'
  BY DEF LifecycleInv, DiscoveryPhases, EndPhases, Joinable, StopUnderWay
<1> QED
  BY <1>1, <1>2, <1>3, <1>4 DEF LifecycleInv

LEMMA ClientIteratesKeeps ==
    ASSUME LifecycleInv, ClientIterates
    PROVE  LifecycleInv'
<1> USE DEF ClientIterates, Thread, Alive, Unlock, Move, LoopStep, flagVars,
    entryVars
<1>1. TypeOK'
  BY DEF LifecycleInv, TypeOK, MutexExclusive, ThreadPlaces, Loops
<1>2. MutexExclusive' /\ NothingBeforeSetup'
  BY DEF LifecycleInv, MutexExclusive, NothingBeforeSetup
<1>3. WorkerPhases' /\ ServerPhases'
  BY DEF LifecycleInv, WorkerPhases, ServerPhases, Joinable, Waits,
     CalledPeer
<1>4. DiscoveryPhases' /\ EndPhases'
  BY DEF LifecycleInv, DiscoveryPhases, EndPhases, Joinable, StopUnderWay
<1> QED
  BY <1>1, <1>2, <1>3, <1>4 DEF LifecycleInv

LEMMA ClientLosesPeerKeeps ==
    ASSUME LifecycleInv, ClientLosesPeer
    PROVE  LifecycleInv'
<1> USE DEF ClientLosesPeer, Thread, Alive, Unlock, Fault, Move, LoopStep,
    flagVars, entryVars
<1>1. TypeOK'
  BY DEF LifecycleInv, TypeOK, MutexExclusive, ThreadPlaces, Loops
<1>2. MutexExclusive' /\ NothingBeforeSetup'
  BY DEF LifecycleInv, MutexExclusive, NothingBeforeSetup
<1>3. WorkerPhases' /\ ServerPhases'
  BY DEF LifecycleInv, WorkerPhases, ServerPhases, Joinable, Waits,
     CalledPeer
<1>4. DiscoveryPhases' /\ EndPhases'
  BY DEF LifecycleInv, DiscoveryPhases, EndPhases, Joinable, StopUnderWay
<1> QED
  BY <1>1, <1>2, <1>3, <1>4 DEF LifecycleInv

LEMMA ClientReconnectsKeeps ==
    ASSUME NEW p \in Peers, LifecycleInv, ClientReconnects(p)
    PROVE  LifecycleInv'
<1> USE DEF ClientReconnects, Thread, Alive, Unlock, discover_and_connect,
    CalledPeer, Notified, LoopStep, flagVars, entryVars
<1>1. TypeOK'
  BY DEF LifecycleInv, TypeOK, MutexExclusive, ThreadPlaces, Loops
<1>2. MutexExclusive' /\ NothingBeforeSetup'
  BY DEF LifecycleInv, MutexExclusive, NothingBeforeSetup, TypeOK
<1>3. WorkerPhases' /\ ServerPhases'
  <2>1. \A t \in {"server", "discovery"} : at'[t] = at[t]
    BY DEF LifecycleInv, TypeOK, Loops
  <2>2. /\ \/ at'["worker"] = at["worker"]
           \/ at["worker"] = "waiting" /\ at'["worker"] = "locking"
        /\ p = CalledPeer => at'["worker"] \notin {"failed", "waiting"}
    <3>1. at["worker"] # "failed"
      BY DEF LifecycleInv, MutexExclusive
    <3>2. CASE p = CalledPeer
      <4>1. at' = [Notified EXCEPT !["client"] = "top"]
        BY <3>2
      <4>2. at'["worker"] = IF at["worker"] = "waiting" THEN "locking"
                            ELSE at["worker"]
        BY <4>1 DEF LifecycleInv, TypeOK, Loops
      <4> QED
        BY <3>1, <4>2
    <3>3. CASE p # CalledPeer
      <4>1. at' = [at EXCEPT !["client"] = "top"]
        BY <3>3
      <4> QED
        BY <3>3, <4>1 DEF LifecycleInv, TypeOK, Loops
    <3> QED
      BY <3>2, <3>3
  <2> QED
    BY <2>1, <2>2 DEF LifecycleInv, WorkerPhases, ServerPhases, Joinable,
       TypeOK, Waits
<1>4. DiscoveryPhases' /\ EndPhases'
  BY DEF LifecycleInv, DiscoveryPhases, EndPhases, Joinable, StopUnderWay,
     Loops, TypeOK
<1> QED
  BY <1>1, <1>2, <1>3, <1>4 DEF LifecycleInv

LEMMA HandlerBeginsKeeps ==
    ASSUME LifecycleInv, HandlerBegins
    PROVE  LifecycleInv'
<1> USE DEF HandlerBegins, Thread, Alive, Move, LoopStep, flagVars, entryVars
<1>1. TypeOK'
  BY DEF LifecycleInv, TypeOK, ThreadPlaces, Loops
<1>2. MutexExclusive' /\ NothingBeforeSetup'
  BY DEF LifecycleInv, MutexExclusive, NothingBeforeSetup
<1>3. WorkerPhases' /\ ServerPhases'
  BY DEF LifecycleInv, WorkerPhases, ServerPhases, Joinable
<1>4. DiscoveryPhases' /\ EndPhases'
  BY DEF LifecycleInv, DiscoveryPhases, EndPhases, Joinable, StopUnderWay
<1> QED
  BY <1>1, <1>2, <1>3, <1>4 DEF LifecycleInv

LEMMA HandlerLocksKeeps ==
    ASSUME LifecycleInv, HandlerLocks
    PROVE  LifecycleInv'
<1> USE DEF HandlerLocks, Thread, Alive, Lock, Move, LoopStep, flagVars,
    entryVars
<1>1. TypeOK'
  BY DEF LifecycleInv, TypeOK, ThreadPlaces, Loops
<1>2. MutexExclusive' /\ NothingBeforeSetup'
  BY DEF LifecycleInv, MutexExclusive, NothingBeforeSetup, TypeOK
<1>3. WorkerPhases' /\ ServerPhases'
  BY DEF LifecycleInv, WorkerPhases, ServerPhases, Joinable
<1>4. DiscoveryPhases' /\ EndPhases'
  BY DEF LifecycleInv, DiscoveryPhases, EndPhases, Joinable, StopUnderWay
<1> QED
  BY <1>1, <1>2, <1>3, <1>4 DEF LifecycleInv

LEMMA HandlerAnsweredKeeps ==
    ASSUME LifecycleInv, HandlerAnswered
    PROVE  LifecycleInv'
<1> USE DEF HandlerAnswered, Thread, Alive, Unlock, CalledPeer, Move,
    LoopStep, flagVars, entryVars
<1>1. TypeOK'
  BY DEF LifecycleInv, TypeOK, ThreadPlaces, Loops
<1>2. MutexExclusive' /\ NothingBeforeSetup'
  BY DEF LifecycleInv, MutexExclusive, NothingBeforeSetup
<1>3. WorkerPhases' /\ ServerPhases'
  BY DEF LifecycleInv, WorkerPhases, ServerPhases, Joinable
<1>4. DiscoveryPhases' /\ EndPhases'
  BY DEF LifecycleInv, DiscoveryPhases, EndPhases, Joinable, StopUnderWay
<1> QED
  BY <1>1, <1>2, <1>3, <1>4 DEF LifecycleInv

LEMMA HandlerStopsKeeps ==
    ASSUME LifecycleInv, HandlerStops
    PROVE  LifecycleInv'
<1> USE DEF HandlerStops, Thread, Alive, Unlock, CalledPeer, Move, LoopStep,
    flagVars, entryVars
<1>1. TypeOK'
  BY DEF LifecycleInv, TypeOK, ThreadPlaces, StopPlaces, Loops
<1>2. MutexExclusive' /\ NothingBeforeSetup'
  BY DEF LifecycleInv, MutexExclusive, NothingBeforeSetup, Loops
<1>3. WorkerPhases' /\ ServerPhases'
  BY DEF LifecycleInv, WorkerPhases, ServerPhases, Joinable, Loops, TypeOK
<1>4. DiscoveryPhases' /\ EndPhases'
  BY DEF LifecycleInv, DiscoveryPhases, EndPhases, Joinable, StopUnderWay
<1> QED
  BY <1>1, <1>2, <1>3, <1>4 DEF LifecycleInv

LEMMA HandlerFailsKeeps ==
    ASSUME LifecycleInv, HandlerFails
    PROVE  LifecycleInv'
<1> USE DEF HandlerFails, Thread, Alive, CalledPeer, Fault, Waits, Move,
    Unlock, LoopStep, flagVars, entryVars
<1>1. TypeOK'
  BY DEF LifecycleInv, TypeOK, ThreadPlaces, Loops
<1>2. MutexExclusive' /\ NothingBeforeSetup'
  BY DEF LifecycleInv, MutexExclusive, NothingBeforeSetup, TypeOK, Loops
<1>3. WorkerPhases' /\ ServerPhases'
  BY DEF LifecycleInv, WorkerPhases, ServerPhases, Joinable, Loops, TypeOK
<1>4. DiscoveryPhases' /\ EndPhases'
  BY DEF LifecycleInv, DiscoveryPhases, EndPhases, Joinable, StopUnderWay,
     Loops, TypeOK
<1> QED
  BY <1>1, <1>2, <1>3, <1>4 DEF LifecycleInv

LEMMA HandlerWaitsKeeps ==
    ASSUME LifecycleInv, HandlerWaits
    PROVE  LifecycleInv'
<1> USE DEF HandlerWaits, Thread, Alive, Unlock, Move, LoopStep, flagVars,
    entryVars
<1>1. TypeOK'
  BY DEF LifecycleInv, TypeOK, ThreadPlaces, Loops
<1>2. MutexExclusive' /\ NothingBeforeSetup'
  BY DEF LifecycleInv, MutexExclusive, NothingBeforeSetup
<1>3. WorkerPhases' /\ ServerPhases'
  BY DEF LifecycleInv, WorkerPhases, ServerPhases, Joinable, Waits,
     CalledPeer
<1>4. DiscoveryPhases' /\ EndPhases'
  BY DEF LifecycleInv, DiscoveryPhases, EndPhases, Joinable, StopUnderWay
<1> QED
  BY <1>1, <1>2, <1>3, <1>4 DEF LifecycleInv

LEMMA HandlerAddsRemoteKeeps ==
    ASSUME LifecycleInv, HandlerAddsRemote
    PROVE  LifecycleInv'
<1> USE DEF HandlerAddsRemote, Thread, Alive, LoopStep, flagVars, entryVars
<1>1. TypeOK'
  BY DEF LifecycleInv, TypeOK
<1>2. MutexExclusive' /\ NothingBeforeSetup'
  BY DEF LifecycleInv, MutexExclusive, NothingBeforeSetup
<1>3. WorkerPhases' /\ ServerPhases'
  BY DEF LifecycleInv, WorkerPhases, ServerPhases, Joinable
<1>4. DiscoveryPhases' /\ EndPhases'
  BY DEF LifecycleInv, DiscoveryPhases, EndPhases, Joinable, StopUnderWay,
     Loops
<1> QED
  BY <1>1, <1>2, <1>3, <1>4 DEF LifecycleInv

LEMMA SignalKeeps ==
    ASSUME LifecycleInv, Signal
    PROVE  LifecycleInv'
<1> USE DEF Signal, Alive, flagVars, linkVars, entryVars
<1>1. TypeOK'
  BY DEF LifecycleInv, TypeOK, StopPlaces
<1>2. MutexExclusive' /\ NothingBeforeSetup'
  BY DEF LifecycleInv, MutexExclusive, NothingBeforeSetup
<1>3. WorkerPhases' /\ ServerPhases'
  BY DEF LifecycleInv, WorkerPhases, ServerPhases, Joinable, Callers, Waits,
     CalledPeer, TypeOK
<1>4. DiscoveryPhases' /\ EndPhases'
  BY DEF LifecycleInv, DiscoveryPhases, EndPhases, Joinable, StopUnderWay,
     Callers, TypeOK
<1> QED
  BY <1>1, <1>2, <1>3, <1>4 DEF LifecycleInv

LEMMA DirectoryGoesKeeps ==
    ASSUME LifecycleInv, DirectoryGoes
    PROVE  LifecycleInv'
<1> USE DEF DirectoryGoes, Fault, flagVars, linkVars
<1>1. TypeOK'
  <2>1. faults' \in Nat
    BY DEF LifecycleInv, TypeOK
  <2> HIDE DEF Fault
  <2> QED
    BY <2>1 DEF LifecycleInv, TypeOK
<1>2. MutexExclusive' /\ NothingBeforeSetup'
  BY DEF LifecycleInv, MutexExclusive, NothingBeforeSetup
<1>3. WorkerPhases' /\ ServerPhases'
  BY DEF LifecycleInv, WorkerPhases, ServerPhases, Joinable, Waits,
     CalledPeer
<1>4. DiscoveryPhases' /\ EndPhases'
  BY DEF LifecycleInv, DiscoveryPhases, EndPhases, Joinable, StopUnderWay
<1> QED
  BY <1>1, <1>2, <1>3, <1>4 DEF LifecycleInv

LEMMA DirectoryReturnsKeeps ==
    ASSUME LifecycleInv, DirectoryReturns
    PROVE  LifecycleInv'
<1> USE DEF DirectoryReturns, flagVars, linkVars, boundVars
<1>1. TypeOK'
  BY DEF LifecycleInv, TypeOK
<1>2. MutexExclusive' /\ NothingBeforeSetup'
  BY DEF LifecycleInv, MutexExclusive, NothingBeforeSetup
<1>3. WorkerPhases' /\ ServerPhases'
  BY DEF LifecycleInv, WorkerPhases, ServerPhases, Joinable, Waits,
     CalledPeer
<1>4. DiscoveryPhases' /\ EndPhases'
  BY DEF LifecycleInv, DiscoveryPhases, EndPhases, Joinable, StopUnderWay
<1> QED
  BY <1>1, <1>2, <1>3, <1>4 DEF LifecycleInv

------------------------------------------------------------------------------

LEMMA NextKeeps == LifecycleInv /\ [Next]_vars => LifecycleInv'
<1> SUFFICES ASSUME LifecycleInv, [Next]_vars PROVE LifecycleInv'
  OBVIOUS
<1>1. CASE Construction
  <2>1. ASSUME SetupFails \/ KitchenSetupStops \/ RobotSetUp \/ ConveyorSetUp
                 \/ KitchenSetUp \/ ControllerSetUp PROVE LifecycleInv'
    BY <2>1, SetupFailsKeeps, KitchenSetupStopsKeeps, SetUpKeeps
       DEF RobotSetUp, ConveyorSetUp, KitchenSetUp, ControllerSetUp
  <2>2. ASSUME RobotConnects \/ ConveyorConnects \/ KitchenConnects
                 \/ AssignInstance PROVE LifecycleInv'
    BY <2>2, ConnectKeeps, AssignInstanceKeeps
       DEF RobotConnects, ConveyorConnects, KitchenConnects
  <2> QED
    BY <1>1, <2>1, <2>2 DEF Construction
<1>2. CASE Starting
  <2>1. ASSUME RobotStarts \/ KitchenStarts \/ ConveyorStarts
                 \/ ControllerStarts PROVE LifecycleInv'
    BY <2>1, StartKeeps
       DEF RobotStarts, KitchenStarts, ConveyorStarts, ControllerStarts
  <2>2. ASSUME RobotLooksUp \/ ConveyorLooksUp \/ KitchenLooksUp
        PROVE  LifecycleInv'
    BY <2>2, LookUpKeeps DEF RobotLooksUp, ConveyorLooksUp, KitchenLooksUp
  <2> QED
    BY <1>2, <2>1, <2>2, RobotRegistersKeeps, SpawnKeeps, JoinThreadKeeps,
       JoinReturnsKeeps DEF Starting
<1>3. CASE Destruction
  <2>1. ASSUME ConveyorDestroyed \/ KitchenDestroyed \/ ControllerDestroyed
        PROVE  LifecycleInv'
    BY <2>1, DestroyedByStopKeeps
       DEF ConveyorDestroyed, KitchenDestroyed, ControllerDestroyed
  <2> QED
    BY <1>3, <2>1, RobotDestroyedKeeps, ClearRemotesKeeps, DeleteServerKeeps,
       LeaveMainKeeps DEF Destruction
<1>4. ASSUME NEW c \in Callers, Stop(c) PROVE LifecycleInv'
  BY <1>4, StopFlagKeeps, StopContextKeeps, StopDiscoveryKeeps,
     JoinDiscoveryKeeps, DiscoveryJoinedKeeps, DeregisterKeeps DEF Stop
<1>5. CASE Discovery \/ RenewalDue
  BY <1>5, DiscoveryLoopsKeeps, RegisterServerKeeps, AwaitRenewalKeeps,
     RenewalDueKeeps DEF Discovery
<1>6. CASE LoopEnds("server") \/ LoopEnds("scan")
  BY <1>6, LoopEndsKeeps
<1>7. CASE Client
  BY <1>7, ClientLoopsKeeps, ClientLocksKeeps, ClientIteratesKeeps,
     ClientLosesPeerKeeps, ClientReconnectsKeeps, LoopEndsKeeps DEF Client
<1>8. CASE Worker \/ HandlerBegins \/ HandlerAddsRemote
  BY <1>8, HandlerBeginsKeeps, HandlerLocksKeeps, HandlerAnsweredKeeps,
     HandlerStopsKeeps, HandlerFailsKeeps, HandlerWaitsKeeps,
     HandlerAddsRemoteKeeps, LoopEndsKeeps DEF Worker
<1>9. CASE Environment
  BY <1>9, SignalKeeps, DirectoryGoesKeeps, DirectoryReturnsKeeps
     DEF Environment
<1>10. CASE UNCHANGED vars
  <2> USE <1>10 DEF LifecycleInv, vars, flagVars, linkVars, entryVars,
      boundVars
  <2>1. TypeOK' /\ MutexExclusive' /\ NothingBeforeSetup'
    BY DEF TypeOK, MutexExclusive, NothingBeforeSetup
  <2>2. WorkerPhases' /\ ServerPhases'
    BY DEF WorkerPhases, ServerPhases, Joinable, Waits, CalledPeer
  <2>3. DiscoveryPhases' /\ EndPhases'
    BY DEF DiscoveryPhases, EndPhases, Joinable, StopUnderWay
  <2> QED
    BY <2>1, <2>2, <2>3
<1> QED
  BY <1>1, <1>2, <1>3, <1>4, <1>5, <1>6, <1>7, <1>8, <1>9, <1>10
     DEF Next, MainThread

(* The inductive invariant holds in every reachable state of every agent.   *)
THEOREM Invariance == Spec => []LifecycleInv
BY InitEstablishes, NextKeeps, PTL DEF Spec

(* Flags, links and places keep their types, and client_mutex_ is held by   *)
(* the one thread that is in its critical section.                          *)
THEOREM TypeCorrect == Spec => []TypeOK
<1>1. LifecycleInv => TypeOK
  BY DEF LifecycleInv
<1> QED BY <1>1, Invariance, PTL

(* A worker never waits for its peer in an agent that was stopped, nor for  *)
(* one that is connected: no notification of its condition is lost.         *)
THEOREM NoWakeupIsLost == Spec => []NoLostWakeup
<1>1. LifecycleInv => NoLostWakeup
  BY DEF LifecycleInv, WorkerPhases, NoLostWakeup
<1> QED BY <1>1, Invariance, PTL

(* No renewal of the entry reaches the discovery server after the           *)
(* deregistration, whoever called stop() and however often.                 *)
THEOREM NothingAfterDeregistration == Spec => []DeregisteredForGood
<1>1. LifecycleInv => DeregisteredForGood
  BY DEF LifecycleInv, DiscoveryPhases, DeregisteredForGood
<1> QED BY <1>1, Invariance, PTL

(* When the server is deleted every thread of the agent has been joined and *)
(* the kitchen's remote robots are gone.                                    *)
THEOREM ServerIsFreedLast == Spec => []ServerFreedLast
<1>1. LifecycleInv => ServerFreedLast
  BY DEF LifecycleInv, EndPhases, ServerFreedLast
<1> QED BY <1>1, Invariance, PTL
==============================================================================
