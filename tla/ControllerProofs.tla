--------------------------- MODULE ControllerProofs ---------------------------
(***************************************************************************)
(* Theorems about Controller, for every number of robots, receivers and    *)
(* requests, every size of the belt and any faults.  ControllerInv adds to *)
(* the types that REGISTERED_ROBOTS covers the robots in the map: it is    *)
(* unsigned, and every removal is subtracted from it.                      *)
(***************************************************************************)
EXTENDS Controller, FiniteSetTheorems, WellFoundedInduction, TLAPS

Remotes == [Position -> RemoteType \cup {None}]
Occupied(m) == {p \in Position : m[p] # None}

(* A swap is called for between two positions, as swap_robot_positions has  *)
(* checked before its first call.                                           *)
SwapCall == {c \in Call : c.op = "switch_second" => c.from # c.to}

MapTypes ==
    /\ known \in Remotes
    /\ DOMAIN pending_swaps \subseteq SwapKey
    /\ \A k \in DOMAIN pending_swaps : pending_swaps[k] \subseteq Positions(k)
CounterCovers == registered \in Nat /\ Cardinality(Occupied(known)) <= registered
WorkTypes ==
    /\ io \in Seq(Handler) /\ calls \in Seq(SwapCall) /\ running \in BOOLEAN
RobotTypes ==
    /\ up \in [Robot -> BOOLEAN]
    /\ place \in [Robot -> Position] /\ profile \in [Robot -> Profile]
    /\ state \in [Robot -> {"AVAILABLE", "REARRANGING", "RECONFIGURING"}]
    /\ pending \in [Robot -> BOOLEAN]
    /\ target \in [Robot -> Position \cup {None}]
    /\ new_profile \in [Robot -> Profile \cup {None}]
    /\ commits \in [Robot -> Nat]
LinkTypes ==
    /\ receivers \in [Agent -> {"none", "live", "stopped"}]
    /\ client \in [Robot -> {"live", "stale", "null"}]
    /\ asked \in Nat /\ answered \in Nat /\ faults \subseteq FaultKinds
    /\ answer \in [position : Position \cup {0}, robot : Robot \cup {None}]

ControllerInv ==
    MapTypes /\ CounterCovers /\ WorkTypes /\ RobotTypes /\ LinkTypes

------------------------------------------------------------------------------
(* The map and how many robots it holds.                                    *)

LEMMA PositionFacts ==
    /\ Position \subseteq Nat \ {0} /\ IsFiniteSet(Position)
    /\ \A p \in Position : p <= ConveyorSize
<1>1. 1 \in Int /\ ConveyorSize - 1 \in Int
  BY ControllerAssumption
<1>2. IsFiniteSet(Position)
  BY <1>1, FS_Interval DEF Position
<1>3. Position \subseteq Nat \ {0} /\ \A p \in Position : p <= ConveyorSize
  BY ControllerAssumption DEF Position
<1> QED BY <1>2, <1>3

LEMMA OccupiedFinite ==
    ASSUME NEW m
    PROVE  IsFiniteSet(Occupied(m)) /\ Cardinality(Occupied(m)) \in Nat
<1>1. Occupied(m) \in SUBSET Position
  BY DEF Occupied
<1>2. IsFiniteSet(Occupied(m))
  BY <1>1, PositionFacts, FS_Subset
<1> QED BY <1>2, FS_CardinalityType

(* A map that fills no vacant position holds no more robots.                *)
LEMMA NoMoreRobots ==
    ASSUME NEW m, NEW n, Occupied(n) \subseteq Occupied(m)
    PROVE  Cardinality(Occupied(n)) <= Cardinality(Occupied(m))
<1>1. Occupied(n) \in SUBSET Occupied(m)
  OBVIOUS
<1> QED BY <1>1, OccupiedFinite, FS_Subset

(* remove_stopped_robots and the counter after it.                          *)
LEMMA RemovalFacts ==
    ASSUME MapTypes, CounterCovers
    PROVE  /\ remove_stopped_robots \in Remotes
           /\ StillRegistered \in Nat
           /\ Cardinality(Occupied(remove_stopped_robots)) <= StillRegistered
<1>1. remove_stopped_robots \in Remotes
  BY DEF MapTypes, Remotes, remove_stopped_robots
<1>2. Occupied(remove_stopped_robots) = Occupied(known) \ Gone
  BY DEF Occupied, remove_stopped_robots, Gone
<1>3. Gone \in SUBSET Occupied(known)
  BY DEF Gone, Occupied
<1>4. /\ IsFiniteSet(Occupied(known)) /\ Cardinality(Occupied(known)) \in Nat
      /\ IsFiniteSet(Gone) /\ Cardinality(Gone) \in Nat
  BY <1>3, OccupiedFinite, FS_Subset, FS_CardinalityType
<1>5. Cardinality(Occupied(known) \ Gone)
        = Cardinality(Occupied(known)) - Cardinality(Gone)
  <2>1. Cardinality(Occupied(known) \ Gone)
          = Cardinality(Occupied(known))
              - Cardinality(Occupied(known) \cap Gone)
    BY <1>4, FS_Difference
  <2>2. Occupied(known) \cap Gone = Gone
    BY <1>3
  <2> QED BY <2>1, <2>2
<1>6. Cardinality(Gone) <= Cardinality(Occupied(known))
  BY <1>3, <1>4, FS_Subset
<1> QED BY <1>1, <1>2, <1>4, <1>5, <1>6 DEF StillRegistered, CounterCovers

(* The swaps that are left after the removal.                               *)
LEMMA SwapFacts ==
    ASSUME MapTypes
    PROVE  /\ Fresh \subseteq SwapKey /\ DOMAIN Swaps = Fresh
           /\ DOMAIN AckedByRemoval \subseteq SwapKey
           /\ Fresh \subseteq DOMAIN AckedByRemoval
           /\ \A k \in Fresh : Swaps[k] = AckedByRemoval[k]
           /\ \A k \in DOMAIN AckedByRemoval :
                 AckedByRemoval[k] \subseteq Positions(k)
  BY DEF MapTypes, Fresh, Swaps, Restricted, AckedByRemoval

LEMMA KeyFacts ==
    ASSUME NEW p \in Position, NEW q \in Position, p # q
    PROVE  Key(p, q) \in SwapKey /\ Positions(Key(p, q)) = {p, q}
<1>1. p \in Nat /\ q \in Nat
  BY PositionFacts
<1>2. CASE p < q
  <2>1. Key(p, q) = <<p, q>>
    BY <1>2 DEF Key
  <2> QED BY <2>1, <1>2 DEF SwapKey, Positions
<1>3. CASE ~ (p < q)
  <2>1. Key(p, q) = <<q, p>> /\ q < p
    BY <1>1, <1>3 DEF Key
  <2>2. Key(p, q) \in SwapKey
    BY <2>1 DEF SwapKey
  <2>3. Positions(Key(p, q)) = {p, q}
    BY <2>1 DEF Positions
  <2> QED BY <2>2, <2>3
<1> QED BY <1>2, <1>3

(* Re-keying two entries by their positions never makes three of them.      *)
LEMMA RekeyedFacts ==
    ASSUME NEW m \in Remotes, NEW k \in SwapKey
    PROVE  /\ Rekeyed(m, k) \in Remotes
           /\ Cardinality(Occupied(Rekeyed(m, k))) <= Cardinality(Occupied(m))
<1> DEFINE At(e, p) == e # None /\ e.cached = p
           n == Rekeyed(m, k)
           g == [p \in Occupied(n) |-> IF At(m[k[2]], p) THEN k[2]
                                       ELSE IF At(m[k[1]], p) THEN k[1]
                                       ELSE p]
<1>1. k[1] \in Position /\ k[2] \in Position /\ k[1] # k[2]
  <2>1. k[1] \in Position /\ k[2] \in Position /\ k[1] < k[2]
    BY DEF SwapKey
  <2>2. k[1] \in Nat /\ k[2] \in Nat
    BY <2>1, PositionFacts
  <2>3. k[1] # k[2]
    BY <2>1, <2>2
  <2> QED BY <2>1, <2>3
<1>2. n = [p \in Position |-> IF At(m[k[2]], p) THEN Settled(m[k[2]])
                              ELSE IF At(m[k[1]], p) THEN Settled(m[k[1]])
                              ELSE IF p \in Positions(k) THEN None
                              ELSE m[p]]
  BY DEF Rekeyed
<1>3. \A e \in RemoteType : Settled(e) \in RemoteType
  BY DEF RemoteType, Settled
<1>4. n \in Remotes
  BY <1>1, <1>2, <1>3 DEF Remotes
<1>5. ASSUME NEW p \in Occupied(n)
      PROVE  /\ g[p] \in Occupied(m)
             /\ \/ g[p] = k[2] /\ At(m[k[2]], p)
                \/ g[p] = k[1] /\ At(m[k[1]], p)
                \/ g[p] = p /\ p \notin {k[1], k[2]}
  BY <1>1, <1>2 DEF Occupied, Positions
<1> HIDE DEF n, g
<1>6. DOMAIN g = Occupied(n)
  BY DEF g
<1>7. ASSUME NEW p \in Occupied(n), NEW q \in Occupied(n), g[p] = g[q]
      PROVE  p = q
  BY <1>1, <1>5, <1>7
<1>8. g \in Injection(Occupied(n), Occupied(m))
  <2>1. g \in [Occupied(n) -> Occupied(m)]
    BY <1>5, <1>6 DEF g
  <2> QED BY <2>1, <1>7 DEF Injection, IsInjective
<1>9. Cardinality(Occupied(n)) <= Cardinality(Occupied(m))
  BY <1>8, OccupiedFinite, FS_Injection
<1> QED BY <1>4, <1>9 DEF n

------------------------------------------------------------------------------
(* The least number principle, from the well-foundedness of the naturals,   *)
(* which is stated of sets: induction as the library states it takes an     *)
(* operator.                                                                *)

(* Some well-founded relation on the naturals contains their order.         *)
LEMMA LessThan ==
    \E R : /\ IsWellFoundedOn(R, Nat)
          /\ \A m, n \in Nat : m < n => <<m, n>> \in R
<1>1. IsWellFoundedOn(OpToRel(<, Nat), Nat)
  BY NatLessThanWellFounded
<1>2. \A m, n \in Nat : m < n => <<m, n>> \in OpToRel(<, Nat)
  BY DEF OpToRel
<1> QED BY <1>1, <1>2, Zenon

(* Every nonempty set of naturals has a least member.                       *)
LEMMA LeastNumber ==
    ASSUME NEW T, T \subseteq Nat, T # {}
    PROVE  \E n \in T : \A m \in T : n <= m
<1>1. PICK R : /\ IsWellFoundedOn(R, Nat)
               /\ \A m, n \in Nat : m < n => <<m, n>> \in R
  BY LessThan, Zenon
<1>2. \E n \in T : \A m \in T : ~ (<<m, n>> \in R)
  <2>1. IsWellFoundedOn(R, Nat)
    BY <1>1
  <2>2. T \subseteq Nat
    OBVIOUS
  <2>3. T # {}
    OBVIOUS
  <2> HIDE <1>1
  <2> QED BY <2>1, <2>2, <2>3, WFMin, ZenonT(60)
<1>3. PICK n \in T : \A m \in T : ~ (<<m, n>> \in R)
  BY <1>2, Zenon
<1>4. \A m \in T : ~ (m < n)
  BY <1>1, <1>3, Zenon
<1>5. \A m \in T : n <= m
  BY <1>4
<1> QED BY <1>5

------------------------------------------------------------------------------
(* What the strategies name and ask for.                                    *)

LEMMA MaxOfPositions ==
    ASSUME NEW S, S \subseteq Position, S # {}
    PROVE  Max(S) \in S
<1> DEFINE T == {ConveyorSize - p : p \in S}
<1>1. ConveyorSize \in Nat /\ \A p \in S : p \in Nat /\ p <= ConveyorSize
  BY PositionFacts, ControllerAssumption
<1>2. T \subseteq Nat /\ T # {}
  BY <1>1
<1>3. PICK n \in T : \A m \in T : n <= m
  <2>1. T \subseteq Nat
    BY <1>2
  <2>2. T # {}
    BY <1>2
  <2> HIDE DEF T
  <2> QED BY <2>1, <2>2, LeastNumber
<1>4. PICK p \in S : n = ConveyorSize - p
  BY <1>3
<1>5. \A q \in S : p >= q
  <2>1. ASSUME NEW q \in S PROVE p >= q
    <3>1. n <= ConveyorSize - q
      BY <1>3, <2>1
    <3> QED BY <3>1, <1>1, <1>4
  <2> QED BY <2>1
<1>6. \E x \in S : \A y \in S : x >= y
  BY <1>4, <1>5
<1> QED BY <1>6 DEF Max

(* The robot chosen is one of the map, or there is none.                    *)
LEMMA ForemostFacts ==
    ASSUME NEW m \in Remotes, NEW act
    PROVE  /\ Foremost(m, act) \in Position \cup {0}
           /\ Foremost(m, act) # 0 => m[Foremost(m, act)] \in RemoteType
<1> DEFINE ready == Candidates(m, act)
<1>1. ready \subseteq Position /\ \A p \in ready : m[p] # None
  BY DEF Candidates, Remotes
<1>2. \A p \in ready : m[p] \in RemoteType
  BY <1>1 DEF Remotes
<1> HIDE DEF ready
<1>3. CASE ready = {}
  BY <1>3 DEF Foremost, ready
<1>4. CASE ready # {}
  <2>1. Max(ready) \in ready
    BY <1>1, <1>4, MaxOfPositions
  <2>2. Foremost(m, act) = Max(ready)
    BY <1>4 DEF Foremost, ready
  <2> QED BY <2>1, <2>2, <1>1, <1>2
<1> QED BY <1>3, <1>4

(* Adaptations are asked of robots of the map, towards positions and        *)
(* profiles there are.                                                      *)
LEMMA AdaptationsType ==
    ASSUME NEW m \in Remotes, NEW todo, NEW s \in Strategy,
           NEW wanted \in Adaptations(s, m, todo)
    PROVE  wanted \in Seq(SwapCall)
<1> DEFINE p == Next1(m, todo)
           q == AfterNext(m, todo)
<1>1. p # 0 => m[p] \in RemoteType
  BY ForemostFacts DEF Next1
<1>2. q # 0 => m[q] \in RemoteType
  BY ForemostFacts DEF AfterNext
<1>3. <<>> \in Seq(SwapCall)
  OBVIOUS
<1>4. CASE s = "simple_capability_check"
  BY <1>3, <1>4 DEF Adaptations, simple_capability_check
<1>5. CASE s = "simple_rearranging"
  <2>1. wanted \in simple_rearranging(m, todo)
    BY <1>5 DEF Adaptations
  <2>2. CASE ~ OutOfOrder(m, todo)
    BY <2>1, <2>2, <1>3 DEF simple_rearranging
  <2>3. CASE OutOfOrder(m, todo)
    <3>1. m[p].cached \in Position /\ m[q].cached \in Position
      BY <2>3, <1>1, <1>2 DEF OutOfOrder, RemoteType
    <3> HIDE DEF p, q
    <3>2. Switch(m[p].cached, m[q].cached) \in SwapCall
      BY <3>1 DEF Switch, SwapCall, Call
    <3>3. wanted = <<Switch(m[p].cached, m[q].cached)>>
      BY <2>1, <2>3 DEF simple_rearranging, p, q
    <3> QED BY <3>2, <3>3
  <2> QED BY <2>2, <2>3
<1>6. CASE s = "simple_reconfiguration"
  <2>1. wanted \in simple_reconfiguration(m, todo)
    BY <1>6 DEF Adaptations
  <2>2. CASE ~ OutOfOrder(m, todo)
    BY <2>1, <2>2, <1>3 DEF simple_reconfiguration
  <2>3. CASE OutOfOrder(m, todo)
    <3>1. m[p].cached \in Position /\ m[q].cached \in Position
      BY <2>3, <1>1, <1>2 DEF OutOfOrder, RemoteType
    <3>2. PICK f \in Profile, h \in Profile :
             wanted = <<Reconfigure(m[p].cached, f), Reconfigure(m[q].cached, h)>>
      BY <2>1, <2>3 DEF simple_reconfiguration, ProfilesFor
    <3> HIDE DEF p, q
    <3>3. /\ Reconfigure(m[p].cached, f) \in SwapCall
          /\ Reconfigure(m[q].cached, h) \in SwapCall
      BY <3>1 DEF Reconfigure, SwapCall, Call
    <3> QED BY <3>2, <3>3
  <2> QED BY <2>2, <2>3
<1> QED BY <1>4, <1>5, <1>6 DEF Strategy

------------------------------------------------------------------------------
(* The queue of handlers and the calls a handler still makes.               *)

LEMMA TakeType ==
    ASSUME WorkTypes, NEW op, Take(op)
    PROVE  /\ io' \in Seq(Handler)
           /\ Head(io) \in Handler /\ Head(io).op = op
           /\ calls = <<>>
  BY DEF WorkTypes, Take

LEMMA CallingType ==
    ASSUME WorkTypes, NEW op, Calling(op)
    PROVE  /\ Tail(calls) \in Seq(SwapCall)
           /\ Head(calls) \in SwapCall /\ Head(calls) \in Call
           /\ Head(calls).op = op
<1>1. Tail(calls) \in Seq(SwapCall) /\ Head(calls) \in SwapCall
  BY DEF WorkTypes, Calling
<1> QED BY <1>1 DEF SwapCall, Calling

(* The fields of the calls.                                                 *)
LEMMA CallFields ==
    ASSUME NEW c \in SwapCall
    PROVE  /\ c.op = "resolve" => c.at \in Position
           /\ c.op = "commit" => c.at \in Position /\ c.robot \in Robot
           /\ c.op \in {"switch", "switch_second"}
                => c.from \in Position /\ c.to \in Position
           /\ c.op = "switch_second" => c.from # c.to
           /\ c.op = "reconfigure" => c.at \in Position /\ c.profile \in Profile
           /\ c.op = "answer"
                => c.agent \in Agent /\ c.at \in Position \cup {0}
  BY DEF SwapCall, Call

(* The fields of the handlers.                                              *)
LEMMA HandlerFields ==
    ASSUME NEW h \in Handler
    PROVE  /\ h.op = "register" => h.robot \in Robot /\ h.position \in Position
           /\ h.op = "next_robot" => h.agent \in Agent
           /\ h.op = "swapped" => h.old \in Position /\ h.new \in Position
           /\ h.op = "reconfigured" => h.at \in Position
  BY DEF Handler

------------------------------------------------------------------------------
(* Changes of single entries of the map.                                    *)

LEMMA UpdateFacts ==
    ASSUME NEW m \in Remotes, NEW p \in Position, NEW e \in RemoteType
    PROVE  /\ [m EXCEPT ![p] = e] \in Remotes
           /\ Occupied([m EXCEPT ![p] = e]) \subseteq Occupied(m) \cup {p}
  BY DEF Remotes, Occupied

LEMMA StopFacts ==
    ASSUME NEW m \in Remotes, NEW p \in Position
    PROVE  /\ Stop(m, p) \in Remotes
           /\ Occupied(Stop(m, p)) \subseteq Occupied(m)
           /\ m[p] # None => Stop(m, p)[p] \in RemoteType
<1>1. CASE m[p] = None
  BY <1>1 DEF Stop
<1>2. CASE m[p] # None
  <2> DEFINE e == [m[p] EXCEPT !.link = "stopped"]
  <2>1. m[p] \in RemoteType /\ p \in Occupied(m)
    BY <1>2 DEF Remotes, Occupied
  <2>2. e \in RemoteType
    BY <2>1 DEF RemoteType
  <2>3. Stop(m, p) = [m EXCEPT ![p] = e]
    BY <1>2 DEF Stop
  <2> HIDE DEF e
  <2>4. Stop(m, p)[p] = e
    BY <2>3 DEF Remotes
  <2>5. /\ [m EXCEPT ![p] = e] \in Remotes
        /\ Occupied([m EXCEPT ![p] = e]) \subseteq Occupied(m) \cup {p}
    BY <2>2, UpdateFacts
  <2> QED BY <2>1, <2>2, <2>3, <2>4, <2>5
<1> QED BY <1>1, <1>2

LEMMA FlaggedFacts ==
    ASSUME NEW m \in Remotes, NEW p \in Position, m[p] \in RemoteType
    PROVE  /\ Flagged(m, p) \in Remotes
           /\ Occupied(Flagged(m, p)) \subseteq Occupied(m) \cup {p}
<1> DEFINE e == [m[p] EXCEPT !.adapting = TRUE]
<1>1. e \in RemoteType
  BY DEF RemoteType
<1>2. Flagged(m, p) = [m EXCEPT ![p] = e]
  BY DEF Flagged
<1> HIDE DEF e
<1>3. /\ [m EXCEPT ![p] = e] \in Remotes
      /\ Occupied([m EXCEPT ![p] = e]) \subseteq Occupied(m) \cup {p}
  BY <1>1, UpdateFacts
<1> QED BY <1>2, <1>3

(* A step that leaves the counter alone and fills no vacant position.       *)
LEMMA StillCovered ==
    ASSUME CounterCovers, registered' = registered,
           Occupied(known') \subseteq Occupied(known)
    PROVE  CounterCovers'
<1>1. Cardinality(Occupied(known')) <= Cardinality(Occupied(known))
  BY NoMoreRobots
<1>2. /\ Cardinality(Occupied(known')) \in Nat
      /\ Cardinality(Occupied(known)) \in Nat
  BY OccupiedFinite
<1>3. registered \in Nat /\ Cardinality(Occupied(known)) <= registered
  BY DEF CounterCovers
<1>4. Cardinality(Occupied(known')) <= registered
  BY <1>1, <1>2, <1>3
<1> QED BY <1>3, <1>4 DEF CounterCovers

(* commit_new_position leaves the types of the robots alone.                *)
LEMMA CommitCallType ==
    ASSUME RobotTypes, NEW r \in Robot, CommitCall(r)
    PROVE  commits' \in [Robot -> Nat]
  BY DEF RobotTypes, CommitCall

LEMMA SwitchPositionType ==
    ASSUME RobotTypes, NEW r \in Robot, NEW p \in Position,
           SwitchPosition(r, p)
    PROVE  /\ state' \in [Robot -> {"AVAILABLE", "REARRANGING", "RECONFIGURING"}]
           /\ target' \in [Robot -> Position \cup {None}]
           /\ new_profile' = new_profile
  BY DEF RobotTypes, SwitchPosition

LEMMA ReconfigureToType ==
    ASSUME RobotTypes, NEW r \in Robot, NEW f \in Profile,
           ReconfigureTo(r, f)
    PROVE  /\ state' \in [Robot -> {"AVAILABLE", "REARRANGING", "RECONFIGURING"}]
           /\ new_profile' \in [Robot -> Profile \cup {None}]
           /\ target' = target
  BY DEF RobotTypes, ReconfigureTo

------------------------------------------------------------------------------
(* Every step preserves ControllerInv, part by part.                        *)

LEMMA HandleRobotRegistrationKeeps ==
    ASSUME ControllerInv, HandleRobotRegistration
    PROVE  ControllerInv'
<1> USE DEF ControllerInv
<1> DEFINE r == Head(io).robot
           p == Head(io).position
           kept == remove_stopped_robots
<1>1. /\ io' \in Seq(Handler) /\ r \in Robot /\ p \in Position /\ calls = <<>>
  BY TakeType, HandlerFields DEF HandleRobotRegistration
<1>2. /\ kept \in Remotes /\ StillRegistered \in Nat
      /\ Cardinality(Occupied(kept)) <= StillRegistered
  BY RemovalFacts
<1>3. Cardinality(Occupied(kept)) \in Nat /\ IsFiniteSet(Occupied(kept))
  BY OccupiedFinite
<1>4. /\ pending_swaps' = Swaps
      /\ \/ /\ known' = [kept EXCEPT ![p] = Remote(r, place[r], profile[r])]
            /\ registered' = StillRegistered + 1
            /\ calls' = <<[op |-> "resolve", at |-> p]>>
         \/ known' = kept /\ registered' = StillRegistered /\ calls' = calls
  BY DEF HandleRobotRegistration
<1>5. Remote(r, place[r], profile[r]) \in RemoteType
  BY <1>1 DEF Remote, RemoteType, RobotTypes
<1> HIDE DEF r, p, kept
<1>6. known' \in Remotes /\ CounterCovers'
  <2>1. CASE known' = kept /\ registered' = StillRegistered
    BY <2>1, <1>2 DEF CounterCovers
  <2>2. CASE /\ known' = [kept EXCEPT ![p] = Remote(r, place[r], profile[r])]
             /\ registered' = StillRegistered + 1
    <3> DEFINE more == Occupied(kept) \cup {p}
    <3>1. known' \in Remotes /\ Occupied(known') \subseteq more
      <4> DEFINE e == Remote(r, place[r], profile[r])
      <4>1. e \in RemoteType
        BY <1>5
      <4> HIDE DEF e
      <4>2. /\ [kept EXCEPT ![p] = e] \in Remotes
            /\ Occupied([kept EXCEPT ![p] = e]) \subseteq more
        BY <4>1, <1>1, <1>2, UpdateFacts
      <4> QED BY <2>2, <4>2 DEF e
    <3>2. /\ IsFiniteSet(more)
          /\ Cardinality(more) <= Cardinality(Occupied(kept)) + 1
      BY <1>3, FS_AddElement
    <3> HIDE DEF more
    <3>3. Cardinality(Occupied(known')) <= Cardinality(more)
      <4>1. Occupied(known') \in SUBSET more
        BY <3>1
      <4> QED BY <4>1, <3>2, FS_Subset
    <3>4. /\ Cardinality(Occupied(known')) \in Nat /\ Cardinality(more) \in Nat
      BY <3>2, OccupiedFinite, FS_CardinalityType
    <3>5. Cardinality(Occupied(known')) <= registered' /\ registered' \in Nat
      BY <2>2, <1>2, <1>3, <3>2, <3>3, <3>4
    <3> QED BY <3>1, <3>5 DEF CounterCovers
  <2> QED BY <2>1, <2>2, <1>4
<1>7. MapTypes'
  BY <1>4, <1>6, SwapFacts DEF MapTypes
<1>8. WorkTypes'
  <2>1. [op |-> "resolve", at |-> p] \in SwapCall
    BY <1>1 DEF SwapCall, Call
  <2> DEFINE c == [op |-> "resolve", at |-> p]
  <2>2. c \in SwapCall
    BY <2>1
  <2> HIDE DEF c
  <2>3. <<c>> \in Seq(SwapCall) /\ calls \in Seq(SwapCall)
    BY <2>2 DEF WorkTypes
  <2>4. calls' = <<c>> \/ calls' = calls
    BY <1>4 DEF c
  <2>5. calls' \in Seq(SwapCall)
    BY <2>3, <2>4
  <2> QED BY <1>1, <2>5 DEF WorkTypes, HandleRobotRegistration
<1>9. RobotTypes' /\ LinkTypes'
  BY DEF HandleRobotRegistration, robotVars, goalVars, boundVars, RobotTypes,
         LinkTypes
<1> QED BY <1>6, <1>7, <1>8, <1>9

LEMMA HandleNextRobotRequestKeeps ==
    ASSUME ControllerInv, HandleNextRobotRequest
    PROVE  ControllerInv'
<1> USE DEF ControllerInv
<1> DEFINE req == Head(io)
           todo == Remaining(req.recipe, req.steps)
           kept == remove_stopped_robots
<1>1. /\ io' \in Seq(Handler) /\ req.agent \in Agent
  BY TakeType, HandlerFields DEF HandleNextRobotRequest
<1>2. /\ kept \in Remotes /\ StillRegistered \in Nat
      /\ Cardinality(Occupied(kept)) <= StillRegistered
  BY RemovalFacts
<1>3. /\ known' = kept /\ pending_swaps' = Swaps
      /\ registered' = StillRegistered
  BY DEF HandleNextRobotRequest
<1>4. PICK s \in Strategies :
         \E wanted \in Adaptations(s, kept, todo) :
            calls' = wanted \o Reply(req.agent, Next1(kept, todo))
  BY DEF HandleNextRobotRequest
<1>4a. PICK wanted \in Adaptations(s, kept, todo) :
         calls' = wanted \o Reply(req.agent, Next1(kept, todo))
  BY <1>4
<1> HIDE DEF req, todo, kept
<1>5. MapTypes' /\ CounterCovers'
  BY <1>2, <1>3, SwapFacts DEF MapTypes, CounterCovers
<1>6. calls' \in Seq(SwapCall)
  <2>1. wanted \in Seq(SwapCall)
    BY <1>2, <1>4a, AdaptationsType, ControllerAssumption
  <2>2. Next1(kept, todo) \in Position \cup {0}
    BY <1>2, ForemostFacts DEF Next1
  <2>3. [op |-> "answer", agent |-> req.agent, at |-> Next1(kept, todo)]
          \in SwapCall
    BY <1>1, <2>2 DEF SwapCall, Call
  <2>4. Reply(req.agent, Next1(kept, todo)) \in Seq(SwapCall)
    BY <2>3 DEF Reply
  <2> QED BY <2>1, <2>4, <1>4a
<1>7. WorkTypes'
  BY <1>1, <1>6 DEF WorkTypes, HandleNextRobotRequest
<1>8. LinkTypes'
  <2>1. \A l \in Connected : l \in {"none", "live", "stopped"}
    BY DEF Connected
  <2>2. receivers \in [Agent -> {"none", "live", "stopped"}]
    BY DEF LinkTypes
  <2>3. receivers' = receivers
        \/ \E l \in Connected : receivers' = [receivers EXCEPT ![req.agent] = l]
    BY DEF HandleNextRobotRequest, req
  <2>4. receivers' \in [Agent -> {"none", "live", "stopped"}]
    BY <2>1, <2>2, <2>3
  <2> QED BY <2>4 DEF LinkTypes, HandleNextRobotRequest, boundVars
<1>9. RobotTypes'
  BY DEF HandleNextRobotRequest, robotVars, goalVars, RobotTypes
<1> QED BY <1>5, <1>7, <1>8, <1>9

LEMMA HandlePositionSwappedKeeps ==
    ASSUME ControllerInv, HandlePositionSwapped
    PROVE  ControllerInv'
<1> USE DEF ControllerInv
<1> DEFINE old == Head(io).old
           k == Key(old, Head(io).new)
           kept == remove_stopped_robots
           acked == Swaps[k] \cup {old}
<1>1. /\ io' \in Seq(Handler) /\ old \in Position /\ Head(io).new \in Position
      /\ calls = <<>>
  BY TakeType, HandlerFields DEF HandlePositionSwapped
<1>2. /\ kept \in Remotes /\ StillRegistered \in Nat
      /\ Cardinality(Occupied(kept)) <= StillRegistered
  BY RemovalFacts
<1>3. /\ registered' = StillRegistered
      /\ \/ known' = kept /\ pending_swaps' = Swaps /\ calls' = calls
         \/ /\ k \in Fresh /\ known' = Rekeyed(kept, k)
            /\ pending_swaps' = Restricted(AckedByRemoval, Fresh \ {k})
            /\ calls' = CommitBoth(kept, k)
         \/ /\ k \in Fresh /\ known' = kept
            /\ pending_swaps' = [Swaps EXCEPT ![k] = acked]
            /\ calls' = calls
  BY DEF HandlePositionSwapped
<1>4. old \in Positions(k)
  BY DEF Key, Positions
<1> HIDE DEF old, k, kept, acked
<1>5. k \in Fresh => k \in SwapKey /\ k[1] \in Position /\ k[2] \in Position
  BY SwapFacts DEF SwapKey
<1>6. known' \in Remotes /\ CounterCovers'
  <2>1. CASE known' = kept
    BY <2>1, <1>2, <1>3 DEF CounterCovers
  <2>2. CASE k \in Fresh /\ known' = Rekeyed(kept, k)
    <3>1. /\ Rekeyed(kept, k) \in Remotes
          /\ Cardinality(Occupied(Rekeyed(kept, k)))
                <= Cardinality(Occupied(kept))
      BY <2>2, <1>2, <1>5, RekeyedFacts
    <3>2. /\ Cardinality(Occupied(Rekeyed(kept, k))) \in Nat
          /\ Cardinality(Occupied(kept)) \in Nat
      BY OccupiedFinite
    <3>3. Cardinality(Occupied(known')) <= registered' /\ registered' \in Nat
      BY <2>2, <1>2, <1>3, <3>1, <3>2
    <3> QED BY <2>2, <3>1, <3>3 DEF CounterCovers
  <2> QED BY <2>1, <2>2, <1>3
<1>7. MapTypes'
  <2>1. CASE pending_swaps' = Swaps
    BY <2>1, <1>6, SwapFacts DEF MapTypes
  <2>2. CASE pending_swaps' = Restricted(AckedByRemoval, Fresh \ {k})
    BY <2>2, <1>6, SwapFacts DEF MapTypes, Restricted
  <2>3. CASE k \in Fresh /\ pending_swaps' = [Swaps EXCEPT ![k] = acked]
    <3>1. acked \subseteq Positions(k)
      BY <2>3, <1>4, SwapFacts DEF acked
    <3>2. /\ DOMAIN pending_swaps' = Fresh
          /\ \A j \in Fresh : pending_swaps'[j] = IF j = k THEN acked ELSE Swaps[j]
      BY <2>3, SwapFacts
    <3> QED BY <3>1, <3>2, <1>6, SwapFacts DEF MapTypes
  <2> QED BY <2>1, <2>2, <2>3, <1>3
<1>8. calls' \in Seq(SwapCall)
  <2>1. CASE calls' = calls
    BY <2>1 DEF WorkTypes
  <2>2. CASE k \in Fresh /\ calls' = CommitBoth(kept, k)
    <3>1. ASSUME NEW p \in Position, kept[p] # None
          PROVE  CommitOf(kept[p]) \in SwapCall
      <4>1. kept[p] \in RemoteType
        BY <3>1, <1>2 DEF Remotes
      <4> QED BY <4>1 DEF CommitOf, SwapCall, Call, RemoteType
    <3> DEFINE At(p) == IF kept[p] = None THEN <<>> ELSE <<CommitOf(kept[p])>>
    <3>2. At(k[1]) \in Seq(SwapCall) /\ At(k[2]) \in Seq(SwapCall)
      BY <2>2, <1>5, <3>1
    <3>3. calls' = At(k[1]) \o At(k[2])
      BY <2>2 DEF CommitBoth
    <3> HIDE DEF At
    <3> QED BY <3>2, <3>3
  <2> QED BY <2>1, <2>2, <1>3
<1>9. WorkTypes' /\ RobotTypes' /\ LinkTypes'
  BY <1>1, <1>8 DEF WorkTypes, HandlePositionSwapped, robotVars, goalVars,
         boundVars, RobotTypes, LinkTypes
<1> QED BY <1>6, <1>7, <1>9

LEMMA HandleCapabilitiesReconfiguredKeeps ==
    ASSUME ControllerInv, HandleCapabilitiesReconfigured
    PROVE  ControllerInv'
<1> USE DEF ControllerInv
<1> DEFINE p == Head(io).at
           kept == remove_stopped_robots
<1>1. io' \in Seq(Handler) /\ p \in Position
  BY TakeType, HandlerFields DEF HandleCapabilitiesReconfigured
<1>2. /\ kept \in Remotes /\ StillRegistered \in Nat
      /\ Cardinality(Occupied(kept)) <= StillRegistered
  BY RemovalFacts
<1>3. /\ registered' = StillRegistered /\ pending_swaps' = AckedByRemoval
      /\ known' = IF kept[p] = None THEN kept
                  ELSE [kept EXCEPT ![p] = Settled(kept[p])]
  BY DEF HandleCapabilitiesReconfigured
<1> HIDE DEF p, kept
<1>4. known' \in Remotes /\ Occupied(known') \subseteq Occupied(kept)
  <2>1. CASE kept[p] = None
    BY <2>1, <1>2, <1>3
  <2>2. CASE kept[p] # None
    <3>1. kept[p] \in RemoteType /\ p \in Occupied(kept)
      BY <2>2, <1>1, <1>2 DEF Remotes, Occupied
    <3>2. Settled(kept[p]) \in RemoteType
      BY <3>1 DEF Settled, RemoteType
    <3> DEFINE e == Settled(kept[p])
    <3>3. e \in RemoteType
      BY <3>2
    <3> HIDE DEF e
    <3>4. /\ [kept EXCEPT ![p] = e] \in Remotes
          /\ Occupied([kept EXCEPT ![p] = e]) \subseteq Occupied(kept) \cup {p}
      BY <3>3, <1>1, <1>2, UpdateFacts
    <3> QED BY <2>2, <3>1, <3>4, <1>3 DEF e
  <2> QED BY <2>1, <2>2
<1>5. CounterCovers'
  <2>1. Cardinality(Occupied(known')) <= Cardinality(Occupied(kept))
    BY <1>4, NoMoreRobots
  <2>2. /\ Cardinality(Occupied(known')) \in Nat
        /\ Cardinality(Occupied(kept)) \in Nat
    BY OccupiedFinite
  <2>3. Cardinality(Occupied(known')) <= registered' /\ registered' \in Nat
    BY <1>2, <1>3, <2>1, <2>2
  <2> QED BY <2>3 DEF CounterCovers
<1>6. MapTypes'
  BY <1>3, <1>4, SwapFacts DEF MapTypes
<1>7. WorkTypes' /\ RobotTypes' /\ LinkTypes'
  BY <1>1 DEF WorkTypes, HandleCapabilitiesReconfigured, robotVars, goalVars,
         boundVars, RobotTypes, LinkTypes
<1> QED BY <1>5, <1>6, <1>7

(* The steps that change at most what the map says of the robots in it.     *)
LEMMA SameRobotsKeep ==
    ASSUME MapTypes, CounterCovers, UNCHANGED <<pending_swaps, registered>>,
           known' \in Remotes, Occupied(known') \subseteq Occupied(known)
    PROVE  MapTypes' /\ CounterCovers'
<1>1. CounterCovers'
  BY StillCovered
<1>2. MapTypes'
  BY DEF MapTypes
<1> QED BY <1>1, <1>2

(* Stop of an entry of the map, or nothing.                                 *)
LEMMA StoppingKeeps ==
    ASSUME MapTypes, CounterCovers, UNCHANGED <<pending_swaps, registered>>,
           known' = known \/ \E p \in Position : known' = Stop(known, p)
    PROVE  MapTypes' /\ CounterCovers'
<1>1. known \in Remotes
  BY DEF MapTypes
<1>2. known' \in Remotes /\ Occupied(known') \subseteq Occupied(known)
  <2>1. CASE known' = known
    BY <1>1, <2>1
  <2>2. CASE \E p \in Position : known' = Stop(known, p)
    <3>1. PICK p \in Position : known' = Stop(known, p)
      BY <2>2
    <3>2. /\ Stop(known, p) \in Remotes
          /\ Occupied(Stop(known, p)) \subseteq Occupied(known)
      BY <1>1, StopFacts
    <3> QED BY <3>1, <3>2
  <2> QED BY <2>1, <2>2
<1> QED BY <1>2, SameRobotsKeep

LEMMA RobotOfEntry ==
    ASSUME MapTypes, NEW p \in Position, known[p] # None
    PROVE  /\ known[p] \in RemoteType /\ known[p].robot \in Robot
           /\ known[p].cached \in Position /\ p \in Occupied(known)
<1>1. known[p] \in RemoteType
  BY DEF MapTypes, Remotes
<1> QED BY <1>1 DEF RemoteType, Occupied

LEMMA CommittingKeeps ==
    ASSUME ControllerInv, Resolve \/ Commit
    PROVE  ControllerInv'
<1> USE DEF ControllerInv
<1> DEFINE c == Head(calls)
<1>1. c \in SwapCall /\ c.op \in {"resolve", "commit"}
      /\ Tail(calls) \in Seq(SwapCall)
  BY CallingType DEF Resolve, Commit
<1>2. c.at \in Position
  BY <1>1, CallFields
<1>3. MapTypes' /\ CounterCovers'
  <2>1. /\ known' = known \/ known' = Stop(known, c.at)
        /\ UNCHANGED <<pending_swaps, registered>>
    BY DEF Resolve, Commit
  <2> HIDE DEF c
  <2> QED BY <2>1, <1>2, StoppingKeeps
<1>4. commits' \in [Robot -> Nat]
  <2>1. \/ commits' = commits
        \/ CommitCall(known[c.at].robot) /\ Alive(c.at)
        \/ CommitCall(c.robot) /\ c.op = "commit"
    BY CallingType DEF Resolve, Commit
  <2>2. Alive(c.at) => known[c.at].robot \in Robot
    BY <1>2, RobotOfEntry DEF Alive
  <2>3. c.op = "commit" => c.robot \in Robot
    BY <1>1, CallFields
  <2> HIDE DEF c
  <2> QED BY <2>1, <2>2, <2>3, CommitCallType DEF RobotTypes
<1>5. RobotTypes'
  BY <1>4 DEF RobotTypes, Resolve, Commit, goalVars
<1>6. WorkTypes' /\ LinkTypes'
  BY <1>1 DEF WorkTypes, LinkTypes, Resolve, Commit, boundVars
<1> QED BY <1>3, <1>5, <1>6

LEMMA AnsweringKeeps ==
    ASSUME ControllerInv, Answer \/ AnswerFails
    PROVE  ControllerInv'
<1> USE DEF ControllerInv
<1> DEFINE p == Head(calls).at
<1>1. /\ Head(calls) \in SwapCall /\ Head(calls).op = "answer"
      /\ Tail(calls) \in Seq(SwapCall)
  BY CallingType DEF Answer, AnswerFails
<1>2. p \in Position \cup {0}
  BY <1>1, CallFields
<1>3. answer' \in [position : Position \cup {0}, robot : Robot \cup {None}]
  <2>1. CASE AnswerFails
    BY <2>1 DEF AnswerFails, boundVars, LinkTypes
  <2>2. CASE Answer
    <3>1. answer' = IF Chosen(p)
                    THEN [position |-> known[p].cached, robot |-> known[p].robot]
                    ELSE NoRobot
      BY <2>2 DEF Answer
    <3>2. Chosen(p) => known[p].cached \in Position /\ known[p].robot \in Robot
      BY <1>2, RobotOfEntry DEF Chosen
    <3> HIDE DEF p
    <3> QED BY <3>1, <3>2 DEF NoRobot
  <2> QED BY <2>1, <2>2
<1>4. LinkTypes'
  BY <1>3 DEF LinkTypes, Answer, AnswerFails, boundVars
<1>5. MapTypes' /\ CounterCovers'
  <2>1. known' = known /\ UNCHANGED <<pending_swaps, registered>>
    BY DEF Answer, AnswerFails, mapVars
  <2> QED BY <2>1, StoppingKeeps
<1>6. WorkTypes' /\ RobotTypes'
  BY <1>1 DEF WorkTypes, RobotTypes, Answer, AnswerFails, robotVars, goalVars
<1> QED BY <1>4, <1>5, <1>6

(* A call that is not made.                                                 *)
LEMMA SkippingKeeps ==
    ASSUME ControllerInv, SwitchSkipped \/ ReconfigureSkipped
    PROVE  ControllerInv'
<1> USE DEF ControllerInv
<1> DEFINE c == Head(calls)
<1>1. /\ c \in SwapCall /\ c.op \in {"switch", "reconfigure"}
      /\ Tail(calls) \in Seq(SwapCall)
      /\ SwitchSkipped => c.op = "switch"
      /\ ReconfigureSkipped => c.op = "reconfigure"
  BY CallingType DEF SwitchSkipped, ReconfigureSkipped
<1>2. /\ SwitchSkipped => c.from \in Position /\ c.to \in Position
      /\ ReconfigureSkipped => c.at \in Position
  BY <1>1, CallFields
<1>3. MapTypes' /\ CounterCovers'
  <2>1. UNCHANGED <<pending_swaps, registered>>
    BY DEF SwitchSkipped, ReconfigureSkipped
  <2>2. known' = known \/ \E p \in Position : known' = Stop(known, p)
    <3>1. CASE SwitchSkipped
      BY <1>2, <3>1 DEF SwitchSkipped, StopUnlessAlive
    <3>2. CASE ReconfigureSkipped
      BY <1>2, <3>2 DEF ReconfigureSkipped, StopUnlessAlive
    <3> QED BY <3>1, <3>2
  <2> QED BY <2>1, <2>2, StoppingKeeps
<1>4. WorkTypes' /\ RobotTypes' /\ LinkTypes'
  BY <1>1 DEF WorkTypes, RobotTypes, LinkTypes, SwitchSkipped,
         ReconfigureSkipped, robotVars, goalVars, boundVars
<1> QED BY <1>3, <1>4

(* Setting the adapting flag of a robot in the map.                         *)
LEMMA FlaggingKeeps ==
    ASSUME MapTypes, CounterCovers, UNCHANGED <<pending_swaps, registered>>,
           NEW p \in Position, known[p] # None, known' = Flagged(known, p)
    PROVE  MapTypes' /\ CounterCovers'
<1>1. known \in Remotes
  BY DEF MapTypes
<1>2. known[p] \in RemoteType /\ p \in Occupied(known)
  BY RobotOfEntry
<1>3. /\ Flagged(known, p) \in Remotes
      /\ Occupied(Flagged(known, p)) \subseteq Occupied(known) \cup {p}
  BY <1>1, <1>2, FlaggedFacts
<1> QED BY <1>2, <1>3, SameRobotsKeep

LEMMA SwitchFirstKeeps ==
    ASSUME ControllerInv, SwitchFirst
    PROVE  ControllerInv'
<1> USE DEF ControllerInv
<1> DEFINE from == Head(calls).from
           to == Head(calls).to
           next == [op |-> "switch_second", from |-> from, to |-> to]
<1>1. /\ Head(calls) \in SwapCall /\ Head(calls).op = "switch"
      /\ Tail(calls) \in Seq(SwapCall)
  BY CallingType DEF SwitchFirst
<1>2. from \in Position /\ to \in Position
  BY <1>1, CallFields
<1>3. from # to /\ known[from] # None
  BY DEF SwitchFirst, Refused
<1>4. known[from].robot \in Robot
  BY <1>2, <1>3, RobotOfEntry
<1>5. /\ SwitchPosition(known[from].robot, to)
      /\ known' = Flagged(known, from) \/ known' = known
      /\ calls' = <<next>> \o Tail(calls) \/ calls' = Tail(calls)
      /\ running' \in BOOLEAN
  BY DEF SwitchFirst
<1>6. next \in SwapCall
  BY <1>2, <1>3 DEF SwapCall, Call
<1> HIDE DEF from, to, next
<1>7. MapTypes' /\ CounterCovers'
  <2>1. UNCHANGED <<pending_swaps, registered>>
    BY DEF SwitchFirst
  <2>2. CASE known' = known
    BY <2>1, <2>2, StoppingKeeps
  <2>3. CASE known' = Flagged(known, from)
    BY <2>1, <2>3, <1>2, <1>3, FlaggingKeeps
  <2> QED BY <2>2, <2>3, <1>5
<1>8. calls' \in Seq(SwapCall)
  <2> DEFINE rest == Tail(calls)
  <2>1. rest \in Seq(SwapCall)
    BY <1>1
  <2>2. calls' = <<next>> \o rest \/ calls' = rest
    BY <1>5
  <2> HIDE DEF rest
  <2>3. <<next>> \in Seq(SwapCall)
    BY <1>6
  <2>4. <<next>> \o rest \in Seq(SwapCall)
    BY <2>1, <2>3
  <2> QED BY <2>1, <2>2, <2>4
<1>9. RobotTypes'
  BY <1>2, <1>4, <1>5, SwitchPositionType DEF RobotTypes, SwitchFirst
<1>10. WorkTypes' /\ LinkTypes'
  BY <1>5, <1>8 DEF WorkTypes, LinkTypes, SwitchFirst, boundVars
<1> QED BY <1>7, <1>9, <1>10

LEMMA SwitchFirstFailsKeeps ==
    ASSUME ControllerInv, SwitchFirstFails
    PROVE  ControllerInv'
<1> USE DEF ControllerInv
<1> DEFINE from == Head(calls).from
           to == Head(calls).to
<1>1. /\ Head(calls) \in SwapCall /\ Head(calls).op = "switch"
      /\ Tail(calls) \in Seq(SwapCall)
  BY CallingType DEF SwitchFirstFails
<1>2. from \in Position /\ to \in Position
  BY <1>1, CallFields
<1>3. known[from] # None
  BY DEF SwitchFirstFails, Refused
<1>4. known[from].robot \in Robot
  BY <1>2, <1>3, RobotOfEntry
<1>5. /\ SwitchPosition(known[from].robot, to)
      /\ known' = Stop(known, from) /\ calls' = Tail(calls)
      /\ UNCHANGED <<pending_swaps, registered>>
  BY DEF SwitchFirstFails
<1> HIDE DEF from, to
<1>6. MapTypes' /\ CounterCovers'
  BY <1>2, <1>5, StoppingKeeps
<1>7. RobotTypes'
  BY <1>2, <1>4, <1>5, SwitchPositionType DEF RobotTypes, SwitchFirstFails
<1>8. WorkTypes' /\ LinkTypes'
  BY <1>1, <1>5 DEF WorkTypes, LinkTypes, SwitchFirstFails, Fault
<1> QED BY <1>6, <1>7, <1>8

(* A swap that is entered into pending_swaps_.                              *)
LEMMA AddSwapFacts ==
    ASSUME MapTypes, NEW from \in Position, NEW to \in Position, from # to,
           NEW acked, acked \subseteq {from, to}
    PROVE  /\ DOMAIN AddSwap(from, to, acked) \subseteq SwapKey
           /\ \A k \in DOMAIN AddSwap(from, to, acked) :
                 AddSwap(from, to, acked)[k] \subseteq Positions(k)
<1> DEFINE new == Key(from, to)
           s == AddSwap(from, to, acked)
<1>1. new \in SwapKey /\ Positions(new) = {from, to}
  BY KeyFacts
<1>2. /\ DOMAIN s = DOMAIN pending_swaps \cup {new}
      /\ \A k \in DOMAIN s : s[k] = IF k = new THEN acked ELSE pending_swaps[k]
  BY DEF AddSwap
<1> HIDE DEF s, new
<1>3. /\ DOMAIN s \subseteq SwapKey
      /\ \A k \in DOMAIN s : s[k] \subseteq Positions(k)
  BY <1>1, <1>2 DEF MapTypes
<1> QED BY <1>3 DEF s

LEMMA SwitchSecondKeeps ==
    ASSUME ControllerInv, SwitchSecond
    PROVE  ControllerInv'
<1> USE DEF ControllerInv
<1> DEFINE from == Head(calls).from
           to == Head(calls).to
           acked == IF known[to] = None THEN {to} ELSE {}
<1>1. /\ Head(calls) \in SwapCall /\ Head(calls).op = "switch_second"
      /\ Tail(calls) \in Seq(SwapCall)
  BY CallingType DEF SwitchSecond
<1>2. from \in Position /\ to \in Position /\ from # to
  BY <1>1, CallFields
<1>3. /\ \/ known[to] = None /\ UNCHANGED <<goalVars, known>>
         \/ /\ known[to] # None
            /\ SwitchPosition(known[to].robot, from)
            /\ known' = Flagged(known, to) \/ known' = known
      /\ \/ pending_swaps' = AddSwap(from, to, acked)
         \/ pending_swaps' = pending_swaps
      /\ registered' = registered /\ calls' = Tail(calls)
      /\ running' \in BOOLEAN
  BY DEF SwitchSecond
<1>4. acked \subseteq {from, to}
  OBVIOUS
<1> HIDE DEF from, to, acked
<1>5. known' \in Remotes /\ Occupied(known') \subseteq Occupied(known)
  <2>1. known \in Remotes
    BY DEF MapTypes
  <2>2. CASE known' = known
    BY <2>1, <2>2
  <2>3. CASE known[to] # None /\ known' = Flagged(known, to)
    <3>1. known[to] \in RemoteType /\ to \in Occupied(known)
      BY <2>3, <1>2, RobotOfEntry
    <3>2. /\ Flagged(known, to) \in Remotes
          /\ Occupied(Flagged(known, to)) \subseteq Occupied(known) \cup {to}
      BY <2>1, <3>1, <1>2, FlaggedFacts
    <3> QED BY <2>3, <3>1, <3>2
  <2> QED BY <2>2, <2>3, <1>3
<1>6. CounterCovers'
  BY <1>3, <1>5, StillCovered
<1>7. MapTypes'
  <2>1. /\ DOMAIN AddSwap(from, to, acked) \subseteq SwapKey
        /\ \A k \in DOMAIN AddSwap(from, to, acked) :
              AddSwap(from, to, acked)[k] \subseteq Positions(k)
    BY <1>2, <1>4, AddSwapFacts
  <2> QED BY <2>1, <1>3, <1>5 DEF MapTypes
<1>8. RobotTypes'
  <2>1. CASE UNCHANGED goalVars
    BY <2>1 DEF RobotTypes, SwitchSecond, goalVars
  <2>2. CASE known[to] # None /\ SwitchPosition(known[to].robot, from)
    <3>1. known[to].robot \in Robot
      BY <2>2, <1>2, RobotOfEntry
    <3> QED BY <2>2, <3>1, <1>2, SwitchPositionType DEF RobotTypes, SwitchSecond
  <2> QED BY <2>1, <2>2, <1>3
<1>9. WorkTypes' /\ LinkTypes'
  BY <1>1, <1>3 DEF WorkTypes, LinkTypes, SwitchSecond, boundVars
<1> QED BY <1>6, <1>7, <1>8, <1>9

LEMMA SwitchSecondFailsKeeps ==
    ASSUME ControllerInv, SwitchSecondFails
    PROVE  ControllerInv'
<1> USE DEF ControllerInv
<1> DEFINE from == Head(calls).from
           to == Head(calls).to
<1>1. /\ Head(calls) \in SwapCall /\ Head(calls).op = "switch_second"
      /\ Tail(calls) \in Seq(SwapCall)
  BY CallingType DEF SwitchSecondFails
<1>2. from \in Position /\ to \in Position /\ from # to
  BY <1>1, CallFields
<1>3. /\ known[to] # None
      /\ UNCHANGED goalVars \/ SwitchPosition(known[to].robot, from)
      /\ known' = Flagged(Stop(known, to), to)
      /\ pending_swaps' = AddSwap(from, to, {to})
      /\ registered' = registered /\ calls' = Tail(calls)
  BY DEF SwitchSecondFails
<1>4. /\ asked' = asked /\ answered' = answered /\ answer' = answer
      /\ faults' \subseteq FaultKinds
  BY DEF SwitchSecondFails, Fault, LinkTypes
<1> HIDE DEF from, to
<1>5. known' \in Remotes /\ Occupied(known') \subseteq Occupied(known)
  <2> DEFINE m == Stop(known, to)
  <2>1. known \in Remotes
    BY DEF MapTypes
  <2>2. m \in Remotes /\ Occupied(m) \subseteq Occupied(known)
        /\ m[to] \in RemoteType
    BY <2>1, <1>2, <1>3, StopFacts
  <2>3. to \in Occupied(known)
    BY <1>2, <1>3, RobotOfEntry
  <2> HIDE DEF m
  <2>4. /\ Flagged(m, to) \in Remotes
        /\ Occupied(Flagged(m, to)) \subseteq Occupied(m) \cup {to}
    BY <2>2, <1>2, FlaggedFacts
  <2>5. known' = Flagged(m, to)
    BY <1>3 DEF m
  <2> QED BY <2>2, <2>3, <2>4, <2>5
<1>6. CounterCovers'
  BY <1>3, <1>5, StillCovered
<1>7. MapTypes'
  <2>1. /\ DOMAIN AddSwap(from, to, {to}) \subseteq SwapKey
        /\ \A k \in DOMAIN AddSwap(from, to, {to}) :
              AddSwap(from, to, {to})[k] \subseteq Positions(k)
    BY <1>2, AddSwapFacts
  <2> QED BY <2>1, <1>3, <1>5 DEF MapTypes
<1>8. RobotTypes'
  <2>1. CASE UNCHANGED goalVars
    BY <2>1 DEF RobotTypes, SwitchSecondFails, goalVars
  <2>2. CASE SwitchPosition(known[to].robot, from)
    <3>1. known[to].robot \in Robot
      BY <1>2, <1>3, RobotOfEntry
    <3> QED
      BY <2>2, <3>1, <1>2, SwitchPositionType DEF RobotTypes, SwitchSecondFails
  <2> QED BY <2>1, <2>2, <1>3
<1>9. WorkTypes' /\ LinkTypes'
  BY <1>1, <1>3, <1>4 DEF WorkTypes, LinkTypes, SwitchSecondFails
<1> QED BY <1>6, <1>7, <1>8, <1>9

LEMMA ReconfigureCallKeeps ==
    ASSUME ControllerInv, ReconfigureCall
    PROVE  ControllerInv'
<1> USE DEF ControllerInv
<1> DEFINE p == Head(calls).at
           f == Head(calls).profile
<1>1. /\ Head(calls) \in SwapCall /\ Head(calls).op = "reconfigure"
      /\ Tail(calls) \in Seq(SwapCall)
  BY CallingType DEF ReconfigureCall
<1>2. p \in Position /\ f \in Profile
  BY <1>1, CallFields
<1>3. /\ known[p] # None /\ ReconfigureTo(known[p].robot, f)
      /\ \/ known' = Flagged(known, p) \/ known' = known
         \/ known' = Stop(known, p)
      /\ calls' = Tail(calls) /\ UNCHANGED <<pending_swaps, registered>>
  BY DEF ReconfigureCall
<1>4. /\ asked' = asked /\ answered' = answered /\ answer' = answer
      /\ faults' \subseteq FaultKinds
  BY DEF ReconfigureCall, Fault, LinkTypes
<1>5. known[p].robot \in Robot
  BY <1>2, <1>3, RobotOfEntry
<1> HIDE DEF p, f
<1>6. MapTypes' /\ CounterCovers'
  <2>1. CASE known' = Flagged(known, p)
    BY <2>1, <1>2, <1>3, FlaggingKeeps
  <2>2. CASE known' = known \/ known' = Stop(known, p)
    BY <2>2, <1>2, <1>3, StoppingKeeps
  <2> QED BY <2>1, <2>2, <1>3
<1>7. RobotTypes'
  BY <1>2, <1>3, <1>5, ReconfigureToType DEF RobotTypes, ReconfigureCall
<1>8. WorkTypes' /\ LinkTypes'
  BY <1>1, <1>3, <1>4 DEF WorkTypes, LinkTypes, ReconfigureCall
<1> QED BY <1>6, <1>7, <1>8

(* Posting a handler.                                                       *)
LEMMA PostType ==
    ASSUME WorkTypes, NEW h \in Handler, io' = Append(io, h),
           UNCHANGED <<calls, running>>
    PROVE  WorkTypes'
  BY DEF WorkTypes

(* position_changed and capabilities_reconfigured of a remote robot.        *)
LEMMA NotificationKeeps ==
    ASSUME ControllerInv, NEW p \in Position,
           PositionChanged(p) \/ CapabilitiesChanged(p)
    PROVE  ControllerInv'
<1> USE DEF ControllerInv
<1> DEFINE r == known[p].robot
           moved == [known[p] EXCEPT !.cached = place[r]]
           learned == [known[p] EXCEPT !.profile = profile[r]]
           swapped == [op |-> "swapped", old |-> known[p].cached,
                       new |-> place[r]]
           reconfigured == [op |-> "reconfigured", at |-> known[p].cached]
<1>1. known[p] # None
  BY DEF PositionChanged, CapabilitiesChanged, Alive
<1>2. /\ known[p] \in RemoteType /\ r \in Robot /\ p \in Occupied(known)
      /\ known[p].cached \in Position
  BY <1>1, RobotOfEntry
<1>3. place[r] \in Position /\ profile[r] \in Profile
  BY <1>2 DEF RobotTypes
<1>4. moved \in RemoteType /\ learned \in RemoteType
  BY <1>2, <1>3 DEF RemoteType
<1>5. swapped \in Handler /\ reconfigured \in Handler
  BY <1>2, <1>3 DEF Handler
<1>6. /\ \/ known' = [known EXCEPT ![p] = moved]
         \/ known' = [known EXCEPT ![p] = learned]
      /\ io' = Append(io, swapped) \/ io' = Append(io, reconfigured)
      /\ UNCHANGED <<pending_swaps, registered>>
      /\ UNCHANGED <<calls, running>>
  BY DEF PositionChanged, CapabilitiesChanged
<1> HIDE DEF r, moved, learned, swapped, reconfigured
<1>7. MapTypes' /\ CounterCovers'
  <2>1. known \in Remotes
    BY DEF MapTypes
  <2>2. /\ [known EXCEPT ![p] = moved] \in Remotes
        /\ Occupied([known EXCEPT ![p] = moved]) \subseteq Occupied(known) \cup {p}
    BY <2>1, <1>4, UpdateFacts
  <2>3. /\ [known EXCEPT ![p] = learned] \in Remotes
        /\ Occupied([known EXCEPT ![p] = learned]) \subseteq Occupied(known) \cup {p}
    BY <2>1, <1>4, UpdateFacts
  <2>4. known' \in Remotes /\ Occupied(known') \subseteq Occupied(known)
    BY <2>2, <2>3, <1>2, <1>6
  <2> QED BY <2>4, <1>6, SameRobotsKeep
<1>8. WorkTypes'
  BY <1>5, <1>6, PostType
<1>9. RobotTypes' /\ LinkTypes'
  BY DEF PositionChanged, CapabilitiesChanged, RobotTypes, LinkTypes,
         robotVars, goalVars, boundVars
<1> QED BY <1>7, <1>8, <1>9

LEMMA RemoteStopsKeeps ==
    ASSUME ControllerInv, NEW p \in Position, RemoteStops(p) \/ RemoteFails(p)
    PROVE  ControllerInv'
<1> USE DEF ControllerInv
<1>1. MapTypes' /\ CounterCovers'
  <2>1. known' = Stop(known, p) /\ UNCHANGED <<pending_swaps, registered>>
    BY DEF RemoteStops, RemoteFails
  <2> QED BY <2>1, StoppingKeeps
<1>2. LinkTypes'
  BY DEF RemoteStops, RemoteFails, Fault, LinkTypes, boundVars
<1>3. WorkTypes' /\ RobotTypes'
  BY DEF RemoteStops, RemoteFails, WorkTypes, RobotTypes, workVars, robotVars,
         goalVars
<1> QED BY <1>1, <1>2, <1>3

(* The robots' own steps and the receivers'.                                *)
LEMMA RobotStepKeeps ==
    ASSUME ControllerInv, NEW r \in Robot, RobotStep(r)
    PROVE  ControllerInv'
<1> USE DEF ControllerInv
<1>1. MapTypes' /\ CounterCovers'
  <2>1. known' = known /\ UNCHANGED <<pending_swaps, registered>>
    BY DEF RobotStep, Move, CompleteReconfiguration, HandleNewPositionCommit,
           Register, DropController, mapVars
  <2> QED BY <2>1, StoppingKeeps
<1>2. WorkTypes'
  <2>1. CASE Register(r)
    <3> DEFINE h == [op |-> "register", robot |-> r, position |-> place[r],
                     profile |-> profile[r]]
    <3>1. h \in Handler
      BY DEF Handler, RobotTypes
    <3>2. io' = Append(io, h) /\ UNCHANGED <<calls, running>>
      BY <2>1 DEF Register
    <3> HIDE DEF h
    <3> QED BY <3>1, <3>2, PostType
  <2>2. CASE ~ Register(r)
    BY <2>2 DEF RobotStep, Move, CompleteReconfiguration,
           HandleNewPositionCommit, DropController, workVars, WorkTypes
  <2> QED BY <2>1, <2>2
<1>3. RobotTypes'
  <2>1. CASE Move(r)
    BY <2>1 DEF Move, RobotTypes
  <2>2. CASE CompleteReconfiguration(r)
    BY <2>2 DEF CompleteReconfiguration, RobotTypes
  <2>3. CASE HandleNewPositionCommit(r)
    BY <2>3 DEF HandleNewPositionCommit, RobotTypes
  <2>4. CASE Register(r) \/ DropController(r)
    BY <2>4 DEF Register, DropController, RobotTypes, robotVars, goalVars
  <2> QED BY <2>1, <2>2, <2>3, <2>4 DEF RobotStep
<1>4. LinkTypes'
  BY DEF RobotStep, Move, CompleteReconfiguration, HandleNewPositionCommit,
         Register, DropController, boundVars, LinkTypes
<1> QED BY <1>1, <1>2, <1>3, <1>4

LEMMA ReceiverStepKeeps ==
    ASSUME ControllerInv, NEW a \in Agent, Ask(a) \/ ReceiverBreaks(a)
    PROVE  ControllerInv'
<1> USE DEF ControllerInv
<1>1. MapTypes' /\ CounterCovers'
  <2>1. known' = known /\ UNCHANGED <<pending_swaps, registered>>
    BY DEF Ask, ReceiverBreaks, mapVars
  <2> QED BY <2>1, StoppingKeeps
<1>2. WorkTypes'
  <2>1. CASE Ask(a)
    <3>1. PICK r \in Recipe :
             \E n \in 0..(Len(Instructions[r]) - 1) :
                io' = Append(io, [op |-> "next_robot", agent |-> a,
                                  recipe |-> r, steps |-> n])
      BY <2>1 DEF Ask
    <3>2. PICK n \in 0..(Len(Instructions[r]) - 1) :
             io' = Append(io, [op |-> "next_robot", agent |-> a,
                               recipe |-> r, steps |-> n])
      BY <3>1
    <3>3. [op |-> "next_robot", agent |-> a, recipe |-> r, steps |-> n]
            \in Handler
      BY DEF Handler
    <3>4. UNCHANGED <<calls, running>>
      BY <2>1 DEF Ask
    <3> QED BY <3>2, <3>3, <3>4, PostType
  <2>2. CASE ReceiverBreaks(a)
    BY <2>2 DEF ReceiverBreaks, workVars, WorkTypes
  <2> QED BY <2>1, <2>2
<1>3. RobotTypes'
  BY DEF Ask, ReceiverBreaks, robotVars, goalVars, RobotTypes
<1>4. LinkTypes'
  BY DEF Ask, ReceiverBreaks, Fault, LinkTypes
<1> QED BY <1>1, <1>2, <1>3, <1>4

(* A robot's crash or a broken connection cuts its entries off.             *)
LEMMA CutFacts ==
    ASSUME MapTypes, NEW r
    PROVE  /\ Cut(known, r) \in Remotes
           /\ Occupied(Cut(known, r)) \subseteq Occupied(known)
<1>1. \A p \in Position : Alive(p) =>
         [known[p] EXCEPT !.link = "broken"] \in RemoteType
  <2>1. ASSUME NEW p \in Position, Alive(p)
        PROVE  [known[p] EXCEPT !.link = "broken"] \in RemoteType
    <3>1. known[p] \in RemoteType
      BY <2>1, RobotOfEntry DEF Alive
    <3> QED BY <3>1 DEF RemoteType
  <2> QED BY <2>1
<1>2. Cut(known, r) \in Remotes
  BY <1>1 DEF Cut, Remotes, MapTypes
<1>3. Occupied(Cut(known, r)) \subseteq Occupied(known)
  BY DEF Cut, Occupied, Alive
<1> QED BY <1>2, <1>3

LEMMA CrashKeeps ==
    ASSUME ControllerInv, NEW r \in Robot, RobotCrashes(r) \/ LinkBreaks(r)
    PROVE  ControllerInv'
<1> USE DEF ControllerInv
<1>1. MapTypes' /\ CounterCovers'
  <2>1. known' = Cut(known, r) /\ UNCHANGED <<pending_swaps, registered>>
    BY DEF RobotCrashes, LinkBreaks
  <2> QED BY <2>1, CutFacts, SameRobotsKeep
<1>2. WorkTypes' /\ RobotTypes'
  BY DEF RobotCrashes, LinkBreaks, WorkTypes, RobotTypes, workVars, robotVars,
         goalVars
<1>3. LinkTypes'
  BY DEF RobotCrashes, LinkBreaks, Fault, Stale, LinkTypes
<1> QED BY <1>1, <1>2, <1>3

LEMMA NoRobotsFacts ==
    NoRobots \in Remotes /\ Cardinality(Occupied(NoRobots)) = 0
<1>1. Occupied(NoRobots) = {}
  BY DEF Occupied, NoRobots
<1> QED BY <1>1, FS_EmptySet DEF NoRobots, Remotes

LEMMA ControllerCrashesKeeps ==
    ASSUME ControllerInv, ControllerCrashes
    PROVE  ControllerInv'
<1> USE DEF ControllerInv
<1>1. CounterCovers'
  BY NoRobotsFacts DEF ControllerCrashes, CounterCovers
<1>2. MapTypes'
  BY NoRobotsFacts DEF ControllerCrashes, MapTypes, NoSwaps
<1>3. WorkTypes' /\ RobotTypes'
  BY DEF ControllerCrashes, WorkTypes, RobotTypes, robotVars, goalVars
<1>4. LinkTypes'
  BY DEF ControllerCrashes, Fault, Stale, LinkTypes
<1> QED BY <1>1, <1>2, <1>3, <1>4

LEMMA InitEstablishes == Init => ControllerInv
<1> SUFFICES ASSUME Init PROVE ControllerInv
  OBVIOUS
<1>1. MapTypes /\ CounterCovers
  BY NoRobotsFacts DEF Init, MapTypes, CounterCovers, NoSwaps
<1>2. WorkTypes
  BY DEF Init, WorkTypes
<1>3. RobotTypes
  BY ControllerAssumption DEF Init, RobotTypes
<1>4. LinkTypes
  BY DEF Init, LinkTypes, NoRobot
<1> QED BY <1>1, <1>2, <1>3, <1>4 DEF ControllerInv

LEMMA NextKeeps == ControllerInv /\ [Next]_vars => ControllerInv'
<1> SUFFICES ASSUME ControllerInv, [Next]_vars PROVE ControllerInv'
  OBVIOUS
<1>1. CASE WorkerStep
  BY <1>1, HandleRobotRegistrationKeeps, CommittingKeeps,
     HandleNextRobotRequestKeeps, AnsweringKeeps, SkippingKeeps,
     SwitchFirstKeeps, SwitchFirstFailsKeeps, SwitchSecondKeeps,
     SwitchSecondFailsKeeps, ReconfigureCallKeeps, HandlePositionSwappedKeeps,
     HandleCapabilitiesReconfiguredKeeps
     DEF WorkerStep
<1>2. CASE RemoteStep
  BY <1>2, NotificationKeeps, RemoteStopsKeeps DEF RemoteStep
<1>3. CASE \E r \in Robot : RobotStep(r)
  BY <1>3, RobotStepKeeps
<1>4. CASE Disturbance
  BY <1>4, ReceiverStepKeeps, CrashKeeps, RemoteStopsKeeps,
     ControllerCrashesKeeps
     DEF Disturbance
<1>5. CASE UNCHANGED vars
  BY <1>5 DEF vars, mapVars, workVars, robotVars, goalVars, boundVars,
     ControllerInv, MapTypes, CounterCovers, WorkTypes, RobotTypes, LinkTypes
<1> QED BY <1>1, <1>2, <1>3, <1>4, <1>5 DEF Next

(* ControllerInv holds in every state the controller reaches.               *)
THEOREM Invariance == Spec => []ControllerInv
BY InitEstablishes, NextKeeps, PTL DEF Spec

(* Every variable keeps its type, whatever fails: a swap is between two     *)
(* positions and acknowledged by those only, adaptations are asked towards  *)
(* positions of the belt, the unsigned counter never wraps.                 *)
THEOREM TypeCorrect == Spec => []TypeOK
<1>1. ASSUME ControllerInv
      PROVE  TypeOK
  <2>1. calls \in Seq(Call)
    <3>1. SwapCall \subseteq Call
      BY DEF SwapCall
    <3> QED BY <3>1, <1>1 DEF ControllerInv, WorkTypes
  <2> QED BY <2>1, <1>1 DEF ControllerInv, MapTypes, CounterCovers, WorkTypes,
             RobotTypes, LinkTypes, TypeOK, Remotes
<1>2. ControllerInv => TypeOK
  BY <1>1
<1> QED BY <1>2, Invariance, PTL

(* REGISTERED_ROBOTS never says less than the map holds, whatever fails.    *)
THEOREM CounterCoversMap == Spec => []CounterCovers
<1>1. ControllerInv => CounterCovers
  BY DEF ControllerInv
<1> QED BY <1>1, Invariance, PTL
==============================================================================
