----------------------------- MODULE KitchenProofs -----------------------------
(***************************************************************************)
(* Theorems about Kitchen, for any positions and robots and any number of  *)
(* orders, moves and faults.  The properties are inductive once the types  *)
(* are known; what each step needs is how many handlers of each kind it    *)
(* posts and takes (Gains).                                                *)
(***************************************************************************)
EXTENDS Kitchen, FiniteSetTheorems, TLAPS

KitchenInv ==
    TypeOK /\ OneGateDriver /\ NoOrderStranded /\ OrdersAccounted /\ DishesCounted

------------------------------------------------------------------------------
(* Counting the handlers in io_context_.                                    *)

At(s, op) == {i \in DOMAIN s : s[i].op = op}

LEMMA CountIs == \A op : /\ Count(op) = Cardinality(At(io, op))
                         /\ Count(op)' = Cardinality(At(io', op))
BY DEF Count, At

LEMMA AtFinite ==
    ASSUME NEW s \in Seq(Handler), NEW op
    PROVE  IsFiniteSet(At(s, op)) /\ Cardinality(At(s, op)) \in Nat
<1>1. Len(s) \in Nat /\ DOMAIN s = 1..Len(s)
  OBVIOUS
<1>2. At(s, op) \in SUBSET (1..Len(s))
  BY <1>1 DEF At
<1>3. IsFiniteSet(1..Len(s))
  BY <1>1, FS_Interval
<1>4. IsFiniteSet(At(s, op))
  BY <1>2, <1>3, FS_Subset
<1> QED BY <1>4, FS_CardinalityType

(* Posting h adds one to the handlers of its kind.                          *)
LEMMA AtAppend ==
    ASSUME NEW s \in Seq(Handler), NEW h \in Handler, NEW op
    PROVE  Cardinality(At(Append(s, h), op))
             = Cardinality(At(s, op)) + One(h.op = op)
<1> DEFINE t == Append(s, h)
<1>1. /\ Len(s) \in Nat /\ DOMAIN s = 1..Len(s)
      /\ DOMAIN t = 1..(Len(s) + 1)
      /\ \A i \in 1..Len(s) : t[i] = s[i]
      /\ t[Len(s) + 1] = h
  OBVIOUS
<1> HIDE DEF t
<1>2. CASE h.op = op
  <2>1. At(t, op) = At(s, op) \cup {Len(s) + 1}
    BY <1>1, <1>2 DEF At
  <2>2. Len(s) + 1 \notin At(s, op)
    BY <1>1 DEF At
  <2>3. Cardinality(At(s, op) \cup {Len(s) + 1}) = Cardinality(At(s, op)) + 1
    BY <2>2, AtFinite, FS_AddElement
  <2> QED BY <1>2, <2>1, <2>3 DEF One, t
<1>3. CASE h.op # op
  <2>1. At(t, op) = At(s, op)
    BY <1>1, <1>3 DEF At
  <2> QED BY <1>3, <2>1, AtFinite DEF One, t
<1> QED BY <1>2, <1>3

(* Taking the first handler takes one off those of its kind.                *)
LEMMA AtTail ==
    ASSUME NEW s \in Seq(Handler), s # <<>>, NEW op
    PROVE  Cardinality(At(Tail(s), op))
             = Cardinality(At(s, op)) - One(Head(s).op = op)
<1> DEFINE t == Tail(s)
           rest == At(s, op) \ {1}
           back == [i \in rest |-> i - 1]
<1>1. /\ DOMAIN s = 1..Len(s) /\ Len(s) \in Nat \ {0}
      /\ DOMAIN t = 1..(Len(s) - 1)
      /\ \A i \in 1..(Len(s) - 1) : t[i] = s[i + 1]
      /\ Head(s) = s[1]
  OBVIOUS
<1> HIDE DEF t
<1>2. IsFiniteSet(At(s, op)) /\ Cardinality(At(s, op)) \in Nat
  BY AtFinite
<1>3. 1 \in At(s, op) <=> Head(s).op = op
  BY <1>1 DEF At
<1>4. Cardinality(rest) = IF 1 \in At(s, op) THEN Cardinality(At(s, op)) - 1
                          ELSE Cardinality(At(s, op))
  BY <1>2, FS_RemoveElement
<1>5. IsFiniteSet(rest)
  BY <1>2, FS_RemoveElement
<1>6. rest \subseteq 2..Len(s)
  BY <1>1 DEF At
<1>7. back \in Bijection(rest, At(t, op))
  <2>1. \A i \in rest : back[i] \in At(t, op)
    BY <1>1, <1>6 DEF At
  <2>2. \A i, j \in rest : back[i] = back[j] => i = j
    BY <1>6
  <2>3. \A j \in At(t, op) : \E i \in rest : back[i] = j
    <3>1. ASSUME NEW j \in At(t, op)
          PROVE  j + 1 \in rest /\ back[j + 1] = j
      BY <1>1 DEF At
    <3> QED BY <3>1
  <2> QED BY <2>1, <2>2, <2>3 DEF Bijection, Injection, Surjection, IsInjective
<1>8. Cardinality(At(t, op)) = Cardinality(rest)
  BY <1>5, <1>7, FS_Bijection DEF ExistsBijection
<1> QED BY <1>2, <1>3, <1>4, <1>8 DEF One, t

(* What a step does to the three kinds of handlers that carry an account.   *)
Counted == {"gate", "next_robot", "completed"}

Gains(gate, answer, dish) ==
    /\ io' \in Seq(Handler)
    /\ \A op \in Counted : Count(op) \in Nat /\ Count(op)' \in Nat
    /\ Count("gate")' = Count("gate") + gate
    /\ Count("next_robot")' = Count("next_robot") + answer
    /\ Count("completed")' = Count("completed") + dish

LEMMA CountsAreNat ==
    ASSUME io \in Seq(Handler), io' \in Seq(Handler)
    PROVE  \A op \in Counted : Count(op) \in Nat /\ Count(op)' \in Nat
BY CountIs, AtFinite

LEMMA GainsSame ==
    ASSUME TypeOK, UNCHANGED io
    PROVE  Gains(0, 0, 0)
<1>1. io \in Seq(Handler) /\ io' \in Seq(Handler)
  BY DEF TypeOK, WorkTypes
<1>2. \A op : Count(op)' = Count(op)
  BY DEF Count
<1> QED BY <1>1, <1>2, CountsAreNat DEF Gains, Counted

LEMMA GainsPost ==
    ASSUME TypeOK, NEW h \in Handler, io' = Append(io, h)
    PROVE  Gains(One(h.op = "gate"), One(h.op = "next_robot"),
                 One(h.op = "completed"))
<1>1. io \in Seq(Handler) /\ io' \in Seq(Handler)
  BY DEF TypeOK, WorkTypes
<1>2. \A op : Count(op)' = Count(op) + One(h.op = op)
  BY <1>1, AtAppend, CountIs
<1> QED BY <1>1, <1>2, CountsAreNat DEF Gains

LEMMA GainsTake ==
    ASSUME TypeOK, NEW o, Take(o)
    PROVE  /\ Head(io) \in Handler /\ Head(io).op = o
           /\ Gains(- One(o = "gate"), - One(o = "next_robot"),
                    - One(o = "completed"))
<1>1. /\ io \in Seq(Handler) /\ io # <<>> /\ io' = Tail(io) /\ Head(io).op = o
  BY DEF TypeOK, WorkTypes, Take
<1>2. Head(io) \in Handler /\ io' \in Seq(Handler)
  BY <1>1
<1>3. \A op : Count(op)' = Count(op) - One(o = op)
  BY <1>1, AtTail, CountIs
<1>4. \A op \in Counted : Count(op)' = Count(op) + (- One(o = op))
  BY <1>1, <1>2, <1>3, CountsAreNat DEF One
<1> QED BY <1>1, <1>2, <1>4, CountsAreNat DEF Gains, Counted

------------------------------------------------------------------------------
(* The initial state.                                                       *)

LEMMA InitEstablishes == Init => KitchenInv
<1> SUFFICES ASSUME Init PROVE KitchenInv
  OBVIOUS
<1>1. TypeOK
  <2>1. MapTypes /\ GateTypes /\ CounterTypes /\ WorldTypes
    BY KitchenAssumption DEF Init, MapTypes, GateTypes, CounterTypes, WorldTypes
  <2>2. WorkTypes
    BY DEF Init, WorkTypes, Phase
  <2> QED BY <2>1, <2>2 DEF TypeOK
<1>2. \A op : Count(op) = 0
  <2>1. \A op : {i \in DOMAIN io : io[i].op = op} = {}
    BY DEF Init
  <2> QED BY <2>1, FS_EmptySet DEF Count
<1>3. OneGateDriver /\ NoOrderStranded /\ OrdersAccounted /\ DishesCounted
  BY <1>2 DEF Init, OneGateDriver, NoOrderStranded, OrdersAccounted,
     DishesCounted, Asking, Killed, One
<1> QED BY <1>1, <1>3 DEF KitchenInv

------------------------------------------------------------------------------
(* Every step keeps KitchenInv: first what it does to the queue, then the   *)
(* types, the gate and the accounts.                                        *)

LEMMA PlaceRandomOrderKeeps ==
    ASSUME KitchenInv, PlaceRandomOrder
    PROVE  KitchenInv'
<1>1. Gains(0, 0, 0)
  BY GainsPost DEF PlaceRandomOrder, KitchenInv, Handler, One
<1>2. TypeOK'
  <2>1. MapTypes'
    BY DEF PlaceRandomOrder, KitchenInv, TypeOK, MapTypes
  <2>2. GateTypes'
    BY DEF PlaceRandomOrder, KitchenInv, TypeOK, GateTypes, orderVars
  <2>3. CounterTypes'
    BY DEF PlaceRandomOrder, KitchenInv, TypeOK, CounterTypes, WorkTypes,
       orderVars, counterVars, boundVars, ghostVars
  <2>4. WorkTypes'
    BY <1>1 DEF PlaceRandomOrder, Gains, KitchenInv, TypeOK, MapTypes,
       WorkTypes, Phase, workVars
  <2>5. WorldTypes'
    BY DEF PlaceRandomOrder, KitchenInv, TypeOK, WorldTypes, worldVars
  <2> QED BY <2>1, <2>2, <2>3, <2>4, <2>5 DEF TypeOK
<1>3. OneGateDriver'
  BY <1>1 DEF PlaceRandomOrder, Gains, Counted, KitchenInv, TypeOK, GateTypes,
     CounterTypes, WorkTypes, Phase, OneGateDriver, Asking, Killed, One, orderVars, workVars
<1>4. NoOrderStranded'
  BY <1>1, <1>3 DEF PlaceRandomOrder, Gains, Counted, KitchenInv, TypeOK,
     GateTypes, CounterTypes, NoOrderStranded, OneGateDriver, Asking, Killed, One, orderVars
<1>5. OrdersAccounted'
  BY <1>1 DEF PlaceRandomOrder, Gains, Counted, KitchenInv, TypeOK, GateTypes,
     CounterTypes, WorkTypes, Phase, OrdersAccounted, One, counterVars,
     workVars, ghostVars
<1>6. DishesCounted'
  BY <1>1 DEF PlaceRandomOrder, Gains, Counted, KitchenInv, TypeOK, GateTypes,
     CounterTypes, DishesCounted, counterVars, ghostVars
<1> QED BY <1>2, <1>3, <1>4, <1>5, <1>6 DEF KitchenInv

LEMMA HandleRandomOrderRequestKeeps ==
    ASSUME KitchenInv, HandleRandomOrderRequest
    PROVE  KitchenInv'
<1>1. Gains(0, 0, 0)
  BY GainsTake DEF HandleRandomOrderRequest, KitchenInv, One
<1>2. TypeOK'
  <2>1. MapTypes'
    BY DEF HandleRandomOrderRequest, remove_stopped_robots, KitchenInv, TypeOK,
       MapTypes
  <2>2. GateTypes'
    BY DEF HandleRandomOrderRequest, Take, Place, Pass, KitchenInv, TypeOK,
       GateTypes, orderVars
  <2>3. CounterTypes'
    BY DEF HandleRandomOrderRequest, Take, Place, Pass, KitchenInv, TypeOK,
       CounterTypes, WorkTypes, orderVars, counterVars, boundVars, ghostVars
  <2>4. WorkTypes'
    BY <1>1 DEF HandleRandomOrderRequest, Take, Place, Pass, Gains, KitchenInv,
       TypeOK, MapTypes, WorkTypes, Phase, workVars
  <2>5. WorldTypes'
    BY DEF HandleRandomOrderRequest, Take, Place, Pass, KitchenInv, TypeOK,
       WorldTypes, worldVars
  <2> QED BY <2>1, <2>2, <2>3, <2>4, <2>5 DEF TypeOK
<1>3. OneGateDriver'
  <2>1. CASE gate_open
    BY <1>1, <2>1 DEF HandleRandomOrderRequest, Take, Place, Pass, Gains,
       Counted, KitchenInv, TypeOK, GateTypes, CounterTypes, WorkTypes, Phase,
       OneGateDriver, Asking, Killed, One, orderVars, workVars
  <2>2. CASE ~ gate_open
    BY <1>1, <2>2 DEF HandleRandomOrderRequest, Take, Place, Pass, Gains,
       Counted, KitchenInv, TypeOK, GateTypes, CounterTypes, WorkTypes, Phase,
       OneGateDriver, Asking, Killed, One, orderVars, workVars
  <2> QED BY <2>1, <2>2
<1>4. NoOrderStranded'
  <2>1. CASE gate_open
    BY <1>1, <1>3, <2>1 DEF HandleRandomOrderRequest, Take, Place, Pass, Gains,
       Counted, KitchenInv, TypeOK, GateTypes, CounterTypes, NoOrderStranded,
       OneGateDriver, Asking, Killed, One, orderVars
  <2>2. CASE ~ gate_open
    BY <1>1, <1>3, <2>2 DEF HandleRandomOrderRequest, Take, Place, Pass, Gains,
       Counted, KitchenInv, TypeOK, GateTypes, CounterTypes, NoOrderStranded,
       OneGateDriver, Asking, Killed, One, orderVars
  <2> QED BY <2>1, <2>2
<1>5. OrdersAccounted'
  <2>1. CASE gate_open
    BY <1>1, <2>1 DEF HandleRandomOrderRequest, Take, Place, Pass, Gains,
       Counted, KitchenInv, TypeOK, GateTypes, CounterTypes, WorkTypes, Phase,
       OrdersAccounted, One, counterVars, workVars, ghostVars
  <2>2. CASE ~ gate_open
    BY <1>1, <2>2 DEF HandleRandomOrderRequest, Take, Place, Pass, Gains,
       Counted, KitchenInv, TypeOK, GateTypes, CounterTypes, WorkTypes, Phase,
       OrdersAccounted, One, counterVars, workVars, ghostVars
  <2> QED BY <2>1, <2>2
<1>6. DishesCounted'
  <2>1. CASE gate_open
    BY <1>1, <2>1 DEF HandleRandomOrderRequest, Take, Place, Pass, Gains,
       Counted, KitchenInv, TypeOK, GateTypes, CounterTypes, DishesCounted,
       counterVars, ghostVars
  <2>2. CASE ~ gate_open
    BY <1>1, <2>2 DEF HandleRandomOrderRequest, Take, Place, Pass, Gains,
       Counted, KitchenInv, TypeOK, GateTypes, CounterTypes, DishesCounted,
       counterVars, ghostVars
  <2> QED BY <2>1, <2>2
<1> QED BY <1>2, <1>3, <1>4, <1>5, <1>6 DEF KitchenInv

LEMMA TimerExpiresKeeps ==
    ASSUME KitchenInv, TimerExpires
    PROVE  KitchenInv'
<1>1. Gains(1, 0, 0)
  BY GainsPost DEF TimerExpires, KitchenInv, Handler, One
<1>2. TypeOK'
  <2>1. MapTypes'
    BY DEF TimerExpires, KitchenInv, TypeOK, MapTypes
  <2>2. GateTypes'
    BY DEF TimerExpires, KitchenInv, TypeOK, GateTypes, orderVars
  <2>3. CounterTypes'
    BY DEF TimerExpires, KitchenInv, TypeOK, CounterTypes, WorkTypes, orderVars,
       counterVars, boundVars, ghostVars
  <2>4. WorkTypes'
    BY <1>1 DEF TimerExpires, Gains, KitchenInv, TypeOK, MapTypes, WorkTypes,
       Phase, workVars
  <2>5. WorldTypes'
    BY DEF TimerExpires, KitchenInv, TypeOK, WorldTypes, worldVars
  <2> QED BY <2>1, <2>2, <2>3, <2>4, <2>5 DEF TypeOK
<1>3. OneGateDriver'
  BY <1>1, SMTT(60) DEF TimerExpires, Gains, Counted, KitchenInv, TypeOK, GateTypes,
     CounterTypes, WorkTypes, Phase, OneGateDriver, Asking, Killed, One, orderVars, workVars
<1>4. NoOrderStranded'
  BY <1>1, <1>3 DEF TimerExpires, Gains, Counted, KitchenInv, TypeOK, GateTypes,
     CounterTypes, NoOrderStranded, OneGateDriver, Asking, Killed, One, orderVars
<1>5. OrdersAccounted'
  BY <1>1 DEF TimerExpires, Gains, Counted, KitchenInv, TypeOK, GateTypes,
     CounterTypes, WorkTypes, Phase, OrdersAccounted, One, counterVars,
     workVars, ghostVars
<1>6. DishesCounted'
  BY <1>1 DEF TimerExpires, Gains, Counted, KitchenInv, TypeOK, GateTypes,
     CounterTypes, DishesCounted, counterVars, ghostVars
<1> QED BY <1>2, <1>3, <1>4, <1>5, <1>6 DEF KitchenInv

LEMMA HandlePlacingGateKeeps ==
    ASSUME KitchenInv, HandlePlacingGate
    PROVE  KitchenInv'
<1>1. Gains(-1, 0, 0)
  BY GainsTake DEF HandlePlacingGate, KitchenInv, One
<1>0. ~ gate_open /\ ~ timer /\ Count("gate") = 1
      /\ phase = "idle" /\ Count("gate")' = 0
  BY <1>1 DEF HandlePlacingGate, Take, Gains, Counted, KitchenInv, TypeOK,
     GateTypes, OneGateDriver, Asking, Killed, One
<1>2. TypeOK'
  <2>1. MapTypes'
    BY DEF HandlePlacingGate, Take, Place, Waiting, Reopened, KitchenInv,
       TypeOK, MapTypes
  <2>2. GateTypes'
    BY DEF HandlePlacingGate, Take, Place, Waiting, Reopened, KitchenInv,
       TypeOK, GateTypes, orderVars
  <2>3. CounterTypes'
    BY DEF HandlePlacingGate, Take, Place, Waiting, Reopened, KitchenInv,
       TypeOK, CounterTypes, WorkTypes, orderVars, counterVars, boundVars,
       ghostVars
  <2>4. WorkTypes'
    BY <1>1 DEF HandlePlacingGate, Take, Place, Waiting, Reopened, Gains,
       KitchenInv, TypeOK, MapTypes, WorkTypes, Phase, workVars
  <2>5. WorldTypes'
    BY DEF HandlePlacingGate, Take, Place, Waiting, Reopened, KitchenInv,
       TypeOK, WorldTypes, worldVars
  <2> QED BY <2>1, <2>2, <2>3, <2>4, <2>5 DEF TypeOK
<1>3. OneGateDriver'
  <2>1. CASE placing_queue > 0
    BY <1>1, <1>0, <2>1 DEF HandlePlacingGate, Take, Place, Waiting, Reopened,
       Gains, Counted, KitchenInv, TypeOK, GateTypes, CounterTypes, WorkTypes,
       Phase, OneGateDriver, Asking, Killed, One, orderVars, workVars
  <2>2. CASE ~ placing_queue > 0
    BY <1>1, <1>0, <2>2 DEF HandlePlacingGate, Take, Place, Waiting, Reopened,
       Gains, Counted, KitchenInv, TypeOK, GateTypes, CounterTypes, WorkTypes,
       Phase, OneGateDriver, Asking, Killed, One, orderVars, workVars
  <2> QED BY <2>1, <2>2
<1>4. NoOrderStranded'
  <2>1. CASE placing_queue > 0
    BY <1>1, <1>3, <2>1, SMTT(60) DEF HandlePlacingGate, Take, Place, Waiting, Reopened,
       Gains, Counted, KitchenInv, TypeOK, GateTypes, CounterTypes,
       NoOrderStranded, OneGateDriver, Asking, Killed, One, orderVars
  <2>2. CASE ~ placing_queue > 0
    BY <1>1, <1>3, <2>2 DEF HandlePlacingGate, Take, Place, Waiting, Reopened,
       Gains, Counted, KitchenInv, TypeOK, GateTypes, CounterTypes,
       NoOrderStranded, OneGateDriver, Asking, Killed, One, orderVars
  <2> QED BY <2>1, <2>2
<1>5. OrdersAccounted'
  <2>1. CASE placing_queue > 0
    BY <1>1, <2>1, SMTT(60) DEF HandlePlacingGate, Take, Place, Waiting, Reopened, Gains,
       Counted, KitchenInv, TypeOK, GateTypes, CounterTypes, WorkTypes, Phase,
       OrdersAccounted, One, counterVars, workVars, ghostVars
  <2>2. CASE ~ placing_queue > 0
    BY <1>1, <2>2 DEF HandlePlacingGate, Take, Place, Waiting, Reopened, Gains,
       Counted, KitchenInv, TypeOK, GateTypes, CounterTypes, WorkTypes, Phase,
       OrdersAccounted, One, counterVars, workVars, ghostVars
  <2> QED BY <2>1, <2>2
<1>6. DishesCounted'
  <2>1. CASE placing_queue > 0
    BY <1>1, <2>1 DEF HandlePlacingGate, Take, Place, Waiting, Reopened, Gains,
       Counted, KitchenInv, TypeOK, GateTypes, CounterTypes, DishesCounted,
       counterVars, ghostVars
  <2>2. CASE ~ placing_queue > 0
    BY <1>1, <2>2 DEF HandlePlacingGate, Take, Place, Waiting, Reopened, Gains,
       Counted, KitchenInv, TypeOK, GateTypes, CounterTypes, DishesCounted,
       counterVars, ghostVars
  <2> QED BY <2>1, <2>2
<1> QED BY <1>2, <1>3, <1>4, <1>5, <1>6 DEF KitchenInv

LEMMA ChooseNextRobotKeeps ==
    ASSUME KitchenInv, ChooseNextRobot
    PROVE  KitchenInv'
<1>1. Gains(0, 0, 0)
  BY GainsSame DEF ChooseNextRobot, KitchenInv
<1>2. TypeOK'
  <2>1. MapTypes'
    BY DEF ChooseNextRobot, KitchenInv, TypeOK, MapTypes
  <2>2. GateTypes'
    BY DEF ChooseNextRobot, KitchenInv, TypeOK, GateTypes, orderVars
  <2>3. CounterTypes'
    BY DEF ChooseNextRobot, KitchenInv, TypeOK, CounterTypes, WorkTypes,
       orderVars, counterVars, boundVars, ghostVars
  <2>4. WorkTypes'
    BY <1>1 DEF ChooseNextRobot, Asking, Gains, KitchenInv, TypeOK, MapTypes,
       WorkTypes, Phase, workVars
  <2>5. WorldTypes'
    BY DEF ChooseNextRobot, KitchenInv, TypeOK, WorldTypes, worldVars
  <2> QED BY <2>1, <2>2, <2>3, <2>4, <2>5 DEF TypeOK
<1>3. OneGateDriver'
  BY <1>1 DEF ChooseNextRobot, Gains, Counted, KitchenInv, TypeOK, GateTypes,
     CounterTypes, WorkTypes, Phase, OneGateDriver, Asking, Killed, One, orderVars, workVars
<1>4. NoOrderStranded'
  BY <1>1, <1>3 DEF ChooseNextRobot, Gains, Counted, KitchenInv, TypeOK,
     GateTypes, CounterTypes, NoOrderStranded, OneGateDriver, Asking, Killed, One, orderVars
<1>5. OrdersAccounted'
  BY <1>1 DEF ChooseNextRobot, Asking, Gains, Counted, KitchenInv, TypeOK, GateTypes,
     CounterTypes, WorkTypes, Phase, OrdersAccounted, One, counterVars,
     workVars, ghostVars
<1>6. DishesCounted'
  BY <1>1 DEF ChooseNextRobot, Gains, Counted, KitchenInv, TypeOK, GateTypes,
     CounterTypes, DishesCounted, counterVars, ghostVars
<1> QED BY <1>2, <1>3, <1>4, <1>5, <1>6 DEF KitchenInv

LEMMA ChooseNextRobotFailsKeeps ==
    ASSUME KitchenInv, ChooseNextRobotFails
    PROVE  KitchenInv'
<1>0. /\ phase \in {"choosing", "waiting"} /\ phase' = "waiting"
      /\ \E n \in {0, 1} : requests' = requests + n /\ repeated' = repeated + n
      /\ UNCHANGED <<orderVars, counterVars, cooking, forgotten, unconfirmed,
                     doubled>>
      /\ ordered' \in Nat /\ moves' \in Nat /\ faults' \in Nat
  BY DEF ChooseNextRobotFails, Asking, Fault, boundVars, KitchenInv, TypeOK,
     CounterTypes
<1>1. Gains(0, 0, 0)
  BY GainsSame DEF ChooseNextRobotFails, KitchenInv
<1>2. TypeOK'
  <2>1. MapTypes'
    BY DEF ChooseNextRobotFails, Fault, KitchenInv, TypeOK, MapTypes
  <2>2. GateTypes'
    BY DEF ChooseNextRobotFails, Fault, KitchenInv, TypeOK, GateTypes, orderVars
  <2>3. CounterTypes'
    BY <1>0 DEF KitchenInv, TypeOK, CounterTypes, WorkTypes, orderVars,
       counterVars, boundVars, ghostVars
  <2>4. WorkTypes'
    BY <1>0, <1>1 DEF ChooseNextRobotFails, Gains, KitchenInv, TypeOK,
       MapTypes, WorkTypes, Phase, workVars
  <2>5. WorldTypes'
    BY DEF ChooseNextRobotFails, Fault, KitchenInv, TypeOK, WorldTypes,
       worldVars
  <2> QED BY <2>1, <2>2, <2>3, <2>4, <2>5 DEF TypeOK
<1>3. OneGateDriver'
  BY <1>0, <1>1 DEF Gains, Counted, KitchenInv, TypeOK, GateTypes, CounterTypes,
     WorkTypes, Phase, OneGateDriver, Asking, Killed, One, orderVars, workVars
<1>4. NoOrderStranded'
  BY <1>0, <1>1, <1>3 DEF Gains, Counted, KitchenInv, TypeOK, GateTypes,
     CounterTypes, NoOrderStranded, OneGateDriver, Asking, Killed, One, orderVars
<1>5. OrdersAccounted'
  BY <1>0, <1>1, SMTT(60) DEF Gains, Counted, KitchenInv, TypeOK, CounterTypes,
     OrdersAccounted, One, counterVars, ghostVars
<1>6. DishesCounted'
  BY <1>0, <1>1 DEF Gains, Counted, KitchenInv, TypeOK, GateTypes, CounterTypes,
     DishesCounted, counterVars, ghostVars
<1> QED BY <1>2, <1>3, <1>4, <1>5, <1>6 DEF KitchenInv

LEMMA ChooseWithoutClientKeeps ==
    ASSUME KitchenInv, ChooseWithoutClient
    PROVE  KitchenInv'
<1>1. Gains(0, 0, 0)
  BY GainsSame DEF ChooseWithoutClient, KitchenInv
<1>2. TypeOK'
  <2>1. MapTypes'
    BY DEF ChooseWithoutClient, KitchenInv, TypeOK, MapTypes
  <2>2. GateTypes'
    BY DEF ChooseWithoutClient, KitchenInv, TypeOK, GateTypes, orderVars
  <2>3. CounterTypes'
    BY DEF ChooseWithoutClient, KitchenInv, TypeOK, CounterTypes, WorkTypes,
       orderVars, counterVars, boundVars, ghostVars
  <2>4. WorkTypes'
    BY <1>1 DEF ChooseWithoutClient, Gains, KitchenInv, TypeOK, MapTypes,
       WorkTypes, Phase, workVars
  <2>5. WorldTypes'
    BY DEF ChooseWithoutClient, KitchenInv, TypeOK, WorldTypes, worldVars
  <2> QED BY <2>1, <2>2, <2>3, <2>4, <2>5 DEF TypeOK
<1>3. OneGateDriver'
  BY <1>1 DEF ChooseWithoutClient, Gains, Counted, KitchenInv, TypeOK,
     GateTypes, CounterTypes, WorkTypes, Phase, OneGateDriver, Asking, Killed, One, orderVars,
     workVars
<1>4. NoOrderStranded'
  BY <1>1, <1>3 DEF ChooseWithoutClient, Gains, Counted, KitchenInv, TypeOK,
     GateTypes, CounterTypes, NoOrderStranded, OneGateDriver, Asking, Killed, One, orderVars
<1>5. OrdersAccounted'
  BY <1>1 DEF ChooseWithoutClient, Gains, Counted, KitchenInv, TypeOK,
     GateTypes, CounterTypes, WorkTypes, Phase, OrdersAccounted, One,
     counterVars, workVars, ghostVars
<1>6. DishesCounted'
  BY <1>1 DEF ChooseWithoutClient, Gains, Counted, KitchenInv, TypeOK,
     GateTypes, CounterTypes, DishesCounted, counterVars, ghostVars
<1> QED BY <1>2, <1>3, <1>4, <1>5, <1>6 DEF KitchenInv

LEMMA InstructRobotKeeps ==
    ASSUME KitchenInv, InstructRobot
    PROVE  KitchenInv'
<1>0. /\ phase = "instructing" /\ phase' = "idle"
      /\ \/ assigned' = assigned + 1 /\ cooking' = cooking + 1 /\ dropped' = dropped
         \/ assigned' = assigned /\ cooking' = cooking /\ dropped' = dropped + 1
      /\ UNCHANGED <<orderVars, received, completed, requests, boundVars,
                     ghostVars>>
  BY DEF InstructRobot, Instructed, Confirmed, KitchenInv, TypeOK, CounterTypes
<1>1. Gains(0, 0, 0)
  BY GainsSame DEF InstructRobot, KitchenInv
<1>2. TypeOK'
  <2>1. MapTypes'
    BY DEF InstructRobot, Instructed, Confirmed, KitchenInv, TypeOK, MapTypes
  <2>2. GateTypes'
    BY DEF InstructRobot, Instructed, Confirmed, KitchenInv, TypeOK, GateTypes,
       orderVars
  <2>3. CounterTypes'
    BY <1>0 DEF KitchenInv, TypeOK, CounterTypes, WorkTypes, orderVars,
       counterVars, boundVars, ghostVars
  <2>4. WorkTypes'
    BY <1>1 DEF InstructRobot, Instructed, Confirmed, Gains, KitchenInv, TypeOK,
       MapTypes, WorkTypes, Phase, workVars
  <2>5. WorldTypes'
    BY DEF InstructRobot, Instructed, Confirmed, KitchenInv, TypeOK, WorldTypes,
       worldVars
  <2> QED BY <2>1, <2>2, <2>3, <2>4, <2>5 DEF TypeOK
<1>3. OneGateDriver'
  BY <1>0, <1>1 DEF Gains, Counted, KitchenInv, TypeOK, GateTypes, CounterTypes,
     WorkTypes, Phase, OneGateDriver, Asking, Killed, One, orderVars, workVars
<1>4. NoOrderStranded'
  BY <1>0, <1>1, <1>3 DEF Gains, Counted, KitchenInv, TypeOK, GateTypes,
     CounterTypes, NoOrderStranded, OneGateDriver, Asking, Killed, One, orderVars
<1>5. OrdersAccounted'
  <2>1. One(phase # "idle") = 1 /\ One(phase' # "idle") = 0
    BY <1>0 DEF One
  <2>2. Count("next_robot")' = Count("next_robot") /\ Count("next_robot") \in Nat
    BY <1>1 DEF Gains, Counted
  <2>3. /\ UNCHANGED <<received, repeated, requests, forgotten>>
        /\ assigned' + dropped' = assigned + dropped + 1
    BY <1>0 DEF KitchenInv, TypeOK, CounterTypes, ghostVars
  <2>4. received + repeated = assigned + dropped + requests + forgotten
                              + Count("next_robot") + One(phase # "idle")
    BY DEF KitchenInv, OrdersAccounted
  <2>5. /\ received \in Nat /\ repeated \in Nat /\ assigned \in Nat
        /\ dropped \in Nat /\ requests \in Nat /\ forgotten \in Nat
    BY DEF KitchenInv, TypeOK, CounterTypes
  <2>6. received + repeated = (assigned' + dropped') + requests + forgotten
                              + Count("next_robot") + 0
    BY <2>1, <2>2, <2>3, <2>4, <2>5, SMTT(60)
  <2>7. received' + repeated' = assigned' + dropped' + requests' + forgotten'
                                + Count("next_robot")' + One(phase' # "idle")
    BY <2>1, <2>2, <2>3, <2>6, SMTT(60)
  <2> QED BY <2>7 DEF OrdersAccounted, One
<1>6. DishesCounted'
  <2>1. Count("completed")' = Count("completed") /\ Count("completed") \in Nat
    BY <1>1 DEF Gains, Counted
  <2>2. /\ completed' = completed /\ unconfirmed' = unconfirmed
        /\ doubled' = doubled
    BY <1>0 DEF ghostVars
  <2>3. completed + Count("completed") + cooking = assigned + unconfirmed + doubled
    BY DEF KitchenInv, DishesCounted
  <2>4. completed' + Count("completed")' + cooking'
          = assigned' + unconfirmed' + doubled'
    BY <1>0, <2>1, <2>2, <2>3, SMTT(60) DEF KitchenInv, TypeOK, CounterTypes
  <2> QED BY <2>4 DEF DishesCounted
<1> QED BY <1>2, <1>3, <1>4, <1>5, <1>6 DEF KitchenInv

LEMMA InstructFailsKeeps ==
    ASSUME KitchenInv, InstructFails
    PROVE  KitchenInv'
<1>0. /\ phase = "instructing" /\ phase' = "idle" /\ dropped' = dropped + 1
      /\ \/ cooking' = cooking /\ unconfirmed' = unconfirmed
         \/ cooking' = cooking + 1 /\ unconfirmed' = unconfirmed + 1
      /\ UNCHANGED <<orderVars, received, assigned, completed, requests, repeated,
                     forgotten, doubled>>
      /\ ordered' \in Nat /\ moves' \in Nat /\ faults' \in Nat
  BY DEF InstructFails, Instructed, Fault, Drop, Live, boundVars, KitchenInv,
     TypeOK, CounterTypes
<1>1. Gains(0, 0, 0)
  BY GainsSame DEF InstructFails, KitchenInv
<1>2. TypeOK'
  <2>1. MapTypes'
    <3>1. phase = "instructing"
      BY DEF InstructFails
    <3>2. addressed \in Position /\ known[addressed] \in RemoteType
      BY <3>1 DEF KitchenInv, TypeOK, MapTypes, WorkTypes
    <3>3. [known[addressed] EXCEPT !.link = "stopped"] \in RemoteType
      BY <3>2 DEF RemoteType
    <3> QED BY <3>2, <3>3 DEF InstructFails, KitchenInv, TypeOK, MapTypes
  <2>2. GateTypes'
    BY DEF InstructFails, Instructed, Fault, Drop, Live, KitchenInv, TypeOK,
       GateTypes, orderVars
  <2>3. CounterTypes'
    BY <1>0 DEF KitchenInv, TypeOK, CounterTypes, WorkTypes, orderVars,
       counterVars, boundVars, ghostVars
  <2>4. WorkTypes'
    BY <1>1 DEF InstructFails, Instructed, Fault, Drop, Live, Gains, KitchenInv,
       TypeOK, MapTypes, WorkTypes, Phase, workVars
  <2>5. WorldTypes'
    BY DEF InstructFails, Instructed, Fault, Drop, Live, KitchenInv, TypeOK,
       WorldTypes, worldVars
  <2> QED BY <2>1, <2>2, <2>3, <2>4, <2>5 DEF TypeOK
<1>3. OneGateDriver'
  BY <1>0, <1>1 DEF Gains, Counted, KitchenInv, TypeOK, GateTypes, CounterTypes,
     WorkTypes, Phase, OneGateDriver, Asking, Killed, One, orderVars, workVars
<1>4. NoOrderStranded'
  BY <1>0, <1>1, <1>3 DEF Gains, Counted, KitchenInv, TypeOK, GateTypes,
     CounterTypes, NoOrderStranded, OneGateDriver, Asking, Killed, One, orderVars
<1>5. OrdersAccounted'
  BY <1>0, <1>1, SMTT(60) DEF Gains, Counted, KitchenInv, TypeOK, CounterTypes,
     OrdersAccounted, One, counterVars, ghostVars
<1>6. DishesCounted'
  <2>1. Count("completed")' = Count("completed") /\ Count("completed") \in Nat
    BY <1>1 DEF Gains, Counted
  <2>2. completed' = completed /\ assigned' = assigned
    BY <1>0
  <2> QED BY <1>0, <2>1, <2>2 DEF KitchenInv, TypeOK, CounterTypes, DishesCounted
<1> QED BY <1>2, <1>3, <1>4, <1>5, <1>6 DEF KitchenInv

LEMMA HandleCompletedOrderKeeps ==
    ASSUME KitchenInv, HandleCompletedOrder
    PROVE  KitchenInv'
<1>1. Gains(0, 0, -1)
  BY GainsTake DEF HandleCompletedOrder, KitchenInv, One
<1>2. TypeOK'
  <2>1. MapTypes'
    BY DEF HandleCompletedOrder, Take, KitchenInv, TypeOK, MapTypes
  <2>2. GateTypes'
    BY DEF HandleCompletedOrder, Take, KitchenInv, TypeOK, GateTypes, orderVars
  <2>3. CounterTypes'
    BY DEF HandleCompletedOrder, Take, KitchenInv, TypeOK, CounterTypes,
       WorkTypes, orderVars, counterVars, boundVars, ghostVars
  <2>4. WorkTypes'
    BY <1>1 DEF HandleCompletedOrder, Take, Gains, KitchenInv, TypeOK, MapTypes,
       WorkTypes, Phase, workVars
  <2>5. WorldTypes'
    BY DEF HandleCompletedOrder, Take, KitchenInv, TypeOK, WorldTypes, worldVars
  <2> QED BY <2>1, <2>2, <2>3, <2>4, <2>5 DEF TypeOK
<1>3. OneGateDriver'
  BY <1>1 DEF HandleCompletedOrder, Take, Gains, Counted, KitchenInv, TypeOK,
     GateTypes, CounterTypes, WorkTypes, Phase, OneGateDriver, Asking, Killed, One, orderVars,
     workVars
<1>4. NoOrderStranded'
  BY <1>1, <1>3 DEF HandleCompletedOrder, Take, Gains, Counted, KitchenInv,
     TypeOK, GateTypes, CounterTypes, NoOrderStranded, OneGateDriver, Asking, Killed, One,
     orderVars
<1>5. OrdersAccounted'
  BY <1>1 DEF HandleCompletedOrder, Take, Gains, Counted, KitchenInv, TypeOK,
     GateTypes, CounterTypes, WorkTypes, Phase, OrdersAccounted, One,
     counterVars, workVars, ghostVars
<1>6. DishesCounted'
  BY <1>1 DEF HandleCompletedOrder, Take, Gains, Counted, KitchenInv, TypeOK,
     GateTypes, CounterTypes, DishesCounted, counterVars, ghostVars
<1> QED BY <1>2, <1>3, <1>4, <1>5, <1>6 DEF KitchenInv

LEMMA DropControllerKeeps ==
    ASSUME KitchenInv, DropController
    PROVE  KitchenInv'
<1>1. Gains(0, 0, 0)
  BY GainsSame DEF DropController, KitchenInv
<1>2. TypeOK'
  <2>1. MapTypes'
    BY DEF DropController, KitchenInv, TypeOK, MapTypes
  <2>2. GateTypes'
    BY DEF DropController, KitchenInv, TypeOK, GateTypes, orderVars
  <2>3. CounterTypes'
    BY DEF DropController, KitchenInv, TypeOK, CounterTypes, WorkTypes,
       orderVars, counterVars, boundVars, ghostVars
  <2>4. WorkTypes'
    BY <1>1 DEF DropController, Gains, KitchenInv, TypeOK, MapTypes, WorkTypes,
       Phase, workVars
  <2>5. WorldTypes'
    BY DEF DropController, KitchenInv, TypeOK, WorldTypes, worldVars
  <2> QED BY <2>1, <2>2, <2>3, <2>4, <2>5 DEF TypeOK
<1>3. OneGateDriver'
  BY <1>1 DEF DropController, Gains, Counted, KitchenInv, TypeOK, GateTypes,
     CounterTypes, WorkTypes, Phase, OneGateDriver, Asking, Killed, One, orderVars, workVars
<1>4. NoOrderStranded'
  BY <1>1, <1>3 DEF DropController, Gains, Counted, KitchenInv, TypeOK,
     GateTypes, CounterTypes, NoOrderStranded, OneGateDriver, Asking, Killed, One, orderVars
<1>5. OrdersAccounted'
  BY <1>1 DEF DropController, Gains, Counted, KitchenInv, TypeOK, GateTypes,
     CounterTypes, WorkTypes, Phase, OrdersAccounted, One, counterVars,
     workVars, ghostVars
<1>6. DishesCounted'
  BY <1>1 DEF DropController, Gains, Counted, KitchenInv, TypeOK, GateTypes,
     CounterTypes, DishesCounted, counterVars, ghostVars
<1> QED BY <1>2, <1>3, <1>4, <1>5, <1>6 DEF KitchenInv

LEMMA ReconnectKeeps ==
    ASSUME KitchenInv, Reconnect
    PROVE  KitchenInv'
<1>1. Gains(0, 0, 0)
  BY GainsSame DEF Reconnect, KitchenInv
<1>2. TypeOK'
  <2>1. MapTypes'
    BY DEF Reconnect, KitchenInv, TypeOK, MapTypes
  <2>2. GateTypes'
    BY DEF Reconnect, KitchenInv, TypeOK, GateTypes, orderVars
  <2>3. CounterTypes'
    BY DEF Reconnect, KitchenInv, TypeOK, CounterTypes, WorkTypes, orderVars,
       counterVars, boundVars, ghostVars
  <2>4. WorkTypes'
    BY <1>1 DEF Reconnect, Gains, KitchenInv, TypeOK, MapTypes, WorkTypes,
       Phase, workVars
  <2>5. WorldTypes'
    BY DEF Reconnect, KitchenInv, TypeOK, WorldTypes, worldVars
  <2> QED BY <2>1, <2>2, <2>3, <2>4, <2>5 DEF TypeOK
<1>3. OneGateDriver'
  BY <1>1 DEF Reconnect, Gains, Counted, KitchenInv, TypeOK, GateTypes,
     CounterTypes, WorkTypes, Phase, OneGateDriver, Asking, Killed, One, orderVars, workVars
<1>4. NoOrderStranded'
  BY <1>1, <1>3 DEF Reconnect, Gains, Counted, KitchenInv, TypeOK, GateTypes,
     CounterTypes, NoOrderStranded, OneGateDriver, Asking, Killed, One, orderVars
<1>5. OrdersAccounted'
  BY <1>1 DEF Reconnect, Gains, Counted, KitchenInv, TypeOK, GateTypes,
     CounterTypes, WorkTypes, Phase, OrdersAccounted, One, counterVars,
     workVars, ghostVars
<1>6. DishesCounted'
  BY <1>1 DEF Reconnect, Gains, Counted, KitchenInv, TypeOK, GateTypes,
     CounterTypes, DishesCounted, counterVars, ghostVars
<1> QED BY <1>2, <1>3, <1>4, <1>5, <1>6 DEF KitchenInv

(* A request goes and an answer comes, or nothing comes of it; whom the     *)
(* answer names is all the same.                                            *)
LEMMA AnswerKeeps ==
    ASSUME KitchenInv, requests > 0, requests' = requests - 1,
           UNCHANGED <<known, orderVars, counterVars, workVars, client, worldVars,
                       cooking, boundVars, repeated, unconfirmed, doubled>>,
           \/ UNCHANGED forgotten /\ \E h \in Handler :
                 h.op = "next_robot" /\ io' = Append(io, h)
           \/ UNCHANGED io /\ forgotten' = forgotten + 1
    PROVE  KitchenInv'
<1>1. PICK n \in {0, 1} : Gains(0, n, 0) /\ forgotten' = forgotten + 1 - n
  <2>1. ASSUME UNCHANGED forgotten, NEW h \in Handler, h.op = "next_robot",
               io' = Append(io, h)
        PROVE  \E n \in {0, 1} : Gains(0, n, 0) /\ forgotten' = forgotten + 1 - n
    <3>1. Gains(0, 1, 0)
      BY <2>1, GainsPost DEF KitchenInv, One
    <3> QED BY <2>1, <3>1 DEF KitchenInv, TypeOK, CounterTypes
  <2>2. CASE UNCHANGED io /\ forgotten' = forgotten + 1
    <3>1. Gains(0, 0, 0)
      BY <2>2, GainsSame DEF KitchenInv
    <3> QED BY <2>2, <3>1 DEF KitchenInv, TypeOK, CounterTypes
  <2> QED BY <2>1, <2>2
<1>2. /\ requests > 0 /\ requests' = requests - 1
      /\ UNCHANGED <<known, orderVars, counterVars, workVars, client, worldVars,
                     cooking, boundVars, repeated, unconfirmed, doubled>>
  OBVIOUS
<1>3. TypeOK'
  <2>1. MapTypes'
    BY <1>2 DEF KitchenInv, TypeOK, MapTypes
  <2>2. GateTypes'
    BY <1>2 DEF KitchenInv, TypeOK, GateTypes, orderVars
  <2>3. CounterTypes'
    BY <1>1, <1>2 DEF KitchenInv, TypeOK, CounterTypes, orderVars, counterVars,
       boundVars
  <2>4. WorkTypes'
    BY <1>1, <1>2 DEF Gains, KitchenInv, TypeOK, WorkTypes, workVars
  <2>5. WorldTypes'
    BY <1>2 DEF KitchenInv, TypeOK, WorldTypes, worldVars
  <2> QED BY <2>1, <2>2, <2>3, <2>4, <2>5 DEF TypeOK
<1>4. OneGateDriver'
  BY <1>1, <1>2 DEF Gains, Counted, KitchenInv, OneGateDriver, Asking, Killed, One, orderVars, workVars
<1>5. NoOrderStranded'
  BY <1>2 DEF KitchenInv, NoOrderStranded, orderVars
<1>6. OrdersAccounted'
  BY <1>1, <1>2 DEF Gains, Counted, KitchenInv, TypeOK, CounterTypes,
     OrdersAccounted, One, counterVars, workVars
<1>7. DishesCounted'
  BY <1>1, <1>2 DEF Gains, Counted, KitchenInv, TypeOK, CounterTypes,
     DishesCounted, counterVars
<1> QED BY <1>3, <1>4, <1>5, <1>6, <1>7 DEF KitchenInv

LEMMA ControllerAnswersKeeps ==
    ASSUME KitchenInv, ControllerAnswers
    PROVE  KitchenInv'
<1>1. [op |-> "next_robot", position |-> 0, robot |-> None] \in Handler
  BY DEF Handler
<1>2. \A r \in Robot :
        [op |-> "next_robot", position |-> place[r], robot |-> r] \in Handler
  BY DEF Handler, KitchenInv, TypeOK, WorldTypes
<1>3. \/ UNCHANGED forgotten /\ \E h \in Handler :
            h.op = "next_robot" /\ io' = Append(io, h)
      \/ UNCHANGED io /\ forgotten' = forgotten + 1
  BY <1>1, <1>2 DEF ControllerAnswers
<1> QED BY <1>3, AnswerKeeps DEF ControllerAnswers

LEMMA ControllerRestartsKeeps ==
    ASSUME KitchenInv, ControllerRestarts
    PROVE  KitchenInv'
<1>1. Gains(0, 0, 0)
  BY GainsSame DEF ControllerRestarts, KitchenInv
<1>2. TypeOK'
  <2>1. MapTypes'
    BY DEF ControllerRestarts, Fault, KitchenInv, TypeOK, MapTypes
  <2>2. GateTypes'
    BY DEF ControllerRestarts, Fault, KitchenInv, TypeOK, GateTypes, orderVars
  <2>3. CounterTypes'
    BY DEF ControllerRestarts, Fault, KitchenInv, TypeOK, CounterTypes,
       WorkTypes, orderVars, counterVars, boundVars, ghostVars
  <2>4. WorkTypes'
    BY <1>1 DEF ControllerRestarts, Fault, Gains, KitchenInv, TypeOK, MapTypes,
       WorkTypes, Phase, workVars
  <2>5. WorldTypes'
    BY DEF ControllerRestarts, Fault, KitchenInv, TypeOK, WorldTypes, worldVars
  <2> QED BY <2>1, <2>2, <2>3, <2>4, <2>5 DEF TypeOK
<1>3. OneGateDriver'
  BY <1>1 DEF ControllerRestarts, Fault, Gains, Counted, KitchenInv, TypeOK,
     GateTypes, CounterTypes, WorkTypes, Phase, OneGateDriver, Asking, Killed, One, orderVars,
     workVars
<1>4. NoOrderStranded'
  BY <1>1, <1>3 DEF ControllerRestarts, Fault, Gains, Counted, KitchenInv,
     TypeOK, GateTypes, CounterTypes, NoOrderStranded, OneGateDriver, Asking, Killed, One,
     orderVars
<1>5. OrdersAccounted'
  BY <1>1 DEF ControllerRestarts, Fault, Gains, Counted, KitchenInv, TypeOK,
     GateTypes, CounterTypes, WorkTypes, Phase, OrdersAccounted, One,
     counterVars, workVars, ghostVars
<1>6. DishesCounted'
  BY <1>1 DEF ControllerRestarts, Fault, Gains, Counted, KitchenInv, TypeOK,
     GateTypes, CounterTypes, DishesCounted, counterVars, ghostVars
<1> QED BY <1>2, <1>3, <1>4, <1>5, <1>6 DEF KitchenInv

LEMMA ReceiverBreaksKeeps ==
    ASSUME KitchenInv, ReceiverBreaks
    PROVE  KitchenInv'
<1>1. Gains(0, 0, 0)
  BY GainsSame DEF ReceiverBreaks, KitchenInv
<1>2. TypeOK'
  <2>1. MapTypes'
    BY DEF ReceiverBreaks, Fault, KitchenInv, TypeOK, MapTypes
  <2>2. GateTypes'
    BY DEF ReceiverBreaks, Fault, KitchenInv, TypeOK, GateTypes, orderVars
  <2>3. CounterTypes'
    BY DEF ReceiverBreaks, Fault, KitchenInv, TypeOK, CounterTypes,
       WorkTypes, orderVars, counterVars, boundVars, ghostVars
  <2>4. WorkTypes'
    BY <1>1 DEF ReceiverBreaks, Fault, Gains, KitchenInv, TypeOK, MapTypes,
       WorkTypes, Phase, workVars
  <2>5. WorldTypes'
    BY DEF ReceiverBreaks, Fault, KitchenInv, TypeOK, WorldTypes, worldVars
  <2> QED BY <2>1, <2>2, <2>3, <2>4, <2>5 DEF TypeOK
<1>3. OneGateDriver'
  BY <1>1 DEF ReceiverBreaks, Fault, Gains, Counted, KitchenInv, TypeOK,
     GateTypes, CounterTypes, WorkTypes, Phase, OneGateDriver, Asking, Killed, One, orderVars,
     workVars
<1>4. NoOrderStranded'
  BY <1>1, <1>3 DEF ReceiverBreaks, Fault, Gains, Counted, KitchenInv,
     TypeOK, GateTypes, CounterTypes, NoOrderStranded, OneGateDriver, Asking, Killed, One,
     orderVars
<1>5. OrdersAccounted'
  BY <1>1 DEF ReceiverBreaks, Fault, Gains, Counted, KitchenInv, TypeOK,
     GateTypes, CounterTypes, WorkTypes, Phase, OrdersAccounted, One,
     counterVars, workVars, ghostVars
<1>6. DishesCounted'
  BY <1>1 DEF ReceiverBreaks, Fault, Gains, Counted, KitchenInv, TypeOK,
     GateTypes, CounterTypes, DishesCounted, counterVars, ghostVars
<1> QED BY <1>2, <1>3, <1>4, <1>5, <1>6 DEF KitchenInv

LEMMA AdaptKeeps ==
    ASSUME KitchenInv, NEW r \in Robot, Adapt(r)
    PROVE  KitchenInv'
<1>1. Gains(0, 0, 0)
  BY GainsSame DEF Adapt, KitchenInv
<1>2. TypeOK'
  <2>1. MapTypes'
    BY DEF Adapt, KitchenInv, TypeOK, MapTypes
  <2>2. GateTypes'
    BY DEF Adapt, KitchenInv, TypeOK, GateTypes, orderVars
  <2>3. CounterTypes'
    BY DEF Adapt, KitchenInv, TypeOK, CounterTypes, WorkTypes, orderVars,
       counterVars, boundVars, ghostVars
  <2>4. WorkTypes'
    BY <1>1 DEF Adapt, Gains, KitchenInv, TypeOK, MapTypes, WorkTypes, Phase,
       workVars
  <2>5. WorldTypes'
    BY DEF Adapt, KitchenInv, TypeOK, WorldTypes, worldVars
  <2> QED BY <2>1, <2>2, <2>3, <2>4, <2>5 DEF TypeOK
<1>3. OneGateDriver'
  BY <1>1 DEF Adapt, Gains, Counted, KitchenInv, TypeOK, GateTypes,
     CounterTypes, WorkTypes, Phase, OneGateDriver, Asking, Killed, One, orderVars, workVars
<1>4. NoOrderStranded'
  BY <1>1, <1>3 DEF Adapt, Gains, Counted, KitchenInv, TypeOK, GateTypes,
     CounterTypes, NoOrderStranded, OneGateDriver, Asking, Killed, One, orderVars
<1>5. OrdersAccounted'
  BY <1>1 DEF Adapt, Gains, Counted, KitchenInv, TypeOK, GateTypes,
     CounterTypes, WorkTypes, Phase, OrdersAccounted, One, counterVars,
     workVars, ghostVars
<1>6. DishesCounted'
  BY <1>1 DEF Adapt, Gains, Counted, KitchenInv, TypeOK, GateTypes,
     CounterTypes, DishesCounted, counterVars, ghostVars
<1> QED BY <1>2, <1>3, <1>4, <1>5, <1>6 DEF KitchenInv

LEMMA MoveKeeps ==
    ASSUME KitchenInv, NEW r \in Robot, NEW p \in Position, Move(r, p)
    PROVE  KitchenInv'
<1>1. Gains(0, 0, 0)
  BY GainsSame DEF Move, KitchenInv
<1>2. TypeOK'
  <2>1. MapTypes'
    BY DEF Move, KitchenInv, TypeOK, MapTypes
  <2>2. GateTypes'
    BY DEF Move, KitchenInv, TypeOK, GateTypes, orderVars
  <2>3. CounterTypes'
    BY DEF Move, KitchenInv, TypeOK, CounterTypes, WorkTypes, orderVars,
       counterVars, boundVars, ghostVars
  <2>4. WorkTypes'
    BY <1>1 DEF Move, Gains, KitchenInv, TypeOK, MapTypes, WorkTypes, Phase,
       workVars
  <2>5. WorldTypes'
    BY DEF Move, KitchenInv, TypeOK, WorldTypes, worldVars
  <2> QED BY <2>1, <2>2, <2>3, <2>4, <2>5 DEF TypeOK
<1>3. OneGateDriver'
  BY <1>1 DEF Move, Gains, Counted, KitchenInv, TypeOK, GateTypes, CounterTypes,
     WorkTypes, Phase, OneGateDriver, Asking, Killed, One, orderVars, workVars
<1>4. NoOrderStranded'
  BY <1>1, <1>3 DEF Move, Gains, Counted, KitchenInv, TypeOK, GateTypes,
     CounterTypes, NoOrderStranded, OneGateDriver, Asking, Killed, One, orderVars
<1>5. OrdersAccounted'
  BY <1>1 DEF Move, Gains, Counted, KitchenInv, TypeOK, GateTypes, CounterTypes,
     WorkTypes, Phase, OrdersAccounted, One, counterVars, workVars, ghostVars
<1>6. DishesCounted'
  BY <1>1 DEF Move, Gains, Counted, KitchenInv, TypeOK, GateTypes, CounterTypes,
     DishesCounted, counterVars, ghostVars
<1> QED BY <1>2, <1>3, <1>4, <1>5, <1>6 DEF KitchenInv

LEMMA AdaptedKeeps ==
    ASSUME KitchenInv, NEW r \in Robot, Adapted(r)
    PROVE  KitchenInv'
<1>1. Gains(0, 0, 0)
  BY GainsSame DEF Adapted, KitchenInv
<1>2. TypeOK'
  <2>1. MapTypes'
    BY DEF Adapted, KitchenInv, TypeOK, MapTypes
  <2>2. GateTypes'
    BY DEF Adapted, KitchenInv, TypeOK, GateTypes, orderVars
  <2>3. CounterTypes'
    BY DEF Adapted, KitchenInv, TypeOK, CounterTypes, WorkTypes, orderVars,
       counterVars, boundVars, ghostVars
  <2>4. WorkTypes'
    BY <1>1 DEF Adapted, Gains, KitchenInv, TypeOK, MapTypes, WorkTypes, Phase,
       workVars
  <2>5. WorldTypes'
    BY DEF Adapted, KitchenInv, TypeOK, WorldTypes, worldVars
  <2> QED BY <2>1, <2>2, <2>3, <2>4, <2>5 DEF TypeOK
<1>3. OneGateDriver'
  BY <1>1 DEF Adapted, Gains, Counted, KitchenInv, TypeOK, GateTypes,
     CounterTypes, WorkTypes, Phase, OneGateDriver, Asking, Killed, One, orderVars, workVars
<1>4. NoOrderStranded'
  BY <1>1, <1>3 DEF Adapted, Gains, Counted, KitchenInv, TypeOK, GateTypes,
     CounterTypes, NoOrderStranded, OneGateDriver, Asking, Killed, One, orderVars
<1>5. OrdersAccounted'
  BY <1>1 DEF Adapted, Gains, Counted, KitchenInv, TypeOK, GateTypes,
     CounterTypes, WorkTypes, Phase, OrdersAccounted, One, counterVars,
     workVars, ghostVars
<1>6. DishesCounted'
  BY <1>1 DEF Adapted, Gains, Counted, KitchenInv, TypeOK, GateTypes,
     CounterTypes, DishesCounted, counterVars, ghostVars
<1> QED BY <1>2, <1>3, <1>4, <1>5, <1>6 DEF KitchenInv

LEMMA RobotCrashesKeeps ==
    ASSUME KitchenInv, NEW r \in Robot, RobotCrashes(r)
    PROVE  KitchenInv'
<1>0. ASSUME NEW p \in Position, known[p] # None
      PROVE  known[p] \in RemoteType
             /\ [known[p] EXCEPT !.link = "broken"] \in RemoteType
  BY <1>0 DEF KitchenInv, TypeOK, MapTypes, RemoteType
<1>1. Gains(0, 0, 0)
  BY GainsSame DEF RobotCrashes, KitchenInv
<1>2. TypeOK'
  <2>1. MapTypes'
    BY <1>0 DEF RobotCrashes, Live, KitchenInv, TypeOK, MapTypes
  <2>2. GateTypes'
    BY DEF RobotCrashes, Fault, Live, KitchenInv, TypeOK, GateTypes, orderVars
  <2>3. CounterTypes'
    BY SMTT(60) DEF RobotCrashes, Fault, Live, KitchenInv, TypeOK, CounterTypes,
       WorkTypes, orderVars, counterVars, boundVars, ghostVars
  <2>4. WorkTypes'
    <3>1. \A p \in Position : known[p] # None => known'[p] # None
      BY <1>0, KitchenAssumption DEF RobotCrashes
    <3> QED BY <1>1, <3>1 DEF RobotCrashes, Gains, KitchenInv, TypeOK, WorkTypes,
               workVars
  <2>5. WorldTypes'
    BY DEF RobotCrashes, Fault, Live, KitchenInv, TypeOK, WorldTypes, worldVars
  <2> QED BY <2>1, <2>2, <2>3, <2>4, <2>5 DEF TypeOK
<1>3. OneGateDriver'
  BY <1>1 DEF RobotCrashes, Fault, Live, Gains, Counted, KitchenInv, TypeOK,
     GateTypes, CounterTypes, WorkTypes, Phase, OneGateDriver, Asking, Killed, One, orderVars,
     workVars
<1>4. NoOrderStranded'
  BY <1>1, <1>3 DEF RobotCrashes, Fault, Live, Gains, Counted, KitchenInv,
     TypeOK, GateTypes, CounterTypes, NoOrderStranded, OneGateDriver, Asking, Killed, One,
     orderVars
<1>5. OrdersAccounted'
  BY <1>1 DEF RobotCrashes, Fault, Live, Gains, Counted, KitchenInv, TypeOK,
     GateTypes, CounterTypes, WorkTypes, Phase, OrdersAccounted, One,
     counterVars, workVars, ghostVars
<1>6. DishesCounted'
  BY <1>1 DEF RobotCrashes, Fault, Live, Gains, Counted, KitchenInv, TypeOK,
     GateTypes, CounterTypes, DishesCounted, counterVars, ghostVars
<1> QED BY <1>2, <1>3, <1>4, <1>5, <1>6 DEF KitchenInv

LEMMA DeliverDishKeeps ==
    ASSUME KitchenInv, DeliverDish
    PROVE  KitchenInv'
<1>0. /\ \/ cooking' = cooking - 1 /\ doubled' = doubled
         \/ cooking' = cooking /\ doubled' = doubled + 1
      /\ cooking > 0
      /\ UNCHANGED <<counterVars, workVars, requests, repeated, forgotten,
                     unconfirmed>>
      /\ ordered' \in Nat /\ moves' \in Nat /\ faults' \in Nat
  BY DEF DeliverDish, Fault, boundVars, KitchenInv, TypeOK, CounterTypes
<1>1. Gains(0, 0, 1)
  BY GainsPost DEF DeliverDish, KitchenInv, Handler, One
<1>2. TypeOK'
  <2>1. MapTypes'
    BY DEF DeliverDish, KitchenInv, TypeOK, MapTypes
  <2>2. GateTypes'
    BY DEF DeliverDish, KitchenInv, TypeOK, GateTypes, orderVars
  <2>3. CounterTypes'
    BY <1>0 DEF DeliverDish, KitchenInv, TypeOK, CounterTypes, orderVars,
       counterVars
  <2>4. WorkTypes'
    BY <1>1 DEF DeliverDish, Gains, KitchenInv, TypeOK, MapTypes, WorkTypes,
       Phase, workVars
  <2>5. WorldTypes'
    BY DEF DeliverDish, KitchenInv, TypeOK, WorldTypes, worldVars
  <2> QED BY <2>1, <2>2, <2>3, <2>4, <2>5 DEF TypeOK
<1>3. OneGateDriver'
  BY <1>1 DEF DeliverDish, Gains, Counted, KitchenInv, TypeOK, GateTypes,
     CounterTypes, WorkTypes, Phase, OneGateDriver, Asking, Killed, One, orderVars, workVars
<1>4. NoOrderStranded'
  BY <1>1, <1>3 DEF DeliverDish, Gains, Counted, KitchenInv, TypeOK, GateTypes,
     CounterTypes, NoOrderStranded, OneGateDriver, Asking, Killed, One, orderVars
<1>5. OrdersAccounted'
  BY <1>0, <1>1 DEF Gains, Counted, KitchenInv, TypeOK, OrdersAccounted, One,
     counterVars, workVars
<1>6. DishesCounted'
  <2>1. Count("completed")' = Count("completed") + 1 /\ Count("completed") \in Nat
    BY <1>1 DEF Gains, Counted
  <2>2. completed' = completed /\ assigned' = assigned /\ unconfirmed' = unconfirmed
    BY <1>0 DEF counterVars
  <2>3. /\ {completed, cooking, assigned, unconfirmed, doubled} \subseteq Nat
        /\ completed + Count("completed") + cooking = assigned + unconfirmed + doubled
    BY DEF KitchenInv, TypeOK, CounterTypes, DishesCounted
  <2>4. completed' + Count("completed")' + cooking'
          = assigned' + unconfirmed' + doubled'
    BY <1>0, <2>1, <2>2, <2>3
  <2> QED BY <2>4 DEF DishesCounted
<1> QED BY <1>2, <1>3, <1>4, <1>5, <1>6 DEF KitchenInv

LEMMA DoubleDishKeeps ==
    ASSUME KitchenInv, DoubleDish
    PROVE  KitchenInv'
<1>0. /\ cooking' = cooking + 1 /\ doubled' = doubled + 1
      /\ UNCHANGED <<known, orderVars, counterVars, io, workVars, client, requests,
                     worldVars, repeated, forgotten, unconfirmed>>
      /\ ordered' \in Nat /\ moves' \in Nat /\ faults' \in Nat
  BY DEF DoubleDish, Fault, boundVars, KitchenInv, TypeOK, CounterTypes
<1>1. Gains(0, 0, 0)
  BY <1>0, GainsSame DEF KitchenInv
<1>2. TypeOK'
  <2>1. MapTypes' /\ GateTypes' /\ WorldTypes'
    BY <1>0 DEF KitchenInv, TypeOK, MapTypes, GateTypes, WorldTypes, orderVars,
       worldVars
  <2>2. CounterTypes'
    BY <1>0 DEF KitchenInv, TypeOK, CounterTypes, orderVars, counterVars
  <2>3. WorkTypes'
    BY <1>0, <1>1 DEF Gains, KitchenInv, TypeOK, WorkTypes, workVars
  <2> QED BY <2>1, <2>2, <2>3 DEF TypeOK
<1>3. OneGateDriver'
  BY <1>0, <1>1 DEF Gains, Counted, KitchenInv, TypeOK, GateTypes, CounterTypes,
     WorkTypes, Phase, OneGateDriver, Asking, Killed, One, orderVars, workVars
<1>4. NoOrderStranded'
  BY <1>0 DEF KitchenInv, NoOrderStranded, orderVars
<1>5. OrdersAccounted'
  BY <1>0, <1>1 DEF Gains, Counted, KitchenInv, TypeOK, OrdersAccounted, One,
     counterVars, workVars
<1>6. DishesCounted'
  <2>1. Count("completed")' = Count("completed") /\ Count("completed") \in Nat
    BY <1>1 DEF Gains, Counted
  <2>2. /\ {completed, cooking, assigned, unconfirmed, doubled} \subseteq Nat
        /\ completed + Count("completed") + cooking = assigned + unconfirmed + doubled
    BY DEF KitchenInv, TypeOK, CounterTypes, DishesCounted
  <2> QED BY <1>0, <2>1, <2>2 DEF DishesCounted, counterVars
<1> QED BY <1>2, <1>3, <1>4, <1>5, <1>6 DEF KitchenInv

LEMMA RemoteStopsKeeps ==
    ASSUME KitchenInv, NEW p \in Position, RemoteStops(p)
    PROVE  KitchenInv'
<1>0. [known[p] EXCEPT !.link = "stopped"] \in RemoteType
  BY DEF RemoteStops, KitchenInv, TypeOK, MapTypes, RemoteType
<1>1. Gains(0, 0, 0)
  BY GainsSame DEF RemoteStops, KitchenInv
<1>2. TypeOK'
  <2>1. MapTypes'
    BY <1>0 DEF RemoteStops, KitchenInv, TypeOK, MapTypes
  <2>2. GateTypes'
    BY DEF RemoteStops, KitchenInv, TypeOK, GateTypes, orderVars
  <2>3. CounterTypes'
    BY DEF RemoteStops, KitchenInv, TypeOK, CounterTypes, WorkTypes, orderVars,
       counterVars, boundVars, ghostVars
  <2>4. WorkTypes'
    <3>1. \A q \in Position : known[q] # None => known'[q] # None
      BY <1>0, KitchenAssumption DEF RemoteStops, KitchenInv, TypeOK, MapTypes
    <3> QED BY <1>1, <3>1 DEF RemoteStops, Gains, KitchenInv, TypeOK, WorkTypes,
               workVars
  <2>5. WorldTypes'
    BY DEF RemoteStops, KitchenInv, TypeOK, WorldTypes, worldVars
  <2> QED BY <2>1, <2>2, <2>3, <2>4, <2>5 DEF TypeOK
<1>3. OneGateDriver'
  BY <1>1 DEF RemoteStops, Gains, Counted, KitchenInv, TypeOK, GateTypes,
     CounterTypes, WorkTypes, Phase, OneGateDriver, Asking, Killed, One, orderVars, workVars
<1>4. NoOrderStranded'
  BY <1>1, <1>3 DEF RemoteStops, Gains, Counted, KitchenInv, TypeOK, GateTypes,
     CounterTypes, NoOrderStranded, OneGateDriver, Asking, Killed, One, orderVars
<1>5. OrdersAccounted'
  BY <1>1 DEF RemoteStops, Gains, Counted, KitchenInv, TypeOK, GateTypes,
     CounterTypes, WorkTypes, Phase, OrdersAccounted, One, counterVars,
     workVars, ghostVars
<1>6. DishesCounted'
  BY <1>1 DEF RemoteStops, Gains, Counted, KitchenInv, TypeOK, GateTypes,
     CounterTypes, DishesCounted, counterVars, ghostVars
<1> QED BY <1>2, <1>3, <1>4, <1>5, <1>6 DEF KitchenInv

LEMMA RemovalKeepsTypes ==
    ASSUME MapTypes
    PROVE  remove_stopped_robots \in [Position -> RemoteType \cup {None}]
BY DEF MapTypes, remove_stopped_robots

LEMMA StoppedIsRemote ==
    ASSUME NEW e \in RemoteType
    PROVE  [e EXCEPT !.link = "stopped"] \in RemoteType
BY DEF RemoteType

LEMMA ReadKeepsTypes ==
    ASSUME NEW m \in [Position -> RemoteType \cup {None}], NEW S
    PROVE  ReadPositions(m, S) \in [Position -> RemoteType \cup {None}]
<1>1. \A p \in Position :
         m[p] # None => [m[p] EXCEPT !.link = "stopped"] \in RemoteType
  BY StoppedIsRemote
<1> QED BY <1>1 DEF ReadPositions

LEMMA MetIsRemote ==
    ASSUME MapTypes, NEW p \in Position, NEW r \in Robot
    PROVE  Met(p, r) \in RemoteType \cup {None}
<1>1. Remote(r) \in RemoteType
  BY DEF Remote, RemoteType
<1> QED BY <1>1, RemovalKeepsTypes DEF Met

LEMMA HandleReceiveNextRobotKeeps ==
    ASSUME KitchenInv, HandleReceiveNextRobot
    PROVE  KitchenInv'
<1> DEFINE h == Head(io)
           e == Met(h.position, h.robot)
<1>a. \/ h.position \in Position /\ h.robot \in Robot
      \/ h.position = 0 /\ h.robot = None
  <2>1. h \in Handler /\ h.op = "next_robot"
    BY GainsTake DEF HandleReceiveNextRobot, KitchenInv
  <2> QED BY <2>1 DEF Handler
<1>b. 0 \notin Position
  BY KitchenAssumption
<1>c. h.position \in Position => e \in RemoteType \cup {None}
  BY <1>a, <1>b, MetIsRemote DEF KitchenInv, TypeOK
<1>d. e \in RemoteType => [e EXCEPT !.link = "stopped"] \in RemoteType
  BY StoppedIsRemote
<1>e. remove_stopped_robots \in [Position -> RemoteType \cup {None}]
  BY RemovalKeepsTypes DEF KitchenInv, TypeOK
<1>0. /\ phase = "idle"
      /\ \/ phase' = "instructing" /\ dropped' = dropped
         \/ phase' = "idle" /\ dropped' = dropped + 1
      /\ UNCHANGED <<orderVars, received, assigned, completed, requests, cooking,
                     boundVars, ghostVars>>
  BY DEF HandleReceiveNextRobot, Take
<1>1. Gains(0, -1, 0)
  BY GainsTake DEF HandleReceiveNextRobot, KitchenInv, One
<1>2. TypeOK'
  <2>1. MapTypes'
    BY <1>a, <1>b, <1>c, <1>d, <1>e DEF HandleReceiveNextRobot, MapTypes
  <2>2. GateTypes'
    BY DEF HandleReceiveNextRobot, Take, KitchenInv, TypeOK, GateTypes,
       orderVars
  <2>3. CounterTypes'
    BY <1>0 DEF KitchenInv, TypeOK, CounterTypes, WorkTypes, orderVars,
       counterVars, boundVars, ghostVars
  <2>4. WorkTypes'
    <3>1. CASE h.position # 0 /\ Live(e) /\ place[h.robot] = h.position
                   /\ Available(h.robot)
      <4>1. h.position \in Position /\ e # None
        BY <1>a, <3>1 DEF Live
      <4>2. phase' = "instructing" /\ addressed' = h.position /\ client' = client
        BY <3>1 DEF HandleReceiveNextRobot
      <4>3. known' = [remove_stopped_robots EXCEPT ![h.position] = e]
        BY <3>1 DEF HandleReceiveNextRobot
      <4>4. known'[h.position] = e
        BY <4>1, <4>3, <1>e
      <4> QED BY <1>1, <4>1, <4>2, <4>4
                 DEF Gains, KitchenInv, TypeOK, WorkTypes, Phase
    <3>2. CASE ~ (h.position # 0 /\ Live(e) /\ place[h.robot] = h.position
                   /\ Available(h.robot))
      <4>1. phase' = "idle" /\ addressed' = addressed /\ client' = client
        BY <3>2, <1>0 DEF HandleReceiveNextRobot
      <4> QED BY <1>0, <1>1, <4>1 DEF Gains, KitchenInv, TypeOK, WorkTypes, Phase
    <3> QED BY <3>1, <3>2
  <2>5. WorldTypes'
    BY DEF HandleReceiveNextRobot, Take, KitchenInv, TypeOK, WorldTypes,
       worldVars
  <2> QED BY <2>1, <2>2, <2>3, <2>4, <2>5 DEF TypeOK
<1>3. OneGateDriver'
  BY <1>0, <1>1, SMTT(60) DEF Gains, Counted, KitchenInv, TypeOK, GateTypes, CounterTypes,
     WorkTypes, Phase, OneGateDriver, Asking, Killed, One, orderVars, workVars
<1>4. NoOrderStranded'
  BY <1>0, <1>1, <1>3 DEF Gains, Counted, KitchenInv, TypeOK, GateTypes,
     CounterTypes, NoOrderStranded, OneGateDriver, Asking, Killed, One, orderVars
<1>5. OrdersAccounted'
  <2>1. Count("next_robot")' = Count("next_robot") - 1
        /\ Count("next_robot") \in Nat /\ Count("next_robot")' \in Nat
    BY <1>1 DEF Gains, Counted
  <2>2. /\ received' = received /\ repeated' = repeated /\ assigned' = assigned
        /\ requests' = requests /\ forgotten' = forgotten
    BY <1>0 DEF ghostVars
  <2>3. /\ One(phase # "idle") = 0 /\ One(phase' # "idle") \in {0, 1}
        /\ dropped' + One(phase' # "idle") = dropped + 1
    BY <1>0 DEF One, KitchenInv, TypeOK, CounterTypes
  <2>4. dropped' \in Nat
    BY <1>2 DEF TypeOK, CounterTypes
  <2> QED BY <2>1, <2>2, <2>3, <2>4
          DEF KitchenInv, TypeOK, CounterTypes, OrdersAccounted
<1>6. DishesCounted'
  BY <1>0, <1>1 DEF Gains, Counted, KitchenInv, TypeOK, GateTypes, CounterTypes,
     DishesCounted, counterVars, ghostVars
<1> QED BY <1>2, <1>3, <1>4, <1>5, <1>6 DEF KitchenInv

LEMMA HandlePositionSwappedKeeps ==
    ASSUME KitchenInv, HandlePositionSwapped
    PROVE  KitchenInv'
<1> DEFINE h == Head(io)
           read == ReadPositions(known, IF NotAt(known, h.old) THEN {h.old, h.new}
                                        ELSE {h.old})
<1>a. h.old \in Position /\ h.new \in Position
  <2>1. h \in Handler /\ h.op = "swapped"
    BY GainsTake DEF HandlePositionSwapped, KitchenInv
  <2> QED BY <2>1 DEF Handler
<1>b. read \in [Position -> RemoteType \cup {None}]
  BY ReadKeepsTypes DEF KitchenInv, TypeOK, MapTypes
<1>1. Gains(0, 0, 0)
  BY GainsTake DEF HandlePositionSwapped, KitchenInv, One
<1>2. TypeOK'
  <2>1. MapTypes'
    <3>1. \/ known' = read
          \/ known' = [read EXCEPT ![h.old] = read[h.new], ![h.new] = read[h.old]]
      BY DEF HandlePositionSwapped
    <3> HIDE DEF h, read
    <3> QED BY <3>1, <1>a, <1>b DEF MapTypes
  <2>2. GateTypes'
    BY DEF HandlePositionSwapped, Take, KitchenInv, TypeOK, GateTypes, orderVars
  <2>3. CounterTypes'
    BY DEF HandlePositionSwapped, Take, KitchenInv, TypeOK, CounterTypes,
       WorkTypes, orderVars, counterVars, boundVars, ghostVars
  <2>4. WorkTypes'
    BY <1>1 DEF HandlePositionSwapped, Take, Gains, KitchenInv, TypeOK,
       WorkTypes, Phase, workVars
  <2>5. WorldTypes'
    BY DEF HandlePositionSwapped, Take, KitchenInv, TypeOK, WorldTypes,
       worldVars
  <2> QED BY <2>1, <2>2, <2>3, <2>4, <2>5 DEF TypeOK
<1>3. OneGateDriver'
  BY <1>1 DEF HandlePositionSwapped, Take, Gains, Counted, KitchenInv, TypeOK,
     GateTypes, CounterTypes, WorkTypes, Phase, OneGateDriver, Asking, Killed, One, orderVars,
     workVars
<1>4. NoOrderStranded'
  BY <1>1, <1>3 DEF HandlePositionSwapped, Take, Gains, Counted, KitchenInv,
     TypeOK, GateTypes, CounterTypes, NoOrderStranded, OneGateDriver, Asking, Killed, One,
     orderVars
<1>5. OrdersAccounted'
  BY <1>1 DEF HandlePositionSwapped, Take, Gains, Counted, KitchenInv, TypeOK,
     GateTypes, CounterTypes, WorkTypes, Phase, OrdersAccounted, One,
     counterVars, workVars, ghostVars
<1>6. DishesCounted'
  BY <1>1 DEF HandlePositionSwapped, Take, Gains, Counted, KitchenInv, TypeOK,
     GateTypes, CounterTypes, DishesCounted, counterVars, ghostVars
<1> QED BY <1>2, <1>3, <1>4, <1>5, <1>6 DEF KitchenInv

LEMMA PositionChangedKeeps ==
    ASSUME KitchenInv, NEW p \in Position, PositionChanged(p)
    PROVE  KitchenInv'
<1>1. Gains(0, 0, 0)
  <2>1. known[p] \in RemoteType /\ place[known[p].robot] \in Position
    BY DEF PositionChanged, Live, KitchenInv, TypeOK, MapTypes, WorldTypes,
       RemoteType
  <2>2. CASE known[p].cached = 0
    BY <2>2, GainsSame DEF PositionChanged, KitchenInv
  <2>3. CASE known[p].cached # 0
    <3> DEFINE g == [op |-> "swapped", old |-> known[p].cached,
                     new |-> place[known[p].robot]]
    <3>1. g \in Handler
      BY <2>1, <2>3 DEF Handler, RemoteType
    <3>2. io' = Append(io, g) /\ g.op = "swapped"
      BY <2>3 DEF PositionChanged
    <3> QED BY <3>1, <3>2, GainsPost DEF KitchenInv, One
  <2> QED BY <2>2, <2>3
<1>2. TypeOK'
  <2>1. MapTypes'
    <3>1. [known[p] EXCEPT !.cached = place[known[p].robot]] \in RemoteType
      BY DEF PositionChanged, Live, KitchenInv, TypeOK, MapTypes, WorldTypes,
         RemoteType
    <3> QED BY <3>1 DEF PositionChanged, KitchenInv, TypeOK, MapTypes
  <2>2. GateTypes'
    BY DEF PositionChanged, KitchenInv, TypeOK, GateTypes, orderVars
  <2>3. CounterTypes'
    BY DEF PositionChanged, KitchenInv, TypeOK, CounterTypes, WorkTypes,
       orderVars, counterVars, boundVars, ghostVars
  <2>4. WorkTypes'
    <3>1. [known[p] EXCEPT !.cached = place[known[p].robot]] \in RemoteType
      BY DEF PositionChanged, Live, KitchenInv, TypeOK, MapTypes, WorldTypes,
         RemoteType
    <3>2. \A q \in Position : known[q] # None => known'[q] # None
      BY <3>1, KitchenAssumption DEF PositionChanged, KitchenInv, TypeOK,
         MapTypes
    <3> QED BY <1>1, <3>2 DEF PositionChanged, Gains, KitchenInv, TypeOK, WorkTypes,
               workVars
  <2>5. WorldTypes'
    BY DEF PositionChanged, KitchenInv, TypeOK, WorldTypes, worldVars
  <2> QED BY <2>1, <2>2, <2>3, <2>4, <2>5 DEF TypeOK
<1>3. OneGateDriver'
  BY <1>1 DEF PositionChanged, Gains, Counted, KitchenInv, TypeOK, GateTypes,
     CounterTypes, WorkTypes, Phase, OneGateDriver, Asking, Killed, One, orderVars, workVars
<1>4. NoOrderStranded'
  BY <1>1, <1>3 DEF PositionChanged, Gains, Counted, KitchenInv, TypeOK,
     GateTypes, CounterTypes, NoOrderStranded, OneGateDriver, Asking, Killed, One, orderVars
<1>5. OrdersAccounted'
  BY <1>1 DEF PositionChanged, Gains, Counted, KitchenInv, TypeOK, GateTypes,
     CounterTypes, WorkTypes, Phase, OrdersAccounted, One, counterVars,
     workVars, ghostVars
<1>6. DishesCounted'
  BY <1>1 DEF PositionChanged, Gains, Counted, KitchenInv, TypeOK, GateTypes,
     CounterTypes, DishesCounted, counterVars, ghostVars
<1> QED BY <1>2, <1>3, <1>4, <1>5, <1>6 DEF KitchenInv

LEMMA StutterKeeps ==
    ASSUME KitchenInv, UNCHANGED vars
    PROVE  KitchenInv'
<1>1. Gains(0, 0, 0)
  BY GainsSame DEF KitchenInv, vars
<1>2. TypeOK'
  <2>1. MapTypes'
    BY DEF vars, KitchenInv, TypeOK, MapTypes
  <2>2. GateTypes'
    BY DEF vars, KitchenInv, TypeOK, GateTypes, orderVars
  <2>3. CounterTypes'
    BY DEF vars, KitchenInv, TypeOK, CounterTypes, WorkTypes, orderVars,
       counterVars, boundVars, ghostVars
  <2>4. WorkTypes'
    BY <1>1 DEF vars, Gains, KitchenInv, TypeOK, MapTypes, WorkTypes, Phase,
       workVars
  <2>5. WorldTypes'
    BY DEF vars, KitchenInv, TypeOK, WorldTypes, worldVars
  <2> QED BY <2>1, <2>2, <2>3, <2>4, <2>5 DEF TypeOK
<1>3. OneGateDriver'
  BY <1>1 DEF vars, Gains, Counted, KitchenInv, TypeOK, GateTypes, CounterTypes,
     WorkTypes, Phase, OneGateDriver, Asking, Killed, One, orderVars, workVars
<1>4. NoOrderStranded'
  BY <1>1, <1>3 DEF vars, Gains, Counted, KitchenInv, TypeOK, GateTypes,
     CounterTypes, NoOrderStranded, OneGateDriver, Asking, Killed, One, orderVars
<1>5. OrdersAccounted'
  BY <1>1 DEF vars, Gains, Counted, KitchenInv, TypeOK, GateTypes, CounterTypes,
     WorkTypes, Phase, OrdersAccounted, One, counterVars, workVars, ghostVars
<1>6. DishesCounted'
  BY <1>1 DEF vars, Gains, Counted, KitchenInv, TypeOK, GateTypes, CounterTypes,
     DishesCounted, counterVars, ghostVars
<1> QED BY <1>2, <1>3, <1>4, <1>5, <1>6 DEF KitchenInv

LEMMA NextKeeps ==
    ASSUME KitchenInv, [Next]_vars
    PROVE  KitchenInv'
<1>1. CASE WorkerStep
  BY <1>1, HandleRandomOrderRequestKeeps, HandlePlacingGateKeeps,
     ChooseNextRobotKeeps, ChooseNextRobotFailsKeeps, ChooseWithoutClientKeeps,
     HandleReceiveNextRobotKeeps, InstructRobotKeeps, InstructFailsKeeps,
     HandleCompletedOrderKeeps, HandlePositionSwappedKeeps DEF WorkerStep
<1>2. CASE TimerExpires \/ ClientStep \/ ControllerAnswers
  BY <1>2, TimerExpiresKeeps, DropControllerKeeps, ReconnectKeeps,
     ControllerAnswersKeeps DEF ClientStep
<1>3. CASE RemoteStep
  BY <1>3, PositionChangedKeeps, RemoteStopsKeeps DEF RemoteStep
<1>4. CASE RobotStep
  BY <1>4, MoveKeeps, AdaptedKeeps DEF RobotStep
<1>5. CASE Disturbance
  BY <1>5, PlaceRandomOrderKeeps, ControllerRestartsKeeps, ReceiverBreaksKeeps,
     AdaptKeeps, RobotCrashesKeeps, DeliverDishKeeps, DoubleDishKeeps DEF Disturbance
<1>6. CASE UNCHANGED vars
  BY <1>6, StutterKeeps
<1> QED BY <1>1, <1>2, <1>3, <1>4, <1>5, <1>6 DEF Next

(* Every lost answer that makes the counters differ is one of the faults.   *)
LEMMA LostAnswersKeep ==
    ASSUME KitchenInv, LostAnswers <= faults, [Next]_vars
    PROVE  LostAnswers' <= faults'
<1> DEFINE Lost == <<repeated, unconfirmed, doubled>>
<1>1. {repeated, unconfirmed, doubled, faults} \subseteq Nat
  BY DEF KitchenInv, TypeOK, CounterTypes
<1>2. CASE UNCHANGED Lost /\ (UNCHANGED faults \/ faults' = faults + 1)
  BY <1>1, <1>2 DEF LostAnswers
<1>3. CASE /\ faults' = faults + 1
           /\ \/ repeated' = repeated + 1 /\ UNCHANGED <<unconfirmed, doubled>>
              \/ unconfirmed' = unconfirmed + 1 /\ UNCHANGED <<repeated, doubled>>
              \/ doubled' = doubled + 1 /\ UNCHANGED <<repeated, unconfirmed>>
  BY <1>1, <1>3 DEF LostAnswers
<1>4. CASE WorkerStep
  <2>1. CASE ChooseNextRobotFails \/ InstructFails
    BY <2>1, <1>2, <1>3 DEF ChooseNextRobotFails, InstructFails, Fault, boundVars
  <2>2. CASE \/ HandleRandomOrderRequest \/ HandlePlacingGate
             \/ ChooseNextRobot \/ ChooseWithoutClient
             \/ HandleReceiveNextRobot \/ InstructRobot
             \/ HandleCompletedOrder \/ HandlePositionSwapped
    BY <2>2, <1>2 DEF HandleRandomOrderRequest, HandlePlacingGate,
       ChooseNextRobot, ChooseWithoutClient, HandleReceiveNextRobot,
       InstructRobot, HandleCompletedOrder, HandlePositionSwapped, boundVars,
       ghostVars
  <2> QED BY <1>4, <2>1, <2>2 DEF WorkerStep
<1>5. CASE \/ TimerExpires \/ ClientStep \/ RemoteStep \/ RobotStep
           \/ ControllerAnswers \/ UNCHANGED vars
  BY <1>5, <1>2 DEF TimerExpires, ClientStep, DropController, Reconnect,
     RemoteStep, PositionChanged, RemoteStops, RobotStep, Adapted, Move,
     ControllerAnswers, vars, boundVars, ghostVars
<1>6. CASE Disturbance
  BY <1>6, <1>2, <1>3 DEF Disturbance, PlaceRandomOrder, ControllerRestarts,
     ReceiverBreaks, Adapt, RobotCrashes, DeliverDish, DoubleDish, Fault,
     boundVars, ghostVars
<1> QED BY <1>4, <1>5, <1>6 DEF Next

------------------------------------------------------------------------------
(* KitchenInv holds in every state the kitchen reaches.                     *)
THEOREM Invariance == Spec => []KitchenInv
BY InitEstablishes, NextKeeps, PTL DEF Spec

(* Every variable keeps its type; an order is only given to a robot of      *)
(* position_remote_robot_map_.                                              *)
THEOREM TypeCorrect == Spec => []TypeOK
<1>1. KitchenInv => TypeOK
  BY DEF KitchenInv
<1> QED BY <1>1, Invariance, PTL

(* The placing gate is open or exactly one thing will open it: the timer is *)
(* never armed twice and never left unarmed, whatever becomes of the        *)
(* controller; and no order waits in placing_queue_ behind an open gate.    *)
THEOREM GateIsDriven == Spec => []GateDriven
<1>1. KitchenInv => GateDriven
  BY DEF KitchenInv, GateDriven
<1> QED BY <1>1, Invariance, PTL

(* RECEIVED_ORDERS is ASSIGNED_ORDERS plus DROPPED_ORDERS plus the orders   *)
(* under way, up to those a lost answer doubled and those a controller took *)
(* along.                                                                   *)
THEOREM OrdersAreAccounted == Spec => []OrdersAccounted
<1>1. KitchenInv => OrdersAccounted
  BY DEF KitchenInv
<1> QED BY <1>1, Invariance, PTL

(* A dish is completed once for each time it was assigned, and once more    *)
(* for each answer that got lost on its way: of the robot to the kitchen or *)
(* to the conveyor, of the kitchen to the conveyor that delivers it.        *)
THEOREM DishesAreAccounted == Spec => []DishesAccounted
<1>1. Init => LostAnswers <= faults
  BY DEF Init, LostAnswers
<1>2. KitchenInv /\ LostAnswers <= faults /\ [Next]_vars
        => (LostAnswers <= faults)'
  BY LostAnswersKeep
<1>3. Spec => [](LostAnswers <= faults)
  BY <1>1, <1>2, Invariance, PTL DEF Spec
<1>4. KitchenInv /\ LostAnswers <= faults => DishesAccounted
  BY DEF KitchenInv, DishesAccounted
<1> QED BY <1>3, <1>4, Invariance, PTL
==============================================================================
