----------------------------- MODULE SystemProofs -----------------------------
(***************************************************************************)
(* The controller and its robots are the surroundings module Kitchen takes *)
(* for granted: System, for any number of robots, positions, requests and  *)
(* orders, refines Kitchen, step by step.  A request is held once, as a    *)
(* handler or as the call that answers it (Held); a robot that is told to  *)
(* adapt is up and AVAILABLE; and no more moves come of the requests than  *)
(* two each (MovesBounded), which is the bound the kitchen is given.       *)
(***************************************************************************)
EXTENDS System, ControllerSwapProofs

(* Who is answered has asked, and so its receiver is in the map, if the     *)
(* controller could connect to it.                                          *)
Answering ==
    "receiver" \notin FaultKinds =>
        \A i \in DOMAIN calls :
            calls[i].op = "answer" => receivers[calls[i].agent] # "none"

(* The calls of a swap come first in their handler.                         *)
SwitchIsFirst ==
    \A i \in DOMAIN calls : calls[i].op \in {"switch", "switch_second"} => i = 1

LiveIsUp == \A p \in Position : Alive(p) => up[known[p].robot]

(* The moves a request may still bring: two for each that waits, what the   *)
(* running handler has not told yet, and the robots that were told to go.   *)
IndicesOf(q, C) == {i \in DOMAIN q : q[i] \in C}
Number(q, C) == Cardinality(IndicesOf(q, C))
Requesting == {h \in Handler : h.op = "next_robot"}
Owed(cs) ==
    IF cs = <<>> THEN 0
    ELSE IF Head(cs).op = "switch" THEN 2
    ELSE IF Head(cs).op = "switch_second" THEN 1 ELSE 0
Going == {r \in Robot : target[r] # None}
MovesBounded ==
    /\ moves \in Nat /\ IsFiniteSet(Going) /\ asked <= MaxRequests
    /\ moves + Cardinality(Going) + Owed(calls) + 2 * Number(io, Requesting)
         <= 2 * asked

SystemInv == ControllerInv /\ Answering /\ SwitchIsFirst /\ LiveIsUp /\ MovesBounded

------------------------------------------------------------------------------
(* How many members of a queue are of a kind.                               *)

LEMMA NumberFacts ==
    ASSUME NEW S, NEW s \in Seq(S), NEW C
    PROVE  IsFiniteSet(IndicesOf(s, C)) /\ Number(s, C) \in Nat
<1>1. Len(s) \in Nat /\ DOMAIN s = 1..Len(s)
  OBVIOUS
<1>2. IndicesOf(s, C) \in SUBSET (1..Len(s))
  BY <1>1 DEF IndicesOf
<1>3. IsFiniteSet(1..Len(s))
  BY <1>1, FS_Interval
<1>4. IsFiniteSet(IndicesOf(s, C))
  BY <1>2, <1>3, FS_Subset
<1> QED BY <1>4, FS_CardinalityType DEF Number

LEMMA NumberNone ==
    ASSUME NEW s, NEW C, \A i \in DOMAIN s : s[i] \notin C
    PROVE  Number(s, C) = 0
<1>1. IndicesOf(s, C) = {}
  BY DEF IndicesOf
<1> QED BY <1>1, FS_EmptySet DEF Number

LEMMA NumberSame ==
    ASSUME NEW s, NEW t, NEW C, DOMAIN s = DOMAIN t,
           \A i \in DOMAIN s : s[i] \in C <=> t[i] \in C
    PROVE  Number(s, C) = Number(t, C)
<1>1. IndicesOf(s, C) = IndicesOf(t, C)
  BY DEF IndicesOf
<1> QED BY <1>1 DEF Number

LEMMA NumberAppend ==
    ASSUME NEW S, NEW s \in Seq(S), NEW h \in S, NEW C
    PROVE  Number(Append(s, h), C) = Number(s, C) + (IF h \in C THEN 1 ELSE 0)
<1> DEFINE t == Append(s, h)
<1>1. /\ Len(s) \in Nat /\ DOMAIN s = 1..Len(s)
      /\ DOMAIN t = 1..(Len(s) + 1)
      /\ \A i \in 1..Len(s) : t[i] = s[i]
      /\ t[Len(s) + 1] = h
  OBVIOUS
<1> HIDE DEF t
<1>2. CASE h \in C
  <2>1. IndicesOf(t, C) = IndicesOf(s, C) \cup {Len(s) + 1}
    BY <1>1, <1>2 DEF IndicesOf
  <2>2. Len(s) + 1 \notin IndicesOf(s, C)
    BY <1>1 DEF IndicesOf
  <2>3. Cardinality(IndicesOf(s, C) \cup {Len(s) + 1}) = Cardinality(IndicesOf(s, C)) + 1
    BY <2>2, NumberFacts, FS_AddElement
  <2> QED BY <1>2, <2>1, <2>3 DEF Number, t
<1>3. CASE h \notin C
  <2>1. IndicesOf(t, C) = IndicesOf(s, C)
    BY <1>1, <1>3 DEF IndicesOf
  <2>2. Number(s, C) \in Nat
    BY NumberFacts
  <2> QED BY <1>3, <2>1, <2>2 DEF Number, t
<1> QED BY <1>2, <1>3

LEMMA NumberTail ==
    ASSUME NEW S, NEW s \in Seq(S), s # <<>>, NEW C
    PROVE  Number(Tail(s), C) = Number(s, C) - (IF Head(s) \in C THEN 1 ELSE 0)
<1> DEFINE t == Tail(s)
           rest == IndicesOf(s, C) \ {1}
           back == [i \in rest |-> i - 1]
<1>1. /\ DOMAIN s = 1..Len(s) /\ Len(s) \in Nat \ {0}
      /\ DOMAIN t = 1..(Len(s) - 1)
      /\ \A i \in 1..(Len(s) - 1) : t[i] = s[i + 1]
      /\ Head(s) = s[1]
  OBVIOUS
<1> HIDE DEF t
<1>2. IsFiniteSet(IndicesOf(s, C)) /\ Cardinality(IndicesOf(s, C)) \in Nat
  BY NumberFacts DEF Number
<1>3. 1 \in IndicesOf(s, C) <=> Head(s) \in C
  BY <1>1 DEF IndicesOf
<1>4. Cardinality(rest) = IF 1 \in IndicesOf(s, C) THEN Cardinality(IndicesOf(s, C)) - 1
                          ELSE Cardinality(IndicesOf(s, C))
  BY <1>2, FS_RemoveElement
<1>5. IsFiniteSet(rest)
  BY <1>2, FS_RemoveElement
<1>6. rest \subseteq 2..Len(s)
  BY <1>1 DEF IndicesOf
<1>7. back \in Bijection(rest, IndicesOf(t, C))
  <2>1. \A i \in rest : back[i] \in IndicesOf(t, C)
    BY <1>1, <1>6 DEF IndicesOf
  <2>2. \A i, j \in rest : back[i] = back[j] => i = j
    BY <1>6
  <2>3. \A j \in IndicesOf(t, C) : \E i \in rest : back[i] = j
    <3>1. ASSUME NEW j \in IndicesOf(t, C)
          PROVE  j + 1 \in rest /\ back[j + 1] = j
      BY <1>1 DEF IndicesOf
    <3> QED BY <3>1
  <2> QED BY <2>1, <2>2, <2>3 DEF Bijection, Injection, Surjection, IsInjective
<1>8. Cardinality(IndicesOf(t, C)) = Cardinality(rest)
  BY <1>5, <1>7, FS_Bijection DEF ExistsBijection
<1> QED BY <1>2, <1>3, <1>4, <1>8 DEF Number, t

(* The requests of the kitchen: as handlers and as calls.                   *)
KitchenAsks == {h \in Handler : h.op = "next_robot" /\ h.agent = "kitchen"}
KitchenAnswers == {c \in SwapCall : c.op = "answer" /\ c.agent = "kitchen"}

LEMMA HeldIs ==
    ASSUME ControllerInv
    PROVE  /\ Held = Number(io, KitchenAsks) + Number(calls, KitchenAnswers)
           /\ Number(io, KitchenAsks) \in Nat /\ Number(calls, KitchenAnswers) \in Nat
           /\ Number(io, Requesting) \in Nat
<1>1. io \in Seq(Handler) /\ calls \in Seq(SwapCall)
  BY DEF ControllerInv, WorkTypes
<1>2. /\ \A i \in DOMAIN io : io[i] \in Handler
      /\ \A i \in DOMAIN calls : calls[i] \in SwapCall
  BY <1>1
<1>3. IndicesOf(io, KitchenAsks)
        = {i \in DOMAIN io : io[i].op = "next_robot" /\ io[i].agent = "kitchen"}
  BY <1>2 DEF IndicesOf, KitchenAsks
<1>4. IndicesOf(calls, KitchenAnswers)
        = {i \in DOMAIN calls : calls[i].op = "answer" /\ calls[i].agent = "kitchen"}
  BY <1>2 DEF IndicesOf, KitchenAnswers
<1> QED BY <1>1, <1>3, <1>4, NumberFacts DEF Held, Number

LEMMA HeldNext ==
    ASSUME ControllerInv'
    PROVE  /\ Held' = Number(io', KitchenAsks) + Number(calls', KitchenAnswers)
           /\ Number(io', KitchenAsks) \in Nat /\ Number(calls', KitchenAnswers) \in Nat
           /\ Number(io', Requesting) \in Nat
<1>1. io' \in Seq(Handler) /\ calls' \in Seq(SwapCall)
  BY DEF ControllerInv, WorkTypes
<1>2. /\ \A i \in DOMAIN io' : io'[i] \in Handler
      /\ \A i \in DOMAIN calls' : calls'[i] \in SwapCall
  BY <1>1
<1>3. IndicesOf(io', KitchenAsks)
        = {i \in DOMAIN io' : io'[i].op = "next_robot" /\ io'[i].agent = "kitchen"}
  BY <1>2 DEF IndicesOf, KitchenAsks
<1>4. IndicesOf(calls', KitchenAnswers)
        = {i \in DOMAIN calls' :
              calls'[i].op = "answer" /\ calls'[i].agent = "kitchen"}
  BY <1>2 DEF IndicesOf, KitchenAnswers
<1> QED BY <1>1, <1>3, <1>4, NumberFacts DEF Held, Number

------------------------------------------------------------------------------
(* What the steps of the controller do to its queues.                       *)

(* Answers that were there already are still for somebody.                  *)
LEMMA StillAnswering ==
    ASSUME ControllerInv, Answering,
           \A i \in DOMAIN calls' :
              calls'[i].op = "answer" => \E j \in DOMAIN calls : calls[j] = calls'[i],
           \A a \in Agent : receivers[a] # "none" => receivers'[a] # "none"
    PROVE  Answering'
<1>1. \A j \in DOMAIN calls : calls[j] \in SwapCall
  BY DEF ControllerInv, WorkTypes
<1>2. ASSUME "receiver" \notin FaultKinds,
             NEW i \in DOMAIN calls', calls'[i].op = "answer"
      PROVE  receivers'[calls'[i].agent] # "none"
  <2>1. PICK j \in DOMAIN calls : calls[j] = calls'[i]
    BY <1>2
  <2>2. calls[j].op = "answer" /\ calls[j].agent \in Agent
    BY <1>1, <1>2, <2>1, CallFields
  <2>3. receivers[calls[j].agent] # "none"
    BY <1>2, <2>2 DEF Answering
  <2> QED BY <2>1, <2>2, <2>3
<1> QED BY <1>2 DEF Answering

(* The queues after a step: still in order, the kitchen's requests as many, *)
(* and the moves that are owed less by what was told.                       *)
Kept(told) ==
    /\ Answering' /\ SwitchIsFirst' /\ Held' = Held
    /\ Owed(calls') + 2 * Number(io', Requesting) + told
         <= Owed(calls) + 2 * Number(io, Requesting)

LEMMA OwedFacts == \A cs : Owed(cs) \in {0, 1, 2}
  BY DEF Owed

LEMMA QueuesSame ==
    ASSUME ControllerInv, ControllerInv', Answering, SwitchIsFirst,
           UNCHANGED <<io, calls>>,
           \A a \in Agent : receivers[a] # "none" => receivers'[a] # "none"
    PROVE  Kept(0)
<1>1. Answering'
  BY StillAnswering
<1>2. SwitchIsFirst'
  BY DEF SwitchIsFirst
<1>3. Held' = Held
  BY DEF Held
<1> QED BY <1>1, <1>2, <1>3, HeldIs, OwedFacts DEF Kept

LEMMA TailFacts ==
    ASSUME NEW S, NEW s \in Seq(S), s # <<>>
    PROVE  /\ Tail(s) \in Seq(S) /\ Head(s) \in S /\ Head(s) = s[1] /\ 1 \in DOMAIN s
           /\ \A i \in DOMAIN Tail(s) :
                 i + 1 \in DOMAIN s /\ i + 1 # 1 /\ Tail(s)[i] = s[i + 1]
           /\ Tail(s) # <<>> => 1 \in DOMAIN Tail(s) /\ Head(Tail(s)) = Tail(s)[1]
<1>1. DOMAIN s = 1..Len(s) /\ Len(s) \in Nat \ {0} /\ Len(Tail(s)) = Len(s) - 1
      /\ DOMAIN Tail(s) = 1..(Len(s) - 1)
  OBVIOUS
<1>2. \A i \in 1..(Len(s) - 1) :
         i + 1 \in 1..Len(s) /\ i + 1 # 1 /\ Tail(s)[i] = s[i + 1]
  BY <1>1
<1>3. Tail(s) # <<>> => 1 \in 1..(Len(s) - 1) /\ Head(Tail(s)) = Tail(s)[1]
  BY <1>1
<1> QED BY <1>1, <1>2, <1>3

(* A call is made and no answer was it.                                     *)
LEMMA CallMade ==
    ASSUME ControllerInv, ControllerInv', Answering, SwitchIsFirst,
           UNCHANGED <<io, receivers>>, calls # <<>>, calls' = Tail(calls)
    PROVE  /\ Answering' /\ SwitchIsFirst' /\ Owed(calls') = 0
           /\ Held' = Held - (IF /\ Head(calls).op = "answer"
                                 /\ Head(calls).agent = "kitchen" THEN 1 ELSE 0)
           /\ Head(calls).op # "answer" => Kept(Owed(calls))
<1>1. calls \in Seq(SwapCall)
  BY DEF ControllerInv, WorkTypes
<1>2. /\ Head(calls) \in SwapCall /\ Head(calls) = calls[1]
      /\ \A i \in DOMAIN calls' :
            i + 1 \in DOMAIN calls /\ i + 1 # 1 /\ calls'[i] = calls[i + 1]
      /\ calls' # <<>> => 1 \in DOMAIN calls' /\ Head(calls') = calls'[1]
  BY <1>1, TailFacts
<1>3. Answering'
  BY <1>2, StillAnswering
<1>4. \A i \in DOMAIN calls' : calls'[i].op \notin {"switch", "switch_second"}
  BY <1>2 DEF SwitchIsFirst
<1>5. SwitchIsFirst'
  BY <1>4 DEF SwitchIsFirst
<1>6. Owed(calls') = 0
  BY <1>2, <1>4 DEF Owed
<1>7. Number(calls', KitchenAnswers)
        = Number(calls, KitchenAnswers)
            - (IF Head(calls) \in KitchenAnswers THEN 1 ELSE 0)
  BY <1>1, NumberTail
<1>8. Head(calls) \in KitchenAnswers
        <=> Head(calls).op = "answer" /\ Head(calls).agent = "kitchen"
  BY <1>2 DEF KitchenAnswers
<1>9. Held' = Held - (IF /\ Head(calls).op = "answer"
                         /\ Head(calls).agent = "kitchen" THEN 1 ELSE 0)
  BY <1>7, <1>8, HeldIs, HeldNext
<1>10. Held \in Nat
  BY HeldIs
<1>11. ASSUME Head(calls).op # "answer"
       PROVE  Kept(Owed(calls))
  <2>1. Held' = Held
    BY <1>9, <1>10, <1>11
  <2>2. Number(io', Requesting) = Number(io, Requesting)
    OBVIOUS
  <2> QED BY <1>3, <1>5, <1>6, <2>1, <2>2, HeldIs, OwedFacts DEF Kept
<1> QED BY <1>3, <1>5, <1>6, <1>9, <1>11

LEMMA Joined ==
    ASSUME NEW S, NEW c \in S, NEW t \in Seq(S)
    PROVE  LET s == <<c>> \o t
           IN /\ Len(s) = Len(t) + 1 /\ DOMAIN s = 1..(Len(t) + 1) /\ s[1] = c
              /\ \A i \in 1..Len(t) : s[i + 1] = t[i]
  OBVIOUS

(* The first call of a swap is followed by the second.                      *)
LEMMA SecondFollows ==
    ASSUME ControllerInv, ControllerInv', Answering, SwitchIsFirst,
           UNCHANGED <<io, receivers>>, Calling("switch"),
           NEW from, NEW to,
           calls' = <<[op |-> "switch_second", from |-> from, to |-> to]>>
                      \o Tail(calls)
    PROVE  Kept(1)
<1> DEFINE c == [op |-> "switch_second", from |-> from, to |-> to]
<1>1. /\ calls \in Seq(SwapCall) /\ calls' \in Seq(SwapCall)
      /\ calls # <<>> /\ Head(calls).op = "switch"
  BY DEF ControllerInv, WorkTypes, Calling
<1>2. DOMAIN calls' = DOMAIN calls /\ Head(calls) = calls[1] /\ Head(calls') = calls'[1]
      /\ 1 \in DOMAIN calls /\ calls'[1] = c /\ calls' # <<>>
      /\ \A i \in DOMAIN calls : i # 1 => calls'[i] = calls[i]
  <2>1. Len(calls) \in Nat \ {0} /\ DOMAIN calls = 1..Len(calls)
        /\ Tail(calls) \in Seq(SwapCall) /\ Len(Tail(calls)) = Len(calls) - 1
        /\ \A i \in 1..(Len(calls) - 1) : Tail(calls)[i] = calls[i + 1]
        /\ Head(calls) = calls[1]
    BY <1>1
  <2>2. Tail(calls) \in Seq(SwapCall \cup {c}) /\ c \in SwapCall \cup {c}
    BY <2>1
  <2> DEFINE t == Tail(calls)
  <2>3. /\ Len(calls') = Len(t) + 1 /\ DOMAIN calls' = 1..(Len(t) + 1)
        /\ calls'[1] = c /\ \A i \in 1..Len(t) : calls'[i + 1] = t[i]
    BY <2>2, Joined
  <2>4. Len(t) = Len(calls) - 1 /\ \A i \in 1..(Len(calls) - 1) : t[i] = calls[i + 1]
    BY <2>1
  <2> HIDE DEF t, c
  <2>5. /\ Len(calls') = Len(calls) /\ DOMAIN calls' = 1..Len(calls)
        /\ calls'[1] = c /\ \A i \in 1..(Len(calls) - 1) : calls'[i + 1] = t[i]
    BY <2>1, <2>3, <2>4
  <2>6. \A i \in 2..Len(calls) : i - 1 \in 1..(Len(calls) - 1) /\ (i - 1) + 1 = i
    BY <2>1
  <2>7. \A i \in 2..Len(calls) : calls'[i] = calls[i]
    <3>1. \A i \in 1..(Len(calls) - 1) : calls'[i + 1] = calls[i + 1]
      BY <2>4, <2>5
    <3> QED BY <2>6, <3>1
  <2>8. calls' # <<>> /\ Head(calls') = calls'[1]
    BY <1>1, <2>1, <2>5
  <2> QED BY <2>1, <2>5, <2>7, <2>8
<1>3. c.op = "switch_second"
  OBVIOUS
<1> HIDE DEF c
<1>4. Answering'
  BY <1>2, <1>3, StillAnswering
<1>5. SwitchIsFirst'
  BY <1>2 DEF SwitchIsFirst
<1>6. Owed(calls') = 1 /\ Owed(calls) = 2
  BY <1>1, <1>2, <1>3 DEF Owed
<1>7. Number(calls', KitchenAnswers) = Number(calls, KitchenAnswers)
  <2>1. calls'[1] \notin KitchenAnswers /\ calls[1] \notin KitchenAnswers
    BY <1>1, <1>2, <1>3 DEF KitchenAnswers
  <2>2. \A i \in DOMAIN calls' : calls'[i] \in KitchenAnswers
                                   <=> calls[i] \in KitchenAnswers
    BY <1>2, <2>1
  <2> QED BY <1>2, <2>2, NumberSame
<1>8. Held' = Held
  BY <1>7, HeldIs, HeldNext
<1> QED BY <1>4, <1>5, <1>6, <1>8, HeldIs DEF Kept

(* A handler that is no request is taken and calls for no answer.           *)
LEMMA HandlerTaken ==
    ASSUME ControllerInv, ControllerInv', Answering, SwitchIsFirst,
           UNCHANGED receivers, NEW op, op # "next_robot", Take(op),
           \A i \in DOMAIN calls' : calls'[i].op \in {"resolve", "commit"}
    PROVE  Kept(0)
<1>1. /\ io \in Seq(Handler) /\ io # <<>> /\ Head(io).op # "next_robot"
      /\ io' = Tail(io) /\ calls = <<>> /\ calls' \in Seq(SwapCall)
  BY DEF ControllerInv, WorkTypes, Take
<1>2. Answering' /\ SwitchIsFirst'
  BY DEF Answering, SwitchIsFirst
<1>3. Head(io) \notin Requesting /\ Head(io) \notin KitchenAsks
  BY <1>1 DEF Requesting, KitchenAsks
<1>4. /\ Number(io', Requesting) = Number(io, Requesting)
      /\ Number(io', KitchenAsks) = Number(io, KitchenAsks)
  BY <1>1, <1>3, NumberTail, HeldIs
<1>5. Number(calls, KitchenAnswers) = 0
  BY <1>1, NumberNone
<1>6. Number(calls', KitchenAnswers) = 0
  <2>1. \A i \in DOMAIN calls' : calls'[i] \notin KitchenAnswers
    BY DEF KitchenAnswers
  <2> QED BY <2>1, NumberNone
<1>7. Held' = Held
  BY <1>4, <1>5, <1>6, HeldIs, HeldNext
<1>8. Owed(calls') = 0
  <2>1. calls' # <<>> => 1 \in DOMAIN calls' /\ Head(calls') = calls'[1]
    BY <1>1, TailFacts
  <2> QED BY <2>1 DEF Owed
<1> QED BY <1>2, <1>4, <1>7, <1>8, HeldIs, OwedFacts DEF Kept

(* A handler that is no request is posted.                                  *)
LEMMA HandlerPosted ==
    ASSUME ControllerInv, ControllerInv', Answering, SwitchIsFirst,
           UNCHANGED <<calls, receivers>>,
           NEW h \in Handler, h.op # "next_robot", io' = Append(io, h)
    PROVE  Kept(0)
<1>1. io \in Seq(Handler)
  BY DEF ControllerInv, WorkTypes
<1>2. Answering' /\ SwitchIsFirst'
  BY DEF Answering, SwitchIsFirst
<1>3. h \notin Requesting /\ h \notin KitchenAsks
  BY DEF Requesting, KitchenAsks
<1>4. /\ Number(io', Requesting) = Number(io, Requesting)
      /\ Number(io', KitchenAsks) = Number(io, KitchenAsks)
  BY <1>1, <1>3, NumberAppend, HeldIs
<1>5. Held' = Held
  BY <1>4, HeldIs, HeldNext
<1> QED BY <1>2, <1>4, <1>5, HeldIs, OwedFacts DEF Kept

LEMMA LastOf ==
    ASSUME NEW S, NEW w \in Seq(S), NEW a \in S
    PROVE  /\ w \o <<a>> = Append(w, a)
           /\ Len(w) + 1 \in DOMAIN Append(w, a) /\ Append(w, a)[Len(w) + 1] = a
  OBVIOUS

(* What a strategy asks for: a switch first or none, and no answers.        *)
LEMMA WantedFacts ==
    ASSUME NEW m \in Remotes, NEW todo, NEW s \in Strategy,
           NEW wanted \in Adaptations(s, m, todo)
    PROVE  \A i \in DOMAIN wanted :
              wanted[i].op \in {"switch", "reconfigure"}
              /\ (wanted[i].op = "switch" => i = 1)
<1>1. CASE wanted = <<>>
  BY <1>1
<1>2. ASSUME NEW p \in Position, NEW q \in Position,
             wanted = <<Switch(m[p].cached, m[q].cached)>>
      PROVE  \A i \in DOMAIN wanted : wanted[i].op = "switch" /\ i = 1
  <2>1. PICK c : c = Switch(m[p].cached, m[q].cached)
    OBVIOUS
  <2>2. c.op = "switch"
    BY <2>1 DEF Switch
  <2>3. DOMAIN wanted = {1} /\ wanted[1] = c
    BY <1>2, <2>1
  <2> QED BY <2>2, <2>3
<1>3. ASSUME NEW p, NEW q, NEW f, NEW g,
             wanted = <<Reconfigure(p, f), Reconfigure(q, g)>>
      PROVE  \A i \in DOMAIN wanted : wanted[i].op = "reconfigure"
  <2>1. /\ DOMAIN wanted = {1, 2}
        /\ wanted[1].op = "reconfigure" /\ wanted[2].op = "reconfigure"
    BY <1>3 DEF Reconfigure
  <2> QED BY <2>1
<1> QED BY <1>1, <1>2, <1>3, AdaptationsShape

(* A request becomes its answer, and a swap at most.                        *)
LEMMA RequestTaken ==
    ASSUME ControllerInv, ControllerInv', Answering, SwitchIsFirst,
           HandleNextRobotRequest
    PROVE  Kept(0)
<1> DEFINE m == remove_stopped_robots
           todo == Remaining(Head(io).recipe, Head(io).steps)
           h == Head(io)
           a == [op |-> "answer", agent |-> h.agent, at |-> Next1(m, todo)]
<1>1. /\ io # <<>> /\ calls = <<>> /\ io' = Tail(io) /\ h.op = "next_robot"
      /\ IF receivers[h.agent] = "none"
         THEN \E l \in Connected : receivers' = [receivers EXCEPT ![h.agent] = l]
         ELSE UNCHANGED receivers
  BY DEF HandleNextRobotRequest, Take
<1>2. PICK s \in Strategies : \E wanted \in Adaptations(s, m, todo) :
         calls' = wanted \o <<a>>
  BY DEF HandleNextRobotRequest, Reply
<1>3. PICK wanted \in Adaptations(s, m, todo) : calls' = wanted \o <<a>>
  BY <1>2
<1>4. io \in Seq(Handler) /\ calls' \in Seq(SwapCall) /\ h \in Handler
  BY <1>1 DEF ControllerInv, WorkTypes
<1>5. s \in Strategy /\ m \in Remotes
  BY ControllerAssumption, RemovalFacts DEF ControllerInv
<1>6. a.op = "answer" /\ a.agent = h.agent
  OBVIOUS
<1>7. h.agent \in Agent
  BY <1>1, <1>4, HandlerFields
<1> DEFINE S == SwapCall \cup {a}
<1>8. wanted \in Seq(S) /\ a \in S
  BY <1>5, AdaptationsType
<1> HIDE DEF m, todo, a, S, h
<1>9. \A i \in DOMAIN wanted :
         wanted[i].op \in {"switch", "reconfigure"} /\ (wanted[i].op = "switch" => i = 1)
  BY <1>5, WantedFacts
<1>10. /\ calls' # <<>> /\ 1 \in DOMAIN calls' /\ Head(calls') = calls'[1]
       /\ \A i \in DOMAIN calls' :
             (i \in DOMAIN wanted /\ calls'[i] = wanted[i]) \/ calls'[i] = a
  BY <1>3, <1>8, Appended
<1>11. /\ calls' = Append(wanted, a) /\ Len(wanted) + 1 \in DOMAIN calls'
       /\ calls'[Len(wanted) + 1] = a
  BY <1>3, <1>8, LastOf
<1>12. a \in SwapCall
  BY <1>4, <1>11
<1>13. Answering'
  <2>1. "receiver" \notin FaultKinds => receivers'[a.agent] # "none"
    BY <1>1, <1>6, <1>7 DEF Connected, ControllerInv, LinkTypes
  <2>2. \A i \in DOMAIN calls' : calls'[i].op = "answer" => calls'[i] = a
    BY <1>9, <1>10
  <2> QED BY <2>1, <2>2 DEF Answering
<1>14. SwitchIsFirst'
  BY <1>6, <1>9, <1>10 DEF SwitchIsFirst
<1>15. Owed(calls) = 0 /\ Owed(calls') \in {0, 1, 2}
  BY <1>1, OwedFacts DEF Owed
<1>16. Number(io', Requesting) = Number(io, Requesting) - 1
  <2>1. h \in Requesting
    BY <1>1, <1>4 DEF Requesting
  <2> QED BY <1>1, <1>4, <2>1, NumberTail DEF h
<1>17. Number(calls, KitchenAnswers) = 0 /\ Number(wanted, KitchenAnswers) = 0
  <2>1. \A i \in DOMAIN wanted : wanted[i] \notin KitchenAnswers
    BY <1>9 DEF KitchenAnswers
  <2> QED BY <1>1, <2>1, NumberNone
<1>18. Number(calls', KitchenAnswers) = IF a \in KitchenAnswers THEN 1 ELSE 0
  BY <1>8, <1>11, <1>17, NumberAppend
<1>19. Number(io', KitchenAsks)
         = Number(io, KitchenAsks) - (IF h \in KitchenAsks THEN 1 ELSE 0)
  BY <1>1, <1>4, NumberTail DEF h
<1>20. h \in KitchenAsks <=> a \in KitchenAnswers
  BY <1>1, <1>4, <1>6, <1>12 DEF KitchenAsks, KitchenAnswers
<1>21. Held' = Held
  BY <1>17, <1>18, <1>19, <1>20, HeldIs, HeldNext
<1> QED BY <1>13, <1>14, <1>15, <1>16, <1>21, HeldIs DEF Kept

(* Somebody asks.                                                           *)
LEMMA RequestPosted ==
    ASSUME ControllerInv, ControllerInv', Answering, SwitchIsFirst,
           NEW a \in Agent, Ask(a)
    PROVE  /\ Answering' /\ SwitchIsFirst'
           /\ Held' = Held + (IF a = "kitchen" THEN 1 ELSE 0)
           /\ Owed(calls') + 2 * Number(io', Requesting)
                = Owed(calls) + 2 * Number(io, Requesting) + 2
<1>0. PICK r \in Recipe : \E n \in 0..(Len(Instructions[r]) - 1) :
         io' = Append(io, [op |-> "next_robot", agent |-> a, recipe |-> r,
                           steps |-> n])
  BY DEF Ask
<1>1. PICK n \in 0..(Len(Instructions[r]) - 1) :
         io' = Append(io, [op |-> "next_robot", agent |-> a, recipe |-> r,
                           steps |-> n])
  BY <1>0
<1>2. PICK h : h = [op |-> "next_robot", agent |-> a, recipe |-> r, steps |-> n]
  OBVIOUS
<1>3. h.op = "next_robot" /\ h.agent = a /\ h \in Handler
  BY <1>2 DEF Handler
<1>4. io' = Append(io, h) /\ io \in Seq(Handler) /\ UNCHANGED <<calls, receivers>>
  BY <1>1, <1>2 DEF Ask, ControllerInv, WorkTypes
<1>5. Answering' /\ SwitchIsFirst'
  BY <1>4 DEF Answering, SwitchIsFirst
<1>6. /\ h \in Requesting /\ (h \in KitchenAsks <=> a = "kitchen")
  BY <1>3 DEF Requesting, KitchenAsks
<1>7. /\ Number(io', Requesting) = Number(io, Requesting) + 1
      /\ Number(io', KitchenAsks)
           = Number(io, KitchenAsks) + (IF a = "kitchen" THEN 1 ELSE 0)
  BY <1>3, <1>4, <1>6, NumberAppend
<1>8. Held' = Held + (IF a = "kitchen" THEN 1 ELSE 0)
  BY <1>4, <1>7, HeldIs, HeldNext
<1>9. Owed(calls') = Owed(calls) /\ Owed(calls) \in {0, 1, 2}
  BY <1>4, OwedFacts
<1>10. /\ Number(io, Requesting) \in Nat
       /\ Number(io', Requesting) = Number(io, Requesting) + 1
  BY <1>7, HeldIs
<1>11. Owed(calls') + 2 * Number(io', Requesting)
         = Owed(calls) + 2 * Number(io, Requesting) + 2
  BY <1>9, <1>10
<1> QED BY <1>5, <1>8, <1>11

------------------------------------------------------------------------------
(* A link that is live has a robot at its end: what is live afterwards was  *)
(* live before.                                                             *)
LivesIn(m, n) ==
    \A p \in Position : n[p] # None /\ n[p].link = "live" =>
        \E o \in Position : /\ m[o] # None /\ m[o].link = "live"
                            /\ m[o].robot = n[p].robot

LEMMA LivesRefl == \A m : LivesIn(m, m)
  BY DEF LivesIn

LEMMA LivesTrans ==
    ASSUME NEW l, NEW m, NEW n, LivesIn(l, m), LivesIn(m, n)
    PROVE  LivesIn(l, n)
  BY DEF LivesIn

LEMMA SameEntriesLive ==
    ASSUME NEW m, NEW n, SameEntries(m, n)
    PROVE  LivesIn(m, n)
  BY DEF SameEntries, LivesIn

LEMMA LiveFrame ==
    ASSUME LiveIsUp, UNCHANGED up, LivesIn(known, known')
    PROVE  LiveIsUp'
<1>1. \A p \in Position : known[p] # None /\ known[p].link = "live"
                            => up[known[p].robot]
  BY DEF LiveIsUp, Alive
<1>2. ASSUME NEW p \in Position, known'[p] # None, known'[p].link = "live"
      PROVE  up'[known'[p].robot]
  BY <1>1, <1>2 DEF LivesIn
<1> QED BY <1>2 DEF LiveIsUp, Alive

LEMMA StopLives ==
    ASSUME NEW m \in Remotes, NEW p \in Position
    PROVE  LivesIn(m, Stop(m, p)) /\ Stop(m, p) \in Remotes
  BY StoppedEntry, SameEntriesLive, StopFacts

LEMMA FlagLives ==
    ASSUME NEW m \in Remotes, NEW p \in Position, m[p] # None
    PROVE  LivesIn(m, Flagged(m, p))
  BY FlaggedEntry, SameEntriesLive

(* The maps that the calls of the worker leave.                             *)
LEMMA CallsLeaveLives ==
    ASSUME ControllerInv,
           \/ Resolve \/ Commit \/ Answer \/ AnswerFails \/ SwitchSkipped
           \/ SwitchFirst \/ SwitchSecond \/ SwitchSecondFails
           \/ ReconfigureSkipped \/ ReconfigureCall
    PROVE  LivesIn(known, known')
<1>1. known \in Remotes
  BY DEF ControllerInv, MapTypes
<1>2. calls # <<>> => Head(calls) \in SwapCall
  BY DEF ControllerInv, WorkTypes
<1>3. \A p \in Position : LivesIn(known, Stop(known, p))
  BY <1>1, StopLives
<1>4. \A p \in Position : known[p] # None => LivesIn(known, Flagged(known, p))
  BY <1>1, FlagLives
<1>5. LivesIn(known, known)
  BY LivesRefl
<1>6. CASE Resolve
  <2>1. Head(calls).at \in Position
    BY <1>2, <1>6, CallFields DEF Resolve, Calling
  <2> QED BY <2>1, <1>3, <1>5, <1>6 DEF Resolve
<1>7. CASE Commit
  <2>1. Head(calls).at \in Position
    BY <1>2, <1>7, CallFields DEF Commit, Calling
  <2> QED BY <2>1, <1>3, <1>5, <1>7 DEF Commit
<1>8. CASE Answer \/ AnswerFails
  BY <1>5, <1>8 DEF Answer, AnswerFails, mapVars
<1>9. CASE SwitchSkipped
  <2>1. Head(calls).from \in Position /\ Head(calls).to \in Position
    BY <1>2, <1>9, CallFields DEF SwitchSkipped, Calling
  <2> QED BY <2>1, <1>3, <1>5, <1>9 DEF SwitchSkipped, StopUnlessAlive
<1>10. CASE SwitchFirst
  <2>1. Head(calls).from \in Position
    BY <1>2, <1>10, CallFields DEF SwitchFirst, Calling
  <2>2. known[Head(calls).from] # None
    BY <1>10 DEF SwitchFirst, Refused
  <2> QED BY <2>1, <2>2, <1>4, <1>5, <1>10 DEF SwitchFirst
<1>11. CASE SwitchSecond
  <2>1. Head(calls).to \in Position
    BY <1>2, <1>11, CallFields DEF SwitchSecond, Calling
  <2>2. \/ known' = known
        \/ known[Head(calls).to] # None /\ known' = Flagged(known, Head(calls).to)
    BY <1>11 DEF SwitchSecond
  <2> QED BY <2>1, <2>2, <1>4, <1>5
<1>12. CASE SwitchSecondFails
  <2>1. PICK to : to = Head(calls).to
    OBVIOUS
  <2>2. to \in Position
    BY <1>2, <1>12, <2>1, CallFields DEF SwitchSecondFails, Calling
  <2>3. known[to] # None /\ known' = Flagged(Stop(known, to), to)
    BY <1>12, <2>1 DEF SwitchSecondFails
  <2>4. PICK n : n = Stop(known, to)
    OBVIOUS
  <2>5. LivesIn(known, n) /\ n \in Remotes
    BY <1>1, <2>2, <2>4, StopLives
  <2>6. n[to] # None
    BY <1>1, <2>2, <2>3, <2>4, StoppedEntry DEF SameEntries
  <2>7. LivesIn(n, Flagged(n, to))
    BY <2>2, <2>5, <2>6, FlagLives
  <2> QED BY <2>3, <2>4, <2>5, <2>7, LivesTrans
<1>13. CASE ReconfigureSkipped
  <2>1. Head(calls).at \in Position
    BY <1>2, <1>13, CallFields DEF ReconfigureSkipped, Calling
  <2> QED BY <2>1, <1>3, <1>5, <1>13 DEF ReconfigureSkipped, StopUnlessAlive
<1>14. CASE ReconfigureCall
  <2>1. Head(calls).at \in Position
    BY <1>2, <1>14, CallFields DEF ReconfigureCall, Calling
  <2>2. known[Head(calls).at] # None
    BY <1>14 DEF ReconfigureCall
  <2> QED BY <2>1, <2>2, <1>3, <1>4, <1>5, <1>14 DEF ReconfigureCall
<1> QED BY <1>6, <1>7, <1>8, <1>9, <1>10, <1>11, <1>12, <1>13, <1>14

LEMMA RemovalLives ==
    ASSUME ControllerInv
    PROVE  LivesIn(known, remove_stopped_robots)
  BY RemovedEntries DEF LivesIn

LEMMA SettledLives ==
    ASSUME NEW m \in Remotes, NEW p \in Position, m[p] # None
    PROVE  LivesIn(m, [m EXCEPT ![p] = Settled(@)])
<1> DEFINE n == [m EXCEPT ![p] = Settled(@)]
<1>1. m[p] \in RemoteType
  BY EntryFields
<1>2. /\ n[p] = Settled(m[p])
      /\ \A o \in Position \ {p} : n[o] = m[o]
  BY DEF Remotes
<1>3. Settled(m[p]).robot = m[p].robot /\ Settled(m[p]).link = m[p].link
  BY <1>1, SettledFacts
<1> HIDE DEF n
<1>4. LivesIn(m, n)
  BY <1>2, <1>3 DEF LivesIn
<1> QED BY <1>4 DEF n

LEMMA RekeyedLives ==
    ASSUME NEW m \in Remotes, NEW k \in SwapKey
    PROVE  LivesIn(m, Rekeyed(m, k))
<1> DEFINE n == Rekeyed(m, k)
<1>1. k[1] \in Position /\ k[2] \in Position
  BY KeyPositions
<1>2. \A p \in Position : m[p] # None =>
         Settled(m[p]).robot = m[p].robot /\ Settled(m[p]).link = m[p].link
  BY EntryFields, SettledFacts
<1>3. \A p \in Position :
         \/ n[p] = None \/ n[p] = m[p]
         \/ m[k[2]] # None /\ n[p] = Settled(m[k[2]])
         \/ m[k[1]] # None /\ n[p] = Settled(m[k[1]])
  BY DEF Rekeyed
<1> HIDE DEF n
<1>4. LivesIn(m, n)
  BY <1>1, <1>2, <1>3 DEF LivesIn
<1> QED BY <1>4 DEF n

(* The handlers: only a robot that is up is entered.                        *)
LEMMA HandlersLive ==
    ASSUME ControllerInv, LiveIsUp,
           \/ HandleRobotRegistration \/ HandleNextRobotRequest
           \/ HandlePositionSwapped \/ HandleCapabilitiesReconfigured
    PROVE  LiveIsUp'
<1>1. PICK m : m = remove_stopped_robots
  OBVIOUS
<1>2. LivesIn(known, m) /\ m \in Remotes /\ UNCHANGED up
  BY <1>1, RemovalLives, RemovedEntries
     DEF HandleRobotRegistration, HandleNextRobotRequest, HandlePositionSwapped,
         HandleCapabilitiesReconfigured, robotVars
<1>3. ASSUME LivesIn(m, known')
      PROVE  LiveIsUp'
  BY <1>2, <1>3, LivesTrans, LiveFrame
<1>4. LivesIn(m, m)
  BY LivesRefl
<1>5. io # <<>> => Head(io) \in Handler
  BY DEF ControllerInv, WorkTypes
<1>6. CASE HandleRobotRegistration
  <2>1. PICK r, p : r = Head(io).robot /\ p = Head(io).position
    OBVIOUS
  <2>2. r \in Robot /\ p \in Position
    BY <1>5, <1>6, <2>1, HandlerFields DEF HandleRobotRegistration, Take
  <2>3. \/ known' = m
        \/ up[r] /\ known' = [m EXCEPT ![p] = Remote(r, place[r], profile[r])]
    BY <1>1, <1>6, <2>1 DEF HandleRobotRegistration
  <2>4. CASE up[r] /\ known' = [m EXCEPT ![p] = Remote(r, place[r], profile[r])]
    <3>1. /\ known'[p] = Remote(r, place[r], profile[r])
          /\ \A o \in Position \ {p} : known'[o] = m[o]
      BY <1>2, <2>2, <2>4 DEF Remotes
    <3>2. known'[p].robot = r
      BY <3>1 DEF Remote
    <3>3. ASSUME NEW o \in Position, o # p, known'[o] # None, known'[o].link = "live"
          PROVE  up'[known'[o].robot]
      <4>1. m[o] # None /\ m[o].link = "live" /\ known'[o].robot = m[o].robot
        BY <3>1, <3>3
      <4>2. PICK q \in Position : /\ known[q] # None /\ known[q].link = "live"
                                  /\ known[q].robot = m[o].robot
        BY <1>2, <4>1, SMTT(60) DEF LivesIn
      <4> QED BY <1>2, <4>1, <4>2 DEF LiveIsUp, Alive
    <3> QED BY <1>2, <2>4, <3>2, <3>3 DEF LiveIsUp, Alive
  <2> QED BY <1>3, <1>4, <2>3, <2>4
<1>7. CASE HandleNextRobotRequest
  BY <1>1, <1>3, <1>4, <1>7 DEF HandleNextRobotRequest
<1>8. CASE HandlePositionSwapped
  <2>1. PICK k : k = Key(Head(io).old, Head(io).new)
    OBVIOUS
  <2>2. known' = m \/ (k \in Fresh /\ known' = Rekeyed(m, k))
    BY <1>1, <1>8, <2>1 DEF HandlePositionSwapped
  <2>3. k \in Fresh => k \in SwapKey
    BY SwapFacts DEF ControllerInv
  <2> QED BY <1>2, <1>3, <1>4, <2>2, <2>3, RekeyedLives
<1>9. CASE HandleCapabilitiesReconfigured
  <2>1. PICK p : p = Head(io).at
    OBVIOUS
  <2>2. p \in Position
    BY <1>5, <1>9, <2>1, HandlerFields DEF HandleCapabilitiesReconfigured, Take
  <2>3. known' = IF m[p] = None THEN m ELSE [m EXCEPT ![p] = Settled(@)]
    BY <1>1, <1>9, <2>1 DEF HandleCapabilitiesReconfigured
  <2> QED BY <1>2, <1>3, <1>4, <2>2, <2>3, SettledLives
<1> QED BY <1>6, <1>7, <1>8, <1>9, SMTT(60)

LEMMA RemotesLive ==
    ASSUME ControllerInv, LiveIsUp, RemoteStep
    PROVE  LiveIsUp'
<1>1. PICK p \in Position : PositionChanged(p) \/ CapabilitiesChanged(p) \/ RemoteStops(p)
  BY DEF RemoteStep
<1>2. known \in Remotes /\ UNCHANGED up
  BY <1>1 DEF PositionChanged, CapabilitiesChanged, RemoteStops, robotVars,
     ControllerInv, MapTypes
<1>3. CASE RemoteStops(p)
  BY <1>2, <1>3, StopLives, LiveFrame DEF RemoteStops
<1>4. ASSUME NEW v, Alive(p),
             \/ known' = [known EXCEPT ![p].cached = v]
             \/ known' = [known EXCEPT ![p].profile = v]
      PROVE  LivesIn(known, known')
  <2>1. known[p] \in RemoteType
    BY <1>2, <1>4, EntryFields DEF Alive
  <2>2. /\ known'[p].robot = known[p].robot
        /\ \A o \in Position \ {p} : known'[o] = known[o]
    BY <1>2, <1>4, <2>1 DEF Remotes, RemoteType
  <2> QED BY <1>4, <2>2 DEF LivesIn, Alive
<1>5. CASE PositionChanged(p) \/ CapabilitiesChanged(p)
  BY <1>2, <1>4, <1>5, LiveFrame DEF PositionChanged, CapabilitiesChanged
<1> QED BY <1>1, <1>3, <1>5

------------------------------------------------------------------------------
(* The bound of the moves.                                                  *)

LEMMA BoundFrame ==
    ASSUME ControllerInv, ControllerInv', MovesBounded, UNCHANGED <<moves, asked>>,
           NEW told \in Nat, IsFiniteSet(Going'),
           Cardinality(Going') <= Cardinality(Going) + told,
           Owed(calls') + 2 * Number(io', Requesting) + told
             <= Owed(calls) + 2 * Number(io, Requesting)
    PROVE  MovesBounded'
<1>1. /\ moves \in Nat /\ Cardinality(Going) \in Nat /\ Cardinality(Going') \in Nat
      /\ asked \in Nat /\ asked <= MaxRequests /\ IsFiniteSet(Going)
      /\ moves + Cardinality(Going) + Owed(calls) + 2 * Number(io, Requesting)
           <= 2 * asked
  BY FS_CardinalityType DEF MovesBounded, ControllerInv, LinkTypes
<1>2. /\ Owed(calls) \in {0, 1, 2} /\ Owed(calls') \in {0, 1, 2}
      /\ Number(io, Requesting) \in Nat /\ Number(io', Requesting) \in Nat
  BY OwedFacts, HeldIs, HeldNext
<1>3. moves' + Cardinality(Going') + Owed(calls') + 2 * Number(io', Requesting)
        <= 2 * asked'
  BY <1>1, <1>2
<1> QED BY <1>1, <1>3 DEF MovesBounded

LEMMA SameGoing ==
    ASSUME MovesBounded, UNCHANGED target
    PROVE  /\ Going' = Going /\ IsFiniteSet(Going') /\ Cardinality(Going) \in Nat
           /\ Cardinality(Going') <= Cardinality(Going) + 0
<1>1. Going' = Going
  BY DEF Going
<1>2. IsFiniteSet(Going) /\ Cardinality(Going) \in Nat
  BY FS_CardinalityType DEF MovesBounded
<1> QED BY <1>1, <1>2

(* A robot that is told to switch is one more, at most, that is to go.      *)
LEMMA OneMoreGoing ==
    ASSUME RobotTypes, MovesBounded, NEW r, NEW p, SwitchPosition(r, p)
    PROVE  IsFiniteSet(Going') /\ Cardinality(Going') <= Cardinality(Going) + 1
<1>1. IsFiniteSet(Going) /\ Cardinality(Going) \in Nat
  BY FS_CardinalityType DEF MovesBounded
<1>2. Going' \subseteq Going \cup {r}
  <2>1. target' = target \/ target' = [target EXCEPT ![r] = p]
    BY DEF SwitchPosition
  <2>2. \A s \in Robot : s # r => target'[s] = target[s]
    BY <2>1 DEF RobotTypes
  <2> QED BY <2>2 DEF Going
<1>3. /\ IsFiniteSet(Going \cup {r})
      /\ Cardinality(Going \cup {r}) \in Nat
      /\ Cardinality(Going \cup {r}) <= Cardinality(Going) + 1
  <2>1. CASE r \in Going
    <3>1. Going \cup {r} = Going
      BY <2>1
    <3>2. IsFiniteSet(Going \cup {r}) /\ Cardinality(Going \cup {r}) = Cardinality(Going)
      BY <1>1, <3>1
    <3> QED BY <1>1, <3>2
  <2>2. CASE r \notin Going
    <3>1. Cardinality(Going \cup {r}) = Cardinality(Going) + 1
      BY <1>1, <2>2, FS_AddElement
    <3>2. IsFiniteSet(Going \cup {r})
      BY <1>1, FS_AddElement
    <3> QED BY <1>1, <3>1, <3>2
  <2> QED BY <2>1, <2>2
<1>4. IsFiniteSet(Going') /\ Cardinality(Going') <= Cardinality(Going \cup {r})
  BY <1>2, <1>3, FS_Subset
<1>5. Cardinality(Going') \in Nat
  BY <1>4, FS_CardinalityType
<1> QED BY <1>1, <1>3, <1>4, <1>5

------------------------------------------------------------------------------
(* The worker.                                                              *)

(* No answer to a call gets lost here.                                      *)
LEMMA NoAnswerFault == ~ Fault("answer") /\ ~ Fault("link")
  BY SystemAssumption DEF Fault

LEMMA KitchenIsAgent == "kitchen" \in Agent
  BY SystemAssumption

(* The kitchen's requests after the worker's step: one less, if it answers. *)
Answered == IF AnswersKitchen THEN 1 ELSE 0

LEMMA KeptBound ==
    ASSUME SystemInv, ControllerInv', NEW told \in Nat, Kept(told),
           UNCHANGED <<moves, asked>>, IsFiniteSet(Going'),
           Cardinality(Going') <= Cardinality(Going) + told,
           ~ AnswersKitchen, LiveIsUp'
    PROVE  SystemInv' /\ Held' = Held - Answered
<1>1. MovesBounded'
  BY BoundFrame DEF SystemInv, Kept
<1>2. Held' = Held /\ Held \in Nat
  BY HeldIs DEF SystemInv, Kept
<1> QED BY <1>1, <1>2 DEF SystemInv, Kept, Answered

(* A call that moves nobody.                                                *)
LEMMA PlainCall ==
    ASSUME SystemInv, ControllerInv', UNCHANGED <<moves, asked, io, receivers, up, target>>,
           calls # <<>>, calls' = Tail(calls), Head(calls).op # "answer",
           LivesIn(known, known')
    PROVE  SystemInv' /\ Held' = Held - Answered
<1>1. ~ AnswersKitchen
  BY DEF AnswersKitchen, Calling
<1>2. LiveIsUp'
  BY LiveFrame DEF SystemInv
<1>3. Answering' /\ SwitchIsFirst' /\ Kept(Owed(calls)) /\ Owed(calls) \in {0, 1, 2}
  BY CallMade, OwedFacts DEF SystemInv
<1>4. Kept(0)
  BY <1>3, OwedFacts, HeldIs, HeldNext DEF Kept, SystemInv
<1> QED BY <1>1, <1>2, <1>4, SameGoing, KeptBound DEF SystemInv

LEMMA WorkerCalls ==
    ASSUME SystemInv, ControllerInv', UNCHANGED moves,
           \/ Resolve \/ Commit \/ SwitchSkipped \/ SwitchFirst \/ SwitchFirstFails
           \/ SwitchSecond \/ SwitchSecondFails \/ ReconfigureSkipped
           \/ ReconfigureCall
    PROVE  SystemInv' /\ Held' = Held - Answered
<1>1. CASE Resolve
  <2>1. /\ UNCHANGED <<asked, io, receivers, up, target>> /\ calls # <<>>
        /\ calls' = Tail(calls) /\ Head(calls).op # "answer"
    BY <1>1 DEF Resolve, Calling, goalVars, boundVars
  <2> QED BY <1>1, <2>1, CallsLeaveLives, PlainCall DEF SystemInv
<1>2. CASE Commit
  <2>1. /\ UNCHANGED <<asked, io, receivers, up, target>> /\ calls # <<>>
        /\ calls' = Tail(calls) /\ Head(calls).op # "answer"
    BY <1>2 DEF Commit, Calling, goalVars, boundVars
  <2> QED BY <1>2, <2>1, CallsLeaveLives, PlainCall DEF SystemInv
<1>3. CASE SwitchSkipped
  <2>1. /\ UNCHANGED <<asked, io, receivers, up, target>> /\ calls # <<>>
        /\ calls' = Tail(calls) /\ Head(calls).op # "answer"
    BY <1>3 DEF SwitchSkipped, Calling, robotVars, goalVars, boundVars
  <2> QED BY <1>3, <2>1, CallsLeaveLives, PlainCall DEF SystemInv
<1>4. CASE ReconfigureSkipped
  <2>1. /\ UNCHANGED <<asked, io, receivers, up, target>> /\ calls # <<>>
        /\ calls' = Tail(calls) /\ Head(calls).op # "answer"
    BY <1>4 DEF ReconfigureSkipped, Calling, robotVars, goalVars, boundVars
  <2> QED BY <1>4, <2>1, CallsLeaveLives, PlainCall DEF SystemInv
<1>5. CASE ReconfigureCall
  <2>1. /\ UNCHANGED <<asked, io, receivers, up, target>> /\ calls # <<>>
        /\ calls' = Tail(calls) /\ Head(calls).op # "answer"
    BY <1>5 DEF ReconfigureCall, ReconfigureTo, Calling
  <2> QED BY <1>5, <2>1, CallsLeaveLives, PlainCall DEF SystemInv
<1>6. CASE SwitchSecondFails
  <2>1. /\ UNCHANGED <<asked, io, receivers, up, target>> /\ calls # <<>>
        /\ calls' = Tail(calls) /\ Head(calls).op # "answer"
    BY <1>6, NoAnswerFault DEF SwitchSecondFails, Calling, goalVars
  <2> QED BY <1>6, <2>1, CallsLeaveLives, PlainCall DEF SystemInv
<1>7. CASE SwitchFirstFails
  BY <1>7, NoAnswerFault DEF SwitchFirstFails
<1>8. CASE SwitchFirst
  <2>1. PICK from, to, r :
           from = Head(calls).from /\ to = Head(calls).to /\ r = known[from].robot
    OBVIOUS
  <2>2. /\ UNCHANGED <<asked, io, receivers, up>> /\ calls # <<>>
        /\ Calling("switch") /\ Head(calls).op # "answer" /\ ~ AnswersKitchen
        /\ SwitchPosition(r, to)
        /\ calls' = IF WillSwitch(r, to)
                    THEN <<[op |-> "switch_second", from |-> from, to |-> to]>>
                           \o Tail(calls)
                    ELSE Tail(calls)
    BY <1>8, <2>1 DEF SwitchFirst, Calling, boundVars, AnswersKitchen
  <2>3. LivesIn(known, known')
    BY <1>8, CallsLeaveLives DEF SystemInv
  <2>4. CASE WillSwitch(r, to)
    <3>1. Kept(1)
      BY <2>2, <2>4, SecondFollows DEF SystemInv
    <3>2. IsFiniteSet(Going') /\ Cardinality(Going') <= Cardinality(Going) + 1
      BY <2>2, OneMoreGoing DEF SystemInv, ControllerInv
    <3> QED BY <2>2, <2>3, <3>1, <3>2, LiveFrame, KeptBound DEF SystemInv
  <2>5. CASE ~ WillSwitch(r, to)
    <3>1. UNCHANGED target /\ calls' = Tail(calls)
      BY <2>2, <2>5 DEF SwitchPosition
    <3> QED BY <2>2, <2>3, <3>1, PlainCall
  <2> QED BY <2>4, <2>5
<1>9. CASE SwitchSecond
  <2>1. PICK from, to, r :
           from = Head(calls).from /\ to = Head(calls).to /\ r = known[to].robot
    OBVIOUS
  <2>2. /\ UNCHANGED <<asked, io, receivers, up>> /\ calls # <<>>
        /\ Head(calls).op = "switch_second" /\ ~ AnswersKitchen
        /\ UNCHANGED target \/ SwitchPosition(r, from)
        /\ calls' = Tail(calls)
    BY <1>9, <2>1 DEF SwitchSecond, Calling, goalVars, boundVars, AnswersKitchen
  <2>3. LivesIn(known, known')
    BY <1>9, CallsLeaveLives DEF SystemInv
  <2>4. CASE UNCHANGED target
    BY <2>2, <2>3, <2>4, PlainCall
  <2>5. CASE SwitchPosition(r, from)
    <3>1. Owed(calls) = 1
      BY <2>2 DEF Owed
    <3>2. Kept(1)
      BY <2>2, <3>1, CallMade DEF SystemInv
    <3>3. IsFiniteSet(Going') /\ Cardinality(Going') <= Cardinality(Going) + 1
      BY <2>5, OneMoreGoing DEF SystemInv, ControllerInv
    <3> QED BY <2>2, <2>3, <3>2, <3>3, LiveFrame, KeptBound DEF SystemInv
  <2> QED BY <2>2, <2>4, <2>5
<1> QED BY <1>1, <1>2, <1>3, <1>4, <1>5, <1>6, <1>7, <1>8, <1>9

(* A completed swap calls for commits.                                      *)
LEMMA CommitsOnly ==
    ASSUME NEW m, NEW k
    PROVE  \A i \in DOMAIN CommitBoth(m, k) : CommitBoth(m, k)[i].op = "commit"
<1> DEFINE At(p) == IF m[p] = None THEN <<>> ELSE <<CommitOf(m[p])>>
           u == At(k[1])
           v == At(k[2])
           a == CommitOf(m[k[1]])
           b == CommitOf(m[k[2]])
           S == {a, b}
<1>1. u \in Seq(S) /\ v \in Seq(S) /\ CommitBoth(m, k) = u \o v
  <2>1. u = <<>> \/ u = <<a>>
    OBVIOUS
  <2>2. v = <<>> \/ v = <<b>>
    OBVIOUS
  <2>3. CommitBoth(m, k) = u \o v
    BY DEF CommitBoth
  <2> HIDE DEF u, v, a, b
  <2>4. a \in S /\ b \in S
    OBVIOUS
  <2> HIDE DEF S
  <2>5. <<>> \in Seq(S) /\ <<a>> \in Seq(S) /\ <<b>> \in Seq(S)
    BY <2>4
  <2>6. u \in Seq(S) /\ v \in Seq(S)
    BY <2>1, <2>2, <2>5
  <2> QED BY <2>3, <2>6
<1>2. \A c \in S : c.op = "commit"
  BY DEF CommitOf
<1> HIDE DEF u, v, S
<1>3. \A i \in DOMAIN (u \o v) : (u \o v)[i] \in S
  <2>1. u \o v \in Seq(S)
    BY <1>1
  <2> QED BY <2>1
<1> QED BY <1>1, <1>2, <1>3

LEMMA WorkerHandlers ==
    ASSUME SystemInv, ControllerInv', UNCHANGED moves,
           \/ HandleRobotRegistration \/ HandleNextRobotRequest
           \/ HandlePositionSwapped \/ HandleCapabilitiesReconfigured
    PROVE  SystemInv' /\ Held' = Held - Answered
<1>1. LiveIsUp'
  BY HandlersLive DEF SystemInv
<1>2. UNCHANGED <<asked, target>> /\ ~ AnswersKitchen
  BY DEF HandleRobotRegistration, HandleNextRobotRequest, HandlePositionSwapped,
     HandleCapabilitiesReconfigured, robotVars, goalVars, boundVars, Take,
     AnswersKitchen, Calling
<1>3. ASSUME Kept(0) PROVE SystemInv' /\ Held' = Held - Answered
  BY <1>1, <1>2, <1>3, SameGoing, KeptBound DEF SystemInv
<1>4. CASE HandleRobotRegistration
  <2>1. calls = <<>> /\ (calls' = calls \/ \E p : calls' = <<[op |-> "resolve", at |-> p]>>)
    BY <1>4 DEF HandleRobotRegistration, Take
  <2>2. \A i \in DOMAIN calls' : calls'[i].op \in {"resolve", "commit"}
    BY <2>1
  <2>3. UNCHANGED receivers /\ Take("register")
    BY <1>4 DEF HandleRobotRegistration
  <2> QED BY <1>3, <2>2, <2>3, HandlerTaken DEF SystemInv
<1>5. CASE HandleNextRobotRequest
  BY <1>3, <1>5, RequestTaken DEF SystemInv
<1>6. CASE HandlePositionSwapped
  <2>1. UNCHANGED receivers /\ Take("swapped") /\ calls = <<>>
    BY <1>6 DEF HandlePositionSwapped, Take
  <2>2. calls' = calls \/ \E k \in Fresh : calls' = CommitBoth(remove_stopped_robots, k)
    BY <1>6 DEF HandlePositionSwapped
  <2>3. \A k : \A i \in DOMAIN CommitBoth(remove_stopped_robots, k) :
           CommitBoth(remove_stopped_robots, k)[i].op = "commit"
    BY CommitsOnly
  <2>4. \A i \in DOMAIN calls' : calls'[i].op \in {"resolve", "commit"}
    BY <2>1, <2>2, <2>3
  <2> QED BY <1>3, <2>1, <2>4, HandlerTaken DEF SystemInv
<1>7. CASE HandleCapabilitiesReconfigured
  <2>1. /\ UNCHANGED receivers /\ Take("reconfigured") /\ calls' = <<>>
    BY <1>7 DEF HandleCapabilitiesReconfigured, Take
  <2>2. \A i \in DOMAIN calls' : calls'[i].op \in {"resolve", "commit"}
    BY <2>1
  <2> QED BY <1>3, <2>1, <2>2, HandlerTaken DEF SystemInv
<1> QED BY <1>4, <1>5, <1>6, <1>7

LEMMA WorkerAnswers ==
    ASSUME SystemInv, ControllerInv', UNCHANGED moves, Answer \/ AnswerFails
    PROVE  SystemInv' /\ Held' = Held - Answered
<1>1. /\ UNCHANGED <<asked, io, receivers, up, target>> /\ calls # <<>>
      /\ calls' = Tail(calls) /\ Head(calls).op = "answer" /\ Calling("answer")
  BY DEF Answer, AnswerFails, robotVars, goalVars, boundVars, Calling
<1>2. LiveIsUp'
  BY <1>1, CallsLeaveLives, LiveFrame DEF SystemInv
<1>3. /\ Answering' /\ SwitchIsFirst' /\ Owed(calls') = 0 /\ Owed(calls) \in {0, 1, 2}
      /\ Held' = Held - (IF Head(calls).agent = "kitchen" THEN 1 ELSE 0)
  BY <1>1, CallMade, OwedFacts DEF SystemInv
<1>4. Held' = Held - Answered
  BY <1>1, <1>3 DEF Answered, AnswersKitchen
<1>5. Owed(calls') + 2 * Number(io', Requesting) + 0
        <= Owed(calls) + 2 * Number(io, Requesting)
  <2>1. io' = io /\ Number(io, Requesting) \in Nat
    BY <1>1, HeldIs DEF SystemInv
  <2> QED BY <1>3, <2>1
<1>6. MovesBounded'
  BY <1>1, <1>5, SameGoing, BoundFrame DEF SystemInv
<1> QED BY <1>2, <1>3, <1>4, <1>6 DEF SystemInv

LEMMA WorkerKeeps ==
    ASSUME SystemInv, ControllerInv', WorkerStep, UNCHANGED moves
    PROVE  SystemInv' /\ Held' = Held - Answered
  BY WorkerCalls, WorkerHandlers, WorkerAnswers DEF WorkerStep

------------------------------------------------------------------------------
(* The other steps of the controller and of the robots.                     *)

LEMMA RemotesKeep ==
    ASSUME SystemInv, ControllerInv', RemoteStep, UNCHANGED moves
    PROVE  SystemInv' /\ Held' = Held
<1>1. PICK p \in Position : PositionChanged(p) \/ CapabilitiesChanged(p) \/ RemoteStops(p)
  BY DEF RemoteStep
<1>2. UNCHANGED <<calls, receivers, target, asked>>
  BY <1>1 DEF PositionChanged, CapabilitiesChanged, RemoteStops, robotVars, goalVars,
     boundVars, workVars
<1>3. io' = io \/ \E h \in Handler : h.op # "next_robot" /\ io' = Append(io, h)
  <2>1. ASSUME Alive(p)
        PROVE  known[p].robot \in Robot /\ known[p].cached \in Position
    BY <2>1, EntryFields DEF Alive, SystemInv, ControllerInv, MapTypes
  <2>2. CASE PositionChanged(p)
    <3>1. PICK h : h = [op |-> "swapped", old |-> known[p].cached,
                        new |-> place[known[p].robot]]
      OBVIOUS
    <3>2. known[p].robot \in Robot /\ known[p].cached \in Position
      BY <2>1, <2>2 DEF PositionChanged
    <3>3. h \in Handler /\ h.op # "next_robot"
      BY <3>1, <3>2 DEF Handler, SystemInv, ControllerInv, RobotTypes
    <3>4. io' = Append(io, h)
      BY <2>2, <3>1 DEF PositionChanged
    <3> QED BY <3>3, <3>4
  <2>3. CASE CapabilitiesChanged(p)
    <3>1. PICK h : h = [op |-> "reconfigured", at |-> known[p].cached]
      OBVIOUS
    <3>2. known[p].cached \in Position
      BY <2>1, <2>3 DEF CapabilitiesChanged
    <3>3. h \in Handler /\ h.op # "next_robot"
      BY <3>1, <3>2 DEF Handler
    <3>4. io' = Append(io, h)
      BY <2>3, <3>1 DEF CapabilitiesChanged
    <3> QED BY <3>3, <3>4
  <2>4. CASE RemoteStops(p)
    BY <2>4 DEF RemoteStops, workVars
  <2> QED BY <1>1, <2>2, <2>3, <2>4
<1>4. Kept(0)
  BY <1>2, <1>3, QueuesSame, HandlerPosted DEF SystemInv
<1>5. LiveIsUp'
  BY RemotesLive DEF SystemInv
<1>6. MovesBounded'
  BY <1>2, <1>4, SameGoing, BoundFrame DEF SystemInv, Kept
<1> QED BY <1>4, <1>5, <1>6 DEF SystemInv, Kept

LEMMA MoveKeeps ==
    ASSUME SystemInv, ControllerInv', NEW r \in Robot, Move(r),
           moves' = IF place' = place THEN moves ELSE moves + 1
    PROVE  /\ SystemInv' /\ Held' = Held
           /\ moves < 2 * MaxRequests
<1>1. /\ UNCHANGED <<io, calls, receivers, asked, known, up>> /\ target[r] # None
      /\ target' = [target EXCEPT ![r] = None]
  BY DEF Move, workVars, boundVars, mapVars
<1>2. Kept(0)
  BY <1>1, QueuesSame DEF SystemInv
<1>3. LiveIsUp'
  BY <1>1, LivesRefl, LiveFrame DEF SystemInv
<1>4. /\ IsFiniteSet(Going) /\ Cardinality(Going) \in Nat /\ r \in Going
      /\ moves \in Nat /\ asked <= MaxRequests /\ asked \in Nat
      /\ moves + Cardinality(Going) + Owed(calls) + 2 * Number(io, Requesting)
           <= 2 * asked
  BY <1>1, FS_CardinalityType DEF SystemInv, MovesBounded, Going, ControllerInv, LinkTypes
<1>5. Going' = Going \ {r}
  BY <1>1 DEF Going, SystemInv, ControllerInv, RobotTypes
<1>6. IsFiniteSet(Going') /\ Cardinality(Going') = Cardinality(Going) - 1
  BY <1>4, <1>5, FS_RemoveElement
<1>7. /\ Owed(calls) \in {0, 1, 2} /\ Number(io, Requesting) \in Nat
      /\ Owed(calls') = Owed(calls) /\ Number(io', Requesting) = Number(io, Requesting)
  BY <1>1, OwedFacts, HeldIs DEF SystemInv
<1>8. moves' \in Nat /\ moves' <= moves + 1
  BY <1>4
<1>9. Cardinality(Going') \in Nat
  BY <1>6, FS_CardinalityType
<1>10. moves' + Cardinality(Going') + Owed(calls') + 2 * Number(io', Requesting)
         <= 2 * asked'
  BY <1>1, <1>4, <1>6, <1>7, <1>8, <1>9
<1>11. MovesBounded'
  BY <1>1, <1>4, <1>6, <1>8, <1>10 DEF MovesBounded
<1>12. moves < 2 * MaxRequests
  <2>1. Cardinality(Going) # 0
    BY <1>4, FS_EmptySet
  <2>2. MaxRequests \in Nat
    BY ControllerAssumption
  <2> QED BY <1>4, <1>7, <2>1, <2>2
<1> QED BY <1>2, <1>3, <1>11, <1>12 DEF SystemInv, Kept

LEMMA RobotsKeep ==
    ASSUME SystemInv, ControllerInv', NEW r \in Robot, RobotsStep(r)
    PROVE  SystemInv' /\ Held' = Held
<1>1. /\ Move(r) \/ CompleteReconfiguration(r) \/ HandleNewPositionCommit(r)
            \/ Register(r) \/ DropController(r)
      /\ moves' = IF place' = place THEN moves ELSE moves + 1
  BY DEF RobotsStep, RobotStep
<1>2. CASE Move(r)
  BY <1>1, <1>2, MoveKeeps
<1>3. ASSUME UNCHANGED <<calls, receivers, target, asked, known, up, place>>, Kept(0)
      PROVE  SystemInv' /\ Held' = Held
  <2>1. LiveIsUp' /\ UNCHANGED moves
    BY <1>1, <1>3, LivesRefl, LiveFrame DEF SystemInv
  <2>2. MovesBounded'
    BY <1>3, <2>1, SameGoing, BoundFrame DEF SystemInv, Kept
  <2> QED BY <1>3, <2>1, <2>2 DEF SystemInv, Kept
<1>4. CASE CompleteReconfiguration(r) \/ HandleNewPositionCommit(r) \/ DropController(r)
  <2>1. UNCHANGED <<io, calls, receivers, target, asked, known, up, place>>
    BY <1>4 DEF CompleteReconfiguration, HandleNewPositionCommit, DropController,
       robotVars, goalVars, boundVars, workVars, mapVars
  <2> QED BY <1>3, <2>1, QueuesSame DEF SystemInv
<1>5. CASE Register(r)
  <2>1. UNCHANGED <<calls, receivers, target, asked, known, up, place>>
    BY <1>5 DEF Register, robotVars, goalVars, boundVars, mapVars
  <2>2. PICK h : h = [op |-> "register", robot |-> r, position |-> place[r],
                      profile |-> profile[r]]
    OBVIOUS
  <2>3. h \in Handler /\ h.op # "next_robot"
    BY <2>2 DEF Handler, SystemInv, ControllerInv, RobotTypes
  <2>4. io' = Append(io, h)
    BY <1>5, <2>2 DEF Register
  <2> QED BY <1>3, <2>1, <2>3, <2>4, HandlerPosted DEF SystemInv
<1> QED BY <1>1, <1>2, <1>4, <1>5

LEMMA AskKeeps ==
    ASSUME SystemInv, ControllerInv', NEW a \in Agent, Ask(a), UNCHANGED moves
    PROVE  SystemInv' /\ Held' = Held + (IF a = "kitchen" THEN 1 ELSE 0)
<1>1. /\ UNCHANGED <<target, known, up>> /\ asked < MaxRequests /\ asked' = asked + 1
  BY DEF Ask, robotVars, goalVars, mapVars
<1>2. LiveIsUp'
  BY <1>1, LivesRefl, LiveFrame DEF SystemInv
<1>3. /\ Answering' /\ SwitchIsFirst'
      /\ Held' = Held + (IF a = "kitchen" THEN 1 ELSE 0)
      /\ Owed(calls') + 2 * Number(io', Requesting)
           = Owed(calls) + 2 * Number(io, Requesting) + 2
  BY RequestPosted DEF SystemInv
<1>4. /\ Owed(calls) \in {0, 1, 2} /\ Owed(calls') \in {0, 1, 2}
      /\ Number(io, Requesting) \in Nat /\ Number(io', Requesting) \in Nat
      /\ moves \in Nat /\ asked \in Nat /\ MaxRequests \in Nat
      /\ moves + Cardinality(Going) + Owed(calls) + 2 * Number(io, Requesting)
           <= 2 * asked
  BY OwedFacts, HeldIs, HeldNext, ControllerAssumption
     DEF SystemInv, MovesBounded, ControllerInv, LinkTypes
<1>5. Going' = Going /\ IsFiniteSet(Going') /\ Cardinality(Going) \in Nat
  BY <1>1, SameGoing DEF SystemInv
<1>6. MovesBounded'
  <2>1. moves' + Cardinality(Going') + Owed(calls') + 2 * Number(io', Requesting)
          <= 2 * asked'
    BY <1>1, <1>3, <1>4, <1>5
  <2>2. asked' <= MaxRequests /\ moves' \in Nat
    BY <1>1, <1>4
  <2> QED BY <1>5, <2>1, <2>2 DEF MovesBounded
<1> QED BY <1>2, <1>3, <1>6 DEF SystemInv

(* What fails takes nothing that was owed, or everything.                   *)
LEMMA FailureKeeps ==
    ASSUME SystemInv, ControllerInv', Failure
    PROVE  SystemInv'
<1>1. UNCHANGED <<moves, target, asked>>
  BY DEF Failure, RobotCrashes, ReceiverBreaks, ControllerCrashes, robotVars, goalVars,
     boundVars
<1>2. CASE \E r \in Robot : RobotCrashes(r)
  <2>1. PICK r \in Robot : RobotCrashes(r)
    BY <1>2
  <2>2. /\ UNCHANGED <<io, calls, receivers>> /\ up' = [up EXCEPT ![r] = FALSE]
        /\ known' = Cut(known, r)
    BY <2>1 DEF RobotCrashes, workVars
  <2>3. Kept(0)
    BY <2>2, QueuesSame DEF SystemInv
  <2>4. ASSUME NEW p \in Position, known'[p] # None, known'[p].link = "live"
        PROVE  up'[known'[p].robot]
    <3>1. known[p] # None /\ known[p].link = "live" /\ known'[p].robot = known[p].robot
      BY <2>2, <2>4, CutEntries DEF SameEntries, SystemInv
    <3>2. known[p].robot # r
      <4>1. CASE known[p].robot = r
        <5>1. Alive(p)
          BY <3>1 DEF Alive
        <5>2. known[p] \in RemoteType
          BY <3>1, EntryFields DEF SystemInv, ControllerInv, MapTypes
        <5>3. known'[p] = [known[p] EXCEPT !.link = "broken"]
          BY <2>2, <4>1, <5>1 DEF Cut
        <5>4. known'[p].link = "broken"
          BY <5>2, <5>3 DEF RemoteType
        <5> QED BY <2>4, <5>4
      <4> QED BY <4>1
    <3>3. up[known[p].robot]
      BY <3>1 DEF SystemInv, LiveIsUp, Alive
    <3>4. known[p].robot \in Robot
      BY <3>1, EntryFields DEF SystemInv, ControllerInv, MapTypes
    <3> QED BY <2>2, <3>1, <3>2, <3>3, <3>4 DEF SystemInv, ControllerInv, RobotTypes
  <2>5. LiveIsUp'
    BY <2>4 DEF LiveIsUp, Alive
  <2>6. MovesBounded'
    BY <1>1, <2>3, SameGoing, BoundFrame DEF SystemInv, Kept
  <2> QED BY <2>3, <2>5, <2>6 DEF SystemInv, Kept
<1>3. CASE ReceiverBreaks("kitchen")
  <2>1. /\ UNCHANGED <<io, calls, known, up>>
        /\ receivers' = [receivers EXCEPT !["kitchen"] = "stopped"]
    BY <1>3 DEF ReceiverBreaks, mapVars, workVars, robotVars
  <2>2. \A a \in Agent : receivers[a] # "none" => receivers'[a] # "none"
    BY <2>1 DEF SystemInv, ControllerInv, LinkTypes
  <2>3. Kept(0)
    BY <2>1, <2>2, QueuesSame DEF SystemInv
  <2>4. LiveIsUp'
    BY <2>1, LivesRefl, LiveFrame DEF SystemInv
  <2>5. MovesBounded'
    BY <1>1, <2>3, SameGoing, BoundFrame DEF SystemInv, Kept
  <2> QED BY <2>3, <2>4, <2>5 DEF SystemInv, Kept
<1>4. CASE ControllerCrashes
  <2>1. io' = <<>> /\ calls' = <<>> /\ known' = NoRobots
    BY <1>4 DEF ControllerCrashes
  <2>2. Answering' /\ SwitchIsFirst'
    BY <2>1 DEF Answering, SwitchIsFirst
  <2>3. LiveIsUp'
    BY <2>1 DEF LiveIsUp, Alive, NoRobots
  <2>4. Owed(calls') = 0 /\ Number(io', Requesting) = 0
    BY <2>1, NumberNone DEF Owed
  <2>5. Owed(calls) \in {0, 1, 2} /\ Number(io, Requesting) \in Nat
    BY OwedFacts, HeldIs DEF SystemInv
  <2>6. MovesBounded'
    BY <1>1, <2>4, <2>5, SameGoing, BoundFrame DEF SystemInv
  <2> QED BY <2>2, <2>3, <2>6 DEF SystemInv
<1> QED BY <1>2, <1>3, <1>4 DEF Failure

------------------------------------------------------------------------------
(* The invariant.                                                           *)

LEMMA StepOfController == [SystemNext]_systemVars => [Next]_vars
<1> SUFFICES ASSUME [SystemNext]_systemVars PROVE [Next]_vars
  OBVIOUS
<1>1. CASE UNCHANGED systemVars
  BY <1>1 DEF systemVars
<1>2. CASE \/ KitchenStep \/ KitchenTimer \/ KitchenClient \/ KitchenRemotes
           \/ KitchenOrders
  BY <1>2 DEF KitchenStep, KitchenTimer, KitchenClient, KitchenRemotes, KitchenOrders
<1>3. CASE ChooseNextRobot \/ ConveyorAsks
  BY <1>3, KitchenIsAgent DEF ChooseNextRobot, ConveyorAsks, Next, Disturbance
<1>4. CASE ReceiveNextRobot \/ ControllerStep \/ ControllerRemotes
  BY <1>4 DEF ReceiveNextRobot, ControllerStep, ControllerRemotes, Next, WorkerStep
<1>5. CASE \E r \in Robot : RobotsStep(r)
  BY <1>5 DEF RobotsStep, Next
<1>6. CASE Failure
  BY <1>6, KitchenIsAgent DEF Failure, Next, Disturbance
<1> QED BY <1>1, <1>2, <1>3, <1>4, <1>5, <1>6 DEF SystemNext

LEMMA SystemUnchanged ==
    ASSUME SystemInv, UNCHANGED <<vars, moves>>
    PROVE  SystemInv' /\ Held' = Held
<1>1. UNCHANGED <<mapVars, workVars, robotVars, boundVars, receivers, client, moves>>
  BY DEF vars
<1>2. UNCHANGED <<known, pending_swaps, registered, io, calls, running, up, place,
                  profile, state, target, new_profile, pending, commits, asked,
                  answered, answer, faults, receivers, client, moves>>
  BY <1>1 DEF mapVars, workVars, robotVars, goalVars, boundVars
<1>3. ControllerInv'
  BY NextKeeps DEF SystemInv
<1>4. Answering' /\ SwitchIsFirst' /\ LiveIsUp' /\ MovesBounded'
  <2>1. Answering'
    BY <1>2 DEF SystemInv, Answering
  <2>2. SwitchIsFirst'
    BY <1>2 DEF SystemInv, SwitchIsFirst
  <2>3. LiveIsUp'
    BY <1>2 DEF SystemInv, LiveIsUp, Alive
  <2>4. MovesBounded'
    BY <1>2 DEF SystemInv, MovesBounded, Going, Owed, Number, IndicesOf
  <2> QED BY <2>1, <2>2, <2>3, <2>4
<1> QED BY <1>2, <1>3, <1>4 DEF SystemInv, Held

LEMMA SystemStep == SystemInv /\ [SystemNext]_systemVars => SystemInv'
<1> SUFFICES ASSUME SystemInv, [SystemNext]_systemVars PROVE SystemInv'
  OBVIOUS
<1>1. ControllerInv'
  BY StepOfController, NextKeeps DEF SystemInv
<1>2. CASE UNCHANGED systemVars
  BY <1>2, SystemUnchanged DEF systemVars
<1>3. CASE \/ KitchenStep \/ KitchenTimer \/ KitchenClient \/ KitchenRemotes
           \/ KitchenOrders
  BY <1>3, SystemUnchanged
     DEF KitchenStep, KitchenTimer, KitchenClient, KitchenRemotes, KitchenOrders
<1>4. CASE ChooseNextRobot \/ ConveyorAsks
  BY <1>1, <1>4, KitchenIsAgent, AskKeeps DEF ChooseNextRobot, ConveyorAsks
<1>5. CASE ReceiveNextRobot \/ ControllerStep
  BY <1>1, <1>5, WorkerKeeps DEF ReceiveNextRobot, ControllerStep, WorkerStep
<1>6. CASE ControllerRemotes
  BY <1>1, <1>6, RemotesKeep DEF ControllerRemotes
<1>7. CASE \E r \in Robot : RobotsStep(r)
  BY <1>1, <1>7, RobotsKeep
<1>8. CASE Failure
  BY <1>1, <1>8, FailureKeeps
<1> QED BY <1>2, <1>3, <1>4, <1>5, <1>6, <1>7, <1>8 DEF SystemNext

LEMMA SystemInitEstablishes == SystemInit => SystemInv
<1> SUFFICES ASSUME SystemInit PROVE SystemInv
  OBVIOUS
<1>1. Init /\ moves = 0
  BY DEF SystemInit, K!Init
<1>2. ControllerInv
  BY <1>1, InitEstablishes
<1>3. io = <<>> /\ calls = <<>> /\ known = NoRobots /\ asked = 0
      /\ target = [r \in Robot |-> None]
  BY <1>1 DEF Init
<1>4. Answering /\ SwitchIsFirst /\ LiveIsUp
  BY <1>3 DEF Answering, SwitchIsFirst, LiveIsUp, Alive, NoRobots
<1>5. Going = {}
  BY <1>3 DEF Going
<1>6. IsFiniteSet(Going) /\ Cardinality(Going) = 0
  BY <1>5, FS_EmptySet
<1>7. Owed(calls) = 0 /\ Number(io, Requesting) = 0
  BY <1>3, NumberNone DEF Owed
<1>8. MovesBounded
  <2>1. 0 <= MaxRequests
    BY ControllerAssumption
  <2> QED BY <1>1, <1>3, <1>6, <1>7, <2>1 DEF MovesBounded
<1> QED BY <1>2, <1>4, <1>8 DEF SystemInv

(* The robots move twice per request at most, and who is told to adapt is   *)
(* up: whatever fails, next to the types.                                   *)
THEOREM SystemInvariance == SystemSpec => []SystemInv
BY SystemInitEstablishes, SystemStep, PTL DEF SystemSpec

(* System adds to Controller and takes nothing from it: what is proved of   *)
(* Controller holds in it.                                                  *)
THEOREM ControllerInSystem == SystemSpec => Spec
<1>1. SystemInit => Init
  BY DEF SystemInit
<1> QED BY <1>1, StepOfController, PTL DEF SystemSpec, Spec

------------------------------------------------------------------------------
(* The steps of System as steps of Kitchen.                                 *)

LEMMA KitchenNextActions ==
    /\ K!WorkerStep => K!Next
    /\ K!ControllerAnswers => K!Next
    /\ \A r \in Robot : K!Adapt(r) \/ K!Adapted(r) \/ K!RobotCrashes(r) => K!Next
    /\ \A r \in Robot, p \in Position : K!Move(r, p) => K!Next
    /\ K!ReceiverBreaks \/ K!ControllerRestarts => K!Next
  BY DEF K!Next, K!RobotStep, K!Disturbance

(* What the kitchen does not see.                                           *)
LEMMA Unseen ==
    ASSUME Held' = Held, UNCHANGED <<kitchenVars, moves, up, place, state, faults>>,
           receivers'["kitchen"] = "stopped" <=> receivers["kitchen"] = "stopped"
    PROVE  UNCHANGED K!vars
<1>1. UNCHANGED <<kitchen_known, gate_open, placing_queue, timer, received, assigned,
                  dropped, completed, kitchen_io, phase, addressed, kitchen_client,
                  cooking, ordered, forgotten>>
  BY DEF kitchenVars
<1>2. (receivers'["kitchen"] # "stopped") = (receivers["kitchen"] # "stopped")
  OBVIOUS
<1>3. [s \in Robot |-> state'[s] = "AVAILABLE"] = [s \in Robot |-> state[s] = "AVAILABLE"]
  OBVIOUS
<1> QED BY <1>1, <1>2, <1>3
   DEF K!vars, K!orderVars, K!counterVars, K!workVars, K!worldVars, K!ghostVars,
       K!boundVars

(* A robot that is told to adapt.                                           *)
LEMMA SetsOut ==
    ASSUME NEW r \in Robot, RobotTypes, up[r], state[r] = "AVAILABLE",
           NEW v, v # "AVAILABLE", state' = [state EXCEPT ![r] = v],
           Held' = Held, UNCHANGED <<kitchenVars, moves, up, place, faults, receivers>>
    PROVE  K!Adapt(r)
<1>1. UNCHANGED <<kitchen_known, gate_open, placing_queue, timer, received, assigned,
                  dropped, completed, kitchen_io, phase, addressed, kitchen_client,
                  cooking, ordered, forgotten>>
  BY DEF kitchenVars
<1>2. \A s \in Robot : state'[s] = IF s = r THEN v ELSE state[s]
  BY DEF RobotTypes
<1>3. \A s \in Robot : (state'[s] = "AVAILABLE")
                         = (IF s = r THEN FALSE ELSE state[s] = "AVAILABLE")
  BY <1>2
<1>4. [s \in Robot |-> state'[s] = "AVAILABLE"]
        = [s \in Robot |-> IF s = r THEN FALSE ELSE state[s] = "AVAILABLE"]
  BY <1>3
<1>5. [[s \in Robot |-> state[s] = "AVAILABLE"] EXCEPT ![r] = FALSE]
        = [s \in Robot |-> IF s = r THEN FALSE ELSE state[s] = "AVAILABLE"]
  BY Zenon
<1>6. [s \in Robot |-> state'[s] = "AVAILABLE"]
        = [[s \in Robot |-> state[s] = "AVAILABLE"] EXCEPT ![r] = FALSE]
  BY <1>4, <1>5
<1>7. [s \in Robot |-> state[s] = "AVAILABLE"][r]
  OBVIOUS
<1> QED BY <1>1, <1>6, <1>7
   DEF K!Adapt, K!orderVars, K!counterVars, K!workVars, K!ghostVars, K!boundVars

(* A robot that is done.                                                    *)
LEMMA IsBack ==
    ASSUME NEW r \in Robot, RobotTypes, up[r], state[r] # "AVAILABLE",
           state' = [state EXCEPT ![r] = "AVAILABLE"],
           Held' = Held, UNCHANGED <<kitchenVars, moves, up, place, faults, receivers>>
    PROVE  K!Adapted(r)
<1>1. UNCHANGED <<kitchen_known, gate_open, placing_queue, timer, received, assigned,
                  dropped, completed, kitchen_io, phase, addressed, kitchen_client,
                  cooking, ordered, forgotten>>
  BY DEF kitchenVars
<1>2. \A s \in Robot : state'[s] = IF s = r THEN "AVAILABLE" ELSE state[s]
  BY DEF RobotTypes
<1>3. \A s \in Robot : (state'[s] = "AVAILABLE")
                         = (IF s = r THEN TRUE ELSE state[s] = "AVAILABLE")
  BY <1>2
<1>4. [s \in Robot |-> state'[s] = "AVAILABLE"]
        = [s \in Robot |-> IF s = r THEN TRUE ELSE state[s] = "AVAILABLE"]
  BY <1>3
<1>5. [[s \in Robot |-> state[s] = "AVAILABLE"] EXCEPT ![r] = TRUE]
        = [s \in Robot |-> IF s = r THEN TRUE ELSE state[s] = "AVAILABLE"]
  BY Zenon
<1>6. [s \in Robot |-> state'[s] = "AVAILABLE"]
        = [[s \in Robot |-> state[s] = "AVAILABLE"] EXCEPT ![r] = TRUE]
  BY <1>4, <1>5
<1>7. ~ [s \in Robot |-> state[s] = "AVAILABLE"][r]
  OBVIOUS
<1> QED BY <1>1, <1>6, <1>7
   DEF K!Adapted, K!orderVars, K!counterVars, K!workVars, K!ghostVars, K!boundVars

Simulated == K!Next \/ UNCHANGED K!vars

LEMMA StateIs ==
    ASSUME RobotTypes, NEW r \in Robot
    PROVE  [state EXCEPT ![r] = state[r]] = state
  BY DEF RobotTypes

LEMMA RobotsSimulate ==
    ASSUME SystemInv, ControllerInv', NEW r \in Robot, RobotsStep(r)
    PROVE  Simulated
<1>1. /\ Move(r) \/ CompleteReconfiguration(r) \/ HandleNewPositionCommit(r)
            \/ Register(r) \/ DropController(r)
      /\ moves' = IF place' = place THEN moves ELSE moves + 1
      /\ UNCHANGED kitchenVars
  BY DEF RobotsStep, RobotStep
<1>2. Held' = Held /\ RobotTypes
  BY RobotsKeep DEF SystemInv, ControllerInv
<1>3. CASE Move(r)
  <2>1. /\ up[r] /\ target[r] # None /\ place' = [place EXCEPT ![r] = target[r]]
        /\ UNCHANGED <<up, state, faults, receivers>>
    BY <1>3 DEF Move, boundVars
  <2>2. target[r] \in Position /\ moves < 2 * MaxRequests
    BY <1>1, <1>2, <1>3, <2>1, MoveKeeps DEF RobotTypes
  <2>3. CASE place' = place
    BY <1>1, <1>2, <2>1, <2>3, Unseen DEF Simulated
  <2>4. CASE place' # place
    <3>1. place[r] # target[r] /\ moves' = moves + 1
      BY <1>1, <1>2, <2>1, <2>4 DEF RobotTypes
    <3>2. UNCHANGED <<kitchen_known, gate_open, placing_queue, timer, received,
                      assigned, dropped, completed, kitchen_io, phase, addressed,
                      kitchen_client, cooking, ordered, forgotten>>
      BY <1>1 DEF kitchenVars
    <3>3. K!Move(r, target[r])
      BY <1>2, <2>1, <2>2, <3>1, <3>2
         DEF K!Move, K!orderVars, K!counterVars, K!workVars, K!ghostVars
    <3> QED BY <2>2, <3>3, KitchenNextActions DEF Simulated
  <2> QED BY <2>3, <2>4
<1>4. CASE CompleteReconfiguration(r) \/ HandleNewPositionCommit(r)
  <2>1. /\ up[r] /\ state' = [state EXCEPT ![r] = "AVAILABLE"]
        /\ UNCHANGED <<up, place, faults, receivers>>
    BY <1>4 DEF CompleteReconfiguration, HandleNewPositionCommit, boundVars
  <2>2. UNCHANGED moves
    BY <1>1, <2>1
  <2>3. CASE state[r] = "AVAILABLE"
    <3>1. state' = state
      BY <1>2, <2>1, <2>3, StateIs
    <3> QED BY <1>1, <1>2, <2>1, <2>2, <3>1, Unseen DEF Simulated
  <2>4. CASE state[r] # "AVAILABLE"
    <3>1. K!Adapted(r)
      BY <1>1, <1>2, <2>1, <2>2, <2>4, IsBack
    <3> QED BY <3>1, KitchenNextActions DEF Simulated
  <2> QED BY <2>3, <2>4
<1>5. CASE Register(r) \/ DropController(r)
  <2>1. UNCHANGED <<up, place, state, faults, receivers>>
    BY <1>5 DEF Register, DropController, robotVars, goalVars, boundVars
  <2> QED BY <1>1, <1>2, <2>1, Unseen DEF Simulated
<1> QED BY <1>1, <1>3, <1>4, <1>5

(* The calls that make a robot adapt, and those that do not.                *)
LEMMA AdaptingCalls ==
    ASSUME SystemInv, SwitchFirst \/ SwitchSecond \/ ReconfigureCall
    PROVE  /\ UNCHANGED <<up, place, faults, receivers>>
           /\ \/ UNCHANGED state
              \/ \E r \in Robot, v \in {"REARRANGING", "RECONFIGURING"} :
                    /\ up[r] /\ state[r] = "AVAILABLE"
                    /\ state' = [state EXCEPT ![r] = v]
<1>1. calls # <<>> => Head(calls) \in SwapCall
  BY DEF SystemInv, ControllerInv, WorkTypes
<1>2. ASSUME NEW p \in Position, Alive(p)
      PROVE  known[p].robot \in Robot /\ up[known[p].robot]
  <2>1. known[p].robot \in Robot
    BY <1>2, EntryFields DEF Alive, SystemInv, ControllerInv, MapTypes
  <2> QED BY <1>2, <2>1 DEF SystemInv, LiveIsUp
<1>3. CASE SwitchFirst
  <2>1. PICK from, to, r :
           from = Head(calls).from /\ to = Head(calls).to /\ r = known[from].robot
    OBVIOUS
  <2>2. from \in Position
    BY <1>1, <1>3, <2>1, CallFields DEF SwitchFirst, Calling
  <2>3. /\ UNCHANGED <<up, place, faults, receivers>> /\ SwitchPosition(r, to)
        /\ Alive(from)
    BY <1>3, <2>1 DEF SwitchFirst, Refused, Unavailable, Available, boundVars
  <2>4. r \in Robot /\ up[r]
    BY <1>2, <2>1, <2>2, <2>3
  <2> QED BY <2>3, <2>4 DEF SwitchPosition, WillSwitch
<1>4. CASE SwitchSecond
  <2>1. PICK from, to, r :
           from = Head(calls).from /\ to = Head(calls).to /\ r = known[to].robot
    OBVIOUS
  <2>2. to \in Position
    BY <1>1, <1>4, <2>1, CallFields DEF SwitchSecond, Calling
  <2>3. /\ UNCHANGED <<up, place, faults, receivers>>
        /\ UNCHANGED state \/ (SwitchPosition(r, from) /\ Alive(to))
    BY <1>4, <2>1 DEF SwitchSecond, boundVars, goalVars
  <2>4. Alive(to) => r \in Robot /\ up[r]
    BY <1>2, <2>1, <2>2
  <2> QED BY <2>3, <2>4 DEF SwitchPosition, WillSwitch
<1>5. CASE ReconfigureCall
  <2>1. PICK p, r, f :
           p = Head(calls).at /\ r = known[p].robot /\ f = Head(calls).profile
    OBVIOUS
  <2>2. p \in Position
    BY <1>1, <1>5, <2>1, CallFields DEF ReconfigureCall, Calling
  <2>3. /\ UNCHANGED <<up, place, faults, receivers>> /\ ReconfigureTo(r, f)
        /\ Alive(p)
    BY <1>5, <2>1, NoAnswerFault DEF ReconfigureCall, Available
  <2>4. r \in Robot /\ up[r]
    BY <1>2, <2>1, <2>2, <2>3, SMTT(60)
  <2> QED BY <2>3, <2>4 DEF ReconfigureTo, WillReconfigure
<1> QED BY <1>3, <1>4, <1>5

LEMMA QuietSteps ==
    ASSUME SystemInv,
           \/ Resolve \/ Commit \/ Answer \/ AnswerFails \/ SwitchSkipped
           \/ SwitchSecondFails \/ ReconfigureSkipped
           \/ HandleRobotRegistration \/ HandleNextRobotRequest
           \/ HandlePositionSwapped \/ HandleCapabilitiesReconfigured
           \/ RemoteStep
    PROVE  /\ UNCHANGED <<up, place, state, faults>>
           /\ receivers'["kitchen"] = "stopped" <=> receivers["kitchen"] = "stopped"
<1>1. UNCHANGED <<up, place, state, faults>>
  BY NoAnswerFault, ZenonT(60)
     DEF Resolve, Commit, Answer, AnswerFails, SwitchSkipped, SwitchSecondFails,
         ReconfigureSkipped, HandleRobotRegistration, HandleNextRobotRequest,
         HandlePositionSwapped, HandleCapabilitiesReconfigured, RemoteStep,
         PositionChanged, CapabilitiesChanged, RemoteStops, robotVars, goalVars,
         boundVars
<1>2. CASE HandleNextRobotRequest
  <2>1. PICK a : a = Head(io).agent
    BY SMTT(60)
  <2>2. \/ UNCHANGED receivers
        \/ /\ receivers[a] = "none"
           /\ \E l \in {"live", "none"} : receivers' = [receivers EXCEPT ![a] = l]
    BY <1>2, <2>1 DEF HandleNextRobotRequest, Connected
  <2>3. receivers \in [Agent -> {"none", "live", "stopped"}]
    BY DEF SystemInv, ControllerInv, LinkTypes
  <2>4. receivers'["kitchen"] = "stopped" <=> receivers["kitchen"] = "stopped"
    BY <2>2, <2>3, KitchenIsAgent, SMTT(60)
  <2> QED BY <1>1, <2>4, SMTT(60)
<1>3. CASE ~ HandleNextRobotRequest
  <2>1. UNCHANGED receivers
    BY <1>3 DEF Resolve, Commit, Answer, AnswerFails, SwitchSkipped, SwitchSecondFails,
         ReconfigureSkipped, HandleRobotRegistration, HandlePositionSwapped,
         HandleCapabilitiesReconfigured, RemoteStep, PositionChanged,
         CapabilitiesChanged, RemoteStops
  <2> QED BY <1>1, <2>1
<1> QED BY <1>2, <1>3, SMTT(60)

LEMMA ControllerSimulates ==
    ASSUME SystemInv, ControllerInv', ControllerStep \/ ControllerRemotes
    PROVE  Simulated
<1>1. UNCHANGED kitchenVars /\ UNCHANGED moves /\ RobotTypes
  BY DEF ControllerStep, ControllerRemotes, SystemInv, ControllerInv
<1>2. Held' = Held
  <2>1. CASE ControllerStep
    <3>1. Held' = Held - Answered /\ Answered = 0
      BY <1>1, <2>1, WorkerKeeps DEF ControllerStep, Answered
    <3> QED BY <3>1, HeldIs DEF SystemInv
  <2>2. CASE ControllerRemotes
    BY <1>1, <2>2, RemotesKeep DEF ControllerRemotes
  <2> QED BY <2>1, <2>2
<1>3. CASE SwitchFirst \/ SwitchSecond \/ ReconfigureCall
  <2>1. UNCHANGED <<up, place, faults, receivers>>
    BY <1>3, AdaptingCalls
  <2>2. CASE UNCHANGED state
    BY <1>1, <1>2, <2>1, <2>2, Unseen DEF Simulated
  <2>3. ASSUME NEW r \in Robot, NEW v \in {"REARRANGING", "RECONFIGURING"},
               up[r], state[r] = "AVAILABLE", state' = [state EXCEPT ![r] = v]
        PROVE  Simulated
    <3>1. K!Adapt(r)
      BY <1>1, <1>2, <2>1, <2>3, SetsOut
    <3> QED BY <3>1, KitchenNextActions DEF Simulated
  <2> QED BY <1>3, <2>2, <2>3, AdaptingCalls
<1>4. CASE ~ (SwitchFirst \/ SwitchSecond \/ ReconfigureCall)
  <2>1. ~ SwitchFirstFails
    BY NoAnswerFault DEF SwitchFirstFails
  <2>2. /\ UNCHANGED <<up, place, state, faults>>
        /\ receivers'["kitchen"] = "stopped" <=> receivers["kitchen"] = "stopped"
    BY <1>4, <2>1, QuietSteps DEF ControllerStep, ControllerRemotes, WorkerStep
  <2> QED BY <1>1, <1>2, <2>2, Unseen DEF Simulated
<1> QED BY <1>3, <1>4

(* A request is answered, or the answer does not arrive.                    *)
LEMMA AnswerGoes ==
    ASSUME SystemInv, ControllerInv', ReceiveNextRobot
    PROVE  /\ UNCHANGED <<up, place, state, faults, receivers, moves>> /\ AnswersKitchen
           /\ UNCHANGED <<kitchen_known, gate_open, placing_queue, timer, received,
                          assigned, dropped, completed, phase, addressed,
                          kitchen_client, cooking, ordered>>
           /\ calls # <<>> /\ Head(calls).op = "answer" /\ Head(calls).agent = "kitchen"
           /\ Held > 0 /\ Held' = Held - 1
<1>1. /\ UNCHANGED <<up, place, state, faults, receivers, moves>> /\ AnswersKitchen
      /\ UNCHANGED <<kitchen_known, gate_open, placing_queue, timer, received, assigned,
                     dropped, completed, phase, addressed, kitchen_client, cooking,
                     ordered>>
      /\ calls # <<>> /\ Head(calls).op = "answer" /\ Head(calls).agent = "kitchen"
  BY DEF ReceiveNextRobot, Answer, AnswerFails, robotVars, goalVars, boundVars,
     AnswersKitchen, Calling
<1>2. Held > 0 /\ Held' = Held - 1
  <2>1. Held' = Held - Answered /\ Answered = 1
    BY <1>1, WorkerAnswers DEF ReceiveNextRobot, Answered
  <2>2. Held \in Nat /\ Held' \in Nat
    BY HeldIs, HeldNext DEF SystemInv
  <2> QED BY <2>1, <2>2
<1> QED BY <1>1, <1>2

(* The robot an answer names is one of the map, at a position of the belt.  *)
LEMMA NamedIsKnown ==
    ASSUME SystemInv, Answer
    PROVE  \/ answer' = [position |-> 0, robot |-> None]
           \/ answer' \in [position : Position, robot : Robot]
<1>1. PICK p : p = Head(calls).at
  OBVIOUS
<1>2. answer' = IF Chosen(p)
                THEN [position |-> known[p].cached, robot |-> known[p].robot]
                ELSE NoRobot
  BY <1>1 DEF Answer
<1>3. ASSUME Chosen(p)
      PROVE  known[p].cached \in Position /\ known[p].robot \in Robot
  <2>1. calls # <<>> /\ Head(calls).op = "answer"
    BY DEF Answer, Calling
  <2>2. Head(calls) \in SwapCall
    BY <2>1 DEF SystemInv, ControllerInv, WorkTypes
  <2>3. Head(calls).at \in Position \cup {0}
    BY <2>1, <2>2, CallFields
  <2>4. p \in Position
    BY <1>1, <1>3, <2>3 DEF Chosen
  <2> QED BY <1>3, <2>4, EntryFields DEF Chosen, SystemInv, ControllerInv, MapTypes
<1> QED BY <1>2, <1>3 DEF NoRobot

(* The answer to the kitchen names nobody, or a robot where it stands.      *)
LEMMA AnswerSimulates ==
    ASSUME SystemInv, ControllerInv', ReceiveNextRobot,
           Answer /\ answer'.robot # None => place[answer'.robot] = answer'.position
    PROVE  Simulated
<1>1. /\ UNCHANGED <<up, place, state, faults, receivers, moves>> /\ AnswersKitchen
      /\ UNCHANGED <<kitchen_known, gate_open, placing_queue, timer, received, assigned,
                     dropped, completed, phase, addressed, kitchen_client, cooking,
                     ordered>>
      /\ calls # <<>> /\ Head(calls).op = "answer" /\ Head(calls).agent = "kitchen"
  BY AnswerGoes
<1>2. Held > 0 /\ Held' = Held - 1
  BY AnswerGoes
<1>3. K!ControllerAnswers
  <2>1. CASE ~ K!Killed /\ Answer /\ kitchen_io' = Response /\ UNCHANGED forgotten
    <3>1. receivers["kitchen"] = "live"
      BY <1>1, <2>1 DEF Answer
    <3>2. CASE answer' = [position |-> 0, robot |-> None]
      BY <1>1, <1>2, <2>1, <3>1, <3>2
         DEF Response, K!ControllerAnswers, K!orderVars, K!counterVars, K!workVars,
             K!worldVars, K!boundVars
    <3>3. CASE answer' \in [position : Position, robot : Robot]
      <4>1. PICK r \in Robot : r = answer'.robot
        BY <3>3
      <4>2. r # None
        BY ControllerAssumption
      <4>3. place[r] = answer'.position
        BY <2>1, <4>1, <4>2
      <4>4. kitchen_io' = Append(kitchen_io, [op |-> "next_robot",
                                              position |-> place[r], robot |-> r])
        BY <2>1, <4>1, <4>3 DEF Response
      <4> QED BY <1>1, <1>2, <3>1, <2>1, <4>4
         DEF K!ControllerAnswers, K!orderVars, K!counterVars, K!workVars, K!worldVars,
             K!boundVars
    <3> QED BY <2>1, <3>2, <3>3, NamedIsKnown
  <2>2. CASE /\ K!Killed \/ receivers["kitchen"] # "live"
             /\ AnswerFails /\ forgotten' = forgotten + 1 /\ UNCHANGED kitchen_io
    <3>1. K!AnswerMayFail
      <4>1. CASE K!Killed
        BY <4>1 DEF K!AnswerMayFail
      <4>2. CASE "receiver" \in FaultKinds
        BY <4>2 DEF K!AnswerMayFail
      <4>3. CASE receivers["kitchen"] # "live" /\ "receiver" \notin FaultKinds
        <5>1. 1 \in DOMAIN calls /\ Head(calls) = calls[1]
          BY <1>1 DEF SystemInv, ControllerInv, WorkTypes
        <5>2. receivers["kitchen"] # "none"
          BY <1>1, <4>3, <5>1 DEF SystemInv, Answering
        <5>3. receivers["kitchen"] = "stopped"
          BY <4>3, <5>2, KitchenIsAgent DEF SystemInv, ControllerInv, LinkTypes
        <5> QED BY <5>3 DEF K!AnswerMayFail
      <4> QED BY <2>2, <4>1, <4>2, <4>3
    <3> QED BY <1>1, <1>2, <2>2, <3>1
       DEF K!ControllerAnswers, K!orderVars, K!counterVars, K!workVars, K!worldVars,
           K!boundVars
  <2> QED BY <2>1, <2>2 DEF ReceiveNextRobot
<1> QED BY <1>3, KitchenNextActions DEF Simulated

LEMMA KitchenSimulates ==
    ASSUME \/ KitchenStep \/ KitchenTimer \/ KitchenClient \/ KitchenRemotes
           \/ KitchenOrders \/ ChooseNextRobot \/ Failure
    PROVE  Simulated
<1>1. CASE KitchenStep \/ ChooseNextRobot
  <2>1. K!WorkerStep
    BY <1>1 DEF KitchenStep, ChooseNextRobot, K!WorkerStep
  <2> QED BY <2>1, KitchenNextActions DEF Simulated
<1>2. CASE KitchenTimer \/ KitchenClient \/ KitchenRemotes \/ KitchenOrders
  BY <1>2 DEF KitchenTimer, KitchenClient, KitchenRemotes, KitchenOrders, K!Next,
     K!Disturbance, Simulated
<1>3. CASE Failure
  BY <1>3, KitchenNextActions DEF Failure, Simulated
<1> QED BY <1>1, <1>2, <1>3

LEMMA OthersSimulate ==
    ASSUME SystemInv, [SystemNext]_systemVars, ~ ReceiveNextRobot
    PROVE  [K!Next]_(K!vars)
<1>1. ControllerInv'
  BY StepOfController, NextKeeps DEF SystemInv
<1>2. CASE UNCHANGED systemVars
  <2>1. UNCHANGED <<vars, kitchenVars, moves>>
    BY <1>2 DEF systemVars
  <2>2. UNCHANGED <<up, place, state, faults, receivers>>
    BY <2>1 DEF vars, robotVars, goalVars, boundVars
  <2> QED BY <2>1, <2>2, SystemUnchanged, Unseen
<1>3. CASE ConveyorAsks
  <2>1. /\ "conveyor" \in Agent /\ Ask("conveyor") /\ "conveyor" # "kitchen"
        /\ UNCHANGED <<kitchenVars, moves>>
    BY <1>3 DEF ConveyorAsks
  <2>2. Held' = Held + 0
    BY <1>1, <2>1, AskKeeps
  <2>3. Held' = Held
    BY <2>2, HeldIs DEF SystemInv
  <2>4. UNCHANGED <<up, place, state, faults, receivers>>
    BY <2>1 DEF Ask, robotVars, goalVars
  <2> QED BY <2>1, <2>3, <2>4, Unseen
<1>4. CASE ControllerStep \/ ControllerRemotes \/ \E r \in Robot : RobotsStep(r)
  BY <1>1, <1>4, ControllerSimulates, RobotsSimulate DEF Simulated
<1>5. CASE \/ KitchenStep \/ KitchenTimer \/ KitchenClient \/ KitchenRemotes
           \/ KitchenOrders \/ ChooseNextRobot \/ Failure
  BY <1>5, KitchenSimulates DEF Simulated
<1> QED BY <1>2, <1>3, <1>4, <1>5 DEF SystemNext

LEMMA SystemSimulates ==
    ASSUME SystemInv, ~ Mistaken, [SystemNext]_systemVars,
           [answered' # answered /\ answer'.robot # None
              /\ "answer" \notin faults /\ ~ Mistaken
            => /\ place[answer'.robot] = answer'.position
               /\ target[answer'.robot] = None]_vars
    PROVE  [K!Next]_(K!vars)
<1>1. ControllerInv'
  BY StepOfController, NextKeeps DEF SystemInv
<1>2. CASE ReceiveNextRobot
  <2>1. ASSUME Answer, answer'.robot # None
        PROVE  place[answer'.robot] = answer'.position
    <3>1. answered' # answered
      BY <2>1 DEF Answer, SystemInv, ControllerInv, LinkTypes
    <3>2. "answer" \notin faults
      BY SystemAssumption DEF SystemInv, ControllerInv, LinkTypes
    <3>3. ~ UNCHANGED vars
      BY <3>1 DEF vars, boundVars
    <3> QED BY <2>1, <3>1, <3>2, <3>3
  <2> QED BY <1>1, <1>2, <2>1, AnswerSimulates DEF Simulated
<1> QED BY <1>2, OthersSimulate

(* The kitchen finds in the controller and its robots what module Kitchen   *)
(* takes for granted, whatever fails, as long as no answer to it was        *)
(* mistaken: whoever asks is answered once, also by a controller that has   *)
(* restarted, and what becomes of robots and controller is a step Kitchen   *)
(* allows.                                                                  *)
THEOREM KitchenFindsItsContext ==
    SystemSpec /\ AnswersHold /\ [](~ Mistaken) => KitchenInContext
<1>1. SystemInit => K!Init
  BY DEF SystemInit
<1>2. SystemInv /\ ~ Mistaken /\ [SystemNext]_systemVars
        /\ [answered' # answered /\ answer'.robot # None
              /\ "answer" \notin faults /\ ~ Mistaken
            => /\ place[answer'.robot] = answer'.position
               /\ target[answer'.robot] = None]_vars
        => [K!Next]_(K!vars)
  BY SystemSimulates
<1> QED BY <1>1, <1>2, SystemInvariance, PTL
   DEF SystemSpec, AnswersHold, KitchenInContext, K!Spec

(* While the controller holds, nothing is left to assume: the answers do,   *)
(* by AnswersNameWhoStays.                                                  *)
THEOREM KitchenInItsContext == SystemSpec /\ []Uncut => KitchenInContext
<1>1. Uncut => ~ Mistaken
  BY DEF Uncut, Mistaken
<1> QED BY <1>1, KitchenFindsItsContext, ControllerInSystem, AnswersNameWhoStays, PTL

------------------------------------------------------------------------------
(* What is proved of Kitchen, carried over.  KP is K with its theorems; the *)
(* definitions of the two are the same.                                     *)

KP == INSTANCE KitchenProofs WITH
        MaxMoves <- 2 * MaxRequests,
        known <- kitchen_known, io <- kitchen_io, client <- kitchen_client,
        requests <- Held, free <- [r \in Robot |-> state[r] = "AVAILABLE"],
        receiver <- receivers["kitchen"] # "stopped",
        faults <- Cardinality(faults),
        repeated <- 0, unconfirmed <- 0, doubled <- 0

(* Kitchen's constants are what it assumes of them.                         *)
(* Kitchen's constants are as it assumes them.                              *)
LEMMA KitchenConstants ==
    /\ Position \subseteq Nat \ {0}
    /\ StartPosition \in [Robot -> Position]
    /\ \A r, s \in Robot : StartPosition[r] = StartPosition[s] => r = s
    /\ None \notin Robot \cup KP!RemoteType
    /\ FaultKinds \subseteq KP!FaultKind
    /\ {MaxOrders, 2 * MaxRequests, MaxFaults} \subseteq Nat
  BY PositionFacts, ControllerAssumption, SystemAssumption, RemotesAssumption
  DEF K!RemoteType, KP!RemoteType, KP!FaultKind

(* The same steps.                                                          *)
LEMMA SameNext == [K!Next]_(K!vars) => [KP!Next]_(KP!vars)
<1>1. K!WorkerStep => KP!WorkerStep
  BY Zenon DEF K!orderVars, K!counterVars, K!workVars, K!worldVars,
         K!ghostVars, K!boundVars, K!Remote, K!Fault, K!Take,
         K!remove_stopped_robots, K!Live, K!Place, K!Pass,
         K!HandleRandomOrderRequest, K!Waiting, K!Reopened,
         K!HandlePlacingGate, K!Asking, K!ChooseNextRobot,
         K!ChooseNextRobotFails, K!ChooseWithoutClient, K!Met, K!Available,
         K!HandleReceiveNextRobot, K!Instructed, K!Confirmed, K!InstructRobot,
         K!Drop, K!InstructFails, K!HandleCompletedOrder, K!NotAt,
         K!ReadPositions, K!HandlePositionSwapped, K!WorkerStep, KP!orderVars,
         KP!counterVars, KP!workVars, KP!worldVars, KP!ghostVars,
         KP!boundVars, KP!Remote, KP!Fault, KP!Take, KP!remove_stopped_robots,
         KP!Live, KP!Place, KP!Pass, KP!HandleRandomOrderRequest, KP!Waiting,
         KP!Reopened, KP!HandlePlacingGate, KP!Asking, KP!ChooseNextRobot,
         KP!ChooseNextRobotFails, KP!ChooseWithoutClient, KP!Met,
         KP!Available, KP!HandleReceiveNextRobot, KP!Instructed, KP!Confirmed,
         KP!InstructRobot, KP!Drop, KP!InstructFails, KP!HandleCompletedOrder,
         KP!NotAt, KP!ReadPositions, KP!HandlePositionSwapped, KP!WorkerStep
<1>2. K!ClientStep => KP!ClientStep
  BY Zenon DEF K!orderVars, K!counterVars, K!workVars, K!worldVars,
         K!ghostVars, K!boundVars, K!Killed, K!DropController, K!Reconnect,
         K!ClientStep, KP!orderVars, KP!counterVars, KP!workVars,
         KP!worldVars, KP!ghostVars, KP!boundVars, KP!Killed,
         KP!DropController, KP!Reconnect, KP!ClientStep
<1>3. K!RemoteStep => KP!RemoteStep
  BY Zenon DEF K!orderVars, K!counterVars, K!workVars, K!worldVars,
         K!ghostVars, K!boundVars, K!Killed, K!Live, K!PositionChanged,
         K!RemoteStops, K!RemoteStep, KP!orderVars, KP!counterVars,
         KP!workVars, KP!worldVars, KP!ghostVars, KP!boundVars, KP!Killed,
         KP!Live, KP!PositionChanged, KP!RemoteStops, KP!RemoteStep
<1>4. K!RobotStep => KP!RobotStep
  BY Zenon DEF K!orderVars, K!counterVars, K!workVars, K!ghostVars,
         K!boundVars, K!Move, K!Adapted, K!RobotStep, KP!orderVars,
         KP!counterVars, KP!workVars, KP!ghostVars, KP!boundVars, KP!Move,
         KP!Adapted, KP!RobotStep
<1>5. K!Disturbance => KP!Disturbance
  BY Zenon DEF K!orderVars, K!counterVars, K!workVars, K!worldVars,
         K!ghostVars, K!boundVars, K!Killed, K!Fault, K!Live,
         K!PlaceRandomOrder, K!ReceiverBreaks, K!ControllerRestarts, K!Adapt,
         K!RobotCrashes, K!DeliverDish, K!DoubleDish, K!Disturbance,
         KP!orderVars, KP!counterVars, KP!workVars, KP!worldVars,
         KP!ghostVars, KP!boundVars, KP!Killed, KP!Fault, KP!Live,
         KP!PlaceRandomOrder, KP!ReceiverBreaks, KP!ControllerRestarts,
         KP!Adapt, KP!RobotCrashes, KP!DeliverDish, KP!DoubleDish,
         KP!Disturbance
<1>6. /\ K!TimerExpires => KP!TimerExpires
      /\ K!ControllerAnswers => KP!ControllerAnswers
  BY Zenon DEF K!orderVars, K!counterVars, K!workVars, K!worldVars,
         K!ghostVars, K!boundVars, K!Killed, K!TimerExpires, K!AnswerMayFail,
         K!ControllerAnswers, KP!orderVars, KP!counterVars, KP!workVars,
         KP!worldVars, KP!ghostVars, KP!boundVars, KP!Killed, KP!TimerExpires,
         KP!AnswerMayFail, KP!ControllerAnswers
<1>7. K!vars' = K!vars => KP!vars' = KP!vars
  BY Zenon DEF K!orderVars, K!counterVars, K!workVars, K!worldVars,
         K!ghostVars, K!boundVars, K!vars, KP!orderVars, KP!counterVars,
         KP!workVars, KP!worldVars, KP!ghostVars, KP!boundVars, KP!vars
<1> QED BY <1>1, <1>2, <1>3, <1>4, <1>5, <1>6, <1>7, Zenon DEF K!Next, KP!Next

LEMMA SameCounts == /\ \A op : K!Count(op) = KP!Count(op)
                    /\ \A b : K!One(b) = KP!One(b)
  BY Zenon DEF K!Count, K!One, K!Cardinality, KP!Count, KP!One, KP!Cardinality

LEMMA SameInvariants ==
    KP!KitchenInv => /\ K!TypeOK /\ K!GateDriven
                     /\ K!OrdersAccounted /\ K!DishesAccounted
<1>1. KP!TypeOK => K!TypeOK
  BY Zenon DEF K!FaultKind, K!RemoteType, K!Phase, K!Handler, K!MapTypes,
         K!GateTypes, K!CounterTypes, K!WorkTypes, K!WorldTypes, K!TypeOK,
         KP!FaultKind, KP!RemoteType, KP!Phase, KP!Handler, KP!MapTypes,
         KP!GateTypes, KP!CounterTypes, KP!WorkTypes, KP!WorldTypes, KP!TypeOK
<1>2. KP!OneGateDriver /\ KP!NoOrderStranded => K!GateDriven
  BY SameCounts, Zenon DEF K!Killed, K!Asking, K!OneGateDriver,
         K!NoOrderStranded, K!GateDriven, KP!Killed, KP!Asking,
         KP!OneGateDriver, KP!NoOrderStranded, KP!GateDriven
<1>3. KP!OrdersAccounted => K!OrdersAccounted
  BY SameCounts, Zenon DEF K!OrdersAccounted, KP!OrdersAccounted
<1>4. KP!DishesCounted => K!DishesCounted
  BY SameCounts, Zenon DEF K!DishesCounted, KP!DishesCounted
<1>5. K!TypeOK => K!LostAnswers <= Cardinality(faults)
  BY DEF K!TypeOK, K!CounterTypes, K!LostAnswers
<1> QED BY <1>1, <1>2, <1>3, <1>4, <1>5 DEF KP!KitchenInv, K!DishesAccounted

(* Also an answer that is mistaken is one answer to one request.            *)
LEMMA AnyAnswerKeeps ==
    ASSUME SystemInv, ControllerInv', KP!KitchenInv, ReceiveNextRobot, Answer
    PROVE  KP!KitchenInv'
<1>1. PICK h : h = [op |-> "next_robot", position |-> answer'.position,
                    robot |-> answer'.robot]
  OBVIOUS
<1>2. h \in KP!Handler /\ h.op = "next_robot"
  BY <1>1, NamedIsKnown DEF KP!Handler
<1>3. kitchen_io' = Append(kitchen_io, h) /\ UNCHANGED forgotten
  <2>1. ~ AnswerFails
    BY DEF Answer, AnswerFails, boundVars, SystemInv, ControllerInv, LinkTypes
  <2> QED BY <1>1, <2>1 DEF ReceiveNextRobot, Response
<1>4. /\ Held > 0 /\ Held' = Held - 1
      /\ UNCHANGED <<kitchen_known, KP!orderVars, KP!counterVars, KP!workVars,
                     kitchen_client, KP!worldVars, cooking, KP!boundVars, 0>>
  BY AnswerGoes DEF KP!orderVars, KP!counterVars, KP!workVars, KP!worldVars,
     KP!boundVars
<1> QED BY <1>2, <1>3, <1>4, KP!AnswerKeeps, KitchenConstants

LEMMA SystemKeepsAccounts ==
    ASSUME SystemInv, KP!KitchenInv, [SystemNext]_systemVars
    PROVE  KP!KitchenInv'
<1>1. ControllerInv'
  BY StepOfController, NextKeeps DEF SystemInv
<1>2. CASE ReceiveNextRobot /\ Answer
  BY <1>1, <1>2, AnyAnswerKeeps
<1>3. CASE ~ (ReceiveNextRobot /\ Answer)
  <2>1. [K!Next]_(K!vars)
    BY <1>1, <1>3, AnswerSimulates, OthersSimulate DEF Simulated
  <2>2. [KP!Next]_(KP!vars)
    BY <2>1, SameNext
  <2> QED BY <2>2, KitchenConstants, KP!NextKeeps
<1> QED BY <1>2, <1>3

(* The kitchen's counters add up in the composition too, with Held, the     *)
(* handlers and calls of the controller, for the requests under way: every  *)
(* order is settled at most once and the gate opened again once, whatever   *)
(* fails and also when an answer is mistaken.                               *)
THEOREM OrdersAddUp ==
    SystemSpec => [](/\ K!TypeOK /\ K!GateDriven
                     /\ K!OrdersAccounted /\ K!DishesAccounted)
<1>1. SystemInit => KP!KitchenInv
  <2>1. K!Init => KP!Init
    BY Zenon DEF K!Init, KP!Init
  <2> QED BY <2>1, KitchenConstants, KP!InitEstablishes DEF SystemInit
<1>2. SystemInv /\ KP!KitchenInv /\ [SystemNext]_systemVars => KP!KitchenInv'
  BY SystemKeepsAccounts
<1> QED BY <1>1, <1>2, SystemInvariance, SameInvariants, PTL DEF SystemSpec

==============================================================================
