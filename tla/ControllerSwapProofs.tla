------------------------- MODULE ControllerSwapProofs -------------------------
(***************************************************************************)
(* Theorems about the swaps of Controller, while its connections and the   *)
(* controller itself hold.  A swap is told to both its robots in two calls,*)
(* each robot moves by itself and notifies, the controller rekeys its map  *)
(* when both have, and one commit goes to each: five steps of three actors,*)
(* among which robots register, are reconfigured, stop and are removed.    *)
(* SwapInv says where each of them is in between.  When no answer is lost  *)
(* either, PlaceInv says whose place it is that a robot is committed to and*)
(* FlagInv which entries are marked as adapting, and so whom an answer to a*)
(* next-robot request names.                                               *)
(***************************************************************************)
EXTENDS ControllerProofs

(* Robots may stop, receivers may stop and answers to the calls of a swap   *)
(* may get lost; no connection breaks and the controller does not restart.  *)
Calm == faults \subseteq {"robot", "receiver", "answer"}

------------------------------------------------------------------------------
(* The swaps that are under way: the pending ones and the one that is       *)
(* between its two calls.  m, ps, q and cs stand for the map, the pending   *)
(* swaps, the queue and the calls; act for the keys of the swaps under way. *)
SecondCall(cs) == cs # <<>> /\ Head(cs).op = "switch_second"
Active(ps, cs) ==
    DOMAIN ps \cup {k \in SwapKey :
                       SecondCall(cs) /\ k = Key(Head(cs).from, Head(cs).to)}
Busy(act, p) == \E k \in act : p \in Positions(k)

(* Where a robot is in its adaptation.                                      *)
Idle(r) ==
    /\ state[r] = "AVAILABLE" /\ ~ pending[r] /\ target[r] = None
    /\ new_profile[r] = None /\ commits[r] = 0
Reconfiguring(r) ==
    /\ state[r] = "RECONFIGURING" /\ ~ pending[r] /\ target[r] = None
    /\ commits[r] = 0
Moving(r) ==
    /\ state[r] = "REARRANGING" /\ ~ pending[r]
    /\ new_profile[r] = None /\ commits[r] = 0
Moved(r) ==
    /\ state[r] = "REARRANGING" /\ pending[r] /\ target[r] = None
    /\ new_profile[r] = None /\ commits[r] \in {0, 1}
Phases == \A r \in Robot : Idle(r) \/ Reconfiguring(r) \/ Moving(r) \/ Moved(r)

(* A robot that is not yet in the map: it has not called or its call waits. *)
Registering(q, r) ==
    \/ client[r] = "null"
    \/ \E i \in DOMAIN q : q[i].op = "register" /\ q[i].robot = r

Registrations(q) ==
    /\ \A r \in Robot : client[r] # "stale"
    /\ \A i \in DOMAIN q : q[i].op = "register" =>
          q[i].position = place[q[i].robot] /\ client[q[i].robot] = "live"
    /\ \A i, j \in DOMAIN q :
          q[i].op = "register" /\ q[j].op = "register" /\ q[i].robot = q[j].robot
            => i = j

Newcomers(m, act, q) ==
    \A r \in Robot : Registering(q, r) =>
        /\ Idle(r) /\ m[place[r]] = None /\ ~ Busy(act, place[r])
        /\ \A p \in Position : m[p] # None => m[p].robot # r
        /\ \A s \in Robot : Registering(q, s) /\ place[s] = place[r] => s = r

OneEntryEach(m) ==
    \A p, o \in Position :
        m[p] # None /\ m[o] # None /\ m[p].robot = m[o].robot => p = o
Apart(act) ==
    \A k, l \in act : Positions(k) \cap Positions(l) # {} => k = l

(* The robot of an entry without a swap stands there and stays.             *)
AtHome(m, p) ==
    /\ m[p].cached = p
    /\ m[p].link = "live" => place[m[p].robot] = p /\ target[m[p].robot] = None
Home(m, act) ==
    \A p \in Position : m[p] # None /\ ~ Busy(act, p) => AtHome(m, p)

(* The robot of an entry amid a swap goes to no other position than the     *)
(* partner's, and its entry follows.                                        *)
OnItsWay(m, k, p) ==
    /\ m[p].cached \in Positions(k) /\ commits[m[p].robot] = 0
    /\ m[p].link = "live" =>
          /\ place[m[p].robot] \in Positions(k)
          /\ IF place[m[p].robot] = p
             THEN m[p].cached = p /\ target[m[p].robot] \in Positions(k) \cup {None}
             ELSE target[m[p].robot] = None
Away(m, act) ==
    \A k \in act : \A p \in Positions(k) : m[p] # None => OnItsWay(m, k, p)

(* Who acknowledged has left, or is no robot of the map any more.           *)
Acked(m, ps) ==
    \A k \in DOMAIN ps : \A p \in ps[k] :
        m[p] # None => m[p].link = "stopped" \/ m[p].cached # p

(* Nobody comes to this position again.                                     *)
Dead(m, act, q, p) ==
    /\ m[p] = None /\ ~ Busy(act, p)
    /\ \A r \in Robot : Registering(q, r) => place[r] # p

Swapped(q, i) == q[i].op = "swapped"
KeyOf(q, i) == Key(q[i].old, q[i].new)

(* A notification that waits is the first of its robot about its swap, or   *)
(* about a swap that was given up and cannot begin again.                   *)
Notifications(m, ps, act, q) ==
    /\ \A i \in DOMAIN q : Swapped(q, i) =>
          /\ q[i].old # q[i].new
          /\ IF KeyOf(q, i) \in act
             THEN m[q[i].old] # None =>
                     /\ m[q[i].old].cached = q[i].new
                     /\ KeyOf(q, i) \in DOMAIN ps =>
                           q[i].old \notin ps[KeyOf(q, i)]
             ELSE Dead(m, act, q, q[i].old) \/ Dead(m, act, q, q[i].new)
    /\ \A i, j \in DOMAIN q :
          /\ Swapped(q, i) /\ Swapped(q, j) /\ q[i].old = q[j].old
          /\ m[q[i].old] # None /\ KeyOf(q, i) \in act /\ KeyOf(q, j) \in act
          => i = j

(* What the running handler still calls.                                    *)
CallOrder(cs) ==
    /\ \A i \in DOMAIN cs :
          cs[i].op \in {"resolve", "switch", "switch_second"} => i = 1
    /\ \A i, j \in DOMAIN cs : cs[i].op = "commit" => cs[j].op = "commit"
Resolving(m, cs) ==
    cs # <<>> /\ Head(cs).op = "resolve" /\ m[Head(cs).at] # None =>
        Idle(m[Head(cs).at].robot)
Switching(m, ps, act, cs) ==
    cs # <<>> =>
        LET from == Head(cs).from
            to == Head(cs).to
        IN /\ Head(cs).op = "switch" =>
                 /\ m[from] # None \/ Busy(act, from)
                 /\ m[to] # None \/ Busy(act, to)
           /\ Head(cs).op = "switch_second" =>
                 /\ m[from] # None /\ m[to] # None
                 /\ Key(from, to) \notin DOMAIN ps
                 /\ m[to].cached = to
                 /\ m[to].link = "live" =>
                       Idle(m[to].robot) /\ place[m[to].robot] = to
Committing(m, act, q, cs) ==
    /\ \A i \in DOMAIN cs : cs[i].op = "commit" =>
          /\ commits[cs[i].robot] = 0 /\ ~ Registering(q, cs[i].robot)
          /\ \A p \in Position : m[p] # None /\ Busy(act, p) =>
                m[p].robot # cs[i].robot
    /\ \A i, j \in DOMAIN cs :
          cs[i].op = "commit" /\ cs[j].op = "commit" /\ cs[i].robot = cs[j].robot
            => i = j

(* All of it, of a map, pending swaps, a queue and calls.                   *)
Orderly(m, ps, q, cs) ==
    /\ Registrations(q) /\ Newcomers(m, Active(ps, cs), q)
    /\ OneEntryEach(m) /\ Apart(Active(ps, cs))
    /\ Home(m, Active(ps, cs)) /\ Away(m, Active(ps, cs))
    /\ Acked(m, ps)
    /\ Notifications(m, ps, Active(ps, cs), q)
    /\ CallOrder(cs) /\ Resolving(m, cs)
    /\ Switching(m, ps, Active(ps, cs), cs)
    /\ Committing(m, Active(ps, cs), q, cs)

Counted(m) == registered = Cardinality(Occupied(m))

Ordered ==
    /\ running /\ Phases
    /\ Orderly(known, pending_swaps, io, calls) /\ Counted(known)

SwapInv == Calm => Ordered

Typed(m, ps, q, cs) ==
    /\ m \in Remotes
    /\ DOMAIN ps \subseteq SwapKey
    /\ \A k \in DOMAIN ps : ps[k] \subseteq Positions(k)
    /\ q \in Seq(Handler) /\ cs \in Seq(SwapCall)

------------------------------------------------------------------------------
(* Types of what the definitions are about.                                 *)

LEMMA ActiveKeys ==
    ASSUME NEW m, NEW ps, NEW q, NEW cs, Typed(m, ps, q, cs)
    PROVE  Active(ps, cs) \subseteq SwapKey
  BY DEF Active, Typed

LEMMA KeyPositions ==
    ASSUME NEW k \in SwapKey
    PROVE  /\ k[1] \in Position /\ k[2] \in Position /\ k[1] # k[2]
           /\ Positions(k) = {k[1], k[2]} /\ Positions(k) \subseteq Position
<1>1. k[1] \in Position /\ k[2] \in Position /\ k[1] < k[2]
  BY DEF SwapKey
<1>2. k[1] \in Nat /\ k[2] \in Nat
  BY <1>1, PositionFacts
<1>3. k[1] # k[2]
  BY <1>1, <1>2
<1> QED BY <1>1, <1>3 DEF Positions

LEMMA EntryFields ==
    ASSUME NEW m \in Remotes, NEW p \in Position, m[p] # None
    PROVE  /\ m[p] \in RemoteType /\ m[p].robot \in Robot
           /\ m[p].cached \in Position
           /\ m[p].link \in {"live", "broken", "stopped"}
<1>1. m[p] \in RemoteType
  BY DEF Remotes
<1> QED BY <1>1 DEF RemoteType

(* Entries change in profile, flag and link only, and a link gets no better.*)
SameEntries(m, n) ==
    \A p \in Position :
        /\ n[p] = None <=> m[p] = None
        /\ m[p] # None =>
              /\ n[p].robot = m[p].robot /\ n[p].cached = m[p].cached
              /\ n[p].link = "live" => m[p].link = "live"
              /\ m[p].link = "stopped" => n[p].link = "stopped"

LEMMA SameEntriesKeep ==
    ASSUME NEW m, NEW n, NEW ps, NEW q, NEW cs, Typed(m, ps, q, cs),
           n \in Remotes, RobotTypes,
           SameEntries(m, n), Orderly(m, ps, q, cs)
    PROVE  Orderly(n, ps, q, cs)
<1> DEFINE act == Active(ps, cs)
<1>1. act \subseteq SwapKey
  BY ActiveKeys
<1>2. \A r \in Robot : place[r] \in Position
  BY DEF RobotTypes
<1>3. \A k \in SwapKey : Positions(k) \subseteq Position
  BY KeyPositions
<1>4. \A i \in DOMAIN q : Swapped(q, i) =>
         q[i].old \in Position /\ q[i].new \in Position
  BY HandlerFields DEF Typed, Swapped
<1>5. /\ m \in Remotes /\ n \in Remotes /\ DOMAIN ps \subseteq SwapKey
      /\ \A k \in DOMAIN ps : ps[k] \subseteq Position
  BY <1>3 DEF Typed
<1>6. cs # <<>> =>
         /\ Head(cs).op = "resolve" => Head(cs).at \in Position
         /\ Head(cs).op \in {"switch", "switch_second"} =>
               Head(cs).from \in Position /\ Head(cs).to \in Position
  <2>1. cs # <<>> => Head(cs) \in SwapCall
    BY DEF Typed
  <2> QED BY <2>1, CallFields
<1> HIDE DEF act
<1>7. /\ Registrations(q) /\ Newcomers(m, act, q) /\ OneEntryEach(m) /\ Apart(act)
      /\ Home(m, act) /\ Away(m, act) /\ Acked(m, ps)
      /\ Notifications(m, ps, act, q) /\ CallOrder(cs) /\ Resolving(m, cs)
      /\ Switching(m, ps, act, cs) /\ Committing(m, act, q, cs)
  BY DEF Orderly, act
<1>8. Newcomers(n, act, q)
  BY <1>2, <1>7 DEF Newcomers, SameEntries
<1>9. OneEntryEach(n)
  BY <1>7 DEF OneEntryEach, SameEntries
<1>10. Home(n, act)
  BY <1>7 DEF Home, AtHome, SameEntries
<1>11. Away(n, act)
  BY <1>1, <1>3, <1>7 DEF Away, OnItsWay, SameEntries
<1>12. Acked(n, ps)
  BY <1>5, <1>7 DEF Acked, SameEntries
<1>13. Notifications(n, ps, act, q)
  BY <1>4, <1>7 DEF Notifications, Dead, SameEntries
<1>14. Resolving(n, cs)
  BY <1>6, <1>7 DEF Resolving, SameEntries
<1>15. Switching(n, ps, act, cs)
  BY <1>6, <1>7 DEF Switching, SameEntries
<1>16. Committing(n, act, q, cs)
  BY <1>7 DEF Committing, SameEntries
<1> QED BY <1>7, <1>8, <1>9, <1>10, <1>11, <1>12, <1>13, <1>14, <1>15, <1>16
     DEF Orderly, act


(* The queue without its head.                                              *)
LEMMA TailQueueKeeps ==
    ASSUME NEW m, NEW ps, NEW q, NEW cs, Typed(m, ps, q, cs), q # <<>>,
           Orderly(m, ps, q, cs)
    PROVE  Orderly(m, ps, Tail(q), cs)
<1> DEFINE act == Active(ps, cs)
           t == Tail(q)
<1>1. /\ t \in Seq(Handler)
      /\ \A i \in DOMAIN t : i + 1 \in DOMAIN q /\ t[i] = q[i + 1]
      /\ \A i, j \in DOMAIN t : i + 1 = j + 1 => i = j
  BY DEF Typed
<1> HIDE DEF act, t
<1>2. /\ Registrations(q) /\ Newcomers(m, act, q) /\ OneEntryEach(m) /\ Apart(act)
      /\ Home(m, act) /\ Away(m, act) /\ Acked(m, ps)
      /\ Notifications(m, ps, act, q) /\ CallOrder(cs) /\ Resolving(m, cs)
      /\ Switching(m, ps, act, cs) /\ Committing(m, act, q, cs)
  BY DEF Orderly, act
<1>3. \A r \in Robot : Registering(t, r) => Registering(q, r)
  BY <1>1 DEF Registering
<1>4. Registrations(t)
  BY <1>1, <1>2 DEF Registrations
<1>5. Newcomers(m, act, t)
  BY <1>2, <1>3 DEF Newcomers
<1>6. Notifications(m, ps, act, t)
  <2>1. \A p : Dead(m, act, q, p) => Dead(m, act, t, p)
    BY <1>3 DEF Dead
  <2>2. \A i \in DOMAIN t : Swapped(t, i) =>
          /\ t[i].old # t[i].new
          /\ IF KeyOf(t, i) \in act
             THEN m[t[i].old] # None =>
                     /\ m[t[i].old].cached = t[i].new
                     /\ KeyOf(t, i) \in DOMAIN ps =>
                           t[i].old \notin ps[KeyOf(t, i)]
             ELSE Dead(m, act, t, t[i].old) \/ Dead(m, act, t, t[i].new)
    BY <1>1, <1>2, <2>1 DEF Notifications, Swapped, KeyOf
  <2>3. ASSUME NEW i \in DOMAIN t, NEW j \in DOMAIN t,
               Swapped(t, i), Swapped(t, j), t[i].old = t[j].old,
               m[t[i].old] # None, KeyOf(t, i) \in act, KeyOf(t, j) \in act
        PROVE  i = j
    <3>1. i + 1 = j + 1
      BY <1>1, <1>2, <2>3 DEF Notifications, Swapped, KeyOf
    <3> QED BY <1>1, <3>1
  <2> QED BY <2>2, <2>3 DEF Notifications
<1>7. Committing(m, act, t, cs)
  <2>1. \A i \in DOMAIN cs : cs[i].op = "commit" => cs[i].robot \in Robot
    BY CallFields DEF Typed
  <2> QED BY <1>2, <1>3, <2>1 DEF Committing
<1> QED BY <1>2, <1>4, <1>5, <1>6, <1>7 DEF Orderly, act, t

(* A handler in the queue that neither registers nor notifies of a swap.    *)
LEMMA AppendQueueKeeps ==
    ASSUME NEW m, NEW ps, NEW q, NEW cs, Typed(m, ps, q, cs),
           NEW h \in Handler, h.op \notin {"register", "swapped"},
           Orderly(m, ps, q, cs)
    PROVE  Orderly(m, ps, Append(q, h), cs)
<1> DEFINE act == Active(ps, cs)
           t == Append(q, h)
<1>1. /\ t \in Seq(Handler)
      /\ \A i \in DOMAIN t : \/ i \in DOMAIN q /\ t[i] = q[i]
                             \/ t[i] = h
      /\ \A i \in DOMAIN q : i \in DOMAIN t /\ t[i] = q[i]
  BY DEF Typed
<1> HIDE DEF act, t
<1>2. /\ Registrations(q) /\ Newcomers(m, act, q) /\ OneEntryEach(m) /\ Apart(act)
      /\ Home(m, act) /\ Away(m, act) /\ Acked(m, ps)
      /\ Notifications(m, ps, act, q) /\ CallOrder(cs) /\ Resolving(m, cs)
      /\ Switching(m, ps, act, cs) /\ Committing(m, act, q, cs)
  BY DEF Orderly, act
<1>3. \A r : Registering(t, r) <=> Registering(q, r)
  BY <1>1 DEF Registering
<1>4. Registrations(t)
  BY <1>1, <1>2 DEF Registrations
<1>5. Newcomers(m, act, t)
  BY <1>2, <1>3 DEF Newcomers
<1>6. Notifications(m, ps, act, t)
  <2>1. \A p : Dead(m, act, q, p) => Dead(m, act, t, p)
    BY <1>3 DEF Dead
  <2>2. \A i \in DOMAIN t : Swapped(t, i) =>
          i \in DOMAIN q /\ t[i] = q[i] /\ Swapped(q, i)
    BY <1>1 DEF Swapped
  <2> QED BY <1>2, <2>1, <2>2 DEF Notifications, KeyOf
<1>7. Committing(m, act, t, cs)
  BY <1>2, <1>3 DEF Committing
<1> QED BY <1>2, <1>4, <1>5, <1>6, <1>7 DEF Orderly, act, t

(* The calls without the first, unless that is the second one of a swap.    *)
LEMMA TailCallsKeeps ==
    ASSUME NEW m, NEW ps, NEW q, NEW cs, Typed(m, ps, q, cs), cs # <<>>,
           Head(cs).op # "switch_second", Orderly(m, ps, q, cs)
    PROVE  Orderly(m, ps, q, Tail(cs))
<1> DEFINE act == Active(ps, cs)
           t == Tail(cs)
<1>1. /\ t \in Seq(SwapCall) /\ Head(cs) = cs[1]
      /\ \A i \in DOMAIN t : i + 1 \in DOMAIN cs /\ t[i] = cs[i + 1] /\ i + 1 # 1
      /\ t # <<>> => 1 \in DOMAIN t /\ Head(t) = t[1]
      /\ \A i, j \in DOMAIN t : i + 1 = j + 1 => i = j
  BY DEF Typed
<1>2. /\ Registrations(q) /\ Newcomers(m, act, q) /\ OneEntryEach(m) /\ Apart(act)
      /\ Home(m, act) /\ Away(m, act) /\ Acked(m, ps)
      /\ Notifications(m, ps, act, q) /\ CallOrder(cs) /\ Resolving(m, cs)
      /\ Switching(m, ps, act, cs) /\ Committing(m, act, q, cs)
  BY DEF Orderly
<1> HIDE DEF t
<1>3. \A i \in DOMAIN t : t[i].op \notin {"resolve", "switch", "switch_second"}
  BY <1>1, <1>2 DEF CallOrder
<1>4. Active(ps, t) = act
  BY <1>1, <1>3 DEF Active, SecondCall
<1> HIDE DEF act
<1>5. CallOrder(t)
  BY <1>1, <1>2, <1>3 DEF CallOrder
<1>6. Resolving(m, t) /\ Switching(m, ps, act, t)
  BY <1>1, <1>3 DEF Resolving, Switching
<1>7. Committing(m, act, q, t)
  <2>1. \A i \in DOMAIN t : t[i].op = "commit" =>
          /\ commits[t[i].robot] = 0 /\ ~ Registering(q, t[i].robot)
          /\ \A p \in Position : m[p] # None /\ Busy(act, p) =>
                m[p].robot # t[i].robot
    BY <1>1, <1>2 DEF Committing
  <2>2. ASSUME NEW i \in DOMAIN t, NEW j \in DOMAIN t,
               t[i].op = "commit", t[j].op = "commit", t[i].robot = t[j].robot
        PROVE  i = j
    <3>1. i + 1 = j + 1
      BY <1>1, <1>2, <2>2 DEF Committing
    <3> QED BY <1>1, <3>1
  <2> QED BY <2>1, <2>2 DEF Committing
<1> QED BY <1>2, <1>4, <1>5, <1>6, <1>7 DEF Orderly, t


(* Swaps of which no robot is left are forgotten.                           *)
LEMMA ForgettingKeeps ==
    ASSUME NEW m, NEW ps, NEW q, Typed(m, ps, q, <<>>), RobotTypes,
           NEW S \in SUBSET DOMAIN ps,
           \A k \in DOMAIN ps \ S : \A p \in Positions(k) : m[p] = None,
           Orderly(m, ps, q, <<>>)
    PROVE  Orderly(m, Restricted(ps, S), q, <<>>)
<1> DEFINE act == Active(ps, <<>>)
           rest == Restricted(ps, S)
<1>1. act = DOMAIN ps /\ Active(rest, <<>>) = S
  BY DEF Active, SecondCall, Restricted
<1>2. DOMAIN rest = S /\ \A k \in S : rest[k] = ps[k]
  BY DEF Restricted
<1>3. /\ Registrations(q) /\ Newcomers(m, act, q) /\ OneEntryEach(m) /\ Apart(act)
      /\ Home(m, act) /\ Away(m, act) /\ Acked(m, ps)
      /\ Notifications(m, ps, act, q)
  BY DEF Orderly
<1> HIDE DEF act, rest
<1>4. /\ S \subseteq act /\ act \subseteq SwapKey
      /\ \A k \in SwapKey : Positions(k) \subseteq Position
      /\ \A r \in Robot : place[r] \in Position
  BY <1>1, KeyPositions DEF Typed, RobotTypes
<1>5. \A p : Busy(S, p) => Busy(act, p)
  BY <1>4 DEF Busy
<1>6. \A p : Busy(act, p) /\ ~ Busy(S, p) => m[p] = None
  BY <1>1 DEF Busy
<1>7. Newcomers(m, S, q)
  BY <1>3, <1>5 DEF Newcomers
<1>8. Apart(S) /\ Away(m, S) /\ Acked(m, rest)
  BY <1>2, <1>3, <1>4, <1>1 DEF Apart, Away, Acked
<1>9. Home(m, S)
  BY <1>3, <1>6 DEF Home
<1>10. Notifications(m, rest, S, q)
  <2>1. ASSUME NEW k \in act, k \notin S, NEW p \in Positions(k)
        PROVE  Dead(m, S, q, p)
    <3>1. m[p] = None
      BY <2>1, <1>1
    <3>2. ~ Busy(S, p)
      BY <2>1, <1>3, <1>4 DEF Busy, Apart
    <3>3. Busy(act, p)
      BY DEF Busy
    <3>4. \A r \in Robot : Registering(q, r) => place[r] # p
      BY <3>3, <1>3 DEF Newcomers
    <3> QED BY <3>1, <3>2, <3>4 DEF Dead
  <2>2. \A p : Dead(m, act, q, p) => Dead(m, S, q, p)
    BY <1>5 DEF Dead
  <2>3. \A i \in DOMAIN q : Swapped(q, i) =>
           q[i].old \in Position /\ q[i].new \in Position
    BY HandlerFields DEF Typed, Swapped
  <2>4. ASSUME NEW i \in DOMAIN q, Swapped(q, i)
        PROVE  /\ q[i].old # q[i].new
               /\ IF KeyOf(q, i) \in S
                  THEN m[q[i].old] # None =>
                          /\ m[q[i].old].cached = q[i].new
                          /\ KeyOf(q, i) \in DOMAIN rest =>
                                q[i].old \notin rest[KeyOf(q, i)]
                  ELSE Dead(m, S, q, q[i].old) \/ Dead(m, S, q, q[i].new)
    <3>1. q[i].old # q[i].new
      BY <2>4, <1>3 DEF Notifications
    <3>2. q[i].old \in Positions(KeyOf(q, i))
      BY <3>1, <2>3, <2>4, KeyFacts DEF KeyOf
    <3>3. CASE KeyOf(q, i) \in S
      BY <3>1, <3>3, <2>4, <1>1, <1>2, <1>3, <1>4 DEF Notifications
    <3>4. CASE KeyOf(q, i) \notin S /\ KeyOf(q, i) \in act
      BY <3>1, <3>2, <3>4, <2>1
    <3>5. CASE KeyOf(q, i) \notin S /\ KeyOf(q, i) \notin act
      BY <3>1, <3>5, <2>2, <2>4, <1>3 DEF Notifications
    <3> QED BY <3>3, <3>4, <3>5
  <2>5. \A i, j \in DOMAIN q :
          /\ Swapped(q, i) /\ Swapped(q, j) /\ q[i].old = q[j].old
          /\ m[q[i].old] # None /\ KeyOf(q, i) \in S /\ KeyOf(q, j) \in S
          => i = j
    BY <1>3, <1>4 DEF Notifications
  <2> QED BY <2>4, <2>5 DEF Notifications
<1>11. /\ CallOrder(<<>>) /\ Resolving(m, <<>>) /\ Switching(m, rest, S, <<>>)
       /\ Committing(m, S, q, <<>>)
  BY DEF CallOrder, Resolving, Switching, Committing
<1> QED BY <1>1, <1>3, <1>7, <1>8, <1>9, <1>10, <1>11 DEF Orderly, rest

------------------------------------------------------------------------------
(* Steps that change an entry's profile, flag or link, or nothing.          *)

LEMMA UpdatedEntry ==
    ASSUME NEW m \in Remotes, NEW p \in Position, m[p] # None,
           NEW e \in RemoteType, e.robot = m[p].robot, e.cached = m[p].cached,
           e.link \in {m[p].link, "stopped"},
           NEW n, n[p] = e, \A o \in Position \ {p} : n[o] = m[o]
    PROVE  SameEntries(m, n)
<1>2. e # None
  BY NoneIsNoRemote
<1> QED BY <1>2 DEF SameEntries

LEMMA StoppedEntry ==
    ASSUME NEW m \in Remotes, NEW p \in Position
    PROVE  SameEntries(m, Stop(m, p))
<1>1. CASE m[p] = None
  BY <1>1 DEF Stop, SameEntries
<1>2. CASE m[p] # None
  <2> DEFINE e == [m[p] EXCEPT !.link = "stopped"]
  <2>1. m[p] \in RemoteType
    BY <1>2, EntryFields
  <2>2. /\ e \in RemoteType /\ e.robot = m[p].robot /\ e.cached = m[p].cached
        /\ e.link = "stopped"
    BY <2>1 DEF RemoteType
  <2>3. /\ Stop(m, p)[p] = e
        /\ \A o \in Position \ {p} : Stop(m, p)[o] = m[o]
    BY <1>2 DEF Stop, Remotes
  <2> HIDE DEF e
  <2> QED BY <1>2, <2>2, <2>3, UpdatedEntry
<1> QED BY <1>1, <1>2

LEMMA FlaggedEntry ==
    ASSUME NEW m \in Remotes, NEW p \in Position, m[p] # None
    PROVE  SameEntries(m, Flagged(m, p))
<1> DEFINE e == [m[p] EXCEPT !.adapting = TRUE]
<1>1. m[p] \in RemoteType
  BY EntryFields
<1>2. /\ e \in RemoteType /\ e.robot = m[p].robot /\ e.cached = m[p].cached
      /\ e.link = m[p].link
  BY <1>1 DEF RemoteType
<1>3. /\ Flagged(m, p)[p] = e
      /\ \A o \in Position \ {p} : Flagged(m, p)[o] = m[o]
  BY DEF Flagged, Remotes
<1> HIDE DEF e
<1> QED BY <1>2, <1>3, UpdatedEntry

LEMMA SettledFacts ==
    ASSUME NEW e \in RemoteType
    PROVE  /\ Settled(e) \in RemoteType /\ Settled(e).robot = e.robot
           /\ Settled(e).cached = e.cached /\ Settled(e).link = e.link
           /\ Settled(e).profile = e.profile
  BY DEF Settled, RemoteType

LEMMA CutEntries ==
    ASSUME ControllerInv, NEW r
    PROVE  SameEntries(known, Cut(known, r))
<1>1. ASSUME NEW p \in Position, Alive(p), known[p].robot = r
      PROVE  /\ Cut(known, r)[p] # None
             /\ Cut(known, r)[p].robot = known[p].robot
             /\ Cut(known, r)[p].cached = known[p].cached
             /\ Cut(known, r)[p].link = "broken"
  <2> DEFINE e == [known[p] EXCEPT !.link = "broken"]
  <2>1. known[p] \in RemoteType
    BY <1>1, RobotOfEntry DEF ControllerInv, Alive
  <2>2. /\ e \in RemoteType /\ e.robot = known[p].robot
        /\ e.cached = known[p].cached /\ e.link = "broken"
    BY <2>1 DEF RemoteType
  <2>3. Cut(known, r)[p] = e
    BY <1>1 DEF Cut
  <2> HIDE DEF e
  <2> QED BY <2>2, <2>3, NoneIsNoRemote
<1>2. ASSUME NEW p \in Position, ~ (Alive(p) /\ known[p].robot = r)
      PROVE  Cut(known, r)[p] = known[p]
  BY <1>2 DEF Cut
<1> QED BY <1>1, <1>2 DEF SameEntries, Alive

LEMMA SameOccupied ==
    ASSUME NEW m, NEW n, SameEntries(m, n)
    PROVE  Occupied(n) = Occupied(m)
  BY DEF SameEntries, Occupied

LEMMA TypedState ==
    ControllerInv => Typed(known, pending_swaps, io, calls)
  BY DEF ControllerInv, MapTypes, WorkTypes, Typed

(* The robots change: who must be idle stays so, nothing is committed, and a*)
(* robot gets a goal only if it lost its entry or at its own end of a swap. *)
MustBeIdle(m, q, cs, r) ==
    \/ Registering(q, r)
    \/ /\ cs # <<>> /\ Head(cs).op = "resolve"
       /\ m[Head(cs).at] # None /\ m[Head(cs).at].robot = r
    \/ /\ cs # <<>> /\ Head(cs).op = "switch_second"
       /\ m[Head(cs).to].robot = r
MaySetOut(m, act, r, p) ==
    m[p] # None /\ m[p].robot = r /\ m[p].link = "live" =>
       /\ place[r] = p /\ m[p].cached = p
       /\ \E k \in act : p \in Positions(k) /\ target'[r] \in Positions(k)

LEMMA RobotsFrame ==
    ASSUME ControllerInv', UNCHANGED <<place, client>>,
           \A r \in Robot : MustBeIdle(known', io', calls', r) /\ Idle(r) => Idle(r)',
           \A r \in Robot : commits[r] = 0 => commits'[r] = 0,
           \A r \in Robot : \/ target'[r] = target[r]
                           \/ \A p \in Position :
                                 MaySetOut(known', Active(pending_swaps', calls'), r, p),
           Orderly(known', pending_swaps', io', calls')
    PROVE  Orderly(known, pending_swaps, io, calls)'
<1> DEFINE m == known'
           ps == pending_swaps'
           q == io'
           cs == calls'
           act == Active(ps, cs)
<1>1. /\ Registrations(q) /\ Newcomers(m, act, q) /\ OneEntryEach(m) /\ Apart(act)
      /\ Home(m, act) /\ Away(m, act) /\ Acked(m, ps)
      /\ Notifications(m, ps, act, q) /\ CallOrder(cs) /\ Resolving(m, cs)
      /\ Switching(m, ps, act, cs) /\ Committing(m, act, q, cs)
  BY DEF Orderly
<1>2. Active(pending_swaps, calls)' = act
  BY DEF Active, SecondCall
<1>3. \A r : Registering(io, r)' <=> Registering(q, r)
  BY DEF Registering
<1>4. /\ m \in Remotes /\ act \subseteq SwapKey
      /\ \A k \in SwapKey : Positions(k) \subseteq Position
      /\ cs \in Seq(SwapCall)
  BY ActiveKeys, KeyPositions, TypedState
     DEF ControllerInv, MapTypes, WorkTypes, Typed
<1>5. \A p \in Position : m[p] # None => m[p].robot \in Robot
  BY <1>4, EntryFields
<1>6. \A i \in DOMAIN cs : cs[i].op = "commit" => cs[i].robot \in Robot
  BY <1>4, CallFields
<1>7. cs # <<>> =>
         /\ Head(cs).op = "resolve" => Head(cs).at \in Position
         /\ Head(cs).op = "switch_second" => Head(cs).to \in Position
  <2>1. cs # <<>> => Head(cs) \in SwapCall
    BY <1>4
  <2> QED BY <2>1, CallFields
<1>8. \A r \in Robot : \/ target'[r] = target[r]
                      \/ \A p \in Position : MaySetOut(m, act, r, p)
  OBVIOUS
<1>9. \A r \in Robot : MustBeIdle(m, q, cs, r) /\ Idle(r) => Idle(r)'
  OBVIOUS
<1> HIDE DEF act, m, ps, q, cs
<1>10. known' = m /\ pending_swaps' = ps /\ io' = q /\ calls' = cs
  BY DEF m, ps, q, cs
<1>11. Registrations(io)'
  BY <1>1, <1>10 DEF Registrations
<1>12. Newcomers(known, Active(pending_swaps, calls), io)'
  BY <1>1, <1>2, <1>3, <1>9, <1>10 DEF Newcomers, MustBeIdle
<1>13. OneEntryEach(known)' /\ Apart(Active(pending_swaps, calls))'
  BY <1>1, <1>2, <1>10 DEF OneEntryEach, Apart
<1>14. Home(known, Active(pending_swaps, calls))'
  <2>1. ASSUME NEW p \in Position, m[p] # None, ~ Busy(act, p)
        PROVE  /\ m[p].cached = p
               /\ m[p].link = "live" =>
                     place'[m[p].robot] = p /\ target'[m[p].robot] = None
    <3>1. AtHome(m, p)
      BY <2>1, <1>1 DEF Home
    <3>2. target'[m[p].robot] = target[m[p].robot] \/ m[p].link # "live"
      BY <2>1, <1>5, <1>8 DEF MaySetOut, Busy
    <3> QED BY <3>1, <3>2 DEF AtHome
  <2> QED BY <2>1, <1>2, <1>10 DEF Home, AtHome
<1>15. Away(known, Active(pending_swaps, calls))'
  <2>1. ASSUME NEW k \in act, NEW p \in Positions(k), m[p] # None
        PROVE  /\ m[p].cached \in Positions(k) /\ commits'[m[p].robot] = 0
               /\ m[p].link = "live" =>
                  /\ place'[m[p].robot] \in Positions(k)
                  /\ IF place'[m[p].robot] = p
                     THEN /\ m[p].cached = p
                          /\ target'[m[p].robot] \in Positions(k) \cup {None}
                     ELSE target'[m[p].robot] = None
    <3>1. OnItsWay(m, k, p)
      BY <2>1, <1>1 DEF Away
    <3>2. p \in Position /\ m[p].robot \in Robot
      BY <2>1, <1>4, <1>5
    <3>3. CASE target'[m[p].robot] = target[m[p].robot]
      BY <3>1, <3>2, <3>3 DEF OnItsWay
    <3>4. CASE MaySetOut(m, act, m[p].robot, p)
      <4>1. \A l \in act : p \in Positions(l) => l = k
        BY <1>1 DEF Apart
      <4> QED BY <3>1, <3>2, <3>4, <4>1, <2>1 DEF OnItsWay, MaySetOut
    <3> QED BY <3>2, <3>3, <3>4, <1>8
  <2> QED BY <2>1, <1>2, <1>10 DEF Away, OnItsWay
<1>16. Acked(known, pending_swaps)' /\ CallOrder(calls)'
  BY <1>1, <1>10 DEF Acked, CallOrder
<1>17. Notifications(known, pending_swaps, Active(pending_swaps, calls), io)'
  <2>1. \A p : Dead(known, Active(pending_swaps, calls), io, p)'
                 <=> Dead(m, act, q, p)
    BY <1>2, <1>3, <1>10 DEF Dead
  <2> QED BY <1>1, <1>2, <1>10, <2>1 DEF Notifications
<1>18. Resolving(known, calls)'
  BY <1>1, <1>5, <1>7, <1>9, <1>10 DEF Resolving, MustBeIdle
<1>19. Switching(known, pending_swaps, Active(pending_swaps, calls), calls)'
  <2>1. cs # <<>> /\ Head(cs).op = "switch_second" =>
           /\ m[Head(cs).to] # None
           /\ m[Head(cs).to].robot \in Robot
           /\ MustBeIdle(m, q, cs, m[Head(cs).to].robot)
           /\ m[Head(cs).to].link = "live" => Idle(m[Head(cs).to].robot)
    BY <1>1, <1>5, <1>7 DEF Switching, MustBeIdle
  <2>2. ASSUME NEW r \in Robot, MustBeIdle(m, q, cs, r), Idle(r)
        PROVE  Idle(r)'
    BY <2>2, <1>9
  <2>3. \A r \in Robot : r = m[Head(cs).to].robot /\ cs # <<>>
           /\ Head(cs).op = "switch_second" /\ m[Head(cs).to].link = "live"
           => Idle(r)'
    BY <2>1, <2>2
  <2> QED BY <1>1, <1>2, <1>10, <2>1, <2>3 DEF Switching
<1>20. Committing(known, Active(pending_swaps, calls), io, calls)'
  BY <1>1, <1>2, <1>3, <1>6, <1>10 DEF Committing
<1> QED BY <1>11, <1>12, <1>13, <1>14, <1>15, <1>16, <1>17, <1>18, <1>19, <1>20
     DEF Orderly

LEMMA EntriesStep ==
    ASSUME ControllerInv, ControllerInv', Ordered, SameEntries(known, known'),
           UNCHANGED <<pending_swaps, registered, running, client, robotVars>>
             \/ UNCHANGED <<pending_swaps, registered, running, client, place,
                            goalVars, pending, commits>>,
           \/ calls' = calls
           \/ /\ calls # <<>> /\ Head(calls).op # "switch_second"
              /\ calls' = Tail(calls),
           \/ io' = io
           \/ \E h \in Handler : /\ h.op \notin {"register", "swapped"}
                                 /\ io' = Append(io, h)
    PROVE  Ordered'
<1>1. UNCHANGED <<pending_swaps, registered, running, client, place, target, state,
                  new_profile, pending, commits>>
  BY DEF robotVars, goalVars
<1>2. Typed(known, pending_swaps, io, calls) /\ RobotTypes
  BY TypedState DEF ControllerInv
<1>3. Typed(known', pending_swaps', io', calls')
  BY TypedState DEF ControllerInv, MapTypes, WorkTypes, Typed
<1>4. Orderly(known', pending_swaps, io, calls)
  <2>1. known' \in Remotes
    BY <1>3 DEF Typed
  <2> QED BY <1>2, <2>1, SameEntriesKeep DEF Ordered
<1>5. Orderly(known', pending_swaps, io, calls')
  <2>1. Typed(known', pending_swaps, io, calls)
    BY <1>2, <1>3 DEF Typed
  <2> QED BY <1>4, <2>1, TailCallsKeeps
<1>6. Orderly(known', pending_swaps, io', calls')
  <2>1. Typed(known', pending_swaps, io, calls')
    BY <1>2, <1>3, <1>1 DEF Typed
  <2> QED BY <1>5, <2>1, AppendQueueKeeps
<1>7. Orderly(known, pending_swaps, io, calls)'
  <2>1. \A r : Idle(r) => Idle(r)'
    BY <1>1 DEF Idle
  <2>3. \A r \in Robot : commits[r] = 0 => commits'[r] = 0
    BY <1>1
  <2>2. Orderly(known', pending_swaps', io', calls')
    BY <1>1, <1>6
  <2> QED BY <1>1, <2>1, <2>2, <2>3, RobotsFrame
<1>8. Phases'
  BY <1>1 DEF Ordered, Phases, Idle, Reconfiguring, Moving, Moved
<1>9. Counted(known)'
  BY <1>1, SameOccupied DEF Counted, Ordered
<1> QED BY <1>1, <1>7, <1>8, <1>9 DEF Ordered


LEMMA StillThere ==
    SameEntries(known, known)
  BY DEF SameEntries

LEMMA AnsweringOrdered ==
    ASSUME ControllerInv, ControllerInv', Ordered, Answer \/ AnswerFails
    PROVE  Ordered'
<1>1. /\ UNCHANGED <<known, io>>
      /\ UNCHANGED <<pending_swaps, registered, running, client, robotVars>>
      /\ calls # <<>> /\ Head(calls).op # "switch_second" /\ calls' = Tail(calls)
  BY DEF Answer, AnswerFails, Calling, mapVars
<1>2. SameEntries(known, known')
  BY <1>1, StillThere
<1> QED BY <1>1, <1>2, EntriesStep

LEMMA SkippingOrdered ==
    ASSUME ControllerInv, ControllerInv', Ordered,
           SwitchSkipped \/ ReconfigureSkipped
    PROVE  Ordered'
<1>1. /\ UNCHANGED io
      /\ UNCHANGED <<pending_swaps, registered, running, client, robotVars>>
      /\ calls # <<>> /\ Head(calls).op # "switch_second" /\ calls' = Tail(calls)
  BY DEF SwitchSkipped, ReconfigureSkipped, Calling
<1>2. known' = known \/ \E p \in Position : known' = Stop(known, p)
  <2>1. CASE SwitchSkipped
    <3>1. Head(calls).from \in Position /\ Head(calls).to \in Position
      BY <2>1, CallingType, CallFields DEF SwitchSkipped, ControllerInv
    <3> QED BY <2>1, <3>1 DEF SwitchSkipped, StopUnlessAlive
  <2>2. CASE ReconfigureSkipped
    <3>1. Head(calls).at \in Position
      BY <2>2, CallingType, CallFields DEF ReconfigureSkipped, ControllerInv
    <3> QED BY <2>2, <3>1 DEF ReconfigureSkipped, StopUnlessAlive
  <2> QED BY <2>1, <2>2
<1>3. SameEntries(known, known')
  BY <1>2, StillThere, StoppedEntry DEF ControllerInv, MapTypes
<1> QED BY <1>1, <1>3, EntriesStep

LEMMA CapabilitiesChangedOrdered ==
    ASSUME ControllerInv, ControllerInv', Ordered,
           NEW p \in Position, CapabilitiesChanged(p)
    PROVE  Ordered'
<1> DEFINE e == [known[p] EXCEPT !.profile = profile[known[p].robot]]
           h == [op |-> "reconfigured", at |-> known[p].cached]
<1>1. UNCHANGED <<pending_swaps, registered, running, client, robotVars, calls>>
  BY DEF CapabilitiesChanged
<1>2. /\ known[p] # None /\ known[p] \in RemoteType /\ known[p].robot \in Robot
      /\ known[p].cached \in Position /\ known \in Remotes
  BY RobotOfEntry DEF CapabilitiesChanged, Alive, ControllerInv, MapTypes
<1>3. profile[known[p].robot] \in Profile
  BY <1>2 DEF ControllerInv, RobotTypes
<1>4. /\ e \in RemoteType /\ e.robot = known[p].robot
      /\ e.cached = known[p].cached /\ e.link = known[p].link
  BY <1>2, <1>3 DEF RemoteType
<1>5. known'[p] = e /\ \A o \in Position \ {p} : known'[o] = known[o]
  BY <1>2 DEF CapabilitiesChanged, Remotes
<1>6. h \in Handler /\ h.op = "reconfigured" /\ io' = Append(io, h)
  BY <1>2 DEF CapabilitiesChanged, Handler
<1> HIDE DEF e, h
<1>7. SameEntries(known, known')
  BY <1>2, <1>4, <1>5, UpdatedEntry
<1> QED BY <1>1, <1>6, <1>7, EntriesStep

LEMMA StoppingOrdered ==
    ASSUME ControllerInv, ControllerInv', Ordered,
           NEW p \in Position, RemoteStops(p) \/ RemoteFails(p)
    PROVE  Ordered'
<1>1. /\ UNCHANGED <<pending_swaps, registered, running, client, robotVars>>
      /\ UNCHANGED <<calls, io>> /\ known' = Stop(known, p)
  BY DEF RemoteStops, RemoteFails, workVars
<1>2. SameEntries(known, known')
  BY <1>1, StoppedEntry DEF ControllerInv, MapTypes
<1> QED BY <1>1, <1>2, EntriesStep

LEMMA RobotCrashesOrdered ==
    ASSUME ControllerInv, ControllerInv', Ordered, NEW r \in Robot, RobotCrashes(r)
    PROVE  Ordered'
<1>1. /\ UNCHANGED <<pending_swaps, registered, running, client, place, goalVars,
                     pending, commits>>
      /\ UNCHANGED <<calls, io>> /\ known' = Cut(known, r)
  BY DEF RobotCrashes, workVars
<1>2. SameEntries(known, known')
  BY <1>1, CutEntries
<1> QED BY <1>1, <1>2, EntriesStep

LEMMA ReceiverOrdered ==
    ASSUME ControllerInv, ControllerInv', Ordered,
           NEW a \in Agent, Ask(a) \/ ReceiverBreaks(a)
    PROVE  Ordered'
<1>1. /\ UNCHANGED <<pending_swaps, registered, running, client, robotVars>>
      /\ UNCHANGED <<calls, known>>
  BY DEF Ask, ReceiverBreaks, mapVars, workVars
<1>2. \/ io' = io
      \/ \E h \in Handler : /\ h.op \notin {"register", "swapped"}
                            /\ io' = Append(io, h)
  <2>1. CASE Ask(a)
    <3>1. PICK c \in Recipe :
             \E n \in 0..(Len(Instructions[c]) - 1) :
                io' = Append(io, [op |-> "next_robot", agent |-> a,
                                  recipe |-> c, steps |-> n])
      BY <2>1 DEF Ask
    <3>2. PICK n \in 0..(Len(Instructions[c]) - 1) :
             io' = Append(io, [op |-> "next_robot", agent |-> a,
                               recipe |-> c, steps |-> n])
      BY <3>1
    <3> DEFINE h == [op |-> "next_robot", agent |-> a, recipe |-> c, steps |-> n]
    <3>3. h \in Handler /\ h.op = "next_robot"
      BY DEF Handler
    <3> HIDE DEF h
    <3> QED BY <3>2, <3>3 DEF h
  <2>2. CASE ReceiverBreaks(a)
    BY <2>2 DEF ReceiverBreaks, workVars
  <2> QED BY <2>1, <2>2
<1>3. SameEntries(known, known')
  BY <1>1, StillThere
<1> QED BY <1>1, <1>2, <1>3, EntriesStep


------------------------------------------------------------------------------
(* The robots' own steps.                                                   *)

LEMMA MoveOrdered ==
    ASSUME ControllerInv, Ordered, NEW r \in Robot, Move(r)
    PROVE  Ordered'
<1> DEFINE act == Active(pending_swaps, calls)
<1>1. /\ UNCHANGED <<known, pending_swaps, registered, io, calls, running, client>>
      /\ UNCHANGED <<state, new_profile, commits>> /\ target[r] # None
  BY DEF Move, mapVars, workVars
<1>2. /\ place'[r] = target[r] /\ target'[r] = None /\ pending'[r] = TRUE
      /\ \A s \in Robot \ {r} : /\ place'[s] = place[s] /\ target'[s] = target[s]
                                /\ pending'[s] = pending[s]
  BY DEF Move, ControllerInv, RobotTypes
<1>3. Moving(r)
  BY <1>1 DEF Ordered, Phases, Idle, Reconfiguring, Moved
<1>4. act' = act /\ \A s : Registering(io, s)' <=> Registering(io, s)
  BY <1>1 DEF Active, SecondCall, Registering
<1>5. \A s \in Robot : Idle(s) => s # r /\ Idle(s)'
  BY <1>1, <1>2, <1>3 DEF Idle, Moving
<1>6. /\ Registrations(io) /\ Newcomers(known, act, io) /\ OneEntryEach(known)
      /\ Apart(act) /\ Home(known, act) /\ Away(known, act)
      /\ Acked(known, pending_swaps)
      /\ Notifications(known, pending_swaps, act, io) /\ CallOrder(calls)
      /\ Resolving(known, calls) /\ Switching(known, pending_swaps, act, calls)
      /\ Committing(known, act, io, calls)
  BY DEF Ordered, Orderly
<1>7. act \subseteq SwapKey /\ \A k \in SwapKey : Positions(k) \subseteq Position
  BY TypedState, ActiveKeys, KeyPositions
<1>8. \A p \in Position : known[p] # None => known[p].robot \in Robot
  BY RobotOfEntry DEF ControllerInv
<1> HIDE DEF act
<1>9. \A s \in Robot : Registering(io, s) => s # r /\ place'[s] = place[s]
  BY <1>2, <1>5, <1>6 DEF Newcomers
<1>10. Registrations(io)'
  <2>1. \A i \in DOMAIN io : io[i].op = "register" =>
           io[i].robot \in Robot /\ Registering(io, io[i].robot)
    BY HandlerFields DEF ControllerInv, WorkTypes, Registering
  <2>2. \A i \in DOMAIN io : io[i].op = "register" =>
           place'[io[i].robot] = place[io[i].robot]
    BY <2>1, <1>9
  <2> QED BY <1>1, <1>6, <2>2 DEF Registrations
<1>11. Newcomers(known, act, io)'
  BY <1>1, <1>4, <1>5, <1>6, <1>9 DEF Newcomers
<1>12. Home(known, act)'
  BY <1>1, <1>2, <1>4, <1>6, <1>8 DEF Home, AtHome
<1>13. Away(known, act)'
  <2>1. ASSUME NEW k \in act, NEW p \in Positions(k), known[p] # None
        PROVE  OnItsWay(known, k, p)'
    <3>1. OnItsWay(known, k, p)
      BY <2>1, <1>6 DEF Away
    <3>2. known[p].robot \in Robot
      BY <2>1, <1>7, <1>8
    <3>3. CASE known[p].robot = r
      BY <3>1, <3>3, <1>1, <1>2 DEF OnItsWay
    <3>4. CASE known[p].robot # r
      BY <3>1, <3>2, <3>4, <1>1, <1>2 DEF OnItsWay
    <3> QED BY <3>3, <3>4
  <2> QED BY <2>1, <1>1, <1>4 DEF Away
<1>14. Notifications(known, pending_swaps, act, io)'
  <2>1. \A p : Dead(known, act, io, p) => Dead(known, act, io, p)'
    BY <1>1, <1>4, <1>9 DEF Dead
  <2> QED BY <1>1, <1>4, <1>6, <2>1 DEF Notifications
<1>15. Resolving(known, calls)' /\ Switching(known, pending_swaps, act, calls)'
  <2>1. calls # <<>> => Head(calls) \in SwapCall
    BY DEF ControllerInv, WorkTypes
  <2>2. calls # <<>> =>
           /\ Head(calls).op = "resolve" => Head(calls).at \in Position
           /\ Head(calls).op = "switch_second" => Head(calls).to \in Position
    BY <2>1, CallFields
  <2>3. Resolving(known, calls)'
    BY <1>1, <1>5, <1>6, <1>8, <2>2 DEF Resolving
  <2>4. Switching(known, pending_swaps, act, calls)'
    BY <1>1, <1>2, <1>4, <1>5, <1>6, <1>8, <2>2 DEF Switching
  <2> QED BY <2>3, <2>4
<1>16. /\ OneEntryEach(known)' /\ Apart(act)' /\ Acked(known, pending_swaps)'
       /\ CallOrder(calls)'
  BY <1>1, <1>4, <1>6 DEF OneEntryEach, Apart, Acked, CallOrder
<1>17. Committing(known, act, io, calls)'
  BY <1>1, <1>4, <1>6 DEF Committing
<1>18. Phases'
  BY <1>1, <1>2, <1>3 DEF Ordered, Phases, Idle, Reconfiguring, Moving, Moved
<1>19. running' /\ Counted(known)'
  BY <1>1 DEF Ordered, Counted
<1> QED BY <1>10, <1>11, <1>12, <1>13, <1>14, <1>15, <1>16, <1>17, <1>18, <1>19
     DEF Ordered, Orderly, act

(* The end of a reconfiguration or of a rearrangement.                      *)
LEMMA CompletionOrdered ==
    ASSUME ControllerInv, ControllerInv', Ordered, NEW r \in Robot,
           CompleteReconfiguration(r) \/ HandleNewPositionCommit(r)
    PROVE  Ordered'
<1>1. /\ UNCHANGED <<known, pending_swaps, registered, io, calls, running, client>>
      /\ UNCHANGED <<place, target>>
  BY DEF CompleteReconfiguration, HandleNewPositionCommit, mapVars, workVars
<1>2. \A s \in Robot \ {r} :
         /\ state'[s] = state[s] /\ pending'[s] = pending[s]
         /\ new_profile'[s] = new_profile[s] /\ commits'[s] = commits[s]
  BY DEF CompleteReconfiguration, HandleNewPositionCommit, ControllerInv,
         RobotTypes
<1>3. Idle(r)' /\ (CompleteReconfiguration(r) \/ commits[r] # 0)
  <2>1. CASE CompleteReconfiguration(r)
    <3>1. Reconfiguring(r)
      BY <2>1 DEF CompleteReconfiguration, Ordered, Phases, Idle, Moving, Moved
    <3> QED BY <2>1, <3>1 DEF CompleteReconfiguration, Reconfiguring, Idle,
               ControllerInv, RobotTypes
  <2>2. CASE HandleNewPositionCommit(r)
    <3>1. Moved(r) /\ commits[r] = 1
      BY <2>2 DEF HandleNewPositionCommit, Ordered, Phases, Idle, Reconfiguring,
             Moving, Moved
    <3> QED BY <2>2, <3>1 DEF HandleNewPositionCommit, Moved, Idle,
               ControllerInv, RobotTypes
  <2> QED BY <2>1, <2>2
<1>4. \A s \in Robot : /\ Idle(s) => Idle(s)'
                       /\ commits[s] = 0 => commits'[s] = 0
  BY <1>1, <1>2, <1>3 DEF Idle, CompleteReconfiguration
<1>5. Orderly(known', pending_swaps', io', calls')
  BY <1>1 DEF Ordered
<1>6. Orderly(known, pending_swaps, io, calls)'
  BY <1>1, <1>4, <1>5, RobotsFrame
<1>7. Phases'
  BY <1>1, <1>2, <1>3 DEF Ordered, Phases, Idle, Reconfiguring, Moving, Moved
<1> QED BY <1>1, <1>6, <1>7 DEF Ordered, Counted


LEMMA RegisterOrdered ==
    ASSUME ControllerInv, ControllerInv', Ordered, NEW r \in Robot,
           Register(r) \/ DropController(r)
    PROVE  Ordered'
<1> DEFINE act == Active(pending_swaps, calls)
           h == [op |-> "register", robot |-> r, position |-> place[r],
                 profile |-> profile[r]]
<1>1. /\ Registrations(io) /\ Newcomers(known, act, io) /\ OneEntryEach(known)
      /\ Apart(act) /\ Home(known, act) /\ Away(known, act)
      /\ Acked(known, pending_swaps)
      /\ Notifications(known, pending_swaps, act, io) /\ CallOrder(calls)
      /\ Resolving(known, calls) /\ Switching(known, pending_swaps, act, calls)
      /\ Committing(known, act, io, calls)
  BY DEF Ordered, Orderly
<1>2. Register(r)
  BY <1>1 DEF Registrations, DropController
<1>3. /\ UNCHANGED <<known, pending_swaps, registered, calls, running>>
      /\ UNCHANGED <<place, state, target, new_profile, pending, commits>>
      /\ io' = Append(io, h) /\ client[r] = "null"
      /\ client' = [client EXCEPT ![r] = "live"]
  BY <1>2 DEF Register, mapVars, robotVars, goalVars
<1>4. h.op = "register" /\ h.robot = r /\ h.position = place[r]
  OBVIOUS
<1>5. io \in Seq(Handler) /\ client \in [Robot -> {"live", "stale", "null"}]
  BY DEF ControllerInv, WorkTypes, LinkTypes
<1> HIDE DEF h
<1>6. /\ DOMAIN io' = 1..(Len(io) + 1) /\ DOMAIN io = 1..Len(io)
      /\ Len(io) \in Nat /\ io'[Len(io) + 1] = h
      /\ \A i \in DOMAIN io : io'[i] = io[i]
  BY <1>3, <1>5
<1>7. /\ \A i \in DOMAIN io : i \in DOMAIN io' /\ io'[i] = io[i]
      /\ \A i \in DOMAIN io' :
            \/ i \in DOMAIN io /\ io'[i] = io[i]
            \/ i = Len(io) + 1 /\ io'[i] = h
  BY <1>6
<1>8. client'[r] = "live" /\ \A s \in Robot \ {r} : client'[s] = client[s]
  BY <1>3, <1>5
<1>9. act' = act
  BY <1>3 DEF Active, SecondCall
<1>10. \A i \in DOMAIN io : io[i].op = "register" =>
          io[i].robot \in Robot /\ io[i].robot # r
  BY <1>1, <1>3, <1>5, HandlerFields DEF Registrations
<1>11. \A s \in Robot : Registering(io, s)' <=> Registering(io, s)
  <2>1. Registering(io, r)
    BY <1>3 DEF Registering
  <2>2. Registering(io, r)'
    BY <1>4, <1>6 DEF Registering
  <2>3. ASSUME NEW s \in Robot \ {r}
        PROVE  Registering(io, s)' <=> Registering(io, s)
    BY <1>4, <1>7, <1>8 DEF Registering
  <2> QED BY <2>1, <2>2, <2>3
<1> HIDE DEF act
<1>12. Registrations(io)'
  <2>1. \A s \in Robot : client'[s] # "stale"
    BY <1>1, <1>8 DEF Registrations
  <2>2. \A i \in DOMAIN io' : io'[i].op = "register" =>
           io'[i].position = place'[io'[i].robot] /\ client'[io'[i].robot] = "live"
    BY <1>1, <1>3, <1>4, <1>7, <1>8, <1>10 DEF Registrations
  <2>3. \A i, j \in DOMAIN io' :
          io'[i].op = "register" /\ io'[j].op = "register"
          /\ io'[i].robot = io'[j].robot => i = j
    BY <1>1, <1>4, <1>7, <1>10 DEF Registrations
  <2> QED BY <2>1, <2>2, <2>3 DEF Registrations
<1>14. Newcomers(known, act, io)'
  <2>1. \A s \in Robot : Idle(s)' <=> Idle(s)
    BY <1>3 DEF Idle
  <2> QED BY <1>1, <1>3, <1>9, <1>11, <2>1 DEF Newcomers
<1>15. /\ OneEntryEach(known)' /\ Apart(act)' /\ Home(known, act)'
       /\ Away(known, act)' /\ Acked(known, pending_swaps)' /\ CallOrder(calls)'
  BY <1>1, <1>3, <1>9 DEF OneEntryEach, Apart, Home, AtHome, Away, OnItsWay, Acked,
     CallOrder
<1>16. Notifications(known, pending_swaps, act, io)'
  <2>1. \A p : Dead(known, act, io, p)' <=> Dead(known, act, io, p)
    BY <1>3, <1>9, <1>11 DEF Dead
  <2>2. \A i \in DOMAIN io' : Swapped(io, i)' =>
           i \in DOMAIN io /\ io'[i] = io[i] /\ Swapped(io, i)
    BY <1>4, <1>7 DEF Swapped
  <2>3. ASSUME NEW i \in DOMAIN io', Swapped(io, i)'
        PROVE  KeyOf(io, i)' = KeyOf(io, i)
    BY <2>2, <2>3 DEF KeyOf
  <2>4. ASSUME NEW i \in DOMAIN io', Swapped(io, i)'
        PROVE  /\ io'[i].old # io'[i].new
               /\ IF KeyOf(io, i)' \in act'
                  THEN known'[io'[i].old] # None =>
                          /\ known'[io'[i].old].cached = io'[i].new
                          /\ KeyOf(io, i)' \in DOMAIN pending_swaps' =>
                                io'[i].old \notin pending_swaps'[KeyOf(io, i)']
                  ELSE \/ Dead(known, act, io, io[i].old)'
                       \/ Dead(known, act, io, io[i].new)'
    BY <1>1, <1>3, <1>9, <2>1, <2>2, <2>3, <2>4 DEF Notifications
  <2>5. ASSUME NEW i \in DOMAIN io', NEW j \in DOMAIN io',
               Swapped(io, i)', Swapped(io, j)', io'[i].old = io'[j].old,
               known'[io'[i].old] # None, KeyOf(io, i)' \in act',
               KeyOf(io, j)' \in act'
        PROVE  i = j
    BY <1>1, <1>3, <1>9, <2>2, <2>3, <2>5 DEF Notifications
  <2> QED BY <2>4, <2>5 DEF Notifications
<1>17. Resolving(known, calls)' /\ Switching(known, pending_swaps, act, calls)'
  BY <1>1, <1>3, <1>9 DEF Resolving, Switching, Idle
<1>18. Committing(known, act, io, calls)'
  <2>1. \A i \in DOMAIN calls : calls[i].op = "commit" => calls[i].robot \in Robot
    BY CallFields DEF ControllerInv, WorkTypes
  <2> QED BY <1>1, <1>3, <1>9, <1>11, <2>1 DEF Committing
<1>19. Phases' /\ running' /\ Counted(known)'
  BY <1>3 DEF Ordered, Phases, Idle, Reconfiguring, Moving, Moved, Counted
<1> QED BY <1>12, <1>14, <1>15, <1>16, <1>17, <1>18, <1>19 DEF Ordered, Orderly, act


------------------------------------------------------------------------------
(* The commits.                                                             *)

(* A robot that registered has nothing to be committed.                     *)
LEMMA ResolveOrdered ==
    ASSUME ControllerInv, ControllerInv', Ordered, Resolve
    PROVE  Ordered'
<1> DEFINE p == Head(calls).at
<1>1. /\ UNCHANGED <<pending_swaps, registered, running, client, place, goalVars,
                     pending>>
      /\ UNCHANGED io
      /\ calls # <<>> /\ Head(calls).op = "resolve" /\ calls' = Tail(calls)
      /\ \/ Alive(p) /\ CommitCall(known[p].robot) /\ known' = known
         \/ known' = Stop(known, p) /\ commits' = commits
  BY DEF Resolve, Calling
<1>2. p \in Position
  BY CallingType, CallFields DEF Resolve, ControllerInv
<1>3. Alive(p) => Idle(known[p].robot)
  BY <1>1 DEF Alive, Ordered, Orderly, Resolving
<1> HIDE DEF p
<1>4. commits' = commits
  BY <1>1, <1>3 DEF CommitCall, Uncommitted, Idle
<1>5. SameEntries(known, known')
  BY <1>1, <1>2, StillThere, StoppedEntry DEF ControllerInv, MapTypes
<1>6. Head(calls).op # "switch_second"
  BY <1>1
<1> QED BY <1>1, <1>4, <1>5, <1>6, EntriesStep

LEMMA CommitOrdered ==
    ASSUME ControllerInv, ControllerInv', Ordered, Commit
    PROVE  Ordered'
<1> DEFINE p == Head(calls).at
           act == Active(pending_swaps, calls)
           rest == Tail(calls)
<1>2. p \in Position /\ Head(calls).robot \in Robot
  BY CallingType, CallFields DEF Commit, ControllerInv
<1>6. PICK r \in Robot : r = Head(calls).robot
  BY <1>2
<1>1. /\ UNCHANGED <<pending_swaps, registered, running, client, place, goalVars,
                     pending>>
      /\ UNCHANGED io
      /\ calls # <<>> /\ Head(calls).op = "commit" /\ calls' = rest
      /\ \/ CommitCall(r) /\ known' = known
         \/ known' = Stop(known, p) /\ commits' = commits
  BY <1>6 DEF Commit, Calling
<1>3. Head(calls).op # "switch_second"
  BY <1>1
<1>4. CASE commits' = commits
  <2>1. SameEntries(known, known')
    BY <1>1, <1>2, StillThere, StoppedEntry DEF ControllerInv, MapTypes
  <2> QED BY <1>1, <1>3, <1>4, <2>1, EntriesStep
<1>5. CASE commits' # commits
  <2>1. /\ known' = known /\ Uncommitted(r)
        /\ commits' = [commits EXCEPT ![r] = @ + 1]
    BY <1>1, <1>5 DEF CommitCall
  <2>2. UNCHANGED <<state, target, new_profile>>
    BY <1>1 DEF goalVars
  <2>3. Typed(known, pending_swaps, io, calls) /\ Typed(known, pending_swaps, io, rest)
    BY TypedState, <1>1, <1>2 DEF Typed
  <2>4. Orderly(known, pending_swaps, io, calls)
    BY DEF Ordered
  <2>5. Orderly(known, pending_swaps, io, rest)
    BY <1>1, <1>3, <2>3, <2>4, TailCallsKeeps
  <2>6. /\ commits[r] = 0 /\ ~ Registering(io, r)
        /\ \A o \in Position : known[o] # None /\ Busy(act, o) =>
              known[o].robot # r
        /\ \A j \in DOMAIN calls : j # 1 /\ calls[j].op = "commit" =>
              calls[j].robot # r
    <3>1. 1 \in DOMAIN calls /\ Head(calls) = calls[1]
      BY <1>1 DEF ControllerInv, WorkTypes
    <3> QED BY <1>1, <1>6, <2>4, <3>1 DEF Orderly, Committing
  <2>7. act = DOMAIN pending_swaps
    BY <1>3 DEF Active, SecondCall
  <2>8. /\ rest \in Seq(SwapCall)
        /\ \A i \in DOMAIN rest : i + 1 \in DOMAIN calls /\ i + 1 # 1
                                  /\ rest[i] = calls[i + 1]
    BY <1>1, <2>3 DEF Typed
  <2>9. \A i \in DOMAIN rest : rest[i].op = "commit" =>
           rest[i].robot \in Robot /\ rest[i].robot # r
    BY <2>6, <2>8, CallFields
  <2>10. /\ commits'[r] = 1
         /\ \A s \in Robot \ {r} : commits'[s] = commits[s]
    BY <1>2, <2>1, <2>6 DEF ControllerInv, RobotTypes
  <2>11. Moved(r) /\ Moved(r)'
    <3>1. Idle(r) \/ Reconfiguring(r) \/ Moving(r) \/ Moved(r)
      BY <1>2 DEF Ordered, Phases
    <3>2. Moved(r)
      BY <2>1, <3>1 DEF Uncommitted, Idle, Reconfiguring, Moving
    <3> QED BY <1>1, <2>2, <2>10, <3>2 DEF Moved
  <2>12. \A s \in Robot : (Idle(s) <=> Idle(s)') /\ (Idle(s) => s # r)
    BY <1>1, <2>2, <2>10, <2>11 DEF Idle, Moved
  <2>13. SecondCall(rest) => FALSE
    <3>1. rest # <<>> => 1 \in DOMAIN rest /\ Head(rest) = rest[1]
      BY <2>8
    <3> QED BY <2>8, <3>1, <2>4 DEF Orderly, CallOrder, SecondCall
  <2>14. Active(pending_swaps, rest) = act /\ Active(pending_swaps, calls)' = act
    BY <1>1, <2>7, <2>13 DEF Active, SecondCall
  <2>15. \A s : Registering(io, s)' <=> Registering(io, s)
    BY <1>1 DEF Registering
  <2>16. \A o \in Position : known[o] # None => known[o].robot \in Robot
    BY RobotOfEntry DEF ControllerInv
  <2>17. act \subseteq SwapKey /\ \A k \in SwapKey : Positions(k) \subseteq Position
    BY <2>3, ActiveKeys, KeyPositions
  <2> HIDE DEF act, rest
  <2>18. /\ Registrations(io) /\ Newcomers(known, act, io) /\ OneEntryEach(known)
         /\ Apart(act) /\ Home(known, act) /\ Away(known, act)
         /\ Acked(known, pending_swaps)
         /\ Notifications(known, pending_swaps, act, io) /\ CallOrder(rest)
         /\ Resolving(known, rest) /\ Switching(known, pending_swaps, act, rest)
         /\ Committing(known, act, io, rest)
    BY <2>5, <2>14 DEF Orderly
  <2>19. Registrations(io)' /\ Newcomers(known, act, io)'
    BY <1>1, <2>1, <2>12, <2>14, <2>15, <2>18 DEF Registrations, Newcomers, act
  <2>20. /\ OneEntryEach(known)' /\ Apart(act)' /\ Home(known, act)'
         /\ Acked(known, pending_swaps)'
    BY <1>1, <2>1, <2>2, <2>14, <2>18 DEF OneEntryEach, Apart, Home, AtHome, Acked, act
  <2>21. Away(known, act)'
    <3>1. \A k \in act : \A o \in Positions(k) :
             known[o] # None => known[o].robot \in Robot \ {r}
      BY <2>6, <2>16, <2>17 DEF Busy
    <3> QED BY <1>1, <2>1, <2>2, <2>10, <2>14, <2>18, <3>1 DEF Away, OnItsWay, act
  <2>22. Notifications(known, pending_swaps, act, io)'
    <3>1. \A o : Dead(known, act, io, o)' <=> Dead(known, act, io, o)
      BY <1>1, <2>1, <2>14, <2>15 DEF Dead, act
    <3> QED BY <1>1, <2>1, <2>14, <2>18, <3>1 DEF Notifications, act
  <2>23. CallOrder(calls)' /\ Resolving(known, calls)'
         /\ Switching(known, pending_swaps, act, calls)'
    <3>1. CallOrder(calls)'
      BY <1>1, <2>18 DEF CallOrder
    <3>2. rest # <<>> => Head(rest).op \notin {"resolve", "switch", "switch_second"}
      <4>1. rest # <<>> => 1 \in DOMAIN rest /\ Head(rest) = rest[1]
        BY <2>8
      <4> QED BY <4>1, <2>4, <2>8 DEF Orderly, CallOrder
    <3> QED BY <1>1, <3>1, <3>2 DEF Resolving, Switching
  <2>24. Committing(known, act, io, calls)'
    BY <1>1, <2>1, <2>9, <2>10, <2>14, <2>15, <2>18 DEF Committing, act
  <2>25. Phases'
    BY <1>1, <2>2, <2>10, <2>11, <2>12 DEF Ordered, Phases, Idle, Reconfiguring,
       Moving, Moved
  <2>26. running' /\ Counted(known)'
    BY <1>1, <2>1 DEF Ordered, Counted
  <2> QED BY <2>14, <2>19, <2>20, <2>21, <2>22, <2>23, <2>24, <2>25, <2>26
      DEF Ordered, Orderly, act
<1> QED BY <1>4, <1>5


------------------------------------------------------------------------------
(* A swap begins with its first call and is pending after its second.       *)

LEMMA BeginningKeeps ==
    ASSUME Typed(known, pending_swaps, io, calls), RobotTypes,
           Orderly(known, pending_swaps, io, calls), calls # <<>>,
            Head(calls).op = "switch",
           NEW from \in Position, NEW to \in Position, from # to,
           ~ Busy(DOMAIN pending_swaps, from), ~ Busy(DOMAIN pending_swaps, to),
           known[from] # None, known[to] # None,
           known[from].link = "live", known[to].link = "live",
           Idle(known[from].robot), Idle(known[to].robot),
           NEW c \in SwapCall, c.op = "switch_second", c.from = from, c.to = to,
           NEW cs2, cs2 = <<c>> \o Tail(calls)
    PROVE  /\ Orderly(known, pending_swaps, io, cs2)
           /\ AtHome(known, from) /\ AtHome(known, to)
<1> DEFINE act == DOMAIN pending_swaps
           k == Key(from, to)
           now == act \cup {k}
<1>1. /\ cs2 \in Seq(SwapCall) /\ cs2 # <<>> /\ Head(cs2) = c
      /\ \A i \in DOMAIN cs2 : \/ i = 1 /\ cs2[i] = c
                               \/ i \in DOMAIN calls /\ i # 1 /\ cs2[i] = calls[i]
  <2>1. Tail(calls) \in Seq(SwapCall) /\ <<c>> \in Seq(SwapCall) /\ Len(calls) \in Nat
        /\ Len(calls) # 0
    BY DEF Typed
  <2> QED BY <2>1 DEF Typed
<1>2. Active(pending_swaps, calls) = act /\ Active(pending_swaps, cs2) = now
  <2>1. k \in SwapKey
    BY KeyFacts
  <2> QED BY <1>1, <2>1 DEF Active, SecondCall
<1>3. /\ Registrations(io) /\ Newcomers(known, act, io) /\ OneEntryEach(known)
      /\ Apart(act)
      /\ Home(known, act) /\ Away(known, act) /\ Acked(known, pending_swaps)
      /\ Notifications(known, pending_swaps, act, io) /\ CallOrder(calls)
  BY <1>2 DEF Orderly
<1>4. AtHome(known, from) /\ AtHome(known, to)
  BY <1>3 DEF Home
<1>5. k \in SwapKey /\ Positions(k) = {from, to}
  BY KeyFacts
<1>6. act \subseteq SwapKey /\ \A l \in SwapKey : Positions(l) \subseteq Position
  BY KeyPositions DEF Typed
<1>7. \A i \in DOMAIN io : Swapped(io, i) =>
         io[i].old \in Position /\ io[i].new \in Position
  BY HandlerFields DEF Typed, Swapped
<1>8. k \notin act
  BY <1>5 DEF Busy
<1> HIDE DEF act, k, now
<1>9. \A p : Busy(now, p) <=> Busy(act, p) \/ p \in {from, to}
  BY <1>5 DEF Busy, now
<1>10. Newcomers(known, now, io)
  BY <1>3, <1>9 DEF Newcomers
<1>11. Apart(now)
  BY <1>3, <1>5 DEF Apart, Busy, now, act
<1>12. Home(known, now)
  BY <1>3, <1>9 DEF Home
<1>13. Away(known, now)
  <2>1. ASSUME NEW p \in {from, to} PROVE OnItsWay(known, k, p)
    BY <1>4, <1>5 DEF AtHome, OnItsWay, Idle
  <2> QED BY <1>3, <1>5, <2>1 DEF Away, now
<1>14. Notifications(known, pending_swaps, now, io)
  <2>1. \A p : Dead(known, act, io, p) => Dead(known, now, io, p)
    BY <1>9 DEF Dead
  <2>2. ASSUME NEW i \in DOMAIN io, Swapped(io, i), KeyOf(io, i) = k
        PROVE  FALSE
    <3>1. io[i].old # io[i].new
      BY <2>2, <1>3 DEF Notifications
    <3>2. Positions(KeyOf(io, i)) = {io[i].old, io[i].new}
      BY <3>1, <2>2, <1>7, KeyFacts DEF KeyOf
    <3>3. Dead(known, act, io, io[i].old) \/ Dead(known, act, io, io[i].new)
      BY <2>2, <1>3, <1>8 DEF Notifications
    <3> QED BY <2>2, <3>2, <3>3, <1>5 DEF Dead
  <2> QED BY <1>3, <2>1, <2>2 DEF Notifications, now
<1>15. CallOrder(cs2)
  <2>1. 1 \in DOMAIN calls /\ calls[1].op = "switch"
    BY DEF Typed
  <2> QED BY <1>1, <1>3, <2>1 DEF CallOrder
<1>16. Resolving(known, cs2) /\ Switching(known, pending_swaps, now, cs2)
  BY <1>1, <1>4, <1>8 DEF Resolving, Switching, AtHome, k, act
<1>17. Committing(known, now, io, cs2)
  <2>1. \A i \in DOMAIN cs2 : cs2[i].op # "commit"
    BY <1>1, <1>15 DEF CallOrder
  <2> QED BY <2>1 DEF Committing
<1> QED BY <1>2, <1>3, <1>4, <1>10, <1>11, <1>12, <1>13, <1>14, <1>15, <1>16, <1>17
     DEF Orderly

LEMMA PendingKeeps ==
    ASSUME Typed(known', pending_swaps, io, calls), RobotTypes,
           Orderly(known', pending_swaps, io, calls), calls # <<>>,
            Head(calls).op = "switch_second",
           NEW from \in Position, NEW to \in Position, from # to,
           Head(calls).from = from, Head(calls).to = to,
           NEW acked, acked = {} \/ (acked = {to} /\ known'[to].link = "stopped"),
           DOMAIN pending_swaps' = DOMAIN pending_swaps \cup {Key(from, to)},
           \A k \in DOMAIN pending_swaps' :
              pending_swaps'[k] = IF k = Key(from, to) THEN acked ELSE pending_swaps[k]
    PROVE  Orderly(known', pending_swaps', io, Tail(calls))
<1> DEFINE act == Active(pending_swaps, calls)
           k == Key(from, to)
           t == Tail(calls)
<1>1. /\ t \in Seq(SwapCall) /\ Head(calls) = calls[1] /\ 1 \in DOMAIN calls
      /\ \A i \in DOMAIN t : i + 1 \in DOMAIN calls /\ t[i] = calls[i + 1] /\ i + 1 # 1
      /\ t # <<>> => 1 \in DOMAIN t /\ Head(t) = t[1]
  BY DEF Typed
<1>2. /\ Registrations(io) /\ Newcomers(known', act, io) /\ OneEntryEach(known')
      /\ Apart(act)
      /\ Home(known', act) /\ Away(known', act) /\ Acked(known', pending_swaps)
      /\ Notifications(known', pending_swaps, act, io) /\ CallOrder(calls)
      /\ Switching(known', pending_swaps, act, calls)
  BY DEF Orderly
<1>3. k \in SwapKey /\ Positions(k) = {from, to}
  BY KeyFacts
<1>4. \A i \in DOMAIN t :
         t[i].op \notin {"resolve", "switch", "switch_second", "commit"}
  BY <1>1, <1>2 DEF CallOrder
<1>5. Active(pending_swaps', t) = act
  <2>1. ~ SecondCall(t)
    BY <1>1, <1>4 DEF SecondCall
  <2>2. act = DOMAIN pending_swaps \cup {k}
    BY <1>3 DEF Active, SecondCall
  <2> QED BY <2>1, <2>2 DEF Active
<1>6. known'[to].cached = to /\ k \notin DOMAIN pending_swaps
  BY <1>2 DEF Switching
<1> HIDE DEF act, k, t
<1>7. Acked(known', pending_swaps')
  BY <1>2 DEF Acked, k
<1>8. Notifications(known', pending_swaps', act, io)
  <2>1. \A i \in DOMAIN io : Swapped(io, i) =>
           io[i].old \in Position /\ io[i].new \in Position
    BY HandlerFields DEF Typed, Swapped
  <2>2. ASSUME NEW i \in DOMAIN io, Swapped(io, i), KeyOf(io, i) \in act,
               known'[io[i].old] # None, KeyOf(io, i) \in DOMAIN pending_swaps'
        PROVE  io[i].old \notin pending_swaps'[KeyOf(io, i)]
    <3>1. io[i].old # io[i].new /\ known'[io[i].old].cached = io[i].new
      BY <2>2, <1>2 DEF Notifications
    <3>2. CASE KeyOf(io, i) = k
      BY <3>1, <3>2, <1>6, <2>2 DEF k
    <3>3. CASE KeyOf(io, i) # k
      BY <3>3, <2>2, <1>2 DEF Notifications, k
    <3> QED BY <3>2, <3>3
  <2> QED BY <1>2, <2>2 DEF Notifications
<1>9. /\ CallOrder(t) /\ Resolving(known', t)
      /\ Switching(known', pending_swaps', act, t)
      /\ Committing(known', act, io, t)
  BY <1>1, <1>4 DEF CallOrder, Resolving, Switching, Committing
<1> QED BY <1>2, <1>5, <1>7, <1>8, <1>9 DEF Orderly, t


(* A robot that reads as available is idle, and one that stands elsewhere   *)
(* sets out.                                                                *)
LEMMA AvailableFacts ==
    ASSUME ControllerInv, Phases, NEW p \in Position, Available(p)
    PROVE  /\ known[p] # None /\ known[p].robot \in Robot
           /\ known[p].link = "live" /\ Idle(known[p].robot)
<1>1. known[p] # None /\ known[p].link = "live" /\ state[known[p].robot] = "AVAILABLE"
  BY DEF Available, Alive
<1>2. known[p].robot \in Robot
  BY <1>1, RobotOfEntry DEF ControllerInv
<1> QED BY <1>1, <1>2 DEF Phases, Idle, Reconfiguring, Moving, Moved

LEMMA SettingOut ==
    ASSUME RobotTypes, Phases, NEW r \in Robot, NEW p \in Position,
           Idle(r), place[r] # p, SwitchPosition(r, p),
           UNCHANGED <<pending, commits>>
    PROVE  /\ Phases' /\ target'[r] = p
           /\ \A s \in Robot \ {r} : target'[s] = target[s] /\ (Idle(s) => Idle(s)')
<1>1. /\ state' = [state EXCEPT ![r] = "REARRANGING"]
      /\ target' = [target EXCEPT ![r] = p] /\ new_profile' = new_profile
  BY DEF SwitchPosition, WillSwitch, Idle
<1>2. /\ state'[r] = "REARRANGING" /\ target'[r] = p
      /\ \A s \in Robot \ {r} : state'[s] = state[s] /\ target'[s] = target[s]
  BY <1>1 DEF RobotTypes
<1>3. Moving(r)'
  BY <1>1, <1>2 DEF Idle, Moving
<1>4. \A s \in Robot \ {r} :
         Idle(s)' \/ Reconfiguring(s)' \/ Moving(s)' \/ Moved(s)'
  BY <1>1, <1>2 DEF Phases, Idle, Reconfiguring, Moving, Moved
<1> QED BY <1>1, <1>2, <1>3, <1>4 DEF Phases, Idle

LEMMA SwitchFirstOrdered ==
    ASSUME ControllerInv, ControllerInv', Ordered, SwitchFirst
    PROVE  Ordered'
<1>1. PICK from \in Position, to \in Position :
         from = Head(calls).from /\ to = Head(calls).to
  BY CallingType, CallFields DEF SwitchFirst, ControllerInv
<1>2. /\ calls # <<>> /\ Head(calls).op = "switch"
      /\ ~ Refused(from, to) /\ ~ Unavailable(from) /\ ~ Unavailable(to)
  BY <1>1 DEF SwitchFirst, Calling
<1>3. /\ from # to /\ ~ Busy(DOMAIN pending_swaps, from)
      /\ ~ Busy(DOMAIN pending_swaps, to) /\ known[from] # None
  BY <1>2 DEF Refused, Swapping, Busy
<1>4. known[to] # None
  <2>1. Active(pending_swaps, calls) = DOMAIN pending_swaps
    BY <1>2 DEF Active, SecondCall
  <2> QED BY <1>1, <1>2, <1>3, <2>1 DEF Ordered, Orderly, Switching
<1>5. Available(from) /\ Available(to)
  BY <1>2, <1>3, <1>4 DEF Unavailable
<1>6. /\ known[from].link = "live" /\ known[to].link = "live"
      /\ known[from].robot \in Robot
      /\ Idle(known[from].robot) /\ Idle(known[to].robot)
  BY <1>5, AvailableFacts DEF Ordered
<1>7. PICK r \in Robot : r = known[from].robot
  BY <1>6
<1> DEFINE c == [op |-> "switch_second", from |-> from, to |-> to]
<1>8. c \in SwapCall /\ c.op = "switch_second" /\ c.from = from /\ c.to = to
  BY <1>3 DEF SwapCall, Call
<1>9. /\ SwitchPosition(r, to)
      /\ known' = IF WillSwitch(r, to) THEN Flagged(known, from) ELSE known
      /\ calls' = IF WillSwitch(r, to) THEN <<c>> \o Tail(calls) ELSE Tail(calls)
      /\ running' = (running /\ WillSwitch(r, to))
      /\ UNCHANGED <<pending_swaps, registered, io, place, pending, commits, client>>
  BY <1>1, <1>7 DEF SwitchFirst
<1> HIDE DEF c
<1>10. PICK cs : cs = <<c>> \o Tail(calls)
  OBVIOUS
<1>11. Typed(known, pending_swaps, io, calls) /\ RobotTypes
  BY TypedState DEF ControllerInv
<1>12. /\ Orderly(known, pending_swaps, io, cs)
       /\ AtHome(known, from) /\ AtHome(known, to)
  <2>1. Orderly(known, pending_swaps, io, calls)
    BY DEF Ordered
  <2>2. calls # <<>> /\ Head(calls).op = "switch"
    BY <1>2
  <2>3. /\ Typed(known, pending_swaps, io, calls) /\ RobotTypes
        /\ from # to
        /\ ~ Busy(DOMAIN pending_swaps, from) /\ ~ Busy(DOMAIN pending_swaps, to)
        /\ known[from] # None /\ known[to] # None
        /\ known[from].link = "live" /\ known[to].link = "live"
        /\ Idle(known[from].robot) /\ Idle(known[to].robot)
        /\ c \in SwapCall /\ c.op = "switch_second" /\ c.from = from /\ c.to = to
    BY <1>3, <1>4, <1>6, <1>8, <1>11
  <2> QED BY <2>1, <2>2, <2>3, <1>10, BeginningKeeps, ZenonT(60)
<1>13. place[r] = from /\ WillSwitch(r, to)
  BY <1>3, <1>6, <1>7, <1>12 DEF AtHome, WillSwitch, Idle
<1>14. known' = Flagged(known, from) /\ calls' = cs /\ running'
  BY <1>9, <1>10, <1>13 DEF Ordered
<1>15. SameEntries(known, known')
  BY <1>3, <1>14, FlaggedEntry DEF ControllerInv, MapTypes
<1>16. Orderly(known', pending_swaps', io', calls')
  <2>1. Typed(known, pending_swaps, io, cs) /\ known' \in Remotes
    BY <1>9, <1>11, <1>14 DEF ControllerInv, WorkTypes, MapTypes, Typed
  <2>2. Orderly(known', pending_swaps, io, cs)
    BY <1>11, <1>12, <1>15, <2>1, SameEntriesKeep
  <2> QED BY <1>9, <1>14, <2>2
<1>17. /\ Phases' /\ target'[r] = to
       /\ \A s \in Robot \ {r} : target'[s] = target[s] /\ (Idle(s) => Idle(s)')
  BY <1>3, <1>6, <1>7, <1>9, <1>11, <1>13, SettingOut DEF Ordered
<1>18. /\ calls' # <<>> /\ Head(calls') = c
       /\ known'[to] # None /\ known'[to].robot = known[to].robot
       /\ known'[from] # None /\ known'[from].robot = r
       /\ known'[from].cached = from
  <2>1. calls' # <<>> /\ Head(calls') = c
    BY <1>8, <1>10, <1>11, <1>14 DEF Typed
  <2> QED BY <2>1, <1>3, <1>4, <1>7, <1>12, <1>15 DEF SameEntries, AtHome
<1>19. OneEntryEach(known')
  BY <1>16 DEF Orderly
<1>20. ~ MustBeIdle(known', io', calls', r)
  <2>1. ~ Registering(io', r)
    BY <1>16, <1>18 DEF Orderly, Newcomers
  <2>2. known'[to].robot # r
    BY <1>3, <1>18, <1>19 DEF OneEntryEach
  <2> QED BY <2>1, <2>2, <1>8, <1>18 DEF MustBeIdle
<1>21. \A p \in Position :
          MaySetOut(known', Active(pending_swaps', calls'), r, p)
  <2>1. ASSUME NEW p \in Position, known'[p] # None, known'[p].robot = r
        PROVE  p = from
    BY <2>1, <1>18, <1>19 DEF OneEntryEach
  <2>2. Key(from, to) \in SwapKey /\ Positions(Key(from, to)) = {from, to}
    BY <1>3, KeyFacts
  <2>3. Key(from, to) \in Active(pending_swaps', calls')
    BY <1>8, <1>18, <2>2 DEF Active, SecondCall
  <2> QED BY <2>1, <2>2, <2>3, <1>13, <1>17, <1>18 DEF MaySetOut
<1>22. Orderly(known, pending_swaps, io, calls)'
  <2>1. UNCHANGED <<place, client>>
    BY <1>9
  <2>2. \A s \in Robot : commits[s] = 0 => commits'[s] = 0
    BY <1>9
  <2>3. \A s \in Robot : MustBeIdle(known', io', calls', s) /\ Idle(s) => Idle(s)'
    BY <1>17, <1>20
  <2>4. \A s \in Robot :
           \/ target'[s] = target[s]
           \/ \A p \in Position :
                 MaySetOut(known', Active(pending_swaps', calls'), s, p)
    BY <1>17, <1>21
  <2> QED BY <1>16, <2>1, <2>2, <2>3, <2>4, RobotsFrame
<1>23. Counted(known)'
  BY <1>9, <1>15, SameOccupied DEF Ordered, Counted
<1> QED BY <1>14, <1>17, <1>22, <1>23 DEF Ordered


LEMMA SwitchSecondFacts ==
    ASSUME ControllerInv, Ordered, Calling("switch_second"),
           NEW from \in Position, NEW to \in Position,
           from = Head(calls).from, to = Head(calls).to
    PROVE  /\ from # to /\ known[to] # None /\ known[to].cached = to
           /\ known[to].robot \in Robot
           /\ Key(from, to) \notin DOMAIN pending_swaps
           /\ Key(from, to) \in SwapKey /\ Positions(Key(from, to)) = {from, to}
           /\ Alive(to) => Idle(known[to].robot) /\ place[known[to].robot] = to
           /\ Tail(calls) # <<>> =>
                 Head(Tail(calls)).op \notin {"resolve", "switch", "switch_second"}
<1>1. from # to
  BY CallingType, CallFields DEF ControllerInv
<1>2. /\ known[to] # None /\ known[to].cached = to
      /\ Key(from, to) \notin DOMAIN pending_swaps
      /\ Alive(to) => Idle(known[to].robot) /\ place[known[to].robot] = to
  BY DEF Calling, Ordered, Orderly, Switching, Alive
<1>3. Key(from, to) \in SwapKey /\ Positions(Key(from, to)) = {from, to}
  BY <1>1, KeyFacts
<1>4. ASSUME Tail(calls) # <<>>
      PROVE  Head(Tail(calls)).op \notin {"resolve", "switch", "switch_second"}
  <2>1. 2 \in DOMAIN calls /\ Head(Tail(calls)) = calls[2]
    BY <1>4 DEF ControllerInv, WorkTypes
  <2> QED BY <2>1 DEF Ordered, Orderly, CallOrder
<1>5. known[to].robot \in Robot
  BY <1>2, RobotOfEntry DEF ControllerInv
<1> QED BY <1>1, <1>2, <1>3, <1>4, <1>5

(* Both calls of a swap's second half: the map's entry stays what it was but*)
(* for its flag and link, and its robot sets out or its link is given up.   *)
LEMMA SecondHalfOrdered ==
    ASSUME ControllerInv, ControllerInv', Ordered, Calling("switch_second"),
           NEW from \in Position, NEW to \in Position,
           from = Head(calls).from, to = Head(calls).to,
           SameEntries(known, known'),
           NEW acked, pending_swaps' = AddSwap(from, to, acked),
           acked = {} \/ (acked = {to} /\ known'[to].link = "stopped"),
           \/ UNCHANGED goalVars
           \/ Alive(to) /\ SwitchPosition(known[to].robot, from),
           calls' = Tail(calls), running',
           UNCHANGED <<registered, io, place, pending, commits, client>>
    PROVE  Ordered'
<1>1. /\ from # to /\ known[to] # None /\ known[to].cached = to
      /\ known[to].robot \in Robot
      /\ Key(from, to) \notin DOMAIN pending_swaps
      /\ Key(from, to) \in SwapKey /\ Positions(Key(from, to)) = {from, to}
      /\ Alive(to) => Idle(known[to].robot) /\ place[known[to].robot] = to
      /\ calls' # <<>> =>
            Head(calls').op \notin {"resolve", "switch", "switch_second"}
  BY SwitchSecondFacts
<1>2. PICK r \in Robot : r = known[to].robot
  BY <1>1
<1>3. Typed(known, pending_swaps, io, calls) /\ RobotTypes /\ known' \in Remotes
  BY TypedState DEF ControllerInv, MapTypes
<1>4. Orderly(known', pending_swaps, io, calls)
  BY <1>3, SameEntriesKeep DEF Ordered
<1>5. /\ DOMAIN pending_swaps' = DOMAIN pending_swaps \cup {Key(from, to)}
      /\ \A k \in DOMAIN pending_swaps' :
            pending_swaps'[k] = IF k = Key(from, to) THEN acked
                                ELSE pending_swaps[k]
  BY DEF AddSwap
<1>6. Orderly(known', pending_swaps', io', calls')
  <2>1. Typed(known', pending_swaps, io, calls)
    BY <1>3 DEF Typed
  <2>2. calls # <<>> /\ Head(calls).op = "switch_second"
    BY DEF Calling
  <2>3. Orderly(known', pending_swaps', io, Tail(calls))
    <3>1. acked = {} \/ (acked = {to} /\ known'[to].link = "stopped")
      OBVIOUS
    <3>2. Head(calls).from = from /\ Head(calls).to = to /\ from # to
      BY <1>1
    <3>3. /\ DOMAIN pending_swaps' = DOMAIN pending_swaps \cup {Key(from, to)}
          /\ \A k \in DOMAIN pending_swaps' :
                pending_swaps'[k] = IF k = Key(from, to) THEN acked
                                    ELSE pending_swaps[k]
      BY <1>5
    <3>4. RobotTypes
      BY <1>3
    <3> QED BY <1>4, <2>1, <2>2, <3>1, <3>2, <3>3, <3>4, PendingKeeps
  <2> QED BY <2>3
<1>7. /\ known'[to] # None /\ known'[to].robot = r /\ known'[to].cached = to
      /\ known'[to].link = "live" => Alive(to)
  BY <1>1, <1>2 DEF SameEntries, Alive
<1>8. ~ MustBeIdle(known', io', calls', r)
  <2>1. ~ Registering(io', r)
    BY <1>6, <1>7 DEF Orderly, Newcomers
  <2> QED BY <2>1, <1>1 DEF MustBeIdle
<1>9. CASE UNCHANGED goalVars
  <2>1. /\ \A s \in Robot : Idle(s) => Idle(s)'
        /\ target' = target /\ Phases'
    BY <1>9 DEF goalVars, Idle, Ordered, Phases, Reconfiguring, Moving, Moved
  <2>2. Orderly(known, pending_swaps, io, calls)'
    BY <1>6, <2>1, RobotsFrame
  <2> QED BY <2>1, <2>2, SameOccupied DEF Ordered, Counted
<1>10. CASE Alive(to) /\ SwitchPosition(known[to].robot, from)
  <2>1. /\ Phases' /\ target'[r] = from
        /\ \A s \in Robot \ {r} : target'[s] = target[s] /\ (Idle(s) => Idle(s)')
    BY <1>1, <1>2, <1>3, <1>10, SettingOut, SMTT(60) DEF Ordered
  <2>2. \A p \in Position :
           MaySetOut(known', Active(pending_swaps', calls'), r, p)
    <3>1. ASSUME NEW p \in Position, known'[p] # None, known'[p].robot = r
          PROVE  p = to
      BY <3>1, <1>6, <1>7 DEF Orderly, OneEntryEach
    <3>2. Key(from, to) \in Active(pending_swaps', calls')
      BY <1>5 DEF Active
    <3> QED BY <1>1, <1>2, <1>7, <1>10, <2>1, <3>1, <3>2 DEF MaySetOut
  <2>3. \A s \in Robot : MustBeIdle(known', io', calls', s) /\ Idle(s) => Idle(s)'
    BY <1>8, <2>1
  <2>4. \A s \in Robot :
           \/ target'[s] = target[s]
           \/ \A p \in Position :
                 MaySetOut(known', Active(pending_swaps', calls'), s, p)
    BY <2>1, <2>2
  <2>5. Orderly(known, pending_swaps, io, calls)'
    BY <1>6, <2>3, <2>4, RobotsFrame
  <2> QED BY <2>1, <2>5, SameOccupied DEF Ordered, Counted
<1> QED BY <1>9, <1>10

LEMMA SwitchSecondOrdered ==
    ASSUME ControllerInv, ControllerInv', Ordered, SwitchSecond
    PROVE  Ordered'
<1>1. PICK from \in Position, to \in Position :
         from = Head(calls).from /\ to = Head(calls).to
  BY CallingType, CallFields DEF SwitchSecond, ControllerInv
<1>2. Calling("switch_second")
  BY DEF SwitchSecond
<1>3. /\ from # to /\ known[to] # None
      /\ Alive(to) => Idle(known[to].robot) /\ place[known[to].robot] = to
  BY <1>1, <1>2, SwitchSecondFacts
<1>4. /\ Alive(to) /\ SwitchPosition(known[to].robot, from)
      /\ known' = IF WillSwitch(known[to].robot, from) THEN Flagged(known, to)
                  ELSE known
      /\ pending_swaps' = IF WillSwitch(known[to].robot, from)
                          THEN AddSwap(from, to, {}) ELSE pending_swaps
      /\ running' = (running /\ WillSwitch(known[to].robot, from))
      /\ calls' = Tail(calls)
      /\ UNCHANGED <<registered, io, place, pending, commits, client>>
  BY <1>1, <1>3 DEF SwitchSecond
<1>5. WillSwitch(known[to].robot, from)
  BY <1>3, <1>4 DEF WillSwitch, Idle
<1>6. SameEntries(known, known')
  BY <1>3, <1>4, <1>5, FlaggedEntry DEF ControllerInv, MapTypes
<1>7. running' /\ pending_swaps' = AddSwap(from, to, {})
  BY <1>4, <1>5 DEF Ordered
<1> QED BY <1>1, <1>2, <1>4, <1>6, <1>7, SecondHalfOrdered

LEMMA SwitchSecondFailsOrdered ==
    ASSUME ControllerInv, ControllerInv', Ordered, SwitchSecondFails
    PROVE  Ordered'
<1>1. PICK from \in Position, to \in Position :
         from = Head(calls).from /\ to = Head(calls).to
  BY CallingType, CallFields DEF SwitchSecondFails, ControllerInv
<1>2. Calling("switch_second")
  BY DEF SwitchSecondFails
<1>3. /\ known' = Flagged(Stop(known, to), to) /\ known[to] # None
      /\ pending_swaps' = AddSwap(from, to, {to})
      /\ \/ UNCHANGED goalVars
         \/ Alive(to) /\ SwitchPosition(known[to].robot, from)
      /\ calls' = Tail(calls) /\ running' = running
      /\ UNCHANGED <<registered, io, place, pending, commits, client>>
  BY <1>1 DEF SwitchSecondFails
<1> DEFINE m == Stop(known, to)
<1>4. SameEntries(known, m) /\ m \in Remotes /\ m[to] # None
  <2>1. known \in Remotes
    BY DEF ControllerInv, MapTypes
  <2>2. SameEntries(known, m) /\ m \in Remotes
    BY <2>1, StoppedEntry, StopFacts
  <2> QED BY <2>2, <1>3 DEF SameEntries
<1>5. m[to].link = "stopped"
  <2>1. known[to] \in RemoteType /\ known \in Remotes
    BY <1>3, RobotOfEntry DEF ControllerInv, MapTypes
  <2> QED BY <1>3, <2>1 DEF Stop, Remotes, RemoteType
<1> HIDE DEF m
<1>6. known' = Flagged(m, to)
  BY <1>3 DEF m
<1>7. SameEntries(m, known')
  BY <1>4, <1>6, FlaggedEntry
<1>8. SameEntries(known, known') /\ known'[to].link = "stopped"
  BY <1>4, <1>5, <1>7 DEF SameEntries
<1>9. running'
  BY <1>3 DEF Ordered
<1> QED BY <1>1, <1>2, <1>3, <1>8, <1>9, SecondHalfOrdered


LEMMA SwitchFirstFailsOrdered ==
    ASSUME ControllerInv, ControllerInv', Ordered, SwitchFirstFails
    PROVE  Ordered'
<1>1. PICK from \in Position, to \in Position :
         from = Head(calls).from /\ to = Head(calls).to
  BY CallingType, CallFields DEF SwitchFirstFails, ControllerInv
<1>2. /\ calls # <<>> /\ Head(calls).op = "switch"
      /\ ~ Refused(from, to) /\ ~ Unavailable(from)
  BY <1>1 DEF SwitchFirstFails, Calling
<1>3. /\ from # to /\ known[from] # None
      /\ ~ Busy(Active(pending_swaps, calls), from)
  BY <1>2 DEF Refused, Swapping, Busy, Active, SecondCall
<1>4. /\ known[from].link = "live" /\ known[from].robot \in Robot
      /\ Idle(known[from].robot)
  BY <1>2, <1>3, AvailableFacts DEF Unavailable, Ordered
<1>5. place[known[from].robot] = from
  BY <1>3, <1>4 DEF Ordered, Orderly, Home, AtHome
<1>6. PICK r \in Robot : r = known[from].robot
  BY <1>4
<1>7. /\ SwitchPosition(r, to) /\ known' = Stop(known, from)
      /\ calls' = Tail(calls)
      /\ UNCHANGED <<pending_swaps, registered, running, io, place, pending,
                     commits, client>>
  BY <1>1, <1>6 DEF SwitchFirstFails
<1>8. Typed(known, pending_swaps, io, calls) /\ RobotTypes /\ known' \in Remotes
  BY TypedState DEF ControllerInv, MapTypes
<1>9. SameEntries(known, known') /\ known'[from].link = "stopped"
  <2>1. known[from] \in RemoteType /\ known \in Remotes
    BY <1>3, RobotOfEntry DEF ControllerInv, MapTypes
  <2>2. SameEntries(known, known')
    BY <1>7, <2>1, StoppedEntry
  <2> QED BY <1>3, <1>7, <2>1, <2>2 DEF Stop, Remotes, RemoteType
<1>10. Orderly(known', pending_swaps', io', calls')
  <2>1. Orderly(known', pending_swaps, io, calls)
    BY <1>8, <1>9, SameEntriesKeep DEF Ordered
  <2>2. Typed(known', pending_swaps, io, calls)
    BY <1>8 DEF Typed
  <2>3. calls # <<>> /\ Head(calls).op # "switch_second"
    BY <1>2
  <2>4. Orderly(known', pending_swaps, io, Tail(calls))
    BY <2>1, <2>2, <2>3, TailCallsKeeps
  <2> QED BY <1>7, <2>4
<1>11. /\ Phases' /\ target'[r] = to
       /\ \A s \in Robot \ {r} : target'[s] = target[s] /\ (Idle(s) => Idle(s)')
  BY <1>3, <1>4, <1>5, <1>6, <1>7, <1>8, SettingOut DEF Ordered
<1>12. known'[from] # None /\ known'[from].robot = r
  BY <1>3, <1>6, <1>9 DEF SameEntries
<1>13. ~ MustBeIdle(known', io', calls', r)
  <2>1. ~ Registering(io', r)
    BY <1>10, <1>12 DEF Orderly, Newcomers
  <2>2. calls' # <<>> =>
           Head(calls').op \notin {"resolve", "switch_second"}
    <3>1. Tail(calls) # <<>> => 2 \in DOMAIN calls /\ Head(Tail(calls)) = calls[2]
      BY <1>8 DEF Typed
    <3> QED BY <1>7, <3>1 DEF Ordered, Orderly, CallOrder
  <2> QED BY <2>1, <2>2 DEF MustBeIdle
<1>14. \A s \in Robot : MustBeIdle(known', io', calls', s) /\ Idle(s) => Idle(s)'
  BY <1>11, <1>13
<1>15. \A p \in Position :
          MaySetOut(known', Active(pending_swaps', calls'), r, p)
  BY <1>9, <1>10, <1>12 DEF Orderly, OneEntryEach, MaySetOut
<1>16. \A s \in Robot :
          \/ target'[s] = target[s]
          \/ \A p \in Position :
                MaySetOut(known', Active(pending_swaps', calls'), s, p)
  BY <1>11, <1>15
<1>17. Orderly(known, pending_swaps, io, calls)'
  BY <1>7, <1>10, <1>14, <1>16, RobotsFrame
<1> QED BY <1>7, <1>9, <1>11, <1>17, SameOccupied DEF Ordered, Counted

LEMMA ReconfigureCallOrdered ==
    ASSUME ControllerInv, ControllerInv', Ordered, ReconfigureCall
    PROVE  Ordered'
<1>1. PICK p \in Position, f \in Profile :
         p = Head(calls).at /\ f = Head(calls).profile
  BY CallingType, CallFields DEF ReconfigureCall, ControllerInv
<1>2. /\ calls # <<>> /\ Head(calls).op = "reconfigure"
      /\ known[p] # None /\ Available(p)
  BY <1>1 DEF ReconfigureCall, Calling
<1>3. known[p].robot \in Robot /\ Idle(known[p].robot)
  BY <1>2, AvailableFacts DEF Ordered
<1>4. PICK r \in Robot : r = known[p].robot
  BY <1>3
<1>5. /\ ReconfigureTo(r, f)
      /\ known' \in {known, Flagged(known, p), Stop(known, p)}
      /\ calls' = Tail(calls)
      /\ UNCHANGED <<pending_swaps, registered, running, io, place, pending,
                     commits, client>>
  BY <1>1, <1>4 DEF ReconfigureCall
<1>6. Typed(known, pending_swaps, io, calls) /\ RobotTypes /\ known' \in Remotes
  BY TypedState DEF ControllerInv, MapTypes
<1>7. SameEntries(known, known')
  BY <1>2, <1>5, StillThere, FlaggedEntry, StoppedEntry DEF ControllerInv, MapTypes
<1>8. Orderly(known', pending_swaps', io', calls')
  <2>1. Orderly(known', pending_swaps, io, calls)
    BY <1>6, <1>7, SameEntriesKeep DEF Ordered
  <2>2. Typed(known', pending_swaps, io, calls)
    BY <1>6 DEF Typed
  <2>3. calls # <<>> /\ Head(calls).op # "switch_second"
    BY <1>2
  <2>4. Orderly(known', pending_swaps, io, Tail(calls))
    BY <2>1, <2>2, <2>3, TailCallsKeeps
  <2> QED BY <1>5, <2>4
<1>9. /\ target' = target
      /\ \A s \in Robot \ {r} : state'[s] = state[s] /\ new_profile'[s] = new_profile[s]
      /\ \/ state'[r] = state[r] /\ new_profile'[r] = new_profile[r]
         \/ state'[r] = "RECONFIGURING"
  BY <1>5, <1>6 DEF ReconfigureTo, RobotTypes
<1>10. Phases' /\ \A s \in Robot \ {r} : Idle(s) => Idle(s)'
  <2>1. Reconfiguring(r)' \/ Idle(r)'
    BY <1>3, <1>4, <1>5, <1>9 DEF Idle, Reconfiguring
  <2> QED BY <1>5, <1>9, <2>1 DEF Ordered, Phases, Idle, Reconfiguring, Moving, Moved
<1>11. ~ MustBeIdle(known', io', calls', r)
  <2>1. ~ Registering(io', r)
    BY <1>2, <1>4, <1>7, <1>8 DEF SameEntries, Orderly, Newcomers
  <2>2. calls' # <<>> =>
           Head(calls').op \notin {"resolve", "switch_second"}
    <3>1. Tail(calls) # <<>> => 2 \in DOMAIN calls /\ Head(Tail(calls)) = calls[2]
      BY <1>6 DEF Typed
    <3> QED BY <1>5, <3>1 DEF Ordered, Orderly, CallOrder
  <2> QED BY <2>1, <2>2 DEF MustBeIdle
<1>12. Orderly(known, pending_swaps, io, calls)'
  <2>1. \A s \in Robot : MustBeIdle(known', io', calls', s) /\ Idle(s) => Idle(s)'
    BY <1>10, <1>11
  <2> QED BY <1>5, <1>8, <1>9, <2>1, RobotsFrame
<1> QED BY <1>5, <1>7, <1>10, <1>12, SameOccupied DEF Ordered, Counted

------------------------------------------------------------------------------
(* What the handlers begin with, and the handlers.                          *)

LEMMA RemovedEntries ==
    ASSUME ControllerInv
    PROVE  /\ \A p \in Position : remove_stopped_robots[p] # None =>
                 /\ remove_stopped_robots[p] = known[p]
                 /\ known[p].link # "stopped" /\ p \notin Gone
           /\ \A p \in Position : known[p] = None => remove_stopped_robots[p] = None
           /\ \A p \in Gone : p \in Position /\ remove_stopped_robots[p] = None
           /\ remove_stopped_robots \in Remotes
  BY RemovalFacts DEF remove_stopped_robots, Gone, ControllerInv

LEMMA RemovalKeeps ==
    ASSUME ControllerInv, Orderly(known, pending_swaps, io, <<>>)
    PROVE  Orderly(remove_stopped_robots, AckedByRemoval, io, <<>>)
<1> DEFINE m == remove_stopped_robots
           act == DOMAIN pending_swaps
           ps == AckedByRemoval
<1>1. /\ \A p \in Position : m[p] # None =>
            m[p] = known[p] /\ known[p].link # "stopped" /\ p \notin Gone
      /\ \A p \in Position : known[p] = None => m[p] = None
      /\ \A p \in Gone : p \in Position /\ m[p] = None
  BY RemovedEntries
<1>2. /\ act \subseteq SwapKey
      /\ \A k \in SwapKey : Positions(k) \subseteq Position
      /\ \A k \in act : pending_swaps[k] \subseteq Positions(k)
      /\ \A r \in Robot : place[r] \in Position
  BY KeyPositions DEF ControllerInv, MapTypes, RobotTypes
<1>3. /\ DOMAIN ps = act
      /\ \A k \in act : ps[k] = pending_swaps[k] \cup (Gone \cap Positions(k))
  BY DEF AckedByRemoval
<1>4. /\ Active(pending_swaps, <<>>) = act /\ Active(ps, <<>>) = act
  BY <1>3 DEF Active, SecondCall
<1>5. \A i \in DOMAIN io : Swapped(io, i) =>
         io[i].old \in Position /\ io[i].new \in Position
  BY HandlerFields DEF ControllerInv, WorkTypes, Swapped
<1> HIDE DEF m, act, ps
<1>6. /\ Registrations(io) /\ Newcomers(known, act, io) /\ OneEntryEach(known)
      /\ Apart(act) /\ Home(known, act) /\ Away(known, act)
      /\ Acked(known, pending_swaps)
      /\ Notifications(known, pending_swaps, act, io)
  BY <1>4 DEF Orderly
<1>7. Newcomers(m, act, io)
  BY <1>1, <1>2, <1>6 DEF Newcomers
<1>8. OneEntryEach(m)
  BY <1>1, <1>6 DEF OneEntryEach
<1>9. Home(m, act)
  BY <1>1, <1>6 DEF Home, AtHome
<1>10. Away(m, act)
  BY <1>1, <1>2, <1>6 DEF Away, OnItsWay
<1>11. Acked(m, ps)
  <2>1. ASSUME NEW k \in act, NEW p \in ps[k], m[p] # None
        PROVE  m[p].link = "stopped" \/ m[p].cached # p
    <3>1. p \in pending_swaps[k] /\ p \in Position
      BY <2>1, <1>1, <1>2, <1>3
    <3> QED BY <2>1, <3>1, <1>1, <1>6 DEF Acked, act
  <2> QED BY <2>1, <1>3 DEF Acked
<1>12. Notifications(m, ps, act, io)
  <2>1. \A p \in Position : Dead(known, act, io, p) => Dead(m, act, io, p)
    BY <1>1 DEF Dead
  <2>2. ASSUME NEW i \in DOMAIN io, Swapped(io, i)
        PROVE  /\ io[i].old # io[i].new
               /\ IF KeyOf(io, i) \in act
                  THEN m[io[i].old] # None =>
                          /\ m[io[i].old].cached = io[i].new
                          /\ KeyOf(io, i) \in DOMAIN ps =>
                                io[i].old \notin ps[KeyOf(io, i)]
                  ELSE Dead(m, act, io, io[i].old) \/ Dead(m, act, io, io[i].new)
    <3>1. io[i].old \in Position /\ io[i].new \in Position
      BY <2>2, <1>5
    <3>2. /\ io[i].old # io[i].new
          /\ IF KeyOf(io, i) \in act
             THEN known[io[i].old] # None =>
                     /\ known[io[i].old].cached = io[i].new
                     /\ KeyOf(io, i) \in DOMAIN pending_swaps =>
                           io[i].old \notin pending_swaps[KeyOf(io, i)]
             ELSE Dead(known, act, io, io[i].old)
                    \/ Dead(known, act, io, io[i].new)
      BY <2>2, <1>6 DEF Notifications
    <3>3. CASE KeyOf(io, i) \in act
      BY <3>1, <3>2, <3>3, <1>1, <1>3 DEF act
    <3>4. CASE KeyOf(io, i) \notin act
      BY <3>1, <3>2, <3>4, <2>1
    <3> QED BY <3>3, <3>4
  <2>3. ASSUME NEW i \in DOMAIN io, NEW j \in DOMAIN io,
               Swapped(io, i), Swapped(io, j), io[i].old = io[j].old,
               m[io[i].old] # None, KeyOf(io, i) \in act, KeyOf(io, j) \in act
        PROVE  i = j
    <3>1. known[io[i].old] # None
      BY <2>3, <1>1, <1>5
    <3> QED BY <2>3, <3>1, <1>6 DEF Notifications
  <2> QED BY <2>2, <2>3 DEF Notifications
<1>13. /\ CallOrder(<<>>) /\ Resolving(m, <<>>) /\ Switching(m, ps, act, <<>>)
       /\ Committing(m, act, io, <<>>)
  BY DEF CallOrder, Resolving, Switching, Committing
<1> QED BY <1>4, <1>6, <1>7, <1>8, <1>9, <1>10, <1>11, <1>12, <1>13
     DEF Orderly, m, ps

(* The state a handler finds after the removal, with and without itself at  *)
(* the head of the queue.                                                   *)
LEMMA TidyFacts ==
    ASSUME ControllerInv, Ordered, io # <<>>, calls = <<>>
    PROVE  /\ Orderly(remove_stopped_robots, AckedByRemoval, Tail(io), <<>>)
           /\ Orderly(remove_stopped_robots, Swaps, io, <<>>)
           /\ Orderly(remove_stopped_robots, Swaps, Tail(io), <<>>)
           /\ Typed(remove_stopped_robots, AckedByRemoval, Tail(io), <<>>)
           /\ Typed(remove_stopped_robots, Swaps, io, <<>>)
           /\ Typed(remove_stopped_robots, Swaps, Tail(io), <<>>)
           /\ Active(Swaps, <<>>) = Fresh /\ DOMAIN Swaps = Fresh
           /\ StillRegistered = Cardinality(Occupied(remove_stopped_robots))
<1> DEFINE m == remove_stopped_robots
<1>1. Orderly(m, AckedByRemoval, io, <<>>)
  BY RemovalKeeps DEF Ordered
<1>2. /\ m \in Remotes /\ DOMAIN AckedByRemoval \subseteq SwapKey
      /\ \A k \in DOMAIN AckedByRemoval : AckedByRemoval[k] \subseteq Positions(k)
      /\ Fresh \subseteq DOMAIN AckedByRemoval /\ DOMAIN Swaps = Fresh
      /\ \A k \in Fresh : Swaps[k] = AckedByRemoval[k]
  BY RemovedEntries, SwapFacts DEF ControllerInv
<1>3. io \in Seq(Handler) /\ Tail(io) \in Seq(Handler) /\ <<>> \in Seq(SwapCall)
  BY DEF ControllerInv, WorkTypes
<1>4. /\ Typed(m, AckedByRemoval, io, <<>>)
      /\ Typed(m, AckedByRemoval, Tail(io), <<>>)
      /\ Typed(m, Swaps, io, <<>>) /\ Typed(m, Swaps, Tail(io), <<>>)
  BY <1>2, <1>3 DEF Typed
<1>5. \A k \in DOMAIN AckedByRemoval \ Fresh : \A p \in Positions(k) : m[p] = None
  BY DEF Fresh, AckedByRemoval
<1>6. Orderly(m, Swaps, io, <<>>)
  BY <1>1, <1>2, <1>4, <1>5, ForgettingKeeps DEF Swaps, ControllerInv
<1>7. /\ Orderly(m, AckedByRemoval, Tail(io), <<>>)
      /\ Orderly(m, Swaps, Tail(io), <<>>)
  BY <1>1, <1>4, <1>6, TailQueueKeeps
<1>8. Active(Swaps, <<>>) = Fresh
  BY <1>2 DEF Active, SecondCall
<1>9. StillRegistered = Cardinality(Occupied(m))
  <2>1. Occupied(m) = Occupied(known) \ Gone
    BY DEF Occupied, remove_stopped_robots, Gone
  <2>2. Gone \in SUBSET Occupied(known) /\ Occupied(known) \cap Gone = Gone
    BY DEF Gone, Occupied
  <2>3. IsFiniteSet(Occupied(known)) /\ IsFiniteSet(Gone)
    BY <2>2, OccupiedFinite, FS_Subset
  <2>4. Cardinality(Occupied(known) \ Gone)
          = Cardinality(Occupied(known)) - Cardinality(Occupied(known) \cap Gone)
    BY <2>3, FS_Difference
  <2> QED BY <2>1, <2>2, <2>4 DEF StillRegistered, Ordered, Counted
<1> QED BY <1>2, <1>4, <1>6, <1>7, <1>8, <1>9

LEMMA HandlerOrdered ==
    ASSUME ControllerInv', Ordered, UNCHANGED <<robotVars, running, client>>,
           Orderly(known', pending_swaps', io', calls'),
           registered' = Cardinality(Occupied(known'))
    PROVE  Ordered'
<1>1. UNCHANGED <<running, client, place, target, state, new_profile, pending,
                  commits>>
  BY DEF robotVars, goalVars
<1>2. \A r : Idle(r) => Idle(r)'
  BY <1>1 DEF Idle
<1>3. Orderly(known, pending_swaps, io, calls)'
  <2>1. \A r \in Robot : commits[r] = 0 => commits'[r] = 0
    BY <1>1
  <2> QED BY <1>1, <1>2, <2>1, RobotsFrame
<1>4. Phases'
  BY <1>1 DEF Ordered, Phases, Idle, Reconfiguring, Moving, Moved
<1>5. Counted(known)'
  BY DEF Counted, Occupied
<1> QED BY <1>1, <1>3, <1>4, <1>5 DEF Ordered

LEMMA CapabilitiesReconfiguredOrdered ==
    ASSUME ControllerInv, ControllerInv', Ordered, HandleCapabilitiesReconfigured
    PROVE  Ordered'
<1> DEFINE p == Head(io).at
           m == remove_stopped_robots
<1>1. /\ io # <<>> /\ calls = <<>> /\ io' = Tail(io) /\ calls' = <<>>
      /\ p \in Position
  BY TakeType, HandlerFields
     DEF HandleCapabilitiesReconfigured, Take, ControllerInv
<1>2. /\ pending_swaps' = AckedByRemoval /\ registered' = StillRegistered
      /\ UNCHANGED <<robotVars, running, client>>
      /\ known' = IF m[p] = None THEN m ELSE [m EXCEPT ![p] = Settled(m[p])]
  BY DEF HandleCapabilitiesReconfigured
<1>3. /\ Orderly(m, AckedByRemoval, Tail(io), <<>>)
      /\ Typed(m, AckedByRemoval, Tail(io), <<>>)
      /\ StillRegistered = Cardinality(Occupied(m)) /\ m \in Remotes
  BY <1>1, TidyFacts, RemovedEntries
<1> HIDE DEF p, m
<1>4. SameEntries(m, known')
  <2>1. CASE m[p] = None
    BY <2>1, <1>2 DEF SameEntries
  <2>2. CASE m[p] # None
    <3> DEFINE e == Settled(m[p])
    <3>1. /\ e \in RemoteType /\ e.robot = m[p].robot /\ e.cached = m[p].cached
          /\ e.link = m[p].link
      BY <2>2, <1>1, <1>3, EntryFields, SettledFacts
    <3>2. known'[p] = e /\ \A o \in Position \ {p} : known'[o] = m[o]
      BY <2>2, <1>1, <1>2, <1>3 DEF Remotes
    <3> HIDE DEF e
    <3> QED BY <2>2, <3>1, <3>2, <1>1, <1>3, UpdatedEntry
  <2> QED BY <2>1, <2>2
<1>5. Orderly(known', AckedByRemoval, Tail(io), <<>>)
  <2>1. known' \in Remotes /\ RobotTypes
    BY DEF ControllerInv, MapTypes
  <2> QED BY <1>3, <1>4, <2>1, SameEntriesKeep
<1>6. Orderly(known', pending_swaps', io', calls')
  BY <1>1, <1>2, <1>5
<1>7. registered' = Cardinality(Occupied(known'))
  BY <1>2, <1>3, <1>4, SameOccupied
<1> QED BY <1>2, <1>6, <1>7, HandlerOrdered

(* A new entry for the robot whose registration is handled.                 *)
LEMMA EnteringKeeps ==
    ASSUME NEW m, NEW ps, NEW q, Typed(m, ps, q, <<>>), RobotTypes,
           Orderly(m, ps, q, <<>>), q # <<>>, Head(q).op = "register",
           NEW r \in Robot, r = Head(q).robot, NEW p \in Position, p = place[r],
           NEW e, e # None, e.robot = r, e.cached = p,
           NEW n, n[p] = e, \A o \in Position \ {p} : n[o] = m[o],
           NEW c, c.op = "resolve", c.at = p
    PROVE  Orderly(n, ps, Tail(q), <<c>>)
<1> DEFINE act == DOMAIN ps
           t == Tail(q)
           cs == <<c>>
<1>1. /\ act \subseteq SwapKey
      /\ \A k \in SwapKey : Positions(k) \subseteq Position
      /\ \A k \in act : ps[k] \subseteq Positions(k)
      /\ \A s \in Robot : place[s] \in Position
  BY KeyPositions DEF Typed, RobotTypes
<1>2. /\ 1 \in DOMAIN q /\ q[1] = Head(q)
      /\ \A i \in DOMAIN t : i + 1 \in DOMAIN q /\ t[i] = q[i + 1] /\ i + 1 # 1
      /\ \A i, j \in DOMAIN t : i + 1 = j + 1 => i = j
  BY DEF Typed
<1>3. Active(ps, <<>>) = act /\ Active(ps, cs) = act
  <2>1. ~ SecondCall(<<>>) /\ ~ SecondCall(cs)
    BY DEF SecondCall
  <2> HIDE DEF cs
  <2> QED BY <2>1 DEF Active
<1>4. \A i \in DOMAIN q : Swapped(q, i) =>
         /\ q[i].old \in Position /\ q[i].new \in Position
         /\ q[i].old # q[i].new => q[i].old \in Positions(KeyOf(q, i))
  BY HandlerFields, KeyFacts DEF Typed, Swapped, KeyOf
<1>5. cs # <<>> /\ Head(cs) = c /\ DOMAIN cs = {1} /\ cs[1] = c
  OBVIOUS
<1> HIDE DEF act, t, cs
<1>6. /\ Registrations(q) /\ Newcomers(m, act, q) /\ OneEntryEach(m)
      /\ Apart(act) /\ Home(m, act) /\ Away(m, act) /\ Acked(m, ps)
      /\ Notifications(m, ps, act, q)
  BY <1>3 DEF Orderly
<1>7. Registering(q, r) /\ client[r] = "live"
  BY <1>2, <1>6 DEF Registering, Registrations
<1>8. /\ Idle(r) /\ m[p] = None /\ ~ Busy(act, p)
      /\ \A o \in Position : m[o] # None => m[o].robot # r
      /\ \A s \in Robot : Registering(q, s) /\ place[s] = p => s = r
  BY <1>6, <1>7 DEF Newcomers
<1>9. \A s \in Robot : Registering(t, s) => Registering(q, s) /\ s # r
  <2>1. \A s \in Robot : Registering(t, s) => Registering(q, s)
    BY <1>2 DEF Registering
  <2>2. ~ Registering(t, r)
    BY <1>2, <1>6, <1>7 DEF Registering, Registrations
  <2> QED BY <2>1, <2>2
<1>10. Registrations(t)
  <2>1. /\ \A s \in Robot : client[s] # "stale"
        /\ \A i \in DOMAIN t : t[i].op = "register" =>
              t[i].position = place[t[i].robot] /\ client[t[i].robot] = "live"
    BY <1>2, <1>6 DEF Registrations
  <2>2. ASSUME NEW i \in DOMAIN t, NEW j \in DOMAIN t, t[i].op = "register",
               t[j].op = "register", t[i].robot = t[j].robot
        PROVE  i = j
    <3>1. i + 1 = j + 1
      BY <2>2, <1>2, <1>6 DEF Registrations
    <3> QED BY <3>1, <1>2
  <2> QED BY <2>1, <2>2 DEF Registrations
<1>11. Newcomers(n, act, t)
  <2>1. ASSUME NEW s \in Robot, Registering(t, s)
        PROVE  /\ Idle(s) /\ n[place[s]] = None /\ ~ Busy(act, place[s])
               /\ \A o \in Position : n[o] # None => n[o].robot # s
               /\ \A u \in Robot : Registering(t, u) /\ place[u] = place[s] => u = s
    <3>1. Registering(q, s) /\ s # r /\ place[s] # p /\ place[s] \in Position
      BY <2>1, <1>1, <1>8, <1>9
    <3>2. /\ Idle(s) /\ m[place[s]] = None /\ ~ Busy(act, place[s])
          /\ \A o \in Position : m[o] # None => m[o].robot # s
          /\ \A u \in Robot : Registering(q, u) /\ place[u] = place[s] => u = s
      BY <3>1, <1>6 DEF Newcomers
    <3> QED BY <3>1, <3>2, <1>9
  <2> QED BY <2>1 DEF Newcomers
<1>12. OneEntryEach(n)
  BY <1>6, <1>8 DEF OneEntryEach
<1>13. Home(n, act)
  <2>1. target[r] = None
    BY <1>8 DEF Idle
  <2> QED BY <2>1, <1>6 DEF Home, AtHome
<1>14. Away(n, act) /\ Acked(n, ps)
  <2>1. \A k \in act : p \notin Positions(k)
    BY <1>8 DEF Busy
  <2>2. Away(n, act)
    BY <2>1, <1>1, <1>6 DEF Away, OnItsWay
  <2>3. Acked(n, ps)
    BY <2>1, <1>1, <1>6 DEF Acked, act
  <2> QED BY <2>2, <2>3
<1>15. Notifications(n, ps, act, t)
  <2>1. \A o \in Position : Dead(m, act, q, o) => Dead(n, act, t, o)
    BY <1>7, <1>9 DEF Dead
  <2>2. \A i \in DOMAIN q : Swapped(q, i) /\ KeyOf(q, i) \in act =>
           n[q[i].old] = m[q[i].old]
    BY <1>4, <1>6, <1>8 DEF Notifications, Busy
  <2>3. \A i \in DOMAIN t :
           (Swapped(t, i) => Swapped(q, i + 1)) /\ KeyOf(t, i) = KeyOf(q, i + 1)
    BY <1>2 DEF Swapped, KeyOf
  <2>4. ASSUME NEW i \in DOMAIN t, Swapped(t, i)
        PROVE  /\ t[i].old # t[i].new
               /\ IF KeyOf(t, i) \in act
                  THEN n[t[i].old] # None =>
                          /\ n[t[i].old].cached = t[i].new
                          /\ KeyOf(t, i) \in DOMAIN ps =>
                                t[i].old \notin ps[KeyOf(t, i)]
                  ELSE Dead(n, act, t, t[i].old) \/ Dead(n, act, t, t[i].new)
    <3> DEFINE j == i + 1
    <3>1. j \in DOMAIN q /\ t[i] = q[j] /\ Swapped(q, j) /\ KeyOf(t, i) = KeyOf(q, j)
      BY <2>3, <2>4, <1>2
    <3> HIDE DEF j
    <3>2. /\ q[j].old # q[j].new
          /\ IF KeyOf(q, j) \in act
             THEN m[q[j].old] # None =>
                     /\ m[q[j].old].cached = q[j].new
                     /\ KeyOf(q, j) \in DOMAIN ps => q[j].old \notin ps[KeyOf(q, j)]
             ELSE Dead(m, act, q, q[j].old) \/ Dead(m, act, q, q[j].new)
      BY <3>1, <1>6 DEF Notifications
    <3>3. q[j].old \in Position /\ q[j].new \in Position
      BY <3>1, <1>4
    <3>4. CASE KeyOf(q, j) \in act
      BY <3>1, <3>2, <3>4, <2>2
    <3>5. CASE KeyOf(q, j) \notin act
      BY <3>1, <3>2, <3>3, <3>5, <2>1
    <3> QED BY <3>4, <3>5
  <2>5. ASSUME NEW i \in DOMAIN t, NEW j \in DOMAIN t,
               Swapped(t, i), Swapped(t, j), t[i].old = t[j].old,
               n[t[i].old] # None, KeyOf(t, i) \in act, KeyOf(t, j) \in act
        PROVE  i = j
    <3>1. /\ i + 1 \in DOMAIN q /\ t[i] = q[i + 1] /\ Swapped(q, i + 1)
          /\ KeyOf(q, i + 1) \in act
      BY <2>3, <2>5, <1>2
    <3>2. /\ j + 1 \in DOMAIN q /\ t[j] = q[j + 1] /\ Swapped(q, j + 1)
          /\ KeyOf(q, j + 1) \in act
      BY <2>3, <2>5, <1>2
    <3>3. m[q[i + 1].old] # None /\ q[i + 1].old = q[j + 1].old
      BY <2>2, <2>5, <3>1, <3>2
    <3>4. i + 1 = j + 1
      BY <3>1, <3>2, <3>3, <1>6 DEF Notifications
    <3> QED BY <3>4, <1>2
  <2> QED BY <2>4, <2>5 DEF Notifications
<1>16. /\ CallOrder(cs) /\ Resolving(n, cs) /\ Switching(n, ps, act, cs)
       /\ Committing(n, act, t, cs)
  BY <1>5, <1>8 DEF CallOrder, Resolving, Switching, Committing
<1> QED BY <1>3, <1>6, <1>10, <1>11, <1>12, <1>13, <1>14, <1>15, <1>16
     DEF Orderly, t, cs

LEMMA RegistrationOrdered ==
    ASSUME ControllerInv, ControllerInv', Ordered, HandleRobotRegistration
    PROVE  Ordered'
<1> DEFINE p == Head(io).position
           m == remove_stopped_robots
<1>1. /\ io # <<>> /\ calls = <<>> /\ io' = Tail(io) /\ p \in Position
      /\ Head(io).op = "register" /\ Head(io).robot \in Robot
  BY TakeType, HandlerFields
     DEF HandleRobotRegistration, Take, ControllerInv
<1>2. PICK r \in Robot : r = Head(io).robot
  BY <1>1
<1> DEFINE e == Remote(r, place[r], profile[r])
           c == [op |-> "resolve", at |-> p]
<1>3. /\ pending_swaps' = Swaps /\ UNCHANGED <<robotVars, running, client>>
      /\ \/ /\ known' = [m EXCEPT ![p] = e] /\ calls' = <<c>>
            /\ registered' = StillRegistered + 1
         \/ known' = m /\ registered' = StillRegistered /\ calls' = calls
  BY <1>2 DEF HandleRobotRegistration
<1>4. /\ Orderly(m, Swaps, io, <<>>) /\ Orderly(m, Swaps, Tail(io), <<>>)
      /\ Typed(m, Swaps, io, <<>>)
      /\ StillRegistered = Cardinality(Occupied(m)) /\ m \in Remotes
  BY <1>1, TidyFacts, RemovedEntries
<1>5. RobotTypes
  BY DEF ControllerInv
<1>6. p = place[r] /\ m[p] = None
  <2>1. 1 \in DOMAIN io /\ io[1] = Head(io)
    BY <1>1 DEF ControllerInv, WorkTypes
  <2>2. p = place[r] /\ Registering(io, r)
    BY <2>1, <1>1, <1>2, <1>4 DEF Orderly, Registrations, Registering
  <2> QED BY <2>2, <1>4 DEF Orderly, Newcomers
<1>7. e # None /\ e.robot = r /\ e.cached = p
  <2>1. e \in RemoteType
    BY <1>5 DEF RobotTypes, Remote, RemoteType
  <2> QED BY <2>1, <1>6, NoneIsNoRemote DEF Remote
<1>8. c.op = "resolve" /\ c.at = p
  OBVIOUS
<1> HIDE DEF p, m, e, c
<1>9. CASE known' = m /\ registered' = StillRegistered /\ calls' = calls
  <2>1. Orderly(known', pending_swaps', io', calls')
    BY <1>1, <1>3, <1>4, <1>9
  <2>2. registered' = Cardinality(Occupied(known'))
    BY <1>4, <1>9
  <2> QED BY <1>3, <2>1, <2>2, HandlerOrdered
<1>10. CASE /\ known' = [m EXCEPT ![p] = e] /\ calls' = <<c>>
            /\ registered' = StillRegistered + 1
  <2>1. known'[p] = e /\ \A o \in Position \ {p} : known'[o] = m[o]
    BY <1>1, <1>4, <1>10 DEF Remotes
  <2>2. Orderly(known', Swaps, Tail(io), <<c>>)
    <3> HIDE <1>3, <1>10
    <3> QED BY <2>1, <1>1, <1>2, <1>4, <1>5, <1>6, <1>7, <1>8, EnteringKeeps
  <2>3. Orderly(known', pending_swaps', io', calls')
    BY <1>1, <1>3, <1>10, <2>2
  <2>4. registered' = Cardinality(Occupied(known'))
    <3>1. Occupied(known') = Occupied(m) \cup {p} /\ p \notin Occupied(m)
      BY <2>1, <1>1, <1>6, <1>7 DEF Occupied
    <3>2. Cardinality(Occupied(m) \cup {p}) = Cardinality(Occupied(m)) + 1
      BY <3>1, OccupiedFinite, FS_AddElement
    <3> QED BY <3>1, <3>2, <1>4, <1>10
  <2> QED BY <1>3, <2>3, <2>4, HandlerOrdered
<1> QED BY <1>3, <1>9, <1>10

(* A handler that calls to have adaptations made and an answer given.       *)
LEMMA CallsKeep ==
    ASSUME NEW m, NEW ps, NEW q, NEW cs, Orderly(m, ps, q, <<>>),
           \A i \in DOMAIN cs : cs[i].op \notin {"resolve", "switch_second", "commit"},
           \A i \in DOMAIN cs : cs[i].op = "switch" => i = 1,
           cs # <<>> => 1 \in DOMAIN cs /\ Head(cs) = cs[1],
           cs # <<>> /\ Head(cs).op = "switch" =>
              /\ m[Head(cs).from] # None \/ Busy(DOMAIN ps, Head(cs).from)
              /\ m[Head(cs).to] # None \/ Busy(DOMAIN ps, Head(cs).to)
    PROVE  Orderly(m, ps, q, cs)
<1>1. Active(ps, <<>>) = DOMAIN ps /\ Active(ps, cs) = DOMAIN ps
  <2>1. ~ SecondCall(<<>>) /\ ~ SecondCall(cs)
    BY DEF SecondCall
  <2> QED BY <2>1 DEF Active
<1>2. /\ CallOrder(cs) /\ Resolving(m, cs) /\ Switching(m, ps, DOMAIN ps, cs)
      /\ Committing(m, DOMAIN ps, q, cs)
  BY DEF CallOrder, Resolving, Switching, Committing
<1> QED BY <1>1, <1>2 DEF Orderly

(* What the cache says of a robot is a position of a robot or of a swap.    *)
LEMMA CachedIsTaken ==
    ASSUME NEW m, NEW act, Home(m, act), Away(m, act),
           NEW p \in Position, m[p] # None
    PROVE  m[m[p].cached] # None \/ Busy(act, m[p].cached)
<1>1. CASE ~ Busy(act, p)
  BY <1>1 DEF Home, AtHome
<1>2. CASE Busy(act, p)
  BY <1>2 DEF Busy, Away, OnItsWay
<1> QED BY <1>1, <1>2

(* The adaptations: none, one switch, or two reconfigurations.              *)
LEMMA AdaptationsShape ==
    ASSUME NEW m \in Remotes, NEW todo, NEW s \in Strategy,
           NEW wanted \in Adaptations(s, m, todo)
    PROVE  \/ wanted = <<>>
           \/ \E p, q \in Position :
                 /\ m[p] # None /\ m[q] # None
                 /\ wanted = <<Switch(m[p].cached, m[q].cached)>>
           \/ \E p, q, f, g : wanted = <<Reconfigure(p, f), Reconfigure(q, g)>>
<1> DEFINE p == Next1(m, todo)
           q == AfterNext(m, todo)
<1>1. p # 0 => p \in Position /\ m[p] # None
  BY ForemostFacts, NoneIsNoRemote DEF Next1
<1>2. q # 0 => q \in Position /\ m[q] # None
  BY ForemostFacts, NoneIsNoRemote DEF AfterNext
<1>3. CASE s = "simple_capability_check"
  BY <1>3 DEF Adaptations, simple_capability_check
<1>4. CASE s = "simple_rearranging"
  <2>1. wanted \in simple_rearranging(m, todo)
    BY <1>4 DEF Adaptations
  <2>2. CASE ~ OutOfOrder(m, todo)
    BY <2>1, <2>2 DEF simple_rearranging
  <2>3. CASE OutOfOrder(m, todo)
    <3>1. wanted = <<Switch(m[p].cached, m[q].cached)>>
      BY <2>1, <2>3 DEF simple_rearranging
    <3>2. p # 0 /\ q # 0
      BY <2>3 DEF OutOfOrder
    <3> QED BY <3>1, <3>2, <1>1, <1>2
  <2> QED BY <2>2, <2>3
<1>5. CASE s = "simple_reconfiguration"
  <2>1. wanted \in simple_reconfiguration(m, todo)
    BY <1>5 DEF Adaptations
  <2> QED BY <2>1 DEF simple_reconfiguration
<1> QED BY <1>3, <1>4, <1>5 DEF Strategy

LEMMA Appended ==
    ASSUME NEW S, NEW w \in Seq(S), NEW a \in S
    PROVE  LET cs == w \o <<a>>
           IN /\ cs # <<>> /\ 1 \in DOMAIN cs /\ Head(cs) = cs[1]
              /\ \A i \in DOMAIN cs : (i \in DOMAIN w /\ cs[i] = w[i]) \/ cs[i] = a
              /\ w # <<>> => cs[1] = w[1]
              /\ w = <<>> => cs[1] = a
  OBVIOUS

LEMMA NextRobotOrdered ==
    ASSUME ControllerInv, ControllerInv', Ordered, HandleNextRobotRequest
    PROVE  Ordered'
<1> DEFINE m == remove_stopped_robots
           todo == Remaining(Head(io).recipe, Head(io).steps)
           a == [op |-> "answer", agent |-> Head(io).agent, at |-> Next1(m, todo)]
<1>1. io # <<>> /\ calls = <<>> /\ io' = Tail(io)
  BY DEF HandleNextRobotRequest, Take
<1>2. /\ known' = m /\ pending_swaps' = Swaps /\ registered' = StillRegistered
      /\ UNCHANGED <<robotVars, running, client>>
  BY DEF HandleNextRobotRequest
<1>3. PICK s \in Strategies : \E wanted \in Adaptations(s, m, todo) :
         calls' = wanted \o <<a>>
  BY DEF HandleNextRobotRequest, Reply
<1>4. PICK wanted \in Adaptations(s, m, todo) : calls' = wanted \o <<a>>
  BY <1>3
<1>5. /\ Orderly(m, Swaps, Tail(io), <<>>) /\ m \in Remotes
      /\ DOMAIN Swaps = Fresh /\ Active(Swaps, <<>>) = Fresh
      /\ StillRegistered = Cardinality(Occupied(m))
  BY <1>1, TidyFacts, RemovedEntries
<1>6. a.op = "answer"
  OBVIOUS
<1>7. s \in Strategy
  BY ControllerAssumption
<1> HIDE DEF m, todo, a
<1>8. Orderly(m, Swaps, Tail(io), calls')
  <2>1. /\ calls' # <<>> /\ 1 \in DOMAIN calls' /\ Head(calls') = calls'[1]
        /\ \A i \in DOMAIN calls' :
              (i \in DOMAIN wanted /\ calls'[i] = wanted[i]) \/ calls'[i] = a
        /\ wanted # <<>> => calls'[1] = wanted[1]
        /\ wanted = <<>> => calls'[1] = a
    <3> DEFINE S == SwapCall \cup {a}
    <3>1. wanted \in Seq(S) /\ a \in S
      BY <1>5, <1>7, AdaptationsType
    <3> HIDE DEF S
    <3> QED BY <3>1, <1>4, Appended
  <2>2. CASE wanted = <<>>
    BY <2>1, <2>2, <1>5, <1>6, CallsKeep
  <2>3. ASSUME NEW p \in Position, NEW q \in Position, m[p] # None, m[q] # None,
               wanted = <<Switch(m[p].cached, m[q].cached)>>
        PROVE  Orderly(m, Swaps, Tail(io), calls')
    <3>1. PICK c : c = Switch(m[p].cached, m[q].cached)
      OBVIOUS
    <3>2. c.op = "switch" /\ c.from = m[p].cached /\ c.to = m[q].cached
      BY <3>1 DEF Switch
    <3>3. DOMAIN wanted = {1} /\ wanted[1] = c /\ wanted # <<>>
      BY <2>3, <3>1
    <3>4. /\ m[c.from] # None \/ Busy(DOMAIN Swaps, c.from)
          /\ m[c.to] # None \/ Busy(DOMAIN Swaps, c.to)
      <4>1. Home(m, Fresh) /\ Away(m, Fresh)
        BY <1>5 DEF Orderly
      <4> QED BY <4>1, <2>3, <3>2, <1>5, CachedIsTaken
    <3> QED BY <2>1, <3>2, <3>3, <3>4, <1>5, <1>6, CallsKeep
  <2>4. ASSUME NEW p, NEW q, NEW f, NEW g,
               wanted = <<Reconfigure(p, f), Reconfigure(q, g)>>
        PROVE  Orderly(m, Swaps, Tail(io), calls')
    <3>1. /\ wanted # <<>> /\ DOMAIN wanted = {1, 2}
          /\ wanted[1].op = "reconfigure" /\ wanted[2].op = "reconfigure"
      BY <2>4 DEF Reconfigure
    <3> QED BY <2>1, <3>1, <1>5, <1>6, CallsKeep
  <2>5. \/ wanted = <<>>
        \/ \E p, q \in Position :
              /\ m[p] # None /\ m[q] # None
              /\ wanted = <<Switch(m[p].cached, m[q].cached)>>
        \/ \E p, q, f, g : wanted = <<Reconfigure(p, f), Reconfigure(q, g)>>
    BY <1>5, <1>7, AdaptationsShape
  <2> QED BY <2>2, <2>3, <2>4, <2>5
<1>9. Orderly(known', pending_swaps', io', calls')
  BY <1>1, <1>2, <1>8
<1>10. registered' = Cardinality(Occupied(known'))
  BY <1>2, <1>5
<1> QED BY <1>2, <1>9, <1>10, HandlerOrdered

(* One more acknowledgement: the robot has left, and says so once.          *)
LEMMA AckingKeeps ==
    ASSUME NEW m, NEW ps, NEW q, Typed(m, ps, q, <<>>), Orderly(m, ps, q, <<>>),
           q # <<>>, Swapped(q, 1), NEW k \in DOMAIN ps, k = KeyOf(q, 1),
           NEW all, DOMAIN all = DOMAIN ps,
           \A l \in DOMAIN ps :
              all[l] = IF l = k THEN ps[l] \cup {q[1].old} ELSE ps[l]
    PROVE  Orderly(m, all, Tail(q), <<>>)
<1> DEFINE act == DOMAIN ps
           t == Tail(q)
<1>1. /\ 1 \in DOMAIN q
      /\ \A i \in DOMAIN t : i + 1 \in DOMAIN q /\ t[i] = q[i + 1] /\ i + 1 # 1
  BY DEF Typed
<1>2. Orderly(m, ps, t, <<>>)
  BY TailQueueKeeps
<1>3. Active(ps, <<>>) = act /\ Active(all, <<>>) = act
  BY DEF Active, SecondCall
<1>4. /\ Acked(m, ps) /\ Notifications(m, ps, act, q) /\ Notifications(m, ps, act, t)
  BY <1>2, <1>3 DEF Orderly
<1> HIDE DEF t
<1>5. Acked(m, all)
  <2>1. m[q[1].old] # None => m[q[1].old].cached = q[1].new /\ q[1].new # q[1].old
    BY <1>1, <1>4 DEF Notifications
  <2> QED BY <2>1, <1>4 DEF Acked
<1>6. Notifications(m, all, act, t)
  <2>1. ASSUME NEW i \in DOMAIN t, Swapped(t, i), KeyOf(t, i) \in act,
               m[t[i].old] # None
        PROVE  t[i].old \notin all[KeyOf(t, i)]
    <3>1. t[i].old \notin ps[KeyOf(t, i)]
      BY <2>1, <1>4 DEF Notifications
    <3>2. CASE KeyOf(t, i) # k
      BY <3>1, <3>2, <2>1
    <3>3. CASE KeyOf(t, i) = k
      <4>1. /\ i + 1 \in DOMAIN q /\ i + 1 # 1 /\ Swapped(q, i + 1)
            /\ KeyOf(q, i + 1) \in act /\ t[i].old = q[i + 1].old
        BY <2>1, <1>1 DEF Swapped, KeyOf
      <4>2. t[i].old # q[1].old
        BY <4>1, <2>1, <1>1, <1>4 DEF Notifications
      <4> QED BY <3>1, <3>3, <4>2
    <3> QED BY <3>2, <3>3
  <2> QED BY <2>1, <1>4 DEF Notifications
<1>7. Switching(m, all, act, <<>>)
  BY DEF Switching
<1> QED BY <1>2, <1>3, <1>5, <1>6, <1>7 DEF Orderly, t

(* The swap is complete: both robots have arrived at the other's position,  *)
(* their entries change places and both are committed.                      *)
SameEntry(e, f) ==
    /\ f = None <=> e = None
    /\ e # None => /\ f.robot = e.robot /\ f.cached = e.cached
                   /\ f.link = e.link /\ f.profile = e.profile
Exchanged(m, n, a, b) ==
    /\ \A p \in Position \ {a, b} : n[p] = m[p]
    /\ SameEntry(m[b], n[a]) /\ SameEntry(m[a], n[b])
CommitsOf(m, k, cs) ==
    /\ \A i \in DOMAIN cs : \E p \in Positions(k) :
          /\ m[p] # None /\ cs[i].op = "commit"
          /\ cs[i].robot = m[p].robot /\ cs[i].at = m[p].cached
    /\ \A i, j \in DOMAIN cs : cs[i].robot = cs[j].robot => i = j
    /\ cs # <<>> => Head(cs).op = "commit"
SwapComplete(m, ps, k, a) ==
    /\ ps[k] \cup {a} = Positions(k)
    /\ \A p \in Position : m[p] # None => m[p].link # "stopped"

LEMMA SwapArrived ==
    ASSUME NEW m, NEW ps, NEW q, Typed(m, ps, q, <<>>), Orderly(m, ps, q, <<>>),
           q # <<>>, Swapped(q, 1),
           NEW a \in Position, NEW b \in Position, a # b,
           a = q[1].old, b = q[1].new,
           NEW k \in DOMAIN ps, k = Key(a, b), SwapComplete(m, ps, k, a)
    PROVE  \A p, o \in {a, b} : p # o /\ m[p] # None =>
              /\ m[p].cached = o /\ commits[m[p].robot] = 0
              /\ m[p].link = "live" =>
                    place[m[p].robot] = o /\ target[m[p].robot] = None
<1>1. 1 \in DOMAIN q
  BY DEF Typed
<1>2. Active(ps, <<>>) = DOMAIN ps
  BY DEF Active, SecondCall
<1>3. Positions(k) = {a, b} /\ KeyOf(q, 1) = k
  BY KeyFacts DEF KeyOf
<1>4. /\ Away(m, DOMAIN ps) /\ Acked(m, ps)
      /\ Notifications(m, ps, DOMAIN ps, q)
  BY <1>2 DEF Orderly
<1> SUFFICES ASSUME NEW p \in {a, b}, NEW o \in {a, b}, p # o, m[p] # None
             PROVE  /\ m[p].cached = o /\ commits[m[p].robot] = 0
                    /\ m[p].link = "live" =>
                          place[m[p].robot] = o /\ target[m[p].robot] = None
  OBVIOUS
<1>5. OnItsWay(m, k, p)
  BY <1>3, <1>4 DEF Away
<1>6. m[p].cached # p
  <2>1. CASE p \in ps[k]
    BY <2>1, <1>4 DEF Acked, SwapComplete
  <2>2. CASE p \notin ps[k]
    <3>1. p = a
      BY <2>2, <1>3 DEF SwapComplete
    <3> QED BY <3>1, <1>1, <1>3, <1>4 DEF Notifications
  <2> QED BY <2>1, <2>2
<1> QED BY <1>3, <1>5, <1>6 DEF OnItsWay

LEMMA RekeyingKeeps ==
    ASSUME NEW m, NEW ps, NEW q, Typed(m, ps, q, <<>>), RobotTypes,
           Orderly(m, ps, q, <<>>), q # <<>>, Swapped(q, 1),
           NEW a \in Position, NEW b \in Position, a # b,
           a = q[1].old, b = q[1].new,
           NEW k \in DOMAIN ps, k = Key(a, b), SwapComplete(m, ps, k, a),
           NEW n, Exchanged(m, n, a, b),
           NEW rest, DOMAIN rest = DOMAIN ps \ {k},
           \A l \in DOMAIN ps \ {k} : rest[l] = ps[l],
           NEW cs, CommitsOf(m, k, cs)
    PROVE  Orderly(n, rest, Tail(q), cs)
<1> DEFINE act == DOMAIN ps
           S == DOMAIN rest
           t == Tail(q)
<1>1. /\ act \subseteq SwapKey /\ Positions(k) = {a, b} /\ m \in Remotes
      /\ \A l \in SwapKey : Positions(l) \subseteq Position
      /\ \A l \in act : ps[l] \subseteq Positions(l)
      /\ \A s \in Robot : place[s] \in Position
  BY KeyPositions, KeyFacts DEF Typed, RobotTypes
<1>2. /\ 1 \in DOMAIN q
      /\ \A i \in DOMAIN t : i + 1 \in DOMAIN q /\ t[i] = q[i + 1] /\ i + 1 # 1
      /\ \A i, j \in DOMAIN t : i + 1 = j + 1 => i = j
  BY DEF Typed
<1>3. Active(ps, <<>>) = act /\ Active(rest, cs) = S
  <2>1. ~ SecondCall(<<>>) /\ ~ SecondCall(cs)
    BY DEF SecondCall, CommitsOf
  <2> QED BY <2>1 DEF Active
<1>4. \A i \in DOMAIN q : Swapped(q, i) =>
         /\ q[i].old \in Position /\ q[i].new \in Position
         /\ q[i].old # q[i].new =>
               Positions(KeyOf(q, i)) = {q[i].old, q[i].new}
  BY HandlerFields, KeyFacts DEF Typed, Swapped, KeyOf
<1>5. \A p, o \in {a, b} : p # o /\ m[p] # None =>
              /\ m[p].cached = o /\ commits[m[p].robot] = 0
              /\ m[p].link = "live" =>
                    place[m[p].robot] = o /\ target[m[p].robot] = None
  BY SwapArrived
<1>6. S = act \ {k} /\ k \in act /\ \A l \in S : rest[l] = ps[l]
  OBVIOUS
<1> HIDE DEF act, S, t
<1>7. /\ Registrations(q) /\ Newcomers(m, act, q) /\ OneEntryEach(m)
      /\ Apart(act) /\ Home(m, act) /\ Away(m, act) /\ Acked(m, ps)
      /\ Notifications(m, ps, act, q)
  BY <1>3 DEF Orderly
<1>8. /\ \A l \in S : l # k /\ a \notin Positions(l) /\ b \notin Positions(l)
      /\ ~ Busy(S, a) /\ ~ Busy(S, b)
      /\ \A p : Busy(S, p) => Busy(act, p)
      /\ \A p : Busy(act, p) => Busy(S, p) \/ p \in {a, b}
      /\ Busy(act, a) /\ Busy(act, b)
  BY <1>1, <1>6, <1>7 DEF Busy, Apart
<1>9. /\ \A p \in Position \ {a, b} : n[p] = m[p]
      /\ n[a] = None <=> m[b] = None
      /\ n[b] = None <=> m[a] = None
      /\ m[b] # None => /\ n[a].robot = m[b].robot /\ n[a].cached = m[b].cached
                        /\ n[a].link = m[b].link
      /\ m[a] # None => /\ n[b].robot = m[a].robot /\ n[b].cached = m[a].cached
                        /\ n[b].link = m[a].link
  BY DEF Exchanged, SameEntry
<1>10. \A s \in Robot : Registering(t, s) => Registering(q, s)
  BY <1>2 DEF Registering
<1>11. Registrations(t)
  <2>1. /\ \A s \in Robot : client[s] # "stale"
        /\ \A i \in DOMAIN t : t[i].op = "register" =>
              t[i].position = place[t[i].robot] /\ client[t[i].robot] = "live"
    BY <1>2, <1>7 DEF Registrations
  <2>2. ASSUME NEW i \in DOMAIN t, NEW j \in DOMAIN t, t[i].op = "register",
               t[j].op = "register", t[i].robot = t[j].robot
        PROVE  i = j
    <3>1. i + 1 = j + 1
      BY <2>2, <1>2, <1>7 DEF Registrations
    <3> QED BY <3>1, <1>2
  <2> QED BY <2>1, <2>2 DEF Registrations
<1>12. Newcomers(n, S, t)
  <2>1. ASSUME NEW s \in Robot, Registering(t, s)
        PROVE  /\ Idle(s) /\ n[place[s]] = None /\ ~ Busy(S, place[s])
               /\ \A o \in Position : n[o] # None => n[o].robot # s
               /\ \A u \in Robot : Registering(t, u) /\ place[u] = place[s] => u = s
    <3>1. Registering(q, s) /\ place[s] \in Position
      BY <2>1, <1>1, <1>10
    <3>2. /\ Idle(s) /\ m[place[s]] = None /\ ~ Busy(act, place[s])
          /\ \A o \in Position : m[o] # None => m[o].robot # s
          /\ \A u \in Robot : Registering(q, u) /\ place[u] = place[s] => u = s
      BY <3>1, <1>7 DEF Newcomers
    <3>3. place[s] \notin {a, b} /\ n[place[s]] = None /\ ~ Busy(S, place[s])
      BY <3>1, <3>2, <1>8, <1>9
    <3>4. ASSUME NEW o \in Position, n[o] # None
          PROVE  n[o].robot # s
      BY <3>2, <3>4, <1>9
    <3> QED BY <3>2, <3>3, <3>4, <1>10
  <2> QED BY <2>1 DEF Newcomers
<1>13. OneEntryEach(n)
  BY <1>7, <1>9, SMTT(60) DEF OneEntryEach
<1>14. Apart(S)
  BY <1>6, <1>7 DEF Apart
<1>15. Home(n, S)
  <2>1. ASSUME NEW p \in Position, n[p] # None, ~ Busy(S, p)
        PROVE  AtHome(n, p)
    <3>1. CASE p = a
      BY <2>1, <3>1, <1>5, <1>9, SMTT(60) DEF AtHome
    <3>2. CASE p = b
      BY <2>1, <3>2, <1>5, <1>9 DEF AtHome
    <3>3. CASE p \notin {a, b}
      BY <2>1, <3>3, <1>7, <1>8, <1>9 DEF AtHome, Home
    <3> QED BY <3>1, <3>2, <3>3
  <2> QED BY <2>1 DEF Home
<1>16. Away(n, S)
  <2>1. \A l \in S : \A p \in Positions(l) : n[p] = m[p]
    BY <1>1, <1>6, <1>8, <1>9
  <2> QED BY <2>1, <1>6, <1>7 DEF Away, OnItsWay
<1>17. Acked(n, rest)
  <2>1. \A l \in S : \A p \in rest[l] : n[p] = m[p] /\ p \in ps[l]
    BY <1>1, <1>6, <1>8, <1>9
  <2> QED BY <2>1, <1>6, <1>7 DEF Acked, S, act
<1>18. \A x \in Position : Dead(m, act, q, x) => Dead(n, S, t, x)
  BY <1>8, <1>9, <1>10 DEF Dead
<1>19. \A x, y \in {a, b} : x # y /\ m[x] = None => Dead(n, S, t, y)
  <2>1. \A s \in Robot : Registering(t, s) => place[s] \notin {a, b}
    BY <1>7, <1>8, <1>10 DEF Newcomers
  <2> QED BY <2>1, <1>8, <1>9 DEF Dead
<1>20. \A i \in DOMAIN t :
          /\ Swapped(t, i) => Swapped(q, i + 1)
          /\ KeyOf(t, i) = KeyOf(q, i + 1)
  BY <1>2 DEF Swapped, KeyOf
<1>21. Notifications(n, rest, S, t)
  <2>1. ASSUME NEW i \in DOMAIN t, Swapped(t, i)
        PROVE  /\ t[i].old # t[i].new
               /\ IF KeyOf(t, i) \in S
                  THEN n[t[i].old] # None =>
                          /\ n[t[i].old].cached = t[i].new
                          /\ KeyOf(t, i) \in DOMAIN rest =>
                                t[i].old \notin rest[KeyOf(t, i)]
                  ELSE Dead(n, S, t, t[i].old) \/ Dead(n, S, t, t[i].new)
    <3> DEFINE j == i + 1
    <3>1. /\ j \in DOMAIN q /\ j # 1 /\ t[i] = q[j] /\ Swapped(q, j)
          /\ KeyOf(t, i) = KeyOf(q, j)
      BY <2>1, <1>2, <1>20
    <3> HIDE DEF j
    <3>2. /\ q[j].old # q[j].new
          /\ IF KeyOf(q, j) \in act
             THEN m[q[j].old] # None =>
                     /\ m[q[j].old].cached = q[j].new
                     /\ KeyOf(q, j) \in DOMAIN ps => q[j].old \notin ps[KeyOf(q, j)]
             ELSE Dead(m, act, q, q[j].old) \/ Dead(m, act, q, q[j].new)
      BY <3>1, <1>7 DEF Notifications
    <3>3. /\ q[j].old \in Position /\ q[j].new \in Position
          /\ Positions(KeyOf(q, j)) = {q[j].old, q[j].new}
      BY <3>1, <3>2, <1>4
    <3>4. CASE KeyOf(q, j) \in S
      <4>1. n[q[j].old] = m[q[j].old]
        BY <3>3, <3>4, <1>8, <1>9
      <4> QED BY <3>1, <3>2, <3>4, <4>1, <1>6 DEF act
    <3>5. CASE KeyOf(q, j) = k
      <4>1. q[j].old \in {a, b} /\ q[j].new \in {a, b}
        BY <3>3, <3>5, <1>1
      <4>2. m[q[j].old] = None
        <5>1. CASE q[j].old = a
          <6>1. KeyOf(q, 1) \in act
            BY <1>6 DEF KeyOf
          <6> QED BY <5>1, <6>1, <3>1, <3>5, <1>2, <1>6, <1>7 DEF Notifications
        <5>2. CASE q[j].old = b
          <6>1. b \in ps[k]
            BY <1>1 DEF SwapComplete
          <6> QED BY <5>2, <6>1, <3>2, <3>5, <1>6 DEF act
        <5> QED BY <4>1, <5>1, <5>2
      <4>3. Dead(n, S, t, q[j].new)
        BY <4>1, <4>2, <3>2, <1>19
      <4> QED BY <4>3, <3>1, <3>2, <3>5, <1>6
    <3>6. CASE KeyOf(q, j) \notin act
      BY <3>1, <3>2, <3>3, <3>6, <1>6, <1>18
    <3> QED BY <3>4, <3>5, <3>6, <1>6
  <2>2. ASSUME NEW i \in DOMAIN t, NEW j \in DOMAIN t,
               Swapped(t, i), Swapped(t, j), t[i].old = t[j].old,
               n[t[i].old] # None, KeyOf(t, i) \in S, KeyOf(t, j) \in S
        PROVE  i = j
    <3>1. /\ i + 1 \in DOMAIN q /\ t[i] = q[i + 1] /\ Swapped(q, i + 1)
          /\ KeyOf(q, i + 1) \in S
      BY <2>2, <1>2, <1>20
    <3>2. /\ j + 1 \in DOMAIN q /\ t[j] = q[j + 1] /\ Swapped(q, j + 1)
          /\ KeyOf(q, j + 1) \in S
      BY <2>2, <1>2, <1>20
    <3>3. n[q[i + 1].old] = m[q[i + 1].old]
      <4>1. q[i + 1].old # q[i + 1].new
        BY <3>1, <1>7 DEF Notifications
      <4> QED BY <3>1, <4>1, <1>4, <1>8, <1>9
    <3>4. i + 1 = j + 1
      BY <2>2, <3>1, <3>2, <3>3, <1>6, <1>7 DEF Notifications
    <3> QED BY <3>4, <1>2
  <2> QED BY <2>1, <2>2 DEF Notifications
<1>22. CallOrder(cs) /\ Resolving(n, cs) /\ Switching(n, rest, S, cs)
  BY DEF CommitsOf, CallOrder, Resolving, Switching
<1>23. Committing(n, S, t, cs)
  <2>1. ASSUME NEW i \in DOMAIN cs
        PROVE  /\ commits[cs[i].robot] = 0 /\ ~ Registering(t, cs[i].robot)
               /\ \A p \in Position : n[p] # None /\ Busy(S, p) =>
                     n[p].robot # cs[i].robot
    <3>1. PICK p \in {a, b} : m[p] # None /\ cs[i].robot = m[p].robot
      BY <1>1 DEF CommitsOf
    <3>2. commits[m[p].robot] = 0
      BY <3>1, <1>5
    <3>3. p \in Position /\ m[p].robot \in Robot
      BY <3>1, <1>1, EntryFields
    <3>4. ~ Registering(t, m[p].robot)
      BY <3>1, <3>3, <1>7, <1>10 DEF Newcomers
    <3>5. ASSUME NEW o \in Position, n[o] # None, Busy(S, o)
          PROVE  n[o].robot # m[p].robot
      <4>1. o \notin {a, b} /\ n[o] = m[o]
        BY <3>5, <1>8, <1>9
      <4> QED BY <4>1, <3>1, <3>3, <3>5, <1>7 DEF OneEntryEach
    <3> QED BY <3>1, <3>2, <3>4, <3>5
  <2>2. \A i, j \in DOMAIN cs : cs[i].robot = cs[j].robot => i = j
    BY DEF CommitsOf
  <2> QED BY <2>1, <2>2 DEF Committing
<1> QED BY <1>3, <1>11, <1>12, <1>13, <1>14, <1>15, <1>16, <1>17, <1>21, <1>22, <1>23
     DEF Orderly, S, t

LEMMA RekeyedExchanges ==
    ASSUME NEW m \in Remotes, NEW a \in Position, NEW b \in Position, a # b,
           \A p, o \in {a, b} : p # o /\ m[p] # None => m[p].cached = o
    PROVE  Exchanged(m, Rekeyed(m, Key(a, b)), a, b)
<1> DEFINE k == Key(a, b)
           At(e, p) == e # None /\ e.cached = p
           n == [p \in Position |-> IF At(m[k[2]], p) THEN Settled(m[k[2]])
                                    ELSE IF At(m[k[1]], p) THEN Settled(m[k[1]])
                                    ELSE IF p \in Positions(k) THEN None
                                    ELSE m[p]]
<1>1. Rekeyed(m, k) = n
  BY DEF Rekeyed
<1>2. Positions(k) = {a, b} /\ {k[1], k[2]} = {a, b} /\ k[1] # k[2]
  <2>1. k \in SwapKey /\ Positions(k) = {a, b}
    BY KeyFacts
  <2> HIDE DEF k
  <2> QED BY <2>1, KeyPositions
<1> HIDE DEF k
<1>3. \A e \in RemoteType : SameEntry(e, Settled(e))
  BY SettledFacts, NoneIsNoRemote DEF SameEntry
<1>4. \A p \in Position : m[p] # None => m[p] \in RemoteType
  BY EntryFields
<1>5. \A p, o \in {a, b} : p # o => SameEntry(m[o], n[p])
  <2> SUFFICES ASSUME NEW p \in {a, b}, NEW o \in {a, b}, p # o
               PROVE  SameEntry(m[o], n[p])
    OBVIOUS
  <2>1. n[p] = IF m[o] # None THEN Settled(m[o]) ELSE None
    BY <1>2
  <2>2. CASE m[o] = None
    BY <2>1, <2>2 DEF SameEntry
  <2>3. CASE m[o] # None
    <3>1. n[p] = Settled(m[o]) /\ m[o] \in RemoteType
      BY <2>1, <2>3, <1>4
    <3> HIDE DEF n
    <3> QED BY <3>1, <1>3
  <2> QED BY <2>2, <2>3
<1>6. \A p \in Position \ {a, b} : n[p] = m[p]
  BY <1>2
<1> HIDE DEF n
<1>7. Exchanged(m, n, a, b)
  BY <1>5, <1>6 DEF Exchanged
<1> QED BY <1>1, <1>7 DEF k

LEMMA ExchangedCount ==
    ASSUME NEW m, NEW n, NEW a \in Position, NEW b \in Position, a # b,
           Exchanged(m, n, a, b)
    PROVE  Cardinality(Occupied(n)) = Cardinality(Occupied(m))
<1> DEFINE other(p) == IF p = a THEN b ELSE IF p = b THEN a ELSE p
           f == [p \in Occupied(n) |-> other(p)]
           g == [p \in Occupied(m) |-> other(p)]
<1>1. /\ \A p \in Position : other(p) \in Position
      /\ \A p \in Position : n[p] # None <=> m[other(p)] # None
      /\ \A p \in Position : m[p] # None <=> n[other(p)] # None
      /\ \A p, o \in Position : other(p) = other(o) => p = o
  BY DEF Exchanged, SameEntry
<1> HIDE DEF other
<1>2. f \in Injection(Occupied(n), Occupied(m))
  BY <1>1 DEF Injection, IsInjective, Occupied
<1>3. g \in Injection(Occupied(m), Occupied(n))
  BY <1>1 DEF Injection, IsInjective, Occupied
<1>4. /\ IsFiniteSet(Occupied(m)) /\ Cardinality(Occupied(m)) \in Nat
      /\ IsFiniteSet(Occupied(n)) /\ Cardinality(Occupied(n)) \in Nat
  BY OccupiedFinite
<1> HIDE DEF f, g
<1>5. Cardinality(Occupied(n)) <= Cardinality(Occupied(m))
  BY <1>2, <1>4, FS_Injection
<1>6. Cardinality(Occupied(m)) <= Cardinality(Occupied(n))
  BY <1>3, <1>4, FS_Injection
<1> QED BY <1>4, <1>5, <1>6

LEMMA CommitBothFacts ==
    ASSUME NEW m \in Remotes, OneEntryEach(m), NEW k \in SwapKey
    PROVE  CommitsOf(m, k, CommitBoth(m, k))
<1> DEFINE At(p) == IF m[p] = None THEN <<>> ELSE <<CommitOf(m[p])>>
           u == At(k[1])
           v == At(k[2])
           cs == u \o v
           S == {CommitOf(m[k[1]]), CommitOf(m[k[2]])}
<1>1. /\ k[1] \in Position /\ k[2] \in Position /\ k[1] # k[2]
      /\ Positions(k) = {k[1], k[2]}
  BY KeyPositions
<1>2. CommitBoth(m, k) = cs
  BY DEF CommitBoth
<1>3. \A p \in {k[1], k[2]} : m[p] # None =>
         /\ CommitOf(m[p]).op = "commit" /\ CommitOf(m[p]).robot = m[p].robot
         /\ CommitOf(m[p]).at = m[p].cached
  BY DEF CommitOf
<1>4. /\ u \in Seq(S) /\ v \in Seq(S)
      /\ m[k[1]] = None => u = <<>>
      /\ m[k[1]] # None => Len(u) = 1 /\ u[1] = CommitOf(m[k[1]])
      /\ m[k[2]] = None => v = <<>>
      /\ m[k[2]] # None => Len(v) = 1 /\ v[1] = CommitOf(m[k[2]])
  OBVIOUS
<1> HIDE DEF u, v, S
<1>5. /\ cs \in Seq(S) /\ Len(cs) = Len(u) + Len(v) /\ DOMAIN cs = 1..Len(cs)
      /\ \A i \in 1..Len(cs) :
            cs[i] = IF i <= Len(u) THEN u[i] ELSE v[i - Len(u)]
      /\ cs # <<>> => Head(cs) = cs[1] /\ Len(cs) > 0
  BY <1>4
<1> HIDE DEF cs
<1>6. Len(u) \in {0, 1} /\ Len(v) \in {0, 1}
  BY <1>4
<1>7. \A i \in DOMAIN cs :
         \/ /\ i = 1 /\ m[k[1]] # None /\ cs[i] = CommitOf(m[k[1]])
         \/ /\ i = Len(u) + 1 /\ m[k[2]] # None /\ cs[i] = CommitOf(m[k[2]])
  BY <1>4, <1>5, <1>6
<1>8. \A i \in DOMAIN cs : \E p \in Positions(k) :
         /\ m[p] # None /\ cs[i].op = "commit"
         /\ cs[i].robot = m[p].robot /\ cs[i].at = m[p].cached
  BY <1>1, <1>3, <1>7
<1>9. m[k[1]] # None /\ m[k[2]] # None => m[k[1]].robot # m[k[2]].robot
  BY <1>1 DEF OneEntryEach
<1>10. \A i, j \in DOMAIN cs : cs[i].robot = cs[j].robot => i = j
  BY <1>3, <1>7, <1>9
<1>11. cs # <<>> => Head(cs).op = "commit"
  BY <1>5, <1>8
<1> QED BY <1>2, <1>8, <1>10, <1>11 DEF CommitsOf

LEMMA PositionSwappedOrdered ==
    ASSUME ControllerInv, ControllerInv', Ordered, HandlePositionSwapped
    PROVE  Ordered'
<1> DEFINE m == remove_stopped_robots
<1>1. /\ io # <<>> /\ calls = <<>> /\ io' = Tail(io) /\ Head(io).op = "swapped"
      /\ Head(io).old \in Position /\ Head(io).new \in Position
  BY TakeType, HandlerFields DEF HandlePositionSwapped, Take, ControllerInv
<1>2. PICK a \in Position, b \in Position : a = Head(io).old /\ b = Head(io).new
  BY <1>1
<1>3. PICK k : k = Key(a, b)
  OBVIOUS
<1>4. /\ registered' = StillRegistered /\ UNCHANGED <<robotVars, running, client>>
      /\ \/ known' = m /\ pending_swaps' = Swaps /\ calls' = calls
         \/ /\ k \in Fresh /\ Swaps[k] \cup {a} = Positions(k)
            /\ known' = Rekeyed(m, k)
            /\ pending_swaps' = Restricted(AckedByRemoval, Fresh \ {k})
            /\ calls' = CommitBoth(m, k)
         \/ /\ k \in Fresh /\ known' = m /\ calls' = calls
            /\ pending_swaps' = [Swaps EXCEPT ![k] = Swaps[k] \cup {a}]
  BY <1>2, <1>3 DEF HandlePositionSwapped, Complete
<1>5. /\ Orderly(m, Swaps, io, <<>>) /\ Orderly(m, Swaps, Tail(io), <<>>)
      /\ Typed(m, Swaps, io, <<>>) /\ DOMAIN Swaps = Fresh
      /\ StillRegistered = Cardinality(Occupied(m)) /\ m \in Remotes
      /\ Active(Swaps, <<>>) = Fresh
      /\ \A p \in Position : m[p] # None => m[p].link # "stopped"
  BY <1>1, TidyFacts, RemovedEntries
<1>6. /\ 1 \in DOMAIN io /\ io[1] = Head(io) /\ Swapped(io, 1)
      /\ io[1].old = a /\ io[1].new = b /\ k = KeyOf(io, 1)
  BY <1>1, <1>2, <1>3 DEF ControllerInv, WorkTypes, Swapped, KeyOf
<1>7. a # b
  BY <1>5, <1>6 DEF Orderly, Notifications
<1>8. Fresh \subseteq SwapKey /\ \A l \in Fresh : Swaps[l] = AckedByRemoval[l]
  BY SwapFacts DEF ControllerInv
<1> HIDE DEF m
<1>9. CASE known' = m /\ pending_swaps' = Swaps /\ calls' = calls
  <2>1. Orderly(known', pending_swaps', io', calls')
    BY <1>1, <1>5, <1>9
  <2>2. registered' = Cardinality(Occupied(known'))
    BY <1>4, <1>5, <1>9
  <2> QED BY <1>4, <2>1, <2>2, HandlerOrdered
<1>10. CASE /\ k \in Fresh /\ known' = m /\ calls' = calls
            /\ pending_swaps' = [Swaps EXCEPT ![k] = Swaps[k] \cup {a}]
  <2>1. /\ DOMAIN pending_swaps' = DOMAIN Swaps
        /\ \A l \in DOMAIN Swaps :
              pending_swaps'[l] = IF l = k THEN Swaps[l] \cup {io[1].old} ELSE Swaps[l]
    BY <1>5, <1>6, <1>10
  <2>2. k \in DOMAIN Swaps
    BY <1>5, <1>10
  <2>3. Orderly(m, pending_swaps', Tail(io), <<>>)
    BY <1>1, <1>5, <1>6, <2>1, <2>2, AckingKeeps
  <2>4. Orderly(known', pending_swaps', io', calls')
    BY <1>1, <1>10, <2>3
  <2>5. registered' = Cardinality(Occupied(known'))
    BY <1>4, <1>5, <1>10
  <2> QED BY <1>4, <2>4, <2>5, HandlerOrdered
<1>11. CASE /\ k \in Fresh /\ Swaps[k] \cup {a} = Positions(k)
            /\ known' = Rekeyed(m, k)
            /\ pending_swaps' = Restricted(AckedByRemoval, Fresh \ {k})
            /\ calls' = CommitBoth(m, k)
  <2>1. k \in DOMAIN Swaps /\ SwapComplete(m, Swaps, k, a) /\ RobotTypes
    BY <1>5, <1>11 DEF SwapComplete, ControllerInv
  <2>2. Exchanged(m, known', a, b)
    <3>1. \A p, o \in {a, b} : p # o /\ m[p] # None => m[p].cached = o
      <4>1. Typed(m, Swaps, io, <<>>) /\ Orderly(m, Swaps, io, <<>>)
        BY <1>5
      <4>2. /\ io # <<>> /\ Swapped(io, 1) /\ a = io[1].old /\ b = io[1].new
            /\ k = Key(a, b) /\ a # b
        BY <1>1, <1>3, <1>6, <1>7
      <4> QED BY <4>1, <4>2, <2>1, SwapArrived
    <3> QED BY <1>3, <1>5, <1>7, <1>11, <3>1, RekeyedExchanges
  <2>3. /\ DOMAIN pending_swaps' = DOMAIN Swaps \ {k}
        /\ \A l \in DOMAIN Swaps \ {k} : pending_swaps'[l] = Swaps[l]
    BY <1>5, <1>8, <1>11 DEF Restricted
  <2>4. CommitsOf(m, k, calls')
    <3>1. k \in SwapKey /\ OneEntryEach(m)
      BY <1>5, <1>8, <1>11 DEF Orderly
    <3> QED BY <1>5, <1>11, <3>1, CommitBothFacts
  <2>5. Orderly(known', pending_swaps', Tail(io), calls')
    BY <1>1, <1>3, <1>5, <1>6, <1>7, <2>1, <2>2, <2>3, <2>4, RekeyingKeeps
  <2>6. Orderly(known', pending_swaps', io', calls')
    BY <1>1, <2>5
  <2>7. registered' = Cardinality(Occupied(known'))
    BY <1>4, <1>5, <1>7, <2>2, ExchangedCount
  <2> QED BY <1>4, <2>6, <2>7, HandlerOrdered
<1> QED BY <1>4, <1>9, <1>10, <1>11

(* The robot of an entry has arrived at its partner's position, and the     *)
(* remote robot says so once.                                               *)
LEMMA OnlyKey ==
    ASSUME NEW k \in SwapKey, NEW p, NEW o, p # o, {p, o} = Positions(k)
    PROVE  Key(p, o) = k
<1>1. PICK a \in Position, b \in Position : k = <<a, b>> /\ a < b
  BY DEF SwapKey
<1>2. a \in Nat /\ b \in Nat /\ Positions(k) = {a, b}
  BY <1>1, PositionFacts DEF Positions
<1>3. CASE p = a /\ o = b
  BY <1>1, <1>3 DEF Key
<1>4. CASE p = b /\ o = a
  <2>1. ~ (b < a)
    BY <1>1, <1>2
  <2> QED BY <1>1, <1>4, <2>1 DEF Key
<1> QED BY <1>2, <1>3, <1>4

LEMMA ArrivingKeeps ==
    ASSUME NEW m, NEW ps, NEW q, NEW cs, Typed(m, ps, q, cs), RobotTypes,
           Orderly(m, ps, q, cs),
           NEW p \in Position, m[p] # None, m[p].link = "live",
           NEW o \in Position, o = place[m[p].robot], m[p].cached # o,
           NEW n, n[p] # None, n[p].robot = m[p].robot, n[p].link = m[p].link,
           n[p].cached = o, \A x \in Position \ {p} : n[x] = m[x],
           NEW h \in Handler, h.op = "swapped", h.old = m[p].cached, h.new = o
    PROVE  Orderly(n, ps, Append(q, h), cs)
<1> DEFINE act == Active(ps, cs)
           t == Append(q, h)
<1>1. /\ t \in Seq(Handler)
      /\ \A i \in DOMAIN t : \/ i \in DOMAIN q /\ t[i] = q[i]
                             \/ t[i] = h /\ i = Len(q) + 1
      /\ \A i \in DOMAIN q : i \in DOMAIN t /\ t[i] = q[i]
  BY DEF Typed
<1>2. /\ act \subseteq SwapKey /\ m \in Remotes /\ DOMAIN ps \subseteq act
      /\ \A k \in SwapKey : Positions(k) \subseteq Position
      /\ \A k \in DOMAIN ps : ps[k] \subseteq Positions(k)
      /\ \A s \in Robot : place[s] \in Position
  BY ActiveKeys, KeyPositions DEF Typed, RobotTypes, Active
<1>3. cs # <<>> =>
         /\ Head(cs).op = "resolve" => Head(cs).at \in Position
         /\ Head(cs).op \in {"switch", "switch_second"} =>
               Head(cs).from \in Position /\ Head(cs).to \in Position
  <2>1. cs # <<>> => Head(cs) \in SwapCall
    BY DEF Typed
  <2> QED BY <2>1, CallFields
<1>4. \A i \in DOMAIN q : Swapped(q, i) =>
         q[i].old \in Position /\ q[i].new \in Position
  BY HandlerFields DEF Typed, Swapped
<1> HIDE DEF act, t
<1>5. /\ Registrations(q) /\ Newcomers(m, act, q) /\ OneEntryEach(m) /\ Apart(act)
      /\ Home(m, act) /\ Away(m, act) /\ Acked(m, ps)
      /\ Notifications(m, ps, act, q) /\ CallOrder(cs) /\ Resolving(m, cs)
      /\ Switching(m, ps, act, cs) /\ Committing(m, act, q, cs)
  BY DEF Orderly, act
<1>6. PICK k \in act : p \in Positions(k)
  BY <1>5 DEF Home, AtHome, Busy
<1>7. /\ m[p].cached = p /\ p # o /\ o \in Positions(k)
      /\ target[m[p].robot] = None /\ commits[m[p].robot] = 0
  <2>1. OnItsWay(m, k, p)
    BY <1>5, <1>6 DEF Away
  <2>2. o # p /\ o \in Positions(k) /\ target[m[p].robot] = None
    BY <2>1 DEF OnItsWay
  <2>3. Positions(k) = {p, o}
    BY <2>2, <1>2, <1>6, KeyPositions
  <2> QED BY <2>1, <2>2, <2>3 DEF OnItsWay
<1>8. Key(p, o) = k
  <2>1. Positions(k) = {p, o}
    BY <1>2, <1>6, <1>7, KeyPositions
  <2> QED BY <2>1, <1>2, <1>7, OnlyKey
<1>9. \A x \in Position : /\ n[x] = None <=> m[x] = None
                          /\ m[x] # None => n[x].robot = m[x].robot
                          /\ m[x] # None => n[x].link = m[x].link
  OBVIOUS
<1>10. \A r : Registering(t, r) <=> Registering(q, r)
  BY <1>1 DEF Registering
<1>11. Registrations(t)
  BY <1>1, <1>5 DEF Registrations
<1>12. Newcomers(n, act, t)
  BY <1>2, <1>5, <1>9, <1>10 DEF Newcomers
<1>13. OneEntryEach(n)
  BY <1>5, <1>9 DEF OneEntryEach
<1>14. Home(n, act)
  <2>1. Busy(act, p)
    BY <1>6 DEF Busy
  <2> QED BY <2>1, <1>5 DEF Home, AtHome
<1>15. Away(n, act)
  <2>1. ASSUME NEW l \in act, NEW x \in Positions(l), n[x] # None
        PROVE  OnItsWay(n, l, x)
    <3>1. CASE x = p
      <4>1. l = k
        BY <2>1, <3>1, <1>5, <1>6 DEF Apart
      <4> QED BY <3>1, <4>1, <1>7 DEF OnItsWay
    <3>2. CASE x # p
      BY <2>1, <3>2, <1>2, <1>5 DEF Away, OnItsWay
    <3> QED BY <3>1, <3>2
  <2> QED BY <2>1 DEF Away
<1>16. Acked(n, ps)
  BY <1>2, <1>5, <1>7 DEF Acked
<1>17. \A i \in DOMAIN q :
          Swapped(q, i) /\ KeyOf(q, i) \in act => q[i].old # p
  BY <1>5, <1>7 DEF Notifications
<1>18. \A x \in Position : Dead(m, act, q, x) => Dead(n, act, t, x)
  BY <1>9, <1>10 DEF Dead
<1>19. Notifications(n, ps, act, t)
  <2>1. ASSUME NEW i \in DOMAIN t, Swapped(t, i)
        PROVE  /\ t[i].old # t[i].new
               /\ IF KeyOf(t, i) \in act
                  THEN n[t[i].old] # None =>
                          /\ n[t[i].old].cached = t[i].new
                          /\ KeyOf(t, i) \in DOMAIN ps =>
                                t[i].old \notin ps[KeyOf(t, i)]
                  ELSE Dead(n, act, t, t[i].old) \/ Dead(n, act, t, t[i].new)
    <3>1. CASE t[i] = h
      <4>1. k \in DOMAIN ps => p \notin ps[k]
        BY <1>5, <1>7 DEF Acked
      <4>2. t[i].old = p /\ t[i].new = o /\ KeyOf(t, i) = k
        BY <3>1, <1>7, <1>8 DEF KeyOf
      <4> QED BY <4>1, <4>2, <1>7
    <3>2. CASE i \in DOMAIN q /\ t[i] = q[i]
      <4>1. Swapped(q, i) /\ KeyOf(t, i) = KeyOf(q, i)
        BY <2>1, <3>2 DEF Swapped, KeyOf
      <4>2. /\ q[i].old # q[i].new
            /\ IF KeyOf(q, i) \in act
               THEN m[q[i].old] # None =>
                       /\ m[q[i].old].cached = q[i].new
                       /\ KeyOf(q, i) \in DOMAIN ps =>
                             q[i].old \notin ps[KeyOf(q, i)]
               ELSE Dead(m, act, q, q[i].old) \/ Dead(m, act, q, q[i].new)
        BY <3>2, <4>1, <1>5 DEF Notifications
      <4>3. CASE KeyOf(q, i) \in act
        <5>1. n[q[i].old] = m[q[i].old]
          BY <3>2, <4>1, <4>3, <1>4, <1>17
        <5> QED BY <3>2, <4>1, <4>2, <4>3, <5>1
      <4>4. CASE KeyOf(q, i) \notin act
        BY <3>2, <4>1, <4>2, <4>4, <1>4, <1>18
      <4> QED BY <4>3, <4>4
    <3> QED BY <3>1, <3>2, <1>1
  <2>2. ASSUME NEW i \in DOMAIN t, NEW j \in DOMAIN t,
               Swapped(t, i), Swapped(t, j), t[i].old = t[j].old,
               n[t[i].old] # None, KeyOf(t, i) \in act, KeyOf(t, j) \in act
        PROVE  i = j
    <3>1. \A x \in DOMAIN t :
             \/ /\ x \in DOMAIN q /\ t[x] = q[x]
                /\ Swapped(t, x) => Swapped(q, x) /\ KeyOf(q, x) = KeyOf(t, x)
             \/ t[x] = h /\ x = Len(q) + 1
      BY <1>1 DEF Swapped, KeyOf
    <3>2. CASE t[i] = h /\ i = Len(q) + 1
      BY <2>2, <3>1, <3>2, <1>7, <1>17
    <3>3. CASE t[j] = h /\ j = Len(q) + 1
      BY <2>2, <3>1, <3>3, <1>7, <1>17
    <3>4. CASE /\ i \in DOMAIN q /\ t[i] = q[i] /\ Swapped(q, i)
               /\ KeyOf(q, i) = KeyOf(t, i)
               /\ j \in DOMAIN q /\ t[j] = q[j] /\ Swapped(q, j)
               /\ KeyOf(q, j) = KeyOf(t, j)
      <4>1. m[q[i].old] # None
        BY <2>2, <3>4, <1>4, <1>9
      <4> QED BY <2>2, <3>4, <4>1, <1>5 DEF Notifications
    <3> QED BY <2>2, <3>1, <3>2, <3>3, <3>4
  <2> QED BY <2>1, <2>2 DEF Notifications
<1>20. Resolving(n, cs)
  BY <1>3, <1>5, <1>9 DEF Resolving
<1>21. Switching(n, ps, act, cs)
  <2>1. cs # <<>> /\ Head(cs).op = "switch_second" => Head(cs).to # p
    BY <1>5, <1>7 DEF Switching
  <2> QED BY <2>1, <1>3, <1>5, <1>9 DEF Switching
<1>22. Committing(n, act, t, cs)
  BY <1>5, <1>9, <1>10 DEF Committing
<1> QED BY <1>5, <1>11, <1>12, <1>13, <1>14, <1>15, <1>16, <1>19, <1>20, <1>21, <1>22
     DEF Orderly, act, t

LEMMA PositionChangedOrdered ==
    ASSUME ControllerInv, ControllerInv', Ordered,
           NEW p \in Position, PositionChanged(p)
    PROVE  Ordered'
<1>1. /\ known[p] # None /\ known[p].link = "live" /\ known[p] \in RemoteType
      /\ known[p].robot \in Robot
  BY EntryFields DEF PositionChanged, Alive, ControllerInv, MapTypes
<1>2. PICK o \in Position : o = place[known[p].robot]
  BY <1>1 DEF ControllerInv, RobotTypes
<1> DEFINE h == [op |-> "swapped", old |-> known[p].cached, new |-> o]
           e == [known[p] EXCEPT !.cached = o]
<1>3. /\ known[p].cached # o /\ io' = Append(io, h)
      /\ known' = [known EXCEPT ![p] = e]
      /\ UNCHANGED <<pending_swaps, registered, calls, running, robotVars, client>>
  BY <1>2 DEF PositionChanged
<1>4. /\ e \in RemoteType /\ e.robot = known[p].robot /\ e.cached = o
      /\ e.link = known[p].link
  BY <1>1 DEF RemoteType
<1>5. h \in Handler /\ h.op = "swapped" /\ h.old = known[p].cached /\ h.new = o
  BY <1>1 DEF Handler, RemoteType
<1> HIDE DEF h, e
<1>6. known'[p] = e /\ e # None /\ \A x \in Position \ {p} : known'[x] = known[x]
  BY <1>3, <1>4, NoneIsNoRemote DEF ControllerInv, MapTypes, Remotes
<1>7. /\ Typed(known, pending_swaps, io, calls) /\ RobotTypes
      /\ Orderly(known, pending_swaps, io, calls)
  BY TypedState DEF ControllerInv, Ordered
<1>8. Orderly(known', pending_swaps, Append(io, h), calls)
  <2>1. /\ known'[p] # None /\ known'[p].robot = known[p].robot
        /\ known'[p].link = known[p].link /\ known'[p].cached = o
    BY <1>4, <1>6
  <2>2. known[p] # None /\ known[p].link = "live" /\ known[p].cached # o
    BY <1>1, <1>3
  <2>3. \A x \in Position \ {p} : known'[x] = known[x]
    BY <1>6
  <2> QED BY <1>2, <1>5, <1>7, <2>1, <2>2, <2>3, ArrivingKeeps
<1>9. Orderly(known', pending_swaps', io', calls')
  BY <1>3, <1>8
<1>10. registered' = Cardinality(Occupied(known'))
  <2>1. Occupied(known') = Occupied(known)
    BY <1>1, <1>6, SMTT(60) DEF Occupied
  <2> QED BY <2>1, <1>3 DEF Ordered, Counted
<1> QED BY <1>3, <1>9, <1>10, HandlerOrdered

------------------------------------------------------------------------------
(* The theorems.                                                            *)

LEMMA FaultsGrow ==
    ASSUME [Next]_vars
    PROVE  faults \subseteq faults'
<1>1. CASE WorkerStep
  <2>1. \/ faults' = faults \/ Fault("answer")
    BY <1>1 DEF WorkerStep, HandleRobotRegistration, Resolve, HandleNextRobotRequest,
       Answer, AnswerFails, SwitchSkipped, SwitchFirst, SwitchFirstFails,
       SwitchSecond, SwitchSecondFails, ReconfigureSkipped, ReconfigureCall,
       HandlePositionSwapped, Commit, HandleCapabilitiesReconfigured, boundVars
  <2> QED BY <2>1, SMTT(60) DEF Fault
<1>2. CASE RemoteStep
  BY <1>2 DEF RemoteStep, PositionChanged, CapabilitiesChanged, RemoteStops, boundVars
<1>3. CASE \E r \in Robot : RobotStep(r)
  BY <1>3 DEF RobotStep, Move, CompleteReconfiguration, HandleNewPositionCommit,
     Register, DropController, boundVars
<1>4. CASE Disturbance
  BY <1>4 DEF Disturbance, Ask, ReceiverBreaks, RobotCrashes, LinkBreaks,
     RemoteFails, ControllerCrashes, Fault
<1>5. CASE UNCHANGED vars
  BY <1>5 DEF vars, boundVars
<1> QED BY <1>1, <1>2, <1>3, <1>4, <1>5, SMTT(60) DEF Next

LEMMA InitOrdered == Init => Ordered
<1> SUFFICES ASSUME Init PROVE Ordered
  OBVIOUS
<1>1. ControllerInv
  BY InitEstablishes
<1>2. /\ \A p \in Position : known[p] = None
      /\ pending_swaps = NoSwaps /\ io = <<>> /\ calls = <<>>
      /\ \A r \in Robot : client[r] = "null" /\ place[r] = StartPosition[r]
  BY DEF Init, NoRobots
<1>3. DOMAIN pending_swaps = {} /\ Active(pending_swaps, <<>>) = {}
  <2>1. DOMAIN NoSwaps = {} /\ ~ SecondCall(<<>>)
    BY DEF NoSwaps, SecondCall
  <2> QED BY <2>1, <1>2 DEF Active
<1>4. \A r \in Robot : Idle(r)
  BY DEF Init, Idle
<1>5. /\ Registrations(<<>>) /\ Notifications(known, pending_swaps, {}, <<>>)
  BY <1>2 DEF Registrations, Notifications
<1>6. Newcomers(known, {}, <<>>)
  <2>1. \A r \in Robot : place[r] \in Position
    BY <1>1 DEF ControllerInv, RobotTypes
  <2>2. \A r, s \in Robot : place[r] = place[s] => r = s
    BY <1>2, ControllerAssumption
  <2> QED BY <1>2, <1>4, <2>1, <2>2 DEF Newcomers, Busy
<1>7. /\ OneEntryEach(known) /\ Apart({}) /\ Home(known, {}) /\ Away(known, {})
      /\ Acked(known, pending_swaps)
  BY <1>2, <1>3 DEF OneEntryEach, Apart, Home, Away, Acked
<1>8. /\ CallOrder(<<>>) /\ Resolving(known, <<>>)
      /\ Switching(known, pending_swaps, {}, <<>>)
      /\ Committing(known, {}, <<>>, <<>>)
  BY DEF CallOrder, Resolving, Switching, Committing
<1>9. Orderly(known, pending_swaps, io, calls)
  BY <1>2, <1>3, <1>5, <1>6, <1>7, <1>8 DEF Orderly
<1>10. Counted(known)
  <2>1. Occupied(known) = {}
    BY <1>2 DEF Occupied
  <2> QED BY <2>1, FS_EmptySet DEF Counted, Init
<1>11. running /\ Phases
  BY <1>4 DEF Phases, Init
<1> QED BY <1>9, <1>10, <1>11 DEF Ordered

LEMMA SwapStep ==
    ControllerInv /\ SwapInv /\ [Next]_vars => SwapInv'
<1> SUFFICES ASSUME ControllerInv, SwapInv, [Next]_vars, Calm'
             PROVE  Ordered'
  BY DEF SwapInv
<1>1. ControllerInv' /\ Calm
  BY NextKeeps, FaultsGrow DEF Calm
<1>2. Ordered
  BY <1>1 DEF SwapInv
<1>3. CASE WorkerStep
  <2>1. CASE HandleRobotRegistration \/ HandleNextRobotRequest
               \/ HandlePositionSwapped \/ HandleCapabilitiesReconfigured
    BY <2>1, <1>1, <1>2, RegistrationOrdered, NextRobotOrdered,
       PositionSwappedOrdered, CapabilitiesReconfiguredOrdered
  <2>2. CASE Resolve \/ Commit \/ Answer \/ AnswerFails \/ SwitchSkipped
               \/ ReconfigureSkipped
    BY <2>2, <1>1, <1>2, ResolveOrdered, CommitOrdered, AnsweringOrdered,
       SkippingOrdered
  <2>3. CASE SwitchFirst \/ SwitchFirstFails \/ SwitchSecond \/ SwitchSecondFails
               \/ ReconfigureCall
    BY <2>3, <1>1, <1>2, SwitchFirstOrdered, SwitchFirstFailsOrdered,
       SwitchSecondOrdered, SwitchSecondFailsOrdered, ReconfigureCallOrdered
  <2> QED BY <1>3, <2>1, <2>2, <2>3 DEF WorkerStep
<1>4. CASE RemoteStep
  BY <1>4, <1>1, <1>2, PositionChangedOrdered, CapabilitiesChangedOrdered,
     StoppingOrdered DEF RemoteStep
<1>5. ASSUME NEW r \in Robot, RobotStep(r)
      PROVE  Ordered'
  BY <1>5, <1>1, <1>2, MoveOrdered, CompletionOrdered, RegisterOrdered
     DEF RobotStep
<1>6. CASE Disturbance
  <2>1. ~ ControllerCrashes /\ \A r \in Robot : ~ LinkBreaks(r)
    BY DEF ControllerCrashes, LinkBreaks, Fault, Calm
  <2> QED BY <1>6, <2>1, <1>1, <1>2, ReceiverOrdered, RobotCrashesOrdered,
             StoppingOrdered DEF Disturbance
<1>7. CASE UNCHANGED vars
  <2>1. /\ UNCHANGED <<robotVars, running, client>>
        /\ UNCHANGED <<known, pending_swaps, io, calls, registered>>
    BY <1>7 DEF vars, mapVars, workVars
  <2>2. Orderly(known', pending_swaps', io', calls')
    BY <2>1, <1>2 DEF Ordered
  <2>3. registered' = Cardinality(Occupied(known'))
    BY <2>1, <1>2 DEF Ordered, Counted
  <2> QED BY <1>1, <1>2, <2>1, <2>2, <2>3, HandlerOrdered
<1> QED BY <1>3, <1>4, <1>5, <1>6, <1>7 DEF Next

(* SwapInv holds in every state the controller reaches.                     *)
THEOREM SwapInvariance == Spec => []SwapInv
<1>1. Init => SwapInv
  BY InitOrdered DEF SwapInv
<1> QED BY <1>1, Invariance, SwapStep, PTL DEF Spec

(* A robot that takes orders has no adaptation before it, whatever answers, *)
(* robots and receivers fail: both halves of a swap are told to end once,   *)
(* after both robots moved.                                                 *)
THEOREM AvailableRobotsAreIdle == Spec => []AvailableIsIdle
<1>1. SwapInv => AvailableIsIdle
  BY DEF SwapInv, Calm, Ordered, AvailableIsIdle, Phases, Idle, Reconfiguring,
     Moving, Moved
<1> QED BY <1>1, SwapInvariance, PTL

(* While connections and the controller hold, the branches that "should     *)
(* actually never be entered" (controller.cpp:342, 367) are not entered,    *)
(* whichever robots, receivers and answers fail in the middle of a swap.    *)
THEOREM SwapsAreNotRefused == Spec => [](Calm => NeverRefused)
<1>1. SwapInv => (Calm => NeverRefused)
  BY DEF SwapInv, Ordered, NeverRefused
<1> QED BY <1>1, SwapInvariance, PTL

(* And REGISTERED_ROBOTS is the number of robots in the map, and no robot   *)
(* is in it twice: RegisteredCounted, which says so of the robots the map   *)
(* still reaches, and OneEntryEach, which says so of all.                   *)
THEOREM RobotsAreCounted ==
    Spec => [](Calm => RegisteredCounted /\ OneEntryEach(known))
<1>1. ASSUME SwapInv, Calm
      PROVE  RegisteredCounted /\ OneEntryEach(known)
  <2>1. /\ registered = Cardinality({p \in Position : known[p] # None})
        /\ OneEntryEach(known)
    BY <1>1 DEF SwapInv, Ordered, Counted, Occupied, Orderly
  <2>2. RegisteredOnce
    BY <2>1 DEF RegisteredOnce, OneEntryEach, Alive
  <2> QED BY <2>1, <2>2 DEF RegisteredCounted
<1>2. SwapInv => (Calm => RegisteredCounted /\ OneEntryEach(known))
  BY <1>1
<1> QED BY <1>2, SwapInvariance, PTL


------------------------------------------------------------------------------
(* Whose place it is, as long as only robots and receivers fail: then a     *)
(* link holds exactly as long as its robot, and the call of a swap reaches  *)
(* whom it is for.                                                          *)
Uncut == faults \subseteq {"robot", "receiver"}

Linked(m) ==
    \A p \in Position : m[p] # None => (m[p].link = "live" <=> up[m[p].robot])

(* A robot that is up is in the map, or about to be.                        *)
Entered(m, q) ==
    \A r \in Robot : up[r] /\ ~ Registering(q, r) =>
        \E p \in Position : m[p] # None /\ m[p].robot = r

(* A commit is for the robot at the position it is called at.               *)
Aimed(m, cs) ==
    \A i \in DOMAIN cs : cs[i].op = "commit" =>
        m[cs[i].at] # None /\ m[cs[i].at].robot = cs[i].robot

(* The place of a robot with a commit, called or still to be called, is in  *)
(* no swap and nobody else's.                                               *)
Due(cs, r) == \E i \in DOMAIN cs : cs[i].op = "commit" /\ cs[i].robot = r
HasItsPlace(act, r) ==
    /\ ~ Busy(act, place[r])
    /\ \A s \in Robot : up[s] /\ place[s] = place[r] => s = r
Placed(act, cs) ==
    \A r \in Robot : commits[r] > 0 \/ (up[r] /\ Due(cs, r)) => HasItsPlace(act, r)

InPlace ==
    /\ Linked(known) /\ Entered(known, io) /\ Aimed(known, calls)
    /\ Placed(Active(pending_swaps, calls), calls)

PlaceInv == Uncut => InPlace

------------------------------------------------------------------------------
(* What most steps have in common.                                          *)

(* Nobody moves, no swap begins, and what is committed was due.             *)
LEMMA PlacedFrame ==
    ASSUME ControllerInv, ControllerInv', InPlace, UNCHANGED place,
           \A r \in Robot : up'[r] => up[r],
           Active(pending_swaps', calls') \subseteq Active(pending_swaps, calls),
           \A r \in Robot :
              commits'[r] > 0 => commits[r] > 0 \/ (up[r] /\ Due(calls, r)),
           \A r \in Robot : Due(calls', r) => Due(calls, r)
    PROVE  Placed(Active(pending_swaps, calls), calls)'
<1> DEFINE act == Active(pending_swaps, calls)
           new == Active(pending_swaps', calls')
<1>1. Placed(act, calls) /\ new \subseteq act
  BY DEF InPlace
<1>2. act' = new
  BY DEF Active, SecondCall
<1> HIDE DEF act, new
<1>3. ASSUME NEW r \in Robot, HasItsPlace(act, r)
      PROVE  HasItsPlace(act, r)'
  BY <1>1, <1>2, <1>3 DEF HasItsPlace, Busy
<1>4. ASSUME NEW r \in Robot, commits'[r] > 0 \/ (up'[r] /\ Due(calls', r))
      PROVE  HasItsPlace(act, r)
  BY <1>1, <1>4 DEF Placed
<1>5. Placed(act, calls)'
  BY <1>3, <1>4 DEF Placed, Due
<1> QED BY <1>5 DEF act

(* The entries stay where they are, with their robots and as much of their  *)
(* links as the robots are up.                                              *)
SameRobots(m, n) ==
    \A p \in Position :
        /\ n[p] = None <=> m[p] = None
        /\ m[p] # None => /\ n[p].robot = m[p].robot
                          /\ n[p].link = "live" <=> m[p].link = "live"

LEMMA SameRobotsFacts ==
    ASSUME NEW m, NEW n, SameEntries(m, n),
           \A p \in Position : m[p] # None /\ m[p].link = "live"
                                  => n[p].link = "live"
    PROVE  SameRobots(m, n)
  BY DEF SameEntries, SameRobots

LEMMA StillRobots == \A m : SameRobots(m, m)
  BY DEF SameRobots

(* A robot whose call fails had stopped.                                    *)
LEMMA StoppedRobot ==
    ASSUME ControllerInv, NEW p \in Position, ~ Alive(p)
    PROVE  SameRobots(known, Stop(known, p))
<1>1. SameEntries(known, Stop(known, p))
  BY StoppedEntry DEF ControllerInv, MapTypes
<1>2. \A o \in Position \ {p} : Stop(known, p)[o] = known[o]
  BY DEF Stop, ControllerInv, MapTypes, Remotes
<1> QED BY <1>1, <1>2, SameRobotsFacts DEF Alive

LEMMA QuietInPlace ==
    ASSUME ControllerInv, ControllerInv', InPlace, SameRobots(known, known'),
           UNCHANGED <<place, up>>,
           \A r \in Robot : Registering(io, r) => Registering(io, r)',
           Active(pending_swaps', calls') \subseteq Active(pending_swaps, calls),
           \A r \in Robot :
              commits'[r] > 0 => commits[r] > 0 \/ (up[r] /\ Due(calls, r)),
           \A i \in DOMAIN calls' : \E j \in DOMAIN calls : calls'[i] = calls[j]
    PROVE  InPlace'
<1>1. Linked(known) /\ Entered(known, io) /\ Aimed(known, calls)
  BY DEF InPlace
<1>2. \A i \in DOMAIN calls : calls[i].op = "commit" => calls[i].at \in Position
  BY CallFields DEF ControllerInv, WorkTypes
<1>3. Linked(known)'
  BY <1>1 DEF Linked, SameRobots
<1>4. Entered(known, io)'
  <2>1. ASSUME NEW r \in Robot, up'[r], ~ Registering(io, r)'
        PROVE  \E p \in Position : known'[p] # None /\ known'[p].robot = r
    <3>1. PICK p \in Position : known[p] # None /\ known[p].robot = r
      BY <2>1, <1>1 DEF Entered
    <3> QED BY <3>1 DEF SameRobots
  <2> QED BY <2>1 DEF Entered
<1>5. Aimed(known, calls)'
  <2>1. ASSUME NEW i \in DOMAIN calls', calls'[i].op = "commit"
        PROVE  /\ known'[calls'[i].at] # None
               /\ known'[calls'[i].at].robot = calls'[i].robot
    <3>1. PICK j \in DOMAIN calls : calls'[i] = calls[j]
      OBVIOUS
    <3>2. /\ calls[j].at \in Position /\ known[calls[j].at] # None
          /\ known[calls[j].at].robot = calls[j].robot
      BY <3>1, <2>1, <1>1, <1>2 DEF Aimed
    <3> QED BY <3>1, <3>2 DEF SameRobots
  <2> QED BY <2>1 DEF Aimed
<1>6. \A r \in Robot : Due(calls', r) => Due(calls, r)
  <2> SUFFICES ASSUME NEW r \in Robot, Due(calls', r)
               PROVE  Due(calls, r)
    OBVIOUS
  <2>1. PICK i \in DOMAIN calls' : calls'[i].op = "commit" /\ calls'[i].robot = r
    BY DEF Due
  <2>2. PICK j \in DOMAIN calls : calls'[i] = calls[j]
    OBVIOUS
  <2> QED BY <2>1, <2>2 DEF Due
<1>7. Placed(Active(pending_swaps, calls), calls)'
  BY <1>6, PlacedFrame
<1> QED BY <1>3, <1>4, <1>5, <1>7 DEF InPlace

(* Of a handler's calls one is made: no swap begins by it.                  *)
LEMMA OneCallLess ==
    ASSUME ControllerInv, calls # <<>>, calls' = Tail(calls), Ordered
    PROVE  /\ \A i \in DOMAIN calls' : \E j \in DOMAIN calls : calls'[i] = calls[j]
           /\ ~ SecondCall(calls')
<1>1. /\ calls \in Seq(SwapCall) /\ Head(calls) = calls[1]
      /\ \A i \in DOMAIN Tail(calls) :
            i + 1 \in DOMAIN calls /\ Tail(calls)[i] = calls[i + 1] /\ i + 1 # 1
  BY DEF ControllerInv, WorkTypes
<1>2. \A i \in DOMAIN calls' : \E j \in DOMAIN calls : calls'[i] = calls[j]
  BY <1>1
<1>3. ASSUME SecondCall(calls') PROVE FALSE
  <2>1. 1 \in DOMAIN Tail(calls) /\ Head(Tail(calls)) = Tail(calls)[1]
    BY <1>1, <1>3 DEF SecondCall
  <2>2. 2 \in DOMAIN calls /\ calls[2].op = "switch_second"
    BY <2>1, <1>1, <1>3 DEF SecondCall
  <2> QED BY <2>2 DEF Ordered, Orderly, CallOrder
<1> QED BY <1>2, <1>3

LEMMA CallInPlace ==
    ASSUME ControllerInv, ControllerInv', Ordered, InPlace,
           SameRobots(known, known'), UNCHANGED <<place, up, io, client>>,
           calls # <<>>, calls' = Tail(calls),
           DOMAIN pending_swaps' \subseteq Active(pending_swaps, calls),
           \A r \in Robot :
              commits'[r] > 0 => commits[r] > 0 \/ (up[r] /\ Due(calls, r))
    PROVE  InPlace'
<1>1. /\ \A i \in DOMAIN calls' : \E j \in DOMAIN calls : calls'[i] = calls[j]
      /\ ~ SecondCall(calls')
  BY OneCallLess
<1>2. Active(pending_swaps', calls') \subseteq Active(pending_swaps, calls)
  BY <1>1 DEF Active
<1>3. \A r \in Robot : Registering(io, r) => Registering(io, r)'
  BY DEF Registering
<1> QED BY <1>1, <1>2, <1>3, QuietInPlace

LEMMA AnsweringInPlace ==
    ASSUME ControllerInv, ControllerInv', Ordered, InPlace, Answer \/ AnswerFails
    PROVE  InPlace'
<1>1. /\ UNCHANGED <<known, pending_swaps, place, up, io, client, commits>>
      /\ calls # <<>> /\ calls' = Tail(calls)
  BY DEF Answer, AnswerFails, Calling, mapVars, robotVars
<1>2. DOMAIN pending_swaps' \subseteq Active(pending_swaps, calls)
  BY <1>1 DEF Active
<1>3. SameRobots(known, known')
  BY <1>1, StillRobots
<1> QED BY <1>1, <1>2, <1>3, CallInPlace

LEMMA SkippingInPlace ==
    ASSUME ControllerInv, ControllerInv', Ordered, InPlace,
           SwitchSkipped \/ ReconfigureSkipped
    PROVE  InPlace'
<1>1. /\ UNCHANGED <<pending_swaps, place, up, io, client, commits>>
      /\ calls # <<>> /\ calls' = Tail(calls)
  BY DEF SwitchSkipped, ReconfigureSkipped, Calling, robotVars
<1>2. DOMAIN pending_swaps' \subseteq Active(pending_swaps, calls)
  BY <1>1 DEF Active
<1>3. \/ known' = known
      \/ \E p \in Position : ~ Alive(p) /\ known' = Stop(known, p)
  <2>1. CASE SwitchSkipped
    <3>1. Head(calls).from \in Position /\ Head(calls).to \in Position
      BY <2>1, CallingType, CallFields DEF SwitchSkipped, ControllerInv
    <3> QED BY <2>1, <3>1 DEF SwitchSkipped, StopUnlessAlive
  <2>2. CASE ReconfigureSkipped
    <3>1. Head(calls).at \in Position
      BY <2>2, CallingType, CallFields DEF ReconfigureSkipped, ControllerInv
    <3> QED BY <2>2, <3>1 DEF ReconfigureSkipped, StopUnlessAlive
  <2> QED BY <2>1, <2>2
<1>4. SameRobots(known, known')
  BY <1>3, StillRobots, StoppedRobot
<1> QED BY <1>1, <1>2, <1>4, CallInPlace

LEMMA FlaggedRobot ==
    ASSUME NEW m \in Remotes, NEW p \in Position, m[p] # None
    PROVE  SameRobots(m, Flagged(m, p))
<1>1. SameEntries(m, Flagged(m, p))
  BY FlaggedEntry
<1>2. \A o \in Position \ {p} : Flagged(m, p)[o] = m[o]
  BY DEF Flagged, Remotes
<1>3. Flagged(m, p)[p].link = m[p].link
  <2>1. m[p] \in RemoteType
    BY EntryFields
  <2> QED BY <2>1 DEF Flagged, Remotes, RemoteType
<1> QED BY <1>1, <1>2, <1>3, SameRobotsFacts

LEMMA ReconfigureCallInPlace ==
    ASSUME ControllerInv, ControllerInv', Ordered, InPlace, ReconfigureCall, Uncut'
    PROVE  InPlace'
<1>1. /\ UNCHANGED <<pending_swaps, place, up, io, client, commits>>
      /\ calls # <<>> /\ calls' = Tail(calls)
  BY DEF ReconfigureCall, Calling
<1>2. DOMAIN pending_swaps' \subseteq Active(pending_swaps, calls)
  BY <1>1 DEF Active
<1>3. Head(calls).at \in Position /\ known[Head(calls).at] # None
  BY CallingType, CallFields DEF ReconfigureCall, ControllerInv
<1>4. known' = known \/ known' = Flagged(known, Head(calls).at)
  BY DEF ReconfigureCall, Fault, Uncut
<1>5. SameRobots(known, known')
  BY <1>3, <1>4, StillRobots, FlaggedRobot DEF ControllerInv, MapTypes
<1> QED BY <1>1, <1>2, <1>5, CallInPlace

(* A robot that registered has nothing to be committed.                     *)
LEMMA ResolveInPlace ==
    ASSUME ControllerInv, ControllerInv', Ordered, InPlace, Resolve
    PROVE  InPlace'
<1> DEFINE p == Head(calls).at
<1>1. /\ UNCHANGED <<pending_swaps, place, up, io, client>>
      /\ calls # <<>> /\ Head(calls).op = "resolve" /\ calls' = Tail(calls)
      /\ \/ Alive(p) /\ CommitCall(known[p].robot) /\ known' = known
         \/ ~ Alive(p) /\ known' = Stop(known, p) /\ commits' = commits
  BY DEF Resolve, Calling
<1>2. p \in Position
  BY CallingType, CallFields DEF Resolve, ControllerInv
<1>3. Alive(p) => Idle(known[p].robot)
  BY <1>1 DEF Alive, Ordered, Orderly, Resolving
<1> HIDE DEF p
<1>4. commits' = commits
  BY <1>1, <1>3 DEF CommitCall, Uncommitted, Idle
<1>5. DOMAIN pending_swaps' \subseteq Active(pending_swaps, calls)
  BY <1>1 DEF Active
<1>6. SameRobots(known, known')
  BY <1>1, <1>2, StillRobots, StoppedRobot
<1> QED BY <1>1, <1>4, <1>5, <1>6, CallInPlace

(* The robot a commit reaches is the one it is for, and it is up.           *)
LEMMA CommitInPlace ==
    ASSUME ControllerInv, ControllerInv', Ordered, InPlace, Commit
    PROVE  InPlace'
<1> DEFINE p == Head(calls).at
<1>1. p \in Position /\ Head(calls).robot \in Robot
  BY CallingType, CallFields DEF Commit, ControllerInv
<1>2. PICK r \in Robot : r = Head(calls).robot
  BY <1>1
<1>3. /\ UNCHANGED <<pending_swaps, place, up, io, client>>
      /\ calls # <<>> /\ Head(calls).op = "commit" /\ calls' = Tail(calls)
  BY DEF Commit, Calling
<1>4. known[p] # None /\ known[p].robot = r /\ Due(calls, r)
  <2>1. 1 \in DOMAIN calls /\ calls[1] = Head(calls)
    BY <1>3 DEF ControllerInv, WorkTypes
  <2> QED BY <2>1, <1>2, <1>3 DEF InPlace, Aimed, Due
<1>5. \/ Alive(p) /\ CommitCall(r) /\ known' = known
      \/ ~ Alive(p) /\ known' = Stop(known, p) /\ commits' = commits
  BY <1>2, <1>4 DEF Commit
<1>6. Alive(p) => up[r]
  BY <1>1, <1>4 DEF Alive, InPlace, Linked
<1> HIDE DEF p
<1>7. \A s \in Robot : commits'[s] > 0 => commits[s] > 0 \/ (up[s] /\ Due(calls, s))
  <2>1. CASE Alive(p) /\ CommitCall(r)
    <3>1. \A s \in Robot \ {r} : commits'[s] = commits[s]
      BY <2>1 DEF CommitCall, ControllerInv, RobotTypes
    <3> QED BY <2>1, <3>1, <1>4, <1>6
  <2>2. CASE commits' = commits
    BY <2>2
  <2> QED BY <2>1, <2>2, <1>5
<1>8. DOMAIN pending_swaps' \subseteq Active(pending_swaps, calls)
  BY <1>3 DEF Active
<1>9. SameRobots(known, known')
  BY <1>1, <1>5, StillRobots, StoppedRobot DEF p
<1> QED BY <1>3, <1>7, <1>8, <1>9, CallInPlace

------------------------------------------------------------------------------
(* Swaps begin.                                                             *)

(* The robots a swap is for are available: neither has a commit to come.    *)
LEMMA SwitchFirstInPlace ==
    ASSUME ControllerInv, ControllerInv', Ordered, InPlace, SwitchFirst
    PROVE  InPlace'
<1>1. PICK from \in Position, to \in Position :
         from = Head(calls).from /\ to = Head(calls).to
  BY CallingType, CallFields DEF SwitchFirst, ControllerInv
<1>2. /\ calls # <<>> /\ Head(calls).op = "switch"
      /\ ~ Refused(from, to) /\ ~ Unavailable(from) /\ ~ Unavailable(to)
  BY <1>1 DEF SwitchFirst, Calling
<1>3. Active(pending_swaps, calls) = DOMAIN pending_swaps
  BY <1>2 DEF Active, SecondCall
<1>4. /\ from # to /\ known[from] # None /\ known[to] # None
      /\ ~ Busy(DOMAIN pending_swaps, from) /\ ~ Busy(DOMAIN pending_swaps, to)
  <2>1. /\ from # to /\ ~ Busy(DOMAIN pending_swaps, from)
        /\ ~ Busy(DOMAIN pending_swaps, to) /\ known[from] # None
    BY <1>2 DEF Refused, Swapping, Busy
  <2> QED BY <2>1, <1>1, <1>2, <1>3 DEF Ordered, Orderly, Switching
<1>5. Available(from) /\ Available(to)
  BY <1>2, <1>4 DEF Unavailable
<1>6. \A p \in {from, to} :
         /\ known[p] # None /\ known[p].robot \in Robot /\ known[p].link = "live"
         /\ Idle(known[p].robot) /\ place[known[p].robot] = p
         /\ up[known[p].robot]
  <2> SUFFICES ASSUME NEW p \in {from, to}
               PROVE  /\ known[p] # None /\ known[p].robot \in Robot
                      /\ known[p].link = "live"
                      /\ Idle(known[p].robot) /\ place[known[p].robot] = p
                      /\ up[known[p].robot]
    OBVIOUS
  <2>1. /\ known[p] # None /\ known[p].robot \in Robot /\ known[p].link = "live"
        /\ Idle(known[p].robot)
    BY <1>5, AvailableFacts DEF Ordered
  <2>2. place[known[p].robot] = p
    BY <2>1, <1>3, <1>4 DEF Ordered, Orderly, Home, AtHome
  <2> QED BY <2>1, <2>2 DEF InPlace, Linked
<1>7. WillSwitch(known[from].robot, to)
  BY <1>4, <1>6 DEF WillSwitch, Idle
<1> DEFINE c == [op |-> "switch_second", from |-> from, to |-> to]
<1>8. /\ UNCHANGED <<pending_swaps, io, place, up, commits, client>>
      /\ known' = Flagged(known, from) /\ calls' = <<c>> \o Tail(calls)
  BY <1>1, <1>7 DEF SwitchFirst
<1>9. \A i \in DOMAIN calls' : calls'[i].op # "commit"
  <2>1. /\ c \in SwapCall /\ Tail(calls) \in Seq(SwapCall)
        /\ \A i \in DOMAIN Tail(calls) : i + 1 \in DOMAIN calls
                                         /\ Tail(calls)[i] = calls[i + 1]
    BY <1>2, <1>4 DEF ControllerInv, WorkTypes, SwapCall, Call
  <2>2. \A i \in DOMAIN calls : calls[i].op # "commit"
    <3>1. 1 \in DOMAIN calls /\ calls[1] = Head(calls)
      BY <1>2 DEF ControllerInv, WorkTypes
    <3> QED BY <3>1, <1>2 DEF Ordered, Orderly, CallOrder
  <2>3. c.op # "commit"
    OBVIOUS
  <2> HIDE DEF c
  <2>4. \A i \in DOMAIN calls' : \/ i = 1 /\ calls'[i] = c
                                 \/ i - 1 \in DOMAIN Tail(calls)
                                    /\ calls'[i] = Tail(calls)[i - 1]
    BY <2>1, <1>8
  <2> QED BY <2>1, <2>2, <2>3, <2>4
<1>10. Active(pending_swaps', calls') = DOMAIN pending_swaps \cup {Key(from, to)}
  <2>1. calls' # <<>> /\ Head(calls') = c
    <3>1. c \in SwapCall /\ Tail(calls) \in Seq(SwapCall)
      BY <1>2, <1>4 DEF ControllerInv, WorkTypes, SwapCall, Call
    <3> HIDE DEF c
    <3> QED BY <3>1, <1>8
  <2>2. Key(from, to) \in SwapKey
    BY <1>4, KeyFacts
  <2> QED BY <2>1, <2>2, <1>8 DEF Active, SecondCall
<1>11. Positions(Key(from, to)) = {from, to}
  BY <1>4, KeyFacts
<1> HIDE DEF c
<1>12. SameRobots(known, known')
  BY <1>4, <1>8, FlaggedRobot DEF ControllerInv, MapTypes
<1>13. Linked(known)'
  BY <1>8, <1>12 DEF InPlace, Linked, SameRobots
<1>14. Entered(known, io)'
  <2>1. ASSUME NEW r \in Robot, up'[r], ~ Registering(io, r)'
        PROVE  \E p \in Position : known'[p] # None /\ known'[p].robot = r
    <3>1. ~ Registering(io, r)
      BY <2>1, <1>8 DEF Registering
    <3>2. PICK p \in Position : known[p] # None /\ known[p].robot = r
      BY <2>1, <3>1, <1>8 DEF InPlace, Entered
    <3> QED BY <3>2, <1>12 DEF SameRobots
  <2> QED BY <2>1 DEF Entered
<1>15. Aimed(known, calls)'
  BY <1>9 DEF Aimed
<1>16. Placed(Active(pending_swaps, calls), calls)'
  <2>1. ASSUME NEW r \in Robot, commits'[r] > 0 \/ (up'[r] /\ Due(calls', r))
        PROVE  /\ ~ Busy(DOMAIN pending_swaps \cup {Key(from, to)}, place'[r])
               /\ \A s \in Robot : up'[s] /\ place'[s] = place'[r] => s = r
    <3>1. commits[r] > 0
      BY <2>1, <1>8, <1>9 DEF Due
    <3>2. HasItsPlace(DOMAIN pending_swaps, r)
      BY <3>1, <1>3 DEF InPlace, Placed
    <3>3. place[r] \notin {from, to}
      <4>1. ASSUME NEW p \in {from, to}, place[r] = p
            PROVE  FALSE
        <5>1. known[p].robot = r
          BY <4>1, <3>2, <1>6 DEF HasItsPlace
        <5> QED BY <5>1, <3>1, <1>6 DEF Idle
      <4> QED BY <4>1
    <3> QED BY <3>2, <3>3, <1>8, <1>11 DEF HasItsPlace, Busy
  <2>2. Active(pending_swaps, calls)' = DOMAIN pending_swaps \cup {Key(from, to)}
    BY <1>10 DEF Active, SecondCall
  <2> QED BY <2>1, <2>2 DEF Placed, HasItsPlace, Due
<1> QED BY <1>13, <1>14, <1>15, <1>16 DEF InPlace

LEMMA SwitchSecondInPlace ==
    ASSUME ControllerInv, ControllerInv', Ordered, InPlace, Uncut',
           SwitchSecond \/ SwitchSecondFails
    PROVE  InPlace'
<1>1. PICK from \in Position, to \in Position :
         from = Head(calls).from /\ to = Head(calls).to
  BY CallingType, CallFields DEF SwitchSecond, SwitchSecondFails, ControllerInv
<1>2. Calling("switch_second")
  BY DEF SwitchSecond, SwitchSecondFails
<1>3. known[to] # None /\ Key(from, to) \in SwapKey
  BY <1>1, <1>2, SwitchSecondFacts
<1>4. /\ UNCHANGED <<place, up, io, client, commits>>
      /\ calls # <<>> /\ calls' = Tail(calls)
      /\ \/ pending_swaps' = pending_swaps
         \/ \E acked : pending_swaps' = AddSwap(from, to, acked)
      /\ \/ known' = known
         \/ known' = Flagged(known, to)
         \/ ~ Alive(to) /\ known' = Flagged(Stop(known, to), to)
  <2>1. CASE SwitchSecond
    BY <2>1, <1>1, <1>2, <1>3 DEF SwitchSecond, Calling
  <2>2. CASE SwitchSecondFails
    BY <2>2, <1>1, <1>2, <1>3 DEF SwitchSecondFails, Calling, Fault, Uncut
  <2> QED BY <2>1, <2>2
<1>5. DOMAIN pending_swaps' \subseteq Active(pending_swaps, calls)
  BY <1>1, <1>2, <1>3, <1>4 DEF Active, SecondCall, Calling, AddSwap
<1>6. SameRobots(known, known')
  <2>1. known \in Remotes
    BY DEF ControllerInv, MapTypes
  <2>2. CASE known' = known \/ known' = Flagged(known, to)
    BY <2>1, <2>2, <1>3, StillRobots, FlaggedRobot
  <2>3. CASE ~ Alive(to) /\ known' = Flagged(Stop(known, to), to)
    <3>1. PICK m : m = Stop(known, to)
      OBVIOUS
    <3>2. m \in Remotes /\ SameRobots(known, m)
      BY <2>1, <2>3, <3>1, StopFacts, StoppedRobot
    <3>3. m[to] # None
      BY <3>2, <1>3 DEF SameRobots
    <3>4. SameRobots(m, known')
      BY <2>3, <3>1, <3>2, <3>3, FlaggedRobot
    <3> QED BY <3>2, <3>4 DEF SameRobots
  <2> QED BY <1>4, <2>2, <2>3
<1> QED BY <1>4, <1>5, <1>6, CallInPlace

------------------------------------------------------------------------------
(* The threads of the remote robots, the robots and the receivers.          *)

(* The worker makes no step.                                                *)
LEMMA OutsideInPlace ==
    ASSUME ControllerInv, ControllerInv', InPlace, SameRobots(known, known'),
           UNCHANGED <<place, up, calls, pending_swaps>>,
           \A r \in Robot : Registering(io, r) => Registering(io, r)',
           \A r \in Robot : commits'[r] > 0 => commits[r] > 0
    PROVE  InPlace'
<1>1. Active(pending_swaps', calls') \subseteq Active(pending_swaps, calls)
  OBVIOUS
<1>2. \A i \in DOMAIN calls' : \E j \in DOMAIN calls : calls'[i] = calls[j]
  OBVIOUS
<1> QED BY <1>1, <1>2, QuietInPlace

LEMMA LongerQueue ==
    ASSUME ControllerInv, NEW h, io' = Append(io, h), UNCHANGED client
    PROVE  \A r \in Robot : Registering(io, r) => Registering(io, r)'
<1>1. \A i \in DOMAIN io : i \in DOMAIN io' /\ io'[i] = io[i]
  BY DEF ControllerInv, WorkTypes
<1> QED BY <1>1 DEF Registering

LEMMA RemoteInPlace ==
    ASSUME ControllerInv, ControllerInv', InPlace, NEW p \in Position,
           PositionChanged(p) \/ CapabilitiesChanged(p) \/ RemoteStops(p)
    PROVE  InPlace'
<1>1. /\ UNCHANGED <<pending_swaps, place, up, calls, client, commits>>
      /\ io' = io \/ \E h : io' = Append(io, h)
  BY DEF PositionChanged, CapabilitiesChanged, RemoteStops, workVars, robotVars
<1>2. \A r \in Robot : Registering(io, r) => Registering(io, r)'
  <2>1. CASE io' = io
    BY <2>1, <1>1 DEF Registering
  <2> QED BY <1>1, <2>1, LongerQueue
<1>3. known \in Remotes /\ known[p] # None /\ known[p] \in RemoteType
  BY RobotOfEntry DEF PositionChanged, CapabilitiesChanged, RemoteStops, Alive,
     ControllerInv, MapTypes
<1>4. SameRobots(known, known')
  <2>1. CASE RemoteStops(p)
    BY <2>1, StoppedRobot DEF RemoteStops, Alive
  <2>2. CASE PositionChanged(p) \/ CapabilitiesChanged(p)
    <3>1. place[known[p].robot] \in Position /\ profile[known[p].robot] \in Profile
      BY <1>3 DEF RemoteType, ControllerInv, RobotTypes
    <3>2. \E f : /\ \/ f = [known[p] EXCEPT !.cached = place[known[p].robot]]
                    \/ f = [known[p] EXCEPT !.profile = profile[known[p].robot]]
                 /\ known' = [known EXCEPT ![p] = f]
      BY <2>2 DEF PositionChanged, CapabilitiesChanged
    <3>3. PICK f \in RemoteType :
             /\ f.robot = known[p].robot /\ f.link = known[p].link
             /\ known' = [known EXCEPT ![p] = f]
      BY <1>3, <3>1, <3>2 DEF RemoteType
    <3>4. f # None
      BY NoneIsNoRemote
    <3>5. known'[p] = f /\ \A o \in Position \ {p} : known'[o] = known[o]
      BY <1>3, <3>3 DEF Remotes
    <3> QED BY <1>3, <3>3, <3>4, <3>5 DEF SameRobots
  <2> QED BY <2>1, <2>2
<1>5. \A r \in Robot : commits'[r] > 0 => commits[r] > 0
  BY <1>1
<1> QED BY <1>1, <1>2, <1>4, <1>5, OutsideInPlace

LEMMA ReceiverInPlace ==
    ASSUME ControllerInv, ControllerInv', InPlace, NEW a \in Agent,
           Ask(a) \/ ReceiverBreaks(a)
    PROVE  InPlace'
<1>1. /\ UNCHANGED <<known, pending_swaps, place, up, calls, client, commits>>
      /\ io' = io \/ \E h : io' = Append(io, h)
  BY DEF Ask, ReceiverBreaks, mapVars, workVars, robotVars
<1>2. \A r \in Robot : Registering(io, r) => Registering(io, r)'
  <2>1. CASE io' = io
    BY <2>1, <1>1 DEF Registering
  <2> QED BY <1>1, <2>1, LongerQueue
<1>3. SameRobots(known, known') /\ \A r \in Robot : commits'[r] > 0 => commits[r] > 0
  BY <1>1, StillRobots
<1> QED BY <1>1, <1>2, <1>3, OutsideInPlace

LEMMA RegisterInPlace ==
    ASSUME ControllerInv, ControllerInv', Ordered, InPlace, NEW r \in Robot,
           Register(r) \/ DropController(r)
    PROVE  InPlace'
<1>1. Register(r)
  BY DEF Ordered, Orderly, Registrations, DropController
<1> DEFINE h == [op |-> "register", robot |-> r, position |-> place[r],
                 profile |-> profile[r]]
<1>2. /\ UNCHANGED <<known, pending_swaps, place, up, calls, commits>>
      /\ io' = Append(io, h) /\ client' = [client EXCEPT ![r] = "live"]
  BY <1>1 DEF Register, mapVars, robotVars
<1>3. h.op = "register" /\ h.robot = r
  OBVIOUS
<1> HIDE DEF h
<1>4. /\ \A i \in DOMAIN io : i \in DOMAIN io' /\ io'[i] = io[i]
      /\ Len(io) + 1 \in DOMAIN io' /\ io'[Len(io) + 1] = h
  BY <1>2 DEF ControllerInv, WorkTypes
<1>5. \A s \in Robot : Registering(io, s) => Registering(io, s)'
  <2>1. Registering(io, r)'
    BY <1>3, <1>4 DEF Registering
  <2>2. \A s \in Robot \ {r} : client'[s] = client[s]
    BY <1>2 DEF ControllerInv, LinkTypes
  <2> QED BY <2>1, <2>2, <1>4 DEF Registering
<1>6. SameRobots(known, known') /\ \A s \in Robot : commits'[s] > 0 => commits[s] > 0
  BY <1>2, StillRobots
<1> QED BY <1>2, <1>5, <1>6, OutsideInPlace

LEMMA CompletionInPlace ==
    ASSUME ControllerInv, ControllerInv', InPlace, NEW r \in Robot,
           CompleteReconfiguration(r) \/ HandleNewPositionCommit(r)
    PROVE  InPlace'
<1>1. /\ UNCHANGED <<known, pending_swaps, place, up, calls, client, io>>
      /\ commits' = commits \/ (commits[r] > 0 /\ commits' = [commits EXCEPT ![r] = @ - 1])
  BY DEF CompleteReconfiguration, HandleNewPositionCommit, mapVars, workVars
<1>2. \A s \in Robot : Registering(io, s) => Registering(io, s)'
  BY <1>1 DEF Registering
<1>3. \A s \in Robot : commits'[s] > 0 => commits[s] > 0
  BY <1>1 DEF ControllerInv, RobotTypes
<1>4. SameRobots(known, known')
  BY <1>1, StillRobots
<1> QED BY <1>1, <1>2, <1>3, <1>4, OutsideInPlace

(* A robot moves to its partner's position, which is in a swap: nobody has a*)
(* commit to come there.                                                    *)
LEMMA MoveInPlace ==
    ASSUME ControllerInv, ControllerInv', Ordered, InPlace, NEW r \in Robot, Move(r)
    PROVE  InPlace'
<1> DEFINE act == Active(pending_swaps, calls)
<1>1. /\ UNCHANGED <<known, pending_swaps, io, calls, client, up, commits>>
      /\ target[r] # None /\ up[r]
  BY DEF Move, mapVars, workVars
<1>2. /\ place'[r] = target[r]
      /\ \A s \in Robot \ {r} : place'[s] = place[s]
  BY DEF Move, ControllerInv, RobotTypes
<1>3. commits[r] = 0 /\ ~ Registering(io, r)
  BY <1>1 DEF Ordered, Phases, Idle, Reconfiguring, Moving, Moved, Orderly, Newcomers
<1>4. PICK p \in Position : known[p] # None /\ known[p].robot = r
  BY <1>1, <1>3 DEF InPlace, Entered
<1>5. known[p].link = "live"
  BY <1>1, <1>4 DEF InPlace, Linked
<1>6. Busy(act, p)
  BY <1>1, <1>4, <1>5 DEF Ordered, Orderly, Home, AtHome
<1>7. PICK k \in act : p \in Positions(k)
  BY <1>6 DEF Busy
<1>8. place[r] \in Positions(k) /\ target[r] \in Positions(k)
  <2>1. OnItsWay(known, k, p)
    BY <1>4, <1>7 DEF Ordered, Orderly, Away
  <2> QED BY <2>1, <1>1, <1>4, <1>5 DEF OnItsWay
<1>9. act' = act
  BY <1>1 DEF Active, SecondCall
<1>10. Placed(act, calls)
  BY DEF InPlace
<1> HIDE DEF act
<1>11. ~ Due(calls, r)
  BY <1>1, <1>7, <1>8, <1>10 DEF Placed, HasItsPlace, Busy
<1>12. ASSUME NEW s \in Robot, commits'[s] > 0 \/ (up'[s] /\ Due(calls', s))
       PROVE  HasItsPlace(act, s)'
  <2>1. commits[s] > 0 \/ (up[s] /\ Due(calls, s))
    BY <1>1, <1>12
  <2>2. s # r /\ place'[s] = place[s]
    BY <2>1, <1>2, <1>3, <1>11
  <2>3. HasItsPlace(act, s)
    BY <2>1, <1>10 DEF Placed
  <2>4. place'[r] # place[s]
    BY <2>3, <1>2, <1>7, <1>8 DEF HasItsPlace, Busy
  <2> QED BY <2>2, <2>3, <2>4, <1>1, <1>2, <1>9 DEF HasItsPlace
<1>13. Placed(act, calls)'
  BY <1>12 DEF Placed, Due
<1>14. Linked(known)' /\ Entered(known, io)' /\ Aimed(known, calls)'
  BY <1>1 DEF InPlace, Linked, Entered, Aimed, Registering
<1> QED BY <1>13, <1>14 DEF InPlace, act

(* A link breaks with its robot.                                            *)
LEMMA RobotCrashesInPlace ==
    ASSUME ControllerInv, ControllerInv', InPlace, NEW r \in Robot, RobotCrashes(r)
    PROVE  InPlace'
<1>1. /\ UNCHANGED <<pending_swaps, io, calls, client, place, commits>>
      /\ known' = Cut(known, r)
  BY DEF RobotCrashes, workVars
<1>2. ~ up'[r] /\ \A s \in Robot \ {r} : up'[s] = up[s]
  BY DEF RobotCrashes, ControllerInv, RobotTypes
<1>3. SameEntries(known, known')
  BY <1>1, CutEntries
<1>4. \A p \in Position : known[p] # None =>
         known[p].robot \in Robot /\ known[p] \in RemoteType
  BY RobotOfEntry, EntryFields DEF ControllerInv, MapTypes
<1>5. Linked(known)'
  <2>1. ASSUME NEW p \in Position, known'[p] # None
        PROVE  known'[p].link = "live" <=> up'[known'[p].robot]
    <3>1. /\ known[p] # None /\ known'[p].robot = known[p].robot
          /\ known[p].link = "live" <=> up[known[p].robot]
      BY <2>1, <1>3 DEF SameEntries, InPlace, Linked
    <3>2. CASE known[p].robot = r
      <4>1. CASE Alive(p)
        <5>1. known'[p] = [known[p] EXCEPT !.link = "broken"]
          BY <4>1, <3>2, <1>1 DEF Cut
        <5>2. known'[p].link = "broken"
          BY <5>1, <3>1, <1>4 DEF RemoteType
        <5> QED BY <5>2, <3>1, <3>2, <1>2
      <4>2. CASE ~ Alive(p)
        BY <4>2, <3>1, <3>2, <1>1, <1>2 DEF Cut, Alive
      <4> QED BY <4>1, <4>2
    <3>3. CASE known[p].robot # r
      BY <3>1, <3>3, <1>1, <1>2, <1>4 DEF Cut
    <3> QED BY <3>2, <3>3
  <2> QED BY <2>1 DEF Linked
<1>6. Entered(known, io)'
  <2>1. ASSUME NEW s \in Robot, up'[s], ~ Registering(io, s)'
        PROVE  \E p \in Position : known'[p] # None /\ known'[p].robot = s
    <3>1. up[s] /\ ~ Registering(io, s)
      BY <2>1, <1>1, <1>2 DEF Registering
    <3>2. PICK p \in Position : known[p] # None /\ known[p].robot = s
      BY <3>1 DEF InPlace, Entered
    <3> QED BY <3>2, <1>3 DEF SameEntries
  <2> QED BY <2>1 DEF Entered
<1>7. Aimed(known, calls)'
  <2>1. \A i \in DOMAIN calls : calls[i].op = "commit" => calls[i].at \in Position
    BY CallFields DEF ControllerInv, WorkTypes
  <2> QED BY <2>1, <1>1, <1>3 DEF InPlace, Aimed, SameEntries
<1>8. Placed(Active(pending_swaps, calls), calls)'
  <2>1. \A s \in Robot : up'[s] => up[s]
    BY <1>2
  <2>2. /\ Active(pending_swaps', calls') \subseteq Active(pending_swaps, calls)
        /\ \A s \in Robot : commits'[s] > 0 => commits[s] > 0
        /\ \A s \in Robot : Due(calls', s) => Due(calls, s)
    BY <1>1
  <2> QED BY <1>1, <2>1, <2>2, PlacedFrame
<1> QED BY <1>5, <1>6, <1>7, <1>8 DEF InPlace

------------------------------------------------------------------------------
(* The handlers.                                                            *)

(* Only stopped robots are removed, and they are down.                      *)
LEMMA RemovedInPlace ==
    ASSUME ControllerInv, InPlace
    PROVE  /\ Linked(remove_stopped_robots) /\ Entered(remove_stopped_robots, io)
           /\ \A p \in Position :
                 known[p] # None /\ up[known[p].robot] =>
                    remove_stopped_robots[p] = known[p]
<1> DEFINE m == remove_stopped_robots
<1>1. \A p \in Position : m[p] # None => m[p] = known[p] /\ known[p] # None
  BY RemovedEntries
<1>2. ASSUME NEW p \in Position, known[p] # None, up[known[p].robot]
      PROVE  m[p] = known[p]
  <2>1. known[p].link = "live"
    BY <1>2 DEF InPlace, Linked
  <2> QED BY <2>1 DEF remove_stopped_robots, Gone
<1> HIDE DEF m
<1>3. Linked(m)
  BY <1>1 DEF InPlace, Linked
<1>4. Entered(m, io)
  BY <1>2 DEF InPlace, Entered
<1> QED BY <1>2, <1>3, <1>4 DEF m

LEMMA ShorterQueue ==
    ASSUME ControllerInv, io # <<>>, Head(io).op # "register", io' = Tail(io),
           UNCHANGED client, NEW r \in Robot, Registering(io, r)
    PROVE  Registering(io, r)'
<1>1. CASE client[r] = "null"
  BY <1>1 DEF Registering
<1>2. CASE client[r] # "null"
  <2>1. PICK i \in DOMAIN io : io[i].op = "register" /\ io[i].robot = r
    BY <1>2 DEF Registering
  <2>2. i # 1 /\ Len(io) \in Nat /\ DOMAIN io = 1..Len(io)
    BY <2>1 DEF ControllerInv, WorkTypes
  <2>3. i - 1 \in DOMAIN io' /\ io'[i - 1] = io[i]
    BY <2>1, <2>2 DEF ControllerInv, WorkTypes
  <2> QED BY <2>1, <2>3 DEF Registering
<1> QED BY <1>1, <1>2

LEMMA HandlerInPlace ==
    ASSUME ControllerInv, ControllerInv', InPlace, calls = <<>>,
           UNCHANGED <<up, place, commits>>,
           Linked(known)', Entered(known, io)',
           DOMAIN pending_swaps' \subseteq DOMAIN pending_swaps,
           ~ SecondCall(calls'), \A i \in DOMAIN calls' : calls'[i].op # "commit"
    PROVE  InPlace'
<1>1. Aimed(known, calls)'
  BY DEF Aimed
<1>2. Active(pending_swaps', calls') \subseteq Active(pending_swaps, calls)
  BY DEF Active
<1>3. \A r \in Robot : Due(calls', r) => Due(calls, r)
  BY DEF Due
<1>4. Placed(Active(pending_swaps, calls), calls)'
  BY <1>2, <1>3, PlacedFrame
<1> QED BY <1>1, <1>4 DEF InPlace

(* A handler that enters no robot and rekeys none.                          *)
LEMMA TidyInPlace ==
    ASSUME ControllerInv, ControllerInv', InPlace, calls = <<>>, io # <<>>,
           Head(io).op # "register", io' = Tail(io),
           UNCHANGED <<up, place, commits, client>>,
           SameRobots(remove_stopped_robots, known'),
           DOMAIN pending_swaps' \subseteq DOMAIN pending_swaps,
           ~ SecondCall(calls'), \A i \in DOMAIN calls' : calls'[i].op # "commit"
    PROVE  InPlace'
<1>1. PICK m : m = remove_stopped_robots
  OBVIOUS
<1>2. Linked(m) /\ Entered(m, io) /\ SameRobots(m, known')
  BY <1>1, RemovedInPlace
<1>3. Linked(known)'
  BY <1>2 DEF Linked, SameRobots
<1>4. Entered(known, io)'
  <2>1. ASSUME NEW r \in Robot, up'[r], ~ Registering(io, r)'
        PROVE  \E p \in Position : known'[p] # None /\ known'[p].robot = r
    <3>1. ~ Registering(io, r)
      BY <2>1, ShorterQueue
    <3>2. PICK p \in Position : m[p] # None /\ m[p].robot = r
      BY <2>1, <3>1, <1>2 DEF Entered
    <3> QED BY <3>2, <1>2 DEF SameRobots
  <2> QED BY <2>1 DEF Entered
<1> QED BY <1>3, <1>4, HandlerInPlace

LEMMA CapabilitiesReconfiguredInPlace ==
    ASSUME ControllerInv, ControllerInv', InPlace, HandleCapabilitiesReconfigured
    PROVE  InPlace'
<1> DEFINE p == Head(io).at
           m == remove_stopped_robots
<1>1. /\ io # <<>> /\ calls = <<>> /\ io' = Tail(io) /\ p \in Position
      /\ Head(io).op = "reconfigured"
  BY TakeType, HandlerFields
     DEF HandleCapabilitiesReconfigured, Take, ControllerInv
<1>2. /\ UNCHANGED <<up, place, commits, client, calls>>
      /\ pending_swaps' = AckedByRemoval
      /\ known' = IF m[p] = None THEN m ELSE [m EXCEPT ![p] = Settled(@)]
  BY DEF HandleCapabilitiesReconfigured, robotVars
<1>3. m \in Remotes
  BY RemovedEntries
<1> HIDE DEF m, p
<1>4. SameRobots(m, known')
  <2>1. CASE m[p] = None
    BY <2>1, <1>2, StillRobots
  <2>2. CASE m[p] # None
    <3>1. m[p] \in RemoteType
      BY <2>2, <1>1, <1>3, EntryFields
    <3>2. PICK e : e = Settled(m[p])
      OBVIOUS
    <3>3. /\ e \in RemoteType /\ e # None
          /\ e.robot = m[p].robot /\ e.link = m[p].link
      BY <3>1, <3>2, SettledFacts, NoneIsNoRemote
    <3>4. known'[p] = e /\ \A o \in Position \ {p} : known'[o] = m[o]
      BY <2>2, <3>2, <1>1, <1>2, <1>3 DEF Remotes
    <3> QED BY <2>2, <3>3, <3>4 DEF SameRobots
  <2> QED BY <2>1, <2>2
<1>5. DOMAIN pending_swaps' \subseteq DOMAIN pending_swaps
  BY <1>2 DEF AckedByRemoval
<1>6. ~ SecondCall(calls') /\ \A i \in DOMAIN calls' : calls'[i].op # "commit"
  BY <1>1, <1>2 DEF SecondCall
<1> QED BY <1>1, <1>2, <1>4, <1>5, <1>6, TidyInPlace DEF m

(* The adaptations a request delegates to are begun by later calls.         *)
LEMMA NextRobotCalls ==
    ASSUME ControllerInv, HandleNextRobotRequest
    PROVE  ~ SecondCall(calls') /\ \A i \in DOMAIN calls' : calls'[i].op # "commit"
<1> DEFINE m == remove_stopped_robots
           todo == Remaining(Head(io).recipe, Head(io).steps)
           a == [op |-> "answer", agent |-> Head(io).agent, at |-> Next1(m, todo)]
<1>1. PICK s \in Strategies : \E wanted \in Adaptations(s, m, todo) :
         calls' = wanted \o <<a>>
  BY DEF HandleNextRobotRequest, Reply
<1>2. PICK wanted \in Adaptations(s, m, todo) : calls' = wanted \o <<a>>
  BY <1>1
<1>3. m \in Remotes /\ s \in Strategy
  BY RemovedEntries, ControllerAssumption
<1>4. a.op = "answer"
  OBVIOUS
<1> HIDE DEF m, todo, a
<1>5. /\ calls' # <<>> /\ 1 \in DOMAIN calls' /\ Head(calls') = calls'[1]
      /\ \A i \in DOMAIN calls' :
            (i \in DOMAIN wanted /\ calls'[i] = wanted[i]) \/ calls'[i] = a
  <2> DEFINE S == SwapCall \cup {a}
  <2>1. wanted \in Seq(S) /\ a \in S
    BY <1>3, AdaptationsType
  <2> HIDE DEF S
  <2> QED BY <2>1, <1>2, Appended
<1>6. \A i \in DOMAIN wanted : wanted[i].op \in {"switch", "reconfigure"}
  <2>1. \A p, q : Switch(p, q).op = "switch"
    BY DEF Switch
  <2>2. \A p, f : Reconfigure(p, f).op = "reconfigure"
    BY DEF Reconfigure
  <2>3. \/ wanted = <<>>
        \/ \E c : wanted = <<c>> /\ c.op = "switch"
        \/ \E c, d : wanted = <<c, d>> /\ c.op = "reconfigure" /\ d.op = "reconfigure"
    BY <2>1, <2>2, <1>3, AdaptationsShape
  <2> QED BY <2>3
<1> QED BY <1>4, <1>5, <1>6 DEF SecondCall

LEMMA NextRobotInPlace ==
    ASSUME ControllerInv, ControllerInv', InPlace, HandleNextRobotRequest
    PROVE  InPlace'
<1> DEFINE m == remove_stopped_robots
<1>1. /\ io # <<>> /\ calls = <<>> /\ io' = Tail(io)
      /\ Head(io).op = "next_robot"
  BY DEF HandleNextRobotRequest, Take
<1>2. /\ known' = m /\ pending_swaps' = Swaps
      /\ UNCHANGED <<up, place, commits, client>>
  BY DEF HandleNextRobotRequest, robotVars
<1> HIDE DEF m
<1>3. ~ SecondCall(calls') /\ \A i \in DOMAIN calls' : calls'[i].op # "commit"
  BY NextRobotCalls
<1>4. SameRobots(m, known') /\ Head(io).op # "register"
  BY <1>1, <1>2, StillRobots
<1>5. DOMAIN pending_swaps' \subseteq DOMAIN pending_swaps
  BY <1>2, SwapFacts DEF ControllerInv, Fresh
<1> QED BY <1>1, <1>2, <1>3, <1>4, <1>5, TidyInPlace DEF m

(* A registration is not refused: its position is vacant, and if its robot  *)
(* is still up it enters the map.                                           *)
LEMMA RegistrationInPlace ==
    ASSUME ControllerInv, ControllerInv', Ordered, InPlace, HandleRobotRegistration
    PROVE  InPlace'
<1> DEFINE p == Head(io).position
           m == remove_stopped_robots
<1>1. /\ io # <<>> /\ calls = <<>> /\ io' = Tail(io) /\ p \in Position
      /\ Head(io).op = "register" /\ Head(io).robot \in Robot
  BY TakeType, HandlerFields
     DEF HandleRobotRegistration, Take, ControllerInv
<1>2. PICK r \in Robot : r = Head(io).robot
  BY <1>1
<1> DEFINE e == Remote(r, place[r], profile[r])
           c == [op |-> "resolve", at |-> p]
<1>3. /\ pending_swaps' = Swaps /\ UNCHANGED <<up, place, commits, client>>
      /\ IF Vacant(p) /\ up[r]
         THEN known' = [m EXCEPT ![p] = e] /\ calls' = <<c>>
         ELSE known' = m /\ calls' = calls
  BY <1>2 DEF HandleRobotRegistration, robotVars
<1>4. m \in Remotes /\ Linked(m) /\ Entered(m, io)
  BY RemovedEntries, RemovedInPlace
<1>5. Vacant(p)
  <2>1. 1 \in DOMAIN io /\ io[1] = Head(io)
    BY <1>1 DEF ControllerInv, WorkTypes
  <2>2. p = place[r] /\ Registering(io, r)
    BY <2>1, <1>1, <1>2 DEF Ordered, Orderly, Registrations, Registering
  <2>3. known[p] = None /\ ~ Busy(Active(pending_swaps, calls), p)
    BY <2>2 DEF Ordered, Orderly, Newcomers
  <2>4. m[p] = None
    BY <2>3, <1>1, RemovedEntries
  <2>5. Fresh \subseteq Active(pending_swaps, calls)
    BY DEF Fresh, Active
  <2> QED BY <2>3, <2>4, <2>5 DEF Vacant, Busy
<1>6. e # None /\ e.robot = r /\ e.link = "live"
  <2>1. e \in RemoteType
    <3>1. place[r] \in Position /\ profile[r] \in Profile
      BY DEF ControllerInv, RobotTypes
    <3> QED BY <3>1 DEF Remote, RemoteType
  <2> QED BY <2>1, NoneIsNoRemote DEF Remote
<1>7. c.op = "resolve"
  OBVIOUS
<1> HIDE DEF p, m, e, c
<1>8. \A s \in Robot \ {r} : Registering(io, s) => Registering(io, s)'
  <2> SUFFICES ASSUME NEW s \in Robot \ {r}, Registering(io, s)
               PROVE  Registering(io, s)'
    OBVIOUS
  <2>1. CASE client[s] = "null"
    BY <2>1, <1>3 DEF Registering
  <2>2. CASE client[s] # "null"
    <3>1. PICK i \in DOMAIN io : io[i].op = "register" /\ io[i].robot = s
      BY <2>2 DEF Registering
    <3>2. i # 1 /\ Len(io) \in Nat /\ DOMAIN io = 1..Len(io)
      BY <3>1, <1>2 DEF ControllerInv, WorkTypes
    <3>3. i - 1 \in DOMAIN io' /\ io'[i - 1] = io[i]
      BY <3>1, <3>2, <1>1 DEF ControllerInv, WorkTypes
    <3> QED BY <3>1, <3>3 DEF Registering
  <2> QED BY <2>1, <2>2
<1>9. DOMAIN pending_swaps' \subseteq DOMAIN pending_swaps
  BY <1>3, SwapFacts DEF ControllerInv, Fresh
<1>10. CASE ~ up[r]
  <2>1. known' = m /\ calls' = <<>>
    BY <1>1, <1>3, <1>10
  <2>2. Linked(known)' /\ Entered(known, io)'
    BY <2>1, <1>3, <1>4, <1>8, <1>10 DEF Linked, Entered
  <2> QED BY <2>1, <2>2, <1>1, <1>3, <1>9, HandlerInPlace DEF SecondCall
<1>11. CASE up[r]
  <2>1. known' = [m EXCEPT ![p] = e] /\ calls' = <<c>>
    BY <1>3, <1>5, <1>11
  <2>2. known'[p] = e /\ \A o \in Position \ {p} : known'[o] = m[o]
    BY <2>1, <1>1, <1>4 DEF Remotes, p
  <2>3. Linked(known)'
    BY <2>2, <1>3, <1>4, <1>6, <1>11 DEF Linked
  <2>4. m[p] = None
    BY <1>5 DEF Vacant, m
  <2>5. Entered(known, io)'
    <3>1. ASSUME NEW s \in Robot, up'[s], ~ Registering(io, s)'
          PROVE  \E o \in Position : known'[o] # None /\ known'[o].robot = s
      <4>1. CASE s = r
        <5>1. p \in Position
          BY <1>1 DEF p
        <5> QED BY <4>1, <5>1, <2>2, <1>6
      <4>2. CASE s # r
        <5>1. PICK o \in Position : m[o] # None /\ m[o].robot = s
          BY <4>2, <3>1, <1>3, <1>4, <1>8 DEF Entered
        <5> QED BY <5>1, <2>2, <2>4
      <4> QED BY <4>1, <4>2
    <3> QED BY <3>1 DEF Entered
  <2>6. ~ SecondCall(calls') /\ \A i \in DOMAIN calls' : calls'[i].op # "commit"
    BY <2>1, <1>7 DEF SecondCall
  <2> QED BY <2>3, <2>5, <2>6, <1>1, <1>3, <1>9, HandlerInPlace
<1> QED BY <1>10, <1>11

(* When a swap is complete its robots stand at each other's position, and   *)
(* whoever else is up stands at his own or is in a swap apart from it.      *)
LEMMA ArrivedHaveTheirPlace ==
    ASSUME NEW m \in Remotes, NEW act, NEW q, RobotTypes, Linked(m), Entered(m, q),
           Newcomers(m, act, q), Apart(act), Home(m, act), Away(m, act),
           NEW k \in act, NEW p \in Position, NEW o \in Position, p # o,
           Positions(k) = {p, o}, m[p] # None, up[m[p].robot],
           \A x, y \in {p, o} : x # y /\ m[x] # None /\ m[x].link = "live"
                                   => place[m[x].robot] = y
    PROVE  HasItsPlace(act \ {k}, m[p].robot)
<1>1. place[m[p].robot] = o
  BY DEF Linked
<1>2. Busy(act, o)
  BY DEF Busy
<1>3. ~ Busy(act \ {k}, o)
  BY DEF Busy, Apart
<1>4. ASSUME NEW s \in Robot, up[s], place[s] = o, s # m[p].robot
      PROVE  FALSE
  <2>1. ~ Registering(q, s)
    BY <1>2, <1>4 DEF Newcomers
  <2>2. PICK x \in Position : m[x] # None /\ m[x].robot = s
    BY <2>1, <1>4 DEF Entered
  <2>3. m[x].link = "live"
    BY <2>2, <1>4 DEF Linked
  <2>4. CASE ~ Busy(act, x)
    BY <2>2, <2>3, <2>4, <1>2, <1>4 DEF Home, AtHome
  <2>5. CASE Busy(act, x)
    <3>1. PICK l \in act : x \in Positions(l)
      BY <2>5 DEF Busy
    <3>2. o \in Positions(l)
      BY <3>1, <2>2, <2>3, <1>4 DEF Away, OnItsWay
    <3>3. x \in {p, o}
      BY <3>1, <3>2 DEF Apart
    <3> QED BY <3>3, <2>2, <2>3, <1>4
  <2> QED BY <2>4, <2>5
<1> QED BY <1>1, <1>3, <1>4 DEF HasItsPlace

LEMMA PositionSwappedInPlace ==
    ASSUME ControllerInv, ControllerInv', Ordered, InPlace, HandlePositionSwapped
    PROVE  InPlace'
<1> DEFINE m == remove_stopped_robots
<1>1. /\ io # <<>> /\ calls = <<>> /\ io' = Tail(io) /\ Head(io).op = "swapped"
      /\ Head(io).old \in Position /\ Head(io).new \in Position
      /\ Head(io).op # "register"
  BY TakeType, HandlerFields DEF HandlePositionSwapped, Take, ControllerInv
<1>2. PICK a \in Position, b \in Position : a = Head(io).old /\ b = Head(io).new
  BY <1>1
<1>3. PICK k : k = Key(a, b)
  OBVIOUS
<1>4. /\ UNCHANGED <<up, place, commits, client>>
      /\ \/ known' = m /\ pending_swaps' = Swaps /\ calls' = calls
         \/ /\ k \in Fresh /\ Swaps[k] \cup {a} = Positions(k)
            /\ known' = Rekeyed(m, k)
            /\ pending_swaps' = Restricted(AckedByRemoval, Fresh \ {k})
            /\ calls' = CommitBoth(m, k)
         \/ /\ known' = m /\ calls' = calls
            /\ pending_swaps' = [Swaps EXCEPT ![k] = Swaps[k] \cup {a}]
  BY <1>2, <1>3 DEF HandlePositionSwapped, Complete, robotVars
<1>5. /\ Orderly(m, Swaps, io, <<>>) /\ Typed(m, Swaps, io, <<>>)
      /\ DOMAIN Swaps = Fresh /\ m \in Remotes /\ Active(Swaps, <<>>) = Fresh
      /\ \A p \in Position : m[p] # None => m[p].link # "stopped"
  BY <1>1, TidyFacts, RemovedEntries
<1>6. Linked(m) /\ Entered(m, io) /\ RobotTypes
  BY RemovedInPlace DEF ControllerInv
<1>7. Fresh \subseteq DOMAIN pending_swaps
  BY DEF Fresh
<1>8. CASE known' = m /\ calls' = calls /\ DOMAIN pending_swaps' = Fresh
  <2>1. ~ SecondCall(calls') /\ \A i \in DOMAIN calls' : calls'[i].op # "commit"
    BY <1>1, <1>8 DEF SecondCall
  <2>2. SameRobots(m, known')
    BY <1>8, StillRobots
  <2> QED BY <2>1, <2>2, <1>1, <1>4, <1>7, <1>8, TidyInPlace
<1> HIDE DEF m
<1>9. CASE /\ k \in Fresh /\ Swaps[k] \cup {a} = Positions(k)
           /\ known' = Rekeyed(m, k)
           /\ pending_swaps' = Restricted(AckedByRemoval, Fresh \ {k})
           /\ calls' = CommitBoth(m, k)
  <2>1. /\ 1 \in DOMAIN io /\ io[1] = Head(io) /\ Swapped(io, 1)
        /\ io[1].old = a /\ io[1].new = b
    BY <1>1, <1>2 DEF ControllerInv, WorkTypes, Swapped
  <2>2. a # b
    BY <2>1, <1>5 DEF Orderly, Notifications
  <2>3. \A p, o \in {a, b} : p # o /\ m[p] # None =>
           /\ m[p].cached = o
           /\ m[p].link = "live" => place[m[p].robot] = o
    <3>1. k \in DOMAIN Swaps /\ SwapComplete(m, Swaps, k, a)
      BY <1>5, <1>9 DEF SwapComplete
    <3> QED BY <1>1, <1>3, <1>5, <2>1, <2>2, <3>1, SwapArrived
  <2>4. k \in SwapKey /\ Positions(k) = {a, b}
    BY <1>3, <2>2, KeyFacts
  <2>5. Exchanged(m, known', a, b)
    BY <1>3, <1>5, <1>9, <2>2, <2>3, RekeyedExchanges
  <2>6. CommitsOf(m, k, calls')
    BY <1>5, <1>9, <2>4, CommitBothFacts DEF Orderly
  <2>7. /\ Newcomers(m, Fresh, io) /\ Apart(Fresh)
        /\ Home(m, Fresh) /\ Away(m, Fresh)
    BY <1>5 DEF Orderly
  <2>8. Linked(known)'
    <3>1. ASSUME NEW p \in Position, known'[p] # None
          PROVE  known'[p].link = "live" <=> up[known'[p].robot]
      BY <3>1, <2>5, <1>6 DEF Exchanged, SameEntry, Linked
    <3> QED BY <3>1, <1>4 DEF Linked
  <2>9. Entered(known, io)'
    <3>1. ASSUME NEW r \in Robot, up'[r], ~ Registering(io, r)'
          PROVE  \E p \in Position : known'[p] # None /\ known'[p].robot = r
      <4>1. ~ Registering(io, r)
        BY <3>1, <1>1, <1>4, ShorterQueue
      <4>2. PICK p \in Position : m[p] # None /\ m[p].robot = r
        BY <3>1, <4>1, <1>4, <1>6 DEF Entered
      <4> QED BY <4>2, <2>5 DEF Exchanged, SameEntry
    <3> QED BY <3>1 DEF Entered
  <2>10. Aimed(known, calls)'
    <3>1. ASSUME NEW i \in DOMAIN calls', calls'[i].op = "commit"
          PROVE  /\ known'[calls'[i].at] # None
                 /\ known'[calls'[i].at].robot = calls'[i].robot
      <4>1. PICK p \in {a, b} : /\ m[p] # None /\ calls'[i].robot = m[p].robot
                                /\ calls'[i].at = m[p].cached
        BY <2>4, <2>6 DEF CommitsOf
      <4>2. PICK o \in {a, b} : o # p
        BY <2>2
      <4> QED BY <4>1, <4>2, <2>3, <2>5 DEF Exchanged, SameEntry
    <3> QED BY <3>1 DEF Aimed
  <2>11. Active(pending_swaps', calls') = Fresh \ {k}
    BY <1>9, <2>6 DEF Active, SecondCall, CommitsOf, Restricted
  <2>12. Placed(Active(pending_swaps, calls), calls)'
    <3>1. ASSUME NEW r \in Robot, commits[r] > 0 \/ (up[r] /\ Due(calls', r))
          PROVE  HasItsPlace(Fresh \ {k}, r)
      <4>1. CASE commits[r] > 0
        <5>1. HasItsPlace(Active(pending_swaps, calls), r)
          BY <4>1 DEF InPlace, Placed
        <5>2. Fresh \ {k} \subseteq Active(pending_swaps, calls)
          BY <1>7 DEF Active
        <5> QED BY <5>1, <5>2 DEF HasItsPlace, Busy
      <4>2. CASE up[r] /\ Due(calls', r)
        <5>1. PICK p \in {a, b} : m[p] # None /\ r = m[p].robot
          BY <4>2, <2>4, <2>6 DEF CommitsOf, Due
        <5>2. PICK o \in {a, b} : o # p
          BY <2>2
        <5>3. /\ p \in Position /\ o \in Position /\ Positions(k) = {p, o}
              /\ up[m[p].robot] /\ {p, o} = {a, b}
          BY <2>4, <4>2, <5>1, <5>2
        <5>4. \A x, y \in {p, o} : x # y /\ m[x] # None /\ m[x].link = "live"
                                      => place[m[x].robot] = y
          BY <2>3, <5>3
        <5>5. HasItsPlace(Fresh \ {k}, m[p].robot)
          BY <1>5, <1>6, <1>9, <2>7, <5>1, <5>2, <5>3, <5>4,
             ArrivedHaveTheirPlace, ZenonT(60)
        <5> QED BY <5>1, <5>5
      <4> QED BY <3>1, <4>1, <4>2
    <3>2. ASSUME NEW r \in Robot, HasItsPlace(Fresh \ {k}, r)
          PROVE  HasItsPlace(Active(pending_swaps, calls), r)'
      <4>1. Active(pending_swaps, calls)' = Fresh \ {k}
        BY <2>11 DEF Active, SecondCall
      <4> QED BY <3>2, <4>1, <1>4 DEF HasItsPlace
    <3> QED BY <3>1, <3>2, <1>4 DEF Placed, Due
  <2> QED BY <2>8, <2>9, <2>10, <2>12 DEF InPlace
<1>10. \/ known' = m /\ calls' = calls /\ DOMAIN pending_swaps' = Fresh
       \/ /\ k \in Fresh /\ Swaps[k] \cup {a} = Positions(k)
          /\ known' = Rekeyed(m, k)
          /\ pending_swaps' = Restricted(AckedByRemoval, Fresh \ {k})
          /\ calls' = CommitBoth(m, k)
  BY <1>4, <1>5
<1> QED BY <1>8, <1>9, <1>10 DEF m

------------------------------------------------------------------------------
LEMMA InitInPlace == Init => InPlace
<1> SUFFICES ASSUME Init PROVE InPlace
  OBVIOUS
<1>1. /\ \A p \in Position : known[p] = None
      /\ \A r \in Robot : client[r] = "null" /\ commits[r] = 0
      /\ calls = <<>>
  BY DEF Init, NoRobots
<1>2. Linked(known) /\ Entered(known, io) /\ Aimed(known, calls)
  BY <1>1 DEF Linked, Entered, Aimed, Registering
<1>3. Placed(Active(pending_swaps, calls), calls)
  BY <1>1 DEF Placed, Due
<1> QED BY <1>2, <1>3 DEF InPlace

LEMMA PlaceStep ==
    ControllerInv /\ SwapInv /\ PlaceInv /\ [Next]_vars => PlaceInv'
<1> SUFFICES ASSUME ControllerInv, SwapInv, PlaceInv, [Next]_vars, Uncut'
             PROVE  InPlace'
  BY DEF PlaceInv
<1>1. ControllerInv' /\ Uncut
  BY NextKeeps, FaultsGrow DEF Uncut
<1>2. Ordered /\ InPlace
  BY <1>1 DEF SwapInv, PlaceInv, Uncut, Calm
<1>3. CASE WorkerStep
  <2>1. CASE HandleRobotRegistration \/ HandleNextRobotRequest
               \/ HandlePositionSwapped \/ HandleCapabilitiesReconfigured
    BY <2>1, <1>1, <1>2, RegistrationInPlace, NextRobotInPlace,
       PositionSwappedInPlace, CapabilitiesReconfiguredInPlace
  <2>2. CASE Resolve \/ Commit \/ Answer \/ AnswerFails \/ SwitchSkipped
               \/ ReconfigureSkipped
    BY <2>2, <1>1, <1>2, ResolveInPlace, CommitInPlace, AnsweringInPlace,
       SkippingInPlace
  <2>3. CASE SwitchFirst \/ SwitchSecond \/ SwitchSecondFails \/ ReconfigureCall
    BY <2>3, <1>1, <1>2, SwitchFirstInPlace, SwitchSecondInPlace,
       ReconfigureCallInPlace
  <2>4. ~ SwitchFirstFails
    BY DEF SwitchFirstFails, Fault, Uncut
  <2> QED BY <1>3, <2>1, <2>2, <2>3, <2>4 DEF WorkerStep
<1>4. CASE RemoteStep
  BY <1>4, <1>1, <1>2, RemoteInPlace DEF RemoteStep
<1>5. ASSUME NEW r \in Robot, RobotStep(r)
      PROVE  InPlace'
  BY <1>5, <1>1, <1>2, MoveInPlace, CompletionInPlace, RegisterInPlace
     DEF RobotStep
<1>6. CASE Disturbance
  <2>1. /\ ~ ControllerCrashes /\ \A r \in Robot : ~ LinkBreaks(r)
        /\ \A p \in Position : ~ RemoteFails(p)
    BY DEF ControllerCrashes, LinkBreaks, RemoteFails, Fault, Uncut
  <2> QED BY <1>6, <2>1, <1>1, <1>2, ReceiverInPlace, RobotCrashesInPlace
         DEF Disturbance
<1>7. CASE UNCHANGED vars
  <2>1. /\ UNCHANGED <<known, pending_swaps, calls, io, client, up, place, commits>>
    BY <1>7 DEF vars, mapVars, workVars, robotVars
  <2>2. SameRobots(known, known')
    BY <2>1, StillRobots
  <2>3. \A r \in Robot : Registering(io, r) => Registering(io, r)'
    BY <2>1 DEF Registering
  <2> QED BY <2>1, <2>2, <2>3, <1>1, <1>2, OutsideInPlace
<1> QED BY <1>3, <1>4, <1>5, <1>6, <1>7 DEF Next

(* As long as only robots and receivers fail, a robot with a commit is the  *)
(* only one at its place, and no swap leads there: its partner has left.    *)
THEOREM PlaceInvariance == Spec => []PlaceInv
<1>1. Init => PlaceInv
  BY InitInPlace DEF PlaceInv
<1> QED BY <1>1, Invariance, SwapInvariance, PlaceStep, PTL DEF Spec

(* A robot is told to work on only at a place of its own, whichever robots  *)
(* and receivers stop: swap_robot_positions commits when both have moved or *)
(* the one that has not is out of the map.                                  *)
THEOREM CommittedInItsPlace == Spec => []CommittedPlaceIsOwnUnlessCut
<1>1. PlaceInv => CommittedPlaceIsOwnUnlessCut
  BY DEF PlaceInv, Uncut, InPlace, Placed, HasItsPlace,
     CommittedPlaceIsOwnUnlessCut, CommittedPlaceIsOwn
<1> QED BY <1>1, PlaceInvariance, PTL

------------------------------------------------------------------------------
(* Whom an answer names, as long as only robots and receivers fail.  The    *)
(* flag of an entry is set by the call that has its robot adapt and reset   *)
(* by the last notification about it; in between others are handled, some of*)
(* them about robots that are gone.                                         *)

(* The entries amid a swap are flagged, and the partner that was called.    *)
Marked(m, ps, cs) ==
    /\ \A k \in DOMAIN ps : \A p \in Positions(k) : m[p] # None => m[p].adapting
    /\ SecondCall(cs) /\ m[Head(cs).from] # None => m[Head(cs).from].adapting

(* A robot that was reconfigured and has not been read since is flagged and *)
(* in no swap; it is reconfigured once.                                     *)
Remade(m, p) ==
    new_profile[m[p].robot] # None \/ m[p].profile # profile[m[p].robot]
Remaking(m, act) ==
    \A p \in Position : m[p] # None /\ Remade(m, p) =>
        /\ m[p].adapting /\ ~ Busy(act, p)
        /\ new_profile[m[p].robot] # None =>
              m[p].profile = profile[m[p].robot]

(* A report that waits is the only one of its robot and will find its flag, *)
(* or nobody comes to that position again.                                  *)
Reported(q, i) == q[i].op = "reconfigured"
Reports(m, act, q) ==
    /\ \A i \in DOMAIN q : Reported(q, i) =>
          \/ Dead(m, act, q, q[i].at)
          \/ /\ m[q[i].at] # None /\ m[q[i].at].adapting
             /\ ~ Remade(m, q[i].at) /\ ~ Busy(act, q[i].at)
    /\ \A i, j \in DOMAIN q :
          /\ Reported(q, i) /\ Reported(q, j) /\ q[i].at = q[j].at
          /\ m[q[i].at] # None
          => i = j

(* A robot in no swap stands where its entry is and stays; who has left in  *)
(* one has arrived.  Home and Away say so of robots that can be reached.    *)
Stays(m, act) ==
    \A p \in Position : m[p] # None /\ ~ Busy(act, p) =>
        place[m[p].robot] = p /\ target[m[p].robot] = None
Arrived(m) ==
    \A p \in Position : m[p] # None /\ m[p].cached # p =>
        place[m[p].robot] = m[p].cached /\ target[m[p].robot] = None

Flags(m, ps, q, cs) ==
    /\ Marked(m, ps, cs) /\ Remaking(m, Active(ps, cs))
    /\ Reports(m, Active(ps, cs), q)
    /\ Stays(m, Active(ps, cs)) /\ Arrived(m)

FlagInv == Uncut => Flags(known, pending_swaps, io, calls)

------------------------------------------------------------------------------
(* What most steps have in common.                                          *)

(* Robots and their cached profiles stay; flags are only set.               *)
KeepsMarks(m, n) ==
    \A p \in Position :
        /\ n[p] = None <=> m[p] = None
        /\ m[p] # None =>
              /\ n[p].robot = m[p].robot /\ n[p].profile = m[p].profile
              /\ m[p].adapting => n[p].adapting

KeepsFlags(m, n) ==
    /\ KeepsMarks(m, n)
    /\ \A p \in Position : m[p] # None => n[p].cached = m[p].cached

(* Nothing new is reported.                                                 *)
OldReports(q, t) ==
    \A i \in DOMAIN t : Reported(t, i) => i \in DOMAIN q /\ t[i] = q[i]

LEMMA CarryFlags ==
    ASSUME ControllerInv, ControllerInv', Flags(known, pending_swaps, io, calls),
           KeepsMarks(known, known'), Marked(known, pending_swaps, calls)',
           UNCHANGED <<profile, new_profile>>,
           NEW act, act = Active(pending_swaps, calls),
           NEW new, new = Active(pending_swaps', calls'),
           \A p \in Position : Busy(act, p) => Busy(new, p),
           \A p \in Position : Busy(new, p) => \/ Busy(act, p)
                                               \/ known[p] # None /\ ~ known[p].adapting,
           Stays(known, new)', Arrived(known)', OldReports(io, io'),
           \A r \in Robot : Registering(io, r)' =>
              Registering(io, r) /\ place'[r] = place[r]
    PROVE  Flags(known, pending_swaps, io, calls)'
<1>1. /\ Remaking(known, act) /\ Reports(known, act, io)
      /\ Stays(known, act) /\ Arrived(known)
  BY DEF Flags
<1>2. new = Active(pending_swaps, calls)'
  BY DEF Active, SecondCall
<1>3. \A i \in DOMAIN io : Reported(io, i) => io[i].at \in Position
  BY HandlerFields DEF ControllerInv, WorkTypes, Reported
<1>4. Remaking(known, new)'
  <2>1. ASSUME NEW p \in Position, known'[p] # None, Remade(known, p)'
        PROVE  /\ known'[p].adapting /\ ~ Busy(new, p)
               /\ new_profile'[known'[p].robot] # None =>
                     known'[p].profile = profile'[known'[p].robot]
    <3>1. /\ known[p] # None /\ Remade(known, p)
          /\ known'[p].robot = known[p].robot
          /\ known'[p].profile = known[p].profile
          /\ known[p].adapting => known'[p].adapting
      BY <2>1 DEF KeepsMarks, Remade
    <3>2. /\ known[p].adapting /\ ~ Busy(act, p)
          /\ new_profile[known[p].robot] # None =>
                known[p].profile = profile[known[p].robot]
      BY <3>1, <1>1 DEF Remaking
    <3> QED BY <3>1, <3>2
  <2> QED BY <2>1 DEF Remaking, Busy
<1>5. Reports(known, new, io)'
  <2>1. ASSUME NEW i \in DOMAIN io', Reported(io', i)
        PROVE  \/ /\ known'[io'[i].at] = None /\ ~ Busy(new, io'[i].at)
                  /\ \A r \in Robot : Registering(io, r)' => place'[r] # io'[i].at
               \/ /\ known'[io'[i].at] # None /\ known'[io'[i].at].adapting
                  /\ ~ (\/ new_profile'[known'[io'[i].at].robot] # None
                        \/ known'[io'[i].at].profile
                              # profile'[known'[io'[i].at].robot])
                  /\ ~ Busy(new, io'[i].at)
    <3>1. /\ i \in DOMAIN io /\ io'[i] = io[i] /\ Reported(io, i)
          /\ io[i].at \in Position
      BY <2>1, <1>3 DEF OldReports, Reported
    <3>2. PICK p \in Position : p = io[i].at
      BY <3>1
    <3>3. CASE Dead(known, act, io, p)
      <4>1. known'[p] = None /\ ~ Busy(new, p)
        BY <3>3 DEF Dead, KeepsMarks
      <4>2. \A r \in Robot : Registering(io, r)' => place'[r] # p
        BY <3>3 DEF Dead
      <4> QED BY <3>1, <3>2, <4>1, <4>2
    <3>4. CASE /\ known[p] # None /\ known[p].adapting
               /\ ~ Remade(known, p) /\ ~ Busy(act, p)
      <4>1. /\ known'[p] # None /\ known'[p].adapting /\ ~ Busy(new, p)
            /\ ~ (\/ new_profile'[known'[p].robot] # None
                  \/ known'[p].profile # profile'[known'[p].robot])
        BY <3>4 DEF KeepsMarks, Remade
      <4> QED BY <3>1, <3>2, <4>1
    <3> QED BY <3>1, <3>2, <3>3, <3>4, <1>1 DEF Reports
  <2>2. ASSUME NEW i \in DOMAIN io', NEW j \in DOMAIN io',
               Reported(io', i), Reported(io', j), io'[i].at = io'[j].at,
               known'[io'[i].at] # None
        PROVE  i = j
    <3>1. /\ i \in DOMAIN io /\ io'[i] = io[i] /\ Reported(io, i)
          /\ j \in DOMAIN io /\ io'[j] = io[j] /\ Reported(io, j)
          /\ io[i].at \in Position
      BY <2>2, <1>3 DEF OldReports, Reported
    <3>2. known[io[i].at] # None
      BY <2>2, <3>1 DEF KeepsMarks
    <3> QED BY <2>2, <3>1, <3>2, <1>1 DEF Reports
  <2> QED BY <2>1, <2>2 DEF Reports, Dead, Busy, Reported, Remade
<1>6. Stays(known, Active(pending_swaps, calls))'
  BY <1>2 DEF Stays, Busy
<1> QED BY <1>2, <1>4, <1>5, <1>6 DEF Flags

LEMMA StepFlags ==
    ASSUME ControllerInv, ControllerInv', Flags(known, pending_swaps, io, calls),
           KeepsFlags(known, known'), Marked(known, pending_swaps, calls)',
           UNCHANGED <<place, profile, new_profile>>,
           NEW act, act = Active(pending_swaps, calls),
           NEW new, new = Active(pending_swaps', calls'),
           \A p \in Position : Busy(act, p) => Busy(new, p),
           \A p \in Position : Busy(new, p) => \/ Busy(act, p)
                                               \/ known[p] # None /\ ~ known[p].adapting,
           \A p \in Position : known[p] # None =>
              \/ target'[known[p].robot] = target[known[p].robot]
              \/ known[p].cached = p /\ Busy(new, p),
           OldReports(io, io'),
           \A r \in Robot : Registering(io, r)' => Registering(io, r)
    PROVE  Flags(known, pending_swaps, io, calls)'
<1>1. Stays(known, act) /\ Arrived(known) /\ KeepsMarks(known, known')
  BY DEF Flags, KeepsFlags
<1>2. Stays(known, new)'
  <2>1. ASSUME NEW p \in Position, known'[p] # None, ~ Busy(new, p)
        PROVE  place'[known'[p].robot] = p /\ target'[known'[p].robot] = None
    BY <2>1, <1>1 DEF KeepsMarks, Stays
  <2> QED BY <2>1 DEF Stays, Busy
<1>3. Arrived(known)'
  <2>1. ASSUME NEW p \in Position, known'[p] # None, known'[p].cached # p
        PROVE  /\ place'[known'[p].robot] = known'[p].cached
               /\ target'[known'[p].robot] = None
    BY <2>1, <1>1 DEF KeepsFlags, KeepsMarks, Arrived
  <2> QED BY <2>1 DEF Arrived
<1> HIDE DEF Flags, Stays, Arrived, Marked
<1> QED BY <1>1, <1>2, <1>3, CarryFlags

LEMMA SameKeepsFlags == \A m : KeepsFlags(m, m)
  BY DEF KeepsFlags, KeepsMarks

LEMMA StopKeepsFlags ==
    ASSUME NEW m \in Remotes, NEW p \in Position
    PROVE  KeepsFlags(m, Stop(m, p))
<1>1. CASE m[p] = None
  BY <1>1 DEF Stop, KeepsFlags, KeepsMarks
<1>2. CASE m[p] # None
  <2> DEFINE e == [m[p] EXCEPT !.link = "stopped"]
  <2>1. m[p] \in RemoteType
    BY <1>2, EntryFields
  <2>2. /\ e # None /\ e.robot = m[p].robot /\ e.cached = m[p].cached
        /\ e.profile = m[p].profile /\ e.adapting = m[p].adapting
    <3>1. e \in RemoteType
      BY <2>1 DEF RemoteType
    <3> QED BY <2>1, <3>1, NoneIsNoRemote DEF RemoteType
  <2>3. /\ Stop(m, p)[p] = e
        /\ \A o \in Position \ {p} : Stop(m, p)[o] = m[o]
    BY <1>2 DEF Stop, Remotes
  <2> HIDE DEF e
  <2> QED BY <1>2, <2>2, <2>3 DEF KeepsFlags, KeepsMarks
<1> QED BY <1>1, <1>2

LEMMA FlagKeepsFlags ==
    ASSUME NEW m \in Remotes, NEW p \in Position, m[p] # None
    PROVE  /\ KeepsFlags(m, Flagged(m, p)) /\ Flagged(m, p)[p].adapting
           /\ \A o \in Position \ {p} : Flagged(m, p)[o] = m[o]
<1> DEFINE e == [m[p] EXCEPT !.adapting = TRUE]
<1>1. m[p] \in RemoteType
  BY EntryFields
<1>2. /\ e # None /\ e.robot = m[p].robot /\ e.cached = m[p].cached
      /\ e.profile = m[p].profile /\ e.adapting
  <2>1. e \in RemoteType
    BY <1>1 DEF RemoteType
  <2> QED BY <1>1, <2>1, NoneIsNoRemote DEF RemoteType
<1>3. /\ Flagged(m, p)[p] = e
      /\ \A o \in Position \ {p} : Flagged(m, p)[o] = m[o]
  BY DEF Flagged, Remotes
<1> HIDE DEF e
<1> QED BY <1>2, <1>3 DEF KeepsFlags, KeepsMarks

LEMMA CutKeepsFlags ==
    ASSUME ControllerInv, NEW r
    PROVE  KeepsFlags(known, Cut(known, r))
<1>1. ASSUME NEW p \in Position, Alive(p), known[p].robot = r
      PROVE  /\ Cut(known, r)[p] # None
             /\ Cut(known, r)[p].robot = known[p].robot
             /\ Cut(known, r)[p].cached = known[p].cached
             /\ Cut(known, r)[p].profile = known[p].profile
             /\ Cut(known, r)[p].adapting = known[p].adapting
  <2> DEFINE e == [known[p] EXCEPT !.link = "broken"]
  <2>1. known[p] \in RemoteType
    BY <1>1, RobotOfEntry DEF ControllerInv, Alive
  <2>2. /\ e \in RemoteType /\ e.robot = known[p].robot
        /\ e.cached = known[p].cached /\ e.profile = known[p].profile
        /\ e.adapting = known[p].adapting
    BY <2>1 DEF RemoteType
  <2>3. Cut(known, r)[p] = e
    BY <1>1 DEF Cut
  <2> HIDE DEF e
  <2> QED BY <2>2, <2>3, NoneIsNoRemote
<1>2. ASSUME NEW p \in Position, ~ (Alive(p) /\ known[p].robot = r)
      PROVE  Cut(known, r)[p] = known[p]
  BY <1>2 DEF Cut
<1> QED BY <1>1, <1>2 DEF KeepsFlags, KeepsMarks, Alive

(* Marks stay where no swap begins.                                         *)
LEMMA MarksStay ==
    ASSUME NEW m, NEW n, KeepsFlags(m, n), NEW ps, NEW pt, NEW cs, NEW ct,
           DOMAIN ps \subseteq SwapKey, DOMAIN pt \subseteq DOMAIN ps,
           cs \in Seq(SwapCall), ct = cs \/ ~ SecondCall(ct), Marked(m, ps, cs)
    PROVE  Marked(n, pt, ct)
<1>1. ASSUME NEW k \in DOMAIN pt, NEW p \in Positions(k), n[p] # None
      PROVE  n[p].adapting
  <2>1. k \in DOMAIN ps /\ p \in Position
    BY KeyPositions
  <2> QED BY <1>1, <2>1 DEF Marked, KeepsFlags, KeepsMarks
<1>2. ASSUME SecondCall(ct), n[Head(ct).from] # None
      PROVE  n[Head(ct).from].adapting
  <2>1. ct = cs /\ Head(cs).from \in Position
    <3>1. ct = cs /\ Head(cs) \in SwapCall /\ Head(cs).op = "switch_second"
      BY <1>2 DEF SecondCall
    <3> QED BY <3>1, CallFields
  <2> QED BY <1>2, <2>1 DEF Marked, KeepsFlags, KeepsMarks
<1> QED BY <1>1, <1>2 DEF Marked

(* Steps that begin no swap and move no robot.                              *)
LEMMA QuietFlags ==
    ASSUME ControllerInv, ControllerInv', Flags(known, pending_swaps, io, calls),
           KeepsFlags(known, known'),
           UNCHANGED <<place, profile, new_profile, target, pending_swaps>>,
           calls' = calls \/ (~ SecondCall(calls) /\ ~ SecondCall(calls')),
           OldReports(io, io'),
           \A r \in Robot : Registering(io, r)' => Registering(io, r)
    PROVE  Flags(known, pending_swaps, io, calls)'
<1>1. Active(pending_swaps', calls') = Active(pending_swaps, calls)
  BY DEF Active
<1>2. Marked(known', pending_swaps', calls')
  <2>1. Marked(known, pending_swaps, calls)
    BY DEF Flags
  <2> QED BY <2>1, MarksStay DEF ControllerInv, MapTypes, WorkTypes
<1>3. Marked(known, pending_swaps, calls)'
  BY <1>2 DEF Marked, SecondCall
<1> QED BY <1>1, <1>3, StepFlags

LEMMA CallFlags ==
    ASSUME ControllerInv, ControllerInv', Ordered,
           Flags(known, pending_swaps, io, calls), KeepsFlags(known, known'),
           UNCHANGED <<place, profile, new_profile, target, pending_swaps, io, client>>,
           calls # <<>>, ~ SecondCall(calls), calls' = Tail(calls)
    PROVE  Flags(known, pending_swaps, io, calls)'
<1>1. ~ SecondCall(calls')
  BY OneCallLess
<1>2. OldReports(io, io') /\ \A r \in Robot : Registering(io, r)' => Registering(io, r)
  BY DEF OldReports, Registering
<1> QED BY <1>1, <1>2, QuietFlags

LEMMA AnsweringFlags ==
    ASSUME ControllerInv, ControllerInv', Ordered,
           Flags(known, pending_swaps, io, calls), Answer \/ AnswerFails
    PROVE  Flags(known, pending_swaps, io, calls)'
<1>1. /\ UNCHANGED <<known, place, profile, new_profile, target, pending_swaps, io,
                     client>>
      /\ calls # <<>> /\ Head(calls).op = "answer" /\ calls' = Tail(calls)
  BY DEF Answer, AnswerFails, Calling, mapVars, robotVars, goalVars
<1>2. KeepsFlags(known, known') /\ ~ SecondCall(calls)
  BY <1>1, SameKeepsFlags DEF SecondCall
<1> QED BY <1>1, <1>2, CallFlags

LEMMA CommittingFlags ==
    ASSUME ControllerInv, ControllerInv', Ordered,
           Flags(known, pending_swaps, io, calls), Resolve \/ Commit
    PROVE  Flags(known, pending_swaps, io, calls)'
<1>1. /\ UNCHANGED <<place, profile, new_profile, target, pending_swaps, io, client>>
      /\ calls # <<>> /\ calls' = Tail(calls)
      /\ Head(calls).op \in {"resolve", "commit"}
      /\ known' = known \/ known' = Stop(known, Head(calls).at)
  BY DEF Resolve, Commit, Calling, goalVars
<1>2. Head(calls).at \in Position
  <2>1. Head(calls) \in SwapCall
    BY <1>1 DEF ControllerInv, WorkTypes
  <2> QED BY <2>1, <1>1, CallFields
<1>3. KeepsFlags(known, known') /\ ~ SecondCall(calls)
  BY <1>1, <1>2, SameKeepsFlags, StopKeepsFlags
     DEF SecondCall, ControllerInv, MapTypes
<1> QED BY <1>1, <1>3, CallFlags

LEMMA SkippingFlags ==
    ASSUME ControllerInv, ControllerInv', Ordered,
           Flags(known, pending_swaps, io, calls),
           SwitchSkipped \/ ReconfigureSkipped
    PROVE  Flags(known, pending_swaps, io, calls)'
<1>1. /\ UNCHANGED <<place, profile, new_profile, target, pending_swaps, io, client>>
      /\ calls # <<>> /\ calls' = Tail(calls)
      /\ Head(calls).op \in {"switch", "reconfigure"}
  BY DEF SwitchSkipped, ReconfigureSkipped, Calling, robotVars, goalVars
<1>2. \/ known' = known
      \/ \E p \in Position : known' = Stop(known, p)
  <2>1. CASE SwitchSkipped
    <3>1. Head(calls).from \in Position /\ Head(calls).to \in Position
      BY <2>1, CallingType, CallFields DEF SwitchSkipped, ControllerInv
    <3> QED BY <2>1, <3>1 DEF SwitchSkipped, StopUnlessAlive
  <2>2. CASE ReconfigureSkipped
    <3>1. Head(calls).at \in Position
      BY <2>2, CallingType, CallFields DEF ReconfigureSkipped, ControllerInv
    <3> QED BY <2>2, <3>1 DEF ReconfigureSkipped, StopUnlessAlive
  <2> QED BY <2>1, <2>2
<1>3. KeepsFlags(known, known') /\ ~ SecondCall(calls)
  BY <1>1, <1>2, SameKeepsFlags, StopKeepsFlags
     DEF SecondCall, ControllerInv, MapTypes
<1> QED BY <1>1, <1>3, CallFlags

------------------------------------------------------------------------------
(* The threads of the remote robots, the robots and the receivers.          *)

LEMMA AppendedReports ==
    ASSUME ControllerInv, NEW h \in Handler, h.op # "reconfigured",
           io' = Append(io, h)
    PROVE  OldReports(io, io')
<1>1. \A i \in DOMAIN io' : (i \in DOMAIN io /\ io'[i] = io[i]) \/ io'[i] = h
  BY DEF ControllerInv, WorkTypes
<1> QED BY <1>1 DEF OldReports, Reported

LEMMA AppendedNewcomers ==
    ASSUME ControllerInv, NEW h \in Handler, h.op # "register",
           io' = Append(io, h), UNCHANGED client
    PROVE  \A r \in Robot : Registering(io, r)' => Registering(io, r)
<1>1. \A i \in DOMAIN io' : (i \in DOMAIN io /\ io'[i] = io[i]) \/ io'[i] = h
  BY DEF ControllerInv, WorkTypes
<1> QED BY <1>1 DEF Registering

LEMMA StoppingFlags ==
    ASSUME ControllerInv, ControllerInv', Flags(known, pending_swaps, io, calls),
           \/ \E p \in Position : RemoteStops(p)
           \/ \E r \in Robot : RobotCrashes(r) \/ HandleNewPositionCommit(r)
    PROVE  Flags(known, pending_swaps, io, calls)'
<1>1. /\ UNCHANGED <<place, profile, new_profile, target, pending_swaps, calls, io,
                     client>>
      /\ \/ known' = known
         \/ \E p \in Position : known' = Stop(known, p)
         \/ \E r \in Robot : known' = Cut(known, r)
  BY DEF RemoteStops, RobotCrashes, HandleNewPositionCommit, mapVars, workVars,
     robotVars, goalVars
<1>2. KeepsFlags(known, known')
  BY <1>1, SameKeepsFlags, StopKeepsFlags, CutKeepsFlags
     DEF ControllerInv, MapTypes
<1>3. OldReports(io, io') /\ \A r \in Robot : Registering(io, r)' => Registering(io, r)
  BY <1>1 DEF OldReports, Registering
<1> QED BY <1>1, <1>2, <1>3, QuietFlags

LEMMA ReceiverFlags ==
    ASSUME ControllerInv, ControllerInv', Flags(known, pending_swaps, io, calls),
           NEW a \in Agent, Ask(a) \/ ReceiverBreaks(a)
    PROVE  Flags(known, pending_swaps, io, calls)'
<1>1. UNCHANGED <<known, place, profile, new_profile, target, pending_swaps, calls,
                  client>>
  BY DEF Ask, ReceiverBreaks, mapVars, workVars, robotVars, goalVars
<1>2. CASE io' = io
  <2>1. OldReports(io, io') /\ \A r \in Robot : Registering(io, r)' => Registering(io, r)
    BY <1>1, <1>2 DEF OldReports, Registering
  <2> QED BY <1>1, <2>1, SameKeepsFlags, QuietFlags
<1>3. CASE Ask(a)
  <2>1. PICK r \in Recipe : \E n \in 0..(Len(Instructions[r]) - 1) :
           io' = Append(io, [op |-> "next_robot", agent |-> a, recipe |-> r,
                             steps |-> n])
    BY <1>3 DEF Ask
  <2>2. PICK n \in 0..(Len(Instructions[r]) - 1) :
           io' = Append(io, [op |-> "next_robot", agent |-> a, recipe |-> r,
                             steps |-> n])
    BY <2>1
  <2>3. PICK h : h = [op |-> "next_robot", agent |-> a, recipe |-> r, steps |-> n]
    OBVIOUS
  <2>4. h \in Handler /\ h.op = "next_robot" /\ io' = Append(io, h)
    BY <2>2, <2>3 DEF Handler
  <2>5. OldReports(io, io') /\ \A s \in Robot : Registering(io, s)' => Registering(io, s)
    BY <1>1, <2>4, AppendedReports, AppendedNewcomers
  <2> QED BY <1>1, <2>5, SameKeepsFlags, QuietFlags
<1> QED BY <1>2, <1>3 DEF ReceiverBreaks, workVars

LEMMA RegisterFlags ==
    ASSUME ControllerInv, ControllerInv', Ordered,
           Flags(known, pending_swaps, io, calls), NEW r \in Robot,
           Register(r) \/ DropController(r)
    PROVE  Flags(known, pending_swaps, io, calls)'
<1>1. Register(r)
  BY DEF Ordered, Orderly, Registrations, DropController
<1> DEFINE h == [op |-> "register", robot |-> r, position |-> place[r],
                 profile |-> profile[r]]
<1>2. /\ UNCHANGED <<known, place, profile, new_profile, target, pending_swaps, calls>>
      /\ io' = Append(io, h) /\ client' = [client EXCEPT ![r] = "live"]
      /\ client[r] = "null"
  BY <1>1 DEF Register, mapVars, robotVars, goalVars
<1>3. h \in Handler /\ h.op = "register" /\ h.robot = r
  BY DEF Handler, ControllerInv, RobotTypes
<1> HIDE DEF h
<1>4. OldReports(io, io')
  BY <1>2, <1>3, AppendedReports
<1>5. \A i \in DOMAIN io' : (i \in DOMAIN io /\ io'[i] = io[i]) \/ io'[i] = h
  BY <1>2, <1>3 DEF ControllerInv, WorkTypes
<1>6. ASSUME NEW s \in Robot, Registering(io, s)' PROVE Registering(io, s)
  <2>1. CASE s = r
    BY <2>1, <1>2 DEF Registering
  <2>2. CASE s # r
    <3>1. client'[s] = client[s]
      BY <2>2, <1>2 DEF ControllerInv, LinkTypes
    <3> QED BY <2>2, <3>1, <1>3, <1>5, <1>6 DEF Registering
  <2> QED BY <2>1, <2>2
<1> QED BY <1>2, <1>4, <1>6, SameKeepsFlags, QuietFlags

(* A robot that moves is amid a swap, and its entry has not followed.       *)
LEMMA MoveFlags ==
    ASSUME ControllerInv, ControllerInv', Ordered,
           Flags(known, pending_swaps, io, calls), NEW r \in Robot, Move(r)
    PROVE  Flags(known, pending_swaps, io, calls)'
<1> DEFINE act == Active(pending_swaps, calls)
<1>1. /\ UNCHANGED <<known, profile, new_profile, pending_swaps, calls, io, client>>
      /\ target[r] # None
  BY DEF Move, mapVars, workVars
<1>2. \A s \in Robot \ {r} : place'[s] = place[s] /\ target'[s] = target[s]
  BY DEF Move, ControllerInv, RobotTypes
<1>3. ~ Registering(io, r)
  BY <1>1 DEF Ordered, Orderly, Newcomers, Idle
<1>4. \A p \in Position : known[p] # None => known[p].robot \in Robot
  BY RobotOfEntry DEF ControllerInv
<1>5. act = Active(pending_swaps', calls')
  BY <1>1 DEF Active
<1> HIDE DEF act
<1>6. Stays(known, act) /\ Arrived(known) /\ Marked(known, pending_swaps, calls)
  BY DEF Flags, act
<1>7. Stays(known, act)'
  <2>1. ASSUME NEW p \in Position, known'[p] # None, ~ Busy(act, p)
        PROVE  place'[known'[p].robot] = p /\ target'[known'[p].robot] = None
    BY <2>1, <1>1, <1>2, <1>4, <1>6 DEF Stays
  <2>2. act' = act
    BY <1>1 DEF act, Active, SecondCall
  <2> QED BY <2>1, <2>2 DEF Stays, Busy
<1>8. Arrived(known)'
  <2>1. ASSUME NEW p \in Position, known'[p] # None, known'[p].cached # p
        PROVE  /\ place'[known'[p].robot] = known'[p].cached
               /\ target'[known'[p].robot] = None
    BY <2>1, <1>1, <1>2, <1>4, <1>6 DEF Arrived
  <2> QED BY <2>1 DEF Arrived
<1>9. Marked(known, pending_swaps, calls)'
  BY <1>1, <1>6 DEF Marked, SecondCall
<1>10. \A s \in Robot : Registering(io, s)' =>
          Registering(io, s) /\ place'[s] = place[s]
  BY <1>1, <1>2, <1>3 DEF Registering
<1>11. OldReports(io, io') /\ KeepsMarks(known, known')
  BY <1>1 DEF OldReports, KeepsMarks
<1>12. PICK a : a = act
  OBVIOUS
<1>13. Stays(known, a)'
  <2>1. act' = act
    BY <1>1 DEF act, Active, SecondCall
  <2> QED BY <1>7, <1>12, <2>1 DEF Stays, Busy
<1>14. a = Active(pending_swaps, calls) /\ a = Active(pending_swaps', calls')
  BY <1>5, <1>12 DEF act
<1> QED BY <1>1, <1>8, <1>9, <1>10, <1>11, <1>13, <1>14, CarryFlags

(* The cached position follows a robot that has moved.                      *)
LEMMA PositionChangedFlags ==
    ASSUME ControllerInv, ControllerInv', Ordered,
           Flags(known, pending_swaps, io, calls),
           NEW p \in Position, PositionChanged(p)
    PROVE  Flags(known, pending_swaps, io, calls)'
<1>1. PICK act : act = Active(pending_swaps, calls)
  OBVIOUS
<1>2. PICK r \in Robot : r = known[p].robot
  BY RobotOfEntry DEF ControllerInv, PositionChanged, Alive
<1> DEFINE e == [known[p] EXCEPT !.cached = place[r]]
           h == [op |-> "swapped", old |-> known[p].cached, new |-> place[r]]
<1>3. /\ known[p] # None /\ known[p].link = "live" /\ known[p].cached # place[r]
      /\ known' = [known EXCEPT ![p] = e] /\ io' = Append(io, h)
      /\ UNCHANGED <<pending_swaps, calls, place, profile, new_profile, target,
                     client>>
  BY <1>2 DEF PositionChanged, Alive, robotVars, goalVars
<1>4. known[p] \in RemoteType /\ place[r] \in Position
  BY <1>3, RobotOfEntry DEF ControllerInv, RobotTypes
<1>5. /\ e # None /\ e.robot = r /\ e.cached = place[r]
      /\ e.profile = known[p].profile /\ e.adapting = known[p].adapting
  <2>1. e \in RemoteType
    BY <1>4 DEF RemoteType
  <2> QED BY <1>2, <1>4, <2>1, NoneIsNoRemote DEF RemoteType
<1>6. h \in Handler /\ h.op = "swapped"
  BY <1>4 DEF Handler, RemoteType
<1> HIDE DEF e, h
<1>7. known'[p] = e /\ \A o \in Position \ {p} : known'[o] = known[o]
  BY <1>3 DEF ControllerInv, MapTypes, Remotes
<1>8. KeepsMarks(known, known')
  BY <1>2, <1>3, <1>5, <1>7 DEF KeepsMarks
<1>9. Stays(known, act) /\ Arrived(known) /\ Marked(known, pending_swaps, calls)
  BY <1>1 DEF Flags
<1>10. target[r] = None
  <2>1. CASE ~ Busy(act, p)
    BY <2>1, <1>2, <1>3, <1>9 DEF Stays
  <2>2. CASE Busy(act, p)
    <3>1. PICK k \in act : p \in Positions(k)
      BY <2>2 DEF Busy
    <3>2. OnItsWay(known, k, p)
      BY <3>1, <1>1, <1>3 DEF Ordered, Orderly, Away
    <3> QED BY <3>2, <1>2, <1>3 DEF OnItsWay
  <2> QED BY <2>1, <2>2
<1>11. Stays(known, act)'
  <2>1. ASSUME NEW o \in Position, known'[o] # None, ~ Busy(act, o)
        PROVE  place'[known'[o].robot] = o /\ target'[known'[o].robot] = None
    BY <2>1, <1>2, <1>3, <1>5, <1>7, <1>9 DEF Stays
  <2> QED BY <2>1 DEF Stays, Busy
<1>12. Arrived(known)'
  <2>1. ASSUME NEW o \in Position, known'[o] # None, known'[o].cached # o
        PROVE  /\ place'[known'[o].robot] = known'[o].cached
               /\ target'[known'[o].robot] = None
    BY <2>1, <1>3, <1>5, <1>7, <1>9, <1>10 DEF Arrived
  <2> QED BY <2>1 DEF Arrived
<1>13. Marked(known', pending_swaps', calls')
  <2>1. ASSUME NEW k \in DOMAIN pending_swaps, NEW o \in Positions(k), known'[o] # None
        PROVE  known'[o].adapting
    <3>1. o \in Position
      BY KeyPositions DEF ControllerInv, MapTypes
    <3> QED BY <2>1, <3>1, <1>8, <1>9 DEF Marked, KeepsMarks
  <2>2. ASSUME SecondCall(calls), known'[Head(calls).from] # None
        PROVE  known'[Head(calls).from].adapting
    <3>1. Head(calls).from \in Position
      <4>1. Head(calls) \in SwapCall /\ Head(calls).op = "switch_second"
        BY <2>2 DEF SecondCall, ControllerInv, WorkTypes
      <4> QED BY <4>1, CallFields
    <3> QED BY <2>2, <3>1, <1>8, <1>9 DEF Marked, KeepsMarks
  <2> QED BY <2>1, <2>2, <1>3 DEF Marked
<1>14. Marked(known, pending_swaps, calls)'
  BY <1>13 DEF Marked, SecondCall
<1>15. OldReports(io, io') /\ \A s \in Robot : Registering(io, s)' => Registering(io, s)
  BY <1>3, <1>6, AppendedReports, AppendedNewcomers
<1>16. act = Active(pending_swaps', calls')
  BY <1>1, <1>3
<1> QED BY <1>1, <1>3, <1>8, <1>11, <1>12, <1>14, <1>15, <1>16, CarryFlags

(* What a robot is reconfigured to and how far its entry has noticed: none  *)
(* of that moves anybody or concerns a swap.                                *)
LEMMA RemakingFlags ==
    ASSUME ControllerInv, ControllerInv', Flags(known, pending_swaps, io, calls),
           NEW act, act = Active(pending_swaps, calls),
           act = Active(pending_swaps', calls'),
           Marked(known, pending_swaps, calls)',
           UNCHANGED <<place, target>>,
           \A p \in Position :
              /\ known'[p] = None <=> known[p] = None
              /\ known[p] # None => /\ known'[p].robot = known[p].robot
                                    /\ known'[p].cached = known[p].cached,
           Remaking(known, act)', Reports(known, act, io)'
    PROVE  Flags(known, pending_swaps, io, calls)'
<1>1. Stays(known, act) /\ Arrived(known)
  BY DEF Flags
<1>2. Stays(known, act)'
  BY <1>1 DEF Stays, Busy
<1>3. Arrived(known)'
  BY <1>1 DEF Arrived
<1>4. act = Active(pending_swaps, calls)'
  BY DEF Active, SecondCall
<1>5. Remaking(known, Active(pending_swaps, calls))'
  BY <1>4 DEF Remaking, Busy, Remade
<1>6. Stays(known, Active(pending_swaps, calls))'
  BY <1>2, <1>4 DEF Stays, Busy
<1>7. Reports(known, Active(pending_swaps, calls), io)'
  BY <1>4 DEF Reports, Busy, Dead, Remade, Reported
<1> QED BY <1>3, <1>5, <1>6, <1>7 DEF Flags

(* The report finds the flag of its robot: nobody else reports at its       *)
(* position while it is in the map there.                                   *)
LEMMA CapabilitiesChangedFlags ==
    ASSUME ControllerInv, ControllerInv', Ordered,
           Flags(known, pending_swaps, io, calls),
           NEW p \in Position, CapabilitiesChanged(p)
    PROVE  Flags(known, pending_swaps, io, calls)'
<1>1. PICK act : act = Active(pending_swaps, calls)
  OBVIOUS
<1>2. PICK r \in Robot : r = known[p].robot
  BY RobotOfEntry DEF ControllerInv, CapabilitiesChanged, Alive
<1> DEFINE e == [known[p] EXCEPT !.profile = profile[r]]
<1>3. /\ known[p] # None /\ known[p].profile # profile[r]
      /\ known' = [known EXCEPT ![p] = e]
      /\ io' = Append(io, [op |-> "reconfigured", at |-> known[p].cached])
      /\ UNCHANGED <<pending_swaps, calls, place, profile, new_profile, target,
                     client>>
  BY <1>2 DEF CapabilitiesChanged, Alive, robotVars, goalVars
<1>4. known[p] \in RemoteType /\ profile[r] \in Profile
  BY <1>3, RobotOfEntry DEF ControllerInv, RobotTypes
<1>5. /\ e # None /\ e.robot = r /\ e.cached = known[p].cached
      /\ e.profile = profile[r] /\ e.adapting = known[p].adapting
  <2>1. e \in RemoteType
    BY <1>4 DEF RemoteType
  <2> QED BY <1>2, <1>4, <2>1, NoneIsNoRemote DEF RemoteType
<1> HIDE DEF e
<1>6. known'[p] = e /\ \A o \in Position \ {p} : known'[o] = known[o]
  BY <1>3 DEF ControllerInv, MapTypes, Remotes
<1>7. /\ Remaking(known, act) /\ Reports(known, act, io)
      /\ Marked(known, pending_swaps, calls)
  BY <1>1 DEF Flags
<1>8. /\ known[p].adapting /\ ~ Busy(act, p) /\ new_profile[r] = None
      /\ Remade(known, p)
  BY <1>2, <1>3, <1>7 DEF Remaking, Remade
<1>9. known[p].cached = p
  BY <1>1, <1>3, <1>8 DEF Ordered, Orderly, Home, AtHome
<1>10. PICK h \in Handler : h = [op |-> "reconfigured", at |-> p]
  BY DEF Handler
<1>11. h.op = "reconfigured" /\ h.at = p /\ io' = Append(io, h)
  BY <1>3, <1>9, <1>10
<1>12. /\ io \in Seq(Handler)
       /\ \A i \in DOMAIN io' : \/ i \in DOMAIN io /\ io'[i] = io[i]
                                \/ i = Len(io) + 1 /\ io'[i] = h
  BY <1>11 DEF ControllerInv, WorkTypes
<1>13. \A s \in Robot : Registering(io, s)' => Registering(io, s)
  BY <1>3, <1>11, AppendedNewcomers
<1>14. Remaking(known, act)'
  <2>1. ASSUME NEW o \in Position, known'[o] # None,
               \/ new_profile[known'[o].robot] # None
               \/ known'[o].profile # profile[known'[o].robot]
        PROVE  /\ known'[o].adapting /\ ~ Busy(act, o)
               /\ new_profile[known'[o].robot] # None =>
                     known'[o].profile = profile[known'[o].robot]
    <3>1. CASE o = p
      BY <3>1, <2>1, <1>5, <1>6, <1>8
    <3>2. CASE o # p
      BY <3>2, <2>1, <1>6, <1>7 DEF Remaking, Remade
    <3> QED BY <3>1, <3>2
  <2> QED BY <2>1, <1>3 DEF Remaking, Remade, Busy
<1>15. \A i \in DOMAIN io : Reported(io, i) => io[i].at \in Position /\ io[i].at # p
  <2>1. ASSUME NEW i \in DOMAIN io, Reported(io, i)
        PROVE  io[i].at \in Position /\ io[i].at # p
    <3>1. io[i].at \in Position
      BY <2>1, HandlerFields DEF ControllerInv, WorkTypes, Reported
    <3>2. \/ Dead(known, act, io, io[i].at)
          \/ known[io[i].at] # None /\ ~ Remade(known, io[i].at)
      BY <2>1, <1>7, SMTT(60) DEF Reports
    <3>3. io[i].at # p
      BY <3>2, <1>3, <1>8, SMTT(60) DEF Dead
    <3> QED BY <3>1, <3>3
  <2> QED BY <2>1
<1>16. Reports(known, act, io)'
  <2>1. ASSUME NEW i \in DOMAIN io', io'[i].op = "reconfigured"
        PROVE  \/ /\ known'[io'[i].at] = None /\ ~ Busy(act, io'[i].at)
                  /\ \A s \in Robot : Registering(io, s)' => place[s] # io'[i].at
               \/ /\ known'[io'[i].at] # None /\ known'[io'[i].at].adapting
                  /\ ~ (\/ new_profile[known'[io'[i].at].robot] # None
                        \/ known'[io'[i].at].profile
                              # profile[known'[io'[i].at].robot])
                  /\ ~ Busy(act, io'[i].at)
    <3>1. CASE i \in DOMAIN io /\ io'[i] = io[i]
      <4>1. Reported(io, i)
        BY <2>1, <3>1 DEF Reported
      <4>2. known'[io[i].at] = known[io[i].at]
        BY <4>1, <3>1, <1>6, <1>15
      <4>3. CASE Dead(known, act, io, io[i].at)
        BY <3>1, <4>2, <4>3, <1>13 DEF Dead
      <4>4. CASE /\ known[io[i].at] # None /\ known[io[i].at].adapting
                 /\ ~ Remade(known, io[i].at) /\ ~ Busy(act, io[i].at)
        BY <3>1, <4>2, <4>4 DEF Remade
      <4> QED BY <3>1, <4>1, <4>3, <4>4, <1>7 DEF Reports
    <3>2. CASE io'[i] = h
      BY <3>2, <1>5, <1>6, <1>8, <1>11
    <3> QED BY <3>1, <3>2, <1>12
  <2>2. ASSUME NEW i \in DOMAIN io', NEW j \in DOMAIN io',
               io'[i].op = "reconfigured", io'[j].op = "reconfigured",
               io'[i].at = io'[j].at, known'[io'[i].at] # None
        PROVE  i = j
    <3>1. CASE i \in DOMAIN io /\ io'[i] = io[i] /\ j \in DOMAIN io /\ io'[j] = io[j]
      <4>1. Reported(io, i) /\ Reported(io, j)
        BY <2>2, <3>1 DEF Reported
      <4>2. known'[io[i].at] = known[io[i].at]
        BY <4>1, <3>1, <1>6, <1>15
      <4> QED BY <2>2, <3>1, <4>1, <4>2, <1>7 DEF Reports
    <3>2. CASE i \in DOMAIN io /\ io'[i] = io[i] /\ j = Len(io) + 1 /\ io'[j] = h
      BY <2>2, <3>2, <1>11, <1>15 DEF Reported
    <3>3. CASE j \in DOMAIN io /\ io'[j] = io[j] /\ i = Len(io) + 1 /\ io'[i] = h
      BY <2>2, <3>3, <1>11, <1>15 DEF Reported
    <3>4. CASE i = Len(io) + 1 /\ j = Len(io) + 1
      BY <3>4
    <3> QED BY <3>1, <3>2, <3>3, <3>4, <1>12
  <2> QED BY <2>1, <2>2, <1>3 DEF Reports, Reported, Dead, Remade, Busy
<1>17. Marked(known, pending_swaps, calls)'
  <2>1. \A o \in Position : known'[o] # None /\ (known[o] # None => known[o].adapting)
                               => known'[o].adapting
    BY <1>3, <1>5, <1>6
  <2>2. \A k \in DOMAIN pending_swaps : Positions(k) \subseteq Position
    BY KeyPositions DEF ControllerInv, MapTypes
  <2>3. SecondCall(calls) => Head(calls).from \in Position
    <3>1. SecondCall(calls) => Head(calls) \in SwapCall /\ Head(calls).op = "switch_second"
      BY DEF SecondCall, ControllerInv, WorkTypes
    <3> QED BY <3>1, CallFields
  <2>4. Marked(known', pending_swaps', calls')
    BY <2>1, <2>2, <2>3, <1>3, <1>7 DEF Marked
  <2> QED BY <2>4 DEF Marked, SecondCall
<1>18. act = Active(pending_swaps', calls')
  BY <1>1, <1>3
<1>19. \A o \in Position :
          /\ known'[o] = None <=> known[o] = None
          /\ known[o] # None => /\ known'[o].robot = known[o].robot
                                /\ known'[o].cached = known[o].cached
  BY <1>2, <1>3, <1>5, <1>6
<1> QED BY <1>1, <1>3, <1>14, <1>16, <1>17, <1>18, <1>19, RemakingFlags

LEMMA CompletionFlags ==
    ASSUME ControllerInv, ControllerInv', Ordered,
           Flags(known, pending_swaps, io, calls),
           NEW r \in Robot, CompleteReconfiguration(r)
    PROVE  Flags(known, pending_swaps, io, calls)'
<1>1. PICK act : act = Active(pending_swaps, calls)
  OBVIOUS
<1>2. /\ UNCHANGED <<known, pending_swaps, calls, place, target, client, io>>
      /\ new_profile[r] # None
  BY DEF CompleteReconfiguration, mapVars, workVars
<1>3. /\ new_profile'[r] = None
      /\ \A s \in Robot \ {r} : /\ new_profile'[s] = new_profile[s]
                                /\ profile'[s] = profile[s]
  BY DEF CompleteReconfiguration, ControllerInv, RobotTypes
<1>4. /\ Remaking(known, act) /\ Reports(known, act, io)
      /\ Marked(known, pending_swaps, calls)
  BY <1>1 DEF Flags
<1>5. \A p \in Position : known[p] # None => known[p].robot \in Robot
  BY RobotOfEntry DEF ControllerInv
<1>6. Remaking(known, act)'
  <2>1. ASSUME NEW p \in Position, known[p] # None,
               \/ new_profile'[known[p].robot] # None
               \/ known[p].profile # profile'[known[p].robot]
        PROVE  /\ known[p].adapting /\ ~ Busy(act, p)
               /\ new_profile'[known[p].robot] # None =>
                     known[p].profile = profile'[known[p].robot]
    BY <2>1, <1>2, <1>3, <1>4, <1>5 DEF Remaking, Remade
  <2> QED BY <2>1, <1>2 DEF Remaking, Remade, Busy
<1>7. Reports(known, act, io)'
  <2>1. ASSUME NEW i \in DOMAIN io, Reported(io, i)
        PROVE  \/ /\ known[io[i].at] = None /\ ~ Busy(act, io[i].at)
                  /\ \A s \in Robot : Registering(io, s)' => place[s] # io[i].at
               \/ /\ known[io[i].at] # None /\ known[io[i].at].adapting
                  /\ ~ (\/ new_profile'[known[io[i].at].robot] # None
                        \/ known[io[i].at].profile # profile'[known[io[i].at].robot])
                  /\ ~ Busy(act, io[i].at)
    <3>1. io[i].at \in Position
      BY <2>1, HandlerFields DEF ControllerInv, WorkTypes, Reported
    <3>2. CASE Dead(known, act, io, io[i].at)
      <4>1. \A s \in Robot : Registering(io, s)' => Registering(io, s)
        BY <1>2 DEF Registering
      <4> QED BY <3>2, <4>1 DEF Dead
    <3>3. CASE /\ known[io[i].at] # None /\ known[io[i].at].adapting
               /\ ~ Remade(known, io[i].at) /\ ~ Busy(act, io[i].at)
      <4>1. known[io[i].at].robot \in Robot \ {r}
        BY <3>1, <3>3, <1>2, <1>5 DEF Remade
      <4> QED BY <3>3, <4>1, <1>3 DEF Remade
    <3> QED BY <2>1, <3>2, <3>3, <1>4 DEF Reports
  <2> QED BY <2>1, <1>2, <1>4 DEF Reports, Reported, Dead, Remade, Busy
<1>8. Marked(known, pending_swaps, calls)'
  BY <1>2, <1>4 DEF Marked, SecondCall
<1>9. act = Active(pending_swaps', calls')
  BY <1>1, <1>2
<1>10. \A o \in Position :
          /\ known'[o] = None <=> known[o] = None
          /\ known[o] # None => /\ known'[o].robot = known[o].robot
                                /\ known'[o].cached = known[o].cached
  BY <1>2
<1> QED BY <1>1, <1>2, <1>6, <1>7, <1>8, <1>9, <1>10, RemakingFlags

------------------------------------------------------------------------------
(* The calls that have robots adapt.                                        *)

(* An entry without a flag is in no swap, its robot has nothing to report.  *)
LEMMA UnflaggedFacts ==
    ASSUME ControllerInv, Flags(known, pending_swaps, io, calls),
           NEW act, act = Active(pending_swaps, calls),
           NEW p \in Position, known[p] # None, ~ known[p].adapting
    PROVE  /\ ~ Remade(known, p)
           /\ ~ Busy(DOMAIN pending_swaps, p)
           /\ \A i \in DOMAIN io : Reported(io, i) => io[i].at # p
<1>1. /\ Remaking(known, act) /\ Reports(known, act, io)
      /\ Marked(known, pending_swaps, calls)
  BY DEF Flags
<1>2. ~ Busy(DOMAIN pending_swaps, p)
  BY <1>1 DEF Marked, Busy
<1>3. ~ Remade(known, p)
  BY <1>1 DEF Remaking
<1>4. ASSUME NEW i \in DOMAIN io, Reported(io, i), io[i].at = p
      PROVE  FALSE
  BY <1>1, <1>4 DEF Reports, Dead
<1> QED BY <1>2, <1>3, <1>4

LEMMA ReconfigureCallFlags ==
    ASSUME ControllerInv, ControllerInv', Ordered, Uncut',
           Flags(known, pending_swaps, io, calls), ReconfigureCall
    PROVE  Flags(known, pending_swaps, io, calls)'
<1>1. PICK act : act = Active(pending_swaps, calls)
  OBVIOUS
<1>2. PICK p \in Position : p = Head(calls).at
  BY CallingType, CallFields DEF ReconfigureCall, ControllerInv
<1>3. PICK r \in Robot : r = known[p].robot
  BY <1>2, RobotOfEntry DEF ControllerInv, ReconfigureCall
<1>4. PICK f : f = Head(calls).profile
  OBVIOUS
<1>5. /\ calls # <<>> /\ ~ SecondCall(calls) /\ calls' = Tail(calls)
      /\ known[p] # None /\ ~ known[p].adapting
      /\ ReconfigureTo(r, f)
      /\ known' = IF WillReconfigure(r, f) THEN Flagged(known, p) ELSE known
      /\ UNCHANGED <<pending_swaps, io, place, profile, client>>
  BY <1>2, <1>3, <1>4 DEF ReconfigureCall, Calling, SecondCall, Fault, Uncut
<1>6. target' = target
  BY <1>5 DEF ReconfigureTo
<1>7. CASE ~ WillReconfigure(r, f)
  <2>1. known' = known /\ new_profile' = new_profile
    BY <1>5, <1>7 DEF ReconfigureTo
  <2>2. KeepsFlags(known, known')
    BY <2>1, SameKeepsFlags
  <2> QED BY <1>5, <1>6, <2>1, <2>2, CallFlags
<1>8. CASE WillReconfigure(r, f)
  <2>1. /\ known' = Flagged(known, p) /\ new_profile' = [new_profile EXCEPT ![r] = f]
    BY <1>5, <1>8 DEF ReconfigureTo
  <2>2. \A s \in Robot \ {r} : new_profile'[s] = new_profile[s]
    BY <2>1 DEF ControllerInv, RobotTypes
  <2>3. /\ KeepsFlags(known, known') /\ known'[p].adapting
        /\ \A o \in Position \ {p} : known'[o] = known[o]
    <3>1. known \in Remotes
      BY DEF ControllerInv, MapTypes
    <3>2. /\ KeepsFlags(known, Flagged(known, p)) /\ Flagged(known, p)[p].adapting
          /\ \A o \in Position \ {p} : Flagged(known, p)[o] = known[o]
      BY <3>1, <1>5, FlagKeepsFlags
    <3> QED BY <2>1, <3>2
  <2>4. /\ known'[p] # None /\ known'[p].robot = r
        /\ known'[p].profile = known[p].profile
    BY <2>3, <1>3, <1>5 DEF KeepsFlags, KeepsMarks
  <2>5. /\ Remaking(known, act) /\ Reports(known, act, io)
        /\ Marked(known, pending_swaps, calls)
    BY <1>1 DEF Flags
  <2>6. /\ ~ Remade(known, p) /\ ~ Busy(DOMAIN pending_swaps, p)
        /\ \A i \in DOMAIN io : Reported(io, i) => io[i].at # p
    BY <1>1, <1>5, UnflaggedFacts
  <2>7. /\ act = DOMAIN pending_swaps /\ act = Active(pending_swaps', calls')
        /\ ~ SecondCall(calls')
    BY <1>1, <1>5, OneCallLess DEF Active
  <2>8. \A o \in Position \ {p} : known[o] # None => known[o].robot \in Robot \ {r}
    <3>1. \A o \in Position : known[o] # None => known[o].robot \in Robot
      BY RobotOfEntry DEF ControllerInv
    <3>2. OneEntryEach(known)
      BY DEF Ordered, Orderly
    <3> QED BY <3>1, <3>2, <1>3, <1>5 DEF OneEntryEach
  <2>9. Remaking(known, act)'
    <3>1. ASSUME NEW o \in Position, known'[o] # None,
                 \/ new_profile'[known'[o].robot] # None
                 \/ known'[o].profile # profile[known'[o].robot]
          PROVE  /\ known'[o].adapting /\ ~ Busy(act, o)
                 /\ new_profile'[known'[o].robot] # None =>
                       known'[o].profile = profile[known'[o].robot]
      <4>1. CASE o = p
        BY <4>1, <1>3, <2>3, <2>4, <2>6, <2>7 DEF Remade
      <4>2. CASE o # p
        BY <4>2, <3>1, <2>2, <2>3, <2>5, <2>8 DEF Remaking, Remade
      <4> QED BY <4>1, <4>2
    <3> QED BY <3>1, <1>5 DEF Remaking, Remade, Busy
  <2>10. Reports(known, act, io)'
    <3>1. ASSUME NEW i \in DOMAIN io, Reported(io, i)
          PROVE  \/ /\ known'[io[i].at] = None /\ ~ Busy(act, io[i].at)
                    /\ \A s \in Robot : Registering(io, s)' => place[s] # io[i].at
                 \/ /\ known'[io[i].at] # None /\ known'[io[i].at].adapting
                    /\ ~ (\/ new_profile'[known'[io[i].at].robot] # None
                          \/ known'[io[i].at].profile
                                # profile[known'[io[i].at].robot])
                    /\ ~ Busy(act, io[i].at)
      <4>1. io[i].at \in Position \ {p}
        BY <3>1, <2>6, HandlerFields DEF ControllerInv, WorkTypes, Reported
      <4>2. known'[io[i].at] = known[io[i].at]
        BY <4>1, <2>3
      <4>3. CASE Dead(known, act, io, io[i].at)
        <5>1. \A s \in Robot : Registering(io, s)' => Registering(io, s)
          BY <1>5 DEF Registering
        <5> QED BY <4>2, <4>3, <5>1 DEF Dead
      <4>4. CASE /\ known[io[i].at] # None /\ known[io[i].at].adapting
                 /\ ~ Remade(known, io[i].at) /\ ~ Busy(act, io[i].at)
        <5>1. known[io[i].at].robot \in Robot \ {r}
          BY <4>1, <4>4, <2>8
        <5> QED BY <4>2, <4>4, <5>1, <2>2 DEF Remade
      <4> QED BY <3>1, <4>3, <4>4, <2>5 DEF Reports
    <3>2. ASSUME NEW i \in DOMAIN io, NEW j \in DOMAIN io,
                 Reported(io, i), Reported(io, j), io[i].at = io[j].at,
                 known'[io[i].at] # None
          PROVE  i = j
      <4>1. io[i].at \in Position \ {p}
        BY <3>2, <2>6, HandlerFields DEF ControllerInv, WorkTypes, Reported
      <4> QED BY <3>2, <4>1, <2>3, <2>5 DEF Reports
    <3> QED BY <3>1, <3>2, <1>5 DEF Reports, Reported, Dead, Remade, Busy
  <2>11. Marked(known', pending_swaps', calls')
    <3>1. KeepsFlags(known, known') /\ DOMAIN pending_swaps' \subseteq DOMAIN pending_swaps
      BY <2>3, <1>5
    <3> QED BY <3>1, <2>5, <2>7, MarksStay DEF ControllerInv, MapTypes, WorkTypes
  <2>12. Marked(known, pending_swaps, calls)'
    BY <2>11 DEF Marked, SecondCall
  <2>13. \A o \in Position :
            /\ known'[o] = None <=> known[o] = None
            /\ known[o] # None => /\ known'[o].robot = known[o].robot
                                  /\ known'[o].cached = known[o].cached
    BY <2>3 DEF KeepsFlags, KeepsMarks
  <2> QED BY <1>1, <1>5, <1>6, <2>7, <2>9, <2>10, <2>12, <2>13, RemakingFlags
<1> QED BY <1>7, <1>8

(* Both positions of a swap that begins are without a flag.                 *)
LEMMA SwitchFirstFlags ==
    ASSUME ControllerInv, ControllerInv', Ordered,
           Flags(known, pending_swaps, io, calls), SwitchFirst
    PROVE  Flags(known, pending_swaps, io, calls)'
<1>1. PICK from \in Position, to \in Position :
         from = Head(calls).from /\ to = Head(calls).to
  BY CallingType, CallFields DEF SwitchFirst, ControllerInv
<1>2. /\ calls # <<>> /\ Head(calls).op = "switch"
      /\ ~ Refused(from, to) /\ ~ Unavailable(from) /\ ~ Unavailable(to)
  BY <1>1 DEF SwitchFirst, Calling
<1>3. Active(pending_swaps, calls) = DOMAIN pending_swaps
  BY <1>2 DEF Active, SecondCall
<1>4. /\ from # to /\ known[from] # None /\ known[to] # None
      /\ ~ known[from].adapting /\ ~ known[to].adapting
      /\ ~ Busy(DOMAIN pending_swaps, from) /\ ~ Busy(DOMAIN pending_swaps, to)
  <2>1. /\ from # to /\ ~ Busy(DOMAIN pending_swaps, from)
        /\ ~ Busy(DOMAIN pending_swaps, to) /\ known[from] # None
    BY <1>2 DEF Refused, Swapping, Busy
  <2>2. known[to] # None
    BY <2>1, <1>1, <1>2, <1>3 DEF Ordered, Orderly, Switching
  <2> QED BY <2>1, <2>2, <1>2 DEF Refused
<1>5. PICK r \in Robot : r = known[from].robot
  BY <1>4, RobotOfEntry DEF ControllerInv
<1>6. Available(from)
  BY <1>2, <1>4 DEF Unavailable
<1>7. Idle(r) /\ known[from].link = "live" /\ known[from].cached = from /\ place[r] = from
  BY <1>3, <1>4, <1>5, <1>6, AvailableFacts DEF Ordered, Orderly, Home, AtHome
<1>8. WillSwitch(r, to)
  BY <1>4, <1>7 DEF WillSwitch, Idle
<1> DEFINE c == [op |-> "switch_second", from |-> from, to |-> to]
<1>9. /\ UNCHANGED <<pending_swaps, io, place, profile, new_profile, client>>
      /\ known' = Flagged(known, from) /\ calls' = <<c>> \o Tail(calls)
      /\ target' = [target EXCEPT ![r] = to]
  BY <1>1, <1>5, <1>8 DEF SwitchFirst, SwitchPosition
<1>10. calls' # <<>> /\ Head(calls') = c
  <2>1. c \in SwapCall /\ Tail(calls) \in Seq(SwapCall)
    BY <1>2, <1>4 DEF ControllerInv, WorkTypes, SwapCall, Call
  <2> HIDE DEF c
  <2> QED BY <2>1, <1>9
<1>11. /\ KeepsFlags(known, known') /\ known'[from].adapting
  BY <1>4, <1>9, FlagKeepsFlags DEF ControllerInv, MapTypes
<1>12. Key(from, to) \in SwapKey /\ Positions(Key(from, to)) = {from, to}
  BY <1>4, KeyFacts
<1>13. Active(pending_swaps', calls') = DOMAIN pending_swaps \cup {Key(from, to)}
  BY <1>9, <1>10, <1>12 DEF Active, SecondCall
<1>14. PICK act, new : /\ act = Active(pending_swaps, calls)
                       /\ new = Active(pending_swaps', calls')
  OBVIOUS
<1>15. /\ \A p \in Position : Busy(act, p) => Busy(new, p)
       /\ \A p \in Position : Busy(new, p) => Busy(act, p) \/ p \in {from, to}
       /\ Busy(new, from)
  BY <1>3, <1>12, <1>13, <1>14 DEF Busy
<1>16. Marked(known', pending_swaps', calls')
  <2>1. Marked(known, pending_swaps, calls)
    BY DEF Flags
  <2>2. ASSUME NEW k \in DOMAIN pending_swaps, NEW p \in Positions(k), known'[p] # None
        PROVE  known'[p].adapting
    <3>1. p \in Position
      BY KeyPositions DEF ControllerInv, MapTypes
    <3> QED BY <2>1, <2>2, <3>1, <1>11 DEF Marked, KeepsFlags, KeepsMarks
  <2>3. Head(calls').from = from
    BY <1>10
  <2> QED BY <2>2, <2>3, <1>9, <1>11 DEF Marked
<1>17. Marked(known, pending_swaps, calls)'
  BY <1>16 DEF Marked, SecondCall
<1>18. \A p \in Position : known[p] # None =>
          \/ target'[known[p].robot] = target[known[p].robot]
          \/ known[p].cached = p /\ Busy(new, p)
  <2>1. ASSUME NEW p \in Position, known[p] # None, p # from
        PROVE  known[p].robot \in Robot \ {r}
    BY <2>1, <1>4, <1>5, RobotOfEntry DEF ControllerInv, Ordered, Orderly, OneEntryEach
  <2>2. \A s \in Robot \ {r} : target'[s] = target[s]
    BY <1>9 DEF ControllerInv, RobotTypes
  <2> QED BY <2>1, <2>2, <1>7, <1>15
<1>19. OldReports(io, io') /\ \A s \in Robot : Registering(io, s)' => Registering(io, s)
  BY <1>9 DEF OldReports, Registering
<1>20. \A p \in Position : Busy(new, p) => \/ Busy(act, p)
                                           \/ known[p] # None /\ ~ known[p].adapting
  BY <1>4, <1>15
<1> QED BY <1>9, <1>11, <1>14, <1>15, <1>17, <1>18, <1>19, <1>20, StepFlags

LEMMA SwitchSecondFlags ==
    ASSUME ControllerInv, ControllerInv', Ordered, Uncut',
           Flags(known, pending_swaps, io, calls),
           SwitchSecond \/ SwitchSecondFails
    PROVE  Flags(known, pending_swaps, io, calls)'
<1>1. PICK from \in Position, to \in Position :
         from = Head(calls).from /\ to = Head(calls).to
  BY CallingType, CallFields DEF SwitchSecond, SwitchSecondFails, ControllerInv
<1>2. Calling("switch_second") /\ calls # <<>> /\ SecondCall(calls)
  BY DEF SwitchSecond, SwitchSecondFails, Calling, SecondCall
<1>3. /\ from # to /\ known[to] # None /\ known[to].cached = to
      /\ Key(from, to) \in SwapKey /\ Positions(Key(from, to)) = {from, to}
      /\ Alive(to) => Idle(known[to].robot) /\ place[known[to].robot] = to
  BY <1>1, <1>2, SwitchSecondFacts
<1>4. PICK r \in Robot : r = known[to].robot
  BY <1>3, RobotOfEntry DEF ControllerInv
<1>5. /\ UNCHANGED <<place, profile, new_profile, io, client>>
      /\ calls' = Tail(calls)
      /\ \E acked : pending_swaps' = AddSwap(from, to, acked)
      /\ target' = target \/ target' = [target EXCEPT ![r] = from]
      /\ known' = Flagged(known, to) \/ known' = Flagged(Stop(known, to), to)
  <2>1. CASE SwitchSecond
    <3>1. Alive(to)
      BY <2>1, <1>1, <1>3 DEF SwitchSecond
    <3>2. WillSwitch(r, from)
      BY <3>1, <1>3, <1>4 DEF WillSwitch, Idle
    <3> QED BY <2>1, <3>2, <1>1, <1>3, <1>4 DEF SwitchSecond, SwitchPosition
  <2>2. CASE SwitchSecondFails
    BY <2>2, <1>1 DEF SwitchSecondFails, Fault, Uncut, goalVars
  <2> QED BY <2>1, <2>2, SMTT(60)
<1>6. DOMAIN pending_swaps' = DOMAIN pending_swaps \cup {Key(from, to)}
  BY <1>5 DEF AddSwap
<1>7. ~ SecondCall(calls')
  BY <1>2, <1>5, OneCallLess
<1>8. Active(pending_swaps', calls') = Active(pending_swaps, calls)
  BY <1>1, <1>2, <1>3, <1>6, <1>7 DEF Active
<1>9. KeepsFlags(known, known') /\ known'[to].adapting
  <2>1. known \in Remotes
    BY DEF ControllerInv, MapTypes
  <2>2. CASE known' = Flagged(known, to)
    BY <2>1, <2>2, <1>3, FlagKeepsFlags
  <2>3. CASE known' = Flagged(Stop(known, to), to)
    <3>1. PICK m : m = Stop(known, to)
      OBVIOUS
    <3>2. m \in Remotes /\ KeepsFlags(known, m)
      BY <2>1, <3>1, StopFacts, StopKeepsFlags
    <3>3. m[to] # None
      BY <3>2, <1>3 DEF KeepsFlags, KeepsMarks
    <3>4. KeepsFlags(m, known') /\ known'[to].adapting
      BY <2>3, <3>1, <3>2, <3>3, FlagKeepsFlags
    <3> QED BY <3>2, <3>4 DEF KeepsFlags, KeepsMarks
  <2> QED BY <2>2, <2>3, <1>5
<1>10. Marked(known', pending_swaps', calls')
  <2>1. Marked(known, pending_swaps, calls)
    BY DEF Flags
  <2>2. ASSUME NEW k \in DOMAIN pending_swaps', NEW p \in Positions(k), known'[p] # None
        PROVE  known'[p].adapting
    <3>1. CASE k \in DOMAIN pending_swaps
      <4>1. p \in Position
        BY <3>1, KeyPositions DEF ControllerInv, MapTypes
      <4> QED BY <2>1, <2>2, <3>1, <4>1, <1>9 DEF Marked, KeepsFlags, KeepsMarks
    <3>2. CASE k = Key(from, to)
      <4>1. p \in {from, to}
        BY <3>2, <1>3
      <4>2. CASE p = from
        BY <2>1, <2>2, <4>2, <1>1, <1>2, <1>9 DEF Marked, KeepsFlags, KeepsMarks
      <4> QED BY <4>1, <4>2, <1>9
    <3> QED BY <3>1, <3>2, <1>6
  <2> QED BY <2>2, <1>7 DEF Marked
<1>11. Marked(known, pending_swaps, calls)'
  BY <1>10 DEF Marked, SecondCall
<1>12. PICK act : act = Active(pending_swaps, calls) /\ Busy(act, to)
  BY <1>1, <1>2, <1>3 DEF Active, Busy
<1>13. \A p \in Position : known[p] # None =>
          \/ target'[known[p].robot] = target[known[p].robot]
          \/ known[p].cached = p /\ Busy(act, p)
  <2>1. ASSUME NEW p \in Position, known[p] # None, p # to
        PROVE  known[p].robot \in Robot \ {r}
    BY <2>1, <1>3, <1>4, RobotOfEntry DEF ControllerInv, Ordered, Orderly, OneEntryEach
  <2>2. \A s \in Robot \ {r} : target'[s] = target[s]
    BY <1>5 DEF ControllerInv, RobotTypes
  <2> QED BY <2>1, <2>2, <1>3, <1>12
<1>14. OldReports(io, io') /\ \A s \in Robot : Registering(io, s)' => Registering(io, s)
  BY <1>5 DEF OldReports, Registering
<1>15. act = Active(pending_swaps', calls')
  BY <1>8, <1>12
<1> QED BY <1>5, <1>9, <1>11, <1>12, <1>13, <1>14, <1>15, StepFlags


------------------------------------------------------------------------------
(* The handlers.                                                            *)

LEMMA ShorterReports ==
    ASSUME NEW m, NEW act, NEW q \in Seq(Handler), q # <<>>, Reports(m, act, q)
    PROVE  /\ Reports(m, act, Tail(q))
           /\ Reported(q, 1) /\ m[q[1].at] # None =>
                 \A i \in DOMAIN Tail(q) :
                    Reported(Tail(q), i) => Tail(q)[i].at # q[1].at
<1> DEFINE t == Tail(q)
<1>1. /\ \A i \in DOMAIN t : i + 1 \in DOMAIN q /\ t[i] = q[i + 1] /\ i + 1 # 1
      /\ \A i, j \in DOMAIN t : i + 1 = j + 1 => i = j
      /\ 1 \in DOMAIN q
  OBVIOUS
<1> HIDE DEF t
<1>2. \A r \in Robot : Registering(t, r) => Registering(q, r)
  BY <1>1 DEF Registering
<1>3. \A p : Dead(m, act, q, p) => Dead(m, act, t, p)
  BY <1>2 DEF Dead
<1>4. \A i \in DOMAIN t : Reported(t, i) => Reported(q, i + 1)
  BY <1>1 DEF Reported
<1>5. ASSUME NEW i \in DOMAIN t, Reported(t, i)
      PROVE  \/ Dead(m, act, t, t[i].at)
             \/ /\ m[t[i].at] # None /\ m[t[i].at].adapting
                /\ ~ Remade(m, t[i].at) /\ ~ Busy(act, t[i].at)
  BY <1>1, <1>3, <1>4, <1>5 DEF Reports
<1>6. ASSUME NEW i \in DOMAIN t, NEW j \in DOMAIN t, Reported(t, i), Reported(t, j),
             t[i].at = t[j].at, m[t[i].at] # None
      PROVE  i = j
  <2>1. i + 1 = j + 1
    BY <1>1, <1>4, <1>6 DEF Reports
  <2> QED BY <2>1, <1>1
<1>7. ASSUME Reported(q, 1), m[q[1].at] # None,
             NEW i \in DOMAIN t, Reported(t, i), t[i].at = q[1].at
      PROVE  FALSE
  <2>1. i + 1 = 1
    BY <1>1, <1>4, <1>7 DEF Reports
  <2> QED BY <2>1, <1>1
<1>8. Reports(m, act, t)
  BY <1>5, <1>6 DEF Reports
<1> QED BY <1>7, <1>8 DEF t

(* The part of the flags that is about a map, swaps and a queue, with no    *)
(* handler running.                                                         *)
Resting(m, act, q) ==
    /\ \A k \in act : \A p \in Positions(k) : m[p] # None => m[p].adapting
    /\ Remaking(m, act) /\ Reports(m, act, q) /\ Stays(m, act) /\ Arrived(m)

LEMMA RestingFlags ==
    ASSUME UNCHANGED <<place, profile, new_profile, target, client>>,
           ~ SecondCall(calls'), Resting(known', DOMAIN pending_swaps', io')
    PROVE  Flags(known, pending_swaps, io, calls)'
<1>1. PICK act : act = DOMAIN pending_swaps'
  OBVIOUS
<1>2. Active(pending_swaps, calls)' = act
  BY <1>1 DEF Active, SecondCall
<1>3. Resting(known', act, io')
  BY <1>1
<1>4. Marked(known', pending_swaps', calls')
  BY <1>1, <1>3 DEF Resting, Marked
<1>5. Marked(known, pending_swaps, calls)'
  BY <1>4 DEF Marked, SecondCall
<1>6. Remaking(known, act)'
  BY <1>3 DEF Resting, Remaking, Remade, Busy
<1>7. Reports(known, act, io)'
  <2>1. \A r \in Robot : Registering(io', r) <=> Registering(io, r)'
    BY DEF Registering
  <2>2. \A p : Dead(known', act, io', p) <=> Dead(known, act, io, p)'
    BY <2>1 DEF Dead, Busy
  <2>3. \A p : Remade(known', p) <=> Remade(known, p)'
    BY DEF Remade
  <2>4. Reports(known', act, io')
    BY <1>3 DEF Resting
  <2> QED BY <2>2, <2>3, <2>4 DEF Reports, Reported, Busy
<1>8. Stays(known, act)' /\ Arrived(known)'
  BY <1>3 DEF Resting, Stays, Arrived, Busy
<1> QED BY <1>2, <1>5, <1>6, <1>7, <1>8 DEF Flags

(* The removal of stopped robots and of swaps without a robot.              *)
LEMMA TidyFlags ==
    ASSUME ControllerInv, Ordered, Flags(known, pending_swaps, io, calls),
           calls = <<>>, io # <<>>
    PROVE  /\ Resting(remove_stopped_robots, DOMAIN pending_swaps, io)
           /\ Resting(remove_stopped_robots, DOMAIN pending_swaps, Tail(io))
           /\ Resting(remove_stopped_robots, Fresh, io)
           /\ Resting(remove_stopped_robots, Fresh, Tail(io))
<1> DEFINE m == remove_stopped_robots
           act == DOMAIN pending_swaps
<1>1. /\ \A p \in Position : m[p] # None => m[p] = known[p] /\ known[p] # None
      /\ \A p \in Position : known[p] = None => m[p] = None
  BY RemovedEntries
<1>2. Active(pending_swaps, calls) = act
  BY DEF Active, SecondCall
<1>3. \A k \in act : \A p \in Positions(k) : p \in Position
  BY KeyPositions DEF ControllerInv, MapTypes
<1>4. \A i \in DOMAIN io : Reported(io, i) => io[i].at \in Position
  BY HandlerFields DEF ControllerInv, WorkTypes, Reported
<1>5. ASSUME NEW p \in Position, Busy(act, p), m[p] # None
      PROVE  Busy(Fresh, p)
  BY <1>5 DEF Busy, Fresh
<1> HIDE DEF m, act
<1>6. /\ \A k \in act : \A p \in Positions(k) : known[p] # None => known[p].adapting
      /\ Remaking(known, act) /\ Reports(known, act, io)
      /\ Stays(known, act) /\ Arrived(known) /\ Newcomers(known, act, io)
  BY <1>2 DEF Flags, Marked, Ordered, Orderly, act
<1>7. ASSUME NEW S, S \subseteq act,
             \A p \in Position : Busy(act, p) /\ m[p] # None => Busy(S, p)
      PROVE  Resting(m, S, io) /\ Resting(m, S, Tail(io))
  <2>1. \A p : Busy(S, p) => Busy(act, p)
    BY <1>7 DEF Busy
  <2>2. \A k \in S : \A p \in Positions(k) : m[p] # None => m[p].adapting
    BY <1>1, <1>3, <1>6, <1>7
  <2>3. Remaking(m, S)
    BY <1>1, <1>6, <2>1 DEF Remaking, Remade
  <2>4. Stays(m, S) /\ Arrived(m)
    BY <1>1, <1>6, <1>7 DEF Stays, Arrived
  <2>5. Reports(m, S, io)
    <3>1. ASSUME NEW i \in DOMAIN io, Reported(io, i)
          PROVE  \/ Dead(m, S, io, io[i].at)
                 \/ /\ m[io[i].at] # None /\ m[io[i].at].adapting
                    /\ ~ Remade(m, io[i].at) /\ ~ Busy(S, io[i].at)
      <4>1. PICK p \in Position : p = io[i].at
        BY <3>1, <1>4
      <4>2. CASE Dead(known, act, io, p)
        <5>1. Dead(m, S, io, p)
          BY <4>2, <1>1, <2>1 DEF Dead
        <5> QED BY <4>1, <5>1
      <4>3. CASE /\ known[p] # None /\ known[p].adapting
                 /\ ~ Remade(known, p) /\ ~ Busy(act, p)
        <5>1. CASE m[p] # None
          BY <4>1, <4>3, <5>1, <1>1, <2>1 DEF Remade
        <5>2. CASE m[p] = None
          <6>1. Dead(m, S, io, p)
            BY <4>3, <5>2, <1>6, <2>1 DEF Dead, Newcomers
          <6> QED BY <4>1, <6>1
        <5> QED BY <5>1, <5>2
      <4> QED BY <3>1, <4>1, <4>2, <4>3, <1>6 DEF Reports
    <3>2. ASSUME NEW i \in DOMAIN io, NEW j \in DOMAIN io, Reported(io, i),
                 Reported(io, j), io[i].at = io[j].at, m[io[i].at] # None
          PROVE  i = j
      <4>1. known[io[i].at] # None
        BY <3>2, <1>1, <1>4
      <4> QED BY <3>2, <4>1, <1>6 DEF Reports
    <3> QED BY <3>1, <3>2 DEF Reports
  <2>6. Reports(m, S, Tail(io))
    BY <2>5, ShorterReports DEF ControllerInv, WorkTypes
  <2> QED BY <2>2, <2>3, <2>4, <2>5, <2>6 DEF Resting
<1>8. Resting(m, act, io) /\ Resting(m, act, Tail(io))
  <2>1. act \subseteq act
    OBVIOUS
  <2> QED BY <2>1, <1>7
<1>9. Resting(m, Fresh, io) /\ Resting(m, Fresh, Tail(io))
  <2>1. Fresh \subseteq act
    BY DEF Fresh, act
  <2> QED BY <2>1, <1>5, <1>7 DEF m, act
<1> QED BY <1>8, <1>9 DEF m, act


LEMMA NextRobotFlags ==
    ASSUME ControllerInv, Ordered, Flags(known, pending_swaps, io, calls),
           HandleNextRobotRequest
    PROVE  Flags(known, pending_swaps, io, calls)'
<1>1. /\ io # <<>> /\ calls = <<>> /\ io' = Tail(io)
      /\ known' = remove_stopped_robots /\ pending_swaps' = Swaps
      /\ UNCHANGED <<place, profile, new_profile, target, client>>
  BY DEF HandleNextRobotRequest, Take, robotVars, goalVars
<1>2. Resting(remove_stopped_robots, Fresh, Tail(io)) /\ DOMAIN Swaps = Fresh
  BY <1>1, TidyFlags, TidyFacts
<1>3. Resting(known', DOMAIN pending_swaps', io')
  BY <1>1, <1>2
<1> QED BY <1>1, <1>3, NextRobotCalls, RestingFlags

(* The flag that a report resets is up, and its robot is in no swap.        *)
LEMMA CapabilitiesReconfiguredFlags ==
    ASSUME ControllerInv, Ordered, Flags(known, pending_swaps, io, calls),
           HandleCapabilitiesReconfigured
    PROVE  Flags(known, pending_swaps, io, calls)'
<1> DEFINE m == remove_stopped_robots
           act == DOMAIN pending_swaps
<1>1. /\ io # <<>> /\ calls = <<>> /\ io' = Tail(io)
      /\ Head(io).at \in Position /\ Head(io).op = "reconfigured"
  BY TakeType, HandlerFields
     DEF HandleCapabilitiesReconfigured, Take, ControllerInv
<1>2. PICK p \in Position : p = Head(io).at
  BY <1>1
<1>3. /\ DOMAIN pending_swaps' = act
      /\ UNCHANGED <<place, profile, new_profile, target, client, calls>>
      /\ known' = IF m[p] = None THEN m ELSE [m EXCEPT ![p] = Settled(m[p])]
  BY <1>2 DEF HandleCapabilitiesReconfigured, robotVars, goalVars, AckedByRemoval
<1>4. Resting(m, act, io) /\ Resting(m, act, Tail(io)) /\ m \in Remotes
  BY <1>1, TidyFlags, RemovedEntries
<1>5. 1 \in DOMAIN io /\ io[1] = Head(io) /\ io \in Seq(Handler)
  BY <1>1 DEF ControllerInv, WorkTypes
<1>6. ~ SecondCall(calls')
  BY <1>1, <1>3 DEF SecondCall
<1>7. act \subseteq SwapKey
  BY DEF ControllerInv, MapTypes
<1> HIDE DEF m, act
<1>8. CASE m[p] = None
  <2>1. Resting(known', DOMAIN pending_swaps', io')
    BY <1>1, <1>3, <1>4, <1>8
  <2> QED BY <1>3, <1>6, <2>1, RestingFlags
<1>9. CASE m[p] # None
  <2>1. Reported(io, 1) /\ io[1].at = p
    BY <1>1, <1>2, <1>5 DEF Reported
  <2>2. Reports(m, act, io) /\ Reports(m, act, Tail(io))
    BY <1>4 DEF Resting
  <2>3. ~ Remade(m, p) /\ ~ Busy(act, p)
    BY <1>5, <1>9, <2>1, <2>2 DEF Reports, Dead
  <2>4. \A i \in DOMAIN Tail(io) : Reported(Tail(io), i) => Tail(io)[i].at # p
    BY <1>1, <1>5, <1>9, <2>1, <2>2, ShorterReports
  <2>5. PICK e : e = Settled(m[p])
    OBVIOUS
  <2>6. /\ e # None /\ e.robot = m[p].robot /\ e.cached = m[p].cached
        /\ e.profile = m[p].profile
    <3>1. m[p] \in RemoteType
      BY <1>4, <1>9, EntryFields
    <3>2. /\ e \in RemoteType /\ e.robot = m[p].robot
          /\ e.cached = m[p].cached /\ e.profile = m[p].profile
      BY <3>1, <2>5, SettledFacts
    <3> QED BY <3>2, NoneIsNoRemote
  <2>7. PICK n : n = known'
    OBVIOUS
  <2>8. n[p] = e /\ \A o \in Position \ {p} : n[o] = m[o]
    BY <1>3, <1>4, <1>9, <2>5, <2>7 DEF Remotes
  <2>9. PICK t : t = Tail(io)
    OBVIOUS
  <2>10. \A i \in DOMAIN t : Reported(t, i) => t[i].at \in Position
    <3>1. t \in Seq(Handler)
      BY <1>1, <1>5, <2>9
    <3> QED BY <3>1, HandlerFields DEF Reported
  <2>11. Reports(m, act, t) /\ \A i \in DOMAIN t : Reported(t, i) => t[i].at # p
    BY <2>2, <2>4, <2>9
  <2>12. Reports(n, act, t)
    <3>1. \A i \in DOMAIN t : Reported(t, i) => n[t[i].at] = m[t[i].at]
      BY <2>8, <2>10, <2>11
    <3> QED BY <3>1, <2>11 DEF Reports, Dead, Remade
  <2>13. \A k \in act : \A o \in Positions(k) : n[o] # None => n[o].adapting
    <3>1. ASSUME NEW k \in act, NEW o \in Positions(k), n[o] # None
          PROVE  n[o].adapting
      <4>1. o \in Position /\ o # p
        BY <3>1, <2>3, <1>7, KeyPositions DEF Busy
      <4> QED BY <3>1, <4>1, <2>8, <1>4 DEF Resting
    <3> QED BY <3>1
  <2>14. Remaking(n, act)
    BY <1>4, <2>3, <2>6, <2>8 DEF Resting, Remaking, Remade
  <2>15. Stays(n, act) /\ Arrived(n)
    BY <1>4, <1>9, <2>6, <2>8 DEF Resting, Stays, Arrived
  <2>16. Resting(n, act, t)
    BY <2>12, <2>13, <2>14, <2>15 DEF Resting
  <2>17. Resting(known', DOMAIN pending_swaps', io')
    BY <2>16, <2>7, <2>9, <1>1, <1>3
  <2> QED BY <1>3, <1>6, <2>17, RestingFlags
<1> QED BY <1>8, <1>9


(* Nothing is reported of a position that somebody registers for.           *)
LEMMA RegistrationFlags ==
    ASSUME ControllerInv, Ordered, Flags(known, pending_swaps, io, calls),
           HandleRobotRegistration
    PROVE  Flags(known, pending_swaps, io, calls)'
<1> DEFINE m == remove_stopped_robots
<1>1. /\ io # <<>> /\ calls = <<>> /\ io' = Tail(io)
      /\ Head(io).op = "register" /\ Head(io).robot \in Robot
      /\ Head(io).position \in Position
  BY TakeType, HandlerFields
     DEF HandleRobotRegistration, Take, ControllerInv
<1>2. PICK r \in Robot, p \in Position : r = Head(io).robot /\ p = Head(io).position
  BY <1>1
<1> DEFINE e == Remote(r, place[r], profile[r])
           c == [op |-> "resolve", at |-> p]
<1>3. /\ pending_swaps' = Swaps
      /\ UNCHANGED <<place, profile, new_profile, target, client>>
      /\ \/ known' = [m EXCEPT ![p] = e] /\ calls' = <<c>>
         \/ known' = m /\ calls' = calls
  BY <1>2 DEF HandleRobotRegistration, robotVars, goalVars
<1>4. /\ Resting(m, Fresh, io) /\ Resting(m, Fresh, Tail(io)) /\ m \in Remotes
      /\ DOMAIN Swaps = Fresh /\ Orderly(m, Swaps, io, <<>>)
      /\ Active(Swaps, <<>>) = Fresh
  BY <1>1, TidyFlags, TidyFacts, RemovedEntries
<1>5. 1 \in DOMAIN io /\ io[1] = Head(io) /\ io \in Seq(Handler)
  BY <1>1 DEF ControllerInv, WorkTypes
<1>6. p = place[r] /\ Registering(io, r)
  BY <1>1, <1>2, <1>4, <1>5 DEF Orderly, Registrations, Registering
<1>7. m[p] = None /\ ~ Busy(Fresh, p) /\ Idle(r)
  BY <1>4, <1>6 DEF Orderly, Newcomers
<1>8. /\ e # None /\ e.robot = r /\ e.cached = p /\ e.profile = profile[r]
  <2>1. e \in RemoteType
    <3>1. place[r] \in Position /\ profile[r] \in Profile
      BY DEF ControllerInv, RobotTypes
    <3> QED BY <3>1 DEF Remote, RemoteType
  <2> QED BY <2>1, <1>6, NoneIsNoRemote DEF Remote
<1>9. c.op = "resolve"
  OBVIOUS
<1>10. Fresh \subseteq SwapKey
  BY DEF Fresh, ControllerInv, MapTypes
<1> HIDE DEF m, e, c
<1>11. ~ SecondCall(calls')
  BY <1>1, <1>3, <1>9 DEF SecondCall
<1>12. CASE known' = m
  <2>1. Resting(known', DOMAIN pending_swaps', io')
    BY <1>1, <1>3, <1>4, <1>12
  <2> QED BY <1>3, <1>11, <2>1, RestingFlags
<1>13. CASE known' = [m EXCEPT ![p] = e]
  <2>1. PICK n, t : n = known' /\ t = Tail(io)
    OBVIOUS
  <2>2. n[p] = e /\ \A o \in Position \ {p} : n[o] = m[o]
    BY <2>1, <1>4, <1>13 DEF Remotes
  <2>3. \A i \in DOMAIN t : i + 1 \in DOMAIN io /\ t[i] = io[i + 1]
    BY <2>1, <1>1, <1>5
  <2>4. \A i \in DOMAIN t : Reported(t, i) => t[i].at \in Position \ {p}
    <3>1. ASSUME NEW i \in DOMAIN t, Reported(t, i)
          PROVE  t[i].at \in Position \ {p}
      <4>1. i + 1 \in DOMAIN io /\ Reported(io, i + 1) /\ io[i + 1].at = t[i].at
        BY <3>1, <2>3 DEF Reported
      <4>2. ~ Dead(m, Fresh, io, p)
        BY <1>6 DEF Dead
      <4>3. t[i].at # p
        BY <4>1, <4>2, <1>4, <1>7 DEF Resting, Reports
      <4>4. t[i].at \in Position
        BY <4>1, <1>5, HandlerFields DEF Reported
      <4> QED BY <4>3, <4>4
    <3> QED BY <3>1
  <2>5. Reports(n, Fresh, t)
    <3>1. \A i \in DOMAIN t : Reported(t, i) => n[t[i].at] = m[t[i].at]
      BY <2>2, <2>4
    <3>2. Reports(m, Fresh, t)
      BY <2>1, <1>4 DEF Resting
    <3> QED BY <3>1, <3>2 DEF Reports, Dead, Remade
  <2>6. \A k \in Fresh : \A o \in Positions(k) : n[o] # None => n[o].adapting
    <3>1. ASSUME NEW k \in Fresh, NEW o \in Positions(k), n[o] # None
          PROVE  n[o].adapting
      <4>1. o \in Position /\ o # p
        BY <3>1, <1>7, <1>10, KeyPositions DEF Busy
      <4> QED BY <3>1, <4>1, <2>2, <1>4 DEF Resting
    <3> QED BY <3>1
  <2>7. Remaking(n, Fresh)
    BY <1>4, <1>7, <1>8, <2>2 DEF Resting, Remaking, Remade, Idle
  <2>8. Stays(n, Fresh) /\ Arrived(n)
    BY <1>4, <1>6, <1>7, <1>8, <2>2 DEF Resting, Stays, Arrived, Idle
  <2>9. Resting(n, Fresh, t)
    BY <2>5, <2>6, <2>7, <2>8 DEF Resting
  <2>10. Resting(known', DOMAIN pending_swaps', io')
    BY <2>1, <2>9, <1>1, <1>3, <1>4
  <2> QED BY <1>3, <1>11, <2>10, RestingFlags
<1> QED BY <1>3, <1>12, <1>13

(* When a swap is complete its robots have arrived and stay, and neither was*)
(* reconfigured meanwhile.                                                  *)
LEMMA ExchangedRests ==
    ASSUME NEW m \in Remotes, NEW n, NEW act, NEW q \in Seq(Handler), act \subseteq SwapKey,
           Apart(act), Resting(m, act, q),
           NEW a \in Position, NEW b \in Position, a # b,
           NEW k \in act, Positions(k) = {a, b}, Exchanged(m, n, a, b),
           \A p, o \in {a, b} : p # o /\ m[p] # None => m[p].cached = o
    PROVE  Resting(n, act \ {k}, q)
<1>1. PICK rest : rest = act \ {k}
  OBVIOUS
<1>2. /\ \A l \in rest : \A p \in Positions(l) : p \in Position \ {a, b}
      /\ \A p : Busy(rest, p) => Busy(act, p)
      /\ \A p : p \notin {a, b} /\ Busy(act, p) => Busy(rest, p)
      /\ Busy(act, a) /\ Busy(act, b)
  <2>1. \A l \in rest : \A p \in Positions(l) : p \in Position \ {a, b}
    BY <1>1, KeyPositions DEF Apart
  <2> QED BY <1>1, <2>1 DEF Busy
<1>3. /\ \A p \in Position \ {a, b} : n[p] = m[p]
      /\ SameEntry(m[b], n[a]) /\ SameEntry(m[a], n[b])
  BY DEF Exchanged
<1>4. /\ Remaking(m, act) /\ Reports(m, act, q) /\ Stays(m, act) /\ Arrived(m)
  BY DEF Resting
<1>5. \A l \in rest : \A p \in Positions(l) : n[p] # None => n[p].adapting
  BY <1>1, <1>2, <1>3 DEF Resting
<1>6. Remaking(n, rest)
  <2>1. ASSUME NEW p \in Position, n[p] # None, Remade(n, p)
        PROVE  /\ n[p].adapting /\ ~ Busy(rest, p)
               /\ new_profile[n[p].robot] # None =>
                     n[p].profile = profile[n[p].robot]
    <3>1. CASE p \notin {a, b}
      BY <2>1, <3>1, <1>2, <1>3, <1>4 DEF Remaking, Remade
    <3>2. CASE p \in {a, b}
      <4>1. PICK o \in {a, b} : o # p /\ SameEntry(m[o], n[p])
        BY <3>2, <1>3
      <4>2. m[o] # None /\ Remade(m, o)
        BY <4>1, <2>1 DEF SameEntry, Remade
      <4> QED BY <4>1, <4>2, <1>2, <1>4 DEF Remaking
    <3> QED BY <3>1, <3>2
  <2> QED BY <2>1 DEF Remaking
<1>7. Reports(n, rest, q)
  <2>1. ASSUME NEW i \in DOMAIN q, Reported(q, i)
        PROVE  q[i].at \in Position \ {a, b}
    <3>1. q[i].at \in Position
      BY <2>1, HandlerFields DEF Reported
    <3>2. ~ Busy(act, q[i].at)
      BY <2>1, <1>4 DEF Reports, Dead
    <3> QED BY <3>1, <3>2, <1>2
  <2>2. ASSUME NEW i \in DOMAIN q, Reported(q, i)
        PROVE  \/ Dead(n, rest, q, q[i].at)
               \/ /\ n[q[i].at] # None /\ n[q[i].at].adapting
                  /\ ~ Remade(n, q[i].at) /\ ~ Busy(rest, q[i].at)
    <3>1. n[q[i].at] = m[q[i].at]
      BY <2>1, <2>2, <1>3
    <3> QED BY <2>2, <3>1, <1>2, <1>4 DEF Reports, Dead, Remade
  <2>3. ASSUME NEW i \in DOMAIN q, NEW j \in DOMAIN q, Reported(q, i), Reported(q, j),
               q[i].at = q[j].at, n[q[i].at] # None
        PROVE  i = j
    <3>1. n[q[i].at] = m[q[i].at]
      BY <2>1, <2>3, <1>3
    <3> QED BY <2>3, <3>1, <1>4 DEF Reports
  <2> QED BY <2>2, <2>3 DEF Reports
<1>8. Stays(n, rest)
  <2>1. ASSUME NEW p \in Position, n[p] # None, ~ Busy(rest, p)
        PROVE  place[n[p].robot] = p /\ target[n[p].robot] = None
    <3>1. CASE p \notin {a, b}
      BY <2>1, <3>1, <1>2, <1>3, <1>4 DEF Stays
    <3>2. CASE p \in {a, b}
      <4>1. PICK o \in {a, b} : o # p /\ SameEntry(m[o], n[p])
        BY <3>2, <1>3
      <4>2. m[o] # None /\ n[p].robot = m[o].robot
        BY <4>1, <2>1 DEF SameEntry
      <4>3. m[o].cached = p
        BY <4>1, <4>2, <3>2
      <4> QED BY <4>1, <4>2, <4>3, <1>4 DEF Arrived
    <3> QED BY <3>1, <3>2
  <2> QED BY <2>1 DEF Stays
<1>9. Arrived(n)
  <2>1. ASSUME NEW p \in Position, n[p] # None, n[p].cached # p
        PROVE  place[n[p].robot] = n[p].cached /\ target[n[p].robot] = None
    <3>1. CASE p \notin {a, b}
      BY <2>1, <3>1, <1>3, <1>4 DEF Arrived
    <3>2. CASE p \in {a, b}
      <4>1. PICK o \in {a, b} : o # p /\ SameEntry(m[o], n[p])
        BY <3>2, <1>3
      <4> QED BY <4>1, <2>1, <3>2 DEF SameEntry
    <3> QED BY <3>1, <3>2
  <2> QED BY <2>1 DEF Arrived
<1> QED BY <1>1, <1>5, <1>6, <1>7, <1>8, <1>9 DEF Resting

LEMMA PositionSwappedFlags ==
    ASSUME ControllerInv, Ordered, Flags(known, pending_swaps, io, calls),
           HandlePositionSwapped
    PROVE  Flags(known, pending_swaps, io, calls)'
<1> DEFINE m == remove_stopped_robots
<1>1. /\ io # <<>> /\ calls = <<>> /\ io' = Tail(io) /\ Head(io).op = "swapped"
      /\ Head(io).old \in Position /\ Head(io).new \in Position
  BY TakeType, HandlerFields DEF HandlePositionSwapped, Take, ControllerInv
<1>2. PICK a \in Position, b \in Position : a = Head(io).old /\ b = Head(io).new
  BY <1>1
<1>3. PICK k : k = Key(a, b)
  OBVIOUS
<1>4. /\ UNCHANGED <<place, profile, new_profile, target, client>>
      /\ \/ known' = m /\ pending_swaps' = Swaps /\ calls' = calls
         \/ /\ k \in Fresh /\ Swaps[k] \cup {a} = Positions(k)
            /\ known' = Rekeyed(m, k)
            /\ pending_swaps' = Restricted(AckedByRemoval, Fresh \ {k})
            /\ calls' = CommitBoth(m, k)
         \/ /\ known' = m /\ calls' = calls
            /\ pending_swaps' = [Swaps EXCEPT ![k] = Swaps[k] \cup {a}]
  BY <1>2, <1>3 DEF HandlePositionSwapped, Complete, robotVars, goalVars
<1>5. /\ Orderly(m, Swaps, io, <<>>) /\ Typed(m, Swaps, io, <<>>)
      /\ DOMAIN Swaps = Fresh /\ m \in Remotes /\ Active(Swaps, <<>>) = Fresh
      /\ \A p \in Position : m[p] # None => m[p].link # "stopped"
  BY <1>1, TidyFacts, RemovedEntries
<1>6. Resting(m, Fresh, Tail(io))
  BY <1>1, TidyFlags
<1> HIDE DEF m
<1>7. CASE known' = m /\ calls' = calls /\ DOMAIN pending_swaps' = Fresh
  <2>1. ~ SecondCall(calls')
    BY <1>1, <1>7 DEF SecondCall
  <2>2. Resting(known', DOMAIN pending_swaps', io')
    BY <1>1, <1>6, <1>7
  <2> QED BY <2>1, <2>2, <1>4, RestingFlags
<1>8. CASE /\ k \in Fresh /\ Swaps[k] \cup {a} = Positions(k)
           /\ known' = Rekeyed(m, k)
           /\ pending_swaps' = Restricted(AckedByRemoval, Fresh \ {k})
           /\ calls' = CommitBoth(m, k)
  <2>1. /\ 1 \in DOMAIN io /\ io[1] = Head(io) /\ Swapped(io, 1)
        /\ io[1].old = a /\ io[1].new = b
    BY <1>1, <1>2 DEF ControllerInv, WorkTypes, Swapped
  <2>2. a # b
    BY <2>1, <1>5 DEF Orderly, Notifications
  <2>3. \A p, o \in {a, b} : p # o /\ m[p] # None => m[p].cached = o
    <3>1. k \in DOMAIN Swaps /\ SwapComplete(m, Swaps, k, a)
      BY <1>5, <1>8 DEF SwapComplete
    <3> QED BY <1>1, <1>3, <1>5, <2>1, <2>2, <3>1, SwapArrived
  <2>4. k \in SwapKey /\ Positions(k) = {a, b}
    BY <1>3, <2>2, KeyFacts
  <2>5. Exchanged(m, known', a, b)
    BY <1>3, <1>5, <1>8, <2>2, <2>3, RekeyedExchanges
  <2>6. ~ SecondCall(calls')
    <3>1. CommitsOf(m, k, calls')
      BY <1>5, <1>8, <2>4, CommitBothFacts DEF Orderly
    <3> QED BY <3>1 DEF SecondCall, CommitsOf
  <2>7. DOMAIN pending_swaps' = Fresh \ {k}
    BY <1>8 DEF Restricted
  <2>8. Apart(Fresh) /\ Fresh \subseteq SwapKey /\ Tail(io) \in Seq(Handler)
    BY <1>1, <1>5 DEF Orderly, Typed
  <2>9. Resting(known', Fresh \ {k}, Tail(io))
    BY <1>5, <1>6, <1>8, <2>2, <2>3, <2>4, <2>5, <2>8, ExchangedRests
  <2>10. Resting(known', DOMAIN pending_swaps', io')
    BY <2>7, <2>9, <1>1
  <2> QED BY <2>6, <2>10, <1>4, RestingFlags
<1>9. \/ known' = m /\ calls' = calls /\ DOMAIN pending_swaps' = Fresh
      \/ /\ k \in Fresh /\ Swaps[k] \cup {a} = Positions(k)
         /\ known' = Rekeyed(m, k)
         /\ pending_swaps' = Restricted(AckedByRemoval, Fresh \ {k})
         /\ calls' = CommitBoth(m, k)
  BY <1>4, <1>5
<1> QED BY <1>7, <1>8, <1>9


------------------------------------------------------------------------------
LEMMA InitFlags == Init => Flags(known, pending_swaps, io, calls)
<1> SUFFICES ASSUME Init PROVE Flags(known, pending_swaps, io, calls)
  OBVIOUS
<1>1. \A p \in Position : known[p] = None
  BY DEF Init, NoRobots
<1>2. calls = <<>> /\ io = <<>> /\ DOMAIN io = {} /\ DOMAIN pending_swaps = {}
  BY DEF Init, NoSwaps
<1>3. Active(pending_swaps, calls) = {}
  BY <1>2 DEF Active, SecondCall
<1> QED BY <1>1, <1>2, <1>3
           DEF Flags, Marked, SecondCall, Remaking, Reports, Stays, Arrived

LEMMA FlagStep ==
    ControllerInv /\ SwapInv /\ FlagInv /\ [Next]_vars => FlagInv'
<1> SUFFICES ASSUME ControllerInv, SwapInv, FlagInv, [Next]_vars, Uncut'
             PROVE  Flags(known, pending_swaps, io, calls)'
  BY DEF FlagInv
<1>1. ControllerInv' /\ Uncut
  BY NextKeeps, FaultsGrow DEF Uncut
<1>2. Ordered /\ Flags(known, pending_swaps, io, calls)
  BY <1>1 DEF SwapInv, FlagInv, Uncut, Calm
<1>3. CASE WorkerStep
  <2>1. CASE HandleRobotRegistration \/ HandleNextRobotRequest
               \/ HandlePositionSwapped \/ HandleCapabilitiesReconfigured
    BY <2>1, <1>1, <1>2, RegistrationFlags, NextRobotFlags, PositionSwappedFlags,
       CapabilitiesReconfiguredFlags
  <2>2. CASE Resolve \/ Commit \/ Answer \/ AnswerFails \/ SwitchSkipped
               \/ ReconfigureSkipped
    BY <2>2, <1>1, <1>2, CommittingFlags, AnsweringFlags, SkippingFlags
  <2>3. CASE SwitchFirst \/ SwitchSecond \/ SwitchSecondFails \/ ReconfigureCall
    BY <2>3, <1>1, <1>2, SwitchFirstFlags, SwitchSecondFlags, ReconfigureCallFlags
  <2>4. ~ SwitchFirstFails
    BY DEF SwitchFirstFails, Fault, Uncut
  <2> QED BY <1>3, <2>1, <2>2, <2>3, <2>4 DEF WorkerStep
<1>4. CASE RemoteStep
  BY <1>4, <1>1, <1>2, PositionChangedFlags, CapabilitiesChangedFlags, StoppingFlags
     DEF RemoteStep
<1>5. ASSUME NEW r \in Robot, RobotStep(r)
      PROVE  Flags(known, pending_swaps, io, calls)'
  BY <1>5, <1>1, <1>2, MoveFlags, CompletionFlags, StoppingFlags, RegisterFlags
     DEF RobotStep
<1>6. CASE Disturbance
  <2>1. /\ ~ ControllerCrashes /\ \A r \in Robot : ~ LinkBreaks(r)
        /\ \A p \in Position : ~ RemoteFails(p)
    BY DEF ControllerCrashes, LinkBreaks, RemoteFails, Fault, Uncut
  <2> QED BY <1>6, <2>1, <1>1, <1>2, ReceiverFlags, StoppingFlags DEF Disturbance
<1>7. CASE UNCHANGED vars
  <2>1. UNCHANGED <<known, pending_swaps, calls, io, client, place, profile,
                    new_profile, target>>
    BY <1>7 DEF vars, mapVars, workVars, robotVars, goalVars
  <2>2. KeepsFlags(known, known')
    BY <2>1, SameKeepsFlags
  <2>3. OldReports(io, io') /\ \A r \in Robot : Registering(io, r)' => Registering(io, r)
    BY <2>1 DEF OldReports, Registering
  <2> QED BY <2>1, <2>2, <2>3, <1>1, <1>2, QuietFlags
<1> QED BY <1>3, <1>4, <1>5, <1>6, <1>7 DEF Next

(* As long as only robots and receivers fail, a flag is up from the call    *)
(* that has a robot adapt until the last notification about it is handled,  *)
(* and who has no flag stands where its entry is and stays.                 *)
THEOREM FlagInvariance == Spec => []FlagInv
<1>1. Init => FlagInv
  BY InitFlags DEF FlagInv
<1> QED BY <1>1, Invariance, SwapInvariance, FlagStep, PTL DEF Spec

(* Only the answer itself counts as one, and it names a robot without a     *)
(* flag.                                                                    *)
LEMMA AnswerNames ==
    ASSUME ControllerInv, SwapInv, FlagInv, Uncut, [Next]_vars,
           answered' # answered, answer'.robot # None
    PROVE  place[answer'.robot] = answer'.position /\ target[answer'.robot] = None
<1>1. Ordered /\ Flags(known, pending_swaps, io, calls)
  BY SMTT(60) DEF SwapInv, FlagInv, Uncut, Calm
<1>2. Answer
  <2>1. CASE WorkerStep
    BY <2>1 DEF WorkerStep, HandleRobotRegistration, Resolve, HandleNextRobotRequest,
       AnswerFails, SwitchSkipped, SwitchFirst, SwitchFirstFails, SwitchSecond,
       SwitchSecondFails, ReconfigureSkipped, ReconfigureCall, HandlePositionSwapped,
       Commit, HandleCapabilitiesReconfigured, boundVars
  <2>2. ~ RemoteStep
    BY DEF RemoteStep, PositionChanged, CapabilitiesChanged, RemoteStops, boundVars
  <2>3. \A r \in Robot : ~ RobotStep(r)
    BY DEF RobotStep, Move, CompleteReconfiguration, HandleNewPositionCommit,
       Register, DropController, boundVars
  <2>4. ~ Disturbance
    BY DEF Disturbance, Ask, ReceiverBreaks, RobotCrashes, LinkBreaks, RemoteFails,
       ControllerCrashes
  <2>5. ~ UNCHANGED vars
    BY DEF vars, boundVars
  <2> QED BY <2>1, <2>2, <2>3, <2>4, <2>5, SMTT(60) DEF Next
<1>3. PICK p : p = Head(calls).at
  OBVIOUS
<1>4. /\ calls # <<>> /\ Head(calls).op = "answer"
      /\ answer' = IF Chosen(p)
                   THEN [position |-> known[p].cached, robot |-> known[p].robot]
                   ELSE NoRobot
  BY <1>2, <1>3 DEF Answer, Calling
<1>5. Chosen(p)
  BY <1>4 DEF NoRobot
<1>6. p \in Position /\ known[p] # None /\ ~ known[p].adapting
  <2>1. Head(calls) \in SwapCall
    BY <1>4 DEF ControllerInv, WorkTypes
  <2>2. Head(calls).at \in Position \cup {0}
    BY <2>1, <1>4, CallFields
  <2> QED BY <2>2, <1>3, <1>5 DEF Chosen
<1>7. PICK act : act = Active(pending_swaps, calls) /\ act = DOMAIN pending_swaps
  BY <1>4 DEF Active, SecondCall
<1>8. ~ Busy(act, p)
  BY <1>1, <1>6, <1>7 DEF Flags, Marked, Busy
<1>9. known[p].cached = p
  BY <1>1, <1>6, <1>7, <1>8 DEF Ordered, Orderly, Home, AtHome
<1>10. place[known[p].robot] = p /\ target[known[p].robot] = None
  BY <1>1, <1>6, <1>7, <1>8 DEF Flags, Stays
<1> QED BY <1>4, <1>5, <1>9, <1>10

(* An answer names a robot that stands where the answer says and stays, as  *)
(* long as only robots and receivers fail: on_next_robot answers after the  *)
(* adaptations of the same request, and passes over who is flagged.         *)
THEOREM AnswersNameWhoStays == Spec /\ []Uncut => AnswersHold
<1>1. ControllerInv /\ SwapInv /\ FlagInv /\ Uncut /\ [Next]_vars
        => [answered' # answered /\ answer'.robot # None
              /\ "answer" \notin faults /\ ~ Mistaken
            => /\ place[answer'.robot] = answer'.position
               /\ target[answer'.robot] = None]_vars
  BY AnswerNames
<1> QED BY <1>1, Invariance, SwapInvariance, FlagInvariance, PTL DEF Spec, AnswersHold

==============================================================================
