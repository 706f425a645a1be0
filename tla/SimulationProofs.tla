--------------------------- MODULE SimulationProofs ---------------------------
(* What holds of every simulated site.  Of VerticalTransport, for any number   *)
(* of workers, levels, stairs and elevators: its type, that a worker who goes  *)
(* by elevator is in one place and has a seat, and that a cab that is wanted   *)
(* is on its way.  Of SiteDay, for any staff, machines, days and engines: its  *)
(* type, that a day's accumulators, trips and reports add up, that a report    *)
(* gets to the record once, and that no elevator gets more places twice.       *)
EXTENDS VerticalTransport, SiteDay, FiniteSetTheorems, SequenceTheorems,
        WellFoundedInduction, TLAPS

Traveller == [at: Level, state: State, goal: Level, conn: Connection \cup {None},
              timer: 0..Climb * Top]

\* A cab is at its lowest stop or at another one.
CabOf(c) == [at: Serves[c] \cup {Min(Serves[c])}, dir: {-1, 0, 1}, doors: 0..Dwell,
             riders: SUBSET Worker, queue: [Serves[c] -> Seq(Worker)]]

ClockOf == [turn: 0..Turns, dt: Dt \cup {0}, left: Nat, doors: BOOLEAN]

ShapeOK == /\ worker \in [Worker -> Traveller]
           /\ DOMAIN cab = Lift /\ \A c \in Lift : cab[c] \in CabOf(c)
           /\ clock \in ClockOf

\* A worker on its way is at a stop of the connection it takes.
RoutesOK == \A w \in Worker :
    IF worker[w].state = "free" THEN worker[w].conn = None
    ELSE worker[w].conn \in Connection /\ worker[w].at \in Serves[worker[w].conn]

\* Whoever is in a queue waits there for its cab, and is in it once.
InLine(w, c, l) == /\ worker[w].state = "traversing" /\ worker[w].conn = c
                   /\ worker[w].at = l /\ w \notin cab[c].riders
QueuesOK == \A c \in Lift : \A l \in Serves[c] :
    \A i \in 1..Len(cab[c].queue[l]) :
       /\ InLine(cab[c].queue[l][i], c, l)
       /\ \A j \in 1..Len(cab[c].queue[l]) :
            cab[c].queue[l][j] = cab[c].queue[l][i] => j = i

\* Whoever is in a cab goes by it, and has a seat.
RidersOK == \A c \in Lift :
    /\ Cardinality(cab[c].riders) <= Seats[c]
    /\ \A w \in cab[c].riders : worker[w].state = "traversing" /\ worker[w].conn = c

\* Whoever goes by elevator is in its cab or in its queue.
Waits(w, c, l) == \E i \in 1..Len(cab[c].queue[l]) : cab[c].queue[l][i] = w
TravellersOK == \A w \in Worker :
    worker[w].state = "traversing" /\ worker[w].conn \in Lift =>
       \/ w \in cab[worker[w].conn].riders
       \/ Waits(w, worker[w].conn, worker[w].at)

\* A cab at rest is empty and its doors are shut; a cab that has its turn begins
\* it with time left, and has time left as long as it rests.
CabsOK == \A c \in Lift :
    /\ cab[c].dir = 0 => cab[c].riders = {} /\ cab[c].doors = 0
    /\ CabTurn(c) /\ (clock.doors \/ cab[c].dir = 0) => clock.left > 0

\* The cabs that have had their turn, all of them between ticks, are on their
\* way if they are wanted.
Served(i) == clock.turn = 0 \/ i < clock.turn - Len(Crew)
TurnsOK == /\ clock.turn # 0 => clock.dt \in Dt
           /\ \A i \in 1..Len(Shafts) :
                Served(i) /\ Demand(Shafts[i]) => cab[Shafts[i]].dir # 0

RideIInv == ShapeOK /\ RoutesOK /\ QueuesOK /\ RidersOK /\ TravellersOK
IInv == RideIInv /\ CabsOK /\ TurnsOK

USE TransportAssumption

-----------------------------------------------------------------------------
(* Least and greatest levels; what a prefix of a queue holds *)

Less == {p \in Nat \X Nat : p[1] < p[2]}

LEMMA LessWellFounded == IsWellFoundedOn(Less, Nat)
BY NatLessThanWellFounded DEF Less, OpToRel

LEMMA LeastNatural ==
  ASSUME NEW S \in SUBSET Nat, S # {}
  PROVE  \E x \in S : \A y \in S : x <= y
<1>1. \E x \in S : \A y \in S : ~(<<y, x>> \in Less)
  BY WFMin, LessWellFounded
<1>2. \A a, b \in Nat : a < b => <<a, b>> \in Less
  BY DEF Less
<1>3. \A a, b \in Nat : ~(a < b) => b <= a
  OBVIOUS
<1> QED
  BY <1>1, <1>2, <1>3

LEMMA MinLevel ==
  ASSUME NEW S \in SUBSET Level, S # {}
  PROVE  Min(S) \in S
<1>1. S \in SUBSET Nat
  BY DEF Level
<1> QED
  BY <1>1, LeastNatural DEF Min

LEMMA MaxLevel ==
  ASSUME NEW S \in SUBSET Level, S # {}
  PROVE  Max(S) \in S
<1> DEFINE below == {Top - x : x \in S}
<1>1. \A x \in S : x \in Nat /\ x <= Top /\ Top - x \in Nat
  BY DEF Level
<1>2. below \in SUBSET Nat /\ below # {}
  BY <1>1
<1>3. PICK b \in below : \A y \in below : b <= y
  BY <1>2, LeastNatural
<1>4. PICK x \in S : b = Top - x
  BY <1>3
<1>5. ASSUME NEW y \in S PROVE x >= y
  <2>1. b <= Top - y /\ x \in Nat /\ y \in Nat
    BY <1>1, <1>3, <1>5, <1>4
  <2> QED
    BY ONLY <2>1, <1>4, Top \in Nat
<1> QED
  BY <1>5, <1>4 DEF Max

LEMMA MinOfTwo ==
  ASSUME NEW a \in Int, NEW b \in Int
  PROVE  Min({a, b}) = IF a <= b THEN a ELSE b
BY DEF Min

LEMMA MaxOfTwo ==
  ASSUME NEW a \in Int, NEW b \in Int
  PROVE  Max({a, b}) = IF a >= b THEN a ELSE b
BY DEF Max

LEMMA CountTo == \A n \in Nat : IsFiniteSet(1..n) /\ Cardinality(1..n) = n
BY FS_Interval

LEMMA FiniteRange ==
  ASSUME NEW S, NEW q \in Seq(S)
  PROVE  /\ IsFiniteSet(Range(q)) /\ Cardinality(Range(q)) <= Len(q)
         /\ Range(q) = {q[i] : i \in 1..Len(q)}
<1>1. DOMAIN q = 1..Len(q) /\ Len(q) \in Nat
  OBVIOUS
<1>2. Range(q) = {q[i] : i \in 1..Len(q)}
  BY <1>1 DEF Range
<1>3. q \in Surjection(1..Len(q), Range(q))
  BY <1>1, <1>2 DEF Surjection
<1>4. IsFiniteSet(1..Len(q)) /\ Cardinality(1..Len(q)) = Len(q)
  BY <1>1, CountTo
<1> QED
  BY <1>2, <1>3, <1>4, FS_Surjection

LEMMA FiniteCrew == IsFiniteSet(Worker)
BY FiniteRange DEF Worker

LEMMA FiniteLevels == IsFiniteSet(Level) /\ Cardinality(Level) = Top
BY CountTo DEF Level

LEMMA LiftConnects == Lift \subseteq Connection /\ \A c \in Lift : Serves[c] \subseteq Level
BY DEF Connection

\* A queue in which everybody is once is no longer than the crew.
LEMMA QueueWithinCrew ==
  ASSUME NEW q \in Seq(Worker), \A i, j \in 1..Len(q) : q[i] = q[j] => i = j
  PROVE  Len(q) <= Cardinality(Worker)
<1>1. DOMAIN q = 1..Len(q) /\ Len(q) \in Nat /\ q \in [1..Len(q) -> Worker]
  OBVIOUS
<1>2. q \in Injection(1..Len(q), Worker)
  BY <1>1 DEF Injection, IsInjective
<1>3. Cardinality(1..Len(q)) = Len(q)
  BY <1>1, CountTo
<1> QED
  BY <1>2, <1>3, FiniteCrew, FS_Injection

-----------------------------------------------------------------------------
(* Routes *)

LEMMA RoutedShape ==
  ASSUME NEW w \in Traveller, NEW to \in Level, NEW x \in Routed(w, to)
  PROVE  /\ x \in Traveller /\ x.state = "walking" /\ x.at = w.at
         /\ x.conn \in Connection /\ x.at \in Serves[x.conn]
<1>0. w.at \in Level
  BY DEF Traveller
<1>1. FirstHops[w.at][to] \subseteq {c \in Connection : w.at \in Serves[c]}
  BY <1>0 DEF FirstHops
<1>2. PICK c \in Connection : /\ w.at \in Serves[c]
                              /\ x = [w EXCEPT !.state = "walking", !.goal = to, !.conn = c]
  BY <1>1 DEF Routed
<1> QED
  BY <1>2 DEF Traveller, State

LEMMA ClearedShape ==
  ASSUME NEW w \in Traveller
  PROVE  /\ Cleared(w) \in Traveller /\ Cleared(w).state = "free"
         /\ Cleared(w).conn = None
<1>1. 0 \in 0..Climb * Top
  OBVIOUS
<1> QED
  BY <1>1 DEF Traveller, State, Cleared

\* Where a connection left it, a worker is free or walks to a stop of the next.
LEMMA LandedShape ==
  ASSUME NEW w \in Traveller, NEW l \in Level
  PROVE  LET x == Landed(w, l) IN
         /\ x \in Traveller
         /\ \/ x.state = "free" /\ x.conn = None
            \/ x.state = "walking" /\ x.conn \in Connection /\ x.at \in Serves[x.conn]
<1> DEFINE there == [w EXCEPT !.at = l]
<1>1. there \in Traveller /\ w.goal \in Level
  BY DEF Traveller
<1>2. CASE l # w.goal /\ Routed(there, w.goal) # {}
  <2>1. Landed(w, l) \in Routed(there, w.goal)
    BY <1>2 DEF Landed
  <2> QED
    BY <2>1, <1>1, RoutedShape
<1>3. CASE ~(l # w.goal /\ Routed(there, w.goal) # {})
  <2>1. Landed(w, l) = Cleared(there)
    BY <1>3, Zenon DEF Landed
  <2> QED
    BY <2>1, <1>1, ClearedShape
<1> QED
  BY <1>2, <1>3

\* A climb takes no longer than one past all levels.
LEMMA ApartBound ==
  ASSUME NEW c \in Connection, NEW k \in Level, NEW l
  PROVE  Climb * Apart(c, k, l) \in 0..Climb * Top
<1> DEFINE between == {s \in Serves[c] : Min({k, l}) < s /\ s <= Max({k, l})}
<1>1. Top >= 1
  BY DEF Level
<1>2. Cardinality(between) \in Nat /\ Cardinality(between) <= Top
  <2>1. between \in SUBSET Level
    OBVIOUS
  <2> HIDE DEF between
  <2> QED
    BY <2>1, FiniteLevels, FS_Subset, FS_CardinalityType
<1>3. Apart(c, k, l) \in 1..Top
  <2>1. Apart(c, k, l) = IF l \in Serves[c] THEN Max({1, Cardinality(between)}) ELSE 1
    BY DEF Apart
  <2> HIDE DEF between
  <2> QED
    <3>1. 1 \in Int /\ Cardinality(between) \in Int
      BY <1>2
    <3>2. Max({1, Cardinality(between)}) \in {1, Cardinality(between)}
          /\ Max({1, Cardinality(between)}) >= 1
      BY <3>1, MaxOfTwo
    <3> QED
      BY <2>1, <3>2, <1>1, <1>2
<1>4. \A n \in 1..Top : Climb * n \in 0..Climb * Top
  OBVIOUS
<1> QED
  BY <1>3, <1>4

-----------------------------------------------------------------------------
(* A worker's turn *)

\* The worker is neither in a queue nor in a cab.
OnFoot(x) == x \in Traveller /\ ~(x.state = "traversing" /\ x.conn \in Lift)
             /\ IF x.state = "free" THEN x.conn = None
                ELSE x.conn \in Connection /\ x.at \in Serves[x.conn]

LEMMA TurnsNatural == Turns \in Nat /\ Len(Crew) \in Nat /\ Len(Shafts) \in Nat
BY DEF Turns

LEMMA ClockNatural ==
  ASSUME ShapeOK
  PROVE  clock.dt \in Nat /\ clock.left \in Nat
<1>1. clock.dt \in Dt \cup {0} /\ clock.left \in Nat
  BY DEF ShapeOK, ClockOf
<1>2. \A t \in Dt \cup {0} : t \in Nat
  OBVIOUS
<1> QED
  BY <1>1, <1>2

LEMMA NextTurnShape ==
  ASSUME ShapeOK, clock.turn \in 0..Turns, NextTurn
  PROVE  clock' \in ClockOf
<1>1. clock.turn + 1 \in 1..Turns + 1 /\ clock.dt \in Dt \cup {0} /\ Dt \subseteq Nat
  BY TurnsNatural DEF ShapeOK, ClockOf
<1>2. CASE clock.turn + 1 > Turns
  <2>1. clock' = Between
    BY <1>2 DEF NextTurn, On
  <2>2. Turns \in Nat
    BY TurnsNatural
  <2> QED
    BY <2>1, <2>2 DEF Between, ClockOf
<1>3. CASE ~(clock.turn + 1 > Turns)
  <2>1. clock' = [turn |-> clock.turn + 1, dt |-> clock.dt,
                  left |-> clock.dt, doors |-> clock.turn + 1 > Len(Crew)]
    BY <1>3 DEF NextTurn, On
  <2>2. Turns \in Nat
    BY TurnsNatural
  <2>3. (clock.turn + 1 > Len(Crew)) \in BOOLEAN
    OBVIOUS
  <2>4. \A b \in BOOLEAN : [turn |-> clock.turn + 1, dt |-> clock.dt,
                            left |-> clock.dt, doors |-> b] \in ClockOf
    BY <2>2, <1>1, <1>3, ClockNatural DEF ClockOf
  <2> QED
    BY <2>1, <2>3, <2>4, Zenon
<1> QED
  BY <1>2, <1>3

\* Without an elevator: the worker was on foot and is on foot.
WalksOn(w) == /\ UNCHANGED cab /\ OnFoot(worker[w]) /\ OnFoot(worker'[w])
              /\ DOMAIN worker' = Worker /\ \A v \in Worker \ {w} : worker'[v] = worker[v]
              /\ worker' = [v \in Worker |-> worker'[v]]

LEMMA SetOutWalks ==
  ASSUME ShapeOK, RoutesOK, NEW w \in Worker, SetOut(w)
  PROVE  WalksOn(w)
<1>1. PICK g \in Goal : \E x \in Routed(worker[w], g) : worker' = [worker EXCEPT ![w] = x]
  BY DEF SetOut
<1>2. PICK x \in Routed(worker[w], g) : worker' = [worker EXCEPT ![w] = x]
  BY <1>1
<1>3. worker[w] \in Traveller /\ g \in Level
  BY DEF ShapeOK
<1>4. OnFoot(x)
  BY <1>2, <1>3, RoutedShape DEF OnFoot
<1>5. OnFoot(worker[w])
  BY <1>3 DEF SetOut, OnFoot, RoutesOK
<1>6. worker'[w] = x /\ \A v \in Worker \ {w} : worker'[v] = worker[v]
  BY <1>2 DEF ShapeOK
<1>7. DOMAIN worker' = Worker /\ worker' = [v \in Worker |-> worker'[v]]
  BY <1>2 DEF ShapeOK
<1> QED
  BY <1>4, <1>5, <1>6, <1>7 DEF WalksOn, SetOut

LEMMA BeginClimbWalks ==
  ASSUME ShapeOK, RoutesOK, NEW w \in Worker, BeginClimb(w)
  PROVE  WalksOn(w)
<1> DEFINE x == worker[w]
<1> DEFINE y == [x EXCEPT !.state = "traversing", !.timer = Climb * Apart(x.conn, x.at, x.goal)]
<1>1. x \in Traveller /\ x.at \in Level /\ x.state = "walking" /\ x.conn \in Stair
  BY DEF ShapeOK, BeginClimb, Traveller
<1>2. x.conn \in Connection /\ x.conn \notin Lift /\ x.at \in Serves[x.conn]
  BY <1>1 DEF Connection, RoutesOK
<1>3. DOMAIN worker' = Worker /\ worker' = [v \in Worker |-> worker'[v]]
  BY DEF BeginClimb, ShapeOK
<1>4. worker'[w] = y /\ \A v \in Worker \ {w} : worker'[v] = worker[v]
  BY DEF BeginClimb, ShapeOK, Traveller
<1>5. Climb * Apart(x.conn, x.at, x.goal) \in 0..Climb * Top
  BY <1>1, <1>2, ApartBound
<1>6. PICK t \in 0..Climb * Top : y = [x EXCEPT !.state = "traversing", !.timer = t]
  BY <1>5
<1>7. /\ y \in Traveller /\ y.state = "traversing" /\ y.conn = x.conn /\ y.at = x.at
  BY <1>6, <1>1 DEF Traveller, State
<1>8. OnFoot(y) /\ OnFoot(x)
  <2> HIDE DEF x, y
  <2> QED
    BY <1>7, <1>1, <1>2 DEF OnFoot
<1> QED
  BY <1>3, <1>4, <1>8 DEF WalksOn, BeginClimb

LEMMA KeepClimbingWalks ==
  ASSUME ShapeOK, RoutesOK, NEW w \in Worker, KeepClimbing(w)
  PROVE  WalksOn(w)
<1> DEFINE x == worker[w]
           rest == x.timer - clock.dt
           y == CASE rest > 0 -> [x EXCEPT !.timer = rest]
                  [] rest <= 0 /\ x.goal \in Serves[x.conn] -> Landed(x, x.goal)
                  [] rest <= 0 /\ x.goal \notin Serves[x.conn] -> Cleared(x)
<1>1. x \in Traveller /\ x.goal \in Level /\ x.state = "traversing" /\ x.conn \in Stair
  BY DEF ShapeOK, KeepClimbing, Traveller
<1>2. x.conn \in Connection /\ x.conn \notin Lift /\ x.at \in Serves[x.conn]
  BY <1>1 DEF Connection, RoutesOK
<1>3. worker' = [worker EXCEPT ![w] = y] /\ UNCHANGED cab
  BY Zenon DEF KeepClimbing
<1>4. rest \in Int /\ rest <= x.timer /\ x.timer \in 0..Climb * Top
  <2>1. clock.dt \in Nat
    BY ClockNatural
  <2>2. x.timer \in 0..Climb * Top
    BY <1>1 DEF Traveller
  <2>3. Climb * Top \in Int
    OBVIOUS
  <2> QED
    BY <2>1, <2>2, <2>3
<1>5. OnFoot(x)
  BY <1>1, <1>2 DEF OnFoot
<1>6. ASSUME rest > 0 PROVE OnFoot(y)
  <2>1. y = [x EXCEPT !.timer = rest]
    <3>1. ~(rest <= 0)
      BY <1>6, <1>4
    <3> QED
      BY <1>6, <3>1, Zenon
  <2>2. rest \in 0..Climb * Top
    BY <1>4, <1>6
  <2> HIDE DEF x, rest, y
  <2> QED
    BY <2>1, <2>2, <1>5, <1>1, <1>2 DEF OnFoot, Traveller
<1>7. ASSUME rest <= 0 /\ x.goal \in Serves[x.conn] PROVE OnFoot(y)
  <2>1. y = Landed(x, x.goal)
    <3>1. ~(rest > 0)
      BY <1>7, <1>4
    <3> QED
      BY <1>7, <3>1, Zenon
  <2> HIDE DEF x, rest, y
  <2> QED
    BY <2>1, <1>1, LandedShape DEF OnFoot
<1>8. ASSUME rest <= 0 /\ x.goal \notin Serves[x.conn] PROVE OnFoot(y)
  <2>1. y = Cleared(x)
    <3>1. ~(rest > 0)
      BY <1>8, <1>4
    <3> QED
      BY <1>8, <3>1, Zenon
  <2> HIDE DEF x, rest, y
  <2> QED
    BY <2>1, <1>1, ClearedShape DEF OnFoot
<1>9. OnFoot(y)
  <2>1. rest > 0 \/ rest <= 0
    BY <1>4
  <2> QED
    BY <2>1, <1>6, <1>7, <1>8
<1>10. DOMAIN worker' = Worker /\ worker' = [v \in Worker |-> worker'[v]]
       /\ worker'[w] = y /\ \A v \in Worker \ {w} : worker'[v] = worker[v]
  <2> HIDE DEF x, y
  <2> QED
    BY <1>3 DEF ShapeOK
<1> QED
  BY <1>3, <1>5, <1>9, <1>10 DEF WalksOn

\* On foot, nobody disturbs the queues and the cabs.
LEMMA WalkKeepsPlaces ==
  ASSUME RideIInv, NEW w \in Worker, WalksOn(w)
  PROVE  /\ worker' \in [Worker -> Traveller]
         /\ (RoutesOK /\ QueuesOK /\ RidersOK /\ TravellersOK)'
<1> USE DEF WalksOn, RideIInv
<1>1. worker' \in [Worker -> Traveller]
  <2>1. \A v \in Worker : worker'[v] \in Traveller
    BY DEF OnFoot, ShapeOK
  <2> QED
    BY <2>1
<1>2. RoutesOK'
  BY DEF RoutesOK, OnFoot
<1>3. RidersOK'
  <2> SUFFICES ASSUME NEW c \in Lift, NEW v \in cab[c].riders
               PROVE  worker'[v].state = "traversing" /\ worker'[v].conn = c
    BY DEF RidersOK
  <2>1. worker[v].state = "traversing" /\ worker[v].conn = c /\ v \in Worker
    BY DEF RidersOK, ShapeOK, CabOf
  <2>2. v # w
    BY <2>1 DEF OnFoot
  <2> QED
    BY <2>1, <2>2
<1>4. QueuesOK'
  <2>1. ASSUME NEW c \in Lift, NEW l \in Serves[c], NEW i \in 1..Len(cab[c].queue[l])
        PROVE  InLine(cab[c].queue[l][i], c, l)'
    <3>1. InLine(cab[c].queue[l][i], c, l)
      BY DEF QueuesOK
    <3>2. cab[c].queue[l] \in Seq(Worker)
      BY DEF ShapeOK, CabOf
    <3>3. cab[c].queue[l][i] \in Worker
      BY <3>2
    <3>4. cab[c].queue[l][i] # w
      BY <3>1 DEF OnFoot, InLine
    <3> QED
      BY <3>1, <3>3, <3>4 DEF InLine
  <2> QED
    BY <2>1 DEF QueuesOK
<1>5. TravellersOK'
  <2> SUFFICES ASSUME NEW v \in Worker,
                      worker'[v].state = "traversing", worker'[v].conn \in Lift
               PROVE  \/ v \in cab[worker'[v].conn].riders
                      \/ \E i \in 1..Len(cab[worker'[v].conn].queue[worker'[v].at]) :
                           cab[worker'[v].conn].queue[worker'[v].at][i] = v
    BY DEF TravellersOK, Waits
  <2>1. worker'[v] = worker[v]
    BY DEF OnFoot
  <2> QED
    BY <2>1 DEF TravellersOK, Waits
<1> QED
  BY <1>1, <1>2, <1>3, <1>4, <1>5

\* Who joins a queue is its last.
LEMMA JoinShape ==
  ASSUME ShapeOK, RoutesOK, NEW w \in Worker, JoinQueue(w)
  PROVE  LET c == worker[w].conn  l == worker[w].at IN
         /\ c \in Lift /\ l \in Serves[c] /\ worker[w].state = "walking"
         /\ worker' \in [Worker -> Traveller]
         /\ worker'[w].state = "traversing" /\ worker'[w].conn = c /\ worker'[w].at = l
         /\ \A v \in Worker \ {w} : worker'[v] = worker[v]
         /\ DOMAIN cab' = Lift /\ cab'[c] \in CabOf(c)
         /\ \A d \in Lift \ {c} : cab'[d] = cab[d]
         /\ cab'[c].riders = cab[c].riders /\ cab'[c].dir = cab[c].dir
         /\ cab'[c].doors = cab[c].doors
         /\ \A k \in Serves[c] \ {l} : cab'[c].queue[k] = cab[c].queue[k]
         /\ cab'[c].queue[l] = Append(cab[c].queue[l], w)
<1> DEFINE c == worker[w].conn
           l == worker[w].at
           longer == [cab[c].queue EXCEPT ![l] = Append(@, w)]
           y == [cab[c] EXCEPT !.queue = longer]
<1>1. worker[w] \in Traveller /\ worker[w].state = "walking" /\ c \in Lift
  BY DEF JoinQueue, ShapeOK
<1>2. c \in Connection /\ l \in Serves[c]
  BY <1>1 DEF RoutesOK
<1>3. /\ worker'[w] = [worker[w] EXCEPT !.state = "traversing"]
      /\ \A v \in Worker \ {w} : worker'[v] = worker[v]
      /\ DOMAIN worker' = Worker /\ worker' = [v \in Worker |-> worker'[v]]
  BY DEF JoinQueue, ShapeOK
<1>4. /\ worker'[w] \in Traveller /\ worker'[w].state = "traversing"
      /\ worker'[w].conn = c /\ worker'[w].at = l
  BY <1>3, <1>1 DEF Traveller, State
<1>5. worker' \in [Worker -> Traveller]
  <2>1. \A v \in Worker : worker'[v] \in Traveller
    BY <1>3, <1>4 DEF ShapeOK
  <2> QED
    BY <2>1, <1>3
<1>6. cab[c] \in CabOf(c) /\ cab[c].queue \in [Serves[c] -> Seq(Worker)]
  BY <1>1 DEF ShapeOK, CabOf
<1>7. /\ longer \in [Serves[c] -> Seq(Worker)]
      /\ longer[l] = Append(cab[c].queue[l], w)
      /\ \A k \in Serves[c] \ {l} : longer[k] = cab[c].queue[k]
  <2> HIDE DEF c, l
  <2>1. Append(cab[c].queue[l], w) \in Seq(Worker)
    BY <1>6, <1>2
  <2> QED
    BY <1>6, <1>2, <2>1
<1>8. /\ y \in CabOf(c) /\ y.queue = longer /\ y.riders = cab[c].riders
      /\ y.dir = cab[c].dir /\ y.doors = cab[c].doors
  <2> HIDE DEF longer
  <2> QED
    BY <1>6, <1>7 DEF CabOf
<1>9. DOMAIN cab' = Lift /\ cab'[c] = y /\ \A d \in Lift \ {c} : cab'[d] = cab[d]
  BY <1>1 DEF JoinQueue, ShapeOK
<1> HIDE DEF longer, y
<1> QED
  BY <1>1, <1>2, <1>3, <1>4, <1>5, <1>7, <1>8, <1>9

LEMMA JoinKeepsPlaces ==
  ASSUME RideIInv, NEW w \in Worker, JoinQueue(w)
  PROVE  /\ worker' \in [Worker -> Traveller]
         /\ DOMAIN cab' = Lift /\ \A d \in Lift : cab'[d] \in CabOf(d)
         /\ (RoutesOK /\ QueuesOK /\ RidersOK /\ TravellersOK)'
<1> USE DEF RideIInv
<1> DEFINE c == worker[w].conn
           l == worker[w].at
           q == cab[c].queue[l]
<1>1. /\ c \in Lift /\ l \in Serves[c] /\ worker[w].state = "walking"
      /\ worker' \in [Worker -> Traveller]
      /\ worker'[w].state = "traversing" /\ worker'[w].conn = c /\ worker'[w].at = l
      /\ \A v \in Worker \ {w} : worker'[v] = worker[v]
      /\ DOMAIN cab' = Lift /\ cab'[c] \in CabOf(c)
      /\ \A d \in Lift \ {c} : cab'[d] = cab[d]
      /\ cab'[c].riders = cab[c].riders
      /\ \A k \in Serves[c] \ {l} : cab'[c].queue[k] = cab[c].queue[k]
      /\ cab'[c].queue[l] = Append(q, w)
  BY JoinShape
<1> HIDE DEF c, l
<1>2. q \in Seq(Worker) /\ Len(q) \in Nat
  <2>1. cab[c].queue \in [Serves[c] -> Seq(Worker)]
    BY <1>1 DEF ShapeOK, CabOf
  <2> QED
    BY <2>1, <1>1
<1> HIDE DEF q
<1>3. /\ Len(Append(q, w)) = Len(q) + 1 /\ Append(q, w)[Len(q) + 1] = w
      /\ \A i \in 1..Len(q) : Append(q, w)[i] = q[i] /\ q[i] \in Worker
  BY <1>2
<1>4. \A d \in Lift : cab'[d] \in CabOf(d) /\ cab'[d].riders = cab[d].riders
  BY <1>1 DEF ShapeOK
<1>5. ASSUME NEW d \in Lift, NEW k \in Serves[d], d # c \/ k # l
      PROVE  cab'[d].queue[k] = cab[d].queue[k] /\ cab[d].queue[k] \in Seq(Worker)
  <2>1. cab[d].queue \in [Serves[d] -> Seq(Worker)]
    BY DEF ShapeOK, CabOf
  <2>2. cab'[d].queue[k] = cab[d].queue[k]
    BY <1>1, <1>5
  <2> QED
    BY <2>1, <2>2
\* Nobody in a queue or in a cab is the one that joins.
<1>6. ASSUME NEW d \in Lift, NEW k \in Serves[d], NEW x \in Worker, InLine(x, d, k)
      PROVE  /\ x # w /\ worker'[x].state = "traversing" /\ worker'[x].conn = d
             /\ worker'[x].at = k /\ x \notin cab'[d].riders
  <2>1. x # w
    BY <1>6, <1>1 DEF InLine
  <2> QED
    BY <1>6, <2>1, <1>1, <1>4 DEF InLine
<1>7. ASSUME NEW d \in Lift, NEW v \in cab[d].riders
      PROVE  v \in Worker /\ v # w /\ worker'[v].state = "traversing" /\ worker'[v].conn = d
  <2>1. v \in Worker
    BY DEF ShapeOK, CabOf
  <2>2. worker[v].state = "traversing" /\ worker[v].conn = d
    BY DEF RidersOK
  <2>3. v # w
    BY <2>2, <1>1
  <2> QED
    BY <2>1, <2>2, <2>3, <1>1
<1>8. RoutesOK'
  <2>1. ASSUME NEW v \in Worker
        PROVE  IF worker'[v].state = "free" THEN worker'[v].conn = None
               ELSE worker'[v].conn \in Connection /\ worker'[v].at \in Serves[worker'[v].conn]
    <3>1. CASE v = w
      BY <3>1, <1>1, LiftConnects
    <3>2. CASE v # w
      <4>1. worker'[v] = worker[v]
        BY <3>2, <1>1
      <4> QED
        BY <4>1 DEF RoutesOK
    <3> QED
      BY <3>1, <3>2
  <2> QED
    BY <2>1 DEF RoutesOK
<1>9. RidersOK'
  BY <1>4, <1>7 DEF RidersOK
<1>10. QueuesOK'
  <2> SUFFICES ASSUME NEW d \in Lift, NEW k \in Serves[d], NEW i \in 1..Len(cab'[d].queue[k])
               PROVE  /\ InLine(cab[d].queue[k][i], d, k)'
                      /\ \A j \in 1..Len(cab'[d].queue[k]) :
                           cab'[d].queue[k][j] = cab'[d].queue[k][i] => j = i
    BY DEF QueuesOK
  <2>1. CASE d # c \/ k # l
    <3>1. cab'[d].queue[k] = cab[d].queue[k] /\ cab[d].queue[k] \in Seq(Worker)
      BY <2>1, <1>5
    <3>2. cab[d].queue[k][i] \in Worker /\ InLine(cab[d].queue[k][i], d, k)
      BY <3>1 DEF QueuesOK
    <3>3. InLine(cab[d].queue[k][i], d, k)'
      <4>1. PICK x \in Worker : x = cab[d].queue[k][i] /\ InLine(x, d, k)
        BY <3>2
      <4>2. /\ worker'[x].state = "traversing" /\ worker'[x].conn = d
            /\ worker'[x].at = k /\ x \notin cab'[d].riders
        BY <4>1, <1>6
      <4>3. cab'[d].queue[k][i] = x
        BY <3>1, <4>1
      <4> QED
        BY <4>2, <4>3 DEF InLine
    <3>4. \A j \in 1..Len(cab[d].queue[k]) :
            cab[d].queue[k][j] = cab[d].queue[k][i] => j = i
      BY <3>1 DEF QueuesOK
    <3> QED
      BY <3>1, <3>3, <3>4
  <2>2. CASE d = c /\ k = l
    <3>1. cab'[d].queue[k] = Append(q, w) /\ q = cab[d].queue[k]
      BY <2>2, <1>1 DEF q
    <3>2. ASSUME NEW j \in 1..Len(q)
          PROVE  /\ q[j] \in Worker /\ InLine(q[j], d, k) /\ q[j] # w
                 /\ \A h \in 1..Len(q) : q[h] = q[j] => h = j
      <4>1. /\ q[j] \in Worker /\ InLine(q[j], d, k)
            /\ \A h \in 1..Len(q) : q[h] = q[j] => h = j
        <5>1. j \in 1..Len(cab[d].queue[k])
          BY <3>1
        <5>2. /\ InLine(cab[d].queue[k][j], d, k)
              /\ \A h \in 1..Len(cab[d].queue[k]) :
                   cab[d].queue[k][h] = cab[d].queue[k][j] => h = j
          BY <5>1 DEF QueuesOK
        <5>3. q[j] \in Worker
          BY <1>3
        <5> QED
          BY <3>1, <5>2, <5>3
      <4>2. PICK x \in Worker : x = q[j] /\ InLine(x, d, k)
        BY <4>1
      <4>3. x # w
        BY <4>2, <1>6
      <4> QED
        BY <4>1, <4>2, <4>3
    <3>3. CASE i = Len(q) + 1
      <4>1. cab'[d].queue[k][i] = w
        BY <3>1, <3>3, <1>3
      <4>2. InLine(w, d, k)'
        BY <2>2, <1>1, <1>4, <1>7 DEF InLine
      <4>3. \A j \in 1..Len(q) + 1 : Append(q, w)[j] = w => j = Len(q) + 1
        BY <1>2, <1>3, <3>2
      <4> QED
        BY <4>1, <4>2, <4>3, <3>1, <3>3, <1>3 DEF InLine
    <3>4. CASE i \in 1..Len(q)
      <4>1. cab'[d].queue[k][i] = q[i]
        BY <3>1, <3>4, <1>3
      <4>2. InLine(cab[d].queue[k][i], d, k)'
        <5>1. q[i] \in Worker /\ InLine(q[i], d, k)
          BY <3>2, <3>4
        <5>2. /\ worker'[q[i]].state = "traversing" /\ worker'[q[i]].conn = d
              /\ worker'[q[i]].at = k /\ q[i] \notin cab'[d].riders
          BY <5>1, <1>6
        <5> QED
          BY <4>1, <5>2 DEF InLine
      <4>3. ASSUME NEW j \in 1..Len(q) + 1, Append(q, w)[j] = q[i]
            PROVE  j = i
        <5>1. j # Len(q) + 1
          BY <4>3, <1>3, <3>2, <3>4
        <5>2. j \in 1..Len(q)
          BY <5>1, <1>2
        <5> QED
          BY <5>2, <4>3, <1>3, <3>2, <3>4
      <4> QED
        BY <4>1, <4>2, <4>3, <3>1, <3>4, <1>3
    <3>5. i \in 1..Len(q) + 1
      BY <3>1, <1>3
    <3>6. i = Len(q) + 1 \/ i \in 1..Len(q)
      BY <3>5, <1>2
    <3> QED
      BY <3>3, <3>4, <3>6
  <2> QED
    BY <2>1, <2>2
<1>11. TravellersOK'
  <2> SUFFICES ASSUME NEW v \in Worker,
                      worker'[v].state = "traversing", worker'[v].conn \in Lift
               PROVE  \/ v \in cab'[worker'[v].conn].riders
                      \/ \E i \in 1..Len(cab'[worker'[v].conn].queue[worker'[v].at]) :
                           cab'[worker'[v].conn].queue[worker'[v].at][i] = v
    BY DEF TravellersOK, Waits
  <2>1. CASE v = w
    BY <2>1, <1>1, <1>2, <1>3
  <2>2. CASE v # w
    <3> DEFINE d == worker[v].conn
               k == worker[v].at
    <3>1. worker'[v] = worker[v] /\ worker[v].state = "traversing" /\ d \in Lift
      BY <2>2, <1>1
    <3>2. k \in Serves[d]
      BY <3>1 DEF RoutesOK
    <3>3. CASE v \in cab[d].riders
      BY <3>3, <3>1, <1>4
    <3>4. CASE \E i \in 1..Len(cab[d].queue[k]) : cab[d].queue[k][i] = v
      <4>1. PICK i \in 1..Len(cab[d].queue[k]) : cab[d].queue[k][i] = v
        BY <3>4
      <4>2. CASE d # c \/ k # l
        <5>1. cab'[d].queue[k] = cab[d].queue[k]
          BY <4>2, <3>1, <3>2, <1>5
        <5> QED
          BY <4>1, <5>1, <3>1
      <4>3. CASE d = c /\ k = l
        <5>1. cab[d].queue[k] = q /\ cab'[d].queue[k] = Append(q, w)
          BY <4>3, <1>1 DEF q, c, l
        <5>2. i \in 1..Len(Append(q, w)) /\ Append(q, w)[i] = v
          BY <4>1, <5>1, <1>2, <1>3
        <5> QED
          BY <5>1, <5>2, <3>1
      <4> QED
        BY <4>2, <4>3
    <3> QED
      BY <3>1, <3>3, <3>4 DEF TravellersOK, Waits
  <2> QED
    BY <2>1, <2>2
<1> QED
  BY <1>1, <1>4, <1>8, <1>9, <1>10, <1>11

LEMMA SamePlaces ==
  ASSUME RideIInv, ShapeOK', worker' = worker,
         \A b \in Lift : cab'[b].riders = cab[b].riders /\ cab'[b].queue = cab[b].queue
  PROVE  RideIInv'
<1>1. (RoutesOK /\ RidersOK)'
  BY DEF RideIInv, RoutesOK, RidersOK
<1>2. QueuesOK'
  <2> SUFFICES ASSUME NEW b \in Lift, NEW l \in Serves[b], NEW i \in 1..Len(cab'[b].queue[l])
               PROVE  /\ InLine(cab[b].queue[l][i], b, l)'
                      /\ \A j \in 1..Len(cab'[b].queue[l]) :
                           cab'[b].queue[l][j] = cab'[b].queue[l][i] => j = i
    BY DEF QueuesOK
  <2>1. cab'[b].queue[l] = cab[b].queue[l] /\ cab'[b].riders = cab[b].riders
    OBVIOUS
  <2>2. /\ InLine(cab[b].queue[l][i], b, l)
        /\ \A j \in 1..Len(cab[b].queue[l]) :
             cab[b].queue[l][j] = cab[b].queue[l][i] => j = i
    BY <2>1 DEF RideIInv, QueuesOK
  <2> QED
    BY <2>1, <2>2 DEF InLine
<1>3. TravellersOK'
  <2> SUFFICES ASSUME NEW v \in Worker,
                      worker'[v].state = "traversing", worker'[v].conn \in Lift
               PROVE  \/ v \in cab'[worker'[v].conn].riders
                      \/ \E i \in 1..Len(cab'[worker'[v].conn].queue[worker'[v].at]) :
                           cab'[worker'[v].conn].queue[worker'[v].at][i] = v
    BY DEF TravellersOK, Waits
  <2>1. /\ worker'[v] = worker[v] /\ cab'[worker[v].conn].riders = cab[worker[v].conn].riders
        /\ cab'[worker[v].conn].queue = cab[worker[v].conn].queue
    OBVIOUS
  <2>2. \/ v \in cab[worker[v].conn].riders
        \/ \E i \in 1..Len(cab[worker[v].conn].queue[worker[v].at]) :
             cab[worker[v].conn].queue[worker[v].at][i] = v
    <3>1. worker[v].state = "traversing" /\ worker[v].conn \in Lift
      BY <2>1
    <3> QED
      BY <3>1 DEF RideIInv, TravellersOK, Waits
  <2> QED
    BY ONLY <2>1, <2>2
<1> QED
  BY <1>1, <1>2, <1>3 DEF RideIInv

LEMMA StillKeepsPlaces ==
  ASSUME RideIInv, UNCHANGED <<worker, cab>>, clock' \in ClockOf
  PROVE  RideIInv'
<1>1. worker' = worker /\ cab' = cab
  OBVIOUS
<1>2. ShapeOK'
  BY <1>1 DEF RideIInv, ShapeOK
<1> QED
  BY <1>1, <1>2, SamePlaces

LEMMA WorkerTurnRides ==
  ASSUME RideIInv, NEW w \in Worker, WorkerTurn(w)
  PROVE  RideIInv'
<1>1. clock' \in ClockOf
  <2>1. clock.turn \in 0..Turns
    BY DEF RideIInv, ShapeOK, ClockOf
  <2> QED
    BY <2>1, NextTurnShape DEF RideIInv, WorkerTurn
<1>2. CASE WalksOn(w)
  <2>1. cab' = cab
    BY <1>2 DEF WalksOn
  <2>2. DOMAIN cab' = Lift /\ \A c \in Lift : cab'[c] \in CabOf(c)
    BY <2>1 DEF RideIInv, ShapeOK
  <2> QED
    BY <1>1, <1>2, <2>2, WalkKeepsPlaces DEF RideIInv, ShapeOK
<1>3. CASE JoinQueue(w)
  BY <1>1, <1>3, JoinKeepsPlaces DEF RideIInv, ShapeOK
<1>4. CASE UNCHANGED <<worker, cab>>
  BY <1>1, <1>4, StillKeepsPlaces
<1> QED
  BY <1>2, <1>3, <1>4, SetOutWalks, BeginClimbWalks, KeepClimbingWalks
     DEF WorkerTurn, Carry, RideIInv

-----------------------------------------------------------------------------
(* A cab that opens or shuts its doors, or turns *)

\* The cab has a direction and a time for its doors; its queues, its passengers
\* and its level are as they were.
Steers(c, d, t) ==
    /\ worker' = worker /\ DOMAIN cab' = Lift /\ cab'[c] \in CabOf(c)
    /\ \A b \in Lift \ {c} : cab'[b] = cab[b]
    /\ cab'[c].dir = d /\ cab'[c].doors = t
    /\ cab'[c].riders = cab[c].riders /\ cab'[c].queue = cab[c].queue

LEMMA SteerShape ==
  ASSUME ShapeOK, NEW c \in Lift, NEW d \in {-1, 0, 1}, NEW t \in 0..Dwell,
         worker' = worker, DOMAIN cab' = Lift, \A b \in Lift \ {c} : cab'[b] = cab[b],
         cab'[c] = [cab[c] EXCEPT !.doors = t, !.dir = d]
  PROVE  Steers(c, d, t)
<1>1. cab[c] \in CabOf(c)
  BY DEF ShapeOK
<1>2. cab'[c] \in CabOf(c) /\ cab'[c].dir = d /\ cab'[c].doors = t
      /\ cab'[c].riders = cab[c].riders /\ cab'[c].queue = cab[c].queue
  BY <1>1 DEF CabOf
<1> QED
  BY <1>2 DEF Steers

LEMMA SteerRides ==
  ASSUME RideIInv, NEW c \in Lift, NEW d, NEW t, Steers(c, d, t), clock' \in ClockOf
  PROVE  RideIInv'
<1>1. /\ worker' = worker /\ DOMAIN cab' = Lift
      /\ \A b \in Lift : cab'[b] \in CabOf(b) /\ cab'[b].riders = cab[b].riders
                                              /\ cab'[b].queue = cab[b].queue
  BY DEF Steers, RideIInv, ShapeOK
<1>2. ShapeOK'
  BY <1>1 DEF RideIInv, ShapeOK
<1> QED
  BY <1>1, <1>2, SamePlaces

DoorsOpen(c) == Min({clock.left, cab[c].doors})
DoorsShut(c) == cab[c].doors > 0 /\ cab[c].doors = DoorsOpen(c) /\ ~Demand(c)

LEMMA DoorsSteers ==
  ASSUME ShapeOK, NEW c \in Lift, Doors(c)
  PROVE  /\ Steers(c, IF DoorsShut(c) THEN 0 ELSE cab[c].dir, cab[c].doors - DoorsOpen(c))
         /\ DoorsOpen(c) \in 0..clock.left /\ DoorsOpen(c) \in 0..cab[c].doors
         /\ cab[c].doors \in 0..Dwell
<1>1. cab[c] \in CabOf(c) /\ cab[c].doors \in 0..Dwell /\ cab[c].dir \in {-1, 0, 1}
  BY DEF ShapeOK, CabOf
<1>2. DoorsOpen(c) \in 0..clock.left /\ DoorsOpen(c) \in 0..cab[c].doors
  <2>1. cab[c].doors \in Int /\ clock.left \in Int /\ cab[c].doors >= 0 /\ clock.left >= 0
    BY <1>1, ClockNatural
  <2>2. DoorsOpen(c) = IF clock.left <= cab[c].doors THEN clock.left ELSE cab[c].doors
    BY <2>1, MinOfTwo DEF DoorsOpen
  <2> QED
    BY <2>1, <2>2
<1>3. /\ cab' = [cab EXCEPT ![c].doors = @ - DoorsOpen(c),
                            ![c].dir = IF DoorsShut(c) THEN 0 ELSE @]
      /\ worker' = worker
  BY DEF Doors, DoorsOpen, DoorsShut
<1>4. DOMAIN cab' = Lift /\ \A b \in Lift \ {c} : cab'[b] = cab[b]
  BY <1>3 DEF ShapeOK
<1>5. cab'[c] = [cab[c] EXCEPT !.doors = cab[c].doors - DoorsOpen(c),
                               !.dir = IF DoorsShut(c) THEN 0 ELSE cab[c].dir]
  BY <1>3, <1>1 DEF ShapeOK, CabOf
<1>6. (IF DoorsShut(c) THEN 0 ELSE cab[c].dir) \in {-1, 0, 1}
  BY <1>1
<1>7. cab[c].doors - DoorsOpen(c) \in 0..Dwell
  BY <1>1, <1>2
<1> QED
  <2>1. Steers(c, IF DoorsShut(c) THEN 0 ELSE cab[c].dir, cab[c].doors - DoorsOpen(c))
    <3>1. PICK d \in {-1, 0, 1} : d = IF DoorsShut(c) THEN 0 ELSE cab[c].dir
      BY <1>6
    <3>2. PICK t \in 0..Dwell : t = cab[c].doors - DoorsOpen(c)
      BY <1>7
    <3>3. cab'[c] = [cab[c] EXCEPT !.doors = t, !.dir = d]
      BY <1>5, <3>1, <3>2
    <3>0. worker' = worker
      BY <1>3
    <3>4. Steers(c, d, t)
      BY <3>0, <1>4, <3>3, SteerShape
    <3> QED
      BY <3>1, <3>2, <3>4
  <2> QED
    BY <2>1, <1>1, <1>2

LEMMA DirectionSteers ==
  ASSUME ShapeOK, NEW c \in Lift, NEW d \in {-1, 0, 1},
         worker' = worker, cab' = [cab EXCEPT ![c].dir = d]
  PROVE  Steers(c, d, cab[c].doors)
<1>1. cab[c] \in CabOf(c)
  BY DEF ShapeOK
<1>2. DOMAIN cab' = Lift /\ \A b \in Lift \ {c} : cab'[b] = cab[b]
  BY DEF ShapeOK
<1>3. cab'[c] = [cab[c] EXCEPT !.dir = d]
  BY DEF ShapeOK
<1>4. /\ cab'[c] \in CabOf(c) /\ cab'[c].dir = d /\ cab'[c].doors = cab[c].doors
      /\ cab'[c].riders = cab[c].riders /\ cab'[c].queue = cab[c].queue
  <2>1. PICK r \in CabOf(c) : r = cab[c]
    BY <1>1
  <2>2. cab'[c] = [r EXCEPT !.dir = d]
    BY <1>3, <2>1
  <2>3. /\ [r EXCEPT !.dir = d] \in CabOf(c)
        /\ [r EXCEPT !.dir = d].dir = d /\ [r EXCEPT !.dir = d].doors = r.doors
        /\ [r EXCEPT !.dir = d].riders = r.riders /\ [r EXCEPT !.dir = d].queue = r.queue
    BY ONLY r \in CabOf(c), d \in {-1, 0, 1} DEF CabOf
  <2> QED
    BY <2>1, <2>2, <2>3
<1> QED
  BY <1>2, <1>4 DEF Steers

LEMMA PickSteers ==
  ASSUME ShapeOK, NEW c \in Lift, Pick(c)
  PROVE  \E d \in Picked(c) : /\ d \in {-1, 0, 1} /\ Steers(c, d, cab[c].doors)
                              /\ IF d = 0 THEN NextTurn ELSE UNCHANGED clock
<1>1. PICK d \in Picked(c) : /\ cab' = [cab EXCEPT ![c].dir = d]
                             /\ IF d = 0 THEN NextTurn ELSE UNCHANGED clock
  BY DEF Pick
<1>2. worker' = worker
  BY DEF Pick
<1>3. d \in {-1, 0, 1}
  BY <1>1 DEF Picked
<1> QED
  BY <1>1, <1>2, <1>3, DirectionSteers

LEMMA TurnBackSteers ==
  ASSUME ShapeOK, NEW c \in Lift, TurnBack(c)
  PROVE  Steers(c, -cab[c].dir, cab[c].doors) /\ -cab[c].dir # 0 /\ UNCHANGED clock
<1>1. cab[c].dir \in {-1, 1}
  BY DEF ShapeOK, CabOf, TurnBack
<1>2. -cab[c].dir \in {-1, 0, 1} /\ -cab[c].dir # 0
  BY <1>1
<1>3. cab' = [cab EXCEPT ![c].dir = -cab[c].dir] /\ worker' = worker /\ UNCHANGED clock
  BY DEF TurnBack
<1> QED
  BY <1>2, <1>3, DirectionSteers

\* The cab's turn goes on, or ends.
LEMMA CabTurnClock ==
  ASSUME ShapeOK, NEW c \in Lift, CabTurn(c)
  PROVE  /\ clock.turn \in 1..Turns /\ clock.turn > Len(Crew)
         /\ NextTurn => clock' \in ClockOf
         /\ UNCHANGED clock => clock' \in ClockOf
<1>1. clock.turn \in 0..Turns /\ clock \in ClockOf
  BY DEF ShapeOK, ClockOf
<1> QED
  BY <1>1, TurnsNatural, NextTurnShape DEF CabTurn

LEMMA StepRides ==
  ASSUME RideIInv, NEW c \in Lift,
         Doors(c) \/ Pick(c) \/ TurnBack(c) \/ Stall(c) \/ Spent(c)
  PROVE  RideIInv'
<1>1. ShapeOK /\ CabTurn(c)
  BY DEF RideIInv, Doors, Pick, TurnBack, Stall, Spent, Moving
<1>2. CASE Doors(c)
  <2>1. clock' \in ClockOf
    <3>1. CASE DoorsShut(c)
      <4>1. NextTurn
        BY <3>1, <1>2 DEF Doors, DoorsShut, DoorsOpen
      <4> QED
        BY <4>1, <1>1, CabTurnClock
    <3>2. CASE ~DoorsShut(c)
      <4>1. clock' = [clock EXCEPT !.left = clock.left - DoorsOpen(c), !.doors = FALSE]
        BY <3>2, <1>2 DEF Doors, DoorsShut, DoorsOpen
      <4>2. clock.left - DoorsOpen(c) \in Nat
        BY <1>1, <1>2, DoorsSteers, ClockNatural
      <4>3. clock \in ClockOf
        BY <1>1 DEF ShapeOK
      <4> QED
        BY <4>1, <4>2, <4>3 DEF ClockOf
    <3> QED
      BY <3>1, <3>2
  <2> QED
    BY <2>1, <1>1, <1>2, DoorsSteers, SteerRides
<1>3. CASE Pick(c)
  BY <1>1, <1>3, PickSteers, SteerRides, CabTurnClock
<1>4. CASE TurnBack(c)
  BY <1>1, <1>4, TurnBackSteers, SteerRides, CabTurnClock
<1>5. CASE Stall(c) \/ Spent(c)
  BY <1>1, <1>5, StillKeepsPlaces, CabTurnClock DEF Stall, Spent
<1> QED
  BY <1>2, <1>3, <1>4, <1>5

-----------------------------------------------------------------------------
(* A stop *)

Leavers(c) == {w \in cab[c].riders : worker[w].goal = NextStop(c)}
Stayers(c) == cab[c].riders \ Leavers(c)
Line(c) == cab[c].queue[NextStop(c)]
Boarding(c) == Min({Len(Line(c)), Seats[c] - Cardinality(Stayers(c))})
Spare(c) == clock.left - Travel(c)
OpenFor(c) == Min({Spare(c), Dwell})
NewCab(c) ==
    [cab[c] EXCEPT !.at = NextStop(c), !.doors = Dwell - OpenFor(c),
       !.riders = (@ \ Leavers(c)) \cup Range(Boarders(c, NextStop(c), Stayers(c))),
       !.queue[NextStop(c)] =
          SubSeq(@, Len(Boarders(c, NextStop(c), Stayers(c))) + 1, Len(@))]
Unwanted(c) == NewCab(c).riders = {} /\ \A k \in Serves[c] : NewCab(c).queue[k] = <<>>
Idles(c) == NewCab(c).doors = 0 /\ Unwanted(c)

LEMMA StopUnfolds ==
  ASSUME NEW c \in Lift, Stop(c)
  PROVE  /\ CabTurn(c) /\ ~clock.doors /\ cab[c].dir # 0 /\ Ahead(c) # {} /\ Spare(c) >= 0
         /\ worker' = [w \in Worker |-> IF w \in Leavers(c) THEN Landed(worker[w], NextStop(c))
                                        ELSE worker[w]]
         /\ cab' = [cab EXCEPT ![c] = [NewCab(c) EXCEPT !.dir = IF Idles(c) THEN 0 ELSE @]]
         /\ IF Idles(c) THEN NextTurn
            ELSE clock' = [clock EXCEPT !.left = Spare(c) - OpenFor(c)]
<1>1. CabTurn(c) /\ ~clock.doors /\ cab[c].dir # 0 /\ Ahead(c) # {} /\ Spare(c) >= 0
  BY Zenon DEF Stop, Moving, Spare
<1>2. worker' = [w \in Worker |-> IF w \in Leavers(c) THEN Landed(worker[w], NextStop(c))
                                  ELSE worker[w]]
  BY Zenon DEF Stop, Leavers
<1>3. cab' = [cab EXCEPT ![c] = [NewCab(c) EXCEPT !.dir = IF Idles(c) THEN 0 ELSE @]]
  BY Zenon DEF Stop, Leavers, Stayers, Spare, OpenFor, NewCab, Idles, Unwanted
<1>4. IF Idles(c) THEN NextTurn ELSE clock' = [clock EXCEPT !.left = Spare(c) - OpenFor(c)]
  BY Zenon DEF Stop, Leavers, Stayers, Spare, OpenFor, NewCab, Idles, Unwanted
<1> QED
  BY <1>1, <1>2, <1>3, <1>4

LEMMA NextStopServed ==
  ASSUME NEW c \in Lift, Ahead(c) # {}
  PROVE  NextStop(c) \in Serves[c] /\ NextStop(c) \in Level
<1>1. Ahead(c) \in SUBSET Serves[c] /\ Serves[c] \in SUBSET Level
  BY LiftConnects DEF Ahead
<1>2. Ahead(c) \in SUBSET Level
  BY <1>1
<1>3. NextStop(c) \in Ahead(c)
  BY <1>2, MinLevel, MaxLevel DEF NextStop
<1> QED
  BY <1>1, <1>3

LEMMA TravelNatural ==
  ASSUME ShapeOK, NEW c \in Lift, Ahead(c) # {}
  PROVE  Travel(c) \in Nat
<1>1. Serves[c] \in SUBSET Level /\ Serves[c] # {}
  BY LiftConnects DEF Ahead
<1>2. Min(Serves[c]) \in Serves[c]
  BY <1>1, MinLevel
<1>3. cab[c].at \in Level
  BY <1>1, <1>2 DEF ShapeOK, CabOf
<1>4. Height[cab[c].at] \in Nat /\ Height[NextStop(c)] \in Nat
  BY <1>3, NextStopServed
<1> DEFINE a == Height[cab[c].at]
           b == Height[NextStop(c)]
<1>5. a - b \in Int /\ b - a \in Int /\ (a - b >= 0 \/ b - a >= 0)
  BY <1>4
<1>6. Travel(c) = Max({a - b, b - a})
  BY DEF Travel
<1> HIDE DEF a, b
<1> QED
  BY <1>4, <1>5, <1>6, MaxOfTwo

LEMMA BoardingBound ==
  ASSUME RideIInv, NEW c \in Lift, Ahead(c) # {}
  PROVE  /\ Line(c) \in Seq(Worker) /\ Len(Line(c)) \in Nat
         /\ Boarding(c) \in 0..Len(Line(c))
         /\ IsFiniteSet(Stayers(c)) /\ Cardinality(Stayers(c)) \in Nat
         /\ Cardinality(Stayers(c)) + Boarding(c) <= Seats[c]
<1>1. Line(c) \in Seq(Worker)
  BY NextStopServed DEF RideIInv, ShapeOK, CabOf, Line
<1>2. Len(Line(c)) \in Nat
  BY <1>1
<1>3. cab[c].riders \subseteq Worker /\ Cardinality(cab[c].riders) <= Seats[c]
  BY DEF RideIInv, ShapeOK, CabOf, RidersOK
<1>4. IsFiniteSet(cab[c].riders) /\ Cardinality(cab[c].riders) \in Nat
  BY <1>3, FiniteCrew, FS_Subset, FS_CardinalityType
<1>5. Stayers(c) \in SUBSET cab[c].riders
  BY DEF Stayers
<1>6. /\ IsFiniteSet(Stayers(c)) /\ Cardinality(Stayers(c)) \in Nat
      /\ Cardinality(Stayers(c)) <= Cardinality(cab[c].riders)
  BY <1>4, <1>5, FS_Subset, FS_CardinalityType
<1>7. Seats[c] \in Nat
  OBVIOUS
<1> DEFINE n == Len(Line(c))
           m == Seats[c] - Cardinality(Stayers(c))
<1>8. n \in Nat /\ m \in Nat /\ n \in Int /\ m \in Int
  BY <1>2, <1>3, <1>4, <1>6, <1>7
<1>9. Boarding(c) = Min({n, m})
  BY DEF Boarding
<1>10. Boarding(c) \in 0..n /\ Boarding(c) <= m
  <2> HIDE DEF n, m
  <2>1. Boarding(c) = IF n <= m THEN n ELSE m
    BY <1>8, <1>9, MinOfTwo
  <2> QED
    BY <1>8, <2>1
<1> QED
  BY <1>1, <1>2, <1>6, <1>7, <1>10

LEMMA BoardersAre ==
  ASSUME RideIInv, NEW c \in Lift, Ahead(c) # {}
  PROVE  LET in == Boarders(c, NextStop(c), Stayers(c))
             rest == SubSeq(Line(c), Boarding(c) + 1, Len(Line(c)))
         IN /\ Len(in) = Boarding(c) /\ in \in Seq(Worker)
            /\ Range(in) = {Line(c)[i] : i \in 1..Boarding(c)}
            /\ IsFiniteSet(Range(in)) /\ Cardinality(Range(in)) <= Boarding(c)
            /\ rest \in Seq(Worker) /\ Len(rest) = Len(Line(c)) - Boarding(c)
            /\ \A i \in 1..Len(rest) : rest[i] = Line(c)[Boarding(c) + i]
<1> DEFINE q == Line(c)
           k == Boarding(c)
           in == Boarders(c, NextStop(c), Stayers(c))
<1>1. q \in Seq(Worker) /\ Len(q) \in Nat /\ k \in 0..Len(q)
  BY BoardingBound
<1>2. in = SubSeq(q, 1, k)
  BY DEF Boarders, Boarding, Line
<1> HIDE DEF q, k, in
<1>3. Len(in) = k /\ in \in Seq(Worker) /\ \A i \in 1..k : in[i] = q[i]
  BY <1>1, <1>2
<1>4. Range(in) = {q[i] : i \in 1..k}
  <2>1. Range(in) = {in[i] : i \in 1..k}
    BY <1>3, FiniteRange
  <2> QED
    BY <2>1, <1>3
<1>5. IsFiniteSet(Range(in)) /\ Cardinality(Range(in)) <= k
  BY <1>3, FiniteRange
<1> DEFINE rest == SubSeq(q, k + 1, Len(q))
<1>6. /\ rest \in Seq(Worker) /\ Len(rest) = Len(q) - k
      /\ \A i \in 1..Len(rest) : rest[i] = q[k + i]
  <2>1. k + 1 \in Int /\ Len(q) \in Int /\ \A i \in k + 1..Len(q) : q[i] \in Worker
    BY <1>1
  <2>2. /\ rest \in Seq(Worker)
        /\ Len(rest) = IF k + 1 <= Len(q) THEN Len(q) - (k + 1) + 1 ELSE 0
        /\ \A i \in 1..Len(q) - (k + 1) + 1 : rest[i] = q[k + 1 + i - 1]
    BY <2>1, SubSeqProperties
  <2> HIDE DEF rest
  <2>3. Len(rest) = Len(q) - k
    <3>1. \A a, n \in Nat : a <= n => (IF a + 1 <= n THEN n - (a + 1) + 1 ELSE 0) = n - a
      OBVIOUS
    <3>2. k \in Nat /\ k <= Len(q)
      BY <1>1
    <3> QED
      BY <1>1, <2>2, <3>1, <3>2
  <2>4. \A i \in 1..Len(rest) : i \in 1..Len(q) - (k + 1) + 1 /\ k + 1 + i - 1 = k + i
    BY <1>1, <2>3
  <2> QED
    BY <2>2, <2>3, <2>4
<1> QED
  BY <1>3, <1>4, <1>5, <1>6 DEF q, k, in

\* What a stop makes of the cab.
LEMMA StopCab ==
  ASSUME RideIInv, NEW c \in Lift, Stop(c)
  PROVE  LET rest == SubSeq(Line(c), Boarding(c) + 1, Len(Line(c))) IN
         /\ DOMAIN cab' = Lift /\ \A b \in Lift \ {c} : cab'[b] = cab[b]
         /\ cab'[c] \in CabOf(c)
         /\ cab'[c].riders = Stayers(c) \cup {Line(c)[i] : i \in 1..Boarding(c)}
         /\ cab'[c].queue[NextStop(c)] = rest
         /\ \A k \in Serves[c] \ {NextStop(c)} : cab'[c].queue[k] = cab[c].queue[k]
         /\ cab'[c].dir = IF Idles(c) THEN 0 ELSE cab[c].dir
         /\ NewCab(c).doors = cab'[c].doors /\ NewCab(c).riders = cab'[c].riders
         /\ NewCab(c).queue = cab'[c].queue
         /\ Spare(c) \in Nat /\ OpenFor(c) \in 0..Spare(c)
<1> DEFINE l == NextStop(c)
           q == Line(c)
           k == Boarding(c)
           in == Boarders(c, l, Stayers(c))
           rest == SubSeq(q, k + 1, Len(q))
           queue == [cab[c].queue EXCEPT ![l] = rest]
           riders == Stayers(c) \cup Range(in)
           doors == Dwell - OpenFor(c)
           dir == IF Idles(c) THEN 0 ELSE cab[c].dir
<1>1. Ahead(c) # {} /\ ShapeOK /\ Spare(c) >= 0
  BY StopUnfolds DEF RideIInv
<1>2. l \in Serves[c]
  BY <1>1, NextStopServed
<1>3. /\ cab[c] \in CabOf(c) /\ cab[c].queue \in [Serves[c] -> Seq(Worker)]
      /\ cab[c].dir \in {-1, 0, 1} /\ cab[c].riders \subseteq Worker
  BY <1>1 DEF ShapeOK, CabOf
<1>4. Spare(c) \in Nat
  <2>1. Travel(c) \in Nat /\ clock.left \in Nat
    BY <1>1, TravelNatural, ClockNatural
  <2> QED
    BY <2>1, <1>1 DEF Spare
<1>5. OpenFor(c) \in 0..Spare(c) /\ OpenFor(c) \in 0..Dwell
  <2>1. OpenFor(c) = IF Spare(c) <= Dwell THEN Spare(c) ELSE Dwell
    BY <1>4, MinOfTwo DEF OpenFor
  <2> QED
    BY <2>1, <1>4
<1>6. doors \in 0..Dwell /\ dir \in {-1, 0, 1}
  BY <1>3, <1>5
<1>7. /\ in \in Seq(Worker) /\ Range(in) = {q[i] : i \in 1..k} /\ rest \in Seq(Worker)
      /\ Range(in) \subseteq Worker /\ Len(in) = k
  <2>1. q \in Seq(Worker) /\ Len(q) \in Nat /\ k \in 0..Len(q)
    BY <1>1, BoardingBound
  <2>2. /\ in \in Seq(Worker) /\ Range(in) = {q[i] : i \in 1..k} /\ rest \in Seq(Worker)
        /\ Len(in) = k
    BY <1>1, BoardersAre
  <2> QED
    BY <2>1, <2>2
<1>8. riders \in SUBSET Worker
  BY <1>3, <1>7 DEF Stayers
<1>9. /\ queue \in [Serves[c] -> Seq(Worker)] /\ queue[l] = rest
      /\ \A s \in Serves[c] \ {l} : queue[s] = cab[c].queue[s]
  <2> HIDE DEF rest, l
  <2> QED
    BY <1>2, <1>3, <1>7
<1>10. NewCab(c) = [cab[c] EXCEPT !.at = l, !.doors = doors, !.riders = riders, !.queue = queue]
  BY <1>3, <1>7, <1>2 DEF NewCab, CabOf, Line, Stayers
<1>11. cab'[c] = [NewCab(c) EXCEPT !.dir = IF Idles(c) THEN 0 ELSE NewCab(c).dir]
       /\ DOMAIN cab' = Lift /\ \A b \in Lift \ {c} : cab'[b] = cab[b]
  BY <1>1, StopUnfolds DEF ShapeOK
<1> HIDE DEF l, q, k, in, rest, queue, riders, doors
<1>12. cab[c] = [at |-> cab[c].at, dir |-> cab[c].dir, doors |-> cab[c].doors,
                riders |-> cab[c].riders, queue |-> cab[c].queue]
  BY <1>3 DEF CabOf
<1>13. NewCab(c) = [at |-> l, dir |-> cab[c].dir, doors |-> doors,
                   riders |-> riders, queue |-> queue]
  BY <1>10, <1>12
<1>14. cab'[c] = [at |-> l, dir |-> dir, doors |-> doors, riders |-> riders, queue |-> queue]
  <2>1. NewCab(c).dir = cab[c].dir
    BY <1>13
  <2>2. cab'[c] = [NewCab(c) EXCEPT !.dir = dir]
    BY <1>11, <2>1
  <2> HIDE DEF dir
  <2>3. PICK r : r = NewCab(c)
    OBVIOUS
  <2>4. cab'[c] = [r EXCEPT !.dir = dir]
    BY <2>2, <2>3
  <2>5. r = [at |-> l, dir |-> cab[c].dir, doors |-> doors,
             riders |-> riders, queue |-> queue]
    BY <1>13, <2>3
  <2> QED
    BY ONLY <2>4, <2>5
<1> HIDE DEF dir
<1>15. /\ cab'[c] \in CabOf(c) /\ cab'[c].riders = riders /\ cab'[c].queue = queue
       /\ cab'[c].dir = dir /\ cab'[c].doors = doors
       /\ NewCab(c).riders = riders /\ NewCab(c).queue = queue /\ NewCab(c).doors = doors
  BY <1>13, <1>14, <1>2, <1>6, <1>8, <1>9 DEF CabOf
<1>16. riders = Stayers(c) \cup {q[i] : i \in 1..k}
  BY <1>7 DEF riders
<1> QED
  BY <1>4, <1>5, <1>9, <1>11, <1>15, <1>16 DEF l, q, k, rest, dir

\* What a stop makes of the workers: those for this level leave, nobody else moves.
LEMMA StopWorkers ==
  ASSUME RideIInv, NEW c \in Lift, Stop(c)
  PROVE  /\ worker' \in [Worker -> Traveller]
         /\ \A w \in Worker \ Leavers(c) : worker'[w] = worker[w]
         /\ \A w \in Leavers(c) :
              \/ worker'[w].state = "free" /\ worker'[w].conn = None
              \/ /\ worker'[w].state = "walking" /\ worker'[w].conn \in Connection
                 /\ worker'[w].at \in Serves[worker'[w].conn]
         /\ \A w \in Leavers(c) : w \in cab[c].riders /\ worker[w].conn = c
<1>1. /\ Ahead(c) # {}
      /\ worker' = [w \in Worker |-> IF w \in Leavers(c) THEN Landed(worker[w], NextStop(c))
                                     ELSE worker[w]]
  BY StopUnfolds
<1>2. NextStop(c) \in Level
  BY <1>1, NextStopServed
<1>3. \A w \in Worker : worker[w] \in Traveller
  BY DEF RideIInv, ShapeOK
<1>4. Leavers(c) \subseteq cab[c].riders /\ cab[c].riders \subseteq Worker
  BY DEF Leavers, RideIInv, ShapeOK, CabOf
<1>5. ASSUME NEW w \in Leavers(c)
      PROVE  /\ worker'[w] \in Traveller
             /\ \/ worker'[w].state = "free" /\ worker'[w].conn = None
                \/ /\ worker'[w].state = "walking" /\ worker'[w].conn \in Connection
                   /\ worker'[w].at \in Serves[worker'[w].conn]
  <2>1. worker'[w] = Landed(worker[w], NextStop(c)) /\ worker[w] \in Traveller
    BY <1>1, <1>3, <1>4
  <2> QED
    BY <2>1, <1>2, LandedShape
<1>6. \A w \in Worker \ Leavers(c) : worker'[w] = worker[w]
  BY <1>1
<1>7. worker' \in [Worker -> Traveller]
  <2>1. \A w \in Worker : worker'[w] \in Traveller
    BY <1>3, <1>5, <1>6
  <2> QED
    BY <1>1, <2>1
<1>8. \A w \in Leavers(c) : w \in cab[c].riders /\ worker[w].conn = c
  BY <1>4 DEF RideIInv, RidersOK
<1> QED
  BY <1>5, <1>6, <1>7, <1>8

LEMMA StopRides ==
  ASSUME RideIInv, NEW c \in Lift, Stop(c)
  PROVE  RideIInv'
<1> DEFINE l == NextStop(c)
           q == Line(c)
           k == Boarding(c)
           rest == SubSeq(q, k + 1, Len(q))
           in == {q[i] : i \in 1..k}
           stay == Stayers(c)
<1>1. Ahead(c) # {} /\ l \in Serves[c] /\ q = cab[c].queue[l]
  BY StopUnfolds, NextStopServed DEF Line
<1>2. /\ DOMAIN cab' = Lift /\ \A b \in Lift \ {c} : cab'[b] = cab[b]
      /\ cab'[c] \in CabOf(c) /\ cab'[c].riders = stay \cup in
      /\ cab'[c].queue[l] = rest
      /\ \A s \in Serves[c] \ {l} : cab'[c].queue[s] = cab[c].queue[s]
  BY StopCab
<1>3. /\ q \in Seq(Worker) /\ Len(q) \in Nat /\ k \in 0..Len(q)
      /\ IsFiniteSet(stay) /\ Cardinality(stay) \in Nat /\ Cardinality(stay) + k <= Seats[c]
  BY <1>1, BoardingBound
<1>4. /\ IsFiniteSet(in) /\ Cardinality(in) <= k
      /\ Len(rest) = Len(q) - k /\ \A i \in 1..Len(rest) : rest[i] = q[k + i]
  BY <1>1, BoardersAre
<1>5. stay = cab[c].riders \ Leavers(c)
  BY DEF Stayers
<1> HIDE DEF l, q, k, rest, in, stay
<1>6. /\ \A w \in Worker \ Leavers(c) : worker'[w] = worker[w]
      /\ \A w \in Leavers(c) :
           \/ worker'[w].state = "free" /\ worker'[w].conn = None
           \/ /\ worker'[w].state = "walking" /\ worker'[w].conn \in Connection
              /\ worker'[w].at \in Serves[worker'[w].conn]
      /\ \A w \in Leavers(c) : w \in cab[c].riders /\ worker[w].conn = c
      /\ worker' \in [Worker -> Traveller]
  BY StopWorkers
\* Nobody in a queue leaves, and nobody in another cab.
<1>7. ASSUME NEW d \in Lift, NEW s \in Serves[d], NEW x \in Worker, InLine(x, d, s)
      PROVE  worker'[x] = worker[x] /\ x \notin stay /\ x \notin cab[d].riders
  <2>1. x \notin Leavers(c)
    BY <1>6, <1>7 DEF InLine
  <2> QED
    BY <2>1, <1>5, <1>6, <1>7 DEF InLine, RideIInv, RidersOK
<1>8. ASSUME NEW d \in Lift \ {c}, NEW v \in cab[d].riders
      PROVE  v \in Worker /\ worker'[v] = worker[v]
  <2>1. v \in Worker /\ worker[v].conn = d
    BY DEF RideIInv, ShapeOK, CabOf, RidersOK
  <2> QED
    BY <2>1, <1>6
\* The line is in order.
<1>9. ASSUME NEW i \in 1..Len(q)
      PROVE  /\ q[i] \in Worker /\ InLine(q[i], c, l)
             /\ \A j \in 1..Len(q) : q[j] = q[i] => j = i
  <2>1. q[i] \in Worker
    BY <1>3
  <2> QED
    BY <2>1, <1>1 DEF RideIInv, QueuesOK
<1>10. ASSUME NEW x \in in
       PROVE  x \in Worker /\ InLine(x, c, l) /\ worker'[x] = worker[x]
  <2>1. PICK i \in 1..k : x = q[i]
    BY DEF in
  <2>2. i \in 1..Len(q)
    BY <1>3
  <2>3. x \in Worker /\ InLine(x, c, l)
    BY <2>1, <2>2, <1>9
  <2> QED
    BY <2>3, <1>1, <1>7
<1>11. clock' \in ClockOf
  <2>1. ShapeOK /\ CabTurn(c)
    BY StopUnfolds DEF RideIInv
  <2>2. CASE Idles(c)
    <3>1. NextTurn
      BY <2>2, StopUnfolds
    <3> QED
      BY <3>1, <2>1, CabTurnClock
  <2>3. CASE ~Idles(c)
    <3>1. clock' = [clock EXCEPT !.left = Spare(c) - OpenFor(c)]
      BY <2>3, StopUnfolds
    <3>2. Spare(c) \in Nat /\ OpenFor(c) \in 0..Spare(c)
      BY StopCab
    <3>3. Spare(c) - OpenFor(c) \in Nat /\ clock \in ClockOf
      BY <3>2, <2>1 DEF ShapeOK
    <3> QED
      BY <3>1, <3>3 DEF ClockOf
  <2> QED
    BY <2>2, <2>3
<1>12. ShapeOK'
  <2>1. \A d \in Lift : cab'[d] \in CabOf(d)
    BY <1>2 DEF RideIInv, ShapeOK
  <2> QED
    BY <2>1, <1>2, <1>6, <1>11 DEF ShapeOK
<1>13. RoutesOK'
  <2> SUFFICES ASSUME NEW v \in Worker
               PROVE  IF worker'[v].state = "free" THEN worker'[v].conn = None
                      ELSE /\ worker'[v].conn \in Connection
                           /\ worker'[v].at \in Serves[worker'[v].conn]
    BY DEF RoutesOK
  <2>1. CASE v \in Leavers(c)
    BY <2>1, <1>6
  <2>2. CASE v \notin Leavers(c)
    <3>1. worker'[v] = worker[v]
      BY <2>2, <1>6
    <3> QED
      BY <3>1 DEF RideIInv, RoutesOK
  <2> QED
    BY <2>1, <2>2
<1>14. RidersOK'
  <2>1. ASSUME NEW d \in Lift \ {c}
        PROVE  /\ Cardinality(cab'[d].riders) <= Seats[d]
               /\ \A w \in cab'[d].riders :
                    worker'[w].state = "traversing" /\ worker'[w].conn = d
    <3>1. cab'[d] = cab[d]
      BY <1>2
    <3>2. /\ Cardinality(cab[d].riders) <= Seats[d]
          /\ \A w \in cab[d].riders : worker[w].state = "traversing" /\ worker[w].conn = d
      BY DEF RideIInv, RidersOK
    <3>3. \A w \in cab[d].riders : worker'[w] = worker[w]
      BY <1>8
    <3> QED
      BY <3>1, <3>2, <3>3
  <2>2. Cardinality(cab'[c].riders) <= Seats[c]
    <3>1. Cardinality(in) \in Nat /\ IsFiniteSet(stay \cap in)
      BY <1>3, <1>4, FS_CardinalityType, FS_Intersection
    <3>2. Cardinality(stay \cap in) \in Nat
      BY <3>1, FS_CardinalityType
    <3>3. Cardinality(stay \cup in)
            = Cardinality(stay) + Cardinality(in) - Cardinality(stay \cap in)
      BY <1>3, <1>4, FS_Union
    <3>4. k \in Int /\ Seats[c] \in Nat
      BY <1>3
    <3> QED
      BY <3>1, <3>2, <3>3, <3>4, <1>2, <1>3, <1>4
  <2>3. ASSUME NEW w \in stay \cup in
        PROVE  worker'[w].state = "traversing" /\ worker'[w].conn = c
    <3>1. CASE w \in in
      BY <3>1, <1>10 DEF InLine
    <3>2. CASE w \in stay
      <4>1. w \in cab[c].riders /\ w \notin Leavers(c)
        BY <3>2, <1>5
      <4>2. w \in Worker /\ worker[w].state = "traversing" /\ worker[w].conn = c
        BY <4>1 DEF RideIInv, ShapeOK, CabOf, RidersOK
      <4> QED
        BY <4>1, <4>2, <1>6
    <3> QED
      BY <3>1, <3>2
  <2> QED
    BY <2>1, <2>2, <2>3, <1>2 DEF RidersOK
<1>15. QueuesOK'
  <2> SUFFICES ASSUME NEW d \in Lift, NEW s \in Serves[d], NEW i \in 1..Len(cab'[d].queue[s])
               PROVE  /\ InLine(cab[d].queue[s][i], d, s)'
                      /\ \A j \in 1..Len(cab'[d].queue[s]) :
                           cab'[d].queue[s][j] = cab'[d].queue[s][i] => j = i
    BY DEF QueuesOK
  <2>1. CASE d # c \/ s # l
    <3>1. cab'[d].queue[s] = cab[d].queue[s] /\ cab[d].queue[s] \in Seq(Worker)
      BY <2>1, <1>2 DEF RideIInv, ShapeOK, CabOf
    <3>2. /\ cab[d].queue[s][i] \in Worker /\ InLine(cab[d].queue[s][i], d, s)
          /\ \A j \in 1..Len(cab[d].queue[s]) :
               cab[d].queue[s][j] = cab[d].queue[s][i] => j = i
      BY <3>1 DEF RideIInv, QueuesOK
    <3>3. PICK x \in Worker : x = cab[d].queue[s][i] /\ InLine(x, d, s)
      BY <3>2
    <3>4. worker'[x] = worker[x] /\ x \notin stay /\ x \notin cab[d].riders
      BY <3>3, <1>7
    <3>5. x \notin cab'[d].riders
      <4>1. CASE d # c
        BY <4>1, <3>4, <1>2
      <4>2. CASE d = c
        <5>1. s # l /\ worker[x].at = s
          BY <4>2, <2>1, <3>3 DEF InLine
        <5>2. x \notin in
          BY <5>1, <1>10 DEF InLine
        <5> QED
          BY <5>2, <4>2, <3>4, <1>2
      <4> QED
        BY <4>1, <4>2
    <3>6. InLine(cab[d].queue[s][i], d, s)'
      BY <3>1, <3>3, <3>4, <3>5 DEF InLine
    <3> QED
      BY <3>1, <3>2, <3>6
  <2>2. CASE d = c /\ s = l
    <3>1. cab'[d].queue[s] = rest
      BY <2>2, <1>2
    <3>2. /\ i \in 1..Len(rest) /\ rest[i] = q[k + i] /\ k + i \in 1..Len(q) /\ k \in Nat
          /\ i > 0
      BY <3>1, <1>3, <1>4
    <3>3. PICK x \in Worker : x = q[k + i] /\ InLine(x, c, l)
      BY <3>2, <1>9
    <3>4. worker'[x] = worker[x] /\ x \notin stay
      BY <3>3, <1>1, <1>7
    <3>5. x \notin in
      <4> SUFFICES ASSUME NEW j \in 1..k, q[j] = x
                   PROVE  FALSE
        BY DEF in
      <4>1. j \in 1..Len(q) /\ j # k + i
        BY <3>2, <1>3
      <4> QED
        BY <4>1, <3>2, <3>3, <1>9
    <3>6. InLine(cab[d].queue[s][i], d, s)'
      BY <3>1, <3>2, <3>3, <3>4, <3>5, <2>2, <1>2 DEF InLine
    <3>7. ASSUME NEW j \in 1..Len(rest), rest[j] = rest[i]
          PROVE  j = i
      <4>1. k + j \in 1..Len(q) /\ rest[j] = q[k + j]
        BY <3>2, <1>3, <1>4
      <4>2. k + j = k + i
        BY <4>1, <3>2, <3>7, <1>9
      <4> QED
        BY <4>2, <3>2
    <3> QED
      BY <3>1, <3>6, <3>7
  <2> QED
    BY <2>1, <2>2
<1>16. TravellersOK'
  <2> SUFFICES ASSUME NEW v \in Worker,
                      worker'[v].state = "traversing", worker'[v].conn \in Lift
               PROVE  \/ v \in cab'[worker'[v].conn].riders
                      \/ \E i \in 1..Len(cab'[worker'[v].conn].queue[worker'[v].at]) :
                           cab'[worker'[v].conn].queue[worker'[v].at][i] = v
    BY DEF TravellersOK, Waits
  <2>1. worker'[v] = worker[v] /\ v \notin Leavers(c)
    BY <1>6
  <2> DEFINE d == worker[v].conn
             s == worker[v].at
  <2>2. /\ d \in Lift /\ s \in Serves[d] /\ worker[v].state = "traversing"
        /\ v \in cab[d].riders \/ \E i \in 1..Len(cab[d].queue[s]) : cab[d].queue[s][i] = v
    BY <2>1 DEF RideIInv, RoutesOK, TravellersOK, Waits
  <2> HIDE DEF d, s
  <2> SUFFICES v \in cab'[d].riders \/ \E i \in 1..Len(cab'[d].queue[s]) :
                                           cab'[d].queue[s][i] = v
    BY <2>1 DEF d, s
  <2>3. CASE v \in cab[d].riders
    BY <2>3, <2>1, <2>2, <1>2, <1>5
  <2>4. CASE \E i \in 1..Len(cab[d].queue[s]) : cab[d].queue[s][i] = v
    <3>1. PICK i \in 1..Len(cab[d].queue[s]) : cab[d].queue[s][i] = v
      BY <2>4
    <3>2. CASE d # c \/ s # l
      <4>1. cab'[d].queue[s] = cab[d].queue[s]
        BY <3>2, <2>2, <1>2
      <4> QED
        BY <4>1, <3>1
    <3>3. CASE d = c /\ s = l
      <4>1. i \in 1..Len(q) /\ q[i] = v
        BY <3>1, <3>3, <1>1
      <4>2. CASE i <= k
        <5>1. i \in 1..k
          BY <4>1, <4>2, <1>3
        <5>2. v \in in
          BY <5>1, <4>1 DEF in
        <5> QED
          BY <5>2, <3>3, <1>2
      <4>3. CASE ~(i <= k)
        <5>1. i - k \in 1..Len(rest) /\ k + (i - k) = i
          BY <4>1, <4>3, <1>3, <1>4
        <5>2. rest[i - k] = v
          BY <5>1, <4>1, <1>4
        <5> QED
          BY <5>1, <5>2, <3>3, <1>2
      <4> QED
        BY <4>2, <4>3
    <3> QED
      BY <3>2, <3>3
  <2> QED
    BY <2>2, <2>3, <2>4
<1> QED
  BY <1>12, <1>13, <1>14, <1>15, <1>16 DEF RideIInv

-----------------------------------------------------------------------------
(* Whoever goes by elevator is in one place *)

LEMMA RangeIs == /\ \A w \in Worker : \E i \in 1..Len(Crew) : Crew[i] = w
                 /\ \A i \in 1..Len(Crew) : Crew[i] \in Worker
                 /\ \A c \in Lift : \E i \in 1..Len(Shafts) : Shafts[i] = c
                 /\ \A i \in 1..Len(Shafts) : Shafts[i] \in Lift
<1>1. Crew \in Seq(Worker) /\ Shafts \in Seq(Lift)
  OBVIOUS
<1>2. Worker = {Crew[i] : i \in 1..Len(Crew)}
  BY <1>1, FiniteRange DEF Worker
<1>3. Lift = {Shafts[i] : i \in 1..Len(Shafts)}
  BY <1>1, FiniteRange DEF Lift
<1> QED
  BY <1>2, <1>3

LEMMA CabAtFirst ==
  ASSUME NEW c \in Lift
  PROVE  [at |-> Min(Serves[c]), dir |-> 0, doors |-> 0, riders |-> {},
          queue |-> [l \in Serves[c] |-> <<>>]] \in CabOf(c)
<1>1. [l \in Serves[c] |-> <<>>] \in [Serves[c] -> Seq(Worker)]
  OBVIOUS
<1>2. 0 \in 0..Dwell
  OBVIOUS
<1> QED
  BY <1>1, <1>2 DEF CabOf

LEMMA RideInit == Init => RideIInv
<1> SUFFICES ASSUME Init PROVE RideIInv
  OBVIOUS
<1>1. PICK at \in [Worker -> Home] :
        worker = [w \in Worker |-> [at |-> at[w], state |-> "free", goal |-> at[w],
                                    conn |-> None, timer |-> 0]]
  BY DEF Init
<1>2. \A w \in Worker : /\ worker[w] \in Traveller /\ worker[w].state = "free"
                        /\ worker[w].conn = None
  <2>1. 0 \in 0..Climb * Top /\ Home \subseteq Level
    OBVIOUS
  <2> QED
    BY <1>1, <2>1 DEF Traveller, State
<1>3. /\ DOMAIN cab = Lift
      /\ \A c \in Lift : /\ cab[c] \in CabOf(c) /\ cab[c].riders = {}
                         /\ \A l \in Serves[c] : cab[c].queue[l] = <<>>
  BY CabAtFirst DEF Init
<1>4. clock \in ClockOf
  BY TurnsNatural DEF Init, Between, ClockOf
<1>5. ShapeOK
  BY <1>1, <1>2, <1>3, <1>4 DEF ShapeOK
<1>6. RoutesOK /\ TravellersOK
  BY <1>2 DEF RoutesOK, TravellersOK
<1>7. QueuesOK
  BY <1>3 DEF QueuesOK
<1>8. RidersOK
  <2>1. \A c \in Lift : Cardinality(cab[c].riders) = 0 /\ Seats[c] \in Nat
    BY <1>3, FS_EmptySet
  <2> QED
    BY <1>3, <2>1 DEF RidersOK
<1> QED
  BY <1>5, <1>6, <1>7, <1>8 DEF RideIInv

LEMMA BeginTickRides ==
  ASSUME RideIInv, BeginTick
  PROVE  RideIInv'
<1>1. PICK t \in Dt : clock' = On(1, t)
  BY DEF BeginTick
<1>2. clock' \in ClockOf
  <2>1. CASE 1 > Turns
    BY <1>1, <2>1, TurnsNatural DEF On, Between, ClockOf
  <2>2. CASE ~(1 > Turns)
    <3>1. clock' = [turn |-> 1, dt |-> t, left |-> t, doors |-> 1 > Len(Crew)]
      BY <1>1, <2>2 DEF On
    <3>2. (1 > Len(Crew)) \in BOOLEAN
      OBVIOUS
    <3>3. \A b \in BOOLEAN : [turn |-> 1, dt |-> t, left |-> t, doors |-> b] \in ClockOf
      BY <2>2, TurnsNatural DEF ClockOf
    <3> QED
      BY <3>1, <3>2, <3>3, Zenon
  <2> QED
    BY <2>1, <2>2
<1> QED
  BY <1>2, StillKeepsPlaces DEF BeginTick

\* Every step of workers and cabs keeps the workers' places in order.
THEOREM RideInvariance == Spec => []RideIInv
<1>1. RideIInv /\ [Next]_vars => RideIInv'
  <2> SUFFICES ASSUME RideIInv, [Next]_vars PROVE RideIInv'
    OBVIOUS
  <2>1. CASE BeginTick
    BY <2>1, BeginTickRides
  <2>2. CASE \E w \in Worker : WorkerTurn(w)
    BY <2>2, WorkerTurnRides
  <2>3. ASSUME NEW c \in Lift,
               Doors(c) \/ Pick(c) \/ TurnBack(c) \/ Stall(c) \/ Stop(c) \/ Spent(c)
        PROVE  RideIInv'
    BY <2>3, StepRides, StopRides
  <2>4. CASE UNCHANGED vars
    <3>1. UNCHANGED <<worker, cab>> /\ clock' \in ClockOf
      BY <2>4 DEF vars, RideIInv, ShapeOK
    <3> QED
      BY <3>1, StillKeepsPlaces
  <2> QED
    BY <2>1, <2>2, <2>3, <2>4 DEF Next
<1> QED
  BY RideInit, <1>1, PTL DEF Spec

\* A worker's level, way and timer, and a cab's stop, direction, doors,
\* passengers and queues stay within their bounds.
THEOREM TypeCorrect == Spec => []TypeOK
<1>1. RideIInv => TypeOK
  <2> SUFFICES ASSUME RideIInv PROVE TypeOK
    OBVIOUS
  <2>1. worker \in [Worker -> Traveller] /\ DOMAIN cab = Lift /\ clock \in ClockOf
    BY DEF RideIInv, ShapeOK
  <2>2. ASSUME NEW c \in Lift
        PROVE  /\ Serves[c] # {} => cab[c].at \in Serves[c]
               /\ cab[c].dir \in {-1, 0, 1}
               /\ cab[c].doors \in 0..Dwell /\ cab[c].riders \subseteq Worker
               /\ cab[c].queue \in [Serves[c] -> Seq(Worker)]
    <3>1. Serves[c] # {} => Min(Serves[c]) \in Serves[c]
      BY LiftConnects, MinLevel
    <3> QED
      BY <3>1 DEF RideIInv, ShapeOK, CabOf
  <2>3. \A w \in Worker : worker[w].state = "free" => worker[w].conn = None
    BY DEF RideIInv, RoutesOK
  <2> QED
    BY <2>1, <2>2, <2>3 DEF TypeOK, Traveller, ClockOf
<1> QED
  BY <1>1, RideInvariance, PTL

\* Where a worker stands in the queues of an elevator, as EachRiderOnce counts it.
PlacesOf(w, c) == {p \in Serves[c] \X (1..Cardinality(Worker)) :
                     p[2] <= Len(cab[c].queue[p[1]]) /\ cab[c].queue[p[1]][p[2]] = w}

\* One place for whoever goes by the elevator, none for others.
LEMMA OnePlace ==
  ASSUME RideIInv, NEW w \in Worker, NEW c \in Lift
  PROVE  LET goes == worker[w].state = "traversing" /\ worker[w].conn = c IN
         /\ Cardinality(PlacesOf(w, c)) + Cardinality({w} \cap cab[c].riders)
              = IF goes THEN 1 ELSE 0
         /\ \A p \in PlacesOf(w, c) : p[1] = worker[w].at
<1> DEFINE goes == worker[w].state = "traversing" /\ worker[w].conn = c
           n == Cardinality(Worker)
           at == worker[w].at
<1>1. n \in Nat
  BY FiniteCrew, FS_CardinalityType
<1> HIDE DEF n
\* A place that counts is one that the worker stands at, in order.
<1>2. ASSUME NEW p \in PlacesOf(w, c)
      PROVE  /\ p[1] = at /\ p[2] \in 1..Len(cab[c].queue[at]) /\ p = <<at, p[2]>>
             /\ cab[c].queue[at][p[2]] = w /\ goes /\ w \notin cab[c].riders
  <2>1. /\ p[1] \in Serves[c] /\ p[2] \in 1..n /\ p = <<p[1], p[2]>>
        /\ p[2] <= Len(cab[c].queue[p[1]]) /\ cab[c].queue[p[1]][p[2]] = w
    BY DEF PlacesOf, n
  <2>2. cab[c].queue[p[1]] \in Seq(Worker)
    BY <2>1 DEF RideIInv, ShapeOK, CabOf
  <2>3. p[2] \in 1..Len(cab[c].queue[p[1]])
    BY <1>1, <2>1, <2>2
  <2>4. InLine(w, c, p[1])
    BY <2>1, <2>3 DEF RideIInv, QueuesOK
  <2> QED
    BY <2>1, <2>3, <2>4 DEF InLine
<1>3. \A i, j \in 1..Len(cab[c].queue[at]) :
        goes /\ cab[c].queue[at][i] = w /\ cab[c].queue[at][j] = w => i = j
  <2> SUFFICES ASSUME goes PROVE \A i, j \in 1..Len(cab[c].queue[at]) :
                  cab[c].queue[at][i] = w /\ cab[c].queue[at][j] = w => i = j
    OBVIOUS
  <2>1. at \in Serves[c]
    BY DEF RideIInv, RoutesOK
  <2> HIDE DEF at
  <2> QED
    BY <2>1 DEF RideIInv, QueuesOK
<1>4. CASE goes /\ w \in cab[c].riders
  <2>1. PlacesOf(w, c) = {} /\ {w} \cap cab[c].riders = {w}
    BY <1>2, <1>4
  <2>2. Cardinality(PlacesOf(w, c)) = 0 /\ Cardinality({w} \cap cab[c].riders) = 1
    BY <2>1, FS_EmptySet, FS_Singleton
  <2>3. \A p \in PlacesOf(w, c) : p[1] = at
    BY <1>2
  <2> QED
    BY <1>4, <2>2, <2>3
<1>5. CASE goes /\ w \notin cab[c].riders
  <2>1. at \in Serves[c] /\ Waits(w, c, at)
    BY <1>5 DEF RideIInv, RoutesOK, TravellersOK
  <2>2. PICK i \in 1..Len(cab[c].queue[at]) : cab[c].queue[at][i] = w
    BY <2>1 DEF Waits
  <2>3. cab[c].queue[at] \in Seq(Worker)
    BY <2>1 DEF RideIInv, ShapeOK, CabOf
  <2> HIDE DEF at
  <2>4. \A h, j \in 1..Len(cab[c].queue[at]) :
          cab[c].queue[at][h] = cab[c].queue[at][j] => h = j
    BY <2>1 DEF RideIInv, QueuesOK
  <2>5. Len(cab[c].queue[at]) <= n /\ Len(cab[c].queue[at]) \in Nat
    BY <2>3, <2>4, QueueWithinCrew DEF n
  <2>6. i \in 1..n
    BY <1>1, <2>5
  <2>7. <<at, i>> \in PlacesOf(w, c)
    BY <2>1, <2>2, <2>6 DEF PlacesOf, n
  <2>8. PlacesOf(w, c) = {<<at, i>>}
    <3>1. ASSUME NEW p \in PlacesOf(w, c) PROVE p = <<at, i>>
      <4>1. /\ p[2] \in 1..Len(cab[c].queue[at]) /\ p = <<at, p[2]>>
            /\ cab[c].queue[at][p[2]] = w
        BY <1>2
      <4>2. p[2] = i
        BY <4>1, <1>3, <1>5, <2>2
      <4> QED
        BY <4>1, <4>2
    <3> QED
      BY <3>1, <2>7
  <2>9. {w} \cap cab[c].riders = {}
    BY <1>5
  <2>10. Cardinality(PlacesOf(w, c)) = 1 /\ Cardinality({w} \cap cab[c].riders) = 0
    BY <2>8, <2>9, FS_EmptySet, FS_Singleton
  <2>11. \A p \in PlacesOf(w, c) : p[1] = at
    BY <1>2
  <2> QED
    BY <1>5, <2>10, <2>11 DEF at
<1>6. CASE ~goes
  <2>1. w \notin cab[c].riders
    BY <1>6 DEF RideIInv, RidersOK
  <2>2. PlacesOf(w, c) = {} /\ {w} \cap cab[c].riders = {}
    BY <1>2, <1>6, <2>1
  <2>3. Cardinality(PlacesOf(w, c)) = 0 /\ Cardinality({w} \cap cab[c].riders) = 0
    BY <2>2, FS_EmptySet
  <2>4. \A p \in PlacesOf(w, c) : p[1] = at
    BY <1>2
  <2> QED
    BY <1>6, <2>3, <2>4
<1> QED
  BY <1>4, <1>5, <1>6

\* However many workers queue, board, ride, leave and change at the levels of
\* however many elevators, a worker who goes by elevator is once in the queue of
\* its level or in the cab, no cab has more passengers than seats, and nobody
\* else is in a queue or a cab.
THEOREM RidersAreOnce == Spec => []EachRiderOnce
<1>1. RideIInv => EachRiderOnce
  <2> SUFFICES ASSUME RideIInv PROVE EachRiderOnce
    OBVIOUS
  <2>1. \A c \in Lift : Cardinality(cab[c].riders) <= Seats[c]
    BY DEF RideIInv, RidersOK
  <2> QED
    BY <2>1, OnePlace, Zenon DEF EachRiderOnce, PlacesOf
<1> QED
  BY <1>1, RideInvariance, PTL

-----------------------------------------------------------------------------
(* A cab that is wanted is on its way *)

\* The turn that follows: the tick is over, or the next one begins with time left.
LEMMA NextTurnClock ==
  ASSUME ShapeOK, clock.turn \in 1..Turns, clock.dt \in Dt, NextTurn
  PROVE  \/ clock.turn = Turns /\ clock'.turn = 0
         \/ /\ clock.turn < Turns /\ clock'.turn = clock.turn + 1
            /\ clock'.dt \in Dt /\ clock'.left > 0
<1>1. CASE clock.turn + 1 > Turns
  <2>1. clock' = Between
    BY <1>1 DEF NextTurn, On
  <2> QED
    BY <2>1, <1>1, TurnsNatural DEF Between
<1>2. CASE ~(clock.turn + 1 > Turns)
  <2>1. clock' = [turn |-> clock.turn + 1, dt |-> clock.dt,
                  left |-> clock.dt, doors |-> clock.turn + 1 > Len(Crew)]
    BY <1>2 DEF NextTurn, On
  <2>2. \A t \in Dt : t > 0
    OBVIOUS
  <2>3. clock'.turn = clock.turn + 1 /\ clock'.dt = clock.dt /\ clock'.left = clock.dt
    BY <2>1
  <2>4. clock.turn < Turns
    BY <1>2, TurnsNatural
  <2> QED
    BY <2>2, <2>3, <2>4
<1> QED
  BY <1>1, <1>2

\* Only the cab at Shafts[clock.turn - Len(Crew)] has its turn.
LEMMA TurnOf ==
  ASSUME NEW i \in 1..Len(Shafts), NEW c \in Lift, CabTurn(c),
         i # clock.turn - Len(Crew), clock.turn \in 1..Turns
  PROVE  Shafts[i] # c
<1>1. /\ c = Shafts[clock.turn - Len(Crew)]
      /\ clock.turn - Len(Crew) \in 1..Len(Shafts)
  BY TurnsNatural DEF CabTurn, Turns
<1>2. DOMAIN Shafts = 1..Len(Shafts)
  OBVIOUS
<1> QED
  BY <1>1, <1>2 DEF IsInjective

\* Wishes are known by queues and passengers.
LEMMA SameDemand ==
  ASSUME NEW c, cab'[c].riders = cab[c].riders, cab'[c].queue = cab[c].queue
  PROVE  Demand(c)' <=> Demand(c)
BY DEF Demand, Called

RestsEmpty(c) == cab[c].dir = 0 => cab[c].riders = {} /\ cab[c].doors = 0

\* A cab whose turn ends is on its way if it is wanted.
LEMMA TurnEnds ==
  ASSUME IInv, NEW c \in Lift, CabTurn(c), NextTurn,
         \A b \in Lift \ {c} : cab'[b] = cab[b],
         RestsEmpty(c)', Demand(c)' => cab'[c].dir # 0
  PROVE  (CabsOK /\ TurnsOK)'
<1>1. ShapeOK /\ clock.turn \in 1..Turns /\ clock.turn > Len(Crew) /\ clock.dt \in Dt
  BY CabTurnClock, TurnsNatural DEF IInv, RideIInv, TurnsOK
<1>2. \/ clock.turn = Turns /\ clock'.turn = 0
      \/ /\ clock.turn < Turns /\ clock'.turn = clock.turn + 1
         /\ clock'.dt \in Dt /\ clock'.left > 0
  BY <1>1, NextTurnClock
<1>3. CabsOK'
  <2> SUFFICES ASSUME NEW b \in Lift
               PROVE  RestsEmpty(b)' /\ (CabTurn(b)' => clock'.left > 0)
    BY DEF CabsOK, RestsEmpty
  <2>1. RestsEmpty(b)'
    <3>1. CASE b # c
      <4>1. cab'[b] = cab[b] /\ RestsEmpty(b)
        BY <3>1 DEF IInv, CabsOK, RestsEmpty
      <4> QED
        BY <4>1 DEF RestsEmpty
    <3> QED
      BY <3>1
  <2>2. CabTurn(b)' => clock'.turn > 0
    <3>1. clock'.turn \in Int
      BY <1>1, <1>2, TurnsNatural
    <3> QED
      BY <3>1, TurnsNatural DEF CabTurn
  <2> QED
    BY <2>1, <2>2, <1>2
<1>4. TurnsOK'
  <2> SUFFICES ASSUME NEW i \in 1..Len(Shafts), Served(i)', Demand(Shafts[i])'
               PROVE  cab'[Shafts[i]].dir # 0
    BY <1>2 DEF TurnsOK
  <2>1. i <= clock.turn - Len(Crew)
    BY <1>1, <1>2, TurnsNatural DEF Served, Turns
  <2>2. CASE i = clock.turn - Len(Crew)
    BY <2>2 DEF CabTurn
  <2>3. CASE i # clock.turn - Len(Crew)
    <3>1. Shafts[i] # c /\ Shafts[i] \in Lift
      BY <2>3, <1>1, TurnOf, RangeIs
    <3>2. cab'[Shafts[i]] = cab[Shafts[i]]
      BY <3>1
    <3>3. Served(i)
      BY <2>1, <2>3, <1>1, TurnsNatural DEF Served
    <3>4. Demand(Shafts[i])
      BY <3>2, SameDemand
    <3> QED
      BY <3>2, <3>3, <3>4 DEF IInv, TurnsOK
  <2> QED
    BY <2>2, <2>3
<1> QED
  BY <1>3, <1>4

\* While its turn goes on, a cab that rests has time left.
LEMMA TurnGoesOn ==
  ASSUME IInv, NEW c \in Lift, CabTurn(c),
         clock'.turn = clock.turn, clock'.dt = clock.dt,
         \A b \in Lift \ {c} : cab'[b] = cab[b],
         RestsEmpty(c)', clock'.doors \/ cab'[c].dir = 0 => clock'.left > 0
  PROVE  (CabsOK /\ TurnsOK)'
<1>1. ShapeOK /\ clock.turn \in 1..Turns /\ clock.turn > Len(Crew)
  BY CabTurnClock DEF IInv, RideIInv
<1>2. CabsOK'
  <2> SUFFICES ASSUME NEW b \in Lift
               PROVE  /\ RestsEmpty(b)'
                      /\ CabTurn(b)' /\ (clock'.doors \/ cab'[b].dir = 0) => clock'.left > 0
    BY DEF CabsOK, RestsEmpty
  <2>1. CASE b = c
    BY <2>1
  <2>2. CASE b # c
    <3>1. RestsEmpty(b)'
      BY <2>2 DEF IInv, CabsOK, RestsEmpty
    <3>2. ~CabTurn(b)'
      BY <2>2 DEF CabTurn
    <3> QED
      BY <3>1, <3>2
  <2> QED
    BY <2>1, <2>2
<1>3. TurnsOK'
  <2>1. clock'.turn # 0 => clock'.dt \in Dt
    BY DEF IInv, TurnsOK
  <2> SUFFICES ASSUME NEW i \in 1..Len(Shafts), Served(i)', Demand(Shafts[i])'
               PROVE  cab'[Shafts[i]].dir # 0
    BY <2>1 DEF TurnsOK
  <2>2. i < clock.turn - Len(Crew) /\ Served(i)
    BY <1>1, TurnsNatural DEF Served
  <2>3. Shafts[i] # c /\ Shafts[i] \in Lift
    <3>1. i # clock.turn - Len(Crew)
      BY <2>2, <1>1, TurnsNatural
    <3> QED
      BY <3>1, <1>1, TurnOf, RangeIs
  <2>4. cab'[Shafts[i]] = cab[Shafts[i]]
    BY <2>3
  <2>5. Demand(Shafts[i])
    BY <2>4, SameDemand
  <2> QED
    BY <2>2, <2>4, <2>5 DEF IInv, TurnsOK
<1> QED
  BY <1>2, <1>3

\* Before the cabs' turns nobody has to move.
LEMMA CabsWait ==
  ASSUME IInv,
         \A c \in Lift : /\ cab'[c].dir = cab[c].dir /\ cab'[c].riders = cab[c].riders
                         /\ cab'[c].doors = cab[c].doors,
         \/ clock'.turn = 0 /\ Len(Shafts) = 0
         \/ clock'.turn \in 1..Len(Crew) + 1 /\ clock'.dt \in Dt /\ clock'.left > 0
  PROVE  (CabsOK /\ TurnsOK)'
<1>1. CabsOK'
  <2> SUFFICES ASSUME NEW b \in Lift
               PROVE  RestsEmpty(b)' /\ (CabTurn(b)' => clock'.left > 0)
    BY DEF CabsOK, RestsEmpty
  <2>1. RestsEmpty(b)'
    BY DEF IInv, CabsOK, RestsEmpty
  <2>2. CabTurn(b)' => clock'.turn > 0
    BY TurnsNatural DEF CabTurn
  <2> QED
    BY <2>1, <2>2
<1>2. \A i \in 1..Len(Shafts) : ~Served(i)'
  BY TurnsNatural DEF Served
<1> QED
  BY <1>1, <1>2 DEF TurnsOK

LEMMA DoorsMoves ==
  ASSUME IInv, NEW c \in Lift, Doors(c)
  PROVE  (CabsOK /\ TurnsOK)'
<1>1. ShapeOK /\ CabTurn(c) /\ clock.doors /\ clock.left > 0 /\ RestsEmpty(c)
  BY DEF IInv, RideIInv, CabsOK, RestsEmpty, Doors
<1>2. /\ Steers(c, IF DoorsShut(c) THEN 0 ELSE cab[c].dir, cab[c].doors - DoorsOpen(c))
      /\ DoorsOpen(c) \in 0..clock.left /\ DoorsOpen(c) \in 0..cab[c].doors
      /\ cab[c].doors \in 0..Dwell
  BY <1>1, DoorsSteers
<1>3. /\ \A b \in Lift \ {c} : cab'[b] = cab[b]
      /\ cab'[c].dir = (IF DoorsShut(c) THEN 0 ELSE cab[c].dir)
      /\ cab'[c].doors = cab[c].doors - DoorsOpen(c)
      /\ cab'[c].riders = cab[c].riders /\ cab'[c].queue = cab[c].queue
  BY <1>2 DEF Steers
<1>4. CASE DoorsShut(c)
  <2>1. ~Demand(c) /\ cab[c].doors = DoorsOpen(c)
    BY <1>4 DEF DoorsShut
  <2>2. NextTurn
    BY <1>4 DEF Doors, DoorsShut, DoorsOpen
  <2>3. ~Demand(c)' /\ cab'[c].riders = {}
    BY <1>3, <2>1, SameDemand DEF Demand
  <2>4. RestsEmpty(c)'
    BY <1>2, <1>3, <2>1, <2>3 DEF RestsEmpty
  <2> QED
    BY <1>1, <1>3, <2>2, <2>3, <2>4, TurnEnds
<1>5. CASE ~DoorsShut(c)
  <2>1. clock' = [clock EXCEPT !.left = clock.left - DoorsOpen(c), !.doors = FALSE]
    BY <1>5 DEF Doors, DoorsShut, DoorsOpen
  <2>2. clock \in ClockOf /\ clock.left \in Nat
    BY <1>1, ClockNatural DEF ShapeOK
  <2>3. /\ clock'.turn = clock.turn /\ clock'.dt = clock.dt /\ ~clock'.doors
        /\ clock'.left = clock.left - DoorsOpen(c)
    BY <2>1, <2>2 DEF ClockOf
  <2>4. cab'[c].dir = cab[c].dir
    BY <1>3, <1>5
  \* A cab that rests has its doors shut, and loses no time on them.
  <2>5. cab'[c].dir = 0 => /\ cab[c].riders = {} /\ cab[c].doors = 0
                           /\ DoorsOpen(c) = 0
    BY <1>1, <1>2, <2>4 DEF RestsEmpty
  <2>6. RestsEmpty(c)'
    BY <1>3, <2>5 DEF RestsEmpty
  <2>7. cab'[c].dir = 0 => clock'.left > 0
    BY <1>1, <2>2, <2>3, <2>5
  <2> QED
    BY <1>1, <1>3, <2>3, <2>6, <2>7, TurnGoesOn
<1> QED
  BY <1>4, <1>5

\* A cab at rest that finds no direction is not called, and nobody is in it.
LEMMA PickMoves ==
  ASSUME IInv, NEW c \in Lift, Pick(c)
  PROVE  (CabsOK /\ TurnsOK)'
<1>1. /\ ShapeOK /\ CabTurn(c) /\ ~clock.doors /\ clock.left > 0 /\ cab[c].dir = 0
      /\ cab[c].riders = {} /\ cab[c].doors = 0
  BY DEF IInv, RideIInv, CabsOK, Pick, Moving
<1>2. PICK d \in Picked(c) : /\ d \in {-1, 0, 1} /\ Steers(c, d, cab[c].doors)
                             /\ IF d = 0 THEN NextTurn ELSE UNCHANGED clock
  BY <1>1, PickSteers
<1>3. /\ \A b \in Lift \ {c} : cab'[b] = cab[b]
      /\ cab'[c].dir = d /\ cab'[c].doors = 0
      /\ cab'[c].riders = {} /\ cab'[c].riders = cab[c].riders
      /\ cab'[c].queue = cab[c].queue
  BY <1>1, <1>2 DEF Steers
<1>4. RestsEmpty(c)'
  BY <1>3 DEF RestsEmpty
<1>5. CASE d = 0
  <2>1. Called(c) = {}
    BY <1>2, <1>5 DEF Picked
  <2>2. ~Demand(c)'
    BY <1>1, <1>3, <2>1, SameDemand DEF Demand
  <2> QED
    BY <1>1, <1>2, <1>3, <1>4, <1>5, <2>2, TurnEnds
<1>6. CASE d # 0
  BY <1>1, <1>2, <1>3, <1>4, <1>6, TurnGoesOn
<1> QED
  BY <1>5, <1>6

LEMMA TurnBackMoves ==
  ASSUME IInv, NEW c \in Lift, TurnBack(c)
  PROVE  (CabsOK /\ TurnsOK)'
<1>1. ShapeOK /\ CabTurn(c) /\ ~clock.doors
  BY DEF IInv, RideIInv, TurnBack, Moving
<1>2. Steers(c, -cab[c].dir, cab[c].doors) /\ -cab[c].dir # 0 /\ UNCHANGED clock
  BY <1>1, TurnBackSteers
<1>3. (\A b \in Lift \ {c} : cab'[b] = cab[b]) /\ cab'[c].dir # 0
  BY <1>2 DEF Steers
<1>4. RestsEmpty(c)'
  BY <1>3 DEF RestsEmpty
<1> QED
  BY <1>1, <1>2, <1>3, <1>4, TurnGoesOn

\* A turn that ends for want of time ends on the way.
LEMMA WaitMoves ==
  ASSUME IInv, NEW c \in Lift, Stall(c) \/ Spent(c)
  PROVE  (CabsOK /\ TurnsOK)'
<1>1. CabTurn(c) /\ NextTurn /\ worker' = worker /\ cab' = cab /\ RestsEmpty(c)
  BY DEF IInv, CabsOK, RestsEmpty, Stall, Spent, Moving
<1>2. cab[c].dir # 0
  BY ClockNatural DEF IInv, RideIInv, CabsOK, Stall, Spent
<1> QED
  BY <1>1, <1>2, TurnEnds DEF RestsEmpty

\* A cab that comes to rest at a stop has nobody in it and nobody waiting.
LEMMA StopMoves ==
  ASSUME IInv, NEW c \in Lift, Stop(c)
  PROVE  (CabsOK /\ TurnsOK)'
<1>1. /\ RideIInv /\ ShapeOK /\ CabTurn(c) /\ ~clock.doors /\ cab[c].dir # 0
  BY StopUnfolds DEF IInv, RideIInv
<1>2. /\ \A b \in Lift \ {c} : cab'[b] = cab[b]
      /\ cab'[c].dir = IF Idles(c) THEN 0 ELSE cab[c].dir
      /\ NewCab(c).doors = cab'[c].doors /\ NewCab(c).riders = cab'[c].riders
      /\ NewCab(c).queue = cab'[c].queue
  BY <1>1, StopCab
<1>3. CASE Idles(c)
  <2>1. cab'[c].doors = 0 /\ cab'[c].riders = {} /\ \A k \in Serves[c] : cab'[c].queue[k] = <<>>
    BY <1>2, <1>3 DEF Idles, Unwanted
  <2>2. ~Demand(c)' /\ RestsEmpty(c)'
    BY <2>1 DEF Demand, Called, RestsEmpty
  <2>3. NextTurn
    BY <1>3, StopUnfolds
  <2> QED
    BY <1>1, <1>2, <2>2, <2>3, TurnEnds
<1>4. CASE ~Idles(c)
  <2>1. cab'[c].dir # 0
    BY <1>1, <1>2, <1>4
  <2>2. clock' = [clock EXCEPT !.left = Spare(c) - OpenFor(c)] /\ clock \in ClockOf
    BY <1>1, <1>4, StopUnfolds DEF ShapeOK
  <2>3. clock'.turn = clock.turn /\ clock'.dt = clock.dt /\ ~clock'.doors
    BY <1>1, <2>2 DEF ClockOf
  <2>4. RestsEmpty(c)'
    BY <2>1 DEF RestsEmpty
  <2> QED
    BY <1>1, <1>2, <2>1, <2>3, <2>4, TurnGoesOn
<1> QED
  BY <1>3, <1>4

LEMMA WorkerTurnMoves ==
  ASSUME IInv, NEW w \in Worker, WorkerTurn(w)
  PROVE  (CabsOK /\ TurnsOK)'
<1>1. /\ ShapeOK /\ RoutesOK /\ clock.turn \in 1..Len(Crew) /\ NextTurn
      /\ clock.turn \in 1..Turns /\ clock.dt \in Dt
  BY TurnsNatural DEF IInv, RideIInv, TurnsOK, WorkerTurn, Turns
<1>2. \/ clock.turn = Turns /\ clock'.turn = 0
      \/ /\ clock.turn < Turns /\ clock'.turn = clock.turn + 1
         /\ clock'.dt \in Dt /\ clock'.left > 0
  BY <1>1, NextTurnClock
<1>3. \/ clock'.turn = 0 /\ Len(Shafts) = 0
      \/ clock'.turn \in 1..Len(Crew) + 1 /\ clock'.dt \in Dt /\ clock'.left > 0
  BY <1>1, <1>2, TurnsNatural DEF Turns
<1>4. \A c \in Lift : /\ cab'[c].dir = cab[c].dir /\ cab'[c].riders = cab[c].riders
                      /\ cab'[c].doors = cab[c].doors
  <2>1. CASE JoinQueue(w)
    <3>1. PICK c \in Lift : /\ \A d \in Lift \ {c} : cab'[d] = cab[d]
                            /\ cab'[c].riders = cab[c].riders /\ cab'[c].dir = cab[c].dir
                            /\ cab'[c].doors = cab[c].doors
      BY <1>1, <2>1, JoinShape
    <3> QED
      BY <3>1
  <2>2. CASE ~JoinQueue(w)
    <3>1. cab' = cab
      BY <2>2 DEF WorkerTurn, Carry, SetOut, BeginClimb, KeepClimbing
    <3> QED
      BY <3>1
  <2> QED
    BY <2>1, <2>2
<1> QED
  BY <1>3, <1>4, CabsWait

LEMMA BeginTickMoves ==
  ASSUME IInv, BeginTick
  PROVE  (CabsOK /\ TurnsOK)'
<1>1. PICK t \in Dt : clock' = On(1, t)
  BY DEF BeginTick
<1>2. \A s \in Dt : s > 0
  OBVIOUS
<1>3. \/ clock'.turn = 0 /\ Len(Shafts) = 0
      \/ clock'.turn \in 1..Len(Crew) + 1 /\ clock'.dt \in Dt /\ clock'.left > 0
  <2>1. CASE 1 > Turns
    <3>1. clock'.turn = 0
      BY <1>1, <2>1 DEF On, Between
    <3> QED
      BY <3>1, <2>1, TurnsNatural DEF Turns
  <2>2. CASE ~(1 > Turns)
    <3>1. clock' = [turn |-> 1, dt |-> t, left |-> t, doors |-> 1 > Len(Crew)]
      BY <1>1, <2>2 DEF On
    <3> QED
      BY <3>1, <1>2, TurnsNatural
  <2> QED
    BY <2>1, <2>2
<1>4. cab' = cab
  BY DEF BeginTick
<1> QED
  BY <1>3, <1>4, CabsWait

LEMMA MoveInit == Init => CabsOK /\ TurnsOK
<1> SUFFICES ASSUME Init PROVE CabsOK /\ TurnsOK
  OBVIOUS
<1>1. \A c \in Lift : /\ cab[c].dir = 0 /\ cab[c].doors = 0 /\ cab[c].riders = {}
                      /\ \A l \in Serves[c] : cab[c].queue[l] = <<>>
  BY DEF Init
<1>2. clock.turn = 0 /\ clock.doors = FALSE
  BY DEF Init, Between
<1>3. CabsOK
  BY <1>1, <1>2, TurnsNatural DEF CabsOK, CabTurn
<1>4. \A c \in Lift : ~Demand(c)
  BY <1>1 DEF Demand, Called
<1>5. TurnsOK
  BY <1>2, <1>4, RangeIs DEF TurnsOK
<1> QED
  BY <1>3, <1>5

\* A tick that ends leaves no cab at rest that somebody calls or rides in: one
\* that rests is empty, and picks a direction in its turn if it is called.
THEOREM WantedCabsMove == Spec => []WantedCabMoves
<1>1. Init => CabsOK /\ TurnsOK
  BY MoveInit
<1>2. RideIInv /\ CabsOK /\ TurnsOK /\ [Next]_vars => (CabsOK /\ TurnsOK)'
  <2> SUFFICES ASSUME IInv, [Next]_vars PROVE (CabsOK /\ TurnsOK)'
    BY DEF IInv
  <2>1. CASE BeginTick
    BY <2>1, BeginTickMoves
  <2>2. CASE \E w \in Worker : WorkerTurn(w)
    BY <2>2, WorkerTurnMoves
  <2>3. ASSUME NEW c \in Lift,
               Doors(c) \/ Pick(c) \/ TurnBack(c) \/ Stall(c) \/ Stop(c) \/ Spent(c)
        PROVE  (CabsOK /\ TurnsOK)'
    BY <2>3, DoorsMoves, PickMoves, TurnBackMoves, WaitMoves, StopMoves
  <2>4. CASE UNCHANGED vars
    <3>1. cab' = cab /\ clock' = clock
      BY <2>4 DEF vars
    <3>2. CabsOK'
      BY <3>1 DEF IInv, CabsOK, CabTurn
    <3>3. TurnsOK'
      BY <3>1 DEF IInv, TurnsOK, Served, Demand, Called
    <3> QED
      BY <3>2, <3>3
  <2> QED
    BY <2>1, <2>2, <2>3, <2>4 DEF Next
<1>3. TurnsOK => WantedCabMoves
  <2> SUFFICES ASSUME TurnsOK, clock.turn = 0, NEW c \in Lift, Demand(c)
               PROVE  cab[c].dir # 0
    BY DEF WantedCabMoves
  <2>1. PICK i \in 1..Len(Shafts) : Shafts[i] = c
    BY RangeIs
  <2> QED
    BY <2>1 DEF TurnsOK, Served
<1> QED
  BY <1>1, <1>2, <1>3, RideInvariance, PTL DEF Spec

HIDE TransportAssumption

-----------------------------------------------------------------------------
(* Sums over finite sets                                                      *)

Some(T) == CHOOSE x \in T : TRUE

\* What the recursive function in a sum is.
SumsOf(f, S, g) == g = [T \in SUBSET S |-> IF T = {} THEN 0 ELSE f[Some(T)] + g[T \ {Some(T)}]]

LEMMA SumIs ==
  ASSUME NEW f, NEW S
  PROVE  SumFunctionOnSet(f, S) = (CHOOSE g : SumsOf(f, S, g))[S]
BY DEF SumFunctionOnSet, FoldFunctionOnSet, MapThenFoldSet, SumsOf, Some

LEMMA SomeIn == ASSUME NEW T, T # {} PROVE Some(T) \in T
BY DEF Some

LEMMA Smaller ==
  ASSUME NEW T, IsFiniteSet(T), T # {}
  PROVE  /\ IsFiniteSet(T \ {Some(T)}) /\ T \ {Some(T)} \in SUBSET T
         /\ Cardinality(T) \in Nat /\ Cardinality(T \ {Some(T)}) \in Nat
         /\ Cardinality(T \ {Some(T)}) < Cardinality(T)
<1>1. Some(T) \in T
  BY SomeIn
<1>2. /\ IsFiniteSet(T \ {Some(T)})
      /\ Cardinality(T \ {Some(T)}) = Cardinality(T) - 1
  BY <1>1, FS_RemoveElement
<1>3. Cardinality(T) \in Nat
  BY FS_CardinalityType
<1>4. Cardinality(T \ {Some(T)}) \in Nat
  BY <1>2, FS_CardinalityType
<1> QED
  BY <1>2, <1>3, <1>4

LEMMA SumsUnique ==
  ASSUME NEW f, NEW S, IsFiniteSet(S), NEW g, SumsOf(f, S, g), NEW h, SumsOf(f, S, h)
  PROVE  g = h
<1> DEFINE bad == {T \in SUBSET S : g[T] # h[T]}
           sizes == {Cardinality(T) : T \in bad}
<1>1. ASSUME NEW T \in SUBSET S PROVE IsFiniteSet(T) /\ Cardinality(T) \in Nat
  BY FS_Subset, FS_CardinalityType
<1>2. bad = {}
  <2> SUFFICES ASSUME bad # {} PROVE FALSE
    OBVIOUS
  <2>1. sizes # {} /\ sizes \in SUBSET Nat
    BY <1>1
  <2>2. PICK n \in sizes : \A k \in sizes : n <= k
    BY <2>1, LeastNatural
  <2>3. PICK T \in bad : n = Cardinality(T)
    BY <2>2
  <2>4. T # {}
    BY <2>3 DEF SumsOf
  <2> DEFINE U == T \ {Some(T)}
  <2>5. U \in SUBSET S /\ Cardinality(U) < n /\ n \in Nat /\ Cardinality(U) \in Nat
    BY <2>3, <2>4, <1>1, Smaller
  <2>6. U \notin bad
    <3> SUFFICES ASSUME U \in bad PROVE FALSE
      OBVIOUS
    <3>1. Cardinality(U) \in sizes
      OBVIOUS
    <3>2. n <= Cardinality(U)
      BY <3>1, <2>2
    <3> QED
      BY <3>2, <2>5
  <2>7. g[U] = h[U]
    BY <2>5, <2>6
  <2>8. g[T] = f[Some(T)] + g[U] /\ h[T] = f[Some(T)] + h[U]
    BY <2>3, <2>4 DEF SumsOf
  <2> QED
    BY <2>3, <2>7, <2>8
<1>3. \A T \in SUBSET S : g[T] = h[T]
  BY <1>2
<1>4. g = [T \in SUBSET S |-> g[T]] /\ h = [T \in SUBSET S |-> h[T]]
  BY DEF SumsOf
<1> QED
  BY <1>3, <1>4

LEMMA SumsRestrict ==
  ASSUME NEW f, NEW S, NEW R \in SUBSET S, NEW g, SumsOf(f, S, g),
         NEW h, h = [T \in SUBSET R |-> g[T]]
  PROVE  SumsOf(f, R, h)
<1>1. ASSUME NEW T \in SUBSET R
      PROVE  h[T] = IF T = {} THEN 0 ELSE f[Some(T)] + h[T \ {Some(T)}]
  <2>1. T \in SUBSET S /\ T \ {Some(T)} \in SUBSET R
    OBVIOUS
  <2>2. g[T] = IF T = {} THEN 0 ELSE f[Some(T)] + g[T \ {Some(T)}]
    BY <2>1 DEF SumsOf
  <2> QED
    BY <2>1, <2>2
<1>2. h = [T \in SUBSET R |-> IF T = {} THEN 0 ELSE f[Some(T)] + h[T \ {Some(T)}]]
  BY <1>1
<1> QED
  BY <1>2 DEF SumsOf

\* The sum over a set exists if those over its smaller subsets do.
LEMMA SumsStep ==
  ASSUME NEW f, NEW S, IsFiniteSet(S),
         \A U \in SUBSET S : U # S => \E g : SumsOf(f, U, g)
  PROVE  \E g : SumsOf(f, S, g)
<1> DEFINE sum(U) == (CHOOSE g : SumsOf(f, U, g))[U]
           G == [T \in SUBSET S |-> IF T = {} THEN 0 ELSE f[Some(T)] + sum(T \ {Some(T)})]
<1>1. ASSUME NEW U \in SUBSET S, U # S
      PROVE  sum(U) = IF U = {} THEN 0 ELSE f[Some(U)] + sum(U \ {Some(U)})
  <2> DEFINE V == U \ {Some(U)}
  <2>1. PICK g : g = CHOOSE h : SumsOf(f, U, h)
    OBVIOUS
  <2>2. SumsOf(f, U, g)
    BY <2>1, <1>1
  <2>3. sum(U) = IF U = {} THEN 0 ELSE f[Some(U)] + g[V]
    BY <2>1, <2>2 DEF SumsOf
  <2>4. ASSUME U # {} PROVE g[V] = sum(V)
    <3>1. V \in SUBSET U /\ V # S /\ V \in SUBSET S /\ IsFiniteSet(V)
      BY <2>4, SomeIn, FS_Subset
    <3>2. PICK k : k = CHOOSE h : SumsOf(f, V, h)
      OBVIOUS
    <3>3. SumsOf(f, V, k)
      BY <3>1, <3>2
    <3>4. PICK r : r = [T \in SUBSET V |-> g[T]]
      OBVIOUS
    <3>5. SumsOf(f, V, r)
      BY <3>1, <3>4, <2>2, SumsRestrict
    <3>6. k = r
      BY <3>1, <3>3, <3>5, SumsUnique
    <3> QED
      BY <3>2, <3>4, <3>6
  <2> QED
    BY <2>3, <2>4
<1>2. ASSUME NEW T \in SUBSET S
      PROVE  G[T] = IF T = {} THEN 0 ELSE f[Some(T)] + G[T \ {Some(T)}]
  <2> SUFFICES ASSUME T # {} PROVE G[T] = f[Some(T)] + G[T \ {Some(T)}]
    OBVIOUS
  <2> DEFINE U == T \ {Some(T)}
  <2>1. U \in SUBSET S /\ U # S
    BY SomeIn
  <2>2. G[U] = sum(U)
    BY <2>1, <1>1
  <2>3. G[T] = f[Some(T)] + sum(U)
    OBVIOUS
  <2> QED
    BY <2>2, <2>3
<1>3. SumsOf(f, S, G)
  <2> HIDE DEF sum
  <2>1. G = [T \in SUBSET S |-> G[T]]
    OBVIOUS
  <2>2. [T \in SUBSET S |-> G[T]]
          = [T \in SUBSET S |-> IF T = {} THEN 0 ELSE f[Some(T)] + G[T \ {Some(T)}]]
    BY <1>2
  <2> HIDE DEF G
  <2> QED
    BY <2>1, <2>2 DEF SumsOf
<1> QED
  BY <1>3

LEMMA SumsExist ==
  ASSUME NEW f, NEW S, IsFiniteSet(S)
  PROVE  \E g : SumsOf(f, S, g)
<1> DEFINE bad == {T \in SUBSET S : ~\E g : SumsOf(f, T, g)}
           sizes == {Cardinality(T) : T \in bad}
<1>1. ASSUME NEW T \in SUBSET S PROVE IsFiniteSet(T) /\ Cardinality(T) \in Nat
  BY FS_Subset, FS_CardinalityType
<1> SUFFICES ASSUME bad # {} PROVE FALSE
  OBVIOUS
<1>2. sizes # {} /\ sizes \in SUBSET Nat
  BY <1>1
<1>3. PICK n \in sizes : \A k \in sizes : n <= k
  BY <1>2, LeastNatural
<1>4. PICK T \in bad : n = Cardinality(T)
  BY <1>3
<1>5. ASSUME NEW U \in SUBSET T, U # T PROVE \E g : SumsOf(f, U, g)
  <2>1. U \in SUBSET S /\ IsFiniteSet(T)
    BY <1>4, <1>1
  <2>2. Cardinality(U) < n /\ Cardinality(U) \in Nat /\ n \in Nat
    BY <1>1, <1>4, <2>1, <1>5, FS_Subset
  <2>3. Cardinality(U) \notin sizes
    BY <2>2, <1>3
  <2> QED
    BY <2>1, <2>3
<1> QED
  BY <1>4, <1>5, <1>1, SumsStep

\* The sum over a set is its chosen element and the rest.
LEMMA SumUnfolds ==
  ASSUME NEW f, NEW S, IsFiniteSet(S)
  PROVE  SumFunctionOnSet(f, S)
           = IF S = {} THEN 0
             ELSE f[Some(S)] + SumFunctionOnSet(f, S \ {Some(S)})
<1>1. PICK g : g = CHOOSE h : SumsOf(f, S, h)
  OBVIOUS
<1>2. SumsOf(f, S, g)
  BY <1>1, SumsExist
<1>3. SumFunctionOnSet(f, S) = g[S]
  BY <1>1, SumIs
<1> SUFFICES ASSUME S # {} PROVE g[S] = f[Some(S)] + SumFunctionOnSet(f, S \ {Some(S)})
  BY <1>3, <1>2 DEF SumsOf
<1> DEFINE V == S \ {Some(S)}
<1>4. V \in SUBSET S /\ IsFiniteSet(V)
  BY FS_Subset
<1>5. PICK k : k = CHOOSE h : SumsOf(f, V, h)
  OBVIOUS
<1>6. SumsOf(f, V, k)
  BY <1>4, <1>5, SumsExist
<1>7. PICK r : r = [T \in SUBSET V |-> g[T]]
  OBVIOUS
<1>8. SumFunctionOnSet(f, V) = g[V]
  <2>1. SumsOf(f, V, r)
    <3> HIDE DEF V
    <3> QED
      BY <1>2, <1>4, <1>7, SumsRestrict
  <2>2. k = r
    BY <1>4, <1>6, <2>1, SumsUnique
  <2> QED
    BY <1>5, <1>7, <2>2, SumIs
<1>9. g[S] = f[Some(S)] + g[V]
  BY <1>2 DEF SumsOf
<1> QED
  BY <1>8, <1>9

LEMMA SumOfNone == ASSUME NEW f PROVE SumFunctionOnSet(f, {}) = 0
BY SumUnfolds, FS_EmptySet

\* Sums of integers are integers, and may be taken in any order.
Additive(f, S) ==
    /\ SumFunctionOnSet(f, S) \in Int
    /\ \A x \in S : SumFunctionOnSet(f, S) = f[x] + SumFunctionOnSet(f, S \ {x})

LEMMA SumStep ==
  ASSUME NEW f, NEW S, IsFiniteSet(S), \A x \in S : f[x] \in Int,
         \A T \in SUBSET S : T # S => Additive(f, T)
  PROVE  Additive(f, S)
<1>1. CASE S = {}
  BY <1>1, SumOfNone DEF Additive
<1>2. CASE S # {}
  <2> DEFINE y == Some(S)
             U == S \ {y}
  <2>1. y \in S /\ U \in SUBSET S /\ U # S
    BY <1>2, SomeIn
  <2>2. SumFunctionOnSet(f, S) = f[y] + SumFunctionOnSet(f, U)
    BY <1>2, SumUnfolds
  <2>3. SumFunctionOnSet(f, U) \in Int /\ f[y] \in Int
    BY <2>1 DEF Additive
  <2>4. ASSUME NEW x \in S, x # y
        PROVE  SumFunctionOnSet(f, S) = f[x] + SumFunctionOnSet(f, S \ {x})
    <3>1. x \in U /\ y \in S \ {x} /\ S \ {x} \in SUBSET S /\ S \ {x} # S
      BY <2>1, <2>4
    <3>2. SumFunctionOnSet(f, U) = f[x] + SumFunctionOnSet(f, U \ {x})
      BY <3>1, <2>1 DEF Additive
    <3>3. SumFunctionOnSet(f, S \ {x}) = f[y] + SumFunctionOnSet(f, (S \ {x}) \ {y})
      BY <3>1 DEF Additive
    <3>4. (S \ {x}) \ {y} = U \ {x}
      OBVIOUS
    <3>5. U \ {x} \in SUBSET S /\ U \ {x} # S
      BY <2>1
    <3>6. SumFunctionOnSet(f, U \ {x}) \in Int
      BY <3>5 DEF Additive
    <3>7. f[x] \in Int
      OBVIOUS
    <3>8. PICK a, b, r : a = f[x] /\ b = f[y] /\ r = SumFunctionOnSet(f, U \ {x})
      OBVIOUS
    <3>9. /\ SumFunctionOnSet(f, S) = b + (a + r)
          /\ SumFunctionOnSet(f, S \ {x}) = b + r
      BY <2>2, <3>2, <3>3, <3>4, <3>8
    <3> QED
      BY ONLY <2>3, <3>6, <3>7, <3>8, <3>9
  <2>5. ASSUME NEW x \in S, x = y
        PROVE  SumFunctionOnSet(f, S) = f[x] + SumFunctionOnSet(f, S \ {x})
    BY <2>2, <2>5
  <2>6. SumFunctionOnSet(f, S) \in Int
    BY <2>2, <2>3
  <2> HIDE DEF y
  <2> QED
    BY <2>4, <2>5, <2>6 DEF Additive
<1> QED
  BY <1>1, <1>2

LEMMA SumTakesOne ==
  ASSUME NEW f, NEW S, IsFiniteSet(S), \A x \in S : f[x] \in Int
  PROVE  /\ SumFunctionOnSet(f, S) \in Int
         /\ \A x \in S : SumFunctionOnSet(f, S) = f[x] + SumFunctionOnSet(f, S \ {x})
<1> DEFINE bad == {T \in SUBSET S : ~Additive(f, T)}
           sizes == {Cardinality(T) : T \in bad}
<1>1. ASSUME NEW T \in SUBSET S PROVE IsFiniteSet(T) /\ Cardinality(T) \in Nat
  BY FS_Subset, FS_CardinalityType
<1>2. bad = {}
  <2> SUFFICES ASSUME bad # {} PROVE FALSE
    OBVIOUS
  <2>1. sizes # {} /\ sizes \in SUBSET Nat
    BY <1>1
  <2>2. PICK n \in sizes : \A k \in sizes : n <= k
    BY <2>1, LeastNatural
  <2>3. PICK T \in bad : n = Cardinality(T)
    BY <2>2
  <2>4. ASSUME NEW U \in SUBSET T, U # T PROVE Additive(f, U)
    <3>1. U \in SUBSET S /\ IsFiniteSet(T)
      BY <2>3, <1>1
    <3>2. Cardinality(U) < n /\ Cardinality(U) \in Nat /\ n \in Nat
      BY <1>1, <2>3, <3>1, <2>4, FS_Subset
    <3>3. Cardinality(U) \notin sizes
      BY <3>2, <2>2
    <3> QED
      BY <3>1, <3>3
  <2>5. IsFiniteSet(T) /\ \A x \in T : f[x] \in Int
    BY <2>3, <1>1
  <2>6. Additive(f, T)
    BY <2>4, <2>5, SumStep
  <2> QED
    BY <2>3, <2>6
<1> QED
  BY <1>2 DEF Additive

LEMMA SumAdds ==
  ASSUME NEW f, NEW S, IsFiniteSet(S), NEW x, x \notin S, \A y \in S \cup {x} : f[y] \in Int
  PROVE  SumFunctionOnSet(f, S \cup {x}) = f[x] + SumFunctionOnSet(f, S)
<1>1. IsFiniteSet(S \cup {x}) /\ (S \cup {x}) \ {x} = S
  BY FS_AddElement
<1> QED
  BY <1>1, SumTakesOne

\* A sum depends on its terms only.
SameSum(f, g, T) == SumFunctionOnSet(f, T) = SumFunctionOnSet(g, T)

LEMMA SumAgrees ==
  ASSUME NEW f, NEW g, NEW S, IsFiniteSet(S), \A x \in S : f[x] = g[x]
  PROVE  SumFunctionOnSet(f, S) = SumFunctionOnSet(g, S)
<1> DEFINE bad == {T \in SUBSET S : ~SameSum(f, g, T)}
           sizes == {Cardinality(T) : T \in bad}
<1>1. ASSUME NEW T \in SUBSET S PROVE IsFiniteSet(T) /\ Cardinality(T) \in Nat
  BY FS_Subset, FS_CardinalityType
<1>2. bad = {}
  <2> SUFFICES ASSUME bad # {} PROVE FALSE
    OBVIOUS
  <2>1. sizes # {} /\ sizes \in SUBSET Nat
    BY <1>1
  <2>2. PICK n \in sizes : \A k \in sizes : n <= k
    BY <2>1, LeastNatural
  <2>3. PICK T \in bad : n = Cardinality(T)
    BY <2>2
  <2>4. IsFiniteSet(T) /\ T \in SUBSET S
    BY <2>3, <1>1
  <2>5. CASE T = {}
    BY <2>3, <2>5, SumOfNone DEF SameSum
  <2>6. CASE T # {}
    <3> DEFINE U == T \ {Some(T)}
    <3>1. U \in SUBSET S /\ Cardinality(U) < n /\ Cardinality(U) \in Nat /\ n \in Nat
      BY <2>3, <2>4, <2>6, Smaller
    <3>2. Cardinality(U) \notin sizes
      BY <3>1, <2>2
    <3>3. SameSum(f, g, U)
      BY <3>1, <3>2
    <3>4. f[Some(T)] = g[Some(T)]
      BY <2>4, <2>6, SomeIn
    <3>5. /\ SumFunctionOnSet(f, T) = f[Some(T)] + SumFunctionOnSet(f, U)
          /\ SumFunctionOnSet(g, T) = g[Some(T)] + SumFunctionOnSet(g, U)
      BY <2>4, <2>6, SumUnfolds
    <3>6. SameSum(f, g, T)
      BY <3>3, <3>4, <3>5 DEF SameSum
    <3> QED
      BY <2>3, <3>6
  <2> QED
    BY <2>5, <2>6
<1> QED
  BY <1>2 DEF SameSum

-----------------------------------------------------------------------------
(* SiteDay: workers and their day                                             *)

USE SiteDayAssumption, TripsAreShort

Internals == [state: WorkerState, left: UNION {0..n : n \in Walk \cup {0}},
              from: {"none", "toilet", "break"}, start: [Trip -> 0..DayTicks - 1],
              trips: [Trip -> Nat], rounds: [Trip -> Nat], spent: Nat]

\* A round trip that is under way, and three times the ticks that it has taken
\* and its present leg will take, at most: each leg is shorter than a third of a day.
UnderWay(w, t) ==
    IF t = "toilet" THEN \/ w.state \in {"to_toilet", "at_toilet"}
                         \/ w.state = "to_work" /\ w.from = "toilet"
    ELSE w.state \in {"to_material", "carrying"}
Limit(w) == CASE w.state \in {"to_toilet", "to_material"} -> DayTicks - 1
              [] w.state \in {"at_toilet", "carrying"} -> 2 * (DayTicks - 1)
              [] OTHER -> 3 * (DayTicks - 1)

\* How long ago a trip began, now and at the tick to come.
Since(start, now) == IF start <= now THEN now - start ELSE now + DayTicks - start
Ago(start, now) == IF start < now THEN now - start ELSE now + DayTicks - start

CountsOK(w) == \A t \in Trip : w.rounds[t] <= w.trips[t] /\ w.trips[t] <= w.spent
ComesFrom(w) == w.from # "none" => w.state = "to_work"

\* A trip that began today was counted as begun today.
WorkerOK(w, now) ==
    /\ w \in Internals /\ CountsOK(w) /\ ComesFrom(w)
    /\ \A t \in Trip : UnderWay(w, t) =>
         /\ w.left > 0 /\ 3 * (Since(w.start[t], now) + w.left) <= Limit(w)
         /\ w.start[t] <= now => w.rounds[t] < w.trips[t]

\* The same before the handler of a tick.
Ready(w, now) ==
    /\ w \in Internals /\ CountsOK(w) /\ ComesFrom(w)
    /\ \A t \in Trip : UnderWay(w, t) =>
         /\ w.left > 0 /\ 3 * (Ago(w.start[t], now) - 1 + w.left) <= Limit(w)
         /\ w.start[t] < now => w.rounds[t] < w.trips[t]

LEMMA WalksAreShort ==
  /\ \A n \in Walk : n \in Nat /\ n > 0 /\ 3 * n <= DayTicks - 1
  /\ \A n \in Walk : n \in UNION {0..k : k \in Walk \cup {0}}
  /\ 0 \in UNION {0..k : k \in Walk \cup {0}}
  /\ \A n \in UNION {0..k : k \in Walk \cup {0}} :
        n \in Nat /\ 3 * n <= DayTicks - 1 /\ (n > 0 => n - 1 \in UNION {0..k : k \in Walk \cup {0}})
<1>1. \A n \in Walk : n \in Nat /\ n > 0 /\ 3 * n <= DayTicks - 1
  OBVIOUS
<1>2. ASSUME NEW k \in Walk \cup {0} PROVE k \in Nat /\ k \in 0..k /\ 0 \in 0..k
  OBVIOUS
<1>3. ASSUME NEW k \in Walk \cup {0}, NEW n \in 0..k
      PROVE  n \in Nat /\ 3 * n <= DayTicks - 1 /\ (n > 0 => n - 1 \in 0..k)
  <2>1. k \in Nat /\ 3 * k <= DayTicks - 1 /\ DayTicks \in Nat
    BY <1>1
  <2> QED
    BY ONLY <2>1, n \in 0..k
<1> QED
  BY <1>1, <1>2, <1>3

LEMMA TripKinds == Trip = {"toilet", "material"}
BY DEF Trip

\* A trip does not take a day.
LEMMA NextIsReady ==
  ASSUME NEW now \in 0..DayTicks - 1, now + 1 < DayTicks, NEW w, WorkerOK(w, now)
  PROVE  Ready(w, now + 1)
<1> SUFFICES ASSUME NEW t \in Trip, UnderWay(w, t)
             PROVE  /\ w.left > 0 /\ 3 * (Ago(w.start[t], now + 1) - 1 + w.left) <= Limit(w)
                    /\ w.start[t] < now + 1 => w.rounds[t] < w.trips[t]
  BY DEF WorkerOK, Ready
<1>1. /\ w.left > 0 /\ 3 * (Since(w.start[t], now) + w.left) <= Limit(w)
      /\ w.start[t] <= now => w.rounds[t] < w.trips[t]
  BY DEF WorkerOK
<1>2. w.start[t] \in 0..DayTicks - 1 /\ w.left \in Nat
  BY WalksAreShort DEF WorkerOK, Internals
<1>3. Limit(w) \in Nat /\ Limit(w) <= 3 * (DayTicks - 1)
  <2>1. Limit(w) \in {DayTicks - 1, 2 * (DayTicks - 1), 3 * (DayTicks - 1)}
    BY Zenon DEF Limit
  <2> QED
    BY <2>1
<1>4. w.start[t] # now + 1
  BY <1>1, <1>2, <1>3 DEF Since
<1> QED
  BY <1>1, <1>2, <1>3, <1>4 DEF Since, Ago

LEMMA ResetIsReady ==
  ASSUME NEW w, WorkerOK(w, DayTicks - 1)
  PROVE  Ready(ResetDaily(w), 0) /\ ResetDaily(w).spent = 0
<1> DEFINE x == ResetDaily(w)
<1>0. Zero \in [Trip -> Nat] /\ \A t \in Trip : Zero[t] = 0
  BY DEF Zero
<1>1. /\ x \in Internals /\ x.state = w.state /\ x.left = w.left /\ x.from = w.from
      /\ x.start = w.start /\ x.trips = Zero /\ x.rounds = Zero /\ x.spent = 0
  BY <1>0 DEF ResetDaily, WorkerOK, Internals
<1>2. CountsOK(x) /\ ComesFrom(x)
  <2>1. ComesFrom(w)
    BY DEF WorkerOK
  <2> HIDE DEF x
  <2>2. \A t \in Trip : x.rounds[t] = 0 /\ x.trips[t] = 0
    BY <1>0, <1>1
  <2>3. CountsOK(x)
    BY <2>2, <1>1 DEF CountsOK
  <2>4. ComesFrom(x)
    BY <2>1, <1>1 DEF ComesFrom
  <2> QED
    BY <2>3, <2>4
<1>3. ASSUME NEW t \in Trip, UnderWay(x, t)
      PROVE  /\ x.left > 0 /\ 3 * (Ago(x.start[t], 0) - 1 + x.left) <= Limit(x)
             /\ ~(x.start[t] < 0)
  <2>1. UnderWay(w, t) /\ Limit(x) = Limit(w)
    BY <1>1, <1>3 DEF UnderWay, Limit
  <2>2. w.left > 0 /\ 3 * (Since(w.start[t], DayTicks - 1) + w.left) <= Limit(w)
    BY <2>1 DEF WorkerOK
  <2>3. w.start[t] \in 0..DayTicks - 1 /\ w.left \in Nat
    BY WalksAreShort DEF WorkerOK, Internals
  <2>4. Limit(w) \in Nat /\ Limit(w) <= 3 * (DayTicks - 1)
    <3>1. Limit(w) \in {DayTicks - 1, 2 * (DayTicks - 1), 3 * (DayTicks - 1)}
      BY Zenon DEF Limit
    <3> QED
      BY <3>1
  <2>5. w.start[t] # 0
    BY <2>2, <2>3, <2>4 DEF Since
  <2> QED
    BY <2>1, <2>2, <2>3, <2>4, <2>5, <1>1 DEF Since, Ago
<1> QED
  BY <1>1, <1>2, <1>3 DEF Ready

\* A tick's handler: the tick is added to an accumulator afterwards.
Handling(w, x, now) ==
    /\ x \in Internals /\ x.spent = w.spent /\ ComesFrom(x)
    /\ \A t \in Trip :
         /\ x.rounds[t] <= x.trips[t] /\ x.trips[t] <= x.spent + 1
         /\ UnderWay(x, t) =>
              /\ x.left > 0 /\ 3 * (Since(x.start[t], now) + x.left) <= Limit(x)
              /\ x.start[t] <= now => x.rounds[t] < x.trips[t]

\* A handler that leaves the counters alone.
LEMMA CountsStay ==
  ASSUME NEW now \in 0..DayTicks - 1, NEW w, Ready(w, now), NEW x \in Internals,
         x.spent = w.spent, x.rounds = w.rounds, x.trips = w.trips, ComesFrom(x),
         \A t \in Trip : UnderWay(x, t) =>
              /\ x.left > 0 /\ 3 * (Since(x.start[t], now) + x.left) <= Limit(x)
              /\ x.start[t] <= now => x.rounds[t] < x.trips[t]
  PROVE  Handling(w, x, now)
<1>1. \A t \in Trip : /\ w.rounds[t] <= w.trips[t] /\ w.trips[t] <= w.spent
                      /\ w.trips[t] \in Nat /\ w.spent \in Nat
  BY DEF Ready, CountsOK, Internals
<1> QED
  BY <1>1 DEF Handling

\* A leg goes on.
LEMMA LegGoesOn ==
  ASSUME NEW now \in 0..DayTicks - 1, NEW w, Ready(w, now), w.left > 1,
         NEW x, x = [w EXCEPT !.left = w.left - 1]
  PROVE  Handling(w, x, now)
<1>0. w.left \in UNION {0..n : n \in Walk \cup {0}}
  BY DEF Ready, Internals
<1>1. w.left \in Nat /\ w.left - 1 \in UNION {0..n : n \in Walk \cup {0}}
  BY <1>0, WalksAreShort
<1>2. /\ x \in Internals /\ x.state = w.state /\ x.left = w.left - 1 /\ x.from = w.from
      /\ x.start = w.start /\ x.trips = w.trips /\ x.rounds = w.rounds /\ x.spent = w.spent
  BY <1>1 DEF Ready, Internals
<1>3. ComesFrom(x)
  BY <1>2 DEF ComesFrom, Ready
<1>4. ASSUME NEW t \in Trip, UnderWay(x, t)
      PROVE  /\ x.left > 0 /\ 3 * (Since(x.start[t], now) + x.left) <= Limit(x)
             /\ x.start[t] <= now => x.rounds[t] < x.trips[t]
  <2>1. UnderWay(w, t) /\ Limit(x) = Limit(w)
    BY <1>2, <1>4 DEF UnderWay, Limit
  <2>2. /\ 3 * (Ago(w.start[t], now) - 1 + w.left) <= Limit(w)
        /\ w.start[t] < now => w.rounds[t] < w.trips[t]
    BY <2>1 DEF Ready
  <2>3. w.start[t] \in 0..DayTicks - 1
    BY DEF Ready, Internals
  <2>4. Limit(w) \in Nat /\ Limit(w) <= 3 * (DayTicks - 1)
    <3>1. Limit(w) \in {DayTicks - 1, 2 * (DayTicks - 1), 3 * (DayTicks - 1)}
      BY Zenon DEF Limit
    <3> QED
      BY <3>1
  <2>5. w.start[t] # now
    BY <2>2, <2>3, <2>4, <1>1 DEF Ago
  <2>6. Since(w.start[t], now) = Ago(w.start[t], now) /\ Ago(w.start[t], now) \in Nat
    BY <2>3, <2>5 DEF Since, Ago
  <2> QED
    BY <2>1, <2>2, <2>3, <2>5, <2>6, <1>1, <1>2
<1> QED
  BY <1>2, <1>3, <1>4, CountsStay

LEMMA LegTime ==
  ASSUME NEW now \in 0..DayTicks - 1, NEW s \in 0..DayTicks - 1, NEW n \in Nat,
         NEW limit \in Nat, 3 * n <= DayTicks - 1, limit + DayTicks - 1 <= 3 * (DayTicks - 1),
         3 * Ago(s, now) <= limit
  PROVE  /\ s # now /\ Since(s, now) = Ago(s, now)
         /\ 3 * (Since(s, now) + n) <= limit + DayTicks - 1
<1>1. s # now
  BY DEF Ago
<1>2. Since(s, now) = Ago(s, now) /\ Ago(s, now) \in Nat
  BY <1>1 DEF Since, Ago
<1> QED
  BY <1>1, <1>2

\* The next leg of a way begins, one that no trip has had yet.
LEMMA LegBegins ==
  ASSUME NEW now \in 0..DayTicks - 1, NEW w, Ready(w, now), NEW n \in Walk,
         NEW to \in WorkerState, NEW from \in {"none", "toilet", "break"}, from # "none" => to = "to_work",
         NEW x, x = [w EXCEPT !.state = to, !.left = n, !.from = from],
         \A t \in Trip : UnderWay(x, t) =>
             UnderWay(w, t) /\ w.left <= 1 /\ Limit(w) + DayTicks - 1 = Limit(x)
  PROVE  Handling(w, x, now)
<1>0. n \in UNION {0..k : k \in Walk \cup {0}} /\ n \in Nat /\ n > 0 /\ 3 * n <= DayTicks - 1
  BY WalksAreShort
<1>1. /\ x \in Internals /\ x.state = to /\ x.left = n /\ x.from = from
      /\ x.start = w.start /\ x.trips = w.trips /\ x.rounds = w.rounds /\ x.spent = w.spent
  BY <1>0 DEF Ready, Internals
<1>2. ComesFrom(x)
  BY <1>1 DEF ComesFrom
<1>3. ASSUME NEW t \in Trip, UnderWay(x, t)
      PROVE  /\ x.left > 0 /\ 3 * (Since(x.start[t], now) + x.left) <= Limit(x)
             /\ x.start[t] <= now => x.rounds[t] < x.trips[t]
  <2>1. UnderWay(w, t) /\ w.left <= 1 /\ Limit(w) + DayTicks - 1 = Limit(x)
    BY <1>3
  <2>2. /\ w.left > 0 /\ 3 * (Ago(w.start[t], now) - 1 + w.left) <= Limit(w)
        /\ w.start[t] < now => w.rounds[t] < w.trips[t]
    BY <2>1 DEF Ready
  <2>3. w.start[t] \in 0..DayTicks - 1
    BY DEF Ready, Internals
  <2>4. w.left = 1
    <3>1. w.left \in UNION {0..k : k \in Walk \cup {0}}
      BY DEF Ready, Internals
    <3>2. w.left \in Nat
      BY <3>1, WalksAreShort
    <3>3. w.left > 0 /\ w.left <= 1
      BY <2>1, <2>2
    <3> QED
      BY ONLY <3>2, <3>3
  <2>5. Limit(w) \in Nat /\ Limit(w) + DayTicks - 1 <= 3 * (DayTicks - 1)
    <3>1. /\ Limit(w) \in {DayTicks - 1, 2 * (DayTicks - 1), 3 * (DayTicks - 1)}
          /\ Limit(x) \in {DayTicks - 1, 2 * (DayTicks - 1), 3 * (DayTicks - 1)}
      BY ONLY Zenon DEF Limit
    <3>2. DayTicks \in Nat \ {0}
      OBVIOUS
    <3>3. Limit(w) + DayTicks - 1 = Limit(x)
      BY <2>1
    <3> QED
      BY ONLY <3>1, <3>2, <3>3
  <2>6. 3 * Ago(w.start[t], now) <= Limit(w)
    <3>1. Ago(w.start[t], now) \in Int
      BY <2>3 DEF Ago
    <3>2. 3 * (Ago(w.start[t], now) - 1 + w.left) <= Limit(w)
      BY <2>2
    <3> QED
      BY <3>2, <2>4, <2>5, <3>1
  <2>7. /\ w.start[t] # now /\ 3 * (Since(w.start[t], now) + n) <= Limit(x)
    <3>1. Limit(w) + DayTicks - 1 = Limit(x)
      BY <2>1
    <3> QED
      BY <1>0, <3>1, <2>3, <2>5, <2>6, LegTime
  <2>8. w.start[t] <= now => w.start[t] < now
    BY ONLY <2>3, <2>7, now \in 0..DayTicks - 1
  <2>9. x.left > 0 /\ x.left = n /\ x.start[t] = w.start[t] /\ x.rounds[t] = w.rounds[t]
        /\ x.trips[t] = w.trips[t]
    BY <1>0, <1>1
  <2>10. w.start[t] < now => w.rounds[t] < w.trips[t]
    BY <2>2
  <2> QED
    BY <2>7, <2>8, <2>9, <2>10
<1> QED
  BY <1>1, <1>2, <1>3, CountsStay

\* A worker is at work again; no trip is under way.
LEMMA AtWork ==
  ASSUME NEW now \in 0..DayTicks - 1, NEW w, Ready(w, now), NEW x \in Internals,
         x.state = "working", x.from = "none", x.spent = w.spent, x.rounds = w.rounds,
         x.trips = w.trips
  PROVE  Handling(w, x, now)
<1>1. \A t \in Trip : ~UnderWay(x, t)
  BY DEF UnderWay
<1>2. ComesFrom(x)
  BY DEF ComesFrom
<1> QED
  BY <1>1, <1>2, CountsStay

LEMMA ZeroLeft == 0 \in UNION {0..n : n \in Walk \cup {0}}
BY WalksAreShort

\* The end of a round trip; its time counts only on the day it began.
LEMMA BackHandles ==
  ASSUME NEW now \in 0..DayTicks - 1, NEW w, Ready(w, now), NEW kind \in Trip,
         UnderWay(w, kind), NEW x, x = Back(w, kind, now)
  PROVE  /\ Handling(w, x, now) /\ x.state = "working" /\ x.from = "none"
<1> DEFINE more == IF now - w.start[kind] \in 1..ShortTrip - 1 THEN w.rounds[kind] + 1
                   ELSE w.rounds[kind]
<1>1. w \in Internals /\ w.start[kind] \in 0..DayTicks - 1 /\ w.rounds[kind] \in Nat
      /\ w.rounds \in [Trip -> Nat]
  BY DEF Ready, Internals
<1>2. more \in Nat
  BY <1>1
<1>3. x = [w EXCEPT !.state = "working", !.left = 0, !.from = "none",
                    !.rounds = [w.rounds EXCEPT ![kind] = more]]
  BY <1>1 DEF Back, Internals
<1> HIDE DEF more
<1>4. /\ x \in Internals /\ x.state = "working" /\ x.from = "none" /\ x.spent = w.spent
      /\ x.trips = w.trips /\ x.rounds = [w.rounds EXCEPT ![kind] = more]
  <2>1. [w.rounds EXCEPT ![kind] = more] \in [Trip -> Nat]
    BY <1>1, <1>2
  <2>2. "working" \in WorkerState
    BY DEF WorkerState
  <2> QED
    BY <1>1, <1>3, <2>1, <2>2, ZeroLeft DEF Internals
<1>5. \A t \in Trip : ~UnderWay(x, t)
  BY <1>4 DEF UnderWay
<1>6. ASSUME NEW t \in Trip
      PROVE  x.rounds[t] <= x.trips[t] /\ x.trips[t] <= x.spent + 1
  <2>1. /\ w.rounds[t] <= w.trips[t] /\ w.trips[t] <= w.spent
        /\ w.trips[t] \in Nat /\ w.spent \in Nat /\ w.rounds[t] \in Nat
    BY DEF Ready, CountsOK, Internals
  <2>2. CASE t # kind
    <3>1. x.rounds[t] = w.rounds[t] /\ x.trips[t] = w.trips[t] /\ x.spent = w.spent
      BY <2>2, <1>1, <1>4
    <3> QED
      BY ONLY <2>1, <3>1
  <2>3. CASE t = kind
    <3>1. x.rounds[t] = more
      BY <2>3, <1>1, <1>4
    <3>2. more <= w.trips[kind]
      <4>1. w.start[kind] < now => w.rounds[kind] < w.trips[kind]
        BY DEF Ready
      <4>2. now - w.start[kind] \in 1..ShortTrip - 1 => w.start[kind] < now
        BY <1>1
      <4>3. w.trips[kind] \in Nat
        BY <2>1, <2>3
      <4> QED
        BY <4>1, <4>2, <4>3, <2>1, <2>3, <1>1 DEF more
    <3>3. x.trips[t] = w.trips[kind] /\ x.spent = w.spent
      BY <2>3, <1>4
    <3> QED
      BY ONLY <2>1, <2>3, <3>1, <3>2, <3>3, <1>2
  <2> QED
    BY <2>2, <2>3
<1> QED
  BY <1>4, <1>5, <1>6 DEF Handling, ComesFrom

\* A need takes the worker away.
LEMMA BegunHandles ==
  ASSUME NEW now \in 0..DayTicks - 1, NEW w, Ready(w, now), w.state = "working",
         NEW kind, NEW to, <<kind, to>> \in {<<"toilet", "to_toilet">>, <<"material", "to_material">>,
                                             <<"break", "to_break">>},
         NEW x \in Begun(w, kind, to, now)
  PROVE  Handling(w, x, now)
<1>0. w \in Internals /\ w.from = "none" /\ w.trips \in [Trip -> Nat] /\ w.start \in [Trip -> 0..DayTicks - 1]
  BY DEF Ready, ComesFrom, Internals
<1>1. /\ kind \in {"toilet", "material", "break"} /\ to \in {"to_toilet", "to_material", "to_break"}
      /\ kind = "toilet" <=> to = "to_toilet"
      /\ kind = "material" <=> to = "to_material"
      /\ kind = "break" <=> to = "to_break"
  OBVIOUS
<1> DEFINE trips == IF kind = "break" THEN w.trips ELSE [w.trips EXCEPT ![kind] = w.trips[kind] + 1]
           start == IF kind = "break" THEN w.start ELSE [w.start EXCEPT ![kind] = now]
           off == [w EXCEPT !.trips = trips, !.start = start]
<1>2. trips \in [Trip -> Nat] /\ start \in [Trip -> 0..DayTicks - 1]
  <2>1. kind = "break" \/ kind \in Trip
    BY ONLY <1>1, TripKinds
  <2>2. w.trips[kind] \in Nat \/ kind = "break"
    BY ONLY <2>1, <1>0
  <2>3. CASE kind = "break"
    BY <2>3, <1>0
  <2>4. CASE kind # "break"
    BY <2>1, <2>2, <2>4, <1>0
  <2> QED
    BY <2>3, <2>4
<1>3. off \in Internals /\ off.spent = w.spent /\ off.rounds = w.rounds /\ off.from = "none"
      /\ off.trips = trips /\ off.start = start /\ off.left = w.left
  <2> HIDE DEF trips, start
  <2> QED
    BY <1>0, <1>2 DEF Internals
<1>4. x \in {[off EXCEPT !.state = to, !.left = n] : n \in Walk} \cup {[off EXCEPT !.state = "vertical"]}
  <2>1. CASE kind = "break"
    <3>1. off = w
      BY <1>0, <2>1 DEF Internals
    <3> HIDE DEF off
    <3> QED
      BY <2>1, <3>1 DEF Begun
  <2>2. CASE kind # "break"
    <3>1. off = [w EXCEPT !.trips[kind] = @ + 1, !.start[kind] = now]
      BY <1>0, <2>2 DEF Internals
    <3> HIDE DEF off
    <3> QED
      BY <2>2, <3>1 DEF Begun
  <2> QED
    BY <2>1, <2>2
<1>5. PICK s \in {to, "vertical"}, n \in Walk \cup {w.left} :
          /\ x = [off EXCEPT !.state = s, !.left = n] /\ (s = to => n \in Walk)
  <2>1. ASSUME NEW n \in Walk, x = [off EXCEPT !.state = to, !.left = n]
        PROVE  \E s \in {to, "vertical"}, k \in Walk \cup {w.left} :
                 /\ x = [off EXCEPT !.state = s, !.left = k] /\ (s = to => k \in Walk)
    BY <2>1
  <2>2. ASSUME x = [off EXCEPT !.state = "vertical"]
        PROVE  \E s \in {to, "vertical"}, k \in Walk \cup {w.left} :
                 /\ x = [off EXCEPT !.state = s, !.left = k] /\ (s = to => k \in Walk)
    <3>1. off.left = w.left /\ off \in Internals
      BY <1>3
    <3> HIDE DEF off
    <3>2. x = [off EXCEPT !.state = "vertical", !.left = w.left]
      BY <3>1, <2>2 DEF Internals
    <3> QED
      BY <3>2, <1>1
  <2> HIDE DEF off
  <2> QED
    BY <1>4, <2>1, <2>2
<1> HIDE DEF off
<1>6. n \in UNION {0..k : k \in Walk \cup {0}} /\ (n \in Walk => n \in Nat /\ n > 0 /\ 3 * n <= DayTicks - 1)
  BY <1>0, WalksAreShort DEF Internals
<1>7. /\ x \in Internals /\ x.state = s /\ x.left = n /\ x.spent = w.spent /\ x.rounds = w.rounds
      /\ x.from = "none" /\ x.trips = trips /\ x.start = start
  <2>1. s \in WorkerState
    BY <1>1 DEF WorkerState
  <2> HIDE DEF trips, start
  <2>2. x = [off EXCEPT !.state = s, !.left = n] /\ n \in UNION {0..k : k \in Walk \cup {0}}
    BY <1>5, <1>6
  <2>3. x \in Internals /\ x.state = s /\ x.left = n /\ x.spent = off.spent
        /\ x.rounds = off.rounds /\ x.from = off.from /\ x.trips = off.trips /\ x.start = off.start
    <3>1. off \in Internals
      BY <1>3
    <3> QED
      BY ONLY <3>1, <2>1, <2>2 DEF Internals
  <2> QED
    BY <2>3, <1>3
<1>8. ASSUME NEW t \in Trip
      PROVE  x.rounds[t] <= x.trips[t] /\ x.trips[t] <= x.spent + 1
  <2>1. /\ w.rounds[t] <= w.trips[t] /\ w.trips[t] <= w.spent
        /\ w.trips[t] \in Nat /\ w.spent \in Nat /\ w.rounds[t] \in Nat
    BY DEF Ready, CountsOK, Internals
  <2>2. trips[t] \in {w.trips[t], w.trips[t] + 1}
    BY <1>0
  <2>3. x.rounds[t] = w.rounds[t] /\ x.trips[t] = trips[t] /\ x.spent = w.spent
    BY <1>7
  <2> HIDE DEF trips
  <2> QED
    BY ONLY <2>1, <2>2, <2>3
<1>9. ASSUME NEW t \in Trip, UnderWay(x, t)
      PROVE  /\ x.left > 0 /\ 3 * (Since(x.start[t], now) + x.left) <= Limit(x)
             /\ x.start[t] <= now => x.rounds[t] < x.trips[t]
  <2>1. t = kind /\ s = to /\ kind # "break"
    BY <1>1, <1>5, <1>7, <1>9, TripKinds DEF UnderWay
  <2>2. trips[t] = w.trips[t] + 1 /\ start[t] = now
    BY <2>1, <1>0
  <2>3. w.rounds[t] <= w.trips[t] /\ w.trips[t] \in Nat /\ w.rounds[t] \in Nat
    BY DEF Ready, CountsOK, Internals
  <2>4. Limit(x) = DayTicks - 1
    <3>1. x.state \in {"to_toilet", "to_material"}
      BY <2>1, <1>1, <1>7
    <3> QED
      BY <3>1, Zenon DEF Limit
  <2>5. Since(now, now) = 0
    BY DEF Since
  <2>6. n \in Nat /\ n > 0 /\ 3 * n <= DayTicks - 1 /\ x.left = n
    BY <2>1, <1>5, <1>6, <1>7
  <2>7. x.start[t] = now /\ x.trips[t] = w.trips[t] + 1 /\ x.rounds[t] = w.rounds[t]
    BY <2>2, <1>7
  <2> QED
    BY <2>3, <2>4, <2>5, <2>6, <2>7
<1>10. ComesFrom(x)
  BY <1>7 DEF ComesFrom
<1> QED
  BY <1>7, <1>8, <1>9, <1>10 DEF Handling

\* What follows a leg that is over.
Legs == {<<"to_toilet", "at_toilet", "none">>, <<"to_break", "at_break", "none">>,
         <<"to_material", "carrying", "none">>, <<"at_toilet", "to_work", "toilet">>,
         <<"at_break", "to_work", "break">>}

LEMMA LegAfterLeg ==
  ASSUME NEW now \in 0..DayTicks - 1, NEW w, Ready(w, now), NEW to, NEW from,
         <<w.state, to, from>> \in Legs, NEW n \in Walk, ~(w.left > 1),
         NEW x, x = [w EXCEPT !.state = to, !.left = n, !.from = from]
  PROVE  Handling(w, x, now)
<1>1. w \in Internals /\ w.left \in Nat
  <2>1. w \in Internals /\ w.left \in UNION {0..k : k \in Walk \cup {0}}
    BY DEF Ready, Internals
  <2> QED
    BY <2>1, WalksAreShort
<1>2. to \in WorkerState /\ from \in {"none", "toilet", "break"} /\ (from # "none" => to = "to_work")
  BY DEF WorkerState, Legs
<1>3. x.state = to /\ x.from = from
  BY <1>1 DEF Internals
<1>4. ASSUME NEW t \in Trip, UnderWay(x, t)
      PROVE  UnderWay(w, t) /\ w.left <= 1 /\ Limit(w) + DayTicks - 1 = Limit(x)
  <2>1. \/ t = "toilet" /\ w.state = "to_toilet" /\ x.state = "at_toilet"
        \/ t = "toilet" /\ w.state = "at_toilet" /\ x.state = "to_work" /\ x.from = "toilet"
        \/ t = "material" /\ w.state = "to_material" /\ x.state = "carrying"
    BY <1>3, <1>4, TripKinds DEF UnderWay, Legs
  <2>2. UnderWay(w, t)
    BY <2>1 DEF UnderWay
  <2>3. \/ w.state \in {"to_toilet", "to_material"} /\ x.state \in {"at_toilet", "carrying"}
        \/ w.state \in {"at_toilet", "carrying"} /\ x.state = "to_work"
    BY <2>1
  <2>4. /\ w.state \in {"to_toilet", "to_material"} => Limit(w) = DayTicks - 1
        /\ w.state \in {"at_toilet", "carrying"} => Limit(w) = 2 * (DayTicks - 1)
        /\ x.state \in {"at_toilet", "carrying"} => Limit(x) = 2 * (DayTicks - 1)
        /\ x.state = "to_work" => Limit(x) = 3 * (DayTicks - 1)
    BY Zenon DEF Limit
  <2> QED
    BY <2>2, <2>3, <2>4, <1>1
<1> QED
  BY <1>2, <1>4, LegBegins

\* Whatever update_worker does with a worker.
LEMMA HandledHandles ==
  ASSUME NEW now \in 0..DayTicks - 1, NEW w, Ready(w, now), NEW x \in Handled(w, now)
  PROVE  Handling(w, x, now)
<1>1. w \in Internals /\ w.state \in WorkerState /\ w.left \in Nat /\ ComesFrom(w)
      /\ w.from \in {"none", "toilet", "break"} /\ w.start \in [Trip -> 0..DayTicks - 1]
  <2>1. w.left \in UNION {0..n : n \in Walk \cup {0}}
    BY DEF Ready, Internals
  <2> QED
    BY <2>1, WalksAreShort DEF Ready, Internals
<1>4. CASE w.state = "working"
  <2>1. Handled(w, now) = Working(w, now)
    BY <1>4, Zenon DEF Handled
  <2>2. CASE x = w
    <3>1. w.from = "none"
      BY <1>1, <1>4 DEF ComesFrom
    <3> QED
      BY <1>1, <1>4, <2>2, <3>1, AtWork
  <2> QED
    BY <1>4, <2>1, <2>2, BegunHandles DEF Working
<1>5. CASE w.state \in {"to_toilet", "to_break", "to_material"}
  <2>1. PICK to : /\ <<w.state, to>> \in {<<"to_toilet", "at_toilet">>, <<"to_break", "at_break">>,
                                       <<"to_material", "carrying">>}
                  /\ Handled(w, now) = Until(w, Arrived(w, to))
    <3>1. w.state = "to_toilet" => Handled(w, now) = Until(w, Arrived(w, "at_toilet"))
      BY Zenon DEF Handled
    <3>2. w.state = "to_break" => Handled(w, now) = Until(w, Arrived(w, "at_break"))
      BY Zenon DEF Handled
    <3>3. w.state = "to_material" => Handled(w, now) = Until(w, Arrived(w, "carrying"))
      BY Zenon DEF Handled
    <3> QED
      BY <1>5, <3>1, <3>2, <3>3
  <2>2. ASSUME x \in Arrived(w, to), ~(w.left > 1)
        PROVE  Handling(w, x, now)
    <3>1. PICK n \in Walk : x = [w EXCEPT !.state = to, !.left = n]
      BY <2>2 DEF Arrived
    <3>2. w.from = "none"
      BY <1>1, <1>5 DEF ComesFrom
    <3>3. x = [w EXCEPT !.state = to, !.left = n, !.from = "none"]
      BY <1>1, <3>1, <3>2 DEF Internals
    <3>4. <<w.state, to, "none">> \in Legs
      BY ONLY <2>1 DEF Legs
    <3>5. n \in Walk /\ ~(w.left > 1)
      BY <2>2
    <3> QED
      BY <3>3, <3>4, <3>5, LegAfterLeg
  <2>3. CASE w.left > 1
    BY <2>1, <2>3, LegGoesOn DEF Until
  <2>4. CASE ~(w.left > 1)
    BY <2>1, <2>2, <2>4 DEF Until
  <2> QED
    BY <2>3, <2>4
<1>6. CASE w.state \in {"at_toilet", "at_break"}
  <2>1. PICK from : /\ <<w.state, from>> \in {<<"at_toilet", "toilet">>, <<"at_break", "break">>}
                    /\ Handled(w, now) = Until(w, Leaving(w, from))
    <3>1. w.state = "at_toilet" => Handled(w, now) = Until(w, Leaving(w, "toilet"))
      BY Zenon DEF Handled
    <3>2. w.state = "at_break" => Handled(w, now) = Until(w, Leaving(w, "break"))
      BY Zenon DEF Handled
    <3> QED
      BY <1>6, <3>1, <3>2
  <2>3. CASE w.left > 1
    BY <2>1, <2>3, LegGoesOn DEF Until
  <2>4. CASE ~(w.left > 1)
    <3>1. PICK n \in Walk : x = [w EXCEPT !.state = "to_work", !.left = n, !.from = from]
      BY <2>1, <2>4 DEF Until, Leaving
    <3>2. <<w.state, "to_work", from>> \in Legs
      BY ONLY <2>1 DEF Legs
    <3>3. n \in Walk /\ ~(w.left > 1)
      BY <2>4
    <3> QED
      BY <3>1, <3>2, <3>3, LegAfterLeg
  <2> QED
    BY <2>3, <2>4
<1>7. CASE w.state = "carrying"
  <2>1. Handled(w, now) = Until(w, {Back(w, "material", now)})
    BY <1>7, Zenon DEF Handled
  <2>2. UnderWay(w, "material") /\ "material" \in Trip
    BY <1>7 DEF UnderWay, Trip
  <2>3. CASE w.left > 1
    BY <2>1, <2>3, LegGoesOn DEF Until
  <2>4. CASE ~(w.left > 1)
    BY <2>1, <2>2, <2>4, BackHandles DEF Until
  <2> QED
    BY <2>3, <2>4
<1>8. CASE w.state = "to_work"
  <2> DEFINE there == IF w.from = "toilet" THEN [Back(w, "toilet", now) EXCEPT !.start["toilet"] = 0]
                      ELSE [w EXCEPT !.state = "working", !.left = 0, !.from = "none",
                                     !.start["toilet"] = 0]
  <2>1. Handled(w, now) = Until(w, {there})
    BY <1>8, Zenon DEF Handled
  <2>2. CASE w.left > 1
    BY <2>1, <2>2, LegGoesOn DEF Until
  <2>3. CASE ~(w.left > 1)
    <3>1. x = there
      BY <2>1, <2>3 DEF Until
    <3>2. "toilet" \in Trip
      BY DEF Trip
    <3>3. CASE w.from = "toilet"
      <4>1. UnderWay(w, "toilet")
        BY <1>8, <3>3 DEF UnderWay
      <4>2. PICK b : b = Back(w, "toilet", now)
        OBVIOUS
      <4>3. Handling(w, b, now) /\ b.state = "working" /\ b.from = "none"
        BY <4>1, <4>2, <3>2, BackHandles
      <4>4. x = [b EXCEPT !.start["toilet"] = 0]
        BY <3>1, <3>3, <4>2
      <4>5. b \in Internals
        BY <4>3 DEF Handling
      <4>6. /\ x \in Internals /\ x.state = b.state /\ x.from = b.from /\ x.spent = b.spent
            /\ x.rounds = b.rounds /\ x.trips = b.trips
        BY <4>4, <4>5, <3>2 DEF Internals
      <4>7. ComesFrom(x) /\ \A t \in Trip : ~UnderWay(x, t)
        BY <4>3, <4>6 DEF ComesFrom, UnderWay
      <4>8. x.spent = w.spent /\ \A t \in Trip : x.rounds[t] <= x.trips[t] /\ x.trips[t] <= x.spent + 1
        BY <4>3, <4>6 DEF Handling
      <4> QED
        BY <4>6, <4>7, <4>8 DEF Handling
    <3>4. CASE w.from # "toilet"
      <4>1. x = [w EXCEPT !.state = "working", !.left = 0, !.from = "none", !.start["toilet"] = 0]
        BY <3>1, <3>4
      <4>2. "working" \in WorkerState
        BY DEF WorkerState
      <4>3. /\ x \in Internals /\ x.state = "working" /\ x.from = "none" /\ x.spent = w.spent
            /\ x.rounds = w.rounds /\ x.trips = w.trips
        <5>0. 0 \in 0..DayTicks - 1 /\ w.start \in [Trip -> 0..DayTicks - 1]
          BY <1>1
        <5>1. [w.start EXCEPT !["toilet"] = 0] \in [Trip -> 0..DayTicks - 1]
          BY ONLY <5>0
        <5>2. x = [w EXCEPT !.state = "working", !.left = 0, !.from = "none",
                            !.start = [w.start EXCEPT !["toilet"] = 0]]
          BY ONLY <4>1, <1>1 DEF Internals
        <5>3. PICK st \in [Trip -> 0..DayTicks - 1] :
                 x = [w EXCEPT !.state = "working", !.left = 0, !.from = "none", !.start = st]
          BY ONLY <5>1, <5>2
        <5> QED
          BY ONLY <5>3, <4>2, <1>1, ZeroLeft DEF Internals
      <4> QED
        BY <4>3, AtWork
    <3> QED
      BY <3>3, <3>4
  <2> QED
    BY <2>2, <2>3
<1>9. CASE w.state = "vertical"
  <2>1. x \in Vertical(w)
    BY <1>9, Zenon DEF Handled
  <2>2. w.from = "none"
    BY <1>1, <1>9 DEF ComesFrom
  <2>3. PICK s \in {"vertical", "working", "to_work"}, n \in Walk \cup {w.left} :
          x = [w EXCEPT !.state = s, !.left = n]
    <3>1. CASE x = w
      <4>1. x = [w EXCEPT !.state = "vertical", !.left = w.left]
        BY <3>1, <1>1, <1>9 DEF Internals
      <4> QED
        BY <4>1
    <3>2. CASE x = [w EXCEPT !.state = "working"]
      <4>1. x = [w EXCEPT !.state = "working", !.left = w.left]
        BY <3>2, <1>1 DEF Internals
      <4> QED
        BY <4>1
    <3>3. CASE \E n \in Walk : x = [w EXCEPT !.state = "to_work", !.left = n]
      BY <3>3
    <3> QED
      BY <2>1, <3>1, <3>2, <3>3 DEF Vertical
  <2>4. n \in UNION {0..k : k \in Walk \cup {0}} /\ s \in WorkerState
    <3>1. w.left \in UNION {0..k : k \in Walk \cup {0}}
      BY <1>1 DEF Internals
    <3> QED
      BY <3>1, WalksAreShort DEF WorkerState
  <2>5. /\ x \in Internals /\ x.state = s /\ x.from = "none" /\ x.spent = w.spent
        /\ x.rounds = w.rounds /\ x.trips = w.trips
    BY <2>2, <2>3, <2>4, <1>1 DEF Internals
  <2>6. ComesFrom(x) /\ \A t \in Trip : ~UnderWay(x, t)
    BY <2>3, <2>5 DEF ComesFrom, UnderWay
  <2> QED
    BY <2>5, <2>6, CountsStay
<1> QED
  BY <1>1, <1>4, <1>5, <1>6, <1>7, <1>8, <1>9 DEF WorkerState

\* A worker after a tick: the tick is in its accumulators.
LEMMA UpdatedIsOK ==
  ASSUME NEW now \in 0..DayTicks - 1, NEW w, Ready(w, now), NEW x \in Updated(w, now)
  PROVE  WorkerOK(x, now) /\ x.spent = w.spent + 1
<1>1. PICK h \in Handled(w, now) : x = [h EXCEPT !.spent = h.spent + 1]
  BY DEF Updated
<1>2. Handling(w, h, now)
  BY HandledHandles
<1>3. h \in Internals /\ h.spent = w.spent /\ h.spent \in Nat /\ ComesFrom(h)
  BY <1>2 DEF Handling, Internals
<1>4. /\ x \in Internals /\ x.state = h.state /\ x.left = h.left /\ x.from = h.from
      /\ x.start = h.start /\ x.trips = h.trips /\ x.rounds = h.rounds /\ x.spent = h.spent + 1
  BY <1>1, <1>3 DEF Internals
<1>5. Limit(x) = Limit(h) /\ (\A t \in Trip : UnderWay(x, t) <=> UnderWay(h, t)) /\ ComesFrom(x)
  <2>1. Limit(x) = Limit(h)
    BY <1>4, Zenon DEF Limit
  <2>2. \A t \in Trip : UnderWay(x, t) <=> UnderWay(h, t)
    BY <1>4 DEF UnderWay
  <2>3. ComesFrom(x)
    BY <1>3, <1>4 DEF ComesFrom
  <2> QED
    BY <2>1, <2>2, <2>3
<1>6. CountsOK(x)
  BY <1>2, <1>4 DEF Handling, CountsOK
<1>7. ASSUME NEW t \in Trip, UnderWay(x, t)
      PROVE  /\ x.left > 0 /\ 3 * (Since(x.start[t], now) + x.left) <= Limit(x)
             /\ x.start[t] <= now => x.rounds[t] < x.trips[t]
  BY <1>2, <1>4, <1>5, <1>7 DEF Handling
<1> QED
  BY <1>3, <1>4, <1>5, <1>6, <1>7 DEF WorkerOK

-----------------------------------------------------------------------------
(* The inductive invariant.                                                   *)

Key(e) == <<e.kind, e.who, e.day, e.life>>
Distinct(events) ==
    \A i, j \in 1..Len(events) :
        events[i] # Other /\ events[j] # Other /\ i # j => Key(events[i]) # Key(events[j])
KeysApart(S, T) == \A e \in S, f \in T : Key(e) # Key(f)

\* Every report there is, wherever it got to.
All == ledger \cup lost \cup Reports(buffer) \cup Reports(drain)

EngineOK == engine \in [life: 1..MaxLife, day: 1..MaxDay, clock: 0..DayTicks - 1, extra: Nat]

WorkersOK ==
    /\ internals \in [Staff -> Internals]
    /\ \A w \in Staff : WorkerOK(internals[w], engine.clock)
    /\ EverySecondCounts

Machines == [state: {"operating", "idle", "removed"}, cycle: Nat, hours: Nat, base: Nat]
MachinesOK ==
    /\ machine \in [Machine -> Machines]
    /\ \A m \in Machine : /\ machine[m].base <= machine[m].hours
                          /\ machine[m].hours <= DayTicks * (engine.day - 1) + engine.clock

WayOK == /\ buffer \in Seq(Event) /\ Len(buffer) <= Capacity
         /\ drain \in Seq(Event) /\ Len(drain) <= Capacity
         /\ IsFiniteSet(ledger) /\ IsFiniteSet(lost)

\* Every report is of a day that is over: a new one is of a day that has none.
OverOK == \A e \in All : /\ e \in Event \ {Other} /\ e.life <= engine.life
                         /\ e.life = engine.life => e.day < engine.day

OnceOK == /\ Distinct(buffer) /\ Distinct(drain) /\ KeysApart(Reports(buffer), Reports(drain))
          /\ KeysApart(Reports(buffer), ledger) /\ KeysApart(Reports(drain), ledger)

\* An elevator that has its places has no advice that is open.
BoostsOK == /\ recs \in [Rec -> {"none", "open", "applied"}] /\ engine.extra \in {0, 1}
            /\ engine.extra = 1 => recs["boost"] # "open"

DayInv == /\ EngineOK /\ WorkersOK /\ MachinesOK /\ WayOK /\ OverOK /\ OnceOK
          /\ UtilizationAddsUp /\ OnlyKnownLosses /\ BoostsOK

-----------------------------------------------------------------------------
(* Events on their way.                                                       *)

LEMMA SeqOfSet ==
  ASSUME NEW S, IsFiniteSet(S)
  PROVE  /\ SetToSeq(S) \in Seq(S) /\ Range(SetToSeq(S)) = S
         /\ Len(SetToSeq(S)) = Cardinality(S)
         /\ \A i, j \in 1..Len(SetToSeq(S)) : SetToSeq(S)[i] = SetToSeq(S)[j] => i = j
<1> DEFINE n == Cardinality(S)
<1>1. n \in Nat /\ ExistsBijection(1..n, S)
  BY FS_CardinalityType
<1>2. PICK b : b \in Bijection(1..n, S)
  BY <1>1 DEF ExistsBijection
<1>3. b \in [1..n -> S] /\ IsInjective(b)
  BY <1>2 DEF Bijection, Injection
<1>4. SetToSeq(S) \in [1..n -> S] /\ IsInjective(SetToSeq(S))
  BY <1>3 DEF SetToSeq
<1> HIDE DEF n
<1>5. PICK s : s = SetToSeq(S)
  OBVIOUS
<1>6. s \in Injection(1..n, S) /\ s \in [1..n -> S]
  BY <1>4, <1>5 DEF Injection
<1>7. IsFiniteSet(1..n) /\ Cardinality(1..n) = n
  BY <1>1, CountTo
<1>8. s \in Surjection(1..n, S)
  BY <1>6, <1>7, FS_Injection DEF n
<1>9. Range(s) = S
  BY <1>8 DEF Surjection, Range
<1>10. s \in Seq(S) /\ Len(s) = n
  BY <1>1, <1>6
<1>11. \A i, j \in 1..Len(s) : s[i] = s[j] => i = j
  BY <1>4, <1>5, <1>6, <1>10 DEF IsInjective
<1> QED
  BY <1>5, <1>9, <1>10, <1>11 DEF n

LEMMA ReportsOf ==
  ASSUME NEW s \in Seq(Event)
  PROVE  /\ Reports(s) = {s[i] : i \in 1..Len(s)} \ {Other}
         /\ IsFiniteSet(Reports(s)) /\ Reports(s) \subseteq Event \ {Other}
<1>1. Range(s) = {s[i] : i \in 1..Len(s)} /\ IsFiniteSet(Range(s))
  BY FiniteRange
<1>2. IsFiniteSet(Range(s) \ {Other})
  BY <1>1, FS_RemoveElement
<1> QED
  BY <1>1, <1>2 DEF Reports

LEMMA NoReports ==
  /\ <<>> \in Seq(Event) /\ Len(<<>>) = 0 /\ Reports(<<>>) = {} /\ Distinct(<<>>)
  /\ \A s \in Seq(Event) : s # <<>> => Len(s) > 0
<1>1. <<>> \in Seq(Event) /\ Len(<<>>) = 0
  OBVIOUS
<1>2. Reports(<<>>) = {}
  <2>1. Reports(<<>>) = {<<>>[i] : i \in 1..Len(<<>>)} \ {Other}
    BY <1>1, ReportsOf
  <2>2. 1..Len(<<>>) = {}
    BY <1>1
  <2> QED
    BY <2>1, <2>2
<1> QED
  BY <1>1, <1>2 DEF Distinct

LEMMA ReportsOfBoth ==
  ASSUME NEW s \in Seq(Event), NEW t \in Seq(Event)
  PROVE  s \o t \in Seq(Event) /\ Reports(s \o t) = Reports(s) \cup Reports(t)
<1>1. Range(s \o t) = Range(s) \cup Range(t)
  BY RangeConcatenation
<1> QED
  BY <1>1 DEF Reports

\* Of what does not fit, the older goes.
LEMMA KeptAndDropped ==
  ASSUME NEW s \in Seq(Event)
  PROVE  /\ Kept(s) \in Seq(Event) /\ Len(Kept(s)) <= Capacity
         /\ Reports(Kept(s)) \cup Dropped(s) = Reports(s) /\ IsFiniteSet(Dropped(s))
         /\ Distinct(s) => Distinct(Kept(s))
<1> DEFINE n == Len(s)
           k == IF 1 >= n - Capacity + 1 THEN 1 ELSE n - Capacity + 1
           kept == SubSeq(s, k, n)
           gone == SubSeq(s, 1, n - Capacity)
<1>1. n \in Nat /\ Capacity \in Nat \ {0} /\ k \in Nat /\ k >= 1 /\ n - k + 1 <= Capacity
      /\ (k = 1 \/ k = n - Capacity + 1) /\ n - Capacity < k
  OBVIOUS
<1>2. Max({1, n - Capacity + 1}) = k
  BY <1>1, MaxOfTwo
<1>3. Kept(s) = kept /\ Dropped(s) = Reports(gone)
  BY <1>2 DEF Kept, Dropped
<1> HIDE DEF k, n
<1>4. \A i \in 1..n : s[i] \in Event
  BY DEF n
<1>5. /\ kept \in Seq(Event) /\ Len(kept) = IF k <= n THEN n - k + 1 ELSE 0
      /\ \A i \in 1..n - k + 1 : kept[i] = s[k + i - 1]
  <2>1. \A i \in k..n : s[i] \in Event
    BY <1>1, <1>4
  <2>2. k \in Int /\ n \in Int
    BY <1>1
  <2> QED
    BY ONLY <2>1, <2>2, SubSeqProperties
<1>6. /\ gone \in Seq(Event) /\ Len(gone) = IF 1 <= n - Capacity THEN n - Capacity ELSE 0
      /\ \A i \in 1..n - Capacity : gone[i] = s[i]
  <2>1. \A i \in 1..n - Capacity : s[i] \in Event
    BY <1>1, <1>4
  <2>2. 1 \in Int /\ n - Capacity \in Int
    BY <1>1
  <2>3. /\ gone \in Seq(Event)
        /\ Len(gone) = IF 1 <= n - Capacity THEN n - Capacity - 1 + 1 ELSE 0
        /\ \A i \in 1..n - Capacity - 1 + 1 : gone[i] = s[1 + i - 1]
    BY ONLY <2>1, <2>2, SubSeqProperties
  <2> QED
    BY <2>3, <1>1
<1> HIDE DEF kept, gone
<1>7. Len(kept) <= Capacity
  BY <1>1, <1>5
<1>8. Reports(kept) \cup Reports(gone) = Reports(s)
  <2>1. /\ Reports(kept) = {kept[i] : i \in 1..Len(kept)} \ {Other}
        /\ Reports(gone) = {gone[i] : i \in 1..Len(gone)} \ {Other}
        /\ Reports(s) = {s[i] : i \in 1..n} \ {Other}
    BY <1>5, <1>6, ReportsOf DEF n
  <2>2. ASSUME NEW i \in 1..Len(kept) PROVE \E j \in 1..n : kept[i] = s[j]
    <3>1. k + i - 1 \in 1..n /\ kept[i] = s[k + i - 1]
      BY <1>1, <1>5
    <3> QED
      BY <3>1
  <2>3. ASSUME NEW i \in 1..Len(gone) PROVE \E j \in 1..n : gone[i] = s[j]
    <3>1. i \in 1..n - Capacity /\ i \in 1..n
      BY <1>1, <1>6
    <3> QED
      BY <3>1, <1>6
  <2>4. ASSUME NEW i \in 1..n
        PROVE  (\E j \in 1..Len(kept) : kept[j] = s[i]) \/ (\E j \in 1..Len(gone) : gone[j] = s[i])
    <3>1. CASE i < k
      <4>1. i \in 1..Len(gone) /\ gone[i] = s[i]
        BY <3>1, <1>1, <1>6
      <4> QED
        BY <4>1
    <3>2. CASE i >= k
      <4>1. i - k + 1 \in 1..n - k + 1 /\ k <= n /\ k + (i - k + 1) - 1 = i
        BY <3>2, <1>1
      <4>2. kept[i - k + 1] = s[k + (i - k + 1) - 1]
        BY <4>1, <1>5
      <4>3. i - k + 1 \in 1..Len(kept) /\ kept[i - k + 1] = s[i]
        BY <4>1, <4>2, <1>5
      <4> QED
        BY <4>3
    <3> QED
      BY <3>1, <3>2, <1>1
  <2> QED
    BY <2>1, <2>2, <2>3, <2>4
<1>9. ASSUME Distinct(s) PROVE Distinct(kept)
  <2> SUFFICES ASSUME NEW i \in 1..Len(kept), NEW j \in 1..Len(kept),
                      kept[i] # Other, kept[j] # Other, i # j
               PROVE  Key(kept[i]) # Key(kept[j])
    BY DEF Distinct
  <2>1. /\ k + i - 1 \in 1..n /\ kept[i] = s[k + i - 1]
        /\ k + j - 1 \in 1..n /\ kept[j] = s[k + j - 1] /\ k + i - 1 # k + j - 1
    BY <1>1, <1>5
  <2> QED
    BY <2>1, <1>9 DEF Distinct, n
<1>10. IsFiniteSet(Reports(gone))
  BY <1>6, ReportsOf
<1> QED
  BY <1>3, <1>5, <1>7, <1>8, <1>9, <1>10

\* The hours of reports.
HoursOf(S) == SumFunction([e \in S |-> e.hours])

LEMMA HoursOfNone == HoursOf({}) = 0
<1>1. PICK f : f = [e \in {} |-> e.hours]
  OBVIOUS
<1>2. DOMAIN f = {}
  BY <1>1
<1>3. SumFunction(f) = 0
  BY <1>2, SumOfNone DEF SumFunction
<1> QED
  BY <1>1, <1>3 DEF HoursOf

LEMMA HoursGrow ==
  ASSUME NEW S, IsFiniteSet(S), NEW x, x \notin S, \A e \in S \cup {x} : e.hours \in Int
  PROVE  HoursOf(S \cup {x}) = HoursOf(S) + x.hours
<1>1. PICK f, g : f = [e \in S \cup {x} |-> e.hours] /\ g = [e \in S |-> e.hours]
  OBVIOUS
<1>2. DOMAIN f = S \cup {x} /\ DOMAIN g = S
  BY <1>1
<1>3. \A e \in S \cup {x} : f[e] \in Int
  BY <1>1
<1>4. SumFunctionOnSet(f, S \cup {x}) = f[x] + SumFunctionOnSet(f, S)
  BY <1>3, SumAdds
<1>5. \A e \in S : f[e] = g[e]
  BY <1>1
<1>6. SumFunctionOnSet(f, S) = SumFunctionOnSet(g, S)
  BY <1>5, SumAgrees
<1>7. SumFunctionOnSet(f, S) \in Int /\ f[x] = x.hours
  BY <1>1, <1>3, SumTakesOne
<1>8. SumFunction(f) = SumFunctionOnSet(f, S \cup {x}) /\ SumFunction(g) = SumFunctionOnSet(g, S)
  BY <1>2 DEF SumFunction
<1>9. SumFunction(f) = SumFunction(g) + x.hours
  BY <1>3, <1>4, <1>6, <1>7, <1>8
<1> QED
  BY <1>1, <1>9 DEF HoursOf

-----------------------------------------------------------------------------
(* The reports of a day.                                                      *)

Sheets == {Report("timesheet", w, internals[w].spent) : w \in Staff}
There == {m \in Machine : machine[m].state # "removed"}
Uses == {Report("utilization", m, machine[m].hours - machine[m].base) : m \in There}

LEMMA DaysFit ==
  ASSUME NEW day \in 1..MaxDay
  PROVE  /\ DayTicks * (day - 1) \in Nat /\ DayTicks * MaxDay \in Nat
         /\ DayTicks * (day - 1) + DayTicks = DayTicks * day
         /\ DayTicks * (day - 1) + DayTicks <= DayTicks * MaxDay
         /\ DayTicks <= DayTicks * MaxDay
<1>1. day \in Nat /\ day >= 1 /\ day <= MaxDay /\ MaxDay \in Nat /\ DayTicks \in Nat /\ MaxDay >= 1
  OBVIOUS
<1>2. PICK k \in Nat : MaxDay = day + k
  <2>1. MaxDay - day \in Nat /\ MaxDay = day + (MaxDay - day)
    BY <1>1
  <2> QED
    BY <2>1
<1>3. PICK j \in Nat : day = j + 1
  <2>1. day - 1 \in Nat /\ day = (day - 1) + 1
    BY <1>1
  <2> QED
    BY <2>1
<1>4. day - 1 = j
  BY <1>3
<1>5. DayTicks * j \in Nat /\ DayTicks * k \in Nat
  BY <1>1
<1>6. DayTicks * (j + 1) = DayTicks * j + DayTicks
  BY <1>1
<1>7. DayTicks * ((j + 1) + k) = DayTicks * (j + 1) + DayTicks * k
  BY <1>1
<1> QED
  BY <1>1, <1>2, <1>3, <1>4, <1>5, <1>6, <1>7

LEMMA ReportIs ==
  ASSUME EngineOK, NEW kind \in {"timesheet", "utilization"}, NEW who \in Staff \cup Machine,
         NEW hours \in Hours
  PROVE  /\ Report(kind, who, hours) \in Event \ {Other}
         /\ Report(kind, who, hours).kind = kind /\ Report(kind, who, hours).who = who
         /\ Report(kind, who, hours).hours = hours
         /\ Report(kind, who, hours).day = engine.day
         /\ Report(kind, who, hours).life = engine.life
<1>1. engine.day \in 1..MaxDay /\ engine.life \in 1..MaxLife
  BY DEF EngineOK
<1> QED
  BY <1>1 DEF Report, Event, Other

LEMMA SpentFits ==
  ASSUME EngineOK, WorkersOK, NEW w \in Staff
  PROVE  internals[w].spent \in 0..engine.clock + 1 /\ internals[w].spent \in Hours
<1>1. engine.clock \in 0..DayTicks - 1 /\ engine.day \in 1..MaxDay
  BY DEF EngineOK
<1>2. internals[w].spent \in Nat
  BY DEF WorkersOK, Internals
<1>3. internals[w].spent = IF engine.day = 1 THEN engine.clock - Late ELSE engine.clock + 1
  BY DEF WorkersOK, EverySecondCounts
<1>4. internals[w].spent <= engine.clock + 1
  BY <1>1, <1>2, <1>3
<1>5. DayTicks <= DayTicks * MaxDay /\ DayTicks * MaxDay \in Nat
  BY <1>1, DaysFit
<1> QED
  BY <1>1, <1>2, <1>4, <1>5 DEF Hours

LEMMA HoursFit ==
  ASSUME EngineOK, MachinesOK, NEW m \in Machine
  PROVE  /\ machine[m].hours \in Hours /\ machine[m].base \in Hours
         /\ machine[m].hours - machine[m].base \in Hours
<1>1. engine.clock \in 0..DayTicks - 1 /\ engine.day \in 1..MaxDay
  BY DEF EngineOK
<1>2. machine[m].hours \in Nat /\ machine[m].base \in Nat
  BY DEF MachinesOK, Machines
<1>3. /\ machine[m].base <= machine[m].hours
      /\ machine[m].hours <= DayTicks * (engine.day - 1) + engine.clock
  BY DEF MachinesOK
<1>4. /\ DayTicks * (engine.day - 1) + DayTicks <= DayTicks * MaxDay
      /\ DayTicks * MaxDay \in Nat /\ DayTicks * (engine.day - 1) \in Nat
  BY <1>1, DaysFit
<1>5. machine[m].hours <= DayTicks * MaxDay
  BY <1>1, <1>2, <1>3, <1>4
<1> QED
  BY <1>2, <1>3, <1>4, <1>5 DEF Hours

LEMMA DistinctBoth ==
  ASSUME NEW s \in Seq(Event), NEW t \in Seq(Event), Distinct(s), Distinct(t),
         KeysApart(Reports(s), Reports(t))
  PROVE  Distinct(s \o t)
<1>1. /\ Len(s \o t) = Len(s) + Len(t) /\ Len(s) \in Nat /\ Len(t) \in Nat
      /\ \A i \in 1..Len(s) + Len(t) : (s \o t)[i] = IF i <= Len(s) THEN s[i] ELSE t[i - Len(s)]
  BY ConcatProperties
<1>2. PICK st : st = s \o t
  OBVIOUS
<1>3. /\ Reports(s) = {s[i] : i \in 1..Len(s)} \ {Other}
      /\ Reports(t) = {t[i] : i \in 1..Len(t)} \ {Other}
  BY ReportsOf
<1>4. ASSUME NEW i \in 1..Len(s) + Len(t)
      PROVE  \/ i \in 1..Len(s) /\ st[i] = s[i]
             \/ ~(i <= Len(s)) /\ i - Len(s) \in 1..Len(t) /\ st[i] = t[i - Len(s)]
  BY <1>1, <1>2
<1>5. ASSUME NEW i \in 1..Len(st), NEW j \in 1..Len(st), st[i] # Other, st[j] # Other, i # j
      PROVE  Key(st[i]) # Key(st[j])
  <2>1. i \in 1..Len(s) + Len(t) /\ j \in 1..Len(s) + Len(t)
    BY <1>1, <1>2
  <2>2. CASE i \in 1..Len(s) /\ st[i] = s[i] /\ j \in 1..Len(s) /\ st[j] = s[j]
    BY <2>2, <1>5 DEF Distinct
  <2>3. CASE /\ i \in 1..Len(s) /\ st[i] = s[i]
             /\ j - Len(s) \in 1..Len(t) /\ st[j] = t[j - Len(s)]
    <3>1. st[i] \in Reports(s) /\ st[j] \in Reports(t)
      BY <2>3, <1>3, <1>5
    <3> QED
      BY <3>1 DEF KeysApart
  <2>4. CASE /\ j \in 1..Len(s) /\ st[j] = s[j]
             /\ i - Len(s) \in 1..Len(t) /\ st[i] = t[i - Len(s)]
    <3>1. st[j] \in Reports(s) /\ st[i] \in Reports(t)
      BY <2>4, <1>3, <1>5
    <3> QED
      BY <3>1 DEF KeysApart
  <2>5. CASE /\ i - Len(s) \in 1..Len(t) /\ st[i] = t[i - Len(s)]
             /\ j - Len(s) \in 1..Len(t) /\ st[j] = t[j - Len(s)]
    <3>1. i - Len(s) # j - Len(s)
      BY <1>1, <1>5, <2>1
    <3> QED
      BY <2>5, <3>1, <1>5 DEF Distinct
  <2> QED
    BY <2>1, <2>2, <2>3, <2>4, <2>5, <1>4
<1> QED
  BY <1>2, <1>5 DEF Distinct

\* A sequence of a set of reports that differ in whose they are.
LEMMA SetAsEvents ==
  ASSUME NEW S, IsFiniteSet(S), S \subseteq Event \ {Other},
         \A e, f \in S : Key(e) = Key(f) => e = f
  PROVE  /\ SetToSeq(S) \in Seq(Event) /\ Reports(SetToSeq(S)) = S /\ Distinct(SetToSeq(S))
<1>1. PICK s : s = SetToSeq(S)
  OBVIOUS
<1>2. /\ s \in Seq(S) /\ Range(s) = S
      /\ \A i, j \in 1..Len(s) : s[i] = s[j] => i = j
  BY <1>1, SeqOfSet
<1>3. s \in Seq(Event)
  BY <1>2, SeqMonotonic
<1>4. Reports(s) = S
  BY <1>2 DEF Reports
<1>5. \A i \in 1..Len(s) : s[i] \in S
  BY <1>2
<1>6. Distinct(s)
  BY <1>2, <1>5 DEF Distinct
<1> QED
  BY <1>1, <1>3, <1>4, <1>6

LEMMA SheetsAre ==
  ASSUME EngineOK, WorkersOK
  PROVE  /\ IsFiniteSet(Sheets)
         /\ \A e \in Sheets : /\ e \in Event \ {Other} /\ e.kind = "timesheet" /\ e.who \in Staff
                              /\ e.day = engine.day /\ e.life = engine.life
         /\ \A w \in Staff : \E e \in Sheets : e.who = w
         /\ \A e, f \in Sheets : Key(e) = Key(f) => e = f
<1>1. PICK g : g = [w \in Staff |-> Report("timesheet", w, internals[w].spent)]
  OBVIOUS
<1>2. Sheets = {g[w] : w \in Staff}
  BY <1>1 DEF Sheets
<1>3. \A w \in Staff : /\ g[w] \in Event \ {Other} /\ g[w].kind = "timesheet" /\ g[w].who = w
                       /\ g[w].day = engine.day /\ g[w].life = engine.life
  <2> SUFFICES ASSUME NEW w \in Staff
               PROVE  /\ g[w] \in Event \ {Other} /\ g[w].kind = "timesheet" /\ g[w].who = w
                      /\ g[w].day = engine.day /\ g[w].life = engine.life
    OBVIOUS
  <2>1. internals[w].spent \in Hours
    BY SpentFits
  <2>2. g[w] = Report("timesheet", w, internals[w].spent)
    BY <1>1
  <2> QED
    BY <2>1, <2>2, ReportIs
<1>4. g \in Surjection(Staff, Sheets)
  BY <1>1, <1>2 DEF Surjection
<1>5. IsFiniteSet(Sheets)
  BY <1>4, FS_Surjection
<1>6. ASSUME NEW e \in Sheets, NEW f \in Sheets, Key(e) = Key(f) PROVE e = f
  <2>1. PICK v, w \in Staff : e = g[v] /\ f = g[w]
    BY <1>2
  <2>2. e.who = f.who
    BY <1>6 DEF Key
  <2> QED
    BY <2>1, <2>2, <1>3
<1> QED
  BY <1>2, <1>3, <1>5, <1>6

LEMMA UsesAre ==
  ASSUME EngineOK, MachinesOK
  PROVE  /\ IsFiniteSet(Uses)
         /\ \A e \in Uses : /\ e \in Event \ {Other} /\ e.kind = "utilization" /\ e.who \in There
                            /\ e.day = engine.day /\ e.life = engine.life
                            /\ e.hours = machine[e.who].hours - machine[e.who].base
         /\ \A m \in There : \E e \in Uses : e.who = m
         /\ \A e, f \in Uses : e.who = f.who => e = f
<1>1. PICK g : g = [m \in There |-> Report("utilization", m, machine[m].hours - machine[m].base)]
  OBVIOUS
<1>2. Uses = {g[m] : m \in There} /\ There \subseteq Machine
  BY <1>1 DEF Uses, There
<1>3. \A m \in There : /\ g[m] \in Event \ {Other} /\ g[m].kind = "utilization" /\ g[m].who = m
                       /\ g[m].day = engine.day /\ g[m].life = engine.life
                       /\ g[m].hours = machine[m].hours - machine[m].base
  <2> SUFFICES ASSUME NEW m \in There
               PROVE  /\ g[m] \in Event \ {Other} /\ g[m].kind = "utilization" /\ g[m].who = m
                      /\ g[m].day = engine.day /\ g[m].life = engine.life
                      /\ g[m].hours = machine[m].hours - machine[m].base
    OBVIOUS
  <2>1. machine[m].hours - machine[m].base \in Hours /\ m \in Staff \cup Machine
    BY <1>2, HoursFit
  <2>2. g[m] = Report("utilization", m, machine[m].hours - machine[m].base)
    BY <1>1
  <2> QED
    BY <2>1, <2>2, ReportIs
<1>4. g \in Surjection(There, Uses)
  BY <1>1, <1>2 DEF Surjection
<1>5. IsFiniteSet(There)
  BY <1>2, FS_Subset
<1>6. IsFiniteSet(Uses)
  BY <1>4, <1>5, FS_Surjection
<1> QED
  BY <1>2, <1>3, <1>6

\* What a day that ends reports is of that day, on everybody once.
LEMMA EndOfDayReports ==
  ASSUME EngineOK, WorkersOK, MachinesOK
  PROVE  /\ EndOfDay \in Seq(Event) /\ Reports(EndOfDay) = Sheets \cup Uses
         /\ Distinct(EndOfDay)
<1>1. /\ IsFiniteSet(Sheets) /\ Sheets \subseteq Event \ {Other}
      /\ \A e, f \in Sheets : Key(e) = Key(f) => e = f
  BY SheetsAre
<1>2. /\ IsFiniteSet(Uses) /\ Uses \subseteq Event \ {Other}
      /\ \A e, f \in Uses : Key(e) = Key(f) => e = f
  BY UsesAre DEF Key
<1>3. KeysApart(Sheets, Uses)
  BY SheetsAre, UsesAre DEF KeysApart, Key
<1>4. PICK s, t : s = SetToSeq(Sheets) /\ t = SetToSeq(Uses)
  OBVIOUS
<1>5. /\ s \in Seq(Event) /\ Reports(s) = Sheets /\ Distinct(s)
      /\ t \in Seq(Event) /\ Reports(t) = Uses /\ Distinct(t)
  BY <1>1, <1>2, <1>4, SetAsEvents
<1>6. EndOfDay = s \o t
  BY <1>4 DEF EndOfDay, Sheets, Uses, There
<1> QED
  BY <1>3, <1>5, <1>6, ReportsOfBoth, DistinctBoth

LEMMA ChangesReportNothing ==
  ASSUME NEW before
  PROVE  /\ Changes(before) \in Seq(Event) /\ Reports(Changes(before)) = {}
         /\ Distinct(Changes(before))
<1> DEFINE flips == {m \in Machine : before[m].state # "removed" /\ Flips(before[m])}
<1>1. IsFiniteSet(flips)
  BY FS_Subset
<1>2. Cardinality(flips) \in Nat
  BY <1>1, FS_CardinalityType
<1>3. PICK n \in Nat : n = Cardinality(flips)
  BY <1>2
<1> HIDE DEF flips
<1>4. PICK s : s = [i \in 1..n |-> Other]
  OBVIOUS
<1>5. Changes(before) = s
  BY <1>3, <1>4 DEF Changes, flips
<1>6. s \in Seq(Event) /\ \A i \in 1..Len(s) : s[i] = Other
  BY <1>4 DEF Event
<1>7. Reports(s) = {}
  BY <1>6, ReportsOf
<1>8. Distinct(s)
  BY <1>6 DEF Distinct
<1> QED
  BY <1>5, <1>6, <1>7, <1>8

\* Reports come into the buffer.
LEMMA PutKeeps ==
  ASSUME WayOK, OnceOK, NEW events \in Seq(Event), Distinct(events),
         \A r \in Reports(events), e \in All : Key(r) # Key(e),
         Put(events), UNCHANGED <<drain, ledger>>
  PROVE  WayOK' /\ OnceOK' /\ All' = All \cup Reports(events)
<1>1. PICK s : s = buffer \o events
  OBVIOUS
<1>2. buffer \in Seq(Event) /\ IsFiniteSet(lost)
  BY DEF WayOK
<1>3. s \in Seq(Event) /\ Reports(s) = Reports(buffer) \cup Reports(events)
  BY <1>1, <1>2, ReportsOfBoth
<1>4. \A r \in Reports(events) : /\ \A e \in Reports(buffer) : Key(r) # Key(e)
                                 /\ \A e \in ledger : Key(r) # Key(e)
                                 /\ \A e \in Reports(drain) : Key(r) # Key(e)
  BY DEF All
<1>5. KeysApart(Reports(buffer), Reports(events))
  BY <1>4 DEF KeysApart
<1>6. Distinct(s)
  BY <1>1, <1>2, <1>5, DistinctBoth DEF OnceOK
<1>7. buffer' = Kept(s) /\ lost' = lost \cup Dropped(s)
  BY <1>1 DEF Put
<1>8. /\ buffer' \in Seq(Event) /\ Len(buffer') <= Capacity /\ Distinct(buffer')
      /\ Reports(buffer') \cup Dropped(s) = Reports(s) /\ IsFiniteSet(Dropped(s))
  BY <1>3, <1>6, <1>7, KeptAndDropped
<1>9. IsFiniteSet(lost')
  BY <1>2, <1>7, <1>8, FS_Union
<1>10. WayOK'
  BY <1>8, <1>9 DEF WayOK
<1>11. Reports(buffer') \subseteq Reports(buffer) \cup Reports(events)
  BY <1>3, <1>8
<1>12. PICK new : new = Reports(buffer')
  OBVIOUS
<1>13. /\ KeysApart(new, Reports(drain)) /\ KeysApart(new, ledger) /\ Distinct(drain)
       /\ KeysApart(Reports(drain), ledger)
  BY <1>4, <1>11, <1>12 DEF OnceOK, KeysApart
<1>14. OnceOK'
  <2>1. Reports(buffer)' = new /\ Reports(drain)' = Reports(drain) /\ ledger' = ledger
    BY <1>12 DEF Reports
  <2>2. Distinct(buffer)' /\ Distinct(drain)'
    BY <1>8, <1>13 DEF Distinct
  <2>3. /\ KeysApart(Reports(buffer), Reports(drain))' /\ KeysApart(Reports(buffer), ledger)'
        /\ KeysApart(Reports(drain), ledger)'
    BY <1>13, <2>1 DEF KeysApart
  <2> QED
    BY <2>2, <2>3 DEF OnceOK
<1>15. All' = All \cup Reports(events)
  <2>1. Reports(buffer)' = new /\ Reports(drain)' = Reports(drain) /\ ledger' = ledger
    BY <1>12 DEF Reports
  <2>2. All' = ledger \cup lost' \cup new \cup Reports(drain)
    BY <2>1 DEF All
  <2> QED
    BY ONLY <2>2, <1>3, <1>7, <1>8, <1>12 DEF All
<1> QED
  BY <1>10, <1>14, <1>15

\* A report of the day that ends is of no day that is over.
LEMMA NewDay ==
  ASSUME EngineOK, OverOK, NEW r, r.day = engine.day, r.life = engine.life
  PROVE  \A e \in All : Key(r) # Key(e)
<1> SUFFICES ASSUME NEW e \in All, r.day = e.day, r.life = e.life
             PROVE  FALSE
  BY DEF Key
<1>1. e.day < engine.day /\ engine.day \in Nat
  <2>1. e.life = engine.life
    OBVIOUS
  <2>2. e.day < engine.day
    BY <2>1, Zenon DEF OverOK
  <2>3. engine.day \in 1..MaxDay
    BY ONLY EngineOK DEF EngineOK
  <2>4. engine.day \in Nat
    BY ONLY <2>3, SiteDayAssumption DEF SiteDayAssumption
  <2> QED
    BY <2>2, <2>4
<1>2. e.day = engine.day
  OBVIOUS
<1>3. PICK d \in Nat : d = engine.day
  BY <1>1
<1> QED
  BY ONLY <1>1, <1>2, <1>3

-----------------------------------------------------------------------------
(* A tick.                                                                    *)

Now == IF DayEnds THEN 0 ELSE engine.clock + 1
Workers0 == [w \in Staff |-> IF DayEnds THEN ResetDaily(internals[w]) ELSE internals[w]]
Machines0 == [m \in Machine |-> IF DayEnds THEN Based(machine[m]) ELSE machine[m]]

LEMMA TickIs ==
  ASSUME Tick
  PROVE  /\ DayEnds => engine.day < MaxDay
         /\ engine' = [engine EXCEPT !.clock = Now, !.day = IF DayEnds THEN @ + 1 ELSE @]
         /\ internals' \in [Staff -> UNION {Updated(Workers0[w], Now) : w \in Staff}]
         /\ \A w \in Staff : internals'[w] \in Updated(Workers0[w], Now)
         /\ machine' = [m \in Machine |-> Turned(Machines0[m])]
         /\ Put((IF DayEnds THEN EndOfDay ELSE <<>>) \o Changes(Machines0))
         /\ UNCHANGED <<drain, ledger, recs>>
BY DEF Tick, Now, Workers0, Machines0

LEMMA TickClock ==
  ASSUME EngineOK, Tick
  PROVE  /\ EngineOK' /\ engine'.life = engine.life /\ engine'.extra = engine.extra
         /\ engine'.clock = Now /\ Now \in 0..DayTicks - 1
         /\ engine.clock \in 0..DayTicks - 1 /\ engine.day \in 1..MaxDay
         /\ DayEnds => /\ engine.clock = DayTicks - 1 /\ Now = 0
                       /\ engine'.day = engine.day + 1 /\ engine'.day \in 1..MaxDay
         /\ ~DayEnds => Now = engine.clock + 1 /\ engine'.day = engine.day
<1>1. /\ engine \in [life: 1..MaxLife, day: 1..MaxDay, clock: 0..DayTicks - 1, extra: Nat]
      /\ engine.clock \in 0..DayTicks - 1 /\ engine.day \in 1..MaxDay
  BY DEF EngineOK
<1>2. /\ Now \in 0..DayTicks - 1
      /\ DayEnds => engine.clock = DayTicks - 1 /\ Now = 0
      /\ ~DayEnds => Now = engine.clock + 1
  BY <1>1 DEF Now, DayEnds
<1>3. PICK day : day = IF DayEnds THEN engine.day + 1 ELSE engine.day
  OBVIOUS
<1>4. day \in 1..MaxDay
  BY <1>1, <1>3, TickIs
<1>5. engine' = [engine EXCEPT !.clock = Now, !.day = day]
  BY <1>3, TickIs
<1>6. /\ engine'.life = engine.life /\ engine'.extra = engine.extra /\ engine'.clock = Now
      /\ engine'.day = day
      /\ engine' \in [life: 1..MaxLife, day: 1..MaxDay, clock: 0..DayTicks - 1, extra: Nat]
  <2>1. PICK now \in 0..DayTicks - 1 : now = Now
    BY <1>2
  <2>2. engine' = [engine EXCEPT !.clock = now, !.day = day]
    BY <1>5, <2>1
  <2>3. engine \in [life: 1..MaxLife, day: 1..MaxDay, clock: 0..DayTicks - 1, extra: Nat]
    BY <1>1
  <2>4. now \in 0..DayTicks - 1
    BY <2>1
  <2> QED
    BY ONLY <2>1, <2>2, <2>3, <2>4, <1>4
<1>7. EngineOK'
  BY <1>6 DEF EngineOK
<1> QED
  BY <1>1, <1>2, <1>3, <1>4, <1>6, <1>7

LEMMA TickWorkers ==
  ASSUME EngineOK, WorkersOK, Tick
  PROVE  WorkersOK'
<1>1. ASSUME NEW w \in Staff
      PROVE  /\ WorkerOK(internals'[w], Now)
             /\ internals'[w].spent = IF DayEnds THEN 1 ELSE internals[w].spent + 1
  <2>1. PICK i, x : i = internals[w] /\ x = internals'[w]
    OBVIOUS
  <2>2. WorkerOK(i, engine.clock)
    BY <2>1 DEF WorkersOK
  <2>3. x \in Updated(IF DayEnds THEN ResetDaily(i) ELSE i, Now) /\ Now \in 0..DayTicks - 1
    BY <2>1, TickIs, TickClock DEF Workers0
  <2>4. CASE DayEnds
    <3>1. Ready(ResetDaily(i), Now) /\ ResetDaily(i).spent = 0
      BY <2>2, <2>4, TickClock, ResetIsReady
    <3>2. x \in Updated(ResetDaily(i), Now)
      BY <2>3, <2>4
    <3>3. WorkerOK(x, Now) /\ x.spent = ResetDaily(i).spent + 1
      BY <2>3, <3>1, <3>2, UpdatedIsOK
    <3> QED
      BY <2>1, <2>4, <3>1, <3>3
  <2>5. CASE ~DayEnds
    <3>1. Ready(i, Now)
      BY <2>2, <2>5, <2>3, TickClock, NextIsReady
    <3>2. x \in Updated(i, Now)
      BY <2>3, <2>5
    <3>3. WorkerOK(x, Now) /\ x.spent = i.spent + 1
      BY <2>3, <3>1, <3>2, UpdatedIsOK
    <3> QED
      BY <2>1, <2>5, <3>3
  <2> QED
    BY <2>4, <2>5
<1>2. internals' \in [Staff -> Internals]
  <2>1. DOMAIN internals' = Staff /\ internals' = [w \in Staff |-> internals'[w]]
    BY TickIs
  <2>2. \A w \in Staff : internals'[w] \in Internals
    BY <1>1 DEF WorkerOK
  <2> QED
    BY <2>1, <2>2
<1>3. \A w \in Staff : internals[w].spent = IF engine.day = 1 THEN engine.clock - Late ELSE engine.clock + 1
  BY DEF WorkersOK, EverySecondCounts
<1>4. ASSUME NEW w \in Staff
      PROVE  internals'[w].spent = IF engine'.day = 1 THEN engine'.clock - Late ELSE engine'.clock + 1
  <2>1. /\ internals[w].spent = IF engine.day = 1 THEN engine.clock - Late ELSE engine.clock + 1
        /\ internals'[w].spent = IF DayEnds THEN 1 ELSE internals[w].spent + 1
    BY <1>1, <1>3
  <2> QED
    BY <2>1, TickClock
<1>5. EverySecondCounts'
  BY <1>4 DEF EverySecondCounts
<1>6. \A w \in Staff : WorkerOK(internals[w], engine.clock)'
  <2>1. engine'.clock = Now
    BY TickClock
  <2> SUFFICES ASSUME NEW w \in Staff PROVE WorkerOK(internals[w], engine.clock)'
    OBVIOUS
  <2>2. PICK x, now : x = internals'[w] /\ now = engine'.clock
    OBVIOUS
  <2>3. WorkerOK(x, now)
    BY <1>1, <2>1, <2>2
  <2> QED
    BY <2>2, <2>3 DEF WorkerOK, CountsOK, ComesFrom, UnderWay, Limit, Since
<1> QED
  BY <1>2, <1>5, <1>6 DEF WorkersOK

\* A machine's tick, after the day's end has set the base.
LEMMA TurnedIs ==
  ASSUME NEW m \in Machines
  PROVE  /\ Turned(m) \in Machines /\ Turned(m).base = m.base
         /\ Turned(m).hours = IF m.state = "removed" THEN m.hours ELSE m.hours + 1
<1>1. PICK flips \in BOOLEAN : flips <=> Flips(m)
  OBVIOUS
<1>2. CASE m.state = "removed"
  BY <1>2 DEF Turned
<1>3. CASE m.state # "removed"
  <2>1. PICK s : s = CASE Flips(m) /\ m.state = "operating" -> "idle"
                        [] Flips(m) /\ m.state = "idle" -> "operating"
                        [] ~Flips(m) -> m.state
    OBVIOUS
  <2>2. m.state \in {"operating", "idle"} /\ m.cycle \in Nat /\ m.hours \in Nat
    BY <1>3 DEF Machines
  <2>3. s \in {"operating", "idle", "removed"}
    <3>1. Flips(m) /\ m.state = "operating" => s = "idle"
      BY <2>1, Zenon
    <3>2. Flips(m) /\ m.state = "idle" => s = "operating"
      BY <2>1, Zenon
    <3>3. ~Flips(m) => s = m.state
      BY <2>1, Zenon
    <3> QED
      BY ONLY <3>1, <3>2, <3>3, <2>2
  <2>4. PICK c \in Nat : c = IF Flips(m) THEN 0 ELSE m.cycle + 1
    BY <2>2
  <2>5. Turned(m) = [m EXCEPT !.hours = m.hours + 1, !.cycle = c, !.state = s]
    <3>1. c = IF Flips(m) THEN 0 ELSE m.cycle + 1
      BY <2>4
    <3> QED
      BY ONLY <1>3, <2>1, <3>1, Zenon DEF Turned
  <2> QED
    <3>1. PICK h \in Nat : h = m.hours + 1
      BY <2>2
    <3>2. Turned(m) = [m EXCEPT !.hours = h, !.cycle = c, !.state = s]
      BY <2>5, <3>1
    <3>3. c \in Nat /\ h \in Nat
      OBVIOUS
    <3>4. m \in [state: {"operating", "idle", "removed"}, cycle: Nat, hours: Nat, base: Nat]
      BY DEF Machines
    <3>5. /\ Turned(m) \in [state: {"operating", "idle", "removed"}, cycle: Nat, hours: Nat, base: Nat]
          /\ Turned(m).base = m.base /\ Turned(m).hours = h
      BY ONLY <2>3, <3>2, <3>3, <3>4
    <3> QED
      BY <1>3, <3>1, <3>5 DEF Machines
<1> QED
  BY <1>2, <1>3

LEMMA BasedIs ==
  ASSUME NEW m \in Machines
  PROVE  /\ Based(m) \in Machines /\ Based(m).hours = m.hours /\ Based(m).state = m.state
         /\ Based(m).base = IF m.state = "removed" THEN m.base ELSE m.hours
BY DEF Based, Machines

LEMMA TickMachine ==
  ASSUME EngineOK, MachinesOK, Tick, NEW m \in Machine
  PROVE  /\ machine'[m] \in Machines
         /\ machine'[m].base = IF DayEnds /\ m \in There THEN machine[m].hours ELSE machine[m].base
         /\ machine[m].hours <= machine'[m].hours /\ machine'[m].hours <= machine[m].hours + 1
<1>1. PICK a, z : a = machine[m] /\ z = machine'[m]
  OBVIOUS
<1>2. a \in Machines
  BY <1>1 DEF MachinesOK
<1>3. z = Turned(IF DayEnds THEN Based(a) ELSE a)
  BY <1>1, TickIs DEF Machines0
<1>4. m \in There <=> a.state # "removed"
  BY <1>1 DEF There
<1>5. a.hours \in Nat
  BY <1>2 DEF Machines
<1>6. CASE DayEnds
  <2>1. PICK b : b = Based(a)
    OBVIOUS
  <2>2. z = Turned(b) /\ b \in Machines /\ b.hours = a.hours
        /\ b.base = IF a.state = "removed" THEN a.base ELSE a.hours
    BY <1>2, <1>3, <1>6, <2>1, BasedIs
  <2>3. z \in Machines /\ z.base = b.base
        /\ z.hours = IF b.state = "removed" THEN b.hours ELSE b.hours + 1
    BY <2>2, TurnedIs
  <2> QED
    BY <1>1, <1>4, <1>5, <1>6, <2>2, <2>3
<1>7. CASE ~DayEnds
  <2>1. z \in Machines /\ z.base = a.base
        /\ z.hours = IF a.state = "removed" THEN a.hours ELSE a.hours + 1
    BY <1>2, <1>3, <1>7, TurnedIs
  <2> QED
    BY <1>1, <1>4, <1>5, <1>7, <2>1
<1> QED
  BY <1>6, <1>7

LEMMA TickMachines ==
  ASSUME EngineOK, MachinesOK, Tick
  PROVE  MachinesOK'
<1>1. machine' \in [Machine -> Machines]
  BY TickIs, TickMachine
<1>2. ASSUME NEW m \in Machine
      PROVE  /\ machine'[m].base <= machine'[m].hours
             /\ machine'[m].hours <= DayTicks * (engine'.day - 1) + engine'.clock
  <2>1. /\ machine[m].hours \in Nat /\ machine[m].base \in Nat
        /\ machine[m].base <= machine[m].hours
        /\ machine[m].hours <= DayTicks * (engine.day - 1) + engine.clock
    BY DEF MachinesOK, Machines
  <2>2. machine'[m].hours \in Nat /\ machine'[m].base \in Nat
    BY <1>1 DEF Machines
  <2>3. /\ DayTicks * (engine.day - 1) \in Nat /\ engine.day \in 1..MaxDay
        /\ DayTicks * (engine.day - 1) + DayTicks = DayTicks * engine.day
    BY TickClock, DaysFit
  <2>4. DayTicks * (engine'.day - 1) + engine'.clock = DayTicks * (engine.day - 1) + engine.clock + 1
    <3>1. CASE DayEnds
      <4>1. engine'.day - 1 = engine.day /\ engine'.clock = 0 /\ engine.clock + 1 = DayTicks
        BY <2>3, <3>1, TickClock
      <4>2. DayTicks * (engine'.day - 1) = DayTicks * engine.day
        BY ONLY <4>1, Zenon
      <4>0. DayTicks * engine.day \in Nat
        BY <2>3
      <4>3. PICK a \in Nat, b \in Nat : a = DayTicks * (engine.day - 1) /\ b = DayTicks * engine.day
        BY <2>3, <4>0
      <4>4. a + DayTicks = b /\ b + 0 = a + engine.clock + 1
        BY <2>3, <4>1, <4>3, TickClock
      <4> QED
        BY <4>1, <4>2, <4>3, <4>4
    <3>2. CASE ~DayEnds
      BY <2>3, <3>2, TickClock
    <3> QED
      BY <3>1, <3>2
  <2>5. engine.clock \in Nat
    BY TickClock
  <2>6. PICK k \in Nat : k = DayTicks * (engine.day - 1) + engine.clock
    BY <2>3, <2>5
  <2>7. /\ machine'[m].base = IF DayEnds /\ m \in There THEN machine[m].hours ELSE machine[m].base
        /\ machine[m].hours <= machine'[m].hours /\ machine'[m].hours <= machine[m].hours + 1
    BY TickMachine
  <2>8. machine'[m].hours <= k + 1
    BY <2>1, <2>2, <2>6, <2>7
  <2> QED
    BY <2>1, <2>2, <2>4, <2>6, <2>7, <2>8
<1> QED
  BY <1>1, <1>2 DEF MachinesOK

\* What a tick reports.
LEMMA TickReports ==
  ASSUME EngineOK, WorkersOK, MachinesOK, WayOK, OverOK, OnceOK, Tick
  PROVE  /\ WayOK' /\ OnceOK'
         /\ All' = All \cup (IF DayEnds THEN Sheets \cup Uses ELSE {})
<1> DEFINE day == IF DayEnds THEN EndOfDay ELSE <<>>
<1>1. /\ day \in Seq(Event) /\ Distinct(day)
      /\ Reports(day) = IF DayEnds THEN Sheets \cup Uses ELSE {}
  BY EndOfDayReports, NoReports
<1>2. PICK d, c : d = day /\ c = Changes(Machines0)
  OBVIOUS
<1>3. /\ d \in Seq(Event) /\ Distinct(d) /\ Reports(d) = IF DayEnds THEN Sheets \cup Uses ELSE {}
      /\ c \in Seq(Event) /\ Distinct(c) /\ Reports(c) = {}
  BY <1>1, <1>2, ChangesReportNothing
<1>4. PICK s : s = d \o c
  OBVIOUS
<1>5. KeysApart(Reports(d), Reports(c))
  BY <1>3 DEF KeysApart
<1>6. /\ s \in Seq(Event) /\ Distinct(s)
      /\ Reports(s) = IF DayEnds THEN Sheets \cup Uses ELSE {}
  BY <1>3, <1>4, <1>5, ReportsOfBoth, DistinctBoth
<1>7. Put(s) /\ UNCHANGED <<drain, ledger>>
  BY <1>2, <1>4, TickIs
<1>8. ASSUME NEW r \in Reports(s), NEW e \in All PROVE Key(r) # Key(e)
  <2>1. r \in Sheets \cup Uses
    BY <1>6
  <2>2. r.day = engine.day /\ r.life = engine.life
    BY <2>1, SheetsAre, UsesAre
  <2> QED
    BY <2>2, NewDay
<1>9. WayOK' /\ OnceOK' /\ All' = All \cup Reports(s)
  BY <1>6, <1>7, <1>8, PutKeeps
<1> QED
  BY <1>6, <1>9

LEMMA TickOver ==
  ASSUME EngineOK, WorkersOK, MachinesOK, WayOK, OverOK, OnceOK, Tick
  PROVE  OverOK'
<1> SUFFICES ASSUME NEW e \in All'
             PROVE  /\ e \in Event \ {Other} /\ e.life <= engine'.life
                    /\ (e.life = engine'.life => e.day < engine'.day)
  BY DEF OverOK
<1>1. engine'.life = engine.life /\ engine.day \in Nat /\ engine.life \in Nat
      /\ engine'.day = IF DayEnds THEN engine.day + 1 ELSE engine.day
  BY TickClock DEF EngineOK
<1>2. CASE e \in All
  <2>1. /\ e \in Event \ {Other} /\ e.life <= engine.life
        /\ (e.life = engine.life => e.day < engine.day)
    BY <1>2 DEF OverOK
  <2>2. e.day \in Nat
    BY <2>1 DEF Event
  <2> QED
    BY <1>1, <2>1, <2>2
<1>3. CASE DayEnds /\ e \in Sheets \cup Uses
  <2>1. e \in Event \ {Other} /\ e.day = engine.day /\ e.life = engine.life
    BY <1>3, SheetsAre, UsesAre
  <2> QED
    BY <1>1, <1>3, <2>1
<1> QED
  BY <1>2, <1>3, TickReports

LEMMA TickLosses ==
  ASSUME EngineOK, WorkersOK, MachinesOK, WayOK, OverOK, OnceOK, OnlyKnownLosses, Tick
  PROVE  OnlyKnownLosses'
<1> SUFFICES ASSUME NEW w \in Staff, NEW d \in 1..engine'.day - 1
             PROVE  \E e \in All' : /\ e.kind = "timesheet" /\ e.who = w /\ e.day = d
                                    /\ e.life = engine'.life
  BY DEF OnlyKnownLosses, All
<1>1. engine'.life = engine.life /\ engine.day \in Nat
      /\ engine'.day = IF DayEnds THEN engine.day + 1 ELSE engine.day
  BY TickClock
<1>2. CASE d \in 1..engine.day - 1
  <2>1. \E e \in All : e.kind = "timesheet" /\ e.who = w /\ e.day = d /\ e.life = engine.life
    BY <1>2 DEF OnlyKnownLosses, All
  <2>2. All \subseteq All'
    BY TickReports
  <2> QED
    BY <1>1, <2>1, <2>2
<1>3. CASE DayEnds /\ d = engine.day
  <2>1. PICK e \in Sheets : e.who = w
    BY SheetsAre
  <2>2. e.kind = "timesheet" /\ e.day = d /\ e.life = engine.life
    BY <1>3, SheetsAre
  <2>3. e \in All'
    BY <1>3, TickReports
  <2> QED
    BY <1>1, <2>1, <2>2, <2>3
<1> QED
  BY <1>1, <1>2, <1>3

\* The reports on a machine.
Of(S, m, life) == {e \in S : e.kind = "utilization" /\ e.who = m /\ e.life = life}

LEMMA AddsUpIs ==
  UtilizationAddsUp <=> \A m \in Machine : HoursOf(Of(All, m, engine.life)) = machine[m].base
BY DEF UtilizationAddsUp, HoursOf, Of, All

LEMMA AllFinite == ASSUME WayOK PROVE IsFiniteSet(All)
<1>1. IsFiniteSet(Reports(buffer)) /\ IsFiniteSet(Reports(drain))
  BY ReportsOf DEF WayOK
<1>2. IsFiniteSet(ledger \cup lost)
  BY FS_Union DEF WayOK
<1>3. IsFiniteSet((ledger \cup lost) \cup Reports(buffer))
  BY <1>1, <1>2, FS_Union
<1>4. IsFiniteSet(((ledger \cup lost) \cup Reports(buffer)) \cup Reports(drain))
  BY <1>1, <1>3, FS_Union
<1> QED
  BY <1>4 DEF All

LEMMA TickAddsUp ==
  ASSUME EngineOK, WorkersOK, MachinesOK, WayOK, OverOK, OnceOK, UtilizationAddsUp, Tick
  PROVE  UtilizationAddsUp'
<1>1. PICK all, new, life : all = All /\ new = All' /\ life = engine.life
  OBVIOUS
<1>2. new = all \cup (IF DayEnds THEN Sheets \cup Uses ELSE {})
  BY <1>1, TickReports
<1>3. ASSUME NEW m \in Machine
      PROVE  HoursOf(Of(new, m, life)) = machine'[m].base
  <2>1. HoursOf(Of(all, m, life)) = machine[m].base
    BY <1>1, AddsUpIs
  <2>2. machine'[m].base = IF DayEnds /\ m \in There THEN machine[m].hours ELSE machine[m].base
    BY TickMachine
  <2>3. CASE DayEnds /\ m \in There
    <3>1. PICK r \in Uses : r.who = m
      BY <2>3, UsesAre
    <3>2. /\ r \in Event \ {Other} /\ r.kind = "utilization" /\ r.day = engine.day
          /\ r.life = life /\ r.hours = machine[m].hours - machine[m].base
      BY <1>1, <3>1, UsesAre
    <3>3. Of(new, m, life) = Of(all, m, life) \cup {r}
      <4>1. \A e \in Sheets : e.kind = "timesheet"
        BY SheetsAre
      <4>2. \A e \in Uses : e.who = m => e = r
        BY <3>1, UsesAre
      <4>3. new = all \cup Sheets \cup Uses
        BY <1>2, <2>3
      <4> QED
        BY ONLY <3>1, <3>2, <4>1, <4>2, <4>3 DEF Of
    <3>4. r \notin Of(all, m, life)
      <4>1. \A e \in All : Key(r) # Key(e)
        BY <1>1, <3>2, NewDay
      <4> QED
        BY <1>1, <4>1 DEF Of
    <3>5. IsFiniteSet(Of(all, m, life))
      <4>1. IsFiniteSet(all)
        BY <1>1, AllFinite
      <4> QED
        BY <4>1, FS_Subset DEF Of
    <3>6. \A e \in Of(all, m, life) \cup {r} : e.hours \in Int
      <4>1. \A e \in all : e \in Event \ {Other}
        BY <1>1 DEF OverOK
      <4>2. \A e \in Event \ {Other} : e.hours \in Hours
        BY DEF Event
      <4>3. \A h \in Hours : h \in Int
        BY DEF Hours
      <4> QED
        BY <4>1, <4>2, <4>3, <3>2 DEF Of
    <3>7. HoursOf(Of(new, m, life)) = machine[m].base + (machine[m].hours - machine[m].base)
      BY <2>1, <3>2, <3>3, <3>4, <3>5, <3>6, HoursGrow
    <3>8. machine[m].base \in Nat /\ machine[m].hours \in Nat
      BY DEF MachinesOK, Machines
    <3> QED
      BY <2>2, <2>3, <3>7, <3>8
  <2>4. CASE ~(DayEnds /\ m \in There)
    <3>1. \A e \in Sheets : e.kind = "timesheet"
      BY SheetsAre
    <3>2. \A e \in Uses : e.who \in There
      BY UsesAre
    <3>3. Of(new, m, life) = Of(all, m, life)
      BY <1>2, <2>4, <3>1, <3>2 DEF Of
    <3> QED
      BY <2>1, <2>2, <2>4, <3>3
  <2> QED
    BY <2>3, <2>4
<1>4. engine'.life = life
  BY <1>1, TickClock
<1> QED
  BY <1>1, <1>3, <1>4 DEF UtilizationAddsUp, HoursOf, Of, All

LEMMA TickKeeps == ASSUME DayInv, Tick PROVE DayInv'
<1>1. BoostsOK'
  BY TickClock, TickIs DEF DayInv, BoostsOK
<1>2. /\ EngineOK /\ WorkersOK /\ MachinesOK /\ WayOK /\ OverOK /\ OnceOK
      /\ UtilizationAddsUp /\ OnlyKnownLosses
  BY DEF DayInv
<1> QED
  BY <1>1, <1>2, TickClock, TickWorkers, TickMachines, TickReports, TickOver, TickLosses,
     TickAddsUp DEF DayInv

-----------------------------------------------------------------------------
(* The drain loop, recommendations and engines.                               *)

\* A step on the way of reports leaves the site as it is.
LEMMA SiteStays ==
  ASSUME DayInv, UNCHANGED <<engine, internals, machine>>, All' = All
  PROVE  /\ EngineOK' /\ WorkersOK' /\ MachinesOK' /\ OverOK' /\ UtilizationAddsUp'
         /\ OnlyKnownLosses'
<1>1. EngineOK' /\ MachinesOK'
  BY DEF DayInv, EngineOK, MachinesOK
<1>2. WorkersOK'
  <2>1. EverySecondCounts'
    BY DEF DayInv, WorkersOK, EverySecondCounts
  <2>2. \A w \in Staff : WorkerOK(internals[w], engine.clock)'
    <3> SUFFICES ASSUME NEW w \in Staff PROVE WorkerOK(internals[w], engine.clock)'
      OBVIOUS
    <3>1. WorkerOK(internals[w], engine.clock)
      BY DEF DayInv, WorkersOK
    <3> QED
      BY <3>1 DEF WorkerOK, CountsOK, ComesFrom, UnderWay, Limit, Since
  <2> QED
    BY <2>1, <2>2 DEF DayInv, WorkersOK
<1>3. OverOK'
  BY DEF DayInv, OverOK
<1>4. UtilizationAddsUp'
  <2>1. PICK all, life : all = All /\ life = engine.life
    OBVIOUS
  <2>2. \A m \in Machine : HoursOf(Of(all, m, life)) = machine[m].base
    BY <2>1, AddsUpIs DEF DayInv
  <2>3. all = All' /\ life = engine'.life
    BY <2>1
  <2> QED
    BY <2>2, <2>3 DEF UtilizationAddsUp, HoursOf, Of, All
<1>5. OnlyKnownLosses'
  <2>1. \A w \in Staff, d \in 1..engine.day - 1 :
          \E e \in All : e.kind = "timesheet" /\ e.who = w /\ e.day = d /\ e.life = engine.life
    BY DEF DayInv, OnlyKnownLosses, All
  <2>2. \A w \in Staff, d \in 1..engine'.day - 1 :
          \E e \in All' : e.kind = "timesheet" /\ e.who = w /\ e.day = d /\ e.life = engine'.life
    BY <2>1
  <2> QED
    BY <2>2 DEF OnlyKnownLosses, All
<1> QED
  BY <1>1, <1>2, <1>3, <1>4, <1>5

\* The way to the record, with every sequence and set on it given.
LEMMA OnceOnTheWay ==
  ASSUME NEW b, NEW d, NEW l, buffer' = b, drain' = d, ledger' = l,
         Distinct(b), Distinct(d), KeysApart(Reports(b), Reports(d)),
         KeysApart(Reports(b), l), KeysApart(Reports(d), l)
  PROVE  OnceOK'
<1>1. Reports(buffer)' = Reports(b) /\ Reports(drain)' = Reports(d)
  BY DEF Reports
<1>2. Distinct(buffer)' /\ Distinct(drain)'
  BY DEF Distinct
<1>3. /\ KeysApart(Reports(buffer), Reports(drain))' /\ KeysApart(Reports(buffer), ledger)'
      /\ KeysApart(Reports(drain), ledger)'
  BY <1>1 DEF KeysApart
<1> QED
  BY <1>2, <1>3 DEF OnceOK

LEMMA AllOnTheWay ==
  ASSUME NEW b, NEW d, NEW l, NEW x, buffer' = b, drain' = d, ledger' = l, lost' = x
  PROVE  All' = l \cup x \cup Reports(b) \cup Reports(d)
<1>1. Reports(buffer)' = Reports(b) /\ Reports(drain)' = Reports(d)
  BY DEF Reports
<1> QED
  BY <1>1 DEF All

LEMMA NobodyApart == \A S : KeysApart({}, S) /\ KeysApart(S, {})
BY DEF KeysApart

LEMMA WayStepKeeps ==
  ASSUME DayInv, WayOK', OnceOK', All' = All, UNCHANGED <<engine, internals, machine, recs>>
  PROVE  DayInv'
<1>1. BoostsOK'
  BY DEF DayInv, BoostsOK
<1> QED
  BY <1>1, SiteStays DEF DayInv

LEMMA TakeEventsKeeps == ASSUME DayInv, TakeEvents PROVE DayInv'
<1>1. WayOK /\ OnceOK
  BY DEF DayInv
<1>2. PICK b, e, l, x : b = buffer /\ e = <<>> /\ l = ledger /\ x = lost
  OBVIOUS
<1>3. /\ drain = e /\ buffer' = e /\ drain' = b /\ ledger' = l /\ lost' = x
      /\ UNCHANGED <<engine, internals, machine, recs>>
  BY <1>2 DEF TakeEvents
<1>4. e \in Seq(Event) /\ Len(e) = 0 /\ Reports(e) = {} /\ Distinct(e)
  BY <1>2, NoReports
<1>5. WayOK'
  BY <1>1, <1>2, <1>3, <1>4 DEF WayOK
<1>6. Distinct(b) /\ KeysApart(Reports(b), l)
  BY <1>1, <1>2 DEF OnceOK
<1>7. OnceOK'
  BY <1>3, <1>4, <1>6, NobodyApart, OnceOnTheWay
<1>8. All = l \cup x \cup Reports(b) \cup Reports(e)
  BY <1>2, <1>3 DEF All
<1>9. All' = All
  BY <1>3, <1>8, AllOnTheWay
<1> QED
  BY <1>3, <1>5, <1>7, <1>9, WayStepKeeps

LEMMA CommitEventsKeeps == ASSUME DayInv, CommitEvents PROVE DayInv'
<1>1. WayOK /\ OnceOK
  BY DEF DayInv
<1>2. PICK b, d, e, l, x : b = buffer /\ d = drain /\ e = <<>> /\ l = ledger /\ x = lost
  OBVIOUS
<1>3. /\ buffer' = b /\ drain' = e /\ ledger' = l \cup Reports(d) /\ lost' = x
      /\ UNCHANGED <<engine, internals, machine, recs>>
  BY <1>2 DEF CommitEvents
<1>4. e \in Seq(Event) /\ Len(e) = 0 /\ Reports(e) = {} /\ Distinct(e)
  BY <1>2, NoReports
<1>5. WayOK'
  <2>1. IsFiniteSet(Reports(d)) /\ IsFiniteSet(l)
    BY <1>1, <1>2, ReportsOf DEF WayOK
  <2>2. IsFiniteSet(l \cup Reports(d))
    BY <2>1, FS_Union
  <2> QED
    BY <1>1, <1>2, <1>3, <1>4, <2>2 DEF WayOK
<1>6. Distinct(b) /\ KeysApart(Reports(b), l) /\ KeysApart(Reports(b), Reports(d))
  BY <1>1, <1>2 DEF OnceOK
<1>7. KeysApart(Reports(b), l \cup Reports(d))
  BY <1>6 DEF KeysApart
<1>8. OnceOK'
  BY <1>3, <1>4, <1>6, <1>7, NobodyApart, OnceOnTheWay
<1>9. All = l \cup x \cup Reports(b) \cup Reports(d)
  BY <1>2 DEF All
<1>10. All' = (l \cup Reports(d)) \cup x \cup Reports(b) \cup Reports(e)
  BY <1>3, AllOnTheWay
<1>11. All' = All
  BY ONLY <1>4, <1>9, <1>10
<1> QED
  BY <1>3, <1>5, <1>8, <1>11, WayStepKeeps

LEMMA FailEventsKeeps == ASSUME DayInv, FailEvents PROVE DayInv'
<1>1. WayOK /\ OnceOK
  BY DEF DayInv
<1>2. PICK b, d, e, l, x : b = buffer /\ d = drain /\ e = <<>> /\ l = ledger /\ x = lost
  OBVIOUS
<1>3. /\ buffer' = b /\ drain' = e /\ ledger' = l /\ lost' = x \cup Reports(d)
      /\ UNCHANGED <<engine, internals, machine, recs>>
  BY <1>2 DEF FailEvents
<1>4. e \in Seq(Event) /\ Len(e) = 0 /\ Reports(e) = {} /\ Distinct(e)
  BY <1>2, NoReports
<1>5. WayOK'
  <2>1. IsFiniteSet(Reports(d)) /\ IsFiniteSet(x)
    BY <1>1, <1>2, ReportsOf DEF WayOK
  <2>2. IsFiniteSet(x \cup Reports(d))
    BY <2>1, FS_Union
  <2> QED
    BY <1>1, <1>2, <1>3, <1>4, <2>2 DEF WayOK
<1>6. Distinct(b) /\ KeysApart(Reports(b), l)
  BY <1>1, <1>2 DEF OnceOK
<1>8. OnceOK'
  BY <1>3, <1>4, <1>6, NobodyApart, OnceOnTheWay
<1>9. All = l \cup x \cup Reports(b) \cup Reports(d)
  BY <1>2 DEF All
<1>10. All' = l \cup (x \cup Reports(d)) \cup Reports(b) \cup Reports(e)
  BY <1>3, AllOnTheWay
<1>11. All' = All
  BY ONLY <1>4, <1>9, <1>10
<1> QED
  BY <1>3, <1>5, <1>8, <1>11, WayStepKeeps

\* A list that is shown advises no places for an elevator that has them.
LEMMA GotIs ==
  ASSUME BoostsOK, NEW c \in Got
  PROVE  /\ c \in [Rec -> {"none", "open", "applied"}]
         /\ engine.extra = 1 => c["boost"] # "open"
<1>1. CASE c = recs
  BY <1>1 DEF BoostsOK
<1>2. CASE c \in Fresh
  <2>1. c \in [Rec -> {"none", "open", "applied"}] /\ (c["boost"] # "none" => Advised["boost"])
    BY <1>2 DEF Fresh, Rec
  <2>2. Advised["boost"] => engine.extra = 0
    BY DEF Advised
  <2> QED
    BY <2>1, <2>2
<1> QED
  BY <1>1, <1>2 DEF Got

LEMMA LookKeeps == ASSUME DayInv, Look PROVE DayInv'
<1>1. /\ recs' \in Got /\ UNCHANGED <<engine, internals, machine, buffer, drain, ledger, lost>>
  BY DEF Look
<1>2. BoostsOK'
  <2>1. BoostsOK
    BY DEF DayInv
  <2>2. /\ recs' \in [Rec -> {"none", "open", "applied"}]
        /\ engine.extra = 1 => recs'["boost"] # "open"
    BY <1>1, <2>1, GotIs
  <2> QED
    BY <1>1, <2>1, <2>2 DEF BoostsOK
<1>3. All' = All
  BY <1>1 DEF All, Reports
<1>4. WayOK' /\ OnceOK'
  BY <1>1 DEF DayInv, WayOK, OnceOK, Distinct, KeysApart, Reports
<1> QED
  BY <1>1, <1>2, <1>3, <1>4, SiteStays DEF DayInv

LEMMA OtherIs ==
  /\ <<Other>> \in Seq(Event) /\ Reports(<<Other>>) = {} /\ Distinct(<<Other>>)
<1>1. PICK o \in Event : o = Other
  BY DEF Event
<1>2. <<o>> \in Seq(Event) /\ Len(<<o>>) = 1 /\ \A i \in 1..Len(<<o>>) : <<o>>[i] = o
  OBVIOUS
<1>3. PICK s : s = <<o>>
  OBVIOUS
<1>4. s \in Seq(Event) /\ \A i \in 1..Len(s) : s[i] = Other
  BY <1>1, <1>2, <1>3
<1>5. Reports(s) = {}
  BY <1>4, ReportsOf
<1>6. Distinct(s)
  BY <1>4 DEF Distinct
<1> QED
  BY <1>1, <1>3, <1>4, <1>5, <1>6

LEMMA ApplyKeeps == ASSUME DayInv, NEW r \in Rec, Apply(r) PROVE DayInv'
<1>1. PICK c \in Got :
        /\ c[r] = "open" /\ recs' = [c EXCEPT ![r] = "applied"] /\ Put(<<Other>>)
        /\ IF r = "boost"
           THEN engine' = [engine EXCEPT !.extra = @ + 1] /\ UNCHANGED machine
           ELSE /\ \E m \in {x \in Machine : machine[x].state # "removed"} :
                      machine' = [machine EXCEPT ![m].state = "removed"]
                /\ UNCHANGED engine
        /\ UNCHANGED <<internals, drain, ledger>>
  BY DEF Apply
<1>2. WayOK' /\ OnceOK' /\ All' = All
  <2>1. PICK s : s = <<Other>>
    OBVIOUS
  <2>2. s \in Seq(Event) /\ Reports(s) = {} /\ Distinct(s)
    BY <2>1, OtherIs
  <2>3. WayOK' /\ OnceOK' /\ All' = All \cup Reports(s)
    BY <1>1, <2>1, <2>2, PutKeeps DEF DayInv
  <2> QED
    BY <2>2, <2>3
<1>3. engine \in [life: 1..MaxLife, day: 1..MaxDay, clock: 0..DayTicks - 1, extra: Nat]
  BY DEF DayInv, EngineOK
<1>4. /\ engine'.life = engine.life /\ engine'.day = engine.day /\ engine'.clock = engine.clock
      /\ EngineOK' /\ engine'.extra = IF r = "boost" THEN engine.extra + 1 ELSE engine.extra
  <2>1. engine.extra \in Nat
    BY <1>3
  <2>2. CASE r = "boost"
    <3>1. PICK n \in Nat : n = engine.extra + 1
      BY <2>1
    <3>2. engine' = [engine EXCEPT !.extra = n]
      BY <1>1, <2>2, <3>1
    <3> QED
      BY <1>3, <2>2, <3>1, <3>2 DEF EngineOK
  <2>3. CASE r # "boost"
    BY <1>1, <1>3, <2>3 DEF EngineOK
  <2> QED
    BY <2>2, <2>3
<1>5. BoostsOK'
  <2>1. BoostsOK
    BY DEF DayInv
  <2>2. /\ c \in [Rec -> {"none", "open", "applied"}]
        /\ engine.extra = 1 => c["boost"] # "open"
    BY <2>1, GotIs
  <2>3. engine.extra \in {0, 1} /\ "boost" \in Rec
    BY <2>1 DEF BoostsOK, Rec
  <2>4. recs' \in [Rec -> {"none", "open", "applied"}]
    BY <1>1, <2>2
  <2>5. CASE r = "boost"
    BY <1>1, <1>4, <2>2, <2>3, <2>4, <2>5 DEF BoostsOK
  <2>6. CASE r # "boost"
    <3>1. recs'["boost"] = c["boost"]
      BY <1>1, <2>2, <2>3, <2>6
    <3> QED
      BY <1>4, <2>2, <2>3, <2>4, <2>6, <3>1 DEF BoostsOK
  <2> QED
    BY <2>5, <2>6
<1>6. /\ machine' \in [Machine -> Machines]
      /\ \A m \in Machine : machine'[m].base = machine[m].base /\ machine'[m].hours = machine[m].hours
  <2>1. machine \in [Machine -> Machines]
    BY DEF DayInv, MachinesOK
  <2>2. CASE r = "boost"
    BY <1>1, <2>1, <2>2
  <2>3. CASE r # "boost"
    <3>1. PICK m \in Machine : machine' = [machine EXCEPT ![m].state = "removed"]
      BY <1>1, <2>3
    <3>2. PICK a \in Machines : a = machine[m]
      BY <2>1
    <3>3. PICK z : z = [a EXCEPT !.state = "removed"]
      OBVIOUS
    <3>4. z \in Machines /\ z.base = a.base /\ z.hours = a.hours
      BY <3>3 DEF Machines
    <3>5. machine' = [machine EXCEPT ![m] = z]
      BY <3>1, <3>2, <3>3
    <3> QED
      BY ONLY <2>1, <3>2, <3>4, <3>5
  <2> QED
    BY <2>2, <2>3
<1>7. MachinesOK'
  <2>1. \A m \in Machine : /\ machine[m].base <= machine[m].hours
                           /\ machine[m].hours <= DayTicks * (engine.day - 1) + engine.clock
    BY DEF DayInv, MachinesOK
  <2>2. \A m \in Machine : /\ machine'[m].base <= machine'[m].hours
                           /\ machine'[m].hours <= DayTicks * (engine'.day - 1) + engine'.clock
    BY <2>1, <1>4, <1>6
  <2> QED
    BY <1>6, <2>2 DEF MachinesOK
<1>8. WorkersOK'
  <2>1. EverySecondCounts'
    BY <1>1, <1>4 DEF DayInv, WorkersOK, EverySecondCounts
  <2>2. \A w \in Staff : WorkerOK(internals[w], engine.clock)'
    <3> SUFFICES ASSUME NEW w \in Staff PROVE WorkerOK(internals[w], engine.clock)'
      OBVIOUS
    <3>1. WorkerOK(internals[w], engine.clock)
      BY DEF DayInv, WorkersOK
    <3> QED
      BY <1>1, <1>4, <3>1 DEF WorkerOK, CountsOK, ComesFrom, UnderWay, Limit, Since
  <2> QED
    BY <1>1, <2>1, <2>2 DEF DayInv, WorkersOK
<1>9. OverOK'
  <2>1. \A e \in All : /\ e \in Event \ {Other} /\ e.life <= engine.life
                       /\ (e.life = engine.life => e.day < engine.day)
    BY DEF DayInv, OverOK
  <2> QED
    BY <1>2, <1>4, <2>1 DEF OverOK
<1>10. UtilizationAddsUp'
  <2>1. PICK all, life : all = All /\ life = engine.life
    OBVIOUS
  <2>2. \A m \in Machine : HoursOf(Of(all, m, life)) = machine[m].base
    BY <2>1, AddsUpIs DEF DayInv
  <2>3. all = All' /\ life = engine'.life
    BY <1>2, <1>4, <2>1
  <2> QED
    BY <1>6, <2>2, <2>3 DEF UtilizationAddsUp, HoursOf, Of, All
<1>11. OnlyKnownLosses'
  <2>1. \A w \in Staff, d \in 1..engine.day - 1 :
          \E e \in All : e.kind = "timesheet" /\ e.who = w /\ e.day = d /\ e.life = engine.life
    BY DEF DayInv, OnlyKnownLosses, All
  <2>2. \A w \in Staff, d \in 1..engine'.day - 1 :
          \E e \in All' : e.kind = "timesheet" /\ e.who = w /\ e.day = d /\ e.life = engine'.life
    BY <1>2, <1>4, <2>1
  <2> QED
    BY <2>2 DEF OnlyKnownLosses, All
<1> QED
  BY <1>2, <1>4, <1>5, <1>7, <1>8, <1>9, <1>10, <1>11 DEF DayInv

LEMMA NewWorkerOK == WorkerOK(NewWorker, Late)
<1>1. PICK x : x = NewWorker
  OBVIOUS
<1>2. Zero \in [Trip -> Nat] /\ Zero \in [Trip -> 0..DayTicks - 1] /\ \A t \in Trip : Zero[t] = 0
  BY DEF Zero
<1>3. PICK z : z = Zero
  OBVIOUS
<1>4. "working" \in WorkerState
  BY DEF WorkerState
<1>5. /\ x \in Internals /\ x.state = "working" /\ x.from = "none"
      /\ x.trips = z /\ x.rounds = z /\ x.spent = 0
  <2>1. x = [state |-> "working", left |-> 0, from |-> "none", start |-> z,
             trips |-> z, rounds |-> z, spent |-> 0]
    BY <1>1, <1>3 DEF NewWorker
  <2>2. z \in [Trip -> Nat] /\ z \in [Trip -> 0..DayTicks - 1]
    BY <1>2, <1>3
  <2> QED
    BY ONLY <2>1, <2>2, <1>4, ZeroLeft DEF Internals
<1>6. \A t \in Trip : z[t] = 0
  BY <1>2, <1>3
<1>7. CountsOK(x)
  BY <1>5, <1>6 DEF CountsOK
<1>8. ComesFrom(x) /\ \A t \in Trip : ~UnderWay(x, t)
  BY <1>5 DEF ComesFrom, UnderWay
<1> QED
  BY <1>1, <1>5, <1>7, <1>8 DEF WorkerOK

\* A new engine, or a new document in one.
Begins ==
    /\ EngineOK /\ engine.day = 1 /\ engine.clock = Late /\ engine.extra = 0
    /\ internals = [w \in Staff |-> NewWorker] /\ machine = [m \in Machine |-> NewMachine]
    /\ recs = NoRecs /\ WayOK /\ OverOK /\ OnceOK
    /\ \A e \in All : e.life < engine.life

LEMMA FreshSite == Begins => DayInv
<1> SUFFICES ASSUME Begins PROVE DayInv
  OBVIOUS
<1>1. /\ EngineOK /\ engine.day = 1 /\ engine.clock = Late /\ engine.extra = 0
      /\ internals = [w \in Staff |-> NewWorker] /\ machine = [m \in Machine |-> NewMachine]
      /\ recs = NoRecs /\ WayOK /\ OverOK /\ OnceOK
  BY DEF Begins
<1>2. WorkersOK
  <2>1. PICK x : x = NewWorker
    OBVIOUS
  <2>2. WorkerOK(x, Late) /\ x.spent = 0 /\ x \in Internals
    BY <2>1, NewWorkerOK DEF NewWorker, WorkerOK
  <2>3. internals = [w \in Staff |-> x]
    BY <1>1, <2>1
  <2>4. EverySecondCounts
    BY <1>1, <2>2, <2>3 DEF EverySecondCounts
  <2>5. \A w \in Staff : WorkerOK(internals[w], engine.clock)
    BY <1>1, <2>2, <2>3
  <2> QED
    BY <2>2, <2>3, <2>4, <2>5 DEF WorkersOK
<1>3. /\ NewMachine \in Machines /\ NewMachine.hours = 0 /\ NewMachine.base = 0
  BY DEF NewMachine, Machines
<1>4. MachinesOK
  <2>1. machine \in [Machine -> Machines]
    BY <1>1, <1>3
  <2>2. \A m \in Machine : machine[m].base = 0 /\ machine[m].hours = 0
    BY <1>1, <1>3
  <2>3. DayTicks * (engine.day - 1) + engine.clock >= 0
    <3>1. engine.day - 1 = 0 /\ engine.clock \in Nat
      BY <1>1
    <3>2. DayTicks * 0 = 0
      OBVIOUS
    <3>3. DayTicks * (engine.day - 1) = DayTicks * 0
      BY ONLY <3>1, Zenon
    <3> QED
      BY <3>1, <3>2, <3>3
  <2> QED
    BY <2>1, <2>2, <2>3 DEF MachinesOK
<1>5. UtilizationAddsUp
  <2>1. ASSUME NEW m \in Machine PROVE HoursOf(Of(All, m, engine.life)) = machine[m].base
    <3>1. Of(All, m, engine.life) = {}
      <4>1. \A e \in All : e.life # engine.life
        <5> SUFFICES ASSUME NEW e \in All PROVE e.life # engine.life
          OBVIOUS
        <5>1. e.life < engine.life
          BY DEF Begins
        <5>2. engine.life \in 1..MaxLife
          BY ONLY <1>1 DEF EngineOK
        <5> QED
          BY <5>1, <5>2
      <4> QED
        BY <4>1 DEF Of
    <3> QED
      BY <1>1, <1>3, <3>1, HoursOfNone
  <2> QED
    BY <2>1, AddsUpIs
<1>6. OnlyKnownLosses
  BY <1>1 DEF OnlyKnownLosses
<1>7. BoostsOK
  BY <1>1 DEF BoostsOK, NoRecs, Rec
<1> QED
  BY <1>1, <1>2, <1>4, <1>5, <1>6, <1>7 DEF DayInv

LEMMA StartsFresh == DayInit => DayInv
<1> SUFFICES ASSUME DayInit PROVE Begins
  BY FreshSite
<1>1. EngineOK /\ engine.day = 1 /\ engine.clock = Late /\ engine.extra = 0
  BY DEF DayInit, EngineOK
<1>2. All = {}
  BY NoReports DEF DayInit, All
<1>3. WayOK
  BY NoReports, FS_EmptySet DEF DayInit, WayOK
<1>4. OnceOK
  BY NoReports, NobodyApart DEF DayInit, OnceOK
<1>5. OverOK
  BY <1>2 DEF OverOK
<1> QED
  BY <1>1, <1>2, <1>3, <1>4, <1>5 DEF DayInit, Begins

\* Reports of an engine before are there, and none of the new one.
LEMMA BeginsAgain ==
  ASSUME DayInv, engine.life < MaxLife, Fresher(engine.life + 1), WayOK', OnceOK', All' = All
  PROVE  DayInv'
<1>1. engine \in [life: 1..MaxLife, day: 1..MaxDay, clock: 0..DayTicks - 1, extra: Nat]
  BY DEF DayInv, EngineOK
<1>2. PICK life \in 1..MaxLife : life = engine.life + 1
  BY <1>1
<1>3. /\ engine' = [life |-> life, day |-> 1, clock |-> Late, extra |-> 0]
      /\ internals' = [w \in Staff |-> NewWorker] /\ machine' = [m \in Machine |-> NewMachine]
      /\ recs' = NoRecs
  BY <1>2 DEF Fresher
<1>4. EngineOK' /\ engine'.day = 1 /\ engine'.clock = Late /\ engine'.extra = 0 /\ engine'.life = life
  BY <1>3 DEF EngineOK
<1>5. ASSUME NEW e \in All PROVE e \in Event \ {Other} /\ e.life < life
  <2>1. e \in Event \ {Other} /\ e.life <= engine.life
    BY DEF DayInv, OverOK
  <2>2. e.life \in Nat
    BY <2>1 DEF Event
  <2> QED
    BY <1>1, <1>2, <2>1, <2>2
<1>6. ASSUME NEW e \in All'
      PROVE  /\ e \in Event \ {Other} /\ e.life <= engine'.life /\ e.life < engine'.life
             /\ e.life # engine'.life
  <2>1. e \in Event \ {Other} /\ e.life < life
    BY <1>5
  <2>2. e.life \in Nat
    BY <2>1 DEF Event
  <2> QED
    BY <1>4, <2>1, <2>2
<1>7. OverOK'
  BY <1>6 DEF OverOK
<1>8. Begins'
  BY <1>3, <1>4, <1>6, <1>7 DEF Begins
<1> QED
  BY <1>8, FreshSite, PTL

LEMMA LoadKeeps == ASSUME DayInv, Load PROVE DayInv'
<1>1. WayOK /\ OnceOK
  BY DEF DayInv
<1>2. PICK b, d, e, l, x : b = buffer /\ d = drain /\ e = <<>> /\ l = ledger /\ x = lost
  OBVIOUS
<1>3. /\ buffer' = e /\ drain' = d /\ ledger' = l /\ lost' = x \cup Reports(b)
      /\ engine.life < MaxLife /\ Fresher(engine.life + 1)
  BY <1>2 DEF Load, Fresher
<1>4. e \in Seq(Event) /\ Len(e) = 0 /\ Reports(e) = {} /\ Distinct(e)
  BY <1>2, NoReports
<1>5. WayOK'
  <2>1. IsFiniteSet(Reports(b)) /\ IsFiniteSet(x)
    BY <1>1, <1>2, ReportsOf DEF WayOK
  <2>2. IsFiniteSet(x \cup Reports(b))
    BY <2>1, FS_Union
  <2> QED
    BY <1>1, <1>2, <1>3, <1>4, <2>2 DEF WayOK
<1>6. Distinct(d) /\ KeysApart(Reports(d), l)
  BY <1>1, <1>2 DEF OnceOK
<1>7. OnceOK'
  BY <1>3, <1>4, <1>6, NobodyApart, OnceOnTheWay
<1>8. All = l \cup x \cup Reports(b) \cup Reports(d)
  BY <1>2 DEF All
<1>9. All' = l \cup (x \cup Reports(b)) \cup Reports(e) \cup Reports(d)
  BY <1>3, AllOnTheWay
<1>10. All' = All
  BY ONLY <1>4, <1>8, <1>9
<1> QED
  BY <1>3, <1>5, <1>7, <1>10, BeginsAgain

LEMMA RestartKeeps == ASSUME DayInv, Restart PROVE DayInv'
<1>1. WayOK /\ OnceOK
  BY DEF DayInv
<1>2. PICK b, d, e, l, x : b = buffer /\ d = drain /\ e = <<>> /\ l = ledger /\ x = lost
  OBVIOUS
<1>3. /\ buffer' = e /\ drain' = e /\ ledger' = l /\ lost' = x \cup Reports(b) \cup Reports(d)
      /\ engine.life < MaxLife /\ Fresher(engine.life + 1)
  BY <1>2 DEF Restart, Fresher
<1>4. e \in Seq(Event) /\ Len(e) = 0 /\ Reports(e) = {} /\ Distinct(e)
  BY <1>2, NoReports
<1>5. WayOK'
  <2>1. IsFiniteSet(Reports(b)) /\ IsFiniteSet(Reports(d)) /\ IsFiniteSet(x)
    BY <1>1, <1>2, ReportsOf DEF WayOK
  <2>2. IsFiniteSet(x \cup Reports(b))
    BY <2>1, FS_Union
  <2>3. IsFiniteSet((x \cup Reports(b)) \cup Reports(d))
    BY <2>1, <2>2, FS_Union
  <2> QED
    BY <1>1, <1>2, <1>3, <1>4, <2>3 DEF WayOK
<1>7. OnceOK'
  BY <1>3, <1>4, NobodyApart, OnceOnTheWay
<1>8. All = l \cup x \cup Reports(b) \cup Reports(d)
  BY <1>2 DEF All
<1>9. All' = l \cup (x \cup Reports(b) \cup Reports(d)) \cup Reports(e) \cup Reports(e)
  BY <1>3, AllOnTheWay
<1>10. All' = All
  BY ONLY <1>4, <1>8, <1>9
<1> QED
  BY <1>3, <1>5, <1>7, <1>10, BeginsAgain

LEMMA DayStuttersKeep == ASSUME DayInv, UNCHANGED dayVars PROVE DayInv'
<1>1. UNCHANGED <<engine, internals, machine, buffer, drain, ledger, lost, recs>>
  BY DEF dayVars
<1>2. BoostsOK'
  BY <1>1 DEF DayInv, BoostsOK
<1>3. All' = All
  BY <1>1 DEF All, Reports
<1>4. WayOK' /\ OnceOK'
  BY <1>1 DEF DayInv, WayOK, OnceOK, Distinct, KeysApart, Reports
<1> QED
  BY <1>1, <1>2, <1>3, <1>4, WayStepKeeps

LEMMA DayStepKeeps == DayInv /\ [DayNext]_dayVars => DayInv'
BY TickKeeps, TakeEventsKeeps, CommitEventsKeeps, FailEventsKeeps, LookKeeps, ApplyKeeps,
   LoadKeeps, RestartKeeps, DayStuttersKeep DEF DayNext

LEMMA DayInvariant == DaySpec => []DayInv
BY StartsFresh, DayStepKeeps, PTL DEF DaySpec

-----------------------------------------------------------------------------
(* What holds of every site, for any staff and machines.                      *)

LEMMA DayTypes == DayInv => DayTypeOK
<1> SUFFICES ASSUME DayInv PROVE DayTypeOK
  OBVIOUS
<1>1. /\ EngineOK /\ WorkersOK /\ MachinesOK /\ WayOK /\ OverOK
  BY DEF DayInv
<1>2. ASSUME NEW w \in Staff
      PROVE  /\ internals[w].state \in WorkerState
             /\ internals[w].left \in UNION {0..n : n \in Walk \cup {0}}
             /\ internals[w].from \in {"none", "toilet", "break"}
             /\ internals[w].start \in [Trip -> 0..DayTicks - 1]
             /\ internals[w].trips \in [Trip -> 0..DayTicks]
             /\ internals[w].rounds \in [Trip -> 0..DayTicks]
             /\ internals[w].spent \in 0..DayTicks
  <2>1. PICK x : x = internals[w]
    OBVIOUS
  <2>2. x \in Internals /\ CountsOK(x)
    BY <1>1, <2>1 DEF WorkersOK, WorkerOK
  <2>3. x.spent \in 0..DayTicks
    <3>1. x.spent \in 0..engine.clock + 1 /\ engine.clock \in 0..DayTicks - 1
      BY <1>1, <2>1, SpentFits DEF EngineOK
    <3> QED
      BY <3>1
  <2>4. /\ x.state \in WorkerState /\ x.left \in UNION {0..n : n \in Walk \cup {0}}
        /\ x.from \in {"none", "toilet", "break"} /\ x.start \in [Trip -> 0..DayTicks - 1]
        /\ x.trips \in [Trip -> Nat] /\ x.rounds \in [Trip -> Nat]
    BY <2>2 DEF Internals
  <2>5. ASSUME NEW t \in Trip PROVE x.trips[t] \in 0..DayTicks /\ x.rounds[t] \in 0..DayTicks
    <3>1. x.rounds[t] <= x.trips[t] /\ x.trips[t] <= x.spent
      BY <2>2 DEF CountsOK
    <3>2. x.trips[t] \in Nat /\ x.rounds[t] \in Nat
      BY <2>4
    <3> QED
      BY <2>3, <3>1, <3>2
  <2>6. x.trips \in [Trip -> 0..DayTicks] /\ x.rounds \in [Trip -> 0..DayTicks]
    BY <2>4, <2>5
  <2> QED
    BY <2>1, <2>3, <2>4, <2>6
<1>3. machine \in [Machine -> [state: {"operating", "idle", "removed"}, cycle: Nat,
                               hours: Hours, base: Hours]]
  <2>1. machine \in [Machine -> Machines]
    BY <1>1 DEF MachinesOK
  <2>2. ASSUME NEW m \in Machine
        PROVE  machine[m] \in [state: {"operating", "idle", "removed"}, cycle: Nat,
                               hours: Hours, base: Hours]
    <3>1. machine[m].hours \in Hours /\ machine[m].base \in Hours
      BY <1>1, HoursFit
    <3>2. machine[m] \in Machines
      BY <2>1
    <3> QED
      BY ONLY <3>1, <3>2 DEF Machines
  <2> QED
    BY <2>1, <2>2
<1>4. Range(buffer) \cup Range(drain) \cup ledger \cup lost \subseteq Event
  <2>1. Range(buffer) \subseteq Event /\ Range(drain) \subseteq Event
    BY <1>1, RangeOfSeq DEF WayOK
  <2>2. \A e \in All : e \in Event
    BY <1>1 DEF OverOK
  <2>3. ledger \subseteq All /\ lost \subseteq All
    BY DEF All
  <2> QED
    BY <2>1, <2>2, <2>3
<1> QED
  BY <1>1, <1>2, <1>3, <1>4 DEF DayTypeOK, EngineOK, WayOK

\* The reports of a day do not contradict each other on their way.
LEMMA OnceIsADay == DayInv => OneReportADay
<1> SUFFICES ASSUME DayInv PROVE OneReportADay
  OBVIOUS
<1>1. /\ buffer \in Seq(Event) /\ drain \in Seq(Event) /\ OnceOK /\ OverOK
  BY DEF DayInv, WayOK
<1>2. PICK way : way = buffer \o drain
  OBVIOUS
<1>3. Distinct(way) /\ way \in Seq(Event) /\ Reports(way) = Reports(buffer) \cup Reports(drain)
  BY <1>1, <1>2, DistinctBoth, ReportsOfBoth DEF OnceOK
<1>4. \A i, j \in 1..Len(way) :
         way[i] # Other /\ way[j] # Other /\ i # j
           => <<way[i].kind, way[i].who, way[i].day, way[i].life>>
                # <<way[j].kind, way[j].who, way[j].day, way[j].life>>
  BY <1>3 DEF Distinct, Key
<1>5. ASSUME NEW i \in 1..Len(way), NEW e \in ledger
      PROVE  <<way[i].kind, way[i].who, way[i].day, way[i].life>>
                # <<e.kind, e.who, e.day, e.life>>
  <2>1. CASE way[i] = Other
    <3>1. e \in Event \ {Other}
      BY <1>1 DEF OverOK, All
    <3>2. e.kind \in {"timesheet", "utilization"}
      BY <3>1 DEF Event
    <3>3. way[i].kind = "other"
      BY <2>1 DEF Other
    <3> QED
      BY <3>2, <3>3
  <2>2. CASE way[i] # Other
    <3>1. way[i] \in Reports(way)
      BY <1>3, <2>2, ReportsOf
    <3>2. way[i] \in Reports(buffer) \/ way[i] \in Reports(drain)
      BY <1>3, <3>1
    <3>3. Key(way[i]) # Key(e)
      BY <1>1, <3>2 DEF OnceOK, KeysApart
    <3> QED
      BY <3>3 DEF Key
  <2> QED
    BY <2>1, <2>2
<1> QED
  BY <1>2, <1>4, <1>5 DEF OneReportADay

\* The states of a site are of their types: no counter leaves its day, no report
\* is of a worker, machine, day or engine there is not (SimulationEngine.tick).
THEOREM DayTypeCorrect == DaySpec => []DayTypeOK
BY DayInvariant, DayTypes, PTL

\* Timesheets add up to the day, trips that are timed were counted on their day,
\* the reports on a machine add up to its hours (worker_behavior.update_worker,
\* equipment_behavior.emit_end_of_day).
THEOREM DayAddsUpAlways == DaySpec => []DayAddsUp
<1>1. DayInv => DayAddsUp
  <2> SUFFICES ASSUME DayInv PROVE RoundTripsHaveTrips
    BY DEF DayInv, WorkersOK, DayAddsUp
  <2>1. \A w \in Staff : CountsOK(internals[w])
    BY DEF DayInv, WorkersOK, WorkerOK
  <2> QED
    BY <2>1 DEF CountsOK, RoundTripsHaveTrips
<1> QED
  BY <1>1, DayInvariant, PTL

\* The reports of a day are on the way to the record or in it once, and those
\* that are not got lost where the code loses them (main.drain_loop).
THEOREM ReportedOnceAlways == DaySpec => []ReportedOnce
<1>1. DayInv => ReportedOnce
  BY OnceIsADay DEF DayInv, ReportedOnce
<1> QED
  BY <1>1, DayInvariant, PTL

\* No elevator gets more places twice, whatever becomes of the advice
\* (RecommendationService.apply).
THEOREM BoostedOnceAlways == DaySpec => []BoostedOnce
<1>1. DayInv => BoostedOnce
  BY DEF DayInv, BoostsOK, BoostedOnce
<1> QED
  BY <1>1, DayInvariant, PTL
=============================================================================
