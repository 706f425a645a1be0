--------------------------- MODULE VerticalTransport ---------------------------
(* Workers between the levels of a site, by stair and by elevator: the         *)
(* vertical half of simulation/worker_behavior.py and the cabs of              *)
(* simulation/vertical_transport.py, driven by SimulationEngine.tick.  A tick  *)
(* is one call of the program; here it takes a step for every worker, then     *)
(* steps of every cab until its share of the tick is used up.                  *)
EXTENDS Integers, Sequences, FiniteSets, FiniteSetsExt, SequencesExt

CONSTANTS Crew,    \* the workers, in the order of engine.assets
          Shafts,  \* the elevators, in the order of engine.cabs
          Stair,   \* the stairs
          Top,     \* levels are 1..Top, from the lowest to the highest
          Height,  \* Height[l]: elevation, in units of a cab's travel time
          Serves,  \* Serves[c]: the levels at which connection c stops
          Seats,   \* Seats[c]: places in the cab of elevator c
          Home,    \* levels with zones, where workers start
          Goal,    \* levels with something workers walk to
          Dt,      \* lengths of a tick in simulated time
          Dwell,   \* how long doors stay open
          Climb,   \* how long a stair takes from one stop to the next
          None

Worker == Range(Crew)
Lift == Range(Shafts)
Level == 1..Top
Connection == Lift \cup Stair

ASSUME TransportAssumption ==
    /\ Top \in Nat
    /\ Crew \in Seq(Worker) /\ Shafts \in Seq(Lift) /\ IsInjective(Crew) /\ IsInjective(Shafts)
    /\ Lift \cap Stair = {} /\ None \notin Connection
    /\ Serves \in [Connection -> SUBSET Level] /\ Height \in [Level -> Nat]
    /\ Seats \in [Lift -> Nat \ {0}] /\ Goal \cup Home \subseteq Level
    /\ Dt \subseteq Nat \ {0} /\ Dwell \in Nat \ {0} /\ Climb \in Nat \ {0}

VARIABLES worker,  \* worker[w]: level, state, level it is bound for, connection, timer
          cab,     \* cab[c]: level, direction, open doors, passengers, queues
          clock    \* whose turn it is in the tick under way, and its time

vars == <<worker, cab, clock>>

\* "free": at work or on the way on one level.
State == {"free", "walking", "traversing"}
Between == [turn |-> 0, dt |-> 0, left |-> 0, doors |-> FALSE]

-----------------------------------------------------------------------------
(* Routes.                                                                    *)

Beside(l) == UNION {Serves[c] : c \in {x \in Connection : l \in Serves[x]}}

\* Around[l][n]: levels from which l is at most n connections away.
Around == [l \in Level |->
             LET within[n \in 0..Top] == IF n = 0 THEN {l}
                                         ELSE within[n - 1] \cup
                                              UNION {Beside(k) : k \in within[n - 1]}
             IN within]

\* Connections that begin a shortest way from one level to another.
FirstHops == [from \in Level |-> [to \in Level |->
    LET hops == {n \in 1..Top : from \in Around[to][n]}
    IN {c \in Connection : /\ from # to /\ hops # {} /\ from \in Serves[c]
                           /\ Serves[c] \cap Around[to][Min(hops) - 1] # {}}]]

\* A way by levels, if there is one, begins with a walk to its first stop.
Routed(w, to) ==
    {[w EXCEPT !.state = "walking", !.goal = to, !.conn = c] : c \in FirstHops[w.at][to]}

Cleared(w) == [w EXCEPT !.state = "free", !.goal = w.at, !.conn = None, !.timer = 0]

\* What a worker does on a level where a connection left it: it walks on there,
\* or takes the next one.
Landed(w, l) ==
    LET there == [w EXCEPT !.at = l] IN
    IF l # w.goal /\ Routed(there, w.goal) # {}
    THEN CHOOSE x \in Routed(there, w.goal) : TRUE
    ELSE Cleared(there)

\* Stops of a connection from one level to another, at least one.
Apart(c, k, l) == IF l \in Serves[c]
                  THEN Max({1, Cardinality({s \in Serves[c] : Min({k, l}) < s /\ s <= Max({k, l})})})
                  ELSE 1

-----------------------------------------------------------------------------
(* A worker's turn.                                                           *)

Turns == Len(Crew) + Len(Shafts)
On(turn, dt) == IF turn > Turns THEN Between
                ELSE [turn |-> turn, dt |-> dt,
                      left |-> dt, doors |-> turn > Len(Crew)]
NextTurn == clock' = On(clock.turn + 1, clock.dt)

BeginTick == /\ clock = Between
             /\ \E t \in Dt : clock' = On(1, t)
             /\ UNCHANGED <<worker, cab>>

\* The worker goes on as it is, in steps that change nothing here: at work, on
\* the way to an anchor, in a queue or in a cab.
Carry(w) == /\ \/ worker[w].state \in {"free", "walking"}
               \/ worker[w].state = "traversing" /\ worker[w].conn \in Lift
            /\ UNCHANGED <<worker, cab>>

\* A need takes the worker to another level, if a way leads there.
SetOut(w) == /\ worker[w].state = "free"
             /\ \E g \in Goal : \E x \in Routed(worker[w], g) :
                    worker' = [worker EXCEPT ![w] = x]
             /\ UNCHANGED cab

\* At the anchor of a stair the climb begins.
BeginClimb(w) ==
    LET x == worker[w] IN
    /\ x.state = "walking" /\ x.conn \in Stair
    /\ worker' = [worker EXCEPT ![w].state = "traversing",
                                ![w].timer = Climb * Apart(x.conn, x.at, x.goal)]
    /\ UNCHANGED cab

\* At that of an elevator the worker queues.
JoinQueue(w) ==
    LET x == worker[w] IN
    /\ x.state = "walking" /\ x.conn \in Lift
    /\ worker' = [worker EXCEPT ![w].state = "traversing"]
    /\ cab' = [cab EXCEPT ![x.conn].queue[x.at] = Append(@, w)]

\* The stair ends at the level the worker is bound for, or nowhere: then it is
\* back at work where it started.
KeepClimbing(w) ==
    LET x == worker[w]  rest == x.timer - clock.dt IN
    /\ x.state = "traversing" /\ x.conn \in Stair
    /\ worker' = [worker EXCEPT ![w] =
                    CASE rest > 0 -> [x EXCEPT !.timer = rest]
                      [] rest <= 0 /\ x.goal \in Serves[x.conn] -> Landed(x, x.goal)
                      [] rest <= 0 /\ x.goal \notin Serves[x.conn] -> Cleared(x)]
    /\ UNCHANGED cab

WorkerTurn(w) == /\ clock.turn \in 1..Len(Crew) /\ w = Crew[clock.turn]
                 /\ NextTurn
                 /\ \/ Carry(w) \/ SetOut(w) \/ BeginClimb(w) \/ JoinQueue(w)
                    \/ KeepClimbing(w)

-----------------------------------------------------------------------------
(* A cab's turn.                                                              *)

Called(c) == {l \in Serves[c] : cab[c].queue[l] # <<>>}
Demand(c) == Called(c) # {} \/ cab[c].riders # {}

\* The next stop in the cab's direction.
Ahead(c) == {l \in Serves[c] : IF cab[c].dir > 0 THEN l > cab[c].at ELSE l < cab[c].at}
NextStop(c) == IF cab[c].dir > 0 THEN Min(Ahead(c)) ELSE Max(Ahead(c))
Rank(c, l) == Cardinality({k \in Serves[c] : k < l})
Distance(c, l) == Max({Rank(c, l) - Rank(c, cab[c].at), Rank(c, cab[c].at) - Rank(c, l)})

\* Mutant of Picked: the cab goes for calls above only.
PickedUp(c) == IF \E l \in Called(c) : l >= cab[c].at THEN {1} ELSE {0}

\* An idle cab goes to the nearest call, up if two are as near; without a call,
\* towards a passenger's level.
Picked(c) ==
    LET here == cab[c].at
        up == {Distance(c, l) : l \in {k \in Called(c) : k >= here}}
        down == {Distance(c, l) : l \in {k \in Called(c) : k <= here}}
        bound == {worker[w].goal : w \in cab[c].riders} \cap (Serves[c] \ {here})
    IN IF Called(c) # {}
       THEN IF down = {} \/ (up # {} /\ Min(up) <= Min(down)) THEN {1} ELSE {-1}
       ELSE IF bound # {} THEN {IF l > here THEN 1 ELSE -1 : l \in bound} ELSE {0}

CabTurn(c) == clock.turn > Len(Crew) /\ c = Shafts[clock.turn - Len(Crew)]
Moving(c) == CabTurn(c) /\ ~clock.doors /\ clock.left > 0

\* Doors still open from the last tick; a cab nobody wants stands still after.
Doors(c) ==
    LET open == Min({clock.left, cab[c].doors})
        shut == cab[c].doors > 0 /\ cab[c].doors = open /\ ~Demand(c)
    IN /\ CabTurn(c) /\ clock.doors
       /\ cab' = [cab EXCEPT ![c].doors = @ - open, ![c].dir = IF shut THEN 0 ELSE @]
       /\ IF shut THEN NextTurn
          ELSE clock' = [clock EXCEPT !.left = @ - open, !.doors = FALSE]
       /\ UNCHANGED worker

Pick(c) == /\ Moving(c) /\ cab[c].dir = 0
           /\ \E d \in Picked(c) :
                /\ cab' = [cab EXCEPT ![c].dir = d]
                /\ IF d = 0 THEN NextTurn ELSE UNCHANGED clock
           /\ UNCHANGED worker

\* Mutant of TurnBack: an empty cab stays at the end of the shaft.
TurnBackParked(c) ==
    /\ Moving(c) /\ cab[c].dir # 0 /\ Ahead(c) = {}
    /\ cab' = [cab EXCEPT ![c].dir = IF cab[c].riders = {} THEN @ ELSE -@]
    /\ IF cab[c].riders = {} THEN NextTurn ELSE UNCHANGED clock
    /\ UNCHANGED worker

\* The end of the shaft.
TurnBack(c) == /\ Moving(c) /\ cab[c].dir # 0 /\ Ahead(c) = {}
              /\ cab' = [cab EXCEPT ![c].dir = -@]
              /\ UNCHANGED <<worker, clock>>

Travel(c) == LET a == Height[cab[c].at]  b == Height[NextStop(c)]
             IN Max({a - b, b - a})

\* What is left of the tick does not take the cab to the next stop, and is lost.
Stall(c) == /\ Moving(c) /\ cab[c].dir # 0 /\ Ahead(c) # {}
            /\ clock.left < Travel(c)
            /\ NextTurn /\ UNCHANGED <<worker, cab>>

\* Mutant of Boarders: one worker too many.
BoardersOneMore(c, l, staying) ==
    SubSeq(cab[c].queue[l], 1,
           Min({Len(cab[c].queue[l]), Seats[c] - Cardinality(staying) + 1}))

\* Those in front of the queue get the free seats.
Boarders(c, l, staying) ==
    SubSeq(cab[c].queue[l], 1,
           Min({Len(cab[c].queue[l]), Seats[c] - Cardinality(staying)}))

\* The next stop: passengers for it leave, then others board, and the doors stay
\* open.
Stop(c) ==
    LET l == NextStop(c)
        out == {w \in cab[c].riders : worker[w].goal = l}
        in == Boarders(c, l, cab[c].riders \ out)
        rest == clock.left - Travel(c)
        open == Min({rest, Dwell})
        new == [cab[c] EXCEPT !.at = l, !.doors = Dwell - open,
                  !.riders = (@ \ out) \cup Range(in),
                  !.queue[l] = SubSeq(@, Len(in) + 1, Len(@))]
        unwanted == new.riders = {} /\ \A k \in Serves[c] : new.queue[k] = <<>>
        still == new.doors = 0 /\ unwanted
    IN /\ Moving(c) /\ cab[c].dir # 0 /\ Ahead(c) # {} /\ rest >= 0
       /\ worker' = [w \in Worker |-> IF w \in out THEN Landed(worker[w], l) ELSE worker[w]]
       /\ cab' = [cab EXCEPT ![c] = [new EXCEPT !.dir = IF still THEN 0 ELSE @]]
       /\ IF still THEN NextTurn ELSE clock' = [clock EXCEPT !.left = rest - open]

\* The tick is over for the cab.
Spent(c) == /\ CabTurn(c) /\ ~clock.doors /\ clock.left = 0
            /\ NextTurn /\ UNCHANGED <<worker, cab>>

-----------------------------------------------------------------------------

Init == /\ \E at \in [Worker -> Home] :
              worker = [w \in Worker |-> [at |-> at[w], state |-> "free", goal |-> at[w],
                                          conn |-> None, timer |-> 0]]
        /\ cab = [c \in Lift |-> [at |-> Min(Serves[c]), dir |-> 0, doors |-> 0,
                                  riders |-> {}, queue |-> [l \in Serves[c] |-> <<>>]]]
        /\ clock = Between

Next == \/ BeginTick
        \/ \E w \in Worker : WorkerTurn(w)
        \/ \E c \in Lift : \/ Doors(c) \/ Pick(c) \/ TurnBack(c) \/ Stall(c) \/ Stop(c)
                           \/ Spent(c)

Spec == Init /\ [][Next]_vars

\* The loop ticks for ever, and a tick ends.
FairSpec == Spec /\ WF_vars(Next)

-----------------------------------------------------------------------------
(* Properties.                                                                *)

TypeOK ==
    /\ worker \in [Worker -> [at: Level, state: State, goal: Level,
                              conn: Connection \cup {None},
                              timer: 0..Climb * Top]]
    /\ DOMAIN cab = Lift
    /\ \A c \in Lift :
         /\ Serves[c] # {} => cab[c].at \in Serves[c]
         /\ cab[c].dir \in {-1, 0, 1}
         /\ cab[c].doors \in 0..Dwell /\ cab[c].riders \subseteq Worker
         /\ cab[c].queue \in [Serves[c] -> Seq(Worker)]
    /\ clock \in [turn: 0..Turns, dt: Dt \cup {0}, left: Nat, doors: BOOLEAN]
    /\ \A w \in Worker : worker[w].state = "free" => worker[w].conn = None

\* Whoever goes by elevator is in one place: once in the queue of its own level,
\* or in the cab, and the cab has a seat for everybody in it; nobody else is.
EachRiderOnce ==
    /\ \A w \in Worker, c \in Lift :
         LET places == {p \in Serves[c] \X (1..Cardinality(Worker)) :
                          p[2] <= Len(cab[c].queue[p[1]]) /\ cab[c].queue[p[1]][p[2]] = w}
             goes == worker[w].state = "traversing" /\ worker[w].conn = c
         IN /\ Cardinality(places) + Cardinality({w} \cap cab[c].riders)
                 = IF goes THEN 1 ELSE 0
            /\ \A p \in places : p[1] = worker[w].at
    /\ \A c \in Lift : Cardinality(cab[c].riders) <= Seats[c]

\* Between ticks, a cab that somebody waits for or rides in is on its way.
WantedCabMoves == clock.turn = 0 => \A c \in Lift : Demand(c) => cab[c].dir # 0

\* A passenger for a level where its cab does not stop: the next of two
\* connections does (worker_behavior.py:374, "re-routes from the destination if
\* more hops are needed", happens for nobody who is bound for another level).
Stranded(c) == {w \in cab[c].riders : worker[w].goal \notin Serves[c]}

\* Whoever is on a stair, waits for a cab or is in it gets where it is going, if
\* the connection stops there and stranded passengers never take every seat.
TravellersArrive ==
    \A w \in Worker :
      [](\A c \in Lift : Cardinality(Stranded(c)) < Seats[c]) =>
        (worker[w].state = "traversing"
           /\ (worker[w].conn \in Stair \/ worker[w].goal \in Serves[worker[w].conn]))
          ~> worker[w].state = "free"
=============================================================================
