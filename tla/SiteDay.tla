-------------------------------- MODULE SiteDay --------------------------------
(* The days of a simulated site: SimulationEngine.tick with the handlers of    *)
(* worker_behavior.py and equipment_behavior.py, the events it buffers and the *)
(* loop that takes them to the record (main.py), and recommendations that are  *)
(* applied to it.  Time is counted in ticks; ways between levels, which        *)
(* VerticalTransport models, take any time here.                               *)
EXTENDS Integers, Sequences, FiniteSets, FiniteSetsExt, SequencesExt

CONSTANTS Staff,      \* the workers
          Machine,
          DayTicks,   \* ticks of a working day
          Late,       \* ticks of the first day that are over when an engine starts
          ShortTrip,  \* round trips from this length on are not counted
          Walk,       \* how long walks take
          Operate,    \* how long a machine operates, then idles
          Rest,
          Capacity,   \* events the buffer holds
          MaxDay,     \* bound: days an engine lives
          MaxLife     \* bound: engines, one after the other

ASSUME SiteDayAssumption ==
    /\ IsFiniteSet(Staff) /\ IsFiniteSet(Machine)
    /\ DayTicks \in Nat \ {0} /\ Late \in 0..DayTicks - 1 /\ ShortTrip \in Nat
    /\ Walk \subseteq Nat \ {0} /\ Operate \in Nat \ {0} /\ Rest \in Nat \ {0}
    /\ Capacity \in Nat \ {0} /\ MaxDay \in Nat \ {0} /\ MaxLife \in Nat \ {0}

\* No round trip takes a whole day.
ASSUME TripsAreShort == \A n \in Walk : 3 * n < DayTicks

VARIABLES engine,     \* its number, day, clock and the places added to its elevator
          internals,  \* workers and their counters of the day
          machine,    \* machines and their hours
          buffer,     \* pending_events
          drain,      \* events the drain loop has taken and not committed
          ledger,     \* reports in the record
          lost,       \* history: reports that got lost on the way there
          recs        \* the cache of recommendations

dayVars == <<engine, internals, machine, buffer, drain, ledger, lost, recs>>

\* "carrying" is the pick-up and the way back; "vertical" the way to another level.
WorkerState == {"working", "to_toilet", "at_toilet", "to_break", "at_break",
                "to_material", "carrying", "to_work", "vertical"}
Trip == {"toilet", "material"}
Zero == [t \in Trip |-> 0]

\* left: ticks to the end of a way or a stay; from: returning_from; start: when
\* the last trip of a kind began; trips and rounds: those begun, and those whose
\* time was counted, today; spent: the time of all accumulators.
NewWorker == [state |-> "working", left |-> 0, from |-> "none", start |-> Zero,
              trips |-> Zero, rounds |-> Zero, spent |-> 0]
NewMachine == [state |-> "operating", cycle |-> 0, hours |-> 0, base |-> 0]

Rec == {"release", "boost"}
NoRecs == [r \in Rec |-> "none"]

Report(kind, who, hours) == [kind |-> kind, who |-> who, hours |-> hours,
                             day |-> engine.day, life |-> engine.life]
Other == [kind |-> "other", who |-> "none", hours |-> 0, day |-> 0, life |-> 0]
Reports(events) == Range(events) \ {Other}

\* What a deque of Capacity events keeps.
Kept(events) == SubSeq(events, Max({1, Len(events) - Capacity + 1}), Len(events))
Dropped(events) == Reports(SubSeq(events, 1, Len(events) - Capacity))

-----------------------------------------------------------------------------
(* Workers.                                                                   *)

\* The end of a round trip: its time counts if the clock of one day can tell it.
Back(w, kind, now) ==
    [w EXCEPT !.state = "working", !.left = 0, !.from = "none",
      !.rounds[kind] = IF now - w.start[kind] \in 1..ShortTrip - 1 THEN @ + 1 ELSE @]

\* A worker at work: no need is due, or one is and a place for it exists.
Begun(w, kind, to, now) ==
    LET off == IF kind = "break" THEN w
               ELSE [w EXCEPT !.trips[kind] = @ + 1, !.start[kind] = now]
    IN {[off EXCEPT !.state = to, !.left = n] : n \in Walk}
         \cup {[off EXCEPT !.state = "vertical"]}

Working(w, now) == {w} \cup Begun(w, "toilet", "to_toilet", now)
                       \cup Begun(w, "material", "to_material", now)
                       \cup Begun(w, "break", "to_break", now)

\* On the way, in a stay, or at its end; where "then" leads to.
Until(w, then) == IF w.left > 1 THEN {[w EXCEPT !.left = @ - 1]} ELSE then
Arrived(w, at) == {[w EXCEPT !.state = at, !.left = n] : n \in Walk}
Leaving(w, from) == {[w EXCEPT !.state = "to_work", !.left = n, !.from = from] : n \in Walk}

\* On another level a worker walks on, to work; without a way there it is at work.
Vertical(w) == {w, [w EXCEPT !.state = "working"]}
                 \cup {[w EXCEPT !.state = "to_work", !.left = n] : n \in Walk}

\* What update_worker may make of a worker.
Handled(w, now) ==
    CASE w.state = "working" -> Working(w, now)
      [] w.state = "to_toilet" -> Until(w, Arrived(w, "at_toilet"))
      [] w.state = "at_toilet" -> Until(w, Leaving(w, "toilet"))
      [] w.state = "to_break" -> Until(w, Arrived(w, "at_break"))
      [] w.state = "at_break" -> Until(w, Leaving(w, "break"))
      [] w.state = "to_material" -> Until(w, Arrived(w, "carrying"))
      [] w.state = "carrying" -> Until(w, {Back(w, "material", now)})
      [] w.state = "to_work" ->
           Until(w, {IF w.from = "toilet" THEN [Back(w, "toilet", now) EXCEPT !.start["toilet"] = 0]
                     ELSE [w EXCEPT !.state = "working", !.left = 0, !.from = "none",
                                    !.start["toilet"] = 0]})
      [] w.state = "vertical" -> Vertical(w)

\* Mutant of Updated: time on the way between levels is in no accumulator.
UpdatedLevel(w, now) ==
    {IF x.state = "vertical" THEN x ELSE [x EXCEPT !.spent = @ + 1] : x \in Handled(w, now)}

\* Every handler first adds the tick to one of the accumulators.
Updated(w, now) == {[x EXCEPT !.spent = @ + 1] : x \in Handled(w, now)}

\* The counters of the day that begins.
ResetDaily(w) == [w EXCEPT !.trips = Zero, !.rounds = Zero, !.spent = 0]

-----------------------------------------------------------------------------
(* Machines.                                                                  *)

\* Its cycle_timer has reached the length of the half it is in.
Flips(m) == m.cycle + 1 >= IF m.state = "operating" THEN Operate ELSE Rest

\* A machine's tick; one that was released has none.
Turned(m) ==
    IF m.state = "removed" THEN m
    ELSE [m EXCEPT !.hours = @ + 1,
            !.cycle = IF Flips(m) THEN 0 ELSE @ + 1,
            !.state = CASE Flips(m) /\ m.state = "operating" -> "idle"
                        [] Flips(m) /\ m.state = "idle" -> "operating"
                        [] ~Flips(m) -> m.state]

\* state_changed events of a tick.
Changes(before) == [i \in 1..Cardinality({m \in Machine : /\ before[m].state # "removed"
                                                          /\ Flips(before[m])}) |-> Other]

-----------------------------------------------------------------------------
(* The tick.                                                                  *)

DayEnds == engine.clock + 1 >= DayTicks

\* emit_end_of_day: a timesheet for each worker, the utilization of each machine.
EndOfDay ==
    SetToSeq({Report("timesheet", w, internals[w].spent) : w \in Staff})
      \o SetToSeq({Report("utilization", m, machine[m].hours - machine[m].base) :
                     m \in {x \in Machine : machine[x].state # "removed"}})

\* The next report of a machine's hours begins where this one ends.
Based(m) == IF m.state = "removed" THEN m ELSE [m EXCEPT !.base = m.hours]

Put(events) == /\ buffer' = Kept(buffer \o events)
               /\ lost' = lost \cup Dropped(buffer \o events)

Tick ==
    LET now == IF DayEnds THEN 0 ELSE engine.clock + 1
        w0 == [w \in Staff |-> IF DayEnds THEN ResetDaily(internals[w]) ELSE internals[w]]
        m0 == [m \in Machine |-> IF DayEnds THEN Based(machine[m]) ELSE machine[m]]
    IN /\ DayEnds => engine.day < MaxDay
       /\ engine' = [engine EXCEPT !.clock = now, !.day = IF DayEnds THEN @ + 1 ELSE @]
       /\ internals' \in {f \in [Staff -> UNION {Updated(w0[w], now) : w \in Staff}] :
                            \A w \in Staff : f[w] \in Updated(w0[w], now)}
       /\ machine' = [m \in Machine |-> Turned(m0[m])]
       /\ Put((IF DayEnds THEN EndOfDay ELSE <<>>) \o Changes(m0))
       /\ UNCHANGED <<drain, ledger, recs>>

-----------------------------------------------------------------------------
(* The drain loop.                                                            *)

TakeEvents == /\ drain = <<>> /\ buffer # <<>>
              /\ drain' = buffer /\ buffer' = <<>>
              /\ UNCHANGED <<engine, internals, machine, ledger, lost, recs>>

\* Mutant of CommitEvents: what came since is cleared as well.
CommitEventsClearing ==
    /\ drain # <<>>
    /\ ledger' = ledger \cup Reports(drain) /\ drain' = <<>> /\ buffer' = <<>>
    /\ UNCHANGED <<engine, internals, machine, lost, recs>>

CommitEvents == /\ drain # <<>>
                /\ ledger' = ledger \cup Reports(drain) /\ drain' = <<>>
                /\ UNCHANGED <<engine, internals, machine, buffer, lost, recs>>

\* The append or the commit fails: the events are in the buffer no more.
FailEvents == /\ drain # <<>>
              /\ lost' = lost \cup Reports(drain) /\ drain' = <<>>
              /\ UNCHANGED <<engine, internals, machine, buffer, ledger, recs>>

-----------------------------------------------------------------------------
(* Recommendations.                                                           *)

\* Mutant of Advised: a busy elevator is advised on whatever was added to it.
AdvisedBusy == [release |-> \E m \in Machine : machine[m].state # "removed",
                boost |-> TRUE]

\* What the optimizers may advise, as the site is.
Advised == [release |-> \E m \in Machine : machine[m].state # "removed",
            boost |-> engine.extra = 0]

\* RecommendationService.get: a list that is there, or, when new metrics have made
\* it dirty (which they may do at any time) or it is empty, a fresh one, in which
\* an advice that is still there keeps its mark.
Fresh == {c \in [Rec -> {"none", "open", "applied"}] :
            \A r \in Rec : /\ c[r] # "none" => Advised[r]
                           /\ c[r] = "applied" => recs[r] = "applied"
                           /\ c[r] = "open" => recs[r] # "applied"}
Got == Fresh \cup IF recs = NoRecs THEN {} ELSE {recs}

\* The list is looked at.
Look == /\ recs' \in Got
        /\ UNCHANGED <<engine, internals, machine, buffer, drain, ledger, lost>>

\* An advice that is not applied yet: a machine goes back to the rental pool, or
\* the elevator's cab gets twice its places.
Apply(r) ==
    \E c \in Got :
      /\ c[r] = "open"
      /\ recs' = [c EXCEPT ![r] = "applied"]
      /\ Put(<<Other>>)
      /\ IF r = "boost"
         THEN engine' = [engine EXCEPT !.extra = @ + 1] /\ UNCHANGED machine
         ELSE /\ \E m \in {x \in Machine : machine[x].state # "removed"} :
                    machine' = [machine EXCEPT ![m].state = "removed"]
              /\ UNCHANGED engine
      /\ UNCHANGED <<internals, drain, ledger>>

-----------------------------------------------------------------------------
(* Engines.                                                                   *)

Fresher(life) == /\ engine' = [life |-> life, day |-> 1, clock |-> Late, extra |-> 0]
                 /\ internals' = [w \in Staff |-> NewWorker]
                 /\ machine' = [m \in Machine |-> NewMachine]
                 /\ buffer' = <<>> /\ recs' = NoRecs

\* Another document in the same engine, or another engine: the buffer is a new
\* one; what the drain loop has taken it still commits.
Load == /\ engine.life < MaxLife
        /\ Fresher(engine.life + 1)
        /\ lost' = lost \cup Reports(buffer)
        /\ UNCHANGED <<drain, ledger>>

Restart == /\ engine.life < MaxLife
           /\ Fresher(engine.life + 1)
           /\ lost' = lost \cup Reports(buffer) \cup Reports(drain)
           /\ drain' = <<>> /\ UNCHANGED ledger

DayInit == /\ engine = [life |-> 1, day |-> 1, clock |-> Late, extra |-> 0]
           /\ internals = [w \in Staff |-> NewWorker]
           /\ machine = [m \in Machine |-> NewMachine]
           /\ buffer = <<>> /\ drain = <<>> /\ ledger = {} /\ lost = {} /\ recs = NoRecs

DayNext == \/ Tick
           \/ TakeEvents \/ CommitEvents \/ FailEvents
           \/ Look \/ \E r \in Rec : Apply(r)
           \/ Load \/ Restart

DaySpec == DayInit /\ [][DayNext]_dayVars

-----------------------------------------------------------------------------
(* Properties.                                                                *)

Hours == 0..DayTicks * MaxDay
Event == [kind: {"timesheet", "utilization"}, who: Staff \cup Machine, hours: Hours,
          day: 1..MaxDay, life: 1..MaxLife] \cup {Other}

DayTypeOK ==
    /\ engine \in [life: 1..MaxLife, day: 1..MaxDay, clock: 0..DayTicks - 1, extra: Nat]
    /\ \A w \in Staff :
         /\ internals[w].state \in WorkerState /\ internals[w].left \in UNION {0..n : n \in Walk \cup {0}}
         /\ internals[w].from \in {"none", "toilet", "break"}
         /\ internals[w].start \in [Trip -> 0..DayTicks - 1]
         /\ internals[w].trips \in [Trip -> 0..DayTicks]
         /\ internals[w].rounds \in [Trip -> 0..DayTicks] /\ internals[w].spent \in 0..DayTicks
    /\ machine \in [Machine -> [state: {"operating", "idle", "removed"}, cycle: Nat,
                                hours: Hours, base: Hours]]
    /\ Range(buffer) \cup Range(drain) \cup ledger \cup lost \subseteq Event
    /\ Len(buffer) <= Capacity /\ Len(drain) <= Capacity

\* Every second of a worker's day is in exactly one accumulator, whatever it did
\* and wherever the day found it: its timesheets add up to the day.
EverySecondCounts ==
    \A w \in Staff :
        internals[w].spent = IF engine.day = 1 THEN engine.clock - Late ELSE engine.clock + 1

\* Round trips are counted on the day they began: the average of a day never
\* divides the time of trips by fewer trips, although trips go on at its end.
RoundTripsHaveTrips ==
    \A w \in Staff, t \in Trip : internals[w].rounds[t] <= internals[w].trips[t]

\* The reports on a machine add up to its hours, up to the last day's end.
UtilizationAddsUp ==
    \A m \in Machine :
        LET of == {e \in ledger \cup lost \cup Reports(buffer) \cup Reports(drain) :
                     e.kind = "utilization" /\ e.who = m /\ e.life = engine.life}
        IN SumFunction([e \in of |-> e.hours]) = machine[m].base

\* What is reported of a day is what happened on it.
DayAddsUp == EverySecondCounts /\ RoundTripsHaveTrips /\ UtilizationAddsUp

\* A worker has one timesheet for a day of an engine, a machine one report, and
\* nothing is on its way to the record that is there already.
OneReportADay ==
    LET way == buffer \o drain
    IN /\ \A i, j \in 1..Len(way) :
            way[i] # Other /\ way[j] # Other /\ i # j
              => <<way[i].kind, way[i].who, way[i].day, way[i].life>>
                   # <<way[j].kind, way[j].who, way[j].day, way[j].life>>
       /\ \A i \in 1..Len(way), e \in ledger :
            <<way[i].kind, way[i].who, way[i].day, way[i].life>>
              # <<e.kind, e.who, e.day, e.life>>

\* The timesheets of a day that is over are in the record or on the way there,
\* unless the buffer overflowed, the drain failed, or the engine was replaced.
OnlyKnownLosses ==
    \A w \in Staff, d \in 1..engine.day - 1 :
        \E e \in ledger \cup lost \cup Reports(buffer) \cup Reports(drain) :
            e.kind = "timesheet" /\ e.who = w /\ e.day = d /\ e.life = engine.life

\* The reports of a day reach the record once.
ReportedOnce == OneReportADay /\ OnlyKnownLosses

\* No elevator gets more places twice (optimization/vertical_transport_optimizer.py:44,
\* "once an operator has applied `add_equipment` on a cab"), although an advice
\* that comes and goes loses its mark.
BoostedOnce == engine.extra <= 1
=============================================================================
