------------------------------ MODULE RecordReads ------------------------------
(* What is read from the record of a site: the queries, projections and costs  *)
(* of api/record.py, api/record_export.py and api/worker.py as operators on    *)
(* the ledger (services/record_projections.py, cost_engine.py,                 *)
(* record_query.py), the tiers that decide who may see what                    *)
(* (services/record_access.py), and the fold of the record over a live source. *)
(* How a ledger is written is in EventLedger: here a request is one step, and  *)
(* companion events, which every query excludes, are left out.                 *)
EXTENDS Integers, FiniteSets, Sequences, FiniteSetsExt, Functions

CONSTANTS User,
          Time,        \* moments at which things happen on the site
          Rate,        \* the rate card: labour, equipment and material
          EventsLimit, \* rows a list of events has (200 or 1000; a day's timeline 5000)
          InboxLimit,  \* 500
          MineLimit,   \* 2000
          LiveLimit,   \* 5000
          ReadLimit,   \* rows a report is made of (100000)
          MaxEvents,   \* bound: events in the ledger
          None

ASSUME ReadsAssumption ==
    /\ Time \subseteq Nat /\ Rate \in [{"labor", "equipment", "material"} -> Nat]
    /\ {EventsLimit, InboxLimit, MineLimit, LiveLimit, ReadLimit, MaxEvents} \subseteq Nat \ {0}
    /\ None \notin User

VARIABLES ledger,  \* events in the order of their seq
          live     \* the live source: the state it shows of the crane, the events
                   \* folded into it so far, and whether they are those of now

readsVars == <<ledger, live>>

\* Days of two moments.
Day(t) == t \div 2

\* Subjects: a worker, a crane, rebar and the incidents of the site.
Subject == {"worker", "equipment", "material", "incident"}
Role == {"viewer", "member", "admin"}
Rank == [viewer |-> 0, member |-> 1, admin |-> 2]

\* Kinds of events with the fields of their payload; "behaviour" stands for
\* hours_walking, hours_facilities and hours_vertical.
Payloads ==
    [timesheet |-> {[hours |-> 3, behaviour |-> 1]},
     utilization |-> {[idle |-> 2]},
     state_changed |-> {[state |-> "idle"], [state |-> "operating"]},
     delivered |-> {[quantity |-> 1]},
     consumed |-> {[quantity |-> 1]},
     flagged |-> {[severity |-> "unknown"]}]
About == [timesheet |-> "worker", utilization |-> "equipment", state_changed |-> "equipment",
          delivered |-> "material", consumed |-> "material", flagged |-> "incident"]
Kind == DOMAIN About
Layout == "operating"

Event == {e \in [kind: Kind, time: Time,
                 status: {"confirmed", "proposed", "rejected"}, actor: User \cup {None},
                 payload: UNION {Payloads[k] : k \in Kind}] : e.payload \in Payloads[e.kind]}

-----------------------------------------------------------------------------
(* EventLedger.query.                                                         *)

Recorded == DOMAIN ledger
Having(statuses) == {i \in Recorded : ledger[i].status \in statuses}
Of(s) == {i \in Recorded : About[ledger[i].kind] = s}
OfKind(k) == {i \in Recorded : ledger[i].kind = k}

\* By valid time, then in the order of arrival.
Before(i, j) == \/ ledger[i].time < ledger[j].time
                \/ ledger[i].time = ledger[j].time /\ i < j
After(i, j) == \/ ledger[i].time > ledger[j].time
               \/ ledger[i].time = ledger[j].time /\ i < j

\* Who has which place in a list, as the list; a list up to a limit; and what of a
\* list is in T.
Listed(place) ==
    [k \in 1..Cardinality(DOMAIN place) |-> CHOOSE i \in DOMAIN place : place[i] = k]
Least(n, s) == SubSeq(s, 1, Min({n, Len(s)}))
Only(s, T) ==
    LET at == {k \in DOMAIN s : s[k] \in T}
        kept == Listed([k \in at |-> 1 + Cardinality({l \in at : l < k})])
    IN [n \in DOMAIN kept |-> s[kept[n]]]

Asc(S, limit) ==
    Least(limit, Listed([i \in S |-> 1 + Cardinality({j \in S : Before(j, i)})]))
Desc(S, limit) ==
    Least(limit, Listed([i \in S |-> 1 + Cardinality({j \in S : After(j, i)})]))

-----------------------------------------------------------------------------
(* RecordAccess.                                                              *)

IsManager(role) == Rank[role] >= Rank["admin"]
SeesPersonal(role) == Rank[role] >= Rank["member"]
MayView(role, s) == s = "worker" => SeesPersonal(role)
Personal(e) == e.kind = "timesheet" \/ About[e.kind] = "worker"

Without(f, fields) == Restrict(f, DOMAIN f \ fields)

\* An event as a role gets to see it.
Redacted(e, role) ==
    IF ~IsManager(role) /\ e.kind = "timesheet"
    THEN [e EXCEPT !.payload = Without(@, {"behaviour"})] ELSE e
Open(role) == {i \in Recorded : Personal(ledger[i]) => SeesPersonal(role)}
Seen(rows, role) ==
    LET open == Only(rows, Open(role))
    IN [k \in DOMAIN open |-> [seq |-> open[k], event |-> Redacted(ledger[open[k]], role)]]

-----------------------------------------------------------------------------
(* Lists of events and projections.                                           *)

Events(role) == Seen(Desc(Recorded, EventsLimit), role)
Inbox(role) == Seen(Desc(Having({"proposed"}), InboxLimit), role)
Export(role) == Seen(Asc(Recorded, ReadLimit), role)

OnDay(d) == {i \in Recorded : ledger[i].time \in 2 * d..2 * d + 1}
Timeline(d, role) == Seen(Asc(OnDay(d), EventsLimit), role)

Field(i, name) == IF name \in DOMAIN ledger[i].payload THEN ledger[i].payload[name] ELSE 0
Added(C, name) == SumFunction([i \in C |-> Field(i, name)])

\* daily_rollup: confirmed events of each day, by kind.
Rollup ==
    LET page == Range(Asc(Recorded, ReadLimit)) \cap Having({"confirmed"})
    IN [d \in {Day(ledger[i].time) : i \in page} |->
          [k \in Kind |-> Cardinality({i \in page : Day(ledger[i].time) = d
                                                    /\ ledger[i].kind = k})]]

\* The last value of each field that a confirmed event has.
Folded(s) ==
    LET fields == UNION {DOMAIN ledger[s[k]].payload : k \in DOMAIN s}
        last(f) == Max({k \in DOMAIN s : f \in DOMAIN ledger[s[k]].payload})
    IN [f \in fields |-> ledger[s[last(f)]].payload[f]]

Metrics(s, C) ==
    [worker |-> [days |-> Cardinality(C), hours |-> Added(C, "hours"),
                 behaviour |-> Added(C, "behaviour")],
     equipment |-> [idle |-> Added(C, "idle")],
     material |-> [delivered |-> Added(C \cap OfKind("delivered"), "quantity"),
                   consumed |-> Added(C \cap OfKind("consumed"), "quantity")],
     incident |-> [count |-> Cardinality(C)]][s]

\* entity_projection of a subject from rows that are in order.
Entity(s, rows) ==
    LET sure == Only(rows, Having({"confirmed"}))
    IN [count |-> Len(sure), state |-> Folded(sure), metrics |-> Metrics(s, Range(sure)),
        events |-> [k \in DOMAIN rows |-> [seq |-> rows[k], event |-> ledger[rows[k]]]]]

\* Mutant of RedactEntity: the fields of the state are forgotten.
RedactEntityEvents(s, p, role) ==
    IF IsManager(role) \/ s # "worker" THEN p
    ELSE [count |-> p.count, state |-> p.state, metrics |-> Without(p.metrics, {"behaviour"}),
          events |-> [k \in DOMAIN p.events |-> [p.events[k] EXCEPT !.event = Redacted(@, role)]]]

RedactEntity(s, p, role) ==
    IF IsManager(role) \/ s # "worker" THEN p
    ELSE [count |-> p.count, state |-> Without(p.state, {"behaviour"}),
          metrics |-> Without(p.metrics, {"behaviour"}),
          events |-> [k \in DOMAIN p.events |-> [p.events[k] EXCEPT !.event = Redacted(@, role)]]]

GetEntity(s, role) == RedactEntity(s, Entity(s, Asc(Of(s), ReadLimit)), role)

\* list_subjects: confirmed and proposed events, how many of them are pending.
Directory(role) ==
    LET page == Range(Asc(Having({"confirmed", "proposed"}), ReadLimit))
        rows == {s \in Subject : page \cap Of(s) # {} /\ MayView(role, s)}
    IN [s \in rows |-> [count |-> Cardinality(page \cap Of(s)),
                        pending |-> Cardinality(page \cap Of(s) \cap Having({"proposed"}))]]

-----------------------------------------------------------------------------
(* The worker's screens.                                                      *)

Today == LET rollup == Rollup
         IN IF DOMAIN rollup = {} THEN [k \in Kind |-> 0] ELSE rollup[Max(DOMAIN rollup)]

Own(u) == {i \in Recorded : ledger[i].actor = u}

\* Mutant of MyPending: what was confirmed is pending still.
MyPendingAny(u) ==
    Cardinality(Range(Asc(Recorded, ReadLimit)) \cap Own(u) \cap Having({"proposed", "confirmed"}))

MyPending(u) ==
    Cardinality(Range(Asc(Recorded, ReadLimit)) \cap Own(u) \cap Having({"proposed"}))
MyEntries(u) == Only(Desc(Recorded, MineLimit), Own(u))

OnHand(metrics) == metrics.delivered - metrics.consumed

\* The list of assets and the details of one: the crane and the rebar of the
\* site are there before anything is in the record.
AssetRows == LET page == Asc(Having({"confirmed", "proposed"}), ReadLimit)
             IN [s \in {"equipment", "material"} |->
                   Entity(s, Only(page, Of(s)))]
AssetDetail(s) == Entity(s, Asc(Of(s), ReadLimit))

-----------------------------------------------------------------------------
(* Costs, answers and exports.                                                *)

CostRows == Range(Asc(Having({"confirmed"}), ReadLimit))

Line(i, category, amount) == [category |-> category, amount |-> amount, row |-> i,
                              day |-> Day(ledger[i].time), subject |-> About[ledger[i].kind]]

\* Lines of a kind of event; waste is a part of labour.
Priced(category, kind, name, rate) ==
    {Line(i, category, Field(i, name) * Rate[rate]) : i \in CostRows \cap OfKind(kind)}
Lines == {l \in Priced("labor", "timesheet", "hours", "labor")
               \cup Priced("labor_waste", "timesheet", "behaviour", "labor")
               \cup Priced("equipment", "utilization", "idle", "equipment")
               \cup Priced("material", "delivered", "quantity", "material") : l.amount > 0}

Amount(lines) == SumFunction([l \in lines |-> l.amount])
In(lines, category) == {l \in lines : l.category = category}

\* Mutant of ByDay: waste is counted twice.
ByDayAll(lines) == [d \in {l.day : l \in lines} |-> Amount({l \in lines : l.day = d})]

ByDay(lines) ==
    LET counted == {l \in lines : l.category # "labor_waste"}
    IN [d \in {l.day : l \in counted} |-> Amount({l \in counted : l.day = d})]

\* redact_cost: only a manager sees lines that name a worker.
RedactCost(lines, role) ==
    IF IsManager(role) THEN lines ELSE {l \in lines : l.category \notin {"labor", "labor_waste"}}

CostTotal(lines) ==
    Amount(In(lines, "labor") \cup In(lines, "equipment") \cup In(lines, "material"))
Costs(role) ==
    LET lines == Lines IN
    [labor |-> Amount(In(lines, "labor")), waste |-> Amount(In(lines, "labor_waste")),
     equipment |-> Amount(In(lines, "equipment")), material |-> Amount(In(lines, "material")),
     total |-> CostTotal(lines), byDay |-> ByDay(lines), lines |-> RedactCost(lines, role)]

\* Answers to questions, which have queries of their own.
Answered(k) == Range(Asc(OfKind(k) \cap Having({"confirmed"}), ReadLimit))
Euros(k, name, rate) == SumFunction([i \in Answered(k) |-> Field(i, name) * Rate[rate]])
EquipmentAnswer == Euros("utilization", "idle", "equipment")
DeliveriesAnswer == Euros("delivered", "quantity", "material")
LaborAnswer == Euros("timesheet", "hours", "labor")
CostAnswer == CostTotal(Lines)
IncidentsAnswer == Len(Asc(OfKind("flagged"), ReadLimit))

\* Files: rows of timesheets.csv and equipment.csv with their euros.
TimesheetsCsv == {[row |-> i, euros |-> Field(i, "hours") * Rate["labor"]] : i \in Answered("timesheet")}
EquipmentCsv == {[row |-> i, euros |-> Field(i, "idle") * Rate["equipment"]] : i \in Answered("utilization")}

-----------------------------------------------------------------------------
(* Steps.                                                                     *)

Write(e) == /\ Len(ledger) < MaxEvents
            /\ ledger' = Append(ledger, e)
            /\ live' = [live EXCEPT !.fresh = FALSE]

\* The drain loop writes the reports of the simulation, confirmed, and what a
\* device has seen: a proposal if the device is not sure.
Observe(k, t) == \E p \in Payloads[k], s \in {"confirmed", "proposed"} :
    /\ k \in {"timesheet", "utilization", "state_changed"}
    /\ k # "state_changed" => s = "confirmed"
    /\ Write([kind |-> k, time |-> t, status |-> s, actor |-> None, payload |-> p])

\* A worker's entry or a text that is captured: a proposal.
Propose(u, t) == \E k \in {"delivered", "flagged"} : \E p \in Payloads[k] :
    Write([kind |-> k, time |-> t, status |-> "proposed", actor |-> u, payload |-> p])

\* What a supervisor enters by hand counts at once.
Enter(u, t) == \E p \in Payloads["consumed"] :
    Write([kind |-> "consumed", time |-> t, status |-> "confirmed", actor |-> u, payload |-> p])

Confirm(i) == /\ ledger' = [ledger EXCEPT ![i].status = "confirmed"]
              /\ live' = [live EXCEPT !.fresh = FALSE]
Reject(i) == /\ ledger' = [ledger EXCEPT ![i].status = "rejected"]
             /\ live' = [live EXCEPT !.fresh = FALSE]

\* Mutant of LiveRows: proposals are folded as well.
LiveRowsAny == Asc(Having({"confirmed", "proposed"}), LiveLimit)

LiveRows == Asc(Having({"confirmed"}), LiveLimit)

\* A request in live mode folds the record over the live source that is there.
Refresh == /\ ~live.fresh
           /\ LET told == Only(LiveRows, OfKind("state_changed"))
              IN live' = [state |-> IF told = <<>> THEN live.state
                                    ELSE ledger[told[Len(told)]].payload.state,
                          folded |-> live.folded \cup Range(told), fresh |-> TRUE]
           /\ UNCHANGED ledger

\* Another version of the document, or a restart: a live source as the layout says.
Rebuild == /\ live' = [state |-> Layout, folded |-> {}, fresh |-> FALSE]
           /\ UNCHANGED ledger

ReadsInit == ledger = <<>> /\ live = [state |-> Layout, folded |-> {}, fresh |-> FALSE]

ReadsNext ==
    \/ \E t \in Time : \/ \E k \in Kind : Observe(k, t)
                      \/ \E u \in User : Propose(u, t) \/ Enter(u, t)
    \/ \E i \in Recorded : Confirm(i) \/ Reject(i)
    \/ Refresh \/ Rebuild

ReadsSpec == ReadsInit /\ [][ReadsNext]_readsVars

-----------------------------------------------------------------------------
(* Properties.                                                                *)

\* Types: the record is a sequence of events, and the live source has folded in
\* events that are in it.
ReadsTypeOK ==
    /\ ledger \in Seq(Event) /\ Len(ledger) <= MaxEvents
    /\ live \in [state: {"idle", "operating"}, folded: SUBSET Recorded, fresh: BOOLEAN]

\* All that a role is shown of events, by any list, projection or export; exports
\* of events are for members and above.
ShownTo(role) ==
    Range(Events(role)) \cup Range(Inbox(role))
      \cup (UNION {Range(Timeline(Day(t), role)) : t \in Time})
      \cup (UNION {Range(GetEntity(s, role).events) : s \in {x \in Subject : MayView(role, x)}})
      \cup (IF SeesPersonal(role) THEN Range(Export(role)) ELSE {})

\* No read shows crew a single worker, and none shows a supervisor how a worker
\* spent the time, be it in an event, in a projection or as a line of the costs
\* (services/record_access.py:9-18); what is added up all see alike.
PersonalStaysPersonal ==
    /\ \A x \in ShownTo("viewer") : ~Personal(x.event)
    /\ "worker" \notin DOMAIN Directory("viewer")
    /\ \A x \in ShownTo("member") : "behaviour" \notin DOMAIN x.event.payload
    /\ LET worker == GetEntity("worker", "member")
       IN "behaviour" \notin DOMAIN worker.state \cup DOMAIN worker.metrics
    /\ \A l \in Costs("member").lines : l.subject # "worker"

\* The report, the days it is split into, the answers to questions, the files and
\* the projections of the subjects.
FiguresAgree ==
    LET costs == Costs("admin")
        asset == AssetRows
        detail == [s \in {"equipment", "material"} |-> AssetDetail(s)] IN
    Len(ledger) <= ReadLimit =>
      /\ costs.total = SumFunction(costs.byDay)
      /\ costs.total = LaborAnswer + EquipmentAnswer + DeliveriesAnswer /\ costs.total = CostAnswer
      /\ costs.labor = SumFunction([r \in TimesheetsCsv |-> r.euros])
      /\ costs.equipment = SumFunction([r \in EquipmentCsv |-> r.euros])
      /\ costs.labor = GetEntity("worker", "admin").metrics.hours * Rate["labor"]
      /\ costs.waste <= costs.labor
      /\ \A s \in {"equipment", "material"} :
           asset[s].metrics = detail[s].metrics /\ asset[s].state = detail[s].state
      /\ OnHand(detail["material"].metrics) * Rate["material"]
           = costs.material - Cardinality(OfKind("consumed") \cap Having({"confirmed"})) * Rate["material"]

\* Every confirmed event is on a day that can be selected, and the timeline of
\* the day has just the events that the day counts.
DaysHaveTheirEvents ==
    LET rollup == Rollup
        today == Today IN
    Len(ledger) <= Min({ReadLimit, EventsLimit}) =>
      /\ \A i \in Having({"confirmed"}) : Day(ledger[i].time) \in DOMAIN rollup
      /\ \A d \in DOMAIN rollup :
           LET timeline == Timeline(d, "admin")
           IN SumFunction(rollup[d])
                = Cardinality({n \in DOMAIN timeline : timeline[n].event.status = "confirmed"})
      /\ \A k \in Kind : today[k] > 0 => \E i \in OfKind(k) : Day(ledger[i].time) = Max(DOMAIN rollup)

\* One record, one truth: whatever route a figure or an event is asked for by, the
\* answers agree, as long as the record is not longer than what they read of it.
ReportsAgree == FiguresAgree /\ DaysHaveTheirEvents

\* What is last in valid time is what a subject shows, in whatever order devices,
\* outboxes and people told of it.
LatestObservationWins ==
    LET told == OfKind("state_changed") \cap Having({"confirmed"}) IN
    (Len(ledger) <= ReadLimit /\ told # {}) =>
      \E i \in told : /\ GetEntity("equipment", "viewer").state["state"] = ledger[i].payload.state
                      /\ \A j \in told : ledger[j].time <= ledger[i].time

\* A live source that was just refreshed shows what the record says: unless the
\* record is longer than the fold reads, which then has its oldest events, or an
\* event was rejected that had been folded in, which nothing takes back.
LiveCatchesUp ==
    LET told == OfKind("state_changed") \cap Having({"confirmed"}) IN
    (/\ live.fresh /\ Cardinality(Having({"confirmed"})) <= LiveLimit
     /\ Len(ledger) <= ReadLimit /\ live.folded \subseteq Having({"confirmed"})) =>
      live.state = IF told = {} THEN Layout ELSE GetEntity("equipment", "viewer").state["state"]

\* The state that is shown of a machine, live or not, is the last that a confirmed
\* event tells.
LiveFollowsRecord == LatestObservationWins /\ LiveCatchesUp

\* Whoever proposed something finds it among the own entries, as often as the
\* home screen counts; whoever may decide on it has it in the inbox, which is as
\* long as it can be or complete.
ProposalsAreFound ==
    /\ Len(ledger) <= Min({MineLimit, ReadLimit}) =>
         \A u \in User :
           MyPending(u) = Cardinality(Range(MyEntries(u)) \cap Having({"proposed"}))
    /\ \A role \in {"member", "admin"} :
         /\ Len(Inbox(role)) = Min({InboxLimit, Cardinality(Having({"proposed"}))})
         /\ Len(ledger) <= ReadLimit =>
              SumFunction([s \in DOMAIN Directory(role) |-> Directory(role)[s].pending])
                = Cardinality(Having({"proposed"}))
=============================================================================
