# SiteIQ: a TLA+ model of the system of record

SiteIQ runs a construction site as an event-sourced system: cameras, sensors,
a simulation and people produce events, a backend folds them into an
append-only, hash-chained ledger per project, and dashboards read projections
of it. This directory holds the specifications, the model-checking runs and the
machine-checked proofs about the parts of it where concurrency, failure and
ordering decide whether the record is right.

Paths below are relative to the repository (`src/`). The backend is one asyncio
process over PostgreSQL (SQLite in development); database transactions are the
only real concurrency control, because every request, and every round of the
background tasks, runs in a session of its own and interleaves with the others
at each `await`.

## 1. Inventory

| Component | State | Operations | Hard behaviour | Right when |
|---|---|---|---|---|
| Event ledger (`backend/services/event_ledger.py`, `models/site_event.py`) | table `site_events`: seq, prev_hash, hash, content, cached status | `append_many`, `set_status`, `verify_chain`, `find_by_client_event_id` | sessions race between reading the head and committing; only two UNIQUE constraints keep them apart | the chain verifies, nothing is removed or altered, keys are unique, status changes are logged |
| Record API (`api/record.py`), worker API (`api/worker.py`) | none of their own | confirm, reject, create, capture, entry, regenerate | statuses loaded before the append; idempotent replay | a reviewed event leaves the inbox; a replay records nothing new |
| Demo history (`services/demo_record_generator.py`) | none of its own | backfill when empty, wipe and regenerate | check then act; delete under a chain others extend | chain restarts cleanly |
| Edge agent (`edge/agent`) | durable outbox, config with token | enqueue, flush, ack, drop, claim | lossy link, timeouts, restarts, re-claim | no event lost, none recorded twice |
| Ingest API (`api/ingest.py`, `api/deps.py`) | table `device_inbound`, devices | stage a batch, heartbeat, blobs, config | overlapping requests of one device, collisions, answer against commit | an answer 2xx means staged |
| Drain task (`main.py`, `services/ingest_writer.py`, `simulation/event_emit.py`) | in-memory buffers, `processed_at` | fold buffers and staged rows into the ledger | buffer cleared before commit; one transaction for all streams | every staged row recorded once, eventually |
| Worker outbox (`frontend/src/worker/offlineQueue.ts`) | IndexedDB store, `flushing`, `pending` | submit, flush | several tabs, offline, 4xx against 5xx | no entry lost or doubled |
| Source registry (`state/registry.py`, `live_source.py`) | engine, recommendation service and analytics per org | get, get at version, live, discard | request handlers and three loops replace each other's source | readers see the org's own current source |
| Project versions (`db/project_repository.py`, `api/projects.py`) and editor draft (`hooks/useProjectDraft.ts`) | project pointer, content-addressed versions; draft, undo stacks, last saved version | save with If-Match, delete, activate; patch, undo, autosave | optimistic lock read and written in separate statements; answers of overtaken saves | no edit silently overwritten |
| Device registry (`services/device_service.py`, `api/devices.py`) | claims, devices, tokens | create claim, claim, rotate, revoke | double claim of one code | one device per claim |
| Organisations (`orgs/service.py`) | memberships, invites | invite, accept, change role, remove, leave, delete | owner count read, then delete | an org keeps an owner |
| Accounts (`auth/service.py`, `auth/sessions.py`) | users, tokens, sessions | sign up, verify, reset, log in, delete | one-time tokens consumed twice | a token works once |
| Simulation (`simulation/*`) | site, workers, equipment, elevators, day clock | `tick`, day rollover, apply recommendations | long runs of local rules | states of the machines stay legal |
| Projections, access, costs (`services/record_*.py`, `cost_engine.py`) | none | folds over a stream | none (pure) | agree with a reference definition |
| Live updates (`api/websocket.py`, `hooks/useWebSocket.ts`) | sockets, sequence of snapshots | connect, push, reconnect | source captured once, reconnect timers | the page shows the current source |
| The rest: scoring in optimisation and analytics, HTTP filters, settings, mail templates, seeds, sidecar, gateway, firmware, user interface | | | | not modelled (section 8) |

How they interact: devices -> sidecar -> agent outbox -> `POST /api/ingest/events`
-> `device_inbound` -> drain task -> `site_events`; simulation engine -> in-memory
buffer -> drain task -> `site_events`; worker PWA -> IndexedDB outbox ->
`POST /api/worker/entry` -> `site_events`; supervisors -> `/api/record` ->
`site_events`; everything read goes through folds of `site_events`, the registry's
source, and the web socket.

## 2. Modules

| Module | Models |
|---|---|
| `EventLedger` | one stream of `site_events` and the transactions on it, a statement at a time |
| `AppendOnlyRecord` | what a stream promises, with no sessions, locks or hashes; `EventLedger` is checked to implement it |
| `LedgerRegenerate` | `EventLedger` plus the regenerate request, which deletes the stream |
| `LedgerProofs` | theorems about `EventLedger`, `LedgerRegenerate` and `RecordReads` |
| `DeviceIngest` | agents, requests, staging and the device half of the drain |
| `DeviceIngestProofs` | theorems about `DeviceIngest` |
| `ProjectDraft` | editor pages, their autosave loops and uploads, and the server's versions of one project |
| `SourceRegistry` | an organisation's choice of project in the database and the source the process holds for it |
| `SourceRegistryProofs` | theorems about `SourceRegistry` |
| `OrgMembership` | organisations, memberships, invitations, and what each login acts on |
| `Accounts` | accounts, logins, mailed links, and the sweeps of dead rows |
| `DeviceRegistry` | claims, devices, their tokens and calibrations, and the agent's heartbeat |
| `DeviceRegistryProofs` | theorems about `DeviceRegistry` |
| `VerticalTransport` | workers between levels, stairs, and the cabs of elevators |
| `SiteDay` | the day of workers and machines, the event buffer and its drain, applied advice |
| `SimulationProofs` | theorems about `VerticalTransport` and `SiteDay` |
| `RecordReads` | queries, projections, access tiers, costs, answers, exports and the live source as operators on a ledger |
| `OrgMembershipProofs` | theorems about `OrgMembership` |
| `AccountsProofs` | theorems about `Accounts` |
| `ProjectDraftProofs` | theorems about `ProjectDraft` |
| `MC...` | constants and symmetry for TLC |

### EventLedger

`rows` is the committed table; `tx[s]` is what database session `s` is doing:
`pc` says which statement comes next, `envs` what it will append, `head` what
`_stream_head` returned to it. Rows a session has flushed but not committed are
`InFlight(s)`. The actions are the statements, in the order of the code:

| Action | Code |
|---|---|
| `AppendRequest`, `BackfillRequest`, `EntryRequest`, `ConfirmRequest`, `RejectRequest` | what a handler reads and decides before the ledger is entered |
| `ReadHead` | `_stream_head` |
| `InsertRows` / `InsertConflict` | the flush of `append_many`: succeeds, waits, or raises `IntegrityError` |
| `UpdateStatus` | `event.status = new_status` and its flush in `set_status` |
| `Commit`, `Rollback` | `get_db` |

READ COMMITTED is modelled as PostgreSQL implements it: a statement reads what is
committed when it starts; an INSERT whose unique key another open transaction
holds waits for that transaction; an UPDATE waits for the row. The ORM detail that
an UPDATE is emitted only if the new value differs from the loaded one is kept
(`Dirty`), because it decides what a review of an already reviewed event does.
A hash is the sequence of what it was computed from, that is, SHA-256 is taken to
be injective; the fields `event_hash` leaves out (status, client_event_id) are
left out of it.

### LedgerRegenerate

`wiped[s]` holds the rows an open regenerate has deleted, `stale` the sessions
whose loaded event was deleted under them, `mixed` remembers that a regenerate
overlapped another transaction.

### DeviceIngest

`outbox[a]` and `agent[a]` are the agent; `request[r]` is a handler in the server
from its arrival to its answer; `staged`, `recorded` and `drain` are
`device_inbound`, the rows with `processed_at` set, and the rows the drain's open
transaction has read. `TouchDevice` is where a request waits for another one of
the same device: authentication sets `last_seen_at`, and the SELECT of
`ingest_events` autoflushes that UPDATE, so the row of `devices` is locked until
commit. `Answer` reaches an agent only if it still waits for this very request.
`ReplyFirst` chooses between FastAPI releases that run the exit code of yield
dependencies (and so the commit) before and after the response is sent;
`pyproject.toml` admits both. A failed deletion in `Ack`, which the agent ignores,
leaves the same state as a restart before it.

### ProjectDraft

A document is the set of edits it contains, and a version id, being the hash of a
document, is the document. `editor[e]` is the state of `useProjectDraft`:
`flight` is `inFlightRef` together with the `cancelled` flag of the effect that
started the save, `saved` is `savedVersionId`, `lastSaved` is
`lastSavedHashRef`. `request[e][c]` is what the server does for the page, on the
channel of the autosave and on the one of background uploads. The server's steps are
`ReadProject` (everything up to the If-Match comparison), `LockProject` (the
autoflushed UPDATE that takes the row) and `CommitSave`. The requests of one login
do not overlap, because authentication updates the row of the session;
those of two editors do. The project may be deleted and then stays deleted, so these
runs have states without successors.

### SourceRegistry

`org[o]` holds the columns `active_project_id`, `active_project_version_id` and
`live_mode`, and `source[o]` what the registry has: a simulation or a `LiveSource`,
its slug, its version tag and the document it really runs, which the code does not
record and the properties are about. A call of the registry contains no `await` and is
a step, so the registry's methods are operators from what it held to what it holds
(`ForOrg`, `ForOrgAtVersion`, `ForOrgLive`), and `GetSource` puts them together as
`get_source` does. A handler is `Begin` (authentication reads the row), `Resolve` (its
dependencies and its calls of the registry), `Flush` (the UPDATE takes the row) and
`Commit`, which writes the columns that differ from the copy the handler read
(`Merged`), as the ORM does. `worked` marks a simulation whose day has begun, so that
a rebuild is seen. Deleting an organisation discards its source before it commits.

`SlugsApart` is a premise of three properties: tagging an untagged engine by slug
(`for_org_at_version`) is right only if no organisation gives a project the slug of a
seed, which the code does not prevent.

### OrgMembership

`role[o][u]` is the table of memberships, `invite` the open invitations,
`cur[u]` is `auth_sessions.current_org_id` of the user's login. A request is
two steps. `Begin...` reads what authorises it (`get_current_org` and
`require_role`) and what its service decides on, such as the number of other
owners; `Commit...` writes. Other requests commit in between. No statement of these
services locks a row it decides on, so two decisions can overlap. `overlap`
records where they did; the properties except exactly those organisations and
addresses, and nothing else.

### Accounts

`sess` and `token` are the rows of logins and mailed links, with an `age` that
stands for the expiry columns (live, expired, past retention). `epoch` counts how
often a user ended the other logins, and a login carries the epoch it was opened
in, so `OtherLoginsEnd` can say that an older login is not usable. A request that
mails does so (`Mail`) between its flush and its commit, as the code does.

### DeviceRegistry

A request reads the row of a device (`Begin...`) and writes the columns in which
its copy changed (`Commit...`), which is what the ORM's UPDATE does: a rotation of
a device it loaded as active does not name `status`. `decided[d]` is the history the
properties are about: the last decision on a device, the tokens it ended, and
whether the request that took it had read the row before another decision
(`late`). `Beat` is a heartbeat that gets through and the fetch that follows it.

### VerticalTransport

`SimulationEngine.tick` calls `update_worker` for each worker in order, then
`_tick_cabs`. `clock.turn` walks through that order; `CabTurn` is one iteration of
the loop in `tick_cab`, with `clock.left` as its budget. Workers are stripped to
what happens between levels: a level, the level they are bound for, and the FSM's
vertical states. `FirstHops` is the set of connections `_find_connection_to` may
return; which one depends on the order of the project's connections, so any of them.

### SiteDay

`Tick` is `SimulationEngine.tick`: every worker's handler, every machine, then the
clock, and the end of the day with its reports and resets. A worker's `spent`
stands for the sum of its accumulators of time, `trips` and `rounds` for the counts
and times of round trips. `buffer` is `pending_events`, a deque of `Capacity`;
`TakeEvents`, `CommitEvents` and `FailEvents` are a round of the drain loop.
`Advised` says when an optimiser has an advice; `Got` merges a list of advice with
the applied marks as `RecommendationService.get` does.

### RecordReads

The routes keep no state, so the module is one of operators: `Events`, `Inbox`,
`Timeline`, `Entity`, `Directory`, `MyEntries`, `Costs`, the answers and the files are
computed from `ledger` as the code folds over its rows, including the limits of
their queries and the order of valid time. The actions only make ledgers:
whoever may write does (`Observe`, `Propose`, `Enter`), reviewers review, and
`Refresh` and `Rebuild` fold the record over the live source. The properties are
reference definitions of one another: a figure that two routes compute in two ways
must be the same. A manual entry is assumed to have the subject its kind is about,
which `POST /record/events` does not check.

A list is stated by the place each event has in it, which is how many come before it
(`Listed`); sums are folds of the community modules. Both are there to be proved about.

## 3. Runs

| Run | Instance | Shows |
|---|---|---|
| `event_ledger` | 2 sessions, batches of 1-2, up to 3 rows, 1 key, fair, no symmetry | in every interleaving the chain verifies, keys are unique, reviewed events leave the inbox, the log only grows, status changes are logged, `AppendOnlyRecord` is implemented, no transaction waits for ever |
| `regenerate` | 2 sessions, up to 3 rows | chain restarts when nothing overlaps; no seq or key twice when something does |
| `device_ingest` | 1 agent, 3 events (1 malformed), 2 requests, batch 2, drain 1, 2 claims, fair | nothing is lost by an agent that keeps its device; every event it accepts is recorded or refused |
| `project_two_editors` | 2 pages, 2 edits, saves only, every fault | what counts as saved is stored, saves that do not overlap never overwrite |
| `draft_autosave` | 1 page, an edit and a background that are invalid together, both channels, every fault, undo depth 1 | versions form a tree, no edit stays unsaved in silence |
| `source_registry` | 1 organisation, a seed and a project of its own, 2 handlers of all 7 kinds, loops, websockets, restarts | a tagged source runs its version; a request that read the current choice is served it; a choice that stands keeps its running simulation; slug and pin agree unless two writers overlap |
| `org_membership` | 3 users, 1 organisation, 2 rows of invitations, 2 requests at a time | an organisation keeps an owner, invitations are spent, logins follow memberships, a deleted account takes no organisation of others along |
| `accounts` | 1 address, 2 logins, 1 mailed link, 2 requests, 1 change of password | a new password ends the other logins, a link works once, a revoked login stays revoked |
| `device_registry` | 1 code, 2 devices, 2 requests, 2 calibrations, 3 tokens, 4 administrative requests, fair | a code makes one device, the last decision holds, ended tokens are dead, agents take over calibrations |
| `vertical_transport` | 3 workers, 4 levels, a stair and an elevator of 2 seats, ticks of 2 and 3 units, fair | nobody is in two places, a wanted cab moves, travellers arrive |
| `site_day` | 1 worker, 1 machine, days of 4 ticks, buffer of 2, 2 engines of 2 days | a day adds up, each report reaches the record once, an elevator is enlarged once |
| `record_reads` | every ledger of up to 3 events of 6 kinds, 2 moments on 2 days, every review | personal records stay personal, all reports agree, the live source follows the record, proposals are found |

### Bounds

* `MaxSeq` (no request begins that would take the stream past it) and `MaxBatch`:
  three rows give a fact, a review of it and a second review or a competing fact,
  which is every relation the properties speak of: predecessor, target, last
  companion. Two of a batch are enough to chain inside a batch.
* Two sessions show every race between two statements. A third one can only wait
  behind them, and that it does no harm is proved (section 5) for any number.
* One key suffices, because keys only ever conflict with themselves. One body,
  because content is only compared through hashes. Producers do not use the
  companion kinds themselves (the schema of `POST /record/events` takes any
  string; nothing in the clients sends them).
* A regenerate may overlap other transactions once (`mixed`).
* `MaxClaims` bounds how often an agent is provisioned, `Request` how many
  handlers are open, `BatchLimit`/`DrainLimit` the batch sizes; three events with a
  batch of two make a batch and a remainder, two requests an overlap, and a drain of
  one row leaves rows behind. Two claims are an agent that is claimed anew, the only way
  into the collision branch.
* `ProjectDraft`: `MaxHistory` 2 is the least at which `slice(-MAX_HISTORY + 1)`
  cuts; `MaxUndo`, `Channel` and `Faults` choose how deep undo goes, whether uploads
  take part and what fails. Two edits give two documents that differ and their union.
* `SourceRegistry`: organisations do not share rows or sources, so one suffices; one
  seed and one project give every switch between slug and version; `Kind` chooses the
  requests in play. Nothing else is bounded: the state space is finite.
* `OrgMembership`: a third user is needed for an owner to remain when two leave or
  are removed; a second organisation only matters for what a login switches to, and
  `NoOrg` plays its part. `MaxBusy` 2: a race is between two decisions. `GivenRole`
  leaves out member and viewer, which may do nothing that admin may not.
* `Accounts`: accounts share no rows. Two logins are the one that acts and another
  one; one link at a time, because links are only consumed by themselves.
* `DeviceRegistry`: two devices so that one code can make two; three tokens are a
  claim and two rotations, and four administrative requests two pairs of decisions.
* `VerticalTransport`: the upper storey takes a cab as long as the longer tick, so
  that cabs arrive in and between ticks; two seats for three workers so that one
  waits; workers live on level 2, between a stair and an elevator. Two-hop ways (1 to
  4) occur and are the exception of `TravellersArrive`.
* `SiteDay`: the first engine starts late in its day; trips of two ticks are counted
  and of three are not; a buffer of two overflows when a machine's change joins the
  reports. `MaxLife` 2 makes one restart or reload. `TripsAreShort` is an assumption:
  no round trip takes a whole day.
* `RecordReads`: a day has two moments, and 1 and 2 are on different days. Three
  events are a delivery, a use and a correction, or two observations in the wrong
  order and a third to cut off; the limits are 2 and 3 so that lists do get cut.

### Fairness

* `EventLedger`: a session whose next statement can run eventually runs it
  (asyncio schedules every ready task), and strongly for INSERTs, because
  PostgreSQL queues lock waiters and grants in order. Requests and rollbacks are
  not fair.
* `DeviceIngest`: timers fire and handlers end (weak fairness); not every round
  of the drain fails (strong, on its commit); and from some point on there are no
  timeouts, restarts or failures (`<>[][~Trouble]`), without which a retry loop
  can never be shown to end. The last is an assumption about the environment.
* `ProjectDraft`: the interval fires, answers arrive, handlers run
  (weak fairness of `Page` and `Handle`), and at some time the user only watches and
  nothing fails. While edits go on nothing is promised: each restarts the interval.
* `DeviceRegistry`: `Beat` is strongly fair: heartbeats are due for ever, and now and
  then one gets through. Nothing else is fair.
* `VerticalTransport`: weak fairness of the whole step: the engine goes on ticking,
  and each tick ends. Which worker has a need is not fair.

## 4. Abstract specifications

`AppendOnlyRecord` has two variables, the log and a status per event, and one
action: append a block of events to an unchanged log, with any old status
changing only if the block holds a review saying so. `EventLedger` implements it
(`ImplementsRecord`) with `log` and `status` computed from `rows` in seq order;
the statements before a commit are stuttering steps.

## 5. Proofs

`LedgerProofs` proves, for every number of sessions, keys, bodies and every
batch size and length, that the stream is well typed, verifies, holds every key
and seq once, has one writer at a time, is append-only, logs status changes and
keeps reviewed events out of the inbox. Nothing is assumed beyond `NoKey` not
being a key and the bounds being natural numbers. The argument:

* `GapFree` and `Linked` are what `verify_chain` needs, and are not inductive by
  themselves: an append is chained to a head read earlier. What saves it is
  `HeadOK` (that head is still a committed row) with `FlushedOK` (once the rows
  are flushed, it is still the last one): any other session that appended since
  would have taken the seq, and the flush would have failed or waited
  (`OneFlushed`). So the UNIQUE constraint on seq is the lock that the comments
  call the single writer.
* `BatchOK` says what an open transaction will write: distinct keys, and for a
  review its target is committed and, if it was loaded as reviewed, is still not
  proposed. It carries `ReviewedLeavesInbox` through the case in which no UPDATE
  is emitted.

`DeviceIngestProofs` proves the type invariant and, when responses follow commits,
that an agent with one device identity loses no event. Requests carry what the
agent will delete (`WaitsForItsBatch`), an event missing from `fresh` is staged
already (`RequestOK`), and because a device has one request between its lock and
its commit (`OneHolder`), what a request found new stays new (`FreshIsNew`): the
collision branch, which would answer 2xx for a batch it rolled back, cannot be
taken.
`SourceRegistryProofs` proves every property of the run `source_registry`. The
inductive invariant adds to the types that a source bears the slug of the document it
runs, that one without a version tag runs a seed (`SourceOK`), and that a handler's
choice fits its kind. With `SlugsApart` this makes tagging by slug right: an untagged
engine runs the seed of its slug, a version of that slug is that seed. The calls of
the registry are proved one by one (`ForOrgOK`, `ForOrgAtVersionOK`, `GetSourceOK`)
and the handlers cite them. Assumed are: seeds have different slugs, the default
project is a seed, and the markers are not data.

`DeviceRegistryProofs` proves the safety properties of the run `device_registry` from
`RegistryAssumption`. `LastDecisionHolds` alone is not inductive: a request writes the
status only where it differs from the one it read, so `AdminsOK` says that a decision
that is not late has read the status that is there (`Decide` marks the others late).
`ClaimsOK` gives each claim a row of its own and, until another request claims its
code, no device by that code; `CodesOK` starts it off, since a code that made a device
is used. `TokensOK` says that the token in use is newer than those that were ended.

`SimulationProofs` proves both safety properties of the run `vertical_transport` for
any workers, levels, stairs and elevators and any lengths of ticks, from
`TransportAssumption`: no worker and no elevator is listed twice, an elevator is not a
stair, a cab has a seat, and time is positive. A connection may have no stops; its cab
then has no level worth naming, and `TypeOK` claims none.
* `EachRiderOnce` counts places in queues and cabs. Its inductive form says what is
  counted: everybody in a queue is bound by that elevator and stands at that queue's
  level, once (`QueuesOK`), everybody in a cab goes by it (`RidersOK`), and whoever goes
  by elevator is in its cab or queue (`TravellersOK`). Boarding takes the front of a
  queue into the cab (`Boarders`), so the lemmas about prefixes of sequences without
  repetition carry the step; that a cab is never overfull needs the free seats at the
  moment the doors open. `RoutesOK` keeps a worker's next connection one that stops at
  its level, or `JoinQueue` would file it in a queue nobody serves.
* `WantedCabMoves` speaks of the end of a tick, its proof of every moment within one:
  a cab at rest is empty with its doors shut (`CabsOK`), and each cab that has had its
  turn in this tick is on its way if it is wanted (`TurnsOK`). A turn begins with time
  left, so that a called cab at rest picks a direction before the loop gives up; and
  no step of a later cab calls an earlier one: who alights goes to work, not on to
  another elevator, before the next tick.

It proves the three properties of the run `site_day` as well, for any staff, machines,
walks, days and engines, from `SiteDayAssumption` (finite staff and machines, positive
times) and `TripsAreShort`. The invariant is `DayInv`; TLC finds it true of every state
of the run.
* `DayAddsUp`: that a timed trip was counted on its day needs the way of a trip.
  `WorkerOK` bounds the ticks since a trip began and those its present leg may take
  by the legs it has had (`Limit`), each shorter than a third of a day. So a
  trip never lasts until the clock shows the tick of its start again, a start that
  is not later than the clock is of this day, and `Back` times no trip of
  yesterday. The handlers are gone through one by one (`HandledHandles`).
* `UtilizationAddsUp` is about a sum over a set of any size. The library's induction
  over sets takes an operator and cannot be instantiated here; the
  lemmas about `SumFunctionOnSet` (it is well defined, does not depend on the order,
  grows by the term that is added, and depends on its terms only) are proved by least
  counterexample instead: a smallest subset that violates the claim, by its
  cardinality, which is a natural number (`LeastNatural`).
* `ReportedOnce`: every report, wherever it got to, is of a day that is over
  (`OverOK`), so the reports of the day that ends have new keys (`NewDay`), and the
  buffer, the batch in the drain and the record stay apart (`OnceOK`). `All`, the
  union of everything there is of reports, grows at the end of a day and never else:
  overflow, failure and restart move reports to `lost`.
* `BoostedOnce`: with the places added, the advice is not open, neither in a list that
  is kept nor in one that is computed (`BoostsOK`, `GotIs`).

`LedgerProofs` also proves the four properties of `RecordReads`, for a ledger, a rate
card and limits of any size. `ReadsAssumption` is all that is assumed: moments and rates
are natural numbers, limits are positive, `None` is no user. Nothing of it is inductive
but the types and `LiveInv` (what was folded in are events that were told, and a live
source that is fresh shows what `LiveCatchesUp` says); the rest is what is true of any
well-typed ledger, and rests on two sets of lemmas:

* Lists. `ListOf(s, S, R)` says that s has each element of S once, in the order R.
  `ListedIs` gets it from counting predecessors, `LeastIs` and `OnlyIs` keep it through
  a limit and a filter, and `ListsAgree` makes two routes the same list once they have
  the same set. So a limit that is never reached drops out (`AscAll`, `DescAll`).
* Sums. `SumUnfolds` shows that the sum of the community modules, which is defined by a
  choice of elements, is the recursion it should be; `SumTakesOne` that the choice does
  not matter. From these follow sums over unions, images, parts and days (`SumOfUnion`,
  `SumOfImage`, `SumOfPart`, `SumByPart`), by induction over finite sets without an
  operator parameter (`ElementInduction`).

`ReportsAgree` then compares routes in pairs: lines and rows of files are images of
events (`PricedIs`, `FileIs`), categories are disjoint parts (`LinesAre`), days a
partition (`TotalIs`, `DayIsCounted`), list and detail of an asset the same list
(`AssetsAgree`). `PersonalStaysPersonal` goes by where an event is shown: lists redact
for themselves (`ListingIs`), projections of a worker in `WorkerRedacted`, other
subjects have no timesheets.

`LedgerProofs` also proves that the stream implements `AppendOnlyRecord`
(`StreamImplementsRecord`). The map takes the committed rows in the order of their
seq. That order exists because `GapFree` and unique seqs number the rows 1 to n
(`Numbered`), and a commit leaves the old numbers alone and continues them
(`CommitAppends`), so it appends a block; that the status of an older row changes
only with its review in the block is `StatusChangeLogged`'s argument again. All other
steps leave the committed rows as they are and stutter.

For `LedgerRegenerate` it proves both properties of the run. That no two rows are twins
rests on `InsertedApart` (what a session has inserted collides with no row it sees and
with no row another session has inserted) and `DeletedStay` (no review rewrites a row
that is being deleted, or the deletion would miss its new version). That a lone
regenerate keeps the chain is proved from the ledger's own invariant: as long as nothing
has overlapped, either nothing is deleted and every step is one of `EventLedger`, or one
session has deleted everything and builds a stream from its start (`AloneOK`).

`OrgMembershipProofs` proves every property of the run `org_membership`. A request
decides on what it read, so the invariant says what is left of the reading:
`DecidedOn` that a request which takes an owner away still has another owner beside it
unless `overlap` remembers otherwise, `RowRead` that a row or invitation it is about is
what it saw, `Spent` what `InvitesAreSpent` says by counting. Assumed are that the
markers are not data, that the identifiers of invitations are finitely many (for
counting them) and that `GivenRole` holds roles.

`AccountsProofs` proves every property of the run `accounts`, for any number of
accounts that share the tables. `Vouched` is `OtherLoginsEnd` for expired logins, too,
because a request under way can make one valid again (`touch_session`). `AsksOwn` and
`UsesOwn` say that the login and the link a request carries are still those of its
user, `MailsAlone` that no two requests mail one link. The first attempt failed for a
good reason: the model let a new login take a row whose identifier an old request
still carried, which `uuid4` rules out in the code; `FreshLogin` says so now.
`RevokedStaysRevoked` is proved from what each commit does to the rows that are there
(`RowsStay`).

`ProjectDraftProofs` proves the safety properties of the runs `project_two_editors`
and `draft_autosave` for any pages, edits and undo depth. `RequestHolds` carries them:
what the server works on has a stored parent, nobody holds the row of a project that
is gone, and an answer "ok" to a save is about a stored document, also when it arrives
after the document on the page has changed. A tree stays a tree because a version is
stored once and then points at one that was there before (`StoreKeepsTree`). `Alone`
and `UpToDate` say that the requests of one page follow one another, so that a request
whose parent is no longer current has overlapped one of another page, which `overlap`
remembers. Assumed are that the markers are no documents and that the history keeps at
least one document (`MaxHistory`, 50 in the code, is not 0 or 1).

Model-checked only: liveness (`TransactionsEnd`, `EventuallyRecorded`,
`NeverSilentlyUnsaved`, `ConfigConverges`, `TravellersArrive`; this prover has no
fairness and no ENABLED). Every other property of every run is a theorem.

Type invariants (`TypeOK`) are defined in every module with state; where a `...Proofs`
module exists they are theorems, elsewhere they hold when added to the run's
configuration. Runs spend their properties on what could go wrong.

## 6. Where code and documentation disagree

Properties that the code breaks are defined beside the others but belong to no run. Those
with a configuration named are found by checking the property alone under it (with
`Spec` in place of `FairSpec` where it is an invariant); the rest was met while modelling.

* `CacheFollowsLog` (EventLedger, `EventLedger.cfg` with `Spec`): a reject of an
  already rejected event that races a confirm leaves a cached status the log does not
  explain: the ORM emits no UPDATE for a value it loaded
  (`services/event_ledger.py:181`).
* `NoEventLost` (DeviceIngest, `DeviceIngest.cfg`): the
  collision branch of `ingest_events` reports success for events it rolled back
  (`api/ingest.py:148`), and the agent deletes them; the row lock on `devices` hides
  it unless the agent has been claimed anew.
* `BackfillOpensStream` (EventLedger, `EventLedger.cfg`): `ensure_demo_history`
  checks that the stream is empty in one statement and appends in a later one, so
  demo history can follow a live event.
* `RegenerateKeepsChain` (LedgerRegenerate, `LedgerRegenerate.cfg`): regenerating
  while anything else writes leaves rows that no longer chain.
* `NoEventLost` (DeviceIngest, `DeviceIngest.cfg` with `ReplyFirst` TRUE):
  whether a 2xx means the events are staged depends on whether the installed FastAPI answers before it commits.
* `EventuallyRecorded` (DeviceIngest, `DeviceIngest.cfg` with two agents and an
  event in `Unrecordable`): one staged row that `site_events` refuses stops the
  folding of all streams, because all are folded in one transaction.
* `SavesAreLinear` (ProjectDraft, `ProjectTwoEditors.cfg`): `save_version` compares
  If-Match with a row it has not locked (`db/project_repository.py:188`), so two saves
  can both pass and the second overwrites the first, although If-Match is there "so two
  editors can't silently clobber each other" (`hooks/useProjectDraft.ts:137`).
* `AloneNoConflict` (ProjectDraft, `ProjectTwoEditors.cfg` with one editor, `MaxUndo`
  1): any edit drops the answer of the autosave in flight and with it the new version
  id, so the next autosave conflicts with the user's own save and autosave stops.
* `LatestStateIsPosted` (ProjectDraft, `FairSpec`, the same constants and
  `TakenBack` {x1}): an edit undone
  while its autosave is on its way stays in the project, because the document equals
  the last saved one again.
* `ChoiceIsOne` (SourceRegistry, `SourceRegistry.cfg`): an organisation's choice is two
  columns, and a seed load that overlaps an activation can leave the slug of one with
  the pin of the other (`api/routes.py:116`; `db/models.py:266` calls it one atomic
  UPDATE).
* `LiveStaysLive` (SourceRegistry, `SourceRegistry.cfg`): every round of the analytics
  loop puts an organisation in live mode back on a simulation of the default project,
  until its next request (`main.py:84`, against `db/models.py:109`).
* SourceRegistry without `SlugsApart`: a custom project with a seed's slug is tagged
  onto the seed's engine and never runs (`state/registry.py:105`).
* After a restart a websocket that comes first has the default project built
  (`api/websocket.py:32`), and `for_org` then ignores the stored seed choice, which
  `active_project_id` is kept for (`db/models.py:97`).
* When a pinned project is deleted, "fall through to seed" (`api/deps.py:257`) looks
  its slug up among the seeds; after a restart every request of the organisation
  raises `Unknown project` (`Resolves` is what fails).
* `delete_account` looks the other owners up with `scalar_one_or_none`
  (`auth/service.py:396`), which raises as soon as there are two, although its
  docstring (`:371`) promises the deletion where another owner remains. The model
  has it as a guard of `BeginDeleteAccount`.
* OrgMembership without the `overlap` exceptions: two owners that leave at once
  leave an organisation without owner (`orgs/service.py:347`); two invitations of
  one address at once make two rows, after which every further invitation of it
  fails (`orgs/service.py:138`).
* A switch that a removal overtakes leaves the login on the organisation its user
  was removed from (`orgs/service.py:381`); every request of it is then refused.
* `LinkIsSingleUse` (Accounts, `Accounts.cfg`): "The token is single-use"
  (`auth/service.py:275`), but two requests that overlap both find it unused.
* Mails are sent before the rows they point at are committed, and magic links and
  reset links that are out stay good after a reset of the password.
* DeviceRegistry without the exception `late`: a revocation that overlaps a rotation
  leaves the device active, or the token that was just handed out dead
  (`api/devices.py:230-250`). The answer to a claim that gets lost leaves a device
  nobody has the token of, and a code that is used.
* The agent stores the version of its configuration only; "the agent persists it"
  in `edge/sidecar/sidecar.py` is not what `edge/agent` does.
* VerticalTransport: a passenger bound for a level the elevator does not reach stays
  in the cab for ever and keeps its seat (`Stranded`), although
  `worker_behavior.py:374` says that it "re-routes from the destination if more hops
  are needed"; on a stair it goes back to work instead.
* After a ride a worker walks to work, never to the facility it set out for
  (`worker_behavior.py:513-547`). A stop that is further than one tick's budget is
  never reached, and a call at the level where the cab stands is served only after
  it has left and come back (`vertical_transport.py:97-175`).
* SiteDay: loading a project clears `pending_events`, and a failed commit loses what
  `drain` took out; after a restart the days count from one again, so that the record
  gets two timesheets of one worker and day. A machine that is released never
  reports the hours of its last day; an advice that disappears and comes back
  is applied again (`services/recommendation_service.py:71`).
* `simulation/engine.py:130` says that the navigation mesh is invalidated when an
  advice is applied; `_apply_rec` (`api/routes.py:243`) does not rebuild it.
* RecordReads: the live source is folded from the oldest 5000 confirmed events
  (`api/deps.py:287-290`), not from the recent ones; what was folded in and then
  rejected is not taken back. `LiveFollowsRecord` excepts both.
* "incidents" in an answer counts rejected and proposed ones, too
  (`services/record_query.py:148`), costs in an answer read 100000 rows and the cost
  report 200000, and the inbox shows the newest 500, so that an old proposal can
  starve.
* An export in which behaviour is redacted does not let its reader recompute the
  hashes it comes with.

## 7. Plan

Done, in the order of their weight: the ledger, device delivery, project versions and
drafts, the source registry, organisations, accounts, devices, the simulation's state
machines with the engine half of the drain, and the read side. Left:

1. `WorkerOutbox`: the offline queue with several tabs, composed with `EntryRequest`.
2. Abstract specifications: a project's history (for `ProjectDraft`), an organisation's
   choice (for `SourceRegistry`), exactly-once delivery (for `DeviceIngest`).
3. Live updates: push loop, reconnection and the page's snapshot.

## 8. Not modelled

* Positions, paths in a level, the navigation mesh, the scores of optimisers and
  analytics: floating-point geometry over one snapshot, without states of its own.
* The worker's offline queue (`frontend/src/worker/offlineQueue.ts`): planned. Its server
  half, the replay of an entry, is `EntryRequest` of `EventLedger`.
* The push loop of the web socket and reconnection in the page.
* HTTP filters, rate limits, logging, settings and health checks have no protocol.
* E-mail templates, seeds, site factories and demo content are data. The sidecar, the
  MQTT gateway and the firmware produce events and drop what the agent's local endpoint
  does not take. The user interface renders server state.
* SQLite, used in development, serialises writers and shows a subset of the
  interleavings.
