----------------------------- MODULE DeviceIngest -----------------------------
(***************************************************************************)
(* How an event of a device reaches the record: the edge agent's durable   *)
(* outbox and flush loop (edge/agent), POST /api/ingest/events             *)
(* (api/ingest.py) staging batches in device_inbound, and the drain task   *)
(* (main.py, services/ingest_writer.py) folding staged rows into           *)
(* site_events.                                                            *)
(*                                                                         *)
(* The link is flaky: requests and responses get lost, the agent times out *)
(* and retries while its first request is still being handled, and both    *)
(* ends crash.  Requests of one device overlap in the server; what keeps   *)
(* them apart is the row lock of the UPDATE on devices that authentication *)
(* leaves pending and the staging SELECT flushes.                          *)
(***************************************************************************)
EXTENDS Integers, FiniteSets, FiniteSetsExt

CONSTANTS
  Agent,       \* edge agents, each provisioned for a project of its own
  Event,       \* events, named by client_event_id
  SourceOf,    \* SourceOf[e]: the agent whose sidecar or gateway makes e
  Request,     \* request handlers that can be open at once
  BatchLimit,  \* the agent's -batch
  DrainLimit,  \* rows of a stream folded in one round (_BATCH)
  MaxClaims,   \* bound: how often an agent is provisioned
  Malformed,   \* events EnvelopeIn rejects (client_event_id under 8 chars)
  Unrecordable,\* events staging takes but site_events refuses (kind over 64 chars)
  ReplyFirst   \* the installed FastAPI sends a response before get_db commits

ASSUME SourceAssumption == SourceOf \in [Event -> Agent]
ASSUME LimitAssumption ==
  BatchLimit \in Nat \ {0} /\ DrainLimit \in Nat \ {0} /\ MaxClaims \in Nat \ {0}
ASSUME ReplyAssumption == ReplyFirst \in BOOLEAN

VARIABLES
  produced,  \* history: events the local ingest endpoint has accepted
  outbox,    \* outbox[a]: the durable outbox of a
  agent,     \* agent[a]: where the flush loop of a is
  request,   \* request[r]: what the server does with a POST
  staged,    \* committed rows of device_inbound
  recorded,  \* rows with processed_at set, which are rows of site_events
  drain,     \* rows the open transaction of the drain task has read
  refused    \* history: events of batches answered 4xx

vars == <<produced, outbox, agent, request, staged, recorded, drain, refused>>

AgentPc == {"idle", "waiting", "ok", "permanent"}
RequestPc == {"free", "sent", "locked", "looked", "flushed", "replied", "committed"}

FreeRequest(a) == [pc |-> "free", from |-> a, claim |-> 1, batch |-> {}, fresh |-> {}]

Init ==
  /\ produced = {} /\ staged = {} /\ recorded = {} /\ drain = {} /\ refused = {}
  /\ outbox = [a \in Agent |-> {}]
  /\ \E r \in Request :
       agent = [a \in Agent |-> [pc |-> "idle", claim |-> 1, batch |-> {}, req |-> r]]
  /\ \E a \in Agent : request = [r \in Request |-> FreeRequest(a)]

-----------------------------------------------------------------------------
(* The agent *)

server == <<staged, recorded, drain>>

\* POST /local/events: INSERT OR IGNORE.
Enqueue(e) ==
  LET a == SourceOf[e]
  IN /\ e \notin produced
     /\ produced' = produced \cup {e}
     /\ outbox' = [outbox EXCEPT ![a] = @ \cup {e}]
     /\ UNCHANGED <<agent, request, server, refused>>

\* Batch orders by a creation time in whole seconds and then by a random id:
\* within a second any subset can be the oldest.
OldestOf(S, limit) == kSubset(IF Cardinality(S) < limit THEN Cardinality(S) ELSE limit, S)

\* The timer fires: ship a batch.
Flush(a, r) ==
  /\ agent[a].pc = "idle" /\ outbox[a] # {} /\ request[r].pc = "free"
  /\ \E batch \in OldestOf(outbox[a], BatchLimit) :
       /\ agent' = [agent EXCEPT ![a] = [@ EXCEPT !.pc = "waiting", !.batch = batch, !.req = r]]
       /\ request' = [request EXCEPT ![r] = [pc |-> "sent", from |-> a, batch |-> batch,
                                             claim |-> agent[a].claim, fresh |-> {}]]
  /\ UNCHANGED <<produced, outbox, server, refused>>

\* The timer fires on an empty outbox.
Rest(a) == agent[a].pc = "idle" /\ outbox[a] = {} /\ UNCHANGED vars

\* The loop backs off and tries again.
TryAgain(a) ==
  /\ agent[a].pc = "waiting"
  /\ agent' = [agent EXCEPT ![a].pc = "idle"]
  /\ UNCHANGED <<produced, outbox, request, server, refused>>

AtWork(a) ==
  LET r == request[agent[a].req] IN r.pc # "free" /\ r.from = a

\* A network error, a 5xx or a 401.
Retry(a) == ~AtWork(a) /\ TryAgain(a)

\* 30 s without an answer, while the server is still at work.
Timeout(a) == AtWork(a) /\ TryAgain(a)

\* 2xx: the whole batch leaves the outbox.
Ack(a) ==
  /\ agent[a].pc = "ok"
  /\ outbox' = [outbox EXCEPT ![a] = @ \ agent[a].batch]
  /\ agent' = [agent EXCEPT ![a].pc = "idle"]
  /\ UNCHANGED <<produced, request, server, refused>>

\* 4xx: the batch would never succeed and is dropped.
Drop(a) ==
  /\ agent[a].pc = "permanent"
  /\ outbox' = [outbox EXCEPT ![a] = @ \ agent[a].batch]
  /\ refused' = refused \cup agent[a].batch
  /\ agent' = [agent EXCEPT ![a].pc = "idle"]
  /\ UNCHANGED <<produced, request, server>>

\* The process dies and comes back with its outbox, possibly claimed anew: a
\* device of its own for the same project.
Restart(a) ==
  /\ agent[a].pc # "idle"
  /\ \E claim \in agent[a].claim..MaxClaims :
       agent' = [agent EXCEPT ![a].pc = "idle", ![a].claim = claim]
  /\ UNCHANGED <<produced, outbox, request, server, refused>>

-----------------------------------------------------------------------------
(* POST /api/ingest/events *)

agentSide == <<produced, outbox, refused>>

\* The outcome reaches the agent if it still waits for this very request.
Answer(r, pc) ==
  LET a == request[r].from
  IN agent' = IF agent[a].pc = "waiting" /\ agent[a].req = r
              THEN [agent EXCEPT ![a].pc = pc] ELSE agent

\* Between the flush of the UPDATE on devices and the end of the transaction.
HoldsDevice(r) == request[r].pc \in {"locked", "looked", "flushed", "replied"}

\* Uncommitted rows of device_inbound.
Pending(r) == IF request[r].pc \in {"flushed", "replied"} THEN request[r].fresh ELSE {}

\* One event that does not validate: 422 for the batch.
Refuse(r) ==
  /\ request[r].pc = "sent" /\ request[r].batch \cap Malformed # {}
  /\ Answer(r, "permanent")
  /\ request' = [request EXCEPT ![r].pc = "free"]
  /\ UNCHANGED <<agentSide, server>>

\* Mutant of TouchDevice: nothing is flushed before the lookup (autoflush off).
TouchDeviceUnlocked(r) ==
  /\ request[r].pc = "sent" /\ request[r].batch \cap Malformed = {}
  /\ request' = [request EXCEPT ![r].pc = "locked"]
  /\ UNCHANGED <<agentSide, agent, server>>

\* get_current_device touches the device; the SELECT of ingest_events flushes
\* that UPDATE first, and it waits for any other request of the device.
TouchDevice(r) ==
  /\ request[r].pc = "sent" /\ request[r].batch \cap Malformed = {}
  /\ \A q \in Request \ {r} :
       ~(/\ HoldsDevice(q) /\ request[q].from = request[r].from
         /\ request[q].claim = request[r].claim)
  /\ request' = [request EXCEPT ![r].pc = "locked"]
  /\ UNCHANGED <<agentSide, agent, server>>

Lookup(r) ==
  /\ request[r].pc = "locked"
  /\ request' = [request EXCEPT ![r].pc = "looked",
                                ![r].fresh = request[r].batch \ staged]
  /\ UNCHANGED <<agentSide, agent, server>>

\* flush: waits while another transaction holds one of the keys.
InsertFresh(r) ==
  /\ request[r].pc = "looked"
  /\ request[r].fresh \cap staged = {}
  /\ \A q \in Request \ {r} : request[r].fresh \cap Pending(q) = {}
  /\ request' = [request EXCEPT ![r].pc = "flushed"]
  /\ UNCHANGED <<agentSide, agent, server>>

\* IntegrityError: roll back, and answer 202 with every event a duplicate.
InsertCollides(r) ==
  /\ request[r].pc = "looked"
  /\ request[r].fresh \cap staged # {}
  /\ Answer(r, "ok")
  /\ request' = [request EXCEPT ![r].pc = "free"]
  /\ UNCHANGED <<agentSide, server>>

Commit(r) ==
  /\ request[r].pc = IF ReplyFirst THEN "replied" ELSE "flushed"
  /\ staged' = staged \cup request[r].fresh
  /\ request' = [request EXCEPT ![r].pc = IF ReplyFirst THEN "free" ELSE "committed"]
  /\ UNCHANGED <<agentSide, agent, recorded, drain>>

Reply(r) ==
  /\ request[r].pc = IF ReplyFirst THEN "flushed" ELSE "committed"
  /\ Answer(r, "ok")
  /\ request' = [request EXCEPT ![r].pc = IF ReplyFirst THEN "replied" ELSE "free"]
  /\ UNCHANGED <<agentSide, server>>

\* The request or its response is lost, the handler fails (5xx, 503 when
\* ingestion is disabled), or the server dies: no answer, nothing uncommitted
\* survives. The agent finds out by Retry.
Fail(r) ==
  /\ request[r].pc # "free"
  /\ request' = [request EXCEPT ![r].pc = "free"]
  /\ UNCHANGED <<agentSide, agent, server>>

-----------------------------------------------------------------------------
(* The device half of _run_event_drain_loop *)

Unprocessed(a) == {e \in staged \ recorded : SourceOf[e] = a}

\* One transaction reads the oldest unprocessed rows of every stream.
DrainRead ==
  /\ drain = {}
  /\ staged # recorded
  /\ \E take \in [Agent -> SUBSET staged] :
       /\ \A a \in Agent : take[a] \in OldestOf(Unprocessed(a), DrainLimit)
       /\ drain' = UNION {take[a] : a \in Agent}
  /\ UNCHANGED <<agentSide, agent, request, staged, recorded>>

\* Mutant of DrainCommit: the rows are not marked processed.
DrainCommitUnmarked ==
  /\ drain # {} /\ drain \cap Unrecordable = {}
  /\ drain' = {}
  /\ UNCHANGED <<agentSide, agent, request, staged, recorded>>

\* Rows of every stream appended and marked processed, in one commit.
DrainCommit ==
  /\ drain # {} /\ drain \cap Unrecordable = {}
  /\ recorded' = recorded \cup drain
  /\ drain' = {}
  /\ UNCHANGED <<agentSide, agent, request, staged>>

\* An INSERT fails (a seq another session took, a value too long) or the
\* server dies: everything is rolled back and the next round starts over.
DrainFail ==
  /\ drain # {}
  /\ drain' = {}
  /\ UNCHANGED <<agentSide, agent, request, staged, recorded>>

-----------------------------------------------------------------------------

Serve(r) ==
  \/ Refuse(r)
  \/ TouchDevice(r)
  \/ Lookup(r)
  \/ InsertFresh(r)
  \/ InsertCollides(r)
  \/ Commit(r)
  \/ Reply(r)

Next ==
  \/ \E e \in Event : Enqueue(e)
  \/ \E a \in Agent :
       \/ \E r \in Request : Flush(a, r)
       \/ Rest(a) \/ Retry(a) \/ Timeout(a) \/ Ack(a) \/ Drop(a) \/ Restart(a)
  \/ \E r \in Request : Serve(r) \/ Fail(r)
  \/ DrainRead \/ DrainCommit \/ DrainFail

Spec == Init /\ [][Next]_vars

Trouble ==
  \/ \E a \in Agent : Timeout(a) \/ Restart(a)
  \/ \E r \in Request : Fail(r)

\* Timers fire, handlers and drain rounds come to an end, not every round
\* fails, and there comes a time when the link and both ends stay up.
FairSpec ==
  /\ Spec
  /\ \A a \in Agent :
       /\ WF_vars(\E r \in Request : Flush(a, r))
       /\ WF_vars(Retry(a) \/ Ack(a) \/ Drop(a))
  /\ \A r \in Request : WF_vars(Serve(r))
  /\ WF_vars(DrainRead \/ DrainCommit \/ DrainFail) /\ SF_vars(DrainCommit)
  /\ <>[][~Trouble]_vars

-----------------------------------------------------------------------------
(* Properties *)

TypeOK ==
  /\ produced \subseteq Event /\ staged \subseteq Event /\ recorded \subseteq Event
  /\ drain \subseteq Event /\ refused \subseteq Event
  /\ outbox \in [Agent -> SUBSET Event]
  /\ agent \in [Agent -> [pc: AgentPc, claim: 1..MaxClaims, batch: SUBSET Event,
                          req: Request]]
  /\ request \in [Request -> [pc: RequestPc, from: Agent, claim: 1..MaxClaims,
                              batch: SUBSET Event, fresh: SUBSET Event]]

\* No event is lost between the sidecar and the record: one that has left the
\* outbox is staged, about to be, or was in a refused batch (client.go: "A 2xx
\* means the server staged (or deduped) every event, so the whole batch can
\* be acked").
Kept(e) ==
  \/ e \in outbox[SourceOf[e]] \cup staged \cup refused
  \/ \E r \in Request : e \in Pending(r)
NoEventLost == \A e \in produced : Kept(e)

\* As long as an agent keeps one device identity none of its events is lost,
\* however often its requests overlap, fail halfway or are sent again.
OneDeviceLosesNothing ==
  \A e \in produced : agent[SourceOf[e]].claim = 1 => Kept(e)

\* Every event an agent accepts is recorded at last unless its batch is
\* refused (ingest_events: "the chain-writer folds staged rows into the ledger
\* asynchronously") or its agent was claimed anew, which may cost events
\* (NoEventLost); an event site_events cannot hold is not asked for.
EventuallyRecorded ==
  <>[](\A e \in produced \ Unrecordable :
         e \in recorded \cup refused \/ agent[SourceOf[e]].claim > 1)

-----------------------------------------------------------------------------
(* The inductive invariant behind OneDeviceLosesNothing, when responses     *)
(* follow commits                                                           *)

EventsOf(a) == {e \in Event : SourceOf[e] = a}

\* What a request carries is its agent's, and what its lookup left out is staged.
RequestOK(r) ==
  /\ r.pc # "replied"
  /\ r.pc # "free" => r.batch \subseteq EventsOf(r.from) /\ r.claim <= agent[r.from].claim
  /\ r.pc \in {"looked", "flushed"} => r.fresh \subseteq r.batch /\ r.batch \ r.fresh \subseteq staged
  /\ r.pc = "committed" => r.batch \subseteq staged

\* The row lock: a device has one request between its UPDATE and its commit.
OneHolder ==
  \A r, q \in Request :
    /\ HoldsDevice(r) /\ HoldsDevice(q)
    /\ request[r].from = request[q].from /\ request[r].claim = request[q].claim
    => r = q

\* So nobody else stages what a request found to be new.
FreshIsNew ==
  \A r \in Request :
    request[r].pc = "looked" /\ agent[request[r].from].claim = 1 =>
      request[r].fresh \cap staged = {}

\* The request an agent waits for carries the batch the agent will remove.
WaitsForItsBatch ==
  \A a \in Agent :
    agent[a].pc = "waiting" /\ AtWork(a) => request[agent[a].req].batch = agent[a].batch

AckIsSafe ==
  \A a \in Agent : agent[a].pc = "ok" /\ agent[a].claim = 1 => agent[a].batch \subseteq staged

StillThere ==
  \A e \in produced :
    agent[SourceOf[e]].claim = 1 => e \in outbox[SourceOf[e]] \cup staged \cup refused

IInv ==
  /\ TypeOK
  /\ \A a \in Agent : outbox[a] \subseteq EventsOf(a)
  /\ \A r \in Request : RequestOK(request[r])
  /\ OneHolder
  /\ FreshIsNew
  /\ WaitsForItsBatch
  /\ AckIsSafe
  /\ StillThere
=============================================================================
