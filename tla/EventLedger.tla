------------------------------ MODULE EventLedger ------------------------------
(***************************************************************************)
(* One stream (org_id, project_id) of the system of record: the table      *)
(* site_events and the database transactions that append to it.            *)
(*                                                                         *)
(* Every producer goes through services/event_ledger.py: manual entry and  *)
(* capture (api/record.py), field entries (api/worker.py), confirm and     *)
(* reject (api/record.py), the two halves of the drain task (main.py,      *)
(* services/ingest_writer.py) and the demo backfill.  Each one runs in a   *)
(* database session of its own; a session reads the head of the stream,    *)
(* inserts rows chained to what it read, and commits some awaits later.    *)
(* Nothing locks the stream: what keeps two sessions apart is the pair of  *)
(* UNIQUE constraints of the table.                                        *)
(*                                                                         *)
(* The database is modelled at READ COMMITTED: a statement sees the rows   *)
(* committed before it started and the session's own; an INSERT whose key  *)
(* is held by an uncommitted INSERT of another session waits for it; one   *)
(* whose key is committed fails with IntegrityError.                       *)
(***************************************************************************)
EXTENDS Integers, Sequences, FiniteSets

CONSTANTS
  Session,   \* database sessions: one per request, one per drain transaction
  Key,       \* client_event_id values
  NoKey,     \* client_event_id of an event that carries none (SQL NULL)
  Body,      \* what an event says happened: subject, kind, payload, times
  MaxBatch,  \* bound: events in one append_many
  MaxSeq     \* bound: no request begins that would take the stream past it

ASSUME NoKeyAssumption == NoKey \notin Key
ASSUME BoundAssumption == MaxBatch \in Nat \ {0} /\ MaxSeq \in Nat

VARIABLES
  rows,      \* committed rows of the stream
  tx         \* tx[s]: the transaction session s is in

vars == <<rows, tx>>

-----------------------------------------------------------------------------
(* Rows and the hash chain *)

Status == {"proposed", "confirmed", "rejected"}
ReviewKind == {"event.confirmed", "event.rejected"}
EventKind == {"note", "demo"} \cup ReviewKind

\* The status a companion event stands for (kind_map read backwards).
StatusOf(kind) == IF kind = "event.confirmed" THEN "confirmed" ELSE "rejected"

\* What a producer hands to the ledger. A companion event names its target
\* by seq (payload.target_seq) and the status its session had loaded.
Envelope == [kind: EventKind, target: Nat, from: Status \cup {"none"},
             body: Body, key: Key \cup {NoKey}, status: Status]

\* The fields event_hash covers: status and client_event_id are left out.
Core(seq, env) == <<seq, env.kind, env.target, env.from, env.body>>

\* SHA-256 over prev_hash and the core, taken to be injective: a hash is the
\* sequence of cores it was computed from, "" is the empty one.
HashValue == Seq(Nat \X EventKind \X Nat \X (Status \cup {"none"}) \X Body)
EventHash(prev, seq, env) == Append(prev, Core(seq, env))

Row == [seq: Nat \ {0}, prev: HashValue, hash: HashValue,
        kind: EventKind, target: Nat, from: Status \cup {"none"},
        body: Body, key: Key \cup {NoKey}, status: Status]

StreamStart == [seq |-> 0, hash |-> <<>>]

\* Mutant of PrevHash: the hash is not carried on from row to row of a batch.
PrevHashNotCarried(head, envs, i) == head.hash

\* prev_hash of the i-th row of a batch appended after head.
PrevHash(head, envs, i) ==
  head.hash \o [j \in 1..(i - 1) |-> Core(head.seq + j, envs[j])]

\* _build_row
BuildRow(head, envs, i) ==
  LET env == envs[i]
      seq == head.seq + i
      prev == PrevHash(head, envs, i)
  IN [seq |-> seq, prev |-> prev, hash |-> EventHash(prev, seq, env),
      kind |-> env.kind, target |-> env.target, from |-> env.from,
      body |-> env.body, key |-> env.key, status |-> env.status]

BuildRows(head, envs) == {BuildRow(head, envs, i) : i \in DOMAIN envs}

\* verify_chain answers ok: read in seq order, the rows count 1, 2, 3, ...,
\* each carries the hash of the one before it, and each hash recomputes.
VerifyChain(R) ==
  \A r \in R :
    LET below == {q \in R : q.seq < r.seq}
    IN /\ r.hash = EventHash(r.prev, r.seq, r)
       /\ IF below = {} THEN r.seq = 1 /\ r.prev = <<>>
          ELSE \E q \in below : q.seq = r.seq - 1 /\ r.prev = q.hash

-----------------------------------------------------------------------------
(* Transactions *)

\* "head": about to read the stream head; "insert": about to flush its rows;
\* "update": companion flushed, about to flush the status; "commit": all
\* flushed, about to commit.
Pc == {"idle", "head", "insert", "update", "commit"}
Op == {"none", "append", "entry", "review"}

Tx == [pc: Pc, op: Op, envs: Seq(Envelope), head: [seq: Nat, hash: HashValue]]

NoTx == [pc |-> "idle", op |-> "none", envs |-> <<>>, head |-> StreamStart]

\* Rows s has inserted and not yet committed.
InFlight(s) ==
  IF tx[s].pc \in {"update", "commit"} THEN BuildRows(tx[s].head, tx[s].envs)
  ELSE {}

\* Mutant of Conflict: no UNIQUE constraint on client_event_id.
ConflictOnSeqOnly(r, q) == r.seq = q.seq

\* The two UNIQUE constraints; NULL keys never conflict.
Conflict(r, q) == r.seq = q.seq \/ (r.key = q.key /\ r.key # NoKey)
Collides(R, Q) == \E r \in R, q \in Q : Conflict(r, q)

\* The review s writes: the target's cached status it loaded, and the new one.
LoadedStatus(s) == tx[s].envs[1].from
NewStatus(s) == StatusOf(tx[s].envs[1].kind)

\* Mutant of Dirty: set_status forgets the status when it rejects.
DirtyIfConfirming(s) ==
  tx[s].op = "review" /\ NewStatus(s) = "confirmed" /\ LoadedStatus(s) # NewStatus(s)

\* The ORM emits an UPDATE only for a value that differs from the loaded one.
Dirty(s) == tx[s].op = "review" /\ LoadedStatus(s) # NewStatus(s)

Init == rows = {} /\ tx = [s \in Session |-> NoTx]

-----------------------------------------------------------------------------
(* Requests: what a session does before the ledger is entered *)

Begin(s, op, envs) ==
  /\ tx[s] = NoTx
  /\ Cardinality(rows) + Len(envs) <= MaxSeq
  /\ tx' = [tx EXCEPT ![s] =
              [pc |-> "head", op |-> op, envs |-> envs, head |-> StreamStart]]
  /\ UNCHANGED rows

Fact(kind, body, key, status) ==
  [kind |-> kind, target |-> 0, from |-> "none",
   body |-> body, key |-> key, status |-> status]

\* A batch is keyed throughout (device events, whose keys the staging table
\* keeps distinct) or not at all (simulation, manual entry, capture). The
\* schemas take any string as kind: producers are assumed to leave the
\* companion kinds to set_status.
Batches ==
  LET Keyed(b) == \A i \in DOMAIN b : b[i].key # NoKey
      Unkeyed(b) == \A i \in DOMAIN b : b[i].key = NoKey
      Distinct(b) == \A i, j \in DOMAIN b : i # j => b[i].key # b[j].key
      Event == {Fact("note", b, k, st) : b \in Body, k \in Key \cup {NoKey},
                                         st \in {"proposed", "confirmed"}}
  IN {b \in UNION {[1..n -> Event] : n \in 1..MaxBatch} :
        Unkeyed(b) \/ (Keyed(b) /\ Distinct(b))}

\* create_event, capture, and the drain of engine buffers and device rows.
AppendRequest(s) == \E batch \in Batches : Begin(s, "append", batch)

\* ensure_demo_history: backfill when the stream is seen to be empty.
BackfillRequest(s) ==
  /\ rows = {}
  /\ \E b \in Body, n \in 1..MaxBatch :
       Begin(s, "append", [i \in 1..n |-> Fact("demo", b, NoKey, "confirmed")])

\* create_entry, the key not found. (Found: the row is returned, no write.)
EntryRequest(s) ==
  \E k \in Key, b \in Body :
    /\ \A r \in rows : r.key # k
    /\ Begin(s, "entry", <<Fact("note", b, k, "proposed")>>)

Review(s, e, kind) ==
  \E reason \in Body :
    Begin(s, "review", <<[kind |-> kind, target |-> e.seq, from |-> e.status,
                          body |-> reason, key |-> NoKey, status |-> "confirmed"]>>)

\* confirm_event returns early when the loaded status is already confirmed.
ConfirmRequest(s) ==
  \E e \in rows : e.status # "confirmed" /\ Review(s, e, "event.confirmed")

\* reject_event has no such guard.
RejectRequest(s) == \E e \in rows : Review(s, e, "event.rejected")

-----------------------------------------------------------------------------
(* append_many and set_status, statement by statement *)

\* The head is the row of highest seq, or the start of an empty stream.
IsHead(h, R) ==
  \/ R = {} /\ h = StreamStart
  \/ \E r \in R : /\ \A q \in R : q.seq <= r.seq
                  /\ h = [seq |-> r.seq, hash |-> r.hash]

ReadHead(s) ==
  /\ tx[s].pc = "head"
  /\ \E h \in {StreamStart} \cup {[seq |-> r.seq, hash |-> r.hash] : r \in rows} :
       /\ IsHead(h, rows)
       /\ tx' = [tx EXCEPT ![s].pc = "insert", ![s].head = h]
  /\ UNCHANGED rows

InsertTo(s) ==
  /\ tx' = [tx EXCEPT ![s].pc = IF tx[s].op = "review" THEN "update" ELSE "commit"]
  /\ UNCHANGED rows

\* Mutant of InsertRows: the database does not check committed rows.
InsertRowsUnchecked(s) ==
  LET new == BuildRows(tx[s].head, tx[s].envs)
  IN /\ tx[s].pc = "insert"
     /\ \A t \in Session \ {s} : ~Collides(new, InFlight(t))
     /\ InsertTo(s)

\* flush of the INSERTs: waits while another session holds one of its keys.
InsertRows(s) ==
  LET new == BuildRows(tx[s].head, tx[s].envs)
  IN /\ tx[s].pc = "insert"
     /\ ~Collides(new, rows)
     /\ \A t \in Session \ {s} : ~Collides(new, InFlight(t))
     /\ InsertTo(s)

\* Mutant of InsertConflict: only a taken client_event_id ends the request.
InsertConflictOnKey(s) ==
  /\ tx[s].pc = "insert"
  /\ \E r \in rows, i \in DOMAIN tx[s].envs :
       r.key = tx[s].envs[i].key /\ r.key # NoKey
  /\ tx' = [tx EXCEPT ![s] = NoTx]
  /\ UNCHANGED rows

\* IntegrityError: the request fails (create_entry, after one more lookup of
\* its key) and its transaction is rolled back; the drain task logs it.
InsertConflict(s) ==
  /\ tx[s].pc = "insert"
  /\ Collides(BuildRows(tx[s].head, tx[s].envs), rows)
  /\ tx' = [tx EXCEPT ![s] = NoTx]
  /\ UNCHANGED rows

\* event.status = new_status; flush. The UPDATE, when one is emitted, waits
\* for the row lock of another session that updated the same row.
UpdateStatus(s) ==
  /\ tx[s].pc = "update"
  /\ \A t \in Session \ {s} :
       ~(/\ Dirty(s) /\ Dirty(t) /\ tx[t].pc = "commit"
         /\ tx[t].envs[1].target = tx[s].envs[1].target)
  /\ tx' = [tx EXCEPT ![s].pc = "commit"]
  /\ UNCHANGED rows

\* Mutants of WithStatus: the event is amended in place, or every row gets the
\* new status.
WithStatusAndKind(R, s) ==
  {IF Dirty(s) /\ r.seq = tx[s].envs[1].target
     THEN [r EXCEPT !.status = NewStatus(s), !.kind = tx[s].envs[1].kind] ELSE r : r \in R}

WithStatusEverywhere(R, s) ==
  {IF Dirty(s) THEN [r EXCEPT !.status = NewStatus(s)] ELSE r : r \in R}

\* The stream with the cached status s has flushed.
WithStatus(R, s) ==
  {IF Dirty(s) /\ r.seq = tx[s].envs[1].target
     THEN [r EXCEPT !.status = NewStatus(s)] ELSE r : r \in R}

Commit(s) ==
  /\ tx[s].pc = "commit"
  /\ rows' = WithStatus(rows, s) \cup InFlight(s)
  /\ tx' = [tx EXCEPT ![s] = NoTx]

\* The handler raises, the connection drops or the process dies.
Rollback(s) ==
  /\ tx[s] # NoTx
  /\ tx' = [tx EXCEPT ![s] = NoTx]
  /\ UNCHANGED rows

\* No request arrives and none is open.
Quiet == (\A s \in Session : tx[s] = NoTx) /\ UNCHANGED vars

Request(s) ==
  \/ AppendRequest(s)
  \/ BackfillRequest(s)
  \/ EntryRequest(s)
  \/ ConfirmRequest(s)
  \/ RejectRequest(s)

Step(s) ==
  \/ ReadHead(s)
  \/ InsertRows(s)
  \/ InsertConflict(s)
  \/ UpdateStatus(s)
  \/ Commit(s)

Next == Quiet \/ \E s \in Session : Request(s) \/ Step(s) \/ Rollback(s)

Spec == Init /\ [][Next]_vars

\* A statement that is not waiting for a lock is eventually executed, and the
\* database does not let newcomers overtake a waiting INSERT for ever.
FairSpec ==
  /\ Spec
  /\ \A s \in Session : WF_vars(Step(s)) /\ SF_vars(InsertRows(s))

-----------------------------------------------------------------------------
(* Properties *)

\* Committed rows are rows, and every session is in a well-formed transaction.
TypeOK ==
  /\ rows \subseteq Row
  /\ tx \in [Session -> Tx]

\* GET /api/record/verify never reports a break: whatever sessions race, the
\* committed rows are numbered without a gap and each is chained to the one
\* before it (site_events: "seq is a gap-free monotonic counter").
ChainVerifies == VerifyChain(rows)

\* A client_event_id is recorded at most once in a stream, however often its
\* request is replayed and whichever producer carries it, and no two rows
\* have one seq.
RecordedOnce == \A r, q \in rows : Conflict(r, q) => r = q

\* The UNIQUE constraint on seq does the work of the "single writer" the
\* comments name: at most one session holds uncommitted rows, and its rows
\* continue the committed stream.
OneWriter ==
  /\ \A s, t \in Session : InFlight(s) # {} /\ InFlight(t) # {} => s = t
  /\ \A s \in Session : \A r \in rows, q \in InFlight(s) : r.seq < q.seq

\* An event about which the log holds a confirm or a reject has left the
\* review inbox: GET /inbox lists the rows whose cached status is proposed.
ReviewedLeavesInbox ==
  \A r \in rows : r.kind \in ReviewKind =>
    \E e \in rows : e.seq = r.target /\ e.seq < r.seq /\ e.status # "proposed"

\* The identity and content of a row: everything but its cached status.
Immutable(r) == [r EXCEPT !.status = "proposed"]

\* Append-only: no step removes a committed row or changes anything in it
\* but its cached status.
AppendOnly == [][{Immutable(r) : r \in rows} \subseteq {Immutable(r) : r \in rows'}]_vars

\* A cached status changes only together with the append of a companion
\* event that names the row and stands for the new status.
StatusChangeLogged ==
  [][\A r \in rows, q \in rows' :
       r.seq = q.seq /\ r.status # q.status =>
         \E c \in rows' \ rows :
           /\ c.kind \in ReviewKind /\ c.target = q.seq
           /\ StatusOf(c.kind) = q.status /\ c.seq > q.seq]_vars

\* Every transaction ends: the locks that flushed rows and updated statuses
\* hold until commit never leave sessions waiting for each other.
TransactionsEnd == \A s \in Session : tx[s] # NoTx ~> tx[s] = NoTx

\* The cached status is what the log says: the last companion event about a
\* row stands for its status (event_ledger.py: "every status change is itself
\* recorded as a companion event so the log remains the source of truth").
CacheFollowsLog ==
  \A c \in rows :
    c.kind \in ReviewKind
    /\ (\A d \in rows : d.kind \in ReviewKind /\ d.target = c.target => d.seq <= c.seq)
    => \E e \in rows : e.seq = c.target /\ e.status = StatusOf(c.kind)

\* Demo history only ever opens a stream (ensure_demo_history: "Backfill demo
\* history for a stream ONLY if it's currently empty").
BackfillOpensStream ==
  \A r, q \in rows : r.kind = "demo" /\ q.seq < r.seq => q.kind = "demo"

-----------------------------------------------------------------------------
(* The inductive invariant behind them *)

Flushed(s) == tx[s].pc \in {"update", "commit"}

\* Every seq below a committed one is committed.
GapFree == \A r \in rows : \A k \in 1..r.seq : \E q \in rows : q.seq = k

\* Each committed row carries the hash of its predecessor and its own.
Linked ==
  \A r \in rows :
    /\ r.hash = EventHash(r.prev, r.seq, r)
    /\ \/ r.seq = 1 /\ r.prev = <<>>
       \/ \E q \in rows : q.seq = r.seq - 1 /\ r.prev = q.hash

\* The head a transaction has read is still a committed row, if no longer the
\* last one.
HeadOK(t) ==
  t.pc \in {"insert", "update", "commit"} =>
    \/ t.head = StreamStart
    \/ \E r \in rows : t.head.seq = r.seq /\ t.head.hash = r.hash

\* While a transaction holds flushed rows the head it read stays the last row.
FlushedOK(t) ==
  t.pc \in {"update", "commit"} =>
    /\ \A r \in rows : r.seq <= t.head.seq
    /\ ~Collides(BuildRows(t.head, t.envs), rows)

\* What an open transaction is going to write.
BatchOK(t) ==
  t.pc # "idle" =>
    /\ t.envs # <<>>
    /\ \A i, j \in DOMAIN t.envs :
         t.envs[i].key = t.envs[j].key /\ t.envs[i].key # NoKey => i = j
    /\ \A i \in DOMAIN t.envs : t.envs[i].kind \in ReviewKind <=> t.op = "review"
    /\ t.op = "review" =>
         /\ Len(t.envs) = 1
         /\ \E e \in rows : /\ e.seq = t.envs[1].target
                            /\ t.envs[1].from # "proposed" => e.status # "proposed"

OneFlushed == \A s, t \in Session : Flushed(s) /\ Flushed(t) => s = t

IInv ==
  /\ TypeOK
  /\ RecordedOnce
  /\ GapFree
  /\ Linked
  /\ \A s \in Session : HeadOK(tx[s]) /\ FlushedOK(tx[s]) /\ BatchOK(tx[s])
  /\ OneFlushed
  /\ ReviewedLeavesInbox

-----------------------------------------------------------------------------
(* The stream implements the promise of AppendOnlyRecord *)

RowAt(i) == CHOOSE r \in rows : r.seq = i

Log == [i \in 1..Cardinality(rows) |->
          [kind |-> RowAt(i).kind, target |-> RowAt(i).target,
           body |-> RowAt(i).body, key |-> RowAt(i).key]]

CachedStatus == [i \in 1..Cardinality(rows) |-> RowAt(i).status]

Record == INSTANCE AppendOnlyRecord WITH log <- Log, status <- CachedStatus

\* Sessions racing through the statements of append_many and set_status look,
\* from outside, like single steps that append to the record.
ImplementsRecord == Record!Spec
=============================================================================
