--------------------------- MODULE LedgerRegenerate ---------------------------
(***************************************************************************)
(* EventLedger with POST /api/record/demo/generate: generate_demo_history  *)
(* with clear_existing deletes the stream and appends from seq 1 in one    *)
(* transaction, while other sessions append and review.                    *)
(***************************************************************************)
EXTENDS EventLedger

VARIABLES
  wiped,   \* wiped[s]: committed rows the open transaction of s has deleted
  stale,   \* sessions reviewing an event whose row was deleted under them
  mixed    \* history: a regenerate has overlapped another transaction

regenVars == <<rows, tx, wiped, stale, mixed>>

InitRegen ==
  /\ Init
  /\ wiped = [s \in Session |-> {}]
  /\ stale = {}
  /\ mixed = FALSE

\* What a statement of s sees.
Visible(s) == rows \ wiped[s]

\* Rows some other session has deleted and not committed: an INSERT of one of
\* their keys and an UPDATE of one of them both wait.
HeldByOthers(s) == UNION {wiped[t] : t \in Session \ {s}}

\* DELETE FROM site_events: waits for the rows other sessions have locked.
\* (Bound: the first regenerate that overlaps another transaction is the last.)
RegenerateRequest(s) ==
  /\ ~mixed
  /\ \A t \in Session \ {s} : ~(tx[t].pc = "commit" /\ Dirty(t))
  /\ HeldByOthers(s) = {}
  /\ tx[s] = NoTx
  /\ \E b \in Body, n \in 1..MaxBatch :
       tx' = [tx EXCEPT ![s].pc = "head", ![s].op = "append",
                        ![s].envs = [i \in 1..n |-> Fact("demo", b, NoKey, "confirmed")]]
  /\ wiped' = [wiped EXCEPT ![s] = rows]
  /\ UNCHANGED <<rows, stale>>

\* (Bound: a row that outlives a DELETE keeps its seq, so the count of rows
\* alone does not bound seq.)
OtherRequest(s) ==
  /\ \A r \in rows : r.seq < MaxSeq
  /\ AppendRequest(s) \/ ConfirmRequest(s) \/ RejectRequest(s)
  /\ UNCHANGED <<wiped, stale>>

\* Mutant of ReadVisibleHead: the head is read before the DELETE takes effect.
ReadDeletedHead(s) ==
  /\ tx[s].pc = "head"
  /\ \E h \in {StreamStart} \cup {[seq |-> r.seq, hash |-> r.hash] : r \in rows} :
       /\ IsHead(h, rows)
       /\ tx' = [tx EXCEPT ![s].pc = "insert", ![s].head = h]
  /\ UNCHANGED <<rows, wiped, stale>>

ReadVisibleHead(s) ==
  /\ tx[s].pc = "head"
  /\ \E h \in {StreamStart} \cup {[seq |-> r.seq, hash |-> r.hash] : r \in rows} :
       /\ IsHead(h, Visible(s))
       /\ tx' = [tx EXCEPT ![s].pc = "insert", ![s].head = h]
  /\ UNCHANGED <<rows, wiped, stale>>

\* Mutant of InsertVisible: an INSERT does not wait for an uncommitted DELETE.
InsertPastDelete(s) ==
  LET new == BuildRows(tx[s].head, tx[s].envs)
  IN /\ tx[s].pc = "insert"
     /\ ~Collides(new, Visible(s) \ HeldByOthers(s))
     /\ \A t \in Session \ {s} : ~Collides(new, InFlight(t))
     /\ tx' = [tx EXCEPT ![s].pc = IF tx[s].op = "review" THEN "update" ELSE "commit"]
     /\ UNCHANGED <<rows, wiped, stale>>

InsertVisible(s) ==
  LET new == BuildRows(tx[s].head, tx[s].envs)
  IN /\ tx[s].pc = "insert"
     /\ ~Collides(new, Visible(s))
     /\ \A t \in Session \ {s} : ~Collides(new, InFlight(t))
     /\ tx' = [tx EXCEPT ![s].pc = IF tx[s].op = "review" THEN "update" ELSE "commit"]
     /\ UNCHANGED <<rows, wiped, stale>>

\* The transaction of s ends and nothing it did remains.
End(s) ==
  /\ tx' = [tx EXCEPT ![s] = NoTx]
  /\ wiped' = [wiped EXCEPT ![s] = {}]
  /\ stale' = stale \ {s}
  /\ UNCHANGED rows

InsertVisibleConflict(s) ==
  /\ tx[s].pc = "insert"
  /\ Collides(BuildRows(tx[s].head, tx[s].envs), Visible(s) \ HeldByOthers(s))
  /\ End(s)

UpdateVisible(s) ==
  /\ Dirty(s) => /\ s \notin stale
                 /\ \A r \in HeldByOthers(s) : r.seq # tx[s].envs[1].target
  /\ UpdateStatus(s)
  /\ UNCHANGED <<wiped, stale>>

\* The UPDATE matches no row: the ORM raises and the request rolls back.
UpdateFindsNoRow(s) ==
  /\ tx[s].pc = "update" /\ Dirty(s) /\ s \in stale
  /\ End(s)

CommitWipe(s) ==
  /\ tx[s].pc = "commit"
  /\ rows' = (WithStatus(rows, s) \ wiped[s]) \cup InFlight(s)
  /\ tx' = [tx EXCEPT ![s] = NoTx]
  /\ wiped' = [wiped EXCEPT ![s] = {}]
  /\ stale' = (stale \cup {t \in Session : wiped[s] # {} /\ tx[t].op = "review"}) \ {s}

\* Includes the victim the database picks when a regenerate and a review wait
\* for each other.
RollbackRegen(s) == tx[s] # NoTx /\ End(s)

QuietRegen == Quiet /\ UNCHANGED <<wiped, stale>>

Overlap == \E s, t \in Session : s # t /\ wiped[s] # {} /\ tx[t] # NoTx

NextRegen ==
  /\ \/ QuietRegen
     \/ \E s \in Session :
          \/ RegenerateRequest(s)
          \/ OtherRequest(s)
          \/ ReadVisibleHead(s)
          \/ InsertVisible(s)
          \/ InsertVisibleConflict(s)
          \/ UpdateVisible(s)
          \/ UpdateFindsNoRow(s)
          \/ CommitWipe(s)
          \/ RollbackRegen(s)
  /\ mixed' = (mixed \/ Overlap')

SpecRegen == InitRegen /\ [][NextRegen]_regenVars

-----------------------------------------------------------------------------

\* Regenerating restarts seq and chain cleanly as long as no other
\* transaction is open on the stream at any moment of it.
AloneKeepsChain == ~mixed => VerifyChain(rows)

\* Even when regenerates and appends overlap, no two committed rows ever
\* share a seq or a client_event_id.
NoTwinRows == \A r, q \in rows : Conflict(r, q) => r = q

\* The chain verifies whatever regenerates overlap (generate_demo_history:
\* "wipes the stream first so the seq + hash chain restart cleanly").
RegenerateKeepsChain == VerifyChain(rows)

-----------------------------------------------------------------------------
(* The inductive invariant behind the first two *)

RegenTypeOK ==
  /\ rows \subseteq Row
  /\ tx \in [Session -> Tx]
  /\ wiped \in [Session -> SUBSET rows]
  /\ stale \subseteq Session
  /\ mixed \in BOOLEAN

KeysDiffer(t) ==
  \A i, j \in DOMAIN t.envs :
    t.envs[i].key = t.envs[j].key /\ t.envs[i].key # NoKey => i = j

\* A session deletes or reviews, never both, and one session at a time deletes.
OneDeletes ==
  /\ \A s, t \in Session : wiped[s] # {} /\ wiped[t] # {} => s = t
  /\ \A s \in Session : wiped[s] # {} => tx[s].op = "append"

\* What a session has inserted collides with no row it sees and with no row
\* another session has inserted.
InsertedApart ==
  /\ \A s \in Session : KeysDiffer(tx[s]) /\ ~Collides(InFlight(s), Visible(s))
  /\ \A s, t \in Session : s # t => ~Collides(InFlight(s), InFlight(t))

\* No deleted row changes: a review that has sent its UPDATE hit none of them.
DeletedStay ==
  \A s, t \in Session :
    s # t /\ tx[s].pc = "commit" /\ Dirty(s) =>
      \A r \in wiped[t] : r.seq # tx[s].envs[1].target

\* The committed rows are a stream of their own.
RowsOK == RecordedOnce /\ GapFree /\ Linked /\ ReviewedLeavesInbox

\* Without an overlap the session that deletes is alone, has deleted the whole
\* stream and restarts it; at all other times the ledger is as without deletes.
AloneOK ==
  /\ RowsOK
  /\ (\A s \in Session : wiped[s] = {}) => IInv
  /\ \A s \in Session : wiped[s] # {} =>
       /\ wiped[s] = rows
       /\ tx[s].head = StreamStart /\ BatchOK(tx[s])
       /\ \A t \in Session \ {s} : tx[t] = NoTx

RegenIInv ==
  /\ RegenTypeOK
  /\ NoTwinRows
  /\ OneDeletes
  /\ InsertedApart
  /\ DeletedStay
  /\ mixed = FALSE => AloneOK
=============================================================================
