------------------------------ MODULE LedgerProofs -----------------------------
(***************************************************************************)
(* For any number of sessions, keys and bodies: the hash chain of a stream *)
(* always verifies, a client_event_id is recorded at most once, and the    *)
(* stream implements AppendOnlyRecord; what of this is left when a stream  *)
(* can also be deleted and restarted (LedgerRegenerate); and for a ledger  *)
(* of any length, that all routes that read it agree and each role sees    *)
(* what it may (RecordReads).                                              *)
(***************************************************************************)
EXTENDS LedgerRegenerate, RecordReads, SequenceTheorems, FiniteSetTheorems,
        WellFoundedInduction, TLAPS

CoreValue == Nat \X EventKind \X Nat \X (Status \cup {"none"}) \X Body

Head0 == [seq: Nat, hash: HashValue]

-----------------------------------------------------------------------------
(* What append_many builds *)

\* Extending the right operand of a concatenation by one element extends the
\* whole by it.
LEMMA ConcatAppend ==
  ASSUME NEW S, NEW h \in Seq(S), NEW u \in Seq(S), NEW e \in S
  PROVE  h \o Append(u, e) = Append(h \o u, e)
<1>1. <<e>> \in Seq(S) /\ h \o u \in Seq(S)
  BY ConcatProperties
<1>2. h \o Append(u, e) = h \o (u \o <<e>>)
  BY AppendIsConcat
<1>3. h \o (u \o <<e>>) = (h \o u) \o <<e>>
  BY <1>1, ConcatAssociative
<1>4. (h \o u) \o <<e>> = Append(h \o u, e)
  BY <1>1, AppendIsConcat
<1>5. QED
  BY <1>2, <1>3, <1>4

\* The cores of the first events of a batch are a sequence of cores.
LEMMA CoresType ==
  ASSUME NEW head \in Head0, NEW envs \in Seq(Envelope), NEW n \in 0..Len(envs)
  PROVE  /\ [j \in 1..n |-> Core(head.seq + j, envs[j])] \in Seq(CoreValue)
         /\ Len([j \in 1..n |-> Core(head.seq + j, envs[j])]) = n
<1> DEFINE c == [j \in 1..n |-> Core(head.seq + j, envs[j])]
<1>1. ASSUME NEW j \in 1..n
      PROVE  Core(head.seq + j, envs[j]) \in CoreValue
  <2>1. envs[j] \in Envelope
    BY ElementOfSeq
  <2>2. head.seq + j \in Nat
    BY DEF Head0
  <2>3. QED
    BY <2>1, <2>2 DEF Core, CoreValue, Envelope
<1>2. c \in [1..n -> CoreValue] /\ n \in Nat
  BY <1>1
<1>3. c \in Seq(CoreValue)
  BY <1>2, SeqDef
<1>4. Len(c) = n
  BY <1>2
<1>5. QED
  BY <1>3, <1>4

\* Appending the core of the i-th event to the hash before it gives the hash
\* before the next: prev_hash = row.hash.
LEMMA PrevHashStep ==
  ASSUME NEW head \in Head0, NEW envs \in Seq(Envelope), NEW i \in 1..Len(envs)
  PROVE  /\ PrevHash(head, envs, i) \in HashValue
         /\ PrevHash(head, envs, i + 1)
              = EventHash(PrevHash(head, envs, i), head.seq + i, envs[i])
         /\ PrevHash(head, envs, 1) = head.hash
<1> DEFINE c(n) == [j \in 1..n |-> Core(head.seq + j, envs[j])]
           core == Core(head.seq + i, envs[i])
<1>1. head.hash \in Seq(CoreValue) /\ HashValue = Seq(CoreValue)
  BY DEF Head0, HashValue, CoreValue
<1>2. /\ c(i - 1) \in Seq(CoreValue) /\ Len(c(i - 1)) = i - 1
      /\ c(i) \in Seq(CoreValue) /\ Len(c(i)) = i
  BY CoresType
<1>3. core \in CoreValue
  <2>1. c(i)[i] \in CoreValue
    BY <1>2, ElementOfSeq
  <2>2. c(i)[i] = core
    OBVIOUS
  <2>3. QED
    BY <2>1, <2>2
<1>4. c(0) = <<>>
  OBVIOUS
<1>5. PrevHash(head, envs, 1) = head.hash
  BY <1>1, <1>4, ConcatEmptySeq DEF PrevHash
<1>6. PrevHash(head, envs, i) = head.hash \o c(i - 1)
  BY DEF PrevHash
<1>7. PrevHash(head, envs, i + 1) = head.hash \o c(i)
  BY DEF PrevHash
<1>8. PrevHash(head, envs, i) \in HashValue
  BY <1>1, <1>2, <1>6, ConcatProperties
<1>. i \in Nat \ {0}
  BY LenProperties
<1>9. head.hash \o c(i) = Append(head.hash \o c(i - 1), core)
  <2> DEFINE u == c(i - 1)
             v == c(i)
  <2>1. /\ u \in Seq(CoreValue) /\ v \in Seq(CoreValue) /\ head.hash \in Seq(CoreValue)
        /\ Len(v) = i /\ Len(u) = i - 1 /\ Len(v) = Len(u) + 1
    BY <1>1, <1>2
  <2>2. \A k \in 1..Len(u) : v[k] = u[k]
    BY <2>1
  <2>3. v[Len(v)] = core
    BY <2>1
  <2>4. core \in CoreValue
    BY <1>3
  <2> HIDE DEF u, v, core
  <2>5. v = Append(u, core)
    <3>1. /\ Append(u, core) \in Seq(CoreValue) /\ Len(Append(u, core)) = Len(u) + 1
          /\ \A k \in 1..Len(u) : Append(u, core)[k] = u[k]
          /\ Append(u, core)[Len(u) + 1] = core
      BY <2>1, <2>4, AppendProperties
    <3>2. \A k \in 1..Len(v) : v[k] = Append(u, core)[k]
      BY <2>1, <2>2, <2>3, <3>1
    <3>3. QED
      BY <2>1, <3>1, <3>2, SeqEqual
  <2>6. QED
    BY <2>1, <2>4, <2>5, ConcatAppend DEF u, v
<1>10. QED
  BY <1>5, <1>6, <1>7, <1>8, <1>9 DEF EventHash

\* The rows of a batch: numbered on from the head, each chained to the one
\* before it, the first to the head.
LEMMA BuiltRow ==
  ASSUME NEW head \in Head0, NEW envs \in Seq(Envelope), NEW i \in 1..Len(envs)
  PROVE  LET b == BuildRow(head, envs, i)
         IN /\ b \in Row
            /\ b.seq = head.seq + i
            /\ b.kind = envs[i].kind /\ b.target = envs[i].target
            /\ b.key = envs[i].key /\ b.status = envs[i].status
            /\ b.hash = EventHash(b.prev, b.seq, b)
            /\ i = 1 => b.prev = head.hash
            /\ i > 1 => b.prev = BuildRow(head, envs, i - 1).hash
<1> DEFINE prev == PrevHash(head, envs, i)
           b == BuildRow(head, envs, i)
<1>1. prev \in HashValue
  BY PrevHashStep
<1>2. envs[i] \in Envelope
  BY ElementOfSeq
<1>3. head.seq + i \in Nat \ {0}
  BY DEF Head0
<1>4. EventHash(prev, head.seq + i, envs[i]) \in HashValue
  <2>1. Core(head.seq + i, envs[i]) \in CoreValue
    BY <1>2, <1>3 DEF Core, CoreValue, Envelope
  <2>2. QED
    BY <1>1, <2>1 DEF EventHash, HashValue, CoreValue
<1>5. b = [seq |-> head.seq + i, prev |-> prev,
           hash |-> EventHash(prev, head.seq + i, envs[i]),
           kind |-> envs[i].kind, target |-> envs[i].target, from |-> envs[i].from,
           body |-> envs[i].body, key |-> envs[i].key, status |-> envs[i].status]
  BY DEF BuildRow
<1> HIDE DEF b, prev
<1>6. b \in Row
  BY <1>1, <1>2, <1>3, <1>4, <1>5 DEF Row, Envelope
<1>7. b.hash = EventHash(b.prev, b.seq, b)
  BY <1>5 DEF EventHash, Core
<1>8. i = 1 => b.prev = head.hash
  BY <1>5, PrevHashStep DEF prev
<1>9. ASSUME i > 1
      PROVE  b.prev = BuildRow(head, envs, i - 1).hash
  <2>1. i - 1 \in 1..Len(envs) /\ (i - 1) + 1 = i
    BY <1>9
  <2>2. PrevHash(head, envs, i)
          = EventHash(PrevHash(head, envs, i - 1), head.seq + (i - 1), envs[i - 1])
    BY <2>1, PrevHashStep
  <2>3. QED
    BY <1>5, <2>2 DEF BuildRow, prev
<1>10. QED
  BY <1>5, <1>6, <1>7, <1>8, <1>9 DEF b

\* Rows built in one transaction have seqs and keys of their own.
LEMMA BlockApart ==
  ASSUME NEW t \in Tx, KeysDiffer(t)
  PROVE  LET B == BuildRows(t.head, t.envs)
         IN B \subseteq Row /\ \A b, c \in B : Conflict(b, c) => b = c
<1> DEFINE B == BuildRows(t.head, t.envs)
           R(i) == BuildRow(t.head, t.envs, i)
           n == Len(t.envs)
<1>1. t.head \in Head0 /\ t.envs \in Seq(Envelope) /\ t.head.seq \in Nat
  BY DEF Tx, Head0
<1>2. n \in Nat /\ DOMAIN t.envs = 1..n
  BY <1>1, LenProperties
<1>3. B = {R(i) : i \in 1..n}
  BY <1>2 DEF BuildRows
<1>4. ASSUME NEW i \in 1..n
      PROVE  R(i) \in Row /\ R(i).seq = t.head.seq + i /\ R(i).key = t.envs[i].key
  BY <1>1, BuiltRow
<1> HIDE DEF R, n, B
<1>5. B \subseteq Row
  BY <1>3, <1>4
<1>6. ASSUME NEW b \in B, NEW c \in B, Conflict(b, c)
      PROVE  b = c
  <2>1. PICK i \in 1..n : b = R(i)
    BY <1>3
  <2>2. PICK j \in 1..n : c = R(j)
    BY <1>3
  <2>3. b.seq = c.seq => i = j
    <3>1. b.seq = t.head.seq + i /\ c.seq = t.head.seq + j
      BY <1>4, <2>1, <2>2
    <3>2. QED
      BY <1>1, <1>2, <3>1
  <2>4. b.key = c.key /\ b.key # NoKey => i = j
    <3>1. b.key = t.envs[i].key /\ c.key = t.envs[j].key
      BY <1>4, <2>1, <2>2
    <3>2. QED
      BY <1>2, <3>1 DEF KeysDiffer
  <2>5. i = j
    BY <1>6, <2>3, <2>4 DEF Conflict
  <2>6. QED
    BY <2>1, <2>2, <2>5
<1>7. QED
  BY <1>5, <1>6 DEF B

\* What the rest of the proof needs to know of the rows of an open transaction.
LEMMA Block ==
  ASSUME NEW t \in Tx, BatchOK(t), t.pc # "idle"
  PROVE  LET B == BuildRows(t.head, t.envs)
         IN /\ B \subseteq Row
            /\ \A b \in B : b.seq > t.head.seq /\ b.hash = EventHash(b.prev, b.seq, b)
            /\ \E b \in B : b.seq = t.head.seq + 1
            /\ \A b, c \in B : Conflict(b, c) => b = c
            /\ \A b \in B : \/ b.seq = t.head.seq + 1 /\ b.prev = t.head.hash
                            \/ \E c \in B : b.seq = c.seq + 1 /\ b.prev = c.hash
            /\ \A b \in B : \A k \in (t.head.seq + 1)..b.seq : \E c \in B : c.seq = k
            /\ \A b \in B : b.kind \in ReviewKind =>
                 /\ t.op = "review"
                 /\ b.target = t.envs[1].target /\ b.kind = t.envs[1].kind
<1> DEFINE B == BuildRows(t.head, t.envs)
           R(i) == BuildRow(t.head, t.envs, i)
           n == Len(t.envs)
<1>1. t.head \in Head0 /\ t.envs \in Seq(Envelope) /\ t.head.seq \in Nat
  BY DEF Tx, Head0
<1>2. n \in Nat \ {0} /\ DOMAIN t.envs = 1..n
  BY <1>1, LenProperties, EmptySeq DEF BatchOK
<1>3. B = {R(i) : i \in 1..n}
  BY <1>2 DEF BuildRows
<1>4. ASSUME NEW i \in 1..n
      PROVE  /\ R(i) \in Row
             /\ R(i).seq = t.head.seq + i
             /\ R(i).kind = t.envs[i].kind /\ R(i).target = t.envs[i].target
             /\ R(i).key = t.envs[i].key
             /\ R(i).hash = EventHash(R(i).prev, R(i).seq, R(i))
             /\ i = 1 => R(i).prev = t.head.hash
             /\ i > 1 => R(i).prev = R(i - 1).hash
  BY <1>1, BuiltRow
<1> HIDE DEF R, n, B
<1>5. B \subseteq Row
  BY <1>3, <1>4
<1>6. \A b \in B : b.seq > t.head.seq /\ b.hash = EventHash(b.prev, b.seq, b)
  BY <1>1, <1>2, <1>3, <1>4
<1>7. \E b \in B : b.seq = t.head.seq + 1
  <2>1. 1 \in 1..n
    BY <1>2
  <2>2. R(1) \in B /\ R(1).seq = t.head.seq + 1
    BY <2>1, <1>3, <1>4
  <2>3. QED
    BY <2>2
<1>8. \A b, c \in B : Conflict(b, c) => b = c
  <2>1. KeysDiffer(t)
    BY DEF BatchOK, KeysDiffer
  <2>2. QED
    BY <2>1, BlockApart DEF B
<1>9. ASSUME NEW b \in B
      PROVE  \/ b.seq = t.head.seq + 1 /\ b.prev = t.head.hash
             \/ \E c \in B : b.seq = c.seq + 1 /\ b.prev = c.hash
  <2>1. PICK i \in 1..n : b = R(i)
    BY <1>3
  <2>2. CASE i = 1
    BY <1>4, <2>1, <2>2
  <2>3. CASE i > 1
    <3>1. i - 1 \in 1..n
      BY <1>2, <2>3
    <3>2. R(i - 1) \in B
      BY <1>3, <3>1
    <3>3. R(i - 1).seq = t.head.seq + (i - 1)
      BY <1>4, <3>1
    <3>4. b.seq = t.head.seq + i /\ b.prev = R(i - 1).hash
      BY <1>4, <2>1, <2>3
    <3>5. b.seq = R(i - 1).seq + 1
      BY <1>1, <1>2, <3>3, <3>4
    <3>6. QED
      BY <3>2, <3>4, <3>5
  <2>4. QED
    BY <1>2, <2>2, <2>3
<1>10. ASSUME NEW b \in B, NEW k \in (t.head.seq + 1)..b.seq
       PROVE  \E c \in B : c.seq = k
  <2>1. PICK i \in 1..n : b = R(i)
    BY <1>3
  <2>2. b.seq = t.head.seq + i
    BY <1>4, <2>1
  <2>3. k - t.head.seq \in 1..n
    BY <1>1, <1>2, <2>2
  <2>4. R(k - t.head.seq) \in B /\ R(k - t.head.seq).seq = k
    <3>1. R(k - t.head.seq) \in B
      BY <1>3, <2>3
    <3>2. R(k - t.head.seq).seq = t.head.seq + (k - t.head.seq)
      BY <1>4, <2>3
    <3>3. t.head.seq + (k - t.head.seq) = k
      BY <1>1
    <3>4. QED
      BY <3>1, <3>2, <3>3
  <2>5. QED
    BY <2>4
<1>11. ASSUME NEW b \in B, b.kind \in ReviewKind
       PROVE  /\ t.op = "review"
              /\ b.target = t.envs[1].target /\ b.kind = t.envs[1].kind
  <2>1. PICK i \in 1..n : b = R(i)
    BY <1>3
  <2>2. t.op = "review"
    BY <1>2, <1>4, <1>11, <2>1 DEF BatchOK
  <2>3. n = 1
    BY <2>2 DEF BatchOK, n
  <2>4. QED
    BY <1>4, <2>1, <2>2, <2>3
<1>12. QED
  BY <1>5, <1>6, <1>7, <1>8, <1>9, <1>10, <1>11 DEF B

-----------------------------------------------------------------------------
(* The invariant holds initially and every step keeps it *)

\* The invariant holds at the start.
THEOREM InvariantInit == Init => IInv
<1> SUFFICES ASSUME Init PROVE IInv
  OBVIOUS
<1>1. NoTx \in Tx
  BY DEF NoTx, Tx, Pc, Op, StreamStart, HashValue
<1>2. \A s \in Session : tx[s] = NoTx /\ tx[s].pc = "idle"
  BY DEF Init, NoTx
<1>3. TypeOK
  BY <1>1 DEF Init, TypeOK
<1>4. \A s \in Session : HeadOK(tx[s]) /\ FlushedOK(tx[s]) /\ BatchOK(tx[s])
  BY <1>2 DEF HeadOK, FlushedOK, BatchOK
<1>5. OneFlushed
  BY <1>2 DEF OneFlushed, Flushed
<1>6. RecordedOnce /\ GapFree /\ Linked /\ ReviewedLeavesInbox
  BY DEF Init, RecordedOnce, GapFree, Linked, ReviewedLeavesInbox
<1>7. QED
  BY <1>3, <1>4, <1>5, <1>6 DEF IInv

\* A step that changes the transaction of one session and no row keeps the
\* invariant if the new transaction meets its part of it.
LEMMA LocalStep ==
  ASSUME IInv, NEW s \in Session, NEW t \in Tx,
         UNCHANGED rows, tx' = [tx EXCEPT ![s] = t],
         HeadOK(t), FlushedOK(t), BatchOK(t),
         t.pc \in {"update", "commit"} => \A u \in Session \ {s} : ~Flushed(u)
  PROVE  IInv'
<1>1. tx \in [Session -> Tx]
  BY DEF IInv, TypeOK
<1>2. TypeOK'
  BY <1>1 DEF IInv, TypeOK
<1>3. (RecordedOnce /\ GapFree /\ Linked /\ ReviewedLeavesInbox)'
  BY DEF IInv, RecordedOnce, GapFree, Linked, ReviewedLeavesInbox
<1>4. ASSUME NEW u \in Session
      PROVE  (HeadOK(tx[u]) /\ FlushedOK(tx[u]) /\ BatchOK(tx[u]))'
  <2>1. CASE u = s
    BY <1>1, <2>1 DEF HeadOK, FlushedOK, BatchOK
  <2>2. CASE u # s
    BY <1>1, <2>2 DEF IInv, HeadOK, FlushedOK, BatchOK
  <2>3. QED
    BY <2>1, <2>2
<1>5. OneFlushed'
  BY <1>1 DEF IInv, OneFlushed, Flushed
<1>6. QED
  BY <1>2, <1>3, <1>4, <1>5 DEF IInv

\* NoTx meets every obligation.
LEMMA NoTxOK == NoTx \in Tx /\ HeadOK(NoTx) /\ FlushedOK(NoTx) /\ BatchOK(NoTx)
<1>1. NoTx \in Tx
  BY DEF NoTx, Tx, Pc, Op, StreamStart, HashValue
<1>2. NoTx.pc = "idle"
  BY DEF NoTx
<1>3. QED
  BY <1>1, <1>2 DEF HeadOK, FlushedOK, BatchOK

\* Ending a transaction without a commit keeps the invariant.
LEMMA EndKeeps ==
  ASSUME IInv, NEW s \in Session, UNCHANGED rows, tx' = [tx EXCEPT ![s] = NoTx]
  PROVE  IInv'
<1>1. NoTx.pc = "idle"
  BY DEF NoTx
<1>2. QED
  BY <1>1, NoTxOK, LocalStep

\* A session begins with a batch fit to be written.
Begins(s) ==
  \E op \in Op, envs \in Seq(Envelope) :
    /\ Begin(s, op, envs)
    /\ BatchOK([pc |-> "head", op |-> op, envs |-> envs, head |-> StreamStart])

\* What a session begins is a well-formed transaction,
LEMMA BegunTx ==
  ASSUME NEW s \in Session, Begins(s)
  PROVE  /\ tx[s] = NoTx /\ UNCHANGED rows
         /\ \E t \in Tx : /\ tx' = [tx EXCEPT ![s] = t]
                          /\ t.pc = "head" /\ t.head = StreamStart /\ BatchOK(t)
<1>1. PICK op \in Op, envs \in Seq(Envelope) :
        /\ Begin(s, op, envs)
        /\ BatchOK([pc |-> "head", op |-> op, envs |-> envs, head |-> StreamStart])
  BY DEF Begins
<1> DEFINE t == [pc |-> "head", op |-> op, envs |-> envs, head |-> StreamStart]
<1>2. t \in Tx /\ t.pc = "head" /\ t.head = StreamStart
  BY NoTxOK DEF Tx, Pc, NoTx
<1>3. tx' = [tx EXCEPT ![s] = t]
  BY <1>1 DEF Begin
<1>4. QED
  BY <1>1, <1>2, <1>3 DEF Begin

\* and keeps the invariant.
LEMMA BeginKeeps ==
  ASSUME IInv, NEW s \in Session, Begins(s)
  PROVE  IInv'
<1>1. UNCHANGED rows
  BY BegunTx
<1>2. PICK t \in Tx : /\ tx' = [tx EXCEPT ![s] = t]
                      /\ t.pc = "head" /\ t.head = StreamStart /\ BatchOK(t)
  BY BegunTx
<1>3. HeadOK(t) /\ FlushedOK(t)
  BY <1>2 DEF HeadOK, FlushedOK
<1>4. QED
  BY <1>1, <1>2, <1>3, LocalStep

\* Every batch a producer appends is fit to be written,
LEMMA AppendBegins ==
  ASSUME NEW s \in Session, AppendRequest(s)
  PROVE  Begins(s)
<1>1. PICK batch \in Batches : Begin(s, "append", batch)
  BY DEF AppendRequest
<1>2. PICK n \in 1..MaxBatch :
        batch \in [1..n -> {Fact("note", b, k, st) : b \in Body, k \in Key \cup {NoKey},
                                                     st \in {"proposed", "confirmed"}}]
  BY DEF Batches
<1>3. \A i \in 1..n : batch[i] \in Envelope /\ batch[i].kind = "note"
  BY <1>2 DEF Fact, Envelope, EventKind, Status
<1>4. n \in Nat \ {0} /\ DOMAIN batch = 1..n
  BY <1>2
<1>5. batch \in [1..n -> Envelope]
  BY <1>2, <1>3
<1>6. batch \in Seq(Envelope)
  BY <1>4, <1>5, SeqDef
<1>7. batch # <<>>
  BY <1>4
<1>8. \A i, j \in 1..n : batch[i].key = batch[j].key /\ batch[i].key # NoKey => i = j
  BY <1>1, <1>4 DEF Batches
<1>9. BatchOK([pc |-> "head", op |-> "append", envs |-> batch, head |-> StreamStart])
  BY <1>3, <1>4, <1>7, <1>8 DEF BatchOK, ReviewKind
<1>10. QED
  BY <1>1, <1>6, <1>9 DEF Begins, Op

\* so is a demo history,
LEMMA DemoBatch ==
  ASSUME NEW b \in Body, NEW n \in 1..MaxBatch, NEW batch,
         batch = [i \in 1..n |-> Fact("demo", b, NoKey, "confirmed")]
  PROVE  /\ batch \in Seq(Envelope)
         /\ BatchOK([pc |-> "head", op |-> "append", envs |-> batch, head |-> StreamStart])
<1>1. Fact("demo", b, NoKey, "confirmed") \in Envelope
  BY DEF Fact, Envelope, EventKind, Status
<1>2. n \in Nat \ {0} /\ batch \in [1..n -> Envelope]
  BY <1>1, BoundAssumption
<1>3. batch \in Seq(Envelope) /\ batch # <<>>
  BY <1>2, SeqDef
<1>4. \A i \in DOMAIN batch : batch[i].kind = "demo" /\ batch[i].key = NoKey
  BY DEF Fact
<1>5. BatchOK([pc |-> "head", op |-> "append", envs |-> batch, head |-> StreamStart])
  BY <1>3, <1>4 DEF BatchOK, ReviewKind
<1>6. QED
  BY <1>3, <1>5

LEMMA BackfillBegins ==
  ASSUME NEW s \in Session, BackfillRequest(s)
  PROVE  Begins(s)
<1>1. PICK b \in Body, n \in 1..MaxBatch :
        Begin(s, "append", [i \in 1..n |-> Fact("demo", b, NoKey, "confirmed")])
  BY DEF BackfillRequest
<1>2. PICK batch : batch = [i \in 1..n |-> Fact("demo", b, NoKey, "confirmed")]
  OBVIOUS
<1>3. Begin(s, "append", batch)
  BY <1>1, <1>2
<1>4. QED
  BY <1>2, <1>3, DemoBatch DEF Begins, Op

\* so is a field entry,
LEMMA EntryBegins ==
  ASSUME NEW s \in Session, EntryRequest(s)
  PROVE  Begins(s)
<1>1. PICK k \in Key, b \in Body : Begin(s, "entry", <<Fact("note", b, k, "proposed")>>)
  BY DEF EntryRequest
<1> DEFINE batch == <<Fact("note", b, k, "proposed")>>
<1>2. Fact("note", b, k, "proposed") \in Envelope
  BY DEF Fact, Envelope, EventKind, Status
<1>3. batch \in Seq(Envelope) /\ batch # <<>> /\ DOMAIN batch = {1} /\ batch[1].kind = "note"
  BY <1>2 DEF Fact
<1> HIDE DEF batch
<1>4. BatchOK([pc |-> "head", op |-> "entry", envs |-> batch, head |-> StreamStart])
  BY <1>3 DEF BatchOK, ReviewKind
<1>5. QED
  BY <1>1, <1>3, <1>4 DEF Begins, Op, batch

\* and so is a review: its companion names a committed row and the status
\* that row has.
LEMMA ReviewBegins ==
  ASSUME rows \subseteq Row, NEW s \in Session, NEW e \in rows,
         NEW kind \in ReviewKind, Review(s, e, kind)
  PROVE  Begins(s)
<1>1. PICK reason \in Body :
        Begin(s, "review", <<[kind |-> kind, target |-> e.seq, from |-> e.status,
                              body |-> reason, key |-> NoKey, status |-> "confirmed"]>>)
  BY DEF Review
<1> DEFINE env == [kind |-> kind, target |-> e.seq, from |-> e.status,
                   body |-> reason, key |-> NoKey, status |-> "confirmed"]
           batch == <<env>>
<1>2. e \in Row
  OBVIOUS
<1>3. env \in Envelope
  BY <1>2 DEF Envelope, EventKind, Status, Row
<1>4. /\ batch \in Seq(Envelope) /\ batch # <<>> /\ DOMAIN batch = {1} /\ Len(batch) = 1
      /\ batch[1].kind = kind /\ batch[1].target = e.seq /\ batch[1].from = e.status
  BY <1>3
<1> HIDE DEF batch
<1>5. BatchOK([pc |-> "head", op |-> "review", envs |-> batch, head |-> StreamStart])
  BY <1>4 DEF BatchOK
<1>6. QED
  BY <1>1, <1>4, <1>5 DEF Begins, Op, batch

LEMMA RequestBegins ==
  ASSUME rows \subseteq Row, NEW s \in Session, Request(s)
  PROVE  Begins(s)
<1>1. CASE ConfirmRequest(s)
  <2>1. PICK e \in rows : Review(s, e, "event.confirmed")
    BY <1>1 DEF ConfirmRequest
  <2>2. QED
    BY <2>1, ReviewBegins DEF ReviewKind
<1>2. CASE RejectRequest(s)
  <2>1. PICK e \in rows : Review(s, e, "event.rejected")
    BY <1>2 DEF RejectRequest
  <2>2. QED
    BY <2>1, ReviewBegins DEF ReviewKind
<1>3. QED
  BY <1>1, <1>2, AppendBegins, BackfillBegins, EntryBegins DEF Request

\* The head a session reads is a committed row.
LEMMA ReadHeadKeeps ==
  ASSUME IInv, NEW s \in Session, ReadHead(s)
  PROVE  IInv'
<1>1. PICK h \in {StreamStart} \cup {[seq |-> r.seq, hash |-> r.hash] : r \in rows} :
        tx' = [tx EXCEPT ![s].pc = "insert", ![s].head = h]
  BY DEF ReadHead
<1> DEFINE t == [tx[s] EXCEPT !.pc = "insert", !.head = h]
<1>2. h \in [seq: Nat, hash: HashValue]
  <2>1. StreamStart \in [seq: Nat, hash: HashValue]
    BY NoTxOK DEF NoTx, Tx
  <2>2. \A r \in rows : r.seq \in Nat /\ r.hash \in HashValue
    BY DEF IInv, TypeOK, Row
  <2>3. QED
    BY <2>1, <2>2
<1>3. tx[s] \in Tx /\ tx[s].pc = "head"
  BY DEF IInv, TypeOK, ReadHead
<1>4. t \in Tx /\ t.pc = "insert" /\ t.op = tx[s].op /\ t.envs = tx[s].envs /\ t.head = h
  BY <1>2, <1>3 DEF Tx, Pc
<1>5. tx' = [tx EXCEPT ![s] = t]
  BY <1>1
<1>6. HeadOK(t)
  BY <1>4 DEF HeadOK
<1>7. FlushedOK(t)
  BY <1>4 DEF FlushedOK
<1>8. BatchOK(t)
  BY <1>3, <1>4 DEF IInv, BatchOK
<1>9. QED
  BY <1>4, <1>5, <1>6, <1>7, <1>8, LocalStep DEF ReadHead

\* The heart of it: a flush that the UNIQUE constraints let through finds the
\* head it was chained to still the last row, and no other session in flight.
LEMMA InsertRowsKeeps ==
  ASSUME IInv, NEW s \in Session, InsertRows(s)
  PROVE  IInv'
<1> DEFINE B(u) == BuildRows(tx[u].head, tx[u].envs)
           h == tx[s].head
           pc == IF tx[s].op = "review" THEN "update" ELSE "commit"
           t == [tx[s] EXCEPT !.pc = pc]
<1>1. tx[s] \in Tx /\ tx[s].pc = "insert"
  BY DEF IInv, TypeOK, InsertRows
<1>2. /\ h.seq \in Nat
      /\ \A r \in rows : r \in Row /\ r.seq \in Nat \ {0}
  BY <1>1 DEF IInv, TypeOK, Tx, Row
<1>3. PICK b \in B(s) : b.seq = h.seq + 1
  BY <1>1, Block DEF IInv
<1>4. ~Collides(B(s), rows) /\ \A u \in Session \ {s} : ~Collides(B(s), InFlight(u))
  BY DEF InsertRows, InsertTo
<1>5. \A r \in rows : r.seq <= h.seq
  <2>1. SUFFICES ASSUME NEW r \in rows, r.seq > h.seq PROVE FALSE
    BY <1>2
  <2>2. h.seq + 1 \in 1..r.seq
    BY <1>2, <2>1
  <2>3. PICK q \in rows : q.seq = h.seq + 1
    BY <2>2 DEF IInv, GapFree
  <2>4. QED
    BY <1>3, <1>4, <2>3 DEF Collides, Conflict
<1>6. ASSUME NEW u \in Session \ {s}, Flushed(u)
      PROVE  FALSE
  <2>1. tx[u] \in Tx /\ tx[u].pc \in {"update", "commit"} /\ tx[u].head.seq \in Nat
    BY <1>6 DEF IInv, TypeOK, Flushed, Tx
  <2>2. PICK c \in B(u) : c.seq = tx[u].head.seq + 1
    BY <2>1, Block DEF IInv
  <2>3. c \in InFlight(u)
    BY <2>1, <2>2 DEF InFlight
  <2>4. tx[u].head.seq <= h.seq
    BY <1>5, <2>1, <1>2 DEF IInv, HeadOK, StreamStart
  <2>5. h.seq <= tx[u].head.seq
    BY <1>1, <1>2, <2>1 DEF IInv, HeadOK, FlushedOK, StreamStart
  <2>6. c.seq = b.seq
    BY <1>2, <1>3, <2>1, <2>2, <2>4, <2>5
  <2>7. QED
    BY <1>4, <2>3, <2>6 DEF Collides, Conflict
<1>7. /\ t \in Tx /\ t.pc \in {"update", "commit"}
      /\ t.op = tx[s].op /\ t.envs = tx[s].envs /\ t.head = h
  BY <1>1 DEF Tx, Pc
<1>8. tx' = [tx EXCEPT ![s] = t]
  BY DEF InsertRows, InsertTo
<1>9. HeadOK(t)
  BY <1>1, <1>7 DEF IInv, HeadOK
<1>10. FlushedOK(t)
  BY <1>4, <1>5, <1>7 DEF FlushedOK
<1>11. BatchOK(t)
  BY <1>1, <1>7 DEF IInv, BatchOK
<1>12. UNCHANGED rows
  BY DEF InsertRows, InsertTo
<1> HIDE DEF t
<1>13. QED
  BY <1>6, <1>7, <1>8, <1>9, <1>10, <1>11, <1>12, LocalStep

\* Flushing a status changes no committed row.
LEMMA UpdateStatusKeeps ==
  ASSUME IInv, NEW s \in Session, UpdateStatus(s)
  PROVE  IInv'
<1> DEFINE t == [tx[s] EXCEPT !.pc = "commit"]
<1>1. tx[s] \in Tx /\ tx[s].pc = "update" /\ UNCHANGED rows
  BY DEF IInv, TypeOK, UpdateStatus
<1>2. /\ t \in Tx /\ t.pc = "commit"
      /\ t.op = tx[s].op /\ t.envs = tx[s].envs /\ t.head = tx[s].head
  BY <1>1 DEF Tx, Pc
<1>3. tx' = [tx EXCEPT ![s] = t]
  BY DEF UpdateStatus
<1>4. HeadOK(t) /\ FlushedOK(t) /\ BatchOK(t)
  <2>1. HeadOK(t)
    BY <1>1, <1>2 DEF IInv, HeadOK
  <2>2. FlushedOK(t)
    BY <1>1, <1>2 DEF IInv, FlushedOK
  <2>3. BatchOK(t)
    BY <1>1, <1>2 DEF IInv, BatchOK
  <2>4. QED
    BY <2>1, <2>2, <2>3
<1>5. \A u \in Session \ {s} : ~Flushed(u)
  BY <1>1 DEF IInv, OneFlushed, Flushed
<1> HIDE DEF t
<1>6. QED
  BY <1>1, <1>2, <1>3, <1>4, <1>5, LocalStep

\* Committing a status changes nothing of a row but its status, and that only
\* to what the companion event in flight stands for.
LEMMA WithStatusFacts ==
  ASSUME IInv, NEW s \in Session, NEW W, W = WithStatus(rows, s)
  PROVE  /\ W \subseteq Row
         /\ \A q \in W : \E r \in rows :
              /\ r.seq = q.seq /\ r.prev = q.prev /\ r.hash = q.hash
              /\ r.kind = q.kind /\ r.target = q.target /\ r.from = q.from
              /\ r.body = q.body /\ r.key = q.key
              /\ \/ q.status = r.status
                 \/ Dirty(s) /\ r.seq = tx[s].envs[1].target /\ q.status = NewStatus(s)
         /\ \A r \in rows : \E q \in W :
              /\ r.seq = q.seq /\ r.hash = q.hash /\ r.kind = q.kind
              /\ r.target = q.target
              /\ q.status = IF Dirty(s) /\ r.seq = tx[s].envs[1].target
                            THEN NewStatus(s) ELSE r.status
<1> DEFINE f(r) == IF Dirty(s) /\ r.seq = tx[s].envs[1].target
                     THEN [r EXCEPT !.status = NewStatus(s)] ELSE r
<1>1. W = {f(r) : r \in rows}
  BY DEF WithStatus
<1>2. rows \subseteq Row
  BY DEF IInv, TypeOK
<1>3. NewStatus(s) \in Status
  BY DEF NewStatus, StatusOf, Status
<1>4. ASSUME NEW r \in rows
      PROVE  /\ f(r) \in Row
             /\ r.seq = f(r).seq /\ r.prev = f(r).prev /\ r.hash = f(r).hash
             /\ r.kind = f(r).kind /\ r.target = f(r).target /\ r.from = f(r).from
             /\ r.body = f(r).body /\ r.key = f(r).key
             /\ f(r).status = IF Dirty(s) /\ r.seq = tx[s].envs[1].target
                              THEN NewStatus(s) ELSE r.status
  <2>1. r \in Row
    BY <1>2
  <2>2. CASE Dirty(s) /\ r.seq = tx[s].envs[1].target
    <3>1. f(r) = [r EXCEPT !.status = NewStatus(s)]
      BY <2>2
    <3>2. QED
      BY <1>3, <2>1, <2>2, <3>1 DEF Row
  <2>3. CASE ~(Dirty(s) /\ r.seq = tx[s].envs[1].target)
    BY <2>1, <2>3
  <2>4. QED
    BY <2>2, <2>3
<1> HIDE DEF f
<1>5. W \subseteq Row
  BY <1>1, <1>4
<1>6. ASSUME NEW q \in W
      PROVE  \E r \in rows :
               /\ r.seq = q.seq /\ r.prev = q.prev /\ r.hash = q.hash
               /\ r.kind = q.kind /\ r.target = q.target /\ r.from = q.from
               /\ r.body = q.body /\ r.key = q.key
               /\ \/ q.status = r.status
                  \/ Dirty(s) /\ r.seq = tx[s].envs[1].target /\ q.status = NewStatus(s)
  <2>1. PICK r \in rows : q = f(r)
    BY <1>1
  <2>2. QED
    BY <1>4, <2>1
<1>7. ASSUME NEW r \in rows
      PROVE  \E q \in W :
               /\ r.seq = q.seq /\ r.hash = q.hash /\ r.kind = q.kind
               /\ r.target = q.target
               /\ q.status = IF Dirty(s) /\ r.seq = tx[s].envs[1].target
                             THEN NewStatus(s) ELSE r.status
  <2>1. f(r) \in W
    BY <1>1
  <2>2. QED
    BY <1>4, <2>1
<1>8. QED
  BY <1>5, <1>6, <1>7

\* A commit adds the rows of the one session in flight, chained to the last
\* committed row, and flips the status its companion row stands for.
LEMMA CommitKeeps ==
  ASSUME IInv, NEW s \in Session, Commit(s)
  PROVE  IInv'
<1> DEFINE t == tx[s]
           h == t.head
           W == WithStatus(rows, s)
           B == BuildRows(t.head, t.envs)
<1>1. t \in Tx /\ t.pc = "commit" /\ tx \in [Session -> Tx] /\ rows \subseteq Row
  BY DEF IInv, TypeOK, Commit
<1>2. rows' = W \cup B /\ tx' = [tx EXCEPT ![s] = NoTx]
  BY <1>1 DEF Commit, InFlight
<1>3. HeadOK(t) /\ FlushedOK(t) /\ BatchOK(t)
  BY DEF IInv
<1>4. h \in Head0 /\ h.seq \in Nat
  BY <1>1 DEF Tx, Head0
<1>5. /\ W \subseteq Row
      /\ \A q \in W : \E r \in rows :
           /\ r.seq = q.seq /\ r.prev = q.prev /\ r.hash = q.hash
           /\ r.kind = q.kind /\ r.target = q.target /\ r.from = q.from
           /\ r.body = q.body /\ r.key = q.key
           /\ \/ q.status = r.status
              \/ Dirty(s) /\ r.seq = t.envs[1].target /\ q.status = NewStatus(s)
      /\ \A r \in rows : \E q \in W :
           /\ r.seq = q.seq /\ r.hash = q.hash /\ r.kind = q.kind
           /\ r.target = q.target
           /\ q.status = IF Dirty(s) /\ r.seq = t.envs[1].target
                         THEN NewStatus(s) ELSE r.status
  BY WithStatusFacts
<1>6. /\ B \subseteq Row
      /\ \A b \in B : b.seq > h.seq /\ b.hash = EventHash(b.prev, b.seq, b)
      /\ \A b, c \in B : Conflict(b, c) => b = c
      /\ \A b \in B : \/ b.seq = h.seq + 1 /\ b.prev = h.hash
                      \/ \E c \in B : b.seq = c.seq + 1 /\ b.prev = c.hash
      /\ \A b \in B : \A k \in (h.seq + 1)..b.seq : \E c \in B : c.seq = k
      /\ \A b \in B : b.kind \in ReviewKind =>
           /\ t.op = "review"
           /\ b.target = t.envs[1].target /\ b.kind = t.envs[1].kind
  BY <1>1, <1>3, Block
<1>7. (\A r \in rows : r.seq <= h.seq) /\ ~Collides(B, rows)
  BY <1>1, <1>3 DEF FlushedOK
<1>8. \A u \in Session \ {s} : ~Flushed(u)
  BY <1>1 DEF IInv, OneFlushed, Flushed
<1>9. h = StreamStart \/ \E r \in rows : h.seq = r.seq /\ h.hash = r.hash
  BY <1>1, <1>3 DEF HeadOK
<1>10. NewStatus(s) # "proposed"
  BY DEF NewStatus, StatusOf
<1>11. \A r \in Row : r.seq \in Nat \ {0}
  BY DEF Row
<1> HIDE DEF W, B, t
<1>12. TypeOK'
  BY <1>1, <1>2, <1>5, <1>6, NoTxOK DEF TypeOK
<1>13. RecordedOnce'
  <2>1. SUFFICES ASSUME NEW p \in W \cup B, NEW q \in W \cup B, Conflict(p, q)
                 PROVE  p = q
    BY <1>2 DEF RecordedOnce
  <2>2. CASE p \in W /\ q \in W
    <3>1. PICK x \in rows : p = IF Dirty(s) /\ x.seq = tx[s].envs[1].target
                                 THEN [x EXCEPT !.status = NewStatus(s)] ELSE x
      BY <2>2 DEF W, WithStatus
    <3>2. PICK y \in rows : q = IF Dirty(s) /\ y.seq = tx[s].envs[1].target
                                 THEN [y EXCEPT !.status = NewStatus(s)] ELSE y
      BY <2>2 DEF W, WithStatus
    <3>3. x \in Row /\ y \in Row
      BY <1>1
    <3>4. x.seq = p.seq /\ x.key = p.key
      BY <3>1, <3>3 DEF Row
    <3>5. y.seq = q.seq /\ y.key = q.key
      BY <3>2, <3>3 DEF Row
    <3>6. Conflict(x, y)
      BY <2>1, <3>4, <3>5 DEF Conflict
    <3>7. x = y
      BY <3>6 DEF IInv, RecordedOnce
    <3>8. QED
      BY <3>1, <3>2, <3>7
  <2>3. CASE p \in B /\ q \in B
    BY <1>6, <2>1, <2>3
  <2>4. CASE p \in W /\ q \in B
    <3>1. PICK x \in rows : x.seq = p.seq /\ x.key = p.key
      BY <1>5, <2>4
    <3>2. Conflict(q, x)
      BY <2>1, <3>1 DEF Conflict
    <3>3. QED
      BY <1>7, <2>4, <3>2 DEF Collides
  <2>5. CASE p \in B /\ q \in W
    <3>1. PICK x \in rows : x.seq = q.seq /\ x.key = q.key
      BY <1>5, <2>5
    <3>2. Conflict(p, x)
      BY <2>1, <3>1 DEF Conflict
    <3>3. QED
      BY <1>7, <2>5, <3>2 DEF Collides
  <2>6. QED
    BY <2>2, <2>3, <2>4, <2>5
<1>14. GapFree'
  <2>1. SUFFICES ASSUME NEW r \in W \cup B, NEW k \in 1..r.seq
                 PROVE  \E q \in W \cup B : q.seq = k
    BY <1>2 DEF GapFree
  <2>2. ASSUME NEW x \in rows, k \in 1..x.seq
        PROVE  \E q \in W : q.seq = k
    <3>1. PICK y \in rows : y.seq = k
      BY <2>2 DEF IInv, GapFree
    <3>2. QED
      BY <1>5, <3>1
  <2>3. CASE r \in W
    <3>1. PICK x \in rows : x.seq = r.seq
      BY <1>5, <2>3
    <3>2. QED
      BY <2>2, <3>1
  <2>4. CASE r \in B /\ k > h.seq
    <3>1. r.seq \in Nat
      BY <1>6, <1>11, <2>4
    <3>2. k \in (h.seq + 1)..r.seq
      BY <1>4, <2>4, <3>1
    <3>3. QED
      BY <1>6, <2>4, <3>2
  <2>5. CASE r \in B /\ k <= h.seq
    <3>1. h # StreamStart
      BY <2>5 DEF StreamStart
    <3>2. PICK x \in rows : h.seq = x.seq
      BY <1>9, <3>1
    <3>3. k \in 1..x.seq
      BY <1>4, <2>5, <3>2
    <3>4. QED
      BY <2>2, <3>3
  <2>6. QED
    BY <1>4, <1>6, <1>11, <2>3, <2>4, <2>5
<1>15. Linked'
  <2>1. SUFFICES ASSUME NEW r \in W \cup B
                 PROVE  /\ r.hash = EventHash(r.prev, r.seq, r)
                        /\ \/ r.seq = 1 /\ r.prev = <<>>
                           \/ \E q \in W \cup B : q.seq = r.seq - 1 /\ r.prev = q.hash
    BY <1>2 DEF Linked
  <2>2. CASE r \in W
    <3>1. PICK x \in rows :
            /\ x.seq = r.seq /\ x.prev = r.prev /\ x.hash = r.hash
            /\ x.kind = r.kind /\ x.target = r.target /\ x.from = r.from
            /\ x.body = r.body
      BY <1>5, <2>2
    <3>2. x.hash = EventHash(x.prev, x.seq, x)
      BY DEF IInv, Linked
    <3>3. EventHash(x.prev, x.seq, x) = EventHash(r.prev, r.seq, r)
      BY <3>1 DEF EventHash, Core
    <3>4. CASE x.seq = 1 /\ x.prev = <<>>
      BY <3>1, <3>2, <3>3, <3>4
    <3>5. CASE \E y \in rows : y.seq = x.seq - 1 /\ x.prev = y.hash
      <4>1. PICK y \in rows : y.seq = x.seq - 1 /\ x.prev = y.hash
        BY <3>5
      <4>2. PICK q \in W : q.seq = y.seq /\ q.hash = y.hash
        BY <1>5
      <4>3. QED
        BY <3>1, <3>2, <3>3, <4>1, <4>2
    <3>6. QED
      BY <3>4, <3>5 DEF IInv, Linked
  <2>3. CASE r \in B /\ r.seq = h.seq + 1 /\ r.prev = h.hash
    <3>1. r.hash = EventHash(r.prev, r.seq, r)
      BY <1>6, <2>3
    <3>2. CASE h = StreamStart
      BY <2>3, <3>1, <3>2 DEF StreamStart
    <3>3. CASE \E x \in rows : h.seq = x.seq /\ h.hash = x.hash
      <4>1. PICK x \in rows : h.seq = x.seq /\ h.hash = x.hash
        BY <3>3
      <4>2. PICK q \in W : q.seq = x.seq /\ q.hash = x.hash
        BY <1>5
      <4>3. q.seq = r.seq - 1 /\ r.prev = q.hash
        BY <1>4, <2>3, <4>1, <4>2
      <4>4. QED
        BY <3>1, <4>3
    <3>4. QED
      BY <1>9, <3>2, <3>3
  <2>4. CASE r \in B /\ \E c \in B : r.seq = c.seq + 1 /\ r.prev = c.hash
    <3>1. r.hash = EventHash(r.prev, r.seq, r)
      BY <1>6, <2>4
    <3>2. PICK c \in B : r.seq = c.seq + 1 /\ r.prev = c.hash
      BY <2>4
    <3>3. c.seq = r.seq - 1
      BY <1>6, <1>11, <3>2
    <3>4. QED
      BY <3>1, <3>2, <3>3
  <2>5. QED
    BY <1>6, <2>2, <2>3, <2>4
<1>16. ASSUME NEW u \in Session
       PROVE  (HeadOK(tx[u]) /\ FlushedOK(tx[u]) /\ BatchOK(tx[u]))'
  <2>1. CASE u = s
    <3>1. tx'[u].pc = "idle"
      BY <1>1, <1>2, <2>1 DEF NoTx
    <3>2. QED
      BY <3>1 DEF HeadOK, FlushedOK, BatchOK
  <2>2. CASE u # s
    <3>1. tx'[u] = tx[u] /\ tx[u].pc \notin {"update", "commit"}
      BY <1>1, <1>2, <1>8, <2>2 DEF Flushed
    <3>2. HeadOK(tx[u])'
      <4>1. HeadOK(tx[u])
        BY DEF IInv
      <4>2. \A x \in rows : \E q \in rows' : q.seq = x.seq /\ q.hash = x.hash
        BY <1>2, <1>5
      <4>3. QED
        BY <3>1, <4>1, <4>2 DEF HeadOK
    <3>3. FlushedOK(tx[u])'
      BY <3>1 DEF FlushedOK
    <3>4. BatchOK(tx[u])'
      <4>1. BatchOK(tx[u])
        BY DEF IInv
      <4>2. \A x \in rows : \E q \in rows' :
              q.seq = x.seq /\ (x.status # "proposed" => q.status # "proposed")
        BY <1>2, <1>5, <1>10
      <4>3. QED
        BY <3>1, <4>1, <4>2 DEF BatchOK
    <3>5. QED
      BY <3>2, <3>3, <3>4
  <2>3. QED
    BY <2>1, <2>2
<1>17. OneFlushed'
  BY <1>1, <1>2, <1>8, NoTxOK DEF OneFlushed, Flushed, NoTx
<1>18. ReviewedLeavesInbox'
  <2>1. SUFFICES ASSUME NEW r \in W \cup B, r.kind \in ReviewKind
                 PROVE  \E e \in W \cup B :
                          e.seq = r.target /\ e.seq < r.seq /\ e.status # "proposed"
    BY <1>2 DEF ReviewedLeavesInbox
  <2>2. CASE r \in W
    <3>1. PICK x \in rows : x.seq = r.seq /\ x.kind = r.kind /\ x.target = r.target
      BY <1>5, <2>2
    <3>2. PICK y \in rows : y.seq = x.target /\ y.seq < x.seq /\ y.status # "proposed"
      BY <2>1, <3>1 DEF IInv, ReviewedLeavesInbox
    <3>3. PICK q \in W : q.seq = y.seq /\ q.status # "proposed"
      BY <1>5, <1>10, <3>2
    <3>4. QED
      BY <3>1, <3>2, <3>3
  <2>3. CASE r \in B
    <3>1. t.op = "review" /\ r.target = t.envs[1].target /\ r.seq > h.seq
      BY <1>6, <2>1, <2>3
    <3>2. PICK e \in rows : /\ e.seq = t.envs[1].target
                            /\ t.envs[1].from # "proposed" => e.status # "proposed"
      BY <1>1, <1>3, <3>1 DEF BatchOK
    <3>3. PICK q \in W : /\ q.seq = e.seq
                         /\ q.status = IF Dirty(s) /\ e.seq = t.envs[1].target
                                       THEN NewStatus(s) ELSE e.status
      BY <1>5
    <3>4. q.status # "proposed"
      <4>1. CASE Dirty(s)
        BY <1>10, <3>2, <3>3, <4>1
      <4>2. CASE ~Dirty(s)
        <5>1. t.envs[1].from = NewStatus(s)
          BY <3>1, <4>2 DEF Dirty, LoadedStatus, t
        <5>2. QED
          BY <1>10, <3>2, <3>3, <4>2, <5>1
      <4>3. QED
        BY <4>1, <4>2
    <3>5. q.seq < r.seq
      <4>1. e.seq <= h.seq /\ e.seq \in Nat
        BY <1>1, <1>7, <1>11
      <4>2. r.seq \in Nat
        BY <1>6, <1>11, <2>3
      <4>3. QED
        BY <1>4, <3>1, <3>3, <4>1, <4>2
    <3>6. QED
      BY <3>1, <3>2, <3>3, <3>4, <3>5
  <2>4. QED
    BY <2>2, <2>3
<1>19. QED
  BY <1>12, <1>13, <1>14, <1>15, <1>16, <1>17, <1>18 DEF IInv

\* Every step of any session keeps the invariant.
THEOREM InvariantStep == IInv /\ [Next]_vars => IInv'
<1> SUFFICES ASSUME IInv, [Next]_vars PROVE IInv'
  OBVIOUS
<1>1. CASE UNCHANGED vars
  BY <1>1 DEF vars, IInv, TypeOK, RecordedOnce, GapFree, Linked, HeadOK, FlushedOK,
       BatchOK, OneFlushed, Flushed, ReviewedLeavesInbox
<1>2. CASE Quiet
  BY <1>1, <1>2 DEF Quiet
<1>3. ASSUME NEW s \in Session, Request(s)
      PROVE  IInv'
  BY <1>3, RequestBegins, BeginKeeps DEF IInv, TypeOK
<1>4. ASSUME NEW s \in Session, Step(s)
      PROVE  IInv'
  <2>1. CASE ReadHead(s)
    BY <2>1, ReadHeadKeeps
  <2>2. CASE InsertRows(s)
    BY <2>2, InsertRowsKeeps
  <2>3. CASE InsertConflict(s)
    BY <2>3, EndKeeps DEF InsertConflict
  <2>4. CASE UpdateStatus(s)
    BY <2>4, UpdateStatusKeeps
  <2>5. CASE Commit(s)
    BY <2>5, CommitKeeps
  <2>6. QED
    BY <1>4, <2>1, <2>2, <2>3, <2>4, <2>5 DEF Step
<1>5. ASSUME NEW s \in Session, Rollback(s)
      PROVE  IInv'
  BY <1>5, EndKeeps DEF Rollback
<1>6. QED
  BY <1>1, <1>2, <1>3, <1>4, <1>5 DEF Next

\* The invariant holds always.
THEOREM Invariance == Spec => []IInv
  BY InvariantInit, InvariantStep, PTL DEF Spec

-----------------------------------------------------------------------------
(* What follows from the invariant *)

\* Committed rows are rows and every session is in a well-formed transaction.
THEOREM TypeCorrect == Spec => []TypeOK
<1>1. IInv => TypeOK
  BY DEF IInv
<1>2. QED
  BY <1>1, Invariance, PTL

\* A client_event_id and a seq are recorded at most once in a stream, however
\* many sessions race to append.
THEOREM RecordedAtMostOnce == Spec => []RecordedOnce
<1>1. IInv => RecordedOnce
  BY DEF IInv
<1>2. QED
  BY <1>1, Invariance, PTL

\* An event the log holds a review of has left the inbox.
THEOREM ReviewedNotInInbox == Spec => []ReviewedLeavesInbox
<1>1. IInv => ReviewedLeavesInbox
  BY DEF IInv
<1>2. QED
  BY <1>1, Invariance, PTL

\* Rows that are linked one by one make a chain that verifies.
LEMMA LinkedVerifies ==
  ASSUME rows \subseteq Row, Linked
  PROVE  VerifyChain(rows)
<1>1. SUFFICES ASSUME NEW r \in rows
               PROVE  LET below == {q \in rows : q.seq < r.seq}
                      IN /\ r.hash = EventHash(r.prev, r.seq, r)
                         /\ IF below = {} THEN r.seq = 1 /\ r.prev = <<>>
                            ELSE \E q \in below : q.seq = r.seq - 1 /\ r.prev = q.hash
  BY DEF VerifyChain
<1> DEFINE below == {q \in rows : q.seq < r.seq}
<1>2. \A q \in rows : q.seq \in Nat \ {0}
  BY DEF Row
<1>3. /\ r.hash = EventHash(r.prev, r.seq, r)
      /\ \/ r.seq = 1 /\ r.prev = <<>>
         \/ \E q \in rows : q.seq = r.seq - 1 /\ r.prev = q.hash
  BY DEF Linked
<1>4. CASE r.seq = 1 /\ r.prev = <<>>
  <2>1. below = {}
    BY <1>2, <1>4
  <2>2. QED
    BY <1>3, <1>4, <2>1
<1>5. CASE \E q \in rows : q.seq = r.seq - 1 /\ r.prev = q.hash
  <2>1. PICK q \in rows : q.seq = r.seq - 1 /\ r.prev = q.hash
    BY <1>5
  <2>2. q \in below
    BY <1>2, <2>1
  <2>3. QED
    BY <1>3, <2>1, <2>2
<1>6. QED
  BY <1>3, <1>4, <1>5

\* The chain of committed rows verifies at every moment: append_many of any
\* number of racing sessions never forks it or leaves a gap.
THEOREM ChainAlwaysVerifies == Spec => []ChainVerifies
<1>1. IInv => ChainVerifies
  BY LinkedVerifies DEF IInv, TypeOK, ChainVerifies
<1>2. QED
  BY <1>1, Invariance, PTL

\* At most one session holds uncommitted rows, and they continue the stream.
THEOREM OneWriterAtATime == Spec => []OneWriter
<1>1. ASSUME IInv PROVE OneWriter
  <2>1. \A s \in Session : InFlight(s) # {} => Flushed(s)
    BY DEF InFlight, Flushed
  <2>2. ASSUME NEW s \in Session, NEW r \in rows, NEW q \in InFlight(s)
        PROVE  r.seq < q.seq
    <3>1. tx[s] \in Tx /\ tx[s].pc \in {"update", "commit"}
      BY <1>1 DEF InFlight, IInv, TypeOK
    <3>2. InFlight(s) = BuildRows(tx[s].head, tx[s].envs)
      BY <3>1 DEF InFlight
    <3>3. BatchOK(tx[s]) /\ FlushedOK(tx[s])
      BY <1>1 DEF IInv
    <3>4. q \in Row /\ q.seq > tx[s].head.seq
      BY <3>1, <3>2, <3>3, Block
    <3>5. r.seq <= tx[s].head.seq
      BY <3>1, <3>3 DEF FlushedOK
    <3>6. r.seq \in Nat /\ q.seq \in Nat /\ tx[s].head.seq \in Nat
      BY <1>1, <3>1, <3>4 DEF IInv, TypeOK, Row, Tx
    <3>7. QED
      BY <3>4, <3>5, <3>6
  <2>3. QED
    BY <1>1, <2>1, <2>2 DEF OneWriter, IInv, OneFlushed
<1>2. QED
  BY <1>1, Invariance, PTL

-----------------------------------------------------------------------------
(* What a step may do to the stream *)

\* Only a commit changes the committed rows.
LEMMA OnlyCommitWrites ==
  ASSUME [Next]_vars, rows' # rows
  PROVE  \E s \in Session : Commit(s)
BY DEF Next, vars, Quiet, Request, AppendRequest, BackfillRequest, EntryRequest,
       ConfirmRequest, RejectRequest, Review, Begin, Step, ReadHead, InsertRows, InsertTo,
       InsertConflict, UpdateStatus, Rollback

\* No step removes a committed row or changes it but for its cached status.
THEOREM RecordIsAppendOnly == Spec => AppendOnly
<1> DEFINE Kept == {Immutable(r) : r \in rows} \subseteq {Immutable(r) : r \in rows'}
<1>1. ASSUME IInv, [Next]_vars PROVE [Kept]_vars
  <2>1. SUFFICES ASSUME rows' # rows PROVE Kept
    OBVIOUS
  <2>2. PICK s \in Session : Commit(s)
    BY <1>1, <2>1, OnlyCommitWrites
  <2>3. SUFFICES ASSUME NEW r \in rows
                 PROVE  \E q \in rows' : Immutable(q) = Immutable(r)
    OBVIOUS
  <2> DEFINE q == IF Dirty(s) /\ r.seq = tx[s].envs[1].target
                    THEN [r EXCEPT !.status = NewStatus(s)] ELSE r
  <2>4. q \in rows'
    BY <2>2 DEF Commit, WithStatus
  <2>5. Immutable(q) = Immutable(r)
    <3>1. r \in Row
      BY <1>1 DEF IInv, TypeOK
    <3>2. [[r EXCEPT !.status = NewStatus(s)] EXCEPT !.status = "proposed"]
            = [r EXCEPT !.status = "proposed"]
      BY <3>1 DEF Row
    <3>3. QED
      BY <3>2 DEF Immutable
  <2>6. QED
    BY <2>4, <2>5
<1>2. QED
  BY <1>1, Invariance, PTL DEF Spec, AppendOnly

\* A cached status never changes but in the step that commits a companion
\* event which says so.
THEOREM StatusChangesAreLogged == Spec => StatusChangeLogged
<1> DEFINE Logged ==
      \A r \in rows, q \in rows' :
        r.seq = q.seq /\ r.status # q.status =>
          \E c \in rows' \ rows :
            /\ c.kind \in ReviewKind /\ c.target = q.seq
            /\ StatusOf(c.kind) = q.status /\ c.seq > q.seq
<1>1. ASSUME IInv, [Next]_vars PROVE [Logged]_vars
  <2>1. SUFFICES ASSUME NEW r \in rows, NEW q \in rows',
                        r.seq = q.seq, r.status # q.status
                 PROVE  \E c \in rows' \ rows :
                          /\ c.kind \in ReviewKind /\ c.target = q.seq
                          /\ StatusOf(c.kind) = q.status /\ c.seq > q.seq
    OBVIOUS
  <2>2. rows' # rows
    BY <1>1, <2>1 DEF IInv, RecordedOnce, Conflict
  <2>3. PICK s \in Session : Commit(s)
    BY <1>1, <2>2, OnlyCommitWrites
  <2> DEFINE t == tx[s]
             B == BuildRows(t.head, t.envs)
             c == BuildRow(t.head, t.envs, 1)
  <2>4. /\ t \in Tx /\ t.pc = "commit" /\ FlushedOK(t) /\ BatchOK(t)
        /\ t.head \in Head0 /\ t.envs \in Seq(Envelope)
    BY <1>1, <2>3 DEF IInv, TypeOK, Commit, Tx, Head0
  <2>5. rows' = WithStatus(rows, s) \cup B
    BY <2>3, <2>4 DEF Commit, InFlight
  <2>6. \A b \in B : b.seq > t.head.seq /\ b.seq \in Nat
    BY <2>4, Block DEF Row
  <2>7. \A x \in rows : x.seq <= t.head.seq /\ x.seq \in Nat
    BY <1>1, <2>4 DEF FlushedOK, IInv, TypeOK, Row
  <2>8. t.head.seq \in Nat
    BY <2>4 DEF Head0
  <2>9. q \notin B
    BY <2>1, <2>6, <2>7, <2>8
  <2>10. PICK x \in rows :
           /\ x.seq = q.seq
           /\ \/ q.status = x.status
              \/ Dirty(s) /\ x.seq = t.envs[1].target /\ q.status = NewStatus(s)
    BY <1>1, <2>1, <2>5, <2>9, WithStatusFacts
  <2>11. x = r
    BY <1>1, <2>1, <2>10 DEF IInv, RecordedOnce, Conflict
  <2>12. /\ t.op = "review" /\ q.seq = t.envs[1].target
         /\ q.status = StatusOf(t.envs[1].kind)
    BY <2>1, <2>10, <2>11 DEF Dirty, NewStatus
  <2>13. 1 \in 1..Len(t.envs) /\ 1 \in DOMAIN t.envs /\ t.envs[1].kind \in ReviewKind
    BY <2>4, <2>12 DEF BatchOK
  <2>14. c.kind = t.envs[1].kind /\ c.target = t.envs[1].target
    BY <2>4, <2>13, BuiltRow
  <2>15. c \in B
    BY <2>13 DEF BuildRows
  <2>16. c \notin rows /\ c.seq > q.seq
    BY <2>1, <2>6, <2>7, <2>8, <2>15
  <2>17. QED
    BY <2>5, <2>12, <2>13, <2>14, <2>15, <2>16
<1>2. QED
  BY <1>1, Invariance, PTL DEF Spec, StatusChangeLogged
-----------------------------------------------------------------------------
(* The stream implements AppendOnlyRecord *)

\* The rows of R are numbered 1 to n.
Numbered(R, n) ==
  /\ R \subseteq Row
  /\ \A r, q \in R : r.seq = q.seq => r = q
  /\ \A k \in 1..n : \E r \in R : r.seq = k
  /\ \A r \in R : r.seq \in 1..n

\* What the record shows of a row, and the row of R with a number.
Shown(r) == [kind |-> r.kind, target |-> r.target, body |-> r.body, key |-> r.key]
Numbering(R, k) == CHOOSE r \in R : r.seq = k
LogOf(R, n) == [i \in 1..n |-> Shown(Numbering(R, i))]
StatusesOf(R, n) == [i \in 1..n |-> Numbering(R, i).status]

ShownValue == [kind: EventKind, target: Nat, body: Body, key: Key \cup {NoKey}]

\* A row is found under its number.
LEMMA RowIsFound ==
  ASSUME NEW R, NEW n \in Nat, Numbered(R, n), NEW r \in R
  PROVE  r.seq \in 1..n /\ Numbering(R, r.seq) = r
<1>1. PICK q \in R : q = Numbering(R, r.seq) /\ q.seq = r.seq
  BY DEF Numbering
<1>2. QED
  BY <1>1 DEF Numbered

\* There is a row under each number.
LEMMA NumberIsTaken ==
  ASSUME NEW R, NEW n \in Nat, Numbered(R, n), NEW k \in 1..n
  PROVE  Numbering(R, k) \in R /\ Numbering(R, k).seq = k
BY DEF Numbered, Numbering

\* So there are n of them.
LEMMA NumberedCount ==
  ASSUME NEW R, NEW n \in Nat, Numbered(R, n)
  PROVE  Cardinality(R) = n
<1> DEFINE f == [k \in 1..n |-> Numbering(R, k)]
<1>1. f \in [1..n -> R]
  BY NumberIsTaken
<1>2. \A k, l \in 1..n : f[k] = f[l] => k = l
  BY NumberIsTaken
<1>3. \A r \in R : \E k \in 1..n : f[k] = r
  BY RowIsFound
<1> HIDE DEF f
<1>4. f \in Bijection(1..n, R)
  BY <1>1, <1>2, <1>3 DEF Bijection, Injection, Surjection, IsInjective
<1>5. ExistsBijection(1..n, R)
  BY <1>4 DEF ExistsBijection
<1>6. QED
  BY <1>5, FS_CountingElements

\* The log the record shows has one entry for each number.
LEMMA LogIsLong ==
  ASSUME NEW R, NEW n \in Nat, Numbered(R, n)
  PROVE  /\ LogOf(R, n) \in Seq(ShownValue) /\ Len(LogOf(R, n)) = n
         /\ StatusesOf(R, n) \in Seq(Status) /\ Len(StatusesOf(R, n)) = n
         /\ \A r \in R : /\ LogOf(R, n)[r.seq] = Shown(r)
                         /\ StatusesOf(R, n)[r.seq] = r.status
<1>1. ASSUME NEW k \in 1..n
      PROVE  Shown(Numbering(R, k)) \in ShownValue /\ Numbering(R, k).status \in Status
  <2>1. Numbering(R, k) \in Row
    BY NumberIsTaken DEF Numbered
  <2>2. QED
    BY <2>1 DEF Shown, ShownValue, Row
<1>2. LogOf(R, n) \in [1..n -> ShownValue] /\ StatusesOf(R, n) \in [1..n -> Status]
  BY <1>1 DEF LogOf, StatusesOf
<1>3. /\ LogOf(R, n) \in Seq(ShownValue) /\ Len(LogOf(R, n)) = n
      /\ StatusesOf(R, n) \in Seq(Status) /\ Len(StatusesOf(R, n)) = n
  BY <1>2
<1>4. \A r \in R : /\ LogOf(R, n)[r.seq] = Shown(r)
                   /\ StatusesOf(R, n)[r.seq] = r.status
  BY RowIsFound DEF LogOf, StatusesOf
<1>5. QED
  BY <1>3, <1>4

\* The committed rows are numbered without a gap up to some n.
Dense == \E n \in Nat : Numbered(rows, n)

LEMMA DenseInit == Init => Dense
<1> SUFFICES ASSUME Init PROVE Dense
  OBVIOUS
<1>1. Numbered(rows, 0)
  BY DEF Init, Numbered
<1>2. QED
  BY <1>1 DEF Dense

\* A commit numbers its rows on from the last one.
LEMMA CommitNumbers ==
  ASSUME IInv, NEW s \in Session, Commit(s), NEW n \in Nat, Numbered(rows, n)
  PROVE  /\ tx[s] \in Tx /\ tx[s].head.seq = n /\ Len(tx[s].envs) \in Nat \ {0}
         /\ rows' = WithStatus(rows, s) \cup BuildRows(tx[s].head, tx[s].envs)
         /\ Numbered(rows', n + Len(tx[s].envs))
<1> DEFINE t == tx[s]
           m == Len(t.envs)
           W == WithStatus(rows, s)
           B == BuildRows(t.head, t.envs)
<1>1. t \in Tx /\ t.pc = "commit" /\ HeadOK(t) /\ FlushedOK(t) /\ BatchOK(t)
  BY DEF IInv, TypeOK, Commit
<1>2. rows' = W \cup B
  BY <1>1 DEF Commit, InFlight
<1>3. t.head \in Head0 /\ t.envs \in Seq(Envelope) /\ m \in Nat /\ m # 0
  BY <1>1 DEF Tx, Head0, BatchOK
<1>4. t.head.seq = n
  <2>1. t.head.seq \in 0..n
    BY <1>1 DEF HeadOK, StreamStart, Numbered
  <2>2. n # 0 => n <= t.head.seq
    <3>1. ASSUME n # 0 PROVE \E r \in rows : r.seq = n
      BY <3>1 DEF Numbered
    <3>2. QED
      BY <1>1, <3>1 DEF FlushedOK
  <2>3. QED
    BY <2>1, <2>2
<1>5. IInv'
  BY CommitKeeps
<1>6. \A q \in W : q.seq \in 1..n
  BY WithStatusFacts DEF Numbered
<1>7. \A k \in 1..n : \E q \in W : q.seq = k
  BY WithStatusFacts DEF Numbered
<1>8. \A i \in 1..m : BuildRow(t.head, t.envs, i) \in B /\ BuildRow(t.head, t.envs, i).seq = n + i
  BY <1>3, <1>4, BuiltRow DEF BuildRows
<1>9. \A b \in B : \E i \in 1..m : b = BuildRow(t.head, t.envs, i)
  BY <1>3 DEF BuildRows
<1>10. \A q \in rows' : q.seq \in 1..(n + m)
  BY <1>2, <1>3, <1>6, <1>8, <1>9
<1>11. \A k \in 1..(n + m) : \E q \in rows' : q.seq = k
  <2>1. SUFFICES ASSUME NEW k \in 1..(n + m)
                 PROVE  \E q \in rows' : q.seq = k
    OBVIOUS
  <2>2. CASE k <= n
    BY <1>2, <1>7, <2>2
  <2>3. CASE k > n
    <3>1. k - n \in 1..m /\ n + (k - n) = k
      BY <1>3, <2>3
    <3>2. QED
      BY <1>2, <1>8, <3>1
  <2>4. QED
    BY <2>2, <2>3
<1>12. rows' \subseteq Row /\ \A r, q \in rows' : r.seq = q.seq => r = q
  BY <1>5 DEF IInv, TypeOK, RecordedOnce, Conflict
<1>13. QED
  BY <1>1, <1>2, <1>3, <1>4, <1>10, <1>11, <1>12 DEF Numbered

LEMMA DenseStep == IInv /\ Dense /\ [Next]_vars => Dense'
<1> SUFFICES ASSUME IInv, Dense, [Next]_vars PROVE Dense'
  OBVIOUS
<1>1. CASE rows' = rows
  BY <1>1 DEF Dense
<1>2. CASE rows' # rows
  <2>1. PICK s \in Session : Commit(s)
    BY <1>2, OnlyCommitWrites
  <2>2. PICK n \in Nat : Numbered(rows, n)
    BY DEF Dense
  <2>3. Numbered(rows', n + Len(tx[s].envs)) /\ n + Len(tx[s].envs) \in Nat
    BY <2>1, <2>2, CommitNumbers
  <2>4. QED
    BY <2>3 DEF Dense
<1>3. QED
  BY <1>1, <1>2

LEMMA DenseAlways == Spec => []Dense
  BY DenseInit, DenseStep, Invariance, PTL DEF Spec

\* What a commit makes of the log and of the cached statuses.
LEMMA CommitAppends ==
  ASSUME IInv, NEW s \in Session, Commit(s), NEW n \in Nat, Numbered(rows, n)
  PROVE  Record!AppendBlock
<1> DEFINE t == tx[s]
           m == Len(t.envs)
           B == BuildRows(t.head, t.envs)
<1>1. /\ t \in Tx /\ t.head.seq = n /\ m \in Nat \ {0}
      /\ rows' = WithStatus(rows, s) \cup B
      /\ Numbered(rows', n + m)
  BY CommitNumbers
<1>2. n + m \in Nat
  BY <1>1
<1>3. PICK L, L2, C, C2 : /\ L = LogOf(rows, n) /\ L2 = LogOf(rows', n + m)
                          /\ C = StatusesOf(rows, n) /\ C2 = StatusesOf(rows', n + m)
  OBVIOUS
<1>4. Log = L /\ CachedStatus = C
  BY <1>3, NumberedCount
     DEF Log, CachedStatus, RowAt, LogOf, StatusesOf, Numbering, Shown
<1>5. Log' = L2 /\ CachedStatus' = C2
  BY <1>1, <1>2, <1>3, NumberedCount
     DEF Log, CachedStatus, RowAt, LogOf, StatusesOf, Numbering, Shown
<1>6. /\ L \in Seq(ShownValue) /\ Len(L) = n /\ Len(C) = n /\ C \in Seq(Status)
      /\ \A r \in rows : L[r.seq] = Shown(r) /\ C[r.seq] = r.status
  BY <1>3, LogIsLong
<1>7. /\ L2 \in Seq(ShownValue) /\ Len(L2) = n + m /\ Len(C2) = n + m /\ C2 \in Seq(Status)
      /\ \A r \in rows' : L2[r.seq] = Shown(r) /\ C2[r.seq] = r.status
  <2>1. PICK R, N : R = rows' /\ N = n + m /\ N \in Nat
    BY <1>2
  <2>2. Numbered(R, N) /\ L2 = LogOf(R, N) /\ C2 = StatusesOf(R, N)
    BY <1>1, <1>3, <2>1
  <2>3. /\ LogOf(R, N) \in Seq(ShownValue) /\ Len(LogOf(R, N)) = N
        /\ StatusesOf(R, N) \in Seq(Status) /\ Len(StatusesOf(R, N)) = N
        /\ \A r \in R : /\ LogOf(R, N)[r.seq] = Shown(r)
                        /\ StatusesOf(R, N)[r.seq] = r.status
    BY <2>1, <2>2, LogIsLong
  <2>4. QED
    BY <2>1, <2>2, <2>3
<1>8. ASSUME NEW i \in 1..n
      PROVE  \E r \in rows, q \in rows' :
               /\ r.seq = i /\ q.seq = i
               /\ r.kind = q.kind /\ r.target = q.target /\ r.body = q.body /\ r.key = q.key
               /\ \/ q.status = r.status
                  \/ Dirty(s) /\ i = t.envs[1].target /\ q.status = NewStatus(s)
  <2>1. PICK r \in rows : r.seq = i
    BY DEF Numbered
  <2>2. PICK q \in WithStatus(rows, s) : q.seq = i
    BY <2>1, WithStatusFacts
  <2>3. PICK x \in rows :
          /\ x.seq = q.seq /\ x.kind = q.kind /\ x.target = q.target
          /\ x.body = q.body /\ x.key = q.key
          /\ \/ q.status = x.status
             \/ Dirty(s) /\ x.seq = t.envs[1].target /\ q.status = NewStatus(s)
    BY WithStatusFacts
  <2>4. QED
    BY <1>1, <2>2, <2>3
<1>9. \A i \in 1..n : L2[i] = L[i]
  <2>1. SUFFICES ASSUME NEW i \in 1..n PROVE L2[i] = L[i]
    OBVIOUS
  <2>2. PICK r \in rows, q \in rows' :
          /\ r.seq = i /\ q.seq = i
          /\ r.kind = q.kind /\ r.target = q.target /\ r.body = q.body /\ r.key = q.key
    BY <1>8
  <2>3. Shown(q) = Shown(r)
    BY <2>2 DEF Shown
  <2>4. QED
    BY <1>6, <1>7, <2>2, <2>3
<1>10. SubSeq(L2, 1, n) = L
  <2>1. n \in 0..Len(L2) /\ n \in Nat
    BY <1>1, <1>7
  <2>2. SubSeq(L2, 1, n) = [i \in 1..n |-> L2[i]]
    BY <1>7, <2>1
  <2>3. L = [i \in 1..n |-> L[i]]
    BY <1>6
  <2>4. QED
    BY <1>9, <2>2, <2>3
<1>11. ASSUME NEW i \in (n + 1)..(n + m)
       PROVE  \E j \in 1..m : /\ BuildRow(t.head, t.envs, j) \in rows'
                              /\ BuildRow(t.head, t.envs, j).seq = i
                              /\ L2[i].kind = t.envs[j].kind /\ L2[i].target = t.envs[j].target
  <2>1. i - n \in 1..m
    BY <1>1
  <2> DEFINE b == BuildRow(t.head, t.envs, i - n)
  <2>2. t.head \in Head0 /\ t.envs \in Seq(Envelope)
    BY <1>1 DEF Tx, Head0
  <2>3. b \in B
    BY <2>1, <2>2 DEF BuildRows
  <2>4. /\ b.seq = n + (i - n) /\ b.kind = t.envs[i - n].kind
        /\ b.target = t.envs[i - n].target
    BY <1>1, <2>1, <2>2, BuiltRow
  <2>5. b.seq = i
    BY <2>4
  <2> HIDE DEF b
  <2>6. L2[i] = Shown(b)
    BY <1>1, <1>7, <2>3, <2>5
  <2>7. L2[i].kind = t.envs[i - n].kind /\ L2[i].target = t.envs[i - n].target
    BY <2>4, <2>6 DEF Shown
  <2>8. QED
    BY <1>1, <2>1, <2>3, <2>5, <2>7 DEF b
<1>12. BatchOK(t) /\ t.pc = "commit"
  BY DEF IInv, Commit
<1>13. ASSUME NEW i \in (n + 1)..(n + m), NEW j \in 1..(n + m), i # j, L2[i].key # NoKey
       PROVE  L2[i].key # L2[j].key
  <2>1. PICK r \in rows', q \in rows' : r.seq = i /\ q.seq = j
    BY <1>1, <1>2 DEF Numbered
  <2>2. L2[i] = Shown(r) /\ L2[j] = Shown(q)
    BY <1>7, <2>1
  <2>3. L2[i].key = r.key /\ L2[j].key = q.key
    BY <2>2 DEF Shown
  <2>4. RecordedOnce'
    BY CommitKeeps DEF IInv
  <2>5. QED
    BY <1>13, <2>1, <2>3, <2>4 DEF RecordedOnce, Conflict
<1>14. ASSUME NEW i \in (n + 1)..(n + m), L2[i].kind \in ReviewKind
       PROVE  L2[i].target \in 1..n
  <2>1. PICK j \in 1..m : L2[i].kind = t.envs[j].kind /\ L2[i].target = t.envs[j].target
    BY <1>11
  <2>2. j \in DOMAIN t.envs
    BY <1>1, <2>1 DEF Tx
  <2>3. t.op = "review"
    BY <1>12, <1>14, <2>1, <2>2 DEF BatchOK
  <2>4. m = 1 /\ \E e \in rows : e.seq = t.envs[1].target
    BY <1>12, <2>3 DEF BatchOK
  <2>5. j = 1
    BY <2>1, <2>4
  <2>6. QED
    BY <2>1, <2>4, <2>5 DEF Numbered
<1>15. ASSUME NEW i \in 1..n, C2[i] # C[i]
       PROVE  \E j \in (n + 1)..(n + m) :
                /\ L2[j].kind \in ReviewKind /\ L2[j].target = i
                /\ C2[i] = StatusOf(L2[j].kind)
  <2>1. PICK r \in rows, q \in rows' :
          /\ r.seq = i /\ q.seq = i
          /\ \/ q.status = r.status
             \/ Dirty(s) /\ i = t.envs[1].target /\ q.status = NewStatus(s)
    BY <1>8
  <2>2. C[i] = r.status /\ C2[i] = q.status
    BY <1>6, <1>7, <2>1
  <2>3. /\ t.op = "review" /\ i = t.envs[1].target /\ C2[i] = StatusOf(t.envs[1].kind)
    BY <1>15, <2>1, <2>2 DEF Dirty, NewStatus
  <2>4. m = 1 /\ 1 \in DOMAIN t.envs
    BY <1>1, <1>12, <2>3 DEF BatchOK, Tx
  <2>5. t.envs[1].kind \in ReviewKind
    BY <1>12, <2>3, <2>4 DEF BatchOK
  <2>6. n + 1 \in (n + 1)..(n + m)
    BY <1>1
  <2>7. PICK j \in 1..m : L2[n + 1].kind = t.envs[j].kind /\ L2[n + 1].target = t.envs[j].target
    BY <1>11, <2>6
  <2>8. j = 1
    BY <2>4, <2>7
  <2>9. QED
    BY <2>3, <2>5, <2>6, <2>7, <2>8
<1>16. Record!Grows
  <2>1. Len(L2) > Len(L) /\ SubSeq(L2, 1, Len(L)) = L
    BY <1>1, <1>6, <1>7, <1>10
  <2>2. QED
    BY <1>4, <1>5, <1>6, <1>7, <1>13, <1>14, <2>1 DEF Record!Grows, Record!New
<1>17. Record!StatusFollows
  <2>1. Len(C2) = Len(L2) /\ Len(L) = n /\ Len(L2) = n + m
    BY <1>6, <1>7
  <2>2. \A i \in 1..Len(L) :
          C2[i] # C[i] =>
            \E j \in (Len(L) + 1)..Len(L2) : /\ L2[j].kind \in ReviewKind
                                            /\ L2[j].target = i
                                            /\ C2[i] = StatusOf(L2[j].kind)
    BY <1>15, <2>1
  <2>3. QED
    BY <1>4, <1>5, <2>1, <2>2 DEF Record!StatusFollows, Record!New
<1>18. QED
  BY <1>16, <1>17 DEF Record!AppendBlock

\* From outside, sessions that race through their statements take single steps
\* which append to the record: the stream implements AppendOnlyRecord.
THEOREM StreamImplementsRecord == Spec => ImplementsRecord
<1>1. Init => Record!Init
  <2>1. SUFFICES ASSUME Init PROVE Record!Init
    OBVIOUS
  <2>2. Cardinality(rows) = 0
    BY <2>1, FS_EmptySet DEF Init
  <2>3. Log = <<>> /\ CachedStatus = <<>>
    BY <2>2 DEF Log, CachedStatus
  <2>4. QED
    BY <2>3 DEF Record!Init
<1>2. IInv /\ Dense /\ [Next]_vars => [Record!AppendBlock]_(Record!vars)
  <2>1. SUFFICES ASSUME IInv, Dense, [Next]_vars
                 PROVE  [Record!AppendBlock]_(Record!vars)
    OBVIOUS
  <2>2. CASE rows' = rows
    <3>1. Log' = Log /\ CachedStatus' = CachedStatus
      BY <2>2 DEF Log, CachedStatus, RowAt
    <3>2. QED
      BY <3>1 DEF Record!vars
  <2>3. CASE rows' # rows
    <3>1. PICK s \in Session : Commit(s)
      BY <2>1, <2>3, OnlyCommitWrites
    <3>2. PICK n \in Nat : Numbered(rows, n)
      BY <2>1 DEF Dense
    <3>3. QED
      BY <2>1, <3>1, <3>2, CommitAppends
  <2>4. QED
    BY <2>2, <2>3
<1>3. QED
  BY <1>1, <1>2, Invariance, DenseAlways, PTL DEF Spec, ImplementsRecord, Record!Spec

-----------------------------------------------------------------------------
(* With regenerates: the steps of one session *)

\* Everything of the invariant but what holds without an overlap.
Base == RegenTypeOK /\ NoTwinRows /\ OneDeletes /\ InsertedApart /\ DeletedStay

Rows(t) == IF t.pc \in {"update", "commit"} THEN BuildRows(t.head, t.envs) ELSE {}
WillUpdate(t) == t.op = "review" /\ t.envs[1].from # StatusOf(t.envs[1].kind)

LEMMA OfTx ==
  ASSUME NEW s \in Session
  PROVE  /\ InFlight(s) = Rows(tx[s]) /\ InFlight(s)' = Rows(tx'[s])
         /\ Dirty(s) <=> WillUpdate(tx[s])
         /\ Dirty(s)' <=> WillUpdate(tx'[s])
BY DEF InFlight, Rows, Dirty, WillUpdate, LoadedStatus, NewStatus

LEMMA CollidesEitherWay ==
  ASSUME NEW R, NEW Q
  PROVE  Collides(R, Q) <=> Collides(Q, R)
BY DEF Collides, Conflict

\* What session s may turn its transaction and its deletes into.
MayBecome(s, t, W) ==
  /\ t \in Tx /\ W \subseteq rows
  /\ KeysDiffer(t)
  /\ ~Collides(Rows(t), rows \ W)
  /\ \A u \in Session \ {s} : ~Collides(Rows(t), InFlight(u))
  /\ W # {} => /\ t.op = "append"
               /\ \A u \in Session \ {s} : wiped[u] = {}
  /\ t.pc = "commit" /\ WillUpdate(t) =>
       \A u \in Session \ {s} : \A r \in wiped[u] : r.seq # t.envs[1].target
  /\ \A u \in Session \ {s} :
       tx[u].pc = "commit" /\ Dirty(u) => \A r \in W : r.seq # tx[u].envs[1].target

\* Such a step changes no row and keeps the base.
LEMMA OneSessionKeeps ==
  ASSUME Base, NEW s \in Session, NEW t, NEW W, MayBecome(s, t, W),
         UNCHANGED rows, tx' = [tx EXCEPT ![s] = t], wiped' = [wiped EXCEPT ![s] = W],
         stale' \subseteq Session, mixed' \in BOOLEAN
  PROVE  Base'
<1>1. tx \in [Session -> Tx] /\ wiped \in [Session -> SUBSET rows]
  BY DEF Base, RegenTypeOK
<1>2. /\ tx'[s] = t /\ wiped'[s] = W
      /\ \A u \in Session \ {s} : tx'[u] = tx[u] /\ wiped'[u] = wiped[u]
  BY <1>1
<1>3. RegenTypeOK'
  BY <1>1 DEF Base, RegenTypeOK, MayBecome
<1>4. NoTwinRows'
  BY DEF Base, NoTwinRows
<1>5. OneDeletes'
  BY <1>2 DEF Base, OneDeletes, MayBecome
<1>6. \A u \in Session : InFlight(u) = Rows(tx[u]) /\ InFlight(u)' = Rows(tx'[u])
  BY OfTx
<1>7. ASSUME NEW u \in Session
      PROVE  KeysDiffer(tx'[u]) /\ ~Collides(Rows(tx'[u]), rows \ wiped'[u])
  <2>1. CASE u = s
    BY <1>2, <2>1 DEF MayBecome
  <2>2. CASE u # s
    BY <1>2, <1>6, <2>2 DEF Base, InsertedApart, Visible
  <2>3. QED
    BY <2>1, <2>2
<1>8. ASSUME NEW u \in Session, NEW v \in Session, u # v
      PROVE  ~Collides(Rows(tx'[u]), Rows(tx'[v]))
  <2>1. CASE u = s
    BY <1>2, <1>6, <1>8, <2>1 DEF MayBecome
  <2>2. CASE v = s
    BY <1>2, <1>6, <1>8, <2>2, CollidesEitherWay DEF MayBecome
  <2>3. CASE u # s /\ v # s
    BY <1>2, <1>6, <1>8, <2>3 DEF Base, InsertedApart
  <2>4. QED
    BY <2>1, <2>2, <2>3
<1>9. InsertedApart'
  BY <1>6, <1>7, <1>8 DEF InsertedApart, Visible
<1>10. DeletedStay'
  <2>1. SUFFICES ASSUME NEW u \in Session, NEW v \in Session, u # v,
                        tx'[u].pc = "commit", WillUpdate(tx'[u]), NEW r \in wiped'[v]
                 PROVE  r.seq # tx'[u].envs[1].target
    BY OfTx DEF DeletedStay
  <2>2. CASE u = s
    BY <1>2, <2>1, <2>2 DEF MayBecome
  <2>3. CASE v = s
    BY <1>2, <2>1, <2>3, OfTx DEF MayBecome
  <2>4. CASE u # s /\ v # s
    BY <1>2, <2>1, <2>4, OfTx DEF Base, DeletedStay
  <2>5. QED
    BY <2>2, <2>3, <2>4
<1>11. QED
  BY <1>3, <1>4, <1>5, <1>9, <1>10 DEF Base

\* The same if the deletes stay as they are.
LEMMA OneTxKeeps ==
  ASSUME Base, NEW s \in Session, NEW t, MayBecome(s, t, wiped[s]),
         UNCHANGED <<rows, wiped, stale>>, tx' = [tx EXCEPT ![s] = t], mixed' \in BOOLEAN
  PROVE  Base'
<1>1. wiped' = [wiped EXCEPT ![s] = wiped[s]] /\ stale' \subseteq Session
  BY DEF Base, RegenTypeOK
<1>2. QED
  BY <1>1, OneSessionKeeps

\* A transaction with nothing inserted and no more keys than before: what is
\* left to show of MayBecome.
LEMMA NothingInserted ==
  ASSUME Base, NEW s \in Session, NEW t \in Tx,
         t.pc \notin {"update", "commit"}, KeysDiffer(t),
         wiped[s] # {} => t.op = "append"
  PROVE  MayBecome(s, t, wiped[s])
<1>1. Rows(t) = {} /\ \A R : ~Collides({}, R)
  BY DEF Rows, Collides
<1>2. /\ wiped[s] \subseteq rows
      /\ wiped[s] # {} => \A u \in Session \ {s} : wiped[u] = {}
  BY DEF Base, RegenTypeOK, OneDeletes
<1>3. \A u \in Session \ {s} : tx[u].pc = "commit" /\ Dirty(u) =>
        \A r \in wiped[s] : r.seq # tx[u].envs[1].target
  BY DEF Base, DeletedStay
<1>4. QED
  BY <1>1, <1>2, <1>3 DEF MayBecome

-----------------------------------------------------------------------------
(* With regenerates: the base *)

LEMMA RegenerateBase ==
  ASSUME Base, NEW s \in Session, RegenerateRequest(s), mixed' \in BOOLEAN
  PROVE  /\ Base' /\ tx[s] = NoTx /\ \A u \in Session : wiped[u] = {}
         /\ \E t \in Tx : /\ tx' = [tx EXCEPT ![s] = t] /\ t.pc = "head"
                          /\ t.op = "append" /\ t.head = StreamStart /\ BatchOK(t)
<1>1. PICK b \in Body, n \in 1..MaxBatch :
        tx' = [tx EXCEPT ![s].pc = "head", ![s].op = "append",
                         ![s].envs = [i \in 1..n |-> Fact("demo", b, NoKey, "confirmed")]]
  BY DEF RegenerateRequest
<1>2. PICK batch : batch = [i \in 1..n |-> Fact("demo", b, NoKey, "confirmed")]
  OBVIOUS
<1>3. tx[s] = NoTx /\ tx \in [Session -> Tx]
  BY DEF RegenerateRequest, Base, RegenTypeOK
<1>4. PICK t : t = [tx[s] EXCEPT !.pc = "head", !.op = "append", !.envs = batch]
  OBVIOUS
<1>5. /\ t \in Tx /\ t.pc = "head" /\ t.op = "append" /\ t.head = StreamStart
      /\ t.envs = batch
  <2>1. tx[s] \in Tx /\ tx[s].head = StreamStart
    BY <1>3 DEF NoTx
  <2>2. batch \in Seq(Envelope)
    BY <1>2, DemoBatch
  <2>3. QED
    BY <1>4, <2>1, <2>2 DEF Tx, Pc, Op
<1>6. BatchOK(t)
  BY <1>2, <1>5, DemoBatch DEF BatchOK
<1>7. tx' = [tx EXCEPT ![s] = t]
  <2>1. tx' = [tx EXCEPT ![s].pc = "head", ![s].op = "append", ![s].envs = batch]
    BY <1>1, <1>2
  <2>2. /\ tx' \in [Session -> Tx \cup {tx'[s]}]
        /\ \A u \in Session \ {s} : tx'[u] = tx[u]
    BY <1>3, <2>1
  <2>3. tx'[s] = t
    BY <1>3, <1>4, <2>1
  <2>4. QED
    BY <1>3, <2>2, <2>3
<1>8. \A u \in Session : wiped[u] = {}
  <2>1. \A u \in Session \ {s} : wiped[u] = {}
    BY DEF RegenerateRequest, HeldByOthers
  <2>2. tx[s].op # "append"
    BY <1>3 DEF NoTx
  <2>3. QED
    BY <2>1, <2>2 DEF Base, OneDeletes
<1>9. MayBecome(s, t, rows)
  <2>1. Rows(t) = {} /\ \A R : ~Collides({}, R)
    BY <1>5 DEF Rows, Collides
  <2>2. KeysDiffer(t)
    BY <1>5, <1>6 DEF BatchOK, KeysDiffer
  <2>3. \A u \in Session \ {s} : ~(tx[u].pc = "commit" /\ Dirty(u))
    BY DEF RegenerateRequest
  <2>4. QED
    BY <1>5, <1>8, <2>1, <2>2, <2>3 DEF MayBecome
<1>10. Base'
  BY <1>7, <1>9, OneSessionKeeps DEF RegenerateRequest, Base, RegenTypeOK
<1>11. QED
  BY <1>3, <1>5, <1>6, <1>7, <1>8, <1>10

LEMMA OtherBegins ==
  ASSUME Base, NEW s \in Session, OtherRequest(s)
  PROVE  Begins(s) /\ UNCHANGED <<wiped, stale>>
BY RequestBegins DEF OtherRequest, Request, Base, RegenTypeOK

LEMMA OtherBase ==
  ASSUME Base, NEW s \in Session, OtherRequest(s), mixed' \in BOOLEAN
  PROVE  Base' /\ tx'[s] # NoTx
<1>1. tx[s] = NoTx /\ UNCHANGED <<rows, wiped, stale>>
  BY OtherBegins, BegunTx
<1>2. PICK t \in Tx : /\ tx' = [tx EXCEPT ![s] = t]
                      /\ t.pc = "head" /\ t.head = StreamStart /\ BatchOK(t)
  BY OtherBegins, BegunTx
<1>3. KeysDiffer(t)
  BY <1>2 DEF BatchOK, KeysDiffer
<1>4. wiped[s] = {}
  BY <1>1 DEF Base, OneDeletes, NoTx
<1>5. MayBecome(s, t, wiped[s])
  BY <1>2, <1>3, <1>4, NothingInserted
<1>6. Base'
  BY <1>1, <1>2, <1>5, OneTxKeeps
<1>7. tx'[s] # NoTx
  BY <1>2 DEF Base, RegenTypeOK, NoTx
<1>8. QED
  BY <1>6, <1>7

LEMMA ReadBase ==
  ASSUME Base, NEW s \in Session, ReadVisibleHead(s), mixed' \in BOOLEAN
  PROVE  /\ Base' /\ tx[s].pc = "head"
         /\ \E t \in Tx : /\ tx' = [tx EXCEPT ![s] = t] /\ t.pc = "insert"
                          /\ t.op = tx[s].op /\ t.envs = tx[s].envs
                          /\ IsHead(t.head, Visible(s))
<1>1. PICK h \in {StreamStart} \cup {[seq |-> r.seq, hash |-> r.hash] : r \in rows} :
        /\ IsHead(h, Visible(s))
        /\ tx' = [tx EXCEPT ![s].pc = "insert", ![s].head = h]
  BY DEF ReadVisibleHead
<1>2. PICK t : t = [tx[s] EXCEPT !.pc = "insert", !.head = h]
  OBVIOUS
<1>3. h \in [seq: Nat, hash: HashValue]
  <2>1. StreamStart \in [seq: Nat, hash: HashValue]
    BY NoTxOK DEF NoTx, Tx
  <2>2. \A r \in rows : r.seq \in Nat /\ r.hash \in HashValue
    BY DEF Base, RegenTypeOK, Row
  <2>3. QED
    BY <2>1, <2>2
<1>4. tx \in [Session -> Tx] /\ tx[s] \in Tx /\ tx[s].pc = "head"
  BY DEF Base, RegenTypeOK, ReadVisibleHead
<1>5. t \in Tx /\ t.pc = "insert" /\ t.op = tx[s].op /\ t.envs = tx[s].envs /\ t.head = h
  BY <1>2, <1>3, <1>4 DEF Tx, Pc
<1>6. tx' = [tx EXCEPT ![s] = t]
  BY <1>1, <1>2, <1>4
<1>7. KeysDiffer(t) /\ (wiped[s] # {} => t.op = "append")
  BY <1>5 DEF Base, InsertedApart, KeysDiffer, OneDeletes
<1>8. Base'
  BY <1>5, <1>6, <1>7, NothingInserted, OneTxKeeps DEF ReadVisibleHead
<1>9. QED
  BY <1>1, <1>4, <1>5, <1>6, <1>8

LEMMA InsertBase ==
  ASSUME Base, NEW s \in Session, InsertVisible(s), mixed' \in BOOLEAN
  PROVE  /\ Base' /\ tx[s].pc = "insert"
         /\ \E t \in Tx : /\ tx' = [tx EXCEPT ![s] = t] /\ t.pc \in {"update", "commit"}
                          /\ t.op = tx[s].op /\ t.envs = tx[s].envs /\ t.head = tx[s].head
<1>1. PICK pc \in {"update", "commit"} :
        pc = IF tx[s].op = "review" THEN "update" ELSE "commit"
  OBVIOUS
<1>2. PICK t : t = [tx[s] EXCEPT !.pc = pc]
  OBVIOUS
<1>3. tx \in [Session -> Tx] /\ tx[s] \in Tx /\ tx[s].pc = "insert"
  BY DEF Base, RegenTypeOK, InsertVisible
<1>4. t \in Tx /\ t.pc = pc /\ t.op = tx[s].op /\ t.envs = tx[s].envs /\ t.head = tx[s].head
  BY <1>1, <1>2, <1>3 DEF Tx, Pc
<1>5. tx' = [tx EXCEPT ![s] = t]
  BY <1>1, <1>2 DEF InsertVisible
<1>6. MayBecome(s, t, wiped[s])
  <2>1. Rows(t) = BuildRows(tx[s].head, tx[s].envs)
    BY <1>1, <1>4 DEF Rows
  <2>2. /\ ~Collides(Rows(t), rows \ wiped[s])
        /\ \A u \in Session \ {s} : ~Collides(Rows(t), InFlight(u))
    BY <2>1 DEF InsertVisible, Visible
  <2>3. KeysDiffer(t) /\ (wiped[s] # {} => t.op = "append")
    BY <1>4 DEF Base, InsertedApart, KeysDiffer, OneDeletes
  <2>4. t.pc = "commit" => t.op # "review"
    BY <1>1, <1>4
  <2>5. /\ wiped[s] \subseteq rows
        /\ wiped[s] # {} => \A u \in Session \ {s} : wiped[u] = {}
    BY DEF Base, RegenTypeOK, OneDeletes
  <2>6. \A u \in Session \ {s} : tx[u].pc = "commit" /\ Dirty(u) =>
          \A r \in wiped[s] : r.seq # tx[u].envs[1].target
    BY DEF Base, DeletedStay
  <2>7. QED
    BY <1>4, <2>2, <2>3, <2>4, <2>5, <2>6 DEF MayBecome, WillUpdate
<1>7. Base'
  BY <1>5, <1>6, OneTxKeeps DEF InsertVisible
<1>8. QED
  BY <1>1, <1>3, <1>4, <1>5, <1>7

LEMMA UpdateBase ==
  ASSUME Base, NEW s \in Session, UpdateVisible(s), mixed' \in BOOLEAN
  PROVE  /\ Base' /\ tx[s].pc = "update"
         /\ \E t \in Tx : /\ tx' = [tx EXCEPT ![s] = t] /\ t.pc = "commit"
                          /\ t.op = tx[s].op /\ t.envs = tx[s].envs /\ t.head = tx[s].head
<1>1. PICK t : t = [tx[s] EXCEPT !.pc = "commit"]
  OBVIOUS
<1>2. tx \in [Session -> Tx] /\ tx[s] \in Tx /\ tx[s].pc = "update"
  BY DEF Base, RegenTypeOK, UpdateVisible, UpdateStatus
<1>3. /\ t \in Tx /\ t.pc = "commit" /\ t.op = tx[s].op /\ t.envs = tx[s].envs
      /\ t.head = tx[s].head
  BY <1>1, <1>2 DEF Tx, Pc
<1>4. tx' = [tx EXCEPT ![s] = t]
  BY <1>1 DEF UpdateVisible, UpdateStatus
<1>5. MayBecome(s, t, wiped[s])
  <2>1. Rows(t) = InFlight(s)
    BY <1>2, <1>3 DEF Rows, InFlight
  <2>2. /\ KeysDiffer(t) /\ ~Collides(Rows(t), rows \ wiped[s])
        /\ \A u \in Session \ {s} : ~Collides(Rows(t), InFlight(u))
    BY <1>3, <2>1 DEF Base, InsertedApart, Visible, KeysDiffer
  <2>3. wiped[s] # {} => t.op = "append"
    BY <1>3 DEF Base, OneDeletes
  <2>4. ASSUME WillUpdate(t), NEW u \in Session \ {s}, NEW r \in wiped[u]
        PROVE  r.seq # t.envs[1].target
    <3>1. Dirty(s)
      BY <1>3, <2>4, OfTx DEF WillUpdate
    <3>2. r \in HeldByOthers(s)
      BY DEF HeldByOthers
    <3>3. QED
      BY <1>3, <3>1, <3>2 DEF UpdateVisible
  <2>5. /\ wiped[s] \subseteq rows
        /\ wiped[s] # {} => \A u \in Session \ {s} : wiped[u] = {}
    BY DEF Base, RegenTypeOK, OneDeletes
  <2>6. \A u \in Session \ {s} : tx[u].pc = "commit" /\ Dirty(u) =>
          \A r \in wiped[s] : r.seq # tx[u].envs[1].target
    BY DEF Base, DeletedStay
  <2>7. QED
    BY <1>3, <2>2, <2>3, <2>4, <2>5, <2>6 DEF MayBecome
<1>6. Base'
  BY <1>4, <1>5, OneTxKeeps DEF UpdateVisible, UpdateStatus
<1>7. QED
  BY <1>2, <1>3, <1>4, <1>6

LEMMA EndBase ==
  ASSUME Base, NEW s \in Session, End(s), mixed' \in BOOLEAN
  PROVE  Base'
<1>1. MayBecome(s, NoTx, {})
  <2>1. Rows(NoTx) = {} /\ \A R : ~Collides({}, R)
    BY DEF Rows, Collides, NoTx
  <2>2. KeysDiffer(NoTx) /\ NoTx.pc # "commit" /\ NoTx \in Tx
    BY NoTxOK DEF KeysDiffer, NoTx
  <2>3. QED
    BY <2>1, <2>2 DEF MayBecome
<1>2. QED
  BY <1>1, OneSessionKeeps DEF End, Base, RegenTypeOK

\* What the commit of s makes of a committed row.
Rewritten(s, r) == IF Dirty(s) /\ r.seq = tx[s].envs[1].target
                     THEN [r EXCEPT !.status = NewStatus(s)] ELSE r

LEMMA RewrittenFacts ==
  ASSUME NEW s \in Session, NEW r \in Row
  PROVE  /\ Rewritten(s, r) \in Row
         /\ Rewritten(s, r).seq = r.seq /\ Rewritten(s, r).key = r.key
         /\ ~Dirty(s) \/ r.seq # tx[s].envs[1].target => Rewritten(s, r) = r
<1>1. NewStatus(s) \in Status
  BY DEF NewStatus, StatusOf, Status
<1>2. CASE Dirty(s) /\ r.seq = tx[s].envs[1].target
  <2>1. PICK q : q = [r EXCEPT !.status = NewStatus(s)]
    OBVIOUS
  <2>2. q \in Row /\ q.seq = r.seq /\ q.key = r.key
    BY <1>1, <2>1 DEF Row
  <2>3. QED
    BY <1>2, <2>1, <2>2 DEF Rewritten
<1>3. CASE ~(Dirty(s) /\ r.seq = tx[s].envs[1].target)
  BY <1>3 DEF Rewritten
<1>4. QED
  BY <1>2, <1>3

\* A row one session has deleted is not rewritten by another.
LEMMA DeletedNotRewritten ==
  ASSUME Base, NEW s \in Session, tx[s].pc = "commit", NEW u \in Session, NEW r \in wiped[u]
  PROVE  r \in rows /\ r \in Row /\ Rewritten(s, r) = r
<1>1. r \in rows /\ r \in Row
  BY DEF Base, RegenTypeOK
<1>2. CASE u = s
  <2>1. ~Dirty(s)
    BY <1>2 DEF Base, OneDeletes, Dirty
  <2>2. QED
    BY <1>1, <2>1, RewrittenFacts
<1>3. CASE u # s
  <2>1. ~Dirty(s) \/ r.seq # tx[s].envs[1].target
    BY <1>3 DEF Base, DeletedStay
  <2>2. QED
    BY <1>1, <2>1, RewrittenFacts
<1>4. QED
  BY <1>2, <1>3

LEMMA CommitBase ==
  ASSUME Base, NEW s \in Session, CommitWipe(s), mixed' \in BOOLEAN
  PROVE  Base'
<1>1. PICK B : B = InFlight(s)
  OBVIOUS
<1>2. /\ tx \in [Session -> Tx] /\ rows \subseteq Row /\ wiped \in [Session -> SUBSET rows]
      /\ tx[s].pc = "commit"
  BY DEF Base, RegenTypeOK, CommitWipe
<1>3. rows' = ({Rewritten(s, r) : r \in rows} \ wiped[s]) \cup B
  BY <1>1 DEF CommitWipe, WithStatus, Rewritten
<1>4. /\ tx' = [tx EXCEPT ![s] = NoTx] /\ wiped' = [wiped EXCEPT ![s] = {}]
      /\ stale' \subseteq Session
  BY DEF CommitWipe, Base, RegenTypeOK
<1>5. /\ tx'[s] = NoTx /\ wiped'[s] = {}
      /\ \A u \in Session \ {s} : tx'[u] = tx[u] /\ wiped'[u] = wiped[u]
  BY <1>2, <1>4
<1>6. B \subseteq Row /\ \A b, c \in B : Conflict(b, c) => b = c
  <2>1. B = BuildRows(tx[s].head, tx[s].envs)
    BY <1>1, <1>2 DEF InFlight
  <2>2. QED
    BY <1>2, <2>1, BlockApart DEF Base, InsertedApart
<1>7. \A r \in rows : /\ Rewritten(s, r) \in Row
                      /\ Rewritten(s, r).seq = r.seq /\ Rewritten(s, r).key = r.key
  BY <1>2, RewrittenFacts
<1>8. ASSUME NEW r \in rows, NEW u \in Session, Rewritten(s, r) \notin wiped[u]
      PROVE  r \in Visible(u)
  BY <1>2, <1>8, DeletedNotRewritten DEF Visible
<1>9. RegenTypeOK'
  <2>1. rows' \subseteq Row
    BY <1>3, <1>6, <1>7
  <2>2. tx' \in [Session -> Tx]
    BY <1>2, <1>4, NoTxOK
  <2>3. ASSUME NEW u \in Session \ {s}, NEW r \in wiped[u]
        PROVE  r \in rows'
    <3>1. r \in rows /\ Rewritten(s, r) = r
      BY <1>2, DeletedNotRewritten
    <3>2. wiped[s] = {}
      BY DEF Base, OneDeletes
    <3>3. QED
      BY <1>3, <3>1, <3>2
  <2>4. \A u \in Session : wiped'[u] \subseteq rows'
    BY <1>5, <2>3
  <2>5. wiped' \in [Session -> SUBSET rows']
    BY <1>2, <1>4, <2>4
  <2>6. QED
    BY <1>4, <2>1, <2>2, <2>5 DEF RegenTypeOK
<1>10. NoTwinRows'
  <2>1. SUFFICES ASSUME NEW p \in rows', NEW q \in rows', Conflict(p, q)
                 PROVE  p = q
    BY DEF NoTwinRows
  <2>2. ASSUME NEW r \in rows, NEW b \in B, Rewritten(s, r) \notin wiped[s]
        PROVE  ~Conflict(Rewritten(s, r), b) /\ ~Conflict(b, Rewritten(s, r))
    <3>1. r \in Visible(s)
      BY <1>8, <2>2
    <3>2. ~Conflict(b, r)
      BY <1>1, <3>1 DEF Base, InsertedApart, Collides
    <3>3. QED
      BY <1>7, <3>2 DEF Conflict
  <2>3. CASE p \in B /\ q \in B
    BY <1>6, <2>1, <2>3
  <2>4. CASE p \notin B /\ q \notin B
    <3>1. PICK r \in rows : p = Rewritten(s, r)
      BY <1>3, <2>4
    <3>2. PICK v \in rows : q = Rewritten(s, v)
      BY <1>3, <2>4
    <3>3. Conflict(r, v)
      BY <1>7, <2>1, <3>1, <3>2 DEF Conflict
    <3>4. QED
      BY <3>1, <3>2, <3>3 DEF Base, NoTwinRows
  <2>5. CASE p \in B /\ q \notin B
    BY <1>3, <2>1, <2>2, <2>5
  <2>6. CASE p \notin B /\ q \in B
    BY <1>3, <2>1, <2>2, <2>6
  <2>7. QED
    BY <2>3, <2>4, <2>5, <2>6
<1>11. OneDeletes'
  BY <1>5 DEF Base, OneDeletes
<1>12. \A u \in Session : InFlight(u) = Rows(tx[u]) /\ InFlight(u)' = Rows(tx'[u])
  BY OfTx
<1>13. Rows(NoTx) = {} /\ KeysDiffer(NoTx) /\ NoTx.pc # "commit"
  BY DEF Rows, KeysDiffer, NoTx
<1>14. ASSUME NEW u \in Session \ {s}
       PROVE  ~Collides(Rows(tx[u]), rows' \ wiped[u])
  <2>1. SUFFICES ASSUME NEW b \in Rows(tx[u]), NEW q \in rows' \ wiped[u]
                 PROVE  ~Conflict(b, q)
    BY DEF Collides
  <2>2. CASE q \in B
    BY <1>1, <1>12, <2>2 DEF Base, InsertedApart, Collides
  <2>3. CASE q \notin B
    <3>1. PICK r \in rows : q = Rewritten(s, r)
      BY <1>3, <2>3
    <3>2. r \in Visible(u)
      BY <1>8, <3>1
    <3>3. ~Conflict(b, r)
      BY <1>12, <3>2 DEF Base, InsertedApart, Collides
    <3>4. QED
      BY <1>7, <3>1, <3>3 DEF Conflict
  <2>4. QED
    BY <2>2, <2>3
<1>15. InsertedApart'
  <2>1. \A R : ~Collides({}, R) /\ ~Collides(R, {})
    BY DEF Collides
  <2>2. ASSUME NEW u \in Session
        PROVE  KeysDiffer(tx'[u]) /\ ~Collides(Rows(tx'[u]), rows' \ wiped'[u])
    BY <1>5, <1>13, <1>14, <2>1 DEF Base, InsertedApart
  <2>3. ASSUME NEW u \in Session, NEW v \in Session, u # v
        PROVE  ~Collides(Rows(tx'[u]), Rows(tx'[v]))
    BY <1>5, <1>12, <1>13, <2>1, <2>3 DEF Base, InsertedApart
  <2>4. QED
    BY <1>12, <2>2, <2>3 DEF InsertedApart, Visible
<1>16. DeletedStay'
  <2>1. SUFFICES ASSUME NEW u \in Session, NEW v \in Session, u # v,
                        tx'[u].pc = "commit", WillUpdate(tx'[u]), NEW r \in wiped'[v]
                 PROVE  r.seq # tx'[u].envs[1].target
    BY OfTx DEF DeletedStay
  <2>2. u # s /\ v # s
    BY <1>5, <1>13, <2>1
  <2>3. QED
    BY <1>5, <2>1, <2>2, OfTx DEF Base, DeletedStay
<1>17. QED
  BY <1>9, <1>10, <1>11, <1>15, <1>16 DEF Base

-----------------------------------------------------------------------------
(* With regenerates: as long as none overlaps another transaction *)

NoDeletes == \A u \in Session : wiped[u] = {}

\* Nothing deleted: what the ledger guarantees is all there is to show.
LEMMA AloneIfNothingDeleted ==
  ASSUME IInv, NoDeletes
  PROVE  AloneOK
BY DEF NoDeletes, AloneOK, RowsOK, IInv

LEMMA RowsStay ==
  ASSUME RowsOK, UNCHANGED rows
  PROVE  RowsOK'
BY DEF RowsOK, RecordedOnce, GapFree, Linked, ReviewedLeavesInbox

\* A committed stream and no transaction left: the ledger's invariant holds.
LEMMA AllIdle ==
  ASSUME rows' \subseteq Row, RowsOK', tx' = [u \in Session |-> NoTx]
  PROVE  IInv'
<1>1. TypeOK'
  BY NoTxOK DEF TypeOK
<1>2. \A u \in Session : tx'[u] = NoTx /\ NoTx \in Tx /\ NoTx.pc = "idle"
  BY NoTxOK DEF NoTx
<1>3. (\A u \in Session : HeadOK(tx[u]) /\ FlushedOK(tx[u]) /\ BatchOK(tx[u]))'
  BY <1>2 DEF HeadOK, FlushedOK, BatchOK
<1>4. OneFlushed'
  BY <1>2 DEF OneFlushed, Flushed
<1>5. QED
  BY <1>1, <1>3, <1>4 DEF IInv, RowsOK

\* The session that deletes is the only one in a transaction.
LEMMA OnlyTheDeleter ==
  ASSUME Base, AloneOK, ~NoDeletes, NEW s \in Session, tx[s] # NoTx
  PROVE  /\ wiped[s] = rows /\ rows # {} /\ Visible(s) = {}
         /\ tx[s].head = StreamStart /\ BatchOK(tx[s]) /\ tx[s].op = "append"
         /\ \A u \in Session \ {s} : tx[u] = NoTx /\ wiped[u] = {}
<1>1. PICK w \in Session : wiped[w] # {}
  BY DEF NoDeletes
<1>2. w = s
  BY <1>1 DEF AloneOK
<1>3. QED
  BY <1>1, <1>2 DEF AloneOK, Base, OneDeletes, Visible

\* It goes on from the start of the stream.
LEMMA DeleterGoesOn ==
  ASSUME Base, AloneOK, ~NoDeletes, NEW s \in Session, tx[s].pc # "idle",
         NEW t \in Tx, tx' = [tx EXCEPT ![s] = t], UNCHANGED <<rows, wiped>>,
         t.op = tx[s].op, t.envs = tx[s].envs, t.head = StreamStart, t.pc # "idle"
  PROVE  AloneOK'
<1>1. /\ wiped[s] = rows /\ rows # {} /\ BatchOK(tx[s])
      /\ \A u \in Session \ {s} : tx[u] = NoTx /\ wiped[u] = {}
  BY OnlyTheDeleter DEF NoTx
<1>2. tx \in [Session -> Tx]
  BY DEF Base, RegenTypeOK
<1>3. BatchOK(t)'
  BY <1>1 DEF BatchOK
<1>4. QED
  BY <1>1, <1>2, <1>3, RowsStay DEF AloneOK

LEMMA RegenerateAlone ==
  ASSUME Base, AloneOK, NEW s \in Session, RegenerateRequest(s), mixed' \in BOOLEAN,
         ~Overlap'
  PROVE  AloneOK'
<1>1. NoDeletes /\ IInv
  BY RegenerateBase DEF NoDeletes, AloneOK
<1>2. PICK t \in Tx : /\ tx' = [tx EXCEPT ![s] = t] /\ t.pc = "head"
                      /\ t.op = "append" /\ t.head = StreamStart /\ BatchOK(t)
  BY RegenerateBase
<1>3. UNCHANGED rows /\ wiped' = [wiped EXCEPT ![s] = rows]
  BY DEF RegenerateRequest
<1>4. /\ wiped'[s] = rows /\ tx'[s] = t
      /\ \A u \in Session \ {s} : wiped'[u] = {} /\ tx'[u] = tx[u]
  BY <1>1, <1>2, <1>3 DEF NoDeletes, Base, RegenTypeOK
<1>5. CASE rows = {}
  <2>1. IInv'
    BY <1>1, <1>2, <1>3, LocalStep DEF HeadOK, FlushedOK
  <2>2. QED
    BY <1>4, <1>5, <2>1, <1>3 DEF AloneOK, RowsOK, IInv
<1>6. CASE rows # {}
  <2>1. \A u \in Session \ {s} : tx'[u] = NoTx
    BY <1>4, <1>6 DEF Overlap
  <2>2. RowsOK'
    BY <1>3, RowsStay DEF AloneOK
  <2>3. BatchOK(t)'
    BY <1>2, <1>3 DEF BatchOK
  <2>4. QED
    BY <1>2, <1>3, <1>4, <1>6, <2>1, <2>2, <2>3 DEF AloneOK
<1>7. QED
  BY <1>5, <1>6

LEMMA OtherAlone ==
  ASSUME Base, AloneOK, NEW s \in Session, OtherRequest(s), mixed' \in BOOLEAN, ~Overlap'
  PROVE  AloneOK'
<1>1. Begins(s) /\ UNCHANGED <<wiped, stale>>
  BY OtherBegins
<1>2. tx[s] = NoTx /\ tx'[s] # NoTx
  BY <1>1, BegunTx, OtherBase
<1>3. CASE NoDeletes
  <2>1. IInv'
    BY <1>1, <1>3, BeginKeeps DEF AloneOK, NoDeletes
  <2>2. NoDeletes'
    BY <1>1, <1>3 DEF NoDeletes
  <2>3. QED
    BY <2>1, <2>2 DEF AloneOK, RowsOK, IInv, NoDeletes
<1>4. CASE ~NoDeletes
  <2>1. PICK w \in Session : wiped[w] # {}
    BY <1>4 DEF NoDeletes
  <2>2. w # s
    BY <1>2, <2>1 DEF Base, OneDeletes, NoTx
  <2>3. wiped'[w] # {}
    BY <1>1, <2>1
  <2>4. QED
    BY <1>2, <2>2, <2>3 DEF Overlap
<1>5. QED
  BY <1>3, <1>4

LEMMA ReadAlone ==
  ASSUME Base, AloneOK, NEW s \in Session, ReadVisibleHead(s), mixed' \in BOOLEAN
  PROVE  AloneOK'
<1>1. UNCHANGED <<rows, wiped>>
  BY DEF ReadVisibleHead
<1>2. CASE NoDeletes
  <2>1. Visible(s) = rows
    BY <1>2 DEF Visible, NoDeletes
  <2>2. ReadHead(s)
    BY <2>1 DEF ReadVisibleHead, ReadHead
  <2>3. IInv'
    BY <1>2, <2>2, ReadHeadKeeps DEF AloneOK, NoDeletes
  <2>4. QED
    BY <1>1, <1>2, <2>3 DEF AloneOK, RowsOK, IInv, NoDeletes
<1>3. CASE ~NoDeletes
  <2>1. PICK t \in Tx : /\ tx' = [tx EXCEPT ![s] = t] /\ t.pc = "insert"
                        /\ t.op = tx[s].op /\ t.envs = tx[s].envs
                        /\ IsHead(t.head, Visible(s))
    BY ReadBase
  <2>2. tx[s].pc # "idle" /\ tx[s] # NoTx
    BY ReadBase DEF NoTx
  <2>3. t.head = StreamStart
    BY <1>3, <2>1, <2>2, OnlyTheDeleter DEF IsHead
  <2>4. QED
    BY <1>1, <1>3, <2>1, <2>2, <2>3, DeleterGoesOn
<1>4. QED
  BY <1>2, <1>3

LEMMA InsertAlone ==
  ASSUME Base, AloneOK, NEW s \in Session, InsertVisible(s), mixed' \in BOOLEAN
  PROVE  AloneOK'
<1>1. UNCHANGED <<rows, wiped>>
  BY DEF InsertVisible
<1>2. CASE NoDeletes
  <2>1. Visible(s) = rows
    BY <1>2 DEF Visible, NoDeletes
  <2>2. InsertRows(s)
    BY <2>1 DEF InsertVisible, InsertRows, InsertTo
  <2>3. IInv'
    BY <1>2, <2>2, InsertRowsKeeps DEF AloneOK, NoDeletes
  <2>4. QED
    BY <1>1, <1>2, <2>3 DEF AloneOK, RowsOK, IInv, NoDeletes
<1>3. CASE ~NoDeletes
  <2>1. PICK t \in Tx : /\ tx' = [tx EXCEPT ![s] = t] /\ t.pc \in {"update", "commit"}
                        /\ t.op = tx[s].op /\ t.envs = tx[s].envs /\ t.head = tx[s].head
    BY InsertBase
  <2>2. tx[s].pc # "idle" /\ tx[s] # NoTx
    BY InsertBase DEF NoTx
  <2>3. t.head = StreamStart
    BY <1>3, <2>1, <2>2, OnlyTheDeleter
  <2>4. QED
    BY <1>1, <1>3, <2>1, <2>2, <2>3, DeleterGoesOn
<1>4. QED
  BY <1>2, <1>3

LEMMA UpdateAlone ==
  ASSUME Base, AloneOK, NEW s \in Session, UpdateVisible(s), mixed' \in BOOLEAN
  PROVE  AloneOK'
<1>1. UNCHANGED <<rows, wiped>> /\ UpdateStatus(s)
  BY DEF UpdateVisible, UpdateStatus
<1>2. CASE NoDeletes
  <2>1. IInv'
    BY <1>1, <1>2, UpdateStatusKeeps DEF AloneOK, NoDeletes
  <2>2. QED
    BY <1>1, <1>2, <2>1 DEF AloneOK, RowsOK, IInv, NoDeletes
<1>3. CASE ~NoDeletes
  <2>1. PICK t \in Tx : /\ tx' = [tx EXCEPT ![s] = t] /\ t.pc = "commit"
                        /\ t.op = tx[s].op /\ t.envs = tx[s].envs /\ t.head = tx[s].head
    BY UpdateBase
  <2>2. tx[s].pc # "idle" /\ tx[s] # NoTx
    BY UpdateBase DEF NoTx
  <2>3. t.head = StreamStart
    BY <1>3, <2>1, <2>2, OnlyTheDeleter
  <2>4. QED
    BY <1>1, <1>3, <2>1, <2>2, <2>3, DeleterGoesOn
<1>4. QED
  BY <1>2, <1>3

LEMMA EndAlone ==
  ASSUME Base, AloneOK, NEW s \in Session, tx[s] # NoTx, End(s)
  PROVE  AloneOK'
<1>1. /\ UNCHANGED rows /\ tx' = [tx EXCEPT ![s] = NoTx]
      /\ wiped' = [wiped EXCEPT ![s] = {}]
  BY DEF End
<1>2. /\ tx \in [Session -> Tx] /\ wiped \in [Session -> SUBSET rows] /\ rows \subseteq Row
  BY DEF Base, RegenTypeOK
<1>3. CASE NoDeletes
  <2>1. IInv'
    BY <1>1, <1>3, EndKeeps DEF AloneOK, NoDeletes
  <2>2. QED
    BY <1>1, <1>2, <1>3, <2>1 DEF AloneOK, RowsOK, IInv, NoDeletes
<1>4. CASE ~NoDeletes
  <2>1. \A u \in Session \ {s} : tx[u] = NoTx /\ wiped[u] = {}
    BY <1>4, OnlyTheDeleter
  <2>2. tx' = [u \in Session |-> NoTx]
    BY <1>1, <1>2, <2>1
  <2>3. \A u \in Session : wiped'[u] = {}
    BY <1>1, <1>2, <2>1
  <2>4. RowsOK'
    BY <1>1, RowsStay DEF AloneOK
  <2>5. IInv'
    BY <1>1, <1>2, <2>2, <2>4, AllIdle
  <2>6. QED
    BY <2>3, <2>4, <2>5 DEF AloneOK
<1>5. QED
  BY <1>3, <1>4

\* The rows of the session that deleted everything are a stream from its start.
LEMMA CommitAlone ==
  ASSUME Base, AloneOK, NEW s \in Session, CommitWipe(s)
  PROVE  AloneOK'
<1>1. /\ tx \in [Session -> Tx] /\ wiped \in [Session -> SUBSET rows] /\ rows \subseteq Row
      /\ tx[s].pc = "commit" /\ tx[s] # NoTx
  BY DEF Base, RegenTypeOK, CommitWipe, NoTx
<1>2. /\ tx' = [tx EXCEPT ![s] = NoTx] /\ wiped' = [wiped EXCEPT ![s] = {}]
      /\ rows' = (WithStatus(rows, s) \ wiped[s]) \cup InFlight(s)
  BY DEF CommitWipe
<1>3. CASE NoDeletes
  <2>1. Commit(s)
    BY <1>1, <1>2, <1>3 DEF Commit, NoDeletes
  <2>2. IInv'
    BY <1>3, <2>1, CommitKeeps DEF AloneOK, NoDeletes
  <2>3. QED
    BY <1>1, <1>2, <1>3, <2>2 DEF AloneOK, RowsOK, IInv, NoDeletes
<1>4. CASE ~NoDeletes
  <2>1. /\ wiped[s] = rows /\ tx[s].head = StreamStart /\ BatchOK(tx[s])
        /\ tx[s].op = "append"
        /\ \A u \in Session \ {s} : tx[u] = NoTx /\ wiped[u] = {}
    BY <1>1, <1>4, OnlyTheDeleter
  <2>2. PICK B : B = BuildRows(tx[s].head, tx[s].envs)
    OBVIOUS
  <2>3. rows' = B
    <3>1. WithStatus(rows, s) = rows
      BY <2>1 DEF WithStatus, Dirty
    <3>2. InFlight(s) = B
      BY <1>1, <2>2 DEF InFlight
    <3>3. QED
      BY <1>2, <2>1, <3>1, <3>2
  <2>4. StreamStart.seq = 0 /\ StreamStart.hash = <<>>
    BY DEF StreamStart
  <2>5. /\ B \subseteq Row
        /\ \A b \in B : b.hash = EventHash(b.prev, b.seq, b)
        /\ \A b, c \in B : Conflict(b, c) => b = c
        /\ \A b \in B : \/ b.seq = 1 /\ b.prev = <<>>
                        \/ \E c \in B : b.seq = c.seq + 1 /\ b.prev = c.hash
        /\ \A b \in B : \A k \in 1..b.seq : \E c \in B : c.seq = k
        /\ \A b \in B : b.kind \notin ReviewKind
    BY <1>1, <2>1, <2>2, <2>4, Block
  <2>6. RowsOK'
    <3>1. \A b \in B : b.seq \in Nat
      BY <2>5 DEF Row
    <3>2. Linked'
      BY <2>3, <2>5, <3>1 DEF Linked
    <3>3. GapFree'
      BY <2>3, <2>5 DEF GapFree
    <3>4. RecordedOnce' /\ ReviewedLeavesInbox'
      BY <2>3, <2>5 DEF RecordedOnce, ReviewedLeavesInbox
    <3>5. QED
      BY <3>2, <3>3, <3>4 DEF RowsOK
  <2>7. tx' = [u \in Session |-> NoTx]
    BY <1>1, <1>2, <2>1
  <2>8. \A u \in Session : wiped'[u] = {}
    BY <1>1, <1>2, <2>1
  <2>9. IInv'
    BY <2>3, <2>5, <2>6, <2>7, AllIdle
  <2>10. QED
    BY <2>6, <2>8, <2>9 DEF AloneOK
<1>5. QED
  BY <1>3, <1>4

-----------------------------------------------------------------------------
(* With regenerates: the invariant, and what follows from it *)

LEMMA RegenInit == InitRegen => RegenIInv
<1> SUFFICES ASSUME InitRegen PROVE RegenIInv
  OBVIOUS
<1>1. IInv /\ NoDeletes /\ rows = {} /\ tx = [s \in Session |-> NoTx]
  BY InvariantInit DEF InitRegen, Init, NoDeletes
<1>2. RegenTypeOK
  BY <1>1 DEF InitRegen, RegenTypeOK, IInv, TypeOK
<1>3. NoTwinRows /\ OneDeletes
  BY <1>1 DEF NoTwinRows, OneDeletes, NoDeletes
<1>4. \A s \in Session : InFlight(s) = {} /\ KeysDiffer(tx[s]) /\ tx[s].pc = "idle"
  BY <1>1 DEF InFlight, KeysDiffer, NoTx
<1>5. InsertedApart /\ DeletedStay
  BY <1>4 DEF InsertedApart, DeletedStay, Collides
<1>6. QED
  BY <1>1, <1>2, <1>3, <1>5, AloneIfNothingDeleted DEF RegenIInv

\* Every step keeps the base,
LEMMA StepBase ==
  ASSUME Base, NextRegen
  PROVE  Base'
<1>1. mixed' \in BOOLEAN
  BY Zenon DEF NextRegen, Base, RegenTypeOK
<1>2. CASE QuietRegen
  BY <1>1, <1>2 DEF QuietRegen, Quiet, vars, Base, RegenTypeOK, NoTwinRows, OneDeletes,
       InsertedApart, DeletedStay, InFlight, Visible, Dirty, LoadedStatus, NewStatus
<1>3. ASSUME NEW s \in Session, UpdateFindsNoRow(s) \/ InsertVisibleConflict(s) \/ RollbackRegen(s)
      PROVE  Base'
  BY <1>1, <1>3, EndBase DEF UpdateFindsNoRow, InsertVisibleConflict, RollbackRegen
<1>4. QED
  BY <1>1, <1>2, <1>3, RegenerateBase, OtherBase, ReadBase, InsertBase, UpdateBase,
     CommitBase DEF NextRegen

\* and what holds without an overlap holds until the first overlap.
LEMMA StepAlone ==
  ASSUME Base, AloneOK, NextRegen, ~Overlap'
  PROVE  AloneOK'
<1>1. mixed' \in BOOLEAN
  BY Zenon DEF NextRegen, Base, RegenTypeOK
<1>2. CASE QuietRegen
  <2>1. UNCHANGED <<rows, tx, wiped>>
    BY <1>2 DEF QuietRegen, Quiet, vars
  <2>2. RowsOK'
    BY <2>1, RowsStay DEF AloneOK
  <2>3. IInv => IInv'
    BY <2>1 DEF IInv, TypeOK, RecordedOnce, GapFree, Linked, HeadOK, FlushedOK,
         BatchOK, OneFlushed, Flushed, ReviewedLeavesInbox
  <2>4. \A s \in Session : BatchOK(tx[s]) => BatchOK(tx[s])'
    BY <2>1 DEF BatchOK
  <2>5. QED
    BY <2>1, <2>2, <2>3, <2>4 DEF AloneOK
<1>3. ASSUME NEW s \in Session, UpdateFindsNoRow(s) \/ InsertVisibleConflict(s) \/ RollbackRegen(s)
      PROVE  AloneOK'
  BY <1>3, EndAlone DEF UpdateFindsNoRow, InsertVisibleConflict, RollbackRegen, NoTx
<1>4. QED
  BY <1>1, <1>2, <1>3, RegenerateAlone, OtherAlone, ReadAlone, InsertAlone, UpdateAlone,
     CommitAlone DEF NextRegen

\* Every step, overlap or not, keeps the invariant.
THEOREM RegenStep == RegenIInv /\ [NextRegen]_regenVars => RegenIInv'
<1> SUFFICES ASSUME RegenIInv, [NextRegen]_regenVars PROVE RegenIInv'
  OBVIOUS
<1>1. Base
  BY DEF RegenIInv, Base
<1>2. CASE UNCHANGED regenVars
  <2>1. Base'
    BY <1>1, <1>2 DEF regenVars, Base, RegenTypeOK, NoTwinRows, OneDeletes, InsertedApart,
         DeletedStay, InFlight, Visible, Dirty, LoadedStatus, NewStatus
  <2>2. AloneOK => AloneOK'
    <3>1. UNCHANGED <<rows, tx, wiped>>
      BY <1>2 DEF regenVars
    <3>2. RowsOK => RowsOK'
      BY <3>1, RowsStay
    <3>3. IInv => IInv'
      BY <3>1 DEF IInv, TypeOK, RecordedOnce, GapFree, Linked, HeadOK, FlushedOK,
           BatchOK, OneFlushed, Flushed, ReviewedLeavesInbox
    <3>4. \A s \in Session : BatchOK(tx[s]) => BatchOK(tx[s])'
      BY <3>1 DEF BatchOK
    <3>5. QED
      BY <3>1, <3>2, <3>3, <3>4 DEF AloneOK
  <2>3. mixed' = mixed
    BY <1>2 DEF regenVars
  <2>4. QED
    BY <2>1, <2>2, <2>3 DEF RegenIInv, Base
<1>3. CASE NextRegen
  <2>1. Base'
    BY <1>1, <1>3, StepBase
  <2>2. mixed' = FALSE => mixed = FALSE /\ ~Overlap'
    BY <1>1, <1>3, Zenon DEF NextRegen, Base, RegenTypeOK
  <2>3. mixed' = FALSE => AloneOK'
    BY <1>1, <1>3, <2>2, StepAlone DEF RegenIInv
  <2>4. QED
    BY <2>1, <2>3 DEF RegenIInv, Base
<1>4. QED
  BY <1>2, <1>3

\* The invariant holds always.
THEOREM RegenInvariance == SpecRegen => []RegenIInv
  BY RegenInit, RegenStep, PTL DEF SpecRegen

\* However regenerates, appends and reviews overlap, no two committed rows of a
\* stream share a seq or a client_event_id.
THEOREM TwinsNever == SpecRegen => []NoTwinRows
<1>1. RegenIInv => NoTwinRows
  BY DEF RegenIInv
<1>2. QED
  BY <1>1, RegenInvariance, PTL

\* A regenerate that overlaps no other transaction restarts seq and chain: the
\* chain verifies as long as none has overlapped one.
THEOREM AloneChainVerifies == SpecRegen => []AloneKeepsChain
<1>1. ASSUME RegenIInv PROVE AloneKeepsChain
  <2>1. mixed \in BOOLEAN
    BY <1>1 DEF RegenIInv, RegenTypeOK
  <2>2. SUFFICES ASSUME mixed = FALSE PROVE VerifyChain(rows)
    BY <2>1, Zenon DEF AloneKeepsChain
  <2>3. rows \subseteq Row /\ Linked
    BY <1>1, <2>2 DEF RegenIInv, RegenTypeOK, AloneOK, RowsOK
  <2>4. QED
    BY <2>3, LinkedVerifies
<1>2. QED
  BY <1>1, RegenInvariance, PTL

-----------------------------------------------------------------------------
(* Finite sets                                                                *)

LessThan == {p \in Nat \X Nat : p[1] < p[2]}

LEMMA LessThanWellFounded == IsWellFoundedOn(LessThan, Nat)
BY NatLessThanWellFounded DEF LessThan, OpToRel

\* Every set of naturals that is not empty has a least element.
LEMMA LeastOf ==
  ASSUME NEW S \in SUBSET Nat, S # {}
  PROVE  \E x \in S : \A y \in S : x <= y
<1>1. \E x \in S : \A y \in S : ~(<<y, x>> \in LessThan)
  BY WFMin, LessThanWellFounded
<1>2. \A a, b \in Nat : a < b => <<a, b>> \in LessThan
  BY DEF LessThan
<1>3. \A a, b \in Nat : ~(a < b) => b <= a
  OBVIOUS
<1> QED
  BY <1>1, <1>2, <1>3

\* What holds of a set whenever it holds of its proper subsets holds of all.
LEMMA SubsetInduction ==
  ASSUME NEW S, IsFiniteSet(S), NEW G,
         \A T \in SUBSET S : (\A U \in SUBSET T : U # T => U \in G) => T \in G
  PROVE  S \in G
<1> DEFINE bad == {T \in SUBSET S : T \notin G}
           sizes == {Cardinality(T) : T \in bad}
<1> SUFFICES ASSUME bad # {} PROVE FALSE
  OBVIOUS
<1>1. ASSUME NEW T \in SUBSET S PROVE IsFiniteSet(T) /\ Cardinality(T) \in Nat
  BY FS_Subset, FS_CardinalityType
<1>2. sizes # {} /\ sizes \in SUBSET Nat
  BY <1>1
<1>3. PICK n \in sizes : \A k \in sizes : n <= k
  BY <1>2, LeastOf
<1>4. PICK T \in bad : n = Cardinality(T)
  BY <1>3
<1>5. ASSUME NEW U \in SUBSET T, U # T PROVE U \in G
  <2>1. U \in SUBSET S /\ IsFiniteSet(T) /\ IsFiniteSet(U)
    BY <1>4, <1>1
  <2>2. Cardinality(U) < n /\ Cardinality(U) \in Nat /\ n \in Nat
    BY <1>1, <1>4, <2>1, <1>5, FS_Subset
  <2>3. Cardinality(U) \notin sizes
    BY <2>2, <1>3
  <2> QED
    BY <2>1, <2>3
<1> QED
  BY <1>4, <1>5

\* The same, one element at a time.
LEMMA ElementInduction ==
  ASSUME NEW S, IsFiniteSet(S), NEW G, {} \in G,
         \A T \in SUBSET S : \A x \in S \ T : T \in G => T \cup {x} \in G
  PROVE  S \in G
<1>1. ASSUME NEW T \in SUBSET S, \A U \in SUBSET T : U # T => U \in G PROVE T \in G
  <2>1. CASE T = {}
    BY <2>1
  <2>2. CASE T # {}
    <3>1. PICK x \in T : TRUE
      BY <2>2
    <3>2. T \ {x} \in G /\ T \ {x} \in SUBSET S /\ x \in S \ (T \ {x})
      BY <1>1
    <3>3. (T \ {x}) \cup {x} = T
      OBVIOUS
    <3> QED
      BY <3>2, <3>3
  <2> QED
    BY <2>1, <2>2
<1> QED
  BY <1>1, SubsetInduction

LEMMA RecordedIsFinite ==
  ASSUME ledger \in Seq(Event)
  PROVE  /\ Recorded = 1..Len(ledger) /\ Len(ledger) \in Nat
         /\ \A S \in SUBSET Recorded : IsFiniteSet(S) /\ Cardinality(S) \in Nat
                                       /\ Cardinality(S) <= Len(ledger)
<1>1. Recorded = 1..Len(ledger) /\ Len(ledger) \in Nat
  BY LenProperties DEF Recorded
<1>2. IsFiniteSet(Recorded) /\ Cardinality(Recorded) = Len(ledger)
  BY <1>1, FS_Interval
<1> QED
  BY <1>1, <1>2, FS_Subset, FS_CardinalityType

-----------------------------------------------------------------------------
(* Sums over finite sets                                                      *)

Some(T) == CHOOSE x \in T : TRUE
Rest(T) == T \ {Some(T)}

LEMMA RestIsSmaller ==
  ASSUME NEW S, NEW T \in SUBSET S, T # {}
  PROVE  Some(T) \in T /\ Rest(T) \in SUBSET T /\ Rest(T) # T /\ Rest(T) \in SUBSET S
BY DEF Some, Rest

\* What the recursive function in a sum is.
SumsOf(f, S, g) == g = [T \in SUBSET S |-> IF T = {} THEN 0 ELSE f[Some(T)] + g[Rest(T)]]

LEMMA SumIs ==
  ASSUME NEW f, NEW S
  PROVE  SumFunctionOnSet(f, S) = (CHOOSE g : SumsOf(f, S, g))[S]
BY DEF SumFunctionOnSet, FoldFunctionOnSet, MapThenFoldSet, SumsOf, Some, Rest

LEMMA SumsUnique ==
  ASSUME NEW f, NEW S, IsFiniteSet(S), NEW g, SumsOf(f, S, g), NEW h, SumsOf(f, S, h),
         NEW U \in SUBSET S
  PROVE  g[U] = h[U]
<1> DEFINE G == {T \in SUBSET S : g[T] = h[T]}
<1>1. ASSUME NEW T \in SUBSET U, \A V \in SUBSET T : V # T => V \in G PROVE T \in G
  <2>1. T \in SUBSET S
    OBVIOUS
  <2>2. CASE T = {}
    BY <2>1, <2>2 DEF SumsOf
  <2>3. CASE T # {}
    <3>1. g[Rest(T)] = h[Rest(T)]
      BY <1>1, <2>3, RestIsSmaller
    <3>2. g[T] = f[Some(T)] + g[Rest(T)] /\ h[T] = f[Some(T)] + h[Rest(T)]
      BY <2>1, <2>3 DEF SumsOf
    <3> QED
      BY <2>1, <3>1, <3>2
  <2> QED
    BY <2>2, <2>3
<1>2. IsFiniteSet(U)
  BY FS_Subset
<1>3. U \in G
  <2> HIDE DEF G
  <2> QED
    BY <1>1, <1>2, SubsetInduction
<1> QED
  BY <1>3

LEMMA SumsRestrict ==
  ASSUME NEW f, NEW S, NEW R \in SUBSET S, NEW g, SumsOf(f, S, g),
         NEW h, h = [T \in SUBSET R |-> g[T]]
  PROVE  SumsOf(f, R, h)
<1>1. ASSUME NEW T \in SUBSET R
      PROVE  h[T] = IF T = {} THEN 0 ELSE f[Some(T)] + h[Rest(T)]
  <2>1. T \in SUBSET S /\ Rest(T) \in SUBSET R
    BY DEF Rest
  <2>2. g[T] = IF T = {} THEN 0 ELSE f[Some(T)] + g[Rest(T)]
    BY <2>1 DEF SumsOf
  <2> QED
    BY <2>1, <2>2
<1>2. h = [T \in SUBSET R |-> IF T = {} THEN 0 ELSE f[Some(T)] + h[Rest(T)]]
  BY <1>1
<1> QED
  BY <1>2 DEF SumsOf

\* The sums over the subsets of a subset are the same.
LEMMA SumsAgree ==
  ASSUME NEW f, NEW S, IsFiniteSet(S), NEW g, SumsOf(f, S, g), NEW R \in SUBSET S
  PROVE  SumFunctionOnSet(f, R) = g[R]
<1>1. PICK k : k = CHOOSE h : SumsOf(f, R, h)
  OBVIOUS
<1>2. PICK r : r = [T \in SUBSET R |-> g[T]]
  OBVIOUS
<1>3. SumsOf(f, R, r)
  BY <1>2, SumsRestrict
<1>4. SumsOf(f, R, k)
  BY <1>1, <1>3
<1>5. IsFiniteSet(R)
  BY FS_Subset
<1>6. k[R] = r[R]
  BY <1>3, <1>4, <1>5, SumsUnique
<1> QED
  BY <1>1, <1>2, <1>6, SumIs

\* The sum over a set exists if those over its smaller subsets do.
LEMMA SumsStep ==
  ASSUME NEW f, NEW S, IsFiniteSet(S),
         \A U \in SUBSET S : U # S => \E g : SumsOf(f, U, g)
  PROVE  \E g : SumsOf(f, S, g)
<1> DEFINE sum(U) == SumFunctionOnSet(f, U)
           G == [T \in SUBSET S |-> IF T = {} THEN 0 ELSE f[Some(T)] + sum(Rest(T))]
<1>1. ASSUME NEW U \in SUBSET S, U # S
      PROVE  sum(U) = IF U = {} THEN 0 ELSE f[Some(U)] + sum(Rest(U))
  <2>1. PICK g : SumsOf(f, U, g)
    BY <1>1
  <2>2. IsFiniteSet(U) /\ U \in SUBSET U /\ Rest(U) \in SUBSET U
    BY FS_Subset DEF Rest
  <2>3. sum(U) = g[U] /\ sum(Rest(U)) = g[Rest(U)]
    BY <2>1, <2>2, SumsAgree
  <2> HIDE DEF sum
  <2> QED
    BY <2>1, <2>2, <2>3 DEF SumsOf
<1> HIDE DEF sum
<1>2. ASSUME NEW T \in SUBSET S
      PROVE  G[T] = IF T = {} THEN 0 ELSE f[Some(T)] + G[Rest(T)]
  <2> SUFFICES ASSUME T # {} PROVE G[T] = f[Some(T)] + G[Rest(T)]
    OBVIOUS
  <2>1. Rest(T) \in SUBSET S /\ Rest(T) # S
    BY RestIsSmaller DEF Rest
  <2>2. G[Rest(T)] = sum(Rest(T))
    BY <2>1, <1>1
  <2>3. G[T] = f[Some(T)] + sum(Rest(T))
    OBVIOUS
  <2> QED
    BY <2>2, <2>3
<1>3. SumsOf(f, S, G)
  <2>1. G = [T \in SUBSET S |-> G[T]]
    OBVIOUS
  <2>2. [T \in SUBSET S |-> G[T]]
          = [T \in SUBSET S |-> IF T = {} THEN 0 ELSE f[Some(T)] + G[Rest(T)]]
    BY <1>2
  <2> HIDE DEF G
  <2> QED
    BY <2>1, <2>2 DEF SumsOf
<1> QED
  BY <1>3

LEMMA SumsExist ==
  ASSUME NEW f, NEW S, IsFiniteSet(S)
  PROVE  \E g : SumsOf(f, S, g)
<1> DEFINE G == {T \in SUBSET S : \E g : SumsOf(f, T, g)}
<1>1. ASSUME NEW T \in SUBSET S, \A U \in SUBSET T : U # T => U \in G PROVE T \in G
  <2>1. IsFiniteSet(T)
    BY FS_Subset
  <2>2. \A U \in SUBSET T : U # T => \E g : SumsOf(f, U, g)
    BY <1>1
  <2> QED
    BY <2>1, <2>2, SumsStep
<1>2. S \in G
  <2> HIDE DEF G
  <2> QED
    BY <1>1, SubsetInduction
<1> QED
  BY <1>2

LEMMA SumUnfolds ==
  ASSUME NEW f, NEW S, IsFiniteSet(S)
  PROVE  SumFunctionOnSet(f, S)
           = IF S = {} THEN 0 ELSE f[Some(S)] + SumFunctionOnSet(f, Rest(S))
<1>1. PICK g : SumsOf(f, S, g)
  BY SumsExist
<1>2. S \in SUBSET S /\ Rest(S) \in SUBSET S
  BY DEF Rest
<1>3. SumFunctionOnSet(f, S) = g[S] /\ SumFunctionOnSet(f, Rest(S)) = g[Rest(S)]
  BY <1>1, <1>2, SumsAgree
<1> QED
  BY <1>1, <1>2, <1>3 DEF SumsOf

LEMMA SumOfNone == ASSUME NEW f PROVE SumFunctionOnSet(f, {}) = 0
BY SumUnfolds, FS_EmptySet

\* Sums of integers are integers, and may be taken in any order.
Additive(f, S) ==
    /\ SumFunctionOnSet(f, S) \in Int
    /\ \A x \in S : SumFunctionOnSet(f, S) = f[x] + SumFunctionOnSet(f, S \ {x})

LEMMA SumStep ==
  ASSUME NEW f, NEW S, IsFiniteSet(S), \A x \in S : f[x] \in Int,
         \A T \in SUBSET S : T # S => Additive(f, T)
  PROVE  Additive(f, S)
<1>1. CASE S = {}
  BY <1>1, SumOfNone DEF Additive
<1>2. CASE S # {}
  <2> DEFINE y == Some(S)
             U == S \ {y}
  <2>1. y \in S /\ U \in SUBSET S /\ U # S
    BY <1>2, RestIsSmaller
  <2>2. SumFunctionOnSet(f, S) = f[y] + SumFunctionOnSet(f, U)
    BY <1>2, SumUnfolds DEF Rest
  <2>3. SumFunctionOnSet(f, U) \in Int /\ f[y] \in Int
    BY <2>1 DEF Additive
  <2>4. ASSUME NEW x \in S, x # y
        PROVE  SumFunctionOnSet(f, S) = f[x] + SumFunctionOnSet(f, S \ {x})
    <3>1. x \in U /\ y \in S \ {x} /\ S \ {x} \in SUBSET S /\ S \ {x} # S
      BY <2>1, <2>4
    <3>2. SumFunctionOnSet(f, U) = f[x] + SumFunctionOnSet(f, U \ {x})
      BY <3>1, <2>1 DEF Additive
    <3>3. SumFunctionOnSet(f, S \ {x}) = f[y] + SumFunctionOnSet(f, (S \ {x}) \ {y})
      BY <3>1 DEF Additive
    <3>4. (S \ {x}) \ {y} = U \ {x}
      OBVIOUS
    <3>5. U \ {x} \in SUBSET S /\ U \ {x} # S
      BY <2>1
    <3>6. SumFunctionOnSet(f, U \ {x}) \in Int
      BY <3>5 DEF Additive
    <3>7. f[x] \in Int
      OBVIOUS
    <3>8. PICK a, b, r : a = f[x] /\ b = f[y] /\ r = SumFunctionOnSet(f, U \ {x})
      OBVIOUS
    <3>9. /\ SumFunctionOnSet(f, S) = b + (a + r)
          /\ SumFunctionOnSet(f, S \ {x}) = b + r
      BY <2>2, <3>2, <3>3, <3>4, <3>8
    <3> QED
      BY ONLY <2>3, <3>6, <3>7, <3>8, <3>9
  <2>5. ASSUME NEW x \in S, x = y
        PROVE  SumFunctionOnSet(f, S) = f[x] + SumFunctionOnSet(f, S \ {x})
    BY <2>2, <2>5
  <2>6. SumFunctionOnSet(f, S) \in Int
    BY <2>2, <2>3
  <2> HIDE DEF y
  <2> QED
    BY <2>4, <2>5, <2>6 DEF Additive
<1> QED
  BY <1>1, <1>2

LEMMA SumTakesOne ==
  ASSUME NEW f, NEW S, IsFiniteSet(S), \A x \in S : f[x] \in Int
  PROVE  /\ SumFunctionOnSet(f, S) \in Int
         /\ \A x \in S : SumFunctionOnSet(f, S) = f[x] + SumFunctionOnSet(f, S \ {x})
<1> DEFINE G == {T \in SUBSET S : Additive(f, T)}
<1>1. ASSUME NEW T \in SUBSET S, \A U \in SUBSET T : U # T => U \in G PROVE T \in G
  <2>1. IsFiniteSet(T) /\ \A x \in T : f[x] \in Int
    BY FS_Subset
  <2>2. \A U \in SUBSET T : U # T => Additive(f, U)
    BY <1>1
  <2>3. Additive(f, T)
    BY <2>1, <2>2, SumStep
  <2> QED
    BY <2>3
<1>2. S \in G
  <2> HIDE DEF G
  <2> QED
    BY <1>1, SubsetInduction
<1> QED
  BY <1>2 DEF Additive

\* A sum over a set and one element more.
LEMMA SumAdds ==
  ASSUME NEW f, NEW S, IsFiniteSet(S), NEW x, x \notin S, \A y \in S \cup {x} : f[y] \in Int
  PROVE  /\ SumFunctionOnSet(f, S \cup {x}) = f[x] + SumFunctionOnSet(f, S)
         /\ SumFunctionOnSet(f, S) \in Int
<1>1. IsFiniteSet(S \cup {x}) /\ (S \cup {x}) \ {x} = S
  BY FS_AddElement
<1> QED
  BY <1>1, SumTakesOne

\* Sums of equal terms are equal.
LEMMA SumAgrees ==
  ASSUME NEW f, NEW g, NEW S, IsFiniteSet(S), \A x \in S : f[x] \in Int /\ f[x] = g[x]
  PROVE  SumFunctionOnSet(f, S) = SumFunctionOnSet(g, S)
<1> DEFINE G == {T \in SUBSET S : SumFunctionOnSet(f, T) = SumFunctionOnSet(g, T)}
<1>1. {} \in G
  BY SumOfNone
<1>2. ASSUME NEW T \in SUBSET S, NEW x \in S \ T, T \in G PROVE T \cup {x} \in G
  <2>1. IsFiniteSet(T) /\ \A y \in T \cup {x} : f[y] \in Int /\ g[y] \in Int
    BY FS_Subset
  <2>2. /\ SumFunctionOnSet(f, T \cup {x}) = f[x] + SumFunctionOnSet(f, T)
        /\ SumFunctionOnSet(g, T \cup {x}) = g[x] + SumFunctionOnSet(g, T)
    BY <2>1, SumAdds
  <2>3. SumFunctionOnSet(f, T \cup {x}) = SumFunctionOnSet(g, T \cup {x})
    BY <1>2, <2>2
  <2> QED
    BY <2>3
<1>3. S \in G
  <2> HIDE DEF G
  <2> QED
    BY <1>1, <1>2, ElementInduction
<1> QED
  BY <1>3

\* A factor can be taken out.
LEMMA SumScales ==
  ASSUME NEW f, NEW g, NEW c \in Int, NEW S, IsFiniteSet(S),
         \A x \in S : f[x] \in Int /\ g[x] = f[x] * c
  PROVE  SumFunctionOnSet(g, S) = SumFunctionOnSet(f, S) * c
<1> DEFINE G == {T \in SUBSET S : SumFunctionOnSet(g, T) = SumFunctionOnSet(f, T) * c}
<1>1. {} \in G
  <2>1. SumFunctionOnSet(g, {}) = 0 /\ SumFunctionOnSet(f, {}) = 0
    BY SumOfNone
  <2>2. 0 * c = 0
    OBVIOUS
  <2> QED
    BY <2>1, <2>2
<1>2. ASSUME NEW T \in SUBSET S, NEW x \in S \ T, T \in G PROVE T \cup {x} \in G
  <2>1. ASSUME NEW y \in S PROVE f[y] \in Int /\ g[y] \in Int
    <3>1. f[y] \in Int /\ g[y] = f[y] * c
      OBVIOUS
    <3>2. PICK a : a = f[y]
      OBVIOUS
    <3>3. a * c \in Int
      BY <3>1, <3>2
    <3> QED
      BY <3>1, <3>2, <3>3
  <2>2. IsFiniteSet(T) /\ \A y \in T \cup {x} : f[y] \in Int /\ g[y] \in Int
    BY <2>1, FS_Subset
  <2>3. /\ SumFunctionOnSet(f, T \cup {x}) = f[x] + SumFunctionOnSet(f, T)
        /\ SumFunctionOnSet(g, T \cup {x}) = g[x] + SumFunctionOnSet(g, T)
        /\ SumFunctionOnSet(f, T) \in Int
    BY <2>2, SumAdds
  <2>4. PICK a, s : a = f[x] /\ s = SumFunctionOnSet(f, T)
    OBVIOUS
  <2>5. a \in Int /\ s \in Int
    BY <2>1, <2>3, <2>4
  <2>6. (a * c) + (s * c) = (a + s) * c
    BY <2>5
  <2>7. g[x] = a * c /\ SumFunctionOnSet(g, T) = s * c
    BY <1>2, <2>4
  <2>8. SumFunctionOnSet(g, T \cup {x}) = SumFunctionOnSet(f, T \cup {x}) * c
    BY <2>3, <2>4, <2>6, <2>7
  <2> QED
    BY <2>8
<1>3. S \in G
  <2> HIDE DEF G
  <2> QED
    BY <1>1, <1>2, ElementInduction
<1> QED
  BY <1>3

\* A set has as many elements as the sum of ones over it.
LEMMA SumOfOnes ==
  ASSUME NEW f, NEW S, IsFiniteSet(S), \A x \in S : f[x] = 1
  PROVE  SumFunctionOnSet(f, S) = Cardinality(S)
<1> DEFINE G == {T \in SUBSET S : SumFunctionOnSet(f, T) = Cardinality(T)}
<1>1. {} \in G
  BY SumOfNone, FS_EmptySet
<1>2. ASSUME NEW T \in SUBSET S, NEW x \in S \ T, T \in G PROVE T \cup {x} \in G
  <2>1. IsFiniteSet(T) /\ \A y \in T \cup {x} : f[y] \in Int
    BY FS_Subset
  <2>2. SumFunctionOnSet(f, T \cup {x}) = f[x] + SumFunctionOnSet(f, T)
    BY <2>1, SumAdds
  <2>3. Cardinality(T \cup {x}) = Cardinality(T) + 1 /\ Cardinality(T) \in Nat
    BY <2>1, FS_AddElement, FS_CardinalityType
  <2>4. SumFunctionOnSet(f, T \cup {x}) = Cardinality(T \cup {x})
    BY <1>2, <2>2, <2>3
  <2> QED
    BY <2>4
<1>3. S \in G
  <2> HIDE DEF G
  <2> QED
    BY <1>1, <1>2, ElementInduction
<1> QED
  BY <1>3

\* Terms of zero, and larger terms.
LEMMA SumOfZeros ==
  ASSUME NEW f, NEW S, IsFiniteSet(S), \A x \in S : f[x] = 0
  PROVE  SumFunctionOnSet(f, S) = 0
<1> DEFINE G == {T \in SUBSET S : SumFunctionOnSet(f, T) = 0}
<1>1. {} \in G
  BY SumOfNone
<1>2. ASSUME NEW T \in SUBSET S, NEW x \in S \ T, T \in G PROVE T \cup {x} \in G
  <2>1. IsFiniteSet(T) /\ \A y \in T \cup {x} : f[y] \in Int
    BY FS_Subset
  <2>2. SumFunctionOnSet(f, T \cup {x}) = f[x] + SumFunctionOnSet(f, T)
    BY <2>1, SumAdds
  <2>3. SumFunctionOnSet(f, T \cup {x}) = 0
    BY <1>2, <2>2
  <2> QED
    BY <2>3
<1>3. S \in G
  <2> HIDE DEF G
  <2> QED
    BY <1>1, <1>2, ElementInduction
<1> QED
  BY <1>3

LEMMA SumGrows ==
  ASSUME NEW f, NEW g, NEW S, IsFiniteSet(S),
         \A x \in S : f[x] \in Int /\ g[x] \in Int /\ f[x] <= g[x]
  PROVE  SumFunctionOnSet(f, S) <= SumFunctionOnSet(g, S)
<1> DEFINE G == {T \in SUBSET S : SumFunctionOnSet(f, T) <= SumFunctionOnSet(g, T)}
<1>1. {} \in G
  BY SumOfNone
<1>2. ASSUME NEW T \in SUBSET S, NEW x \in S \ T, T \in G PROVE T \cup {x} \in G
  <2>1. IsFiniteSet(T) /\ \A y \in T \cup {x} : f[y] \in Int /\ g[y] \in Int
    BY FS_Subset
  <2>2. /\ SumFunctionOnSet(f, T \cup {x}) = f[x] + SumFunctionOnSet(f, T)
        /\ SumFunctionOnSet(g, T \cup {x}) = g[x] + SumFunctionOnSet(g, T)
        /\ SumFunctionOnSet(f, T) \in Int /\ SumFunctionOnSet(g, T) \in Int
    BY <2>1, SumAdds
  <2>3. SumFunctionOnSet(f, T \cup {x}) <= SumFunctionOnSet(g, T \cup {x})
    BY <1>2, <2>1, <2>2
  <2> QED
    BY <2>3
<1>3. S \in G
  <2> HIDE DEF G
  <2> QED
    BY <1>1, <1>2, ElementInduction
<1> QED
  BY <1>3

\* The sum over two sets that have nothing in common.
LEMMA SumOfUnion ==
  ASSUME NEW f, NEW S, IsFiniteSet(S), NEW R, IsFiniteSet(R), S \cap R = {},
         \A x \in S \cup R : f[x] \in Int
  PROVE  SumFunctionOnSet(f, S \cup R) = SumFunctionOnSet(f, S) + SumFunctionOnSet(f, R)
<1> DEFINE G == {T \in SUBSET R : SumFunctionOnSet(f, S \cup T)
                                    = SumFunctionOnSet(f, S) + SumFunctionOnSet(f, T)}
<1>0. SumFunctionOnSet(f, S) \in Int
  BY SumTakesOne
<1>1. {} \in G
  <2>1. S \cup {} = S
    OBVIOUS
  <2>2. SumFunctionOnSet(f, {}) = 0
    BY SumOfNone
  <2>3. SumFunctionOnSet(f, S \cup {}) = SumFunctionOnSet(f, S) + SumFunctionOnSet(f, {})
    BY <2>1, <2>2, <1>0
  <2> QED
    BY <2>3
<1>2. ASSUME NEW T \in SUBSET R, NEW x \in R \ T, T \in G PROVE T \cup {x} \in G
  <2>1. IsFiniteSet(T) /\ \A y \in T \cup {x} : f[y] \in Int
    BY FS_Subset
  <2>2. SumFunctionOnSet(f, T \cup {x}) = f[x] + SumFunctionOnSet(f, T)
        /\ SumFunctionOnSet(f, T) \in Int
    BY <2>1, SumAdds
  <2>3. IsFiniteSet(S \cup T) /\ x \notin S \cup T /\ \A y \in S \cup T \cup {x} : f[y] \in Int
    BY <2>1, FS_Union
  <2>4. SumFunctionOnSet(f, (S \cup T) \cup {x}) = f[x] + SumFunctionOnSet(f, S \cup T)
    BY <2>3, SumAdds
  <2>5. (S \cup T) \cup {x} = S \cup (T \cup {x})
    OBVIOUS
  <2>6. SumFunctionOnSet(f, S \cup T) = SumFunctionOnSet(f, S) + SumFunctionOnSet(f, T)
    BY <1>2
  <2>7. f[x] \in Int
    OBVIOUS
  <2>8. PICK a, s, t : a = f[x] /\ s = SumFunctionOnSet(f, S) /\ t = SumFunctionOnSet(f, T)
    OBVIOUS
  <2>9. a + (s + t) = s + (a + t)
    BY ONLY <1>0, <2>2, <2>7, <2>8
  <2>10. SumFunctionOnSet(f, S \cup (T \cup {x}))
           = SumFunctionOnSet(f, S) + SumFunctionOnSet(f, T \cup {x})
    BY ONLY <2>2, <2>4, <2>5, <2>6, <2>8, <2>9
  <2> QED
    BY <2>10
<1>3. R \in G
  <2> HIDE DEF G
  <2> QED
    BY <1>1, <1>2, ElementInduction
<1> QED
  BY <1>3

\* What adds nothing can be left out.
LEMMA SumOfPart ==
  ASSUME NEW f, NEW S, IsFiniteSet(S), \A x \in S : f[x] \in Int,
         NEW T \in SUBSET S, \A x \in S \ T : f[x] = 0
  PROVE  SumFunctionOnSet(f, S) = SumFunctionOnSet(f, T)
<1>1. /\ IsFiniteSet(T) /\ IsFiniteSet(S \ T) /\ T \cap (S \ T) = {} /\ T \cup (S \ T) = S
  BY FS_Subset
<1>2. SumFunctionOnSet(f, T \cup (S \ T)) = SumFunctionOnSet(f, T) + SumFunctionOnSet(f, S \ T)
  <2>1. \A x \in T \cup (S \ T) : f[x] \in Int
    OBVIOUS
  <2> HIDE DEF SumFunctionOnSet
  <2> QED
    BY <1>1, <2>1, SumOfUnion
<1>3. SumFunctionOnSet(f, S \ T) = 0
  BY <1>1, SumOfZeros
<1>4. SumFunctionOnSet(f, T) \in Int
  BY <1>1, SumTakesOne
<1>5. SumFunctionOnSet(f, S) = SumFunctionOnSet(f, T) + SumFunctionOnSet(f, S \ T)
  BY <1>1, <1>2, Zenon
<1> QED
  BY <1>3, <1>4, <1>5

\* A sum over the values of an injective function.
LEMMA SumOfImage ==
  ASSUME NEW f, NEW g, NEW h, NEW S, IsFiniteSet(S),
         \A x, y \in S : h[x] = h[y] => x = y,
         \A x \in S : f[x] \in Int /\ g[h[x]] = f[x]
  PROVE  SumFunctionOnSet(g, {h[x] : x \in S}) = SumFunctionOnSet(f, S)
<1> DEFINE Image(T) == {h[x] : x \in T}
           G == {T \in SUBSET S : /\ IsFiniteSet(Image(T))
                                  /\ SumFunctionOnSet(g, Image(T)) = SumFunctionOnSet(f, T)}
<1>1. {} \in G
  <2>1. Image({}) = {}
    OBVIOUS
  <2> HIDE DEF Image
  <2> QED
    BY <2>1, SumOfNone, FS_EmptySet
<1>2. ASSUME NEW T \in SUBSET S, NEW x \in S \ T, T \in G PROVE T \cup {x} \in G
  <2>1. IsFiniteSet(T) /\ \A y \in T \cup {x} : f[y] \in Int
    BY FS_Subset
  <2>2. SumFunctionOnSet(f, T \cup {x}) = f[x] + SumFunctionOnSet(f, T)
    BY <2>1, SumAdds
  <2>3. Image(T \cup {x}) = Image(T) \cup {h[x]} /\ h[x] \notin Image(T)
    OBVIOUS
  <2>4. \A z \in Image(T) \cup {h[x]} : g[z] \in Int
    OBVIOUS
  <2>5. IsFiniteSet(Image(T)) /\ SumFunctionOnSet(g, Image(T)) = SumFunctionOnSet(f, T)
    BY <1>2
  <2>6. g[h[x]] = f[x]
    OBVIOUS
  <2> HIDE DEF Image
  <2>7. SumFunctionOnSet(g, Image(T) \cup {h[x]}) = g[h[x]] + SumFunctionOnSet(g, Image(T))
    BY <2>3, <2>4, <2>5, SumAdds
  <2>8. IsFiniteSet(Image(T) \cup {h[x]})
    BY <2>5, FS_AddElement
  <2> QED
    BY <2>2, <2>3, <2>5, <2>6, <2>7, <2>8
<1>3. S \in G
  <2> HIDE DEF G
  <2> QED
    BY <1>1, <1>2, ElementInduction
<1> QED
  BY <1>3

\* A sum part by part: p says which part an element is of.
PartOf(S, p, d) == {x \in S : p[x] = d}

LEMMA SumByPart ==
  ASSUME NEW f, NEW S, IsFiniteSet(S), \A x \in S : f[x] \in Int,
         NEW p, NEW D, IsFiniteSet(D), \A x \in S : p[x] \in D,
         NEW e, \A d \in D : e[d] = SumFunctionOnSet(f, PartOf(S, p, d))
  PROVE  SumFunctionOnSet(e, D) = SumFunctionOnSet(f, S)
<1> DEFINE Part(C) == {x \in S : p[x] \in C}
           At(d) == PartOf(S, p, d)
           G == {C \in SUBSET D : SumFunctionOnSet(e, C) = SumFunctionOnSet(f, Part(C))}
<1>0. ASSUME NEW R \in SUBSET S
      PROVE  IsFiniteSet(R) /\ \A x \in R : f[x] \in Int
  BY FS_Subset
<1>1. {} \in G
  <2>1. Part({}) = {}
    OBVIOUS
  <2> HIDE DEF Part
  <2> QED
    BY <2>1, SumOfNone
<1>2. ASSUME NEW C \in SUBSET D, NEW d \in D \ C, C \in G PROVE C \cup {d} \in G
  <2>1. /\ Part(C \cup {d}) = Part(C) \cup At(d) /\ Part(C) \cap At(d) = {}
        /\ Part(C) \in SUBSET S /\ At(d) \in SUBSET S /\ Part(C) \cup At(d) \in SUBSET S
    BY DEF PartOf
  <2>2. e[d] = SumFunctionOnSet(f, At(d))
    OBVIOUS
  <2>3. SumFunctionOnSet(e, C) = SumFunctionOnSet(f, Part(C))
    BY <1>2
  <2> HIDE DEF Part, At
  <2>4. SumFunctionOnSet(f, Part(C) \cup At(d))
          = SumFunctionOnSet(f, Part(C)) + SumFunctionOnSet(f, At(d))
    BY <2>1, <1>0, SumOfUnion
  <2>5. IsFiniteSet(C) /\ \A c \in C \cup {d} : e[c] \in Int
    <3>1. ASSUME NEW c \in D PROVE e[c] \in Int
      <4>1. At(c) \in SUBSET S /\ e[c] = SumFunctionOnSet(f, At(c))
        BY DEF At, PartOf
      <4> QED
        BY <4>1, <1>0, SumTakesOne
    <3> QED
      BY <3>1, FS_Subset
  <2>6. SumFunctionOnSet(e, C \cup {d}) = e[d] + SumFunctionOnSet(e, C)
        /\ SumFunctionOnSet(e, C) \in Int
    BY <2>5, SumAdds
  <2>7. e[d] \in Int
    BY <2>5
  <2>8. SumFunctionOnSet(e, C \cup {d}) = SumFunctionOnSet(f, Part(C \cup {d}))
    <3>1. PICK a, b : a = SumFunctionOnSet(f, Part(C)) /\ b = SumFunctionOnSet(f, At(d))
      OBVIOUS
    <3>2. a \in Int /\ b \in Int
      BY <2>2, <2>3, <2>6, <2>7, <3>1
    <3>3. a + b = b + a
      BY <3>2
    <3> QED
      BY <2>1, <2>2, <2>3, <2>4, <2>6, <3>1, <3>3
  <2> QED
    BY <2>8
<1>3. D \in G
  <2> HIDE DEF G
  <2> QED
    BY <1>1, <1>2, ElementInduction
<1>4. Part(D) = S
  OBVIOUS
<1> HIDE DEF Part
<1> QED
  BY <1>3, <1>4

\* The parts of a set have as many elements as the set.
LEMMA CountByPart ==
  ASSUME NEW S, IsFiniteSet(S), NEW p, NEW D, IsFiniteSet(D), \A x \in S : p[x] \in D,
         NEW e, \A d \in D : e[d] = Cardinality(PartOf(S, p, d))
  PROVE  SumFunctionOnSet(e, D) = Cardinality(S)
<1>1. PICK f : f = [x \in S |-> 1]
  OBVIOUS
<1>2. ASSUME NEW R \in SUBSET S PROVE SumFunctionOnSet(f, R) = Cardinality(R)
  <2>1. IsFiniteSet(R) /\ \A x \in R : f[x] = 1
    BY <1>1, FS_Subset
  <2> QED
    BY <2>1, SumOfOnes
<1>3. \A x \in S : f[x] \in Int
  BY <1>1
<1>4. \A d \in D : e[d] = SumFunctionOnSet(f, PartOf(S, p, d))
  BY <1>2 DEF PartOf
<1>5. SumFunctionOnSet(e, D) = SumFunctionOnSet(f, S)
  BY <1>3, <1>4, SumByPart
<1> QED
  BY <1>2, <1>5

-----------------------------------------------------------------------------
(* Lists in an order                                                          *)

StrictOrder(S, R) ==
    /\ \A x \in S : <<x, x>> \notin R
    /\ \A x, y, z \in S : <<x, y>> \in R /\ <<y, z>> \in R => <<x, z>> \in R
    /\ \A x, y \in S : x # y => <<x, y>> \in R \/ <<y, x>> \in R

\* The elements of S, each once, in the order R.
ListOf(s, S, R) ==
    /\ IsFiniteSet(S) /\ Len(s) = Cardinality(S) /\ Len(s) \in Nat
    /\ s \in Seq(S) /\ DOMAIN s = 1..Len(s)
    /\ \A k \in 1..Len(s) : s[k] \in S
    /\ \A i \in S : \E k \in 1..Len(s) : s[k] = i
    /\ \A k, l \in 1..Len(s) : k < l => <<s[k], s[l]>> \in R

Under(S, R, i) == {j \in S : <<j, i>> \in R}

LEMMA UnderGrows ==
  ASSUME NEW S, IsFiniteSet(S), NEW R, StrictOrder(S, R), NEW i \in S
  PROVE  /\ Cardinality(Under(S, R, i)) \in 0..Cardinality(S) - 1 /\ Cardinality(S) \in Nat
         /\ \A j \in S : <<i, j>> \in R =>
              Cardinality(Under(S, R, i)) < Cardinality(Under(S, R, j))
<1>1. ASSUME NEW T \in SUBSET S
      PROVE  IsFiniteSet(T) /\ Cardinality(T) \in Nat /\ Cardinality(T) <= Cardinality(S)
  BY FS_Subset, FS_CardinalityType
<1>2. Under(S, R, i) \in SUBSET (S \ {i}) /\ S \ {i} \in SUBSET S
  BY DEF Under, StrictOrder
<1>3. Cardinality(S \ {i}) = Cardinality(S) - 1
  BY FS_RemoveElement
<1>4. Cardinality(Under(S, R, i)) <= Cardinality(S \ {i})
  BY <1>1, <1>2, FS_Subset
<1>5. ASSUME NEW j \in S, <<i, j>> \in R
      PROVE  Cardinality(Under(S, R, i)) < Cardinality(Under(S, R, j))
  <2> DEFINE I == Under(S, R, i)
             J == Under(S, R, j)
  <2>1. I \in SUBSET J /\ i \in J /\ i \notin I /\ J \in SUBSET S
    BY <1>5 DEF Under, StrictOrder
  <2>2. IsFiniteSet(J) /\ Cardinality(J) \in Nat /\ Cardinality(I) \in Nat
    BY <1>1, <2>1
  <2>3. Cardinality(I) <= Cardinality(J) /\ Cardinality(I) # Cardinality(J)
    BY <2>1, <2>2, FS_Subset
  <2> QED
    BY <2>2, <2>3
<1>6. Cardinality(S) \in Nat /\ Cardinality(Under(S, R, i)) \in Nat
  BY <1>1, <1>2, FS_CardinalityType
<1> QED
  BY <1>3, <1>4, <1>5, <1>6

\* Whoever has as many before it as there are places before has the place.
LEMMA ListedIs ==
  ASSUME NEW S, IsFiniteSet(S), NEW R, StrictOrder(S, R),
         NEW place, place = [i \in S |-> 1 + Cardinality(Under(S, R, i))]
  PROVE  ListOf(Listed(place), S, R)
<1> DEFINE n == Cardinality(S)
           s == Listed(place)
<1>1. n \in Nat /\ IsFiniteSet(1..n) /\ Cardinality(1..n) = n
  BY FS_CardinalityType, FS_Interval
<1>2. ASSUME NEW i \in S PROVE place[i] \in 1..n
  BY <1>1, UnderGrows
<1>3. ASSUME NEW i \in S, NEW j \in S, <<i, j>> \in R PROVE place[i] < place[j]
  <2>1. /\ Cardinality(Under(S, R, i)) < Cardinality(Under(S, R, j))
        /\ Cardinality(Under(S, R, i)) \in 0..n - 1 /\ Cardinality(Under(S, R, j)) \in 0..n - 1
    BY <1>3, UnderGrows
  <2>2. place[i] = 1 + Cardinality(Under(S, R, i)) /\ place[j] = 1 + Cardinality(Under(S, R, j))
    OBVIOUS
  <2> HIDE DEF n
  <2> QED
    BY <2>1, <2>2, <1>1
<1>4. ASSUME NEW i \in S, NEW j \in S, place[i] = place[j] PROVE i = j
  <2>1. ~(place[i] < place[j]) /\ ~(place[j] < place[i])
    BY <1>1, <1>2, <1>4
  <2> QED
    BY <1>3, <2>1 DEF StrictOrder
<1>5. place \in Injection(S, 1..n)
  <2>1. place \in [S -> 1..n]
    BY <1>2
  <2> HIDE DEF n
  <2> QED
    BY <1>4, <2>1 DEF Injection, IsInjective
<1>6. place \in Surjection(S, 1..n)
  <2> HIDE DEF n
  <2>1. n = Cardinality(S)
    BY DEF n
  <2> QED
    BY <1>1, <1>5, <2>1, FS_Injection
<1>7. \A k \in 1..n : \E i \in S : place[i] = k
  BY <1>6 DEF Surjection
<1>8. /\ s = [k \in 1..n |-> s[k]] /\ DOMAIN s = 1..n
      /\ \A k \in 1..n : s[k] \in S /\ place[s[k]] = k
  BY <1>7 DEF Listed
<1>9. \A i \in S : s[place[i]] = i
  BY <1>2, <1>4, <1>8
<1>10. s \in Seq(S) /\ Len(s) = n
  <2>1. n \in Nat /\ s = [k \in 1..n |-> s[k]] /\ \A k \in 1..n : s[k] \in S
    BY <1>1, <1>8
  <2> HIDE DEF s, n
  <2> QED
    BY <2>1
<1>11. ASSUME NEW k \in 1..n, NEW l \in 1..n, k < l PROVE <<s[k], s[l]>> \in R
  <2> HIDE DEF s, n
  <2>1. s[k] \in S /\ s[l] \in S /\ place[s[k]] = k /\ place[s[l]] = l
    BY <1>8
  <2>2. s[k] # s[l] /\ ~(l < k)
    BY <1>1, <1>11, <2>1
  <2>3. ASSUME <<s[l], s[k]>> \in R PROVE FALSE
    <3>1. place[s[l]] < place[s[k]]
      BY <1>3, <2>1, <2>3
    <3> QED
      BY <2>1, <2>2, <3>1
  <2> QED
    BY <2>1, <2>2, <2>3 DEF StrictOrder
<1> HIDE DEF s
<1> QED
  BY <1>1, <1>2, <1>8, <1>9, <1>10, <1>11 DEF ListOf, s

\* There is one list of a set in an order.
LEMMA ListsAgree ==
  ASSUME NEW S, NEW R, StrictOrder(S, R), NEW s, ListOf(s, S, R), NEW t, ListOf(t, S, R)
  PROVE  s = t
<1> DEFINE bad == {k \in 1..Len(s) : s[k] # t[k]}
<1>0. Len(s) = Len(t) /\ Len(s) \in Nat
  BY DEF ListOf
<1>1. bad = {}
  <2> SUFFICES ASSUME bad # {} PROVE FALSE
    OBVIOUS
  <2>1. bad \in SUBSET Nat
    BY <1>0
  <2>2. PICK k \in bad : \A l \in bad : k <= l
    BY <2>1, LeastOf
  <2>3. k \in 1..Len(s) /\ s[k] # t[k] /\ s[k] \in S /\ t[k] \in S
    BY <1>0 DEF ListOf
  <2>4. ASSUME NEW l \in 1..Len(s), l < k PROVE s[l] = t[l]
    BY <1>0, <2>2, <2>3, <2>4
  <2>5. PICK l \in 1..Len(s) : t[l] = s[k]
    BY <1>0, <2>3 DEF ListOf
  <2>6. PICK m \in 1..Len(s) : s[m] = t[k]
    BY <1>0, <2>3 DEF ListOf
  <2>7. l # k /\ m # k
    BY <2>3, <2>5, <2>6
  <2>8. ~(l < k)
    <3> SUFFICES ASSUME l < k PROVE FALSE
      OBVIOUS
    <3>1. s[l] = s[k] /\ <<s[l], s[k]>> \in R
      BY <2>3, <2>4, <2>5 DEF ListOf
    <3> QED
      BY <3>1, <2>3 DEF StrictOrder
  <2>9. ~(m < k)
    <3> SUFFICES ASSUME m < k PROVE FALSE
      OBVIOUS
    <3>1. t[m] = t[k] /\ <<t[m], t[k]>> \in R
      BY <1>0, <2>3, <2>4, <2>6 DEF ListOf
    <3> QED
      BY <3>1, <2>3 DEF StrictOrder
  <2>10. k < l /\ k < m
    BY <1>0, <2>3, <2>7, <2>8, <2>9
  <2>11. <<s[k], s[m]>> \in R /\ <<t[k], t[l]>> \in R
    BY <1>0, <2>3, <2>10 DEF ListOf
  <2>12. <<s[k], t[k]>> \in R /\ <<t[k], s[k]>> \in R
    BY <2>5, <2>6, <2>11
  <2> QED
    BY <2>3, <2>12 DEF StrictOrder
<1>2. s \in Seq(S) /\ t \in Seq(S) /\ \A k \in 1..Len(s) : s[k] = t[k]
  BY <1>1 DEF ListOf
<1> QED
  BY <1>0, <1>2, SeqEqual

\* A list holds what it is a list of.
LEMMA RangeOfList ==
  ASSUME NEW S, NEW R, NEW s, ListOf(s, S, R)
  PROVE  Range(s) = S
BY DEF ListOf, Range

LEMMA SuborderIs ==
  ASSUME NEW S, NEW R, StrictOrder(S, R), NEW T \in SUBSET S
  PROVE  StrictOrder(T, R)
BY DEF StrictOrder

\* A list that is cut is a list of some of the elements.
LEMMA LeastIs ==
  ASSUME NEW S, NEW R, NEW s, ListOf(s, S, R), NEW n \in Nat, StrictOrder(S, R)
  PROVE  \E P \in SUBSET S :
           /\ ListOf(Least(n, s), P, R)
           /\ Cardinality(P) = IF n <= Cardinality(S) THEN n ELSE Cardinality(S)
           /\ Cardinality(S) <= n => P = S
<1> DEFINE m == IF n <= Len(s) THEN n ELSE Len(s)
           t == Least(n, s)
           P == {s[k] : k \in 1..m}
<1>1. Len(s) \in Nat /\ m \in Nat /\ m <= Len(s) /\ IsFiniteSet(S) /\ Len(s) = Cardinality(S)
  BY DEF ListOf
<1>2. Min({n, Len(s)}) = m
  BY <1>1 DEF Min
<1>3. \A k \in 1..m : s[k] \in P
  OBVIOUS
<1>4. P \in SUBSET S /\ IsFiniteSet(P)
  <2>1. P \in SUBSET S
    BY <1>1 DEF ListOf
  <2> QED
    BY <1>1, <2>1, FS_Subset
<1> HIDE DEF m, P
<1>5. t \in Seq(P) /\ Len(t) = m /\ \A k \in 1..m : t[k] = s[k]
  <2>1. /\ SubSeq(s, 1, m) \in Seq(P)
        /\ Len(SubSeq(s, 1, m)) = IF 1 <= m THEN m - 1 + 1 ELSE 0
        /\ \A k \in 1..m - 1 + 1 : SubSeq(s, 1, m)[k] = s[1 + k - 1]
    BY <1>1, <1>3, SubSeqProperties
  <2>2. t = SubSeq(s, 1, m)
    BY <1>2 DEF Least
  <2> HIDE DEF t
  <2> QED
    BY <1>1, <2>1, <2>2
<1> HIDE DEF t
<1>6. \A k \in 1..m : k \in 1..Len(s)
  BY <1>1
<1>7. Cardinality(P) = m
  <2>1. PICK f : f = [k \in 1..m |-> s[k]]
    OBVIOUS
  <2>2. \A k, l \in 1..m : s[k] = s[l] => k = l
    <3>1. ASSUME NEW k \in 1..m, NEW l \in 1..m, k < l PROVE s[k] # s[l]
      BY <1>6, <3>1 DEF ListOf, StrictOrder
    <3> QED
      BY <1>1, <3>1
  <2>3. f \in [1..m -> P]
    BY <1>3, <2>1
  <2>4. f \in Injection(1..m, P)
    BY <2>1, <2>2, <2>3 DEF Injection, IsInjective
  <2>5. f \in Surjection(1..m, P)
    BY <2>1, <2>3 DEF Surjection, P
  <2>6. ExistsBijection(1..m, P)
    BY <2>4, <2>5 DEF ExistsBijection, Bijection
  <2>7. IsFiniteSet(1..m) /\ Cardinality(1..m) = m
    BY <1>1, FS_Interval
  <2> QED
    BY <2>6, <2>7, FS_Bijection
<1>8. \A k, l \in 1..m : k < l => <<t[k], t[l]>> \in R
  BY <1>5, <1>6 DEF ListOf
<1>9. \A i \in P : \E k \in 1..m : t[k] = i
  BY <1>5 DEF P
<1>10. DOMAIN t = 1..m
  BY <1>5
<1>11. ListOf(t, P, R)
  <2>1. \A k \in 1..Len(t) : t[k] \in P
    BY <1>3, <1>5
  <2> QED
    BY <1>1, <1>4, <1>5, <1>7, <1>8, <1>9, <1>10, <2>1 DEF ListOf
<1>12. Cardinality(S) <= n => P = S
  <2> SUFFICES ASSUME Cardinality(S) <= n PROVE P = S
    OBVIOUS
  <2>1. m = Len(s)
    BY <1>1 DEF m
  <2> QED
    BY <1>1, <1>4, <1>7, <2>1, FS_Subset
<1>13. Cardinality(P) = IF n <= Cardinality(S) THEN n ELSE Cardinality(S)
  BY <1>1, <1>7 DEF m
<1> QED
  BY <1>4, <1>11, <1>12, <1>13 DEF t

\* What of a list is in a set is a list again, in the order of the list.
LEMMA OnlyIs ==
  ASSUME NEW S, NEW R, NEW s, ListOf(s, S, R), StrictOrder(S, R), NEW T
  PROVE  ListOf(Only(s, T), S \cap T, R)
<1> DEFINE at == {k \in DOMAIN s : s[k] \in T}
           place == [k \in at |-> 1 + Cardinality({l \in at : l < k})]
           kept == Listed(place)
           C == S \cap T
           t == [n \in DOMAIN kept |-> s[kept[n]]]
           L == {p \in Nat \X Nat : p[1] < p[2]}
<1>1. Len(s) \in Nat /\ at \in SUBSET (1..Len(s)) /\ IsFiniteSet(at) /\ IsFiniteSet(C)
  <2>1. Len(s) \in Nat /\ at \in SUBSET (1..Len(s))
    BY DEF ListOf
  <2>2. IsFiniteSet(1..Len(s))
    BY <2>1, FS_Interval
  <2> QED
    BY <2>1, <2>2, FS_Subset, FS_Intersection DEF ListOf
<1>2. StrictOrder(at, L)
  <2>1. at \in SUBSET Nat
    BY <1>1
  <2>2. \A x, y \in Nat : <<x, y>> \in L <=> x < y
    OBVIOUS
  <2> HIDE DEF L, at
  <2> QED
    BY <2>1, <2>2 DEF StrictOrder
<1>3. ASSUME NEW k \in at PROVE {l \in at : l < k} = Under(at, L, k)
  <2>1. at \in SUBSET Nat
    BY <1>1
  <2> HIDE DEF at
  <2> QED
    BY <2>1 DEF Under
<1>4. place = [k \in at |-> 1 + Cardinality(Under(at, L, k))]
  <2> HIDE DEF at, L
  <2> QED
    BY <1>3
<1>5. ListOf(kept, at, L)
  <2> HIDE DEF at, L, place
  <2> QED
    BY <1>1, <1>2, <1>4, ListedIs
<1>6. \A k \in at : s[k] \in C
  BY DEF ListOf
<1>7. \A i \in C : \E k \in at : s[k] = i
  BY DEF ListOf
<1>8. \A k, l \in at : k < l => <<s[k], s[l]>> \in R
  BY DEF ListOf
<1>9. Cardinality(at) = Cardinality(C)
  <2> HIDE DEF at, C
  <2>1. PICK f : f = [k \in at |-> s[k]]
    OBVIOUS
  <2>2. \A k, l \in at : s[k] = s[l] => k = l
    <3>1. ASSUME NEW k \in at, NEW l \in at, k < l PROVE s[k] # s[l]
      <4>1. s[k] \in S /\ <<s[k], s[l]>> \in R
        BY <1>6, <1>8, <3>1 DEF C
      <4> QED
        BY <4>1 DEF StrictOrder
    <3> QED
      BY <1>1, <3>1
  <2>3. f \in [at -> C]
    BY <1>6, <2>1
  <2>4. f \in Injection(at, C)
    BY <2>1, <2>2, <2>3 DEF Injection, IsInjective
  <2>5. f \in Surjection(at, C)
    BY <1>7, <2>1, <2>3 DEF Surjection
  <2>6. ExistsBijection(at, C)
    BY <2>4, <2>5 DEF ExistsBijection, Bijection
  <2> QED
    BY <1>1, <2>6, FS_Bijection
<1> HIDE DEF at, C, kept, place
<1>10. /\ DOMAIN kept = 1..Cardinality(C) /\ Cardinality(C) \in Nat
       /\ \A n \in 1..Cardinality(C) : kept[n] \in at
       /\ \A k \in at : \E n \in 1..Cardinality(C) : kept[n] = k
       /\ \A n, m \in 1..Cardinality(C) : n < m => kept[n] < kept[m]
  <2>1. \A x, y \in Nat : <<x, y>> \in L => x < y
    OBVIOUS
  <2>2. at \in SUBSET Nat
    BY <1>1
  <2> HIDE DEF L
  <2> QED
    BY <1>5, <1>9, <2>1, <2>2 DEF ListOf
<1>11. /\ DOMAIN t = 1..Cardinality(C)
       /\ \A n \in 1..Cardinality(C) : t[n] \in C /\ t[n] = s[kept[n]]
  BY <1>6, <1>10
<1>12. t \in Seq(C) /\ Len(t) = Cardinality(C)
  <2>1. t = [n \in 1..Cardinality(C) |-> t[n]]
    BY <1>10
  <2> HIDE DEF t
  <2> QED
    BY <1>10, <1>11, <2>1
<1>13. \A i \in C : \E n \in 1..Cardinality(C) : t[n] = i
  BY <1>7, <1>10, <1>11
<1>14. \A n, m \in 1..Cardinality(C) : n < m => <<t[n], t[m]>> \in R
  BY <1>8, <1>10, <1>11
<1>15. t = Only(s, T)
  BY DEF Only, at, kept, place
<1> HIDE DEF t
<1>16. ListOf(t, C, R)
  BY <1>1, <1>10, <1>11, <1>12, <1>13, <1>14 DEF ListOf
<1> QED
  BY <1>15, <1>16 DEF C

-----------------------------------------------------------------------------
(* RecordReads: events and lists of events                                    *)

USE ReadsAssumption

Typed == ledger \in Seq(Event)

LEMMA LimitsAre ==
  /\ EventsLimit \in Nat \ {0} /\ InboxLimit \in Nat \ {0} /\ MineLimit \in Nat \ {0}
  /\ LiveLimit \in Nat \ {0} /\ ReadLimit \in Nat \ {0} /\ MaxEvents \in Nat \ {0}
  /\ Rate["labor"] \in Nat /\ Rate["equipment"] \in Nat /\ Rate["material"] \in Nat
BY DEF ReadsAssumption

LEMMA KindIs ==
  Kind = {"timesheet", "utilization", "state_changed", "delivered", "consumed", "flagged"}
BY DEF Kind, About

LEMMA EventIs ==
  ASSUME Typed, NEW i \in Recorded
  PROVE  /\ ledger[i] \in Event
         /\ ledger[i] \in [kind: Kind, time: Time,
                           status: {"confirmed", "proposed", "rejected"},
                           actor: User \cup {None}, payload: UNION {Payloads[k] : k \in Kind}]
         /\ ledger[i].kind \in Kind /\ ledger[i].time \in Nat
         /\ ledger[i].status \in {"confirmed", "proposed", "rejected"}
         /\ ledger[i].actor \in User \cup {None}
         /\ ledger[i].payload \in Payloads[ledger[i].kind]
<1>1. i \in 1..Len(ledger)
  BY LenProperties DEF Typed, Recorded
<1>2. ledger[i] \in Event
  BY <1>1, ElementOfSeq DEF Typed
<1> QED
  BY <1>2 DEF Event

LEMMA PayloadIs ==
  ASSUME Typed, NEW i \in Recorded
  PROVE  /\ ledger[i].kind = "timesheet" => ledger[i].payload = [hours |-> 3, behaviour |-> 1]
         /\ ledger[i].kind = "utilization" => ledger[i].payload = [idle |-> 2]
         /\ ledger[i].kind = "state_changed" =>
              ledger[i].payload \in {[state |-> "idle"], [state |-> "operating"]}
         /\ ledger[i].kind \in {"delivered", "consumed"} => ledger[i].payload = [quantity |-> 1]
         /\ ledger[i].kind = "flagged" => ledger[i].payload = [severity |-> "unknown"]
BY EventIs DEF Payloads

LEMMA FieldIs ==
  ASSUME Typed, NEW i \in Recorded
  PROVE  /\ ledger[i].kind = "timesheet" => Field(i, "hours") = 3 /\ Field(i, "behaviour") = 1
         /\ ledger[i].kind # "timesheet" => Field(i, "hours") = 0 /\ Field(i, "behaviour") = 0
         /\ ledger[i].kind = "utilization" => Field(i, "idle") = 2
         /\ ledger[i].kind # "utilization" => Field(i, "idle") = 0
         /\ ledger[i].kind \in {"delivered", "consumed"} => Field(i, "quantity") = 1
<1>1. ledger[i].kind \in Kind
  BY EventIs
<1>2. CASE ledger[i].kind = "timesheet"
  <2>1. PICK p : p = ledger[i].payload /\ p = [hours |-> 3, behaviour |-> 1]
    BY <1>2, PayloadIs
  <2>2. DOMAIN p = {"hours", "behaviour"} /\ p.hours = 3 /\ p.behaviour = 1
    BY <2>1
  <2> QED
    BY <1>2, <2>1, <2>2 DEF Field
<1>3. CASE ledger[i].kind = "utilization"
  <2>1. PICK p : p = ledger[i].payload /\ p = [idle |-> 2]
    BY <1>3, PayloadIs
  <2>2. DOMAIN p = {"idle"} /\ p.idle = 2
    BY <2>1
  <2> QED
    BY <1>3, <2>1, <2>2 DEF Field
<1>4. CASE ledger[i].kind = "state_changed"
  <2>1. PICK p : p = ledger[i].payload /\ p \in {[state |-> "idle"], [state |-> "operating"]}
    BY <1>4, PayloadIs
  <2>2. DOMAIN p = {"state"}
    BY <2>1
  <2> QED
    BY <1>4, <2>1, <2>2 DEF Field
<1>5. CASE ledger[i].kind \in {"delivered", "consumed"}
  <2>1. PICK p : p = ledger[i].payload /\ p = [quantity |-> 1]
    BY <1>5, PayloadIs
  <2>2. DOMAIN p = {"quantity"} /\ p.quantity = 1
    BY <2>1
  <2> QED
    BY <1>5, <2>1, <2>2 DEF Field
<1>6. CASE ledger[i].kind = "flagged"
  <2>1. PICK p : p = ledger[i].payload /\ p = [severity |-> "unknown"]
    BY <1>6, PayloadIs
  <2>2. DOMAIN p = {"severity"}
    BY <2>1
  <2> QED
    BY <1>6, <2>1, <2>2 DEF Field
<1> QED
  BY <1>1, <1>2, <1>3, <1>4, <1>5, <1>6, KindIs

\* The two orders of a list.
Forward == {p \in Recorded \X Recorded : Before(p[1], p[2])}
Backward == {p \in Recorded \X Recorded : After(p[1], p[2])}

LEMMA OrdersAre ==
  ASSUME Typed
  PROVE  StrictOrder(Recorded, Forward) /\ StrictOrder(Recorded, Backward)
<1>1. PICK N, time : N = Recorded /\ time = [i \in Recorded |-> ledger[i].time]
  OBVIOUS
<1>2. \A i \in N : time[i] \in Nat /\ i \in Nat
  <2>1. \A i \in Recorded : ledger[i].time \in Nat
    BY EventIs
  <2>2. \A i \in Recorded : i \in Nat
    BY RecordedIsFinite DEF Typed
  <2> QED
    BY <1>1, <2>1, <2>2
<1>3. PICK F : F = Forward
  OBVIOUS
<1>4. ASSUME NEW i \in N, NEW j \in N
      PROVE  <<i, j>> \in F <=> time[i] < time[j] \/ (time[i] = time[j] /\ i < j)
  <2>1. <<i, j>> \in F <=> Before(i, j)
    BY <1>1, <1>3 DEF Forward
  <2>2. time[i] = ledger[i].time /\ time[j] = ledger[j].time
    BY <1>1
  <2> QED
    BY <2>1, <2>2 DEF Before
<1>5. PICK B : B = Backward
  OBVIOUS
<1>6. ASSUME NEW i \in N, NEW j \in N
      PROVE  <<i, j>> \in B <=> time[i] > time[j] \/ (time[i] = time[j] /\ i < j)
  <2>1. <<i, j>> \in B <=> After(i, j)
    BY <1>1, <1>5 DEF Backward
  <2>2. time[i] = ledger[i].time /\ time[j] = ledger[j].time
    BY <1>1
  <2> QED
    BY <2>1, <2>2 DEF After
<1>7. StrictOrder(N, F)
  BY ONLY <1>2, <1>4 DEF StrictOrder
<1>8. StrictOrder(N, B)
  BY ONLY <1>2, <1>6 DEF StrictOrder
<1> QED
  BY <1>1, <1>3, <1>5, <1>7, <1>8

\* What a query gives: all of S that there is room for, in the order asked for.
LEMMA AscIs ==
  ASSUME Typed, NEW S \in SUBSET Recorded, NEW n \in Nat
  PROVE  \E P \in SUBSET S :
           /\ ListOf(Asc(S, n), P, Forward)
           /\ Cardinality(P) = IF n <= Cardinality(S) THEN n ELSE Cardinality(S)
           /\ Cardinality(S) <= n => P = S
<1> DEFINE place == [i \in S |-> 1 + Cardinality({j \in S : Before(j, i)})]
<1>1. StrictOrder(S, Forward) /\ IsFiniteSet(S)
  BY OrdersAre, SuborderIs, RecordedIsFinite DEF Typed
<1>2. \A i \in S : {j \in S : Before(j, i)} = Under(S, Forward, i)
  BY DEF Under, Forward
<1>3. place = [i \in S |-> 1 + Cardinality(Under(S, Forward, i))]
  BY <1>2
<1>4. Asc(S, n) = Least(n, Listed(place))
  BY DEF Asc
<1> HIDE DEF place
<1>5. ListOf(Listed(place), S, Forward)
  BY <1>1, <1>3, ListedIs
<1> QED
  BY <1>1, <1>4, <1>5, LeastIs

LEMMA DescIs ==
  ASSUME Typed, NEW S \in SUBSET Recorded, NEW n \in Nat
  PROVE  \E P \in SUBSET S :
           /\ ListOf(Desc(S, n), P, Backward)
           /\ Cardinality(P) = IF n <= Cardinality(S) THEN n ELSE Cardinality(S)
           /\ Cardinality(S) <= n => P = S
<1> DEFINE place == [i \in S |-> 1 + Cardinality({j \in S : After(j, i)})]
<1>1. StrictOrder(S, Backward) /\ IsFiniteSet(S)
  BY OrdersAre, SuborderIs, RecordedIsFinite DEF Typed
<1>2. \A i \in S : {j \in S : After(j, i)} = Under(S, Backward, i)
  BY DEF Under, Backward
<1>3. place = [i \in S |-> 1 + Cardinality(Under(S, Backward, i))]
  BY <1>2
<1>4. Desc(S, n) = Least(n, Listed(place))
  BY DEF Desc
<1> HIDE DEF place
<1>5. ListOf(Listed(place), S, Backward)
  BY <1>1, <1>3, ListedIs
<1> QED
  BY <1>1, <1>4, <1>5, LeastIs

\* What of a list of events is in a set.
LEMMA OnlyEvents ==
  ASSUME Typed, NEW P \in SUBSET Recorded, NEW R \in {Forward, Backward},
         NEW s, ListOf(s, P, R), NEW T
  PROVE  /\ ListOf(Only(s, T), P \cap T, R)
         /\ Range(Only(s, T)) = P \cap T /\ Range(s) = P
<1>1. StrictOrder(P, R)
  BY OrdersAre, SuborderIs
<1>2. ListOf(Only(s, T), P \cap T, R)
  BY <1>1, OnlyIs
<1> QED
  BY <1>2, RangeOfList

\* A query that has room for the answer gives the same as one that selects afterwards.
LEMMA AscAll ==
  ASSUME Typed, NEW S \in SUBSET Recorded, NEW n \in Nat, Len(ledger) <= n
  PROVE  ListOf(Asc(S, n), S, Forward) /\ Range(Asc(S, n)) = S
<1>1. Cardinality(S) <= n
  BY RecordedIsFinite DEF Typed
<1>2. ListOf(Asc(S, n), S, Forward)
  BY <1>1, AscIs
<1> QED
  BY <1>2, RangeOfList

LEMMA DescAll ==
  ASSUME Typed, NEW S \in SUBSET Recorded, NEW n \in Nat, Len(ledger) <= n
  PROVE  ListOf(Desc(S, n), S, Backward) /\ Range(Desc(S, n)) = S
<1>1. Cardinality(S) <= n
  BY RecordedIsFinite DEF Typed
<1>2. ListOf(Desc(S, n), S, Backward)
  BY <1>1, DescIs
<1> QED
  BY <1>2, RangeOfList

-----------------------------------------------------------------------------
(* RecordReads: types, and what a machine is shown to do                      *)

\* What a step does to the record: an event more, or another status of one.
LEMMA WriteTypes ==
  ASSUME ReadsTypeOK, NEW e \in Event, Write(e)
  PROVE  /\ ReadsTypeOK' /\ Recorded \in SUBSET Recorded'
         /\ \A i \in Recorded : ledger'[i] = ledger[i]
         /\ live' = [live EXCEPT !.fresh = FALSE]
<1>1. /\ ledger' = Append(ledger, e) /\ Len(ledger) < MaxEvents
      /\ live' = [live EXCEPT !.fresh = FALSE]
  BY DEF Write
<1>2. ledger \in Seq(Event) /\ Len(ledger) \in Nat /\ Recorded = 1..Len(ledger)
  BY RecordedIsFinite DEF ReadsTypeOK
<1>3. /\ ledger' \in Seq(Event) /\ Len(ledger') = Len(ledger) + 1
      /\ \A i \in 1..Len(ledger) : ledger'[i] = ledger[i]
  BY <1>1, <1>2, AppendProperties
<1>4. Recorded' = 1..Len(ledger) + 1
  BY <1>2, <1>3, LenProperties DEF Recorded
<1>5. Recorded \in SUBSET Recorded'
  BY <1>2, <1>4
<1>6. live' \in [state: {"idle", "operating"}, folded: SUBSET Recorded', fresh: BOOLEAN]
  <2>1. live \in [state: {"idle", "operating"}, folded: SUBSET Recorded, fresh: BOOLEAN]
    BY DEF ReadsTypeOK
  <2>2. live \in [state: {"idle", "operating"}, folded: SUBSET Recorded', fresh: BOOLEAN]
    BY <1>5, <2>1
  <2> QED
    BY <1>1, <2>2
<1>7. Len(ledger') <= MaxEvents
  BY <1>1, <1>2, <1>3, LimitsAre
<1> QED
  BY <1>1, <1>2, <1>3, <1>5, <1>6, <1>7 DEF ReadsTypeOK

LEMMA ReviewTypes ==
  ASSUME ReadsTypeOK, NEW i \in Recorded, NEW v \in {"confirmed", "rejected"},
         ledger' = [ledger EXCEPT ![i].status = v], live' = [live EXCEPT !.fresh = FALSE]
  PROVE  /\ ReadsTypeOK' /\ Recorded' = Recorded
         /\ \A j \in Recorded : ledger'[j].kind = ledger[j].kind
<1>1. ledger \in Seq(Event) /\ Len(ledger) \in Nat /\ Recorded = 1..Len(ledger) /\ Typed
  BY RecordedIsFinite DEF ReadsTypeOK, Typed
<1>2. PICK r, e : r = ledger[i] /\ e = [r EXCEPT !.status = v]
  OBVIOUS
<1>3. /\ r \in [kind: Kind, time: Time, status: {"confirmed", "proposed", "rejected"},
                actor: User \cup {None}, payload: UNION {Payloads[k] : k \in Kind}]
      /\ r.payload \in Payloads[r.kind]
  BY <1>1, <1>2, EventIs
<1>4. /\ e \in [kind: Kind, time: Time, status: {"confirmed", "proposed", "rejected"},
                actor: User \cup {None}, payload: UNION {Payloads[k] : k \in Kind}]
      /\ e.kind = r.kind /\ e.payload = r.payload
  BY ONLY <1>2, <1>3, v \in {"confirmed", "rejected"}
<1>5. e \in Event
  BY <1>3, <1>4 DEF Event
<1>6. ledger' = [ledger EXCEPT ![i] = e]
  BY <1>2
<1>7. /\ ledger' \in Seq(Event) /\ Len(ledger') = Len(ledger)
      /\ \A j \in 1..Len(ledger) : ledger'[j] = IF j = i THEN e ELSE ledger[j]
  <2>1. i \in 1..Len(ledger) /\ ledger \in Seq(Event)
    BY <1>1
  <2>2. /\ [ledger EXCEPT ![i] = e] \in Seq(Event)
        /\ Len([ledger EXCEPT ![i] = e]) = Len(ledger)
        /\ \A j \in 1..Len(ledger) :
             [ledger EXCEPT ![i] = e][j] = IF j = i THEN e ELSE ledger[j]
    BY ONLY <1>5, <2>1, ExceptSeq
  <2> QED
    BY <1>6, <2>2
<1>8. Recorded' = Recorded
  BY <1>1, <1>7, LenProperties DEF Recorded
<1>9. live' \in [state: {"idle", "operating"}, folded: SUBSET Recorded, fresh: BOOLEAN]
  BY DEF ReadsTypeOK
<1>10. \A j \in Recorded : ledger'[j].kind = ledger[j].kind
  BY <1>1, <1>2, <1>4, <1>7
<1> QED
  BY <1>7, <1>8, <1>9, <1>10 DEF ReadsTypeOK

\* What is written is an event.
LEMMA ObserveWrites ==
  ASSUME NEW t \in Time, NEW k \in Kind, Observe(k, t)
  PROVE  \E e \in Event : Write(e)
<1>1. PICK p \in Payloads[k], s \in {"confirmed", "proposed"} :
        Write([kind |-> k, time |-> t, status |-> s, actor |-> None, payload |-> p])
  BY DEF Observe
<1>2. [kind |-> k, time |-> t, status |-> s, actor |-> None, payload |-> p] \in Event
  BY DEF Event
<1> QED
  BY <1>1, <1>2

LEMMA ProposeWrites ==
  ASSUME NEW t \in Time, NEW u \in User, Propose(u, t)
  PROVE  \E e \in Event : Write(e)
<1>1. PICK k \in {"delivered", "flagged"} : \E p \in Payloads[k] :
        Write([kind |-> k, time |-> t, status |-> "proposed", actor |-> u, payload |-> p])
  BY DEF Propose
<1>2. PICK p \in Payloads[k] :
        Write([kind |-> k, time |-> t, status |-> "proposed", actor |-> u, payload |-> p])
  BY <1>1
<1>3. k \in Kind
  BY KindIs
<1>4. [kind |-> k, time |-> t, status |-> "proposed", actor |-> u, payload |-> p] \in Event
  BY <1>3 DEF Event
<1> QED
  BY <1>2, <1>4

LEMMA EnterWrites ==
  ASSUME NEW t \in Time, NEW u \in User, Enter(u, t)
  PROVE  \E e \in Event : Write(e)
<1>1. PICK p \in Payloads["consumed"] :
        Write([kind |-> "consumed", time |-> t, status |-> "confirmed", actor |-> u,
               payload |-> p])
  BY DEF Enter
<1>2. "consumed" \in Kind
  BY KindIs
<1>3. [kind |-> "consumed", time |-> t, status |-> "confirmed", actor |-> u, payload |-> p]
        \in Event
  BY <1>2 DEF Event
<1> QED
  BY <1>1, <1>3

\* The rows a live source is folded from are rows of the record.
LEMMA ToldIs ==
  ASSUME Typed
  PROVE  LET told == Only(LiveRows, OfKind("state_changed"))
             sure == Having({"confirmed"}) \cap OfKind("state_changed") IN
         \E P \in SUBSET sure :
           /\ ListOf(told, P, Forward) /\ Range(told) = P
           /\ Cardinality(Having({"confirmed"})) <= LiveLimit => P = sure
<1>1. Having({"confirmed"}) \in SUBSET Recorded /\ LiveLimit \in Nat
  BY LimitsAre DEF Having
<1>2. PICK Q \in SUBSET Having({"confirmed"}) :
        /\ ListOf(LiveRows, Q, Forward)
        /\ Cardinality(Having({"confirmed"})) <= LiveLimit => Q = Having({"confirmed"})
  BY <1>1, AscIs DEF LiveRows
<1>3. /\ ListOf(Only(LiveRows, OfKind("state_changed")), Q \cap OfKind("state_changed"), Forward)
      /\ Range(Only(LiveRows, OfKind("state_changed"))) = Q \cap OfKind("state_changed")
  BY <1>1, <1>2, OnlyEvents
<1> QED
  BY <1>2, <1>3

LEMMA RefreshTypes ==
  ASSUME ReadsTypeOK, Refresh
  PROVE  /\ ReadsTypeOK' /\ UNCHANGED ledger
         /\ live'.folded \in SUBSET (live.folded \cup OfKind("state_changed"))
<1> DEFINE told == Only(LiveRows, OfKind("state_changed"))
<1>1. /\ live' = [state |-> IF told = <<>> THEN live.state
                            ELSE ledger[told[Len(told)]].payload.state,
                  folded |-> live.folded \cup Range(told), fresh |-> TRUE]
      /\ UNCHANGED ledger
  BY DEF Refresh
<1>2. Typed
  BY DEF ReadsTypeOK, Typed
<1>3. PICK P \in SUBSET (Having({"confirmed"}) \cap OfKind("state_changed")) :
        ListOf(told, P, Forward) /\ Range(told) = P
  BY <1>2, ToldIs
<1> HIDE DEF told
<1>4. P \in SUBSET Recorded /\ P \in SUBSET OfKind("state_changed")
  BY DEF OfKind
<1>5. live.state \in {"idle", "operating"} /\ live.folded \in SUBSET Recorded
  BY DEF ReadsTypeOK
<1>6. ASSUME told # <<>> PROVE ledger[told[Len(told)]].payload.state \in {"idle", "operating"}
  <2>1. told \in Seq(P) /\ Len(told) \in Nat
    BY <1>3 DEF ListOf
  <2>2. Len(told) \in 1..Len(told)
    BY <1>6, <2>1, EmptySeq
  <2>3. told[Len(told)] \in P
    BY <1>3, <2>2 DEF ListOf
  <2>4. PICK i \in Recorded : i = told[Len(told)] /\ ledger[i].kind = "state_changed"
    BY <2>3, <1>4 DEF OfKind
  <2> QED
    BY <1>2, <2>4, PayloadIs
<1>7. /\ live'.folded = live.folded \cup P
      /\ live' \in [state: {"idle", "operating"}, folded: SUBSET Recorded, fresh: BOOLEAN]
  BY <1>1, <1>3, <1>4, <1>5, <1>6
<1>8. Recorded' = Recorded
  BY <1>1 DEF Recorded
<1> QED
  BY <1>1, <1>4, <1>7, <1>8 DEF ReadsTypeOK

LEMMA RebuildTypes ==
  ASSUME ReadsTypeOK, Rebuild
  PROVE  ReadsTypeOK' /\ UNCHANGED ledger
BY DEF ReadsTypeOK, Rebuild, Recorded, Layout

\* Types hold of every reachable state: the record stays a sequence of events
\* within its bound, and what a live source has folded in is in the record
\* (services/event_ledger.py, state/live_source.py).
THEOREM ReadsTypeCorrect == ReadsSpec => []ReadsTypeOK
<1>1. ReadsInit => ReadsTypeOK
  <2> SUFFICES ASSUME ReadsInit PROVE ReadsTypeOK
    OBVIOUS
  <2>1. ledger \in Seq(Event) /\ Len(ledger) = 0 /\ 0 <= MaxEvents
    BY EmptySeq, LimitsAre DEF ReadsInit
  <2>2. live \in [state: {"idle", "operating"}, folded: SUBSET Recorded, fresh: BOOLEAN]
    BY DEF ReadsInit, Layout
  <2> QED
    BY <2>1, <2>2 DEF ReadsTypeOK
<1>2. ReadsTypeOK /\ [ReadsNext]_readsVars => ReadsTypeOK'
  <2> SUFFICES ASSUME ReadsTypeOK, [ReadsNext]_readsVars PROVE ReadsTypeOK'
    OBVIOUS
  <2>1. CASE \E t \in Time, k \in Kind : Observe(k, t)
    BY <2>1, ObserveWrites, WriteTypes
  <2>2. CASE \E t \in Time, u \in User : Propose(u, t)
    BY <2>2, ProposeWrites, WriteTypes
  <2>3. CASE \E t \in Time, u \in User : Enter(u, t)
    BY <2>3, EnterWrites, WriteTypes
  <2>4. CASE \E i \in Recorded : Confirm(i)
    BY <2>4, ReviewTypes DEF Confirm
  <2>5. CASE \E i \in Recorded : Reject(i)
    BY <2>5, ReviewTypes DEF Reject
  <2>6. CASE Refresh
    BY <2>6, RefreshTypes
  <2>7. CASE Rebuild
    BY <2>7, RebuildTypes
  <2>8. CASE UNCHANGED readsVars
    BY <2>8 DEF readsVars, ReadsTypeOK, Recorded
  <2> QED
    BY <2>1, <2>2, <2>3, <2>4, <2>5, <2>6, <2>7, <2>8 DEF ReadsNext
<1> QED
  BY <1>1, <1>2, PTL DEF ReadsSpec

LEMMA GreatestOf ==
  ASSUME NEW S \in SUBSET Nat, S # {}, NEW n \in Nat, \A x \in S : x <= n
  PROVE  Max(S) \in S /\ \A y \in S : y <= Max(S)
<1> DEFINE D == {n - x : x \in S}
<1>1. D \in SUBSET Nat /\ D # {}
  <2>1. \A x \in S : n - x \in Nat
    OBVIOUS
  <2> QED
    BY <2>1
<1>2. PICK d \in D : \A e \in D : d <= e
  BY <1>1, LeastOf
<1>3. PICK x \in S : d = n - x
  BY <1>2
<1>4. ASSUME NEW y \in S PROVE x >= y
  <2>1. n - y \in D
    OBVIOUS
  <2>2. n - x <= n - y
    BY <1>2, <1>3, <2>1
  <2> QED
    BY <2>2
<1>5. Max(S) \in S /\ \A y \in S : Max(S) >= y
  BY <1>4 DEF Max
<1> QED
  BY <1>5

\* The event of T that comes last in a list of them.
Last(T, i) == i \in T /\ \A j \in T : j = i \/ <<j, i>> \in Forward

LEMMA OneLast ==
  ASSUME Typed, NEW T \in SUBSET Recorded, NEW i, Last(T, i), NEW j, Last(T, j)
  PROVE  i = j
BY OrdersAre DEF Last, StrictOrder

LEMMA HasState ==
  ASSUME Typed, NEW i \in Recorded
  PROVE  "state" \in DOMAIN ledger[i].payload <=> ledger[i].kind = "state_changed"
<1>1. PICK p : p = ledger[i].payload
  OBVIOUS
<1>2. ledger[i].kind \in Kind
  BY EventIs
<1>3. CASE ledger[i].kind = "timesheet"
  BY <1>1, <1>3, PayloadIs
<1>4. CASE ledger[i].kind = "utilization"
  BY <1>1, <1>4, PayloadIs
<1>5. CASE ledger[i].kind = "state_changed"
  BY <1>1, <1>5, PayloadIs
<1>6. CASE ledger[i].kind \in {"delivered", "consumed"}
  BY <1>1, <1>6, PayloadIs
<1>7. CASE ledger[i].kind = "flagged"
  BY <1>1, <1>7, PayloadIs
<1> QED
  BY <1>2, <1>3, <1>4, <1>5, <1>6, <1>7, KindIs

\* A fold shows the state that the last event which has one tells.
LEMMA FoldedState ==
  ASSUME Typed, NEW P \in SUBSET Recorded, NEW s, ListOf(s, P, Forward),
         P \cap OfKind("state_changed") # {}
  PROVE  \E i \in Recorded : /\ Last(P \cap OfKind("state_changed"), i)
                             /\ "state" \in DOMAIN Folded(s)
                             /\ Folded(s)["state"] = ledger[i].payload.state
<1> DEFINE K == {k \in DOMAIN s : "state" \in DOMAIN ledger[s[k]].payload}
           T == P \cap OfKind("state_changed")
<1>1. /\ Len(s) \in Nat /\ DOMAIN s = 1..Len(s)
      /\ \A k \in 1..Len(s) : s[k] \in P /\ s[k] \in Recorded
  BY DEF ListOf
<1>2. \A k \in 1..Len(s) : k \in K <=> s[k] \in T
  <2>1. \A i \in Recorded : i \in OfKind("state_changed") <=> ledger[i].kind = "state_changed"
    BY DEF OfKind
  <2> QED
    BY <1>1, <2>1, HasState
<1>3. \A i \in T : \E k \in K : s[k] = i
  BY <1>2, <1>1 DEF ListOf
<1>4. K \in SUBSET (1..Len(s)) /\ K # {}
  BY <1>1, <1>3
<1>5. Max(K) \in K /\ \A k \in K : k <= Max(K)
  <2> HIDE DEF K
  <2>1. K \in SUBSET Nat /\ \A k \in K : k <= Len(s)
    BY <1>1, <1>4
  <2> QED
    BY <1>1, <1>4, <2>1, GreatestOf
<1>6. PICK m : m = Max(K)
  OBVIOUS
<1>7. m \in 1..Len(s) /\ s[m] \in T /\ s[m] \in Recorded
  BY <1>1, <1>2, <1>4, <1>5, <1>6
<1>8. ASSUME NEW j \in T, j # s[m] PROVE <<j, s[m]>> \in Forward
  <2>1. PICK k \in K : s[k] = j
    BY <1>3
  <2>2. k < m /\ k \in 1..Len(s)
    <3>1. k \in 1..Len(s) /\ k <= m
      BY <1>4, <1>5, <1>6
    <3>2. k # m
      BY <1>8, <2>1
    <3> QED
      BY <1>1, <1>7, <3>1, <3>2
  <2> QED
    BY <1>7, <2>1, <2>2 DEF ListOf
<1>9. Last(T, s[m])
  BY <1>7, <1>8 DEF Last
<1>10. "state" \in DOMAIN Folded(s) /\ Folded(s)["state"] = ledger[s[m]].payload.state
  <2> DEFINE fields == UNION {DOMAIN ledger[s[k]].payload : k \in DOMAIN s}
             last(f) == Max({k \in DOMAIN s : f \in DOMAIN ledger[s[k]].payload})
  <2>1. Folded(s) = [f \in fields |-> ledger[s[last(f)]].payload[f]]
    BY DEF Folded
  <2>2. "state" \in fields
    BY <1>4
  <2>3. last("state") = m
    BY <1>6
  <2> HIDE DEF fields, last
  <2> QED
    BY <2>1, <2>2, <2>3
<1> QED
  BY <1>7, <1>9, <1>10

\* What is shown of the crane is the fold of its confirmed events.
MachineFold == Folded(Only(Asc(Of("equipment"), ReadLimit), Having({"confirmed"})))

LEMMA ViewerSeesMachine == GetEntity("equipment", "viewer").state = MachineFold
BY DEF GetEntity, RedactEntity, Entity, MachineFold

\* The state of the crane as anybody sees it.
LEMMA MachineState ==
  ASSUME Typed, Len(ledger) <= ReadLimit,
         OfKind("state_changed") \cap Having({"confirmed"}) # {}
  PROVE  \E i \in Recorded :
           /\ Last(OfKind("state_changed") \cap Having({"confirmed"}), i)
           /\ GetEntity("equipment", "viewer").state["state"] = ledger[i].payload.state
<1> DEFINE listed == Asc(Of("equipment"), ReadLimit)
           sure == Only(listed, Having({"confirmed"}))
           P == Of("equipment") \cap Having({"confirmed"})
<1>1. Of("equipment") \in SUBSET Recorded /\ P \in SUBSET Recorded
  BY DEF Of
<1>2. ListOf(listed, Of("equipment"), Forward)
  BY <1>1, AscAll, LimitsAre
<1>3. ListOf(sure, P, Forward)
  <2> HIDE DEF listed
  <2> QED
    BY <1>1, <1>2, OnlyEvents
<1>4. P \cap OfKind("state_changed") = OfKind("state_changed") \cap Having({"confirmed"})
  <2>1. OfKind("state_changed") \in SUBSET Of("equipment")
    BY DEF OfKind, Of, About
  <2> QED
    BY <2>1
<1> HIDE DEF P
<1>5. PICK i \in Recorded : /\ Last(P \cap OfKind("state_changed"), i)
                            /\ Folded(sure)["state"] = ledger[i].payload.state
  <2> HIDE DEF sure
  <2> QED
    BY <1>1, <1>3, <1>4, FoldedState
<1>6. GetEntity("equipment", "viewer").state = Folded(sure)
  BY ViewerSeesMachine DEF MachineFold
<1> HIDE DEF sure
<1> QED
  BY <1>4, <1>5, <1>6

MachineShows ==
  (Typed /\ Len(ledger) <= ReadLimit /\ OfKind("state_changed") \cap Having({"confirmed"}) # {})
    => \E i \in Recorded :
         /\ Last(OfKind("state_changed") \cap Having({"confirmed"}), i)
         /\ GetEntity("equipment", "viewer").state["state"] = ledger[i].payload.state

LEMMA MachineTells == MachineShows
BY MachineState DEF MachineShows

LEMMA SameMachine ==
  ASSUME Typed, ledger' = ledger, Len(ledger) <= ReadLimit,
         OfKind("state_changed") \cap Having({"confirmed"}) # {}
  PROVE  GetEntity("equipment", "viewer").state["state"]'
           = GetEntity("equipment", "viewer").state["state"]
<1> DEFINE T == OfKind("state_changed") \cap Having({"confirmed"})
<1>1. PICK i \in Recorded : /\ Last(T, i)
        /\ GetEntity("equipment", "viewer").state["state"] = ledger[i].payload.state
  BY MachineState
<1>2. MachineShows'
  BY MachineTells, PTL
<1>3. /\ Typed' /\ Len(ledger') <= ReadLimit /\ Recorded' = Recorded
      /\ OfKind("state_changed")' = OfKind("state_changed")
      /\ Having({"confirmed"})' = Having({"confirmed"})
  BY DEF Typed, OfKind, Having, Recorded
<1>4. PICK k \in Recorded : /\ Last(T, k)'
        /\ GetEntity("equipment", "viewer").state["state"]' = ledger[k].payload.state
  <2>1. T' # {}
    BY <1>3
  <2> QED
    BY <1>2, <1>3, <2>1 DEF MachineShows
<1>5. Last(T, k)
  <2>1. Forward' = Forward
    BY <1>3 DEF Forward, Before
  <2> QED
    BY <1>3, <1>4, <2>1 DEF Last
<1>6. T \in SUBSET Recorded
  BY DEF OfKind
<1>7. k = i
  BY <1>1, <1>5, <1>6, OneLast
<1> HIDE DEF T
<1> QED
  BY <1>1, <1>4, <1>7

\* What a live source has folded in tells of the crane, and one that has folded
\* in nothing shows the layout.
LiveInv == /\ live.folded \in SUBSET OfKind("state_changed")
           /\ live.folded = {} => live.state = Layout
           /\ LiveCatchesUp

LEMMA StaleIsFine == ~live.fresh => LiveCatchesUp
BY DEF LiveCatchesUp

LEMMA RefreshCatchesUp ==
  ASSUME ReadsTypeOK, LiveInv, Refresh
  PROVE  LiveInv'
<1> DEFINE told == Only(LiveRows, OfKind("state_changed"))
           sure == Having({"confirmed"}) \cap OfKind("state_changed")
<1>1. /\ live' = [state |-> IF told = <<>> THEN live.state
                            ELSE ledger[told[Len(told)]].payload.state,
                  folded |-> live.folded \cup Range(told), fresh |-> TRUE]
      /\ ledger' = ledger
  BY DEF Refresh
<1>2. Typed /\ Recorded' = Recorded
  BY <1>1 DEF ReadsTypeOK, Typed, Recorded
<1>3. PICK P \in SUBSET sure :
        /\ ListOf(told, P, Forward) /\ Range(told) = P
        /\ Cardinality(Having({"confirmed"})) <= LiveLimit => P = sure
  BY <1>2, ToldIs
<1> HIDE DEF told
<1>4. /\ P \in SUBSET OfKind("state_changed") /\ P \in SUBSET Recorded
      /\ OfKind("state_changed")' = OfKind("state_changed")
      /\ Having({"confirmed"})' = Having({"confirmed"})
  BY <1>1, <1>2 DEF OfKind, Having
<1>5. /\ told = <<>> => P = {}
      /\ told # <<>> => \E i \in P : told[Len(told)] = i /\ Last(P, i)
  <2>1. told \in Seq(P) /\ Len(told) \in Nat /\ Len(told) = Cardinality(P) /\ IsFiniteSet(P)
    BY <1>3 DEF ListOf
  <2>2. ASSUME told = <<>> PROVE P = {}
    BY <1>3, <2>2 DEF ListOf
  <2>3. ASSUME told # <<>> PROVE \E i \in P : told[Len(told)] = i /\ Last(P, i)
    <3>1. Len(told) \in 1..Len(told)
      BY <2>1, <2>3, EmptySeq
    <3>2. told[Len(told)] \in P
      BY <1>3, <3>1 DEF ListOf
    <3>3. ASSUME NEW j \in P, j # told[Len(told)] PROVE <<j, told[Len(told)]>> \in Forward
      <4>1. PICK k \in 1..Len(told) : told[k] = j
        BY <1>3 DEF ListOf
      <4>2. k < Len(told)
        BY <2>1, <3>3, <4>1
      <4> QED
        BY <1>3, <3>1, <4>1, <4>2 DEF ListOf
    <3> QED
      BY <3>2, <3>3 DEF Last
  <2> QED
    BY <2>2, <2>3
<1>6. live'.folded = live.folded \cup P
  BY <1>1, <1>3
<1>7. live'.folded \in SUBSET OfKind("state_changed")'
  BY <1>4, <1>6 DEF LiveInv
<1>8. live'.folded = {} => live'.state = Layout
  <2> SUFFICES ASSUME live'.folded = {} PROVE live'.state = Layout
    OBVIOUS
  <2>1. P = {} /\ live.folded = {}
    BY <1>6
  <2>2. told = <<>>
    BY <1>5, <2>1
  <2> QED
    BY <1>1, <2>1, <2>2 DEF LiveInv
<1>9. LiveCatchesUp'
  <2> DEFINE T == OfKind("state_changed") \cap Having({"confirmed"})
             shown == GetEntity("equipment", "viewer").state["state"]
  <2> SUFFICES ASSUME Cardinality(Having({"confirmed"})) <= LiveLimit,
                      Len(ledger) <= ReadLimit, live'.folded \in SUBSET Having({"confirmed"})
               PROVE  live'.state = IF T = {} THEN Layout ELSE shown
    <3>1. T # {} /\ Len(ledger) <= ReadLimit => shown' = shown
      BY <1>1, <1>2, SameMachine
    <3> HIDE DEF shown
    <3> QED
      BY <1>1, <1>4, <3>1 DEF LiveCatchesUp, shown
  <2>1. P = T
    BY <1>3
  <2>2. CASE T = {}
    <3>1. live'.folded = {}
      BY <1>4, <1>7, <2>2
    <3> QED
      BY <1>8, <2>2, <3>1
  <2>3. CASE T # {}
    <3>1. PICK i \in P : told[Len(told)] = i /\ Last(P, i) /\ told # <<>>
      <4>1. told # <<>>
        BY <1>5, <2>1, <2>3
      <4> QED
        BY <1>5, <4>1
    <3>2. PICK j \in Recorded : Last(T, j) /\ shown = ledger[j].payload.state
      BY <1>2, <2>3, MachineState
    <3>3. i = j
      BY <1>2, <1>4, <2>1, <3>1, <3>2, OneLast
    <3>4. live'.state = ledger[i].payload.state
      BY <1>1, <3>1
    <3> HIDE DEF shown
    <3> QED
      BY <2>3, <3>2, <3>3, <3>4
  <2> QED
    BY <2>2, <2>3
<1> QED
  BY <1>7, <1>8, <1>9 DEF LiveInv

\* A write or a review leaves a live source behind the record.
LEMMA StaleLive ==
  ASSUME LiveInv, Recorded \in SUBSET Recorded',
         \A i \in Recorded : ledger'[i].kind = ledger[i].kind,
         ReadsTypeOK, live' = [live EXCEPT !.fresh = FALSE]
  PROVE  LiveInv'
<1>1. /\ live'.folded = live.folded /\ live'.state = live.state /\ ~live'.fresh
  BY DEF ReadsTypeOK
<1>2. OfKind("state_changed") \in SUBSET OfKind("state_changed")'
  BY DEF OfKind
<1>3. LiveCatchesUp'
  <2>1. (~live.fresh)'
    BY <1>1
  <2> QED
    BY <2>1, StaleIsFine, PTL
<1> QED
  BY <1>1, <1>2, <1>3 DEF LiveInv

LEMMA LiveInvHolds == ReadsSpec => []LiveInv
<1>1. ReadsInit => LiveInv
  BY DEF ReadsInit, LiveInv, LiveCatchesUp
<1>2. ReadsTypeOK /\ LiveInv /\ [ReadsNext]_readsVars => LiveInv'
  <2> SUFFICES ASSUME ReadsTypeOK, LiveInv, [ReadsNext]_readsVars PROVE LiveInv'
    OBVIOUS
  <2>0. ASSUME NEW e \in Event, Write(e) PROVE LiveInv'
    BY <2>0, WriteTypes, StaleLive
  <2>1. CASE \E t \in Time, k \in Kind : Observe(k, t)
    BY <2>0, <2>1, ObserveWrites
  <2>2. CASE \E t \in Time, u \in User : Propose(u, t)
    BY <2>0, <2>2, ProposeWrites
  <2>3. CASE \E t \in Time, u \in User : Enter(u, t)
    BY <2>0, <2>3, EnterWrites
  <2>4. CASE \E i \in Recorded : Confirm(i)
    BY <2>4, ReviewTypes, StaleLive DEF Confirm
  <2>5. CASE \E i \in Recorded : Reject(i)
    BY <2>5, ReviewTypes, StaleLive DEF Reject
  <2>6. CASE Refresh
    BY <2>6, RefreshCatchesUp
  <2>7. CASE Rebuild
    <3>1. live' = [state |-> Layout, folded |-> {}, fresh |-> FALSE]
      BY <2>7 DEF Rebuild
    <3>2. LiveCatchesUp'
      <4>1. (~live.fresh)'
        BY <3>1
      <4> QED
        BY <4>1, StaleIsFine, PTL
    <3> QED
      BY <3>1, <3>2 DEF LiveInv
  <2>8. CASE UNCHANGED readsVars
    <3>1. ledger' = ledger /\ live' = live
      BY <2>8 DEF readsVars
    <3>2. LiveCatchesUp'
      <4>1. /\ OfKind("state_changed")' = OfKind("state_changed")
            /\ Having({"confirmed"})' = Having({"confirmed"}) /\ Typed
        BY <3>1 DEF OfKind, Having, Recorded, ReadsTypeOK, Typed
      <4> QED
        BY <3>1, <4>1, SameMachine DEF LiveInv, LiveCatchesUp
    <3> QED
      BY <3>1, <3>2 DEF LiveInv, OfKind, Recorded
  <2> QED
    BY <2>1, <2>2, <2>3, <2>4, <2>5, <2>6, <2>7, <2>8 DEF ReadsNext
<1> QED
  BY <1>1, <1>2, ReadsTypeCorrect, PTL DEF ReadsSpec

\* What the record says last of a machine is what is shown of it, whatever the
\* order in which it was told; and a live source that was refreshed shows the same
\* (services/record_projections.py:52-70, state/live_source.py:78-112).
THEOREM LiveFollowsAlways == ReadsSpec => []LiveFollowsRecord
<1>1. ReadsTypeOK => LatestObservationWins
  <2> SUFFICES ASSUME ReadsTypeOK, Len(ledger) <= ReadLimit,
                      OfKind("state_changed") \cap Having({"confirmed"}) # {}
               PROVE  \E i \in OfKind("state_changed") \cap Having({"confirmed"}) :
                        /\ GetEntity("equipment", "viewer").state["state"]
                             = ledger[i].payload.state
                        /\ \A j \in OfKind("state_changed") \cap Having({"confirmed"}) :
                             ledger[j].time <= ledger[i].time
    BY DEF LatestObservationWins
  <2> DEFINE T == OfKind("state_changed") \cap Having({"confirmed"})
  <2>1. Typed
    BY DEF ReadsTypeOK, Typed
  <2>2. PICK i \in Recorded : /\ Last(T, i)
          /\ GetEntity("equipment", "viewer").state["state"] = ledger[i].payload.state
    BY <2>1, MachineState
  <2>3. ASSUME NEW j \in T PROVE ledger[j].time <= ledger[i].time
    <3>1. j = i \/ <<j, i>> \in Forward
      BY <2>2 DEF Last
    <3>2. j \in Recorded
      BY DEF OfKind
    <3>3. ledger[j].time \in Nat /\ ledger[i].time \in Nat
      BY <2>1, <3>2, EventIs
    <3>4. CASE j = i
      <4>1. PICK a \in Nat : a = ledger[i].time
        BY <3>3
      <4> QED
        BY ONLY <3>4, <4>1
    <3>5. CASE <<j, i>> \in Forward
      <4>1. Before(j, i)
        BY <3>5 DEF Forward
      <4>2. ledger[j].time < ledger[i].time \/ ledger[j].time = ledger[i].time
        BY <4>1 DEF Before
      <4>3. PICK a \in Nat, b \in Nat : a = ledger[j].time /\ b = ledger[i].time
        BY <3>3
      <4>4. a <= b
        BY ONLY <4>2, <4>3
      <4> QED
        BY ONLY <4>3, <4>4
    <3> QED
      BY <3>1, <3>4, <3>5
  <2> QED
    BY <2>2, <2>3 DEF Last
<1>2. LiveInv => LiveCatchesUp
  BY DEF LiveInv
<1> QED
  BY <1>1, <1>2, ReadsTypeCorrect, LiveInvHolds, PTL DEF LiveFollowsRecord

-----------------------------------------------------------------------------
(* RecordReads: who sees what                                                 *)

LEMMA RolesAre ==
  /\ ~IsManager("viewer") /\ ~IsManager("member") /\ IsManager("admin")
  /\ ~SeesPersonal("viewer") /\ SeesPersonal("member") /\ SeesPersonal("admin")
BY DEF IsManager, SeesPersonal, Rank

IsSeen(x, i, role) == x.seq = i /\ x.event = Redacted(ledger[i], role)

\* A list that is shown has the events of the list that the role may see.
LEMMA SeenIs ==
  ASSUME Typed, NEW P \in SUBSET Recorded, NEW R \in {Forward, Backward},
         NEW s, ListOf(s, P, R), NEW role
  PROVE  /\ \A x \in Range(Seen(s, role)) : \E i \in P \cap Open(role) : IsSeen(x, i, role)
         /\ DOMAIN Seen(s, role) = 1..Cardinality(P \cap Open(role))
         /\ Len(Seen(s, role)) = Cardinality(P \cap Open(role))
<1> DEFINE open == Only(s, Open(role))
<1>1. ListOf(open, P \cap Open(role), R)
  <2>1. PICK T : T = Open(role)
    OBVIOUS
  <2>2. StrictOrder(P, R)
    BY OrdersAre, SuborderIs
  <2>3. ListOf(Only(s, T), P \cap T, R)
    BY ONLY <2>2, ListOf(s, P, R), OnlyIs
  <2> QED
    BY <2>1, <2>3
<1>2. Seen(s, role)
        = [k \in DOMAIN open |-> [seq |-> open[k], event |-> Redacted(ledger[open[k]], role)]]
  BY DEF Seen
<1> HIDE DEF open
<1>3. DOMAIN open = 1..Len(open) /\ Len(open) \in Nat /\ Len(open) = Cardinality(P \cap Open(role))
  BY <1>1 DEF ListOf
<1>4. \A k \in DOMAIN open : open[k] \in P \cap Open(role)
  BY <1>1 DEF ListOf
<1>5. Len(Seen(s, role)) = Len(open)
  <2>1. PICK v, n, W : /\ v = Seen(s, role) /\ n = Len(open) /\ W = Range(v)
    OBVIOUS
  <2>2. n \in Nat /\ DOMAIN v = 1..n /\ v = [k \in 1..n |-> v[k]] /\ \A k \in 1..n : v[k] \in W
    BY <1>2, <1>3, <2>1 DEF Range
  <2>3. v \in Seq(W) /\ Len(v) = n
    BY ONLY <2>2
  <2> QED
    BY <2>1, <2>3
<1>6. DOMAIN Seen(s, role) = DOMAIN open
  BY <1>2
<1>7. ASSUME NEW x \in Range(Seen(s, role))
      PROVE  \E i \in P \cap Open(role) : IsSeen(x, i, role)
  <2>1. PICK k \in DOMAIN open : x = Seen(s, role)[k]
    BY <1>6, <1>7 DEF Range
  <2>2. x = [seq |-> open[k], event |-> Redacted(ledger[open[k]], role)]
    BY <1>2, <2>1
  <2> QED
    BY <1>4, <2>2 DEF IsSeen
<1> QED
  BY <1>3, <1>5, <1>6, <1>7

\* What is left of an event for whoever is not a manager.
LEMMA RedactedIs ==
  ASSUME Typed, NEW i \in Recorded, NEW role \in {"viewer", "member"}
  PROVE  /\ Redacted(ledger[i], role).kind = ledger[i].kind
         /\ "behaviour" \notin DOMAIN Redacted(ledger[i], role).payload
<1>1. PICK e : e = ledger[i]
  OBVIOUS
<1>2. /\ e \in [kind: Kind, time: Time, status: {"confirmed", "proposed", "rejected"},
                actor: User \cup {None}, payload: UNION {Payloads[k] : k \in Kind}]
      /\ e.kind \in Kind
  BY <1>1, EventIs
<1>3. ~IsManager(role)
  BY RolesAre
<1>4. CASE e.kind = "timesheet"
  <2>1. Redacted(e, role) = [e EXCEPT !.payload = Without(e.payload, {"behaviour"})]
    BY <1>3, <1>4 DEF Redacted
  <2>2. "behaviour" \notin DOMAIN Without(e.payload, {"behaviour"})
    BY DEF Without, Restrict
  <2>3. PICK w : w = Without(e.payload, {"behaviour"})
    OBVIOUS
  <2>4. [e EXCEPT !.payload = w].kind = e.kind /\ [e EXCEPT !.payload = w].payload = w
    BY <1>2
  <2> QED
    BY <1>1, <2>1, <2>2, <2>3, <2>4
<1>5. CASE e.kind # "timesheet"
  <2>1. Redacted(e, role) = e
    BY <1>5 DEF Redacted
  <2>2. PICK p : p = e.payload
    OBVIOUS
  <2>3. "behaviour" \notin DOMAIN p
    <3>1. CASE e.kind = "utilization"
      BY <1>1, <2>2, <3>1, PayloadIs
    <3>2. CASE e.kind = "state_changed"
      BY <1>1, <2>2, <3>2, PayloadIs
    <3>3. CASE e.kind \in {"delivered", "consumed"}
      BY <1>1, <2>2, <3>3, PayloadIs
    <3>4. CASE e.kind = "flagged"
      BY <1>1, <2>2, <3>4, PayloadIs
    <3> QED
      BY <1>2, <1>5, <3>1, <3>2, <3>3, <3>4, KindIs
  <2> QED
    BY <1>1, <2>1, <2>2, <2>3
<1> QED
  BY <1>4, <1>5

LEMMA SeenOne ==
  ASSUME Typed, NEW P \in SUBSET Recorded, NEW R \in {Forward, Backward},
         NEW s, ListOf(s, P, R), NEW role, NEW x \in Range(Seen(s, role))
  PROVE  \E i \in Recorded : i \in Open(role) /\ x.event = Redacted(ledger[i], role)
<1>1. PICK i \in P \cap Open(role) : IsSeen(x, i, role)
  BY SeenIs
<1> QED
  BY <1>1 DEF IsSeen

\* The events of lists and exports, and those of the subjects' projections.
Days(role) == UNION {Range(Timeline(Day(t), role)) : t \in Time}
Listing(role) == Range(Events(role)) \cup Range(Inbox(role)) \cup Days(role) \cup Range(Export(role))
Projected(role) == UNION {Range(GetEntity(s, role).events) : s \in {x \in Subject : MayView(role, x)}}

LEMMA ListingIs ==
  ASSUME Typed, NEW role, NEW x \in Listing(role)
  PROVE  \E i \in Recorded : i \in Open(role) /\ x.event = Redacted(ledger[i], role)
<1>0. /\ Recorded \in SUBSET Recorded /\ Having({"proposed"}) \in SUBSET Recorded
      /\ \A d : OnDay(d) \in SUBSET Recorded
  BY DEF Having, OnDay
<1>1. CASE x \in Range(Events(role))
  <2>1. PICK P \in SUBSET Recorded : ListOf(Desc(Recorded, EventsLimit), P, Backward)
    BY <1>0, DescIs, LimitsAre
  <2>2. x \in Range(Seen(Desc(Recorded, EventsLimit), role))
    BY <1>1 DEF Events
  <2> QED
    BY <2>1, <2>2, SeenOne
<1>2. CASE x \in Range(Inbox(role))
  <2>1. PICK P \in SUBSET Recorded : ListOf(Desc(Having({"proposed"}), InboxLimit), P, Backward)
    BY <1>0, DescIs, LimitsAre
  <2>2. x \in Range(Seen(Desc(Having({"proposed"}), InboxLimit), role))
    BY <1>2 DEF Inbox
  <2> QED
    BY <2>1, <2>2, SeenOne
<1>3. CASE x \in Days(role)
  <2>1. PICK t \in Time : x \in Range(Timeline(Day(t), role))
    BY <1>3 DEF Days
  <2>2. PICK P \in SUBSET Recorded : ListOf(Asc(OnDay(Day(t)), EventsLimit), P, Forward)
    BY <1>0, AscIs, LimitsAre
  <2>3. x \in Range(Seen(Asc(OnDay(Day(t)), EventsLimit), role))
    BY <2>1 DEF Timeline
  <2> QED
    BY <2>2, <2>3, SeenOne
<1>4. CASE x \in Range(Export(role))
  <2>1. PICK P \in SUBSET Recorded : ListOf(Asc(Recorded, ReadLimit), P, Forward)
    BY <1>0, AscIs, LimitsAre
  <2>2. x \in Range(Seen(Asc(Recorded, ReadLimit), role))
    BY <1>4 DEF Export
  <2> QED
    BY <2>1, <2>2, SeenOne
<1> QED
  BY <1>1, <1>2, <1>3, <1>4 DEF Listing

\* The events of a projection, as they are.
LEMMA EntityEvents ==
  ASSUME Typed, NEW s \in Subject
  PROVE  LET p == Entity(s, Asc(Of(s), ReadLimit)) IN
         /\ p = [count |-> p.count, state |-> p.state, metrics |-> p.metrics, events |-> p.events]
         /\ \A k \in DOMAIN p.events : \E i \in Of(s) :
              p.events[k] = [seq |-> i, event |-> ledger[i]]
<1> DEFINE listed == Asc(Of(s), ReadLimit)
           p == Entity(s, listed)
<1>1. Of(s) \in SUBSET Recorded
  BY DEF Of
<1>2. PICK P \in SUBSET Of(s) : ListOf(listed, P, Forward)
  BY <1>1, AscIs, LimitsAre
<1>3. \A k \in DOMAIN listed : listed[k] \in Of(s)
  BY <1>2 DEF ListOf
<1>4. PICK n, state, metrics, events :
        /\ p = [count |-> n, state |-> state, metrics |-> metrics, events |-> events]
        /\ events = [k \in DOMAIN listed |-> [seq |-> listed[k], event |-> ledger[listed[k]]]]
  BY DEF Entity
<1> HIDE DEF listed, p
<1>5. /\ p = [count |-> p.count, state |-> p.state, metrics |-> p.metrics, events |-> p.events]
      /\ p.events = events
  BY <1>4
<1>6. \A k \in DOMAIN p.events : \E i \in Of(s) : p.events[k] = [seq |-> i, event |-> ledger[i]]
  BY <1>3, <1>4, <1>5
<1> QED
  BY <1>5, <1>6 DEF listed, p

\* A worker's projection, redacted, and any other, which need not be.
LEMMA WorkerRedacted ==
  ASSUME Typed
  PROVE  LET w == GetEntity("worker", "member") IN
         /\ "behaviour" \notin DOMAIN w.state \cup DOMAIN w.metrics
         /\ \A k \in DOMAIN w.events : \E i \in Recorded :
              w.events[k].event = Redacted(ledger[i], "member")
<1> DEFINE p == Entity("worker", Asc(Of("worker"), ReadLimit))
           w == GetEntity("worker", "member")
<1>1. /\ p = [count |-> p.count, state |-> p.state, metrics |-> p.metrics, events |-> p.events]
      /\ \A k \in DOMAIN p.events : \E i \in Of("worker") :
           p.events[k] = [seq |-> i, event |-> ledger[i]]
  BY EntityEvents DEF Subject
<1>2. w = [count |-> p.count, state |-> Without(p.state, {"behaviour"}),
           metrics |-> Without(p.metrics, {"behaviour"}),
           events |-> [k \in DOMAIN p.events |->
                         [p.events[k] EXCEPT !.event = Redacted(p.events[k].event, "member")]]]
  BY RolesAre DEF GetEntity, RedactEntity
<1> HIDE DEF p, w
<1>3. /\ w.metrics = Without(p.metrics, {"behaviour"})
      /\ w.state = Without(p.state, {"behaviour"})
      /\ w.events = [k \in DOMAIN p.events |->
                       [p.events[k] EXCEPT !.event = Redacted(p.events[k].event, "member")]]
  BY <1>2
<1>4. "behaviour" \notin DOMAIN w.state \cup DOMAIN w.metrics
  BY <1>3 DEF Without, Restrict
<1>5. ASSUME NEW k \in DOMAIN w.events
      PROVE  \E i \in Recorded : w.events[k].event = Redacted(ledger[i], "member")
  <2>1. k \in DOMAIN p.events
    BY <1>3
  <2>2. PICK i \in Of("worker") : p.events[k] = [seq |-> i, event |-> ledger[i]]
    BY <1>1, <2>1
  <2>3. w.events[k].event = Redacted(ledger[i], "member")
    BY <1>3, <2>1, <2>2
  <2> QED
    BY <2>3 DEF Of
<1> QED
  BY <1>4, <1>5 DEF w

LEMMA OthersUnredacted ==
  ASSUME Typed, NEW s \in Subject \ {"worker"}, NEW role, NEW x \in Range(GetEntity(s, role).events)
  PROVE  \E i \in Of(s) : x.event = ledger[i]
<1>1. GetEntity(s, role) = Entity(s, Asc(Of(s), ReadLimit))
  BY DEF GetEntity, RedactEntity
<1>2. PICK k \in DOMAIN GetEntity(s, role).events : x = GetEntity(s, role).events[k]
  BY DEF Range
<1>3. PICK i \in Of(s) : x = [seq |-> i, event |-> ledger[i]]
  BY <1>1, <1>2, EntityEvents
<1> QED
  BY <1>3

\* A list, a projection, a directory or a cost breakdown never shows crew a worker,
\* nor a supervisor how a worker's time was spent (services/record_access.py:87-141).
THEOREM PersonalStaysAlways == ReadsSpec => []PersonalStaysPersonal
<1>1. ReadsTypeOK => PersonalStaysPersonal
  <2> SUFFICES ASSUME ReadsTypeOK PROVE PersonalStaysPersonal
    OBVIOUS
  <2>0. Typed
    BY DEF ReadsTypeOK, Typed
  <2>1. ASSUME NEW role, NEW x \in ShownTo(role)
        PROVE  \/ x \in Listing(role)
               \/ \E s \in Subject : MayView(role, s) /\ x \in Range(GetEntity(s, role).events)
    <3>1. x \in Listing(role) \/ x \in Projected(role)
      <4>1. PICK A, B, C, D, E : /\ A = Range(Events(role)) /\ B = Range(Inbox(role))
                                 /\ C = Days(role) /\ D = Projected(role) /\ E = Range(Export(role))
        OBVIOUS
      <4>2. ShownTo(role) = A \cup B \cup C \cup D \cup (IF SeesPersonal(role) THEN E ELSE {})
        BY <4>1 DEF ShownTo, Days, Projected
      <4>3. x \in A \cup B \cup C \cup D \cup E
        BY <2>1, <4>2
      <4> QED
        BY <4>1, <4>3 DEF Listing
    <3>2. ASSUME x \in Projected(role)
          PROVE  \E s \in Subject : MayView(role, s) /\ x \in Range(GetEntity(s, role).events)
      BY <3>2 DEF Projected
    <3> QED
      BY <3>1, <3>2
  <2>2. \A i \in Recorded : ledger[i].kind = "timesheet" <=> About[ledger[i].kind] = "worker"
    <3>1. \A k \in Kind : k = "timesheet" <=> About[k] = "worker"
      BY KindIs DEF About
    <3> QED
      BY <2>0, <3>1, EventIs
  <2>3. ASSUME NEW x \in ShownTo("viewer") PROVE ~Personal(x.event)
    <3>1. CASE x \in Listing("viewer")
      <4>1. PICK i \in Recorded :
              i \in Open("viewer") /\ x.event = Redacted(ledger[i], "viewer")
        BY <2>0, <3>1, ListingIs
      <4>2. x.event.kind = ledger[i].kind
        BY <2>0, <4>1, RedactedIs
      <4>3. ~Personal(ledger[i])
        BY <4>1, RolesAre DEF Open
      <4> QED
        BY <4>2, <4>3 DEF Personal
    <3>2. ASSUME NEW s \in Subject, MayView("viewer", s), x \in Range(GetEntity(s, "viewer").events)
          PROVE  ~Personal(x.event)
      <4>1. s # "worker"
        BY <3>2, RolesAre DEF MayView
      <4>2. PICK i \in Of(s) : x.event = ledger[i]
        BY <2>0, <3>2, <4>1, OthersUnredacted
      <4>3. i \in Recorded /\ About[ledger[i].kind] # "worker"
        BY <4>1 DEF Of
      <4> QED
        BY <2>2, <4>2, <4>3 DEF Personal
    <3> QED
      BY <2>1, <3>1, <3>2
  <2>4. "worker" \notin DOMAIN Directory("viewer")
    BY RolesAre DEF Directory, MayView
  <2>5. ASSUME NEW x \in ShownTo("member") PROVE "behaviour" \notin DOMAIN x.event.payload
    <3>1. CASE x \in Listing("member")
      <4>1. PICK i \in Recorded :
              i \in Open("member") /\ x.event = Redacted(ledger[i], "member")
        BY <2>0, <3>1, ListingIs
      <4> QED
        BY <2>0, <4>1, RedactedIs
    <3>2. ASSUME NEW s \in Subject, x \in Range(GetEntity(s, "member").events)
          PROVE  "behaviour" \notin DOMAIN x.event.payload
      <4>1. CASE s = "worker"
        <5>1. PICK k \in DOMAIN GetEntity(s, "member").events : x = GetEntity(s, "member").events[k]
          BY <3>2 DEF Range
        <5>2. PICK i \in Recorded : x.event = Redacted(ledger[i], "member")
          BY <2>0, <4>1, <5>1, WorkerRedacted
        <5> QED
          BY <2>0, <5>2, RedactedIs
      <4>2. CASE s # "worker"
        <5>1. PICK i \in Of(s) : x.event = ledger[i]
          BY <2>0, <3>2, <4>2, OthersUnredacted
        <5>2. i \in Recorded /\ ledger[i].kind # "timesheet"
          BY <2>2, <4>2 DEF Of
        <5>3. Redacted(ledger[i], "member") = ledger[i]
          BY <5>2 DEF Redacted
        <5>4. "behaviour" \notin DOMAIN Redacted(ledger[i], "member").payload
          BY <2>0, <5>2, RedactedIs
        <5> QED
          BY <5>1, <5>3, <5>4
      <4> QED
        BY <4>1, <4>2
    <3> QED
      BY <2>1, <3>1, <3>2
  <2>6. LET worker == GetEntity("worker", "member")
        IN "behaviour" \notin DOMAIN worker.state \cup DOMAIN worker.metrics
    BY <2>0, WorkerRedacted
  <2>7. ASSUME NEW l \in Costs("member").lines PROVE l.subject # "worker"
    <3>1. l \in Lines /\ l.category \notin {"labor", "labor_waste"}
      BY <2>7, RolesAre DEF Costs, RedactCost
    <3>2. PICK i \in CostRows, k \in {"utilization", "delivered"} :
            i \in OfKind(k) /\ \E c, a : l = Line(i, c, a)
      <4>1. ASSUME NEW c, NEW k, NEW name, NEW rate, l \in Priced(c, k, name, rate)
            PROVE  /\ l.category = c
                   /\ \E i \in CostRows : i \in OfKind(k) /\ \E a : l = Line(i, c, a)
        <5>1. PICK i \in CostRows \cap OfKind(k) : l = Line(i, c, Field(i, name) * Rate[rate])
          BY <4>1 DEF Priced
        <5>2. l.category = c
          BY <5>1 DEF Line
        <5> QED
          BY <5>1, <5>2
      <4>2. \/ l \in Priced("equipment", "utilization", "idle", "equipment")
            \/ l \in Priced("material", "delivered", "quantity", "material")
        BY <3>1, <4>1 DEF Lines
      <4> QED
        BY <4>1, <4>2
    <3>3. l.subject = About[ledger[i].kind] /\ ledger[i].kind = k
      BY <3>2 DEF Line, OfKind
    <3> QED
      BY <3>3 DEF About
  <2> QED
    BY <2>3, <2>4, <2>5, <2>6, <2>7 DEF PersonalStaysPersonal
<1> QED
  BY <1>1, ReadsTypeCorrect, PTL

-----------------------------------------------------------------------------
(* RecordReads: who finds which proposals                                     *)

LEMMA MinOfTwo ==
  ASSUME NEW a \in Nat, NEW b \in Nat
  PROVE  Min({a, b}) = IF a <= b THEN a ELSE b
<1>1. \E x \in {a, b} : \A y \in {a, b} : x <= y
  OBVIOUS
<1>2. Min({a, b}) \in {a, b} /\ \A y \in {a, b} : Min({a, b}) <= y
  BY <1>1 DEF Min
<1> QED
  BY <1>2

Proposed == Having({"proposed"})

\* A worker's home screen counts what the list of own entries has.
LEMMA OwnAreFound ==
  ASSUME Typed, NEW u, Len(ledger) <= MineLimit, Len(ledger) <= ReadLimit
  PROVE  MyPending(u) = Cardinality(Range(MyEntries(u)) \cap Proposed)
<1>1. Recorded \in SUBSET Recorded
  OBVIOUS
<1>2. Range(Asc(Recorded, ReadLimit)) = Recorded
  BY <1>1, AscAll, LimitsAre
<1>3. ListOf(Desc(Recorded, MineLimit), Recorded, Backward)
  BY <1>1, DescAll, LimitsAre
<1>4. Range(MyEntries(u)) = Recorded \cap Own(u)
  BY <1>1, <1>3, OnlyEvents DEF MyEntries
<1> QED
  BY <1>2, <1>4 DEF MyPending, Proposed

\* Whoever may decide has all of the inbox that there is room for.
LEMMA InboxIs ==
  ASSUME Typed, NEW role, SeesPersonal(role)
  PROVE  Len(Inbox(role)) = Min({InboxLimit, Cardinality(Proposed)})
<1>1. Proposed \in SUBSET Recorded
  BY DEF Proposed, Having
<1>2. PICK P \in SUBSET Proposed :
        /\ ListOf(Desc(Proposed, InboxLimit), P, Backward)
        /\ Cardinality(P) = IF InboxLimit <= Cardinality(Proposed) THEN InboxLimit
                            ELSE Cardinality(Proposed)
  BY <1>1, DescIs, LimitsAre
<1>3. P \in SUBSET Recorded
  BY <1>1, <1>2
<1>4. Len(Seen(Desc(Proposed, InboxLimit), role)) = Cardinality(P \cap Open(role))
  BY <1>2, <1>3, SeenIs
<1>5. P \cap Open(role) = P
  BY <1>3 DEF Open
<1>6. Cardinality(Proposed) \in Nat
  BY <1>1, RecordedIsFinite DEF Typed
<1> QED
  BY <1>2, <1>4, <1>5, <1>6, MinOfTwo, LimitsAre DEF Inbox, Proposed

LEMMA SubjectsAreFinite == IsFiniteSet(Subject)
<1>1. IsFiniteSet({"worker"})
  BY FS_Singleton
<1>2. IsFiniteSet({"worker"} \cup {"equipment"})
  BY <1>1, FS_AddElement
<1>3. IsFiniteSet(({"worker"} \cup {"equipment"}) \cup {"material"})
  BY <1>2, FS_AddElement
<1>4. IsFiniteSet((({"worker"} \cup {"equipment"}) \cup {"material"}) \cup {"incident"})
  BY <1>3, FS_AddElement
<1>5. Subject = ((({"worker"} \cup {"equipment"}) \cup {"material"}) \cup {"incident"})
  BY DEF Subject
<1> QED
  BY <1>4, <1>5

\* The directory has every subject with a proposal, and counts each once.
LEMMA DirectoryCounts ==
  ASSUME Typed, NEW role, SeesPersonal(role), Len(ledger) <= ReadLimit
  PROVE  SumFunction([s \in DOMAIN Directory(role) |-> Directory(role)[s].pending])
           = Cardinality(Proposed)
<1> DEFINE page == Range(Asc(Having({"confirmed", "proposed"}), ReadLimit))
           found == {s \in Subject : page \cap Of(s) # {} /\ MayView(role, s)}
           e == [s \in DOMAIN Directory(role) |-> Directory(role)[s].pending]
           p == [i \in Proposed |-> About[ledger[i].kind]]
<1>1. page = Having({"confirmed", "proposed"})
  BY AscAll, LimitsAre DEF Having
<1>2. Proposed \in SUBSET page /\ page \in SUBSET Recorded
  BY <1>1 DEF Proposed, Having
<1>3. \A s \in Subject : MayView(role, s)
  BY DEF MayView
<1>4. Directory(role)
        = [s \in found |-> [count |-> Cardinality(page \cap Of(s)),
                           pending |-> Cardinality(page \cap Of(s) \cap Having({"proposed"}))]]
  BY DEF Directory
<1>5. found = {s \in Subject : page \cap Of(s) # {}}
  BY <1>3
<1> HIDE DEF page, found
<1>6. e = [s \in found |-> Cardinality(page \cap Of(s) \cap Proposed)]
  BY <1>4 DEF Proposed
<1>7. IsFiniteSet(found)
  <2>1. IsFiniteSet(Subject)
    BY SubjectsAreFinite
  <2> QED
    BY <1>5, <2>1, FS_Subset
<1>8. ASSUME NEW i \in Proposed PROVE p[i] \in found
  <2>1. i \in Recorded /\ i \in page
    BY <1>2
  <2>2. ledger[i].kind \in Kind
    BY <2>1, EventIs
  <2>3. About[ledger[i].kind] \in Subject
    BY <2>2, KindIs DEF About, Subject
  <2>4. i \in Of(About[ledger[i].kind])
    BY <2>1 DEF Of
  <2> QED
    BY <1>5, <2>1, <2>3, <2>4
<1>9. ASSUME NEW s \in found PROVE e[s] = Cardinality(PartOf(Proposed, p, s))
  <2>1. page \cap Of(s) \cap Proposed = PartOf(Proposed, p, s)
    BY <1>2 DEF PartOf, Of
  <2> QED
    BY <1>6, <2>1
<1>10. IsFiniteSet(Proposed)
  BY <1>2, RecordedIsFinite DEF Typed
<1>11. DOMAIN e = found
  BY <1>6
<1> HIDE DEF e, p
<1>12. SumFunctionOnSet(e, found) = Cardinality(Proposed)
  BY <1>7, <1>8, <1>9, <1>10, CountByPart
<1>13. SumFunction(e) = Cardinality(Proposed)
  BY <1>11, <1>12 DEF SumFunction
<1> QED
  BY <1>13 DEF e

\* Whoever proposed something finds it among the own entries and whoever may decide
\* on it in the inbox and in the directory (api/worker.py:101-118, 335-350,
\* api/record.py:194-226, 254-268).
THEOREM ProposalsFoundAlways == ReadsSpec => []ProposalsAreFound
<1>1. ReadsTypeOK => ProposalsAreFound
  <2> SUFFICES ASSUME ReadsTypeOK PROVE ProposalsAreFound
    OBVIOUS
  <2>1. Typed
    BY DEF ReadsTypeOK, Typed
  <2>2. ASSUME Len(ledger) <= Min({MineLimit, ReadLimit}), NEW u \in User
        PROVE  MyPending(u) = Cardinality(Range(MyEntries(u)) \cap Having({"proposed"}))
    <3>1. Len(ledger) \in Nat
      BY <2>1, RecordedIsFinite DEF Typed
    <3>2. Len(ledger) <= MineLimit /\ Len(ledger) <= ReadLimit
      BY <2>2, <3>1, MinOfTwo, LimitsAre
    <3> QED
      BY <2>1, <3>2, OwnAreFound DEF Proposed
  <2>3. ASSUME NEW role \in {"member", "admin"}
        PROVE  /\ Len(Inbox(role)) = Min({InboxLimit, Cardinality(Having({"proposed"}))})
               /\ Len(ledger) <= ReadLimit =>
                    SumFunction([s \in DOMAIN Directory(role) |-> Directory(role)[s].pending])
                      = Cardinality(Having({"proposed"}))
    <3>1. SeesPersonal(role)
      BY RolesAre
    <3> QED
      BY <2>1, <3>1, InboxIs, DirectoryCounts DEF Proposed
  <2> QED
    BY <2>2, <2>3 DEF ProposalsAreFound
<1> QED
  BY <1>1, ReadsTypeCorrect, PTL

-----------------------------------------------------------------------------
(* RecordReads: what costs are made of                                        *)

Sure == Having({"confirmed"})
Priceable(k, name, rate) ==
    Rate[rate] \in Nat /\ \A i \in Sure \cap OfKind(k) : Field(i, name) \in Nat

\* The worth of each confirmed event of a kind.
Worth(k, name, rate) == [i \in Sure \cap OfKind(k) |-> Field(i, name) * Rate[rate]]
Paying(c, k, name, rate) == {l \in Priced(c, k, name, rate) : l.amount > 0}

LEMMA SureIs ==
  ASSUME Typed
  PROVE  /\ Sure \in SUBSET Recorded /\ IsFiniteSet(Sure)
         /\ \A i \in Sure : ledger[i].kind \in Kind /\ ledger[i].status = "confirmed"
<1>1. Sure \in SUBSET Recorded
  BY DEF Sure, Having
<1> QED
  BY <1>1, EventIs, RecordedIsFinite DEF Typed, Sure, Having

LEMMA AllArePriceable ==
  ASSUME Typed
  PROVE  /\ Priceable("timesheet", "hours", "labor")
         /\ Priceable("timesheet", "behaviour", "labor")
         /\ Priceable("utilization", "idle", "equipment")
         /\ Priceable("delivered", "quantity", "material")
<1>1. \A i \in Sure : i \in Recorded
  BY SureIs
<1> QED
  BY <1>1, FieldIs, LimitsAre DEF Priceable, OfKind

LEMMA ImageIsFinite ==
  ASSUME NEW S, IsFiniteSet(S), NEW h, NEW T, T = {h[x] : x \in S}
  PROVE  IsFiniteSet(T)
<1>1. PICK f : f = [x \in S |-> h[x]]
  OBVIOUS
<1>2. f \in Surjection(S, T)
  BY <1>1 DEF Surjection
<1> QED
  BY <1>2, FS_Surjection

LEMMA ProductIsNat == ASSUME NEW a \in Nat, NEW b \in Nat PROVE a * b \in Nat
OBVIOUS

LEMMA WorthIs ==
  ASSUME Typed, NEW k, NEW name, NEW rate, Priceable(k, name, rate)
  PROVE  /\ DOMAIN Worth(k, name, rate) = Sure \cap OfKind(k)
         /\ IsFiniteSet(Sure \cap OfKind(k))
         /\ \A i \in Sure \cap OfKind(k) : /\ Worth(k, name, rate)[i] = Field(i, name) * Rate[rate]
                                           /\ Worth(k, name, rate)[i] \in Nat
         /\ SumFunction(Worth(k, name, rate))
              = SumFunctionOnSet(Worth(k, name, rate), Sure \cap OfKind(k))
<1>1. IsFiniteSet(Sure \cap OfKind(k))
  BY SureIs, FS_Subset
<1>2. \A i \in Sure \cap OfKind(k) : Field(i, name) * Rate[rate] \in Nat
  <2> SUFFICES ASSUME NEW i \in Sure \cap OfKind(k) PROVE Field(i, name) * Rate[rate] \in Nat
    OBVIOUS
  <2>1. Field(i, name) \in Nat /\ Rate[rate] \in Nat
    BY DEF Priceable
  <2> QED
    BY <2>1, ProductIsNat
<1> QED
  BY <1>1, <1>2 DEF Worth, SumFunction

\* The lines of a category are as many as the events and worth as much.
LEMMA PricedIs ==
  ASSUME Typed, Len(ledger) <= ReadLimit,
         NEW c, NEW k, NEW name, NEW rate, Priceable(k, name, rate)
  PROVE  /\ IsFiniteSet(Priced(c, k, name, rate))
         /\ \A l \in Priced(c, k, name, rate) : l.amount \in Nat /\ l.category = c
         /\ \A f : (\A l \in Priced(c, k, name, rate) : f[l] = l.amount) =>
              SumFunctionOnSet(f, Paying(c, k, name, rate)) = SumFunction(Worth(k, name, rate))
<1> DEFINE S == Sure \cap OfKind(k)
           w == Worth(k, name, rate)
           h == [i \in S |-> Line(i, c, Field(i, name) * Rate[rate])]
           P == Priced(c, k, name, rate)
<1>1. CostRows = Sure
  BY AscAll, LimitsAre DEF CostRows, Sure, Having
<1>2. P = {h[i] : i \in S}
  BY <1>1 DEF Priced
<1>3. /\ IsFiniteSet(S) /\ SumFunction(w) = SumFunctionOnSet(w, S)
      /\ \A i \in S : w[i] = Field(i, name) * Rate[rate] /\ w[i] \in Nat
  BY WorthIs
<1>4. \A i \in S : h[i].row = i /\ h[i].category = c /\ h[i].amount = w[i]
  BY <1>3 DEF Line
<1> HIDE DEF S, w, h, P
<1>5. IsFiniteSet(P)
  BY <1>2, <1>3, ImageIsFinite
<1>6. \A l \in P : l.amount \in Nat /\ l.category = c
  BY <1>2, <1>3, <1>4
<1>7. ASSUME NEW f, \A l \in P : f[l] = l.amount
      PROVE  SumFunctionOnSet(f, {l \in P : l.amount > 0}) = SumFunction(w)
  <2>1. \A x, y \in S : h[x] = h[y] => x = y
    BY <1>4
  <2>2. \A x \in S : w[x] \in Int /\ f[h[x]] = w[x]
    BY <1>2, <1>3, <1>4, <1>7
  <2>3. SumFunctionOnSet(f, {h[x] : x \in S}) = SumFunctionOnSet(w, S)
    BY <1>3, <2>1, <2>2, SumOfImage
  <2>4. PICK T \in SUBSET P : T = {l \in P : l.amount > 0}
    OBVIOUS
  <2>5. \A l \in P : f[l] \in Int
    BY <1>6, <1>7
  <2>6. \A l \in P \ T : f[l] = 0
    BY <1>6, <1>7, <2>4
  <2>7. SumFunctionOnSet(f, P) = SumFunctionOnSet(f, T)
    BY <1>5, <2>5, <2>6, SumOfPart
  <2> QED
    BY <1>2, <1>3, <2>3, <2>4, <2>7
<1> QED
  BY <1>5, <1>6, <1>7 DEF P, w, Paying

\* The categories, each with the kind of event it is made of.
LaborLines == Paying("labor", "timesheet", "hours", "labor")
WasteLines == Paying("labor_waste", "timesheet", "behaviour", "labor")
EquipmentLines == Paying("equipment", "utilization", "idle", "equipment")
MaterialLines == Paying("material", "delivered", "quantity", "material")

LEMMA LinesAre ==
  ASSUME Typed, Len(ledger) <= ReadLimit
  PROVE  /\ In(Lines, "labor") = LaborLines /\ In(Lines, "labor_waste") = WasteLines
         /\ In(Lines, "equipment") = EquipmentLines /\ In(Lines, "material") = MaterialLines
         /\ {l \in Lines : l.category # "labor_waste"}
              = LaborLines \cup EquipmentLines \cup MaterialLines
         /\ Lines = LaborLines \cup WasteLines \cup EquipmentLines \cup MaterialLines
         /\ IsFiniteSet(Lines) /\ \A l \in Lines : l.amount \in Nat
         /\ LaborLines \cap EquipmentLines = {}
         /\ (LaborLines \cup EquipmentLines) \cap MaterialLines = {}
<1>1. PICK A, B, C, D : /\ A = Priced("labor", "timesheet", "hours", "labor")
                        /\ B = Priced("labor_waste", "timesheet", "behaviour", "labor")
                        /\ C = Priced("equipment", "utilization", "idle", "equipment")
                        /\ D = Priced("material", "delivered", "quantity", "material")
  OBVIOUS
<1>2. /\ IsFiniteSet(A) /\ \A l \in A : l.amount \in Nat /\ l.category = "labor"
  BY <1>1, AllArePriceable, PricedIs
<1>3. /\ IsFiniteSet(B) /\ \A l \in B : l.amount \in Nat /\ l.category = "labor_waste"
  BY <1>1, AllArePriceable, PricedIs
<1>4. /\ IsFiniteSet(C) /\ \A l \in C : l.amount \in Nat /\ l.category = "equipment"
  BY <1>1, AllArePriceable, PricedIs
<1>5. /\ IsFiniteSet(D) /\ \A l \in D : l.amount \in Nat /\ l.category = "material"
  BY <1>1, AllArePriceable, PricedIs
<1>6. Lines = {l \in A \cup B \cup C \cup D : l.amount > 0}
  BY <1>1 DEF Lines
<1>7. /\ LaborLines = {l \in A : l.amount > 0} /\ WasteLines = {l \in B : l.amount > 0}
      /\ EquipmentLines = {l \in C : l.amount > 0} /\ MaterialLines = {l \in D : l.amount > 0}
  BY <1>1 DEF LaborLines, WasteLines, EquipmentLines, MaterialLines, Paying
<1>8. IsFiniteSet(A \cup B \cup C \cup D)
  BY <1>2, <1>3, <1>4, <1>5, FS_Union
<1>9. IsFiniteSet(Lines)
  BY <1>6, <1>8, FS_Subset
<1>10. /\ In(Lines, "labor") = LaborLines /\ In(Lines, "labor_waste") = WasteLines
       /\ In(Lines, "equipment") = EquipmentLines /\ In(Lines, "material") = MaterialLines
  BY <1>2, <1>3, <1>4, <1>5, <1>6, <1>7 DEF In
<1>11. /\ {l \in Lines : l.category # "labor_waste"}
            = LaborLines \cup EquipmentLines \cup MaterialLines
  BY <1>2, <1>3, <1>4, <1>5, <1>6, <1>7
<1>12. Lines = LaborLines \cup WasteLines \cup EquipmentLines \cup MaterialLines
  BY <1>6, <1>7
<1>13. \A l \in Lines : l.amount \in Nat
  BY <1>2, <1>3, <1>4, <1>5, <1>6
<1>14. /\ LaborLines \cap EquipmentLines = {}
       /\ (LaborLines \cup EquipmentLines) \cap MaterialLines = {}
  BY <1>2, <1>4, <1>5, <1>7
<1> QED
  BY <1>9, <1>10, <1>11, <1>12, <1>13, <1>14

\* Amounts may be added up over all lines or over those that are asked for.
LEMMA AmountIs ==
  ASSUME Typed, Len(ledger) <= ReadLimit, NEW T \in SUBSET Lines
  PROVE  /\ Amount(T) = SumFunctionOnSet([l \in Lines |-> l.amount], T)
         /\ Amount(T) \in Int
<1>1. PICK f, g : f = [l \in T |-> l.amount] /\ g = [l \in Lines |-> l.amount]
  OBVIOUS
<1>2. IsFiniteSet(T) /\ DOMAIN f = T
  BY <1>1, LinesAre, FS_Subset
<1>3. \A l \in T : f[l] \in Int /\ f[l] = g[l]
  BY <1>1, LinesAre
<1>4. SumFunctionOnSet(f, T) = SumFunctionOnSet(g, T)
  BY <1>2, <1>3, SumAgrees
<1>5. SumFunctionOnSet(f, T) \in Int
  BY <1>2, <1>3, SumTakesOne
<1>6. Amount(T) = SumFunctionOnSet(f, T)
  BY <1>1, <1>2 DEF Amount, SumFunction
<1> QED
  BY <1>1, <1>4, <1>5, <1>6

LEMMA AmountsAre ==
  ASSUME Typed, Len(ledger) <= ReadLimit
  PROVE  /\ Amount(In(Lines, "labor")) = SumFunction(Worth("timesheet", "hours", "labor"))
         /\ Amount(In(Lines, "labor_waste")) = SumFunction(Worth("timesheet", "behaviour", "labor"))
         /\ Amount(In(Lines, "equipment")) = SumFunction(Worth("utilization", "idle", "equipment"))
         /\ Amount(In(Lines, "material")) = SumFunction(Worth("delivered", "quantity", "material"))
<1>1. ASSUME NEW c, NEW k, NEW name, NEW rate, Priceable(k, name, rate),
             Paying(c, k, name, rate) \in SUBSET Lines
      PROVE  Amount(Paying(c, k, name, rate)) = SumFunction(Worth(k, name, rate))
  <2>1. PICK T : T = Paying(c, k, name, rate)
    OBVIOUS
  <2>2. PICK f : f = [l \in Lines \cup Priced(c, k, name, rate) |-> l.amount]
    OBVIOUS
  <2>3. PICK g : g = [l \in Lines |-> l.amount]
    OBVIOUS
  <2>4. SumFunctionOnSet(f, T) = SumFunction(Worth(k, name, rate))
    BY <1>1, <2>1, <2>2, PricedIs
  <2>5. IsFiniteSet(T) /\ \A l \in T : f[l] \in Int /\ f[l] = g[l]
    BY <1>1, <2>1, <2>2, <2>3, LinesAre, FS_Subset
  <2>6. SumFunctionOnSet(f, T) = SumFunctionOnSet(g, T)
    BY <2>5, SumAgrees
  <2>7. Amount(T) = SumFunctionOnSet(g, T)
    BY <1>1, <2>1, <2>3, AmountIs
  <2> QED
    BY <2>1, <2>4, <2>6, <2>7
<1>2. /\ LaborLines \in SUBSET Lines /\ WasteLines \in SUBSET Lines
      /\ EquipmentLines \in SUBSET Lines /\ MaterialLines \in SUBSET Lines
  BY LinesAre
<1>3. Amount(LaborLines) = SumFunction(Worth("timesheet", "hours", "labor"))
  BY <1>1, <1>2, AllArePriceable DEF LaborLines
<1>4. Amount(WasteLines) = SumFunction(Worth("timesheet", "behaviour", "labor"))
  BY <1>1, <1>2, AllArePriceable DEF WasteLines
<1>5. Amount(EquipmentLines) = SumFunction(Worth("utilization", "idle", "equipment"))
  BY <1>1, <1>2, AllArePriceable DEF EquipmentLines
<1>6. Amount(MaterialLines) = SumFunction(Worth("delivered", "quantity", "material"))
  BY <1>1, <1>2, AllArePriceable DEF MaterialLines
<1> QED
  BY <1>3, <1>4, <1>5, <1>6, LinesAre

\* The total is that of the categories, waste being a part of labour, and that of
\* the days.
LEMMA TotalIs ==
  ASSUME Typed, Len(ledger) <= ReadLimit
  PROVE  /\ CostTotal(Lines) = Amount(In(Lines, "labor")) + Amount(In(Lines, "equipment"))
                                 + Amount(In(Lines, "material"))
         /\ CostTotal(Lines) = SumFunction(ByDay(Lines))
<1>1. PICK L, E, M, g : /\ L = LaborLines /\ E = EquipmentLines /\ M = MaterialLines
                        /\ g = [l \in Lines |-> l.amount]
  OBVIOUS
<1>2. /\ L \in SUBSET Lines /\ E \in SUBSET Lines /\ M \in SUBSET Lines
      /\ L \cap E = {} /\ (L \cup E) \cap M = {}
  BY <1>1, LinesAre
<1>3. /\ IsFiniteSet(L) /\ IsFiniteSet(E) /\ IsFiniteSet(M) /\ IsFiniteSet(L \cup E)
      /\ IsFiniteSet(L \cup E \cup M)
  BY <1>2, LinesAre, FS_Subset, FS_Union
<1>4. \A l \in L \cup E \cup M : g[l] \in Int /\ g[l] = l.amount
  BY <1>1, <1>2, LinesAre
<1>5. SumFunctionOnSet(g, L \cup E) = SumFunctionOnSet(g, L) + SumFunctionOnSet(g, E)
  BY <1>2, <1>3, <1>4, SumOfUnion
<1>6. SumFunctionOnSet(g, (L \cup E) \cup M)
        = SumFunctionOnSet(g, L \cup E) + SumFunctionOnSet(g, M)
  BY <1>2, <1>3, <1>4, SumOfUnion
<1>7. CostTotal(Lines) = Amount(L \cup E \cup M)
  BY <1>1, LinesAre DEF CostTotal
<1>8. Amount(L \cup E \cup M) = SumFunctionOnSet(g, L \cup E \cup M)
  BY <1>1, <1>2, AmountIs
<1>9. /\ Amount(L) = SumFunctionOnSet(g, L) /\ Amount(E) = SumFunctionOnSet(g, E)
      /\ Amount(M) = SumFunctionOnSet(g, M)
  BY <1>1, <1>2, AmountIs
<1>10. CostTotal(Lines) = Amount(In(Lines, "labor")) + Amount(In(Lines, "equipment"))
                                 + Amount(In(Lines, "material"))
  <2>1. L = In(Lines, "labor") /\ E = In(Lines, "equipment") /\ M = In(Lines, "material")
    BY <1>1, LinesAre
  <2> QED
    BY <1>5, <1>6, <1>7, <1>8, <1>9, <2>1
<1>11. PICK S : S = L \cup E \cup M
  OBVIOUS
<1>12. PICK p, D : p = [l \in S |-> l.day] /\ D = {p[l] : l \in S}
  OBVIOUS
<1>13. IsFiniteSet(D)
  <2>1. IsFiniteSet(S)
    BY <1>3, <1>11
  <2> QED
    BY ONLY <1>12, <2>1, ImageIsFinite
<1>14. ByDay(Lines) = [d \in {l.day : l \in S} |-> Amount({l \in S : l.day = d})]
  BY <1>1, <1>11, LinesAre DEF ByDay
<1>15. D = {l.day : l \in S}
  BY <1>12
<1>16. ASSUME NEW d \in D PROVE ByDay(Lines)[d] = SumFunctionOnSet(g, PartOf(S, p, d))
  <2>1. {l \in S : l.day = d} = PartOf(S, p, d)
    BY <1>12 DEF PartOf
  <2>2. ByDay(Lines)[d] = Amount(PartOf(S, p, d))
    BY <1>14, <1>15, <2>1
  <2>3. PartOf(S, p, d) \in SUBSET Lines
    BY <1>2, <1>11 DEF PartOf
  <2> QED
    BY <1>1, <2>2, <2>3, AmountIs
<1>17. DOMAIN ByDay(Lines) = D
  BY <1>14, <1>15
<1>18. SumFunctionOnSet(ByDay(Lines), D) = SumFunctionOnSet(g, S)
  <2>1. PICK e : e = ByDay(Lines)
    OBVIOUS
  <2>2. \A d \in D : e[d] = SumFunctionOnSet(g, PartOf(S, p, d))
    BY <1>16, <2>1
  <2>3. \A l \in S : p[l] \in D
    BY <1>12
  <2>4. IsFiniteSet(S) /\ \A l \in S : g[l] \in Int
    BY <1>3, <1>4, <1>11
  <2>5. SumFunctionOnSet(e, D) = SumFunctionOnSet(g, S)
    BY <1>13, <2>2, <2>3, <2>4, SumByPart
  <2> QED
    BY <2>1, <2>5
<1>19. CostTotal(Lines) = SumFunction(ByDay(Lines))
  BY <1>7, <1>8, <1>11, <1>17, <1>18 DEF SumFunction
<1> QED
  BY <1>10, <1>19

-----------------------------------------------------------------------------
(* RecordReads: figures by whatever route                                     *)

LEMMA AnsweredIs ==
  ASSUME Typed, Len(ledger) <= ReadLimit, NEW k
  PROVE  Answered(k) = Sure \cap OfKind(k)
<1>1. OfKind(k) \cap Having({"confirmed"}) \in SUBSET Recorded
  BY DEF Having
<1>2. Range(Asc(OfKind(k) \cap Having({"confirmed"}), ReadLimit))
        = OfKind(k) \cap Having({"confirmed"})
  BY <1>1, AscAll, LimitsAre
<1> QED
  BY <1>2 DEF Answered, Sure

\* An answer to a question adds up the same events as the report.
LEMMA EurosAre ==
  ASSUME Typed, Len(ledger) <= ReadLimit, NEW k, NEW name, NEW rate
  PROVE  Euros(k, name, rate) = SumFunction(Worth(k, name, rate))
BY AnsweredIs DEF Euros, Worth

\* And so does a file, one row for each event.
LEMMA FileIs ==
  ASSUME Typed, Len(ledger) <= ReadLimit, NEW k, NEW name, NEW rate, Priceable(k, name, rate),
         NEW file, file = {[row |-> i, euros |-> Field(i, name) * Rate[rate]] : i \in Answered(k)}
  PROVE  SumFunction([r \in file |-> r.euros]) = SumFunction(Worth(k, name, rate))
<1>1. PICK S, w, h, g : /\ S = Sure \cap OfKind(k) /\ w = Worth(k, name, rate)
                        /\ h = [i \in S |-> [row |-> i, euros |-> Field(i, name) * Rate[rate]]]
                        /\ g = [r \in file |-> r.euros]
  OBVIOUS
<1>2. file = {h[i] : i \in S}
  BY <1>1, AnsweredIs
<1>3. /\ IsFiniteSet(S) /\ SumFunction(w) = SumFunctionOnSet(w, S)
      /\ \A i \in S : w[i] = Field(i, name) * Rate[rate] /\ w[i] \in Nat
  <2>1. PICK T, v : T = Sure \cap OfKind(k) /\ v = Worth(k, name, rate)
    OBVIOUS
  <2>2. /\ IsFiniteSet(T) /\ SumFunction(v) = SumFunctionOnSet(v, T)
        /\ \A i \in T : v[i] = Field(i, name) * Rate[rate] /\ v[i] \in Nat
    BY <2>1, WorthIs
  <2> QED
    BY <1>1, <2>1, <2>2
<1>4. \A i \in S : h[i].row = i /\ h[i].euros = w[i]
  BY <1>1, <1>3
<1>5. \A x, y \in S : h[x] = h[y] => x = y
  BY <1>4
<1>6. \A x \in S : w[x] \in Int /\ g[h[x]] = w[x]
  BY <1>1, <1>2, <1>3, <1>4
<1>7. SumFunctionOnSet(g, {h[i] : i \in S}) = SumFunctionOnSet(w, S)
  BY <1>3, <1>5, <1>6, SumOfImage
<1>8. DOMAIN g = file
  BY <1>1
<1>9. SumFunction(g) = SumFunction(w)
  BY <1>2, <1>3, <1>7, <1>8 DEF SumFunction
<1> QED
  BY <1>1, <1>9

\* What a field adds up to, priced, is what the events are worth.
LEMMA AddedIsWorth ==
  ASSUME Typed, NEW k, NEW name, NEW rate, Priceable(k, name, rate)
  PROVE  /\ SumFunction(Worth(k, name, rate)) = Added(Sure \cap OfKind(k), name) * Rate[rate]
         /\ Added(Sure \cap OfKind(k), name) \in Int
<1>1. PICK S, w, f : /\ S = Sure \cap OfKind(k) /\ w = Worth(k, name, rate)
                     /\ f = [i \in S |-> Field(i, name)]
  OBVIOUS
<1>2. /\ IsFiniteSet(S) /\ SumFunction(w) = SumFunctionOnSet(w, S)
      /\ \A i \in S : w[i] = Field(i, name) * Rate[rate]
  <2>1. PICK T, v : T = Sure \cap OfKind(k) /\ v = Worth(k, name, rate)
    OBVIOUS
  <2>2. /\ IsFiniteSet(T) /\ SumFunction(v) = SumFunctionOnSet(v, T)
        /\ \A i \in T : v[i] = Field(i, name) * Rate[rate]
    BY <2>1, WorthIs
  <2> QED
    BY <1>1, <2>1, <2>2
<1>3. \A i \in S : f[i] \in Int /\ w[i] = f[i] * Rate[rate]
  BY <1>1, <1>2 DEF Priceable
<1>4. Rate[rate] \in Int
  BY DEF Priceable
<1>5. SumFunctionOnSet(w, S) = SumFunctionOnSet(f, S) * Rate[rate]
  BY <1>2, <1>3, <1>4, SumScales
<1>6. SumFunctionOnSet(f, S) \in Int
  BY <1>2, <1>3, SumTakesOne
<1>7. Added(S, name) = SumFunctionOnSet(f, S)
  BY <1>1 DEF Added, SumFunction
<1> QED
  BY <1>1, <1>2, <1>5, <1>6, <1>7

LEMMA WasteIsLabor ==
  ASSUME Typed
  PROVE  SumFunction(Worth("timesheet", "behaviour", "labor"))
           <= SumFunction(Worth("timesheet", "hours", "labor"))
<1>1. PICK S, w, h : /\ S = Sure \cap OfKind("timesheet")
                     /\ w = Worth("timesheet", "behaviour", "labor")
                     /\ h = Worth("timesheet", "hours", "labor")
  OBVIOUS
<1>2. /\ IsFiniteSet(S) /\ SumFunction(h) = SumFunctionOnSet(h, S)
      /\ \A i \in S : h[i] = Field(i, "hours") * Rate["labor"] /\ h[i] \in Nat
  <2>1. Priceable("timesheet", "hours", "labor")
    BY AllArePriceable
  <2>2. PICK T : T = Sure \cap OfKind("timesheet")
    OBVIOUS
  <2>3. PICK v : v = Worth("timesheet", "hours", "labor")
    OBVIOUS
  <2>4. /\ IsFiniteSet(T) /\ SumFunction(v) = SumFunctionOnSet(v, T)
        /\ \A i \in T : v[i] = Field(i, "hours") * Rate["labor"] /\ v[i] \in Nat
    BY <2>1, <2>2, <2>3, WorthIs
  <2> QED
    BY <1>1, <2>2, <2>3, <2>4
<1>3. /\ SumFunction(w) = SumFunctionOnSet(w, S)
      /\ \A i \in S : w[i] = Field(i, "behaviour") * Rate["labor"] /\ w[i] \in Nat
  <2>1. Priceable("timesheet", "behaviour", "labor")
    BY AllArePriceable
  <2>2. PICK T : T = Sure \cap OfKind("timesheet")
    OBVIOUS
  <2>3. PICK v : v = Worth("timesheet", "behaviour", "labor")
    OBVIOUS
  <2>4. /\ IsFiniteSet(T) /\ SumFunction(v) = SumFunctionOnSet(v, T)
        /\ \A i \in T : v[i] = Field(i, "behaviour") * Rate["labor"] /\ v[i] \in Nat
    BY <2>1, <2>2, <2>3, WorthIs
  <2> QED
    BY <1>1, <2>2, <2>3, <2>4
<1>4. ASSUME NEW i \in S PROVE w[i] <= h[i]
  <2>1. i \in Recorded /\ ledger[i].kind = "timesheet"
    BY <1>1, SureIs DEF OfKind
  <2>2. Field(i, "hours") = 3 /\ Field(i, "behaviour") = 1
    BY <2>1, FieldIs
  <2>3. PICK r \in Nat : r = Rate["labor"]
    BY LimitsAre
  <2>4. w[i] = 1 * r /\ h[i] = 3 * r
    BY <1>2, <1>3, <2>2, <2>3
  <2> QED
    BY <2>3, <2>4
<1>5. SumFunctionOnSet(w, S) <= SumFunctionOnSet(h, S)
  <2>1. \A i \in S : w[i] \in Int /\ h[i] \in Int /\ w[i] <= h[i]
    BY <1>2, <1>3, <1>4
  <2> QED
    BY <1>2, <2>1, SumGrows
<1> QED
  BY <1>1, <1>2, <1>3, <1>5

\* What a projection is made of.
LEMMA EntityIs ==
  ASSUME Typed, Len(ledger) <= ReadLimit, NEW s
  PROVE  /\ ListOf(Only(Asc(Of(s), ReadLimit), Sure), Sure \cap Of(s), Forward)
         /\ Entity(s, Asc(Of(s), ReadLimit)).metrics = Metrics(s, Sure \cap Of(s))
<1>1. Of(s) \in SUBSET Recorded
  BY DEF Of
<1>2. ListOf(Asc(Of(s), ReadLimit), Of(s), Forward)
  BY <1>1, AscAll, LimitsAre
<1>3. /\ ListOf(Only(Asc(Of(s), ReadLimit), Sure), Of(s) \cap Sure, Forward)
      /\ Range(Only(Asc(Of(s), ReadLimit), Sure)) = Of(s) \cap Sure
  BY <1>1, <1>2, OnlyEvents
<1>4. Of(s) \cap Sure = Sure \cap Of(s)
  OBVIOUS
<1>5. Entity(s, Asc(Of(s), ReadLimit)).metrics
        = Metrics(s, Range(Only(Asc(Of(s), ReadLimit), Sure)))
  BY DEF Entity, Sure
<1> QED
  BY <1>3, <1>4, <1>5

\* Hours of the worker, as the own projection has them.
LEMMA WorkerHours ==
  ASSUME Typed, Len(ledger) <= ReadLimit
  PROVE  GetEntity("worker", "admin").metrics.hours
           = Added(Sure \cap OfKind("timesheet"), "hours")
<1>1. GetEntity("worker", "admin").metrics = Metrics("worker", Sure \cap Of("worker"))
  BY EntityIs, RolesAre DEF GetEntity, RedactEntity
<1>2. Sure \cap Of("worker") = Sure \cap OfKind("timesheet")
  <2>1. \A k \in Kind : About[k] = "worker" <=> k = "timesheet"
    BY KindIs DEF About
  <2> QED
    BY <2>1, SureIs DEF Of, OfKind
<1>3. PICK C : C = Sure \cap OfKind("timesheet")
  OBVIOUS
<1>4. Metrics("worker", C).hours = Added(C, "hours")
  BY DEF Metrics
<1> QED
  BY <1>1, <1>2, <1>3, <1>4

\* The list of assets has the figures of their details.
LEMMA AssetsAgree ==
  ASSUME Typed, Len(ledger) <= ReadLimit, NEW s \in {"equipment", "material"}
  PROVE  /\ AssetRows[s].metrics = AssetDetail(s).metrics
         /\ AssetRows[s].state = AssetDetail(s).state
<1> DEFINE page == Asc(Having({"confirmed", "proposed"}), ReadLimit)
           some == Having({"confirmed", "proposed"})
           mine == Only(page, Of(s))
           a == Only(mine, Sure)
           b == Only(Asc(Of(s), ReadLimit), Sure)
<1>1. some \in SUBSET Recorded /\ some \cap Of(s) \in SUBSET Recorded
  BY DEF Having
<1>2. ListOf(page, some, Forward)
  BY <1>1, AscAll, LimitsAre
<1>3. ListOf(mine, some \cap Of(s), Forward)
  BY <1>1, <1>2, OnlyEvents
<1>4. ListOf(a, (some \cap Of(s)) \cap Sure, Forward)
  BY <1>1, <1>3, OnlyEvents
<1>5. (some \cap Of(s)) \cap Sure = Sure \cap Of(s)
  BY DEF Having, Sure
<1>6. ListOf(b, Sure \cap Of(s), Forward)
  BY EntityIs
<1>7. StrictOrder(Sure \cap Of(s), Forward)
  <2>1. Sure \cap Of(s) \in SUBSET Recorded
    BY SureIs
  <2> QED
    BY <2>1, OrdersAre, SuborderIs
<1>8. a = b
  <2> HIDE DEF a, b, some
  <2>1. ListOf(a, Sure \cap Of(s), Forward)
    BY <1>4, <1>5
  <2> QED
    BY <1>6, <1>7, <2>1, ListsAgree
<1>9. AssetRows[s] = Entity(s, mine)
  BY DEF AssetRows
<1>10. /\ Entity(s, mine).metrics = Metrics(s, Range(a)) /\ Entity(s, mine).state = Folded(a)
  BY DEF Entity, Sure
<1>11. /\ AssetDetail(s).metrics = Metrics(s, Range(b)) /\ AssetDetail(s).state = Folded(b)
  BY DEF AssetDetail, Entity, Sure
<1> QED
  <2> HIDE DEF a, b, mine
  <2> QED
    BY <1>8, <1>9, <1>10, <1>11

\* What is on hand of the material is what was delivered but for what was consumed.
LEMMA OnHandIs ==
  ASSUME Typed, Len(ledger) <= ReadLimit
  PROVE  OnHand(AssetDetail("material").metrics) * Rate["material"]
           = SumFunction(Worth("delivered", "quantity", "material"))
               - Cardinality(OfKind("consumed") \cap Sure) * Rate["material"]
<1>1. PICK C : C = Sure \cap Of("material")
  OBVIOUS
<1>2. AssetDetail("material").metrics = Metrics("material", C)
  BY <1>1, EntityIs DEF AssetDetail
<1>3. /\ Metrics("material", C).delivered = Added(C \cap OfKind("delivered"), "quantity")
      /\ Metrics("material", C).consumed = Added(C \cap OfKind("consumed"), "quantity")
  BY DEF Metrics
<1>4. /\ C \cap OfKind("delivered") = Sure \cap OfKind("delivered")
      /\ C \cap OfKind("consumed") = OfKind("consumed") \cap Sure
  <2>1. About["delivered"] = "material" /\ About["consumed"] = "material"
    BY DEF About
  <2> QED
    BY <1>1, <2>1 DEF Of, OfKind
<1>5. Added(OfKind("consumed") \cap Sure, "quantity") = Cardinality(OfKind("consumed") \cap Sure)
  <2>1. PICK S, f : S = OfKind("consumed") \cap Sure /\ f = [i \in S |-> Field(i, "quantity")]
    OBVIOUS
  <2>2. IsFiniteSet(S)
    BY <2>1, SureIs, FS_Subset
  <2>3. \A i \in S : f[i] = 1
    <3>1. \A i \in S : i \in Recorded /\ ledger[i].kind = "consumed"
      BY <2>1, SureIs DEF OfKind
    <3> QED
      BY <2>1, <3>1, FieldIs
  <2>4. SumFunctionOnSet(f, S) = Cardinality(S)
    BY <2>2, <2>3, SumOfOnes
  <2>5. Added(S, "quantity") = SumFunctionOnSet(f, S)
    BY <2>1 DEF Added, SumFunction
  <2> QED
    BY <2>1, <2>4, <2>5
<1>6. Cardinality(OfKind("consumed") \cap Sure) \in Nat
  <2>1. OfKind("consumed") \cap Sure \in SUBSET Recorded
    BY SureIs
  <2> QED
    BY <2>1, RecordedIsFinite DEF Typed
<1>7. PICK d \in Int, c \in Int, r \in Int :
        /\ d = Added(Sure \cap OfKind("delivered"), "quantity")
        /\ c = Cardinality(OfKind("consumed") \cap Sure) /\ r = Rate["material"]
  <2>1. Priceable("delivered", "quantity", "material")
    BY AllArePriceable
  <2>2. Added(Sure \cap OfKind("delivered"), "quantity") \in Int
    BY <2>1, AddedIsWorth
  <2>3. Rate["material"] \in Int /\ Cardinality(OfKind("consumed") \cap Sure) \in Int
    BY <1>6, LimitsAre
  <2> QED
    BY <2>2, <2>3
<1>8. SumFunction(Worth("delivered", "quantity", "material")) = d * r
  BY <1>7, AddedIsWorth, AllArePriceable
<1>9. OnHand(AssetDetail("material").metrics) = d - c
  BY <1>2, <1>3, <1>4, <1>5, <1>7 DEF OnHand
<1>10. (d - c) * r = d * r - c * r
  OBVIOUS
<1> QED
  BY <1>7, <1>8, <1>9, <1>10

\* Report, days, answers, files and projections have the same figures.
LEMMA FiguresDoAgree == ReadsTypeOK => FiguresAgree
<1> SUFFICES ASSUME ReadsTypeOK, Len(ledger) <= ReadLimit
             PROVE  LET costs == Costs("admin")
                        asset == AssetRows
                        detail == [s \in {"equipment", "material"} |-> AssetDetail(s)] IN
      /\ costs.total = SumFunction(costs.byDay)
      /\ costs.total = LaborAnswer + EquipmentAnswer + DeliveriesAnswer /\ costs.total = CostAnswer
      /\ costs.labor = SumFunction([r \in TimesheetsCsv |-> r.euros])
      /\ costs.equipment = SumFunction([r \in EquipmentCsv |-> r.euros])
      /\ costs.labor = GetEntity("worker", "admin").metrics.hours * Rate["labor"]
      /\ costs.waste <= costs.labor
      /\ \A s \in {"equipment", "material"} :
           asset[s].metrics = detail[s].metrics /\ asset[s].state = detail[s].state
      /\ OnHand(detail["material"].metrics) * Rate["material"]
           = costs.material - Cardinality(OfKind("consumed") \cap Having({"confirmed"})) * Rate["material"]
  BY DEF FiguresAgree
<1>1. Typed
  BY DEF ReadsTypeOK, Typed
<1>2. /\ Costs("admin").labor = SumFunction(Worth("timesheet", "hours", "labor"))
      /\ Costs("admin").waste = SumFunction(Worth("timesheet", "behaviour", "labor"))
      /\ Costs("admin").equipment = SumFunction(Worth("utilization", "idle", "equipment"))
      /\ Costs("admin").material = SumFunction(Worth("delivered", "quantity", "material"))
      /\ Costs("admin").total = CostTotal(Lines) /\ Costs("admin").byDay = ByDay(Lines)
  BY <1>1, AmountsAre DEF Costs
<1>3. /\ CostTotal(Lines) = Amount(In(Lines, "labor")) + Amount(In(Lines, "equipment"))
                              + Amount(In(Lines, "material"))
      /\ CostTotal(Lines) = SumFunction(ByDay(Lines)) /\ CostAnswer = CostTotal(Lines)
  BY <1>1, TotalIs DEF CostAnswer
<1>4. /\ LaborAnswer = SumFunction(Worth("timesheet", "hours", "labor"))
      /\ EquipmentAnswer = SumFunction(Worth("utilization", "idle", "equipment"))
      /\ DeliveriesAnswer = SumFunction(Worth("delivered", "quantity", "material"))
  BY <1>1, EurosAre DEF LaborAnswer, EquipmentAnswer, DeliveriesAnswer
<1>5. SumFunction([r \in TimesheetsCsv |-> r.euros]) = SumFunction(Worth("timesheet", "hours", "labor"))
  BY <1>1, FileIs, AllArePriceable DEF TimesheetsCsv
<1>6. SumFunction([r \in EquipmentCsv |-> r.euros])
        = SumFunction(Worth("utilization", "idle", "equipment"))
  BY <1>1, FileIs, AllArePriceable DEF EquipmentCsv
<1>7. SumFunction(Worth("timesheet", "hours", "labor"))
        = GetEntity("worker", "admin").metrics.hours * Rate["labor"]
  BY <1>1, AddedIsWorth, AllArePriceable, WorkerHours
<1>8. PICK a, b, c \in Int : /\ a = Amount(In(Lines, "labor")) /\ b = Amount(In(Lines, "equipment"))
                             /\ c = Amount(In(Lines, "material"))
  <2>1. \A x : In(Lines, x) \in SUBSET Lines
    BY DEF In
  <2> QED
    BY <1>1, <2>1, AmountIs
<1>9. /\ a = SumFunction(Worth("timesheet", "hours", "labor"))
      /\ b = SumFunction(Worth("utilization", "idle", "equipment"))
      /\ c = SumFunction(Worth("delivered", "quantity", "material"))
  BY <1>1, <1>8, AmountsAre
<1>10. Costs("admin").total = LaborAnswer + EquipmentAnswer + DeliveriesAnswer
  BY <1>2, <1>3, <1>4, <1>8, <1>9
<1>11. Costs("admin").waste <= Costs("admin").labor
  BY <1>1, <1>2, WasteIsLabor
<1>12. /\ Costs("admin").total = SumFunction(Costs("admin").byDay)
       /\ Costs("admin").total = CostAnswer
       /\ Costs("admin").labor = SumFunction([r \in TimesheetsCsv |-> r.euros])
       /\ Costs("admin").equipment = SumFunction([r \in EquipmentCsv |-> r.euros])
       /\ Costs("admin").labor = GetEntity("worker", "admin").metrics.hours * Rate["labor"]
  BY <1>2, <1>3, <1>5, <1>6, <1>7
<1>13. PICK detail : detail = [s \in {"equipment", "material"} |-> AssetDetail(s)]
  OBVIOUS
<1>14. \A s \in {"equipment", "material"} :
         AssetRows[s].metrics = detail[s].metrics /\ AssetRows[s].state = detail[s].state
  BY <1>1, <1>13, AssetsAgree
<1>15. OnHand(detail["material"].metrics) * Rate["material"]
         = Costs("admin").material
             - Cardinality(OfKind("consumed") \cap Having({"confirmed"})) * Rate["material"]
  BY <1>1, <1>2, <1>13, OnHandIs DEF Sure
<1> QED
  BY <1>10, <1>11, <1>12, <1>13, <1>14, <1>15

-----------------------------------------------------------------------------
(* RecordReads: the days of the record                                        *)

\* The confirmed events of a day, and those of a kind among them.
SureOn(d) == {i \in Sure : Day(ledger[i].time) = d}
SureOf(d, k) == {i \in Sure : Day(ledger[i].time) = d /\ ledger[i].kind = k}
SureDays == {Day(ledger[i].time) : i \in Sure}

LEMMA RollupIs ==
  ASSUME Typed, Len(ledger) <= ReadLimit
  PROVE  Rollup = [d \in SureDays |-> [k \in Kind |-> Cardinality(SureOf(d, k))]]
<1>1. Recorded \in SUBSET Recorded
  OBVIOUS
<1>2. Range(Asc(Recorded, ReadLimit)) = Recorded
  BY <1>1, AscAll, LimitsAre
<1>3. Range(Asc(Recorded, ReadLimit)) \cap Having({"confirmed"}) = Sure
  BY <1>2, SureIs DEF Sure
<1> QED
  BY <1>3 DEF Rollup, SureDays, SureOf

LEMMA SureDaysAre ==
  ASSUME Typed
  PROVE  IsFiniteSet(SureDays) /\ SureDays \in SUBSET Nat
<1>1. PICK h, D : h = [i \in Sure |-> Day(ledger[i].time)] /\ D = {h[i] : i \in Sure}
  OBVIOUS
<1>2. D = SureDays
  BY <1>1 DEF SureDays
<1>3. IsFiniteSet(D)
  BY <1>1, SureIs, ImageIsFinite
<1>4. ASSUME NEW i \in Sure PROVE Day(ledger[i].time) \in Nat
  <2>1. PICK t \in Nat : t = ledger[i].time
    BY SureIs, EventIs
  <2>2. t \div 2 \in Nat
    OBVIOUS
  <2> QED
    BY <2>1, <2>2 DEF Day
<1> QED
  BY <1>2, <1>3, <1>4 DEF SureDays

LEMMA BoundedNats ==
  ASSUME NEW S \in SUBSET Nat, IsFiniteSet(S)
  PROVE  \E n \in Nat : \A x \in S : x <= n
<1> DEFINE G == {T \in SUBSET S : \E n \in Nat : \A x \in T : x <= n}
<1>1. {} \in G
  OBVIOUS
<1>2. ASSUME NEW T \in SUBSET S, NEW x \in S \ T, T \in G PROVE T \cup {x} \in G
  <2>1. PICK n \in Nat : \A y \in T : y <= n
    BY <1>2
  <2>2. PICK m \in Nat : m = IF x <= n THEN n ELSE x
    OBVIOUS
  <2>3. \A y \in T \cup {x} : y <= m
    BY <2>1, <2>2
  <2> QED
    BY <2>2, <2>3
<1>3. S \in G
  <2> HIDE DEF G
  <2> QED
    BY <1>1, <1>2, ElementInduction
<1> QED
  BY <1>3

LEMMA KindsAreFinite == IsFiniteSet(Kind)
<1>1. IsFiniteSet({"timesheet"})
  BY FS_Singleton
<1>2. IsFiniteSet({"timesheet"} \cup {"utilization"})
  BY <1>1, FS_AddElement
<1>3. IsFiniteSet(({"timesheet"} \cup {"utilization"}) \cup {"state_changed"})
  BY <1>2, FS_AddElement
<1>4. IsFiniteSet((({"timesheet"} \cup {"utilization"}) \cup {"state_changed"}) \cup {"delivered"})
  BY <1>3, FS_AddElement
<1>5. IsFiniteSet(((({"timesheet"} \cup {"utilization"}) \cup {"state_changed"}) \cup {"delivered"})
                     \cup {"consumed"})
  BY <1>4, FS_AddElement
<1>6. IsFiniteSet((((({"timesheet"} \cup {"utilization"}) \cup {"state_changed"}) \cup {"delivered"})
                     \cup {"consumed"}) \cup {"flagged"})
  BY <1>5, FS_AddElement
<1>7. Kind = (((({"timesheet"} \cup {"utilization"}) \cup {"state_changed"}) \cup {"delivered"})
                     \cup {"consumed"}) \cup {"flagged"}
  BY KindIs
<1> QED
  BY <1>6, <1>7

\* The counts of the kinds add up to the events of the day.
LEMMA DayIsCounted ==
  ASSUME Typed, Len(ledger) <= ReadLimit, NEW d \in SureDays
  PROVE  SumFunction(Rollup[d]) = Cardinality(SureOn(d))
<1>1. PICK S, p, e : /\ S = SureOn(d) /\ p = [i \in S |-> ledger[i].kind]
                     /\ e = [k \in Kind |-> Cardinality(SureOf(d, k))]
  OBVIOUS
<1>2. Rollup[d] = e
  BY <1>1, RollupIs
<1>3. IsFiniteSet(S) /\ \A i \in S : p[i] \in Kind
  <2>1. S \in SUBSET Sure
    BY <1>1 DEF SureOn
  <2> QED
    BY <1>1, <2>1, SureIs, FS_Subset
<1>4. ASSUME NEW k \in Kind PROVE e[k] = Cardinality(PartOf(S, p, k))
  <2>1. SureOf(d, k) = PartOf(S, p, k)
    BY <1>1 DEF SureOf, SureOn, PartOf
  <2> QED
    BY <1>1, <2>1
<1>5. SumFunctionOnSet(e, Kind) = Cardinality(S)
  BY <1>3, <1>4, KindsAreFinite, CountByPart
<1>6. DOMAIN e = Kind
  BY <1>1
<1> QED
  BY <1>1, <1>2, <1>5, <1>6 DEF SumFunction

\* The timeline that a manager sees of a day has every event of it, as it is.
LEMMA TimelineIs ==
  ASSUME Typed, Len(ledger) <= EventsLimit, NEW d
  PROVE  \E open :
           /\ ListOf(open, OnDay(d), Forward)
           /\ DOMAIN Timeline(d, "admin") = DOMAIN open
           /\ \A n \in DOMAIN open : Timeline(d, "admin")[n].event = ledger[open[n]]
<1> DEFINE listed == Asc(OnDay(d), EventsLimit)
           open == Only(listed, Open("admin"))
<1>1. OnDay(d) \in SUBSET Recorded
  BY DEF OnDay
<1>2. ListOf(listed, OnDay(d), Forward)
  BY <1>1, AscAll, LimitsAre
<1>3. ListOf(open, OnDay(d) \cap Open("admin"), Forward)
  BY <1>1, <1>2, OnlyEvents
<1>4. OnDay(d) \cap Open("admin") = OnDay(d)
  BY <1>1, RolesAre DEF Open
<1>5. Timeline(d, "admin")
        = [k \in DOMAIN open |-> [seq |-> open[k], event |-> Redacted(ledger[open[k]], "admin")]]
  BY DEF Timeline, Seen
<1> HIDE DEF open
<1>6. ASSUME NEW n \in DOMAIN open PROVE Timeline(d, "admin")[n].event = ledger[open[n]]
  <2>1. Redacted(ledger[open[n]], "admin") = ledger[open[n]]
    BY RolesAre DEF Redacted
  <2> QED
    BY <1>5, <2>1
<1>7. DOMAIN Timeline(d, "admin") = DOMAIN open
  BY <1>5
<1> QED
  BY <1>3, <1>4, <1>6, <1>7

\* Places of a list that hold what is in T are as many as what is in T.
LEMMA PlacesAre ==
  ASSUME NEW S, NEW R, NEW s, StrictOrder(S, R), ListOf(s, S, R), NEW T \in SUBSET S,
         NEW at, at = {n \in DOMAIN s : s[n] \in T}
  PROVE  Cardinality(at) = Cardinality(T)
<1>1. PICK f : f = [n \in at |-> s[n]]
  OBVIOUS
<1>2. DOMAIN s = 1..Len(s) /\ Len(s) \in Nat
  BY DEF ListOf
<1>3. IsFiniteSet(at)
  <2>1. IsFiniteSet(1..Len(s))
    BY <1>2, FS_Interval
  <2> QED
    BY <1>2, <2>1, FS_Subset
<1>4. ASSUME NEW m \in at, NEW n \in at, s[m] = s[n] PROVE m = n
  <2>1. m \in 1..Len(s) /\ n \in 1..Len(s) /\ s[m] \in S
    BY <1>2
  <2>2. <<s[m], s[n]>> \notin R /\ <<s[n], s[m]>> \notin R
    BY <1>4, <2>1 DEF StrictOrder
  <2>3. ~(m < n) /\ ~(n < m)
    BY <2>1, <2>2 DEF ListOf
  <2> QED
    BY <2>1, <2>3
<1>5. \A i \in T : \E n \in at : s[n] = i
  BY <1>2 DEF ListOf
<1>6. f \in Bijection(at, T)
  <2>1. \A n \in at : f[n] \in T
    BY <1>1
  <2>2. f \in [at -> T] /\ \A m, n \in at : f[m] = f[n] => m = n
    BY <1>1, <1>4, <2>1
  <2>3. \A i \in T : \E n \in at : f[n] = i
    BY <1>1, <1>5
  <2> QED
    BY <2>2, <2>3 DEF Bijection, Injection, IsInjective, Surjection
<1>7. ExistsBijection(at, T)
  BY <1>6 DEF ExistsBijection
<1> QED
  BY <1>3, <1>7, FS_Bijection

LEMMA DayIsListed ==
  ASSUME Typed, Len(ledger) <= EventsLimit, NEW d \in Nat
  PROVE  LET timeline == Timeline(d, "admin") IN
         Cardinality({n \in DOMAIN timeline : timeline[n].event.status = "confirmed"})
           = Cardinality(SureOn(d))
<1>1. PICK open : /\ ListOf(open, OnDay(d), Forward)
                  /\ DOMAIN Timeline(d, "admin") = DOMAIN open
                  /\ \A n \in DOMAIN open : Timeline(d, "admin")[n].event = ledger[open[n]]
  BY TimelineIs
<1>2. OnDay(d) \in SUBSET Recorded
  BY DEF OnDay
<1>3. ASSUME NEW i \in Recorded PROVE Day(ledger[i].time) = d <=> i \in OnDay(d)
  <2>1. PICK t \in Nat : t = ledger[i].time
    BY EventIs
  <2>2. t \div 2 = d <=> t \in 2 * d..2 * d + 1
    OBVIOUS
  <2> QED
    BY <2>1, <2>2 DEF Day, OnDay
<1>4. SureOn(d) \in SUBSET OnDay(d)
  BY <1>3, SureIs DEF SureOn
<1>5. \A i \in OnDay(d) : ledger[i].status = "confirmed" <=> i \in SureOn(d)
  BY <1>2, <1>3 DEF SureOn, Sure, Having
<1>6. \A n \in DOMAIN open : open[n] \in OnDay(d)
  BY <1>1 DEF ListOf
<1>7. {n \in DOMAIN Timeline(d, "admin") : Timeline(d, "admin")[n].event.status = "confirmed"}
        = {n \in DOMAIN open : open[n] \in SureOn(d)}
  BY <1>1, <1>5, <1>6
<1>8. StrictOrder(OnDay(d), Forward)
  BY <1>2, OrdersAre, SuborderIs
<1>9. Cardinality({n \in DOMAIN open : open[n] \in SureOn(d)}) = Cardinality(SureOn(d))
  BY <1>1, <1>4, <1>8, PlacesAre
<1> QED
  BY <1>7, <1>9

\* What the worker's home screen has of today did happen on the last day.
LEMMA TodayIs ==
  ASSUME Typed, Len(ledger) <= ReadLimit, NEW k \in Kind, Today[k] > 0
  PROVE  \E i \in OfKind(k) : Day(ledger[i].time) = Max(DOMAIN Rollup)
<1>1. DOMAIN Rollup = SureDays
  BY RollupIs
<1>2. DOMAIN Rollup # {}
  <2> SUFFICES ASSUME DOMAIN Rollup = {} PROVE FALSE
    OBVIOUS
  <2>1. Today = [x \in Kind |-> 0]
    BY DEF Today
  <2>2. Today[k] = 0
    BY <2>1
  <2> QED
    BY <2>2
<1>3. Today = Rollup[Max(SureDays)]
  BY <1>1, <1>2 DEF Today
<1>4. Max(SureDays) \in SureDays
  <2>1. PICK S \in SUBSET Nat : S = SureDays /\ IsFiniteSet(S) /\ S # {}
    BY <1>1, <1>2, SureDaysAre
  <2>2. PICK n \in Nat : \A x \in S : x <= n
    BY <2>1, BoundedNats
  <2> QED
    BY <2>1, <2>2, GreatestOf
<1>5. Today[k] = Cardinality(SureOf(Max(SureDays), k))
  BY <1>3, <1>4, RollupIs
<1>6. SureOf(Max(SureDays), k) # {}
  <2> SUFFICES ASSUME SureOf(Max(SureDays), k) = {} PROVE FALSE
    OBVIOUS
  <2>1. Cardinality({}) = 0
    BY FS_EmptySet
  <2>2. Today[k] = 0
    BY <1>5, <2>1
  <2> QED
    BY <2>2
<1>7. PICK i \in Sure : Day(ledger[i].time) = Max(SureDays) /\ ledger[i].kind = k
  BY <1>6 DEF SureOf
<1> QED
  BY <1>1, <1>7, SureIs DEF OfKind

LEMMA DaysDoHaveTheirEvents == ReadsTypeOK => DaysHaveTheirEvents
<1> SUFFICES ASSUME ReadsTypeOK, Len(ledger) <= Min({ReadLimit, EventsLimit})
             PROVE  /\ \A i \in Having({"confirmed"}) : Day(ledger[i].time) \in DOMAIN Rollup
                    /\ \A d \in DOMAIN Rollup :
                         LET timeline == Timeline(d, "admin")
                         IN SumFunction(Rollup[d])
                              = Cardinality({n \in DOMAIN timeline :
                                               timeline[n].event.status = "confirmed"})
                    /\ \A k \in Kind : Today[k] > 0 =>
                         \E i \in OfKind(k) : Day(ledger[i].time) = Max(DOMAIN Rollup)
  BY DEF DaysHaveTheirEvents
<1>1. Typed
  BY DEF ReadsTypeOK, Typed
<1>2. Len(ledger) <= ReadLimit /\ Len(ledger) <= EventsLimit
  <2>1. Len(ledger) \in Nat
    BY <1>1, RecordedIsFinite DEF Typed
  <2> QED
    BY <2>1, MinOfTwo, LimitsAre
<1>3. DOMAIN Rollup = SureDays
  BY <1>1, <1>2, RollupIs
<1>4. \A i \in Having({"confirmed"}) : Day(ledger[i].time) \in DOMAIN Rollup
  BY <1>3 DEF SureDays, Sure
<1>5. ASSUME NEW d \in DOMAIN Rollup
      PROVE  LET timeline == Timeline(d, "admin")
             IN SumFunction(Rollup[d])
                  = Cardinality({n \in DOMAIN timeline : timeline[n].event.status = "confirmed"})
  <2>1. d \in SureDays /\ d \in Nat
    BY <1>1, <1>3, SureDaysAre
  <2> QED
    BY <1>1, <1>2, <2>1, DayIsCounted, DayIsListed
<1>6. \A k \in Kind : Today[k] > 0 =>
        \E i \in OfKind(k) : Day(ledger[i].time) = Max(DOMAIN Rollup)
  BY <1>1, <1>2, TodayIs
<1> QED
  BY <1>4, <1>5, <1>6

\* Whatever route a figure or an event is asked for by, the answers agree: the
\* report, its days, the answers to questions, the files, the projections of the
\* subjects, the timeline of a day and the home screen of a worker
\* (services/cost_engine.py:146-196, services/record_query.py:54-176,
\* services/record_projections.py:43-108, 162-211, api/record_export.py:203-280).
THEOREM ReportsAgreeAlways == ReadsSpec => []ReportsAgree
BY ReadsTypeCorrect, FiguresDoAgree, DaysDoHaveTheirEvents, PTL DEF ReportsAgree

=============================================================================
