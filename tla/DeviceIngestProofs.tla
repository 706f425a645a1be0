-------------------------- MODULE DeviceIngestProofs --------------------------
(***************************************************************************)
(* For any number of agents, events and requests, when responses follow    *)
(* commits: an agent that keeps its device identity loses no event but in  *)
(* a refused batch.                                                        *)
(***************************************************************************)
EXTENDS DeviceIngest, TLAPS

-----------------------------------------------------------------------------
(* Types *)

AgentRecord == [pc: AgentPc, claim: 1..MaxClaims, batch: SUBSET Event, req: Request]

RequestRecord == [pc: RequestPc, from: Agent, claim: 1..MaxClaims,
                  batch: SUBSET Event, fresh: SUBSET Event]

\* Changing a field of one agent or one request within its type.
LEMMA AgentUpdate ==
  ASSUME TypeOK, NEW a \in Agent, NEW pc \in AgentPc
  PROVE  [agent EXCEPT ![a].pc = pc] \in [Agent -> AgentRecord]
<1>1. agent \in [Agent -> AgentRecord]
  BY DEF TypeOK, AgentRecord
<1>2. [agent[a] EXCEPT !.pc = pc] \in AgentRecord
  BY <1>1 DEF AgentRecord
<1>3. QED
  BY <1>1, <1>2

\* The same for a request.
LEMMA RequestUpdate ==
  ASSUME TypeOK, NEW r \in Request, NEW pc \in RequestPc
  PROVE  [request EXCEPT ![r].pc = pc] \in [Request -> RequestRecord]
<1>1. request \in [Request -> RequestRecord]
  BY DEF TypeOK, RequestRecord
<1>2. [request[r] EXCEPT !.pc = pc] \in RequestRecord
  BY <1>1 DEF RequestRecord
<1>3. QED
  BY <1>1, <1>2

\* Every variable has its type at the start.
LEMMA TypeInit == Init => TypeOK
<1> SUFFICES ASSUME Init PROVE TypeOK
  OBVIOUS
<1>1. 1 \in 1..MaxClaims
  BY LimitAssumption
<1>2. agent \in [Agent -> AgentRecord]
  BY <1>1 DEF Init, AgentRecord, AgentPc
<1>3. request \in [Request -> RequestRecord]
  BY <1>1 DEF Init, FreeRequest, RequestRecord, RequestPc
<1>4. QED
  BY <1>2, <1>3 DEF Init, TypeOK, AgentRecord, RequestRecord

\* Every step keeps the types.
LEMMA TypeStep == TypeOK /\ [Next]_vars => TypeOK'
<1> SUFFICES ASSUME TypeOK, [Next]_vars PROVE TypeOK'
  OBVIOUS
<1> DEFINE Rest0 == /\ produced \subseteq Event /\ staged \subseteq Event
                    /\ recorded \subseteq Event /\ drain \subseteq Event
                    /\ refused \subseteq Event /\ outbox \in [Agent -> SUBSET Event]
<1>1. TypeOK <=> /\ Rest0 /\ agent \in [Agent -> AgentRecord]
                 /\ request \in [Request -> RequestRecord]
  BY DEF TypeOK, AgentRecord, RequestRecord
<1>2. TypeOK' <=> /\ Rest0' /\ agent' \in [Agent -> AgentRecord]
                  /\ request' \in [Request -> RequestRecord]
  BY DEF TypeOK, AgentRecord, RequestRecord
<1>3. ASSUME NEW r \in Request, NEW pc \in AgentPc, Answer(r, pc)
      PROVE  agent' \in [Agent -> AgentRecord]
  <2>1. request[r].from \in Agent
    BY <1>1 DEF RequestRecord
  <2>2. [agent EXCEPT ![request[r].from].pc = pc] \in [Agent -> AgentRecord]
    BY <2>1, AgentUpdate
  <2>3. QED
    BY <1>1, <1>3, <2>2 DEF Answer
<1>4. CASE UNCHANGED vars
  BY <1>4 DEF TypeOK, vars
<1>5. ASSUME NEW e \in Event, Enqueue(e)
      PROVE  TypeOK'
  BY <1>1, <1>2, <1>5, SourceAssumption DEF Enqueue, server
<1>6. ASSUME NEW a \in Agent, NEW r \in Request, Flush(a, r)
      PROVE  TypeOK'
  <2>1. PICK batch \in OldestOf(outbox[a], BatchLimit) :
          /\ agent' = [agent EXCEPT ![a] = [@ EXCEPT !.pc = "waiting", !.batch = batch, !.req = r]]
          /\ request' = [request EXCEPT ![r] = [pc |-> "sent", from |-> a, batch |-> batch,
                                                claim |-> agent[a].claim, fresh |-> {}]]
    BY <1>6 DEF Flush
  <2>2. batch \subseteq Event
    BY <1>1, <2>1 DEF OldestOf, kSubset
  <2>3. [agent[a] EXCEPT !.pc = "waiting", !.batch = batch, !.req = r] \in AgentRecord
    BY <1>1, <2>2 DEF AgentRecord, AgentPc
  <2>4. [pc |-> "sent", from |-> a, batch |-> batch,
         claim |-> agent[a].claim, fresh |-> {}] \in RequestRecord
    BY <1>1, <2>2 DEF AgentRecord, RequestRecord, RequestPc
  <2>5. QED
    BY <1>1, <1>2, <1>6, <2>1, <2>3, <2>4 DEF Flush, server
<1>7. ASSUME NEW a \in Agent,
             TryAgain(a) \/ Ack(a) \/ Drop(a) \/ Restart(a)
      PROVE  TypeOK'
  <2>1. agent[a].claim \in 1..MaxClaims /\ agent[a].batch \subseteq Event
    BY <1>1 DEF AgentRecord
  <2>2. agent' \in [Agent -> AgentRecord]
    <3>1. CASE TryAgain(a) \/ Ack(a) \/ Drop(a)
      <4>1. agent' = [agent EXCEPT ![a].pc = "idle"]
        BY <3>1 DEF TryAgain, Ack, Drop
      <4>2. QED
        BY <4>1, AgentUpdate DEF AgentPc
    <3>2. CASE Restart(a)
      <4>1. PICK claim \in agent[a].claim..MaxClaims :
              agent' = [agent EXCEPT ![a].pc = "idle", ![a].claim = claim]
        BY <3>2 DEF Restart
      <4>2. claim \in 1..MaxClaims
        BY <2>1, LimitAssumption
      <4>3. [[agent[a] EXCEPT !.pc = "idle"] EXCEPT !.claim = claim] \in AgentRecord
        BY <1>1, <4>2 DEF AgentRecord, AgentPc
      <4>4. QED
        BY <1>1, <4>1, <4>3
    <3>3. QED
      BY <1>7, <3>1, <3>2
  <2>3. Rest0' /\ request' = request
    BY <1>1, <1>7, <2>1 DEF TryAgain, Ack, Drop, Restart, server
  <2>4. QED
    BY <1>1, <1>2, <2>2, <2>3
<1>8. ASSUME NEW r \in Request, Serve(r) \/ Fail(r)
      PROVE  TypeOK'
  <2>1. request[r].batch \subseteq Event /\ request[r].fresh \subseteq Event
    BY <1>1 DEF RequestRecord
  <2>2. request' \in [Request -> RequestRecord]
    <3>1. CASE Lookup(r)
      <4>1. [[request[r] EXCEPT !.pc = "looked"] EXCEPT !.fresh = request[r].batch \ staged]
              \in RequestRecord
        BY <1>1, <2>1 DEF RequestRecord, RequestPc
      <4>2. QED
        BY <1>1, <3>1, <4>1 DEF Lookup
    <3>2. CASE ~Lookup(r)
      <4>1. \/ request' = [request EXCEPT ![r].pc = "free"]
            \/ request' = [request EXCEPT ![r].pc = "locked"]
            \/ request' = [request EXCEPT ![r].pc = "flushed"]
            \/ request' = [request EXCEPT ![r].pc = "replied"]
            \/ request' = [request EXCEPT ![r].pc = "committed"]
        BY <1>8, <3>2 DEF Serve, Refuse, TouchDevice, InsertFresh, InsertCollides, Commit,
             Reply, Fail
      <4>2. \A pc \in RequestPc :
              [request EXCEPT ![r].pc = pc] \in [Request -> RequestRecord]
        BY RequestUpdate
      <4>3. QED
        BY <4>1, <4>2 DEF RequestPc
    <3>3. QED
      BY <3>1, <3>2
  <2>3. agent' \in [Agent -> AgentRecord]
    <3>1. agent' = agent \/ Answer(r, "permanent") \/ Answer(r, "ok")
      BY <1>8 DEF Serve, Refuse, TouchDevice, Lookup, InsertFresh, InsertCollides, Commit,
           Reply, Fail
    <3>2. QED
      BY <1>1, <1>3, <3>1 DEF AgentPc
  <2>4. Rest0'
    BY <1>1, <1>8, <2>1 DEF Serve, Refuse, TouchDevice, Lookup, InsertFresh, InsertCollides,
         Commit, Reply, Fail, server, agentSide
  <2>5. QED
    BY <1>2, <2>2, <2>3, <2>4
<1>9. CASE DrainRead \/ DrainCommit \/ DrainFail
  <2>1. drain' \subseteq Event
    BY <1>1, <1>9 DEF DrainRead, DrainCommit, DrainFail, OldestOf, kSubset, Unprocessed
  <2>2. QED
    BY <1>1, <1>2, <1>9, <2>1 DEF DrainRead, DrainCommit, DrainFail, agentSide
<1>10. QED
  BY <1>4, <1>5, <1>6, <1>7, <1>8, <1>9 DEF Next, Rest, Retry, Timeout

-----------------------------------------------------------------------------
(* The agent *)

\* A new event goes into its own agent's outbox.
LEMMA EnqueueKeeps ==
  ASSUME IInv, TypeOK', NEW e \in Event, Enqueue(e)
  PROVE  IInv'
<1>1. (\A b \in Agent : outbox[b] \subseteq EventsOf(b))'
  BY SourceAssumption DEF IInv, TypeOK, EventsOf, Enqueue, server
<1>2. (\A q \in Request : RequestOK(request[q]))'
  BY DEF IInv, TypeOK, RequestOK, EventsOf, Enqueue, server
<1>3. OneHolder'
  BY DEF IInv, TypeOK, OneHolder, HoldsDevice, Enqueue, server
<1>4. FreshIsNew'
  BY DEF IInv, TypeOK, FreshIsNew, RequestOK, Enqueue, server
<1>5. WaitsForItsBatch'
  BY DEF IInv, TypeOK, WaitsForItsBatch, AtWork, Enqueue, server
<1>6. AckIsSafe'
  BY DEF IInv, TypeOK, AckIsSafe, Enqueue, server
<1>7. StillThere'
  BY SourceAssumption DEF IInv, TypeOK, StillThere, Enqueue, server
<1>8. QED
  BY <1>1, <1>2, <1>3, <1>4, <1>5, <1>6, <1>7 DEF IInv

\* A request starts with the very batch its agent will remove.
LEMMA FlushKeeps ==
  ASSUME IInv, TypeOK', NEW a \in Agent, NEW r \in Request, Flush(a, r)
  PROVE  IInv'
<1>1. (\A b \in Agent : outbox[b] \subseteq EventsOf(b))'
  BY SourceAssumption DEF IInv, TypeOK, EventsOf, Flush, server, OldestOf, kSubset
<1>2. (\A q \in Request : RequestOK(request[q]))'
  BY DEF IInv, TypeOK, RequestOK, EventsOf, Flush, server, OldestOf, kSubset
<1>3. OneHolder'
  BY DEF IInv, TypeOK, OneHolder, HoldsDevice, Flush, server, OldestOf, kSubset
<1>4. FreshIsNew'
  BY DEF IInv, TypeOK, FreshIsNew, RequestOK, Flush, server, OldestOf, kSubset
<1>5. WaitsForItsBatch'
  BY DEF IInv, TypeOK, WaitsForItsBatch, AtWork, Flush, server, OldestOf, kSubset
<1>6. AckIsSafe'
  BY DEF IInv, TypeOK, AckIsSafe, Flush, server, OldestOf, kSubset
<1>7. StillThere'
  BY SourceAssumption DEF IInv, TypeOK, StillThere, Flush, server, OldestOf, kSubset
<1>8. QED
  BY <1>1, <1>2, <1>3, <1>4, <1>5, <1>6, <1>7 DEF IInv

\* Giving up on a request leaves its batch in the outbox.
LEMMA TryAgainKeeps ==
  ASSUME IInv, TypeOK', NEW a \in Agent, TryAgain(a)
  PROVE  IInv'
<1>1. (\A b \in Agent : outbox[b] \subseteq EventsOf(b))'
  BY SourceAssumption DEF IInv, TypeOK, EventsOf, TryAgain, server
<1>2. (\A q \in Request : RequestOK(request[q]))'
  BY DEF IInv, TypeOK, RequestOK, EventsOf, TryAgain, server
<1>3. OneHolder'
  BY DEF IInv, TypeOK, OneHolder, HoldsDevice, TryAgain, server
<1>4. FreshIsNew'
  BY DEF IInv, TypeOK, FreshIsNew, RequestOK, TryAgain, server
<1>5. WaitsForItsBatch'
  BY DEF IInv, TypeOK, WaitsForItsBatch, AtWork, TryAgain, server
<1>6. AckIsSafe'
  BY DEF IInv, TypeOK, AckIsSafe, TryAgain, server
<1>7. StillThere'
  BY SourceAssumption DEF IInv, TypeOK, StillThere, TryAgain, server
<1>8. QED
  BY <1>1, <1>2, <1>3, <1>4, <1>5, <1>6, <1>7 DEF IInv

\* What an agent that keeps its identity removes after a 2xx is staged.
LEMMA AckKeeps ==
  ASSUME IInv, TypeOK', NEW a \in Agent, Ack(a)
  PROVE  IInv'
<1>1. (\A b \in Agent : outbox[b] \subseteq EventsOf(b))'
  BY SourceAssumption DEF IInv, TypeOK, EventsOf, Ack, server
<1>2. (\A q \in Request : RequestOK(request[q]))'
  BY DEF IInv, TypeOK, RequestOK, EventsOf, Ack, server
<1>3. OneHolder'
  BY DEF IInv, TypeOK, OneHolder, HoldsDevice, Ack, server
<1>4. FreshIsNew'
  BY DEF IInv, TypeOK, FreshIsNew, RequestOK, Ack, server
<1>5. WaitsForItsBatch'
  BY DEF IInv, TypeOK, WaitsForItsBatch, AtWork, Ack, server
<1>6. AckIsSafe'
  BY DEF IInv, TypeOK, AckIsSafe, Ack, server
<1>7. StillThere'
  BY SourceAssumption DEF IInv, TypeOK, StillThere, AckIsSafe, Ack, server
<1>8. QED
  BY <1>1, <1>2, <1>3, <1>4, <1>5, <1>6, <1>7 DEF IInv

\* A dropped batch is accounted for as refused.
LEMMA DropKeeps ==
  ASSUME IInv, TypeOK', NEW a \in Agent, Drop(a)
  PROVE  IInv'
<1>1. (\A b \in Agent : outbox[b] \subseteq EventsOf(b))'
  BY SourceAssumption DEF IInv, TypeOK, EventsOf, Drop, server
<1>2. (\A q \in Request : RequestOK(request[q]))'
  BY DEF IInv, TypeOK, RequestOK, EventsOf, Drop, server
<1>3. OneHolder'
  BY DEF IInv, TypeOK, OneHolder, HoldsDevice, Drop, server
<1>4. FreshIsNew'
  BY DEF IInv, TypeOK, FreshIsNew, RequestOK, Drop, server
<1>5. WaitsForItsBatch'
  BY DEF IInv, TypeOK, WaitsForItsBatch, AtWork, Drop, server
<1>6. AckIsSafe'
  BY DEF IInv, TypeOK, AckIsSafe, Drop, server
<1>7. StillThere'
  BY SourceAssumption DEF IInv, TypeOK, StillThere, Drop, server
<1>8. QED
  BY <1>1, <1>2, <1>3, <1>4, <1>5, <1>6, <1>7 DEF IInv

\* A crash forgets the request in hand, not the outbox; a new claim only grows.
LEMMA RestartKeeps ==
  ASSUME IInv, TypeOK', NEW a \in Agent, Restart(a)
  PROVE  IInv'
<1>1. (\A b \in Agent : outbox[b] \subseteq EventsOf(b))'
  BY SourceAssumption DEF IInv, TypeOK, EventsOf, Restart, server
<1>2. (\A q \in Request : RequestOK(request[q]))'
  BY DEF IInv, TypeOK, RequestOK, EventsOf, Restart, server
<1>3. OneHolder'
  BY DEF IInv, TypeOK, OneHolder, HoldsDevice, Restart, server
<1>4. FreshIsNew'
  BY DEF IInv, TypeOK, FreshIsNew, RequestOK, Restart, server
<1>5. WaitsForItsBatch'
  BY DEF IInv, TypeOK, WaitsForItsBatch, AtWork, Restart, server
<1>6. AckIsSafe'
  BY DEF IInv, TypeOK, AckIsSafe, Restart, server
<1>7. StillThere'
  BY SourceAssumption DEF IInv, TypeOK, StillThere, Restart, server
<1>8. QED
  BY <1>1, <1>2, <1>3, <1>4, <1>5, <1>6, <1>7 DEF IInv

-----------------------------------------------------------------------------
(* The server *)

\* An agent waits for its own batch as long as no request changes its batch or
\* comes to life and no other agent begins to wait.
BatchesStay ==
  /\ \A q \in Request : /\ request'[q].batch = request[q].batch
                        /\ request'[q].from = request[q].from
                        /\ request'[q].pc # "free" => request[q].pc # "free"
  /\ \A a \in Agent : agent'[a].pc = "waiting" => agent'[a] = agent[a]

LEMMA StillWaitsForItsBatch ==
  ASSUME IInv, BatchesStay
  PROVE  WaitsForItsBatch'
<1>1. SUFFICES ASSUME NEW a \in Agent, agent'[a].pc = "waiting", AtWork(a)'
               PROVE  request'[agent'[a].req].batch = agent'[a].batch
  BY DEF WaitsForItsBatch
<1>2. PICK q \in Request : q = agent[a].req
  BY DEF IInv, TypeOK
<1>3. agent'[a] = agent[a]
  BY <1>1 DEF BatchesStay
<1>4. request'[q].pc # "free" /\ request'[q].from = a
  BY <1>1, <1>2, <1>3 DEF AtWork
<1>5. /\ request[q].pc # "free" /\ request[q].from = a
      /\ request'[q].batch = request[q].batch
  BY <1>4 DEF BatchesStay
<1>6. request[q].batch = agent[a].batch
  BY <1>1, <1>2, <1>3, <1>5 DEF IInv, WaitsForItsBatch, AtWork
<1>7. QED
  BY <1>2, <1>3, <1>5, <1>6

\* A refusal reaches the agent as a refusal, never as a 2xx.
LEMMA RefuseKeeps ==
  ASSUME IInv, TypeOK', NEW r \in Request, Refuse(r)
  PROVE  IInv'
<1>1. (\A b \in Agent : outbox[b] \subseteq EventsOf(b))'
  BY SourceAssumption DEF IInv, TypeOK, EventsOf, Refuse, Answer, server, agentSide
<1>2. (\A q \in Request : RequestOK(request[q]))'
  BY DEF IInv, TypeOK, RequestOK, EventsOf, Refuse, Answer, server, agentSide
<1>3. OneHolder'
  BY DEF IInv, TypeOK, OneHolder, HoldsDevice, Refuse, Answer, server, agentSide
<1>4. FreshIsNew'
  BY DEF IInv, TypeOK, FreshIsNew, RequestOK, Refuse, Answer, server, agentSide
<1>5. WaitsForItsBatch'
  <2>1. BatchesStay
    BY DEF IInv, TypeOK, BatchesStay, Refuse, Answer, agentSide
  <2>2. QED
    BY <2>1, StillWaitsForItsBatch
<1>6. AckIsSafe'
  BY DEF IInv, TypeOK, AckIsSafe, Refuse, Answer, server, agentSide
<1>7. StillThere'
  BY SourceAssumption DEF IInv, TypeOK, StillThere, Refuse, Answer, server, agentSide
<1>8. QED
  BY <1>1, <1>2, <1>3, <1>4, <1>5, <1>6, <1>7 DEF IInv

\* The row lock: no other request of the device is between here and its commit.
LEMMA TouchDeviceKeeps ==
  ASSUME IInv, TypeOK', NEW r \in Request, TouchDevice(r)
  PROVE  IInv'
<1>1. (\A b \in Agent : outbox[b] \subseteq EventsOf(b))'
  BY SourceAssumption DEF IInv, TypeOK, EventsOf, TouchDevice, server, agentSide
<1>2. (\A q \in Request : RequestOK(request[q]))'
  BY DEF IInv, TypeOK, RequestOK, EventsOf, TouchDevice, server, agentSide
<1>3. OneHolder'
  BY DEF IInv, TypeOK, OneHolder, HoldsDevice, TouchDevice, server, agentSide
<1>4. FreshIsNew'
  BY DEF IInv, TypeOK, FreshIsNew, RequestOK, TouchDevice, server, agentSide
<1>5. WaitsForItsBatch'
  <2>1. BatchesStay
    BY DEF IInv, TypeOK, BatchesStay, TouchDevice, agentSide
  <2>2. QED
    BY <2>1, StillWaitsForItsBatch
<1>6. AckIsSafe'
  BY DEF IInv, TypeOK, AckIsSafe, TouchDevice, server, agentSide
<1>7. StillThere'
  BY SourceAssumption DEF IInv, TypeOK, StillThere, TouchDevice, server, agentSide
<1>8. QED
  BY <1>1, <1>2, <1>3, <1>4, <1>5, <1>6, <1>7 DEF IInv

\* What a lookup finds is staged, and the rest is new.
LEMMA LookupKeeps ==
  ASSUME IInv, TypeOK', NEW r \in Request, Lookup(r)
  PROVE  IInv'
<1>1. (\A b \in Agent : outbox[b] \subseteq EventsOf(b))'
  BY SourceAssumption DEF IInv, TypeOK, EventsOf, Lookup, server, agentSide
<1>2. (\A q \in Request : RequestOK(request[q]))'
  BY DEF IInv, TypeOK, RequestOK, EventsOf, Lookup, server, agentSide
<1>3. OneHolder'
  BY DEF IInv, TypeOK, OneHolder, HoldsDevice, Lookup, server, agentSide
<1>4. FreshIsNew'
  BY DEF IInv, TypeOK, FreshIsNew, RequestOK, Lookup, server, agentSide
<1>5. WaitsForItsBatch'
  <2>1. BatchesStay
    BY DEF IInv, TypeOK, BatchesStay, Lookup, agentSide
  <2>2. QED
    BY <2>1, StillWaitsForItsBatch
<1>6. AckIsSafe'
  BY DEF IInv, TypeOK, AckIsSafe, Lookup, server, agentSide
<1>7. StillThere'
  BY SourceAssumption DEF IInv, TypeOK, StillThere, Lookup, server, agentSide
<1>8. QED
  BY <1>1, <1>2, <1>3, <1>4, <1>5, <1>6, <1>7 DEF IInv

\* A flush changes nothing another transaction sees.
LEMMA InsertFreshKeeps ==
  ASSUME IInv, TypeOK', ~ReplyFirst, NEW r \in Request, InsertFresh(r)
  PROVE  IInv'
<1>1. (\A b \in Agent : outbox[b] \subseteq EventsOf(b))'
  BY SourceAssumption DEF IInv, TypeOK, EventsOf, InsertFresh, server, agentSide
<1>2. (\A q \in Request : RequestOK(request[q]))'
  BY DEF IInv, TypeOK, RequestOK, EventsOf, InsertFresh, server, agentSide
<1>3. OneHolder'
  BY DEF IInv, TypeOK, OneHolder, HoldsDevice, InsertFresh, server, agentSide
<1>4. FreshIsNew'
  BY DEF IInv, TypeOK, FreshIsNew, RequestOK, InsertFresh, server, agentSide
<1>5. WaitsForItsBatch'
  <2>1. BatchesStay
    BY DEF IInv, TypeOK, BatchesStay, InsertFresh, agentSide
  <2>2. QED
    BY <2>1, StillWaitsForItsBatch
<1>6. AckIsSafe'
  BY DEF IInv, TypeOK, AckIsSafe, InsertFresh, server, agentSide
<1>7. StillThere'
  BY SourceAssumption DEF IInv, TypeOK, StillThere, InsertFresh, server, agentSide
<1>8. QED
  BY <1>1, <1>2, <1>3, <1>4, <1>5, <1>6, <1>7 DEF IInv

\* The 202 of a rolled back batch goes to no agent that kept its identity.
LEMMA InsertCollidesKeeps ==
  ASSUME IInv, TypeOK', NEW r \in Request, InsertCollides(r)
  PROVE  IInv'
<1>1. (\A b \in Agent : outbox[b] \subseteq EventsOf(b))'
  BY SourceAssumption DEF IInv, TypeOK, EventsOf, InsertCollides, Answer, server, agentSide
<1>2. (\A q \in Request : RequestOK(request[q]))'
  BY DEF IInv, TypeOK, RequestOK, EventsOf, InsertCollides, Answer, server, agentSide
<1>3. OneHolder'
  BY DEF IInv, TypeOK, OneHolder, HoldsDevice, InsertCollides, Answer, server, agentSide
<1>4. FreshIsNew'
  BY DEF IInv, TypeOK, FreshIsNew, RequestOK, InsertCollides, Answer, server, agentSide
<1>5. WaitsForItsBatch'
  <2>1. BatchesStay
    BY DEF IInv, TypeOK, BatchesStay, InsertCollides, Answer, agentSide
  <2>2. QED
    BY <2>1, StillWaitsForItsBatch
<1>6. AckIsSafe'
  <2>1. agent[request[r].from].claim # 1
    BY DEF IInv, FreshIsNew, InsertCollides
  <2>2. SUFFICES ASSUME NEW a \in Agent, agent'[a].pc = "ok", agent'[a].claim = 1
                 PROVE  agent'[a].batch \subseteq staged
    BY DEF AckIsSafe, InsertCollides, server
  <2>3. agent'[a] = agent[a]
    BY <2>1, <2>2 DEF IInv, TypeOK, InsertCollides, Answer
  <2>4. QED
    BY <2>2, <2>3 DEF IInv, AckIsSafe
<1>7. StillThere'
  BY SourceAssumption DEF IInv, TypeOK, StillThere, InsertCollides, Answer, server, agentSide
<1>8. QED
  BY <1>1, <1>2, <1>3, <1>4, <1>5, <1>6, <1>7 DEF IInv

\* A commit stages nothing another request has found to be new.
LEMMA CommitKeeps ==
  ASSUME IInv, TypeOK', ~ReplyFirst, NEW r \in Request, Commit(r)
  PROVE  IInv'
<1>1. (\A b \in Agent : outbox[b] \subseteq EventsOf(b))'
  BY SourceAssumption DEF IInv, TypeOK, EventsOf, Commit, server, agentSide
<1>2. (\A q \in Request : RequestOK(request[q]))'
  BY DEF IInv, TypeOK, RequestOK, EventsOf, Commit, server, agentSide
<1>3. OneHolder'
  BY DEF IInv, TypeOK, OneHolder, HoldsDevice, Commit, server, agentSide
<1>4. FreshIsNew'
  <2>1. SUFFICES ASSUME NEW q \in Request, request'[q].pc = "looked",
                        agent[request[q].from].claim = 1
                 PROVE  request[q].fresh \cap staged' = {}
    BY DEF IInv, TypeOK, FreshIsNew, Commit
  <2>2. q # r /\ request[q].pc = "looked" /\ request[r].pc = "flushed"
    BY <2>1 DEF IInv, TypeOK, Commit
  <2>3. request[q].fresh \cap staged = {}
    BY <2>1, <2>2 DEF IInv, FreshIsNew
  <2>4. /\ request[q].fresh \subseteq EventsOf(request[q].from)
        /\ request[r].fresh \subseteq EventsOf(request[r].from)
        /\ request[q].claim <= agent[request[q].from].claim
        /\ request[r].claim <= agent[request[r].from].claim
    BY <2>2 DEF IInv, RequestOK
  <2>5. request[q].from # request[r].from
    <3>1. SUFFICES ASSUME request[q].from = request[r].from PROVE FALSE
      OBVIOUS
    <3>2. request[q].claim \in 1..MaxClaims /\ request[r].claim \in 1..MaxClaims
      BY DEF IInv, TypeOK
    <3>3. request[q].claim <= 1 /\ request[r].claim <= 1
      BY <2>1, <2>4, <3>1
    <3>4. request[q].claim = 1 /\ request[r].claim = 1
      BY <3>2, <3>3, LimitAssumption
    <3>5. QED
      BY <2>2, <3>1, <3>4 DEF IInv, OneHolder, HoldsDevice
  <2>6. request[q].fresh \cap request[r].fresh = {}
    BY <2>4, <2>5 DEF EventsOf
  <2>7. QED
    BY <2>3, <2>6 DEF Commit
<1>5. WaitsForItsBatch'
  <2>1. BatchesStay
    BY DEF IInv, TypeOK, BatchesStay, Commit, agentSide
  <2>2. QED
    BY <2>1, StillWaitsForItsBatch
<1>6. AckIsSafe'
  BY DEF IInv, TypeOK, AckIsSafe, Commit, server, agentSide
<1>7. StillThere'
  BY SourceAssumption DEF IInv, TypeOK, StillThere, Commit, server, agentSide
<1>8. QED
  BY <1>1, <1>2, <1>3, <1>4, <1>5, <1>6, <1>7 DEF IInv

\* With responses after commits, a 202 is for a staged batch.
LEMMA ReplyKeeps ==
  ASSUME IInv, TypeOK', ~ReplyFirst, NEW r \in Request, Reply(r)
  PROVE  IInv'
<1>1. (\A b \in Agent : outbox[b] \subseteq EventsOf(b))'
  BY SourceAssumption DEF IInv, TypeOK, EventsOf, Reply, Answer, server, agentSide
<1>2. (\A q \in Request : RequestOK(request[q]))'
  BY DEF IInv, TypeOK, RequestOK, EventsOf, Reply, Answer, server, agentSide
<1>3. OneHolder'
  BY DEF IInv, TypeOK, OneHolder, HoldsDevice, Reply, Answer, server, agentSide
<1>4. FreshIsNew'
  BY DEF IInv, TypeOK, FreshIsNew, RequestOK, Reply, Answer, server, agentSide
<1>5. WaitsForItsBatch'
  <2>1. BatchesStay
    BY DEF IInv, TypeOK, BatchesStay, Reply, Answer, agentSide
  <2>2. QED
    BY <2>1, StillWaitsForItsBatch
<1>6. AckIsSafe'
  <2>1. request[r].pc = "committed" /\ request[r].batch \subseteq staged
    BY DEF IInv, RequestOK, Reply
  <2>2. SUFFICES ASSUME NEW a \in Agent, agent'[a].pc = "ok", agent'[a].claim = 1
                 PROVE  agent'[a].batch \subseteq staged
    BY DEF AckIsSafe, Reply, server
  <2>3. CASE agent'[a] = agent[a]
    BY <2>2, <2>3 DEF IInv, AckIsSafe
  <2>4. CASE agent'[a] # agent[a]
    <3>1. a = request[r].from /\ agent[a].pc = "waiting" /\ agent[a].req = r
      BY <2>4 DEF IInv, TypeOK, Reply, Answer
    <3>2. agent'[a].batch = agent[a].batch
      BY <3>1 DEF IInv, TypeOK, Reply, Answer
    <3>3. agent[a].batch = request[r].batch
      BY <2>1, <3>1 DEF IInv, WaitsForItsBatch, AtWork
    <3>4. QED
      BY <2>1, <3>2, <3>3
  <2>5. QED
    BY <2>3, <2>4
<1>7. StillThere'
  BY SourceAssumption DEF IInv, TypeOK, StillThere, Reply, Answer, server, agentSide
<1>8. QED
  BY <1>1, <1>2, <1>3, <1>4, <1>5, <1>6, <1>7 DEF IInv

\* A failed request leaves nothing behind.
LEMMA FailKeeps ==
  ASSUME IInv, TypeOK', NEW r \in Request, Fail(r)
  PROVE  IInv'
<1>1. (\A b \in Agent : outbox[b] \subseteq EventsOf(b))'
  BY SourceAssumption DEF IInv, TypeOK, EventsOf, Fail, server, agentSide
<1>2. (\A q \in Request : RequestOK(request[q]))'
  BY DEF IInv, TypeOK, RequestOK, EventsOf, Fail, server, agentSide
<1>3. OneHolder'
  BY DEF IInv, TypeOK, OneHolder, HoldsDevice, Fail, server, agentSide
<1>4. FreshIsNew'
  BY DEF IInv, TypeOK, FreshIsNew, RequestOK, Fail, server, agentSide
<1>5. WaitsForItsBatch'
  <2>1. BatchesStay
    BY DEF IInv, TypeOK, BatchesStay, Fail, agentSide
  <2>2. QED
    BY <2>1, StillWaitsForItsBatch
<1>6. AckIsSafe'
  BY DEF IInv, TypeOK, AckIsSafe, Fail, server, agentSide
<1>7. StillThere'
  BY SourceAssumption DEF IInv, TypeOK, StillThere, Fail, server, agentSide
<1>8. QED
  BY <1>1, <1>2, <1>3, <1>4, <1>5, <1>6, <1>7 DEF IInv

\* The drain task touches neither the outboxes nor the staged rows.
LEMMA DrainKeeps ==
  ASSUME IInv, TypeOK', DrainRead \/ DrainCommit \/ DrainFail
  PROVE  IInv'
<1>1. (\A b \in Agent : outbox[b] \subseteq EventsOf(b))'
  BY SourceAssumption DEF IInv, TypeOK, EventsOf, DrainRead, DrainCommit, DrainFail, agentSide
<1>2. (\A q \in Request : RequestOK(request[q]))'
  BY DEF IInv, TypeOK, RequestOK, EventsOf, DrainRead, DrainCommit, DrainFail, agentSide
<1>3. OneHolder'
  BY DEF IInv, TypeOK, OneHolder, HoldsDevice, DrainRead, DrainCommit, DrainFail, agentSide
<1>4. FreshIsNew'
  BY DEF IInv, TypeOK, FreshIsNew, RequestOK, DrainRead, DrainCommit, DrainFail, agentSide
<1>5. WaitsForItsBatch'
  BY DEF IInv, TypeOK, WaitsForItsBatch, AtWork, DrainRead, DrainCommit, DrainFail, agentSide
<1>6. AckIsSafe'
  BY DEF IInv, TypeOK, AckIsSafe, DrainRead, DrainCommit, DrainFail, agentSide
<1>7. StillThere'
  BY SourceAssumption DEF IInv, TypeOK, StillThere, DrainRead, DrainCommit, DrainFail, agentSide
<1>8. QED
  BY <1>1, <1>2, <1>3, <1>4, <1>5, <1>6, <1>7 DEF IInv

-----------------------------------------------------------------------------
(* The theorems *)

\* The invariant holds at the start and every step keeps it.
THEOREM InvariantInit == Init => IInv
<1> SUFFICES ASSUME Init PROVE IInv
  OBVIOUS
<1>1. TypeOK
  BY TypeInit
<1>2. \A r \in Request : request[r].pc = "free"
  BY DEF Init, FreeRequest
<1>3. \A a \in Agent : agent[a].pc = "idle"
  BY DEF Init
<1>4. \A r \in Request : RequestOK(request[r])
  BY <1>2 DEF RequestOK
<1>5. OneHolder /\ FreshIsNew /\ WaitsForItsBatch /\ AckIsSafe
  BY <1>2, <1>3 DEF OneHolder, HoldsDevice, FreshIsNew, WaitsForItsBatch, AckIsSafe
<1>6. StillThere /\ \A a \in Agent : outbox[a] \subseteq EventsOf(a)
  BY DEF Init, StillThere
<1>7. QED
  BY <1>1, <1>4, <1>5, <1>6 DEF IInv

\* Every step of any session keeps the invariant.
THEOREM InvariantStep == ~ReplyFirst /\ IInv /\ [Next]_vars => IInv'
<1> SUFFICES ASSUME ~ReplyFirst, IInv, [Next]_vars PROVE IInv'
  OBVIOUS
<1>1. TypeOK'
  BY TypeStep DEF IInv
<1>2. CASE UNCHANGED vars
  BY <1>2 DEF vars, IInv, TypeOK, RequestOK, OneHolder, HoldsDevice, FreshIsNew,
       WaitsForItsBatch, AtWork, AckIsSafe, StillThere
<1>3. ASSUME NEW e \in Event, Enqueue(e)
      PROVE  IInv'
  BY <1>1, <1>3, EnqueueKeeps
<1>4. ASSUME NEW a \in Agent, NEW r \in Request, Flush(a, r)
      PROVE  IInv'
  BY <1>1, <1>4, FlushKeeps
<1>5. ASSUME NEW a \in Agent,
             Rest(a) \/ Retry(a) \/ Timeout(a) \/ Ack(a) \/ Drop(a) \/ Restart(a)
      PROVE  IInv'
  BY <1>1, <1>2, <1>5, TryAgainKeeps, AckKeeps, DropKeeps, RestartKeeps
     DEF Rest, Retry, Timeout
<1>6. ASSUME NEW r \in Request, Serve(r) \/ Fail(r)
      PROVE  IInv'
  BY <1>1, <1>6, RefuseKeeps, TouchDeviceKeeps, LookupKeeps, InsertFreshKeeps,
     InsertCollidesKeeps, CommitKeeps, ReplyKeeps, FailKeeps DEF Serve
<1>7. CASE DrainRead \/ DrainCommit \/ DrainFail
  BY <1>1, <1>7, DrainKeeps
<1>8. QED
  BY <1>2, <1>3, <1>4, <1>5, <1>6, <1>7 DEF Next

\* Every variable keeps its type, whenever responses are sent.
THEOREM TypeCorrect == Spec => []TypeOK
  BY TypeInit, TypeStep, PTL DEF Spec

\* When responses follow commits, overlapping, failing and repeated requests
\* lose no event of an agent that keeps its device identity.
THEOREM OneDeviceIsSafe == ~ReplyFirst => (Spec => []OneDeviceLosesNothing)
<1> SUFFICES ASSUME ~ReplyFirst PROVE Spec => []OneDeviceLosesNothing
  OBVIOUS
<1>1. IInv /\ [Next]_vars => IInv'
  BY InvariantStep
<1>2. IInv => OneDeviceLosesNothing
  BY DEF IInv, StillThere, OneDeviceLosesNothing, Kept
<1>3. QED
  BY InvariantInit, <1>1, <1>2, PTL DEF Spec
===============================================================================
