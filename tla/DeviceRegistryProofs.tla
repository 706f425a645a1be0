------------------------- MODULE DeviceRegistryProofs -------------------------
(* What DeviceRegistry keeps to for any number of devices, codes, requests and *)
(* tokens: its type, and that decisions on devices and codes hold.             *)
EXTENDS DeviceRegistry, TLAPS

\* A row that no claim has filled yet.
RowsOK == \A d \in Device :
    device[d].status = "none" => device[d] = Unused /\ decided[d].ended = 0

\* A claim under way has a row of its own, and if it is not late, nobody else
\* has a device by its code.
ClaimsOK == \A r \in Request : req[r].kind = "claim" =>
    /\ req[r].dev \in Device /\ device[req[r].dev] = Unused
    /\ \A x \in Request \ {r} : req[x].dev # req[r].dev
    /\ req[r].code \in Code
    /\ ~req[r].late => \A d \in Device : device[d].by # req[r].code

\* A request of an administrator is on a device that is there, and if a decision
\* is not late, the status is still the one it has read.
AdminsOK == \A r \in Request : req[r].kind \in {"revoke", "rotate", "calibrate"} =>
    /\ req[r].dev \in Device /\ device[req[r].dev].status # "none"
    /\ req[r].code = None
    /\ req[r].kind \in Deciding /\ ~req[r].late => req[r].seen = device[req[r].dev].status

\* A code that a device was claimed with is used.
CodesOK == \A d \in Device : device[d].by \in Code => code[device[d].by] = "used"

\* The token in use is newer than those that a decision has ended.
TokensOK == \A d \in Device :
    decided[d].late \/ device[d].status # "active" \/ device[d].token > decided[d].ended

IInv == /\ TypeOK /\ RowsOK /\ ClaimsOK /\ AdminsOK /\ CodesOK /\ TokensOK
        /\ OneDevicePerCode /\ LastDecisionHolds

USE RegistryAssumption

Decided == [status: {"none", "active", "revoked"}, ended: 0..MaxToken, late: BOOLEAN]
Asked == [kind: Kind, dev: Device \cup {None}, code: Code \cup {None},
          seen: {None, "active", "revoked"} \cup Config \cup {NoConfig},
          config: Config \cup {NoConfig}, late: BOOLEAN]

-----------------------------------------------------------------------------
(* Requests that begin and end *)

\* What a request asks stays as it is when others end; it may become late.
Kept(x, others) ==
    /\ req'[x].kind = req[x].kind /\ req'[x].dev = req[x].dev
    /\ req'[x].code = req[x].code /\ req'[x].seen = req[x].seen
    /\ ~req'[x].late => ~req[x].late /\ x \notin others

LEMMA IdleAsked == Idle \in Asked /\ Idle.kind = "idle" /\ Idle.dev = None
BY DEF Idle, Asked, Kind

LEMMA EndLateShape ==
  ASSUME req \in [Request -> Asked], NEW r \in Request, NEW others, EndLate(r, others)
  PROVE  /\ req' \in [Request -> Asked] /\ req'[r] = Idle
         /\ \A x \in Request \ {r} : Kept(x, others)
<1>1. req' = [x \in Request |-> req'[x]]
  BY DEF EndLate
<1>2. req'[r] = Idle
  BY Zenon DEF EndLate
<1>3. ASSUME NEW x \in Request \ {r}, x \in others
      PROVE  req'[x] = [req[x] EXCEPT !.late = TRUE]
  <2>1. x # r /\ x \in Request
    OBVIOUS
  <2> QED
    BY <1>3, <2>1, Zenon DEF EndLate
<1>4. ASSUME NEW x \in Request \ {r}, x \notin others
      PROVE  req'[x] = req[x]
  <2>1. x # r /\ x \in Request
    OBVIOUS
  <2> QED
    BY <1>4, <2>1, Zenon DEF EndLate
<1>5. ASSUME NEW x \in Request \ {r}
      PROVE  req'[x] \in Asked /\ Kept(x, others)
  <2>1. CASE x \in others
    <3>1. PICK q \in Asked : q = req[x]
      OBVIOUS
    <3>2. PICK z : z = [q EXCEPT !.late = TRUE]
      OBVIOUS
    <3>3. /\ z \in Asked /\ z.kind = q.kind /\ z.dev = q.dev /\ z.code = q.code
          /\ z.seen = q.seen /\ z.late
      BY <3>2 DEF Asked
    <3>4. req'[x] = z
      BY <1>3, <2>1, <3>1, <3>2
    <3>5. QED
      BY <3>1, <3>3, <3>4 DEF Kept
  <2>2. CASE x \notin others
    BY <1>4, <2>2 DEF Kept
  <2> QED
    BY <2>1, <2>2
<1> QED
  BY <1>1, <1>2, <1>5, IdleAsked

LEMMA StartShape ==
  ASSUME req \in [Request -> Asked], NEW r \in Request, NEW q \in Asked, Start(r, q)
  PROVE  /\ req' \in [Request -> Asked] /\ req'[r] = q
         /\ \A x \in Request \ {r} : req'[x] = req[x]
BY DEF Start

-----------------------------------------------------------------------------
(* The initial state, and the steps that begin a request *)

LEMMA InitIInv == Init => IInv
<1> SUFFICES ASSUME Init PROVE IInv
  OBVIOUS
<1>1. TypeOK
  BY IdleAsked DEF Init, TypeOK, Row, Unused, Asked
<1>2. RowsOK /\ ClaimsOK /\ AdminsOK /\ CodesOK /\ TokensOK
  BY DEF Init, RowsOK, ClaimsOK, AdminsOK, CodesOK, TokensOK, Unused, Idle
<1>3. OneDevicePerCode /\ LastDecisionHolds
  BY DEF Init, OneDevicePerCode, LastDecisionHolds, Unused
<1> QED
  BY <1>1, <1>2, <1>3 DEF IInv

\* The parts that look at the rows and the codes only.
StillParts == RowsOK /\ CodesOK /\ TokensOK /\ OneDevicePerCode /\ LastDecisionHolds

LEMMA StillStep ==
  ASSUME StillParts, UNCHANGED <<device, code, decided, raced>>
  PROVE  StillParts'
BY DEF StillParts, RowsOK, CodesOK, TokensOK, OneDevicePerCode, LastDecisionHolds

LEMMA TypeReq == TypeOK => req \in [Request -> Asked]
BY DEF TypeOK, Asked

LEMMA BeginClaimStep ==
  ASSUME IInv, NEW r \in Request, BeginClaim(r)
  PROVE  IInv'
<1> DEFINE free == {d \in Device : device[d] = Unused /\ \A x \in Request : req[x].dev # d}
<1>1. PICK c \in Code :
        /\ Claimable(c) /\ free # {} /\ asked' = asked
        /\ Start(r, [Idle EXCEPT !.kind = "claim", !.code = c,
                                 !.dev = CHOOSE d \in free : TRUE])
  BY Zenon DEF BeginClaim
<1>2. PICK e : e = CHOOSE d \in free : TRUE
  OBVIOUS
<1>3. e \in free
  BY <1>1, <1>2
<1> DEFINE q == [Idle EXCEPT !.kind = "claim", !.code = c, !.dev = e]
<1>4. Start(r, q)
  BY <1>1, <1>2
<1>5. q \in Asked /\ q.kind = "claim" /\ q.code = c /\ q.dev = e
  BY <1>3 DEF Idle, Asked, Kind
<1> HIDE DEF q
<1>6. req' \in [Request -> Asked] /\ req'[r] = q /\ \A x \in Request \ {r} : req'[x] = req[x]
  BY <1>4, <1>5, StartShape, TypeReq DEF IInv
<1>7. UNCHANGED <<device, code, agent, decided, asked, raced>>
  BY <1>1, <1>4 DEF Start
<1>8. e \in Device /\ device[e] = Unused /\ (\A x \in Request : req[x].dev # e)
  BY <1>3
<1> HIDE DEF free
<1>9. StillParts'
  BY <1>7, StillStep DEF IInv, StillParts
<1>10. TypeOK'
  BY <1>6, <1>7 DEF IInv, TypeOK, Asked
<1>11. \A d \in Device : device[d].by # c
  BY <1>1 DEF IInv, CodesOK, Claimable
<1>12. ClaimsOK'
  BY <1>5, <1>6, <1>7, <1>8, <1>11 DEF IInv, ClaimsOK
<1>13. AdminsOK'
  BY <1>5, <1>6, <1>7 DEF IInv, AdminsOK
<1> QED
  BY <1>9, <1>10, <1>12, <1>13 DEF IInv, StillParts

LEMMA BeginAdminStep ==
  ASSUME IInv, NEW r \in Request, BeginAdmin(r)
  PROVE  IInv'
<1>1. PICK d \in Device, k \in {"revoke", "rotate", "calibrate"}, f \in Config :
        /\ device[d].status # "none" /\ asked < MaxAdmin /\ asked' = asked + 1
        /\ Start(r, [Idle EXCEPT !.kind = k, !.dev = d,
                !.seen = IF k = "calibrate" THEN device[d].config ELSE device[d].status,
                !.config = IF k = "calibrate" THEN f ELSE NoConfig])
  BY Zenon DEF BeginAdmin
<1> DEFINE q == [Idle EXCEPT !.kind = k, !.dev = d,
                !.seen = IF k = "calibrate" THEN device[d].config ELSE device[d].status,
                !.config = IF k = "calibrate" THEN f ELSE NoConfig]
<1>2. Start(r, q)
  BY <1>1
<1>3. device[d] \in Row
  BY DEF IInv, TypeOK
<1>4. /\ q \in Asked /\ q.kind = k /\ q.code = None /\ q.dev = d
      /\ k \in Deciding => q.seen = device[d].status
  BY <1>1, <1>3 DEF Idle, Asked, Kind, Row, Deciding
<1> HIDE DEF q
<1>5. req' \in [Request -> Asked] /\ req'[r] = q /\ \A x \in Request \ {r} : req'[x] = req[x]
  BY <1>2, <1>4, StartShape, TypeReq DEF IInv
<1>6. UNCHANGED <<device, code, agent, decided, raced>>
  BY <1>2 DEF Start
<1>7. StillParts'
  BY <1>6, StillStep DEF IInv, StillParts
<1>8. TypeOK'
  BY <1>1, <1>5, <1>6 DEF IInv, TypeOK, Asked
<1>9. ClaimsOK'
  <2>1. device[d] # Unused
    BY <1>1 DEF Unused
  <2> QED
    BY <2>1, <1>4, <1>5, <1>6 DEF IInv, ClaimsOK
<1>10. AdminsOK'
  BY <1>1, <1>4, <1>5, <1>6 DEF IInv, AdminsOK
<1> QED
  BY <1>7, <1>8, <1>9, <1>10 DEF IInv, StillParts

-----------------------------------------------------------------------------
(* The steps that end a request *)

\* A request that fails changes nothing else.
LEMMA FailStep ==
  ASSUME IInv, NEW r \in Request, Fail(r)
  PROVE  IInv'
<1>1. EndLate(r, {}) /\ UNCHANGED <<device, code, agent, decided, asked, raced>>
  BY DEF Fail, End
<1>2. /\ req' \in [Request -> Asked] /\ req'[r] = Idle
      /\ \A x \in Request \ {r} : Kept(x, {})
  BY <1>1, EndLateShape, TypeReq DEF IInv
<1>3. StillParts'
  BY <1>1, StillStep DEF IInv, StillParts
<1>4. TypeOK'
  BY <1>1, <1>2 DEF IInv, TypeOK, Asked
<1>5. ClaimsOK'
  BY <1>1, <1>2, IdleAsked DEF IInv, ClaimsOK, Kept
<1>6. AdminsOK'
  BY <1>1, <1>2, IdleAsked DEF IInv, AdminsOK, Kept
<1> QED
  BY <1>3, <1>4, <1>5, <1>6 DEF IInv, StillParts

\* A claim fills its row; another claim of the code is late from now on.
LEMMA CommitClaimStep ==
  ASSUME IInv, NEW r \in Request, CommitClaim(r)
  PROVE  IInv'
<1> DEFINE d == req[r].dev  c == req[r].code
           others == {x \in Request : req[x].code = c}
           new == [Unused EXCEPT !.status = "active", !.token = 1, !.by = c]
<1>1. /\ req[r].kind = "claim"
      /\ device' = [device EXCEPT ![d] = new]
      /\ code' = [code EXCEPT ![c] = "used"]
      /\ \E t \in {0, 1} : agent' = [agent EXCEPT ![d].token = t]
      /\ decided' = [decided EXCEPT ![d].status = "active"]
      /\ raced' = IF req[r].late THEN raced \cup {c} ELSE raced
      /\ EndLate(r, others) /\ asked' = asked
  BY DEF CommitClaim, At
<1>2. /\ req' \in [Request -> Asked] /\ req'[r] = Idle
      /\ \A x \in Request \ {r} : Kept(x, others)
  BY <1>1, EndLateShape, TypeReq DEF IInv
<1>3. /\ d \in Device /\ device[d] = Unused /\ c \in Code
      /\ \A x \in Request \ {r} : req[x].dev # d
      /\ ~req[r].late => \A e \in Device : device[e].by # c
  BY <1>1 DEF IInv, ClaimsOK
<1>4. /\ new \in Row /\ new.status = "active" /\ new.token = 1 /\ new.by = c
      /\ new # Unused
  <2>1. new \in [status: {"active"}, token: {1}, config: {NoConfig}, by: {c}]
    BY DEF Unused
  <2>2. 1 \in 0..MaxToken
    OBVIOUS
  <2> QED
    BY <2>1, <2>2, <1>3 DEF Unused, Row
<1>5. device \in [Device -> Row] /\ decided \in [Device -> Decided]
      /\ code \in [Code -> {"unminted", "minted", "expired", "used"}]
  BY DEF IInv, TypeOK, Decided
<1> HIDE DEF new
<1>6. device' \in [Device -> Row] /\ device'[d] = new
      /\ \A e \in Device \ {d} : device'[e] = device[e]
  BY <1>1, <1>3, <1>4, <1>5
<1>7. /\ decided' \in [Device -> Decided] /\ decided'[d].status = "active"
      /\ decided'[d].ended = decided[d].ended
      /\ \A e \in Device \ {d} : decided'[e] = decided[e]
  BY <1>1, <1>3, <1>5 DEF Decided
<1>8. decided[d].ended = 0
  BY <1>3 DEF IInv, RowsOK, Unused
<1>9. TypeOK'
  <2>1. agent' \in [Device -> [token: 0..MaxToken, config: Config \cup {NoConfig}]]
    <3>1. PICK t \in {0, 1} : agent' = [agent EXCEPT ![d].token = t]
      BY <1>1
    <3>2. t \in 0..MaxToken
      OBVIOUS
    <3> QED
      BY <3>1, <3>2, <1>3 DEF IInv, TypeOK
  <2>2. code' \in [Code -> {"unminted", "minted", "expired", "used"}]
    BY <1>1, <1>3, <1>5
  <2>3. asked' \in 0..MaxAdmin /\ raced' \in SUBSET Code
    BY <1>1, <1>3 DEF IInv, TypeOK
  <2>4. \A e \in Device : (device'[e].status = "none") = (device'[e].token = 0)
    BY <1>4, <1>6 DEF IInv, TypeOK
  <2> QED
    BY <2>1, <2>2, <2>3, <2>4, <1>2, <1>6, <1>7 DEF TypeOK, Asked, Decided
<1>10. RowsOK'
  BY <1>4, <1>6, <1>7 DEF IInv, RowsOK
<1>11. ClaimsOK'
  <2> SUFFICES ASSUME NEW x \in Request, req'[x].kind = "claim"
               PROVE  /\ req'[x].dev \in Device /\ device'[req'[x].dev] = Unused
                      /\ \A y \in Request \ {x} : req'[y].dev # req'[x].dev
                      /\ req'[x].code \in Code
                      /\ ~req'[x].late => \A e \in Device : device'[e].by # req'[x].code
    BY DEF ClaimsOK
  <2>1. x # r /\ Kept(x, others) /\ req[x].kind = "claim"
    BY <1>2, IdleAsked DEF Kept
  <2>2. /\ req[x].dev \in Device /\ device[req[x].dev] = Unused
        /\ \A y \in Request \ {x} : req[y].dev # req[x].dev
        /\ req[x].code \in Code
        /\ ~req[x].late => \A e \in Device : device[e].by # req[x].code
    BY <2>1 DEF IInv, ClaimsOK
  <2>3. req[x].dev # d
    BY <2>1, <1>3
  <2>4. \A y \in Request \ {x} : req'[y].dev # req'[x].dev
    BY <2>1, <2>2, <1>2, IdleAsked DEF Kept
  <2>5. ~req'[x].late => \A e \in Device : device'[e].by # req'[x].code
    BY <2>1, <2>2, <1>4, <1>6 DEF Kept
  <2> QED
    BY <2>1, <2>2, <2>3, <2>4, <2>5, <1>6 DEF Kept
<1>12. AdminsOK'
  BY <1>2, <1>3, <1>6, IdleAsked DEF IInv, AdminsOK, Kept
<1>13. CodesOK'
  BY <1>1, <1>3, <1>4, <1>5, <1>6 DEF IInv, CodesOK
<1>14. TokensOK'
  BY <1>3, <1>4, <1>6, <1>7, <1>8 DEF IInv, TokensOK
<1>15. OneDevicePerCode'
  BY <1>1, <1>3, <1>4, <1>6 DEF IInv, OneDevicePerCode
<1>16. LastDecisionHolds'
  <2>1. ASSUME NEW e \in Device \ {d}
        PROVE  decided'[e].late \/ device'[e].status = decided'[e].status
    BY <1>6, <1>7 DEF IInv, LastDecisionHolds
  <2> QED
    BY <2>1, <1>4, <1>6, <1>7 DEF LastDecisionHolds
<1> QED
  BY <1>9, <1>10, <1>11, <1>12, <1>13, <1>14, <1>15, <1>16 DEF IInv

\* A decision that is not late leaves its device with the status it decided on,
\* and, if it is in use, with a token newer than the one that was there.
LEMMA DecideStep ==
  ASSUME IInv, NEW r \in Request, req[r].kind \in Deciding,
         NEW status \in {"active", "revoked"}, Decide(r, status),
         NEW new \in Row, device' = [device EXCEPT ![req[r].dev] = new],
         new.by = device[req[r].dev].by, new.status # "none", new.token # 0,
         ~req[r].late => new.status = status,
         status = "active" => new.token > device[req[r].dev].token,
         UNCHANGED <<code, agent, asked, raced>>
  PROVE  IInv'
<1> DEFINE d == req[r].dev
           others == {x \in Request : req[x].dev = d /\ req[x].kind \in Deciding}
           now == [status |-> status, late |-> req[r].late, ended |-> device[d].token]
<1>1. /\ decided' = [decided EXCEPT ![d] = now] /\ EndLate(r, others)
  BY DEF Decide
<1>2. /\ req' \in [Request -> Asked] /\ req'[r] = Idle
      /\ \A x \in Request \ {r} : Kept(x, others)
  BY <1>1, EndLateShape, TypeReq DEF IInv
<1>3. d \in Device /\ device[d].status # "none"
  BY DEF IInv, AdminsOK, Deciding
<1>4. device \in [Device -> Row] /\ decided \in [Device -> Decided] /\ req[r].late \in BOOLEAN
  BY DEF IInv, TypeOK, Decided
<1>5. device' \in [Device -> Row] /\ device'[d] = new
      /\ \A e \in Device \ {d} : device'[e] = device[e]
  BY <1>3, <1>4
<1>6. now \in Decided
  BY <1>3, <1>4 DEF Row, Decided
<1>7. /\ now.status = status /\ now.ended = device[d].token
      /\ now.late = req[r].late
  OBVIOUS
<1> HIDE DEF now
<1>8. /\ decided' \in [Device -> Decided] /\ decided'[d] = now
      /\ \A e \in Device \ {d} : decided'[e] = decided[e]
  BY <1>1, <1>3, <1>4, <1>6
<1>9. TypeOK'
  <2>1. \A e \in Device : (device'[e].status = "none") = (device'[e].token = 0)
    BY <1>5 DEF IInv, TypeOK
  <2> QED
    BY <2>1, <1>2, <1>5, <1>8 DEF IInv, TypeOK, Asked, Decided
<1>10. RowsOK'
  BY <1>5, <1>8 DEF IInv, RowsOK
<1>11. ClaimsOK'
  <2> SUFFICES ASSUME NEW x \in Request, req'[x].kind = "claim"
               PROVE  /\ req'[x].dev \in Device /\ device'[req'[x].dev] = Unused
                      /\ \A y \in Request \ {x} : req'[y].dev # req'[x].dev
                      /\ req'[x].code \in Code
                      /\ ~req'[x].late => \A e \in Device : device'[e].by # req'[x].code
    BY DEF ClaimsOK
  <2>1. x # r /\ Kept(x, others) /\ req[x].kind = "claim"
    BY <1>2, IdleAsked DEF Kept
  <2>2. /\ req[x].dev \in Device /\ device[req[x].dev] = Unused
        /\ \A y \in Request \ {x} : req[y].dev # req[x].dev
        /\ req[x].code \in Code
        /\ ~req[x].late => \A e \in Device : device[e].by # req[x].code
    BY <2>1 DEF IInv, ClaimsOK
  <2>3. req[x].dev # d
    BY <2>1, <2>2
  <2>4. \A y \in Request \ {x} : req'[y].dev # req'[x].dev
    BY <2>1, <2>2, <1>2, IdleAsked DEF Kept
  <2>5. ~req'[x].late => \A e \in Device : device'[e].by # req'[x].code
    BY <2>1, <2>2, <1>3, <1>5 DEF Kept
  <2> QED
    BY <2>1, <2>2, <2>3, <2>4, <2>5, <1>5 DEF Kept
<1>12. AdminsOK'
  <2> SUFFICES ASSUME NEW x \in Request, req'[x].kind \in {"revoke", "rotate", "calibrate"}
               PROVE  /\ req'[x].dev \in Device /\ device'[req'[x].dev].status # "none"
                      /\ req'[x].code = None
                      /\ req'[x].kind \in Deciding /\ ~req'[x].late
                           => req'[x].seen = device'[req'[x].dev].status
    BY DEF AdminsOK
  <2>1. x # r /\ Kept(x, others) /\ req[x].kind \in {"revoke", "rotate", "calibrate"}
    BY <1>2, IdleAsked DEF Kept
  <2>2. /\ req[x].dev \in Device /\ device[req[x].dev].status # "none"
        /\ req[x].code = None
        /\ req[x].kind \in Deciding /\ ~req[x].late => req[x].seen = device[req[x].dev].status
    BY <2>1 DEF IInv, AdminsOK
  <2>3. req[x].kind \in Deciding /\ ~req'[x].late => req[x].dev # d /\ ~req[x].late
    BY <2>1 DEF Kept
  <2> QED
    BY <2>1, <2>2, <2>3, <1>5 DEF Kept
<1>13. CodesOK'
  BY <1>3, <1>5 DEF IInv, CodesOK
<1>14. TokensOK'
  <2>1. ASSUME NEW e \in Device \ {d}
        PROVE  decided'[e].late \/ device'[e].status # "active" \/ device'[e].token > decided'[e].ended
    BY <1>5, <1>8 DEF IInv, TokensOK
  <2>2. decided'[d].late \/ device'[d].status # "active" \/ device'[d].token > decided'[d].ended
    BY <1>5, <1>7, <1>8
  <2> QED
    BY <2>1, <2>2 DEF TokensOK
<1>15. OneDevicePerCode'
  BY <1>3, <1>5 DEF IInv, OneDevicePerCode
<1>16. LastDecisionHolds'
  <2>1. ASSUME NEW e \in Device \ {d}
        PROVE  decided'[e].late \/ device'[e].status = decided'[e].status
    BY <1>5, <1>8 DEF IInv, LastDecisionHolds
  <2> QED
    BY <2>1, <1>5, <1>7, <1>8 DEF LastDecisionHolds
<1> QED
  BY <1>9, <1>10, <1>11, <1>12, <1>13, <1>14, <1>15, <1>16 DEF IInv

LEMMA CommitRevokeStep ==
  ASSUME IInv, NEW r \in Request, CommitRevoke(r)
  PROVE  IInv'
<1> DEFINE d == req[r].dev
           new == [device[d] EXCEPT !.status = Written(device[d].status, req[r].seen, "revoked")]
<1>1. /\ req[r].kind = "revoke" /\ Decide(r, "revoked")
      /\ device' = [device EXCEPT ![d].status = Written(@, req[r].seen, "revoked")]
      /\ UNCHANGED <<code, agent, asked, raced>>
  BY DEF CommitRevoke, At
<1>2. /\ d \in Device /\ device[d].status # "none"
      /\ ~req[r].late => req[r].seen = device[d].status
  BY <1>1 DEF IInv, AdminsOK, Deciding
<1>3. device \in [Device -> Row] /\ device[d].token # 0
  BY <1>2 DEF IInv, TypeOK
<1>4. device' = [device EXCEPT ![d] = new]
  BY <1>1
<1>5. /\ new \in Row /\ new.by = device[d].by /\ new.token = device[d].token
      /\ new.status # "none" /\ (~req[r].late => new.status = "revoked")
  BY <1>2, <1>3 DEF Row, Written
<1> HIDE DEF new
<1> QED
  BY <1>1, <1>3, <1>4, <1>5, DecideStep DEF Deciding

LEMMA CommitRotateStep ==
  ASSUME IInv, NEW r \in Request, CommitRotate(r)
  PROVE  IInv'
<1> DEFINE d == req[r].dev
           new == [device[d] EXCEPT !.status = Written(device[d].status, req[r].seen, "active"),
                                    !.token = device[d].token + 1]
<1>1. /\ req[r].kind = "rotate" /\ Decide(r, "active") /\ device[d].token < MaxToken
      /\ device' = [device EXCEPT ![d].status = Written(@, req[r].seen, "active"),
                                  ![d].token = @ + 1]
      /\ UNCHANGED <<code, agent, asked, raced>>
  BY DEF CommitRotate, At
<1>2. /\ d \in Device /\ device[d].status # "none"
      /\ ~req[r].late => req[r].seen = device[d].status
  BY <1>1 DEF IInv, AdminsOK, Deciding
<1>3. device \in [Device -> Row] /\ device[d].token \in Nat
  BY <1>2 DEF IInv, TypeOK, Row
<1>4. device' = [device EXCEPT ![d] = new]
  BY <1>1, <1>2, <1>3 DEF Row
<1>5. /\ new \in Row /\ new.by = device[d].by
      /\ new.token > device[d].token /\ new.token # 0
      /\ new.status # "none" /\ (~req[r].late => new.status = "active")
  BY <1>1, <1>2, <1>3 DEF Row, Written
<1> HIDE DEF new
<1> QED
  BY <1>1, <1>3, <1>4, <1>5, DecideStep DEF Deciding

\* A calibration touches nothing that the properties look at.
LEMMA CommitCalibrateStep ==
  ASSUME IInv, NEW r \in Request, CommitCalibrate(r)
  PROVE  IInv'
<1> DEFINE d == req[r].dev
           new == [device[d] EXCEPT !.config = Written(device[d].config, req[r].seen, req[r].config)]
<1>1. /\ req[r].kind = "calibrate" /\ EndLate(r, {})
      /\ device' = [device EXCEPT ![d].config = Written(@, req[r].seen, req[r].config)]
      /\ UNCHANGED <<code, agent, decided, asked, raced>>
  BY DEF CommitCalibrate, At, End
<1>2. d \in Device /\ device[d].status # "none"
  BY <1>1 DEF IInv, AdminsOK
<1>3. device \in [Device -> Row] /\ req[r].config \in Config \cup {NoConfig}
  BY <1>2 DEF IInv, TypeOK
<1>4. device' = [device EXCEPT ![d] = new]
  BY <1>1
<1>5. /\ new \in Row /\ new.by = device[d].by /\ new.token = device[d].token
      /\ new.status = device[d].status
  BY <1>2, <1>3 DEF Row, Written
<1> HIDE DEF new
<1>6. /\ device' \in [Device -> Row] /\ device'[d] = new
      /\ \A e \in Device \ {d} : device'[e] = device[e]
  BY <1>2, <1>3, <1>4, <1>5
<1>7. \A e \in Device : /\ device'[e].status = device[e].status
                        /\ device'[e].token = device[e].token /\ device'[e].by = device[e].by
  BY <1>5, <1>6
<1>8. /\ req' \in [Request -> Asked] /\ req'[r] = Idle
      /\ \A x \in Request \ {r} : Kept(x, {})
  BY <1>1, EndLateShape, TypeReq DEF IInv
<1>9. TypeOK'
  BY <1>1, <1>6, <1>7, <1>8 DEF IInv, TypeOK, Asked
<1>10. RowsOK'
  BY <1>1, <1>2, <1>6, <1>7 DEF IInv, RowsOK
<1>11. ClaimsOK'
  <2>1. device[d] # Unused
    BY <1>2 DEF Unused
  <2>2. ASSUME NEW x \in Request, req'[x].kind = "claim"
        PROVE  /\ x # r /\ Kept(x, {}) /\ req[x].kind = "claim"
    BY <1>8, <2>2, IdleAsked DEF Kept
  <2> QED
    BY <2>1, <2>2, <1>6, <1>7, <1>8, IdleAsked DEF IInv, ClaimsOK, Kept
<1>12. AdminsOK'
  BY <1>7, <1>8, IdleAsked DEF IInv, AdminsOK, Kept
<1>13. CodesOK' /\ TokensOK' /\ OneDevicePerCode' /\ LastDecisionHolds'
  BY <1>1, <1>7 DEF IInv, CodesOK, TokensOK, OneDevicePerCode, LastDecisionHolds
<1> QED
  BY <1>9, <1>10, <1>11, <1>12, <1>13 DEF IInv

-----------------------------------------------------------------------------
(* Codes and agents *)

\* Only an unused code changes: no device was claimed with it, and what a claim
\* under way has seen of the devices stays true.
LEMMA CodeStep ==
  ASSUME IInv, NEW c \in Code, Mint(c) \/ Expire(c)
  PROVE  IInv'
<1>1. /\ code[c] # "used" /\ UNCHANGED <<device, agent, req, decided, asked, raced>>
      /\ code' = [code EXCEPT ![c] = "minted"] \/ code' = [code EXCEPT ![c] = "expired"]
  BY DEF Mint, Expire
<1>2. TypeOK'
  BY <1>1 DEF IInv, TypeOK
<1>3. CodesOK'
  BY <1>1 DEF IInv, TypeOK, CodesOK
<1>4. RowsOK' /\ ClaimsOK' /\ AdminsOK' /\ TokensOK'
  BY <1>1 DEF IInv, RowsOK, ClaimsOK, AdminsOK, TokensOK
<1>5. OneDevicePerCode' /\ LastDecisionHolds'
  BY <1>1 DEF IInv, OneDevicePerCode, LastDecisionHolds
<1> QED
  BY <1>2, <1>3, <1>4, <1>5 DEF IInv

\* What the agent keeps is its own: the rows do not depend on it.
LEMMA AgentStep ==
  ASSUME IInv, NEW d \in Device, Install(d) \/ Beat(d)
  PROVE  IInv'
<1>1. UNCHANGED <<device, code, req, decided, asked, raced>>
  BY DEF Install, Beat
<1>2. device[d] \in Row
  BY DEF IInv, TypeOK
<1>3. \/ agent' = [agent EXCEPT ![d].token = device[d].token]
      \/ agent' = [agent EXCEPT ![d].config = device[d].config]
  BY DEF Install, Beat
<1>4. TypeOK'
  BY <1>1, <1>2, <1>3 DEF IInv, TypeOK, Row
<1>5. RowsOK' /\ ClaimsOK' /\ AdminsOK' /\ CodesOK' /\ TokensOK'
  BY <1>1 DEF IInv, RowsOK, ClaimsOK, AdminsOK, CodesOK, TokensOK
<1>6. OneDevicePerCode' /\ LastDecisionHolds'
  BY <1>1 DEF IInv, OneDevicePerCode, LastDecisionHolds
<1> QED
  BY <1>4, <1>5, <1>6 DEF IInv

-----------------------------------------------------------------------------
(* Theorems *)

LEMMA StepIInv == IInv /\ [Next]_vars => IInv'
<1> SUFFICES ASSUME IInv, [Next]_vars PROVE IInv'
  OBVIOUS
<1>1. CASE UNCHANGED vars
  <2>1. UNCHANGED <<device, code, agent, req, decided, asked, raced>>
    BY <1>1 DEF vars
  <2>2. TypeOK' /\ ClaimsOK' /\ AdminsOK'
    BY <2>1 DEF IInv, TypeOK, ClaimsOK, AdminsOK
  <2>3. StillParts'
    BY <2>1, StillStep DEF IInv, StillParts
  <2> QED
    BY <2>2, <2>3 DEF IInv, StillParts
<1>2. ASSUME NEW r \in Request, Begin(r) \/ Commit(r) \/ Fail(r) PROVE IInv'
  <2>1. CASE Begin(r)
    BY <2>1, BeginClaimStep, BeginAdminStep DEF Begin
  <2>2. CASE Commit(r)
    BY <2>2, CommitClaimStep, CommitRevokeStep, CommitRotateStep, CommitCalibrateStep DEF Commit
  <2>3. CASE Fail(r)
    BY <2>3, FailStep
  <2> QED
    BY <1>2, <2>1, <2>2, <2>3
<1>3. ASSUME NEW c \in Code, Mint(c) \/ Expire(c) PROVE IInv'
  BY <1>3, CodeStep
<1>4. ASSUME NEW d \in Device, Install(d) \/ Beat(d) PROVE IInv'
  BY <1>4, AgentStep
<1> QED
  BY <1>1, <1>2, <1>3, <1>4 DEF Next

\* The inductive invariant holds for any number of devices, codes, requests and
\* tokens.
THEOREM DevicesInvariant == Spec => []IInv
<1> QED
  BY InitIInv, StepIInv, PTL DEF Spec

\* Rows, codes, tokens and requests of the registry stay well-formed
\* (db/models.py, DeviceRow and DeviceClaimCodeRow).
THEOREM DevicesTypeCorrect == Spec => []TypeOK
<1>1. IInv => TypeOK
  BY DEF IInv
<1> QED
  BY <1>1, DevicesInvariant, PTL

\* However many claims, clicks and failures interleave, a code that no two
\* overlapping requests claimed has made one device (device_service.py:92).
THEOREM CodesAreSingleUse == Spec => []OneDevicePerCode
<1>1. IInv => OneDevicePerCode
  BY DEF IInv
<1> QED
  BY <1>1, DevicesInvariant, PTL

\* Whatever number of administrators act on a device, the last decision that
\* overruled none it had not seen is its status.
THEOREM DecisionsHold == Spec => []LastDecisionHolds
<1>1. IInv => LastDecisionHolds
  BY DEF IInv
<1> QED
  BY <1>1, DevicesInvariant, PTL

\* A token that such a decision revoked or replaced is dead, for ever
\* (device_service.py:175): tokens only grow, and none as old is in use.
THEOREM EndedTokensStayDead == Spec => []EndedTokensAreDead
<1>1. IInv => EndedTokensAreDead
  <2> SUFFICES ASSUME IInv, NEW d \in Device, NEW t \in 1..MaxToken,
                      t <= decided[d].ended, Authenticates(d, t)
               PROVE  decided[d].late
    BY DEF EndedTokensAreDead
  <2>1. device[d].status = "active" /\ device[d].token = t
    BY DEF Authenticates
  <2>2. decided[d].ended \in Nat
    BY DEF IInv, TypeOK
  <2> QED
    BY <2>1, <2>2 DEF IInv, TokensOK
<1> QED
  BY <1>1, DevicesInvariant, PTL
=============================================================================
