---------------------------- MODULE DeviceRegistry ----------------------------
(* Devices from the one-time code to the revoked token: api/devices.py over   *)
(* services/device_service.py, the device side of api/ingest.py except the    *)
(* staging of events (DeviceIngest), and the agent's heartbeat loop.  Two     *)
(* requests on one device overlap: each reads the row, and its UPDATE names   *)
(* only the columns in which its copy has changed.                            *)
EXTENDS Naturals, FiniteSets

CONSTANTS Device,    \* rows of devices
          Code,      \* one-time codes
          Request,   \* requests under way at a time
          Config,    \* calibrations an administrator sets
          NoConfig,  \* the calibration of a new device
          MaxToken,  \* bound: tokens a device is given, one after the other
          MaxAdmin,  \* bound: requests of administrators on devices
          None

ASSUME RegistryAssumption == /\ MaxToken \in Nat \ {0} /\ MaxAdmin \in Nat
                             /\ None \notin Device \cup Code /\ NoConfig \notin Config

VARIABLES device,   \* the rows
          code,     \* what became of a code
          agent,    \* the token and the configuration an agent has
          req,      \* requests under way
          decided,  \* history: the last decision on a device, and the tokens it ended
          asked,    \* number of requests of administrators so far, for the bound
          raced     \* history: codes that two overlapping requests claimed

vars == <<device, code, agent, req, decided, asked, raced>>

\* A row of a device: its status, the number of its token, its calibration and
\* the code it was claimed with.
Unused == [status |-> "none", token |-> 0, config |-> NoConfig, by |-> None]
Row == [status: {"none", "active", "revoked"}, token: 0..MaxToken,
        config: Config \cup {NoConfig}, by: Code \cup {None}]

Kind == {"idle", "claim", "revoke", "rotate", "calibrate"}
Deciding == {"revoke", "rotate"}

\* seen: the status, for a calibration the calibration, as it was read; config:
\* the calibration that is asked for; late: another request has decided on the
\* device, or claimed the code, after that.
Idle == [kind |-> "idle", dev |-> None, code |-> None, seen |-> None,
         config |-> NoConfig, late |-> FALSE]

Init == /\ device = [d \in Device |-> Unused]
        /\ code = [c \in Code |-> "unminted"]
        /\ agent = [d \in Device |-> [token |-> 0, config |-> NoConfig]]
        /\ req = [r \in Request |-> Idle]
        /\ decided = [d \in Device |-> [status |-> "none", ended |-> 0, late |-> FALSE]]
        /\ asked = 0 /\ raced = {}

-----------------------------------------------------------------------------
(* Requests read.                                                             *)

Start(r, q) == /\ req[r] = Idle /\ req' = [req EXCEPT ![r] = q]
               /\ UNCHANGED <<device, code, agent, decided, raced>>

\* An administrator mints a code; it may expire before anybody uses it.
Mint(c) == /\ code[c] = "unminted"
           /\ code' = [code EXCEPT ![c] = "minted"]
           /\ UNCHANGED <<device, agent, req, decided, asked, raced>>

Expire(c) == /\ code[c] = "minted"
             /\ code' = [code EXCEPT ![c] = "expired"]
             /\ UNCHANGED <<device, agent, req, decided, asked, raced>>

\* Mutant of Claimable: a used code is as good as a new one.
ClaimableOften(c) == code[c] \in {"minted", "used"}

Claimable(c) == code[c] = "minted"

BeginClaim(r) ==
    LET free == {d \in Device : device[d] = Unused /\ \A x \in Request : req[x].dev # d}
    IN \E c \in Code :
         /\ Claimable(c) /\ free # {} /\ asked' = asked
         /\ Start(r, [Idle EXCEPT !.kind = "claim", !.code = c,
                                  !.dev = CHOOSE d \in free : TRUE])

\* An administrator's request on a device of the organisation.
BeginAdmin(r) ==
    \E d \in Device, k \in {"revoke", "rotate", "calibrate"}, f \in Config :
        /\ device[d].status # "none" /\ asked < MaxAdmin /\ asked' = asked + 1
        /\ k # "calibrate" => f = CHOOSE x \in Config : TRUE
        /\ k = "rotate" => device[d].token < MaxToken
        /\ Start(r, [Idle EXCEPT !.kind = k, !.dev = d,
                !.seen = IF k = "calibrate" THEN device[d].config ELSE device[d].status,
                !.config = IF k = "calibrate" THEN f ELSE NoConfig])

-----------------------------------------------------------------------------
(* Requests commit.                                                           *)

At(r, k) == req[r].kind = k

\* The request ends; the others in the set are late from now on.
EndLate(r, others) ==
    req' = [x \in Request |->
              CASE x = r -> Idle
                [] x # r /\ x \in others -> [req[x] EXCEPT !.late = TRUE]
                [] x # r /\ x \notin others -> req[x]]
End(r) == EndLate(r, {})

\* A column is in the UPDATE if its new value is not the one that was read.
Written(now, seen, new) == IF new # seen THEN new ELSE now

\* The code is marked as used, whatever happened since it was read.  The agent
\* has the token now, if the answer arrives.
CommitClaim(r) ==
    LET q == req[r] IN
    /\ At(r, "claim")
    /\ device' = [device EXCEPT ![q.dev] =
                    [Unused EXCEPT !.status = "active", !.token = 1, !.by = q.code]]
    /\ code' = [code EXCEPT ![q.code] = "used"]
    /\ \E t \in {0, 1} : agent' = [agent EXCEPT ![q.dev].token = t]
    /\ decided' = [decided EXCEPT ![q.dev].status = "active"]
    /\ raced' = IF q.late THEN raced \cup {q.code} ELSE raced
    /\ EndLate(r, {x \in Request : req[x].code = q.code})
    /\ UNCHANGED asked

\* The decision of a request is the last word on its device.
Decide(r, status) ==
    LET d == req[r].dev IN
    /\ decided' = [decided EXCEPT ![d] = [status |-> status, late |-> req[r].late,
                                          ended |-> device[d].token]]
    /\ EndLate(r, {x \in Request : req[x].dev = d /\ req[x].kind \in Deciding})

CommitRevoke(r) ==
    LET q == req[r] IN
    /\ At(r, "revoke")
    /\ device' = [device EXCEPT ![q.dev].status = Written(@, q.seen, "revoked")]
    /\ Decide(r, "revoked")
    /\ UNCHANGED <<code, agent, asked, raced>>

\* Mutant of CommitRotate: a new token for a device that stays as it was.
CommitRotateToken(r) ==
    LET d == req[r].dev IN
    /\ At(r, "rotate") /\ device[d].token < MaxToken
    /\ device' = [device EXCEPT ![d].token = @ + 1]
    /\ Decide(r, "active")
    /\ UNCHANGED <<code, agent, asked, raced>>

\* A new token, which replaces the one that is there; the device is back in use.
CommitRotate(r) ==
    LET q == req[r]  d == q.dev IN
    /\ At(r, "rotate") /\ device[d].token < MaxToken
    /\ device' = [device EXCEPT ![d].status = Written(@, q.seen, "active"),
                                ![d].token = @ + 1]
    /\ Decide(r, "active")
    /\ UNCHANGED <<code, agent, asked, raced>>

CommitCalibrate(r) ==
    LET q == req[r] IN
    /\ At(r, "calibrate")
    /\ device' = [device EXCEPT ![q.dev].config = Written(@, q.seen, q.config)]
    /\ UNCHANGED <<code, agent, decided, asked, raced>>
    /\ End(r)

\* The token of a rotation is brought to the agent; that of a claim whose answer
\* was lost nobody knows.
Install(d) == /\ device[d].token > 1 /\ agent[d].token # device[d].token
              /\ agent' = [agent EXCEPT ![d].token = device[d].token]
              /\ UNCHANGED <<device, code, req, decided, asked, raced>>

\* Mutant of Authenticates: the status is not looked at.
AuthenticatesByToken(d, t) == device[d].token = t

\* The token of the request is that of a device in use.
Authenticates(d, t) == device[d].status = "active" /\ device[d].token = t

\* Mutant of Beat: the version that comes first stays.
BeatOnce(d) ==
    /\ agent[d].token > 0 /\ Authenticates(d, agent[d].token)
    /\ agent[d].config = NoConfig
    /\ agent' = [agent EXCEPT ![d].config = device[d].config]
    /\ UNCHANGED <<device, code, req, decided, asked, raced>>

\* A heartbeat gets through, and the fetch of the configuration after it: the
\* agent takes over a version that is new to it.
Beat(d) ==
    /\ agent[d].token > 0 /\ Authenticates(d, agent[d].token)
    /\ agent[d].config # device[d].config
    /\ agent' = [agent EXCEPT ![d].config = device[d].config]
    /\ UNCHANGED <<device, code, req, decided, asked, raced>>

Fail(r) == req[r] # Idle /\ End(r) /\ UNCHANGED <<device, code, agent, decided, asked, raced>>

Begin(r) == BeginClaim(r) \/ BeginAdmin(r)
Commit(r) == CommitClaim(r) \/ CommitRevoke(r) \/ CommitRotate(r) \/ CommitCalibrate(r)

Next == \/ \E r \in Request : Begin(r) \/ Commit(r) \/ Fail(r)
        \/ \E c \in Code : Mint(c) \/ Expire(c)
        \/ \E d \in Device : Install(d) \/ Beat(d)

Spec == Init /\ [][Next]_vars

\* Heartbeats are due for ever; now and then one gets through.
FairSpec == Spec /\ \A d \in Device : SF_vars(Beat(d))

-----------------------------------------------------------------------------
(* Properties.                                                                *)

TypeOK ==
    /\ device \in [Device -> Row]
    /\ code \in [Code -> {"unminted", "minted", "expired", "used"}]
    /\ agent \in [Device -> [token: 0..MaxToken, config: Config \cup {NoConfig}]]
    /\ req \in [Request -> [kind: Kind, dev: Device \cup {None},
                            code: Code \cup {None}, seen: {None, "active", "revoked"} \cup Config \cup {NoConfig},
                            config: Config \cup {NoConfig}, late: BOOLEAN]]
    /\ decided \in [Device -> [status: {"none", "active", "revoked"},
                               ended: 0..MaxToken, late: BOOLEAN]]
    /\ asked \in 0..MaxAdmin /\ raced \in SUBSET Code
    /\ \A d \in Device : (device[d].status = "none") = (device[d].token = 0)

\* A code makes one device and no more (services/device_service.py:92,
\* "Single-use"), if no two requests with it overlap: nothing locks its row.
OneDevicePerCode ==
    \A d, e \in Device :
        d # e /\ device[d].by = device[e].by => device[d].by \in raced \cup {None}

\* The last word on a device holds: revoked means out, rotated means back in
\* use; unless that request had read the row before the decision it overrules.
LastDecisionHolds ==
    \A d \in Device : decided[d].late \/ device[d].status = decided[d].status

\* A token that was revoked or replaced authenticates nobody, ever again
\* (services/device_service.py:175, "invalidating the old one"), with the same
\* exception.
EndedTokensAreDead ==
    \A d \in Device, t \in 1..MaxToken :
        t <= decided[d].ended /\ Authenticates(d, t) => decided[d].late

\* An agent whose token stays good takes over a calibration that stays, if the
\* link lets a heartbeat through now and then.
ConfigConverges ==
    \A d \in Device, f \in Config :
        <>[]( /\ device[d].status = "active" /\ device[d].config = f
              /\ agent[d].token = device[d].token)
            => <>[](agent[d].config = f)
=============================================================================
