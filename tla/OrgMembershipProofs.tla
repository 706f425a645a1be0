------------------------- MODULE OrgMembershipProofs -------------------------
(* For any users, organisations and invitations, and any number of requests   *)
(* under way: an organisation keeps an owner, invitations are spent, an       *)
(* account deletion takes along no organisation of somebody else, and a login *)
(* follows the memberships of its user.                                       *)
EXTENDS OrgMembership, FiniteSetTheorems, TLAPS

\* What the kind of a request says of its fields.
Formed(u) ==
    LET q == req[u] IN
    /\ q.kind # "idle" => u \in users
    /\ q.kind \notin {"idle", "deleteAccount"} => q.org \in Org
    /\ q.kind \in {"invite", "changeRole", "remove"} => q.who \in User
    /\ q.kind \in {"invite", "accept"} => q.new \in Role \ {"owner"}
    /\ q.kind = "changeRole" => q.new \in Role
    /\ q.kind = "accept" => q.row \in InviteId

\* What a deciding request read of the owners of o still holds unless another
\* commit overtook it: somebody else owns o, and who makes an owner is one.
DecidedOn(u, o) ==
    LET q == req[u] IN
    /\ q.kind = "leave" /\ q.org = o => OtherOwners(u, o) # {}
    /\ q.kind \in {"changeRole", "remove"} /\ q.org = o => OtherOwners(q.who, o) # {}
    /\ q.kind = "changeRole" /\ q.org = o /\ q.new = "owner" => u \in Owners(o)
    /\ q.kind = "deleteAccount" /\ o \notin q.doomed => OtherOwners(u, o) # {}
    /\ q.kind = "deleteAccount" /\ o \in q.doomed => OtherOwners(u, o) = {}

\* Nobody else spends or reuses the invitation that a request read.
RowRead(u) ==
    LET q == req[u] IN
    /\ q.kind = "accept" /\ q.org \in orgs =>
         /\ q.row \in Open(q.org, u)
         /\ q.old = "none" => ~Member(u, q.org)
    /\ q.kind = "invite" /\ q.row # NoInvite =>
         invite[q.row] = NoInvite \/ q.row \in Open(q.org, q.who)
    /\ q.kind = "invite" /\ q.row = NoInvite /\ q.org \in orgs =>
         \/ <<q.org, q.who>> \in overlap.invites
         \/ Open(q.org, q.who) = {} /\ ~Member(q.who, q.org)

\* An open invitation is to an organisation that exists, and never as owner.
Invited(i) == invite[i] # NoInvite => /\ invite[i].org \in orgs
                                      /\ invite[i].role # "owner"

\* InvitesAreSpent without counting.
Spent(o, v) == \/ <<o, v>> \in overlap.invites
               \/ /\ \A i, j \in Open(o, v) : i = j
                  /\ Member(v, o) => Open(o, v) = {}

IInv ==
    /\ TypeOK
    /\ OwnerRemains
    /\ \A u \in User : Formed(u) /\ RowRead(u)
    /\ \A u \in User, o \in orgs \ overlap.owners : DecidedOn(u, o)
    /\ \A i \in InviteId : Invited(i)
    /\ \A o \in Org, v \in User : Spent(o, v)

Request == [kind: Kind \cup {"idle"}, org: Org \cup {NoOrg}, who: User \cup {NoUser},
            new: Role \cup {"none"}, old: Role \cup {"none"},
            row: InviteId \cup {NoInvite}, pick: Org \cup {NoOrg}, doomed: SUBSET Org]

LEMMA IdleIsRequest == Idle \in Request
BY DEF Idle, Request

LEMMA InitInv == Init => IInv
<1> SUFFICES ASSUME Init PROVE IInv
  OBVIOUS
<1>1. TypeOK
  BY IdleIsRequest DEF Init, TypeOK, Member, Request
<1>2. OwnerRemains
  BY DEF Init, OwnerRemains
<1>3. \A u \in User : Formed(u) /\ RowRead(u)
  BY DEF Init, Formed, RowRead, Idle
<1>4. \A i \in InviteId : Invited(i)
  BY DEF Init, Invited
<1>5. \A o \in Org, v \in User : Spent(o, v)
  BY DEF Init, Spent, Open
<1>6. QED
  BY <1>1, <1>2, <1>3, <1>4, <1>5 DEF Init, IInv

-----------------------------------------------------------------------------
(* Requests begin.                                                            *)

Shared == <<users, orgs, role, invite, cur, overlap>>

\* A step that changes one request only has to explain that one.
LEMMA OneRequest ==
  ASSUME IInv, UNCHANGED Shared, NEW u \in User, NEW q \in Request,
         req' = [req EXCEPT ![u] = q],
         Formed(u)', RowRead(u)', \A o \in orgs \ overlap.owners : DecidedOn(u, o)'
  PROVE  IInv'
<1>1. req \in [User -> Request] /\ req' \in [User -> Request]
  BY DEF IInv, TypeOK, Request
<1>2. \A v \in User \ {u} : req'[v] = req[v]
  BY <1>1
<1>3. TypeOK'
  BY <1>1 DEF IInv, TypeOK, Request, Shared, Member
<1>4. OwnerRemains'
  BY DEF IInv, OwnerRemains, Owners, Shared
<1>5. \A v \in User : Formed(v)' /\ RowRead(v)'
  BY <1>2 DEF IInv, Formed, RowRead, Open, Member, Shared
<1>6. \A v \in User, o \in (orgs \ overlap.owners)' : DecidedOn(v, o)'
  BY <1>2 DEF IInv, DecidedOn, OtherOwners, Owners, Shared
<1>7. \A i \in InviteId : Invited(i)'
  BY DEF IInv, Invited, Shared
<1>8. \A o \in Org, v \in User : Spent(o, v)'
  <2>1. SUFFICES ASSUME NEW o \in Org, NEW v \in User PROVE Spent(o, v)'
    OBVIOUS
  <2>2. Open(o, v)' = Open(o, v) /\ overlap' = overlap /\ Member(v, o)' = Member(v, o)
    BY DEF Open, Member, Shared
  <2>3. Spent(o, v)
    BY DEF IInv
  <2>4. QED
    BY <2>2, <2>3 DEF Spent
<1>9. QED
  BY <1>3, <1>4, <1>5, <1>6, <1>7, <1>8 DEF IInv

\* Who owns o, when nothing overtook: somebody.
LEMMA SomebodyOwns ==
  ASSUME IInv, NEW o \in orgs \ overlap.owners
  PROVE  Owners(o) # {}
BY DEF IInv, OwnerRemains

\* What Start makes of the request.
LEMMA Started ==
  ASSUME IInv, NEW u \in User, NEW k \in Kind, NEW q \in Request, Start(u, k, q)
  PROVE  /\ UNCHANGED Shared /\ u \in users
         /\ [q EXCEPT !.kind = k] \in Request
         /\ req' = [req EXCEPT ![u] = [q EXCEPT !.kind = k]]
         /\ req'[u].kind = k /\ req'[u].org = q.org /\ req'[u].who = q.who
         /\ req'[u].new = q.new /\ req'[u].old = q.old /\ req'[u].row = q.row
         /\ req'[u].doomed = q.doomed
<1> DEFINE q2 == [q EXCEPT !.kind = k]
<1>1. /\ q2 \in Request /\ q2.kind = k /\ q2.org = q.org /\ q2.who = q.who
      /\ q2.new = q.new /\ q2.old = q.old /\ q2.row = q.row /\ q2.doomed = q.doomed
  BY DEF Request
<1>2. req \in [User -> Request]
  BY DEF IInv, TypeOK, Request
<1> HIDE DEF q2
<1>3. req' = [req EXCEPT ![u] = q2] /\ UNCHANGED Shared /\ u \in users
  BY DEF Start, Shared, q2
<1>4. req'[u] = q2
  BY <1>2, <1>3
<1>5. QED
  BY <1>1, <1>3, <1>4 DEF q2

LEMMA InIsRequest ==
  ASSUME NEW u \in User, NEW o \in Org
  PROVE  /\ In(u, o) \in Request /\ In(u, o).org = o
         /\ In(u, o).row = NoInvite
BY DEF In, Idle, Request

LEMMA BeginSwitchKeeps ==
  ASSUME IInv, NEW u \in User, BeginSwitch(u)
  PROVE  IInv'
<1>1. PICK o \in Org : Start(u, "switch", In(u, o))
  BY DEF BeginSwitch
<1>2. /\ UNCHANGED Shared /\ u \in users
      /\ [In(u, o) EXCEPT !.kind = "switch"] \in Request
      /\ req' = [req EXCEPT ![u] = [In(u, o) EXCEPT !.kind = "switch"]]
      /\ req'[u].kind = "switch" /\ req'[u].org = o
  BY <1>1, InIsRequest, Started DEF Kind
<1>3. Formed(u)' /\ RowRead(u)'
  BY <1>2 DEF Formed, RowRead, Shared
<1>4. \A x \in orgs \ overlap.owners : DecidedOn(u, x)'
  BY <1>2 DEF DecidedOn
<1>5. QED
  BY <1>2, <1>3, <1>4, OneRequest

LEMMA BeginInviteKeeps ==
  ASSUME IInv, NEW u \in User, BeginInvite(u)
  PROVE  IInv'
<1>1. PICK o \in ActiveOrg(u), v \in User, r \in GivenRole \ {"owner"} :
        /\ ~Member(v, o) /\ Cardinality(Open(o, v)) <= 1
        /\ Start(u, "invite", [In(u, o) EXCEPT !.who = v, !.new = r,
                     !.row = CHOOSE i \in InviteId \cup {NoInvite} :
                               Open(o, v) = {i} \ {NoInvite}])
  BY DEF BeginInvite
<1> DEFINE i == CHOOSE i \in InviteId \cup {NoInvite} : Open(o, v) = {i} \ {NoInvite}
           q == [In(u, o) EXCEPT !.who = v, !.new = r, !.row = i]
           q2 == [q EXCEPT !.kind = "invite"]
<1>2. o \in Org /\ r \in Role \ {"owner"}
  BY MembershipAssumption DEF ActiveOrg, IInv, TypeOK, Role
<1>3. i \in InviteId \cup {NoInvite} /\ Open(o, v) = {i} \ {NoInvite}
  <2>1. Open(o, v) = {} \/ \E j \in InviteId : Open(o, v) = {j}
    <3>1. SUFFICES ASSUME NEW j \in Open(o, v), NEW k \in Open(o, v), j # k
                   PROVE  FALSE
      BY DEF Open
    <3>2. IsFiniteSet(Open(o, v))
      BY MembershipAssumption, FS_Subset DEF Open
    <3>3. Cardinality({j, k}) <= Cardinality(Open(o, v)) /\ {j, k} \subseteq Open(o, v)
      BY <3>2, FS_Subset
    <3>4. Cardinality({j, k}) = 2
      <4>1. {j, k} = {j} \cup {k} /\ k \notin {j}
        BY <3>1
      <4>2. IsFiniteSet({j}) /\ Cardinality({j}) = 1
        BY FS_Singleton
      <4>3. Cardinality({j} \cup {k}) = 2
        BY <4>1, <4>2, FS_AddElement
      <4>4. QED
        BY <4>1, <4>3
    <3>5. QED
      BY <1>1, <3>2, <3>3, <3>4, FS_CardinalityType
  <2>2. \E x \in InviteId \cup {NoInvite} : Open(o, v) = {x} \ {NoInvite}
    BY <2>1, MembershipAssumption
  <2>3. QED
    BY <2>2
<1> HIDE DEF i
<1>4. q \in Request /\ q.org = o /\ q.who = v /\ q.new = r /\ q.row = i
  BY <1>2, <1>3 DEF In, Idle, Request
<1>5. /\ UNCHANGED Shared /\ u \in users /\ q2 \in Request
      /\ req' = [req EXCEPT ![u] = q2]
      /\ req'[u].kind = "invite" /\ req'[u].org = o /\ req'[u].who = v
      /\ req'[u].new = r /\ req'[u].row = i
  <2> HIDE DEF q
  <2>1. Start(u, "invite", q)
    BY <1>1 DEF q, i
  <2>2. QED
    BY <1>4, <2>1, Started DEF Kind
<1>6. Open(o, v)' = Open(o, v) /\ Member(v, o)' = Member(v, o)
  BY <1>5 DEF Open, Member, Shared
<1>7. Formed(u)'
  BY <1>2, <1>5 DEF Formed, Shared
<1>8. RowRead(u)'
  BY <1>1, <1>3, <1>5, <1>6 DEF RowRead
<1>9. \A x \in orgs \ overlap.owners : DecidedOn(u, x)'
  BY <1>5 DEF DecidedOn
<1>10. QED
  BY <1>5, <1>7, <1>8, <1>9, OneRequest

LEMMA BeginAcceptKeeps ==
  ASSUME IInv, NEW u \in User, BeginAccept(u)
  PROVE  IInv'
<1>1. PICK i \in InviteId, o \in orgs :
        /\ invite[i] # NoInvite /\ invite[i].email = u /\ o = invite[i].org
        /\ Start(u, "accept", [Idle EXCEPT !.row = i, !.org = invite[i].org,
                     !.new = invite[i].role, !.old = role[invite[i].org][u]])
  BY DEF BeginAccept, IInv, Invited
<1> DEFINE q == [Idle EXCEPT !.row = i, !.org = o, !.new = invite[i].role, !.old = role[o][u]]
           q2 == [q EXCEPT !.kind = "accept"]
<1>2. /\ o \in Org /\ invite[i].role \in Role \ {"owner"}
      /\ role[o][u] \in Role \cup {"none"}
  BY <1>1 DEF IInv, TypeOK, Invite, Invited
<1>3. i \in Open(o, u)
  BY <1>1 DEF Open
<1>4. /\ q \in Request /\ q.org = o /\ q.new = invite[i].role
      /\ q.row = i /\ q.old = role[o][u]
  BY <1>2 DEF Idle, Request
<1>5. /\ UNCHANGED Shared /\ u \in users /\ q2 \in Request
      /\ req' = [req EXCEPT ![u] = q2]
      /\ req'[u].kind = "accept" /\ req'[u].org = o
      /\ req'[u].new = invite[i].role /\ req'[u].row = i /\ req'[u].old = role[o][u]
  <2> HIDE DEF q
  <2>1. Start(u, "accept", q)
    BY <1>1 DEF q
  <2>2. QED
    BY <1>4, <2>1, Started DEF Kind
<1>6. Open(o, u)' = Open(o, u) /\ Member(u, o)' = Member(u, o)
  BY <1>5 DEF Open, Member, Shared
<1>7. Formed(u)'
  BY <1>2, <1>5 DEF Formed, Shared
<1>8. RowRead(u)'
  BY <1>3, <1>5, <1>6 DEF RowRead, Member
<1>9. \A x \in orgs \ overlap.owners : DecidedOn(u, x)'
  BY <1>5 DEF DecidedOn
<1>10. QED
  BY <1>5, <1>7, <1>8, <1>9, OneRequest

\* A request that only decides on the members of o.
LEMMA DecisionBegins ==
  ASSUME IInv, NEW u \in User, NEW o \in Org, NEW q \in Request,
         NEW k \in {"changeRole", "remove", "leave", "deleteOrg"},
         Start(u, k, q), q.org = o,
         k \in {"changeRole", "remove"} => q.who \in User,
         k = "changeRole" => q.new \in Role,
         o \in orgs \ overlap.owners =>
           /\ k = "leave" => OtherOwners(u, o) # {}
           /\ k \in {"changeRole", "remove"} => OtherOwners(q.who, o) # {}
           /\ k = "changeRole" /\ q.new = "owner" => u \in Owners(o)
  PROVE  IInv'
<1> DEFINE q2 == [q EXCEPT !.kind = k]
<1>1. /\ UNCHANGED Shared /\ u \in users /\ q2 \in Request
      /\ req' = [req EXCEPT ![u] = q2]
      /\ req'[u].kind = k /\ req'[u].org = o
      /\ req'[u].new = q.new /\ req'[u].who = q.who
  BY Started DEF Kind
<1>2. Formed(u)' /\ RowRead(u)'
  BY <1>1 DEF Formed, RowRead, Shared
<1>3. \A x \in orgs \ overlap.owners : DecidedOn(u, x)'
  <2>1. \A v, x : OtherOwners(v, x)' = OtherOwners(v, x) /\ Owners(x)' = Owners(x)
    BY <1>1 DEF OtherOwners, Owners, Shared
  <2>2. QED
    BY <1>1, <2>1 DEF DecidedOn
<1>4. QED
  BY <1>1, <1>2, <1>3, OneRequest

LEMMA BeginChangeRoleKeeps ==
  ASSUME IInv, NEW u \in User, BeginChangeRole(u)
  PROVE  IInv'
<1>1. PICK o \in ActiveOrg(u), v \in User \ {u}, r \in GivenRole :
        /\ MayDecide(u, o, v) /\ (r = "owner" => role[o][u] = "owner")
        /\ Start(u, "changeRole", [In(u, o) EXCEPT !.who = v, !.new = r,
                                                   !.old = role[o][v]])
  BY DEF BeginChangeRole
<1> DEFINE q == [In(u, o) EXCEPT !.who = v, !.new = r, !.old = role[o][v]]
<1>2. o \in Org /\ r \in Role
  BY MembershipAssumption DEF ActiveOrg, IInv, TypeOK, Role
<1>3. role[o][v] \in Role \cup {"none"}
  BY <1>2 DEF IInv, TypeOK
<1>4. q \in Request /\ q.org = o /\ q.who = v /\ q.new = r
  BY <1>2, <1>3 DEF In, Idle, Request
<1>5. o \in orgs \ overlap.owners => OtherOwners(v, o) # {}
  BY <1>1, SomebodyOwns DEF OtherOwners, MayDecide, Owners
<1>6. r = "owner" => u \in Owners(o)
  BY <1>1 DEF Owners
<1> HIDE DEF q
<1>7. Start(u, "changeRole", q)
  BY <1>1 DEF q
<1>8. QED
  BY <1>2, <1>4, <1>5, <1>6, <1>7, DecisionBegins

LEMMA BeginRemoveKeeps ==
  ASSUME IInv, NEW u \in User, BeginRemove(u)
  PROVE  IInv'
<1>1. PICK o \in ActiveOrg(u), v \in User \ {u} :
        MayDecide(u, o, v) /\ Start(u, "remove", [In(u, o) EXCEPT !.who = v])
  BY DEF BeginRemove
<1> DEFINE q == [In(u, o) EXCEPT !.who = v]
<1>2. o \in Org
  BY DEF ActiveOrg, IInv, TypeOK
<1>3. q \in Request /\ q.org = o /\ q.who = v
  BY <1>2, InIsRequest DEF Request
<1>4. o \in orgs \ overlap.owners => OtherOwners(v, o) # {}
  BY <1>1, SomebodyOwns DEF OtherOwners, MayDecide, Owners
<1> HIDE DEF q
<1>5. Start(u, "remove", q)
  BY <1>1 DEF q
<1>6. QED
  BY <1>2, <1>3, <1>4, <1>5, DecisionBegins

LEMMA BeginLeaveKeeps ==
  ASSUME IInv, NEW u \in User, BeginLeave(u)
  PROVE  IInv'
<1>1. PICK o \in ActiveOrg(u) :
        /\ role[o][u] = "owner" => Cardinality(Owners(o)) > 1
        /\ Start(u, "leave", In(u, o))
  BY DEF BeginLeave
<1>2. o \in Org
  BY DEF ActiveOrg, IInv, TypeOK
<1>3. In(u, o) \in Request /\ In(u, o).org = o
  BY <1>2, InIsRequest
<1>4. ASSUME o \in orgs \ overlap.owners PROVE OtherOwners(u, o) # {}
  <2>1. CASE u \in Owners(o)
    <3>1. Owners(o) # {u}
      BY <1>1, <2>1, FS_Singleton DEF Owners
    <3>2. QED
      BY <2>1, <3>1 DEF OtherOwners
  <2>2. CASE u \notin Owners(o)
    BY <1>4, <2>2, SomebodyOwns DEF OtherOwners
  <2>3. QED
    BY <2>1, <2>2
<1>5. QED
  BY <1>1, <1>2, <1>3, <1>4, DecisionBegins

LEMMA BeginDeleteOrgKeeps ==
  ASSUME IInv, NEW u \in User, BeginDeleteOrg(u)
  PROVE  IInv'
<1>1. PICK o \in ActiveOrg(u) : Start(u, "deleteOrg", In(u, o))
  BY DEF BeginDeleteOrg
<1>2. o \in Org
  BY DEF ActiveOrg, IInv, TypeOK
<1>3. In(u, o) \in Request /\ In(u, o).org = o
  BY <1>2, InIsRequest
<1>4. QED
  BY <1>1, <1>2, <1>3, DecisionBegins

LEMMA BeginDeleteAccountKeeps ==
  ASSUME IInv, NEW u \in User, BeginDeleteAccount(u)
  PROVE  IInv'
<1> DEFINE q == [Idle EXCEPT !.doomed = Doomed(u)]
           q2 == [q EXCEPT !.kind = "deleteAccount"]
<1>1. Start(u, "deleteAccount", q)
  BY DEF BeginDeleteAccount
<1>2. q \in Request /\ q.doomed = Doomed(u)
  BY IdleIsRequest DEF Idle, Request, Doomed, IInv, TypeOK
<1>3. /\ UNCHANGED Shared /\ u \in users /\ q2 \in Request
      /\ req' = [req EXCEPT ![u] = q2]
      /\ req'[u].kind = "deleteAccount" /\ req'[u].doomed = Doomed(u)
  BY <1>1, <1>2, Started DEF Kind
<1>4. Formed(u)' /\ RowRead(u)'
  BY <1>3 DEF Formed, RowRead, Shared
<1>5. ASSUME NEW o \in orgs \ overlap.owners PROVE DecidedOn(u, o)'
  <2>1. OtherOwners(u, o)' = OtherOwners(u, o)
    BY <1>3 DEF OtherOwners, Owners, Shared
  <2>2. IF o \in Doomed(u) THEN OtherOwners(u, o) = {} ELSE OtherOwners(u, o) # {}
    BY SomebodyOwns DEF Doomed, OtherOwners
  <2>3. QED
    BY <1>3, <2>1, <2>2 DEF DecidedOn
<1>6. QED
  BY <1>3, <1>4, <1>5, OneRequest

LEMMA FailKeeps ==
  ASSUME IInv, NEW u \in User, Fail(u)
  PROVE  IInv'
<1>1. UNCHANGED Shared /\ req' = [req EXCEPT ![u] = Idle] /\ req'[u] = Idle
  BY DEF Fail, Shared, IInv, TypeOK
<1>2. Formed(u)' /\ RowRead(u)' /\ \A o \in orgs \ overlap.owners : DecidedOn(u, o)'
  BY <1>1 DEF Formed, RowRead, DecidedOn, Idle
<1>3. QED
  BY <1>1, <1>2, IdleIsRequest, OneRequest

-----------------------------------------------------------------------------
(* What a commit does to the roles.                                           *)

\* The request of u gives t another role in o.
MovedBy(u, o, t) ==
    LET q == req[u] IN
    \/ q.kind = "accept" /\ q.org = o /\ t = u /\ ~Member(t, o) /\ role'[o][t] = q.new
    \/ q.kind = "changeRole" /\ q.org = o /\ t = q.who /\ Member(t, o) /\ role'[o][t] = q.new
    \/ q.kind = "remove" /\ q.org = o /\ t = q.who /\ role'[o][t] = "none"
    \/ q.kind = "leave" /\ q.org = o /\ t = u /\ role'[o][t] = "none"
    \/ q.kind = "deleteAccount" /\ o \notin q.doomed /\ t = u /\ role'[o][t] = "none"

\* At most one member moves in an organisation that remains.
RolesMove(u) ==
    \A o \in orgs' : \E t \in User :
        /\ \A v \in User \ {t} : role'[o][v] = role[o][v]
        /\ role'[o][t] = role[o][t] \/ MovedBy(u, o, t)

\* Invitations only go: the one accepted, and those of an organisation deleted.
RowsGo(u) ==
    /\ \A i \in InviteId :
         \/ /\ invite'[i] = invite[i]
            /\ invite[i] # NoInvite => invite[i].org \in orgs'
         \/ /\ invite'[i] = NoInvite
            /\ (At(u, "accept") /\ req[u].row = i) \/ invite[i].org \notin orgs'
    /\ At(u, "accept") => invite'[req[u].row] = NoInvite /\ req[u].org \in orgs
    /\ overlap'.invites = overlap.invites

CommitShape(u) ==
    /\ TypeOK'
    /\ users \ {u} \subseteq users' /\ orgs' \subseteq orgs
    /\ req' = [req EXCEPT ![u] = Idle]
    /\ overlap.owners \cup Overtaken(u) \subseteq overlap'.owners
    /\ RolesMove(u)

\* TypeOK, one variable at a time.
LEMMA Types ==
  ASSUME TypeOK
  PROVE  /\ users \subseteq User /\ orgs \subseteq Org
         /\ role \in [Org -> [User -> Role \cup {"none"}]]
         /\ invite \in [InviteId -> Invite \cup {NoInvite}]
         /\ cur \in [User -> Org \cup {NoOrg}]
         /\ req \in [User -> Request]
         /\ overlap.owners \subseteq Org
         /\ \A v \in User : req[v] \in Request
BY DEF TypeOK, Request

\* What Done does.
LEMMA DoneFacts ==
  ASSUME TypeOK, NEW u \in User, Done(u)
  PROVE  /\ req' = [req EXCEPT ![u] = Idle] /\ req' \in [User -> Request]
         /\ overlap' \in [owners: SUBSET Org, invites: SUBSET (Org \X User)]
         /\ overlap'.owners = overlap.owners \cup Overtaken(u)
         /\ overlap'.invites = overlap.invites
<1>1. Overtaken(u) \subseteq Org
  BY DEF Overtaken
<1>2. QED
  BY <1>1, IdleIsRequest DEF Done, TypeOK, Request

LEMMA ActiveType ==
  ASSUME TypeOK, NEW u \in User, Picked(u)
  PROVE  /\ Active(u) \in [User -> orgs \cup {NoOrg}]
         /\ \A v \in User \ {u} : Active(u)[v] = cur[v]
         /\ Active(u)[u] # cur[u] => Active(u)[u] = req[u].pick /\ req[u].pick # NoOrg
<1>1. PICK p : p = IF req[u].pick # NoOrg THEN req[u].pick ELSE cur[u]
  OBVIOUS
<1>2. cur \in [User -> orgs \cup {NoOrg}]
  BY DEF TypeOK
<1>3. p \in orgs \cup {NoOrg}
  BY <1>1, <1>2 DEF Picked
<1>4. Active(u) = [cur EXCEPT ![u] = p]
  BY <1>1 DEF Active
<1>5. Active(u)[u] = p
  BY <1>2, <1>4
<1>6. p # cur[u] => p = req[u].pick /\ req[u].pick # NoOrg
  BY <1>1
<1>7. QED
  BY <1>2, <1>3, <1>4, <1>5, <1>6

LEMMA SwitchShape ==
  ASSUME IInv, NEW u \in User, CommitSwitch(u)
  PROVE  CommitShape(u) /\ RowsGo(u)
<1>1. TypeOK /\ Done(u) /\ Picked(u)
  BY DEF IInv, CommitSwitch
<1>2. UNCHANGED <<users, orgs, role, invite>> /\ cur' = Active(u)
  BY DEF CommitSwitch
<1>3. TypeOK'
  BY <1>1, <1>2, DoneFacts, ActiveType DEF TypeOK, Request, Member
<1>4. RolesMove(u)
  BY <1>2 DEF RolesMove
<1>5. RowsGo(u)
  BY <1>1, <1>2, DoneFacts DEF RowsGo, CommitSwitch, At, IInv, Invited
<1>6. QED
  BY <1>1, <1>2, <1>3, <1>4, <1>5, DoneFacts DEF CommitShape

LEMMA AcceptShape ==
  ASSUME IInv, NEW u \in User, CommitAccept(u)
  PROVE  CommitShape(u) /\ RowsGo(u)
<1> DEFINE q == req[u]
<1>1. TypeOK /\ Done(u) /\ q.kind = "accept" /\ q.org \in orgs /\ q \in Request
  BY Types DEF IInv, CommitAccept, At
<1>2. /\ q.org \in Org /\ q.new \in Role /\ q.row \in InviteId
      /\ q.old = "none" => ~Member(u, q.org)
      /\ u \in users
  BY <1>1 DEF IInv, Formed, RowRead
<1>3. /\ role' = [role EXCEPT ![q.org][u] = IF q.old = "none" THEN q.new ELSE @]
      /\ invite' = [invite EXCEPT ![q.row] = NoInvite]
      /\ UNCHANGED <<users, orgs, cur>>
  BY DEF CommitAccept
<1>4. role' \in [Org -> [User -> Role \cup {"none"}]]
  BY <1>1, <1>2, <1>3, Types
<1>5. \A o \in Org, v \in User : Member(v, o)' => o \in orgs /\ v \in users
  BY <1>1, <1>2, <1>3, Types DEF TypeOK, Member
<1>6. TypeOK'
  BY <1>1, <1>3, <1>4, <1>5, DoneFacts DEF TypeOK, Request
<1>7. ASSUME NEW o \in Org
      PROVE  /\ \A v \in User \ {u} : role'[o][v] = role[o][v]
             /\ role'[o][u] = role[o][u] \/ MovedBy(u, o, u)
  <2>1. \A v \in User \ {u} : role'[o][v] = role[o][v]
    BY <1>1, <1>2, <1>3, Types
  <2>2. CASE o = q.org /\ q.old = "none"
    BY <1>1, <1>2, <1>3, <2>2, Types DEF MovedBy
  <2>3. CASE o # q.org \/ q.old # "none"
    BY <1>1, <1>2, <1>3, <2>3, Types
  <2>4. QED
    BY <2>1, <2>2, <2>3
<1>8. RolesMove(u)
  BY <1>1, <1>3, <1>7, Types DEF RolesMove
<1>9. RowsGo(u)
  BY <1>1, <1>2, <1>3, DoneFacts, Types DEF RowsGo, At, IInv, Invited
<1>10. QED
  BY <1>1, <1>3, <1>6, <1>8, <1>9, DoneFacts DEF CommitShape

LEMMA ChangeRoleShape ==
  ASSUME IInv, NEW u \in User, CommitChangeRole(u)
  PROVE  CommitShape(u) /\ RowsGo(u)
<1> DEFINE q == req[u]
<1>1. /\ TypeOK /\ Done(u) /\ q.kind = "changeRole" /\ Picked(u) /\ q \in Request
      /\ q.new # q.old => Member(q.who, q.org)
  BY Types DEF IInv, CommitChangeRole, At
<1>2. q.org \in Org /\ q.new \in Role /\ q.who \in User
  BY <1>1 DEF IInv, Formed
<1>3. /\ role' = [role EXCEPT ![q.org][q.who] = IF q.new # q.old THEN q.new ELSE @]
      /\ cur' = Active(u)
      /\ UNCHANGED <<users, orgs, invite>>
  BY DEF CommitChangeRole
<1>4. role' \in [Org -> [User -> Role \cup {"none"}]]
  BY <1>1, <1>2, <1>3, Types
<1>5. \A o \in Org, v \in User : Member(v, o)' => o \in orgs /\ v \in users
  BY <1>1, <1>2, <1>3, Types DEF TypeOK, Member
<1>6. TypeOK'
  BY <1>1, <1>3, <1>4, <1>5, DoneFacts, ActiveType DEF TypeOK, Request
<1>7. ASSUME NEW o \in Org
      PROVE  /\ \A v \in User \ {q.who} : role'[o][v] = role[o][v]
             /\ role'[o][q.who] = role[o][q.who] \/ MovedBy(u, o, q.who)
  <2>1. \A v \in User \ {q.who} : role'[o][v] = role[o][v]
    BY <1>1, <1>2, <1>3, Types
  <2>2. CASE o = q.org /\ q.new # q.old
    BY <1>1, <1>2, <1>3, <2>2, Types DEF MovedBy
  <2>3. CASE o # q.org \/ q.new = q.old
    BY <1>1, <1>2, <1>3, <2>3, Types
  <2>4. QED
    BY <2>1, <2>2, <2>3
<1>8. RolesMove(u)
  BY <1>1, <1>2, <1>3, <1>7, Types DEF RolesMove
<1>9. RowsGo(u)
  BY <1>1, <1>3, DoneFacts DEF RowsGo, At, IInv, Invited
<1>10. QED
  BY <1>1, <1>3, <1>6, <1>8, <1>9, DoneFacts DEF CommitShape

\* A membership ends, of the target t.
LEMMA EndShape ==
  ASSUME IInv, NEW u \in User, NEW t \in User, Picked(u), Done(u),
         \/ At(u, "remove") /\ t = req[u].who
         \/ At(u, "leave") /\ t = u,
         role' = [role EXCEPT ![req[u].org][t] = "none"],
         cur' = Cleared(Active(u), {t}, {req[u].org}),
         UNCHANGED <<users, orgs, invite>>
  PROVE  CommitShape(u) /\ RowsGo(u)
<1> DEFINE q == req[u]
<1>1. TypeOK /\ q \in Request /\ q.org \in Org
  BY Types DEF IInv, Formed, At
<1>2. role' \in [Org -> [User -> Role \cup {"none"}]]
  BY <1>1, Types
<1>3. \A o \in Org, v \in User : Member(v, o)' => o \in orgs /\ v \in users
  BY <1>1, Types DEF TypeOK, Member
<1>4. cur' \in [User -> orgs \cup {NoOrg}]
  BY <1>1, ActiveType DEF Cleared
<1>5. TypeOK'
  BY <1>1, <1>2, <1>3, <1>4, DoneFacts DEF TypeOK, Request
<1>6. ASSUME NEW o \in Org
      PROVE  /\ \A v \in User \ {t} : role'[o][v] = role[o][v]
             /\ role'[o][t] = role[o][t] \/ MovedBy(u, o, t)
  BY <1>1, Types DEF MovedBy, At
<1>7. RolesMove(u)
  BY <1>1, <1>6, Types DEF RolesMove
<1>8. RowsGo(u)
  BY <1>1, DoneFacts DEF RowsGo, At, IInv, Invited
<1>9. QED
  BY <1>1, <1>5, <1>7, <1>8, DoneFacts DEF CommitShape

LEMMA RemoveLeaveShape ==
  ASSUME IInv, NEW u \in User, CommitRemove(u) \/ CommitLeave(u)
  PROVE  CommitShape(u) /\ RowsGo(u)
<1>1. CASE CommitRemove(u)
  <2>1. req[u].who \in User
    BY <1>1 DEF CommitRemove, At, IInv, Formed
  <2>2. QED
    BY <1>1, <2>1, EndShape DEF CommitRemove
<1>2. CASE CommitLeave(u)
  BY <1>2, EndShape DEF CommitLeave
<1>3. QED
  BY <1>1, <1>2

\* Organisations O go with all that is theirs, and U with its memberships.
LEMMA DeletionShape ==
  ASSUME IInv, NEW u \in User, NEW O \in SUBSET Org, NEW U \in SUBSET User, Done(u),
         \/ At(u, "deleteOrg") /\ U = {}
         \/ At(u, "deleteAccount") /\ U = {u} /\ O = req[u].doomed,
         users' = users \ U,
         orgs' = orgs \ O,
         role' = Without(O, U),
         invite' = InvitesWithout(O),
         cur' \in [User -> orgs' \cup {NoOrg}]
  PROVE  CommitShape(u) /\ RowsGo(u)
<1>1. TypeOK /\ orgs' \subseteq orgs
  BY DEF IInv
<1>2. role' \in [Org -> [User -> Role \cup {"none"}]]
  BY <1>1, Types DEF Without
<1>3. \A o \in Org, v \in User :
        role'[o][v] = IF o \in O \/ v \in U THEN "none" ELSE role[o][v]
  BY DEF Without
<1>4. \A o \in Org, v \in User : Member(v, o)' => o \in orgs' /\ v \in users'
  BY <1>1, <1>3 DEF TypeOK, Member
<1>5. /\ invite' \in [InviteId -> Invite \cup {NoInvite}]
      /\ \A i \in InviteId : invite'[i] = IF invite[i] # NoInvite /\ invite[i].org \in O
                                          THEN NoInvite ELSE invite[i]
  BY <1>1, Types DEF InvitesWithout
<1>6. TypeOK'
  BY <1>1, <1>2, <1>4, <1>5, DoneFacts DEF TypeOK, Request
<1>7. ASSUME NEW o \in orgs'
      PROVE  /\ \A v \in User \ {u} : role'[o][v] = role[o][v]
             /\ role'[o][u] = role[o][u] \/ MovedBy(u, o, u)
  BY <1>1, <1>3, <1>7, Types DEF MovedBy, At
<1>8. RolesMove(u)
  BY <1>7 DEF RolesMove
<1>9. RowsGo(u)
  BY <1>1, <1>5, DoneFacts DEF RowsGo, At, IInv, Invited
<1>10. QED
  BY <1>1, <1>6, <1>8, <1>9, DoneFacts DEF CommitShape

LEMMA DeleteShape ==
  ASSUME IInv, NEW u \in User, CommitDeleteOrg(u) \/ CommitDeleteAccount(u)
  PROVE  CommitShape(u) /\ RowsGo(u)
<1>1. TypeOK /\ req[u] \in Request
  BY Types DEF IInv
<1>2. CASE CommitDeleteOrg(u)
  <2>1. req[u].org \in Org
    BY <1>2 DEF CommitDeleteOrg, At, IInv, Formed
  <2>2. cur' \in [User -> orgs' \cup {NoOrg}]
    BY <1>1, <1>2, ActiveType DEF CommitDeleteOrg, Cleared
  <2>3. users' = users \ {}
    BY <1>2 DEF CommitDeleteOrg
  <2>4. QED
    BY <1>2, <2>1, <2>2, <2>3, DeletionShape DEF CommitDeleteOrg
<1>3. CASE CommitDeleteAccount(u)
  <2>1. req[u].doomed \in SUBSET Org
    BY <1>1 DEF Request
  <2>2. cur' \in [User -> orgs' \cup {NoOrg}]
    BY <1>1, <1>3 DEF CommitDeleteAccount, Cleared, TypeOK
  <2>3. QED
    BY <1>3, <2>1, <2>2, DeletionShape DEF CommitDeleteAccount
<1>4. QED
  BY <1>2, <1>3

-----------------------------------------------------------------------------
(* What the other requests read survives a commit.                            *)

\* A commit that takes away an owner of o overtakes whoever is deciding on o.
LEMMA OwnersStay ==
  ASSUME IInv, NEW u \in User, CommitShape(u), NEW v \in User \ {u},
         NEW o \in orgs' \ overlap'.owners, v \in Deciding(o)
  PROVE  \A w \in Owners(o) : role'[o][w] = "owner"
<1>1. o \in Org
  BY DEF CommitShape, IInv, TypeOK
<1>2. o \notin Overtaken(u)
  BY DEF CommitShape
<1>3. QED
  BY <1>1, <1>2 DEF Overtaken

\* Who owns o afterwards and did not before.
LEMMA NewOwner ==
  ASSUME IInv, NEW u \in User, CommitShape(u), NEW o \in orgs', NEW t \in User,
         role'[o][t] = "owner", role[o][t] # "owner"
  PROVE  /\ \A v \in User \ {t} : role'[o][v] = role[o][v]
         /\ At(u, "changeRole") /\ req[u].org = o /\ req[u].new = "owner"
<1>1. PICK x \in User : /\ \A v \in User \ {x} : role'[o][v] = role[o][v]
                        /\ role'[o][x] = role[o][x] \/ MovedBy(u, o, x)
  BY DEF CommitShape, RolesMove
<1>2. x = t /\ MovedBy(u, o, t)
  BY <1>1
<1>3. Formed(u)
  BY DEF IInv
<1>4. QED
  BY <1>1, <1>2, <1>3 DEF MovedBy, Formed, At

LEMMA OwnersAfter ==
  ASSUME IInv, NEW u \in User, CommitShape(u), NEW o \in orgs' \ overlap'.owners
  PROVE  Owners(o)' # {}
<1>1. PICK t \in User : /\ \A v \in User \ {t} : role'[o][v] = role[o][v]
                        /\ role'[o][t] = role[o][t] \/ MovedBy(u, o, t)
  BY DEF CommitShape, RolesMove
<1>2. o \in orgs \ overlap.owners
  BY DEF CommitShape
<1>3. Owners(o) # {}
  BY <1>2, SomebodyOwns
<1>4. CASE \E w \in Owners(o) : w # t
  BY <1>1, <1>4 DEF Owners
<1>5. CASE Owners(o) = {t}
  <2>1. OtherOwners(t, o) = {}
    BY <1>5 DEF OtherOwners
  <2>2. DecidedOn(u, o) /\ RowRead(u)
    BY <1>2 DEF IInv
  <2>3. ~MovedBy(u, o, t)
    <3>1. Member(t, o)
      BY <1>5 DEF Owners, Member
    <3>2. QED
      BY <2>1, <2>2, <3>1 DEF MovedBy, DecidedOn
  <2>4. QED
    BY <1>1, <1>5, <2>3 DEF Owners
<1>6. QED
  BY <1>3, <1>4, <1>5

LEMMA DecisionsStand ==
  ASSUME IInv, NEW u \in User, CommitShape(u), NEW v \in User \ {u},
         NEW o \in orgs' \ overlap'.owners
  PROVE  DecidedOn(v, o)'
<1>1. req'[v] = req[v] /\ req[v] \in Request /\ o \in orgs \ overlap.owners /\ o \in Org
  BY Types DEF CommitShape, IInv
<1>2. DecidedOn(v, o)
  BY <1>1 DEF IInv
<1>3. ASSUME v \in Deciding(o), NEW t, OtherOwners(t, o) # {}
      PROVE  OtherOwners(t, o)' # {}
  BY <1>3, OwnersStay DEF OtherOwners, Owners
<1>4. req[v].org = o /\ req[v].kind \in {"changeRole", "remove", "leave"} => v \in Deciding(o)
  BY DEF Deciding
<1>5. req[v].kind = "leave" /\ req[v].org = o => OtherOwners(v, o)' # {}
  BY <1>2, <1>3, <1>4 DEF DecidedOn
<1>6. \A t : req[v].kind \in {"changeRole", "remove"} /\ req[v].org = o /\ t = req[v].who
              => OtherOwners(t, o)' # {}
  BY <1>2, <1>3, <1>4 DEF DecidedOn
<1>7. req[v].kind = "changeRole" /\ req[v].org = o /\ req[v].new = "owner"
        => v \in Owners(o)'
  BY <1>2, <1>4, OwnersStay DEF DecidedOn, Owners
<1>8. ASSUME req[v].kind = "deleteAccount", o \notin req[v].doomed
      PROVE  OtherOwners(v, o)' # {}
  <2>1. CASE v \in Owners(o)
    <3>1. v \in Deciding(o)
      BY <1>8, <2>1 DEF Deciding, At
    <3>2. QED
      BY <1>2, <1>3, <1>8, <3>1 DEF DecidedOn
  <2>2. CASE v \notin Owners(o)
    <3>1. CASE v \in Owners(o)'
      <4>1. /\ \A w \in User \ {v} : role'[o][w] = role[o][w]
            /\ At(u, "changeRole") /\ req[u].org = o /\ req[u].new = "owner"
        BY <2>2, <3>1, NewOwner DEF Owners
      <4>2. u \in Owners(o)
        BY <1>1, <4>1 DEF IInv, DecidedOn, At
      <4>3. QED
        BY <4>1, <4>2 DEF OtherOwners, Owners
    <3>2. CASE v \notin Owners(o)'
      BY <3>2, OwnersAfter DEF OtherOwners
    <3>3. QED
      BY <3>1, <3>2
  <2>3. QED
    BY <2>1, <2>2
<1>9. ASSUME req[v].kind = "deleteAccount", o \in req[v].doomed
      PROVE  OtherOwners(v, o)' = {}
  <2>1. OtherOwners(v, o) = {}
    BY <1>2, <1>9 DEF DecidedOn
  <2>2. SUFFICES ASSUME NEW t \in OtherOwners(v, o)' PROVE FALSE
    OBVIOUS
  <2>3. t \in User /\ t # v /\ role'[o][t] = "owner" /\ role[o][t] # "owner"
    BY <2>1 DEF OtherOwners, Owners
  <2>4. At(u, "changeRole") /\ req[u].org = o /\ req[u].new = "owner"
    BY <2>3, NewOwner
  <2>5. u \in Owners(o)
    BY <1>1, <2>4 DEF IInv, DecidedOn, At
  <2>6. QED
    BY <2>1, <2>5 DEF OtherOwners
<1>10. QED
  BY <1>1, <1>5, <1>6, <1>7, <1>8, <1>9 DEF DecidedOn

\* Who belongs to o afterwards and did not before accepted an invitation.
LEMMA NewMember ==
  ASSUME IInv, NEW u \in User, CommitShape(u), NEW o \in orgs', NEW t \in User,
         Member(t, o)', ~Member(t, o)
  PROVE  t = u /\ At(u, "accept") /\ req[u].org = o
<1>1. PICK x \in User : /\ \A v \in User \ {x} : role'[o][v] = role[o][v]
                        /\ role'[o][x] = role[o][x] \/ MovedBy(u, o, x)
  BY DEF CommitShape, RolesMove
<1>2. x = t /\ MovedBy(u, o, t)
  BY <1>1 DEF Member
<1>3. QED
  BY <1>2 DEF MovedBy, Member, At

\* An invitation that is still open was open, and is the same.
LEMMA OpenBefore ==
  ASSUME NEW u \in User, RowsGo(u), NEW o, NEW v
  PROVE  /\ Open(o, v)' \subseteq Open(o, v)
         /\ At(u, "accept") => req[u].row \notin Open(o, v)'
BY DEF RowsGo, Open

LEMMA OpenAfter ==
  ASSUME NEW u \in User, RowsGo(u), NEW o \in orgs', NEW v, NEW i \in Open(o, v),
         ~(At(u, "accept") /\ req[u].row = i)
  PROVE  i \in Open(o, v)'
BY DEF RowsGo, Open

LEMMA RowsStay ==
  ASSUME IInv, NEW u \in User, CommitShape(u), RowsGo(u), NEW v \in User \ {u}
  PROVE  RowRead(v)'
<1>1. PICK q \in Request : q = req[v] /\ q = req'[v]
  BY Types DEF CommitShape, IInv
<1>2. ASSUME q.kind = "accept", q.org \in orgs'
      PROVE  q.row \in Open(q.org, v)' /\ (q.old = "none" => ~Member(v, q.org)')
  <2>1. q.row \in Open(q.org, v) /\ (q.old = "none" => ~Member(v, q.org))
    BY <1>1, <1>2 DEF RowRead, IInv, CommitShape
  <2>2. ~(At(u, "accept") /\ req[u].row = q.row)
    <3>1. SUFFICES ASSUME At(u, "accept"), req[u].row = q.row PROVE FALSE
      OBVIOUS
    <3>2. req[u].row \in Open(req[u].org, u)
      BY <3>1 DEF RowsGo, IInv, RowRead, At
    <3>3. QED
      BY <2>1, <3>1, <3>2 DEF Open
  <2>3. QED
    BY <1>2, <2>1, <2>2, OpenAfter, NewMember
<1>3. ASSUME q.kind = "invite", q.row # NoInvite
      PROVE  invite'[q.row] = NoInvite \/ q.row \in Open(q.org, q.who)'
  <2>1. q.row \in InviteId
    BY <1>3 DEF Request
  <2>2. invite[q.row] = NoInvite \/ q.row \in Open(q.org, q.who)
    BY <1>1, <1>3 DEF RowRead, IInv
  <2>3. QED
    BY <2>1, <2>2 DEF RowsGo, Open
<1>4. ASSUME q.kind = "invite", q.row = NoInvite, q.org \in orgs',
             <<q.org, q.who>> \notin overlap'.invites
      PROVE  Open(q.org, q.who)' = {} /\ ~Member(q.who, q.org)'
  <2>1. Open(q.org, q.who) = {} /\ ~Member(q.who, q.org) /\ q.who \in User
    BY <1>1, <1>4 DEF RowRead, RowsGo, IInv, Formed, CommitShape
  <2>2. ~(At(u, "accept") /\ req[u].org = q.org /\ u = q.who)
    <3>1. SUFFICES ASSUME At(u, "accept"), req[u].org = q.org, u = q.who PROVE FALSE
      OBVIOUS
    <3>2. req[u].row \in Open(req[u].org, u)
      BY <3>1 DEF RowsGo, IInv, RowRead, At
    <3>3. QED
      BY <2>1, <3>1, <3>2
  <2>3. QED
    BY <1>4, <2>1, <2>2, OpenBefore, NewMember
<1>5. QED
  BY <1>1, <1>2, <1>3, <1>4 DEF RowRead

LEMMA SpentAfter ==
  ASSUME IInv, NEW u \in User, CommitShape(u), RowsGo(u), NEW o \in Org, NEW v \in User
  PROVE  Spent(o, v)'
<1>1. CASE <<o, v>> \in overlap.invites
  BY <1>1 DEF Spent, RowsGo
<1>2. CASE <<o, v>> \notin overlap.invites
  <2>1. /\ \A i, j \in Open(o, v) : i = j
        /\ Member(v, o) => Open(o, v) = {}
    BY <1>2 DEF IInv, Spent
  <2>2. Open(o, v)' \subseteq Open(o, v)
    BY OpenBefore
  <2>3. ASSUME Member(v, o)' PROVE Open(o, v)' = {}
    <3>1. o \in orgs'
      BY <2>3 DEF CommitShape, TypeOK
    <3>2. CASE Member(v, o)
      BY <2>1, <2>2, <3>2
    <3>3. CASE ~Member(v, o)
      <4>1. v = u /\ At(u, "accept") /\ req[u].org = o
        BY <2>3, <3>1, <3>3, NewMember
      <4>2. req[u].row \in Open(o, v)
        BY <4>1 DEF RowsGo, IInv, RowRead, At
      <4>3. QED
        BY <2>1, <2>2, <4>1, <4>2, OpenBefore
    <3>4. QED
      BY <3>2, <3>3
  <2>4. QED
    BY <2>1, <2>2, <2>3 DEF Spent
<1>3. QED
  BY <1>1, <1>2

\* What holds after any commit, whatever it does to the invitations.
LEMMA OwnersPart ==
  ASSUME IInv, NEW u \in User, CommitShape(u)
  PROVE  /\ TypeOK' /\ OwnerRemains'
         /\ \A v \in User : Formed(v)'
         /\ \A v \in User, o \in (orgs \ overlap.owners)' : DecidedOn(v, o)'
<1>1. TypeOK'
  BY DEF CommitShape
<1>2. OwnerRemains'
  BY OwnersAfter DEF OwnerRemains
<1>3. req'[u] = Idle /\ \A v \in User \ {u} : req'[v] = req[v]
  BY Types DEF CommitShape, IInv
<1>4. ASSUME NEW v \in User PROVE Formed(v)'
  <2>1. CASE v = u
    BY <1>3, <2>1 DEF Formed, Idle
  <2>2. CASE v # u
    BY <1>3, <2>2 DEF Formed, IInv, CommitShape
  <2>3. QED
    BY <2>1, <2>2
<1>5. ASSUME NEW v \in User, NEW o \in (orgs \ overlap.owners)' PROVE DecidedOn(v, o)'
  <2>1. CASE v = u
    BY <1>3, <2>1 DEF DecidedOn, Idle
  <2>2. CASE v # u
    BY <2>2, DecisionsStand
  <2>3. QED
    BY <2>1, <2>2
<1>6. QED
  BY <1>1, <1>2, <1>4, <1>5

LEMMA CommitKeepsInv ==
  ASSUME IInv, NEW u \in User, CommitShape(u), RowsGo(u)
  PROVE  IInv'
<1>1. ASSUME NEW v \in User PROVE RowRead(v)'
  <2>1. CASE v = u
    <3>1. req'[u] = Idle
      BY Types DEF CommitShape, IInv
    <3>2. QED
      BY <2>1, <3>1 DEF RowRead, Idle
  <2>2. CASE v # u
    BY <2>2, RowsStay
  <2>3. QED
    BY <2>1, <2>2
<1>2. ASSUME NEW i \in InviteId PROVE Invited(i)'
  BY DEF Invited, RowsGo, IInv
<1>3. QED
  BY <1>1, <1>2, OwnersPart, SpentAfter DEF IInv

-----------------------------------------------------------------------------
(* An invitation is written.                                                  *)

LEMMA InviteShape ==
  ASSUME IInv, NEW u \in User, CommitInvite(u)
  PROVE  CommitShape(u) /\ UNCHANGED <<users, orgs, role>>
<1> DEFINE q == req[u]
           i == [org |-> q.org, email |-> q.who, role |-> q.new]
           P == {<<q.org, q.who>> : v \in Inviting(q.org, q.who) \ {u}}
<1>1. TypeOK /\ q \in Request /\ Picked(u)
  BY Types DEF IInv, CommitInvite
<1>2. q.org \in Org /\ q.who \in User /\ q.new \in Role
  BY DEF IInv, Formed, CommitInvite, At
<1>3. /\ cur' = Active(u) /\ UNCHANGED <<users, orgs, role>>
      /\ overlap' = [overlap EXCEPT !.invites = @ \cup P]
      /\ req' = [req EXCEPT ![u] = Idle]
  BY DEF CommitInvite
<1>4. invite' \in [InviteId -> Invite \cup {NoInvite}]
  <2>1. i \in Invite
    BY <1>2 DEF Invite
  <2> HIDE DEF i
  <2>2. CASE \E f \in InviteId : invite' = [invite EXCEPT ![f] = i]
    BY <1>1, <2>1, <2>2, Types
  <2>3. CASE invite' = [invite EXCEPT ![q.row] = IF @ = NoInvite THEN @ ELSE i]
    BY <1>1, <2>1, <2>3, Types
  <2>4. QED
    BY <2>2, <2>3 DEF CommitInvite, i
<1>5. P \subseteq Org \X User
  BY <1>2
<1>6. overlap' \in [owners: SUBSET Org, invites: SUBSET (Org \X User)]
      /\ overlap'.owners = overlap.owners
  <2> HIDE DEF P
  <2>1. QED
    BY <1>1, <1>3, <1>5 DEF TypeOK
<1>7. TypeOK'
  BY <1>1, <1>3, <1>4, <1>6, IdleIsRequest, ActiveType DEF TypeOK, Member, Request
<1>8. Overtaken(u) = {}
  BY <1>3 DEF Overtaken, Owners
<1>9. RolesMove(u)
  BY <1>3 DEF RolesMove
<1>10. QED
  BY <1>3, <1>6, <1>7, <1>8, <1>9 DEF CommitShape

\* The invitations afterwards: those of before and F, which is one row that
\* nobody uses, or none.
LEMMA InviteWrites ==
  ASSUME IInv, NEW u \in User, CommitInvite(u)
  PROVE  \E F \in SUBSET InviteId :
           /\ F # {} => req[u].row = NoInvite
           /\ \A j, k \in F : j = k
           /\ \A v \in User : req[v].row \notin F
           /\ \A o, v : Open(o, v)' =
                IF o = req[u].org /\ v = req[u].who THEN Open(o, v) \cup F ELSE Open(o, v)
           /\ \A j \in InviteId \ F : invite[j] = NoInvite => invite'[j] = NoInvite
           /\ \A j \in InviteId : Invited(j)'
<1>1. PICK q, i : q = req[u] /\ i = [org |-> q.org, email |-> q.who, role |-> q.new]
  OBVIOUS
<1>2. /\ q.org \in Org /\ q.who \in User /\ q.new \in Role \ {"owner"}
      /\ q.org \in orgs /\ q \in Request /\ q.kind = "invite"
  BY <1>1, Types DEF IInv, Formed, CommitInvite, At
<1>3. i # NoInvite /\ i.org = q.org /\ i.email = q.who /\ i.role = q.new
  BY <1>1, <1>2, MembershipAssumption DEF Invite
<1>4. orgs' = orgs /\ invite \in [InviteId -> Invite \cup {NoInvite}]
  BY Types DEF CommitInvite, IInv
<1>5. ASSUME NEW f \in InviteId, q.row = NoInvite, FreeRow(f),
             invite' = [invite EXCEPT ![f] = i]
      PROVE  /\ {f} \in SUBSET InviteId
             /\ \A v \in User : req[v].row \notin {f}
             /\ \A o, v : Open(o, v)' =
                  IF o = q.org /\ v = q.who THEN Open(o, v) \cup {f} ELSE Open(o, v)
             /\ \A j \in InviteId \ {f} : invite[j] = NoInvite => invite'[j] = NoInvite
             /\ \A j \in InviteId : Invited(j)'
  <2>1. invite'[f] = i /\ invite[f] = NoInvite /\ \A j \in InviteId \ {f} : invite'[j] = invite[j]
    BY <1>4, <1>5 DEF FreeRow
  <2>2. \A v \in User : req[v].row \notin {f}
    BY <1>5 DEF FreeRow
  <2>3. ASSUME NEW o, NEW v
        PROVE  Open(o, v)' =
                 IF o = q.org /\ v = q.who THEN Open(o, v) \cup {f} ELSE Open(o, v)
    BY <1>3, <2>1 DEF Open
  <2>4. \A j \in InviteId : Invited(j)'
    BY <1>2, <1>3, <1>4, <2>1 DEF Invited, IInv
  <2>5. QED
    BY <2>1, <2>2, <2>3, <2>4
<1>6. ASSUME q.row # NoInvite,
             invite' = [invite EXCEPT ![q.row] = IF @ = NoInvite THEN @ ELSE i]
      PROVE  /\ \A o, v : Open(o, v)' = Open(o, v)
             /\ \A j \in InviteId : invite[j] = NoInvite => invite'[j] = NoInvite
             /\ \A j \in InviteId : Invited(j)'
  <2>1. q.row \in InviteId
    BY <1>2, <1>6 DEF Request
  <2>2. /\ invite'[q.row] = IF invite[q.row] = NoInvite THEN NoInvite ELSE i
        /\ \A j \in InviteId \ {q.row} : invite'[j] = invite[j]
    BY <1>4, <1>6, <2>1
  <2>3. invite[q.row] = NoInvite \/ q.row \in Open(q.org, q.who)
    BY <1>1, <1>2, <1>6 DEF IInv, RowRead
  <2>4. ASSUME NEW o, NEW v PROVE Open(o, v)' = Open(o, v)
    BY <1>3, <2>1, <2>2, <2>3 DEF Open
  <2>5. \A j \in InviteId : Invited(j)'
    BY <1>2, <1>3, <1>4, <2>1, <2>2 DEF Invited, IInv
  <2>6. QED
    BY <2>1, <2>2, <2>4, <2>5
<1>7. CASE \E f \in InviteId : /\ q.row = NoInvite /\ FreeRow(f)
                               /\ invite' = [invite EXCEPT ![f] = i]
  <2>1. PICK f \in InviteId : /\ q.row = NoInvite /\ FreeRow(f)
                              /\ invite' = [invite EXCEPT ![f] = i]
    BY <1>7
  <2>2. PICK F : F = {f}
    OBVIOUS
  <2>3. /\ F \in SUBSET InviteId
        /\ \A v \in User : req[v].row \notin F
        /\ \A o, v : Open(o, v)' =
             IF o = q.org /\ v = q.who THEN Open(o, v) \cup F ELSE Open(o, v)
        /\ \A j \in InviteId \ F : invite[j] = NoInvite => invite'[j] = NoInvite
        /\ \A j \in InviteId : Invited(j)'
    BY <1>5, <2>1, <2>2
  <2>4. \A j, k \in F : j = k
    BY <2>2
  <2>5. QED
    BY <1>1, <2>1, <2>3, <2>4
<1>8. CASE /\ q.row # NoInvite
           /\ invite' = [invite EXCEPT ![q.row] = IF @ = NoInvite THEN @ ELSE i]
  <2>1. PICK F : F = {}
    OBVIOUS
  <2>2. \A o, v : Open(o, v) \cup F = Open(o, v)
    BY <2>1
  <2>3. QED
    BY <1>1, <1>6, <1>8, <2>1, <2>2
<1>9. QED
  BY <1>1, <1>7, <1>8 DEF CommitInvite

LEMMA InviteKeeps ==
  ASSUME IInv, NEW u \in User, CommitInvite(u)
  PROVE  IInv'
<1>1. CommitShape(u) /\ UNCHANGED <<users, orgs, role>>
  BY InviteShape
<1>2. PICK q : q = req[u]
  OBVIOUS
<1>3. PICK F \in SUBSET InviteId :
           /\ F # {} => q.row = NoInvite
           /\ \A j, k \in F : j = k
           /\ \A v \in User : req[v].row \notin F
           /\ \A o, v : Open(o, v)' =
                IF o = q.org /\ v = q.who THEN Open(o, v) \cup F ELSE Open(o, v)
           /\ \A j \in InviteId \ F : invite[j] = NoInvite => invite'[j] = NoInvite
           /\ \A j \in InviteId : Invited(j)'
  BY <1>2, InviteWrites
<1>4. /\ overlap.invites \subseteq overlap'.invites
      /\ \A v \in Inviting(q.org, q.who) \ {u} : <<q.org, q.who>> \in overlap'.invites
  BY <1>2 DEF CommitInvite, IInv, TypeOK
<1>5. /\ req'[u] = Idle /\ \A v \in User \ {u} : req'[v] = req[v]
      /\ \A o, v : Member(v, o)' = Member(v, o)
  BY <1>1, Types DEF CommitShape, IInv, Member
<1>6. q.kind = "invite" /\ q.org \in orgs
  BY <1>2 DEF CommitInvite, At
<1>7. ASSUME NEW v \in User PROVE RowRead(v)'
  <2>1. CASE v = u
    BY <1>5, <2>1 DEF RowRead, Idle
  <2>2. CASE v # u
    <3>1. PICK r \in Request : r = req[v] /\ r = req'[v]
      BY <1>5, <2>2, Types DEF IInv
    <3>2. RowRead(v)
      BY DEF IInv
    <3>3. ASSUME r.kind = "accept", r.org \in orgs
          PROVE  r.row \in Open(r.org, v)' /\ (r.old = "none" => ~Member(v, r.org)')
      BY <1>3, <1>5, <3>1, <3>2, <3>3 DEF RowRead
    <3>4. ASSUME r.kind = "invite", r.row # NoInvite
          PROVE  invite'[r.row] = NoInvite \/ r.row \in Open(r.org, r.who)'
      <4>1. r.row \in InviteId \ F
        BY <1>3, <3>1, <3>4 DEF Request
      <4>2. invite[r.row] = NoInvite \/ r.row \in Open(r.org, r.who)
        BY <3>1, <3>2, <3>4 DEF RowRead
      <4>3. QED
        BY <1>3, <4>1, <4>2
    <3>5. ASSUME r.kind = "invite", r.row = NoInvite, r.org \in orgs,
                 <<r.org, r.who>> \notin overlap'.invites
          PROVE  Open(r.org, r.who)' = {} /\ ~Member(r.who, r.org)'
      <4>1. Open(r.org, r.who) = {} /\ ~Member(r.who, r.org)
        BY <1>4, <3>1, <3>2, <3>5 DEF RowRead
      <4>2. ~(r.org = q.org /\ r.who = q.who)
        BY <1>4, <2>2, <3>1, <3>5 DEF Inviting, At
      <4>3. QED
        BY <1>3, <1>5, <4>1, <4>2
    <3>6. QED
      BY <1>1, <3>1, <3>3, <3>4, <3>5 DEF RowRead
  <2>3. QED
    BY <2>1, <2>2
<1>8. ASSUME NEW o \in Org, NEW v \in User PROVE Spent(o, v)'
  <2>1. CASE <<o, v>> \in overlap.invites
    BY <1>4, <2>1 DEF Spent
  <2>2. CASE <<o, v>> \notin overlap.invites
    <3>1. /\ \A j, k \in Open(o, v) : j = k
          /\ Member(v, o) => Open(o, v) = {}
      BY <2>2 DEF IInv, Spent
    <3>2. CASE o = q.org /\ v = q.who /\ F # {}
      <4>1. Open(o, v) = {} /\ ~Member(v, o)
        BY <1>2, <1>3, <1>6, <2>2, <3>2 DEF IInv, RowRead
      <4>2. QED
        BY <1>3, <1>5, <3>2, <4>1 DEF Spent
    <3>3. CASE ~(o = q.org /\ v = q.who /\ F # {})
      <4>1. Open(o, v)' = Open(o, v)
        BY <1>3, <3>3
      <4>2. QED
        BY <1>5, <3>1, <4>1 DEF Spent
    <3>4. QED
      BY <3>2, <3>3
  <2>3. QED
    BY <2>1, <2>2
<1>9. QED
  BY <1>1, <1>3, <1>7, <1>8, OwnersPart DEF IInv

-----------------------------------------------------------------------------
(* A user signs up.                                                           *)

LEMMA SignupKeeps ==
  ASSUME IInv, NEW u \in User, NEW o \in Org, Signup(u, o)
  PROVE  IInv'
<1>1. /\ u \notin users /\ o \notin orgs /\ UNCHANGED <<invite, req>>
      /\ users' = users \cup {u} /\ orgs' = orgs \cup {o}
      /\ role' = [role EXCEPT ![o][u] = "owner"]
      /\ cur' = [cur EXCEPT ![u] = o]
      /\ overlap' = [owners |-> overlap.owners \ {o},
                     invites |-> {p \in overlap.invites : p[1] # o}]
      /\ \A v \in User : req[v].org # o /\ o \notin req[v].doomed
  BY DEF Signup
<1>2. TypeOK
  BY DEF IInv
<1>3. role' \in [Org -> [User -> Role \cup {"none"}]]
  BY <1>1, <1>2, Types DEF Role
<1>4. /\ \A v \in User : role[o][v] = "none"
      /\ role'[o][u] = "owner" /\ \A v \in User \ {u} : role'[o][v] = "none"
      /\ \A x \in Org \ {o} : role'[x] = role[x]
  BY <1>1, <1>2, Types DEF TypeOK, Member
<1>5. \A x \in Org, v \in User : Member(v, x)' => x \in orgs' /\ v \in users'
  BY <1>1, <1>2, <1>4 DEF TypeOK, Member
<1>6. TypeOK'
  <2>1. cur' \in [User -> orgs' \cup {NoOrg}]
    BY <1>1, <1>2 DEF TypeOK
  <2>2. overlap' \in [owners: SUBSET Org, invites: SUBSET (Org \X User)]
    BY <1>1, <1>2 DEF TypeOK
  <2>3. QED
    BY <1>1, <1>2, <1>3, <1>5, <2>1, <2>2 DEF TypeOK
<1>7. Owners(o)' = {u} /\ \A x \in Org \ {o} : Owners(x)' = Owners(x)
  BY <1>4 DEF Owners
<1>8. OwnerRemains'
  BY <1>1, <1>2, <1>7 DEF OwnerRemains, IInv, TypeOK
<1>9. \A x, v : Open(x, v)' = Open(x, v)
  BY <1>1 DEF Open
<1>10. \A v : Open(o, v) = {}
  BY <1>1 DEF Open, IInv, Invited
<1>11. \A x \in Org \ {o}, v \in User : Member(v, x)' = Member(v, x)
  BY <1>4 DEF Member
<1>12. \A x \in Org \ {o}, v \in User : <<x, v>> \in overlap.invites => <<x, v>> \in overlap'.invites
  BY <1>1
<1>13. ASSUME NEW v \in User PROVE Formed(v)' /\ RowRead(v)'
  <2>1. Formed(v)'
    BY <1>1 DEF IInv, Formed
  <2>2. PICK r : r = req[v] /\ r = req'[v] /\ r \in Request
    BY <1>1, <1>2, Types
  <2>3. RowRead(v) /\ r.org # o /\ (r.kind = "invite" => r.who \in User)
    BY <1>1, <2>2 DEF IInv, Formed
  <2>4. r.org \in orgs' => r.org \in orgs /\ r.org \in Org \ {o}
    BY <1>1, <1>2, <2>3 DEF TypeOK
  <2>5. QED
    BY <1>1, <1>9, <1>11, <1>12, <2>1, <2>2, <2>3, <2>4 DEF RowRead
<1>14. ASSUME NEW v \in User, NEW x \in (orgs \ overlap.owners)' PROVE DecidedOn(v, x)'
  <2>1. CASE x = o
    <3>1. req'[v].org # o /\ o \notin req'[v].doomed
      BY <1>1
    <3>2. req'[v].kind = "deleteAccount" => OtherOwners(v, o)' # {}
      BY <1>1, <1>7 DEF OtherOwners, IInv, Formed
    <3>3. QED
      BY <2>1, <3>1, <3>2 DEF DecidedOn
  <2>2. CASE x # o
    <3>1. x \in orgs \ overlap.owners /\ x \in Org \ {o}
      BY <1>1, <1>2, <2>2 DEF TypeOK
    <3>2. DecidedOn(v, x)
      BY <3>1 DEF IInv
    <3>3. Owners(x)' = Owners(x)
      BY <1>7, <3>1
    <3>4. QED
      BY <1>1, <3>2, <3>3 DEF DecidedOn, OtherOwners
  <2>3. QED
    BY <2>1, <2>2
<1>15. \A i \in InviteId : Invited(i)'
  BY <1>1 DEF IInv, Invited
<1>16. ASSUME NEW x \in Org, NEW v \in User PROVE Spent(x, v)'
  <2>1. CASE x = o
    BY <1>9, <1>10, <2>1 DEF Spent
  <2>2. CASE x # o
    <3>1. Spent(x, v)
      BY DEF IInv
    <3>2. QED
      BY <1>9, <1>11, <1>12, <2>2, <3>1 DEF Spent
  <2>3. QED
    BY <2>1, <2>2
<1>17. QED
  BY <1>6, <1>8, <1>13, <1>14, <1>15, <1>16 DEF IInv

-----------------------------------------------------------------------------
(* Every step.                                                                *)

LEMMA BeginKeeps ==
  ASSUME IInv, NEW u \in User, Begin(u)
  PROVE  IInv'
BY BeginSwitchKeeps, BeginInviteKeeps, BeginAcceptKeeps, BeginChangeRoleKeeps,
   BeginRemoveKeeps, BeginLeaveKeeps, BeginDeleteOrgKeeps, BeginDeleteAccountKeeps
   DEF Begin

\* A commit writes an invitation or only lets invitations go.
LEMMA CommitCases ==
  ASSUME IInv, NEW u \in User, Commit(u)
  PROVE  CommitShape(u) /\ (CommitInvite(u) \/ RowsGo(u))
BY InviteShape, SwitchShape, AcceptShape, ChangeRoleShape, RemoveLeaveShape, DeleteShape
   DEF Commit

LEMMA StepKeeps == IInv /\ [Next]_vars => IInv'
<1> SUFFICES ASSUME IInv, [Next]_vars PROVE IInv'
  OBVIOUS
<1>1. CASE UNCHANGED vars
  BY <1>1 DEF vars, IInv, TypeOK, OwnerRemains, Formed, RowRead, DecidedOn, OtherOwners,
              Owners, Open, Member, Invited, Spent
<1>2. ASSUME NEW u \in User, Begin(u) PROVE IInv'
  BY <1>2, BeginKeeps
<1>3. ASSUME NEW u \in User, Commit(u) PROVE IInv'
  BY <1>3, CommitCases, CommitKeepsInv, InviteKeeps
<1>4. ASSUME NEW u \in User, Fail(u) PROVE IInv'
  BY <1>4, FailKeeps
<1>5. ASSUME NEW u \in User, NEW o \in Org, Signup(u, o) PROVE IInv'
  BY <1>5, SignupKeeps
<1>6. QED
  BY <1>1, <1>2, <1>3, <1>4, <1>5 DEF Next

LEMMA Invariance == Spec => []IInv
BY InitInv, StepKeeps, PTL DEF Spec

\* Memberships are of registered users and existing organisations, and a login
\* acts on an organisation that exists.
THEOREM TypeCorrect == Spec => []TypeOK
BY Invariance, PTL DEF IInv

\* An organisation keeps an owner, unless requests that decide about its owners
\* overtook each other.
THEOREM OwnerAlways == Spec => []OwnerRemains
BY Invariance, PTL DEF IInv

\* An address has one open invitation to an organisation at most, and none once
\* it belongs to it, unless two invitations of it overlapped.
THEOREM InvitesAlwaysSpent == Spec => []InvitesAreSpent
<1>1. IInv => InvitesAreSpent
  <2>1. SUFFICES ASSUME IInv, NEW o \in Org, NEW v \in User,
                        <<o, v>> \notin overlap.invites
                 PROVE  Cardinality(Open(o, v)) <= (IF Member(v, o) THEN 0 ELSE 1)
    BY DEF InvitesAreSpent
  <2>2. /\ \A i, j \in Open(o, v) : i = j
        /\ Member(v, o) => Open(o, v) = {}
    BY <2>1 DEF IInv, Spent
  <2>3. CASE Open(o, v) = {}
    BY <2>3, FS_EmptySet
  <2>4. CASE \E i : Open(o, v) = {i}
    BY <2>2, <2>4, FS_Singleton
  <2>5. QED
    BY <2>2, <2>3, <2>4
<1>2. QED
  BY <1>1, Invariance, PTL

\* An account deletion takes an organisation along only if nobody else owns it
\* at that moment, unless it was overtaken.
THEOREM OthersAlwaysKeepTheirOrg == Spec => OthersKeepTheirOrg
<1>1. IInv /\ [Next]_vars =>
        [\A o \in orgs \ orgs', u \in users \ users' :
           Owners(o) \subseteq {u} \/ o \in overlap.owners]_vars
  <2>1. SUFFICES ASSUME IInv, Next, NEW o \in orgs \ orgs', NEW u \in users \ users',
                        o \notin overlap.owners
                 PROVE  Owners(o) \subseteq {u}
    OBVIOUS
  <2>2. u \in User
    BY <2>1 DEF IInv, TypeOK
  <2>3. At(u, "deleteAccount") /\ o \in req[u].doomed
    <3>1. PICK v \in User : \/ Begin(v) \/ Commit(v) \/ Fail(v)
                            \/ \E x \in Org : Signup(v, x)
      BY <2>1 DEF Next
    <3>2. ~Begin(v)
      BY DEF Begin, BeginSwitch, BeginInvite, BeginAccept, BeginChangeRole, BeginRemove,
             BeginLeave, BeginDeleteOrg, BeginDeleteAccount, Start
    <3>3. ~Fail(v) /\ \A x \in Org : ~Signup(v, x)
      BY DEF Fail, Signup
    <3>4. CommitDeleteAccount(v)
      BY <3>1, <3>2, <3>3 DEF Commit, CommitSwitch, CommitInvite, CommitAccept,
         CommitChangeRole, CommitRemove, CommitLeave, CommitDeleteOrg
    <3>5. QED
      BY <3>4 DEF CommitDeleteAccount
  <2>4. DecidedOn(u, o)
    BY <2>1, <2>2 DEF IInv
  <2>5. OtherOwners(u, o) = {}
    BY <2>3, <2>4 DEF DecidedOn, At
  <2>6. QED
    BY <2>5 DEF OtherOwners
<1>2. QED
  BY <1>1, Invariance, PTL DEF Spec, OthersKeepTheirOrg

-----------------------------------------------------------------------------
(* A login follows the memberships.                                           *)

\* v's login acts where it did, or where v's request turned it, and v belongs
\* there as much as before.
Follows(v) ==
    LET x == cur'[v] IN
    x # NoOrg => /\ x = cur[v] \/ (req[v].pick # NoOrg /\ x = req[v].pick)
                 /\ Member(v, x) => role'[x][v] # "none"

LEMMA CommitFollows ==
  ASSUME IInv, NEW u \in User, Commit(u), NEW v \in User
  PROVE  Follows(v)
<1>1. TypeOK /\ TypeOK' /\ req[u] \in Request /\ Formed(u)
  BY StepKeeps, Types DEF IInv, Next
<1>2. cur'[v] \in Org \cup {NoOrg}
  BY <1>1 DEF TypeOK
<1>3. CASE CommitSwitch(u) \/ CommitInvite(u)
  <2>1. role' = role /\ cur' = Active(u) /\ Picked(u)
    BY <1>3 DEF CommitSwitch, CommitInvite
  <2>2. QED
    BY <1>1, <2>1, ActiveType DEF Follows, Member
<1>4. CASE CommitAccept(u)
  <2>1. cur' = cur /\ req[u].org \in Org /\ req[u].new \in Role
    BY <1>1, <1>4 DEF CommitAccept, Formed, At
  <2>2. role' = [role EXCEPT ![req[u].org][u] = IF req[u].old = "none" THEN req[u].new ELSE @]
    BY <1>4 DEF CommitAccept
  <2>3. \A x \in Org : role[x][v] # "none" => role'[x][v] # "none"
    BY <1>1, <2>1, <2>2, Types DEF Role
  <2>4. QED
    BY <1>2, <2>1, <2>3 DEF Follows, Member
<1>5. CASE CommitChangeRole(u)
  <2>1. /\ cur' = Active(u) /\ Picked(u)
        /\ req[u].org \in Org /\ req[u].who \in User /\ req[u].new \in Role
    BY <1>1, <1>5 DEF CommitChangeRole, Formed, At
  <2>2. role' = [role EXCEPT ![req[u].org][req[u].who] =
                   IF req[u].new # req[u].old THEN req[u].new ELSE @]
    BY <1>5 DEF CommitChangeRole
  <2>3. \A x \in Org : role[x][v] # "none" => role'[x][v] # "none"
    BY <1>1, <2>1, <2>2, Types DEF Role
  <2>4. QED
    BY <1>1, <1>2, <2>1, <2>3, ActiveType DEF Follows, Member
<1>6. ASSUME NEW t \in User, NEW o \in Org, Picked(u),
             role' = [role EXCEPT ![o][t] = "none"],
             cur' = Cleared(Active(u), {t}, {o})
      PROVE  Follows(v)
  <2>1. cur'[v] # NoOrg => cur'[v] = Active(u)[v] /\ ~(v = t /\ cur'[v] = o)
    BY <1>6 DEF Cleared
  <2>2. \A x \in Org : ~(v = t /\ x = o) => role'[x][v] = role[x][v]
    BY <1>1, <1>6, Types
  <2>3. QED
    BY <1>1, <1>2, <1>6, <2>1, <2>2, ActiveType DEF Follows, Member
<1>7. CASE CommitRemove(u)
  BY <1>1, <1>6, <1>7 DEF CommitRemove, Formed, At
<1>8. CASE CommitLeave(u)
  BY <1>1, <1>6, <1>8 DEF CommitLeave, Formed, At
<1>9. CASE CommitDeleteOrg(u)
  <2>1. /\ Picked(u) /\ role' = Without({req[u].org}, {})
        /\ cur' = Cleared(Active(u), User, {req[u].org})
    BY <1>9 DEF CommitDeleteOrg
  <2>2. cur'[v] # NoOrg => cur'[v] = Active(u)[v] /\ cur'[v] # req[u].org
    BY <2>1 DEF Cleared
  <2>3. \A x \in Org : x # req[u].org => role'[x][v] = role[x][v]
    BY <2>1 DEF Without
  <2>4. QED
    BY <1>1, <1>2, <2>1, <2>2, <2>3, ActiveType DEF Follows, Member
<1>10. CASE CommitDeleteAccount(u)
  <2>1. /\ role' = Without(req[u].doomed, {u})
        /\ cur' = [Cleared(cur, User, req[u].doomed) EXCEPT ![u] = NoOrg]
    BY <1>10 DEF CommitDeleteAccount
  <2>2. cur'[v] # NoOrg => cur'[v] = cur[v] /\ cur'[v] \notin req[u].doomed /\ v # u
    BY <2>1 DEF Cleared
  <2>3. \A x \in Org : x \notin req[u].doomed /\ v # u => role'[x][v] = role[x][v]
    BY <2>1 DEF Without
  <2>4. QED
    BY <1>2, <2>2, <2>3 DEF Follows, Member
<1>11. QED
  BY <1>3, <1>4, <1>5, <1>7, <1>8, <1>9, <1>10 DEF Commit

\* A login is left on an organisation its user does not belong to only by a
\* request of its own that another overtook.
THEOREM LoginAlwaysFollows == Spec => LoginFollowsMembership
<1>1. IInv /\ [Next]_vars =>
        [\A u \in User : Stray(u)' => \/ Stray(u)
                                      \/ req[u].pick # NoOrg /\ cur'[u] = req[u].pick]_vars
  <2>1. SUFFICES ASSUME IInv, Next, NEW v \in User, Stray(v)'
                 PROVE  Stray(v) \/ (req[v].pick # NoOrg /\ cur'[v] = req[v].pick)
    OBVIOUS
  <2>2. PICK u \in User : Begin(u) \/ Commit(u) \/ Fail(u) \/ \E o \in Org : Signup(u, o)
    BY <2>1 DEF Next
  <2>3. CASE cur' = cur /\ role' = role
    BY <2>1, <2>3 DEF Stray, Member
  <2>4. CASE Commit(u)
    BY <2>1, <2>4, CommitFollows DEF Follows, Stray, Member
  <2>5. ASSUME NEW o \in Org, Signup(u, o) PROVE Stray(v)
    <3>1. /\ cur' = [cur EXCEPT ![u] = o] /\ role' = [role EXCEPT ![o][u] = "owner"]
      BY <2>5 DEF Signup
    <3>2. cur \in [User -> Org \cup {NoOrg}] /\ role \in [Org -> [User -> Role \cup {"none"}]]
      BY Types, <2>1 DEF IInv
    <3>3. v # u
      BY <2>1, <3>1, <3>2 DEF Stray, Member
    <3>4. QED
      BY <2>1, <3>1, <3>2, <3>3 DEF Stray, Member
  <2>6. Begin(u) => cur' = cur /\ role' = role
    BY DEF Begin, BeginSwitch, BeginInvite, BeginAccept, BeginChangeRole, BeginRemove,
           BeginLeave, BeginDeleteOrg, BeginDeleteAccount, Start
  <2>7. Fail(u) => cur' = cur /\ role' = role
    BY DEF Fail
  <2>8. QED
    BY <2>2, <2>3, <2>4, <2>5, <2>6, <2>7
<1>2. QED
  BY <1>1, Invariance, PTL DEF Spec, LoginFollowsMembership
=============================================================================
