---------------------------- MODULE OrgMembership ----------------------------
(* Who belongs to which organisation, in which role, and which organisation   *)
(* a login acts on: orgs/service.py and orgs/routes.py with the dependencies  *)
(* that authorise a request (api/deps.py), and account deletion as far as it  *)
(* touches organisations.  A request runs in two steps, each against the      *)
(* rows that other requests have committed by then: it reads what authorises  *)
(* it and what its service decides on; its writes commit.  One login per      *)
(* user: the session row, written first, keeps the login's requests apart.    *)
EXTENDS Naturals, FiniteSets

CONSTANTS User,       \* users; each stands for its e-mail address, too
          Org,        \* identifiers of organisations
          InviteId,   \* rows of open invitations
          GivenRole,  \* the roles that requests ask for
          MaxBusy,    \* bound: requests under way at a time
          NoUser, NoOrg, NoInvite

Role == {"viewer", "member", "admin", "owner"}

Invite == [org: Org, email: User, role: Role]

\* The invitations are rows of a table, so finitely many; a missing user,
\* organisation or invitation (None) is not one of them.
ASSUME MembershipAssumption ==
    /\ GivenRole \subseteq Role
    /\ NoUser \notin User /\ NoOrg \notin Org
    /\ NoInvite \notin InviteId \cup Invite
    /\ IsFiniteSet(InviteId)
    /\ MaxBusy \in Nat

VARIABLES users,   \* registered users
          orgs,    \* organisations that exist
          role,    \* memberships: the role, or "none"
          invite,  \* outstanding invitations
          cur,     \* the organisation a login acts on
          req,     \* the request each login has under way
          overlap  \* history: where two deciding requests overlapped

vars == <<users, orgs, role, invite, cur, req, overlap>>

Rank(r) == CASE r = "none" -> 0 [] r = "viewer" -> 1 [] r = "member" -> 2
             [] r = "admin" -> 3 [] r = "owner" -> 4

Kind == {"switch", "invite", "accept", "changeRole", "remove", "leave",
         "deleteOrg", "deleteAccount"}

\* org: the organisation; who: the other user; new: the role asked for; old:
\* the role read in the row to be written; row: the invitation read; pick: the
\* organisation the login turns to; doomed: organisations an account deletion
\* takes along.
Idle == [kind |-> "idle", org |-> NoOrg, who |-> NoUser, new |-> "none",
         old |-> "none", row |-> NoInvite, pick |-> NoOrg, doomed |-> {}]

Member(u, o) == role[o][u] # "none"
Owners(o) == {u \in User : role[o][u] = "owner"}
Open(o, v) == {i \in InviteId : /\ invite[i] # NoInvite
                                /\ invite[i].org = o /\ invite[i].email = v}
Busy == {u \in User : req[u] # Idle}

Init ==
    /\ users = {} /\ orgs = {}
    /\ role = [o \in Org |-> [u \in User |-> "none"]]
    /\ invite = [i \in InviteId |-> NoInvite]
    /\ cur = [u \in User |-> NoOrg]
    /\ req = [u \in User |-> Idle]
    /\ overlap = [owners |-> {}, invites |-> {}]

-----------------------------------------------------------------------------
(* Authorisation, what the services read, and the cases they refuse.          *)

\* The organisation of the login, or else one the user belongs to: the one
\* joined last, which is any of them here.
ActiveOrg(u) == IF cur[u] # NoOrg THEN {cur[u]}
                                  ELSE {o \in orgs : Member(u, o)}

AtLeast(u, o, r) == Rank(role[o][u]) >= Rank(r)

Start(u, k, q) == /\ u \in users /\ req[u] = Idle
                  /\ Cardinality(Busy) < MaxBusy
                  /\ req' = [req EXCEPT ![u] = [q EXCEPT !.kind = k]]
                  /\ UNCHANGED <<users, orgs, role, invite, cur, overlap>>

\* A request on the current organisation.
In(u, o) == [Idle EXCEPT !.org = o, !.pick = IF cur[u] = o THEN NoOrg ELSE o]

\* Switching is a request on the organisation that it names.
BeginSwitch(u) ==
    \E o \in Org : Member(u, o) /\ Start(u, "switch", In(u, o))

\* More than one open invitation of an address is an error of the look-up.
BeginInvite(u) ==
    \E o \in ActiveOrg(u), v \in User, r \in GivenRole \ {"owner"} :
        /\ AtLeast(u, o, "admin")
        /\ ~Member(v, o)
        /\ Cardinality(Open(o, v)) <= 1
        /\ Start(u, "invite", [In(u, o) EXCEPT !.who = v, !.new = r,
                     !.row = CHOOSE i \in InviteId \cup {NoInvite} :
                               Open(o, v) = {i} \ {NoInvite}])

BeginAccept(u) ==
    \E i \in InviteId :
        /\ invite[i] # NoInvite
        /\ invite[i].email = u
        /\ Start(u, "accept", [Idle EXCEPT !.row = i, !.org = invite[i].org,
                     !.new = invite[i].role, !.old = role[invite[i].org][u]])

\* Only owners decide about owners.
MayDecide(u, o, v) == role[o][v] = "owner" => role[o][u] = "owner"

BeginChangeRole(u) ==
    \E o \in ActiveOrg(u), v \in User \ {u}, r \in GivenRole :
        /\ AtLeast(u, o, "admin")
        /\ Member(v, o)
        /\ MayDecide(u, o, v) /\ (r = "owner" => role[o][u] = "owner")
        /\ Start(u, "changeRole", [In(u, o) EXCEPT !.who = v, !.new = r,
                                                   !.old = role[o][v]])

BeginRemove(u) ==
    \E o \in ActiveOrg(u), v \in User \ {u} :
        /\ AtLeast(u, o, "admin")
        /\ Member(v, o)
        /\ MayDecide(u, o, v)
        /\ Start(u, "remove", [In(u, o) EXCEPT !.who = v])

\* Mutant of BeginLeave: the other owners are not counted.
BeginLeaveUncounted(u) ==
    \E o \in ActiveOrg(u) : Member(u, o) /\ Start(u, "leave", In(u, o))

BeginLeave(u) ==
    \E o \in ActiveOrg(u) :
        /\ Member(u, o)
        /\ role[o][u] = "owner" => Cardinality(Owners(o)) > 1
        /\ Start(u, "leave", In(u, o))

BeginDeleteOrg(u) ==
    \E o \in ActiveOrg(u) : AtLeast(u, o, "owner") /\ Start(u, "deleteOrg", In(u, o))

OtherOwners(u, o) == Owners(o) \ {u}

\* Mutant of Doomed: every organisation that u owns.
DoomedIfOwned(u) == {o \in orgs : u \in Owners(o)}

\* The organisations of which u is the last owner.
Doomed(u) == {o \in orgs : u \in Owners(o) /\ OtherOwners(u, o) = {}}

\* Two other owners are an error of the look-up, too.
BeginDeleteAccount(u) ==
    /\ \A o \in orgs : u \in Owners(o) => Cardinality(OtherOwners(u, o)) <= 1
    /\ Start(u, "deleteAccount", [Idle EXCEPT !.doomed = Doomed(u)])

-----------------------------------------------------------------------------
(* The writes.                                                                *)

At(u, k) == req[u].kind = k

\* Requests that decided, on what they read, to take away an owner of o or to
\* make one.
Deciding(o) == {u \in User :
    \/ req[u].org = o /\ req[u].kind \in {"changeRole", "remove", "leave"}
    \/ At(u, "deleteAccount") /\ u \in Owners(o)}

\* The organisations that u's commit leaves with fewer owners while another
\* request was deciding on them.
Overtaken(u) == {o \in Org : /\ {v \in Owners(o) : role'[o][v] # "owner"} # {}
                             /\ Deciding(o) \ {u} # {}}

Done(u) == /\ req' = [req EXCEPT ![u] = Idle]
           /\ overlap' = [overlap EXCEPT !.owners = @ \cup Overtaken(u)]

\* The session row of the caller is written if the request chose another
\* organisation; that organisation must still exist.
Picked(u) == req[u].pick # NoOrg => req[u].pick \in orgs
Active(u) == [cur EXCEPT ![u] = IF req[u].pick # NoOrg THEN req[u].pick ELSE @]

\* Mutant of Cleared: the logins stay where they are.
ClearedNot(c, U, O) == c

\* Logins of the users in U no longer act on the organisations in O.
Cleared(c, U, O) == [v \in User |-> IF v \in U /\ c[v] \in O THEN NoOrg ELSE c[v]]

Without(O, U) == [o \in Org |-> [v \in User |->
                    IF o \in O \/ v \in U THEN "none" ELSE role[o][v]]]

InvitesWithout(O) ==
    [i \in InviteId |-> IF invite[i] # NoInvite /\ invite[i].org \in O
                        THEN NoInvite ELSE invite[i]]

CommitSwitch(u) ==
    /\ At(u, "switch") /\ Picked(u)
    /\ cur' = Active(u)
    /\ UNCHANGED <<users, orgs, role, invite>>
    /\ Done(u)

FreeRow(i) == invite[i] = NoInvite /\ \A v \in User : req[v].row # i

\* Requests that found an address neither a member nor invited.
Inviting(o, w) == {v \in User : /\ At(v, "invite")
                                /\ req[v].org = o /\ req[v].who = w
                                /\ req[v].row = NoInvite}

\* A fresh row, or a new token and role for the row that was read.
CommitInvite(u) ==
    LET q == req[u]
        i == [org |-> q.org, email |-> q.who, role |-> q.new] IN
    /\ At(u, "invite") /\ Picked(u) /\ q.org \in orgs
    /\ \/ \E f \in InviteId : q.row = NoInvite /\ FreeRow(f)
                              /\ invite' = [invite EXCEPT ![f] = i]
       \/ /\ q.row # NoInvite
          /\ invite' = [invite EXCEPT ![q.row] = IF @ = NoInvite THEN @ ELSE i]
    /\ cur' = Active(u)
    /\ overlap' = [overlap EXCEPT !.invites =
                     @ \cup {<<q.org, q.who>> : v \in Inviting(q.org, q.who) \ {u}}]
    /\ req' = [req EXCEPT ![u] = Idle]
    /\ UNCHANGED <<users, orgs, role>>

\* Mutant of CommitAccept: the invitation stays open.
CommitAcceptOpen(u) ==
    LET q == req[u] IN
    /\ At(u, "accept") /\ q.org \in orgs
    /\ role' = [role EXCEPT ![q.org][u] = IF q.old = "none" THEN q.new ELSE @]
    /\ UNCHANGED <<users, orgs, invite, cur>>
    /\ Done(u)

CommitAccept(u) ==
    LET q == req[u] IN
    /\ At(u, "accept") /\ q.org \in orgs
    /\ role' = [role EXCEPT ![q.org][u] = IF q.old = "none" THEN q.new ELSE @]
    /\ invite' = [invite EXCEPT ![q.row] = NoInvite]
    /\ UNCHANGED <<users, orgs, cur>>
    /\ Done(u)

\* An unchanged role is not written; a row that has gone fails the request.
CommitChangeRole(u) ==
    LET q == req[u] IN
    /\ At(u, "changeRole") /\ Picked(u)
    /\ q.new # q.old => Member(q.who, q.org)
    /\ role' = [role EXCEPT ![q.org][q.who] = IF q.new # q.old THEN q.new ELSE @]
    /\ cur' = Active(u)
    /\ UNCHANGED <<users, orgs, invite>>
    /\ Done(u)

CommitRemove(u) ==
    LET q == req[u] IN
    /\ At(u, "remove") /\ Picked(u)
    /\ role' = [role EXCEPT ![q.org][q.who] = "none"]
    /\ cur' = Cleared(Active(u), {q.who}, {q.org})
    /\ UNCHANGED <<users, orgs, invite>>
    /\ Done(u)

CommitLeave(u) ==
    LET q == req[u] IN
    /\ At(u, "leave") /\ Picked(u)
    /\ role' = [role EXCEPT ![q.org][u] = "none"]
    /\ cur' = Cleared(Active(u), {u}, {q.org})
    /\ UNCHANGED <<users, orgs, invite>>
    /\ Done(u)

CommitDeleteOrg(u) ==
    LET q == req[u] IN
    /\ At(u, "deleteOrg") /\ Picked(u)
    /\ orgs' = orgs \ {q.org}
    /\ role' = Without({q.org}, {})
    /\ invite' = InvitesWithout({q.org})
    /\ cur' = Cleared(Active(u), User, {q.org})
    /\ UNCHANGED users
    /\ Done(u)

CommitDeleteAccount(u) ==
    LET q == req[u] IN
    /\ At(u, "deleteAccount")
    /\ users' = users \ {u}
    /\ orgs' = orgs \ q.doomed
    /\ role' = Without(q.doomed, {u})
    /\ invite' = InvitesWithout(q.doomed)
    /\ cur' = [Cleared(cur, User, q.doomed) EXCEPT ![u] = NoOrg]
    /\ Done(u)

\* A refusal, a constraint that fails, a deadlock victim, a crash.
Fail(u) == /\ req[u] # Idle
           /\ req' = [req EXCEPT ![u] = Idle]
           /\ UNCHANGED <<users, orgs, role, invite, cur, overlap>>

\* A user (anew) signs up: a user row, an organisation, and its ownership.
\* Their identifiers are fresh: no request knows them.
Signup(u, o) ==
    /\ u \notin users
    /\ o \notin orgs
    /\ \A v \in User : req[v].org # o /\ o \notin req[v].doomed /\ req[v].who # u
    /\ users' = users \cup {u} /\ orgs' = orgs \cup {o}
    /\ role' = [role EXCEPT ![o][u] = "owner"]
    /\ cur' = [cur EXCEPT ![u] = o]
    /\ overlap' = [owners |-> overlap.owners \ {o},
                   invites |-> {p \in overlap.invites : p[1] # o}]
    /\ UNCHANGED <<invite, req>>

Begin(u) == \/ BeginSwitch(u) \/ BeginInvite(u) \/ BeginAccept(u)
            \/ BeginChangeRole(u) \/ BeginRemove(u) \/ BeginLeave(u)
            \/ BeginDeleteOrg(u) \/ BeginDeleteAccount(u)

Commit(u) == \/ CommitSwitch(u) \/ CommitInvite(u) \/ CommitAccept(u)
             \/ CommitChangeRole(u) \/ CommitRemove(u) \/ CommitLeave(u)
             \/ CommitDeleteOrg(u) \/ CommitDeleteAccount(u)

Next == \E u \in User : \/ Begin(u) \/ Commit(u) \/ Fail(u)
                        \/ \E o \in Org : Signup(u, o)

Spec == Init /\ [][Next]_vars

-----------------------------------------------------------------------------
(* Properties.                                                                *)

TypeOK ==
    /\ users \subseteq User /\ orgs \subseteq Org
    /\ role \in [Org -> [User -> Role \cup {"none"}]]
    /\ invite \in [InviteId -> Invite \cup {NoInvite}]
    /\ cur \in [User -> orgs \cup {NoOrg}]
    /\ req \in [User -> [kind: Kind \cup {"idle"}, org: Org \cup {NoOrg},
                         who: User \cup {NoUser}, new: Role \cup {"none"},
                         old: Role \cup {"none"}, row: InviteId \cup {NoInvite},
                         pick: Org \cup {NoOrg}, doomed: SUBSET Org]]
    /\ overlap \in [owners: SUBSET Org, invites: SUBSET (Org \X User)]
    /\ \A o \in Org, u \in User : Member(u, o) => o \in orgs /\ u \in users

\* An organisation keeps an owner through every sequence of promotions,
\* demotions, removals, departures and account deletions (orgs/service.py:329,
\* "Last owner cannot leave"), unless a request took an owner away while
\* another was deciding to.
OwnerRemains == \A o \in orgs : Owners(o) # {} \/ o \in overlap.owners

\* An address has one open invitation to an organisation at most, and none
\* once it belongs to it, so that nobody who was removed comes back through an
\* old link; unless two invitations of that address overlapped.
InvitesAreSpent ==
    \A o \in Org, v \in User :
        \/ <<o, v>> \in overlap.invites
        \/ Cardinality(Open(o, v)) <= (IF Member(v, o) THEN 0 ELSE 1)

\* A login is left acting on an organisation its user does not belong to only
\* by a request of its own that another overtook: whatever ends a membership
\* takes the login with it (orgs/service.py:287).
Stray(u) == cur[u] # NoOrg /\ ~Member(u, cur[u])

LoginFollowsMembership ==
    [][\A u \in User : Stray(u)' => \/ Stray(u)
                                    \/ req[u].pick # NoOrg /\ cur'[u] = req[u].pick]_vars

\* An account deletion takes an organisation along only if nobody else owns it
\* at that moment (auth/service.py:371), with the same exception.
OthersKeepTheirOrg ==
    [][\A o \in orgs \ orgs', u \in users \ users' :
         Owners(o) \subseteq {u} \/ o \in overlap.owners]_vars
=============================================================================
