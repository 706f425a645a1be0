------------------------------- MODULE Accounts -------------------------------
(* Accounts, logins and mailed links: auth/service.py and auth/routes.py over *)
(* auth/sessions.py, with the mail sender and the sweeps of dead rows.  A     *)
(* request reads what it decides on, sends its mail if it has one, and        *)
(* commits; other requests commit in between.  Row locks only delay a request *)
(* or make it a deadlock's victim, which Fail covers.                         *)
EXTENDS Naturals

CONSTANTS User,      \* e-mail addresses, and the accounts under them
          Session,   \* rows of logins
          Token,     \* rows of mailed links
          Request,   \* requests under way at a time
          MaxEpoch,  \* bound: how often a user ends the other logins
          None

VARIABLES acct,    \* the account of an address
          sess,    \* logins
          token,   \* mailed links
          outbox,  \* what the mail table says of a link's message
          req      \* requests under way

vars == <<acct, sess, token, outbox, req>>

\* epoch: how often the user has ended the other logins, by a new password, a
\* reset or a sign-out everywhere; verified: the address is confirmed.
NoAccount == [known |-> FALSE, epoch |-> 0, verified |-> FALSE]
Account == [known: BOOLEAN, epoch: 0..MaxEpoch, verified: BOOLEAN]

\* epoch: of the account when the login was vouched for; late: it was over by
\* the time the login was opened; age: valid, expired, kept long enough (the
\* retention of a row is longer than its validity, settings.py:45 and :68).
Login(u, e, l) == [user |-> u, epoch |-> e, late |-> l, revoked |-> FALSE,
                   age |-> 0]
LoginRow == [user: User, epoch: 0..MaxEpoch, late: BOOLEAN, revoked: BOOLEAN,
             age: 0..2]

\* uses: history, how often the link has worked; raced: two requests had it.
LinkKind == {"email_verify", "password_reset", "magic_link"}
Link(u, k) == [user |-> u, kind |-> k, consumed |-> FALSE, age |-> 0,
               uses |-> 0, raced |-> FALSE]
LinkRow == [user: User, kind: LinkKind, consumed: BOOLEAN, age: 0..2,
            uses: Nat, raced: BOOLEAN]

ASSUME AccountsAssumption ==
    /\ MaxEpoch \in Nat
    /\ None \notin User \cup Session \cup Token \cup LoginRow \cup LinkRow

Kind == {"idle", "signup", "login", "magic_request", "forgot", "resend",
         "verify", "magic_login", "reset", "logout", "change_password",
         "revoke_one", "revoke_all", "delete_account"}

\* by: the login that asks; token: the link to mail or to use; target: the
\* login to revoke; epoch: as read; mailed: the message has left.
Idle == [kind |-> "idle", user |-> None, by |-> None, token |-> None,
         target |-> None, epoch |-> 0, mailed |-> FALSE]

Init == /\ acct = [u \in User |-> NoAccount]
        /\ sess = [s \in Session |-> None]
        /\ token = [t \in Token |-> None]
        /\ outbox = [t \in Token |-> "none"]
        /\ req = [r \in Request |-> Idle]

-----------------------------------------------------------------------------
(* Rows.                                                                      *)

Free(t) == token[t] = None /\ \A r \in Request : req[r].token # t

Usable(s) == sess[s] # None /\ ~sess[s].revoked /\ sess[s].age = 0
\* Mutant of Works: a used link is not told from a fresh one.
WorksUntilExpired(t) == token[t] # None /\ token[t].age = 0

Works(t) == token[t] # None /\ ~token[t].consumed /\ token[t].age = 0

\* Nothing refers to an earlier account under the address.
Unknown(u) == /\ ~acct[u].known
              /\ \A r \in Request : req[r].user = u => req[r].kind = "signup"

\* Mutant of Touched: the row is written back as it was read.
TouchedWhole(s) == [sess EXCEPT ![s].age = 0, ![s].revoked = FALSE]

\* Every request of a login pushes its expiry out; only these columns change.
Touched(s) == [sess EXCEPT ![s].age = 0]

\* The logins of u except those in S are revoked.
Revoked(f, u, S) ==
    [s \in Session |-> IF f[s] # None /\ s \notin S
                       THEN [f[s] EXCEPT !.revoked = @ \/ f[s].user = u]
                       ELSE f[s]]

\* No request knows the identifier of a row that is not there yet.
FreshLogin(s) == sess[s] = None /\ \A r \in Request : s \notin {req[r].by, req[r].target}

\* A login of u, vouched for at epoch e, is opened in a fresh row.
Opened(f, g, u, e) ==
    \E s \in Session : /\ FreshLogin(s)
                       /\ g = [f EXCEPT ![s] = Login(u, e, e # acct'[u].epoch)]

Ended(u) == [acct EXCEPT ![u].epoch = @ + 1]

-----------------------------------------------------------------------------
(* Requests read.                                                             *)

Start(r, q) == /\ req[r] = Idle /\ req' = [req EXCEPT ![r] = q]
               /\ UNCHANGED <<acct, sess, token, outbox>>

Mails == {"signup", "magic_request", "forgot", "resend"}

\* A signup, or a request for a link, by somebody who gives an address.
BeginMailing(r) ==
    \E u \in User, t \in Token, k \in {"signup", "magic_request", "forgot"} :
        /\ acct[u].known = (k # "signup")
        /\ Free(t)
        /\ Start(r, [Idle EXCEPT !.kind = k, !.user = u, !.token = t])

BeginLogin(r) ==
    \E u \in User : /\ acct[u].known
                    /\ Start(r, [Idle EXCEPT !.kind = "login", !.user = u,
                                             !.epoch = acct[u].epoch])

Using(k) == CASE k = "email_verify" -> "verify"
              [] k = "magic_link" -> "magic_login"
              [] k = "password_reset" -> "reset"

\* _consume_token and the account that the link is for.
BeginUse(r) ==
    \E t \in Token :
        /\ Works(t)
        /\ LET u == token[t].user IN
           Start(r, [Idle EXCEPT !.kind = Using(token[t].kind), !.user = u,
                                 !.token = t, !.epoch = acct[u].epoch])

\* A request of a login.  What it was vouched for is what it passes on.
BeginAs(r) ==
    \E s \in Session, x \in Session, t \in Token, k \in
       {"resend", "logout", "change_password", "revoke_one", "revoke_all",
        "delete_account"} :
        /\ Usable(s)
        /\ LET u == sess[s].user IN
           /\ IF k = "resend" THEN Free(t) /\ ~acct[u].verified
                              ELSE t = CHOOSE y \in Token : TRUE
           /\ IF k = "revoke_one" THEN sess[x] # None /\ sess[x].user = u
                                  ELSE x = s
           /\ Start(r, [Idle EXCEPT !.kind = k, !.user = u, !.by = s,
                          !.token = IF k = "resend" THEN t ELSE None,
                          !.target = IF k = "revoke_one" THEN x ELSE None,
                          !.epoch = sess[s].epoch])

\* The message leaves inside the transaction.
Mail(r) == /\ req[r].kind \in Mails /\ ~req[r].mailed
           /\ req' = [req EXCEPT ![r].mailed = TRUE]
           /\ UNCHANGED <<acct, sess, token, outbox>>

-----------------------------------------------------------------------------
(* Requests commit.                                                           *)

At(r, k) == req[r].kind = k
End(r) == req' = [req EXCEPT ![r] = Idle]

\* A message that could not be sent fails the request.
Sent(r) == req[r].mailed

MailedLink(r) ==
    /\ Sent(r)
    /\ outbox' = [outbox EXCEPT ![req[r].token] = "sent"]
    /\ token' = [token EXCEPT ![req[r].token] = Link(req[r].user,
                   CASE req[r].kind \in {"signup", "resend"} -> "email_verify"
                     [] req[r].kind = "magic_request" -> "magic_link"
                     [] req[r].kind = "forgot" -> "password_reset")]
    /\ End(r)

\* The address is unique: the second of two signups fails.
CommitSignup(r) ==
    LET u == req[r].user IN
    /\ At(r, "signup") /\ Unknown(u)
    /\ acct' = [acct EXCEPT ![u] = [NoAccount EXCEPT !.known = TRUE]]
    /\ Opened(sess, sess', u, 0)
    /\ MailedLink(r)

CommitLinkRequest(r) ==
    /\ req[r].kind \in {"magic_request", "forgot"}
    /\ acct[req[r].user].known
    /\ MailedLink(r)
    /\ UNCHANGED <<acct, sess>>

CommitLogin(r) ==
    LET q == req[r] IN
    /\ At(r, "login") /\ acct[q.user].known
    /\ acct' = acct
    /\ Opened(sess, sess', q.user, q.epoch)
    /\ UNCHANGED <<token, outbox>>
    /\ End(r)

\* The link is marked as used, whatever happened to it since it was read; a
\* row that has gone fails the request.
Consumed(r) ==
    LET t == req[r].token IN
    /\ token[t] # None
    /\ token' = [token EXCEPT ![t].consumed = TRUE, ![t].uses = @ + 1,
                   ![t].raced = @ \/ \E x \in Request \ {r} : req[x].token = t]
    /\ UNCHANGED outbox
    /\ End(r)

CommitVerify(r) ==
    /\ At(r, "verify")
    /\ Consumed(r)
    /\ acct' = [acct EXCEPT ![req[r].user].verified = TRUE]
    /\ UNCHANGED sess

CommitMagicLogin(r) ==
    LET q == req[r] IN
    /\ At(r, "magic_login")
    /\ Consumed(r)
    /\ acct' = acct
    /\ Opened(sess, sess', q.user, q.epoch)

\* Mutant of CommitReset: the other logins stay.
CommitResetAlone(r) ==
    LET u == req[r].user IN
    /\ At(r, "reset") /\ acct[u].epoch < MaxEpoch
    /\ Consumed(r)
    /\ acct' = Ended(u)
    /\ Opened(sess, sess', u, acct'[u].epoch)

\* A new password; every login is revoked; a new one is opened.
CommitReset(r) ==
    LET u == req[r].user IN
    /\ At(r, "reset") /\ acct[u].epoch < MaxEpoch
    /\ Consumed(r)
    /\ acct' = Ended(u)
    /\ Opened(Revoked(sess, u, {}), sess', u, acct'[u].epoch)

\* The row of the asking login is written first: it must still be there.
Calls(r, k) == At(r, k) /\ sess[req[r].by] # None

CommitResend(r) ==
    /\ Calls(r, "resend")
    /\ sess' = Touched(req[r].by)
    /\ MailedLink(r)
    /\ UNCHANGED acct

CommitLogout(r) ==
    /\ Calls(r, "logout")
    /\ sess' = [Touched(req[r].by) EXCEPT ![req[r].by].revoked = TRUE]
    /\ UNCHANGED <<acct, token, outbox>>
    /\ End(r)

CommitChangePassword(r) ==
    LET u == req[r].user  s == req[r].by IN
    /\ Calls(r, "change_password") /\ acct[u].epoch < MaxEpoch
    /\ acct' = Ended(u)
    /\ sess' = [Revoked(Touched(s), u, {s}) EXCEPT ![s].epoch = acct'[u].epoch]
    /\ UNCHANGED <<token, outbox>>
    /\ End(r)

CommitRevokeOne(r) ==
    LET x == req[r].target IN
    /\ Calls(r, "revoke_one")
    /\ sess' = [s \in Session |->
                  IF s = x /\ sess[x] # None
                  THEN [Touched(req[r].by)[x] EXCEPT !.revoked = TRUE]
                  ELSE Touched(req[r].by)[s]]
    /\ UNCHANGED <<acct, token, outbox>>
    /\ End(r)

CommitRevokeAll(r) ==
    LET u == req[r].user IN
    /\ Calls(r, "revoke_all") /\ acct[u].epoch < MaxEpoch
    /\ acct' = Ended(u)
    /\ Opened(Revoked(Touched(req[r].by), u, {}), sess', u, acct'[u].epoch)
    /\ UNCHANGED <<token, outbox>>
    /\ End(r)

\* The account goes and takes its rows with it.
CommitDeleteAccount(r) ==
    LET u == req[r].user IN
    /\ Calls(r, "delete_account")
    /\ acct' = [acct EXCEPT ![u] = NoAccount]
    /\ sess' = [s \in Session |-> IF sess[s] # None /\ sess[s].user = u
                                  THEN None ELSE sess[s]]
    /\ token' = [t \in Token |-> IF token[t] # None /\ token[t].user = u
                                 THEN None ELSE token[t]]
    /\ UNCHANGED outbox
    /\ End(r)

\* A refusal, a constraint that fails, mail that cannot be sent, a crash.
Fail(r) == req[r] # Idle /\ End(r) /\ UNCHANGED <<acct, sess, token, outbox>>

-----------------------------------------------------------------------------
(* Time and the sweeps.                                                       *)

ExpireLogin(s) ==
    /\ sess[s] # None /\ sess[s].age < 2
    /\ sess' = [sess EXCEPT ![s].age = @ + 1]
    /\ UNCHANGED <<acct, token, outbox, req>>

ExpireLink(t) ==
    /\ token[t] # None /\ token[t].age < 2
    /\ token' = [token EXCEPT ![t].age = @ + 1]
    /\ UNCHANGED <<acct, sess, outbox, req>>

\* A row past its retention is revoked, consumed or expired by then.
Past(row) == row # None /\ row.age = 2

Cleanup ==
    /\ sess' = [s \in Session |-> IF Past(sess[s]) THEN None ELSE sess[s]]
    /\ token' = [t \in Token |-> IF Past(token[t]) THEN None ELSE token[t]]
    /\ UNCHANGED <<acct, outbox, req>>

OutboxCleanup ==
    \E T \in SUBSET {t \in Token : outbox[t] # "none"} :
        /\ outbox' = [t \in Token |-> IF t \in T THEN "none" ELSE outbox[t]]
        /\ UNCHANGED <<acct, sess, token, req>>

Commit(r) == \/ CommitSignup(r) \/ CommitLinkRequest(r) \/ CommitLogin(r)
             \/ CommitVerify(r) \/ CommitMagicLogin(r) \/ CommitReset(r)
             \/ CommitResend(r) \/ CommitLogout(r) \/ CommitChangePassword(r)
             \/ CommitRevokeOne(r) \/ CommitRevokeAll(r) \/ CommitDeleteAccount(r)

Next == \/ \E r \in Request : \/ BeginMailing(r) \/ BeginLogin(r) \/ BeginUse(r)
                              \/ BeginAs(r) \/ Mail(r) \/ Commit(r) \/ Fail(r)
        \/ \E s \in Session : ExpireLogin(s)
        \/ \E t \in Token : ExpireLink(t)
        \/ Cleanup \/ OutboxCleanup

Spec == Init /\ [][Next]_vars

-----------------------------------------------------------------------------
(* Properties.                                                                *)

TypeOK ==
    /\ acct \in [User -> Account]
    /\ sess \in [Session -> LoginRow \cup {None}]
    /\ token \in [Token -> LinkRow \cup {None}]
    /\ outbox \in [Token -> {"none", "sent"}]
    /\ req \in [Request -> [kind: Kind, user: User \cup {None},
                            by: Session \cup {None}, token: Token \cup {None},
                            target: Session \cup {None}, epoch: 0..MaxEpoch,
                            mailed: BOOLEAN]]
    /\ \A s \in Session : sess[s] # None => acct[sess[s].user].known
    /\ \A t \in Token : token[t] # None => acct[token[t].user].known

\* A new password, a reset and a sign-out everywhere end all other logins
\* (auth/service.py:347, :430, auth/routes.py:485): those left were opened
\* since, or by a request that was under way.
OtherLoginsEnd ==
    \A s \in Session :
        Usable(s) => sess[s].late \/ sess[s].epoch = acct[sess[s].user].epoch

\* A link works once (auth/service.py:275), unless two requests have it at a
\* time; either way it is used up afterwards.
LinkWorksOnce ==
    \A t \in Token : token[t] # None =>
        /\ token[t].uses > 1 => token[t].raced
        /\ token[t].uses > 0 => token[t].consumed

LinkIsSingleUse == \A t \in Token : token[t] # None => token[t].uses <= 1

\* A revoked login is never live again: no request that read it before writes
\* it back, and sweeps take no login that is still live.
RevokedStaysRevoked ==
    [][\A s \in Session :
         /\ sess[s] # None /\ sess[s].revoked => sess'[s] = None \/ sess'[s].revoked
         /\ Usable(s) /\ sess'[s] = None => ~acct'[sess[s].user].known]_vars
=============================================================================
