---------------------------- MODULE AccountsProofs ----------------------------
(* For any users, logins, links and requests under way: the other logins of a *)
(* user end when they should, a link works once, and a revoked login stays    *)
(* revoked.                                                                   *)
EXTENDS Accounts, TLAPS

UseKind == {"verify", "magic_login", "reset"}
CallKind == {"resend", "logout", "change_password", "revoke_one", "revoke_all",
             "delete_account"}

\* Nobody else has the row of a link that is not there yet.
MailsAlone(r) ==
    LET q == req[r] IN
    q.kind \in Mails => /\ q.token \in Token /\ token[q.token] = None
                        /\ \A x \in Request \ {r} : req[x].token # q.token

\* A link that a request uses is its user's, as long as it is there; once it
\* has worked, the request raced with another.
UsesOwn(r) ==
    LET q == req[r] IN
    q.kind \in UseKind =>
      /\ q.token \in Token
      /\ token[q.token] # None => /\ token[q.token].user = q.user
                                  /\ token[q.token].uses > 0 => token[q.token].raced

\* A login that asks is its user's, as long as it is there.
AsksOwn(r) ==
    LET q == req[r] IN
    q.kind \in CallKind =>
      q.by \in Session /\ (sess[q.by] # None => sess[q.by].user = q.user)

\* OtherLoginsEnd, for expired logins, too: a late request makes one valid again.
Vouched(s) ==
    sess[s] # None /\ ~sess[s].revoked =>
      sess[s].late \/ sess[s].epoch = acct[sess[s].user].epoch

IInv ==
    /\ TypeOK
    /\ \A r \in Request : /\ req[r].kind # "idle" => req[r].user \in User
                          /\ MailsAlone(r) /\ UsesOwn(r) /\ AsksOwn(r)
    /\ \A s \in Session : Vouched(s)
    /\ LinkWorksOnce

RequestRow == [kind: Kind, user: User \cup {None}, by: Session \cup {None},
               token: Token \cup {None}, target: Session \cup {None},
               epoch: 0..MaxEpoch, mailed: BOOLEAN]

LEMMA IdleIsRow == Idle \in RequestRow
BY AccountsAssumption DEF Idle, RequestRow, Kind

LEMMA InitInv == Init => IInv
<1> SUFFICES ASSUME Init PROVE IInv
  OBVIOUS
<1>1. NoAccount \in Account
  BY AccountsAssumption DEF NoAccount, Account
<1>2. TypeOK
  BY <1>1, IdleIsRow DEF Init, TypeOK, RequestRow
<1>3. QED
  BY <1>2 DEF Init, IInv, Idle, MailsAlone, UsesOwn, AsksOwn, Mails, UseKind, CallKind,
              Vouched, LinkWorksOnce

\* TypeOK, one variable at a time.
LEMMA Types ==
  ASSUME TypeOK
  PROVE  /\ acct \in [User -> Account]
         /\ sess \in [Session -> LoginRow \cup {None}]
         /\ token \in [Token -> LinkRow \cup {None}]
         /\ outbox \in [Token -> {"none", "sent"}]
         /\ req \in [Request -> RequestRow]
         /\ \A r \in Request : req[r] \in RequestRow
         /\ \A s \in Session : sess[s] # None => sess[s] \in LoginRow
         /\ \A t \in Token : token[t] # None => token[t] \in LinkRow
BY DEF TypeOK, RequestRow

-----------------------------------------------------------------------------
(* Requests begin, and mail.                                                  *)

\* A step that changes one request only has to explain that one, and that no
\* mail is under way for the link it takes.
LEMMA OneRequest ==
  ASSUME IInv, UNCHANGED <<acct, sess, token, outbox>>, NEW r \in Request,
         NEW q \in RequestRow, req' = [req EXCEPT ![r] = q],
         q.kind # "idle" => q.user \in User,
         MailsAlone(r)', UsesOwn(r)', AsksOwn(r)',
         \A x \in Request \ {r} : req[x].kind \in Mails => req[x].token # q.token
  PROVE  IInv'
<1>1. TypeOK
  BY DEF IInv
<1>2. /\ req' \in [Request -> RequestRow] /\ req'[r] = q
      /\ \A x \in Request \ {r} : req'[x] = req[x]
  BY <1>1, Types
<1>3. TypeOK'
  BY <1>1, <1>2 DEF TypeOK, RequestRow
<1>4. ASSUME NEW x \in Request
      PROVE  /\ req'[x].kind # "idle" => req'[x].user \in User
             /\ MailsAlone(x)' /\ UsesOwn(x)' /\ AsksOwn(x)'
  <2>1. CASE x = r
    BY <1>2, <2>1
  <2>2. CASE x # r
    <3>1. req'[x] = req[x]
      BY <1>2, <2>2
    <3>2. /\ req[x].kind # "idle" => req[x].user \in User
          /\ MailsAlone(x) /\ UsesOwn(x) /\ AsksOwn(x)
      BY DEF IInv
    <3>3. MailsAlone(x)'
      BY <1>2, <2>2, <3>1, <3>2 DEF MailsAlone
    <3>4. UsesOwn(x)' /\ AsksOwn(x)'
      BY <3>1, <3>2 DEF UsesOwn, AsksOwn
    <3>5. QED
      BY <3>1, <3>2, <3>3, <3>4
  <2>3. QED
    BY <2>1, <2>2
<1>5. \A s \in Session : Vouched(s)'
  BY DEF IInv, Vouched
<1>6. LinkWorksOnce'
  BY DEF IInv, LinkWorksOnce
<1>7. QED
  BY <1>3, <1>4, <1>5, <1>6 DEF IInv

LEMMA Started ==
  ASSUME IInv, NEW r \in Request, NEW q \in RequestRow, Start(r, q)
  PROVE  /\ UNCHANGED <<acct, sess, token, outbox>>
         /\ req' = [req EXCEPT ![r] = q] /\ req'[r] = q
         /\ \A x \in Request \ {r} : req'[x] = req[x]
BY Types DEF IInv, Start

LEMMA BeginMailingKeeps ==
  ASSUME IInv, NEW r \in Request, BeginMailing(r)
  PROVE  IInv'
<1>1. PICK u \in User, t \in Token, k \in {"signup", "magic_request", "forgot"} :
        Free(t) /\ Start(r, [Idle EXCEPT !.kind = k, !.user = u, !.token = t])
  BY DEF BeginMailing
<1>2. PICK q : q = [Idle EXCEPT !.kind = k, !.user = u, !.token = t]
  OBVIOUS
<1>3. q \in RequestRow /\ q.kind = k /\ q.user = u /\ q.token = t
  <2>1. k \in Kind /\ 0 \in 0..MaxEpoch
    BY AccountsAssumption DEF Kind
  <2>2. QED
    BY <1>2, <2>1 DEF Idle, RequestRow
<1>4. Start(r, q)
  BY <1>1, <1>2
<1>5. /\ UNCHANGED <<acct, sess, token, outbox>>
      /\ req' = [req EXCEPT ![r] = q] /\ req'[r] = q
      /\ \A x \in Request \ {r} : req'[x] = req[x]
  BY <1>3, <1>4, Started
<1>6. MailsAlone(r)'
  BY <1>1, <1>3, <1>5 DEF MailsAlone, Free
<1>7. UsesOwn(r)' /\ AsksOwn(r)'
  BY <1>3, <1>5 DEF UsesOwn, AsksOwn, UseKind, CallKind
<1>8. \A x \in Request \ {r} : req[x].kind \in Mails => req[x].token # q.token
  BY <1>1, <1>3 DEF Free
<1>9. QED
  BY <1>3, <1>5, <1>6, <1>7, <1>8, OneRequest

\* A request that takes no link and is not of a login.
LEMMA BeginLoginKeeps ==
  ASSUME IInv, NEW r \in Request, BeginLogin(r)
  PROVE  IInv'
<1>1. PICK u \in User : Start(r, [Idle EXCEPT !.kind = "login", !.user = u,
                                              !.epoch = acct[u].epoch])
  BY DEF BeginLogin
<1>2. PICK q : q = [Idle EXCEPT !.kind = "login", !.user = u, !.epoch = acct[u].epoch]
  OBVIOUS
<1>3. acct[u].epoch \in 0..MaxEpoch
  BY Types DEF IInv, Account
<1>4. q \in RequestRow /\ q.kind = "login" /\ q.user = u /\ q.token = None
  BY <1>2, <1>3 DEF Idle, RequestRow, Kind
<1>5. Start(r, q)
  BY <1>1, <1>2
<1>6. /\ UNCHANGED <<acct, sess, token, outbox>>
      /\ req' = [req EXCEPT ![r] = q] /\ req'[r] = q
  BY <1>4, <1>5, Started
<1>7. MailsAlone(r)' /\ UsesOwn(r)' /\ AsksOwn(r)'
  BY <1>4, <1>6 DEF MailsAlone, UsesOwn, AsksOwn, UseKind, CallKind, Mails
<1>8. \A x \in Request \ {r} : req[x].kind \in Mails => req[x].token # q.token
  BY <1>4, AccountsAssumption DEF IInv, MailsAlone
<1>9. QED
  BY <1>4, <1>6, <1>7, <1>8, OneRequest

LEMMA UsingKind ==
  ASSUME NEW k \in LinkKind
  PROVE  Using(k) \in UseKind
<1>1. CASE k = "email_verify"
  BY <1>1, Zenon DEF Using, UseKind
<1>2. CASE k = "magic_link"
  BY <1>2, Zenon DEF Using, UseKind
<1>3. CASE k = "password_reset"
  BY <1>3, Zenon DEF Using, UseKind
<1>4. QED
  BY <1>1, <1>2, <1>3 DEF LinkKind

LEMMA BeginUseKeeps ==
  ASSUME IInv, NEW r \in Request, BeginUse(r)
  PROVE  IInv'
<1>1. PICK t \in Token :
        /\ Works(t)
        /\ LET u == token[t].user IN
           Start(r, [Idle EXCEPT !.kind = Using(token[t].kind), !.user = u,
                                 !.token = t, !.epoch = acct[u].epoch])
  BY DEF BeginUse
<1>2. PICK u, k, e : u = token[t].user /\ k = Using(token[t].kind) /\ e = acct[u].epoch
  OBVIOUS
<1>3. token[t] # None /\ ~token[t].consumed /\ token[t] \in LinkRow
  BY <1>1, Types DEF Works, IInv
<1>4. u \in User /\ k \in UseKind /\ e \in 0..MaxEpoch
  BY <1>2, <1>3, UsingKind, Types DEF LinkRow, Account, IInv
<1>5. PICK q : q = [Idle EXCEPT !.kind = k, !.user = u, !.token = t, !.epoch = e]
  OBVIOUS
<1>6. q \in RequestRow /\ q.kind = k /\ q.user = u /\ q.token = t
  BY <1>4, <1>5 DEF Idle, RequestRow, Kind, UseKind
<1>7. Start(r, q)
  BY <1>1, <1>2, <1>5
<1>8. /\ UNCHANGED <<acct, sess, token, outbox>>
      /\ req' = [req EXCEPT ![r] = q] /\ req'[r] = q
  BY <1>6, <1>7, Started
<1>9. MailsAlone(r)' /\ AsksOwn(r)'
  BY <1>4, <1>6, <1>8 DEF MailsAlone, AsksOwn, UseKind, CallKind, Mails
<1>10. token[t].uses \in Nat /\ ~(token[t].uses > 0)
  BY <1>3 DEF LinkRow, IInv, LinkWorksOnce
<1>11. UsesOwn(r)'
  BY <1>2, <1>6, <1>8, <1>10 DEF UsesOwn
<1>12. \A x \in Request \ {r} : req[x].kind \in Mails => req[x].token # q.token
  BY <1>3, <1>6 DEF IInv, MailsAlone
<1>13. QED
  BY <1>4, <1>6, <1>8, <1>9, <1>11, <1>12, OneRequest

LEMMA BeginAsKeeps ==
  ASSUME IInv, NEW r \in Request, BeginAs(r)
  PROVE  IInv'
<1>1. PICK s \in Session, x \in Session, t \in Token, k \in
        {"resend", "logout", "change_password", "revoke_one", "revoke_all",
         "delete_account"} :
        /\ Usable(s)
        /\ LET u == sess[s].user IN
           /\ IF k = "resend" THEN Free(t) /\ ~acct[u].verified
                              ELSE t = CHOOSE y \in Token : TRUE
           /\ IF k = "revoke_one" THEN sess[x] # None /\ sess[x].user = u
                                  ELSE x = s
           /\ Start(r, [Idle EXCEPT !.kind = k, !.user = u, !.by = s,
                          !.token = IF k = "resend" THEN t ELSE None,
                          !.target = IF k = "revoke_one" THEN x ELSE None,
                          !.epoch = sess[s].epoch])
  BY DEF BeginAs
<1>2. PICK u, y, z, e : /\ u = sess[s].user /\ e = sess[s].epoch
                        /\ y = IF k = "resend" THEN t ELSE None
                        /\ z = IF k = "revoke_one" THEN x ELSE None
  OBVIOUS
<1>3. sess[s] # None /\ sess[s] \in LoginRow
  BY <1>1, Types DEF Usable, IInv
<1>4. u \in User /\ e \in 0..MaxEpoch /\ y \in Token \cup {None} /\ z \in Session \cup {None}
  BY <1>2, <1>3 DEF LoginRow
<1>5. PICK q : q = [Idle EXCEPT !.kind = k, !.user = u, !.by = s, !.token = y,
                                !.target = z, !.epoch = e]
  OBVIOUS
<1>6. q \in RequestRow /\ q.kind = k /\ q.user = u /\ q.by = s /\ q.token = y
  BY <1>4, <1>5 DEF Idle, RequestRow, Kind
<1>7. Start(r, q)
  BY <1>1, <1>2, <1>5
<1>8. /\ UNCHANGED <<acct, sess, token, outbox>>
      /\ req' = [req EXCEPT ![r] = q] /\ req'[r] = q
      /\ \A v \in Request \ {r} : req'[v] = req[v]
  BY <1>6, <1>7, Started
<1>9. MailsAlone(r)'
  <2>1. k \in Mails => k = "resend" /\ y = t /\ Free(t)
    BY <1>1, <1>2 DEF Mails, CallKind
  <2>2. QED
    BY <1>6, <1>8, <2>1 DEF MailsAlone, Free
<1>10. UsesOwn(r)' /\ AsksOwn(r)'
  BY <1>2, <1>6, <1>8 DEF UsesOwn, AsksOwn, UseKind, CallKind
<1>11. ASSUME NEW v \in Request \ {r}, req[v].kind \in Mails PROVE req[v].token # q.token
  <2>1. req[v].token \in Token
    BY <1>11 DEF IInv, MailsAlone
  <2>2. CASE k = "resend"
    BY <1>1, <1>2, <1>6, <2>2 DEF Free
  <2>3. CASE k # "resend"
    BY <1>2, <1>6, <2>1, <2>3, AccountsAssumption
  <2>4. QED
    BY <2>2, <2>3
<1>12. QED
  BY <1>4, <1>6, <1>8, <1>9, <1>10, <1>11, OneRequest

LEMMA MailKeeps ==
  ASSUME IInv, NEW r \in Request, Mail(r)
  PROVE  IInv'
<1>1. req[r] \in RequestRow
  BY Types DEF IInv
<1>2. PICK q : q = [req[r] EXCEPT !.mailed = TRUE]
  OBVIOUS
<1>3. /\ q \in RequestRow /\ q.kind = req[r].kind /\ q.user = req[r].user
      /\ q.by = req[r].by /\ q.token = req[r].token
  BY <1>1, <1>2 DEF RequestRow
<1>4. req' = [req EXCEPT ![r] = q] /\ UNCHANGED <<acct, sess, token, outbox>>
  BY <1>2 DEF Mail
<1>5. req'[r] = q /\ \A x \in Request \ {r} : req'[x] = req[x]
  BY <1>4, Types DEF IInv
<1>6. /\ req[r].kind # "idle" => req[r].user \in User
      /\ MailsAlone(r) /\ UsesOwn(r) /\ AsksOwn(r)
  BY DEF IInv
<1>7. MailsAlone(r)' /\ UsesOwn(r)' /\ AsksOwn(r)'
  BY <1>3, <1>4, <1>5, <1>6 DEF MailsAlone, UsesOwn, AsksOwn
<1>8. \A x \in Request \ {r} : req[x].kind \in Mails => req[x].token # q.token
  BY <1>3 DEF IInv, MailsAlone
<1>9. QED
  BY <1>3, <1>4, <1>6, <1>7, <1>8, OneRequest

LEMMA FailKeeps ==
  ASSUME IInv, NEW r \in Request, Fail(r)
  PROVE  IInv'
<1>1. req' = [req EXCEPT ![r] = Idle] /\ UNCHANGED <<acct, sess, token, outbox>>
  BY DEF Fail, End
<1>2. req'[r] = Idle
  BY <1>1, Types DEF IInv
<1>3. MailsAlone(r)' /\ UsesOwn(r)' /\ AsksOwn(r)' /\ Idle.kind = "idle" /\ Idle.token = None
  BY <1>2 DEF MailsAlone, UsesOwn, AsksOwn, Idle, Mails, UseKind, CallKind
<1>4. \A x \in Request \ {r} : req[x].kind \in Mails => req[x].token # Idle.token
  BY <1>3, AccountsAssumption DEF IInv, MailsAlone
<1>5. QED
  BY <1>1, <1>3, <1>4, IdleIsRow, OneRequest

-----------------------------------------------------------------------------
(* What a step of commits, time or sweeps does to the rows.                   *)

\* Requests at most end.
RequestsEnd == /\ req' \in [Request -> RequestRow]
               /\ \A x \in Request : req'[x] = req[x] \/ req'[x] = Idle

\* A link goes, is new and used by nobody, or stays its user's; if it works,
\* whoever else has it raced.
TokensMove ==
    \A t \in Token :
        \/ token'[t] = None
        \/ token[t] = None /\ \A x \in Request : req'[x].token # t
        \/ /\ token[t] # None /\ token'[t].user = token[t].user
           /\ \/ token'[t].uses = token[t].uses /\ token'[t].raced = token[t].raced
              \/ \A x \in Request : req'[x].token = t => token'[t].raced

TokenPart ==
    /\ token' \in [Token -> LinkRow \cup {None}]
    /\ outbox' \in [Token -> {"none", "sent"}]
    /\ \A t \in Token : token'[t] # None => acct'[token'[t].user].known
    /\ TokensMove
    /\ LinkWorksOnce'

\* A login goes, is new and known to no request, or stays its user's.
LoginsMove ==
    \A s \in Session :
        \/ sess'[s] = None
        \/ sess[s] = None /\ \A x \in Request : req'[x].by # s
        \/ sess[s] # None /\ sess'[s].user = sess[s].user

SessPart ==
    /\ sess' \in [Session -> LoginRow \cup {None}]
    /\ \A s \in Session : sess'[s] # None => acct'[sess'[s].user].known
    /\ LoginsMove
    /\ \A s \in Session : Vouched(s)'

LEMMA Parts ==
  ASSUME IInv, acct' \in [User -> Account], RequestsEnd, TokenPart, SessPart
  PROVE  IInv'
<1>1. TypeOK'
  BY DEF TypeOK, RequestsEnd, TokenPart, SessPart, RequestRow
<1>2. ASSUME NEW x \in Request
      PROVE  /\ req'[x].kind # "idle" => req'[x].user \in User
             /\ MailsAlone(x)' /\ UsesOwn(x)' /\ AsksOwn(x)'
  <2>1. CASE req'[x] = Idle
    BY <2>1 DEF Idle, MailsAlone, UsesOwn, AsksOwn, Mails, UseKind, CallKind
  <2>2. CASE req'[x] = req[x]
    <3>1. /\ req[x].kind # "idle" => req[x].user \in User
          /\ MailsAlone(x) /\ UsesOwn(x) /\ AsksOwn(x)
      BY DEF IInv
    <3>2. MailsAlone(x)'
      <4>1. SUFFICES ASSUME req[x].kind \in Mails
                     PROVE  /\ req[x].token \in Token /\ token'[req[x].token] = None
                            /\ \A y \in Request \ {x} : req'[y].token # req[x].token
        BY <2>2 DEF MailsAlone
      <4>2. /\ req[x].token \in Token /\ token[req[x].token] = None
            /\ \A y \in Request \ {x} : req[y].token # req[x].token
        BY <3>1, <4>1 DEF MailsAlone
      <4>3. \A y \in Request : req'[y].token = req[y].token \/ req'[y].token = None
        BY DEF RequestsEnd, Idle
      <4>4. token'[req[x].token] = None
        BY <2>2, <4>2 DEF TokenPart, TokensMove
      <4>5. QED
        BY <4>2, <4>3, <4>4, AccountsAssumption
    <3>3. UsesOwn(x)'
      <4>1. PICK t, q : q = req[x] /\ q = req'[x] /\ t = q.token
        BY <2>2
      <4>2. SUFFICES ASSUME q.kind \in UseKind
                     PROVE  /\ t \in Token
                            /\ token'[t] # None => /\ token'[t].user = q.user
                                                   /\ token'[t].uses > 0 => token'[t].raced
        BY <4>1 DEF UsesOwn
      <4>3. /\ t \in Token
            /\ token[t] # None => /\ token[t].user = q.user
                                  /\ token[t].uses > 0 => token[t].raced
        BY <3>1, <4>1, <4>2 DEF UsesOwn
      <4>4. \/ token'[t] = None
            \/ /\ token[t] # None /\ token'[t].user = token[t].user
               /\ \/ token'[t].uses = token[t].uses /\ token'[t].raced = token[t].raced
                  \/ token'[t].raced
        BY <4>1, <4>3 DEF TokenPart, TokensMove
      <4>5. QED
        BY <4>3, <4>4
    <3>4. AsksOwn(x)'
      BY <2>2, <3>1 DEF AsksOwn, SessPart, LoginsMove
    <3>5. QED
      BY <2>2, <3>1, <3>2, <3>3, <3>4
  <2>3. QED
    BY <2>1, <2>2 DEF RequestsEnd
<1>3. QED
  BY <1>1, <1>2 DEF IInv, TokenPart, SessPart

LEMMA Ends ==
  ASSUME IInv, NEW r \in Request, End(r)
  PROVE  RequestsEnd /\ req'[r] = Idle /\ \A x \in Request \ {r} : req'[x] = req[x]
BY IdleIsRow, Types DEF End, RequestsEnd, IInv

LEMMA Stays ==
  ASSUME IInv, UNCHANGED req
  PROVE  RequestsEnd
BY Types DEF RequestsEnd, IInv

-----------------------------------------------------------------------------
(* Links.                                                                     *)

\* Whoever has a link or a login keeps the account.
Kept == \A u \in User : acct[u].known => acct'[u].known

\* Links only go.
LEMMA LinksGo ==
  ASSUME IInv,
         token' \in [Token -> LinkRow \cup {None}],
         \A t \in Token : token'[t] = token[t] \/ token'[t] = None,
         \A t \in Token : token'[t] # None => acct'[token'[t].user].known,
         outbox' \in [Token -> {"none", "sent"}]
  PROVE  TokenPart
<1>1. TokensMove
  BY DEF TokensMove
<1>2. LinkWorksOnce'
  BY DEF IInv, LinkWorksOnce
<1>3. QED
  BY <1>1, <1>2 DEF TokenPart

LEMMA LinksStay ==
  ASSUME IInv, Kept, UNCHANGED <<token, outbox>>
  PROVE  TokenPart
<1>1. TypeOK
  BY DEF IInv
<1>2. ASSUME NEW t \in Token, token[t] # None PROVE acct'[token[t].user].known
  <2>1. token[t].user \in User /\ acct[token[t].user].known
    BY <1>1, <1>2, Types DEF TypeOK, LinkRow
  <2>2. QED
    BY <2>1 DEF Kept
<1>3. QED
  BY <1>1, <1>2, LinksGo, Types

LEMMA LinkType ==
  ASSUME NEW u \in User, NEW k \in LinkKind
  PROVE  /\ Link(u, k) \in LinkRow /\ Link(u, k).user = u
         /\ Link(u, k).uses = 0 /\ Link(u, k) # None
<1>1. Link(u, k) \in LinkRow /\ Link(u, k).user = u /\ Link(u, k).uses = 0
  BY DEF Link, LinkRow
<1>2. QED
  BY <1>1, AccountsAssumption

LEMMA LinkMailed ==
  ASSUME IInv, NEW r \in Request, req[r].kind \in Mails, MailedLink(r),
         Kept, acct'[req[r].user].known
  PROVE  TokenPart /\ RequestsEnd
<1>1. PICK q \in RequestRow : q = req[r]
  BY Types DEF IInv
<1>2. PICK k : k = CASE q.kind \in {"signup", "resend"} -> "email_verify"
                     [] q.kind = "magic_request" -> "magic_link"
                     [] q.kind = "forgot" -> "password_reset"
  OBVIOUS
<1>3. k \in LinkKind
  <2>1. CASE q.kind \in {"signup", "resend"}
    BY <1>2, <2>1, Zenon DEF LinkKind
  <2>2. CASE q.kind = "magic_request"
    BY <1>2, <2>2, Zenon DEF LinkKind
  <2>3. CASE q.kind = "forgot"
    BY <1>2, <2>3, Zenon DEF LinkKind
  <2>4. QED
    BY <1>1, <2>1, <2>2, <2>3 DEF Mails
<1>4. /\ q.user \in User /\ q.token \in Token /\ token[q.token] = None
      /\ \A x \in Request \ {r} : req[x].token # q.token
  BY <1>1 DEF IInv, MailsAlone, Mails
<1>5. PICK l : l = Link(q.user, k)
  OBVIOUS
<1>6. l \in LinkRow /\ l.user = q.user /\ l.uses = 0 /\ l # None
  BY <1>3, <1>4, <1>5, LinkType
<1>7. /\ token' = [token EXCEPT ![q.token] = l]
      /\ outbox' = [outbox EXCEPT ![q.token] = "sent"]
      /\ End(r)
  BY <1>1, <1>2, <1>5, Zenon DEF MailedLink
<1>8. /\ token \in [Token -> LinkRow \cup {None}] /\ outbox \in [Token -> {"none", "sent"}]
  BY Types DEF IInv
<1>9. token'[q.token] = l /\ \A t \in Token \ {q.token} : token'[t] = token[t]
  BY <1>4, <1>7, <1>8
<1>10. RequestsEnd /\ \A x \in Request : req'[x].token # q.token
  BY <1>4, <1>7, Ends, AccountsAssumption DEF Idle
<1>11. TokensMove
  BY <1>4, <1>9, <1>10 DEF TokensMove
<1>12. LinkWorksOnce'
  BY <1>6, <1>9 DEF LinkWorksOnce, IInv
<1>13. ASSUME NEW t \in Token, token'[t] # None PROVE acct'[token'[t].user].known
  <2>1. CASE t = q.token
    BY <1>1, <1>6, <1>9, <2>1
  <2>2. CASE t # q.token
    <3>1. token'[t] = token[t]
      BY <1>9, <2>2
    <3>2. token[t].user \in User /\ acct[token[t].user].known
      BY <1>13, <3>1, Types DEF TypeOK, LinkRow, IInv
    <3>3. QED
      BY <3>1, <3>2 DEF Kept
  <2>3. QED
    BY <2>1, <2>2
<1>14. QED
  BY <1>4, <1>6, <1>7, <1>8, <1>10, <1>11, <1>12, <1>13 DEF TokenPart

LEMMA LinkUsed ==
  ASSUME IInv, NEW r \in Request, req[r].kind \in UseKind, Consumed(r), Kept
  PROVE  /\ TokenPart /\ RequestsEnd
         /\ req[r].user \in User /\ acct[req[r].user].known
<1>1. PICK q, t : q = req[r] /\ t = q.token
  OBVIOUS
<1>2. /\ q.user \in User /\ t \in Token /\ token[t] # None /\ token[t].user = q.user
      /\ token[t].uses > 0 => token[t].raced
  BY <1>1 DEF IInv, UsesOwn, UseKind, Consumed
<1>3. token \in [Token -> LinkRow \cup {None}] /\ token[t] \in LinkRow
      /\ outbox \in [Token -> {"none", "sent"}]
  BY <1>2, Types DEF IInv
<1>4. PICK b \in BOOLEAN : b <=> token[t].raced \/ \E x \in Request \ {r} : req[x].token = t
  OBVIOUS
<1>5. PICK l : l = [token[t] EXCEPT !.consumed = TRUE, !.uses = @ + 1, !.raced = b]
  OBVIOUS
<1>6. /\ l \in LinkRow /\ l.user = token[t].user /\ l.consumed = TRUE
      /\ l.uses = token[t].uses + 1 /\ l.raced = b
  <2>1. PICK m \in LinkRow : m = token[t]
    BY <1>3
  <2>2. l = [m EXCEPT !.consumed = TRUE, !.uses = m.uses + 1, !.raced = b]
    BY <1>5, <2>1
  <2>3. m.uses + 1 \in Nat
    BY DEF LinkRow
  <2>4. QED
    BY <1>4, <2>1, <2>2, <2>3 DEF LinkRow
<1>7. /\ token' = [token EXCEPT ![t].consumed = TRUE, ![t].uses = @ + 1,
                     ![t].raced = @ \/ \E x \in Request \ {r} : req[x].token = t]
      /\ UNCHANGED outbox /\ End(r)
  BY <1>1 DEF Consumed
<1>8. token'[t] = l /\ \A y \in Token \ {t} : token'[y] = token[y]
  BY <1>2, <1>3, <1>4, <1>5, <1>7 DEF LinkRow
<1>9. token' \in [Token -> LinkRow \cup {None}]
  BY <1>3, <1>6, <1>7, <1>8
<1>10. RequestsEnd /\ req'[r] = Idle /\ \A x \in Request \ {r} : req'[x] = req[x]
  BY <1>7, Ends
<1>11. \A x \in Request : req'[x].token = t => l.raced
  BY <1>2, <1>4, <1>6, <1>10, AccountsAssumption DEF Idle
<1>12. TokensMove
  BY <1>2, <1>6, <1>8, <1>11 DEF TokensMove
<1>13. LinkWorksOnce'
  <2>1. token[t].uses \in Nat
    BY <1>3 DEF LinkRow
  <2>2. l.uses > 1 => l.raced
    BY <1>2, <1>4, <1>6, <2>1
  <2>3. QED
    BY <1>6, <1>8, <2>2 DEF LinkWorksOnce, IInv
<1>14. ASSUME NEW y \in Token, token'[y] # None PROVE acct'[token'[y].user].known
  <2>1. token[y] # None /\ token'[y].user = token[y].user
    BY <1>2, <1>6, <1>8, <1>14
  <2>2. token[y].user \in User /\ acct[token[y].user].known
    BY <2>1, Types DEF TypeOK, LinkRow, IInv
  <2>3. QED
    BY <2>1, <2>2 DEF Kept
<1>15. TokenPart
  BY <1>3, <1>7, <1>9, <1>12, <1>13, <1>14 DEF TokenPart
<1>16. acct[q.user].known
  BY <1>2 DEF IInv, TypeOK
<1>17. QED
  BY <1>1, <1>2, <1>10, <1>15, <1>16

-----------------------------------------------------------------------------
(* Logins.                                                                    *)

\* f holds logins that are there, each its user's and vouched for by the
\* accounts a unless it is revoked or late.
GoodRows(f, a) ==
    /\ f \in [Session -> LoginRow \cup {None}]
    /\ \A s \in Session : f[s] # None =>
         /\ sess[s] # None /\ f[s].user = sess[s].user
         /\ a[f[s].user].known
         /\ f[s].revoked \/ f[s].late \/ f[s].epoch = a[f[s].user].epoch

\* Logins of accounts that stay are vouched for as before.
Same == \A u \in User : acct[u].known => /\ acct'[u].known
                                         /\ acct'[u].epoch = acct[u].epoch

LEMMA RowsAreGood ==
  ASSUME IInv
  PROVE  GoodRows(sess, acct)
BY Types DEF IInv, TypeOK, Vouched, GoodRows

LEMMA GoodStaysGood ==
  ASSUME NEW f, GoodRows(f, acct), Same
  PROVE  GoodRows(f, acct')
<1>1. ASSUME NEW s \in Session, f[s] # None PROVE f[s].user \in User
  BY <1>1 DEF GoodRows, LoginRow
<1>2. QED
  BY <1>1 DEF GoodRows, Same

LEMMA TouchedIsGood ==
  ASSUME IInv, NEW s \in Session, sess[s] # None
  PROVE  /\ GoodRows(Touched(s), acct)
         /\ \A x \in Session : Touched(s)[x] = None => sess[x] = None
         /\ \A x \in Session : sess[x] # None => Touched(s)[x].revoked = sess[x].revoked
<1>1. GoodRows(sess, acct)
  BY RowsAreGood
<1>2. PICK l \in LoginRow : l = sess[s]
  BY <1>1 DEF GoodRows
<1>3. PICK m : m = [l EXCEPT !.age = 0]
  OBVIOUS
<1>4. /\ m \in LoginRow /\ m.user = l.user /\ m.revoked = l.revoked
      /\ m.late = l.late /\ m.epoch = l.epoch /\ m # None
  BY <1>3, AccountsAssumption DEF LoginRow
<1>5. Touched(s) = [sess EXCEPT ![s] = m]
  BY <1>2, <1>3 DEF Touched
<1>6. /\ Touched(s) \in [Session -> LoginRow \cup {None}]
      /\ Touched(s)[s] = m /\ \A x \in Session \ {s} : Touched(s)[x] = sess[x]
  BY <1>1, <1>4, <1>5 DEF GoodRows
<1> HIDE DEF Touched
<1>7. QED
  BY <1>1, <1>2, <1>4, <1>6 DEF GoodRows

\* What Revoked leaves alone, and what it ends.
LEMMA RevokedFacts ==
  ASSUME NEW f \in [Session -> LoginRow \cup {None}], NEW u \in User, NEW S
  PROVE  /\ Revoked(f, u, S) \in [Session -> LoginRow \cup {None}]
         /\ \A s \in Session :
              /\ f[s] = None => Revoked(f, u, S)[s] = None
              /\ s \in S => Revoked(f, u, S)[s] = f[s]
              /\ f[s] # None => /\ Revoked(f, u, S)[s] \in LoginRow
                                /\ Revoked(f, u, S)[s].user = f[s].user
                                /\ Revoked(f, u, S)[s].late = f[s].late
                                /\ Revoked(f, u, S)[s].epoch = f[s].epoch
                                /\ f[s].revoked => Revoked(f, u, S)[s].revoked
                                /\ s \notin S /\ f[s].user = u => Revoked(f, u, S)[s].revoked
<1>1. ASSUME NEW s \in Session
      PROVE  /\ Revoked(f, u, S)[s] \in LoginRow \cup {None}
             /\ f[s] = None => Revoked(f, u, S)[s] = None
             /\ s \in S => Revoked(f, u, S)[s] = f[s]
             /\ f[s] # None => /\ Revoked(f, u, S)[s] \in LoginRow
                               /\ Revoked(f, u, S)[s].user = f[s].user
                               /\ Revoked(f, u, S)[s].late = f[s].late
                               /\ Revoked(f, u, S)[s].epoch = f[s].epoch
                               /\ f[s].revoked => Revoked(f, u, S)[s].revoked
                               /\ s \notin S /\ f[s].user = u => Revoked(f, u, S)[s].revoked
  <2>1. CASE f[s] # None /\ s \notin S
    <3>1. PICK l \in LoginRow : l = f[s]
      BY <2>1
    <3>2. PICK b \in BOOLEAN : b <=> l.revoked \/ l.user = u
      OBVIOUS
    <3>3. Revoked(f, u, S)[s] = [l EXCEPT !.revoked = b]
      BY <2>1, <3>1, <3>2 DEF Revoked, LoginRow
    <3>4. QED
      BY <2>1, <3>1, <3>2, <3>3 DEF LoginRow
  <2>2. CASE ~(f[s] # None /\ s \notin S)
    <3>1. Revoked(f, u, S)[s] = f[s]
      BY <2>2 DEF Revoked
    <3>2. f[s] \in LoginRow \cup {None}
      OBVIOUS
    <3>3. QED
      BY <2>2, <3>1, <3>2
  <2>3. QED
    BY <2>1, <2>2
<1>2. Revoked(f, u, S) = [s \in Session |-> Revoked(f, u, S)[s]]
  BY DEF Revoked
<1>3. QED
  BY <1>1, <1>2

LEMMA RowsSess ==
  ASSUME IInv, GoodRows(sess', acct')
  PROVE  SessPart
<1>1. LoginsMove
  BY DEF LoginsMove, GoodRows
<1>2. \A s \in Session : Vouched(s)'
  BY DEF GoodRows, Vouched
<1>3. QED
  BY <1>1, <1>2 DEF SessPart, GoodRows

LEMMA OpenedSess ==
  ASSUME IInv, RequestsEnd, acct' \in [User -> Account],
         NEW f, GoodRows(f, acct'), NEW u \in User, acct'[u].known,
         NEW e \in 0..MaxEpoch, Opened(f, sess', u, e)
  PROVE  SessPart
<1>1. PICK s \in Session : /\ FreshLogin(s)
                           /\ sess' = [f EXCEPT ![s] = Login(u, e, e # acct'[u].epoch)]
  BY DEF Opened
<1>2. PICK l : l = Login(u, e, e # acct'[u].epoch)
  OBVIOUS
<1>3. /\ l \in LoginRow /\ l.user = u /\ ~l.revoked
      /\ l.late \/ l.epoch = acct'[u].epoch
  <2>1. PICK b \in BOOLEAN : b = (e # acct'[u].epoch)
    OBVIOUS
  <2>2. l = Login(u, e, b)
    BY <1>2, <2>1
  <2>3. /\ l \in LoginRow /\ l.user = u /\ l.revoked = FALSE
        /\ l.late = b /\ l.epoch = e
    BY <2>2 DEF Login, LoginRow
  <2>4. QED
    BY <2>1, <2>3
<1>4. /\ sess' \in [Session -> LoginRow \cup {None}]
      /\ sess'[s] = l /\ \A x \in Session \ {s} : sess'[x] = f[x]
  BY <1>1, <1>2, <1>3 DEF GoodRows
<1>5. sess[s] = None /\ \A x \in Request : req'[x].by # s
  <2>1. \A x \in Request : req'[x].by = req[x].by \/ req'[x].by = None
    BY DEF RequestsEnd, Idle
  <2>2. QED
    BY <1>1, <2>1, AccountsAssumption DEF FreshLogin
<1>6. LoginsMove
  BY <1>4, <1>5 DEF LoginsMove, GoodRows
<1>7. \A x \in Session : sess'[x] # None => acct'[sess'[x].user].known
  BY <1>3, <1>4 DEF GoodRows
<1>8. ASSUME NEW x \in Session PROVE Vouched(x)'
  <2>1. CASE x = s
    BY <1>3, <1>4, <2>1 DEF Vouched
  <2>2. CASE x # s
    BY <1>4, <2>2 DEF Vouched, GoodRows
  <2>3. QED
    BY <2>1, <2>2
<1>9. QED
  BY <1>4, <1>6, <1>7, <1>8 DEF SessPart

\* After the other logins of u end, those of the others are vouched for as
\* before, and u's that is left out of it if it is marked anew.
LEMMA EndedFacts ==
  ASSUME IInv, NEW u \in User, acct[u].known, acct[u].epoch < MaxEpoch, acct' = Ended(u)
  PROVE  /\ acct' \in [User -> Account] /\ Kept
         /\ acct'[u].known /\ acct'[u].epoch \in 0..MaxEpoch
         /\ \A v \in User \ {u} : acct'[v] = acct[v]
<1>1. PICK a \in Account : a = acct[u]
  BY Types DEF IInv
<1>2. PICK b : b = [a EXCEPT !.epoch = a.epoch + 1]
  OBVIOUS
<1>3. a.epoch + 1 \in 0..MaxEpoch
  BY <1>1, AccountsAssumption DEF Account
<1>4. b \in Account /\ b.epoch = a.epoch + 1 /\ b.known = a.known
  BY <1>2, <1>3 DEF Account
<1>5. acct' = [acct EXCEPT ![u] = b]
  BY <1>1, <1>2 DEF Ended
<1>6. acct'[u] = b /\ \A v \in User \ {u} : acct'[v] = acct[v]
  BY <1>5, Types DEF IInv
<1>7. acct' \in [User -> Account]
  BY <1>4, <1>5, Types DEF IInv
<1>8. QED
  BY <1>1, <1>3, <1>4, <1>6, <1>7 DEF Kept

LEMMA AllEndIsGood ==
  ASSUME IInv, NEW u \in User, acct[u].known, acct[u].epoch < MaxEpoch, acct' = Ended(u),
         NEW f, GoodRows(f, acct)
  PROVE  GoodRows(Revoked(f, u, {}), acct')
<1>1. PICK g : g = Revoked(f, u, {})
  OBVIOUS
<1>2. /\ g \in [Session -> LoginRow \cup {None}]
      /\ \A s \in Session :
           /\ f[s] = None => g[s] = None
           /\ f[s] # None => /\ g[s] \in LoginRow
                             /\ g[s].user = f[s].user /\ g[s].late = f[s].late
                             /\ g[s].epoch = f[s].epoch
                             /\ f[s].revoked => g[s].revoked
                             /\ f[s].user = u => g[s].revoked
  BY <1>1, RevokedFacts DEF GoodRows
<1>3. ASSUME NEW s \in Session, g[s] # None
      PROVE  /\ sess[s] # None /\ g[s].user = sess[s].user
             /\ acct'[g[s].user].known
             /\ g[s].revoked \/ g[s].late \/ g[s].epoch = acct'[g[s].user].epoch
  <2>1. /\ f[s] # None /\ sess[s] # None /\ f[s].user = sess[s].user
        /\ acct[f[s].user].known
        /\ f[s].revoked \/ f[s].late \/ f[s].epoch = acct[f[s].user].epoch
    BY <1>2, <1>3 DEF GoodRows
  <2>2. g[s].user \in User
    BY <1>2, <2>1 DEF LoginRow
  <2>3. CASE g[s].user = u
    BY <1>2, <2>1, <2>3, EndedFacts
  <2>4. CASE g[s].user # u
    BY <1>2, <2>1, <2>2, <2>4, EndedFacts
  <2>5. QED
    BY <2>3, <2>4
<1>4. QED
  BY <1>1, <1>2, <1>3 DEF GoodRows

-----------------------------------------------------------------------------
(* Requests commit.                                                           *)

LEMMA SameAccounts ==
  ASSUME IInv, acct' = acct
  PROVE  acct' \in [User -> Account] /\ Same /\ Kept
BY Types DEF IInv, Same, Kept

LEMMA SessStays ==
  ASSUME IInv, Same, sess' = sess
  PROVE  SessPart
BY RowsAreGood, GoodStaysGood, RowsSess

LEMMA CommitSignupKeeps ==
  ASSUME IInv, NEW r \in Request, CommitSignup(r)
  PROVE  IInv'
<1>1. PICK u \in User : u = req[r].user
  BY DEF CommitSignup, At, IInv
<1>2. ~acct[u].known /\ acct' = [acct EXCEPT ![u] = [NoAccount EXCEPT !.known = TRUE]]
  BY <1>1 DEF CommitSignup, Unknown
<1>3. PICK a : a = [NoAccount EXCEPT !.known = TRUE]
  OBVIOUS
<1>4. a \in Account /\ a.known = TRUE /\ 0 \in 0..MaxEpoch
  <2>1. 0 \in 0..MaxEpoch
    BY AccountsAssumption
  <2>2. QED
    BY <1>3, <2>1 DEF NoAccount, Account
<1>5. acct' \in [User -> Account] /\ acct'[u] = a /\ \A v \in User \ {u} : acct'[v] = acct[v]
  BY <1>2, <1>3, <1>4, Types DEF IInv
<1>6. Same /\ Kept
  BY <1>2, <1>5 DEF Same, Kept
<1>7. TokenPart /\ RequestsEnd
  BY <1>1, <1>4, <1>5, <1>6, LinkMailed DEF CommitSignup, At, Mails
<1>8. SessPart
  <2>1. Opened(sess, sess', u, 0)
    BY <1>1 DEF CommitSignup
  <2>2. GoodRows(sess, acct')
    BY <1>6, RowsAreGood, GoodStaysGood
  <2>3. QED
    BY <1>4, <1>5, <1>7, <2>1, <2>2, OpenedSess
<1>9. QED
  BY <1>5, <1>7, <1>8, Parts

LEMMA CommitLinkRequestKeeps ==
  ASSUME IInv, NEW r \in Request, CommitLinkRequest(r)
  PROVE  IInv'
<1>1. acct' = acct /\ sess' = sess /\ MailedLink(r) /\ acct'[req[r].user].known
  BY DEF CommitLinkRequest
<1>2. acct' \in [User -> Account] /\ Same /\ Kept
  BY <1>1, SameAccounts
<1>3. req[r].kind \in Mails
  BY DEF CommitLinkRequest, Mails
<1>4. QED
  BY <1>1, <1>2, <1>3, LinkMailed, SessStays, Parts

LEMMA CommitLoginKeeps ==
  ASSUME IInv, NEW r \in Request, CommitLogin(r)
  PROVE  IInv'
<1>1. /\ acct' = acct /\ acct[req[r].user].known /\ req[r].kind = "login"
      /\ Opened(sess, sess', req[r].user, req[r].epoch)
      /\ UNCHANGED <<token, outbox>> /\ End(r)
  BY DEF CommitLogin, At
<1>2. req[r].user \in User /\ req[r].epoch \in 0..MaxEpoch
  BY <1>1, Types DEF IInv, RequestRow
<1>3. acct' \in [User -> Account] /\ Same /\ Kept
  BY <1>1, SameAccounts
<1>4. RequestsEnd /\ TokenPart
  BY <1>1, <1>3, Ends, LinksStay
<1>5. GoodRows(sess, acct')
  BY <1>3, RowsAreGood, GoodStaysGood
<1>6. QED
  BY <1>1, <1>2, <1>3, <1>4, <1>5, OpenedSess, Parts

LEMMA CommitVerifyKeeps ==
  ASSUME IInv, NEW r \in Request, CommitVerify(r)
  PROVE  IInv'
<1>1. /\ req[r].kind \in UseKind /\ Consumed(r) /\ sess' = sess
      /\ acct' = [acct EXCEPT ![req[r].user].verified = TRUE]
  BY DEF CommitVerify, At, UseKind
<1>2. PICK u : u = req[r].user /\ u \in User
  BY <1>1 DEF IInv, UseKind
<1>3. PICK a \in Account : a = acct[u]
  BY <1>2, Types DEF IInv
<1>4. PICK b : b = [a EXCEPT !.verified = TRUE]
  OBVIOUS
<1>5. b \in Account /\ b.known = a.known /\ b.epoch = a.epoch
  BY <1>4 DEF Account
<1>6. acct' = [acct EXCEPT ![u] = b]
  BY <1>1, <1>2, <1>3, <1>4
<1>7. /\ acct' \in [User -> Account]
      /\ acct'[u] = b /\ \A v \in User \ {u} : acct'[v] = acct[v]
  BY <1>2, <1>5, <1>6, Types DEF IInv
<1>8. Same /\ Kept
  BY <1>3, <1>5, <1>7 DEF Same, Kept
<1>9. QED
  BY <1>1, <1>7, <1>8, LinkUsed, SessStays, Parts

LEMMA CommitMagicLoginKeeps ==
  ASSUME IInv, NEW r \in Request, CommitMagicLogin(r)
  PROVE  IInv'
<1>1. /\ req[r].kind \in UseKind /\ Consumed(r) /\ acct' = acct
      /\ Opened(sess, sess', req[r].user, req[r].epoch)
  BY DEF CommitMagicLogin, At, UseKind
<1>2. acct' \in [User -> Account] /\ Same /\ Kept
  BY <1>1, SameAccounts
<1>3. /\ TokenPart /\ RequestsEnd
      /\ req[r].user \in User /\ acct[req[r].user].known
  BY <1>1, <1>2, LinkUsed
<1>4. req[r].epoch \in 0..MaxEpoch
  BY Types DEF IInv, RequestRow
<1>5. GoodRows(sess, acct')
  BY <1>2, RowsAreGood, GoodStaysGood
<1>6. QED
  BY <1>1, <1>2, <1>3, <1>4, <1>5, OpenedSess, Parts

LEMMA CommitResetKeeps ==
  ASSUME IInv, NEW r \in Request, CommitReset(r)
  PROVE  IInv'
<1>1. PICK u : u = req[r].user
  OBVIOUS
<1>2. /\ req[r].kind \in UseKind /\ Consumed(r) /\ acct[u].epoch < MaxEpoch
      /\ acct' = Ended(u)
      /\ Opened(Revoked(sess, u, {}), sess', u, acct'[u].epoch)
  BY <1>1 DEF CommitReset, At, UseKind
<1>3. u \in User /\ acct[u].known
  <2>1. req[r].user \in User
    BY <1>2 DEF IInv, UseKind
  <2>2. token[req[r].token] # None /\ token[req[r].token].user = req[r].user
        /\ req[r].token \in Token
    BY <1>2 DEF IInv, UsesOwn, Consumed
  <2>3. QED
    BY <1>1, <2>1, <2>2 DEF IInv, TypeOK
<1>4. /\ acct' \in [User -> Account] /\ Kept
      /\ acct'[u].known /\ acct'[u].epoch \in 0..MaxEpoch
  BY <1>2, <1>3, EndedFacts
<1>5. TokenPart /\ RequestsEnd
  BY <1>2, <1>4, LinkUsed
<1>6. GoodRows(Revoked(sess, u, {}), acct')
  BY <1>2, <1>3, RowsAreGood, AllEndIsGood
<1>7. QED
  BY <1>2, <1>3, <1>4, <1>5, <1>6, OpenedSess, Parts

\* The asking login of a request that gets to its commit.
LEMMA CallFacts ==
  ASSUME IInv, NEW r \in Request, NEW k \in CallKind, Calls(r, k)
  PROVE  /\ req[r].by \in Session /\ sess[req[r].by] # None
         /\ sess[req[r].by].user = req[r].user
         /\ req[r].user \in User /\ acct[req[r].user].known
<1>1. req[r].kind = k /\ req[r].kind # "idle"
  BY DEF Calls, At, CallKind
<1>2. /\ req[r].by \in Session /\ sess[req[r].by] # None
      /\ sess[req[r].by].user = req[r].user /\ req[r].user \in User
  BY <1>1 DEF IInv, AsksOwn, Calls
<1>3. QED
  BY <1>2 DEF IInv, TypeOK

LEMMA CommitResendKeeps ==
  ASSUME IInv, NEW r \in Request, CommitResend(r)
  PROVE  IInv'
<1>1. /\ Calls(r, "resend") /\ sess' = Touched(req[r].by) /\ MailedLink(r) /\ acct' = acct
      /\ req[r].kind \in Mails
  BY DEF CommitResend, Calls, At, Mails
<1>2. /\ req[r].by \in Session /\ sess[req[r].by] # None /\ acct'[req[r].user].known
  BY <1>1, CallFacts DEF CallKind
<1>3. acct' \in [User -> Account] /\ Same /\ Kept
  BY <1>1, SameAccounts
<1>4. GoodRows(sess', acct')
  BY <1>1, <1>2, <1>3, TouchedIsGood, GoodStaysGood
<1>5. QED
  BY <1>1, <1>2, <1>3, <1>4, LinkMailed, RowsSess, Parts

\* Marking one more login as revoked is harmless.
LEMMA OneRevokedIsGood ==
  ASSUME IInv, NEW f, GoodRows(f, acct), NEW s \in Session, f[s] # None
  PROVE  GoodRows([f EXCEPT ![s].revoked = TRUE], acct)
<1>1. PICK l \in LoginRow : l = f[s]
  BY DEF GoodRows
<1>2. PICK m : m = [l EXCEPT !.revoked = TRUE]
  OBVIOUS
<1>3. m \in LoginRow /\ m.revoked = TRUE /\ m.user = l.user
  BY <1>2 DEF LoginRow
<1>4. PICK g : g = [f EXCEPT ![s].revoked = TRUE]
  OBVIOUS
<1>5. g = [f EXCEPT ![s] = m]
  BY <1>1, <1>2, <1>4
<1>6. /\ g \in [Session -> LoginRow \cup {None}]
      /\ g[s] = m /\ \A x \in Session \ {s} : g[x] = f[x]
  BY <1>3, <1>5 DEF GoodRows
<1>7. GoodRows(g, acct)
  BY <1>1, <1>3, <1>6 DEF GoodRows
<1>8. QED
  BY <1>4, <1>7

\* A commit that only writes logins.
LEMMA LoginsWritten ==
  ASSUME IInv, NEW r \in Request, GoodRows(sess', acct),
         UNCHANGED <<acct, token, outbox>>, End(r)
  PROVE  IInv'
<1>1. acct' \in [User -> Account] /\ Same /\ Kept
  BY SameAccounts
<1>2. GoodRows(sess', acct')
  OBVIOUS
<1>3. QED
  BY <1>1, <1>2, Ends, LinksStay, RowsSess, Parts

LEMMA CommitLogoutKeeps ==
  ASSUME IInv, NEW r \in Request, CommitLogout(r)
  PROVE  IInv'
<1>1. PICK s : s = req[r].by
  OBVIOUS
<1>2. /\ Calls(r, "logout") /\ sess' = [Touched(s) EXCEPT ![s].revoked = TRUE]
      /\ UNCHANGED <<acct, token, outbox>> /\ End(r)
  BY <1>1 DEF CommitLogout
<1>3. s \in Session /\ sess[s] # None
  BY <1>1, <1>2, CallFacts DEF CallKind
<1>4. GoodRows(Touched(s), acct) /\ Touched(s)[s] # None
  BY <1>3, TouchedIsGood
<1>5. GoodRows(sess', acct)
  BY <1>2, <1>3, <1>4, OneRevokedIsGood
<1>6. QED
  BY <1>2, <1>5, LoginsWritten

LEMMA CommitRevokeOneKeeps ==
  ASSUME IInv, NEW r \in Request, CommitRevokeOne(r)
  PROVE  IInv'
<1>1. PICK s, x, f : s = req[r].by /\ x = req[r].target /\ f = Touched(s)
  OBVIOUS
<1>2. /\ Calls(r, "revoke_one")
      /\ sess' = [y \in Session |-> IF y = x /\ sess[x] # None
                                    THEN [f[x] EXCEPT !.revoked = TRUE] ELSE f[y]]
      /\ UNCHANGED <<acct, token, outbox>> /\ End(r)
  BY <1>1 DEF CommitRevokeOne
<1>3. s \in Session /\ sess[s] # None
  BY <1>1, <1>2, CallFacts DEF CallKind
<1>4. GoodRows(f, acct) /\ \A y \in Session : f[y] = None => sess[y] = None
  BY <1>1, <1>3, TouchedIsGood
<1>5. CASE x \in Session /\ sess[x] # None
  <2>1. f \in [Session -> LoginRow \cup {None}] /\ f[x] # None
    BY <1>4, <1>5 DEF GoodRows
  <2>2. sess' = [f EXCEPT ![x].revoked = TRUE]
    BY <1>2, <1>5, <2>1
  <2>3. GoodRows(sess', acct)
    BY <1>4, <1>5, <2>1, <2>2, OneRevokedIsGood
  <2>4. QED
    BY <1>2, <2>3, LoginsWritten
<1>6. CASE ~(x \in Session /\ sess[x] # None)
  <2>1. f \in [Session -> LoginRow \cup {None}]
    BY <1>4 DEF GoodRows
  <2>2. sess' = f
    BY <1>2, <1>6, <2>1
  <2>3. QED
    BY <1>2, <1>4, <2>2, LoginsWritten
<1>7. QED
  BY <1>5, <1>6

LEMMA CommitChangePasswordKeeps ==
  ASSUME IInv, NEW r \in Request, CommitChangePassword(r)
  PROVE  IInv'
<1>1. PICK u, s, f, e : /\ u = req[r].user /\ s = req[r].by
                        /\ f = Touched(s) /\ e = acct'[u].epoch
  OBVIOUS
<1>2. PICK g : g = Revoked(f, u, {s})
  OBVIOUS
<1>3. /\ Calls(r, "change_password") /\ acct[u].epoch < MaxEpoch /\ acct' = Ended(u)
      /\ sess' = [g EXCEPT ![s].epoch = e]
      /\ UNCHANGED <<token, outbox>> /\ End(r)
  BY <1>1, <1>2 DEF CommitChangePassword
<1>4. /\ s \in Session /\ sess[s] # None /\ sess[s].user = u
      /\ u \in User /\ acct[u].known
  BY <1>1, <1>3, CallFacts DEF CallKind
<1>5. /\ acct' \in [User -> Account] /\ Kept
      /\ acct'[u].known /\ e \in 0..MaxEpoch
      /\ \A v \in User \ {u} : acct'[v] = acct[v]
  BY <1>1, <1>3, <1>4, EndedFacts
<1>6. GoodRows(f, acct) /\ f[s] # None
  BY <1>1, <1>4, TouchedIsGood
<1>7. /\ g \in [Session -> LoginRow \cup {None}] /\ g[s] = f[s]
      /\ \A x \in Session :
           /\ f[x] = None => g[x] = None
           /\ f[x] # None => /\ g[x] \in LoginRow
                             /\ g[x].user = f[x].user /\ g[x].late = f[x].late
                             /\ g[x].epoch = f[x].epoch
                             /\ f[x].revoked => g[x].revoked
                             /\ x # s /\ f[x].user = u => g[x].revoked
  BY <1>2, <1>4, <1>6, RevokedFacts DEF GoodRows
<1>8. PICK l \in LoginRow : l = g[s]
  <2>1. g[s] \in LoginRow
    BY <1>4, <1>6, <1>7
  <2>2. QED
    BY <2>1
<1>9. PICK m : m = [l EXCEPT !.epoch = e]
  OBVIOUS
<1>10. m \in LoginRow /\ m.user = l.user /\ m.epoch = e
  BY <1>5, <1>9 DEF LoginRow
<1>11. sess' = [g EXCEPT ![s] = m]
  BY <1>3, <1>8, <1>9
<1>12. /\ sess' \in [Session -> LoginRow \cup {None}]
       /\ sess'[s] = m /\ \A x \in Session \ {s} : sess'[x] = g[x]
  BY <1>4, <1>7, <1>10, <1>11
<1>13. ASSUME NEW x \in Session, sess'[x] # None
       PROVE  /\ sess[x] # None /\ sess'[x].user = sess[x].user
              /\ acct'[sess'[x].user].known
              /\ sess'[x].revoked \/ sess'[x].late
                   \/ sess'[x].epoch = acct'[sess'[x].user].epoch
  <2>1. CASE x = s
    <3>1. f[s].user = sess[s].user
      BY <1>4, <1>6 DEF GoodRows
    <3>2. m.user = u
      BY <1>4, <1>7, <1>8, <1>10, <3>1
    <3>3. sess'[x] = m
      BY <1>12, <2>1
    <3>4. m.epoch = acct'[m.user].epoch
      BY <1>1, <1>10, <3>2
    <3>5. QED
      BY <1>4, <1>5, <2>1, <3>2, <3>3, <3>4
  <2>2. CASE x # s
    <3>1. sess'[x] = g[x] /\ f[x] # None
      BY <1>7, <1>12, <1>13, <2>2
    <3>2. /\ sess[x] # None /\ f[x].user = sess[x].user /\ acct[f[x].user].known
          /\ f[x].revoked \/ f[x].late \/ f[x].epoch = acct[f[x].user].epoch
      BY <1>6, <3>1 DEF GoodRows
    <3>3. g[x].user \in User
      BY <1>7, <3>1 DEF LoginRow
    <3>4. CASE g[x].user = u
      BY <1>5, <1>7, <2>2, <3>1, <3>2, <3>4
    <3>5. CASE g[x].user # u
      BY <1>5, <1>7, <3>1, <3>2, <3>3, <3>5
    <3>6. QED
      BY <3>4, <3>5
  <2>3. QED
    BY <2>1, <2>2
<1>14. GoodRows(sess', acct')
  BY <1>12, <1>13 DEF GoodRows
<1>15. QED
  BY <1>3, <1>5, <1>14, Ends, LinksStay, RowsSess, Parts

LEMMA CommitRevokeAllKeeps ==
  ASSUME IInv, NEW r \in Request, CommitRevokeAll(r)
  PROVE  IInv'
<1>1. PICK u, s, f : u = req[r].user /\ s = req[r].by /\ f = Touched(s)
  OBVIOUS
<1>2. /\ Calls(r, "revoke_all") /\ acct[u].epoch < MaxEpoch /\ acct' = Ended(u)
      /\ Opened(Revoked(f, u, {}), sess', u, acct'[u].epoch)
      /\ UNCHANGED <<token, outbox>> /\ End(r)
  BY <1>1 DEF CommitRevokeAll
<1>3. s \in Session /\ sess[s] # None /\ u \in User /\ acct[u].known
  BY <1>1, <1>2, CallFacts DEF CallKind
<1>4. /\ acct' \in [User -> Account] /\ Kept
      /\ acct'[u].known /\ acct'[u].epoch \in 0..MaxEpoch
  BY <1>2, <1>3, EndedFacts
<1>5. GoodRows(f, acct)
  BY <1>1, <1>3, TouchedIsGood
<1>6. GoodRows(Revoked(f, u, {}), acct')
  BY <1>2, <1>3, <1>5, AllEndIsGood
<1>7. RequestsEnd /\ TokenPart
  BY <1>2, <1>4, Ends, LinksStay
<1>8. QED
  BY <1>2, <1>3, <1>4, <1>6, <1>7, OpenedSess, Parts

LEMMA CommitDeleteAccountKeeps ==
  ASSUME IInv, NEW r \in Request, CommitDeleteAccount(r)
  PROVE  IInv'
<1>1. PICK u : u = req[r].user
  OBVIOUS
<1>2. /\ Calls(r, "delete_account")
      /\ acct' = [acct EXCEPT ![u] = NoAccount]
      /\ sess' = [s \in Session |-> IF sess[s] # None /\ sess[s].user = u
                                    THEN None ELSE sess[s]]
      /\ token' = [t \in Token |-> IF token[t] # None /\ token[t].user = u
                                   THEN None ELSE token[t]]
      /\ outbox' = outbox /\ End(r)
  BY <1>1 DEF CommitDeleteAccount
<1>3. u \in User
  BY <1>1, <1>2, CallFacts DEF CallKind
<1>4. TypeOK
  BY DEF IInv
<1>5. NoAccount \in Account
  BY AccountsAssumption DEF NoAccount, Account
<1>6. acct' \in [User -> Account] /\ \A v \in User \ {u} : acct'[v] = acct[v]
  BY <1>2, <1>3, <1>4, <1>5, Types
<1>7. TokenPart
  <2>1. token' \in [Token -> LinkRow \cup {None}] /\ outbox' \in [Token -> {"none", "sent"}]
    BY <1>2, <1>4, Types
  <2>2. \A t \in Token : token'[t] = token[t] \/ token'[t] = None
    BY <1>2
  <2>3. ASSUME NEW t \in Token, token'[t] # None PROVE acct'[token'[t].user].known
    <3>1. token'[t] = token[t] /\ token[t] # None /\ token[t].user # u
      BY <1>2, <2>3
    <3>2. token[t].user \in User /\ acct[token[t].user].known
      BY <1>4, <3>1, Types DEF TypeOK, LinkRow
    <3>3. QED
      BY <1>6, <3>1, <3>2
  <2>4. QED
    BY <2>1, <2>2, <2>3, LinksGo
<1>8. GoodRows(sess', acct')
  <2>1. GoodRows(sess, acct)
    BY RowsAreGood
  <2>2. sess' \in [Session -> LoginRow \cup {None}]
    BY <1>2, <1>4, Types
  <2>3. ASSUME NEW s \in Session, sess'[s] # None
        PROVE  sess'[s] = sess[s] /\ sess[s] # None /\ acct'[sess[s].user] = acct[sess[s].user]
    <3>1. sess'[s] = sess[s] /\ sess[s] # None /\ sess[s].user # u
      BY <1>2, <2>3
    <3>2. sess[s].user \in User
      BY <1>4, <3>1, Types DEF LoginRow
    <3>3. QED
      BY <1>6, <3>1, <3>2
  <2>4. QED
    BY <2>1, <2>2, <2>3 DEF GoodRows
<1>9. RequestsEnd
  BY <1>2, Ends
<1>10. QED
  BY <1>6, <1>7, <1>8, <1>9, RowsSess, Parts

-----------------------------------------------------------------------------
(* Time and the sweeps.                                                       *)

LEMMA ExpireLoginKeeps ==
  ASSUME IInv, NEW s \in Session, ExpireLogin(s)
  PROVE  IInv'
<1>1. /\ sess[s] # None /\ sess[s].age < 2
      /\ sess' = [sess EXCEPT ![s].age = @ + 1]
      /\ acct' = acct /\ UNCHANGED <<token, outbox, req>>
  BY DEF ExpireLogin
<1>2. GoodRows(sess, acct)
  BY RowsAreGood
<1>3. PICK l \in LoginRow : l = sess[s]
  BY <1>1, <1>2 DEF GoodRows
<1>4. PICK m : m = [l EXCEPT !.age = l.age + 1]
  OBVIOUS
<1>5. /\ m \in LoginRow /\ m.user = l.user /\ m.revoked = l.revoked
      /\ m.late = l.late /\ m.epoch = l.epoch
  <2>1. l.age + 1 \in 0..2
    BY <1>1, <1>3 DEF LoginRow
  <2>2. QED
    BY <1>4, <2>1 DEF LoginRow
<1>6. sess' = [sess EXCEPT ![s] = m]
  BY <1>1, <1>3, <1>4
<1>7. /\ sess' \in [Session -> LoginRow \cup {None}]
      /\ sess'[s] = m /\ \A x \in Session \ {s} : sess'[x] = sess[x]
  BY <1>2, <1>5, <1>6 DEF GoodRows
<1>8. GoodRows(sess', acct)
  BY <1>1, <1>2, <1>3, <1>5, <1>7 DEF GoodRows
<1>9. acct' \in [User -> Account] /\ Same /\ Kept
  BY <1>1, SameAccounts
<1>10. GoodRows(sess', acct')
  BY <1>1, <1>8
<1>11. QED
  BY <1>1, <1>9, <1>10, Stays, LinksStay, RowsSess, Parts

LEMMA ExpireLinkKeeps ==
  ASSUME IInv, NEW t \in Token, ExpireLink(t)
  PROVE  IInv'
<1>1. /\ token[t] # None /\ token[t].age < 2
      /\ token' = [token EXCEPT ![t].age = @ + 1]
      /\ acct' = acct /\ sess' = sess /\ outbox' = outbox /\ req' = req
  BY DEF ExpireLink
<1>2. TypeOK
  BY DEF IInv
<1>3. PICK l \in LinkRow : l = token[t]
  BY <1>1, <1>2, Types
<1>4. PICK m : m = [l EXCEPT !.age = l.age + 1]
  OBVIOUS
<1>5. /\ m \in LinkRow /\ m.user = l.user /\ m.uses = l.uses
      /\ m.raced = l.raced /\ m.consumed = l.consumed
  <2>1. l.age + 1 \in 0..2
    BY <1>1, <1>3 DEF LinkRow
  <2>2. QED
    BY <1>4, <2>1 DEF LinkRow
<1>6. token' = [token EXCEPT ![t] = m]
  BY <1>1, <1>3, <1>4
<1>7. /\ token' \in [Token -> LinkRow \cup {None}]
      /\ token'[t] = m /\ \A y \in Token \ {t} : token'[y] = token[y]
  BY <1>2, <1>5, <1>6, Types
<1>8. TokensMove
  BY <1>1, <1>3, <1>5, <1>7 DEF TokensMove
<1>9. LinkWorksOnce'
  BY <1>1, <1>3, <1>5, <1>7 DEF LinkWorksOnce, IInv
<1>10. \A y \in Token : token'[y] # None => acct'[token'[y].user].known
  BY <1>1, <1>2, <1>3, <1>5, <1>7 DEF TypeOK
<1>11. outbox' \in [Token -> {"none", "sent"}]
  BY <1>1, <1>2, Types
<1>12. TokenPart
  BY <1>7, <1>8, <1>9, <1>10, <1>11 DEF TokenPart
<1>13. acct' \in [User -> Account] /\ Same
  BY <1>1, SameAccounts
<1>14. QED
  BY <1>1, <1>12, <1>13, Stays, SessStays, Parts

LEMMA CleanupKeeps ==
  ASSUME IInv, Cleanup
  PROVE  IInv'
<1>1. /\ sess' = [s \in Session |-> IF Past(sess[s]) THEN None ELSE sess[s]]
      /\ token' = [t \in Token |-> IF Past(token[t]) THEN None ELSE token[t]]
      /\ acct' = acct /\ outbox' = outbox /\ req' = req
  BY DEF Cleanup
<1>2. TypeOK
  BY DEF IInv
<1>3. TokenPart
  <2>1. token' \in [Token -> LinkRow \cup {None}] /\ outbox' \in [Token -> {"none", "sent"}]
    BY <1>1, <1>2, Types
  <2>2. \A t \in Token : token'[t] = token[t] \/ token'[t] = None
    BY <1>1
  <2>3. \A t \in Token : token'[t] # None => acct'[token'[t].user].known
    BY <1>1, <1>2, <2>2 DEF TypeOK
  <2>4. QED
    BY <2>1, <2>2, <2>3, LinksGo
<1>4. GoodRows(sess', acct')
  <2>1. GoodRows(sess, acct)
    BY RowsAreGood
  <2>2. sess' \in [Session -> LoginRow \cup {None}]
    BY <1>1, <1>2, Types
  <2>3. \A s \in Session : sess'[s] = sess[s] \/ sess'[s] = None
    BY <1>1
  <2>4. QED
    BY <1>1, <2>1, <2>2, <2>3 DEF GoodRows
<1>5. acct' \in [User -> Account] /\ RequestsEnd
  BY <1>1, SameAccounts, Stays
<1>6. QED
  BY <1>3, <1>4, <1>5, RowsSess, Parts

LEMMA OutboxCleanupKeeps ==
  ASSUME IInv, OutboxCleanup
  PROVE  IInv'
<1>1. PICK T \in SUBSET {t \in Token : outbox[t] # "none"} :
        /\ outbox' = [t \in Token |-> IF t \in T THEN "none" ELSE outbox[t]]
        /\ acct' = acct /\ sess' = sess /\ token' = token /\ req' = req
  BY DEF OutboxCleanup
<1>2. TypeOK
  BY DEF IInv
<1>3. outbox' \in [Token -> {"none", "sent"}]
  BY <1>1, <1>2, Types
<1>4. token' \in [Token -> LinkRow \cup {None}]
  BY <1>1, <1>2, Types
<1>5. \A t \in Token : token'[t] # None => acct'[token'[t].user].known
  BY <1>1, <1>2 DEF TypeOK
<1>6. TokenPart
  BY <1>1, <1>3, <1>4, <1>5, LinksGo
<1>7. acct' \in [User -> Account] /\ Same
  BY <1>1, SameAccounts
<1>8. QED
  BY <1>1, <1>6, <1>7, Stays, SessStays, Parts

LEMMA CommitKeeps ==
  ASSUME IInv, NEW r \in Request, Commit(r)
  PROVE  IInv'
BY CommitSignupKeeps, CommitLinkRequestKeeps, CommitLoginKeeps, CommitVerifyKeeps,
   CommitMagicLoginKeeps, CommitResetKeeps, CommitResendKeeps, CommitLogoutKeeps,
   CommitChangePasswordKeeps, CommitRevokeOneKeeps, CommitRevokeAllKeeps,
   CommitDeleteAccountKeeps DEF Commit

LEMMA StepKeeps == IInv /\ [Next]_vars => IInv'
<1> SUFFICES ASSUME IInv, [Next]_vars PROVE IInv'
  OBVIOUS
<1>1. ASSUME NEW r \in Request,
             BeginMailing(r) \/ BeginLogin(r) \/ BeginUse(r) \/ BeginAs(r) \/ Mail(r)
               \/ Commit(r) \/ Fail(r)
      PROVE  IInv'
  BY <1>1, BeginMailingKeeps, BeginLoginKeeps, BeginUseKeeps, BeginAsKeeps, MailKeeps,
     CommitKeeps, FailKeeps
<1>2. CASE (\E s \in Session : ExpireLogin(s)) \/ (\E t \in Token : ExpireLink(t))
  BY <1>2, ExpireLoginKeeps, ExpireLinkKeeps
<1>3. CASE Cleanup \/ OutboxCleanup
  BY <1>3, CleanupKeeps, OutboxCleanupKeeps
<1>4. CASE UNCHANGED vars
  BY <1>4 DEF vars, IInv, TypeOK, MailsAlone, UsesOwn, AsksOwn, Vouched, LinkWorksOnce
<1>5. QED
  BY <1>1, <1>2, <1>3, <1>4 DEF Next

LEMMA Invariance == Spec => []IInv
BY InitInv, StepKeeps, PTL DEF Spec

-----------------------------------------------------------------------------
(* What holds of every run.                                                   *)

\* Rows have their types, and every login and every link has its account:
\* deleting an account takes its rows with it.
THEOREM TypeCorrect == Spec => []TypeOK
<1>1. IInv => TypeOK
  BY DEF IInv
<1>2. QED
  BY <1>1, Invariance, PTL

\* After a new password, a reset or a sign-out everywhere no other login of the
\* user works that was opened before (auth/service.py:347, :430,
\* auth/routes.py:485), however many requests were under way; one that was
\* vouched for before and opened after is late.
THEOREM OtherLoginsAlwaysEnd == Spec => []OtherLoginsEnd
<1>1. IInv => OtherLoginsEnd
  BY DEF IInv, Vouched, OtherLoginsEnd, Usable
<1>2. QED
  BY <1>1, Invariance, PTL

\* A mailed link works a second time only for a request that had read it with
\* another at the same time (auth/service.py:275), and is marked once it worked.
THEOREM LinksWorkOnce == Spec => []LinkWorksOnce
<1>1. IInv => LinkWorksOnce
  BY DEF IInv
<1>2. QED
  BY <1>1, Invariance, PTL

-----------------------------------------------------------------------------
(* Revoked logins.                                                            *)

\* The logins that are there stay in f, and those revoked stay revoked.
RowsStay(f) == \A x \in Session : sess[x] # None => /\ f[x] # None
                                                    /\ sess[x].revoked => f[x].revoked

LEMMA TouchedStay ==
  ASSUME IInv, NEW s \in Session, sess[s] # None
  PROVE  RowsStay(Touched(s)) /\ Touched(s) \in [Session -> LoginRow \cup {None}]
BY TouchedIsGood DEF RowsStay, GoodRows

LEMMA RevokedStay ==
  ASSUME NEW f \in [Session -> LoginRow \cup {None}], RowsStay(f), NEW u \in User, NEW S
  PROVE  /\ RowsStay(Revoked(f, u, S))
         /\ Revoked(f, u, S) \in [Session -> LoginRow \cup {None}]
<1>1. PICK g : g = Revoked(f, u, S)
  OBVIOUS
<1>2. /\ g \in [Session -> LoginRow \cup {None}]
      /\ \A s \in Session : f[s] # None => /\ g[s] \in LoginRow
                                           /\ f[s].revoked => g[s].revoked
  BY <1>1, RevokedFacts
<1>3. RowsStay(g)
  BY <1>2, AccountsAssumption DEF RowsStay
<1>4. QED
  BY <1>1, <1>2, <1>3

LEMMA OpenedStay ==
  ASSUME NEW f \in [Session -> LoginRow \cup {None}], RowsStay(f), NEW u, NEW e,
         Opened(f, sess', u, e)
  PROVE  RowsStay(sess')
<1>1. PICK s \in Session : /\ sess[s] = None
                           /\ sess' = [f EXCEPT ![s] = Login(u, e, e # acct'[u].epoch)]
  BY DEF Opened, FreshLogin
<1>2. \A x \in Session \ {s} : sess'[x] = f[x]
  BY <1>1
<1>3. QED
  BY <1>1, <1>2 DEF RowsStay

LEMMA MarkedStay ==
  ASSUME NEW f \in [Session -> LoginRow \cup {None}], RowsStay(f), NEW s \in Session,
         sess' = [f EXCEPT ![s].revoked = TRUE]
  PROVE  RowsStay(sess')
<1>1. \A x \in Session \ {s} : sess'[x] = f[x]
  OBVIOUS
<1>2. ASSUME sess[s] # None PROVE sess'[s] # None /\ sess'[s].revoked = TRUE
  <2>1. PICK l \in LoginRow : l = f[s]
    BY <1>2 DEF RowsStay
  <2>2. PICK m : m = [l EXCEPT !.revoked = TRUE]
    OBVIOUS
  <2>3. m \in LoginRow /\ m # None /\ m.revoked = TRUE
    BY <2>2, AccountsAssumption DEF LoginRow
  <2>4. sess' = [f EXCEPT ![s] = m]
    BY <2>1, <2>2
  <2>5. sess'[s] = m
    BY <2>4
  <2>6. QED
    BY <2>3, <2>5
<1>3. QED
  BY <1>1, <1>2 DEF RowsStay

LEMMA CommitStay ==
  ASSUME IInv, NEW r \in Request, Commit(r), ~CommitDeleteAccount(r)
  PROVE  RowsStay(sess')
<1>1. PICK u, s : u = req[r].user /\ s = req[r].by
  OBVIOUS
<1>2. RowsStay(sess) /\ sess \in [Session -> LoginRow \cup {None}]
  BY Types DEF RowsStay, IInv
<1>3. CASE CommitSignup(r) \/ CommitLogin(r) \/ CommitMagicLogin(r)
  BY <1>2, <1>3, OpenedStay DEF CommitSignup, CommitLogin, CommitMagicLogin
<1>4. CASE CommitLinkRequest(r) \/ CommitVerify(r)
  BY <1>2, <1>4 DEF CommitLinkRequest, CommitVerify
<1>5. CASE CommitReset(r)
  <2>1. u \in User
    BY <1>1, <1>5 DEF CommitReset, At, IInv
  <2>2. Opened(Revoked(sess, u, {}), sess', u, acct'[u].epoch)
    BY <1>1, <1>5 DEF CommitReset
  <2>3. QED
    BY <1>2, <2>1, <2>2, RevokedStay, OpenedStay
<1>6. ASSUME NEW k \in CallKind, Calls(r, k)
      PROVE  /\ s \in Session /\ sess[s] # None /\ u \in User
             /\ RowsStay(Touched(s)) /\ Touched(s) \in [Session -> LoginRow \cup {None}]
  BY <1>1, <1>6, CallFacts, TouchedStay
<1>7. PICK f : f = Touched(s)
  OBVIOUS
<1>8. CASE CommitResend(r)
  BY <1>1, <1>6, <1>8 DEF CommitResend, CallKind
<1>9. CASE CommitLogout(r)
  <2>1. /\ sess' = [f EXCEPT ![s].revoked = TRUE] /\ s \in Session
        /\ RowsStay(f) /\ f \in [Session -> LoginRow \cup {None}]
    BY <1>1, <1>6, <1>7, <1>9 DEF CommitLogout, CallKind
  <2>2. QED
    BY <2>1, MarkedStay
<1>10. CASE CommitChangePassword(r)
  <2>1. PICK g, e : g = Revoked(f, u, {s}) /\ e = acct'[u].epoch
    OBVIOUS
  <2>2. /\ sess' = [g EXCEPT ![s].epoch = e] /\ s \in Session /\ u \in User
        /\ RowsStay(f) /\ f \in [Session -> LoginRow \cup {None}] /\ sess[s] # None
    BY <1>1, <1>6, <1>7, <1>10, <2>1 DEF CommitChangePassword, CallKind
  <2>3. RowsStay(g) /\ g \in [Session -> LoginRow \cup {None}]
    BY <2>1, <2>2, RevokedStay
  <2>4. PICK l \in LoginRow : l = g[s]
    BY <2>2, <2>3 DEF RowsStay
  <2>5. PICK m : m = [l EXCEPT !.epoch = e]
    OBVIOUS
  <2>6. e \in 0..MaxEpoch
    <3>1. acct' = Ended(u) /\ acct[u].epoch < MaxEpoch /\ acct[u].known
      BY <1>1, <1>10, CallFacts DEF CommitChangePassword, CallKind
    <3>2. QED
      BY <2>1, <2>2, <3>1, EndedFacts
  <2>9. m \in LoginRow /\ m # None /\ m.revoked = l.revoked
    BY <2>5, <2>6, AccountsAssumption DEF LoginRow
  <2>7. sess' = [g EXCEPT ![s] = m]
    BY <2>2, <2>4, <2>5
  <2>8. sess'[s] = m /\ \A x \in Session \ {s} : sess'[x] = g[x]
    BY <2>2, <2>3, <2>7
  <2>10. QED
    BY <2>3, <2>4, <2>8, <2>9 DEF RowsStay
<1>11. CASE CommitRevokeOne(r)
  <2>1. PICK x : x = req[r].target
    OBVIOUS
  <2>2. /\ sess' = [y \in Session |-> IF y = x /\ sess[x] # None
                                      THEN [f[x] EXCEPT !.revoked = TRUE] ELSE f[y]]
        /\ RowsStay(f) /\ f \in [Session -> LoginRow \cup {None}]
    BY <1>1, <1>6, <1>7, <1>11, <2>1 DEF CommitRevokeOne, CallKind
  <2>3. CASE x \in Session /\ sess[x] # None
    <3>1. sess' = [f EXCEPT ![x].revoked = TRUE]
      BY <2>2, <2>3
    <3>2. QED
      BY <2>2, <2>3, <3>1, MarkedStay
  <2>4. CASE ~(x \in Session /\ sess[x] # None)
    <3>1. sess' = f
      BY <2>2, <2>4
    <3>2. QED
      BY <2>2, <3>1
  <2>5. QED
    BY <2>3, <2>4
<1>12. CASE CommitRevokeAll(r)
  <2>1. /\ Opened(Revoked(f, u, {}), sess', u, acct'[u].epoch) /\ u \in User
        /\ RowsStay(f) /\ f \in [Session -> LoginRow \cup {None}]
    BY <1>1, <1>6, <1>7, <1>12 DEF CommitRevokeAll, CallKind
  <2>2. QED
    BY <2>1, RevokedStay, OpenedStay
<1>13. QED
  BY <1>3, <1>4, <1>5, <1>8, <1>9, <1>10, <1>11, <1>12 DEF Commit

LEMMA DeleteEnds ==
  ASSUME IInv, NEW r \in Request, CommitDeleteAccount(r), NEW s \in Session, sess[s] # None
  PROVE  /\ sess'[s] = None \/ sess'[s] = sess[s]
         /\ sess'[s] = None => acct'[sess[s].user] = NoAccount
<1>1. PICK u : u = req[r].user
  OBVIOUS
<1>2. /\ Calls(r, "delete_account")
      /\ acct' = [acct EXCEPT ![u] = NoAccount]
      /\ sess' = [x \in Session |-> IF sess[x] # None /\ sess[x].user = u
                                    THEN None ELSE sess[x]]
  BY <1>1 DEF CommitDeleteAccount
<1>3. u \in User
  BY <1>1, <1>2, CallFacts DEF CallKind
<1>4. acct'[u] = NoAccount
  BY <1>2, <1>3, Types DEF IInv
<1>5. QED
  BY <1>2, <1>4

LEMMA SweepsStay ==
  ASSUME IInv, NEW s \in Session, sess[s] # None,
         (\E x \in Session : ExpireLogin(x)) \/ Cleanup
  PROVE  /\ sess[s].revoked => sess'[s] = None \/ sess'[s].revoked
         /\ sess'[s] = None => sess[s].age = 2
<1>1. sess \in [Session -> LoginRow \cup {None}]
  BY Types DEF IInv
<1>2. CASE Cleanup
  BY <1>2 DEF Cleanup, Past
<1>3. ASSUME NEW x \in Session, ExpireLogin(x)
      PROVE  sess'[s] # None /\ (sess[s].revoked => sess'[s].revoked)
  <2>1. sess' = [sess EXCEPT ![x].age = @ + 1] /\ sess[x] # None /\ sess[x].age < 2
    BY <1>3 DEF ExpireLogin
  <2>2. PICK l \in LoginRow : l = sess[x]
    BY <1>1, <2>1
  <2>3. PICK m : m = [l EXCEPT !.age = l.age + 1]
    OBVIOUS
  <2>4. l.age + 1 \in 0..2
    BY <2>1, <2>2 DEF LoginRow
  <2>5. m \in LoginRow /\ m # None /\ m.revoked = l.revoked
    BY <2>3, <2>4, AccountsAssumption DEF LoginRow
  <2>6. sess' = [sess EXCEPT ![x] = m]
    BY <2>1, <2>2, <2>3
  <2>7. sess'[x] = m /\ \A y \in Session \ {x} : sess'[y] = sess[y]
    BY <1>1, <2>6
  <2>8. QED
    BY <2>2, <2>5, <2>7
<1>4. QED
  BY <1>2, <1>3

LEMMA LoginsEndOnce ==
  ASSUME IInv, [Next]_vars, NEW s \in Session
  PROVE  /\ sess[s] # None /\ sess[s].revoked => sess'[s] = None \/ sess'[s].revoked
         /\ Usable(s) /\ sess'[s] = None => ~acct'[sess[s].user].known
<1> SUFFICES ASSUME sess[s] # None
             PROVE  /\ sess[s].revoked => sess'[s] = None \/ sess'[s].revoked
                    /\ Usable(s) /\ sess'[s] = None => ~acct'[sess[s].user].known
  BY DEF Usable
<1>1. CASE sess' = sess
  BY <1>1
<1>2. ASSUME NEW r \in Request, CommitDeleteAccount(r)
      PROVE  /\ sess[s].revoked => sess'[s] = None \/ sess'[s].revoked
             /\ Usable(s) /\ sess'[s] = None => ~acct'[sess[s].user].known
  BY <1>2, DeleteEnds DEF NoAccount
<1>3. ASSUME NEW r \in Request, Commit(r), ~CommitDeleteAccount(r)
      PROVE  /\ sess[s].revoked => sess'[s] = None \/ sess'[s].revoked
             /\ Usable(s) /\ sess'[s] = None => ~acct'[sess[s].user].known
  BY <1>3, CommitStay DEF RowsStay
<1>4. CASE (\E x \in Session : ExpireLogin(x)) \/ Cleanup
  BY <1>4, SweepsStay DEF Usable
<1>5. CASE \E r \in Request : BeginMailing(r) \/ BeginLogin(r) \/ BeginUse(r) \/ BeginAs(r)
                                \/ Mail(r) \/ Fail(r)
  <2>1. ASSUME NEW r \in Request, NEW q, Start(r, q) PROVE sess' = sess
    BY <2>1 DEF Start
  <2>2. ASSUME NEW r \in Request, BeginMailing(r) \/ BeginLogin(r) \/ BeginUse(r)
        PROVE  sess' = sess
    BY <2>1, <2>2 DEF BeginMailing, BeginLogin, BeginUse
  <2>3. ASSUME NEW r \in Request, BeginAs(r) PROVE sess' = sess
    BY <2>1, <2>3 DEF BeginAs
  <2>4. ASSUME NEW r \in Request, Mail(r) \/ Fail(r) PROVE sess' = sess
    BY <2>4 DEF Mail, Fail
  <2>5. sess' = sess
    BY <1>5, <2>2, <2>3, <2>4
  <2>6. QED
    BY <1>1, <2>5
<1>6. CASE (\E t \in Token : ExpireLink(t)) \/ OutboxCleanup \/ UNCHANGED vars
  <2>1. sess' = sess
    BY <1>6 DEF ExpireLink, OutboxCleanup, vars
  <2>2. QED
    BY <1>1, <2>1
<1>7. QED
  BY <1>2, <1>3, <1>4, <1>5, <1>6 DEF Next

\* Once a login is revoked no request brings it back, also one that read the
\* row before; a login that still works goes only with its account: the sweep
\* of old rows (auth/sessions.py) never takes it.
THEOREM RevokedForGood == Spec => RevokedStaysRevoked
<1>1. IInv /\ [Next]_vars
        => [\A s \in Session :
              /\ sess[s] # None /\ sess[s].revoked => sess'[s] = None \/ sess'[s].revoked
              /\ Usable(s) /\ sess'[s] = None => ~acct'[sess[s].user].known]_vars
  BY LoginsEndOnce
<1>2. QED
  BY <1>1, Invariance, PTL DEF Spec, RevokedStaysRevoked
=============================================================================
