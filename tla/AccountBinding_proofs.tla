-------------------------- MODULE AccountBinding_proofs --------------------------
(****************************************************************************)
(* AccountBinding, for every number of identities, accounts and concurrent  *)
(* logins: a session belongs to the account of its identity, an identity    *)
(* keeps one account, and a linked account is never linked to another.      *)
(*                                                                          *)
(* What makes it inductive is that the link a request saw or made is still  *)
(* there when it issues the session (LoginOK), because links only appear    *)
(* (Linking), and that an identity is linked to one account at most.        *)
(****************************************************************************)
EXTENDS AccountBinding, TLAPS

LinkedOnce ==
    \A a, b \in Accounts :
        (Exists(a) /\ Exists(b) /\ users[a].fb # None /\ users[a].fb = users[b].fb) => a = b

\* what the request knows at each of its steps
LoginOK(r) ==
    /\ ~At(r, "idle") => login[r].id \in Identities /\ login[r].email \in Emails
    /\ At(r, "link") => login[r].account \in Accounts /\ Exists(login[r].account)
    /\ At(r, "issue") => /\ login[r].account \in Accounts
                         /\ Exists(login[r].account)
                         /\ users[login[r].account].fb = login[r].id

LoginsOK == \A r \in Requests : LoginOK(r)

\* what NeverRebound says of a step
LinksKept ==
    \A a \in Accounts : Exists(a) /\ users[a].fb # None => users'[a].fb = users[a].fb

IInv == TypeOK /\ LinkedOnce /\ LoginsOK /\ SessionsMatchIdentity

----------------------------------------------------------------------------
USE DEF Progress

\* Initially no account is linked and nobody is logging in.
LEMMA InitIInv == Init => IInv
<1>1. Init => TypeOK
  BY BoundsAssumption DEF Init, TypeOK, User, IdleLogin
<1>2. Init => LinkedOnce
  BY DEF Init, LinkedOnce, Exists
<1>3. Init => LoginsOK /\ SessionsMatchIdentity
  BY DEF Init, LoginsOK, LoginOK, At, IdleLogin, SessionsMatchIdentity
<1> QED BY <1>1, <1>2, <1>3 DEF IInv

\* Linking account a to identity i, or inserting it, keeps every link there is:
\* the row was free or i's own, and i is linked to no other.
LEMMA Linking ==
  ASSUME IInv, NEW a \in Accounts, NEW i \in Identities, NEW row \in User,
         row.fb = i,
         Exists(a) => users[a].fb \in {None, i},
         \A b \in Accounts : Exists(b) /\ users[b].fb = i => b = a,
         users' = [users EXCEPT ![a] = row]
  PROVE  /\ users' \in [Accounts -> User \union {None}]
         /\ LinkedOnce'
         /\ \A b \in Accounts : Exists(b) => Exists(b)'
         /\ \A b \in Accounts : Exists(b) /\ users[b].fb # None => users'[b].fb = users[b].fb
         /\ Exists(a)' /\ users'[a].fb = i
<1>1. users \in [Accounts -> User \union {None}]
  BY DEF IInv, TypeOK
<1>2. row # None
  BY NoUserAssumption
<1>3. users'[a] = row /\ \A b \in Accounts \ {a} : users'[b] = users[b]
  BY <1>1
<1>4. i # None
  BY NoneAssumption
<1>5. LinkedOnce'
  <2> SUFFICES ASSUME NEW b \in Accounts, NEW c \in Accounts,
                      Exists(b)', Exists(c)', users'[b].fb # None, users'[b].fb = users'[c].fb
               PROVE  b = c
    BY DEF LinkedOnce
  <2>1. CASE b # a /\ c # a
    BY <2>1, <1>3 DEF IInv, LinkedOnce, Exists
  <2>2. CASE b = a \/ c = a
    BY <2>2, <1>3 DEF Exists
  <2> QED BY <2>1, <2>2
<1>6. \A b \in Accounts : Exists(b) => Exists(b)'
  BY <1>2, <1>3 DEF Exists
<1>7. \A b \in Accounts : Exists(b) /\ users[b].fb # None => users'[b].fb = users[b].fb
  BY <1>3
<1> QED BY <1>1, <1>2, <1>3, <1>5, <1>6, <1>7 DEF Exists

\* A step of request r that changes nothing but its own progress.
LEMMA Moving ==
  ASSUME IInv, NEW r \in Requests, NEW p,
         p \in Progress,
         login' = [login EXCEPT ![r] = p],
         LoginOK(r)',
         UNCHANGED <<users, email, sessions, changes>>,
         rejected' \subseteq Identities, faults' \in 0..MaxFaults
  PROVE  IInv'
<1>1. TypeOK'
  BY DEF IInv, TypeOK
<1>2. LinkedOnce' /\ SessionsMatchIdentity'
  BY DEF IInv, LinkedOnce, SessionsMatchIdentity, Exists
<1>3. LoginsOK'
  <2> SUFFICES ASSUME NEW q \in Requests PROVE LoginOK(q)'
    BY DEF LoginsOK
  <2>1. CASE q = r
    BY <2>1
  <2>2. CASE q # r
    <3>1. login'[q] = login[q]
      BY <2>2 DEF IInv, TypeOK
    <3> QED BY <3>1 DEF IInv, LoginsOK, LoginOK, At, Exists
  <2> QED BY <2>1, <2>2
<1> QED BY <1>1, <1>2, <1>3 DEF IInv

\* A request that is answered no longer matters.
LEMMA Answered ==
  ASSUME IInv, NEW r \in Requests, Answer(r),
         UNCHANGED <<users, email, sessions, changes>>,
         rejected' \subseteq Identities, faults' \in 0..MaxFaults
  PROVE  IInv'
<1>1. IdleLogin \in Progress
  BY DEF IdleLogin
<1>2. login' = [login EXCEPT ![r] = IdleLogin]
  BY DEF Answer
<1>3. LoginOK(r)'
  BY <1>2 DEF IInv, TypeOK, LoginOK, At, IdleLogin
<1> QED BY <1>1, <1>2, <1>3, Moving

\* Bind, when the row is free for the identity, keeps the invariant
\* and every link.
LEMMA Binding ==
  ASSUME IInv, NEW r \in Requests, ~At(r, "idle"), NEW a \in Accounts, NEW row \in User,
         row.fb = login[r].id,
         Exists(a) => Bindable(a, login[r].id),
         WithFacebookId(login[r].id) \subseteq {a},
         Bind(r, a, row)
  PROVE  IInv' /\ LinksKept
<1> DEFINE i == login[r].id
<1>1. i \in Identities /\ login[r].email \in Emails
  BY DEF IInv, LoginsOK, LoginOK
<1>2. /\ users' \in [Accounts -> User \union {None}]
      /\ LinkedOnce'
      /\ \A b \in Accounts : Exists(b) => Exists(b)'
      /\ \A b \in Accounts : Exists(b) /\ users[b].fb # None => users'[b].fb = users[b].fb
      /\ Exists(a)' /\ users'[a].fb = i
  <2>1. \A b \in Accounts : Exists(b) /\ users[b].fb = i => b = a
    BY DEF WithFacebookId
  <2>2. Exists(a) => users[a].fb \in {None, i}
    BY DEF Bindable
  <2>3. users' = [users EXCEPT ![a] = row]
    BY DEF Bind
  <2> QED BY <1>1, <2>1, <2>2, <2>3, Linking
<1>3. /\ login' = [login EXCEPT ![r].pc = "issue", ![r].account = a]
      /\ UNCHANGED <<email, sessions, rejected, changes, faults>>
  BY DEF Bind
<1>4. TypeOK'
  <2>1. login' \in [Requests -> Progress]
    <3>1. login \in [Requests -> Progress]
      BY DEF IInv, TypeOK
    <3>2. login' = [login EXCEPT ![r] = [login[r] EXCEPT !.pc = "issue", !.account = a]]
      BY <1>3, <3>1
    <3>3. [login[r] EXCEPT !.pc = "issue", !.account = a] \in
            Progress
      BY <3>1
    <3> QED BY <3>1, <3>2, <3>3
  <2> QED BY <1>2, <1>3, <2>1 DEF IInv, TypeOK
<1>5. LoginsOK'
  <2> SUFFICES ASSUME NEW q \in Requests PROVE LoginOK(q)'
    BY DEF LoginsOK
  <2>1. CASE q = r
    BY <2>1, <1>1, <1>2, <1>3 DEF IInv, TypeOK, LoginOK, At
  <2>2. CASE q # r
    <3>1. login'[q] = login[q]
      BY <2>2, <1>3 DEF IInv, TypeOK
    <3>2. LoginOK(q)
      BY DEF IInv, LoginsOK
    <3>3. At(q, "issue") => users[login[q].account].fb # None
      BY <3>2, NoneAssumption DEF LoginOK, At
    <3> QED BY <3>1, <3>2, <3>3, <1>2 DEF LoginOK, At
  <2> QED BY <2>1, <2>2
<1>6. SessionsMatchIdentity'
  <2> SUFFICES ASSUME NEW s \in sessions PROVE Exists(s[2])' /\ users'[s[2]].fb = s[1]
    BY <1>3 DEF SessionsMatchIdentity
  <2>1. s[1] \in Identities /\ s[2] \in Accounts
    BY DEF IInv, TypeOK
  <2>2. Exists(s[2]) /\ users[s[2]].fb = s[1]
    BY DEF IInv, SessionsMatchIdentity
  <2>3. users[s[2]].fb # None
    BY <2>1, <2>2, NoneAssumption
  <2> QED BY <2>1, <2>2, <2>3, <1>2
<1> QED BY <1>2, <1>4, <1>5, <1>6 DEF IInv, LinksKept

----------------------------------------------------------------------------
\* One lemma per action.
LEMMA ChangeEmailStep ==
  ASSUME IInv, NEW i \in Identities, NEW e \in Emails, ChangeEmail(i, e)
  PROVE  IInv'
<1>1. TypeOK'
  BY DEF IInv, TypeOK, ChangeEmail
<1> QED
  BY <1>1 DEF IInv, ChangeEmail, LinkedOnce, LoginsOK, LoginOK, At, Exists, SessionsMatchIdentity

LEMMA LoadUserStep ==
  ASSUME IInv, NEW r \in Requests, NEW i \in Identities, LoadUser(r, i)
  PROVE  IInv'
<1> DEFINE p == [pc |-> "byFacebookId", id |-> i, email |-> email[i], account |-> None]
<1>1. email[i] \in Emails /\ rejected \subseteq Identities /\ faults \in 0..MaxFaults
  BY DEF IInv, TypeOK
<1>2. login' = [login EXCEPT ![r] = p]
      /\ UNCHANGED <<users, email, sessions, rejected, changes, faults>>
  BY DEF LoadUser
<1>3. LoginOK(r)'
  BY <1>1, <1>2 DEF IInv, TypeOK, LoginOK, At
<1> HIDE DEF p
<1>4. p \in Progress
  BY <1>1 DEF p
<1> QED BY <1>1, <1>2, <1>3, <1>4, Moving

LEMMA FindByFacebookIdStep ==
  ASSUME IInv, NEW r \in Requests, FindByFacebookId(r)
  PROVE  IInv'
<1> DEFINE found == WithFacebookId(login[r].id)
           a == CHOOSE a \in found : TRUE
           p == IF found = {} THEN [login[r] EXCEPT !.pc = "byEmail"]
                ELSE [login[r] EXCEPT !.pc = "link", !.account = a]
<1>1. login[r] \in Progress
  BY DEF IInv, TypeOK
<1>2. found # {} => a \in Accounts /\ Exists(a)
  BY DEF WithFacebookId
<1>3. At(r, "byFacebookId") /\ login[r].id \in Identities /\ login[r].email \in Emails
  BY DEF FindByFacebookId, IInv, LoginsOK, LoginOK, At
<1>4. login' = [login EXCEPT ![r] = p]
      /\ UNCHANGED <<users, email, sessions, rejected, changes, faults>>
  BY DEF FindByFacebookId, IInv, TypeOK
<1>5. p \in Progress
  BY <1>1, <1>2
<1>6. login'[r] = p
  BY <1>4 DEF IInv, TypeOK
<1>7. LoginOK(r)'
  <2>1. p.id \in Identities /\ p.email \in Emails /\ p.pc \in {"byEmail", "link"}
        /\ (p.pc = "link" => p.account \in Accounts /\ Exists(p.account))
    BY <1>1, <1>2, <1>3
  <2> HIDE DEF p
  <2> QED BY <1>4, <1>6, <2>1 DEF LoginOK, At, Exists
<1>8. rejected \subseteq Identities /\ faults \in 0..MaxFaults
  BY DEF IInv, TypeOK
<1> HIDE DEF p
<1> QED BY <1>4, <1>5, <1>7, <1>8, Moving

LEMMA FindByEmailStep ==
  ASSUME IInv, NEW r \in Requests, FindByEmail(r)
  PROVE  IInv'
<1> DEFINE found == WithEmail(login[r].email)
           a == CHOOSE a \in found : TRUE
<1>1. rejected \subseteq Identities /\ faults \in 0..MaxFaults
  BY DEF IInv, TypeOK
<1>2. UNCHANGED <<users, email, sessions, rejected, changes, faults>>
  BY DEF FindByEmail
<1>3. /\ login[r] \in Progress
      /\ login[r].id \in Identities /\ login[r].email \in Emails
  BY DEF FindByEmail, IInv, TypeOK, LoginsOK, LoginOK, At
<1>4. CASE found = {} /\ login' = [login EXCEPT ![r].pc = "create"]
  <2> DEFINE p == [login[r] EXCEPT !.pc = "create"]
  <2>1. login' = [login EXCEPT ![r] = p]
    BY <1>4 DEF IInv, TypeOK
  <2>2. LoginOK(r)'
    BY <1>2, <1>3, <2>1 DEF IInv, TypeOK, LoginOK, At
  <2>3. p \in Progress
    BY <1>3
  <2> HIDE DEF p
  <2> QED BY <1>1, <1>2, <2>1, <2>2, <2>3, Moving
<1>5. CASE Answer(r)
  BY <1>1, <1>2, <1>5, Answered
<1>6. CASE found # {} /\ login' = [login EXCEPT ![r].pc = "link", ![r].account = a]
  <2> DEFINE p == [login[r] EXCEPT !.pc = "link", !.account = a]
  <2>1. a \in Accounts /\ Exists(a)
    BY <1>6 DEF WithEmail
  <2>2. login' = [login EXCEPT ![r] = p]
    BY <1>6 DEF IInv, TypeOK
  <2>3. p.pc = "link" /\ p.account = a /\ p.id = login[r].id /\ p.email = login[r].email
    BY <1>3
  <2>4. p \in Progress
    BY <1>3, <2>1
  <2>5. login'[r] = p
    BY <2>2 DEF IInv, TypeOK
  <2> HIDE DEF p
  <2>6. LoginOK(r)'
    BY <1>2, <1>3, <2>1, <2>3, <2>5 DEF LoginOK, At, Exists
  <2> QED BY <1>1, <1>2, <2>2, <2>4, <2>6, Moving
<1> QED BY <1>4, <1>5, <1>6 DEF FindByEmail

LEMMA RefuseStep ==
  ASSUME IInv, NEW r \in Requests, ~At(r, "idle"), Refuse(r)
  PROVE  IInv' /\ LinksKept
<1>1. rejected' \subseteq Identities /\ faults' \in 0..MaxFaults
  BY DEF Refuse, IInv, TypeOK, LoginsOK, LoginOK
<1> QED BY <1>1, Answered DEF Refuse, LinksKept

LEMMA UnauthorizedStep ==
  ASSUME IInv, NEW r \in Requests, Unauthorized(r)
  PROVE  IInv' /\ LinksKept
<1>1. rejected' \subseteq Identities /\ faults' \in 0..MaxFaults
  BY DEF Unauthorized, IInv, TypeOK
<1> QED BY <1>1, Answered DEF Unauthorized, LinksKept

LEMMA LinkStep ==
  ASSUME IInv, NEW r \in Requests, Link(r)
  PROVE  IInv' /\ LinksKept
<1> DEFINE i == login[r].id
           a == login[r].account
           row == [users[a] EXCEPT !.fb = i]
<1>1. ~At(r, "idle") /\ i \in Identities /\ a \in Accounts /\ Exists(a)
  BY DEF Link, IInv, LoginsOK, LoginOK, At
<1>2. CASE Bindable(a, i) /\ ~Taken(i, a) /\ Bind(r, a, row)
  <2>1. users[a] \in User
    BY <1>1 DEF IInv, TypeOK, Exists
  <2>2. row \in User /\ row.fb = i
    BY <1>1, <2>1 DEF User
  <2>3. WithFacebookId(i) \subseteq {a}
    BY <1>2 DEF Taken
  <2> HIDE DEF row
  <2> QED BY <1>1, <1>2, <2>2, <2>3, Binding
<1>3. CASE Refuse(r)
  BY <1>1, <1>3, RefuseStep
<1>4. CASE Unauthorized(r)
  BY <1>4, UnauthorizedStep
<1> QED BY <1>2, <1>3, <1>4 DEF Link

LEMMA CreateStep ==
  ASSUME IInv, NEW r \in Requests, Create(r)
  PROVE  IInv' /\ LinksKept
<1> DEFINE i == login[r].id
           e == login[r].email
<1>1. ~At(r, "idle") /\ i \in Identities /\ e \in Emails
  BY DEF Create, IInv, LoginsOK, LoginOK, At
<1>2. CASE /\ WithEmail(e) = {} /\ WithFacebookId(i) = {}
           /\ \E a \in Accounts : ~Exists(a) /\ Bind(r, a, [email |-> e, fb |-> i])
  <2>1. PICK a \in Accounts : ~Exists(a) /\ Bind(r, a, [email |-> e, fb |-> i])
    BY <1>2
  <2>2. [email |-> e, fb |-> i] \in User /\ [email |-> e, fb |-> i].fb = i
    BY <1>1 DEF User
  <2> QED BY <1>1, <1>2, <2>1, <2>2, Binding
<1>3. ASSUME NEW a \in WithEmail(e), Bindable(a, i), ~Taken(i, a),
             Bind(r, a, [users[a] EXCEPT !.fb = i])
      PROVE  IInv' /\ LinksKept
  <2> DEFINE row == [users[a] EXCEPT !.fb = i]
  <2>1. a \in Accounts /\ Exists(a)
    BY DEF WithEmail
  <2>2. users[a] \in User
    BY <2>1 DEF IInv, TypeOK, Exists
  <2>3. row \in User /\ row.fb = i
    BY <1>1, <2>2 DEF User
  <2>4. WithFacebookId(i) \subseteq {a}
    BY <1>3 DEF Taken
  <2> HIDE DEF row
  <2> QED BY <1>1, <1>3, <2>1, <2>3, <2>4, Binding DEF row
<1>4. CASE Refuse(r)
  BY <1>1, <1>4, RefuseStep
<1>5. CASE Unauthorized(r)
  BY <1>5, UnauthorizedStep
<1> QED BY <1>2, <1>3, <1>4, <1>5 DEF Create

\* The session is issued for the account whose link LoginOK remembers.
LEMMA IssueStep ==
  ASSUME IInv, NEW r \in Requests, Issue(r)
  PROVE  IInv'
<1> DEFINE i == login[r].id
           a == login[r].account
<1>1. i \in Identities /\ a \in Accounts /\ Exists(a) /\ users[a].fb = i
  BY DEF Issue, IInv, LoginsOK, LoginOK, At
<1>2. /\ sessions' = sessions \union {<<i, a>>}
      /\ login' = [login EXCEPT ![r] = IdleLogin]
      /\ UNCHANGED <<users, email, rejected, changes, faults>>
  BY DEF Issue, Answer
<1>3. TypeOK'
  BY <1>1, <1>2 DEF IInv, TypeOK, IdleLogin
<1>4. LoginsOK'
  BY <1>2 DEF IInv, TypeOK, LoginsOK, LoginOK, At, Exists, IdleLogin
<1>5. LinkedOnce'
  BY <1>2 DEF IInv, LinkedOnce, Exists
<1>6. SessionsMatchIdentity'
  <2> SUFFICES ASSUME NEW s \in sessions' PROVE (Exists(s[2]) /\ users[s[2]].fb = s[1])'
    BY DEF SessionsMatchIdentity
  <2>1. CASE s \in sessions
    BY <1>2, <2>1 DEF IInv, SessionsMatchIdentity, Exists
  <2>2. CASE s = <<i, a>>
    BY <1>1, <1>2, <2>2 DEF Exists
  <2> QED BY <1>2, <2>1, <2>2
<1> QED BY <1>3, <1>4, <1>5, <1>6 DEF IInv

LEMMA AbortStep ==
  ASSUME IInv, NEW r \in Requests, Abort(r)
  PROVE  IInv'
<1>1. rejected' \subseteq Identities /\ faults' \in 0..MaxFaults
  BY BoundsAssumption DEF Abort, IInv, TypeOK
<1> QED BY <1>1, Answered DEF Abort

----------------------------------------------------------------------------
LEMMA NextIInv == IInv /\ [Next]_vars => IInv' /\ LinksKept
<1> SUFFICES ASSUME IInv, [Next]_vars PROVE IInv' /\ LinksKept
  OBVIOUS
<1>1. CASE \E i \in Identities, e \in Emails : ChangeEmail(i, e)
  BY <1>1, ChangeEmailStep DEF ChangeEmail, LinksKept
<1>2. ASSUME NEW r \in Requests,
             \/ \E i \in Identities : LoadUser(r, i)
             \/ FindByFacebookId(r) \/ FindByEmail(r)
             \/ Link(r) \/ Create(r) \/ Issue(r) \/ Abort(r)
      PROVE  IInv' /\ LinksKept
  <2>1. CASE \E i \in Identities : LoadUser(r, i)
    BY <2>1, LoadUserStep DEF LoadUser, LinksKept
  <2>2. CASE FindByFacebookId(r)
    BY <2>2, FindByFacebookIdStep DEF FindByFacebookId, LinksKept
  <2>3. CASE FindByEmail(r)
    BY <2>3, FindByEmailStep DEF FindByEmail, LinksKept
  <2>4. CASE Link(r)
    BY <2>4, LinkStep
  <2>5. CASE Create(r)
    BY <2>5, CreateStep
  <2>6. CASE Issue(r)
    BY <2>6, IssueStep DEF Issue, LinksKept
  <2>7. CASE Abort(r)
    BY <2>7, AbortStep DEF Abort, LinksKept
  <2> QED BY <1>2, <2>1, <2>2, <2>3, <2>4, <2>5, <2>6, <2>7
<1>3. CASE UNCHANGED vars
  BY <1>3 DEF vars, IInv, TypeOK, LinkedOnce, LoginsOK, LoginOK, At, Exists,
              SessionsMatchIdentity, LinksKept
<1> QED BY <1>1, <1>2, <1>3 DEF Next

\* The invariant holds in every reachable state.
THEOREM Invariant == Spec => []IInv
<1> QED BY InitIInv, NextIInv, PTL DEF Spec

\* Every session belongs to the account of the identity that logged in
\* (SessionsMatchIdentity), however many logins run at once.
THEOREM SessionsMatch == Spec => []SessionsMatchIdentity
<1>1. IInv => SessionsMatchIdentity
  BY DEF IInv
<1> QED BY <1>1, Invariant, PTL

\* An identity has one account (OneAccountPerIdentity), though its email may
\* change any number of times.
THEOREM OneAccount == Spec => []OneAccountPerIdentity
<1>1. IInv => OneAccountPerIdentity
  <2> SUFFICES ASSUME IInv, NEW s \in sessions, NEW t \in sessions, s[1] = t[1]
               PROVE  s[2] = t[2]
    BY DEF OneAccountPerIdentity
  <2>1. s[1] \in Identities /\ s[2] \in Accounts /\ t[2] \in Accounts
    BY DEF IInv, TypeOK
  <2>2. /\ Exists(s[2]) /\ users[s[2]].fb = s[1]
        /\ Exists(t[2]) /\ users[t[2]].fb = s[1]
    BY DEF IInv, SessionsMatchIdentity
  <2> QED BY <2>1, <2>2, NoneAssumption DEF IInv, LinkedOnce
<1> QED BY <1>1, Invariant, PTL

\* No step links an account to another identity than the one it is linked to
\* (NeverRebound).
THEOREM Unrebindable == Spec => NeverRebound
<1>1. IInv /\ [Next]_vars => [LinksKept]_vars
  BY NextIInv
<1>2. Spec => [][LinksKept]_vars
  BY <1>1, Invariant, PTL DEF Spec
<1> QED BY <1>2 DEF LinksKept, NeverRebound

\* Type correctness of the accounts and the logins.
THEOREM TypeCorrect == Spec => []TypeOK
<1>1. IInv => TypeOK
  BY DEF IInv
<1> QED BY <1>1, Invariant, PTL
=================================================================================
