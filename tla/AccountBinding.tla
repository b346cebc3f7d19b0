---------------------------- MODULE AccountBinding ----------------------------
(****************************************************************************)
(* Login with Facebook: finding the local account by Facebook id and then   *)
(* by email, linking or creating it, and issuing the session.  Three        *)
(* statements and no transaction, so logins interleave between any two.     *)
(*                                                                          *)
(* An identity is a Facebook user id; its email lives at Facebook and may   *)
(* change there.  Names are left out.  What Facebook's three answers mean   *)
(* is one step: either the identity with a non-empty email, or no login.    *)
(****************************************************************************)
EXTENDS Naturals, FiniteSets

CONSTANTS
    Identities,  \* Facebook user ids
    Emails,      \* normalised addresses
    Accounts,    \* ids of the users table
    Requests,    \* logins being served
    None,
    MaxChanges,  \* bound: changes of an email at Facebook
    MaxFaults    \* bound: database errors and crashes

ASSUME NoneAssumption ==
    None \notin Identities /\ None \notin Emails /\ None \notin Accounts

ASSUME BoundsAssumption == MaxChanges \in Nat /\ MaxFaults \in Nat

VARIABLES
    users,     \* the table: email and facebook_id of each account; None where no row
    email,     \* external: the email each identity has at Facebook
    login,     \* the requests in progress
    sessions,  \* history: <<identity, account>> of the refresh tokens issued
    rejected,  \* history: identities whose login failed on a UNIQUE constraint
    changes, faults

vars == <<users, email, login, sessions, rejected, changes, faults>>

User == [email : Emails, fb : Identities \union {None}]

ASSUME NoUserAssumption == None \notin User

IdleLogin == [pc |-> "idle", id |-> None, email |-> None, account |-> None]

\* how far a login has come
Progress == [pc : {"idle", "byFacebookId", "byEmail", "link", "create", "issue"},
             id : Identities \union {None}, email : Emails \union {None},
             account : Accounts \union {None}]

TypeOK ==
    /\ users \in [Accounts -> User \union {None}]
    /\ email \in [Identities -> Emails]
    /\ login \in [Requests -> Progress]
    /\ sessions \subseteq Identities \X Accounts
    /\ rejected \subseteq Identities
    /\ changes \in Nat /\ faults \in 0..MaxFaults

Exists(a) == users[a] # None

\* the accounts there are have distinct emails and are not linked yet
Init ==
    /\ users \in [Accounts -> [email : Emails, fb : {None}] \union {None}]
    /\ \A a, b \in Accounts : Exists(a) /\ Exists(b) /\ users[a].email = users[b].email => a = b
    /\ email \in [Identities -> Emails]
    /\ login = [r \in Requests |-> IdleLogin]
    /\ sessions = {}
    /\ rejected = {}
    /\ changes = 0
    /\ faults = 0

----------------------------------------------------------------------------
At(r, step) == login[r].pc = step

Answer(r) == login' = [login EXCEPT ![r] = IdleLogin]

WithFacebookId(i) == {a \in Accounts : Exists(a) /\ users[a].fb = i}
WithEmail(e) == {a \in Accounts : Exists(a) /\ users[a].email = e}

\* Mutant: the compare of the compare-and-set is lost.
BindableAlways(a, i) == TRUE

\* facebook_id IS NULL OR facebook_id = $1
Bindable(a, i) == users[a].fb \in {None, i}

\* Mutant: no unique index on facebook_id.
NeverTaken(i, a) == FALSE

\* UQ_users_facebook_id: the identity is linked to another row already
Taken(i, a) == WithFacebookId(i) \ {a} # {}

ChangeEmail(i, e) ==
    /\ changes < MaxChanges
    /\ email[i] # e
    /\ email' = [email EXCEPT ![i] = e]
    /\ changes' = changes + 1
    /\ UNCHANGED <<users, login, sessions, rejected, faults>>

\* Mutant: an identity without an email goes on.
LoadUserWithoutEmail(r, i) ==
    /\ At(r, "idle")
    /\ login' = [login EXCEPT ![r] = [pc |-> "byFacebookId", id |-> i, email |-> None,
                                      account |-> None]]
    /\ UNCHANGED <<users, email, sessions, rejected, changes, faults>>

\* facebook.loadUser; without an email, or on an invalid token, 401
LoadUser(r, i) ==
    /\ At(r, "idle")
    /\ login' = [login EXCEPT ![r] = [pc |-> "byFacebookId", id |-> i, email |-> email[i],
                                      account |-> None]]
    /\ UNCHANGED <<users, email, sessions, rejected, changes, faults>>

FindByFacebookId(r) ==
    /\ At(r, "byFacebookId")
    /\ login' = [login EXCEPT ![r] =
         IF WithFacebookId(login[r].id) = {}
           THEN [@ EXCEPT !.pc = "byEmail"]
           ELSE [@ EXCEPT !.pc = "link", !.account = CHOOSE a \in WithFacebookId(login[r].id) : TRUE]]
    /\ UNCHANGED <<users, email, sessions, rejected, changes, faults>>

\* an account found by email is linked, unless it is another identity's: 401
FindByEmail(r) ==
    /\ At(r, "byEmail")
    /\ LET found == WithEmail(login[r].email)
           a == CHOOSE a \in found : TRUE
       IN  IF found = {} THEN login' = [login EXCEPT ![r].pc = "create"]
           ELSE IF ~Bindable(a, login[r].id) THEN Answer(r)
           ELSE login' = [login EXCEPT ![r].pc = "link", ![r].account = a]
    /\ UNCHANGED <<users, email, sessions, rejected, changes, faults>>

\* the constraint refuses the row: a 500
Refuse(r) ==
    /\ rejected' = rejected \union {login[r].id}
    /\ Answer(r)
    /\ UNCHANGED <<users, email, sessions, changes, faults>>

Bind(r, a, row) ==
    /\ users' = [users EXCEPT ![a] = row]
    /\ login' = [login EXCEPT ![r].pc = "issue", ![r].account = a]
    /\ UNCHANGED <<email, sessions, rejected, changes, faults>>

\* affected = 0, or no row returned: bound to another identity, 401
Unauthorized(r) ==
    /\ Answer(r)
    /\ UNCHANGED <<users, email, sessions, rejected, changes, faults>>

\* Mutant: affected is not looked at.
LinkUnchecked(r) ==
    LET i == login[r].id
        a == login[r].account
    IN  /\ At(r, "link")
        /\ \/ Bindable(a, i) /\ ~Taken(i, a) /\ Bind(r, a, [users[a] EXCEPT !.fb = i])
           \/ Bindable(a, i) /\ Taken(i, a) /\ Refuse(r)
           \/ ~Bindable(a, i) /\ Bind(r, a, users[a])

\* UPDATE users SET facebook_id = $i WHERE id = $a AND (facebook_id IS NULL OR facebook_id = $i)
Link(r) ==
    LET i == login[r].id
        a == login[r].account
    IN  /\ At(r, "link")
        /\ \/ Bindable(a, i) /\ ~Taken(i, a) /\ Bind(r, a, [users[a] EXCEPT !.fb = i])
           \/ Bindable(a, i) /\ Taken(i, a) /\ Refuse(r)
           \/ ~Bindable(a, i) /\ Unauthorized(r)

\* INSERT ... ON CONFLICT (email) DO UPDATE SET facebook_id = $i
\*   WHERE facebook_id IS NULL OR facebook_id = $i
\* (Accounts bounds the rows there can be: with none left nothing is inserted)
Create(r) ==
    LET i == login[r].id
        e == login[r].email
    IN  /\ At(r, "create")
        /\ \/ /\ WithEmail(e) = {} /\ WithFacebookId(i) = {}
              /\ \E a \in Accounts : ~Exists(a) /\ Bind(r, a, [email |-> e, fb |-> i])
           \/ WithEmail(e) = {} /\ WithFacebookId(i) # {} /\ Refuse(r)
           \/ \E a \in WithEmail(e) :
                \/ Bindable(a, i) /\ ~Taken(i, a) /\ Bind(r, a, [users[a] EXCEPT !.fb = i])
                \/ Bindable(a, i) /\ Taken(i, a) /\ Refuse(r)
                \/ ~Bindable(a, i) /\ Unauthorized(r)

\* generate the access token and save the refresh token: 200
Issue(r) ==
    /\ At(r, "issue")
    /\ sessions' = sessions \union {<<login[r].id, login[r].account>>}
    /\ Answer(r)
    /\ UNCHANGED <<users, email, rejected, changes, faults>>

\* a database error (500) or a crash: what was bound stays bound
Abort(r) ==
    /\ ~At(r, "idle")
    /\ faults < MaxFaults
    /\ faults' = faults + 1
    /\ Answer(r)
    /\ UNCHANGED <<users, email, sessions, rejected, changes>>

Next ==
    \/ \E i \in Identities, e \in Emails : ChangeEmail(i, e)
    \/ \E r \in Requests :
         \/ \E i \in Identities : LoadUser(r, i)
         \/ FindByFacebookId(r) \/ FindByEmail(r)
         \/ Link(r) \/ Create(r) \/ Issue(r) \/ Abort(r)

Spec == Init /\ [][Next]_vars

----------------------------------------------------------------------------
(* Properties *)

\* An account linked to an identity is never linked to another one, also when
\* two identities with one email log in at once and both pass the check of the
\* use case.
NeverRebound ==
    [][\A a \in Accounts : Exists(a) /\ users[a].fb # None => users'[a].fb = users[a].fb]_vars

\* A session is issued for the account of the identity that logged in, though
\* the account was found, checked and linked by statements that others run
\* between.
SessionsMatchIdentity ==
    \A s \in sessions : Exists(s[2]) /\ users[s[2]].fb = s[1]

\* A person keeps one account: an identity that changes its email at Facebook
\* and logs in again, or several times at once, gets the same account.
OneAccountPerIdentity ==
    \A s, t \in sessions : s[1] = t[1] => s[2] = t[2]

\* What ADR-0014 says of first logins: concurrent ones converge on one row
\* instead of failing on the constraint.
FirstLoginsConverge == rejected = {}
===============================================================================
