---------------------------- MODULE RefreshTokens ----------------------------
(****************************************************************************)
(* Refresh-token sessions: issuing at login, rotation with reuse detection, *)
(* logout, and the purge of expired rows, as they interleave on the         *)
(* refresh_tokens table of PostgreSQL at READ COMMITTED.                    *)
(*                                                                          *)
(* A token, its SHA-256 hash and the row that holds the hash are one value  *)
(* of Tokens: the hash is injective and uuids never repeat.  A statement    *)
(* that changes rows takes a snapshot, then visits the rows it found one by *)
(* one, waiting for the row lock of any other transaction and re-checking   *)
(* its WHERE clause on the version it finds; its effects stay in "dirty"    *)
(* and become visible when the transaction commits.                         *)
(****************************************************************************)
EXTENDS Integers, FiniteSets

CONSTANTS
    Tokens,     \* token values, one row of the table each
    Families,   \* family ids; a login opens one
    Requests,   \* refresh and logout requests being served
    Purgers,    \* purge jobs: the timer of each instance, the npm script
    Null,
    Lifetime,   \* RefreshToken.expirationInMs
    Grace,      \* RefreshToken.reuseGraceInMs
    MaxTime,    \* bound: the clock stops there
    MaxFaults   \* bound: rollbacks for a server error, a lost connection, a crash

Procs == Requests \union Purgers

Row == [family : Families, expiresAt : Nat, revokedAt : Nat \union {Null}]

ASSUME TimesAssumption ==
    /\ Lifetime \in Nat /\ Grace \in Nat /\ MaxTime \in Nat /\ MaxFaults \in Nat

ASSUME NullAssumption ==
    Null \notin Nat /\ Null \notin Tokens /\ Null \notin Families /\ Null \notin Row

ASSUME ProcsAssumption == Requests \intersect Purgers = {}

VARIABLES
    rows,    \* the committed table: a row, or Null
    issued,  \* tokens whose row was ever committed (uuids do not repeat)
    known,   \* tokens a client received; only these are presented
    fate,    \* of a family: "unused", "active", "expired" or "revoked"
    proc,    \* the requests and jobs in progress
    now,     \* Date.now()
    faults

vars == <<rows, issued, known, fate, proc, now, faults>>

Steps == {"idle", "decide", "rotate", "save", "commit", "scan", "visit"}

Idle == [pc |-> "idle", tok |-> Null, family |-> Null, seen |-> Null, stamp |-> Null,
         targets |-> {}, dirty |-> {}, newTok |-> Null, newRow |-> Null]

\* how far a request or a job has come
Progress == [pc : Steps, tok : Tokens \union {Null}, family : Families \union {Null},
             seen : Row \union {Null}, stamp : Nat \union {Null},
             targets : SUBSET Tokens, dirty : SUBSET Tokens,
             newTok : Tokens \union {Null}, newRow : Row \union {Null}]

TypeOK ==
    /\ rows \in [Tokens -> Row \union {Null}]
    /\ issued \subseteq Tokens
    /\ known \subseteq issued
    /\ fate \in [Families -> {"unused", "active", "expired", "revoked"}]
    /\ proc \in [Procs -> Progress]
    /\ now \in 0..MaxTime
    /\ faults \in 0..MaxFaults

Init ==
    /\ rows = [t \in Tokens |-> Null]
    /\ issued = {}
    /\ known = {}
    /\ fate = [f \in Families |-> "unused"]
    /\ proc = [p \in Procs |-> Idle]
    /\ now = 0
    /\ faults = 0

----------------------------------------------------------------------------
\* revoked_at IS NULL
Live(t) == rows[t] # Null /\ rows[t].revokedAt = Null

LiveIn(f) == {t \in Tokens : Live(t) /\ rows[t].family = f}

\* a row changed by an open transaction is locked until that transaction ends
LockedByOther(p, t) == \E q \in Procs \ {p} : t \in proc[q].dirty

\* uuid({ key: 'rt' }): neither committed nor about to be
Fresh(t) == t \notin issued /\ \A q \in Procs : proc[q].newTok # t

\* Mutant: the expiry is forgotten.
NewRowWithoutExpiry(f) == [family |-> f, expiresAt |-> Null, revokedAt |-> Null]

NewRow(f) == [family |-> f, expiresAt |-> now + Lifetime, revokedAt |-> Null]

At(p, step) == proc[p].pc = step

Finish(p) == proc' = [proc EXCEPT ![p] = Idle]

\* the response may be lost on its way: the client then never learns t
Deliver(t) == known' \in {known, known \union {t}}

Tick == now < MaxTime /\ now' = now + 1
        /\ UNCHANGED <<rows, issued, known, fate, proc, faults>>

\* The last statement of facebookAuthentication, in autocommit: a fresh token
\* in a fresh family.
Login(t, f) ==
    /\ Fresh(t)
    /\ fate[f] = "unused"
    /\ rows' = [rows EXCEPT ![t] = NewRow(f)]
    /\ issued' = issued \union {t}
    /\ fate' = [fate EXCEPT ![f] = "active"]
    /\ Deliver(t)
    /\ UNCHANGED <<proc, now, faults>>

----------------------------------------------------------------------------
(* POST /api/login/refresh, one transaction *)

\* loadByHash; an unknown (purged) token is a 401 that changes nothing
RefreshLoad(p, t) ==
    /\ At(p, "idle")
    /\ rows[t] # Null
    /\ proc' = [proc EXCEPT ![p].pc = "decide", ![p].tok = t,
                            ![p].family = rows[t].family, ![p].seen = rows[t]]
    /\ UNCHANGED <<rows, issued, known, fate, now, faults>>

\* a token spent for longer than the grace window: revoke its family
ReuseDetected(p) ==
    /\ At(p, "decide")
    /\ proc[p].seen.revokedAt # Null
    /\ now - proc[p].seen.revokedAt > Grace
    /\ proc' = [proc EXCEPT ![p].pc = "scan", ![p].seen = Null, ![p].stamp = now]
    /\ UNCHANGED <<rows, issued, known, fate, now, faults>>

\* 401: a replay within the grace window, or an expired token
Reject(p) ==
    /\ At(p, "decide")
    /\ IF proc[p].seen.revokedAt # Null
         THEN now - proc[p].seen.revokedAt <= Grace
         ELSE proc[p].seen.expiresAt < now
    /\ Finish(p)
    /\ UNCHANGED <<rows, issued, known, fate, now, faults>>

\* issue the conditional UPDATE, stamped with the time of the call
BeginRotation(p) ==
    /\ At(p, "decide")
    /\ proc[p].seen.revokedAt = Null
    /\ proc[p].seen.expiresAt >= now
    /\ proc' = [proc EXCEPT ![p].pc = "rotate", ![p].seen = Null, ![p].stamp = now]
    /\ UNCHANGED <<rows, issued, known, fate, now, faults>>

\* Mutant: UPDATE ... WHERE id = $1, without revoked_at IS NULL.
RotateWonUnconditionally(p) ==
    /\ At(p, "rotate")
    /\ ~LockedByOther(p, proc[p].tok)
    /\ rows[proc[p].tok] # Null
    /\ proc' = [proc EXCEPT ![p].pc = "save", ![p].dirty = {proc[p].tok}]
    /\ UNCHANGED <<rows, issued, known, fate, now, faults>>

\* revokeRefreshToken, affected = 1
RotateWon(p) ==
    /\ At(p, "rotate")
    /\ ~LockedByOther(p, proc[p].tok)
    /\ Live(proc[p].tok)
    /\ proc' = [proc EXCEPT ![p].pc = "save", ![p].dirty = {proc[p].tok}]
    /\ UNCHANGED <<rows, issued, known, fate, now, faults>>

\* Mutant: a lost race is not an answer, the UPDATE is waited for.
RotateLostWaits(p) ==
    /\ At(p, "rotate")
    /\ rows[proc[p].tok] = Null
    /\ Finish(p)
    /\ UNCHANGED <<rows, issued, known, fate, now, faults>>

\* affected = 0: revoked or purged since it was loaded, 401
RotateLost(p) ==
    /\ At(p, "rotate")
    /\ ~LockedByOther(p, proc[p].tok)
    /\ ~Live(proc[p].tok)
    /\ Finish(p)
    /\ UNCHANGED <<rows, issued, known, fate, now, faults>>

\* saveRefreshToken, same family
Save(p, t) ==
    /\ At(p, "save")
    /\ Fresh(t)
    /\ proc' = [proc EXCEPT ![p].pc = "commit", ![p].newTok = t,
                            ![p].newRow = NewRow(proc[p].family)]
    /\ UNCHANGED <<rows, issued, known, fate, now, faults>>

\* Mutant: the successor is inserted, the token itself is not revoked.
NothingRevoked(p) == rows

Revoked(p) == [t \in Tokens |-> IF t \in proc[p].dirty
                                  THEN [rows[t] EXCEPT !.revokedAt = proc[p].stamp]
                                  ELSE rows[t]]

\* 200.  A COMMIT that took effect but was reported as an error is the case
\* in which the client does not receive the token.
CommitRotation(p) ==
    /\ At(p, "commit")
    /\ rows' = [Revoked(p) EXCEPT ![proc[p].newTok] = proc[p].newRow]
    /\ issued' = issued \union {proc[p].newTok}
    /\ Deliver(proc[p].newTok)
    /\ Finish(p)
    /\ UNCHANGED <<fate, now, faults>>

----------------------------------------------------------------------------
(* POST /api/logout, in autocommit, and the statements over several rows *)

LogoutLoad(p, t) ==
    /\ At(p, "idle")
    /\ rows[t] # Null
    /\ proc' = [proc EXCEPT ![p].pc = "scan", ![p].tok = t,
                            ![p].family = rows[t].family, ![p].stamp = now]
    /\ UNCHANGED <<rows, issued, known, fate, now, faults>>

\* Mutant: the presented token is spared, only the others are revoked.
ScanOtherTokens(p) ==
    /\ At(p, "scan")
    /\ proc' = [proc EXCEPT ![p].pc = "visit",
                            ![p].targets = LiveIn(proc[p].family) \ {proc[p].tok}]
    /\ UNCHANGED <<rows, issued, known, fate, now, faults>>

\* Mutant: the family condition is lost.
ScanAllFamilies(p) ==
    /\ At(p, "scan")
    /\ proc' = [proc EXCEPT ![p].pc = "visit", ![p].targets = {t \in Tokens : Live(t)}]
    /\ UNCHANGED <<rows, issued, known, fate, now, faults>>

\* the snapshot of UPDATE ... WHERE family_id = $1 AND revoked_at IS NULL
ScanFamily(p) ==
    /\ At(p, "scan")
    /\ proc' = [proc EXCEPT ![p].pc = "visit",
                            ![p].targets = LiveIn(proc[p].family)]
    /\ UNCHANGED <<rows, issued, known, fate, now, faults>>

\* lock the row and re-check revoked_at IS NULL on its latest version
RevokeRow(p, t) ==
    /\ At(p, "visit")
    /\ t \in proc[p].targets
    /\ ~LockedByOther(p, t)
    /\ proc' = [proc EXCEPT ![p].targets = @ \ {t},
                            ![p].dirty = IF Live(t) THEN @ \union {t} ELSE @]
    /\ UNCHANGED <<rows, issued, known, fate, now, faults>>

\* the 204 of a logout, or the 401 of a detected reuse: both commit
CommitRevocation(p) ==
    /\ At(p, "visit")
    /\ proc[p].targets = {}
    /\ rows' = Revoked(p)
    /\ fate' = [fate EXCEPT ![proc[p].family] = "revoked"]
    /\ Finish(p)
    /\ UNCHANGED <<issued, known, now, faults>>

----------------------------------------------------------------------------
(* The purge of expired rows: DELETE ... WHERE expires_at < $1 *)

PurgeStart(w) ==
    /\ At(w, "idle")
    /\ proc' = [proc EXCEPT ![w].pc = "scan", ![w].stamp = now]
    /\ UNCHANGED <<rows, issued, known, fate, now, faults>>

\* Mutant: only revoked rows are purged.
RevokedBefore(w) ==
    {t \in Tokens : /\ rows[t] # Null /\ rows[t].revokedAt # Null
                    /\ rows[t].expiresAt < proc[w].stamp}

ExpiredBefore(w) == {t \in Tokens : rows[t] # Null /\ rows[t].expiresAt < proc[w].stamp}

ScanExpired(w) ==
    /\ At(w, "scan")
    /\ proc' = [proc EXCEPT ![w].pc = "visit", ![w].targets = ExpiredBefore(w)]
    /\ UNCHANGED <<rows, issued, known, fate, now, faults>>

DeleteRow(w, t) ==
    /\ At(w, "visit")
    /\ t \in proc[w].targets
    /\ ~LockedByOther(w, t)
    /\ proc' = [proc EXCEPT ![w].targets = @ \ {t},
                            ![w].dirty = IF t \in ExpiredBefore(w) THEN @ \union {t} ELSE @]
    /\ UNCHANGED <<rows, issued, known, fate, now, faults>>

\* the session of a family ends when its live row goes
CommitPurge(w) ==
    /\ At(w, "visit")
    /\ proc[w].targets = {}
    /\ rows' = [t \in Tokens |-> IF t \in proc[w].dirty THEN Null ELSE rows[t]]
    /\ fate' = [f \in Families |->
                 IF fate[f] = "active" /\ LiveIn(f) \intersect proc[w].dirty # {}
                   THEN "expired" ELSE fate[f]]
    /\ Finish(w)
    /\ UNCHANGED <<issued, known, now, faults>>

----------------------------------------------------------------------------
(* Rollbacks *)

\* Mutant: no transaction around the rotation, a 5xx keeps the revocation.
AbortKeepsRevocation(p) ==
    /\ ~At(p, "idle")
    /\ faults < MaxFaults
    /\ faults' = faults + 1
    /\ rows' = IF p \in Requests THEN Revoked(p) ELSE rows
    /\ Finish(p)
    /\ UNCHANGED <<issued, known, fate, now>>

\* A 5xx, a failing statement, a lost connection or a crash of the instance:
\* PostgreSQL undoes the open transaction and releases its locks.
Abort(p) ==
    /\ ~At(p, "idle")
    /\ faults < MaxFaults
    /\ faults' = faults + 1
    /\ Finish(p)
    /\ UNCHANGED <<rows, issued, known, fate, now>>

\* Bound: uuids never run out, Tokens does; the rotation that finds none left
\* is rolled back, as if its INSERT had failed.
TokensExhausted(p) ==
    /\ At(p, "save")
    /\ \A t \in Tokens : ~Fresh(t)
    /\ Finish(p)
    /\ UNCHANGED <<rows, issued, known, fate, now, faults>>

\* the rows a process needs next
Wants(p) == IF At(p, "rotate") THEN {proc[p].tok} ELSE proc[p].targets

Blocked(p) == Wants(p) # {} /\ \A t \in Wants(p) : LockedByOther(p, t)

Blocks(q, p) == q # p /\ proc[q].dirty \intersect Wants(p) # {}

\* processes that wait only for each other, each of them waited for
Deadlocked(D) ==
    \A p \in D : /\ Blocked(p)
                 /\ \A q \in Procs : Blocks(q, p) => q \in D
                 /\ \E q \in D : Blocks(p, q)

InDeadlock(p) == \E D \in SUBSET Procs : p \in D /\ Deadlocked(D)

\* PostgreSQL's deadlock detector cancels one of them
DeadlockVictim(p) ==
    /\ InDeadlock(p)
    /\ Finish(p)
    /\ UNCHANGED <<rows, issued, known, fate, now, faults>>

----------------------------------------------------------------------------
\* the steps of a request once it has started
RequestStep(p) ==
    \/ ReuseDetected(p) \/ Reject(p) \/ BeginRotation(p)
    \/ RotateWon(p) \/ RotateLost(p)
    \/ \E t \in Tokens : Save(p, t)
    \/ TokensExhausted(p)
    \/ CommitRotation(p)
    \/ ScanFamily(p)
    \/ \E t \in Tokens : RevokeRow(p, t)
    \/ CommitRevocation(p)

PurgeStep(w) ==
    \/ ScanExpired(w)
    \/ \E t \in Tokens : DeleteRow(w, t)
    \/ CommitPurge(w)

Next ==
    \/ Tick
    \/ \E t \in Tokens, f \in Families : Login(t, f)
    \/ \E p \in Requests, t \in known : RefreshLoad(p, t) \/ LogoutLoad(p, t)
    \/ \E p \in Requests : RequestStep(p)
    \/ \E w \in Purgers : PurgeStart(w) \/ PurgeStep(w)
    \/ \E p \in Procs : Abort(p) \/ DeadlockVictim(p)

Spec == Init /\ [][Next]_vars

\* Node and PostgreSQL run what has started; those that wait for a row lock get
\* it in their turn, so one that is released again and again is got in the end
\* (SF); the deadlock detector fires; scheduleEvery re-arms the purge timer
\* whatever the last run did.
Fairness ==
    /\ \A p \in Requests : SF_vars(RequestStep(p))
    /\ \A w \in Purgers : WF_vars(PurgeStart(w)) /\ SF_vars(PurgeStep(w))
    /\ WF_vars(\E p \in Procs : DeadlockVictim(p))

FairSpec == Spec /\ Fairness

----------------------------------------------------------------------------
(* The session of SessionChain that each family is *)
Chain == INSTANCE SessionChain WITH
    None <- Null,
    current <- [f \in Families |-> IF LiveIn(f) = {} THEN Null
                                   ELSE CHOOSE t \in LiveIn(f) : TRUE],
    opened <- {f \in Families : fate[f] # "unused"},
    used <- issued

----------------------------------------------------------------------------
(* Properties *)

\* However rotations, logouts, purges and rollbacks interleave, a family never
\* has two tokens that can be rotated: the conditional UPDATE and the INSERT
\* of its successor commit together.
OneLiveTokenPerFamily ==
    \A f \in Families : \A t, u \in LiveIn(f) : t = u

\* A session whose family nobody revoked and whose live row the purge did not
\* delete still has its live token: no rollback, lost race or replay within
\* the grace window leaves a user with no token to rotate.
SessionSurvives ==
    \A f \in Families : fate[f] = "active" => LiveIn(f) # {}

\* Refresh and logout requests hold at most the lock of one row, so they are
\* never part of a deadlock and never fail for one; only two purges can be.
RequestsNeverDeadlock == \A p \in Requests : ~InDeadlock(p)

\* The token presented to a logout that answered 204, or replayed in a request
\* that revoked its family, cannot be rotated from then on.
RevocationKillsPresentedToken ==
    [][\A p \in Requests, t \in Tokens :
         (CommitRevocation(p) /\ proc[p].tok = t) => ~Live(t)']_vars

\* What logout.ts:12, README.md:106 and ADR-0010 promise: once a request has
\* revoked a family, no token of the family can be rotated.
RevokedFamilyHasNoLiveToken ==
    \A f \in Families : fate[f] = "revoked" => LiveIn(f) = {}

\* Every interleaving of the requests, the purges and the rollbacks is a
\* session chain: one current token per session, each passed on at most once
\* to a token never seen before, and no token revives an ended session.
ImplementsSessionChain == Chain!Spec

\* Every request gets its answer and every job run ends: nobody waits for a
\* row lock for ever.
RequestsFinish ==
    \A p \in Procs : ~At(p, "idle") ~> At(p, "idle")

\* A row that has expired is deleted in the end, whoever was using it.
ExpiredEventuallyPurged ==
    \A t \in Tokens : (rows[t] # Null /\ rows[t].expiresAt < now) ~> rows[t] = Null
=============================================================================
