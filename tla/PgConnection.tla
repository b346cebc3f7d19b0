----------------------------- MODULE PgConnection -----------------------------
(****************************************************************************)
(* PgConnection and DbTransactionController: transactions that live in the  *)
(* async context of the request that opened them, over a pool of clients.   *)
(*                                                                          *)
(* A request either runs inside a transaction (a wrapped controller, or a   *)
(* repository that opens its own) or issues statements in autocommit.  Only *)
(* writes are modelled, and all of them change one row: the requests of     *)
(* different users contend for less.  A query runner is named by the        *)
(* request that created it.  A status stands for what the work of a         *)
(* transaction came to: the controller's answer, or 200 or 500 for a        *)
(* repository's own transaction that resolves or throws.                    *)
(****************************************************************************)
EXTENDS Naturals, FiniteSets, FiniteSetsExt

CONSTANTS
    Requests,
    None,
    PoolSize,       \* clients of the pg pool
    MaxStatements,  \* bound: statements of a request
    MaxDepth,       \* bound: transaction() calls within each other
    MaxFaults       \* bound: errors of statements, commits and other services

ASSUME BoundsAssumption ==
    /\ PoolSize \in Nat \ {0} /\ MaxStatements \in Nat
    /\ MaxDepth \in Nat \ {0} /\ MaxFaults \in Nat

ASSUME NoneAssumption == None \notin Requests

VARIABLES
    req,      \* the progress of each request, which is served once
    pending,  \* uncommitted writes of the transaction each request opened
    clients,  \* pool clients each request holds
    table,    \* committed writes
    outcome,  \* history: what the transaction of each request came to
    faults

vars == <<req, pending, clients, table, outcome, faults>>

Writes == Requests \X (1..MaxStatements)

Statuses == {200, 401, 500}

New == [pc |-> "new", depth |-> 0, wrote |-> {}, status |-> 0]

Progress == [pc : {"new", "begin", "work", "join", "throw", "commit", "rollback",
                   "plain", "query", "answered"},
             depth : 0..MaxDepth, wrote : SUBSET Writes, status : Statuses \union {0}]

TypeOK ==
    /\ req \in [Requests -> Progress]
    /\ pending \in [Requests -> SUBSET Writes]
    /\ clients \in [Requests -> 0..PoolSize]
    /\ table \subseteq Writes
    /\ outcome \in [Requests -> {"none", "accepted", "failed", "doubtful", "stranded"}]
    /\ faults \in 0..MaxFaults

Init ==
    /\ req = [r \in Requests |-> New]
    /\ pending = [r \in Requests |-> {}]
    /\ clients = [r \in Requests |-> 0]
    /\ table = {}
    /\ outcome = [r \in Requests |-> "none"]
    /\ faults = 0

----------------------------------------------------------------------------
At(r, step) == req[r].pc = step

Goto(r, step) == req' = [req EXCEPT ![r].pc = step]

Fault == faults < MaxFaults /\ faults' = faults + 1

ClientFree == MapThenSumSet(LAMBDA r : clients[r], Requests) < PoolSize

Release(r) == clients' = [clients EXCEPT ![r] = @ - 1]

\* the row is changed by the open transaction of another request
RowLocked(r) == \E q \in Requests \ {r} : pending[q] # {}

\* Mutant: the query runner is kept on the singleton, where requests find each
\* other's.
SharedRunner(r) ==
    IF \E q \in Requests : req[q].depth > 0
      THEN CHOOSE q \in Requests : req[q].depth > 0 ELSE None

\* transactionContext.getStore()
Runner(r) == IF req[r].depth > 0 THEN r ELSE None

NextWrite(r) == <<r, Cardinality(req[r].wrote) + 1>>

CanWrite(r) == Cardinality(req[r].wrote) < MaxStatements /\ ~RowLocked(r)

Start(r) ==
    /\ At(r, "new")
    /\ Goto(r, "begin") \/ Goto(r, "plain")
    /\ UNCHANGED <<pending, clients, table, outcome, faults>>

\* createQueryRunner and startTransaction: waits for a client
Begin(r) ==
    /\ At(r, "begin")
    /\ ClientFree
    /\ clients' = [clients EXCEPT ![r] = @ + 1]
    /\ req' = [req EXCEPT ![r].pc = "work", ![r].depth = 1]
    /\ UNCHANGED <<pending, table, outcome, faults>>

\* startTransaction throws, before the try whose finally releases: no client
\* could be had, or its connection is lost and the driver drops it
BeginFails(r) ==
    /\ At(r, "begin")
    /\ Fault
    /\ Goto(r, "answered")
    /\ UNCHANGED <<pending, clients, table, outcome>>

\* the same, but START TRANSACTION fails on a client that lives on: nothing
\* returns it to the pool, which bounds how often this can happen
BeginStrands(r) ==
    /\ At(r, "begin")
    /\ ClientFree
    /\ clients' = [clients EXCEPT ![r] = @ + 1]
    /\ outcome' = [outcome EXCEPT ![r] = "stranded"]
    /\ Goto(r, "answered")
    /\ UNCHANGED <<pending, table, faults>>

\* transaction() is called in an open transaction
Nest(r) ==
    /\ At(r, "work")
    /\ req[r].depth < MaxDepth
    /\ Goto(r, "join")
    /\ UNCHANGED <<pending, clients, table, outcome, faults>>

\* Mutant: the nested transaction gets a query runner of its own.
JoinWithOwnRunner(r) ==
    /\ At(r, "join")
    /\ ClientFree
    /\ clients' = [clients EXCEPT ![r] = @ + 1]
    /\ req' = [req EXCEPT ![r].pc = "work", ![r].depth = @ + 1]
    /\ UNCHANGED <<pending, table, outcome, faults>>

\* it runs its work on the open transaction, and nothing else
Join(r) ==
    /\ At(r, "join")
    /\ req' = [req EXCEPT ![r].pc = "work", ![r].depth = @ + 1]
    /\ UNCHANGED <<pending, clients, table, outcome, faults>>

\* the joined work resolves
Leave(r) ==
    /\ At(r, "work")
    /\ req[r].depth > 1
    /\ req' = [req EXCEPT ![r].depth = @ - 1]
    /\ UNCHANGED <<pending, clients, table, outcome, faults>>

\* a statement through getRepository: on the runner of the context
Statement(r) ==
    /\ At(r, "work")
    /\ CanWrite(r)
    /\ req' = [req EXCEPT ![r].wrote = @ \union {NextWrite(r)}]
    /\ pending' = [pending EXCEPT ![Runner(r)] = @ \union {NextWrite(r)}]
    /\ UNCHANGED <<clients, table, outcome, faults>>

\* a statement, or another service the use case calls, fails: a 5xx
WorkFails(r) ==
    /\ At(r, "work")
    /\ Fault
    /\ Goto(r, "throw")
    /\ UNCHANGED <<pending, clients, table, outcome>>

\* Mutant: every refusal rolls back.
SettleUndoingRefusals(r, status) ==
    req' = [req EXCEPT ![r].status = status,
                       ![r].pc = IF status >= 400 THEN "rollback" ELSE "commit"]

\* the outermost work has come to a status, and that alone decides
Settle(r, status) ==
    req' = [req EXCEPT ![r].status = status,
                       ![r].pc = IF status >= 500 THEN "rollback" ELSE "commit"]

\* the error passes through joined transactions
Throw(r) ==
    /\ At(r, "throw")
    /\ IF req[r].depth > 1 THEN req' = [req EXCEPT ![r].depth = @ - 1]
                           ELSE Settle(r, 500)
    /\ UNCHANGED <<pending, clients, table, outcome, faults>>

\* the outermost work resolves, with a refusal perhaps (reuse detection)
Resolve(r) ==
    /\ At(r, "work")
    /\ req[r].depth = 1
    /\ \E status \in Statuses \ {500} : Settle(r, status)
    /\ UNCHANGED <<pending, clients, table, outcome, faults>>

\* what was answered is what the client can rely on, unless a COMMIT failed
End(r) ==
    /\ pending' = [pending EXCEPT ![r] = {}]
    /\ req' = [req EXCEPT ![r].pc = "answered", ![r].depth = 0, ![r].status = 0]
    /\ outcome' = [outcome EXCEPT ![r] = IF @ = "doubtful" THEN @
                      ELSE IF req[r].status < 500 THEN "accepted" ELSE "failed"]

Commit(r) ==
    /\ At(r, "commit")
    /\ table' = table \union pending[r]
    /\ End(r)
    /\ Release(r)
    /\ UNCHANGED faults

\* COMMIT is reported as an error: PostgreSQL may have applied it or not
CommitFails(r, applied) ==
    /\ At(r, "commit")
    /\ Fault
    /\ table' = IF applied THEN table \union pending[r] ELSE table
    /\ pending' = [pending EXCEPT ![r] = {}]
    /\ outcome' = [outcome EXCEPT ![r] = "doubtful"]
    /\ Settle(r, 500)
    /\ UNCHANGED clients

\* Mutant: the client is not released after an error.
RollbackKeepingClient(r) ==
    /\ At(r, "rollback")
    /\ End(r)
    /\ UNCHANGED <<clients, table, faults>>

\* rollbackTransaction, then release, even if the rollback fails: PostgreSQL
\* undoes the transaction of a lost connection itself
Rollback(r) ==
    /\ At(r, "rollback")
    /\ End(r)
    /\ Release(r)
    /\ UNCHANGED <<table, faults>>

----------------------------------------------------------------------------
(* Statements outside a transaction *)

\* the pool lends a client for one statement
Acquire(r) ==
    /\ At(r, "plain")
    /\ Cardinality(req[r].wrote) < MaxStatements
    /\ ClientFree
    /\ clients' = [clients EXCEPT ![r] = @ + 1]
    /\ Goto(r, "query")
    /\ UNCHANGED <<pending, table, outcome, faults>>

AutoCommit(r) ==
    /\ At(r, "query")
    /\ CanWrite(r)
    /\ table' = table \union {NextWrite(r)}
    /\ req' = [req EXCEPT ![r].pc = "plain", ![r].wrote = @ \union {NextWrite(r)}]
    /\ Release(r)
    /\ UNCHANGED <<pending, outcome, faults>>

QueryFails(r) ==
    /\ At(r, "query")
    /\ Fault
    /\ Goto(r, "answered")
    /\ Release(r)
    /\ UNCHANGED <<pending, table, outcome>>

Answer(r) ==
    /\ At(r, "plain")
    /\ Goto(r, "answered")
    /\ UNCHANGED <<pending, clients, table, outcome, faults>>

----------------------------------------------------------------------------
\* what a request does on its own account, to its end
Advance(r) ==
    \/ Begin(r) \/ Join(r) \/ Leave(r) \/ Statement(r) \/ Throw(r)
    \/ Resolve(r) \/ Commit(r) \/ Rollback(r)
    \/ Acquire(r) \/ AutoCommit(r) \/ Answer(r)

RequestFault(r) ==
    \/ BeginFails(r) \/ BeginStrands(r) \/ WorkFails(r) \/ QueryFails(r)
    \/ \E applied \in BOOLEAN : CommitFails(r, applied)

Next == \E r \in Requests : Start(r) \/ Nest(r) \/ Advance(r) \/ RequestFault(r)

Spec == Init /\ [][Next]_vars

\* Requests that wait for a client or for the row get it in their turn (SF);
\* the work of a transaction comes to an end, whatever it calls.
Fairness ==
    \A r \in Requests : SF_vars(Advance(r)) /\ SF_vars(Resolve(r))

FairSpec == Spec /\ Fairness

----------------------------------------------------------------------------
(* Properties *)

\* What db-transaction-controller.ts:5 and ADR-0013 say: all the writes of a
\* transaction that ends below 500 are kept, a 401's included, and none of one
\* that ends in a 5xx, though the others' statements run between its own.  A
\* COMMIT of unknown outcome promises neither.
AllOrNothing ==
    \A r \in Requests :
        /\ outcome[r] = "accepted" => req[r].wrote \subseteq table
        /\ outcome[r] = "failed" => req[r].wrote \intersect table = {}

\* A request holds one client at most, never one while it waits for another,
\* and returns it on every path but one: connection.ts:41 starts the
\* transaction outside the try, so a START TRANSACTION that fails on a client
\* never reaches the release of :52.
OnlyFailedBeginKeepsClient ==
    \A r \in Requests :
        clients[r] = IF At(r, "query") \/ req[r].depth > 0 \/ outcome[r] = "stranded"
                       THEN 1 ELSE 0

\* every client is lost to a failed START TRANSACTION
PoolStranded == Cardinality({r \in Requests : outcome[r] = "stranded"}) = PoolSize

\* With fewer clients than requests, all of them after one row, every request
\* is answered in the end, until the pool is stranded: then the rest wait for
\* ever, because the pool sets no time-out.
EveryRequestAnswered ==
    \A r \in Requests : ~At(r, "new") ~> (At(r, "answered") \/ PoolStranded)
===============================================================================
