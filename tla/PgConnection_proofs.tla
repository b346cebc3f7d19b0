--------------------------- MODULE PgConnection_proofs ---------------------------
(****************************************************************************)
(* PgConnection, for any number of requests, statements and nested          *)
(* transactions: the writes of a request are kept or undone together, as    *)
(* its status says, and its client goes back to the pool once, unless       *)
(* START TRANSACTION failed on it.                                          *)
(*                                                                          *)
(* The invariant says, of each request on its own, that what it has written *)
(* is what its transaction holds pending, and that none of it is in the     *)
(* table before the commit; no request reaches the pending writes of        *)
(* another, because the runner of a statement is that of its own context.   *)
(****************************************************************************)
EXTENDS PgConnection, FiniteSetTheorems, TLAPS

Open(r) == req[r].pc \in {"work", "join", "throw", "commit", "rollback"}

\* the writes of r are pending, and the table has none of them
Uncommitted(r) ==
    /\ pending[r] = req[r].wrote
    /\ \A w \in table : w[1] # r

RequestOK(r) ==
    /\ \A w \in req[r].wrote \union pending[r] : w[1] = r
    /\ Open(r) <=> req[r].depth > 0
    /\ At(r, "join") => req[r].depth < MaxDepth
    /\ req[r].pc \in {"new", "begin"} => req[r].wrote = {}
    /\ req[r].pc \in {"new", "begin", "work", "join", "throw", "commit"} =>
         outcome[r] = "none" /\ Uncommitted(r)
    /\ At(r, "commit") => req[r].status < 500
    /\ At(r, "rollback") => \/ /\ outcome[r] = "none" /\ Uncommitted(r)
                               /\ ~(req[r].status < 500)
                            \/ outcome[r] = "doubtful" /\ pending[r] = {}
    /\ req[r].pc \in {"plain", "query"} => outcome[r] = "none" /\ pending[r] = {}
    /\ At(r, "answered") => pending[r] = {}
    /\ outcome[r] = "accepted" => At(r, "answered") /\ req[r].wrote \subseteq table
    /\ outcome[r] = "failed" => At(r, "answered") /\ \A w \in table : w[1] # r
    /\ outcome[r] = "stranded" => At(r, "answered")
    /\ clients[r] = IF At(r, "query") \/ Open(r) \/ outcome[r] = "stranded" THEN 1 ELSE 0

IInv == TypeOK /\ \A r \in Requests : RequestOK(r)

Outcomes == {"none", "accepted", "failed", "doubtful", "stranded"}

USE DEF Progress, Outcomes

----------------------------------------------------------------------------
LEMMA InitIInv == Init => IInv
<1>1. Init => TypeOK
  BY BoundsAssumption DEF Init, TypeOK, New, Writes
<1>2. Init => \A r \in Requests : RequestOK(r)
  BY DEF Init, RequestOK, Open, Uncommitted, At, New
<1> QED BY <1>1, <1>2 DEF IInv

\* A request has written finitely much, and its next write is one of Writes.
LEMMA NextWriteType ==
  ASSUME IInv, NEW r \in Requests, Cardinality(req[r].wrote) < MaxStatements
  PROVE  NextWrite(r) \in Writes /\ NextWrite(r)[1] = r
<1> DEFINE W == {r} \X (1..MaxStatements)
<1>1. req[r].wrote \subseteq W
  <2>1. req[r].wrote \subseteq Requests \X (1..MaxStatements)
    BY DEF IInv, TypeOK, Writes
  <2>2. \A w \in req[r].wrote : w[1] = r
    BY DEF IInv, RequestOK
  <2> QED BY <2>1, <2>2
<1>2. IsFiniteSet(W)
  <2>1. IsFiniteSet({r})
    BY FS_Singleton
  <2>2. IsFiniteSet(1..MaxStatements)
    BY FS_Interval, BoundsAssumption
  <2> QED BY <2>1, <2>2, FS_Product
<1>3. Cardinality(req[r].wrote) \in Nat
  BY <1>1, <1>2, FS_Subset, FS_CardinalityType
<1> QED BY <1>3, BoundsAssumption DEF NextWrite, Writes

\* the steps a request goes through once it is started
Steps == {"begin", "work", "join", "throw", "commit", "rollback", "plain", "query", "answered"}

LEMMA StepType ==
  ASSUME NEW p \in Progress, NEW d \in 0..MaxDepth, NEW ws \in SUBSET Writes,
         NEW status \in Statuses \union {0}, NEW pc \in Steps
  PROVE  /\ [p EXCEPT !.pc = pc] \in Progress
         /\ [p EXCEPT !.pc = pc, !.depth = d] \in Progress
         /\ [p EXCEPT !.pc = pc, !.depth = d, !.status = status] \in Progress
         /\ [p EXCEPT !.status = status, !.pc = pc] \in Progress
         /\ [p EXCEPT !.wrote = ws] \in Progress
         /\ [p EXCEPT !.pc = pc, !.wrote = ws] \in Progress
BY DEF Steps

LEMMA DepthType ==
  ASSUME NEW p \in Progress, NEW d \in 0..MaxDepth
  PROVE  [p EXCEPT !.depth = d] \in Progress
OBVIOUS

LEMMA RequestType ==
  ASSUME IInv, NEW r \in Requests
  PROVE  /\ req[r] \in Progress /\ req[r].depth \in 0..MaxDepth
         /\ req[r].wrote \subseteq Writes /\ RequestOK(r)
BY DEF IInv, TypeOK

LEMMA DepthBounds == 0 \in 0..MaxDepth /\ 1 \in 0..MaxDepth
BY BoundsAssumption

\* A step of r keeps the types if what it writes for r is of its type.
LEMMA TypeStep ==
  ASSUME IInv, NEW r \in Requests, NEW p \in Progress, NEW ws \in SUBSET Writes,
         NEW n \in 0..PoolSize, NEW result \in Outcomes,
         req' = [req EXCEPT ![r] = p],
         pending' = [pending EXCEPT ![r] = ws],
         clients' = [clients EXCEPT ![r] = n],
         outcome' = [outcome EXCEPT ![r] = result],
         table' \subseteq Writes, faults' \in 0..MaxFaults
  PROVE  TypeOK'
<1>1. /\ req' \in [Requests -> Progress]
      /\ pending' \in [Requests -> SUBSET Writes]
      /\ clients' \in [Requests -> 0..PoolSize]
      /\ outcome' \in [Requests -> Outcomes]
  BY DEF IInv, TypeOK
<1> QED BY <1>1 DEF TypeOK, Progress, Writes

\* A step of q that touches neither what r holds nor what is in the table of
\* r's writes leaves r as it was.
LEMMA Undisturbed ==
  ASSUME IInv, NEW r \in Requests,
         req'[r] = req[r], pending'[r] = pending[r], clients'[r] = clients[r],
         outcome'[r] = outcome[r], table \subseteq table',
         \A w \in table' \ table : w[1] # r
  PROVE  RequestOK(r)'
<1>1. RequestOK(r)
  BY DEF IInv
<1> QED BY <1>1 DEF RequestOK, Open, Uncommitted, At

\* So a step of r has to be checked for its type and for r alone.
LEMMA OwnStep ==
  ASSUME IInv, NEW r \in Requests, TypeOK', RequestOK(r)',
         \A q \in Requests \ {r} : /\ req'[q] = req[q] /\ pending'[q] = pending[q]
                                   /\ clients'[q] = clients[q] /\ outcome'[q] = outcome[q],
         table \subseteq table', \A w \in table' \ table : w[1] = r
  PROVE  IInv'
<1>1. ASSUME NEW q \in Requests PROVE RequestOK(q)'
  <2>1. CASE q = r
    BY <2>1
  <2>2. CASE q # r
    BY <2>2, Undisturbed
  <2> QED BY <2>1, <2>2
<1> QED BY <1>1 DEF IInv
----------------------------------------------------------------------------
\* A nested call ends where it began, one level down or up.
LEMMA JoinLeave ==
  ASSUME IInv, NEW r \in Requests, Join(r) \/ Leave(r)
  PROVE  \E d \in 0..MaxDepth : req' = [req EXCEPT ![r].pc = "work", ![r].depth = d]
<1>1. req[r].depth \in 0..MaxDepth /\ MaxDepth \in Nat /\ RequestOK(r)
  BY BoundsAssumption DEF IInv, TypeOK
<1>2. CASE Join(r)
  <2>1. req[r].depth + 1 \in 0..MaxDepth
    BY <1>1, <1>2 DEF Join, RequestOK, At
  <2> QED BY <1>2, <2>1 DEF Join
<1>3. CASE Leave(r)
  <2>1. req[r].depth - 1 \in 0..MaxDepth
    BY <1>1, <1>3 DEF Leave
  <2>2. req[r] = [req[r] EXCEPT !.pc = "work"]
    BY <1>3 DEF Leave, At, IInv, TypeOK
  <2>3. req' = [req EXCEPT ![r].pc = "work", ![r].depth = req[r].depth - 1]
    BY <1>3, <2>2 DEF Leave
  <2> QED BY <2>1, <2>3
<1> QED BY <1>2, <1>3

\* The status settles where the request goes, and nothing else of it.
LEMMA SettleType ==
  ASSUME IInv, NEW r \in Requests, NEW status \in Statuses, Settle(r, status)
  PROVE  \E p \in Progress :
           /\ req' = [req EXCEPT ![r] = p]
           /\ p.pc = IF status < 500 THEN "commit" ELSE "rollback"
           /\ p.status = status /\ p.depth = req[r].depth /\ p.wrote = req[r].wrote
<1> DEFINE p == [req[r] EXCEPT !.status = status,
                               !.pc = IF status >= 500 THEN "rollback" ELSE "commit"]
<1>1. p \in Progress
  <2> HIDE DEF Progress
  <2>1. CASE status >= 500
    BY <2>1, StepType, RequestType DEF Steps
  <2>2. CASE ~(status >= 500)
    BY <2>2, StepType, RequestType DEF Steps
  <2> QED BY <2>1, <2>2
<1>2. req' = [req EXCEPT ![r] = p]
  BY DEF Settle
<1>3. status >= 500 <=> ~(status < 500)
  BY DEF Statuses
<1>4. /\ p.pc = IF status < 500 THEN "commit" ELSE "rollback"
      /\ p.status = status /\ p.depth = req[r].depth /\ p.wrote = req[r].wrote
  BY <1>3, RequestType
<1> HIDE DEF p, Progress
<1> QED BY <1>1, <1>2, <1>4

\* One lemma for the steps that only move a request on, one for each of the others.
LEMMA MovingStep ==
  ASSUME IInv, NEW r \in Requests,
         \/ Start(r) \/ BeginFails(r) \/ Nest(r) \/ Join(r) \/ Leave(r) \/ WorkFails(r)
         \/ Throw(r) \/ Resolve(r) \/ Answer(r)
  PROVE  IInv'
<1>1. req[r].depth \in 0..MaxDepth /\ MaxDepth \in Nat /\ MaxFaults \in Nat
      /\ faults \in 0..MaxFaults /\ RequestOK(r)
  BY BoundsAssumption DEF IInv, TypeOK
<1>2. UNCHANGED <<pending, clients, table, outcome>>
  BY DEF Start, BeginFails, Nest, Join, Leave, WorkFails, Throw, Resolve, Answer
<1>3. \A q \in Requests \ {r} : req'[q] = req[q]
  <2>1. req \in [Requests -> Progress]
    BY DEF IInv, TypeOK
  <2> HIDE DEF Progress
  <2>2. ASSUME NEW status, Settle(r, status)
        PROVE  \A q \in Requests \ {r} : req'[q] = req[q]
    BY <2>1, <2>2 DEF Settle
  <2>3. CASE Throw(r) \/ Resolve(r)
    BY <2>1, <2>2, <2>3 DEF Throw, Resolve
  <2>4. CASE ~Throw(r) /\ ~Resolve(r)
    BY <2>1, <2>4 DEF Start, BeginFails, Nest, Join, Leave, WorkFails, Answer, Goto
  <2> QED BY <2>3, <2>4
<1>4. CASE Start(r)
  <2>1. req' \in [Requests -> Progress]
    BY <1>4 DEF IInv, TypeOK, Start, Goto
  <2>2. TypeOK'
    BY <1>2, <1>4, <2>1 DEF IInv, TypeOK, Writes, Start
  <2>3. RequestOK(r)'
    <3>1. /\ At(r, "new") /\ req'[r].pc \in {"begin", "plain"}
          /\ req'[r].depth = req[r].depth /\ req'[r].wrote = req[r].wrote
      BY <1>4 DEF IInv, TypeOK, Start, Goto
    <3> QED BY <1>1, <1>2, <3>1 DEF RequestOK, Open, Uncommitted, At
  <2> QED BY <1>2, <1>3, <2>2, <2>3, OwnStep
<1>5. CASE BeginFails(r) \/ Answer(r)
  <2>1. req' \in [Requests -> Progress]
    BY <1>5 DEF IInv, TypeOK, BeginFails, Answer, Goto
  <2>2. faults' \in 0..MaxFaults
    BY <1>1, <1>5 DEF BeginFails, Answer, Fault
  <2>3. TypeOK'
    BY <1>2, <2>1, <2>2 DEF IInv, TypeOK, Progress, Writes
  <2>4. RequestOK(r)'
    BY <1>1, <1>5 DEF IInv, TypeOK, BeginFails, Answer, Goto, Fault, RequestOK, Open, Uncommitted, At
  <2> QED BY <1>2, <1>3, <2>3, <2>4, OwnStep
<1>6. CASE Join(r) \/ Leave(r)
  <2>1. PICK d \in 0..MaxDepth : req' = [req EXCEPT ![r].pc = "work", ![r].depth = d]
    BY <1>1, <1>6, JoinLeave
  <2>2. [req[r] EXCEPT !.pc = "work", !.depth = d] \in Progress
    <3> HIDE DEF Progress
    <3> QED BY StepType, RequestType DEF Steps
  <2>3. req' = [req EXCEPT ![r] = [req[r] EXCEPT !.pc = "work", !.depth = d]]
    BY <2>1
  <2>4. req' \in [Requests -> Progress]
    BY <2>2, <2>3 DEF IInv, TypeOK
  <2>5. TypeOK'
    BY <1>2, <1>6, <2>4 DEF IInv, TypeOK, Progress, Writes, Join, Leave
  <2>6. RequestOK(r)'
    BY <1>1, <1>6 DEF IInv, TypeOK, Join, Leave, RequestOK, Open, Uncommitted, At
  <2> QED BY <1>2, <1>3, <2>5, <2>6, OwnStep
<1>7. CASE Nest(r) \/ WorkFails(r)
  <2>1. TypeOK'
    <3>1. PICK pc \in Steps : req' = [req EXCEPT ![r].pc = pc]
      BY <1>7 DEF Nest, WorkFails, Goto, Steps
    <3>2. [req[r] EXCEPT !.pc = pc] \in Progress
      <4> HIDE DEF Progress
      <4> QED BY StepType, RequestType
    <3>3. req' = [req EXCEPT ![r] = [req[r] EXCEPT !.pc = pc]]
      BY <3>1
    <3>4. req' \in [Requests -> Progress]
      BY <3>2, <3>3 DEF IInv, TypeOK
    <3>5. faults' \in 0..MaxFaults
      BY <1>1, <1>7 DEF Nest, WorkFails, Fault
    <3> QED BY <1>2, <3>4, <3>5 DEF IInv, TypeOK, Writes
  <2>2. RequestOK(r)'
    BY <1>1, <1>7 DEF IInv, TypeOK, Nest, WorkFails, Goto, Fault, RequestOK, Open, Uncommitted, At
  <2> QED BY <1>2, <1>3, <2>1, <2>2, OwnStep
<1>8. ASSUME NEW status \in Statuses, Settle(r, status), Open(r), At(r, "work") \/ At(r, "throw"),
             faults' = faults
      PROVE  IInv'
  <2>1. PICK p \in Progress :
          /\ req' = [req EXCEPT ![r] = p]
          /\ p.pc = IF status < 500 THEN "commit" ELSE "rollback"
          /\ p.status = status /\ p.depth = req[r].depth /\ p.wrote = req[r].wrote
    BY <1>8, SettleType
  <2>2. req' \in [Requests -> Progress] /\ req'[r] = p
    BY <2>1 DEF IInv, TypeOK
  <2>3. TypeOK'
    BY <1>1, <1>2, <1>8, <2>2 DEF IInv, TypeOK, Writes
  <2>4. RequestOK(r)'
    BY <1>1, <1>2, <1>8, <2>1, <2>2 DEF RequestOK, Open, Uncommitted, At
  <2> QED BY <1>2, <1>3, <2>3, <2>4, OwnStep
<1>9. CASE Resolve(r)
  <2>1. PICK status \in Statuses : Settle(r, status)
    BY <1>9 DEF Resolve
  <2> QED BY <1>1, <1>8, <1>9, <2>1 DEF Resolve, RequestOK, Open, At
<1>10. CASE Throw(r)
  <2>1. CASE req[r].depth > 1
    <3> DEFINE p == [req[r] EXCEPT !.depth = @ - 1]
    <3>1. req[r].depth - 1 \in 0..MaxDepth
      BY <1>1, <2>1
    <3>2. p \in Progress
      <4> HIDE DEF Progress
      <4> QED BY <3>1, DepthType, RequestType
    <3>3. req' = [req EXCEPT ![r] = p]
      BY <1>10, <2>1 DEF Throw
    <3>4. TypeOK'
      BY <1>1, <1>2, <1>10, <3>2, <3>3 DEF IInv, TypeOK, Writes, Throw
    <3>5. /\ req'[r].pc = "throw" /\ req'[r].depth = req[r].depth - 1
          /\ req'[r].wrote = req[r].wrote
      BY <1>10, <2>1 DEF IInv, TypeOK, Throw, At
    <3>6. RequestOK(r)'
      BY <1>1, <1>2, <1>10, <2>1, <3>5 DEF Throw, RequestOK, Open, Uncommitted, At
    <3> QED BY <1>2, <1>3, <3>4, <3>6, OwnStep
  <2>2. CASE ~(req[r].depth > 1)
    <3>1. Settle(r, 500) /\ 500 \in Statuses
      BY <1>10, <2>2 DEF Throw, Statuses
    <3> QED BY <1>1, <1>8, <1>10, <3>1 DEF Throw, Open, At
  <2> QED BY <2>1, <2>2
<1> QED BY <1>4, <1>5, <1>6, <1>7, <1>9, <1>10

\* taking and returning the client
LEMMA ClientStep ==
  ASSUME IInv, NEW r \in Requests, Begin(r) \/ BeginStrands(r) \/ Acquire(r) \/ QueryFails(r)
  PROVE  IInv'
<1>1. /\ MaxDepth \in Nat \ {0} /\ MaxFaults \in Nat /\ PoolSize \in Nat \ {0}
      /\ faults \in 0..MaxFaults /\ clients[r] \in Nat /\ RequestOK(r)
  BY BoundsAssumption DEF IInv, TypeOK
<1>2. TypeOK'
  <2>1. clients'[r] \in {0, 1}
    BY <1>1 DEF Begin, BeginStrands, Acquire, QueryFails, Release, IInv, TypeOK, RequestOK, Open, At
  <2>2. clients' \in [Requests -> 0..PoolSize]
    <3>1. clients' = [clients EXCEPT ![r] = clients'[r]]
      BY DEF Begin, BeginStrands, Acquire, QueryFails, Release, IInv, TypeOK
    <3>2. clients'[r] \in 0..PoolSize
      BY <1>1, <2>1
    <3> QED BY <3>1, <3>2 DEF IInv, TypeOK
  <2>3. req' \in [Requests -> Progress]
    <3>1. CASE Begin(r)
      <4>1. [req[r] EXCEPT !.pc = "work", !.depth = 1] \in Progress
        <5>1. req[r] \in Progress
          BY DEF IInv, TypeOK
        <5> HIDE DEF Progress
        <5> QED BY <5>1, StepType, DepthBounds DEF Steps
      <4>2. req' = [req EXCEPT ![r] = [req[r] EXCEPT !.pc = "work", !.depth = 1]]
        BY <3>1 DEF Begin
      <4> QED BY <4>1, <4>2 DEF IInv, TypeOK
    <3>2. CASE BeginStrands(r) \/ Acquire(r) \/ QueryFails(r)
      <4>1. PICK pc \in Steps : req' = [req EXCEPT ![r].pc = pc]
        BY <3>2 DEF BeginStrands, Acquire, QueryFails, Goto, Steps
      <4>2. [req[r] EXCEPT !.pc = pc] \in Progress
        <5> HIDE DEF Progress
        <5> QED BY StepType, RequestType
      <4>3. req' = [req EXCEPT ![r] = [req[r] EXCEPT !.pc = pc]]
        BY <4>1
      <4> QED BY <4>2, <4>3 DEF IInv, TypeOK
    <3> QED BY <3>1, <3>2
  <2>4. /\ faults' \in 0..MaxFaults /\ UNCHANGED <<pending, table>>
        /\ outcome' \in [Requests -> Outcomes]
    BY <1>1 DEF Begin, BeginStrands, Acquire, QueryFails, Fault, IInv, TypeOK
  <2> QED BY <2>2, <2>3, <2>4 DEF IInv, TypeOK, Progress, Writes
<1>3. RequestOK(r)'
  BY <1>1 DEF IInv, TypeOK, Begin, BeginStrands, Acquire, QueryFails, Release, Goto, Fault,
              RequestOK, Open, Uncommitted, At
<1>4. UNCHANGED <<pending, table>>
      /\ \A q \in Requests \ {r} : /\ req'[q] = req[q] /\ clients'[q] = clients[q]
                                   /\ outcome'[q] = outcome[q]
  BY DEF IInv, TypeOK, Begin, BeginStrands, Acquire, QueryFails, Release, Goto
<1> QED BY <1>2, <1>3, <1>4, OwnStep

\* a statement goes to the transaction of its own context
LEMMA StatementStep ==
  ASSUME IInv, NEW r \in Requests, Statement(r)
  PROVE  IInv'
<1> DEFINE w == NextWrite(r)
<1>1. w \in Writes /\ w[1] = r
  BY NextWriteType DEF Statement, CanWrite
<1>2. Runner(r) = r
  BY DEF Statement, Runner, IInv, RequestOK, Open, At
<1>3. /\ req' = [req EXCEPT ![r].wrote = @ \union {w}]
      /\ pending' = [pending EXCEPT ![r] = @ \union {w}]
      /\ UNCHANGED <<clients, table, outcome, faults>>
  BY <1>2 DEF Statement
<1>4. RequestOK(r) /\ At(r, "work")
  BY DEF IInv, Statement
<1> HIDE DEF w
<1>5. TypeOK'
  <2>1. /\ [req[r] EXCEPT !.wrote = @ \union {w}] \in Progress
        /\ pending[r] \union {w} \in SUBSET Writes
        /\ UNCHANGED <<clients, table, outcome, faults>>
    BY <1>1, <1>3 DEF IInv, TypeOK
  <2>2. /\ req' = [req EXCEPT ![r] = [req[r] EXCEPT !.wrote = @ \union {w}]]
        /\ pending' = [pending EXCEPT ![r] = pending[r] \union {w}]
        /\ clients' = [clients EXCEPT ![r] = clients[r]]
        /\ outcome' = [outcome EXCEPT ![r] = outcome[r]]
    BY <1>3, <2>1 DEF IInv, TypeOK
  <2>3. /\ clients[r] \in 0..PoolSize /\ table' \subseteq Writes /\ faults' \in 0..MaxFaults
        /\ outcome[r] \in Outcomes
    BY <2>1 DEF IInv, TypeOK
  <2> DEFINE p == [req[r] EXCEPT !.wrote = @ \union {w}]
             ws == pending[r] \union {w}
  <2>4. p \in Progress /\ ws \in SUBSET Writes /\ req' = [req EXCEPT ![r] = p]
        /\ pending' = [pending EXCEPT ![r] = ws]
    BY <2>1, <2>2
  <2> HIDE DEF p, ws, Progress
  <2> QED BY <2>2, <2>3, <2>4, TypeStep
<1>6. RequestOK(r)'
  BY <1>1, <1>3, <1>4 DEF IInv, TypeOK, RequestOK, Open, Uncommitted, At
<1> QED BY <1>3, <1>5, <1>6, OwnStep DEF IInv, TypeOK

LEMMA AutoCommitStep ==
  ASSUME IInv, NEW r \in Requests, AutoCommit(r)
  PROVE  IInv'
<1> DEFINE w == NextWrite(r)
<1>1. w \in Writes /\ w[1] = r
  BY NextWriteType DEF AutoCommit, CanWrite
<1>2. /\ req' = [req EXCEPT ![r].pc = "plain", ![r].wrote = @ \union {w}]
      /\ table' = table \union {w}
      /\ clients' = [clients EXCEPT ![r] = @ - 1]
      /\ UNCHANGED <<pending, outcome, faults>>
  BY DEF AutoCommit, Release
<1>3. RequestOK(r) /\ At(r, "query") /\ clients[r] = 1 /\ PoolSize \in Nat
  BY BoundsAssumption DEF IInv, AutoCommit, RequestOK
<1> HIDE DEF w
<1>4. TypeOK'
  <2> DEFINE p == [req[r] EXCEPT !.pc = "plain", !.wrote = @ \union {w}]
  <2>1. p \in Progress /\ table' \subseteq Writes
    <3>1. req[r].wrote \union {w} \in SUBSET Writes
      BY <1>1, RequestType
    <3>2. table' \subseteq Writes
      BY <1>1, <1>2 DEF IInv, TypeOK
    <3> HIDE DEF Progress
    <3> QED BY <3>1, <3>2, StepType, RequestType DEF Steps
  <2>2. req' = [req EXCEPT ![r] = p]
    BY <1>2
  <2>3. /\ pending' = [pending EXCEPT ![r] = pending[r]]
        /\ clients' = [clients EXCEPT ![r] = 0]
        /\ outcome' = [outcome EXCEPT ![r] = outcome[r]]
    BY <1>2, <1>3 DEF IInv, TypeOK
  <2>4. 0 \in 0..PoolSize
    BY <1>3
  <2>5. /\ pending[r] \in SUBSET Writes /\ faults' \in 0..MaxFaults
        /\ outcome[r] \in Outcomes
    BY <1>2 DEF IInv, TypeOK
  <2> HIDE DEF p, Progress
  <2> QED BY <2>1, <2>2, <2>5, <2>3, <2>4, TypeStep
<1>5. RequestOK(r)'
  BY <1>1, <1>2, <1>3 DEF IInv, TypeOK, RequestOK, Open, Uncommitted, At
<1> QED BY <1>1, <1>2, <1>4, <1>5, OwnStep DEF IInv, TypeOK

\* the ends of a transaction
LEMMA EndStep ==
  ASSUME IInv, NEW r \in Requests,
         \/ Commit(r) \/ Rollback(r)
         \/ \E applied \in BOOLEAN : CommitFails(r, applied)
  PROVE  IInv'
<1>1. /\ RequestOK(r) /\ pending[r] \subseteq Writes
      /\ \A w \in pending[r] : w[1] = r
      /\ PoolSize \in Nat \ {0} /\ MaxFaults \in Nat /\ faults \in 0..MaxFaults
  BY BoundsAssumption DEF IInv, TypeOK, RequestOK
<1>2. At(r, "commit") \/ At(r, "rollback")
  BY DEF Commit, Rollback, CommitFails
<1>3. clients[r] = 1
  BY <1>1, <1>2 DEF RequestOK, Open, At
<1>4. table' = table \/ table' = table \union pending[r]
  BY DEF Commit, Rollback, CommitFails
<1>5. \A q \in Requests \ {r} : /\ req'[q] = req[q] /\ pending'[q] = pending[q]
                               /\ clients'[q] = clients[q] /\ outcome'[q] = outcome[q]
  BY DEF IInv, TypeOK, Commit, Rollback, CommitFails, End, Release, Settle
<1>6. CASE Commit(r)
  <2>1. TypeOK'
    <3> DEFINE p == [req[r] EXCEPT !.pc = "answered", !.depth = 0, !.status = 0]
    <3>1. p \in Progress
      <4> HIDE DEF Progress
      <4> QED BY StepType, RequestType, DepthBounds DEF Steps
    <3>2. req' = [req EXCEPT ![r] = p]
      BY <1>6 DEF Commit, End
    <3>3. /\ pending' = [pending EXCEPT ![r] = {}]
          /\ clients' = [clients EXCEPT ![r] = 0]
          /\ outcome' = [outcome EXCEPT ![r] = "accepted"]
      BY <1>1, <1>3, <1>6 DEF Commit, End, Release, RequestOK, At, IInv, TypeOK
    <3>4. 0 \in 0..PoolSize /\ {} \in SUBSET Writes
      BY <1>1
    <3>5. table' \subseteq Writes /\ faults' \in 0..MaxFaults
      BY <1>1, <1>4, <1>6 DEF IInv, TypeOK, Commit
    <3> HIDE DEF p, Progress
    <3> QED BY <3>1, <3>2, <3>5, <3>3, <3>4, TypeStep
  <2>2. RequestOK(r)'
    BY <1>1, <1>3, <1>6 DEF IInv, TypeOK, Commit, End, Release, RequestOK, Open, Uncommitted, At
  <2> QED BY <1>1, <1>4, <1>5, <2>1, <2>2, OwnStep
<1>7. CASE Rollback(r)
  <2>1. TypeOK'
    <3> DEFINE p == [req[r] EXCEPT !.pc = "answered", !.depth = 0, !.status = 0]
               result == IF outcome[r] = "doubtful" THEN "doubtful" ELSE "failed"
    <3>1. p \in Progress
      <4> HIDE DEF Progress
      <4> QED BY StepType, RequestType, DepthBounds DEF Steps
    <3>2. req' = [req EXCEPT ![r] = p]
      BY <1>7 DEF Rollback, End
    <3>3. /\ pending' = [pending EXCEPT ![r] = {}]
          /\ clients' = [clients EXCEPT ![r] = 0]
          /\ outcome' = [outcome EXCEPT ![r] = result]
      BY <1>1, <1>3, <1>7 DEF Rollback, End, Release, RequestOK, At, IInv, TypeOK
    <3>4. result \in Outcomes
      OBVIOUS
    <3>5. 0 \in 0..PoolSize /\ {} \in SUBSET Writes
      BY <1>1
    <3>6. table' \subseteq Writes /\ faults' \in 0..MaxFaults
      BY <1>1, <1>4, <1>7 DEF IInv, TypeOK, Rollback
    <3> HIDE DEF p, result, Progress
    <3> QED BY <3>1, <3>2, <3>6, <3>3, <3>5, <3>4, TypeStep
  <2>2. RequestOK(r)'
    BY <1>1, <1>3, <1>7 DEF IInv, TypeOK, Rollback, End, Release, RequestOK, Open, Uncommitted, At
  <2> QED BY <1>1, <1>4, <1>5, <2>1, <2>2, OwnStep
<1>8. CASE \E applied \in BOOLEAN : CommitFails(r, applied)
  <2>1. Settle(r, 500) /\ 500 \in Statuses /\ At(r, "commit")
    BY <1>8 DEF CommitFails, Statuses
  <2>2. PICK p \in Progress :
          /\ req' = [req EXCEPT ![r] = p] /\ p.pc = "rollback"
          /\ p.depth = req[r].depth /\ p.wrote = req[r].wrote
    BY <2>1, SettleType
  <2>3. /\ pending' = [pending EXCEPT ![r] = {}]
        /\ clients' = [clients EXCEPT ![r] = 1]
        /\ outcome' = [outcome EXCEPT ![r] = "doubtful"]
    BY <1>3, <1>8 DEF IInv, TypeOK, CommitFails
  <2>4. TypeOK'
    <3>1. table' \subseteq Writes /\ faults' \in 0..MaxFaults
      BY <1>1, <1>4, <1>8 DEF IInv, TypeOK, CommitFails, Fault
    <3>2. 1 \in 0..PoolSize /\ {} \in SUBSET Writes
      BY <1>1
    <3> HIDE DEF Progress
    <3> QED BY <2>2, <2>3, <3>1, <3>2, TypeStep
  <2>5. /\ req'[r].pc = "rollback" /\ req'[r].depth = req[r].depth
        /\ req'[r].wrote = req[r].wrote /\ pending'[r] = {} /\ clients'[r] = 1
        /\ outcome'[r] = "doubtful"
    BY <2>2, <2>3 DEF IInv, TypeOK
  <2>6. RequestOK(r)'
    BY <1>1, <2>1, <2>5 DEF RequestOK, Open, Uncommitted, At
  <2> QED BY <1>1, <1>4, <1>5, <2>4, <2>6, OwnStep
<1> QED BY <1>6, <1>7, <1>8

----------------------------------------------------------------------------
LEMMA NextIInv == IInv /\ [Next]_vars => IInv'
<1> SUFFICES ASSUME IInv, [Next]_vars PROVE IInv'
  OBVIOUS
<1>1. ASSUME NEW r \in Requests, Start(r) \/ Nest(r) \/ Advance(r) \/ RequestFault(r)
      PROVE  IInv'
  BY <1>1, MovingStep, ClientStep, StatementStep, AutoCommitStep, EndStep
     DEF Advance, RequestFault
<1>2. CASE UNCHANGED vars
  BY <1>2 DEF vars, IInv, TypeOK, RequestOK, Open, Uncommitted, At
<1> QED BY <1>1, <1>2 DEF Next

\* The invariant holds in every reachable state.
THEOREM Invariant == Spec => []IInv
<1> QED BY InitIInv, NextIInv, PTL DEF Spec

\* The writes of a transaction are kept below 500 and undone by a 5xx
\* (AllOrNothing), whatever the other requests do and wherever they fail.
THEOREM Atomicity == Spec => []AllOrNothing
<1>1. IInv => AllOrNothing
  BY DEF IInv, RequestOK, AllOrNothing
<1> QED BY <1>1, Invariant, PTL

\* A request holds one client at most, and once answered none, unless it is one
\* whose START TRANSACTION failed on a client (OnlyFailedBeginKeepsClient).
THEOREM ClientsAccounted == Spec => []OnlyFailedBeginKeepsClient
<1>1. IInv => OnlyFailedBeginKeepsClient
  BY DEF IInv, RequestOK, OnlyFailedBeginKeepsClient, Open
<1> QED BY <1>1, Invariant, PTL
=================================================================================
