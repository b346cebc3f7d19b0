--------------------------- MODULE AppProcess_proofs ---------------------------
(****************************************************************************)
(* AppProcess, for any number of clients, jobs and signals: no client that  *)
(* waits for its answer is cut by the shutdown, runs of a job never         *)
(* overlap, and none starts once a shutdown is on its way.                  *)
(*                                                                          *)
(* The pool ends, and the process with it, only after the server has        *)
(* stopped listening and its last connection is closed; no connection comes *)
(* back after that, because only a listening server accepts one.            *)
(****************************************************************************)
EXTENDS AppProcess, TLAPS

NoConnection == \A c \in Clients : socket[c] = "none"

Drained == server # "listening" /\ NoConnection

Starting == phase \in {"connect", "load"}

\* before it is up, the process has no server, no signal and no timer
StartOK ==
    Starting => /\ server = "none"
                /\ signals = 0 /\ closers = 0
                /\ ~settled
                /\ \A j \in Jobs : ~armed[j]

\* the pool is ended, and the process exits, behind a drained server
EndOK ==
    /\ server = "none" => NoConnection
    /\ closers > 0 => server # "listening"
    /\ Up /\ pool # "open" => Drained
    /\ settled => Drained /\ signals > 0
    /\ ~Up => \A c \in Clients : socket[c] # "busy"

\* up to the first signal the pool is open
PoolOK ==
    /\ phase = "load" => pool = "open"
    /\ Up /\ signals = 0 => pool = "open"

JobsOK ==
    \A j \in Jobs :
        /\ active[j] = IF running[j] THEN 1 ELSE 0
        /\ armed[j] => signals = 0

IInv == TypeOK /\ StartOK /\ EndOK /\ PoolOK /\ JobsOK

USE DEF http, jobs, ending, Up

----------------------------------------------------------------------------
LEMMA InitIInv == Init => IInv
<1>1. Init => TypeOK
  <2> SUFFICES ASSUME Init PROVE TypeOK
    OBVIOUS
  <2>1. signals \in 0..MaxSignals /\ closers \in 0..signals
    BY BoundsAssumption DEF Init
  <2>2. settled \in BOOLEAN /\ armed \in [Jobs -> BOOLEAN] /\ running \in [Jobs -> BOOLEAN]
    BY DEF Init
  <2>3. active \in [Jobs -> Nat]
    BY DEF Init
  <2> QED BY <2>1, <2>2, <2>3 DEF Init, TypeOK
<1>2. Init => StartOK /\ PoolOK /\ JobsOK
  BY DEF Init, StartOK, PoolOK, JobsOK, Starting
<1>3. Init => EndOK
  BY DEF Init, EndOK, Drained, NoConnection
<1> QED BY <1>1, <1>2, <1>3 DEF IInv

\* Start: from connect to up.
LEMMA StartStep ==
  ASSUME IInv, Connect \/ StartFails \/ EarlySignal \/ Listen
  PROVE  IInv'
<1> USE DEF IInv
<1>1. TypeOK'
  BY DEF TypeOK, Connect, StartFails, EarlySignal, Listen
<1>2. StartOK' /\ PoolOK'
  <2>1. CASE Connect
    <3>1. StartOK'
      <4>1. Starting /\ UNCHANGED <<server, signals, closers, settled, armed>>
        BY <2>1 DEF Starting, Connect
      <4> QED BY <4>1 DEF StartOK
    <3>2. PoolOK'
      BY <2>1 DEF PoolOK, Connect
    <3> QED BY <3>1, <3>2
  <2>2. CASE StartFails \/ EarlySignal \/ Listen
    <3>1. phase' \notin {"connect", "load"}
      BY <2>2 DEF StartFails, EarlySignal, Listen
    <3>2. PoolOK'
      BY <2>2 DEF PoolOK, StartFails, EarlySignal, Listen
    <3> QED BY <3>1, <3>2 DEF StartOK, Starting
  <2> QED BY <2>1, <2>2
<1>3. EndOK'
  <2>1. NoConnection /\ closers = 0 /\ ~settled
    BY DEF StartOK, EndOK, Starting, Connect, StartFails, EarlySignal, Listen
  <2>2. NoConnection' /\ closers' = 0 /\ ~settled'
    <3>1. socket' = socket /\ closers' = closers /\ settled' = settled
      BY DEF Connect, StartFails, EarlySignal, Listen
    <3> QED BY <2>1, <3>1 DEF NoConnection
  <2>3. phase' = "up" => pool' = "open"
    BY DEF PoolOK, Connect, StartFails, EarlySignal, Listen
  <2> QED BY <2>2, <2>3 DEF EndOK, NoConnection
<1>4. JobsOK'
  <2>1. signals = 0 /\ signals' = signals
    BY DEF StartOK, Starting, Connect, StartFails, EarlySignal, Listen
  <2>2. active' = active /\ running' = running
    BY DEF Connect, StartFails, EarlySignal, Listen
  <2> QED BY <2>1, <2>2 DEF JobsOK
<1> QED BY <1>1, <1>2, <1>3, <1>4

\* A job touches nothing but its own flag and count.
LEMMA JobStep ==
  ASSUME IInv, NEW j \in Jobs, Tick(j) \/ TaskSettles(j)
  PROVE  IInv'
<1> USE DEF IInv
<1>1. TypeOK' /\ JobsOK'
  <2>1. CASE Tick(j)
    BY <2>1 DEF TypeOK, JobsOK, Tick
  <2>2. CASE TaskSettles(j)
    BY <2>2 DEF TypeOK, JobsOK, TaskSettles
  <2> QED BY <2>1, <2>2
<1>2. StartOK' /\ PoolOK' /\ EndOK'
  BY DEF StartOK, PoolOK, EndOK, Starting, Drained, NoConnection, Tick, TaskSettles
<1> QED BY <1>1, <1>2

\* A connection is opened by a listening server only, and gets busy only if it is open.
LEMMA ClientStep ==
  ASSUME IInv, NEW c \in Clients,
         \/ Accept(c) \/ Receive(c) \/ Statement(c) \/ StatementEnds(c)
         \/ Answer(c) \/ ClientLeaves(c) \/ IdleTimeout(c)
  PROVE  IInv'
<1> USE DEF IInv
<1>1. TypeOK'
  BY DEF TypeOK, Accept, Receive, Statement, StatementEnds, Answer, ClientLeaves, IdleTimeout
<1>2. UNCHANGED <<phase, pool, server, jobs, ending>>
  BY DEF Accept, Receive, Statement, StatementEnds, Answer, ClientLeaves, IdleTimeout
<1>3. StartOK' /\ PoolOK' /\ JobsOK'
  BY <1>2 DEF StartOK, PoolOK, JobsOK, Starting
<1>4. EndOK'
  <2>1. Up
    BY DEF Accept, Receive, Statement, StatementEnds, Answer, ClientLeaves, IdleTimeout
  <2>2. NoConnection /\ server # "listening" => NoConnection'
    BY DEF TypeOK, NoConnection, Accept, Receive, Statement, StatementEnds, Answer,
           ClientLeaves, IdleTimeout
  <2> QED BY <1>2, <2>1, <2>2 DEF TypeOK, EndOK, Drained
<1> QED BY <1>1, <1>3, <1>4

\* A signal stops the server from listening and the timers from firing.
LEMMA ShutdownStep ==
  ASSUME IInv, Shutdown
  PROVE  IInv'
<1> USE DEF IInv
<1>1. TypeOK'
  BY BoundsAssumption DEF TypeOK, Shutdown, CloseServer, IdleClosed
<1>2. server' # "listening" /\ (server' = "none" => server = "none")
  BY DEF Shutdown, CloseServer
<1>3. \A c \in Clients : socket[c] = "none" => socket'[c] = "none"
  BY DEF Shutdown, IdleClosed
<1>4. EndOK'
  BY <1>2, <1>3 DEF TypeOK, EndOK, Drained, NoConnection, Shutdown
<1>5. StartOK' /\ PoolOK' /\ JobsOK'
  BY DEF TypeOK, StartOK, PoolOK, JobsOK, Starting, Shutdown
<1> QED BY <1>1, <1>4, <1>5

\* The pool ends when the server has closed, and the exit follows.
LEMMA EndStep ==
  ASSUME IInv, Closed \/ Disconnected \/ DisconnectFails \/ Exit \/ NothingLeft
  PROVE  IInv'
<1> USE DEF IInv
<1>1. TypeOK'
  <2>1. CASE Closed
    <3>1. settled' \in BOOLEAN
      BY <2>1 DEF Closed, Disconnect
    <3>2. closers' \in 0..signals' /\ signals' \in 0..MaxSignals
      BY <2>1, BoundsAssumption DEF TypeOK, Closed, Disconnect
    <3> QED BY <2>1, <3>1, <3>2 DEF TypeOK, Closed, Disconnect
  <2>2. CASE Disconnected
    BY <2>2 DEF TypeOK, Disconnected
  <2>3. CASE DisconnectFails
    BY <2>3 DEF TypeOK, DisconnectFails
  <2>4. CASE Exit \/ NothingLeft
    BY <2>4 DEF TypeOK, Exit, NothingLeft
  <2> QED BY <2>1, <2>2, <2>3, <2>4
<1>2. UNCHANGED <<server, http, jobs, signals>>
  BY DEF Closed, Disconnect, Disconnected, DisconnectFails, Exit, NothingLeft
<1>3. StartOK' /\ JobsOK'
  BY <1>2 DEF StartOK, JobsOK, Starting, Closed, Disconnect, Disconnected,
              DisconnectFails, Exit, NothingLeft
<1>4. EndOK' /\ PoolOK'
  <2>1. CASE Closed
    <3>1. signals > 0 /\ Drained /\ Up
      BY <2>1, BoundsAssumption DEF TypeOK, EndOK, Drained, NoConnection, Closed
    <3>2. phase' = phase /\ closers' = 0
      BY <2>1 DEF Closed, Disconnect
    <3>3. signals' > 0 /\ Drained'
      BY <1>2, <3>1 DEF Drained, NoConnection
    <3> QED BY <3>1, <3>2, <3>3 DEF EndOK, PoolOK, Drained, NoConnection
  <2>2. CASE Disconnected \/ DisconnectFails
    <3>1. Up /\ pool = "ending" /\ phase' = phase /\ closers' = closers
      BY <2>2 DEF Disconnected, DisconnectFails
    <3>2. signals > 0 /\ Drained
      BY <3>1, BoundsAssumption DEF TypeOK, EndOK, PoolOK
    <3>3. signals' > 0 /\ Drained'
      BY <1>2, <3>2 DEF Drained, NoConnection
    <3> QED BY <3>1, <3>3 DEF EndOK, PoolOK, Drained, NoConnection
  <2>3. CASE Exit \/ NothingLeft
    <3>1. NoConnection /\ phase' = "exit 0" /\ UNCHANGED <<pool, closers, settled>>
      BY <2>3 DEF EndOK, Drained, Exit, NothingLeft
    <3> QED BY <1>2, <3>1 DEF EndOK, PoolOK, Drained, NoConnection
  <2> QED BY <2>1, <2>2, <2>3
<1> QED BY <1>1, <1>3, <1>4

LEMMA NextIInv == IInv /\ [Next]_vars => IInv'
<1> SUFFICES ASSUME IInv, [Next]_vars PROVE IInv'
  OBVIOUS
<1>1. CASE Connect \/ StartFails \/ EarlySignal \/ Listen
  BY <1>1, StartStep
<1>2. CASE \E j \in Jobs : Tick(j) \/ TaskSettles(j)
  BY <1>2, JobStep
<1>3. CASE \E c \in Clients :
             \/ Accept(c) \/ Receive(c) \/ Statement(c) \/ StatementEnds(c)
             \/ Answer(c) \/ ClientLeaves(c) \/ IdleTimeout(c)
  BY <1>3, ClientStep
<1>4. CASE Shutdown
  BY <1>4, ShutdownStep
<1>5. CASE Closed \/ Disconnected \/ DisconnectFails \/ Exit \/ NothingLeft
  BY <1>5, EndStep
<1>6. CASE UNCHANGED vars
  BY <1>6 DEF vars, IInv, TypeOK, StartOK, EndOK, PoolOK, JobsOK, Starting, Drained,
              NoConnection
<1> QED BY <1>1, <1>2, <1>3, <1>4, <1>5, <1>6 DEF Next

\* The invariant is what the process promises, at any moment ...
LEMMA InvPromises == IInv => TypeOK /\ ConnectedClientsServed /\ JobsNeverOverlap
<1>1. IInv => TypeOK
  BY DEF IInv
<1>2. IInv => ConnectedClientsServed
  BY DEF IInv, EndOK, Drained, NoConnection, ConnectedClientsServed
<1>3. IInv => JobsNeverOverlap
  BY DEF IInv, JobsOK, JobsNeverOverlap
<1> QED BY <1>1, <1>2, <1>3

\* ... and of its steps.
OnTime == \A j \in Jobs : active'[j] > active[j] => pool = "open" /\ signals = 0

LEMMA StepOnTime == ASSUME IInv, Next PROVE OnTime
<1>1. CASE \E j \in Jobs : Tick(j)
  <2>1. PICK j \in Jobs : Tick(j)
    BY <1>1
  <2>2. pool = "open" /\ signals = 0
    BY <2>1 DEF IInv, PoolOK, JobsOK, Tick
  <2> QED BY <2>2 DEF OnTime
<1>2. CASE \E j \in Jobs : TaskSettles(j)
  <2>1. PICK j \in Jobs : TaskSettles(j)
    BY <1>2
  <2>2. \A i \in Jobs : active'[i] \in {active[i], active[i] - 1} /\ active[i] \in Nat
    BY <2>1 DEF IInv, TypeOK, TaskSettles
  <2> QED BY <2>2 DEF OnTime
<1>3. CASE active' = active
  <2>1. \A j \in Jobs : active[j] \in Nat
    BY DEF IInv, TypeOK
  <2>2. \A j \in Jobs : ~(active[j] > active[j])
    BY <2>1
  <2> QED BY <1>3, <2>2 DEF OnTime
<1> QED BY <1>1, <1>2, <1>3
        DEF Next, Connect, StartFails, EarlySignal, Listen, Accept, Receive, Statement,
            StatementEnds, Answer, ClientLeaves, IdleTimeout, Shutdown, Closed, Disconnect,
            Disconnected, DisconnectFails, Exit, NothingLeft

\* The strengthened invariant of the process holds in every reachable state.
THEOREM Invariant == Spec => []IInv
<1> QED BY InitIInv, NextIInv, PTL DEF Spec

----------------------------------------------------------------------------
\* Graceful shutdown: a client that waits for its answer keeps the process and
\* the pool, for any number of clients and signals.
THEOREM Graceful == Spec => []ConnectedClientsServed
<1> QED BY InvPromises, Invariant, PTL

\* Runs of a job never overlap.
THEOREM NoOverlap == Spec => []JobsNeverOverlap
<1> QED BY InvPromises, Invariant, PTL

\* No job starts once a shutdown is on its way.
THEOREM NoLateJob == Spec => JobStartsBeforeShutdown
<1>1. IInv /\ [Next]_vars => [OnTime]_vars
  BY StepOnTime
<1> QED BY <1>1, Invariant, PTL DEF Spec, JobStartsBeforeShutdown, OnTime

\* Type correctness of the process.
THEOREM TypeCorrect == Spec => []TypeOK
<1> QED BY InvPromises, Invariant, PTL
===============================================================================
