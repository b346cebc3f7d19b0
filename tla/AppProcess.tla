------------------------------ MODULE AppProcess ------------------------------
(****************************************************************************)
(* The life of one process of the API, main/index.ts: it connects, loads    *)
(* the application, listens, runs its background jobs on timers, and on a   *)
(* signal clears the timers, closes the server, disconnects and exits.      *)
(*                                                                          *)
(* Requests come over connections that stay open between them, and outlive  *)
(* them: a handler whose client has gone runs to its end, and the server,   *)
(* which counts connections, does not wait for it.  What handlers and jobs  *)
(* do is in the other modules; here they use the pool or are refused by it. *)
(****************************************************************************)
EXTENDS Naturals

CONSTANTS
    Clients,    \* each has one connection at a time
    Jobs,       \* the tasks of startBackgroundJobs whose interval is not 0
    MaxSignals  \* bound: signals the process is sent

ASSUME BoundsAssumption == MaxSignals \in Nat

VARIABLES
    phase,    \* of the process
    pool,     \* PgConnection.connection
    server,   \* the HTTP server: none, listening or closing
    socket,   \* the connection of each client
    handler,  \* the request of each client, as its controller runs it
    armed,    \* the timer of each job
    running,  \* scheduleEvery's flag
    active,   \* how many runs of each job are under way
    closers,  \* callbacks of server.close that wait for the server to be closed
    settled,  \* a disconnect() has ended: process.exit(0) comes next
    signals

vars == <<phase, pool, server, socket, handler, armed, running, active,
          closers, settled, signals>>

http == <<socket, handler>>

jobs == <<armed, running, active>>

ending == <<closers, settled, signals>>

TypeOK ==
    /\ phase \in {"connect", "load", "up", "exit 0", "exit 1", "killed"}
    /\ pool \in {"connecting", "open", "ending", "broken", "gone"}
    /\ server \in {"none", "listening", "closing"}
    /\ socket \in [Clients -> {"none", "idle", "busy"}]
    /\ handler \in [Clients -> {"none", "run", "query", "failed"}]
    /\ armed \in [Jobs -> BOOLEAN]
    /\ running \in [Jobs -> BOOLEAN]
    /\ active \in [Jobs -> Nat]
    /\ signals \in 0..MaxSignals
    /\ closers \in 0..signals
    /\ settled \in BOOLEAN

Init ==
    /\ phase = "connect"
    /\ pool = "connecting"
    /\ server = "none"
    /\ socket = [c \in Clients |-> "none"]
    /\ handler = [c \in Clients |-> "none"]
    /\ armed = [j \in Jobs |-> FALSE]
    /\ running = [j \in Jobs |-> FALSE]
    /\ active = [j \in Jobs |-> 0]
    /\ signals = 0
    /\ closers = 0
    /\ settled = FALSE

Up == phase = "up"

----------------------------------------------------------------------------
(* Start *)

Connect ==
    /\ phase = "connect"
    /\ phase' = "load"
    /\ pool' = "open"
    /\ UNCHANGED <<server, http, jobs, ending>>

\* connect() or the loading of the application rejects
StartFails ==
    /\ phase \in {"connect", "load"}
    /\ phase' = "exit 1"
    /\ UNCHANGED <<pool, server, http, jobs, ending>>

\* before its handlers are registered a signal ends the process
EarlySignal ==
    /\ phase \in {"connect", "load"}
    /\ phase' = "killed"
    /\ UNCHANGED <<pool, server, http, jobs, ending>>

\* Express 5 hands an error of the server (a port in use) to the callback of
\* app.listen, which takes no argument: listening or not, the process is up.
Listen ==
    /\ phase = "load"
    /\ phase' = "up"
    /\ server' \in {"listening", "none"}
    /\ armed' = [j \in Jobs |-> TRUE]
    /\ UNCHANGED <<pool, http, running, active, ending>>

----------------------------------------------------------------------------
(* Background jobs *)

\* Mutant: the flag is not looked at.
TickRegardless(j) ==
    /\ Up /\ armed[j]
    /\ running' = [running EXCEPT ![j] = TRUE]
    /\ active' = [active EXCEPT ![j] = @ + 1]
    /\ UNCHANGED <<phase, pool, server, http, armed, ending>>

Tick(j) ==
    /\ Up /\ armed[j]
    /\ ~running[j]
    /\ running' = [running EXCEPT ![j] = TRUE]
    /\ active' = [active EXCEPT ![j] = @ + 1]
    /\ UNCHANGED <<phase, pool, server, http, armed, ending>>

\* Mutant: the flag is reset when the job succeeds only.
TaskSettlesOnSuccess(j) ==
    /\ Up /\ active[j] > 0
    /\ active' = [active EXCEPT ![j] = @ - 1]
    /\ \E succeeded \in BOOLEAN : running' = [running EXCEPT ![j] = ~succeeded]
    /\ UNCHANGED <<phase, pool, server, http, armed, ending>>

\* the job succeeds or fails, on a pool that may be gone by then
TaskSettles(j) ==
    /\ Up /\ active[j] > 0
    /\ active' = [active EXCEPT ![j] = @ - 1]
    /\ running' = [running EXCEPT ![j] = FALSE]
    /\ UNCHANGED <<phase, pool, server, http, armed, ending>>

----------------------------------------------------------------------------
(* Requests *)

Accept(c) ==
    /\ Up /\ server = "listening"
    /\ socket[c] = "none" /\ handler[c] = "none"
    /\ socket' = [socket EXCEPT ![c] = "idle"]
    /\ UNCHANGED <<phase, pool, server, handler, jobs, ending>>

\* a request over an open connection, also over one that was left open while
\* the server closes
Receive(c) ==
    /\ Up /\ socket[c] = "idle" /\ handler[c] = "none"
    /\ socket' = [socket EXCEPT ![c] = "busy"]
    /\ handler' = [handler EXCEPT ![c] = "run"]
    /\ UNCHANGED <<phase, pool, server, jobs, ending>>

\* a statement (runQuery, a repository or a transaction) gets a client of the
\* pool, or is refused without one
Statement(c) ==
    /\ Up /\ handler[c] = "run"
    /\ handler' = [handler EXCEPT ![c] = IF pool = "open" THEN "query" ELSE "failed"]
    /\ UNCHANGED <<phase, pool, server, socket, jobs, ending>>

StatementEnds(c) ==
    /\ Up /\ handler[c] = "query"
    /\ \E next \in {"run", "failed"} : handler' = [handler EXCEPT ![c] = next]
    /\ UNCHANGED <<phase, pool, server, socket, jobs, ending>>

Answer(c) ==
    /\ Up /\ handler[c] \in {"run", "failed"}
    /\ handler' = [handler EXCEPT ![c] = "none"]
    /\ socket' = [socket EXCEPT ![c] = IF @ = "busy" THEN "idle" ELSE @]
    /\ UNCHANGED <<phase, pool, server, jobs, ending>>

\* the client closes its connection, its request answered or not
ClientLeaves(c) ==
    /\ Up /\ socket[c] # "none"
    /\ socket' = [socket EXCEPT ![c] = "none"]
    /\ UNCHANGED <<phase, pool, server, handler, jobs, ending>>

\* keep-alive ends
IdleTimeout(c) ==
    /\ Up /\ socket[c] = "idle"
    /\ socket' = [socket EXCEPT ![c] = "none"]
    /\ UNCHANGED <<phase, pool, server, handler, jobs, ending>>

----------------------------------------------------------------------------
(* Shutdown *)

CloseServer == IF server = "listening" THEN "closing" ELSE server

\* server.close closes connections without a request, all those or some
IdleClosed ==
    {s \in [Clients -> {"none", "idle", "busy"}] :
        \A c \in Clients : s[c] = socket[c] \/ (socket[c] = "idle" /\ s[c] = "none")}

\* Mutant: the timers are left alone.
ShutdownKeepingTimers ==
    /\ Up /\ signals < MaxSignals
    /\ signals' = signals + 1
    /\ server' = CloseServer
    /\ socket' \in IdleClosed
    /\ closers' = closers + 1
    /\ UNCHANGED <<phase, pool, handler, armed, running, active, settled>>

Shutdown ==
    /\ Up /\ signals < MaxSignals
    /\ signals' = signals + 1
    /\ armed' = [j \in Jobs |-> FALSE]
    /\ server' = CloseServer
    /\ socket' \in IdleClosed
    /\ closers' = closers + 1
    /\ UNCHANGED <<phase, pool, handler, running, active, settled>>

\* each callback calls disconnect(); all but the first of the process find a
\* pool that is ending, and are rejected
Disconnect ==
    /\ closers' = 0
    /\ pool' = IF pool = "open" THEN "ending" ELSE pool
    /\ settled' = (settled \/ pool # "open" \/ closers > 1)
    /\ UNCHANGED <<phase, server, http, jobs, signals>>

\* Mutant: disconnect() does not wait for the server to be closed.
ClosedAtOnce ==
    /\ Up /\ closers > 0
    /\ Disconnect

\* The server has closed when the last connection has, whatever handlers and
\* jobs are doing.
Closed ==
    /\ Up /\ closers > 0
    /\ \A c \in Clients : socket[c] = "none"
    /\ Disconnect

Disconnected ==
    /\ Up /\ pool = "ending"
    /\ pool' = "gone"
    /\ settled' = TRUE
    /\ UNCHANGED <<phase, server, http, jobs, closers, signals>>

\* Mutant: exit after a successful disconnection only.
DisconnectFailsQuietly ==
    /\ Up /\ pool = "ending"
    /\ pool' = "broken"
    /\ UNCHANGED <<phase, server, http, jobs, ending>>

DisconnectFails ==
    /\ Up /\ pool = "ending"
    /\ pool' = "broken"
    /\ settled' = TRUE
    /\ UNCHANGED <<phase, server, http, jobs, closers, signals>>

Exit ==
    /\ Up /\ settled
    /\ phase' = "exit 0"
    /\ UNCHANGED <<pool, server, http, jobs, ending>>

\* The timers are unref'd: without a server nothing holds the process between
\* two jobs, once the pool has closed its idle clients.
NothingLeft ==
    /\ Up /\ server = "none"
    /\ \A j \in Jobs : active[j] = 0
    /\ phase' = "exit 0"
    /\ UNCHANGED <<pool, server, http, jobs, ending>>

----------------------------------------------------------------------------
Next ==
    \/ Connect \/ StartFails \/ EarlySignal \/ Listen
    \/ \E j \in Jobs : Tick(j) \/ TaskSettles(j)
    \/ \E c \in Clients :
         \/ Accept(c) \/ Receive(c) \/ Statement(c) \/ StatementEnds(c)
         \/ Answer(c) \/ ClientLeaves(c) \/ IdleTimeout(c)
    \/ Shutdown \/ Closed \/ Disconnected \/ DisconnectFails \/ Exit
    \/ NothingLeft

Spec == Init /\ [][Next]_vars

\* The event loop runs what is ready: timers, callbacks, promises.  Statements,
\* jobs and disconnect() end, well or badly; a handler executes finitely many
\* statements (SF on its answer); an idle connection is closed in the end.
\* Nothing is assumed of clients, nor of signals.
Fairness ==
    /\ \A j \in Jobs : WF_vars(Tick(j)) /\ WF_vars(TaskSettles(j))
    /\ \A c \in Clients :
         WF_vars(StatementEnds(c)) /\ SF_vars(Answer(c)) /\ WF_vars(IdleTimeout(c))
    /\ WF_vars(Closed) /\ WF_vars(Disconnected \/ DisconnectFails) /\ WF_vars(Exit)

FairSpec == Spec /\ Fairness

----------------------------------------------------------------------------
(* Properties *)

\* Graceful shutdown (main/index.ts:41-49): a request whose client waits for the
\* answer is never cut by the exit, nor does it find the pool ended, however
\* many signals come while it runs.
ConnectedClientsServed ==
    \A c \in Clients : socket[c] = "busy" => Up /\ pool = "open"

\* main/index.ts:8, "Runs never overlap", however long one takes.
JobsNeverOverlap == \A j \in Jobs : active[j] <= 1

\* No job is started once a shutdown is on its way, so that none is started on
\* a pool that has ended (main/index.ts:43 clears the timers first).
JobStartsBeforeShutdown ==
    [][\A j \in Jobs : active'[j] > active[j] => pool = "open" /\ signals = 0]_vars

\* A job that failed, or took longer than its interval, runs again, for as long
\* as the process is up and was not told to stop.
JobsKeepRunning ==
    \A j \in Jobs : Up ~> (active[j] > 0 \/ ~Up \/ signals > 0)

\* A signal ends the process, jobs running or not, though the disconnection
\* fails, unless clients keep sending requests over connections they had opened.
ShutdownCompletes ==
    \/ signals > 0 ~> phase = "exit 0"
    \/ []<><<\E c \in Clients : Receive(c)>>_vars
===============================================================================
