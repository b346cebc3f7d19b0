# authkit-clean-arch: models, checks and proofs

TLA+ modules of this repository's back end, from the environment a process reads and the migrations
it runs to the rows of a session; TLC configurations that check them on small instances, and TLAPS
proofs of the invariants and of the two refinements for instances of any size. Paths below are
relative to the repository's `src/` unless they start with `docs/`.

Contents: 1 the system, 2 modules and the code, 3 runs, 4 fairness, 5 proofs, 6 what the checks found,
7 what is left out, 8 where it could go on.

## 1. The system

A Node.js service (TypeScript, Express, TypeORM) in front of PostgreSQL, an S3 bucket and Facebook's
Graph API. Any number of instances share one database and one bucket; the code keeps no state in
memory beyond a request but the rate limiters' counters and the flags of the jobs.

| Component | State it keeps | Operations | Talks to |
|---|---|---|---|
| Refresh-token sessions (`domain/use-cases/refresh-token.ts`, `logout.ts`, `purge-expired-refresh-tokens.ts`, `infra/repos/postgres/refresh-token.ts`) | `refresh_tokens`: hash, family, expiry, revocation | login inserts, refresh rotates (in a transaction), a replay revokes the family, logout revokes, purge deletes | PostgreSQL, hasher, uuid, clock |
| Account identity (`facebook-authentication.ts`, `user-account.ts`) | `users`: email, facebook_id | look up by id then email, link by compare-and-set, insert with `ON CONFLICT` | Facebook, PostgreSQL |
| Profile picture (`change-profile-picture.ts`, `user-profile.ts`) | `users.picture_key`, objects in the bucket | load, upload, compare-and-set with the outbox event in one transaction, discard | S3, PostgreSQL |
| Transactional outbox (`process-outbox-events.ts`, `outbox.ts`) | `outbox_events`: attempts, lease, processed | claim a batch, delete, complete, fail | S3, PostgreSQL |
| Connection (`helpers/connection.ts`, `db-transaction-controller.ts`, `repository.ts`) | the pool; the query runner in the async context of a request | transaction, nested transaction, statement, connect, disconnect | PostgreSQL |
| Process (`main/index.ts`, `main/jobs/*`) | timers, a flag per job, the HTTP server | start, poll, shut down on a signal | everything |
| Facebook gateway (`infra/gateways/facebook-api.ts`, `axios-client.ts`) | none | three calls, each with up to four attempts | Facebook |
| HTTP side (`main/config/middlewares.ts`, `main/routes`, `main/adapters`, `application/controllers`, `application/validation`) | counters of the rate limiters | limit, parse, authenticate, upload, merge, validate, perform, answer | clients, the use cases |
| Configuration (`main/config/env.ts`) | what was read at start | validate, derive | environment |
| Deployment (`infra/app.tf`, `infra/repos/postgres/migrations`) | the schema's version and the rows it rewrites | migrate, then run; revert | PostgreSQL, the process |

How the components interact: a controller calls one use case; the refresh-token controller alone is
wrapped in `DbTransactionController`, so its statements share a transaction and the *status code*
decides between commit and rollback; logout and login run their statements in autocommit;
`savePicture` opens a transaction of its own. The picture component talks to the outbox only through
the rows it inserts in that transaction, and both write the bucket.

What is hard here, and what makes each part correct:

- *Sessions.* Statements at READ COMMITTED interleave between any two of a request's; an `UPDATE` of
  several rows sees a snapshot and re-checks each row after waiting for its lock; a rotation may fail
  after its first statement; the answer may be lost; the purge deletes rows in use. Correct means: one
  live token per family, no session lost by a failure, a revoked token stays dead.
- *Accounts.* Check, then write, without a transaction, on an identity whose email can change at
  Facebook at any time. Correct means: one account per identity, never bound to another one.
- *Pictures and outbox.* Two stores without a common transaction; processes die between any two
  steps; leases lapse under working workers; a delete may have happened although it failed. Correct
  means: the picture that a profile names exists, every other object is deleted in the end.
- *HTTP.* A request passes a chain of middlewares whose order decides what a controller is given; body
  and findings of the middlewares are merged into one object; two limiters count for an address that
  headers may name; Facebook may fail at any attempt of any call. Correct means: a controller acts for
  the user of a valid token, quotas hold, a login ends, and a failure of a dependency is not blamed on
  the client.
- *Deployment.* Migrations meet the data of years, are refused by it, or die half-way, and a container
  is started again. Correct means: the API never runs on a database it is not written for, and no
  account or session is lost or joined to another one on the way.
- *Transactions.* One singleton serves all requests over a bounded pool, and a status code alone
  decides between commit and rollback. Correct means: the writes of a request are kept below 500 and
  undone from there, clients come back, nobody waits for ever.

`PROJECT.json` lists every component and, under `hazards`, each of these at its line.

## 2. Modules and the code

| Module | Models | Extends / composes |
|---|---|---|
| `SessionChain` | abstract: a session opens, passes one token on to fresh tokens, ends | |
| `RefreshTokens` (`MC…`, `…_proofs`) | sessions on the table, statement by statement | refines `SessionChain` |
| `AccountBinding` (`MC…`, `…_proofs`) | login with Facebook up to the issued session | |
| `ObjectLifecycle` | abstract: staged, current, retired, gone | |
| `PictureChange` | PUT and DELETE of the picture | parameterised by the outbox's event |
| `Outbox` (`…_proofs`) | the table of events and its workers | |
| `PictureSystem` (`MC…`, `…_proofs`) | both over one bucket and one table | instantiates `PictureChange`, `Outbox`; refines `ObjectLifecycle` |
| `PgConnection` (`…_proofs`) | transactions, nesting, pool, status codes | |
| `AppProcess` (`…_proofs`) | start, timers, requests on the pool, shutdown, exit | |
| `SchemaMigrations` | the six migrations as functions of a database | |
| `Deployment` (`MC…`, `…_proofs`) | containers that migrate and then run, one after the other | extends `AppProcess`, `SchemaMigrations` |
| `FacebookGateway` | the three calls of a login, their attempts and their time | |
| `RequestValidation`, `AccessToken` | the validators; tokens and the authentication middleware | `AccessToken` extends `RequestValidation` |
| `RateLimiter`, `Environment` | both limiters and the client's address; `env.ts` | |
| `HttpServer` (`MC…`, `…_proofs`) | a request from its arrival to its answer | extends the five above |

**RefreshTokens.** `rows` is the committed table; the token, its SHA-256 hash and its row are one
value, since the hash is injective for our purpose and uuids do not repeat (`issued` remembers them).
`proc[p]` is what a request or a purge job holds in local variables and in its open transaction:
`seen` is the row returned by `loadByHash`, `stamp` the `Date.now()` bound into a statement,
`targets` what is left of the rows a statement's snapshot found, `dirty` the rows it has changed and
so locked. `RefreshLoad`, `ReuseDetected`, `Reject`, `BeginRotation`, `RotateWon`/`RotateLost`,
`Save`, `CommitRotation` are the lines 19 to 58 of `refresh-token.ts` in order; `LogoutLoad`,
`ScanFamily`, `RevokeRow`, `CommitRevocation` are a logout and, from `ScanFamily` on, the revocation
of a reused token's family; `PurgeStart` … `CommitPurge` are the purge. `Abort` is any failure before
the commit takes effect. A `COMMIT` that took effect but failed to say so is, for the client, a
`CommitRotation` whose token is not delivered. The grace window and the expiry are compared to a
clock `now` that ticks between any two statements.

**AccountBinding.** `users`, and `email` for what Facebook would answer. One action per statement:
`FindByFacebookId`, `FindByEmail`, `Link` or `Create`, `Issue`. `Taken` is the unique index on
`facebook_id`; the conflict rule on `email` is written out in `Create`. PostgreSQL decides the insert
and its conflict in one step, as its speculative insertion does for the caller.

**PictureChange, Outbox, PictureSystem.** `objects` is the bucket. `CompareAndSet` takes the lock of
the user's row, `Commit` makes both the new key and the event visible; between them the row is locked
(`UserLocked`). `Discard` is the best-effort delete after a refused or a failed save; `lost` records
the uploads that a failure left behind, which is the only way an object may stay for good. In
`Outbox`, time is what a claim can see of `locked_until`: none, in the future (`held`), in the past
(`lapsed`); a lease may lapse at any moment, so slow workers are included. `Claim` is one step because
the statement is one `UPDATE` with `FOR UPDATE SKIP LOCKED`: two of them never pick the same row.

**PgConnection.** `depth` is how many `transaction()` calls of the request are open, `clients` how
many pool clients it holds, `pending` the uncommitted writes of the transaction it opened. `Runner` is
`transactionContext.getStore()`. `Nest` is work that calls `transaction()` again, `Join` the return of
that call's own `work()` without a second runner. `Resolve` is a controller that answers below 500,
`WorkFails` any error or a 5xx, `Throw` its way up through joined transactions; `Settle` is the test of
`db-transaction-controller.ts:25` on the status either comes to, from which `Commit` or `Rollback`
follows. `connection.ts:41` starts the transaction before the `try`: `BeginFails` is a failure that
leaves no client behind (none could be had, or its connection is lost), `BeginStrands` one of
`START TRANSACTION` on a client that lives on, which nothing returns to the pool. `outcome` remembers
what the client was told: `accepted` below 500, `failed` from there, `doubtful` when a `COMMIT` was
reported as an error, `stranded` after `BeginStrands`.

**AppProcess.** One process, from `connect()` to `process.exit`. `pool` is `PgConnection.connection`,
`running` the flag of `scheduleEvery` and `active` the runs of a job that are really under way (the
model's own count), `closers` the callbacks handed to `server.close`. A client's `socket` outlives its
requests (keep-alive), and its `handler` may outlive the socket, since a handler does not stop when its
client leaves; `server.close` waits for sockets only. `Shutdown` may come again while the first one is
under way: its callback then finds a pool that is ending, `disconnect()` rejects, and the process exits
at once. What requests and jobs do on the pool is in the other modules; here it is a statement that
gets a client or is refused one.

**SchemaMigrations, Deployment.** A database is how many migrations are applied and, of the rows, the
columns a migration reads or writes: of an e-mail its address and how it is spelled, of a picture
whether it is a URL, a key or none. `MigrateUp` is `up()` of the next one, `UpRefused` when the data
make it fail, `MigrateDown` the last one's `down()`. `working` is the transaction TypeORM runs them all
in. `Deployment` is `npm run migration:run:prod && node …`: the process of `AppProcess` starts after
`CommitMigrations` only, and a container that has ended, in whichever way, is started again. `Revert`
is an operator's, while no container runs.

**FacebookGateway.** `facebook[c]` is the login of client `c`: which of the three calls it is at, the
attempt, and the time it has spent, which grows by how long an attempt takes (`Latencies`, up to
`Timeout`) and by the delays between attempts. `TryAgain` and `GiveUp` are the retryable failures of
`axios-client.ts`, `CallRefused` the others; `Decide` is what `loadUser` makes of each outcome. `cause`
keeps what its `.catch` forgets: the token was no good (`none`), Facebook refused this service, for its
credentials or the rate of its calls (`refusal`), or Facebook was down (`dependency`). The call for the
app's token knows the service alone, so a refusal of it is never the token's fault.
`AccountBinding.LoadUser` reads the identity in one step, since the last call alone says who it is.

**HttpServer.** One action from one await to the next: `Arrive` (CORS, the global limiter: a preflight is
answered before the limiter if cors lets any origin in, and otherwise passed on, counted, and answered
404 behind the routes), `Body` (the JSON parser, then the route's own middlewares), `Upload` (multer),
`Handle` (`Controller.handle`: the merge of body and findings, the validators, which are built outside
its `try`), one `Perform…` for each use case with the outcomes its other module has, `MapError`. `cause` is why a request ended in an error:
a dependency, Facebook's refusal of this service, the second row of an identity (`duplicate`, finding
3), or a value taken as it is (`value`). Values are what the validators tell apart:
missing, null, `''`, a text, anything else, a file with its declared type, size and signature. Tokens
are what verification asks of them. `Environment` is the schema of `env.ts` over the lengths of texts,
with `emptyToUndefined` where the code has it, and `''` taken as 0 where a number is coerced; `settings`
is what the application has for its secrets, the storage's key pair and the `DB_*` variables, `Default`
where that is the schema's development value.

## 3. Runs

| Run | Question | Bounds |
|---|---|---|
| `sessions` | one live token per family; sessions survive failures; no deadlock among requests; a revoked presented token stays dead; refinement of `SessionChain` | 2 requests, 2 purges, 2 tokens, 2 families, lifetime 0, grace 0, clock to 1, 1 failure |
| `sessions_live` | requests finish; expired rows are purged | 2 requests, 1 purge, 2 tokens of 1 family |
| `logout_race` | *violated*: after a revocation no token of the family is live | 2 requests, 2 tokens |
| `accounts` | sessions match identities; one account each; never bound again | 3 logins, 2 identities, emails and accounts, 1 change of email, 1 failure |
| `first_login` | *violated*: concurrent first logins converge | 2 logins of 1 identity, 1 change of email |
| `pictures` | no broken picture; scheduled once; no object forgotten; refinement of `ObjectLifecycle` | 2 users, 3 keys, 2 requests, 1 worker, 1 failure on each side |
| `pictures_live` | though a commit may succeed unreported: a picture is lost to the discard of a save in doubt only; unused objects are deleted; changes are answered | 1 user, 2 keys, 2 requests, 1 worker, 1 failure on each side |
| `ambiguous_commit` | *violated*: no broken picture, if a commit may succeed unreported | 1 user, 2 requests |
| `outbox` | processed means deleted; claims and tries bounded; deleted in the end | 2 workers, 2 events, batches of 2, 3 attempts, 2 failures |
| `transactions` | all or nothing, by the status; a client is lost to a failed `START TRANSACTION` only; all are answered until the pool is lost | 3 requests, 2 clients, 2 statements, nesting 2, 1 failure and any number of stranded clients |
| `deployment` | the API serves only the schema it is written for; upgrades keep accounts and sessions; only duplicates block one; connected clients are served; jobs never overlap, start in time, go on; shutdown ends | 2 clients, 2 jobs, 2 signals; databases: empty, first version with 2 accounts in 18 combinations and 2 sessions, current version |
| `http` | who is to blame is told right, with three exceptions; work is authorised; a login's time is bounded; production has no default but the database's; quotas hold | 2 clients behind 1 proxy, 18 environments, about 50 requests of every class for one client and 2 for the other, limits of 2 and 1 |

Why the bounds are enough for the question. A race on a row is one of two requests. With lifetime and
grace 0, a token is live at time 0 and expired at 1, a spent one is within the grace at 0 and past it at
1, and a purge deletes at 1: every case of a comparison is met with the shortest clock. Two purges are
the least that can deadlock, two families the least whose rows a wrong revocation could mix; that longer
chains, clocks and more requests show nothing else is proved (section 5). Three logins let two
identities contend while one of them returns. Three keys let a picture be replaced twice while the other
user has one. Three requests over two clients are the least in which one waits for a client and another
for a row. Two signals are the least of which one finds the shutdown of the other under way; requests,
jobs and their failures, containers and reverts are not bounded in `deployment`. Two accounts are the
least that can be duplicates; the second has every spelling of either e-mail and either Facebook id or
none. In `http`, all attempts take the whole time-out (`Latencies = {50}`, tenths of a second), the case
the bound is about; with limits of 2 and 1 a client meets each limit in either order, and the second
client is there for its quota. `MaxFaults` bounds how many failures a behaviour has, not where they
strike; `outbox` has fewer faults than attempts, since an event may be given up otherwise.

Deadlock is checked in `deployment`, where there is always a next container. It is off elsewhere:
clocks, tokens, keys and requests are bounded, so the instances really stop, and an HTTP process whose
configuration is refused has ended. Waiting for each other is checked by `RequestsNeverDeadlock`,
`RequestsFinish`, `ChangesAnswered` and `EveryRequestAnswered`.

## 4. Fairness

- `SF` on the steps of a request, of `RefreshTokens`, `PictureSystem` and `PgConnection`: Node runs
  what is ready, and PostgreSQL's lock queue and the pool's queue are first come, first served, so a
  lock or a client that is released again and again is got in the end. Weak fairness would let others
  take it each time it is free.
- `WF` on the purge's and the outbox's start: `scheduleEvery` re-arms the timer whatever the last run
  did (its promise is settled by `.catch` and `.finally`).
- `WF` on leases that lapse (`now()` advances) and on PostgreSQL's deadlock detector.
- In `PgConnection`, `SF` on `Resolve` says that the work of a transaction comes to an end: a rotation
  and `savePicture` run statements and nothing else inside theirs.
- In `AppProcess`, `WF` on timers, on the end of statements, jobs and `disconnect()`, on the timeout of
  idle connections and on callbacks; `SF` on a handler's answer, since it executes finitely many
  statements. `ShutdownCompletes` makes an exception of clients that send requests over open
  connections for ever: `server.close` has no time limit, so nothing in the code ends that.
  `Deployment` adds none: nothing is assumed of containers and operators.
- No fairness on failures, on clients that start requests, on Facebook, or on a lost answer. That two
  purges which meet for ever both succeed is *not* claimed: they lock rows in the order of their scans,
  may deadlock each time, and each time the detector may choose the same one, so `sessions_live` has
  one purge. `HttpServer` has no fairness: that a login ends is stated as a bound on its time.

## 5. Proofs

All are checked by TLAPS, for every value of the constants that satisfies the assumptions named in the
modules, which TLC evaluates on every run.

- `TimesAssumption`, `BoundsAssumption`: bounds are natural numbers (and those of `Outbox`, that there
  are finitely many workers).
- `NullAssumption`, `NoneAssumption`, `NoUserAssumption`, `ProcsAssumption`: the null value is no other
  value, a request is no purge. `ValuesAssumption`, `FilesAssumption`, `TokensAssumption`,
  `MarksAssumption` say the same of the classes of values: a file is not a text, a missing token is no
  token, a variable that is unset, empty or defaulted has no length, and a default is not the absence of
  a value.
- `DelaysAssumption`, `TimeoutAssumption`: no delay is longer than `MaxDelay`, no attempt longer than
  `Timeout`.
- `DatabasesAssumption`: the first container finds a database whose applied migrations have had their
  effect.
- `ProxiesAssumption`, `ClientsAssumption`: proxies have addresses, and so has each client one of its
  own (clients that share one share its quota, by design).
- `RawEnvsAssumption`: a variable is unset, empty or a text, of which the schema asks the length or the
  number. `InputsAssumption`: what a request may hold; a `userId` in a JSON body is one of `Users` or
  missing (any other text would be one more user), and multer gives a file of a multipart body its type
  and its size.

`NoBrokenPictures` and the `Refinement` of `PictureSystem` assume `~AmbiguousCommit` besides; without it
they are false (finding 2). No other theorem has a hypothesis.

- `RefreshTokens_proofs`: `TypeCorrect`, `OneLiveToken`, `SessionsSurvive`, `NoDeadlock`,
  `PresentedTokenDies`, `Refinement`. *One live token per family* is not inductive: a rotation in
  progress is about to add a live token, and only the row it has locked makes room for it. The invariant
  `IInv` adds what a request holds at each step (`RequestOK`: rows it has locked are live, a winner has
  locked exactly its own token, its new row is of the same family and its token was never issued), what
  a purge holds (`PurgeOK`), that two transactions do not lock one row (`LocksExclusive`) nor insert one
  token (`InsertsDistinct`), and that stored rows were issued in opened families (`Stored`). On it rests
  a second invariant, `JInv`: what a revocation has still to visit (`RevocationOK`) and that an active
  family has its live row. A request that waits for a row holds
  none, so nobody waits for it and it is in no cycle. `Refinement` shows that logins open, commits of
  rotations pass on, revocations and the expiry end a session of `SessionChain`, and all else stutters.
- `PictureSystem_proofs`: `TypeCorrect`, `NoBrokenPictures`, `RetiredOnce`, `NothingForgotten`,
  `LossNeedsDoubt`, `Refinement`. The invariant adds that what a request has drawn is nobody else's,
  neither a picture nor scheduled (`RequestOK`, `RequestsApart`), unless it became its own picture by a
  `COMMIT` in doubt (`OwnKey`); that a request about to commit still has the picture it read, by the row
  lock (`RequestOK`); that no object is two users' picture (`TablesOK`); and that a worker about to
  complete an event has no object left to delete (`WorkersOK`). Where no `COMMIT` is in doubt it has
  `PictureIntact` too. Three lemmas carry most steps: `RequestMove` for those that leave profiles and
  outbox alone, `SaveStep` for a commit, reported or not, and `WorkerMove` for those that delete scheduled
  objects and nothing else. `LossNeedsDoubt` goes through every step that deletes an object: what a
  worker deletes is scheduled and so no picture, what a request discards is its own upload, which is a
  picture only after a commit in doubt. For the refinement, `Stages` and `SameStage` reduce a step to
  the one key whose stage it changes.
- `Outbox_proofs`: `TypeCorrect`, `DeletedWhenDone`, `BoundedTries`. An event is claimed at most
  `MaxAttempts` times by the condition of the claim, and its tries are bounded because
  each claim pays for one worker that holds it: the invariant counts the workers which have claimed an
  event and not yet tried it (`Accounted`).
- `AccountBinding_proofs`: `TypeCorrect`, `SessionsMatch`, `OneAccount`, `Unrebindable`. The invariant
  adds that an identity is linked to one account (`LinkedOnce`, the unique index) and that the account a
  login is about to issue a session for is linked to its identity *now*, though it was linked by an
  earlier statement (`LoginsOK`); this holds because links only appear (`Linking`).
- `PgConnection_proofs`: `Atomicity`, `ClientsAccounted`. The invariant speaks of each request alone:
  what it wrote is what its transaction has pending and none of it is in the table before the commit; a
  transaction commits only on a status below 500; it holds one client exactly while it has an open
  transaction or a running statement, or once its `START TRANSACTION` has failed on one. `Undisturbed` and
  `OwnStep` show that no request touches another's: the runner of a statement is that of its context.
- `AppProcess_proofs`: `TypeCorrect`, `Graceful`, `NoOverlap`, `NoLateJob`. The invariant says that the
  pool is only ended, and the exit only due, behind a server that neither listens nor has a connection,
  which no step can undo (`EndOK`); that the flag of a job and the number of its runs agree (`JobsOK`);
  and that timers are armed only before the first signal, up to which the pool is open (`PoolOK`).
- `Deployment_proofs`: `MatchingSchema`, `OnlyDuplicatesBlock`, `UpgradeKeeps`, for any database. The
  invariant says that committed data and the transaction's data have the effect of the migrations they
  count (`Fits`), that the transaction keeps the accounts and sessions of what is committed (`Keeps`),
  and that the process runs at the last version only (`ContainerOK`). `TypeCorrectInContainers`,
  `GracefulInContainers`, `NoOverlapInContainers`, `NoLateJobInContainers`: the theorems of
  `AppProcess_proofs`, of one process there, hold of every process a deployment starts, because a
  container that ends leaves the initial state of the next one (`EndsAsInit`).
- `HttpServer_proofs`: `TypeCorrect`, `ErrorsExplained`, `Authorised`,
  `ProductionSettings`, `LoginTime`, `Quotas`, for any environments, clients, requests, proxies and limits. The invariant has a part for
  each concern, and each step disturbs few of them.
  `GatewayInv` bounds the time at each call of a login by the calls before it and the attempts of this
  one (`Within`); with the delays and time-out of `axios-client.ts`, a login waits for Facebook for
  little more than a minute at most. `BlameOK` says that a verdict is `unavailable` exactly if Facebook was
  down to the last attempt, so that `MapError` cannot tell the client of its own mistake then.
  `RequestsOK` says of each request what has been established at the point where it is: the token its
  `userId` is from and the access to operational data (`Granted`), the file that passed the validators
  (`Validated`), and that an error has its cause exactly when it is told, with a status its cause explains on
  its route (`Explained`). None of the
  properties is inductive without these, since the token is looked at two awaits before the controller
  acts on the user, and the body is merged in between.
  `ConfigOK` says that a process serves with the values derived from a valid environment, and has counted
  nothing before. `CountsOK` says that, where the proxies are as configured, a limiter's counter at a
  client's address is what it has let through for that client, up to the limit; it rests on the address
  being the client's own whatever `X-Forwarded-For` holds, since the trusted hops are counted from the
  right.

Model-checked only: what is temporal under fairness (`RequestsFinish`, `ExpiredEventuallyPurged`,
`EventuallyDeleted`, `UnusedObjectsDeleted`, `ChangesAnswered`, `EveryRequestAnswered`,
`JobsKeepRunning`, `ShutdownCompletes`), which the proof system does not reach. Every invariant and
every action property that a passing run checks, and both refinements, are stated by a theorem. The type
invariants of `Outbox`, `PgConnection` and `AppProcess` have a proof and no run.

## 6. What the checks found

1. **A revocation can miss a concurrent rotation** (`logout_race`). `revokeRefreshTokenFamily`
   (`infra/repos/postgres/refresh-token.ts:45`) is one `UPDATE`. If a rotation of the family has
   revoked its row but not committed, the snapshot of the `UPDATE` holds the old row and not the
   inserted one; after waiting, the old row no longer matches and the new one is never looked at. The
   logout answers 204 and the session goes on, against `domain/use-cases/logout.ts:12` ("Revokes the
   token's family") and `docs/adr/0010…md:12`. What does hold, and is proved, is that the *presented*
   token is dead (`RevocationKillsPresentedToken`) and that there is never more than one live token.
2. **An ambiguous commit breaks a picture** (`ambiguous_commit`). `change-profile-picture.ts:43`
   discards the upload on every error of the save, also when the commit took effect, against
   `docs/adr/0016…md:29` ("No broken pictures"). With `AmbiguousCommit = FALSE` the property is proved;
   with it, it is proved that this discard is the only way a picture is lost (`LossNeedsDoubt`), and that
   the rest of the bookkeeping holds.
3. **First logins need not converge** (`first_login`). If the identity's email changes between two
   concurrent first logins, the second insert meets `UQ_users_facebook_id`, which `ON CONFLICT
   ("email")` does not handle, and answers 500, against `docs/adr/0014…md:19`. A retry finds the
   account.

Seen while modelling, without a run of their own; where the behaviour changes state or an answer, the
models contain it.

- *Listening.* Express 5 hands an error of `listen`, such as a port in use, to the callback of
  `app.listen` (`main/index.ts:55`), which takes no argument. The process logs that it is running and
  lives by its jobs alone. `Listen` has both outcomes, so `deployment` covers this process too.
- *Names.* `/\b(.)/` of `user-profile.ts:10` finds nothing in a name without an ASCII word character
  (`DELETE /users/picture` is then a 500, after which the picture is as before), and takes whatever
  stands at a word's end for an initial ("Ann." gives "A.").
- *Bodies.* Where no middleware finds a file (DELETE), a JSON body's `file` is taken for the upload:
  `null` is a 500 from building the validators, a file without a type a 500 from the use case. These and
  the names are the cause `value`, which `ServerErrorsExplained` confines to DELETE.
- *Answers.* `docs/api.md:11` has logout "always `204`", a failing statement makes it 500;
  `README.md:16` has every error in JSON, a path outside `/api` gets Express's own HTML 404.
- *Facebook.* An answer below 500 that refuses this service is taken for a bad user token, because
  `axios-client.ts:9` does not retry it and the one `.catch` of `facebook-api.ts:45` swallows it. With a
  wrong client secret the call for the *app's* token is refused, and every login is a 401 until the
  configuration is mended; under Facebook's own rate limit (429) good tokens are 401s for its length.
  `ServerErrorsExplained` names this exception.
- *Transactions that do not begin.* `connection.ts:41` runs `startTransaction` outside the `try`, so a
  `START TRANSACTION` that fails on a client that lives on (a statement time-out, a server that refuses
  it) is never followed by the `release` of line 52. The client is lost to the pool; when all are, every
  later request waits, since no time-out is set (`PoolStranded`). `OnlyFailedBeginKeepsClient` and
  `EveryRequestAnswered` name this exception and confine the loss to it.
- *Configuration.* `docs/operations.md:7` requires the `DB_*` settings in production; `env.ts:9-13` has
  defaults for them in every environment, the password's too, and a production process without them
  starts. `OnlyDatabaseKeepsDefaults` names this exception and excludes any other. An empty
  `REFRESH_TOKEN_PURGE_INTERVAL_MINUTES` or `OUTBOX_POLL_INTERVAL_SECONDS`
  is coerced to 0 and so disables its job, and an interval above 2^31 - 1 ms makes Node's timer fire
  every millisecond.
- *Preflights.* Without `CORS_ALLOWED_ORIGINS` in production, `cors({ origin: false })` passes every
  request on: an `OPTIONS` counts against the client's quota, may get a 429, and is a 404 of the router.
- *Clocks.* Grace and expiry compare times of different instances: skew lengthens or shortens both, and
  the purge deletes spent rows with the rest, after which their replay is an unknown token.
- *Rolling updates.* The modelled deployment has one container at a time, which is what
  `ServesOnlyMatchingSchema` and its theorem speak of. `aws_ecs_service` (`infra/app.tf:228-256`) rolls:
  while a new container migrates, an old one that still serves would read columns that a migration
  renames, and the circuit breaker may roll back to an image older than the schema. Neither is modelled,
  since the code of an older image is not in this repository. Reverting the last
  migration drops the outbox with its rows, reverting down to the second the families; both are fit
  only for a stopped system.

## 7. What is left out

- PostgreSQL itself: row locks, snapshots, unique indexes, deadlock detection and rollback are modelled
  from how the code relies on them, not from its source. An insert with its conflict rule is one step.
  The same goes for express-rate-limit, multer, the JSON parser, jsonwebtoken and TypeORM's migrations.
- How often `BEGIN` fails with a client in hand (`helpers/connection.ts:41`): TypeORM and pg decide it;
  the model lets it happen at any time.
- Whether the grace comparison of `refresh-token.ts:27` is the right one: `ReuseDetected` and `Reject`
  transcribe it, and the properties hold on both sides of it, but a session may be ended by its client at
  any time, so that they would hold for another window too.
- Lease and poll durations: any lease may lapse, any poll may come, in any order.
- Clock skew between instances, and overflow of serial ids.
- Which letters are the initials, the text of answers, signed URLs; a login's name update changes
  nothing else. Which of several validation errors is reported first.
- What is logged, counted or reported as health: it changes nothing that another part depends on. Who
  may read it is in `HttpServer` (`OpsAuth`), and that it answers 200 with the database down.
- Headers other than the address and the authorization; CORS but for who answers a preflight; Helmet.
- Factories (wiring that the models follow), tests, Swagger documents, scripts, Docker images, Terraform
  but for the command and the restarts of the container, CI.
- Of a process: what TypeORM and pg do with the clients that jobs hold when the pool ends. The stores see
  a job that dies at that point (`Outbox`, `RefreshTokens`).
- `PROJECT.json` gives each component its status and its reason.

## 8. Where it could go on

What is listed above as partly modelled has no control left that another part depends on. Two additions
would be worth their length: two containers of different versions over one database, once the repository
says how it means to roll out; and the skew of the clocks of two instances in `RefreshTokens`, as a clock
for each of its processes, to say how much of it the grace window bears.
