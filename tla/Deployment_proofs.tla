--------------------------- MODULE Deployment_proofs ---------------------------
(****************************************************************************)
(* Deployment, for any databases that fit the migrations applied to them    *)
(* and any number of accounts and sessions: the process finds the schema it *)
(* is written for.                                                          *)
(*                                                                          *)
(* Every migration leaves a database that fits the version it reaches, so   *)
(* what is committed fits at all times; and the process runs only between a *)
(* commit of the last version and its own end.  What the transaction holds  *)
(* has the accounts and the sessions of what is committed: so a refusal is  *)
(* the fault of committed rows, and an upgrade loses nobody.                *)
(****************************************************************************)
EXTENDS Deployment, AppProcess_proofs, TLAPS

Good(d) == Shaped(d) /\ Fits(d)

\* w has the accounts and the sessions of d, with the families of d or one
\* for each session.
Keeps(d, w) ==
    /\ DOMAIN w.users = DOMAIN d.users
    /\ \A u \in DOMAIN d.users :
         /\ w.users[u].email.address = d.users[u].email.address
         /\ w.users[u].facebookId = d.users[u].facebookId
         /\ w.users[u].picture = "none" <=> d.users[u].picture = "none"
    /\ DOMAIN w.tokens = DOMAIN d.tokens
    /\ \A t \in DOMAIN d.tokens : w.tokens[t].user = d.tokens[t].user
    /\ \/ \A t \in DOMAIN d.tokens : w.tokens[t].family = d.tokens[t].family
       \/ \A t \in DOMAIN d.tokens : w.tokens[t].family = t

Duplicates(d) ==
    \E u, v \in DOMAIN d.users :
        /\ u # v
        /\ \/ d.users[u].email.address = d.users[v].email.address
           \/ d.users[u].facebookId = d.users[v].facebookId /\ d.users[u].facebookId # Null

\* who runs in the container, and on what
ContainerOK ==
    /\ phase \in {"load", "up"} => stage = "app"
    /\ stage = "app" => db.applied = Latest
    /\ working # Null => stage = "migrate" /\ Good(working) /\ Keeps(db, working)
    /\ stage = "refused" => Duplicates(db)

DatabaseInv == Good(db) /\ ContainerOK

----------------------------------------------------------------------------
\* The second migration gives every token a family of its own.
LEMMA Families ==
  ASSUME NEW d, Shaped(d), NEW tokens, tokens = FamilyOfItsOwn(d.tokens)
  PROVE  /\ DOMAIN tokens = DOMAIN d.tokens
         /\ \A t \in DOMAIN tokens :
              /\ t # Null /\ ShapedToken(tokens[t])
              /\ tokens[t].family = t /\ tokens[t].user = d.tokens[t].user
<1>1. DOMAIN tokens = DOMAIN d.tokens
  BY DEF FamilyOfItsOwn
<1>2. ASSUME NEW t \in DOMAIN tokens
      PROVE  /\ t # Null /\ ShapedToken(tokens[t])
             /\ tokens[t].family = t /\ tokens[t].user = d.tokens[t].user
  <2>1. tokens[t] = [d.tokens[t] EXCEPT !.family = t]
    BY <1>1 DEF FamilyOfItsOwn
  <2>2. t # Null /\ d.tokens[t] = [user |-> d.tokens[t].user, family |-> d.tokens[t].family]
    BY <1>1 DEF Shaped, ShapedToken
  <2> QED BY <2>1, <2>2 DEF ShapedToken
<1> QED BY <1>1, <1>2

\* Its reversal takes them away.
LEMMA NoMoreFamilies ==
  ASSUME NEW d, Shaped(d), NEW tokens, tokens = NoFamilies(d.tokens)
  PROVE  \A t \in DOMAIN tokens : t # Null /\ ShapedToken(tokens[t])
<1>1. DOMAIN tokens = DOMAIN d.tokens
  BY DEF NoFamilies
<1>2. ASSUME NEW t \in DOMAIN tokens
      PROVE  t # Null /\ ShapedToken(tokens[t])
  <2>1. tokens[t] = [d.tokens[t] EXCEPT !.family = Null]
    BY <1>1 DEF NoFamilies
  <2>2. t # Null /\ d.tokens[t] = [user |-> d.tokens[t].user, family |-> d.tokens[t].family]
    BY <1>1 DEF Shaped, ShapedToken
  <2> QED BY <2>1, <2>2 DEF ShapedToken
<1> QED BY <1>2

\* The fourth touches pictures only, and leaves no URL.
LEMMA Pictures ==
  ASSUME NEW d, Shaped(d), NEW users, users = KeyOfPicture(d.users)
  PROVE  /\ DOMAIN users = DOMAIN d.users
         /\ \A u \in DOMAIN users :
              /\ ShapedUser(users[u])
              /\ users[u].email = d.users[u].email
              /\ users[u].facebookId = d.users[u].facebookId
              /\ users[u].picture # "url"
              /\ users[u].picture = "none" <=> d.users[u].picture = "none"
<1>1. DOMAIN users = DOMAIN d.users
  BY DEF KeyOfPicture
<1>2. ASSUME NEW u \in DOMAIN users
      PROVE  /\ ShapedUser(users[u])
             /\ users[u].email = d.users[u].email
             /\ users[u].facebookId = d.users[u].facebookId
             /\ users[u].picture # "url"
             /\ users[u].picture = "none" <=> d.users[u].picture = "none"
  <2>1. users[u] = [d.users[u] EXCEPT !.picture = IF @ = "url" THEN "key" ELSE @]
    BY <1>1 DEF KeyOfPicture
  <2>2. d.users[u] = [email |-> [address |-> d.users[u].email.address,
                                 spelling |-> d.users[u].email.spelling],
                      facebookId |-> d.users[u].facebookId,
                      picture |-> d.users[u].picture]
    BY <1>1 DEF Shaped, ShapedUser
  <2> QED BY <2>1, <2>2 DEF ShapedUser
<1> QED BY <1>1, <1>2

\* The fifth touches the spelling of e-mails only, and leaves no other.
LEMMA Spellings ==
  ASSUME NEW d, Shaped(d), NEW users, users = Normalized(d.users)
  PROVE  /\ DOMAIN users = DOMAIN d.users
         /\ \A u \in DOMAIN users :
              /\ ShapedUser(users[u])
              /\ users[u].email.spelling = "lower"
              /\ users[u].email.address = d.users[u].email.address
              /\ users[u].facebookId = d.users[u].facebookId
              /\ users[u].picture = d.users[u].picture
<1>1. DOMAIN users = DOMAIN d.users
  BY DEF Normalized
<1>2. ASSUME NEW u \in DOMAIN users
      PROVE  /\ ShapedUser(users[u])
             /\ users[u].email.spelling = "lower"
             /\ users[u].email.address = d.users[u].email.address
             /\ users[u].facebookId = d.users[u].facebookId
             /\ users[u].picture = d.users[u].picture
  <2>1. users[u] = [d.users[u] EXCEPT !.email.spelling = "lower"]
    BY <1>1 DEF Normalized
  <2>2. d.users[u] = [email |-> [address |-> d.users[u].email.address,
                                 spelling |-> d.users[u].email.spelling],
                      facebookId |-> d.users[u].facebookId,
                      picture |-> d.users[u].picture]
    BY <1>1 DEF Shaped, ShapedUser
  <2> QED BY <2>1, <2>2 DEF ShapedUser
<1> QED BY <1>1, <1>2

\* A unique index holds for rows with the same values in its column.
LEMMA UniqueKept ==
  ASSUME NEW rows, NEW others, NEW column, Unique(rows, column),
         DOMAIN others = DOMAIN rows,
         \A u \in DOMAIN rows : others[u][column] = rows[u][column]
  PROVE  Unique(others, column)
BY DEF Unique

\* A migration that is not refused leaves a database that fits.
LEMMA UpFits ==
  ASSUME NEW d, Good(d), d.applied < Latest, ~UpRefused(d)
  PROVE  Good(MigrateUp(d))
<1> SUFFICES ASSUME NEW e, e = MigrateUp(d), NEW n, n = d.applied + 1 PROVE Good(e)
  OBVIOUS
<1>1. d.applied \in 0..5 /\ n \in 1..6 /\ e.applied = n /\ n = d.applied + 1
  BY DEF Good, Shaped, Latest, MigrateUp
<1>2. Shaped(d) /\ Fits(d)
  BY DEF Good
<1>3. CASE n \in {1, 3, 6}
  <2>1. e.users = d.users /\ e.tokens = d.tokens
    BY <1>3 DEF MigrateUp
  <2>2. Shaped(e)
    BY <1>1, <1>2, <2>1 DEF Shaped, Latest
  <2>3. n = 3 => Unique(d.users, "email") /\ Unique(d.users, "facebookId")
    BY DEF UpRefused
  <2>4. Fits(e)
    BY <1>1, <1>2, <1>3, <2>1, <2>3 DEF Fits
  <2> QED BY <2>2, <2>4 DEF Good
<1>4. CASE n = 2
  <2>1. e.users = d.users /\ e.tokens = FamilyOfItsOwn(d.tokens)
    BY <1>4 DEF MigrateUp
  <2>2. \A t \in DOMAIN e.tokens :
          t # Null /\ ShapedToken(e.tokens[t]) /\ e.tokens[t].family = t
    BY <1>2, <2>1, Families
  <2>3. Shaped(e)
    BY <1>1, <1>2, <2>1, <2>2 DEF Shaped, Latest
  <2>4. Fits(e)
    BY <1>1, <1>4, <2>2 DEF Fits
  <2> QED BY <2>3, <2>4 DEF Good
<1>5. CASE n = 4
  <2>1. e.users = KeyOfPicture(d.users) /\ e.tokens = d.tokens
    BY <1>5 DEF MigrateUp
  <2>2. /\ DOMAIN e.users = DOMAIN d.users
        /\ \A u \in DOMAIN e.users :
             /\ ShapedUser(e.users[u])
             /\ e.users[u].email = d.users[u].email
             /\ e.users[u].facebookId = d.users[u].facebookId
             /\ e.users[u].picture # "url"
    BY <1>2, <2>1, Pictures
  <2>3. Shaped(e)
    BY <1>1, <1>2, <2>1, <2>2 DEF Shaped, Latest
  <2>4. Unique(e.users, "email") /\ Unique(e.users, "facebookId")
    <3>1. Unique(d.users, "email") /\ Unique(d.users, "facebookId")
      BY <1>1, <1>2, <1>5 DEF Fits
    <3> QED BY <2>2, <3>1, UniqueKept
  <2>5. Fits(e)
    BY <1>1, <1>2, <1>5, <2>1, <2>2, <2>4 DEF Fits
  <2> QED BY <2>3, <2>5 DEF Good
<1>6. CASE n = 5
  <2>1. e.users = Normalized(d.users) /\ e.tokens = d.tokens
    BY <1>6 DEF MigrateUp
  <2>2. Unique(Normalized(d.users), "email")
    BY <1>6 DEF UpRefused, EmailsRefused
  <2>3. /\ DOMAIN e.users = DOMAIN d.users
        /\ \A u \in DOMAIN e.users :
             /\ ShapedUser(e.users[u])
             /\ e.users[u].email.spelling = "lower"
             /\ e.users[u].facebookId = d.users[u].facebookId
             /\ e.users[u].picture = d.users[u].picture
    BY <1>2, <2>1, Spellings
  <2>4. Shaped(e)
    BY <1>1, <1>2, <2>1, <2>3 DEF Shaped, Latest
  <2>5. Unique(e.users, "email") /\ Unique(e.users, "facebookId")
    <3>1. Unique(d.users, "facebookId")
      BY <1>1, <1>2, <1>6 DEF Fits
    <3> QED BY <2>1, <2>2, <2>3, <3>1, UniqueKept
  <2>6. Fits(e)
    BY <1>1, <1>2, <1>6, <2>1, <2>3, <2>5 DEF Fits
  <2> QED BY <2>4, <2>6 DEF Good
<1> QED BY <1>1, <1>3, <1>4, <1>5, <1>6

\* It keeps every account and every session.
LEMMA UpKeeps ==
  ASSUME NEW c, NEW d, Good(d), Keeps(c, d), d.applied < Latest
  PROVE  Keeps(c, MigrateUp(d))
<1> SUFFICES ASSUME NEW e, e = MigrateUp(d), NEW n, n = d.applied + 1 PROVE Keeps(c, e)
  OBVIOUS
<1>1. n \in 1..6 /\ Shaped(d)
  BY DEF Good, Shaped, Latest
<1>2. CASE n \in {1, 3, 6}
  <2>1. e.users = d.users /\ e.tokens = d.tokens
    BY <1>2 DEF MigrateUp
  <2> QED BY <2>1 DEF Keeps
<1>3. CASE n = 2
  <2>1. e.users = d.users /\ e.tokens = FamilyOfItsOwn(d.tokens)
    BY <1>3 DEF MigrateUp
  <2>2. /\ DOMAIN e.tokens = DOMAIN d.tokens
        /\ \A t \in DOMAIN e.tokens : e.tokens[t].family = t /\ e.tokens[t].user = d.tokens[t].user
    BY <1>1, <2>1, Families
  <2> QED BY <2>1, <2>2 DEF Keeps
<1>4. CASE n = 4
  <2>1. e.users = KeyOfPicture(d.users) /\ e.tokens = d.tokens
    BY <1>4 DEF MigrateUp
  <2>2. /\ DOMAIN e.users = DOMAIN d.users
        /\ \A u \in DOMAIN e.users :
             /\ e.users[u].email = d.users[u].email
             /\ e.users[u].facebookId = d.users[u].facebookId
             /\ e.users[u].picture = "none" <=> d.users[u].picture = "none"
    BY <1>1, <2>1, Pictures
  <2> QED BY <2>1, <2>2 DEF Keeps
<1>5. CASE n = 5
  <2>1. e.users = Normalized(d.users) /\ e.tokens = d.tokens
    BY <1>5 DEF MigrateUp
  <2>2. /\ DOMAIN e.users = DOMAIN d.users
        /\ \A u \in DOMAIN e.users :
             /\ e.users[u].email.address = d.users[u].email.address
             /\ e.users[u].facebookId = d.users[u].facebookId
             /\ e.users[u].picture = d.users[u].picture
    BY <1>1, <2>1, Spellings
  <2> QED BY <2>1, <2>2 DEF Keeps
<1> QED BY <1>1, <1>2, <1>3, <1>4, <1>5

\* Two rows of one e-mail or one identity are such in what is committed.
LEMMA DuplicatesCommitted ==
  ASSUME NEW c, NEW d, Keeps(c, d), Duplicates(d)
  PROVE  Duplicates(c)
BY DEF Keeps, Duplicates

\* A refusal has its duplicates.
LEMMA RefusedDuplicates ==
  ASSUME NEW d, Good(d), UpRefused(d)
  PROVE  Duplicates(d)
<1>1. CASE ~Unique(d.users, "email")
  BY <1>1 DEF Unique, Duplicates
<1>2. CASE ~Unique(d.users, "facebookId")
  BY <1>2 DEF Unique, Duplicates
<1>3. CASE EmailsRefused(d.users)
  <2>1. PICK users : users = Normalized(d.users)
    OBVIOUS
  <2>2. /\ DOMAIN users = DOMAIN d.users
        /\ \A u \in DOMAIN users :
             /\ users[u].email.spelling = "lower"
             /\ users[u].email.address = d.users[u].email.address
    BY <2>1, Spellings DEF Good
  <2>3. Lowercase(users)
    BY <2>2 DEF Lowercase
  <2>4. ~Unique(users, "email")
    BY <1>3, <2>1, <2>3 DEF EmailsRefused
  <2>5. PICK u \in DOMAIN users, v \in DOMAIN users : u # v /\ users[u].email = users[v].email
    BY <2>4 DEF Unique
  <2> QED BY <2>2, <2>5 DEF Duplicates
<1> QED BY <1>1, <1>2, <1>3 DEF UpRefused

\* The reversal of a migration leaves a database that fits, too.
LEMMA DownFits ==
  ASSUME NEW d, Good(d), d.applied > 0
  PROVE  Good(MigrateDown(d))
<1> SUFFICES ASSUME NEW e, e = MigrateDown(d), NEW n, n = d.applied PROVE Good(e)
  OBVIOUS
<1>1. n \in 1..6 /\ e.applied = n - 1 /\ n - 1 \in 0..5
  BY DEF Good, Shaped, Latest, MigrateDown
<1>2. Shaped(d) /\ Fits(d)
  BY DEF Good
<1>3. CASE n = 1
  <2>1. e.users = <<>> /\ e.tokens = <<>> /\ e.applied = 0
    BY <1>1, <1>3 DEF MigrateDown
  <2> QED BY <2>1 DEF Good, Shaped, Fits, Latest
<1>4. CASE n = 2
  <2>1. e.users = d.users /\ e.tokens = NoFamilies(d.tokens) /\ e.applied = 1
    BY <1>1, <1>4 DEF MigrateDown
  <2>2. \A t \in DOMAIN e.tokens : t # Null /\ ShapedToken(e.tokens[t])
    BY <1>2, <2>1, NoMoreFamilies
  <2>3. Shaped(e)
    BY <1>2, <2>1, <2>2 DEF Shaped, Latest
  <2>4. Fits(e)
    BY <2>1 DEF Fits
  <2> QED BY <2>3, <2>4 DEF Good
<1>5. CASE n > 2
  <2>1. e.users = d.users /\ e.tokens = d.tokens
    BY <1>1, <1>5 DEF MigrateDown
  <2>2. Shaped(e)
    BY <1>1, <1>2, <2>1 DEF Shaped, Latest
  <2>3. Fits(e)
    BY <1>1, <1>2, <2>1 DEF Fits
  <2> QED BY <2>2, <2>3 DEF Good
<1> QED BY <1>1, <1>3, <1>4, <1>5

----------------------------------------------------------------------------
LEMMA InitDatabaseInv == DeploymentInit => DatabaseInv
BY DatabasesAssumption DEF DeploymentInit, Init, DatabaseInv, ContainerOK, Good

LEMMA NextDatabaseInv == DatabaseInv /\ [DeploymentNext]_<<vars, schema>> => DatabaseInv'
<1> SUFFICES ASSUME DatabaseInv, [DeploymentNext]_<<vars, schema>> PROVE DatabaseInv'
  OBVIOUS
<1> USE DEF DatabaseInv, ContainerOK
<1>1. CASE BeginMigrations
  <2>1. Keeps(db, db)
    BY DEF Keeps
  <2> QED BY <1>1, <2>1 DEF BeginMigrations, vars
<1>2. CASE RunMigration
  <2>1. Good(MigrateUp(working))
    BY <1>2, UpFits DEF RunMigration
  <2>2. Keeps(db, MigrateUp(working))
    BY <1>2, UpKeeps DEF RunMigration
  <2> QED BY <1>2, <2>1, <2>2 DEF RunMigration, vars
<1>3. CASE MigrationRefused
  <2>1. Duplicates(db)
    BY <1>3, RefusedDuplicates, DuplicatesCommitted DEF MigrationRefused
  <2> QED BY <1>3, <2>1 DEF MigrationRefused, vars
<1>4. CASE MigrationInterrupted
  BY <1>4 DEF MigrationInterrupted, vars
<1>5. CASE CommitMigrations
  BY <1>5 DEF CommitMigrations, vars
<1>6. CASE AppStep
  BY <1>6 DEF AppStep, schema
<1>7. CASE ContainerEnds
  BY <1>7 DEF ContainerEnds
<1>8. CASE ContainerStarts
  BY <1>8 DEF ContainerStarts, vars
<1>9. CASE Revert
  <2>1. Good(MigrateDown(db))
    BY <1>9, DownFits DEF Revert
  <2> QED BY <1>9, <2>1 DEF Revert, vars
<1>10. CASE UNCHANGED <<vars, schema>>
  BY <1>10 DEF vars, schema
<1> QED BY <1>1, <1>2, <1>3, <1>4, <1>5, <1>6, <1>7, <1>8, <1>9, <1>10 DEF DeploymentNext

\* The invariant holds in every reachable state.
THEOREM DatabaseInvariant == DeploymentSpec => []DatabaseInv
<1> QED BY InitDatabaseInv, NextDatabaseInv, PTL DEF DeploymentSpec

\* A process that reads the database finds the schema and the data its code
\* is written for (ServesOnlyMatchingSchema), however often migrations were
\* refused, interrupted or reverted.
THEOREM MatchingSchema == DeploymentSpec => []ServesOnlyMatchingSchema
<1>1. DatabaseInv => ServesOnlyMatchingSchema
  BY DEF DatabaseInv, ContainerOK, Good, Fits, Latest, ServesOnlyMatchingSchema
<1> QED BY <1>1, DatabaseInvariant, PTL

\* Migrations are refused for two rows of one e-mail or of one identity, and
\* for nothing else (BlockedOnlyByDuplicates).
THEOREM OnlyDuplicatesBlock == DeploymentSpec => []BlockedOnlyByDuplicates
<1>1. DatabaseInv => BlockedOnlyByDuplicates
  BY DEF DatabaseInv, ContainerOK, Duplicates, BlockedOnlyByDuplicates
<1> QED BY <1>1, DatabaseInvariant, PTL

\* An upgrade keeps every account and every session, and keeps sessions apart
\* that were (AccountsSurviveUpgrade).
THEOREM UpgradeKeeps == DeploymentSpec => AccountsSurviveUpgrade
<1> DEFINE Survive ==
      db'.applied > db.applied =>
        /\ DOMAIN db'.users = DOMAIN db.users /\ DOMAIN db'.tokens = DOMAIN db.tokens
        /\ \A u \in DOMAIN db.users :
             LET old == db.users[u]  new == db'.users[u]
             IN  /\ new.email.address = old.email.address
                 /\ new.facebookId = old.facebookId
                 /\ new.picture = "none" <=> old.picture = "none"
        /\ \A t \in DOMAIN db.tokens :
             /\ db'.tokens[t].user = db.tokens[t].user
             /\ \A s \in DOMAIN db.tokens :
                  /\ db'.tokens[s].family = db'.tokens[t].family
                  /\ db.tokens[t].family = Null \/ db.tokens[s].family # db.tokens[t].family
                  => s = t
<1>1. DatabaseInv /\ [DeploymentNext]_<<vars, schema>> => [Survive]_<<vars, schema>>
  <2> SUFFICES ASSUME DatabaseInv, DeploymentNext PROVE Survive
    OBVIOUS
  <2>1. CASE CommitMigrations
    <3>1. Keeps(db, db') /\ Good(db')
      BY <2>1 DEF CommitMigrations, DatabaseInv, ContainerOK
    <3>2. \A t \in DOMAIN db'.tokens : db'.tokens[t].family # Null
      BY <2>1, <3>1 DEF CommitMigrations, Good, Fits, Latest
    <3>3. \A s, t \in DOMAIN db.tokens :
            /\ db'.tokens[s].family = db'.tokens[t].family
            /\ db.tokens[t].family = Null \/ db.tokens[s].family # db.tokens[t].family
            => s = t
      BY <3>1, <3>2 DEF Keeps
    <3> QED BY <3>1, <3>3 DEF Keeps
  <2>2. CASE ~(db'.applied > db.applied)
    BY <2>2
  <2>3. CASE Revert
    <3>1. db.applied \in 0..6 /\ db'.applied = db.applied - 1
      BY <2>3 DEF Revert, MigrateDown, DatabaseInv, Good, Shaped, Latest
    <3> QED BY <3>1, <2>2
  <2>4. CASE db' = db
    <3>1. db.applied \in 0..6
      BY DEF DatabaseInv, Good, Shaped, Latest
    <3> QED BY <3>1, <2>4, <2>2
  <2> QED BY <2>1, <2>3, <2>4
          DEF DeploymentNext, BeginMigrations, RunMigration, MigrationRefused,
              MigrationInterrupted, AppStep, ContainerEnds, ContainerStarts, schema
<1> QED BY <1>1, DatabaseInvariant, PTL DEF DeploymentSpec, AccountsSurviveUpgrade

----------------------------------------------------------------------------
(* The process keeps its promises in every container, as AppProcess does    *)
(* alone: a container that ends leaves the next one the initial state.      *)

ProcessInv == IInv

LEMMA InitProcessInv == DeploymentInit => ProcessInv
BY InitIInv DEF DeploymentInit, ProcessInv

\* A container that ends leaves the next one the initial state.
LEMMA EndsAsInit == ContainerEnds => Init'
BY DEF ContainerEnds, Init

LEMMA NextProcessInv == ProcessInv /\ [DeploymentNext]_<<vars, schema>> => ProcessInv'
<1> SUFFICES ASSUME IInv, [DeploymentNext]_<<vars, schema>> PROVE IInv'
  BY DEF ProcessInv
<1>1. CASE [Next]_vars
  BY <1>1, NextIInv
<1>2. CASE ContainerEnds
  <2>1. Init'
    BY <1>2, EndsAsInit
  <2>2. Init' => IInv'
    BY InitIInv, PTL
  <2> QED BY <2>1, <2>2
<1> QED BY <1>1, <1>2
        DEF DeploymentNext, BeginMigrations, RunMigration, MigrationRefused,
            MigrationInterrupted, CommitMigrations, AppStep, ContainerStarts, Revert

\* The invariant of the process holds in every state of the deployment.
THEOREM ProcessInvariant == DeploymentSpec => []ProcessInv
<1> QED BY InitProcessInv, NextProcessInv, PTL DEF DeploymentSpec

\* Type correctness of the process, in every container.
THEOREM TypeCorrectInContainers == DeploymentSpec => []TypeOK
<1>1. ProcessInv => TypeOK
  BY InvPromises DEF ProcessInv
<1> QED BY <1>1, ProcessInvariant, PTL

\* Graceful shutdown in every container: a client that waits for its answer
\* keeps the process and the pool (ConnectedClientsServed).
THEOREM GracefulInContainers == DeploymentSpec => []ConnectedClientsServed
<1>1. ProcessInv => ConnectedClientsServed
  BY InvPromises DEF ProcessInv
<1> QED BY <1>1, ProcessInvariant, PTL

\* Runs of a job never overlap, in any container (JobsNeverOverlap).
THEOREM NoOverlapInContainers == DeploymentSpec => []JobsNeverOverlap
<1>1. ProcessInv => JobsNeverOverlap
  BY InvPromises DEF ProcessInv
<1> QED BY <1>1, ProcessInvariant, PTL

\* No job starts once a shutdown is on its way, in any container
\* (JobStartsBeforeShutdown).
THEOREM NoLateJobInContainers == DeploymentSpec => JobStartsBeforeShutdown
<1>1. ProcessInv /\ [DeploymentNext]_<<vars, schema>> => [OnTime]_vars
  <2> SUFFICES ASSUME IInv, [DeploymentNext]_<<vars, schema>>, ~UNCHANGED vars PROVE OnTime
    BY DEF ProcessInv
  <2>1. CASE Next
    BY <2>1, StepOnTime
  <2>2. CASE ContainerEnds
    <3>1. \A j \in Jobs : active[j] \in Nat /\ active'[j] = 0
      BY <2>2 DEF IInv, TypeOK, ContainerEnds
    <3> QED BY <3>1 DEF OnTime
  <2> QED BY <2>1, <2>2
          DEF DeploymentNext, BeginMigrations, RunMigration, MigrationRefused,
              MigrationInterrupted, CommitMigrations, AppStep, ContainerStarts, Revert
<1> QED BY <1>1, ProcessInvariant, PTL DEF DeploymentSpec, JobStartsBeforeShutdown, OnTime
===============================================================================
