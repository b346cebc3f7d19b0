------------------------------ MODULE Deployment ------------------------------
(****************************************************************************)
(* A container of the API, again and again: it runs the pending migrations, *)
(* all in one transaction, and if that succeeds becomes the process of      *)
(* AppProcess (infra/app.tf); it is started anew when either of the two has *)
(* ended.  Between two containers an operator may revert a migration.       *)
(*                                                                          *)
(* One container at a time, of one version.  The service rolls: a container *)
(* of an older image may serve while this one migrates, and may be rolled   *)
(* back to; the code of that image is not in this repository.               *)
(****************************************************************************)
EXTENDS AppProcess, SchemaMigrations

CONSTANT Databases  \* what the first container may find

ASSUME DatabasesAssumption == \A d \in Databases : Shaped(d) /\ Fits(d)

VARIABLES
    stage,   \* of the container: migrate or app; down; refused: the data failed a migration
    db,      \* committed
    working  \* the transaction of the migrations, Null outside

schema == <<stage, db, working>>

DeploymentInit ==
    /\ Init
    /\ stage = "migrate"
    /\ db \in Databases
    /\ working = Null

----------------------------------------------------------------------------
BeginMigrations ==
    /\ stage = "migrate" /\ working = Null
    /\ working' = db
    /\ UNCHANGED <<vars, stage, db>>

RunMigration ==
    /\ working # Null /\ working.applied < Latest
    /\ ~UpRefused(working)
    /\ working' = MigrateUp(working)
    /\ UNCHANGED <<vars, stage, db>>

\* Mutant: "migration:run:prod ; node" runs the API whatever became of the migrations.
MigrationRefusedUnnoticed ==
    /\ working # Null /\ working.applied < Latest
    /\ UpRefused(working)
    /\ working' = Null
    /\ stage' = "app"
    /\ UNCHANGED <<vars, db>>

\* everything is rolled back, and "&&" does not go on
MigrationRefused ==
    /\ working # Null /\ working.applied < Latest
    /\ UpRefused(working)
    /\ working' = Null
    /\ stage' = "refused"
    /\ UNCHANGED <<vars, db>>

\* the database, or the container, goes away meanwhile
MigrationInterrupted ==
    /\ stage = "migrate"
    /\ working' = Null
    /\ stage' = "down"
    /\ UNCHANGED <<vars, db>>

CommitMigrations ==
    /\ working # Null /\ working.applied = Latest
    /\ db' = working
    /\ working' = Null
    /\ stage' = "app"
    /\ UNCHANGED vars

AppStep ==
    /\ stage = "app"
    /\ Next
    /\ UNCHANGED schema

\* the next process will start as every process does
ContainerEnds ==
    /\ stage = "app" /\ phase \in {"exit 0", "exit 1", "killed"}
    /\ stage' = "down"
    /\ phase' = "connect" /\ pool' = "connecting" /\ server' = "none"
    /\ socket' = [c \in Clients |-> "none"] /\ handler' = [c \in Clients |-> "none"]
    /\ armed' = [j \in Jobs |-> FALSE] /\ running' = [j \in Jobs |-> FALSE]
    /\ active' = [j \in Jobs |-> 0]
    /\ signals' = 0 /\ closers' = 0 /\ settled' = FALSE
    /\ UNCHANGED <<db, working>>

\* the next one, once there is none; it is of the same image
ContainerStarts ==
    /\ stage \in {"down", "refused"}
    /\ stage' = "migrate"
    /\ UNCHANGED <<vars, db, working>>

\* npm run migration:revert, while nothing runs
Revert ==
    /\ stage = "down" /\ db.applied > 0
    /\ db' = MigrateDown(db)
    /\ UNCHANGED <<vars, stage, working>>

----------------------------------------------------------------------------
DeploymentNext ==
    \/ BeginMigrations \/ RunMigration \/ MigrationRefused \/ MigrationInterrupted
    \/ CommitMigrations
    \/ AppStep
    \/ ContainerEnds \/ ContainerStarts \/ Revert

\* that of the process: nothing is assumed of containers and operators
DeploymentSpec == DeploymentInit /\ [][DeploymentNext]_<<vars, schema>> /\ Fairness

----------------------------------------------------------------------------
(* Properties *)

\* docs/operations.md:61, "Run migrations before starting a new version":
\* where one container runs at a time, a process that reads the database finds
\* the schema and the data its code is written for, whatever the database was,
\* and however often migrations were refused, interrupted or reverted: e-mails
\* a lookup by lower(trim(...)) finds and that are unique, one account per
\* identity, keys and no URLs, and a family for every token.
ServesOnlyMatchingSchema ==
    phase \in {"load", "up"} =>
        /\ db.applied = Latest
        /\ Unique(db.users, "email") /\ Unique(db.users, "facebookId")
        /\ \A u \in DOMAIN db.users :
             db.users[u].email.spelling = "lower" /\ db.users[u].picture # "url"
        /\ \A t \in DOMAIN db.tokens : db.tokens[t].family # Null

\* An upgrade keeps every account, with its identity and its picture, and
\* every session; and sessions that were apart stay apart: no logout ends two
\* of them because they came from before families (or lost them to a revert).
AccountsSurviveUpgrade ==
    [][db'.applied > db.applied =>
        /\ DOMAIN db'.users = DOMAIN db.users /\ DOMAIN db'.tokens = DOMAIN db.tokens
        /\ \A u \in DOMAIN db.users :
             LET old == db.users[u]  new == db'.users[u]
             IN  /\ new.email.address = old.email.address
                 /\ new.facebookId = old.facebookId
                 /\ new.picture = "none" <=> old.picture = "none"
        /\ \A t \in DOMAIN db.tokens :
             /\ db'.tokens[t].user = db.tokens[t].user
             /\ \A s \in DOMAIN db.tokens :
                  /\ db'.tokens[s].family = db'.tokens[t].family
                  /\ db.tokens[t].family = Null \/ db.tokens[s].family # db.tokens[t].family
                  => s = t]_<<vars, schema>>

\* Migrations are refused for what their comments say, two rows of one e-mail
\* ("differing only by case or spaces") or of one identity, and for nothing
\* else: after a container was refused the operator has duplicates to find.
BlockedOnlyByDuplicates ==
    stage = "refused" =>
        \E u, v \in DOMAIN db.users :
            /\ u # v
            /\ \/ db.users[u].email.address = db.users[v].email.address
               \/ db.users[u].facebookId = db.users[v].facebookId /\ db.users[u].facebookId # Null
===============================================================================
