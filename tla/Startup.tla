------------------------------ MODULE Startup -------------------------------
(***************************************************************************)
(* How an installation comes up.  The job db-bootstrap (bootstrap_db.sh)   *)
(* prepares the PostgreSQL instance; at the same time every replica of the *)
(* API runs entrypoint.py: wait for the database, migrate it, create the   *)
(* bootstrap admin, serve.  Nothing coordinates them.  Whatever fails      *)
(* exits with 1, and Kubernetes or Compose starts the container again from *)
(* the beginning.                                                          *)
(*                                                                         *)
(* The stages of a replica:                                                *)
(*                                                                         *)
(*   "down"       the container is not running                             *)
(*   "wait"       wait_for_db                                              *)
(*   "migrate"    alembic or manage.py migrate is started                  *)
(*   "ddl"        it has read the version table                            *)
(*   "locked"     its DDL is sent and locks the tables; COMMIT is due      *)
(*   "record"     Django only: migrated, django_migrations not written yet *)
(*   "bootstrap"  the bootstrap script is started                          *)
(*   "insert"     its INSERT is sent, COMMIT is due                        *)
(*   "serve"      uvicorn                                                  *)
(*                                                                         *)
(* The users are owned by Users.tla; of them only matters here whether one *)
(* has the username BOOTSTRAP_ADMIN.                                       *)
(***************************************************************************)
EXTENDS Integers

CONSTANTS
  Replicas,    \* the API containers, those a rolling update adds included
  MaxStops,    \* bound: crashes of a container or of the database
  MaxRenames   \* bound: changes of the bootstrap admin's username

ASSUME StartupAssumption ==
  /\ MaxStops \in Nat /\ MaxStops <= 3  \* backoffLimit of the job
  /\ MaxRenames \in Nat

VARIABLES
  env,      \* the configuration, and what an older release left behind
  up,       \* PostgreSQL accepts connections
  job,      \* how many of its steps the running db-bootstrap has done
  granted,  \* how many of those steps are in force in the database
  tables,   \* the schema revision the tables have
  version,  \* the schema revision the version table records
  taken,    \* a user is named BOOTSTRAP_ADMIN
  created,  \* how many admins the bootstrap script has created
  pc,       \* the stage of each replica
  seen,     \* the revision each replica has read
  stops, renames

vars == <<env, up, job, granted, tables, version, taken, created, pc, seen,
          stops, renames>>

-----------------------------------------------------------------------------
(* State. *)

(* interface: INTERFACE.  bootstrap: BOOTSTRAP_FLAG.  oldSessions: rows of *)
(* user_sessions written before the column refresh_token_hash existed.     *)
Env == [interface : {"fastapi", "django"}, bootstrap : BOOLEAN,
        oldSessions : BOOLEAN]

Stages == {"down", "wait", "migrate", "ddl", "locked", "record", "bootstrap",
           "insert", "serve"}

(* The steps of bootstrap_db.sh.  All of them can be repeated.             *)
Role == 1         \* CREATE or ALTER ROLE
Database == 2     \* createdb unless it exists
Schema == 3       \* CREATE SCHEMA IF NOT EXISTS
SchemaOwner == 4  \* ALTER SCHEMA .. OWNER
SearchPath == 5   \* ALTER ROLE .. SET search_path
Owner == 6        \* ALTER DATABASE .. OWNER

(* What a migration needs.  Alembic's env.py sets search_path to app and   *)
(* public, so its tables go to public, where only the owner of the         *)
(* database may create them; Django's go to DB_TABLE_SCHEMA.               *)
Needed == IF env.interface = "fastapi" THEN Owner ELSE SchemaOwner

(* The newest revision: two Alembic revisions, one Django migration.       *)
Head == IF env.interface = "fastapi" THEN 2 ELSE 1

AfterMigration == IF env.bootstrap THEN "bootstrap" ELSE "serve"

Move(r, stage) == pc' = [pc EXCEPT ![r] = stage]

Fail(r) == Move(r, "down")

-----------------------------------------------------------------------------
(* entrypoint.py: waiting. *)

(* The restart policy starts the container. *)
Start(r) ==
  /\ pc[r] = "down"
  /\ Move(r, "wait")
  /\ UNCHANGED <<env, up, job, granted, tables, version, taken, created, seen,
                 stops, renames>>

(* The port answers, or 60 seconds have passed. *)
WaitForDb(r) ==
  /\ pc[r] = "wait"
  /\ Move(r, IF up THEN "migrate" ELSE "down")
  /\ UNCHANGED <<env, up, job, granted, tables, version, taken, created, seen,
                 stops, renames>>

-----------------------------------------------------------------------------
(* entrypoint.py: migrating. *)

ReadVersionOrGoOn(r) ==  \* mutant: the exit status of the command is ignored
  /\ pc[r] = "migrate"
  /\ IF up /\ granted >= Needed
       THEN Move(r, "ddl") /\ seen' = [seen EXCEPT ![r] = version]
       ELSE Move(r, AfterMigration) /\ UNCHANGED seen
  /\ UNCHANGED <<env, up, job, granted, tables, version, taken, created, stops,
                 renames>>

(* Connect as DB_USER and read the version table, which is created if it   *)
(* is missing.                                                             *)
ReadVersion(r) ==
  /\ pc[r] = "migrate"
  /\ IF up /\ granted >= Needed
       THEN Move(r, "ddl") /\ seen' = [seen EXCEPT ![r] = version]
       ELSE Fail(r) /\ UNCHANGED seen
  /\ UNCHANGED <<env, up, job, granted, tables, version, taken, created, stops,
                 renames>>

UpToDate(r) ==
  /\ pc[r] = "ddl" /\ seen[r] = Head
  /\ Move(r, AfterMigration)
  /\ UNCHANGED <<env, up, job, granted, tables, version, taken, created, seen,
                 stops, renames>>

(* The DDL from revision n applies: the tables are as n left them, and     *)
(* eaf108d2c2ef can add its NOT NULL column without a default.             *)
Applies(n) == tables = n /\ ~(n = 1 /\ env.oldSessions)

MigrateOnceApplicable(r) ==  \* mutant: waits for the version it has read
  /\ pc[r] = "ddl" /\ seen[r] < Head
  /\ \A q \in Replicas : pc[q] # "locked"
  /\ Applies(seen[r])
  /\ Move(r, "locked")
  /\ UNCHANGED <<env, up, job, granted, tables, version, taken, created, seen,
                 stops, renames>>

(* CREATE or ALTER TABLE waits for the migration of another replica and    *)
(* then finds its work done already, which is an error.                    *)
Migrate(r) ==
  /\ pc[r] = "ddl" /\ seen[r] < Head
  /\ \A q \in Replicas : pc[q] # "locked"
  /\ IF Applies(seen[r]) THEN Move(r, "locked") ELSE Fail(r)
  /\ UNCHANGED <<env, up, job, granted, tables, version, taken, created, seen,
                 stops, renames>>

CommitMigrationApart(r) ==  \* mutant: the version is written afterwards
  /\ pc[r] = "locked"
  /\ tables' = Head
  /\ Move(r, "record")
  /\ UNCHANGED <<env, up, job, granted, version, taken, created, seen, stops,
                 renames>>

(* Alembic runs all revisions and writes its version in one transaction.   *)
(* Django writes django_migrations in a transaction of its own, because    *)
(* the foreign key of user_sessions is added by deferred SQL.              *)
CommitMigration(r) ==
  /\ pc[r] = "locked"
  /\ tables' = Head
  /\ IF env.interface = "fastapi"
       THEN version' = Head /\ Move(r, AfterMigration)
       ELSE UNCHANGED version /\ Move(r, "record")
  /\ UNCHANGED <<env, up, job, granted, taken, created, seen, stops, renames>>

Record(r) ==
  /\ pc[r] = "record"
  /\ version' = Head
  /\ Move(r, AfterMigration)
  /\ UNCHANGED <<env, up, job, granted, tables, taken, created, seen, stops,
                 renames>>

-----------------------------------------------------------------------------
(* bootstrap.py. *)

InsertUnchecked(r) ==  \* mutant: username is not unique
  /\ pc[r] = "bootstrap"
  /\ Move(r, IF up THEN "insert" ELSE "down")
  /\ UNCHANGED <<env, up, job, granted, tables, version, taken, created, seen,
                 stops, renames>>

(* repo.add: the INSERT waits for the INSERT of another replica.  If the   *)
(* username is taken the script says so and exits with 0.                  *)
Insert(r) ==
  /\ pc[r] = "bootstrap"
  /\ \A q \in Replicas : pc[q] # "insert"
  /\ Move(r, IF ~up THEN "down" ELSE IF taken THEN "serve" ELSE "insert")
  /\ UNCHANGED <<env, up, job, granted, tables, version, taken, created, seen,
                 stops, renames>>

CommitInsert(r) ==
  /\ pc[r] = "insert"
  /\ taken' = TRUE
  /\ created' = created + 1
  /\ Move(r, "serve")
  /\ UNCHANGED <<env, up, job, granted, tables, version, seen, stops, renames>>

-----------------------------------------------------------------------------
(* Serving. *)

(* GET /health: no database. *)
HealthCheck(r) ==
  /\ pc[r] = "serve"
  /\ UNCHANGED vars

(* PUT /users/{id} gives the bootstrap admin another username (Users.tla). *)
RenameAdmin(r) ==
  /\ pc[r] = "serve" /\ up /\ taken /\ renames < MaxRenames
  /\ taken' = FALSE
  /\ renames' = renames + 1
  /\ UNCHANGED <<env, up, job, granted, tables, version, created, pc, seen,
                 stops>>

-----------------------------------------------------------------------------
(* bootstrap_db.sh. *)

JobStepForEver ==  \* mutant: no end
  /\ up
  /\ job' = job + 1
  /\ granted' = IF granted < job' THEN job' ELSE granted
  /\ UNCHANGED <<env, up, tables, version, taken, created, pc, seen, stops,
                 renames>>

JobStep ==
  /\ up /\ job < Owner
  /\ job' = job + 1
  /\ granted' = IF granted < job' THEN job' ELSE granted
  /\ UNCHANGED <<env, up, tables, version, taken, created, pc, seen, stops,
                 renames>>

-----------------------------------------------------------------------------
(* Failures. *)

(* A container is killed or evicted. *)
Stop(r) ==
  /\ pc[r] # "down" /\ stops < MaxStops
  /\ stops' = stops + 1
  /\ Fail(r)
  /\ UNCHANGED <<env, up, job, granted, tables, version, taken, created, seen,
                 renames>>

(* The job's container fails and starts over. *)
StopJob ==
  /\ 0 < job /\ job < Owner /\ stops < MaxStops
  /\ stops' = stops + 1
  /\ job' = 0
  /\ UNCHANGED <<env, up, granted, tables, version, taken, created, pc, seen,
                 renames>>

(* PostgreSQL goes away: open transactions are lost and the commands that  *)
(* ran them fail, the job's script too.                                    *)
StopDb ==
  /\ up /\ stops < MaxStops
  /\ stops' = stops + 1
  /\ up' = FALSE
  /\ pc' = [r \in Replicas |->
       IF pc[r] \in {"ddl", "locked", "record", "insert"} THEN "down" ELSE pc[r]]
  /\ job' = IF job < Owner THEN 0 ELSE job
  /\ UNCHANGED <<env, granted, tables, version, taken, created, seen, renames>>

StartDb ==
  /\ ~up
  /\ up' = TRUE
  /\ UNCHANGED <<env, job, granted, tables, version, taken, created, pc, seen,
                 stops, renames>>

-----------------------------------------------------------------------------
(* A first installation, or an upgrade of an Alembic database at revision  *)
(* b3034a2ffc76, whose release has created its admin.                      *)
Init ==
  /\ env \in Env
  /\ up = FALSE
  /\ job = 0
  /\ tables \in {0, 1}
  /\ tables = 1 => env.interface = "fastapi"
  /\ env.oldSessions => tables = 1
  /\ version = tables
  /\ granted = IF tables = 1 THEN Owner ELSE 0
  /\ created = IF tables = 1 /\ env.bootstrap THEN 1 ELSE 0
  /\ taken = (created = 1)
  /\ pc = [r \in Replicas |-> "down"]
  /\ seen = [r \in Replicas |-> 0]
  /\ stops = 0
  /\ renames = 0

(* What a replica does by itself. *)
Advance(r) ==
  \/ Start(r) \/ WaitForDb(r)
  \/ ReadVersion(r) \/ UpToDate(r) \/ Migrate(r) \/ CommitMigration(r)
  \/ Record(r)
  \/ Insert(r) \/ CommitInsert(r)

Next ==
  \/ \E r \in Replicas :
       Advance(r) \/ HealthCheck(r) \/ RenameAdmin(r) \/ Stop(r)
  \/ JobStep \/ StopJob \/ StopDb \/ StartDb

Spec == Init /\ [][Next]_vars

(* Containers are restarted and processes run; the job is retried; the     *)
(* database comes back.                                                    *)
FairSpec ==
  /\ Spec
  /\ \A r \in Replicas : WF_vars(Advance(r))
  /\ WF_vars(JobStep)
  /\ WF_vars(StartDb)

-----------------------------------------------------------------------------
TypeOK ==
  /\ env \in Env
  /\ up \in BOOLEAN
  /\ job \in 0..Owner /\ granted \in 0..Owner
  /\ tables \in 0..2 /\ version \in 0..2
  /\ taken \in BOOLEAN
  /\ created \in Nat
  /\ pc \in [Replicas -> Stages]
  /\ seen \in [Replicas -> 0..2]
  /\ stops \in 0..MaxStops /\ renames \in 0..MaxRenames

(* A replica that serves has the newest schema under it and, if asked to   *)
(* create one, an admin: no failure of a command, no lost race and no      *)
(* restart lets it past migrate_and_bootstrap without them.                *)
ServingIsReady ==
  \A r \in Replicas : pc[r] = "serve" =>
    /\ tables = Head /\ version = Head
    /\ env.bootstrap => created > 0

(* However many replicas run the bootstrap script and however often, it    *)
(* creates one admin, and another for each time that one was renamed.      *)
OneAdminPerName == created <= 1 + renames

(* A database no container can migrate any more: the tables and the        *)
(* version table disagree with nobody about to record the migration, or    *)
(* old rows are in the way of the new column.                              *)
Wedged ==
  \/ tables # version /\ \A r \in Replicas : pc[r] # "record"
  \/ tables = 1 /\ env.oldSessions

(* Replicas that migrate at the same time never leave the database in such *)
(* a state: it takes old rows, or a crash between the two transactions of  *)
(* a Django migration.                                                     *)
RacesDoNotWedge ==
  Wedged => env.oldSessions \/ (env.interface = "django" /\ stops > 0)

(* Every replica comes to serve for good, whatever order the job, the      *)
(* migrations and the bootstrap scripts run in, unless the database is     *)
(* past migrating.                                                         *)
ReplicasComeUp ==
  \A r \in Replicas : <>[](pc[r] = "serve" \/ Wedged)

Promised == INSTANCE Installation
  WITH serving <- {r \in Replicas : pc[r] = "serve"},
       newest <- Head, needsAdmin <- env.bootstrap

(* Seen from outside, whatever replicas, job and database do at the same   *)
(* time and wherever they are stopped, the schema moves once, admins are   *)
(* created for a free name only, and replicas join when that is done.      *)
ImplementsInstallation == Promised!Spec

-----------------------------------------------------------------------------
(* bootstrap.py: "Bootstrap: create an admin user once".  The script never *)
(* creates a second admin.                                                 *)
AdminCreatedOnce == created <= 1
=============================================================================
