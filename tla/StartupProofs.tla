---------------------------- MODULE StartupProofs ----------------------------
(***************************************************************************)
(* Proofs about Startup.tla, for any number of replicas: whoever serves    *)
(* has a migrated database with an admin, the bootstrap script creates one *)
(* admin per name, and replicas that race do not wedge the database.       *)
(*                                                                         *)
(* None of the three is inductive.  That a serving replica has a migrated  *)
(* database depends on what a replica that is still migrating has read,    *)
(* and on only one of them holding the table locks; that admins are not    *)
(* created twice depends on nobody having the name while an INSERT of it   *)
(* is due.                                                                 *)
(***************************************************************************)
EXTENDS Startup, TLAPS

Migrated == {"bootstrap", "insert", "serve"}

(* The version table lags behind the tables only on Django, and only while *)
(* a replica is about to record, or after a crash.                         *)
SchemaInv ==
  /\ tables <= Head /\ version <= tables
  /\ tables # version =>
       /\ env.interface = "django"
       /\ stops > 0 \/ \E r \in Replicas : pc[r] = "record"

ReplicaInv ==
  \A r \in Replicas :
    /\ pc[r] = "ddl" => seen[r] <= version
    /\ pc[r] = "locked" => version < Head
    /\ pc[r] = "record" => tables = Head /\ env.interface = "django"
    /\ pc[r] \in Migrated => version = Head
    /\ pc[r] = "insert" => ~taken
    /\ pc[r] = "serve" /\ env.bootstrap => created > 0

(* One migration and one INSERT of the admin at a time. *)
LockInv ==
  \A r, q \in Replicas :
    /\ pc[r] = "locked" /\ pc[q] = "locked" => r = q
    /\ pc[r] = "insert" /\ pc[q] = "insert" => r = q
    /\ pc[r] = "locked" => pc[q] # "record" /\ tables = version

AdminInv == created = renames + (IF taken THEN 1 ELSE 0)

IInv == TypeOK /\ SchemaInv /\ ReplicaInv /\ LockInv /\ AdminInv
-----------------------------------------------------------------------------
LEMMA InitInv == Init => IInv
<1> SUFFICES ASSUME Init PROVE IInv
  OBVIOUS
<1> USE StartupAssumption DEF Init
<1>1. TypeOK
  <2>1. created \in Nat
    OBVIOUS
  <2>2. tables \in 0..2 /\ version \in 0..2 /\ granted \in 0..Owner
    BY DEF Owner
  <2>3. taken \in BOOLEAN
    <3>1. CASE created = 1
      BY <3>1
    <3>2. CASE created # 1
      BY <3>2
    <3> QED  BY <3>1, <3>2
  <2>4. job \in 0..Owner /\ stops \in 0..MaxStops /\ renames \in 0..MaxRenames
    BY DEF Owner
  <2>5. pc \in [Replicas -> Stages] /\ seen \in [Replicas -> 0..2]
    BY DEF Stages
  <2> QED  BY <2>1, <2>2, <2>3, <2>4, <2>5, Zenon DEF TypeOK
<1>2. SchemaInv /\ ReplicaInv /\ LockInv /\ AdminInv
  BY DEF SchemaInv, ReplicaInv, LockInv, AdminInv, Migrated, Head, Env
<1> QED  BY <1>1, <1>2 DEF IInv

(* What leaves the replicas, the schema and the users alone. *)
LEMMA QuietStep == ASSUME IInv, JobStep \/ StopJob \/ StartDb \/ UNCHANGED vars PROVE IInv'
<1> USE StartupAssumption DEF IInv, JobStep, StopJob, StartDb, vars
<1>1. TypeOK'
  <2>1. up' \in BOOLEAN /\ taken' \in BOOLEAN
    BY Zenon DEF TypeOK
  <2>2. job' \in 0..Owner /\ granted' \in 0..Owner /\ created' \in Nat
    BY DEF TypeOK, Owner
  <2>3. stops' \in 0..MaxStops /\ renames' \in 0..MaxRenames
    BY DEF TypeOK
  <2>4. pc' \in [Replicas -> Stages]
    BY DEF TypeOK, Stages
  <2>5. env' \in Env /\ tables' \in 0..2 /\ version' \in 0..2
        /\ seen' \in [Replicas -> 0..2]
    BY DEF TypeOK
  <2> QED  BY <2>1, <2>2, <2>3, <2>4, <2>5 DEF TypeOK
<1>2. SchemaInv'
  BY DEF SchemaInv, TypeOK, Env, Head, ReplicaInv, LockInv
<1>3. ReplicaInv'
  BY DEF ReplicaInv, TypeOK, Stages, Head, SchemaInv, LockInv, Migrated, AdminInv, Applies, AfterMigration
<1>4. LockInv'
  BY DEF LockInv, TypeOK, Head, SchemaInv, ReplicaInv, Applies, AfterMigration
<1>5. AdminInv'
  BY DEF AdminInv, TypeOK, ReplicaInv
<1> QED  BY <1>1, <1>2, <1>3, <1>4, <1>5

(* Before the migration; the revision read is not newer than the recorded one. *)
LEMMA WaitingStep == ASSUME IInv, NEW r \in Replicas, Start(r) \/ WaitForDb(r) \/ ReadVersion(r) PROVE IInv'
<1> USE StartupAssumption DEF IInv, Start, WaitForDb, ReadVersion, Move, Fail
<1>1. TypeOK'
  BY DEF TypeOK, Stages, Head, Owner, Needed, AfterMigration, Env
<1>2. SchemaInv'
  BY DEF SchemaInv, TypeOK, Env, Head, ReplicaInv, LockInv
<1>3. ReplicaInv'
  BY DEF ReplicaInv, TypeOK, Stages, Head, SchemaInv, LockInv, Migrated, AdminInv, Applies, AfterMigration
<1>4. LockInv'
  BY DEF LockInv, TypeOK, Head, SchemaInv, ReplicaInv, Applies, AfterMigration
<1>5. AdminInv'
  BY DEF AdminInv, TypeOK, ReplicaInv
<1> QED  BY <1>1, <1>2, <1>3, <1>4, <1>5

LEMMA UpToDateStep == ASSUME IInv, NEW r \in Replicas, UpToDate(r) PROVE IInv'
<1> USE StartupAssumption DEF IInv, UpToDate, Move
<1>1. TypeOK'
  BY DEF TypeOK, Stages, Head, Owner, Needed, AfterMigration, Env
<1>2. SchemaInv'
  BY DEF SchemaInv, TypeOK, Env, Head, ReplicaInv, LockInv
<1>3. ReplicaInv'
  BY DEF ReplicaInv, TypeOK, Stages, Head, SchemaInv, LockInv, Migrated, AdminInv, Applies, AfterMigration
<1>4. LockInv'
  BY DEF LockInv, TypeOK, Head, SchemaInv, ReplicaInv, Applies, AfterMigration
<1>5. AdminInv'
  BY DEF AdminInv, TypeOK, ReplicaInv
<1> QED  BY <1>1, <1>2, <1>3, <1>4, <1>5

(* Whoever gets the locks has read what the tables are now. *)
LEMMA MigrateStep == ASSUME IInv, NEW r \in Replicas, Migrate(r) PROVE IInv'
<1> USE StartupAssumption DEF IInv, Migrate, Move, Fail
<1>1. TypeOK'
  BY DEF TypeOK, Stages, Head, Owner, Needed, AfterMigration, Env
<1>2. SchemaInv'
  BY DEF SchemaInv, TypeOK, Env, Head, ReplicaInv, LockInv
<1>3. ReplicaInv'
  BY DEF ReplicaInv, TypeOK, Stages, Head, SchemaInv, LockInv, Migrated, AdminInv, Applies, AfterMigration
<1>4. LockInv'
  BY DEF LockInv, TypeOK, Head, SchemaInv, ReplicaInv, Applies, AfterMigration
<1>5. AdminInv'
  BY DEF AdminInv, TypeOK, ReplicaInv
<1> QED  BY <1>1, <1>2, <1>3, <1>4, <1>5

LEMMA CommitMigrationStep == ASSUME IInv, NEW r \in Replicas, CommitMigration(r) PROVE IInv'
<1> USE StartupAssumption DEF IInv, CommitMigration, Move
<1>1. TypeOK'
  BY DEF TypeOK, Stages, Head, Owner, Needed, AfterMigration, Env
<1>2. SchemaInv'
  BY DEF SchemaInv, TypeOK, Env, Head, ReplicaInv, LockInv
<1>3. ReplicaInv'
  <2> SUFFICES ASSUME NEW q \in Replicas PROVE ReplicaInv!(q)'
    BY DEF ReplicaInv
  <2>1. version' = IF env.interface = "fastapi" THEN Head ELSE version
    OBVIOUS
  <2>2. version \in 0..2 /\ Head \in 1..2 /\ version < Head /\ Head' = Head
    BY DEF TypeOK, Head, ReplicaInv
  <2>3. CASE q = r
    BY <2>1, <2>2, <2>3 DEF TypeOK, Stages, Env, Head, ReplicaInv, Migrated, AfterMigration, AdminInv
  <2>4. CASE q # r
    <3>1. pc'[q] = pc[q]
      BY <2>4 DEF TypeOK
    <3> QED  BY <2>1, <2>2, <2>4, <3>1 DEF TypeOK, Head, ReplicaInv, LockInv, Migrated
  <2> QED  BY <2>3, <2>4
<1>4. LockInv'
  BY DEF LockInv, TypeOK, Head, SchemaInv, ReplicaInv, Applies, AfterMigration
<1>5. AdminInv'
  BY DEF AdminInv, TypeOK, ReplicaInv
<1> QED  BY <1>1, <1>2, <1>3, <1>4, <1>5

LEMMA RecordStep == ASSUME IInv, NEW r \in Replicas, Record(r) PROVE IInv'
<1> USE StartupAssumption DEF IInv, Record, Move
<1>1. TypeOK'
  BY DEF TypeOK, Stages, Head, Owner, Needed, AfterMigration, Env
<1>2. SchemaInv'
  BY DEF SchemaInv, TypeOK, Env, Head, ReplicaInv, LockInv
<1>3. ReplicaInv'
  BY DEF ReplicaInv, TypeOK, Stages, Head, SchemaInv, LockInv, Migrated, AdminInv, Applies, AfterMigration
<1>4. LockInv'
  BY DEF LockInv, TypeOK, Head, SchemaInv, ReplicaInv, Applies, AfterMigration
<1>5. AdminInv'
  BY DEF AdminInv, TypeOK, ReplicaInv
<1> QED  BY <1>1, <1>2, <1>3, <1>4, <1>5

(* A taken name means that somebody has created the admin. *)
LEMMA InsertStep == ASSUME IInv, NEW r \in Replicas, Insert(r) PROVE IInv'
<1> USE StartupAssumption DEF IInv, Insert, Move
<1>1. TypeOK'
  BY DEF TypeOK, Stages, Head, Owner, Needed, AfterMigration, Env
<1>2. SchemaInv'
  BY DEF SchemaInv, TypeOK, Env, Head, ReplicaInv, LockInv
<1>3. ReplicaInv'
  BY DEF ReplicaInv, TypeOK, Stages, Head, SchemaInv, LockInv, Migrated, AdminInv, Applies, AfterMigration
<1>4. LockInv'
  BY DEF LockInv, TypeOK, Head, SchemaInv, ReplicaInv, Applies, AfterMigration
<1>5. AdminInv'
  BY DEF AdminInv, TypeOK, ReplicaInv
<1> QED  BY <1>1, <1>2, <1>3, <1>4, <1>5

LEMMA CommitInsertStep == ASSUME IInv, NEW r \in Replicas, CommitInsert(r) PROVE IInv'
<1> USE StartupAssumption DEF IInv, CommitInsert, Move
<1>1. TypeOK'
  BY DEF TypeOK, Stages, Head, Owner, Needed, AfterMigration, Env
<1>2. SchemaInv'
  BY DEF SchemaInv, TypeOK, Env, Head, ReplicaInv, LockInv
<1>3. ReplicaInv'
  BY DEF ReplicaInv, TypeOK, Stages, Head, SchemaInv, LockInv, Migrated, AdminInv, Applies, AfterMigration
<1>4. LockInv'
  BY DEF LockInv, TypeOK, Head, SchemaInv, ReplicaInv, Applies, AfterMigration
<1>5. AdminInv'
  BY DEF AdminInv, TypeOK, ReplicaInv
<1> QED  BY <1>1, <1>2, <1>3, <1>4, <1>5

LEMMA RenameStep == ASSUME IInv, NEW r \in Replicas, RenameAdmin(r) PROVE IInv'
<1> USE StartupAssumption DEF IInv, RenameAdmin
<1>1. TypeOK'
  <2>1. up' \in BOOLEAN /\ taken' \in BOOLEAN
    BY Zenon DEF TypeOK
  <2>2. job' \in 0..Owner /\ granted' \in 0..Owner /\ created' \in Nat
    BY DEF TypeOK, Owner
  <2>3. stops' \in 0..MaxStops /\ renames' \in 0..MaxRenames
    BY DEF TypeOK
  <2>4. pc' \in [Replicas -> Stages]
    BY DEF TypeOK, Stages
  <2>5. env' \in Env /\ tables' \in 0..2 /\ version' \in 0..2
        /\ seen' \in [Replicas -> 0..2]
    BY DEF TypeOK
  <2> QED  BY <2>1, <2>2, <2>3, <2>4, <2>5 DEF TypeOK
<1>2. SchemaInv'
  BY DEF SchemaInv, TypeOK, Env, Head, ReplicaInv, LockInv
<1>3. ReplicaInv'
  BY DEF ReplicaInv, TypeOK, Stages, Head, SchemaInv, LockInv, Migrated, AdminInv, Applies, AfterMigration
<1>4. LockInv'
  BY DEF LockInv, TypeOK, Head, SchemaInv, ReplicaInv, Applies, AfterMigration
<1>5. AdminInv'
  BY DEF AdminInv, TypeOK, ReplicaInv
<1> QED  BY <1>1, <1>2, <1>3, <1>4, <1>5

LEMMA StopStep == ASSUME IInv, NEW r \in Replicas, Stop(r) PROVE IInv'
<1> USE StartupAssumption DEF IInv, Stop, Move, Fail
<1>1. TypeOK'
  BY DEF TypeOK, Stages, Head, Owner, Needed, AfterMigration, Env
<1>2. SchemaInv'
  BY DEF SchemaInv, TypeOK, Env, Head, ReplicaInv, LockInv
<1>3. ReplicaInv'
  BY DEF ReplicaInv, TypeOK, Stages, Head, SchemaInv, LockInv, Migrated, AdminInv, Applies, AfterMigration
<1>4. LockInv'
  BY DEF LockInv, TypeOK, Head, SchemaInv, ReplicaInv, Applies, AfterMigration
<1>5. AdminInv'
  BY DEF AdminInv, TypeOK, ReplicaInv
<1> QED  BY <1>1, <1>2, <1>3, <1>4, <1>5

LEMMA StopDbStep == ASSUME IInv, StopDb PROVE IInv'
<1> USE StartupAssumption DEF IInv, StopDb
<1>1. TypeOK'
  <2>1. up' \in BOOLEAN /\ taken' \in BOOLEAN
    BY Zenon DEF TypeOK
  <2>2. job' \in 0..Owner /\ granted' \in 0..Owner /\ created' \in Nat
    BY DEF TypeOK, Owner
  <2>3. stops' \in 0..MaxStops /\ renames' \in 0..MaxRenames
    BY DEF TypeOK
  <2>4. pc' \in [Replicas -> Stages]
    BY DEF TypeOK, Stages
  <2>5. env' \in Env /\ tables' \in 0..2 /\ version' \in 0..2
        /\ seen' \in [Replicas -> 0..2]
    BY DEF TypeOK
  <2> QED  BY <2>1, <2>2, <2>3, <2>4, <2>5 DEF TypeOK
<1>2. SchemaInv'
  BY DEF SchemaInv, TypeOK, Env, Head, ReplicaInv, LockInv
<1>3. ReplicaInv'
  BY DEF ReplicaInv, TypeOK, Stages, Head, SchemaInv, LockInv, Migrated, AdminInv, Applies, AfterMigration
<1>4. LockInv'
  BY DEF LockInv, TypeOK, Head, SchemaInv, ReplicaInv, Applies, AfterMigration
<1>5. AdminInv'
  BY DEF AdminInv, TypeOK, ReplicaInv
<1> QED  BY <1>1, <1>2, <1>3, <1>4, <1>5

-----------------------------------------------------------------------------
LEMMA Inductive == IInv /\ [Next]_vars => IInv'
<1> SUFFICES ASSUME IInv, [Next]_vars PROVE IInv'
  OBVIOUS
<1>1. CASE \E r \in Replicas : Advance(r)
  <2> PICK r \in Replicas : Advance(r)
    BY <1>1
  <2> QED  BY WaitingStep, UpToDateStep, MigrateStep, CommitMigrationStep,
              RecordStep, InsertStep, CommitInsertStep DEF Advance
<1>2. CASE \E r \in Replicas : HealthCheck(r) \/ RenameAdmin(r) \/ Stop(r)
  BY <1>2, QuietStep, RenameStep, StopStep DEF HealthCheck
<1>3. CASE JobStep \/ StopJob \/ StopDb \/ StartDb
  BY <1>3, QuietStep, StopDbStep
<1>4. CASE UNCHANGED vars
  BY <1>4, QuietStep
<1> QED  BY <1>1, <1>2, <1>3, <1>4 DEF Next

THEOREM Invariance == Spec => []IInv
BY InitInv, Inductive, PTL DEF Spec

(* The installation keeps its types for any number of replicas. *)
THEOREM TypeCorrect == Spec => []TypeOK
<1>1. IInv => TypeOK
  BY DEF IInv
<1> QED  BY <1>1, Invariance, PTL

(* No replica gets past the migration and the bootstrap script without     *)
(* their work being done, whatever failed on its way.                      *)
THEOREM ServingReplicasAreReady == Spec => []ServingIsReady
<1>1. IInv => ServingIsReady
  BY DEF IInv, ServingIsReady, ReplicaInv, SchemaInv, Migrated, Head, TypeOK
<1> QED  BY <1>1, Invariance, PTL

(* The bootstrap script creates one admin per name, by any number of       *)
(* replicas at once.                                                       *)
THEOREM AdminsAreNotDuplicated == Spec => []OneAdminPerName
<1>1. IInv => OneAdminPerName
  BY StartupAssumption DEF IInv, OneAdminPerName, AdminInv, TypeOK
<1> QED  BY <1>1, Invariance, PTL

(* Races alone never leave a database that cannot be migrated.             *)
THEOREM RacesAreHarmless == Spec => []RacesDoNotWedge
<1>1. IInv => RacesDoNotWedge
  BY DEF IInv, RacesDoNotWedge, Wedged, SchemaInv
<1> QED  BY <1>1, Invariance, PTL

-----------------------------------------------------------------------------
(* Startup.tla implements Installation.tla.  One fact more is needed: only *)
(* a configuration that asks for an admin runs the bootstrap script.       *)
BootInv == \A r \in Replicas : pc[r] \in {"bootstrap", "insert"} => env.bootstrap

LEMMA BootStep == ASSUME IInv, BootInv, [Next]_vars PROVE BootInv'
<1> USE DEF IInv, TypeOK, BootInv, Move, Fail, AfterMigration
<1>1. ASSUME NEW r \in Replicas, Advance(r) PROVE BootInv'
  BY <1>1 DEF Advance, Start, WaitForDb, ReadVersion, UpToDate, Migrate,
          CommitMigration, Record, Insert, CommitInsert
<1>2. ASSUME NEW r \in Replicas, HealthCheck(r) \/ RenameAdmin(r) \/ Stop(r)
      PROVE  BootInv'
  BY <1>2 DEF HealthCheck, RenameAdmin, Stop, vars
<1>3. CASE JobStep \/ StopJob \/ StopDb \/ StartDb \/ UNCHANGED vars
  BY <1>3 DEF JobStep, StopJob, StopDb, StartDb, vars
<1> QED  BY <1>1, <1>2, <1>3 DEF Next

Serving == {r \in Replicas : pc[r] = "serve"}

(* A step of one replica takes nobody else in or out.                      *)
LEMMA Moved ==
  ASSUME IInv, NEW r \in Replicas, NEW stage \in Stages, Move(r, stage)
  PROVE  Serving' = IF stage = "serve" THEN Serving \cup {r} ELSE Serving \ {r}
BY DEF IInv, TypeOK, Move, Serving

(* A replica that moves on and did not serve may join if all is done.      *)
LEMMA MovedOn ==
  ASSUME IInv, NEW r \in Replicas, NEW stage \in Stages, Move(r, stage),
         pc[r] # "serve", stage = "serve" => Promised!Ready'
  PROVE  Promised!MayJoin
BY Moved DEF Promised!MayJoin, Serving

LEMMA SameConfig ==
  ASSUME env' = env PROVE Head' = Head /\ UNCHANGED Promised!config
BY DEF Head, Promised!config

(* Waiting, reading, being late and failing are not seen from outside.     *)
LEMMA UnseenView ==
  ASSUME IInv, NEW r \in Replicas,
         Start(r) \/ WaitForDb(r) \/ ReadVersion(r) \/ Migrate(r)
  PROVE  UNCHANGED Promised!vars
<1>1. PICK stage \in Stages \ {"serve"} : Move(r, stage)
  BY DEF Start, WaitForDb, ReadVersion, Migrate, Fail, Stages
<1>2. Serving' = Serving
  BY <1>1, Moved DEF Serving, Start, WaitForDb, ReadVersion, Migrate
<1>3. UNCHANGED <<env, tables, version, taken, created>>
  BY DEF Start, WaitForDb, ReadVersion, Migrate
<1> QED  BY <1>2, <1>3, SameConfig
         DEF Promised!vars, Promised!schema, Promised!admins, Serving

LEMMA NextStages == AfterMigration \in Stages
BY DEF AfterMigration, Stages

LEMMA UpToDateView ==
  ASSUME IInv, NEW r \in Replicas, UpToDate(r)
  PROVE  Promised!Join
<1>1. version = Head
  BY DEF UpToDate, IInv, ReplicaInv, SchemaInv, TypeOK, Head
<1>2. UNCHANGED <<env, tables, version, taken, created>>
  BY DEF UpToDate
<1>3. AfterMigration = "serve" => Promised!Ready'
  BY <1>1, <1>2, SameConfig DEF AfterMigration, Promised!Ready
<1>4. Promised!MayJoin
  BY <1>3, MovedOn, NextStages DEF UpToDate
<1> QED  BY <1>2, <1>4, SameConfig
         DEF Promised!Join, Promised!schema, Promised!admins

(* Who holds the locks finds the tables as the version table says.         *)
LEMMA CommitMigrationView ==
  ASSUME IInv, NEW r \in Replicas, CommitMigration(r)
  PROVE  Promised!Upgrade
<1>1. tables = version /\ tables < Head /\ tables' = Head
  BY DEF CommitMigration, IInv, ReplicaInv, LockInv
<1>2. UNCHANGED <<env, taken, created>>
  BY DEF CommitMigration
<1>3. PICK stage \in Stages :
        /\ Move(r, stage)
        /\ stage = "serve" => version' = Head /\ ~env.bootstrap
  BY NextStages DEF CommitMigration, AfterMigration, Stages
<1>4. stage = "serve" => Promised!Ready'
  BY <1>2, <1>3, SameConfig DEF Promised!Ready
<1>5. Promised!MayJoin
  BY <1>3, <1>4, MovedOn DEF CommitMigration
<1>6. version' \in {version, Head}
  BY DEF CommitMigration
<1> QED  BY <1>1, <1>2, <1>5, <1>6, SameConfig
         DEF Promised!Upgrade, Promised!admins

LEMMA RecordView ==
  ASSUME IInv, NEW r \in Replicas, Record(r)
  PROVE  Promised!Confirm
<1>1. tables = Head /\ version' = Head
  BY DEF Record, IInv, ReplicaInv
<1>2. UNCHANGED <<env, tables, taken, created>>
  BY DEF Record
<1>3. AfterMigration = "serve" => Promised!Ready'
  BY <1>1, <1>2, SameConfig DEF AfterMigration, Promised!Ready
<1>4. Promised!MayJoin
  BY <1>3, MovedOn, NextStages DEF Record
<1> QED  BY <1>1, <1>2, <1>4, SameConfig
         DEF Promised!Confirm, Promised!admins

LEMMA InsertView ==
  ASSUME IInv, NEW r \in Replicas, Insert(r)
  PROVE  Promised!Join
<1>1. version = Head
  BY DEF Insert, IInv, ReplicaInv, Migrated
<1>2. UNCHANGED <<env, tables, version, taken, created>>
  BY DEF Insert
<1>3. PICK stage \in Stages : Move(r, stage) /\ (stage = "serve" => taken)
  BY DEF Insert, Stages
<1>4. stage = "serve" => Promised!Ready'
  BY <1>1, <1>2, <1>3, SameConfig DEF Promised!Ready
<1>5. Promised!MayJoin
  BY <1>3, <1>4, MovedOn DEF Insert
<1> QED  BY <1>2, <1>5, SameConfig
         DEF Promised!Join, Promised!schema, Promised!admins

(* The name is still free when the INSERT commits.                         *)
LEMMA CommitInsertView ==
  ASSUME IInv, BootInv, NEW r \in Replicas, CommitInsert(r)
  PROVE  Promised!Create
<1>1. version = Head /\ ~taken /\ env.bootstrap
  BY DEF CommitInsert, IInv, ReplicaInv, Migrated, BootInv
<1>2. /\ taken' = TRUE /\ created' = created + 1
      /\ UNCHANGED <<env, tables, version>>
  BY DEF CommitInsert
<1>3. Promised!Ready'
  BY <1>1, <1>2, SameConfig DEF Promised!Ready
<1>4. Promised!MayJoin
  BY <1>3, MovedOn DEF CommitInsert, Stages
<1> QED  BY <1>1, <1>2, <1>4, SameConfig
         DEF Promised!Create, Promised!schema

LEMMA RenameView ==
  ASSUME IInv, NEW r \in Replicas, RenameAdmin(r)
  PROVE  Promised!Rename
<1>1. r \in Serving /\ Serving' = Serving
  BY DEF RenameAdmin, Serving
<1> QED  BY <1>1, SameConfig
         DEF RenameAdmin, Promised!Rename, Promised!schema, Serving

LEMMA StopView ==
  ASSUME IInv, NEW r \in Replicas, Stop(r)
  PROVE  Promised!Leave
<1>1. Serving' = Serving \ {r}
  BY Moved DEF Stop, Fail, Stages
<1>2. UNCHANGED <<env, tables, version, taken, created>>
  BY DEF Stop
<1> QED  BY <1>1, <1>2, SameConfig
         DEF Promised!Leave, Promised!schema, Promised!admins, Serving

(* A database that goes away stops nobody who serves.                      *)
LEMMA AroundView ==
  ASSUME IInv, JobStep \/ StopJob \/ StopDb \/ StartDb \/ UNCHANGED vars
  PROVE  UNCHANGED Promised!vars
<1>1. Serving' = Serving
  BY DEF JobStep, StopJob, StopDb, StartDb, vars, Serving, IInv, TypeOK
<1>2. UNCHANGED <<env, tables, version, taken, created>>
  BY DEF JobStep, StopJob, StopDb, StartDb, vars
<1> QED  BY <1>1, <1>2, SameConfig
         DEF Promised!vars, Promised!schema, Promised!admins, Serving

LEMMA InstallationStep ==
  ASSUME IInv, BootInv, [Next]_vars
  PROVE  [Promised!Next]_(Promised!vars)
<1>1. ASSUME NEW r \in Replicas, Advance(r)
      PROVE  Promised!Next \/ UNCHANGED Promised!vars
  BY <1>1, UnseenView, UpToDateView, CommitMigrationView, RecordView,
     InsertView, CommitInsertView DEF Advance, Promised!Next
<1>2. ASSUME NEW r \in Replicas, HealthCheck(r) \/ RenameAdmin(r) \/ Stop(r)
      PROVE  Promised!Next \/ UNCHANGED Promised!vars
  BY <1>2, RenameView, StopView, AroundView DEF HealthCheck, Promised!Next
<1> QED  BY <1>1, <1>2, AroundView DEF Next

LEMMA InstallationInit == Init => Promised!Init /\ BootInv
<1> SUFFICES ASSUME Init PROVE Promised!Init /\ BootInv
  OBVIOUS
<1>1. Head \in {1, 2} /\ env.bootstrap \in BOOLEAN
  BY DEF Init, Env, Head
<1>2. tables \in 0..(Head - 1) /\ version = tables
  BY DEF Init, Head
<1>3. created = IF tables > 0 /\ env.bootstrap THEN 1 ELSE 0
  BY DEF Init
<1>4. taken = (created = 1) /\ Serving = {}
  BY DEF Init, Serving
<1>5. BootInv
  BY DEF Init, BootInv
<1> QED  BY <1>1, <1>2, <1>3, <1>4, <1>5 DEF Promised!Init, Serving

(* An installation is that of Installation.tla: the schema moves once, a   *)
(* name is given to one admin, and replicas join when all of it is done.   *)
THEOREM InstallationImplemented == Spec => ImplementsInstallation
<1>1. Spec => []BootInv
  <2>1. IInv /\ BootInv /\ [Next]_vars => BootInv'
    BY BootStep
  <2>2. Init => BootInv
    BY InstallationInit
  <2> QED  BY <2>1, <2>2, Invariance, PTL DEF Spec
<1>2. Init => Promised!Init
  BY InstallationInit
<1>3. IInv /\ BootInv /\ [Next]_vars => [Promised!Next]_(Promised!vars)
  BY InstallationStep
<1> QED  BY <1>1, <1>2, <1>3, Invariance, PTL
         DEF Spec, ImplementsInstallation, Promised!Spec
=============================================================================
