---------------------------- MODULE Installation ----------------------------
(***************************************************************************)
(* What Startup.tla promises whoever runs or calls the service: the schema *)
(* is brought to the newest revision once and in one step, is recorded and *)
(* never touched again; an admin is created only while nobody has the      *)
(* name; and a replica joins those that serve only when all of it is done. *)
(* There is no job, no waiting, no database that goes away and nothing     *)
(* that fails half-way.                                                    *)
(***************************************************************************)
EXTENDS Integers

CONSTANT Replicas

VARIABLES
  tables,     \* the schema revision the tables have
  version,    \* the schema revision the version table records
  taken,      \* a user is named BOOTSTRAP_ADMIN
  created,    \* how many admins the bootstrap script has created
  serving,    \* the replicas that serve
  newest,     \* the newest revision; fixed for good
  needsAdmin  \* whether an admin is to be created; fixed for good

schema == <<tables, version>>
admins == <<taken, created>>
config == <<newest, needsAdmin>>
vars == <<schema, admins, serving, config>>

Ready == version = newest /\ (needsAdmin => taken)

Init ==
  /\ newest \in {1, 2} /\ needsAdmin \in BOOLEAN
  /\ tables \in 0..(newest - 1) /\ version = tables
  /\ created = IF tables > 0 /\ needsAdmin THEN 1 ELSE 0
  /\ taken = (created = 1)
  /\ serving = {}

(* The replica that does a step may be done with all of them. *)
MayJoin ==
  \/ serving' = serving
  \/ Ready' /\ \E r \in Replicas : serving' = serving \cup {r}

(* The tables change, and only on Django are they recorded later. *)
Upgrade ==
  /\ tables = version /\ tables < newest
  /\ tables' = newest /\ version' \in {version, newest}
  /\ MayJoin
  /\ UNCHANGED <<admins, config>>

Confirm ==
  /\ tables = newest /\ version' = newest
  /\ MayJoin
  /\ UNCHANGED <<tables, admins, config>>

Create ==
  /\ needsAdmin /\ version = newest /\ ~taken
  /\ taken' = TRUE /\ created' = created + 1
  /\ MayJoin
  /\ UNCHANGED <<schema, config>>

Join == MayJoin /\ UNCHANGED <<schema, admins, config>>

Leave ==
  /\ \E r \in Replicas : serving' = serving \ {r}
  /\ UNCHANGED <<schema, admins, config>>

(* By a request, so somebody serves. *)
Rename ==
  /\ serving # {} /\ taken
  /\ taken' = FALSE
  /\ UNCHANGED <<schema, created, serving, config>>

Next == Upgrade \/ Confirm \/ Create \/ Join \/ Leave \/ Rename

Spec == Init /\ [][Next]_vars
=============================================================================
