------------------------------- MODULE Users --------------------------------
(***************************************************************************)
(* The user directory: the table users and the use cases that change it,   *)
(* CreateUser, UpdateUser, ChangePassword and DeleteUser (which            *)
(* deactivates).  A row is loaded into a domain entity, changed in memory  *)
(* and written back, with an await before every statement, so requests     *)
(* interleave between any two statements of one another.  PostgreSQL runs  *)
(* them at READ COMMITTED with a UNIQUE constraint on username.            *)
(*                                                                         *)
(* The stages of a request, named after the statement due next:            *)
(*                                                                         *)
(*   "again"   DeleteUser asks for the current user a second time          *)
(*   "load"    get_by_id                                                   *)
(*   "unique"  ensure_username_unique: SELECT by username                  *)
(*   "save"    SQLAlchemy only: update() gets the row again and assigns    *)
(*   "flush"   the UPDATE is sent and waits for the row lock               *)
(*   "key"     row locked or INSERT sent; it waits for whoever may hold    *)
(*             the username in the unique index                            *)
(*   "commit"  written, COMMIT is due                                      *)
(*                                                                         *)
(* Sessions are owned by Sessions.tla; here `live' is what authorisation   *)
(* reads of them.                                                          *)
(***************************************************************************)
EXTENDS Integers, FiniteSets, Functions

CONSTANTS
  UserIds,     \* the UUIDs a row may have
  Names,       \* usernames
  Passwords,   \* password hashes
  Admin, User, \* the two roles
  Slots,       \* requests that may be in flight at the same time
  Ops,         \* bound: the use cases clients call
  AskedRoles,  \* bound: the roles clients ask for
  Backend,     \* which of the two persistence stacks runs
  None         \* no user, no value

Roles == {Admin, User}

ASSUME UsersAssumption ==
  /\ Admin # User
  /\ Ops \subseteq {"create", "update", "chpass", "delete"}
  /\ AskedRoles \subseteq Roles
  /\ Backend \in {"sqlalchemy", "django"}
  /\ None \notin UserIds \cup Names \cup Passwords \cup Roles \cup BOOLEAN

VARIABLES
  users,   \* the committed rows of users
  live,    \* who holds an access token that says admin, session not over
  req,     \* what each slot is doing
  failed   \* the kinds of request answered 500, and why

vars == <<users, live, req, failed>>

-----------------------------------------------------------------------------
(* State. *)

Cols == {"name", "pw", "role", "active"}

Absent == [name |-> None, pw |-> None, role |-> None, active |-> FALSE]

Row == [name : Names \cup {None}, pw : Passwords \cup {None},
        role : Roles \cup {None}, active : BOOLEAN]

(* The changes a request asks for; None leaves a column alone.             *)
Nothing == [name |-> None, pw |-> None, role |-> None, active |-> None]

Asked == [name : Names \cup {None}, pw : Passwords \cup {None},
          role : Roles \cup {None}, active : BOOLEAN \cup {None}]

Idle == [op |-> "idle", pc |-> "idle", actor |-> None, target |-> None,
         asked |-> Nothing, row |-> Absent, cols |-> {}]

Request ==
  [op : {"idle", "create", "update", "chpass", "delete"},
   pc : {"idle", "again", "load", "unique", "save", "flush", "key", "commit"},
   actor : UserIds \cup {None},   \* who deletes
   target : UserIds \cup {None},  \* the row the request is about
   asked : Asked,
   row : Row,                     \* the entity in memory
   cols : SUBSET Cols]            \* the columns the statement sets

Exists(u) == users[u].name # None

OverlayShifted(row, new, cols) ==  \* mutant: columns out of order
  [name   |-> IF "name" \in cols THEN new.name ELSE row.name,
   pw     |-> IF "pw" \in cols THEN new.role ELSE row.pw,
   role   |-> IF "role" \in cols THEN new.role ELSE row.role,
   active |-> IF "active" \in cols THEN new.active ELSE row.active]

(* row with the columns cols taken from new. *)
Overlay(row, new, cols) ==
  [name   |-> IF "name" \in cols THEN new.name ELSE row.name,
   pw     |-> IF "pw" \in cols THEN new.pw ELSE row.pw,
   role   |-> IF "role" \in cols THEN new.role ELSE row.role,
   active |-> IF "active" \in cols THEN new.active ELSE row.active]

Differing(row, new) == {c \in Cols : row[c] # new[c]}

AskedCols(q) == {c \in Cols : q.asked[c] # None}

-----------------------------------------------------------------------------
(* Locks. *)

HoldsFromLoad(r) ==  \* mutant: the row is read FOR SHARE, then updated
  req[r].pc \in {"flush", "key", "commit"} /\ req[r].cols # {}

(* r has sent a statement that locks its row until its transaction ends.   *)
Holds(r) == req[r].pc \in {"key", "commit"} /\ req[r].cols # {}

(* The statement of r gives its row a username it does not have.           *)
Renames(r) ==
  /\ "name" \in req[r].cols
  /\ req[r].row.name # users[req[r].target].name

WaitsForRow(r, q) ==
  req[r].pc = "flush" /\ Holds(q) /\ req[q].target = req[r].target

(* The index entry r wants belongs to a transaction that is not over: q    *)
(* has locked the row that carries the username, or has inserted it.       *)
WaitsForKey(r, q) ==
  /\ req[r].pc = "key" /\ Holds(q)
  /\ \/ users[req[q].target].name = req[r].row.name
     \/ /\ req[q].pc = "commit" /\ "name" \in req[q].cols
        /\ req[q].row.name = req[r].row.name

WaitsFor(r, q) == r # q /\ (WaitsForRow(r, q) \/ WaitsForKey(r, q))

Granted(r) == \A q \in Slots : ~WaitsFor(r, q)

TakenNever(n, target) == FALSE  \* mutant: neither SELECT nor constraint

(* Another row carries the username: what the SELECT of                    *)
(* ensure_username_unique and the unique index look for.                   *)
Taken(n, target) == \E u \in UserIds \ {target} : users[u].name = n


-----------------------------------------------------------------------------
(* Arrival: AuthorizeUserUseCase.execute. *)

(* current_user finds the session and the role claim still in force; the   *)
(* only role these use cases accept is admin.                              *)
Authorised(a) == a \in live /\ users[a].active /\ users[a].role = Admin

FreshIds ==
  {u \in UserIds : ~Exists(u) /\ \A r \in Slots : req[r].target # u}

Create(r) ==
  \E u \in FreshIds, n \in Names, p \in Passwords, g \in AskedRoles :
    LET new == [name |-> n, pw |-> p, role |-> g, active |-> TRUE] IN
    req' = [req EXCEPT ![r] =
      [op |-> "create", pc |-> "unique", actor |-> None, target |-> u,
       asked |-> new, row |-> new, cols |-> Cols]]

Update(r) ==
  \E u \in UserIds, n \in Names \cup {None}, g \in AskedRoles \cup {None} :
    /\ n # None \/ g # None
    /\ req' = [req EXCEPT ![r] =
         [op |-> "update", pc |-> "load", actor |-> None, target |-> u,
          asked |-> [Nothing EXCEPT !.name = n, !.role = g],
          row |-> Absent, cols |-> {}]]

ChangePassword(r) ==
  \E u \in UserIds, p \in Passwords :
    req' = [req EXCEPT ![r] =
      [op |-> "chpass", pc |-> "load", actor |-> None, target |-> u,
       asked |-> [Nothing EXCEPT !.pw = p], row |-> Absent, cols |-> {}]]

Delete(r, a) ==
  \E u \in UserIds :
    req' = [req EXCEPT ![r] =
      [op |-> "delete", pc |-> "again", actor |-> a, target |-> u,
       asked |-> [Nothing EXCEPT !.active = FALSE],
       row |-> Absent, cols |-> {}]]

Arrive(r, a) ==
  /\ req[r] = Idle
  /\ Authorised(a)
  /\ \/ "create" \in Ops /\ Create(r)
     \/ "update" \in Ops /\ Update(r)
     \/ "chpass" \in Ops /\ ChangePassword(r)
     \/ "delete" \in Ops /\ Delete(r, a)
  /\ UNCHANGED <<users, live, failed>>

(* 401, 403, or a 4xx for input no value object accepts.                   *)
Refuse(r) ==
  /\ req[r] = Idle
  /\ UNCHANGED vars

-----------------------------------------------------------------------------
(* Reading. *)

(* DeleteUser looks the current user up again; then self-deletion is       *)
(* answered 400.  What current_user raises is caught by nobody.            *)
AuthenticateAgain(r) ==
  LET q == req[r] IN
  /\ q.pc = "again"
  /\ IF Authorised(q.actor)
       THEN /\ req' = [req EXCEPT ![r] =
                 IF q.actor = q.target
                   THEN Idle ELSE [q EXCEPT !.pc = "load", !.actor = None]]
            /\ UNCHANGED failed
       ELSE /\ req' = [req EXCEPT ![r] = Idle]
            /\ failed' = failed \cup {<<q.op, "auth">>}
  /\ UNCHANGED <<users, live>>

(* The entity's change_ methods: asking for what is already so is an error *)
(* (domain_error, nothing written).  Django's UPDATE sets every column.    *)
Changed(q, own) ==
  IF \E c \in AskedCols(q) : q.asked[c] = own[c]
    THEN Idle
    ELSE [q EXCEPT !.row = Overlay(own, q.asked, AskedCols(q)),
                   !.cols = IF Backend = "django" THEN Cols ELSE {},
                   !.pc = IF Backend = "django" THEN "flush" ELSE "save"]

LoadAsActive(r) ==  \* mutant: is_active is not mapped to the entity
  LET q == req[r]
      own == [users[q.target] EXCEPT !.active = TRUE] IN
  /\ q.pc = "load"
  /\ req' = [req EXCEPT ![r] =
       IF ~Exists(q.target) THEN Idle
       ELSE IF q.asked.name # None
         THEN [q EXCEPT !.pc = "unique", !.row = own]
         ELSE Changed(q, own)]
  /\ UNCHANGED <<users, live, failed>>

(* get_by_id; no row is answered 404.                                      *)
Load(r) ==
  LET q == req[r]
      own == users[q.target] IN
  /\ q.pc = "load"
  /\ req' = [req EXCEPT ![r] =
       IF ~Exists(q.target) THEN Idle
       ELSE IF q.asked.name # None
         THEN [q EXCEPT !.pc = "unique", !.row = own]
         ELSE Changed(q, own)]
  /\ UNCHANGED <<users, live, failed>>

(* ensure_username_unique, then the INSERT or the changes in memory.       *)
Unique(r) ==
  LET q == req[r] IN
  /\ q.pc = "unique"
  /\ req' = [req EXCEPT ![r] =
       IF Taken(q.asked.name, q.target) THEN Idle
       ELSE IF q.op = "create" THEN [q EXCEPT !.pc = "key"]
       ELSE Changed(q, q.row)]
  /\ UNCHANGED <<users, live, failed>>

-----------------------------------------------------------------------------
(* Writing. *)

(* SQLAlchemy's update() gets the row again.  The identity map holds it    *)
(* only weakly: the row is the one loaded before if that object is still   *)
(* alive, or else it is read anew.  The UPDATE will set the columns whose  *)
(* value then differs; if there are none it is not sent.                   *)
Save(r) ==
  LET q == req[r] IN
  /\ q.pc = "save"
  /\ \E cols \in {AskedCols(q), Differing(users[q.target], q.row)} :
       req' = [req EXCEPT ![r].cols = cols,
                          ![r].pc = IF cols = {} THEN "commit" ELSE "flush"]
  /\ UNCHANGED <<users, live, failed>>

(* The UPDATE gets its row lock.                                           *)
Flush(r) ==
  /\ req[r].pc = "flush" /\ Granted(r)
  /\ req' = [req EXCEPT ![r].pc = IF Renames(r) THEN "key" ELSE "commit"]
  /\ UNCHANGED <<users, live, failed>>

(* The unique index has no other row with the username.                    *)
KeyFree(r) ==
  /\ req[r].pc = "key" /\ Granted(r)
  /\ ~Taken(req[r].row.name, req[r].target)
  /\ req' = [req EXCEPT ![r].pc = "commit"]
  /\ UNCHANGED <<users, live, failed>>

DuplicateFailsAlways(op) == TRUE  \* mutant: nobody catches it

(* What becomes of a DuplicateUsernameError raised by a statement.  Create *)
(* and, on Django, everything else answer 409 or a domain error.  On       *)
(* SQLAlchemy the others return from inside the unit of work, whose commit *)
(* then fails because the failed flush has rolled the session back: 500.   *)
DuplicateFails(op) == Backend = "sqlalchemy" /\ op # "create"

KeyTakenByCreate(r) ==  \* mutant: an update that loses retries for ever
  /\ req[r].pc = "key" /\ Granted(r) /\ req[r].op = "create"
  /\ Taken(req[r].row.name, req[r].target)
  /\ req' = [req EXCEPT ![r] = Idle]
  /\ UNCHANGED <<users, live, failed>>

(* IntegrityError: the transaction is rolled back.                         *)
KeyTaken(r) ==
  /\ req[r].pc = "key" /\ Granted(r)
  /\ Taken(req[r].row.name, req[r].target)
  /\ req' = [req EXCEPT ![r] = Idle]
  /\ failed' = IF DuplicateFails(req[r].op)
                 THEN failed \cup {<<req[r].op, "duplicate">>} ELSE failed
  /\ UNCHANGED <<users, live>>

CommitForgetsActive(r) ==  \* mutant: a column is left out of the UPDATE
  LET q == req[r] IN
  /\ q.pc = "commit"
  /\ users' = [users EXCEPT ![q.target] =
       Overlay(@, q.row, q.cols \ {"active"})]
  /\ req' = [req EXCEPT ![r] = Idle]
  /\ UNCHANGED <<live, failed>>

(* COMMIT; the answer is 200 or 201 with the entity as it is in memory.    *)
Commit(r) ==
  LET q == req[r] IN
  /\ q.pc = "commit"
  /\ users' = [users EXCEPT ![q.target] = Overlay(@, q.row, q.cols)]
  /\ req' = [req EXCEPT ![r] = Idle]
  /\ UNCHANGED <<live, failed>>

(* A cancelled task, a lost connection, a crash: rollback.                 *)
Abort(r) ==
  /\ req[r].pc # "idle"
  /\ req' = [req EXCEPT ![r] = Idle]
  /\ UNCHANGED <<users, live, failed>>

(* PostgreSQL breaks a circle of transactions waiting for one another by   *)
(* failing one of them, which the program answers 500.                     *)
InCircle(r) ==
  \E C \in SUBSET Slots : \E next \in Bijection(C, C) :
    r \in C /\ \A x \in C : WaitsFor(x, next[x])

DeadlockVictim(r) ==
  /\ InCircle(r)
  /\ req' = [req EXCEPT ![r] = Idle]
  /\ failed' = failed \cup {<<req[r].op, "deadlock">>}
  /\ UNCHANGED <<users, live>>

-----------------------------------------------------------------------------
(* The surroundings: Sessions.tla and the clock. *)

(* A login or refresh of an active admin; the token says admin.            *)
StartSession(u) ==
  /\ u \notin live /\ users[u].active /\ users[u].role = Admin
  /\ live' = live \cup {u}
  /\ UNCHANGED <<users, req, failed>>

(* Logout, eviction or expiry.                                             *)
EndSession(u) ==
  /\ u \in live
  /\ live' = live \ {u}
  /\ UNCHANGED <<users, req, failed>>

-----------------------------------------------------------------------------
(* bootstrap.py has created the first admin.                               *)
Init ==
  /\ \E a \in UserIds, n \in Names, p \in Passwords :
       users = [u \in UserIds |->
         IF u = a THEN [name |-> n, pw |-> p, role |-> Admin, active |-> TRUE]
         ELSE Absent]
  /\ live = {}
  /\ req = [r \in Slots |-> Idle]
  /\ failed = {}

(* The steps a slot takes by itself once its request has arrived. *)
Advance(r) ==
  AuthenticateAgain(r) \/ Load(r) \/ Unique(r) \/ Save(r) \/ Flush(r)
    \/ KeyFree(r) \/ KeyTaken(r) \/ Commit(r)

Next ==
  \/ \E r \in Slots :
       \/ \E a \in UserIds : Arrive(r, a)
       \/ Refuse(r)
       \/ Advance(r)
       \/ Abort(r)
       \/ DeadlockVictim(r)
  \/ \E u \in UserIds : StartSession(u) \/ EndSession(u)

Spec == Init /\ [][Next]_vars

(* As in Sessions.tla: tasks are resumed, lock queues are served, and      *)
(* PostgreSQL's deadlock check runs.                                       *)
FairSpec ==
  /\ Spec
  /\ \A r \in Slots : /\ WF_vars(Advance(r))
                      /\ SF_vars(Flush(r) \/ KeyFree(r) \/ KeyTaken(r))
  /\ WF_vars(\E r \in Slots : DeadlockVictim(r))

-----------------------------------------------------------------------------
TypeOK ==
  /\ users \in [UserIds -> Row]
  /\ live \subseteq UserIds
  /\ req \in [Slots -> Request]
  /\ failed \subseteq {"create", "update", "chpass", "delete"}
                        \X {"auth", "duplicate", "deadlock"}

(* No two rows carry one username, whichever creations and renamings pass  *)
(* their ensure_username_unique at the same time.                          *)
UniqueUsernames ==
  \A u, v \in UserIds : u # v /\ Exists(u) => users[u].name # users[v].name

(* Losing the race for a username is answered as a conflict and not 500:   *)
(* by CreateUser always, by UpdateUser on Django.                          *)
LostRaceIsConflict ==
  /\ <<"create", "duplicate">> \notin failed
  /\ Backend = "django" => <<"update", "duplicate">> \notin failed

(* What a change is answered with is what the row says when it commits:    *)
(* the entity in memory, written by one UPDATE of all its columns (Django).*)
AnswerIsTheRow ==
  [][\A r \in Slots :
       req[r].pc = "commit" /\ users' # users /\ req'[r].pc = "idle" =>
         users'[req[r].target] = req[r].row]_vars

(* Only renamings deadlock: a request that waits in a circle is about to   *)
(* give a row a name that another member of the circle has or wants.       *)
CirclesAreRenamings ==
  \A r \in Slots : InCircle(r) => req[r].pc = "key" /\ Renames(r)

(* No request waits for ever for a row or for a username: whoever has it   *)
(* commits or rolls back, and then it is granted or refused.               *)
RequestsFinish == \A r \in Slots : req[r].pc # "idle" ~> req[r].pc = "idle"

(* Seen from outside, the use cases are the atomic directory of            *)
(* UserDirectory.tla, on either stack.                                     *)
Directory == INSTANCE UserDirectory
  WITH users <- users, Roles <- Roles, Names <- Names, Passwords <- Passwords

ImplementsDirectory == Directory!Spec

(* The copy a request is about to write, as Accounts.tla keeps it: from    *)
(* the moment it has read the row, even where the entity is changed only   *)
(* after one more query.                                                   *)
AccountOf(row) == [role |-> row.role, active |-> row.active]

Entity(q) == IF q.pc = "unique" THEN Overlay(q.row, q.asked, AskedCols(q))
                                ELSE q.row

ChangeOf(q) ==
  IF q.pc \in {"idle", "again", "load"}
    THEN [of |-> None, to |-> AccountOf(Absent), insert |-> FALSE]
    ELSE [of |-> q.target, to |-> AccountOf(Entity(q)),
          insert |-> q.op = "create"]

Shared == INSTANCE Accounts
  WITH accounts <- [u \in UserIds |-> AccountOf(users[u])],
       changes <- [r \in Slots |-> ChangeOf(req[r])],
       whole <- Backend = "django"

(* To the rest of the service the use cases are the reads and writes of    *)
(* Accounts.tla, whatever else the requests wait for or find out: a copy   *)
(* of the row as it was, of which some columns are set as asked.           *)
ImplementsAccounts == Shared!Spec

-----------------------------------------------------------------------------
(* What documentation and tests promise and concurrent requests break. *)

(* AggregateRoot: "Aggregate root - transactional consistency boundary."   *)
(* Nothing ever activates a deactivated user again.                        *)
DeactivationIsFinal ==
  [][\A u \in UserIds :
       Exists(u) /\ ~users[u].active => ~users'[u].active]_vars

(* The routes document 409 for a username that is taken; no update is      *)
(* answered 500 because it lost the race for one.                          *)
UpdateAnswersConflict == <<"update", "duplicate">> \notin failed
=============================================================================
