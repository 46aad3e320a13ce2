# Verification of the FastAPI/Django DDD template

TLA+ models, TLC runs and TLAPS proofs for the service in `../src`: a user
directory with sessions, written once in the domain and application layers and
twice below and above them (FastAPI + SQLAlchemy, Django REST framework +
Django ORM), on PostgreSQL.

## 1. Inventory

The program keeps no state in memory between requests. Everything that lasts
is in two tables, `users` and `user_sessions`, in the version table of the
migrations, and in the tokens clients hold. Every request opens one or more
units of work; a unit of work is one transaction at READ COMMITTED, and the
handlers `await` before every statement. So requests interleave between any two
statements, and what protects the data is only what PostgreSQL protects by
itself: row locks taken by UPDATE, unique indexes, atomic commit.

| component | state | operations | hard because |
|---|---|---|---|
| session store (`user_session_repo.py`, both stacks) | rows of `user_sessions`: user, `expires_at`, `revoked_at`, `refresh_token_hash` | `create` (with eviction), `rotate_refresh_token`, `revoke`, two validity queries | SELECT and UPDATE are separate statements; time passes between them |
| login, refresh, logout (`routes/auth.py`, `views/auth.py`, `authenticate_user.py`) | the tokens handed out | three handlers over the store | two transactions in one login; tokens outlive the rows they were made for |
| user directory (`create_user.py`, `update_user.py`, `change_password.py`, `delete_user.py`, both `adapters/repo.py`, `user.py`) | rows of `users` | create, update, change password, deactivate | entity loaded, changed in memory, written back; uniqueness checked before it is enforced |
| unit of work (both `adapters/uow.py`) | one transaction | open, commit, rollback | commits on normal exit even when a flush has failed before |
| authorisation (`base.py`, `adapters/services.py`) | none | `current_user` | asked twice by DeleteUser; session and role may end in between |
| startup (`entrypoint.py`, `scripts/bootstrap*.py`, migrations, `bootstrap_db.sh`) | schema revision, version table, grants, the first admin | wait, migrate, bootstrap, serve; six steps of the job | replicas and the job run at once, restart at any point, and do not coordinate |
| HTTP gateway (middlewares, routes and views, presenters, status mapping) | none | authenticate, refuse, map outcomes to codes, cache control | two implementations of one contract |
| read-only use cases (`get_user.py`, `get_all_users.py`) | none | read | a role or a session that changed since the token was issued |
| tokens, hashing, value objects, configuration | none | pure functions | boundaries of lifetimes |
| schemas, logging, charts, workflows | none | | |

How they interact: the gateway decodes the access token and calls a use case;
the use case asks authorisation, which joins `user_sessions` with `users`;
then it opens a unit of work and calls repositories. Sessions reads one column
of the directory (`is_active`), the directory reads of the sessions only
whether the caller has one, and startup leaves behind the schema and the first
admin both start from. That is how the modules are cut. `Api.tla` puts the
parts together again, gateway included, with less detail of each.

What makes each part correct:

* sessions: revoked is for ever; a spent refresh token is dead; a token opens
  one session only; eviction keeps to its own user and to the cap;
* directory: usernames unique; the use cases are atomic changes of one row;
  a lost race is a conflict, not a crash; no deadlock but a known one;
* startup: nobody serves an unprepared database; concurrent starts neither
  duplicate the admin nor wedge the schema; everybody comes up;
* the service as a whole: what was revoked opens nothing, whichever token,
  refresh or login is still on its way; a request that has the service to
  itself is answered by its use case; both gateways answer alike; personal
  answers are not cached; an active admin remains;
* everywhere: every request that waits is served.

`PROJECT.json` lists every component with its status and, under `hazards`,
the lines where these properties are at risk.

## 2. Modules

| module | what it is |
|---|---|
| `Sessions.tla` | the session store and its three handlers, both stacks |
| `SessionsProofs.tla` | inductive invariant and theorems about it |
| `SessionsCapProofs.tla` | the bound on overruns of the session cap |
| `SessionLedger.tla` | what the store promises: a ledger of sessions that only grows |
| `Standing.tla` | the contract on sessions between Sessions and Api: how they stand while requests are under way |
| `StandingProofs.tla` | Sessions keeps that contract |
| `MCSessions.tla` | symmetry sets for TLC |
| `Users.tla` | the directory and the four use cases that write it, both stacks |
| `UserDirectory.tla` | what the port `UserRepository` promises: an atomic directory |
| `UsersProofs.tla` | inductive invariant, safety theorems, refinement of `UserDirectory` |
| `Accounts.tla` | the contract on users between Users and Api: roles and deactivations, changed through copies of rows |
| `AccountsProofs.tla` | Users keeps that contract |
| `MCUsers.tla` | symmetry sets for TLC |
| `Startup.tla` | entrypoint, migrations, bootstrap script and database job |
| `Installation.tla` | what startup promises: the schema moves once, a name is given once, ready replicas join |
| `StartupProofs.tla` | inductive invariant, safety theorems, refinement of `Installation` |
| `MCStartup.tla` | the module its runs name |
| `FastApiGateway.tla`, `DrfGateway.tla` | the two interfaces as functions, operator by operator the same |
| `Api.tla` | the composition: gateway, authorisation, use cases and `/auth`, over users, sessions and tokens |
| `ApiProofs.tla` | inductive invariant and theorems about it |
| `ApiContractProofs.tla` | Api keeps both contracts |
| `MCApi.tla` | symmetry, and the mixes of calls its run takes |

### Sessions

State: `sessions` (the committed rows), `active` (the column of `users` the
queries read), `req` (what each slot, i.e. request in flight, has read and
computed), `now`; and, for the properties only, `jwt`, `tokenOf`, `grants`,
`loggedOut`. An action is one statement or one commit:

* `LoginAuthenticate`: the transaction of `AuthenticateUserUseCase`;
  `LoginSelect`: the SELECT of `create` and the choice of rows to evict;
  `Flush`: the UPDATEs get their row locks; `LoginCommit`.
* `RefreshSelect`: `get_user_valid_session_by_refresh_token`; `Flush`;
  `RefreshCommit`: the two columns `rotate_refresh_token` sets.
* `LogoutSelect`, `Flush`, `LogoutCommit`: `revoke`.
* `Abort`: any exception, cancellation or crash; `ChangeActive`, `Tick`:
  what happens around a request.

The stacks differ in `Competing`: SQLAlchemy counts unexpired sessions for the
cap, Django every session that is not revoked. A token stands for its hash,
random tokens and ids are fresh. `Flush` takes all row locks of a request
together: SQLAlchemy sorts its UPDATEs by primary key, and Django sends one
UPDATE, so requests do not deadlock over them.

`SessionLedger.tla` has no requests, lifetimes or expiries: a line is entered
for a user with a fresh token, its token is exchanged for a fresh one, lines
of one user are closed. The refinement mapping is `Lines` (the rows without
`expires_at`) and `HandedOut` (tokens whose row was committed). Every commit
of Sessions is one step of it, everything else stutters.

`Standing.tla` is the other way to look at the same store: no tokens, but
requests. A session is free, live, expired or revoked, and a request is what
was found out when it began: whose login was accepted, which live session a
refresh presented, whose logout it is. The mapping is `StandingOf` (a row read
with the clock) and `WorkOf` (a slot until its commit). What the ledger
cannot say is said here: a refresh begins with a session that is live, though
it may have expired, or have been revoked, by the time its row is written.

### Users

State: `users`, `live` (who has a valid admin session), `req`, and `failed`
(requests answered 500, and why). A request walks through the stages of its
use case: `Load`, `Unique` (`ensure_username_unique`), `Save` (SQLAlchemy's
`update` gets the row again), `Flush` (row lock), `KeyFree`/`KeyTaken` (the
unique index), `Commit`. Two facts of the stacks matter:

* Django's UPDATE sets every column of the entity. SQLAlchemy's sets those
  that differ from the object `update` gets; whether that is the object loaded
  before or a fresh one depends on whether the weakly referenced identity map
  still holds it, so `Save` may do either.
* A duplicate at the constraint is caught by `CreateUser` outside its unit of
  work, by the others inside. On SQLAlchemy the unit of work then commits a
  session that the failed flush has rolled back, which raises
  (`DuplicateFails`).

`WaitsFor` is PostgreSQL's wait graph: for the row, and for a username whose
index entry another open transaction has changed. `DeadlockVictim` is the
deadlock check.

`UserDirectory.tla` knows no requests: a row is registered or changed in one
step, under a username nobody has, and never goes away. `Users` implements it
with the committed rows as the refinement mapping (the variable has the same
name in both).

`Accounts.tla` keeps what authorisation reads, the role and `is_active`, and
the one thing the atomic directory hides: that a change is made to a copy of
the row (`Edit`) and written later (`Write`), whole or only in the columns
that differ, whatever the row has become. The mapping is `AccountOf` (the two
columns of a row) and `ChangeOf` (the entity a slot holds, from `Load` on).

### Startup

State: the configuration `env`, the schema (`tables`, what the DDL made, and
`version`, what the version table says), the grants of the database job, the
bootstrap admin (`taken`, `created`), and the stage of every replica. Alembic
runs all revisions and writes its version in one transaction; Django writes
`django_migrations` in a second one, because the foreign key of
`user_sessions` leaves deferred SQL. Of Django's migrations only the
application's own is modelled. Replicas that find the work half done fail and
are started again, so retries are part of the behaviour. `Needed` says how far
the job must be: `env.py` points `search_path` at `app` and `public`, so
Alembic's tables go to `public`, which takes ownership of the database, the
last step of the job.

`Installation.tla` is the same without job, waiting, database outages and
failures: the schema is upgraded in one step (on Django confirmed in another),
an admin is created while nobody has the name, replicas join when both are
done, and leave. The mapping takes `tables`, `version`, `taken` and `created`
as they are, and for `serving` the replicas at stage `"serve"`. What the state
invariants do not say is said here: nothing ever touches a schema that is
recorded, and a replica joins at a moment when the admin is there, not merely
after one has been created.

### Api

State: the installation (`mix`, what clients call; `stack`), the committed rows
(`users` with role and `is_active` only, `sessions` with owner and standing),
`tokens` (the claims of every access token handed out), `req`, and `answer`
(what the last step answered, or nothing). A request arrives (`Arrive...`): the
gateway rejects it or hands it on (`Call`). A use case is then authorised
(`Authorise`: the join of session and user, and the role claim), runs (one
action per use case, its reads), and commits (`Commit`, `Lose`); DeleteUser
asks for the caller once more (`Again`). The handlers of `/auth` are
`Authenticate`/`Open`, `Select`/`Rotate` and `Revoke`. Between any two of
those steps other requests run, sessions expire (`ExpireSessions`) and requests
are cut off (`Abort`).

* A gateway module holds what its routes or views fix (method, code of success,
  whether the path has an id), what is refused before a use case runs
  (`Rejection`), and what becomes of an outcome (`Code`, `CacheControl`).
  FastAPI leaves a malformed id to the use case, DRF's URL pattern does not.
* `NoToken` is a call whose token is missing, forged or expired: all three are
  turned away by the same line.
* Usernames are not in this module, so a conflict or an unchanged name may
  always happen; who wins a name is the matter of `Users.tla`. Likewise a login
  may revoke any sessions of its user; which ones is the matter of
  `Sessions.tla`.
* What commits do to the rows is not defined here but taken from the contracts:
  `Accounts!Written` for users, `Opened`, `Renewed`, `Closed` and `Expired` of
  Standing for sessions. `Users.tla` and `Sessions.tla` are proved to keep the
  contracts (`AccountsImplemented`, `StandingImplemented`), and so is `Api.tla`
  as a whole, with its rows and requests as the mapping (`Changes`, `Work`); so
  the composition allows itself nothing that its parts do not promise, and the
  parts do nothing that the composition has not been told of.
* `Duplicate`, how a lost race for a name is answered, is taken over from
  `Users.tla` by hand: the contract has no names.
* For the properties: `alone` says that no other request was in flight and no
  session expired since the request came, `dead` that its session had been
  revoked when it came, `over` that it is revoked now.

## 3. Runs

| run | bounds | what it asks |
|---|---|---|
| `sessions_sql` | 1 user, 3 sessions, 4 tokens, 2 requests, cap 1, clock 0..2 | revocation is permanent, logout final, spent tokens dead, overrun of the cap bounded; refinement of `SessionLedger` and of `Standing` |
| `sessions_django` | 2 users, 2 sessions, 2 tokens, 2 requests, cap 1, clock 0..1 | no request touches another user's sessions; a token opens its own session only; every request finishes |
| `sessions_onetime` (violated) | 1 session, 2 requests | `rotate_refresh_token` promises one-time tokens |
| `sessions_cap` (violated) | 2 sessions, 2 requests, cap 1 | `create` promises a maximum |
| `users_sql` | 2 users, 2 names, 1 password, 2 requests, all use cases | unique usernames, lost races, refinement of `UserDirectory` and of `Accounts`; every request finishes |
| `users_circle` | Django, 2 users, 3 names, 3 requests, create and update | the only deadlocks; answers equal rows; unique usernames again |
| `users_reactivated` (violated) | Django, 2 users, 2 requests | the aggregate is a consistency boundary |
| `users_update500` (violated) | SQLAlchemy, 2 users, 2 requests | a taken username is a 409 |
| `startup_race` | 2 replicas, 3 crashes, 1 renaming, every configuration | readiness, one admin per name, no wedge, everybody comes up; refinement of `Installation` |
| `startup_once` (violated) | 1 replica, 1 crash, 1 renaming | the script creates an admin once |
| `api` | both stacks, 2 users, 2 logins, 2 requests, three mixes of calls | revoked sessions, serial requests, cache headers, equal answers, the last admin, reactivation; both contracts |
| `api_delete500` (violated) | FastAPI, 2 users, 1 login, 2 requests | a session that is over is a 401 |

Why the bounds are enough. The interesting schedules of sessions and users are
pairs: what one request read is changed by another before it writes. Two slots
give all pairs, and a slot is used again after its request has ended, so the
pairs chain (two requests that finish one after another inside a third). The
two runs that check liveness do without symmetry, which would make the result
meaningless. Three
slots are needed once, for a circle of waiting renamings, where a third request
must free a name in between; hence `users_circle`. A cap of one makes every
second login evict, and the counterexample to `SessionCap` needs no more; for
larger caps, where the order of `expires_at` matters, the bound is proved
(section 5). The clock needs to pass one lifetime. In `startup_race` two replicas are the old and the new pod
of a rolling update, and three crashes are what the job's `backoffLimit`
forgives; all proved properties hold for any number of replicas. In `api` two
users are an admin and somebody, or two admins who act on each other; two
sessions are two logins in one behaviour (a session is not used twice, and
without a free one no login arrives); the `Mixes` put those calls together that
change what the others rely on: roles and deactivations, ends of sessions, and
the rest of the use cases. `AskedRoles` is the role a demotion asks for. The
theorems about `Api.tla` need none of these bounds. `Ops`, `Mixes`,
`AskedRoles`, `MaxTime`, `MaxStops`, `MaxRenames` and the free session
`ArriveLogin` asks for are the only bounds in the specifications; the rest are
sizes of sets.

No run disables the deadlock check: an idle system still refuses requests
(`Refuse`, `LoginRefused`, `HealthCheck`, `Call`).

### Disagreements found

1. `sessions_onetime`: two refreshes that present one token at the same time
   are both answered 200; the UPDATE is by primary key and does not look at the
   old hash. Bounded by `SpentTokensAreDead`: afterwards the token is dead.
2. `sessions_cap`: logins that overlap do not see each other's rows. Bounded
   by `CapUnderConcurrency`: at most one session per request in flight.
3. `users_reactivated`: an update that loaded the row before a deactivation
   writes `is_active = true` back. It is what `Overlay` with all columns does;
   it can also happen on SQLAlchemy when the row is read anew. Bounded by
   `ReactivationNeedsOverlap`: only a request that overlapped another does it.
4. `users_update500`: see `DuplicateFails` above. `LostRaceIsConflict` says
   where it cannot happen.
5. `startup_once`: after the bootstrap admin was renamed, the next restart
   creates another one. Bounded by `OneAdminPerName`.
6. `api_delete500`: DeleteUser looks at the current user twice, and the second
   look is outside every `try`: a logout (or demotion, or deactivation) in
   between is a 500, not the 401 the routes document. `SerialRequestsDoNotFail`
   says that it takes an overlap.

Read off the code and excepted in the properties, without a run of their own:

* On DRF a conflict is answered 500: `ConflictError` ("HTTP 409 Conflict.",
  `drf/utils.py:17`) is no `APIException`, so no handler makes a 409 of it.
* DRF answers an unauthorised call 403 where FastAPI answers 401 (no
  authentication class, so no `WWW-Authenticate`), and refused bodies and
  domain errors 400 where FastAPI answers 422. `StacksAgree` asks for the class
  of the code only.
* `GET /users` and `GET /users/{id}` are described as "admin only"; the use
  cases admit both roles, and the tests agree with the code.
* An admin who changes their own role can be the last one
  (`LockoutNeedsOverlap` excepts it).

## 4. Fairness

`FairSpec` of Sessions and Users has weak fairness of `Advance` for every
slot: the event loop resumes a task whose statement has returned, and nothing
in the handlers holds it up. It has strong fairness of the steps that wait for
a lock: PostgreSQL queues waiters of a row and of an index entry, so a waiter
is not overtaken for ever by later transactions. In Users, weak fairness of
`DeadlockVictim` is the server's deadlock check. Nothing is assumed about
clients, the clock, aborts or deactivations. In `users_sql` two slots leave
no room for a circle, so there the deadlock check is not what makes
`RequestsFinish` hold. `Api.tla` has no liveness: its steps wait for nothing.

`FairSpec` of Startup has weak fairness of `Advance` (restart policies of
Kubernetes and Compose; a started process runs), of `JobStep` (the job is
retried; `MaxStops` stays within its `backoffLimit`; under Compose, where the
job is not retried, it stands for an operator) and of `StartDb`. Crashes are
bounded and not fair. `ReplicasComeUp` excepts a database that is `Wedged`:
old sessions in the way of the `NOT NULL` column of revision `eaf108d2c2ef`,
or, on Django, a crash between migrating and recording. Both are real
crash loops of the code; `RacesDoNotWedge` says they are the only ones.

## 5. Proofs

All theorems hold for any sets of users, names, tokens, requests and replicas,
under the named assumptions of the modules (`SessionsAssumption`,
`FiniteAssumption`, `UsersAssumption`, `StartupAssumption`, `ApiAssumption`),
which TLC evaluates in the runs. Each proof has the same shape: `InitInv`, one
lemma per action or group of actions for `IInv /\ [Next]_vars => IInv'`, and
the theorem by temporal reasoning. `IInv` was model-checked before it was
proved.

* **Sessions.** `TypeCorrect`, `RevocationIsPermanent`, `LogoutHolds`,
  `SpentTokensStayDead`, `TokensOpenOwnSession`, `EvictionStaysHome`,
  `LedgerImplemented`, `StandingImplemented`. The properties are not inductive:
  that a spent token stays dead needs that the tokens in flight are pairwise
  different and were never handed out, and that a row only carries a hash
  handed out for it; that logout is final needs that a request about to write a
  row knows whose row it is. The contract needs one fact more, `LogoutInv`: a
  logout writes no row but that of the session its token names.
* **The session cap.** `CapHoldsUnderConcurrency`: at most
  `MAX_CONCURRENT_SESSIONS - 1` live sessions of a user plus one per request in
  flight, for any cap. A login that has chosen what it evicts will add a row
  whatever commits before it does, and a refresh brings back a session that
  expired meanwhile; so `CapInv` bounds, for every set of such requests, the
  sessions live after all of them have committed (`Ahead`). A login that looks
  keeps less than the cap, and the requests name at most one session each;
  every other step only shrinks what is ahead. It is the only proof that
  counts, and the only one that needs finite sets (`FiniteAssumption`).
* **Users.** `TypeCorrect`, `UsernamesStayUnique`, `OnlyRenamingsDeadlock`,
  `LostRacesAreConflicts`, `AnswersMatchRows`, `DirectoryImplemented`,
  `AccountsImplemented`. The unique index is modelled by its waiting rule, not
  assumed to give uniqueness: `ClaimInv` says that a request past the index
  excludes every row and every other such request from the name, and `LockInv`
  that rows being written are locked, so that the check stays true until the
  commit. The contract needs two facts more. A creation has asked for its row,
  and no other use case asks for an active user, or for a role and a
  deactivation at once (`AskInv`); on Django every statement under way sets all
  columns (`WholeRows`).
* **Startup.** `TypeCorrect`, `ServingReplicasAreReady`,
  `AdminsAreNotDuplicated`, `RacesAreHarmless`, `InstallationImplemented`.
  Needed on the way: one migration holds the locks at a time and has read the
  current revision; an INSERT that is due excludes the name; `created` is
  renamings plus one if the name is taken; only a configuration that asks for
  an admin runs the script (`BootInv`).
* **Api.** `TypeCorrect`, `RevokedGetNothing`, `SerialDoNotFail`,
  `PrivateNotStored`, `StacksAnswerAlike`, `LockoutOnlyByOverlap`,
  `ReactivationOnlyByOverlap`, `AccountsImplemented`, `StandingImplemented`. An
  answer is right because of what is known of the request that got it, so the
  invariant is about requests (`RequestOK`): which stage belongs to which
  operation and what it has found out (`Shape`), that its token was handed out
  (`Bearer`), that one whose session was revoked beforehand is still before the
  check that refuses it (`Stuck`), and that a request that is alone still finds
  the caller as authorised and the rows as read (`Serial`). `Solitude` says
  that a request that is alone is the only one; `AnswerOK` are the four
  properties of answers. That revocation is permanent (`SessionsAge`) is what
  carries `Stuck` over the steps of others; that rows of users are never
  removed (`UsersAge`) does the same for `Kept`, that a request about to commit
  has a row to change, and for `Creates` and `Inserts`, that one about to
  insert has none. A user who was inactive when a request that is alone looked
  is still so when it writes: that is the part of `Serial` that bounds
  reactivation.
* **The contracts** (`ApiContractProofs`, `AccountsProofs`, `StandingProofs`).
  Each is the step simulation lemma by lemma: every action of the detailed
  module maps to one action of the contract or leaves the mapped state alone.
  Since they share state with the actions of others only through the rows, it
  is the invariants above that say a step is allowed: the row is still there,
  the id is still free, the session was handed out.

Only model-checked: all liveness (`RequestsFinish`, `ReplicasComeUp`), which is
out of the proof system's reach. Argued, not proved: that `Duplicate` of
`Api.tla` is what `Users.tla` answers, and that the guards by which Api lets a
request begin (authorisation, which the contracts do not mention) are those of
the detailed modules.



## 6. Not modelled

* The documentation pages of the gateways, and methods or paths no route has.
* What answers contain, beyond their code and cache header.
* `delete_expired` and `revoke_by_refresh_token`: nothing calls them.
* Signatures, bcrypt, randomness: taken as perfect; collisions are left out.
* The contents of requests and answers beyond what a property tells apart;
  input no value object accepts ends in `Refuse` (Users) or is one of the inputs
  `bad_id` and `bad_value` (Api). DRF trims the strings of a body, FastAPI does
  not.
* The foreign key from sessions to users: users are never removed.
* Python's memory, except where it decides what is written (`Save`).
* Serial behaviour without overlap is the case of one slot of the same modules.
* The validators of the configuration and the value objects: predicates on one
  value, decided before anything has state.

## 7. Plan

Done: Sessions, Users with its abstract directory, Startup, in the order of how
much can go wrong; then the abstract ledger of sessions, the two gateways, the
composition of all parts, the contracts between it and the detailed modules,
and proofs of every safety property the passing runs check.

Next, in this order:

1. Usernames in the contract `Accounts.tla`, so that `Duplicate` is a
   consequence as well.
2. `delete_expired` and `revoke_by_refresh_token`, as soon as something calls
   them.
3. `users_circle` with deactivations and password changes, once TLC's bounds
   allow four requests.
