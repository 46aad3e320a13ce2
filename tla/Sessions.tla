------------------------------ MODULE Sessions ------------------------------
(***************************************************************************)
(* The session store of the template: the table user_sessions and the      *)
(* three handlers that change it, POST /auth/login, POST /auth/refresh and *)
(* POST /auth/logout.                                                      *)
(*                                                                         *)
(* Every request runs in a slot (an asyncio task of some worker).  A slot  *)
(* advances by one SQL statement or one COMMIT at a time, because the      *)
(* handlers await between statements and PostgreSQL runs them at READ      *)
(* COMMITTED: a SELECT sees what is committed when it runs, an UPDATE      *)
(* waits for the row lock of another transaction and then writes only the  *)
(* columns it names.  The stages of a slot are                             *)
(*                                                                         *)
(*   "create"  login: the credentials were accepted in a transaction of    *)
(*             their own and the second transaction has not started        *)
(*   "flush"   the SELECT ran and the new values are computed in memory    *)
(*   "commit"  the writes are sent: their rows are locked, COMMIT is due   *)
(*                                                                         *)
(* The users table is owned by Users.tla; here it is reduced to `active',  *)
(* the one column of it the session queries read.                          *)
(***************************************************************************)
EXTENDS Integers, FiniteSets

CONSTANTS
  Users,        \* user ids
  SessionIds,   \* the uuid4 values new rows may take
  Tokens,       \* refresh tokens; a token stands for its SHA-256 hash too
  Slots,        \* requests that may be in flight at the same time
  MaxSessions,  \* cfg.MAX_CONCURRENT_SESSIONS
  SessionTTL,   \* cfg.SESSION_EXPIRY_TIME
  AccessTTL,    \* cfg.JWT_TOKEN_EXPIRY
  MaxTime,      \* bound of the clock
  Backend,      \* which of the two persistence stacks runs
  None          \* no user, no session, no token

ASSUME SessionsAssumption ==
  /\ MaxSessions \in Nat \ {0}
  /\ SessionTTL \in Nat \ {0}
  /\ AccessTTL \in Nat \ {0}
  /\ MaxTime \in Nat
  /\ Backend \in {"sqlalchemy", "django"}
  /\ None \notin Users \cup SessionIds \cup Tokens

(* There are finitely many uuid4 values, and a process has finitely many   *)
(* tasks; only what counts sessions needs it.                              *)
ASSUME FiniteAssumption == IsFiniteSet(SessionIds) /\ IsFiniteSet(Slots)

VARIABLES
  sessions,   \* the committed rows of user_sessions
  active,     \* the committed column users.is_active
  req,        \* what each slot is doing
  jwt,        \* when the last access token handed out for a session expires
  tokenOf,    \* the session each refresh token was handed out for
  grants,     \* how often each refresh token was exchanged successfully
  loggedOut,  \* the sessions a logout was answered 204 for
  now         \* the clock

vars == <<sessions, active, req, jwt, tokenOf, grants, loggedOut, now>>

-----------------------------------------------------------------------------
(* State. *)

NoRow == [user |-> None, expires |-> 0, revoked |-> FALSE, hash |-> None]

Row == [user : Users \cup {None}, expires : Nat, revoked : BOOLEAN,
        hash : Tokens \cup {None}]

Idle == [op |-> "idle", pc |-> "idle", user |-> None, sid |-> None,
         tok |-> None, new |-> None, expires |-> 0, access |-> 0, rows |-> {}]

Request ==
  [op : {"idle", "login", "refresh", "logout"},
   pc : {"idle", "create", "flush", "commit"},
   user : Users \cup {None},          \* whose session it is
   sid : SessionIds \cup {None},      \* the session the request is about
   tok : Tokens \cup {None},          \* the refresh token presented
   new : Tokens \cup {None},          \* the refresh token generated
   expires : Nat,                     \* the expires_at computed
   access : Nat,                      \* the exp claim of the new access token
   rows : SUBSET SessionIds]          \* the existing rows it will write

(* The rows a slot holds locks on: from its writes to the end of its       *)
(* transaction.                                                            *)
Locked(r) == IF req[r].pc = "commit" THEN req[r].rows ELSE {}

-----------------------------------------------------------------------------
(* The queries. *)

Exists(s) == sessions[s].user # None

(* not is_revoked: neither revoked nor past its expiry. *)
Live(s) == Exists(s) /\ ~sessions[s].revoked /\ sessions[s].expires > now

(* get_user_if_session_valid finds a row: the session authorises calls. *)
Usable(s) == Live(s) /\ active[sessions[s].user]

RefreshableExpired(t, s) ==  \* mutant: expires_at is not in the query
  /\ Exists(s) /\ ~sessions[s].revoked /\ active[sessions[s].user]
  /\ sessions[s].hash = t

(* get_user_valid_session_by_refresh_token(t) finds session s. *)
Refreshable(t, s) == Usable(s) /\ sessions[s].hash = t

(* The rows create's SELECT ranges over: SQLAlchemy leaves expired         *)
(* sessions out, Django counts every session that is not revoked.          *)
CompetingSQL(u) == {s \in SessionIds : sessions[s].user = u /\ Live(s)}

CompetingDjango(u) ==
  {s \in SessionIds : sessions[s].user = u /\ ~sessions[s].revoked}

CompetingAnyUser(u) == {s \in SessionIds : Live(s)}  \* mutant: no user filter

Competing(u) ==
  IF Backend = "sqlalchemy" THEN CompetingSQL(u) ELSE CompetingDjango(u)

ExcessOffByOne(u) ==  \* mutant: keeps MaxSessions rows
  {E \in SUBSET Competing(u) :
     /\ \A e \in E, k \in Competing(u) \ E :
          sessions[e].expires <= sessions[k].expires
     /\ IF Cardinality(Competing(u)) <= MaxSessions
          THEN E = {}
          ELSE Cardinality(Competing(u) \ E) = MaxSessions}

(* What the SELECT may return: all but the MaxSessions - 1 rows that       *)
(* expire last; rows that expire at the same time come in any order.       *)
Excess(u) ==
  {E \in SUBSET Competing(u) :
     /\ \A e \in E, k \in Competing(u) \ E :
          sessions[e].expires <= sessions[k].expires
     /\ IF Cardinality(Competing(u)) < MaxSessions
          THEN E = {}
          ELSE Cardinality(Competing(u) \ E) = MaxSessions - 1}

TokensDrawnAgain == {t \in Tokens : TRUE}  \* mutant: tokens may repeat

(* Random 256-bit tokens and uuid4 ids are taken to be fresh.              *)
FreshTokens ==
  {t \in Tokens : tokenOf[t] = None /\ \A r \in Slots : req[r].new # t}
FreshSessions ==
  {s \in SessionIds : ~Exists(s) /\ \A r \in Slots : req[r].sid # s}

-----------------------------------------------------------------------------
(* Login. *)

(* AuthenticateUser accepts: its transaction reads the user, finds it      *)
(* active and the password right; the handler then draws a refresh token.  *)
LoginAuthenticate(r, u) ==
  /\ req[r] = Idle
  /\ active[u]
  /\ \E s \in FreshSessions, t \in FreshTokens :
       req' = [req EXCEPT ![r] =
         [op |-> "login", pc |-> "create", user |-> u, sid |-> s, tok |-> None,
          new |-> t, expires |-> 0, access |-> 0, rows |-> {}]]
  /\ UNCHANGED <<sessions, active, jwt, tokenOf, grants, loggedOut, now>>

(* AuthenticateUser refuses: unknown or inactive user or wrong password.   *)
(* The password may be wrong whatever the user's state.                    *)
LoginRefused(r) ==
  /\ req[r] = Idle
  /\ UNCHANGED vars

(* create: SELECT the sessions to evict, mark them and build the new row.  *)
LoginSelect(r) ==
  /\ req[r].op = "login" /\ req[r].pc = "create"
  /\ \E E \in Excess(req[r].user) :
       req' = [req EXCEPT ![r].pc = "flush", ![r].rows = E,
                          ![r].expires = now + SessionTTL]
  /\ UNCHANGED <<sessions, active, jwt, tokenOf, grants, loggedOut, now>>

-----------------------------------------------------------------------------
(* Refresh. *)

(* SELECT by token hash; on a hit the handler draws the next token and     *)
(* computes the new expiry.                                                *)
RefreshSelect(r, t) ==
  /\ req[r] = Idle
  /\ \E s \in SessionIds, n \in FreshTokens :
       /\ Refreshable(t, s)
       /\ req' = [req EXCEPT ![r] =
            [op |-> "refresh", pc |-> "flush", user |-> sessions[s].user,
             sid |-> s, tok |-> t, new |-> n, expires |-> now + SessionTTL,
             access |-> 0, rows |-> {s}]]
  /\ UNCHANGED <<sessions, active, jwt, tokenOf, grants, loggedOut, now>>

(* No row: 401. *)
RefreshRefused(r, t) ==
  /\ req[r] = Idle
  /\ \A s \in SessionIds : ~Refreshable(t, s)
  /\ UNCHANGED vars

-----------------------------------------------------------------------------
(* Logout. *)

(* The middleware accepts an unexpired access token; revoke loads the row  *)
(* by id and writes only if it finds it not revoked.                       *)
LogoutSelect(r, s) ==
  /\ req[r] = Idle
  /\ jwt[s] > now
  /\ req' = [req EXCEPT ![r] =
       [op |-> "logout", pc |-> IF sessions[s].revoked THEN "commit" ELSE "flush",
        user |-> sessions[s].user, sid |-> s, tok |-> None, new |-> None,
        expires |-> 0, access |-> 0,
        rows |-> IF sessions[s].revoked THEN {} ELSE {s}]]
  /\ UNCHANGED <<sessions, active, jwt, tokenOf, grants, loggedOut, now>>

-----------------------------------------------------------------------------
(* Writing and committing. *)

FlushBackdated(r) ==  \* mutant: the lifetime is subtracted
  /\ req[r].pc = "flush"
  /\ \A q \in Slots \ {r} : req[r].rows \cap Locked(q) = {}
  /\ req' = [req EXCEPT ![r].pc = "commit", ![r].access = now - AccessTTL]
  /\ UNCHANGED <<sessions, active, jwt, tokenOf, grants, loggedOut, now>>

(* The UPDATEs of the request, once nobody else holds a lock on their      *)
(* rows.  SQLAlchemy sends them in primary-key order and all of them come  *)
(* before the one INSERT, so taking the locks together loses no deadlock.  *)
(* The access token is signed right after, inside the transaction.         *)
Flush(r) ==
  /\ req[r].pc = "flush"
  /\ \A q \in Slots \ {r} : req[r].rows \cap Locked(q) = {}
  /\ req' = [req EXCEPT ![r].pc = "commit",
                        ![r].access = IF req[r].op = "logout"
                                        THEN 0 ELSE now + AccessTTL]
  /\ UNCHANGED <<sessions, active, jwt, tokenOf, grants, loggedOut, now>>

(* The evicted rows get revoked_at, the new row appears, 200 with tokens.  *)
LoginCommit(r) ==
  LET q == req[r] IN
  /\ q.op = "login" /\ q.pc = "commit"
  /\ sessions' = [s \in SessionIds |->
       IF s = q.sid
         THEN [user |-> q.user, expires |-> q.expires, revoked |-> FALSE,
               hash |-> q.new]
         ELSE IF s \in q.rows THEN [sessions[s] EXCEPT !.revoked = TRUE]
         ELSE sessions[s]]
  /\ jwt' = [jwt EXCEPT ![q.sid] = q.access]
  /\ tokenOf' = [tokenOf EXCEPT ![q.new] = q.sid]
  /\ req' = [req EXCEPT ![r] = Idle]
  /\ UNCHANGED <<active, grants, loggedOut, now>>

RefreshCommitWholeRow(r) ==  \* mutant: saves revoked_at as it was loaded
  LET q == req[r] IN
  /\ q.op = "refresh" /\ q.pc = "commit"
  /\ sessions' = [sessions EXCEPT ![q.sid] =
       [user |-> q.user, expires |-> q.expires, revoked |-> FALSE,
        hash |-> q.new]]
  /\ jwt' = [jwt EXCEPT ![q.sid] = IF q.access > @ THEN q.access ELSE @]
  /\ tokenOf' = [tokenOf EXCEPT ![q.new] = q.sid]
  /\ grants' = [grants EXCEPT ![q.tok] = @ + 1]
  /\ req' = [req EXCEPT ![r] = Idle]
  /\ UNCHANGED <<active, loggedOut, now>>

(* The two columns rotate_refresh_token sets, found by primary key: what   *)
(* the row looks like by now is not checked again.                         *)
RefreshCommit(r) ==
  LET q == req[r] IN
  /\ q.op = "refresh" /\ q.pc = "commit"
  /\ sessions' = [sessions EXCEPT ![q.sid].hash = q.new,
                                  ![q.sid].expires = q.expires]
  /\ jwt' = [jwt EXCEPT ![q.sid] = IF q.access > @ THEN q.access ELSE @]
  /\ tokenOf' = [tokenOf EXCEPT ![q.new] = q.sid]
  /\ grants' = [grants EXCEPT ![q.tok] = @ + 1]
  /\ req' = [req EXCEPT ![r] = Idle]
  /\ UNCHANGED <<active, loggedOut, now>>

LogoutCommitLeavesOpen(r) ==  \* mutant: nothing to revoke, never closed
  LET q == req[r] IN
  /\ q.op = "logout" /\ q.pc = "commit" /\ q.rows # {}
  /\ sessions' = [s \in SessionIds |->
       IF s \in q.rows THEN [sessions[s] EXCEPT !.revoked = TRUE]
                       ELSE sessions[s]]
  /\ loggedOut' = loggedOut \cup {q.sid}
  /\ req' = [req EXCEPT ![r] = Idle]
  /\ UNCHANGED <<active, jwt, tokenOf, grants, now>>

(* revoked_at alone is written; 204 whether or not anything was.           *)
LogoutCommit(r) ==
  LET q == req[r] IN
  /\ q.op = "logout" /\ q.pc = "commit"
  /\ sessions' = [s \in SessionIds |->
       IF s \in q.rows THEN [sessions[s] EXCEPT !.revoked = TRUE]
                       ELSE sessions[s]]
  /\ loggedOut' = loggedOut \cup {q.sid}
  /\ req' = [req EXCEPT ![r] = Idle]
  /\ UNCHANGED <<active, jwt, tokenOf, grants, now>>

(* An exception, a cancelled task or a crash between two statements: the   *)
(* unit of work rolls back, or the database does when the connection drops.*)
Abort(r) ==
  /\ req[r].pc # "idle"
  /\ req' = [req EXCEPT ![r] = Idle]
  /\ UNCHANGED <<sessions, active, jwt, tokenOf, grants, loggedOut, now>>

-----------------------------------------------------------------------------
(* The surroundings. *)

(* Users.tla commits a row: DELETE /users/{id} deactivates the user, and   *)
(* an update that had read the row before sets is_active again.  Both      *)
(* leave the sessions alone.                                               *)
ChangeActive(u) ==
  /\ active' = [active EXCEPT ![u] = ~@]
  /\ UNCHANGED <<sessions, req, jwt, tokenOf, grants, loggedOut, now>>

Tick ==
  /\ now < MaxTime
  /\ now' = now + 1
  /\ UNCHANGED <<sessions, active, req, jwt, tokenOf, grants, loggedOut>>

-----------------------------------------------------------------------------
Init ==
  /\ sessions = [s \in SessionIds |-> NoRow]
  /\ active = [u \in Users |-> TRUE]
  /\ req = [r \in Slots |-> Idle]
  /\ jwt = [s \in SessionIds |-> 0]
  /\ tokenOf = [t \in Tokens |-> None]
  /\ grants = [t \in Tokens |-> 0]
  /\ loggedOut = {}
  /\ now = 0

(* The steps a slot takes by itself once its request has arrived. *)
Advance(r) ==
  LoginSelect(r) \/ Flush(r) \/ LoginCommit(r) \/ RefreshCommit(r)
    \/ LogoutCommit(r)

Next ==
  \/ \E r \in Slots :
       \/ \E u \in Users : LoginAuthenticate(r, u)
       \/ LoginRefused(r)
       \/ \E t \in Tokens : RefreshSelect(r, t) \/ RefreshRefused(r, t)
       \/ \E s \in SessionIds : LogoutSelect(r, s)
       \/ Advance(r)
       \/ Abort(r)
  \/ \E u \in Users : ChangeActive(u)
  \/ Tick

Spec == Init /\ [][Next]_vars

(* The event loop resumes every task whose statement has come back (weak   *)
(* fairness), and PostgreSQL queues the transactions that wait for a row,  *)
(* so that a waiter is served before later comers (strong fairness).       *)
FairSpec ==
  Spec /\ \A r \in Slots : WF_vars(Advance(r)) /\ SF_vars(Flush(r))

-----------------------------------------------------------------------------
TypeOK ==
  /\ sessions \in [SessionIds -> Row]
  /\ active \in [Users -> BOOLEAN]
  /\ req \in [Slots -> Request]
  /\ jwt \in [SessionIds -> Nat]
  /\ tokenOf \in [Tokens -> SessionIds \cup {None}]
  /\ grants \in [Tokens -> Nat]
  /\ loggedOut \subseteq SessionIds
  /\ now \in Nat

(* A session that is revoked stays revoked, whatever refreshes and logins  *)
(* were under way when it was: rotate_refresh_token and create write only  *)
(* their own columns of a row they read before the revocation.             *)
RevokedForever ==
  [][\A s \in SessionIds : sessions[s].revoked => sessions'[s].revoked]_vars

(* Once a logout has answered 204, no access token and no refresh token    *)
(* opens that session again, not even the pair of a refresh that was in    *)
(* flight at the time (test_refresh_token.py, refresh after revocation).   *)
LogoutIsFinal ==
  \A s \in loggedOut :
    ~Usable(s) /\ \A t \in Tokens : ~Refreshable(t, s)

(* A refresh token that was exchanged is refused from then on: no row      *)
(* carries its hash again, whichever of two racing refreshes commits last. *)
SpentTokensAreDead ==
  \A t \in Tokens, s \in SessionIds : grants[t] > 0 => sessions[s].hash # t

(* A refresh token opens no session but the one it was handed out for.     *)
TokenOpensOwnSession ==
  \A t \in Tokens, s \in SessionIds : Refreshable(t, s) => tokenOf[t] = s

(* How far the cap of MAX_CONCURRENT_SESSIONS can be overrun: logins that  *)
(* overlap do not see each other's rows, and a refresh in flight may bring *)
(* back a session that expired, but each slot adds one session at most.    *)
CapUnderConcurrency ==
  \A u \in Users : Cardinality({s \in SessionIds : sessions[s].user = u /\ Live(s)})
                     <= MaxSessions - 1 + Cardinality(Slots)

(* A step revokes sessions of one user only, the one its request is for:   *)
(* a login never evicts the sessions of somebody else.                     *)
EvictsOwnSessionsOnly ==
  [][\A s \in SessionIds :
       ~sessions[s].revoked /\ sessions'[s].revoked =>
         \E r \in Slots : /\ req[r].pc = "commit" /\ req'[r].pc = "idle"
                          /\ req[r].user = sessions[s].user]_vars

(* No request waits for ever: the locks it waits for are released, by the  *)
(* commit or the rollback of their holder.                                 *)
RequestsFinish == \A r \in Slots : req[r].pc # "idle" ~> req[r].pc = "idle"

(* The store as SessionLedger.tla sees it: no lifetimes, and a token counts *)
(* as given out when the row that carries it is committed.                  *)
Lines == [s \in SessionIds |-> [user    |-> sessions[s].user,
                                revoked |-> sessions[s].revoked,
                                token   |-> sessions[s].hash]]

HandedOut == {t \in Tokens : tokenOf[t] # None}

Ledger == INSTANCE SessionLedger WITH rows <- Lines, used <- HandedOut

(* Seen from outside, whatever the requests interleave, the store is that  *)
(* ledger: a row that commits keeps its user, its revocation and a token   *)
(* nobody had before.                                                      *)
ImplementsLedger == Ledger!Spec

(* The store as Standing.tla sees it: how each session stands, and what    *)
(* each request is about to do.                                            *)
StandingOf(s) ==
  [user  |-> sessions[s].user,
   state |-> IF ~Exists(s) THEN "free" ELSE IF sessions[s].revoked THEN "revoked"
             ELSE IF sessions[s].expires > now THEN "live" ELSE "expired"]

WorkOf(q) ==
  [op   |-> IF q.op = "idle" THEN "none" ELSE q.op,
   user |-> IF q.op = "login" THEN q.user ELSE None,
   sid  |-> IF q.op \in {"refresh", "logout"} THEN q.sid ELSE None]

Shared == INSTANCE Standing
  WITH standing <- [s \in SessionIds |-> StandingOf(s)],
       work <- [r \in Slots |-> WorkOf(req[r])]

(* To the rest of the service the store is that of Standing.tla: no commit *)
(* reopens a revoked session, and what expires may come back only by a     *)
(* refresh that found it live.                                             *)
ImplementsStanding == Shared!Spec

-----------------------------------------------------------------------------
(* What the docstrings promise and concurrent requests break. *)

(* rotate_refresh_token: "This implements one-time use refresh tokens for  *)
(* security."  No refresh token is exchanged twice.                        *)
OneTimeRefreshTokens == \A t \in Tokens : grants[t] <= 1

(* create: "max_sessions: Max concurrent sessions (older ones revoked)."   *)
(* No user has more live sessions than the cap.                            *)
SessionCap ==
  \A u \in Users : Cardinality({s \in SessionIds : sessions[s].user = u /\ Live(s)})
                     <= MaxSessions
=============================================================================
