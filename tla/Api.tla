---------------------------------- MODULE Api ----------------------------------
(***************************************************************************)
(* The whole service as its clients see it: a gateway, authorisation, the  *)
(* use cases and the handlers of /auth, over users and their sessions.  A  *)
(* request is answered in a few transactions, and others run in between.   *)
(*                                                                         *)
(* Users.tla and Sessions.tla have the statements, locks, hashes and times *)
(* of those transactions.  Here a use case reads in one step and writes in *)
(* another; of a row only the role and is_active are kept, of a session    *)
(* only how it stands.  What is new is what joins them: the claims of an   *)
(* access token, the role, the session, and the answer.                    *)
(***************************************************************************)
EXTENDS Naturals

CONSTANTS
  UserIds,     \* the UUIDs a user may have
  SessionIds,  \* the UUIDs a session may have
  Slots,       \* requests that may be in flight at the same time
  Admin, User, \* the two roles
  Mixes,       \* bound: the sets of operations clients call in one behaviour
  AskedRoles,  \* bound: the roles clients ask for; None: a new name only
  Stacks,      \* bound: the stacks the installation may run on
  None         \* no user, no session, no role

Roles == {Admin, User}

UserOps == {"get_all_users", "get_user", "update_user", "create_user",
            "change_password", "delete_user"}

ASSUME ApiAssumption ==
  /\ Admin # User
  /\ Mixes \subseteq SUBSET (UserOps \cup {"login", "refresh", "logout"})
  /\ AskedRoles \subseteq Roles \cup {None}
  /\ Stacks \subseteq {"fastapi", "drf"}
  /\ None \notin UserIds \cup SessionIds \cup Roles

VARIABLES
  mix,       \* what clients call
  stack,     \* which of the two stacks is installed
  users,     \* the committed rows of users
  sessions,  \* the committed rows of user_sessions
  tokens,    \* the access tokens handed out
  req,       \* what each slot is doing
  answer     \* the answer given by the last step, if it gave one

vars == <<mix, stack, users, sessions, tokens, req, answer>>

-----------------------------------------------------------------------------
(* State. *)

Absent == [role |-> None, active |-> FALSE]

Row == [role : Roles, active : BOOLEAN] \cup {Absent}

Exists(u) == users[u].role # None

Session == [user : UserIds \cup {None},
            state : {"free", "live", "expired", "revoked"}]

Claims == [sub : UserIds, role : Roles, sid : SessionIds]

NoToken == [sub |-> None, role |-> None, sid |-> None]

Idle == [op |-> "idle", stage |-> "idle", token |-> NoToken, input |-> "good",
         target |-> None, sid |-> None, role |-> None, row |-> Absent,
         alone |-> FALSE, dead |-> FALSE]

Request ==
  [op : UserOps \cup {"idle", "login", "refresh", "logout"},
   stage : {"idle", "authorise", "again", "run", "commit",
            "authenticate", "open", "select", "rotate", "revoke"},
   token : Claims \cup {NoToken},
   input : {"good", "malformed", "bad_id", "bad_value", "empty"},
   target : UserIds \cup {None},    \* the user the call is about
   sid : SessionIds \cup {None},    \* whose refresh token is presented
   role : Roles \cup {None},        \* the role asked for
   row : Row,                       \* the user as read, and changed
   alone : BOOLEAN,  \* no other request was in flight, no session expired
   dead : BOOLEAN]   \* the session was revoked before the request came

NoAnswer == [op |-> "none", outcome |-> "none", code |-> 0, cache |-> "none",
             alone |-> FALSE, dead |-> FALSE, over |-> FALSE]

Rejected(code) == [NoAnswer EXCEPT !.outcome = "rejected", !.code = code]

-----------------------------------------------------------------------------
(* The contracts with the detailed modules: Accounts.tla, which Users.tla  *)
(* implements, and Standing.tla, which Sessions.tla implements.  What a    *)
(* commit does to a row is theirs.                                         *)

(* Between the transaction that read and the one that writes. *)
Changes ==
  [r \in Slots |->
     IF req[r].stage = "commit"
       THEN [of |-> req[r].target, to |-> req[r].row,
             insert |-> req[r].op = "create_user"]
       ELSE [of |-> None, to |-> Absent, insert |-> FALSE]]

Directory == INSTANCE Accounts
  WITH accounts <- users, changes <- Changes, whole <- stack = "drf"

Work ==
  [r \in Slots |->
     [op   |-> IF req[r].stage = "open" THEN "login"
               ELSE IF req[r].stage = "rotate" THEN "refresh"
               ELSE IF req[r].stage = "revoke" THEN "logout" ELSE "none",
      user |-> IF req[r].stage = "open" THEN req[r].target ELSE None,
      sid  |-> IF req[r].stage = "rotate" THEN req[r].sid
               ELSE IF req[r].stage = "revoke" THEN req[r].token.sid ELSE None]]

Store == INSTANCE Standing
  WITH standing <- sessions, work <- Work, Users <- UserIds

-----------------------------------------------------------------------------
(* The two gateways. *)

FastApi == INSTANCE FastApiGateway
Drf == INSTANCE DrfGateway

Rejection(op, input, decodes) ==
  IF stack = "fastapi" THEN FastApi!Rejection(op, input, decodes)
                       ELSE Drf!Rejection(op, input, decodes)

Code(op, outcome) == IF stack = "fastapi" THEN FastApi!Code(op, outcome)
                                          ELSE Drf!Code(op, outcome)

CacheControl(op, code, header) ==
  IF stack = "fastapi" THEN FastApi!CacheControl(op, code, header)
                       ELSE Drf!CacheControl(op, code, header)

Revoked(t) == t # NoToken /\ sessions[t.sid].state = "revoked"

Respond(q, outcome, code) ==
  [op |-> q.op, outcome |-> outcome, code |-> code,
   cache |-> CacheControl(q.op, code, q.token # NoToken),
   alone |-> q.alone, dead |-> q.dead, over |-> Revoked(q.token)]

(* The use case of r is over; it changed nothing. *)
Reply(r, outcome) ==
  /\ answer' = Respond(req[r], outcome, Code(req[r].op, outcome))
  /\ req' = [req EXCEPT ![r] = Idle]
  /\ UNCHANGED <<mix, stack, users, sessions, tokens>>

(* The use case of r goes on as q. *)
Continue(r, q) ==
  /\ req' = [req EXCEPT ![r] = q]
  /\ answer' = NoAnswer
  /\ UNCHANGED <<mix, stack, users, sessions, tokens>>

-----------------------------------------------------------------------------
(* Arrival. *)

(* The other requests, once r is there as well. *)
Joined(r, q) == [s \in Slots |-> IF s = r THEN q
                                 ELSE [req[s] EXCEPT !.alone = FALSE]]

(* JwtTokenService.decode: signature, exp, required claims.  A token that  *)
(* is missing, forged or expired is NoToken here.                          *)
Decodes(t) == t \in tokens

(* The gateway rejects the call or hands it on. *)
Call(r, q) ==
  LET code == Rejection(q.op, q.input, Decodes(q.token)) IN
  /\ req[r] = Idle /\ q.op \in mix
  /\ IF code = 0
       THEN req' = Joined(r, q) /\ answer' = NoAnswer
       ELSE /\ answer' = Rejected(code)
            /\ UNCHANGED req
  /\ UNCHANGED <<mix, stack, users, sessions, tokens>>

Alone(r) == \A s \in Slots \ {r} : req[s] = Idle

FreshIds ==
  {u \in UserIds : ~Exists(u) /\ \A r \in Slots : req[r].target # u}

UserCall(r, op, token, input, target, role) ==
  Call(r, [op |-> op, stage |-> "authorise", token |-> token, input |-> input,
           target |-> target, sid |-> None, role |-> role, row |-> Absent,
           alone |-> Alone(r), dead |-> Revoked(token)])

(* A body may name a role that no UserRole is ("bad_value"); the lengths   *)
(* of names and passwords are the schema's and the value objects' alike.   *)
ArriveUsers(r) ==
  \E token \in tokens \cup {NoToken} :
    \/ UserCall(r, "get_all_users", token, "good", None, None)
    \/ \E u \in UserIds, op \in {"get_user", "delete_user"} :
         UserCall(r, op, token, "good", u, None)
    \/ \E op \in {"get_user", "delete_user"} :
         UserCall(r, op, token, "bad_id", None, None)
    \/ \E u \in FreshIds, g \in AskedRoles \ {None} :
         UserCall(r, "create_user", token, "good", u, g)
    \/ \E input \in {"malformed", "bad_value"} :
         UserCall(r, "create_user", token, input, None, None)
    \/ \E u \in UserIds, g \in AskedRoles :
         UserCall(r, "update_user", token, "good", u, g)
    \/ \E u \in UserIds : UserCall(r, "update_user", token, "bad_value", u, None)
    \/ \E input \in {"malformed", "bad_id", "empty"} :
         UserCall(r, "update_user", token, input, None, None)
    \/ \E u \in UserIds : UserCall(r, "change_password", token, "good", u, None)
    \/ \E input \in {"malformed", "bad_id"} :
         UserCall(r, "change_password", token, input, None, None)

(* "bad_value": credentials that are wrong, a refresh token nobody has.    *)
ArriveLogin(r) ==
  /\ \E s \in SessionIds : sessions[s].state = "free"  \* bound
  /\ \/ \E u \in UserIds :
          Call(r, [Idle EXCEPT !.op = "login", !.stage = "authenticate",
                               !.target = u, !.alone = Alone(r)])
     \/ \E input \in {"malformed", "bad_value"} :
          Call(r, [Idle EXCEPT !.op = "login", !.stage = "authenticate",
                               !.input = input, !.alone = Alone(r)])

ArriveRefresh(r) ==
  \/ \E s \in SessionIds :
       /\ sessions[s].state # "free"
       /\ Call(r, [Idle EXCEPT !.op = "refresh", !.stage = "select", !.sid = s,
                               !.alone = Alone(r),
                               !.dead = sessions[s].state = "revoked"])
  \/ \E input \in {"malformed", "bad_value"} :
       Call(r, [Idle EXCEPT !.op = "refresh", !.stage = "select",
                            !.input = input, !.alone = Alone(r)])

ArriveLogout(r) ==
  \E token \in tokens \cup {NoToken} :
    Call(r, [Idle EXCEPT !.op = "logout", !.stage = "revoke", !.token = token,
                         !.alone = Alone(r), !.dead = Revoked(token)])

-----------------------------------------------------------------------------
(* Authorisation. *)

(* current_user: the session is in force, the user is active and still has *)
(* the role of the token.                                                  *)
Usable(t) ==
  /\ sessions[t.sid].user = t.sub /\ sessions[t.sid].state = "live"
  /\ users[t.sub].active /\ users[t.sub].role = t.role

RequiredRoles(op) == IF op \in {"get_all_users", "get_user"} THEN Roles
                                                             ELSE {Admin}

AuthoriseTokenOnly(r) ==  \* mutant: the session is not looked up
  LET q == req[r]
      row == users[q.token.sub] IN
  /\ q.stage = "authorise"
  /\ IF row.active /\ row.role \in RequiredRoles(q.op)
       THEN Continue(r, [q EXCEPT !.stage =
                           IF q.op = "delete_user" THEN "again" ELSE "run"])
       ELSE Reply(r, "unauthorized")

(* AuthorizeUserUseCase.execute *)
Authorise(r) ==
  LET q == req[r] IN
  /\ q.stage = "authorise"
  /\ \/ ~Usable(q.token) /\ Reply(r, "unauthorized")
     \/ /\ Usable(q.token) /\ users[q.token.sub].role \notin RequiredRoles(q.op)
        /\ Reply(r, "forbidden")
     \/ /\ Usable(q.token) /\ users[q.token.sub].role \in RequiredRoles(q.op)
        /\ Continue(r, [q EXCEPT !.stage =
                          IF q.op = "delete_user" THEN "again" ELSE "run"])

AgainWithoutSelf(r) ==  \* mutant: admins may delete themselves
  LET q == req[r] IN
  /\ q.stage = "again"
  /\ \/ q.input = "bad_id" /\ Reply(r, "domain_error")
     \/ q.input = "good" /\ ~Usable(q.token) /\ Reply(r, "raised")
     \/ /\ q.input = "good" /\ Usable(q.token)
        /\ Continue(r, [q EXCEPT !.stage = "run"])

(* DeleteUser asks for the current user once more and catches nothing.     *)
Again(r) ==
  LET q == req[r] IN
  /\ q.stage = "again"
  /\ \/ q.input = "bad_id" /\ Reply(r, "domain_error")
     \/ q.input = "good" /\ ~Usable(q.token) /\ Reply(r, "raised")
     \/ /\ q.input = "good" /\ Usable(q.token) /\ q.target = q.token.sub
        /\ Reply(r, "bad_request")
     \/ /\ q.input = "good" /\ Usable(q.token) /\ q.target # q.token.sub
        /\ Continue(r, [q EXCEPT !.stage = "run"])

-----------------------------------------------------------------------------
(* The use cases: reading. *)

Runs(r, op) == req[r].stage = "run" /\ req[r].op = op

GetAllUsers(r) == Runs(r, "get_all_users") /\ Reply(r, "ok")

GetUser(r) ==
  LET q == req[r] IN
  /\ Runs(r, "get_user")
  /\ \/ q.input = "bad_id" /\ Reply(r, "domain_error")
     \/ q.input = "good" /\ ~Exists(q.target) /\ Reply(r, "not_found")
     \/ q.input = "good" /\ Exists(q.target) /\ Reply(r, "ok")

CreateUserUnchecked(r) ==  \* mutant: any word is a role
  /\ Runs(r, "create_user")
  /\ Continue(r, [req[r] EXCEPT !.stage = "commit",
                    !.row = [role |-> req[r].role, active |-> TRUE]])

(* ensure_username_unique finds the name taken, or not: names are not      *)
(* modelled here, so either may happen.                                    *)
CreateUser(r) ==
  LET q == req[r] IN
  /\ Runs(r, "create_user")
  /\ \/ q.input = "bad_value" /\ Reply(r, "domain_error")
     \/ q.input = "good" /\ Reply(r, "conflict")
     \/ /\ q.input = "good"
        /\ Continue(r, [q EXCEPT !.stage = "commit",
                          !.row = [role |-> q.role, active |-> TRUE]])

UpdateUserAsNew(r) ==  \* mutant: the entity is rebuilt as at its creation
  LET q == req[r]
      row == users[q.target] IN
  /\ Runs(r, "update_user")
  /\ q.input = "good" /\ Exists(q.target) /\ row.role # q.role
  /\ Continue(r, [q EXCEPT !.stage = "commit",
       !.row = [role |-> IF q.role = None THEN row.role ELSE q.role,
                active |-> TRUE]])

(* domain_error: an unknown role, or the name or role the user has.        *)
UpdateUser(r) ==
  LET q == req[r]
      row == users[q.target] IN
  /\ Runs(r, "update_user")
  /\ \/ q.input = "bad_id" /\ Reply(r, "domain_error")
     \/ q.input = "empty" /\ Reply(r, "bad_request")
     \/ /\ q.input \in {"good", "bad_value"}
        /\ \/ ~Exists(q.target) /\ Reply(r, "not_found")
           \/ Exists(q.target) /\ Reply(r, "conflict")
           \/ Exists(q.target) /\ Reply(r, "domain_error")
     \/ /\ q.input = "good" /\ Exists(q.target) /\ row.role # q.role
        /\ Continue(r, [q EXCEPT !.stage = "commit",
             !.row = IF q.role = None THEN row ELSE [row EXCEPT !.role = q.role]])

ChangePassword(r) ==
  LET q == req[r] IN
  /\ Runs(r, "change_password")
  /\ \/ q.input = "bad_id" /\ Reply(r, "domain_error")
     \/ q.input = "good" /\ ~Exists(q.target) /\ Reply(r, "not_found")
     \/ /\ q.input = "good" /\ Exists(q.target)
        /\ Continue(r, [q EXCEPT !.stage = "commit", !.row = users[q.target]])

DeleteUser(r) ==
  LET q == req[r]
      row == users[q.target] IN
  /\ Runs(r, "delete_user")
  /\ \/ ~Exists(q.target) /\ Reply(r, "not_found")
     \/ Exists(q.target) /\ ~row.active /\ Reply(r, "domain_error")
     \/ /\ Exists(q.target) /\ row.active
        /\ Continue(r, [q EXCEPT !.stage = "commit",
                                 !.row = [row EXCEPT !.active = FALSE]])

-----------------------------------------------------------------------------
(* The use cases: writing. *)

CommitRemoves(r) ==  \* mutant: DELETE removes the row
  LET q == req[r] IN
  /\ q.stage = "commit"
  /\ users' = [users EXCEPT ![q.target] =
       IF q.op = "delete_user" THEN Absent ELSE q.row]
  /\ answer' = Respond(q, "ok", Code(q.op, "ok"))
  /\ req' = [req EXCEPT ![r] = Idle]
  /\ UNCHANGED <<mix, stack, sessions, tokens>>

(* The columns a statement sets are a matter of Users.tla. *)
Commit(r) ==
  LET q == req[r] IN
  /\ q.stage = "commit"
  /\ \E row \in Directory!Written(users[q.target], q.row,
                                   q.op = "create_user" \/ stack = "drf") :
       users' = [users EXCEPT ![q.target] = row]
  /\ answer' = Respond(q, "ok", Code(q.op, "ok"))
  /\ req' = [req EXCEPT ![r] = Idle]
  /\ UNCHANGED <<mix, stack, sessions, tokens>>

(* How a use case answers that the UNIQUE constraint refused its statement. *)
Duplicate(op) ==
  IF op = "create_user" THEN "conflict"
  ELSE IF stack = "fastapi" THEN "raised"
  ELSE IF op = "update_user" THEN "conflict" ELSE "domain_error"

(* Another request got the name first, or the two wait for one another and *)
(* PostgreSQL fails this one: KeyTaken and DeadlockVictim of Users.tla.    *)
Lose(r) ==
  /\ req[r].stage = "commit" /\ ~req[r].alone
  /\ \/ Reply(r, Duplicate(req[r].op))
     \/ Reply(r, "raised")

-----------------------------------------------------------------------------
(* The handlers of /auth. *)

(* JwtTokenService.issue *)
Issue(sub, role, sid) == [sub |-> sub, role |-> role, sid |-> sid]

Authenticate(r) ==
  LET q == req[r] IN
  /\ q.stage = "authenticate"
  /\ \/ q.input = "bad_value" /\ Reply(r, "unauthorized")
     \/ q.input = "good" /\ ~users[q.target].active /\ Reply(r, "unauthorized")
     \/ /\ q.input = "good" /\ users[q.target].active
        /\ Continue(r, [q EXCEPT !.stage = "open", !.row = users[q.target]])

(* The second transaction of a login, which may revoke other sessions of   *)
(* the user.  The role in the token is the one the first transaction read. *)
Open(r) ==
  LET q == req[r] IN
  /\ q.stage = "open"
  /\ \E s \in SessionIds, out \in SUBSET Store!OwnedBy(q.target),
        state \in Store!Lasting :
         /\ sessions[s].state = "free"
         /\ sessions' = Store!Opened(s, q.target, out, state)
         /\ tokens' = tokens \cup {Issue(q.target, q.row.role, s)}
  /\ answer' = Respond(q, "ok", Code(q.op, "ok"))
  /\ req' = [req EXCEPT ![r] = Idle]
  /\ UNCHANGED <<mix, stack, users>>

RefreshableExpired(s) ==  \* mutant: expires_at is not in the query
  sessions[s].state \in {"live", "expired"} /\ users[sessions[s].user].active

(* A refresh token that was exchanged before is a "bad_value". *)
Refreshable(s) ==
  sessions[s].state = "live" /\ users[sessions[s].user].active

Select(r) ==
  LET q == req[r]
      owner == sessions[q.sid].user IN
  /\ q.stage = "select"
  /\ \/ q.input = "bad_value" /\ Reply(r, "unauthorized")
     \/ q.input = "good" /\ ~Refreshable(q.sid) /\ Reply(r, "unauthorized")
     \/ /\ q.input = "good" /\ Refreshable(q.sid)
        /\ Continue(r, [q EXCEPT !.stage = "rotate", !.target = owner,
                                 !.row = users[owner]])

RotateWholeRow(r) ==  \* mutant: revoked_at is written as it was read
  LET q == req[r] IN
  /\ q.stage = "rotate"
  /\ sessions' = [sessions EXCEPT ![q.sid].state = "live"]
  /\ tokens' = tokens \cup {Issue(q.target, q.row.role, q.sid)}
  /\ answer' = Respond(q, "ok", Code(q.op, "ok"))
  /\ req' = [req EXCEPT ![r] = Idle]
  /\ UNCHANGED <<mix, stack, users>>

(* rotate_refresh_token sets the hash and a new expires_at. *)
Rotate(r) ==
  LET q == req[r] IN
  /\ q.stage = "rotate"
  /\ \E state \in Store!Lasting : sessions' = Store!Renewed(q.sid, state)
  /\ tokens' = tokens \cup {Issue(q.target, q.row.role, q.sid)}
  /\ answer' = Respond(q, "ok", Code(q.op, "ok"))
  /\ req' = [req EXCEPT ![r] = Idle]
  /\ UNCHANGED <<mix, stack, users>>

(* Logout asks for no more than a token that decodes. *)
Revoke(r) ==
  LET q == req[r] IN
  /\ q.stage = "revoke"
  /\ sessions' = Store!Closed(q.token.sid)
  /\ answer' = Respond(q, "ok", Code(q.op, "ok"))
  /\ req' = [req EXCEPT ![r] = Idle]
  /\ UNCHANGED <<mix, stack, users, tokens>>

-----------------------------------------------------------------------------
(* Time, and requests that are cut off: the transaction is rolled back.    *)

ExpireSessions ==
  /\ \E E \in SUBSET Store!Live \ {{}} : sessions' = Store!Expired(E)
  /\ req' = [r \in Slots |-> [req[r] EXCEPT !.alone = FALSE]]
  /\ answer' = NoAnswer
  /\ UNCHANGED <<mix, stack, users, tokens>>

Abort(r) == req[r] # Idle /\ Continue(r, Idle)

-----------------------------------------------------------------------------
(* The service is started with users, an active admin among them, and      *)
(* nobody is logged in.  bootstrap.py has seen to the first admin.         *)
HasAdmin == \E u \in UserIds : users[u] = [role |-> Admin, active |-> TRUE]

Init ==
  /\ mix \in Mixes /\ stack \in Stacks
  /\ users \in [UserIds -> Row] /\ HasAdmin
  /\ sessions = [s \in SessionIds |-> [user |-> None, state |-> "free"]]
  /\ tokens = {}
  /\ req = [r \in Slots |-> Idle]
  /\ answer = NoAnswer

Arrive(r) ==
  ArriveUsers(r) \/ ArriveLogin(r) \/ ArriveRefresh(r) \/ ArriveLogout(r)

UseCase(r) ==
  \/ Authorise(r) \/ Again(r) \/ GetAllUsers(r) \/ GetUser(r) \/ CreateUser(r)
  \/ UpdateUser(r) \/ ChangePassword(r) \/ DeleteUser(r) \/ Commit(r) \/ Lose(r)

AuthHandler(r) ==
  Authenticate(r) \/ Open(r) \/ Select(r) \/ Rotate(r) \/ Revoke(r)

Next ==
  \/ \E r \in Slots : Arrive(r) \/ UseCase(r) \/ AuthHandler(r) \/ Abort(r)
  \/ ExpireSessions

Spec == Init /\ [][Next]_vars

-----------------------------------------------------------------------------
Success(code) == code \in 200..299

TypeOK ==
  /\ stack \in {"fastapi", "drf"}
  /\ users \in [UserIds -> Row]
  /\ sessions \in [SessionIds -> Session]
  /\ tokens \subseteq Claims
  /\ req \in [Slots -> Request]
  /\ answer.code \in Nat

(* A session that was revoked before a request came, by a logout or by the *)
(* cap, gets that request nothing but another logout, whatever refreshes   *)
(* and logins of the same session were in flight.                          *)
RevokedSessionsGetNothing ==
  answer.dead /\ answer.op # "logout" => ~Success(answer.code)

(* 500 is for overlapping requests: one that has the service to itself is  *)
(* answered by its use case.  The exception is a taken username on DRF,    *)
(* whose ConflictError becomes no 409.                                     *)
SerialRequestsDoNotFail ==
  answer.alone /\ answer.code = 500 =>
    stack = "drf" /\ answer.outcome = "conflict"

(* Tokens and user data are never left in a cache: the header depends on   *)
(* how the client identified itself and not on what the answer holds.      *)
PrivateAnswersAreNotStored ==
  Success(answer.code) => answer.cache = "no-store"

(* The DRF views "mirror" the FastAPI routes: both stacks would answer     *)
(* what the use case came to with the same success, or with some 4xx; all  *)
(* but a conflict (409 against 500).                                       *)
StacksAgree ==
  LET one == FastApi!Code(answer.op, answer.outcome)
      other == Drf!Code(answer.op, answer.outcome) IN
  answer.outcome \notin {"none", "rejected", "conflict"} =>
    \/ one = other
    \/ one \in 400..499 /\ other \in 400..499

(* The installation keeps an active admin.  Without requests that overlap  *)
(* only an admin's change of their own role takes away the last one; the   *)
(* check against self-deletion covers the rest.                            *)
LockoutNeedsOverlap ==
  [][HasAdmin /\ ~HasAdmin' =>
       \E r \in Slots :
         /\ req[r].stage = "commit" /\ req'[r].stage = "idle"
         /\ \/ ~req[r].alone
            \/ req[r].op = "update_user" /\ req[r].target = req[r].token.sub]_vars

(* A deactivated user is active again only by a request that overlapped    *)
(* another and had read the row before: nothing asks for it.               *)
ReactivationNeedsOverlap ==
  [][\A u \in UserIds :
       Exists(u) /\ ~users[u].active /\ users'[u].active =>
         \E r \in Slots :
           /\ req[r].stage = "commit" /\ req'[r].stage = "idle"
           /\ req[r].target = u /\ ~req[r].alone]_vars

(* On the rows this module does nothing but what the detailed modules may  *)
(* do: copies of users that were read before are written, sessions are     *)
(* opened, renewed and revoked by requests that found them so.             *)
ImplementsAccounts == Directory!Spec

ImplementsStanding == Store!Spec

-----------------------------------------------------------------------------
(* What the routes document and the code does not keep. *)

(* 401 is the documented answer for a session that is over, and the tests  *)
(* ask for it after a logout; a DELETE caught in between gets 500.         *)
EndedSessionIsUnauthorized ==
  answer.op = "delete_user" /\ answer.over => answer.code # 500
=============================================================================
