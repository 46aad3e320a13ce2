------------------------------- MODULE ApiProofs -------------------------------
(***************************************************************************)
(* Proofs about Api.tla for any users, sessions and number of requests.    *)
(*                                                                         *)
(* The inductive invariant says, of every request in flight, what it was   *)
(* found out so far (Shape, Bearer), that one whose session was revoked    *)
(* got nowhere (Stuck), that what one that is alone has read is still so   *)
(* (Serial), that the session of a refresh and the user a change was read  *)
(* from are rows (Held, Kept), and that a user being created is nobody yet *)
(* (Inserts).                                                              *)
(***************************************************************************)
EXTENDS Api, TLAPS

-----------------------------------------------------------------------------
(* The invariant. *)

Ops == UserOps \cup {"login", "refresh", "logout"}

Outcomes == {"ok", "raised", "bad_request", "unauthorized", "forbidden",
             "conflict", "not_found", "domain_error"}

Writers == {"create_user", "update_user", "change_password", "delete_user"}

(* Which request can be at which stage, and what is known by then. *)
Shape(q) ==
  /\ q.stage = "idle" => q = Idle
  /\ q.stage \in {"authorise", "run"} => q.op \in UserOps
  /\ q.stage = "again" => q.op = "delete_user"
  /\ q.stage = "commit" => q.op \in Writers
  /\ q.stage \in {"authenticate", "open"} => q.op = "login"
  /\ q.stage \in {"select", "rotate"} => q.op = "refresh"
  /\ q.stage = "revoke" => q.op = "logout"
  /\ q.input = "good" /\ q.op \in Writers \cup {"get_user", "login"} =>
       q.target \in UserIds
  /\ q.input = "good" /\ q.op = "create_user" => q.role \in Roles
  /\ q.input = "good" /\ q.op = "refresh" => q.sid \in SessionIds
  /\ q.op = "delete_user" /\ q.stage \in {"run", "commit"} =>
       q.input = "good" /\ q.target # q.token.sub
  /\ q.stage \in {"commit", "open", "rotate"} =>
       q.input = "good" /\ q.target \in UserIds /\ q.row.role \in Roles

Bearer(q) == q.op \in UserOps \cup {"logout"} => q.token \in tokens

Stuck(q) ==
  q.dead =>
    \/ /\ q.op \in UserOps /\ q.stage = "authorise"
       /\ sessions[q.token.sid].state = "revoked"
    \/ /\ q.op = "refresh" /\ q.stage = "select" /\ q.input = "good"
       /\ sessions[q.sid].state = "revoked"
    \/ q.op = "logout"

Serial(q) ==
  q.alone =>
    /\ q.stage \in {"again", "run", "commit"} =>
         Usable(q.token) /\ q.token.role \in RequiredRoles(q.op)
    /\ q.op = "change_password" /\ q.stage = "commit" =>
         q.row = users[q.target]
    /\ q.op # "create_user" /\ q.stage = "commit" =>
         (q.row.active => users[q.target].active)

Held(q) == q.stage = "rotate" => sessions[q.sid].state # "free"

Kept(q) == q.stage = "commit" /\ q.op # "create_user" => Exists(q.target)

RequestOK(q) ==
  Shape(q) /\ Bearer(q) /\ Stuck(q) /\ Serial(q) /\ Held(q) /\ Kept(q)

(* A session that stands has an owner; one that has a token was opened.    *)
Owned ==
  /\ \A s \in SessionIds :
       sessions[s].state \in {"live", "expired"} => sessions[s].user \in UserIds
  /\ \A t \in tokens : sessions[t.sid].state # "free"

Solitude == \A r \in Slots : req[r].alone =>
              \A s \in Slots \ {r} : req[s] = Idle

Creates(q, u) == q.op = "create_user" /\ q.target = u

Inserts ==
  \A u \in UserIds, r \in Slots : Creates(req[r], u) =>
    ~Exists(u) /\ \A s \in Slots \ {r} : ~Creates(req[s], u)

IInv ==
  /\ TypeOK /\ Owned /\ Solitude /\ Inserts
  /\ \A r \in Slots : RequestOK(req[r])

AnswerOK ==
  /\ RevokedSessionsGetNothing
  /\ SerialRequestsDoNotFail
  /\ PrivateAnswersAreNotStored
  /\ StacksAgree

Inv == IInv /\ AnswerOK

(* What no step ever undoes: a session was opened, a session was revoked,  *)
(* a user was created.                                                     *)
SessionsAge ==
  \A s \in SessionIds :
    /\ sessions[s].state = "revoked" => sessions'[s].state = "revoked"
    /\ sessions[s].state # "free" => sessions'[s].state # "free"

UsersAge == \A u \in UserIds : Exists(u) => Exists(u)'

-----------------------------------------------------------------------------
(* The gateways. *)

LEMMA FastApiCodes ==
  ASSUME NEW op \in Ops
  PROVE  /\ FastApi!Code(op, "ok") \in {200, 201, 204}
         /\ FastApi!Code(op, "raised") = 500
         /\ FastApi!Code(op, "bad_request") = 400
         /\ FastApi!Code(op, "unauthorized") = 401
         /\ FastApi!Code(op, "forbidden") = 403
         /\ FastApi!Code(op, "conflict") = 409
         /\ FastApi!Code(op, "not_found") = 404
         /\ FastApi!Code(op, "domain_error") = 422
  BY DEF Ops, UserOps, FastApi!Code, FastApi!Refusal, FastApi!Unhandled,
         FastApi!Routes, FastApi!GetAllUsers, FastApi!GetUser,
         FastApi!UpdateUser, FastApi!CreateUser, FastApi!ChangePassword,
         FastApi!DeleteUser, FastApi!Login, FastApi!Refresh, FastApi!Logout

LEMMA DrfCodes ==
  ASSUME NEW op \in Ops
  PROVE  /\ Drf!Code(op, "ok") = FastApi!Code(op, "ok")
         /\ Drf!Code(op, "raised") = 500
         /\ Drf!Code(op, "bad_request") = 400
         /\ Drf!Code(op, "unauthorized") \in {401, 403}
         /\ Drf!Code(op, "forbidden") = 403
         /\ Drf!Code(op, "conflict") = 500
         /\ Drf!Code(op, "not_found") = 404
         /\ Drf!Code(op, "domain_error") = 400
  BY DEF Ops, UserOps, Drf!Code, Drf!Refusal, Drf!Unhandled,
         Drf!Routes, Drf!GetAllUsers, Drf!GetUser, Drf!UpdateUser,
         Drf!CreateUser, Drf!ChangePassword, Drf!DeleteUser,
         Drf!Login, Drf!Refresh, Drf!Logout,
         FastApi!Code, FastApi!Refusal, FastApi!Unhandled,
         FastApi!Routes, FastApi!GetAllUsers, FastApi!GetUser,
         FastApi!UpdateUser, FastApi!CreateUser, FastApi!ChangePassword,
         FastApi!DeleteUser, FastApi!Login, FastApi!Refresh, FastApi!Logout

(* A rejection is a 4xx, and what is admitted is public or has a token.    *)
LEMMA Rejections ==
  ASSUME NEW op \in Ops, NEW input, NEW decodes \in BOOLEAN
  PROVE  /\ Rejection(op, input, decodes) \in {0, 400, 401, 404, 422}
         /\ Rejection(op, input, decodes) = 0 /\ ~decodes =>
              op \in {"login", "refresh"}
  <1>1. /\ FastApi!Rejection(op, input, decodes) \in {0, 401, 422}
        /\ FastApi!Rejection(op, input, decodes) = 0 /\ ~decodes =>
             op \in {"login", "refresh"}
    BY DEF FastApi!Rejection, FastApi!Authentic, FastApi!PublicOps
  <1>2. /\ Drf!Rejection(op, input, decodes) \in {0, 400, 401, 404}
        /\ Drf!Rejection(op, input, decodes) = 0 /\ ~decodes =>
             op \in {"login", "refresh"}
    BY DEF Drf!Rejection, Drf!Authentic, Drf!PublicOps
  <1> QED BY <1>1, <1>2 DEF Rejection

(* Success is marked no-store unless it is a GET without a token.          *)
LEMMA NotStored ==
  ASSUME NEW op \in Ops, NEW code \in 200..299, NEW header \in BOOLEAN,
         header \/ op \notin {"get_all_users", "get_user"}
  PROVE  CacheControl(op, code, header) = "no-store"
  BY DEF CacheControl, FastApi!CacheControl, Drf!CacheControl, Ops, UserOps,
         Drf!Routes, Drf!GetAllUsers, Drf!GetUser, Drf!UpdateUser,
         Drf!CreateUser, Drf!ChangePassword, Drf!DeleteUser,
         Drf!Login, Drf!Refresh, Drf!Logout,
         FastApi!Routes, FastApi!GetAllUsers, FastApi!GetUser,
         FastApi!UpdateUser, FastApi!CreateUser, FastApi!ChangePassword,
         FastApi!DeleteUser, FastApi!Login, FastApi!Refresh, FastApi!Logout

LEMMA CodeFacts ==
  ASSUME NEW op \in Ops, NEW outcome \in Outcomes, TypeOK
  PROVE  /\ Code(op, outcome) \in Nat
         /\ outcome = "unauthorized" => ~Success(Code(op, outcome))
         /\ Code(op, outcome) = 500 /\ outcome # "raised" =>
              stack = "drf" /\ outcome = "conflict"
         /\ outcome # "conflict" =>
              \/ FastApi!Code(op, outcome) = Drf!Code(op, outcome)
              \/ /\ FastApi!Code(op, outcome) \in 400..499
                 /\ Drf!Code(op, outcome) \in 400..499
  BY FastApiCodes, DrfCodes DEF TypeOK, Code, Outcomes, Success

-----------------------------------------------------------------------------
(* Types. *)

LEMMA IdleFacts ==
  /\ Idle \in Request /\ Idle.op = "idle" /\ Idle.stage = "idle"
  /\ ~Idle.alone /\ ~Idle.dead /\ Idle.input = "good"
  /\ [Idle EXCEPT !.alone = FALSE] = Idle
  <1>1. /\ Idle \in Request /\ Idle.op = "idle" /\ Idle.stage = "idle"
        /\ ~Idle.alone /\ ~Idle.dead /\ Idle.input = "good"
    BY DEF Idle, Request, Row, Absent
  <1>2. [Idle EXCEPT !.alone = FALSE] = Idle
    BY <1>1 DEF Request
  <1> QED BY <1>1, <1>2

LEMMA IdleOK == RequestOK(Idle)
  BY DEF Idle, RequestOK, Shape, Bearer, Stuck, Serial, Held, Kept, Writers,
         UserOps

LEMMA NoTokenIsNoClaim == NoToken \notin Claims
  BY ApiAssumption DEF NoToken, Claims

LEMMA AbsentFacts ==
  Absent \in Row /\ Absent.role = None /\ Absent.active = FALSE
  BY DEF Row, Absent

LEMMA RowFacts ==
  ASSUME NEW row \in Row
  PROVE  /\ row.role \in Roles \cup {None} /\ row.active \in BOOLEAN
         /\ row.role # None \/ row.active => row.role \in Roles
         /\ row.role \notin Roles => row = Absent
  <1>1. CASE row \in [role : Roles, active : BOOLEAN]
    BY <1>1
  <1>2. CASE row = Absent
    BY <1>2, AbsentFacts
  <1> QED BY <1>1, <1>2 DEF Row

(* A request that is not idle calls something. *)
LEMMA InFlight ==
  ASSUME NEW q \in Request, Shape(q), q.stage # "idle"
  PROVE  q.op \in Ops
  BY DEF Request, Shape, Ops, Writers, UserOps

-----------------------------------------------------------------------------
(* Answers. *)

(* What a use case came to is answered as the invariants want it. *)
LEMMA RespondOK ==
  ASSUME IInv, NEW r \in Slots, NEW outcome \in Outcomes,
         req[r].stage # "idle",
         outcome = "raised" => ~req[r].alone,
         req[r].dead /\ req[r].op # "logout" => outcome = "unauthorized",
         answer' = Respond(req[r], outcome, Code(req[r].op, outcome)),
         stack' = stack
  PROVE  AnswerOK' /\ answer'.code \in Nat
  <1> DEFINE q == req[r]
             code == Code(q.op, outcome)
             header == q.token # NoToken
             cache == CacheControl(q.op, code, header)
             over == Revoked(q.token)
  <1>1. q \in Request /\ Shape(q) /\ Bearer(q) /\ q.op \in Ops
    BY InFlight DEF IInv, TypeOK, RequestOK
  <1>2. answer' = [op |-> q.op, outcome |-> outcome, code |-> code,
                   cache |-> cache, alone |-> q.alone, dead |-> q.dead,
                   over |-> over]
    BY DEF Respond
  <1> HIDE DEF code, header, cache, over
  <1>3. /\ answer'.op = q.op /\ answer'.outcome = outcome
        /\ answer'.code = code /\ answer'.cache = cache
        /\ answer'.alone = q.alone /\ answer'.dead = q.dead
    BY <1>2
  <1>4. /\ code \in Nat
        /\ outcome = "unauthorized" => ~Success(code)
        /\ code = 500 /\ outcome # "raised" =>
             stack = "drf" /\ outcome = "conflict"
    BY <1>1, CodeFacts DEF code, IInv
  <1>5. RevokedSessionsGetNothing'
    BY <1>3, <1>4 DEF RevokedSessionsGetNothing
  <1>6. SerialRequestsDoNotFail'
    BY <1>3, <1>4 DEF SerialRequestsDoNotFail
  <1>7. Success(code) => cache = "no-store"
    <2>1. header \/ q.op \notin {"get_all_users", "get_user"}
      BY <1>1, NoTokenIsNoClaim
      DEF header, Bearer, UserOps, IInv, TypeOK
    <2>2. header \in BOOLEAN
      BY DEF header
    <2> QED BY <1>1, <2>1, <2>2, NotStored DEF Success, cache
  <1>8. PrivateAnswersAreNotStored'
    BY <1>3, <1>7 DEF PrivateAnswersAreNotStored
  <1>9. StacksAgree'
    BY <1>1, <1>3, CodeFacts DEF StacksAgree, IInv
  <1> QED BY <1>3, <1>4, <1>5, <1>6, <1>8, <1>9 DEF AnswerOK

(* No answer, or a rejection of the gateway. *)
LEMMA UnansweredOK ==
  ASSUME \/ answer' = NoAnswer
         \/ \E code \in {400, 401, 404, 422} : answer' = Rejected(code)
  PROVE  AnswerOK' /\ answer'.code \in Nat
  <1>1. answer'.outcome \in {"none", "rejected"} /\ ~answer'.alone
        /\ ~answer'.dead /\ answer'.code \in {0, 400, 401, 404, 422}
    <2>1. NoAnswer \in
            [op : {"none"}, outcome : {"none"}, code : {0}, cache : {"none"},
             alone : {FALSE}, dead : {FALSE}, over : {FALSE}]
      BY DEF NoAnswer
    <2>2. \A code : /\ Rejected(code).outcome = "rejected"
                    /\ Rejected(code).code = code
                    /\ Rejected(code).alone = FALSE
                    /\ Rejected(code).dead = FALSE
      BY <2>1 DEF Rejected
    <2>3. CASE answer' = NoAnswer
      BY <2>1, <2>3
    <2>4. ASSUME NEW code \in {400, 401, 404, 422}, answer' = Rejected(code)
          PROVE  /\ answer'.outcome \in {"none", "rejected"}
                 /\ ~answer'.alone /\ ~answer'.dead
                 /\ answer'.code \in {0, 400, 401, 404, 422}
      <3>1. /\ answer'.outcome = "rejected" /\ answer'.alone = FALSE
            /\ answer'.dead = FALSE /\ answer'.code = code
        BY <2>2, <2>4
      <3> QED BY <3>1
    <2> QED BY <2>3, <2>4
  <1> QED BY <1>1 DEF AnswerOK, RevokedSessionsGetNothing, Success, StacksAgree,
                     SerialRequestsDoNotFail, PrivateAnswersAreNotStored

-----------------------------------------------------------------------------
(* Requests that a step is not about. *)

LEMMA OthersOK ==
  ASSUME IInv, NEW r \in Slots, req[r].stage # "idle",
         tokens \subseteq tokens', SessionsAge, UsersAge,
         NEW s \in Slots \ {r}, req'[s] = req[s]
  PROVE  RequestOK(req[s])' /\ ~req[s].alone
  <1>1. ~req[s].alone
    BY IdleFacts DEF IInv, Solitude
  <1>2. req[s] \in Request /\ RequestOK(req[s])
    BY DEF IInv, TypeOK
  <1>3. Shape(req[s])'
    BY <1>2 DEF RequestOK, Shape
  <1>4. Bearer(req[s])'
    BY <1>2 DEF RequestOK, Bearer
  <1>5. Stuck(req[s])'
    <2>1. Bearer(req[s]) /\ tokens \subseteq Claims
      BY <1>2 DEF RequestOK, IInv, TypeOK
    <2>2. req[s].op \in UserOps => req[s].token.sid \in SessionIds
      BY <2>1 DEF Bearer, Claims
    <2>3. req[s].op = "refresh" /\ req[s].input = "good" =>
            req[s].sid \in SessionIds
      BY <1>2 DEF RequestOK, Shape
    <2> QED BY <1>2, <2>2, <2>3 DEF RequestOK, Stuck, SessionsAge
  <1>6. Serial(req[s])'
    BY <1>1 DEF Serial
  <1>7. Held(req[s])'
    BY <1>2 DEF RequestOK, Held, Shape, SessionsAge
  <1>8. Kept(req[s])'
    BY <1>2 DEF RequestOK, Kept, Shape, UsersAge
  <1> QED BY <1>1, <1>3, <1>4, <1>5, <1>6, <1>7, <1>8 DEF RequestOK

(* Nobody starts to create a user, and none of those is created. *)
LEMMA InsertsOK ==
  ASSUME IInv, UNCHANGED users,
         \A s \in Slots, u \in UserIds : Creates(req'[s], u) => Creates(req[s], u)
  PROVE  Inserts'
  BY DEF IInv, Inserts, Exists

-----------------------------------------------------------------------------
(* Steps of one request.  It gets an answer or it goes on. *)

(* r is over: the rows changed, if at all, as they always may. *)
LEMMA LeaveOK ==
  ASSUME IInv, NEW r \in Slots, req[r].stage # "idle",
         req' = [req EXCEPT ![r] = Idle],
         tokens \subseteq tokens', SessionsAge, UsersAge
  PROVE  /\ req' \in [Slots -> Request]
         /\ Solitude'
         /\ UNCHANGED users => Inserts'
         /\ \A s \in Slots : RequestOK(req[s])'
  <1>1. req \in [Slots -> Request]
    BY DEF IInv, TypeOK
  <1>2. /\ req' \in [Slots -> Request] /\ req'[r] = Idle
        /\ \A s \in Slots \ {r} : req'[s] = req[s]
    BY <1>1, IdleFacts
  <1>3. Solitude'
    BY <1>2, OthersOK, IdleFacts DEF Solitude
  <1>4. ASSUME NEW s \in Slots
        PROVE  RequestOK(req[s])'
    <2>1. CASE s = r
      <3>1. req'[s] = Idle
        BY <1>2, <2>1
      <3> QED BY <3>1
        DEF Idle, RequestOK, Shape, Bearer, Stuck, Serial, Held, Kept, Writers,
         UserOps
    <2>2. CASE s # r
      BY <1>2, <2>2, OthersOK
    <2> QED BY <2>1, <2>2
  <1>5. UNCHANGED users => Inserts'
    <2>1. \A s \in Slots, u \in UserIds : Creates(req'[s], u) => Creates(req[s], u)
      BY <1>2, IdleFacts DEF Creates
    <2> QED BY <2>1, InsertsOK
  <1> QED BY <1>2, <1>3, <1>4, <1>5

LEMMA ReplyOK ==
  ASSUME IInv, NEW r \in Slots, NEW outcome \in Outcomes,
         req[r].stage # "idle",
         outcome = "raised" => ~req[r].alone,
         req[r].dead /\ req[r].op # "logout" => outcome = "unauthorized",
         Reply(r, outcome)
  PROVE  Inv'
  <1>1. /\ req' = [req EXCEPT ![r] = Idle]
        /\ UNCHANGED <<mix, stack, users, sessions, tokens>>
        /\ answer' = Respond(req[r], outcome, Code(req[r].op, outcome))
    BY DEF Reply
  <1>2. AnswerOK' /\ answer'.code \in Nat
    BY <1>1, RespondOK
  <1>3. /\ req' \in [Slots -> Request] /\ Solitude' /\ Inserts'
        /\ \A s \in Slots : RequestOK(req[s])'
    BY <1>1, LeaveOK DEF SessionsAge, UsersAge, Exists
  <1>4. TypeOK' /\ Owned'
    BY <1>1, <1>2, <1>3 DEF IInv, TypeOK, Owned
  <1> QED BY <1>2, <1>3, <1>4 DEF Inv, IInv

LEMMA ContinueOK ==
  ASSUME IInv, NEW r \in Slots, NEW q \in Request, RequestOK(q),
         req[r].stage # "idle", q.alone => req[r].alone,
         q.op \in {"idle", req[r].op},
         q.op = "create_user" => q.target = req[r].target,
         Continue(r, q)
  PROVE  Inv'
  <1>1. /\ req' = [req EXCEPT ![r] = q]
        /\ UNCHANGED <<mix, stack, users, sessions, tokens>>
        /\ answer' = NoAnswer
    BY DEF Continue
  <1>2. /\ req' \in [Slots -> Request] /\ req'[r] = q
        /\ \A s \in Slots \ {r} : req'[s] = req[s]
    BY <1>1 DEF IInv, TypeOK
  <1>3. AnswerOK' /\ answer'.code \in Nat
    BY <1>1, UnansweredOK
  <1>4. TypeOK' /\ Owned'
    BY <1>1, <1>2, <1>3 DEF IInv, TypeOK, Owned
  <1>5. \A s \in Slots \ {r} : RequestOK(req[s])' /\ ~req[s].alone
    BY <1>1, <1>2, OthersOK DEF SessionsAge, UsersAge, Exists
  <1>6. Solitude' /\ Inserts'
    <2>1. Solitude'
      BY <1>2, <1>5 DEF IInv, Solitude
    <2>2. \A s \in Slots, u \in UserIds : Creates(req'[s], u) => Creates(req[s], u)
      BY <1>2 DEF Creates
    <2> QED BY <1>1, <2>1, <2>2, InsertsOK
  <1>7. RequestOK(req[r])'
    BY <1>1, <1>2 DEF RequestOK, Shape, Bearer, Stuck, Serial, Held, Kept, Usable, Exists
  <1>8. \A s \in Slots : RequestOK(req[s])'
    BY <1>2, <1>5, <1>7
  <1> QED BY <1>3, <1>4, <1>6, <1>8 DEF Inv, IInv

-----------------------------------------------------------------------------
(* Arrival. *)

(* Another request arrives, or time passes: nobody is alone any more. *)
LEMMA JoinedOK ==
  ASSUME IInv, NEW s \in Slots, tokens' = tokens, SessionsAge, UsersAge,
         req'[s] = [req[s] EXCEPT !.alone = FALSE]
  PROVE  /\ req'[s] \in Request /\ ~req'[s].alone
         /\ req[s] = Idle => req'[s] = Idle
         /\ \A u : Creates(req'[s], u) => Creates(req[s], u)
         /\ RequestOK(req[s])'
  <1> DEFINE q == req'[s]
  <1>1. req[s] \in Request /\ RequestOK(req[s]) /\ tokens \subseteq Claims
    BY DEF IInv, TypeOK
  <1>2. /\ q \in Request /\ ~q.alone
        /\ q.op = req[s].op /\ q.stage = req[s].stage
        /\ q.token = req[s].token /\ q.input = req[s].input
        /\ q.target = req[s].target /\ q.sid = req[s].sid
        /\ q.role = req[s].role /\ q.row = req[s].row
        /\ q.dead = req[s].dead
    BY <1>1 DEF Request
  <1>3. req[s] = Idle => q = Idle
    BY IdleFacts
  <1>4. Shape(q)
    BY <1>1, <1>2, <1>3 DEF RequestOK, Shape
  <1>5. Bearer(q)
    BY <1>1, <1>2 DEF RequestOK, Bearer
  <1>6. Stuck(req[s])'
    <2>1. q.op \in UserOps => q.token.sid \in SessionIds
      BY <1>1, <1>5 DEF Bearer, Claims
    <2>2. q.op = "refresh" /\ q.input = "good" => q.sid \in SessionIds
      BY <1>4 DEF Shape
    <2>3. Stuck(req[s])
      BY <1>1 DEF RequestOK
    <2> QED BY <1>2, <2>1, <2>2, <2>3 DEF Stuck, SessionsAge
  <1>7. Shape(req[s])'
    BY <1>4 DEF Shape
  <1>8. Bearer(req[s])'
    BY <1>5 DEF Bearer
  <1>9. Serial(req[s])'
    BY <1>2 DEF Serial
  <1>10. Held(req[s])'
    BY <1>1, <1>2 DEF RequestOK, Held, Shape, SessionsAge
  <1>11. Kept(req[s])'
    BY <1>1, <1>2 DEF RequestOK, Kept, Shape, UsersAge
  <1>12. \A u : Creates(q, u) => Creates(req[s], u)
    BY <1>2 DEF Creates
  <1> QED BY <1>2, <1>3, <1>6, <1>7, <1>8, <1>9, <1>10, <1>11, <1>12
          DEF RequestOK

LEMMA CallOK ==
  ASSUME Inv, NEW r \in Slots, NEW q \in Request, q.op \in Ops,
         q.alone => Alone(r), \A u \in UserIds : Creates(q, u) => u \in FreshIds,
         q.op \in {"login", "refresh"} \/ q.token \in tokens => RequestOK(q),
         Call(r, q)
  PROVE  Inv'
  <1> DEFINE code == Rejection(q.op, q.input, Decodes(q.token))
  <1>1. /\ code \in {0, 400, 401, 404, 422}
        /\ code = 0 => RequestOK(q)
    <2>1. Decodes(q.token) \in BOOLEAN
      BY DEF Decodes
    <2>2. /\ code \in {0, 400, 401, 404, 422}
          /\ code = 0 /\ ~Decodes(q.token) => q.op \in {"login", "refresh"}
      BY <2>1, Rejections
    <2> QED BY <2>2 DEF Decodes
  <1>2. /\ req[r] = Idle
        /\ UNCHANGED <<mix, stack, users, sessions, tokens>>
        /\ \/ code = 0 /\ req' = Joined(r, q) /\ answer' = NoAnswer
           \/ code # 0 /\ UNCHANGED req /\ answer' = Rejected(code)
    BY DEF Call
  <1> HIDE DEF code
  <1>3. CASE code # 0
    <2>1. UNCHANGED req /\ code \in {400, 401, 404, 422}
      BY <1>1, <1>2, <1>3
    <2>2. AnswerOK' /\ answer'.code \in Nat
      BY <1>2, <1>3, <2>1, UnansweredOK
    <2>3. TypeOK' /\ Owned' /\ Solitude' /\ Inserts'
      BY <1>2, <2>1, <2>2, InsertsOK DEF Inv, IInv, TypeOK, Owned, Solitude
    <2>4. \A s \in Slots : RequestOK(req[s])'
      BY <1>2, <2>1 DEF Inv, IInv, RequestOK, Shape, Bearer, Stuck, Serial, Held, Kept,
                        Usable, Exists
    <2> QED BY <2>2, <2>3, <2>4 DEF Inv, IInv
  <1>4. CASE code = 0
    <2>1. /\ req'[r] = q
          /\ \A s \in Slots \ {r} : req'[s] = [req[s] EXCEPT !.alone = FALSE]
          /\ req' = [s \in Slots |-> req'[s]]
      BY <1>2, <1>4 DEF Joined
    <2>2. \A s \in Slots \ {r} :
            /\ req'[s] \in Request /\ ~req'[s].alone
            /\ req[s] = Idle => req'[s] = Idle
            /\ \A u : Creates(req'[s], u) => Creates(req[s], u)
            /\ RequestOK(req[s])'
      BY <1>2, <2>1, JoinedOK DEF Inv, SessionsAge, UsersAge, Exists
    <2>3. req' \in [Slots -> Request]
      BY <2>1, <2>2
    <2>4. AnswerOK' /\ answer'.code \in Nat
      BY <1>2, <1>4, UnansweredOK
    <2>5. TypeOK' /\ Owned'
      BY <1>2, <2>3, <2>4 DEF Inv, IInv, TypeOK, Owned
    <2>6. Solitude'
      BY <2>1, <2>2 DEF Solitude, Alone
    <2>7. RequestOK(req[r])'
      BY <1>1, <1>2, <1>4, <2>1
      DEF RequestOK, Shape, Bearer, Stuck, Serial, Held, Kept, Usable, Exists
    <2>8. \A s \in Slots : RequestOK(req[s])'
      BY <2>2, <2>7
    <2>9. Inserts'
      <3> SUFFICES ASSUME NEW u \in UserIds, NEW s \in Slots, Creates(req'[s], u)
                   PROVE  /\ ~Exists(u)
                          /\ \A x \in Slots \ {s} : ~Creates(req'[x], u)
        BY <1>2 DEF Inserts, Exists
      <3>1. CASE s = r
        <4>1. u \in FreshIds
          BY <2>1, <3>1
        <4> QED BY <2>2, <3>1, <4>1 DEF FreshIds, Creates
      <3>2. CASE s # r
        <4>1. Creates(req[s], u)
          BY <2>2, <3>2
        <4>2. ~Creates(q, u)
          BY <4>1 DEF FreshIds, Creates
        <4> QED BY <2>1, <2>2, <4>1, <4>2 DEF Inv, IInv, Inserts
      <3> QED BY <3>1, <3>2
    <2> QED BY <2>4, <2>5, <2>6, <2>8, <2>9 DEF Inv, IInv
  <1> QED BY <1>3, <1>4

LEMMA UserCallOK ==
  ASSUME Inv, NEW r \in Slots, NEW op \in UserOps,
         NEW token \in tokens \cup {NoToken},
         NEW input \in {"good", "malformed", "bad_id", "bad_value", "empty"},
         NEW target \in UserIds \cup {None}, NEW role \in Roles \cup {None},
         input = "good" /\ op \in Writers \cup {"get_user"} =>
           target \in UserIds,
         input = "good" /\ op = "create_user" => role \in Roles,
         op = "create_user" /\ target \in UserIds => target \in FreshIds,
         UserCall(r, op, token, input, target, role)
  PROVE  Inv'
  <1> DEFINE alone == Alone(r)
             dead == Revoked(token)
             q == [op |-> op, stage |-> "authorise", token |-> token,
                   input |-> input, target |-> target, sid |-> None,
                   role |-> role, row |-> Absent, alone |-> alone,
                   dead |-> dead]
  <1>1. Call(r, q)
    BY DEF UserCall
  <1>2. alone \in BOOLEAN /\ dead \in BOOLEAN
    BY DEF Alone, Revoked
  <1>3. /\ alone => Alone(r)
        /\ dead => token # NoToken /\ sessions[token.sid].state = "revoked"
    BY DEF Revoked
  <1> HIDE DEF alone, dead
  <1>4. token \in Claims \cup {NoToken}
    BY DEF Inv, IInv, TypeOK
  <1>5. q \in Request
    BY <1>2, <1>4, AbsentFacts DEF Request
  <1>6. ASSUME token \in tokens
        PROVE  RequestOK(q)
    <2>1. Shape(q)
      BY DEF Shape, UserOps, Writers
    <2>2. Bearer(q)
      BY <1>6 DEF Bearer
    <2>3. Stuck(q)
      BY <1>3 DEF Stuck
    <2>4. Serial(q) /\ Held(q) /\ Kept(q)
      BY DEF Serial, Held, Kept
    <2> QED BY <2>1, <2>2, <2>3, <2>4 DEF RequestOK
  <1>7. /\ q.op \in Ops \ {"login", "refresh"} /\ q.token = token
        /\ q.alone => Alone(r)
        /\ \A u \in UserIds : Creates(q, u) => u \in FreshIds
    BY <1>3 DEF Ops, UserOps, Creates
  <1> HIDE DEF q
  <1> QED BY <1>1, <1>5, <1>6, <1>7, CallOK

LEMMA ArriveUsersOK ==
  ASSUME Inv, NEW r \in Slots, ArriveUsers(r)
  PROVE  Inv'
  <1>1. PICK token \in tokens \cup {NoToken} :
    \/ UserCall(r, "get_all_users", token, "good", None, None)
    \/ \E u \in UserIds, op \in {"get_user", "delete_user"} :
         UserCall(r, op, token, "good", u, None)
    \/ \E op \in {"get_user", "delete_user"} :
         UserCall(r, op, token, "bad_id", None, None)
    \/ \E u \in FreshIds, g \in AskedRoles \ {None} :
         UserCall(r, "create_user", token, "good", u, g)
    \/ \E input \in {"malformed", "bad_value"} :
         UserCall(r, "create_user", token, input, None, None)
    \/ \E u \in UserIds, g \in AskedRoles :
         UserCall(r, "update_user", token, "good", u, g)
    \/ \E u \in UserIds : UserCall(r, "update_user", token, "bad_value", u, None)
    \/ \E input \in {"malformed", "bad_id", "empty"} :
         UserCall(r, "update_user", token, input, None, None)
    \/ \E u \in UserIds : UserCall(r, "change_password", token, "good", u, None)
    \/ \E input \in {"malformed", "bad_id"} :
         UserCall(r, "change_password", token, input, None, None)
    BY DEF ArriveUsers
  <1> DEFINE C(op, input, target, role) ==
               UserCall(r, op, token, input, target, role)
  <1>2. None \notin UserIds /\ AskedRoles \subseteq Roles \cup {None}
    BY ApiAssumption
  <1>3. CASE C("get_all_users", "good", None, None)
    BY <1>2, <1>3, UserCallOK DEF UserOps, Writers
  <1>4. ASSUME NEW u \in UserIds, NEW op \in {"get_user", "delete_user"},
               C(op, "good", u, None)
        PROVE  Inv'
    BY <1>4, UserCallOK DEF UserOps, Writers
  <1>5. ASSUME NEW op \in {"get_user", "delete_user"},
               C(op, "bad_id", None, None)
        PROVE  Inv'
    BY <1>5, UserCallOK DEF UserOps, Writers
  <1>6. ASSUME NEW u \in FreshIds, NEW g \in AskedRoles \ {None},
               C("create_user", "good", u, g)
        PROVE  Inv'
    BY <1>2, <1>6, UserCallOK DEF UserOps, Writers, FreshIds
  <1>7. ASSUME NEW input \in {"malformed", "bad_value"},
               C("create_user", input, None, None)
        PROVE  Inv'
    BY <1>2, <1>7, UserCallOK DEF UserOps, Writers
  <1>8. ASSUME NEW u \in UserIds, NEW g \in AskedRoles,
               C("update_user", "good", u, g)
        PROVE  Inv'
    BY <1>2, <1>8, UserCallOK DEF UserOps, Writers
  <1>9. ASSUME NEW u \in UserIds, C("update_user", "bad_value", u, None)
        PROVE  Inv'
    BY <1>9, UserCallOK DEF UserOps, Writers
  <1>10. ASSUME NEW input \in {"malformed", "bad_id", "empty"},
                C("update_user", input, None, None)
         PROVE  Inv'
    BY <1>10, UserCallOK DEF UserOps, Writers
  <1>11. ASSUME NEW u \in UserIds, C("change_password", "good", u, None)
         PROVE  Inv'
    BY <1>11, UserCallOK DEF UserOps, Writers
  <1>12. ASSUME NEW input \in {"malformed", "bad_id"},
                C("change_password", input, None, None)
         PROVE  Inv'
    BY <1>12, UserCallOK DEF UserOps, Writers
  <1> QED BY <1>1, <1>3, <1>4, <1>5, <1>6, <1>7, <1>8, <1>9, <1>10, <1>11,
             <1>12

LEMMA ArriveAuthOK ==
  ASSUME Inv, NEW r \in Slots,
         ArriveLogin(r) \/ ArriveRefresh(r) \/ ArriveLogout(r)
  PROVE  Inv'
  <1> DEFINE alone == Alone(r)
  <1>1. alone \in BOOLEAN /\ (alone => Alone(r))
    BY DEF Alone
  <1>2. Idle \in Request /\ Idle.input = "good" /\ ~Idle.dead
    BY IdleFacts
  <1> HIDE DEF alone
  <1>3. ASSUME NEW u \in UserIds,
               Call(r, [Idle EXCEPT !.op = "login", !.stage = "authenticate",
                                    !.target = u, !.alone = alone])
        PROVE  Inv'
    <2> DEFINE q == [Idle EXCEPT !.op = "login", !.stage = "authenticate",
                                 !.target = u, !.alone = alone]
    <2>1. /\ q \in Request /\ q.op = "login" /\ q.stage = "authenticate"
          /\ q.target = u /\ (q.alone => Alone(r)) /\ ~q.dead
      BY <1>1, <1>2 DEF Request
    <2>2. Call(r, q)
      BY <1>3
    <2> HIDE DEF q
    <2>3. RequestOK(q)
      BY <2>1 DEF RequestOK, Shape, Bearer, Stuck, Serial, Held, Kept, UserOps, Writers
    <2> QED BY <2>1, <2>2, <2>3, CallOK DEF Ops, Creates
  <1>4. ASSUME NEW input \in {"malformed", "bad_value"},
               Call(r, [Idle EXCEPT !.op = "login", !.stage = "authenticate",
                                    !.input = input, !.alone = alone])
        PROVE  Inv'
    <2> DEFINE q == [Idle EXCEPT !.op = "login", !.stage = "authenticate",
                                 !.input = input, !.alone = alone]
    <2>1. /\ q \in Request /\ q.op = "login" /\ q.stage = "authenticate"
          /\ q.input = input /\ (q.alone => Alone(r)) /\ ~q.dead
      BY <1>1, <1>2 DEF Request
    <2>2. Call(r, q)
      BY <1>4
    <2> HIDE DEF q
    <2>3. RequestOK(q)
      BY <2>1 DEF RequestOK, Shape, Bearer, Stuck, Serial, Held, Kept, UserOps, Writers
    <2> QED BY <2>1, <2>2, <2>3, CallOK DEF Ops, Creates
  <1>5. ASSUME NEW s \in SessionIds,
               Call(r, [Idle EXCEPT !.op = "refresh", !.stage = "select",
                                    !.sid = s, !.alone = alone,
                                    !.dead = sessions[s].state = "revoked"])
        PROVE  Inv'
    <2> DEFINE dead == sessions[s].state = "revoked"
               q == [Idle EXCEPT !.op = "refresh", !.stage = "select",
                                 !.sid = s, !.alone = alone, !.dead = dead]
    <2>1. Call(r, q)
      BY <1>5
    <2>2. dead \in BOOLEAN /\ (dead => sessions[s].state = "revoked")
      OBVIOUS
    <2> HIDE DEF dead
    <2>3. /\ q \in Request /\ q.op = "refresh" /\ q.stage = "select"
          /\ q.input = "good" /\ q.sid = s /\ (q.alone => Alone(r))
          /\ q.dead = dead
      BY <1>1, <1>2, <2>2 DEF Request
    <2> HIDE DEF q
    <2>4. RequestOK(q)
      BY <2>2, <2>3
      DEF RequestOK, Shape, Bearer, Stuck, Serial, Held, Kept, UserOps, Writers
    <2> QED BY <2>1, <2>3, <2>4, CallOK DEF Ops, Creates
  <1>6. ASSUME NEW input \in {"malformed", "bad_value"},
               Call(r, [Idle EXCEPT !.op = "refresh", !.stage = "select",
                                    !.input = input, !.alone = alone])
        PROVE  Inv'
    <2> DEFINE q == [Idle EXCEPT !.op = "refresh", !.stage = "select",
                                 !.input = input, !.alone = alone]
    <2>1. /\ q \in Request /\ q.op = "refresh" /\ q.stage = "select"
          /\ q.input = input /\ (q.alone => Alone(r)) /\ ~q.dead
      BY <1>1, <1>2 DEF Request
    <2>2. Call(r, q)
      BY <1>6
    <2> HIDE DEF q
    <2>3. RequestOK(q)
      BY <2>1 DEF RequestOK, Shape, Bearer, Stuck, Serial, Held, Kept, UserOps, Writers
    <2> QED BY <2>1, <2>2, <2>3, CallOK DEF Ops, Creates
  <1>7. ASSUME NEW token \in tokens \cup {NoToken},
               Call(r, [Idle EXCEPT !.op = "logout", !.stage = "revoke",
                                    !.token = token, !.alone = alone,
                                    !.dead = Revoked(token)])
        PROVE  Inv'
    <2> DEFINE dead == Revoked(token)
               q == [Idle EXCEPT !.op = "logout", !.stage = "revoke",
                                 !.token = token, !.alone = alone,
                                 !.dead = dead]
    <2>1. Call(r, q)
      BY <1>7
    <2>2. dead \in BOOLEAN /\ token \in Claims \cup {NoToken}
      BY DEF Revoked, Inv, IInv, TypeOK
    <2> HIDE DEF dead
    <2>3. /\ q \in Request /\ q.op = "logout" /\ q.stage = "revoke"
          /\ q.token = token /\ (q.alone => Alone(r))
      <3> DEFINE T == Claims \cup {NoToken}
      <3>1. "logout" \in UserOps \cup {"idle", "login", "refresh", "logout"}
        OBVIOUS
      <3>2. token \in T
        BY <2>2
      <3>3. /\ q.op = "logout" /\ q.stage = "revoke"
            /\ q.token = token /\ q.alone = alone
        BY <1>2 DEF Request
      <3> HIDE DEF T
      <3>4. q \in Request
        BY <1>1, <1>2, <2>2, <3>1, <3>2 DEF Request, T
      <3> QED BY <1>1, <3>3, <3>4
    <2> HIDE DEF q
    <2>4. token \in tokens => RequestOK(q)
      BY <2>3 DEF RequestOK, Shape, Bearer, Stuck, Serial, Held, Kept, UserOps, Writers
    <2> QED BY <2>1, <2>3, <2>4, CallOK DEF Ops, Creates
  <1>8. CASE ArriveLogin(r)
    BY <1>3, <1>4, <1>8 DEF ArriveLogin, alone
  <1>9. CASE ArriveRefresh(r)
    BY <1>5, <1>6, <1>9 DEF ArriveRefresh, alone
  <1>10. CASE ArriveLogout(r)
    BY <1>7, <1>10 DEF ArriveLogout, alone
  <1> QED BY <1>8, <1>9, <1>10

-----------------------------------------------------------------------------
(* Authorisation. *)

LEMMA AuthoriseOK ==
  ASSUME Inv, NEW r \in Slots, Authorise(r)
  PROVE  Inv'
  <1> DEFINE q == req[r]
             next == IF q.op = "delete_user" THEN "again" ELSE "run"
             p == [q EXCEPT !.stage = next]
  <1>1. q \in Request /\ RequestOK(q) /\ q.stage = "authorise"
    BY DEF Inv, IInv, TypeOK, Authorise
  <1>2. CASE Reply(r, "unauthorized")
    BY <1>1, <1>2, ReplyOK DEF Inv, Outcomes
  <1>3. ASSUME Usable(q.token)
        PROVE  ~q.dead
    BY <1>1, <1>3 DEF RequestOK, Shape, Stuck, Usable, UserOps
  <1>4. CASE Usable(q.token) /\ Reply(r, "forbidden")
    BY <1>1, <1>3, <1>4, ReplyOK DEF Inv, Outcomes
  <1>5. CASE /\ Usable(q.token)
             /\ users[q.token.sub].role \in RequiredRoles(q.op)
             /\ Continue(r, p)
    <2>1. /\ p \in Request /\ p.stage = next /\ p.op = q.op
          /\ p.token = q.token /\ p.input = q.input /\ p.target = q.target
          /\ p.sid = q.sid /\ p.role = q.role /\ p.row = q.row
          /\ p.alone = q.alone /\ p.dead = q.dead
      BY <1>1 DEF Request
    <2>2. q.op \in UserOps
      BY <1>1 DEF RequestOK, Shape
    <2> HIDE DEF p
    <2>3. Shape(p)
      BY <1>1, <2>1, <2>2 DEF RequestOK, Shape
    <2>4. Bearer(p) /\ Stuck(p)
      BY <1>1, <1>3, <1>5, <2>1 DEF RequestOK, Bearer, Stuck
    <2>5. Serial(p) /\ Held(p) /\ Kept(p)
      BY <1>1, <1>5, <2>1 DEF RequestOK, Serial, Usable, Held, Kept
    <2> QED BY <1>1, <1>5, <2>1, <2>3, <2>4, <2>5, ContinueOK
            DEF Inv, RequestOK
  <1> QED BY <1>2, <1>4, <1>5 DEF Authorise

LEMMA AgainOK ==
  ASSUME Inv, NEW r \in Slots, Again(r)
  PROVE  Inv'
  <1> DEFINE q == req[r]
             p == [q EXCEPT !.stage = "run"]
  <1>1. q \in Request /\ RequestOK(q) /\ q.stage = "again" /\ ~q.dead
    BY DEF Inv, IInv, TypeOK, Again, RequestOK, Stuck, Shape
  <1>2. q.op = "delete_user"
    BY <1>1 DEF RequestOK, Shape
  <1>3. ASSUME NEW outcome \in {"domain_error", "bad_request"},
               Reply(r, outcome)
        PROVE  Inv'
    BY <1>1, <1>3, ReplyOK DEF Inv, Outcomes
  <1>4. CASE ~Usable(q.token) /\ Reply(r, "raised")
    <2>1. ~q.alone
      BY <1>1, <1>4 DEF RequestOK, Serial
    <2> QED BY <1>1, <1>4, <2>1, ReplyOK DEF Inv, Outcomes
  <1>5. CASE /\ q.input = "good" /\ q.target # q.token.sub /\ Usable(q.token)
             /\ Continue(r, p)
    <2>1. /\ p \in Request /\ p.stage = "run" /\ p.op = q.op
          /\ p.token = q.token /\ p.input = q.input /\ p.target = q.target
          /\ p.sid = q.sid /\ p.role = q.role /\ p.row = q.row
          /\ p.alone = q.alone /\ p.dead = q.dead
      BY <1>1 DEF Request
    <2> HIDE DEF p
    <2>2. Shape(p)
      BY <1>1, <1>2, <1>5, <2>1 DEF RequestOK, Shape, UserOps
    <2>3. Bearer(p) /\ Stuck(p)
      BY <1>1, <2>1 DEF RequestOK, Bearer, Stuck
    <2>4. Serial(p) /\ Held(p) /\ Kept(p)
      BY <1>1, <1>2, <2>1 DEF RequestOK, Serial, Held, Kept
    <2> QED BY <1>1, <1>5, <2>1, <2>2, <2>3, <2>4, ContinueOK
            DEF Inv, RequestOK
  <1> QED BY <1>3, <1>4, <1>5 DEF Again

-----------------------------------------------------------------------------
(* The use cases. *)

LEMMA RunFacts ==
  ASSUME Inv, NEW r \in Slots, req[r].stage \in {"run", "commit"}
  PROVE  /\ req[r] \in Request /\ RequestOK(req[r]) /\ ~req[r].dead
         /\ \A outcome \in Outcomes \ {"raised"} : Reply(r, outcome) => Inv'
  <1>1. req[r] \in Request /\ RequestOK(req[r])
    BY DEF Inv, IInv, TypeOK
  <1>2. ~req[r].dead
    BY <1>1 DEF RequestOK, Stuck, Shape, UserOps, Writers
  <1> QED BY <1>1, <1>2, ReplyOK DEF Inv

(* A use case that has made its change goes on to commit it. *)
LEMMA ChangeOK ==
  ASSUME Inv, NEW r \in Slots, req[r].stage = "run", req[r].op \in Writers,
         req[r].input = "good", NEW row \in Row, row.role \in Roles,
         req[r].op = "change_password" => row = users[req[r].target],
         req[r].op # "create_user" =>
           /\ Exists(req[r].target)
           /\ row.active => users[req[r].target].active,
         Continue(r, [req[r] EXCEPT !.stage = "commit", !.row = row])
  PROVE  Inv'
  <1> DEFINE q == req[r]
             p == [q EXCEPT !.stage = "commit", !.row = row]
  <1>1. q \in Request /\ RequestOK(q) /\ ~q.dead
    BY RunFacts
  <1>2. /\ p \in Request /\ p.stage = "commit" /\ p.row = row
        /\ p.op = q.op /\ p.token = q.token /\ p.input = q.input
        /\ p.target = q.target /\ p.sid = q.sid /\ p.role = q.role
        /\ p.alone = q.alone /\ p.dead = q.dead
    BY <1>1 DEF Request
  <1>3. Continue(r, p)
    OBVIOUS
  <1> HIDE DEF p
  <1>4. Shape(p)
    BY <1>1, <1>2 DEF RequestOK, Shape
  <1>5. Bearer(p) /\ Stuck(p)
    BY <1>1, <1>2 DEF RequestOK, Bearer, Stuck
  <1>6. Serial(p) /\ Held(p) /\ Kept(p)
    BY <1>1, <1>2 DEF RequestOK, Serial, Held, Kept
  <1> QED BY <1>1, <1>2, <1>3, <1>4, <1>5, <1>6, ContinueOK DEF Inv, RequestOK

LEMMA ReadOK ==
  ASSUME Inv, NEW r \in Slots, GetAllUsers(r) \/ GetUser(r)
  PROVE  Inv'
  BY RunFacts DEF GetAllUsers, GetUser, Runs, Outcomes

LEMMA CreateUserOK ==
  ASSUME Inv, NEW r \in Slots, CreateUser(r)
  PROVE  Inv'
  <1> DEFINE q == req[r]
             row == [role |-> q.role, active |-> TRUE]
  <1>1. q.stage = "run" /\ q.op = "create_user"
    BY DEF CreateUser, Runs
  <1>2. CASE Reply(r, "domain_error") \/ Reply(r, "conflict")
    BY <1>1, <1>2, RunFacts DEF Outcomes
  <1>3. CASE /\ q.input = "good"
             /\ Continue(r, [q EXCEPT !.stage = "commit", !.row = row])
    <2>1. q.role \in Roles
      BY <1>1, <1>3, RunFacts DEF RequestOK, Shape
    <2>2. row \in Row /\ row.role \in Roles
      BY <2>1 DEF Row
    <2> HIDE DEF row
    <2> QED BY <1>1, <1>3, <2>2, ChangeOK DEF Writers
  <1> QED BY <1>2, <1>3 DEF CreateUser

LEMMA UpdateUserOK ==
  ASSUME Inv, NEW r \in Slots, UpdateUser(r)
  PROVE  Inv'
  <1> DEFINE q == req[r]
             old == users[q.target]
             row == IF q.role = None THEN old ELSE [old EXCEPT !.role = q.role]
  <1>1. q.stage = "run" /\ q.op = "update_user"
    BY DEF UpdateUser, Runs
  <1>2. CASE \E outcome \in {"domain_error", "bad_request", "not_found",
                             "conflict"} : Reply(r, outcome)
    BY <1>1, <1>2, RunFacts DEF Outcomes
  <1>3. CASE /\ q.input = "good" /\ Exists(q.target)
             /\ Continue(r, [q EXCEPT !.stage = "commit", !.row = row])
    <2>1. q.target \in UserIds /\ q.role \in Roles \cup {None}
      BY <1>1, <1>3, RunFacts DEF RequestOK, Shape, Request, Writers
    <2>2. old \in Row /\ old.role \in Roles
      BY <1>3, <2>1, RowFacts DEF Exists, Inv, IInv, TypeOK
    <2>3. old \in [role : Roles, active : BOOLEAN]
      BY <2>2, ApiAssumption, AbsentFacts DEF Row
    <2>4. row \in [role : Roles, active : BOOLEAN] /\ row.active = old.active
      BY <2>1, <2>3
    <2> HIDE DEF row
    <2> QED BY <1>1, <1>3, <2>4, ChangeOK DEF Writers, Row
  <1> QED BY <1>2, <1>3 DEF UpdateUser

LEMMA ChangePasswordOK ==
  ASSUME Inv, NEW r \in Slots, ChangePassword(r)
  PROVE  Inv'
  <1> DEFINE q == req[r]
             row == users[q.target]
  <1>1. q.stage = "run" /\ q.op = "change_password"
    BY DEF ChangePassword, Runs
  <1>2. CASE Reply(r, "domain_error") \/ Reply(r, "not_found")
    BY <1>1, <1>2, RunFacts DEF Outcomes
  <1>3. CASE /\ q.input = "good" /\ Exists(q.target)
             /\ Continue(r, [q EXCEPT !.stage = "commit", !.row = row])
    <2>1. q.target \in UserIds
      BY <1>1, <1>3, RunFacts DEF RequestOK, Shape, Writers
    <2>2. row \in Row /\ row.role \in Roles
      BY <1>3, <2>1, RowFacts DEF Exists, Inv, IInv, TypeOK
    <2> QED BY <1>1, <1>3, <2>2, ChangeOK DEF Writers
  <1> QED BY <1>2, <1>3 DEF ChangePassword

LEMMA DeleteUserOK ==
  ASSUME Inv, NEW r \in Slots, DeleteUser(r)
  PROVE  Inv'
  <1> DEFINE q == req[r]
             old == users[q.target]
             row == [old EXCEPT !.active = FALSE]
  <1>1. q.stage = "run" /\ q.op = "delete_user"
    BY DEF DeleteUser, Runs
  <1>2. CASE Reply(r, "domain_error") \/ Reply(r, "not_found")
    BY <1>1, <1>2, RunFacts DEF Outcomes
  <1>3. CASE /\ Exists(q.target)
             /\ Continue(r, [q EXCEPT !.stage = "commit", !.row = row])
    <2>1. q.target \in UserIds /\ q.input = "good"
      BY <1>1, <1>3, RunFacts DEF RequestOK, Shape, Writers
    <2>2. old \in Row /\ old.role \in Roles
      BY <1>3, <2>1, RowFacts DEF Exists, Inv, IInv, TypeOK
    <2>3. old \in [role : Roles, active : BOOLEAN]
      BY <2>2, ApiAssumption, AbsentFacts DEF Row
    <2>4. row \in [role : Roles, active : BOOLEAN] /\ ~row.active
      BY <2>3
    <2> HIDE DEF row
    <2> QED BY <1>1, <1>3, <2>1, <2>4, ChangeOK DEF Writers, Row
  <1> QED BY <1>2, <1>3 DEF DeleteUser

(* What is known of a request about to commit, and what it may leave in    *)
(* the row: a row, and the one it read when it was alone with a password.  *)
LEMMA CommitFacts ==
  ASSUME Inv, NEW r \in Slots, req[r].stage = "commit",
         NEW row \in Directory!Written(users[req[r].target], req[r].row,
                       req[r].op = "create_user" \/ stack = "drf")
  PROVE  /\ req[r].target \in UserIds
         /\ req[r].op = "create_user" <=> ~Exists(req[r].target)
         /\ row \in [role : Roles, active : BOOLEAN]
         /\ req[r].alone /\ req[r].op # "create_user" =>
              (row.active => users[req[r].target].active)
         /\ req[r].alone /\ req[r].op = "change_password" =>
              row = users[req[r].target]
  <1> DEFINE q == req[r]
             to == q.row
             old == users[q.target]
  <1>1. /\ RequestOK(q) /\ q.target \in UserIds /\ to.role \in Roles
        /\ to \in Row /\ old \in Row
    BY RunFacts DEF RequestOK, Shape, Request, Inv, IInv, TypeOK
  <1>2. to \in [role : Roles, active : BOOLEAN]
    BY <1>1, ApiAssumption, AbsentFacts DEF Row
  <1>3. q.op = "create_user" <=> ~Exists(q.target)
    BY <1>1 DEF Inv, IInv, Inserts, Creates, RequestOK, Kept
  <1>4. /\ q.alone /\ q.op # "create_user" => (to.active => old.active)
        /\ q.alone /\ q.op = "change_password" => to = old
    BY <1>1 DEF RequestOK, Serial
  <1>5. CASE q.op = "create_user"
    <2>1. row = to
      BY <1>5 DEF Directory!Written
    <2> QED BY <1>1, <1>2, <1>3, <1>5, <2>1
  <1>6. CASE q.op # "create_user"
    <2>1. old \in [role : Roles, active : BOOLEAN]
      BY <1>1, <1>3, <1>6, AbsentFacts DEF Row, Exists
    <2> HIDE DEF to, old, q
    <2>2. row \in {old, to, [old EXCEPT !.role = to.role],
                   [old EXCEPT !.active = to.active]}
      BY <1>6 DEF Directory!Written, to, old, q
    <2>3. /\ row \in [role : Roles, active : BOOLEAN]
          /\ row.active \in {old.active, to.active}
          /\ to = old => row = old
      BY <1>2, <2>1, <2>2
    <2> QED BY <1>1, <1>3, <1>4, <1>6, <2>3 DEF to, old, q
  <1> QED BY <1>5, <1>6

LEMMA CommitOK ==
  ASSUME Inv, NEW r \in Slots, Commit(r)
  PROVE  Inv'
  <1> DEFINE q == req[r]
  <1>1. PICK row \in Directory!Written(users[q.target], q.row,
                        q.op = "create_user" \/ stack = "drf") :
          users' = [users EXCEPT ![q.target] = row]
    BY DEF Commit
  <1>2. /\ q.stage = "commit" /\ req' = [req EXCEPT ![r] = Idle]
        /\ answer' = Respond(q, "ok", Code(q.op, "ok"))
        /\ UNCHANGED <<mix, stack, sessions, tokens>>
    BY DEF Commit
  <1>3. /\ q.target \in UserIds /\ row \in [role : Roles, active : BOOLEAN]
        /\ q.op = "create_user" <=> ~Exists(q.target)
    BY <1>1, <1>2, CommitFacts
  <1>4. /\ users' \in [UserIds -> Row] /\ users'[q.target] = row
        /\ \A u \in UserIds \ {q.target} : users'[u] = users[u]
    BY <1>1, <1>3 DEF Inv, IInv, TypeOK, Row
  <1>5. UsersAge
    BY <1>3, <1>4, ApiAssumption DEF UsersAge, Exists
  <1>6. AnswerOK' /\ answer'.code \in Nat
    BY <1>2, RunFacts, RespondOK DEF Inv, Outcomes
  <1>7. /\ req' \in [Slots -> Request] /\ Solitude'
        /\ \A s \in Slots : RequestOK(req[s])'
    BY <1>2, <1>5, LeaveOK DEF Inv, SessionsAge
  <1>8. TypeOK' /\ Owned'
    BY <1>2, <1>4, <1>6, <1>7 DEF Inv, IInv, TypeOK, Owned
  <1>9. Inserts'
    <2>1. req'[r] = Idle /\ \A s \in Slots \ {r} : req'[s] = req[s]
      BY <1>2 DEF Inv, IInv, TypeOK
    <2> SUFFICES ASSUME NEW u \in UserIds, NEW s \in Slots, Creates(req'[s], u)
                 PROVE  /\ ~Exists(u)'
                        /\ \A x \in Slots \ {s} : ~Creates(req'[x], u)
      BY DEF Inserts
    <2>2. s # r /\ Creates(req[s], u)
      BY <2>1, IdleFacts DEF Creates
    <2>3. ~Exists(u) /\ \A x \in Slots \ {s} : ~Creates(req[x], u)
      BY <2>2 DEF Inv, IInv, Inserts
    <2>4. u # q.target
      BY <1>3, <2>2, <2>3 DEF Creates
    <2> QED BY <1>4, <2>1, <2>3, <2>4, IdleFacts DEF Exists, Creates
  <1> QED BY <1>6, <1>7, <1>8, <1>9 DEF Inv, IInv

LEMMA LoseOK ==
  ASSUME Inv, NEW r \in Slots, Lose(r)
  PROVE  Inv'
  <1>1. Duplicate(req[r].op) \in Outcomes /\ "raised" \in Outcomes
    BY DEF Duplicate, Outcomes
  <1>2. /\ req[r].stage = "commit" /\ ~req[r].alone
        /\ Reply(r, Duplicate(req[r].op)) \/ Reply(r, "raised")
    BY DEF Lose
  <1> QED BY <1>1, <1>2, RunFacts, ReplyOK DEF Inv

-----------------------------------------------------------------------------
(* The handlers of /auth. *)

LEMMA AuthFacts ==
  ASSUME Inv, NEW r \in Slots,
         req[r].stage \in {"authenticate", "open", "select", "rotate", "revoke"}
  PROVE  /\ req[r] \in Request /\ RequestOK(req[r])
         /\ req[r].stage \notin {"select", "revoke"} => ~req[r].dead
         /\ Reply(r, "unauthorized") => Inv'
  <1>1. req[r] \in Request /\ RequestOK(req[r])
    BY DEF Inv, IInv, TypeOK
  <1>2. req[r].stage \notin {"select", "revoke"} => ~req[r].dead
    BY <1>1 DEF RequestOK, Stuck, Shape, UserOps
  <1> QED BY <1>1, <1>2, ReplyOK DEF Inv, Outcomes

LEMMA AuthenticateOK ==
  ASSUME Inv, NEW r \in Slots, Authenticate(r)
  PROVE  Inv'
  <1> DEFINE q == req[r]
             row == users[q.target]
             p == [q EXCEPT !.stage = "open", !.row = row]
  <1>1. q.stage = "authenticate"
    BY DEF Authenticate
  <1>2. q \in Request /\ RequestOK(q) /\ ~q.dead /\ q.op = "login"
    BY <1>1, AuthFacts DEF RequestOK, Shape
  <1>3. CASE Reply(r, "unauthorized")
    BY <1>1, <1>3, AuthFacts
  <1>4. CASE q.input = "good" /\ row.active /\ Continue(r, p)
    <2>1. q.target \in UserIds
      BY <1>2, <1>4 DEF RequestOK, Shape
    <2>2. row \in Row /\ row.role \in Roles
      BY <1>4, <2>1, RowFacts DEF Inv, IInv, TypeOK
    <2>3. /\ p \in Request /\ p.stage = "open" /\ p.row = row
          /\ p.op = q.op /\ p.token = q.token /\ p.input = q.input
          /\ p.target = q.target /\ p.sid = q.sid /\ p.role = q.role
          /\ p.alone = q.alone /\ p.dead = q.dead
      BY <1>2, <2>2 DEF Request
    <2> HIDE DEF p
    <2>4. Shape(p)
      BY <1>2, <1>4, <2>1, <2>2, <2>3 DEF RequestOK, Shape, Writers
    <2>5. Bearer(p) /\ Stuck(p) /\ Serial(p) /\ Held(p) /\ Kept(p)
      BY <1>2, <2>3 DEF RequestOK, Bearer, Stuck, Serial, Held, Kept, UserOps
    <2> QED BY <1>1, <1>4, <2>3, <2>4, <2>5, ContinueOK DEF Inv, RequestOK
  <1> QED BY <1>3, <1>4 DEF Authenticate

LEMMA SelectOK ==
  ASSUME Inv, NEW r \in Slots, Select(r)
  PROVE  Inv'
  <1> DEFINE q == req[r]
             owner == sessions[q.sid].user
             row == users[owner]
             p == [q EXCEPT !.stage = "rotate", !.target = owner, !.row = row]
  <1>1. q.stage = "select"
    BY DEF Select
  <1>2. q \in Request /\ RequestOK(q) /\ q.op = "refresh"
    BY <1>1, AuthFacts DEF RequestOK, Shape
  <1>3. CASE Reply(r, "unauthorized")
    BY <1>1, <1>3, AuthFacts
  <1>4. CASE q.input = "good" /\ Refreshable(q.sid) /\ Continue(r, p)
    <2>1. q.sid \in SessionIds /\ sessions[q.sid].state = "live" /\ row.active
      BY <1>2, <1>4 DEF RequestOK, Shape, Refreshable
    <2>2. owner \in UserIds /\ ~q.dead
      BY <1>1, <1>2, <2>1
      DEF RequestOK, Stuck, Inv, IInv, Owned, UserOps
    <2>3. row \in Row /\ row.role \in Roles
      BY <2>1, <2>2, RowFacts DEF Inv, IInv, TypeOK
    <2>4. /\ p \in Request /\ p.stage = "rotate" /\ p.row = row
          /\ p.op = q.op /\ p.token = q.token /\ p.input = q.input
          /\ p.target = owner /\ p.sid = q.sid /\ p.role = q.role
          /\ p.alone = q.alone /\ p.dead = q.dead
      BY <1>2, <2>2, <2>3 DEF Request
    <2> HIDE DEF p
    <2>5. Shape(p)
      BY <1>2, <1>4, <2>1, <2>2, <2>3, <2>4 DEF RequestOK, Shape, Writers
    <2>6. Bearer(p) /\ Stuck(p) /\ Serial(p) /\ Held(p) /\ Kept(p)
      BY <1>2, <2>1, <2>2, <2>4
      DEF RequestOK, Bearer, Stuck, Serial, Held, Kept, UserOps
    <2> QED BY <1>1, <1>2, <1>4, <2>4, <2>5, <2>6, ContinueOK
            DEF Inv, RequestOK
  <1> QED BY <1>3, <1>4 DEF Select

(* A handler's transaction changes the sessions and hands out a token. *)
LEMMA HandlerOK ==
  ASSUME Inv, NEW r \in Slots, req[r].stage \in {"open", "rotate", "revoke"},
         req' = [req EXCEPT ![r] = Idle],
         answer' = Respond(req[r], "ok", Code(req[r].op, "ok")),
         UNCHANGED <<mix, stack, users>>,
         sessions' \in [SessionIds -> Session], Owned',
         tokens \subseteq tokens', tokens' \subseteq Claims,
         SessionsAge
  PROVE  Inv'
  <1>1. req[r].dead => req[r].op = "logout"
    BY AuthFacts DEF RequestOK, Shape
  <1>2. AnswerOK' /\ answer'.code \in Nat
    BY <1>1, RespondOK DEF Inv, Outcomes
  <1>3. /\ req' \in [Slots -> Request] /\ Solitude' /\ Inserts'
        /\ \A s \in Slots : RequestOK(req[s])'
    BY LeaveOK DEF Inv, UsersAge, Exists
  <1>4. TypeOK'
    BY <1>2, <1>3 DEF Inv, IInv, TypeOK
  <1> QED BY <1>2, <1>3, <1>4 DEF Inv, IInv

LEMMA OpenOK ==
  ASSUME Inv, NEW r \in Slots, Open(r)
  PROVE  Inv'
  <1> DEFINE q == req[r]
  <1>1. /\ q.stage = "open" /\ req' = [req EXCEPT ![r] = Idle]
        /\ answer' = Respond(q, "ok", Code(q.op, "ok"))
        /\ UNCHANGED <<mix, stack, users>>
    BY DEF Open
  <1>2. PICK s \in SessionIds, out \in SUBSET Store!OwnedBy(q.target),
             state \in Store!Lasting :
          /\ sessions[s].state = "free"
          /\ sessions' = [x \in SessionIds |->
               IF x = s THEN [user |-> q.target, state |-> state]
               ELSE IF x \in out THEN [sessions[x] EXCEPT !.state = "revoked"]
               ELSE sessions[x]]
          /\ tokens' = tokens \cup {Issue(q.target, q.row.role, s)}
    BY DEF Open, Store!Opened
  <1>3. q.target \in UserIds /\ q.row.role \in Roles
    BY <1>1, AuthFacts DEF RequestOK, Shape
  <1>4. sessions \in [SessionIds -> Session] /\ tokens \subseteq Claims
    BY DEF Inv, IInv, TypeOK
  <1>5. Issue(q.target, q.row.role, s) \in Claims
    BY <1>3 DEF Issue, Claims
  <1>6. ASSUME NEW x \in SessionIds
        PROVE  /\ sessions'[x] \in Session
               /\ sessions[x].state = "revoked" =>
                    sessions'[x].state = "revoked"
               /\ sessions'[x].state = "free" => sessions[x].state = "free"
               /\ sessions'[x].state \in {"live", "expired"} =>
                    sessions'[x].user \in UserIds
    <2>1. CASE x = s
      <3>1. sessions'[x] = [user |-> q.target, state |-> state]
        BY <1>2, <2>1
      <3> QED BY <1>2, <1>3, <2>1, <3>1 DEF Session, Store!Lasting
    <2>2. CASE x # s /\ x \in out
      <3>1. sessions'[x] = [sessions[x] EXCEPT !.state = "revoked"]
        BY <1>2, <2>2
      <3>2. sessions[x].user = q.target
        BY <2>2 DEF Store!OwnedBy
      <3> QED BY <1>3, <1>4, <3>1, <3>2 DEF Session
    <2>3. CASE x # s /\ x \notin out
      <3>1. sessions'[x] = sessions[x]
        BY <1>2, <2>3
      <3> QED BY <1>4, <3>1 DEF Inv, IInv, Owned
    <2> QED BY <2>1, <2>2, <2>3
  <1>7. sessions' \in [SessionIds -> Session]
    BY <1>2, <1>6
  <1>8. SessionsAge
    BY <1>6 DEF SessionsAge
  <1>9. Owned'
    <2>1. sessions'[s].state # "free"
      BY <1>2 DEF Store!Lasting
    <2>2. Issue(q.target, q.row.role, s).sid = s
      BY DEF Issue
    <2>3. \A t \in tokens : sessions'[t.sid].state # "free"
      BY <1>4, <1>8 DEF Inv, IInv, Owned, SessionsAge, Claims
    <2>4. \A t \in tokens' : sessions'[t.sid].state # "free"
      BY <1>2, <2>1, <2>2, <2>3
    <2> QED BY <1>6, <2>4 DEF Owned
  <1> QED BY <1>1, <1>2, <1>4, <1>5, <1>7, <1>8, <1>9, HandlerOK

LEMMA RotateOK ==
  ASSUME Inv, NEW r \in Slots, Rotate(r)
  PROVE  Inv'
  <1> DEFINE q == req[r]
  <1>1. /\ q.stage = "rotate" /\ req' = [req EXCEPT ![r] = Idle]
        /\ answer' = Respond(q, "ok", Code(q.op, "ok"))
        /\ UNCHANGED <<mix, stack, users>>
        /\ tokens' = tokens \cup {Issue(q.target, q.row.role, q.sid)}
    BY DEF Rotate
  <1>2. PICK state \in {"live", "expired"} :
          sessions' = [sessions EXCEPT ![q.sid].state =
                         IF @ = "revoked" THEN "revoked" ELSE state]
    BY DEF Rotate, Store!Lasting, Store!Renewed
  <1>3. q \in Request /\ q.target \in UserIds /\ q.row.role \in Roles
        /\ q.op = "refresh" /\ q.input = "good" /\ q.sid \in SessionIds
    BY <1>1, AuthFacts DEF RequestOK, Shape
  <1>4. sessions \in [SessionIds -> Session] /\ tokens \subseteq Claims
    BY DEF Inv, IInv, TypeOK
  <1>5. Issue(q.target, q.row.role, q.sid) \in Claims
    BY <1>3 DEF Issue, Claims
  <1>6. sessions[q.sid].state # "free"
    BY <1>1, AuthFacts DEF RequestOK, Held
  <1>7. /\ sessions' \in [SessionIds -> Session]
        /\ \A x \in SessionIds \ {q.sid} : sessions'[x] = sessions[x]
        /\ sessions'[q.sid].user = sessions[q.sid].user
        /\ sessions'[q.sid].state # "free"
        /\ sessions[q.sid].state = "revoked" =>
             sessions'[q.sid].state = "revoked"
    BY <1>3, <1>4, <1>2 DEF Session
  <1>8. SessionsAge
    BY <1>3, <1>7 DEF SessionsAge
  <1>9. Owned'
    <2>1. sessions[q.sid].state \in {"live", "expired", "revoked"}
      BY <1>3, <1>4, <1>6 DEF Session
    <2>2. Issue(q.target, q.row.role, q.sid).sid = q.sid
      BY DEF Issue
    <2>3. \A t \in tokens : sessions'[t.sid].state # "free"
      BY <1>4, <1>8 DEF Inv, IInv, Owned, SessionsAge, Claims
    <2>4. \A t \in tokens' : sessions'[t.sid].state # "free"
      BY <1>1, <1>7, <2>2, <2>3
    <2>5. \A s \in SessionIds : sessions'[s].state \in {"live", "expired"} =>
            sessions'[s].user \in UserIds
      BY <1>3, <1>7, <2>1 DEF Inv, IInv, Owned
    <2> QED BY <2>4, <2>5 DEF Owned
  <1> QED BY <1>1, <1>4, <1>5, <1>7, <1>8, <1>9, HandlerOK

LEMMA RevokeOK ==
  ASSUME Inv, NEW r \in Slots, Revoke(r)
  PROVE  Inv'
  <1> DEFINE q == req[r]
  <1>1. /\ q.stage = "revoke" /\ req' = [req EXCEPT ![r] = Idle]
        /\ answer' = Respond(q, "ok", Code(q.op, "ok"))
        /\ UNCHANGED <<mix, stack, users, tokens>>
        /\ sessions' = [sessions EXCEPT ![q.token.sid].state = "revoked"]
    BY DEF Revoke, Store!Closed
  <1>2. sessions \in [SessionIds -> Session] /\ tokens \subseteq Claims
    BY DEF Inv, IInv, TypeOK
  <1>3. q.token \in tokens
    BY <1>1, AuthFacts DEF RequestOK, Shape, Bearer
  <1>4. PICK sid \in SessionIds : q.token.sid = sid
    BY <1>2, <1>3 DEF Claims
  <1>5. /\ sessions' \in [SessionIds -> Session]
        /\ \A x \in SessionIds \ {sid} : sessions'[x] = sessions[x]
        /\ sessions'[sid].state = "revoked"
    BY <1>1, <1>2, <1>4 DEF Session
  <1>6. SessionsAge
    BY <1>5 DEF SessionsAge
  <1>7. Owned'
    <2>1. \A t \in tokens' : sessions'[t.sid].state # "free"
      BY <1>1, <1>2, <1>6 DEF Inv, IInv, Owned, SessionsAge, Claims
    <2> QED BY <1>5, <2>1 DEF Inv, IInv, Owned
  <1> QED BY <1>1, <1>2, <1>5, <1>6, <1>7, HandlerOK

-----------------------------------------------------------------------------
(* Time, and the beginning. *)

LEMMA AbortOK ==
  ASSUME Inv, NEW r \in Slots, Abort(r)
  PROVE  Inv'
  <1>1. req[r] # Idle /\ Continue(r, Idle)
    BY DEF Abort
  <1>2. req[r].stage # "idle"
    BY <1>1 DEF Inv, IInv, RequestOK, Shape
  <1> QED BY <1>1, <1>2, IdleFacts, IdleOK, ContinueOK DEF Inv

LEMMA ExpireSessionsOK ==
  ASSUME Inv, ExpireSessions
  PROVE  Inv'
  <1>1. /\ answer' = NoAnswer
        /\ req' = [r \in Slots |-> [req[r] EXCEPT !.alone = FALSE]]
        /\ UNCHANGED <<mix, stack, users, tokens>>
    BY DEF ExpireSessions
  <1>2. PICK E \in SUBSET Store!Live :
          sessions' = [x \in SessionIds |->
            IF x \in E THEN [sessions[x] EXCEPT !.state = "expired"]
                       ELSE sessions[x]]
    BY DEF ExpireSessions, Store!Expired
  <1>3. ASSUME NEW x \in SessionIds
        PROVE  /\ sessions'[x] \in Session
               /\ sessions'[x].user = sessions[x].user
               /\ \/ sessions'[x].state = sessions[x].state
                  \/ sessions[x].state = "live" /\ sessions'[x].state = "expired"
    <2>1. sessions[x] \in Session
      BY DEF Inv, IInv, TypeOK
    <2>2. x \in E => sessions[x].state = "live"
      BY DEF Store!Live
    <2> QED BY <1>2, <2>1, <2>2 DEF Session
  <1>4. SessionsAge
    BY <1>3 DEF SessionsAge
  <1>5. \A r \in Slots :
          /\ req'[r] \in Request /\ ~req'[r].alone /\ RequestOK(req[r])'
          /\ \A u : Creates(req'[r], u) => Creates(req[r], u)
    <2> TAKE r \in Slots
    <2>1. req'[r] = [req[r] EXCEPT !.alone = FALSE]
      BY <1>1
    <2> QED BY <1>1, <1>4, <2>1, JoinedOK DEF Inv, UsersAge, Exists
  <1>6. req' \in [Slots -> Request]
    BY <1>1, <1>5
  <1>7. Solitude' /\ Inserts'
    BY <1>1, <1>5, InsertsOK DEF Solitude, Inv
  <1>8. AnswerOK' /\ answer'.code \in Nat
    BY <1>1, UnansweredOK
  <1>9. Owned'
    <2>1. \A t \in tokens' : sessions'[t.sid].state # "free"
      BY <1>1, <1>4 DEF Inv, IInv, TypeOK, Owned, SessionsAge, Claims
    <2> QED BY <1>3, <2>1 DEF Inv, IInv, Owned
  <1>10. TypeOK'
    BY <1>1, <1>2, <1>3, <1>6, <1>8 DEF Inv, IInv, TypeOK
  <1> QED BY <1>5, <1>7, <1>8, <1>9, <1>10 DEF Inv, IInv

LEMMA InitInv == ASSUME Init PROVE Inv
  <1>1. TypeOK
    BY IdleFacts, ApiAssumption DEF Init, TypeOK, Session, NoAnswer
  <1>2. Owned
    BY DEF Init, Owned
  <1>3. Solitude /\ Inserts
    BY IdleFacts DEF Init, Solitude, Inserts, Creates
  <1>4. \A r \in Slots : RequestOK(req[r])
    BY IdleOK DEF Init
  <1>5. AnswerOK
    <2>1. /\ answer.outcome = "none" /\ ~answer.alone
          /\ ~answer.dead /\ answer.code = 0
      BY DEF Init, NoAnswer
    <2> QED BY <2>1 DEF AnswerOK, RevokedSessionsGetNothing, Success,
              StacksAgree, SerialRequestsDoNotFail, PrivateAnswersAreNotStored
  <1> QED BY <1>1, <1>2, <1>3, <1>4, <1>5 DEF Inv, IInv

LEMMA StutterInv == ASSUME Inv, UNCHANGED vars PROVE Inv'
  <1>1. UNCHANGED <<stack, users, sessions, tokens, req, answer>>
    BY DEF vars
  <1>2. TypeOK' /\ Owned' /\ Solitude' /\ Inserts'
    BY <1>1, InsertsOK DEF Inv, IInv, TypeOK, Owned, Solitude
  <1>3. \A r \in Slots : RequestOK(req[r])'
    BY <1>1 DEF Inv, IInv, RequestOK, Shape, Bearer, Stuck, Serial, Held, Kept,
                Usable, Exists
  <1>4. AnswerOK'
    BY <1>1 DEF Inv, AnswerOK, RevokedSessionsGetNothing, StacksAgree,
                SerialRequestsDoNotFail, PrivateAnswersAreNotStored
  <1> QED BY <1>2, <1>3, <1>4 DEF Inv, IInv

LEMMA NextInv == ASSUME Inv, [Next]_vars PROVE Inv'
  <1>1. ASSUME NEW r \in Slots, Arrive(r)
        PROVE  Inv'
    BY <1>1, ArriveUsersOK, ArriveAuthOK DEF Arrive
  <1>2. ASSUME NEW r \in Slots, UseCase(r)
        PROVE  Inv'
    BY <1>2, AuthoriseOK, AgainOK, ReadOK, CreateUserOK, UpdateUserOK,
       ChangePasswordOK, DeleteUserOK, CommitOK, LoseOK DEF UseCase
  <1>3. ASSUME NEW r \in Slots, AuthHandler(r)
        PROVE  Inv'
    BY <1>3, AuthenticateOK, OpenOK, SelectOK, RotateOK, RevokeOK
    DEF AuthHandler
  <1>4. ASSUME NEW r \in Slots, Abort(r)
        PROVE  Inv'
    BY <1>4, AbortOK
  <1>5. CASE ExpireSessions
    BY <1>5, ExpireSessionsOK
  <1>6. CASE UNCHANGED vars
    BY <1>6, StutterInv
  <1> QED BY <1>1, <1>2, <1>3, <1>4, <1>5, <1>6 DEF Next

LEMMA InvHolds == Spec => []Inv
  BY InitInv, NextInv, PTL DEF Spec

-----------------------------------------------------------------------------
(* The results about single answers. *)

(* Users, sessions, tokens and requests keep their types, for any users,   *)
(* sessions, slots and traffic, on either stack.                           *)
THEOREM TypeCorrect == Spec => []TypeOK
  <1>1. Inv => TypeOK
    BY DEF Inv, IInv
  <1> QED BY <1>1, InvHolds, PTL

(* Nobody gets anything but a logout by a session that was revoked before  *)
(* they called, whatever was in flight at the time.                        *)
THEOREM RevokedGetNothing == Spec => []RevokedSessionsGetNothing
  <1>1. Inv => RevokedSessionsGetNothing
    BY DEF Inv, AnswerOK
  <1> QED BY <1>1, InvHolds, PTL

(* A request that overlaps no other gets no 500, but for a conflict on DRF.*)
THEOREM SerialDoNotFail == Spec => []SerialRequestsDoNotFail
  <1>1. Inv => SerialRequestsDoNotFail
    BY DEF Inv, AnswerOK
  <1> QED BY <1>1, InvHolds, PTL

(* Every successful answer is marked no-store.                             *)
THEOREM PrivateNotStored == Spec => []PrivateAnswersAreNotStored
  <1>1. Inv => PrivateAnswersAreNotStored
    BY DEF Inv, AnswerOK
  <1> QED BY <1>1, InvHolds, PTL

(* The two stacks give one outcome the same success or both some 4xx.      *)
THEOREM StacksAnswerAlike == Spec => []StacksAgree
  <1>1. Inv => StacksAgree
    BY DEF Inv, AnswerOK
  <1> QED BY <1>1, InvHolds, PTL

-----------------------------------------------------------------------------
(* The last admin. *)

LEMMA OnlyCommitsWriteUsers ==
  ASSUME [Next]_vars
  PROVE  UNCHANGED users \/ \E r \in Slots : Commit(r)
  <1>1. ASSUME NEW r \in Slots, NEW q, Call(r, q)
        PROVE  UNCHANGED users
    BY <1>1 DEF Call
  <1>2. ASSUME NEW r \in Slots, Arrive(r)
        PROVE  UNCHANGED users
    BY <1>1, <1>2 DEF Arrive, ArriveUsers, ArriveLogin, ArriveRefresh,
                      ArriveLogout, UserCall
  <1>3. ASSUME NEW r \in Slots, NEW outcome, Reply(r, outcome)
        PROVE  UNCHANGED users
    BY <1>3 DEF Reply
  <1>4. ASSUME NEW r \in Slots, NEW q, Continue(r, q)
        PROVE  UNCHANGED users
    BY <1>4 DEF Continue
  <1>5. ASSUME NEW r \in Slots, UseCase(r), ~Commit(r)
        PROVE  UNCHANGED users
    BY <1>3, <1>4, <1>5
    DEF UseCase, Authorise, Again, GetAllUsers, GetUser, CreateUser,
        UpdateUser, ChangePassword, DeleteUser, Lose
  <1>6. ASSUME NEW r \in Slots, AuthHandler(r)
        PROVE  UNCHANGED users
    BY <1>3, <1>4, <1>6
    DEF AuthHandler, Authenticate, Open, Select, Rotate, Revoke
  <1>7. ASSUME NEW r \in Slots, Abort(r)
        PROVE  UNCHANGED users
    BY <1>4, <1>7 DEF Abort
  <1>8. CASE ExpireSessions
    BY <1>8 DEF ExpireSessions
  <1>9. CASE UNCHANGED vars
    BY <1>9 DEF vars
  <1> QED BY <1>2, <1>5, <1>6, <1>7, <1>8, <1>9 DEF Next

(* The admin who makes a change, alone, is still one afterwards. *)
LEMMA WriterStaysAdmin ==
  ASSUME Inv, NEW r \in Slots, Commit(r), req[r].alone,
         ~(req[r].op = "update_user" /\ req[r].target = req[r].token.sub)
  PROVE  HasAdmin'
  <1> DEFINE q == req[r]
             me == q.token.sub
  <1>1. PICK row \in Directory!Written(users[q.target], q.row,
                        q.op = "create_user" \/ stack = "drf") :
          q.stage = "commit" /\ users' = [users EXCEPT ![q.target] = row]
    BY DEF Commit
  <1>2. /\ q.op \in Writers /\ q.token \in tokens /\ q.target \in UserIds
        /\ Usable(q.token) /\ q.token.role \in RequiredRoles(q.op)
        /\ q.op = "create_user" => ~Exists(q.target)
        /\ q.op = "change_password" => row = users[q.target]
        /\ q.op = "delete_user" => q.target # me
    BY <1>1, RunFacts, CommitFacts
    DEF RequestOK, Shape, Bearer, Serial, Writers, UserOps
  <1>3. /\ me \in UserIds /\ users \in [UserIds -> Row]
        /\ users[me].role = Admin /\ users[me].active
    BY <1>2 DEF Inv, IInv, TypeOK, Claims, Usable, RequiredRoles, Writers
  <1>4. users[me] = [role |-> Admin, active |-> TRUE]
    <2>1. users[me] \in [role : Roles, active : BOOLEAN]
      BY <1>3, ApiAssumption, AbsentFacts DEF Row
    <2> QED BY <1>3, <2>1
  <1>5. users'[me] = users[me]
    <2>1. CASE q.target # me
      BY <1>1, <1>3, <2>1
    <2>2. CASE q.target = me
      <3>1. q.op = "change_password"
        BY <1>2, <1>3, <2>2, ApiAssumption DEF Exists, Writers, Roles
      <3> QED BY <1>1, <1>2, <1>3, <2>2, <3>1
    <2> QED BY <2>1, <2>2
  <1> QED BY <1>3, <1>4, <1>5 DEF HasAdmin

(* Without overlapping requests the last active admin goes only by a       *)
(* change of their own role.                                               *)
THEOREM LockoutOnlyByOverlap == Spec => LockoutNeedsOverlap
  <1>1. Inv /\ [Next]_vars =>
          [HasAdmin /\ ~HasAdmin' =>
             \E r \in Slots :
               /\ req[r].stage = "commit" /\ req'[r].stage = "idle"
               /\ \/ ~req[r].alone
                  \/ req[r].op = "update_user" /\ req[r].target = req[r].token.sub]_vars
    <2> SUFFICES ASSUME Inv, [Next]_vars, HasAdmin, ~HasAdmin'
                 PROVE  \E r \in Slots :
                          /\ req[r].stage = "commit" /\ req'[r].stage = "idle"
                          /\ \/ ~req[r].alone
                             \/ req[r].op = "update_user" /\ req[r].target = req[r].token.sub
      OBVIOUS
    <2>1. ~UNCHANGED users
      BY DEF HasAdmin
    <2>2. PICK r \in Slots : Commit(r)
      BY <2>1, OnlyCommitsWriteUsers
    <2>3. \/ ~req[r].alone
          \/ req[r].op = "update_user" /\ req[r].target = req[r].token.sub
      BY <2>2, WriterStaysAdmin
    <2>4. req[r].stage = "commit" /\ req'[r].stage = "idle"
      BY <2>2, IdleFacts DEF Commit, Inv, IInv, TypeOK
    <2> QED BY <2>3, <2>4
  <1> QED BY <1>1, InvHolds, PTL DEF Spec, LockoutNeedsOverlap

-----------------------------------------------------------------------------
(* Users who are deactivated. *)

(* A change that is alone activates nobody. *)
LEMMA AloneReactivatesNobody ==
  ASSUME Inv, NEW r \in Slots, Commit(r), req[r].alone,
         NEW u \in UserIds, Exists(u), users'[u].active
  PROVE  users[u].active
  <1> DEFINE q == req[r]
  <1>1. PICK row \in Directory!Written(users[q.target], q.row,
                        q.op = "create_user" \/ stack = "drf") :
          q.stage = "commit" /\ users' = [users EXCEPT ![q.target] = row]
    BY DEF Commit
  <1>2. users \in [UserIds -> Row]
    BY DEF Inv, IInv, TypeOK
  <1>3. CASE u # q.target
    BY <1>1, <1>2, <1>3
  <1>4. CASE u = q.target
    <2>1. row.active
      BY <1>1, <1>2, <1>4
    <2> QED BY <1>1, <1>4, <2>1, CommitFacts
  <1> QED BY <1>3, <1>4

(* A deactivated user becomes active again only by a request that had read *)
(* the row before and overlapped another, whatever the traffic.            *)
THEOREM ReactivationOnlyByOverlap == Spec => ReactivationNeedsOverlap
  <1>1. ASSUME Inv, [Next]_vars, NEW u \in UserIds,
               Exists(u), ~users[u].active, users'[u].active
        PROVE  \E r \in Slots :
                 /\ req[r].stage = "commit" /\ req'[r].stage = "idle"
                 /\ req[r].target = u /\ ~req[r].alone
    <2>1. PICK r \in Slots : Commit(r)
      BY <1>1, OnlyCommitsWriteUsers
    <2>2. ~req[r].alone
      BY <1>1, <2>1, AloneReactivatesNobody
    <2>3. req[r].stage = "commit" /\ req'[r].stage = "idle"
      BY <1>1, <2>1, IdleFacts DEF Commit, Inv, IInv, TypeOK
    <2>4. req[r].target = u
      BY <1>1, <2>1 DEF Commit, Inv, IInv, TypeOK
    <2> QED BY <2>2, <2>3, <2>4
  <1>2. Inv /\ [Next]_vars =>
          [\A u \in UserIds :
             Exists(u) /\ ~users[u].active /\ users'[u].active =>
               \E r \in Slots :
                 /\ req[r].stage = "commit" /\ req'[r].stage = "idle"
                 /\ req[r].target = u /\ ~req[r].alone]_vars
    BY <1>1
  <1> QED BY <1>2, InvHolds, PTL DEF Spec, ReactivationNeedsOverlap
=============================================================================
