--------------------------- MODULE ApiContractProofs ---------------------------
(***************************************************************************)
(* Api.tla keeps its two contracts for any users, sessions and number of   *)
(* requests: what its steps do to the rows of users is Accounts.tla, what  *)
(* they do to sessions is Standing.tla.  AccountsProofs and StandingProofs *)
(* show the same of the detailed modules.                                  *)
(***************************************************************************)
EXTENDS ApiProofs

-----------------------------------------------------------------------------
(* A request as each contract sees it. *)

Change(q) ==
  IF q.stage = "commit"
    THEN [of |-> q.target, to |-> q.row, insert |-> q.op = "create_user"]
    ELSE Directory!NoChange

Task(q) ==
  [op   |-> IF q.stage = "open" THEN "login"
            ELSE IF q.stage = "rotate" THEN "refresh"
            ELSE IF q.stage = "revoke" THEN "logout" ELSE "none",
   user |-> IF q.stage = "open" THEN q.target ELSE None,
   sid  |-> IF q.stage = "rotate" THEN q.sid
            ELSE IF q.stage = "revoke" THEN q.token.sid ELSE None]

LEMMA Views ==
  /\ Changes = [r \in Slots |-> Change(req[r])]
  /\ Changes' = [r \in Slots |-> Change(req'[r])]
  /\ Work = [r \in Slots |-> Task(req[r])]
  /\ Work' = [r \in Slots |-> Task(req'[r])]
  BY DEF Changes, Work, Change, Task, Directory!NoChange, Directory!Absent,
         Absent

LEMMA CommitChange ==
  ASSUME NEW q, q.stage = "commit"
  PROVE  \E insert \in BOOLEAN :
           /\ insert <=> q.op = "create_user"
           /\ Change(q) = [of |-> q.target, to |-> q.row, insert |-> insert]
  <1> DEFINE insert == q.op = "create_user"
  <1>1. Change(q) = [of |-> q.target, to |-> q.row, insert |-> insert]
    BY DEF Change
  <1>2. insert \in BOOLEAN /\ (insert <=> q.op = "create_user")
    OBVIOUS
  <1> HIDE DEF insert
  <1> QED BY <1>1, <1>2

LEMMA Untasked ==
  ASSUME NEW q, q.stage \notin {"open", "rotate", "revoke"}
  PROVE  Task(q) = Store!NoWork
  BY DEF Task, Store!NoWork

(* A step that is about r only. *)
LEMMA Replaced ==
  ASSUME Inv, NEW r \in Slots, NEW p, req' = [req EXCEPT ![r] = p]
  PROVE  /\ Changes' = [Changes EXCEPT ![r] = Change(p)]
         /\ Work' = [Work EXCEPT ![r] = Task(p)]
  <1>1. req' = [s \in Slots |-> IF s = r THEN p ELSE req[s]]
    BY DEF Inv, IInv, TypeOK
  <1>2. Changes' = [Changes EXCEPT ![r] = Change(p)]
    BY <1>1, Views
  <1>3. Work' = [Work EXCEPT ![r] = Task(p)]
    BY <1>1, Views
  <1> QED BY <1>2, <1>3

LEMMA NoChangeLeft ==
  ASSUME Inv, NEW r \in Slots, NEW p, p.stage # "commit",
         req' = [req EXCEPT ![r] = p], UNCHANGED <<users, stack>>
  PROVE  Directory!Drop(r)
  BY Replaced DEF Change, Directory!Drop

LEMMA NoWorkLeft ==
  ASSUME Inv, NEW r \in Slots, NEW p,
         p.stage \notin {"open", "rotate", "revoke"},
         req' = [req EXCEPT ![r] = p], UNCHANGED sessions
  PROVE  Store!Drop(r)
  <1>1. Task(p) = Store!NoWork
    BY Untasked
  <1>2. Work' = [Work EXCEPT ![r] = Task(p)]
    BY Replaced
  <1> QED BY <1>1, <1>2 DEF Store!Drop

LEMMA ReplyViews ==
  ASSUME Inv, NEW r \in Slots, NEW outcome, Reply(r, outcome)
  PROVE  Directory!Drop(r) /\ Store!Drop(r)
  BY NoChangeLeft, NoWorkLeft, IdleFacts DEF Reply

LEMMA ContinueViews ==
  ASSUME Inv, NEW r \in Slots, NEW p, Continue(r, p)
  PROVE  /\ p.stage # "commit" => Directory!Drop(r)
         /\ p.stage \notin {"open", "rotate", "revoke"} => Store!Drop(r)
  BY NoChangeLeft, NoWorkLeft DEF Continue

-----------------------------------------------------------------------------
(* Arrival: a logout is about to revoke a session from its first step on.  *)

LEMMA CallViews ==
  ASSUME Inv, NEW r \in Slots, NEW q, q.op \in Ops,
         q.stage \in {"authorise", "authenticate", "select", "revoke"},
         q.stage = "revoke" => q.op = "logout",
         Call(r, q)
  PROVE  /\ UNCHANGED Directory!vars
         /\ Store!Begin(r) \/ UNCHANGED Store!vars
  <1> DEFINE code == Rejection(q.op, q.input, Decodes(q.token))
  <1>1. /\ req[r] = Idle
        /\ UNCHANGED <<mix, stack, users, sessions, tokens>>
        /\ \/ code = 0 /\ req' = Joined(r, q)
           \/ code # 0 /\ UNCHANGED req
    BY DEF Call
  <1>2. code = 0 /\ q.stage = "revoke" => q.token \in tokens
    <2>1. Decodes(q.token) \in BOOLEAN
      BY DEF Decodes
    <2>2. code = 0 /\ ~Decodes(q.token) => q.op \in {"login", "refresh"}
      BY <2>1, Rejections
    <2> QED BY <2>2 DEF Decodes
  <1> HIDE DEF code
  <1>3. CASE code # 0
    <2>1. Changes' = Changes /\ Work' = Work
      BY <1>1, <1>3, Views
    <2> QED BY <1>1, <2>1 DEF Directory!vars, Store!vars
  <1>4. CASE code = 0
    <2>1. /\ \A s \in Slots \ {r} : req'[s] = [req[s] EXCEPT !.alone = FALSE]
          /\ req'[r] = q
      BY <1>1, <1>4 DEF Joined
    <2>2. ASSUME NEW s \in Slots \ {r}
          PROVE  Change(req'[s]) = Change(req[s]) /\ Task(req'[s]) = Task(req[s])
      <3> DEFINE old == req[s]
                 new == req'[s]
      <3>1. old \in Request /\ new = [old EXCEPT !.alone = FALSE]
        BY <2>1 DEF Inv, IInv, TypeOK
      <3>2. /\ new.stage = old.stage /\ new.op = old.op /\ new.row = old.row
            /\ new.target = old.target /\ new.sid = old.sid
            /\ new.token = old.token
        BY <3>1 DEF Request
      <3> HIDE DEF old, new
      <3>3. Change(new) = Change(old) /\ Task(new) = Task(old)
        BY <3>2 DEF Change, Task
      <3> QED BY <3>3 DEF old, new
    <2>3. Change(req'[r]) = Change(req[r])
      BY <1>1, <2>1, IdleFacts DEF Change
    <2>4. Changes' = Changes
      BY <2>2, <2>3, Views
    <2>5. Work' = [Work EXCEPT ![r] = Task(q)]
      BY <2>1, <2>2, Views
    <2>6. Work[r] = Store!NoWork
      BY <1>1, IdleFacts, Untasked, Views
    <2>7. CASE q.stage # "revoke"
      <3>1. Task(q) = Work[r]
        BY <2>6, <2>7, Untasked
      <3>2. Work' = Work
        BY <2>5, <3>1, Views
      <3> QED BY <1>1, <2>4, <3>2 DEF Directory!vars, Store!vars
    <2>8. CASE q.stage = "revoke"
      <3>1. /\ q.token.sid \in SessionIds
            /\ sessions[q.token.sid].state # "free"
        BY <1>2, <1>4, <2>8 DEF Inv, IInv, TypeOK, Owned, Claims
      <3>2. Task(q) = [op |-> "logout", user |-> None, sid |-> q.token.sid]
        BY <2>8 DEF Task
      <3>3. Store!Begin(r)
        BY <1>1, <2>5, <2>6, <3>1, <3>2 DEF Store!Begin
      <3> QED BY <1>1, <2>4, <3>3 DEF Directory!vars
    <2> QED BY <2>7, <2>8
  <1> QED BY <1>3, <1>4

LEMMA ArriveViews ==
  ASSUME Inv, NEW r \in Slots, Arrive(r)
  PROVE  UNCHANGED Directory!vars /\ (Store!Begin(r) \/ UNCHANGED Store!vars)
  <1> DEFINE Seen == /\ UNCHANGED Directory!vars
                     /\ Store!Begin(r) \/ UNCHANGED Store!vars
  <1>1. ASSUME NEW op \in UserOps, NEW token, NEW input, NEW target, NEW role,
               UserCall(r, op, token, input, target, role)
        PROVE  Seen
    <2> DEFINE q == [op |-> op, stage |-> "authorise", token |-> token,
                     input |-> input, target |-> target, sid |-> None,
                     role |-> role, row |-> Absent, alone |-> Alone(r),
                     dead |-> Revoked(token)]
    <2>1. Call(r, q)
      BY <1>1 DEF UserCall
    <2>2. q.op \in Ops /\ q.stage = "authorise"
      BY DEF Ops
    <2> HIDE DEF q
    <2> QED BY <2>1, <2>2, CallViews
  <1>2. CASE ArriveUsers(r)
    BY <1>1, <1>2 DEF ArriveUsers, UserOps
  <1>3. ASSUME NEW q, Call(r, q),
               \/ q.op = "login" /\ q.stage = "authenticate"
               \/ q.op = "refresh" /\ q.stage = "select"
               \/ q.op = "logout" /\ q.stage = "revoke"
        PROVE  Seen
    BY <1>3, CallViews DEF Ops
  <1>4. CASE ArriveLogin(r)
    <2>1. ASSUME NEW u, NEW alone
          PROVE  LET q == [Idle EXCEPT !.op = "login", !.stage = "authenticate",
                                       !.target = u, !.alone = alone]
                 IN  q.op = "login" /\ q.stage = "authenticate"
      BY DEF Idle
    <2>2. ASSUME NEW input, NEW alone
          PROVE  LET q == [Idle EXCEPT !.op = "login", !.stage = "authenticate",
                                       !.input = input, !.alone = alone]
                 IN  q.op = "login" /\ q.stage = "authenticate"
      BY DEF Idle
    <2> QED BY <1>3, <1>4, <2>1, <2>2 DEF ArriveLogin
  <1>5. CASE ArriveRefresh(r)
    <2>1. ASSUME NEW s, Call(r, [Idle EXCEPT !.op = "refresh", !.stage = "select",
                                   !.sid = s, !.alone = Alone(r),
                                   !.dead = sessions[s].state = "revoked"])
          PROVE  Seen
      <3> DEFINE q == [Idle EXCEPT !.op = "refresh", !.stage = "select",
                                   !.sid = s, !.alone = Alone(r),
                                   !.dead = sessions[s].state = "revoked"]
      <3>1. Call(r, q) /\ q.op = "refresh" /\ q.stage = "select"
        BY <2>1 DEF Idle
      <3> HIDE DEF q
      <3> QED BY <1>3, <3>1
    <2>2. ASSUME NEW input, NEW alone
          PROVE  LET q == [Idle EXCEPT !.op = "refresh", !.stage = "select",
                                       !.input = input, !.alone = alone]
                 IN  q.op = "refresh" /\ q.stage = "select"
      BY DEF Idle
    <2> QED BY <1>3, <1>5, <2>1, <2>2 DEF ArriveRefresh
  <1>6. CASE ArriveLogout(r)
    <2>1. ASSUME NEW token, Call(r, [Idle EXCEPT !.op = "logout", !.stage = "revoke",
                                       !.token = token, !.alone = Alone(r),
                                       !.dead = Revoked(token)])
          PROVE  Seen
      <3> DEFINE q == [Idle EXCEPT !.op = "logout", !.stage = "revoke",
                                   !.token = token, !.alone = Alone(r),
                                   !.dead = Revoked(token)]
      <3>1. Call(r, q) /\ q.op = "logout" /\ q.stage = "revoke"
        BY <2>1 DEF Idle
      <3> HIDE DEF q
      <3> QED BY <1>3, <3>1
    <2> QED BY <1>6, <2>1 DEF ArriveLogout
  <1> QED BY <1>2, <1>4, <1>5, <1>6 DEF Arrive

-----------------------------------------------------------------------------
(* Users: a use case reads a row and its change is committed later.        *)

LEMMA AccountsInit == Init => Directory!Init
  <1> SUFFICES ASSUME Init PROVE Directory!Init
    OBVIOUS
  <1>1. users \in [UserIds -> Directory!Account \cup {Directory!Absent}]
    BY DEF Init, Row, Absent, Directory!Account, Directory!Absent
  <1>2. Changes = [r \in Slots |-> Directory!NoChange]
    BY Views, IdleFacts DEF Init, Change
  <1>3. (stack = "drf") \in BOOLEAN
    OBVIOUS
  <1> QED BY <1>1, <1>2, <1>3 DEF Directory!Init

LEMMA CreateView ==
  ASSUME Inv, NEW r \in Slots, CreateUser(r)
  PROVE  Directory!Drop(r) \/ \E u \in UserIds : Directory!Make(r, u)
  <1> DEFINE q == req[r]
             row == [role |-> q.role, active |-> TRUE]
             p == [q EXCEPT !.stage = "commit", !.row = row]
  <1>1. q.stage = "run" /\ q.op = "create_user" /\ q \in Request
    BY DEF CreateUser, Runs, Inv, IInv, TypeOK
  <1>2. CASE \E outcome : Reply(r, outcome)
    BY <1>2, ReplyViews
  <1>3. CASE q.input = "good" /\ Continue(r, p)
    <2>1. q.target \in UserIds /\ q.role \in Roles
      BY <1>1, <1>3, RunFacts DEF RequestOK, Shape, Writers
    <2>2. ~Exists(q.target)
      BY <1>1, <2>1 DEF Inv, IInv, Inserts, Creates
    <2>3. Changes[r] = Directory!NoChange
      BY <1>1, Views DEF Change
    <2>4. /\ p.stage = "commit" /\ p.op = q.op /\ p.target = q.target
          /\ p.row = row
      BY <1>1 DEF Request
    <2>5. req' = [req EXCEPT ![r] = p] /\ UNCHANGED <<users, stack>>
      BY <1>3 DEF Continue
    <2> HIDE DEF p
    <2>6. Changes' = [Changes EXCEPT ![r] =
                        [of |-> q.target, to |-> row, insert |-> TRUE]]
      <3>1. PICK insert \in BOOLEAN :
              /\ insert <=> p.op = "create_user"
              /\ Change(p) = [of |-> p.target, to |-> p.row, insert |-> insert]
        BY <2>4, CommitChange
      <3>2. insert = TRUE
        BY <1>1, <2>4, <3>1
      <3>3. Changes' = [Changes EXCEPT ![r] = Change(p)]
        BY <2>5, Replaced
      <3>4. Change(p) = [of |-> q.target, to |-> row, insert |-> TRUE]
        BY <2>4, <3>1, <3>2
      <3> QED BY <3>3, <3>4
    <2>7. Directory!Make(r, q.target)
      BY <2>1, <2>2, <2>3, <2>5, <2>6 DEF Directory!Make, Directory!Exists, Exists
    <2> QED BY <2>1, <2>7
  <1> QED BY <1>2, <1>3 DEF CreateUser

(* A row was read and its copy changed as the contract allows.             *)
LEMMA EditView ==
  ASSUME Inv, NEW r \in Slots, req[r].stage = "run",
         req[r].op \in Writers \ {"create_user"},
         req[r].target \in UserIds, Exists(req[r].target),
         NEW row \in Directory!Edited(users[req[r].target]),
         Continue(r, [req[r] EXCEPT !.stage = "commit", !.row = row])
  PROVE  Directory!Edit(r, req[r].target)
  <1> DEFINE q == req[r]
             p == [q EXCEPT !.stage = "commit", !.row = row]
  <1>1. q \in Request
    BY DEF Inv, IInv, TypeOK
  <1>2. Changes[r] = Directory!NoChange
    BY Views DEF Change
  <1>3. /\ p.stage = "commit" /\ p.op = q.op /\ p.target = q.target
        /\ p.row = row
    BY <1>1 DEF Request
  <1>4. req' = [req EXCEPT ![r] = p] /\ UNCHANGED <<users, stack>>
    BY DEF Continue
  <1> HIDE DEF p
  <1>5. Changes' = [Changes EXCEPT ![r] =
                      [of |-> q.target, to |-> row, insert |-> FALSE]]
    <2>1. PICK insert \in BOOLEAN :
            /\ insert <=> p.op = "create_user"
            /\ Change(p) = [of |-> p.target, to |-> p.row, insert |-> insert]
      BY <1>3, CommitChange
    <2>2. insert = FALSE
      BY <1>3, <2>1
    <2>3. Changes' = [Changes EXCEPT ![r] = Change(p)]
      BY <1>4, Replaced
    <2>4. Change(p) = [of |-> q.target, to |-> row, insert |-> FALSE]
      BY <1>3, <2>1, <2>2
    <2> QED BY <2>3, <2>4
  <1> QED BY <1>2, <1>4, <1>5 DEF Directory!Edit, Directory!Exists, Exists

LEMMA ChangeView ==
  ASSUME Inv, NEW r \in Slots,
         UpdateUser(r) \/ ChangePassword(r) \/ DeleteUser(r)
  PROVE  Directory!Drop(r) \/ \E u \in UserIds : Directory!Edit(r, u)
  <1> DEFINE q == req[r]
             old == users[q.target]
  <1>1. q.stage = "run" /\ q.op \in Writers \ {"create_user"} /\ q \in Request
    BY DEF UpdateUser, ChangePassword, DeleteUser, Runs, Writers, Inv, IInv,
           TypeOK
  <1>2. q.input = "good" \/ q.op = "delete_user" => q.target \in UserIds
    BY <1>1, RunFacts DEF RequestOK, Shape
  <1>3. CASE \E outcome : Reply(r, outcome)
    BY <1>3, ReplyViews
  <1>4. CASE UpdateUser(r)
    <2> DEFINE row == IF q.role = None THEN old
                                       ELSE [old EXCEPT !.role = q.role]
    <2>1. SUFFICES ASSUME q.input = "good", Exists(q.target),
                          Continue(r, [q EXCEPT !.stage = "commit", !.row = row])
                   PROVE  Directory!Edit(r, q.target)
      BY <1>2, <1>3, <1>4 DEF UpdateUser
    <2>2. row \in Directory!Edited(old)
      BY <1>1 DEF Directory!Edited, Request
    <2> HIDE DEF row
    <2> QED BY <1>1, <1>2, <2>1, <2>2, EditView
  <1>5. CASE ChangePassword(r)
    <2>1. SUFFICES ASSUME q.input = "good", Exists(q.target),
                          Continue(r, [q EXCEPT !.stage = "commit", !.row = old])
                   PROVE  Directory!Edit(r, q.target)
      BY <1>2, <1>3, <1>5 DEF ChangePassword
    <2>2. old \in Directory!Edited(old)
      BY DEF Directory!Edited
    <2> QED BY <1>1, <1>2, <2>1, <2>2, EditView
  <1>6. CASE DeleteUser(r)
    <2> DEFINE row == [old EXCEPT !.active = FALSE]
    <2>1. q.target \in UserIds
      BY <1>2, <1>6 DEF DeleteUser, Runs
    <2>2. SUFFICES ASSUME Exists(q.target),
                          Continue(r, [q EXCEPT !.stage = "commit", !.row = row])
                   PROVE  Directory!Edit(r, q.target)
      BY <1>3, <1>6, <2>1 DEF DeleteUser
    <2>3. row \in Directory!Edited(old)
      BY DEF Directory!Edited
    <2> HIDE DEF row
    <2> QED BY <1>1, <2>1, <2>2, <2>3, EditView
  <1> QED BY <1>4, <1>5, <1>6

LEMMA CommitView ==
  ASSUME Inv, NEW r \in Slots, Commit(r)
  PROVE  Directory!Write(r)
  <1> DEFINE q == req[r]
             c == Changes[r]
  <1>1. PICK row \in Directory!Written(users[q.target], q.row,
                        q.op = "create_user" \/ stack = "drf") :
          /\ users' = [users EXCEPT ![q.target] = row]
          /\ q.stage = "commit" /\ req' = [req EXCEPT ![r] = Idle]
          /\ UNCHANGED stack
    BY DEF Commit
  <1>2. q.target \in UserIds /\ (q.op = "create_user" <=> ~Exists(q.target))
    BY <1>1, CommitFacts
  <1>3. c = Change(q)
    BY Views
  <1>4. PICK insert \in BOOLEAN :
          /\ insert <=> q.op = "create_user"
          /\ Change(q) = [of |-> q.target, to |-> q.row, insert |-> insert]
    BY <1>1, CommitChange
  <1>5. /\ c.of = q.target /\ c.to = q.row /\ c.insert = insert
        /\ c # Directory!NoChange
    BY <1>2, <1>3, <1>4, ApiAssumption DEF Directory!NoChange
  <1>6. Changes' = [Changes EXCEPT ![r] = Directory!NoChange]
    BY <1>1, Replaced, IdleFacts DEF Change
  <1>7. Directory!Exists(q.target) <=> Exists(q.target)
    BY DEF Directory!Exists, Exists
  <1>8. row \in Directory!Written(users[q.target], q.row,
                                  insert \/ stack = "drf")
    BY <1>1, <1>4 DEF Directory!Written
  <1> HIDE DEF c
  <1>9. row \in Directory!Written(users[c.of], c.to, c.insert \/ stack = "drf")
    BY <1>5, <1>8 DEF Directory!Written
  <1>10. IF c.insert THEN ~Directory!Exists(c.of) ELSE Directory!Exists(c.of)
    BY <1>2, <1>4, <1>5, <1>7
  <1> QED BY <1>1, <1>5, <1>6, <1>9, <1>10 DEF Directory!Write, c

LEMMA AccountsStep ==
  ASSUME Inv, [Next]_vars
  PROVE  [Directory!Next]_(Directory!vars)
  <1>1. ASSUME NEW r \in Slots, Arrive(r)
        PROVE  UNCHANGED Directory!vars
    BY <1>1, ArriveViews
  <1>2. ASSUME NEW r \in Slots, UseCase(r)
        PROVE  Directory!Next
    <2>1. CASE \E outcome : Reply(r, outcome)
      BY <2>1, ReplyViews DEF Directory!Next
    <2>2. CASE CreateUser(r)
      BY <2>2, CreateView DEF Directory!Next
    <2>3. CASE UpdateUser(r) \/ ChangePassword(r) \/ DeleteUser(r)
      BY <2>3, ChangeView DEF Directory!Next
    <2>4. CASE Commit(r)
      BY <2>4, CommitView DEF Directory!Next
    <2>5. ASSUME NEW stage \in {"again", "run"},
                 Continue(r, [req[r] EXCEPT !.stage = stage])
          PROVE  Directory!Drop(r)
      <3>1. [req[r] EXCEPT !.stage = stage].stage = stage
        BY DEF Inv, IInv, TypeOK, Request
      <3> QED BY <2>5, <3>1, ContinueViews
    <2> QED BY <1>2, <2>1, <2>2, <2>3, <2>4, <2>5
            DEF UseCase, Authorise, Again, GetAllUsers, GetUser, Lose,
                Directory!Next
  <1>3. ASSUME NEW r \in Slots, AuthHandler(r)
        PROVE  Directory!Next
    <2>1. CASE \E outcome : Reply(r, outcome)
      BY <2>1, ReplyViews DEF Directory!Next
    <2>2. CASE Open(r) \/ Rotate(r) \/ Revoke(r)
      <3>1. req' = [req EXCEPT ![r] = Idle] /\ UNCHANGED <<users, stack>>
        BY <2>2 DEF Open, Rotate, Revoke
      <3> QED BY <3>1, NoChangeLeft, IdleFacts DEF Directory!Next
    <2>3. ASSUME NEW stage \in {"open", "rotate"}, NEW target, NEW row,
                 Continue(r, [req[r] EXCEPT !.stage = stage, !.target = target,
                                            !.row = row])
          PROVE  Directory!Drop(r)
      <3>1. [req[r] EXCEPT !.stage = stage, !.target = target,
                           !.row = row].stage = stage
        BY DEF Inv, IInv, TypeOK, Request
      <3> QED BY <2>3, <3>1, ContinueViews
    <2>4. ASSUME NEW row, Continue(r, [req[r] EXCEPT !.stage = "open", !.row = row])
          PROVE  Directory!Drop(r)
      <3>1. [req[r] EXCEPT !.stage = "open", !.row = row].stage = "open"
        BY DEF Inv, IInv, TypeOK, Request
      <3> QED BY <2>4, <3>1, ContinueViews
    <2> QED BY <1>3, <2>1, <2>2, <2>3, <2>4
            DEF AuthHandler, Authenticate, Select, Directory!Next
  <1>4. ASSUME NEW r \in Slots, Abort(r)
        PROVE  Directory!Next
    BY <1>4, ContinueViews, IdleFacts DEF Abort, Directory!Next
  <1>5. CASE ExpireSessions
    <2>1. \A r \in Slots : Change(req'[r]) = Change(req[r])
      <3> TAKE r \in Slots
      <3>1. req[r] \in Request /\ req'[r] = [req[r] EXCEPT !.alone = FALSE]
        BY <1>5 DEF ExpireSessions, Inv, IInv, TypeOK
      <3>2. /\ req'[r].stage = req[r].stage /\ req'[r].op = req[r].op
            /\ req'[r].target = req[r].target /\ req'[r].row = req[r].row
        BY <3>1 DEF Request
      <3> QED BY <3>2 DEF Change
    <2>2. Changes' = Changes
      BY <2>1, Views
    <2> QED BY <1>5, <2>2 DEF ExpireSessions, Directory!vars
  <1>6. CASE UNCHANGED vars
    <2>1. Changes' = Changes
      BY <1>6, Views DEF vars
    <2> QED BY <1>6, <2>1 DEF vars, Directory!vars
  <1> QED BY <1>1, <1>2, <1>3, <1>4, <1>5, <1>6 DEF Next

(* Whatever the requests interleave, the rows of users are changed only as *)
(* Accounts.tla says: by copies that were read before and edited.          *)
THEOREM AccountsImplemented == Spec => ImplementsAccounts
  BY InvHolds, AccountsInit, AccountsStep, PTL
  DEF Spec, ImplementsAccounts, Directory!Spec

-----------------------------------------------------------------------------
(* Sessions: a handler finds one, and opens, renews or revokes one later.  *)

LEMMA StandingInit == Init => Store!Init
  <1> SUFFICES ASSUME Init PROVE Store!Init
    OBVIOUS
  <1>1. Work = [r \in Slots |-> Store!NoWork]
    BY Views, Untasked, IdleFacts DEF Init
  <1> QED BY <1>1 DEF Init, Store!Init, Store!Free

LEMMA AuthenticateView ==
  ASSUME Inv, NEW r \in Slots, Authenticate(r)
  PROVE  Store!Drop(r) \/ Store!Begin(r)
  <1> DEFINE q == req[r]
             row == users[q.target]
             p == [q EXCEPT !.stage = "open", !.row = row]
  <1>1. q.stage = "authenticate" /\ q \in Request
    BY DEF Authenticate, Inv, IInv, TypeOK
  <1>2. CASE Reply(r, "unauthorized")
    BY <1>2, ReplyViews
  <1>3. CASE q.input = "good" /\ Continue(r, p)
    <2>1. q.target \in UserIds
      BY <1>1, <1>3, AuthFacts DEF RequestOK, Shape
    <2>2. p.stage = "open" /\ p.target = q.target
      BY <1>1 DEF Request
    <2>3. req' = [req EXCEPT ![r] = p] /\ UNCHANGED sessions
      BY <1>3 DEF Continue
    <2> HIDE DEF p
    <2>4. Work[r] = Store!NoWork
      BY <1>1, Views, Untasked
    <2>5. Work' = [Work EXCEPT ![r] = Task(p)]
      BY <2>3, Replaced
    <2>6. Task(p) = [op |-> "login", user |-> q.target, sid |-> None]
      BY <2>2 DEF Task
    <2> QED BY <2>1, <2>3, <2>4, <2>5, <2>6 DEF Store!Begin
  <1> QED BY <1>2, <1>3 DEF Authenticate

LEMMA SelectView ==
  ASSUME Inv, NEW r \in Slots, Select(r)
  PROVE  Store!Drop(r) \/ Store!Begin(r)
  <1> DEFINE q == req[r]
             owner == sessions[q.sid].user
             row == users[owner]
             p == [q EXCEPT !.stage = "rotate", !.target = owner, !.row = row]
  <1>1. q.stage = "select" /\ q \in Request
    BY DEF Select, Inv, IInv, TypeOK
  <1>2. CASE Reply(r, "unauthorized")
    BY <1>2, ReplyViews
  <1>3. CASE q.input = "good" /\ Refreshable(q.sid) /\ Continue(r, p)
    <2>1. q.sid \in Store!Live
      BY <1>1, <1>3, AuthFacts
      DEF RequestOK, Shape, Refreshable, Store!Live
    <2>2. p.stage = "rotate" /\ p.sid = q.sid
      BY <1>1 DEF Request
    <2>3. req' = [req EXCEPT ![r] = p] /\ UNCHANGED sessions
      BY <1>3 DEF Continue
    <2> HIDE DEF p
    <2>4. Work[r] = Store!NoWork
      BY <1>1, Views, Untasked
    <2>5. Work' = [Work EXCEPT ![r] = Task(p)]
      BY <2>3, Replaced
    <2>6. Task(p) = [op |-> "refresh", user |-> None, sid |-> q.sid]
      BY <2>2 DEF Task
    <2> QED BY <2>1, <2>3, <2>4, <2>5, <2>6 DEF Store!Begin
  <1> QED BY <1>2, <1>3 DEF Select

LEMMA HandlerView ==
  ASSUME Inv, NEW r \in Slots, Open(r) \/ Rotate(r) \/ Revoke(r)
  PROVE  Store!Finish(r)
  <1> DEFINE q == req[r]
  <1>1. Work[r] = Task(q)
    BY Views
  <1>2. Work' = [Work EXCEPT ![r] = Store!NoWork]
    <2>1. req' = [req EXCEPT ![r] = Idle]
      BY DEF Open, Rotate, Revoke
    <2>2. Task(Idle) = Store!NoWork
      BY IdleFacts, Untasked
    <2> QED BY <2>1, <2>2, Replaced
  <1>3. CASE Open(r)
    <2>1. Work[r].op = "login" /\ Work[r].user = q.target
      BY <1>1, <1>3 DEF Open, Task
    <2> QED BY <1>2, <1>3, <2>1 DEF Open, Store!Finish
  <1>4. CASE Rotate(r)
    <2>1. Work[r].op = "refresh" /\ Work[r].sid = q.sid
      BY <1>1, <1>4 DEF Rotate, Task
    <2> QED BY <1>2, <1>4, <2>1 DEF Rotate, Store!Finish
  <1>5. CASE Revoke(r)
    <2>1. Work[r].op = "logout" /\ Work[r].sid = q.token.sid
      BY <1>1, <1>5 DEF Revoke, Task
    <2> QED BY <1>2, <1>5, <2>1 DEF Revoke, Store!Finish
  <1> QED BY <1>3, <1>4, <1>5

LEMMA StandingStep ==
  ASSUME Inv, [Next]_vars
  PROVE  [Store!Next]_(Store!vars)
  <1>1. ASSUME NEW r \in Slots, Arrive(r)
        PROVE  Store!Next \/ UNCHANGED Store!vars
    BY <1>1, ArriveViews DEF Store!Next
  <1>2. ASSUME NEW r \in Slots, UseCase(r)
        PROVE  Store!Next
    <2>1. CASE \E outcome : Reply(r, outcome)
      BY <2>1, ReplyViews DEF Store!Next
    <2>2. CASE Commit(r)
      <3>1. req' = [req EXCEPT ![r] = Idle] /\ UNCHANGED sessions
        BY <2>2 DEF Commit
      <3> QED BY <3>1, NoWorkLeft, IdleFacts DEF Store!Next
    <2>3. ASSUME NEW stage \in {"again", "run"},
                 Continue(r, [req[r] EXCEPT !.stage = stage])
          PROVE  Store!Drop(r)
      <3>1. [req[r] EXCEPT !.stage = stage].stage = stage
        BY DEF Inv, IInv, TypeOK, Request
      <3> QED BY <2>3, <3>1, ContinueViews
    <2>4. ASSUME NEW row, Continue(r, [req[r] EXCEPT !.stage = "commit", !.row = row])
          PROVE  Store!Drop(r)
      <3>1. [req[r] EXCEPT !.stage = "commit", !.row = row].stage = "commit"
        BY DEF Inv, IInv, TypeOK, Request
      <3> QED BY <2>4, <3>1, ContinueViews
    <2>5. Store!Drop(r) => Store!Next
      BY DEF Store!Next
    <2>6. CASE Authorise(r) \/ Again(r) \/ GetAllUsers(r) \/ GetUser(r) \/ Lose(r)
      BY <2>1, <2>3, <2>5, <2>6
      DEF Authorise, Again, GetAllUsers, GetUser, Lose
    <2>7. CASE CreateUser(r) \/ UpdateUser(r) \/ ChangePassword(r) \/ DeleteUser(r)
      <3> DEFINE Goes == \/ \E outcome : Reply(r, outcome)
                         \/ \E row : Continue(r, [req[r] EXCEPT !.stage = "commit",
                                                              !.row = row])
      <3>1. CreateUser(r) => Goes
        BY DEF CreateUser
      <3>2. UpdateUser(r) => Goes
        BY DEF UpdateUser
      <3>3. ChangePassword(r) => Goes
        BY DEF ChangePassword
      <3>4. DeleteUser(r) => Goes
        BY DEF DeleteUser
      <3> QED BY <2>1, <2>4, <2>5, <2>7, <3>1, <3>2, <3>3, <3>4
    <2> QED BY <1>2, <2>2, <2>6, <2>7 DEF UseCase
  <1>3. ASSUME NEW r \in Slots, AuthHandler(r)
        PROVE  Store!Next
    BY <1>3, AuthenticateView, SelectView, HandlerView
    DEF AuthHandler, Store!Next
  <1>4. ASSUME NEW r \in Slots, Abort(r)
        PROVE  Store!Next
    BY <1>4, ContinueViews, IdleFacts DEF Abort, Store!Next
  <1>5. CASE ExpireSessions
    <2>1. \A r \in Slots : Task(req'[r]) = Task(req[r])
      <3> TAKE r \in Slots
      <3>1. req[r] \in Request /\ req'[r] = [req[r] EXCEPT !.alone = FALSE]
        BY <1>5 DEF ExpireSessions, Inv, IInv, TypeOK
      <3>2. /\ req'[r].stage = req[r].stage /\ req'[r].target = req[r].target
            /\ req'[r].sid = req[r].sid /\ req'[r].token = req[r].token
        BY <3>1 DEF Request
      <3> QED BY <3>2 DEF Task
    <2>2. Work' = Work
      BY <2>1, Views
    <2>3. Store!Expire
      BY <1>5, <2>2 DEF ExpireSessions, Store!Expire
    <2> QED BY <2>3 DEF Store!Next
  <1>6. CASE UNCHANGED vars
    <2>1. Work' = Work
      BY <1>6, Views DEF vars
    <2> QED BY <1>6, <2>1 DEF vars, Store!vars
  <1> QED BY <1>1, <1>2, <1>3, <1>4, <1>5, <1>6 DEF Next

(* Whatever the requests interleave, sessions are opened, renewed and      *)
(* revoked only as Standing.tla says: by requests that found them so.      *)
THEOREM StandingImplemented == Spec => ImplementsStanding
  BY InvHolds, StandingInit, StandingStep, PTL
  DEF Spec, ImplementsStanding, Store!Spec
=============================================================================
