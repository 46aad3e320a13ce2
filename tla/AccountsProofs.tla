----------------------------- MODULE AccountsProofs ----------------------------
(***************************************************************************)
(* Users.tla keeps the contract of Accounts.tla, on either stack and for   *)
(* any number of users, names and requests: what a request writes of the   *)
(* role and is_active of a user is a copy of the row it read, edited as    *)
(* its use case may, or some columns of that copy.                         *)
(***************************************************************************)
EXTENDS UsersProofs

(* A creation has asked for its row; nothing asks for an active user or    *)
(* for a role and a deactivation at once.                                  *)
Asks(q) ==
  IF q.op = "create" THEN q.asked = q.row
  ELSE \/ q.asked.active = None
       \/ q.asked.active = FALSE /\ q.asked.role = None

AskInv == \A r \in Slots : Asks(req[r])

-----------------------------------------------------------------------------
(* What a request asks for never changes.                                  *)

LEMMA IdleAsks == Asks(Idle)
  BY DEF Asks, Idle, Nothing

LEMMA KeepsAsking ==
  ASSUME NEW q \in Request, Asks(q), NEW x \in Request,
         x.op = q.op, x.asked = q.asked, q.op = "create" => x.row = q.row
  PROVE  Asks(x)
  BY DEF Asks

LEMMA ArriveAsks ==
  ASSUME NEW r \in Slots, NEW a \in UserIds, Arrive(r, a)
  PROVE  \E x : req' = [req EXCEPT ![r] = x] /\ Asks(x)
  <1>1. CASE Create(r)
    <2>1. PICK u \in FreshIds, n \in Names, p \in Passwords, g \in AskedRoles :
            req' = [req EXCEPT ![r] =
              [op |-> "create", pc |-> "unique", actor |-> None, target |-> u,
               asked |-> [name |-> n, pw |-> p, role |-> g, active |-> TRUE],
               row |-> [name |-> n, pw |-> p, role |-> g, active |-> TRUE],
               cols |-> Cols]]
      BY <1>1 DEF Create
    <2> DEFINE new == [name |-> n, pw |-> p, role |-> g, active |-> TRUE]
               x == [op |-> "create", pc |-> "unique", actor |-> None,
                     target |-> u, asked |-> new, row |-> new, cols |-> Cols]
    <2>2. Asks(x)
      BY DEF Asks
    <2> QED BY <2>1, <2>2
  <1>2. CASE Update(r)
    <2>1. PICK u \in UserIds, n \in Names \cup {None},
               g \in AskedRoles \cup {None} :
            req' = [req EXCEPT ![r] =
              [op |-> "update", pc |-> "load", actor |-> None, target |-> u,
               asked |-> [Nothing EXCEPT !.name = n, !.role = g],
               row |-> Absent, cols |-> {}]]
      BY <1>2 DEF Update
    <2> DEFINE x == [op |-> "update", pc |-> "load", actor |-> None,
                     target |-> u,
                     asked |-> [Nothing EXCEPT !.name = n, !.role = g],
                     row |-> Absent, cols |-> {}]
    <2>2. x.op = "update" /\ x.asked.active = None
      BY DEF Nothing
    <2> HIDE DEF x
    <2>3. Asks(x)
      BY <2>2 DEF Asks
    <2> QED BY <2>1, <2>3 DEF x
  <1>3. CASE ChangePassword(r)
    <2>1. PICK u \in UserIds, p \in Passwords :
            req' = [req EXCEPT ![r] =
              [op |-> "chpass", pc |-> "load", actor |-> None, target |-> u,
               asked |-> [Nothing EXCEPT !.pw = p],
               row |-> Absent, cols |-> {}]]
      BY <1>3 DEF ChangePassword
    <2> DEFINE x == [op |-> "chpass", pc |-> "load", actor |-> None,
                     target |-> u, asked |-> [Nothing EXCEPT !.pw = p],
                     row |-> Absent, cols |-> {}]
    <2>2. Asks(x)
      BY DEF Asks, Nothing
    <2> QED BY <2>1, <2>2
  <1>4. CASE Delete(r, a)
    <2>1. PICK u \in UserIds :
            req' = [req EXCEPT ![r] =
              [op |-> "delete", pc |-> "again", actor |-> a, target |-> u,
               asked |-> [Nothing EXCEPT !.active = FALSE],
               row |-> Absent, cols |-> {}]]
      BY <1>4 DEF Delete
    <2> DEFINE x == [op |-> "delete", pc |-> "again", actor |-> a,
                     target |-> u, asked |-> [Nothing EXCEPT !.active = FALSE],
                     row |-> Absent, cols |-> {}]
    <2>2. Asks(x)
      BY DEF Asks, Nothing
    <2> QED BY <2>1, <2>2
  <1> QED BY <1>1, <1>2, <1>3, <1>4 DEF Arrive

(* What the use cases make of a request that was not just accepted: it is  *)
(* over, or it is the same one further on; Turned says with which entity.  *)
Turned(q, own) ==
  [q EXCEPT !.row = Overlay(own, q.asked, AskedCols(q)),
            !.cols = IF Backend = "django" THEN Cols ELSE {},
            !.pc = IF Backend = "django" THEN "flush" ELSE "save"]

LEMMA ChangedIs ==
  ASSUME NEW q, NEW own
  PROVE  Changed(q, own) = Idle \/ Changed(q, own) = Turned(q, own)
  BY DEF Changed, Turned

LEMMA TurnedFacts ==
  ASSUME NEW q \in Request, NEW own \in FullRow
  PROVE  /\ Turned(q, own) \in Request
         /\ Turned(q, own).op = q.op /\ Turned(q, own).asked = q.asked
         /\ Turned(q, own).target = q.target
         /\ Turned(q, own).row = Overlay(own, q.asked, AskedCols(q))
         /\ Turned(q, own).pc \in {"save", "flush"}
  <1>1. Overlay(own, q.asked, AskedCols(q)) \in Row
    BY OverlayAsked, RowFacts DEF Request
  <1> QED BY <1>1 DEF Turned, Request

(* Every step that is not an arrival keeps what its request asks for.      *)
LEMMA AdvanceAsks ==
  ASSUME IInv, AskInv, NEW r \in Slots, Advance(r)
  PROVE  \E x : req' = [req EXCEPT ![r] = x] /\ Asks(x)
  <1> DEFINE q == req[r]
             Good(x) == req' = [req EXCEPT ![r] = x] /\ Asks(x)
  <1>1. q \in Request /\ Asks(q)
    BY DEF IInv, TypeOK, AskInv
  <1>2. ASSUME NEW own \in FullRow, ~Creates(r)
        PROVE  Asks(Changed(q, own))
    <2>1. Asks(Turned(q, own))
      BY <1>1, <1>2, TurnedFacts, KeepsAsking DEF Creates
    <2> QED BY <2>1, ChangedIs, IdleAsks
  <1>3. CASE req' = [req EXCEPT ![r] = Idle]
    BY <1>3, IdleAsks
  <1>4. CASE AuthenticateAgain(r)
    <2> DEFINE x == [q EXCEPT !.pc = "load", !.actor = None]
    <2>1. req' = [req EXCEPT ![r] = Idle] \/ req' = [req EXCEPT ![r] = x]
      BY <1>4 DEF AuthenticateAgain
    <2>2. x \in Request /\ x.op = q.op /\ x.asked = q.asked /\ x.row = q.row
      BY <1>1 DEF Request
    <2> HIDE DEF x
    <2>3. Asks(x)
      BY <1>1, <2>2, KeepsAsking
    <2> QED BY <1>3, <2>1, <2>3
  <1>5. CASE Load(r)
    <2> DEFINE own == users[q.target]
               x == [q EXCEPT !.pc = "unique", !.row = own]
    <2>1. ~Creates(r) /\ q.target \in UserIds
      BY <1>1, <1>5 DEF Load, IInv, SlotInv, Creates, Loaded
    <2>2. Exists(q.target) => own \in FullRow
      BY <2>1, RowFacts DEF IInv, RowInv, Exists
    <2>3. \/ req' = [req EXCEPT ![r] = Idle]
          \/ Exists(q.target) /\ req' = [req EXCEPT ![r] = x]
          \/ Exists(q.target) /\ req' = [req EXCEPT ![r] = Changed(q, own)]
      BY <1>5 DEF Load
    <2>4. ASSUME Exists(q.target) PROVE Asks(x)
      <3>1. x \in Request /\ x.op = q.op /\ x.asked = q.asked
        BY <1>1, <2>2, <2>4, RowFacts DEF Request
      <3> HIDE DEF x
      <3> QED BY <1>1, <2>1, <3>1, KeepsAsking DEF Creates
    <2> QED BY <1>2, <1>3, <2>1, <2>2, <2>3, <2>4
  <1>6. CASE Unique(r)
    <2> DEFINE x == [q EXCEPT !.pc = "key"]
    <2>1. \/ req' = [req EXCEPT ![r] = Idle]
          \/ req' = [req EXCEPT ![r] = x]
          \/ ~Creates(r) /\ req' = [req EXCEPT ![r] = Changed(q, q.row)]
      BY <1>6 DEF Unique, Creates
    <2>2. x \in Request /\ x.op = q.op /\ x.asked = q.asked /\ x.row = q.row
      BY <1>1 DEF Request
    <2> HIDE DEF x
    <2>3. Asks(x)
      BY <1>1, <2>2, KeepsAsking
    <2>4. q.row \in FullRow
      BY <1>6 DEF Unique, IInv, SlotInv, Loaded
    <2> QED BY <1>2, <1>3, <2>1, <2>3, <2>4
  <1>7. CASE Save(r)
    <2>1. PICK cols \in {AskedCols(q), Differing(users[q.target], q.row)} :
            req' = [req EXCEPT ![r].cols = cols,
                               ![r].pc = IF cols = {} THEN "commit" ELSE "flush"]
      BY <1>7 DEF Save
    <2> DEFINE pc == IF cols = {} THEN "commit" ELSE "flush"
               x == [q EXCEPT !.cols = cols, !.pc = pc]
    <2>2. req' = [req EXCEPT ![r] = x]
      BY <2>1 DEF IInv, TypeOK
    <2>3. cols \in SUBSET Cols /\ pc \in {"commit", "flush"}
      BY DEF AskedCols, Differing
    <2>4. x \in Request /\ x.op = q.op /\ x.asked = q.asked /\ x.row = q.row
      BY <1>1, <2>3 DEF Request
    <2> HIDE DEF x
    <2> QED BY <1>1, <2>2, <2>4, KeepsAsking
  <1>8. CASE Flush(r) \/ KeyFree(r)
    <2>1. PICK pc \in {"key", "commit"} :
            req' = [req EXCEPT ![r] = [q EXCEPT !.pc = pc]]
      BY <1>8 DEF Flush, KeyFree, IInv, TypeOK
    <2> DEFINE x == [q EXCEPT !.pc = pc]
    <2>2. x \in Request /\ x.op = q.op /\ x.asked = q.asked /\ x.row = q.row
      BY <1>1 DEF Request
    <2> HIDE DEF x
    <2>3. Asks(x)
      BY <1>1, <2>2, KeepsAsking
    <2> QED BY <2>1, <2>3 DEF x
  <1>9. CASE KeyTaken(r) \/ Commit(r)
    BY <1>3, <1>9 DEF KeyTaken, Commit
  <1> QED BY <1>4, <1>5, <1>6, <1>7, <1>8, <1>9 DEF Advance

LEMMA AskStep == ASSUME IInv, AskInv, [Next]_vars PROVE AskInv'
  <1>1. ASSUME NEW r \in Slots, NEW x, req' = [req EXCEPT ![r] = x], Asks(x)
        PROVE  AskInv'
    BY <1>1 DEF IInv, TypeOK, AskInv
  <1>2. ASSUME NEW r \in Slots, NEW a \in UserIds, Arrive(r, a)
        PROVE  AskInv'
    BY <1>1, <1>2, ArriveAsks
  <1>3. ASSUME NEW r \in Slots, Advance(r) PROVE AskInv'
    BY <1>1, <1>3, AdvanceAsks
  <1>4. ASSUME NEW r \in Slots, Abort(r) \/ DeadlockVictim(r) PROVE AskInv'
    BY <1>1, <1>4, IdleAsks DEF Abort, DeadlockVictim
  <1>5. CASE req' = req
    BY <1>5 DEF AskInv
  <1> QED BY <1>2, <1>3, <1>4, <1>5
          DEF Next, Refuse, StartSession, EndSession, vars

-----------------------------------------------------------------------------
(* Rows and changes as the contract sees them.                             *)

Early == {"idle", "again", "load"}

LEMMA Existence ==
  ASSUME IInv, NEW u \in UserIds
  PROVE  /\ Shared!Exists(u) <=> Exists(u)
         /\ Exists(u) => users[u] \in FullRow
  <1>1. users[u] \in FullRow \/ users[u] = Absent
    BY DEF IInv, RowInv
  <1>2. users[u] \in FullRow => users[u].role # None
    BY UsersAssumption DEF FullRow, Directory!FullRow, Roles
  <1>3. Absent.role = None
    BY DEF Absent
  <1> QED BY <1>1, <1>2, <1>3, RowFacts DEF Shared!Exists, AccountOf, Exists

Changes == [r \in Slots |-> ChangeOf(req[r])]

LEMMA Views ==
  /\ Changes = [r \in Slots |-> ChangeOf(req[r])]
  /\ Changes' = [r \in Slots |-> ChangeOf(req'[r])]
  /\ \A u \in UserIds : AccountOf(users[u])' = AccountOf(users'[u])
  BY DEF Changes, ChangeOf, AccountOf, Entity, AskedCols

(* A step that is about r only. *)
LEMMA Replaced ==
  ASSUME IInv, NEW r \in Slots, NEW x, req' = [req EXCEPT ![r] = x]
  PROVE  Changes' = [Changes EXCEPT ![r] = ChangeOf(x)]
  <1>1. req' = [s \in Slots |-> IF s = r THEN x ELSE req[s]]
    BY DEF IInv, TypeOK
  <1> QED BY <1>1, Views

LEMMA EarlyChange ==
  ASSUME NEW q, q.pc \in Early
  PROVE  ChangeOf(q) = Shared!NoChange
  BY DEF ChangeOf, Early, Shared!NoChange, Shared!Absent, AccountOf, Absent

(* A step that writes nothing and moves r on to x. *)
LEMMA MovesOn ==
  ASSUME IInv, NEW r \in Slots, NEW x, req' = [req EXCEPT ![r] = x],
         users' = users
  PROVE  /\ x.pc \in Early => Shared!Drop(r)
         /\ ChangeOf(x) = ChangeOf(req[r]) => UNCHANGED Shared!vars
  <1>1. Changes' = [Changes EXCEPT ![r] = ChangeOf(x)]
    BY Replaced
  <1>2. ASSUME x.pc \in Early PROVE Shared!Drop(r)
    <2>1. ChangeOf(x) = Shared!NoChange
      BY <1>2, EarlyChange
    <2> QED BY <1>1, <2>1, Views DEF Shared!Drop, Changes
  <1>3. ASSUME ChangeOf(x) = ChangeOf(req[r]) PROVE UNCHANGED Shared!vars
    <2>1. Changes' = Changes
      BY <1>1, <1>3, Views
    <2> QED BY <2>1, Views DEF Shared!vars, Changes
  <1> QED BY <1>2, <1>3

LEMMA ReplacedActive ==
  ASSUME NEW g, NEW b, NEW c
  PROVE  [[role |-> g, active |-> b] EXCEPT !.active = c]
           = [role |-> g, active |-> c]
  OBVIOUS

(* The edited copy of a row, as the contract has it. *)
LEMMA EditedCopy ==
  ASSUME NEW q \in Request, Asks(q), q.op # "create", NEW own \in FullRow
  PROVE  AccountOf(Overlay(own, q.asked, AskedCols(q)))
           \in Shared!Edited(AccountOf(own))
  <1> DEFINE w == q.asked
             new == Overlay(own, w, AskedCols(q))
             row == AccountOf(own)
  <1>1. /\ new.role = IF w.role # None THEN w.role ELSE own.role
        /\ new.active = IF w.active # None THEN w.active ELSE own.active
    BY DEF Overlay, AskedCols, Cols
  <1>2. w.role \in Roles \cup {None}
    BY DEF Request, Asked
  <1>3. CASE w.active = None
    <2>1. new.active = own.active
      BY <1>1, <1>3
    <2>2. CASE w.role = None
      <3>1. AccountOf(new) = row
        BY <1>1, <2>1, <2>2 DEF AccountOf
      <3> QED BY <3>1 DEF Shared!Edited
    <2>3. CASE w.role # None
      <3>1. AccountOf(new) = [row EXCEPT !.role = w.role]
        BY <1>1, <2>1, <2>3 DEF AccountOf
      <3> QED BY <1>2, <2>3, <3>1 DEF Shared!Edited
    <2> QED BY <2>2, <2>3
  <1>4. CASE w.active = FALSE /\ w.role = None
    <2>1. FALSE # None
      BY UsersAssumption
    <2>2. w.active # None
      BY <1>4, <2>1
    <2>3. new.active = FALSE /\ new.role = own.role
      BY <1>1, <1>4, <2>2
    <2> HIDE DEF new, w
    <2>4. AccountOf(new) = [row EXCEPT !.active = FALSE]
      <3>1. AccountOf(new) = [role |-> own.role, active |-> FALSE]
        BY <2>3, Zenon DEF AccountOf
      <3>2. [row EXCEPT !.active = FALSE] = [role |-> own.role, active |-> FALSE]
        BY ReplacedActive, Zenon DEF AccountOf
      <3> QED BY <3>1, <3>2
    <2> USE DEF new, w
    <2> QED BY <2>4 DEF Shared!Edited
  <1> QED BY <1>3, <1>4 DEF Asks

(* r has read its row: x is r with the entity edited, or about to be.      *)
LEMMA ReadStep ==
  ASSUME IInv, AskInv, NEW r \in Slots, req[r].pc = "load",
         Exists(req[r].target), users' = users,
         NEW x, req' = [req EXCEPT ![r] = x],
         x.pc \notin Early, x.op # "create", x.target = req[r].target,
         Entity(x) = Overlay(users[x.target], req[r].asked, AskedCols(req[r]))
  PROVE  Shared!Edit(r, req[r].target)
  <1> DEFINE q == req[r]
             own == users[q.target]
             to == AccountOf(Entity(x))
  <1>1. q \in Request /\ Asks(q) /\ q.op # "create" /\ q.target \in UserIds
    BY DEF IInv, TypeOK, SlotInv, AskInv, Creates, Loaded
  <1>2. own \in FullRow /\ Shared!Exists(q.target)
    BY <1>1, Existence
  <1>3. to \in Shared!Edited(AccountOf(own))
    BY <1>1, <1>2, EditedCopy
  <1>4. (x.op = "create") = FALSE
    OBVIOUS
  <1>5. ChangeOf(x) = [of |-> q.target, to |-> to, insert |-> FALSE]
    BY <1>4 DEF ChangeOf, Early
  <1>6. ChangeOf(q) = Shared!NoChange
    BY EarlyChange DEF Early
  <1> HIDE DEF to
  <1>7. Changes' = [Changes EXCEPT ![r] =
                      [of |-> q.target, to |-> to, insert |-> FALSE]]
    BY <1>5, Replaced
  <1> QED BY <1>1, <1>2, <1>3, <1>6, <1>7, Views DEF Shared!Edit, Changes

(* From then on the entity stays as it is.                                 *)
LEMMA KeepsChange ==
  ASSUME IInv, NEW r \in Slots, NEW x, req' = [req EXCEPT ![r] = x],
         users' = users, req[r].pc \notin Early, x.pc \notin Early,
         x.op = req[r].op, x.target = req[r].target,
         Entity(x) = Entity(req[r])
  PROVE  UNCHANGED Shared!vars
  <1>1. ChangeOf(x) = ChangeOf(req[r])
    BY DEF ChangeOf, Early
  <1> QED BY <1>1, MovesOn

LEMMA ChangeIs ==
  ASSUME NEW q, q.pc \notin Early
  PROVE  \E insert \in BOOLEAN :
           /\ insert <=> q.op = "create"
           /\ ChangeOf(q) = [of |-> q.target, to |-> AccountOf(Entity(q)),
                             insert |-> insert]
  <1> DEFINE insert == q.op = "create"
  <1>1. ChangeOf(q) = [of |-> q.target, to |-> AccountOf(Entity(q)),
                       insert |-> insert]
    BY DEF ChangeOf, Early
  <1>2. insert \in BOOLEAN /\ (insert <=> q.op = "create")
    OBVIOUS
  <1> HIDE DEF insert
  <1> QED BY <1>1, <1>2

(* Whoever creates a user asks for the very row it has in memory. *)
LEMMA OverlaySame ==
  ASSUME NEW row \in FullRow, NEW cols
  PROVE  Overlay(row, row, cols) = row
  BY DEF Overlay, FullRow, Directory!FullRow

(* The row after COMMIT, as the contract has it. *)
LEMMA WrittenCopy ==
  ASSUME NEW old, NEW new, NEW cols, NEW all \in BOOLEAN, all => cols = Cols
  PROVE  AccountOf(Overlay(old, new, cols))
           \in Shared!Written(AccountOf(old), AccountOf(new), all)
  <1> DEFINE row == Overlay(old, new, cols)
             a == AccountOf(old)
             b == AccountOf(new)
  <1>1. /\ row.role = IF "role" \in cols THEN new.role ELSE old.role
        /\ row.active = IF "active" \in cols THEN new.active ELSE old.active
    BY DEF Overlay
  <1>2. AccountOf(row) = [role |-> row.role, active |-> row.active]
    BY DEF AccountOf
  <1> HIDE DEF row
  <1>3. /\ a = [role |-> old.role, active |-> old.active]
        /\ b = [role |-> new.role, active |-> new.active]
    BY DEF AccountOf
  <1>4. /\ [a EXCEPT !.role = b.role] = [role |-> new.role, active |-> old.active]
        /\ [a EXCEPT !.active = b.active]
             = [role |-> old.role, active |-> new.active]
    BY <1>3
  <1> HIDE DEF a, b
  <1>5. \/ AccountOf(row) = b
        \/ ~all /\ AccountOf(row) \in
             {a, [a EXCEPT !.role = b.role], [a EXCEPT !.active = b.active]}
    <2>1. CASE "role" \in cols /\ "active" \in cols
      BY <1>1, <1>2, <1>3, <2>1
    <2>2. CASE "role" \in cols /\ "active" \notin cols
      BY <1>1, <1>2, <1>4, <2>2 DEF Cols
    <2>3. CASE "role" \notin cols /\ "active" \in cols
      BY <1>1, <1>2, <1>4, <2>3 DEF Cols
    <2>4. CASE "role" \notin cols /\ "active" \notin cols
      BY <1>1, <1>2, <1>3, <2>4 DEF Cols
    <2> QED BY <2>1, <2>2, <2>3, <2>4
  <1> QED BY <1>5 DEF Shared!Written, a, b, row

-----------------------------------------------------------------------------
(* Each step is one of the contract's, or nothing the contract can see.    *)

LEMMA CreateView ==
  ASSUME IInv, NEW r \in Slots, req[r] = Idle, Create(r), users' = users
  PROVE  \E u \in UserIds : Shared!Make(r, u)
  <1>1. PICK u \in FreshIds, n \in Names, p \in Passwords, g \in AskedRoles :
          req' = [req EXCEPT ![r] =
            [op |-> "create", pc |-> "unique", actor |-> None, target |-> u,
             asked |-> [name |-> n, pw |-> p, role |-> g, active |-> TRUE],
             row |-> [name |-> n, pw |-> p, role |-> g, active |-> TRUE],
             cols |-> Cols]]
    BY DEF Create
  <1> DEFINE new == [name |-> n, pw |-> p, role |-> g, active |-> TRUE]
             x == [op |-> "create", pc |-> "unique", actor |-> None,
                   target |-> u, asked |-> new, row |-> new, cols |-> Cols]
  <1>2. u \in UserIds /\ ~Exists(u) /\ g \in Roles
    BY UsersAssumption DEF FreshIds
  <1>3. new \in FullRow
    BY UsersAssumption DEF FullRow, Directory!FullRow
  <1>4. AccountOf(new) = [role |-> g, active |-> TRUE]
    BY DEF AccountOf
  <1> HIDE DEF new
  <1>5. /\ req' = [req EXCEPT ![r] = x] /\ x.op = "create" /\ x.target = u
        /\ x.pc = "unique" /\ x.asked = new /\ x.row = new
    BY <1>1 DEF new
  <1> HIDE DEF x
  <1>6. Entity(x) = new
    BY <1>3, <1>5, OverlaySame DEF Entity
  <1>7. PICK insert \in BOOLEAN :
          /\ insert <=> x.op = "create"
          /\ ChangeOf(x) = [of |-> x.target, to |-> AccountOf(Entity(x)),
                            insert |-> insert]
    BY <1>5, ChangeIs DEF Early
  <1>8. insert = TRUE
    BY <1>5, <1>7
  <1>9. ChangeOf(x) = [of |-> u, to |-> AccountOf(new), insert |-> TRUE]
    BY <1>5, <1>6, <1>7, <1>8
  <1>10. Changes' = [Changes EXCEPT ![r] = ChangeOf(x)]
    BY <1>5, Replaced
  <1>11. Changes' = [Changes EXCEPT ![r] =
           [of |-> u, to |-> [role |-> g, active |-> TRUE], insert |-> TRUE]]
    BY <1>4, <1>9, <1>10
  <1>12. Changes[r] = Shared!NoChange
    BY IdleFacts, EarlyChange, Views DEF Early
  <1>13. ~Shared!Exists(u)
    BY <1>2, Existence
  <1>14. UNCHANGED <<[v \in UserIds |-> AccountOf(users[v])], Backend = "django">>
    BY Views
  <1> QED BY <1>2, <1>11, <1>12, <1>13, <1>14 DEF Shared!Make, Changes

LEMMA ArriveView ==
  ASSUME IInv, NEW r \in Slots, NEW a \in UserIds, Arrive(r, a)
  PROVE  Shared!Drop(r) \/ \E u \in UserIds : Shared!Make(r, u)
  <1>1. req[r] = Idle /\ users' = users
    BY DEF Arrive
  <1>2. CASE Create(r)
    BY <1>1, <1>2, CreateView
  <1>3. ASSUME NEW x, req' = [req EXCEPT ![r] = x], x.pc \in {"load", "again"}
        PROVE  Shared!Drop(r)
    BY <1>1, <1>3, MovesOn DEF Early
  <1>4. CASE Update(r)
    <2>1. PICK u \in UserIds, n \in Names \cup {None},
               g \in AskedRoles \cup {None} :
            req' = [req EXCEPT ![r] =
              [op |-> "update", pc |-> "load", actor |-> None, target |-> u,
               asked |-> [Nothing EXCEPT !.name = n, !.role = g],
               row |-> Absent, cols |-> {}]]
      BY <1>4 DEF Update
    <2> QED BY <1>3, <2>1
  <1>5. CASE ChangePassword(r)
    <2>1. PICK u \in UserIds, p \in Passwords :
            req' = [req EXCEPT ![r] =
              [op |-> "chpass", pc |-> "load", actor |-> None, target |-> u,
               asked |-> [Nothing EXCEPT !.pw = p],
               row |-> Absent, cols |-> {}]]
      BY <1>5 DEF ChangePassword
    <2> QED BY <1>3, <2>1
  <1>6. CASE Delete(r, a)
    <2>1. PICK u \in UserIds :
            req' = [req EXCEPT ![r] =
              [op |-> "delete", pc |-> "again", actor |-> a, target |-> u,
               asked |-> [Nothing EXCEPT !.active = FALSE],
               row |-> Absent, cols |-> {}]]
      BY <1>6 DEF Delete
    <2> QED BY <1>3, <2>1
  <1> QED BY <1>2, <1>4, <1>5, <1>6 DEF Arrive

LEMMA EndView ==
  ASSUME IInv, NEW r \in Slots, req' = [req EXCEPT ![r] = Idle], users' = users
  PROVE  Shared!Drop(r)
  BY MovesOn, IdleFacts DEF Early

LEMMA AuthenticateView ==
  ASSUME IInv, NEW r \in Slots, AuthenticateAgain(r)
  PROVE  Shared!Drop(r)
  <1> DEFINE x == [req[r] EXCEPT !.pc = "load", !.actor = None]
  <1>1. /\ users' = users
        /\ req' = [req EXCEPT ![r] = Idle] \/ req' = [req EXCEPT ![r] = x]
    BY DEF AuthenticateAgain
  <1>2. x.pc = "load"
    BY DEF IInv, TypeOK, Request
  <1> HIDE DEF x
  <1> QED BY <1>1, <1>2, EndView, MovesOn DEF Early

LEMMA LoadView ==
  ASSUME IInv, AskInv, NEW r \in Slots, Load(r)
  PROVE  Shared!Drop(r) \/ \E u \in UserIds : Shared!Edit(r, u)
  <1> DEFINE q == req[r]
             own == users[q.target]
             x == [q EXCEPT !.pc = "unique", !.row = own]
  <1>1. /\ q \in Request /\ q.pc = "load" /\ q.op # "create"
        /\ q.target \in UserIds /\ users' = users
    BY DEF Load, IInv, TypeOK, SlotInv, Creates
  <1>2. \/ req' = [req EXCEPT ![r] = Idle]
        \/ Exists(q.target) /\ req' = [req EXCEPT ![r] = x]
        \/ Exists(q.target) /\ req' = [req EXCEPT ![r] = Changed(q, own)]
    BY DEF Load
  <1>3. ASSUME Exists(q.target), req' = [req EXCEPT ![r] = x]
        PROVE  Shared!Edit(r, q.target)
    <2>1. /\ x.pc = "unique" /\ x.op = q.op /\ x.target = q.target
          /\ x.asked = q.asked /\ x.row = own
      BY <1>1 DEF Request
    <2>2. req' = [req EXCEPT ![r] = x]
      BY <1>3
    <2> HIDE DEF x
    <2>3. Entity(x) = Overlay(own, q.asked, AskedCols(q))
      BY <2>1 DEF Entity, AskedCols
    <2> QED BY <1>1, <1>3, <2>1, <2>2, <2>3, ReadStep DEF Early
  <1>4. ASSUME Exists(q.target), req' = [req EXCEPT ![r] = Turned(q, own)]
        PROVE  Shared!Edit(r, q.target)
    <2> DEFINE t == Turned(q, own)
    <2>1. own \in FullRow
      BY <1>1, <1>4, Existence
    <2>2. /\ t.op = q.op /\ t.target = q.target /\ t.pc \in {"save", "flush"}
          /\ t.row = Overlay(own, q.asked, AskedCols(q))
      BY <1>1, <2>1, TurnedFacts
    <2>3. req' = [req EXCEPT ![r] = t]
      BY <1>4
    <2> HIDE DEF t
    <2>4. Entity(t) = Overlay(own, q.asked, AskedCols(q))
      BY <2>2 DEF Entity
    <2> QED BY <1>1, <1>4, <2>2, <2>3, <2>4, ReadStep DEF Early
  <1> HIDE DEF x
  <1> QED BY <1>1, <1>2, <1>3, <1>4, ChangedIs, EndView

LEMMA UniqueView ==
  ASSUME IInv, AskInv, NEW r \in Slots, Unique(r)
  PROVE  Shared!Drop(r) \/ UNCHANGED Shared!vars
  <1> DEFINE q == req[r]
             x == [q EXCEPT !.pc = "key"]
  <1>1. /\ q \in Request /\ q.pc = "unique" /\ q.row \in FullRow
        /\ users' = users
    BY DEF Unique, IInv, TypeOK, SlotInv, Loaded
  <1>2. \/ req' = [req EXCEPT ![r] = Idle]
        \/ q.op = "create" /\ req' = [req EXCEPT ![r] = x]
        \/ req' = [req EXCEPT ![r] = Changed(q, q.row)]
    BY DEF Unique
  <1>3. Entity(q) = Overlay(q.row, q.asked, AskedCols(q))
    BY <1>1 DEF Entity
  <1>4. ASSUME q.op = "create", req' = [req EXCEPT ![r] = x]
        PROVE  UNCHANGED Shared!vars
    <2>1. /\ x.pc = "key" /\ x.op = q.op /\ x.target = q.target
          /\ x.row = q.row
      BY <1>1 DEF Request
    <2>2. req' = [req EXCEPT ![r] = x]
      BY <1>4
    <2> HIDE DEF x
    <2>3. q.asked = q.row
      BY <1>4 DEF AskInv, Asks
    <2>4. Entity(x) = Entity(q)
      BY <1>1, <1>3, <2>1, <2>3, OverlaySame DEF Entity
    <2> QED BY <1>1, <2>1, <2>2, <2>4, KeepsChange DEF Early
  <1>5. ASSUME req' = [req EXCEPT ![r] = Turned(q, q.row)]
        PROVE  UNCHANGED Shared!vars
    <2> DEFINE t == Turned(q, q.row)
    <2>1. /\ t.op = q.op /\ t.target = q.target /\ t.pc \in {"save", "flush"}
          /\ t.row = Overlay(q.row, q.asked, AskedCols(q))
      BY <1>1, TurnedFacts
    <2>2. req' = [req EXCEPT ![r] = t]
      BY <1>5
    <2> HIDE DEF t
    <2>3. Entity(t) = Entity(q)
      BY <1>3, <2>1 DEF Entity
    <2> QED BY <1>1, <2>1, <2>2, <2>3, KeepsChange DEF Early
  <1> HIDE DEF x
  <1> QED BY <1>1, <1>2, <1>4, <1>5, ChangedIs, EndView

LEMMA WaitView ==
  ASSUME IInv, NEW r \in Slots, Save(r) \/ Flush(r) \/ KeyFree(r)
  PROVE  UNCHANGED Shared!vars
  <1> DEFINE q == req[r]
  <1>1. /\ q \in Request /\ q.pc \in {"save", "flush", "key"}
        /\ users' = users
    BY DEF Save, Flush, KeyFree, IInv, TypeOK
  <1>2. ASSUME NEW cols, NEW pc \in {"flush", "key", "commit"},
               req' = [req EXCEPT ![r] = [q EXCEPT !.cols = cols, !.pc = pc]]
        PROVE  UNCHANGED Shared!vars
    <2> DEFINE x == [q EXCEPT !.cols = cols, !.pc = pc]
    <2>1. /\ x.pc = pc /\ x.op = q.op /\ x.target = q.target
          /\ x.row = q.row
      BY <1>1 DEF Request
    <2>2. req' = [req EXCEPT ![r] = x]
      BY <1>2
    <2> HIDE DEF x
    <2>3. Entity(x) = Entity(q)
      BY <1>1, <1>2, <2>1 DEF Entity
    <2> QED BY <1>1, <1>2, <2>1, <2>2, <2>3, KeepsChange DEF Early
  <1>3. \E cols, pc : /\ pc \in {"flush", "key", "commit"}
                      /\ req' = [req EXCEPT ![r] = [q EXCEPT !.cols = cols,
                                                             !.pc = pc]]
    <2>1. CASE Save(r)
      <3>1. PICK cols : req' = [req EXCEPT ![r].cols = cols,
                          ![r].pc = IF cols = {} THEN "commit" ELSE "flush"]
        BY <2>1 DEF Save
      <3> QED BY <3>1 DEF IInv, TypeOK
    <2>2. CASE Flush(r) \/ KeyFree(r)
      <3>1. PICK pc \in {"key", "commit"} :
              req' = [req EXCEPT ![r] = [q EXCEPT !.pc = pc]]
        BY <2>2 DEF Flush, KeyFree, IInv, TypeOK
      <3>2. [q EXCEPT !.pc = pc] = [q EXCEPT !.cols = q.cols, !.pc = pc]
        BY <1>1 DEF Request
      <3> QED BY <3>1, <3>2
    <2> QED BY <2>1, <2>2
  <1> QED BY <1>2, <1>3

LEMMA CommitView ==
  ASSUME IInv, WholeRows, NEW r \in Slots, Commit(r)
  PROVE  Shared!Write(r)
  <1> DEFINE q == req[r]
             u == q.target
             all == Backend = "django"
             c == Changes[r]
  <1>1. /\ q \in Request /\ q.pc = "commit" /\ u \in UserIds
        /\ Creates(r) => ~Exists(u) /\ q.cols = Cols
        /\ ~Creates(r) => Exists(u)
    BY DEF Commit, IInv, TypeOK, SlotInv, Loaded
  <1>2. /\ users' = [users EXCEPT ![u] = Overlay(users[u], q.row, q.cols)]
        /\ req' = [req EXCEPT ![r] = Idle]
    BY DEF Commit
  <1>3. Entity(q) = q.row
    BY <1>1 DEF Entity
  <1>4. PICK insert \in BOOLEAN :
          /\ insert <=> q.op = "create"
          /\ ChangeOf(q) = [of |-> u, to |-> AccountOf(Entity(q)),
                            insert |-> insert]
    BY <1>1, ChangeIs DEF Early
  <1>5. c = ChangeOf(q)
    BY Views
  <1>6. /\ c.of = u /\ c.to = AccountOf(q.row) /\ c.insert = insert
        /\ c # Shared!NoChange
    BY <1>1, <1>3, <1>4, <1>5, UsersAssumption DEF Shared!NoChange
  <1>7. PICK whole \in BOOLEAN :
          /\ whole <=> insert \/ all
          /\ AccountOf(Overlay(users[u], q.row, q.cols))
               \in Shared!Written(AccountOf(users[u]), AccountOf(q.row), whole)
    <2>1. insert \/ all => q.cols = Cols
      BY <1>1, <1>4 DEF Creates, WholeRows
    <2> QED BY <2>1, WrittenCopy
  <1>8. Changes' = [Changes EXCEPT ![r] = Shared!NoChange]
    <2>1. ChangeOf(Idle) = Shared!NoChange
      BY EarlyChange, IdleFacts DEF Early
    <2> QED BY <1>2, <2>1, Replaced
  <1>9. IF insert THEN ~Shared!Exists(u) ELSE Shared!Exists(u)
    BY <1>1, <1>4, Existence DEF Creates
  <1> DEFINE Rows == [v \in UserIds |-> AccountOf(users[v])]
             row == AccountOf(Overlay(users[u], q.row, q.cols))
  <1>10. Rows' = [Rows EXCEPT ![u] = row]
    <2>1. \A v \in UserIds :
            AccountOf(users'[v]) = IF v = u THEN row ELSE AccountOf(users[v])
      BY <1>1, <1>2 DEF IInv, TypeOK
    <2>2. Rows' = [v \in UserIds |-> AccountOf(users'[v])]
      BY Views
    <2> QED BY <2>1, <2>2
  <1>11. row \in Shared!Written(Rows[c.of], c.to, c.insert \/ all)
    BY <1>1, <1>6, <1>7 DEF Shared!Written
  <1>12. IF c.insert THEN ~Shared!Exists(c.of) ELSE Shared!Exists(c.of)
    BY <1>6, <1>9
  <1> HIDE DEF row
  <1>13. /\ Rows' = [Rows EXCEPT ![c.of] = row]
         /\ UNCHANGED all
    BY <1>6, <1>10
  <1> HIDE DEF c
  <1> QED BY <1>6, <1>8, <1>11, <1>12, <1>13 DEF Shared!Write, c, Changes

LEMMA AccountsStep ==
  ASSUME IInv, AskInv, WholeRows, [Next]_vars
  PROVE  [Shared!Next]_(Shared!vars)
  <1>1. ASSUME NEW r \in Slots, NEW a \in UserIds, Arrive(r, a)
        PROVE  Shared!Next
    BY <1>1, ArriveView DEF Shared!Next
  <1>2. ASSUME NEW r \in Slots, Advance(r)
        PROVE  Shared!Next \/ UNCHANGED Shared!vars
    <2>1. CASE KeyTaken(r)
      BY <2>1, EndView DEF KeyTaken, Shared!Next
    <2> QED BY <1>2, <2>1, AuthenticateView, LoadView, UniqueView, WaitView,
               CommitView DEF Advance, Shared!Next
  <1>3. ASSUME NEW r \in Slots, Abort(r) \/ DeadlockVictim(r)
        PROVE  Shared!Next
    BY <1>3, EndView DEF Abort, DeadlockVictim, Shared!Next
  <1>4. CASE users' = users /\ req' = req
    <2>1. Changes' = Changes
      BY <1>4, Views
    <2> QED BY <1>4, <2>1, Views DEF Shared!vars, Changes
  <1> QED BY <1>1, <1>2, <1>3, <1>4
          DEF Next, Refuse, StartSession, EndSession, vars

LEMMA AccountsInit == Init => Shared!Init /\ AskInv /\ WholeRows
  <1> SUFFICES ASSUME Init PROVE Shared!Init /\ AskInv /\ WholeRows
    OBVIOUS
  <1>1. \A r \in Slots : req[r] = Idle
    BY DEF Init
  <1>2. AskInv /\ WholeRows
    BY <1>1, IdleAsks, IdleFacts DEF AskInv, WholeRows
  <1>3. \A u \in UserIds : AccountOf(users[u]) \in Shared!Account \cup {Shared!Absent}
    <2>1. ASSUME NEW row \in FullRow PROVE AccountOf(row) \in Shared!Account
      BY DEF FullRow, Directory!FullRow, AccountOf, Shared!Account
    <2>2. AccountOf(Absent) = Shared!Absent
      BY DEF AccountOf, Absent, Shared!Absent
    <2> QED BY <2>1, <2>2, InitInv DEF IInv, RowInv
  <1>4. \A r \in Slots : ChangeOf(req[r]) = Shared!NoChange
    BY <1>1, EarlyChange, IdleFacts DEF Early
  <1>5. (Backend = "django") \in BOOLEAN
    OBVIOUS
  <1> QED BY <1>2, <1>3, <1>4, <1>5 DEF Shared!Init

(* On either stack, whatever the requests interleave, what they do to role *)
(* and is_active is a copy of the row as it was, edited as one use case    *)
(* may, of which the statement writes all or some columns later.           *)
THEOREM AccountsImplemented == Spec => ImplementsAccounts
  BY Invariance, AccountsInit, AskStep, WholeRowsStep, AccountsStep, PTL
  DEF Spec, ImplementsAccounts, Shared!Spec
=============================================================================
