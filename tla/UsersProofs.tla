----------------------------- MODULE UsersProofs ------------------------------
(***************************************************************************)
(* Proofs about Users.tla, for any number of users, names and requests and *)
(* either persistence stack: usernames stay unique, and the use cases      *)
(* implement UserDirectory.tla.                                            *)
(*                                                                         *)
(* The constraint alone does not make the argument: a statement that has   *)
(* passed the unique index is not committed yet, and between the two other *)
(* requests read, write and commit.  The inductive invariant says that a   *)
(* request due to commit a new name (Claims) excludes every row and every  *)
(* other such request from that name, and that written rows are locked.    *)
(***************************************************************************)
EXTENDS Users, TLAPS

FullRow == Directory!FullRow

(* The entity in memory is complete. *)
Loaded == {"unique", "save", "flush", "key", "commit"}

(* r has passed the unique index and will change a username. *)
Claims(r) == req[r].pc = "commit" /\ Renames(r)

Creates(r) == req[r].op = "create"

RowInv == \A u \in UserIds : users[u] \in FullRow \cup {Absent}

SlotInv ==
  \A r \in Slots :
    /\ req[r].pc # "idle" => req[r].target \in UserIds
    /\ req[r].pc = "again" => req[r].op = "delete"
    /\ req[r].pc # "idle" => req[r].op # "idle"
    /\ req[r].pc \in Loaded => req[r].row \in FullRow
    /\ req[r].pc \in Loaded /\ ~Creates(r) => Exists(req[r].target)
    /\ req[r].pc = "key" => Renames(r)
    /\ Creates(r) => /\ req[r].pc \in {"unique", "key", "commit"}
                     /\ ~Exists(req[r].target)
                     /\ req[r].cols = Cols /\ req[r].row.active

LockInv ==
  \A r, q \in Slots :
    r # q /\ ((Holds(r) /\ Holds(q)) \/ (Creates(r) /\ Creates(q))) =>
      req[r].target # req[q].target

ClaimInv ==
  \A r \in Slots : Claims(r) =>
    /\ ~Taken(req[r].row.name, req[r].target)
    /\ \A q \in Slots \ {r} :
         Claims(q) => req[q].row.name # req[r].row.name

IInv == TypeOK /\ RowInv /\ SlotInv /\ LockInv /\ ClaimInv /\ UniqueUsernames

-----------------------------------------------------------------------------
(* Rows. *)

LEMMA IdleFacts ==
  /\ Idle \in Request /\ Idle.op = "idle" /\ Idle.pc = "idle"
  /\ Idle.target = None /\ Idle.cols = {}
  BY DEF Idle, Request, Nothing, Asked, Absent, Row

LEMMA RowFacts ==
  /\ FullRow \subseteq Row
  /\ Absent \in Row
  /\ \A row \in FullRow : row.name \in Names /\ row.name # None
  /\ Absent.name = None
  BY UsersAssumption
  DEF FullRow, Directory!FullRow, Row, Absent, Roles

(* Writing some columns of one complete row over another. *)
LEMMA OverlayFull ==
  ASSUME NEW old \in FullRow, NEW new \in FullRow, NEW cols \in SUBSET Cols
  PROVE  Overlay(old, new, cols) \in FullRow
  BY DEF Overlay, FullRow, Directory!FullRow

(* Writing all of them. *)
LEMMA OverlayAll ==
  ASSUME NEW old, NEW new \in FullRow
  PROVE  Overlay(old, new, Cols) = new
  BY DEF Overlay, FullRow, Directory!FullRow, Cols

(* Applying what was asked for to a complete row. *)
LEMMA OverlayAsked ==
  ASSUME NEW own \in FullRow, NEW q, q.asked \in Asked
  PROVE  Overlay(own, q.asked, AskedCols(q)) \in FullRow
  <1> DEFINE w == q.asked
  <1>1. /\ "name" \in AskedCols(q) => w.name \in Names
        /\ "pw" \in AskedCols(q) => w.pw \in Passwords
        /\ "role" \in AskedCols(q) => w.role \in Roles
        /\ "active" \in AskedCols(q) => w.active \in BOOLEAN
    BY DEF AskedCols, Asked, Cols
  <1>2. QED
    BY <1>1 DEF Overlay, FullRow, Directory!FullRow

-----------------------------------------------------------------------------
(* Steps that write nothing: one slot moves on to the state x, which fits. *)

Fits(r, x) ==
  /\ x.pc # "idle" => x.target \in UserIds
  /\ x.pc = "again" => x.op = "delete"
  /\ x.pc # "idle" => x.op # "idle"
  /\ x.pc \in Loaded => x.row \in FullRow
  /\ x.pc \in Loaded /\ x.op # "create" => Exists(x.target)
  /\ x.op = "create" =>
       /\ x.pc \in {"unique", "key", "commit"} /\ ~Exists(x.target)
       /\ x.cols = Cols /\ x.row.active
       /\ \A q \in Slots \ {r} : Creates(q) => req[q].target # x.target
  /\ x.pc = "key" => "name" \in x.cols
                      /\ x.row.name # users[x.target].name
  /\ x.pc \in {"key", "commit"} /\ x.cols # {} =>
       \A q \in Slots \ {r} : Holds(q) => req[q].target # x.target
  /\ x.pc = "commit" /\ "name" \in x.cols
       /\ x.row.name # users[x.target].name =>
       /\ ~Taken(x.row.name, x.target)
       /\ \A q \in Slots \ {r} : Claims(q) => req[q].row.name # x.row.name

LEMMA IdleFits == ASSUME NEW r \in Slots PROVE Fits(r, Idle)
  BY IdleFacts DEF Fits, Loaded

LEMMA QuietStep ==
  ASSUME IInv, NEW r \in Slots, NEW x \in Request, Fits(r, x),
         users' = users, req' = [req EXCEPT ![r] = x]
  PROVE  (RowInv /\ SlotInv /\ LockInv /\ ClaimInv /\ UniqueUsernames)'
  <1>1. /\ req'[r] = x
        /\ \A q \in Slots \ {r} : req'[q] = req[q]
    BY DEF IInv, TypeOK
  <1>2. RowInv' /\ UniqueUsernames'
    BY DEF IInv, RowInv, UniqueUsernames, Exists
  <1>3. \A u : Exists(u)' = Exists(u)
    BY DEF Exists
  <1>4. SlotInv'
    BY <1>1, <1>3 DEF IInv, SlotInv, Fits, Creates, Renames
  <1>5. \A q \in Slots \ {r} :
          /\ Holds(q)' = Holds(q) /\ Creates(q)' = Creates(q)
          /\ Claims(q)' = Claims(q)
    BY <1>1 DEF Holds, Creates, Claims, Renames
  <1>6. /\ Holds(r)' = (x.pc \in {"key", "commit"} /\ x.cols # {})
        /\ Creates(r)' = (x.op = "create")
        /\ Claims(r)' = (/\ x.pc = "commit" /\ "name" \in x.cols
                         /\ x.row.name # users[x.target].name)
    BY <1>1 DEF Holds, Creates, Claims, Renames
  <1>7. LockInv'
    <2> SUFFICES ASSUME NEW p \in Slots, NEW q \in Slots, p # q,
                        \/ (Holds(p) /\ Holds(q))'
                        \/ (Creates(p) /\ Creates(q))'
                 PROVE  req'[p].target # req'[q].target
      BY DEF LockInv
    <2>1. CASE p # r /\ q # r
      BY <2>1, <1>1, <1>5 DEF IInv, LockInv
    <2>2. CASE p = r
      BY <2>2, <1>1, <1>5, <1>6 DEF Fits
    <2>3. CASE q = r
      BY <2>3, <1>1, <1>5, <1>6 DEF Fits
    <2> QED BY <2>1, <2>2, <2>3
  <1>8. ClaimInv'
    <2>1. \A p \in Slots :
            Taken(req[p].row.name, req[p].target)' =
              Taken(req'[p].row.name, req'[p].target)
      BY DEF Taken
    <2> SUFFICES ASSUME NEW p \in Slots, Claims(p)'
                 PROVE  /\ ~Taken(req[p].row.name, req[p].target)'
                        /\ \A q \in Slots \ {p} : Claims(q)' =>
                             req'[q].row.name # req'[p].row.name
      BY DEF ClaimInv
    <2>2. CASE p = r
      BY <2>1, <2>2, <1>1, <1>5, <1>6 DEF Fits
    <2>3. CASE p # r
      <3>1. ~Taken(req[p].row.name, req[p].target)'
        BY <2>1, <2>3, <1>1, <1>5 DEF IInv, ClaimInv
      <3>2. ASSUME NEW q \in Slots \ {p}, Claims(q)'
            PROVE  req'[q].row.name # req'[p].row.name
        <4>1. CASE q = r
          BY <4>1, <2>3, <3>2, <1>1, <1>5, <1>6 DEF Fits
        <4>2. CASE q # r
          BY <4>2, <2>3, <3>2, <1>1, <1>5 DEF IInv, ClaimInv
        <4> QED BY <4>1, <4>2
      <3> QED BY <3>1, <3>2
    <2> QED BY <2>2, <2>3
  <1> QED BY <1>2, <1>4, <1>7, <1>8

-----------------------------------------------------------------------------
(* What each action puts into its slot.                                    *)

LEMMA ArriveSlot ==
  ASSUME IInv, NEW r \in Slots, NEW a \in UserIds, Arrive(r, a)
  PROVE  \E x \in Request : req' = [req EXCEPT ![r] = x] /\ Fits(r, x)
  <1>1. CASE Create(r)
    <2>1. PICK u \in FreshIds, n \in Names, p \in Passwords, g \in AskedRoles :
            req' = [req EXCEPT ![r] =
              [op |-> "create", pc |-> "unique", actor |-> None, target |-> u,
               asked |-> [name |-> n, pw |-> p, role |-> g, active |-> TRUE],
               row |-> [name |-> n, pw |-> p, role |-> g, active |-> TRUE],
               cols |-> Cols]]
      BY <1>1 DEF Create
    <2> DEFINE new == [name |-> n, pw |-> p, role |-> g, active |-> TRUE]
               x == [op |-> "create", pc |-> "unique", actor |-> None,
                     target |-> u, asked |-> new, row |-> new, cols |-> Cols]
    <2>2. u \in UserIds /\ ~Exists(u) /\ \A q \in Slots : req[q].target # u
      BY DEF FreshIds
    <2>3. new \in FullRow /\ new \in Asked /\ new.active
      BY UsersAssumption DEF FullRow, Directory!FullRow, Asked
    <2>4. x \in Request
      BY <2>2, <2>3, RowFacts DEF Request
    <2>5. Fits(r, x)
      BY <2>2, <2>3 DEF Fits, Loaded
    <2> QED BY <2>1, <2>4, <2>5
  <1>2. CASE Update(r)
    <2>1. PICK u \in UserIds, n \in Names \cup {None},
               g \in AskedRoles \cup {None} :
            req' = [req EXCEPT ![r] =
              [op |-> "update", pc |-> "load", actor |-> None, target |-> u,
               asked |-> [Nothing EXCEPT !.name = n, !.role = g],
               row |-> Absent, cols |-> {}]]
      BY <1>2 DEF Update
    <2> DEFINE x == [op |-> "update", pc |-> "load", actor |-> None,
                     target |-> u,
                     asked |-> [Nothing EXCEPT !.name = n, !.role = g],
                     row |-> Absent, cols |-> {}]
    <2>2. x \in Request
      BY UsersAssumption, RowFacts DEF Request, Asked, Nothing
    <2>3. Fits(r, x)
      BY DEF Fits, Loaded
    <2> QED BY <2>1, <2>2, <2>3
  <1>3. CASE ChangePassword(r)
    <2>1. PICK u \in UserIds, p \in Passwords :
            req' = [req EXCEPT ![r] =
              [op |-> "chpass", pc |-> "load", actor |-> None, target |-> u,
               asked |-> [Nothing EXCEPT !.pw = p],
               row |-> Absent, cols |-> {}]]
      BY <1>3 DEF ChangePassword
    <2> DEFINE x == [op |-> "chpass", pc |-> "load", actor |-> None,
                     target |-> u, asked |-> [Nothing EXCEPT !.pw = p],
                     row |-> Absent, cols |-> {}]
    <2>2. x \in Request
      BY RowFacts DEF Request, Asked, Nothing
    <2>3. Fits(r, x)
      BY DEF Fits, Loaded
    <2> QED BY <2>1, <2>2, <2>3
  <1>4. CASE Delete(r, a)
    <2>1. PICK u \in UserIds :
            req' = [req EXCEPT ![r] =
              [op |-> "delete", pc |-> "again", actor |-> a, target |-> u,
               asked |-> [Nothing EXCEPT !.active = FALSE],
               row |-> Absent, cols |-> {}]]
      BY <1>4 DEF Delete
    <2> DEFINE x == [op |-> "delete", pc |-> "again", actor |-> a,
                     target |-> u, asked |-> [Nothing EXCEPT !.active = FALSE],
                     row |-> Absent, cols |-> {}]
    <2>2. x \in Request
      BY RowFacts DEF Request, Asked, Nothing
    <2>3. Fits(r, x)
      BY DEF Fits, Loaded
    <2> QED BY <2>1, <2>2, <2>3
  <1> QED BY <1>1, <1>2, <1>3, <1>4 DEF Arrive

LEMMA EndSlot ==
  ASSUME NEW r \in Slots, req' = [req EXCEPT ![r] = Idle]
  PROVE  \E x \in Request : req' = [req EXCEPT ![r] = x] /\ Fits(r, x)
  BY IdleFacts, IdleFits

LEMMA AuthenticateAgainSlot ==
  ASSUME IInv, NEW r \in Slots, AuthenticateAgain(r)
  PROVE  \E x \in Request : req' = [req EXCEPT ![r] = x] /\ Fits(r, x)
  <1>1. CASE req' = [req EXCEPT ![r] = Idle]
    BY <1>1, EndSlot
  <1>2. CASE req' = [req EXCEPT ![r] =
               [req[r] EXCEPT !.pc = "load", !.actor = None]]
    <2> DEFINE q == req[r]
               x == [q EXCEPT !.pc = "load", !.actor = None]
    <2>1. q \in Request /\ q.pc = "again" /\ q.op = "delete"
      BY DEF IInv, TypeOK, SlotInv, AuthenticateAgain
    <2>2. q.target \in UserIds
      BY <2>1 DEF IInv, SlotInv
    <2>3. x \in Request /\ x.pc = "load" /\ x.op = "delete" /\ x.target = q.target
      BY <2>1 DEF Request
    <2>4. Fits(r, x)
      BY <2>2, <2>3 DEF Fits, Loaded
    <2> QED BY <1>2, <2>3, <2>4
  <1> QED BY <1>1, <1>2 DEF AuthenticateAgain

(* The changes in memory leave a complete entity or end the request.       *)
LEMMA ChangedFits ==
  ASSUME IInv, NEW r \in Slots, NEW own \in FullRow,
         req[r].pc \in {"load", "unique"}, ~Creates(r), Exists(req[r].target)
  PROVE  Changed(req[r], own) \in Request /\ Fits(r, Changed(req[r], own))
  <1> DEFINE q == req[r]
             x == Changed(q, own)
  <1>1. q \in Request /\ q.op # "idle" /\ q.op # "create" /\ q.target \in UserIds
    BY DEF IInv, TypeOK, SlotInv, Creates
  <1>2. CASE x = Idle
    BY <1>2, IdleFacts, IdleFits
  <1>3. CASE x # Idle
    <2>1. x = [q EXCEPT !.row = Overlay(own, q.asked, AskedCols(q)),
                        !.cols = IF Backend = "django" THEN Cols ELSE {},
                        !.pc = IF Backend = "django" THEN "flush" ELSE "save"]
      BY <1>3 DEF Changed
    <2>2. Overlay(own, q.asked, AskedCols(q)) \in FullRow
      BY <1>1, OverlayAsked DEF Request
    <2>3. /\ x \in Request
          /\ x.pc \in {"save", "flush"} /\ x.op = q.op
          /\ x.target = q.target /\ x.row \in FullRow
      BY <1>1, <2>1, <2>2, RowFacts DEF Request
    <2>4. Fits(r, x)
      BY <1>1, <2>3 DEF Fits, Loaded
    <2> QED BY <2>3, <2>4
  <1> QED BY <1>2, <1>3

LEMMA LoadSlot ==
  ASSUME IInv, NEW r \in Slots, Load(r)
  PROVE  \E x \in Request : req' = [req EXCEPT ![r] = x] /\ Fits(r, x)
  <1> DEFINE q == req[r]
             own == users[q.target]
  <1>1. /\ q \in Request /\ q.pc = "load" /\ q.target \in UserIds
        /\ q.op # "idle" /\ ~Creates(r)
    BY DEF IInv, TypeOK, SlotInv, Load, Creates, Loaded
  <1>2. CASE ~Exists(q.target)
    BY <1>2, EndSlot DEF Load
  <1>3. CASE Exists(q.target) /\ q.asked.name # None
    <2> DEFINE x == [q EXCEPT !.pc = "unique", !.row = own]
    <2>1. req' = [req EXCEPT ![r] = x]
      BY <1>3 DEF Load
    <2>2. own \in FullRow
      BY <1>1, <1>3, RowFacts DEF IInv, RowInv, Exists
    <2>3. /\ x \in Request /\ x.pc = "unique" /\ x.op = q.op
          /\ x.target = q.target /\ x.row \in FullRow
      BY <1>1, <2>2, RowFacts DEF Request
    <2>4. Fits(r, x)
      BY <1>1, <1>3, <2>3 DEF Fits, Creates, Loaded
    <2> QED BY <2>1, <2>3, <2>4
  <1>4. CASE Exists(q.target) /\ q.asked.name = None
    <2>1. req' = [req EXCEPT ![r] = Changed(q, own)]
      BY <1>4 DEF Load
    <2>2. own \in FullRow
      BY <1>1, <1>4, RowFacts DEF IInv, RowInv, Exists
    <2> QED BY <1>1, <1>4, <2>1, <2>2, ChangedFits
  <1> QED BY <1>2, <1>3, <1>4

LEMMA UniqueSlot ==
  ASSUME IInv, NEW r \in Slots, Unique(r)
  PROVE  \E x \in Request : req' = [req EXCEPT ![r] = x] /\ Fits(r, x)
  <1> DEFINE q == req[r]
  <1>1. /\ q \in Request /\ q.pc = "unique" /\ q.target \in UserIds
        /\ q.op # "idle" /\ q.row \in FullRow
    BY DEF IInv, TypeOK, SlotInv, Unique, Loaded
  <1>2. CASE Taken(q.asked.name, q.target)
    BY <1>2, EndSlot DEF Unique
  <1>3. CASE ~Taken(q.asked.name, q.target) /\ Creates(r)
    <2> DEFINE x == [q EXCEPT !.pc = "key"]
    <2>1. req' = [req EXCEPT ![r] = x]
      BY <1>3 DEF Unique, Creates
    <2>2. /\ x \in Request /\ x.pc = "key" /\ x.op = "create"
          /\ x.target = q.target /\ x.row = q.row /\ x.cols = q.cols
      BY <1>1, <1>3 DEF Request, Creates
    <2>3. /\ ~Exists(q.target) /\ q.cols = Cols /\ q.row.active
          /\ \A p \in Slots \ {r} : Creates(p) => req[p].target # q.target
      BY <1>3 DEF IInv, SlotInv, LockInv
    <2>4. \A p \in Slots \ {r} : Holds(p) => req[p].target # q.target
      BY <2>3 DEF IInv, SlotInv, Holds, Loaded
    <2>5. Fits(r, x)
      BY <1>1, <2>2, <2>3, <2>4, RowFacts DEF Fits, Loaded, Exists, Cols
    <2> QED BY <2>1, <2>2, <2>5
  <1>4. CASE ~Taken(q.asked.name, q.target) /\ ~Creates(r)
    <2>1. req' = [req EXCEPT ![r] = Changed(q, q.row)]
      BY <1>4 DEF Unique, Creates
    <2>2. Exists(q.target)
      BY <1>1, <1>4 DEF IInv, SlotInv, Loaded
    <2> QED BY <1>1, <1>4, <2>1, <2>2, ChangedFits
  <1> QED BY <1>2, <1>3, <1>4

LEMMA SaveSlot ==
  ASSUME IInv, NEW r \in Slots, Save(r)
  PROVE  \E x \in Request : req' = [req EXCEPT ![r] = x] /\ Fits(r, x)
  <1> DEFINE q == req[r]
  <1>1. /\ q \in Request /\ q.pc = "save" /\ q.target \in UserIds
        /\ q.op # "idle" /\ q.row \in FullRow
        /\ q.op # "create" /\ Exists(q.target)
    BY DEF IInv, TypeOK, SlotInv, Save, Creates, Loaded
  <1>2. PICK cols \in {AskedCols(q), Differing(users[q.target], q.row)} :
          req' = [req EXCEPT ![r].cols = cols,
                    ![r].pc = IF cols = {} THEN "commit" ELSE "flush"]
    BY DEF Save
  <1> DEFINE x == [q EXCEPT !.cols = cols,
                     !.pc = IF cols = {} THEN "commit" ELSE "flush"]
  <1>3. req' = [req EXCEPT ![r] = x]
    BY <1>2 DEF IInv, TypeOK
  <1>4. cols \subseteq Cols
    BY DEF AskedCols, Differing
  <1>5. /\ x \in Request /\ x.op = q.op /\ x.target = q.target
        /\ x.row = q.row /\ x.cols = cols
        /\ x.pc = IF cols = {} THEN "commit" ELSE "flush"
    BY <1>1, <1>4 DEF Request
  <1> HIDE DEF x
  <1>6. Fits(r, x)
    BY <1>1, <1>5 DEF Fits, Loaded
  <1> QED BY <1>3, <1>5, <1>6

LEMMA FlushSlot ==
  ASSUME IInv, NEW r \in Slots, Flush(r)
  PROVE  \E x \in Request : req' = [req EXCEPT ![r] = x] /\ Fits(r, x)
  <1> DEFINE q == req[r]
             x == [q EXCEPT !.pc = IF Renames(r) THEN "key" ELSE "commit"]
  <1>1. /\ q \in Request /\ q.pc = "flush" /\ q.target \in UserIds
        /\ q.op # "idle" /\ q.op # "create" /\ q.row \in FullRow
        /\ Exists(q.target)
    BY DEF IInv, TypeOK, SlotInv, Flush, Creates, Loaded
  <1>2. req' = [req EXCEPT ![r] = x]
    BY DEF Flush, IInv, TypeOK
  <1>3. \A p \in Slots \ {r} : Holds(p) => req[p].target # q.target
    BY <1>1 DEF Flush, Granted, WaitsFor, WaitsForRow
  <1>4. /\ x \in Request /\ x.op = q.op /\ x.target = q.target
        /\ x.row = q.row /\ x.cols = q.cols
        /\ x.pc = IF Renames(r) THEN "key" ELSE "commit"
    BY <1>1 DEF Request
  <1> HIDE DEF x
  <1>5. Fits(r, x)
    BY <1>1, <1>3, <1>4 DEF Fits, Renames, Loaded
  <1> QED BY <1>2, <1>4, <1>5

(* The heart of the matter: the index is free and nobody else is about to  *)
(* commit the name.                                                        *)
LEMMA KeyFreeSlot ==
  ASSUME IInv, NEW r \in Slots, KeyFree(r)
  PROVE  \E x \in Request : req' = [req EXCEPT ![r] = x] /\ Fits(r, x)
  <1> DEFINE q == req[r]
             x == [q EXCEPT !.pc = "commit"]
  <1>1. /\ q \in Request /\ q.pc = "key" /\ q.target \in UserIds
        /\ q.op # "idle" /\ q.row \in FullRow
        /\ ~Creates(r) => Exists(q.target)
        /\ Creates(r) => ~Exists(q.target) /\ q.cols = Cols /\ q.row.active
    BY DEF IInv, TypeOK, SlotInv, KeyFree, Creates, Loaded
  <1>2. req' = [req EXCEPT ![r] = x]
    BY DEF KeyFree, IInv, TypeOK
  <1>3. /\ x \in Request /\ x.pc = "commit" /\ x.op = q.op
        /\ x.target = q.target /\ x.row = q.row /\ x.cols = q.cols
    BY <1>1 DEF Request
  <1>4. ~Taken(q.row.name, q.target)
    BY DEF KeyFree
  <1>5. ASSUME NEW p \in Slots \ {r}, Claims(p)
        PROVE  req[p].row.name # q.row.name
    <2>1. /\ req[p].pc = "commit" /\ "name" \in req[p].cols /\ Holds(p)
      BY <1>5 DEF Claims, Renames, Holds
    <2>2. ~WaitsForKey(r, p)
      BY DEF KeyFree, Granted, WaitsFor
    <2> QED BY <1>1, <2>1, <2>2 DEF WaitsForKey
  <1>6. q.cols # {} => \A p \in Slots \ {r} : Holds(p) => req[p].target # q.target
    BY <1>1 DEF IInv, LockInv, Holds
  <1>7. Creates(r) =>
          \A p \in Slots \ {r} : Creates(p) => req[p].target # q.target
    BY DEF IInv, LockInv
  <1> HIDE DEF x
  <1>8. Fits(r, x)
    BY <1>1, <1>3, <1>4, <1>5, <1>6, <1>7 DEF Fits, Creates, Loaded
  <1> QED BY <1>2, <1>3, <1>8

-----------------------------------------------------------------------------
(* COMMIT. *)

(* The row a commit leaves behind, and that it is a step of the directory. *)
LEMMA CommitRow ==
  ASSUME IInv, NEW r \in Slots, Commit(r)
  PROVE  \E row \in FullRow :
           LET u == req[r].target IN
           /\ u \in UserIds
           /\ users' = [users EXCEPT ![u] = row]
           /\ row.name = IF "name" \in req[r].cols
                           THEN req[r].row.name ELSE users[u].name
           /\ Creates(r) => row.active
  <1> DEFINE q == req[r]
             old == users[q.target]
             row == Overlay(old, q.row, q.cols)
  <1>1. /\ q \in Request /\ q.pc = "commit" /\ q.target \in UserIds
        /\ q.row \in FullRow
        /\ ~Creates(r) => Exists(q.target)
        /\ Creates(r) => q.cols = Cols /\ q.row.active
    BY DEF IInv, TypeOK, SlotInv, Commit, Loaded
  <1>2. users' = [users EXCEPT ![q.target] = row]
    BY DEF Commit
  <1>3. row.name = IF "name" \in q.cols THEN q.row.name ELSE old.name
    BY DEF Overlay
  <1>4. CASE Creates(r)
    <2>1. row = q.row
      BY <1>1, <1>4, OverlayAll
    <2> QED BY <1>1, <1>2, <1>3, <1>4, <2>1
  <1>5. CASE ~Creates(r)
    <2>1. old \in FullRow
      BY <1>1, <1>5, RowFacts DEF IInv, RowInv, Exists
    <2>2. q.cols \subseteq Cols
      BY <1>1 DEF Request
    <2>3. row \in FullRow
      BY <1>1, <2>1, <2>2, OverlayFull
    <2> HIDE DEF row
    <2> QED BY <1>1, <1>2, <1>3, <1>5, <2>3
  <1> QED BY <1>4, <1>5

(* The new name of a committed row collides with no other row.             *)
LEMMA CommitFree ==
  ASSUME IInv, NEW r \in Slots, Commit(r), NEW v \in UserIds \ {req[r].target}
  PROVE  users[v].name # users'[req[r].target].name \/ ~Exists(v)
  <1> DEFINE u == req[r].target
  <1>1. PICK row \in FullRow :
          /\ u \in UserIds
          /\ users' = [users EXCEPT ![u] = row]
          /\ row.name = IF "name" \in req[r].cols
                          THEN req[r].row.name ELSE users[u].name
    BY CommitRow
  <1>2. users'[u].name = row.name
    BY <1>1 DEF IInv, TypeOK
  <1>3. CASE Renames(r)
    <2>1. Claims(r)
      BY <1>3 DEF Claims, Commit
    <2>2. ~Taken(req[r].row.name, u)
      BY <2>1 DEF IInv, ClaimInv
    <2> QED BY <1>1, <1>2, <1>3, <2>2 DEF Taken, Renames
  <1>4. CASE ~Renames(r)
    <2>1. row.name = users[u].name
      BY <1>1, <1>4 DEF Renames
    <2> QED BY <1>1, <1>2, <2>1 DEF IInv, UniqueUsernames
  <1> QED BY <1>3, <1>4

LEMMA CommitStep ==
  ASSUME IInv, NEW r \in Slots, Commit(r)
  PROVE  (RowInv /\ SlotInv /\ LockInv /\ ClaimInv /\ UniqueUsernames)'
  <1> DEFINE u == req[r].target
  <1>1. PICK row \in FullRow :
          /\ u \in UserIds
          /\ users' = [users EXCEPT ![u] = row]
          /\ row.name = IF "name" \in req[r].cols
                          THEN req[r].row.name ELSE users[u].name
    BY CommitRow
  <1>2. /\ req'[r] = Idle
        /\ \A q \in Slots \ {r} : req'[q] = req[q]
    BY DEF Commit, IInv, TypeOK
  <1>3. /\ users'[u] = row
        /\ \A v \in UserIds \ {u} : users'[v] = users[v]
    BY <1>1 DEF IInv, TypeOK
  <1>4. /\ users'[u].name # None
        /\ \A v \in UserIds \ {u} : users'[v].name = users[v].name
    BY <1>1, <1>3, RowFacts
  <1>5. req[r].pc = "commit" /\ req[r].pc \in Loaded
    BY DEF Commit, Loaded
  <1>6. RowInv'
    BY <1>3 DEF IInv, RowInv
  <1>7. \A q \in Slots \ {r} : Creates(q) => req[q].target # u
    BY <1>5 DEF IInv, SlotInv, LockInv
  <1>8. SlotInv'
    <2>1. SlotInv /\ TypeOK
      BY DEF IInv
    <2>2. ASSUME NEW q \in Slots \ {r}, req[q].target \in UserIds
          PROVE  /\ Exists(req[q].target) => users'[req[q].target].name # None
                 /\ req[q].target # u /\ ~Exists(req[q].target) =>
                      users'[req[q].target].name = None
      BY <2>2, <1>4 DEF Exists
    <2>3. ASSUME NEW q \in Slots \ {r}, req[q].pc = "key"
          PROVE  Renames(q)'
      <3>1. Renames(q) /\ Holds(q) /\ req[q].target \in UserIds
        BY <2>1, <2>3 DEF SlotInv, Renames, Holds
      <3>2. CASE req[q].target # u
        BY <3>1, <3>2, <1>2, <1>3 DEF Renames
      <3>3. CASE req[q].target = u
        <4>1. ~Holds(r)
          BY <3>1, <3>3 DEF IInv, LockInv
        <4>2. row.name = users[u].name
          BY <4>1, <1>1, <1>5 DEF Holds
        <4> QED BY <3>1, <3>3, <4>2, <1>2, <1>3 DEF Renames
      <3> QED BY <3>2, <3>3
    <2> SUFFICES ASSUME NEW q \in Slots \ {r}
                 PROVE  (/\ req[q].pc # "idle" => req[q].target \in UserIds
                         /\ req[q].pc = "key" => Renames(q)
                         /\ req[q].pc = "again" => req[q].op = "delete"
                         /\ req[q].pc # "idle" => req[q].op # "idle"
                         /\ req[q].pc \in Loaded => req[q].row \in FullRow
                         /\ req[q].pc \in Loaded /\ ~Creates(q) =>
                              Exists(req[q].target)
                         /\ Creates(q) =>
                              /\ req[q].pc \in {"unique", "key", "commit"}
                              /\ ~Exists(req[q].target)
                              /\ req[q].cols = Cols /\ req[q].row.active)'
      BY <1>2, IdleFacts DEF SlotInv, Creates, Loaded
    <2> QED BY <2>1, <2>2, <2>3, <1>2, <1>7 DEF SlotInv, Creates, Loaded, Exists
  <1>9. ~Holds(r)' /\ ~Creates(r)' /\ ~Claims(r)'
    BY <1>2, IdleFacts DEF Holds, Creates, Claims
  <1>10. \A q \in Slots \ {r} :
           Holds(q)' = Holds(q) /\ Creates(q)' = Creates(q)
    BY <1>2 DEF Holds, Creates
  <1>11. LockInv'
    BY <1>2, <1>9, <1>10 DEF IInv, LockInv
  <1>12. UniqueUsernames'
    <2> SUFFICES ASSUME NEW v \in UserIds, NEW w \in UserIds, v # w, Exists(v)'
                 PROVE  users'[v].name # users'[w].name
      BY DEF UniqueUsernames
    <2>1. CASE v # u /\ w # u
      BY <2>1, <1>3, <1>4 DEF IInv, UniqueUsernames, Exists
    <2>2. CASE v = u
      <3>1. users[w].name # users'[u].name \/ ~Exists(w)
        BY <2>2, CommitFree
      <3> QED BY <3>1, <2>2, <1>3, <1>4 DEF Exists
    <2>3. CASE w = u
      <3>1. users[v].name # users'[u].name \/ ~Exists(v)
        BY <2>3, CommitFree
      <3> QED BY <3>1, <2>3, <1>3, <1>4 DEF Exists
    <2> QED BY <2>1, <2>2, <2>3
  <1>13. ClaimInv'
    <2>1. ASSUME NEW q \in Slots \ {r}, Claims(q)'
          PROVE  Claims(q) /\ users'[req[q].target].name = users[req[q].target].name
      <3>1. /\ req[q].pc = "commit" /\ "name" \in req[q].cols
            /\ req[q].row.name # users'[req[q].target].name
            /\ req[q].target \in UserIds
        BY <2>1, <1>2 DEF Claims, Renames, IInv, SlotInv
      <3>2. CASE req[q].target # u
        BY <3>1, <3>2, <1>3 DEF Claims, Renames
      <3>3. CASE req[q].target = u
        <4>1. Holds(q) /\ ~Holds(r)
          BY <3>1, <3>3 DEF IInv, LockInv, Holds
        <4>2. row.name = users[u].name
          BY <4>1, <1>1, <1>5 DEF Holds
        <4> QED BY <3>1, <3>3, <4>2, <1>3 DEF Claims, Renames
      <3> QED BY <3>2, <3>3
    <2>2. ASSUME NEW q \in Slots \ {r}, Claims(q)',
                 NEW v \in UserIds \ {req[q].target}
          PROVE  users'[v].name # req[q].row.name
      <3>1. Claims(q) /\ ~Taken(req[q].row.name, req[q].target)
        BY <2>1, <2>2 DEF IInv, ClaimInv
      <3>2. users[v].name # req[q].row.name
        BY <3>1 DEF Taken
      <3>3. CASE v # u
        BY <3>2, <3>3, <1>3
      <3>4. CASE v = u /\ Renames(r)
        <4>1. Claims(r)
          BY <3>4, <1>5 DEF Claims
        <4>2. req[r].row.name # req[q].row.name
          BY <4>1, <3>1 DEF IInv, ClaimInv
        <4> QED BY <4>2, <3>4, <1>1, <1>3 DEF Renames
      <3>5. CASE v = u /\ ~Renames(r)
        BY <3>2, <3>5, <1>1, <1>3 DEF Renames
      <3> QED BY <3>3, <3>4, <3>5
    <2>3. ASSUME NEW q \in Slots, Claims(q)'
          PROVE  /\ ~Taken(req[q].row.name, req[q].target)'
                 /\ \A p \in Slots \ {q} : Claims(p)' =>
                      req'[p].row.name # req'[q].row.name
      <3>1. q # r
        BY <2>3, <1>9
      <3>2. Claims(q) /\ req'[q] = req[q]
        BY <2>1, <2>3, <3>1, <1>2
      <3>3. ~Taken(req[q].row.name, req[q].target)'
        BY <2>2, <2>3, <3>1, <3>2 DEF Taken
      <3>4. ASSUME NEW p \in Slots \ {q}, Claims(p)'
            PROVE  req'[p].row.name # req'[q].row.name
        <4>1. p # r
          BY <3>4, <1>9
        <4>2. Claims(p) /\ req'[p] = req[p]
          BY <2>1, <3>4, <4>1, <1>2
        <4> QED BY <4>2, <3>2 DEF IInv, ClaimInv
      <3> QED BY <3>3, <3>4
    <2> QED BY <2>3 DEF ClaimInv
  <1> QED BY <1>6, <1>8, <1>11, <1>12, <1>13

-----------------------------------------------------------------------------
(* The theorems. *)

Quiet(r) ==
  \/ \E a \in UserIds : Arrive(r, a)
  \/ AuthenticateAgain(r) \/ Load(r) \/ Unique(r) \/ Save(r) \/ Flush(r)
  \/ KeyFree(r) \/ KeyTaken(r) \/ Abort(r) \/ DeadlockVictim(r)

LEMMA QuietSlot ==
  ASSUME IInv, NEW r \in Slots, Quiet(r)
  PROVE  /\ users' = users
         /\ \E x \in Request : req' = [req EXCEPT ![r] = x] /\ Fits(r, x)
  <1>1. users' = users
    BY DEF Quiet, Arrive, AuthenticateAgain, Load, Unique, Save, Flush,
           KeyFree, KeyTaken, Abort, DeadlockVictim
  <1>2. CASE KeyTaken(r) \/ Abort(r) \/ DeadlockVictim(r)
    BY <1>2, EndSlot DEF KeyTaken, Abort, DeadlockVictim
  <1> QED
    BY <1>1, <1>2, ArriveSlot, AuthenticateAgainSlot, LoadSlot, UniqueSlot,
       SaveSlot, FlushSlot, KeyFreeSlot DEF Quiet

LEMMA TypeStep == ASSUME IInv, [Next]_vars PROVE TypeOK'
  <1>1. ASSUME NEW r \in Slots, Quiet(r)
        PROVE  (users \in [UserIds -> Row] /\ req \in [Slots -> Request])'
    BY <1>1, QuietSlot DEF IInv, TypeOK
  <1>2. ASSUME NEW r \in Slots, Commit(r)
        PROVE  (users \in [UserIds -> Row] /\ req \in [Slots -> Request])'
    <2>1. PICK row \in FullRow : users' = [users EXCEPT ![req[r].target] = row]
      BY <1>2, CommitRow
    <2>2. users' \in [UserIds -> Row]
      BY <2>1, RowFacts DEF IInv, TypeOK
    <2> QED BY <1>2, <2>2, IdleFacts DEF Commit, IInv, TypeOK
  <1>3. ASSUME NEW r \in Slots, Quiet(r) \/ Commit(r)
        PROVE  live' \subseteq UserIds
               /\ failed' \subseteq {"create", "update", "chpass", "delete"}
                                      \X {"auth", "duplicate", "deadlock"}
    <2>1. req[r].pc # "idle" =>
            req[r].op \in {"create", "update", "chpass", "delete"}
      BY DEF IInv, TypeOK, SlotInv, Request
    <2>2. live' = live
      BY <1>3 DEF Quiet, Arrive, AuthenticateAgain, Load, Unique, Save, Flush,
                  KeyFree, KeyTaken, Abort, DeadlockVictim, Commit
    <2>3. DeadlockVictim(r) => req[r].pc # "idle"
      BY DEF DeadlockVictim, InCircle, WaitsFor, WaitsForRow, WaitsForKey
    <2>4. \/ failed' = failed
          \/ \E c \in {"auth", "duplicate", "deadlock"} :
               req[r].pc # "idle" /\ failed' = failed \cup {<<req[r].op, c>>}
      BY <1>3, <2>3 DEF Quiet, Arrive, AuthenticateAgain, Load, Unique, Save,
           Flush, KeyFree, KeyTaken, Abort, DeadlockVictim, Commit
    <2> QED BY <2>1, <2>2, <2>4 DEF IInv, TypeOK
  <1>4. CASE UNCHANGED vars \/ \E r \in Slots : Refuse(r)
    BY <1>4 DEF IInv, TypeOK, vars, Refuse
  <1>5. ASSUME NEW u \in UserIds, StartSession(u) \/ EndSession(u) PROVE TypeOK'
    BY <1>5 DEF IInv, TypeOK, StartSession, EndSession
  <1> QED BY <1>1, <1>2, <1>3, <1>4, <1>5 DEF Next, Advance, TypeOK, Quiet

LEMMA InitInv == Init => IInv
  <1> SUFFICES ASSUME Init PROVE IInv
    OBVIOUS
  <1>1. PICK a \in UserIds, n \in Names, p \in Passwords :
          users = [u \in UserIds |->
            IF u = a THEN [name |-> n, pw |-> p, role |-> Admin, active |-> TRUE]
            ELSE Absent]
    BY DEF Init
  <1> DEFINE first == [name |-> n, pw |-> p, role |-> Admin, active |-> TRUE]
  <1>2. first \in FullRow
    BY DEF FullRow, Directory!FullRow, Roles
  <1>3. \A u \in UserIds : users[u] = IF u = a THEN first ELSE Absent
    BY <1>1
  <1>4. \A r \in Slots : req[r] = Idle
    BY DEF Init
  <1>5. TypeOK
    BY <1>1, <1>2, RowFacts, IdleFacts DEF Init, TypeOK
  <1>6. RowInv
    BY <1>2, <1>3 DEF RowInv
  <1>7. SlotInv /\ LockInv /\ ClaimInv
    BY <1>4, IdleFacts
    DEF SlotInv, LockInv, ClaimInv, Holds, Creates, Claims, Loaded
  <1>8. UniqueUsernames
    BY <1>2, <1>3, RowFacts DEF UniqueUsernames, Exists
  <1> QED BY <1>5, <1>6, <1>7, <1>8 DEF IInv

LEMMA Inductive == IInv /\ [Next]_vars => IInv'
  <1> SUFFICES ASSUME IInv, [Next]_vars
               PROVE  (RowInv /\ SlotInv /\ LockInv /\ ClaimInv
                         /\ UniqueUsernames)'
    BY TypeStep DEF IInv
  <1>1. ASSUME NEW r \in Slots, Quiet(r)
        PROVE  (RowInv /\ SlotInv /\ LockInv /\ ClaimInv /\ UniqueUsernames)'
    BY <1>1, QuietSlot, QuietStep
  <1>2. ASSUME NEW r \in Slots, Commit(r)
        PROVE  (RowInv /\ SlotInv /\ LockInv /\ ClaimInv /\ UniqueUsernames)'
    BY <1>2, CommitStep
  <1>3. CASE users' = users /\ req' = req
    BY <1>3
    DEF IInv, RowInv, SlotInv, LockInv, ClaimInv, UniqueUsernames, Exists,
        Creates, Holds, Claims, Renames, Taken
  <1>4. \/ \E r \in Slots : Quiet(r) \/ Commit(r)
        \/ users' = users /\ req' = req
    BY DEF Next, Advance, Quiet, Refuse, StartSession, EndSession, vars
  <1> QED BY <1>1, <1>2, <1>3, <1>4

LEMMA Invariance == Spec => []IInv
  BY InitInv, Inductive, PTL DEF Spec

(* Users.tla's TypeOK: rows and requests only ever hold values of the      *)
(* columns they belong to, whatever the repositories write.                *)
THEOREM TypeCorrect == Spec => []TypeOK
  <1>1. IInv => TypeOK
    BY DEF IInv
  <1> QED BY <1>1, Invariance, PTL

(* However many creations and renamings pass ensure_username_unique at the *)
(* same time, no two committed rows carry one username.                    *)
THEOREM UsernamesStayUnique == Spec => []UniqueUsernames
  <1>1. IInv => UniqueUsernames
    BY DEF IInv
  <1> QED BY <1>1, Invariance, PTL

(* Only renamings deadlock: a request that waits for a row holds nothing   *)
(* yet, so nobody waits for it, and one that waits for a username is       *)
(* giving its row a new one.                                               *)
THEOREM OnlyRenamingsDeadlock == Spec => []CirclesAreRenamings
  <1>1. IInv => CirclesAreRenamings
    <2> SUFFICES ASSUME IInv, NEW r \in Slots, InCircle(r)
                 PROVE  req[r].pc = "key" /\ Renames(r)
      BY DEF CirclesAreRenamings
    <2>0. PICK C \in SUBSET Slots : \E next \in Bijection(C, C) :
            r \in C /\ \A x \in C : WaitsFor(x, next[x])
      BY DEF InCircle
    <2>1. PICK next \in Bijection(C, C) :
            r \in C /\ \A x \in C : WaitsFor(x, next[x])
      BY <2>0
    <2>2. PICK y \in C : next[y] = r
      BY <2>1 DEF Bijection, Surjection
    <2>3. Holds(r)
      BY <2>1, <2>2 DEF WaitsFor, WaitsForRow, WaitsForKey
    <2>4. req[r].pc \in {"flush", "key"}
      BY <2>1 DEF WaitsFor, WaitsForRow, WaitsForKey
    <2> QED BY <2>3, <2>4 DEF Holds, IInv, SlotInv
  <1> QED BY <1>1, Invariance, PTL

(* A DuplicateUsernameError becomes a 500 only where the unit of work      *)
(* commits what the failed flush has rolled back: never in CreateUser, and *)
(* in UpdateUser on SQLAlchemy only.                                       *)
THEOREM LostRacesAreConflicts == Spec => []LostRaceIsConflict
  <1>1. Init => LostRaceIsConflict
    BY DEF Init, LostRaceIsConflict
  <1>2. LostRaceIsConflict /\ [Next]_vars => LostRaceIsConflict'
    <2> SUFFICES ASSUME LostRaceIsConflict, [Next]_vars
                 PROVE  LostRaceIsConflict'
      OBVIOUS
    <2>1. ASSUME NEW r \in Slots, AuthenticateAgain(r) \/ DeadlockVictim(r)
          PROVE  LostRaceIsConflict'
      <3>1. \/ failed' = failed
            \/ \E c \in {"auth", "deadlock"} :
                 failed' = failed \cup {<<req[r].op, c>>}
        BY <2>1 DEF AuthenticateAgain, DeadlockVictim
      <3> QED BY <3>1 DEF LostRaceIsConflict
    <2>2. ASSUME NEW r \in Slots, KeyTaken(r) PROVE LostRaceIsConflict'
      <3>1. \/ failed' = failed
            \/ /\ Backend = "sqlalchemy" /\ req[r].op # "create"
               /\ failed' = failed \cup {<<req[r].op, "duplicate">>}
        BY <2>2 DEF KeyTaken, DuplicateFails
      <3> QED BY <3>1 DEF LostRaceIsConflict
    <2>3. CASE failed' = failed
      BY <2>3 DEF LostRaceIsConflict
    <2> QED
      BY <2>1, <2>2, <2>3
      DEF Next, Advance, Arrive, Refuse, Load, Unique, Save, Flush, KeyFree,
          Commit, Abort, StartSession, EndSession, vars
  <1> QED BY <1>1, <1>2, PTL DEF Spec

(* On Django every statement that is under way sets all columns.           *)
WholeRows ==
  Backend = "django" =>
    \A r \in Slots : /\ req[r].pc # "save"
                     /\ req[r].pc \in {"flush", "key", "commit"} =>
                          req[r].cols = Cols

LEMMA WholeRowsStep ==
  ASSUME IInv, WholeRows, [Next]_vars
  PROVE  WholeRows'
  <1> SUFFICES ASSUME Backend = "django"
               PROVE  \A r \in Slots :
                        /\ req'[r].pc # "save"
                        /\ req'[r].pc \in {"flush", "key", "commit"} =>
                             req'[r].cols = Cols
    BY DEF WholeRows
  <1> DEFINE Fine(x) == /\ x.pc # "save"
                        /\ x.pc \in {"flush", "key", "commit"} => x.cols = Cols
  <1>1. \A r \in Slots : req[r] \in Request /\ Fine(req[r])
    BY DEF IInv, TypeOK, WholeRows
  <1>2. ASSUME NEW r \in Slots, NEW x,
               req' = [req EXCEPT ![r] = x], Fine(x)
        PROVE  \A q \in Slots : Fine(req'[q])
    BY <1>1, <1>2 DEF IInv, TypeOK
  <1>3. Fine(Idle)
    BY IdleFacts
  <1>4. ASSUME NEW r \in Slots, NEW own PROVE Fine(Changed(req[r], own))
    <2> DEFINE x == [req[r] EXCEPT
                       !.row = Overlay(own, req[r].asked, AskedCols(req[r])),
                       !.cols = Cols, !.pc = "flush"]
    <2>1. x.pc = "flush" /\ x.cols = Cols
      BY <1>1 DEF Request
    <2>2. Changed(req[r], own) = Idle \/ Changed(req[r], own) = x
      BY DEF Changed
    <2> HIDE DEF x
    <2> QED BY <1>3, <2>1, <2>2
  <1>5. ASSUME NEW r \in Slots, NEW a \in UserIds, Arrive(r, a)
        PROVE  \E x : req' = [req EXCEPT ![r] = x] /\ Fine(x)
    <2>1. ASSUME NEW x, x.pc \in {"unique", "load", "again"} PROVE Fine(x)
      BY <2>1
    <2>2. ASSUME NEW x, req' = [req EXCEPT ![r] = x],
                 x.pc \in {"unique", "load", "again"}
          PROVE  \E y : req' = [req EXCEPT ![r] = y] /\ Fine(y)
      BY <2>1, <2>2
    <2> HIDE DEF Fine
    <2>3. CASE Create(r)
      <3>1. PICK u \in FreshIds, n \in Names, p \in Passwords,
                 g \in AskedRoles :
              LET new == [name |-> n, pw |-> p, role |-> g, active |-> TRUE] IN
              req' = [req EXCEPT ![r] =
                [op |-> "create", pc |-> "unique", actor |-> None, target |-> u,
                 asked |-> new, row |-> new, cols |-> Cols]]
        BY <2>3 DEF Create
      <3> QED BY <3>1, <2>2
    <2>4. CASE Update(r)
      <3>1. PICK u \in UserIds, n \in Names \cup {None},
                 g \in AskedRoles \cup {None} :
              req' = [req EXCEPT ![r] =
                [op |-> "update", pc |-> "load", actor |-> None, target |-> u,
                 asked |-> [Nothing EXCEPT !.name = n, !.role = g],
                 row |-> Absent, cols |-> {}]]
        BY <2>4 DEF Update
      <3> QED BY <3>1, <2>2
    <2>5. CASE ChangePassword(r)
      <3>1. PICK u \in UserIds, p \in Passwords :
              req' = [req EXCEPT ![r] =
                [op |-> "chpass", pc |-> "load", actor |-> None, target |-> u,
                 asked |-> [Nothing EXCEPT !.pw = p],
                 row |-> Absent, cols |-> {}]]
        BY <2>5 DEF ChangePassword
      <3> QED BY <3>1, <2>2
    <2>6. CASE Delete(r, a)
      <3>1. PICK u \in UserIds :
              req' = [req EXCEPT ![r] =
                [op |-> "delete", pc |-> "again", actor |-> a, target |-> u,
                 asked |-> [Nothing EXCEPT !.active = FALSE],
                 row |-> Absent, cols |-> {}]]
        BY <2>6 DEF Delete
      <3> QED BY <3>1, <2>2
    <2> QED BY <1>5, <2>3, <2>4, <2>5, <2>6 DEF Arrive
  <1>6. ASSUME NEW r \in Slots
        PROVE  /\ Fine([req[r] EXCEPT !.pc = "load", !.actor = None])
               /\ \A own : Fine([req[r] EXCEPT !.pc = "unique", !.row = own])
    BY <1>1 DEF Request
  <1>7. ASSUME NEW r \in Slots, NEW p \in {"key", "commit"},
               req[r].cols = Cols
        PROVE  Fine([req[r] EXCEPT !.pc = p])
    BY <1>1, <1>7 DEF Request
  <1>8. ASSUME NEW r \in Slots, AuthenticateAgain(r) \/ Load(r)
        PROVE  \E x : req' = [req EXCEPT ![r] = x] /\ Fine(x)
    BY <1>3, <1>4, <1>6, <1>8 DEF AuthenticateAgain, Load
  <1>9. ASSUME NEW r \in Slots, Unique(r)
        PROVE  \E x : req' = [req EXCEPT ![r] = x] /\ Fine(x)
    <2>1. req[r].op = "create" => req[r].cols = Cols
      BY DEF IInv, SlotInv, Creates
    <2>2. \/ req' = [req EXCEPT ![r] = Idle]
          \/ /\ req[r].op = "create"
             /\ req' = [req EXCEPT ![r] = [req[r] EXCEPT !.pc = "key"]]
          \/ req' = [req EXCEPT ![r] = Changed(req[r], req[r].row)]
      BY <1>9 DEF Unique
    <2> QED BY <1>3, <1>4, <1>7, <2>1, <2>2
  <1>10. ASSUME NEW r \in Slots, Flush(r) \/ KeyFree(r)
         PROVE  \E x : req' = [req EXCEPT ![r] = x] /\ Fine(x)
    <2>1. req[r].cols = Cols
      BY <1>1, <1>10 DEF Flush, KeyFree
    <2>2. \E p \in {"key", "commit"} :
            req' = [req EXCEPT ![r] = [req[r] EXCEPT !.pc = p]]
      BY <1>10 DEF Flush, KeyFree, IInv, TypeOK
    <2> QED BY <1>7, <2>1, <2>2
  <1>11. ASSUME NEW r \in Slots,
                KeyTaken(r) \/ Commit(r) \/ Abort(r) \/ DeadlockVictim(r)
         PROVE  \E x : req' = [req EXCEPT ![r] = x] /\ Fine(x)
    BY <1>3, <1>11 DEF KeyTaken, Commit, Abort, DeadlockVictim
  <1>12. ASSUME NEW r \in Slots, Save(r) PROVE FALSE
    BY <1>1, <1>12 DEF Save
  <1>13. CASE req' = req
    BY <1>1, <1>13
  <1> QED
    BY <1>2, <1>5, <1>8, <1>9, <1>10, <1>11, <1>12, <1>13
    DEF Next, Advance, Refuse, StartSession, EndSession, vars

(* On Django what a change is answered with is the committed row, whatever *)
(* other requests wrote to that row since it was loaded: the UPDATE sets   *)
(* every column.                                                           *)
THEOREM AnswersMatchRows == Backend = "django" /\ Spec => AnswerIsTheRow
  <1> SUFFICES ASSUME Backend = "django" PROVE Spec => AnswerIsTheRow
    OBVIOUS
  <1>1. Init => WholeRows
    BY IdleFacts DEF Init, WholeRows
  <1>2. IInv /\ WholeRows /\ [Next]_vars => WholeRows'
    BY WholeRowsStep
  <1>3. IInv /\ WholeRows /\ [Next]_vars =>
          [\A r \in Slots :
             req[r].pc = "commit" /\ users' # users /\ req'[r].pc = "idle" =>
               users'[req[r].target] = req[r].row]_vars
    <2> SUFFICES ASSUME IInv, WholeRows, [Next]_vars, NEW r \in Slots,
                        req[r].pc = "commit", users' # users,
                        req'[r].pc = "idle"
                 PROVE  users'[req[r].target] = req[r].row
      OBVIOUS
    <2>1. PICK q \in Slots : Commit(q)
      <3>1. ASSUME NEW q \in Slots, Quiet(q) PROVE users' = users
        BY <3>1, QuietSlot
      <3> QED BY <3>1 DEF Next, Advance, Quiet, Refuse, StartSession,
                          EndSession, vars
    <2>2. q = r
      BY <2>1 DEF Commit, IInv, TypeOK
    <2>3. req[r].target \in UserIds /\ req[r].row \in FullRow
      BY DEF IInv, SlotInv, Loaded
    <2>4. users' = [users EXCEPT ![req[r].target] =
             Overlay(users[req[r].target], req[r].row, req[r].cols)]
      BY <2>1, <2>2 DEF Commit
    <2>5. Overlay(users[req[r].target], req[r].row, req[r].cols) = req[r].row
      BY <2>3, OverlayAll DEF WholeRows
    <2> QED BY <2>3, <2>4, <2>5 DEF IInv, TypeOK
  <1> QED BY <1>1, <1>2, <1>3, Invariance, PTL DEF Spec, AnswerIsTheRow

-----------------------------------------------------------------------------
(* Refinement. *)

LEMMA RefinesInit == Init => Directory!Init
  <1> SUFFICES ASSUME Init PROVE Directory!Init
    OBVIOUS
  <1>1. PICK a \in UserIds, n \in Names, p \in Passwords :
          users = [u \in UserIds |->
            IF u = a THEN [name |-> n, pw |-> p, role |-> Admin, active |-> TRUE]
            ELSE Absent]
    BY DEF Init
  <1>2. [name |-> n, pw |-> p, role |-> Admin, active |-> TRUE]
          \in Directory!FullRow
    BY DEF Directory!FullRow, Roles
  <1> QED BY <1>1, <1>2 DEF Directory!Init, Directory!Absent, Absent

LEMMA RefinesStep == IInv /\ [Next]_vars => [Directory!Next]_users
  <1> SUFFICES ASSUME IInv, [Next]_vars PROVE [Directory!Next]_users
    OBVIOUS
  <1>1. ASSUME NEW r \in Slots, Commit(r) PROVE Directory!Next
    <2> DEFINE u == req[r].target
    <2>1. PICK row \in FullRow :
            /\ u \in UserIds
            /\ users' = [users EXCEPT ![u] = row]
            /\ Creates(r) => row.active
      BY <1>1, CommitRow
    <2>2. users'[u] = row /\ row.name # None
      BY <2>1, RowFacts DEF IInv, TypeOK
    <2>3. Directory!Free(row.name, u)
      <3> SUFFICES ASSUME NEW v \in UserIds \ {u}
                   PROVE  users[v].name # row.name
        BY DEF Directory!Free
      <3>1. users[v].name # users'[u].name \/ ~Exists(v)
        BY <1>1, CommitFree
      <3> QED BY <3>1, <2>2 DEF Exists
    <2>4. CASE Creates(r)
      <3>1. ~Directory!Exists(u)
        BY <2>4 DEF IInv, SlotInv, Exists, Directory!Exists
      <3>2. Directory!Register(u, row)
        BY <2>1, <2>3, <2>4, <3>1 DEF Directory!Register
      <3> QED BY <2>1, <3>2 DEF Directory!Next, FullRow
    <2>5. CASE ~Creates(r)
      <3>1. Directory!Exists(u)
        BY <1>1, <2>5 DEF IInv, SlotInv, Commit, Loaded, Exists, Directory!Exists
      <3>2. Directory!Change(u, row)
        BY <2>1, <2>3, <3>1 DEF Directory!Change
      <3> QED BY <2>1, <3>2 DEF Directory!Next, FullRow
    <2> QED BY <2>4, <2>5
  <1>2. ASSUME NEW r \in Slots, Quiet(r) PROVE users' = users
    BY <1>2, QuietSlot
  <1>3. \/ \E r \in Slots : Quiet(r) \/ Commit(r)
        \/ users' = users
    BY DEF Next, Advance, Quiet, Refuse, StartSession, EndSession, vars
  <1> QED BY <1>1, <1>2, <1>3

(* The use cases, with all their statements, locks and failures, implement *)
(* the atomic directory their port promises.                               *)
THEOREM DirectoryImplemented == Spec => ImplementsDirectory
  BY Invariance, RefinesInit, RefinesStep, PTL
  DEF Spec, ImplementsDirectory, Directory!Spec
=============================================================================
