--------------------------- MODULE SessionsProofs ---------------------------
(***************************************************************************)
(* Proofs about Sessions.tla, for any number of users, sessions, tokens    *)
(* and requests, either persistence stack and any lifetimes.               *)
(*                                                                         *)
(* The inductive invariant has two parts beside the types.  RowInv says    *)
(* what a request in flight may rely on about the rows it is going to      *)
(* write; TokenInv says that tokens name sessions one way only, including  *)
(* the tokens that are still inside uncommitted transactions.              *)
(***************************************************************************)
EXTENDS Sessions, TLAPS

(* What is known of the rows a request in flight refers to. *)
RowInv ==
  /\ \A s \in SessionIds :
       /\ ~Exists(s) => ~sessions[s].revoked
       /\ jwt[s] > 0 => Exists(s)
  /\ \A r \in Slots :
       /\ req[r].pc = "idle" \/ req[r].op = "idle" => req[r] = Idle
       /\ req[r].op # "idle" =>
            /\ req[r].sid \in SessionIds
            /\ req[r].user \in Users
       /\ req[r].op = "login" =>
            /\ ~Exists(req[r].sid)
            /\ \A q \in Slots \ {r} : req[q].sid # req[r].sid
       /\ req[r].op = "logout" =>
            req[r].sid \in req[r].rows \/ sessions[req[r].sid].revoked
       /\ req[r].op \in {"refresh", "logout"} => Exists(req[r].sid)
       /\ \A s \in req[r].rows : sessions[s].user = req[r].user

(* Where a token may turn up. *)
TokenInv ==
  /\ \A r \in Slots :
       /\ req[r].new # None =>
            /\ tokenOf[req[r].new] = None
            /\ \A q \in Slots \ {r} : req[q].new # req[r].new
       /\ req[r].op \in {"login", "refresh"} => req[r].new # None
       /\ req[r].op = "refresh" =>
            req[r].tok # None /\ tokenOf[req[r].tok] = req[r].sid
  /\ \A s \in SessionIds :
       sessions[s].hash # None => tokenOf[sessions[s].hash] = s
  /\ \A t \in Tokens : grants[t] > 0 => tokenOf[t] # None

LoggedOutInv == \A s \in loggedOut : sessions[s].revoked

IInv == TypeOK /\ RowInv /\ TokenInv /\ LoggedOutInv /\ SpentTokensAreDead

-----------------------------------------------------------------------------
(* What each action puts into its slot.                                    *)

LEMMA IdleFacts ==
  /\ Idle \in Request /\ Idle.op = "idle" /\ Idle.pc = "idle"
  /\ Idle.user = None /\ Idle.sid = None /\ Idle.tok = None
  /\ Idle.new = None /\ Idle.rows = {}
  BY DEF Idle, Request

LEMMA LoginAuthenticateSlot ==
  ASSUME TypeOK, NEW r \in Slots, NEW u \in Users, LoginAuthenticate(r, u)
  PROVE  \E x \in Request :
           /\ req' = [req EXCEPT ![r] = x]
           /\ x.op = "login" /\ x.pc = "create" /\ x.user = u /\ x.tok = None
           /\ x.sid \in FreshSessions /\ x.new \in FreshTokens /\ x.rows = {}
  <1>1. PICK s \in FreshSessions, t \in FreshTokens :
          req' = [req EXCEPT ![r] =
            [op |-> "login", pc |-> "create", user |-> u, sid |-> s,
             tok |-> None, new |-> t, expires |-> 0, access |-> 0,
             rows |-> {}]]
    BY DEF LoginAuthenticate
  <1>2. s \in SessionIds /\ t \in Tokens
    BY DEF FreshSessions, FreshTokens
  <1> DEFINE x == [op |-> "login", pc |-> "create", user |-> u, sid |-> s,
                   tok |-> None, new |-> t, expires |-> 0, access |-> 0,
                   rows |-> {}]
  <1>3. x \in Request
    BY <1>2 DEF Request
  <1>4. /\ x.op = "login" /\ x.pc = "create" /\ x.user = u /\ x.sid = s
        /\ x.tok = None /\ x.new = t /\ x.rows = {}
    OBVIOUS
  <1>5. req' = [req EXCEPT ![r] = x]
    BY <1>1
  <1> HIDE DEF x
  <1> QED BY <1>3, <1>4, <1>5

LEMMA LoginSelectSlot ==
  ASSUME TypeOK, NEW r \in Slots, LoginSelect(r)
  PROVE  \E x \in Request :
           /\ req' = [req EXCEPT ![r] = x]
           /\ x.op = "login" /\ x.pc = "flush"
           /\ x.user = req[r].user /\ x.sid = req[r].sid
           /\ x.tok = req[r].tok /\ x.new = req[r].new
           /\ x.rows \in Excess(req[r].user)
  <1>1. PICK E \in Excess(req[r].user) :
          req' = [req EXCEPT ![r].pc = "flush", ![r].rows = E,
                             ![r].expires = now + SessionTTL]
    BY DEF LoginSelect
  <1> DEFINE x == [req[r] EXCEPT !.pc = "flush", !.rows = E,
                                 !.expires = now + SessionTTL]
  <1>2. E \subseteq SessionIds
    BY DEF Excess, Competing, CompetingSQL, CompetingDjango
  <1>3. req[r] \in Request /\ now + SessionTTL \in Nat
    BY SessionsAssumption DEF TypeOK
  <1>4. x \in Request
    BY <1>2, <1>3 DEF Request
  <1>5. /\ x.op = req[r].op /\ x.pc = "flush" /\ x.user = req[r].user
        /\ x.sid = req[r].sid /\ x.tok = req[r].tok /\ x.new = req[r].new
        /\ x.rows = E
    BY <1>3 DEF Request
  <1>6. req' = [req EXCEPT ![r] = x]
    BY <1>1 DEF TypeOK
  <1> HIDE DEF x
  <1> QED BY <1>4, <1>5, <1>6 DEF LoginSelect

LEMMA RefreshSelectSlot ==
  ASSUME TypeOK, NEW r \in Slots, NEW t \in Tokens, RefreshSelect(r, t)
  PROVE  \E x \in Request :
           /\ req' = [req EXCEPT ![r] = x]
           /\ x.op = "refresh" /\ x.pc = "flush" /\ x.tok = t
           /\ x.sid \in SessionIds /\ Refreshable(t, x.sid)
           /\ x.user = sessions[x.sid].user
           /\ x.new \in FreshTokens /\ x.rows = {x.sid}
  <1>1. PICK s \in SessionIds, n \in FreshTokens :
          /\ Refreshable(t, s)
          /\ req' = [req EXCEPT ![r] =
               [op |-> "refresh", pc |-> "flush", user |-> sessions[s].user,
                sid |-> s, tok |-> t, new |-> n, expires |-> now + SessionTTL,
                access |-> 0, rows |-> {s}]]
    BY DEF RefreshSelect
  <1>2. /\ n \in Tokens /\ sessions[s].user \in Users \cup {None}
        /\ now + SessionTTL \in Nat
    BY SessionsAssumption DEF FreshTokens, TypeOK, Row
  <1> DEFINE x ==
        [op |-> "refresh", pc |-> "flush", user |-> sessions[s].user,
         sid |-> s, tok |-> t, new |-> n, expires |-> now + SessionTTL,
         access |-> 0, rows |-> {s}]
  <1>3. x \in Request
    BY <1>2 DEF Request
  <1>4. /\ x.op = "refresh" /\ x.pc = "flush" /\ x.user = sessions[s].user
        /\ x.sid = s /\ x.tok = t /\ x.new = n /\ x.rows = {s}
    OBVIOUS
  <1>5. req' = [req EXCEPT ![r] = x]
    BY <1>1
  <1> HIDE DEF x
  <1> QED BY <1>1, <1>3, <1>4, <1>5

LEMMA LogoutSelectSlot ==
  ASSUME TypeOK, NEW r \in Slots, NEW s \in SessionIds, LogoutSelect(r, s)
  PROVE  \E x \in Request :
           /\ req' = [req EXCEPT ![r] = x]
           /\ x.op = "logout" /\ x.pc \in {"flush", "commit"} /\ x.sid = s
           /\ x.user = sessions[s].user /\ x.tok = None /\ x.new = None
           /\ x.rows = IF sessions[s].revoked THEN {} ELSE {s}
  <1>1. sessions[s].user \in Users \cup {None}
    BY DEF TypeOK, Row
  <1> DEFINE x ==
        [op |-> "logout", pc |-> IF sessions[s].revoked THEN "commit" ELSE "flush",
         user |-> sessions[s].user, sid |-> s, tok |-> None, new |-> None,
         expires |-> 0, access |-> 0,
         rows |-> IF sessions[s].revoked THEN {} ELSE {s}]
  <1>2. x \in Request
    BY <1>1 DEF Request
  <1> QED BY <1>2 DEF LogoutSelect

LEMMA FlushSlot ==
  ASSUME TypeOK, NEW r \in Slots, Flush(r)
  PROVE  \E x \in Request :
           /\ req' = [req EXCEPT ![r] = x]
           /\ req[r].pc = "flush" /\ x.pc = "commit"
           /\ x.op = req[r].op /\ x.user = req[r].user /\ x.sid = req[r].sid
           /\ x.tok = req[r].tok /\ x.new = req[r].new
           /\ x.rows = req[r].rows
  <1> DEFINE a == IF req[r].op = "logout" THEN 0 ELSE now + AccessTTL
             x == [req[r] EXCEPT !.pc = "commit", !.access = a]
  <1>1. req[r] \in Request /\ a \in Nat
    BY SessionsAssumption DEF TypeOK
  <1>2. req' = [req EXCEPT ![r] = x] /\ req[r].pc = "flush"
    BY DEF Flush, TypeOK
  <1> HIDE DEF a
  <1>3. x \in Request
    BY <1>1 DEF Request
  <1>4. /\ x.op = req[r].op /\ x.pc = "commit" /\ x.user = req[r].user
        /\ x.sid = req[r].sid /\ x.tok = req[r].tok /\ x.new = req[r].new
        /\ x.rows = req[r].rows
    BY <1>1 DEF Request
  <1> HIDE DEF x
  <1> QED BY <1>2, <1>3, <1>4

(* What each commit does to the rows, column by column.                    *)

LEMMA LoginCommitRows ==
  ASSUME TypeOK, NEW r \in Slots, LoginCommit(r)
  PROVE  /\ sessions' \in [SessionIds -> Row]
         /\ \A s \in SessionIds :
              IF s = req[r].sid
                THEN /\ sessions'[s].user = req[r].user
                     /\ ~sessions'[s].revoked
                     /\ sessions'[s].hash = req[r].new
                ELSE /\ sessions'[s].user = sessions[s].user
                     /\ sessions'[s].revoked <=>
                          s \in req[r].rows \/ sessions[s].revoked
                     /\ sessions'[s].hash = sessions[s].hash
  <1> DEFINE new == [user |-> req[r].user, expires |-> req[r].expires,
                     revoked |-> FALSE, hash |-> req[r].new]
             old(s) == [sessions[s] EXCEPT !.revoked = TRUE]
  <1>1. sessions' = [s \in SessionIds |->
          IF s = req[r].sid THEN new
          ELSE IF s \in req[r].rows THEN old(s) ELSE sessions[s]]
    BY DEF LoginCommit
  <1>2. new \in Row
    BY DEF TypeOK, Request, Row
  <1>3. ASSUME NEW s \in SessionIds
        PROVE  /\ old(s) \in Row /\ old(s).user = sessions[s].user
               /\ old(s).revoked = TRUE /\ old(s).hash = sessions[s].hash
    BY DEF TypeOK, Row
  <1>4. new.user = req[r].user /\ new.revoked = FALSE /\ new.hash = req[r].new
    OBVIOUS
  <1>5. \A s \in SessionIds : sessions[s] \in Row
    BY DEF TypeOK
  <1> HIDE DEF new, old
  <1> QED BY <1>1, <1>2, <1>3, <1>4, <1>5

LEMMA RefreshCommitRows ==
  ASSUME TypeOK, NEW r \in Slots, RefreshCommit(r)
  PROVE  /\ sessions' \in [SessionIds -> Row]
         /\ \A s \in SessionIds :
              /\ sessions'[s].user = sessions[s].user
              /\ sessions'[s].revoked = sessions[s].revoked
              /\ sessions'[s].hash =
                   IF s = req[r].sid THEN req[r].new ELSE sessions[s].hash
  <1> DEFINE row(s) == [sessions[s] EXCEPT !.hash = req[r].new,
                                           !.expires = req[r].expires]
  <1>1. sessions' = [sessions EXCEPT ![req[r].sid] = row(req[r].sid)]
    BY DEF RefreshCommit, TypeOK
  <1>2. req[r].new \in Tokens \cup {None} /\ req[r].expires \in Nat
    BY DEF TypeOK, Request
  <1>3. ASSUME NEW s \in SessionIds
        PROVE  /\ row(s) \in Row /\ row(s).user = sessions[s].user
               /\ row(s).revoked = sessions[s].revoked
               /\ row(s).hash = req[r].new
    BY <1>2 DEF TypeOK, Row
  <1> HIDE DEF row
  <1> QED BY <1>1, <1>3 DEF TypeOK

LEMMA LogoutCommitRows ==
  ASSUME TypeOK, NEW r \in Slots, LogoutCommit(r)
  PROVE  /\ sessions' \in [SessionIds -> Row]
         /\ \A s \in SessionIds :
              /\ sessions'[s].user = sessions[s].user
              /\ sessions'[s].revoked <=>
                   s \in req[r].rows \/ sessions[s].revoked
              /\ sessions'[s].hash = sessions[s].hash
  <1> DEFINE row(s) == [sessions[s] EXCEPT !.revoked = TRUE]
  <1>1. sessions' = [s \in SessionIds |->
          IF s \in req[r].rows THEN row(s) ELSE sessions[s]]
    BY DEF LogoutCommit
  <1>2. ASSUME NEW s \in SessionIds
        PROVE  /\ row(s) \in Row /\ row(s).user = sessions[s].user
               /\ row(s).revoked = TRUE /\ row(s).hash = sessions[s].hash
    BY DEF TypeOK, Row
  <1> HIDE DEF row
  <1> QED BY <1>1, <1>2 DEF TypeOK

-----------------------------------------------------------------------------
(* Types.                                                                  *)

LEMMA TypeInit == Init => TypeOK
  BY IdleFacts, SessionsAssumption DEF Init, TypeOK, NoRow, Row

LEMMA TypeStep == TypeOK /\ RowInv /\ [Next]_vars => TypeOK'
  <1> SUFFICES ASSUME TypeOK, RowInv, [Next]_vars PROVE TypeOK'
    OBVIOUS
  <1>1. ASSUME NEW r \in Slots, NEW x \in Request,
               req' = [req EXCEPT ![r] = x],
               UNCHANGED <<sessions, active, jwt, tokenOf, grants, loggedOut, now>>
        PROVE  TypeOK'
    BY <1>1 DEF TypeOK
  <1>2. ASSUME NEW r \in Slots, NEW u \in Users, LoginAuthenticate(r, u)
        PROVE  TypeOK'
    <2>1. PICK x \in Request : req' = [req EXCEPT ![r] = x]
      BY <1>2, LoginAuthenticateSlot
    <2> QED BY <1>1, <1>2, <2>1 DEF LoginAuthenticate
  <1>3. ASSUME NEW r \in Slots, LoginSelect(r) PROVE TypeOK'
    BY <1>1, <1>3, LoginSelectSlot DEF LoginSelect
  <1>4. ASSUME NEW r \in Slots, NEW t \in Tokens, RefreshSelect(r, t)
        PROVE  TypeOK'
    <2>1. PICK x \in Request : req' = [req EXCEPT ![r] = x]
      BY <1>4, RefreshSelectSlot
    <2> QED BY <1>1, <1>4, <2>1 DEF RefreshSelect
  <1>5. ASSUME NEW r \in Slots, NEW s \in SessionIds, LogoutSelect(r, s)
        PROVE  TypeOK'
    <2>1. PICK x \in Request :
            /\ req' = [req EXCEPT ![r] = x]
            /\ x.op = "logout" /\ x.pc \in {"flush", "commit"} /\ x.sid = s
            /\ x.user = sessions[s].user
            /\ x.rows = IF sessions[s].revoked THEN {} ELSE {s}
      BY <1>5, LogoutSelectSlot
    <2>2. UNCHANGED <<sessions, active, jwt, tokenOf, grants, loggedOut, now>>
      BY <1>5 DEF LogoutSelect
    <2> QED BY <1>1, <2>1, <2>2
  <1>6. ASSUME NEW r \in Slots, Flush(r) PROVE TypeOK'
    BY <1>1, <1>6, FlushSlot DEF Flush
  <1>7. ASSUME NEW r \in Slots, Abort(r) PROVE TypeOK'
    BY <1>1, <1>7, IdleFacts DEF Abort
  <1>8. ASSUME NEW r \in Slots
        PROVE  /\ req[r].sid \in SessionIds \cup {None}
               /\ req[r].access \in Nat
               /\ [req EXCEPT ![r] = Idle] \in [Slots -> Request]
    BY IdleFacts DEF TypeOK, Request
  <1>9. ASSUME NEW r \in Slots, LoginCommit(r) PROVE TypeOK'
    <2>1. sessions' \in [SessionIds -> Row]
      BY <1>9, LoginCommitRows
    <2> QED BY <1>8, <1>9, <2>1 DEF LoginCommit, TypeOK
  <1>10. ASSUME NEW r \in Slots, RefreshCommit(r) PROVE TypeOK'
    <2>1. sessions' \in [SessionIds -> Row]
      BY <1>10, RefreshCommitRows
    <2>2. jwt' \in [SessionIds -> Nat] /\ req' \in [Slots -> Request]
      BY <1>8, <1>10 DEF RefreshCommit, TypeOK
    <2>3. tokenOf' \in [Tokens -> SessionIds \cup {None}]
      BY <1>8, <1>10 DEF RefreshCommit, TypeOK
    <2>4. grants' \in [Tokens -> Nat]
      <3>1. grants' = [grants EXCEPT ![req[r].tok] = grants[req[r].tok] + 1]
        BY <1>10 DEF RefreshCommit
      <3>2. \A t \in Tokens : grants[t] \in Nat /\ grants[t] + 1 \in Nat
        BY DEF TypeOK
      <3> QED BY <3>1, <3>2 DEF TypeOK
    <2>5. UNCHANGED <<active, loggedOut, now>>
      BY <1>10 DEF RefreshCommit
    <2> QED BY <2>1, <2>2, <2>3, <2>4, <2>5 DEF TypeOK
  <1>11. ASSUME NEW r \in Slots, LogoutCommit(r) PROVE TypeOK'
    <2>1. sessions' \in [SessionIds -> Row]
      BY <1>11, LogoutCommitRows
    <2>2. req[r].sid \in SessionIds
      BY <1>11 DEF LogoutCommit, RowInv
    <2> QED BY <1>8, <1>11, <2>1, <2>2 DEF LogoutCommit, TypeOK
  <1>12. ASSUME NEW u \in Users, ChangeActive(u) PROVE TypeOK'
    BY <1>12 DEF ChangeActive, TypeOK
  <1>13. CASE Tick
    BY <1>13 DEF Tick, TypeOK
  <1>14. CASE UNCHANGED vars
    BY <1>14 DEF vars, TypeOK
  <1> QED
    BY <1>2, <1>3, <1>4, <1>5, <1>6, <1>7, <1>9, <1>10, <1>11, <1>12, <1>13,
       <1>14
    DEF Next, Advance, LoginRefused, RefreshRefused

-----------------------------------------------------------------------------
(* Rows.                                                                   *)

LEMMA RowInit == Init => RowInv
  BY SessionsAssumption DEF Init, RowInv, Exists, NoRow, Idle

(* A step that leaves the rows alone and changes one slot keeps RowInv if   *)
(* the new contents of the slot satisfies it.                              *)
LEMMA RowOneSlot ==
  ASSUME TypeOK, RowInv, NEW r \in Slots, NEW x \in Request,
         req' = [req EXCEPT ![r] = x], UNCHANGED <<sessions, jwt>>,
         x.pc = "idle" \/ x.op = "idle" => x = Idle,
         x.op # "idle" => x.sid \in SessionIds /\ x.user \in Users,
         x.op = "login" => /\ ~Exists(x.sid)
                           /\ \A q \in Slots \ {r} : req[q].sid # x.sid,
         x.op = "logout" => x.sid \in x.rows \/ sessions[x.sid].revoked,
         x.op \in {"refresh", "logout"} => Exists(x.sid),
         \A s \in x.rows : sessions[s].user = x.user
  PROVE  RowInv'
  <1>1. x.sid # None => x.op # "idle" 
    BY SessionsAssumption DEF Idle
  <1>2. x.op # "login" /\ x.sid # None => Exists(x.sid)
    BY <1>1 DEF Request
  <1>3. req'[r] = x /\ \A q \in Slots \ {r} : req'[q] = req[q]
    BY DEF TypeOK
  <1>4. \A q \in Slots : req[q].op = "login" => req[q].sid \in SessionIds
    BY DEF RowInv
  <1>5. \A s : Exists(s)' <=> Exists(s)
    BY DEF Exists
  <1>6. ASSUME NEW q \in Slots \ {r}, req[q].op = "login"
        PROVE  x.sid # req[q].sid
    <2>1. ~Exists(req[q].sid) /\ req[q].sid \in SessionIds
      BY <1>6 DEF RowInv
    <2>2. x.op # "login" => x.sid # req[q].sid
      BY <2>1, <1>2, SessionsAssumption
    <2> QED BY <2>2
  <1> QED
    BY <1>3, <1>4, <1>5, <1>6 DEF RowInv

(* A slot that ends its request keeps RowInv if no row disappears, changes *)
(* its user or loses its revocation, and only its own login adds a row.    *)
RowKept(r, s) ==
  /\ Exists(s) => /\ sessions'[s].user = sessions[s].user
                  /\ sessions[s].revoked => sessions'[s].revoked
  /\ sessions'[s].user # None =>
       Exists(s) \/ (req[r].op = "login" /\ s = req[r].sid)
  /\ sessions'[s].user = None => ~sessions'[s].revoked
  /\ jwt'[s] > 0 => sessions'[s].user # None

LEMMA RowCommit ==
  ASSUME TypeOK, RowInv, NEW r \in Slots,
         req' = [req EXCEPT ![r] = Idle],
         \A s \in SessionIds : RowKept(r, s)
  PROVE  RowInv'
  <1> USE DEF RowKept
  <1>1. req'[r] = Idle /\ \A q \in Slots \ {r} : req'[q] = req[q]
    BY DEF TypeOK
  <1>2. \A s \in SessionIds : /\ ~Exists(s)' => ~sessions'[s].revoked
                              /\ jwt'[s] > 0 => Exists(s)'
    BY DEF Exists
  <1>3. \A s : Exists(s)' <=> sessions'[s].user # None
    BY DEF Exists
  <1>4. ASSUME NEW q \in Slots \ {r}, req[q].op = "login"
        PROVE  /\ sessions'[req[q].sid].user = None
               /\ \A p \in Slots \ {q} : req'[p].sid # req[q].sid
    <2>1. /\ req[q].sid \in SessionIds /\ ~Exists(req[q].sid)
          /\ req[r].sid # req[q].sid
      BY <1>4 DEF RowInv
    <2> QED BY <1>1, <1>4, <2>1, SessionsAssumption DEF RowInv, Idle
  <1>5. ASSUME NEW q \in Slots \ {r}, NEW s \in req[q].rows
        PROVE  sessions'[s].user = req[q].user
    <2>1. /\ s \in SessionIds /\ sessions[s].user = req[q].user
          /\ req[q].op # "idle"
      BY DEF RowInv, TypeOK, Request, Idle
    <2>2. Exists(s)
      BY <2>1, SessionsAssumption DEF RowInv, Exists
    <2> QED BY <2>1, <2>2
  <1>6. ASSUME NEW q \in Slots \ {r}, req[q].op \in {"refresh", "logout"}
        PROVE  /\ sessions'[req[q].sid].user # None
               /\ req[q].op = "logout" =>
                    req[q].sid \in req[q].rows
                      \/ sessions'[req[q].sid].revoked
    <2>1. req[q].sid \in SessionIds /\ Exists(req[q].sid)
      BY <1>6 DEF RowInv
    <2> QED BY <1>6, <2>1 DEF RowInv, Exists
  <1>7. /\ Idle.pc = "idle" /\ Idle.op = "idle" /\ Idle.rows = {}
    BY DEF Idle
  <1>8. ASSUME NEW q \in Slots
        PROVE  /\ req'[q].pc = "idle" \/ req'[q].op = "idle" => req'[q] = Idle
               /\ req'[q].op # "idle" =>
                    req'[q].sid \in SessionIds /\ req'[q].user \in Users
               /\ req'[q].op = "login" =>
                    /\ sessions'[req'[q].sid].user = None
                    /\ \A p \in Slots \ {q} : req'[p].sid # req'[q].sid
               /\ req'[q].op = "logout" =>
                    req'[q].sid \in req'[q].rows
                      \/ sessions'[req'[q].sid].revoked
               /\ req'[q].op \in {"refresh", "logout"} =>
                    sessions'[req'[q].sid].user # None
               /\ \A s \in req'[q].rows : sessions'[s].user = req'[q].user
    <2>1. CASE q = r
      BY <2>1, <1>1, <1>7
    <2>2. CASE q # r
      BY <2>2, <1>1, <1>4, <1>5, <1>6 DEF RowInv
    <2> QED BY <2>1, <2>2
  <1> QED BY <1>2, <1>3, <1>8 DEF RowInv

LEMMA RowStep == TypeOK /\ RowInv /\ [Next]_vars => RowInv'
  <1> SUFFICES ASSUME TypeOK, RowInv, [Next]_vars PROVE RowInv'
    OBVIOUS
  <1> USE SessionsAssumption
  <1>1. ASSUME NEW r \in Slots, NEW u \in Users, LoginAuthenticate(r, u)
        PROVE  RowInv'
    <2>1. PICK x \in Request :
            /\ req' = [req EXCEPT ![r] = x]
            /\ x.op = "login" /\ x.pc = "create" /\ x.user = u
            /\ x.sid \in FreshSessions /\ x.rows = {}
      BY <1>1, LoginAuthenticateSlot
    <2>2. /\ x.sid \in SessionIds /\ ~Exists(x.sid)
          /\ \A q \in Slots : req[q].sid # x.sid
      BY <2>1 DEF FreshSessions
    <2>3. UNCHANGED <<sessions, jwt>>
      BY <1>1 DEF LoginAuthenticate
    <2> QED BY <2>1, <2>2, <2>3, RowOneSlot
  <1>2. ASSUME NEW r \in Slots, LoginSelect(r) PROVE RowInv'
    <2>1. PICK x \in Request :
            /\ req' = [req EXCEPT ![r] = x]
            /\ x.op = "login" /\ x.pc = "flush"
            /\ x.user = req[r].user /\ x.sid = req[r].sid
            /\ x.rows \in Excess(req[r].user)
      BY <1>2, LoginSelectSlot
    <2>2. \A s \in x.rows : sessions[s].user = req[r].user
      BY <2>1 DEF Excess, Competing, CompetingSQL, CompetingDjango
    <2>3. UNCHANGED <<sessions, jwt>> /\ req[r].op = "login"
      BY <1>2 DEF LoginSelect
    <2>4. /\ x.sid \in SessionIds /\ x.user \in Users /\ ~Exists(x.sid)
          /\ \A q \in Slots \ {r} : req[q].sid # x.sid
      BY <2>1, <2>3 DEF RowInv
    <2> QED BY <2>1, <2>2, <2>3, <2>4, RowOneSlot
  <1>3. ASSUME NEW r \in Slots, NEW t \in Tokens, RefreshSelect(r, t)
        PROVE  RowInv'
    <2>1. PICK x \in Request :
            /\ req' = [req EXCEPT ![r] = x]
            /\ x.op = "refresh" /\ x.pc = "flush"
            /\ x.sid \in SessionIds /\ Refreshable(t, x.sid)
            /\ x.user = sessions[x.sid].user /\ x.rows = {x.sid}
      BY <1>3, RefreshSelectSlot
    <2>2. Exists(x.sid) /\ x.user \in Users
      BY <2>1 DEF Refreshable, Usable, Live, Exists, TypeOK, Row
    <2>3. UNCHANGED <<sessions, jwt>>
      BY <1>3 DEF RefreshSelect
    <2> QED BY <2>1, <2>2, <2>3, RowOneSlot
  <1>4. ASSUME NEW r \in Slots, NEW s \in SessionIds, LogoutSelect(r, s)
        PROVE  RowInv'
    <2>1. PICK x \in Request :
            /\ req' = [req EXCEPT ![r] = x]
            /\ x.op = "logout" /\ x.pc \in {"flush", "commit"} /\ x.sid = s
            /\ x.user = sessions[s].user
            /\ x.rows = IF sessions[s].revoked THEN {} ELSE {s}
      BY <1>4, LogoutSelectSlot
    <2>2. jwt[s] \in Nat /\ now \in Nat /\ jwt[s] > now
      BY <1>4 DEF LogoutSelect, TypeOK
    <2>3. Exists(s) /\ x.user \in Users
      BY <2>1, <2>2 DEF RowInv, Exists, TypeOK, Row
    <2>4. UNCHANGED <<sessions, jwt>>
      BY <1>4 DEF LogoutSelect
    <2> QED BY <2>1, <2>3, <2>4, RowOneSlot
  <1>5. ASSUME NEW r \in Slots, Flush(r) PROVE RowInv'
    <2>1. PICK x \in Request :
            /\ req' = [req EXCEPT ![r] = x]
            /\ req[r].pc = "flush" /\ x.pc = "commit"
            /\ x.op = req[r].op /\ x.user = req[r].user
            /\ x.sid = req[r].sid /\ x.rows = req[r].rows
      BY <1>5, FlushSlot
    <2>2. req[r].op # "idle"
      BY <2>1, IdleFacts DEF RowInv
    <2>3. UNCHANGED <<sessions, jwt>>
      BY <1>5 DEF Flush
    <2>4. /\ x.sid \in SessionIds /\ x.user \in Users
          /\ x.op = "login" => /\ ~Exists(x.sid)
                               /\ \A q \in Slots \ {r} : req[q].sid # x.sid
          /\ x.op = "logout" => x.sid \in x.rows \/ sessions[x.sid].revoked
          /\ x.op \in {"refresh", "logout"} => Exists(x.sid)
          /\ \A s \in x.rows : sessions[s].user = x.user
      BY <2>1, <2>2 DEF RowInv
    <2> QED BY <2>1, <2>2, <2>3, <2>4, RowOneSlot
  <1>6. ASSUME NEW r \in Slots, LoginCommit(r) PROVE RowInv'
    <2>1. /\ req[r].sid \in SessionIds /\ req[r].user \in Users
          /\ ~Exists(req[r].sid) /\ req[r].op = "login"
      BY <1>6 DEF LoginCommit, RowInv
    <2>2. /\ req' = [req EXCEPT ![r] = Idle]
          /\ \A s \in SessionIds : s # req[r].sid => jwt'[s] = jwt[s]
      BY <1>6 DEF LoginCommit, TypeOK
    <2>3. \A s \in req[r].rows : Exists(s)
      BY <2>1 DEF RowInv, Exists
    <2>4. ASSUME NEW s \in SessionIds PROVE RowKept(r, s)
      <3>1. /\ ~Exists(s) => ~sessions[s].revoked
            /\ jwt[s] > 0 => Exists(s)
        BY DEF RowInv
      <3>2. IF s = req[r].sid
              THEN /\ sessions'[s].user = req[r].user
                   /\ ~sessions'[s].revoked
              ELSE /\ sessions'[s].user = sessions[s].user
                   /\ sessions'[s].revoked <=>
                        s \in req[r].rows \/ sessions[s].revoked
        BY <1>6, LoginCommitRows
      <3> QED BY <2>1, <2>2, <2>3, <3>1, <3>2 DEF RowKept, Exists
    <2> QED BY <2>2, <2>4, RowCommit
  <1>7. ASSUME NEW r \in Slots, RefreshCommit(r) PROVE RowInv'
    <2>1. /\ req[r].sid \in SessionIds /\ Exists(req[r].sid)
          /\ req' = [req EXCEPT ![r] = Idle]
          /\ \A s \in SessionIds : s # req[r].sid => jwt'[s] = jwt[s]
      BY <1>7 DEF RefreshCommit, RowInv, TypeOK
    <2>2. ASSUME NEW s \in SessionIds PROVE RowKept(r, s)
      <3>1. /\ ~Exists(s) => ~sessions[s].revoked
            /\ jwt[s] > 0 => Exists(s)
        BY DEF RowInv
      <3>2. /\ sessions'[s].user = sessions[s].user
            /\ sessions'[s].revoked = sessions[s].revoked
        BY <1>7, RefreshCommitRows
      <3> QED BY <2>1, <3>1, <3>2 DEF RowKept, Exists
    <2> QED BY <2>1, <2>2, RowCommit
  <1>8. ASSUME NEW r \in Slots, LogoutCommit(r) PROVE RowInv'
    <2>1. /\ req[r].user \in Users
          /\ req' = [req EXCEPT ![r] = Idle] /\ jwt' = jwt
      BY <1>8 DEF LogoutCommit, RowInv
    <2>2. \A s \in req[r].rows : Exists(s)
      BY <2>1 DEF RowInv, Exists
    <2>3. ASSUME NEW s \in SessionIds PROVE RowKept(r, s)
      <3>1. /\ ~Exists(s) => ~sessions[s].revoked
            /\ jwt[s] > 0 => Exists(s)
        BY DEF RowInv
      <3>2. /\ sessions'[s].user = sessions[s].user
            /\ sessions'[s].revoked <=>
                 s \in req[r].rows \/ sessions[s].revoked
        BY <1>8, LogoutCommitRows
      <3> QED BY <2>1, <2>2, <3>1, <3>2 DEF RowKept, Exists
    <2> QED BY <2>1, <2>3, RowCommit
  <1>9. ASSUME NEW r \in Slots, Abort(r) PROVE RowInv'
    <2>1. \A s \in SessionIds : RowKept(r, s)
      BY <1>9 DEF Abort, RowKept, RowInv, Exists
    <2> QED BY <1>9, <2>1, RowCommit DEF Abort
  <1>10. CASE UNCHANGED <<sessions, req, jwt>>
    BY <1>10 DEF RowInv, Exists
  <1> QED
    BY <1>1, <1>2, <1>3, <1>4, <1>5, <1>6, <1>7, <1>8, <1>9, <1>10
    DEF Next, Advance, LoginRefused, RefreshRefused, ChangeActive, Tick, vars

-----------------------------------------------------------------------------
(* Tokens.                                                                 *)

LEMMA TokenInit == Init => TokenInv /\ SpentTokensAreDead
  BY IdleFacts, SessionsAssumption
  DEF Init, TokenInv, SpentTokensAreDead, NoRow

(* A step that moves no hash and changes one slot.                         *)
LEMMA TokenOneSlot ==
  ASSUME TypeOK, TokenInv, SpentTokensAreDead,
         NEW r \in Slots, NEW x \in Request,
         req' = [req EXCEPT ![r] = x], UNCHANGED <<tokenOf, grants>>,
         \A s \in SessionIds : sessions'[s].hash = sessions[s].hash,
         x.new # None => /\ tokenOf[x.new] = None
                         /\ \A q \in Slots \ {r} : req[q].new # x.new,
         x.op \in {"login", "refresh"} => x.new # None,
         x.op = "refresh" => x.tok # None /\ tokenOf[x.tok] = x.sid
  PROVE  TokenInv' /\ SpentTokensAreDead'
  <1>1. req'[r] = x /\ \A q \in Slots \ {r} : req'[q] = req[q]
    BY DEF TypeOK
  <1>2. ASSUME NEW q \in Slots
        PROVE  /\ req'[q].new # None =>
                    /\ tokenOf[req'[q].new] = None
                    /\ \A p \in Slots \ {q} : req'[p].new # req'[q].new
               /\ req'[q].op \in {"login", "refresh"} => req'[q].new # None
               /\ req'[q].op = "refresh" =>
                    req'[q].tok # None /\ tokenOf[req'[q].tok] = req'[q].sid
    <2>1. CASE q = r
      BY <2>1, <1>1
    <2>2. CASE q # r
      <3>1. req'[q] = req[q]
        BY <2>2, <1>1
      <3>2. req[q].new # None => x.new # req[q].new
        BY <2>2
      <3> QED BY <3>1, <3>2, <1>1 DEF TokenInv
    <2> QED BY <2>1, <2>2
  <1> QED BY <1>2 DEF TokenInv, SpentTokensAreDead

(* A login or a refresh hands out its new token.                           *)
LEMMA TokenGrant ==
  ASSUME TypeOK, TypeOK', RowInv, TokenInv, SpentTokensAreDead,
         NEW r \in Slots, req[r].op \in {"login", "refresh"},
         req' = [req EXCEPT ![r] = Idle],
         tokenOf' = [tokenOf EXCEPT ![req[r].new] = req[r].sid],
         \A s \in SessionIds :
           sessions'[s].hash =
             IF s = req[r].sid THEN req[r].new ELSE sessions[s].hash,
         \A t \in Tokens :
           grants'[t] > 0 =>
             grants[t] > 0 \/ (req[r].op = "refresh" /\ t = req[r].tok)
  PROVE  TokenInv' /\ SpentTokensAreDead'
  <1> DEFINE n == req[r].new
             s0 == req[r].sid
  <1>1. /\ n \in Tokens /\ tokenOf[n] = None /\ s0 \in SessionIds /\ s0 # None
        /\ \A q \in Slots \ {r} : req[q].new # n
    BY SessionsAssumption DEF TypeOK, Request, RowInv, TokenInv
  <1>2. /\ tokenOf'[n] = s0
        /\ \A t \in Tokens : t # n => tokenOf'[t] = tokenOf[t]
    BY <1>1 DEF TypeOK
  <1>3. /\ req'[r] = Idle
        /\ \A q \in Slots \ {r} : req'[q] = req[q]
    BY DEF TypeOK
  <1>4. ASSUME NEW q \in Slots
        PROVE  /\ req'[q].new # None =>
                    /\ tokenOf'[req'[q].new] = None
                    /\ \A p \in Slots \ {q} : req'[p].new # req'[q].new
               /\ req'[q].op \in {"login", "refresh"} => req'[q].new # None
               /\ req'[q].op = "refresh" =>
                    req'[q].tok # None /\ tokenOf'[req'[q].tok] = req'[q].sid
    <2>1. CASE q = r
      BY <2>1, <1>3, IdleFacts
    <2>2. CASE q # r
      <3>1. req'[q] = req[q] /\ req[q] \in Request
        BY <2>2, <1>3 DEF TypeOK
      <3>2. req[q].new # None =>
              /\ req[q].new \in Tokens /\ tokenOf'[req[q].new] = None
        BY <2>2, <3>1, <1>1, <1>2 DEF TokenInv, Request
      <3>3. req[q].new # None =>
              \A p \in Slots \ {q} : req'[p].new # req[q].new
        BY <1>3, IdleFacts DEF TokenInv
      <3>4. req[q].op = "refresh" =>
              /\ req[q].tok \in Tokens /\ req[q].tok # None
              /\ req[q].tok # n /\ tokenOf'[req[q].tok] = req[q].sid
        BY <3>1, <1>1, <1>2, SessionsAssumption DEF TokenInv, RowInv, Request
      <3> QED BY <3>1, <3>2, <3>3, <3>4 DEF TokenInv
    <2> QED BY <2>1, <2>2
  <1>5. ASSUME NEW s \in SessionIds, sessions'[s].hash # None
        PROVE  tokenOf'[sessions'[s].hash] = s
    <2>1. CASE s = s0
      BY <2>1, <1>2
    <2>2. CASE s # s0
      <3>1. sessions'[s].hash = sessions[s].hash
        BY <2>2
      <3>2. sessions[s].hash \in Tokens
        BY <1>5, <3>1 DEF TypeOK, Row
      <3>3. tokenOf[sessions[s].hash] = s
        BY <1>5, <3>1 DEF TokenInv
      <3> QED BY <3>1, <3>2, <3>3, <1>1, <1>2, SessionsAssumption
    <2> QED BY <2>1, <2>2
  <1>6. ASSUME NEW t \in Tokens, grants'[t] > 0
        PROVE  tokenOf[t] # None /\ tokenOf'[t] # None
    <2>1. tokenOf[t] # None
      BY <1>1, <1>6 DEF TokenInv
    <2> QED BY <2>1, <1>1, <1>2
  <1>7. ASSUME NEW t \in Tokens, NEW s \in SessionIds, grants'[t] > 0
        PROVE  sessions'[s].hash # t
    <2>1. CASE s = s0
      BY <2>1, <1>1, <1>6, <1>7
    <2>2. CASE s # s0
      <3>1. sessions'[s].hash = sessions[s].hash
        BY <2>2
      <3>2. CASE grants[t] > 0
        BY <3>1, <3>2 DEF SpentTokensAreDead
      <3>3. CASE req[r].op = "refresh" /\ t = req[r].tok
        <4>1. tokenOf[t] = s0
          BY <3>3 DEF TokenInv
        <4>2. sessions[s].hash = t => tokenOf[t] = s
          BY SessionsAssumption DEF TokenInv
        <4> QED BY <2>2, <3>1, <4>1, <4>2
      <3> QED BY <1>7, <3>2, <3>3
    <2> QED BY <2>1, <2>2
  <1> QED BY <1>4, <1>5, <1>6, <1>7 DEF TokenInv, SpentTokensAreDead

LEMMA TokenStep ==
  TypeOK /\ TypeOK' /\ RowInv /\ TokenInv /\ SpentTokensAreDead /\ [Next]_vars
    => TokenInv' /\ SpentTokensAreDead'
  <1> SUFFICES ASSUME TypeOK, TypeOK', RowInv, TokenInv, SpentTokensAreDead,
                      [Next]_vars
               PROVE  TokenInv' /\ SpentTokensAreDead'
    OBVIOUS
  <1>1. ASSUME NEW r \in Slots, NEW u \in Users, LoginAuthenticate(r, u)
        PROVE  TokenInv' /\ SpentTokensAreDead'
    <2>1. PICK x \in Request :
            /\ req' = [req EXCEPT ![r] = x]
            /\ x.op = "login" /\ x.new \in FreshTokens
      BY <1>1, LoginAuthenticateSlot
    <2>2. /\ tokenOf[x.new] = None /\ x.new # None
          /\ \A q \in Slots : req[q].new # x.new
      BY <2>1, SessionsAssumption DEF FreshTokens
    <2>3. UNCHANGED <<sessions, tokenOf, grants>>
      BY <1>1 DEF LoginAuthenticate
    <2> QED BY <2>1, <2>2, <2>3, TokenOneSlot
  <1>2. ASSUME NEW r \in Slots, LoginSelect(r)
        PROVE  TokenInv' /\ SpentTokensAreDead'
    <2>1. PICK x \in Request :
            /\ req' = [req EXCEPT ![r] = x]
            /\ x.op = "login" /\ x.new = req[r].new
      BY <1>2, LoginSelectSlot
    <2>2. /\ req[r].op = "login"
          /\ UNCHANGED <<sessions, tokenOf, grants>>
      BY <1>2 DEF LoginSelect
    <2>3. /\ x.new # None /\ tokenOf[x.new] = None
          /\ \A q \in Slots \ {r} : req[q].new # x.new
      BY <2>1, <2>2 DEF TokenInv
    <2> QED BY <2>1, <2>2, <2>3, TokenOneSlot
  <1>3. ASSUME NEW r \in Slots, NEW t \in Tokens, RefreshSelect(r, t)
        PROVE  TokenInv' /\ SpentTokensAreDead'
    <2>1. PICK x \in Request :
            /\ req' = [req EXCEPT ![r] = x]
            /\ x.op = "refresh" /\ x.tok = t
            /\ x.sid \in SessionIds /\ Refreshable(t, x.sid)
            /\ x.new \in FreshTokens
      BY <1>3, RefreshSelectSlot
    <2>2. /\ tokenOf[x.new] = None /\ x.new # None
          /\ \A q \in Slots : req[q].new # x.new
      BY <2>1, SessionsAssumption DEF FreshTokens
    <2>3. x.tok # None /\ tokenOf[x.tok] = x.sid
      <3>1. t # None /\ sessions[x.sid].hash = t
        BY <2>1, SessionsAssumption DEF Refreshable
      <3> QED BY <2>1, <3>1 DEF TokenInv
    <2>4. UNCHANGED <<sessions, tokenOf, grants>>
      BY <1>3 DEF RefreshSelect
    <2> QED BY <2>1, <2>2, <2>3, <2>4, TokenOneSlot
  <1>4. ASSUME NEW r \in Slots, NEW s \in SessionIds, LogoutSelect(r, s)
        PROVE  TokenInv' /\ SpentTokensAreDead'
    <2>1. PICK x \in Request :
            /\ req' = [req EXCEPT ![r] = x]
            /\ x.op = "logout" /\ x.pc \in {"flush", "commit"} /\ x.sid = s
            /\ x.user = sessions[s].user /\ x.tok = None /\ x.new = None
            /\ x.rows = IF sessions[s].revoked THEN {} ELSE {s}
      BY <1>4, LogoutSelectSlot
    <2>2. UNCHANGED <<sessions, tokenOf, grants>>
      BY <1>4 DEF LogoutSelect
    <2> QED BY <2>1, <2>2, TokenOneSlot
  <1>5. ASSUME NEW r \in Slots, Flush(r)
        PROVE  TokenInv' /\ SpentTokensAreDead'
    <2>1. PICK x \in Request :
            /\ req' = [req EXCEPT ![r] = x]
            /\ x.op = req[r].op /\ x.sid = req[r].sid
            /\ x.tok = req[r].tok /\ x.new = req[r].new
      BY <1>5, FlushSlot
    <2>2. UNCHANGED <<sessions, tokenOf, grants>>
      BY <1>5 DEF Flush
    <2>3. /\ x.new # None => /\ tokenOf[x.new] = None
                             /\ \A q \in Slots \ {r} : req[q].new # x.new
          /\ x.op \in {"login", "refresh"} => x.new # None
          /\ x.op = "refresh" => x.tok # None /\ tokenOf[x.tok] = x.sid
      BY <2>1 DEF TokenInv
    <2> QED BY <2>1, <2>2, <2>3, TokenOneSlot
  <1>6. ASSUME NEW r \in Slots, LoginCommit(r)
        PROVE  TokenInv' /\ SpentTokensAreDead'
    <2>1. /\ req[r].op = "login" /\ req' = [req EXCEPT ![r] = Idle]
          /\ tokenOf' = [tokenOf EXCEPT ![req[r].new] = req[r].sid]
          /\ grants' = grants
      BY <1>6 DEF LoginCommit
    <2>2. \A s \in SessionIds :
            sessions'[s].hash =
              IF s = req[r].sid THEN req[r].new ELSE sessions[s].hash
      BY <1>6, LoginCommitRows
    <2> QED BY <2>1, <2>2, TokenGrant
  <1>7. ASSUME NEW r \in Slots, RefreshCommit(r)
        PROVE  TokenInv' /\ SpentTokensAreDead'
    <2>1. /\ req[r].op = "refresh" /\ req' = [req EXCEPT ![r] = Idle]
          /\ tokenOf' = [tokenOf EXCEPT ![req[r].new] = req[r].sid]
          /\ grants' = [grants EXCEPT ![req[r].tok] = grants[req[r].tok] + 1]
      BY <1>7 DEF RefreshCommit
    <2>2. \A s \in SessionIds :
            sessions'[s].hash =
              IF s = req[r].sid THEN req[r].new ELSE sessions[s].hash
      BY <1>7, RefreshCommitRows
    <2>3. \A t \in Tokens : t # req[r].tok => grants'[t] = grants[t]
      BY <2>1 DEF TypeOK
    <2>4. \A t \in Tokens :
            grants'[t] > 0 =>
              grants[t] > 0 \/ (req[r].op = "refresh" /\ t = req[r].tok)
      BY <2>1, <2>3
    <2> QED BY <2>1, <2>2, <2>4, TokenGrant
  <1>8. ASSUME NEW r \in Slots, LogoutCommit(r)
        PROVE  TokenInv' /\ SpentTokensAreDead'
    <2>1. req' = [req EXCEPT ![r] = Idle] /\ UNCHANGED <<tokenOf, grants>>
      BY <1>8 DEF LogoutCommit
    <2>2. \A s \in SessionIds : sessions'[s].hash = sessions[s].hash
      BY <1>8, LogoutCommitRows
    <2> QED BY <2>1, <2>2, IdleFacts, TokenOneSlot
  <1>9. ASSUME NEW r \in Slots, Abort(r)
        PROVE  TokenInv' /\ SpentTokensAreDead'
    <2>1. /\ req' = [req EXCEPT ![r] = Idle]
          /\ UNCHANGED <<sessions, tokenOf, grants>>
      BY <1>9 DEF Abort
    <2> QED BY <2>1, IdleFacts, TokenOneSlot
  <1>10. CASE UNCHANGED <<sessions, req, tokenOf, grants>>
    BY <1>10 DEF TokenInv, SpentTokensAreDead
  <1> QED
    BY <1>1, <1>2, <1>3, <1>4, <1>5, <1>6, <1>7, <1>8, <1>9, <1>10
    DEF Next, Advance, LoginRefused, RefreshRefused, ChangeActive, Tick, vars

-----------------------------------------------------------------------------
(* Revocation.                                                             *)

(* What a step may do to revoked_at: set it, in the commit of a request of *)
(* the session's own user; never clear it.                                 *)
LEMMA RevocationStep ==
  ASSUME TypeOK, RowInv, [Next]_vars, NEW s \in SessionIds
  PROVE  /\ sessions[s].revoked => sessions'[s].revoked
         /\ ~sessions[s].revoked /\ sessions'[s].revoked =>
              \E r \in Slots : /\ req[r].pc = "commit" /\ req'[r].pc = "idle"
                               /\ req[r].user = sessions[s].user
         /\ s \in loggedOut' \ loggedOut => sessions'[s].revoked
  <1> DEFINE P == /\ sessions[s].revoked => sessions'[s].revoked
                  /\ ~sessions[s].revoked /\ sessions'[s].revoked =>
                       \E r \in Slots : /\ req[r].pc = "commit"
                                        /\ req'[r].pc = "idle"
                                        /\ req[r].user = sessions[s].user
                  /\ s \in loggedOut' \ loggedOut => sessions'[s].revoked
  <1>1. ASSUME NEW r \in Slots, LoginCommit(r) PROVE P
    <2>1. /\ req[r].op = "login" /\ req[r].pc = "commit"
          /\ req'[r].pc = "idle" /\ loggedOut' = loggedOut
      BY <1>1, IdleFacts DEF LoginCommit, TypeOK
    <2>2. ~Exists(req[r].sid)
      BY <2>1 DEF RowInv
    <2>3. IF s = req[r].sid
            THEN ~sessions'[s].revoked
            ELSE sessions'[s].revoked <=> s \in req[r].rows \/ sessions[s].revoked
      BY <1>1, LoginCommitRows
    <2>4. s = req[r].sid => ~sessions[s].revoked
      BY <2>2 DEF RowInv
    <2>5. s \in req[r].rows => sessions[s].user = req[r].user
      BY DEF RowInv
    <2> QED BY <2>1, <2>3, <2>4, <2>5
  <1>2. ASSUME NEW r \in Slots, RefreshCommit(r) PROVE P
    <2>1. sessions'[s].revoked = sessions[s].revoked
      BY <1>2, RefreshCommitRows
    <2> QED BY <1>2, <2>1 DEF RefreshCommit
  <1>3. ASSUME NEW r \in Slots, LogoutCommit(r) PROVE P
    <2>1. /\ req[r].op = "logout" /\ req[r].pc = "commit"
          /\ req'[r].pc = "idle" /\ loggedOut' = loggedOut \cup {req[r].sid}
      BY <1>3, IdleFacts DEF LogoutCommit, TypeOK
    <2>2. sessions'[s].revoked <=> s \in req[r].rows \/ sessions[s].revoked
      BY <1>3, LogoutCommitRows
    <2>3. /\ s \in req[r].rows => sessions[s].user = req[r].user
          /\ s = req[r].sid => s \in req[r].rows \/ sessions[s].revoked
      BY <2>1 DEF RowInv
    <2> QED BY <2>1, <2>2, <2>3
  <1>4. CASE UNCHANGED <<sessions, loggedOut>>
    BY <1>4
  <1> QED
    BY <1>1, <1>2, <1>3, <1>4
    DEF Next, Advance, LoginAuthenticate, LoginRefused, LoginSelect,
        RefreshSelect, RefreshRefused, LogoutSelect, Flush, Abort,
        ChangeActive, Tick, vars

-----------------------------------------------------------------------------
(* The invariant and what follows from it.                                 *)

LEMMA Invariance == Spec => []IInv
  <1>1. Init => IInv
    BY TypeInit, RowInit, TokenInit DEF IInv, LoggedOutInv, Init
  <1>2. IInv /\ [Next]_vars => IInv'
    <2> SUFFICES ASSUME IInv, [Next]_vars PROVE IInv'
      OBVIOUS
    <2>1. TypeOK /\ RowInv /\ TokenInv /\ LoggedOutInv /\ SpentTokensAreDead
      BY DEF IInv
    <2>2. TypeOK' /\ RowInv'
      BY <2>1, TypeStep, RowStep
    <2>3. TokenInv' /\ SpentTokensAreDead'
      BY <2>1, <2>2, TokenStep
    <2>4. LoggedOutInv'
      <3>1. ASSUME NEW s \in loggedOut' PROVE sessions'[s].revoked
        <4>1. s \in SessionIds
          BY <2>2 DEF TypeOK
        <4> QED BY <2>1, <4>1, RevocationStep DEF LoggedOutInv
      <3> QED BY <3>1 DEF LoggedOutInv
    <2> QED BY <2>2, <2>3, <2>4 DEF IInv
  <1> QED BY <1>1, <1>2, PTL DEF Spec

(* Every variable of the session store keeps its type in every behaviour   *)
(* of the three handlers.                                                  *)
THEOREM TypeCorrect == Spec => []TypeOK
  <1>1. IInv => TypeOK
    BY DEF IInv
  <1> QED BY <1>1, Invariance, PTL

(* revoked_at is never cleared, whatever refresh or login was in flight    *)
(* when it was set: rotate_refresh_token and create write by column.       *)
THEOREM RevocationIsPermanent == Spec => RevokedForever
  <1>1. IInv /\ [Next]_vars =>
          [\A s \in SessionIds : sessions[s].revoked => sessions'[s].revoked]_vars
    BY RevocationStep DEF IInv
  <1> QED BY <1>1, Invariance, PTL DEF Spec, RevokedForever

(* After a 204 from logout neither an access token nor a refresh token of  *)
(* the session is accepted, for any number of concurrent requests.         *)
THEOREM LogoutHolds == Spec => []LogoutIsFinal
  <1>1. IInv => LogoutIsFinal
    BY DEF IInv, LoggedOutInv, LogoutIsFinal, Refreshable, Usable, Live
  <1> QED BY <1>1, Invariance, PTL

(* The hash of an exchanged refresh token is in no row any more and never  *)
(* comes back, whichever of the racing refreshes commits last.             *)
THEOREM SpentTokensStayDead == Spec => []SpentTokensAreDead
  <1>1. IInv => SpentTokensAreDead
    BY DEF IInv
  <1> QED BY <1>1, Invariance, PTL

(* get_user_valid_session_by_refresh_token finds only the session the      *)
(* token was handed out for.                                               *)
THEOREM TokensOpenOwnSession == Spec => []TokenOpensOwnSession
  <1>1. IInv => TokenOpensOwnSession
    BY SessionsAssumption DEF IInv, TokenInv, TokenOpensOwnSession, Refreshable
  <1> QED BY <1>1, Invariance, PTL

(* A login evicts, and a logout revokes, sessions of its own user only.    *)
THEOREM EvictionStaysHome == Spec => EvictsOwnSessionsOnly
  <1>1. IInv /\ [Next]_vars =>
          [\A s \in SessionIds :
             ~sessions[s].revoked /\ sessions'[s].revoked =>
               \E r \in Slots : /\ req[r].pc = "commit" /\ req'[r].pc = "idle"
                                /\ req[r].user = sessions[s].user]_vars
    BY RevocationStep DEF IInv
  <1> QED BY <1>1, Invariance, PTL DEF Spec, EvictsOwnSessionsOnly

-----------------------------------------------------------------------------
(* Refinement of SessionLedger.tla.                                        *)

LEMMA LedgerInit == Init => Ledger!Init
  BY DEF Init, Ledger!Init, Lines, HandedOut, NoRow, Ledger!Blank

(* What a row that exists, or is about to, owes to the invariant.          *)
LEMMA LedgerRequest ==
  ASSUME IInv, NEW r \in Slots, req[r].op # "idle"
  PROVE  /\ req[r].user \in Users /\ req[r].sid \in SessionIds
         /\ req[r].rows \in SUBSET SessionIds
         /\ req[r].rows \subseteq Ledger!OwnedBy(req[r].user)
         /\ req[r].op \in {"login", "refresh"} =>
              req[r].new \in Tokens /\ req[r].new \notin HandedOut
         /\ req[r].op = "login" => ~Ledger!Exists(req[r].sid)
         /\ req[r].op = "refresh" => Ledger!Exists(req[r].sid)
  <1>1. req[r] \in Request
    BY DEF IInv, TypeOK
  <1>2. /\ req[r].rows \in SUBSET SessionIds
        /\ req[r].new \in Tokens \cup {None}
    BY <1>1 DEF Request
  <1>3. req[r].user \in Users /\ req[r].sid \in SessionIds
    BY DEF IInv, RowInv
  <1>4. req[r].rows \subseteq Ledger!OwnedBy(req[r].user)
    BY <1>2 DEF IInv, RowInv, Ledger!OwnedBy, Lines
  <1>5. req[r].op \in {"login", "refresh"} =>
          req[r].new \in Tokens /\ req[r].new \notin HandedOut
    BY <1>2 DEF IInv, TokenInv, HandedOut
  <1>6. /\ req[r].op = "login" => ~Ledger!Exists(req[r].sid)
        /\ req[r].op = "refresh" => Ledger!Exists(req[r].sid)
    BY <1>3 DEF IInv, RowInv, Exists, Ledger!Exists, Lines
  <1> QED BY <1>2, <1>3, <1>4, <1>5, <1>6

(* A commit hands out the new token of its request, and no other.          *)
LEMMA LedgerToken ==
  ASSUME TypeOK, NEW t \in Tokens, NEW s \in SessionIds,
         tokenOf' = [tokenOf EXCEPT ![t] = s]
  PROVE  HandedOut' = HandedOut \cup {t}
  <1>1. \A x \in Tokens : tokenOf'[x] # None <=> x = t \/ tokenOf[x] # None
    BY SessionsAssumption DEF TypeOK
  <1> QED BY <1>1 DEF HandedOut

LEMMA LedgerLogin ==
  ASSUME IInv, NEW r \in Slots, LoginCommit(r)
  PROVE  Ledger!Enter(req[r].user, req[r].sid, req[r].new, req[r].rows)
  <1> DEFINE q == req[r]
             line == [user |-> q.user, revoked |-> FALSE, token |-> q.new]
  <1>1. q.op = "login" /\ tokenOf' = [tokenOf EXCEPT ![q.new] = q.sid]
    BY DEF LoginCommit
  <1>2. /\ q.user \in Users /\ q.sid \in SessionIds
        /\ q.rows \in SUBSET SessionIds
        /\ q.rows \subseteq Ledger!OwnedBy(q.user)
        /\ q.new \in Tokens /\ q.new \notin HandedOut
        /\ ~Ledger!Exists(q.sid)
    BY <1>1, LedgerRequest
  <1>3. HandedOut' = HandedOut \cup {q.new}
    BY <1>1, <1>2, LedgerToken DEF IInv
  <1>4. Lines' = [Ledger!Closed(q.rows) EXCEPT ![q.sid] = line]
    <2>1. sessions' \in [SessionIds -> Row] /\ sessions \in [SessionIds -> Row]
      BY LoginCommitRows DEF IInv, TypeOK
    <2>2. ASSUME NEW s \in SessionIds
          PROVE  Lines'[s] =
                   [Ledger!Closed(q.rows) EXCEPT ![q.sid] = line][s]
      <3>1. /\ sessions'[s].revoked \in BOOLEAN
            /\ sessions[s].revoked \in BOOLEAN
        BY <2>1 DEF Row
      <3>2. Lines'[s] = [user    |-> sessions'[s].user,
                         revoked |-> sessions'[s].revoked,
                         token   |-> sessions'[s].hash]
        BY DEF Lines
      <3>3. CASE s = q.sid
        <4>1. /\ sessions'[s].user = q.user /\ sessions'[s].revoked = FALSE
              /\ sessions'[s].hash = q.new
          BY <3>1, <3>3, LoginCommitRows DEF IInv
        <4> QED BY <3>2, <3>3, <4>1 DEF Ledger!Closed
      <3>4. CASE s # q.sid
        <4>1. /\ sessions'[s].user = sessions[s].user
              /\ sessions'[s].revoked = (s \in q.rows \/ sessions[s].revoked)
              /\ sessions'[s].hash = sessions[s].hash
          BY <3>1, <3>4, LoginCommitRows DEF IInv
        <4>2. [Ledger!Closed(q.rows) EXCEPT ![q.sid] = line][s] =
                IF s \in q.rows THEN [Lines[s] EXCEPT !.revoked = TRUE]
                                ELSE Lines[s]
          BY <3>4 DEF Ledger!Closed
        <4>3. CASE s \in q.rows
          BY <3>2, <4>1, <4>2, <4>3 DEF Lines
        <4>4. CASE s \notin q.rows
          BY <3>1, <3>2, <4>1, <4>2, <4>4 DEF Lines
        <4> QED BY <4>3, <4>4
      <3> QED BY <3>3, <3>4
    <2> QED BY <2>2 DEF Lines, Ledger!Closed
  <1> QED BY <1>2, <1>3, <1>4 DEF Ledger!Enter

LEMMA LedgerRefresh ==
  ASSUME IInv, NEW r \in Slots, RefreshCommit(r)
  PROVE  Ledger!Exchange(req[r].sid, req[r].new)
  <1> DEFINE q == req[r]
  <1>1. q.op = "refresh" /\ tokenOf' = [tokenOf EXCEPT ![q.new] = q.sid]
    BY DEF RefreshCommit
  <1>2. /\ q.sid \in SessionIds /\ q.new \in Tokens /\ q.new \notin HandedOut
        /\ Ledger!Exists(q.sid)
    BY <1>1, LedgerRequest
  <1>3. HandedOut' = HandedOut \cup {q.new}
    BY <1>1, <1>2, LedgerToken DEF IInv
  <1>4. Lines' = [Lines EXCEPT ![q.sid].token = q.new]
    <2>1. ASSUME NEW s \in SessionIds
          PROVE  Lines'[s] = [Lines EXCEPT ![q.sid].token = q.new][s]
      <3>1. /\ sessions'[s].user = sessions[s].user
            /\ sessions'[s].revoked = sessions[s].revoked
            /\ sessions'[s].hash =
                 IF s = q.sid THEN q.new ELSE sessions[s].hash
        BY RefreshCommitRows DEF IInv
      <3> QED BY <3>1 DEF Lines
    <2> QED BY <2>1 DEF Lines
  <1> QED BY <1>2, <1>3, <1>4 DEF Ledger!Exchange

LEMMA LedgerLogout ==
  ASSUME IInv, NEW r \in Slots, LogoutCommit(r)
  PROVE  Ledger!Close(req[r].user, req[r].rows)
  <1> DEFINE q == req[r]
  <1>1. q.op = "logout" /\ tokenOf' = tokenOf
    BY DEF LogoutCommit
  <1>2. q.rows \subseteq Ledger!OwnedBy(q.user)
    BY <1>1, LedgerRequest
  <1>3. HandedOut' = HandedOut
    BY <1>1 DEF HandedOut
  <1>4. Lines' = Ledger!Closed(q.rows)
    <2>1. sessions' \in [SessionIds -> Row] /\ sessions \in [SessionIds -> Row]
      BY LogoutCommitRows DEF IInv, TypeOK
    <2>2. ASSUME NEW s \in SessionIds
          PROVE  Lines'[s] = Ledger!Closed(q.rows)[s]
      <3>1. /\ sessions'[s].revoked \in BOOLEAN
            /\ sessions[s].revoked \in BOOLEAN
        BY <2>1 DEF Row
      <3>2. /\ sessions'[s].user = sessions[s].user
            /\ sessions'[s].revoked = (s \in q.rows \/ sessions[s].revoked)
            /\ sessions'[s].hash = sessions[s].hash
        BY <3>1, LogoutCommitRows DEF IInv
      <3>3. CASE s \in q.rows
        BY <3>2, <3>3 DEF Lines, Ledger!Closed
      <3>4. CASE s \notin q.rows
        BY <3>1, <3>2, <3>4 DEF Lines, Ledger!Closed
      <3> QED BY <3>3, <3>4
    <2> QED BY <2>2 DEF Lines, Ledger!Closed
  <1> QED BY <1>2, <1>3, <1>4 DEF Ledger!Close

LEMMA LedgerStep == IInv /\ [Next]_vars => [Ledger!Next]_(Ledger!vars)
  <1> SUFFICES ASSUME IInv, [Next]_vars
               PROVE  Ledger!Next \/ UNCHANGED Ledger!vars
    OBVIOUS
  <1>1. ASSUME NEW r \in Slots, LoginCommit(r) PROVE Ledger!Next
    BY <1>1, LedgerLogin, LedgerRequest DEF LoginCommit, Ledger!Next
  <1>2. ASSUME NEW r \in Slots, RefreshCommit(r) PROVE Ledger!Next
    BY <1>2, LedgerRefresh, LedgerRequest DEF RefreshCommit, Ledger!Next
  <1>3. ASSUME NEW r \in Slots, LogoutCommit(r) PROVE Ledger!Next
    BY <1>3, LedgerLogout, LedgerRequest DEF LogoutCommit, Ledger!Next
  <1>4. CASE UNCHANGED <<sessions, tokenOf>>
    BY <1>4 DEF Ledger!vars, Lines, HandedOut
  <1> QED
    BY <1>1, <1>2, <1>3, <1>4
    DEF Next, Advance, LoginAuthenticate, LoginRefused, LoginSelect,
        RefreshSelect, RefreshRefused, LogoutSelect, Flush, Abort,
        ChangeActive, Tick, vars

(* The three handlers, with their statements, locks, rollbacks and stale   *)
(* reads, implement the ledger: sessions never change hands, never come    *)
(* back after they were closed, and never share a refresh token.           *)
THEOREM LedgerImplemented == Spec => ImplementsLedger
  BY Invariance, LedgerInit, LedgerStep, PTL
  DEF Spec, ImplementsLedger, Ledger!Spec
=============================================================================
