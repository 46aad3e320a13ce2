----------------------------- MODULE StandingProofs ----------------------------
(***************************************************************************)
(* Sessions.tla keeps the contract of Standing.tla, for any users,         *)
(* sessions, tokens, requests and lifetimes and on either stack: sessions  *)
(* are opened, renewed and revoked by requests that found them so when     *)
(* they began, and a revoked one stays revoked.                            *)
(***************************************************************************)
EXTENDS SessionsProofs

(* A logout writes no other row than that of its session. *)
LogoutInv ==
  \A r \in Slots : req[r].op = "logout" => req[r].rows \subseteq {req[r].sid}

LEMMA LogoutStep == ASSUME IInv, LogoutInv, [Next]_vars PROVE LogoutInv'
  <1> DEFINE Good(x) == x.op = "logout" => x.rows \subseteq {x.sid}
  <1>1. ASSUME NEW r \in Slots, NEW x, req' = [req EXCEPT ![r] = x], Good(x)
        PROVE  LogoutInv'
    BY <1>1 DEF IInv, TypeOK, LogoutInv
  <1>2. ASSUME NEW r \in Slots, req' = [req EXCEPT ![r] = Idle]
        PROVE  LogoutInv'
    BY <1>1, <1>2, IdleFacts
  <1>3. ASSUME NEW r \in Slots, NEW u \in Users, LoginAuthenticate(r, u)
        PROVE  LogoutInv'
    <2>1. PICK x \in Request : req' = [req EXCEPT ![r] = x] /\ x.op = "login"
      BY <1>3, LoginAuthenticateSlot DEF IInv
    <2> QED BY <1>1, <2>1
  <1>4. ASSUME NEW r \in Slots, LoginSelect(r) PROVE LogoutInv'
    <2>1. PICK x \in Request : req' = [req EXCEPT ![r] = x] /\ x.op = "login"
      BY <1>4, LoginSelectSlot DEF IInv
    <2> QED BY <1>1, <2>1
  <1>5. ASSUME NEW r \in Slots, NEW t \in Tokens, RefreshSelect(r, t)
        PROVE  LogoutInv'
    <2>1. PICK x \in Request : req' = [req EXCEPT ![r] = x] /\ x.op = "refresh"
      BY <1>5, RefreshSelectSlot DEF IInv
    <2> QED BY <1>1, <2>1
  <1>6. ASSUME NEW r \in Slots, NEW s \in SessionIds, LogoutSelect(r, s)
        PROVE  LogoutInv'
    <2>1. PICK x \in Request :
            /\ req' = [req EXCEPT ![r] = x]
            /\ x.op = "logout" /\ x.pc \in {"flush", "commit"} /\ x.sid = s
            /\ x.user = sessions[s].user /\ x.tok = None /\ x.new = None
            /\ x.rows = IF sessions[s].revoked THEN {} ELSE {s}
      BY <1>6, LogoutSelectSlot DEF IInv
    <2> QED BY <1>1, <2>1
  <1>7. ASSUME NEW r \in Slots, Flush(r) PROVE LogoutInv'
    <2>1. PICK x \in Request :
            /\ req' = [req EXCEPT ![r] = x]
            /\ x.op = req[r].op /\ x.sid = req[r].sid
            /\ x.rows = req[r].rows
      BY <1>7, FlushSlot DEF IInv
    <2> QED BY <1>1, <2>1 DEF LogoutInv
  <1>8. CASE req' = req
    BY <1>8 DEF LogoutInv
  <1> QED
    BY <1>2, <1>3, <1>4, <1>5, <1>6, <1>7, <1>8
    DEF Next, Advance, LoginRefused, RefreshRefused, LoginCommit,
        RefreshCommit, LogoutCommit, Abort, ChangeActive, Tick, vars

-----------------------------------------------------------------------------
(* Rows and requests as the contract sees them.                            *)

StateOf(row, t) ==
  IF row.user = None THEN "free" ELSE IF row.revoked THEN "revoked"
  ELSE IF row.expires > t THEN "live" ELSE "expired"

Stands(row, t) == [user |-> row.user, state |-> StateOf(row, t)]

Rows == [s \in SessionIds |-> StandingOf(s)]

Work == [r \in Slots |-> WorkOf(req[r])]

LEMMA Views ==
  /\ Rows = [s \in SessionIds |-> Stands(sessions[s], now)]
  /\ Rows' = [s \in SessionIds |-> Stands(sessions'[s], now')]
  /\ Work' = [r \in Slots |-> WorkOf(req'[r])]
  BY DEF Rows, Work, StandingOf, Exists, Stands, StateOf, WorkOf

(* A step that is about r only. *)
LEMMA Replaced ==
  ASSUME IInv, NEW r \in Slots, NEW x, req' = [req EXCEPT ![r] = x]
  PROVE  Work' = [Work EXCEPT ![r] = WorkOf(x)]
  <1>1. req' = [q \in Slots |-> IF q = r THEN x ELSE req[q]]
    BY DEF IInv, TypeOK
  <1> QED BY <1>1, Views DEF Work

LEMMA IdleWork == WorkOf(Idle) = Shared!NoWork
  BY IdleFacts DEF WorkOf, Shared!NoWork

LEMMA Same ==
  ASSUME sessions' = sessions, now' = now
  PROVE  Rows' = Rows
  BY Views

(* A step that writes nothing, and after which r is still about the same.  *)
LEMMA Stays ==
  ASSUME IInv, NEW r \in Slots, NEW x, req' = [req EXCEPT ![r] = x],
         x.op = req[r].op, x.user = req[r].user, x.sid = req[r].sid,
         sessions' = sessions, now' = now
  PROVE  UNCHANGED Shared!vars
  <1>1. WorkOf(x) = Work[r]
    BY DEF WorkOf, Work
  <1>2. Work' = Work
    BY <1>1, Replaced DEF Work
  <1> QED BY <1>2, Same DEF Shared!vars, Rows, Work

-----------------------------------------------------------------------------
(* A request begins.                                                       *)

LEMMA BeginView ==
  ASSUME IInv, NEW r \in Slots, req[r] = Idle, NEW x,
         req' = [req EXCEPT ![r] = x], sessions' = sessions, now' = now,
         \/ x.op = "login" /\ x.user \in Users
         \/ x.op = "refresh" /\ x.sid \in Shared!Live
         \/ /\ x.op = "logout" /\ x.sid \in SessionIds
            /\ Rows[x.sid].state # "free"
  PROVE  Shared!Begin(r)
  <1>1. Work[r] = Shared!NoWork
    BY IdleWork DEF Work
  <1>2. Work' = [Work EXCEPT ![r] = WorkOf(x)]
    BY Replaced
  <1>3. WorkOf(x) = [op   |-> x.op,
                     user |-> IF x.op = "login" THEN x.user ELSE None,
                     sid  |-> IF x.op = "login" THEN None ELSE x.sid]
    BY DEF WorkOf
  <1>4. Rows' = Rows
    BY Same
  <1>5. CASE x.op = "login" /\ x.user \in Users
    <2>1. Work' = [Work EXCEPT ![r] =
                     [op |-> "login", user |-> x.user, sid |-> None]]
      BY <1>2, <1>3, <1>5
    <2> QED BY <1>1, <1>4, <1>5, <2>1 DEF Shared!Begin, Rows, Work
  <1>6. CASE x.op = "refresh" /\ x.sid \in Shared!Live
    <2>1. Work' = [Work EXCEPT ![r] =
                     [op |-> "refresh", user |-> None, sid |-> x.sid]]
      BY <1>2, <1>3, <1>6
    <2> QED BY <1>1, <1>4, <1>6, <2>1 DEF Shared!Begin, Rows, Work
  <1>7. CASE /\ x.op = "logout" /\ x.sid \in SessionIds
             /\ Rows[x.sid].state # "free"
    <2>1. Work' = [Work EXCEPT ![r] =
                     [op |-> "logout", user |-> None, sid |-> x.sid]]
      BY <1>2, <1>3, <1>7
    <2> QED BY <1>1, <1>4, <1>7, <2>1 DEF Shared!Begin, Rows, Work
  <1> QED BY <1>5, <1>6, <1>7

LEMMA LoginBegins ==
  ASSUME IInv, NEW r \in Slots, NEW u \in Users, LoginAuthenticate(r, u)
  PROVE  Shared!Begin(r)
  <1>1. PICK x \in Request :
          /\ req' = [req EXCEPT ![r] = x]
          /\ x.op = "login" /\ x.pc = "create" /\ x.user = u /\ x.tok = None
          /\ x.sid \in FreshSessions /\ x.new \in FreshTokens /\ x.rows = {}
    BY LoginAuthenticateSlot DEF IInv
  <1> QED BY <1>1, BeginView DEF LoginAuthenticate

LEMMA RefreshBegins ==
  ASSUME IInv, NEW r \in Slots, NEW t \in Tokens, RefreshSelect(r, t)
  PROVE  Shared!Begin(r)
  <1>1. PICK x \in Request :
          /\ req' = [req EXCEPT ![r] = x]
          /\ x.op = "refresh" /\ x.pc = "flush" /\ x.tok = t
          /\ x.sid \in SessionIds /\ Refreshable(t, x.sid)
          /\ x.user = sessions[x.sid].user
          /\ x.new \in FreshTokens /\ x.rows = {x.sid}
    BY RefreshSelectSlot DEF IInv
  <1>2. Rows[x.sid].state = "live"
    BY <1>1 DEF Refreshable, Usable, Live, Rows, StandingOf
  <1>3. x.sid \in Shared!Live
    BY <1>1, <1>2 DEF Shared!Live, Rows
  <1> QED BY <1>1, <1>3, BeginView DEF RefreshSelect

LEMMA LogoutBegins ==
  ASSUME IInv, NEW r \in Slots, NEW s \in SessionIds, LogoutSelect(r, s)
  PROVE  Shared!Begin(r)
  <1>1. PICK x \in Request :
          /\ req' = [req EXCEPT ![r] = x]
          /\ x.op = "logout" /\ x.pc \in {"flush", "commit"} /\ x.sid = s
          /\ x.user = sessions[s].user /\ x.tok = None /\ x.new = None
          /\ x.rows = IF sessions[s].revoked THEN {} ELSE {s}
    BY LogoutSelectSlot DEF IInv
  <1>2. Exists(s)
    BY DEF LogoutSelect, IInv, TypeOK, RowInv
  <1>3. Rows[s].state # "free"
    BY <1>2 DEF Rows, StandingOf
  <1> QED BY <1>1, <1>3, BeginView DEF LogoutSelect

-----------------------------------------------------------------------------
(* A request commits.                                                      *)

LEMMA StateFacts ==
  ASSUME NEW row \in Row, NEW t
  PROVE  /\ row.user # None /\ row.revoked => StateOf(row, t) = "revoked"
         /\ row.user # None /\ ~row.revoked =>
              StateOf(row, t) \in Shared!Lasting
         /\ row.user # None => StateOf(row, t) # "free"
         /\ row.user = None => StateOf(row, t) = "free"
         /\ StateOf(row, t) = "revoked" => row.revoked
  BY DEF StateOf, Shared!Lasting

LEMMA LoginFinishes ==
  ASSUME IInv, NEW r \in Slots, LoginCommit(r)
  PROVE  Shared!Finish(r)
  <1> DEFINE q == req[r]
             w == Work[r]
             new == [user |-> q.user, expires |-> q.expires,
                     revoked |-> FALSE, hash |-> q.new]
             state == StateOf(new, now)
  <1>1. /\ q.op = "login" /\ q \in Request
        /\ req' = [req EXCEPT ![r] = Idle] /\ now' = now
        /\ sessions' = [s \in SessionIds |->
             IF s = q.sid THEN new
             ELSE IF s \in q.rows THEN [sessions[s] EXCEPT !.revoked = TRUE]
             ELSE sessions[s]]
    BY DEF LoginCommit, IInv, TypeOK
  <1>2. /\ q.sid \in SessionIds /\ q.user \in Users /\ ~Exists(q.sid)
        /\ \A s \in q.rows : sessions[s].user = q.user
        /\ q.rows \in SUBSET SessionIds
    BY <1>1 DEF IInv, RowInv, Request
  <1>3. /\ new.user = q.user /\ new.revoked = FALSE /\ new \in Row
    BY <1>1, <1>2 DEF Row, Request
  <1> HIDE DEF new
  <1>4. state \in Shared!Lasting
    BY <1>2, <1>3, StateFacts, SessionsAssumption
  <1>5. /\ w.op = "login" /\ w.user = q.user
    BY <1>1 DEF Work, WorkOf
  <1>6. Work' = [Work EXCEPT ![r] = Shared!NoWork]
    BY <1>1, Replaced, IdleWork
  <1>7. Rows[q.sid].state = "free"
    BY <1>2 DEF Rows, StandingOf
  <1>8. q.rows \in SUBSET Shared!OwnedBy(w.user)
    BY <1>2, <1>5 DEF Shared!OwnedBy, StandingOf
  <1>9. ASSUME NEW s \in SessionIds
        PROVE  Rows'[s] = IF s = q.sid THEN [user |-> q.user, state |-> state]
                          ELSE IF s \in q.rows
                            THEN [Rows[s] EXCEPT !.state = "revoked"]
                          ELSE Rows[s]
    <2>1. Rows'[s] = Stands(sessions'[s], now) /\ Rows[s] = Stands(sessions[s], now)
      BY <1>1, Views
    <2>2. CASE s = q.sid
      BY <1>1, <1>3, <2>1, <2>2 DEF Stands
    <2>3. CASE s # q.sid /\ s \in q.rows
      <3> DEFINE row == [sessions[s] EXCEPT !.revoked = TRUE]
      <3>1. sessions'[s] = row
        BY <1>1, <2>3
      <3>2. row \in Row /\ row.user = sessions[s].user /\ row.revoked
        BY DEF IInv, TypeOK, Row
      <3> HIDE DEF row
      <3>3. row.user # None
        BY <1>2, <2>3, <3>2, SessionsAssumption
      <3>4. StateOf(row, now) = "revoked"
        BY <3>2, <3>3, StateFacts
      <3>5. Rows'[s] = [user |-> sessions[s].user, state |-> "revoked"]
        BY <2>1, <3>1, <3>2, <3>4 DEF Stands
      <3> QED BY <2>1, <2>3, <3>5 DEF Stands
    <2>4. CASE s # q.sid /\ s \notin q.rows
      BY <1>1, <2>1, <2>4
    <2> QED BY <2>2, <2>3, <2>4
  <1> HIDE DEF state
  <1>10. Rows' = Shared!Opened(q.sid, w.user, q.rows, state)
    BY <1>5, <1>9, Views DEF Shared!Opened, Rows
  <1> HIDE DEF w
  <1> QED BY <1>2, <1>4, <1>5, <1>6, <1>7, <1>8, <1>10
          DEF Shared!Finish, w, Rows, Work

LEMMA RefreshFinishes ==
  ASSUME IInv, NEW r \in Slots, RefreshCommit(r)
  PROVE  Shared!Finish(r)
  <1> DEFINE q == req[r]
             w == Work[r]
             old == sessions[q.sid]
             new == [old EXCEPT !.hash = q.new, !.expires = q.expires]
  <1>1. /\ q.op = "refresh" /\ q \in Request
        /\ req' = [req EXCEPT ![r] = Idle] /\ now' = now
        /\ sessions' = [sessions EXCEPT ![q.sid] = new]
    BY DEF RefreshCommit, IInv, TypeOK
  <1>2. /\ q.sid \in SessionIds /\ Exists(q.sid)
    BY <1>1 DEF IInv, RowInv
  <1>3. /\ old \in Row /\ new \in Row
        /\ new.user = old.user /\ new.revoked = old.revoked
    <2>1. /\ old \in Row /\ q.new \in Tokens \cup {None}
          /\ q.expires \in Nat
      BY <1>1, <1>2 DEF IInv, TypeOK, Request
    <2> HIDE DEF old
    <2> QED BY <2>1 DEF Row
  <1>4. w.op = "refresh" /\ w.sid = q.sid
    BY <1>1 DEF Work, WorkOf
  <1>5. Work' = [Work EXCEPT ![r] = Shared!NoWork]
    BY <1>1, Replaced, IdleWork
  <1>6. /\ \A s \in SessionIds : s # q.sid => Rows'[s] = Rows[s]
        /\ Rows[q.sid] = Stands(old, now) /\ Rows'[q.sid] = Stands(new, now)
    BY <1>1, <1>2, Views DEF IInv, TypeOK
  <1> HIDE DEF new, old
  <1>7. old.user # None
    BY <1>2 DEF Exists, old
  <1>8. PICK state \in Shared!Lasting :
          StateOf(new, now) = IF StateOf(old, now) = "revoked" THEN "revoked"
                                                              ELSE state
    <2>1. CASE old.revoked
      BY <1>3, <1>7, <2>1, StateFacts DEF Shared!Lasting
    <2>2. CASE ~old.revoked
      BY <1>3, <1>7, <2>2, StateFacts
    <2> QED BY <2>1, <2>2
  <1>9. Rows' = [Rows EXCEPT ![q.sid].state =
                   IF @ = "revoked" THEN "revoked" ELSE state]
    <2>1. Rows'[q.sid] = [Rows[q.sid] EXCEPT !.state =
                            IF @ = "revoked" THEN "revoked" ELSE state]
      BY <1>3, <1>6, <1>8 DEF Stands
    <2> QED BY <1>6, <2>1, Views
  <1>10. Rows' = Shared!Renewed(w.sid, state)
    BY <1>4, <1>9 DEF Shared!Renewed, Rows
  <1> HIDE DEF w
  <1> QED BY <1>4, <1>5, <1>8, <1>10 DEF Shared!Finish, w, Rows, Work

LEMMA LogoutFinishes ==
  ASSUME IInv, LogoutInv, NEW r \in Slots, LogoutCommit(r)
  PROVE  Shared!Finish(r)
  <1> DEFINE q == req[r]
             w == Work[r]
             old == sessions[q.sid]
             new == [old EXCEPT !.revoked = TRUE]
  <1>1. /\ q.op = "logout" /\ q \in Request
        /\ req' = [req EXCEPT ![r] = Idle] /\ now' = now
        /\ sessions' = [s \in SessionIds |->
             IF s \in q.rows THEN [sessions[s] EXCEPT !.revoked = TRUE]
                             ELSE sessions[s]]
    BY DEF LogoutCommit, IInv, TypeOK
  <1>2. /\ q.sid \in SessionIds /\ Exists(q.sid)
        /\ q.rows \subseteq {q.sid} /\ (q.sid \in q.rows \/ old.revoked)
    BY <1>1 DEF IInv, RowInv, LogoutInv
  <1>3. /\ old \in Row /\ new \in Row
        /\ new.user = old.user /\ new.revoked
    BY <1>1, <1>2 DEF IInv, TypeOK, Row
  <1>4. w.op = "logout" /\ w.sid = q.sid
    BY <1>1 DEF Work, WorkOf
  <1>5. Work' = [Work EXCEPT ![r] = Shared!NoWork]
    BY <1>1, Replaced, IdleWork
  <1>6. sessions'[q.sid] = new \/ (sessions'[q.sid] = old /\ old.revoked)
    BY <1>1, <1>2
  <1>7. /\ \A s \in SessionIds : s # q.sid => Rows'[s] = Rows[s]
        /\ Rows[q.sid] = Stands(old, now)
        /\ Rows'[q.sid] = Stands(sessions'[q.sid], now)
    BY <1>1, <1>2, Views
  <1> HIDE DEF new, old
  <1>8. old.user # None
    BY <1>2 DEF Exists, old
  <1>9. Rows'[q.sid] = [user |-> old.user, state |-> "revoked"]
    BY <1>3, <1>6, <1>7, <1>8, StateFacts DEF Stands
  <1>10. Rows' = [Rows EXCEPT ![q.sid].state = "revoked"]
    <2>1. Rows'[q.sid] = [Rows[q.sid] EXCEPT !.state = "revoked"]
      BY <1>7, <1>9 DEF Stands
    <2> QED BY <1>7, <2>1, Views
  <1>11. Rows' = Shared!Closed(w.sid)
    BY <1>4, <1>10 DEF Shared!Closed, Rows
  <1> HIDE DEF w
  <1> QED BY <1>4, <1>5, <1>11 DEF Shared!Finish, w, Rows, Work

-----------------------------------------------------------------------------
(* Time passes.                                                            *)

LEMMA TickExpires ==
  ASSUME IInv, Tick
  PROVE  Shared!Expire
  <1> DEFINE E == {s \in Shared!Live : Rows'[s].state # "live"}
  <1>1. sessions' = sessions /\ req' = req /\ now' = now + 1 /\ now \in Nat
    BY DEF Tick, IInv, TypeOK
  <1>2. Work' = Work
    BY <1>1, Views DEF Work
  <1>3. Shared!Live = {s \in SessionIds : Rows[s].state = "live"}
    BY DEF Shared!Live, Rows
  <1>4. ASSUME NEW s \in SessionIds
        PROVE  Rows'[s] = IF s \in E THEN [Rows[s] EXCEPT !.state = "expired"]
                                     ELSE Rows[s]
    <2>1. /\ Rows'[s] = Stands(sessions[s], now + 1)
          /\ Rows[s] = Stands(sessions[s], now)
      BY <1>1, Views
    <2>2. sessions[s].expires \in Nat
      BY DEF IInv, TypeOK, Row
    <2> QED BY <1>1, <1>3, <2>1, <2>2 DEF Stands, StateOf
  <1>5. E \in SUBSET Shared!Live
    OBVIOUS
  <1> HIDE DEF E
  <1>6. Rows' = Shared!Expired(E)
    BY <1>4, Views DEF Shared!Expired, Rows
  <1> QED BY <1>2, <1>5, <1>6 DEF Shared!Expire, Rows, Work

-----------------------------------------------------------------------------
LEMMA StandingStep ==
  ASSUME IInv, LogoutInv, [Next]_vars
  PROVE  [Shared!Next]_(Shared!vars)
  <1>1. ASSUME NEW r \in Slots, LoginSelect(r) PROVE UNCHANGED Shared!vars
    <2>1. PICK x \in Request :
            /\ req' = [req EXCEPT ![r] = x]
            /\ x.op = "login" /\ x.pc = "flush"
            /\ x.user = req[r].user /\ x.sid = req[r].sid
      BY <1>1, LoginSelectSlot DEF IInv
    <2>2. req[r].op = "login" /\ sessions' = sessions /\ now' = now
      BY <1>1 DEF LoginSelect
    <2> QED BY <2>1, <2>2, Stays
  <1>2. ASSUME NEW r \in Slots, Flush(r) PROVE UNCHANGED Shared!vars
    <2>1. PICK x \in Request :
            /\ req' = [req EXCEPT ![r] = x]
            /\ x.op = req[r].op /\ x.user = req[r].user
            /\ x.sid = req[r].sid
      BY <1>2, FlushSlot DEF IInv
    <2>2. sessions' = sessions /\ now' = now
      BY <1>2 DEF Flush
    <2> QED BY <2>1, <2>2, Stays
  <1>3. ASSUME NEW r \in Slots, Abort(r) PROVE Shared!Drop(r)
    <2>1. /\ req' = [req EXCEPT ![r] = Idle]
          /\ sessions' = sessions /\ now' = now
      BY <1>3 DEF Abort
    <2>2. Work' = [Work EXCEPT ![r] = Shared!NoWork]
      BY <2>1, Replaced, IdleWork
    <2> QED BY <2>1, <2>2, Same DEF Shared!Drop, Rows, Work
  <1>4. CASE sessions' = sessions /\ req' = req /\ now' = now
    <2>1. Work' = Work
      BY <1>4, Views DEF Work
    <2> QED BY <1>4, <2>1, Same DEF Shared!vars, Rows, Work
  <1>5. ASSUME NEW r \in Slots,
               Shared!Begin(r) \/ Shared!Finish(r) \/ Shared!Drop(r)
        PROVE  Shared!Next
    BY <1>5 DEF Shared!Next
  <1>6. CASE Tick
    BY <1>6, TickExpires DEF Shared!Next
  <1> QED
    BY <1>1, <1>2, <1>3, <1>4, <1>5, <1>6, LoginBegins, RefreshBegins,
       LogoutBegins, LoginFinishes, RefreshFinishes, LogoutFinishes
    DEF Next, Advance, LoginRefused, RefreshRefused, ChangeActive, vars

LEMMA StandingInit == Init => Shared!Init /\ LogoutInv
  <1> SUFFICES ASSUME Init PROVE Shared!Init /\ LogoutInv
    OBVIOUS
  <1>1. \A r \in Slots : req[r] = Idle /\ WorkOf(req[r]) = Shared!NoWork
    BY IdleWork DEF Init
  <1>2. \A s \in SessionIds : StandingOf(s) = Shared!Free
    BY DEF Init, StandingOf, Exists, NoRow, Shared!Free
  <1> QED BY <1>1, <1>2, IdleFacts DEF Shared!Init, LogoutInv

(* Whatever the three handlers interleave, no commit reopens a revoked     *)
(* session, and what has expired comes back only by a refresh that found   *)
(* it live.                                                                *)
THEOREM StandingImplemented == Spec => ImplementsStanding
  BY Invariance, StandingInit, LogoutStep, StandingStep, PTL
  DEF Spec, ImplementsStanding, Shared!Spec
=============================================================================
