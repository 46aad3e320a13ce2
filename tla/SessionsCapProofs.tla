-------------------------- MODULE SessionsCapProofs --------------------------
(***************************************************************************)
(* How far concurrent logins and refreshes overrun the session cap, for    *)
(* any cap and any number of requests: the proof of CapUnderConcurrency.   *)
(*                                                                         *)
(* The bound on the live sessions is not inductive.  A login that has      *)
(* chosen the rows it evicts will add one more whatever happens until its  *)
(* commit, and a refresh may bring back a session that expires meanwhile.  *)
(* So the invariant bounds, for each set of such requests, what is live    *)
(* once those requests have all committed.                                 *)
(***************************************************************************)
EXTENDS SessionsProofs, FiniteSetTheorems

LiveOf(u) == {s \in SessionIds : sessions[s].user = u /\ Live(s)}

(* The requests that may still add to the sessions of u, and have looked   *)
(* at them already.                                                        *)
Pending(u) ==
  {r \in Slots :
     /\ req[r].pc \in {"flush", "commit"}
     /\ \/ req[r].op = "login" /\ req[r].user = u
        \/ req[r].op = "refresh" /\ sessions[req[r].sid].user = u}

(* What a set P of them opens, evicts, and may bring back. *)
Opened(P) == {s \in SessionIds : \E r \in P : req[r].op = "login" /\ req[r].sid = s}

Evicted(P) ==
  {s \in SessionIds : \E r \in P : req[r].op = "login" /\ s \in req[r].rows}

Revived(P) ==
  {s \in SessionIds : /\ ~sessions[s].revoked
                      /\ \E r \in P : req[r].op = "refresh" /\ req[r].sid = s}

Ahead(u, P) == ((LiveOf(u) \cup Revived(P)) \ Evicted(P)) \cup Opened(P)

Bound == MaxSessions - 1 + Cardinality(Slots)

CapInv ==
  \A u \in Users : \A P \in SUBSET Pending(u) : Cardinality(Ahead(u, P)) <= Bound

-----------------------------------------------------------------------------
(* Counting. *)

LEMMA BoundType ==
  /\ Cardinality(Slots) \in Nat /\ MaxSessions \in Nat \ {0} /\ Bound \in Nat
  BY FiniteAssumption, SessionsAssumption, FS_CardinalityType DEF Bound

LEMMA AheadFinite ==
  ASSUME NEW u, NEW P
  PROVE  IsFiniteSet(Ahead(u, P)) /\ Ahead(u, P) \subseteq SessionIds
  <1>1. Ahead(u, P) \in SUBSET SessionIds
    BY DEF Ahead, LiveOf, Revived, Opened
  <1> QED BY <1>1, FiniteAssumption, FS_Subset

(* A set within one that is bounded is bounded. *)
LEMMA Covered ==
  ASSUME CapInv, NEW u \in Users, NEW Q \in SUBSET Pending(u),
         NEW A \in SUBSET Ahead(u, Q)
  PROVE  Cardinality(A) <= Bound
  <1>1. IsFiniteSet(Ahead(u, Q)) /\ IsFiniteSet(A)
    BY AheadFinite, FS_Subset
  <1>2. Cardinality(A) <= Cardinality(Ahead(u, Q))
    BY <1>1, FS_Subset
  <1>3. Cardinality(A) \in Nat /\ Cardinality(Ahead(u, Q)) \in Nat
    BY <1>1, FS_CardinalityType
  <1> QED BY <1>2, <1>3, BoundType DEF CapInv

(* The requests name no more sessions than there are slots. *)
LEMMA NamedCount ==
  ASSUME NEW f \in [Slots -> SessionIds \cup {None}]
  PROVE  /\ IsFiniteSet({f[r] : r \in Slots})
         /\ Cardinality({f[r] : r \in Slots}) \in Nat
         /\ Cardinality({f[r] : r \in Slots}) <= Cardinality(Slots)
  <1> DEFINE T == {f[r] : r \in Slots}
  <1>1. f \in Surjection(Slots, T)
    BY DEF Surjection
  <1> HIDE DEF T
  <1>2. IsFiniteSet(T) /\ Cardinality(T) <= Cardinality(Slots)
    BY <1>1, FiniteAssumption, FS_Surjection
  <1>3. Cardinality(T) \in Nat
    BY <1>2, FS_CardinalityType
  <1> QED BY <1>2, <1>3 DEF T

(* What the SELECT of create leaves. *)
LEMMA Kept ==
  ASSUME NEW u, NEW E \in Excess(u)
  PROVE  /\ IsFiniteSet(Competing(u) \ E)
         /\ Cardinality(Competing(u) \ E) \in Nat
         /\ Cardinality(Competing(u) \ E) <= MaxSessions - 1
  <1>1. Competing(u) \in SUBSET SessionIds
    BY DEF Competing, CompetingSQL, CompetingDjango
  <1>2. IsFiniteSet(Competing(u)) /\ IsFiniteSet(Competing(u) \ E)
    BY <1>1, FiniteAssumption, FS_Subset
  <1>3. Cardinality(Competing(u)) \in Nat /\ Cardinality(Competing(u) \ E) \in Nat
    BY <1>2, FS_CardinalityType
  <1>4. IF Cardinality(Competing(u)) < MaxSessions
          THEN E = {}
          ELSE Cardinality(Competing(u) \ E) = MaxSessions - 1
    BY DEF Excess
  <1>5. CASE Cardinality(Competing(u)) < MaxSessions
    <2>1. Competing(u) \ E = Competing(u)
      BY <1>4, <1>5
    <2> QED BY <1>2, <1>3, <1>5, <2>1, BoundType
  <1>6. CASE ~(Cardinality(Competing(u)) < MaxSessions)
    BY <1>2, <1>3, <1>4, <1>6, BoundType
  <1> QED BY <1>5, <1>6

LEMMA CapInit == Init => CapInv
  <1> SUFFICES ASSUME Init, NEW u \in Users, NEW P \in SUBSET Pending(u)
               PROVE  Cardinality(Ahead(u, P)) <= Bound
    BY DEF CapInv
  <1>1. \A r \in Slots : req[r].pc = "idle"
    BY IdleFacts DEF Init
  <1>2. P = {}
    BY <1>1 DEF Pending
  <1>3. LiveOf(u) = {}
    BY SessionsAssumption DEF Init, NoRow, LiveOf
  <1>4. Ahead(u, P) = {}
    BY <1>2, <1>3 DEF Ahead, Revived, Opened
  <1> QED BY <1>4, FS_EmptySet, BoundType

-----------------------------------------------------------------------------
(* Steps that leave the rows alone. *)

(* Time passes, or nothing happens that is looked at here. *)
LEMMA AheadOfTime ==
  ASSUME TypeOK, sessions' = sessions, req' = req, now' \in Nat, now <= now',
         NEW u \in Users, NEW P \in SUBSET Pending(u)'
  PROVE  P \in SUBSET Pending(u) /\ Ahead(u, P)' \subseteq Ahead(u, P)
  <1>1. Pending(u)' = Pending(u)
    BY DEF Pending
  <1>2. ASSUME NEW s \in LiveOf(u)' PROVE s \in LiveOf(u)
    BY <1>2 DEF LiveOf, Live, Exists, TypeOK, Row
  <1>3. /\ Revived(P)' = Revived(P) /\ Evicted(P)' = Evicted(P)
        /\ Opened(P)' = Opened(P)
    BY DEF Revived, Evicted, Opened
  <1> QED BY <1>1, <1>2, <1>3 DEF Ahead

(* A slot goes on with x: an unfinished request as before, or one that     *)
(* adds nothing to what is live already.                                   *)
LEMMA AheadOfSlot ==
  ASSUME TypeOK, sessions' = sessions, now' = now,
         NEW r \in Slots, NEW x \in Request, req' = [req EXCEPT ![r] = x],
         x.op = "login" /\ x.pc \in {"flush", "commit"} =>
           /\ req[r].op = "login" /\ req[r].pc \in {"flush", "commit"}
           /\ x.user = req[r].user /\ x.sid = req[r].sid
           /\ x.rows = req[r].rows,
         x.op = "refresh" =>
           \/ /\ req[r].op = "refresh" /\ req[r].pc \in {"flush", "commit"}
              /\ x.sid = req[r].sid
           \/ x.sid \in SessionIds /\ Live(x.sid) /\ req[r] = Idle,
         NEW u \in Users, NEW P \in SUBSET Pending(u)'
  PROVE  \E Q \in SUBSET Pending(u) : Ahead(u, P)' \subseteq Ahead(u, Q)
  <1> DEFINE Q == P \cap Pending(u)
  <1>1. req'[r] = x /\ \A q \in Slots \ {r} : req'[q] = req[q]
    BY DEF TypeOK
  <1>2. P \subseteq Slots /\ Q \in SUBSET Pending(u)
    BY DEF Pending
  <1>3. \A q \in P \ {r} : q \in Q
    BY <1>1, <1>2 DEF Pending
  <1>4. LiveOf(u)' = LiveOf(u)
    BY DEF LiveOf, Live, Exists
  <1>5. Opened(P)' \subseteq Opened(Q)
    <2>1. ASSUME NEW s \in SessionIds, NEW q \in P,
                 req'[q].op = "login", req'[q].sid = s
          PROVE  s \in Opened(Q)
      <3>1. CASE q # r
        BY <1>1, <1>2, <1>3, <2>1, <3>1 DEF Opened
      <3>2. CASE q = r
        BY <1>1, <1>2, <2>1, <3>2 DEF Opened, Pending
      <3> QED BY <3>1, <3>2
    <2> QED BY <2>1 DEF Opened
  <1>6. Evicted(Q) \subseteq Evicted(P)'
    <2>1. ASSUME NEW s \in SessionIds, NEW q \in Q,
                 req[q].op = "login", s \in req[q].rows
          PROVE  s \in Evicted(P)'
      <3>1. CASE q # r
        BY <1>1, <1>2, <2>1, <3>1 DEF Evicted
      <3>2. CASE q = r
        <4>1. x.op = "login" /\ x.pc \in {"flush", "commit"}
          BY <1>1, <2>1, <3>2, IdleFacts DEF Pending
        <4> QED BY <1>1, <1>2, <2>1, <3>2, <4>1 DEF Evicted
      <3> QED BY <3>1, <3>2
    <2> QED BY <2>1 DEF Evicted
  <1>7. Revived(P)' \subseteq Revived(Q) \cup LiveOf(u)
    <2>1. ASSUME NEW s \in SessionIds, NEW q \in P, ~sessions[s].revoked,
                 req'[q].op = "refresh", req'[q].sid = s
          PROVE  s \in Revived(Q) \cup LiveOf(u)
      <3>1. CASE q # r
        BY <1>1, <1>2, <1>3, <2>1, <3>1 DEF Revived
      <3>2. CASE q = r
        <4>1. sessions[s].user = u
          BY <1>1, <2>1, <3>2 DEF Pending
        <4> QED BY <1>1, <1>2, <2>1, <3>2, <4>1 DEF Revived, Pending, LiveOf
      <3> QED BY <3>1, <3>2
    <2> QED BY <2>1 DEF Revived
  <1>8. Ahead(u, P)' \subseteq Ahead(u, Q)
    <2> HIDE DEF Q
    <2>1. Revived(P)' \ Evicted(P)' \subseteq (Revived(Q) \cup LiveOf(u)) \ Evicted(Q)
      BY <1>6, <1>7
    <2> QED BY <1>4, <1>5, <1>6, <2>1 DEF Ahead
  <1> QED BY <1>2, <1>8

(* A login looks at the sessions of its user: it keeps less than the cap,  *)
(* and besides only what the requests themselves name will be live.        *)
LEMMA CapLoginSelect ==
  ASSUME TypeOK, TypeOK', CapInv, NEW r \in Slots, LoginSelect(r),
         NEW u \in Users, NEW P \in SUBSET Pending(u)'
  PROVE  Cardinality(Ahead(u, P)') <= Bound
  <1>1. PICK x \in Request :
          /\ req' = [req EXCEPT ![r] = x]
          /\ x.op = "login" /\ x.pc = "flush"
          /\ x.user = req[r].user /\ x.sid = req[r].sid
          /\ x.rows \in Excess(req[r].user)
    BY LoginSelectSlot
  <1>2. sessions' = sessions /\ now' = now /\ req[r].op = "login"
    BY DEF LoginSelect
  <1>3. req'[r] = x /\ \A q \in Slots \ {r} : req'[q] = req[q]
    BY <1>1 DEF TypeOK
  <1>4. P \subseteq Slots
    BY DEF Pending
  <1>5. CASE r \notin P
    <2>1. \A q \in P : req'[q] = req[q]
      BY <1>3, <1>4, <1>5
    <2>2. P \in SUBSET Pending(u)
      BY <1>2, <1>4, <2>1 DEF Pending
    <2>3. LiveOf(u)' = LiveOf(u)
      BY <1>2 DEF LiveOf, Live, Exists
    <2>4. /\ Revived(P)' = Revived(P) /\ Evicted(P)' = Evicted(P)
          /\ Opened(P)' = Opened(P)
      BY <1>2, <2>1 DEF Revived, Evicted, Opened
    <2>5. Ahead(u, P)' = Ahead(u, P)
      BY <2>3, <2>4 DEF Ahead
    <2> QED BY <2>2, <2>5 DEF CapInv
  <1>6. CASE r \in P
    <2> DEFINE f == [q \in Slots |-> req'[q].sid]
               N == {f[q] : q \in Slots}
               K == Competing(u) \ x.rows
    <2>1. f \in [Slots -> SessionIds \cup {None}]
      BY DEF TypeOK, Request
    <2>2. x.user = u
      BY <1>1, <1>3, <1>6 DEF Pending
    <2>3. LiveOf(u) \subseteq Competing(u)
      BY DEF LiveOf, Live, Competing, CompetingSQL, CompetingDjango
    <2>4. LiveOf(u)' = LiveOf(u)
      BY <1>2 DEF LiveOf, Live, Exists
    <2>5. x.rows \cap SessionIds \subseteq Evicted(P)'
      BY <1>1, <1>3, <1>6 DEF Evicted
    <2>6. LiveOf(u)' \ Evicted(P)' \subseteq K
      BY <2>3, <2>4, <2>5 DEF LiveOf
    <2>7. Revived(P)' \subseteq N /\ Opened(P)' \subseteq N
      BY <1>4 DEF Revived, Opened
    <2> HIDE DEF f, N, K
    <2>8. Ahead(u, P)' \subseteq K \cup N
      BY <2>6, <2>7 DEF Ahead
    <2>9. /\ IsFiniteSet(K) /\ Cardinality(K) \in Nat
          /\ Cardinality(K) <= MaxSessions - 1
      BY <1>1, <2>2, Kept DEF K
    <2>10. /\ IsFiniteSet(N) /\ Cardinality(N) \in Nat
           /\ Cardinality(N) <= Cardinality(Slots)
      BY <2>1, NamedCount DEF N
    <2>11. /\ IsFiniteSet(K \cup N)
           /\ Cardinality(K \cup N) =
                Cardinality(K) + Cardinality(N) - Cardinality(K \cap N)
      BY <2>9, <2>10, FS_Union
    <2>12. Cardinality(K \cap N) \in Nat
      BY <2>9, FS_Intersection, FS_CardinalityType
    <2>13. /\ IsFiniteSet(Ahead(u, P)')
           /\ Cardinality(Ahead(u, P)') <= Cardinality(K \cup N)
      BY <2>8, <2>11, FS_Subset
    <2>14. Cardinality(Ahead(u, P)') \in Nat
      BY <2>13, FS_CardinalityType
    <2> QED BY <2>9, <2>10, <2>11, <2>12, <2>13, <2>14, BoundType DEF Bound
  <1> QED BY <1>5, <1>6

-----------------------------------------------------------------------------
(* Commits. *)

(* Only the rows a commit is about are any different.                      *)
LEMMA CommitExpires ==
  ASSUME TypeOK, NEW r \in Slots,
         LoginCommit(r) \/ RefreshCommit(r) \/ LogoutCommit(r),
         NEW s \in SessionIds, s # req[r].sid \/ LogoutCommit(r)
  PROVE  sessions'[s].expires = sessions[s].expires
  <1>1. sessions[s] \in Row
    BY DEF TypeOK
  <1>2. [sessions[s] EXCEPT !.revoked = TRUE].expires = sessions[s].expires
    BY <1>1 DEF Row
  <1>3. CASE LoginCommit(r)
    <2>1. CASE s = req[r].sid
      <3>1. req[r].op = "login" /\ req[r].op = "logout"
        BY <1>3, <2>1 DEF LoginCommit, LogoutCommit
      <3> QED BY <3>1
    <2>2. CASE s # req[r].sid
      BY <1>2, <1>3, <2>2 DEF LoginCommit
    <2> QED BY <2>1, <2>2
  <1>4. CASE RefreshCommit(r)
    <2>1. CASE s = req[r].sid
      <3>1. req[r].op = "refresh" /\ req[r].op = "logout"
        BY <1>4, <2>1 DEF RefreshCommit, LogoutCommit
      <3> QED BY <3>1
    <2>2. CASE s # req[r].sid
      BY <1>4, <2>2 DEF RefreshCommit, TypeOK
    <2> QED BY <2>1, <2>2
  <1>5. CASE LogoutCommit(r)
    BY <1>2, <1>5 DEF LogoutCommit
  <1> QED BY <1>3, <1>4, <1>5

(* The other requests, seen from a commit.                                 *)
LEMMA CommitOthers ==
  ASSUME TypeOK, RowInv, NEW r \in Slots,
         LoginCommit(r) \/ RefreshCommit(r) \/ LogoutCommit(r),
         NEW u \in Users, NEW P \in SUBSET Pending(u)'
  PROVE  /\ P \in SUBSET Pending(u) /\ r \notin P
         /\ \A q \in P : req'[q] = req[q]
         /\ Evicted(P)' = Evicted(P) /\ Opened(P)' = Opened(P)
  <1>1. req' = [req EXCEPT ![r] = Idle]
    BY DEF LoginCommit, RefreshCommit, LogoutCommit
  <1>2. req'[r] = Idle /\ \A q \in Slots \ {r} : req'[q] = req[q]
    BY <1>1 DEF TypeOK
  <1>3. r \notin P
    BY <1>2, IdleFacts DEF Pending
  <1>4. P \subseteq Slots /\ \A q \in P : req'[q] = req[q]
    BY <1>2, <1>3 DEF Pending
  <1>5. ASSUME NEW q \in P, req[q].op = "refresh"
        PROVE  sessions'[req[q].sid].user = sessions[req[q].sid].user
    <2>1. req[q].sid \in SessionIds /\ Exists(req[q].sid)
      BY <1>4, <1>5 DEF RowInv
    <2>2. LoginCommit(r) => req[q].sid # req[r].sid
      BY <2>1 DEF RowInv, LoginCommit
    <2> QED BY <2>1, <2>2, LoginCommitRows, RefreshCommitRows, LogoutCommitRows
  <1>6. P \in SUBSET Pending(u)
    BY <1>4, <1>5 DEF Pending
  <1>7. Evicted(P)' = Evicted(P) /\ Opened(P)' = Opened(P)
    BY <1>4 DEF Evicted, Opened
  <1> QED BY <1>3, <1>4, <1>6, <1>7

LEMMA AheadOfLogin ==
  ASSUME TypeOK, RowInv, NEW r \in Slots, LoginCommit(r),
         NEW u \in Users, NEW P \in SUBSET Pending(u)'
  PROVE  \E Q \in SUBSET Pending(u) : Ahead(u, P)' \subseteq Ahead(u, Q)
  <1> DEFINE Q == IF req[r].user = u THEN P \cup {r} ELSE P
             sid == req[r].sid
  <1>1. req[r].op = "login" /\ req[r].pc = "commit" /\ now' = now
    BY DEF LoginCommit
  <1>2. /\ P \in SUBSET Pending(u) /\ r \notin P
        /\ \A q \in P : req'[q] = req[q]
        /\ Evicted(P)' = Evicted(P) /\ Opened(P)' = Opened(P)
    BY CommitOthers
  <1>3. Q \in SUBSET Pending(u)
    BY <1>1, <1>2 DEF Pending
  <1>4. sid \in SessionIds /\ ~Exists(sid) /\ ~sessions[sid].revoked
    BY <1>1 DEF RowInv
  <1>5. \A s \in SessionIds :
          IF s = sid
            THEN sessions'[s].user = req[r].user /\ ~sessions'[s].revoked
            ELSE /\ sessions'[s].user = sessions[s].user
                 /\ sessions'[s].revoked <=>
                      s \in req[r].rows \/ sessions[s].revoked
                 /\ sessions'[s].expires = sessions[s].expires
    BY LoginCommitRows, CommitExpires
  <1>6. Evicted(Q) \subseteq Evicted(P) \cup req[r].rows
    BY DEF Evicted
  <1>7. /\ Opened(P) \subseteq Opened(Q)
        /\ req[r].user = u => sid \in Opened(Q)
    BY <1>1, <1>4 DEF Opened
  <1>8. ASSUME NEW s \in SessionIds, s # sid, s \notin Evicted(P),
               s \in LiveOf(u)' \/ s \in Revived(P)'
        PROVE  s \in Ahead(u, Q)
    <2>1. s \notin req[r].rows /\ ~sessions[s].revoked
      BY <1>5, <1>8 DEF LiveOf, Live, Revived
    <2>2. s \notin Evicted(Q)
      BY <1>6, <1>8, <2>1
    <2>3. s \in LiveOf(u)' => s \in LiveOf(u)
      BY <1>1, <1>5, <1>8 DEF LiveOf, Live, Exists
    <2>4. s \in Revived(P)' => s \in Revived(Q)
      BY <1>2, <2>1 DEF Revived
    <2> QED BY <1>8, <2>2, <2>3, <2>4 DEF Ahead
  <1>9. ASSUME sid \notin Evicted(P), sid \in LiveOf(u)' \/ sid \in Revived(P)'
        PROVE  sid \in Ahead(u, Q)
    <2>1. sid \notin Revived(P)'
      <3>1. ASSUME NEW q \in P, req[q].op = "refresh", req[q].sid = sid
            PROVE  FALSE
        BY <1>2, <1>4, <3>1 DEF RowInv, Pending
      <3> QED BY <1>2, <3>1 DEF Revived
    <2>2. req[r].user = u
      BY <1>4, <1>5, <1>9, <2>1 DEF LiveOf
    <2> QED BY <1>7, <2>2 DEF Ahead
  <1>10. Opened(P)' \subseteq Ahead(u, Q)
    BY <1>2, <1>7 DEF Ahead
  <1> HIDE DEF Q, sid
  <1>11. \A s \in LiveOf(u)' \cup Revived(P)' : s \in SessionIds
    BY DEF LiveOf, Revived
  <1>12. Ahead(u, P)' \subseteq Ahead(u, Q)
    BY <1>2, <1>8, <1>9, <1>10, <1>11 DEF Ahead
  <1> QED BY <1>3, <1>12

LEMMA AheadOfRefresh ==
  ASSUME TypeOK, RowInv, NEW r \in Slots, RefreshCommit(r),
         NEW u \in Users, NEW P \in SUBSET Pending(u)'
  PROVE  \E Q \in SUBSET Pending(u) : Ahead(u, P)' \subseteq Ahead(u, Q)
  <1> DEFINE sid == req[r].sid
             Q == IF sessions[sid].user = u THEN P \cup {r} ELSE P
  <1>1. req[r].op = "refresh" /\ req[r].pc = "commit" /\ now' = now
    BY DEF RefreshCommit
  <1>2. /\ P \in SUBSET Pending(u) /\ r \notin P
        /\ \A q \in P : req'[q] = req[q]
        /\ Evicted(P)' = Evicted(P) /\ Opened(P)' = Opened(P)
    BY CommitOthers
  <1>3. Q \in SUBSET Pending(u)
    BY <1>1, <1>2 DEF Pending
  <1>4. \A s \in SessionIds :
          /\ sessions'[s].user = sessions[s].user
          /\ sessions'[s].revoked = sessions[s].revoked
          /\ s # sid => sessions'[s].expires = sessions[s].expires
    BY RefreshCommitRows, CommitExpires
  <1>5. Evicted(Q) = Evicted(P) /\ Opened(P) \subseteq Opened(Q)
    BY <1>1 DEF Evicted, Opened
  <1>6. ASSUME NEW s \in LiveOf(u)' PROVE s \in LiveOf(u) \cup Revived(Q)
    <2>1. CASE s # sid
      BY <1>1, <1>4, <1>6, <2>1 DEF LiveOf, Live, Exists
    <2>2. CASE s = sid
      <3>1. sessions[sid].user = u /\ ~sessions[sid].revoked
        BY <1>4, <1>6, <2>2 DEF LiveOf, Live
      <3> QED BY <1>1, <1>6, <2>2, <3>1 DEF LiveOf, Revived
    <2> QED BY <2>1, <2>2
  <1>7. Revived(P)' \subseteq Revived(Q)
    BY <1>2, <1>4 DEF Revived
  <1> HIDE DEF Q, sid
  <1>8. Ahead(u, P)' \subseteq Ahead(u, Q)
    BY <1>2, <1>5, <1>6, <1>7 DEF Ahead
  <1> QED BY <1>3, <1>8

LEMMA AheadOfLogout ==
  ASSUME TypeOK, RowInv, NEW r \in Slots, LogoutCommit(r),
         NEW u \in Users, NEW P \in SUBSET Pending(u)'
  PROVE  P \in SUBSET Pending(u) /\ Ahead(u, P)' \subseteq Ahead(u, P)
  <1>1. now' = now
    BY DEF LogoutCommit
  <1>2. /\ P \in SUBSET Pending(u) /\ \A q \in P : req'[q] = req[q]
        /\ Evicted(P)' = Evicted(P) /\ Opened(P)' = Opened(P)
    BY CommitOthers
  <1>3. \A s \in SessionIds :
          /\ sessions'[s].user = sessions[s].user
          /\ sessions[s].revoked => sessions'[s].revoked
          /\ sessions'[s].expires = sessions[s].expires
    BY LogoutCommitRows, CommitExpires
  <1>4. LiveOf(u)' \subseteq LiveOf(u)
    BY <1>1, <1>3 DEF LiveOf, Live, Exists
  <1>5. Revived(P)' \subseteq Revived(P)
    BY <1>2, <1>3 DEF Revived
  <1> QED BY <1>2, <1>4, <1>5 DEF Ahead

-----------------------------------------------------------------------------
(* The invariant and the theorem. *)

LEMMA CapStep == IInv /\ IInv' /\ CapInv /\ [Next]_vars => CapInv'
  <1> SUFFICES ASSUME IInv, IInv', CapInv, [Next]_vars,
                      NEW u \in Users, NEW P \in SUBSET Pending(u)'
               PROVE  Cardinality(Ahead(u, P)') <= Bound
    BY DEF CapInv, Bound
  <1> USE DEF IInv
  <1> DEFINE Ok == \E Q \in SUBSET Pending(u) : Ahead(u, P)' \subseteq Ahead(u, Q)
  <1>1. Ok => Cardinality(Ahead(u, P)') <= Bound
    BY Covered
  <1>2. ASSUME NEW r \in Slots, NEW v \in Users, LoginAuthenticate(r, v) PROVE Ok
    <2>1. PICK x \in Request :
            req' = [req EXCEPT ![r] = x] /\ x.op = "login" /\ x.pc = "create"
      BY <1>2, LoginAuthenticateSlot
    <2> QED BY <1>2, <2>1, AheadOfSlot DEF LoginAuthenticate
  <1>3. ASSUME NEW r \in Slots, NEW t \in Tokens, RefreshSelect(r, t) PROVE Ok
    <2>1. PICK x \in Request :
            /\ req' = [req EXCEPT ![r] = x] /\ x.op = "refresh"
            /\ x.sid \in SessionIds /\ Refreshable(t, x.sid)
      BY <1>3, RefreshSelectSlot
    <2>2. Live(x.sid) /\ req[r] = Idle /\ sessions' = sessions /\ now' = now
      BY <1>3, <2>1 DEF RefreshSelect, Refreshable, Usable
    <2> QED BY <2>1, <2>2, AheadOfSlot
  <1>4. ASSUME NEW r \in Slots, NEW s \in SessionIds, LogoutSelect(r, s) PROVE Ok
    <2>1. PICK x \in Request :
            /\ req' = [req EXCEPT ![r] = x]
            /\ x.op = "logout" /\ x.pc \in {"flush", "commit"} /\ x.sid = s
            /\ x.user = sessions[s].user
            /\ x.rows = IF sessions[s].revoked THEN {} ELSE {s}
      BY <1>4, LogoutSelectSlot
    <2> QED BY <1>4, <2>1, AheadOfSlot DEF LogoutSelect
  <1>5. ASSUME NEW r \in Slots, Flush(r) PROVE Ok
    <2>1. PICK x \in Request :
            /\ req' = [req EXCEPT ![r] = x] /\ req[r].pc = "flush"
            /\ x.op = req[r].op /\ x.user = req[r].user
            /\ x.sid = req[r].sid /\ x.rows = req[r].rows
      BY <1>5, FlushSlot
    <2> QED BY <1>5, <2>1, AheadOfSlot DEF Flush
  <1>6. ASSUME NEW r \in Slots, Abort(r) PROVE Ok
    BY <1>6, IdleFacts, AheadOfSlot DEF Abort
  <1>7. ASSUME NEW r \in Slots, LoginSelect(r)
        PROVE  Cardinality(Ahead(u, P)') <= Bound
    BY <1>7, CapLoginSelect
  <1>8. ASSUME NEW r \in Slots,
               LoginCommit(r) \/ RefreshCommit(r) \/ LogoutCommit(r)
        PROVE  Ok
    BY <1>8, AheadOfLogin, AheadOfRefresh, AheadOfLogout
  <1>9. CASE sessions' = sessions /\ req' = req /\ (now' = now \/ now' = now + 1)
    <2>1. now' \in Nat /\ now <= now'
      BY <1>9 DEF TypeOK
    <2> QED BY <1>9, <2>1, AheadOfTime, <1>1
  <1>10. CASE Next
    <2>1. CASE Tick \/ \E v \in Users : ChangeActive(v)
      BY <1>9, <2>1 DEF Tick, ChangeActive
    <2>2. ASSUME NEW r \in Slots,
                 LoginRefused(r) \/ \E t \in Tokens : RefreshRefused(r, t)
          PROVE  Cardinality(Ahead(u, P)') <= Bound
      BY <1>9, <2>2 DEF LoginRefused, RefreshRefused, vars
    <2> HIDE DEF Ok
    <2> QED
      BY <1>1, <1>2, <1>3, <1>4, <1>5, <1>6, <1>7, <1>8, <1>10, <2>1, <2>2
      DEF Next, Advance
  <1>11. CASE UNCHANGED vars
    BY <1>9, <1>11 DEF vars
  <1> QED BY <1>10, <1>11

(* MAX_CONCURRENT_SESSIONS is overrun by less than the number of requests  *)
(* in flight, on either stack and for any cap: logins that do not see each *)
(* other's rows and refreshes of expired sessions add one session each.    *)
THEOREM CapHoldsUnderConcurrency == Spec => []CapUnderConcurrency
  <1>1. CapInv => CapUnderConcurrency
    <2> SUFFICES ASSUME CapInv, NEW u \in Users
                 PROVE  Cardinality(LiveOf(u)) <= Bound
      BY DEF CapUnderConcurrency, LiveOf, Bound
    <2>1. {} \in SUBSET Pending(u) /\ LiveOf(u) \in SUBSET Ahead(u, {})
      BY DEF Ahead, Evicted
    <2> QED BY <2>1, Covered
  <1> QED BY <1>1, CapInit, CapStep, Invariance, PTL DEF Spec
=============================================================================
