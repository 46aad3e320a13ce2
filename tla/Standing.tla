------------------------------- MODULE Standing -------------------------------
(***************************************************************************)
(* How sessions stand (live, expired, revoked) while requests are under    *)
(* way that open, renew or revoke them: the contract between Sessions.tla, *)
(* which has the tokens, the times and the locks, and Api.tla, which has   *)
(* the callers and the answers.  What a request found out when it began    *)
(* need not be so any more when it commits.                                *)
(***************************************************************************)
CONSTANTS Users, SessionIds, Slots, None

VARIABLES
  standing,  \* whose each session is, and how it stands
  work       \* what each request is about to do

vars == <<standing, work>>

Free == [user |-> None, state |-> "free"]

NoWork == [op |-> "none", user |-> None, sid |-> None]

OwnedBy(u) == {s \in SessionIds : standing[s].user = u}

Live == {s \in SessionIds : standing[s].state = "live"}

(* create: s is opened for u, the sessions in out are revoked.  Its        *)
(* lifetime began when the transaction looked, so it may be over already.  *)
Opened(s, u, out, state) ==
  [x \in SessionIds |->
     IF x = s THEN [user |-> u, state |-> state]
     ELSE IF x \in out THEN [standing[x] EXCEPT !.state = "revoked"]
     ELSE standing[x]]

(* rotate_refresh_token: the new lifetime counts unless s was revoked.     *)
Renewed(s, state) ==
  [standing EXCEPT ![s].state = IF @ = "revoked" THEN "revoked" ELSE state]

(* revoke *)
Closed(s) == [standing EXCEPT ![s].state = "revoked"]

(* Time passes. *)
Expired(E) ==
  [x \in SessionIds |-> IF x \in E THEN [standing[x] EXCEPT !.state = "expired"]
                                   ELSE standing[x]]

Init ==
  /\ standing = [s \in SessionIds |-> Free]
  /\ work = [r \in Slots |-> NoWork]

(* A login was accepted; a refresh found its session; a logout has a token.*)
Begin(r) ==
  /\ work[r] = NoWork
  /\ \/ \E u \in Users :
          work' = [work EXCEPT ![r] = [op |-> "login", user |-> u, sid |-> None]]
     \/ \E s \in Live :
          work' = [work EXCEPT ![r] = [op |-> "refresh", user |-> None, sid |-> s]]
     \/ \E s \in SessionIds :
          /\ standing[s].state # "free"
          /\ work' = [work EXCEPT ![r] =
                        [op |-> "logout", user |-> None, sid |-> s]]
  /\ UNCHANGED standing

Lasting == {"live", "expired"}

(* The request commits. *)
Finish(r) ==
  LET w == work[r] IN
  /\ \/ /\ w.op = "login"
        /\ \E s \in SessionIds, out \in SUBSET OwnedBy(w.user), state \in Lasting :
             /\ standing[s].state = "free"
             /\ standing' = Opened(s, w.user, out, state)
     \/ /\ w.op = "refresh"
        /\ \E state \in Lasting : standing' = Renewed(w.sid, state)
     \/ w.op = "logout" /\ standing' = Closed(w.sid)
  /\ work' = [work EXCEPT ![r] = NoWork]

(* It is cut off, or finds nothing to do. *)
Drop(r) ==
  /\ work' = [work EXCEPT ![r] = NoWork]
  /\ UNCHANGED standing

Expire ==
  /\ \E E \in SUBSET Live : standing' = Expired(E)
  /\ UNCHANGED work

Next == (\E r \in Slots : Drop(r) \/ Begin(r) \/ Finish(r)) \/ Expire

Spec == Init /\ [][Next]_vars
=============================================================================
