---------------------------- MODULE SessionLedger ----------------------------
(***************************************************************************)
(* What the session repository promises to the handlers and the middleware,*)
(* without its statements, locks and lifetimes: a ledger that only grows.  *)
(* A line is opened for one user and never changes hands, it may be closed *)
(* but not opened again, and no refresh token is ever given out twice.     *)
(***************************************************************************)
CONSTANTS Users, SessionIds, Tokens, None

VARIABLES
  rows,  \* the lines: whose session, closed or not, the token in force
  used   \* the refresh tokens given out so far

vars == <<rows, used>>

Blank == [user |-> None, revoked |-> FALSE, token |-> None]

Exists(s) == rows[s].user # None

OwnedBy(u) == {s \in SessionIds : rows[s].user = u}

Closed(E) ==
  [s \in SessionIds |-> IF s \in E THEN [rows[s] EXCEPT !.revoked = TRUE]
                                   ELSE rows[s]]

Init ==
  /\ rows = [s \in SessionIds |-> Blank]
  /\ used = {}

(* create: a new line, and some older lines of the same user are closed.   *)
Enter(u, s, t, E) ==
  /\ ~Exists(s) /\ t \notin used /\ E \subseteq OwnedBy(u)
  /\ rows' = [Closed(E) EXCEPT ![s] =
       [user |-> u, revoked |-> FALSE, token |-> t]]
  /\ used' = used \cup {t}

(* rotate_refresh_token: nothing but the token changes.                    *)
Exchange(s, t) ==
  /\ Exists(s) /\ t \notin used
  /\ rows' = [rows EXCEPT ![s].token = t]
  /\ used' = used \cup {t}

(* revoke.                                                                 *)
Close(u, E) ==
  /\ E \subseteq OwnedBy(u)
  /\ rows' = Closed(E)
  /\ UNCHANGED used

Next ==
  \/ \E u \in Users, E \in SUBSET SessionIds :
       \/ Close(u, E)
       \/ \E s \in SessionIds, t \in Tokens : Enter(u, s, t, E)
  \/ \E s \in SessionIds, t \in Tokens : Exchange(s, t)

Spec == Init /\ [][Next]_vars
=============================================================================
