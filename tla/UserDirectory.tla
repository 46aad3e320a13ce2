--------------------------- MODULE UserDirectory ----------------------------
(***************************************************************************)
(* What the port UserRepository promises to the use cases, without its     *)
(* statements and transactions: a table of complete rows that changes one  *)
(* row at a time, keeps usernames unique and never forgets a user.         *)
(***************************************************************************)
CONSTANTS UserIds, Names, Passwords, Roles, None

VARIABLE users

FullRow == [name : Names, pw : Passwords, role : Roles, active : BOOLEAN]

Absent == [name |-> None, pw |-> None, role |-> None, active |-> FALSE]

Exists(u) == users[u].name # None

Free(n, u) == \A v \in UserIds \ {u} : users[v].name # n

(* There is somebody to log in as. *)
Init ==
  \E a \in UserIds, row \in FullRow :
    /\ row.active
    /\ users = [u \in UserIds |-> IF u = a THEN row ELSE Absent]

(* add: a user starts active, under a name nobody has. *)
Register(u, row) ==
  /\ ~Exists(u) /\ row.active /\ Free(row.name, u)
  /\ users' = [users EXCEPT ![u] = row]

(* update: the id stays, the name is free or its own. *)
Change(u, row) ==
  /\ Exists(u) /\ Free(row.name, u)
  /\ users' = [users EXCEPT ![u] = row]

Next == \E u \in UserIds, row \in FullRow : Register(u, row) \/ Change(u, row)

Spec == Init /\ [][Next]_users
=============================================================================
