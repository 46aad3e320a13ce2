------------------------------- MODULE Accounts -------------------------------
(***************************************************************************)
(* What becomes of the two columns of users that authorisation reads, role *)
(* and is_active, while requests change rows they have read before: the    *)
(* contract between Users.tla, which has the statements, the locks and the *)
(* other columns, and Api.tla, which has the callers and the answers.  A   *)
(* change is made to a copy of the row, and from then on nobody looks      *)
(* whether the row is still the one that was copied.                       *)
(***************************************************************************)
CONSTANTS UserIds, Slots, Roles, None

VARIABLES
  accounts,  \* the committed rows
  changes,   \* the changed copy each request is about to write
  whole      \* an UPDATE sets every column; fixed for good

vars == <<accounts, changes, whole>>

Account == [role : Roles, active : BOOLEAN]

Absent == [role |-> None, active |-> FALSE]

NoChange == [of |-> None, to |-> Absent, insert |-> FALSE]

Exists(u) == accounts[u].role # None

Init ==
  /\ accounts \in [UserIds -> Account \cup {Absent}]
  /\ changes = [r \in Slots |-> NoChange]
  /\ whole \in BOOLEAN

(* The copies a use case may make of a row: its entity has another role,   *)
(* is deactivated, or differs in columns that are not kept here.           *)
Edited(row) ==
  {row, [row EXCEPT !.active = FALSE]} \cup {[row EXCEPT !.role = g] : g \in Roles}

(* What a statement may make of row: the copy, or its changed columns only.*)
Written(row, to, all) ==
  IF all THEN {to}
  ELSE {row, to, [row EXCEPT !.role = to.role], [row EXCEPT !.active = to.active]}

(* r has read the row of u and changed its copy. *)
Edit(r, u) ==
  /\ changes[r] = NoChange /\ Exists(u)
  /\ \E to \in Edited(accounts[u]) :
       changes' = [changes EXCEPT ![r] = [of |-> u, to |-> to, insert |-> FALSE]]
  /\ UNCHANGED <<accounts, whole>>

(* r makes a user under an id nobody has. *)
Make(r, u) ==
  /\ changes[r] = NoChange /\ ~Exists(u)
  /\ \E g \in Roles :
       changes' = [changes EXCEPT ![r] =
         [of |-> u, to |-> [role |-> g, active |-> TRUE], insert |-> TRUE]]
  /\ UNCHANGED <<accounts, whole>>

(* The statement of r commits. *)
Write(r) ==
  LET c == changes[r] IN
  /\ c # NoChange
  /\ IF c.insert THEN ~Exists(c.of) ELSE Exists(c.of)
  /\ \E row \in Written(accounts[c.of], c.to, c.insert \/ whole) :
       accounts' = [accounts EXCEPT ![c.of] = row]
  /\ changes' = [changes EXCEPT ![r] = NoChange]
  /\ UNCHANGED whole

(* r is answered otherwise, refused by the database or cut off. *)
Drop(r) ==
  /\ changes' = [changes EXCEPT ![r] = NoChange]
  /\ UNCHANGED <<accounts, whole>>

Next ==
  \E r \in Slots : \/ Drop(r)
                   \/ \E u \in UserIds : Edit(r, u) \/ Make(r, u)
                   \/ Write(r)

Spec == Init /\ [][Next]_vars
=============================================================================
