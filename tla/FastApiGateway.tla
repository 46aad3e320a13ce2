---------------------------- MODULE FastApiGateway ----------------------------
(***************************************************************************)
(* The FastAPI interface as functions of what it looks at: which calls it  *)
(* answers by itself, and the status code and Cache-Control header of the  *)
(* rest.  It keeps no state.  DrfGateway.tla has the same operators, and   *)
(* Api.tla uses whichever of the two runs.                                 *)
(*                                                                         *)
(* An input is "good", "malformed" (the schema of the body refuses it),    *)
(* "bad_id" (the path holds no UUID), "bad_value" (well formed, but no     *)
(* role, user or token of that name) or "empty" (an update of nothing).    *)
(***************************************************************************)
EXTENDS Naturals

-----------------------------------------------------------------------------
(* The handlers: method, code of success, whether the path has a user_id   *)
(* and whether there is a body.                                            *)

GetAllUsers == [method |-> "GET", ok |-> 200, path |-> FALSE, body |-> FALSE]
GetUser == [method |-> "GET", ok |-> 200, path |-> TRUE, body |-> FALSE]
UpdateUser == [method |-> "PATCH", ok |-> 200, path |-> TRUE, body |-> TRUE]
CreateUser == [method |-> "POST", ok |-> 201, path |-> FALSE, body |-> TRUE]
ChangePassword ==
  [method |-> "PATCH", ok |-> 200, path |-> TRUE, body |-> TRUE]
DeleteUser == [method |-> "DELETE", ok |-> 200, path |-> TRUE, body |-> FALSE]
Login == [method |-> "POST", ok |-> 200, path |-> FALSE, body |-> TRUE]
Refresh == [method |-> "POST", ok |-> 200, path |-> FALSE, body |-> TRUE]
Logout == [method |-> "POST", ok |-> 204, path |-> FALSE, body |-> FALSE]

Routes ==
  [get_all_users |-> GetAllUsers, get_user |-> GetUser,
   update_user |-> UpdateUser, create_user |-> CreateUser,
   change_password |-> ChangePassword, delete_user |-> DeleteUser,
   login |-> Login, refresh |-> Refresh, logout |-> Logout]

-----------------------------------------------------------------------------
(* On the way in. *)

PublicOps == {"login", "refresh"}  \* of PUBLIC_PREFIXES, what clients call

(* A protected path needs a bearer token that decodes. *)
Authentic(op, decodes) == op \in PublicOps \/ decodes

SchemaRefuses(op, input) == Routes[op].body /\ input = "malformed"

(* The code of a call that reaches no use case; 0 for the others.  A path  *)
(* without a UUID is left to the use case.                                 *)
Rejection(op, input, decodes) ==
  IF ~Authentic(op, decodes) THEN 401
  ELSE IF SchemaRefuses(op, input) THEN 422
  ELSE 0

-----------------------------------------------------------------------------
(* On the way out. *)

(* raise_for_presenter_400_state *)
Refusal ==
  [bad_request |-> 400, unauthorized |-> 401, forbidden |-> 403,
   conflict |-> 409, not_found |-> 404, domain_error |-> 422]

(* What catch_unhandled_exceptions_middleware makes of anything raised. *)
Unhandled == 500

Code(op, outcome) ==
  IF outcome = "ok" THEN Routes[op].ok
  ELSE IF outcome = "raised" THEN Unhandled
  ELSE Refusal[outcome]

CacheByMethodOnly(op, code, header) ==  \* mutant: credentials are ignored
  IF code \notin 200..299 THEN "none"
  ELSE IF Routes[op].method = "GET" THEN "private, max-age=60" ELSE "no-store"

(* cache_control_middleware; no handler of this program sets the header or *)
(* a cookie itself.  header: the call carries Authorization.               *)
CacheControl(op, code, header) ==
  IF code \notin 200..299 THEN "none"
  ELSE IF ~header /\ Routes[op].method = "GET" THEN "private, max-age=60"
  ELSE "no-store"
=============================================================================
