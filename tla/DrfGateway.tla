------------------------------ MODULE DrfGateway ------------------------------
(***************************************************************************)
(* The Django REST framework interface, with the operators and the inputs  *)
(* of FastApiGateway.tla.  It differs in what is checked before a use case *)
(* runs (the URL pattern takes UUIDs only) and in some codes.              *)
(***************************************************************************)
EXTENDS Naturals

-----------------------------------------------------------------------------
(* The views' methods. *)

GetAllUsers == [method |-> "GET", ok |-> 200, path |-> FALSE, body |-> FALSE]
GetUser == [method |-> "GET", ok |-> 200, path |-> TRUE, body |-> FALSE]
UpdateUser == [method |-> "PATCH", ok |-> 200, path |-> TRUE, body |-> TRUE]
CreateUser == [method |-> "POST", ok |-> 201, path |-> FALSE, body |-> TRUE]
ChangePassword ==
  [method |-> "PATCH", ok |-> 200, path |-> TRUE, body |-> TRUE]
DeleteUser == [method |-> "DELETE", ok |-> 200, path |-> TRUE, body |-> FALSE]
Login == [method |-> "POST", ok |-> 200, path |-> FALSE, body |-> TRUE]
Refresh == [method |-> "POST", ok |-> 200, path |-> FALSE, body |-> TRUE]
Logout == [method |-> "POST", ok |-> 204, path |-> FALSE, body |-> FALSE]

Routes ==
  [get_all_users |-> GetAllUsers, get_user |-> GetUser,
   update_user |-> UpdateUser, create_user |-> CreateUser,
   change_password |-> ChangePassword, delete_user |-> DeleteUser,
   login |-> Login, refresh |-> Refresh, logout |-> Logout]

-----------------------------------------------------------------------------
(* On the way in. *)

PublicOps == {"login", "refresh"}  \* of PUBLIC_PREFIXES, what clients call

(* AuthMiddleware: a protected path needs a bearer token that decodes. *)
Authentic(op, decodes) == op \in PublicOps \/ decodes

(* No URL pattern matches; the middleware has already run. *)
NoSuchUrl(op, input) == Routes[op].path /\ input = "bad_id"

SerializerRefuses(op, input) == Routes[op].body /\ input = "malformed"

(* The code of a call that reaches no use case; 0 for the others. *)
Rejection(op, input, decodes) ==
  IF ~Authentic(op, decodes) THEN 401
  ELSE IF NoSuchUrl(op, input) THEN 404
  ELSE IF SerializerRefuses(op, input) THEN 400
  ELSE 0

-----------------------------------------------------------------------------
(* On the way out. *)

RefusalDomainRaises ==  \* mutant: raise_for_presenter_state lacks a state
  [bad_request |-> 400, unauthorized |-> 403, forbidden |-> 403,
   conflict |-> 500, not_found |-> 404, domain_error |-> 500]

(* raise_for_presenter_state: without an authentication scheme an          *)
(* AuthenticationFailed becomes 403, and ConflictError is no APIException, *)
(* so nothing turns it into an answer.                                     *)
Refusal ==
  [bad_request |-> 400, unauthorized |-> 403, forbidden |-> 403,
   conflict |-> 500, not_found |-> 404, domain_error |-> 400]

(* What ExceptionHandlerMiddleware and Django make of anything raised. *)
Unhandled == 500

(* RefreshView answers an unknown token itself. *)
Code(op, outcome) ==
  IF outcome = "ok" THEN Routes[op].ok
  ELSE IF outcome = "raised" THEN Unhandled
  ELSE IF outcome = "unauthorized" /\ op = "refresh" THEN 401
  ELSE Refusal[outcome]

(* CacheControlMiddleware; no view of this program sets the header or a    *)
(* cookie itself.  header: the call carries Authorization.                 *)
CacheControl(op, code, header) ==
  IF code \notin 200..299 THEN "none"
  ELSE IF ~header /\ Routes[op].method = "GET" THEN "private, max-age=60"
  ELSE "no-store"
=============================================================================
