--------------------------------- MODULE MCApi ---------------------------------
(* Symmetry, and what clients call, for the runs of Api.tla. *)
EXTENDS Api, TLC

(* Changes of roles and deactivations; sessions that end; everything else. *)
Traffic ==
  {{"update_user", "delete_user", "login"},
   {"get_user", "delete_user", "login", "logout", "refresh"},
   {"get_all_users", "create_user", "change_password", "delete_user", "login"}}

Symmetry ==
  Permutations(UserIds) \cup Permutations(SessionIds) \cup Permutations(Slots)
=============================================================================
