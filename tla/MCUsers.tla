------------------------------ MODULE MCUsers -------------------------------
(* Users.tla for TLC: the symmetry of the ids that are only compared.      *)
EXTENDS Users, TLC

Symmetry ==
  Permutations(UserIds) \cup Permutations(Names) \cup Permutations(Passwords)
    \cup Permutations(Slots)
=============================================================================
