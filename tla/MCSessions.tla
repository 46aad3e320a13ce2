----------------------------- MODULE MCSessions -----------------------------
(* Sessions.tla for TLC: the symmetry of the ids that are only compared.   *)
EXTENDS Sessions, TLC

Symmetry ==
  Permutations(Users) \cup Permutations(SessionIds) \cup Permutations(Tokens)
    \cup Permutations(Slots)
=============================================================================
