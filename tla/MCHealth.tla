------------------------------ MODULE MCHealth ------------------------------
(* Two watchers that come and go, a check request, an old and a new poll task. *)
EXTENDS Health, TLC

CONSTANTS w1, w2, c1, p1, p2

Symmetry == Permutations({w1, w2}) \cup Permutations({p1, p2})
=============================================================================
