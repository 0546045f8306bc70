----------------------------- MODULE MCSessions -----------------------------
(* Small instances of Sessions: one user with two sessions. *)
EXTENDS Sessions, TLC

CONSTANTS s1, s2, u1

MCOwner1 == s1 :> u1
MCOwner == (s1 :> u1) @@ (s2 :> u1)

Symmetry == Permutations(Requests) \cup Permutations(Sessions)
=============================================================================
