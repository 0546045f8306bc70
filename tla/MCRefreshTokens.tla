-------------------------- MODULE MCRefreshTokens ---------------------------
(* Small instances of RefreshTokens: three tokens of one session. *)
EXTENDS RefreshTokens, TLC

CONSTANTS s1

MCSessionOf == [t \in Tokens |-> s1]

Symmetry == Permutations(Requests) \cup Permutations(Tokens)
=============================================================================
