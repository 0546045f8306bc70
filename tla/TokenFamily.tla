---------------------------- MODULE TokenFamily -----------------------------
(***************************************************************************)
(* What the refresh_tokens table promises, without requests, transactions  *)
(* or locks: a token is minted once, rotated at most once, into a single   *)
(* child and by the same step that revokes it, and never comes back.       *)
(***************************************************************************)
CONSTANTS Tokens, NoToken

VARIABLES
    tok,      \* state of each token
    parent    \* the token each token was rotated from, if any

vars == <<tok, parent>>

\* Initially no token exists.
Init ==
    /\ tok = [t \in Tokens |-> "unborn"]
    /\ parent = [t \in Tokens |-> NoToken]

\* A first token of a family (authorization_code, device_code grants).
Mint(c) ==
    /\ tok[c] = "unborn"
    /\ tok' = [tok EXCEPT ![c] = "active"]
    /\ UNCHANGED parent

\* The refresh_token grant: t is spent and c takes its place, in one step.
Rotate(t, c) ==
    /\ tok[t] = "active" /\ tok[c] = "unborn"
    /\ tok' = [tok EXCEPT ![t] = "revoked", ![c] = "active"]
    /\ parent' = [parent EXCEPT ![c] = t]

\* Any set of active tokens is revoked (revocation endpoint, logout, replay).
RevokeSet(S) ==
    /\ \A t \in S : tok[t] = "active"
    /\ tok' = [t \in Tokens |-> IF t \in S THEN "revoked" ELSE tok[t]]
    /\ UNCHANGED parent

\* Any set of rows is removed (session cascade, hourly sweep).
Remove(S) ==
    /\ \A t \in S : tok[t] \in {"active", "revoked"}
    /\ tok' = [t \in Tokens |-> IF t \in S THEN "gone" ELSE tok[t]]
    /\ UNCHANGED parent

Next ==
    \/ \E c \in Tokens : Mint(c)
    \/ \E t, c \in Tokens : Rotate(t, c)
    \/ \E S \in SUBSET Tokens : RevokeSet(S) \/ Remove(S)

Spec == Init /\ [][Next]_vars

\* No token family forks: a token is rotated into at most one other, and one
\* that has been rotated is not usable any more.
Linear ==
    /\ \A c, d \in Tokens : parent[c] = parent[d] /\ parent[c] # NoToken => c = d
    /\ \A c \in Tokens : parent[c] # NoToken => tok[parent[c]] \in {"revoked", "gone"}
=============================================================================
