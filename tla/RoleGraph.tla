----------------------------- MODULE RoleGraph ------------------------------
(* The role hierarchy as a graph: each role has at most one parent. *)
CONSTANTS Roles, NoRole

ASSUME NoRoleAssumption == NoRole \notin Roles

ParentMaps == [Roles -> Roles \cup {NoRole}]

\* S contains, with every role, its parent.
Closed(f, S) == \A x \in S : f[x] # NoRole => f[x] \in S

\* p and everything above it: the least closed set with p in it.
Ancestors(f, p) ==
    {x \in Roles : \A S \in SUBSET Roles : p \in S /\ Closed(f, S) => x \in S}

\* No role is above itself: every non-empty set of roles has a member whose
\* parent, if any, is outside the set.
Acyclic(f) == \A S \in SUBSET Roles : S # {} => \E x \in S : f[x] \notin S

\* May child be given the parent p?  (Every walk up from p ends, and none
\* meets child.)
MayAdopt(f, child, p) ==
    /\ child \notin Ancestors(f, p)
    /\ \E x \in Ancestors(f, p) : f[x] = NoRole
=============================================================================
