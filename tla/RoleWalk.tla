------------------------------ MODULE RoleWalk ------------------------------
(***************************************************************************)
(* The two walks of role/mod.rs up the hierarchy that RoleHierarchy keeps: *)
(* the loop with which set_parent looks for a cycle, and walk_ancestors as *)
(* find_effective_names_by_user_id calls it for each directly assigned     *)
(* role.  A step is one turn of the loop, or one call of walk_ancestors.   *)
(* The walks run between two awaits; what they walk on comes from one      *)
(* SELECT (set_parent) or from two (the effective names), in which case    *)
(* the row of an assigned role may be older than the map of all.           *)
(***************************************************************************)
EXTENDS RoleGraph, Naturals, Sequences

VARIABLES
    walk,      \* "idle", what runs ("check" or "names"), or how it ended
    graph,     \* parent_of, or by_id: the parents that the walk goes by
    older,     \* the parents that the SELECT of the assigned roles returned
    from,      \* where the walk starts: the new parent, or the assigned roles
    child,     \* set_parent: the role to re-parent
    cursor,    \* the role that is looked at next; NoRole past a root
    up,        \* walk_ancestors: parent_id of the row of cursor
    todo,      \* assigned roles that are yet to be walked from
    visited,
    sink       \* names collected, in order (roles.name is unique)

vars == <<walk, graph, older, from, child, cursor, up, todo, visited, sink>>

Rootless == [x \in Roles |-> NoRole]

Init ==
    /\ walk = "idle" /\ graph = Rootless /\ older = Rootless /\ from = {}
    /\ child = NoRole /\ cursor = NoRole /\ up = NoRole
    /\ todo = {} /\ visited = {} /\ sink = <<>>

-----------------------------------------------------------------------------
(* set_parent: while let Some(c) = cursor.                                 *)

\* On any graph, also on one that has a cycle already.
BeginCheck(f, c, p) ==
    /\ c # p
    /\ walk' = "check"
    /\ graph' = f /\ from' = {p} /\ child' = c /\ cursor' = p
    /\ UNCHANGED <<older, up, todo, visited, sink>>

\* The child, or a role for the second time, is met on the way up.
Cycle ==
    /\ walk = "check" /\ cursor # NoRole
    /\ cursor = child \/ cursor \in visited
    /\ walk' = "refused"
    /\ UNCHANGED <<graph, older, from, child, cursor, up, todo, visited, sink>>

Climb ==
    /\ walk = "check" /\ cursor # NoRole
    /\ ~(cursor = child \/ cursor \in visited)
    /\ visited' = visited \cup {cursor}
    /\ cursor' = graph[cursor]
    /\ UNCHANGED <<walk, graph, older, from, child, up, todo, sink>>

\* The UPDATE follows.
Root ==
    /\ walk = "check" /\ cursor = NoRole
    /\ walk' = "allowed"
    /\ UNCHANGED <<graph, older, from, child, cursor, up, todo, visited, sink>>

-----------------------------------------------------------------------------
(* find_effective_names_by_user_id.                                        *)

\* The two SELECTs; any number of set_parents may commit in between.
BeginNames(direct, old, f) ==
    /\ Acyclic(old) /\ Acyclic(f)
    /\ walk' = "names"
    /\ graph' = f /\ older' = old /\ from' = direct /\ todo' = direct
    /\ UNCHANGED <<child, cursor, up, visited, sink>>

\* for r in direct, in whichever order the SELECT returned them.
NextDirect ==
    /\ walk = "names" /\ cursor = NoRole
    /\ \E d \in todo :
          /\ todo' = todo \ {d}
          /\ cursor' = d /\ up' = older[d]
    /\ UNCHANGED <<walk, graph, older, from, child, visited, sink>>

\* Mutant: a role without a parent is left out.
Visit_SkipsRoots ==
    /\ walk = "names" /\ cursor # NoRole
    /\ IF cursor \in visited \/ up = NoRole
       THEN cursor' = NoRole /\ up' = NoRole /\ UNCHANGED <<visited, sink>>
       ELSE /\ visited' = visited \cup {cursor} /\ sink' = Append(sink, cursor)
            /\ cursor' = up
            /\ up' = graph[up]
    /\ UNCHANGED <<walk, graph, older, from, child, todo>>

\* walk_ancestors.
Visit ==
    /\ walk = "names" /\ cursor # NoRole
    /\ IF cursor \in visited
       THEN cursor' = NoRole /\ up' = NoRole /\ UNCHANGED <<visited, sink>>
       ELSE /\ visited' = visited \cup {cursor} /\ sink' = Append(sink, cursor)
            /\ cursor' = up
            /\ up' = IF up = NoRole THEN NoRole ELSE graph[up]
    /\ UNCHANGED <<walk, graph, older, from, child, todo>>

Listed ==
    /\ walk = "names" /\ cursor = NoRole /\ todo = {}
    /\ walk' = "listed"
    /\ UNCHANGED <<graph, older, from, child, cursor, up, todo, visited, sink>>

-----------------------------------------------------------------------------
\* The function returns.
Return ==
    /\ walk \in {"refused", "allowed", "listed"}
    /\ walk' = "idle" /\ graph' = Rootless /\ older' = Rootless /\ from' = {}
    /\ child' = NoRole /\ cursor' = NoRole /\ up' = NoRole
    /\ todo' = {} /\ visited' = {} /\ sink' = <<>>

Step == Cycle \/ Climb \/ Root \/ NextDirect \/ Visit \/ Listed \/ Return

Next ==
    \/ Step
    \/ /\ walk = "idle"
       /\ \/ \E f \in ParentMaps, c, p \in Roles : BeginCheck(f, c, p)
          \/ \E old, f \in ParentMaps, direct \in SUBSET Roles : BeginNames(direct, old, f)

Spec == Init /\ [][Next]_vars

\* A walk does not wait for anything.
FairSpec == Spec /\ WF_vars(Step)

-----------------------------------------------------------------------------
(* Properties.                                                             *)

TypeOK ==
    /\ walk \in {"idle", "check", "allowed", "refused", "names", "listed"}
    /\ graph \in ParentMaps /\ older \in ParentMaps
    /\ {from, todo, visited} \subseteq SUBSET Roles
    /\ {child, cursor, up} \subseteq Roles \cup {NoRole}
    /\ sink \in Seq(Roles)

Names == {sink[i] : i \in 1..Len(sink)}

\* The loop of set_parent decides exactly what RoleHierarchy takes it to
\* decide, on every graph, also on one that already has a cycle.
CheckDecides ==
    \A p \in from :
        /\ walk = "allowed" => MayAdopt(graph, child, p)
        /\ walk = "refused" => ~MayAdopt(graph, child, p)

\* The effective names of a user (role/mod.rs:73-76) are the assigned roles
\* and all above them, each once.
EffectiveComplete ==
    walk = "listed" =>
        /\ \A i, j \in 1..Len(sink) : sink[i] = sink[j] => i = j
        /\ older = graph => Names = UNION {Ancestors(graph, d) : d \in from}

\* When a set_parent commits between the two SELECTs no assigned role is
\* lost, and no role is gained that is not above an assigned one by its
\* former or its present parent.
TornReadBounded ==
    walk = "listed" =>
        /\ from \subseteq Names
        /\ Names \subseteq UNION {Ancestors(graph, d) :
                                      d \in from \cup ({older[x] : x \in from} \ {NoRole})}

\* Every walk ends, also on a graph that has a cycle.
WalkEnds == []<>(walk = "idle")
=============================================================================
