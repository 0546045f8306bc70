--------------------------- MODULE RoleHierarchy ----------------------------
(***************************************************************************)
(* RoleRepository::set_parent (role/mod.rs): administrators re-parent      *)
(* roles concurrently.  SELECT ... FOR UPDATE locks the rows of roles one  *)
(* by one, each read when its lock is granted; the order of the scan is    *)
(* Postgres's, so any order is possible.                                   *)
(***************************************************************************)
EXTENDS RoleGraph

CONSTANTS Requests

VARIABLES
    parent,   \* roles.parent_id, committed
    pc,
    child,    \* the role to re-parent
    target,   \* its new parent, NoRole to clear it
    held,     \* rows locked by the transaction
    seen      \* parent_id of each row as the FOR UPDATE scan returned it

vars == <<parent, pc, child, target, held, seen>>

Unseen == [x \in Roles |-> NoRole]

Init ==
    /\ parent = [x \in Roles |-> NoRole]
    /\ pc = [r \in Requests |-> "idle"]
    /\ child = [r \in Requests |-> NoRole]
    /\ target = [r \in Requests |-> NoRole]
    /\ held = [r \in Requests |-> {}]
    /\ seen = [r \in Requests |-> Unseen]

Free(r, x) == \A q \in Requests \ {r} : x \notin held[q]

Goto(r, label) == pc' = [pc EXCEPT ![r] = label]

\* The transaction has ended: its locks and the request's locals are gone.
End(r) ==
    /\ Goto(r, "idle")
    /\ child' = [child EXCEPT ![r] = NoRole]
    /\ target' = [target EXCEPT ![r] = NoRole]
    /\ held' = [held EXCEPT ![r] = {}]
    /\ seen' = [seen EXCEPT ![r] = Unseen]

\* set_parent(child, Some(p)); a role as its own parent is refused at once.
BeginSet(r, c, p) ==
    /\ pc[r] = "idle" /\ c # p
    /\ child' = [child EXCEPT ![r] = c]
    /\ target' = [target EXCEPT ![r] = p]
    /\ Goto(r, "scan")
    /\ UNCHANGED <<parent, held, seen>>

\* set_parent(child, None) goes straight to the UPDATE.
BeginClear(r, c) ==
    /\ pc[r] = "idle"
    /\ child' = [child EXCEPT ![r] = c]
    /\ target' = [target EXCEPT ![r] = NoRole]
    /\ Goto(r, "update")
    /\ UNCHANGED <<parent, held, seen>>

\* The scan waits for the next row's lock and reads the row.
LockRow(r) ==
    /\ pc[r] = "scan"
    /\ \E x \in Roles \ held[r] :
        /\ Free(r, x)
        /\ held' = [held EXCEPT ![r] = @ \cup {x}]
        /\ seen' = [seen EXCEPT ![r][x] = parent[x]]
    /\ UNCHANGED <<parent, pc, child, target>>

\* Mutant: the check has a transaction of its own, the UPDATE another.
Walk_OwnTransaction(r) ==
    /\ pc[r] = "scan" /\ held[r] = Roles
    /\ IF MayAdopt(seen[r], child[r], target[r])
       THEN /\ Goto(r, "update") /\ held' = [held EXCEPT ![r] = {}]
            /\ UNCHANGED <<child, target, seen>>
       ELSE End(r)
    /\ UNCHANGED parent

\* The walk up from the new parent; on a cycle the transaction is dropped.
Walk(r) ==
    /\ pc[r] = "scan" /\ held[r] = Roles
    /\ IF MayAdopt(seen[r], child[r], target[r])
       THEN Goto(r, "update") /\ UNCHANGED <<child, target, held, seen>>
       ELSE End(r)
    /\ UNCHANGED parent

\* UPDATE, waiting for the row's lock if it is not held yet, and COMMIT.
Update(r) ==
    /\ pc[r] = "update" /\ Free(r, child[r])
    /\ parent' = [parent EXCEPT ![child[r]] = target[r]]
    /\ End(r)

\* Rollback: request dropped, connection lost, or deadlock victim.
Abort(r) ==
    /\ pc[r] # "idle"
    /\ End(r)
    /\ UNCHANGED parent

\* The transactions r is waiting for.
WaitsFor(r) ==
    {q \in Requests \ {r} :
        \/ pc[r] = "scan" /\ held[r] # Roles /\ held[q] # {}
        \/ pc[r] = "update" /\ child[r] \in held[q]}

\* Postgres aborts a member of a cycle of waiting transactions.
DeadlockVictim(r) ==
    /\ \E S \in SUBSET Requests : r \in S /\ \A q \in S : WaitsFor(q) \cap S # {}
    /\ Abort(r)

Next ==
    \E r \in Requests :
        \/ \E c, p \in Roles : BeginSet(r, c, p)
        \/ \E c \in Roles : BeginClear(r, c)
        \/ LockRow(r) \/ Walk(r) \/ Update(r) \/ Abort(r)

Spec == Init /\ [][Next]_vars

\* Requests run on, row locks are granted in the order asked for, and
\* Postgres breaks deadlocks.
FairSpec ==
    /\ Spec
    /\ \A r \in Requests : WF_vars(Walk(r)) /\ SF_vars(LockRow(r) \/ Update(r))
    /\ WF_vars(\E r \in Requests : DeadlockVictim(r))

-----------------------------------------------------------------------------

\* The variables stay in their types.
TypeOK ==
    /\ parent \in ParentMaps
    /\ pc \in [Requests -> {"idle", "scan", "update"}]
    /\ child \in [Requests -> Roles \cup {NoRole}]
    /\ target \in [Requests -> Roles \cup {NoRole}]
    /\ held \in [Requests -> SUBSET Roles]
    /\ seen \in [Requests -> ParentMaps]

\* Two concurrent callers can't both observe a cycle-free graph and commit
\* conflicting edges (role/mod.rs:153-156): the hierarchy has no cycle.
HierarchyAcyclic == Acyclic(parent)

\* Every set_parent ends, also when two scans lock rows in opposite order.
SetParentEnds == \A r \in Requests : []<>(pc[r] = "idle")
=============================================================================
