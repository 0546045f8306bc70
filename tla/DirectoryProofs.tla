--------------------------- MODULE DirectoryProofs ---------------------------
(***************************************************************************)
(* What holds of roles, cached clients, accounts and walks for any number  *)
(* of roles, requests, versions and identities.                            *)
(*                                                                         *)
(* The role hierarchy stays acyclic: the graph argument is in              *)
(* AdoptKeepsAcyclic, and ViewsOK says that a transaction updates on what  *)
(* is still so.  A stale client entry is explained by following who has    *)
(* the DEL to send (CacheInv).  Accounts are unique because uncommitted    *)
(* INSERTs exclude each other, and complete by the order of the statements *)
(* (AccountsInv).  The walks up the hierarchy do what the graph says by    *)
(* their loop invariants (WalkInv).                                        *)
(***************************************************************************)
EXTENDS Directory, Sequences, TLAPS

-----------------------------------------------------------------------------
(* Roles.                                                                   *)

\* Giving c a parent p from which no walk up meets c creates no cycle: a set
\* without exit would, cut down to the ancestors of p, have had none before.
LEMMA AdoptKeepsAcyclic ==
    ASSUME NEW f \in ParentMaps, Acyclic(f), NEW c \in Roles, NEW p \in Roles,
           c \notin Ancestors(f, p)
    PROVE  Acyclic([f EXCEPT ![c] = p])
<1>. DEFINE g == [f EXCEPT ![c] = p]
<1>. SUFFICES ASSUME NEW S \in SUBSET Roles, S # {}, \A x \in S : g[x] \in S
              PROVE  FALSE
    BY Zenon DEF Acyclic
<1>1. PICK T \in SUBSET Roles : p \in T /\ Closed(f, T) /\ c \notin T
    BY Zenon DEF Ancestors
<1>2. \A x \in S : x # c => f[x] = g[x]
    BY Zenon DEF ParentMaps
<1>3. CASE c \notin S
    BY <1>2, <1>3, Zenon DEF Acyclic
<1>4. CASE c \in S
    <2>1. p \in S \cap T
        BY <1>1, <1>4, Zenon DEF ParentMaps
    <2>2. \A x \in S \cap T : f[x] \in S \cap T
        BY <1>1, <1>2, NoRoleAssumption, Zenon DEF Closed
    <2>. QED BY Zenon, <2>1, <2>2 DEF Acyclic
<1>. QED BY <1>3, <1>4, Zenon

\* Taking a parent away creates no cycle.
LEMMA ClearKeepsAcyclic ==
    ASSUME NEW f \in ParentMaps, Acyclic(f), NEW c \in Roles
    PROVE  Acyclic([f EXCEPT ![c] = NoRole])
<1>. DEFINE g == [f EXCEPT ![c] = NoRole]
<1>. SUFFICES ASSUME NEW S \in SUBSET Roles, S # {}, \A x \in S : g[x] \in S
              PROVE  FALSE
    BY Zenon DEF Acyclic
<1>1. c \notin S
    BY NoRoleAssumption, Zenon DEF ParentMaps
<1>2. \A x \in S : f[x] \in S
    BY <1>1, Zenon DEF ParentMaps
<1>. QED BY <1>2, Zenon DEF Acyclic

\* A row is locked by one transaction at most.
LocksExclusive ==
    \A r, q \in Requests : r # q => held[r] \cap held[q] = {}

\* What a transaction saw of the rows it holds is still so, and it has checked all of them
\* before it updates.
ViewsOK ==
    \A r \in Requests :
        /\ pc[r] = "idle" => held[r] = {}
        /\ pc[r] # "idle" => child[r] \in Roles
        /\ pc[r] = "scan" => target[r] \in Roles
        /\ \A x \in held[r] : seen[r][x] = parent[x]
        /\ pc[r] = "update" /\ target[r] # NoRole =>
              held[r] = Roles /\ MayAdopt(seen[r], child[r], target[r])

\* Inductive.
IInv == TypeOK /\ LocksExclusive /\ ViewsOK /\ HierarchyAcyclic

\* With no parent at all there is no cycle.
LEMMA InitIInv == Init => IInv
BY NoRoleAssumption
DEF Init, Unseen, IInv, TypeOK, LocksExclusive, ViewsOK, HierarchyAcyclic, Acyclic, ParentMaps

\* The UPDATE acts on the graph that was checked: its transaction holds every
\* row, so what it saw is what is there.
LEMMA UpdateStep ==
    ASSUME IInv, NEW r \in Requests, Update(r)
    PROVE  IInv'
<1>. USE DEF IInv, TypeOK, Update, Goto, End, Unseen
<1>1. child[r] \in Roles /\ target[r] \in Roles \cup {NoRole}
    BY Zenon DEF ViewsOK
<1>2. TypeOK'
    BY <1>1, Zenon DEF ParentMaps
<1>3. LocksExclusive'
    BY Zenon DEF LocksExclusive
<1>4. ViewsOK'
    BY <1>1 DEF ViewsOK, Free, ParentMaps
<1>5. HierarchyAcyclic'
    <2>1. CASE target[r] = NoRole
        BY Zenon, <1>1, <2>1, ClearKeepsAcyclic DEF HierarchyAcyclic
    <2>2. CASE target[r] # NoRole
        <3>1. seen[r] = parent
            BY <2>2 DEF ViewsOK, ParentMaps
        <3>2. child[r] \notin Ancestors(parent, target[r])
            BY <2>2, <3>1, Zenon DEF ViewsOK, MayAdopt
        <3>. QED BY Zenon, <1>1, <2>2, <3>2, AdoptKeepsAcyclic DEF HierarchyAcyclic
    <2>. QED BY <2>1, <2>2, Zenon
<1>. QED BY <1>2, <1>3, <1>4, <1>5, Zenon

\* Every step preserves the inductive invariant.
LEMMA NextIInv == IInv /\ [Next]_vars => IInv'
<1>. SUFFICES ASSUME IInv, [Next]_vars PROVE IInv'
    BY Zenon
<1>. USE DEF IInv, TypeOK, Goto, End, Unseen
<1>1. ASSUME NEW r \in Requests, NEW c \in Roles, NEW p \in Roles, BeginSet(r, c, p)
      PROVE  IInv'
    BY <1>1, Zenon DEF BeginSet, LocksExclusive, ViewsOK, HierarchyAcyclic
<1>2. ASSUME NEW r \in Requests, NEW c \in Roles, BeginClear(r, c) PROVE IInv'
    BY <1>2, Zenon DEF BeginClear, LocksExclusive, ViewsOK, HierarchyAcyclic
<1>3. ASSUME NEW r \in Requests, LockRow(r) PROVE IInv'
    <2>1. PICK x \in Roles \ held[r] :
              /\ Free(r, x)
              /\ held' = [held EXCEPT ![r] = @ \cup {x}]
              /\ seen' = [seen EXCEPT ![r][x] = parent[x]]
        BY Zenon, <1>3 DEF LockRow
    <2>2. TypeOK'
        BY <1>3, <2>1, Zenon DEF LockRow, ParentMaps
    <2>3. LocksExclusive'
        BY <1>3, <2>1 DEF LockRow, LocksExclusive, Free
    <2>4. ViewsOK'
        BY <1>3, <2>1 DEF LockRow, ViewsOK, ParentMaps
    <2>. QED BY <1>3, <2>2, <2>3, <2>4, Zenon DEF LockRow, HierarchyAcyclic
<1>4. ASSUME NEW r \in Requests, Walk(r) PROVE IInv'
    <2>1. TypeOK'
        <3>1. CASE MayAdopt(seen[r], child[r], target[r])
            BY <1>4, <3>1, Zenon DEF Walk
        <3>2. CASE ~MayAdopt(seen[r], child[r], target[r])
            <4>1. End(r) /\ parent' = parent
                BY <1>4, <3>2, Zenon DEF Walk
            <4>. QED BY <4>1, Zenon DEF ParentMaps
        <3>. QED BY <3>1, <3>2, Zenon
    <2>2. LocksExclusive'
        BY <1>4 DEF Walk, LocksExclusive
    <2>3. ViewsOK'
        BY <1>4 DEF Walk, ViewsOK, ParentMaps
    <2>. QED BY <1>4, <2>1, <2>2, <2>3, Zenon DEF Walk, HierarchyAcyclic
<1>5. ASSUME NEW r \in Requests, Abort(r) PROVE IInv'
    BY <1>5 DEF Abort, LocksExclusive, ViewsOK, ParentMaps, HierarchyAcyclic
<1>6. CASE UNCHANGED vars
    BY <1>6, Zenon DEF vars, LocksExclusive, ViewsOK, HierarchyAcyclic
<1>. QED BY <1>1, <1>2, <1>3, <1>4, <1>5, <1>6, UpdateStep, Zenon DEF Next

\* Concurrent set_parent calls never commit a cycle, whatever the number of
\* roles and callers and in whatever order Postgres grants the row locks.
THEOREM RolesAcyclic == Spec => []HierarchyAcyclic
<1>1. IInv => HierarchyAcyclic
    BY Zenon DEF IInv
<1>. QED BY <1>1, InitIInv, NextIInv, PTL DEF Spec

\* Type correctness of the hierarchy and its transactions.
THEOREM TypeCorrect == Spec => []TypeOK
<1>1. IInv => TypeOK
    BY Zenon DEF IInv
<1>. QED BY <1>1, InitIInv, NextIInv, PTL DEF Spec

\* One set_parent, as if it ran alone: it checks the hierarchy that it changes.
Reparented ==
    \E c \in Roles, p \in Roles \cup {NoRole} :
        /\ p # NoRole => MayAdopt(parent, c, p)
        /\ parent' = [parent EXCEPT ![c] = p]

\* Concurrent set_parent calls commit as if one ran after the other
\* (role/mod.rs:153-156): whatever committed between a call's scan and its
\* UPDATE, the check holds of the hierarchy that the UPDATE finds.
THEOREM SetParentsSerial == Spec => [][Reparented]_parent
<1>1. IInv /\ [Next]_vars => [Reparented]_parent
    <2>. SUFFICES ASSUME IInv, Next, parent' # parent PROVE Reparented
        BY Zenon DEF vars
    <2>1. PICK r \in Requests : Update(r)
        BY Zenon DEF Next, BeginSet, BeginClear, LockRow, Walk, Abort
    <2>2. child[r] \in Roles /\ target[r] \in Roles \cup {NoRole}
        BY <2>1, Zenon DEF IInv, TypeOK, ViewsOK, Update
    <2>3. ASSUME target[r] # NoRole PROVE MayAdopt(parent, child[r], target[r])
        <3>1. seen[r] = parent
            BY <2>1, <2>3 DEF IInv, TypeOK, ViewsOK, ParentMaps, Update
        <3>. QED BY <2>1, <2>3, <3>1, Zenon DEF IInv, ViewsOK, Update
    <2>. QED BY <2>1, <2>2, <2>3, Zenon DEF Update, Reparented
<1>. QED BY <1>1, InitIInv, NextIInv, PTL DEF Spec

-----------------------------------------------------------------------------
(* The client cache.                                                        *)

\* Whoever changed the row or its URI still has its DEL to send, or the row it
\* changed is gone.
Invalidates(r) == at[r] = "del" \/ (at[r] = "owner" /\ Clients!Same(r))

\* An entry is stale only with a reason, or with someone about to delete it.
Explained == Clients!Stale => excused \/ \E r \in Requests : Invalidates(r)

\* Who reads the redirect URIs, or fills the cache, has read a row.
CopiesRead == \A r \in Requests : at[r] \in {"uris", "fill"} => copy[r] # None

\* What a lookup has read is what the database holds, until a write overtakes it.
CopiesCurrent ==
    \A r \in Requests : ~overtaken[r] =>
        /\ at[r] \in {"uris", "fill"} => copy[r] = row
        /\ at[r] = "fill" => uriCopy[r] = uri

\* Inductive.
CacheInv == Clients!TypeOK /\ CopiesRead /\ CopiesCurrent /\ Explained

\* Nothing is cached before the first lookup.
LEMMA CacheInit == Clients!Init => CacheInv
  <1> SUFFICES ASSUME Clients!Init PROVE CacheInv
      BY Zenon
  <1>1. uri \in BOOLEAN /\ (uri => row # None) /\ excused \in BOOLEAN
      BY Zenon DEF Clients!Init
  <1>2. /\ creates \in [Requests -> BOOLEAN] /\ uriCopy \in [Requests -> BOOLEAN]
        /\ overtaken \in [Requests -> BOOLEAN]
      BY Zenon DEF Clients!Init
  <1>3. /\ row = None /\ cache = None /\ at \in [Requests -> Clients!Labels] /\ writes \in 0..MaxWrites
        /\ copy \in [Requests -> Clients!Rows \cup {None}]
      BY DirectoryAssumption DEF Clients!Init, Clients!Labels
  <1>4. \A r \in Requests : at[r] = "idle"
      BY Zenon DEF Clients!Init
  <1>5. ~Clients!Stale
      BY <1>3, Zenon DEF Clients!Stale
  <1> QED
      BY <1>1, <1>2, <1>3, <1>4, <1>5, Zenon DEF CacheInv, Clients!TypeOK, CopiesRead,
         CopiesCurrent, Explained

\* Every step of a lookup or of a write, and the TTL, keeps the types; what is stored in the
\* cache is a row because a fill comes after a read (CopiesRead).
LEMMA CacheTypes == CacheInv /\ Clients!Next => Clients!TypeOK'
  <1> SUFFICES ASSUME CacheInv, Clients!Next PROVE Clients!TypeOK'
      BY Zenon
  <1>0. overtaken' \in [Requests -> BOOLEAN]
    <2>1. CASE Clients!Evict
        BY <2>1, Zenon DEF Clients!Evict, CacheInv, Clients!TypeOK
    <2>2. CASE Clients!Overtake
        BY <2>2 DEF Clients!Overtake, CacheInv, Clients!TypeOK
    <2> QED
        BY <2>1, <2>2, Zenon DEF Clients!Next, Clients!Begin, Clients!Step
  <1>1. ASSUME NEW r \in Requests, Clients!BeginLookup(r) PROVE Clients!TypeOK'
      BY <1>0, <1>1, Zenon DEF Clients!BeginLookup, Clients!db, Clients!Goto, CacheInv,
         Clients!TypeOK, Clients!Labels
  <1>2. ASSUME NEW r \in Requests, Clients!BeginCreate(r) PROVE Clients!TypeOK'
      BY <1>0, <1>2, Zenon DEF Clients!BeginCreate, Clients!db, CacheInv, Clients!TypeOK, Clients!Labels
  <1>3. ASSUME NEW r \in Requests, Clients!BeginUpdate(r) PROVE Clients!TypeOK'
      BY <1>0, <1>3, Zenon DEF Clients!BeginUpdate, Clients!db, Clients!BeginWith, CacheInv,
         Clients!TypeOK, Clients!Labels
  <1>4. ASSUME NEW r \in Requests, Clients!BeginDelete(r) PROVE Clients!TypeOK'
      BY <1>0, <1>4, Zenon DEF Clients!BeginDelete, Clients!db, Clients!BeginWith, CacheInv,
         Clients!TypeOK, Clients!Labels
  <1>5. ASSUME NEW r \in Requests, Clients!BeginAddUri(r) PROVE Clients!TypeOK'
      BY <1>0, <1>5, Zenon DEF Clients!BeginAddUri, Clients!db, Clients!BeginWith, CacheInv,
         Clients!TypeOK, Clients!Labels
  <1>6. ASSUME NEW r \in Requests, Clients!BeginRemoveUri(r) PROVE Clients!TypeOK'
      BY <1>0, <1>6, Zenon DEF Clients!BeginRemoveUri, Clients!db, Clients!BeginWith, CacheInv,
         Clients!TypeOK, Clients!Labels
  <1>7. ASSUME NEW r \in Requests, Clients!ReadCache(r) PROVE Clients!TypeOK'
      BY <1>0, <1>7, DirectoryAssumption, Zenon DEF Clients!ReadCache, Clients!db, Clients!local,
         Clients!Goto, Clients!End, CacheInv, Clients!TypeOK, Clients!Rows, Clients!Labels
  <1>8. ASSUME NEW r \in Requests, Clients!ReadRow(r) PROVE Clients!TypeOK'
    <2>1. UNCHANGED <<Clients!db, cache, writes, excused>>
        BY <1>8, Zenon DEF Clients!ReadRow
    <2>2. CASE Clients!Goto(r, "insert")
        BY <1>0, <2>1, <2>2, Zenon DEF Clients!Goto, Clients!db, CacheInv, Clients!TypeOK,
           Clients!Labels
    <2>3. CASE Clients!End(r)
        BY <1>0, <2>1, <2>3, Zenon DEF Clients!End, Clients!db, CacheInv, Clients!TypeOK, Clients!Labels
    <2>4. CASE /\ at' = [at EXCEPT ![r] = "uris"] /\ copy' = [copy EXCEPT ![r] = row]
               /\ UNCHANGED <<creates, uriCopy>>
        BY <1>0, <2>1, <2>4, Zenon DEF Clients!db, CacheInv, Clients!TypeOK, Clients!Labels
    <2> QED
        BY <1>8, <2>2, <2>3, <2>4, Zenon DEF Clients!ReadRow
  <1>9. ASSUME NEW r \in Requests, Clients!FetchRedirectUris(r) PROVE Clients!TypeOK'
      BY <1>0, <1>9, Zenon DEF Clients!FetchRedirectUris, Clients!db, CacheInv, Clients!TypeOK,
         Clients!Labels
  <1>10. ASSUME NEW r \in Requests, Clients!PopulateCache(r) PROVE Clients!TypeOK'
    <2>1. /\ UNCHANGED <<Clients!db, writes>> /\ Clients!End(r) /\ excused' \in BOOLEAN
          /\ cache' \in {cache, Clients!Snapshot(copy[r], uriCopy[r])}
        BY <1>0, <1>10, Zenon DEF Clients!PopulateCache, CacheInv, Clients!TypeOK
    <2>2. Clients!Snapshot(copy[r], uriCopy[r]) \in Clients!Snapshots
      <3>1. copy[r] \in Clients!Rows /\ uriCopy[r] \in BOOLEAN
          BY <1>0, <1>10, Zenon DEF Clients!PopulateCache, CacheInv, Clients!TypeOK, CopiesRead
      <3> QED
          BY <3>1, Zenon DEF Clients!Snapshot, Clients!Snapshots
    <2> QED
        BY <1>0, <2>1, <2>2, Zenon DEF Clients!End, Clients!db, CacheInv, Clients!TypeOK, Clients!Labels
  <1>11. ASSUME NEW r \in Requests, Clients!Persist(r) PROVE Clients!TypeOK'
    <2>1. UNCHANGED <<uri, cache, excused>> /\ writes < MaxWrites
        BY <1>11, Zenon DEF Clients!Persist
    <2>2. CASE row # None
      <3>1. Clients!End(r) /\ UNCHANGED <<row, writes>>
          BY <1>11, <2>2, Zenon DEF Clients!Persist
      <3> QED
          BY <1>0, <2>1, <3>1, Zenon DEF Clients!End, CacheInv, Clients!TypeOK, Clients!Labels
    <2>3. CASE row = None
      <3>1. /\ row' = [id |-> Clients!Version, version |-> Clients!Version]
            /\ writes' = Clients!Version /\ Clients!Goto(r, "del")
          BY <1>11, <2>3, Zenon DEF Clients!Persist
      <3>2. Clients!Version \in 1..MaxWrites
          BY <1>0, <2>1, DirectoryAssumption DEF Clients!Version, CacheInv, Clients!TypeOK
      <3>3. row' \in Clients!Rows
          BY <3>1, <3>2, Zenon DEF Clients!Rows
      <3> QED
          BY <1>0, <2>1, <2>3, <3>1, <3>2, <3>3 DEF Clients!Goto, CacheInv, Clients!TypeOK,
             Clients!Labels
    <2> QED
        BY <2>2, <2>3, Zenon
  <1>12. ASSUME NEW r \in Requests, Clients!Update(r) PROVE Clients!TypeOK'
    <2>1. UNCHANGED <<uri, cache, excused>> /\ writes < MaxWrites
        BY <1>12, Zenon DEF Clients!Update
    <2>2. CASE ~Clients!Same(r)
      <3>1. Clients!End(r) /\ UNCHANGED <<row, writes>>
          BY <1>12, <2>2, Zenon DEF Clients!Update
      <3> QED
          BY <1>0, <2>1, <3>1, Zenon DEF Clients!End, CacheInv, Clients!TypeOK, Clients!Labels
    <2>3. CASE Clients!Same(r)
      <3>1. /\ row' = [row EXCEPT !.version = Clients!Version]
            /\ writes' = Clients!Version /\ Clients!Goto(r, "del")
          BY <1>12, <2>3, Zenon DEF Clients!Update
      <3>2. Clients!Version \in 1..MaxWrites
          BY <1>0, <2>1, DirectoryAssumption DEF Clients!Version, CacheInv, Clients!TypeOK
      <3>3. row' \in Clients!Rows /\ row' # None
          BY <1>0, <2>3, <3>1, <3>2, DirectoryAssumption, Zenon DEF Clients!Rows, Clients!Same,
             CacheInv, Clients!TypeOK
      <3> QED
          BY <1>0, <2>1, <3>1, <3>2, <3>3 DEF Clients!Goto, CacheInv, Clients!TypeOK, Clients!Labels
    <2> QED
        BY <2>2, <2>3, Zenon
  <1>13. ASSUME NEW r \in Requests, Clients!Delete(r) PROVE Clients!TypeOK'
      BY <1>0, <1>13, DirectoryAssumption, Zenon DEF Clients!Delete, Clients!db, Clients!local,
         Clients!Goto, Clients!Same, CacheInv, Clients!TypeOK, Clients!Rows, Clients!Labels
  <1>14. ASSUME NEW r \in Requests, Clients!AddRedirectUri(r) PROVE Clients!TypeOK'
      BY <1>0, <1>14, DirectoryAssumption, Zenon DEF Clients!AddRedirectUri, Clients!db,
         Clients!local, Clients!Goto, Clients!End, Clients!Same, CacheInv, Clients!TypeOK,
         Clients!Rows, Clients!Labels
  <1>15. ASSUME NEW r \in Requests, Clients!ClientIdOf(r) PROVE Clients!TypeOK'
      BY <1>0, <1>15, DirectoryAssumption, Zenon DEF Clients!ClientIdOf, Clients!db, Clients!local,
         Clients!Goto, Clients!End, CacheInv, Clients!TypeOK, Clients!Rows, Clients!Labels
  <1>16. ASSUME NEW r \in Requests, Clients!RemoveRedirectUri(r) PROVE Clients!TypeOK'
      BY <1>0, <1>16, DirectoryAssumption, Zenon DEF Clients!RemoveRedirectUri, Clients!db,
         Clients!local, Clients!Goto, Clients!End, CacheInv, Clients!TypeOK, Clients!Rows,
         Clients!Labels
  <1>17. ASSUME NEW r \in Requests, Clients!Invalidate(r) PROVE Clients!TypeOK'
    <2>1. /\ Clients!End(r) /\ UNCHANGED <<Clients!db, writes>>
          /\ cache' \in {cache, None} /\ excused' \in BOOLEAN
        BY <1>17, Zenon DEF Clients!Invalidate, Clients!Stale
    <2> QED
        BY <1>0, <2>1, Zenon DEF Clients!End, Clients!db, CacheInv, Clients!TypeOK, Clients!Labels
  <1>18. ASSUME NEW r \in Requests, Clients!Abort(r) PROVE Clients!TypeOK'
      BY <1>0, <1>18, Zenon DEF Clients!Abort, Clients!db, Clients!End, CacheInv, Clients!TypeOK,
         Clients!Labels
  <1>19. CASE Clients!Evict
      BY <1>0, <1>19, Zenon DEF Clients!Evict, Clients!db, Clients!local, CacheInv, Clients!TypeOK,
         Clients!Rows, Clients!Labels
  <1> QED
      BY <1>1, <1>2, <1>3, <1>4, <1>5, <1>6, <1>7, <1>8, <1>9, <1>10, <1>11, <1>12, <1>13,
         <1>14, <1>15, <1>16, <1>17, <1>18, <1>19, Zenon DEF Clients!Next, Clients!Begin,
         Clients!Step

\* A write that makes the entry stale still has its DEL to send (client/repository.rs), and
\* a fill that stores an old copy is a known race.
LEMMA CacheExplained == CacheInv /\ Clients!Next => Explained'
  <1> SUFFICES ASSUME CacheInv, Clients!Next PROVE Explained'
      BY Zenon
  <1>1. ASSUME NEW r \in Requests, Clients!BeginLookup(r) PROVE Explained'
      BY <1>1 DEF Explained, Clients!BeginLookup, Clients!db, Clients!Goto, CacheInv,
         Clients!Stale, Invalidates, Clients!Same
  <1>2. ASSUME NEW r \in Requests, Clients!BeginCreate(r) PROVE Explained'
      BY <1>2 DEF Explained, Clients!BeginCreate, Clients!db, CacheInv, Clients!Stale,
         Invalidates, Clients!Same
  <1>3. ASSUME NEW r \in Requests, Clients!BeginUpdate(r) PROVE Explained'
      BY <1>3 DEF Explained, Clients!BeginUpdate, Clients!db, Clients!BeginWith, CacheInv,
         Clients!Stale, Invalidates, Clients!Same
  <1>4. ASSUME NEW r \in Requests, Clients!BeginDelete(r) PROVE Explained'
      BY <1>4 DEF Explained, Clients!BeginDelete, Clients!db, Clients!BeginWith, CacheInv,
         Clients!Stale, Invalidates, Clients!Same
  <1>5. ASSUME NEW r \in Requests, Clients!BeginAddUri(r) PROVE Explained'
      BY <1>5 DEF Explained, Clients!BeginAddUri, Clients!db, Clients!BeginWith, CacheInv,
         Clients!Stale, Invalidates, Clients!Same
  <1>6. ASSUME NEW r \in Requests, Clients!BeginRemoveUri(r) PROVE Explained'
      BY <1>6 DEF Explained, Clients!BeginRemoveUri, Clients!db, Clients!BeginWith, CacheInv,
         Clients!Stale, Invalidates, Clients!Same
  <1>7. ASSUME NEW r \in Requests, Clients!ReadCache(r) PROVE Explained'
      BY <1>7, Zenon DEF Explained, Clients!ReadCache, Clients!db, Clients!Goto, Clients!End,
         CacheInv, Clients!TypeOK, Clients!Stale, Invalidates, Clients!Same
  <1>8. ASSUME NEW r \in Requests, Clients!ReadRow(r) PROVE Explained'
      BY <1>8, Zenon DEF Explained, Clients!ReadRow, Clients!db, Clients!Goto, Clients!End,
         CacheInv, Clients!TypeOK, Clients!Stale, Invalidates, Clients!Same
  <1>9. ASSUME NEW r \in Requests, Clients!FetchRedirectUris(r) PROVE Explained'
      BY <1>9 DEF Explained, Clients!FetchRedirectUris, Clients!db, CacheInv, Clients!Stale,
         Invalidates, Clients!Same
  <1>10. ASSUME NEW r \in Requests, Clients!PopulateCache(r) PROVE Explained'
    <2>1. UNCHANGED <<row, uri>> /\ Clients!End(r) /\ at[r] = "fill"
        BY <1>10, Zenon DEF Clients!PopulateCache, Clients!db
    <2>2. CASE /\ cache' = Clients!Snapshot(copy[r], uriCopy[r])
               /\ excused' = (/\ overtaken[r]
                              /\ Clients!Snapshot(copy[r], uriCopy[r]) # Clients!Snapshot(row, uri))
      <3>1. CASE ~overtaken[r]
        <4>1. copy[r] = row /\ uriCopy[r] = uri
            BY <2>1, <3>1, Zenon DEF CacheInv, CopiesCurrent
        <4> QED
            BY <2>1, <2>2, <4>1, Zenon DEF Explained, Clients!Stale, Clients!Snapshot
      <3>2. CASE overtaken[r]
          BY <2>1, <2>2, <3>2, Zenon DEF Explained, Clients!Stale, Clients!Snapshot
      <3> QED
          BY <3>1, <3>2, Zenon
    <2>3. CASE UNCHANGED <<cache, excused>>
        BY <2>1, <2>3, Zenon DEF Clients!End, CacheInv, Clients!TypeOK, Explained,
           Clients!Stale, Clients!Snapshot, Invalidates, Clients!Same
    <2> QED
        BY <1>10, <2>2, <2>3, Zenon DEF Clients!PopulateCache
  <1>11. ASSUME NEW r \in Requests, Clients!Persist(r) PROVE Explained'
      BY <1>11, Zenon DEF Explained, Clients!Persist, Clients!Goto, Clients!End, CacheInv,
         Clients!TypeOK, Clients!Stale, Invalidates, Clients!Same
  <1>12. ASSUME NEW r \in Requests, Clients!Update(r) PROVE Explained'
      BY <1>12, Zenon DEF Explained, Clients!Update, Clients!Goto, Clients!End, Clients!Same,
         CacheInv, Clients!TypeOK, Clients!Stale, Invalidates
  <1>13. ASSUME NEW r \in Requests, Clients!Delete(r) PROVE Explained'
      BY <1>13, Zenon DEF Explained, Clients!Delete, Clients!Goto, CacheInv, Clients!TypeOK,
         Invalidates
  <1>14. ASSUME NEW r \in Requests, Clients!AddRedirectUri(r) PROVE Explained'
      BY <1>14, Zenon DEF Explained, Clients!AddRedirectUri, Clients!Goto, Clients!End,
         Clients!Same, CacheInv, Clients!TypeOK, Clients!Stale, Invalidates
  <1>15. ASSUME NEW r \in Requests, Clients!ClientIdOf(r) PROVE Explained'
      BY <1>15, Zenon DEF Explained, Clients!ClientIdOf, Clients!db, Clients!Goto, Clients!End,
         CacheInv, Clients!TypeOK, Clients!Stale, Invalidates, Clients!Same
  <1>16. ASSUME NEW r \in Requests, Clients!RemoveRedirectUri(r) PROVE Explained'
      BY <1>16, Zenon DEF Explained, Clients!RemoveRedirectUri, Clients!Goto, Clients!End,
         CacheInv, Clients!TypeOK, Clients!Stale, Invalidates, Clients!Same
  <1>17. ASSUME NEW r \in Requests, Clients!Invalidate(r) PROVE Explained'
      BY <1>17, DirectoryAssumption, Zenon DEF Explained, Clients!Invalidate, Clients!db,
         Clients!local, Clients!End, CacheInv, Clients!TypeOK, Clients!Stale, Clients!Snapshot,
         Invalidates, Clients!Same, Clients!Rows, Clients!Labels
  <1>18. ASSUME NEW r \in Requests, Clients!Abort(r) PROVE Explained'
      BY <1>18, DirectoryAssumption, Zenon DEF Explained, Clients!Abort, Clients!db,
         Clients!local, Clients!End, CacheInv, Clients!TypeOK, Clients!Stale, Clients!Snapshot,
         Invalidates, Clients!Same, Clients!Rows, Clients!Labels
  <1>19. CASE Clients!Evict
      BY <1>19, Zenon DEF Clients!Evict, Explained, Clients!Stale
  <1> QED
      BY <1>1, <1>2, <1>3, <1>4, <1>5, <1>6, <1>7, <1>8, <1>9, <1>10, <1>11, <1>12, <1>13,
         <1>14, <1>15, <1>16, <1>17, <1>18, <1>19, Zenon DEF Clients!Next, Clients!Begin,
         Clients!Step

\* find_by_client_id reads the row before the URIs and the URIs before it fills.
LEMMA CacheCopies == CacheInv /\ Clients!Next => CopiesRead'
  <1> SUFFICES ASSUME CacheInv, Clients!Next PROVE CopiesRead'
      BY Zenon
  <1>1. ASSUME NEW r \in Requests, Clients!BeginLookup(r) PROVE CopiesRead'
      BY <1>1 DEF CopiesRead, Clients!BeginLookup, Clients!Goto, CacheInv
  <1>2. ASSUME NEW r \in Requests, Clients!BeginCreate(r) PROVE CopiesRead'
      BY <1>2 DEF CopiesRead, Clients!BeginCreate, CacheInv
  <1>3. ASSUME NEW r \in Requests, Clients!BeginUpdate(r) PROVE CopiesRead'
      BY <1>3 DEF CopiesRead, Clients!BeginUpdate, Clients!BeginWith, CacheInv
  <1>4. ASSUME NEW r \in Requests, Clients!BeginDelete(r) PROVE CopiesRead'
      BY <1>4 DEF CopiesRead, Clients!BeginDelete, Clients!BeginWith, CacheInv
  <1>5. ASSUME NEW r \in Requests, Clients!BeginAddUri(r) PROVE CopiesRead'
      BY <1>5 DEF CopiesRead, Clients!BeginAddUri, Clients!BeginWith, CacheInv
  <1>6. ASSUME NEW r \in Requests, Clients!BeginRemoveUri(r) PROVE CopiesRead'
      BY <1>6 DEF CopiesRead, Clients!BeginRemoveUri, Clients!BeginWith, CacheInv
  <1>7. ASSUME NEW r \in Requests, Clients!ReadCache(r) PROVE CopiesRead'
      BY <1>7, Zenon DEF CopiesRead, Clients!ReadCache, Clients!Goto, Clients!End, CacheInv,
         Clients!TypeOK
  <1>8. ASSUME NEW r \in Requests, Clients!ReadRow(r) PROVE CopiesRead'
      BY <1>8, Zenon DEF CopiesRead, Clients!ReadRow, Clients!Goto, Clients!End, CacheInv,
         Clients!TypeOK
  <1>9. ASSUME NEW r \in Requests, Clients!FetchRedirectUris(r) PROVE CopiesRead'
      BY <1>9 DEF CopiesRead, Clients!FetchRedirectUris, CacheInv
  <1>10. ASSUME NEW r \in Requests, Clients!PopulateCache(r) PROVE CopiesRead'
      BY <1>10, Zenon DEF CopiesRead, Clients!PopulateCache, Clients!End, CacheInv, Clients!TypeOK
  <1>11. ASSUME NEW r \in Requests, Clients!Persist(r) PROVE CopiesRead'
      BY <1>11, Zenon DEF CopiesRead, Clients!Persist, Clients!Goto, Clients!End, CacheInv,
         Clients!TypeOK
  <1>12. ASSUME NEW r \in Requests, Clients!Update(r) PROVE CopiesRead'
      BY <1>12, Zenon DEF CopiesRead, Clients!Update, Clients!Goto, Clients!End, CacheInv,
         Clients!TypeOK
  <1>13. ASSUME NEW r \in Requests, Clients!Delete(r) PROVE CopiesRead'
      BY <1>13 DEF CopiesRead, Clients!Delete, Clients!Goto, CacheInv
  <1>14. ASSUME NEW r \in Requests, Clients!AddRedirectUri(r) PROVE CopiesRead'
      BY <1>14, Zenon DEF CopiesRead, Clients!AddRedirectUri, Clients!Goto, Clients!End,
         CacheInv, Clients!TypeOK
  <1>15. ASSUME NEW r \in Requests, Clients!ClientIdOf(r) PROVE CopiesRead'
      BY <1>15, Zenon DEF CopiesRead, Clients!ClientIdOf, Clients!Goto, Clients!End, CacheInv,
         Clients!TypeOK
  <1>16. ASSUME NEW r \in Requests, Clients!RemoveRedirectUri(r) PROVE CopiesRead'
      BY <1>16, Zenon DEF CopiesRead, Clients!RemoveRedirectUri, Clients!Goto, Clients!End,
         CacheInv, Clients!TypeOK
  <1>17. ASSUME NEW r \in Requests, Clients!Invalidate(r) PROVE CopiesRead'
      BY <1>17 DEF CopiesRead, Clients!Invalidate, Clients!End, CacheInv
  <1>18. ASSUME NEW r \in Requests, Clients!Abort(r) PROVE CopiesRead'
      BY <1>18, Zenon DEF CopiesRead, Clients!Abort, Clients!End, CacheInv, Clients!TypeOK
  <1>19. CASE Clients!Evict
      BY <1>19, Zenon DEF CopiesRead, Clients!Evict, Clients!local, CacheInv
  <1> QED
      BY <1>1, <1>2, <1>3, <1>4, <1>5, <1>6, <1>7, <1>8, <1>9, <1>10, <1>11, <1>12, <1>13,
         <1>14, <1>15, <1>16, <1>17, <1>18, <1>19, Zenon DEF Clients!Next, Clients!Begin,
         Clients!Step

\* No step of a request touches what another has read, and a request changes its own
\* copies only in the two SELECTs of a lookup.
CopiesKept ==
    \A q \in Requests :
        at'[q] \in {"uris", "fill"} => at'[q] = at[q] /\ copy'[q] = copy[q] /\ uriCopy'[q] = uriCopy[q]

\* All steps but these two SELECTs keep them.
LEMMA CacheKept ==
    ASSUME CacheInv, Clients!Next,
           \A r \in Requests : ~Clients!ReadRow(r) /\ ~Clients!FetchRedirectUris(r)
    PROVE  CopiesKept
  <1>1. CASE Clients!Evict
      BY <1>1, Zenon DEF Clients!Evict, Clients!local, CopiesKept
  <1>2. ASSUME NEW r \in Requests,
               \/ Clients!End(r)
               \/ \E label \in {"cache", "row", "insert", "owner", "del"} : Clients!Goto(r, label)
        PROVE  CopiesKept
      BY <1>2 DEF Clients!End, Clients!Goto, CacheInv, Clients!TypeOK, CopiesKept
  <1>3. ASSUME NEW r \in Requests, Clients!Begin(r) PROVE CopiesKept
    <2>1. CASE Clients!BeginLookup(r)
        BY <1>2, <2>1, Zenon DEF Clients!BeginLookup
    <2>2. CASE Clients!BeginCreate(r)
        BY <2>2 DEF Clients!BeginCreate, CacheInv, Clients!TypeOK, CopiesKept
    <2>3. ASSUME NEW label \in {"update", "delete", "add", "remove"}, Clients!BeginWith(r, label)
          PROVE  CopiesKept
        BY <2>3 DEF Clients!BeginWith, CacheInv, Clients!TypeOK, CopiesKept
    <2> QED
        BY <1>3, <2>1, <2>2, <2>3, Zenon DEF Clients!Begin, Clients!BeginUpdate,
           Clients!BeginDelete, Clients!BeginAddUri, Clients!BeginRemoveUri
  <1>4. ASSUME NEW r \in Requests, Clients!Step(r) \/ Clients!Abort(r) PROVE CopiesKept
    <2>1. \/ Clients!End(r)
          \/ \E label \in {"cache", "row", "insert", "owner", "del"} : Clients!Goto(r, label)
        BY <1>4, Zenon DEF Clients!Step, Clients!ReadCache, Clients!PopulateCache,
           Clients!Persist, Clients!Update, Clients!Delete, Clients!AddRedirectUri,
           Clients!ClientIdOf, Clients!RemoveRedirectUri, Clients!Invalidate, Clients!Abort
    <2> QED
        BY <1>2, <2>1, Zenon
  <1> QED
      BY <1>1, <1>3, <1>4, Zenon DEF Clients!Next

\* A copy is current when it is read, and a write marks whoever holds an older one.
LEMMA CacheCurrent == CacheInv /\ Clients!Next => CopiesCurrent'
  <1> SUFFICES ASSUME CacheInv, Clients!Next, NEW q \in Requests, ~overtaken'[q],
                      at'[q] \in {"uris", "fill"}
               PROVE  copy'[q] = row' /\ (at'[q] = "fill" => uriCopy'[q] = uri')
      BY Zenon DEF CopiesCurrent
  <1>1. ~overtaken[q] /\ row' = row /\ uri' = uri
    <2>1. CASE Clients!Evict
        BY <2>1, Zenon DEF Clients!Evict, Clients!db
    <2>2. CASE Clients!Overtake
        BY <2>2, Zenon DEF Clients!Overtake, Clients!db
    <2> QED
        BY <2>1, <2>2, Zenon DEF Clients!Next, Clients!Begin, Clients!Step
  <1>2. CASE CopiesKept
      BY <1>1, <1>2, Zenon DEF CopiesKept, CacheInv, CopiesCurrent
  <1>3. ASSUME NEW r \in Requests, Clients!ReadRow(r)
        PROVE  copy'[q] = row' /\ (at'[q] = "fill" => uriCopy'[q] = uri')
    <2>1. CASE q = r
        BY <1>1, <1>3, <2>1 DEF Clients!ReadRow, Clients!Goto, Clients!End, CacheInv,
           Clients!TypeOK
    <2>2. CASE q # r
      <3>1. at'[q] = at[q] /\ copy'[q] = copy[q] /\ uriCopy'[q] = uriCopy[q]
          BY <1>3, <2>2 DEF Clients!ReadRow, Clients!Goto, Clients!End, CacheInv, Clients!TypeOK
      <3> QED
          BY <1>1, <3>1, Zenon DEF CacheInv, CopiesCurrent
    <2> QED
        BY <2>1, <2>2, Zenon
  <1>4. ASSUME NEW r \in Requests, Clients!FetchRedirectUris(r)
        PROVE  copy'[q] = row' /\ (at'[q] = "fill" => uriCopy'[q] = uri')
    <2>1. /\ at[r] = "uris" /\ UNCHANGED copy
          /\ uriCopy' = [uriCopy EXCEPT ![r] = uri /\ row # None /\ row.id = copy[r].id]
          /\ at' = [at EXCEPT ![r] = "fill"]
        BY <1>4, Zenon DEF Clients!FetchRedirectUris
    <2>2. CASE q = r
      <3>1. copy[q] = row /\ row # None
          BY <1>1, <2>1, <2>2, Zenon DEF CacheInv, CopiesCurrent, CopiesRead
      <3>2. uriCopy'[q] = (uri /\ row # None /\ row.id = row.id)
          BY <2>1, <2>2, <3>1, Zenon DEF CacheInv, Clients!TypeOK
      <3> QED
          BY <1>1, <2>1, <3>1, <3>2, Zenon DEF CacheInv, Clients!TypeOK
    <2>3. CASE q # r
      <3>1. at'[q] = at[q] /\ copy'[q] = copy[q] /\ uriCopy'[q] = uriCopy[q]
          BY <2>1, <2>3, Zenon DEF CacheInv, Clients!TypeOK
      <3> QED
          BY <1>1, <3>1, Zenon DEF CacheInv, CopiesCurrent
    <2> QED
        BY <2>2, <2>3, Zenon
  <1> QED
      BY <1>2, <1>3, <1>4, CacheKept, Zenon

\* The invariant of the client cache is inductive.
LEMMA CacheNext == CacheInv /\ [Clients!Next]_(Clients!vars) => CacheInv'
  <1> SUFFICES ASSUME CacheInv, [Clients!Next]_(Clients!vars) PROVE CacheInv'
      BY Zenon
  <1>1. CASE Clients!Next
      BY <1>1, CacheTypes, CacheExplained, CacheCopies, CacheCurrent, Zenon DEF CacheInv
  <1>2. CASE UNCHANGED Clients!vars
    <2>1. UNCHANGED <<row, uri, cache, at, creates, copy, uriCopy, writes, overtaken, excused>>
        BY <1>2, Zenon DEF Clients!vars, Clients!db, Clients!local
    <2>2. Clients!TypeOK'
        BY <2>1, Zenon DEF CacheInv, Clients!TypeOK
    <2>3. CopiesRead' /\ CopiesCurrent'
        BY <2>1, Zenon DEF CacheInv, CopiesRead, CopiesCurrent
    <2>4. Explained'
        BY <2>1, Zenon DEF CacheInv, Explained, Clients!Stale, Clients!Snapshot, Invalidates,
           Clients!Same
    <2> QED
        BY <2>2, <2>3, <2>4, Zenon DEF CacheInv
  <1> QED
      BY <1>1, <1>2, Zenon

\* What the run checks of the client cache follows.
LEMMA CacheSound == CacheInv => Clients!TypeOK /\ Clients!StaleExplained
  <1>1. ASSUME NEW r, Invalidates(r) PROVE at[r] \in {"owner", "del"}
      BY <1>1, Zenon DEF Invalidates
  <1> QED
      BY <1>1, Zenon DEF CacheInv, Explained, Clients!StaleExplained

-----------------------------------------------------------------------------
(* Accounts.                                                                *)

\* An INSERT waits for an uncommitted row of the same key (Unlocked), so what a transaction
\* has inserted is still free, and nobody else has inserted it.
InsertsExclusive ==
    \A r \in Requests : step[r] \in Accts!Inserted =>
        /\ ~Accts!Taken(who[r])
        /\ \A q \in Requests \ {r} : step[q] \in Accts!Inserted => ~Accts!Clash(who[r], who[q])

\* A sign-up that goes on without its role has starved for a connection, and create_user
\* assigns a role only after the credential.
Completing ==
    \A r \in Requests :
        /\ step[r] \in {"token", "commit"} => flag[r] \/ r \in starving
        /\ step[r] = "assignRole" /\ kept[r] => who[r] \in creds

\* Inductive.
AccountsInv ==
    /\ Accts!TypeOK /\ InsertsExclusive /\ Completing
    /\ Accts!AccountsUnique /\ Accts!AccountsComplete /\ Accts!ConsumedMeansVerified

\* The invariant holds of an empty database.
LEMMA AccountsInit == Accts!Init => AccountsInv
  <1> SUFFICES ASSUME Accts!Init PROVE AccountsInv
      BY Zenon
  <1>1. flag \in [Requests -> BOOLEAN] /\ kept \in [Requests -> BOOLEAN] /\ \A r \in Requests : ~kept[r]
      BY Zenon DEF Accts!Init
  <1>2. who \in [Requests -> Idents]
      BY DirectoryAssumption, Zenon DEF Accts!Init
  <1>3. /\ users = {} /\ verified = {} /\ creds = {} /\ roles = {} /\ token = [i \in Idents |-> "none"]
        /\ step = [r \in Requests |-> "idle"]
        /\ partial = {} /\ starving = {} /\ roleless = {} /\ unset = {} /\ overwritten = {}
      BY Zenon DEF Accts!Init
  <1>4. Accts!TypeOK
      BY <1>1, <1>2, <1>3, Zenon DEF Accts!TypeOK, Accts!Labels
  <1>5. InsertsExclusive /\ Completing
      BY <1>3, Zenon DEF InsertsExclusive, Completing, Accts!Inserted
  <1>6. Accts!AccountsUnique /\ Accts!AccountsComplete /\ Accts!ConsumedMeansVerified
      BY <1>3, Zenon DEF Accts!AccountsUnique, Accts!AccountsComplete, Accts!ConsumedMeansVerified
  <1> QED
      BY <1>4, <1>5, <1>6, Zenon DEF AccountsInv

\* Sharing an email or a username is symmetric.
LEMMA ClashSymmetric == \A i, j : Accts!Clash(i, j) <=> Accts!Clash(j, i)
  BY Zenon DEF Accts!Clash

\* A handler that starts keeps the types.
LEMMA BeginsTypes ==
    ASSUME Accts!TypeOK, NEW r \in Requests, NEW i \in Idents, NEW f \in BOOLEAN, NEW b \in BOOLEAN,
           NEW label \in {"begin", "beginVerify", "persist", "write", "writeBack"},
           b => i \in users, Accts!Begins(r, label, i, f, b)
    PROVE  Accts!TypeOK'
  <1>1. /\ step[r] = "idle" /\ UNCHANGED <<Accts!db, Accts!past>>
        /\ step' = [step EXCEPT ![r] = label] /\ who' = [who EXCEPT ![r] = i]
        /\ flag' = [flag EXCEPT ![r] = f] /\ kept' = [kept EXCEPT ![r] = b]
      BY Zenon DEF Accts!Begins
  <1>2. flag' \in [Requests -> BOOLEAN] /\ kept' \in [Requests -> BOOLEAN]
      BY <1>1, Zenon DEF Accts!TypeOK
  <1> QED
      BY <1>1, <1>2, Zenon DEF Accts!TypeOK, Accts!db, Accts!past, Accts!Labels

\* So does one that returns.
LEMMA EndTypes ==
    ASSUME Accts!TypeOK, NEW r \in Requests, Accts!End(r)
    PROVE  /\ step' \in [Requests -> Accts!Labels]
           /\ who' \in [Requests -> Idents]
           /\ flag' \in [Requests -> BOOLEAN] /\ kept' \in [Requests -> BOOLEAN]
           /\ \A q \in Requests : kept'[q] => kept[q]
           /\ who' = who /\ \A q \in Requests \ {r} : step'[q] = step[q]
  BY Zenon DEF Accts!TypeOK, Accts!End, Accts!Labels

\* A step that adds no account and no uncommitted INSERT keeps the INSERTs exclusive.
LEMMA InsertsKept ==
    ASSUME InsertsExclusive, users' \subseteq users,
           \A r \in Requests : step'[r] \in Accts!Inserted => step[r] \in Accts!Inserted /\ who'[r] = who[r]
    PROVE  InsertsExclusive'
  BY Zenon DEF InsertsExclusive, Accts!Taken

\* Every step of a sign-up, a verification or an admin keeps the types: what belongs to an
\* account goes with it.
LEMMA AccountsTypes == Accts!TypeOK /\ Accts!Next => Accts!TypeOK'
  <1> SUFFICES ASSUME Accts!TypeOK, Accts!Next PROVE Accts!TypeOK'
      BY Zenon
  <1>1. ASSUME NEW r \in Requests, Accts!BeginSignup(r) PROVE Accts!TypeOK'
      BY <1>1, BeginsTypes, Zenon DEF Accts!BeginSignup
  <1>2. ASSUME NEW r \in Requests, Accts!BeginVerify(r) PROVE Accts!TypeOK'
    <2>1. PICK i \in Idents : token[i] = "live" /\ Accts!Begins(r, "beginVerify", i, FALSE, TRUE)
        BY <1>2, Zenon DEF Accts!BeginVerify
    <2>2. i \in users
        BY <2>1, Zenon DEF Accts!TypeOK
    <2> QED
        BY <2>1, <2>2, BeginsTypes, Zenon
  <1>3. ASSUME NEW r \in Requests, Accts!BeginCreate(r) PROVE Accts!TypeOK'
    <2>1. PICK i \in Idents, ev \in BOOLEAN : Accts!Begins(r, "persist", i, ev, FALSE)
        BY <1>3, Zenon DEF Accts!BeginCreate
    <2> QED
        BY <2>1, BeginsTypes, Zenon
  <1>4. ASSUME NEW r \in Requests, Accts!BeginUpdate(r) PROVE Accts!TypeOK'
    <2>1. PICK i \in users :
             \/ Accts!Begins(r, "writeBack", i, i \in verified, TRUE)
             \/ \E ev \in BOOLEAN : Accts!Begins(r, "write", i, ev, TRUE)
        BY <1>4, Zenon DEF Accts!BeginUpdate
    <2>2. i \in Idents
        BY <2>1, Zenon DEF Accts!TypeOK
    <2>5. (i \in verified) \in BOOLEAN
        BY SMT
    <2>3. CASE Accts!Begins(r, "writeBack", i, i \in verified, TRUE)
        BY <2>1, <2>2, <2>3, <2>5, BeginsTypes, Zenon
    <2>4. CASE \E ev \in BOOLEAN : Accts!Begins(r, "write", i, ev, TRUE)
      <3>1. PICK ev \in BOOLEAN : Accts!Begins(r, "write", i, ev, TRUE)
          BY <2>4, Zenon
      <3> QED
          BY <2>1, <2>2, <3>1, BeginsTypes, Zenon
    <2> QED
        BY <2>1, <2>3, <2>4, Zenon
  <1>5. ASSUME NEW r \in Requests, Accts!BeginTx(r) PROVE Accts!TypeOK'
      BY <1>5, Zenon DEF Accts!BeginTx, Accts!db, Accts!past, Accts!Goto, Accts!TypeOK, Accts!Labels
  <1>6. ASSUME NEW r \in Requests, Accts!CheckTaken(r) PROVE Accts!TypeOK'
      BY <1>6, ZenonT(60) DEF Accts!CheckTaken, Accts!db, Accts!past, Accts!local, Accts!Goto,
         Accts!End, Accts!TypeOK, Accts!Labels
  <1>7. ASSUME NEW r \in Requests, Accts!InsertUser(r) PROVE Accts!TypeOK'
      BY <1>7, ZenonT(60) DEF Accts!InsertUser, Accts!db, Accts!past, Accts!local, Accts!Goto,
         Accts!End, Accts!Unlocked, Accts!TypeOK, Accts!Labels
  <1>8. ASSUME NEW r \in Requests, Accts!InsertCredential(r) PROVE Accts!TypeOK'
      BY <1>8, Zenon DEF Accts!InsertCredential, Accts!db, Accts!past, Accts!Goto, Accts!TypeOK,
         Accts!Labels
  <1>9. ASSUME NEW r \in Requests, Accts!FindRole(r) PROVE Accts!TypeOK'
      BY <1>9 DEF Accts!FindRole, Accts!db, Accts!Goto, Accts!TypeOK, Accts!Labels
  <1>10. ASSUME NEW r \in Requests, Accts!InsertRole(r) PROVE Accts!TypeOK'
      BY <1>10, Zenon DEF Accts!InsertRole, Accts!db, Accts!past, Accts!TypeOK, Accts!Labels
  <1>11. ASSUME NEW r \in Requests, Accts!AcquireTimeout(r) PROVE Accts!TypeOK'
    <2>1. UNCHANGED <<Accts!db, partial, roleless, unset, overwritten>>
        BY <1>11, Zenon DEF Accts!AcquireTimeout
    <2>2. CASE step[r] \in Accts!Single \cup {"begin", "beginVerify"} /\ Accts!End(r) /\ UNCHANGED starving
        BY <2>1, <2>2, EndTypes, Zenon DEF Accts!db, Accts!Single, Accts!TypeOK
    <2>3. CASE step[r] = "findRole" /\ Accts!Goto(r, "token") /\ starving' = starving \cup {r}
        BY <2>1, <2>3, Zenon DEF Accts!db, Accts!Goto, Accts!TypeOK, Accts!Labels
    <2> QED
        BY <1>11, <2>2, <2>3, Zenon DEF Accts!AcquireTimeout
  <1>12. ASSUME NEW r \in Requests, Accts!InsertToken(r) PROVE Accts!TypeOK'
      BY <1>12, Zenon DEF Accts!InsertToken, Accts!db, Accts!past, Accts!Goto, Accts!TypeOK, Accts!Labels
  <1>13. ASSUME NEW r \in Requests, Accts!Commit(r) PROVE Accts!TypeOK'
    <2>9. who[r] \in Idents /\ users \subseteq Idents /\ (kept[r] => who[r] \in users)
        BY Zenon DEF Accts!TypeOK
    <2>1. /\ step[r] = "commit" /\ Accts!End(r) /\ users' = users \cup {who[r]}
          /\ creds' = creds \cup {who[r]}
          /\ token' = [token EXCEPT ![who[r]] = "live"] /\ starving' = starving \ {r}
          /\ UNCHANGED <<verified, partial, unset, overwritten>>
        BY <1>13, Zenon DEF Accts!Commit
    <2>2. roles' \in {roles, roles \cup {who[r]}} /\ roleless' \in {roleless, roleless \cup {who[r]}}
        BY <1>13, Zenon DEF Accts!Commit
    <2>3. /\ users' \subseteq Idents /\ token' \in [Idents -> {"none", "live", "consumed", "expired"}]
          /\ verified' \cup creds' \cup roles' \subseteq users'
          /\ \A i \in Idents : token'[i] # "none" => i \in users'
        BY <2>1, <2>2, <2>9, Zenon DEF Accts!TypeOK
    <2>4. partial' \cup roleless' \cup unset' \cup overwritten' \subseteq Idents
        BY <2>1, <2>2, <2>9, Zenon DEF Accts!TypeOK
    <2>5. step' \in [Requests -> Accts!Labels] /\ who' \in [Requests -> Idents]
        BY <2>1, EndTypes, Zenon
    <2>6. \A q \in Requests : kept'[q] => who'[q] \in users'
        BY <2>1, EndTypes, Zenon DEF Accts!TypeOK
    <2>7. \A q \in starving' : step'[q] \in {"token", "commit"}
        BY <2>1, EndTypes, Zenon DEF Accts!TypeOK
    <2> QED
        BY <2>1, <2>3, <2>4, <2>5, <2>6, <2>7, EndTypes, Zenon DEF Accts!TypeOK
  <1>14. ASSUME NEW r \in Requests, Accts!BeginVerifyTx(r) PROVE Accts!TypeOK'
      BY <1>14, Zenon DEF Accts!BeginVerifyTx, Accts!db, Accts!past, Accts!Goto, Accts!TypeOK,
         Accts!Labels
  <1>15. ASSUME NEW r \in Requests, Accts!Verify(r) PROVE Accts!TypeOK'
    <2>9. who[r] \in Idents /\ users \subseteq Idents /\ (kept[r] => who[r] \in users)
        BY Zenon DEF Accts!TypeOK
    <2>1. step[r] = "verify" /\ Accts!End(r) /\ UNCHANGED <<users, creds, roles, Accts!past>>
        BY <1>15, Zenon DEF Accts!Verify
    <2>2. CASE kept[r]
      <3>1. verified' = verified \cup {who[r]} /\ token' = [token EXCEPT ![who[r]] = "consumed"]
          BY <1>15, <2>2, Zenon DEF Accts!Verify
      <3>2. /\ token' \in [Idents -> {"none", "live", "consumed", "expired"}]
            /\ verified' \cup creds' \cup roles' \subseteq users'
            /\ \A i \in Idents : token'[i] # "none" => i \in users'
          BY <2>1, <2>2, <2>9, <3>1, Zenon DEF Accts!TypeOK
      <3>3. \A q \in Requests : kept'[q] => who'[q] \in users'
          BY <2>1, EndTypes, Zenon DEF Accts!TypeOK
      <3>4. starving' \subseteq Requests /\ \A q \in starving' : step'[q] \in {"token", "commit"}
          BY <2>1, EndTypes, Zenon DEF Accts!past, Accts!TypeOK
      <3>5. partial' \cup roleless' \cup unset' \cup overwritten' \subseteq Idents /\ users' \subseteq Idents
          BY <2>1, Zenon DEF Accts!past, Accts!TypeOK
      <3> QED
          BY <2>1, <3>2, <3>3, <3>4, <3>5, EndTypes, Zenon DEF Accts!TypeOK
    <2>3. CASE ~kept[r]
      <3>1. UNCHANGED <<verified, token>>
          BY <1>15, <2>3, Zenon DEF Accts!Verify
      <3> QED
          BY <2>1, <3>1, Zenon DEF Accts!End, Accts!past, Accts!TypeOK, Accts!Labels
    <2> QED
        BY <2>2, <2>3, Zenon
  <1>16. ASSUME NEW r \in Requests, Accts!Persist(r) PROVE Accts!TypeOK'
    <2>9. who[r] \in Idents /\ users \subseteq Idents /\ (kept[r] => who[r] \in users)
        BY Zenon DEF Accts!TypeOK
    <2>1. step[r] = "persist" /\ UNCHANGED <<creds, roles, token, starving, roleless, unset, overwritten>>
        BY <1>16, Zenon DEF Accts!Persist
    <2>2. CASE Accts!Taken(who[r])
      <3>1. Accts!End(r) /\ UNCHANGED <<users, verified, partial>>
          BY <1>16, <2>2, Zenon DEF Accts!Persist
      <3> QED
          BY <2>1, <3>1, Zenon DEF Accts!End, Accts!TypeOK, Accts!Labels
    <2>3. CASE ~Accts!Taken(who[r])
      <3>1. /\ users' = users \cup {who[r]} /\ partial' = partial \cup {who[r]}
            /\ verified' \in {verified, verified \cup {who[r]}}
            /\ step' = [step EXCEPT ![r] = "persistCredential"]
            /\ kept' = [kept EXCEPT ![r] = TRUE] /\ UNCHANGED <<who, flag>>
          BY <1>16, <2>3, Zenon DEF Accts!Persist
      <3>2. kept' \in [Requests -> BOOLEAN] /\ \A q \in Requests : kept'[q] => who[q] \in users'
          BY <2>9, <3>1, Zenon DEF Accts!TypeOK
      <3>3. step' \in [Requests -> Accts!Labels]
          BY <2>9, <3>1, Zenon DEF Accts!TypeOK, Accts!Labels
      <3>4. \A q \in starving' : step'[q] \in {"token", "commit"}
          BY <2>1, <2>9, <3>1, Zenon DEF Accts!TypeOK
      <3>6. partial' \cup roleless' \cup unset' \cup overwritten' \subseteq Idents
          BY <2>1, <2>9, <3>1, Zenon DEF Accts!TypeOK
      <3>7. users' \subseteq Idents
          BY <2>9, <3>1, Zenon
      <3>5. /\ verified' \cup creds' \cup roles' \subseteq users'
            /\ \A i \in Idents : token'[i] # "none" => i \in users'
          BY <2>1, <2>9, <3>1, Zenon DEF Accts!TypeOK
      <3> QED
          BY <2>1, <3>1, <3>2, <3>3, <3>4, <3>5, <3>6, <3>7, Zenon DEF Accts!TypeOK
    <2> QED
        BY <2>2, <2>3, Zenon
  <1>17. ASSUME NEW r \in Requests, Accts!PersistCredential(r) PROVE Accts!TypeOK'
    <2>1. step[r] = "persistCredential" /\ UNCHANGED <<users, verified, roles, token, Accts!past>>
        BY <1>17, Zenon DEF Accts!PersistCredential
    <2>2. CASE kept[r]
      <3>1. creds' = creds \cup {who[r]} /\ Accts!Goto(r, "assignRole")
          BY <1>17, <2>2, Zenon DEF Accts!PersistCredential
      <3>2. creds' \subseteq users' /\ UNCHANGED <<users, verified, roles, token, Accts!past, who, flag, kept>>
          BY <2>1, <2>2, <3>1, Zenon DEF Accts!Goto, Accts!TypeOK
      <3>3. step' = [step EXCEPT ![r] = "assignRole"]
          BY <3>1, Zenon DEF Accts!Goto
      <3> QED
          BY <2>1, <3>2, <3>3, Zenon DEF Accts!past, Accts!TypeOK, Accts!Labels
    <2>3. CASE ~kept[r]
      <3>1. Accts!End(r) /\ UNCHANGED creds
          BY <1>17, <2>3, Zenon DEF Accts!PersistCredential
      <3> QED
          BY <2>1, <3>1, Zenon DEF Accts!End, Accts!past, Accts!TypeOK, Accts!Labels
    <2> QED
        BY <2>2, <2>3, Zenon
  <1>18. ASSUME NEW r \in Requests, Accts!AssignRole(r) PROVE Accts!TypeOK'
      BY <1>18, Zenon DEF Accts!AssignRole, Accts!End, Accts!TypeOK, Accts!Labels
  <1>19. ASSUME NEW r \in Requests, Accts!Update(r) PROVE Accts!TypeOK'
    <2>9. who[r] \in Idents /\ users \subseteq Idents /\ (kept[r] => who[r] \in users)
        BY Zenon DEF Accts!TypeOK
    <2>1. /\ step[r] \in {"write", "writeBack"} /\ Accts!End(r)
          /\ UNCHANGED <<users, creds, roles, token, partial, starving, roleless>>
        BY <1>19, Zenon DEF Accts!Update
    <2>2. /\ verified' \in {verified, verified \ {who[r]}} \/ (kept[r] /\ verified' = verified \cup {who[r]})
          /\ unset' \in {unset, unset \cup {who[r]}}
          /\ overwritten' \in {overwritten, overwritten \cup {who[r]}}
        BY <1>19, Zenon DEF Accts!Update
    <2>3. verified' \subseteq users' /\ unset' \cup overwritten' \subseteq Idents
        BY <2>1, <2>2, <2>9, Zenon DEF Accts!TypeOK
    <2> QED
        BY <2>1, <2>3, EndTypes, Zenon DEF Accts!TypeOK
  <1>20. ASSUME NEW r \in Requests, Accts!Abort(r) PROVE Accts!TypeOK'
      BY <1>20, Zenon DEF Accts!Abort, Accts!db, Accts!End, Accts!TypeOK, Accts!Labels
  <1>21. ASSUME NEW i \in Idents, Accts!Delete(i) PROVE Accts!TypeOK'
      BY <1>21, Zenon DEF Accts!Delete, Accts!db, Accts!past, Accts!local, Accts!TypeOK, Accts!Labels
  <1>22. ASSUME NEW i \in Idents, Accts!AssignRoleTo(i) PROVE Accts!TypeOK'
      BY <1>22, Zenon DEF Accts!AssignRoleTo, Accts!local, Accts!TypeOK
  <1>23. ASSUME NEW i \in Idents, Accts!RevokeRole(i) PROVE Accts!TypeOK'
      BY <1>23, Zenon DEF Accts!RevokeRole, Accts!local, Accts!TypeOK
  <1>24. ASSUME NEW i \in Idents, Accts!Expire(i) PROVE Accts!TypeOK'
      BY <1>24, Zenon DEF Accts!Expire, Accts!past, Accts!local, Accts!TypeOK
  <1> QED
      BY <1>1, <1>2, <1>3, <1>4, <1>5, <1>6, <1>7, <1>8, <1>9, <1>10, <1>11, <1>12, <1>13,
         <1>14, <1>15, <1>16, <1>17, <1>18, <1>19, <1>20, <1>21, <1>22, <1>23, <1>24, Zenon DEF
         Accts!Next, Accts!Begin, Accts!Step

\* The unique indexes: an INSERT is let through only when no account and no other
\* transaction has the email or the username.
LEMMA AccountsInserts == Accts!TypeOK /\ InsertsExclusive /\ Accts!Next => InsertsExclusive'
  <1> SUFFICES ASSUME Accts!TypeOK, InsertsExclusive, Accts!Next PROVE InsertsExclusive'
      BY Zenon
  <1>1. ASSUME NEW r \in Requests, Accts!BeginSignup(r) PROVE InsertsExclusive'
      BY <1>1, InsertsKept DEF Accts!BeginSignup, Accts!db, Accts!Begins, Accts!Inserted
  <1>2. ASSUME NEW r \in Requests, Accts!BeginVerify(r) PROVE InsertsExclusive'
      BY <1>2, InsertsKept DEF Accts!BeginVerify, Accts!db, Accts!Begins, Accts!Inserted
  <1>3. ASSUME NEW r \in Requests, Accts!BeginCreate(r) PROVE InsertsExclusive'
      BY <1>3, InsertsKept DEF Accts!BeginCreate, Accts!db, Accts!Begins, Accts!Inserted
  <1>4. ASSUME NEW r \in Requests, Accts!BeginUpdate(r) PROVE InsertsExclusive'
      BY <1>4, InsertsKept, Zenon DEF Accts!BeginUpdate, Accts!db, Accts!Begins, Accts!TypeOK,
         Accts!Inserted
  <1>5. ASSUME NEW r \in Requests, Accts!BeginTx(r) PROVE InsertsExclusive'
      BY <1>5, InsertsKept DEF Accts!BeginTx, Accts!db, Accts!Goto, Accts!Inserted
  <1>6. ASSUME NEW r \in Requests, Accts!CheckTaken(r) PROVE InsertsExclusive'
      BY <1>6, InsertsKept, Zenon DEF Accts!CheckTaken, Accts!db, Accts!Goto, Accts!End, Accts!TypeOK,
         Accts!Inserted
  <1>7. ASSUME NEW r \in Requests, Accts!InsertUser(r) PROVE InsertsExclusive'
    <2>1. step[r] = "insert" /\ Accts!Unlocked(who[r]) /\ UNCHANGED <<Accts!db, Accts!past>>
        BY <1>7, Zenon DEF Accts!InsertUser
    <2>2. CASE Accts!Taken(who[r])
      <3>1. Accts!End(r)
          BY <1>7, <2>2, Zenon DEF Accts!InsertUser
      <3> QED
          BY <2>1, <3>1, InsertsKept DEF Accts!End, Accts!db, Accts!Inserted
    <2>3. CASE ~Accts!Taken(who[r])
      <3>1. Accts!Goto(r, "credential")
          BY <1>7, <2>3, Zenon DEF Accts!InsertUser
      <3> QED
        <4>1. who' = who /\ users' = users
            BY <2>1, <3>1, Zenon DEF Accts!Goto, Accts!db
        <4>2. \A q \in Requests : step'[q] \in Accts!Inserted => q = r \/ step[q] \in Accts!Inserted
            BY <3>1 DEF Accts!Goto
        <4> QED
            BY <2>1, <2>3, <4>1, <4>2, ClashSymmetric, Zenon DEF Accts!Unlocked, InsertsExclusive,
               Accts!Taken
    <2> QED
        BY <2>2, <2>3, Zenon
  <1>8. ASSUME NEW r \in Requests, Accts!InsertCredential(r) PROVE InsertsExclusive'
      BY <1>8, InsertsKept DEF Accts!InsertCredential, Accts!db, Accts!Goto, Accts!Inserted
  <1>9. ASSUME NEW r \in Requests, Accts!FindRole(r) PROVE InsertsExclusive'
      BY <1>9, InsertsKept, Zenon DEF Accts!FindRole, Accts!db, Accts!Goto, Accts!TypeOK, Accts!Inserted
  <1>10. ASSUME NEW r \in Requests, Accts!InsertRole(r) PROVE InsertsExclusive'
      BY <1>10, InsertsKept DEF Accts!InsertRole, Accts!db, Accts!Inserted
  <1>11. ASSUME NEW r \in Requests, Accts!AcquireTimeout(r) PROVE InsertsExclusive'
      BY <1>11, InsertsKept, Zenon DEF Accts!AcquireTimeout, Accts!db, Accts!Goto, Accts!End,
         Accts!TypeOK, Accts!Inserted
  <1>12. ASSUME NEW r \in Requests, Accts!InsertToken(r) PROVE InsertsExclusive'
      BY <1>12, InsertsKept DEF Accts!InsertToken, Accts!db, Accts!Goto, Accts!Inserted
  <1>13. ASSUME NEW r \in Requests, Accts!Commit(r) PROVE InsertsExclusive'
    <2>1. step[r] = "commit" /\ Accts!End(r) /\ users' = users \cup {who[r]}
        BY <1>13, Zenon DEF Accts!Commit
    <2>2. who' = who /\ step[r] \in Accts!Inserted
        BY <2>1, Zenon DEF Accts!End, Accts!Inserted
    <2>3. \A q \in Requests : step'[q] \in Accts!Inserted => q # r /\ step[q] \in Accts!Inserted
        BY <2>1, Zenon DEF Accts!End, Accts!TypeOK, Accts!Inserted
    <2> QED
        BY <2>1, <2>2, <2>3, Zenon DEF InsertsExclusive, Accts!Taken
  <1>14. ASSUME NEW r \in Requests, Accts!BeginVerifyTx(r) PROVE InsertsExclusive'
      BY <1>14, InsertsKept DEF Accts!BeginVerifyTx, Accts!db, Accts!Goto, Accts!Inserted
  <1>15. ASSUME NEW r \in Requests, Accts!Verify(r) PROVE InsertsExclusive'
      BY <1>15, InsertsKept DEF Accts!Verify, Accts!End, Accts!Inserted
  <1>16. ASSUME NEW r \in Requests, Accts!Persist(r) PROVE InsertsExclusive'
    <2>1. step[r] = "persist" /\ Accts!Unlocked(who[r])
        BY <1>16, Zenon DEF Accts!Persist
    <2>2. CASE Accts!Taken(who[r])
      <3>1. Accts!End(r) /\ UNCHANGED users
          BY <1>16, <2>2, Zenon DEF Accts!Persist
      <3> QED
          BY <2>1, <3>1, InsertsKept DEF Accts!End, Accts!Inserted
    <2>3. CASE ~Accts!Taken(who[r])
      <3>1. /\ users' = users \cup {who[r]} /\ UNCHANGED who
            /\ step' = [step EXCEPT ![r] = "persistCredential"]
          BY <1>16, <2>3, Zenon DEF Accts!Persist
      <3> QED
        <4>1. \A q \in Requests : step'[q] \in Accts!Inserted => step[q] \in Accts!Inserted
            BY <3>1 DEF Accts!Inserted
        <4> QED
            BY <2>1, <3>1, <4>1, ClashSymmetric, Zenon DEF Accts!Unlocked, InsertsExclusive, Accts!Taken
    <2> QED
        BY <2>2, <2>3, Zenon
  <1>17. ASSUME NEW r \in Requests, Accts!PersistCredential(r) PROVE InsertsExclusive'
      BY <1>17, InsertsKept, Zenon DEF Accts!PersistCredential, Accts!Goto, Accts!End, Accts!TypeOK,
         Accts!Inserted
  <1>18. ASSUME NEW r \in Requests, Accts!AssignRole(r) PROVE InsertsExclusive'
      BY <1>18, InsertsKept DEF Accts!AssignRole, Accts!End, Accts!Inserted
  <1>19. ASSUME NEW r \in Requests, Accts!Update(r) PROVE InsertsExclusive'
      BY <1>19, InsertsKept DEF Accts!Update, Accts!End, Accts!Inserted
  <1>20. ASSUME NEW r \in Requests, Accts!Abort(r) PROVE InsertsExclusive'
      BY <1>20, InsertsKept DEF Accts!Abort, Accts!db, Accts!End, Accts!Inserted
  <1>21. ASSUME NEW i \in Idents, Accts!Delete(i) PROVE InsertsExclusive'
      BY <1>21, InsertsKept, Zenon DEF Accts!Delete
  <1>22. ASSUME NEW i \in Idents, Accts!AssignRoleTo(i) PROVE InsertsExclusive'
      BY <1>22, InsertsKept, Zenon DEF Accts!AssignRoleTo, Accts!local
  <1>23. ASSUME NEW i \in Idents, Accts!RevokeRole(i) PROVE InsertsExclusive'
      BY <1>23, InsertsKept, Zenon DEF Accts!RevokeRole, Accts!local
  <1>24. ASSUME NEW i \in Idents, Accts!Expire(i) PROVE InsertsExclusive'
      BY <1>24, InsertsKept, Zenon DEF Accts!Expire, Accts!local
  <1> QED
      BY <1>1, <1>2, <1>3, <1>4, <1>5, <1>6, <1>7, <1>8, <1>9, <1>10, <1>11, <1>12, <1>13,
         <1>14, <1>15, <1>16, <1>17, <1>18, <1>19, <1>20, <1>21, <1>22, <1>23, <1>24, Zenon DEF
         Accts!Next, Accts!Begin, Accts!Step

\* So no COMMIT makes two accounts share one.
LEMMA AccountsUniqueStep ==
    Accts!TypeOK /\ InsertsExclusive /\ Accts!AccountsUnique /\ Accts!Next => Accts!AccountsUnique'
  <1> SUFFICES ASSUME Accts!TypeOK, InsertsExclusive, Accts!AccountsUnique, Accts!Next
               PROVE  Accts!AccountsUnique'
      BY Zenon
  <1>1. CASE users' \subseteq users
      BY <1>1, Zenon DEF Accts!AccountsUnique
  <1>2. ASSUME NEW i, users' = users \cup {i}, ~Accts!Taken(i) PROVE Accts!AccountsUnique'
      BY <1>2, ClashSymmetric, Zenon DEF Accts!AccountsUnique, Accts!Taken
  <1>3. ASSUME NEW r \in Requests, Accts!Commit(r) PROVE Accts!AccountsUnique'
    <2>1. step[r] \in Accts!Inserted /\ users' = users \cup {who[r]}
        BY <1>3, Zenon DEF Accts!Commit, Accts!Inserted
    <2> QED
        BY <1>2, <2>1, Zenon DEF InsertsExclusive
  <1>4. ASSUME NEW r \in Requests, Accts!Persist(r) PROVE Accts!AccountsUnique'
    <2>1. CASE Accts!Taken(who[r])
        BY <1>1, <1>4, <2>1, Zenon DEF Accts!Persist
    <2>2. CASE ~Accts!Taken(who[r])
        BY <1>2, <1>4, <2>2, Zenon DEF Accts!Persist
    <2> QED
        BY <2>1, <2>2, Zenon
  <1>5. ASSUME NEW r \in Requests, Accts!Begin(r) PROVE users' \subseteq users
      BY <1>5, Zenon DEF Accts!Begin, Accts!BeginSignup, Accts!BeginVerify, Accts!BeginCreate,
         Accts!BeginUpdate, Accts!Begins, Accts!db
  <1>6. ASSUME NEW r \in Requests, Accts!Step(r)
        PROVE  users' \subseteq users \/ Accts!Commit(r) \/ Accts!Persist(r)
      BY <1>6, Zenon DEF Accts!Step, Accts!BeginTx, Accts!CheckTaken, Accts!InsertUser,
         Accts!InsertCredential, Accts!FindRole, Accts!InsertRole, Accts!AcquireTimeout,
         Accts!InsertToken, Accts!BeginVerifyTx, Accts!Verify, Accts!PersistCredential,
         Accts!AssignRole, Accts!Update, Accts!db
  <1>7. ASSUME NEW r \in Requests, Accts!Abort(r) PROVE users' \subseteq users
      BY <1>7, Zenon DEF Accts!Abort, Accts!db
  <1>8. ASSUME NEW i \in Idents,
               Accts!Delete(i) \/ Accts!AssignRoleTo(i) \/ Accts!RevokeRole(i) \/ Accts!Expire(i)
        PROVE  users' \subseteq users
      BY <1>8, Zenon DEF Accts!Delete, Accts!AssignRoleTo, Accts!RevokeRole, Accts!Expire
  <1> QED
      BY <1>1, <1>3, <1>4, <1>5, <1>6, <1>7, <1>8, Zenon DEF Accts!Next

\* The order of the statements of signup and create_user.
LEMMA AccountsCompleting == Accts!TypeOK /\ Completing /\ Accts!Next => Completing'
  <1> SUFFICES ASSUME Accts!TypeOK, Completing, Accts!Next PROVE Completing'
      BY Zenon
  <1>1. ASSUME NEW r \in Requests, Accts!BeginSignup(r) PROVE Completing'
      BY <1>1 DEF Accts!BeginSignup, Accts!db, Accts!past, Accts!Begins, Completing
  <1>2. ASSUME NEW r \in Requests, Accts!BeginVerify(r) PROVE Completing'
      BY <1>2 DEF Accts!BeginVerify, Accts!db, Accts!past, Accts!Begins, Completing
  <1>3. ASSUME NEW r \in Requests, Accts!BeginCreate(r) PROVE Completing'
      BY <1>3 DEF Accts!BeginCreate, Accts!db, Accts!past, Accts!Begins, Completing
  <1>4. ASSUME NEW r \in Requests, Accts!BeginUpdate(r) PROVE Completing'
    <2>1. /\ UNCHANGED <<Accts!db, Accts!past>> /\ step[r] = "idle"
          /\ \E label \in {"write", "writeBack"} : step' = [step EXCEPT ![r] = label]
        BY <1>4, Zenon DEF Accts!BeginUpdate, Accts!Begins
    <2>2. \A q \in Requests \ {r} : flag'[q] = flag[q] /\ kept'[q] = kept[q] /\ who'[q] = who[q]
        BY <1>4, Zenon DEF Accts!BeginUpdate, Accts!Begins, Accts!TypeOK
    <2> QED
        BY <2>1, <2>2 DEF Accts!db, Accts!past, Completing
  <1>5. ASSUME NEW r \in Requests, Accts!BeginTx(r) PROVE Completing'
      BY <1>5 DEF Accts!BeginTx, Accts!db, Accts!past, Accts!Goto, Completing
  <1>6. ASSUME NEW r \in Requests, Accts!CheckTaken(r) PROVE Completing'
      BY <1>6 DEF Accts!CheckTaken, Accts!db, Accts!past, Accts!Goto, Accts!End, Accts!TypeOK,
         Completing
  <1>7. ASSUME NEW r \in Requests, Accts!InsertUser(r) PROVE Completing'
      BY <1>7 DEF Accts!InsertUser, Accts!db, Accts!past, Accts!Goto, Accts!End, Accts!TypeOK,
         Completing
  <1>8. ASSUME NEW r \in Requests, Accts!InsertCredential(r) PROVE Completing'
      BY <1>8 DEF Accts!InsertCredential, Accts!db, Accts!past, Accts!Goto, Completing
  <1>9. ASSUME NEW r \in Requests, Accts!FindRole(r) PROVE Completing'
    <2>1. CASE Accts!Goto(r, "role") /\ UNCHANGED starving
        BY <1>9, <2>1 DEF Accts!FindRole, Accts!Goto, Accts!db, Completing
    <2>2. CASE Accts!Goto(r, "token") /\ starving' = starving \cup {r}
        BY <1>9, <2>2 DEF Accts!FindRole, Accts!Goto, Accts!db, Completing
    <2> QED
        BY <1>9, <2>1, <2>2, Zenon DEF Accts!FindRole
  <1>10. ASSUME NEW r \in Requests, Accts!InsertRole(r) PROVE Completing'
      BY <1>10, Zenon DEF Accts!InsertRole, Accts!db, Accts!past, Accts!TypeOK, Completing
  <1>11. ASSUME NEW r \in Requests, Accts!AcquireTimeout(r) PROVE Completing'
      BY <1>11 DEF Accts!AcquireTimeout, Accts!db, Accts!Goto, Accts!End, Accts!TypeOK, Completing
  <1>12. ASSUME NEW r \in Requests, Accts!InsertToken(r) PROVE Completing'
      BY <1>12, Zenon DEF Accts!InsertToken, Accts!db, Accts!past, Accts!Goto, Completing, Accts!TypeOK
  <1>13. ASSUME NEW r \in Requests, Accts!Commit(r) PROVE Completing'
      BY <1>13, Zenon DEF Accts!Commit, Accts!End, Accts!TypeOK, Completing
  <1>14. ASSUME NEW r \in Requests, Accts!BeginVerifyTx(r) PROVE Completing'
      BY <1>14, Zenon DEF Accts!BeginVerifyTx, Accts!db, Accts!past, Accts!Goto, Completing, Accts!TypeOK
  <1>15. ASSUME NEW r \in Requests, Accts!Verify(r) PROVE Completing'
      BY <1>15 DEF Accts!Verify, Accts!past, Accts!End, Completing
  <1>16. ASSUME NEW r \in Requests, Accts!Persist(r) PROVE Completing'
    <2>1. step[r] = "persist" /\ UNCHANGED <<creds, starving>>
        BY <1>16, Zenon DEF Accts!Persist
    <2>2. CASE Accts!End(r)
        BY <2>1, <2>2 DEF Accts!End, Completing
    <2>3. CASE /\ step' = [step EXCEPT ![r] = "persistCredential"]
               /\ kept' = [kept EXCEPT ![r] = TRUE] /\ UNCHANGED <<who, flag>>
        BY <2>1, <2>3 DEF Completing
    <2> QED
        BY <1>16, <2>2, <2>3, Zenon DEF Accts!Persist
  <1>17. ASSUME NEW r \in Requests, Accts!PersistCredential(r) PROVE Completing'
      BY <1>17 DEF Accts!PersistCredential, Accts!past, Accts!Goto, Accts!End, Accts!TypeOK,
         Completing
  <1>18. ASSUME NEW r \in Requests, Accts!AssignRole(r) PROVE Completing'
      BY <1>18 DEF Accts!AssignRole, Accts!End, Completing
  <1>19. ASSUME NEW r \in Requests, Accts!Update(r) PROVE Completing'
      BY <1>19 DEF Accts!Update, Accts!End, Completing
  <1>20. ASSUME NEW r \in Requests, Accts!Abort(r) PROVE Completing'
      BY <1>20, Zenon DEF Accts!Abort, Accts!db, Accts!End, Accts!TypeOK, Completing
  <1>21. ASSUME NEW i \in Idents, Accts!Delete(i) PROVE Completing'
      BY <1>21, Zenon DEF Accts!Delete, Accts!db, Accts!past, Accts!local, Accts!TypeOK, Completing
  <1>22. ASSUME NEW i \in Idents, Accts!AssignRoleTo(i) PROVE Completing'
      BY <1>22, Zenon DEF Accts!AssignRoleTo, Accts!local, Completing
  <1>23. ASSUME NEW i \in Idents, Accts!RevokeRole(i) PROVE Completing'
      BY <1>23, Zenon DEF Accts!RevokeRole, Accts!local, Completing
  <1>24. ASSUME NEW i \in Idents, Accts!Expire(i) PROVE Completing'
      BY <1>24, Zenon DEF Accts!Expire, Accts!past, Accts!local, Completing
  <1> QED
      BY <1>1, <1>2, <1>3, <1>4, <1>5, <1>6, <1>7, <1>8, <1>9, <1>10, <1>11, <1>12, <1>13,
         <1>14, <1>15, <1>16, <1>17, <1>18, <1>19, <1>20, <1>21, <1>22, <1>23, <1>24, Zenon DEF
         Accts!Next, Accts!Begin, Accts!Step

\* So an account comes with its credential and its role, or with the reason why not.
LEMMA AccountsCompleteStep ==
    Accts!TypeOK /\ Completing /\ Accts!AccountsComplete /\ Accts!Next => Accts!AccountsComplete'
  <1> SUFFICES ASSUME Accts!TypeOK, Completing, Accts!AccountsComplete, Accts!Next
               PROVE  Accts!AccountsComplete'
      BY Zenon
  <1>1. ASSUME NEW r \in Requests, Accts!BeginSignup(r) PROVE Accts!AccountsComplete'
      BY <1>1, Zenon DEF Accts!BeginSignup, Accts!db, Accts!past, Accts!Begins, Accts!AccountsComplete
  <1>2. ASSUME NEW r \in Requests, Accts!BeginVerify(r) PROVE Accts!AccountsComplete'
      BY <1>2, Zenon DEF Accts!BeginVerify, Accts!db, Accts!past, Accts!Begins, Accts!AccountsComplete
  <1>3. ASSUME NEW r \in Requests, Accts!BeginCreate(r) PROVE Accts!AccountsComplete'
      BY <1>3, Zenon DEF Accts!BeginCreate, Accts!db, Accts!past, Accts!Begins, Accts!AccountsComplete
  <1>4. ASSUME NEW r \in Requests, Accts!BeginUpdate(r) PROVE Accts!AccountsComplete'
      BY <1>4, Zenon DEF Accts!BeginUpdate, Accts!db, Accts!past, Accts!Begins, Accts!AccountsComplete
  <1>5. ASSUME NEW r \in Requests, Accts!BeginTx(r) PROVE Accts!AccountsComplete'
      BY <1>5, Zenon DEF Accts!BeginTx, Accts!db, Accts!past, Accts!AccountsComplete
  <1>6. ASSUME NEW r \in Requests, Accts!CheckTaken(r) PROVE Accts!AccountsComplete'
      BY <1>6, Zenon DEF Accts!CheckTaken, Accts!db, Accts!past, Accts!AccountsComplete
  <1>7. ASSUME NEW r \in Requests, Accts!InsertUser(r) PROVE Accts!AccountsComplete'
      BY <1>7, Zenon DEF Accts!InsertUser, Accts!db, Accts!past, Accts!AccountsComplete
  <1>8. ASSUME NEW r \in Requests, Accts!InsertCredential(r) PROVE Accts!AccountsComplete'
      BY <1>8, Zenon DEF Accts!InsertCredential, Accts!db, Accts!past, Accts!AccountsComplete
  <1>9. ASSUME NEW r \in Requests, Accts!FindRole(r) PROVE Accts!AccountsComplete'
      BY <1>9, Zenon DEF Accts!FindRole, Accts!db, Accts!AccountsComplete
  <1>10. ASSUME NEW r \in Requests, Accts!InsertRole(r) PROVE Accts!AccountsComplete'
      BY <1>10, Zenon DEF Accts!InsertRole, Accts!db, Accts!past, Accts!AccountsComplete
  <1>11. ASSUME NEW r \in Requests, Accts!AcquireTimeout(r) PROVE Accts!AccountsComplete'
      BY <1>11, Zenon DEF Accts!AcquireTimeout, Accts!db, Accts!AccountsComplete
  <1>12. ASSUME NEW r \in Requests, Accts!InsertToken(r) PROVE Accts!AccountsComplete'
      BY <1>12, Zenon DEF Accts!InsertToken, Accts!db, Accts!past, Accts!AccountsComplete
  <1>13. ASSUME NEW r \in Requests, Accts!Commit(r) PROVE Accts!AccountsComplete'
      BY <1>13, Zenon DEF Accts!Commit, Completing, Accts!AccountsComplete
  <1>14. ASSUME NEW r \in Requests, Accts!BeginVerifyTx(r) PROVE Accts!AccountsComplete'
      BY <1>14, Zenon DEF Accts!BeginVerifyTx, Accts!db, Accts!past, Accts!AccountsComplete
  <1>15. ASSUME NEW r \in Requests, Accts!Verify(r) PROVE Accts!AccountsComplete'
      BY <1>15, Zenon DEF Accts!Verify, Accts!past, Accts!AccountsComplete
  <1>16. ASSUME NEW r \in Requests, Accts!Persist(r) PROVE Accts!AccountsComplete'
      BY <1>16, Zenon DEF Accts!Persist, Accts!AccountsComplete
  <1>17. ASSUME NEW r \in Requests, Accts!PersistCredential(r) PROVE Accts!AccountsComplete'
      BY <1>17, Zenon DEF Accts!PersistCredential, Accts!past, Accts!AccountsComplete
  <1>18. ASSUME NEW r \in Requests, Accts!AssignRole(r) PROVE Accts!AccountsComplete'
      BY <1>18, Zenon DEF Accts!AssignRole, Completing, Accts!AccountsComplete
  <1>19. ASSUME NEW r \in Requests, Accts!Update(r) PROVE Accts!AccountsComplete'
      BY <1>19, Zenon DEF Accts!Update, Accts!AccountsComplete
  <1>20. ASSUME NEW r \in Requests, Accts!Abort(r) PROVE Accts!AccountsComplete'
      BY <1>20, Zenon DEF Accts!Abort, Accts!db, Accts!AccountsComplete
  <1>21. ASSUME NEW i \in Idents, Accts!Delete(i) PROVE Accts!AccountsComplete'
      BY <1>21, Zenon DEF Accts!Delete, Accts!AccountsComplete
  <1>22. ASSUME NEW i \in Idents, Accts!AssignRoleTo(i) PROVE Accts!AccountsComplete'
      BY <1>22, Zenon DEF Accts!AssignRoleTo, Accts!AccountsComplete
  <1>23. ASSUME NEW i \in Idents, Accts!RevokeRole(i) PROVE Accts!AccountsComplete'
      BY <1>23, Zenon DEF Accts!RevokeRole, Accts!AccountsComplete
  <1>24. ASSUME NEW i \in Idents, Accts!Expire(i) PROVE Accts!AccountsComplete'
      BY <1>24, Zenon DEF Accts!Expire, Accts!past, Accts!AccountsComplete
  <1> QED
      BY <1>1, <1>2, <1>3, <1>4, <1>5, <1>6, <1>7, <1>8, <1>9, <1>10, <1>11, <1>12, <1>13,
         <1>14, <1>15, <1>16, <1>17, <1>18, <1>19, <1>20, <1>21, <1>22, <1>23, <1>24, Zenon DEF
         Accts!Next, Accts!Begin, Accts!Step

\* verify_email marks the account in the transaction that consumes the token.
LEMMA AccountsConsumed ==
    Accts!TypeOK /\ Accts!ConsumedMeansVerified /\ Accts!Next => Accts!ConsumedMeansVerified'
  <1> SUFFICES ASSUME Accts!TypeOK, Accts!ConsumedMeansVerified, Accts!Next
               PROVE  Accts!ConsumedMeansVerified'
      BY Zenon
  <1>1. ASSUME NEW r \in Requests, Accts!BeginSignup(r) PROVE Accts!ConsumedMeansVerified'
      BY <1>1, Zenon DEF Accts!BeginSignup, Accts!db, Accts!past, Accts!Begins,
         Accts!ConsumedMeansVerified
  <1>2. ASSUME NEW r \in Requests, Accts!BeginVerify(r) PROVE Accts!ConsumedMeansVerified'
      BY <1>2, Zenon DEF Accts!BeginVerify, Accts!db, Accts!past, Accts!Begins,
         Accts!ConsumedMeansVerified
  <1>3. ASSUME NEW r \in Requests, Accts!BeginCreate(r) PROVE Accts!ConsumedMeansVerified'
      BY <1>3, Zenon DEF Accts!BeginCreate, Accts!db, Accts!past, Accts!Begins,
         Accts!ConsumedMeansVerified
  <1>4. ASSUME NEW r \in Requests, Accts!BeginUpdate(r) PROVE Accts!ConsumedMeansVerified'
      BY <1>4, Zenon DEF Accts!BeginUpdate, Accts!db, Accts!past, Accts!Begins,
         Accts!ConsumedMeansVerified
  <1>5. ASSUME NEW r \in Requests, Accts!BeginTx(r) PROVE Accts!ConsumedMeansVerified'
      BY <1>5, Zenon DEF Accts!BeginTx, Accts!db, Accts!past, Accts!ConsumedMeansVerified
  <1>6. ASSUME NEW r \in Requests, Accts!CheckTaken(r) PROVE Accts!ConsumedMeansVerified'
      BY <1>6, Zenon DEF Accts!CheckTaken, Accts!db, Accts!past, Accts!ConsumedMeansVerified
  <1>7. ASSUME NEW r \in Requests, Accts!InsertUser(r) PROVE Accts!ConsumedMeansVerified'
      BY <1>7, Zenon DEF Accts!InsertUser, Accts!db, Accts!past, Accts!ConsumedMeansVerified
  <1>8. ASSUME NEW r \in Requests, Accts!InsertCredential(r) PROVE Accts!ConsumedMeansVerified'
      BY <1>8, Zenon DEF Accts!InsertCredential, Accts!db, Accts!past, Accts!ConsumedMeansVerified
  <1>9. ASSUME NEW r \in Requests, Accts!FindRole(r) PROVE Accts!ConsumedMeansVerified'
      BY <1>9, Zenon DEF Accts!FindRole, Accts!db, Accts!ConsumedMeansVerified
  <1>10. ASSUME NEW r \in Requests, Accts!InsertRole(r) PROVE Accts!ConsumedMeansVerified'
      BY <1>10, Zenon DEF Accts!InsertRole, Accts!db, Accts!past, Accts!ConsumedMeansVerified
  <1>11. ASSUME NEW r \in Requests, Accts!AcquireTimeout(r) PROVE Accts!ConsumedMeansVerified'
      BY <1>11, Zenon DEF Accts!AcquireTimeout, Accts!db, Accts!ConsumedMeansVerified
  <1>12. ASSUME NEW r \in Requests, Accts!InsertToken(r) PROVE Accts!ConsumedMeansVerified'
      BY <1>12, Zenon DEF Accts!InsertToken, Accts!db, Accts!past, Accts!ConsumedMeansVerified
  <1>13. ASSUME NEW r \in Requests, Accts!Commit(r) PROVE Accts!ConsumedMeansVerified'
      BY <1>13 DEF Accts!Commit, Accts!ConsumedMeansVerified
  <1>14. ASSUME NEW r \in Requests, Accts!BeginVerifyTx(r) PROVE Accts!ConsumedMeansVerified'
      BY <1>14, Zenon DEF Accts!BeginVerifyTx, Accts!db, Accts!past, Accts!ConsumedMeansVerified
  <1>15. ASSUME NEW r \in Requests, Accts!Verify(r) PROVE Accts!ConsumedMeansVerified'
      BY <1>15, Zenon DEF Accts!Verify, Accts!past, Accts!TypeOK, Accts!ConsumedMeansVerified
  <1>16. ASSUME NEW r \in Requests, Accts!Persist(r) PROVE Accts!ConsumedMeansVerified'
      BY <1>16, Zenon DEF Accts!Persist, Accts!ConsumedMeansVerified
  <1>17. ASSUME NEW r \in Requests, Accts!PersistCredential(r) PROVE Accts!ConsumedMeansVerified'
      BY <1>17, Zenon DEF Accts!PersistCredential, Accts!past, Accts!ConsumedMeansVerified
  <1>18. ASSUME NEW r \in Requests, Accts!AssignRole(r) PROVE Accts!ConsumedMeansVerified'
      BY <1>18, Zenon DEF Accts!AssignRole, Accts!ConsumedMeansVerified
  <1>19. ASSUME NEW r \in Requests, Accts!Update(r) PROVE Accts!ConsumedMeansVerified'
      BY <1>19, Zenon DEF Accts!Update, Accts!ConsumedMeansVerified
  <1>20. ASSUME NEW r \in Requests, Accts!Abort(r) PROVE Accts!ConsumedMeansVerified'
      BY <1>20, Zenon DEF Accts!Abort, Accts!db, Accts!ConsumedMeansVerified
  <1>21. ASSUME NEW i \in Idents, Accts!Delete(i) PROVE Accts!ConsumedMeansVerified'
      BY <1>21, Zenon DEF Accts!Delete, Accts!TypeOK, Accts!ConsumedMeansVerified
  <1>22. ASSUME NEW i \in Idents, Accts!AssignRoleTo(i) PROVE Accts!ConsumedMeansVerified'
      BY <1>22, Zenon DEF Accts!AssignRoleTo, Accts!ConsumedMeansVerified
  <1>23. ASSUME NEW i \in Idents, Accts!RevokeRole(i) PROVE Accts!ConsumedMeansVerified'
      BY <1>23, Zenon DEF Accts!RevokeRole, Accts!ConsumedMeansVerified
  <1>24. ASSUME NEW i \in Idents, Accts!Expire(i) PROVE Accts!ConsumedMeansVerified'
      BY <1>24 DEF Accts!Expire, Accts!past, Accts!ConsumedMeansVerified
  <1> QED
      BY <1>1, <1>2, <1>3, <1>4, <1>5, <1>6, <1>7, <1>8, <1>9, <1>10, <1>11, <1>12, <1>13,
         <1>14, <1>15, <1>16, <1>17, <1>18, <1>19, <1>20, <1>21, <1>22, <1>23, <1>24, Zenon DEF
         Accts!Next, Accts!Begin, Accts!Step

\* The invariant of the accounts is inductive.
LEMMA AccountsNext == AccountsInv /\ [Accts!Next]_(Accts!vars) => AccountsInv'
  <1> SUFFICES ASSUME AccountsInv, [Accts!Next]_(Accts!vars) PROVE AccountsInv'
      BY Zenon
  <1>1. CASE Accts!Next
      BY <1>1, AccountsTypes, AccountsInserts, AccountsUniqueStep, AccountsCompleting,
         AccountsCompleteStep, AccountsConsumed, Zenon DEF AccountsInv
  <1>2. CASE UNCHANGED Accts!vars
    <2>1. UNCHANGED Accts!db /\ UNCHANGED Accts!local /\ UNCHANGED Accts!past
        BY <1>2, Zenon DEF Accts!vars
    <2>2. Accts!TypeOK'
        BY <2>1, Zenon DEF AccountsInv, Accts!TypeOK, Accts!db, Accts!local, Accts!past
    <2>3. InsertsExclusive' /\ Completing'
        BY <2>1, Zenon DEF AccountsInv, InsertsExclusive, Accts!Taken, Completing, Accts!db,
           Accts!local, Accts!past
    <2>4. Accts!AccountsUnique' /\ Accts!AccountsComplete' /\ Accts!ConsumedMeansVerified'
        BY <2>1, Zenon DEF AccountsInv, Accts!AccountsUnique, Accts!AccountsComplete,
           Accts!ConsumedMeansVerified, Accts!db, Accts!past
    <2> QED
        BY <2>2, <2>3, <2>4, Zenon DEF AccountsInv
  <1> QED
      BY <1>1, <1>2, Zenon

-----------------------------------------------------------------------------
(* The walks.                                                               *)

\* A role is among its own ancestors, with every role its parent is, and no closed set
\* that has the role leaves out one of them.
LEMMA AncestorsLeast ==
    ASSUME NEW f \in Walks!ParentMaps, NEW p \in Roles
    PROVE  /\ p \in Walks!Ancestors(f, p) /\ Walks!Ancestors(f, p) \subseteq Roles
           /\ \A x \in Walks!Ancestors(f, p) :
                 f[x] = NoRole \/ f[x] \in Walks!Ancestors(f, p)
           /\ \A S \in SUBSET Roles :
                 p \in S /\ Walks!Closed(f, S) => Walks!Ancestors(f, p) \subseteq S
  <1>1. ASSUME NEW x \in Walks!Ancestors(f, p), f[x] # NoRole
        PROVE  f[x] \in Walks!Ancestors(f, p)
    <2>1. x \in Roles /\ f[x] \in Roles
        BY <1>1, Zenon DEF Walks!Ancestors, Walks!ParentMaps
    <2>2. ASSUME NEW S \in SUBSET Roles, p \in S, Walks!Closed(f, S) PROVE f[x] \in S
        BY <1>1, <2>2, Zenon DEF Walks!Ancestors, Walks!Closed
    <2> QED
        BY <2>1, <2>2, Zenon DEF Walks!Ancestors
  <1> QED
      BY <1>1, Zenon DEF Walks!Ancestors

\* The ancestors of a set of roles.
Above(f, S) == UNION {Walks!Ancestors(f, d) : d \in S}

\* They are closed too.
LEMMA AboveClosed ==
    ASSUME NEW f \in Walks!ParentMaps, NEW S \in SUBSET Roles
    PROVE  /\ S \subseteq Above(f, S) /\ Above(f, S) \subseteq Roles
           /\ \A x \in Above(f, S) : f[x] = NoRole \/ f[x] \in Above(f, S)
           /\ \A T \in SUBSET Roles :
                 S \subseteq T /\ Walks!Closed(f, T) => Above(f, S) \subseteq T
  <1>1. \A x : x \in Above(f, S) <=> \E d \in S : x \in Walks!Ancestors(f, d)
      BY Zenon DEF Above
  <1>2. S \subseteq Above(f, S) /\ Above(f, S) \subseteq Roles
      BY <1>1, AncestorsLeast, Zenon
  <1>3. ASSUME NEW x \in Above(f, S) PROVE f[x] = NoRole \/ f[x] \in Above(f, S)
    <2>1. PICK d \in S : x \in Walks!Ancestors(f, d)
        BY <1>1, <1>3, Zenon
    <2>2. f[x] = NoRole \/ f[x] \in Walks!Ancestors(f, d)
        BY <2>1, AncestorsLeast, Zenon
    <2> QED
        BY <1>1, <2>2, Zenon
  <1>4. ASSUME NEW T \in SUBSET Roles, S \subseteq T, Walks!Closed(f, T)
        PROVE  Above(f, S) \subseteq T
    <2>1. ASSUME NEW d \in S PROVE Walks!Ancestors(f, d) \subseteq T
        BY <1>4, <2>1, AncestorsLeast, Zenon
    <2> QED
        BY <1>1, <2>1, Zenon
  <1> QED
      BY <1>2, <1>3, <1>4, Zenon

\* Nothing is left of a walk that has returned.
Returned ==
    walk = "idle" =>
        cursor = NoRole /\ up = NoRole /\ todo = {} /\ visited = {} /\ sink = <<>>

\* The loop of set_parent, between two turns: what was visited is a path from the new
\* parent to the cursor, all of it above the new parent, without the child.
Climbing ==
    walk \in {"check", "allowed", "refused"} =>
        /\ moving \notin visited
        /\ \A x \in visited : graph[x] \in visited \cup {cursor}
        /\ visited = {} \/ \E x \in visited : graph[x] = cursor
        /\ \A p \in from :
              /\ p \in visited \cup {cursor}
              /\ visited \cup {cursor} \subseteq Walks!Ancestors(graph, p) \cup {NoRole}
        /\ walk = "allowed" => cursor = NoRole
        /\ walk = "refused" => cursor # NoRole /\ cursor \in visited \cup {moving}

\* Where the walk of the effective names may lead.
Reach == Above(graph, from \cup ({older[x] : x \in from} \ {NoRole}))

\* walk_ancestors, between two calls: every assigned role was visited or is yet to come,
\* each name was collected once, and nothing is out of reach.
Collecting ==
    walk \in {"names", "listed"} =>
        /\ from \subseteq visited \cup {cursor} \cup todo /\ todo \subseteq from
        /\ visited = Walks!Names
        /\ \A i, j \in 1..Len(sink) : sink[i] = sink[j] => i = j
        /\ visited \cup {cursor, up} \subseteq Reach \cup {NoRole}
        /\ walk = "listed" => cursor = NoRole /\ todo = {}

\* With one state of the table behind both SELECTs, what was visited leads to what was
\* visited or to the cursor.
CollectingAll ==
    walk \in {"names", "listed"} /\ older = graph =>
        /\ cursor # NoRole => up = graph[cursor]
        /\ \A x \in visited : graph[x] \in visited \cup {cursor, NoRole}
        /\ visited \cup {cursor} \subseteq Above(graph, from) \cup {NoRole}

WalkInv == Walks!TypeOK /\ Returned /\ Climbing /\ Collecting /\ CollectingAll

\* No walk runs at first.
LEMMA WalkInit == Walks!Init => WalkInv
  <1> SUFFICES ASSUME Walks!Init PROVE WalkInv
      BY Zenon
  <1>1. Walks!TypeOK
      BY DEF Walks!Init, Walks!TypeOK, Walks!Rootless, Walks!ParentMaps
  <1> QED
      BY <1>1, Zenon DEF Walks!Init, WalkInv, Returned, Climbing, Collecting, CollectingAll

\* Types.
LEMMA WalkTypes == Walks!TypeOK /\ Walks!Next => Walks!TypeOK'
  <1> SUFFICES ASSUME Walks!TypeOK, Walks!Next PROVE Walks!TypeOK'
      BY Zenon
  <1> USE DEF Walks!TypeOK
  <1>1. ASSUME NEW f \in Walks!ParentMaps, NEW c \in Roles, NEW p \in Roles,
               Walks!BeginCheck(f, c, p)
        PROVE  Walks!TypeOK'
      BY <1>1 DEF Walks!BeginCheck
  <1>2. CASE Walks!Cycle \/ Walks!Root \/ Walks!Listed
      BY <1>2 DEF Walks!Cycle, Walks!Root, Walks!Listed
  <1>3. CASE Walks!Climb
      BY <1>3 DEF Walks!Climb, Walks!ParentMaps
  <1>4. ASSUME NEW direct \in SUBSET Roles, NEW old \in Walks!ParentMaps,
               NEW f \in Walks!ParentMaps, Walks!BeginNames(direct, old, f)
        PROVE  Walks!TypeOK'
      BY <1>4 DEF Walks!BeginNames
  <1>5. CASE Walks!NextDirect
      BY <1>5 DEF Walks!NextDirect, Walks!ParentMaps
  <1>6. CASE Walks!Visit
    <2>1. cursor \in Roles /\ Append(sink, cursor) \in Seq(Roles)
        BY <1>6 DEF Walks!Visit
    <2> QED
        BY <1>6, <2>1 DEF Walks!Visit, Walks!ParentMaps
  <1>7. CASE Walks!Return
      BY <1>7 DEF Walks!Return, Walks!Rootless, Walks!ParentMaps
  <1> QED
      BY <1>1, <1>2, <1>3, <1>4, <1>5, <1>6, <1>7, Zenon DEF Walks!Next, Walks!Step

\* The loop of set_parent.
LEMMA WalkClimbing == WalkInv /\ Walks!Next => Climbing'
  <1> SUFFICES ASSUME WalkInv, Walks!Next PROVE Climbing'
      BY Zenon
  <1>0. Walks!TypeOK /\ Returned /\ Climbing
      BY Zenon DEF WalkInv
  <1>1. ASSUME walk = "idle", NEW f \in Walks!ParentMaps, NEW c \in Roles, NEW p \in Roles,
               Walks!BeginCheck(f, c, p)
        PROVE  Climbing'
    <2>1. p \in Walks!Ancestors(f, p)
        BY AncestorsLeast, Zenon
    <2>2. /\ walk' = "check" /\ graph' = f /\ from' = {p} /\ moving' = c /\ cursor' = p
          /\ visited' = {}
        BY <1>0, <1>1, Zenon DEF Walks!BeginCheck, Returned
    <2> QED
        BY <2>1, <2>2 DEF Climbing
  <1>2. CASE Walks!Cycle
      BY <1>0, <1>2, Zenon DEF Walks!Cycle, Climbing
  <1>3. CASE Walks!Root
      BY <1>0, <1>3, Zenon DEF Walks!Root, Climbing
  <1>4. CASE Walks!Climb
    <2>1. /\ walk = "check" /\ cursor # NoRole /\ cursor # moving /\ cursor \notin visited
          /\ visited' = visited \cup {cursor} /\ cursor' = graph[cursor]
          /\ UNCHANGED <<walk, graph, from, moving>>
        BY <1>4, Zenon DEF Walks!Climb
    <2>2. /\ moving \notin visited
          /\ \A x \in visited : graph[x] \in visited \cup {cursor}
          /\ \A p \in from : /\ p \in visited \cup {cursor}
                             /\ visited \cup {cursor} \subseteq Walks!Ancestors(graph, p) \cup {NoRole}
        BY <1>0, <2>1, Zenon DEF Climbing
    <2>3. \A p \in from : graph[cursor] = NoRole \/ graph[cursor] \in Walks!Ancestors(graph, p)
      <3> SUFFICES ASSUME NEW p \in from
                   PROVE  graph[cursor] = NoRole \/ graph[cursor] \in Walks!Ancestors(graph, p)
          BY Zenon
      <3>1. p \in Roles /\ graph \in Walks!ParentMaps
          BY <1>0, Zenon DEF Walks!TypeOK
      <3>2. cursor \in Walks!Ancestors(graph, p)
          BY <2>1, <2>2, Zenon
      <3> QED
          BY <3>1, <3>2, AncestorsLeast, Zenon
    <2>4. \A x \in visited' : graph'[x] \in visited' \cup {cursor'}
        BY <2>1, <2>2, Zenon
    <2>5. \E x \in visited' : graph'[x] = cursor'
        BY <2>1, Zenon
    <2>6. \A p \in from' :
             /\ p \in visited' \cup {cursor'}
             /\ visited' \cup {cursor'} \subseteq Walks!Ancestors(graph', p) \cup {NoRole}
      <3>1. ASSUME NEW p \in from
            PROVE  /\ p \in visited \cup {cursor} \cup {graph[cursor]}
                   /\ visited \cup {cursor} \cup {graph[cursor]}
                         \subseteq Walks!Ancestors(graph, p) \cup {NoRole}
          BY <2>2, <2>3, <3>1, Zenon
      <3>2. visited' \cup {cursor'} = visited \cup {cursor} \cup {graph[cursor]}
          BY <2>1, Zenon
      <3>3. from' = from /\ graph' = graph
          BY <2>1, Zenon
      <3> QED
          BY <3>1, <3>2, <3>3, Zenon
    <2>7. moving' \notin visited' /\ walk' = "check"
        BY <2>1, <2>2, Zenon
    <2> QED
        BY <2>4, <2>5, <2>6, <2>7 DEF Climbing
  <1>5. CASE walk' \in {"idle", "names", "listed"}
      BY <1>5, Zenon DEF Climbing
  <1> QED
      BY <1>1, <1>2, <1>3, <1>4, <1>5, Zenon
      DEF Walks!Next, Walks!Step, Walks!BeginNames, Walks!NextDirect, Walks!Visit,
          Walks!Listed, Walks!Return

\* walk_ancestors, call by call.
LEMMA WalkCollecting == WalkInv /\ Walks!Next => Collecting'
  <1> SUFFICES ASSUME WalkInv, Walks!Next PROVE Collecting'
      BY Zenon
  <1>0. Walks!TypeOK /\ Returned /\ Collecting
      BY Zenon DEF WalkInv
  <1>1. ASSUME walk = "idle", NEW direct \in SUBSET Roles, NEW old \in Walks!ParentMaps,
               NEW f \in Walks!ParentMaps, Walks!BeginNames(direct, old, f)
        PROVE  Collecting'
    <2>1. /\ walk' = "names" /\ from' = direct /\ todo' = direct
          /\ cursor' = NoRole /\ up' = NoRole /\ visited' = {} /\ sink' = <<>>
        BY <1>0, <1>1, Zenon DEF Walks!BeginNames, Returned
    <2> QED
        BY <2>1 DEF Collecting, Walks!Names
  <1>2. CASE Walks!NextDirect
    <2>1. PICK d \in todo : todo' = todo \ {d} /\ cursor' = d /\ up' = older[d]
        BY <1>2, Zenon DEF Walks!NextDirect
    <2>2. /\ walk = "names" /\ cursor = NoRole
          /\ UNCHANGED <<walk, graph, older, from, visited, sink>>
        BY <1>2, Zenon DEF Walks!NextDirect
    <2>3. /\ from \subseteq visited \cup {cursor} \cup todo /\ todo \subseteq from
          /\ visited = Walks!Names
          /\ \A i, j \in 1..Len(sink) : sink[i] = sink[j] => i = j
          /\ visited \subseteq Reach \cup {NoRole}
        BY <1>0, <2>2, Zenon DEF Collecting
    <2>4. /\ from \subseteq Roles /\ older \in Walks!ParentMaps /\ graph \in Walks!ParentMaps
        BY <1>0, Zenon DEF Walks!TypeOK
    <2>5. d \in Reach /\ older[d] \in Reach \cup {NoRole}
      <3> DEFINE S == from \cup ({older[x] : x \in from} \ {NoRole})
      <3>1. S \in SUBSET Roles
          BY <2>4, Zenon DEF Walks!ParentMaps
      <3>2. d \in S /\ (older[d] = NoRole \/ older[d] \in S)
          BY <2>1, <2>3, Zenon
      <3>3. S \subseteq Above(graph, S)
          BY <2>4, <3>1, AboveClosed, Zenon
      <3> QED
          BY <3>2, <3>3, Zenon DEF Reach
    <2>6. NoRole \notin from
        BY <2>4, NoRoleAssumption, Zenon
    <2>7. Reach' = Reach /\ Walks!Names' = Walks!Names
        BY <2>2, Zenon DEF Reach, Walks!Names
    <2>8. from' \subseteq visited' \cup {cursor'} \cup todo' /\ todo' \subseteq from'
        BY <2>1, <2>2, <2>3, <2>6, Zenon
    <2>9. visited' \cup {cursor', up'} \subseteq Reach' \cup {NoRole}
        BY <2>1, <2>2, <2>3, <2>5, <2>7, Zenon
    <2> QED
        BY <2>2, <2>3, <2>7, <2>8, <2>9, Zenon DEF Collecting
  <1>3. CASE Walks!Visit
    <2>1. /\ walk = "names" /\ cursor # NoRole
          /\ UNCHANGED <<walk, graph, older, from, todo>>
        BY <1>3, Zenon DEF Walks!Visit
    <2>2. /\ from \subseteq visited \cup {cursor} \cup todo /\ todo \subseteq from
          /\ visited = Walks!Names
          /\ \A i, j \in 1..Len(sink) : sink[i] = sink[j] => i = j
          /\ visited \cup {cursor, up} \subseteq Reach \cup {NoRole}
        BY <1>0, <2>1, Zenon DEF Collecting
    <2>3. Reach' = Reach
        BY <2>1, Zenon DEF Reach
    <2>4. CASE cursor \in visited /\ cursor' = NoRole /\ up' = NoRole /\ UNCHANGED <<visited, sink>>
      <3>1. Walks!Names' = Walks!Names
          BY <2>4, Zenon DEF Walks!Names
      <3>2. from' \subseteq visited' \cup {cursor'} \cup todo' /\ todo' \subseteq from'
          BY <2>1, <2>2, <2>4, Zenon
      <3>3. visited' \cup {cursor', up'} \subseteq Reach' \cup {NoRole}
          BY <2>2, <2>3, <2>4, Zenon
      <3> QED
          BY <2>1, <2>2, <2>4, <3>1, <3>2, <3>3, Zenon DEF Collecting
    <2>5. CASE /\ cursor \notin visited
               /\ visited' = visited \cup {cursor} /\ sink' = Append(sink, cursor)
               /\ cursor' = up /\ up' = IF up = NoRole THEN NoRole ELSE graph[up]
      <3>1. sink \in Seq(Roles) /\ cursor \in Roles /\ up \in Roles \cup {NoRole}
            /\ graph \in Walks!ParentMaps /\ older \in Walks!ParentMaps /\ from \subseteq Roles
          BY <1>0, <2>1, Zenon DEF Walks!TypeOK
      <3>2. /\ Len(sink') = Len(sink) + 1 /\ Len(sink) \in Nat
            /\ \A i \in 1..Len(sink') : sink'[i] = IF i = Len(sink) + 1 THEN cursor ELSE sink[i]
          BY <2>5, <3>1
      <3>3. visited' = Walks!Names'
          BY <2>2, <2>5, <3>2 DEF Walks!Names
      <3>4. \A i, j \in 1..Len(sink') : sink'[i] = sink'[j] => i = j
        <4>1. \A i \in 1..Len(sink) : sink[i] # cursor
            BY <2>2, <2>5, Zenon DEF Walks!Names
        <4> QED
            BY <2>2, <3>2, <4>1
      <3>5. up = NoRole \/ graph[up] \in Reach \cup {NoRole}
        <4> DEFINE S == from \cup ({older[x] : x \in from} \ {NoRole})
        <4>1. S \in SUBSET Roles
            BY <3>1, Zenon DEF Walks!ParentMaps
        <4>2. up = NoRole \/ up \in Above(graph, S)
            BY <2>2, Zenon DEF Reach
        <4> HIDE DEF S
        <4>3. up = NoRole \/ graph[up] \in Above(graph, S) \cup {NoRole}
            BY <3>1, <4>1, <4>2, AboveClosed, Zenon
        <4> QED
            BY <4>3, Zenon DEF Reach, S
      <3>6. from' \subseteq visited' \cup {cursor'} \cup todo' /\ todo' \subseteq from'
          BY <2>1, <2>2, <2>5, Zenon
      <3>7. visited' \cup {cursor', up'} \subseteq Reach' \cup {NoRole}
          BY <2>2, <2>3, <2>5, <3>5, Zenon
      <3> QED
          BY <2>1, <3>3, <3>4, <3>6, <3>7, Zenon DEF Collecting
    <2> QED
        BY <1>3, <2>4, <2>5, Zenon DEF Walks!Visit
  <1>4. CASE Walks!Listed
    <2>1. /\ walk = "names" /\ walk' = "listed" /\ cursor = NoRole /\ todo = {}
          /\ UNCHANGED <<graph, older, from, cursor, up, todo, visited, sink>>
        BY <1>4, Zenon DEF Walks!Listed
    <2>2. Reach' = Reach /\ Walks!Names' = Walks!Names
        BY <2>1, Zenon DEF Reach, Walks!Names
    <2> QED
        BY <1>0, <2>1, <2>2, Zenon DEF Collecting
  <1>5. CASE walk' \in {"idle", "check", "allowed", "refused"}
      BY <1>5, Zenon DEF Collecting
  <1> QED
      BY <1>1, <1>2, <1>3, <1>4, <1>5, Zenon
      DEF Walks!Next, Walks!Step, Walks!BeginCheck, Walks!Cycle, Walks!Climb, Walks!Root,
          Walks!Return

\* The same, with one state of the table behind both SELECTs.
LEMMA WalkCollectingAll == WalkInv /\ Walks!Next => CollectingAll'
  <1> SUFFICES ASSUME WalkInv, Walks!Next PROVE CollectingAll'
      BY Zenon
  <1>0. Walks!TypeOK /\ Returned /\ Collecting /\ CollectingAll
      BY Zenon DEF WalkInv
  <1>1. ASSUME walk = "idle", NEW direct \in SUBSET Roles, NEW old \in Walks!ParentMaps,
               NEW f \in Walks!ParentMaps, Walks!BeginNames(direct, old, f)
        PROVE  CollectingAll'
    <2>1. cursor' = NoRole /\ visited' = {}
        BY <1>0, <1>1, Zenon DEF Walks!BeginNames, Returned
    <2> QED
        BY <2>1, Zenon DEF CollectingAll
  <1>2. ASSUME walk = "names", UNCHANGED <<graph, older, from>>, older = graph,
               /\ cursor' # NoRole => up' = graph[cursor']
               /\ \A x \in visited' : graph[x] \in visited' \cup {cursor', NoRole}
               /\ visited' \cup {cursor'} \subseteq Above(graph, from) \cup {NoRole}
        PROVE  CollectingAll'
      BY <1>2, Zenon DEF CollectingAll
  <1>3. ASSUME walk = "names", older = graph
        PROVE  /\ cursor # NoRole => up = graph[cursor]
               /\ \A x \in visited : graph[x] \in visited \cup {cursor, NoRole}
               /\ visited \cup {cursor} \subseteq Above(graph, from) \cup {NoRole}
               /\ from \in SUBSET Roles /\ graph \in Walks!ParentMaps /\ todo \subseteq from
      BY <1>0, <1>3, Zenon DEF CollectingAll, Collecting, Walks!TypeOK
  <1>4. CASE Walks!NextDirect
    <2>1. PICK d \in todo : cursor' = d /\ up' = older[d]
        BY <1>4, Zenon DEF Walks!NextDirect
    <2>2. walk = "names" /\ cursor = NoRole /\ UNCHANGED <<graph, older, from, visited>>
        BY <1>4, Zenon DEF Walks!NextDirect
    <2>3. ASSUME older = graph PROVE CollectingAll'
      <3>1. d \in Above(graph, from)
          BY <1>3, <2>1, <2>2, <2>3, AboveClosed, Zenon
      <3>2. \A x \in visited' : graph[x] \in visited' \cup {cursor', NoRole}
          BY <1>3, <2>2, <2>3, Zenon
      <3>3. visited' \cup {cursor'} \subseteq Above(graph, from) \cup {NoRole}
          BY <1>3, <2>1, <2>2, <2>3, <3>1, Zenon
      <3> QED
          BY <1>2, <2>1, <2>2, <2>3, <3>2, <3>3, Zenon
    <2> QED
        BY <2>2, <2>3, Zenon DEF CollectingAll
  <1>5. CASE Walks!Visit
    <2>1. walk = "names" /\ cursor # NoRole /\ UNCHANGED <<graph, older, from>>
        BY <1>5, Zenon DEF Walks!Visit
    <2>2. ASSUME older = graph PROVE CollectingAll'
      <3>1. CASE cursor \in visited /\ cursor' = NoRole /\ visited' = visited
        <4>1. \A x \in visited' : graph[x] \in visited' \cup {cursor', NoRole}
            BY <1>3, <2>1, <2>2, <3>1, Zenon
        <4> QED
            BY <1>2, <1>3, <2>1, <2>2, <3>1, <4>1, Zenon
      <3>2. CASE /\ visited' = visited \cup {cursor} /\ cursor' = up
                 /\ up' = IF up = NoRole THEN NoRole ELSE graph[up]
        <4>1. up = graph[cursor]
            BY <1>3, <2>1, <2>2, Zenon
        <4>2. cursor \in Above(graph, from) /\ up \in Above(graph, from) \cup {NoRole}
            BY <1>3, <2>1, <2>2, <4>1, AboveClosed, Zenon
        <4>3. \A x \in visited' : graph[x] \in visited' \cup {cursor', NoRole}
            BY <1>3, <2>1, <2>2, <3>2, <4>1, Zenon
        <4>4. visited' \cup {cursor'} \subseteq Above(graph, from) \cup {NoRole}
            BY <1>3, <2>1, <2>2, <3>2, <4>2, Zenon
        <4> QED
            BY <1>2, <2>1, <2>2, <3>2, <4>3, <4>4, Zenon
      <3> QED
          BY <1>5, <3>1, <3>2, Zenon DEF Walks!Visit
    <2> QED
        BY <2>1, <2>2, Zenon DEF CollectingAll
  <1>6. CASE Walks!Listed
      BY <1>0, <1>6, Zenon DEF Walks!Listed, CollectingAll
  <1>7. CASE walk' \in {"idle", "check", "allowed", "refused"}
      BY <1>7, Zenon DEF CollectingAll
  <1> QED
      BY <1>1, <1>4, <1>5, <1>6, <1>7, Zenon
      DEF Walks!Next, Walks!Step, Walks!BeginCheck, Walks!Cycle, Walks!Climb, Walks!Root,
          Walks!Return

\* The loop invariants are inductive.
LEMMA WalkNext == WalkInv /\ [Walks!Next]_walkVars => WalkInv'
  <1>1. ASSUME WalkInv, Walks!Next PROVE WalkInv'
    <2>1. Returned'
      <3>1. CASE Walks!Return
          BY <3>1, Zenon DEF Walks!Return, Returned
      <3>2. CASE walk' # "idle"
          BY <3>2, Zenon DEF Returned
      <3> QED
          BY <1>1, <3>1, <3>2, Zenon
          DEF Walks!Next, Walks!Step, Walks!BeginCheck, Walks!Cycle, Walks!Climb, Walks!Root,
              Walks!BeginNames, Walks!NextDirect, Walks!Visit, Walks!Listed
    <2>2. Walks!TypeOK'
        BY <1>1, WalkTypes, Zenon DEF WalkInv
    <2> QED
        BY <1>1, <2>1, <2>2, WalkClimbing, WalkCollecting, WalkCollectingAll, Zenon DEF WalkInv
  <1>2. ASSUME WalkInv, UNCHANGED walkVars PROVE WalkInv'
    <2>1. UNCHANGED <<walk, graph, older, from, moving, cursor, up, todo, visited, sink>>
        BY <1>2, Zenon DEF walkVars
    <2>2. Walks!TypeOK' /\ Returned'
        BY <1>2, <2>1, Zenon DEF WalkInv, Walks!TypeOK, Returned
    <2>3. Climbing' /\ CollectingAll'
        BY <1>2, <2>1, Zenon DEF WalkInv, Climbing, CollectingAll
    <2>4. Reach' = Reach /\ Walks!Names' = Walks!Names
        BY <2>1, Zenon DEF Reach, Walks!Names
    <2>5. Collecting'
        BY <1>2, <2>1, <2>4, Zenon DEF WalkInv, Collecting
    <2> QED
        BY <2>2, <2>3, <2>5, Zenon DEF WalkInv
  <1> QED
      BY <1>1, <1>2, Zenon

\* What the loop invariants say of a walk that has ended.
LEMMA WalkSound == WalkInv => Walks!TypeOK /\ WalksExact
  <1> SUFFICES ASSUME WalkInv PROVE Walks!TypeOK /\ WalksExact
      BY Zenon
  <1>0. Walks!TypeOK /\ Climbing /\ Collecting /\ CollectingAll
      BY Zenon DEF WalkInv
  <1>1. /\ graph \in Walks!ParentMaps /\ older \in Walks!ParentMaps
        /\ from \in SUBSET Roles /\ visited \in SUBSET Roles
      BY <1>0, Zenon DEF Walks!TypeOK
  <1>2. Walks!CheckDecides
    <2> SUFFICES ASSUME NEW p \in from
                 PROVE  /\ walk = "allowed" => Walks!MayAdopt(graph, moving, p)
                        /\ walk = "refused" => ~Walks!MayAdopt(graph, moving, p)
        BY Zenon DEF Walks!CheckDecides
    <2> DEFINE A == Walks!Ancestors(graph, p)
    <2>1. \A S \in SUBSET Roles : p \in S /\ Walks!Closed(graph, S) => A \subseteq S
        BY <1>1, AncestorsLeast, Zenon
    <2>2. CASE walk = "allowed"
      <3>1. /\ moving \notin visited /\ cursor = NoRole /\ p \in visited \cup {NoRole}
            /\ \A x \in visited : graph[x] \in visited \cup {NoRole}
            /\ visited = {} \/ \E x \in visited : graph[x] = NoRole
            /\ visited \subseteq A \cup {NoRole}
          BY <1>0, <2>2, Zenon DEF Climbing
      <3>2. p \in visited /\ NoRole \notin visited
          BY <1>1, <3>1, NoRoleAssumption, Zenon
      <3>3. A \subseteq visited
          BY <1>1, <2>1, <3>1, <3>2, Zenon DEF Walks!Closed
      <3>4. \E x \in A : graph[x] = NoRole
          BY <3>1, <3>2, Zenon
      <3> QED
          BY <2>2, <3>1, <3>3, <3>4, Zenon DEF Walks!MayAdopt
    <2>3. CASE walk = "refused"
      <3>1. /\ cursor # NoRole /\ cursor \in visited \cup {moving}
            /\ p \in visited \cup {cursor}
            /\ \A x \in visited : graph[x] \in visited \cup {cursor}
            /\ cursor \in A \cup {NoRole}
          BY <1>0, <2>3, Zenon DEF Climbing
      <3>2. CASE cursor = moving
          BY <2>3, <3>1, <3>2, Zenon DEF Walks!MayAdopt
      <3>3. CASE cursor \in visited
        <4>1. p \in visited /\ \A x \in visited : graph[x] \in visited
            BY <3>1, <3>3, Zenon
        <4>2. A \subseteq visited
            BY <1>1, <2>1, <4>1, Zenon DEF Walks!Closed
        <4>3. \A x \in A : graph[x] # NoRole
            BY <1>1, <4>1, <4>2, NoRoleAssumption, Zenon
        <4> QED
            BY <2>3, <4>3, Zenon DEF Walks!MayAdopt
      <3> QED
          BY <3>1, <3>2, <3>3, Zenon
    <2> QED
        BY <2>2, <2>3, Zenon
  <1>3. ASSUME walk = "listed"
        PROVE  /\ from \subseteq visited /\ visited = Walks!Names
               /\ \A i, j \in 1..Len(sink) : sink[i] = sink[j] => i = j
               /\ visited \subseteq Reach
    <2>1. /\ from \subseteq visited \cup {NoRole} /\ visited = Walks!Names
          /\ \A i, j \in 1..Len(sink) : sink[i] = sink[j] => i = j
          /\ visited \subseteq Reach \cup {NoRole}
        BY <1>0, <1>3, Zenon DEF Collecting
    <2>2. NoRole \notin from /\ NoRole \notin visited
        BY <1>1, NoRoleAssumption, Zenon
    <2> QED
        BY <2>1, <2>2, Zenon
  <1>4. ASSUME walk = "listed", older = graph PROVE visited = Above(graph, from)
    <2>1. /\ \A x \in visited : graph[x] \in visited \cup {NoRole}
          /\ visited \subseteq Above(graph, from) \cup {NoRole}
        BY <1>0, <1>4, Zenon DEF Collecting, CollectingAll
    <2>2. NoRole \notin visited
        BY <1>1, NoRoleAssumption, Zenon
    <2>3. Walks!Closed(graph, visited)
        BY <2>1, Zenon DEF Walks!Closed
    <2>4. Above(graph, from) \subseteq visited
        BY <1>1, <1>3, <1>4, <2>3, AboveClosed, Zenon
    <2> QED
        BY <2>1, <2>2, <2>4, Zenon
  <1>5. Walks!EffectiveComplete
      BY <1>3, <1>4, Zenon DEF Walks!EffectiveComplete, Above
  <1>6. Walks!TornReadBounded
      BY <1>3, Zenon DEF Walks!TornReadBounded, Reach, Above
  <1> QED
      BY <1>0, <1>2, <1>5, <1>6, Zenon DEF WalksExact

-----------------------------------------------------------------------------
(* All four.                                                                *)

DirectoryInv == IInv /\ CacheInv /\ AccountsInv /\ WalkInv

\* MCNext runs one of the components and leaves the others alone.
LEMMA DirectoryAlways == MCSpec => []DirectoryInv
  <1>1. MCInit => DirectoryInv
      BY InitIInv, CacheInit, AccountsInit, WalkInit, Zenon DEF MCInit, DirectoryInv
  <1>2. DirectoryInv /\ [MCNext]_<<vars, clientVars, accountVars, walkVars, part>>
           => DirectoryInv'
    <2> SUFFICES ASSUME DirectoryInv,
                        [MCNext]_<<vars, clientVars, accountVars, walkVars, part>>
                 PROVE  DirectoryInv'
        BY Zenon
    <2>1. [Next]_vars /\ [Walks!Next]_walkVars
        BY Zenon DEF MCNext
    <2>2. /\ clientVars' = clientVars => UNCHANGED Clients!vars
          /\ accountVars' = accountVars => UNCHANGED Accts!vars
        BY Zenon DEF clientVars, accountVars, Clients!vars, Clients!db, Clients!local,
           Accts!vars, Accts!db, Accts!local, Accts!past
    <2>3. [Clients!Next]_(Clients!vars) /\ [Accts!Next]_(Accts!vars)
        BY <2>2, Zenon DEF MCNext
    <2> QED
        BY <2>1, <2>3, NextIInv, CacheNext, AccountsNext, WalkNext, Zenon DEF DirectoryInv
  <1> QED
      BY <1>1, <1>2, PTL DEF MCSpec

\* Roles, clients, accounts and walks keep their types; a redirect URI goes with its client, and
\* verification, credential, role and token with their account.
THEOREM DirectoryTypes == MCSpec => []TypesOK
  <1>1. DirectoryInv => TypesOK
      BY CacheSound, WalkSound, Zenon DEF DirectoryInv, IInv, AccountsInv, TypesOK
  <1> QED
      BY <1>1, DirectoryAlways, PTL

\* Whatever admins and lookups interleave, an entry of the client cache differs from the
\* database only while a writer has not reached its DEL, or for a reason that the code
\* accepts (client/repository.rs:8).
THEOREM StaleClientsExplained == MCSpec => []StaleExplained
  <1>1. DirectoryInv => StaleExplained
      BY CacheSound, Zenon DEF DirectoryInv, StaleExplained
  <1> QED
      BY <1>1, DirectoryAlways, PTL

\* However sign-ups, verifications and admins race, no two accounts share an email or a
\* username, each has its credential and its role with the exceptions that the code makes,
\* and a consumed token has verified its account (signup/flow.rs:8-11).
THEOREM AccountsHold == MCSpec => []AccountsSound
  <1>1. DirectoryInv => AccountsSound
      BY Zenon DEF DirectoryInv, AccountsInv, AccountsSound
  <1> QED
      BY <1>1, DirectoryAlways, PTL

\* On every graph, also on one that has a cycle, the loop of set_parent lets a role have a
\* new parent exactly when no way up from there meets the role and the way up ends; and
\* find_effective_names_by_user_id lists the assigned roles and all above them, each once
\* (role/mod.rs:73-76).  A set_parent that commits between its two SELECTs loses no
\* assigned role and adds none that is out of reach.
THEOREM WalksDecide == MCSpec => []WalksExact
  <1>1. DirectoryInv => WalksExact
      BY WalkSound, Zenon DEF DirectoryInv
  <1> QED
      BY <1>1, DirectoryAlways, PTL
=============================================================================
