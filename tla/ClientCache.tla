----------------------------- MODULE ClientCache -----------------------------
(***************************************************************************)
(* ClientRepository: one client_id, its row and redirect URI in Postgres,  *)
(* and its snapshot in Redis.  Lookups go through the cache; every write   *)
(* deletes the entry after it committed, on another connection and to      *)
(* another server, and an error of the cache is only logged.  A row is     *)
(* known by its uuid, so that a client deleted and created again is another*)
(* row with the same cache key.                                            *)
(***************************************************************************)
EXTENDS Naturals

CONSTANTS
    Requests,
    None,
    MaxWrites   \* bound: versions of the row

VARIABLES
    row,      \* [id, version] of the client, or None
    uri,      \* its redirect URI is registered
    cache,    \* [row, uri] under client:<client_id>, or None
    at,       \* of each request: next step
    creates,  \* of each request: find_by_client_id runs for create_client
    copy,     \* row that the request read
    uriCopy,  \* redirect URI that it read
    writes

\* History, read by properties only.
VARIABLES
    overtaken,  \* of each lookup: a write committed since it read the row
    excused     \* the entry is wrong, and a failed or dropped DEL or an overtaken lookup made it so

db == <<row, uri>>
local == <<at, creates, copy, uriCopy>>
vars == <<db, cache, local, writes, overtaken, excused>>

Snapshot(c, u) == [row |-> c, uri |-> u]

\* The entry says something else than the database.
Stale == cache # None /\ cache # Snapshot(row, uri)

Init ==
    /\ row = None /\ uri = FALSE /\ cache = None
    /\ at = [r \in Requests |-> "idle"] /\ creates = [r \in Requests |-> FALSE]
    /\ copy = [r \in Requests |-> None] /\ uriCopy = [r \in Requests |-> FALSE]
    /\ writes = 0 /\ overtaken = [r \in Requests |-> FALSE] /\ excused = FALSE

-----------------------------------------------------------------------------
Goto(r, label) == at' = [at EXCEPT ![r] = label] /\ UNCHANGED <<creates, copy, uriCopy>>

\* The handler returns.
End(r) ==
    /\ at' = [at EXCEPT ![r] = "idle"] /\ creates' = [creates EXCEPT ![r] = FALSE]
    /\ copy' = [copy EXCEPT ![r] = None] /\ uriCopy' = [uriCopy EXCEPT ![r] = FALSE]

\* A handler that starts with a SELECT of the row.
BeginWith(r, label) ==
    /\ at[r] = "idle" /\ row # None
    /\ at' = [at EXCEPT ![r] = label] /\ copy' = [copy EXCEPT ![r] = row]
    /\ UNCHANGED <<db, cache, creates, uriCopy, writes, excused>>

BeginLookup(r) ==
    /\ at[r] = "idle" /\ Goto(r, "cache")
    /\ UNCHANGED <<db, cache, writes, excused>>

BeginCreate(r) ==
    /\ at[r] = "idle" /\ writes < MaxWrites
    /\ at' = [at EXCEPT ![r] = "cache"] /\ creates' = [creates EXCEPT ![r] = TRUE]
    /\ UNCHANGED <<db, cache, copy, uriCopy, writes, excused>>

BeginUpdate(r) == BeginWith(r, "update")
BeginDelete(r) == BeginWith(r, "delete")
BeginAddUri(r) == BeginWith(r, "add")
BeginRemoveUri(r) == uri /\ BeginWith(r, "remove")

-----------------------------------------------------------------------------
(* find_by_client_id *)

\* A hit ends a lookup, and create_client with a conflict.  Redis not answering
\* is a miss.
ReadCache(r) ==
    /\ at[r] = "cache"
    /\ \/ cache # None /\ End(r)
       \/ Goto(r, "row")
    /\ UNCHANGED <<db, cache, writes, excused>>

ReadRow(r) ==
    /\ at[r] = "row"
    /\ \/ row = None /\ creates[r] /\ Goto(r, "insert")
       \/ row = None /\ ~creates[r] /\ End(r)
       \/ /\ row # None
          /\ at' = [at EXCEPT ![r] = "uris"] /\ copy' = [copy EXCEPT ![r] = row]
          /\ UNCHANGED <<creates, uriCopy>>
    /\ UNCHANGED <<db, cache, writes, excused>>

\* A second statement, by the uuid of the row that the first returned.
FetchRedirectUris(r) ==
    /\ at[r] = "uris"
    /\ uriCopy' = [uriCopy EXCEPT ![r] = uri /\ row # None /\ row.id = copy[r].id]
    /\ at' = [at EXCEPT ![r] = "fill"]
    /\ UNCHANGED <<db, cache, creates, copy, writes, excused>>

\* Mutant: the snapshot is stored before the URIs were added to it.
PopulateCache_NoUris(r) ==
    /\ at[r] = "fill" /\ End(r)
    /\ LET snapshot == Snapshot(copy[r], FALSE) IN
           \/ cache' = snapshot /\ excused' = (overtaken[r] /\ snapshot # Snapshot(row, uri))
           \/ UNCHANGED <<cache, excused>>
    /\ UNCHANGED <<db, writes>>

\* SETEX of what was read, best effort, whatever was written since.
PopulateCache(r) ==
    /\ at[r] = "fill" /\ End(r)
    /\ LET snapshot == Snapshot(copy[r], uriCopy[r]) IN
           \/ cache' = snapshot /\ excused' = (overtaken[r] /\ snapshot # Snapshot(row, uri))
           \/ UNCHANGED <<cache, excused>>
    /\ UNCHANGED <<db, writes>>

-----------------------------------------------------------------------------
(* The writes.  A version stands for the content of all columns. *)

Same(r) == row # None /\ row.id = copy[r].id

Version == writes + 1

\* persist; the unique constraint on client_id refuses a second row.
Persist(r) ==
    /\ at[r] = "insert" /\ writes < MaxWrites
    /\ IF row # None THEN End(r) /\ UNCHANGED <<row, writes>>
       ELSE row' = [id |-> Version, version |-> Version] /\ writes' = Version /\ Goto(r, "del")
    /\ UNCHANGED <<uri, cache, excused>>

\* Mutant: nothing is invalidated.
Update_Uninvalidated(r) ==
    /\ at[r] = "update" /\ writes < MaxWrites /\ End(r)
    /\ IF Same(r) THEN row' = [row EXCEPT !.version = Version] /\ writes' = Version
       ELSE UNCHANGED <<row, writes>>
    /\ UNCHANGED <<uri, cache, excused>>

\* UPDATE ... WHERE id: all columns, those that the body does not name from the copy.
Update(r) ==
    /\ at[r] = "update" /\ writes < MaxWrites
    /\ IF Same(r)
         THEN row' = [row EXCEPT !.version = Version] /\ writes' = Version /\ Goto(r, "del")
         ELSE End(r) /\ UNCHANGED <<row, writes>>
    /\ UNCHANGED <<uri, cache, excused>>

\* The entry is deleted whether or not the row was still there.
Delete(r) ==
    /\ at[r] = "delete"
    /\ IF Same(r) THEN row' = None /\ uri' = FALSE ELSE UNCHANGED db
    /\ Goto(r, "del")
    /\ UNCHANGED <<cache, writes, excused>>

\* INSERT; refused when the client is gone or the URI is there.
AddRedirectUri(r) ==
    /\ at[r] = "add"
    /\ IF Same(r) /\ ~uri THEN uri' = TRUE /\ Goto(r, "owner") ELSE End(r) /\ UNCHANGED uri
    /\ UNCHANGED <<row, cache, writes, excused>>

\* client_id_of, after the INSERT.
ClientIdOf(r) ==
    /\ at[r] = "owner"
    /\ IF Same(r) THEN Goto(r, "del") ELSE End(r)
    /\ UNCHANGED <<db, cache, writes, excused>>

\* DELETE of the URI whose owner was read before.
RemoveRedirectUri(r) ==
    /\ at[r] = "remove"
    /\ IF Same(r) /\ uri THEN uri' = FALSE /\ Goto(r, "del") ELSE End(r) /\ UNCHANGED uri
    /\ UNCHANGED <<row, cache, writes, excused>>

\* DEL, best effort.
Invalidate(r) ==
    /\ at[r] = "del" /\ End(r)
    /\ \/ cache' = None /\ excused' = FALSE
       \/ excused' = Stale /\ UNCHANGED cache
    /\ UNCHANGED <<db, writes>>

\* The handler's future is dropped, or a statement fails.
Abort(r) ==
    /\ at[r] # "idle" /\ End(r)
    /\ excused' = (excused \/ (Stale /\ at[r] \in {"owner", "del"}))
    /\ UNCHANGED <<db, cache, writes>>

\* Mutant: the entry is stored without a TTL.
Evict_Never == FALSE /\ UNCHANGED vars

\* The jittered TTL of the entry runs out.
Evict ==
    /\ cache # None
    /\ cache' = None /\ excused' = FALSE
    /\ UNCHANGED <<db, local, writes, overtaken>>

-----------------------------------------------------------------------------
\* A write overtakes the lookups that are between their first SELECT and their SETEX.
Overtake ==
    overtaken' = [r \in Requests |-> at'[r] \in {"uris", "fill"} /\ (overtaken[r] \/ db' # db)]

Begin(r) ==
    /\ \/ BeginLookup(r) \/ BeginCreate(r) \/ BeginUpdate(r) \/ BeginDelete(r)
       \/ BeginAddUri(r) \/ BeginRemoveUri(r)
    /\ Overtake

Step(r) ==
    /\ \/ ReadCache(r) \/ ReadRow(r) \/ FetchRedirectUris(r) \/ PopulateCache(r) \/ Persist(r)
       \/ Update(r) \/ Delete(r) \/ AddRedirectUri(r) \/ ClientIdOf(r) \/ RemoveRedirectUri(r)
       \/ Invalidate(r)
    /\ Overtake

Next == Evict \/ \E r \in Requests : Begin(r) \/ Step(r) \/ (Abort(r) /\ Overtake)

\* Every entry is stored with a TTL, and a handler runs on.
Fairness == WF_vars(Evict) /\ \A r \in Requests : WF_vars(Step(r))

Spec == Init /\ [][Next]_vars /\ Fairness

-----------------------------------------------------------------------------
Rows == [id : 1..MaxWrites, version : 1..MaxWrites]
Snapshots == [row : Rows, uri : BOOLEAN]
Labels == {"idle", "cache", "row", "uris", "fill", "insert", "update", "delete", "add", "owner",
           "remove", "del"}

\* Types; a redirect URI belongs to a client that exists.
TypeOK ==
    /\ row \in Rows \cup {None} /\ uri \in BOOLEAN /\ (uri => row # None)
    /\ cache \in Snapshots \cup {None}
    /\ at \in [Requests -> Labels] /\ creates \in [Requests -> BOOLEAN]
    /\ copy \in [Requests -> Rows \cup {None}] /\ uriCopy \in [Requests -> BOOLEAN]
    /\ writes \in 0..MaxWrites
    /\ overtaken \in [Requests -> BOOLEAN] /\ excused \in BOOLEAN

\* "Writes invalidate the cache AFTER a successful commit" (client/repository.rs:8):
\* an entry differs from the database only while a writer has not reached its DEL, or
\* because that DEL failed or was cut off, or because it was stored by a lookup that a
\* write had overtaken: a fill that no write overtook stores what the database holds.
\* The overtaken fill is there in the code, although README.md:93 concludes from the
\* order of commit and DEL that "a concurrent reader cannot populate the cache with
\* pre-commit data": find_by_client_id reads and fills in separate steps, and nothing
\* keeps the commit and the DEL from falling between them.
StaleExplained ==
    Stale => excused \/ \E r \in Requests : at[r] \in {"owner", "del"}

\* Staleness ends: once the database no longer changes, a time comes from which on
\* lookups answer what it holds, whatever late fills, failed invalidations and dropped
\* handlers went before.
StalenessEnds == []<><<db' # db>>_vars \/ <>[](~Stale)
=============================================================================
