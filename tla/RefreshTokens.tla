--------------------------- MODULE RefreshTokens ----------------------------
(***************************************************************************)
(* Refresh tokens: issue, rotation with reuse detection, revocation,       *)
(* logout and the hourly sweep, as transactions on the refresh_tokens and  *)
(* user_sessions tables (oauth/token/*, oauth/logout/flow.rs,              *)
(* session/repository.rs).                                                 *)
(*                                                                         *)
(* Postgres runs at READ COMMITTED.  A statement reads committed rows; a   *)
(* row it writes, or reads FOR UPDATE, is locked until the transaction     *)
(* ends; a statement that meets a locked row waits and then looks at the   *)
(* row again.  An INSERT takes a KEY SHARE lock on the session row its     *)
(* foreign key names, a DELETE of the session row waits for those locks,   *)
(* and cascades to the tokens.                                             *)
(***************************************************************************)
EXTENDS Naturals, FiniteSets

CONSTANTS
    Kinds,      \* the operations offered
    Requests,   \* requests that may be in flight together
    Sessions,
    Tokens,     \* as many refresh tokens as are ever issued
    SessionOf,  \* the session each token is issued for
    NoToken, NoSession

ASSUME NoTokenAssumption == NoToken \notin Tokens
ASSUME NoSessionAssumption == NoSession \notin Sessions
ASSUME SessionOfAssumption == SessionOf \in [Tokens -> Sessions]

VARIABLES
    tok,        \* committed state of each token's row
    parent,     \* history: the token it was rotated from
    sessions,   \* committed rows of user_sessions
    expired,    \* tokens whose expires_at has passed
    pc, op,     \* control state and kind of each request
    arg, sid,   \* the token presented, the session concerned
    child,      \* token inserted by the open transaction
    held,       \* token rows locked by the open transaction
    todo,       \* rows its current statement has still to visit
    doomed,     \* history: rows a family UPDATE set out to revoke
    replayed    \* history: sessions for which a replay was answered

chainVars == <<tok, parent>>
reqVars == <<op, arg, sid>>
histVars == <<doomed, replayed>>
vars == <<chainVars, sessions, expired, pc, reqVars, child, held, todo, histVars>>

\* refresh: from_refresh_token; grant: the other grants that issue a refresh
\* token; revoke: the revocation endpoint; endSession: LogoutFlow::logout and
\* revoke_session; delete: SessionRepository::delete; sweep: the cleanup job.
Ops == {"refresh", "grant", "revoke", "endSession", "delete", "sweep"}

ASSUME KindsAssumption == Kinds \subseteq Ops

PCs == {"idle", "lock", "checkOwner", "insert", "commit", "read", "update",
        "family", "visit", "del", "lockSession", "select", "purge", "done"}

RowStates == {"unborn", "active", "revoked", "gone"}

Rows == {t \in Tokens : tok[t] \in {"active", "revoked"}}
FamilyOf(s) == {t \in Tokens : SessionOf[t] = s}

Free(r, t) == \A q \in Requests \ {r} : t \notin held[q]

Goto(r, label) == pc' = [pc EXCEPT ![r] = label]

\* Mutant: the transaction is never rolled back, its locks stay.
EndTx_Leaked(r, label) ==
    /\ todo' = [todo EXCEPT ![r] = {}]
    /\ child' = [child EXCEPT ![r] = NoToken]
    /\ Goto(r, label)
    /\ UNCHANGED held

\* The transaction ends: its locks are released.
EndTx(r, label) ==
    /\ held' = [held EXCEPT ![r] = {}]
    /\ todo' = [todo EXCEPT ![r] = {}]
    /\ child' = [child EXCEPT ![r] = NoToken]
    /\ Goto(r, label)

Init ==
    /\ tok = [t \in Tokens |-> "unborn"]
    /\ parent = [t \in Tokens |-> NoToken]
    /\ sessions = Sessions /\ expired = {}
    /\ pc = [r \in Requests |-> "idle"]
    /\ op = [r \in Requests |-> "refresh"]
    /\ arg = [r \in Requests |-> NoToken]
    /\ sid = [r \in Requests |-> NoSession]
    /\ child = [r \in Requests |-> NoToken]
    /\ held = [r \in Requests |-> {}]
    /\ todo = [r \in Requests |-> {}]
    /\ doomed = [r \in Requests |-> {}]
    /\ replayed = {}

-----------------------------------------------------------------------------
(* Requests start. *)

Begin(r, o, t, s, label) ==
    /\ pc[r] = "idle" /\ o \in Kinds
    /\ op' = [op EXCEPT ![r] = o]
    /\ arg' = [arg EXCEPT ![r] = t]
    /\ sid' = [sid EXCEPT ![r] = s]
    /\ Goto(r, label)
    /\ UNCHANGED <<chainVars, sessions, expired, child, held, todo, doomed, replayed>>

\* A token is presented by a client that has authenticated itself.
BeginRefresh(r, t) == tok[t] # "unborn" /\ Begin(r, "refresh", t, SessionOf[t], "lock")
BeginRevoke(r, t) == tok[t] # "unborn" /\ Begin(r, "revoke", t, SessionOf[t], "read")

\* An authorization or device code of session s has been consumed.
BeginGrant(r, s) == Begin(r, "grant", NoToken, s, "checkOwner")
BeginEndSession(r, s) == Begin(r, "endSession", NoToken, s, "family")
BeginDelete(r, s) == Begin(r, "delete", NoToken, s, "del")
BeginSweep(r) == Begin(r, "sweep", NoToken, NoSession, "select")

-----------------------------------------------------------------------------
(* from_refresh_token and the other issuing grants. *)

\* Mutant: a plain SELECT instead of SELECT ... FOR UPDATE.
LockToken_NoForUpdate(r) ==
    /\ pc[r] = "lock"
    /\ \/ /\ arg[r] \in Rows
          /\ held' = [held EXCEPT ![r] = {arg[r]}]
          /\ \/ tok[arg[r]] = "revoked" /\ Goto(r, "family")
             \/ tok[arg[r]] = "active" /\ arg[r] \notin expired /\ Goto(r, "checkOwner")
          /\ UNCHANGED <<todo, child>>
       \/ tok[arg[r]] # "revoked" /\ EndTx(r, "done")
    /\ UNCHANGED <<chainVars, sessions, expired, reqVars, histVars>>

\* SELECT ... FOR UPDATE, then the checks on the row, in the code's order:
\* a revoked token is a replay even when it has expired or is presented by
\* another client; the last disjunct is the client mismatch.
LockToken(r) ==
    /\ pc[r] = "lock" /\ Free(r, arg[r])
    /\ \/ /\ arg[r] \in Rows
          /\ held' = [held EXCEPT ![r] = {arg[r]}]
          /\ \/ tok[arg[r]] = "revoked" /\ Goto(r, "family")
             \/ tok[arg[r]] = "active" /\ arg[r] \notin expired /\ Goto(r, "checkOwner")
          /\ UNCHANGED <<todo, child>>
       \/ tok[arg[r]] # "revoked" /\ EndTx(r, "done")
    /\ UNCHANGED <<chainVars, sessions, expired, reqVars, histVars>>

\* users.find_by_id and sessions.find_by_id, on connections of their own;
\* the second disjunct also stands for a user that is gone or disabled.
CheckOwner(r) ==
    /\ pc[r] = "checkOwner"
    /\ \/ sid[r] \in sessions /\ Goto(r, "insert") /\ UNCHANGED <<held, todo, child>>
       \/ EndTx(r, "done")
    /\ UNCHANGED <<chainVars, sessions, expired, reqVars, histVars>>

\* Is some transaction deleting the row of session s?
Deleting(q, s) == pc[q] \in {"select", "purge"} /\ op[q] = "delete" /\ sid[q] = s

\* The bound: no id is left for another token of session s.
Exhausted(s) ==
    \A c \in FamilyOf(s) : tok[c] # "unborn" \/ \E q \in Requests : child[q] = c

\* Mutant: session_id without a foreign key.
Insert_NoForeignKey(r) ==
    /\ pc[r] = "insert"
    /\ \E c \in FamilyOf(sid[r]) :
          /\ tok[c] = "unborn" /\ \A q \in Requests : child[q] # c
          /\ child' = [child EXCEPT ![r] = c]
    /\ Goto(r, "commit")
    /\ UNCHANGED <<chainVars, sessions, expired, reqVars, held, todo, histVars>>

\* update_revoked_in_tx on the row already locked, then persist_in_tx, whose
\* foreign key check waits for a deleter of the session and fails if it wins.
Insert(r) ==
    /\ pc[r] = "insert"
    /\ \A q \in Requests : ~Deleting(q, sid[r])
    /\ \/ /\ sid[r] \in sessions
          /\ \E c \in FamilyOf(sid[r]) :
                /\ tok[c] = "unborn" /\ \A q \in Requests : child[q] # c
                /\ child' = [child EXCEPT ![r] = c]
          /\ Goto(r, "commit")
          /\ UNCHANGED <<held, todo>>
       \/ /\ sid[r] \notin sessions \/ Exhausted(sid[r])
          /\ EndTx(r, "done")
    /\ UNCHANGED <<chainVars, sessions, expired, reqVars, histVars>>

\* Mutant: the rotation forgets to revoke the token it replaces.
Commit_NoRevoke(r) ==
    /\ pc[r] = "commit"
    /\ tok' = [tok EXCEPT ![child[r]] = "active"]
    /\ parent' = [parent EXCEPT ![child[r]] = arg[r]]
    /\ EndTx(r, "done")
    /\ UNCHANGED <<sessions, expired, reqVars, histVars>>

\* COMMIT: the rotation becomes visible as a whole.
Commit(r) ==
    /\ pc[r] = "commit"
    /\ tok' = [t \in Tokens |-> IF t = child[r] THEN "active"
                                ELSE IF t \in held[r] THEN "revoked" ELSE tok[t]]
    /\ parent' = [parent EXCEPT ![child[r]] = arg[r]]
    /\ EndTx(r, "done")
    /\ UNCHANGED <<sessions, expired, reqVars, histVars>>

-----------------------------------------------------------------------------
(* The revocation endpoint: a plain read, then an UPDATE by id. *)

\* A token of another client, too, is left alone and reported as revoked.
ReadToken(r) ==
    /\ pc[r] = "read"
    /\ \/ tok[arg[r]] = "active" /\ Goto(r, "update")
       \/ Goto(r, "done")
    /\ UNCHANGED <<chainVars, sessions, expired, reqVars, child, held, todo, histVars>>

UpdateRevoked(r) ==
    /\ pc[r] = "update" /\ Free(r, arg[r])
    /\ tok' = IF arg[r] \in Rows THEN [tok EXCEPT ![arg[r]] = "revoked"] ELSE tok
    /\ Goto(r, "done")
    /\ UNCHANGED <<parent, sessions, expired, reqVars, child, held, todo, histVars>>

-----------------------------------------------------------------------------
(* UPDATE refresh_tokens SET revoked = TRUE WHERE session_id = .. AND NOT    *)
(* revoked: on replay, by logout and revoke_session, and by delete.          *)

RevokeFamily(r) ==
    /\ pc[r] = "family"
    /\ LET active == {t \in FamilyOf(sid[r]) : tok[t] = "active"}
       IN  /\ todo' = [todo EXCEPT ![r] = active]
           /\ doomed' = [doomed EXCEPT ![r] = active]
    /\ Goto(r, "visit")
    /\ UNCHANGED <<chainVars, sessions, expired, reqVars, child, held, replayed>>

\* Mutant: rows that are locked are skipped.
VisitRow_SkipLocked(r) ==
    /\ pc[r] = "visit"
    /\ \E t \in todo[r] :
        /\ todo' = [todo EXCEPT ![r] = @ \ {t}]
        /\ held' = IF tok[t] = "active" /\ Free(r, t)
                   THEN [held EXCEPT ![r] = @ \cup {t}] ELSE held
    /\ UNCHANGED <<chainVars, sessions, expired, pc, reqVars, child, histVars>>

\* Lock one of the rows, waiting for its lock, unless it changed meanwhile.
VisitRow(r) ==
    /\ pc[r] = "visit"
    /\ \E t \in todo[r] :
        /\ Free(r, t)
        /\ todo' = [todo EXCEPT ![r] = @ \ {t}]
        /\ held' = IF tok[t] = "active" THEN [held EXCEPT ![r] = @ \cup {t}] ELSE held
    /\ UNCHANGED <<chainVars, sessions, expired, pc, reqVars, child, histVars>>

\* COMMIT, and on to what the caller does next.
CommitFamily(r) ==
    /\ pc[r] = "visit" /\ todo[r] = {}
    /\ tok' = [t \in Tokens |-> IF t \in held[r] THEN "revoked" ELSE tok[t]]
    /\ EndTx(r, CASE op[r] = "refresh" -> "done"
                  [] op[r] = "endSession" -> "del"
                  [] op[r] = "delete" -> "lockSession")
    /\ op' = IF op[r] = "endSession" THEN [op EXCEPT ![r] = "delete"] ELSE op
    /\ replayed' = IF op[r] = "refresh" THEN replayed \cup {sid[r]} ELSE replayed
    /\ doomed' = [doomed EXCEPT ![r] = {}]
    /\ UNCHANGED <<parent, sessions, expired, arg, sid>>

-----------------------------------------------------------------------------
(* SessionRepository::delete and the sweep. *)

\* The cache entry has to go first; if that fails nothing is deleted.
DelKey(r) ==
    /\ pc[r] = "del"
    /\ Goto(r, "family") \/ Goto(r, "done")
    /\ UNCHANGED <<chainVars, sessions, expired, reqVars, child, held, todo, histVars>>

\* DELETE FROM user_sessions waits for key-share locks of open inserts (and
\* for another deleter); a row that is gone by then is not deleted.
LockSession(r) ==
    /\ pc[r] = "lockSession"
    /\ \A q \in Requests \ {r} :
          ~Deleting(q, sid[r]) /\ ~(child[q] # NoToken /\ sid[q] = sid[r])
    /\ Goto(r, IF sid[r] \in sessions THEN "select" ELSE "done")
    /\ UNCHANGED <<chainVars, sessions, expired, reqVars, child, held, todo, histVars>>

\* The rows a DELETE is after: the cascade's, or the expired ones.
SelectRows(r) ==
    /\ pc[r] = "select"
    /\ todo' = [todo EXCEPT ![r] =
                  IF op[r] = "delete" THEN FamilyOf(sid[r]) \cap Rows
                                      ELSE expired \cap Rows]
    /\ Goto(r, "purge")
    /\ UNCHANGED <<chainVars, sessions, expired, reqVars, child, held, histVars>>

PurgeRow(r) ==
    /\ pc[r] = "purge"
    /\ \E t \in todo[r] :
        /\ Free(r, t)
        /\ todo' = [todo EXCEPT ![r] = @ \ {t}]
        /\ held' = IF t \in Rows THEN [held EXCEPT ![r] = @ \cup {t}] ELSE held
    /\ UNCHANGED <<chainVars, sessions, expired, pc, reqVars, child, histVars>>

CommitPurge(r) ==
    /\ pc[r] = "purge" /\ todo[r] = {}
    /\ tok' = [t \in Tokens |-> IF t \in held[r] THEN "gone" ELSE tok[t]]
    /\ sessions' = IF op[r] = "delete" THEN sessions \ {sid[r]} ELSE sessions
    /\ EndTx(r, "done")
    /\ UNCHANGED <<parent, expired, reqVars, histVars>>

-----------------------------------------------------------------------------
(* Answers, rollbacks, time. *)

Forget(r) ==
    /\ EndTx(r, "idle")
    /\ op' = [op EXCEPT ![r] = "refresh"]
    /\ arg' = [arg EXCEPT ![r] = NoToken]
    /\ sid' = [sid EXCEPT ![r] = NoSession]
    /\ doomed' = [doomed EXCEPT ![r] = {}]
    /\ UNCHANGED <<chainVars, sessions, expired, replayed>>

Answer(r) == pc[r] = "done" /\ Forget(r)

\* The request is dropped or its connection lost: Postgres rolls back.
Abort(r) == pc[r] \notin {"idle", "done"} /\ Forget(r)

\* The requests r is waiting for.
WaitsFor(r) ==
    {q \in Requests \ {r} :
        \/ pc[r] \in {"lock", "update"} /\ arg[r] \in held[q]
        \/ pc[r] \in {"visit", "purge"} /\ todo[r] \cap held[q] # {}
        \/ pc[r] = "insert" /\ Deleting(q, sid[r])
        \/ pc[r] = "lockSession" /\ sid[q] = sid[r]
              /\ (Deleting(q, sid[r]) \/ child[q] # NoToken)}

\* Postgres finds a cycle of waiting transactions and aborts one of them.
DeadlockVictim(r) ==
    /\ \E S \in SUBSET Requests : r \in S /\ \A q \in S : WaitsFor(q) \cap S # {}
    /\ Abort(r)

Expire(t) ==
    /\ tok[t] \in {"active", "revoked"} /\ t \notin expired
    /\ expired' = expired \cup {t}
    /\ UNCHANGED <<chainVars, sessions, pc, reqVars, child, held, todo, histVars>>

Waiting(r) == LockToken(r) \/ Insert(r) \/ UpdateRevoked(r) \/ VisitRow(r)
                  \/ LockSession(r) \/ PurgeRow(r)

Running(r) == CheckOwner(r) \/ Commit(r) \/ ReadToken(r) \/ RevokeFamily(r)
                  \/ CommitFamily(r) \/ DelKey(r) \/ SelectRows(r)
                  \/ CommitPurge(r) \/ Answer(r)

Arrive(r) ==
    \/ \E t \in Tokens : BeginRefresh(r, t) \/ BeginRevoke(r, t)
    \/ \E s \in Sessions : BeginGrant(r, s) \/ BeginEndSession(r, s)
                              \/ BeginDelete(r, s)
    \/ BeginSweep(r)

Next ==
    \/ \E r \in Requests : Arrive(r) \/ Waiting(r) \/ Running(r) \/ Abort(r)
    \/ \E t \in Tokens : Expire(t)

Spec == Init /\ [][Next]_vars

\* Handlers run on; Postgres grants locks in the order they were asked for,
\* so a waiter that could go on again and again does; and it breaks cycles.
Fairness ==
    /\ \A r \in Requests : WF_vars(Running(r)) /\ SF_vars(Waiting(r))
    /\ WF_vars(\E r \in Requests : DeadlockVictim(r))

FairSpec == Spec /\ Fairness

-----------------------------------------------------------------------------
(* Properties. *)

\* The variables stay in their types.
TypeOK ==
    /\ tok \in [Tokens -> RowStates]
    /\ parent \in [Tokens -> Tokens \cup {NoToken}]
    /\ sessions \subseteq Sessions /\ expired \subseteq Tokens
    /\ pc \in [Requests -> PCs] /\ op \in [Requests -> Ops]
    /\ arg \in [Requests -> Tokens \cup {NoToken}]
    /\ sid \in [Requests -> Sessions \cup {NoSession}]
    /\ child \in [Requests -> Tokens \cup {NoToken}]
    /\ held \in [Requests -> SUBSET Tokens]
    /\ todo \in [Requests -> SUBSET Tokens]
    /\ doomed \in [Requests -> SUBSET Tokens]
    /\ replayed \subseteq Sessions

Family == INSTANCE TokenFamily

\* Transactions, locks and rollbacks included, the table changes only as
\* TokenFamily allows: rotation is one step, and no row ever comes back.
ImplementsFamily == Family!Spec

\* Two parallel refreshes with the same raw token never fork the family
\* (repository.rs:1-4): no two tokens were rotated from the same one, and one
\* that was rotated is not usable.
LinearFamily == Family!Linear

\* No zombie token (logout/flow.rs:106): a row of refresh_tokens, active or
\* not, belongs to a session that still has its row, however rotations,
\* grants, logouts and rollbacks interleave.
NoZombie == \A t \in Rows : SessionOf[t] \in sessions

\* When a family UPDATE commits, every token that was active when it began
\* is unusable, also the ones it found locked by a rotation.
DoomedRevoked ==
    [][\A r \in Requests :
          pc[r] = "visit" /\ pc'[r] \notin {"visit", "idle"}
              => \A t \in doomed[r] : tok'[t] # "active"]_vars

\* Every request is answered: no cycle of lock waits is permanent.
RequestsFinish == \A r \in Requests : pc[r] # "idle" ~> pc[r] = "idle"

\* When a replay has been answered, every token of the session is invalid.
FamilyFullyRevoked ==
    [][\A t \in Tokens :
          SessionOf[t] \in replayed' \ replayed => tok'[t] # "active"]_vars
=============================================================================
