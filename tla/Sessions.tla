------------------------------ MODULE Sessions ------------------------------
(***************************************************************************)
(* The session store: rows of user_sessions in Postgres, the cache-aside   *)
(* copy in Redis, and the handlers that create, look up and end sessions   *)
(* (session/repository.rs, session/service.rs and their callers).          *)
(*                                                                         *)
(* Every request runs concurrently with every other, on any replica.  One  *)
(* action is one statement sent to Postgres or one command sent to Redis,  *)
(* together with the synchronous code up to the next await.  A statement   *)
(* or a command may fail at any time; a request may be dropped at any await*)
(* (client disconnect, process crash).  An error that only ends the handler*)
(* is a Drop; those that a caller discards are disjuncts of their own.     *)
(***************************************************************************)
EXTENDS Naturals, FiniteSets

CONSTANTS
    Kinds,       \* the operations offered to clients and administrators
    Requests,    \* handler invocations that may be in flight together
    Sessions,    \* session ids; an id stands for its random token as well
    Users,
    Owner,       \* the user each session is minted for
    NoSession,   \* sess[r] of a request that is not about one session
    NoUser       \* usr[r] of a request that is not about all of a user's

ASSUME OwnerAssumption == Owner \in [Sessions -> Users]
ASSUME NoSessionAssumption == NoSession \notin Sessions
ASSUME NoUserAssumption == NoUser \notin Users

VARIABLES
    row,          \* sessions with a row in user_sessions
    minted,       \* session ids already used by a login
    expired,      \* sessions whose expires_at has passed
    account,      \* the users table: enabled, disabled or absent
    cache,        \* Redis: the cached user_enabled, or "none"
    pc, op,       \* control state and kind of each request
    sess, usr,    \* its session, its user
    todo,         \* keys it still has to DEL
    failed,       \* has one of its DELs failed, or its SELECT of the keys?
    snap,         \* account state it read (from cache or row)
    late,         \* history: sessions whose cache entry was written too late
    orphaned,     \* history: entries left behind by a delete_user
    lateStart     \* history: did the request start with its row gone?

dbVars == <<row, minted, expired, account>>
reqVars == <<op, sess, usr>>
histVars == <<late, orphaned, lateStart>>
vars == <<dbVars, cache, pc, reqVars, todo, failed, snap, histVars>>

\* Handlers that begin with find_active_session; those that delete all of a
\* user's sessions at once; the bodies update_user takes, one field each: the
\* ones that set kick_sessions, and the others.
LookupOps == {"lookup", "logout", "changePassword"}
BulkOps == {"resetPassword", "deleteUser"}
KickOps == {"disable", "unverify"}
UpdateOps == KickOps \cup {"enable", "verify", "setPassword"}
Ops == LookupOps \cup BulkOps \cup UpdateOps \cup {"login", "endSession"}

ASSUME KindsAssumption == Kinds \subseteq Ops

Finished == {"accepted", "rejected", "ok", "aborted"}
Running == {"readCache", "readRow", "fill", "check", "insert", "revokeFirst",
            "readUser", "list", "del", "revoke", "deleteRows", "writeUser",
            "deleteUser"}
PCs == {"idle"} \cup Running \cup Finished

AccountStates == {"enabled", "disabled", "absent"}

SessionsOf(u) == {s \in Sessions : Owner[s] = u}

Goto(r, label) == pc' = [pc EXCEPT ![r] = label]

Init ==
    /\ row = {} /\ minted = {} /\ expired = {}
    /\ account = [u \in Users |-> "enabled"]
    /\ cache = [s \in Sessions |-> "none"]
    /\ pc = [r \in Requests |-> "idle"]
    /\ op = [r \in Requests |-> "lookup"]
    /\ sess = [r \in Requests |-> NoSession]
    /\ usr = [r \in Requests |-> NoUser]
    /\ todo = [r \in Requests |-> {}]
    /\ failed = [r \in Requests |-> FALSE]
    /\ snap = [r \in Requests |-> "none"]
    /\ late = {} /\ orphaned = {}
    /\ lateStart = [r \in Requests |-> FALSE]

-----------------------------------------------------------------------------
(* Deletion targets. *)

\* The rows a deleting request is after: one session (delete), all of a
\* user's (delete_all_by_user_id), or all but the caller's own
\* (delete_all_by_user_id_except).
Victims(r) ==
    IF usr[r] = NoUser THEN {sess[r]} \cap Sessions
                       ELSE SessionsOf(usr[r]) \ {sess[r]}

\* r is between listing the tokens and the statement that removes the rows.
WillDelete(r) ==
    \/ pc[r] = "del" /\ op[r] # "verify"
    \/ pc[r] \in {"revoke", "deleteRows", "deleteUser"}

\* r is going to remove the row of s and will not DEL its key any more.
Passed(r, s) == WillDelete(r) /\ s \in Victims(r) \ todo[r]

-----------------------------------------------------------------------------
(* Starting a request. *)

Start(r, o, s, u, label) ==
    /\ pc[r] = "idle"
    /\ o \in Kinds
    /\ op' = [op EXCEPT ![r] = o]
    /\ sess' = [sess EXCEPT ![r] = s]
    /\ usr' = [usr EXCEPT ![r] = u]
    /\ Goto(r, label)

\* A client knows a session token once its login has answered.
Known(s) ==
    /\ s \in minted
    /\ \A q \in Requests : op[q] = "login" /\ sess[q] = s
                               => pc[q] \notin {"insert", "fill"}

\* find_active_session, alone or as the first part of SessionService::logout
\* and of the change-password endpoint.
BeginLookup(r, o, s) ==
    /\ Known(s)
    /\ Start(r, o, s, NoUser, "readCache")
    /\ lateStart' = [lateStart EXCEPT ![r] = o = "lookup" /\ s \notin row]
    /\ UNCHANGED <<dbVars, cache, todo, failed, snap, late, orphaned>>

\* LoginService::authenticate succeeded on an enabled account; the session
\* is minted with the user_enabled it saw.
BeginLogin(r, s) ==
    /\ s \notin minted
    /\ account[Owner[s]] = "enabled"
    /\ Start(r, "login", s, NoUser, "insert")
    /\ minted' = minted \cup {s}
    /\ snap' = [snap EXCEPT ![r] = "enabled"]
    /\ UNCHANGED <<row, expired, account, cache, todo, failed,
                   histVars>>

\* LogoutFlow::logout and the admin's revoke_session name the session by id.
BeginEndSession(r, s) ==
    /\ s \in minted
    /\ Start(r, "endSession", s, NoUser, "revokeFirst")
    /\ UNCHANGED <<dbVars, cache, todo, failed, snap, histVars>>

\* delete_user, and consume_reset once it has rotated the password and used
\* up the token (Passwords models that part), call delete_all_by_user_id.
BeginBulk(r, o, u) ==
    /\ Start(r, o, NoSession, u, "list")
    /\ UNCHANGED <<dbVars, cache, todo, failed, snap, histVars>>

\* update_user.
BeginUpdate(r, o, u) ==
    /\ Start(r, o, NoSession, u, "readUser")
    /\ UNCHANGED <<dbVars, cache, todo, failed, snap, histVars>>

-----------------------------------------------------------------------------
(* find_by_token and find_active_session. *)

\* A hit is returned as it is; a miss, an unreadable entry and a Redis error
\* all fall through to Postgres.
ReadCache(r) ==
    /\ pc[r] = "readCache"
    /\ \/ /\ cache[sess[r]] # "none"
          /\ snap' = [snap EXCEPT ![r] = cache[sess[r]]]
          /\ Goto(r, "check")
       \/ /\ Goto(r, "readRow")
          /\ UNCHANGED snap
    /\ UNCHANGED <<dbVars, cache, reqVars, todo, failed, histVars>>

\* SELECT ... JOIN users; the ttl of the fill is computed right after it.
ReadRow(r) ==
    /\ pc[r] = "readRow"
    /\ IF sess[r] \in row
       THEN /\ snap' = [snap EXCEPT ![r] = account[Owner[sess[r]]]]
            /\ Goto(r, IF sess[r] \in expired THEN "check" ELSE "fill")
       ELSE /\ Goto(r, "rejected")
            /\ UNCHANGED snap
    /\ UNCHANGED <<dbVars, cache, reqVars, todo, failed, histVars>>

\* SETEX of what was read (or, for a login, of what was inserted); a failure
\* is logged and ignored.
Fill(r) ==
    /\ pc[r] = "fill"
    /\ \/ /\ cache' = [cache EXCEPT ![sess[r]] = snap[r]]
          /\ late' = IF sess[r] \notin row \/ \E d \in Requests : Passed(d, sess[r])
                     THEN late \cup {sess[r]} ELSE late \ {sess[r]}
       \/ UNCHANGED <<cache, late>>
    /\ Goto(r, IF op[r] = "login" THEN "ok" ELSE "check")
    /\ UNCHANGED <<dbVars, reqVars, todo, failed, snap, orphaned, lateStart>>

\* The expiry and enabled checks, and what each caller does with the answer.
\* (The last_accessed bump changes nothing the store is asked about.)
Check(r) ==
    /\ pc[r] = "check"
    /\ IF sess[r] \in expired \/ snap[r] # "enabled"
       THEN Goto(r, "rejected") /\ UNCHANGED usr
       ELSE /\ Goto(r, CASE op[r] = "lookup" -> "accepted"
                         [] op[r] = "logout" -> "list"
                         [] OTHER -> "readUser")
            /\ usr' = IF op[r] = "changePassword"
                      THEN [usr EXCEPT ![r] = Owner[sess[r]]] ELSE usr
    /\ snap' = [snap EXCEPT ![r] = "none"]
    /\ UNCHANGED <<dbVars, cache, op, sess, todo, failed, histVars>>

-----------------------------------------------------------------------------
(* create_session. *)

\* INSERT of the row; the foreign key rejects it once the user is gone.
Insert(r) ==
    /\ pc[r] = "insert"
    /\ IF account[Owner[sess[r]]] # "absent"
       THEN row' = row \cup {sess[r]} /\ Goto(r, "fill")
       ELSE UNCHANGED row /\ Goto(r, "rejected")
    /\ UNCHANGED <<minted, expired, account, cache, reqVars,
                   todo, failed, snap, histVars>>

-----------------------------------------------------------------------------
(* delete, delete_all_by_user_id, delete_all_by_user_id_except. *)

\* LogoutFlow and revoke_session first revoke the session's refresh tokens,
\* in a transaction of its own (RefreshTokens models those rows).
RevokeFirst(r) ==
    /\ pc[r] = "revokeFirst"
    /\ Goto(r, "list")
    /\ UNCHANGED <<dbVars, cache, reqVars, todo, failed, snap, histVars>>

\* What the caller does once the sessions are dealt with.
Resume(r) ==
    CASE op[r] \in KickOps -> "writeUser"
      [] op[r] = "deleteUser" -> "deleteUser"
      [] OTHER -> "ok"

\* What it does with an error.  logout, change_password and consume_reset pass
\* it on; LogoutFlow, revoke_session, update_user and delete_user discard it
\* (let _ = ...) and go on as if the sessions were gone.
Shrug(r) ==
    IF op[r] \in {"logout", "changePassword", "resetPassword"} THEN "aborted" ELSE Resume(r)

\* SELECT of the tokens whose keys have to go.  When it fails no DEL is tried.
ListTokens(r) ==
    /\ pc[r] = "list"
    /\ \/ /\ todo' = [todo EXCEPT ![r] = Victims(r) \cap row]
          /\ failed' = [failed EXCEPT ![r] = FALSE]
          /\ Goto(r, "del")
       \/ /\ todo' = [todo EXCEPT ![r] = {}]
          /\ failed' = [failed EXCEPT ![r] = TRUE]
          /\ Goto(r, Shrug(r))
    /\ UNCHANGED <<dbVars, cache, reqVars, snap, histVars>>

\* One DEL, which may fail; a bulk delete carries on with the other keys.
DelKey(r) ==
    /\ pc[r] = "del"
    /\ \E s \in todo[r] :
        /\ todo' = [todo EXCEPT ![r] = @ \ {s}]
        /\ \/ /\ cache' = [cache EXCEPT ![s] = "none"]
              /\ late' = late \ {s}
              /\ orphaned' = orphaned \ {s}
              /\ UNCHANGED failed
           \/ /\ failed' = [failed EXCEPT ![r] = TRUE]
              /\ UNCHANGED <<cache, late, orphaned>>
    /\ UNCHANGED <<dbVars, pc, reqVars, snap, lateStart>>

\* Mutant: the rows are deleted although a DEL has failed.
DelDone_NoAbort(r) ==
    /\ pc[r] = "del"
    /\ todo[r] = {}
    /\ Goto(r, IF op[r] = "verify" THEN "ok" ELSE "revoke")
    /\ UNCHANGED <<dbVars, cache, reqVars, todo, failed, snap, histVars>>

\* All keys tried: delete rows only if no DEL failed.
\* invalidate_cache_by_user_id deletes no rows and reports no failed DEL.
DelDone(r) ==
    /\ pc[r] = "del"
    /\ todo[r] = {}
    /\ Goto(r, IF op[r] = "verify" THEN "ok"
               ELSE IF failed[r] THEN Shrug(r) ELSE "revoke")
    /\ UNCHANGED <<dbVars, cache, reqVars, todo, failed, snap, histVars>>

\* UPDATE refresh_tokens SET revoked = TRUE (rows RefreshTokens models).
RevokeRefresh(r) ==
    /\ pc[r] = "revoke"
    /\ Goto(r, "deleteRows") \/ Goto(r, Shrug(r))
    /\ UNCHANGED <<dbVars, cache, reqVars, todo, failed, snap, histVars>>

\* DELETE FROM user_sessions.  It removes every matching row, the ones
\* inserted since the SELECT included; logout fails if there was none.
DeleteRows(r) ==
    /\ pc[r] = "deleteRows"
    /\ \/ /\ row' = row \ Victims(r)
          /\ Goto(r, IF op[r] = "logout" /\ sess[r] \notin row THEN "rejected"
                     ELSE Resume(r))
       \/ UNCHANGED row /\ Goto(r, Shrug(r))
    /\ UNCHANGED <<minted, expired, account, cache, reqVars, todo, failed,
                   snap, histVars>>

-----------------------------------------------------------------------------
(* update_user, change_password and delete_user. *)

\* users.find_by_id, and what the request asks of the user it read.  A wrong
\* old password ends change_password as an unknown user does.
ReadUser(r) ==
    /\ pc[r] = "readUser"
    /\ \/ /\ account[usr[r]] = "absent" \/ op[r] = "changePassword"
          /\ Goto(r, "rejected")
          /\ UNCHANGED snap
       \/ /\ account[usr[r]] # "absent"
          /\ snap' = [snap EXCEPT ![r] =
                CASE op[r] = "disable" -> "disabled"
                  [] op[r] = "enable" -> "enabled"
                  [] op[r] = "changePassword" -> "none"
                  [] OTHER -> account[usr[r]]]
          /\ Goto(r, IF op[r] \in KickOps \cup {"changePassword"}
                     THEN "list" ELSE "writeUser")
    /\ UNCHANGED <<dbVars, cache, reqVars, todo, failed, histVars>>

\* users.update writes the whole row as it was read, requested changes made.
\* A verified email drops the cached copies, a new password the sessions.
WriteUser(r) ==
    /\ pc[r] = "writeUser"
    /\ account' = IF account[usr[r]] = "absent" THEN account
                  ELSE [account EXCEPT ![usr[r]] = snap[r]]
    /\ Goto(r, IF op[r] \in {"verify", "setPassword"} THEN "list" ELSE "ok")
    /\ UNCHANGED <<row, minted, expired, cache, reqVars, todo, failed, snap,
                   histVars>>

\* users.delete removes the users row, and the cascade what is left of its
\* sessions, whether or not their keys could be removed from Redis.
DeleteUser(r) ==
    /\ pc[r] = "deleteUser"
    /\ account' = [account EXCEPT ![usr[r]] = "absent"]
    /\ row' = row \ SessionsOf(usr[r])
    /\ orphaned' = IF failed[r]
                   THEN orphaned \cup {s \in row \cap SessionsOf(usr[r]) :
                                           cache[s] # "none"}
                   ELSE orphaned
    /\ Goto(r, "ok")
    /\ UNCHANGED <<minted, expired, cache, reqVars, todo, failed, snap, late,
                   lateStart>>

-----------------------------------------------------------------------------
(* Answers, dropped requests, and the environment. *)

Forget(r) ==
    /\ Goto(r, "idle")
    /\ op' = [op EXCEPT ![r] = "lookup"]
    /\ sess' = [sess EXCEPT ![r] = NoSession]
    /\ usr' = [usr EXCEPT ![r] = NoUser]
    /\ todo' = [todo EXCEPT ![r] = {}]
    /\ failed' = [failed EXCEPT ![r] = FALSE]
    /\ snap' = [snap EXCEPT ![r] = "none"]
    /\ lateStart' = [lateStart EXCEPT ![r] = FALSE]
    /\ UNCHANGED <<dbVars, cache, late, orphaned>>

Answer(r) == pc[r] \in Finished /\ Forget(r)

\* The future of the handler is dropped at an await.
Drop(r) == pc[r] \in Running /\ Forget(r)

\* expires_at of a session passes.
Expire(s) ==
    /\ s \in minted \ expired
    /\ expired' = expired \cup {s}
    /\ UNCHANGED <<row, minted, account, cache, pc, reqVars,
                   todo, failed, snap, histVars>>

\* Mutant: entries are written without a ttl, and only those of live
\* sessions are ever replaced.
Evict_NoTtl(s) ==
    /\ cache[s] # "none" /\ s \in row
    /\ cache' = [cache EXCEPT ![s] = "none"]
    /\ late' = late \ {s}
    /\ orphaned' = orphaned \ {s}
    /\ UNCHANGED <<dbVars, pc, reqVars, todo, failed, snap, lateStart>>

\* Redis drops a key: its ttl has run out, or it was evicted.
Evict(s) ==
    /\ cache[s] # "none"
    /\ cache' = [cache EXCEPT ![s] = "none"]
    /\ late' = late \ {s}
    /\ orphaned' = orphaned \ {s}
    /\ UNCHANGED <<dbVars, pc, reqVars, todo, failed, snap, lateStart>>

\* The part of Evict that the ttl of SETEX guarantees.
TtlExpire(s) == s \in expired /\ Evict(s)

Step(r) ==
    \/ ReadCache(r) \/ ReadRow(r) \/ Fill(r) \/ Check(r) \/ Insert(r)
    \/ RevokeFirst(r) \/ ListTokens(r) \/ DelKey(r) \/ DelDone(r)
    \/ RevokeRefresh(r) \/ DeleteRows(r) \/ ReadUser(r) \/ WriteUser(r)
    \/ DeleteUser(r) \/ Answer(r)

Begin(r) ==
    \/ \E s \in Sessions : \/ \E o \in LookupOps : BeginLookup(r, o, s)
                           \/ BeginLogin(r, s)
                           \/ BeginEndSession(r, s)
    \/ \E u \in Users : \/ \E o \in BulkOps : BeginBulk(r, o, u)
                        \/ \E o \in UpdateOps : BeginUpdate(r, o, u)

Next ==
    \/ \E r \in Requests : Begin(r) \/ Step(r) \/ Drop(r)
    \/ \E s \in Sessions : Expire(s) \/ Evict(s)

Spec == Init /\ [][Next]_vars

\* Handlers run on (tokio polls every ready future), time passes, and Redis
\* enforces the ttl of SETEX.
Fairness ==
    /\ \A r \in Requests : WF_vars(Step(r))
    /\ \A s \in Sessions : WF_vars(Expire(s)) /\ WF_vars(TtlExpire(s))

FairSpec == Spec /\ Fairness

-----------------------------------------------------------------------------
(* Properties. *)

\* The variables stay in their types.
TypeOK ==
    /\ row \subseteq minted /\ minted \subseteq Sessions
    /\ expired \subseteq minted
    /\ account \in [Users -> AccountStates]
    /\ cache \in [Sessions -> {"none"} \cup AccountStates]
    /\ pc \in [Requests -> PCs]
    /\ op \in [Requests -> Ops]
    /\ sess \in [Requests -> Sessions \cup {NoSession}]
    /\ usr \in [Requests -> Users \cup {NoUser}]
    /\ todo \in [Requests -> SUBSET Sessions]
    /\ failed \in [Requests -> BOOLEAN]
    /\ snap \in [Requests -> {"none"} \cup AccountStates]
    /\ late \subseteq Sessions /\ orphaned \subseteq Sessions
    /\ lateStart \in [Requests -> BOOLEAN]

\* A session that is still served from Redis after its row is gone was put
\* there by a fill that ran after the deleting request had passed its key,
\* or was left behind by a delete_user that went on after its SELECT of the
\* keys, or one of its DELs, had failed.  There is no third way: every other
\* deleter DELs before it DELETEs, and gives up when it cannot.
StaleEntryExplained ==
    \A s \in Sessions :
        cache[s] # "none" /\ s \notin row => s \in late \cup orphaned

\* The half of it that makes it inductive: once a deleting request has passed
\* a key, with no DEL failed, an entry under that key came from a late fill.
PassedKeysExplained ==
    \A d \in Requests, s \in Sessions :
        Passed(d, s) /\ ~failed[d] /\ cache[s] # "none" => s \in late \cup orphaned

\* A session whose row is gone is, from some point on, never served from
\* Redis again: its entry has a ttl and nobody can fill it anew.
StaleEntryDrains ==
    \A s \in Sessions :
        (s \in minted /\ s \notin row) ~> [](s \notin row => cache[s] = "none")

\* An account that stays disabled is in the end not served from Redis as
\* enabled: also when the sessions were not kicked because a DEL failed, and
\* when a fill wrote back what it had read before (update_user kicks first
\* and writes the users row afterwards).
DisabledDrains ==
    \A s \in Sessions :
        <>[](account[Owner[s]] = "disabled") => <>[](cache[s] # "enabled")

\* What repository.rs:6-10 promises: no window in which the row is gone but
\* the session is still served out of cache.  (A lookup that starts with the
\* row gone is never accepted.)
NoHitAfterDelete ==
    \A r \in Requests : ~(pc[r] = "accepted" /\ lateStart[r])

\* Fail-closed logout: a logout that reports success has ended the session.
LogoutEndsSession ==
    \A r \in Requests :
        pc[r] = "ok" /\ op[r] \in {"logout", "endSession"} => sess[r] \notin row

\* If Redis cannot be reached the operation is aborted: no row is removed by
\* a request one of whose DELs failed, or that could not read which keys to
\* DEL.  (The one exception is the cascade of delete_user, which goes on;
\* StaleEntryExplained accounts for it.)
AbortKeepsRows ==
    [][\A r \in Requests, s \in row \ row' :
           pc'[r] # pc[r] /\ op[r] # "deleteUser" => ~failed[r]]_vars
=============================================================================
