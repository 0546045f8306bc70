------------------------------- MODULE Logout -------------------------------
(***************************************************************************)
(* The end of one session as clients see it.  GET /oauth/logout lists the  *)
(* clients with a refresh token of the session, deletes the session and    *)
(* notifies them; meanwhile clients obtain tokens, call /oauth/userinfo    *)
(* and /oauth/introspect, and the session, the user, a client or the       *)
(* signing key may be taken away.  Every await is a place where steps of   *)
(* others come in between.                                                 *)
(***************************************************************************)
EXTENDS Naturals

CONSTANTS
    Requests, Clients,
    Reachable    \* clients with an http(s) backchannel_logout_uri

VARIABLES
    row,       \* the session's row exists
    enabled,   \* the user's row says so
    key,       \* the key that signed the session's tokens is in the key set
    clients,   \* clients with a row
    token,     \* of each client: its refresh token rows of the session
    tasks,     \* logout tokens on their way
    pc, op,
    found      \* clients listed, then loaded

\* History, read by properties only.
VARIABLES
    members,   \* clients that obtained tokens of the session
    told,      \* clients for which a notification was started
    late,      \* clients that obtained tokens after a logout's list
    silent,    \* the session was ended otherwise, or its logout was cut short
    seen       \* what was true when the token came in, or has become so since

tables == <<row, enabled, key, clients, token>>
locals == <<op, found, seen>>
past == <<members, told, late, silent>>
vars == <<tables, tasks, pc, locals, past>>

Facts == {"row", "enabled", "key"}
Now == {f \in Facts : \/ f = "row" /\ row
                      \/ f = "enabled" /\ enabled
                      \/ f = "key" /\ key}

Init ==
    /\ row = TRUE /\ enabled = TRUE /\ key = TRUE
    /\ clients = Clients /\ token = [c \in Clients |-> "none"]
    /\ tasks = {}
    /\ pc = [r \in Requests |-> "idle"] /\ op = [r \in Requests |-> "none"]
    /\ found = [r \in Requests |-> {}]
    /\ members = {} /\ told = {} /\ late = {} /\ silent = FALSE
    /\ seen = [r \in Requests |-> {}]

Goto(r, label) == pc' = [pc EXCEPT ![r] = label]

Proceed(r, label) == Goto(r, label) /\ UNCHANGED locals

End(r) ==
    /\ Goto(r, "idle")
    /\ op' = [op EXCEPT ![r] = "none"]
    /\ found' = [found EXCEPT ![r] = {}] /\ seen' = [seen EXCEPT ![r] = {}]

\* Facts that an operation's answer depends on.
Watched(kind) ==
    CASE kind = "logout" -> {} [] kind = "introspect" -> {"key"} [] OTHER -> Facts

Begin(r, kind, label) ==
    /\ pc[r] = "idle"
    /\ op' = [op EXCEPT ![r] = kind]
    /\ seen' = [seen EXCEPT ![r] = Now \cap Watched(kind)]
    /\ Goto(r, label)
    /\ UNCHANGED <<tables, tasks, found, past>>

-----------------------------------------------------------------------------
(* LogoutFlow::logout.                                                     *)

\* A signature by a key that is not in the set is refused.
ValidJwt == key

\* resolve_session_id: the sid of an id_token_hint that is valid, or else a
\* cookie that find_active_session accepts, perhaps from the cache.  Without
\* a session there is nothing to end.
BeginLogout(r) == Begin(r, "logout", "list")

\* Mutant: clients whose tokens are all revoked are left out.
ListClients_Active(r) ==
    /\ pc[r] = "list"
    /\ found' = [found EXCEPT ![r] = {c \in Clients : token[c] = "active"}]
    /\ Goto(r, "load")
    /\ UNCHANGED <<tables, tasks, op, seen, past>>

\* find_client_ids_by_session_id, revoked rows included.
ListClients(r) ==
    /\ pc[r] = "list"
    /\ found' = [found EXCEPT ![r] = {c \in Clients : token[c] # "none"}]
    /\ Goto(r, "load")
    /\ UNCHANGED <<tables, tasks, op, seen, past>>

\* clients.find_by_id for each of them.
LoadClients(r) ==
    /\ pc[r] = "load"
    /\ found' = [found EXCEPT ![r] = @ \cap clients]
    /\ Goto(r, "revoke")
    /\ UNCHANGED <<tables, tasks, op, seen, past>>

Revoked(t) == IF t = "active" THEN "revoked" ELSE t

\* revoke_by_session_id_in_tx and COMMIT.
RevokeFamily(r) ==
    /\ pc[r] = "revoke"
    /\ token' = [c \in Clients |-> Revoked(token[c])]
    /\ Proceed(r, "delete")
    /\ UNCHANGED <<row, enabled, key, clients, tasks, past>>

\* sessions.delete revokes what was granted since, and deletes; an error of
\* Redis or of Postgres, at either, is discarded.
DeleteSession(r) ==
    /\ pc[r] = "delete"
    /\ \/ /\ row' = FALSE
          /\ token' = [c \in Clients |-> "none"]
       \/ UNCHANGED row /\ token' = [c \in Clients |-> Revoked(token[c])]
       \/ UNCHANGED <<row, token>>
    /\ Proceed(r, "notify")
    /\ UNCHANGED <<enabled, key, clients, tasks, past>>

\* notify_client: only an http(s) URI gets a task of its own.
NotifyClients(r) ==
    /\ pc[r] = "notify"
    /\ tasks' = tasks \cup (found[r] \cap Reachable)
    /\ told' = told \cup found[r]
    /\ End(r)
    /\ UNCHANGED <<tables, members, late, silent>>

\* One POST, whose failure is logged; nothing is sent again.
Deliver(c) ==
    /\ c \in tasks
    /\ tasks' = tasks \ {c}
    /\ UNCHANGED <<tables, pc, locals, past>>

-----------------------------------------------------------------------------
(* Protected resources.                                                    *)

\* GET /oauth/userinfo with an access token of the session: typ, signature
\* and scope are checked before the first query.
BeginUserinfo(r) ==
    /\ members # {} /\ ValidJwt
    /\ Begin(r, "userinfo", "user")

FindUser(r) ==
    /\ pc[r] = "user"
    /\ IF enabled THEN Proceed(r, "session") ELSE End(r)
    /\ UNCHANGED <<tables, tasks, past>>

\* Mutant: the token is not bound back to its session.
FindSession_Unbound(r) ==
    /\ pc[r] = "session"
    /\ Proceed(r, "ok")
    /\ UNCHANGED <<tables, tasks, past>>

\* sessions.find_by_id, from Postgres.
FindSession(r) ==
    /\ pc[r] = "session"
    /\ IF row THEN Proceed(r, "ok") ELSE End(r)
    /\ UNCHANGED <<tables, tasks, past>>

\* POST /oauth/introspect: the client is loaded and authenticated first.
BeginIntrospect(r) ==
    /\ members # {}
    /\ Begin(r, "introspect", "validate")

\* validate, audience_matches: "active" is true or false.
Validate(r) ==
    /\ pc[r] = "validate"
    /\ \/ ValidJwt /\ Proceed(r, "ok")
       \/ End(r)
    /\ UNCHANGED <<tables, tasks, past>>

Answer(r) ==
    /\ pc[r] = "ok"
    /\ End(r)
    /\ UNCHANGED <<tables, tasks, past>>

-----------------------------------------------------------------------------
(* Everything else.                                                        *)

\* A token response: TokenIssuer::issue inserted a refresh token, which the
\* foreign key allows while the session has its row.
Grant(c) ==
    /\ row /\ key /\ c \in clients
    /\ token' = [token EXCEPT ![c] = "active"]
    /\ members' = members \cup {c}
    /\ late' = IF \E r \in Requests : pc[r] \in {"load", "revoke", "delete"}
               THEN late \cup {c} ELSE late
    /\ UNCHANGED <<row, enabled, key, clients, tasks, pc, locals, told, silent>>

\* POST /oauth/revoke.
RevokeToken(c) ==
    /\ token[c] = "active"
    /\ token' = [token EXCEPT ![c] = "revoked"]
    /\ UNCHANGED <<row, enabled, key, clients, tasks, pc, locals, past>>

\* POST /auth/logout, revoke_session, a password change: sessions.delete
\* without notifications.
EndElsewhere ==
    /\ row
    /\ row' = FALSE /\ token' = [c \in Clients |-> "none"]
    /\ silent' = TRUE
    /\ UNCHANGED <<enabled, key, clients, tasks, pc, locals, members, told, late>>

\* delete_client: its refresh tokens go with it.
DeleteClient(c) ==
    /\ c \in clients
    /\ clients' = clients \ {c} /\ token' = [token EXCEPT ![c] = "none"]
    /\ members' = members \ {c} /\ told' = told \ {c} /\ late' = late \ {c}
    /\ UNCHANGED <<row, enabled, key, tasks, pc, locals, silent>>

\* update_user.
SetEnabled(b) ==
    /\ enabled # b
    /\ enabled' = b
    /\ seen' = [r \in Requests |->
                   IF b /\ op[r] = "userinfo" THEN seen[r] \cup {"enabled"} ELSE seen[r]]
    /\ UNCHANGED <<row, key, clients, token, tasks, pc, op, found, past>>

\* retire_key.
RetireKey ==
    /\ key
    /\ key' = FALSE
    /\ UNCHANGED <<row, enabled, clients, token, tasks, pc, locals, past>>

\* An error, or the client goes away: at "notify" while DELETE is awaited.
Abort(r) ==
    /\ pc[r] # "idle"
    /\ silent' = (silent \/ pc[r] = "notify")
    /\ End(r)
    /\ UNCHANGED <<tables, tasks, members, told, late>>

Step(r) ==
    \/ BeginLogout(r) \/ ListClients(r) \/ LoadClients(r)
    \/ RevokeFamily(r) \/ DeleteSession(r) \/ NotifyClients(r)
    \/ BeginUserinfo(r) \/ FindUser(r) \/ FindSession(r)
    \/ BeginIntrospect(r) \/ Validate(r) \/ Answer(r) \/ Abort(r)

Next ==
    \/ \E r \in Requests : Step(r)
    \/ \E c \in Clients : Deliver(c) \/ Grant(c) \/ RevokeToken(c) \/ DeleteClient(c)
    \/ \E b \in BOOLEAN : SetEnabled(b)
    \/ EndElsewhere \/ RetireKey

Spec == Init /\ [][Next]_vars

-----------------------------------------------------------------------------
(* Properties.                                                             *)

Labels == {"idle", "list", "load", "revoke", "delete",
           "notify", "user", "session", "validate", "ok"}

TypeOK ==
    /\ row \in BOOLEAN /\ enabled \in BOOLEAN /\ key \in BOOLEAN
    /\ clients \subseteq Clients /\ token \in [Clients -> {"none", "active", "revoked"}]
    /\ tasks \subseteq Reachable
    /\ pc \in [Requests -> Labels]
    /\ op \in [Requests -> {"none", "logout", "userinfo", "introspect"}]
    /\ found \in [Requests -> SUBSET Clients] /\ seen \in [Requests -> SUBSET Facts]
    /\ members \subseteq Clients /\ told \subseteq Clients /\ late \subseteq Clients
    /\ silent \in BOOLEAN

\* Once a logout has ended the session, every client that took part in it is
\* notified or about to be, however many logouts, grants and revocations
\* overlap; except one that obtained its tokens after the list was read, and
\* all of them when the logout was cut short on the DELETE or the session
\* was ended by other means (logout/flow.rs logout).
ClientsTold ==
    ~row /\ ~silent =>
        \A c \in members \ late :
            c \in told \/ \E r \in Requests : pc[r] = "notify" /\ c \in found[r]

\* /oauth/userinfo answers only for a session whose row existed when the
\* request came in, and for a user enabled at some time since; neither it
\* nor introspection accepts a token whose key had been retired by then
\* (oidc/resource.rs userinfo, token/introspect.rs, jwt.rs).
ResourcesHonourState ==
    \A r \in Requests :
        pc[r] = "ok" =>
            /\ "key" \in seen[r]
            /\ op[r] = "userinfo" => {"row", "enabled"} \subseteq seen[r]
=============================================================================
