--------------------------- MODULE Authorization ----------------------------
(***************************************************************************)
(* The authorization code grant of one user and one client: GET            *)
(* /oauth/authorize, the consent screen, and the exchange of the code at   *)
(* /oauth/token, with an administrator revoking the consent and the        *)
(* redirect URI meanwhile.  Pending requests and codes live in Redis, the  *)
(* consent row and the redirect URIs in Postgres.  Each action is one      *)
(* statement or command; a handler may fail or be dropped between two.     *)
(***************************************************************************)
EXTENDS Naturals

CONSTANTS
    Requests, Sessions, Scopes,
    Asked,                \* scope parameters that clients send
    Pendings, Codes,      \* random ids, each drawn at most once
    Unused, Gone,         \* key never written; key deleted or expired
    NoId,                 \* no row, no session, no id
    MaxRow                \* bound: consent rows inserted

Ids == Pendings \cup Codes
Entry == [sid : Sessions, scope : SUBSET Scopes]

ASSUME DistinctAssumption ==
    /\ Pendings \cap Codes = {}
    /\ NoId \notin Ids \cup Sessions
    /\ Unused # Gone /\ {Unused, Gone} \cap Entry = {}
ASSUME AskedAssumption == Asked \subseteq SUBSET Scopes
ASSUME MaxRowAssumption == MaxRow \in Nat

VARIABLES
    registered,  \* the redirect URI is in client_redirect_uris
    row,         \* user_consents row of the pair: its number, 0 for none
    granted,     \* its scopes
    rows,        \* rows inserted so far: row ids are never reused
    store,       \* Redis: pending:<id> and authcode:<id>
    pc, op, sid, scope,
    id,          \* pending request taken, or code consumed
    found,       \* row number that grant() found, 0 for none
    merged       \* scopes grant() is about to write

\* History, read by properties only.
VARIABLES
    fresh,       \* scopes allowed by the user since the consent was last revoked
    since,       \* fresh when GET /oauth/authorize began, and what was allowed since
    uriSeen,     \* the URI was registered at some time since the request began
    stale,       \* another grant was written since the request's grant() read the row
    overlapped,  \* such a request has written the row
    denied,      \* pending requests the user refused
    minted,      \* codes put for each pending request
    redeemed     \* tokens issued for each code

locals == <<op, sid, scope, id, found, merged, since, uriSeen, stale>>
tables == <<registered, row, granted, rows>>
past == <<fresh, overlapped, denied, minted, redeemed>>
vars == <<tables, store, pc, locals, past>>

Init ==
    /\ registered = TRUE
    /\ row = 0 /\ granted = {} /\ rows = 0
    /\ store = [k \in Ids |-> Unused]
    /\ pc = [r \in Requests |-> "idle"] /\ op = [r \in Requests |-> "none"]
    /\ sid = [r \in Requests |-> NoId] /\ scope = [r \in Requests |-> {}]
    /\ id = [r \in Requests |-> NoId]
    /\ found = [r \in Requests |-> 0] /\ merged = [r \in Requests |-> {}]
    /\ fresh = {} /\ since = [r \in Requests |-> {}]
    /\ uriSeen = [r \in Requests |-> FALSE]
    /\ stale = [r \in Requests |-> FALSE] /\ overlapped = FALSE
    /\ denied = {}
    /\ minted = [p \in Pendings |-> 0] /\ redeemed = [c \in Codes |-> 0]

Goto(r, label) == pc' = [pc EXCEPT ![r] = label]

\* The handler returns; its locals are gone.
End(r) ==
    /\ Goto(r, "idle")
    /\ op' = [op EXCEPT ![r] = "none"]
    /\ sid' = [sid EXCEPT ![r] = NoId] /\ scope' = [scope EXCEPT ![r] = {}]
    /\ id' = [id EXCEPT ![r] = NoId]
    /\ found' = [found EXCEPT ![r] = 0] /\ merged' = [merged EXCEPT ![r] = {}]
    /\ since' = [since EXCEPT ![r] = {}]
    /\ uriSeen' = [uriSeen EXCEPT ![r] = FALSE]
    /\ stale' = [stale EXCEPT ![r] = FALSE]

Proceed(r, label) == Goto(r, label) /\ UNCHANGED locals

-----------------------------------------------------------------------------
(* A request that passed the session and the client lookup.  Either may be *)
(* answered from a cache that is behind the table, so a session logged out *)
(* in the meantime passes too.                                             *)

Begin(r, kind, s, sc, k, label) ==
    /\ op' = [op EXCEPT ![r] = kind] /\ sid' = [sid EXCEPT ![r] = s]
    /\ scope' = [scope EXCEPT ![r] = sc] /\ id' = [id EXCEPT ![r] = k]
    /\ since' = [since EXCEPT ![r] = IF kind = "authorize" THEN fresh ELSE {}]
    /\ uriSeen' = [uriSeen EXCEPT ![r] = kind # "exchange" /\ registered]
    /\ Goto(r, label)
    /\ UNCHANGED <<found, merged, stale>>

\* GET /oauth/authorize with a requested scope.
BeginAuthorize(r, s, sc) ==
    /\ pc[r] = "idle"
    /\ Begin(r, "authorize", s, sc, NoId, "uri")
    /\ UNCHANGED <<tables, store, past>>

-----------------------------------------------------------------------------
(* GET /oauth/authorize and complete_after_consent.                        *)

\* Mutant: after the consent screen the URI is not looked up again.
CheckUri_NotAfterConsent(r) ==
    /\ pc[r] = "uri"
    /\ \/ /\ registered \/ op[r] = "submit"
          /\ Proceed(r, IF op[r] = "authorize" THEN "hasConsent" ELSE "find")
       \/ End(r)
    /\ UNCHANGED <<tables, store, past>>

\* is_redirect_uri_allowed reads Postgres; in authorize the scope and PKCE
\* checks on the request's parameters follow, which may refuse it.
CheckUri(r) ==
    /\ pc[r] = "uri"
    /\ \/ /\ registered
          /\ Proceed(r, IF op[r] = "authorize" THEN "hasConsent" ELSE "find")
       \/ End(r)
    /\ UNCHANGED <<tables, store, past>>

\* Mutant: one granted scope is enough.
HasConsent_Any(sc) == sc = {} \/ (row # 0 /\ sc \cap granted # {})

\* ConsentService::has_consent.
HasConsent(sc) == sc = {} \/ (row # 0 /\ sc \subseteq granted)

\* A code at once, the consent screen, or with prompt=none an error; with
\* prompt=consent the row is not read.
DecideConsent(r) ==
    /\ pc[r] = "hasConsent"
    /\ \/ HasConsent(scope[r]) /\ Proceed(r, "putCode")
       \/ Proceed(r, "putPending")
       \/ End(r)
    /\ UNCHANGED <<tables, store, past>>

\* Mutant: the entry is not bound to a session.
PutPending_Unbound(r, p) ==
    /\ pc[r] = "putPending" /\ store[p] = Unused
    /\ store' = [store EXCEPT ![p] = [sid |-> NoId, scope |-> scope[r]]]
    /\ End(r)
    /\ UNCHANGED <<tables, past>>

\* PendingAuthorizationStore::put under a fresh request_id.
PutPending(r, p) ==
    /\ pc[r] = "putPending" /\ store[p] = Unused
    /\ store' = [store EXCEPT ![p] = [sid |-> sid[r], scope |-> scope[r]]]
    /\ End(r)
    /\ UNCHANGED <<tables, past>>

\* issue_code: AuthCodeStore::put under a fresh code.
PutCode(r, c) ==
    /\ pc[r] = "putCode" /\ store[c] = Unused
    /\ store' = [store EXCEPT ![c] = [sid |-> sid[r], scope |-> scope[r]]]
    /\ minted' = IF op[r] = "submit"
                 THEN [minted EXCEPT ![id[r]] = @ + 1] ELSE minted
    /\ End(r)
    /\ UNCHANGED <<tables, fresh, overlapped, denied, redeemed>>

-----------------------------------------------------------------------------
(* POST /consent.                                                          *)

\* PendingAuthorizationStore::take: GET and DEL in one script.
TakeEntry(k) == store[k] \in Entry /\ store' = [store EXCEPT ![k] = Gone]

\* What the form's handler does with the entry it has read.  Another
\* session's request and a denial end here, otherwise the session goes on to
\* complete_after_consent.
Submit(r, s, p) ==
    \/ /\ store[p].sid = s
       /\ Begin(r, "submit", s, store[p].scope, p, "uri") /\ UNCHANGED denied
    \/ store[p].sid = s /\ denied' = denied \cup {p} /\ UNCHANGED <<pc, locals>>
    \/ store[p].sid # s /\ UNCHANGED <<pc, locals, denied>>

\* Mutant: the pending request is read and left to expire.
Take_NoDel(r, s, p) ==
    /\ pc[r] = "idle" /\ store[p] \in Entry
    /\ Submit(r, s, p)
    /\ UNCHANGED <<store, tables, fresh, overlapped, minted, redeemed>>

\* The pending request is taken before anything is compared.  An id that is
\* not there changes nothing.
Take(r, s, p) ==
    /\ pc[r] = "idle" /\ TakeEntry(p)
    /\ Submit(r, s, p)
    /\ UNCHANGED <<tables, fresh, overlapped, minted, redeemed>>

\* Mutant: the row keeps only what was asked for last.
FindGrant_Replace(r) ==
    /\ pc[r] = "find"
    /\ found' = [found EXCEPT ![r] = row]
    /\ merged' = [merged EXCEPT ![r] = scope[r]]
    /\ stale' = [stale EXCEPT ![r] = FALSE]
    /\ Goto(r, "write")
    /\ UNCHANGED <<tables, store, op, sid, scope, id, since, uriSeen, past>>

\* ConsentService::grant: SELECT, then the union with the requested scopes.
FindGrant(r) ==
    /\ pc[r] = "find"
    /\ found' = [found EXCEPT ![r] = row]
    /\ merged' = [merged EXCEPT ![r] = scope[r] \cup (IF row = 0 THEN {} ELSE granted)]
    /\ stale' = [stale EXCEPT ![r] = FALSE]
    /\ Goto(r, "write")
    /\ UNCHANGED <<tables, store, op, sid, scope, id, since, uriSeen, past>>

\* A grant that reaches the table.
Grant(r, n) ==
    /\ row' = n /\ granted' = merged[r]
    /\ fresh' = fresh \cup scope[r]
    /\ since' = [q \in Requests |->
                    IF op[q] = "authorize" THEN since[q] \cup scope[r] ELSE since[q]]
    /\ stale' = [q \in Requests |-> stale[q] \/ (q # r /\ pc[q] = "write")]
    /\ overlapped' = (overlapped \/ stale[r])
    /\ Goto(r, "putCode")
    /\ UNCHANGED <<op, sid, scope, id, found, merged, uriSeen>>

\* Mutant: one INSERT ... ON CONFLICT DO UPDATE for both cases.
WriteGrant_Upsert(r) ==
    /\ pc[r] = "write"
    /\ \/ row # 0 /\ Grant(r, row) /\ UNCHANGED rows
       \/ row = 0 /\ rows < MaxRow /\ rows' = rows + 1 /\ Grant(r, rows + 1)
    /\ UNCHANGED <<registered, store, denied, minted, redeemed>>

\* INSERT, refused by UNIQUE (user_id, client_id) when another request has
\* inserted a row; or UPDATE ... WHERE id, which matches no row when the one
\* found was deleted in the meantime, and the request goes on.
WriteGrant(r) ==
    /\ pc[r] = "write"
    /\ \/ found[r] # 0 /\ row = found[r] /\ Grant(r, row) /\ UNCHANGED rows
       \/ /\ found[r] # 0 /\ row # found[r]
          /\ Proceed(r, "putCode") /\ UNCHANGED <<row, granted, rows, fresh, overlapped>>
       \/ /\ found[r] = 0 /\ row = 0 /\ rows < MaxRow
          /\ rows' = rows + 1 /\ Grant(r, rows + 1)
       \/ /\ found[r] = 0 /\ row # 0
          /\ End(r) /\ UNCHANGED <<row, granted, rows, fresh, overlapped>>
    /\ UNCHANGED <<registered, store, denied, minted, redeemed>>

-----------------------------------------------------------------------------
(* POST /oauth/token with grant_type=authorization_code, client            *)
(* authenticated.                                                          *)

\* What the exchange does with the entry it has read: a wrong client,
\* redirect_uri or code_verifier is answered with an error, the code is spent.
Redeem(r, c) ==
    \/ Begin(r, "exchange", store[c].sid, store[c].scope, c, "issue")
    \/ UNCHANGED <<pc, locals>>

\* Mutant: the code is read and left to expire.
Consume_NoDel(r, c) ==
    /\ pc[r] = "idle" /\ store[c] \in Entry
    /\ Redeem(r, c)
    /\ UNCHANGED <<store, tables, past>>

\* AuthCodeStore::consume, with the same script.
Consume(r, c) ==
    /\ pc[r] = "idle" /\ TakeEntry(c)
    /\ Redeem(r, c)
    /\ UNCHANGED <<tables, past>>

\* users.find_by_id and sessions.find_by_id, then TokenIssuer::issue in a
\* transaction.  RefreshTokens models the race with the session's deletion;
\* here a missing session is an Abort.
Issue(r) ==
    /\ pc[r] = "issue"
    /\ redeemed' = [redeemed EXCEPT ![id[r]] = @ + 1]
    /\ End(r)
    /\ UNCHANGED <<tables, store, fresh, overlapped, denied, minted>>

-----------------------------------------------------------------------------
(* The environment: errors and dropped requests, Redis expiry, and the     *)
(* administrator.                                                          *)

Abort(r) ==
    /\ pc[r] # "idle"
    /\ End(r)
    /\ UNCHANGED <<tables, store, past>>

Expire(k) ==
    /\ store[k] \in Entry
    /\ store' = [store EXCEPT ![k] = Gone]
    /\ UNCHANGED <<tables, pc, locals, past>>

\* revoke_consent: DELETE by id.
RevokeConsent ==
    /\ row # 0
    /\ row' = 0 /\ granted' = {} /\ fresh' = {} /\ overlapped' = FALSE
    /\ stale' = [r \in Requests |-> FALSE]
    /\ UNCHANGED <<registered, rows, store, pc, op, sid, scope, id, found,
                   merged, since, uriSeen, denied, minted, redeemed>>

\* add_redirect_uri and remove_redirect_uri.
SetRegistered(b) ==
    /\ registered # b
    /\ registered' = b
    /\ uriSeen' = [r \in Requests |-> uriSeen[r] \/ (b /\ op[r] \in {"authorize", "submit"})]
    /\ UNCHANGED <<row, granted, rows, store, pc, op, sid, scope, id, found,
                   merged, since, stale, past>>

Step(r) ==
    \/ CheckUri(r) \/ DecideConsent(r) \/ FindGrant(r) \/ WriteGrant(r)
    \/ Issue(r) \/ Abort(r)
    \/ \E s \in Sessions, sc \in Asked : BeginAuthorize(r, s, sc)
    \/ \E s \in Sessions, p \in Pendings : Take(r, s, p)
    \/ \E p \in Pendings : PutPending(r, p)
    \/ \E c \in Codes : PutCode(r, c) \/ Consume(r, c)

Next ==
    \/ \E r \in Requests : Step(r)
    \/ \E k \in Ids : Expire(k)
    \/ RevokeConsent
    \/ \E b \in BOOLEAN : SetRegistered(b)

Spec == Init /\ [][Next]_vars

-----------------------------------------------------------------------------
(* Properties.                                                             *)

Labels == {"idle", "uri", "hasConsent", "putPending", "putCode",
           "find", "write", "issue"}

TypeOK ==
    /\ registered \in BOOLEAN
    /\ row \in 0..MaxRow /\ rows \in 0..MaxRow /\ granted \subseteq Scopes
    /\ store \in [Ids -> Entry \cup {Unused, Gone}]
    /\ pc \in [Requests -> Labels]
    /\ op \in [Requests -> {"none", "authorize", "submit", "exchange"}]
    /\ sid \in [Requests -> Sessions \cup {NoId}]
    /\ scope \in [Requests -> SUBSET Scopes]
    /\ id \in [Requests -> Ids \cup {NoId}]
    /\ found \in [Requests -> 0..MaxRow]
    /\ merged \in [Requests -> SUBSET Scopes]
    /\ fresh \subseteq Scopes /\ since \in [Requests -> SUBSET Scopes]
    /\ uriSeen \in [Requests -> BOOLEAN] /\ stale \in [Requests -> BOOLEAN]
    /\ overlapped \in BOOLEAN /\ denied \subseteq Pendings
    /\ minted \in [Pendings -> Nat] /\ redeemed \in [Codes -> Nat]

\* However many times and in whatever order the consent form is submitted,
\* one pending request yields at most one code, and none once the user has
\* refused it (pending_store.rs take); and a code yields at most one set of
\* tokens, also when it is presented in parallel (code.rs consume).
AnsweredAndRedeemedOnce ==
    /\ \A p \in Pendings : minted[p] <= IF p \in denied THEN 0 ELSE 1
    /\ \A c \in Codes : redeemed[c] <= 1

\* A revoked consent does not come back through a grant() that had read the
\* old row: what the row holds was allowed after the last revocation
\* (consent/service.rs grant, UPDATE by row id).
RevokedStaysRevoked == row # 0 => granted \subseteq fresh

\* The row remembers everything allowed since the last revocation, unless a
\* grant() wrote over another one that came between its SELECT and its
\* UPDATE (consent/service.rs grant merges).
GrantsAccumulate == row # 0 /\ ~overlapped => fresh \subseteq granted

\* A code issued without a consent screen carries only scopes that the user
\* had allowed, and that no revocation before the request had taken back
\* (authorize/flow.rs has_consent).
SilentCodeCovered ==
    \A r \in Requests :
        pc[r] = "putCode" /\ op[r] = "authorize" => scope[r] \subseteq since[r]

\* A code is sent only to a URI that was registered at some time during the
\* request that issues it: the time spent on the consent screen does not
\* count (authorize/flow.rs complete_after_consent).
RedirectRevalidated ==
    \A r \in Requests : pc[r] = "putCode" => uriSeen[r]
=============================================================================
