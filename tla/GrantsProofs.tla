---------------------------- MODULE GrantsProofs ----------------------------
(***************************************************************************)
(* The inductive invariant of the authorization code grant, for any number *)
(* of requests, sessions, scopes and ids, and the theorems about both      *)
(* grants that ask a user.                                                 *)
(***************************************************************************)
EXTENDS MCGrants, TLAPS

\* A request that has taken its entry has it for itself: the key is gone, and
\* nothing has come of it yet.
OneAnswer ==
    /\ \A r \in Requests :
          /\ op[r] = "submit" =>
                /\ id[r] \in Pendings /\ store[id[r]] = Gone
                /\ id[r] \notin denied /\ minted[id[r]] = 0
          /\ op[r] = "exchange" =>
                id[r] \in Codes /\ store[id[r]] = Gone /\ redeemed[id[r]] = 0
          /\ \A q \in Requests :
                op[r] = op[q] /\ op[r] \in {"submit", "exchange"} /\ id[q] = id[r] => q = r
    /\ \A p \in Pendings : store[p] # Gone => minted[p] = 0 /\ p \notin denied
    /\ \A c \in Codes : store[c] # Gone => redeemed[c] = 0
    /\ AnsweredAndRedeemedOnce

\* What grant() has read is what the row still says, unless the row is another
\* one, or another grant was written on top of it.
Consent ==
    /\ row <= rows /\ (row = 0 => fresh = {})
    /\ RevokedStaysRevoked /\ GrantsAccumulate
    /\ \A r \in Requests :
          /\ found[r] <= rows
          /\ pc[r] = "write" =>
                /\ scope[r] \subseteq merged[r] /\ (found[r] = 0 => merged[r] = scope[r])
                /\ found[r] # 0 /\ found[r] = row =>
                      /\ merged[r] \subseteq fresh \cup scope[r]
                      /\ ~stale[r] /\ ~overlapped => fresh \subseteq merged[r]

\* Each label belongs to one kind of request, and what was checked on the way to
\* it is remembered.
RequestJustified(r) ==
    /\ pc[r] \in {"uri", "hasConsent", "putPending", "putCode"} =>
          op[r] \in {"authorize", "submit"}
    /\ pc[r] \in {"hasConsent", "putPending"} => op[r] = "authorize"
    /\ pc[r] \in {"find", "write"} => op[r] = "submit"
    /\ pc[r] = "issue" <=> op[r] = "exchange"
    /\ op[r] \in {"authorize", "submit"} => sid[r] \in Sessions
    /\ op[r] = "authorize" => fresh \subseteq since[r]
    /\ pc[r] = "putCode" /\ op[r] = "authorize" => scope[r] \subseteq since[r]
    /\ op[r] \in {"authorize", "submit"} /\ (registered \/ pc[r] # "uri") => uriSeen[r]

Justified == \A r \in Requests : RequestJustified(r)

AuthorizationInv == TypeOK /\ OneAnswer /\ Consent /\ Justified

\* Nothing asked, nothing granted.
LEMMA AuthorizationInit == Init => AuthorizationInv
  <1> SUFFICES ASSUME Init PROVE AuthorizationInv
      BY Zenon
  <1>1. TypeOK
    <2>1. 0 \in 0..MaxRow /\ 0 \in Nat
        BY MaxRowAssumption
    <2> QED
        BY <2>1, Zenon DEF Init, TypeOK, Labels
  <1>2. OneAnswer
      BY DEF Init, OneAnswer, AnsweredAndRedeemedOnce
  <1>3. Consent
      BY DEF Init, Consent, RevokedStaysRevoked, GrantsAccumulate
  <1>4. Justified
      BY Zenon DEF Init, Justified, RequestJustified
  <1> QED
      BY <1>1, <1>2, <1>3, <1>4, Zenon DEF AuthorizationInv

\* What a request writes into uriSeen and stale, whether a test holds, keeps them
\* Boolean.
LEMMA StillBoolean ==
    ASSUME NEW S, NEW f \in [S -> BOOLEAN], NEW x \in S, NEW b \in BOOLEAN
    PROVE  [f EXCEPT ![x] = b] \in [S -> BOOLEAN]
  BY Zenon

\* A request that begins has types in order.
LEMMA BeginTypes ==
    ASSUME TypeOK, NEW r \in Requests, NEW what \in {"authorize", "submit", "exchange"},
           NEW s \in Sessions, NEW sc \in SUBSET Scopes, NEW k \in Ids \cup {NoId},
           NEW label \in Labels, Begin(r, what, s, sc, k, label)
    PROVE  /\ pc' \in [Requests -> Labels]
           /\ op' \in [Requests -> {"none", "authorize", "submit", "exchange"}]
           /\ sid' \in [Requests -> Sessions \cup {NoId}]
           /\ scope' \in [Requests -> SUBSET Scopes] /\ id' \in [Requests -> Ids \cup {NoId}]
           /\ found' \in [Requests -> 0..MaxRow] /\ merged' \in [Requests -> SUBSET Scopes]
           /\ since' \in [Requests -> SUBSET Scopes]
           /\ uriSeen' \in [Requests -> BOOLEAN] /\ stale' \in [Requests -> BOOLEAN]
  <1>1. uriSeen' = [uriSeen EXCEPT ![r] = what # "exchange" /\ registered]
      BY Zenon DEF Begin
  <1>2. uriSeen' \in [Requests -> BOOLEAN]
      BY <1>1, StillBoolean, Zenon DEF TypeOK
  <1>3. /\ op' = [op EXCEPT ![r] = what] /\ sid' = [sid EXCEPT ![r] = s]
        /\ scope' = [scope EXCEPT ![r] = sc] /\ id' = [id EXCEPT ![r] = k]
        /\ since' = [since EXCEPT ![r] = IF what = "authorize" THEN fresh ELSE {}]
        /\ pc' = [pc EXCEPT ![r] = label] /\ UNCHANGED <<found, merged, stale>>
      BY Zenon DEF Begin, Goto
  <1> QED
      BY <1>2, <1>3, Zenon DEF TypeOK

\* A request that ends has, too.
LEMMA EndTypes ==
    ASSUME TypeOK, NEW r \in Requests, End(r)
    PROVE  /\ pc' \in [Requests -> Labels]
           /\ op' \in [Requests -> {"none", "authorize", "submit", "exchange"}]
           /\ sid' \in [Requests -> Sessions \cup {NoId}]
           /\ scope' \in [Requests -> SUBSET Scopes] /\ id' \in [Requests -> Ids \cup {NoId}]
           /\ found' \in [Requests -> 0..MaxRow] /\ merged' \in [Requests -> SUBSET Scopes]
           /\ since' \in [Requests -> SUBSET Scopes]
           /\ uriSeen' \in [Requests -> BOOLEAN] /\ stale' \in [Requests -> BOOLEAN]
  BY MaxRowAssumption DEF End, Goto, TypeOK, Labels

\* A grant writes scopes.
LEMMA GrantTypes ==
    ASSUME TypeOK, NEW r \in Requests, NEW n \in 0..MaxRow, Grant(r, n)
    PROVE  /\ row' \in 0..MaxRow /\ granted' \subseteq Scopes /\ fresh' \subseteq Scopes
           /\ pc' \in [Requests -> Labels] /\ since' \in [Requests -> SUBSET Scopes]
           /\ stale' \in [Requests -> BOOLEAN] /\ overlapped' \in BOOLEAN
           /\ UNCHANGED <<op, sid, scope, id, found, merged, uriSeen>>
  <1>1. stale' \in [Requests -> BOOLEAN] /\ overlapped' \in BOOLEAN
      BY Zenon DEF Grant
  <1>2. /\ row' = n /\ granted' = merged[r] /\ fresh' = fresh \cup scope[r]
        /\ since' = [q \in Requests |->
                        IF op[q] = "authorize" THEN since[q] \cup scope[r] ELSE since[q]]
        /\ pc' = [pc EXCEPT ![r] = "putCode"]
        /\ UNCHANGED <<op, sid, scope, id, found, merged, uriSeen>>
      BY Zenon DEF Grant, Goto
  <1> QED
      BY <1>1, <1>2, Zenon DEF TypeOK, Labels

\* Every action keeps the types.
LEMMA AuthorizationTypes ==
    TypeOK /\ OneAnswer /\ Justified /\ Next => TypeOK'
  <1> SUFFICES ASSUME TypeOK, OneAnswer, Justified, Next PROVE TypeOK'
      BY Zenon
  <1> DEFINE Locals == /\ pc' \in [Requests -> Labels]
                       /\ op' \in [Requests -> {"none", "authorize", "submit", "exchange"}]
                       /\ sid' \in [Requests -> Sessions \cup {NoId}]
                       /\ scope' \in [Requests -> SUBSET Scopes]
                       /\ id' \in [Requests -> Ids \cup {NoId}]
                       /\ found' \in [Requests -> 0..MaxRow]
                       /\ merged' \in [Requests -> SUBSET Scopes]
                       /\ since' \in [Requests -> SUBSET Scopes]
                       /\ uriSeen' \in [Requests -> BOOLEAN] /\ stale' \in [Requests -> BOOLEAN]
  <1>1. ASSUME NEW r \in Requests, End(r) PROVE Locals
      BY <1>1, EndTypes, Zenon
  <1>2. ASSUME NEW r \in Requests, NEW label \in Labels, Proceed(r, label) PROVE Locals
      BY <1>2, Zenon DEF Proceed, Goto, locals, TypeOK
  <1>3. ASSUME UNCHANGED <<pc, locals>> PROVE Locals
      BY <1>3, Zenon DEF locals, TypeOK
  <1>4. ASSUME Locals, UNCHANGED <<tables, past>>,
               store' \in [Ids -> Entry \cup {Unused, Gone}]
        PROVE  TypeOK'
      BY <1>4, Zenon DEF tables, past, TypeOK
  <1>5. ASSUME UNCHANGED store PROVE store' \in [Ids -> Entry \cup {Unused, Gone}]
      BY <1>5, Zenon DEF TypeOK
  <1>6. ASSUME NEW k \in Ids, NEW e \in Entry \cup {Unused, Gone}, store' = [store EXCEPT ![k] = e]
        PROVE  store' \in [Ids -> Entry \cup {Unused, Gone}]
      BY <1>6, Zenon DEF TypeOK
  <1>7. ASSUME NEW k \in Ids, TakeEntry(k)
        PROVE  /\ store' \in [Ids -> Entry \cup {Unused, Gone}]
               /\ store[k].sid \in Sessions /\ store[k].scope \in SUBSET Scopes
      BY <1>6, <1>7, Zenon DEF TakeEntry, Entry
  <1> HIDE DEF Locals
  <1>8. ASSUME NEW r \in Requests, NEW s \in Sessions, NEW sc \in Asked, BeginAuthorize(r, s, sc)
        PROVE  TypeOK'
    <2>1. Begin(r, "authorize", s, sc, NoId, "uri") /\ UNCHANGED <<tables, store, past>>
        BY <1>8, Zenon DEF BeginAuthorize
    <2>2. sc \in SUBSET Scopes
        BY AskedAssumption, Zenon
    <2>3. Locals
        BY <2>1, <2>2, BeginTypes, Zenon DEF Locals, Labels
    <2> QED
        BY <1>4, <1>5, <2>1, <2>3, Zenon
  <1>9. ASSUME NEW r \in Requests, CheckUri(r) \/ DecideConsent(r) \/ Abort(r) PROVE TypeOK'
    <2>1. End(r) \/ \E label \in Labels : Proceed(r, label)
        BY <1>9, Zenon DEF CheckUri, DecideConsent, Abort, Labels
    <2>2. UNCHANGED <<tables, store, past>>
        BY <1>9, Zenon DEF CheckUri, DecideConsent, Abort
    <2> QED
        BY <1>1, <1>2, <1>4, <1>5, <2>1, <2>2, Zenon
  <1>10. ASSUME NEW r \in Requests, NEW p \in Pendings, PutPending(r, p) PROVE TypeOK'
    <2>1. sid[r] \in Sessions
        BY <1>10, Zenon DEF PutPending, Justified, RequestJustified
    <2>2. [sid |-> sid[r], scope |-> scope[r]] \in Entry
        BY <2>1, Zenon DEF Entry, TypeOK
    <2>3. store' \in [Ids -> Entry \cup {Unused, Gone}]
        BY <1>6, <1>10, <2>2, Zenon DEF PutPending, Ids
    <2> QED
        BY <1>1, <1>4, <1>10, <2>3, Zenon DEF PutPending
  <1>11. ASSUME NEW r \in Requests, NEW c \in Codes, PutCode(r, c) PROVE TypeOK'
    <2>1. sid[r] \in Sessions
        BY <1>11, Zenon DEF PutCode, Justified, RequestJustified
    <2>2. [sid |-> sid[r], scope |-> scope[r]] \in Entry
        BY <2>1, Zenon DEF Entry, TypeOK
    <2>3. store' \in [Ids -> Entry \cup {Unused, Gone}]
        BY <1>6, <1>11, <2>2, Zenon DEF PutCode, Ids
    <2>4. minted' \in [Pendings -> Nat]
      <3>1. CASE op[r] = "submit"
        <4>1. minted' = [minted EXCEPT ![id[r]] = @ + 1]
            BY <1>11, <3>1, Zenon DEF PutCode
        <4>2. id[r] \in Pendings /\ minted[id[r]] = 0
            BY <3>1, Zenon DEF OneAnswer
        <4> QED
            BY <4>1, <4>2 DEF TypeOK
      <3>2. CASE op[r] # "submit"
          BY <1>11, <3>2, Zenon DEF PutCode, TypeOK
      <3> QED
          BY <3>1, <3>2, Zenon
    <2>5. Locals /\ UNCHANGED <<tables, fresh, overlapped, denied, redeemed>>
        BY <1>1, <1>11, Zenon DEF PutCode
    <2> QED
        BY <2>3, <2>4, <2>5, Zenon DEF TypeOK, Locals, tables
  <1>12. ASSUME NEW r \in Requests, NEW s \in Sessions, NEW p \in Pendings, Take(r, s, p)
         PROVE  TypeOK'
    <2>1. /\ TakeEntry(p) /\ UNCHANGED <<tables, fresh, overlapped, minted, redeemed>>
          /\ denied' \subseteq Pendings
        BY <1>12, Zenon DEF Take, Submit, TypeOK
    <2>2. p \in Ids
        BY Zenon DEF Ids
    <2>3. Locals
      <3>1. CASE Begin(r, "submit", s, store[p].scope, p, "uri")
          BY <1>7, <2>1, <2>2, <3>1, BeginTypes, Zenon DEF Locals, Labels
      <3> QED
          BY <1>3, <1>12, <3>1, Zenon DEF Take, Submit
    <2> QED
        BY <1>7, <2>1, <2>2, <2>3, Zenon DEF TypeOK, Locals, tables
  <1>13. ASSUME NEW r \in Requests, FindGrant(r) PROVE TypeOK'
      BY <1>13, Zenon DEF FindGrant, Goto, TypeOK, Labels, tables, past
  <1>14. ASSUME NEW r \in Requests, WriteGrant(r) PROVE TypeOK'
    <2>1. UNCHANGED <<registered, store, denied, minted, redeemed>>
        BY <1>14, Zenon DEF WriteGrant
    <2>2. ASSUME NEW n \in 0..MaxRow, Grant(r, n), rows' \in 0..MaxRow PROVE TypeOK'
        BY <2>1, <2>2, GrantTypes, Zenon DEF TypeOK
    <2>3. CASE rows < MaxRow /\ rows' = rows + 1 /\ Grant(r, rows + 1)
      <3>1. rows + 1 \in 0..MaxRow
          BY <2>3, MaxRowAssumption DEF TypeOK
      <3> QED
          BY <2>2, <2>3, <3>1, Zenon
    <2>4. CASE Grant(r, row) /\ UNCHANGED rows
        BY <2>2, <2>4, Zenon DEF TypeOK
    <2>5. CASE (Proceed(r, "putCode") \/ End(r)) /\ UNCHANGED <<row, granted, rows, fresh, overlapped>>
      <3>1. Locals
          BY <1>1, <1>2, <2>5, Zenon DEF Labels
      <3> QED
          BY <2>1, <2>5, <3>1, Zenon DEF TypeOK, Locals
    <2> QED
        BY <1>14, <2>3, <2>4, <2>5, Zenon DEF WriteGrant
  <1>15. ASSUME NEW r \in Requests, NEW c \in Codes, Consume(r, c) PROVE TypeOK'
    <2>1. TakeEntry(c) /\ UNCHANGED <<tables, past>> /\ c \in Ids
        BY <1>15, Zenon DEF Consume, Ids
    <2>2. Locals
      <3>1. CASE Begin(r, "exchange", store[c].sid, store[c].scope, c, "issue")
          BY <1>7, <2>1, <3>1, BeginTypes, Zenon DEF Locals, Labels
      <3> QED
          BY <1>3, <1>15, <3>1, Zenon DEF Consume, Redeem
    <2> QED
        BY <1>4, <1>7, <2>1, <2>2, Zenon
  <1>16. ASSUME NEW r \in Requests, Issue(r) PROVE TypeOK'
    <2>1. id[r] \in Codes /\ redeemed[id[r]] = 0
        BY <1>16, Zenon DEF Issue, Justified, RequestJustified, OneAnswer
    <2>2. redeemed' \in [Codes -> Nat]
        BY <1>16, <2>1 DEF Issue, TypeOK
    <2>3. Locals /\ UNCHANGED <<tables, store, fresh, overlapped, denied, minted>>
        BY <1>1, <1>16, Zenon DEF Issue
    <2> QED
        BY <2>2, <2>3, Zenon DEF TypeOK, Locals, tables
  <1>17. ASSUME NEW k \in Ids, Expire(k) PROVE TypeOK'
      BY <1>3, <1>4, <1>6, <1>17, Zenon DEF Expire
  <1>18. CASE RevokeConsent
    <2>1. 0 \in 0..MaxRow
        BY MaxRowAssumption
    <2> QED
        BY <1>18, <2>1, Zenon DEF RevokeConsent, TypeOK
  <1>19. ASSUME NEW b \in BOOLEAN, SetRegistered(b) PROVE TypeOK'
      BY <1>19, Zenon DEF SetRegistered, TypeOK, past
  <1> QED
      BY <1>8, <1>9, <1>10, <1>11, <1>12, <1>13, <1>14, <1>15, <1>16, <1>17, <1>18, <1>19,
         Zenon DEF Next, Step

\* take and consume delete the entry in the command that reads it: whoever got it
\* is the only one, and answers or redeems it at most once.
LEMMA AuthorizationOnce ==
    TypeOK /\ OneAnswer /\ Justified /\ Next => OneAnswer'
  <1> SUFFICES ASSUME TypeOK, OneAnswer, Justified, Next PROVE OneAnswer'
      BY Zenon
  <1>1. /\ op \in [Requests -> {"none", "authorize", "submit", "exchange"}]
        /\ id \in [Requests -> Ids \cup {NoId}]
        /\ store \in [Ids -> Entry \cup {Unused, Gone}]
        /\ minted \in [Pendings -> Nat] /\ redeemed \in [Codes -> Nat]
      BY Zenon DEF TypeOK
  <1>2. Gone \notin Entry /\ Unused # Gone /\ Pendings \cap Codes = {}
      BY DistinctAssumption, Zenon
\* Requests may move on or end, keys may go.
  <1>3. ASSUME UNCHANGED <<denied, minted, redeemed>>,
               \A k \in Ids : store'[k] \in {store[k], Gone},
               \A q \in Requests : op'[q] \in {"none", "authorize"} \/ (op'[q] = op[q] /\ id'[q] = id[q])
        PROVE  OneAnswer'
    <2>1. \A k \in Ids : store[k] = Gone => store'[k] = Gone
        BY <1>3, Zenon
    <2> QED
        BY <1>3, <2>1 DEF OneAnswer, AnsweredAndRedeemedOnce, Ids
  <1>4. ASSUME NEW r \in Requests, End(r)
        PROVE  \A q \in Requests : op'[q] = "none" \/ (op'[q] = op[q] /\ id'[q] = id[q])
      BY <1>1, <1>4, Zenon DEF End
  <1>5. ASSUME NEW r \in Requests, NEW s \in Sessions, NEW sc \in Asked, BeginAuthorize(r, s, sc)
        PROVE  OneAnswer'
    <2>1. \A q \in Requests : op'[q] = "authorize" \/ (op'[q] = op[q] /\ id'[q] = id[q])
        BY <1>1, <1>5, Zenon DEF BeginAuthorize, Begin
    <2> QED
        BY <1>3, <1>5, <2>1, Zenon DEF BeginAuthorize, past
  <1>6. ASSUME NEW r \in Requests,
               \/ CheckUri(r) \/ DecideConsent(r) \/ Abort(r) \/ FindGrant(r) \/ WriteGrant(r)
        PROVE  OneAnswer'
    <2>1. End(r) \/ UNCHANGED <<op, id>>
        BY <1>6, Zenon
        DEF CheckUri, DecideConsent, Abort, FindGrant, WriteGrant, Grant, Proceed, locals
    <2>2. UNCHANGED <<store, denied, minted, redeemed>>
        BY <1>6, Zenon DEF CheckUri, DecideConsent, Abort, FindGrant, WriteGrant, past
    <2> QED
        BY <1>3, <1>4, <2>1, <2>2, Zenon
  <1>7. ASSUME NEW r \in Requests, NEW p \in Pendings, PutPending(r, p) PROVE OneAnswer'
    <2>1. /\ store[p] = Unused /\ UNCHANGED <<denied, minted, redeemed>> /\ p \notin Codes
          /\ \A k \in Ids : k # p => store'[k] = store[k]
        BY <1>1, <1>2, <1>7, Zenon DEF PutPending, past, Ids
    <2>2. \A q \in Requests : op'[q] = "none" \/ (op'[q] = op[q] /\ id'[q] = id[q])
        BY <1>4, <1>7, Zenon DEF PutPending
    <2>3. \A q \in Requests : op[q] \in {"submit", "exchange"} => id[q] # p
        BY <1>2, <2>1, Zenon DEF OneAnswer
    <2> QED
        BY <1>2, <2>1, <2>2, <2>3 DEF OneAnswer, AnsweredAndRedeemedOnce, Ids
  <1>8. ASSUME NEW r \in Requests, NEW c \in Codes, PutCode(r, c) PROVE OneAnswer'
    <2>1. /\ store[c] = Unused /\ UNCHANGED <<denied, redeemed>> /\ c \notin Pendings
          /\ \A k \in Ids : k # c => store'[k] = store[k]
        BY <1>1, <1>2, <1>8, Zenon DEF PutCode, Ids
    <2>2. \A q \in Requests : \/ op'[q] = "none"
                              \/ q # r /\ op'[q] = op[q] /\ id'[q] = id[q]
        BY <1>1, <1>8, Zenon DEF PutCode, End
    <2>3. \A q \in Requests : op[q] \in {"submit", "exchange"} => id[q] # c
        BY <1>2, <2>1, Zenon DEF OneAnswer
    <2>4. CASE op[r] # "submit"
      <3>1. UNCHANGED minted
          BY <1>8, <2>4, Zenon DEF PutCode
      <3> QED
          BY <1>2, <2>1, <2>2, <2>3, <3>1 DEF OneAnswer, AnsweredAndRedeemedOnce, Ids
    <2>5. CASE op[r] = "submit"
      <3>1. /\ id[r] \in Pendings /\ id[r] \notin denied /\ store[id[r]] = Gone
            /\ minted'[id[r]] = 1 /\ \A p \in Pendings : p # id[r] => minted'[p] = minted[p]
          BY <1>1, <1>8, <2>5 DEF PutCode, OneAnswer
      <3>2. \A q \in Requests : op'[q] = "submit" => id'[q] # id[r]
          BY <2>2, <2>5, ZenonT(60) DEF OneAnswer
      <3> QED
          BY <1>2, <2>1, <2>2, <2>3, <3>1, <3>2 DEF OneAnswer, AnsweredAndRedeemedOnce, Ids
    <2> QED
        BY <2>4, <2>5, Zenon
  <1>9. ASSUME NEW r \in Requests, NEW s \in Sessions, NEW p \in Pendings, Take(r, s, p)
        PROVE  OneAnswer'
    <2>1. /\ store[p] # Gone /\ store'[p] = Gone /\ UNCHANGED <<minted, redeemed>>
          /\ \A k \in Ids : store'[k] \in {store[k], Gone}
        BY <1>1, <1>2, <1>9, Zenon DEF Take, Submit, TakeEntry, Ids
    <2>2. \A q \in Requests : op[q] \in {"submit", "exchange"} => id[q] # p
        BY <2>1, Zenon DEF OneAnswer
    <2>3. minted[p] = 0 /\ p \notin denied
        BY <2>1, Zenon DEF OneAnswer
    <2>4. CASE Begin(r, "submit", s, store[p].scope, p, "uri") /\ UNCHANGED denied
      <3>1. /\ op'[r] = "submit" /\ id'[r] = p
            /\ \A q \in Requests \ {r} : op'[q] = op[q] /\ id'[q] = id[q]
          BY <1>1, <2>4, Zenon DEF Begin
      <3> QED
          BY <2>1, <2>2, <2>3, <2>4, <3>1 DEF OneAnswer, AnsweredAndRedeemedOnce, Ids
    <2>5. CASE denied' \in {denied, denied \cup {p}} /\ UNCHANGED <<op, id>>
        BY <2>1, <2>2, <2>3, <2>5 DEF OneAnswer, AnsweredAndRedeemedOnce, Ids
    <2> QED
        BY <1>9, <2>4, <2>5, Zenon DEF Take, Submit, locals
  <1>10. ASSUME NEW r \in Requests, NEW c \in Codes, Consume(r, c) PROVE OneAnswer'
    <2>1. /\ store[c] # Gone /\ store'[c] = Gone /\ UNCHANGED <<minted, redeemed, denied>>
          /\ \A k \in Ids : store'[k] \in {store[k], Gone}
        BY <1>1, <1>2, <1>10, Zenon DEF Consume, TakeEntry, Ids, past
    <2>2. \A q \in Requests : op[q] \in {"submit", "exchange"} => id[q] # c
        BY <2>1, Zenon DEF OneAnswer
    <2>3. CASE Begin(r, "exchange", store[c].sid, store[c].scope, c, "issue")
      <3>1. /\ op'[r] = "exchange" /\ id'[r] = c
            /\ \A q \in Requests \ {r} : op'[q] = op[q] /\ id'[q] = id[q]
          BY <1>1, <2>3, Zenon DEF Begin
      <3> QED
          BY <2>1, <2>2, <3>1 DEF OneAnswer, AnsweredAndRedeemedOnce, Ids
    <2>4. CASE UNCHANGED <<op, id>>
        BY <1>3, <2>1, <2>4, Zenon
    <2> QED
        BY <1>10, <2>3, <2>4, Zenon DEF Consume, Redeem, locals
  <1>11. ASSUME NEW r \in Requests, Issue(r) PROVE OneAnswer'
    <2>1. op[r] = "exchange" /\ UNCHANGED <<store, denied, minted>>
        BY <1>11, Zenon DEF Issue, Justified, RequestJustified
    <2>2. \A q \in Requests : \/ op'[q] = "none"
                              \/ q # r /\ op'[q] = op[q] /\ id'[q] = id[q]
        BY <1>1, <1>11, Zenon DEF Issue, End
    <2>3. /\ id[r] \in Codes /\ store[id[r]] = Gone /\ redeemed'[id[r]] = 1
          /\ \A c \in Codes : c # id[r] => redeemed'[c] = redeemed[c]
        BY <1>1, <1>11, <2>1 DEF Issue, OneAnswer
    <2>4. \A q \in Requests : op'[q] = "exchange" => id'[q] # id[r]
        BY <2>1, <2>2 DEF OneAnswer
    <2> QED
        BY <2>1, <2>2, <2>3, <2>4 DEF OneAnswer, AnsweredAndRedeemedOnce
  <1>12. ASSUME NEW k \in Ids, Expire(k) PROVE OneAnswer'
    <2>1. /\ \A j \in Ids : store'[j] \in {store[j], Gone}
          /\ UNCHANGED <<op, id, denied, minted, redeemed>>
        BY <1>1, <1>12, Zenon DEF Expire, locals, past
    <2> QED
        BY <1>3, <2>1, Zenon
  <1>13. ASSUME RevokeConsent \/ \E b \in BOOLEAN : SetRegistered(b) PROVE OneAnswer'
      BY <1>3, <1>13, Zenon DEF RevokeConsent, SetRegistered, past
  <1> QED
      BY <1>5, <1>6, <1>7, <1>8, <1>9, <1>10, <1>11, <1>12, <1>13, Zenon DEF Next, Step

\* grant() writes the row it found, by number: a row deleted in between is not
\* written, and one that another grant changed marks the overlap.
LEMMA AuthorizationConsent == TypeOK /\ Consent /\ Next => Consent'
  <1> SUFFICES ASSUME TypeOK, Consent, Next PROVE Consent'
      BY Zenon
  <1> USE DEF RevokedStaysRevoked, GrantsAccumulate
  <1>1. /\ row \in Nat /\ rows \in Nat /\ found \in [Requests -> Nat]
        /\ merged \in [Requests -> SUBSET Scopes] /\ pc \in [Requests -> Labels]
        /\ scope \in [Requests -> SUBSET Scopes] /\ stale \in [Requests -> BOOLEAN]
      BY MaxRowAssumption DEF TypeOK
\* One request, not at its write, moves on or ends.
  <1>2. ASSUME NEW r \in Requests, UNCHANGED <<row, granted, rows, fresh, overlapped>>,
               pc'[r] # "write", found'[r] \in {found[r], 0},
               \A q \in Requests \ {r} :
                  /\ pc'[q] = pc[q] /\ found'[q] = found[q] /\ merged'[q] = merged[q]
                  /\ scope'[q] = scope[q] /\ stale'[q] = stale[q]
        PROVE  Consent'
      BY <1>1, <1>2 DEF Consent
  <1>3. ASSUME UNCHANGED <<row, granted, rows, fresh, overlapped, pc, found, merged, scope, stale>>
        PROVE  Consent'
      BY <1>3, Zenon DEF Consent
  <1>4. ASSUME NEW r \in Requests, End(r)
        PROVE  /\ pc'[r] # "write" /\ found'[r] \in {found[r], 0}
               /\ \A q \in Requests \ {r} :
                     /\ pc'[q] = pc[q] /\ found'[q] = found[q] /\ merged'[q] = merged[q]
                     /\ scope'[q] = scope[q] /\ stale'[q] = stale[q]
      BY <1>1, <1>4, Zenon DEF End, Goto
  <1>5. ASSUME NEW r \in Requests, NEW label \in Labels \ {"write"}, Proceed(r, label)
        PROVE  /\ pc'[r] # "write" /\ found'[r] \in {found[r], 0}
               /\ \A q \in Requests \ {r} :
                     /\ pc'[q] = pc[q] /\ found'[q] = found[q] /\ merged'[q] = merged[q]
                     /\ scope'[q] = scope[q] /\ stale'[q] = stale[q]
      BY <1>1, <1>5, Zenon DEF Proceed, Goto, locals
  <1>6. ASSUME NEW r \in Requests, NEW what, NEW s, NEW sc, NEW k, NEW label \in Labels \ {"write"},
               Begin(r, what, s, sc, k, label)
        PROVE  /\ pc'[r] # "write" /\ found'[r] \in {found[r], 0}
               /\ \A q \in Requests \ {r} :
                     /\ pc'[q] = pc[q] /\ found'[q] = found[q] /\ merged'[q] = merged[q]
                     /\ scope'[q] = scope[q] /\ stale'[q] = stale[q]
    <2>1. /\ pc' = [pc EXCEPT ![r] = label] /\ scope' = [scope EXCEPT ![r] = sc]
          /\ UNCHANGED <<found, merged, stale>>
        BY <1>6, Zenon DEF Begin, Goto
    <2> QED
        BY <1>1, <2>1, Zenon
  <1>7. ASSUME NEW r \in Requests,
               \/ CheckUri(r) \/ DecideConsent(r) \/ Abort(r) \/ Issue(r)
               \/ \E s \in Sessions, sc \in Asked : BeginAuthorize(r, s, sc)
               \/ \E p \in Pendings : PutPending(r, p)
               \/ \E c \in Codes : PutCode(r, c) \/ Consume(r, c)
               \/ \E s \in Sessions, p \in Pendings : Take(r, s, p)
        PROVE  Consent'
    <2>1. UNCHANGED <<row, granted, rows, fresh, overlapped>>
        BY <1>7, Zenon DEF CheckUri, DecideConsent, Abort, Issue, BeginAuthorize, PutPending,
                           PutCode, Consume, Take, tables, past
    <2>2. \/ End(r) \/ UNCHANGED <<pc, locals>>
          \/ \E label \in Labels \ {"write"} : Proceed(r, label)
          \/ \E what, s, sc, k : \E label \in Labels \ {"write"} : Begin(r, what, s, sc, k, label)
      <3>1. {"uri", "hasConsent", "find", "putCode", "putPending", "issue"} \subseteq Labels \ {"write"}
          BY Zenon DEF Labels
      <3>2. CASE CheckUri(r)
          BY <3>1, <3>2, Zenon DEF CheckUri
      <3>3. CASE DecideConsent(r)
          BY <3>1, <3>3, Zenon DEF DecideConsent
      <3>4. CASE \/ Abort(r) \/ Issue(r) \/ \E p \in Pendings : PutPending(r, p)
                 \/ \E c \in Codes : PutCode(r, c)
          BY <3>4, Zenon DEF Abort, Issue, PutPending, PutCode
      <3>5. ASSUME NEW s \in Sessions, NEW sc \in Asked, BeginAuthorize(r, s, sc)
            PROVE  \E label \in Labels \ {"write"} : Begin(r, "authorize", s, sc, NoId, label)
          BY <3>1, <3>5, Zenon DEF BeginAuthorize
      <3>6. ASSUME NEW c \in Codes, Consume(r, c)
            PROVE  \/ UNCHANGED <<pc, locals>>
                   \/ \E label \in Labels \ {"write"} :
                         Begin(r, "exchange", store[c].sid, store[c].scope, c, label)
          BY <3>1, <3>6, Zenon DEF Consume, Redeem
      <3>7. ASSUME NEW s \in Sessions, NEW p \in Pendings, Take(r, s, p)
            PROVE  \/ UNCHANGED <<pc, locals>>
                   \/ \E label \in Labels \ {"write"} :
                         Begin(r, "submit", s, store[p].scope, p, label)
          BY <3>1, <3>7, Zenon DEF Take, Submit
      <3> QED
          BY <1>7, <3>2, <3>3, <3>4, <3>5, <3>6, <3>7, Zenon
    <2>3. CASE UNCHANGED <<pc, locals>>
        BY <1>3, <2>1, <2>3, Zenon DEF locals
    <2>4. ASSUME NEW what, NEW s, NEW sc, NEW k, NEW label \in Labels \ {"write"},
                 Begin(r, what, s, sc, k, label)
          PROVE  Consent'
        BY <1>2, <1>6, <2>1, <2>4, Zenon
    <2> QED
        BY <1>2, <1>4, <1>5, <2>1, <2>2, <2>3, <2>4, Zenon
  <1>8. ASSUME NEW r \in Requests, FindGrant(r) PROVE Consent'
    <2>1. /\ UNCHANGED <<row, granted, rows, fresh, overlapped, scope>>
          /\ found'[r] = row /\ merged'[r] = scope[r] \cup (IF row = 0 THEN {} ELSE granted)
          /\ \A q \in Requests \ {r} :
                pc'[q] = pc[q] /\ found'[q] = found[q] /\ merged'[q] = merged[q] /\ stale'[q] = stale[q]
        BY <1>1, <1>8, Zenon DEF FindGrant, Goto, tables, past
    <2> QED
        BY <1>1, <2>1, Zenon DEF Consent
\* A grant on the row that was found, or on a new one.
  <1>9. ASSUME NEW r \in Requests, NEW n \in Nat, pc[r] = "write", Grant(r, n), rows' \in Nat,
               \/ n = row /\ row = found[r] /\ row # 0 /\ rows' = rows
               \/ n = rows + 1 /\ row = 0 /\ found[r] = 0 /\ rows' = rows + 1
        PROVE  Consent'
    <2>1. /\ row' = n /\ granted' = merged[r] /\ fresh' = fresh \cup scope[r]
          /\ UNCHANGED <<scope, found, merged>> /\ pc' = [pc EXCEPT ![r] = "putCode"]
        BY <1>9, Zenon DEF Grant, Goto
    <2>2. /\ ~overlapped' => ~overlapped /\ ~stale[r]
          /\ \A q \in Requests \ {r} : pc[q] = "write" => stale'[q]
        BY <1>1, <1>9, Zenon DEF Grant
    <2>3. pc'[r] # "write" /\ \A q \in Requests \ {r} : pc'[q] = pc[q]
        BY <1>1, <2>1, Zenon
    <2>4. CASE n = row /\ row = found[r] /\ row # 0 /\ rows' = rows
        BY <1>1, <1>9, <2>1, <2>2, <2>3, <2>4, Zenon DEF Consent
    <2>5. CASE n = rows + 1 /\ row = 0 /\ found[r] = 0 /\ rows' = rows + 1
        BY <1>1, <1>9, <2>1, <2>2, <2>3, <2>5 DEF Consent
    <2> QED
        BY <1>9, <2>4, <2>5, Zenon
  <1>10. ASSUME NEW r \in Requests, WriteGrant(r) PROVE Consent'
    <2>1. CASE found[r] # 0 /\ row = found[r] /\ Grant(r, row) /\ UNCHANGED rows
        BY <1>1, <1>9, <1>10, <2>1, Zenon DEF WriteGrant
    <2>2. CASE found[r] = 0 /\ row = 0 /\ rows' = rows + 1 /\ Grant(r, rows + 1)
      <3>1. rows + 1 \in Nat
          BY <1>1
      <3> QED
          BY <1>9, <1>10, <2>2, <3>1, Zenon DEF WriteGrant
    <2>3. CASE Proceed(r, "putCode") /\ UNCHANGED <<row, granted, rows, fresh, overlapped>>
      <3>1. "putCode" \in Labels \ {"write"}
          BY Zenon DEF Labels
      <3> QED
          BY <1>2, <1>5, <2>3, <3>1, Zenon
    <2>4. CASE End(r) /\ UNCHANGED <<row, granted, rows, fresh, overlapped>>
        BY <1>2, <1>4, <2>4, Zenon
    <2> QED
        BY <1>10, <2>1, <2>2, <2>3, <2>4, Zenon DEF WriteGrant
  <1>11. CASE RevokeConsent
    <2>1. row' = 0 /\ granted' = {} /\ fresh' = {} /\ UNCHANGED <<rows, pc, scope, found, merged>>
        BY <1>11, Zenon DEF RevokeConsent
    <2> QED
        BY <1>1, <2>1 DEF Consent
  <1>12. ASSUME (\E k \in Ids : Expire(k)) \/ (\E b \in BOOLEAN : SetRegistered(b)) PROVE Consent'
      BY <1>3, <1>12, Zenon DEF Expire, SetRegistered, tables, locals, past
  <1> QED
      BY <1>7, <1>8, <1>10, <1>11, <1>12, Zenon DEF Next, Step

\* What a request checked stays checked on its way to the code: Grant only adds to
\* what was allowed, a revocation only takes from what must be covered.
LEMMA AuthorizationJustified == TypeOK /\ Consent /\ Justified /\ Next => Justified'
  <1> SUFFICES ASSUME TypeOK, Consent, Justified, Next PROVE Justified'
      BY Zenon
  <1>1. /\ pc \in [Requests -> Labels] /\ op \in [Requests -> {"none", "authorize", "submit", "exchange"}]
        /\ sid \in [Requests -> Sessions \cup {NoId}] /\ scope \in [Requests -> SUBSET Scopes]
        /\ since \in [Requests -> SUBSET Scopes] /\ uriSeen \in [Requests -> BOOLEAN]
      BY Zenon DEF TypeOK
  <1>2. \A q \in Requests : RequestJustified(q)
      BY Zenon DEF Justified
\* One request moves, the tables stand.
  <1>3. ASSUME NEW r \in Requests, UNCHANGED <<registered, fresh>>, RequestJustified(r)',
               \A q \in Requests \ {r} :
                  /\ pc'[q] = pc[q] /\ op'[q] = op[q] /\ sid'[q] = sid[q] /\ scope'[q] = scope[q]
                  /\ since'[q] = since[q] /\ uriSeen'[q] = uriSeen[q]
        PROVE  Justified'
    <2>1. ASSUME NEW q \in Requests \ {r} PROVE RequestJustified(q)'
        BY <1>2, <1>3, <2>1, Zenon DEF RequestJustified
    <2> QED
        BY <1>3, <2>1, Zenon DEF Justified
  <1>4. ASSUME UNCHANGED <<pc, locals, registered, fresh>> PROVE Justified'
    <2>1. ASSUME NEW q \in Requests PROVE RequestJustified(q)'
        BY <1>2, <1>4, Zenon DEF RequestJustified, locals
    <2> QED
        BY <2>1, Zenon DEF Justified
  <1>5. ASSUME NEW r \in Requests, End(r), UNCHANGED <<registered, fresh>> PROVE Justified'
    <2>1. \A q \in Requests \ {r} :
             /\ pc'[q] = pc[q] /\ op'[q] = op[q] /\ sid'[q] = sid[q] /\ scope'[q] = scope[q]
             /\ since'[q] = since[q] /\ uriSeen'[q] = uriSeen[q]
        BY <1>1, <1>5, Zenon DEF End, Goto
    <2>2. pc'[r] = "idle" /\ op'[r] = "none"
        BY <1>1, <1>5, Zenon DEF End, Goto
    <2>3. RequestJustified(r)'
        BY <2>2, Zenon DEF RequestJustified
    <2> QED
        BY <1>3, <1>5, <2>1, <2>3, Zenon
  <1>6. ASSUME NEW r \in Requests, NEW label \in Labels, Proceed(r, label), UNCHANGED <<registered, fresh>>
        PROVE  /\ pc'[r] = label /\ UNCHANGED locals
               /\ \A q \in Requests \ {r} :
                     /\ pc'[q] = pc[q] /\ op'[q] = op[q] /\ sid'[q] = sid[q] /\ scope'[q] = scope[q]
                     /\ since'[q] = since[q] /\ uriSeen'[q] = uriSeen[q]
      BY <1>1, <1>6, Zenon DEF Proceed, Goto, locals
  <1>7. ASSUME NEW r \in Requests, NEW what, NEW s, NEW sc, NEW k, NEW label \in Labels,
               Begin(r, what, s, sc, k, label), UNCHANGED <<registered, fresh>>,
               \/ what \in {"authorize", "submit"} /\ s \in Sessions /\ label = "uri"
               \/ what = "exchange" /\ label = "issue"
        PROVE  Justified'
    <2>1. \A q \in Requests \ {r} :
             /\ pc'[q] = pc[q] /\ op'[q] = op[q] /\ sid'[q] = sid[q] /\ scope'[q] = scope[q]
             /\ since'[q] = since[q] /\ uriSeen'[q] = uriSeen[q]
        BY <1>1, <1>7, Zenon DEF Begin, Goto
    <2>2. pc'[r] = label /\ op'[r] = what /\ sid'[r] = s /\ (what = "authorize" => since'[r] = fresh)
        BY <1>1, <1>7, Zenon DEF Begin, Goto
    <2>3. what # "exchange" /\ registered => uriSeen'[r]
        BY <1>1, <1>7, Zenon DEF Begin
    <2>4. RequestJustified(r)'
        BY <1>7, <2>2, <2>3, Zenon DEF RequestJustified
    <2> QED
        BY <1>3, <1>7, <2>1, <2>4, Zenon
  <1>8. ASSUME NEW r \in Requests, CheckUri(r) PROVE Justified'
    <2>1. UNCHANGED <<registered, fresh>>
        BY <1>8, Zenon DEF CheckUri, tables, past
    <2>2. CASE registered /\ Proceed(r, IF op[r] = "authorize" THEN "hasConsent" ELSE "find")
      <3> DEFINE label == IF op[r] = "authorize" THEN "hasConsent" ELSE "find"
      <3>1. label \in Labels
          BY Zenon DEF Labels
      <3> HIDE DEF label
      <3>2. Proceed(r, label)
          BY <2>2, Zenon DEF label
      <3>3. pc'[r] = label /\ UNCHANGED locals
          BY <1>6, <2>1, <3>1, <3>2, Zenon
      <3>4. RequestJustified(r)'
          BY <1>2, <1>8, <2>1, <2>2, <3>3, Zenon DEF RequestJustified, CheckUri, label, locals
      <3> QED
          BY <1>3, <1>6, <2>1, <3>1, <3>2, <3>4, Zenon
    <2> QED
        BY <1>5, <1>8, <2>1, <2>2, Zenon DEF CheckUri
  <1>9. ASSUME NEW r \in Requests, DecideConsent(r) PROVE Justified'
    <2>1. UNCHANGED <<registered, fresh>>
        BY <1>9, Zenon DEF DecideConsent, tables, past
    <2>2. "putCode" \in Labels /\ "putPending" \in Labels
        BY Zenon DEF Labels
    <2>3. CASE HasConsent(scope[r]) /\ Proceed(r, "putCode")
      <3>1. scope[r] \subseteq fresh
          BY <2>3, Zenon DEF HasConsent, Consent, RevokedStaysRevoked
      <3>2. pc'[r] = "putCode" /\ UNCHANGED locals
          BY <1>6, <2>1, <2>2, <2>3, Zenon
      <3>3. RequestJustified(r)'
          BY <1>2, <1>9, <2>1, <3>1, <3>2, Zenon DEF RequestJustified, DecideConsent, locals
      <3> QED
          BY <1>3, <1>6, <2>1, <2>2, <2>3, <3>3, Zenon
    <2>4. CASE Proceed(r, "putPending")
      <3>1. pc'[r] = "putPending" /\ UNCHANGED locals
          BY <1>6, <2>1, <2>2, <2>4, Zenon
      <3>2. RequestJustified(r)'
          BY <1>2, <1>9, <2>1, <3>1, Zenon DEF RequestJustified, DecideConsent, locals
      <3> QED
          BY <1>3, <1>6, <2>1, <2>2, <2>4, <3>2, Zenon
    <2> QED
        BY <1>5, <1>9, <2>1, <2>3, <2>4, Zenon DEF DecideConsent
  <1>10. ASSUME NEW r \in Requests, NEW s \in Sessions, NEW sc \in Asked, BeginAuthorize(r, s, sc)
         PROVE  Justified'
    <2>1. "uri" \in Labels
        BY Zenon DEF Labels
    <2>2. UNCHANGED <<registered, fresh>> /\ Begin(r, "authorize", s, sc, NoId, "uri")
        BY <1>10, Zenon DEF BeginAuthorize, tables, past
    <2> QED
        BY <1>7, <2>1, <2>2, Zenon
  <1>11. ASSUME NEW r \in Requests, NEW s \in Sessions, NEW p \in Pendings, Take(r, s, p)
         PROVE  Justified'
    <2>1. "uri" \in Labels
        BY Zenon DEF Labels
    <2>2. /\ UNCHANGED <<registered, fresh>>
          /\ Begin(r, "submit", s, store[p].scope, p, "uri") \/ UNCHANGED <<pc, locals>>
        BY <1>11, Zenon DEF Take, Submit, tables
    <2> QED
        BY <1>4, <1>7, <2>1, <2>2, Zenon
  <1>12. ASSUME NEW r \in Requests, NEW c \in Codes, Consume(r, c) PROVE Justified'
    <2>1. "issue" \in Labels
        BY Zenon DEF Labels
    <2>2. /\ UNCHANGED <<registered, fresh>>
          /\ \/ Begin(r, "exchange", store[c].sid, store[c].scope, c, "issue")
             \/ UNCHANGED <<pc, locals>>
        BY <1>12, Zenon DEF Consume, Redeem, tables, past
    <2> QED
        BY <1>4, <1>7, <2>1, <2>2, Zenon
  <1>13. ASSUME NEW r \in Requests,
                \/ Abort(r) \/ Issue(r) \/ \E p \in Pendings : PutPending(r, p)
                \/ \E c \in Codes : PutCode(r, c)
         PROVE  Justified'
      BY <1>5, <1>13, Zenon DEF Abort, Issue, PutPending, PutCode, tables, past
  <1>14. ASSUME NEW r \in Requests, FindGrant(r) PROVE Justified'
    <2>1. /\ UNCHANGED <<registered, fresh, op, sid, scope, since, uriSeen>>
          /\ pc'[r] = "write" /\ \A q \in Requests \ {r} : pc'[q] = pc[q]
        BY <1>1, <1>14, Zenon DEF FindGrant, Goto, tables, past
    <2>2. RequestJustified(r)'
        BY <1>2, <1>14, <2>1, Zenon DEF RequestJustified, FindGrant
    <2> QED
        BY <1>3, <2>1, <2>2, Zenon
  <1>15. ASSUME NEW r \in Requests, NEW n, pc[r] = "write", Grant(r, n), UNCHANGED registered
         PROVE  Justified'
    <2>1. /\ UNCHANGED <<registered, op, sid, scope, uriSeen>> /\ fresh' = fresh \cup scope[r]
          /\ \A q \in Requests :
                since'[q] = IF op[q] = "authorize" THEN since[q] \cup scope[r] ELSE since[q]
          /\ pc'[r] = "putCode" /\ \A q \in Requests \ {r} : pc'[q] = pc[q]
        BY <1>1, <1>15, Zenon DEF Grant, Goto
    <2>2. ASSUME NEW q \in Requests PROVE RequestJustified(q)'
      <3>1. CASE q = r
          BY <1>2, <1>15, <2>1, <3>1, Zenon DEF RequestJustified
      <3>2. CASE q # r
          BY <1>2, <2>1, <3>2, Zenon DEF RequestJustified
      <3> QED
          BY <3>1, <3>2, Zenon
    <2> QED
        BY <2>2, Zenon DEF Justified
  <1>16. ASSUME NEW r \in Requests, WriteGrant(r) PROVE Justified'
    <2>1. UNCHANGED registered /\ pc[r] = "write" /\ "putCode" \in Labels
        BY <1>16, Zenon DEF WriteGrant, Labels
    <2>2. CASE Proceed(r, "putCode") /\ UNCHANGED fresh
      <3>1. pc'[r] = "putCode" /\ UNCHANGED locals
          BY <1>6, <2>1, <2>2, Zenon
      <3>2. RequestJustified(r)'
          BY <1>2, <2>1, <2>2, <3>1, Zenon DEF RequestJustified, locals
      <3> QED
          BY <1>3, <1>6, <2>1, <2>2, <3>2, Zenon
    <2> QED
        BY <1>5, <1>15, <1>16, <2>1, <2>2, Zenon DEF WriteGrant
  <1>17. CASE RevokeConsent
    <2>1. UNCHANGED <<registered, pc, op, sid, scope, since, uriSeen>> /\ fresh' = {}
        BY <1>17, Zenon DEF RevokeConsent
    <2>2. ASSUME NEW q \in Requests PROVE RequestJustified(q)'
        BY <1>2, <2>1, Zenon DEF RequestJustified
    <2> QED
        BY <2>2, Zenon DEF Justified
  <1>18. ASSUME NEW b \in BOOLEAN, SetRegistered(b) PROVE Justified'
    <2>1. UNCHANGED <<pc, op, sid, scope, since, fresh>> /\ registered' = b
        BY <1>18, Zenon DEF SetRegistered, past
    <2>2. \A q \in Requests :
             /\ uriSeen[q] => uriSeen'[q]
             /\ b /\ op[q] \in {"authorize", "submit"} => uriSeen'[q]
        BY <1>1, <1>18, Zenon DEF SetRegistered
    <2>3. ASSUME NEW q \in Requests PROVE RequestJustified(q)'
        BY <1>2, <2>1, <2>2, Zenon DEF RequestJustified
    <2> QED
        BY <2>3, Zenon DEF Justified
  <1>19. ASSUME NEW k \in Ids, Expire(k) PROVE Justified'
      BY <1>4, <1>19, Zenon DEF Expire, tables, past
  <1> QED
      BY <1>8, <1>9, <1>10, <1>11, <1>12, <1>13, <1>14, <1>16, <1>17, <1>18, <1>19, Zenon DEF Next, Step

\* The invariant is inductive.
LEMMA AuthorizationNext == AuthorizationInv /\ [Next]_vars => AuthorizationInv'
  <1> SUFFICES ASSUME AuthorizationInv, [Next]_vars PROVE AuthorizationInv'
      BY Zenon
  <1>1. CASE Next
      BY <1>1, AuthorizationTypes, AuthorizationOnce, AuthorizationConsent,
         AuthorizationJustified, Zenon DEF AuthorizationInv
  <1>2. CASE UNCHANGED vars
    <2>1. TypeOK'
        BY <1>2, Zenon DEF AuthorizationInv, TypeOK, vars, tables, locals, past
    <2>2. OneAnswer'
        BY <1>2, Zenon DEF AuthorizationInv, OneAnswer, AnsweredAndRedeemedOnce, vars, locals, past
    <2>3. Consent'
        BY <1>2, Zenon DEF AuthorizationInv, Consent, RevokedStaysRevoked, GrantsAccumulate,
                           vars, tables, locals, past
    <2>4. Justified'
        BY <1>2, Zenon DEF AuthorizationInv, Justified, RequestJustified, vars, tables, locals, past
    <2> QED
        BY <2>1, <2>2, <2>3, <2>4, Zenon DEF AuthorizationInv
  <1> QED
      BY <1>1, <1>2, Zenon

\* The properties the runs check follow from it.
LEMMA AuthorizationSound ==
    AuthorizationInv =>
        /\ TypeOK /\ AnsweredAndRedeemedOnce /\ RevokedStaysRevoked /\ GrantsAccumulate
        /\ SilentCodeCovered /\ RedirectRevalidated
  <1> SUFFICES ASSUME AuthorizationInv
               PROVE  /\ TypeOK /\ AnsweredAndRedeemedOnce /\ RevokedStaysRevoked /\ GrantsAccumulate
                      /\ SilentCodeCovered /\ RedirectRevalidated
      BY Zenon
  <1>1. TypeOK /\ AnsweredAndRedeemedOnce /\ RevokedStaysRevoked /\ GrantsAccumulate
      BY Zenon DEF AuthorizationInv, OneAnswer, Consent
  <1>2. ASSUME NEW r \in Requests, pc[r] = "putCode"
        PROVE  uriSeen[r] /\ (op[r] = "authorize" => scope[r] \subseteq since[r])
      BY <1>2, Zenon DEF AuthorizationInv, Justified, RequestJustified
  <1> QED
      BY <1>1, <1>2, Zenon DEF SilentCodeCovered, RedirectRevalidated

-----------------------------------------------------------------------------
(* Both grants.  The device grant's invariant is that of DeviceGrantProofs,*)
(* once for each way the run instantiates it.                              *)

GrantsInv ==
    /\ part = "codes" => AuthorizationInv
    /\ part = "devices" => Device!DeviceInv
    /\ part = "rivals" => Rivals!DeviceInv

\* The assumptions under which the device grant was proved are those of the run.
LEMMA DeviceConstants == Device!ConstantsOK /\ Rivals!ConstantsOK
    BY DevicesAssumption, Zenon DEF Device!ConstantsOK, Rivals!ConstantsOK

\* Every grant starts in its invariant.
LEMMA GrantsInit == MCInit => GrantsInv
  <1>1. ASSUME part = "codes", Init PROVE GrantsInv
      BY <1>1, AuthorizationInit, Zenon DEF GrantsInv
  <1>2. ASSUME part = "devices", Device!Init PROVE GrantsInv
    <2>1. Device!DeviceInv
        BY <1>2, DeviceConstants, Device!DeviceInit, Zenon
    <2> QED
        BY <1>2, <2>1, Zenon DEF GrantsInv
  <1>3. ASSUME part = "rivals", Rivals!Init PROVE GrantsInv
    <2>1. Rivals!DeviceInv
        BY <1>3, DeviceConstants, Rivals!DeviceInit, Zenon
    <2> QED
        BY <1>3, <2>1, Zenon DEF GrantsInv
  <1> QED
      BY <1>1, <1>2, <1>3, Zenon DEF MCInit

\* Every step, of whichever grant runs, preserves its invariant.
LEMMA GrantsNext == GrantsInv /\ [MCNext]_<<part, vars, deviceVars>> => GrantsInv'
  <1> SUFFICES ASSUME GrantsInv, [MCNext]_<<part, vars, deviceVars>> PROVE GrantsInv'
      BY Zenon
  <1>1. ASSUME part = "codes", [Next]_vars, UNCHANGED part PROVE GrantsInv'
    <2>1. AuthorizationInv'
        BY <1>1, AuthorizationNext, Zenon DEF GrantsInv
    <2> QED
        BY <1>1, <2>1, Zenon DEF GrantsInv
  <1>2. ASSUME part = "devices", Device!Next \/ UNCHANGED deviceVars, UNCHANGED part PROVE GrantsInv'
    <2>1. [Device!Next]_(Device!vars)
        BY <1>2, Zenon DEF deviceVars, Device!vars, Device!locals, Device!past, Device!hash
    <2>2. Device!DeviceInv'
        BY <1>2, <2>1, DeviceConstants, Device!DeviceNext, Zenon DEF GrantsInv
    <2> QED
        BY <1>2, <2>2, Zenon DEF GrantsInv
  <1>3. ASSUME part = "rivals", Rivals!Next \/ UNCHANGED deviceVars, UNCHANGED part PROVE GrantsInv'
    <2>1. [Rivals!Next]_(Rivals!vars)
        BY <1>3, Zenon DEF deviceVars, Rivals!vars, Rivals!locals, Rivals!past, Rivals!hash
    <2>2. Rivals!DeviceInv'
        BY <1>3, <2>1, DeviceConstants, Rivals!DeviceNext, Zenon DEF GrantsInv
    <2> QED
        BY <1>3, <2>2, Zenon DEF GrantsInv
  <1>4. CASE UNCHANGED <<part, vars, deviceVars>>
    <2>1. part \notin {"codes", "devices", "rivals"} => GrantsInv'
        BY <1>4, Zenon DEF GrantsInv
    <2> QED
        BY <1>1, <1>2, <1>3, <1>4, <2>1, Zenon
  <1> QED
      BY <1>1, <1>2, <1>3, <1>4, Zenon DEF MCNext

\* GrantsInv holds at every moment.
LEMMA GrantsAlways == MCSpec => []GrantsInv
    BY GrantsInit, GrantsNext, PTL DEF MCSpec

\* Both grants keep their types: every request, pending entry, code and device row
\* stays one the handlers can produce.
THEOREM GrantsTypes == MCSpec => []TypesOK
  <1>1. GrantsInv => TypesOK
      BY AuthorizationSound, Zenon DEF GrantsInv, TypesOK, Device!DeviceInv, Rivals!DeviceInv
  <1> QED
      BY <1>1, GrantsAlways, PTL

\* One consent screen yields at most one code, none when it was refused, and a code
\* is redeemed once, however many POST /consent and POST /oauth/token race for the
\* GETDEL.
THEOREM AnsweredOnce == MCSpec => []OneAnswerOneRedemption
  <1>1. GrantsInv => OneAnswerOneRedemption
      BY AuthorizationSound, Zenon DEF GrantsInv, OneAnswerOneRedemption
  <1> QED
      BY <1>1, GrantsAlways, PTL

\* The consent row holds nothing but what the user allowed since the last revocation,
\* and all of it unless two grant() calls overlapped.
THEOREM ConsentFollowsUser == MCSpec => []ConsentTracksUser
  <1>1. GrantsInv => ConsentTracksUser
      BY AuthorizationSound, Zenon DEF GrantsInv, ConsentTracksUser
  <1> QED
      BY <1>1, GrantsAlways, PTL

\* Whoever is about to put a code checked its redirect URI since the request began,
\* and without a screen its scopes were all allowed then or since.
THEOREM CodesCovered == MCSpec => []CodesJustified
  <1>1. GrantsInv => CodesJustified
      BY AuthorizationSound, Zenon DEF GrantsInv, CodesJustified
  <1> QED
      BY <1>1, GrantsAlways, PTL

\* A device code's tokens are for a session that approved it; no poll that starts
\* after the expiry gets any; and a second set needs two polls that overlapped.
THEOREM DevicePolls == MCSpec => []DeviceTokensJustified
  <1>1. GrantsInv => DeviceTokensJustified
      BY Device!DeviceTokens, Rivals!DeviceTokens, Zenon DEF GrantsInv, DeviceTokensJustified
  <1> QED
      BY <1>1, GrantsAlways, PTL

\* The user code on a device's screen leads to that device as long as both are live.
THEOREM DeviceScreens == MCSpec => []UserCodesLead
  <1>1. GrantsInv => UserCodesLead
      BY DeviceConstants, Device!DeviceUserCodes, Zenon DEF GrantsInv, UserCodesLead
  <1> QED
      BY <1>1, GrantsAlways, PTL
=============================================================================
