--------------------------- MODULE SessionsProofs ---------------------------
(***************************************************************************)
(* Proofs about Sessions, for any number of requests, sessions and users.  *)
(* StaleEntryExplained is not inductive: that a DELETE leaves no entry     *)
(* behind depends on what held when each key was passed, which is          *)
(* PassedKeysExplained, and on what a request's control state says of its  *)
(* local variables, which is ControlOK.                                    *)
(***************************************************************************)
EXTENDS Sessions, TLAPS

\* What the control state of a request says about its other variables.
ControlOf(r) ==
    /\ pc[r] # "idle" => op[r] \in Kinds
    /\ pc[r] \in {"readCache", "readRow", "fill", "check", "insert"}
           => sess[r] \in minted /\ op[r] \in LookupOps \cup {"login"}
    /\ pc[r] \in {"readCache", "readRow", "check"} => op[r] \in LookupOps
    /\ pc[r] \in {"revoke", "deleteRows"} => ~failed[r] /\ todo[r] = {}
    /\ pc[r] = "deleteUser" => op[r] = "deleteUser" /\ todo[r] = {}
    /\ pc[r] = "readUser" => op[r] \in UpdateOps \cup {"changePassword"}
    /\ pc[r] = "readUser" => usr[r] \in Users
    /\ pc[r] = "writeUser" => op[r] \in UpdateOps
    /\ op[r] \in BulkOps \cup UpdateOps => usr[r] \in Users /\ sess[r] = NoSession
    /\ op[r] \in UpdateOps /\ pc[r] \notin {"idle", "readUser", "rejected"}
           => snap[r] \in AccountStates

ControlOK == \A r \in Requests : ControlOf(r)

IInv == TypeOK /\ ControlOK /\ StaleEntryExplained /\ PassedKeysExplained

-----------------------------------------------------------------------------
(* Each action preserves the inductive invariant. *)

\* No rows, no entries, no requests: the invariant holds at start-up.
LEMMA InitIInv == Init => IInv
BY DEF Init, IInv, TypeOK, ControlOK, ControlOf, StaleEntryExplained, PassedKeysExplained,
   LookupOps, BulkOps, KickOps, UpdateOps, Ops, PCs, AccountStates

\* A lookup, logout or change-password request starts: it passes no key.
LEMMA BeginLookupStep ==
    ASSUME IInv, NEW r \in Requests, NEW o \in LookupOps, NEW x \in Sessions, BeginLookup(r, o, x)
    PROVE  IInv'
<1>1. TypeOK'
    BY KindsAssumption DEF IInv, TypeOK, BeginLookup, Start, Goto, dbVars, PCs, Running
<1>2. ControlOK'
    BY DEF IInv, TypeOK, ControlOK, ControlOf, BeginLookup, Start, Goto, Known, dbVars,
       LookupOps, BulkOps, KickOps, UpdateOps
<1>3. StaleEntryExplained'
    BY DEF StaleEntryExplained, IInv, BeginLookup, dbVars
<1>4. PassedKeysExplained'
    BY DEF PassedKeysExplained, Passed, WillDelete, Victims, IInv, BeginLookup, Start, Goto
<1>. QED
    BY <1>1, <1>2, <1>3, <1>4, Zenon DEF IInv

\* A login mints a session id: no row and no entry changes.
LEMMA BeginLoginStep ==
    ASSUME IInv, NEW r \in Requests, NEW x \in Sessions, BeginLogin(r, x)
    PROVE  IInv'
<1>1. TypeOK'
    BY OwnerAssumption, KindsAssumption DEF IInv, TypeOK, BeginLogin, Start, Goto, histVars,
       PCs, Running
<1>2. ControlOK'
    BY DEF IInv, TypeOK, ControlOK, ControlOf, BeginLogin, Start, Goto, BulkOps, KickOps,
       UpdateOps
<1>3. StaleEntryExplained'
    BY DEF StaleEntryExplained, IInv, BeginLogin, histVars
<1>4. PassedKeysExplained'
    BY DEF PassedKeysExplained, Passed, WillDelete, Victims, IInv, BeginLogin, Start, Goto,
       histVars
<1>. QED
    BY <1>1, <1>2, <1>3, <1>4, Zenon DEF IInv

\* An OIDC logout or revoke_session starts.
LEMMA BeginEndSessionStep ==
    ASSUME IInv, NEW r \in Requests, NEW x \in Sessions, BeginEndSession(r, x)
    PROVE  IInv'
<1>1. TypeOK'
    BY KindsAssumption DEF IInv, TypeOK, BeginEndSession, Start, Goto, dbVars, histVars, PCs,
       Running
<1>2. ControlOK'
    BY DEF IInv, TypeOK, ControlOK, ControlOf, BeginEndSession, Start, Goto, dbVars, BulkOps,
       KickOps, UpdateOps
<1>3. StaleEntryExplained'
    BY DEF StaleEntryExplained, IInv, BeginEndSession, dbVars, histVars
<1>4. PassedKeysExplained'
    BY DEF PassedKeysExplained, Passed, WillDelete, Victims, IInv, BeginEndSession, Start,
       Goto, histVars
<1>. QED
    BY <1>1, <1>2, <1>3, <1>4, Zenon DEF IInv

\* A delete of all of a user's sessions starts.
LEMMA BeginBulkStep ==
    ASSUME IInv, NEW r \in Requests, NEW o \in BulkOps, NEW u \in Users, BeginBulk(r, o, u)
    PROVE  IInv'
<1>1. TypeOK'
    BY KindsAssumption DEF IInv, TypeOK, BeginBulk, Start, Goto, dbVars, histVars, PCs, Running
<1>2. ControlOK'
    BY DEF IInv, TypeOK, ControlOK, ControlOf, BeginBulk, Start, Goto, dbVars, BulkOps,
       KickOps, UpdateOps
<1>3. StaleEntryExplained'
    BY DEF StaleEntryExplained, IInv, BeginBulk, dbVars, histVars
<1>4. PassedKeysExplained'
    BY DEF PassedKeysExplained, Passed, WillDelete, Victims, IInv, BeginBulk, Start, Goto,
       histVars
<1>. QED
    BY <1>1, <1>2, <1>3, <1>4, Zenon DEF IInv

\* An update_user starts.
LEMMA BeginUpdateStep ==
    ASSUME IInv, NEW r \in Requests, NEW o \in UpdateOps, NEW u \in Users, BeginUpdate(r, o, u)
    PROVE  IInv'
<1>1. TypeOK'
    BY KindsAssumption DEF IInv, TypeOK, BeginUpdate, Start, Goto, dbVars, histVars, PCs, Running
<1>2. ControlOK'
    BY DEF IInv, TypeOK, ControlOK, ControlOf, BeginUpdate, Start, Goto, dbVars
<1>3. StaleEntryExplained'
    BY DEF StaleEntryExplained, IInv, BeginUpdate, dbVars, histVars
<1>4. PassedKeysExplained'
    BY DEF PassedKeysExplained, Passed, WillDelete, Victims, IInv, BeginUpdate, Start, Goto,
       histVars
<1>. QED
    BY <1>1, <1>2, <1>3, <1>4, Zenon DEF IInv

\* A cache read changes only the request's snapshot.
LEMMA ReadCacheStep ==
    ASSUME IInv, NEW r \in Requests, ReadCache(r)
    PROVE  IInv'
<1>1. TypeOK'
    BY DEF IInv, TypeOK, ControlOK, ControlOf, ReadCache, Goto, dbVars, reqVars, histVars, PCs,
       Running
<1>2. ControlOK'
    BY DEF IInv, TypeOK, ControlOK, ControlOf, ReadCache, Goto, dbVars, reqVars
<1>3. StaleEntryExplained'
    BY DEF StaleEntryExplained, IInv, ReadCache, dbVars, histVars
<1>4. PassedKeysExplained'
    BY DEF PassedKeysExplained, Passed, WillDelete, Victims, IInv, TypeOK, ReadCache, Goto,
       reqVars, histVars
<1>. QED
    BY <1>1, <1>2, <1>3, <1>4, Zenon DEF IInv

\* A row read changes only the request's snapshot.
LEMMA ReadRowStep ==
    ASSUME IInv, NEW r \in Requests, ReadRow(r)
    PROVE  IInv'
<1>1. TypeOK'
    BY OwnerAssumption DEF IInv, TypeOK, ReadRow, Goto, dbVars, reqVars, histVars, PCs,
       Running, Finished
<1>2. ControlOK'
    BY NoSessionAssumption DEF IInv, TypeOK, ControlOK, ControlOf, ReadRow, Goto, dbVars, reqVars
<1>3. StaleEntryExplained'
    BY DEF StaleEntryExplained, IInv, ReadRow, dbVars, histVars
<1>4. PassedKeysExplained'
    BY DEF PassedKeysExplained, Passed, WillDelete, Victims, IInv, TypeOK, ReadRow, Goto,
       reqVars, histVars
<1>. QED
    BY <1>1, <1>2, <1>3, <1>4, Zenon DEF IInv

\* A fill is either in time, and then no deleter has passed its key, or late.
LEMMA FillStep ==
    ASSUME IInv, NEW r \in Requests, Fill(r)
    PROVE  IInv'
<1>1. TypeOK'
    BY DEF IInv, TypeOK, ControlOK, ControlOf, Fill, Goto, dbVars, reqVars, PCs, Running, Finished
<1>2. ControlOK'
    BY DEF IInv, ControlOK, ControlOf, Fill, Goto, dbVars, reqVars
<1>3. StaleEntryExplained'
    BY DEF StaleEntryExplained, IInv, TypeOK, Fill, dbVars
<1>4. PassedKeysExplained'
    BY DEF PassedKeysExplained, Passed, WillDelete, Victims, IInv, TypeOK, Fill, Goto, reqVars
<1>. QED
    BY <1>1, <1>2, <1>3, <1>4, Zenon DEF IInv

\* The expiry and enabled checks change no shared state.
LEMMA CheckStep ==
    ASSUME IInv, NEW r \in Requests, Check(r)
    PROVE  IInv'
<1>1. TypeOK'
    BY OwnerAssumption DEF IInv, TypeOK, ControlOK, ControlOf, Check, Goto, dbVars, histVars,
       PCs, Running, Finished
<1>2. ControlOK'
    BY OwnerAssumption, NoSessionAssumption DEF IInv, TypeOK, ControlOK, ControlOf, Check,
       Goto, dbVars, LookupOps
<1>3. StaleEntryExplained'
    BY DEF StaleEntryExplained, IInv, Check, dbVars, histVars
<1>4. PassedKeysExplained'
    BY DEF PassedKeysExplained, Passed, WillDelete, Victims, IInv, TypeOK, Check, Goto, histVars
<1>. QED
    BY <1>1, <1>2, <1>3, <1>4, Zenon DEF IInv

\* A new row can only explain more entries.
LEMMA InsertStep ==
    ASSUME IInv, NEW r \in Requests, Insert(r)
    PROVE  IInv'
<1>1. TypeOK'
    BY DEF IInv, TypeOK, ControlOK, ControlOf, Insert, Goto, reqVars, histVars, PCs, Running,
       Finished
<1>2. ControlOK'
    BY DEF IInv, TypeOK, ControlOK, ControlOf, Insert, Goto, reqVars
<1>3. StaleEntryExplained'
    BY DEF StaleEntryExplained, IInv, Insert, histVars
<1>4. PassedKeysExplained'
    BY DEF PassedKeysExplained, Passed, WillDelete, Victims, IInv, TypeOK, Insert, Goto,
       reqVars, histVars
<1>. QED
    BY <1>1, <1>2, <1>3, <1>4, Zenon DEF IInv

\* Revoking refresh tokens first touches neither rows nor entries.
LEMMA RevokeFirstStep ==
    ASSUME IInv, NEW r \in Requests, RevokeFirst(r)
    PROVE  IInv'
<1>1. TypeOK'
    BY DEF IInv, TypeOK, RevokeFirst, Goto, dbVars, reqVars, histVars, PCs, Running
<1>2. ControlOK'
    BY DEF IInv, ControlOK, ControlOf, RevokeFirst, Goto, dbVars, reqVars
<1>3. StaleEntryExplained'
    BY DEF StaleEntryExplained, IInv, RevokeFirst, dbVars, histVars
<1>4. PassedKeysExplained'
    BY DEF PassedKeysExplained, Passed, WillDelete, Victims, IInv, RevokeFirst, Goto, reqVars,
       histVars
<1>. QED
    BY <1>1, <1>2, <1>3, <1>4, Zenon DEF IInv

\* After the listing, a victim not in todo has no row, so its entry, if any, is explained.
LEMMA ListTokensStep ==
    ASSUME IInv, NEW r \in Requests, ListTokens(r)
    PROVE  IInv'
<1>1. TypeOK'
    <2>1. todo' \in [Requests -> SUBSET Sessions] /\ failed' \in [Requests -> BOOLEAN]
        BY DEF IInv, TypeOK, ListTokens
    <2>2. Shrug(r) \in PCs /\ "del" \in PCs
        BY DEF Shrug, Resume, PCs, Running, Finished
    <2>3. pc' \in [Requests -> PCs]
        BY <2>2 DEF IInv, TypeOK, ListTokens, Goto
    <2>. QED
        BY <2>1, <2>3 DEF IInv, TypeOK, ListTokens, dbVars, reqVars, histVars
<1>2. ControlOK'
    BY DEF IInv, TypeOK, ControlOK, ControlOf, ListTokens, Goto, Shrug, Resume, dbVars, reqVars,
       UpdateOps
<1>3. StaleEntryExplained'
    BY DEF StaleEntryExplained, IInv, ListTokens, dbVars, histVars
<1>4. PassedKeysExplained'
    BY DEF StaleEntryExplained, PassedKeysExplained, Passed, WillDelete, Victims, IInv, TypeOK,
       ListTokens, Goto, Shrug, Resume, reqVars, histVars
<1>. QED
    BY <1>1, <1>2, <1>3, <1>4, Zenon DEF IInv

\* A DEL that succeeds removes the entry; one that fails marks the request failed.
LEMMA DelKeyStep ==
    ASSUME IInv, NEW r \in Requests, DelKey(r)
    PROVE  IInv'
<1>1. TypeOK'
    <2>. PICK s \in todo[r] :
            /\ todo' = [todo EXCEPT ![r] = @ \ {s}]
            /\ \/ /\ cache' = [cache EXCEPT ![s] = "none"]
                  /\ late' = late \ {s} /\ orphaned' = orphaned \ {s}
                  /\ UNCHANGED failed
               \/ /\ failed' = [failed EXCEPT ![r] = TRUE]
                  /\ UNCHANGED <<cache, late, orphaned>>
        BY Zenon DEF DelKey
    <2>1. todo' \in [Requests -> SUBSET Sessions]
        BY DEF IInv, TypeOK
    <2>2. cache' \in [Sessions -> {"none"} \cup AccountStates]
        BY DEF IInv, TypeOK
    <2>3. late' \subseteq Sessions /\ orphaned' \subseteq Sessions
        BY DEF IInv, TypeOK
    <2>4. failed' \in [Requests -> BOOLEAN]
        BY ZenonT(60) DEF IInv, TypeOK
    <2>. QED
        BY <2>1, <2>2, <2>3, <2>4 DEF IInv, TypeOK, DelKey, dbVars, reqVars
<1>2. ControlOK'
    BY DEF IInv, TypeOK, ControlOK, ControlOf, DelKey, dbVars, reqVars
<1>3. StaleEntryExplained'
    BY DEF StaleEntryExplained, IInv, TypeOK, DelKey, dbVars
<1>4. PassedKeysExplained'
    BY DEF PassedKeysExplained, Passed, WillDelete, Victims, IInv, TypeOK, DelKey, reqVars
<1>. QED
    BY <1>1, <1>2, <1>3, <1>4, Zenon DEF IInv

\* Only a request none of whose DELs failed goes on to remove rows.
LEMMA DelDoneStep ==
    ASSUME IInv, NEW r \in Requests, DelDone(r)
    PROVE  IInv'
<1>1. TypeOK'
    BY DEF IInv, TypeOK, DelDone, Goto, Shrug, Resume, dbVars, reqVars, histVars, PCs,
       Running, Finished
<1>2. ControlOK'
    BY DEF IInv, ControlOK, ControlOf, DelDone, Goto, Shrug, Resume, dbVars, reqVars, UpdateOps
<1>3. StaleEntryExplained'
    BY DEF StaleEntryExplained, IInv, DelDone, dbVars, histVars
<1>4. PassedKeysExplained'
    BY DEF PassedKeysExplained, Passed, WillDelete, Victims, IInv, DelDone, Goto, reqVars,
       histVars
<1>. QED
    BY <1>1, <1>2, <1>3, <1>4, Zenon DEF IInv

\* Revoking refresh tokens touches neither rows nor entries.
LEMMA RevokeRefreshStep ==
    ASSUME IInv, NEW r \in Requests, RevokeRefresh(r)
    PROVE  IInv'
<1>1. TypeOK'
    BY DEF IInv, TypeOK, RevokeRefresh, Goto, Shrug, Resume, dbVars, reqVars, histVars, PCs,
       Running, Finished
<1>2. ControlOK'
    BY DEF IInv, TypeOK, ControlOK, ControlOf, RevokeRefresh, Goto, Shrug, Resume, dbVars,
       reqVars, UpdateOps
<1>3. StaleEntryExplained'
    BY DEF StaleEntryExplained, IInv, RevokeRefresh, dbVars, histVars
<1>4. PassedKeysExplained'
    BY DEF PassedKeysExplained, Passed, WillDelete, Victims, IInv, TypeOK, RevokeRefresh, Goto,
       Shrug, Resume, reqVars, histVars
<1>. QED
    BY <1>1, <1>2, <1>3, <1>4, Zenon DEF IInv

\* The DELETE removes only rows whose keys the request has passed.
LEMMA DeleteRowsStep ==
    ASSUME IInv, NEW r \in Requests, DeleteRows(r)
    PROVE  IInv'
<1>1. TypeOK'
    BY DEF IInv, TypeOK, DeleteRows, Goto, Shrug, Resume, reqVars, histVars, PCs,
       Running, Finished
<1>2. ControlOK'
    BY DEF IInv, TypeOK, ControlOK, ControlOf, DeleteRows, Goto, Shrug, Resume, reqVars, UpdateOps
<1>3. StaleEntryExplained'
    BY DEF StaleEntryExplained, PassedKeysExplained, Passed, WillDelete, IInv, ControlOK,
       ControlOf, DeleteRows, histVars
<1>4. PassedKeysExplained'
    BY DEF PassedKeysExplained, Passed, WillDelete, Victims, IInv, TypeOK, ControlOK, ControlOf,
       DeleteRows, Goto, Shrug, Resume, reqVars, histVars
<1>. QED
    BY <1>1, <1>2, <1>3, <1>4, Zenon DEF IInv

\* update_user reads the users row.
LEMMA ReadUserStep ==
    ASSUME IInv, NEW r \in Requests, ReadUser(r)
    PROVE  IInv'
<1>1. TypeOK'
    BY DEF IInv, TypeOK, ControlOK, ControlOf, ReadUser, Goto, dbVars, reqVars, histVars, PCs,
       Running, Finished, AccountStates
<1>2. ControlOK'
    BY DEF IInv, TypeOK, ControlOK, ControlOf, ReadUser, Goto, dbVars, reqVars, KickOps,
       UpdateOps, AccountStates
<1>3. StaleEntryExplained'
    BY DEF StaleEntryExplained, IInv, ReadUser, dbVars, histVars
<1>4. PassedKeysExplained'
    BY DEF PassedKeysExplained, Passed, WillDelete, Victims, IInv, TypeOK, ReadUser, Goto,
       reqVars, histVars
<1>. QED
    BY <1>1, <1>2, <1>3, <1>4, Zenon DEF IInv

\* update_user writes the users row.
LEMMA WriteUserStep ==
    ASSUME IInv, NEW r \in Requests, WriteUser(r)
    PROVE  IInv'
<1>1. TypeOK'
    BY DEF IInv, TypeOK, ControlOK, ControlOf, WriteUser, Goto, reqVars, histVars, PCs,
       Running, Finished
<1>2. ControlOK'
    BY DEF IInv, ControlOK, ControlOf, WriteUser, Goto, reqVars
<1>3. StaleEntryExplained'
    BY DEF StaleEntryExplained, IInv, WriteUser, histVars
<1>4. PassedKeysExplained'
    BY DEF PassedKeysExplained, Passed, WillDelete, Victims, IInv, WriteUser, Goto, reqVars,
       histVars
<1>. QED
    BY <1>1, <1>2, <1>3, <1>4, Zenon DEF IInv

\* The cascade removes rows whose keys were passed, or leaves orphans.
LEMMA DeleteUserStep ==
    ASSUME IInv, NEW r \in Requests, DeleteUser(r)
    PROVE  IInv'
<1>1. TypeOK'
    BY DEF IInv, TypeOK, ControlOK, ControlOf, DeleteUser, Goto, reqVars, BulkOps, PCs,
       Finished, AccountStates
<1>2. ControlOK'
    BY DEF IInv, ControlOK, ControlOf, DeleteUser, Goto, reqVars
<1>3. StaleEntryExplained'
    BY NoSessionAssumption, NoUserAssumption DEF StaleEntryExplained, PassedKeysExplained,
       Passed, WillDelete, Victims, IInv, ControlOK, ControlOf, DeleteUser, BulkOps
<1>4. PassedKeysExplained'
    BY DEF PassedKeysExplained, Passed, WillDelete, Victims, IInv, DeleteUser, Goto, reqVars
<1>. QED
    BY <1>1, <1>2, <1>3, <1>4, Zenon DEF IInv

\* An answered or dropped request leaves rows and entries as they are.
LEMMA ForgetStep ==
    ASSUME IInv, NEW r \in Requests, Forget(r)
    PROVE  IInv'
<1>1. TypeOK'
    BY DEF IInv, TypeOK, Forget, Goto, dbVars, LookupOps, Ops, PCs
<1>2. ControlOK'
    BY DEF IInv, TypeOK, ControlOK, ControlOf, Forget, Goto, dbVars, BulkOps, KickOps, UpdateOps
<1>3. StaleEntryExplained'
    BY DEF StaleEntryExplained, IInv, Forget, dbVars
<1>4. PassedKeysExplained'
    BY DEF PassedKeysExplained, Passed, WillDelete, Victims, IInv, TypeOK, Forget, Goto
<1>. QED
    BY <1>1, <1>2, <1>3, <1>4, Zenon DEF IInv

\* Time passes.
LEMMA ExpireStep ==
    ASSUME IInv, NEW x \in Sessions, Expire(x)
    PROVE  IInv'
<1>1. TypeOK'
    BY DEF IInv, TypeOK, Expire, reqVars, histVars
<1>2. ControlOK'
    BY DEF IInv, ControlOK, ControlOf, Expire, reqVars
<1>3. StaleEntryExplained'
    BY DEF StaleEntryExplained, IInv, Expire, histVars
<1>4. PassedKeysExplained'
    BY DEF PassedKeysExplained, Passed, WillDelete, Victims, IInv, Expire, reqVars, histVars
<1>. QED
    BY <1>1, <1>2, <1>3, <1>4, Zenon DEF IInv

\* Redis drops an entry.
LEMMA EvictStep ==
    ASSUME IInv, NEW x \in Sessions, Evict(x)
    PROVE  IInv'
<1>1. TypeOK'
    BY DEF IInv, TypeOK, Evict, dbVars, reqVars
<1>2. ControlOK'
    BY DEF IInv, ControlOK, ControlOf, Evict, dbVars, reqVars
<1>3. StaleEntryExplained'
    BY DEF StaleEntryExplained, IInv, TypeOK, Evict, dbVars
<1>4. PassedKeysExplained'
    BY DEF PassedKeysExplained, Passed, WillDelete, Victims, IInv, TypeOK, Evict, reqVars
<1>. QED
    BY <1>1, <1>2, <1>3, <1>4, Zenon DEF IInv

-----------------------------------------------------------------------------
(* The theorems. *)

\* Every step of the system preserves the inductive invariant.
LEMMA NextIInv == IInv /\ [Next]_vars => IInv'
<1>. SUFFICES ASSUME IInv, [Next]_vars PROVE IInv'
    OBVIOUS
<1>1. ASSUME NEW r \in Requests, Begin(r) PROVE IInv'
    BY <1>1, BeginLookupStep, BeginLoginStep, BeginEndSessionStep, BeginBulkStep,
       BeginUpdateStep DEF Begin
<1>2. ASSUME NEW r \in Requests, Step(r) PROVE IInv'
    <2>1. CASE Answer(r)
        BY <2>1, ForgetStep DEF Answer
    <2>. QED
        BY <1>2, <2>1, ReadCacheStep, ReadRowStep, FillStep, CheckStep, InsertStep,
           RevokeFirstStep, ListTokensStep, DelKeyStep, DelDoneStep, RevokeRefreshStep,
           DeleteRowsStep, ReadUserStep, WriteUserStep, DeleteUserStep DEF Step
<1>3. ASSUME NEW r \in Requests, Drop(r) PROVE IInv'
    BY <1>3, ForgetStep DEF Drop
<1>4. ASSUME NEW s \in Sessions, Expire(s) \/ Evict(s) PROVE IInv'
    BY <1>4, ExpireStep, EvictStep
<1>5. CASE UNCHANGED vars
    BY <1>5 DEF vars, dbVars, reqVars, histVars, IInv, TypeOK, ControlOK, ControlOf,
       StaleEntryExplained, PassedKeysExplained, Passed, WillDelete, Victims
<1>. QED
    BY <1>1, <1>2, <1>3, <1>4, <1>5 DEF Next

\* The inductive invariant holds throughout every behaviour.
LEMMA IInvHolds == Spec => []IInv
BY InitIInv, NextIInv, PTL DEF Spec

\* Type correctness of the session store.
THEOREM TypeCorrect == Spec => []TypeOK
<1>1. IInv => TypeOK
    BY DEF IInv
<1>. QED
    BY <1>1, IInvHolds, PTL

\* Whatever the number of requests, sessions and users: an entry that outlives
\* its row came from a fill that ran after a deleter had passed the key
\* (find_by_token, persist), or from a delete_user that went on although the
\* SELECT of its keys, or one of their DELs, had failed.
THEOREM StaleEntriesExplained == Spec => []StaleEntryExplained
<1>1. IInv => StaleEntryExplained
    BY DEF IInv
<1>. QED
    BY <1>1, IInvHolds, PTL

\* No request but delete_user removes rows after one of its DELs, or the SELECT
\* of its keys, failed:
\* delete, delete_all_by_user_id and its _except variant abort.
THEOREM AbortsKeepRows == Spec => AbortKeepsRows
<1>1. ASSUME IInv, [Next]_vars
      PROVE  [\A r \in Requests, s \in row \ row' :
                 pc'[r] # pc[r] /\ op[r] # "deleteUser" => ~failed[r]]_vars
    <2>. SUFFICES ASSUME NEW r \in Requests, NEW s \in row, s \notin row',
                         pc'[r] # pc[r], op[r] # "deleteUser"
                  PROVE  ~failed[r]
        BY SMTT(30)
    <2>1. PICK q \in Requests : DeleteRows(q) \/ DeleteUser(q)
        BY <1>1, ZenonT(60) DEF Next, Begin, Step, Drop, Answer, Forget, Expire, Evict, vars,
           dbVars, BeginLookup, BeginLogin, BeginEndSession, BeginBulk, BeginUpdate, ReadCache,
           ReadRow, Fill, Check, Insert, RevokeFirst, ListTokens, DelKey, DelDone, RevokeRefresh,
           ReadUser, WriteUser
    <2>2. r = q
        BY <1>1, <2>1 DEF DeleteRows, DeleteUser, Goto, IInv, TypeOK
    <2>3. pc[r] = "deleteRows"
        BY <1>1, <2>1, <2>2 DEF DeleteRows, DeleteUser, IInv, ControlOK, ControlOf
    <2>. QED
        BY <1>1, <2>3 DEF IInv, ControlOK, ControlOf
<1>. QED
    BY <1>1, IInvHolds, PTL DEF Spec, AbortKeepsRows
=============================================================================
