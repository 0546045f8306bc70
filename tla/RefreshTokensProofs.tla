------------------------ MODULE RefreshTokensProofs -------------------------
(***************************************************************************)
(* Proofs about RefreshTokens, for any number of requests, sessions and    *)
(* tokens.  The properties rest on what the row locks guarantee: a locked  *)
(* row belongs to one transaction (LocksExclusive) and still has the state *)
(* that transaction saw (ControlOK), and a session row that is being       *)
(* deleted has no token that its deleter does not know of (CascadeOK).     *)
(***************************************************************************)
EXTENDS RefreshTokens, TLAPS

\* What the control state of a request says about its other variables.
ControlOf(r) ==
    /\ pc[r] \in {"lock", "read", "update"} => arg[r] \in Tokens
    /\ pc[r] \in {"lock", "checkOwner", "insert", "commit", "family", "visit",
                  "del", "lockSession"} => sid[r] \in Sessions
    /\ pc[r] \in {"idle", "lock", "read", "update", "del", "lockSession", "select", "done"}
           => held[r] = {}
    /\ pc[r] = "lock" => op[r] = "refresh" /\ SessionOf[arg[r]] = sid[r]
    /\ pc[r] \in {"checkOwner", "insert", "commit"} =>
           \/ /\ op[r] = "refresh" /\ held[r] = {arg[r]}
              /\ tok[arg[r]] = "active" /\ SessionOf[arg[r]] = sid[r]
           \/ op[r] = "grant" /\ held[r] = {} /\ arg[r] = NoToken
    /\ pc[r] \in {"family", "visit"} => op[r] \in {"refresh", "endSession", "delete"}
    /\ pc[r] \in {"del", "lockSession"} => op[r] = "delete"
    /\ pc[r] \in {"select", "purge"} =>
           op[r] = "sweep" \/ (op[r] = "delete" /\ sid[r] \in sessions)
    /\ pc[r] = "commit" <=> child[r] # NoToken
    /\ held[r] \subseteq Rows

ControlOK == \A r \in Requests : ControlOf(r)

\* Two transactions never hold the same row.
LocksExclusive ==
    \A r, q \in Requests : r # q => held[r] \cap held[q] = {}

\* An inserted token is new, its session is there and will not be deleted
\* before the insert commits or rolls back.
ChildrenOK ==
    \A r \in Requests : child[r] # NoToken =>
        /\ tok[child[r]] = "unborn" /\ SessionOf[child[r]] = sid[r]
        /\ sid[r] \in sessions
        /\ \A q \in Requests : /\ ~Deleting(q, sid[r])
                               /\ child[q] = child[r] => q = r

\* One transaction at a time deletes a session, and its cascade will have
\* seen every token of the session.
CascadeOK ==
    /\ \A r, q \in Requests, s \in Sessions : Deleting(r, s) /\ Deleting(q, s) => r = q
    /\ \A r \in Requests : pc[r] = "purge" /\ op[r] = "delete" =>
           FamilyOf(sid[r]) \cap Rows \subseteq todo[r] \cup held[r]

\* A token that a family UPDATE set out to revoke is visited or unusable.
DoomedOK ==
    \A r \in Requests : pc[r] = "visit" => \A t \in doomed[r] :
        tok[t] # "unborn" /\ (tok[t] = "active" => t \in todo[r] \cup held[r])

\* The shape of the families; Linear is a consequence.
FamiliesOK ==
    /\ \A c, d \in Tokens : parent[c] = parent[d] /\ parent[c] # NoToken => c = d
    /\ \A c \in Tokens : parent[c] # NoToken =>
           tok[c] # "unborn" /\ tok[parent[c]] \in {"revoked", "gone"}

IInv == /\ TypeOK /\ ControlOK /\ LocksExclusive /\ ChildrenOK /\ CascadeOK
        /\ DoomedOK /\ FamiliesOK /\ NoZombie

-----------------------------------------------------------------------------
(* Each action preserves the inductive invariant. *)

\* An empty table and no requests: the invariant holds at start-up.
LEMMA InitIInv == Init => IInv
BY DEF Init, IInv, TypeOK, ControlOK, ControlOf, LocksExclusive, ChildrenOK, CascadeOK,
   DoomedOK, FamiliesOK, NoZombie, Deleting, Rows, FamilyOf, PCs, Ops, RowStates

\* The ways a request starts.
Entry(o, t, s, label) ==
    \/ /\ t \in Tokens /\ s = SessionOf[t]
       /\ \/ o = "refresh" /\ label = "lock"
          \/ o = "revoke" /\ label = "read"
    \/ /\ t = NoToken /\ s \in Sessions
       /\ \/ o = "grant" /\ label = "checkOwner"
          \/ o = "endSession" /\ label = "family"
          \/ o = "delete" /\ label = "del"
    \/ t = NoToken /\ s = NoSession /\ o = "sweep" /\ label = "select"

\* A request starts: it holds nothing yet.
LEMMA BeginStep ==
    ASSUME IInv, NEW r \in Requests, NEW o, NEW t, NEW s, NEW label,
           Entry(o, t, s, label), Begin(r, o, t, s, label)
    PROVE  IInv'
<1>1. TypeOK'
    BY SessionOfAssumption, KindsAssumption DEF IInv, TypeOK, ControlOK, ControlOf, Begin,
       Entry, Goto, chainVars, PCs
<1>2. ControlOK'
    BY SessionOfAssumption DEF IInv, TypeOK, ControlOK, ControlOf, Begin, Entry, Goto, Rows,
       chainVars
<1>3. LocksExclusive'
    BY DEF LocksExclusive, IInv, Begin
<1>4. ChildrenOK'
    BY DEF ChildrenOK, IInv, TypeOK, ControlOK, ControlOf, Begin, Entry, Goto, Deleting, chainVars
<1>5. CascadeOK'
    BY DEF CascadeOK, ChildrenOK, IInv, TypeOK, ControlOK, ControlOf, Begin, Entry, Goto, Rows,
       Deleting, chainVars
<1>6. DoomedOK'
    BY DEF DoomedOK, ChildrenOK, LocksExclusive, IInv, TypeOK, Begin, Entry, Goto, chainVars
<1>7. FamiliesOK'
    BY DEF FamiliesOK, ChildrenOK, IInv, Begin, chainVars
<1>8. NoZombie'
    BY DEF NoZombie, ChildrenOK, CascadeOK, IInv, TypeOK, Begin, Rows, chainVars
<1>. QED
    BY <1>1, <1>2, <1>3, <1>4, <1>5, <1>6, <1>7, <1>8, Zenon DEF IInv, TypeOK

\* FOR UPDATE locks a row that no other transaction holds.
LEMMA LockTokenStep ==
    ASSUME IInv, NEW r \in Requests, LockToken(r)
    PROVE  IInv'
<1>1. TypeOK'
    BY DEF IInv, TypeOK, ControlOK, ControlOf, LockToken, EndTx, Goto, Free, Rows, FamilyOf,
       Deleting, chainVars, reqVars, histVars, PCs, Ops, RowStates
<1>2. ControlOK'
    BY DEF IInv, TypeOK, ControlOK, ControlOf, LockToken, EndTx, Goto, Rows, chainVars, reqVars
<1>3. LocksExclusive'
    BY DEF LocksExclusive, IInv, TypeOK, LockToken, EndTx, Free
<1>4. ChildrenOK'
    BY DEF ChildrenOK, IInv, TypeOK, ControlOK, ControlOf, LockToken, EndTx, Goto, Deleting,
       chainVars, reqVars
<1>5. CascadeOK'
    BY DEF CascadeOK, ChildrenOK, IInv, TypeOK, ControlOK, ControlOf, LockToken, EndTx, Goto,
       Free, Rows, Deleting, chainVars, reqVars
<1>6. DoomedOK'
    BY DEF DoomedOK, ChildrenOK, LocksExclusive, IInv, TypeOK, ControlOK, ControlOf, LockToken,
       EndTx, Goto, chainVars, histVars
<1>7. FamiliesOK'
    BY DEF FamiliesOK, ChildrenOK, IInv, LockToken, chainVars
<1>8. NoZombie'
    BY DEF NoZombie, ChildrenOK, CascadeOK, IInv, TypeOK, ControlOK, LockToken, Rows, chainVars
<1>. QED
    BY <1>1, <1>2, <1>3, <1>4, <1>5, <1>6, <1>7, <1>8, Zenon DEF IInv

\* The checks on user and session change no row.
LEMMA CheckOwnerStep ==
    ASSUME IInv, NEW r \in Requests, CheckOwner(r)
    PROVE  IInv'
<1>1. TypeOK'
    BY DEF IInv, TypeOK, ControlOK, ControlOf, CheckOwner, EndTx, Goto, Rows, FamilyOf,
       Deleting, chainVars, reqVars, histVars, PCs, Ops, RowStates
<1>2. ControlOK'
    BY DEF IInv, TypeOK, ControlOK, ControlOf, CheckOwner, EndTx, Goto, Rows, chainVars, reqVars
<1>3. LocksExclusive'
    BY DEF LocksExclusive, IInv, TypeOK, ControlOK, ControlOf, CheckOwner, EndTx, Goto, Rows,
       FamilyOf, Deleting, chainVars, reqVars, histVars, PCs, Ops, RowStates
<1>4. ChildrenOK'
    BY DEF ChildrenOK, IInv, TypeOK, ControlOK, ControlOf, CheckOwner, EndTx, Goto, Deleting,
       chainVars, reqVars
<1>5. CascadeOK'
    BY DEF CascadeOK, ChildrenOK, IInv, TypeOK, ControlOK, ControlOf, CheckOwner, EndTx, Goto,
       Rows, Deleting, chainVars, reqVars
<1>6. DoomedOK'
    BY DEF DoomedOK, ChildrenOK, LocksExclusive, IInv, TypeOK, ControlOK, ControlOf,
       CheckOwner, EndTx, Goto, chainVars, histVars
<1>7. FamiliesOK'
    BY DEF FamiliesOK, ChildrenOK, IInv, CheckOwner, chainVars
<1>8. NoZombie'
    BY DEF NoZombie, ChildrenOK, CascadeOK, IInv, TypeOK, CheckOwner, Rows, chainVars
<1>. QED
    BY <1>1, <1>2, <1>3, <1>4, <1>5, <1>6, <1>7, <1>8, Zenon DEF IInv, TypeOK

\* The foreign key check excludes a deleter of the session.
LEMMA InsertStep ==
    ASSUME IInv, NEW r \in Requests, Insert(r)
    PROVE  IInv'
<1>0. /\ UNCHANGED <<tok, op, sid>>
      /\ \A q \in Requests :
            \/ pc'[q] = pc[q] /\ held'[q] = held[q] /\ todo'[q] = todo[q]
            \/ pc'[q] \in {"commit", "done"}
    BY Zenon DEF IInv, TypeOK, Insert, EndTx, Goto, chainVars, reqVars
<1>1. TypeOK'
    <2>1. UNCHANGED <<chainVars, sessions, expired, reqVars, histVars>>
        BY Zenon DEF Insert
    <2>2. /\ pc' \in [Requests -> PCs] /\ child' \in [Requests -> Tokens \cup {NoToken}]
          /\ held' \in [Requests -> SUBSET Tokens] /\ todo' \in [Requests -> SUBSET Tokens]
        BY DEF IInv, TypeOK, Insert, EndTx, Goto, FamilyOf, PCs
    <2>3. UNCHANGED <<tok, parent, sessions, expired, op, arg, sid, doomed, replayed>>
        BY <2>1, Zenon DEF chainVars, reqVars, histVars
    <2>. QED
        BY <2>2, <2>3, Zenon DEF IInv, TypeOK
<1>2. ControlOK'
    BY DEF IInv, TypeOK, ControlOK, ControlOf, Insert, EndTx, Goto, Rows, chainVars, reqVars
<1>3. LocksExclusive'
    BY DEF LocksExclusive, IInv, TypeOK, Insert, EndTx
<1>4. ChildrenOK'
    BY DEF ChildrenOK, IInv, TypeOK, ControlOK, ControlOf, Insert, EndTx, Goto, FamilyOf,
       Deleting, chainVars, reqVars
<1>5. CascadeOK'
    BY <1>0, Zenon DEF CascadeOK, IInv, Rows, FamilyOf, Deleting
<1>6. DoomedOK'
    BY DEF DoomedOK, ChildrenOK, LocksExclusive, IInv, TypeOK, ControlOK, ControlOf, Insert,
       EndTx, Goto, chainVars, histVars
<1>7. FamiliesOK'
    BY DEF FamiliesOK, ChildrenOK, IInv, Insert, chainVars
<1>8. NoZombie'
    BY DEF NoZombie, ChildrenOK, CascadeOK, IInv, TypeOK, Insert, Rows, chainVars
<1>. QED
    BY <1>1, <1>2, <1>3, <1>4, <1>5, <1>6, <1>7, <1>8, Zenon DEF IInv, TypeOK

\* A rotation revokes the row it has held since it saw it active.
LEMMA CommitStep ==
    ASSUME IInv, NEW r \in Requests, Commit(r)
    PROVE  IInv'
<1>1. TypeOK'
    BY DEF IInv, TypeOK, ControlOK, ControlOf, Commit, EndTx, Goto, reqVars, histVars, PCs,
       RowStates
<1>2. ControlOK'
    BY DEF LocksExclusive, ChildrenOK, IInv, TypeOK, ControlOK, ControlOf, Commit, EndTx, Goto,
       Rows, reqVars
<1>3. LocksExclusive'
    BY DEF LocksExclusive, IInv, Commit, EndTx
<1>4. ChildrenOK'
    BY DEF ChildrenOK, IInv, TypeOK, ControlOK, ControlOf, Commit, EndTx, Goto, Deleting, reqVars
<1>5. CascadeOK'
    BY DEF CascadeOK, ChildrenOK, IInv, TypeOK, ControlOK, ControlOf, Commit, EndTx, Goto,
       Rows, FamilyOf, Deleting, reqVars
<1>6. DoomedOK'
    BY NoTokenAssumption DEF DoomedOK, ChildrenOK, LocksExclusive, IInv, TypeOK, Commit, EndTx,
       Goto, histVars
<1>7. FamiliesOK'
    BY DEF FamiliesOK, ChildrenOK, IInv, TypeOK, ControlOK, ControlOf, Commit, EndTx, Goto,
       Rows, FamilyOf, Deleting, chainVars, reqVars, histVars, PCs, Ops, RowStates
<1>8. NoZombie'
    BY DEF NoZombie, ChildrenOK, CascadeOK, IInv, ControlOK, ControlOf, Commit, Rows
<1>. QED
    BY <1>1, <1>2, <1>3, <1>4, <1>5, <1>6, <1>7, <1>8, Zenon DEF IInv, TypeOK

\* A plain read changes nothing.
LEMMA ReadTokenStep ==
    ASSUME IInv, NEW r \in Requests, ReadToken(r)
    PROVE  IInv'
<1>1. TypeOK'
    BY DEF IInv, TypeOK, ControlOK, ControlOf, ReadToken, Goto, chainVars, reqVars, histVars, PCs
<1>2. ControlOK'
    BY DEF IInv, TypeOK, ControlOK, ControlOf, ReadToken, Goto, Rows, chainVars, reqVars
<1>3. LocksExclusive'
    BY DEF LocksExclusive, IInv, ControlOf, ReadToken
<1>4. ChildrenOK'
    BY DEF ChildrenOK, IInv, TypeOK, ControlOK, ReadToken, Goto, Deleting, chainVars, reqVars
<1>5. CascadeOK'
    BY DEF CascadeOK, ChildrenOK, IInv, TypeOK, ControlOK, ControlOf, ReadToken, Goto, Rows,
       FamilyOf, Deleting, chainVars, reqVars, histVars
<1>6. DoomedOK'
    BY DEF DoomedOK, ChildrenOK, LocksExclusive, IInv, TypeOK, ControlOK, ControlOf, ReadToken,
       Goto, chainVars, histVars
<1>7. FamiliesOK'
    BY DEF FamiliesOK, ChildrenOK, IInv, ReadToken, chainVars
<1>8. NoZombie'
    BY DEF NoZombie, ChildrenOK, CascadeOK, IInv, ReadToken, Rows, chainVars
<1>. QED
    BY <1>1, <1>2, <1>3, <1>4, <1>5, <1>6, <1>7, <1>8, Zenon DEF IInv

\* The revocation endpoint waits for the row's lock.
LEMMA UpdateRevokedStep ==
    ASSUME IInv, NEW r \in Requests, UpdateRevoked(r)
    PROVE  IInv'
<1>1. TypeOK'
    BY DEF IInv, TypeOK, ControlOK, ControlOf, UpdateRevoked, Goto, reqVars, histVars, PCs,
       RowStates
<1>2. ControlOK'
    BY DEF IInv, TypeOK, ControlOK, ControlOf, UpdateRevoked, Goto, Free, Rows, reqVars
<1>3. LocksExclusive'
    BY DEF LocksExclusive, IInv, UpdateRevoked
<1>4. ChildrenOK'
    BY DEF ChildrenOK, IInv, TypeOK, ControlOK, ControlOf, UpdateRevoked, Goto, Rows, Deleting,
       reqVars
<1>5. CascadeOK'
    BY DEF CascadeOK, ChildrenOK, IInv, TypeOK, ControlOK, ControlOf, UpdateRevoked, Goto,
       Rows, Deleting, reqVars
<1>6. DoomedOK'
    BY DEF DoomedOK, ChildrenOK, LocksExclusive, IInv, UpdateRevoked, Goto, histVars
<1>7. FamiliesOK'
    BY DEF FamiliesOK, IInv, UpdateRevoked
<1>8. NoZombie'
    BY DEF NoZombie, ChildrenOK, CascadeOK, IInv, UpdateRevoked, Rows
<1>. QED
    BY <1>1, <1>2, <1>3, <1>4, <1>5, <1>6, <1>7, <1>8, Zenon DEF IInv, TypeOK

\* A family UPDATE starts: its snapshot is the active tokens.
LEMMA RevokeFamilyStep ==
    ASSUME IInv, NEW r \in Requests, RevokeFamily(r)
    PROVE  IInv'
<1>1. TypeOK'
    BY DEF IInv, TypeOK, ControlOK, ControlOf, RevokeFamily, Goto, FamilyOf, chainVars,
       reqVars, PCs
<1>2. ControlOK'
    BY DEF IInv, TypeOK, ControlOK, ControlOf, RevokeFamily, Goto, Rows, chainVars, reqVars
<1>3. LocksExclusive'
    BY DEF LocksExclusive, IInv, ControlOf, RevokeFamily
<1>4. ChildrenOK'
    BY DEF ChildrenOK, IInv, TypeOK, ControlOK, RevokeFamily, Goto, Deleting, chainVars, reqVars
<1>5. CascadeOK'
    BY DEF CascadeOK, ChildrenOK, IInv, TypeOK, ControlOK, RevokeFamily, Goto, Rows, Deleting,
       chainVars, reqVars
<1>6. DoomedOK'
    BY DEF DoomedOK, ChildrenOK, LocksExclusive, IInv, TypeOK, ControlOK, RevokeFamily, Goto,
       chainVars
<1>7. FamiliesOK'
    BY DEF FamiliesOK, ChildrenOK, IInv, RevokeFamily, chainVars
<1>8. NoZombie'
    BY DEF NoZombie, ChildrenOK, CascadeOK, IInv, RevokeFamily, Rows, chainVars
<1>. QED
    BY <1>1, <1>2, <1>3, <1>4, <1>5, <1>6, <1>7, <1>8, Zenon DEF IInv

\* A row that is active when its lock is granted is locked.
LEMMA VisitRowStep ==
    ASSUME IInv, NEW r \in Requests, VisitRow(r)
    PROVE  IInv'
<1>1. TypeOK'
    BY DEF IInv, TypeOK, ControlOK, VisitRow, chainVars, reqVars, histVars
<1>2. ControlOK'
    BY DEF IInv, TypeOK, ControlOK, ControlOf, VisitRow, Rows, chainVars, reqVars
<1>3. LocksExclusive'
    BY DEF LocksExclusive, IInv, VisitRow, Free
<1>4. ChildrenOK'
    BY DEF ChildrenOK, IInv, TypeOK, ControlOK, VisitRow, Deleting, chainVars, reqVars
<1>5. CascadeOK'
    BY DEF CascadeOK, ChildrenOK, IInv, TypeOK, ControlOK, ControlOf, VisitRow, Rows, Deleting,
       chainVars, reqVars
<1>6. DoomedOK'
    BY DEF DoomedOK, ChildrenOK, LocksExclusive, IInv, TypeOK, ControlOK, ControlOf, VisitRow,
       chainVars, histVars
<1>7. FamiliesOK'
    BY DEF FamiliesOK, ChildrenOK, IInv, VisitRow, chainVars
<1>8. NoZombie'
    BY DEF NoZombie, ChildrenOK, CascadeOK, IInv, TypeOK, ControlOK, VisitRow, Rows, chainVars
<1>. QED
    BY <1>1, <1>2, <1>3, <1>4, <1>5, <1>6, <1>7, <1>8, Zenon DEF IInv

\* The family UPDATE commits.
LEMMA CommitFamilyStep ==
    ASSUME IInv, NEW r \in Requests, CommitFamily(r)
    PROVE  IInv'
<1>1. TypeOK'
    BY DEF IInv, TypeOK, ControlOK, ControlOf, CommitFamily, EndTx, Goto, histVars, PCs, Ops,
       RowStates
<1>2. ControlOK'
    BY DEF LocksExclusive, IInv, TypeOK, ControlOK, ControlOf, CommitFamily, EndTx, Goto, Rows
<1>3. LocksExclusive'
    BY DEF LocksExclusive, IInv, CommitFamily, EndTx
<1>4. ChildrenOK'
    BY DEF ChildrenOK, IInv, TypeOK, ControlOK, ControlOf, CommitFamily, EndTx, Goto, Rows,
       Deleting, PCs
<1>5. CascadeOK'
    BY DEF CascadeOK, ChildrenOK, IInv, TypeOK, ControlOK, ControlOf, CommitFamily, EndTx,
       Goto, Rows, Deleting
<1>6. DoomedOK'
    BY DEF DoomedOK, ChildrenOK, LocksExclusive, IInv, TypeOK, CommitFamily, EndTx, Goto
<1>7. FamiliesOK'
    BY DEF FamiliesOK, ChildrenOK, IInv, TypeOK, CommitFamily
<1>8. NoZombie'
    BY DEF NoZombie, ChildrenOK, CascadeOK, IInv, TypeOK, ControlOK, ControlOf, CommitFamily, Rows
<1>. QED
    BY <1>1, <1>2, <1>3, <1>4, <1>5, <1>6, <1>7, <1>8, Zenon DEF IInv, TypeOK

\* A cache invalidation changes no row.
LEMMA DelKeyStep ==
    ASSUME IInv, NEW r \in Requests, DelKey(r)
    PROVE  IInv'
<1>1. TypeOK'
    BY DEF IInv, TypeOK, ControlOK, ControlOf, DelKey, Goto, chainVars, reqVars, histVars, PCs
<1>2. ControlOK'
    BY DEF IInv, TypeOK, ControlOK, ControlOf, DelKey, Goto, Rows, chainVars, reqVars
<1>3. LocksExclusive'
    BY DEF LocksExclusive, IInv, ControlOf, DelKey
<1>4. ChildrenOK'
    BY DEF ChildrenOK, IInv, TypeOK, ControlOK, ControlOf, DelKey, Goto, Deleting, chainVars,
       reqVars
<1>5. CascadeOK'
    BY DEF CascadeOK, ChildrenOK, IInv, TypeOK, ControlOK, ControlOf, DelKey, Goto, Rows,
       Deleting, chainVars, reqVars
<1>6. DoomedOK'
    BY DEF DoomedOK, ChildrenOK, LocksExclusive, IInv, TypeOK, ControlOK, ControlOf, DelKey,
       Goto, chainVars, histVars
<1>7. FamiliesOK'
    BY DEF FamiliesOK, ChildrenOK, IInv, DelKey, chainVars
<1>8. NoZombie'
    BY DEF NoZombie, ChildrenOK, CascadeOK, IInv, TypeOK, ControlOK, DelKey, Rows, chainVars
<1>. QED
    BY <1>1, <1>2, <1>3, <1>4, <1>5, <1>6, <1>7, <1>8, Zenon DEF IInv

\* The session row is locked once no insert refers to it.
LEMMA LockSessionStep ==
    ASSUME IInv, NEW r \in Requests, LockSession(r)
    PROVE  IInv'
<1>1. TypeOK'
    BY DEF IInv, TypeOK, ControlOK, ControlOf, LockSession, Goto, chainVars, reqVars, histVars,
       PCs
<1>2. ControlOK'
    BY DEF IInv, TypeOK, ControlOK, ControlOf, LockSession, Goto, Rows, chainVars, reqVars
<1>3. LocksExclusive'
    BY DEF LocksExclusive, IInv, ControlOf, LockSession
<1>4. ChildrenOK'
    BY DEF ChildrenOK, IInv, TypeOK, ControlOK, ControlOf, LockSession, Goto, Deleting,
       chainVars, reqVars
<1>5. CascadeOK'
    BY DEF CascadeOK, ChildrenOK, IInv, TypeOK, ControlOK, ControlOf, LockSession, Goto, Rows,
       Deleting, chainVars, reqVars
<1>6. DoomedOK'
    BY DEF DoomedOK, ChildrenOK, LocksExclusive, IInv, TypeOK, ControlOK, ControlOf,
       LockSession, Goto, chainVars, histVars
<1>7. FamiliesOK'
    BY DEF FamiliesOK, ChildrenOK, IInv, LockSession, chainVars
<1>8. NoZombie'
    BY DEF NoZombie, ChildrenOK, CascadeOK, IInv, TypeOK, ControlOK, LockSession, Rows, chainVars
<1>. QED
    BY <1>1, <1>2, <1>3, <1>4, <1>5, <1>6, <1>7, <1>8, Zenon DEF IInv

\* The cascade, or the sweep, selects the rows to delete.
LEMMA SelectRowsStep ==
    ASSUME IInv, NEW r \in Requests, SelectRows(r)
    PROVE  IInv'
<1>1. TypeOK'
    BY DEF IInv, TypeOK, ControlOK, ControlOf, SelectRows, Goto, Rows, chainVars, reqVars,
       histVars, PCs
<1>2. ControlOK'
    BY DEF IInv, TypeOK, ControlOK, ControlOf, SelectRows, Goto, Rows, chainVars, reqVars
<1>3. LocksExclusive'
    BY DEF LocksExclusive, IInv, ControlOf, SelectRows
<1>4. ChildrenOK'
    BY DEF ChildrenOK, IInv, TypeOK, ControlOK, ControlOf, SelectRows, Goto, Deleting,
       chainVars, reqVars
<1>5. CascadeOK'
    BY DEF CascadeOK, ChildrenOK, IInv, TypeOK, ControlOK, ControlOf, SelectRows, Goto, Rows,
       Deleting, chainVars, reqVars
<1>6. DoomedOK'
    BY DEF DoomedOK, ChildrenOK, LocksExclusive, IInv, TypeOK, ControlOK, ControlOf,
       SelectRows, Goto, chainVars, histVars
<1>7. FamiliesOK'
    BY DEF FamiliesOK, ChildrenOK, IInv, SelectRows, chainVars
<1>8. NoZombie'
    BY DEF NoZombie, ChildrenOK, CascadeOK, IInv, TypeOK, ControlOK, SelectRows, Rows, chainVars
<1>. QED
    BY <1>1, <1>2, <1>3, <1>4, <1>5, <1>6, <1>7, <1>8, Zenon DEF IInv

\* A row that is there when its lock is granted is locked.
LEMMA PurgeRowStep ==
    ASSUME IInv, NEW r \in Requests, PurgeRow(r)
    PROVE  IInv'
<1>1. TypeOK'
    BY DEF IInv, TypeOK, ControlOK, ControlOf, PurgeRow, chainVars, reqVars, histVars
<1>2. ControlOK'
    BY DEF IInv, TypeOK, ControlOK, ControlOf, PurgeRow, Rows, chainVars, reqVars
<1>3. LocksExclusive'
    BY DEF LocksExclusive, IInv, PurgeRow, Free
<1>4. ChildrenOK'
    BY DEF ChildrenOK, IInv, TypeOK, ControlOK, PurgeRow, Deleting, chainVars, reqVars
<1>5. CascadeOK'
    BY DEF CascadeOK, ChildrenOK, IInv, TypeOK, ControlOK, ControlOf, PurgeRow, Rows, Deleting,
       chainVars, reqVars
<1>6. DoomedOK'
    BY DEF DoomedOK, ChildrenOK, LocksExclusive, IInv, TypeOK, ControlOK, ControlOf, PurgeRow,
       chainVars, histVars
<1>7. FamiliesOK'
    BY DEF FamiliesOK, ChildrenOK, IInv, PurgeRow, chainVars
<1>8. NoZombie'
    BY DEF NoZombie, ChildrenOK, CascadeOK, IInv, TypeOK, ControlOK, PurgeRow, Rows, chainVars
<1>. QED
    BY <1>1, <1>2, <1>3, <1>4, <1>5, <1>6, <1>7, <1>8, Zenon DEF IInv

\* The DELETE commits, with its cascade.
LEMMA CommitPurgeStep ==
    ASSUME IInv, NEW r \in Requests, CommitPurge(r)
    PROVE  IInv'
<1>1. TypeOK'
    BY DEF IInv, TypeOK, ControlOK, ControlOf, CommitPurge, EndTx, Goto, Rows, reqVars,
       histVars, PCs, RowStates
<1>2. ControlOK'
    BY DEF LocksExclusive, CascadeOK, IInv, TypeOK, ControlOK, ControlOf, CommitPurge, EndTx,
       Goto, Rows, Deleting, reqVars
<1>3. LocksExclusive'
    BY DEF LocksExclusive, IInv, CommitPurge, EndTx
<1>4. ChildrenOK'
    BY DEF ChildrenOK, IInv, TypeOK, ControlOK, ControlOf, CommitPurge, EndTx, Goto, Rows,
       Deleting, reqVars
<1>5. CascadeOK'
    BY DEF CascadeOK, ChildrenOK, IInv, TypeOK, ControlOK, ControlOf, CommitPurge, EndTx, Goto,
       Rows, Deleting, reqVars
<1>6. DoomedOK'
    BY DEF DoomedOK, ChildrenOK, LocksExclusive, IInv, TypeOK, ControlOK, ControlOf,
       CommitPurge, EndTx, Goto, histVars
<1>7. FamiliesOK'
    BY DEF FamiliesOK, ChildrenOK, IInv, TypeOK, CommitPurge
<1>8. NoZombie'
    BY DEF NoZombie, ChildrenOK, CascadeOK, IInv, TypeOK, ControlOK, ControlOf, CommitPurge,
       Rows, FamilyOf
<1>. QED
    BY <1>1, <1>2, <1>3, <1>4, <1>5, <1>6, <1>7, <1>8, Zenon DEF IInv, TypeOK

\* A transaction that ends gives its locks back.
LEMMA ForgetStep ==
    ASSUME IInv, NEW r \in Requests, Forget(r)
    PROVE  IInv'
<1>1. TypeOK'
    BY DEF IInv, TypeOK, ControlOK, ControlOf, Forget, EndTx, Goto, Rows, chainVars, histVars,
       PCs, Ops
<1>2. ControlOK'
    BY DEF IInv, TypeOK, ControlOK, ControlOf, Forget, EndTx, Goto, Rows, chainVars
<1>3. LocksExclusive'
    BY DEF LocksExclusive, IInv, Forget, EndTx
<1>4. ChildrenOK'
    BY DEF ChildrenOK, IInv, TypeOK, ControlOK, ControlOf, Forget, EndTx, Goto, Deleting,
       chainVars
<1>5. CascadeOK'
    BY DEF CascadeOK, ChildrenOK, IInv, TypeOK, ControlOK, ControlOf, Forget, EndTx, Goto,
       Rows, Deleting, chainVars
<1>6. DoomedOK'
    BY DEF DoomedOK, ChildrenOK, LocksExclusive, IInv, TypeOK, ControlOK, ControlOf, Forget,
       EndTx, Goto, chainVars
<1>7. FamiliesOK'
    BY DEF FamiliesOK, ChildrenOK, IInv, TypeOK, Forget, chainVars
<1>8. NoZombie'
    BY DEF NoZombie, ChildrenOK, CascadeOK, IInv, TypeOK, ControlOK, ControlOf, Forget, Rows,
       chainVars
<1>. QED
    BY <1>1, <1>2, <1>3, <1>4, <1>5, <1>6, <1>7, <1>8, Zenon DEF IInv, TypeOK

\* Time passes.
LEMMA ExpireStep ==
    ASSUME IInv, NEW x \in Tokens, Expire(x)
    PROVE  IInv'
<1>1. TypeOK'
    BY DEF IInv, TypeOK, ControlOK, ControlOf, Expire, chainVars, reqVars, histVars
<1>2. ControlOK'
    BY DEF IInv, TypeOK, ControlOK, ControlOf, Expire, Rows, chainVars, reqVars
<1>3. LocksExclusive'
    BY DEF LocksExclusive, IInv, Expire
<1>4. ChildrenOK'
    BY DEF ChildrenOK, IInv, TypeOK, Expire, Deleting, chainVars, reqVars
<1>5. CascadeOK'
    BY DEF CascadeOK, ChildrenOK, IInv, TypeOK, Expire, Rows, Deleting, chainVars, reqVars
<1>6. DoomedOK'
    BY DEF DoomedOK, ChildrenOK, LocksExclusive, IInv, TypeOK, ControlOK, ControlOf, Expire,
       chainVars, histVars
<1>7. FamiliesOK'
    BY NoTokenAssumption, NoSessionAssumption, SessionOfAssumption, KindsAssumption DEF
       FamiliesOK, ChildrenOK, IInv, Expire, chainVars
<1>8. NoZombie'
    BY DEF NoZombie, ChildrenOK, CascadeOK, IInv, Expire, Rows, chainVars
<1>. QED
    BY <1>1, <1>2, <1>3, <1>4, <1>5, <1>6, <1>7, <1>8, Zenon DEF IInv

-----------------------------------------------------------------------------
(* The theorems. *)

\* Every step of the system preserves the inductive invariant.
LEMMA NextIInv == IInv /\ [Next]_vars => IInv'
<1>. SUFFICES ASSUME IInv, [Next]_vars PROVE IInv'
    OBVIOUS
<1>1. ASSUME NEW r \in Requests, Arrive(r) PROVE IInv'
    <2>1. ASSUME NEW t \in Tokens, BeginRefresh(r, t) \/ BeginRevoke(r, t) PROVE IInv'
        <3>1. /\ Entry("refresh", t, SessionOf[t], "lock")
              /\ Entry("revoke", t, SessionOf[t], "read")
            BY DEF Entry
        <3>. QED
            BY <2>1, <3>1, BeginStep DEF BeginRefresh, BeginRevoke
    <2>2. ASSUME NEW s \in Sessions,
                 BeginGrant(r, s) \/ BeginEndSession(r, s) \/ BeginDelete(r, s)
          PROVE  IInv'
        <3>1. /\ Entry("grant", NoToken, s, "checkOwner")
              /\ Entry("endSession", NoToken, s, "family")
              /\ Entry("delete", NoToken, s, "del")
            BY DEF Entry
        <3>. QED
            BY <2>2, <3>1, BeginStep DEF BeginGrant, BeginEndSession, BeginDelete
    <2>3. CASE BeginSweep(r)
        <3>1. Entry("sweep", NoToken, NoSession, "select")
            BY DEF Entry
        <3>. QED
            BY <2>3, <3>1, BeginStep DEF BeginSweep
    <2>. QED
        BY <1>1, <2>1, <2>2, <2>3 DEF Arrive
<1>2. ASSUME NEW r \in Requests, Waiting(r) PROVE IInv'
    BY <1>2, LockTokenStep, InsertStep, UpdateRevokedStep, VisitRowStep, LockSessionStep,
       PurgeRowStep DEF Waiting
<1>3. ASSUME NEW r \in Requests, Running(r) PROVE IInv'
    BY <1>3, CheckOwnerStep, CommitStep, ReadTokenStep, RevokeFamilyStep, CommitFamilyStep,
       DelKeyStep, SelectRowsStep, CommitPurgeStep, ForgetStep DEF Running, Answer
<1>4. ASSUME NEW r \in Requests, Abort(r) PROVE IInv'
    BY <1>4, ForgetStep DEF Abort
<1>5. ASSUME NEW t \in Tokens, Expire(t) PROVE IInv'
    BY <1>5, ExpireStep
<1>6. CASE UNCHANGED vars
    <2>1. /\ tok' = tok /\ parent' = parent /\ sessions' = sessions /\ expired' = expired
          /\ pc' = pc /\ op' = op /\ arg' = arg /\ sid' = sid /\ child' = child
          /\ held' = held /\ todo' = todo /\ doomed' = doomed /\ replayed' = replayed
        BY <1>6 DEF vars, chainVars, reqVars, histVars
    <2>2. /\ TypeOK /\ ControlOK /\ LocksExclusive /\ ChildrenOK /\ CascadeOK
          /\ DoomedOK /\ FamiliesOK /\ NoZombie
        BY DEF IInv
    <2>3. TypeOK'
        BY <2>1, <2>2 DEF TypeOK
    <2>4. ControlOK'
        BY <2>1, <2>2 DEF ControlOK, ControlOf, Rows
    <2>5. LocksExclusive'
        BY <2>1, <2>2 DEF LocksExclusive
    <2>6. ChildrenOK'
        BY <2>1, <2>2 DEF ChildrenOK, Deleting
    <2>7. CascadeOK'
        BY <2>1, <2>2 DEF CascadeOK, Deleting, Rows
    <2>8. DoomedOK'
        BY <2>1, <2>2 DEF DoomedOK
    <2>9. FamiliesOK' /\ NoZombie'
        BY <2>1, <2>2 DEF FamiliesOK, NoZombie, Rows
    <2>. QED
        BY <2>3, <2>4, <2>5, <2>6, <2>7, <2>8, <2>9 DEF IInv
<1>. QED
    BY <1>1, <1>2, <1>3, <1>4, <1>5, <1>6 DEF Next

\* The inductive invariant holds throughout every behaviour.
LEMMA IInvHolds == Spec => []IInv
BY InitIInv, NextIInv, PTL DEF Spec

\* Type correctness of the token table and its transactions.
THEOREM TypeCorrect == Spec => []TypeOK
<1>1. IInv => TypeOK
    BY DEF IInv
<1>. QED
    BY <1>1, IInvHolds, PTL

\* No row of refresh_tokens outlives its session, for any interleaving of
\* rotations, grants, logouts, sweeps and rollbacks.
THEOREM NoZombies == Spec => []NoZombie
<1>1. IInv => NoZombie
    BY DEF IInv
<1>. QED
    BY <1>1, IInvHolds, PTL

\* Rotation never forks a token family, however many refreshes run at once.
THEOREM FamiliesLinear == Spec => []LinearFamily
<1>1. IInv => LinearFamily
    BY DEF IInv, FamiliesOK, LinearFamily, Family!Linear
<1>. QED
    BY <1>1, IInvHolds, PTL

\* A family UPDATE that commits leaves none of the tokens it set out to
\* revoke usable, also when it had to wait for a rotation of one of them.
THEOREM DoomedAreRevoked == Spec => DoomedRevoked
<1>1. ASSUME IInv, [Next]_vars
      PROVE  [\A r \in Requests :
                 pc[r] = "visit" /\ pc'[r] \notin {"visit", "idle"}
                     => \A t \in doomed[r] : tok'[t] # "active"]_vars
    <2>. SUFFICES ASSUME NEW r \in Requests, pc[r] = "visit",
                         pc'[r] \notin {"visit", "idle"}, NEW t \in doomed[r]
                  PROVE  tok'[t] # "active"
        OBVIOUS
    <2>. USE <1>1 DEF IInv, TypeOK, Goto
    <2>1. ASSUME NEW q \in Requests, Arrive(q) PROVE FALSE
        BY <2>1 DEF Arrive, Begin, BeginRefresh, BeginRevoke, BeginGrant, BeginEndSession,
           BeginDelete, BeginSweep
    <2>2. ASSUME NEW q \in Requests, Waiting(q) PROVE FALSE
        BY <2>2 DEF Waiting, LockToken, Insert, UpdateRevoked, VisitRow, LockSession, PurgeRow,
           EndTx
    <2>3. ASSUME NEW q \in Requests, Running(q) PROVE CommitFamily(r)
        BY <2>3, ZenonT(60) DEF Running, CheckOwner, Commit, ReadToken, RevokeFamily,
           CommitFamily, DelKey, SelectRows, CommitPurge, Answer, Forget, EndTx
    <2>4. ASSUME NEW q \in Requests, Abort(q) PROVE FALSE
        BY <2>4 DEF Abort, Forget, EndTx
    <2>5. CommitFamily(r)
        BY <2>1, <2>2, <2>3, <2>4 DEF Next, Expire, vars
    <2>. QED
        BY <2>5 DEF CommitFamily, DoomedOK
<1>. QED
    BY <1>1, IInvHolds, PTL DEF Spec, DoomedRevoked

\* Only the four writing steps change a row or a parent link.
LEMMA OtherStepsKeep ==
    ASSUME [Next]_vars,
           ~\E r \in Requests : \/ Commit(r) \/ UpdateRevoked(r)
                                \/ CommitFamily(r) \/ CommitPurge(r)
    PROVE  UNCHANGED Family!vars
<1>1. ASSUME NEW r \in Requests, Arrive(r) PROVE UNCHANGED Family!vars
    <2>1. ASSUME NEW o, NEW t, NEW s, NEW l, Begin(r, o, t, s, l)
          PROVE  UNCHANGED Family!vars
        BY <2>1 DEF Begin, chainVars, Family!vars
    <2>. QED
        BY <1>1, <2>1 DEF Arrive, BeginRefresh, BeginRevoke, BeginGrant, BeginEndSession,
           BeginDelete, BeginSweep
<1>2. ASSUME NEW r \in Requests, Waiting(r) PROVE UNCHANGED Family!vars
    <2>1. CASE LockToken(r)
        BY <2>1 DEF LockToken, chainVars, Family!vars
    <2>2. CASE Insert(r)
        BY <2>2 DEF Insert, chainVars, Family!vars
    <2>3. CASE VisitRow(r)
        BY <2>3 DEF VisitRow, chainVars, Family!vars
    <2>4. CASE LockSession(r)
        BY <2>4 DEF LockSession, chainVars, Family!vars
    <2>5. CASE PurgeRow(r)
        BY <2>5 DEF PurgeRow, chainVars, Family!vars
    <2>. QED
        BY <1>2, <2>1, <2>2, <2>3, <2>4, <2>5 DEF Waiting
<1>3. ASSUME NEW r \in Requests, Running(r) PROVE UNCHANGED Family!vars
    BY <1>3 DEF Running, CheckOwner, ReadToken, RevokeFamily, DelKey, SelectRows, Answer,
       Forget, chainVars, Family!vars
<1>4. ASSUME NEW r \in Requests, Abort(r) PROVE UNCHANGED Family!vars
    BY <1>4 DEF Abort, Forget, chainVars, Family!vars
<1>5. ASSUME NEW t \in Tokens, Expire(t) PROVE UNCHANGED Family!vars
    BY <1>5 DEF Expire, chainVars, Family!vars
<1>6. CASE UNCHANGED vars
    BY <1>6 DEF vars, chainVars, Family!vars
<1>. QED
    BY <1>1, <1>2, <1>3, <1>4, <1>5, <1>6 DEF Next

\* The transactions of RefreshTokens implement TokenFamily: every step is a
\* step of it or leaves the table as it is.
THEOREM Implementation == Spec => ImplementsFamily
<1>1. Init => Family!Init
    BY DEF Init, Family!Init
<1>2. ASSUME IInv, [Next]_vars PROVE [Family!Next]_(Family!vars)
    <2>. USE <1>2 DEF IInv, TypeOK
    <2>1. ASSUME NEW r \in Requests, Commit(r) PROVE Family!Next
        <3>1. child[r] \in Tokens /\ tok[child[r]] = "unborn"
            BY <2>1 DEF Commit, ControlOK, ControlOf, ChildrenOK
        <3>2. CASE op[r] = "refresh"
            <4>1. arg[r] \in Tokens /\ held[r] = {arg[r]} /\ tok[arg[r]] = "active"
                BY <2>1, <3>2 DEF Commit, ControlOK, ControlOf
            <4>2. Family!Rotate(arg[r], child[r])
                BY <2>1, <3>1, <4>1, Zenon DEF Commit, Family!Rotate
            <4>. QED
                BY <3>1, <4>1, <4>2 DEF Family!Next
        <3>3. CASE op[r] # "refresh"
            <4>1. held[r] = {} /\ arg[r] = NoToken
                BY <2>1, <3>3 DEF Commit, ControlOK, ControlOf
            <4>2. Family!Mint(child[r])
                BY <2>1, <3>1, <4>1, Zenon DEF Commit, Family!Mint, FamiliesOK
            <4>. QED
                BY <3>1, <4>2 DEF Family!Next
        <3>. QED
            BY <3>2, <3>3
    <2>2. ASSUME NEW r \in Requests, UpdateRevoked(r)
          PROVE  [Family!Next]_(Family!vars)
        <3>1. CASE tok[arg[r]] = "active"
            <4>1. tok' = [tok EXCEPT ![arg[r]] = "revoked"] /\ UNCHANGED parent
                BY <2>2, <3>1 DEF UpdateRevoked, Rows, ControlOK, ControlOf
            <4>2. Family!RevokeSet({arg[r]})
                BY <3>1, <4>1 DEF Family!RevokeSet
            <4>. QED
                BY <2>2, <4>2 DEF Family!Next, UpdateRevoked, ControlOK, ControlOf
        <3>2. CASE tok[arg[r]] # "active"
            BY <2>2, <3>2 DEF UpdateRevoked, Rows, Family!vars
        <3>. QED
            BY <3>1, <3>2
    <2>3. ASSUME NEW r \in Requests, CommitFamily(r) PROVE Family!Next
        <3>. DEFINE S == {t \in held[r] : tok[t] = "active"}
        <3>1. Family!RevokeSet(S)
            BY <2>3 DEF CommitFamily, Family!RevokeSet, Rows, ControlOK, ControlOf
        <3>. QED
            BY <3>1 DEF Family!Next
    <2>4. ASSUME NEW r \in Requests, CommitPurge(r) PROVE Family!Next
        <3>1. Family!Remove(held[r])
            BY <2>4 DEF CommitPurge, Family!Remove, Rows, ControlOK, ControlOf
        <3>. QED
            BY <3>1 DEF Family!Next
    <2>5. ASSUME ~\E r \in Requests : \/ Commit(r) \/ UpdateRevoked(r)
                                      \/ CommitFamily(r) \/ CommitPurge(r)
          PROVE  UNCHANGED Family!vars
        BY <1>2, <2>5, OtherStepsKeep
    <2>. QED
        BY <2>1, <2>2, <2>3, <2>4, <2>5
<1>. QED
    BY <1>1, <1>2, IInvHolds, PTL DEF Spec, ImplementsFamily, Family!Spec
=============================================================================
