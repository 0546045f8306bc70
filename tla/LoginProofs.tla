---------------------------- MODULE LoginProofs -----------------------------
(***************************************************************************)
(* Proofs about logging in and out (MCLogin), for any number of requests,  *)
(* sessions, reset tokens, tabs, buckets and clients.  Each part has an    *)
(* inductive invariant; a step of MCNext is a step of the part that runs.  *)
(***************************************************************************)
EXTENDS MCLogin, TLAPS

-----------------------------------------------------------------------------
(* Passwords.                                                              *)

\* What a request is doing, and what it may rely on in the tables: the reset
\* token it presented is consumed before the siblings are, and the credential
\* row that rotate_password found is still there when it is written.
RequestsInOrder ==
    \A r \in Requests :
        /\ pc[r] = "idle" <=> op[r] = "none"
        /\ pc[r] = "insert" <=> op[r] = "login"
        /\ pc[r] \in {"mark", "siblings"} => op[r] = "reset"
        /\ sid[r] # None => op[r] = "change"
        /\ pc[r] = "siblings" => token[tok[r]] = "consumed"
        /\ row[r] # None => pc[r] = "write" /\ cred[row[r]] # 0
        /\ pc[r] = "write" /\ founding => row[r] # None

\* No reset presents a token that another reset has closed.
ClosedConsumed == DeadTokensRefused /\ \A t \in closed : token[t] = "consumed"

\* A user who had a credential row has one row, with the last password.
OneRow ==
    founding =>
        /\ \E c \in Rows : cred[c] # 0
        /\ \A c \in Rows : cred[c] \in {0, writes}
        /\ \A c, d \in Rows : cred[c] # 0 /\ cred[d] # 0 => c = d

\* Session s under password v is in order: v opens the account, or a rotation
\* on its way to the kill will remove s, or move it on to a newer password
\* that does.
Covered(s, v) ==
    \/ v \in Current
    \/ \E r \in Requests :
           Rotating(r) /\ (sid[r] # s \/ (ver[r] \in Current /\ ver[r] > v))

\* So is every session, and so will it be once a change made from it is done.
SessionsCovered ==
    ~cut => \A s \in Alive \ late :
        /\ Covered(s, opened[s])
        /\ \A r \in Requests :
               Rotating(r) /\ sid[r] = s /\ ver[r] > opened[s] => Covered(s, ver[r])

PasswordsInv ==
    TypeOK /\ RequestsInOrder /\ ClosedConsumed /\ OneRow /\ SessionsCovered

\* The invariant holds of the user's row as create_user leaves it.
LEMMA PasswordsInit == Init => PasswordsInv
  <1> SUFFICES ASSUME Init PROVE PasswordsInv
      BY Zenon
  <1> USE NoneAssumption, MaxWritesAssumption
  <1>1. TypeOK
    <2>1. founding \in BOOLEAN
        BY Zenon DEF Init
    <2>2. cred \in [Rows -> 0..writes] /\ writes \in 0..MaxWrites
        BY DEF Init
    <2>3. opened \in [Sessions -> 0..writes] /\ ver \in [Requests -> 0..writes]
        BY <2>2 DEF Init
    <2>4. /\ token \in [Tokens -> {"unused", "active", "expired", "consumed"}]
          /\ pc \in [Requests -> {"idle", "insert", "find", "write", "mark", "siblings", "kill"}]
          /\ op \in [Requests -> {"none", "login", "reset", "change", "set"}]
        BY Zenon DEF Init
    <2>5. /\ tok \in [Requests -> Tokens \cup {None}] /\ row \in [Requests -> Rows \cup {None}]
          /\ sid \in [Requests -> Sessions \cup {None}]
        BY Zenon DEF Init
    <2>6. /\ cut \in BOOLEAN /\ closed \subseteq Tokens /\ late \subseteq Sessions
          /\ dead \in [Requests -> BOOLEAN]
        BY Zenon DEF Init
    <2>7. \A r \in Requests : op[r] = "none"
        BY Zenon DEF Init
    <2> QED
        BY <2>1, <2>2, <2>3, <2>4, <2>5, <2>6, <2>7, Zenon DEF TypeOK
  <1>2. RequestsInOrder /\ ClosedConsumed
      BY Zenon DEF Init, RequestsInOrder, ClosedConsumed, DeadTokensRefused
  <1>3. OneRow
    <2> SUFFICES ASSUME founding PROVE OneRow
        BY Zenon DEF OneRow
    <2>1. writes = 1
        BY Zenon DEF Init
    <2>2. PICK c \in Rows : cred = [d \in Rows |-> IF d = c THEN 1 ELSE 0]
        BY <2>1 DEF Init
    <2> QED
        BY <2>1, <2>2 DEF OneRow
  <1>4. SessionsCovered
      BY Zenon DEF Init, SessionsCovered, Alive
  <1> QED
      BY <1>1, <1>2, <1>3, <1>4, Zenon DEF PasswordsInv

\* Every action keeps the types.
LEMMA PasswordsTypes == TypeOK /\ RequestsInOrder /\ Next => TypeOK'
  <1> SUFFICES ASSUME TypeOK, RequestsInOrder, Next PROVE TypeOK'
      BY Zenon
  <1> USE NoneAssumption, MaxWritesAssumption DEF TypeOK
  <1>1. ASSUME NEW t \in Tokens, RequestReset(t) \/ Expire(t) PROVE TypeOK'
      BY <1>1 DEF RequestReset, Expire, locals, past
  <1>2. ASSUME NEW r \in Requests, Authenticate(r) \/ BeginSet(r) \/ FindRow(r) PROVE TypeOK'
      BY <1>2 DEF Authenticate, BeginSet, FindRow, Goto, db, past, RequestsInOrder
  <1>3. ASSUME NEW r \in Requests, MarkConsumed(r) \/ ConsumeSiblings(r) PROVE TypeOK'
      BY <1>3 DEF MarkConsumed, ConsumeSiblings, Proceed, Goto, locals, past
  <1>4. ASSUME NEW r \in Requests, Write(r) PROVE TypeOK'
      BY <1>4 DEF Write, Target, Goto, past, RequestsInOrder
  <1>5. ASSUME NEW r \in Requests, KillRefused(r) \/ Abort(r) PROVE TypeOK'
    <2>1. cut' \in BOOLEAN
        BY <1>5, Zenon DEF KillRefused, Abort
    <2>2. End(r) /\ UNCHANGED <<db, late, closed, founding>>
        BY <1>5, Zenon DEF KillRefused, Abort
    <2> QED
        BY <2>1, <2>2 DEF End, Goto, db
  <1>8. ASSUME NEW r \in Requests, Kill(r) PROVE TypeOK'
    <2>1. opened' \in [Sessions -> 0..writes'] /\ late' \subseteq Sessions
        BY <1>8 DEF Kill, Alive
    <2> QED
        BY <1>8, <2>1 DEF Kill, End, Goto
  <1>6. ASSUME NEW r \in Requests, NEW s \in Sessions, CreateSession(r, s) \/ BeginChange(r, s)
        PROVE  TypeOK'
    <2>1. CASE CreateSession(r, s)
      <3>1. opened' \in [Sessions -> 0..writes'] /\ late' \subseteq Sessions
          BY <2>1, Zenon DEF CreateSession
      <3> QED
          BY <2>1, <3>1 DEF CreateSession, End, Goto
    <2>2. CASE BeginChange(r, s)
        BY <2>2, Zenon DEF BeginChange, Goto, db, past
    <2> QED
        BY <1>6, <2>1, <2>2, Zenon
  <1>7. ASSUME NEW r \in Requests, NEW t \in Tokens, FindToken(r, t) PROVE TypeOK'
      BY <1>7 DEF FindToken, Goto, db, past
  <1> QED
      BY <1>1, <1>2, <1>3, <1>4, <1>5, <1>6, <1>7, <1>8, Zenon DEF Next

\* A request goes through its steps in order, and what it found stays there: no
\* step removes a credential row or makes a consumed token usable again.
LEMMA PasswordsOrder ==
    TypeOK /\ RequestsInOrder /\ OneRow /\ Next => RequestsInOrder'
  <1> SUFFICES ASSUME TypeOK, RequestsInOrder, OneRow, Next PROVE RequestsInOrder'
      BY Zenon
  <1> USE NoneAssumption DEF TypeOK, RequestsInOrder
  <1>1. ASSUME NEW t \in Tokens, RequestReset(t) \/ Expire(t) PROVE RequestsInOrder'
      BY <1>1 DEF RequestReset, Expire, locals, past
  <1>2. ASSUME NEW r \in Requests, Authenticate(r) \/ BeginSet(r) PROVE RequestsInOrder'
      BY <1>2 DEF Authenticate, BeginSet, Goto, db, past
  <1>3. ASSUME NEW r \in Requests, FindRow(r) PROVE RequestsInOrder'
    <2>1. founding => Current # {}
        BY SMTT(40) DEF OneRow, Current
    <2>2. /\ pc[r] = "find" /\ pc' = [pc EXCEPT ![r] = "write"]
          /\ UNCHANGED <<cred, token, op, tok, sid, founding>>
        BY <1>3, Zenon DEF FindRow, Goto, db, past
    <2>3. CASE UNCHANGED row /\ ~founding
        BY <2>2, <2>3, Zenon
    <2>4. CASE \E c \in Rows : cred[c] # 0 /\ row' = [row EXCEPT ![r] = c]
        BY <2>2, <2>4
    <2> QED
        BY <1>3, <2>1, <2>3, <2>4, Zenon DEF FindRow
  <1>4. ASSUME NEW r \in Requests, MarkConsumed(r) \/ ConsumeSiblings(r) PROVE RequestsInOrder'
      BY <1>4 DEF MarkConsumed, ConsumeSiblings, Proceed, Goto, locals, past
  <1>5. ASSUME NEW r \in Requests, Write(r) PROVE RequestsInOrder'
    <2>4. Target(r) \subseteq Rows
        BY DEF Target
    <2>1. PICK c \in Rows : cred' = [cred EXCEPT ![c] = writes + 1]
        BY <1>5, <2>4, Zenon DEF Write
    <2>2. \A d \in Rows : cred[d] # 0 => cred'[d] # 0
        BY <2>1, MaxWritesAssumption
    <2>3. /\ pc' = [pc EXCEPT ![r] = IF op[r] = "reset" THEN "mark" ELSE "kill"]
          /\ row' = [row EXCEPT ![r] = None] /\ UNCHANGED <<token, op, tok, sid, founding>>
          /\ pc[r] = "write"
        BY <1>5, Zenon DEF Write, Goto, past
    <2> QED
        BY <2>2, <2>3
  <1>6. ASSUME NEW r \in Requests, Kill(r) \/ KillRefused(r) \/ Abort(r)
               \/ \E s \in Sessions : CreateSession(r, s)
        PROVE  RequestsInOrder'
    <2>1. End(r) /\ UNCHANGED <<token, cred, founding>>
        BY <1>6, Zenon DEF Kill, KillRefused, Abort, CreateSession, db
    <2> QED
        BY <2>1 DEF End, Goto
  <1>7. ASSUME NEW r \in Requests, NEW s \in Sessions, BeginChange(r, s)
        PROVE  RequestsInOrder'
      BY <1>7, Zenon DEF BeginChange, Goto, db, past
  <1>8. ASSUME NEW r \in Requests, NEW t \in Tokens, FindToken(r, t) PROVE RequestsInOrder'
      BY <1>8, ZenonT(60) DEF FindToken, Goto, db, past
  <1> QED
      BY <1>1, <1>2, <1>3, <1>4, <1>5, <1>6, <1>7, <1>8, Zenon DEF Next

\* A token that a reset has closed stays consumed, so FindToken refuses it.
LEMMA PasswordsClosed ==
    TypeOK /\ RequestsInOrder /\ ClosedConsumed /\ Next => ClosedConsumed'
  <1> SUFFICES ASSUME TypeOK, RequestsInOrder, ClosedConsumed, Next PROVE ClosedConsumed'
      BY Zenon
  <1> USE NoneAssumption DEF TypeOK, ClosedConsumed, DeadTokensRefused
  <1>1. ASSUME NEW t \in Tokens, RequestReset(t) \/ Expire(t) PROVE ClosedConsumed'
      BY <1>1, Zenon DEF RequestReset, Expire, locals, past
  <1>2. ASSUME NEW r \in Requests, Authenticate(r) \/ BeginSet(r) \/ FindRow(r) \/ Write(r)
               \/ \E s \in Sessions : BeginChange(r, s)
        PROVE  ClosedConsumed'
      BY <1>2, Zenon DEF Authenticate, BeginSet, FindRow, Write, BeginChange, db, past
  <1>3. ASSUME NEW r \in Requests, MarkConsumed(r) PROVE ClosedConsumed'
      BY <1>3, Zenon DEF MarkConsumed, Proceed, locals, past
  <1>4. ASSUME NEW r \in Requests, ConsumeSiblings(r) PROVE ClosedConsumed'
      BY <1>4, Zenon DEF ConsumeSiblings, Proceed, locals, RequestsInOrder
  <1>5. ASSUME NEW r \in Requests, Kill(r) \/ KillRefused(r) \/ Abort(r)
               \/ \E s \in Sessions : CreateSession(r, s)
        PROVE  ClosedConsumed'
    <2>1. End(r) /\ UNCHANGED <<token, closed>>
        BY <1>5, Zenon DEF Kill, KillRefused, Abort, CreateSession, db
    <2> QED
        BY <2>1, Zenon DEF End
  <1>6. ASSUME NEW r \in Requests, NEW t \in Tokens, FindToken(r, t) PROVE ClosedConsumed'
      BY <1>6, Zenon DEF FindToken, db, past
  <1> QED
      BY <1>1, <1>2, <1>3, <1>4, <1>5, <1>6, Zenon DEF Next

\* rotate_password replaces the row it found, so there is never a second one.
LEMMA PasswordsOneRow ==
    TypeOK /\ RequestsInOrder /\ OneRow /\ Next => OneRow'
  <1> SUFFICES ASSUME TypeOK, RequestsInOrder, OneRow, Next PROVE OneRow'
      BY Zenon
  <1>1. ASSUME NEW r \in Requests, Write(r) PROVE OneRow'
      BY <1>1, NoneAssumption
      DEF Write, Target, past, TypeOK, OneRow, RequestsInOrder
  <1>2. CASE UNCHANGED <<cred, writes, founding>>
      BY <1>2, Zenon DEF OneRow
  <1>3. (\E r \in Requests : Write(r)) \/ UNCHANGED <<cred, writes, founding>>
      BY Zenon DEF Next, RequestReset, Expire, Authenticate, MarkConsumed, ConsumeSiblings,
         BeginSet, FindRow, Kill, KillRefused, Abort, CreateSession, BeginChange, FindToken, db,
         past
  <1> QED
      BY <1>1, <1>2, <1>3, Zenon

\* A step that is neither a write nor a kill keeps every session covered, as long
\* as no rotation is cut short.
LEMMA CoverKept ==
    ASSUME TypeOK, SessionsCovered, UNCHANGED <<cred, opened, late>>, cut => cut',
           \A q \in Requests :
               \/ UNCHANGED <<sid[q], ver[q]>> /\ (Rotating(q) <=> Rotating(q)')
               \/ ~Rotating(q) /\ ~Rotating(q)'
               \/ cut'
    PROVE  SessionsCovered'
  <1> SUFFICES ASSUME ~cut' PROVE SessionsCovered'
      BY Zenon DEF SessionsCovered
  <1>1. ~cut
      BY Zenon
  <1>2. Alive' = Alive /\ Current' = Current
      BY Zenon DEF Alive, Current
  <1>3. \A q \in Requests :
          /\ Rotating(q)' <=> Rotating(q)
          /\ Rotating(q) => sid'[q] = sid[q] /\ ver'[q] = ver[q]
      BY Zenon
  <1>4. \A s, v : Covered(s, v) => Covered(s, v)'
      BY <1>2, <1>3, Zenon DEF Covered
  <1> QED
      BY <1>1, <1>2, <1>3, <1>4, Zenon DEF SessionsCovered

\* Write: sessions under the password that is replaced are covered by the
\* rotation that replaces it.
LEMMA CoverWrite ==
    ASSUME TypeOK, RequestsInOrder, SessionsCovered, NEW r \in Requests, Write(r)
    PROVE  SessionsCovered'
  <1> SUFFICES ASSUME ~cut' PROVE SessionsCovered'
      BY Zenon DEF SessionsCovered
  <1> USE NoneAssumption, MaxWritesAssumption DEF TypeOK
  <1>1. PICK c \in Rows : cred' = [cred EXCEPT ![c] = writes + 1]
    <2>1. Target(r) \subseteq Rows
        BY DEF Target
    <2> QED
        BY <2>1, Zenon DEF Write
  <1>2. ~cut /\ UNCHANGED <<opened, late, sid>>
      BY Zenon DEF Write, past
  <1>3. /\ pc[r] = "write" /\ Rotating(r)'
        /\ \A q \in Requests \ {r} : pc'[q] = pc[q] /\ ver'[q] = ver[q]
        /\ ver'[r] = IF sid[r] # None THEN writes + 1 ELSE ver'[r]
      BY DEF Write, Goto, Rotating, RequestsInOrder
  <1>4. writes + 1 \in Current' /\ Current \subseteq Current' \cup {cred[c]}
      BY <1>1 DEF Current
  <1>5. Current \subseteq 0..writes
      BY DEF Current
  <1>6. ASSUME NEW s \in Sessions, NEW v \in 0..writes, Covered(s, v) PROVE Covered(s, v)'
    <2>1. sid[r] # s \/ (ver'[r] \in Current' /\ ver'[r] > v)
        BY <1>3, <1>4
    <2>2. Rotating(r)' /\ sid'[r] = sid[r]
        BY <1>2, <1>3, Zenon
    <2> QED
        BY <2>1, <2>2, Zenon DEF Covered
  <1>7. Alive' = Alive
      BY <1>2, Zenon DEF Alive
  <1>8. ASSUME NEW s \in Alive \ late PROVE Covered(s, opened[s])'
      BY <1>2, <1>6, Zenon DEF SessionsCovered, Alive
  <1>9. ASSUME NEW s \in Alive \ late, NEW q \in Requests, Rotating(q)', sid'[q] = s,
               ver'[q] > opened'[s]
        PROVE  Covered(s, ver[q])'
    <2>1. CASE q = r
        BY <1>2, <1>3, <1>4, <1>9, <2>1, Zenon DEF Covered, Alive
    <2>2. CASE q # r
      <3>1. Rotating(q) /\ sid[q] = s /\ ver'[q] = ver[q] /\ ver[q] > opened[s]
          BY <1>2, <1>3, <1>9, <2>2, Zenon DEF Rotating
      <3> QED
          BY <1>2, <1>6, <3>1, Zenon DEF SessionsCovered, Alive
    <2> QED
        BY <2>1, <2>2, Zenon
  <1> QED
      BY <1>2, <1>7, <1>8, <1>9, Zenon DEF SessionsCovered

\* Kill: the session that is left goes on under the newer of its password and
\* the one just chosen, and no session relied on this rotation for it.
LEMMA CoverKill ==
    ASSUME TypeOK, RequestsInOrder, SessionsCovered, NEW r \in Requests, Kill(r)
    PROVE  SessionsCovered'
  <1> SUFFICES ASSUME ~cut' PROVE SessionsCovered'
      BY Zenon DEF SessionsCovered
  <1> USE NoneAssumption DEF TypeOK
  <1>1. ~cut /\ UNCHANGED cred /\ late' = late \cap {sid[r]} /\ pc[r] = "kill"
      BY Zenon DEF Kill
  <1>2. /\ ~Rotating(r)' /\ Rotating(r)
        /\ \A q \in Requests \ {r} : /\ Rotating(q)' <=> Rotating(q)
                                     /\ sid'[q] = sid[q] /\ ver'[q] = ver[q]
      BY Zenon DEF Kill, End, Goto, Rotating
  <1>3. Current' = Current
      BY <1>1 DEF Current
  <1> SUFFICES ASSUME NEW s \in Alive' \ late'
               PROVE  /\ Covered(s, opened[s])'
                      /\ \A q \in Requests :
                            Rotating(q)' /\ sid'[q] = s /\ ver'[q] > opened'[s]
                            => Covered(s, ver[q])'
      BY Zenon DEF SessionsCovered
  <1>4. /\ s = sid[r] /\ s \in Alive \ late
        /\ opened'[s] = IF ver[r] > opened[s] THEN ver[r] ELSE opened[s]
      BY <1>1, Zenon DEF Kill, Alive
  <1>5. /\ Covered(s, opened[s])
        /\ \A q \in Requests : 
              Rotating(q) /\ sid[q] = s /\ ver[q] > opened[s] => Covered(s, ver[q])
      BY <1>1, <1>4, Zenon DEF SessionsCovered
  <1>6. Covered(s, opened'[s])
      BY <1>2, <1>4, <1>5, Zenon
  <1>7. opened'[s] \in 0..writes /\ opened'[s] >= ver[r] /\ opened'[s] >= opened[s]
      BY <1>4 DEF Alive
  <1>8. Covered(s, opened[s])'
      BY <1>2, <1>3, <1>4, <1>6, <1>7, Zenon DEF Covered
  <1>9. ASSUME NEW q \in Requests, Rotating(q)', sid'[q] = s, ver'[q] > opened'[s]
        PROVE  Covered(s, ver[q])'
    <2>1. q # r /\ Rotating(q) /\ sid[q] = s /\ ver'[q] = ver[q] /\ ver[q] > opened[s]
        BY <1>2, <1>4, <1>7, <1>9 DEF Alive
    <2>2. Covered(s, ver[q]) /\ ver[q] > ver[r]
        BY <1>5, <1>7, <1>9, <2>1
    <2> QED
        BY <1>2, <1>3, <1>4, <2>1, <2>2 DEF Covered
  <1> QED
      BY <1>8, <1>9, Zenon

\* A login: a session that is new, under the password the login verified, is
\* covered or late.
LEMMA CoverCreate ==
    ASSUME TypeOK, RequestsInOrder, SessionsCovered,
           NEW r \in Requests, NEW s \in Sessions, CreateSession(r, s)
    PROVE  SessionsCovered'
  <1> SUFFICES ASSUME ~cut' PROVE SessionsCovered'
      BY Zenon DEF SessionsCovered
  <1> USE DEF TypeOK
  <1>1. ~cut /\ UNCHANGED cred /\ opened' = [opened EXCEPT ![s] = ver[r]]
      BY Zenon DEF CreateSession
  <1>2. \A q \in Requests : /\ sid[q] # s
                            /\ Rotating(q)' <=> Rotating(q)
                            /\ Rotating(q) => sid'[q] = sid[q] /\ ver'[q] = ver[q]
      BY Zenon DEF CreateSession, End, Goto, Rotating
  <1>3. Current' = Current
      BY <1>1, Zenon DEF Current
  <1>4. ASSUME NEW u \in Alive' \ late'
        PROVE  \/ u = s /\ opened'[u] \in Current
               \/ u # s /\ u \in Alive \ late /\ opened'[u] = opened[u]
    <2>1. late \subseteq late' /\ (ver[r] \notin Current => s \in late')
        BY Zenon DEF CreateSession
    <2>2. u \in Sessions /\ opened'[u] # 0 /\ opened'[u] = IF u = s THEN ver[r] ELSE opened[u]
        BY <1>1, Zenon DEF Alive
    <2> QED
        BY <2>1, <2>2, Zenon DEF Alive
  <1>5. ASSUME NEW u \in Alive' \ late' PROVE Covered(u, opened[u])'
    <2>1. CASE u = s
        BY <1>3, <1>4, <2>1, Zenon DEF Covered
    <2>2. CASE u # s
      <3>1. Covered(u, opened[u]) /\ opened'[u] = opened[u]
          BY <1>1, <1>4, <2>2, Zenon DEF SessionsCovered
      <3> QED
          BY <1>2, <1>3, <3>1, Zenon DEF Covered
    <2> QED
        BY <2>1, <2>2, Zenon
  <1>6. ASSUME NEW u \in Alive' \ late', NEW q \in Requests,
               Rotating(q)', sid'[q] = u, ver'[q] > opened'[u]
        PROVE  Covered(u, ver[q])'
    <2>1. u # s /\ Rotating(q) /\ sid[q] = u /\ ver'[q] = ver[q]
        BY <1>2, <1>6, Zenon
    <2>2. Covered(u, ver[q])
        BY <1>1, <1>4, <1>6, <2>1, Zenon DEF SessionsCovered
    <2> QED
        BY <1>2, <1>3, <2>1, <2>2, Zenon DEF Covered
  <1> QED
      BY <1>5, <1>6, Zenon DEF SessionsCovered

\* The sessions stay covered by every step.
LEMMA PasswordsCovered ==
    TypeOK /\ RequestsInOrder /\ SessionsCovered /\ Next => SessionsCovered'
  <1> SUFFICES ASSUME TypeOK, RequestsInOrder, SessionsCovered, Next PROVE SessionsCovered'
      BY Zenon
  <1> USE DEF TypeOK, Rotating
  <1>1. ASSUME NEW t \in Tokens, RequestReset(t) \/ Expire(t) PROVE SessionsCovered'
      BY <1>1, CoverKept, Zenon DEF RequestReset, Expire, locals, past
  <1>2. ASSUME NEW r \in Requests, Authenticate(r) \/ BeginSet(r) \/ FindRow(r)
        PROVE  SessionsCovered'
      BY <1>2, CoverKept DEF Authenticate, BeginSet, FindRow, Goto, db, past
  <1>3. ASSUME NEW r \in Requests, MarkConsumed(r) \/ ConsumeSiblings(r) PROVE SessionsCovered'
      BY <1>3, CoverKept DEF MarkConsumed, ConsumeSiblings, Proceed, Goto, locals, past
  <1>4. ASSUME NEW r \in Requests, KillRefused(r) \/ Abort(r) PROVE SessionsCovered'
    <2>1. CASE cut'
        BY <2>1, Zenon DEF SessionsCovered
    <2>2. CASE ~cut'
      <3>1. Abort(r) /\ ~cut /\ ~Rotating(r) /\ End(r) /\ UNCHANGED <<cred, opened, late>>
          BY <1>4, <2>2, Zenon DEF KillRefused, Abort, db
      <3>2. /\ ~Rotating(r)'
            /\ \A q \in Requests \ {r} : /\ UNCHANGED <<sid[q], ver[q]>>
                                         /\ (Rotating(q) <=> Rotating(q)')
          BY <3>1, Zenon DEF End, Goto
      <3> QED
          BY <2>2, <3>1, <3>2, CoverKept, Zenon
    <2> QED
        BY <2>1, <2>2, Zenon
  <1>5. ASSUME NEW r \in Requests, NEW s \in Sessions, BeginChange(r, s) PROVE SessionsCovered'
      BY <1>5, CoverKept, Zenon DEF BeginChange, Goto, db, past
  <1>6. ASSUME NEW r \in Requests, NEW t \in Tokens, FindToken(r, t) PROVE SessionsCovered'
      BY <1>6, CoverKept, Zenon DEF FindToken, Goto, db, past
  <1> QED
      BY <1>1, <1>2, <1>3, <1>4, <1>5, <1>6, CoverWrite, CoverKill, CoverCreate, Zenon DEF Next

\* The invariant is inductive.
LEMMA PasswordsNext == PasswordsInv /\ [Next]_vars => PasswordsInv'
  <1>1. ASSUME PasswordsInv, Next PROVE PasswordsInv'
      BY <1>1, PasswordsTypes, PasswordsOrder, PasswordsClosed, PasswordsOneRow,
         PasswordsCovered, Zenon DEF PasswordsInv
  <1>2. ASSUME PasswordsInv, UNCHANGED vars PROVE PasswordsInv'
    <2>0. UNCHANGED <<cred, writes, token, opened, pc, op, tok, row, ver, sid, dead, late, cut,
                      closed, founding>>
        BY <1>2, Zenon DEF vars, db, locals, past
    <2>1. TypeOK' /\ RequestsInOrder'
        BY <1>2, <2>0, Zenon DEF PasswordsInv, TypeOK, RequestsInOrder
    <2>2. ClosedConsumed' /\ OneRow'
        BY <1>2, <2>0, Zenon DEF PasswordsInv, ClosedConsumed, DeadTokensRefused, OneRow
    <2>3. SessionsCovered'
      <3>1. Current' = Current /\ Alive' = Alive /\ \A r \in Requests : Rotating(r)' <=> Rotating(r)
          BY <2>0, Zenon DEF Current, Alive, Rotating
      <3>2. \A s, v : Covered(s, v)' <=> Covered(s, v)
          BY <2>0, <3>1, Zenon DEF Covered
      <3> QED
          BY <1>2, <2>0, <3>1, <3>2, Zenon DEF PasswordsInv, SessionsCovered
    <2> QED
        BY <2>1, <2>2, <2>3, Zenon DEF PasswordsInv
  <1> QED
      BY <1>1, <1>2, Zenon

\* What the invariant says of the three properties.
LEMMA PasswordsSound ==
    PasswordsInv => TypeOK /\ RotationEndsSessions /\ DeadTokensRefused /\ LastPasswordOnly
  <1> SUFFICES ASSUME PasswordsInv
               PROVE  RotationEndsSessions /\ LastPasswordOnly
      BY Zenon DEF PasswordsInv, ClosedConsumed
  <1>1. RotationEndsSessions
      BY Zenon DEF PasswordsInv, SessionsCovered, Covered, RotationEndsSessions
  <1>2. LastPasswordOnly
    <2> SUFFICES ASSUME founding PROVE Current = {writes}
        BY Zenon DEF LastPasswordOnly
    <2>1. \A c \in Rows : cred[c] \in {0, writes}
        BY Zenon DEF PasswordsInv, OneRow
    <2>2. PICK c \in Rows : cred[c] # 0
        BY Zenon DEF PasswordsInv, OneRow
    <2> QED
        BY <2>1, <2>2, Zenon DEF Current
  <1> QED
      BY <1>1, <1>2, Zenon

-----------------------------------------------------------------------------
(* The login page.                                                         *)

\* A page on its way holds the token of the cookie that was sent, or one that
\* comes with its own cookie; until the excuse is there, the browser's cookie is
\* the one that goes with the page.
PageInv ==
    /\ Page!TypeOK
    /\ \A t \in Requests :
          /\ at[t] # "in" => ret[t] = asked[t]
          /\ at[t] = "in" => ret[t] = Page!SafeRedirect(asked[t])
          /\ at[t] \in {"page", "form"} => form[t] # None
          /\ at[t] = "page" => sent[t] \in {None, form[t]}
          /\ at[t] = "authenticate" => form[t] # None /\ form[t] = sent[t]
          /\ at[t] = "bounced" => excuse[t]
          /\ ~excuse[t] =>
                /\ at[t] \in {"get", "page", "authenticate"} => sent[t] \in {None, jar}
                /\ at[t] \in {"form", "post"} => form[t] = jar
                /\ at[t] = "post" => sent[t] = jar /\ jar # None

\* url_safe finds a token that is nowhere in use.
LEMMA FreshToken == Page!TypeOK => Page!Fresh \in CsrfTokens
  <1>1. ASSUME Page!TypeOK PROVE \E k \in CsrfTokens : k # jar /\ Page!Holding(k) = {}
      BY <1>1, CsrfAssumption DEF Page!TypeOK, Page!Holding
  <1> QED
      BY <1>1, Zenon DEF Page!Fresh

\* A browser without a cookie and with every tab closed.
LEMMA PageInit == Page!Init => PageInv
  BY Zenon DEF Page!Init, PageInv, Page!TypeOK, Page!Labels, Page!Targets

\* Every action keeps the tabs and the cookie in order.
LEMMA PageStep == PageInv /\ Page!Next => PageInv'
  <1> SUFFICES ASSUME PageInv, Page!Next PROVE PageInv'
      BY Zenon
  <1>0. None \notin CsrfTokens
      BY CsrfAssumption, Zenon
  <1> USE <1>0
      DEF PageInv, Page!TypeOK, Page!Labels, Page!Targets, Page!Goto, Page!SafeRedirect
  <1>1. ASSUME NEW t \in Requests, NEW target \in Page!Targets, Page!Open(t, target)
        PROVE  PageInv'
      BY <1>1 DEF Page!Open, Page!SendGet
  <1>2. ASSUME NEW t \in Requests, Page!FollowRedirect(t) PROVE PageInv'
      BY <1>2 DEF Page!FollowRedirect, Page!SendGet
  <1>3. ASSUME NEW t \in Requests, Page!RenderLogin(t) PROVE PageInv'
    <2>1. Page!Csrf(sent[t]) \in CsrfTokens /\ (sent[t] # None => Page!Csrf(sent[t]) = sent[t])
        BY FreshToken DEF Page!Csrf
    <2> QED
        BY <1>3, <2>1 DEF Page!RenderLogin
  <1>4. ASSUME NEW t \in Requests, Page!ShowPage(t) PROVE PageInv'
    <2>1. CASE form[t] = sent[t]
        BY <1>4, <2>1 DEF Page!ShowPage
    <2>2. CASE form[t] # sent[t]
      <3>1. sent[t] = None /\ at[t] = "page"
          BY <1>4, <2>2, Zenon DEF Page!ShowPage
      <3>2. excuse' = [u \in Requests |->
                  excuse[u] \/ (sent[t] = None /\ u # t /\ u \in Page!Holding(jar))]
          BY <1>4, <2>2, Zenon DEF Page!ShowPage
      <3>3. /\ excuse' \in [Requests -> BOOLEAN]
            /\ \A u \in Requests : /\ excuse[u] => excuse'[u]
                                   /\ u # t /\ u \in Page!Holding(jar) => excuse'[u]
          BY <3>1, <3>2, Zenon
      <3>4. /\ jar' = form[t] /\ at' = [at EXCEPT ![t] = "form"]
            /\ sent' = [sent EXCEPT ![t] = None] /\ UNCHANGED <<form, ret, asked>>
          BY <1>4, <2>2, Zenon DEF Page!ShowPage
      <3> QED
          BY <3>1, <3>3, <3>4 DEF Page!Holding
    <2> QED
        BY <2>1, <2>2, Zenon
  <1>5. ASSUME NEW t \in Requests, Page!SendPost(t) PROVE PageInv'
      BY <1>5 DEF Page!SendPost
  <1>6. ASSUME NEW t \in Requests, Page!CheckCsrf(t) PROVE PageInv'
      BY <1>6 DEF Page!CheckCsrf, Page!Matches, Page!locals
  <1>7. ASSUME NEW t \in Requests, Page!WrongPassword(t) PROVE PageInv'
      BY <1>7 DEF Page!WrongPassword
  <1>8. ASSUME NEW t \in Requests, Page!LogIn(t) PROVE PageInv'
      BY <1>8 DEF Page!LogIn
  <1>9. ASSUME NEW t \in Requests, Page!Close(t) PROVE PageInv'
      BY <1>9 DEF Page!Close
  <1>10. CASE Page!ExpireCookie
    <2>1. /\ excuse' \in [Requests -> BOOLEAN]
          /\ \A u \in Requests : excuse[u] \/ u \in Page!Holding(jar) => excuse'[u]
        BY <1>10, Zenon DEF Page!ExpireCookie
    <2>2. jar # None /\ jar' = None /\ UNCHANGED <<at, sent, form, ret, asked>>
        BY <1>10, Zenon DEF Page!ExpireCookie
    <2> QED
        BY <2>1, <2>2, Zenon DEF Page!Holding
  <1> HIDE DEF PageInv, Page!Targets
  <1> QED
      BY <1>1, <1>2, <1>3, <1>4, <1>5, <1>6, <1>7, <1>8, <1>9, <1>10, Zenon DEF Page!Next

\* The invariant is inductive.
LEMMA PageNext == PageInv /\ [Page!Next]_pageVars => PageInv'
  <1>1. ASSUME PageInv, UNCHANGED pageVars PROVE PageInv'
      BY <1>1, Zenon DEF PageInv, Page!TypeOK, pageVars
  <1> QED
      BY <1>1, PageStep, Zenon

-----------------------------------------------------------------------------
(* Logout.                                                                 *)

\* While the session has its row, every client that took part has refresh token
\* rows, so that a logout past its list has found it, unless it came later.
Listed ==
    /\ members \subseteq clients
    /\ session =>
         /\ \A c \in members : refresh[c] # "none"
         /\ \A r \in Requests : stage[r] \in {"load", "revoke", "delete"} =>
                                    members \ joined \subseteq found[r]

\* What a protected resource has checked so far was true when the request came
\* in, or has become so since.
Seen ==
    \A r \in Requests :
        /\ stage[r] \in {"user", "session"} => kind[r] = "userinfo"
        /\ stage[r] = "validate" => kind[r] = "introspect"
        /\ stage[r] = "ok" => kind[r] \in {"userinfo", "introspect"} /\ "key" \in seen[r]
        /\ kind[r] = "introspect" /\ key => "key" \in seen[r]
        /\ kind[r] = "userinfo" =>
              /\ "key" \in seen[r]
              /\ session \/ stage[r] = "ok" => "row" \in seen[r]
              /\ enabled \/ stage[r] \in {"session", "ok"} => "enabled" \in seen[r]

LogoutInv == Out!TypeOK /\ Listed /\ Out!ClientsTold /\ Seen

\* A session that no client has used yet.
LEMMA LogoutInit == Out!Init => LogoutInv
  BY ZenonT(60) DEF Out!Init, LogoutInv, Out!TypeOK, Out!Labels, Listed, Out!ClientsTold, Seen

\* Every action keeps the types.
LEMMA LogoutTypes == Out!TypeOK /\ Out!Next => Out!TypeOK'
  <1> SUFFICES ASSUME Out!TypeOK, Out!Next PROVE Out!TypeOK'
      BY Zenon
  <1> USE ReachableAssumption
      DEF Out!TypeOK, Out!Labels, Out!Goto, Out!tables, Out!locals, Out!past
  <1>1. ASSUME NEW r \in Requests, NEW k \in {"logout", "userinfo", "introspect"},
               NEW label \in {"list", "user", "validate"}, Out!Begin(r, k, label)
        PROVE  Out!TypeOK'
    <2>1. Out!Now \cap Out!Watched(k) \subseteq Out!Facts
        BY Zenon DEF Out!Now
    <2> QED
        BY <1>1, <2>1, Zenon DEF Out!Begin
  <1>2. ASSUME NEW r \in Requests, Out!ListClients(r) \/ Out!LoadClients(r) PROVE Out!TypeOK'
      BY <1>2 DEF Out!ListClients, Out!LoadClients
  <1>3. ASSUME NEW r \in Requests, Out!RevokeFamily(r) \/ Out!DeleteSession(r) PROVE Out!TypeOK'
      BY <1>3 DEF Out!RevokeFamily, Out!DeleteSession, Out!Revoked, Out!Proceed
  <1>4. ASSUME NEW r \in Requests, Out!NotifyClients(r) PROVE Out!TypeOK'
      BY <1>4, Zenon DEF Out!NotifyClients, Out!End
  <1>5. ASSUME NEW r \in Requests,
               Out!FindUser(r) \/ Out!FindSession(r) \/ Out!Validate(r) \/ Out!Answer(r)
        PROVE  Out!TypeOK'
      BY <1>5, Zenon DEF Out!FindUser, Out!FindSession, Out!Validate, Out!Answer, Out!Proceed, Out!End
  <1>6. ASSUME NEW r \in Requests, Out!Abort(r) PROVE Out!TypeOK'
    <2>1. silent' \in BOOLEAN
        BY <1>6, Zenon DEF Out!Abort
    <2>2. Out!End(r) /\ UNCHANGED <<Out!tables, tasks, members, told, joined>>
        BY <1>6, Zenon DEF Out!Abort
    <2> QED
        BY <2>1, <2>2, Zenon DEF Out!End
  <1>7. ASSUME NEW c \in Clients,
               Out!Deliver(c) \/ Out!Grant(c) \/ Out!RevokeToken(c) \/ Out!DeleteClient(c)
        PROVE  Out!TypeOK'
      BY <1>7, Zenon DEF Out!Deliver, Out!Grant, Out!RevokeToken, Out!DeleteClient
  <1>8. ASSUME NEW b \in BOOLEAN, Out!SetEnabled(b) PROVE Out!TypeOK'
      BY <1>8, Zenon DEF Out!SetEnabled, Out!Facts
  <1>9. CASE Out!EndElsewhere \/ Out!RetireKey
      BY <1>9, Zenon DEF Out!EndElsewhere, Out!RetireKey
  <1> HIDE DEF Out!TypeOK
  <1> QED
      BY <1>1, <1>2, <1>3, <1>4, <1>5, <1>6, <1>7, <1>8, <1>9, Zenon
      DEF Out!Next, Out!Step, Out!BeginLogout, Out!BeginUserinfo, Out!BeginIntrospect

\* A logout past its list has found every client that took part before it.
LEMMA LogoutListed == Out!TypeOK /\ Listed /\ Out!Next => Listed'
  <1> SUFFICES ASSUME Out!TypeOK, Listed, Out!Next PROVE Listed'
      BY Zenon
  <1> USE DEF Out!TypeOK, Listed, Out!Goto, Out!tables, Out!locals, Out!past
  <1>1. ASSUME NEW r \in Requests, NEW k, NEW label \in {"list", "user", "validate"},
               Out!Begin(r, k, label)
        PROVE  Listed'
      BY <1>1, Zenon DEF Out!Begin
  <1>2. ASSUME NEW r \in Requests, Out!ListClients(r) PROVE Listed'
      BY <1>2, Zenon DEF Out!ListClients
  <1>3. ASSUME NEW r \in Requests, Out!LoadClients(r) PROVE Listed'
      BY <1>3, Zenon DEF Out!LoadClients
  <1>4. ASSUME NEW r \in Requests, Out!RevokeFamily(r) \/ Out!DeleteSession(r) PROVE Listed'
      BY <1>4 DEF Out!RevokeFamily, Out!DeleteSession, Out!Revoked, Out!Proceed
  <1>5. ASSUME NEW r \in Requests, Out!NotifyClients(r) \/ Out!Abort(r) \/ Out!Answer(r)
        PROVE  Listed'
    <2>1. Out!End(r) /\ UNCHANGED <<Out!tables, members, joined>>
        BY <1>5, Zenon DEF Out!NotifyClients, Out!Abort, Out!Answer
    <2> QED
        BY <2>1, Zenon DEF Out!End
  <1>6. ASSUME NEW r \in Requests, Out!FindUser(r) \/ Out!FindSession(r) \/ Out!Validate(r)
        PROVE  Listed'
      BY <1>6 DEF Out!FindUser, Out!FindSession, Out!Validate, Out!Proceed, Out!End
  <1>7. ASSUME NEW c \in Clients, Out!Deliver(c) \/ Out!RevokeToken(c) \/ Out!DeleteClient(c)
        PROVE  Listed'
      BY <1>7 DEF Out!Deliver, Out!RevokeToken, Out!DeleteClient
  <1>8. ASSUME NEW c \in Clients, Out!Grant(c) PROVE Listed'
      BY <1>8, Zenon DEF Out!Grant
  <1>9. ASSUME NEW b \in BOOLEAN, Out!SetEnabled(b) PROVE Listed'
      BY <1>9, Zenon DEF Out!SetEnabled
  <1>10. CASE Out!EndElsewhere \/ Out!RetireKey
      BY <1>10 DEF Out!EndElsewhere, Out!RetireKey
  <1> HIDE DEF Listed
  <1> QED
      BY <1>1, <1>2, <1>3, <1>4, <1>5, <1>6, <1>7, <1>8, <1>9, <1>10, Zenon
      DEF Out!Next, Out!Step, Out!BeginLogout, Out!BeginUserinfo, Out!BeginIntrospect

\* Whichever logout deletes the row is the one about to notify its clients.
LEMMA LogoutTold == Out!TypeOK /\ Listed /\ Out!ClientsTold /\ Out!Next => Out!ClientsTold'
  <1> SUFFICES ASSUME Out!TypeOK, Listed, Out!ClientsTold, Out!Next PROVE Out!ClientsTold'
      BY Zenon
  <1> USE DEF Out!TypeOK, Out!ClientsTold, Out!Goto, Out!tables, Out!locals, Out!past
  <1>1. ASSUME NEW r \in Requests, NEW k, NEW label, Out!Begin(r, k, label)
        PROVE  Out!ClientsTold'
      BY <1>1, Zenon DEF Out!Begin
  <1>2. ASSUME NEW r \in Requests,
               Out!ListClients(r) \/ Out!LoadClients(r) \/ Out!RevokeFamily(r)
        PROVE  Out!ClientsTold'
      BY <1>2, Zenon DEF Out!ListClients, Out!LoadClients, Out!RevokeFamily, Out!Proceed
  <1>3. ASSUME NEW r \in Requests, Out!DeleteSession(r) PROVE Out!ClientsTold'
      BY <1>3 DEF Out!DeleteSession, Out!Proceed, Listed
  <1>4. ASSUME NEW r \in Requests, Out!NotifyClients(r) \/ Out!Answer(r) PROVE Out!ClientsTold'
      BY <1>4, Zenon DEF Out!NotifyClients, Out!Answer, Out!End
  <1>5. ASSUME NEW r \in Requests, Out!Abort(r) PROVE Out!ClientsTold'
    <2>1. silent \/ stage[r] = "notify" => silent'
        BY <1>5, Zenon DEF Out!Abort
    <2>2. Out!End(r) /\ UNCHANGED <<Out!tables, members, told, joined>>
        BY <1>5, Zenon DEF Out!Abort
    <2> QED
        BY <2>1, <2>2, Zenon DEF Out!End
  <1>6. ASSUME NEW r \in Requests, Out!FindUser(r) \/ Out!FindSession(r) \/ Out!Validate(r)
        PROVE  Out!ClientsTold'
      BY <1>6, Zenon DEF Out!FindUser, Out!FindSession, Out!Validate, Out!Proceed, Out!End
  <1>7. ASSUME NEW c \in Clients, Out!Deliver(c) \/ Out!RevokeToken(c) \/ Out!DeleteClient(c)
               \/ Out!Grant(c)
        PROVE  Out!ClientsTold'
      BY <1>7, Zenon DEF Out!Deliver, Out!RevokeToken, Out!DeleteClient, Out!Grant
  <1>8. ASSUME NEW b \in BOOLEAN, Out!SetEnabled(b) PROVE Out!ClientsTold'
      BY <1>8, Zenon DEF Out!SetEnabled
  <1>9. CASE Out!EndElsewhere \/ Out!RetireKey
      BY <1>9, Zenon DEF Out!EndElsewhere, Out!RetireKey
  <1> HIDE DEF Out!ClientsTold
  <1> QED
      BY <1>1, <1>2, <1>3, <1>4, <1>5, <1>6, <1>7, <1>8, <1>9, Zenon
      DEF Out!Next, Out!Step, Out!BeginLogout, Out!BeginUserinfo, Out!BeginIntrospect

\* A resource's answer rests on facts that it saw.
LEMMA LogoutSeen == Out!TypeOK /\ Seen /\ Out!Next => Seen'
  <1> SUFFICES ASSUME Out!TypeOK, Seen, Out!Next PROVE Seen'
      BY Zenon
  <1> USE DEF Out!TypeOK, Seen, Out!Goto, Out!tables, Out!locals, Out!past
  <1>1. ASSUME NEW r \in Requests, Out!BeginLogout(r) PROVE Seen'
      BY <1>1, Zenon DEF Out!BeginLogout, Out!Begin
  <1>2. ASSUME NEW r \in Requests, Out!BeginUserinfo(r) PROVE Seen'
    <2>1. Out!Watched("userinfo") = Out!Facts
        BY Zenon DEF Out!Watched
    <2> QED
        BY <1>2, <2>1, Zenon DEF Out!BeginUserinfo, Out!Begin, Out!ValidJwt, Out!Now, Out!Facts
  <1>3. ASSUME NEW r \in Requests, Out!BeginIntrospect(r) PROVE Seen'
    <2>1. Out!Watched("introspect") = {"key"}
        BY Zenon DEF Out!Watched
    <2> QED
        BY <1>3, <2>1, Zenon DEF Out!BeginIntrospect, Out!Begin, Out!Now, Out!Facts
  <1>4. ASSUME NEW r \in Requests, Out!ListClients(r) \/ Out!LoadClients(r) PROVE Seen'
      BY <1>4 DEF Out!ListClients, Out!LoadClients
  <1>5. ASSUME NEW r \in Requests, Out!RevokeFamily(r) \/ Out!DeleteSession(r) PROVE Seen'
      BY <1>5 DEF Out!RevokeFamily, Out!DeleteSession, Out!Proceed
  <1>6. ASSUME NEW r \in Requests, Out!NotifyClients(r) \/ Out!Abort(r) \/ Out!Answer(r)
        PROVE  Seen'
    <2>1. Out!End(r) /\ UNCHANGED Out!tables
        BY <1>6, Zenon DEF Out!NotifyClients, Out!Abort, Out!Answer
    <2> QED
        BY <2>1, Zenon DEF Out!End
  <1>7. ASSUME NEW r \in Requests, Out!FindUser(r) \/ Out!FindSession(r) PROVE Seen'
      BY <1>7 DEF Out!FindUser, Out!FindSession, Out!Proceed, Out!End
  <1>8. ASSUME NEW r \in Requests, Out!Validate(r) PROVE Seen'
      BY <1>8 DEF Out!Validate, Out!ValidJwt, Out!Proceed, Out!End
  <1>9. ASSUME NEW c \in Clients, Out!Deliver(c) \/ Out!RevokeToken(c) \/ Out!DeleteClient(c)
               \/ Out!Grant(c)
        PROVE  Seen'
      BY <1>9, Zenon DEF Out!Deliver, Out!RevokeToken, Out!DeleteClient, Out!Grant
  <1>10. ASSUME NEW b \in BOOLEAN, Out!SetEnabled(b) PROVE Seen'
      BY <1>10, Zenon DEF Out!SetEnabled
  <1>11. CASE Out!EndElsewhere \/ Out!RetireKey
      BY <1>11, Zenon DEF Out!EndElsewhere, Out!RetireKey
  <1> HIDE DEF Seen
  <1> QED
      BY <1>1, <1>2, <1>3, <1>4, <1>5, <1>6, <1>7, <1>8, <1>9, <1>10, <1>11, Zenon
      DEF Out!Next, Out!Step

\* The invariant is inductive.
LEMMA LogoutNext == LogoutInv /\ [Out!Next]_logoutVars => LogoutInv'
  <1>1. ASSUME LogoutInv, UNCHANGED logoutVars PROVE LogoutInv'
      BY <1>1, Zenon DEF LogoutInv, Out!TypeOK, Listed, Out!ClientsTold, Seen, logoutVars
  <1> QED
      BY <1>1, LogoutTypes, LogoutListed, LogoutTold, LogoutSeen, Zenon DEF LogoutInv

-----------------------------------------------------------------------------
(* The rate limiter.                                                       *)

\* A wait of w ticks is at most half a second shorter than a window with l ticks left.
Covers(l, w) == 2 * l <= 2 * w + PerSecond

\* A bucket has a time to live exactly while it has a count; the window that
\* refused a request ends at most half a second after the caller's wait.
LimiterInv ==
    /\ Limiter!TypeOK
    /\ count \in [Buckets -> Nat] /\ left \in [Buckets -> Nat]
    /\ todo \in [Requests -> Seq(Buckets)] /\ wait \in [Requests -> Nat]
    /\ DOMAIN recent = Buckets
    /\ \A b \in Buckets : count[b] > 0 <=> left[b] > 0
    /\ \A r \in Requests :
          /\ step[r] \in {"check", "ttl"} => Len(todo[r]) > 0
          /\ by[r] # None =>
                /\ step[r] \in {"ttl", "refused"} /\ left[by[r]] > 0
                /\ step[r] = "ttl" => by[r] = Limiter!Bucket(r)
                /\ step[r] = "refused" => Covers(left[by[r]], wait[r])

\* Division as the floor of the quotient.
LEMMA Division ==
    ASSUME NEW a \in Nat, NEW d \in Nat \ {0}
    PROVE  /\ a \div d \in Nat
           /\ d * (a \div d) <= a /\ a < d * (a \div d) + d
  OBVIOUS

\* A request that checks, or that was refused, has a bucket in front.
LEMMA FrontBucket ==
    ASSUME LimiterInv, NEW r \in Requests, step[r] \in {"check", "ttl"}
    PROVE  Limiter!Bucket(r) \in Buckets
  <1>1. todo[r] \in Seq(Buckets) /\ Len(todo[r]) > 0
      BY Zenon DEF LimiterInv
  <1> QED
      BY <1>1 DEF Limiter!Bucket

\* The length of a window in ticks.
LEMMA TicksNat ==
    ASSUME NEW b \in Buckets
    PROVE  Limiter!Ticks(b) \in Nat /\ (Window[b] > 0 => Limiter!Ticks(b) > 0)
  BY BucketsAssumption DEF Limiter!Ticks

\* The number of admissions that are remembered.
LEMMA PlacesNat ==
    ASSUME NEW b \in Buckets PROVE Limit[b] \in Nat /\ 2 * Limit[b] + 1 \in Nat
  BY BucketsAssumption

\* Retry-After covers what is left of the window but for half a second, as Redis
\* rounds a time to live to the nearest second.
LEMMA RetryAfterCovers ==
    ASSUME NEW b \in Buckets, left[b] \in 0..Limiter!Ticks(b),
           NEW s \in Limiter!RetryAfter(b)
    PROVE  s * PerSecond \in Nat /\ Covers(left[b], s * PerSecond)
  <1>1. PerSecond \in Nat \ {0} /\ Window[b] \in Nat /\ left[b] \in Nat
      BY BucketsAssumption, TicksNat
  <1>2. CASE s = Window[b]
    <2>1. s * PerSecond = Limiter!Ticks(b)
        BY <1>2, Zenon DEF Limiter!Ticks
    <2> QED
        BY <1>1, <2>1, TicksNat DEF Covers
  <1>3. CASE s = Limiter!Ttl(b)
    <2> DEFINE d == 2 * PerSecond
               a == 2 * left[b] + PerSecond
    <2>1. a \in Nat /\ d \in Nat \ {0} /\ s = a \div d
        BY <1>1, <1>3 DEF Limiter!Ttl
    <2>2. s \in Nat /\ a < d * s + d
      <3> HIDE DEF a, d
      <3> QED
          BY <2>1, Division, Zenon
    <2>3. d * s = 2 * (s * PerSecond) /\ s * PerSecond \in Nat
        BY <1>1, <2>2
    <2>4. 2 * left[b] + PerSecond < 2 * (s * PerSecond) + 2 * PerSecond
        BY <2>2, <2>3, Zenon
    <2> QED
        BY <1>1, <2>3, <2>4 DEF Covers
  <1> QED
      BY <1>2, <1>3, Zenon DEF Limiter!RetryAfter

\* One more admission keeps the ages within the window.
LEMMA AgesAdmitted ==
    ASSUME NEW n \in Nat, NEW t \in Nat, NEW ages \in [1..n -> 0..t]
    PROVE  Limiter!Admitted(ages) \in [1..n -> 0..t]
  BY DEF Limiter!Admitted

\* So does a tick.
LEMMA AgesOlder ==
    ASSUME NEW n \in Nat, NEW t \in Nat, NEW ages \in [1..n -> 0..t]
    PROVE  Limiter!Older(ages, t) \in [1..n -> 0..t]
  BY DEF Limiter!Older

\* No key, no request.
LEMMA LimiterInit == Limiter!Init => LimiterInv
  <1> SUFFICES ASSUME Limiter!Init PROVE LimiterInv
      BY Zenon
  <1>1. \A b \in Buckets : Limiter!Ticks(b) \in Nat /\ Limit[b] \in Nat
      BY TicksNat, BucketsAssumption, Zenon
  <1> QED
      BY <1>1, BucketsAssumption
      DEF Limiter!Init, LimiterInv, Limiter!TypeOK, Limiter!Counts, Limiter!Places

\* The script keeps count and time to live together, and leaves the time to live
\* of a bucket that has one.
LEMMA LimiterIncr ==
    ASSUME LimiterInv, NEW b \in Buckets, Window[b] > 0, Limiter!IncrAndExpire(b)
    PROVE  /\ count' \in [Buckets -> Nat] /\ left' \in [Buckets -> Nat]
           /\ \A d \in Buckets : /\ count'[d] \in Limiter!Counts(d)
                                 /\ left'[d] \in 0..Limiter!Ticks(d)
                                 /\ count'[d] > 0 <=> left'[d] > 0
                                 /\ left[d] > 0 => left'[d] = left[d]
           /\ left'[b] > 0
  <1>1. \A d \in Buckets : Limiter!Ticks(d) \in Nat /\ Limit[d] \in Nat
      BY TicksNat, BucketsAssumption, Zenon
  <1>2. Limiter!Ticks(b) > 0
      BY TicksNat, Zenon
  <1> QED
      BY <1>1, <1>2 DEF LimiterInv, Limiter!TypeOK, Limiter!IncrAndExpire, Limiter!Counts

\* A request that passes a bucket goes on to the next, or to its work.
LEMMA LimiterPass ==
    ASSUME LimiterInv, NEW r \in Requests, step[r] = "check", Limiter!Pass(r)
    PROVE  /\ todo' \in [Requests -> Seq(Buckets)] /\ by[r] = None
           /\ step' \in [Requests -> {"idle", "check", "ttl", "refused", "work"}]
           /\ step'[r] = "work" \/ (step'[r] = "check" /\ Len(todo'[r]) > 0)
           /\ \A q \in Requests \ {r} : step'[q] = step[q] /\ todo'[q] = todo[q]
           /\ UNCHANGED <<wait, by>>
  <1>1. todo[r] \in Seq(Buckets) /\ Len(todo[r]) > 0
      BY Zenon DEF LimiterInv
  <1>2. Tail(todo[r]) \in Seq(Buckets) /\ Len(Tail(todo[r])) = Len(todo[r]) - 1
      BY <1>1
  <1>3. /\ by[r] = None
        /\ todo \in [Requests -> Seq(Buckets)]
        /\ step \in [Requests -> {"idle", "check", "ttl", "refused", "work"}]
      BY Zenon DEF LimiterInv, Limiter!TypeOK
  <1>4. /\ todo' = [todo EXCEPT ![r] = Tail(todo[r])] /\ UNCHANGED <<wait, by>>
        /\ step' = [step EXCEPT ![r] = IF Len(todo[r]) = 1 THEN "work" ELSE "check"]
      BY Zenon DEF Limiter!Pass, Limiter!Goto
  <1> QED
      BY <1>1, <1>2, <1>3, <1>4

\* A caller that is not refused comes or goes, and no key changes.
LEMMA LimiterCaller ==
    ASSUME LimiterInv, NEW r \in Requests, UNCHANGED <<count, left, recent>>,
           step' \in [Requests -> {"idle", "check", "ttl", "refused", "work"}],
           todo' \in [Requests -> Seq(Buckets)], wait' \in [Requests -> Nat],
           by' \in [Requests -> Buckets \cup {None}], by'[r] = None,
           step'[r] \in {"check", "ttl"} => Len(todo'[r]) > 0,
           \A q \in Requests \ {r} : /\ step'[q] = step[q] /\ todo'[q] = todo[q]
                                     /\ wait'[q] = wait[q] /\ by'[q] = by[q]
    PROVE  LimiterInv'
  <1>1. Limiter!TypeOK'
      BY Zenon DEF LimiterInv, Limiter!TypeOK, Limiter!Places, Limiter!Ticks, Limiter!Counts
  <1>2. ASSUME NEW q \in Requests
        PROVE  /\ step'[q] \in {"check", "ttl"} => Len(todo'[q]) > 0
               /\ by'[q] # None =>
                     /\ step'[q] \in {"ttl", "refused"} /\ left'[by'[q]] > 0
                     /\ step'[q] = "ttl" => by'[q] = Limiter!Bucket(q)'
                     /\ step'[q] = "refused" => Covers(left'[by'[q]], wait'[q])
    <2>1. CASE q = r
        BY <2>1, Zenon
    <2>2. CASE q # r
        BY <2>2, Zenon DEF LimiterInv, Limiter!Bucket
    <2> QED
        BY <2>1, <2>2, Zenon
  <1> QED
      BY <1>1, <1>2, Zenon DEF LimiterInv

\* Every action keeps the keys and the callers in order.
LEMMA LimiterStep == LimiterInv /\ Limiter!Next => LimiterInv'
  <1> SUFFICES ASSUME LimiterInv, Limiter!Next PROVE LimiterInv'
      BY Zenon
  <1>0. \A b \in Buckets : Limiter!Ticks(b) \in Nat /\ Limit[b] \in Nat
      BY TicksNat, BucketsAssumption, Zenon
  <1> USE BucketsAssumption
  <1>1. ASSUME NEW r \in Requests, NEW route \in Routes, Limiter!Begin(r, route)
        PROVE  LimiterInv'
    <2>1. /\ step \in [Requests -> {"idle", "check", "ttl", "refused", "work"}]
          /\ todo \in [Requests -> Seq(Buckets)] /\ wait \in [Requests -> Nat]
          /\ by \in [Requests -> Buckets \cup {None}]
          /\ step[r] = "idle" /\ by[r] = None
        BY <1>1, Zenon DEF LimiterInv, Limiter!TypeOK, Limiter!Begin
    <2>2. /\ step' = [step EXCEPT ![r] = IF route = <<>> THEN "work" ELSE "check"]
          /\ todo' = [todo EXCEPT ![r] = route]
          /\ UNCHANGED <<count, left, wait, by, recent>>
        BY <1>1, Zenon DEF Limiter!Begin, Limiter!Goto, Limiter!keys
    <2>3. route \in Seq(Buckets) /\ (route # <<>> => Len(route) > 0)
      <3>1. route \in Seq(Buckets)
          BY Zenon
      <3> QED
          BY <3>1
    <2> QED
        BY <2>1, <2>2, <2>3, LimiterCaller, Zenon
  <1>2. ASSUME NEW r \in Requests, Limiter!FailOpen(r) PROVE LimiterInv'
      BY <1>2, LimiterPass, Zenon DEF Limiter!FailOpen, Limiter!keys, LimiterInv, Limiter!TypeOK,
                  Limiter!Bucket
  <1>3. ASSUME NEW r \in Requests, Limiter!Hit(r) \/ Limiter!HitUnheard(r) PROVE LimiterInv'
    <2>1. Limiter!Bucket(r) \in Buckets
        BY <1>3, FrontBucket, Zenon DEF Limiter!Hit, Limiter!HitUnheard
    <2> DEFINE b == Limiter!Bucket(r)
    <2>2. step[r] = "check" /\ Window[b] > 0 /\ Limiter!IncrAndExpire(b)
        BY <1>3, Zenon DEF Limiter!Hit, Limiter!HitUnheard
    <2>3. ASSUME Limiter!Pass(r), DOMAIN recent' = Buckets,
                 \A d \in Buckets : recent'[d] \in [Limiter!Places(d) -> 0..Limiter!Ticks(d)]
          PROVE  LimiterInv'
      <3>1. /\ count' \in [Buckets -> Nat] /\ left' \in [Buckets -> Nat]
            /\ \A d \in Buckets : /\ count'[d] \in Limiter!Counts(d)
                                  /\ left'[d] \in 0..Limiter!Ticks(d)
                                  /\ count'[d] > 0 <=> left'[d] > 0
                                  /\ left[d] > 0 => left'[d] = left[d]
          BY <2>1, <2>2, LimiterIncr, Zenon
      <3>2. /\ todo' \in [Requests -> Seq(Buckets)] /\ by[r] = None
            /\ step' \in [Requests -> {"idle", "check", "ttl", "refused", "work"}]
            /\ step'[r] = "work" \/ (step'[r] = "check" /\ Len(todo'[r]) > 0)
            /\ \A q \in Requests \ {r} : step'[q] = step[q] /\ todo'[q] = todo[q]
            /\ UNCHANGED <<wait, by>>
          BY <2>2, <2>3, LimiterPass, Zenon
      <3> QED
          BY <2>3, <3>1, <3>2 DEF LimiterInv, Limiter!TypeOK, Limiter!Bucket
    <2>4. ASSUME recent' = [recent EXCEPT ![b] = Limiter!Admitted(@)]
          PROVE  /\ DOMAIN recent' = Buckets
                 /\ \A d \in Buckets : recent'[d] \in [Limiter!Places(d) -> 0..Limiter!Ticks(d)]
      <3>1. DOMAIN recent' = Buckets
          BY <2>4, Zenon DEF LimiterInv
      <3>2. ASSUME NEW d \in Buckets PROVE recent'[d] \in [Limiter!Places(d) -> 0..Limiter!Ticks(d)]
        <4>1. recent[d] \in [Limiter!Places(d) -> 0..Limiter!Ticks(d)]
            BY Zenon DEF LimiterInv, Limiter!TypeOK
        <4>2. recent'[d] = IF d = b THEN Limiter!Admitted(recent[d]) ELSE recent[d]
            BY <2>1, <2>4, Zenon DEF LimiterInv
        <4>3. Limiter!Admitted(recent[d]) \in [Limiter!Places(d) -> 0..Limiter!Ticks(d)]
            BY <1>0, <4>1, PlacesNat, AgesAdmitted, Zenon DEF Limiter!Places
        <4> QED
            BY <4>1, <4>2, <4>3, Zenon
      <3> QED
          BY <3>1, <3>2, Zenon
    <2>5. CASE /\ Limiter!Goto(r, "ttl") /\ by' = [by EXCEPT ![r] = b]
               /\ UNCHANGED <<recent, todo, wait>>
        BY <2>1, <2>2, <2>5, LimiterIncr, Zenon
        DEF LimiterInv, Limiter!TypeOK, Limiter!Bucket, Limiter!Goto
    <2> QED
      <3>1. CASE UNCHANGED recent /\ Limiter!Pass(r)
          BY <2>3, <3>1, Zenon DEF LimiterInv, Limiter!TypeOK
      <3>2. CASE recent' = [recent EXCEPT ![b] = Limiter!Admitted(@)] /\ Limiter!Pass(r)
          BY <2>3, <2>4, <3>2, Zenon
      <3> QED
          BY <1>3, <2>5, <3>1, <3>2, Zenon DEF Limiter!Hit, Limiter!HitUnheard
  <1>4. ASSUME NEW r \in Requests, Limiter!Refuse(r) PROVE LimiterInv'
    <2>1. Limiter!Bucket(r) \in Buckets /\ step[r] = "ttl"
        BY <1>4, FrontBucket, Zenon DEF Limiter!Refuse
    <2>2. PICK s \in Limiter!RetryAfter(Limiter!Bucket(r)) :
              wait' = [wait EXCEPT ![r] = s * PerSecond]
        BY <1>4, Zenon DEF Limiter!Refuse
    <2> DEFINE w == s * PerSecond
    <2>3. w \in Nat /\ Covers(left[Limiter!Bucket(r)], w) /\ wait' = [wait EXCEPT ![r] = w]
        BY <2>1, <2>2, RetryAfterCovers, Zenon DEF LimiterInv, Limiter!TypeOK
    <2>4. Limiter!Goto(r, "refused") /\ UNCHANGED <<count, left, todo, by, recent>>
        BY <1>4, Zenon DEF Limiter!Refuse, Limiter!keys
    <2> HIDE DEF w
    <2> QED
        BY <2>1, <2>3, <2>4, Zenon DEF LimiterInv, Limiter!TypeOK, Limiter!Goto, Limiter!Bucket
  <1>5. ASSUME NEW r \in Requests, Limiter!LogIn(r) \/ Limiter!Fail(r) \/ Limiter!Return(r)
        PROVE  LimiterInv'
    <2>1. Limiter!End(r) /\ UNCHANGED <<count, left, recent>>
        BY <1>5, Zenon DEF Limiter!LogIn, Limiter!Fail, Limiter!Return, Limiter!keys
    <2> QED
      <3>1. /\ step \in [Requests -> {"idle", "check", "ttl", "refused", "work"}]
            /\ todo \in [Requests -> Seq(Buckets)] /\ wait \in [Requests -> Nat]
            /\ by \in [Requests -> Buckets \cup {None}]
          BY Zenon DEF LimiterInv, Limiter!TypeOK
      <3>2. /\ step' = [step EXCEPT ![r] = "idle"] /\ todo' = [todo EXCEPT ![r] = <<>>]
            /\ wait' = [wait EXCEPT ![r] = 0] /\ by' = [by EXCEPT ![r] = None]
          BY <2>1, Zenon DEF Limiter!End, Limiter!Goto
      <3>3. <<>> \in Seq(Buckets) /\ 0 \in Nat
          OBVIOUS
      <3> QED
          BY <2>1, <3>1, <3>2, <3>3, LimiterCaller, Zenon
  <1>6. CASE Limiter!Tick
    <2>1. \A b \in Buckets : recent'[b] \in [Limiter!Places(b) -> 0..Limiter!Ticks(b)]
      <3> TAKE b \in Buckets
      <3>1. /\ recent[b] \in [Limiter!Places(b) -> 0..Limiter!Ticks(b)]
            /\ Limiter!Ticks(b) \in Nat
          BY <1>0, Zenon DEF LimiterInv, Limiter!TypeOK
      <3>2. recent'[b] = Limiter!Older(recent[b], Limiter!Ticks(b))
          BY <1>6, Zenon DEF Limiter!Tick
      <3> QED
        <4>1. ASSUME NEW t \in Nat, recent[b] \in [Limiter!Places(b) -> 0..t]
              PROVE  Limiter!Older(recent[b], t) \in [Limiter!Places(b) -> 0..t]
            BY <4>1, PlacesNat, AgesOlder, Zenon DEF Limiter!Places
        <4> QED
            BY <3>1, <3>2, <4>1, Zenon
    <2>2. DOMAIN recent' = Buckets
        BY <1>6, Zenon DEF Limiter!Tick
    <2>3. /\ count' \in [Buckets -> Nat] /\ left' \in [Buckets -> Nat]
          /\ \A b \in Buckets : /\ count'[b] \in Limiter!Counts(b)
                                /\ left'[b] \in 0..Limiter!Ticks(b)
                                /\ count'[b] > 0 <=> left'[b] > 0
      <3>1. /\ count \in [Buckets -> Nat] /\ left \in [Buckets -> Nat]
            /\ \A b \in Buckets : /\ count[b] \in Limiter!Counts(b)
                                  /\ left[b] \in 0..Limiter!Ticks(b)
                                  /\ count[b] > 0 <=> left[b] > 0
          BY Zenon DEF LimiterInv, Limiter!TypeOK
      <3>2. /\ left' = [b \in Buckets |-> IF left[b] > 0 THEN left[b] - 1 ELSE 0]
            /\ count' = [b \in Buckets |-> IF left[b] = 1 THEN 0 ELSE count[b]]
          BY <1>6, Zenon DEF Limiter!Tick
      <3>3. count' \in [Buckets -> Nat] /\ left' \in [Buckets -> Nat]
          BY <3>1, <3>2
      <3>4. ASSUME NEW b \in Buckets
            PROVE  /\ count'[b] \in Limiter!Counts(b) /\ left'[b] \in 0..Limiter!Ticks(b)
                   /\ count'[b] > 0 <=> left'[b] > 0
          BY <1>0, <3>1, <3>2, <3>4 DEF Limiter!Counts
      <3> QED
          BY <3>3, <3>4, Zenon
    <2>4. wait' \in [Requests -> Nat] /\ by' \in [Requests -> Buckets \cup {None}]
      <3>1. wait \in [Requests -> Nat] /\ by \in [Requests -> Buckets \cup {None}]
          BY Zenon DEF LimiterInv, Limiter!TypeOK
      <3>2. /\ wait' = [r \in Requests |-> IF wait[r] > 0 THEN wait[r] - 1 ELSE 0]
            /\ by' = [r \in Requests |->
                        IF by[r] # None /\ left[by[r]] = 1 THEN None ELSE by[r]]
          BY <1>6, Zenon DEF Limiter!Tick
      <3> QED
          BY <3>1, <3>2
    <2>5. ASSUME NEW r \in Requests, by'[r] # None
          PROVE  /\ by'[r] = by[r] /\ left'[by[r]] > 0
                 /\ Covers(left[by[r]], wait[r]) => Covers(left'[by[r]], wait'[r])
      <3>1. /\ by[r] \in Buckets \cup {None} /\ left \in [Buckets -> Nat] /\ wait[r] \in Nat
            /\ by[r] # None => left[by[r]] > 0
          BY Zenon DEF LimiterInv, Limiter!TypeOK
      <3>2. /\ left' = [b \in Buckets |-> IF left[b] > 0 THEN left[b] - 1 ELSE 0]
            /\ wait'[r] = (IF wait[r] > 0 THEN wait[r] - 1 ELSE 0)
            /\ by'[r] = (IF by[r] # None /\ left[by[r]] = 1 THEN None ELSE by[r])
          BY <1>6, Zenon DEF Limiter!Tick
      <3>3. by'[r] = by[r] /\ by[r] \in Buckets /\ left[by[r]] # 1
          BY <2>5, <3>1, <3>2, Zenon
      <3>4. left[by[r]] \in Nat /\ left[by[r]] > 0 /\ left'[by[r]] = left[by[r]] - 1
          BY <2>5, <3>1, <3>2, <3>3
      <3>5. ASSUME NEW l \in Nat, NEW w \in Nat, Covers(l, w), l > 0
            PROVE  Covers(l - 1, IF w > 0 THEN w - 1 ELSE 0)
          BY <3>5, BucketsAssumption DEF Covers
      <3>6. Covers(left[by[r]], wait[r]) => Covers(left'[by[r]], wait'[r])
          BY <3>1, <3>2, <3>4, <3>5, Zenon
      <3> QED
          BY <3>3, <3>4, <3>6
    <2>6. UNCHANGED <<step, todo>>
        BY <1>6, Zenon DEF Limiter!Tick
    <2> QED
        BY <2>1, <2>2, <2>3, <2>4, <2>5, <2>6, Zenon DEF LimiterInv, Limiter!TypeOK, Limiter!Bucket
  <1> QED
      BY <1>1, <1>2, <1>3, <1>4, <1>5, <1>6, Zenon DEF Limiter!Next

\* The invariant is inductive.
LEMMA LimiterNext == LimiterInv /\ [Limiter!Next]_limiterVars => LimiterInv'
  <1>1. ASSUME LimiterInv, UNCHANGED limiterVars PROVE LimiterInv'
      BY <1>1, Zenon DEF LimiterInv, Limiter!TypeOK, Limiter!Bucket, limiterVars
  <1> QED
      BY <1>1, LimiterStep, Zenon

\* With c hits counted and l ticks left to live, the i-th last request that the
\* counter let through has an age that is in order.  Of those before the present
\* window each is as old as that window, and all but the limit of them are as old
\* as a whole one; once the key is gone, all but the limit are.
InOrder(i, age, c, l, limit, window) ==
    LET through == IF c < limit THEN c ELSE limit IN
    /\ l > 0 /\ i > through => age >= window - l
    /\ l > 0 /\ i > through + limit => age = window
    /\ l = 0 /\ i > limit => age = window

AgesInOrder(b) ==
    \A i \in Limiter!Places(b) :
        InOrder(i, recent[b][i], count[b], left[b], Limit[b], Limiter!Ticks(b))

AdmittedInOrder == \A b \in Buckets : AgesInOrder(b)

\* Nothing was let through yet.
LEMMA AgesInit == Limiter!Init => AdmittedInOrder
  <1> SUFFICES ASSUME Limiter!Init, NEW b \in Buckets PROVE AgesInOrder(b)
      BY Zenon DEF AdmittedInOrder
  <1>1. left[b] = 0 /\ recent[b] = [i \in Limiter!Places(b) |-> Limiter!Ticks(b)]
      BY Zenon DEF Limiter!Init
  <1> QED
      BY <1>1 DEF AgesInOrder, InOrder

\* What the lemmas below rely on.
LEMMA BucketTypes ==
    ASSUME LimiterInv, NEW b \in Buckets
    PROVE  /\ Limit[b] \in Nat /\ Limiter!Ticks(b) \in Nat
           /\ count[b] \in Nat /\ left[b] \in 0..Limiter!Ticks(b)
           /\ count[b] > 0 <=> left[b] > 0
           /\ recent[b] \in [Limiter!Places(b) -> 0..Limiter!Ticks(b)]
  BY TicksNat, PlacesNat, Zenon DEF LimiterInv, Limiter!TypeOK

\* A hit that the counter turns down, or whose answer is lost: a new window starts from
\* what the last one let through.
LEMMA OrderCounted ==
    ASSUME NEW limit \in Nat \ {0}, NEW window \in Nat, NEW i \in Nat, NEW age \in 0..window,
           NEW c \in Nat, NEW l \in 0..window, c > 0 <=> l > 0,
           InOrder(i, age, c, l, limit, window),
           NEW c2, c2 = (IF c > limit THEN c ELSE c + 1),
           NEW l2, l2 = (IF c = 0 THEN window ELSE l)
    PROVE  InOrder(i, age, c2, l2, limit, window)
  BY DEF InOrder

\* A hit below the limit is let through: it is the youngest, and the others move up.
LEMMA OrderAdmitted ==
    ASSUME NEW limit \in Nat \ {0}, NEW window \in Nat, NEW i \in Nat \ {0}, NEW a \in 0..window,
           NEW c \in Nat, NEW l \in 0..window, c > 0 <=> l > 0, c < limit,
           i # 1 => InOrder(i - 1, a, c, l, limit, window), i = 1 => a = 0,
           NEW c2, c2 = (IF c > limit THEN c ELSE c + 1),
           NEW l2, l2 = (IF c = 0 THEN window ELSE l)
    PROVE  InOrder(i, a, c2, l2, limit, window)
  BY DEF InOrder

\* A tick: everything grows older as the window does; with the key the window goes, and
\* what it let through is what the next one starts from.
LEMMA OrderTicked ==
    ASSUME NEW limit \in Nat, NEW window \in Nat, NEW i \in Nat, NEW age \in 0..window,
           NEW c \in Nat, NEW l \in 0..window, c > 0 <=> l > 0,
           InOrder(i, age, c, l, limit, window),
           NEW a2, a2 = (IF age < window THEN age + 1 ELSE window),
           NEW c2, c2 = (IF l = 1 THEN 0 ELSE c),
           NEW l2, l2 = (IF l > 0 THEN l - 1 ELSE 0)
    PROVE  InOrder(i, a2, c2, l2, limit, window)
  BY DEF InOrder

\* So does every hit of a bucket keep its ages in order,
LEMMA AgesHit ==
    ASSUME LimiterInv, NEW b \in Buckets, AgesInOrder(b), Limit[b] > 0,
           Limiter!IncrAndExpire(b),
           \/ recent' = recent
           \/ Limiter!Allows(b) /\ recent' = [recent EXCEPT ![b] = Limiter!Admitted(@)]
    PROVE  AgesInOrder(b)'
  <1> SUFFICES ASSUME NEW i \in Limiter!Places(b)
               PROVE  InOrder(i, recent'[b][i], count'[b], left'[b], Limit[b], Limiter!Ticks(b))
      BY Zenon DEF AgesInOrder, Limiter!Places, Limiter!Ticks
  <1>0. /\ Limiter!Ticks(b) \in Nat
        /\ count[b] \in Nat /\ left[b] \in 0..Limiter!Ticks(b)
        /\ count[b] > 0 <=> left[b] > 0
        /\ \A j \in Limiter!Places(b) : recent[b][j] \in 0..Limiter!Ticks(b)
      BY BucketTypes, Zenon
  <1>1. /\ Limit[b] \in Nat \ {0} /\ i \in Nat \ {0} /\ i \in Nat
        /\ i # 1 => i - 1 \in Limiter!Places(b)
        /\ 0 \in 0..Limiter!Ticks(b)
    <2>1. Limit[b] \in Nat
        BY BucketTypes, Zenon
    <2> QED
        BY <1>0, <2>1 DEF Limiter!Places
  <1>2. /\ count'[b] = (IF count[b] > Limit[b] THEN count[b] ELSE count[b] + 1)
        /\ left'[b] = (IF count[b] = 0 THEN Limiter!Ticks(b) ELSE left[b])
      BY Zenon DEF Limiter!IncrAndExpire, LimiterInv
  <1>3. CASE recent' = recent
    <2>1. InOrder(i, recent[b][i], count[b], left[b], Limit[b], Limiter!Ticks(b))
        BY Zenon DEF AgesInOrder
    <2>2. InOrder(i, recent[b][i], count'[b], left'[b], Limit[b], Limiter!Ticks(b))
        BY <1>0, <1>1, <1>2, <2>1, OrderCounted, Zenon
    <2> QED
        BY <1>3, <2>2, Zenon
  <1>4. CASE /\ count[b] < Limit[b]
             /\ recent' = [recent EXCEPT ![b] = Limiter!Admitted(@)]
    <2> DEFINE a == recent'[b][i]
    <2>1. a = IF i = 1 THEN 0 ELSE recent[b][i - 1]
      <3>1. recent'[b] = Limiter!Admitted(recent[b])
          BY <1>4, Zenon DEF LimiterInv
      <3>2. DOMAIN recent[b] = Limiter!Places(b)
          BY BucketTypes, Zenon
      <3> QED
          BY <3>1, <3>2, Zenon DEF Limiter!Admitted
    <2>2. i # 1 => InOrder(i - 1, a, count[b], left[b], Limit[b], Limiter!Ticks(b))
        BY <1>1, <2>1, Zenon DEF AgesInOrder
    <2>3. a \in 0..Limiter!Ticks(b) /\ (i = 1 => a = 0)
        BY <1>0, <1>1, <2>1, Zenon
    <2> HIDE DEF a
    <2>4. InOrder(i, a, count'[b], left'[b], Limit[b], Limiter!Ticks(b))
        BY <1>0, <1>1, <1>2, <1>4, <2>2, <2>3, OrderAdmitted, Zenon
    <2> QED
        BY <2>4, Zenon DEF a
  <1> QED
      BY <1>3, <1>4, Zenon DEF Limiter!Allows

\* and every tick.
LEMMA AgesTick ==
    ASSUME LimiterInv, NEW b \in Buckets, AgesInOrder(b), Limiter!Tick
    PROVE  AgesInOrder(b)'
  <1> SUFFICES ASSUME NEW i \in Limiter!Places(b)
               PROVE  InOrder(i, recent'[b][i], count'[b], left'[b], Limit[b], Limiter!Ticks(b))
      BY Zenon DEF AgesInOrder, Limiter!Places, Limiter!Ticks
  <1>0. /\ Limit[b] \in Nat /\ Limiter!Ticks(b) \in Nat
        /\ count[b] \in Nat /\ left[b] \in 0..Limiter!Ticks(b)
        /\ count[b] > 0 <=> left[b] > 0
        /\ recent[b][i] \in 0..Limiter!Ticks(b)
      BY BucketTypes, Zenon
  <1>1. i \in Nat
      BY <1>0 DEF Limiter!Places
  <1>2. /\ count'[b] = (IF left[b] = 1 THEN 0 ELSE count[b])
        /\ left'[b] = (IF left[b] > 0 THEN left[b] - 1 ELSE 0)
      BY Zenon DEF Limiter!Tick
  <1>3. recent'[b][i] = IF recent[b][i] < Limiter!Ticks(b)
                            THEN recent[b][i] + 1 ELSE Limiter!Ticks(b)
    <2>1. recent'[b] = Limiter!Older(recent[b], Limiter!Ticks(b))
        BY Zenon DEF Limiter!Tick
    <2>2. DOMAIN recent[b] = Limiter!Places(b)
        BY BucketTypes, Zenon
    <2> QED
        BY <2>1, <2>2, Zenon DEF Limiter!Older
  <1>4. InOrder(i, recent[b][i], count[b], left[b], Limit[b], Limiter!Ticks(b))
      BY Zenon DEF AgesInOrder
  <1> QED
      BY <1>0, <1>1, <1>2, <1>3, <1>4, OrderTicked, Zenon

\* Another bucket's hit leaves this one alone.
LEMMA AgesSame ==
    ASSUME NEW b \in Buckets, AgesInOrder(b),
           count'[b] = count[b], left'[b] = left[b], recent'[b] = recent[b]
    PROVE  AgesInOrder(b)'
  BY Zenon DEF AgesInOrder, Limiter!Places, Limiter!Ticks

\* Every action keeps the ages in order.
LEMMA AgesNext == LimiterInv /\ AdmittedInOrder /\ [Limiter!Next]_limiterVars => AdmittedInOrder'
  <1> SUFFICES ASSUME LimiterInv, AdmittedInOrder, [Limiter!Next]_limiterVars,
                      NEW b \in Buckets
               PROVE  AgesInOrder(b)'
      BY Zenon DEF AdmittedInOrder
  <1>0. AgesInOrder(b)
      BY Zenon DEF AdmittedInOrder
  <1>1. CASE UNCHANGED <<count, left, recent>>
      BY <1>0, <1>1, AgesSame, Zenon
  <1>2. CASE Limiter!Tick
      BY <1>0, <1>2, AgesTick, Zenon
  <1>3. ASSUME NEW r \in Requests, Limiter!Hit(r) \/ Limiter!HitUnheard(r)
        PROVE  AgesInOrder(b)'
    <2> DEFINE d == Limiter!Bucket(r)
    <2>1. /\ Limit[d] > 0 /\ Limiter!IncrAndExpire(d)
          /\ \/ recent' = recent
             \/ Limiter!Allows(d) /\ recent' = [recent EXCEPT ![d] = Limiter!Admitted(@)]
        BY <1>3, Zenon DEF Limiter!Hit, Limiter!HitUnheard
    <2>2. CASE b = d
        BY <1>0, <2>1, <2>2, AgesHit, Zenon
    <2>3. CASE b # d
      <3>1. count'[b] = count[b] /\ left'[b] = left[b] /\ recent'[b] = recent[b]
          BY <2>1, <2>3, Zenon DEF Limiter!IncrAndExpire, LimiterInv
      <3> QED
          BY <1>0, <3>1, AgesSame, Zenon
    <2> QED
        BY <2>2, <2>3, Zenon
  <1> QED
      BY <1>1, <1>2, <1>3, Zenon
      DEF Limiter!Next, Limiter!FailOpen, Limiter!Refuse, Limiter!LogIn, Limiter!Fail,
          Limiter!Return, Limiter!Begin, Limiter!keys, limiterVars

-----------------------------------------------------------------------------
(* The parts together.                                                     *)

\* The invariant of whichever part runs.
LoginInv ==
    /\ part = "passwords" => PasswordsInv
    /\ part = "limiter" => LimiterInv /\ AdmittedInOrder
    /\ part = "page" => PageInv
    /\ part = "logout" => LogoutInv

\* It holds at the start and is kept by every step.
LEMMA LoginInvariant == MCSpec => []LoginInv
  <1>1. MCInit => LoginInv
      BY PasswordsInit, LimiterInit, AgesInit, PageInit, LogoutInit, Zenon
      DEF MCInit, LoginInv
  <1>2. ASSUME LoginInv, [MCNext]_<<part, vars, limiterVars, pageVars, logoutVars>>
        PROVE  LoginInv'
    <2>1. part' = part
        BY <1>2, Zenon DEF MCNext
    <2>2. CASE part = "passwords"
      <3>1. [Next]_vars
          BY <1>2, <2>2, Zenon DEF MCNext
      <3> QED
          BY <1>2, <2>1, <2>2, <3>1, PasswordsNext, Zenon DEF LoginInv
    <2>3. CASE part = "limiter"
      <3>1. [Limiter!Next]_limiterVars
          BY <1>2, <2>3, Zenon DEF MCNext
      <3> QED
          BY <1>2, <2>1, <2>3, <3>1, LimiterNext, AgesNext, Zenon DEF LoginInv
    <2>4. CASE part = "page"
      <3>1. [Page!Next]_pageVars
          BY <1>2, <2>4, Zenon DEF MCNext
      <3> QED
          BY <1>2, <2>1, <2>4, <3>1, PageNext, Zenon DEF LoginInv
    <2>5. CASE part = "logout"
      <3>1. [Out!Next]_logoutVars
          BY <1>2, <2>5, Zenon DEF MCNext
      <3> QED
          BY <1>2, <2>1, <2>5, <3>1, LogoutNext, Zenon DEF LoginInv
    <2> QED
        BY <2>1, <2>2, <2>3, <2>4, <2>5, Zenon DEF LoginInv
  <1> QED
      BY <1>1, <1>2, PTL DEF MCSpec

\* Types: what each of the four parts stores is of the kind its code declares.
THEOREM LoginTypes == MCSpec => []TypesOK
  <1>1. LoginInv => TypesOK
      BY PasswordsSound, Zenon DEF LoginInv, TypesOK, LimiterInv, PageInv, LogoutInv
  <1> QED
      BY <1>1, LoginInvariant, PTL

\* rotate_password and the kill after it: with no rotation on its way and none
\* cut short, a session under a password that no longer opens the account comes
\* from a login that verified it before the write (password/flow.rs).
THEOREM RotationsEndSessions == MCSpec => []SessionsEndWithPassword
  <1>1. LoginInv => SessionsEndWithPassword
      BY PasswordsSound, Zenon DEF LoginInv, SessionsEndWithPassword
  <1> QED
      BY <1>1, LoginInvariant, PTL

\* reset_password: a token issued before another reset had consumed its token and
\* the siblings is refused (password/flow.rs).
THEOREM ClosedTokensRefused == MCSpec => []ResetTokensDie
  <1>1. LoginInv => ResetTokensDie
      BY PasswordsSound, Zenon DEF LoginInv, ResetTokensDie
  <1> QED
      BY <1>1, LoginInvariant, PTL

\* rotate_password: a user who had a credential row keeps exactly one, and only
\* the password written last opens the account.
THEOREM LastPasswordOpens == MCSpec => []OnePassword
  <1>1. LoginInv => OnePassword
      BY PasswordsSound, Zenon DEF LoginInv, OnePassword
  <1> QED
      BY <1>1, LoginInvariant, PTL

\* check and the script INCR_AND_EXPIRE: in any stretch as long as the window,
\* wherever it starts, the counter lets at most twice the limit through.
THEOREM AdmissionsBounded == MCSpec => []AdmittedBounded
  <1>1. ASSUME LimiterInv, AdmittedInOrder, NEW b \in Buckets
        PROVE  recent[b][2 * Limit[b] + 1] = Limiter!Ticks(b)
    <2>1. /\ Limit[b] \in Nat /\ count[b] \in Nat /\ left[b] \in 0..Limiter!Ticks(b)
          /\ Limiter!Ticks(b) \in Nat /\ AgesInOrder(b)
        BY <1>1, BucketTypes, Zenon DEF AdmittedInOrder
    <2>2. 2 * Limit[b] + 1 \in Limiter!Places(b)
        BY <2>1 DEF Limiter!Places
    <2>3. InOrder(2 * Limit[b] + 1, recent[b][2 * Limit[b] + 1], count[b], left[b],
                  Limit[b], Limiter!Ticks(b))
        BY <2>1, <2>2, Zenon DEF AgesInOrder
    <2> QED
        BY <2>1, <2>3 DEF InOrder
  <1>2. LoginInv => AdmittedBounded
      BY <1>1, Zenon DEF LoginInv, AdmittedBounded, Limiter!AdmittedBounded
  <1> QED
      BY <1>2, LoginInvariant, PTL

\* read_ttl_or_default: a caller that has waited for Retry-After finds the window
\* that refused it over, or with half a second left at most, which is what the
\* rounding of TTL may hide.
THEOREM RetryAfterRounded == MCSpec => []RetryAfterWithinRounding
  <1>1. ASSUME LimiterInv PROVE Limiter!RetryAfterWithinRounding
    <2> SUFFICES ASSUME NEW r \in Requests, step[r] = "refused", wait[r] = 0, by[r] # None
                 PROVE  2 * left[by[r]] <= PerSecond
        BY Zenon DEF Limiter!RetryAfterWithinRounding
    <2>1. Covers(left[by[r]], 0)
        BY <1>1, Zenon DEF LimiterInv
    <2> QED
        BY <2>1, BucketsAssumption DEF Covers
  <1>2. LoginInv => RetryAfterWithinRounding
      BY <1>1, Zenon DEF LoginInv, RetryAfterWithinRounding
  <1> QED
      BY <1>2, LoginInvariant, PTL

\* render_login and submit_login: however the tabs interleave, a form is refused
\* as expired only with an excuse, and a login lands where its tab was sent to.
THEOREM FormsAccepted == MCSpec => []FormsKeepWorking
  <1>1. LoginInv => FormsKeepWorking
      BY Zenon DEF LoginInv, PageInv, FormsKeepWorking, Page!FormsKeepWorking
  <1> QED
      BY <1>1, LoginInvariant, PTL

\* LogoutFlow::logout: whoever took part in the session before the list was read
\* is notified, or about to be, once a logout has deleted the row.
THEOREM LogoutTellsClients == MCSpec => []ClientsTold
  <1>1. LoginInv => ClientsTold
      BY Zenon DEF LoginInv, LogoutInv, ClientsTold
  <1> QED
      BY <1>1, LoginInvariant, PTL

\* userinfo and introspection answer only on a key, a session row and an enabled
\* user that were there when the request came in, or came back since.
THEOREM ResourcesChecked == MCSpec => []ResourcesHonourState
  <1>1. ASSUME LogoutInv PROVE Out!ResourcesHonourState
      BY <1>1, Zenon DEF LogoutInv, Seen, Out!ResourcesHonourState
  <1>2. LoginInv => ResourcesHonourState
      BY <1>1, Zenon DEF LoginInv, ResourcesHonourState
  <1> QED
      BY <1>2, LoginInvariant, PTL
=============================================================================
