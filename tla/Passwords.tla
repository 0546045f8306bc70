------------------------------ MODULE Passwords ------------------------------
(***************************************************************************)
(* The password of one enabled, verified user: logins that check it, and   *)
(* the three ways to replace it (a reset token, the user's own change, the *)
(* admin endpoint).  Each of them is a chain of statements without a       *)
(* transaction: replace the hash, consume reset tokens, kill sessions.     *)
(*                                                                         *)
(* A password is the number of the write that stored it; 0 is no password. *)
(* A session is its row; caches and refresh tokens are in Sessions and     *)
(* RefreshTokens.                                                          *)
(***************************************************************************)
EXTENDS Naturals

CONSTANTS
    Requests, Sessions, Tokens,
    Rows,        \* ids of credential rows
    None,        \* no row, no token, no session
    MaxWrites    \* bound: passwords written

ASSUME NoneAssumption == None \notin Sessions \cup Tokens \cup Rows
ASSUME MaxWritesAssumption == MaxWrites \in Nat \ {0}

VARIABLES
    cred,      \* password in each credential row, 0 when there is no row
    writes,    \* passwords written so far
    token,     \* "unused", "active", "expired" or "consumed", for each reset token
    opened,    \* password each session was opened with, 0 when it has no row
    pc, op,
    tok,       \* reset token presented
    row,       \* credential row found by rotate_password
    ver,       \* password that the login verified, or the change wrote
    sid        \* session that asks for the change

\* History, read by properties only.
VARIABLES
    late,      \* sessions opened with a password that had been replaced by then
    cut,       \* a rotation wrote the password and did not kill the sessions
    closed,    \* tokens issued before a reset consumed its token and the siblings
    dead,      \* the reset was let in with a token of closed
    founding   \* the user had a credential row from the start

locals == <<op, tok, row, ver, sid, dead>>
db == <<cred, writes, token, opened>>
past == <<late, cut, closed, founding>>
vars == <<db, pc, locals, past>>

Current == {cred[c] : c \in Rows} \ {0}

\* The rows of user_sessions.
Alive == {s \in Sessions : opened[s] # 0}

\* create_user and the admin bootstrap insert the user before the credential:
\* there may be no row.
Init ==
    /\ \/ cred = [c \in Rows |-> 0] /\ writes = 0
       \/ \E c \in Rows : cred = [d \in Rows |-> IF d = c THEN 1 ELSE 0] /\ writes = 1
    /\ token = [t \in Tokens |-> "unused"]
    /\ opened = [s \in Sessions |-> 0]
    /\ pc = [r \in Requests |-> "idle"] /\ op = [r \in Requests |-> "none"]
    /\ tok = [r \in Requests |-> None] /\ row = [r \in Requests |-> None]
    /\ ver = [r \in Requests |-> 0] /\ sid = [r \in Requests |-> None]
    /\ late = {} /\ cut = FALSE /\ closed = {}
    /\ dead = [r \in Requests |-> FALSE]
    /\ founding = (writes = 1)

Goto(r, label) == pc' = [pc EXCEPT ![r] = label]

Proceed(r, label) == Goto(r, label) /\ UNCHANGED locals

End(r) ==
    /\ Goto(r, "idle")
    /\ op' = [op EXCEPT ![r] = "none"]
    /\ tok' = [tok EXCEPT ![r] = None] /\ row' = [row EXCEPT ![r] = None]
    /\ ver' = [ver EXCEPT ![r] = 0] /\ sid' = [sid EXCEPT ![r] = None]
    /\ dead' = [dead EXCEPT ![r] = FALSE]

-----------------------------------------------------------------------------
(* POST /login.                                                            *)

\* Mutant: the dummy hash counts as a credential.
Authenticate_Dummy(r) ==
    /\ pc[r] = "idle"
    /\ \E c \in Rows : ver' = [ver EXCEPT ![r] = cred[c]]
    /\ op' = [op EXCEPT ![r] = "login"] /\ Goto(r, "insert")
    /\ UNCHANGED <<db, tok, row, sid, dead, past>>

\* The credential row is read and verified: which of two rows, SELECT ... LIMIT 1
\* does not say.  Without a row the dummy hash is verified and the login refused.
Authenticate(r) ==
    /\ pc[r] = "idle"
    /\ \E c \in Rows : cred[c] # 0 /\ ver' = [ver EXCEPT ![r] = cred[c]]
    /\ op' = [op EXCEPT ![r] = "login"] /\ Goto(r, "insert")
    /\ UNCHANGED <<db, tok, row, sid, dead, past>>

\* The id of a row that is gone, and that no request holds, stands for a new one.
CreateSession(r, s) ==
    /\ pc[r] = "insert" /\ s \notin Alive /\ \A q \in Requests : sid[q] # s
    /\ opened' = [opened EXCEPT ![s] = ver[r]]
    /\ late' = IF ver[r] \in Current THEN late ELSE late \cup {s}
    /\ End(r)
    /\ UNCHANGED <<cred, writes, token, cut, closed, founding>>

-----------------------------------------------------------------------------
(* POST /forgot-password and POST /reset-password.                         *)

RequestReset(t) ==
    /\ token[t] = "unused"
    /\ token' = [token EXCEPT ![t] = "active"]
    /\ UNCHANGED <<cred, writes, opened, pc, locals, past>>

\* The token is looked up; one that is consumed or expired is refused.
FindToken(r, t) ==
    /\ pc[r] = "idle" /\ token[t] = "active"
    /\ op' = [op EXCEPT ![r] = "reset"] /\ tok' = [tok EXCEPT ![r] = t]
    /\ dead' = [dead EXCEPT ![r] = t \in closed]
    /\ Goto(r, "find")
    /\ UNCHANGED <<db, row, ver, sid, past>>

MarkConsumed(r) ==
    /\ pc[r] = "mark"
    /\ token' = [token EXCEPT ![tok[r]] = "consumed"]
    /\ Proceed(r, "siblings")
    /\ UNCHANGED <<cred, writes, opened, past>>

\* Mutant: the other tokens stay usable.
ConsumeSiblings_None(r) ==
    /\ pc[r] = "siblings"
    /\ closed' = closed \cup {t \in Tokens : token[t] # "unused"}
    /\ Proceed(r, "kill")
    /\ UNCHANGED <<db, late, cut, founding>>

ConsumeSiblings(r) ==
    /\ pc[r] = "siblings"
    /\ token' = [t \in Tokens |->
           IF t # tok[r] /\ token[t] # "unused" THEN "consumed" ELSE token[t]]
    /\ closed' = closed \cup {t \in Tokens : token[t] # "unused"}
    /\ Proceed(r, "kill")
    /\ UNCHANGED <<cred, writes, opened, late, cut, founding>>

-----------------------------------------------------------------------------
(* POST /change-password from session s, and the password of               *)
(* PATCH /admin/users/{id}.                                                *)

\* The session was accepted and the old password verified.
BeginChange(r, s) ==
    /\ pc[r] = "idle" /\ s \in Alive /\ Current # {}
    /\ op' = [op EXCEPT ![r] = "change"] /\ sid' = [sid EXCEPT ![r] = s]
    /\ Goto(r, "find")
    /\ UNCHANGED <<db, tok, row, ver, dead, past>>

BeginSet(r) ==
    /\ pc[r] = "idle"
    /\ op' = [op EXCEPT ![r] = "set"] /\ Goto(r, "find")
    /\ UNCHANGED <<db, tok, row, ver, sid, dead, past>>

-----------------------------------------------------------------------------
(* rotate_password: a SELECT, then an UPDATE of the row or an INSERT.      *)

\* Mutant: an existing row is not looked for.
FindRow_Blind(r) == pc[r] = "find" /\ Proceed(r, "write") /\ UNCHANGED <<db, past>>

FindRow(r) ==
    /\ pc[r] = "find"
    /\ \/ /\ Current = {} /\ UNCHANGED row
       \/ \E c \in Rows : cred[c] # 0 /\ row' = [row EXCEPT ![r] = c]
    /\ Goto(r, "write")
    /\ UNCHANGED <<db, op, tok, ver, sid, dead, past>>

Target(r) == IF row[r] = None THEN {c \in Rows : cred[c] = 0} ELSE {row[r]}

\* Mutant: the admin endpoint leaves the sessions alone.
Write_AdminKeeps(r) ==
    /\ pc[r] = "write" /\ writes < MaxWrites
    /\ writes' = writes + 1
    /\ \E c \in Target(r) : cred' = [cred EXCEPT ![c] = writes + 1]
    /\ IF op[r] = "set" THEN End(r)
       ELSE Proceed(r, IF op[r] = "reset" THEN "mark" ELSE "kill")
    /\ UNCHANGED <<token, opened, past>>

Write(r) ==
    /\ pc[r] = "write" /\ writes < MaxWrites
    /\ writes' = writes + 1
    /\ \E c \in Target(r) : cred' = [cred EXCEPT ![c] = writes + 1]
    /\ ver' = [ver EXCEPT ![r] = IF op[r] = "change" THEN writes + 1 ELSE 0]
    /\ row' = [row EXCEPT ![r] = None]
    /\ Goto(r, IF op[r] = "reset" THEN "mark" ELSE "kill")
    /\ UNCHANGED <<token, opened, op, tok, sid, dead, past>>

\* DELETE of all sessions, or of all but the one that asked for the change:
\* that one goes on under the newest password its user has chosen there.
Kill(r) ==
    /\ pc[r] = "kill"
    /\ opened' = [s \in Sessions |->
           IF s \notin Alive \cap {sid[r]} THEN 0
           ELSE IF ver[r] > opened[s] THEN ver[r] ELSE opened[s]]
    /\ late' = late \cap {sid[r]}
    /\ End(r)
    /\ UNCHANGED <<cred, writes, token, cut, closed, founding>>

\* A DEL fails: the bulk delete refuses to touch the rows.  A reset or a change
\* answers 500, the admin endpoint drops the error.
KillRefused(r) ==
    /\ pc[r] = "kill" /\ Alive \ {sid[r]} # {}
    /\ cut' = TRUE /\ End(r)
    /\ UNCHANGED <<db, late, closed, founding>>

\* A statement fails, the process stops, or the client closes the connection.
Abort(r) ==
    /\ pc[r] # "idle"
    /\ cut' = (cut \/ pc[r] \in {"mark", "siblings", "kill"})
    /\ End(r)
    /\ UNCHANGED <<db, late, closed, founding>>

Expire(t) ==
    /\ token[t] = "active"
    /\ token' = [token EXCEPT ![t] = "expired"]
    /\ UNCHANGED <<cred, writes, opened, pc, locals, past>>

Next ==
    \/ \E t \in Tokens : RequestReset(t) \/ Expire(t)
    \/ \E r \in Requests :
         \/ Authenticate(r) \/ MarkConsumed(r) \/ ConsumeSiblings(r)
         \/ BeginSet(r) \/ FindRow(r) \/ Write(r) \/ Kill(r) \/ KillRefused(r) \/ Abort(r)
         \/ \E s \in Sessions : CreateSession(r, s) \/ BeginChange(r, s)
         \/ \E t \in Tokens : FindToken(r, t)

Spec == Init /\ [][Next]_vars

-----------------------------------------------------------------------------
Rotating(r) == pc[r] \in {"mark", "siblings", "kill"}

\* Types; a login has verified a password that was really stored, and a reset
\* holds its token.
TypeOK ==
    /\ cred \in [Rows -> 0..writes] /\ writes \in 0..MaxWrites
    /\ token \in [Tokens -> {"unused", "active", "expired", "consumed"}]
    /\ opened \in [Sessions -> 0..writes] /\ late \subseteq Sessions
    /\ pc \in [Requests -> {"idle", "insert", "find", "write", "mark", "siblings", "kill"}]
    /\ op \in [Requests -> {"none", "login", "reset", "change", "set"}]
    /\ tok \in [Requests -> Tokens \cup {None}] /\ row \in [Requests -> Rows \cup {None}]
    /\ ver \in [Requests -> 0..writes] /\ sid \in [Requests -> Sessions \cup {None}]
    /\ cut \in BOOLEAN /\ closed \subseteq Tokens
    /\ dead \in [Requests -> BOOLEAN] /\ founding \in BOOLEAN
    /\ \A r \in Requests : /\ op[r] = "reset" => tok[r] # None
                           /\ op[r] = "login" => ver[r] > 0

\* "every other session of that user is killed" (password/flow.rs:95): when no
\* rotation is between its write and its kill, and none was cut short there, a
\* session opened with a password that no longer opens the account is one whose
\* login verified that password before the write and inserted the session after.
RotationEndsSessions ==
    (~cut /\ \A r \in Requests : ~Rotating(r)) =>
        \A s \in Alive : opened[s] \in Current \/ s \in late

\* "Invalidate every other unused reset token for this user" (password/flow.rs:123):
\* a reset that presents a token issued before another reset had consumed its
\* token and the siblings is refused.
DeadTokensRefused == \A r \in Requests : ~dead[r]

\* A user who had a credential row keeps exactly one, and only the password that
\* was written last opens the account, however rotations interleave.
LastPasswordOnly == founding => Current = {writes}
=============================================================================
