------------------------------ MODULE Accounts ------------------------------
(***************************************************************************)
(* Accounts: sign-up, e-mail verification and the admin's create, update   *)
(* and delete of users and of their role.                                  *)
(*                                                                         *)
(* Sign-up is one transaction, which looks the default role up on a second *)
(* connection of the pool while it holds the first.  create_user is three  *)
(* statements that commit one by one.  update_user reads the row and       *)
(* writes all of it back; the sessions that it ends are in Sessions.       *)
(***************************************************************************)
EXTENDS Naturals, FiniteSets

CONSTANTS
    Requests,
    Idents,     \* pairs <<email, username>>
    PoolSize    \* max_connections

VARIABLES
    users,      \* idents with a row
    verified,   \* email_verified
    creds,      \* with a credential
    roles,      \* with the role "user"
    token,      \* email_verifications: "none", "live", "consumed", "expired"
    at,         \* of each request: next step
    who,        \* ident that the request works on
    flag,       \* email_verified to be written, or whether the role was inserted
    held        \* the row that the request read or inserted has not been deleted

\* History, read by properties only.
VARIABLES
    partial,    \* create_user ended between its statements, or dropped an error
    starving,   \* requests whose lookup of the role failed
    roleless,   \* accounts of such a request, or whose role an admin revoked
    unset,      \* an admin took email_verified back
    overwritten \* a stale email_verified was written back

db == <<users, verified, creds, roles, token>>
local == <<at, who, flag, held>>
past == <<partial, starving, roleless, unset, overwritten>>
vars == <<db, local, past>>

Clash(i, j) == i[1] = j[1] \/ i[2] = j[2]

\* Uniqueness of email and of username, against the rows that are committed.
Taken(i) == \E j \in users : Clash(i, j)

\* Steps inside a transaction; the first has not sent its INSERT yet.
InTx == {"check", "insert", "credential", "findRole", "role", "token", "commit", "verify"}
Inserted == {"credential", "findRole", "role", "token", "commit"}

\* Statements that take a connection for themselves.
Single == {"persist", "persistCredential", "assignRole", "write", "writeBack"}

Connections == Cardinality({r \in Requests : at[r] \in InTx})

\* The pool has a connection to give.
Available == Connections < PoolSize

Init ==
    /\ users = {} /\ verified = {} /\ creds = {} /\ roles = {}
    /\ token = [i \in Idents |-> "none"]
    /\ at = [r \in Requests |-> "idle"] /\ flag = [r \in Requests |-> FALSE]
    /\ held = [r \in Requests |-> FALSE]
    /\ who = [r \in Requests |-> CHOOSE i \in Idents : TRUE]
    /\ partial = {} /\ starving = {} /\ roleless = {} /\ unset = {} /\ overwritten = {}

Goto(r, label) == at' = [at EXCEPT ![r] = label] /\ UNCHANGED <<who, flag, held>>

\* The handler returns; a transaction that has not committed is rolled back.
End(r) == at' = [at EXCEPT ![r] = "idle"] /\ held' = [held EXCEPT ![r] = FALSE]
          /\ flag' = [flag EXCEPT ![r] = FALSE] /\ UNCHANGED who

\* A handler starts, on ident i, with row = TRUE when it has read the row of i.
Begins(r, label, i, f, row) ==
    /\ at[r] = "idle"
    /\ at' = [at EXCEPT ![r] = label] /\ who' = [who EXCEPT ![r] = i]
    /\ flag' = [flag EXCEPT ![r] = f] /\ held' = [held EXCEPT ![r] = row]
    /\ UNCHANGED <<db, past>>

-----------------------------------------------------------------------------
(* SignupFlow::signup *)

BeginSignup(r) == \E i \in Idents : Begins(r, "begin", i, FALSE, FALSE)

BeginTx(r) ==
    /\ at[r] = "begin" /\ Available
    /\ Goto(r, "check")
    /\ UNCHANGED <<db, past>>

CheckTaken(r) ==
    /\ at[r] = "check"
    /\ IF Taken(who[r]) THEN End(r) ELSE Goto(r, "insert")
    /\ UNCHANGED <<db, past>>

\* The row that another transaction has inserted and not committed makes an INSERT
\* of the same email or username wait.
Unlocked(i) == \A q \in Requests : at[q] \in Inserted => ~Clash(i, who[q])

InsertUser(r) ==
    /\ at[r] = "insert" /\ Unlocked(who[r])
    /\ IF Taken(who[r]) THEN End(r) ELSE Goto(r, "credential")
    /\ UNCHANGED <<db, past>>

InsertCredential(r) ==
    /\ at[r] = "credential"
    /\ Goto(r, "findRole")
    /\ UNCHANGED <<db, past>>

\* On another connection of the pool; any error of it is dropped.
FindRole(r) ==
    /\ at[r] = "findRole" /\ Available
    /\ \/ Goto(r, "role") /\ UNCHANGED starving
       \/ Goto(r, "token") /\ starving' = starving \cup {r}
    /\ UNCHANGED <<db, partial, roleless, unset, overwritten>>

\* Mutant: the INSERT is not sent.
InsertRole_Skipped(r) ==
    /\ at[r] = "role" /\ Goto(r, "token")
    /\ UNCHANGED <<db, past>>

\* An error here fails the transaction, and with it the next INSERT.
InsertRole(r) ==
    /\ at[r] = "role"
    /\ at' = [at EXCEPT ![r] = "token"] /\ flag' = [flag EXCEPT ![r] = TRUE]
    /\ UNCHANGED <<db, who, held, past>>

\* Mutant: no limit on the wait for a connection.
AcquireTimeout_Never(r) == FALSE /\ at[r] = "begin" /\ UNCHANGED vars

\* Waiting for a connection is given up: the request fails, unless it was the lookup
\* of the role.
AcquireTimeout(r) ==
    /\ ~Available
    /\ \/ at[r] \in Single \cup {"begin", "beginVerify"} /\ End(r) /\ UNCHANGED starving
       \/ at[r] = "findRole" /\ Goto(r, "token") /\ starving' = starving \cup {r}
    /\ UNCHANGED <<db, partial, roleless, unset, overwritten>>

InsertToken(r) ==
    /\ at[r] = "token"
    /\ Goto(r, "commit")
    /\ UNCHANGED <<db, past>>

Commit(r) ==
    /\ at[r] = "commit" /\ End(r)
    /\ users' = users \cup {who[r]} /\ creds' = creds \cup {who[r]} /\ UNCHANGED verified
    /\ roles' = IF flag[r] THEN roles \cup {who[r]} ELSE roles
    /\ token' = [token EXCEPT ![who[r]] = "live"]
    /\ roleless' = IF r \in starving THEN roleless \cup {who[r]} ELSE roleless
    /\ starving' = starving \ {r}
    /\ UNCHANGED <<partial, unset, overwritten>>

-----------------------------------------------------------------------------
(* SignupFlow::verify_email *)

BeginVerify(r) ==
    \E i \in Idents : token[i] = "live" /\ Begins(r, "beginVerify", i, FALSE, TRUE)

BeginVerifyTx(r) ==
    /\ at[r] = "beginVerify" /\ Available
    /\ Goto(r, "verify")
    /\ UNCHANGED <<db, past>>

\* Mutant: the token is marked and the account is not.
Verify_TokenOnly(r) ==
    /\ at[r] = "verify" /\ End(r)
    /\ IF held[r] THEN token' = [token EXCEPT ![who[r]] = "consumed"] ELSE UNCHANGED token
    /\ UNCHANGED <<users, verified, creds, roles, past>>

\* Both UPDATEs and the COMMIT; whether the token is still unused is not looked at.
Verify(r) ==
    /\ at[r] = "verify" /\ End(r)
    /\ IF held[r]
         THEN /\ verified' = verified \cup {who[r]}
              /\ token' = [token EXCEPT ![who[r]] = "consumed"]
         ELSE UNCHANGED <<verified, token>>
    /\ UNCHANGED <<users, creds, roles, past>>

-----------------------------------------------------------------------------
(* The admin's handlers. *)

\* find_by_email and find_by_username.
BeginCreate(r) ==
    \E i \in Idents, ev \in BOOLEAN : ~Taken(i) /\ Begins(r, "persist", i, ev, FALSE)

\* persist; until the credential and the role are there the account is partial.
Persist(r) ==
    /\ at[r] = "persist" /\ Available /\ Unlocked(who[r])
    /\ IF Taken(who[r]) THEN End(r) /\ UNCHANGED <<users, verified, partial>>
       ELSE /\ users' = users \cup {who[r]} /\ partial' = partial \cup {who[r]}
            /\ verified' = IF flag[r] THEN verified \cup {who[r]} ELSE verified
            /\ at' = [at EXCEPT ![r] = "persistCredential"]
            /\ held' = [held EXCEPT ![r] = TRUE] /\ UNCHANGED <<who, flag>>
    /\ UNCHANGED <<creds, roles, token, starving, roleless, unset, overwritten>>

\* The foreign key refuses it when the account was deleted meanwhile.
PersistCredential(r) ==
    /\ at[r] = "persistCredential" /\ Available
    /\ IF held[r] THEN creds' = creds \cup {who[r]} /\ Goto(r, "assignRole")
       ELSE End(r) /\ UNCHANGED creds
    /\ UNCHANGED <<users, verified, roles, token, past>>

\* An error of assign_to_user is dropped.
AssignRole(r) ==
    /\ at[r] = "assignRole" /\ Available /\ End(r)
    /\ \/ /\ held[r]
          /\ roles' = roles \cup {who[r]} /\ partial' = partial \ {who[r]}
       \/ UNCHANGED <<roles, partial>>
    /\ UNCHANGED <<users, verified, creds, token, starving, roleless, unset, overwritten>>

\* update_user reads the row; the body sets email_verified or leaves it as read.
BeginUpdate(r) ==
    \E i \in users :
        \/ Begins(r, "writeBack", i, i \in verified, TRUE)
        \/ \E ev \in BOOLEAN : Begins(r, "write", i, ev, TRUE)

\* users.update, of the row if it is still there.
Update(r) ==
    /\ at[r] \in {"write", "writeBack"} /\ Available /\ End(r)
    /\ LET i == {who[r]} IN
           \/ ~held[r] /\ UNCHANGED <<verified, unset, overwritten>>
           \/ held[r] /\ flag[r] /\ verified' = verified \cup i /\ UNCHANGED <<unset, overwritten>>
           \/ /\ held[r] /\ ~flag[r] /\ verified' = verified \ i
              /\ unset' = IF at[r] = "write" THEN unset \cup i ELSE unset
              /\ overwritten' = IF at[r] = "writeBack" /\ i \subseteq verified
                                  THEN overwritten \cup i ELSE overwritten
    /\ UNCHANGED <<users, creds, roles, token, partial, starving, roleless>>

\* Mutant: the verification tokens stay.
Delete_KeepsToken(i) ==
    /\ i \in users /\ Available
    /\ users' = users \ {i} /\ verified' = verified \ {i}
    /\ creds' = creds \ {i} /\ roles' = roles \ {i}
    /\ partial' = partial \ {i} /\ roleless' = roleless \ {i}
    /\ unset' = unset \ {i} /\ overwritten' = overwritten \ {i}
    /\ held' = [r \in Requests |-> held[r] /\ who[r] # i]
    /\ UNCHANGED <<token, at, who, flag, starving>>

\* The rows of the account go with it.
Delete(i) ==
    /\ i \in users /\ Available
    /\ users' = users \ {i} /\ verified' = verified \ {i}
    /\ creds' = creds \ {i} /\ roles' = roles \ {i}
    /\ token' = [token EXCEPT ![i] = "none"]
    /\ partial' = partial \ {i} /\ roleless' = roleless \ {i}
    /\ unset' = unset \ {i} /\ overwritten' = overwritten \ {i}
    /\ held' = [r \in Requests |-> held[r] /\ who[r] # i]
    /\ UNCHANGED <<at, who, flag, starving>>

\* assign_role and revoke_role, for "user"; what they read before the INSERT or the
\* DELETE only decides whether it is sent.
AssignRoleTo(i) ==
    /\ i \in users /\ Available
    /\ roles' = roles \cup {i} /\ roleless' = roleless \ {i}
    /\ UNCHANGED <<users, verified, creds, token, local, partial, starving, unset, overwritten>>

RevokeRole(i) ==
    /\ i \in roles /\ Available
    /\ roles' = roles \ {i} /\ roleless' = roleless \cup {i}
    /\ UNCHANGED <<users, verified, creds, token, local, partial, starving, unset, overwritten>>

-----------------------------------------------------------------------------
Expire(i) ==
    /\ token[i] = "live"
    /\ token' = [token EXCEPT ![i] = "expired"]
    /\ UNCHANGED <<users, verified, creds, roles, local, past>>

\* The handler's future is dropped, or a statement fails.
Abort(r) ==
    /\ at[r] # "idle" /\ End(r)
    /\ starving' = starving \ {r}
    /\ UNCHANGED <<db, partial, roleless, unset, overwritten>>

Begin(r) == BeginSignup(r) \/ BeginVerify(r) \/ BeginCreate(r) \/ BeginUpdate(r)

Step(r) ==
    \/ BeginTx(r) \/ CheckTaken(r) \/ InsertUser(r) \/ InsertCredential(r) \/ FindRole(r)
    \/ InsertRole(r) \/ AcquireTimeout(r) \/ InsertToken(r) \/ Commit(r)
    \/ BeginVerifyTx(r) \/ Verify(r)
    \/ Persist(r) \/ PersistCredential(r) \/ AssignRole(r) \/ Update(r)

Next ==
    \/ \E r \in Requests : Begin(r) \/ Step(r) \/ Abort(r)
    \/ \E i \in Idents : Delete(i) \/ AssignRoleTo(i) \/ RevokeRole(i) \/ Expire(i)

\* A handler runs on; a connection that is waited for comes or the wait is given up, and
\* an INSERT that waits for another transaction is next when that one ends.
Fairness ==
    \A r \in Requests : WF_vars(Step(r)) /\ SF_vars(InsertUser(r) \/ Persist(r))

Spec == Init /\ [][Next]_vars /\ Fairness

-----------------------------------------------------------------------------
Labels ==
    {"idle", "begin", "check", "insert", "credential", "findRole", "role", "token", "commit",
     "beginVerify", "verify", "persist", "persistCredential", "assignRole", "write",
     "writeBack"}

\* Types; what belongs to an account goes with it, and only sign-ups look up a role.
TypeOK ==
    /\ users \subseteq Idents
    /\ verified \cup creds \cup roles \subseteq users
    /\ \A i \in Idents : token[i] # "none" => i \in users
    /\ token \in [Idents -> {"none", "live", "consumed", "expired"}]
    /\ at \in [Requests -> Labels]
    /\ who \in [Requests -> Idents]
    /\ flag \in [Requests -> BOOLEAN] /\ held \in [Requests -> BOOLEAN]
    /\ partial \cup roleless \cup unset \cup overwritten \subseteq Idents
    /\ starving \subseteq Requests
    /\ \A r \in Requests : held[r] => who[r] \in users
    /\ \A r \in starving : at[r] \in {"token", "commit"}

\* "Postgres' unique constraints on `email`/`username` close the TOCTOU window"
\* (signup/flow.rs:11): however sign-ups and create_user race, no two accounts share an
\* email or a username.
AccountsUnique == \A i, j \in users : i # j => ~Clash(i, j)

\* The steps of sign-up are one transaction, and it ends with "assign default "user"
\* role (if seeded)" (signup/flow.rs:8): an account has its credential and its role,
\* except that the role is missing where an admin revoked it or its lookup failed, as
\* it does when the pool is exhausted, and that create_user is not atomic.
AccountsComplete ==
    \A i \in users \ partial : i \in creds /\ (i \in roles \/ i \in roleless)

\* A verification token is spent on something: once it is consumed the account is
\* verified, unless an admin took that back or an update_user that had read the row
\* before wrote the old value over it.
ConsumedMeansVerified ==
    \A i \in Idents : token[i] = "consumed" =>
        i \in verified \/ i \in unset \/ i \in overwritten

\* Sign-ups that hold all connections and each wait for one more do not wait for ever:
\* every request ends.
RequestsEnd == \A r \in Requests : []<>(at[r] = "idle")
=============================================================================
