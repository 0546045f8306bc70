------------------------------ MODULE Bootstrap ------------------------------
(***************************************************************************)
(* The startup seeders.  main() awaits them one after the other before it  *)
(* binds the HTTP server; an error ends the process, and the orchestrator  *)
(* starts it again.  Several replicas start at the same time.              *)
(*                                                                         *)
(* Each seeder opens a transaction, takes the advisory lock and commits,   *)
(* and only then runs its SELECTs and INSERTs, on other connections.  Every*)
(* row but the credential is under a unique constraint.  users has one more*)
(* on username, which only an account that is not the seeder's could break:*)
(* such accounts, and deletions of seeded rows, are left out.              *)
(*                                                                         *)
(* Clients are looked up in Redis first.  What it holds of service-client  *)
(* decides whether a replica migrates the secret, so the entry is modelled,*)
(* with the requests that fill and delete it meanwhile; what it holds of   *)
(* web-app says no more than that the row is there, as nothing here deletes*)
(* a client.                                                               *)
(***************************************************************************)
EXTENDS Naturals

CONSTANTS
    Replicas,
    None,        \* nobody holds the advisory lock
    MaxCrashes   \* bound: processes killed

ASSUME NoneAssumption == None \notin Replicas
ASSUME MaxCrashesAssumption == MaxCrashes \in Nat

Items == {"user", "admin", "account", "web-app", "service-client"}

VARIABLES
    rows,      \* items whose row exists
    parent,    \* admin.parent_id is set
    creds,     \* credential rows of the admin account
    assigned,  \* the account has the admin role
    secret,    \* of service-client: "none", "plain", "seeded" or "rotated"
    cached,    \* form of the secret under client:service-client in Redis, or "none"
    holder,    \* of the advisory lock
    pc, item,  \* item being looked for, or inserted
    seen,      \* form of the secret that the replica has read and works on, or "none"
    edit,      \* secret that the admin's update_client read; "idle", "written"
    lookup,    \* form that a request served meanwhile read and is to store, or "idle"
    crashes

\* History, read by properties only.
VARIABLES
    orphaned,  \* a process died between the account and its credential
    dropped,   \* set_parent failed and the error was dropped
    beaten,    \* another replica inserted the item that this one saw missing
    reverted   \* an edit wrote back a secret that had changed since it was read

db == <<rows, parent, creds, assigned, secret>>
traffic == <<edit, lookup, reverted>>
past == <<orphaned, dropped, beaten>>
vars == <<db, cached, holder, pc, item, seen, crashes, past, traffic>>

\* What a seeder asks of a secret: is it the literal bootstrap secret?
Form(s) == IF s = "plain" THEN "plain" ELSE "hash"

\* An empty database, or one from before secrets were hashed.
Init ==
    /\ \/ /\ rows = {} /\ creds = 0 /\ assigned = FALSE
          /\ secret = "none" /\ cached = "none"
       \/ /\ rows = Items /\ creds = 1 /\ assigned = TRUE
          /\ secret = "plain" /\ cached \in {"none", "plain"}
    /\ parent = FALSE /\ holder = None
    /\ pc = [p \in Replicas |-> "lock"] /\ item = [p \in Replicas |-> "user"]
    /\ seen = [p \in Replicas |-> "none"] /\ edit = "idle" /\ lookup = "idle" /\ crashes = 0
    /\ orphaned = FALSE /\ dropped = FALSE /\ reverted = FALSE
    /\ beaten = [p \in Replicas |-> FALSE]

Goto(p, label) == pc' = [pc EXCEPT ![p] = label] /\ UNCHANGED item

Look(p, label, x) == pc' = [pc EXCEPT ![p] = label] /\ item' = [item EXCEPT ![p] = x]

\* Where a replica goes once the item it looked for is there.
Onward(p) ==
    CASE item[p] = "user"           -> Look(p, "find", "admin")
      [] item[p] = "admin"          -> Goto(p, "parent")
      [] item[p] = "account"        -> Goto(p, "role")
      [] item[p] = "web-app"        -> Look(p, "find", "service-client")
      [] item[p] = "service-client" -> Goto(p, "up")

-----------------------------------------------------------------------------
Acquire(p) ==
    /\ pc[p] = "lock" /\ holder = None
    /\ holder' = p /\ Goto(p, "locked")
    /\ UNCHANGED <<db, cached, seen, crashes, past, traffic>>

Commit(p) ==
    /\ pc[p] = "locked"
    /\ holder' = None /\ Goto(p, "find")
    /\ UNCHANGED <<db, cached, seen, crashes, past, traffic>>

\* Mutant: a row that exists is not noticed.
Find_Blind(p) ==
    /\ pc[p] = "find" /\ item[p] # "service-client"
    /\ Goto(p, "insert")
    /\ beaten' = [beaten EXCEPT ![p] = FALSE]
    /\ UNCHANGED <<db, cached, holder, seen, crashes, orphaned, dropped, traffic>>

\* The SELECT of an item other than service-client.
Find(p) ==
    /\ pc[p] = "find" /\ item[p] # "service-client"
    /\ IF item[p] \in rows THEN Onward(p) ELSE Goto(p, "insert")
    /\ beaten' = [beaten EXCEPT ![p] = FALSE]
    /\ UNCHANGED <<db, cached, holder, seen, crashes, orphaned, dropped, traffic>>

\* find_by_client_id: GET.  An entry decides; Redis not answering is a miss.
ReadCache(p) ==
    /\ pc[p] = "find" /\ item[p] = "service-client"
    /\ \/ cached = "plain" /\ seen' = [seen EXCEPT ![p] = "plain"] /\ Goto(p, "migrate")
       \/ cached = "hash" /\ Onward(p) /\ UNCHANGED seen
       \/ Goto(p, "select") /\ UNCHANGED seen
    /\ UNCHANGED <<db, cached, holder, crashes, past, traffic>>

\* The SELECT that follows a miss (and that of the redirect URIs, of which it has none).
ReadRow(p) ==
    /\ pc[p] = "select"
    /\ IF item[p] \in rows
         THEN Goto(p, "fill") /\ seen' = [seen EXCEPT ![p] = Form(secret)]
         ELSE Goto(p, "insert") /\ UNCHANGED seen
    /\ beaten' = [beaten EXCEPT ![p] = FALSE]
    /\ UNCHANGED <<db, cached, holder, crashes, orphaned, dropped, traffic>>

\* Mutant: every start that finds the row stores the bootstrap secret.
PopulateCache_AlwaysMigrates(p) ==
    /\ pc[p] = "fill"
    /\ cached' \in {cached, seen[p]}
    /\ Goto(p, "migrate")
    /\ UNCHANGED <<db, seen, holder, crashes, past, traffic>>

\* SETEX of what was read, best effort; then the comparison with the literal secret.
PopulateCache(p) ==
    /\ pc[p] = "fill"
    /\ cached' \in {cached, seen[p]}
    /\ IF seen[p] = "plain" THEN Goto(p, "migrate") /\ UNCHANGED seen
       ELSE Onward(p) /\ seen' = [seen EXCEPT ![p] = "none"]
    /\ UNCHANGED <<db, holder, crashes, past, traffic>>

\* Where an INSERT leads: to the credential, to the DEL at the end of persist, or on.
Inserted(p) ==
    CASE item[p] = "account"        -> Goto(p, "credential")
      [] item[p] = "service-client" -> Goto(p, "invalidate")
      [] OTHER                      -> Onward(p)

\* Mutant: an INSERT that was refused is tried again.
Insert_Retries(p) ==
    /\ pc[p] = "insert" /\ item[p] \notin rows
    /\ rows' = rows \cup {item[p]}
    /\ secret' = IF item[p] = "service-client" THEN "seeded" ELSE secret
    /\ Inserted(p)
    /\ UNCHANGED <<parent, creds, assigned, cached, holder, seen, crashes, past, traffic>>

\* The INSERT, which the unique constraint refuses when the row is there.
Insert(p) ==
    /\ pc[p] = "insert"
    /\ IF item[p] \in rows
         THEN Goto(p, "failed") /\ UNCHANGED <<rows, secret, beaten>>
         ELSE /\ rows' = rows \cup {item[p]}
              /\ secret' = IF item[p] = "service-client" THEN "seeded" ELSE secret
              /\ beaten' = [q \in Replicas |->
                     beaten[q] \/ (q # p /\ pc[q] = "insert" /\ item[q] = item[p])]
              /\ Inserted(p)
    /\ UNCHANGED <<parent, creds, assigned, cached, holder, seen, crashes, orphaned, dropped,
                   traffic>>

\* The edge admin -> user, wired when admin has no parent; the result of
\* set_parent is dropped.
WireParent(p) ==
    /\ pc[p] = "parent"
    /\ \/ parent' = TRUE /\ UNCHANGED dropped
       \/ ~parent /\ dropped' = TRUE /\ UNCHANGED parent
    /\ Look(p, "lock", "account")
    /\ UNCHANGED <<rows, creds, assigned, secret, cached, holder, seen, crashes, orphaned, beaten,
                   traffic>>

\* Mutant: the credential is left to the role step, which forgets it.
PersistCredential_Forgotten(p) ==
    /\ pc[p] = "credential" /\ Onward(p)
    /\ UNCHANGED <<db, cached, holder, seen, crashes, past, traffic>>

PersistCredential(p) ==
    /\ pc[p] = "credential"
    /\ creds' = creds + 1 /\ Onward(p)
    /\ UNCHANGED <<rows, parent, assigned, secret, cached, holder, seen, crashes, past, traffic>>

\* find_by_name("admin") and is_assigned, then INSERT ... ON CONFLICT DO NOTHING.
CheckRole(p) ==
    /\ pc[p] = "role"
    /\ IF "admin" \notin rows THEN Goto(p, "failed")
       ELSE IF assigned THEN Look(p, "lock", "web-app") ELSE Goto(p, "assign")
    /\ UNCHANGED <<db, cached, holder, seen, crashes, past, traffic>>

AssignRole(p) ==
    /\ pc[p] = "assign"
    /\ assigned' = TRUE /\ Look(p, "lock", "web-app")
    /\ UNCHANGED <<rows, parent, creds, secret, cached, holder, seen, crashes, past, traffic>>

\* UPDATE of the secret by id, whatever it is by now.
MigrateSecret(p) ==
    /\ pc[p] = "migrate"
    /\ secret' = "seeded" /\ seen' = [seen EXCEPT ![p] = "none"]
    /\ Goto(p, "invalidate")
    /\ UNCHANGED <<rows, parent, creds, assigned, cached, holder, crashes, past, traffic>>

\* The DEL after the migration's UPDATE or persist's INSERT, best effort.
Invalidate(p) ==
    /\ pc[p] = "invalidate"
    /\ cached' \in {cached, "none"}
    /\ Onward(p)
    /\ UNCHANGED <<db, holder, seen, crashes, past, traffic>>

-----------------------------------------------------------------------------
(* Requests served by a replica that is up.  update_client reads the whole  *)
(* row from Postgres and writes it back, with a new secret or with the one  *)
(* that was read, one edit at a time; a lookup of the client that missed    *)
(* the entry reads the row and stores it.                                   *)

Serving == \E p \in Replicas : pc[p] = "up"
startup == <<rows, parent, creds, assigned, holder, pc, item, seen, crashes, past>>

BeginEdit ==
    /\ edit = "idle" /\ Serving
    /\ edit' = secret
    /\ UNCHANGED <<startup, secret, cached, lookup, reverted>>

\* The UPDATE; or the request is dropped before it.
EndEdit ==
    /\ edit \notin {"idle", "written"}
    /\ \/ secret' = "rotated" /\ edit' = "written" /\ UNCHANGED reverted
       \/ secret' = edit /\ edit' = "written" /\ reverted' = (reverted \/ secret # edit)
       \/ edit' = "idle" /\ UNCHANGED <<secret, reverted>>
    /\ UNCHANGED <<startup, cached, lookup>>

\* Its DEL, best effort.
InvalidateEdit ==
    /\ edit = "written" /\ edit' = "idle"
    /\ cached' \in {cached, "none"}
    /\ UNCHANGED <<startup, secret, lookup, reverted>>

BeginLookup ==
    /\ lookup = "idle" /\ Serving
    /\ lookup' = Form(secret)
    /\ UNCHANGED <<startup, secret, cached, edit, reverted>>

EndLookup ==
    /\ lookup # "idle" /\ lookup' = "idle"
    /\ cached' \in {cached, lookup}
    /\ UNCHANGED <<startup, secret, edit, reverted>>

\* The TTL of the entry runs out.
Evict ==
    /\ cached # "none" /\ cached' = "none"
    /\ UNCHANGED <<startup, secret, traffic>>

Traffic == BeginEdit \/ EndEdit \/ InvalidateEdit \/ BeginLookup \/ EndLookup \/ Evict

-----------------------------------------------------------------------------
\* The process is killed; its transaction, and the lock, end with it.
Crash(p) ==
    /\ pc[p] \notin {"failed", "down"} /\ crashes < MaxCrashes
    /\ crashes' = crashes + 1 /\ Goto(p, "down")
    /\ holder' = IF holder = p THEN None ELSE holder
    /\ orphaned' = (orphaned \/ pc[p] = "credential")
    /\ seen' = [seen EXCEPT ![p] = "none"]
    /\ UNCHANGED <<db, cached, dropped, beaten, traffic>>

\* The orchestrator starts a process that has ended.
Restart(p) ==
    /\ pc[p] \in {"failed", "down"}
    /\ Look(p, "lock", "user")
    /\ beaten' = [beaten EXCEPT ![p] = FALSE]
    /\ UNCHANGED <<db, cached, holder, seen, crashes, orphaned, dropped, traffic>>

Step(p) ==
    \/ Acquire(p) \/ Commit(p) \/ Find(p) \/ Insert(p) \/ WireParent(p)
    \/ PersistCredential(p) \/ CheckRole(p) \/ AssignRole(p)
    \/ ReadCache(p) \/ ReadRow(p) \/ PopulateCache(p) \/ MigrateSecret(p) \/ Invalidate(p)
    \/ Restart(p)

Next == Traffic \/ \E p \in Replicas : Step(p) \/ Crash(p)

\* A process runs until it is up or ends, and is started again when it ended.
\* Replicas that keep asking for a free lock all get it.
Fairness == \A p \in Replicas : WF_vars(Step(p)) /\ SF_vars(Acquire(p))

Spec == Init /\ [][Next]_vars /\ Fairness

-----------------------------------------------------------------------------
Labels == {"lock", "locked", "find", "insert", "parent", "credential", "role", "assign",
           "select", "fill", "migrate", "invalidate", "up", "failed", "down"}
Secrets == {"none", "plain", "seeded", "rotated"}
Forms == {"plain", "hash"}

\* Types; the lock is only held by a replica inside its empty transaction, and
\* the account has at most one credential.
TypeOK ==
    /\ rows \subseteq Items /\ parent \in BOOLEAN /\ creds \in 0..1 /\ assigned \in BOOLEAN
    /\ secret \in Secrets /\ cached \in Forms \cup {"none"}
    /\ seen \in [Replicas -> Forms \cup {"none"}]
    /\ edit \in Secrets \cup {"idle", "written"} /\ lookup \in Forms \cup {"idle"}
    /\ holder \in Replicas \cup {None} /\ (holder # None => pc[holder] = "locked")
    /\ pc \in [Replicas -> Labels]
    /\ item \in [Replicas -> Items] /\ crashes \in 0..MaxCrashes
    /\ beaten \in [Replicas -> BOOLEAN]
    /\ orphaned \in BOOLEAN /\ dropped \in BOOLEAN /\ reverted \in BOOLEAN

\* "Idempotent startup seeders" (README.md:102): a replica serves requests only
\* when all that the seeders promise is in the database.  Three things can be
\* missing, each for one reason: the admin's credential when a process died or still
\* is between the two INSERTs of create_admin_user, the parent edge when the error of
\* set_parent was dropped, the hash of a legacy secret when an edit wrote back the
\* plaintext that it had read before the migration.
UpMeansSeeded ==
    \A p \in Replicas : pc[p] = "up" =>
        /\ rows = Items /\ assigned
        /\ creds = 1 \/ orphaned \/ \E q \in Replicas : pc[q] = "credential"
        /\ parent \/ dropped
        /\ secret # "plain" \/ reverted

\* A seeder ends the process only when another replica inserted the row between
\* this one's SELECT and INSERT: rows that an earlier start left are no error.
FailsOnlyInRace == \A p \in Replicas : pc[p] = "failed" => beaten[p]

\* Somebody holds a copy of the literal secret: Redis, a lookup, an edit, or a replica
\* that is starting.
PlaintextAround == "plain" \in {cached, lookup, edit} \cup {seen[p] : p \in Replicas}

\* "One-time legacy plaintext migration" (bootstrap/web_app_client.rs:81): a secret that
\* an admin chose is safe from every start, lookup and edit as soon as it is in the row
\* and no copy of the plaintext is around.  Before that it is not: a replica that has
\* read the plaintext, from the row or from an entry of Redis that outlived it, writes
\* the bootstrap secret over whatever the row holds by then.
RotatedSecretKept ==
    [][secret = "rotated" /\ ~PlaintextAround => secret' = "rotated" /\ ~PlaintextAround']_vars

AllUp == \A p \in Replicas : pc[p] = "up"

\* "multi-replica deploys converge cleanly" (main.rs:211): once processes are no
\* longer killed, every replica comes up and stays up.
AllComeUp == <>[]AllUp
=============================================================================
