---------------------------- MODULE StartupProofs ----------------------------
(***************************************************************************)
(* What holds of the startup seeders and of the signing-key directory for  *)
(* any number of replicas, keys, crashes and rotations.                    *)
(*                                                                         *)
(* Each component has an inductive invariant.  The one of the seeders      *)
(* (SeedersInv) says how far a replica is, which is what makes "up" mean   *)
(* "seeded" when rows were inserted by others.  The one of the key set has *)
(* a part that holds whatever else runs on the directory (KeysKept) and    *)
(* one that holds while servers run one at a time (Undisturbed).           *)
(***************************************************************************)
EXTENDS MCStartup, TLAPS

-----------------------------------------------------------------------------
(* The seeders.                                                             *)

\* The secret is no longer the plaintext one, or it is again because of an edit.
Hashed == secret # "plain" \/ reverted

\* How far a replica is: main() awaits the seeders in the order of Items, so a replica
\* that looks for an item has seen every earlier one in the database, and one that waits
\* to insert a row that is there by now was beaten to it.
SeederAt(p) ==
    /\ item[p] = "admin" => "user" \in rows
    /\ item[p] \in {"account", "web-app", "service-client"} =>
          {"user", "admin"} \subseteq rows /\ (parent \/ dropped)
    /\ item[p] \in {"web-app", "service-client"} => "account" \in rows /\ assigned
    /\ item[p] = "service-client" => "web-app" \in rows
    /\ pc[p] = "parent" => item[p] = "admin" /\ "admin" \in rows
    /\ pc[p] \in {"credential", "role", "assign"} => item[p] = "account" /\ "account" \in rows
    /\ pc[p] = "select" => item[p] = "service-client"
    /\ pc[p] \in {"fill", "migrate", "invalidate", "up"} =>
          item[p] = "service-client" /\ "service-client" \in rows
    /\ pc[p] = "fill" => seen[p] \in Forms
    /\ pc[p] = "migrate" => seen[p] = "plain"
    /\ pc[p] \in {"invalidate", "up"} \/ seen[p] = "hash" => Hashed
    /\ pc[p] = "insert" /\ item[p] \in rows => beaten[p]
    /\ pc[p] = "failed" => beaten[p]

\* create_admin_user inserts the account and then its credential, so one replica at most is
\* between the two, and no credential row is written twice.
Credential ==
    /\ \A p, q \in Replicas : pc[p] = "credential" /\ pc[q] = "credential" => p = q
    /\ \A p \in Replicas : pc[p] = "credential" => creds = 0
    /\ "account" \notin rows => creds = 0
    /\ "account" \in rows => creds = 1 \/ orphaned \/ \E q \in Replicas : pc[q] = "credential"

\* Copies of the secret: there are none before the row, one that is no plaintext was made
\* after the migration, and the one of an edit is older than no rotation.
Secret ==
    /\ secret # "none" \/ cached # "none" \/ edit # "idle" \/ lookup # "idle" =>
          "service-client" \in rows
    /\ "hash" \in {cached, lookup} => Hashed
    /\ edit \in {"none", "plain", "seeded"} => secret # "rotated"

Seeders == \A p \in Replicas : SeederAt(p)

\* Inductive.
SeedersInv == TypeOK /\ Seeders /\ Credential /\ Secret

\* Requests change the secret and its copies, and nothing that the seeders wait for.
LEMMA TrafficAside == Traffic => UNCHANGED startup
    BY Zenon DEF Traffic, BeginEdit, EndEdit, InvalidateEdit, BeginLookup, EndLookup, Evict

\* The invariant holds of an empty database and of one from before secrets were hashed.
LEMMA SeedersInit == Init => SeedersInv
  <1> SUFFICES ASSUME Init PROVE SeedersInv
      BY Zenon
  <1>1. TypeOK
    <2>1. /\ parent \in BOOLEAN /\ assigned \in BOOLEAN /\ beaten \in [Replicas -> BOOLEAN]
          /\ orphaned \in BOOLEAN /\ dropped \in BOOLEAN /\ reverted \in BOOLEAN
        BY Zenon DEF Init
    <2>2. crashes \in 0..MaxCrashes /\ creds \in 0..1
        BY MaxCrashesAssumption DEF Init
    <2>3. /\ rows \subseteq Items /\ secret \in Secrets /\ cached \in Forms \cup {"none"}
          /\ pc = [p \in Replicas |-> "lock"] /\ item = [p \in Replicas |-> "user"]
          /\ seen = [p \in Replicas |-> "none"] /\ edit = "idle" /\ lookup = "idle"
          /\ holder = None
        BY Zenon DEF Init, Secrets, Forms
    <2> QED
        BY <2>1, <2>2, <2>3, Zenon DEF TypeOK, Items, Labels
  <1>2. ASSUME NEW p \in Replicas PROVE SeederAt(p)
      BY Zenon DEF Init, SeederAt
  <1>3. Credential
    <2>1. ("account" \in rows => creds = 1) /\ ("account" \notin rows => creds = 0)
        BY Zenon DEF Init, Items
    <2>2. \A p \in Replicas : pc[p] # "credential"
        BY Zenon DEF Init
    <2> QED
        BY <2>1, <2>2, Zenon DEF Credential
  <1>4. Secret
      BY Zenon DEF Init, Secret, Items
  <1> QED
      BY <1>1, <1>2, <1>3, <1>4, Zenon DEF SeedersInv, Seeders

\* The order of the seeders: where a replica goes once its item is there.
LEMMA OnwardGoes ==
    ASSUME NEW p \in Replicas, item[p] \in Items, Onward(p)
    PROVE  \/ item[p] = "user" /\ Look(p, "find", "admin")
           \/ item[p] = "admin" /\ Goto(p, "parent")
           \/ item[p] = "account" /\ Goto(p, "role")
           \/ item[p] = "web-app" /\ Look(p, "find", "service-client")
           \/ item[p] = "service-client" /\ Goto(p, "up")
    BY Zenon DEF Onward, Items

\* Where a replica goes once it inserted a row.
LEMMA InsertedGoes ==
    ASSUME NEW p \in Replicas, item[p] \in Items, Inserted(p)
    PROVE  \/ item[p] = "user" /\ Look(p, "find", "admin")
           \/ item[p] = "admin" /\ Goto(p, "parent")
           \/ item[p] = "account" /\ Goto(p, "credential")
           \/ item[p] = "web-app" /\ Look(p, "find", "service-client")
           \/ item[p] = "service-client" /\ Goto(p, "invalidate")
  <1>1. \/ item[p] = "account" /\ Goto(p, "credential")
        \/ item[p] = "service-client" /\ Goto(p, "invalidate")
        \/ item[p] \notin {"account", "service-client"} /\ Onward(p)
      BY Zenon DEF Inserted
  <1> QED
      BY <1>1, OnwardGoes, Zenon

\* A replica that is up has seen all that the seeders promise.
LEMMA UpHasRows ==
    ASSUME TypeOK, Seeders, NEW p \in Replicas, pc[p] = "up"
    PROVE  rows = Items /\ assigned /\ (parent \/ dropped) /\ Hashed
  <1>1. SeederAt(p)
      BY Zenon DEF Seeders
  <1>2. Items \subseteq rows /\ assigned /\ (parent \/ dropped) /\ Hashed
      BY <1>1, Zenon DEF SeederAt, Items
  <1> QED
      BY <1>2, Zenon DEF TypeOK

\* Every step of a seeder, a crash, a restart or a request keeps the types; that the
\* account gets one credential at most needs Credential.
LEMMA SeedersTypes == TypeOK /\ Seeders /\ Credential /\ Next => TypeOK'
  <1> SUFFICES ASSUME TypeOK, Seeders, Credential, Next PROVE TypeOK'
      BY Zenon
  <1>1. ASSUME NEW p \in Replicas, Acquire(p) PROVE TypeOK'
      BY <1>1, Zenon DEF Acquire, Goto, db, past, traffic, TypeOK, Labels
  <1>2. ASSUME NEW p \in Replicas, Commit(p) PROVE TypeOK'
      BY <1>2, Zenon DEF Commit, Goto, db, past, traffic, TypeOK, Labels
  <1>3. ASSUME NEW p \in Replicas, Find(p) PROVE TypeOK'
      BY <1>3, OnwardGoes DEF Find, Goto, Look, db, traffic, TypeOK, Labels, Items
  <1>4. ASSUME NEW p \in Replicas, Insert(p) PROVE TypeOK'
    <2>1. CASE item[p] \in rows
      <3>1. /\ pc[p] = "insert" /\ Goto(p, "failed")
            /\ UNCHANGED <<rows, secret, beaten, parent, creds, assigned, cached, holder, seen,
                           crashes, orphaned, dropped, edit, lookup, reverted>>
          BY <1>4, <2>1, Zenon DEF Insert, traffic
      <3> QED
          BY <2>1, <3>1, Zenon DEF Goto, TypeOK, Labels
    <2>2. CASE item[p] \notin rows
      <3>1. /\ pc[p] = "insert" /\ rows' = rows \cup {item[p]}
            /\ secret' = IF item[p] = "service-client" THEN "seeded" ELSE secret
            /\ UNCHANGED <<parent, creds, assigned, cached, holder, seen, crashes, orphaned,
                           dropped, edit, lookup, reverted>>
          BY <1>4, <2>2, Zenon DEF Insert, traffic
      <3>2. beaten' = [q \in Replicas |->
                beaten[q] \/ (q # p /\ pc[q] = "insert" /\ item[q] = item[p])]
          BY <1>4, <2>2, Zenon DEF Insert
      <3>3. beaten' \in [Replicas -> BOOLEAN]
          BY <3>2, Zenon
      <3>4. item[p] \in Items /\ Inserted(p)
          BY <1>4, <2>2, Zenon DEF Insert, TypeOK
      <3>5. /\ pc' \in [Replicas -> Labels] /\ item' \in [Replicas -> Items]
            /\ \A q \in Replicas \ {p} : pc'[q] = pc[q]
        <4>1. \/ \E x \in Items : Look(p, "find", x)
              \/ \E l \in {"parent", "credential", "invalidate"} : Goto(p, l)
            BY <3>4, InsertedGoes, Zenon DEF Items
        <4> QED
            BY <4>1, Zenon DEF Goto, Look, TypeOK, Labels
      <3>6. holder' # None => pc'[holder'] = "locked"
          BY <3>1, <3>5, Zenon DEF TypeOK
      <3>7. rows' \subseteq Items /\ secret' \in Secrets
          BY <3>1, <3>4, Zenon DEF TypeOK, Secrets
      <3> QED
          BY <3>1, <3>3, <3>5, <3>6, <3>7, Zenon DEF TypeOK
    <2> QED
        BY <2>1, <2>2, Zenon
  <1>5. ASSUME NEW p \in Replicas, WireParent(p) PROVE TypeOK'
    <2>1. parent' \in BOOLEAN /\ dropped' \in BOOLEAN
        BY <1>5, Zenon DEF WireParent, TypeOK
    <2>2. /\ pc[p] = "parent" /\ Look(p, "lock", "account")
          /\ UNCHANGED <<rows, creds, assigned, secret, cached, holder, seen, crashes, orphaned,
                         beaten, edit, lookup, reverted>>
        BY <1>5, Zenon DEF WireParent, traffic
    <2> QED
        BY <2>1, <2>2, Zenon DEF Look, TypeOK, Labels, Items
  <1>6. ASSUME NEW p \in Replicas, PersistCredential(p) PROVE TypeOK'
      BY <1>6, OnwardGoes DEF PersistCredential, Goto, past, traffic, TypeOK, Seeders, SeederAt,
         Credential, Labels
  <1>7. ASSUME NEW p \in Replicas, CheckRole(p) PROVE TypeOK'
      BY <1>7 DEF CheckRole, Goto, Look, db, past, traffic, TypeOK, Labels, Items
  <1>8. ASSUME NEW p \in Replicas, AssignRole(p) PROVE TypeOK'
      BY <1>8, Zenon DEF AssignRole, Look, past, traffic, TypeOK, Labels, Items
  <1>9. ASSUME NEW p \in Replicas, ReadCache(p) PROVE TypeOK'
      BY <1>9, OnwardGoes DEF ReadCache, Goto, db, past, traffic, TypeOK, Forms, Labels
  <1>10. ASSUME NEW p \in Replicas, ReadRow(p) PROVE TypeOK'
      BY <1>10 DEF ReadRow, Goto, Form, db, traffic, TypeOK, Forms, Labels
  <1>11. ASSUME NEW p \in Replicas, PopulateCache(p) PROVE TypeOK'
    <2>1. item[p] = "service-client"
        BY <1>11, Zenon DEF PopulateCache, Seeders, SeederAt
    <2>2. Goto(p, "migrate") \/ Goto(p, "up")
        BY <1>11, <2>1, OnwardGoes, Zenon DEF PopulateCache, TypeOK
    <2>3. cached' \in Forms \cup {"none"} /\ seen' \in [Replicas -> Forms \cup {"none"}]
        BY <1>11, Zenon DEF PopulateCache, TypeOK
    <2> QED
        BY <1>11, <2>2, <2>3, Zenon DEF PopulateCache, Goto, db, past, traffic, TypeOK, Labels
  <1>12. ASSUME NEW p \in Replicas, MigrateSecret(p) PROVE TypeOK'
      BY <1>12 DEF MigrateSecret, Goto, past, traffic, TypeOK, Secrets, Labels
  <1>13. ASSUME NEW p \in Replicas, Invalidate(p) PROVE TypeOK'
    <2>1. Goto(p, "up")
        BY <1>13, OnwardGoes, Zenon DEF Invalidate, Seeders, SeederAt, TypeOK
    <2> QED
        BY <1>13, <2>1 DEF Invalidate, Goto, db, past, traffic, TypeOK, Labels
  <1>14. ASSUME NEW p \in Replicas, Restart(p) PROVE TypeOK'
      BY <1>14 DEF Restart, Look, db, traffic, TypeOK, Labels, Items
  <1>15. ASSUME NEW p \in Replicas, Crash(p) PROVE TypeOK'
      BY <1>15, MaxCrashesAssumption DEF Crash, Goto, db, traffic, TypeOK, Labels
  <1>16. CASE Traffic
    <2>1. UNCHANGED <<rows, parent, creds, assigned, holder, pc, item, seen, crashes,
                      orphaned, dropped, beaten>>
        BY <1>16, TrafficAside, Zenon DEF startup, past
    <2>2. secret' \in Secrets /\ edit' \in Secrets \cup {"idle", "written"}
        BY <1>16, Zenon DEF Traffic, BeginEdit, EndEdit, InvalidateEdit, BeginLookup, EndLookup,
           Evict, traffic, TypeOK, Secrets
    <2>3. cached' \in Forms \cup {"none"} /\ lookup' \in Forms \cup {"idle"}
        BY <1>16, Zenon DEF Traffic, BeginEdit, EndEdit, InvalidateEdit, BeginLookup, EndLookup,
           Evict, Form, traffic, TypeOK, Forms
    <2>4. reverted' \in BOOLEAN
        BY <1>16, Zenon DEF Traffic, BeginEdit, EndEdit, InvalidateEdit, BeginLookup, EndLookup,
           Evict, traffic, TypeOK
    <2> QED
        BY <2>1, <2>2, <2>3, <2>4, Zenon DEF TypeOK
  <1> QED
      BY <1>1, <1>2, <1>3, <1>4, <1>5, <1>6, <1>7, <1>8, <1>9, <1>10, <1>11, <1>12, <1>13,
         <1>14, <1>15, <1>16, Zenon DEF Next, Step

\* No step puts two replicas between the account and its credential: the unique constraint
\* lets one INSERT of the account through.
LEMMA SeedersCredential == TypeOK /\ Seeders /\ Credential /\ Next => Credential'
  <1> SUFFICES ASSUME TypeOK, Seeders, Credential, Next PROVE Credential'
      BY Zenon
  <1>1. ASSUME NEW p \in Replicas, Acquire(p) PROVE Credential'
      BY <1>1 DEF Acquire, Goto, db, past, Credential
  <1>2. ASSUME NEW p \in Replicas, Commit(p) PROVE Credential'
      BY <1>2 DEF Commit, Goto, db, past, Credential
  <1>3. ASSUME NEW p \in Replicas, Find(p) PROVE Credential'
      BY <1>3, OnwardGoes DEF Find, Goto, Look, db, TypeOK, Credential
  <1>4. ASSUME NEW p \in Replicas, Insert(p) PROVE Credential'
      BY <1>4, InsertedGoes DEF Insert, Goto, Look, TypeOK, Seeders, SeederAt, Credential
  <1>5. ASSUME NEW p \in Replicas, WireParent(p) PROVE Credential'
      BY <1>5 DEF WireParent, Look, Credential
  <1>6. ASSUME NEW p \in Replicas, PersistCredential(p) PROVE Credential'
      BY <1>6, OnwardGoes DEF PersistCredential, Goto, TypeOK, Seeders, SeederAt, Credential
  <1>7. ASSUME NEW p \in Replicas, CheckRole(p) PROVE Credential'
      BY <1>7, ZenonT(60) DEF CheckRole, Goto, Look, db, past, TypeOK, Credential
  <1>8. ASSUME NEW p \in Replicas, AssignRole(p) PROVE Credential'
      BY <1>8 DEF AssignRole, Look, past, Credential
  <1>9. ASSUME NEW p \in Replicas, ReadCache(p) PROVE Credential'
      BY <1>9, OnwardGoes DEF ReadCache, Goto, Look, db, past, TypeOK, Credential
  <1>10. ASSUME NEW p \in Replicas, ReadRow(p) PROVE Credential'
      BY <1>10 DEF ReadRow, Goto, db, TypeOK, Credential
  <1>11. ASSUME NEW p \in Replicas, PopulateCache(p) PROVE Credential'
      BY <1>11, OnwardGoes DEF PopulateCache, Goto, Look, db, past, TypeOK, Credential
  <1>12. ASSUME NEW p \in Replicas, MigrateSecret(p) PROVE Credential'
      BY <1>12 DEF MigrateSecret, Goto, past, TypeOK, Credential
  <1>13. ASSUME NEW p \in Replicas, Invalidate(p) PROVE Credential'
      BY <1>13, OnwardGoes DEF Invalidate, Goto, Look, db, past, TypeOK, Credential
  <1>14. ASSUME NEW p \in Replicas, Restart(p) PROVE Credential'
      BY <1>14 DEF Restart, Look, db, Credential
  <1>15. ASSUME NEW p \in Replicas, Crash(p) PROVE Credential'
      BY <1>15, Zenon DEF Crash, Goto, db, TypeOK, Seeders, SeederAt, Credential
  <1>16. CASE Traffic
      BY <1>16, TrafficAside, Zenon DEF startup, past, Credential
  <1> QED
      BY <1>1, <1>2, <1>3, <1>4, <1>5, <1>6, <1>7, <1>8, <1>9, <1>10, <1>11, <1>12, <1>13,
         <1>14, <1>15, <1>16, Zenon DEF Next, Step

\* What a step does to the secret: a replica inserts or migrates it, an edit replaces it,
\* or it stays.
LEMMA SecretSteps ==
    ASSUME TypeOK, Next
    PROVE  \/ /\ secret' = "seeded" /\ UNCHANGED <<cached, edit, lookup, reverted>>
              /\ \E p \in Replicas :
                    \/ pc[p] = "migrate" /\ UNCHANGED rows
                    \/ /\ "service-client" \notin rows /\ "service-client" \in rows'
                       /\ UNCHANGED seen
           \/ EndEdit
           \/ rows \subseteq rows' /\ UNCHANGED <<secret, reverted>>
  <1>1. ASSUME NEW p \in Replicas, Insert(p)
        PROVE  \/ /\ secret' = "seeded" /\ UNCHANGED <<cached, edit, lookup, reverted, seen>>
                  /\ "service-client" \notin rows /\ "service-client" \in rows'
               \/ rows \subseteq rows' /\ UNCHANGED <<secret, reverted>>
      BY <1>1, Zenon DEF Insert, traffic
  <1>2. ASSUME NEW p \in Replicas, MigrateSecret(p)
        PROVE  /\ secret' = "seeded" /\ UNCHANGED <<cached, edit, lookup, reverted>>
               /\ pc[p] = "migrate" /\ UNCHANGED rows
      BY <1>2, Zenon DEF MigrateSecret, traffic
  <1>3. ASSUME NEW p \in Replicas,
               \/ Acquire(p) \/ Commit(p) \/ Find(p) \/ CheckRole(p) \/ Restart(p) \/ Crash(p)
               \/ ReadCache(p) \/ ReadRow(p) \/ PopulateCache(p) \/ Invalidate(p)
        PROVE  UNCHANGED <<rows, secret, reverted>>
      BY <1>3, Zenon DEF Acquire, Commit, Find, CheckRole, Restart, Crash, ReadCache, ReadRow,
         PopulateCache, Invalidate, db, traffic
  <1>4. ASSUME NEW p \in Replicas, WireParent(p) \/ PersistCredential(p) \/ AssignRole(p)
        PROVE  UNCHANGED <<rows, secret, reverted>>
      BY <1>4, Zenon DEF WireParent, PersistCredential, AssignRole, traffic
  <1>5. ASSUME Traffic
        PROVE  EndEdit \/ UNCHANGED <<rows, secret, reverted>>
      BY <1>5, Zenon DEF Traffic, BeginEdit, InvalidateEdit, BeginLookup, EndLookup, Evict,
         startup, traffic
  <1> QED
      BY <1>1, <1>2, <1>3, <1>4, <1>5, Zenon DEF Next, Step

\* The secret becomes the plaintext one again by an edit only.
LEMMA HashedStays == TypeOK /\ Hashed /\ Next => Hashed'
  <1> SUFFICES ASSUME TypeOK, Hashed, Next PROVE Hashed'
      BY Zenon
  <1>1. CASE EndEdit
    <2>1. \/ secret' = "rotated"
          \/ secret' = edit /\ reverted' = (reverted \/ secret # edit)
          \/ UNCHANGED <<secret, reverted>>
        BY <1>1, Zenon DEF EndEdit
    <2>2. CASE secret' = edit /\ reverted' = (reverted \/ secret # edit)
      <3>1. reverted \/ secret # edit => reverted'
          BY <2>2, Zenon
      <3> QED
          BY <2>2, <3>1, Zenon DEF Hashed
    <2> QED
        BY <2>1, <2>2, Zenon DEF Hashed
  <1> QED
      BY <1>1, SecretSteps, Zenon DEF Hashed

\* Where copies of the secret come from: Redis is filled by a lookup and by a replica, both
\* of which read the row; an edit reads the row; a replica reads the row or Redis.
LEMMA CopySteps ==
    ASSUME TypeOK, Next
    PROVE  /\ \/ cached' \in {cached, "none"}
              \/ lookup # "idle" /\ cached' = lookup
              \/ \E p \in Replicas : pc[p] = "fill" /\ cached' = seen[p]
           /\ lookup' \in {lookup, "idle"} \/ (Serving /\ lookup' = Form(secret))
           /\ \/ edit' \in {edit, "idle"}
              \/ edit # "idle" /\ edit' = "written"
              \/ Serving /\ edit' = secret /\ UNCHANGED secret
           /\ \A q \in Replicas : seen'[q] \in {seen[q], "none", cached, Form(secret)}
  <1>1. ASSUME NEW p \in Replicas,
               \/ Acquire(p) \/ Commit(p) \/ Find(p) \/ CheckRole(p) \/ Restart(p)
               \/ WireParent(p) \/ PersistCredential(p) \/ AssignRole(p) \/ Insert(p)
        PROVE  UNCHANGED <<cached, lookup, edit, seen>>
      BY <1>1, Zenon DEF Acquire, Commit, Find, CheckRole, Restart, WireParent,
         PersistCredential, AssignRole, Insert, traffic
  <1>2. ASSUME NEW p \in Replicas, Crash(p) \/ MigrateSecret(p)
        PROVE  UNCHANGED <<cached, lookup, edit>> /\ seen' = [seen EXCEPT ![p] = "none"]
      BY <1>2, Zenon DEF Crash, MigrateSecret, traffic
  <1>3. ASSUME NEW p \in Replicas, ReadCache(p)
        PROVE  /\ UNCHANGED <<cached, lookup, edit>>
               /\ seen' = seen \/ seen' = [seen EXCEPT ![p] = cached]
      BY <1>3, Zenon DEF ReadCache, traffic
  <1>4. ASSUME NEW p \in Replicas, ReadRow(p)
        PROVE  /\ UNCHANGED <<cached, lookup, edit>>
               /\ seen' = seen \/ seen' = [seen EXCEPT ![p] = Form(secret)]
      BY <1>4, Zenon DEF ReadRow, traffic
  <1>5. ASSUME NEW p \in Replicas, PopulateCache(p)
        PROVE  /\ UNCHANGED <<lookup, edit>> /\ pc[p] = "fill" /\ cached' \in {cached, seen[p]}
               /\ seen' = seen \/ seen' = [seen EXCEPT ![p] = "none"]
      BY <1>5, Zenon DEF PopulateCache, traffic
  <1>6. ASSUME NEW p \in Replicas, Invalidate(p)
        PROVE  UNCHANGED <<lookup, edit, seen>> /\ cached' \in {cached, "none"}
      BY <1>6, Zenon DEF Invalidate, traffic
  <1>7. ASSUME Traffic
        PROVE  /\ \/ cached' \in {cached, "none"}
                  \/ lookup # "idle" /\ cached' = lookup
               /\ lookup' \in {lookup, "idle"} \/ (Serving /\ lookup' = Form(secret))
               /\ \/ edit' \in {edit, "idle"}
                  \/ edit # "idle" /\ edit' = "written"
                  \/ Serving /\ edit' = secret /\ UNCHANGED secret
               /\ UNCHANGED seen
      BY <1>7, Zenon DEF Traffic, BeginEdit, EndEdit, InvalidateEdit, BeginLookup, EndLookup,
         Evict, startup, traffic
  <1>8. \/ UNCHANGED <<cached, lookup, edit, seen>>
        \/ \E p \in Replicas :
              \/ /\ UNCHANGED <<cached, lookup, edit>>
                 /\ \E v \in {"none", cached, Form(secret)} : seen' = [seen EXCEPT ![p] = v]
              \/ PopulateCache(p) \/ Invalidate(p)
        \/ Traffic
      BY <1>1, <1>2, <1>3, <1>4, Zenon DEF Next, Step
  <1>9. seen \in [Replicas -> Forms \cup {"none"}]
      BY Zenon DEF TypeOK
  <1>10. CASE UNCHANGED <<cached, lookup, edit, seen>>
      BY <1>10, Zenon
  <1>11. ASSUME NEW p \in Replicas, UNCHANGED <<cached, lookup, edit>>,
                NEW v \in {"none", cached, Form(secret)}, seen' = [seen EXCEPT ![p] = v]
         PROVE  \A q \in Replicas : seen'[q] \in {seen[q], "none", cached, Form(secret)}
      BY <1>9, <1>11, Zenon
  <1>12. ASSUME NEW p \in Replicas, PopulateCache(p)
         PROVE  \A q \in Replicas : seen'[q] \in {seen[q], "none"}
      BY <1>5, <1>9, <1>12, Zenon
  <1> QED
      BY <1>5, <1>6, <1>7, <1>8, <1>10, <1>11, <1>12, Zenon

\* Copies that are no plaintext come from a row that is hashed; an edit that waits for its
\* UPDATE keeps others from rotating the secret under it.
LEMMA SeedersSecret == TypeOK /\ Seeders /\ Secret /\ Next => Secret'
  <1> SUFFICES ASSUME TypeOK, Seeders, Secret, Next PROVE Secret'
      BY Zenon
  <1>1. Serving => "service-client" \in rows
      BY UpHasRows, Zenon DEF Serving, Items
  <1>2. \A p \in Replicas : /\ pc[p] \in {"fill", "migrate"} => "service-client" \in rows
                            /\ seen[p] = "hash" => Hashed
      BY Zenon DEF Seeders, SeederAt
  <1>3. EndEdit => edit # "idle" /\ UNCHANGED rows
      BY Zenon DEF EndEdit, startup
  <1>4. "service-client" \in rows => "service-client" \in rows'
      BY SecretSteps, <1>3, Zenon
  <1>5. secret' # "none" => "service-client" \in rows'
    <2>1. secret # "none" \/ edit # "idle" => "service-client" \in rows
        BY Zenon DEF Secret
    <2> QED
        BY <1>2, <1>3, <1>4, <2>1, SecretSteps, Zenon
  <1>6. cached' # "none" \/ edit' # "idle" \/ lookup' # "idle" => "service-client" \in rows'
    <2>1. cached # "none" \/ edit # "idle" \/ lookup # "idle" => "service-client" \in rows
        BY Zenon DEF Secret
    <2>2. cached' # "none" => "service-client" \in rows
        BY <1>2, <2>1, CopySteps, Zenon
    <2>3. lookup' # "idle" => "service-client" \in rows
        BY <1>1, <2>1, CopySteps, Zenon
    <2>4. edit' # "idle" => "service-client" \in rows
        BY <1>1, <2>1, CopySteps, Zenon
    <2> QED
        BY <1>4, <2>2, <2>3, <2>4, Zenon
  <1>7. "hash" \in {cached', lookup'} => Hashed'
    <2>1. Form(secret) = "hash" => Hashed
        BY Zenon DEF Form, Hashed
    <2>2. "hash" \in {cached', lookup'} => Hashed
        BY <1>2, <2>1, CopySteps, Zenon DEF Secret
    <2> QED
        BY <2>2, HashedStays, Zenon
  <1>8. edit' \in {"none", "plain", "seeded"} => secret' # "rotated"
    <2>1. EndEdit => edit' \in {"idle", "written"}
        BY Zenon DEF EndEdit
    <2>2. edit' = edit \/ edit' \in {"idle", "written"} \/ (edit' = secret /\ secret' = secret)
        BY CopySteps, Zenon
    <2>3. edit \in {"none", "plain", "seeded"} => secret # "rotated"
        BY Zenon DEF Secret
    <2> QED
        BY <2>1, <2>2, <2>3, SecretSteps, Zenon
  <1> QED
      BY <1>5, <1>6, <1>7, <1>8, Zenon DEF Secret

\* No step of any replica takes back what another has seen: rows are only ever added.
LEMMA SeedersSteps == TypeOK /\ Seeders /\ Secret /\ Next => Seeders'
  <1> SUFFICES ASSUME TypeOK, Seeders, Secret, Next PROVE Seeders'
      BY Zenon
  <1>0. Hashed => Hashed'
      BY HashedStays, Zenon
  <1>1. ASSUME NEW p \in Replicas, Acquire(p) PROVE Seeders'
      BY <1>0, <1>1 DEF Acquire, Goto, db, past, Seeders, SeederAt
  <1>2. ASSUME NEW p \in Replicas, Commit(p) PROVE Seeders'
      BY <1>0, <1>2 DEF Commit, Goto, db, past, Seeders, SeederAt
  <1>3. ASSUME NEW p \in Replicas, Find(p) PROVE Seeders'
      BY <1>0, <1>3, OnwardGoes DEF Find, Goto, Look, db, TypeOK, Seeders, SeederAt
  <1>4. ASSUME NEW p \in Replicas, Insert(p) PROVE Seeders'
    <2>1. CASE item[p] \in rows
      <3>1. /\ pc[p] = "insert" /\ Goto(p, "failed")
            /\ UNCHANGED <<rows, beaten, parent, assigned, seen, dropped>>
          BY <1>4, <2>1, Zenon DEF Insert
      <3> QED
          BY <1>0, <2>1, <3>1 DEF Goto, Seeders, SeederAt
    <2>2. CASE item[p] \notin rows
      <3>1. /\ pc[p] = "insert" /\ rows' = rows \cup {item[p]}
            /\ item[p] = "service-client" => secret' = "seeded"
            /\ UNCHANGED <<parent, assigned, seen, dropped>>
          BY <1>4, <2>2, Zenon DEF Insert
      <3>2. beaten' = [q \in Replicas |->
                beaten[q] \/ (q # p /\ pc[q] = "insert" /\ item[q] = item[p])]
          BY <1>4, <2>2, Zenon DEF Insert
      <3>3. \A q \in Replicas :
               /\ beaten[q] => beaten'[q]
               /\ q # p /\ pc[q] = "insert" /\ item[q] = item[p] => beaten'[q]
          BY <3>2, Zenon
      <3>4. item[p] \in Items /\ Inserted(p)
          BY <1>4, <2>2, Zenon DEF Insert, TypeOK
      <3>5. item[p] = "service-client" => Hashed'
          BY <3>1, Zenon DEF Hashed
      <3> QED
          BY <1>0, <3>1, <3>3, <3>4, <3>5, InsertedGoes DEF Goto, Look, TypeOK, Seeders, SeederAt
    <2> QED
        BY <2>1, <2>2, Zenon
  <1>5. ASSUME NEW p \in Replicas, WireParent(p) PROVE Seeders'
      BY <1>0, <1>5 DEF WireParent, Look, TypeOK, Seeders, SeederAt
  <1>6. ASSUME NEW p \in Replicas, PersistCredential(p) PROVE Seeders'
      BY <1>0, <1>6, OnwardGoes DEF PersistCredential, Goto, past, TypeOK, Seeders, SeederAt
  <1>7. ASSUME NEW p \in Replicas, CheckRole(p) PROVE Seeders'
      BY <1>0, <1>7 DEF CheckRole, Goto, Look, db, past, TypeOK, Seeders, SeederAt
  <1>8. ASSUME NEW p \in Replicas, AssignRole(p) PROVE Seeders'
      BY <1>0, <1>8 DEF AssignRole, Look, past, TypeOK, Seeders, SeederAt
  <1>9. ASSUME NEW p \in Replicas, ReadCache(p) PROVE Seeders'
    <2>1. cached # "none" => "service-client" \in rows
        BY Zenon DEF Secret
    <2>2. cached = "hash" => Hashed
        BY Zenon DEF Secret
    <2> QED
        BY <1>0, <1>9, <2>1, <2>2, OnwardGoes DEF ReadCache, Goto, db, past, TypeOK, Seeders,
           SeederAt
  <1>10. ASSUME NEW p \in Replicas, ReadRow(p) PROVE Seeders'
    <2>1. Form(secret) \in Forms /\ (Form(secret) = "hash" => Hashed)
        BY Zenon DEF Form, Forms, Hashed
    <2> QED
        BY <1>0, <1>10, <2>1 DEF ReadRow, Goto, db, TypeOK, Seeders, SeederAt
  <1>11. ASSUME NEW p \in Replicas, PopulateCache(p) PROVE Seeders'
    <2>1. seen[p] # "plain" => seen[p] = "hash" /\ Hashed
        BY <1>11, Zenon DEF PopulateCache, Seeders, SeederAt, Forms
    <2> QED
        BY <1>0, <1>11, <2>1, OnwardGoes DEF PopulateCache, Goto, db, past, TypeOK, Seeders,
           SeederAt
  <1>12. ASSUME NEW p \in Replicas, MigrateSecret(p) PROVE Seeders'
    <2>1. Hashed'
        BY <1>12, Zenon DEF MigrateSecret, Hashed
    <2> QED
        BY <1>12, <2>1 DEF MigrateSecret, Goto, past, TypeOK, Seeders, SeederAt
  <1>13. ASSUME NEW p \in Replicas, Invalidate(p) PROVE Seeders'
      BY <1>0, <1>13, OnwardGoes DEF Invalidate, Goto, db, past, TypeOK, Seeders, SeederAt
  <1>14. ASSUME NEW p \in Replicas, Restart(p) PROVE Seeders'
      BY <1>0, <1>14 DEF Restart, Look, db, TypeOK, Seeders, SeederAt
  <1>15. ASSUME NEW p \in Replicas, Crash(p) PROVE Seeders'
      BY <1>0, <1>15 DEF Crash, Goto, db, TypeOK, Seeders, SeederAt
  <1>16. CASE Traffic
      BY <1>0, <1>16, TrafficAside DEF startup, past, Seeders, SeederAt
  <1> QED
      BY <1>1, <1>2, <1>3, <1>4, <1>5, <1>6, <1>7, <1>8, <1>9, <1>10, <1>11, <1>12, <1>13,
         <1>14, <1>15, <1>16, Zenon DEF Next, Step

\* The invariant of the seeders is inductive.
LEMMA SeedersNext == SeedersInv /\ [Next]_vars => SeedersInv'
  <1> SUFFICES ASSUME SeedersInv, [Next]_vars PROVE SeedersInv'
      BY Zenon
  <1>1. CASE Next
      BY <1>1, SeedersTypes, SeedersSteps, SeedersCredential, SeedersSecret, Zenon DEF SeedersInv
  <1>2. CASE UNCHANGED vars
    <2>1. TypeOK'
        BY <1>2, Zenon DEF SeedersInv, TypeOK, vars, db, past, traffic
    <2>2. Seeders'
        BY <1>2, Zenon DEF SeedersInv, Seeders, SeederAt, Hashed, vars, db, past, traffic
    <2>3. Credential'
        BY <1>2, Zenon DEF SeedersInv, Credential, vars, db, past, traffic
    <2>4. Secret'
        BY <1>2, Zenon DEF SeedersInv, Secret, Hashed, vars, db, past, traffic
    <2> QED
        BY <2>1, <2>2, <2>3, <2>4, Zenon DEF SeedersInv
  <1> QED
      BY <1>1, <1>2, Zenon

\* What the run checks of the seeders' states follows: a replica that serves finds its
\* rows, a seeder fails only in a race.
LEMMA SeedersSound == SeedersInv => TypeOK /\ UpMeansSeeded /\ FailsOnlyInRace
  <1> SUFFICES ASSUME SeedersInv PROVE TypeOK /\ UpMeansSeeded /\ FailsOnlyInRace
      BY Zenon
  <1>1. TypeOK
      BY Zenon DEF SeedersInv
  <1>2. FailsOnlyInRace
      BY Zenon DEF SeedersInv, Seeders, SeederAt, FailsOnlyInRace
  <1>3. ASSUME NEW p \in Replicas, pc[p] = "up"
        PROVE  /\ rows = Items /\ assigned /\ (parent \/ dropped) /\ Hashed
               /\ creds = 1 \/ orphaned \/ \E q \in Replicas : pc[q] = "credential"
    <2>1. rows = Items /\ assigned /\ (parent \/ dropped) /\ Hashed
        BY <1>3, UpHasRows, Zenon DEF SeedersInv
    <2>2. "account" \in rows
        BY <2>1, Zenon DEF Items
    <2> QED
        BY <2>1, <2>2, Zenon DEF SeedersInv, Credential
  <1> QED
      BY <1>1, <1>2, <1>3, Zenon DEF UpMeansSeeded, Hashed

\* A chosen secret of which no plaintext predecessor is copied anywhere stays, and no copy
\* of the plaintext comes up again: every copy is made of the row or of another copy.
LEMMA ChosenSteps ==
    ASSUME SeedersInv, [Next]_vars, secret = "rotated", ~PlaintextAround
    PROVE  secret' = "rotated" /\ ~PlaintextAround'
  <1>1. CASE Next
    <2>1. TypeOK /\ Seeders /\ Secret
        BY Zenon DEF SeedersInv
    <2>2. /\ cached # "plain" /\ lookup # "plain" /\ edit # "plain"
          /\ \A p \in Replicas : seen[p] # "plain"
        BY Zenon DEF PlaintextAround
    <2>3. "service-client" \in rows /\ edit \notin {"none", "seeded"}
        BY <2>1, Zenon DEF Secret
    <2>4. EndEdit => secret' = "rotated"
        BY <2>1, <2>2, <2>3, Zenon DEF EndEdit, TypeOK, Secrets
    <2>5. \A p \in Replicas : pc[p] # "migrate"
        BY <2>1, <2>2, Zenon DEF Seeders, SeederAt
    <2>6. secret' = "rotated"
        BY <1>1, <2>1, <2>3, <2>4, <2>5, SecretSteps, Zenon
    <2>7. Form(secret) = "hash"
        BY Zenon DEF Form
    <2>8. /\ cached' # "plain" /\ lookup' # "plain" /\ edit' # "plain"
          /\ \A p \in Replicas : seen'[p] # "plain"
        BY <1>1, <2>1, <2>2, <2>7, CopySteps, Zenon
    <2> QED
        BY <2>6, <2>8, Zenon DEF PlaintextAround
  <1>2. CASE UNCHANGED vars
      BY <1>2, Zenon DEF PlaintextAround, vars, db, traffic
  <1> QED
      BY <1>1, <1>2, Zenon

-----------------------------------------------------------------------------
(* The key set.                                                             *)

\* Whatever else runs: every key in use has been generated, and the keys in a server's
\* map have both files unless they were retired.  The conjuncts on phase follow
\* init: the map is filled by "load", and a generated or adopted key is in
\* it only once both of its files are written.
KeysKept ==
    /\ legacy => LegacyKid \in used
    /\ \A p \in Replicas :
          /\ loaded[p] \subseteq used /\ todo[p] \subseteq used /\ active[p] \in used \cup {None}
          /\ loaded[p] \subseteq (priv \cap pub) \cup retired
          /\ phase[p] # "load" => todo[p] = {}
          /\ phase[p] \in {"down", "private", "public"} => loaded[p] = {}
          /\ phase[p] \in {"private", "public"} => active[p] \in used
          /\ phase[p] = "public" => active[p] \in priv \cup retired
          /\ phase[p] \in {"mark", "marking", "up"} => active[p] \in loaded[p]
          /\ lock[p] # None =>
                IF lock[p].op = "retire" THEN lock[p].kid \in retired ELSE lock[p].kid = active[p]
    /\ \A k \in Kids : rotating[k] # None =>
          /\ rotating[k].at = "public" => k \in priv \cup retired
          /\ rotating[k].at = "lock" => k \in (priv \cap pub) \cup retired
    /\ Keys!SigningKeysOnDisk

\* The last rotation that answered is what the next start reads: its pair is on disk, and
\* so is the marker unless a later rotation is between truncating and writing it.
AnswerKept ==
    /\ answered \in priv \cap pub
    /\ marker = answered \/ \E p \in Replicas : Keys!Holds(p, "rotate", "write")
    /\ \A p \in Replicas :
          /\ phase[p] # "down" => answered \in loaded[p] \cup todo[p]
          /\ phase[p] \in {"down", "load", "up"}
          /\ phase[p] = "up" =>
                active[p] = answered \/ (lock[p] # None /\ lock[p].op = "rotate")

\* While servers run one at a time nothing changes the directory behind a server's back:
\* its map, or what is left to load of it, holds every key that signed and was not
\* retired, and the key of a rotation under way is not retired and not yet in the map.
Undisturbed ==
    /\ \A p, q \in Replicas : phase[p] # "down" /\ phase[q] # "down" => p = q
    /\ \A p \in Replicas :
          /\ phase[p] # "down" => served \ retired \subseteq loaded[p] \cup todo[p]
          /\ loaded[p] \subseteq priv \cap pub
          /\ phase[p] = "public" => active[p] \in priv
          /\ lock[p] # None =>
                IF lock[p].op = "retire" THEN lock[p].kid \notin loaded[p]
                                         ELSE lock[p].kid \in served \ retired
    /\ \A k \in Kids : rotating[k] # None => k \notin retired \cup loaded[rotating[k].by]
    /\ answered # None => AnswerKept

\* Inductive.
KeysInv == Keys!TypeOK /\ KeysKept /\ (~overlap => Undisturbed)

\* The invariant holds of the directory a first start finds: empty, or with the pair of
\* the release before kids.
LEMMA KeysInit == Keys!Init => KeysInv
  <1> SUFFICES ASSUME Keys!Init PROVE KeysInv
      BY Zenon
  <1>1. /\ phase \in [Replicas -> {"down", "load", "private", "public", "mark", "marking", "up"}]
        /\ \A p \in Replicas : phase[p] = "down"
      BY Zenon DEF Keys!Init
  <1>2. /\ todo \in [Replicas -> SUBSET Kids] /\ loaded \in [Replicas -> SUBSET Kids]
        /\ active \in [Replicas -> Kids \cup {None}]
        /\ \A p \in Replicas : todo[p] = {} /\ loaded[p] = {} /\ active[p] = None
      BY Zenon DEF Keys!Init
  <1>3. /\ rotating \in [Kids -> Keys!Rotations \cup {None}] /\ \A k \in Kids : rotating[k] = None
        /\ lock \in [Replicas -> Keys!Changes \cup {None}] /\ \A p \in Replicas : lock[p] = None
      BY Zenon DEF Keys!Init
  <1>4. /\ used \subseteq Kids /\ (legacy => LegacyKid \in used) /\ priv = {} /\ pub = {}
        /\ marker = None /\ served = {} /\ retired = {} /\ answered = None /\ events = 0
      BY KeysAssumption, Zenon DEF Keys!Init
  <1>5. legacy \in BOOLEAN /\ overlap \in BOOLEAN
      BY Zenon DEF Keys!Init
  <1>6. events \in 0..MaxEvents
      BY <1>4, KeysAssumption
  <1>7. Keys!TypeOK
      BY <1>1, <1>2, <1>3, <1>4, <1>5, <1>6, Zenon DEF Keys!TypeOK
  <1>8. KeysKept
      BY <1>1, <1>2, <1>3, <1>4, Zenon DEF KeysKept, Keys!SigningKeysOnDisk
  <1>9. Undisturbed
      BY <1>1, <1>2, <1>3, <1>4, Zenon DEF Undisturbed
  <1> QED
      BY <1>7, <1>8, <1>9, Zenon DEF KeysInv

\* RsaKeyPair::generate: the kid of a generated pair is one that was never used.
LEMMA NewKidIsNew == used \subseteq Kids /\ used # Kids => Keys!NewKid \in Kids \ used
    BY Zenon DEF Keys!NewKid

\* Every step of a start, a rotation, a retirement or a kill keeps the types.
LEMMA KeysTypes == Keys!TypeOK /\ KeysKept /\ Keys!Next => Keys!TypeOK'
  <1> SUFFICES ASSUME Keys!TypeOK, KeysKept, Keys!Next PROVE Keys!TypeOK'
      BY Zenon
  <1>1. ASSUME NEW p \in Replicas, Keys!Start(p) PROVE Keys!TypeOK'
      BY <1>1 DEF Keys!Start, Keys!TypeOK, Keys!Goto, Keys!disk
  <1>2. ASSUME NEW p \in Replicas, Keys!LoadPair(p) PROVE Keys!TypeOK'
    <2>1. PICK k \in todo[p] : \/ k \in priv \cap pub /\ Keys!Load(p, k, {k})
                               \/ k \notin pub /\ Keys!Load(p, k, {})
                               \/ k \in pub \ priv /\ Keys!Ends(p)
        BY <1>2, Zenon DEF Keys!LoadPair
    <2>2. UNCHANGED <<Keys!disk, used, rotating, lock, events, Keys!past>> /\ phase[p] = "load"
        BY <1>2, Zenon DEF Keys!LoadPair
    <2>3. ASSUME NEW pair \in SUBSET Kids, Keys!Load(p, k, pair) PROVE Keys!TypeOK'
        BY <2>2, <2>3, Zenon DEF Keys!TypeOK, Keys!Load, Keys!disk, Keys!past
    <2>4. CASE Keys!Ends(p)
        BY <2>2, <2>4 DEF Keys!TypeOK, Keys!Ends, Keys!Goto, Keys!SetActive, Keys!disk, Keys!past
    <2>5. k \in Kids
        BY Zenon DEF Keys!TypeOK
    <2> QED
        BY <2>1, <2>3, <2>4, <2>5, Zenon
  <1>3. ASSUME NEW p \in Replicas, Keys!ReadMarker(p) PROVE Keys!TypeOK'
    <2>1. /\ UNCHANGED <<Keys!disk, todo, loaded, rotating, lock, events, retired, answered,
                       overlap>>
          /\ phase[p] = "load"
        BY <1>3, Zenon DEF Keys!ReadMarker
    <2>2. ASSUME NEW k \in used', NEW label \in {"up", "mark", "private"},
                 Keys!Goto(p, label), Keys!SetActive(p, k),
                 used \subseteq used', used' \subseteq Kids, served' \subseteq used'
          PROVE  Keys!TypeOK'
      <3>1. /\ phase' \in [Replicas -> {"down", "load", "private", "public", "mark", "marking", "up"}]
            /\ active' \in [Replicas -> Kids \cup {None}]
            /\ \A q \in Replicas : phase[q] = "up" => phase'[q] = "up"
          BY <2>1, <2>2, Zenon DEF Keys!TypeOK, Keys!Goto, Keys!SetActive
      <3> QED
          BY <2>1, <2>2, <3>1, Zenon DEF Keys!TypeOK, Keys!disk, Keys!Rotations
    <2>3. loaded[p] \subseteq used
        BY Zenon DEF KeysKept
    <2>4. CASE marker \in loaded[p] /\ Keys!Serve(p, marker) /\ Keys!Goto(p, "up") /\ UNCHANGED used
        BY <2>2, <2>3, <2>4, Zenon DEF Keys!TypeOK, Keys!Serve
    <2>5. ASSUME NEW k \in loaded[p], Keys!SetActive(p, k), Keys!Goto(p, "mark"),
                 UNCHANGED <<used, served>>
          PROVE  Keys!TypeOK'
        BY <2>2, <2>3, <2>5, Zenon DEF Keys!TypeOK
    <2>6. CASE Keys!Adopt(p) /\ UNCHANGED served
      <3>1. CASE legacy /\ Keys!SetActive(p, LegacyKid) /\ UNCHANGED used
          BY <2>2, <2>6, <3>1, Zenon DEF Keys!Adopt, Keys!TypeOK, KeysKept
      <3>2. CASE used # Kids /\ Keys!SetActive(p, Keys!NewKid) /\ used' = used \cup {Keys!NewKid}
          BY <2>2, <2>6, <3>2, NewKidIsNew, Zenon DEF Keys!Adopt, Keys!TypeOK
      <3> QED
          BY <2>6, <3>1, <3>2, Zenon DEF Keys!Adopt
    <2> QED
        BY <1>3, <2>4, <2>5, <2>6, Zenon DEF Keys!ReadMarker
  <1>4. ASSUME NEW p \in Replicas, Keys!WritePrivate(p) PROVE Keys!TypeOK'
      BY <1>4 DEF Keys!WritePrivate, Keys!TypeOK, KeysKept, Keys!Goto, Keys!past
  <1>5. ASSUME NEW p \in Replicas, Keys!WritePublic(p) PROVE Keys!TypeOK'
    <2>1. legacy' \in BOOLEAN
        BY <1>5, Zenon DEF Keys!WritePublic, Keys!TypeOK
    <2>2. active[p] \in used
        BY <1>5, Zenon DEF Keys!WritePublic, KeysKept
    <2> QED
        BY <1>5, <2>1, <2>2 DEF Keys!WritePublic, Keys!TypeOK, Keys!Goto, Keys!past
  <1>6. ASSUME NEW p \in Replicas, Keys!TruncateMarker(p) PROVE Keys!TypeOK'
      BY <1>6 DEF Keys!TruncateMarker, Keys!TypeOK, Keys!Goto, Keys!past
  <1>7. ASSUME NEW p \in Replicas, Keys!WriteMarker(p) PROVE Keys!TypeOK'
      BY <1>7 DEF Keys!WriteMarker, Keys!TypeOK, KeysKept, Keys!Goto, Keys!SetActive, Keys!Serve
  <1>8. ASSUME NEW p \in Replicas, Keys!BeginRotate(p) PROVE Keys!TypeOK'
    <2> DEFINE k == Keys!NewKid
    <2>1. k \in Kids \ used
        BY <1>8, NewKidIsNew, Zenon DEF Keys!BeginRotate, Keys!TypeOK
    <2> HIDE DEF k
    <2>2. [by |-> p, at |-> "private"] \in Keys!Rotations
        BY Zenon DEF Keys!Rotations
    <2>3. used' = used \cup {k} /\ rotating' = [rotating EXCEPT ![k] = [by |-> p, at |-> "private"]]
        BY <1>8, Zenon DEF Keys!BeginRotate, k
    <2>4. events' \in 0..MaxEvents
        BY <1>8, KeysAssumption DEF Keys!BeginRotate, Keys!TypeOK
    <2>5. phase[p] = "up" /\ UNCHANGED <<Keys!disk, Keys!memory, lock, Keys!past>>
        BY <1>8, Zenon DEF Keys!BeginRotate
    <2> QED
        BY <2>1, <2>2, <2>3, <2>4, <2>5, Zenon DEF Keys!TypeOK, Keys!disk, Keys!memory, Keys!past
  <1>9. ASSUME NEW p \in Replicas, Keys!RotateTruncate(p) PROVE Keys!TypeOK'
    <2>1. lock[p] \in Keys!Changes /\ lock[p].op = "rotate"
        BY <1>9, Zenon DEF Keys!RotateTruncate, Keys!Holds, Keys!TypeOK
    <2>2. lock' = [lock EXCEPT ![p] = [lock[p] EXCEPT !.at = "write"]]
        BY <1>9, Zenon DEF Keys!RotateTruncate
    <2>3. /\ [lock[p] EXCEPT !.at = "write"] \in Keys!Changes
          /\ [lock[p] EXCEPT !.at = "write"].kid = lock[p].kid
        BY <2>1, Zenon DEF Keys!Changes
    <2> HIDE DEF Keys!Changes
    <2> QED
        BY <1>9, <2>2, <2>3 DEF Keys!RotateTruncate, Keys!Holds, Keys!TypeOK, Keys!memory,
           Keys!past
  <1>10. ASSUME NEW p \in Replicas, Keys!RotateMarker(p) PROVE Keys!TypeOK'
      BY <1>10, Zenon DEF Keys!RotateMarker, Keys!TypeOK, Keys!memory, Keys!Holds
  <1>11. ASSUME NEW p \in Replicas, Keys!RotateMarkerFails(p) PROVE Keys!TypeOK'
      BY <1>11, Zenon DEF Keys!RotateMarkerFails, Keys!TypeOK, Keys!disk, Keys!memory
  <1>12. ASSUME NEW p \in Replicas, Keys!Retire(p) PROVE Keys!TypeOK'
    <2>1. PICK k \in loaded[p] \ {active[p]} :
              /\ loaded' = [loaded EXCEPT ![p] = @ \ {k}] /\ retired' = retired \cup {k}
              /\ lock' = [lock EXCEPT ![p] = [op |-> "retire", kid |-> k, at |-> "private"]]
        BY <1>12, Zenon DEF Keys!Retire
    <2>2. k \in used /\ k \in Kids
        BY Zenon DEF Keys!TypeOK, KeysKept
    <2>3. [op |-> "retire", kid |-> k, at |-> "private"] \in Keys!Changes
        BY <2>2, Zenon DEF Keys!Changes
    <2> QED
        BY <1>12, <2>1, <2>2, <2>3, Zenon DEF Keys!Retire, Keys!Free, Keys!TypeOK, Keys!disk
  <1>13. ASSUME NEW p \in Replicas, Keys!RemovePrivate(p) PROVE Keys!TypeOK'
    <2>1. lock[p] \in Keys!Changes /\ lock[p].op = "retire"
        BY <1>13, Zenon DEF Keys!RemovePrivate, Keys!Holds, Keys!TypeOK
    <2>2. lock' = [lock EXCEPT ![p] = [lock[p] EXCEPT !.at = "public"]]
        BY <1>13, Zenon DEF Keys!RemovePrivate
    <2>3. /\ [lock[p] EXCEPT !.at = "public"] \in Keys!Changes
          /\ [lock[p] EXCEPT !.at = "public"].kid = lock[p].kid
        BY <2>1, Zenon DEF Keys!Changes
    <2> HIDE DEF Keys!Changes
    <2> QED
        BY <1>13, <2>2, <2>3 DEF Keys!RemovePrivate, Keys!Holds, Keys!TypeOK, Keys!memory,
           Keys!past
  <1>14. ASSUME NEW p \in Replicas, Keys!RemovePublic(p) PROVE Keys!TypeOK'
      BY <1>14, Zenon DEF Keys!RemovePublic, Keys!TypeOK, Keys!memory, Keys!past
  <1>15. ASSUME NEW p \in Replicas, Keys!Kill(p) PROVE Keys!TypeOK'
      BY <1>15, KeysAssumption DEF Keys!Kill, Keys!TypeOK, Keys!Goto, Keys!SetActive,
         Keys!disk, Keys!Ends
  <1>16. ASSUME NEW k \in Kids, Keys!RotatePrivate(k) PROVE Keys!TypeOK'
    <2>1. rotating[k] \in Keys!Rotations
        BY <1>16, Zenon DEF Keys!RotatePrivate, Keys!TypeOK
    <2>2. rotating' = [rotating EXCEPT ![k] = [rotating[k] EXCEPT !.at = "public"]]
        BY <1>16, Zenon DEF Keys!RotatePrivate
    <2>3. /\ [rotating[k] EXCEPT !.at = "public"] \in Keys!Rotations
          /\ [rotating[k] EXCEPT !.at = "public"].by = rotating[k].by
        BY <2>1, Zenon DEF Keys!Rotations
    <2> QED
        BY <1>16, <2>2, <2>3 DEF Keys!RotatePrivate, Keys!TypeOK, Keys!memory, Keys!past
  <1>17. ASSUME NEW k \in Kids, Keys!RotatePublic(k) PROVE Keys!TypeOK'
    <2>1. rotating[k] \in Keys!Rotations
        BY <1>17, Zenon DEF Keys!RotatePublic, Keys!TypeOK
    <2>2. rotating' = [rotating EXCEPT ![k] = [rotating[k] EXCEPT !.at = "lock"]]
        BY <1>17, Zenon DEF Keys!RotatePublic
    <2>3. /\ [rotating[k] EXCEPT !.at = "lock"] \in Keys!Rotations
          /\ [rotating[k] EXCEPT !.at = "lock"].by = rotating[k].by
        BY <2>1, Zenon DEF Keys!Rotations
    <2> QED
        BY <1>17, <2>2, <2>3 DEF Keys!RotatePublic, Keys!TypeOK, Keys!memory, Keys!past
  <1>18. ASSUME NEW k \in Kids, Keys!RotateFails(k) PROVE Keys!TypeOK'
      BY <1>18, Zenon DEF Keys!RotateFails, Keys!TypeOK, Keys!disk, Keys!memory, Keys!past
  <1>19. ASSUME NEW k \in Kids, Keys!Switch(k) PROVE Keys!TypeOK'
    <2> DEFINE p == rotating[k].by
    <2>1. p \in Replicas /\ k \in used
        BY <1>19, Zenon DEF Keys!Switch, Keys!TypeOK, Keys!Rotations
    <2> HIDE DEF p
    <2>2. /\ Keys!Free(p) /\ Keys!Serve(p, k) /\ loaded' = [loaded EXCEPT ![p] = @ \cup {k}]
          /\ lock' = [lock EXCEPT ![p] = [op |-> "rotate", kid |-> k, at |-> "truncate"]]
        BY <1>19, Zenon DEF Keys!Switch, p
    <2>3. [op |-> "rotate", kid |-> k, at |-> "truncate"] \in Keys!Changes
        BY Zenon DEF Keys!Changes
    <2>4. /\ rotating' = [rotating EXCEPT ![k] = None]
          /\ UNCHANGED <<Keys!disk, used, phase, todo, events, retired, answered, overlap>>
        BY <1>19, Zenon DEF Keys!Switch
    <2> QED
        BY <2>1, <2>2, <2>3, <2>4, Zenon DEF Keys!Free, Keys!Serve, Keys!SetActive, Keys!TypeOK,
           Keys!disk
  <1>20. ASSUME UNCHANGED Keys!vars PROVE Keys!TypeOK'
      BY <1>20, Zenon DEF Keys!vars, Keys!disk, Keys!memory, Keys!past, Keys!TypeOK
  <1> QED
      BY <1>1, <1>2, <1>3, <1>4, <1>5, <1>6, <1>7, <1>8, <1>9, <1>10, <1>11, <1>12, <1>13,
         <1>14, <1>15, <1>16, <1>17, <1>18, <1>19, <1>20, Zenon DEF Keys!Next, Keys!StartStep,
         Keys!RetireRefused

\* The history bit that two servers shared the directory is never reset.
LEMMA OverlapStays == Keys!Next /\ overlap => overlap'
  <1> SUFFICES ASSUME Keys!Next, overlap PROVE overlap'
      BY Zenon
  <1>1. ASSUME NEW p \in Replicas, Keys!StartStep(p) PROVE overlap'
      BY <1>1, Zenon DEF Keys!StartStep, Keys!Start, Keys!LoadPair, Keys!ReadMarker,
         Keys!WritePrivate, Keys!WritePublic, Keys!TruncateMarker, Keys!WriteMarker, Keys!past
  <1>2. ASSUME NEW p \in Replicas,
               \/ Keys!BeginRotate(p) \/ Keys!RotateTruncate(p) \/ Keys!RotateMarker(p)
               \/ Keys!RotateMarkerFails(p) \/ Keys!Retire(p) \/ Keys!RetireRefused(p)
               \/ Keys!RemovePrivate(p) \/ Keys!RemovePublic(p) \/ Keys!Kill(p)
        PROVE  overlap'
      BY <1>2, Zenon DEF Keys!BeginRotate, Keys!RotateTruncate, Keys!RotateMarker,
         Keys!RotateMarkerFails, Keys!Retire, Keys!RetireRefused, Keys!RemovePrivate,
         Keys!RemovePublic, Keys!Kill, Keys!vars, Keys!past
  <1>3. ASSUME NEW k \in Kids,
               \/ Keys!RotatePrivate(k) \/ Keys!RotatePublic(k)
               \/ Keys!RotateFails(k) \/ Keys!Switch(k)
        PROVE  overlap'
      BY <1>3, Zenon DEF Keys!RotatePrivate, Keys!RotatePublic, Keys!RotateFails, Keys!Switch,
         Keys!past
  <1> QED
      BY <1>1, <1>2, <1>3, Zenon DEF Keys!Next

\* Whatever the servers on the directory do at the same time, KeysKept stays: a key is
\* taken out of the map before its files are removed (rsa_keys.rs, retire), and the files
\* are written before the key is put in (rotate).
LEMMA KeysFiles == Keys!TypeOK /\ KeysKept /\ Keys!Next => KeysKept'
  <1> SUFFICES ASSUME Keys!TypeOK, KeysKept, Keys!Next PROVE KeysKept'
      BY Zenon
  <1>1. ASSUME NEW p \in Replicas, Keys!Start(p) PROVE KeysKept'
      BY <1>1 DEF Keys!Start, Keys!Goto, Keys!disk, Keys!TypeOK, KeysKept, Keys!SigningKeysOnDisk
  <1>2. ASSUME NEW p \in Replicas, Keys!LoadPair(p) PROVE KeysKept'
      BY <1>2 DEF Keys!LoadPair, Keys!Goto, Keys!SetActive, Keys!disk, Keys!past, Keys!Load,
         Keys!Ends, Keys!TypeOK, KeysKept, Keys!SigningKeysOnDisk
  <1>3. ASSUME NEW p \in Replicas, Keys!ReadMarker(p) PROVE KeysKept'
      BY <1>3 DEF Keys!ReadMarker, Keys!Goto, Keys!SetActive, Keys!disk, Keys!Serve,
         Keys!Adopt, Keys!TypeOK, KeysKept, Keys!SigningKeysOnDisk
  <1>4. ASSUME NEW p \in Replicas, Keys!WritePrivate(p) PROVE KeysKept'
      BY <1>4 DEF Keys!WritePrivate, Keys!Goto, Keys!past, KeysKept, Keys!SigningKeysOnDisk
  <1>5. ASSUME NEW p \in Replicas, Keys!WritePublic(p) PROVE KeysKept'
    <2>1. legacy' => legacy
        BY <1>5, Zenon DEF Keys!WritePublic
    <2>2. /\ phase[p] = "public"
          /\ pub' = pub \cup {active[p]} /\ phase' = [phase EXCEPT ![p] = "mark"]
          /\ loaded' = [loaded EXCEPT ![p] = {active[p]}]
          /\ UNCHANGED <<priv, marker, used, todo, active, rotating, lock, events, Keys!past>>
        BY <1>5, Zenon DEF Keys!WritePublic, Keys!Goto
    <2> QED
        BY <2>1, <2>2 DEF Keys!past, Keys!TypeOK, KeysKept, Keys!SigningKeysOnDisk
  <1>6. ASSUME NEW p \in Replicas, Keys!TruncateMarker(p) PROVE KeysKept'
      BY <1>6 DEF Keys!TruncateMarker, Keys!Goto, Keys!past, KeysKept, Keys!SigningKeysOnDisk
  <1>7. ASSUME NEW p \in Replicas, Keys!WriteMarker(p) PROVE KeysKept'
      BY <1>7 DEF Keys!WriteMarker, Keys!Goto, Keys!SetActive, Keys!Serve, KeysKept,
         Keys!SigningKeysOnDisk
  <1>8. ASSUME NEW p \in Replicas, Keys!BeginRotate(p) PROVE KeysKept'
      BY <1>8 DEF Keys!BeginRotate, Keys!disk, Keys!memory, Keys!past, KeysKept,
         Keys!SigningKeysOnDisk
  <1>9. ASSUME NEW p \in Replicas, Keys!RotateTruncate(p) PROVE KeysKept'
      BY <1>9 DEF Keys!RotateTruncate, Keys!memory, Keys!past, Keys!Holds, KeysKept,
         Keys!SigningKeysOnDisk
  <1>10. ASSUME NEW p \in Replicas, Keys!RotateMarker(p) PROVE KeysKept'
      BY <1>10 DEF Keys!RotateMarker, Keys!memory, KeysKept, Keys!SigningKeysOnDisk
  <1>11. ASSUME NEW p \in Replicas, Keys!RotateMarkerFails(p) PROVE KeysKept'
      BY <1>11 DEF Keys!RotateMarkerFails, Keys!disk, Keys!memory, KeysKept,
         Keys!SigningKeysOnDisk
  <1>12. ASSUME NEW p \in Replicas, Keys!Retire(p) PROVE KeysKept'
      BY <1>12 DEF Keys!Retire, Keys!disk, KeysKept, Keys!SigningKeysOnDisk
  <1>13. ASSUME NEW p \in Replicas, Keys!RemovePrivate(p) PROVE KeysKept'
      BY <1>13 DEF Keys!RemovePrivate, Keys!memory, Keys!past, Keys!Holds, KeysKept,
         Keys!SigningKeysOnDisk
  <1>14. ASSUME NEW p \in Replicas, Keys!RemovePublic(p) PROVE KeysKept'
      BY <1>14 DEF Keys!RemovePublic, Keys!memory, Keys!past, Keys!Holds, KeysKept,
         Keys!SigningKeysOnDisk
  <1>15. ASSUME NEW p \in Replicas, Keys!Kill(p) PROVE KeysKept'
      BY <1>15 DEF Keys!Kill, Keys!Goto, Keys!SetActive, Keys!disk, Keys!Ends, Keys!TypeOK,
         KeysKept, Keys!SigningKeysOnDisk
  <1>16. ASSUME NEW k \in Kids, Keys!RotatePrivate(k) PROVE KeysKept'
      BY <1>16 DEF Keys!RotatePrivate, Keys!memory, Keys!past, KeysKept, Keys!SigningKeysOnDisk
  <1>17. ASSUME NEW k \in Kids, Keys!RotatePublic(k) PROVE KeysKept'
      BY <1>17 DEF Keys!RotatePublic, Keys!memory, Keys!past, KeysKept, Keys!SigningKeysOnDisk
  <1>18. ASSUME NEW k \in Kids, Keys!RotateFails(k) PROVE KeysKept'
      BY <1>18 DEF Keys!RotateFails, Keys!TypeOK, Keys!disk, Keys!memory, Keys!past, KeysKept,
         Keys!SigningKeysOnDisk
  <1>19. ASSUME NEW k \in Kids, Keys!Switch(k) PROVE KeysKept'
      BY <1>19 DEF Keys!Switch, Keys!SetActive, Keys!disk, Keys!Serve, Keys!TypeOK, KeysKept,
         Keys!SigningKeysOnDisk
  <1>20. ASSUME UNCHANGED Keys!vars PROVE KeysKept'
      BY <1>20, Zenon DEF Keys!vars, Keys!disk, Keys!memory, Keys!past, KeysKept,
         Keys!SigningKeysOnDisk
  <1> QED
      BY <1>1, <1>2, <1>3, <1>4, <1>5, <1>6, <1>7, <1>8, <1>9, <1>10, <1>11, <1>12, <1>13,
         <1>14, <1>15, <1>16, <1>17, <1>18, <1>19, <1>20, Zenon DEF Keys!Next, Keys!StartStep,
         Keys!RetireRefused

\* A step after which servers still have run one at a time keeps what one finds there: no
\* other server rotates or retires between its reads.
LEMMA KeysAlone ==
    Keys!TypeOK /\ KeysKept /\ Undisturbed /\ Keys!Next /\ ~overlap' => Undisturbed'
  <1> SUFFICES ASSUME Keys!TypeOK, KeysKept, Undisturbed, Keys!Next, ~overlap' PROVE Undisturbed'
      BY Zenon
  <1>1. ASSUME NEW p \in Replicas, Keys!Start(p) PROVE Undisturbed'
    <2>1. \A q \in Replicas \ {p} : phase[q] = "down"
        BY <1>1, Zenon DEF Keys!Start
    <2>2. /\ phase[p] = "down"
          /\ phase' = [phase EXCEPT ![p] = "load"] /\ todo' = [todo EXCEPT ![p] = priv]
          /\ UNCHANGED <<Keys!disk, used, loaded, active, rotating, lock, events,
                         served, retired, answered>>
        BY <1>1, Zenon DEF Keys!Start, Keys!Goto
    <2> QED
        BY <2>1, <2>2 DEF Keys!disk, Keys!Holds, Keys!TypeOK, KeysKept, Undisturbed,
           AnswerKept, Keys!SigningKeysOnDisk
  <1>2. ASSUME NEW p \in Replicas, Keys!LoadPair(p) PROVE Undisturbed'
      BY <1>2 DEF Keys!LoadPair, Keys!Goto, Keys!disk, Keys!past, Keys!Load, Keys!Ends,
         Keys!Holds, Keys!TypeOK, KeysKept, Undisturbed, AnswerKept, Keys!SigningKeysOnDisk,
         Keys!Rotations
  <1>3. ASSUME NEW p \in Replicas, Keys!ReadMarker(p) PROVE Undisturbed'
      BY <1>3 DEF Keys!ReadMarker, Keys!Goto, Keys!SetActive, Keys!disk, Keys!Serve,
         Keys!Adopt, Keys!Holds, Keys!TypeOK, Undisturbed, AnswerKept
  <1>4. ASSUME NEW p \in Replicas, Keys!WritePrivate(p) PROVE Undisturbed'
      BY <1>4 DEF Keys!WritePrivate, Keys!Goto, Keys!past, Undisturbed, AnswerKept
  <1>5. ASSUME NEW p \in Replicas, Keys!WritePublic(p) PROVE Undisturbed'
      BY <1>5 DEF Keys!WritePublic, Keys!Goto, Keys!past, Keys!TypeOK, KeysKept, Undisturbed,
         AnswerKept
  <1>6. ASSUME NEW p \in Replicas, Keys!TruncateMarker(p) PROVE Undisturbed'
      BY <1>6 DEF Keys!TruncateMarker, Keys!Goto, Keys!past, Undisturbed, AnswerKept
  <1>7. ASSUME NEW p \in Replicas, Keys!WriteMarker(p) PROVE Undisturbed'
      BY <1>7, SMTT(40) DEF Keys!WriteMarker, Keys!Goto, Keys!SetActive, Keys!Serve,
         Keys!TypeOK, KeysKept, Undisturbed, AnswerKept
  <1>8. ASSUME NEW p \in Replicas, Keys!BeginRotate(p) PROVE Undisturbed'
      BY <1>8, NewKidIsNew, SMTT(40) DEF Keys!BeginRotate, Keys!disk, Keys!memory, Keys!past,
         Keys!Holds, Keys!TypeOK, Undisturbed, AnswerKept
  <1>9. ASSUME NEW p \in Replicas, Keys!RotateTruncate(p) PROVE Undisturbed'
    <2>1. lock[p] \in Keys!Changes /\ lock[p] # None /\ lock[p].op = "rotate"
        BY <1>9, Zenon DEF Keys!RotateTruncate, Keys!Holds, Keys!TypeOK
    <2>2. lock' = [lock EXCEPT ![p] = [lock[p] EXCEPT !.at = "write"]] /\ marker' = Torn
        BY <1>9, Zenon DEF Keys!RotateTruncate
    <2>3. /\ [lock[p] EXCEPT !.at = "write"].kid = lock[p].kid
          /\ [lock[p] EXCEPT !.at = "write"].op = "rotate" /\ [lock[p] EXCEPT !.at = "write"].at = "write"
          /\ [lock[p] EXCEPT !.at = "write"] # None
        BY <2>1, KeysAssumption, Zenon DEF Keys!Changes
    <2>4. UNCHANGED <<priv, pub, legacy, used, Keys!memory, rotating, events, Keys!past>>
        BY <1>9, Zenon DEF Keys!RotateTruncate
    <2> QED
        BY <2>1, <2>2, <2>3, <2>4 DEF Keys!memory, Keys!past, Keys!Holds, Keys!TypeOK,
           Undisturbed, AnswerKept
  <1>10. ASSUME NEW p \in Replicas, Keys!RotateMarker(p) PROVE Undisturbed'
      BY <1>10 DEF Keys!RotateMarker, Keys!memory, Keys!Holds, Keys!TypeOK, KeysKept,
         Undisturbed, AnswerKept
  <1>11. ASSUME NEW p \in Replicas, Keys!RotateMarkerFails(p) PROVE Undisturbed'
      BY <1>11 DEF Keys!RotateMarkerFails, Keys!disk, Keys!memory, Undisturbed
  <1>12. ASSUME NEW p \in Replicas, Keys!Retire(p) PROVE Undisturbed'
      BY <1>12 DEF Keys!Retire, Keys!disk, Keys!Free, Keys!Holds, Keys!TypeOK, Undisturbed,
         AnswerKept, Keys!Rotations
  <1>13. ASSUME NEW p \in Replicas, Keys!RemovePrivate(p) PROVE Undisturbed'
      BY <1>13 DEF Keys!RemovePrivate, Keys!memory, Keys!past, Keys!Holds, Keys!TypeOK,
         KeysKept, Undisturbed, AnswerKept
  <1>14. ASSUME NEW p \in Replicas, Keys!RemovePublic(p) PROVE Undisturbed'
      BY <1>14 DEF Keys!RemovePublic, Keys!memory, Keys!past, Keys!Holds, Keys!TypeOK,
         KeysKept, Undisturbed, AnswerKept
  <1>15. ASSUME NEW p \in Replicas, Keys!Kill(p) PROVE Undisturbed'
      BY <1>15 DEF Keys!Kill, Keys!Goto, Keys!disk, Keys!Ends, Keys!Holds, Keys!TypeOK,
         Undisturbed, AnswerKept
  <1>16. ASSUME NEW k \in Kids, Keys!RotatePrivate(k) PROVE Undisturbed'
      BY <1>16 DEF Keys!RotatePrivate, Keys!memory, Keys!past, Keys!Holds, Undisturbed, AnswerKept
  <1>17. ASSUME NEW k \in Kids, Keys!RotatePublic(k) PROVE Undisturbed'
      BY <1>17 DEF Keys!RotatePublic, Keys!memory, Keys!past, Keys!Holds, Undisturbed, AnswerKept
  <1>18. ASSUME NEW k \in Kids, Keys!RotateFails(k) PROVE Undisturbed'
      BY <1>18 DEF Keys!RotateFails, Keys!TypeOK, Keys!disk, Keys!memory, Keys!past,
         Keys!Holds, Undisturbed, AnswerKept
  <1>19. ASSUME NEW k \in Kids, Keys!Switch(k) PROVE Undisturbed'
    <2> DEFINE p == rotating[k].by
    <2>1. p \in Replicas /\ rotating[k] # None /\ rotating[k].at = "lock"
        BY <1>19, Zenon DEF Keys!Switch, Keys!TypeOK, Keys!Rotations
    <2>2. k \notin retired \cup loaded[p] /\ k \in priv \cap pub
        BY <2>1, Zenon DEF KeysKept, Undisturbed
    <2> HIDE DEF p
    <2>3. /\ Keys!Free(p) /\ Keys!Serve(p, k) /\ loaded' = [loaded EXCEPT ![p] = @ \cup {k}]
          /\ lock' = [lock EXCEPT ![p] = [op |-> "rotate", kid |-> k, at |-> "truncate"]]
        BY <1>19, Zenon DEF Keys!Switch, p
    <2>4. /\ rotating' = [rotating EXCEPT ![k] = None]
          /\ UNCHANGED <<Keys!disk, used, phase, todo, events, retired, answered, overlap>>
        BY <1>19, Zenon DEF Keys!Switch
    <2>5. [op |-> "rotate", kid |-> k, at |-> "truncate"] # None
        BY KeysAssumption DEF Keys!Changes
    <2> QED
        BY <2>1, <2>2, <2>3, <2>4, <2>5 DEF Keys!Free, Keys!Serve, Keys!disk, Keys!Holds,
           Keys!TypeOK, Undisturbed, AnswerKept
  <1>20. ASSUME UNCHANGED Keys!vars PROVE Undisturbed'
      BY <1>20, Zenon DEF Keys!vars, Keys!disk, Keys!memory, Keys!past, Keys!Holds,
         Undisturbed, AnswerKept
  <1> QED
      BY <1>1, <1>2, <1>3, <1>4, <1>5, <1>6, <1>7, <1>8, <1>9, <1>10, <1>11, <1>12, <1>13,
         <1>14, <1>15, <1>16, <1>17, <1>18, <1>19, <1>20, Zenon DEF Keys!Next, Keys!StartStep,
         Keys!RetireRefused

\* The invariant of the key set is inductive.
LEMMA KeysNext == KeysInv /\ [Keys!Next]_(Keys!vars) => KeysInv'
  <1> SUFFICES ASSUME KeysInv, [Keys!Next]_(Keys!vars) PROVE KeysInv'
      BY Zenon
  <1>1. CASE Keys!Next
    <2>1. overlap => overlap'
        BY <1>1, OverlapStays, Zenon
    <2> QED
        BY <1>1, <2>1, KeysTypes, KeysFiles, KeysAlone, Zenon DEF KeysInv
  <1>2. CASE UNCHANGED Keys!vars
    <2>1. Keys!TypeOK'
        BY <1>2, Zenon DEF KeysInv, Keys!TypeOK, Keys!vars, Keys!disk, Keys!memory, Keys!past
    <2>2. KeysKept'
        BY <1>2, Zenon DEF KeysInv, KeysKept, Keys!SigningKeysOnDisk, Keys!vars, Keys!disk,
           Keys!memory, Keys!past
    <2>3. (~overlap => Undisturbed)'
        BY <1>2, Zenon DEF KeysInv, Undisturbed, AnswerKept, Keys!Holds, Keys!vars, Keys!disk,
           Keys!memory, Keys!past
    <2> QED
        BY <2>1, <2>2, <2>3, Zenon DEF KeysInv
  <1> QED
      BY <1>1, <1>2, Zenon

\* What the run checks of the key set follows: the active kid is loaded and backed by files,
\* tokens verify, and a start comes back with the rotation that answered.
LEMMA KeysSound ==
    KeysInv => Keys!TypeOK /\ KeysBacked /\ KeysSurvive
  <1> SUFFICES ASSUME KeysInv PROVE Keys!TypeOK /\ KeysBacked /\ KeysSurvive
      BY Zenon
  <1>1. Keys!TypeOK /\ Keys!SigningKeysOnDisk
      BY Zenon DEF KeysInv, KeysKept
  <1>2. Keys!ActiveLoaded
      BY Zenon DEF KeysInv, KeysKept, Keys!ActiveLoaded
  <1>3. ASSUME NEW p \in Replicas, ~overlap, Keys!Serving(p)
        PROVE  /\ \A k \in served \ retired : Keys!Verifies(p, k)
               /\ answered # None => Keys!SigningKey(p) = answered
      BY <1>3, Zenon DEF KeysInv, KeysKept, Undisturbed, AnswerKept, Keys!Serving, Keys!Verifies,
         Keys!SigningKey
  <1> QED
      BY <1>1, <1>2, <1>3, Zenon
         DEF KeysBacked, KeysSurvive, Keys!TokensVerify, Keys!RestartKeepsActive

-----------------------------------------------------------------------------
(* Both.                                                                    *)

StartupInv == SeedersInv /\ KeysInv

\* MCNext runs one of the components and leaves the other alone.
LEMMA StartupAlways == MCSpec => []StartupInv
  <1>1. MCInit => StartupInv
      BY SeedersInit, KeysInit, Zenon DEF MCInit, StartupInv
  <1>2. StartupInv /\ [MCNext]_<<vars, keyVars, part>> => StartupInv'
    <2> SUFFICES ASSUME StartupInv, [MCNext]_<<vars, keyVars, part>> PROVE StartupInv'
        BY Zenon
    <2>1. [Next]_vars
        BY Zenon DEF MCNext
    <2>2. keyVars' = keyVars => UNCHANGED Keys!vars
        BY Zenon DEF keyVars, Keys!vars, Keys!disk, Keys!memory, Keys!past
    <2>3. [Keys!Next]_(Keys!vars)
        BY <2>2, Zenon DEF MCNext
    <2> QED
        BY <2>1, <2>3, SeedersNext, KeysNext, Zenon DEF StartupInv
  <1> QED
      BY <1>1, <1>2, PTL DEF MCSpec

\* The seeders and the key set keep their types, and with them that the advisory lock is
\* held inside a seeder's transaction only and that the account has one credential at most.
THEOREM StartupTypes == MCSpec => []TypesOK
  <1>1. StartupInv => TypesOK
      BY SeedersSound, KeysSound, Zenon DEF StartupInv, TypesOK
  <1> QED
      BY <1>1, StartupAlways, PTL

\* A replica that serves requests has everything in the database that the seeders promise,
\* up to the three exceptions that UpMeansSeeded names (main.rs awaits the seeders).
THEOREM ServingIsSeeded == MCSpec => []UpMeansSeeded
  <1>1. StartupInv => UpMeansSeeded
      BY SeedersSound, Zenon DEF StartupInv
  <1> QED
      BY <1>1, StartupAlways, PTL

\* A seeder ends its process only when another replica won the race for the row.
THEOREM SeedersFailInRace == MCSpec => []FailsOnlyInRace
  <1>1. StartupInv => FailsOnlyInRace
      BY SeedersSound, Zenon DEF StartupInv
  <1> QED
      BY <1>1, StartupAlways, PTL

\* A client secret that an admin chose stays as soon as no copy of the plaintext one is
\* around: no start, edit, lookup or fill of Redis takes it back
\* (bootstrap/web_app_client.rs:81).
THEOREM ChosenSecretStays == MCSpec => RotatedSecretKept
  <1>1. StartupInv /\ [MCNext]_<<vars, keyVars, part>> =>
            [secret = "rotated" /\ ~PlaintextAround =>
                secret' = "rotated" /\ ~PlaintextAround']_vars
    <2> SUFFICES ASSUME StartupInv, [MCNext]_<<vars, keyVars, part>>,
                        secret = "rotated", ~PlaintextAround
                 PROVE  secret' = "rotated" /\ ~PlaintextAround'
        BY Zenon
    <2>1. [Next]_vars
        BY Zenon DEF MCNext
    <2> QED
        BY <2>1, ChosenSteps, Zenon DEF StartupInv
  <1> QED
      BY <1>1, StartupAlways, PTL DEF MCSpec, RotatedSecretKept

\* The active kid points at a loaded pair (rsa_keys.rs:156), and a key that may have signed
\* has its files until it is retired, with any number of servers on the directory.
THEOREM KeysOnDisk == MCSpec => []KeysBacked
  <1>1. StartupInv => KeysBacked
      BY KeysSound, Zenon DEF StartupInv
  <1> QED
      BY <1>1, StartupAlways, PTL

\* While servers run one at a time every token verifies and the last rotation that answered
\* is in force, over failed rotations, kills and restarts (main.rs:114).
THEOREM RotationsSurvive == MCSpec => []KeysSurvive
  <1>1. StartupInv => KeysSurvive
      BY KeysSound, Zenon DEF StartupInv
  <1> QED
      BY <1>1, StartupAlways, PTL
=============================================================================
