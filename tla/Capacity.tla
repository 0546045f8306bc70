------------------------------ MODULE Capacity ------------------------------
(***************************************************************************)
(* What requests compete for: the connections of the Postgres pool and the *)
(* permits for Argon2.  A handler is the sequence of the stages at which   *)
(* it needs one of them:                                                   *)
(*   query    statements outside a transaction, a connection for each      *)
(*   role     a query whose failure is ignored                             *)
(*   begin    a transaction, which keeps its connection up to commit       *)
(*   hash     run_bounded: a permit, then a closure on a blocking thread   *)
(*   inline   a hash on the thread of the handler, without a permit        *)
(***************************************************************************)
EXTENDS Naturals, Sequences, FiniteSets

CONSTANTS
    Requests,
    MaxConnections, Permits,
    MaxOrphans       \* bound: closures whose handler is gone

ASSUME CapacityAssumption ==
    /\ MaxConnections \in Nat \ {0} /\ Permits \in Nat \ {0}
    /\ MaxOrphans \in Nat

\* POST /auth/login: the user and the credential, the password, the session.
Login == <<"query", "hash", "query">>

\* grant_type=authorization_code: the client, its secret, the user and the
\* session, and in the transaction the roles on a connection of their own.
\* The grant by device code has the same stages.
Exchange == <<"query", "hash", "query", "begin", "query", "commit">>

\* grant_type=refresh_token: the user, the session and the roles are read
\* while the transaction is open.
Refresh == <<"query", "hash", "begin", "query", "commit">>

\* POST /oauth/revoke: the secret is verified by the handler itself.
Revoke == <<"query", "inline", "query">>

\* Mutant: the password is hashed inside the transaction.
Signup_HashInTx == <<"begin", "inline", "role", "commit">>

\* POST /auth/signup: the password is hashed before the transaction, the
\* default role is looked up inside it.
Signup == <<"inline", "begin", "role", "commit">>

Handlers == {Login, Exchange, Refresh, Revoke, Signup}

VARIABLES
    free,      \* idle connections of the pool
    holders,   \* requests that hold a permit of the semaphore
    line,      \* requests that wait for a permit, first come first served
    orphans,   \* closures that run on although their handler was dropped
    todo,      \* stages that the request has yet to finish
    pc,        \* "idle", "ready" for its next stage, in a "query", or at a "hash"
    tx         \* the request has a transaction open

vars == <<free, holders, line, orphans, todo, pc, tx>>

Init ==
    /\ free = MaxConnections /\ holders = {}
    /\ line = <<>> /\ orphans = 0
    /\ todo = [r \in Requests |-> <<>>] /\ pc = [r \in Requests |-> "idle"]
    /\ tx = [r \in Requests |-> FALSE]

Begin(r, handler) ==
    /\ pc[r] = "idle"
    /\ todo' = [todo EXCEPT ![r] = handler]
    /\ pc' = [pc EXCEPT ![r] = "ready"]
    /\ UNCHANGED <<free, holders, line, orphans, tx>>

\* The stage is over; after the last one the handler answers.
Finish(r) ==
    /\ todo' = [todo EXCEPT ![r] = Tail(@)]
    /\ pc' = [pc EXCEPT ![r] = IF Len(todo[r]) = 1 THEN "idle" ELSE "ready"]

At(r, stages) == pc[r] = "ready" /\ Head(todo[r]) \in stages

\* The handler is over before its last stage: what it holds is given back,
\* a transaction is rolled back.
Leave(r) ==
    /\ free' = free + (IF tx[r] THEN 1 ELSE 0) + (IF pc[r] = "query" THEN 1 ELSE 0)
    /\ tx' = [tx EXCEPT ![r] = FALSE]
    /\ todo' = [todo EXCEPT ![r] = <<>>]
    /\ pc' = [pc EXCEPT ![r] = "idle"]

-----------------------------------------------------------------------------
(* The pool.                                                               *)

StartQuery(r) ==
    /\ At(r, {"query", "role"}) /\ free > 0
    /\ free' = free - 1
    /\ pc' = [pc EXCEPT ![r] = "query"]
    /\ UNCHANGED <<holders, line, orphans, todo, tx>>

EndQuery(r) ==
    /\ pc[r] = "query"
    /\ free' = free + 1
    /\ Finish(r)
    /\ UNCHANGED <<holders, line, orphans, tx>>

\* The statement fails, or what it finds ends the handler.
FailQuery(r) ==
    /\ pc[r] = "query" /\ Head(todo[r]) = "query"
    /\ Leave(r)
    /\ UNCHANGED <<holders, line, orphans>>

BeginTx(r) ==
    /\ At(r, {"begin"}) /\ free > 0
    /\ free' = free - 1 /\ tx' = [tx EXCEPT ![r] = TRUE]
    /\ Finish(r)
    /\ UNCHANGED <<holders, line, orphans>>

\* Mutant: what was committed is rolled back once more when it is dropped.
Commit_KeepsTx(r) ==
    /\ At(r, {"commit"})
    /\ free' = free + 1
    /\ Finish(r)
    /\ UNCHANGED <<holders, line, orphans, tx>>

Commit(r) ==
    /\ At(r, {"commit"})
    /\ free' = free + 1 /\ tx' = [tx EXCEPT ![r] = FALSE]
    /\ Finish(r)
    /\ UNCHANGED <<holders, line, orphans>>

\* Mutant: a pool that lets its callers wait as long as it takes.
AcquireTimeout_Never(r) == FALSE /\ UNCHANGED vars

\* sqlx gives up after acquire_timeout, and `?` ends the handler.  Signup
\* goes on without the role that it wanted to look up.
AcquireTimeout(r) ==
    /\ free = 0
    /\ \/ At(r, {"query", "begin"}) /\ Leave(r)
       \/ At(r, {"role"}) /\ Finish(r) /\ UNCHANGED <<free, tx>>
    /\ UNCHANGED <<holders, line, orphans>>

-----------------------------------------------------------------------------
(* argon2_hasher.                                                          *)

\* The request waits for a permit.
Queued(r) == \E i \in 1..Len(line) : line[i] = r

\* Semaphore::acquire queues the caller.
Queue(r) ==
    /\ At(r, {"hash"}) /\ ~Queued(r)
    /\ line' = Append(line, r)
    /\ UNCHANGED <<free, holders, orphans, todo, pc, tx>>

\* Mutant: `let _ = acquire()`, which drops the permit at once.
StartHash_NoPermit(r) ==
    /\ At(r, {"hash"}) /\ line # <<>> /\ Head(line) = r /\ Cardinality(holders) < Permits
    /\ line' = Tail(line)
    /\ pc' = [pc EXCEPT ![r] = "hash"]
    /\ UNCHANGED <<free, holders, orphans, todo, tx>>

\* The permit, and spawn_blocking.
StartHash(r) ==
    /\ At(r, {"hash"}) /\ line # <<>> /\ Head(line) = r /\ Cardinality(holders) < Permits
    /\ holders' = holders \cup {r} /\ line' = Tail(line)
    /\ pc' = [pc EXCEPT ![r] = "hash"]
    /\ UNCHANGED <<free, orphans, todo, tx>>

\* The closure returns; a wrong password or secret ends the handler.
EndHash(r) ==
    /\ pc[r] = "hash" /\ Head(todo[r]) = "hash"
    /\ holders' = holders \ {r}
    /\ \/ Finish(r) /\ UNCHANGED <<free, tx>>
       \/ Leave(r)
    /\ UNCHANGED <<line, orphans>>

\* A legacy plaintext secret and a public client need no hash.
SkipHash(r) ==
    /\ At(r, {"hash"}) /\ ~Queued(r) /\ todo[r] # Tail(Login)
    /\ Finish(r)
    /\ UNCHANGED <<free, holders, line, orphans, tx>>

StartInline(r) ==
    /\ At(r, {"inline"})
    /\ pc' = [pc EXCEPT ![r] = "hash"]
    /\ UNCHANGED <<free, holders, line, orphans, todo, tx>>

EndInline(r) ==
    /\ pc[r] = "hash" /\ Head(todo[r]) = "inline"
    /\ \/ Finish(r) /\ UNCHANGED <<free, tx>>
       \/ Leave(r)
    /\ UNCHANGED <<holders, line, orphans>>

-----------------------------------------------------------------------------
(* The client goes away: the handler is dropped at an await.  The permit   *)
(* is given back, the closure runs to its end.                             *)

\* The waiter's place in the line is given up.
Unqueue(r) ==
    \/ ~Queued(r) /\ UNCHANGED line
    \/ \E i \in 1..Len(line) :
          /\ line[i] = r
          /\ line' = [j \in 1..(Len(line) - 1) |-> line[IF j < i THEN j ELSE j + 1]]

Drop(r) ==
    /\ pc[r] # "idle" /\ ~(pc[r] = "hash" /\ Head(todo[r]) = "inline")
    /\ Leave(r)
    /\ Unqueue(r) /\ holders' = holders \ {r}
    /\ \/ pc[r] # "hash" /\ UNCHANGED orphans
       \/ pc[r] = "hash" /\ orphans < MaxOrphans /\ orphans' = orphans + 1

EndOrphan ==
    /\ orphans > 0
    /\ orphans' = orphans - 1
    /\ UNCHANGED <<free, holders, line, todo, pc, tx>>

Step(r) ==
    \/ StartQuery(r) \/ EndQuery(r) \/ FailQuery(r) \/ BeginTx(r)
    \/ Commit(r) \/ AcquireTimeout(r) \/ Queue(r) \/ StartHash(r) \/ EndHash(r)
    \/ SkipHash(r) \/ StartInline(r) \/ EndInline(r)

Next ==
    \/ \E r \in Requests :
          \/ Step(r) \/ Drop(r)
          \/ \E handler \in Handlers : Begin(r, handler)
    \/ EndOrphan

\* Statements and hashes end, a free connection or permit is taken by
\* someone who waits for it, and a wait for a connection times out.
Fairness == \A r \in Requests : WF_vars(Step(r))

Spec == Init /\ [][Next]_vars /\ Fairness

-----------------------------------------------------------------------------
(* Properties.                                                             *)

Stages == {"query", "role", "begin", "commit", "hash", "inline"}

TypeOK ==
    /\ free \in 0..MaxConnections /\ holders \subseteq Requests
    /\ line \in Seq(Requests) /\ orphans \in 0..MaxOrphans
    /\ todo \in [Requests -> Seq(Stages)]
    /\ pc \in [Requests -> {"idle", "ready", "query", "hash"}]
    /\ tx \in [Requests -> BOOLEAN]

Hashing(stage) == {r \in Requests : pc[r] = "hash" /\ Head(todo[r]) = stage}

\* Argon2 stays within its permits but for the handlers that hash on their
\* own thread and the closures of dropped handlers (argon2.rs run_bounded);
\* and no request that hashes, or waits to, keeps a connection from others
\* (signup/flow.rs: hash before opening the transaction).
HashingApart ==
    /\ Cardinality(Hashing("hash")) <= Permits
    /\ \A r \in Requests : pc[r] = "hash" \/ Queued(r) => ~tx[r]

\* Every request is answered, also when the open transactions hold all the
\* connections and each waits for one more (token/flow.rs from_refresh_token).
RequestsServed == \A r \in Requests : []<>(pc[r] = "idle")
=============================================================================
