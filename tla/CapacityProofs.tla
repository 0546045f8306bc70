--------------------------- MODULE CapacityProofs ---------------------------
(***************************************************************************)
(* What holds of connections and Argon2 permits for any number of          *)
(* requests, connections and permits.                                      *)
(*                                                                         *)
(* No request hashes while it holds a connection, because no handler has a *)
(* hash between begin and commit: Outside and Inside are what a handler    *)
(* may have left to do without and within a transaction, and StageOf says  *)
(* that every request is at one of these.  Connections and permits are     *)
(* counted by comparing sets that differ in one request (Counted).  With   *)
(* the invariant of SessionsProofs this gives the types of MCProgress.     *)
(***************************************************************************)
EXTENDS MCProgress, FiniteSetTheorems, TLAPS

\* What a handler may have left to do outside of its transaction, and inside.
Outside ==
    {<<"query", "hash", "query">>, <<"hash", "query">>, <<"query">>,
     <<"query", "hash", "query", "begin", "query", "commit">>,
     <<"hash", "query", "begin", "query", "commit">>, <<"query", "begin", "query", "commit">>,
     <<"query", "hash", "begin", "query", "commit">>, <<"hash", "begin", "query", "commit">>,
     <<"begin", "query", "commit">>,
     <<"query", "inline", "query">>, <<"inline", "query">>,
     <<"inline", "begin", "role", "commit">>, <<"begin", "role", "commit">>}

Inside == {<<"query", "commit">>, <<"role", "commit">>, <<"commit">>}

\* Outside of a transaction a handler queries, hashes or begins one, and what it has left
\* after that is again outside, or inside.
LEMMA OutsideStages ==
    ASSUME NEW s \in Outside
    PROVE  /\ s \in Seq(Stages) /\ Tail(s) \in Seq(Stages)
           /\ Head(s) \in {"query", "hash", "inline", "begin"}
           /\ Head(s) = "begin" => Len(s) # 1 /\ Tail(s) \in Inside
           /\ Head(s) # "begin" => Len(s) = 1 \/ Tail(s) \in Outside
  <1>1. CASE s = <<"query", "hash", "query">>
      BY <1>1 DEF Outside, Stages
  <1>2. CASE s = <<"hash", "query">>
      BY <1>2 DEF Outside, Stages
  <1>3. CASE s = <<"query">>
      BY <1>3 DEF Stages
  <1>4. CASE s = <<"query", "hash", "query", "begin", "query", "commit">>
      BY <1>4 DEF Outside, Stages
  <1>5. CASE s = <<"hash", "query", "begin", "query", "commit">>
      BY <1>5 DEF Outside, Stages
  <1>6. CASE s = <<"query", "begin", "query", "commit">>
      BY <1>6 DEF Outside, Stages
  <1>7. CASE s = <<"query", "hash", "begin", "query", "commit">>
      BY <1>7 DEF Outside, Stages
  <1>8. CASE s = <<"hash", "begin", "query", "commit">>
      BY <1>8 DEF Outside, Stages
  <1>9. CASE s = <<"begin", "query", "commit">>
      BY <1>9 DEF Inside, Stages
  <1>10. CASE s = <<"query", "inline", "query">>
      BY <1>10 DEF Outside, Stages
  <1>11. CASE s = <<"inline", "query">>
      BY <1>11 DEF Outside, Stages
  <1>12. CASE s = <<"inline", "begin", "role", "commit">>
      BY <1>12 DEF Outside, Stages
  <1>13. CASE s = <<"begin", "role", "commit">>
      BY <1>13 DEF Inside, Stages
  <1> QED
      BY <1>1, <1>2, <1>3, <1>4, <1>5, <1>6, <1>7, <1>8, <1>9, <1>10, <1>11, <1>12, <1>13,
         Zenon DEF Outside

\* Inside it queries, reads a role over another connection or commits: no handler hashes
\* a password while it holds a transaction.
LEMMA InsideStages ==
    ASSUME NEW s \in Inside
    PROVE  /\ s \in Seq(Stages) /\ Tail(s) \in Seq(Stages)
           /\ Head(s) \in {"query", "role", "commit"}
           /\ Head(s) = "commit" => Len(s) = 1
           /\ Head(s) # "commit" => Len(s) # 1 /\ Tail(s) \in Inside
  <1>1. CASE s = <<"query", "commit">>
      BY <1>1 DEF Inside, Stages
  <1>2. CASE s = <<"role", "commit">>
      BY <1>2 DEF Inside, Stages
  <1>3. CASE s = <<"commit">>
      BY <1>3 DEF Stages
  <1> QED
      BY <1>1, <1>2, <1>3, Zenon DEF Inside

\* Every handler starts outside of a transaction.
LEMMA HandlersOutside == Handlers \subseteq Outside
  BY Zenon DEF Handlers, Outside, Login, Exchange, Refresh, Revoke, Signup

\* A condition as a number.
Bit(b) == IF b THEN 1 ELSE 0

\* Two sets that differ in one element at most have cardinalities that differ by it.
LEMMA Counted ==
    ASSUME NEW S, IsFiniteSet(S), NEW T, NEW r, \A q : q # r => (q \in T <=> q \in S)
    PROVE  /\ IsFiniteSet(T) /\ Cardinality(S) \in Nat /\ Cardinality(T) \in Nat
           /\ Cardinality(T) + Bit(r \in S) = Cardinality(S) + Bit(r \in T)
  <1>1. Cardinality(S) \in Nat
      BY FS_CardinalityType, Zenon
  <1>2. CASE r \in S /\ r \notin T
    <2>1. T = S \ {r}
        BY <1>2, Zenon
    <2>2. IsFiniteSet(T) /\ Cardinality(T) = Cardinality(S) - 1
        BY <1>2, <2>1, FS_RemoveElement, Zenon
    <2>3. Cardinality(T) \in Nat
        BY <2>2, FS_CardinalityType, Zenon
    <2> QED
        BY <1>1, <1>2, <2>2, <2>3 DEF Bit
  <1>3. CASE r \notin S /\ r \in T
    <2>1. T = S \cup {r}
        BY <1>3, Zenon
    <2>2. IsFiniteSet(T) /\ Cardinality(T) = Cardinality(S) + 1
        BY <1>3, <2>1, FS_AddElement, Zenon
    <2> QED
        BY <1>1, <1>3, <2>2 DEF Bit
  <1>4. CASE r \in S <=> r \in T
    <2>1. T = S
        BY <1>4
    <2> QED
        BY <1>1, <2>1, Zenon
  <1> QED
      BY <1>2, <1>3, <1>4, Zenon

\* The requests that hold a connection for a transaction, and those that hold one for a
\* query.
InTx == {r \in Requests : tx[r]}
Querying == {r \in Requests : pc[r] = "query"}

\* The pool: every connection is free or held, once.
Pool ==
    /\ IsFiniteSet(InTx) /\ IsFiniteSet(Querying) /\ free \in Nat
    /\ free + Cardinality(InTx) + Cardinality(Querying) = MaxConnections

\* The semaphore: its holders are the requests that hash under it, and there are no more of
\* them than permits.
Permitted == holders = Hashing("hash") /\ IsFiniteSet(holders) /\ Cardinality(holders) <= Permits

\* A request is where its handler is: whether it holds a transaction decides what it may
\* have left to do.
StageOf(r) ==
    /\ pc[r] = "idle" => ~tx[r]
    /\ pc[r] # "idle" /\ tx[r] => todo[r] \in Inside
    /\ pc[r] # "idle" /\ ~tx[r] => todo[r] \in Outside
    /\ pc[r] = "query" => Head(todo[r]) \in {"query", "role"}
    /\ pc[r] = "hash" => Head(todo[r]) \in {"hash", "inline"}

\* The queue of the semaphore: no request waits twice, and those that wait are at a hash.
Distinct == \A i, j \in 1..Len(line) : line[i] = line[j] => i = j

Waiting == \A i \in 1..Len(line) : At(line[i], {"hash"})

\* Inductive.
CapacityInv ==
    /\ TypeOK /\ Pool /\ Permitted /\ Distinct /\ Waiting
    /\ \A r \in Requests : StageOf(r)

\* A step changes what one request does, and leaves it at a stage of its handler.
Moves(r) ==
    /\ todo' \in [Requests -> Seq(Stages)]
    /\ pc' \in [Requests -> {"idle", "ready", "query", "hash"}]
    /\ tx' \in [Requests -> BOOLEAN]
    /\ \A q \in Requests \ {r} : pc'[q] = pc[q] /\ todo'[q] = todo[q] /\ tx'[q] = tx[q]
    /\ StageOf(r)'

\* A stage that is done: a transaction is held from its begin until its commit.
LEMMA FinishMoves ==
    ASSUME TypeOK, NEW r \in Requests, StageOf(r), pc[r] # "idle", Finish(r),
           NEW b \in BOOLEAN, tx' = [tx EXCEPT ![r] = b],
           b <=> (Head(todo[r]) = "begin" \/ (tx[r] /\ Head(todo[r]) # "commit"))
    PROVE  Moves(r) /\ todo'[r] = Tail(todo[r]) /\ pc'[r] \in {"idle", "ready"}
  <1>1. Tail(todo[r]) \in Seq(Stages)
      BY OutsideStages, InsideStages, Zenon DEF StageOf
  <1>2. /\ todo' \in [Requests -> Seq(Stages)] /\ todo'[r] = Tail(todo[r])
        /\ \A q \in Requests \ {r} : todo'[q] = todo[q]
      BY <1>1, Zenon DEF TypeOK, Finish
  <1>3. /\ pc' \in [Requests -> {"idle", "ready", "query", "hash"}]
        /\ pc'[r] = IF Len(todo[r]) = 1 THEN "idle" ELSE "ready"
        /\ \A q \in Requests \ {r} : pc'[q] = pc[q]
      BY Zenon DEF TypeOK, Finish
  <1>4. tx' \in [Requests -> BOOLEAN] /\ tx'[r] = b /\ \A q \in Requests \ {r} : tx'[q] = tx[q]
      BY Zenon DEF TypeOK
  <1>5. StageOf(r)'
    <2>1. CASE tx[r]
        BY <1>2, <1>3, <1>4, <2>1, InsideStages, Zenon DEF StageOf
    <2>2. CASE ~tx[r]
        BY <1>2, <1>3, <1>4, <2>2, OutsideStages, Zenon DEF StageOf
    <2> QED
        BY <2>1, <2>2, Zenon
  <1> QED
      BY <1>2, <1>3, <1>4, <1>5, Zenon DEF Moves

\* A handler that ends early gives its transaction up.
LEMMA LeaveMoves ==
    ASSUME TypeOK, NEW r \in Requests, Leave(r)
    PROVE  Moves(r) /\ pc'[r] = "idle" /\ ~tx'[r]
  <1>1. <<>> \in Seq(Stages)
      OBVIOUS
  <1>2. /\ todo' \in [Requests -> Seq(Stages)] /\ \A q \in Requests \ {r} : todo'[q] = todo[q]
      BY <1>1, Zenon DEF TypeOK, Leave
  <1>3. /\ pc' \in [Requests -> {"idle", "ready", "query", "hash"}] /\ pc'[r] = "idle"
        /\ \A q \in Requests \ {r} : pc'[q] = pc[q]
      BY Zenon DEF TypeOK, Leave
  <1>4. tx' \in [Requests -> BOOLEAN] /\ ~tx'[r] /\ \A q \in Requests \ {r} : tx'[q] = tx[q]
      BY Zenon DEF TypeOK, Leave
  <1> QED
      BY <1>2, <1>3, <1>4, Zenon DEF Moves, StageOf

\* A stage that begins.
LEMMA PcMoves ==
    ASSUME TypeOK, NEW r \in Requests, StageOf(r), UNCHANGED <<todo, tx>>, pc[r] = "ready",
           NEW label \in {"query", "hash"}, pc' = [pc EXCEPT ![r] = label],
           label = "query" => Head(todo[r]) \in {"query", "role"},
           label = "hash" => Head(todo[r]) \in {"hash", "inline"}
    PROVE  Moves(r) /\ pc'[r] = label
  BY Zenon DEF TypeOK, StageOf, Moves

\* A step of one request keeps the pool when it takes or gives back as many connections as
\* the request then holds more or less.
LEMMA PoolKept ==
    ASSUME Pool, TypeOK, NEW r \in Requests, Moves(r), free' \in Nat,
           free' + Bit(tx'[r]) + Bit(pc'[r] = "query") = free + Bit(tx[r]) + Bit(pc[r] = "query")
    PROVE  Pool' /\ free' \in 0..MaxConnections
  <1>1. /\ r \in InTx <=> tx[r]
        /\ r \in InTx' <=> tx'[r]
        /\ r \in Querying <=> pc[r] = "query"
        /\ r \in Querying' <=> pc'[r] = "query"
      BY Zenon DEF InTx, Querying
  <1>2. /\ IsFiniteSet(InTx') /\ Cardinality(InTx) \in Nat /\ Cardinality(InTx') \in Nat
        /\ Cardinality(InTx') + Bit(tx[r]) = Cardinality(InTx) + Bit(tx'[r])
    <2>1. IsFiniteSet(InTx) /\ \A q : q # r => (q \in InTx' <=> q \in InTx)
        BY Zenon DEF Pool, InTx, Moves
    <2>2. /\ IsFiniteSet(InTx') /\ Cardinality(InTx) \in Nat /\ Cardinality(InTx') \in Nat
          /\ Cardinality(InTx') + Bit(r \in InTx) = Cardinality(InTx) + Bit(r \in InTx')
        BY <2>1, Counted, Zenon
    <2> QED
        BY <1>1, <2>2, Zenon DEF Bit
  <1>3. /\ IsFiniteSet(Querying')
        /\ Cardinality(Querying) \in Nat /\ Cardinality(Querying') \in Nat
        /\ Cardinality(Querying') + Bit(pc[r] = "query")
             = Cardinality(Querying) + Bit(pc'[r] = "query")
    <2>1. IsFiniteSet(Querying) /\ \A q : q # r => (q \in Querying' <=> q \in Querying)
        BY Zenon DEF Pool, Querying, Moves
    <2>2. /\ IsFiniteSet(Querying')
          /\ Cardinality(Querying) \in Nat /\ Cardinality(Querying') \in Nat
          /\ Cardinality(Querying') + Bit(r \in Querying)
               = Cardinality(Querying) + Bit(r \in Querying')
        BY <2>1, Counted, Zenon
    <2> QED
        BY <1>1, <2>2
  <1>4. free' + Cardinality(InTx') + Cardinality(Querying') = MaxConnections
    <2>1. free \in Nat /\ free + Cardinality(InTx) + Cardinality(Querying) = MaxConnections
        BY Zenon DEF Pool
    <2>2. /\ Bit(tx[r]) \in Nat /\ Bit(tx'[r]) \in Nat
          /\ Bit(pc[r] = "query") \in Nat /\ Bit(pc'[r] = "query") \in Nat
        BY Zenon DEF Bit
    <2> QED
        BY <1>2, <1>3, <2>1, <2>2
  <1>5. free' \in 0..MaxConnections
      BY <1>2, <1>3, <1>4
  <1> QED
      BY <1>2, <1>3, <1>4, <1>5, Zenon DEF Pool

\* A step of one request keeps the semaphore when it takes a permit only while one is left.
LEMMA PermitsKept ==
    ASSUME Permitted, TypeOK, NEW r \in Requests, Moves(r),
           \/ holders' = holders \/ holders' = holders \ {r}
           \/ holders' = holders \cup {r} /\ Cardinality(holders) < Permits,
           r \in holders' <=> pc'[r] = "hash" /\ Head(todo'[r]) = "hash"
    PROVE  Permitted' /\ holders' \subseteq Requests
  <1>1. IsFiniteSet(holders) /\ Cardinality(holders) \in Nat /\ Cardinality(holders) <= Permits
      BY FS_CardinalityType, Zenon DEF Permitted
  <1>2. IsFiniteSet(holders') /\ Cardinality(holders') <= Permits
    <2>1. CASE holders' = holders
        BY <1>1, <2>1, Zenon
    <2>2. CASE holders' = holders \ {r}
      <3>1. /\ IsFiniteSet(holders')
            /\ Cardinality(holders') \in {Cardinality(holders), Cardinality(holders) - 1}
          BY <1>1, <2>2, FS_RemoveElement, Zenon
      <3> QED
          BY <1>1, <3>1, CapacityAssumption
    <2>3. CASE holders' = holders \cup {r} /\ Cardinality(holders) < Permits
      <3>1. /\ IsFiniteSet(holders')
            /\ Cardinality(holders') \in {Cardinality(holders), Cardinality(holders) + 1}
          BY <1>1, <2>3, FS_AddElement, Zenon
      <3> QED
          BY <1>1, <2>3, <3>1, CapacityAssumption
    <2> QED
        BY <2>1, <2>2, <2>3, Zenon
  <1>3. \A q \in Requests \ {r} : q \in holders' <=> q \in holders
      BY Zenon
  <1>4. holders' \subseteq Requests
      BY Zenon DEF TypeOK
  <1>5. holders' = Hashing("hash")'
      BY <1>3, <1>4, Zenon DEF Permitted, Hashing, Moves
  <1> QED
      BY <1>2, <1>4, <1>5, Zenon DEF Permitted

\* Both, and the queue: what a step of one request has to keep to.
LEMMA Kept ==
    ASSUME CapacityInv, NEW r \in Requests, Moves(r), free' \in Nat,
           free' + Bit(tx'[r]) + Bit(pc'[r] = "query") = free + Bit(tx[r]) + Bit(pc[r] = "query"),
           \/ holders' = holders \/ holders' = holders \ {r}
           \/ holders' = holders \cup {r} /\ Cardinality(holders) < Permits,
           r \in holders' <=> pc'[r] = "hash" /\ Head(todo'[r]) = "hash",
           line' \in Seq(Requests), Distinct', orphans' \in 0..MaxOrphans,
           \A i \in 1..Len(line') :
               IF line'[i] = r THEN At(r, {"hash"})' ELSE Queued(line'[i])
    PROVE  CapacityInv'
  <1>1. Pool' /\ free' \in 0..MaxConnections
      BY PoolKept, Zenon DEF CapacityInv
  <1>2. Permitted' /\ holders' \subseteq Requests
      BY PermitsKept, Zenon DEF CapacityInv
  <1>3. TypeOK'
      BY <1>1, <1>2, Zenon DEF TypeOK, Moves
  <1>4. Waiting'
    <2>1. ASSUME NEW q \in Requests \ {r}, Queued(q) PROVE At(q, {"hash"})'
      <3>1. At(q, {"hash"})
          BY <2>1, Zenon DEF CapacityInv, Waiting, Queued
      <3> QED
          BY <3>1, Zenon DEF At, Moves
    <2>2. ASSUME NEW i \in 1..Len(line') PROVE line'[i] \in Requests
        BY <2>2
    <2> QED
        BY <2>1, <2>2, Zenon DEF Waiting
  <1>5. \A q \in Requests : StageOf(q)'
      BY Zenon DEF CapacityInv, StageOf, Moves
  <1> QED
      BY <1>1, <1>2, <1>3, <1>4, <1>5, Zenon DEF CapacityInv

\* What the invariant says of one request.
LEMMA RequestFacts ==
    ASSUME CapacityInv, NEW r \in Requests
    PROVE  /\ TypeOK /\ StageOf(r) /\ free \in Nat
           /\ r \in holders <=> pc[r] = "hash" /\ Head(todo[r]) = "hash"
           /\ Distinct /\ (Queued(r) => At(r, {"hash"}))
  <1>1. r \in holders <=> pc[r] = "hash" /\ Head(todo[r]) = "hash"
      BY Zenon DEF CapacityInv, Permitted, Hashing
  <1>2. Queued(r) => At(r, {"hash"})
      BY Zenon DEF CapacityInv, Waiting, Queued
  <1> QED
      BY <1>1, <1>2, Zenon DEF CapacityInv, Pool

\* A step of a request that is not in the queue leaves the queue alone.
LEMMA KeptOffLine ==
    ASSUME CapacityInv, NEW r \in Requests, Moves(r), free' \in Nat,
           free' + Bit(tx'[r]) + Bit(pc'[r] = "query") = free + Bit(tx[r]) + Bit(pc[r] = "query"),
           holders' = holders \/ holders' = holders \ {r},
           r \in holders' <=> pc'[r] = "hash" /\ Head(todo'[r]) = "hash",
           UNCHANGED <<line, orphans>>, ~Queued(r)
    PROVE  CapacityInv'
  <1>1. line' \in Seq(Requests) /\ Distinct' /\ orphans' \in 0..MaxOrphans
      BY Zenon DEF CapacityInv, TypeOK, Distinct
  <1>2. \A i \in 1..Len(line') : IF line'[i] = r THEN At(r, {"hash"})' ELSE Queued(line'[i])
      BY Zenon DEF Queued
  <1> QED
      BY <1>1, <1>2, Kept, Zenon

\* A dropped future leaves the queue of the semaphore, and nobody else does.
LEMMA UnqueueLeaves ==
    ASSUME CapacityInv, NEW r \in Requests, Unqueue(r)
    PROVE  /\ line' \in Seq(Requests) /\ Distinct'
           /\ \A i \in 1..Len(line') : line'[i] # r /\ Queued(line'[i])
  <1>1. line \in Seq(Requests) /\ Len(line) \in Nat /\ Distinct
      BY DEF CapacityInv, TypeOK
  <1>2. CASE ~Queued(r) /\ UNCHANGED line
      BY <1>1, <1>2, Zenon DEF Queued, Distinct
  <1>3. ASSUME NEW i \in 1..Len(line), line[i] = r,
               line' = [j \in 1..(Len(line) - 1) |-> line[IF j < i THEN j ELSE j + 1]]
        PROVE  /\ line' \in Seq(Requests) /\ Distinct'
               /\ \A j \in 1..Len(line') : line'[j] # r /\ Queued(line'[j])
    <2> DEFINE n == Len(line) - 1
    <2>1. n \in Nat /\ \A j \in 1..n : (IF j < i THEN j ELSE j + 1) \in 1..Len(line)
        BY <1>1, <1>3
    <2>2. line' \in [1..n -> Requests]
        BY <1>1, <1>3, <2>1
    <2>3. line' \in Seq(Requests) /\ Len(line') = n
        BY <2>1, <2>2
    <2>4. \A j \in 1..n : line'[j] = line[IF j < i THEN j ELSE j + 1]
        BY <1>3, Zenon
    <2>5. Distinct'
      <3>1. ASSUME NEW j \in 1..n, NEW k \in 1..n, line'[j] = line'[k] PROVE j = k
        <4> DEFINE place(m) == IF m < i THEN m ELSE m + 1
        <4>1. place(j) \in 1..Len(line) /\ place(k) \in 1..Len(line) /\ line[place(j)] = line[place(k)]
            BY <2>1, <2>4, <3>1, Zenon
        <4>2. place(j) = place(k)
            BY <1>1, <4>1, Zenon DEF Distinct
        <4> QED
            BY <2>1, <4>2
      <3> QED
          BY <2>3, <3>1, Zenon DEF Distinct
    <2>6. \A j \in 1..n : line'[j] # r /\ Queued(line'[j])
        BY <1>1, <1>3, <2>1, <2>4 DEF Distinct, Queued
    <2> QED
        BY <2>3, <2>5, <2>6, Zenon
  <1> QED
      BY <1>2, <1>3, Zenon DEF Unqueue

\* Every step of a handler, a timeout, a dropped request or the end of an abandoned hash
\* keeps the invariant.
LEMMA CapacityNext == CapacityInv /\ Next => CapacityInv'
  <1> SUFFICES ASSUME CapacityInv, Next PROVE CapacityInv'
      BY Zenon
  <1>1. ASSUME NEW r \in Requests, NEW handler \in Handlers, Begin(r, handler) PROVE CapacityInv'
    <2>1. /\ TypeOK /\ StageOf(r) /\ free \in Nat /\ r \notin holders /\ ~Queued(r) /\ ~tx[r]
          /\ handler \in Outside /\ handler \in Seq(Stages)
        BY <1>1, RequestFacts, HandlersOutside, OutsideStages, Zenon DEF Begin, At, StageOf
    <2>2. Moves(r) /\ pc'[r] = "ready"
        BY <1>1, <2>1, Zenon DEF Begin, Moves, StageOf, TypeOK
    <2> QED
        BY <1>1, <2>1, <2>2, KeptOffLine, Zenon DEF Begin
  <1>2. ASSUME NEW r \in Requests, StartQuery(r) PROVE CapacityInv'
    <2>1. TypeOK /\ StageOf(r) /\ free \in Nat /\ r \notin holders /\ ~Queued(r)
        BY <1>2, RequestFacts, Zenon DEF StartQuery, At
    <2>2. Moves(r) /\ pc'[r] = "query"
        BY <1>2, <2>1, PcMoves, Zenon DEF StartQuery, At
    <2> QED
        BY <1>2, <2>1, <2>2, KeptOffLine DEF StartQuery, At, Bit
  <1>3. ASSUME NEW r \in Requests, EndQuery(r) PROVE CapacityInv'
    <2>1. TypeOK /\ StageOf(r) /\ free \in Nat /\ r \notin holders /\ ~Queued(r)
        BY <1>3, RequestFacts, Zenon DEF EndQuery, At
    <2>2. Moves(r) /\ pc'[r] \in {"idle", "ready"}
        BY <1>3, <2>1, FinishMoves, Zenon DEF EndQuery, StageOf, TypeOK
    <2> QED
        BY <1>3, <2>1, <2>2, KeptOffLine DEF EndQuery, Bit
  <1>4. ASSUME NEW r \in Requests, FailQuery(r) PROVE CapacityInv'
    <2>1. TypeOK /\ StageOf(r) /\ free \in Nat /\ r \notin holders /\ ~Queued(r)
        BY <1>4, RequestFacts, Zenon DEF FailQuery, At
    <2>2. Moves(r) /\ pc'[r] = "idle" /\ ~tx'[r]
        BY <1>4, <2>1, LeaveMoves, Zenon DEF FailQuery
    <2> QED
        BY <1>4, <2>1, <2>2, KeptOffLine DEF FailQuery, Leave, Bit
  <1>5. ASSUME NEW r \in Requests, BeginTx(r) PROVE CapacityInv'
    <2>1. TypeOK /\ StageOf(r) /\ free \in Nat /\ r \notin holders /\ ~Queued(r) /\ ~tx[r]
        BY <1>5, RequestFacts, InsideStages, Zenon DEF BeginTx, At, StageOf
    <2>2. Moves(r) /\ pc'[r] \in {"idle", "ready"}
        BY <1>5, <2>1, FinishMoves, Zenon DEF BeginTx, At
    <2> QED
      <3>1. tx'[r] /\ free' + 1 = free /\ free' \in Nat /\ pc[r] = "ready"
          BY <1>5, <2>1 DEF BeginTx, At, TypeOK
      <3> QED
          BY <1>5, <2>1, <2>2, <3>1, KeptOffLine DEF BeginTx, Bit
  <1>6. ASSUME NEW r \in Requests, Commit(r) PROVE CapacityInv'
    <2>1. TypeOK /\ StageOf(r) /\ free \in Nat /\ r \notin holders /\ ~Queued(r) /\ tx[r]
        BY <1>6, RequestFacts, OutsideStages, Zenon DEF Commit, At, StageOf
    <2>2. Moves(r) /\ pc'[r] \in {"idle", "ready"}
        BY <1>6, <2>1, FinishMoves, Zenon DEF Commit, At
    <2> QED
        BY <1>6, <2>1, <2>2, KeptOffLine DEF Commit, At, TypeOK, Bit
  <1>7. ASSUME NEW r \in Requests, AcquireTimeout(r) PROVE CapacityInv'
    <2>1. TypeOK /\ StageOf(r) /\ free \in Nat /\ r \notin holders /\ ~Queued(r)
        BY <1>7, RequestFacts, Zenon DEF AcquireTimeout, At
    <2>2. CASE At(r, {"query", "begin"}) /\ Leave(r)
      <3>1. Moves(r) /\ pc'[r] = "idle" /\ ~tx'[r]
          BY <2>1, <2>2, LeaveMoves, Zenon
      <3> QED
          BY <1>7, <2>1, <2>2, <3>1, KeptOffLine DEF AcquireTimeout, Leave, Bit
    <2>3. CASE At(r, {"role"}) /\ Finish(r) /\ UNCHANGED <<free, tx>>
      <3>1. Moves(r) /\ pc'[r] \in {"idle", "ready"}
          BY <2>1, <2>3, FinishMoves, Zenon DEF At, TypeOK
      <3> QED
          BY <1>7, <2>1, <2>3, <3>1, KeptOffLine, Zenon DEF AcquireTimeout, At
    <2> QED
        BY <1>7, <2>2, <2>3, Zenon DEF AcquireTimeout
  <1>8. ASSUME NEW r \in Requests, Queue(r) PROVE CapacityInv'
    <2>1. TypeOK /\ StageOf(r) /\ free \in Nat /\ r \notin holders
        BY <1>8, RequestFacts, Zenon DEF Queue, At
    <2>2. Moves(r)
        BY <1>8, <2>1, Zenon DEF Queue, Moves, TypeOK, StageOf
    <2>3. line' \in Seq(Requests) /\ At(r, {"hash"})'
        BY <1>8, <2>1 DEF Queue, At, TypeOK
    <2>4. \A i \in 1..Len(line') : line'[i] = r \/ Queued(line'[i])
        BY <1>8, <2>1 DEF Queue, Queued
    <2>5. Distinct'
        BY <1>8, <2>1, RequestFacts DEF Queue, Queued, Distinct
    <2> QED
        BY <1>8, <2>1, <2>2, <2>3, <2>4, <2>5, Kept, Zenon DEF Queue, At, TypeOK, Bit
  <1>9. ASSUME NEW r \in Requests, StartHash(r) PROVE CapacityInv'
    <2>1. TypeOK /\ StageOf(r) /\ free \in Nat
        BY <1>9, RequestFacts, Zenon
    <2>2. Moves(r) /\ pc'[r] = "hash"
        BY <1>9, <2>1, PcMoves, Zenon DEF StartHash, At
    <2> QED
      <3>1. /\ line \in Seq(Requests) /\ Distinct
            /\ line # <<>> /\ line[1] = r /\ line' = Tail(line)
          BY <1>9, <2>1, RequestFacts DEF StartHash, TypeOK
      <3>2. /\ line' \in Seq(Requests) /\ Len(line') = Len(line) - 1 /\ Len(line) \in Nat \ {0}
            /\ \A i \in 1..Len(line') : line'[i] = line[i + 1]
          BY <3>1
      <3>3. Distinct'
          BY <3>1, <3>2 DEF Distinct
      <3>4. \A i \in 1..Len(line') : line'[i] # r /\ Queued(line'[i])
          BY <3>1, <3>2 DEF Distinct, Queued
      <3> QED
          BY <1>9, <2>1, <2>2, <3>2, <3>3, <3>4, Kept, Zenon DEF StartHash, At, TypeOK, Bit
  <1>10. ASSUME NEW r \in Requests, EndHash(r) PROVE CapacityInv'
    <2>1. TypeOK /\ StageOf(r) /\ free \in Nat /\ ~Queued(r) /\ ~tx[r]
        BY <1>10, RequestFacts, InsideStages, Zenon DEF EndHash, At, StageOf
    <2>2. CASE Finish(r) /\ UNCHANGED <<free, tx>>
      <3>1. Moves(r) /\ pc'[r] \in {"idle", "ready"}
          BY <1>10, <2>1, <2>2, FinishMoves, Zenon DEF EndHash, TypeOK
      <3> QED
          BY <1>10, <2>1, <2>2, <3>1, KeptOffLine, Zenon DEF EndHash
    <2>3. CASE Leave(r)
      <3>1. Moves(r) /\ pc'[r] = "idle" /\ ~tx'[r]
          BY <2>1, <2>3, LeaveMoves, Zenon
      <3> QED
          BY <1>10, <2>1, <2>3, <3>1, KeptOffLine DEF EndHash, Leave, Bit
    <2> QED
        BY <1>10, <2>2, <2>3, Zenon DEF EndHash
  <1>11. ASSUME NEW r \in Requests, SkipHash(r) PROVE CapacityInv'
    <2>1. TypeOK /\ StageOf(r) /\ free \in Nat /\ r \notin holders /\ ~Queued(r)
        BY <1>11, RequestFacts, Zenon DEF SkipHash, At
    <2>2. Moves(r) /\ pc'[r] \in {"idle", "ready"}
        BY <1>11, <2>1, FinishMoves, Zenon DEF SkipHash, At, TypeOK
    <2> QED
        BY <1>11, <2>1, <2>2, KeptOffLine, Zenon DEF SkipHash, At
  <1>12. ASSUME NEW r \in Requests, StartInline(r) PROVE CapacityInv'
    <2>1. TypeOK /\ StageOf(r) /\ free \in Nat /\ r \notin holders /\ ~Queued(r)
        BY <1>12, RequestFacts, Zenon DEF StartInline, At
    <2>2. Moves(r) /\ pc'[r] = "hash"
        BY <1>12, <2>1, PcMoves, Zenon DEF StartInline, At
    <2> QED
        BY <1>12, <2>1, <2>2, KeptOffLine, Zenon DEF StartInline, At
  <1>13. ASSUME NEW r \in Requests, EndInline(r) PROVE CapacityInv'
    <2>1. TypeOK /\ StageOf(r) /\ free \in Nat /\ r \notin holders /\ ~Queued(r)
        BY <1>13, RequestFacts, Zenon DEF EndInline, At
    <2>2. CASE Finish(r) /\ UNCHANGED <<free, tx>>
      <3>1. Moves(r) /\ pc'[r] \in {"idle", "ready"}
          BY <1>13, <2>1, <2>2, FinishMoves, Zenon DEF EndInline, TypeOK
      <3> QED
          BY <1>13, <2>1, <2>2, <3>1, KeptOffLine, Zenon DEF EndInline
    <2>3. CASE Leave(r)
      <3>1. Moves(r) /\ pc'[r] = "idle" /\ ~tx'[r]
          BY <2>1, <2>3, LeaveMoves, Zenon
      <3> QED
          BY <1>13, <2>1, <2>3, <3>1, KeptOffLine DEF EndInline, Leave, Bit
    <2> QED
        BY <1>13, <2>2, <2>3, Zenon DEF EndInline
  <1>14. ASSUME NEW r \in Requests, Drop(r) PROVE CapacityInv'
    <2>1. TypeOK /\ StageOf(r) /\ free \in Nat
        BY <1>14, RequestFacts, Zenon
    <2>2. Moves(r) /\ pc'[r] = "idle" /\ ~tx'[r]
        BY <1>14, <2>1, LeaveMoves, Zenon DEF Drop
    <2>3. orphans' \in 0..MaxOrphans
        BY <1>14, <2>1, CapacityAssumption DEF Drop, TypeOK
    <2>4. /\ line' \in Seq(Requests) /\ Distinct'
          /\ \A i \in 1..Len(line') : line'[i] # r /\ Queued(line'[i])
        BY <1>14, UnqueueLeaves, Zenon DEF Drop
    <2> QED
        BY <1>14, <2>1, <2>2, <2>3, <2>4, Kept DEF Drop, Leave, Bit
  <1>15. CASE EndOrphan
    <2>1. orphans' \in 0..MaxOrphans /\ UNCHANGED <<free, holders, line, todo, pc, tx>>
        BY <1>15, CapacityAssumption DEF EndOrphan, CapacityInv, TypeOK
    <2> QED
        BY <2>1, ZenonT(60) DEF CapacityInv, TypeOK, Pool, Permitted, Waiting, StageOf, InTx,
           Querying, Hashing, At, Distinct
  <1> QED
      BY <1>1, <1>2, <1>3, <1>4, <1>5, <1>6, <1>7, <1>8, <1>9, <1>10, <1>11, <1>12, <1>13,
         <1>14, <1>15, Zenon DEF Next, Step

\* All connections and permits are free at first.
LEMMA CapacityInit == Init => CapacityInv
  <1> SUFFICES ASSUME Init PROVE CapacityInv
      BY Zenon
  <1>1. /\ free = MaxConnections /\ holders = {} /\ line = <<>> /\ orphans = 0
        /\ todo = [r \in Requests |-> <<>>] /\ pc = [r \in Requests |-> "idle"]
        /\ tx = [r \in Requests |-> FALSE]
      BY Zenon DEF Init
  <1>2. TypeOK
    <2>1. tx \in [Requests -> BOOLEAN] /\ pc \in [Requests -> {"idle", "ready", "query", "hash"}]
        BY <1>1, Zenon
    <2>2. free \in 0..MaxConnections /\ orphans \in 0..MaxOrphans
        BY <1>1, CapacityAssumption
    <2>3. line \in Seq(Requests) /\ todo \in [Requests -> Seq(Stages)] /\ holders \subseteq Requests
        BY <1>1
    <2> QED
        BY <2>1, <2>2, <2>3, Zenon DEF TypeOK
  <1>3. Pool
    <2>1. InTx = {} /\ Querying = {}
        BY <1>1, Zenon DEF InTx, Querying
    <2> QED
        BY <1>1, <2>1, FS_EmptySet, CapacityAssumption DEF Pool
  <1>4. Permitted
    <2>1. Hashing("hash") = {}
        BY <1>1, Zenon DEF Hashing
    <2> QED
        BY <1>1, <2>1, FS_EmptySet, CapacityAssumption DEF Permitted
  <1>5. Distinct /\ Waiting /\ \A r \in Requests : StageOf(r)
      BY <1>1 DEF Distinct, Waiting, StageOf
  <1> QED
      BY <1>2, <1>3, <1>4, <1>5, Zenon DEF CapacityInv

\* The invariant is inductive.
LEMMA CapacityStep == CapacityInv /\ [Next]_vars => CapacityInv'
  <1>1. CapacityInv /\ UNCHANGED vars => CapacityInv'
    <2> SUFFICES ASSUME CapacityInv, UNCHANGED vars PROVE CapacityInv'
        BY Zenon
    <2>1. TypeOK'
        BY Zenon DEF vars, CapacityInv, TypeOK
    <2>2. Pool'
        BY Zenon DEF vars, CapacityInv, Pool, InTx, Querying
    <2>3. Permitted'
        BY Zenon DEF vars, CapacityInv, Permitted, Hashing
    <2>4. Distinct' /\ Waiting'
        BY Zenon DEF vars, CapacityInv, Distinct, Waiting, At
    <2>5. \A r \in Requests : StageOf(r)'
        BY Zenon DEF vars, CapacityInv, StageOf
    <2> QED
        BY <2>1, <2>2, <2>3, <2>4, <2>5, Zenon DEF CapacityInv
  <1> QED
      BY <1>1, CapacityNext, Zenon

\* So it holds at every moment.
LEMMA CapacityAlways == Spec => []CapacityInv
  BY CapacityInit, CapacityStep, PTL DEF Spec

\* Types: the pool never hands out more than it has, and never gets more back.
THEOREM CapacityTypes == Spec => []TypeOK
  <1>1. CapacityInv => TypeOK
      BY Zenon DEF CapacityInv
  <1> QED
      BY <1>1, CapacityAlways, PTL

\* No connection is lost or given back twice, over errors, acquire timeouts and requests that
\* are dropped in the middle of a transaction.
THEOREM ConnectionsConserved == Spec => []Pool
  <1>1. CapacityInv => Pool
      BY Zenon DEF CapacityInv
  <1> QED
      BY <1>1, CapacityAlways, PTL

\* No more requests hash under the semaphore than it has permits, and none hashes, or waits
\* to, while it holds a connection (argon2.rs:76).
THEOREM HashingBounded == Spec => []HashingApart
  <1>1. ASSUME CapacityInv PROVE HashingApart
    <2>1. Cardinality(Hashing("hash")) <= Permits
        BY <1>1, Zenon DEF CapacityInv, Permitted
    <2>2. ASSUME NEW r \in Requests, pc[r] = "hash" \/ Queued(r) PROVE ~tx[r]
      <3>1. pc[r] # "idle" /\ Head(todo[r]) \in {"hash", "inline"} /\ StageOf(r)
          BY <1>1, <2>2, RequestFacts, Zenon DEF At, StageOf
      <3> QED
          BY <3>1, InsideStages, Zenon DEF StageOf
    <2> QED
        BY <2>1, <2>2, Zenon DEF HashingApart
  <1> QED
      BY <1>1, CapacityAlways, PTL

-----------------------------------------------------------------------------
(* The pools beside the session store.                                     *)

ProgressInv == CapacityInv /\ Store!IInv

\* What runs keeps its invariant, and what does not run stays as it is.
LEMMA ProgressNext ==
    ProgressInv /\ [MCNext]_<<part, vars, sessionVars>> => ProgressInv'
  <1> SUFFICES ASSUME ProgressInv, [MCNext]_<<part, vars, sessionVars>> PROVE ProgressInv'
      BY Zenon
  <1>1. [Next]_vars /\ [Store!Next]_sessionVars
      BY Zenon DEF MCNext
  <1>2. CapacityInv'
      BY <1>1, CapacityStep, Zenon DEF ProgressInv
  <1>3. Store!IInv'
    <2>1. [Store!Next]_(Store!vars)
        BY <1>1, Zenon DEF sessionVars, Store!vars, Store!dbVars, Store!reqVars, Store!histVars
    <2> QED
        BY <2>1, StoreAssumption, Store!NextIInv, Zenon DEF ProgressInv
  <1> QED
      BY <1>2, <1>3, Zenon DEF ProgressInv

\* Types: whatever requests wait for, the pools and the session store hold what
\* the code declares (db.rs, argon2.rs, session/repository.rs).
THEOREM ProgressTypes == MCSpec => []TypesOK
  <1>1. MCInit => ProgressInv
      BY CapacityInit, StoreAssumption, Store!InitIInv, Zenon DEF MCInit, ProgressInv
  <1>2. ProgressInv => TypesOK
      BY Zenon DEF ProgressInv, CapacityInv, Store!IInv, TypesOK
  <1> QED
      BY <1>1, <1>2, ProgressNext, PTL DEF MCSpec
=============================================================================
