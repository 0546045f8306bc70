---------------------------- MODULE RateLimiter -----------------------------
(***************************************************************************)
(* The fixed-window rate limiter: one Redis counter per bucket, created by *)
(* the first hit with the window as its time to live, and its use by POST  *)
(* /auth/login (a bucket per e-mail, then one per address), by signup,     *)
(* verify-email and device-authorization (one bucket).  A check is a       *)
(* connection from the pool, a script, and for a refusal a TTL command.    *)
(* Time is counted in ticks, PerSecond of them to a second, as Redis       *)
(* rounds a time to live to whole seconds.                                 *)
(***************************************************************************)
EXTENDS Integers, Sequences

CONSTANTS
    Requests, Buckets, None,
    Limit,      \* hits a bucket allows in one window
    Window,     \* its length in seconds
    Routes,     \* the buckets that a handler checks, in order
    PerSecond

VARIABLES
    count,   \* of each key; 0 when it is missing
    left,    \* ticks that it has left to live; 0 when it has no ttl
    pc,
    todo,    \* buckets that the handler has yet to pass
    wait     \* ticks until a refused caller that heeds Retry-After returns

\* History, read by properties only.
VARIABLES
    recent,  \* ages in ticks of the last requests the counter let through,
             \* youngest first; a window or more ago counts as a window
    by       \* bucket whose present window refused the request

keys == <<count, left>>
locals == <<pc, todo, wait, by>>
vars == <<keys, locals, recent>>

Ticks(b) == Window[b] * PerSecond

\* Counts above the limit are alike: check only asks whether they exceed it.
Counts(b) == 0..Limit[b] + 1

\* One request more than two windows let through.
Places(b) == 1..2 * Limit[b] + 1

Init ==
    /\ count = [b \in Buckets |-> 0] /\ left = [b \in Buckets |-> 0]
    /\ pc = [r \in Requests |-> "idle"] /\ todo = [r \in Requests |-> <<>>]
    /\ wait = [r \in Requests |-> 0] /\ by = [r \in Requests |-> None]
    /\ recent = [b \in Buckets |-> [i \in Places(b) |-> Ticks(b)]]

Bucket(r) == Head(todo[r])

Goto(r, label) == pc' = [pc EXCEPT ![r] = label]

End(r) ==
    /\ Goto(r, "idle")
    /\ todo' = [todo EXCEPT ![r] = <<>>]
    /\ wait' = [wait EXCEPT ![r] = 0] /\ by' = [by EXCEPT ![r] = None]

\* A decision that allows: the next bucket, or the work of the handler.
Pass(r) ==
    /\ todo' = [todo EXCEPT ![r] = Tail(@)]
    /\ Goto(r, IF Len(todo[r]) = 1 THEN "work" ELSE "check")
    /\ UNCHANGED <<wait, by>>

-----------------------------------------------------------------------------
(* RateLimiter::check.                                                     *)

Begin(r, route) ==
    /\ pc[r] = "idle"
    /\ todo' = [todo EXCEPT ![r] = route]
    /\ Goto(r, IF route = <<>> THEN "work" ELSE "check")
    /\ UNCHANGED <<keys, wait, by, recent>>

\* Misconfigured, or no connection: allowed, and not counted.
FailOpen(r) ==
    /\ pc[r] = "check"
    /\ Pass(r)
    /\ UNCHANGED <<keys, recent>>

\* Mutant: EXPIRE on every hit.
IncrAndExpire_Sliding(b) ==
    /\ count' = [count EXCEPT ![b] = IF @ > Limit[b] THEN @ ELSE @ + 1]
    /\ left' = [left EXCEPT ![b] = Ticks(b)]

\* The script INCR_AND_EXPIRE: the hit that creates the key sets its ttl.
IncrAndExpire(b) ==
    /\ count' = [count EXCEPT ![b] = IF @ > Limit[b] THEN @ ELSE @ + 1]
    /\ left' = [left EXCEPT ![b] = IF count[b] = 0 THEN Ticks(b) ELSE @]

\* Mutant: one hit more than the limit is let through.
Allows_OneMore(b) == count[b] <= Limit[b]

\* The hit about to be counted is within the limit.
Allows(b) == count[b] < Limit[b]

Admitted(ages) == [i \in DOMAIN ages |-> IF i = 1 THEN 0 ELSE ages[i - 1]]

\* The script runs and its answer decides.
Hit(r) ==
    /\ pc[r] = "check"
    /\ LET b == Bucket(r) IN
       /\ Limit[b] > 0 /\ Window[b] > 0
       /\ IncrAndExpire(b)
       /\ \/ /\ Allows(b)
             /\ recent' = [recent EXCEPT ![b] = Admitted(@)]
             /\ Pass(r)
          \/ /\ ~Allows(b)
             /\ Goto(r, "ttl") /\ by' = [by EXCEPT ![r] = b]
             /\ UNCHANGED <<recent, todo, wait>>

\* The script runs and its answer is lost: counted, and allowed.
HitUnheard(r) ==
    /\ pc[r] = "check"
    /\ LET b == Bucket(r) IN
       /\ Limit[b] > 0 /\ Window[b] > 0
       /\ IncrAndExpire(b)
    /\ Pass(r)
    /\ UNCHANGED recent

\* Redis TTL: the remaining time rounded to the nearest second.
Ttl(b) == (2 * left[b] + PerSecond) \div (2 * PerSecond)

\* Mutant: the ttl is passed on as it is, and 0 when it cannot be read.
RetryAfter_NoFallback(b) == {Ttl(b), 0}

\* read_ttl_or_default: a key that is gone, one about to go and an error all
\* yield the whole window.
RetryAfter(b) == {IF Ttl(b) > 0 THEN Ttl(b) ELSE Window[b], Window[b]}

\* TTL, and the refusal with Retry-After; the caller waits just that long.
Refuse(r) ==
    /\ pc[r] = "ttl"
    /\ \E s \in RetryAfter(Bucket(r)) : wait' = [wait EXCEPT ![r] = s * PerSecond]
    /\ Goto(r, "refused")
    /\ UNCHANGED <<keys, todo, by, recent>>

-----------------------------------------------------------------------------
(* The handler's own work, the caller, time.                               *)

\* LoginService::authenticate and create_session: no limiter command.
LogIn(r) ==
    /\ pc[r] = "work"
    /\ End(r)
    /\ UNCHANGED <<keys, recent>>

\* Wrong credentials, an error, or the handler dropped on the way.
Fail(r) ==
    /\ pc[r] \in {"check", "ttl", "work"}
    /\ End(r)
    /\ UNCHANGED <<keys, recent>>

Return(r) ==
    /\ pc[r] = "refused" /\ wait[r] = 0
    /\ End(r)
    /\ UNCHANGED <<keys, recent>>

Older(ages, max) == [i \in DOMAIN ages |-> IF ages[i] < max THEN ages[i] + 1 ELSE max]

Tick ==
    /\ left' = [b \in Buckets |-> IF left[b] > 0 THEN left[b] - 1 ELSE 0]
    /\ count' = [b \in Buckets |-> IF left[b] = 1 THEN 0 ELSE count[b]]
    /\ recent' = [b \in Buckets |-> Older(recent[b], Ticks(b))]
    /\ wait' = [r \in Requests |-> IF wait[r] > 0 THEN wait[r] - 1 ELSE 0]
    /\ by' = [r \in Requests |-> IF by[r] # None /\ left[by[r]] = 1 THEN None ELSE by[r]]
    /\ UNCHANGED <<pc, todo>>

Next ==
    \/ \E r \in Requests :
          \/ FailOpen(r) \/ Hit(r) \/ HitUnheard(r) \/ Refuse(r)
          \/ LogIn(r) \/ Fail(r) \/ Return(r)
          \/ \E route \in Routes : Begin(r, route)
    \/ Tick

Spec == Init /\ [][Next]_vars

-----------------------------------------------------------------------------
(* Properties.                                                             *)

TypeOK ==
    /\ \A b \in Buckets : count[b] \in Counts(b) /\ left[b] \in 0..Ticks(b)
    /\ pc \in [Requests -> {"idle", "check", "ttl", "refused", "work"}]
    /\ \A r \in Requests : todo[r] \in Seq(Buckets) /\ wait[r] \in Nat
    /\ by \in [Requests -> Buckets \cup {None}]
    /\ \A b \in Buckets : recent[b] \in [Places(b) -> 0..Ticks(b)]

\* In any stretch of time as long as the window, wherever it starts, the
\* counter lets at most twice the limit through, those admitted because
\* Redis did not answer aside: the last request but twice the limit was a
\* window ago (ratelimit/mod.rs check, lua.rs).
AdmittedBounded ==
    \A b \in Buckets : recent[b][2 * Limit[b] + 1] = Ticks(b)

\* Retry-After is too short by half a second at most: when a refused caller has
\* waited for it, the window that refused it is over, or has no more left than
\* Redis rounded away, whoever else hits the bucket meanwhile.  (It may indeed be
\* too short: with 1.33 s left TTL answers 1.  What the fallback to the whole
\* window excludes is a 0, or a negative number, sent as Retry-After:
\* read_ttl_or_default.)
RetryAfterWithinRounding ==
    \A r \in Requests :
        pc[r] = "refused" /\ wait[r] = 0 /\ by[r] # None => 2 * left[by[r]] <= PerSecond
=============================================================================
