----------------------------- MODULE MCProgress -----------------------------
(***************************************************************************)
(* What requests wait for: connections and permits, and the time to live   *)
(* of a cached session.  The two share no state here, so each behaviour    *)
(* runs one of them (part) and leaves the other as it started.             *)
(***************************************************************************)
EXTENDS Capacity, TLC

CONSTANTS Kinds, Sessions, Users, Owner, NoSession, NoUser, Callers, s1, u1

\* One session, of one user.
MCOwner == s1 :> u1

VARIABLES
    part,
    row, minted, expired, account, cache, at, op, sess, usr, keys, failed, snap,
    late, orphaned, lateStart

sessionVars == <<row, minted, expired, account, cache, at, op, sess, usr, keys, failed,
                 snap, late, orphaned, lateStart>>

Store == INSTANCE SessionsProofs WITH Requests <- Callers, pc <- at, todo <- keys

\* What the session store assumes of its constants.
ASSUME StoreAssumption ==
    /\ Owner \in [Sessions -> Users]
    /\ NoSession \notin Sessions /\ NoUser \notin Users
    /\ Kinds \subseteq Store!Ops

MCInit == part \in {"capacity", "sessions"} /\ Init /\ Store!Init

MCNext ==
    \/ part = "capacity" /\ Next /\ UNCHANGED <<part, sessionVars>>
    \/ part = "sessions" /\ Store!Next /\ UNCHANGED <<part, vars>>

\* The fairness of each, while it runs.
MCFairness ==
    /\ \A r \in Requests : WF_vars(part = "capacity" /\ Step(r))
    /\ \A r \in Callers : WF_sessionVars(part = "sessions" /\ Store!Step(r))
    /\ \A s \in Sessions :
           /\ WF_sessionVars(part = "sessions" /\ Store!Expire(s))
           /\ WF_sessionVars(part = "sessions" /\ Store!TtlExpire(s))

MCSpec == MCInit /\ [][MCNext]_<<part, vars, sessionVars>> /\ MCFairness

-----------------------------------------------------------------------------
\* Types, of the pools and of the session store.
TypesOK == TypeOK /\ Store!TypeOK

\* Sessions: what Redis holds of a session that is gone, or of an account that
\* stays disabled, is not served for ever (session/repository.rs:6-10).
StaleEntriesDrain == Store!StaleEntryDrains /\ Store!DisabledDrains
=============================================================================
