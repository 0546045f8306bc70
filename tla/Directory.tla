------------------------------ MODULE Directory ------------------------------
(***************************************************************************)
(* What the admin console keeps: roles, clients and accounts, and the      *)
(* walks up the role hierarchy.  They have no state in common here, so     *)
(* each behaviour runs one of them (part) and leaves the others as they    *)
(* started: the state space is the sum of the four, not their product.     *)
(***************************************************************************)
EXTENDS RoleHierarchy, Naturals

CONSTANTS None, MaxWrites, Idents, PoolSize

VARIABLES
    part,
    row, uri, cache, at, creates, copy, uriCopy, writes, overtaken, excused,
    users, verified, creds, roles, token, step, who, flag, kept,
    partial, starving, roleless, unset, overwritten,
    walk, graph, older, from, moving, cursor, up, todo, visited, sink

clientVars == <<row, uri, cache, at, creates, copy, uriCopy, writes, overtaken, excused>>
accountVars == <<users, verified, creds, roles, token, step, who, flag, kept,
                 partial, starving, roleless, unset, overwritten>>
walkVars == <<walk, graph, older, from, moving, cursor, up, todo, visited, sink>>

Clients == INSTANCE ClientCache
Accts == INSTANCE Accounts WITH at <- step, held <- kept
Walks == INSTANCE RoleWalk WITH child <- moving

ASSUME DirectoryAssumption ==
    /\ MaxWrites \in Nat /\ None \notin Clients!Rows
    /\ Idents # {}

MCInit ==
    /\ part \in {"roles", "clients", "accounts", "walks"}
    /\ Init /\ Clients!Init /\ Accts!Init /\ Walks!Init

MCNext ==
    \/ part = "roles" /\ Next /\ UNCHANGED <<part, clientVars, accountVars, walkVars>>
    \/ part = "clients" /\ Clients!Next /\ UNCHANGED <<part, vars, accountVars, walkVars>>
    \/ part = "accounts" /\ Accts!Next /\ UNCHANGED <<part, vars, clientVars, walkVars>>
    \/ part = "walks" /\ Walks!Next /\ UNCHANGED <<part, vars, clientVars, accountVars>>

\* A request waits for a lock that comes and goes: strong fairness.
Locks(r) ==
    \/ part = "roles" /\ (LockRow(r) \/ Update(r)) /\ UNCHANGED accountVars
    \/ part = "accounts" /\ (Accts!InsertUser(r) \/ Accts!Persist(r)) /\ UNCHANGED vars

\* The fairness of each, while it runs.
MCFairness ==
    /\ \A r \in Requests :
           /\ WF_vars(part = "roles" /\ Walk(r))
           /\ WF_clientVars(part = "clients" /\ Clients!Step(r))
           /\ WF_accountVars(part = "accounts" /\ Accts!Step(r))
           /\ SF_<<vars, accountVars>>(Locks(r))
    /\ WF_vars(part = "roles" /\ \E r \in Requests : DeadlockVictim(r))
    /\ WF_clientVars(part = "clients" /\ Clients!Evict)
    /\ WF_walkVars(part = "walks" /\ Walks!Step)

MCSpec ==
    MCInit /\ [][MCNext]_<<vars, clientVars, accountVars, walkVars, part>> /\ MCFairness

-----------------------------------------------------------------------------
\* Types, of roles, clients and accounts; what belongs to a client or to an account goes
\* with it.
TypesOK == TypeOK /\ Clients!TypeOK /\ Accts!TypeOK /\ Walks!TypeOK

\* RoleWalk: the cycle check of set_parent decides as RoleHierarchy says on every graph;
\* the effective names are complete, each once (role/mod.rs:73-76), and a set_parent
\* between their two SELECTs loses no assigned role.
WalksExact == Walks!CheckDecides /\ Walks!EffectiveComplete /\ Walks!TornReadBounded

\* ClientCache: an entry is stale only before or for want of its DEL, or through a lookup
\* that a write overtook (client/repository.rs:8, against README.md:93).
StaleExplained == Clients!StaleExplained

\* ClientCache: once the database no longer changes, lookups answer what it holds.
StalenessEnds == Clients!StalenessEnds

\* Accounts: no two accounts share an email or a username (signup/flow.rs:11), and an
\* account has its credential and its role (signup/flow.rs:8), with the exceptions that
\* the code makes; a consumed token has verified its account.
AccountsSound ==
    Accts!AccountsUnique /\ Accts!AccountsComplete /\ Accts!ConsumedMeansVerified

\* RoleHierarchy: every set_parent ends, also when two scans lock rows in opposite order.
\* Accounts: sign-ups that wait for each other's connections end.  RoleWalk: a walk ends,
\* also on a graph that has a cycle.
RequestsEnd == SetParentEnds /\ Accts!RequestsEnd /\ Walks!WalkEnds
=============================================================================
