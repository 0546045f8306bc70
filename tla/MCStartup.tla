------------------------------ MODULE MCStartup ------------------------------
(***************************************************************************)
(* What a process does before it serves requests: the seeders and the key  *)
(* set.  They have no state in common, so each behaviour runs one of them  *)
(* (part) and leaves the other as it started: the state space is the sum   *)
(* of the two, not their product.                                          *)
(***************************************************************************)
EXTENDS Bootstrap

CONSTANTS Kids, LegacyKid, Torn, MaxEvents

VARIABLES
    part, priv, pub, marker, legacy, used, phase, todo, loaded, active, rotating, lock,
    events, served, retired, answered, overlap

Keys == INSTANCE SigningKeys WITH Servers <- Replicas

ASSUME KeysAssumption ==
    /\ LegacyKid \in Kids /\ None \notin Kids /\ Torn \notin Kids /\ Torn # None
    /\ MaxEvents \in Nat
    /\ None \notin Keys!Rotations \cup Keys!Changes

keyVars == <<priv, pub, marker, legacy, used, phase, todo, loaded, active, rotating, lock,
             events, served, retired, answered, overlap>>

MCInit ==
    /\ part \in {"seeders", "keys"}
    /\ Init /\ (part # "seeders" => rows = {})
    /\ Keys!Init /\ (part # "keys" => ~legacy)

MCNext ==
    \/ part = "seeders" /\ Next /\ UNCHANGED <<part, keyVars>>
    \/ part = "keys" /\ Keys!Next /\ UNCHANGED <<part, vars>>

\* The fairness of each, while it runs.
MCFairness ==
    \A p \in Replicas :
        /\ WF_vars(part = "seeders" /\ Step(p)) /\ SF_vars(part = "seeders" /\ Acquire(p))
        /\ WF_keyVars(part = "keys" /\ Keys!StartStep(p))

MCSpec == MCInit /\ [][MCNext]_<<vars, keyVars, part>> /\ MCFairness

-----------------------------------------------------------------------------
\* Types, of the seeders and of the key set.
TypesOK == TypeOK /\ Keys!TypeOK

\* SigningKeys: "active kid must point at a loaded pair" (rsa_keys.rs:156), and a key
\* that may have signed has its files until it is retired.
KeysBacked == Keys!ActiveLoaded /\ Keys!SigningKeysOnDisk

\* SigningKeys: while servers run one at a time tokens verify, and the last rotation that
\* answered is in force, over failed rotations and restarts (main.rs:114).
KeysSurvive == Keys!TokensVerify /\ Keys!RestartKeepsActive

\* Bootstrap: "multi-replica deploys converge cleanly" (main.rs:211).  SigningKeys: no file
\* that a killed server left keeps servers from coming up (rsa_keys.rs:336).
EveryoneComesUp == <>[](IF part = "seeders" THEN AllUp ELSE Keys!AllUp)
=============================================================================
