----------------------------- MODULE SigningKeys -----------------------------
(***************************************************************************)
(* The RSA key set that signs and verifies JWTs.  A server loads the pairs *)
(* of the key directory when it starts; rotate() and retire() change its   *)
(* memory and the directory, never the memory of another server that has   *)
(* the same directory mounted.                                             *)
(*                                                                         *)
(* A PEM file appears whole (write to a temporary name, then rename);      *)
(* active.kid is truncated and then written.  A server can be killed       *)
(* between any two file operations.  Kids are hashes: a new one is one that*)
(* was never used, and the first in the order of the BTreeMap can be any.  *)
(***************************************************************************)
EXTENDS Naturals

CONSTANTS
    Servers,
    Kids,          \* bound: keys
    LegacyKid,     \* kid of the pair private.pem, public.pem
    None,
    Torn,          \* active.kid exists and is empty
    MaxEvents      \* bound: rotations begun and servers killed

VARIABLES
    priv, pub,     \* kids with a <kid>.private.pem, with a <kid>.public.pem
    marker,        \* content of active.kid
    legacy,        \* private.pem and public.pem exist
    used,          \* kids that have been generated
    phase,         \* of each server: "down", a step of init(), or "up"
    todo,          \* files that load_existing_keys has listed and not read
    loaded,        \* by_kid
    active,        \* active_kid
    rotating,      \* of each kid: the rotate() that made it, until it has the lock
    lock,          \* of each server: what the holder of the write lock still has to do
    events

\* History, read by properties only.
VARIABLES
    served,        \* keys that have been the active one: tokens may name them
    retired,       \* keys that retire() removed
    answered,      \* key that a start or a rotation last settled on, None once torn
    overlap        \* two servers have run at the same time

disk == <<priv, pub, marker, legacy>>
memory == <<phase, todo, loaded, active>>
past == <<served, retired, answered, overlap>>
vars == <<disk, used, memory, rotating, lock, events, past>>

Init ==
    /\ priv = {} /\ pub = {} /\ marker = None /\ legacy \in BOOLEAN
    /\ used = IF legacy THEN {LegacyKid} ELSE {}
    /\ phase = [p \in Servers |-> "down"] /\ todo = [p \in Servers |-> {}]
    /\ loaded = [p \in Servers |-> {}] /\ active = [p \in Servers |-> None]
    /\ rotating = [k \in Kids |-> None] /\ lock = [p \in Servers |-> None]
    /\ events = 0
    /\ served = {} /\ retired = {} /\ answered = None /\ overlap = FALSE

-----------------------------------------------------------------------------
(* RsaKeyProvider::init *)

Goto(p, label) == phase' = [phase EXCEPT ![p] = label]

SetActive(p, k) == active' = [active EXCEPT ![p] = k]

\* init() returns, or a rotation switches: from now on k signs.
Serve(p, k) == SetActive(p, k) /\ served' = served \cup {k}

Load(p, k, pair) ==
    /\ todo' = [todo EXCEPT ![p] = @ \ {k}]
    /\ loaded' = [loaded EXCEPT ![p] = @ \cup pair]
    /\ UNCHANGED <<phase, active>>

\* The process ends, and its memory with it.
Ends(p) ==
    /\ Goto(p, "down") /\ SetActive(p, None)
    /\ todo' = [todo EXCEPT ![p] = {}] /\ loaded' = [loaded EXCEPT ![p] = {}]

\* The directory is listed.
Start(p) ==
    /\ phase[p] = "down"
    /\ Goto(p, "load")
    /\ todo' = [todo EXCEPT ![p] = priv]
    /\ overlap' = (overlap \/ \E q \in Servers \ {p} : phase[q] # "down")
    /\ UNCHANGED <<disk, used, loaded, active, rotating, lock, events, served, retired, answered>>

\* A listed private key without its public key is skipped; one that is gone by
\* the time it is read is an error, which ends the process.
LoadPair(p) ==
    /\ phase[p] = "load"
    /\ \E k \in todo[p] :
           \/ k \in priv \cap pub /\ Load(p, k, {k})
           \/ k \notin pub /\ Load(p, k, {})
           \/ k \in pub \ priv /\ Ends(p)
    /\ UNCHANGED <<disk, used, rotating, lock, events, past>>

\* generate_keypair and compute_kid.
NewKid == CHOOSE k \in Kids : k \notin used

\* No pair was loaded: migrate the legacy pair, or generate one.
Adopt(p) ==
    /\ \/ legacy /\ SetActive(p, LegacyKid) /\ UNCHANGED used
       \/ ~legacy /\ used # Kids /\ SetActive(p, NewKid) /\ used' = used \cup {NewKid}
    /\ Goto(p, "private")

\* Mutant: active.kid is not consulted.
ReadMarker_Ignored(p) ==
    /\ phase[p] = "load" /\ todo[p] = {}
    /\ \/ /\ loaded[p] # {}
          /\ (\E k \in loaded[p] : SetActive(p, k)) /\ Goto(p, "mark") /\ UNCHANGED used
       \/ loaded[p] = {} /\ Adopt(p)
    /\ UNCHANGED <<disk, todo, loaded, rotating, lock, events, past>>

\* The key that active.kid names if it was loaded; else the first loaded key;
\* else the legacy pair, or a new one.
ReadMarker(p) ==
    /\ phase[p] = "load" /\ todo[p] = {}
    /\ \/ marker \in loaded[p] /\ Serve(p, marker) /\ Goto(p, "up") /\ UNCHANGED used
       \/ /\ marker \notin loaded[p] /\ loaded[p] # {}
          /\ (\E k \in loaded[p] : SetActive(p, k)) /\ Goto(p, "mark") /\ UNCHANGED <<used, served>>
       \/ loaded[p] = {} /\ Adopt(p) /\ UNCHANGED served
    /\ UNCHANGED <<disk, todo, loaded, rotating, lock, events, retired, answered, overlap>>

\* write_key_files, of the key that init() has made or found.
WritePrivate(p) ==
    /\ phase[p] = "private"
    /\ priv' = priv \cup {active[p]} /\ Goto(p, "public")
    /\ UNCHANGED <<pub, marker, legacy, used, todo, loaded, active, rotating, lock, events, past>>

\* The legacy files are removed last, and an error of that is dropped.
WritePublic(p) ==
    /\ phase[p] = "public"
    /\ pub' = pub \cup {active[p]} /\ loaded' = [loaded EXCEPT ![p] = {active[p]}]
    /\ legacy' \in IF active[p] = LegacyKid THEN {legacy, FALSE} ELSE {legacy}
    /\ Goto(p, "mark")
    /\ UNCHANGED <<priv, marker, used, todo, active, rotating, lock, events, past>>

\* fs::write of active.kid.
TruncateMarker(p) ==
    /\ phase[p] = "mark"
    /\ marker' = Torn /\ Goto(p, "marking")
    /\ UNCHANGED <<priv, pub, legacy, used, todo, loaded, active, rotating, lock, events, past>>

WriteMarker(p) ==
    /\ phase[p] = "marking"
    /\ marker' = active[p] /\ Serve(p, active[p]) /\ Goto(p, "up")
    /\ answered' = IF answered = None THEN active[p] ELSE answered
    /\ UNCHANGED <<priv, pub, legacy, used, todo, loaded, rotating, lock, events, retired, overlap>>

-----------------------------------------------------------------------------
(* rotate: the files are written before the lock is taken, so rotations of  *)
(* one server overlap.                                                      *)

Free(p) == phase[p] = "up" /\ lock[p] = None

\* Mutant: the kid is not taken, and can be generated again.
BeginRotate_Untaken(p) ==
    /\ phase[p] = "up" /\ events < MaxEvents
    /\ used # Kids
    /\ rotating' = [rotating EXCEPT ![NewKid] = [by |-> p, at |-> "private"]]
    /\ events' = events + 1
    /\ UNCHANGED <<disk, used, memory, lock, past>>

BeginRotate(p) ==
    /\ phase[p] = "up" /\ events < MaxEvents
    /\ used # Kids /\ used' = used \cup {NewKid}
    /\ rotating' = [rotating EXCEPT ![NewKid] = [by |-> p, at |-> "private"]]
    /\ events' = events + 1
    /\ UNCHANGED <<disk, memory, lock, past>>

RotatePrivate(k) ==
    /\ rotating[k] # None /\ rotating[k].at = "private"
    /\ priv' = priv \cup {k} /\ rotating' = [rotating EXCEPT ![k].at = "public"]
    /\ UNCHANGED <<pub, marker, legacy, used, memory, lock, events, past>>

RotatePublic(k) ==
    /\ rotating[k] # None /\ rotating[k].at = "public"
    /\ pub' = pub \cup {k} /\ rotating' = [rotating EXCEPT ![k].at = "lock"]
    /\ UNCHANGED <<priv, marker, legacy, used, memory, lock, events, past>>

\* A file could not be written: the rotation ends before it changed the memory.
RotateFails(k) ==
    /\ rotating[k] # None /\ rotating[k].at \in {"private", "public"}
    /\ rotating' = [rotating EXCEPT ![k] = None]
    /\ UNCHANGED <<disk, used, memory, lock, events, past>>

\* Mutant: the memory is switched before the public key is on disk.
Switch_Early(k) ==
    /\ rotating[k] # None /\ rotating[k].at = "public"
    /\ LET p == rotating[k].by IN
           /\ Free(p)
           /\ loaded' = [loaded EXCEPT ![p] = @ \cup {k}] /\ Serve(p, k)
           /\ lock' = [lock EXCEPT ![p] = [op |-> "rotate", kid |-> k, at |-> "truncate"]]
    /\ rotating' = [rotating EXCEPT ![k] = None]
    /\ UNCHANGED <<disk, used, phase, todo, events, retired, answered, overlap>>

\* The write lock is taken and the memory switched.
Switch(k) ==
    /\ rotating[k] # None /\ rotating[k].at = "lock"
    /\ LET p == rotating[k].by IN
           /\ Free(p)
           /\ loaded' = [loaded EXCEPT ![p] = @ \cup {k}] /\ Serve(p, k)
           /\ lock' = [lock EXCEPT ![p] = [op |-> "rotate", kid |-> k, at |-> "truncate"]]
    /\ rotating' = [rotating EXCEPT ![k] = None]
    /\ UNCHANGED <<disk, used, phase, todo, events, retired, answered, overlap>>

Holds(p, op, at) == lock[p] # None /\ lock[p].op = op /\ lock[p].at = at

RotateTruncate(p) ==
    /\ Holds(p, "rotate", "truncate")
    /\ marker' = Torn /\ lock' = [lock EXCEPT ![p].at = "write"]
    /\ UNCHANGED <<priv, pub, legacy, used, memory, rotating, events, past>>

RotateMarker(p) ==
    /\ Holds(p, "rotate", "write")
    /\ marker' = lock[p].kid /\ answered' = lock[p].kid
    /\ lock' = [lock EXCEPT ![p] = None]
    /\ UNCHANGED <<priv, pub, legacy, used, memory, rotating, events, served, retired, overlap>>

\* fs::write fails; the error is returned with the memory already switched.
RotateMarkerFails(p) ==
    /\ lock[p] # None /\ lock[p].op = "rotate"
    /\ answered' = None /\ lock' = [lock EXCEPT ![p] = None]
    /\ UNCHANGED <<disk, used, memory, rotating, events, served, retired, overlap>>

-----------------------------------------------------------------------------
(* retire, sign and verify *)

\* The active key, or one that is not loaded.
RetireRefused(p) == Free(p) /\ UNCHANGED vars

Retire(p) ==
    /\ Free(p)
    /\ \E k \in loaded[p] \ {active[p]} :
           /\ loaded' = [loaded EXCEPT ![p] = @ \ {k}] /\ retired' = retired \cup {k}
           /\ lock' = [lock EXCEPT ![p] = [op |-> "retire", kid |-> k, at |-> "private"]]
    /\ UNCHANGED <<disk, used, phase, todo, active, rotating, events, served, answered, overlap>>

\* Errors of remove_file are dropped.
RemovePrivate(p) ==
    /\ Holds(p, "retire", "private")
    /\ priv' \in {priv, priv \ {lock[p].kid}}
    /\ lock' = [lock EXCEPT ![p].at = "public"]
    /\ UNCHANGED <<pub, marker, legacy, used, memory, rotating, events, past>>

RemovePublic(p) ==
    /\ Holds(p, "retire", "public")
    /\ pub' \in {pub, pub \ {lock[p].kid}}
    /\ lock' = [lock EXCEPT ![p] = None]
    /\ UNCHANGED <<priv, marker, legacy, used, memory, rotating, events, past>>

\* signed_with_type, under the read lock.
SigningKey(p) == active[p]

\* validate_internal: a token is checked with the key that its header names.
Verifies(p, k) == k \in loaded[p]

\* The server is killed, in whatever it was doing.
Kill(p) ==
    /\ phase[p] # "down" /\ events < MaxEvents
    /\ events' = events + 1
    /\ Ends(p) /\ lock' = [lock EXCEPT ![p] = None]
    /\ rotating' = [k \in Kids |-> IF rotating[k] # None /\ rotating[k].by = p
                                     THEN None ELSE rotating[k]]
    /\ answered' = IF Holds(p, "rotate", "write") THEN None ELSE answered
    /\ UNCHANGED <<disk, used, served, retired, overlap>>

-----------------------------------------------------------------------------
StartStep(p) ==
    \/ Start(p) \/ LoadPair(p) \/ ReadMarker(p) \/ WritePrivate(p) \/ WritePublic(p)
    \/ TruncateMarker(p) \/ WriteMarker(p)

Next ==
    \/ \E p \in Servers :
           \/ StartStep(p) \/ BeginRotate(p) \/ RotateTruncate(p) \/ RotateMarker(p)
           \/ RotateMarkerFails(p) \/ Retire(p) \/ RetireRefused(p) \/ RemovePrivate(p) \/ RemovePublic(p)
           \/ Kill(p)
    \/ \E k \in Kids : RotatePrivate(k) \/ RotatePublic(k) \/ RotateFails(k) \/ Switch(k)

\* A server is started again when it ended, and init() runs on.
Fairness == \A p \in Servers : WF_vars(StartStep(p))

Spec == Init /\ [][Next]_vars /\ Fairness

-----------------------------------------------------------------------------
Serving(p) == phase[p] = "up" /\ lock[p] = None

\* A rotate() that writes its files, and what the holder of a write lock is at.
Rotations == [by : Servers, at : {"private", "public", "lock"}]
Changes == [op : {"rotate"}, kid : Kids, at : {"truncate", "write"}]
      \cup [op : {"retire"}, kid : Kids, at : {"private", "public"}]

\* Types; a kid is being rotated in by at most one rotation, of a server that is up.
TypeOK ==
    /\ priv \subseteq used /\ pub \subseteq used /\ used \subseteq Kids
    /\ marker \in Kids \cup {None, Torn} /\ legacy \in BOOLEAN
    /\ phase \in [Servers -> {"down", "load", "private", "public", "mark", "marking", "up"}]
    /\ todo \in [Servers -> SUBSET Kids] /\ loaded \in [Servers -> SUBSET Kids]
    /\ active \in [Servers -> Kids \cup {None}]
    /\ rotating \in [Kids -> Rotations \cup {None}] /\ lock \in [Servers -> Changes \cup {None}]
    /\ served \subseteq used /\ retired \subseteq used /\ answered \in used \cup {None}
    /\ overlap \in BOOLEAN /\ events \in 0..MaxEvents
    /\ \A k \in Kids : rotating[k] # None => phase[rotating[k].by] = "up" /\ k \in used
    /\ \A p \in Servers : lock[p] # None => phase[p] = "up" /\ lock[p].kid \in used

\* "active kid must point at a loaded pair" (rsa_keys.rs:156): the expect() calls of
\* active_encoding_key and decoding_key_by_kid never panic, however rotations and
\* retirements of this and of other servers interleave.
ActiveLoaded == \A p \in Servers : phase[p] = "up" => active[p] \in loaded[p]

\* No token is signed with a key that a restart would lose: until it is retired, a
\* key that has been active has both its files, so every later start loads it.
SigningKeysOnDisk == \A k \in served \ retired : k \in priv /\ k \in pub

\* As long as servers run one at a time, a token verifies after any number of
\* rotations, failed rotations and restarts, unless its key was retired.
TokensVerify ==
    ~overlap => \A p \in Servers : Serving(p) =>
                    \A k \in served \ retired : Verifies(p, k)

\* Keys "survive restarts" (main.rs:114): as long as servers run one at a time, a
\* server signs with the key of the last rotation that answered, also after it was
\* killed and started again, unless the write of active.kid was cut short since.
RestartKeepsActive ==
    ~overlap => \A p \in Servers :
                    Serving(p) /\ answered # None => SigningKey(p) = answered

AllUp == \A p \in Servers : phase[p] = "up"

\* "a crash mid-write can't leave a half-written PEM that would block startup"
\* (rsa_keys.rs:336): nothing a killed server leaves behind, a torn active.kid
\* included, keeps the servers from coming up.
KeysComeUp == <>[]AllUp
=============================================================================
