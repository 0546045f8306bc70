---------------------------- MODULE DeviceGrant -----------------------------
(***************************************************************************)
(* The device authorization grant (RFC 8628).  A device authorization is a *)
(* Redis hash device:dc:<device code> and a pointer device:uc:<user code>  *)
(* to it.  The device polls /oauth/token while a user answers at           *)
(* /oauth/device/verify.  Both read the hash, decide, and write it back    *)
(* with EXISTS and HSET: no command joins the read to the write.           *)
(***************************************************************************)
EXTENDS Naturals

CONSTANTS
    Requests, Sessions, Devices, UserCodes,
    None,            \* no device, no session, no user code
    PersistRetries   \* user codes tried before giving up

VARIABLES
    status,    \* of each hash, "none" when the key is missing
    holder,    \* its sessionId field
    ucode,     \* its userCode field
    ttl,       \* the key has a time to live
    pointer,   \* device code that each user code points to
    drawn,     \* device codes generated
    expired,   \* device codes whose expires_at has passed
    pc, op, dev, sess,
    code,      \* user code typed, or generated
    tries

\* History, read by properties only.
VARIABLES
    approvers,  \* sessions that approved each device code
    issued,     \* token responses for each device code
    raced,      \* a decision was taken on a hash that had changed since it was read
    lapsed,     \* device codes whose pointer is gone
    late        \* the poll read the hash after expires_at

hash == <<status, holder, ucode, ttl>>
locals == <<op, dev, sess, code, tries, late>>
past == <<approvers, issued, raced, lapsed>>
vars == <<hash, pointer, drawn, expired, pc, locals, past>>

Init ==
    /\ status = [d \in Devices |-> "none"] /\ holder = [d \in Devices |-> None]
    /\ ucode = [d \in Devices |-> None] /\ ttl = [d \in Devices |-> FALSE]
    /\ pointer = [u \in UserCodes |-> None]
    /\ drawn = {} /\ expired = {}
    /\ pc = [r \in Requests |-> "idle"] /\ op = [r \in Requests |-> "none"]
    /\ dev = [r \in Requests |-> None] /\ sess = [r \in Requests |-> None]
    /\ code = [r \in Requests |-> None] /\ tries = [r \in Requests |-> 0]
    /\ late = [r \in Requests |-> FALSE]
    /\ approvers = [d \in Devices |-> {}] /\ issued = [d \in Devices |-> 0]
    /\ raced = {} /\ lapsed = {}

Goto(r, label) == pc' = [pc EXCEPT ![r] = label]

Proceed(r, label) == Goto(r, label) /\ UNCHANGED locals

End(r) ==
    /\ Goto(r, "idle")
    /\ op' = [op EXCEPT ![r] = "none"]
    /\ dev' = [dev EXCEPT ![r] = None] /\ sess' = [sess EXCEPT ![r] = None]
    /\ code' = [code EXCEPT ![r] = None] /\ tries' = [tries EXCEPT ![r] = 0]
    /\ late' = [late EXCEPT ![r] = FALSE]

-----------------------------------------------------------------------------
(* POST /oauth/device-authorization.                                       *)

BeginRequest(r, d) ==
    /\ pc[r] = "idle" /\ d \notin drawn
    /\ drawn' = drawn \cup {d}
    /\ op' = [op EXCEPT ![r] = "request"] /\ dev' = [dev EXCEPT ![r] = d]
    /\ Goto(r, "pointer")
    /\ UNCHANGED <<hash, pointer, expired, sess, code, tries, late, past>>

\* Mutant: SET without NX.
SetPointer_NoNx(r, u) ==
    /\ pc[r] = "pointer"
    /\ pointer' = [pointer EXCEPT ![u] = dev[r]]
    /\ code' = [code EXCEPT ![r] = u] /\ Goto(r, "hash")
    /\ UNCHANGED <<hash, drawn, expired, op, dev, sess, tries, late, past>>

\* SET NX EX on the pointer; a user code that is taken is replaced by another
\* one, PersistRetries times at most.
SetPointer(r, u) ==
    /\ pc[r] = "pointer"
    /\ \/ /\ pointer[u] = None
          /\ pointer' = [pointer EXCEPT ![u] = dev[r]]
          /\ code' = [code EXCEPT ![r] = u] /\ Goto(r, "hash")
          /\ UNCHANGED <<op, dev, sess, tries, late>>
       \/ /\ pointer[u] # None /\ tries[r] + 1 < PersistRetries
          /\ tries' = [tries EXCEPT ![r] = @ + 1]
          /\ UNCHANGED <<pointer, pc, op, dev, sess, code, late>>
       \/ /\ pointer[u] # None /\ tries[r] + 1 >= PersistRetries
          /\ End(r) /\ UNCHANGED pointer
    /\ UNCHANGED <<hash, drawn, expired, past>>

\* HSET of the new hash.
WriteHash(r) ==
    /\ pc[r] = "hash"
    /\ status' = [status EXCEPT ![dev[r]] = "pending"]
    /\ ucode' = [ucode EXCEPT ![dev[r]] = code[r]]
    /\ holder' = [holder EXCEPT ![dev[r]] = None]
    /\ ttl' = [ttl EXCEPT ![dev[r]] = FALSE]
    /\ Proceed(r, "ttl")
    /\ UNCHANGED <<pointer, drawn, expired, past>>

\* EXPIRE in a command of its own.
SetTtl(r) ==
    /\ pc[r] = "ttl"
    /\ ttl' = [ttl EXCEPT ![dev[r]] = status[dev[r]] # "none"]
    /\ End(r)
    /\ UNCHANGED <<status, holder, ucode, pointer, drawn, expired, past>>

-----------------------------------------------------------------------------
(* POST /oauth/device/verify, from a session that find_active_session      *)
(* accepted.                                                               *)

\* GET of the pointer.
FindByUserCode(u) == pointer[u]

\* A user code is typed; without a pointer the handler ends at once.
BeginVerify(r, answer, s, u) ==
    /\ pc[r] = "idle" /\ FindByUserCode(u) # None
    /\ op' = [op EXCEPT ![r] = answer] /\ sess' = [sess EXCEPT ![r] = s]
    /\ code' = [code EXCEPT ![r] = u] /\ dev' = [dev EXCEPT ![r] = FindByUserCode(u)]
    /\ Goto(r, "answer")
    /\ UNCHANGED <<hash, pointer, drawn, expired, tries, late, past>>

\* HGETALL; only a pending, unexpired authorization can be answered.
ReadForVerify(r) ==
    /\ pc[r] = "answer"
    /\ IF status[dev[r]] = "pending" /\ dev[r] \notin expired
       THEN Proceed(r, "exists")
       ELSE End(r)
    /\ UNCHANGED <<hash, pointer, drawn, expired, past>>

-----------------------------------------------------------------------------
(* POST /oauth/token with a device code that the device was given, client  *)
(* authenticated.                                                          *)

\* Another poll has seen the approval and not yet marked it consumed.
PollBetween(r, d) ==
    \E q \in Requests \ {r} :
        op[q] = "poll" /\ dev[q] = d /\ pc[q] \in {"owner", "exists", "hset"}

\* The device has its code: the request for it has answered.
Delivered(d) == d \in drawn /\ \A q \in Requests : dev[q] = d => op[q] # "request"

\* A poll that has read an approved hash.
Approved(r, d) ==
    /\ pc[r] = "idle" /\ Delivered(d)
    /\ status[d] = "approved" /\ holder[d] # None
    /\ op' = [op EXCEPT ![r] = "poll"] /\ dev' = [dev EXCEPT ![r] = d]
    /\ sess' = [sess EXCEPT ![r] = holder[d]] /\ code' = [code EXCEPT ![r] = ucode[d]]
    /\ late' = [late EXCEPT ![r] = d \in expired]
    /\ raced' = IF PollBetween(r, d) THEN raced \cup {d} ELSE raced
    /\ Goto(r, "owner")
    /\ UNCHANGED <<hash, pointer, drawn, expired, tries, approvers, issued, lapsed>>

\* Mutant: expiry is left to Redis.
ReadForPoll_NoClock(r, d) == Approved(r, d)

\* HGETALL.  When authorization_pending, access_denied, expired_token or
\* "already used" is answered from what it returned, nothing changes.
ReadForPoll(r, d) == Approved(r, d) /\ d \notin expired

\* The user and the session are read from Postgres and may be gone.
ReadOwner(r) ==
    /\ pc[r] = "owner"
    /\ Proceed(r, "exists") \/ End(r)
    /\ UNCHANGED <<hash, pointer, drawn, expired, past>>

\* The tokens are issued in a transaction of their own.
Issue(r) ==
    /\ pc[r] = "issue"
    /\ issued' = [issued EXCEPT ![dev[r]] = @ + 1]
    /\ End(r)
    /\ UNCHANGED <<hash, pointer, drawn, expired, approvers, raced, lapsed>>

-----------------------------------------------------------------------------
(* DeviceAuthorizationRepository::update, for both.                        *)

\* EXISTS; when the key is gone update returns Ok and its caller goes on.
Exists(r) ==
    /\ pc[r] = "exists"
    /\ IF status[dev[r]] # "none" THEN Proceed(r, "hset")
       ELSE IF op[r] = "poll" THEN Proceed(r, "issue")
       ELSE End(r)
    /\ UNCHANGED <<hash, pointer, drawn, expired, past>>

\* The hash as the request read it, with its decision, is written back.  A
\* key that has gone since EXISTS is created again, without a ttl.
Write(r, st, s) ==
    /\ status' = [status EXCEPT ![dev[r]] = st]
    /\ holder' = [holder EXCEPT ![dev[r]] = s]
    /\ ucode' = [ucode EXCEPT ![dev[r]] = code[r]]
    /\ ttl' = [ttl EXCEPT ![dev[r]] = @ /\ status[dev[r]] # "none"]

\* Fields left out of an HSET keep their value.
Kept(r) == IF status[dev[r]] = "none" THEN None ELSE holder[dev[r]]

\* Mutant: a denial is stored as an approval.
Hset_DenyIgnored(r) ==
    /\ pc[r] = "hset"
    /\ \/ op[r] = "poll" /\ Write(r, "consumed", sess[r]) /\ Proceed(r, "issue")
       \/ op[r] \in {"allow", "deny"} /\ Write(r, "approved", sess[r]) /\ End(r)
    /\ approvers' = IF op[r] = "allow"
                    THEN [approvers EXCEPT ![dev[r]] = @ \cup {sess[r]}] ELSE approvers
    /\ raced' = IF op[r] # "poll" /\ status[dev[r]] # "pending"
                THEN raced \cup {dev[r]} ELSE raced
    /\ UNCHANGED <<pointer, drawn, expired, issued, lapsed>>

\* Mutant: the poll does not mark the device code.
Hset_NotConsumed(r) ==
    /\ pc[r] = "hset"
    /\ \/ op[r] = "poll" /\ Write(r, "approved", sess[r]) /\ Proceed(r, "issue")
       \/ op[r] = "allow" /\ Write(r, "approved", sess[r]) /\ End(r)
       \/ op[r] = "deny" /\ Write(r, "denied", Kept(r)) /\ End(r)
    /\ approvers' = IF op[r] = "allow"
                    THEN [approvers EXCEPT ![dev[r]] = @ \cup {sess[r]}] ELSE approvers
    /\ raced' = IF op[r] # "poll" /\ status[dev[r]] # "pending"
                THEN raced \cup {dev[r]} ELSE raced
    /\ UNCHANGED <<pointer, drawn, expired, issued, lapsed>>

\* HSET.
Hset(r) ==
    /\ pc[r] = "hset"
    /\ \/ op[r] = "poll" /\ Write(r, "consumed", sess[r]) /\ Proceed(r, "issue")
       \/ op[r] = "allow" /\ Write(r, "approved", sess[r]) /\ End(r)
       \/ op[r] = "deny" /\ Write(r, "denied", Kept(r)) /\ End(r)
    /\ approvers' = IF op[r] = "allow"
                    THEN [approvers EXCEPT ![dev[r]] = @ \cup {sess[r]}] ELSE approvers
    /\ raced' = IF op[r] # "poll" /\ status[dev[r]] # "pending"
                THEN raced \cup {dev[r]} ELSE raced
    /\ UNCHANGED <<pointer, drawn, expired, issued, lapsed>>

-----------------------------------------------------------------------------
(* Errors, time and Redis.                                                 *)

Abort(r) ==
    /\ pc[r] # "idle"
    /\ End(r)
    /\ UNCHANGED <<hash, pointer, drawn, expired, past>>

Unlink(d) ==
    /\ pointer' = [u \in UserCodes |-> IF pointer[u] = d THEN None ELSE pointer[u]]
    /\ lapsed' = lapsed \cup {d}

Drop(d) ==
    /\ status' = [status EXCEPT ![d] = "none"] /\ holder' = [holder EXCEPT ![d] = None]
    /\ ucode' = [ucode EXCEPT ![d] = None] /\ ttl' = [ttl EXCEPT ![d] = FALSE]

\* The last second, as ttl is rounded down: a key goes before expires_at.
LapsePointer(d) ==
    /\ \E u \in UserCodes : pointer[u] = d
    /\ Unlink(d)
    /\ UNCHANGED <<hash, drawn, expired, pc, locals, approvers, issued, raced>>

LapseHash(d) ==
    /\ ttl[d] /\ Drop(d)
    /\ UNCHANGED <<pointer, drawn, expired, pc, locals, past>>

\* expires_at passes; Redis has dropped what has a ttl.
Expire(d) ==
    /\ d \in drawn \ expired
    /\ expired' = expired \cup {d}
    /\ Unlink(d)
    /\ IF ttl[d] THEN Drop(d) ELSE UNCHANGED hash
    /\ UNCHANGED <<drawn, pc, locals, approvers, issued, raced>>

Step(r) ==
    \/ WriteHash(r) \/ SetTtl(r) \/ ReadForVerify(r)
    \/ ReadOwner(r) \/ Exists(r) \/ Hset(r) \/ Issue(r) \/ Abort(r)
    \/ \E d \in Devices : BeginRequest(r, d) \/ ReadForPoll(r, d)
    \/ \E u \in UserCodes : SetPointer(r, u)
    \/ \E answer \in {"allow", "deny"}, s \in Sessions, u \in UserCodes :
          BeginVerify(r, answer, s, u)

Next ==
    \/ \E r \in Requests : Step(r)
    \/ \E d \in Devices : LapsePointer(d) \/ LapseHash(d) \/ Expire(d)

Spec == Init /\ [][Next]_vars

-----------------------------------------------------------------------------
(* Properties.                                                             *)

Labels == {"idle", "pointer", "hash", "ttl", "answer", "owner",
           "exists", "hset", "issue"}

TypeOK ==
    /\ status \in [Devices -> {"none", "pending", "approved", "denied", "consumed"}]
    /\ holder \in [Devices -> Sessions \cup {None}]
    /\ ucode \in [Devices -> UserCodes \cup {None}] /\ ttl \in [Devices -> BOOLEAN]
    /\ pointer \in [UserCodes -> Devices \cup {None}]
    /\ drawn \subseteq Devices /\ expired \subseteq drawn
    /\ pc \in [Requests -> Labels]
    /\ op \in [Requests -> {"none", "request", "allow", "deny", "poll"}]
    /\ dev \in [Requests -> Devices \cup {None}]
    /\ sess \in [Requests -> Sessions \cup {None}]
    /\ code \in [Requests -> UserCodes \cup {None}]
    /\ tries \in [Requests -> 0..PersistRetries - 1] /\ late \in [Requests -> BOOLEAN]
    /\ approvers \in [Devices -> SUBSET Sessions] /\ issued \in [Devices -> Nat]
    /\ raced \subseteq Devices /\ lapsed \subseteq Devices

\* Tokens are issued for a session only when that session approved this very
\* device code, whatever overwrites what (flow.rs verify_user_code, token
\* flow from_device_code).
IssuedWasApproved ==
    \A r \in Requests : pc[r] = "issue" => sess[r] \in approvers[dev[r]]

\* A device code yields tokens twice only after a race: two polls that both
\* read the approval before either stored "consumed", or an answer written
\* over a hash that was no longer pending (from_device_code "already used").
SingleUseExplained == \A d \in Devices : issued[d] > 1 => d \in raced

\* A poll that reads the hash after expires_at yields nothing, also when the hash
\* lives on in Redis without a ttl (from_device_code expired_token).
ExpiredIsDead == \A r \in Requests : pc[r] = "issue" => ~late[r]

\* A user code that leads to a hash is the one the hash shows to the user,
\* collisions and retries included (request_device_authorization), and two
\* device authorizations never share one while their pointers live
\* (repository.rs persist, SET NX).
UserCodesLead ==
    /\ \A u \in UserCodes :
           pointer[u] # None => ucode[pointer[u]] \in {u, None}
    /\ \A d, e \in Devices :
           d # e /\ ucode[d] # None /\ ucode[d] = ucode[e] => lapsed \cap {d, e} # {}
=============================================================================
