------------------------------ MODULE MCGrants ------------------------------
(***************************************************************************)
(* The two grants that ask a user: authorization codes and device codes.   *)
(* They share no state here, so each behaviour runs one of them (part) and *)
(* leaves the other as it started.                                         *)
(***************************************************************************)
EXTENDS Authorization, TLC

CONSTANTS openid, email, Devices, UserCodes, Verifiers, Contested, None, PersistRetries

ASSUME DevicesAssumption ==
    /\ None \notin Verifiers \cup Sessions \cup Devices \cup UserCodes \cup Contested
    /\ PersistRetries \in Nat \ {0}

\* A narrow and a wide scope parameter.
MCAsked == {{openid}, {openid, email}}

\* The same model values serve as sessions and user codes, and as pending
\* requests and device codes: one set of permutations for both grants.
Symmetry ==
    Permutations(Requests) \cup Permutations(Sessions) \cup Permutations(Pendings)
        \cup Permutations(Codes)

VARIABLES
    part,
    status, holder, ucode, ttl, pointer, drawn, expired, at, kind, dev, sess,
    code, tries, approvers, issued, raced, lapsed, late

deviceVars == <<status, holder, ucode, ttl, pointer, drawn, expired, at, kind, dev,
                sess, code, tries, approvers, issued, raced, lapsed, late>>

Device == INSTANCE DeviceGrantProofs WITH Sessions <- Verifiers, pc <- at, op <- kind

\* Two sessions that answer for one device.
Rivals == INSTANCE DeviceGrantProofs WITH Devices <- Contested, pc <- at, op <- kind

\* The variables of the part that does not run hold a constant.
CodesOff ==
    /\ registered = None /\ row = None /\ granted = None /\ rows = None /\ store = None
    /\ pc = None /\ op = None /\ sid = None /\ scope = None /\ id = None
    /\ found = None /\ merged = None /\ fresh = None /\ since = None
    /\ uriSeen = None /\ stale = None /\ overlapped = None /\ denied = None
    /\ minted = None /\ redeemed = None

DevicesOff ==
    /\ status = None /\ holder = None /\ ucode = None /\ ttl = None /\ pointer = None
    /\ drawn = None /\ expired = None /\ at = None /\ kind = None /\ dev = None
    /\ sess = None /\ code = None /\ tries = None /\ approvers = None
    /\ issued = None /\ raced = None /\ lapsed = None /\ late = None

MCInit ==
    \/ part = "codes" /\ Init /\ DevicesOff
    \/ part = "devices" /\ Device!Init /\ CodesOff
    \/ part = "rivals" /\ Rivals!Init /\ CodesOff

MCNext ==
    \/ part = "codes" /\ Next /\ UNCHANGED <<part, deviceVars>>
    \/ part = "devices" /\ Device!Next /\ UNCHANGED <<part, vars>>
    \/ part = "rivals" /\ Rivals!Next /\ UNCHANGED <<part, vars>>

MCSpec == MCInit /\ [][MCNext]_<<part, vars, deviceVars>>

-----------------------------------------------------------------------------
\* Types, of authorizations and of device authorizations.
TypesOK ==
    /\ part = "codes" => TypeOK
    /\ part = "devices" => Device!TypeOK
    /\ part = "rivals" => Rivals!TypeOK

\* Authorization: one screen yields one code at most, none when the user
\* refused, and one code is redeemed once (pending_store.rs, code.rs).
OneAnswerOneRedemption == part = "codes" => AnsweredAndRedeemedOnce

\* Authorization: the consent row tracks the user's decisions.  A revoked
\* consent does not come back through a grant() that had read the old row,
\* and what was allowed since is remembered unless two grants overlapped.
ConsentTracksUser == part = "codes" => RevokedStaysRevoked /\ GrantsAccumulate

\* Authorization: what must hold at the moment a code is minted, although it
\* was checked earlier: scopes allowed and not revoked before the request
\* began, and a redirect URI registered since.
CodesJustified == part = "codes" => SilentCodeCovered /\ RedirectRevalidated

\* DeviceGrant: tokens go to a session that approved this device code, not
\* to a poll that starts after the expiry, and twice only after a race.
DeviceTokensJustified ==
    /\ part = "devices" =>
          Device!IssuedWasApproved /\ Device!ExpiredIsDead /\ Device!SingleUseExplained
    /\ part = "rivals" =>
          Rivals!IssuedWasApproved /\ Rivals!ExpiredIsDead /\ Rivals!SingleUseExplained

\* DeviceGrant: a live user code leads to the device that shows it, and to no
\* other.
UserCodesLead == part = "devices" => Device!UserCodesLead
=============================================================================
