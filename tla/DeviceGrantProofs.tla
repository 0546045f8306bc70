-------------------------- MODULE DeviceGrantProofs --------------------------
(***************************************************************************)
(* The inductive invariant of the device authorization grant, for any      *)
(* number of requests, sessions, device codes and user codes.              *)
(***************************************************************************)
EXTENDS DeviceGrant, TLAPS

\* What the proofs need of the constants; whoever instantiates the module shows it.
ConstantsOK ==
    /\ None \notin Sessions \cup Devices \cup UserCodes
    /\ PersistRetries \in Nat \ {0}

Answers == {"allow", "deny"}

\* What a request is doing, on which device and for which session.
RequestsInOrder ==
    \A r \in Requests :
        /\ pc[r] = "idle" <=> op[r] = "none"
        /\ pc[r] \in {"pointer", "hash", "ttl"} <=> op[r] = "request"
        /\ pc[r] = "answer" => op[r] \in Answers
        /\ pc[r] \in {"owner", "issue"} => op[r] = "poll"
        /\ op[r] # "none" => dev[r] \in drawn
        /\ op[r] = "none" => dev[r] = None /\ code[r] = None
        /\ op[r] \in Answers \cup {"poll"} => sess[r] # None
        /\ pc[r] = "hash" \/ op[r] \in Answers => code[r] # None
        /\ ~late[r]

\* An approved hash names a session that approved the device code, and so does
\* what a poll has read from it.
ApprovedByHolder ==
    /\ \A d \in Devices :
          status[d] = "approved" /\ holder[d] # None => holder[d] \in approvers[d]
    /\ \A r \in Requests : op[r] = "poll" => sess[r] \in approvers[dev[r]]

\* Without a race, one poll at a time is past the approval, none once tokens were
\* issued, and the hash does not go back to "approved" behind it.
OnePoll ==
    \A d \in Devices \ raced :
        /\ issued[d] <= 1
        /\ issued[d] = 1 => status[d] \in {"none", "consumed"} /\ Delivered(d)
        /\ \A r \in Requests : op[r] = "poll" /\ dev[r] = d =>
              /\ issued[d] = 0 /\ Delivered(d)
              /\ \A q \in Requests : op[q] = "poll" /\ dev[q] = d => q = r
              /\ status[d] \in {"none", IF pc[r] = "issue" THEN "consumed" ELSE "approved"}

\* Device code d is behind user code u: its pointer leads there, or is gone for
\* good, and no other user code leads to d.
Behind(u, d) ==
    /\ pointer[u] = d \/ d \in lapsed
    /\ \A v \in UserCodes : pointer[v] = d => v = u

\* Whoever shows or writes a user code for a device has the right one; a request
\* that has none yet is alone with its device code.
CodesBehind ==
    /\ \A u, v \in UserCodes : pointer[u] = pointer[v] /\ pointer[u] # None => u = v
    /\ \A u \in UserCodes : pointer[u] # None => pointer[u] \in drawn
    /\ \A d \in Devices : ucode[d] # None => d \in drawn /\ Behind(ucode[d], d)
    /\ \A r \in Requests : op[r] # "none" /\ code[r] # None => Behind(code[r], dev[r])
    /\ \A r \in Requests : op[r] = "request" =>
          \A q \in Requests : op[q] = "request" /\ dev[q] = dev[r] => q = r
    /\ \A r \in Requests : pc[r] = "pointer" =>
          /\ code[r] = None /\ ucode[dev[r]] = None
          /\ \A u \in UserCodes : pointer[u] # dev[r]
          /\ \A q \in Requests \ {r} : dev[q] # dev[r]

DeviceInv ==
    TypeOK /\ RequestsInOrder /\ ApprovedByHolder /\ OnePoll /\ CodesBehind

\* What the poll writes into late, whether a test holds, keeps it Boolean.
LEMMA StillBoolean ==
    ASSUME NEW S, NEW f \in [S -> BOOLEAN], NEW x \in S, NEW b \in BOOLEAN
    PROVE  [f EXCEPT ![x] = b] \in [S -> BOOLEAN]
  BY Zenon

\* Nothing drawn, nothing stored.
LEMMA DeviceInit == ConstantsOK /\ Init => DeviceInv
  BY DEF ConstantsOK, Init, DeviceInv, TypeOK, Labels, RequestsInOrder, Answers,
         ApprovedByHolder, OnePoll, CodesBehind

\* Every action keeps the types.
LEMMA DeviceTypes == ConstantsOK /\ TypeOK /\ RequestsInOrder /\ Next => TypeOK'
  <1> SUFFICES ASSUME ConstantsOK, TypeOK, RequestsInOrder, Next PROVE TypeOK'
      BY Zenon
  <1> USE DEF ConstantsOK, TypeOK, Labels, Goto, Proceed, End, hash, locals, past
  <1>1. ASSUME NEW r \in Requests, NEW d \in Devices, BeginRequest(r, d) PROVE TypeOK'
      BY <1>1, Zenon DEF BeginRequest
  <1>2. ASSUME NEW r \in Requests, NEW d \in Devices, ReadForPoll(r, d) PROVE TypeOK'
    <2>1. late' \in [Requests -> BOOLEAN]
      <3> HIDE DEF TypeOK
      <3>1. late' = [late EXCEPT ![r] = d \in expired]
          BY <1>2, Zenon DEF ReadForPoll, Approved
      <3>2. late \in [Requests -> BOOLEAN]
          BY Zenon DEF TypeOK
      <3> QED
          BY <3>1, <3>2, StillBoolean
    <2>2. /\ op' = [op EXCEPT ![r] = "poll"] /\ dev' = [dev EXCEPT ![r] = d]
          /\ sess' = [sess EXCEPT ![r] = holder[d]] /\ code' = [code EXCEPT ![r] = ucode[d]]
          /\ raced' \subseteq raced \cup {d} /\ Goto(r, "owner")
          /\ UNCHANGED <<hash, pointer, drawn, expired, tries, approvers, issued, lapsed>>
        BY <1>2, Zenon DEF ReadForPoll, Approved
    <2> QED
        BY <2>1, <2>2, Zenon
  <1>3. ASSUME NEW r \in Requests, NEW u \in UserCodes, SetPointer(r, u) PROVE TypeOK'
    <2>1. UNCHANGED <<hash, drawn, expired, past>>
        BY <1>3, Zenon DEF SetPointer
    <2>2. CASE /\ pointer' = [pointer EXCEPT ![u] = dev[r]]
               /\ code' = [code EXCEPT ![r] = u] /\ Goto(r, "hash")
               /\ UNCHANGED <<op, dev, sess, tries, late>>
        BY <2>1, <2>2, Zenon
    <2>3. CASE /\ tries[r] + 1 < PersistRetries
               /\ tries' = [tries EXCEPT ![r] = @ + 1]
               /\ UNCHANGED <<pointer, pc, op, dev, sess, code, late>>
      <3>1. tries[r] + 1 \in 0..PersistRetries - 1
          BY <2>3
      <3> QED
          BY <2>1, <2>3, <3>1, Zenon
    <2>4. CASE End(r) /\ UNCHANGED pointer
        BY <2>1, <2>4
    <2> QED
        BY <1>3, <2>2, <2>3, <2>4, Zenon DEF SetPointer
  <1>4. ASSUME NEW r \in Requests, NEW answer \in Answers, NEW s \in Sessions,
               NEW u \in UserCodes, BeginVerify(r, answer, s, u)
        PROVE  TypeOK'
      BY <1>4, Zenon DEF BeginVerify, FindByUserCode, Answers
  <1>5. ASSUME NEW r \in Requests, WriteHash(r) PROVE TypeOK'
      BY <1>5, Zenon DEF WriteHash
  <1>6. ASSUME NEW r \in Requests, SetTtl(r) PROVE TypeOK'
    <2>1. ttl' \in [Devices -> BOOLEAN]
        BY <1>6, Zenon DEF SetTtl
    <2>2. End(r) /\ UNCHANGED <<status, holder, ucode, pointer, drawn, expired, past>>
        BY <1>6, Zenon DEF SetTtl
    <2> QED
        BY <2>1, <2>2
  <1>7. ASSUME NEW r \in Requests,
               ReadForVerify(r) \/ ReadOwner(r) \/ Exists(r) \/ Abort(r)
        PROVE  TypeOK'
    <2>1. UNCHANGED <<hash, pointer, drawn, expired, past>>
        BY <1>7, Zenon DEF ReadForVerify, ReadOwner, Exists, Abort
    <2>2. End(r) \/ \E label \in Labels : Proceed(r, label)
        BY <1>7, Zenon DEF ReadForVerify, ReadOwner, Exists, Abort
    <2>3. CASE End(r)
        BY <2>1, <2>3
    <2>4. ASSUME NEW label \in Labels, Proceed(r, label) PROVE TypeOK'
        BY <2>1, <2>4, Zenon
    <2> QED
        BY <2>2, <2>3, <2>4, Zenon
  <1>8. ASSUME NEW r \in Requests, Issue(r) PROVE TypeOK'
    <2>1. dev[r] \in Devices /\ issued[dev[r]] \in Nat
        BY <1>8, Zenon DEF Issue, RequestsInOrder
    <2>2. issued' \in [Devices -> Nat]
        BY <1>8, <2>1 DEF Issue
    <2>3. End(r) /\ UNCHANGED <<hash, pointer, drawn, expired, approvers, raced, lapsed>>
        BY <1>8, Zenon DEF Issue
    <2> QED
        BY <2>2, <2>3
  <1>9. ASSUME NEW r \in Requests, Hset(r) PROVE TypeOK'
    <2>1. dev[r] \in Devices /\ sess[r] \in Sessions
        BY <1>9, Zenon DEF Hset, RequestsInOrder, Answers
    <2>2. ASSUME NEW st \in {"approved", "denied", "consumed"},
                 NEW s \in Sessions \cup {None}, Write(r, st, s)
          PROVE  /\ status' \in [Devices -> {"none", "pending", "approved", "denied", "consumed"}]
                 /\ holder' \in [Devices -> Sessions \cup {None}]
                 /\ ucode' \in [Devices -> UserCodes \cup {None}]
                 /\ ttl' \in [Devices -> BOOLEAN]
      <3>1. ttl' \in [Devices -> BOOLEAN]
          BY <2>2, Zenon DEF Write
      <3> QED
          BY <2>2, <3>1, Zenon DEF Write
    <2>3. Kept(r) \in Sessions \cup {None}
        BY <2>1, Zenon DEF Kept
    <2>4. approvers' \in [Devices -> SUBSET Sessions] /\ raced' \subseteq Devices
        BY <1>9, <2>1 DEF Hset
    <2>5. CASE op[r] = "poll" /\ Write(r, "consumed", sess[r]) /\ Proceed(r, "issue")
        BY <1>9, <2>1, <2>2, <2>4, <2>5, Zenon DEF Hset
    <2>6. CASE End(r) /\ \E st \in {"approved", "denied"}, s \in Sessions \cup {None} :
                             Write(r, st, s)
        BY <1>9, <2>2, <2>4, <2>6 DEF Hset
    <2> QED
        BY <1>9, <2>1, <2>3, <2>5, <2>6, Zenon DEF Hset
  <1>10. ASSUME NEW d \in Devices, LapsePointer(d) PROVE TypeOK'
      BY <1>10, Zenon DEF LapsePointer, Unlink
  <1>11. ASSUME NEW d \in Devices, LapseHash(d) PROVE TypeOK'
      BY <1>11, Zenon DEF LapseHash, Drop
  <1>12. ASSUME NEW d \in Devices, Expire(d) PROVE TypeOK'
    <2>1. CASE ttl[d]
      <3>1. Drop(d) /\ Unlink(d) /\ UNCHANGED <<drawn, pc, locals, approvers, issued, raced>>
          BY <1>12, <2>1, Zenon DEF Expire
      <3>2. expired' \subseteq drawn
          BY <1>12, Zenon DEF Expire
      <3> QED
          BY <3>1, <3>2, Zenon DEF Unlink, Drop
    <2>2. CASE ~ttl[d]
        BY <1>12, <2>2, Zenon DEF Expire, Unlink
    <2> QED
        BY <2>1, <2>2, Zenon
  <1> HIDE DEF TypeOK
  <1> QED
      BY <1>1, <1>2, <1>3, <1>4, <1>5, <1>6, <1>7, <1>8, <1>9, <1>10, <1>11, <1>12, Zenon
      DEF Next, Step, Answers

\* A request is where its handler says it is: each label belongs to one kind of
\* request, and a poll is past the expiry check only when it passed it.
LEMMA DeviceOrder ==
    ConstantsOK /\ TypeOK /\ RequestsInOrder /\ CodesBehind /\ Next => RequestsInOrder'
  <1> SUFFICES ASSUME ConstantsOK, TypeOK, RequestsInOrder, CodesBehind, Next
               PROVE  RequestsInOrder'
      BY Zenon
  <1> USE DEF ConstantsOK, RequestsInOrder, Answers, Goto, Proceed, locals
  <1>1. pc \in [Requests -> Labels] /\ dev \in [Requests -> Devices \cup {None}]
      BY Zenon DEF TypeOK
  <1>2. /\ op \in [Requests -> {"none", "request", "allow", "deny", "poll"}]
        /\ sess \in [Requests -> Sessions \cup {None}]
        /\ code \in [Requests -> UserCodes \cup {None}] /\ late \in [Requests -> BOOLEAN]
      BY Zenon DEF TypeOK
  <1>3. ASSUME NEW r \in Requests, End(r), UNCHANGED drawn PROVE RequestsInOrder'
      BY <1>1, <1>2, <1>3, Zenon DEF End
  <1>4. ASSUME UNCHANGED <<pc, locals, drawn>> PROVE RequestsInOrder'
      BY <1>4, Zenon
  <1>5. ASSUME NEW r \in Requests, NEW d \in Devices, BeginRequest(r, d)
        PROVE  RequestsInOrder'
      BY <1>1, <1>2, <1>5, Zenon DEF BeginRequest
  <1>6. ASSUME NEW r \in Requests, NEW d \in Devices, ReadForPoll(r, d)
        PROVE  RequestsInOrder'
    <2>1. late' = [late EXCEPT ![r] = d \in expired] /\ d \notin expired
        BY <1>6, Zenon DEF ReadForPoll, Approved
    <2>2. \A q \in Requests : ~late[q]
        BY Zenon
    <2>3. \A q \in Requests : ~late'[q]
        BY <1>2, <2>1, <2>2, Zenon
    <2>4. /\ op' = [op EXCEPT ![r] = "poll"] /\ dev' = [dev EXCEPT ![r] = d]
          /\ sess' = [sess EXCEPT ![r] = holder[d]] /\ holder[d] # None
          /\ code' = [code EXCEPT ![r] = ucode[d]] /\ d \in drawn
          /\ pc' = [pc EXCEPT ![r] = "owner"] /\ UNCHANGED drawn
        BY <1>6, Zenon DEF ReadForPoll, Approved, Delivered
    <2> QED
        BY <1>1, <1>2, <2>3, <2>4, Zenon
  <1>7. ASSUME NEW r \in Requests, NEW u \in UserCodes, SetPointer(r, u)
        PROVE  RequestsInOrder'
    <2>1. CASE /\ code' = [code EXCEPT ![r] = u] /\ Goto(r, "hash")
               /\ UNCHANGED <<op, dev, sess, tries, late, drawn>>
        BY <1>1, <1>2, <1>7, <2>1, Zenon DEF SetPointer
    <2> QED
        BY <1>3, <1>7, <2>1, ZenonT(60) DEF SetPointer
  <1>8. ASSUME NEW r \in Requests, NEW answer \in Answers, NEW s \in Sessions,
               NEW u \in UserCodes, BeginVerify(r, answer, s, u)
        PROVE  RequestsInOrder'
    <2>1. pointer[u] # None /\ pointer[u] \in drawn
        BY <1>8, Zenon DEF BeginVerify, FindByUserCode, CodesBehind
    <2> QED
        BY <1>1, <1>2, <1>8, <2>1, Zenon DEF BeginVerify, FindByUserCode
  <1>9. ASSUME NEW r \in Requests, WriteHash(r) PROVE RequestsInOrder'
      BY <1>1, <1>2, <1>9, Zenon DEF WriteHash
  <1>10. ASSUME NEW r \in Requests,
                SetTtl(r) \/ ReadForVerify(r) \/ ReadOwner(r) \/ Issue(r) \/ Abort(r)
         PROVE  RequestsInOrder'
    <2>1. CASE End(r) /\ UNCHANGED drawn
        BY <1>3, <2>1, Zenon
    <2>2. CASE pc[r] \in {"answer", "owner"} /\ Proceed(r, "exists") /\ UNCHANGED drawn
        BY <1>1, <1>2, <2>2, Zenon
    <2> QED
        BY <1>10, <2>1, <2>2, Zenon
        DEF SetTtl, ReadForVerify, ReadOwner, Issue, Abort
  <1>11. ASSUME NEW r \in Requests, Exists(r) PROVE RequestsInOrder'
    <2>1. CASE End(r) /\ UNCHANGED drawn
        BY <1>3, <2>1, Zenon
    <2>2. CASE pc[r] = "exists" /\ Proceed(r, "hset") /\ UNCHANGED drawn
        BY <1>1, <1>2, <2>2, Zenon
    <2>3. CASE /\ pc[r] = "exists" /\ op[r] = "poll"
               /\ Proceed(r, "issue") /\ UNCHANGED drawn
        BY <1>1, <1>2, <2>3, Zenon
    <2> QED
        BY <1>11, <2>1, <2>2, <2>3, Zenon DEF Exists
  <1>12. ASSUME NEW r \in Requests, Hset(r) PROVE RequestsInOrder'
    <2>1. CASE End(r) /\ UNCHANGED drawn
        BY <1>3, <2>1, Zenon
    <2>2. CASE /\ pc[r] = "hset" /\ op[r] = "poll"
               /\ Proceed(r, "issue") /\ UNCHANGED drawn
        BY <1>1, <1>2, <2>2, Zenon
    <2> QED
        BY <1>12, <2>1, <2>2, Zenon DEF Hset
  <1>13. ASSUME NEW d \in Devices, LapsePointer(d) \/ LapseHash(d) \/ Expire(d)
         PROVE  RequestsInOrder'
      BY <1>4, <1>13, Zenon DEF LapsePointer, LapseHash, Expire
  <1> HIDE DEF RequestsInOrder
  <1> QED
      BY <1>5, <1>6, <1>7, <1>8, <1>9, <1>10, <1>11, <1>12, <1>13, Zenon DEF Next, Step

\* Only "allow" makes an approved hash, with its own session as the holder, and
\* what a poll read stays approved: approvers only grow.
LEMMA DeviceApproved ==
    ConstantsOK /\ TypeOK /\ RequestsInOrder /\ ApprovedByHolder /\ Next
        => ApprovedByHolder'
  <1> SUFFICES ASSUME ConstantsOK, TypeOK, RequestsInOrder, ApprovedByHolder, Next
               PROVE  ApprovedByHolder'
      BY Zenon
  <1> USE DEF ConstantsOK, ApprovedByHolder, Goto, Proceed, locals, hash, past
  <1>1. /\ status \in [Devices -> {"none", "pending", "approved", "denied", "consumed"}]
        /\ holder \in [Devices -> Sessions \cup {None}]
        /\ approvers \in [Devices -> SUBSET Sessions]
        /\ dev \in [Requests -> Devices \cup {None}]
        /\ op \in [Requests -> {"none", "request", "allow", "deny", "poll"}]
        /\ sess \in [Requests -> Sessions \cup {None}]
      BY Zenon DEF TypeOK
  <1>2. ASSUME NEW r \in Requests, op[r] # "none" PROVE dev[r] \in Devices
      BY <1>2, Zenon DEF RequestsInOrder, TypeOK
  <1>3. ASSUME NEW r \in Requests, End(r), UNCHANGED <<status, holder, approvers>>
        PROVE  ApprovedByHolder'
      BY <1>1, <1>3, Zenon DEF End
  <1>4. ASSUME UNCHANGED <<status, holder, approvers, op, dev, sess>>
        PROVE  ApprovedByHolder'
      BY <1>4, Zenon
  <1>5. ASSUME NEW r \in Requests, NEW d \in Devices, BeginRequest(r, d)
        PROVE  ApprovedByHolder'
      BY <1>1, <1>5, Zenon DEF BeginRequest, RequestsInOrder
  <1>6. ASSUME NEW r \in Requests, NEW d \in Devices, ReadForPoll(r, d)
        PROVE  ApprovedByHolder'
    <2>1. /\ op' = [op EXCEPT ![r] = "poll"] /\ dev' = [dev EXCEPT ![r] = d]
          /\ sess' = [sess EXCEPT ![r] = holder[d]] /\ holder[d] # None
          /\ status[d] = "approved" /\ UNCHANGED <<status, holder, approvers>>
        BY <1>6, Zenon DEF ReadForPoll, Approved
    <2> QED
        BY <1>1, <2>1, Zenon
  <1>7. ASSUME NEW r \in Requests, NEW u \in UserCodes, SetPointer(r, u)
        PROVE  ApprovedByHolder'
      BY <1>3, <1>4, <1>7, Zenon DEF SetPointer
  <1>8. ASSUME NEW r \in Requests, NEW answer \in Answers, NEW s \in Sessions,
               NEW u \in UserCodes, BeginVerify(r, answer, s, u)
        PROVE  ApprovedByHolder'
    <2>1. /\ op' = [op EXCEPT ![r] = answer] /\ UNCHANGED <<status, holder, approvers>>
          /\ \A q \in Requests \ {r} : dev'[q] = dev[q] /\ sess'[q] = sess[q]
        BY <1>1, <1>8, Zenon DEF BeginVerify
    <2> QED
        BY <1>1, <2>1, Zenon DEF Answers
  <1>9. ASSUME NEW r \in Requests, WriteHash(r) PROVE ApprovedByHolder'
    <2>1. /\ status' = [status EXCEPT ![dev[r]] = "pending"]
          /\ holder' = [holder EXCEPT ![dev[r]] = None]
          /\ UNCHANGED <<op, dev, sess, approvers>>
        BY <1>9, Zenon DEF WriteHash
    <2> QED
        BY <1>1, <2>1, Zenon
  <1>10. ASSUME NEW r \in Requests,
                \/ SetTtl(r) \/ ReadForVerify(r) \/ ReadOwner(r) \/ Exists(r)
                \/ Issue(r) \/ Abort(r)
         PROVE  ApprovedByHolder'
    <2>1. UNCHANGED <<status, holder, approvers>>
        BY <1>10, Zenon DEF SetTtl, ReadForVerify, ReadOwner, Exists, Issue, Abort
    <2>2. End(r) \/ UNCHANGED <<op, dev, sess>>
        BY <1>10, Zenon DEF SetTtl, ReadForVerify, ReadOwner, Exists, Issue, Abort
    <2> QED
        BY <1>3, <1>4, <2>1, <2>2, Zenon
  <1>11. ASSUME NEW r \in Requests, Hset(r) PROVE ApprovedByHolder'
    <2>1. dev[r] \in Devices
        BY <1>2, <1>11, Zenon DEF Hset
    <2>2. CASE /\ op[r] = "poll" /\ status' = [status EXCEPT ![dev[r]] = "consumed"]
               /\ holder' = [holder EXCEPT ![dev[r]] = sess[r]]
               /\ UNCHANGED <<op, dev, sess, approvers>>
        BY <1>1, <2>1, <2>2, Zenon
    <2>3. CASE /\ op[r] = "allow" /\ status' = [status EXCEPT ![dev[r]] = "approved"]
               /\ holder' = [holder EXCEPT ![dev[r]] = sess[r]] /\ End(r)
               /\ approvers' = [approvers EXCEPT ![dev[r]] = @ \cup {sess[r]}]
      <3>1. \A d \in Devices : approvers[d] \subseteq approvers'[d]
          BY <1>1, <2>1, <2>3, Zenon
      <3>2. sess[r] \in approvers'[dev[r]]
          BY <1>1, <2>1, <2>3, Zenon
      <3>3. \A d \in Devices : status'[d] = "approved" /\ holder'[d] # None
                                   => holder'[d] \in approvers'[d]
          BY <1>1, <2>1, <2>3, <3>1, <3>2, Zenon
      <3>4. \A q \in Requests : op'[q] = "poll" => sess'[q] \in approvers'[dev'[q]]
          BY <1>1, <1>2, <2>3, <3>1 DEF End
      <3> QED
          BY <3>3, <3>4, Zenon
    <2>4. CASE /\ op[r] = "deny" /\ status' = [status EXCEPT ![dev[r]] = "denied"]
               /\ holder' = [holder EXCEPT ![dev[r]] = Kept(r)] /\ End(r)
               /\ UNCHANGED approvers
        BY <1>1, <2>1, <2>4, Zenon DEF End
    <2> QED
        BY <1>11, <2>2, <2>3, <2>4, Zenon DEF Hset, Write
  <1>12. ASSUME NEW d \in Devices, LapsePointer(d) \/ LapseHash(d) \/ Expire(d)
         PROVE  ApprovedByHolder'
    <2>1. CASE Drop(d) /\ UNCHANGED <<approvers, op, dev, sess>>
        BY <1>1, <2>1, Zenon DEF Drop
    <2> QED
        BY <1>4, <1>12, <2>1, Zenon DEF LapsePointer, LapseHash, Expire
  <1> HIDE DEF ApprovedByHolder
  <1> QED
      BY <1>5, <1>6, <1>7, <1>8, <1>9, <1>10, <1>11, <1>12, Zenon DEF Next, Step, Answers

\* Two polls of one device code meet, or its hash is approved again, only with the
\* device code in raced.
LEMMA DeviceOnePoll ==
    ConstantsOK /\ TypeOK /\ RequestsInOrder /\ OnePoll /\ Next => OnePoll'
  <1> SUFFICES ASSUME ConstantsOK, TypeOK, RequestsInOrder, OnePoll, Next,
                      NEW d \in Devices \ raced'
               PROVE  /\ issued'[d] <= 1
                      /\ issued'[d] = 1 => status'[d] \in {"none", "consumed"} /\ Delivered(d)'
                      /\ \A r \in Requests : op'[r] = "poll" /\ dev'[r] = d =>
                            /\ issued'[d] = 0 /\ Delivered(d)'
                            /\ \A q \in Requests : op'[q] = "poll" /\ dev'[q] = d => q = r
                            /\ status'[d] \in {"none", IF pc'[r] = "issue" THEN "consumed"
                                                       ELSE "approved"}
      BY Zenon DEF OnePoll
  <1> DEFINE Goal == /\ issued'[d] <= 1
                     /\ issued'[d] = 1 => status'[d] \in {"none", "consumed"} /\ Delivered(d)'
                     /\ \A r \in Requests : op'[r] = "poll" /\ dev'[r] = d =>
                           /\ issued'[d] = 0 /\ Delivered(d)'
                           /\ \A q \in Requests : op'[q] = "poll" /\ dev'[q] = d => q = r
                           /\ status'[d] \in {"none", IF pc'[r] = "issue" THEN "consumed"
                                                      ELSE "approved"}
  <1> USE DEF ConstantsOK, Goto, Proceed, locals, hash, past
  <1>1. /\ status \in [Devices -> {"none", "pending", "approved", "denied", "consumed"}]
        /\ issued \in [Devices -> Nat] /\ pc \in [Requests -> Labels] /\ drawn \subseteq Devices
        /\ dev \in [Requests -> Devices \cup {None}]
        /\ op \in [Requests -> {"none", "request", "allow", "deny", "poll"}]
      BY Zenon DEF TypeOK
  <1>2. d \notin raced
      BY ZenonT(60) DEF Next, Step, BeginRequest, ReadForPoll, Approved, SetPointer, BeginVerify,
         WriteHash, SetTtl, ReadForVerify, ReadOwner, Exists, Issue, Hset, Abort, LapsePointer,
         LapseHash, Expire
  <1>3. /\ issued[d] \in {0, 1}
        /\ issued[d] = 1 => status[d] \in {"none", "consumed"} /\ Delivered(d)
        /\ \A r \in Requests : op[r] = "poll" /\ dev[r] = d =>
              /\ issued[d] = 0 /\ Delivered(d)
              /\ \A q \in Requests : op[q] = "poll" /\ dev[q] = d => q = r
              /\ status[d] \in {"none", IF pc[r] = "issue" THEN "consumed" ELSE "approved"}
      BY <1>1, <1>2 DEF OnePoll
  <1>4. ASSUME drawn \subseteq drawn',
               \A q \in Requests : op'[q] = "request" =>
                   dev'[q] # d \/ (op[q] = "request" /\ dev[q] = dev'[q])
        PROVE  Delivered(d) => Delivered(d)'
      BY <1>4, Zenon DEF Delivered
\* A request that does not become a poll, with the hash and the count left alone.
  <1>5. ASSUME NEW r \in Requests, UNCHANGED <<status, issued>>, Delivered(d) => Delivered(d)',
               \A q \in Requests : op'[q] = "poll" =>
                  op[q] = "poll" /\ dev'[q] = dev[q] /\ (pc'[q] = "issue" <=> pc[q] = "issue")
        PROVE  Goal
      BY <1>3, <1>5
  <1>6. ASSUME NEW r \in Requests, End(r), UNCHANGED <<drawn, status, issued>> PROVE Goal
    <2>1. Delivered(d) => Delivered(d)'
        BY <1>1, <1>4, <1>6, Zenon DEF End
    <2> QED
        BY <1>1, <1>5, <1>6, <2>1, Zenon DEF End
  <1>7. ASSUME NEW r \in Requests, NEW e \in Devices, BeginRequest(r, e) PROVE Goal
    <2>1. Delivered(d) => Delivered(d)'
        BY <1>1, <1>7, Zenon DEF BeginRequest, Delivered
    <2> QED
        BY <1>1, <1>5, <1>7, <2>1, Zenon DEF BeginRequest
  <1>8. ASSUME NEW r \in Requests, NEW e \in Devices, ReadForPoll(r, e) PROVE Goal
    <2>1. /\ pc[r] = "idle" /\ op' = [op EXCEPT ![r] = "poll"]
          /\ dev' = [dev EXCEPT ![r] = e] /\ pc' = [pc EXCEPT ![r] = "owner"]
          /\ Delivered(e) /\ status[e] = "approved"
          /\ UNCHANGED <<drawn, status, issued>>
        BY <1>8, Zenon DEF ReadForPoll, Approved
    <2>2. Delivered(d) => Delivered(d)'
        BY <1>1, <1>4, <2>1, Zenon
    <2>3. CASE d # e
        BY <1>1, <1>3, <2>1, <2>2, <2>3 DEF RequestsInOrder
    <2>4. CASE d = e
      <3>1. ~PollBetween(r, d)
          BY <1>8, <2>4, Zenon DEF ReadForPoll, Approved
      <3>2. \A q \in Requests \ {r} : ~(op[q] = "poll" /\ dev[q] = d)
          BY <1>1, <1>3, <2>1, <2>4, <3>1 DEF PollBetween, RequestsInOrder, Answers, Labels
      <3> QED
          BY <1>1, <1>3, <2>1, <2>2, <2>4, <3>2
    <2> QED
        BY <2>3, <2>4, Zenon
  <1>9. ASSUME NEW r \in Requests, NEW u \in UserCodes, SetPointer(r, u) PROVE Goal
    <2>1. CASE pc[r] = "pointer" /\ Goto(r, "hash") /\ UNCHANGED <<op, dev, drawn, status, issued>>
        BY <1>1, <1>4, <1>5, <2>1, Zenon DEF RequestsInOrder
    <2>2. CASE UNCHANGED <<pc, op, dev, drawn, status, issued>>
        BY <1>4, <1>5, <2>2, Zenon
    <2> QED
        BY <1>6, <1>9, <2>1, <2>2, Zenon DEF SetPointer
  <1>10. ASSUME NEW r \in Requests, NEW answer \in Answers, NEW s \in Sessions,
                NEW u \in UserCodes, BeginVerify(r, answer, s, u)
         PROVE  Goal
    <2>1. /\ op' = [op EXCEPT ![r] = answer] /\ UNCHANGED <<drawn, status, issued>>
          /\ \A q \in Requests \ {r} : dev'[q] = dev[q] /\ pc'[q] = pc[q]
        BY <1>1, <1>10, Zenon DEF BeginVerify
    <2> QED
        BY <1>1, <1>4, <1>5, <2>1, Zenon DEF Answers
  <1>11. ASSUME NEW r \in Requests, WriteHash(r) PROVE Goal
    <2>1. /\ pc[r] = "hash" /\ op[r] = "request" /\ dev[r] \in Devices
          /\ status' = [status EXCEPT ![dev[r]] = "pending"]
          /\ pc' = [pc EXCEPT ![r] = "ttl"] /\ UNCHANGED <<op, dev, drawn, issued>>
        BY <1>1, <1>11, Zenon DEF WriteHash, RequestsInOrder
    <2>2. Delivered(d) <=> Delivered(d)'
        BY <2>1, Zenon DEF Delivered
    <2>3. dev[r] = d => ~Delivered(d)
        BY <2>1, Zenon DEF Delivered
    <2> QED
        BY <1>1, <1>3, <2>1, <2>2, <2>3
  <1>12. ASSUME NEW r \in Requests, SetTtl(r) \/ ReadForVerify(r) \/ ReadOwner(r) \/ Abort(r)
         PROVE  Goal
    <2>1. UNCHANGED <<drawn, status, issued>>
        BY <1>12, Zenon DEF SetTtl, ReadForVerify, ReadOwner, Abort
    <2>2. CASE pc[r] \in {"answer", "owner"} /\ Proceed(r, "exists")
        BY <1>1, <1>4, <1>5, <2>1, <2>2, Zenon
    <2> QED
        BY <1>6, <1>12, <2>1, <2>2, Zenon DEF SetTtl, ReadForVerify, ReadOwner, Abort
  <1>13. ASSUME NEW r \in Requests, Exists(r) PROVE Goal
    <2>1. UNCHANGED <<drawn, status, issued>> /\ pc[r] = "exists"
        BY <1>13, Zenon DEF Exists
    <2>2. CASE Proceed(r, "hset")
        BY <1>1, <1>4, <1>5, <2>1, <2>2, Zenon
    <2>3. CASE Proceed(r, "issue") /\ op[r] = "poll" /\ status[dev[r]] = "none"
      <3>1. Delivered(d) => Delivered(d)'
          BY <1>1, <1>4, <2>1, <2>3, Zenon
      <3>2. UNCHANGED <<op, dev>> /\ pc' = [pc EXCEPT ![r] = "issue"]
          BY <2>3, Zenon
      <3> QED
          BY <1>1, <1>3, <2>1, <2>3, <3>1, <3>2
    <2> QED
        BY <1>6, <1>13, <2>1, <2>2, <2>3, Zenon DEF Exists
  <1>14. ASSUME NEW r \in Requests, Issue(r) PROVE Goal
    <2>1. /\ pc[r] = "issue" /\ op[r] = "poll" /\ dev[r] \in Devices
          /\ issued' = [issued EXCEPT ![dev[r]] = @ + 1]
          /\ End(r) /\ UNCHANGED <<drawn, status>>
        BY <1>1, <1>14, Zenon DEF Issue, RequestsInOrder
    <2>2. Delivered(d) => Delivered(d)'
        BY <1>1, <1>4, <2>1, Zenon DEF End
    <2>3. /\ \A q \in Requests : op'[q] = "poll" =>
                q # r /\ op[q] = "poll" /\ dev'[q] = dev[q] /\ pc'[q] = pc[q]
          /\ UNCHANGED status
        BY <1>1, <2>1, Zenon DEF End
    <2>4. CASE dev[r] # d
      <3>1. issued'[d] = issued[d]
          BY <1>1, <2>1, <2>4, Zenon
      <3> QED
          BY <1>3, <2>2, <2>3, <3>1
    <2>5. CASE dev[r] = d
      <3>1. issued'[d] = 1 /\ status[d] \in {"none", "consumed"} /\ Delivered(d)
          BY <1>1, <1>3, <2>1, <2>5
      <3>2. \A q \in Requests : ~(op'[q] = "poll" /\ dev'[q] = d)
          BY <1>3, <2>1, <2>3, <2>5, Zenon
      <3> QED
          BY <2>2, <2>3, <3>1, <3>2
    <2> QED
        BY <2>4, <2>5, Zenon
  <1>15. ASSUME NEW r \in Requests, Hset(r) PROVE Goal
    <2>1. pc[r] = "hset" /\ UNCHANGED <<drawn, issued>>
        BY <1>15, Zenon DEF Hset
    <2>2. ASSUME op[r] # "none" PROVE dev[r] \in Devices
        BY <1>1, <2>2, Zenon DEF RequestsInOrder
    <2>3. CASE /\ op[r] = "poll" /\ status' = [status EXCEPT ![dev[r]] = "consumed"]
               /\ Proceed(r, "issue")
      <3>1. Delivered(d) => Delivered(d)'
          BY <1>1, <1>4, <2>1, <2>3, Zenon
      <3>2. UNCHANGED <<op, dev>> /\ pc' = [pc EXCEPT ![r] = "issue"]
          BY <2>3, Zenon
      <3> QED
          BY <1>1, <1>3, <2>1, <2>2, <2>3, <3>1, <3>2
    <2>4. ASSUME op[r] # "poll", NEW st \in {"approved", "denied"},
                 status' = [status EXCEPT ![dev[r]] = st], End(r)
          PROVE  Goal
      <3>1. Delivered(d) => Delivered(d)'
          BY <1>1, <1>4, <2>1, <2>4, Zenon DEF End
      <3>2. \A q \in Requests : op'[q] = "poll" =>
                op[q] = "poll" /\ dev'[q] = dev[q] /\ pc'[q] = pc[q]
          BY <1>1, <2>4, Zenon DEF End
      <3>3. dev[r] = d => status[d] = "pending"
          BY <1>15, <2>4, Zenon DEF Hset
      <3>4. CASE dev[r] = d
        <4>1. issued[d] = 0 /\ \A q \in Requests : ~(op[q] = "poll" /\ dev[q] = d)
            BY <1>3, <3>3, <3>4, Zenon
        <4> QED
            BY <2>1, <3>2, <4>1
      <3>5. CASE dev[r] # d
        <4>1. status'[d] = status[d]
            BY <1>1, <2>4, <3>5, Zenon
        <4> QED
            BY <1>3, <2>1, <3>1, <3>2, <4>1
      <3> QED
          BY <3>4, <3>5, Zenon
    <2> QED
        BY <1>15, <2>3, <2>4, Zenon DEF Hset, Write
  <1>16. ASSUME NEW e \in Devices, LapsePointer(e) \/ LapseHash(e) \/ Expire(e) PROVE Goal
    <2>1. UNCHANGED <<drawn, issued, pc, op, dev>>
        BY <1>16, Zenon DEF LapsePointer, LapseHash, Expire
    <2>2. Delivered(d) => Delivered(d)'
        BY <2>1, Zenon DEF Delivered
    <2>3. status' = status \/ status' = [status EXCEPT ![e] = "none"]
        BY <1>16, Zenon DEF LapsePointer, LapseHash, Expire, Drop
    <2>4. status'[d] \in {status[d], "none"}
        BY <1>1, <2>3, Zenon
    <2> QED
        BY <1>3, <2>1, <2>2, <2>4
  <1> HIDE DEF Goal
  <1>17. Goal
      BY <1>7, <1>8, <1>9, <1>10, <1>11, <1>12, <1>13, <1>14, <1>15, <1>16, Zenon
      DEF Next, Step, Answers
  <1> QED
      BY <1>17, Zenon DEF Goal

\* SET NX gives a user code to one device code, and nothing moves a pointer
\* afterwards: it only goes, for good.
LEMMA DeviceCodes ==
    ConstantsOK /\ TypeOK /\ RequestsInOrder /\ CodesBehind /\ Next => CodesBehind'
  <1> SUFFICES ASSUME ConstantsOK, TypeOK, RequestsInOrder, CodesBehind, Next
               PROVE  CodesBehind'
      BY Zenon
  <1> USE DEF ConstantsOK, Goto, Proceed, locals, hash, past
  <1>1. /\ pointer \in [UserCodes -> Devices \cup {None}] /\ drawn \subseteq Devices
        /\ ucode \in [Devices -> UserCodes \cup {None}]
        /\ dev \in [Requests -> Devices \cup {None}]
        /\ code \in [Requests -> UserCodes \cup {None}] /\ pc \in [Requests -> Labels]
        /\ op \in [Requests -> {"none", "request", "allow", "deny", "poll"}]
      BY Zenon DEF TypeOK
  <1> DEFINE Apart == \A u, v \in UserCodes : pointer[u] = pointer[v] /\ pointer[u] # None => u = v
             Drawn == \A u \in UserCodes : pointer[u] # None => pointer[u] \in drawn
             After(u, d) == /\ pointer'[u] = d \/ d \in lapsed'
                            /\ \A v \in UserCodes : pointer'[v] = d => v = u
             Kept1 == \A u \in UserCodes, d \in Devices : Behind(u, d) => After(u, d)
             Fewer == \A u \in UserCodes : pointer'[u] \in {pointer[u], None}
  <1>2. ASSUME UNCHANGED <<pointer, lapsed>> PROVE Kept1 /\ Fewer
      BY <1>2, Zenon DEF Behind
  <1>3. ASSUME NEW e \in Devices, Unlink(e) PROVE Kept1 /\ Fewer
    <2>1. Fewer
        BY <1>1, <1>3, Zenon DEF Unlink
    <2>2. ASSUME NEW u \in UserCodes, NEW d \in Devices, Behind(u, d) PROVE After(u, d)
      <3>1. pointer[u] = d /\ d # e => pointer'[u] = d
          BY <1>1, <1>3, Zenon DEF Unlink
      <3>2. lapsed' = lapsed \cup {e}
          BY <1>3, Zenon DEF Unlink
      <3>3. \A v \in UserCodes : pointer'[v] = d => pointer[v] = d
          BY <2>1, Zenon
      <3> QED
          BY <2>2, <3>1, <3>2, <3>3, Zenon DEF Behind
    <2> QED
        BY <2>1, <2>2, Zenon
\* Pointers may go, hashes may go, one request may end or move on.
  <1>4. ASSUME Kept1, Fewer, drawn' = drawn,
               \A d \in Devices : ucode'[d] \in {ucode[d], None},
               \A q \in Requests :
                  \/ /\ op'[q] = op[q] /\ dev'[q] = dev[q] /\ code'[q] = code[q]
                     /\ pc'[q] = "pointer" => pc[q] = "pointer"
                  \/ op'[q] = "none" /\ dev'[q] = None /\ pc'[q] = "idle"
        PROVE  CodesBehind'
    <2>1. Apart' /\ Drawn'
        BY <1>4 DEF CodesBehind
    <2>3. \A d \in Devices : ucode'[d] # None => d \in drawn' /\ After(ucode'[d], d)
        BY <1>1, <1>4 DEF CodesBehind
    <2>4. \A q \in Requests : op'[q] # "none" => dev[q] \in Devices
        BY <1>1, <1>4, Zenon DEF RequestsInOrder
    <2>6. \A q \in Requests : op'[q] # "none" /\ code'[q] # None => After(code'[q], dev'[q])
      <3> HIDE DEF After
      <3> QED
          BY <1>1, <1>4, <2>4 DEF CodesBehind
    <2>7. \A q \in Requests : pc'[q] = "pointer" =>
              /\ pc[q] = "pointer" /\ op'[q] = op[q] /\ dev'[q] = dev[q] /\ code'[q] = code[q]
              /\ dev[q] \in Devices
        BY <1>1, <1>4, Zenon DEF RequestsInOrder
    <2>8. \A r \in Requests : pc'[r] = "pointer" =>
              /\ code'[r] = None /\ ucode'[dev'[r]] = None
              /\ \A u \in UserCodes : pointer'[u] # dev'[r]
              /\ \A q \in Requests \ {r} : dev'[q] # dev'[r]
        BY <1>4, <2>7 DEF CodesBehind
    <2>9. \A r \in Requests : op'[r] = "request" =>
              \A q \in Requests : op'[q] = "request" /\ dev'[q] = dev'[r] => q = r
        BY <1>4 DEF CodesBehind
    <2> QED
        BY <2>1, <2>3, <2>6, <2>8, <2>9, Zenon DEF CodesBehind, Behind
\* A step that leaves the pointers alone, and leaves or ends its request.
  <1>5. ASSUME NEW r \in Requests, UNCHANGED <<pointer, lapsed, drawn, ucode>>,
               End(r) \/ (Proceed(r, "exists") \/ Proceed(r, "hset") \/ Proceed(r, "issue"))
        PROVE  CodesBehind'
      BY <1>1, <1>2, <1>4, <1>5 DEF End
  <1>6. ASSUME NEW r \in Requests, NEW d \in Devices, BeginRequest(r, d) PROVE CodesBehind'
    <2>1. /\ pc[r] = "idle" /\ d \notin drawn /\ drawn' = drawn \cup {d}
          /\ op' = [op EXCEPT ![r] = "request"] /\ dev' = [dev EXCEPT ![r] = d]
          /\ pc' = [pc EXCEPT ![r] = "pointer"] /\ UNCHANGED <<ucode, pointer, code, lapsed>>
        BY <1>6, Zenon DEF BeginRequest
    <2>2. /\ code[r] = None /\ ucode[d] = None /\ \A u \in UserCodes : pointer[u] # d
          /\ \A q \in Requests : dev[q] # d
        BY <1>1, <2>1 DEF CodesBehind, RequestsInOrder
    <2>3. \A q \in Requests \ {r} : op'[q] = op[q] /\ dev'[q] = dev[q] /\ pc'[q] = pc[q]
        BY <1>1, <2>1, Zenon
    <2>4. op'[r] = "request" /\ dev'[r] = d /\ pc'[r] = "pointer"
        BY <1>1, <2>1, Zenon
    <2> QED
        BY <1>1, <2>1, <2>2, <2>3, <2>4 DEF CodesBehind, Behind
  <1>7. ASSUME NEW r \in Requests, NEW d \in Devices, ReadForPoll(r, d) PROVE CodesBehind'
    <2>1. /\ pc[r] = "idle" /\ Delivered(d)
          /\ op' = [op EXCEPT ![r] = "poll"] /\ dev' = [dev EXCEPT ![r] = d]
          /\ code' = [code EXCEPT ![r] = ucode[d]] /\ pc' = [pc EXCEPT ![r] = "owner"]
          /\ UNCHANGED <<ucode, pointer, drawn, lapsed>>
        BY <1>7, Zenon DEF ReadForPoll, Approved
    <2>2. \A q \in Requests : pc[q] = "pointer" => dev[q] # d
        BY <2>1, Zenon DEF Delivered, RequestsInOrder
    <2>3. \A q \in Requests \ {r} : /\ op'[q] = op[q] /\ dev'[q] = dev[q] /\ pc'[q] = pc[q]
                                    /\ code'[q] = code[q]
        BY <1>1, <2>1, Zenon
    <2>4. op'[r] = "poll" /\ dev'[r] = d /\ pc'[r] = "owner" /\ code'[r] = ucode[d]
        BY <1>1, <2>1, Zenon
    <2> QED
        BY <1>1, <2>1, <2>2, <2>3, <2>4 DEF CodesBehind, Behind
  <1>8. ASSUME NEW r \in Requests, NEW u \in UserCodes, SetPointer(r, u) PROVE CodesBehind'
    <2>1. CASE /\ pc[r] = "pointer" /\ pointer[u] = None
               /\ pointer' = [pointer EXCEPT ![u] = dev[r]]
               /\ code' = [code EXCEPT ![r] = u] /\ pc' = [pc EXCEPT ![r] = "hash"]
               /\ UNCHANGED <<op, dev, ucode, drawn, lapsed>>
      <3>1. dev[r] \in drawn /\ dev[r] \in Devices
          BY <1>1, <2>1, Zenon DEF RequestsInOrder
      <3>2. /\ ucode[dev[r]] = None /\ \A v \in UserCodes : pointer[v] # dev[r]
            /\ \A q \in Requests \ {r} : dev[q] # dev[r]
          BY <2>1, Zenon DEF CodesBehind
      <3>3. pointer'[u] = dev[r] /\ \A v \in UserCodes \ {u} : pointer'[v] = pointer[v]
          BY <1>1, <2>1, Zenon
      <3>4. \A v \in UserCodes, d \in Devices \ {dev[r]} : Behind(v, d) => After(v, d)
          BY <1>1, <2>1, <3>1, <3>3, Zenon DEF Behind
      <3>5. After(u, dev[r])
          BY <3>2, <3>3, Zenon
      <3>6. Apart' /\ Drawn'
          BY <2>1, <3>1, <3>2, <3>3 DEF CodesBehind
      <3>7. \A d \in Devices : ucode'[d] # None => d \in drawn' /\ After(ucode'[d], d)
        <4> HIDE DEF After
        <4> QED
            BY <1>1, <2>1, <3>2, <3>4 DEF CodesBehind
      <3>8. code'[r] = u /\ pc'[r] = "hash" /\ \A q \in Requests \ {r} : pc'[q] = pc[q] /\ code'[q] = code[q]
          BY <1>1, <2>1, Zenon
      <3>9. \A q \in Requests : op'[q] # "none" /\ code'[q] # None => After(code'[q], dev'[q])
        <4>1. \A q \in Requests : op[q] # "none" => dev[q] \in Devices
            BY <1>1, Zenon DEF RequestsInOrder
        <4> HIDE DEF After
        <4> QED
            BY <1>1, <2>1, <3>2, <3>4, <3>5, <3>8, <4>1 DEF CodesBehind
      <3>10. \A p \in Requests : pc'[p] = "pointer" =>
                /\ code'[p] = None /\ ucode'[dev'[p]] = None
                /\ \A v \in UserCodes : pointer'[v] # dev'[p]
                /\ \A q \in Requests \ {p} : dev'[q] # dev'[p]
          BY <2>1, <3>2, <3>3, <3>8 DEF CodesBehind
      <3>11. \A p \in Requests : op'[p] = "request" =>
                \A q \in Requests : op'[q] = "request" /\ dev'[q] = dev'[p] => q = p
          BY <2>1, Zenon DEF CodesBehind
      <3> QED
          BY <3>6, <3>7, <3>9, <3>10, <3>11, Zenon DEF CodesBehind, Behind
    <2>2. CASE UNCHANGED <<pointer, lapsed, drawn, ucode, pc, op, dev, code>>
        BY <1>2, <1>4, <2>2, Zenon
    <2>3. CASE End(r) /\ UNCHANGED <<pointer, lapsed, drawn, ucode>>
        BY <1>5, <2>3, Zenon
    <2> QED
        BY <1>8, <2>1, <2>2, <2>3, Zenon DEF SetPointer
  <1>9. ASSUME NEW r \in Requests, NEW answer \in Answers, NEW s \in Sessions,
               NEW u \in UserCodes, BeginVerify(r, answer, s, u)
        PROVE  CodesBehind'
    <2> DEFINE d == pointer[u]
    <2>1. /\ op' = [op EXCEPT ![r] = answer] /\ dev' = [dev EXCEPT ![r] = d]
          /\ code' = [code EXCEPT ![r] = u] /\ pc' = [pc EXCEPT ![r] = "answer"]
          /\ d # None /\ UNCHANGED <<ucode, pointer, drawn, lapsed>>
        BY <1>9, Zenon DEF BeginVerify, FindByUserCode
    <2>2. \A q \in Requests : pc[q] = "pointer" => dev[q] # d
        BY <2>1, Zenon DEF CodesBehind
    <2>3. Behind(u, d) /\ d \in Devices
        BY <1>1, <2>1, Zenon DEF CodesBehind, Behind
    <2>4. \A q \in Requests \ {r} : /\ op'[q] = op[q] /\ dev'[q] = dev[q] /\ pc'[q] = pc[q]
                                    /\ code'[q] = code[q]
        BY <1>1, <2>1, Zenon
    <2>5. /\ op'[r] = answer /\ answer \notin {"request", "none"}
          /\ dev'[r] = d /\ pc'[r] = "answer" /\ code'[r] = u
        BY <1>1, <2>1, Zenon DEF Answers
    <2> HIDE DEF d
    <2> QED
        BY <1>1, <2>1, <2>2, <2>3, <2>4, <2>5 DEF CodesBehind, Behind
\* The hash is written with the user code of the request that writes it.
  <1>10. ASSUME NEW r \in Requests, op[r] # "none", pc[r] # "pointer",
                ucode' = [ucode EXCEPT ![dev[r]] = code[r]],
                UNCHANGED <<op, dev, code, pointer, drawn, lapsed>>,
                \A q \in Requests : pc'[q] = "pointer" => pc[q] = "pointer"
         PROVE  CodesBehind'
    <2>1. dev[r] \in drawn /\ dev[r] \in Devices
        BY <1>1, <1>10, Zenon DEF RequestsInOrder
    <2>2. \A e \in Devices : ucode'[e] = IF e = dev[r] THEN code[r] ELSE ucode[e]
        BY <1>1, <1>10, Zenon
    <2>3. \A e \in Devices : ucode'[e] # None => e \in drawn' /\ After(ucode'[e], e)
        BY <1>10, <2>1, <2>2 DEF CodesBehind, Behind
    <2>4. \A p \in Requests : pc'[p] = "pointer" => dev[p] # dev[r] /\ dev[p] \in Devices
        BY <1>1, <1>10 DEF CodesBehind, RequestsInOrder
    <2>5. \A p \in Requests : pc'[p] = "pointer" => ucode'[dev'[p]] = None
        BY <1>10, <2>2, <2>4 DEF CodesBehind
    <2> QED
        BY <1>10, <2>3, <2>5 DEF CodesBehind, Behind
  <1>11. ASSUME NEW r \in Requests, WriteHash(r) PROVE CodesBehind'
    <2>1. op[r] # "none" /\ pc[r] # "pointer"
        BY <1>11, Zenon DEF WriteHash, RequestsInOrder
    <2>2. /\ ucode' = [ucode EXCEPT ![dev[r]] = code[r]]
          /\ UNCHANGED <<op, dev, code, pointer, drawn, lapsed>>
        BY <1>11, Zenon DEF WriteHash
    <2>3. \A q \in Requests : pc'[q] = "pointer" => pc[q] = "pointer"
        BY <1>1, <1>11, Zenon DEF WriteHash
    <2> QED
        BY <1>10, <2>1, <2>2, <2>3, Zenon
  <1>12. ASSUME NEW r \in Requests,
                \/ SetTtl(r) \/ ReadForVerify(r) \/ ReadOwner(r) \/ Exists(r)
                \/ Issue(r) \/ Abort(r)
         PROVE  CodesBehind'
    <2>1. UNCHANGED <<pointer, lapsed, drawn, ucode>>
        BY <1>12, Zenon DEF SetTtl, ReadForVerify, ReadOwner, Exists, Issue, Abort
    <2>2. End(r) \/ Proceed(r, "exists") \/ Proceed(r, "hset") \/ Proceed(r, "issue")
        BY <1>12, Zenon DEF SetTtl, ReadForVerify, ReadOwner, Exists, Issue, Abort
    <2> QED
        BY <1>5, <2>1, <2>2, Zenon
\* Written back by a poll, which goes on, or by an answer, which ends.
  <1>13. ASSUME NEW r \in Requests, Hset(r) PROVE CodesBehind'
    <2>1. /\ ucode' = [ucode EXCEPT ![dev[r]] = code[r]] /\ UNCHANGED <<pointer, drawn, lapsed>>
          /\ pc[r] = "hset" /\ op[r] # "none"
        BY <1>13, Zenon DEF Hset, Write
    <2>2. CASE Proceed(r, "issue")
        BY <1>1, <1>10, <2>1, <2>2, Zenon
    <2>3. CASE End(r)
      <3>1. dev[r] \in drawn /\ dev[r] \in Devices
          BY <1>1, <2>1, Zenon DEF RequestsInOrder
      <3>2. \A e \in Devices : ucode'[e] = IF e = dev[r] THEN code[r] ELSE ucode[e]
          BY <1>1, <2>1, Zenon
      <3>3. \A e \in Devices : ucode'[e] # None => e \in drawn' /\ After(ucode'[e], e)
          BY <2>1, <3>1, <3>2 DEF CodesBehind, Behind
      <3>4. /\ \A q \in Requests \ {r} : /\ op'[q] = op[q] /\ dev'[q] = dev[q]
                                         /\ pc'[q] = pc[q] /\ code'[q] = code[q]
            /\ op'[r] = "none" /\ pc'[r] = "idle" /\ dev'[r] = None
          BY <1>1, <2>3, Zenon DEF End
      <3>5. \A p \in Requests : pc[p] = "pointer" => dev[p] # dev[r] /\ dev[p] \in Devices
          BY <1>1, <2>1 DEF CodesBehind, RequestsInOrder
      <3>6. \A p \in Requests : pc'[p] = "pointer" =>
                /\ p # r /\ code'[p] = None /\ ucode'[dev'[p]] = None
                /\ \A q \in Requests \ {p} : dev'[q] # dev'[p]
          BY <2>1, <3>2, <3>4, <3>5 DEF CodesBehind
      <3> QED
          BY <2>1, <3>3, <3>4, <3>6 DEF CodesBehind, Behind
    <2> QED
        BY <1>13, <2>2, <2>3, Zenon DEF Hset
  <1>14. ASSUME NEW d \in Devices, LapsePointer(d) \/ LapseHash(d) \/ Expire(d)
         PROVE  CodesBehind'
    <2>1. UNCHANGED <<drawn, pc, op, dev, code>>
        BY <1>14, Zenon DEF LapsePointer, LapseHash, Expire
    <2>2. Unlink(d) \/ UNCHANGED <<pointer, lapsed>>
        BY <1>14, Zenon DEF LapsePointer, LapseHash, Expire
    <2>3. \A e \in Devices : ucode'[e] \in {ucode[e], None}
        BY <1>1, <1>14, Zenon DEF LapsePointer, LapseHash, Expire, Drop
    <2>4. Kept1 /\ Fewer
        BY <1>2, <1>3, <2>2, Zenon
    <2> HIDE DEF Kept1, Fewer
    <2> QED
        BY <1>4, <2>1, <2>3, <2>4, Zenon
  <1> QED
      BY <1>6, <1>7, <1>8, <1>9, <1>11, <1>12, <1>13, <1>14, Zenon DEF Next, Step, Answers

\* The invariant is inductive.
LEMMA DeviceNext == ConstantsOK /\ DeviceInv /\ [Next]_vars => DeviceInv'
  <1> SUFFICES ASSUME ConstantsOK, DeviceInv, [Next]_vars PROVE DeviceInv'
      BY Zenon
  <1>1. CASE Next
      BY <1>1, DeviceTypes, DeviceOrder, DeviceApproved, DeviceOnePoll, DeviceCodes, Zenon
      DEF DeviceInv
  <1>2. CASE UNCHANGED vars
    <2>0. UNCHANGED <<status, holder, ucode, ttl, pointer, drawn, expired, pc, op, dev, sess,
                      code, tries, late, approvers, issued, raced, lapsed>>
        BY <1>2, Zenon DEF vars, hash, locals, past
    <2>1. TypeOK' /\ RequestsInOrder'
        BY <2>0, Zenon DEF DeviceInv, TypeOK, RequestsInOrder
    <2>2. ApprovedByHolder'
        BY <2>0, Zenon DEF DeviceInv, ApprovedByHolder
    <2>3. OnePoll'
      <3>1. \A d \in Devices : Delivered(d)' <=> Delivered(d)
          BY <2>0, Zenon DEF Delivered
      <3> QED
          BY <2>0, <3>1 DEF DeviceInv, OnePoll
    <2>4. CodesBehind'
        BY <2>0, Zenon DEF DeviceInv, CodesBehind, Behind
    <2> QED
        BY <2>1, <2>2, <2>3, <2>4, Zenon DEF DeviceInv
  <1> QED
      BY <1>1, <1>2, Zenon

\* Tokens go out for a session that approved this device code, to one poll unless
\* two raced, and never to a poll that came after expires_at (from_device_code).
LEMMA DeviceTokens ==
    DeviceInv => IssuedWasApproved /\ ExpiredIsDead /\ SingleUseExplained
  BY DEF DeviceInv, TypeOK, RequestsInOrder, ApprovedByHolder, OnePoll,
         IssuedWasApproved, ExpiredIsDead, SingleUseExplained

\* The user code on a hash is the one whose pointer leads to it (persist, SET NX).
LEMMA DeviceUserCodes == ConstantsOK /\ DeviceInv => UserCodesLead
  BY DEF ConstantsOK, DeviceInv, TypeOK, CodesBehind, Behind, UserCodesLead
==============================================================================
