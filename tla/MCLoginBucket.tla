--------------------------- MODULE MCLoginBucket ----------------------------
(***************************************************************************)
(* One user who logs in again and again, with a record of how it went.     *)
(***************************************************************************)
EXTENDS RateLimiter

MCBuckets == {"email", "ip"}
MCLimit == [email |-> 2, ip |-> 3]
MCWindow == [email |-> 2, ip |-> 1]
MCRoutes == {<<"email", "ip">>}

\* Every attempt of the e-mail bucket's window so far has logged in.
VARIABLE clean

MCInit == Init /\ clean = TRUE

MCNext ==
    \/ \E r \in Requests :
          \/ /\ \/ LogIn(r) \/ FailOpen(r) \/ Hit(r) \/ HitUnheard(r) \/ Return(r)
                \/ \E route \in Routes : Begin(r, route)
             /\ UNCHANGED clean
          \/ (Fail(r) \/ Refuse(r)) /\ clean' = FALSE
    \/ Tick /\ clean' = (clean \/ left["email"] = 1)

MCSpec == MCInit /\ [][MCNext]_<<vars, clean>>

\* README: the bucket per e-mail is reset by a successful login, so that a
\* user with valid credentials does not lock themselves out.  A refusal by
\* that bucket when every attempt of the window has logged in contradicts it
\* (login/resource.rs login).
ValidUserNotLockedOut ==
    \A r \in Requests : pc[r] = "ttl" /\ by[r] = "email" => ~clean
=============================================================================
