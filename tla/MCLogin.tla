------------------------------ MODULE MCLogin -------------------------------
(***************************************************************************)
(* Logging in and out: the password, the rate limiter in front of it, the  *)
(* login page, and the end of a session as its clients see it.  They share *)
(* no state here, so each behaviour runs one of them (part).               *)
(***************************************************************************)
EXTENDS Passwords, Sequences, TLC

CONSTANTS Buckets, Limit, Window, Routes, PerSecond, CsrfTokens, Clients, Reachable

ASSUME BucketsAssumption ==
    /\ None \notin Buckets /\ PerSecond \in Nat \ {0}
    /\ Limit \in [Buckets -> Nat] /\ Window \in [Buckets -> Nat]
    /\ Routes \subseteq Seq(Buckets)
\* A token is 192 random bits: there is always one that no page and no cookie
\* holds.
ASSUME CsrfAssumption ==
    /\ None \notin CsrfTokens
    /\ \A s, f \in [Requests -> CsrfTokens \cup {None}], c \in CsrfTokens \cup {None} :
          \E k \in CsrfTokens : k # c /\ \A t \in Requests : k \notin {s[t], f[t]}
ASSUME ReachableAssumption == Reachable \subseteq Clients

\* Two buckets as POST /auth/login checks them: e-mail, then address.
MCBuckets == {"email", "ip"}
MCLimit == [b \in MCBuckets |-> 1]
MCWindow == [email |-> 2, ip |-> 1]

\* With an identifier and an address, without an address, without both.
MCRoutes == {<<"email", "ip">>, <<"email">>, <<>>}

Symmetry ==
    Permutations(Requests) \cup Permutations(Sessions)
    \cup Permutations(Tokens) \cup Permutations(Rows)

VARIABLES
    part,
    count, left, step, todo, wait, recent, by,
    jar, at, sent, form, ret, asked, excuse,
    session, enabled, key, clients, refresh, tasks, stage, kind, found,
    members, told, joined, silent, seen

limiterVars == <<count, left, step, todo, wait, recent, by>>
pageVars == <<jar, at, sent, form, ret, asked, excuse>>
logoutVars == <<session, enabled, key, clients, refresh, tasks, stage, kind, found,
                members, told, joined, silent, seen>>

Limiter == INSTANCE RateLimiter WITH pc <- step
Page == INSTANCE LoginPage WITH Tabs <- Requests, Tokens <- CsrfTokens, pc <- at
Out == INSTANCE Logout WITH
           row <- session, token <- refresh, pc <- stage, op <- kind, late <- joined

\* The variables of a part that does not run hold a constant.
PasswordsOff ==
    /\ cred = None /\ writes = None /\ token = None /\ opened = None /\ pc = None /\ op = None /\ tok = None /\ row = None /\ ver = None
    /\ sid = None /\ late = None /\ cut = None /\ closed = None /\ dead = None
    /\ founding = None

LimiterOff ==
    /\ count = None /\ left = None /\ step = None /\ todo = None /\ wait = None
    /\ recent = None /\ by = None

PageOff ==
    /\ jar = None /\ at = None /\ sent = None /\ form = None /\ ret = None
    /\ asked = None /\ excuse = None

LogoutOff ==
    /\ session = None /\ enabled = None /\ key = None /\ clients = None
    /\ refresh = None /\ tasks = None /\ stage = None /\ kind = None /\ found = None
    /\ members = None /\ told = None /\ joined = None /\ silent = None /\ seen = None

MCInit ==
    \/ part = "passwords" /\ Init /\ LimiterOff /\ PageOff /\ LogoutOff
    \/ part = "limiter" /\ Limiter!Init /\ PasswordsOff /\ PageOff /\ LogoutOff
    \/ part = "page" /\ Page!Init /\ PasswordsOff /\ LimiterOff /\ LogoutOff
    \/ part = "logout" /\ Out!Init /\ PasswordsOff /\ LimiterOff /\ PageOff

MCNext ==
    \/ part = "passwords" /\ Next /\ UNCHANGED <<part, limiterVars, pageVars, logoutVars>>
    \/ part = "limiter" /\ Limiter!Next /\ UNCHANGED <<part, vars, pageVars, logoutVars>>
    \/ part = "page" /\ Page!Next /\ UNCHANGED <<part, vars, limiterVars, logoutVars>>
    \/ part = "logout" /\ Out!Next /\ UNCHANGED <<part, vars, limiterVars, pageVars>>

MCSpec == MCInit /\ [][MCNext]_<<part, vars, limiterVars, pageVars, logoutVars>>

-----------------------------------------------------------------------------
\* Types, of the part that runs.
TypesOK ==
    /\ part = "passwords" => TypeOK
    /\ part = "limiter" => Limiter!TypeOK
    /\ part = "page" => Page!TypeOK
    /\ part = "logout" => Out!TypeOK

\* Passwords: "every other session of that user is killed" (password/flow.rs:95),
\* but for a login or a rotation that was cut by the other.
SessionsEndWithPassword == part = "passwords" => RotationEndsSessions

\* Passwords: a reset token that was issued before another reset went through
\* is dead (password/flow.rs:123).
ResetTokensDie == part = "passwords" => DeadTokensRefused

\* Passwords: only the password that was written last opens the account.
OnePassword == part = "passwords" => LastPasswordOnly

\* RateLimiter: at most twice the limit in any stretch as long as the window.
AdmittedBounded == part = "limiter" => Limiter!AdmittedBounded

\* RateLimiter: whoever has waited for Retry-After meets half a second of the same
\* window at most.
RetryAfterWithinRounding == part = "limiter" => Limiter!RetryAfterWithinRounding

\* LoginPage: a tab's form is refused only for a known reason, and a login
\* lands where its tab was sent to.
FormsKeepWorking == part = "page" => Page!FormsKeepWorking

\* Logout: the clients of a session that was logged out are told.
ClientsTold == part = "logout" => Out!ClientsTold

\* Logout: userinfo and introspection honour what was taken away before the
\* request.
ResourcesHonourState == part = "logout" => Out!ResourcesHonourState
=============================================================================
