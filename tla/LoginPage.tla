----------------------------- MODULE LoginPage ------------------------------
(***************************************************************************)
(* The login page: GET /login renders a form with a hidden token and, when *)
(* the browser sent no csrf_token cookie, mints the token and sets the     *)
(* cookie; POST /login compares the two.  The tabs of one browser share    *)
(* its cookie, and a response takes effect when it arrives.                *)
(***************************************************************************)
CONSTANTS
    Tabs, Tokens,
    None     \* no cookie, no token

VARIABLES
    jar,     \* the browser's csrf_token cookie
    pc,
    sent,    \* the cookie that the tab's request carried
    form,    \* the token in the tab's page, or in the page on its way
    ret      \* the return_to of the tab's page

\* History, read by properties only.
VARIABLES
    asked,   \* the return_to that the tab was opened with, until it is bounced
    excuse   \* the cookie that went with the tab's page has expired, or was
             \* replaced by a first load that overlapped the one that set it

locals == <<sent, form, ret, asked, excuse>>
vars == <<jar, pc, locals>>

\* return_to: a server-relative path, anything else, nothing.
Targets == {"inside", "outside", "empty"}

Init ==
    /\ jar = None
    /\ pc = [t \in Tabs |-> "closed"]
    /\ sent = [t \in Tabs |-> None] /\ form = [t \in Tabs |-> None]
    /\ ret = [t \in Tabs |-> "empty"] /\ asked = [t \in Tabs |-> "empty"]
    /\ excuse = [t \in Tabs |-> FALSE]

Goto(t, label) == pc' = [pc EXCEPT ![t] = label]

\* A GET leaves the browser with the cookie it has.
SendGet(t, target) ==
    /\ sent' = [sent EXCEPT ![t] = jar] /\ form' = [form EXCEPT ![t] = None]
    /\ ret' = [ret EXCEPT ![t] = target]
    /\ excuse' = [excuse EXCEPT ![t] = FALSE]
    /\ Goto(t, "get")
    /\ UNCHANGED jar

\* Tabs whose page, or whose page to come, holds the token k.
Holding(k) == {t \in Tabs : k # None /\ k \in {sent[t], form[t]}}

Open(t, target) ==
    /\ pc[t] = "closed"
    /\ SendGet(t, target)
    /\ asked' = [asked EXCEPT ![t] = target]

\* random_tokens::url_safe: a token that is nowhere in use.
Fresh == CHOOSE k \in Tokens : k # jar /\ Holding(k) = {}

\* Mutant: every GET mints a token.
Csrf_AlwaysMint(cookie) == Fresh

\* Reuse the cookie that came with the request.
Csrf(cookie) == IF cookie # None THEN cookie ELSE Fresh

\* render_login.
RenderLogin(t) ==
    /\ pc[t] = "get"
    /\ form' = [form EXCEPT ![t] = Csrf(sent[t])]
    /\ Goto(t, "page")
    /\ UNCHANGED <<jar, sent, ret, asked, excuse>>

\* The page arrives, with a Set-Cookie when its token was minted.
ShowPage(t) ==
    /\ pc[t] = "page"
    /\ Goto(t, "form")
    /\ IF form[t] = sent[t]
       THEN UNCHANGED <<jar, excuse>>
       ELSE /\ jar' = form[t]
            /\ excuse' = [u \in Tabs |->
                             excuse[u] \/ (sent[t] = None /\ u # t /\ u \in Holding(jar))]
    /\ sent' = [sent EXCEPT ![t] = None]
    /\ UNCHANGED <<form, ret, asked>>

SendPost(t) ==
    /\ pc[t] = "form"
    /\ sent' = [sent EXCEPT ![t] = jar]
    /\ Goto(t, "post")
    /\ UNCHANGED <<jar, form, ret, asked, excuse>>

\* csrf_matches.
Matches(a, b) == a # None /\ b # None /\ a = b

\* submit_login up to the check: a mismatch is answered with a redirect to
\* /login?error=session_expired, which has no return_to.
CheckCsrf(t) ==
    /\ pc[t] = "post"
    /\ Goto(t, IF Matches(form[t], sent[t]) THEN "authenticate" ELSE "bounced")
    /\ UNCHANGED <<jar, locals>>

FollowRedirect(t) ==
    /\ pc[t] = "bounced"
    /\ SendGet(t, "empty")
    /\ asked' = [asked EXCEPT ![t] = "empty"]

\* Mutant: the page that reports the error has lost its return_to.
WrongPassword_NoReturn(t) ==
    /\ pc[t] = "authenticate"
    /\ form' = [form EXCEPT ![t] = sent[t]]
    /\ ret' = [ret EXCEPT ![t] = "empty"]
    /\ Goto(t, "page")
    /\ UNCHANGED <<jar, sent, asked, excuse>>

\* The page again, with the cookie's token, the return_to and no Set-Cookie.
WrongPassword(t) ==
    /\ pc[t] = "authenticate"
    /\ form' = [form EXCEPT ![t] = sent[t]]
    /\ Goto(t, "page")
    /\ UNCHANGED <<jar, sent, ret, asked, excuse>>

\* safe_redirect.
SafeRedirect(target) == IF target = "inside" THEN "inside" ELSE "root"

\* create_session, and the redirect; ret is now where the browser lands.
LogIn(t) ==
    /\ pc[t] = "authenticate"
    /\ ret' = [ret EXCEPT ![t] = SafeRedirect(@)]
    /\ Goto(t, "in")
    /\ UNCHANGED <<jar, sent, form, asked, excuse>>

\* The tab is closed, or its request or response is lost.
Close(t) ==
    /\ pc[t] # "closed"
    /\ Goto(t, "closed")
    /\ sent' = [sent EXCEPT ![t] = None] /\ form' = [form EXCEPT ![t] = None]
    /\ ret' = [ret EXCEPT ![t] = "empty"] /\ asked' = [asked EXCEPT ![t] = "empty"]
    /\ excuse' = [excuse EXCEPT ![t] = FALSE]
    /\ UNCHANGED jar

\* max_age passes, counted from the Set-Cookie.
ExpireCookie ==
    /\ jar # None
    /\ jar' = None
    /\ excuse' = [u \in Tabs |-> excuse[u] \/ u \in Holding(jar)]
    /\ UNCHANGED <<pc, sent, form, ret, asked>>

Next ==
    \/ \E t \in Tabs :
          \/ RenderLogin(t) \/ ShowPage(t) \/ SendPost(t) \/ CheckCsrf(t)
          \/ FollowRedirect(t) \/ WrongPassword(t) \/ LogIn(t) \/ Close(t)
          \/ \E target \in Targets : Open(t, target)
    \/ ExpireCookie

Spec == Init /\ [][Next]_vars

-----------------------------------------------------------------------------
(* Properties.                                                             *)

Labels == {"closed", "get", "page", "form", "post", "bounced", "authenticate", "in"}

TypeOK ==
    /\ jar \in Tokens \cup {None}
    /\ pc \in [Tabs -> Labels]
    /\ sent \in [Tabs -> Tokens \cup {None}] /\ form \in [Tabs -> Tokens \cup {None}]
    /\ ret \in [Tabs -> Targets \cup {"root"}] /\ asked \in [Tabs -> Targets]
    /\ excuse \in [Tabs -> BOOLEAN]

\* However the tabs of a browser interleave, a form is refused as expired
\* only when the cookie ran out, or when a first load that overlapped the
\* one that set it replaced it (page.rs: the token is reused across tabs so
\* a second open does not break the first).  A login that was not refused
\* lands where the tab was sent to, wrong passwords in between included.
FormsKeepWorking ==
    \A t \in Tabs :
        /\ pc[t] = "bounced" => excuse[t]
        /\ pc[t] = "in" => ret[t] = SafeRedirect(asked[t])
=============================================================================
