----------------------------- MODULE WebSession -----------------------------
(***************************************************************************)
(* The session of a browser as the web application keeps it: one cookie,   *)
(* several tabs, and the rows of the API behind it (SessionLifecycle has   *)
(* their life).  A request carries the cookie of the moment it was sent;   *)
(* the proxy looks at its presence only, the page asks the API, and each   *)
(* may redirect the tab to the other's side.  The answer of a Server       *)
(* Action sets or clears the cookie whatever the other tabs did since.     *)
(***************************************************************************)
EXTENDS Naturals

CONSTANTS
  Tabs,
  Tokens,      \* the sessions the API can issue
  NoToken,
  MaxActs,     \* bound on what the visitor does
  MaxOutages   \* bound on the outages of the API

ASSUME WebSessionAssumption ==
  NoToken \notin Tokens /\ MaxActs \in Nat /\ MaxOutages \in Nat

VARIABLES
  row,          \* the session row of a token: unissued, live or gone
  cookie,       \* the token the browser holds
  view,         \* what a tab shows, and on which act of the visitor
  request,      \* what a tab waits for
  api,          \* does the API answer, and not with an error of its own?
  outages,      \* bounded by MaxOutages
  acts,         \* bounded by MaxActs
  surrendered,  \* history: tokens a sign-out was answered for
  unrevoked     \* history: tokens whose revocation did not reach the API

apiVars == <<row, api, outages>>
history == <<surrendered, unrevoked>>
tabVars == <<view, request>>
vars == <<row, cookie, view, request, api, outages, acts, surrendered, unrevoked>>

Warnings == {"none", "expired", "required"}
Acts == {"none", "app", "login", "sign-in", "sign-out"}

View ==
  [shown : {"nothing", "app", "login"},   \* the page rendered last
   warning : Warnings,                    \* rendered and not announced yet
   told : BOOLEAN,                        \* was one announced since the last act?
   act : Acts]                            \* the visitor's last act

Request ==
  [kind : Acts,                           \* none, a page or an action
   passed : BOOLEAN,                      \* has its first server let it pass?
   marked : BOOLEAN,                      \* session=lost in the address
   token : Tokens \cup {NoToken}]         \* the token it carries

TypeOK ==
  /\ row \in [Tokens -> {"unissued", "live", "gone"}]
  /\ cookie \in Tokens \cup {NoToken}
  /\ view \in [Tabs -> View] /\ request \in [Tabs -> Request]
  /\ api \in BOOLEAN /\ outages \in 0 .. MaxOutages /\ acts \in 0 .. MaxActs
  /\ surrendered \subseteq Tokens /\ unrevoked \subseteq Tokens

NoRequest == [kind |-> "none", passed |-> FALSE, marked |-> FALSE, token |-> NoToken]

Init ==
  /\ row = [t \in Tokens |-> "unissued"]
  /\ cookie = NoToken
  /\ view = [b \in Tabs |-> [shown |-> "nothing", warning |-> "none", told |-> FALSE, act |-> "none"]]
  /\ request = [b \in Tabs |-> NoRequest]
  /\ api = TRUE /\ outages = 0 /\ acts = 0
  /\ surrendered = {} /\ unrevoked = {}

-----------------------------------------------------------------------------
(* Tab b sends a request for a page or an action, carrying token t.        *)
Sends(b, kind, marked, t) ==
  request' = [request EXCEPT ![b] = [kind |-> kind, passed |-> FALSE, marked |-> marked, token |-> t]]

Redirects(b, kind, marked, t) == Sends(b, kind, marked, t) /\ UNCHANGED view

Passes(b, t) ==
  /\ request' = [request EXCEPT ![b] = [kind |-> request[b].kind, passed |-> TRUE,
                                        marked |-> request[b].marked, token |-> t]]
  /\ UNCHANGED view

Shows(b, page, warning, told, act) ==
  view' = [view EXCEPT ![b] = [shown |-> page, warning |-> warning, told |-> told, act |-> act]]

(* What it waited for is there: a page, with the warning it carries.       *)
Renders(b, page, warning) ==
  /\ request' = [request EXCEPT ![b] = NoRequest]
  /\ Shows(b, page, warning, view[b].told, view[b].act)

Awaits(b, kind, passed) == request[b].kind = kind /\ request[b].passed = passed

(* getCurrentUser: the API answers that the token is of a live session.    *)
CurrentUser(t) == t \in Tokens /\ api /\ row[t] = "live"

(* Mutant: the parameter itself is rendered.                               *)
WarningAsGiven(marked, t) == IF marked THEN "lost" ELSE "none"

sessionLossWarning(marked, t) ==
  IF ~marked THEN "none" ELSE IF t = NoToken THEN "required" ELSE "expired"

-----------------------------------------------------------------------------
(* The visitor.                                                            *)

Acting(b, act, marked) ==
  /\ acts < MaxActs
  /\ acts' = acts + 1
  /\ Sends(b, act, marked, cookie)
  /\ Shows(b, view[b].shown, "none", FALSE, act)
  /\ UNCHANGED <<cookie, apiVars, history>>

(* A link, a bookmark or a reload, in place of a page still awaited.  The  *)
(* parameter of the address is the visitor's to choose.                    *)
Visit(b) ==
  /\ request[b].kind \in {"none", "app", "login"}
  /\ \/ Acting(b, "app", FALSE)
     \/ \E marked \in BOOLEAN : Acting(b, "login", marked)

SubmitSignIn(b) == request[b].kind = "none" /\ view[b].shown = "login" /\ Acting(b, "sign-in", FALSE)

(* The action of a request without a cookie runs as well: the redirect of  *)
(* the proxy repeats its POST on the public path.                          *)
SubmitSignOut(b) == request[b].kind = "none" /\ view[b].shown = "app" /\ Acting(b, "sign-out", FALSE)

-----------------------------------------------------------------------------
(* The proxy, for pages.                                                   *)

(* Mutant: a request with a cookie is sent away from the public path.      *)
ProxyBothWays(b) ==
  /\ \E page \in {"app", "login"} : Awaits(b, page, FALSE)
  /\ CASE request[b].token = NoToken /\ request[b].kind = "app" -> Redirects(b, "login", TRUE, cookie)
       [] request[b].token # NoToken /\ request[b].kind = "login" -> Redirects(b, "app", FALSE, cookie)
       [] OTHER -> Passes(b, request[b].token)
  /\ UNCHANGED <<cookie, apiVars, acts, history>>

proxy(b) ==
  /\ \E page \in {"app", "login"} : Awaits(b, page, FALSE)
  /\ IF request[b].token = NoToken /\ request[b].kind = "app"
     THEN Redirects(b, "login", TRUE, cookie)
     ELSE Passes(b, request[b].token)
  /\ UNCHANGED <<cookie, apiVars, acts, history>>

(* Mutant: the page redirects to the bare path.                            *)
AppPageUnmarked(b) ==
  /\ Awaits(b, "app", TRUE)
  /\ IF CurrentUser(request[b].token) THEN Renders(b, "app", "none")
     ELSE Redirects(b, "login", FALSE, cookie)
  /\ UNCHANGED <<cookie, apiVars, acts, history>>

(* A page behind requireUser.                                              *)
AppPage(b) ==
  /\ Awaits(b, "app", TRUE)
  /\ IF CurrentUser(request[b].token) THEN Renders(b, "app", "none")
     ELSE Redirects(b, "login", TRUE, cookie)
  /\ UNCHANGED <<cookie, apiVars, acts, history>>

LoginPage(b) ==
  /\ Awaits(b, "login", TRUE)
  /\ IF CurrentUser(request[b].token) THEN Redirects(b, "app", FALSE, cookie)
     ELSE Renders(b, "login", sessionLossWarning(request[b].marked, request[b].token))
  /\ UNCHANGED <<cookie, apiVars, acts, history>>

(* The toast announces the warning and drops the marker from the address   *)
(* through the router: the page is requested again without it.             *)
SessionLossToast(b) ==
  /\ request[b].kind = "none" /\ view[b].warning # "none"
  /\ Shows(b, view[b].shown, "none", TRUE, view[b].act)
  /\ Sends(b, "login", FALSE, cookie)
  /\ UNCHANGED <<cookie, apiVars, acts, history>>

-----------------------------------------------------------------------------
(* signInAction.                                                           *)

(* The API answers with another status or not at all, or cannot be read,   *)
(* or answers after the five seconds: a row may be left behind.            *)
Refused(b) ==
  /\ request[b].kind = "sign-in"
  /\ Renders(b, view[b].shown, "none")
  /\ UNCHANGED <<cookie, apiVars, acts, history>>

Issue(b) ==
  /\ Awaits(b, "sign-in", FALSE) /\ api
  /\ \E t \in Tokens :
       /\ row[t] = "unissued"
       /\ row' = [row EXCEPT ![t] = "live"]
       /\ Passes(b, t)
  /\ UNCHANGED <<cookie, api, outages, acts, history>>

SignedIn(b) ==
  /\ Awaits(b, "sign-in", TRUE)
  /\ cookie' = request[b].token
  /\ Redirects(b, "app", FALSE, request[b].token)
  /\ UNCHANGED <<apiVars, acts, history>>

-----------------------------------------------------------------------------
(* signOutAction.                                                          *)

(* The call of the API, whose failure is ignored.                          *)
Revoke(b) ==
  /\ Awaits(b, "sign-out", FALSE)
  /\ row' = [t \in Tokens |-> IF t = request[b].token /\ api THEN "gone" ELSE row[t]]
  /\ unrevoked' = unrevoked \cup {t \in Tokens : t = request[b].token /\ ~api}
  /\ Passes(b, request[b].token)
  /\ UNCHANGED <<cookie, api, outages, acts, surrendered>>

(* Mutant: the cookie is kept until the session is known to be revoked.    *)
SignedOutIfRevoked(b) ==
  /\ Awaits(b, "sign-out", TRUE)
  /\ cookie' = IF request[b].token \in unrevoked THEN cookie ELSE NoToken
  /\ surrendered' = surrendered \cup (Tokens \cap {request[b].token})
  /\ Redirects(b, "login", FALSE, NoToken)
  /\ UNCHANGED <<apiVars, acts, unrevoked>>

(* Its answer clears the cookie, whichever token that now holds.           *)
SignedOut(b) ==
  /\ Awaits(b, "sign-out", TRUE)
  /\ cookie' = NoToken
  /\ surrendered' = surrendered \cup (Tokens \cap {request[b].token})
  /\ Redirects(b, "login", FALSE, NoToken)
  /\ UNCHANGED <<apiVars, acts, unrevoked>>

-----------------------------------------------------------------------------
(* What happens to a session by itself.                                    *)

(* It expires, or is revoked from elsewhere.                               *)
Lapse(t) ==
  /\ row[t] = "live"
  /\ row' = [row EXCEPT ![t] = "gone"]
  /\ UNCHANGED <<cookie, tabVars, api, outages, acts, history>>

(* The browser drops the cookie, at its expiry or before.                  *)
DropCookie ==
  /\ cookie # NoToken
  /\ cookie' = NoToken
  /\ UNCHANGED <<tabVars, apiVars, acts, history>>

(* The API cannot be reached in time, or it can and answers with an error  *)
(* status: neither getCurrentUser nor signOut makes a difference.          *)
Outage ==
  /\ api /\ outages < MaxOutages
  /\ api' = FALSE /\ outages' = outages + 1
  /\ UNCHANGED <<row, cookie, tabVars, acts, history>>

Recovery ==
  /\ ~api
  /\ api' = TRUE
  /\ UNCHANGED <<row, outages, cookie, tabVars, acts, history>>

Visitor(b) == Visit(b) \/ SubmitSignIn(b) \/ SubmitSignOut(b)

Progress(b) ==
  \/ proxy(b) \/ AppPage(b) \/ LoginPage(b) \/ SessionLossToast(b)
  \/ Refused(b) \/ Issue(b) \/ SignedIn(b)
  \/ Revoke(b) \/ SignedOut(b)

Next ==
  \/ \E b \in Tabs : Visitor(b) \/ Progress(b)
  \/ \E t \in Tokens : Lapse(t)
  \/ DropCookie \/ Outage \/ Recovery

(* Every request is answered, if only by its timeout; nothing obliges the  *)
(* visitor to act, a session to lapse or the API to recover.               *)
Spec == Init /\ [][Next]_vars /\ \A b \in Tabs : WF_vars(Progress(b))

-----------------------------------------------------------------------------
(* Properties.                                                             *)

Settled(b) == request[b].kind = "none" /\ view[b].warning = "none"

(* "This direction is monotonic and cannot loop": whatever becomes of the  *)
(* cookie and of the rows while a tab is redirected, and if the API never  *)
(* answers again, every navigation ends in a page.                         *)
NavigationsEnd == \A b \in Tabs : ~Settled(b) ~> Settled(b)

(* A visitor who asked for a page of the application and is given the form *)
(* is told why, and "a deliberate sign-out must stay silent", whatever the *)
(* other tabs do to the cookie.                                            *)
FormIsExplained ==
  \A b \in Tabs :
    Settled(b) /\ view[b].shown = "login" =>
      /\ view[b].act = "app" => view[b].told
      /\ view[b].act = "sign-out" => ~view[b].told

(* "Clearing the cookie is unconditional": once a sign-out was answered    *)
(* the browser never holds its session again, and the session is over at   *)
(* the API as well unless the call met an outage: an API out of reach, or  *)
(* one that answered with an error status.                                 *)
SurrenderedSessionsAreOver ==
  \A t \in surrendered : cookie # t /\ (t \notin unrevoked => row[t] = "gone")

=============================================================================
