-------------------------- MODULE WebSessionProofs --------------------------
(***************************************************************************)
(* Theorems of WebSession, for any tabs, sessions, acts and outages.       *)
(***************************************************************************)
EXTENDS WebSession, TLAPS

-----------------------------------------------------------------------------
(* Types.                                                                  *)

LEMMA SendsType ==
  ASSUME TypeOK, NEW b \in Tabs, NEW kind \in Acts, NEW marked \in BOOLEAN,
         NEW t \in Tokens \cup {NoToken}, Sends(b, kind, marked, t)
  PROVE  request' \in [Tabs -> Request]
BY DEF Sends, TypeOK, Request

LEMMA RedirectsType ==
  ASSUME TypeOK, NEW b \in Tabs, NEW kind \in Acts, NEW marked \in BOOLEAN,
         NEW t \in Tokens \cup {NoToken}, Redirects(b, kind, marked, t)
  PROVE  view' \in [Tabs -> View] /\ request' \in [Tabs -> Request]
BY SendsType DEF Redirects, TypeOK

LEMMA PassesType ==
  ASSUME TypeOK, NEW b \in Tabs, NEW t \in Tokens \cup {NoToken}, Passes(b, t)
  PROVE  view' \in [Tabs -> View] /\ request' \in [Tabs -> Request]
BY DEF Passes, TypeOK, Request

LEMMA ShowsType ==
  ASSUME TypeOK, NEW b \in Tabs, NEW page \in {"nothing", "app", "login"},
         NEW warning \in Warnings, NEW told \in BOOLEAN, NEW act \in Acts,
         Shows(b, page, warning, told, act)
  PROVE  view' \in [Tabs -> View]
BY DEF Shows, TypeOK, View

LEMMA ViewTypes ==
  ASSUME TypeOK, NEW b \in Tabs
  PROVE  /\ view[b].shown \in {"nothing", "app", "login"} /\ view[b].warning \in Warnings
         /\ view[b].told \in BOOLEAN /\ view[b].act \in Acts
         /\ request[b].kind \in Acts /\ request[b].passed \in BOOLEAN
         /\ request[b].marked \in BOOLEAN /\ request[b].token \in Tokens \cup {NoToken}
         /\ cookie \in Tokens \cup {NoToken}
BY DEF TypeOK, View, Request

LEMMA Literals ==
  /\ "app" \in Acts /\ "login" \in Acts /\ "sign-in" \in Acts /\ "sign-out" \in Acts
  /\ "none" \in Warnings
BY DEF Acts, Warnings

LEMMA RendersType ==
  ASSUME TypeOK, NEW b \in Tabs, NEW page \in {"nothing", "app", "login"},
         NEW warning \in Warnings, Renders(b, page, warning)
  PROVE  view' \in [Tabs -> View] /\ request' \in [Tabs -> Request]
<1>1. view' \in [Tabs -> View]
  BY ViewTypes, ShowsType DEF Renders
<1>2. request' \in [Tabs -> Request]
  BY DEF Renders, NoRequest, TypeOK, Request, Acts
<1> QED
  BY <1>1, <1>2

LEMMA ActingType ==
  ASSUME TypeOK, NEW b \in Tabs, NEW act \in Acts, NEW marked \in BOOLEAN,
         Acting(b, act, marked)
  PROVE  TypeOK'
<1>1. view' \in [Tabs -> View]
  BY ViewTypes, ShowsType, Literals DEF Acting
<1>2. request' \in [Tabs -> Request]
  BY ViewTypes, SendsType DEF Acting
<1>3. acts' \in 0 .. MaxActs
  BY WebSessionAssumption DEF Acting, TypeOK
<1> QED
  BY <1>1, <1>2, <1>3 DEF Acting, TypeOK, apiVars, history

LEMMA VisitorType == ASSUME TypeOK, NEW b \in Tabs, Visitor(b) PROVE TypeOK'
<1>1. CASE Visit(b)
  BY <1>1, ActingType DEF Visit, Acts
<1>2. CASE SubmitSignIn(b)
  BY <1>2, ActingType DEF SubmitSignIn, Acts
<1>3. CASE SubmitSignOut(b)
  BY <1>3, ActingType DEF SubmitSignOut, Acts
<1> QED
  BY <1>1, <1>2, <1>3 DEF Visitor

LEMMA ProgressType == ASSUME TypeOK, NEW b \in Tabs, Progress(b) PROVE TypeOK'
<1> USE DEF apiVars, history, tabVars
<1>1. CASE proxy(b)
  <2>1. view' \in [Tabs -> View] /\ request' \in [Tabs -> Request]
    BY ViewTypes, Literals, <1>1, RedirectsType, PassesType DEF proxy
  <2> QED
    BY <1>1, <2>1 DEF proxy, TypeOK
<1>2. CASE AppPage(b)
  <2>1. view' \in [Tabs -> View] /\ request' \in [Tabs -> Request]
    BY ViewTypes, Literals, <1>2, RedirectsType, RendersType DEF AppPage
  <2> QED
    BY <1>2, <2>1 DEF AppPage, TypeOK
<1>3. CASE LoginPage(b)
  <2>1. sessionLossWarning(request[b].marked, request[b].token) \in Warnings
    BY DEF sessionLossWarning, Warnings
  <2>2. view' \in [Tabs -> View] /\ request' \in [Tabs -> Request]
    BY ViewTypes, Literals, <1>3, <2>1, RedirectsType, RendersType DEF LoginPage
  <2> QED
    BY <1>3, <2>2 DEF LoginPage, TypeOK
<1>4. CASE SessionLossToast(b)
  <2>1. view' \in [Tabs -> View] /\ request' \in [Tabs -> Request]
    BY ViewTypes, Literals, <1>4, SendsType, ShowsType DEF SessionLossToast
  <2> QED
    BY <1>4, <2>1 DEF SessionLossToast, TypeOK
<1>5. CASE Refused(b)
  <2>1. view' \in [Tabs -> View] /\ request' \in [Tabs -> Request]
    BY ViewTypes, Literals, <1>5, RendersType DEF Refused
  <2> QED
    BY <1>5, <2>1 DEF Refused, TypeOK
<1>6. CASE Issue(b)
  <2>1. PICK t \in Tokens : row' = [row EXCEPT ![t] = "live"] /\ Passes(b, t)
    BY <1>6 DEF Issue
  <2>2. view' \in [Tabs -> View] /\ request' \in [Tabs -> Request]
    BY <2>1, PassesType
  <2> QED
    BY <1>6, <2>1, <2>2 DEF Issue, TypeOK
<1>7. CASE SignedIn(b)
  <2>1. view' \in [Tabs -> View] /\ request' \in [Tabs -> Request]
    BY ViewTypes, Literals, <1>7, RedirectsType DEF SignedIn
  <2> QED
    BY ViewTypes, Literals, <1>7, <2>1 DEF SignedIn, TypeOK
<1>8. CASE Revoke(b)
  <2>1. view' \in [Tabs -> View] /\ request' \in [Tabs -> Request]
    BY ViewTypes, Literals, <1>8, PassesType DEF Revoke
  <2> QED
    BY <1>8, <2>1 DEF Revoke, TypeOK
<1>9. CASE SignedOut(b)
  <2>1. view' \in [Tabs -> View] /\ request' \in [Tabs -> Request]
    BY ViewTypes, Literals, <1>9, RedirectsType DEF SignedOut
  <2> QED
    BY <1>9, <2>1 DEF SignedOut, TypeOK
<1> QED
  BY <1>1, <1>2, <1>3, <1>4, <1>5, <1>6, <1>7, <1>8, <1>9 DEF Progress

(* What happens without a tab.                                             *)
World == (\E t \in Tokens : Lapse(t)) \/ DropCookie \/ Outage \/ Recovery

LEMMA WorldType == ASSUME TypeOK, World PROVE TypeOK'
<1> USE DEF apiVars, history, tabVars
<1>1. CASE \E t \in Tokens : Lapse(t)
  BY <1>1 DEF Lapse, TypeOK
<1>2. CASE DropCookie
  BY <1>2 DEF DropCookie, TypeOK
<1>3. CASE Outage
  <2>1. outages' \in 0 .. MaxOutages
    <3>1. outages < MaxOutages /\ outages' = outages + 1
      BY <1>3 DEF Outage
    <3> QED
      BY <3>1, WebSessionAssumption DEF TypeOK
  <2> QED
    BY <1>3, <2>1 DEF Outage, TypeOK
<1>4. CASE Recovery
  BY <1>4 DEF Recovery, TypeOK
<1> QED
  BY <1>1, <1>2, <1>3, <1>4 DEF World

LEMMA InitType == Init => TypeOK
BY WebSessionAssumption DEF Init, TypeOK, View, Request, NoRequest, Acts, Warnings

LEMMA NextType == TypeOK /\ [Next]_vars => TypeOK'
<1> SUFFICES ASSUME TypeOK, [Next]_vars PROVE TypeOK'
  OBVIOUS
<1>1. CASE UNCHANGED vars
  BY <1>1 DEF vars, TypeOK
<1>2. CASE \E b \in Tabs : Visitor(b) \/ Progress(b)
  BY <1>2, VisitorType, ProgressType
<1>3. CASE World
  BY <1>3, WorldType
<1> QED
  BY <1>1, <1>2, <1>3 DEF Next, World

(* Every variable has its type.                                            *)
THEOREM TypeCorrect == Spec => []TypeOK
BY InitType, NextType, PTL DEF Spec

-----------------------------------------------------------------------------
(* What a step leaves alone.                                               *)

LEMMA OtherTabs ==
  ASSUME TypeOK, NEW b \in Tabs, Visitor(b) \/ Progress(b), NEW c \in Tabs, c # b
  PROVE  view'[c] = view[c] /\ request'[c] = request[c]
<1> USE DEF TypeOK, Sends, Redirects, Passes, Shows, Renders
<1>1. CASE Visitor(b)
  BY <1>1 DEF Visitor, Visit, SubmitSignIn, SubmitSignOut, Acting
<1>2. CASE proxy(b)
  BY <1>2 DEF proxy
<1>3. CASE AppPage(b) \/ LoginPage(b)
  BY <1>3 DEF AppPage, LoginPage
<1>4. CASE SessionLossToast(b)
  BY <1>4 DEF SessionLossToast
<1>5. CASE Refused(b) \/ Issue(b) \/ SignedIn(b)
  BY <1>5 DEF Refused, Issue, SignedIn
<1>6. CASE Revoke(b) \/ SignedOut(b)
  BY <1>6 DEF Revoke, SignedOut
<1> QED
  BY <1>1, <1>2, <1>3, <1>4, <1>5, <1>6 DEF Progress

LEMMA WorldTabs == World => UNCHANGED tabVars
BY DEF World, Lapse, DropCookie, Outage, Recovery

(* The helpers, at the tab they are about.                                 *)
LEMMA SendsAt ==
  ASSUME TypeOK, NEW b \in Tabs, NEW kind, NEW marked, NEW t, Sends(b, kind, marked, t)
  PROVE  /\ request'[b].kind = kind /\ request'[b].passed = FALSE
         /\ request'[b].marked = marked /\ request'[b].token = t
BY DEF Sends, TypeOK

LEMMA RedirectsAt ==
  ASSUME TypeOK, NEW b \in Tabs, NEW kind, NEW marked, NEW t, Redirects(b, kind, marked, t)
  PROVE  /\ request'[b].kind = kind /\ request'[b].passed = FALSE
         /\ request'[b].marked = marked /\ request'[b].token = t
         /\ view' = view
BY SendsAt DEF Redirects

LEMMA PassesAt ==
  ASSUME TypeOK, NEW b \in Tabs, NEW t, Passes(b, t)
  PROVE  /\ request'[b].kind = request[b].kind /\ request'[b].passed = TRUE
         /\ request'[b].marked = request[b].marked /\ request'[b].token = t
         /\ view' = view
BY DEF Passes, TypeOK

LEMMA ShowsAt ==
  ASSUME TypeOK, NEW b \in Tabs, NEW page, NEW warning, NEW told, NEW act,
         Shows(b, page, warning, told, act)
  PROVE  /\ view'[b].shown = page /\ view'[b].warning = warning
         /\ view'[b].told = told /\ view'[b].act = act
BY DEF Shows, TypeOK

LEMMA RendersAt ==
  ASSUME TypeOK, NEW b \in Tabs, NEW page, NEW warning, Renders(b, page, warning)
  PROVE  /\ request'[b].kind = "none" /\ request'[b].passed = FALSE
         /\ request'[b].token = NoToken
         /\ view'[b].shown = page /\ view'[b].warning = warning
         /\ view'[b].told = view[b].told /\ view'[b].act = view[b].act
BY ShowsAt DEF Renders, NoRequest, TypeOK

-----------------------------------------------------------------------------
(* The form is explained.                                                  *)

(* A visitor who asked for the application is on the way to it or to a     *)
(* warning until one is announced; one who left is on the way to the bare  *)
(* form, with a request nobody can take for that of a user.                *)
Announced(b) ==
  view[b].act = "app" /\ ~view[b].told =>
    \/ request[b].kind = "app"
    \/ request[b].kind = "login" /\ request[b].marked
    \/ request[b].kind = "none" /\ (view[b].shown = "app" \/ view[b].warning # "none")

Silent(b) ==
  view[b].act = "sign-out" =>
    /\ ~view[b].told /\ view[b].warning = "none"
    /\ \/ request[b].kind = "sign-out"
       \/ request[b].kind = "login" /\ ~request[b].marked /\ request[b].token = NoToken
       \/ request[b].kind = "none" /\ view[b].shown = "login"

FormInv == \A b \in Tabs : Announced(b) /\ Silent(b)

LEMMA VisitorForm ==
  ASSUME TypeOK, FormInv, NEW b \in Tabs, Visitor(b)
  PROVE  Announced(b)' /\ Silent(b)'
<1>1. PICK act \in Acts, marked \in BOOLEAN : Acting(b, act, marked)
  BY DEF Visitor, Visit, SubmitSignIn, SubmitSignOut, Acts
<1>2. /\ request'[b].kind = act
      /\ view'[b].warning = "none" /\ view'[b].told = FALSE /\ view'[b].act = act
  <2>1. Sends(b, act, marked, cookie) /\ Shows(b, view[b].shown, "none", FALSE, act)
    BY <1>1 DEF Acting
  <2>2. request'[b].kind = act
    BY <2>1, SendsAt
  <2>3. view'[b].warning = "none" /\ view'[b].told = FALSE /\ view'[b].act = act
    BY <2>1, ShowsAt
  <2> QED
    BY <2>2, <2>3
<1> QED
  BY <1>2 DEF Announced, Silent

LEMMA ProgressForm ==
  ASSUME TypeOK, FormInv, NEW b \in Tabs, Progress(b)
  PROVE  Announced(b)' /\ Silent(b)'
<1>0. Announced(b) /\ Silent(b)
  BY DEF FormInv
<1> USE <1>0 DEF Announced, Silent
<1>1. CASE proxy(b)
  <2>1. CASE request[b].token = NoToken /\ request[b].kind = "app"
    BY <1>1, <2>1, RedirectsAt DEF proxy
  <2>2. CASE ~(request[b].token = NoToken /\ request[b].kind = "app")
    BY <1>1, <2>2, PassesAt DEF proxy
  <2> QED
    BY <2>1, <2>2
<1>2. CASE AppPage(b)
  <2>1. request[b].kind = "app"
    BY <1>2 DEF AppPage, Awaits
  <2>2. CASE CurrentUser(request[b].token)
    BY <1>2, <2>1, <2>2, RendersAt DEF AppPage
  <2>3. CASE ~CurrentUser(request[b].token)
    BY <1>2, <2>1, <2>3, RedirectsAt DEF AppPage
  <2> QED
    BY <2>2, <2>3
<1>3. CASE LoginPage(b)
  <2>1. request[b].kind = "login"
    BY <1>3 DEF LoginPage, Awaits
  <2>2. CASE CurrentUser(request[b].token)
    <3>1. view[b].act # "sign-out"
      BY <2>1, <2>2, WebSessionAssumption DEF CurrentUser
    <3> QED
      BY <1>3, <2>2, <3>1, RedirectsAt DEF LoginPage
  <2>3. CASE ~CurrentUser(request[b].token)
    <3> DEFINE warning == sessionLossWarning(request[b].marked, request[b].token)
    <3>1. warning = "none" <=> ~request[b].marked
      BY DEF sessionLossWarning
    <3>2. /\ request'[b].kind = "none" /\ view'[b].shown = "login" /\ view'[b].warning = warning
          /\ view'[b].told = view[b].told /\ view'[b].act = view[b].act
      <4>1. Renders(b, "login", warning)
        BY <1>3, <2>3 DEF LoginPage
      <4> HIDE DEF warning
      <4> QED
        BY <4>1 DEF Renders, Shows, NoRequest, TypeOK
    <3> QED
      BY <2>1, <3>1, <3>2
  <2> QED
    BY <2>2, <2>3
<1>4. CASE SessionLossToast(b)
  <2>1. /\ view[b].warning # "none"
        /\ Shows(b, view[b].shown, "none", TRUE, view[b].act) /\ Sends(b, "login", FALSE, cookie)
    BY <1>4 DEF SessionLossToast
  <2>2. view'[b].told = TRUE /\ view'[b].act = view[b].act
    BY <2>1 DEF Shows, TypeOK
  <2> QED
    BY <2>1, <2>2
<1>5. CASE Refused(b)
  BY <1>5, RendersAt DEF Refused
<1>6. CASE Issue(b)
  <2>1. PICK t \in Tokens : Passes(b, t)
    BY <1>6 DEF Issue
  <2>2. request[b].kind = "sign-in"
    BY <1>6 DEF Issue, Awaits
  <2>3. view'[b] = view[b] /\ request'[b].kind = "sign-in"
    BY <2>1, <2>2, PassesAt
  <2> QED
    BY <2>2, <2>3
<1>7. CASE SignedIn(b)
  BY <1>7, RedirectsAt DEF SignedIn, Awaits
<1>8. CASE Revoke(b)
  BY <1>8, PassesAt DEF Revoke, Awaits
<1>9. CASE SignedOut(b)
  BY <1>9, RedirectsAt DEF SignedOut, Awaits
<1> QED
  BY <1>1, <1>2, <1>3, <1>4, <1>5, <1>6, <1>7, <1>8, <1>9 DEF Progress

LEMMA NextForm == TypeOK /\ FormInv /\ [Next]_vars => FormInv'
<1> SUFFICES ASSUME TypeOK, FormInv, [Next]_vars, NEW c \in Tabs
             PROVE  Announced(c)' /\ Silent(c)'
  BY DEF FormInv
<1>1. CASE view'[c] = view[c] /\ request'[c] = request[c]
  BY <1>1 DEF FormInv, Announced, Silent
<1>2. CASE Visitor(c) \/ Progress(c)
  BY <1>2, VisitorForm, ProgressForm
<1>3. CASE \E b \in Tabs : b # c /\ (Visitor(b) \/ Progress(b))
  BY <1>1, <1>3, OtherTabs
<1>4. CASE World \/ UNCHANGED vars
  BY <1>1, <1>4, WorldTabs DEF vars, tabVars
<1> QED
  BY <1>2, <1>3, <1>4 DEF Next, World

(* The sign-in form is announced to a visitor who asked for another page,  *)
(* and not to one who signed out.                                          *)
THEOREM FormExplained == Spec => []FormIsExplained
<1>1. Init => FormInv
  <2> SUFFICES ASSUME Init, NEW b \in Tabs PROVE Announced(b) /\ Silent(b)
    BY DEF FormInv
  <2>1. view[b].act = "none"
    BY DEF Init
  <2> QED
    BY <2>1 DEF Announced, Silent
<1>2. FormInv => FormIsExplained
  BY DEF FormInv, Announced, Silent, FormIsExplained, Settled
<1> QED
  BY <1>1, <1>2, TypeCorrect, NextForm, PTL DEF Spec

-----------------------------------------------------------------------------
(* Surrendered sessions are over.                                          *)

(* A token is nowhere before it is issued; until the browser is given it,  *)
(* only the tab that signs in has it; and a sign-out whose call was made   *)
(* revoked the session, or the call did not reach the API.                 *)
Fresh(t) ==
  row[t] = "unissued" =>
    cookie # t /\ t \notin surrendered /\ \A b \in Tabs : request[b].token # t

Issued(b) ==
  Awaits(b, "sign-in", TRUE) =>
    /\ request[b].token \in Tokens /\ request[b].token # cookie
    /\ request[b].token \notin surrendered
    /\ row[request[b].token] # "unissued"
    /\ \A c \in Tabs : c # b => request[c].token # request[b].token

Called(b) ==
  Awaits(b, "sign-out", TRUE) /\ request[b].token \in Tokens =>
    request[b].token \in unrevoked \/ row[request[b].token] = "gone"

SessionInv ==
  /\ \A t \in Tokens : Fresh(t)
  /\ \A b \in Tabs : Issued(b) /\ Called(b)
  /\ SurrenderedSessionsAreOver

LEMMA InitSession == Init => SessionInv
BY WebSessionAssumption
DEF Init, SessionInv, Fresh, Issued, Called, Awaits, NoRequest, SurrenderedSessionsAreOver

(* A step that sends a request with the browser's cookie, or none, changes *)
(* nothing else of a session.                                              *)
LEMMA CarriesCookie ==
  ASSUME TypeOK, SessionInv, NEW b \in Tabs,
         UNCHANGED <<row, cookie, surrendered, unrevoked>>,
         \A c \in Tabs : c # b => request'[c] = request[c],
         request'[b].token \in {cookie, NoToken, request[b].token},
         request'[b].passed => request'[b].kind \notin {"sign-in", "sign-out"}
  PROVE  SessionInv'
<1>1. ASSUME NEW t \in Tokens PROVE Fresh(t)'
  <2>1. Fresh(t)
    BY DEF SessionInv
  <2>2. row[t] = "unissued" => \A c \in Tabs : request'[c].token # t
    BY <2>1, WebSessionAssumption DEF Fresh
  <2> QED
    BY <2>1, <2>2 DEF Fresh
<1>2. ASSUME NEW c \in Tabs PROVE Issued(c)'
  <2>1. CASE c = b
    BY <2>1 DEF Issued, Awaits
  <2>2. CASE c # b /\ Awaits(c, "sign-in", TRUE)
    <3>1. Issued(c)
      BY DEF SessionInv
    <3>2. request'[c] = request[c]
      BY <2>2
    <3>3. request'[b].token # request[c].token
      BY <2>2, <3>1, WebSessionAssumption DEF Issued
    <3>4. \A d \in Tabs : d # c => request'[d].token # request[c].token
      BY <2>2, <3>1, <3>3 DEF Issued
    <3> QED
      BY <2>2, <3>1, <3>2, <3>4 DEF Issued
  <2>3. CASE c # b /\ ~Awaits(c, "sign-in", TRUE)
    BY <2>3 DEF Issued, Awaits
  <2> QED
    BY <2>1, <2>2, <2>3
<1>3. ASSUME NEW c \in Tabs PROVE Called(c)'
  <2>1. CASE c = b
    BY <2>1 DEF Called, Awaits
  <2>2. CASE c # b
    BY <2>2 DEF SessionInv, Called, Awaits
  <2> QED
    BY <2>1, <2>2
<1>4. SurrenderedSessionsAreOver'
  BY DEF SessionInv, SurrenderedSessionsAreOver
<1> QED
  BY <1>1, <1>2, <1>3, <1>4 DEF SessionInv

LEMMA VisitorSession ==
  ASSUME TypeOK, SessionInv, NEW b \in Tabs, Visitor(b)
  PROVE  SessionInv'
<1>1. PICK act \in Acts, marked \in BOOLEAN : Acting(b, act, marked)
  BY DEF Visitor, Visit, SubmitSignIn, SubmitSignOut, Acts
<1>2. Sends(b, act, marked, cookie) /\ UNCHANGED <<row, cookie, surrendered, unrevoked>>
  BY <1>1 DEF Acting, apiVars, history
<1>3. request'[b].token = cookie /\ request'[b].passed = FALSE
  BY <1>2, SendsAt
<1> QED
  BY <1>2, <1>3, OtherTabs, CarriesCookie

(* The steps of a page, and of a sign-in that is not answered.             *)
LEMMA PageSession ==
  ASSUME TypeOK, SessionInv, NEW b \in Tabs,
         proxy(b) \/ AppPage(b) \/ LoginPage(b) \/ SessionLossToast(b) \/ Refused(b)
  PROVE  SessionInv'
<1>1. UNCHANGED <<row, cookie, surrendered, unrevoked>>
  BY DEF proxy, AppPage, LoginPage, SessionLossToast, Refused, apiVars, history
<1>2. \A c \in Tabs : c # b => request'[c] = request[c]
  BY OtherTabs DEF Progress
<1>3. /\ request'[b].token \in {cookie, NoToken, request[b].token}
      /\ request'[b].passed => request'[b].kind \notin {"sign-in", "sign-out"}
  <2>1. CASE proxy(b)
    <3>1. request[b].kind \in {"app", "login"}
      BY <2>1 DEF proxy, Awaits
    <3>2. CASE request[b].token = NoToken /\ request[b].kind = "app"
      BY <2>1, <3>2, RedirectsAt DEF proxy
    <3>3. CASE ~(request[b].token = NoToken /\ request[b].kind = "app")
      BY <2>1, <3>1, <3>3, PassesAt DEF proxy
    <3> QED
      BY <3>2, <3>3
  <2>2. CASE AppPage(b)
    <3>1. CASE CurrentUser(request[b].token)
      BY <2>2, <3>1 DEF AppPage, Renders, NoRequest, TypeOK
    <3>2. CASE ~CurrentUser(request[b].token)
      BY <2>2, <3>2, RedirectsAt DEF AppPage
    <3> QED
      BY <3>1, <3>2
  <2>3. CASE LoginPage(b)
    <3>1. CASE CurrentUser(request[b].token)
      BY <2>3, <3>1, RedirectsAt DEF LoginPage
    <3>2. CASE ~CurrentUser(request[b].token)
      BY <2>3, <3>2 DEF LoginPage, Renders, NoRequest, TypeOK
    <3> QED
      BY <3>1, <3>2
  <2>4. CASE SessionLossToast(b)
    BY <2>4 DEF SessionLossToast, Sends, TypeOK
  <2>5. CASE Refused(b)
    BY <2>5 DEF Refused, Renders, NoRequest, TypeOK
  <2> QED
    BY <2>1, <2>2, <2>3, <2>4, <2>5
<1> QED
  BY <1>1, <1>2, <1>3, CarriesCookie

LEMMA IssueSession == ASSUME TypeOK, SessionInv, NEW b \in Tabs, Issue(b) PROVE SessionInv'
<1>1. PICK t \in Tokens : row[t] = "unissued" /\ row' = [row EXCEPT ![t] = "live"] /\ Passes(b, t)
  BY DEF Issue
<1>2. UNCHANGED <<cookie, surrendered, unrevoked>> /\ request[b].kind = "sign-in"
  BY DEF Issue, history, Awaits
<1>3. /\ request'[b].kind = "sign-in" /\ request'[b].token = t
      /\ \A c \in Tabs : c # b => request'[c] = request[c]
  <2>1. request'[b].kind = "sign-in" /\ request'[b].token = t
    BY <1>1, <1>2, PassesAt
  <2> QED
    BY <2>1, OtherTabs DEF Progress
<1>4. /\ row'[t] = "live" /\ \A u \in Tokens : u # t => row'[u] = row[u]
  BY <1>1 DEF TypeOK
<1>5. Fresh(t) /\ cookie # t /\ t \notin surrendered /\ \A c \in Tabs : request[c].token # t
  BY <1>1 DEF SessionInv, Fresh
<1>6. ASSUME NEW u \in Tokens PROVE Fresh(u)'
  <2>1. CASE u = t
    BY <1>4, <2>1 DEF Fresh
  <2>2. CASE u # t
    BY <1>2, <1>3, <1>4, <2>2 DEF Fresh, SessionInv
  <2> QED
    BY <2>1, <2>2
<1>7. ASSUME NEW c \in Tabs PROVE Issued(c)'
  <2>1. CASE c = b
    BY <1>2, <1>3, <1>4, <1>5, <2>1 DEF Issued
  <2>2. CASE c # b /\ Awaits(c, "sign-in", TRUE)
    <3>1. /\ request[c].token \in Tokens /\ request[c].token # cookie
          /\ request[c].token \notin surrendered /\ row[request[c].token] # "unissued"
          /\ \A d \in Tabs : d # c => request[d].token # request[c].token
      BY <2>2 DEF SessionInv, Issued
    <3>2. request'[c] = request[c] /\ request[c].token # t
      BY <1>3, <1>5, <2>2
    <3> QED
      BY <1>2, <1>3, <1>4, <3>1, <3>2 DEF Issued
  <2>3. CASE c # b /\ ~Awaits(c, "sign-in", TRUE)
    BY <1>3, <2>3 DEF Issued, Awaits
  <2> QED
    BY <2>1, <2>2, <2>3
<1>8. ASSUME NEW c \in Tabs PROVE Called(c)'
  <2>1. CASE c = b
    BY <1>3, <2>1 DEF Called, Awaits
  <2>2. CASE c # b
    <3>1. request'[c] = request[c] /\ request[c].token # t
      BY <1>3, <1>5, <2>2
    <3>2. Called(c)
      BY DEF SessionInv
    <3> QED
      BY <1>2, <1>4, <3>1, <3>2 DEF Called, Awaits
  <2> QED
    BY <2>1, <2>2
<1>9. SurrenderedSessionsAreOver'
  BY <1>2, <1>4, <1>5 DEF SessionInv, SurrenderedSessionsAreOver, TypeOK
<1> QED
  BY <1>6, <1>7, <1>8, <1>9 DEF SessionInv

LEMMA SignedInSession == ASSUME TypeOK, SessionInv, NEW b \in Tabs, SignedIn(b) PROVE SessionInv'
<1> DEFINE t == request[b].token
<1>1. /\ cookie' = t /\ Redirects(b, "app", FALSE, t)
      /\ UNCHANGED <<row, surrendered, unrevoked>> /\ Awaits(b, "sign-in", TRUE)
  BY DEF SignedIn, apiVars, history
<1>2. /\ t \in Tokens /\ t \notin surrendered /\ row[t] # "unissued"
      /\ \A c \in Tabs : c # b => request[c].token # t
  BY <1>1 DEF SessionInv, Issued
<1>3. /\ request'[b].kind = "app" /\ request'[b].token = t
      /\ \A c \in Tabs : c # b => request'[c] = request[c]
  <2>1. request'[b].kind = "app" /\ request'[b].token = t
    BY <1>1 DEF Redirects, Sends, TypeOK
  <2> QED
    BY <2>1, OtherTabs DEF Progress
<1> HIDE DEF t
<1>4. ASSUME NEW u \in Tokens PROVE Fresh(u)'
  BY <1>1, <1>2, <1>3 DEF Fresh, SessionInv
<1>5. ASSUME NEW c \in Tabs PROVE Issued(c)'
  <2>1. CASE c = b
    BY <1>3, <2>1 DEF Issued, Awaits
  <2>2. CASE c # b /\ Awaits(c, "sign-in", TRUE)
    <3>1. /\ request[c].token \in Tokens
          /\ request[c].token \notin surrendered /\ row[request[c].token] # "unissued"
          /\ \A d \in Tabs : d # c => request[d].token # request[c].token
      BY <2>2 DEF SessionInv, Issued
    <3>2. request'[c] = request[c] /\ request[c].token # t
      BY <1>2, <1>3, <2>2
    <3>3. \A d \in Tabs : d # c => request'[d].token # request[c].token
      BY <1>3, <3>1, <3>2
    <3> QED
      BY <1>1, <3>1, <3>2, <3>3 DEF Issued
  <2>3. CASE c # b /\ ~Awaits(c, "sign-in", TRUE)
    BY <1>3, <2>3 DEF Issued, Awaits
  <2> QED
    BY <2>1, <2>2, <2>3
<1>6. ASSUME NEW c \in Tabs PROVE Called(c)'
  <2>1. CASE c = b
    BY <1>3, <2>1 DEF Called, Awaits
  <2>2. CASE c # b
    BY <1>1, <1>3, <2>2 DEF Called, Awaits, SessionInv
  <2> QED
    BY <2>1, <2>2
<1>7. SurrenderedSessionsAreOver'
  BY <1>1, <1>2 DEF SessionInv, SurrenderedSessionsAreOver
<1> QED
  BY <1>4, <1>5, <1>6, <1>7 DEF SessionInv

LEMMA RevokeSession == ASSUME TypeOK, SessionInv, NEW b \in Tabs, Revoke(b) PROVE SessionInv'
<1> DEFINE t == request[b].token
<1>1. /\ row' = [u \in Tokens |-> IF u = t /\ api THEN "gone" ELSE row[u]]
      /\ unrevoked' = unrevoked \cup {u \in Tokens : u = t /\ ~api}
      /\ Passes(b, t) /\ UNCHANGED <<cookie, surrendered>> /\ request[b].kind = "sign-out"
  BY DEF Revoke, Awaits
<1>2. /\ request'[b].kind = "sign-out" /\ request'[b].token = t
      /\ \A c \in Tabs : c # b => request'[c] = request[c]
  <2>1. request'[b].kind = "sign-out" /\ request'[b].token = t
    BY <1>1 DEF Passes, TypeOK
  <2> QED
    BY <2>1, OtherTabs DEF Progress
<1>3. \A c \in Tabs : request'[c].token = request[c].token
  BY <1>2
<1>4. \A u \in Tokens : row'[u] \in {row[u], "gone"}
  BY <1>1
<1>5. \A u \in Tokens : u = t => u \in unrevoked' \/ row'[u] = "gone"
  BY <1>1
<1>6. unrevoked \subseteq unrevoked'
  BY <1>1
<1> HIDE DEF t
<1>7. ASSUME NEW u \in Tokens PROVE Fresh(u)'
  BY <1>1, <1>3, <1>4 DEF Fresh, SessionInv
<1>8. ASSUME NEW c \in Tabs PROVE Issued(c)'
  <2>1. CASE c = b
    BY <1>2, <2>1 DEF Issued, Awaits
  <2>2. CASE c # b
    <3>1. request'[c] = request[c] /\ Issued(c)
      BY <1>2, <2>2 DEF SessionInv
    <3> QED
      BY <1>1, <1>3, <1>4, <3>1 DEF Issued, Awaits
  <2> QED
    BY <2>1, <2>2
<1>9. ASSUME NEW c \in Tabs PROVE Called(c)'
  <2>1. CASE c = b
    BY <1>2, <1>5, <2>1 DEF Called
  <2>2. CASE c # b
    <3>1. request'[c] = request[c] /\ Called(c)
      BY <1>2, <2>2 DEF SessionInv
    <3> QED
      BY <1>4, <1>6, <3>1 DEF Called, Awaits
  <2> QED
    BY <2>1, <2>2
<1>10. SurrenderedSessionsAreOver'
  BY <1>1, <1>4, <1>6 DEF SessionInv, SurrenderedSessionsAreOver, TypeOK
<1> QED
  BY <1>7, <1>8, <1>9, <1>10 DEF SessionInv

LEMMA SignedOutSession == ASSUME TypeOK, SessionInv, NEW b \in Tabs, SignedOut(b) PROVE SessionInv'
<1> DEFINE t == request[b].token
<1>1. /\ cookie' = NoToken /\ surrendered' = surrendered \cup (Tokens \cap {t})
      /\ Redirects(b, "login", FALSE, NoToken) /\ UNCHANGED <<row, unrevoked>>
      /\ Awaits(b, "sign-out", TRUE)
  BY DEF SignedOut, apiVars, history
<1>2. /\ t \in Tokens => t \in unrevoked \/ row[t] = "gone"
      /\ \A u \in Tokens : u = t => row[u] # "unissued"
  BY <1>1 DEF SessionInv, Called, Fresh
<1>3. /\ request'[b].kind = "login" /\ request'[b].token = NoToken
      /\ \A c \in Tabs : c # b => request'[c] = request[c]
  <2>1. request'[b].kind = "login" /\ request'[b].token = NoToken
    BY <1>1 DEF Redirects, Sends, TypeOK
  <2> QED
    BY <2>1, OtherTabs DEF Progress
<1>4. \A c \in Tabs : c # b /\ Awaits(c, "sign-in", TRUE) => request[c].token # t
  BY DEF SessionInv, Issued
<1> HIDE DEF t
<1>5. ASSUME NEW u \in Tokens PROVE Fresh(u)'
  BY <1>1, <1>2, <1>3, WebSessionAssumption DEF Fresh, SessionInv
<1>6. ASSUME NEW c \in Tabs PROVE Issued(c)'
  <2>1. CASE c = b
    BY <1>3, <2>1 DEF Issued, Awaits
  <2>2. CASE c # b /\ Awaits(c, "sign-in", TRUE)
    <3>1. /\ request[c].token \in Tokens
          /\ request[c].token \notin surrendered /\ row[request[c].token] # "unissued"
          /\ \A d \in Tabs : d # c => request[d].token # request[c].token
      BY <2>2 DEF SessionInv, Issued
    <3>2. request'[c] = request[c] /\ request[c].token # t
      BY <1>3, <1>4, <2>2
    <3>3. \A d \in Tabs : d # c => request'[d].token # request[c].token
      BY <1>3, <3>1, WebSessionAssumption
    <3> QED
      BY <1>1, <3>1, <3>2, <3>3, WebSessionAssumption DEF Issued
  <2>3. CASE c # b /\ ~Awaits(c, "sign-in", TRUE)
    BY <1>3, <2>3 DEF Issued, Awaits
  <2> QED
    BY <2>1, <2>2, <2>3
<1>7. ASSUME NEW c \in Tabs PROVE Called(c)'
  <2>1. CASE c = b
    BY <1>3, <2>1 DEF Called, Awaits
  <2>2. CASE c # b
    BY <1>1, <1>3, <2>2 DEF Called, Awaits, SessionInv
  <2> QED
    BY <2>1, <2>2
<1>8. SurrenderedSessionsAreOver'
  BY <1>1, <1>2, WebSessionAssumption DEF SessionInv, SurrenderedSessionsAreOver, TypeOK
<1> QED
  BY <1>5, <1>6, <1>7, <1>8 DEF SessionInv

LEMMA WorldSession == ASSUME TypeOK, SessionInv, World PROVE SessionInv'
<1>1. UNCHANGED <<request, surrendered, unrevoked>>
  BY DEF World, Lapse, DropCookie, Outage, Recovery, tabVars, history
<1>2. cookie' \in {cookie, NoToken}
  BY DEF World, Lapse, DropCookie, Outage, Recovery
<1>3. \A t \in Tokens : row'[t] = row[t] \/ (row[t] # "unissued" /\ row'[t] = "gone")
  BY DEF World, Lapse, DropCookie, Outage, Recovery, apiVars, TypeOK
<1>4. ASSUME NEW t \in Tokens PROVE Fresh(t)'
  BY <1>1, <1>2, <1>3, WebSessionAssumption DEF Fresh, SessionInv
<1>5. ASSUME NEW c \in Tabs PROVE Issued(c)'
  <2>1. Issued(c)
    BY DEF SessionInv
  <2> QED
    BY <1>1, <1>2, <1>3, <2>1, WebSessionAssumption DEF Issued, Awaits
<1>6. ASSUME NEW c \in Tabs PROVE Called(c)'
  <2>1. Called(c)
    BY DEF SessionInv
  <2> QED
    BY <1>1, <1>3, <2>1 DEF Called, Awaits
<1>7. SurrenderedSessionsAreOver'
  BY <1>1, <1>2, <1>3, WebSessionAssumption DEF SessionInv, SurrenderedSessionsAreOver, TypeOK
<1> QED
  BY <1>4, <1>5, <1>6, <1>7 DEF SessionInv

LEMMA NextSession == TypeOK /\ SessionInv /\ [Next]_vars => SessionInv'
<1> SUFFICES ASSUME TypeOK, SessionInv, [Next]_vars PROVE SessionInv'
  OBVIOUS
<1>1. CASE UNCHANGED vars
  <2>1. UNCHANGED <<row, cookie, request, surrendered, unrevoked>>
    BY <1>1 DEF vars
  <2>2. ASSUME NEW t \in Tokens PROVE Fresh(t)'
    BY <2>1 DEF SessionInv, Fresh
  <2>3. ASSUME NEW c \in Tabs PROVE Issued(c)' /\ Called(c)'
    BY <2>1 DEF SessionInv, Issued, Called, Awaits
  <2>4. SurrenderedSessionsAreOver'
    BY <2>1 DEF SessionInv, SurrenderedSessionsAreOver
  <2> QED
    BY <2>2, <2>3, <2>4 DEF SessionInv
<1>2. CASE \E b \in Tabs : Visitor(b)
  BY <1>2, VisitorSession
<1>3. CASE \E b \in Tabs : Progress(b)
  BY <1>3, PageSession, IssueSession, SignedInSession, RevokeSession, SignedOutSession DEF Progress
<1>4. CASE World
  BY <1>4, WorldSession
<1> QED
  BY <1>1, <1>2, <1>3, <1>4 DEF Next, World

(* A session whose sign-out was answered is not held by the browser again, *)
(* and over unless its revocation did not reach the API.                   *)
THEOREM SurrenderedOver == Spec => []SurrenderedSessionsAreOver
<1>1. SessionInv => SurrenderedSessionsAreOver
  BY DEF SessionInv
<1> QED
  BY <1>1, InitSession, NextSession, TypeCorrect, PTL DEF Spec

-----------------------------------------------------------------------------
(* A navigation does not go in a circle.                                   *)

(* The steps a tab still takes once it asks for the form, or for a page of *)
(* the application, with the cookie of the moment.                         *)
FromLogin(marked) == IF CurrentUser(cookie) THEN 4 ELSE IF marked THEN 5 ELSE 2
FromApp == IF CurrentUser(cookie) THEN 2 ELSE 7

(* Those it takes once request r was let pass.                             *)
FromPage(r) ==
  CASE r.kind = "app" -> IF CurrentUser(r.token) THEN 1 ELSE 1 + FromLogin(TRUE)
    [] r.kind = "login" -> IF CurrentUser(r.token) THEN 1 + FromApp
                           ELSE IF r.marked THEN 2 + FromLogin(FALSE) ELSE 1
    [] r.kind = "sign-in" -> 1 + FromApp
    [] OTHER -> 1 + FromLogin(FALSE)

(* At most as many steps are left until the tab shows a page, as long as   *)
(* nothing changes the cookie, the rows or the reachability of the API.    *)
Steps(r, v) ==
  IF r.kind # "none" THEN FromPage(r) + (IF r.passed THEN 0 ELSE 1)
  ELSE IF v.warning # "none" THEN 1 + FromLogin(FALSE) ELSE 0

StepsLeft(b) == Steps(request[b], view[b])

Undisturbed == UNCHANGED <<row, cookie, api>>

(* Every navigation has at most nine steps left, none only in a page.      *)
WithinNineSteps ==
  \A b \in Tabs : StepsLeft(b) \in 0 .. 9 /\ (StepsLeft(b) = 0 <=> Settled(b))

(* Each step of a tab brings it nearer to its page, and no step of another *)
(* tab takes it further away.                                              *)
EveryStepIsNearer ==
  [][Undisturbed =>
       \A b \in Tabs :
         /\ Progress(b) => StepsLeft(b)' < StepsLeft(b)
         /\ ~Progress(b) /\ ~Visitor(b) => StepsLeft(b)' = StepsLeft(b)]_vars

(* What StepsLeft is, in numbers.                                          *)
LEMMA PageNumbers ==
  ASSUME NEW r
  PROVE  /\ r.kind = "app" =>
              FromPage(r) = IF CurrentUser(r.token) THEN 1 ELSE IF CurrentUser(cookie) THEN 5 ELSE 6
         /\ r.kind = "login" /\ CurrentUser(r.token) =>
              FromPage(r) = IF CurrentUser(cookie) THEN 3 ELSE 8
         /\ r.kind = "login" /\ ~CurrentUser(r.token) =>
              FromPage(r) = IF ~r.marked THEN 1 ELSE IF CurrentUser(cookie) THEN 6 ELSE 4
         /\ r.kind = "sign-in" => FromPage(r) = IF CurrentUser(cookie) THEN 3 ELSE 8
         /\ r.kind = "sign-out" => FromPage(r) = IF CurrentUser(cookie) THEN 5 ELSE 3
<1>1. CASE CurrentUser(cookie)
  BY <1>1 DEF FromPage, FromLogin, FromApp
<1>2. CASE ~CurrentUser(cookie)
  BY <1>2 DEF FromPage, FromLogin, FromApp
<1> QED
  BY <1>1, <1>2

LEMMA StepsNumbers ==
  ASSUME NEW r, NEW v
  PROVE  /\ r.kind = "none" => Steps(r, v) = IF v.warning = "none" THEN 0
                                             ELSE IF CurrentUser(cookie) THEN 5 ELSE 3
         /\ r.kind # "none" /\ r.passed = TRUE => Steps(r, v) = FromPage(r) + 0
         /\ r.kind # "none" /\ r.passed = FALSE => Steps(r, v) = FromPage(r) + 1
<1>1. CASE CurrentUser(cookie)
  BY <1>1 DEF Steps, FromLogin
<1>2. CASE ~CurrentUser(cookie)
  BY <1>2 DEF Steps, FromLogin
<1> QED
  BY <1>1, <1>2

(* Every request a tab sends is for a page that is not far away.           *)
LEMMA PageType ==
  ASSUME NEW r, r.kind \in Acts, r.kind # "none"
  PROVE  FromPage(r) \in 1 .. 8
<1>1. r.kind \in {"app", "login", "sign-in", "sign-out"}
  BY DEF Acts
<1>2. FromPage(r) \in {1, 3, 4, 5, 6, 8}
  BY <1>1, PageNumbers
<1> QED
  BY <1>2

LEMMA StepsType ==
  ASSUME TypeOK, NEW b \in Tabs
  PROVE  StepsLeft(b) \in 0 .. 9 /\ (StepsLeft(b) = 0 <=> Settled(b))
<1>1. PICK r, v : r = request[b] /\ v = view[b]
  OBVIOUS
<1>2. r.kind \in Acts /\ r.passed \in BOOLEAN
  BY <1>1, ViewTypes
<1>3. CASE r.kind = "none"
  <2>1. Steps(r, v) \in {0, 3, 5} /\ (Steps(r, v) = 0 <=> v.warning = "none")
    <3>1. Steps(r, v) = IF v.warning = "none" THEN 0 ELSE IF CurrentUser(cookie) THEN 5 ELSE 3
      BY <1>3, StepsNumbers
    <3> QED
      BY <3>1
  <2>2. StepsLeft(b) = Steps(r, v) /\ (Settled(b) <=> v.warning = "none")
    BY <1>1, <1>3 DEF StepsLeft, Settled
  <2> QED
    BY <2>1, <2>2
<1>4. CASE r.kind # "none"
  <2>1. PICK n \in 1 .. 8 : n = FromPage(r)
    BY <1>2, <1>4, PageType
  <2>2. Steps(r, v) = n + 0 \/ Steps(r, v) = n + 1
    BY <1>2, <1>4, <2>1, StepsNumbers
  <2>3. Steps(r, v) \in 1 .. 9
    BY <2>2
  <2>4. StepsLeft(b) = Steps(r, v) /\ ~Settled(b)
    BY <1>1, <1>4 DEF StepsLeft, Settled
  <2> QED
    BY <2>3, <2>4
<1> QED
  BY <1>3, <1>4

(* The steps left in the state after an undisturbed step.                  *)
LEMMA StepsAfter ==
  ASSUME Undisturbed, NEW b \in Tabs
  PROVE  StepsLeft(b)' = Steps(request'[b], view'[b])
BY DEF Undisturbed, StepsLeft, Steps, FromPage, FromApp, FromLogin, CurrentUser

(* A tab that asks with the cookie of the moment.                          *)
LEMMA Asks ==
  ASSUME NEW r, NEW v, r.passed = FALSE, r.token = cookie
  PROVE  /\ r.kind = "app" => Steps(r, v) = IF CurrentUser(cookie) THEN 2 ELSE 7
         /\ r.kind = "login" /\ r.marked = TRUE => Steps(r, v) = IF CurrentUser(cookie) THEN 4 ELSE 5
         /\ r.kind = "login" /\ r.marked = FALSE => Steps(r, v) = IF CurrentUser(cookie) THEN 4 ELSE 2
<1>1. r.kind = "app" => FromPage(r) = IF CurrentUser(cookie) THEN 1 ELSE 6
  BY PageNumbers
<1>2. r.kind = "login" => FromPage(r) = IF CurrentUser(cookie) THEN 3 ELSE IF r.marked THEN 4 ELSE 1
  BY PageNumbers
<1>3. r.kind \in {"app", "login"} => Steps(r, v) = FromPage(r) + 1
  BY StepsNumbers
<1>4. CASE CurrentUser(cookie)
  BY <1>1, <1>2, <1>3, <1>4
<1>5. CASE ~CurrentUser(cookie)
  BY <1>1, <1>2, <1>3, <1>5
<1> QED
  BY <1>4, <1>5

(* A request that was let pass by what it waited for first.                *)
LEMMA PassesNearer ==
  ASSUME TypeOK, Undisturbed, NEW b \in Tabs, request[b].kind # "none",
         request[b].passed = FALSE, Passes(b, request[b].token)
  PROVE  StepsLeft(b)' < StepsLeft(b)
<1>1. PICK r, v, q, w : r = request[b] /\ v = view[b] /\ q = request'[b] /\ w = view'[b]
  OBVIOUS
<1>2. q.kind = r.kind /\ q.passed = TRUE /\ q.marked = r.marked /\ q.token = r.token
  BY <1>1, PassesAt
<1>3. FromPage(q) = FromPage(r)
  BY <1>2 DEF FromPage
<1>4. PICK n \in 1 .. 8 : n = FromPage(r)
  BY <1>1, ViewTypes, PageType
<1>5. Steps(r, v) = n + 1 /\ Steps(q, w) = n + 0
  BY <1>1, <1>2, <1>3, <1>4, StepsNumbers
<1>6. Steps(q, w) < Steps(r, v)
  BY <1>5
<1> QED
  BY <1>1, <1>6, StepsAfter DEF StepsLeft

LEMMA PageNearer ==
  ASSUME TypeOK, Undisturbed, NEW b \in Tabs,
         proxy(b) \/ AppPage(b) \/ LoginPage(b) \/ SessionLossToast(b)
  PROVE  StepsLeft(b)' < StepsLeft(b)
<1>1. PICK r, v, q, w : r = request[b] /\ v = view[b] /\ q = request'[b] /\ w = view'[b]
  OBVIOUS
<1>2. SUFFICES Steps(q, w) < Steps(r, v)
  BY <1>1, StepsAfter DEF StepsLeft
<1>3. CASE proxy(b)
  <2>1. CASE r.token = NoToken /\ r.kind = "app"
    <3>1. Redirects(b, "login", TRUE, cookie) /\ r.passed = FALSE
      BY <1>1, <1>3, <2>1 DEF proxy, Awaits
    <3>2. q.kind = "login" /\ q.passed = FALSE /\ q.marked = TRUE /\ q.token = cookie
      BY <1>1, <3>1, RedirectsAt
    <3>3. ~CurrentUser(r.token)
      BY <2>1, WebSessionAssumption DEF CurrentUser
    <3>4. FromPage(r) = IF CurrentUser(cookie) THEN 5 ELSE 6
      BY <2>1, <3>3, PageNumbers
    <3>5. Steps(r, v) = FromPage(r) + 1
      BY <2>1, <3>1, StepsNumbers
    <3>6. Steps(q, w) = IF CurrentUser(cookie) THEN 4 ELSE 5
      BY <3>2, Asks
    <3> QED
      BY <3>4, <3>5, <3>6
  <2>2. CASE ~(r.token = NoToken /\ r.kind = "app")
    <3>1. r.kind # "none" /\ r.passed = FALSE /\ Passes(b, r.token)
      BY <1>1, <1>3, <2>2 DEF proxy, Awaits
    <3> QED
      BY <1>1, <3>1, PassesNearer, StepsAfter DEF StepsLeft
  <2> QED
    BY <2>1, <2>2
<1>4. CASE AppPage(b)
  <2>1. r.kind = "app" /\ r.passed = TRUE
    BY <1>1, <1>4 DEF AppPage, Awaits
  <2>2. Steps(r, v) = FromPage(r) + 0
    BY <2>1, StepsNumbers
  <2>3. CASE CurrentUser(r.token)
    <3>1. q.kind = "none" /\ w.warning = "none"
      BY <1>1, <1>4, <2>3, RendersAt, Literals DEF AppPage
    <3>2. Steps(q, w) = 0
      BY <3>1, StepsNumbers
    <3>3. FromPage(r) = 1
      BY <2>1, <2>3, PageNumbers
    <3> QED
      BY <2>2, <3>2, <3>3
  <2>4. CASE ~CurrentUser(r.token)
    <3>1. q.kind = "login" /\ q.passed = FALSE /\ q.marked = TRUE /\ q.token = cookie
      BY <1>1, <1>4, <2>4, RedirectsAt DEF AppPage
    <3>2. Steps(q, w) = IF CurrentUser(cookie) THEN 4 ELSE 5
      BY <3>1, Asks
    <3>3. FromPage(r) = IF CurrentUser(cookie) THEN 5 ELSE 6
      BY <2>1, <2>4, PageNumbers
    <3> QED
      BY <2>2, <3>2, <3>3
  <2> QED
    BY <2>3, <2>4
<1>5. CASE LoginPage(b)
  <2>1. r.kind = "login" /\ r.passed = TRUE
    BY <1>1, <1>5 DEF LoginPage, Awaits
  <2>2. Steps(r, v) = FromPage(r) + 0
    BY <2>1, StepsNumbers
  <2>3. CASE CurrentUser(r.token)
    <3>1. q.kind = "app" /\ q.passed = FALSE /\ q.token = cookie
      BY <1>1, <1>5, <2>3, RedirectsAt DEF LoginPage
    <3>2. Steps(q, w) = IF CurrentUser(cookie) THEN 2 ELSE 7
      BY <3>1, Asks
    <3>3. FromPage(r) = IF CurrentUser(cookie) THEN 3 ELSE 8
      BY <2>1, <2>3, PageNumbers
    <3> QED
      BY <2>2, <3>2, <3>3
  <2>4. CASE ~CurrentUser(r.token)
    <3>1. q.kind = "none" /\ w.warning = sessionLossWarning(r.marked, r.token)
      BY <1>1, <1>5, <2>4, RendersAt DEF LoginPage
    <3>2. Steps(q, w) = IF w.warning = "none" THEN 0 ELSE IF CurrentUser(cookie) THEN 5 ELSE 3
      BY <3>1, StepsNumbers
    <3>3. FromPage(r) = IF ~r.marked THEN 1 ELSE IF CurrentUser(cookie) THEN 6 ELSE 4
      BY <2>1, <2>4, PageNumbers
    <3>4. ~r.marked => w.warning = "none"
      BY <3>1 DEF sessionLossWarning
    <3> QED
      BY <2>2, <3>2, <3>3, <3>4
  <2> QED
    BY <2>3, <2>4
<1>6. CASE SessionLossToast(b)
  <2>1. r.kind = "none" /\ v.warning # "none"
    BY <1>1, <1>6 DEF SessionLossToast
  <2>2. q.kind = "login" /\ q.passed = FALSE /\ q.marked = FALSE /\ q.token = cookie
    BY <1>1, <1>6, SendsAt DEF SessionLossToast
  <2>3. Steps(q, w) = IF CurrentUser(cookie) THEN 4 ELSE 2
    BY <2>2, Asks
  <2>4. Steps(r, v) = IF CurrentUser(cookie) THEN 5 ELSE 3
    BY <2>1, StepsNumbers
  <2> QED
    BY <2>3, <2>4
<1> QED
  BY <1>3, <1>4, <1>5, <1>6

LEMMA ActionNearer ==
  ASSUME TypeOK, Undisturbed, NEW b \in Tabs,
         Refused(b) \/ Issue(b) \/ SignedIn(b) \/ Revoke(b) \/ SignedOut(b)
  PROVE  StepsLeft(b)' < StepsLeft(b)
<1>1. PICK r, v, q, w : r = request[b] /\ v = view[b] /\ q = request'[b] /\ w = view'[b]
  OBVIOUS
<1>2. SUFFICES Steps(q, w) < Steps(r, v)
  BY <1>1, StepsAfter DEF StepsLeft
<1>3. CASE Refused(b)
  <2>1. q.kind = "none" /\ w.warning = "none"
    BY <1>1, <1>3, RendersAt, ViewTypes, Literals DEF Refused
  <2>2. Steps(q, w) = 0
    BY <2>1, StepsNumbers
  <2>3. r.kind # "none"
    BY <1>1, <1>3 DEF Refused
  <2>4. Steps(r, v) \in 1 .. 9
    BY <1>1, <2>3, StepsType DEF Settled, StepsLeft
  <2> QED
    BY <2>2, <2>4
<1>4. CASE Issue(b)
  <2>1. PICK t \in Tokens : row[t] = "unissued" /\ row' = [row EXCEPT ![t] = "live"]
    BY <1>4 DEF Issue
  <2>2. row'[t] = "live"
    BY <2>1 DEF TypeOK
  <2> QED
    BY <2>1, <2>2 DEF Undisturbed
<1>5. CASE SignedIn(b)
  <2>1. r.kind = "sign-in" /\ r.passed = TRUE /\ r.token = cookie
    BY <1>1, <1>5 DEF SignedIn, Awaits, Undisturbed
  <2>2. q.kind = "app" /\ q.passed = FALSE /\ q.token = cookie
    BY <1>1, <1>5, <2>1, RedirectsAt DEF SignedIn
  <2>3. Steps(q, w) = IF CurrentUser(cookie) THEN 2 ELSE 7
    BY <2>2, Asks
  <2>4. Steps(r, v) = FromPage(r) + 0
    BY <2>1, StepsNumbers
  <2>5. FromPage(r) = IF CurrentUser(cookie) THEN 3 ELSE 8
    BY <2>1, PageNumbers
  <2> QED
    BY <2>3, <2>4, <2>5
<1>6. CASE Revoke(b)
  <2>1. r.kind # "none" /\ r.passed = FALSE /\ Passes(b, r.token)
    BY <1>1, <1>6 DEF Revoke, Awaits
  <2> QED
    BY <1>1, <2>1, PassesNearer, StepsAfter DEF StepsLeft
<1>7. CASE SignedOut(b)
  <2>1. r.kind = "sign-out" /\ r.passed = TRUE /\ cookie = NoToken
    BY <1>1, <1>7 DEF SignedOut, Awaits, Undisturbed
  <2>2. q.kind = "login" /\ q.passed = FALSE /\ q.marked = FALSE /\ q.token = cookie
    BY <1>1, <1>7, <2>1, RedirectsAt DEF SignedOut
  <2>3. Steps(q, w) = IF CurrentUser(cookie) THEN 4 ELSE 2
    BY <2>2, Asks
  <2>4. Steps(r, v) = FromPage(r) + 0
    BY <2>1, StepsNumbers
  <2>5. FromPage(r) = IF CurrentUser(cookie) THEN 5 ELSE 3
    BY <2>1, PageNumbers
  <2> QED
    BY <2>3, <2>4, <2>5
<1> QED
  BY <1>3, <1>4, <1>5, <1>6, <1>7

LEMMA OthersStay ==
  ASSUME TypeOK, [Next]_vars, Undisturbed, NEW b \in Tabs, ~Progress(b), ~Visitor(b)
  PROVE  StepsLeft(b)' = StepsLeft(b)
<1>1. request'[b] = request[b] /\ view'[b] = view[b]
  <2>1. CASE UNCHANGED vars
    BY <2>1 DEF vars
  <2>2. CASE \E c \in Tabs : Visitor(c) \/ Progress(c)
    BY <2>2, OtherTabs
  <2>3. CASE World
    BY <2>3, WorldTabs DEF tabVars
  <2> QED
    BY <2>1, <2>2, <2>3 DEF Next, World
<1> QED
  BY <1>1, StepsAfter DEF StepsLeft

(* "This direction is monotonic and cannot loop" (proxy.ts): while nothing *)
(* changes the cookie, the rows or the reachability of the API, at most    *)
(* nine steps of redirects, pages, actions and a toast lead any tab to its *)
(* page, each of them nearer to it, whatever the other tabs navigate to.   *)
THEOREM NavigationsAreShort == Spec => []WithinNineSteps /\ EveryStepIsNearer
<1>1. TypeOK => WithinNineSteps
  BY StepsType DEF WithinNineSteps
<1>2. TypeOK /\ [Next]_vars =>
        [Undisturbed =>
           \A b \in Tabs :
             /\ Progress(b) => StepsLeft(b)' < StepsLeft(b)
             /\ ~Progress(b) /\ ~Visitor(b) => StepsLeft(b)' = StepsLeft(b)]_vars
  <2>1. ASSUME TypeOK, [Next]_vars, Undisturbed, NEW b \in Tabs
        PROVE  /\ Progress(b) => StepsLeft(b)' < StepsLeft(b)
               /\ ~Progress(b) /\ ~Visitor(b) => StepsLeft(b)' = StepsLeft(b)
    BY <2>1, PageNearer, ActionNearer, OthersStay DEF Progress
  <2> QED
    BY <2>1
<1> QED
  BY <1>1, <1>2, TypeCorrect, PTL DEF Spec, EveryStepIsNearer

=============================================================================
