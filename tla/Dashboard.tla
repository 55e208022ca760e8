----------------------------- MODULE Dashboard -----------------------------
(***************************************************************************)
(* The page of the web client: session, dashboard mode, routes, and the    *)
(* views that are loaded once and then kept (loadedWorkspaceViews).        *)
(*                                                                         *)
(* A handler runs until it awaits a request; the rest of it runs when the  *)
(* answer arrives, with whatever the globals hold by then.  A request      *)
(* carries the session cookie of the moment it is sent at; the cookie      *)
(* holds the mode and is shared by all tabs of the browser.                *)
(***************************************************************************)
EXTENDS WebPage, Naturals

CONSTANTS
  Key,            \* the views in use, as keys of loadedWorkspaceViews
  Role,           \* the account: superadmin or tenant (department admin)
  MaxSteps,       \* bound on what the user does
  SessionFaults   \* which faults may happen, see SessionFaultKinds

AdminKey == {"admin/users", "admin/domains", "admin/audit", "admin/runtime"}
ViewKey == {"home", "links", "analytics", "settings"} \cup AdminKey
SuperKey == {"admin/audit", "admin/runtime"}
Mode == {"admin", "user"}
SessionFaultKinds ==
  { "load_fails",    \* the request of a view fails
    "change_fails",  \* a change is refused, or made and its answer is lost
    "other_tab",     \* another tab switches the mode
    "expiry" }       \* the session ends

(* saveLink, delLink, importLinks: loadedWorkspaceViews.delete, and a      *)
(* variant without it.                                                     *)
ForgottenByNobody == {}
ForgottenByLinks == {"home"}

(* The changes a view offers: what they alter on the server, the views     *)
(* their handler forgets, the view it loads again, and the views it alters *)
(* and leaves as they were loaded.  Every change adds an audit event, and  *)
(* the clicks of a deleted link are no longer listed; the client forgets   *)
(* Audit only for deletion access, and Click analytics never.  A new       *)
(* customer also counts in the totals of home, which createCustomer loads  *)
(* again by loadStats.                                                     *)
Change ==
  [createLink |->
     [from |-> "home", alters |-> {"home", "links", "admin/audit"},
      forgets |-> {"links"}, reloads |-> "home", leaves |-> {"admin/audit"}],
   changeLinks |->
     [from |-> "links",
      alters |-> {"home", "links", "analytics", "admin/audit"},
      forgets |-> ForgottenByLinks, reloads |-> "links",
      leaves |-> {"analytics", "admin/audit"}],
   createCustomer |->
     [from |-> "admin/users", alters |-> {"admin/users", "admin/audit"},
      forgets |-> {}, reloads |-> "admin/users", leaves |-> {"admin/audit"}],
   setDeletionAccess |->
     [from |-> "admin/users", alters |-> {"admin/users", "admin/audit"},
      forgets |-> {"admin/audit"}, reloads |-> "admin/users", leaves |-> {}]]
ChangeName == DOMAIN Change

VARIABLES
  cookie,   \* mode in the session cookie
  page,     \* login: the sign-in card, app: the dashboard, left: redirected
  user,     \* currentUser.dashboard_mode
  hash,     \* location.hash
  view,     \* the section shown
  tenants,  \* tenantCache is filled
  loaded,   \* loadedWorkspaceViews
  content,  \* what a view shows: as of which mode and version
  call,     \* requests under way
  ver,      \* changes this tab made to what a view shows
  crossed,  \* history: views touched by a mode switch during their load
  doubtful, \* history: views an overlap, a failure or a change that leaves
            \* them as they were loaded may have left out of date
  steps     \* what the user did

clientVars == <<page, user, hash, view, tenants, loaded, content>>
historyVars == <<crossed, doubtful>>
dashboardVars == <<cookie, clientVars, call, ver, historyVars, steps>>

ShownView == [mode : Mode, ver : Nat]

NewLoad(k, part, isView, boot, sent) ==
  [kind |-> "load", arg |-> k, part |-> part, view |-> isView,
   boot |-> boot, mode |-> sent, ver |-> Nil]
NewCall(kind, arg, sent) ==
  [kind |-> kind, arg |-> arg, part |-> "sent", view |-> FALSE,
   boot |-> FALSE, mode |-> sent, ver |-> Nil]

CallRecord ==
  [kind : {"load", "me", "mode", "change"},
   arg : Key \cup Mode \cup ChangeName \cup {Nil},
   part : {"sent", "done", "tenants", "own"}, view : BOOLEAN,
   boot : BOOLEAN, mode : Mode \cup {Nil}, ver : Nat \cup {Nil}]

ASSUME DashboardAssumption ==
  /\ Key \subseteq ViewKey /\ "home" \in Key
  /\ Key \cap SuperKey # {} => "admin/users" \in Key
  /\ Role \in {"superadmin", "tenant"}
  /\ MaxSteps \in Nat
  /\ SessionFaults \subseteq SessionFaultKinds
  /\ Nil \notin Mode /\ Nil \notin Nat /\ Nil \notin ViewKey \cup {"report"}
  /\ Nil \notin ShownView /\ Nil \notin CallRecord

Is(c, kind) == call[c] # Nil /\ call[c].kind = kind
Loading(k) == {c \in Call : Is(c, "load") /\ call[c].arg = k}
Altering(k) ==
  {c \in Call : Is(c, "change") /\ k \in Change[call[c].arg].alters}
Busy == {k \in Key : Loading(k) # {}}

DashboardInit ==
  /\ cookie \in Mode
  /\ page = "login"
  /\ user = Nil
  /\ hash \in Key \cup {"report"}
  /\ view = Nil
  /\ tenants = FALSE
  /\ loaded = {}
  /\ content = [k \in Key |-> Nil]
  /\ \E c \in Call :
       call = [d \in Call |-> IF d = c THEN NewCall("me", Nil, cookie) ELSE Nil]
  /\ ver = [k \in Key |-> 0]
  /\ crossed = {} /\ doubtful = {}
  /\ steps = 0

Step == steps < MaxSteps /\ steps' = steps + 1

-----------------------------------------------------------------------------
(* Routes: routeView, loadWorkspaceView, renderDashboard *)

(* A variant of Route. *)
RouteUnchecked(h, m) == h

(* The view a hash leads to; panels of Admin mode are not for User mode.   *)
Route(h, m) ==
  CASE h = "report"                             -> "report"
    [] h \in AdminKey /\ m # "admin"            -> "home"
    [] h \in SuperKey /\ Role # "superadmin"
         /\ m = "admin"                         -> "admin/users"
    [] OTHER                                    -> h

(* A department admin's client loads no departments. *)
FirstPart(k, filled) ==
  IF k \in AdminKey /\ Role = "superadmin" /\ ~filled THEN "tenants" ELSE "own"

(* Request c takes the place of what it is the answer to. *)
loadWorkspaceView(c, k, done, filled, boot) ==
  call' = [call EXCEPT ![c] =
             IF k \notin Key \ done THEN Nil
             ELSE NewLoad(k, FirstPart(k, filled), TRUE, boot, cookie')]

(* A load that is alone makes its view current again. *)
Racing(c, k, done) ==
  doubtful' = IF k \notin Key \ done THEN doubtful
              ELSE IF Loading(k) \ {c} = {} THEN doubtful \ {k}
              ELSE doubtful \cup {k}

routeView(c, h, m, done, filled, boot) ==
  LET k == Route(h, m) IN
  /\ view' = k
  /\ loadWorkspaceView(c, k, done, filled, boot)
  /\ Racing(c, k, done)

(* The admin panels are hidden until they are loaded again. *)
renderDashboard(c, m, boot) ==
  /\ page' = "app"
  /\ user' = m
  /\ tenants' = FALSE
  /\ loaded' = {}
  /\ content' = [k \in Key |-> IF k \in AdminKey THEN Nil ELSE content[k]]
  /\ routeView(c, hash, m, {}, FALSE, boot)
  /\ UNCHANGED hash

(* The hashchange listener: the user follows a link of the page. *)
onHashChange(h) ==
  /\ Step /\ UNCHANGED cookie
  /\ user # Nil /\ page # "left"
  /\ h # hash
  /\ hash' = h
  /\ \E c \in Call :
       call[c] = Nil /\ routeView(c, h, user, loaded, tenants, FALSE)
  /\ UNCHANGED <<page, user, tenants, loaded, content, ver, crossed>>

-----------------------------------------------------------------------------
(* Session: restoreSession, showDash, setDashboardMode, api *)

(* The page goes away; nothing of the client survives. *)
Unload ==
  /\ user' = Nil /\ view' = Nil
  /\ tenants' = FALSE /\ loaded' = {}
  /\ content' = [k \in Key |-> Nil]
  /\ crossed' = {} /\ doubtful' = {}

(* The page is opened or reloaded. *)
restoreSession(h) ==
  /\ page' = "login"
  /\ Unload
  /\ hash' = h
  /\ \E c \in Call : call' = [d \in Call |-> IF d # c THEN Nil
       ELSE NewCall("me", Nil, cookie')]

Reopen(h) == Step /\ UNCHANGED <<cookie, ver>> /\ restoreSession(h)

(* showDash with the answer of /api/v1/me. *)
showDash(c) ==
  /\ Is(c, "me") /\ call[c].mode # Nil
  /\ UNCHANGED cookie
  /\ renderDashboard(c, call[c].mode, TRUE)
  /\ crossed' = IF call[c].mode # cookie THEN Key ELSE {}
  /\ UNCHANGED <<ver, steps>>

showDashFails(c) ==
  /\ Is(c, "me") /\ "load_fails" \in SessionFaults
  /\ page' = "login"
  /\ call' = [call EXCEPT ![c] = Nil]
  /\ UNCHANGED <<cookie, user, hash, view, tenants, loaded, content, ver,
                 historyVars, steps>>

setDashboardMode(m) ==
  /\ Step
  /\ page = "app" /\ user # Nil /\ user # m
  /\ \E c \in Call :
       call[c] = Nil /\ call' = [call EXCEPT ![c] = NewCall("mode", m, cookie)]
  /\ UNCHANGED <<cookie, clientVars, ver, historyVars>>

(* A variant of ModeSwitched: the dashboard is not rendered again. *)
ModeSwitchedInPlace(c) ==
  /\ Is(c, "mode") /\ call[c].mode # Nil
  /\ cookie' = call[c].arg
  /\ user' = call[c].arg
  /\ call' = [call EXCEPT ![c] = Nil]
  /\ UNCHANGED <<page, hash, view, tenants, loaded, content, ver, historyVars,
                 steps>>

(* The answer sets the cookie and the user and renders the dashboard. *)
ModeSwitched(c) ==
  /\ Is(c, "mode") /\ call[c].mode # Nil
  /\ cookie' = call[c].arg
  /\ renderDashboard(c, call[c].arg, FALSE)
  /\ crossed' = Busy
  /\ UNCHANGED <<ver, steps>>

ModeFails(c) ==
  /\ Is(c, "mode") /\ "change_fails" \in SessionFaults
  /\ call' = [call EXCEPT ![c] = Nil]
  /\ UNCHANGED <<cookie, clientVars, ver, historyVars, steps>>

OtherTab ==
  /\ "other_tab" \in SessionFaults /\ Step
  /\ cookie # Nil
  /\ cookie' \in Mode \ {cookie}
  /\ crossed' = Key
  /\ UNCHANGED <<clientVars, call, ver, doubtful>>

Expire ==
  /\ "expiry" \in SessionFaults /\ Step
  /\ cookie' = Nil
  /\ UNCHANGED <<clientVars, call, ver, historyVars>>

(* api: a 401 that names the login page takes the browser there. *)
api401(c) ==
  /\ call[c] # Nil /\ call[c].mode = Nil
  /\ page' = "left"
  /\ Unload
  /\ call' = [d \in Call |-> Nil]
  /\ UNCHANGED <<cookie, hash, ver, steps>>

(* login and the callback: a new session begins in Admin mode. *)
login(h) ==
  /\ Step
  /\ page \in {"left", "login"} /\ \A c \in Call : ~Is(c, "me")
  /\ cookie' = "admin"
  /\ restoreSession(h)
  /\ UNCHANGED ver

-----------------------------------------------------------------------------
(* Loads *)

ReadView(c) ==
  /\ Is(c, "load") /\ call[c].mode # Nil
  /\ call[c].part = "own" /\ call[c].ver = Nil
  /\ call' = [call EXCEPT ![c].ver = ver[call[c].arg]]
  /\ UNCHANGED <<cookie, clientVars, ver, historyVars, steps>>

Allowed(c) == call[c].arg \in AdminKey => call[c].mode = "admin"

(* loadTenants, then the load of the panel with its guard on currentUser.  *)
loadTenants(c) ==
  LET k == call[c].arg IN
  /\ Is(c, "load") /\ call[c].part = "tenants" /\ call[c].mode # Nil
  /\ Allowed(c)
  /\ tenants' = TRUE
  /\ call' = [call EXCEPT ![c] = IF user = "admin"
                THEN NewLoad(k, "own", TRUE, @.boot, cookie) ELSE Nil]
  /\ loaded' = IF user = "admin" THEN loaded ELSE loaded \cup {k}
  /\ UNCHANGED <<cookie, page, user, hash, view, content, ver, historyVars,
                 steps>>

(* A variant of LoadArrives that renders before the answer is there. *)
LoadArrivesUnread(c) ==
  LET k == call[c].arg IN
  /\ Is(c, "load") /\ Allowed(c)
  /\ content' = [content EXCEPT ![k] =
                   [mode |-> call[c].mode, ver |-> call[c].ver]]
  /\ loaded' = IF call[c].view THEN loaded \cup {k} ELSE loaded
  /\ call' = [call EXCEPT ![c] = Nil]
  /\ UNCHANGED <<cookie, page, user, hash, view, tenants, ver, historyVars,
                 steps>>

(* The view is rendered and, when it was opened, remembered as loaded.     *)
LoadArrives(c) ==
  LET k == call[c].arg IN
  /\ Is(c, "load") /\ call[c].ver # Nil /\ Allowed(c)
  /\ content' = [content EXCEPT ![k] =
                   [mode |-> call[c].mode, ver |-> call[c].ver]]
  /\ loaded' = IF call[c].view THEN loaded \cup {k} ELSE loaded
  /\ call' = [call EXCEPT ![c] = Nil]
  /\ UNCHANGED <<cookie, page, user, hash, view, tenants, ver, historyVars,
                 steps>>

(* A failed load shows the sign-in card when the page was being opened.    *)
(* loadRuntimeInfo catches the error: its view counts as loaded, hidden.   *)
LoadFails(c) ==
  LET k == call[c].arg
      caught == k = "admin/runtime" /\ call[c].part = "own" IN
  /\ Is(c, "load") /\ call[c].mode # Nil
  /\ "load_fails" \in SessionFaults \/ ~Allowed(c)
  /\ page' = IF call[c].boot /\ ~caught THEN "login" ELSE page
  /\ loaded' = IF caught /\ call[c].view THEN loaded \cup {k} ELSE loaded
  /\ content' = IF caught THEN [content EXCEPT ![k] = Nil] ELSE content
  /\ call' = [call EXCEPT ![c] = Nil]
  /\ doubtful' = doubtful \cup {k}
  /\ UNCHANGED <<cookie, user, hash, view, tenants, ver, crossed, steps>>

-----------------------------------------------------------------------------
(* Changes: createLink, saveLink, delLink, importLinks, createCustomer and *)
(* setDeletionAccess                                                       *)

SendChange(n) ==
  /\ Step
  /\ page = "app" /\ user # Nil
  /\ view = Change[n].from /\ content[view] # Nil
  /\ \E c \in Call :
       /\ call[c] = Nil
       /\ call' = [call EXCEPT ![c] = NewCall("change", n, cookie)]
  /\ UNCHANGED <<cookie, clientVars, ver, historyVars>>

createLink == SendChange("createLink")
changeLinks == SendChange("changeLinks")
createCustomer == SendChange("createCustomer")
switchDeletionAccess == SendChange("setDeletionAccess")

Commit(c) ==
  /\ Is(c, "change") /\ call[c].part = "sent" /\ call[c].mode # Nil
  /\ call[c].arg \in {"createCustomer", "setDeletionAccess"} =>
       call[c].mode = "admin"
  /\ call' = [call EXCEPT ![c].part = "done"]
  /\ ver' = [k \in Key |->
       IF k \in Change[call[c].arg].alters THEN ver[k] + 1 ELSE ver[k]]
  /\ UNCHANGED <<cookie, clientVars, historyVars, steps>>

(* loadedWorkspaceViews.delete, then the view is loaded again.  A load of  *)
(* the forgotten view that is still under way will remember it anyway.     *)
ChangeAnswered(c) ==
  LET n == call[c].arg
      k == Change[n].reloads IN
  /\ Is(c, "change") /\ call[c].part = "done"
  /\ loaded' = loaded \ Change[n].forgets
  /\ call' = [call EXCEPT ![c] = NewLoad(k, "own", FALSE, FALSE, cookie)]
  /\ doubtful' = (doubtful \cup (Change[n].forgets \cap Busy) \cup {k} \cup
                    (Change[n].leaves \cap Key)) \
                   (IF Loading(k) = {} THEN {k} ELSE {})
  /\ UNCHANGED <<cookie, page, user, hash, view, tenants, content, ver,
                 crossed, steps>>

ChangeFails(c) ==
  /\ Is(c, "change") /\ "change_fails" \in SessionFaults
  /\ call' = [call EXCEPT ![c] = Nil]
  /\ doubtful' = IF call[c].part = "sent" THEN doubtful
                 ELSE doubtful \cup (Change[call[c].arg].alters \cap Key)
  /\ UNCHANGED <<cookie, clientVars, ver, crossed, steps>>

DashboardNext ==
  \/ \E h \in Key \cup {"report"} :
       onHashChange(h) \/ Reopen(h) \/ login(h)
  \/ \E m \in Mode : setDashboardMode(m)
  \/ createLink \/ changeLinks \/ createCustomer \/ switchDeletionAccess
  \/ OtherTab \/ Expire
  \/ \E c \in Call :
       \/ showDash(c) \/ showDashFails(c) \/ ModeSwitched(c) \/ ModeFails(c)
       \/ api401(c) \/ ReadView(c) \/ loadTenants(c) \/ LoadArrives(c)
       \/ LoadFails(c) \/ Commit(c) \/ ChangeAnswered(c) \/ ChangeFails(c)

DashboardSpec == DashboardInit /\ [][DashboardNext]_dashboardVars

-----------------------------------------------------------------------------
(* Properties *)

DashboardTypeOK ==
  /\ cookie \in Mode \cup {Nil} /\ user \in Mode \cup {Nil}
  /\ page \in {"login", "app", "left"}
  /\ hash \in Key \cup {"report"} /\ view \in ViewKey \cup {"report", Nil}
  /\ tenants \in BOOLEAN
  /\ loaded \subseteq Key /\ crossed \subseteq Key /\ doubtful \subseteq Key
  /\ content \in [Key -> ShownView \cup {Nil}]
  /\ call \in [Call -> CallRecord \cup {Nil}]
  /\ ver \in [Key -> Nat]
  /\ steps \in Nat

(* routeView, renderDashboard: a panel of Admin mode is open only while    *)
(* the client acts in Admin mode, over every order of mode switches,       *)
(* reloads and links followed.                                             *)
AdminPanelsOnlyInAdminMode ==
  (page = "app" /\ view \in AdminKey) => user = "admin"

(* loadWorkspaceView: a view that counts as loaded shows what the account  *)
(* sees in the mode the page acts in, except for views that were being     *)
(* loaded while the mode was switched, until the dashboard is rendered     *)
(* again.                                                                  *)
ShowsMode(k) ==
  (k \in loaded /\ Loading(k) = {} /\ content[k] # Nil)
    => content[k].mode = user
LoadedViewsShowModeUnlessCrossed ==
  page = "app" => \A k \in Key \ crossed : ShowsMode(k)

(* loadedWorkspaceViews: a view that counts as loaded is rendered and      *)
(* shows every change this tab has made, once nothing about it is under    *)
(* way, unless its loads overlapped, one failed, a change forgot it while  *)
(* it was being loaded, or a change leaves it as it was: Audit is behind   *)
(* after every change but one of deletion access, and Click analytics      *)
(* after a link is deleted, until they are loaded again.                   *)
LoadedViewsAreCurrent ==
  \A k \in loaded \ (doubtful \cup crossed) :
    (Loading(k) = {} /\ Altering(k) = {}) =>
      content[k] # Nil /\ content[k].ver = ver[k]
=============================================================================
