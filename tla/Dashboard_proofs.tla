-------------------------- MODULE Dashboard_proofs --------------------------
(***************************************************************************)
(* The panels of Admin mode are open in Admin mode only, and views that    *)
(* count as loaded show the mode and the changes of the page, for any      *)
(* views, number of requests, faults and kind of account.                  *)
(*                                                                         *)
(* The first invariant is inductive as it stands: the view and the mode    *)
(* the page acts in change only through Route, which looks at both.  The   *)
(* others need DashInv: what the loads under way have read, and that the   *)
(* cookie, the page, the loads and the views agree on the mode.            *)
(***************************************************************************)
EXTENDS Dashboard, TLAPS

(* routeView: a route to a panel of Admin mode is taken in Admin mode.     *)
LEMMA RouteChecksMode ==
  ASSUME NEW h, NEW m, Route(h, m) \in AdminKey
  PROVE  m = "admin"
  BY DEF Route, AdminKey, SuperKey

LEMMA RoutedView ==
  ASSUME NEW c, NEW h, NEW m, NEW done, NEW filled, NEW boot,
         routeView(c, h, m, done, filled, boot)
  PROVE  view' = Route(h, m)
  BY DEF routeView

LEMMA RenderedView ==
  ASSUME NEW c, NEW m, NEW boot, renderDashboard(c, m, boot)
  PROVE  user' = m /\ view' = Route(hash, m)
  BY RoutedView DEF renderDashboard

(* Steps that leave the view and the mode, and do not open the dashboard. *)
LEMMA SameView ==
  ASSUME AdminPanelsOnlyInAdminMode, UNCHANGED <<view, user>>,
         page' = page \/ page' # "app"
  PROVE  AdminPanelsOnlyInAdminMode'
  BY DEF AdminPanelsOnlyInAdminMode

LEMMA PanelsStep ==
  ASSUME AdminPanelsOnlyInAdminMode, [DashboardNext]_dashboardVars
  PROVE  AdminPanelsOnlyInAdminMode'
<1>1. ASSUME NEW h \in Key \cup {"report"}, onHashChange(h)
      PROVE  AdminPanelsOnlyInAdminMode'
  <2>1. user' = user /\ view' = Route(h, user)
    BY <1>1, RoutedView DEF onHashChange
  <2> QED BY <2>1, RouteChecksMode DEF AdminPanelsOnlyInAdminMode
<1>2. ASSUME NEW h \in Key \cup {"report"}, Reopen(h) \/ login(h)
      PROVE  AdminPanelsOnlyInAdminMode'
  BY <1>2 DEF Reopen, login, restoreSession, AdminPanelsOnlyInAdminMode
<1>3. ASSUME NEW m \in Mode, setDashboardMode(m)
      PROVE  AdminPanelsOnlyInAdminMode'
  BY <1>3, SameView DEF setDashboardMode, clientVars
<1>4. ASSUME NEW n, SendChange(n)
      PROVE  AdminPanelsOnlyInAdminMode'
  BY <1>4, SameView DEF SendChange, clientVars
<1>5. CASE OtherTab \/ Expire
  BY <1>5, SameView DEF OtherTab, Expire, clientVars
<1>6. ASSUME NEW c \in Call, showDash(c) \/ ModeSwitched(c)
      PROVE  AdminPanelsOnlyInAdminMode'
  <2>1. PICK m : user' = m /\ view' = Route(hash, m)
    BY <1>6, RenderedView DEF showDash, ModeSwitched
  <2> QED BY <2>1, RouteChecksMode DEF AdminPanelsOnlyInAdminMode
<1>7. ASSUME NEW c \in Call, showDashFails(c) \/ ModeFails(c) \/ api401(c)
      PROVE  AdminPanelsOnlyInAdminMode'
  BY <1>7 DEF showDashFails, ModeFails, api401, Unload, clientVars,
              AdminPanelsOnlyInAdminMode
<1>8. ASSUME NEW c \in Call,
             \/ ReadView(c) \/ loadTenants(c) \/ LoadArrives(c) \/ LoadFails(c)
             \/ Commit(c) \/ ChangeAnswered(c) \/ ChangeFails(c)
      PROVE  AdminPanelsOnlyInAdminMode'
  BY <1>8, SameView DEF ReadView, loadTenants, LoadArrives, LoadFails, Commit,
                        ChangeAnswered, ChangeFails, clientVars
<1>9. CASE UNCHANGED dashboardVars
  BY <1>9, SameView DEF dashboardVars, clientVars
<1> QED
  BY <1>1, <1>2, <1>3, <1>4, <1>5, <1>6, <1>7, <1>8, <1>9
  DEF DashboardNext, createLink, changeLinks, createCustomer,
      switchDeletionAccess

(* routeView, renderDashboard: a panel of Admin mode is open only while    *)
(* the client acts in Admin mode.                                          *)
THEOREM PanelsNeedAdminMode == DashboardSpec => []AdminPanelsOnlyInAdminMode
<1>1. DashboardInit => AdminPanelsOnlyInAdminMode
  BY DEF DashboardInit, AdminPanelsOnlyInAdminMode
<1> QED BY <1>1, PanelsStep, PTL DEF DashboardSpec

-----------------------------------------------------------------------------
(* What loaded views show *)

(* What a request under way is about. *)
CallArgs ==
  \A c \in Call :
    /\ Is(c, "load") =>
         call[c].arg \in Key /\ (call[c].ver # Nil => call[c].mode # Nil)
    /\ Is(c, "mode") => call[c].arg \in Mode
    /\ Is(c, "change") =>
         call[c].arg \in ChangeName /\ Change[call[c].arg].from \in Key

(* Before the first answer nothing is known, and nothing else is asked. *)
MeAlone ==
  /\ user = Nil => \A c \in Call : call[c] # Nil => call[c].kind = "me"
  /\ \A c \in Call : Is(c, "me") =>
       user = Nil /\ \A d \in Call : d # c => call[d] = Nil

Places == view \in Key \cup {"report", Nil}

(* One load of a view at a time. *)
LoneLoads ==
  \A k \in Key \ doubtful : \A c, d \in Loading(k) : c = d

(* The page and the session agree on the mode, and so do the loads and the *)
(* views, unless a switch met them.                                        *)
ModesAgree ==
  /\ user # Nil /\ cookie \notin {user, Nil} => crossed = Key
  /\ \A k \in Key \ crossed : \A c \in Loading(k) :
       call[c].mode \in {user, Nil} /\ (call[c].part = "tenants" => user = "admin")
  /\ \A k \in loaded \ crossed : content[k] # Nil => content[k].mode = user

(* A change of view k is made, and its answer is under way. *)
Unseen(k) == \E c \in Altering(k) : call[c].part = "done"

(* What a load has read, and what is shown, is as of now or unseen. *)
ReadsCurrent ==
  \A k \in Key \ (doubtful \cup crossed) : \A c \in Loading(k) :
    call[c].ver \in {Nil, ver[k]} \/ Unseen(k)
ViewsCurrent ==
  \A k \in loaded \ (doubtful \cup crossed) :
    Loading(k) = {} =>
      Unseen(k) \/ (content[k] # Nil /\ content[k].ver = ver[k])

DashInv ==
  /\ DashboardTypeOK /\ CallArgs /\ MeAlone /\ Places
  /\ LoneLoads /\ ModesAgree /\ ReadsCurrent /\ ViewsCurrent

-----------------------------------------------------------------------------
(* Requests: one slot changes, or all are dropped *)

LEMMA SlotChanges ==
  ASSUME call \in [Call -> CallRecord \cup {Nil}],
         NEW c \in Call, NEW x, call' = [call EXCEPT ![c] = x]
  PROVE  /\ call'[c] = x
         /\ \A d \in Call : d # c => call'[d] = call[d]
         /\ \A k : \A d \in Call : d # c =>
              (d \in Loading(k)' <=> d \in Loading(k)) /\ (d \in Altering(k)' <=> d \in Altering(k))
         /\ \A k : c \in Loading(k)' <=> x # Nil /\ x.kind = "load" /\ x.arg = k
         /\ \A k : c \in Altering(k)' <=>
              x # Nil /\ x.kind = "change" /\ k \in Change[x.arg].alters
<1>1. call'[c] = x /\ \A d \in Call : d # c => call'[d] = call[d]
  OBVIOUS
<1> QED BY <1>1 DEF Loading, Altering, Is

LEMMA NewCallType ==
  ASSUME NEW kind \in {"me", "mode", "change"},
         NEW arg \in Key \cup Mode \cup ChangeName \cup {Nil}, NEW m \in Mode \cup {Nil}
  PROVE  LET x == NewCall(kind, arg, m) IN
         /\ x \in CallRecord /\ x # Nil /\ x.kind = kind /\ x.arg = arg
         /\ x.part = "sent"
<1> DEFINE x == NewCall(kind, arg, m)
<1>1. Nil \notin CallRecord BY DashboardAssumption DEF DashboardAssumption
<1>2. x.kind = kind /\ x.arg = arg /\ x.part = "sent"
  BY DEF NewCall
<1>3. x \in CallRecord
  BY DEF NewCall, CallRecord
<1> QED BY <1>1, <1>2, <1>3

LEMMA RouteType ==
  ASSUME NEW h \in Key \cup {"report"}, NEW m
  PROVE  Route(h, m) \in Key \cup {"report"}
<1>1. "home" \in Key /\ (h \in SuperKey /\ h # "report" => "admin/users" \in Key)
  BY DashboardAssumption DEF DashboardAssumption, SuperKey
<1>2. CASE h = "report"
  BY <1>2 DEF Route, AdminKey, SuperKey
<1>3. CASE h # "report" /\ h \in AdminKey /\ m # "admin"
  BY <1>1, <1>3 DEF Route
<1>4. CASE h # "report" /\ ~(h \in AdminKey /\ m # "admin")
  <2>1. h \in Key BY <1>4
  <2> QED BY <1>1, <1>4, <2>1 DEF Route
<1> QED BY <1>2, <1>3, <1>4

-----------------------------------------------------------------------------
(* One lemma per kind of step *)

(* A request that is no load starts, or one that made no change ends. *)
LEMMA OtherSlotStep ==
  ASSUME DashInv, NEW c \in Call, NEW x \in CallRecord \cup {Nil},
         call' = [call EXCEPT ![c] = x],
         x # Nil => x.kind # "load" /\ x.part = "sent",
         ~Is(c, "load"), Is(c, "change") => call[c].part = "sent",
         CallArgs', MeAlone', page' \in {"login", "app", "left"}, steps' \in Nat,
         UNCHANGED <<cookie, user, hash, view, tenants, loaded, content, ver, historyVars>>
  PROVE  DashInv'
<1>1. /\ call \in [Call -> CallRecord \cup {Nil}] /\ loaded \subseteq Key
      /\ UNCHANGED <<crossed, doubtful>>
  BY DEF DashInv, DashboardTypeOK, historyVars
<1>2. \A k : Loading(k)' = Loading(k) /\ \A d \in Loading(k) : d \in Call /\ call'[d] = call[d]
  BY <1>1, SlotChanges DEF Loading, Is
<1>3. \A k : Unseen(k) => Unseen(k)'
  <2> SUFFICES ASSUME NEW k, Unseen(k) PROVE Unseen(k)'
    OBVIOUS
  <2>1. PICK d \in Altering(k) : call[d].part = "done"
    BY DEF Unseen
  <2>2. d \in Call /\ d # c
    BY <2>1 DEF Altering
  <2>3. d \in Altering(k)' /\ call'[d].part = "done"
    BY <1>1, <2>1, <2>2, SlotChanges
  <2> QED BY <2>3 DEF Unseen
<1>4. DashboardTypeOK'
  BY <1>1 DEF DashInv, DashboardTypeOK
<1>5. Places' /\ LoneLoads'
  BY <1>1, <1>2 DEF DashInv, Places, LoneLoads
<1>6. ModesAgree'
  BY <1>1, <1>2 DEF DashInv, ModesAgree
<1>7. ReadsCurrent' /\ ViewsCurrent'
  BY <1>1, <1>2, <1>3 DEF DashInv, ReadsCurrent, ViewsCurrent
<1> QED BY <1>4, <1>5, <1>6, <1>7 DEF DashInv

(* The page is loaded again, or left. *)
LEMMA UnloadStep ==
  ASSUME DashInv, Unload, cookie' \in Mode \cup {Nil},
         page' \in {"login", "left"}, hash' \in Key \cup {"report"}, steps' \in Nat,
         ver' = ver,
         \/ call' = [d \in Call |-> Nil]
         \/ \E c \in Call : call' = [d \in Call |-> IF d # c THEN Nil
              ELSE NewCall("me", Nil, cookie')]
  PROVE  DashInv'
<1>1. NewCall("me", Nil, cookie') \in CallRecord /\ NewCall("me", Nil, cookie').kind = "me"
  BY NewCallType
<1>2. call' \in [Call -> CallRecord \cup {Nil}]
  BY <1>1
<1>3. \A d \in Call : call'[d] # Nil =>
        call'[d].kind = "me" /\ \A e \in Call : e # d => call'[e] = Nil
  BY <1>1
<1>4. \A k : Loading(k)' = {}
  BY <1>3 DEF Loading, Is
<1>5. DashboardTypeOK'
  BY <1>2 DEF DashInv, DashboardTypeOK, Unload
<1>6. CallArgs' /\ MeAlone' /\ Places'
  BY <1>3 DEF CallArgs, MeAlone, Places, Unload, Is
<1>7. LoneLoads' /\ ModesAgree' /\ ReadsCurrent' /\ ViewsCurrent'
  BY <1>4 DEF LoneLoads, ModesAgree, ReadsCurrent, ViewsCurrent, Unload
<1> QED BY <1>5, <1>6, <1>7 DEF DashInv

(* A route is taken, and its view loaded unless it is loaded already.      *)
LEMMA RouteStep ==
  ASSUME DashInv, NEW c \in Call, NEW h \in Key \cup {"report"}, NEW m \in Mode,
         NEW filled \in BOOLEAN, NEW boot \in BOOLEAN,
         call[c] = Nil \/ call[c].kind \in {"me", "mode"},
         \A d \in Call : d # c => ~Is(d, "me"),
         routeView(c, h, m, loaded', filled, boot),
         page' \in {"login", "app", "left"}, user' = m,
         cookie' \in Mode \cup {Nil}, cookie' \notin {m, Nil} => crossed' = Key,
         hash' \in Key \cup {"report"}, tenants' \in BOOLEAN,
         loaded' \subseteq loaded, crossed' \subseteq Key,
         content' \in [Key -> ShownView \cup {Nil}], ver' = ver, steps' \in Nat,
         \A k \in Key \ crossed' : Loading(k) = {} \/ (user = m /\ k \notin crossed),
         \A k \in loaded' \ crossed' :
           k \notin crossed /\ content'[k] = content[k] /\ user = m
  PROVE  DashInv'
<1> DEFINE v == Route(h, m)
           x == IF v \notin Key \ loaded' THEN Nil
                ELSE NewLoad(v, FirstPart(v, filled), TRUE, boot, cookie')
<1>1. /\ call \in [Call -> CallRecord \cup {Nil}] /\ doubtful \subseteq Key
      /\ loaded \subseteq Key /\ ver \in [Key -> Nat]
  BY DEF DashInv, DashboardTypeOK
<1>2. Nil \notin CallRecord /\ Nil \notin Mode
  BY DashboardAssumption DEF DashboardAssumption
<1>3. v \in Key \cup {"report"} /\ view' = v /\ call' = [call EXCEPT ![c] = x]
  BY RouteType DEF routeView, loadWorkspaceView
<1>4. v \in Key \ loaded' =>
        /\ x \in CallRecord /\ x.kind = "load" /\ x.arg = v
        /\ x.mode = cookie' /\ x.ver = Nil /\ (x.part = "tenants" => m = "admin")
  <2> SUFFICES ASSUME v \in Key \ loaded'
               PROVE  /\ x \in CallRecord /\ x.kind = "load" /\ x.arg = v
                      /\ x.mode = cookie' /\ x.ver = Nil
                      /\ (x.part = "tenants" => m = "admin")
    OBVIOUS
  <2>1. FirstPart(v, filled) \in {"tenants", "own"}
    BY DEF FirstPart
  <2>2. FirstPart(v, filled) = "tenants" => m = "admin"
    BY RouteChecksMode DEF FirstPart
  <2>3. x = NewLoad(v, FirstPart(v, filled), TRUE, boot, cookie')
    OBVIOUS
  <2> HIDE DEF x, v
  <2>4. x \in CallRecord
    BY <2>1, <2>3 DEF NewLoad, CallRecord
  <2>5. /\ x.kind = "load" /\ x.arg = v /\ x.mode = cookie' /\ x.ver = Nil
        /\ x.part = FirstPart(v, filled)
    BY <2>3 DEF NewLoad
  <2> QED BY <2>2, <2>4, <2>5
<1>5. v \notin Key \ loaded' => x = Nil
  OBVIOUS
<1> HIDE DEF x
<1>6. x = Nil <=> v \notin Key \ loaded'
  BY <1>2, <1>4, <1>5
<1>7. doubtful' = IF x = Nil THEN doubtful
               ELSE IF Loading(v) \ {c} = {} THEN doubtful \ {v} ELSE doubtful \cup {v}
  BY <1>6 DEF routeView, Racing
<1>8. /\ call'[c] = x
      /\ \A d \in Call : d # c => call'[d] = call[d]
      /\ \A k : c \notin Loading(k) /\ c \notin Altering(k)
      /\ \A k : \A d \in Call : d # c =>
           (d \in Loading(k)' <=> d \in Loading(k)) /\ (d \in Altering(k)' <=> d \in Altering(k))
      /\ \A k : c \in Loading(k)' <=> x # Nil /\ k = v
  <2>1. \A k : c \notin Loading(k) /\ c \notin Altering(k)
    BY <1>1 DEF Loading, Altering, Is
  <2>2. call \in [Call -> CallRecord \cup {Nil}] /\ call' = [call EXCEPT ![c] = x]
    BY <1>1, <1>3
  <2> HIDE DEF v
  <2>3. /\ call'[c] = x
        /\ \A d \in Call : d # c => call'[d] = call[d]
    BY <2>2
  <2>4. \A k : \A d \in Call : d # c =>
           (d \in Loading(k)' <=> d \in Loading(k)) /\ (d \in Altering(k)' <=> d \in Altering(k))
    BY <2>3 DEF Loading, Altering, Is
  <2>5. \A k : c \in Loading(k)' <=> x # Nil /\ k = v
    BY <1>4, <1>6, <2>3 DEF Loading, Is
  <2> QED BY <2>1, <2>3, <2>4, <2>5
<1>9. \A k : Loading(k) \subseteq Call /\ Loading(k)' \subseteq Call
  BY DEF Loading
<1>10. \A k : Unseen(k) => Unseen(k)'
  BY <1>8 DEF Unseen, Altering
<1>11. DashboardTypeOK'
  <2>1. call' \in [Call -> CallRecord \cup {Nil}]
    BY <1>1, <1>3, <1>4, <1>6
  <2>2. doubtful' \subseteq Key
    BY <1>1, <1>7, <1>4, <1>6
  <2>3. view' \in ViewKey \cup {"report", Nil}
    BY <1>3, DashboardAssumption DEF DashboardAssumption
  <2> QED BY <2>1, <2>2, <2>3, <1>1, <1>3 DEF DashboardTypeOK
<1>12. CallArgs' /\ MeAlone' /\ Places'
  <2>1. CallArgs'
    BY <1>4, <1>6, <1>8 DEF DashInv, CallArgs, Is
  <2>2. MeAlone'
    BY <1>2, <1>4, <1>6, <1>8 DEF MeAlone, Is
  <2> QED BY <1>3, <2>1, <2>2 DEF Places
<1>13. LoneLoads'
  BY <1>7, <1>8, <1>9 DEF DashInv, LoneLoads
<1>14. ModesAgree'
  <2>1. ASSUME NEW k \in Key \ crossed', NEW d \in Loading(k)'
        PROVE  call'[d].mode \in {user', Nil} /\ (call'[d].part = "tenants" => user' = "admin")
    <3>1. CASE d = c
      <4>1. crossed' # Key
        BY <2>1
      <4> QED BY <1>4, <1>6, <1>8, <2>1, <3>1, <4>1
    <3>2. CASE d # c
      BY <1>8, <1>9, <2>1, <3>2 DEF DashInv, ModesAgree
    <3> QED BY <3>1, <3>2
  <2>2. \A k \in loaded' \ crossed' : content'[k] # Nil => content'[k].mode = user'
    BY DEF DashInv, ModesAgree
  <2> QED BY <2>1, <2>2 DEF ModesAgree
<1>15. ReadsCurrent'
  <2> SUFFICES ASSUME NEW k \in Key, k \notin doubtful', k \notin crossed', NEW d \in Loading(k)'
               PROVE  call'[d].ver \in {Nil, ver[k]} \/ Unseen(k)'
    BY DEF ReadsCurrent
  <2>1. CASE d = c
    BY <1>4, <1>6, <1>8, <2>1
  <2>2. CASE d # c
    <3>1. d \in Loading(k) /\ call'[d] = call[d] /\ k \notin crossed
      BY <1>8, <1>9, <2>2
    <3>2. k \notin doubtful
      BY <1>7, <1>8, <2>2, <3>1
    <3> QED BY <1>10, <3>1, <3>2 DEF DashInv, ReadsCurrent
  <2> QED BY <2>1, <2>2
<1>16. ViewsCurrent'
  <2> SUFFICES ASSUME NEW k \in loaded', k \notin doubtful', k \notin crossed', Loading(k)' = {}
               PROVE  Unseen(k)' \/ (content'[k] # Nil /\ content'[k].ver = ver[k])
    BY DEF ViewsCurrent
  <2>1. Loading(k) = {} /\ k \notin crossed /\ content'[k] = content[k] /\ k \in loaded
    BY <1>8, <1>9
  <2>2. k \notin doubtful
    BY <1>7, <1>4, <1>6
  <2> QED BY <1>10, <2>1, <2>2 DEF DashInv, ViewsCurrent
<1> QED BY <1>11, <1>12, <1>13, <1>14, <1>15, <1>16 DEF DashInv

(* The server reads what a load shows. *)
LEMMA ReadStep ==
  ASSUME DashInv, NEW c \in Call, ReadView(c)
  PROVE  DashInv'
<1> DEFINE v == call[c].arg
           x == [call[c] EXCEPT !.ver = ver[v]]
<1>1. /\ call \in [Call -> CallRecord \cup {Nil}] /\ ver \in [Key -> Nat]
      /\ v \in Key /\ Is(c, "load") /\ call[c] \in CallRecord /\ call[c].mode # Nil
      /\ call[c].part = "own"
  BY DEF DashInv, DashboardTypeOK, CallArgs, ReadView, Is
<1>2. call' = [call EXCEPT ![c] = x]
  BY DEF ReadView
<1>3. /\ x \in CallRecord /\ x # Nil /\ x.kind = "load" /\ x.arg = v
      /\ x.part = call[c].part /\ x.mode = call[c].mode /\ x.ver = ver[v]
  BY <1>1, DashboardAssumption DEF CallRecord, DashboardAssumption, Is
<1> HIDE DEF x
<1>4. call'[c] = x /\ \A d \in Call : d # c => call'[d] = call[d]
  BY <1>1, <1>2
<1>5. \A k : Loading(k)' = Loading(k) /\ Altering(k)' = Altering(k) /\ c \notin Altering(k)
  BY <1>1, <1>3, <1>4 DEF Loading, Altering, Is
<1>6. \A k : Unseen(k) => Unseen(k)'
  BY <1>4, <1>5 DEF Unseen, Altering
<1>7. UNCHANGED <<cookie, page, user, hash, view, tenants, loaded, content, ver,
                  crossed, doubtful, steps>>
  BY DEF ReadView, clientVars, historyVars
<1>8. \A k : \A d \in Loading(k) : d \in Call
  BY DEF Loading
<1>9. DashboardTypeOK'
  BY <1>1, <1>2, <1>3, <1>7 DEF DashInv, DashboardTypeOK
<1>10. CallArgs' /\ MeAlone' /\ Places' /\ LoneLoads'
  <2>1. CallArgs'
    BY <1>1, <1>3, <1>4 DEF DashInv, CallArgs, Is
  <2>2. MeAlone'
    BY <1>1, <1>3, <1>4, <1>7 DEF DashInv, MeAlone, Is
  <2> QED BY <2>1, <2>2, <1>5, <1>7 DEF DashInv, Places, LoneLoads
<1>11. ModesAgree'
  <2>1. ASSUME NEW k \in Key \ crossed', NEW d \in Loading(k)'
        PROVE  call'[d].mode \in {user', Nil} /\ (call'[d].part = "tenants" => user' = "admin")
    <3>1. call'[d].mode = call[d].mode /\ call'[d].part = call[d].part /\ d \in Loading(k)
      BY <1>3, <1>4, <1>5, <1>8
    <3> QED BY <1>7, <3>1 DEF DashInv, ModesAgree
  <2> QED BY <1>7, <2>1 DEF DashInv, ModesAgree
<1>12. ReadsCurrent'
  <2> SUFFICES ASSUME NEW k \in Key, k \notin doubtful, k \notin crossed, NEW d \in Loading(k)
               PROVE  call'[d].ver \in {Nil, ver[k]} \/ Unseen(k)'
    BY <1>5, <1>7 DEF ReadsCurrent
  <2>1. CASE d = c
    BY <1>3, <1>4, <2>1 DEF Loading
  <2>2. CASE d # c
    BY <1>4, <1>6, <1>8, <2>2 DEF DashInv, ReadsCurrent
  <2> QED BY <2>1, <2>2
<1>13. ViewsCurrent'
  BY <1>5, <1>6, <1>7 DEF DashInv, ViewsCurrent
<1> QED BY <1>9, <1>10, <1>11, <1>12, <1>13 DEF DashInv

(* A load ends: what it leaves is right, or is counted as doubtful. *)
LEMMA LoadEnds ==
  ASSUME DashInv, NEW c \in Call, Is(c, "load"), call' = [call EXCEPT ![c] = Nil],
         page' \in {"login", "app", "left"}, tenants' \in BOOLEAN,
         loaded' \subseteq loaded \cup {call[c].arg}, doubtful \subseteq doubtful', doubtful' \subseteq Key,
         content' \in [Key -> ShownView \cup {Nil}],
         \A k \in Key : k # call[c].arg => content'[k] = content[k],
         call[c].arg \in loaded' \ crossed =>
           (content'[call[c].arg] # Nil => content'[call[c].arg].mode = user),
         call[c].arg \in loaded' \ (doubtful' \cup crossed) =>
           \/ Unseen(call[c].arg)
           \/ content'[call[c].arg] # Nil /\ content'[call[c].arg].ver = ver[call[c].arg],
         UNCHANGED <<cookie, user, hash, view, ver, crossed, steps>>
  PROVE  DashInv'
<1> DEFINE v == call[c].arg
<1>1. /\ call \in [Call -> CallRecord \cup {Nil}]
      /\ loaded \subseteq Key /\ v \in Key
  BY DEF DashInv, DashboardTypeOK, CallArgs
<1>2. call'[c] = Nil /\ \A d \in Call : d # c => call'[d] = call[d]
  BY <1>1
<1>3. \A k : Loading(k)' = Loading(k) \ {c} /\ Altering(k)' = Altering(k) /\ c \notin Altering(k)
  BY <1>2 DEF Loading, Altering, Is
<1>4. \A k : Unseen(k) => Unseen(k)'
  BY <1>2, <1>3 DEF Unseen, Altering
<1>5. \A k : \A d \in Loading(k)' : d \in Call /\ d \in Loading(k) /\ call'[d] = call[d]
  BY <1>2, <1>3 DEF Loading
<1>6. DashboardTypeOK'
  BY <1>1 DEF DashInv, DashboardTypeOK
<1>7. CallArgs' /\ MeAlone' /\ Places' /\ LoneLoads'
  <2>1. CallArgs'
    BY <1>2 DEF DashInv, CallArgs, Is
  <2>2. MeAlone'
    BY <1>2 DEF DashInv, MeAlone, Is
  <2> QED BY <2>1, <2>2, <1>3 DEF DashInv, Places, LoneLoads
<1>8. ModesAgree'
  <2>1. \A k \in loaded' \ crossed : content'[k] # Nil => content'[k].mode = user
    BY <1>1 DEF DashInv, ModesAgree
  <2> QED BY <1>5, <2>1 DEF DashInv, ModesAgree
<1>9. ReadsCurrent'
  BY <1>4, <1>5 DEF DashInv, ReadsCurrent
<1>10. ViewsCurrent'
  <2> SUFFICES ASSUME NEW k \in loaded', k \notin doubtful', k \notin crossed, Loading(k)' = {}
               PROVE  Unseen(k)' \/ (content'[k] # Nil /\ content'[k].ver = ver[k])
    BY DEF ViewsCurrent
  <2>1. CASE k = v
    BY <1>4, <2>1
  <2>2. CASE k # v
    <3>1. Loading(k) = {}
      BY <1>3, <2>2 DEF Loading
    <3>2. k \in loaded /\ k \notin doubtful /\ content'[k] = content[k]
      BY <1>1, <2>2
    <3> QED BY <1>4, <3>1, <3>2 DEF DashInv, ViewsCurrent
  <2> QED BY <2>1, <2>2
<1> QED BY <1>6, <1>7, <1>8, <1>9, <1>10 DEF DashInv

LEMMA ArriveStep ==
  ASSUME DashInv, NEW c \in Call, LoadArrives(c)
  PROVE  DashInv'
<1> DEFINE v == call[c].arg
<1>1. /\ Is(c, "load") /\ v \in Key /\ call[c].ver # Nil /\ call[c].mode # Nil
      /\ call[c] \in CallRecord /\ c \in Loading(v)
      /\ call[c].mode \in Mode /\ call[c].ver \in Nat
      /\ content \in [Key -> ShownView \cup {Nil}] /\ doubtful \subseteq Key
      /\ page \in {"login", "app", "left"} /\ tenants \in BOOLEAN
  BY DEF DashInv, DashboardTypeOK, CallArgs, LoadArrives, CallRecord, Is, Loading
<1> DEFINE s == [mode |-> call[c].mode, ver |-> call[c].ver]
<1>2. s \in ShownView /\ s # Nil /\ s.mode = call[c].mode /\ s.ver = call[c].ver
  BY <1>1, DashboardAssumption DEF ShownView, DashboardAssumption
<1> HIDE DEF s
<1>3. content' = [content EXCEPT ![v] = s]
  BY DEF LoadArrives, s
<1>4. /\ content' \in [Key -> ShownView \cup {Nil}] /\ content'[v] = s
      /\ \A k \in Key : k # v => content'[k] = content[k]
  BY <1>1, <1>2, <1>3
<1>5. v \notin crossed => s.mode = user
  BY <1>1, <1>2 DEF DashInv, ModesAgree
<1>6. v \notin doubtful \cup crossed => Unseen(v) \/ s.ver = ver[v]
  BY <1>1, <1>2 DEF DashInv, ReadsCurrent
<1>7. /\ UNCHANGED <<cookie, page, user, hash, view, tenants, ver, crossed, doubtful, steps>>
      /\ call' = [call EXCEPT ![c] = Nil] /\ loaded' \subseteq loaded \cup {v}
  BY DEF LoadArrives, historyVars
<1> QED BY <1>1, <1>2, <1>4, <1>5, <1>6, <1>7, LoadEnds

LEMMA FailStep ==
  ASSUME DashInv, NEW c \in Call, LoadFails(c)
  PROVE  DashInv'
<1> DEFINE v == call[c].arg
           caught == v = "admin/runtime" /\ call[c].part = "own"
<1>1. /\ Is(c, "load") /\ v \in Key
      /\ content \in [Key -> ShownView \cup {Nil}] /\ doubtful \subseteq Key
      /\ page \in {"login", "app", "left"} /\ tenants \in BOOLEAN
  BY DEF DashInv, DashboardTypeOK, CallArgs, LoadFails
<1>2. /\ page' \in {"login", "app", "left"} /\ doubtful' = doubtful \cup {v}
      /\ call' = [call EXCEPT ![c] = Nil]
      /\ UNCHANGED <<cookie, user, hash, view, tenants, ver, crossed, steps>>
  BY <1>1 DEF LoadFails
<1>3. CASE caught
  <2>1. content' = [content EXCEPT ![v] = Nil] /\ loaded' \subseteq loaded \cup {v}
    BY <1>3 DEF LoadFails
  <2>2. /\ content' \in [Key -> ShownView \cup {Nil}] /\ content'[v] = Nil
        /\ \A k \in Key : k # v => content'[k] = content[k]
    BY <1>1, <2>1
  <2> QED BY <1>1, <1>2, <2>1, <2>2, LoadEnds
<1>4. CASE ~caught
  <2>1. content' = content /\ loaded' = loaded
    BY <1>4 DEF LoadFails
  <2>2. v \in loaded \ crossed => (content[v] # Nil => content[v].mode = user)
    BY DEF DashInv, ModesAgree
  <2> QED BY <1>1, <1>2, <2>1, <2>2, LoadEnds
<1> QED BY <1>3, <1>4

(* The departments have come: the panel is loaded, or shown as it is. *)
LEMMA TenantsStep ==
  ASSUME DashInv, NEW c \in Call, loadTenants(c)
  PROVE  DashInv'
<1> DEFINE v == call[c].arg
           x == NewLoad(v, "own", TRUE, call[c].boot, cookie)
<1>1. /\ Is(c, "load") /\ v \in Key /\ call[c].part = "tenants"
      /\ call \in [Call -> CallRecord \cup {Nil}] /\ call[c] \in CallRecord
      /\ call[c].boot \in BOOLEAN /\ cookie \in Mode \cup {Nil}
      /\ content \in [Key -> ShownView \cup {Nil}] /\ doubtful \subseteq Key
      /\ page \in {"login", "app", "left"} /\ c \in Loading(v)
  BY DEF DashInv, DashboardTypeOK, CallArgs, loadTenants, Is, Loading, CallRecord
<1>2. /\ UNCHANGED <<cookie, page, user, hash, view, content, ver, crossed, doubtful, steps>>
      /\ tenants' = TRUE
  BY DEF loadTenants, historyVars
<1>3. v \in Key \ crossed => user = "admin"
  BY <1>1 DEF DashInv, ModesAgree
<1>4. CASE user # "admin"
  <2>1. call' = [call EXCEPT ![c] = Nil] /\ loaded' = loaded \cup {v}
    BY <1>4 DEF loadTenants
  <2> QED BY <1>1, <1>2, <1>3, <1>4, <2>1, LoadEnds
<1>5. CASE user = "admin"
  <2>1. call' = [call EXCEPT ![c] = x] /\ loaded' = loaded
    BY <1>1, <1>5 DEF loadTenants
  <2>2. x \in CallRecord
    BY <1>1 DEF NewLoad, CallRecord
  <2>3. /\ x # Nil /\ x.kind = "load" /\ x.arg = v /\ x.part = "own"
        /\ x.mode = cookie /\ x.ver = Nil
    BY <2>2, DashboardAssumption DEF NewLoad, DashboardAssumption
  <2> HIDE DEF x
  <2>4. call'[c] = x /\ \A d \in Call : d # c => call'[d] = call[d]
    BY <1>1, <2>1
  <2>5. \A k : Loading(k)' = Loading(k) /\ Altering(k)' = Altering(k) /\ c \notin Altering(k)
    BY <1>1, <2>3, <2>4 DEF Loading, Altering, Is
  <2>6. \A k : Unseen(k) => Unseen(k)'
    BY <2>4, <2>5 DEF Unseen, Altering
  <2>7. \A k : \A d \in Loading(k) : d \in Call
    BY DEF Loading
  <2>8. DashboardTypeOK'
    BY <1>1, <1>2, <2>1, <2>2 DEF DashInv, DashboardTypeOK
  <2>9. CallArgs' /\ MeAlone' /\ Places' /\ LoneLoads'
    <3>1. CallArgs'
      BY <1>1, <2>3, <2>4 DEF DashInv, CallArgs, Is
    <3>2. MeAlone'
      BY <1>1, <1>2, <2>3, <2>4 DEF DashInv, MeAlone, Is
    <3> QED BY <3>1, <3>2, <1>2, <2>5 DEF DashInv, Places, LoneLoads
  <2>10. ModesAgree'
    <3>1. ASSUME NEW k \in Key, k \notin crossed, NEW d \in Loading(k)'
          PROVE  call'[d].mode \in {user, Nil} /\ (call'[d].part = "tenants" => user = "admin")
      <4>1. CASE d = c
        <5>1. cookie \in {user, Nil}
          BY <1>5, <3>1, DashboardAssumption DEF DashInv, ModesAgree, DashboardAssumption, Mode
        <5> QED BY <1>5, <2>3, <2>4, <4>1, <5>1
      <4>2. CASE d # c
        BY <2>4, <2>5, <2>7, <3>1, <4>2 DEF DashInv, ModesAgree
      <4> QED BY <4>1, <4>2
    <3> QED BY <1>2, <2>1, <3>1 DEF DashInv, ModesAgree
  <2>11. ReadsCurrent'
    <3> SUFFICES ASSUME NEW k \in Key, k \notin doubtful, k \notin crossed, NEW d \in Loading(k)
                 PROVE  call'[d].ver \in {Nil, ver[k]} \/ Unseen(k)'
      BY <1>2, <2>5 DEF ReadsCurrent
    <3>1. CASE d = c
      BY <2>3, <2>4, <3>1
    <3>2. CASE d # c
      BY <2>4, <2>6, <2>7, <3>2 DEF DashInv, ReadsCurrent
    <3> QED BY <3>1, <3>2
  <2>12. ViewsCurrent'
    BY <1>2, <2>1, <2>5, <2>6 DEF DashInv, ViewsCurrent
  <2> QED BY <2>8, <2>9, <2>10, <2>11, <2>12 DEF DashInv
<1> QED BY <1>4, <1>5

(* The changes: what they alter is forgotten or loaded again. *)
LEMMA ChangeForgetsReloadsOrLeaves ==
  ASSUME NEW n \in ChangeName
  PROVE  /\ Change[n].alters \subseteq
              Change[n].forgets \cup {Change[n].reloads} \cup Change[n].leaves
         /\ Change[n].reloads = Change[n].from
<1>1. n \in {"createLink", "changeLinks", "createCustomer", "setDeletionAccess"}
  BY DEF ChangeName, Change
<1>2. CASE n = "createLink"
  BY <1>2 DEF Change
<1>3. CASE n = "changeLinks"
  BY <1>3 DEF Change, ForgottenByLinks
<1>4. CASE n = "createCustomer"
  BY <1>4 DEF Change
<1>5. CASE n = "setDeletionAccess"
  BY <1>5 DEF Change
<1> QED BY <1>1, <1>2, <1>3, <1>4, <1>5

LEMMA CommitStep ==
  ASSUME DashInv, NEW c \in Call, Commit(c)
  PROVE  DashInv'
<1> DEFINE n == call[c].arg
           x == [call[c] EXCEPT !.part = "done"]
<1>1. /\ call \in [Call -> CallRecord \cup {Nil}] /\ ver \in [Key -> Nat]
      /\ Is(c, "change") /\ call[c] \in CallRecord /\ call[c].part = "sent"
  BY DEF DashInv, DashboardTypeOK, Commit, Is
<1>2. call' = [call EXCEPT ![c] = x]
  BY DEF Commit
<1>3. /\ x \in CallRecord /\ x # Nil /\ x.kind = "change" /\ x.arg = n /\ x.part = "done"
  BY <1>1, DashboardAssumption DEF CallRecord, DashboardAssumption, Is
<1> HIDE DEF x
<1>4. call'[c] = x /\ \A d \in Call : d # c => call'[d] = call[d]
  BY <1>1, <1>2
<1>5. \A k : Loading(k)' = Loading(k) /\ Altering(k)' = Altering(k) /\ c \notin Loading(k)
  BY <1>1, <1>3, <1>4 DEF Loading, Altering, Is
<1>6. \A k : Unseen(k) => Unseen(k)'
  BY <1>1, <1>4, <1>5 DEF Unseen, Altering
<1>7. UNCHANGED <<cookie, page, user, hash, view, tenants, loaded, content,
                  crossed, doubtful, steps>>
  BY DEF Commit, clientVars, historyVars
<1>8. \A k \in Key : Unseen(k)' \/ ver'[k] = ver[k]
  <2> SUFFICES ASSUME NEW k \in Key, ver'[k] # ver[k]
               PROVE  Unseen(k)'
    OBVIOUS
  <2>1. k \in Change[n].alters
    BY DEF Commit
  <2>2. c \in Altering(k)
    BY <1>1, <2>1 DEF Altering
  <2> QED BY <1>3, <1>4, <1>5, <2>2 DEF Unseen
<1>9. ver' \in [Key -> Nat]
  BY <1>1 DEF Commit
<1>10. \A k : \A d \in Loading(k)' : d \in Loading(k) /\ call'[d] = call[d]
  BY <1>4, <1>5 DEF Loading
<1>11. DashboardTypeOK'
  BY <1>1, <1>2, <1>3, <1>7, <1>9 DEF DashInv, DashboardTypeOK
<1>12. CallArgs' /\ MeAlone' /\ Places' /\ LoneLoads'
  <2>1. CallArgs'
    BY <1>1, <1>3, <1>4 DEF DashInv, CallArgs, Is
  <2>2. MeAlone'
    BY <1>1, <1>3, <1>4, <1>7 DEF DashInv, MeAlone, Is
  <2> QED BY <2>1, <2>2, <1>5, <1>7 DEF DashInv, Places, LoneLoads
<1>13. ModesAgree'
  BY <1>7, <1>10 DEF DashInv, ModesAgree
<1>14. ReadsCurrent'
  BY <1>6, <1>7, <1>8, <1>10 DEF DashInv, ReadsCurrent
<1>15. ViewsCurrent'
  <2>1. loaded \subseteq Key
    BY DEF DashInv, DashboardTypeOK
  <2> QED BY <2>1, <1>5, <1>6, <1>7, <1>8 DEF DashInv, ViewsCurrent
<1> QED BY <1>11, <1>12, <1>13, <1>14, <1>15 DEF DashInv

LEMMA AnsweredStep ==
  ASSUME DashInv, NEW c \in Call, ChangeAnswered(c)
  PROVE  DashInv'
<1> DEFINE n == call[c].arg
           v == Change[n].reloads
           x == NewLoad(v, "own", FALSE, FALSE, cookie)
<1>1. /\ call \in [Call -> CallRecord \cup {Nil}] /\ ver \in [Key -> Nat]
      /\ Is(c, "change") /\ n \in ChangeName /\ v \in Key
      /\ cookie \in Mode \cup {Nil} /\ doubtful \subseteq Key /\ loaded \subseteq Key
  BY ChangeForgetsReloadsOrLeaves DEF DashInv, DashboardTypeOK, CallArgs, ChangeAnswered
<1>2. Change[n].alters \subseteq Change[n].forgets \cup {v} \cup Change[n].leaves
  BY <1>1, ChangeForgetsReloadsOrLeaves
<1>3. /\ call' = [call EXCEPT ![c] = x] /\ loaded' = loaded \ Change[n].forgets
      /\ doubtful' = (doubtful \cup (Change[n].forgets \cap Busy) \cup {v} \cup
                        (Change[n].leaves \cap Key)) \ (IF Loading(v) = {} THEN {v} ELSE {})
      /\ UNCHANGED <<cookie, page, user, hash, view, tenants, content, ver, crossed, steps>>
  BY DEF ChangeAnswered
<1> HIDE DEF v
<1>4. x \in CallRecord
  BY <1>1 DEF NewLoad, CallRecord
<1>5. /\ x # Nil /\ x.kind = "load" /\ x.arg = v /\ x.part = "own"
      /\ x.mode = cookie /\ x.ver = Nil
  BY <1>4, DashboardAssumption DEF NewLoad, DashboardAssumption
<1> HIDE DEF x
<1>6. call'[c] = x /\ \A d \in Call : d # c => call'[d] = call[d]
  BY <1>1, <1>3
<1>7. \A k : /\ Loading(k)' = IF k = v THEN Loading(k) \cup {c} ELSE Loading(k)
             /\ Altering(k)' = Altering(k) \ {c} /\ c \notin Loading(k)
             /\ c \in Altering(k) => k \in Change[n].alters
             /\ \A d \in Loading(k) : d \in Call
  BY <1>1, <1>5, <1>6 DEF Loading, Altering, Is
<1>8. \A k : Unseen(k) /\ k \notin Change[n].alters => Unseen(k)'
  BY <1>6, <1>7 DEF Unseen, Altering
<1>9. user # Nil
  BY <1>1 DEF DashInv, MeAlone, Is
<1>10. DashboardTypeOK'
  <2>1. call' \in [Call -> CallRecord \cup {Nil}] /\ doubtful' \subseteq Key /\ loaded' \subseteq Key
    BY <1>1, <1>3, <1>4 DEF Busy
  <2> QED BY <1>3, <2>1 DEF DashInv, DashboardTypeOK
<1>11. CallArgs' /\ MeAlone' /\ Places'
  <2>1. CallArgs'
    BY <1>1, <1>5, <1>6 DEF DashInv, CallArgs, Is
  <2>2. MeAlone'
    BY <1>1, <1>3, <1>5, <1>6, <1>9 DEF DashInv, MeAlone, Is
  <2> QED BY <2>1, <2>2, <1>3 DEF DashInv, Places
<1>12. \A k \in Key \ doubtful' :
         \/ k = v /\ Loading(k) = {} /\ Loading(k)' = {c}
         \/ k # v /\ k \notin doubtful /\ Loading(k)' = Loading(k)
              /\ (k \in Change[n].forgets => Loading(k) = {})
              /\ k \notin Change[n].leaves
  BY <1>3, <1>7 DEF Busy
<1>13. LoneLoads'
  BY <1>12 DEF DashInv, LoneLoads
<1>14. ModesAgree'
  <2>1. ASSUME NEW k \in Key, k \notin crossed, NEW d \in Loading(k)'
        PROVE  call'[d].mode \in {user, Nil} /\ (call'[d].part = "tenants" => user = "admin")
    <3>1. CASE d = c
      <4>1. cookie \in {user, Nil}
        BY <1>9, <2>1 DEF DashInv, ModesAgree
      <4> QED BY <1>5, <1>6, <3>1, <4>1
    <3>2. CASE d # c
      <4>1. d \in Loading(k) /\ call'[d] = call[d]
        BY <1>6, <1>7, <2>1, <3>2
      <4> QED BY <2>1, <4>1 DEF DashInv, ModesAgree
    <3> QED BY <3>1, <3>2
  <2> QED BY <1>3, <2>1 DEF DashInv, ModesAgree
<1>15. ReadsCurrent'
  <2> SUFFICES ASSUME NEW k \in Key \ doubtful', k \notin crossed, NEW d \in Loading(k)'
               PROVE  call'[d].ver \in {Nil, ver[k]} \/ Unseen(k)'
    BY <1>3 DEF ReadsCurrent
  <2>1. CASE k = v
    BY <1>5, <1>6, <1>12, <2>1
  <2>2. CASE k # v
    <3>1. d \in Loading(k) /\ k \notin doubtful /\ call'[d] = call[d] /\ k \notin Change[n].alters
      BY <1>2, <1>6, <1>7, <1>12, <2>2
    <3> QED BY <1>8, <3>1 DEF DashInv, ReadsCurrent
  <2> QED BY <2>1, <2>2
<1>16. ViewsCurrent'
  <2> SUFFICES ASSUME NEW k \in loaded', k \notin doubtful', k \notin crossed, Loading(k)' = {}
               PROVE  Unseen(k)' \/ (content[k] # Nil /\ content[k].ver = ver[k])
    BY <1>3 DEF ViewsCurrent
  <2>1. k # v /\ k \notin doubtful /\ Loading(k) = {} /\ k \in loaded
        /\ k \notin Change[n].forgets /\ k \notin Change[n].leaves
    BY <1>1, <1>3, <1>12
  <2>2. k \notin Change[n].alters
    BY <1>2, <2>1
  <2> QED BY <1>8, <2>1, <2>2 DEF DashInv, ViewsCurrent
<1> QED BY <1>10, <1>11, <1>13, <1>14, <1>15, <1>16 DEF DashInv

LEMMA ChangeFailsStep ==
  ASSUME DashInv, NEW c \in Call, ChangeFails(c)
  PROVE  DashInv'
<1> DEFINE n == call[c].arg
<1>1. /\ call \in [Call -> CallRecord \cup {Nil}] /\ Is(c, "change") /\ doubtful \subseteq Key
      /\ loaded \subseteq Key
  BY DEF DashInv, DashboardTypeOK, ChangeFails
<1>2. /\ call' = [call EXCEPT ![c] = Nil]
      /\ doubtful' = IF call[c].part = "sent" THEN doubtful
                  ELSE doubtful \cup (Change[n].alters \cap Key)
      /\ UNCHANGED <<cookie, page, user, hash, view, tenants, loaded, content, ver,
                     crossed, steps>>
  BY DEF ChangeFails, clientVars
<1>3. call'[c] = Nil /\ \A d \in Call : d # c => call'[d] = call[d]
  BY <1>1, <1>2
<1>4. \A k : Loading(k)' = Loading(k) /\ Altering(k)' = Altering(k) \ {c} /\ c \notin Loading(k)
  BY <1>1, <1>3 DEF Loading, Altering, Is
<1>5. \A k \in Key \ doubtful' : k \notin doubtful /\ (Unseen(k) => Unseen(k)')
  <2> SUFFICES ASSUME NEW k \in Key, k \notin doubtful'
               PROVE  k \notin doubtful /\ (Unseen(k) => Unseen(k)')
    OBVIOUS
  <2>1. k \notin doubtful
    BY <1>2
  <2>2. c \in Altering(k) => call[c].part = "sent"
    BY <1>2 DEF Altering
  <2> QED BY <1>3, <1>4, <2>1, <2>2 DEF Unseen, Altering
<1>6. \A k : \A d \in Loading(k) : call'[d] = call[d]
  BY <1>3, <1>4 DEF Loading
<1>7. DashboardTypeOK'
  <2>1. call' \in [Call -> CallRecord \cup {Nil}] /\ doubtful' \subseteq Key
    BY <1>1, <1>2
  <2> QED BY <1>2, <2>1 DEF DashInv, DashboardTypeOK
<1>8. CallArgs' /\ MeAlone' /\ Places'
  <2>1. CallArgs'
    BY <1>3 DEF DashInv, CallArgs, Is
  <2>2. MeAlone'
    BY <1>2, <1>3 DEF DashInv, MeAlone, Is
  <2> QED BY <1>2, <2>1, <2>2 DEF DashInv, Places
<1>9. LoneLoads' /\ ModesAgree'
  BY <1>2, <1>4, <1>5, <1>6 DEF DashInv, LoneLoads, ModesAgree
<1>10. ReadsCurrent' /\ ViewsCurrent'
  BY <1>1, <1>2, <1>4, <1>5, <1>6 DEF DashInv, ReadsCurrent, ViewsCurrent
<1> QED BY <1>7, <1>8, <1>9, <1>10 DEF DashInv

(* A route, a mode switch and the answer of /api/v1/me. *)
LEMMA HashStep ==
  ASSUME DashInv, NEW h \in Key \cup {"report"}, onHashChange(h)
  PROVE  DashInv'
<1>1. PICK c \in Call : call[c] = Nil /\ routeView(c, h, user, loaded, tenants, FALSE)
  BY DEF onHashChange
<1>2. /\ user \in Mode /\ cookie \in Mode \cup {Nil} /\ tenants \in BOOLEAN
      /\ content \in [Key -> ShownView \cup {Nil}] /\ crossed \subseteq Key /\ steps' \in Nat
      /\ page \in {"login", "app", "left"}
  BY DEF DashInv, DashboardTypeOK, onHashChange, Step
<1>3. /\ hash' = h
      /\ UNCHANGED <<cookie, page, user, tenants, loaded, content, ver, crossed>>
  BY DEF onHashChange
<1>4. \A d \in Call : ~Is(d, "me")
  BY <1>2, DashboardAssumption DEF DashInv, MeAlone, DashboardAssumption
<1>5. cookie \notin {user, Nil} => crossed = Key
  BY <1>2, DashboardAssumption DEF DashInv, ModesAgree, DashboardAssumption
<1>6. routeView(c, h, user, loaded', tenants, FALSE)
  BY <1>1, <1>3
<1> QED BY <1>1, <1>2, <1>3, <1>4, <1>5, <1>6, RouteStep

LEMMA RenderStep ==
  ASSUME DashInv, NEW c \in Call, NEW m \in Mode, NEW boot \in BOOLEAN,
         Is(c, "me") \/ Is(c, "mode"), renderDashboard(c, m, boot),
         cookie' \in Mode \cup {Nil}, cookie' \notin {m, Nil} => crossed' = Key,
         crossed' \subseteq Key, \A k \in Key \ crossed' : Loading(k) = {},
         ver' = ver, steps' \in Nat
  PROVE  DashInv'
<1>1. /\ hash \in Key \cup {"report"} /\ content \in [Key -> ShownView \cup {Nil}]
      /\ loaded \subseteq Key
  BY DEF DashInv, DashboardTypeOK
<1>2. /\ page' = "app" /\ user' = m /\ tenants' = FALSE /\ loaded' = {} /\ hash' = hash
      /\ content' = [k \in Key |-> IF k \in AdminKey THEN Nil ELSE content[k]]
      /\ routeView(c, hash, m, loaded', FALSE, boot)
  BY DEF renderDashboard
<1>3. content' \in [Key -> ShownView \cup {Nil}]
  BY <1>1, <1>2
<1>4. call[c].kind \in {"me", "mode"} /\ \A d \in Call : d # c => ~Is(d, "me")
  BY DEF DashInv, MeAlone, Is
<1>5. /\ page' \in {"login", "app", "left"} /\ tenants' \in BOOLEAN
      /\ hash' \in Key \cup {"report"} /\ loaded' \subseteq loaded
      /\ \A k \in Key \ crossed' : Loading(k) = {} \/ (user = m /\ k \notin crossed)
      /\ \A k \in loaded' \ crossed' :
           k \notin crossed /\ content'[k] = content[k] /\ user = m
  BY <1>1, <1>2
<1>6. PICK filled \in BOOLEAN : routeView(c, hash, m, loaded', filled, boot)
  BY <1>2
<1>7. call[c] = Nil \/ call[c].kind \in {"me", "mode"}
  BY <1>4
<1> QED BY <1>1, <1>2, <1>3, <1>4, <1>5, <1>6, <1>7, RouteStep

LEMMA ShowStep ==
  ASSUME DashInv, NEW c \in Call, showDash(c) \/ ModeSwitched(c)
  PROVE  DashInv'
<1>1. /\ call[c] \in CallRecord /\ steps \in Nat /\ cookie \in Mode \cup {Nil}
  BY DEF DashInv, DashboardTypeOK, showDash, ModeSwitched, Is
<1>2. CASE showDash(c)
  <2>1. call[c].mode \in Mode /\ Is(c, "me")
    BY <1>1, <1>2 DEF CallRecord, showDash
  <2>2. \A k : Loading(k) = {}
    BY <2>1 DEF DashInv, MeAlone, Loading, Is
  <2> QED BY <1>1, <1>2, <2>1, <2>2, RenderStep DEF showDash
<1>3. CASE ModeSwitched(c)
  <2>1. call[c].arg \in Mode /\ Is(c, "mode")
    BY <1>3 DEF DashInv, CallArgs, ModeSwitched
  <2> QED BY <1>1, <1>3, <2>1, RenderStep DEF ModeSwitched, Busy
<1> QED BY <1>2, <1>3

(* The user asks for the other mode or for a change. *)
LEMMA AskStep ==
  ASSUME DashInv, NEW c \in Call, call[c] = Nil, user # Nil,
         NEW kind \in {"mode", "change"}, NEW arg \in Mode \cup ChangeName,
         kind = "mode" => arg \in Mode,
         kind = "change" => arg \in ChangeName /\ Change[arg].from \in Key,
         call' = [call EXCEPT ![c] = NewCall(kind, arg, cookie)], steps' \in Nat,
         UNCHANGED <<cookie, clientVars, ver, historyVars>>
  PROVE  DashInv'
<1> DEFINE x == NewCall(kind, arg, cookie)
<1>1. /\ call \in [Call -> CallRecord \cup {Nil}] /\ cookie \in Mode \cup {Nil}
      /\ page \in {"login", "app", "left"}
  BY DEF DashInv, DashboardTypeOK
<1>2. /\ x \in CallRecord /\ x # Nil /\ x.kind = kind /\ x.arg = arg /\ x.part = "sent"
  BY <1>1, NewCallType
<1>3. call' = [call EXCEPT ![c] = x]
  OBVIOUS
<1> HIDE DEF x
<1>4. call'[c] = x /\ \A d \in Call : d # c => call'[d] = call[d]
  BY <1>1, <1>3
<1>5. CallArgs'
  BY <1>2, <1>4 DEF DashInv, CallArgs, Is
<1>6. MeAlone'
  BY <1>2, <1>4 DEF DashInv, MeAlone, Is, clientVars
<1> QED BY <1>1, <1>2, <1>3, <1>5, <1>6, OtherSlotStep DEF clientVars, Is

(* A session or a switch is refused. *)
LEMMA RefusedStep ==
  ASSUME DashInv, NEW c \in Call, showDashFails(c) \/ ModeFails(c)
  PROVE  DashInv'
<1>1. /\ call \in [Call -> CallRecord \cup {Nil}] /\ page \in {"login", "app", "left"}
      /\ steps \in Nat
  BY DEF DashInv, DashboardTypeOK
<1>2. /\ call' = [call EXCEPT ![c] = Nil] /\ page' \in {"login", "app", "left"}
      /\ ~Is(c, "load") /\ ~Is(c, "change")
      /\ UNCHANGED <<cookie, user, hash, view, tenants, loaded, content, ver, historyVars, steps>>
  BY <1>1 DEF showDashFails, ModeFails, clientVars, Is
<1>3. call'[c] = Nil /\ \A d \in Call : d # c => call'[d] = call[d]
  BY <1>1, <1>2
<1>4. CallArgs'
  BY <1>3 DEF DashInv, CallArgs, Is
<1>5. MeAlone'
  BY <1>2, <1>3 DEF DashInv, MeAlone, Is
<1> QED BY <1>1, <1>2, <1>4, <1>5, OtherSlotStep

(* Another tab, or the end of the session, changes the cookie only. *)
LEMMA CookieStep ==
  ASSUME DashInv, OtherTab \/ Expire
  PROVE  DashInv'
<1>1. /\ UNCHANGED <<page, user, hash, view, tenants, loaded, content, call, ver, doubtful>>
      /\ cookie' \in Mode \cup {Nil} /\ steps' \in Nat
      /\ \/ crossed' = Key
         \/ crossed' = crossed /\ cookie' = Nil
  BY DEF DashInv, DashboardTypeOK, OtherTab, Expire, Step, clientVars, historyVars
<1>2. \A k : Loading(k)' = Loading(k) /\ Altering(k)' = Altering(k) /\ (Unseen(k)' <=> Unseen(k))
  BY <1>1 DEF Loading, Altering, Unseen, Is
<1>3. DashboardTypeOK' /\ CallArgs' /\ MeAlone' /\ Places' /\ LoneLoads'
  BY <1>1, <1>2 DEF DashInv, DashboardTypeOK, CallArgs, MeAlone, Places, LoneLoads, Is
<1>4. ModesAgree' /\ ReadsCurrent' /\ ViewsCurrent'
  <2>1. loaded \subseteq Key
    BY DEF DashInv, DashboardTypeOK
  <2>2. ASSUME crossed' = Key
        PROVE  ModesAgree' /\ ReadsCurrent' /\ ViewsCurrent'
    BY <1>1, <2>1, <2>2 DEF ModesAgree, ReadsCurrent, ViewsCurrent
  <2>3. ASSUME crossed' = crossed, cookie' = Nil
        PROVE  ModesAgree' /\ ReadsCurrent' /\ ViewsCurrent'
    BY <1>1, <1>2, <2>3 DEF DashInv, ModesAgree, ReadsCurrent, ViewsCurrent
  <2> QED BY <1>1, <2>2, <2>3
<1> QED BY <1>3, <1>4 DEF DashInv

-----------------------------------------------------------------------------

LEMMA DashInit ==
  ASSUME DashboardInit
  PROVE  DashInv
<1>1. PICK c \in Call :
        call = [d \in Call |-> IF d = c THEN NewCall("me", Nil, cookie) ELSE Nil]
  BY DEF DashboardInit
<1>2. cookie \in Mode
  BY DEF DashboardInit
<1>3. NewCall("me", Nil, cookie) \in CallRecord /\ NewCall("me", Nil, cookie).kind = "me"
  BY <1>2, NewCallType
<1>4. /\ call \in [Call -> CallRecord \cup {Nil}]
      /\ \A d \in Call : call[d] # Nil =>
           call[d].kind = "me" /\ \A e \in Call : e # d => call[e] = Nil
  BY <1>1, <1>3
<1>5. \A k : Loading(k) = {}
  BY <1>4 DEF Loading, Is
<1>6. DashboardTypeOK
  BY <1>4 DEF DashboardInit, DashboardTypeOK
<1>7. CallArgs /\ MeAlone /\ Places
  BY <1>4 DEF DashboardInit, CallArgs, MeAlone, Places, Is
<1>8. LoneLoads /\ ModesAgree /\ ReadsCurrent /\ ViewsCurrent
  BY <1>5 DEF DashboardInit, LoneLoads, ModesAgree, ReadsCurrent, ViewsCurrent
<1> QED BY <1>6, <1>7, <1>8 DEF DashInv

LEMMA DashStep ==
  ASSUME DashInv, [DashboardNext]_dashboardVars
  PROVE  DashInv'
<1>1. ASSUME NEW h \in Key \cup {"report"}, Reopen(h) \/ login(h)
      PROVE  DashInv'
  <2>1. /\ restoreSession(h) /\ cookie' \in Mode \cup {Nil} /\ steps' \in Nat /\ ver' = ver
    BY <1>1 DEF DashInv, DashboardTypeOK, Reopen, login, Step, Mode
  <2>2. /\ Unload /\ page' = "login" /\ hash' = h
        /\ \E c \in Call : call' = [d \in Call |-> IF d # c THEN Nil
             ELSE NewCall("me", Nil, cookie')]
    BY <2>1 DEF restoreSession
  <2> QED BY <2>1, <2>2, UnloadStep
<1>2. ASSUME NEW c \in Call, api401(c)
      PROVE  DashInv'
  <2>1. /\ Unload /\ page' = "left" /\ hash' = hash /\ cookie' = cookie
        /\ ver' = ver /\ steps' = steps /\ call' = [d \in Call |-> Nil]
    BY <1>2 DEF api401
  <2>2. hash \in Key \cup {"report"} /\ cookie \in Mode \cup {Nil} /\ steps \in Nat
    BY DEF DashInv, DashboardTypeOK
  <2> QED BY <2>1, <2>2, UnloadStep
<1>3. ASSUME NEW m \in Mode, setDashboardMode(m)
      PROVE  DashInv'
  <2>1. PICK c \in Call :
          call[c] = Nil /\ call' = [call EXCEPT ![c] = NewCall("mode", m, cookie)]
    BY <1>3 DEF setDashboardMode
  <2>2. user # Nil /\ steps' \in Nat /\ UNCHANGED <<cookie, clientVars, ver, historyVars>>
    BY <1>3 DEF DashInv, DashboardTypeOK, setDashboardMode, Step
  <2> QED BY <2>1, <2>2, AskStep
<1>4. ASSUME NEW n \in ChangeName, SendChange(n)
      PROVE  DashInv'
  <2>1. PICK c \in Call :
          call[c] = Nil /\ call' = [call EXCEPT ![c] = NewCall("change", n, cookie)]
    BY <1>4 DEF SendChange
  <2>2. user # Nil /\ steps' \in Nat /\ UNCHANGED <<cookie, clientVars, ver, historyVars>>
    BY <1>4 DEF DashInv, DashboardTypeOK, SendChange, Step
  <2>3. view = Change[n].from
    BY <1>4 DEF SendChange
  <2>4. Change[n].from \notin {"report", Nil}
    <3>1. Change[n].from \in {"home", "links", "admin/users"}
      <4>1. n \in {"createLink", "changeLinks", "createCustomer", "setDeletionAccess"}
        BY DEF ChangeName, Change
      <4>2. /\ Change["createLink"].from = "home" /\ Change["changeLinks"].from = "links"
            /\ Change["createCustomer"].from = "admin/users"
            /\ Change["setDeletionAccess"].from = "admin/users"
        BY DEF Change
      <4> QED BY <4>1, <4>2
    <3> QED BY <3>1, DashboardAssumption DEF DashboardAssumption, ViewKey, AdminKey
  <2>5. Change[n].from \in Key
    BY <2>3, <2>4 DEF DashInv, Places
  <2> QED BY <2>1, <2>2, <2>5, AskStep
<1>5. {"createLink", "changeLinks", "createCustomer", "setDeletionAccess"} \subseteq ChangeName
  BY DEF ChangeName, Change
<1>6. CASE UNCHANGED dashboardVars
  <2>1. \A k : Loading(k)' = Loading(k) /\ (Unseen(k)' <=> Unseen(k))
    BY <1>6 DEF dashboardVars, Loading, Altering, Unseen, Is
  <2> QED
    BY <1>6, <2>1 DEF dashboardVars, clientVars, historyVars, DashInv, DashboardTypeOK,
         CallArgs, MeAlone, Places, LoneLoads, ModesAgree, ReadsCurrent, ViewsCurrent, Is
<1> QED
  BY <1>1, <1>2, <1>3, <1>4, <1>5, <1>6, HashStep, ShowStep, RefusedStep, CookieStep,
     ReadStep, TenantsStep, ArriveStep, FailStep, CommitStep, AnsweredStep, ChangeFailsStep
  DEF DashboardNext, createLink, changeLinks, createCustomer, switchDeletionAccess

LEMMA DashInvariant == DashboardSpec => []DashInv
<1>1. DashboardInit => DashInv
  BY DashInit
<1>2. DashInv /\ [DashboardNext]_dashboardVars => DashInv'
  BY DashStep
<1> QED BY <1>1, <1>2, PTL DEF DashboardSpec

(* The variables of the page stay in their sets: a request under way is    *)
(* one the client sends, whatever answers, failures and switches meet it.  *)
THEOREM DashboardTypeCorrect == DashboardSpec => []DashboardTypeOK
<1>1. DashInv => DashboardTypeOK
  BY DEF DashInv
<1> QED BY <1>1, DashInvariant, PTL

(* loadWorkspaceView: a loaded view shows what the account sees in the     *)
(* mode of the page, unless a switch met its load.                         *)
THEOREM LoadedViewsFollowMode == DashboardSpec => []LoadedViewsShowModeUnlessCrossed
<1>1. DashInv => LoadedViewsShowModeUnlessCrossed
  BY DEF DashInv, ModesAgree, LoadedViewsShowModeUnlessCrossed, ShowsMode
<1> QED BY <1>1, DashInvariant, PTL

(* loadedWorkspaceViews: a loaded view shows every change of this tab once *)
(* nothing about it is under way, unless its loads overlapped or failed,   *)
(* or a change leaves it as it was (Audit, and Click analytics when a link *)
(* is deleted).                                                            *)
THEOREM LoadedViewsFollowChanges == DashboardSpec => []LoadedViewsAreCurrent
<1>1. DashInv => LoadedViewsAreCurrent
  BY DEF DashInv, ViewsCurrent, LoadedViewsAreCurrent, Unseen
<1> QED BY <1>1, DashInvariant, PTL
=============================================================================
