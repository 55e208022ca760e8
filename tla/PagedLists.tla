---------------------------- MODULE PagedLists ----------------------------
(***************************************************************************)
(* The paged lists of the web client: links, users, clicks, audit events.  *)
(*                                                                         *)
(* Each list walks a listing of the server by cursors.  The client keeps   *)
(* the cursor of the current page, the cursors of the pages before it and  *)
(* the next cursor of the last answer.  A handler runs to its end; the     *)
(* answers to its requests arrive later, in any order, and are rendered    *)
(* with the page number of the moment they arrive at.                      *)
(*                                                                         *)
(* A listing is abstracted to the successor relation of its cursors, and   *)
(* the rows of a page to the query and the cursor that were asked for.     *)
(***************************************************************************)
EXTENDS WebPage, Naturals, Sequences

CONSTANTS
  List,         \* the lists in use
  Query,        \* filter and page size, as the controls of a list can state them
  Cursor,       \* values of next_cursor
  After,        \* next_cursor of the page at a cursor of a query's listing
  MaxDepth,     \* bound on the pages walked forward
  MaxHandlers   \* bound on the handlers run, in TLC

ListName == {"links", "users", "clicks", "audit"}
Filtered == {"users", "audit"}
Position == Cursor \cup {Nil}
Page == [query : Query, cursor : Position]
Load == [query : Query, cursor : Position, view : BOOLEAN]

ASSUME PagedAssumption ==
  /\ List \subseteq ListName
  /\ Query # {}
  /\ Nil \notin Cursor /\ Nil \notin Page /\ Nil \notin Load
  /\ After \in [Query -> [Position -> Position]]
  /\ MaxDepth \in Nat
  /\ MaxHandlers \in Nat

VARIABLES
  role,       \* currentUser.role: superadmin, or customer in User mode
  controls,   \* the query the controls of a list state
  cursor,     \* linkCursor, userCursor, clickCursor, auditCursor
  history,    \* ...CursorHistory
  next,       \* ...NextCursor
  pageShown,  \* the page rendered
  label,      \* the number in "Page n"
  underWay,   \* requests sent and not answered
  due,        \* the view is not in loadedWorkspaceViews
  asked,      \* history: the query the cursors belong to
  disturbed,  \* history: a known race or failure touched the list
  handlers    \* handlers run

pageVars == <<controls, cursor, history, next, asked>>
shownVars == <<pageShown, label>>
listsVars == <<role, pageVars, shownVars, underWay, due, disturbed, handlers>>

Quiet(l) == \A f \in Call : underWay[l][f] = Nil

(* The panels of Admin mode are hidden in User mode. *)
Reachable(l) == l \in List /\ (l \in Filtered => role # "customer")

ListsInit ==
  /\ role \in {"superadmin", "customer"}
  /\ \E q \in Query : controls = [l \in List |-> q]
  /\ cursor = [l \in List |-> Nil]
  /\ history = [l \in List |-> <<>>]
  /\ next = [l \in List |-> Nil]
  /\ pageShown = [l \in List |-> Nil]
  /\ label = [l \in List |-> 1]
  /\ underWay = [l \in List |-> [f \in Call |-> Nil]]
  /\ due = [l \in List |-> TRUE]
  /\ asked = controls
  /\ disturbed = [l \in List |-> FALSE]
  /\ handlers = 0

Handler == handlers < MaxHandlers /\ handlers' = handlers + 1

(* The request of l for the page at c, with what the controls state now.   *)
SendLoad(l, c, q, view) ==
  \E f \in Call :
    /\ underWay[l][f] = Nil
    /\ underWay' = [underWay EXCEPT ![l][f] =
                   [query |-> q, cursor |-> c, view |-> view]]

(* A list is disturbed by a request that overlaps another one, and by one  *)
(* that continues a walk with a query the walk did not begin with.  It     *)
(* recovers when a first page is asked for with nothing under way.         *)
Walk(l, first, q) ==
  /\ asked' = [asked EXCEPT ![l] = IF first THEN q ELSE @]
  /\ disturbed' = [disturbed EXCEPT ![l] =
       \/ ~Quiet(l)
       \/ ~first /\ (@ \/ q # asked[l])]

-----------------------------------------------------------------------------
(* reset...Pagination, and the handlers that call it and load the page *)

Reset(ls) ==
  /\ cursor' = [l \in List |-> IF l \in ls THEN Nil ELSE cursor[l]]
  /\ history' = [l \in List |-> IF l \in ls THEN <<>> ELSE history[l]]
  /\ next' = [l \in List |-> IF l \in ls THEN Nil ELSE next[l]]

resetLinkPagination == Reset({"links"})
resetUserPagination == Reset({"users"})
resetClickPagination == Reset({"clicks"})
resetAuditPagination == Reset({"audit"})

FirstPage(l, q) ==
  /\ Handler /\ Reachable(l)
  /\ controls' = [controls EXCEPT ![l] = q]
  /\ SendLoad(l, Nil, q, FALSE)
  /\ Walk(l, TRUE, q)
  /\ UNCHANGED <<role, shownVars, due>>

(* importLinks and createCustomer do the same with the query as it is.    *)
changeLinkPageSize ==
  \E q \in Query : FirstPage("links", q) /\ resetLinkPagination
changeUserPageSize ==
  \E q \in Query : FirstPage("users", q) /\ resetUserPagination
changeClickPageSize ==
  \E q \in Query : FirstPage("clicks", q) /\ resetClickPagination
changeAuditPageSize ==
  \E q \in Query : FirstPage("audit", q) /\ resetAuditPagination

filterUsers == Reachable("users") /\ FirstPage("users", controls["users"])
               /\ resetUserPagination
filterAuditEvents == Reachable("audit") /\ FirstPage("audit", controls["audit"])
                     /\ resetAuditPagination

(* A field of a filter form is filled in; nothing is submitted. *)
TypeFilter(l, q) ==
  /\ Handler /\ Reachable(l)
  /\ controls' = [controls EXCEPT ![l] = q]
  /\ UNCHANGED <<role, cursor, history, next, asked, shownVars, underWay, due,
                 disturbed>>

-----------------------------------------------------------------------------
(* next...Page, previous...Page and the reload of the current page *)

NextPage(l) ==
  /\ Handler /\ Reachable(l)
  /\ next[l] # Nil
  /\ Len(history[l]) < MaxDepth
  /\ history' = [history EXCEPT ![l] = Append(@, cursor[l])]
  /\ cursor' = [cursor EXCEPT ![l] = next[l]]
  /\ SendLoad(l, next[l], controls[l], FALSE)
  /\ Walk(l, FALSE, controls[l])
  /\ UNCHANGED <<role, controls, next, shownVars, due>>

nextLinkPage == NextPage("links")
nextUserPage == NextPage("users")
nextClickPage == NextPage("clicks")
nextAuditPage == NextPage("audit")

(* A variant of PreviousPage that leaves the cursor on the stack. *)
PreviousPageKept(l) ==
  /\ Handler /\ Reachable(l)
  /\ history[l] # <<>>
  /\ cursor' = [cursor EXCEPT ![l] = history[l][Len(history[l])]]
  /\ SendLoad(l, cursor'[l], controls[l], FALSE)
  /\ Walk(l, FALSE, controls[l])
  /\ UNCHANGED <<role, controls, history, next, shownVars, due>>

PreviousPage(l) ==
  /\ Handler /\ Reachable(l)
  /\ history[l] # <<>>
  /\ cursor' = [cursor EXCEPT ![l] = history[l][Len(history[l])]]
  /\ history' = [history EXCEPT ![l] = SubSeq(@, 1, Len(@) - 1)]
  /\ SendLoad(l, cursor'[l], controls[l], FALSE)
  /\ Walk(l, history'[l] = <<>>, controls[l])
  /\ UNCHANGED <<role, controls, next, shownVars, due>>

previousLinkPage == PreviousPage("links")
previousUserPage == PreviousPage("users")
previousClickPage == PreviousPage("clicks")
previousAuditPage == PreviousPage("audit")

(* loadLinks after an edit or a deletion, and the Refresh buttons. *)
Reload(l) ==
  /\ Handler /\ Reachable(l)
  /\ SendLoad(l, cursor[l], controls[l], FALSE)
  /\ Walk(l, history[l] = <<>>, controls[l])
  /\ UNCHANGED <<role, controls, cursor, history, next, shownVars, due>>

(* loadWorkspaceView: the list is opened. *)
OpenView(l) ==
  /\ Handler /\ Reachable(l)
  /\ due[l]
  /\ SendLoad(l, cursor[l], controls[l], TRUE)
  /\ Walk(l, history[l] = <<>>, controls[l])
  /\ UNCHANGED <<role, controls, cursor, history, next, shownVars, due>>

-----------------------------------------------------------------------------
(* Handlers that change a list from elsewhere *)

(* createLink is on another page: the links are reset and not loaded. *)
createLinkResets ==
  LET l == "links" IN
  /\ Handler /\ Reachable(l)
  /\ resetLinkPagination
  /\ due' = [due EXCEPT ![l] = TRUE]
  /\ asked' = [asked EXCEPT ![l] = controls[l]]
  /\ disturbed' = [disturbed EXCEPT ![l] = ~Quiet(l)]
  /\ UNCHANGED <<role, controls, shownVars, underWay>>

(* The user switches the mode: every list but the audit log is reset, no   *)
(* view counts as loaded.  The view that stays open is loaded by OpenView. *)
renderDashboardResets ==
  LET reset == List \ {"audit"} IN
  /\ Handler
  /\ role' \in {"superadmin", "customer"} \ {role}
  /\ Reset(reset)
  /\ due' = [l \in List |-> TRUE]
  /\ asked' = [l \in List |-> IF l \in reset THEN controls[l] ELSE asked[l]]
  /\ disturbed' = [l \in List |->
       IF l \in reset THEN ~Quiet(l) ELSE disturbed[l]]
  /\ UNCHANGED <<controls, shownVars, underWay>>

-----------------------------------------------------------------------------
(* Answers: what loadLinks, loadCustomers, loadClicks and loadAuditEvents  *)
(* do once the page has arrived.                                           *)

(* A variant of RenderPage that numbers the pages from zero. *)
RenderPageUncounted(l, f) ==
  LET load == underWay[l][f] IN
  /\ load # Nil
  /\ next' = [next EXCEPT ![l] = After[load.query][load.cursor]]
  /\ pageShown' = [pageShown EXCEPT ![l] =
                 [query |-> load.query, cursor |-> load.cursor]]
  /\ label' = [label EXCEPT ![l] = Len(history[l])]
  /\ underWay' = [underWay EXCEPT ![l][f] = Nil]
  /\ due' = [due EXCEPT ![l] = @ /\ ~load.view]
  /\ UNCHANGED <<role, controls, cursor, history, asked, disturbed, handlers>>

(* A variant of RenderPage that keeps the next cursor on the last page.    *)
RenderPageKeepingNext(l, f) ==
  LET load == underWay[l][f]
      after == After[load.query][load.cursor]
  IN
  /\ load # Nil
  /\ next' = IF after = Nil THEN next ELSE [next EXCEPT ![l] = after]
  /\ pageShown' = [pageShown EXCEPT ![l] =
                 [query |-> load.query, cursor |-> load.cursor]]
  /\ label' = [label EXCEPT ![l] = Len(history[l]) + 1]
  /\ underWay' = [underWay EXCEPT ![l][f] = Nil]
  /\ due' = [due EXCEPT ![l] = @ /\ ~load.view]
  /\ UNCHANGED <<role, controls, cursor, history, asked, disturbed, handlers>>

RenderPage(l, f) ==
  LET load == underWay[l][f] IN
  /\ load # Nil
  /\ next' = [next EXCEPT ![l] = After[load.query][load.cursor]]
  /\ pageShown' = [pageShown EXCEPT ![l] =
                 [query |-> load.query, cursor |-> load.cursor]]
  /\ label' = [label EXCEPT ![l] = Len(history[l]) + 1]
  /\ underWay' = [underWay EXCEPT ![l][f] = Nil]
  /\ due' = [due EXCEPT ![l] = @ /\ ~load.view]
  /\ UNCHANGED <<role, controls, cursor, history, asked, disturbed, handlers>>

loadLinks == "links" \in List /\ \E f \in Call : RenderPage("links", f)
loadCustomers == "users" \in List /\ \E f \in Call : RenderPage("users", f)
loadClicks == "clicks" \in List /\ \E f \in Call : RenderPage("clicks", f)
loadAuditEvents == "audit" \in List /\ \E f \in Call : RenderPage("audit", f)

(* The request fails: the promise is rejected, the cursors stay moved. *)
PageFails(l, f) ==
  /\ underWay[l][f] # Nil
  /\ underWay' = [underWay EXCEPT ![l][f] = Nil]
  /\ disturbed' = [disturbed EXCEPT ![l] = TRUE]
  /\ UNCHANGED <<role, pageVars, shownVars, due, handlers>>

ListsNext ==
  \/ changeLinkPageSize \/ changeUserPageSize
  \/ changeClickPageSize \/ changeAuditPageSize
  \/ filterUsers \/ filterAuditEvents
  \/ nextLinkPage \/ nextUserPage \/ nextClickPage \/ nextAuditPage
  \/ previousLinkPage \/ previousUserPage
  \/ previousClickPage \/ previousAuditPage
  \/ createLinkResets \/ renderDashboardResets
  \/ loadLinks \/ loadCustomers \/ loadClicks \/ loadAuditEvents
  \/ \E l \in List :
       \/ Reload(l) \/ OpenView(l)
       \/ l \in Filtered /\ \E q \in Query : TypeFilter(l, q)
       \/ \E f \in Call : PageFails(l, f)

ListsSpec == ListsInit /\ [][ListsNext]_listsVars

-----------------------------------------------------------------------------
(* Properties *)

ListsTypeOK ==
  /\ role \in {"superadmin", "customer"}
  /\ controls \in [List -> Query] /\ asked \in [List -> Query]
  /\ cursor \in [List -> Position] /\ next \in [List -> Position]
  /\ history \in [List -> Seq(Position)]
  /\ pageShown \in [List -> Page \cup {Nil}]
  /\ label \in [List -> Nat \ {0}]
  /\ underWay \in [List -> [Call -> Load \cup {Nil}]]
  /\ due \in [List -> BOOLEAN] /\ disturbed \in [List -> BOOLEAN]
  /\ handlers \in Nat

(* The cursors of the pages before the current one, and its own. *)
Stack(l) == Append(history[l], cursor[l])

(* next...Page, previous...Page, reset...Pagination: the cursors kept are  *)
(* the first pages of one listing, in order and without a gap, unless a    *)
(* request overlapped another, failed, or mixed in an unsubmitted filter.  *)
StackWalksListing ==
  \A l \in List : ~disturbed[l] =>
    /\ Stack(l)[1] = Nil
    /\ \A i \in 1 .. Len(history[l]) :
         /\ Stack(l)[i + 1] # Nil
         /\ Stack(l)[i + 1] = After[asked[l]][Stack(l)[i]]

(* loadLinks, loadCustomers, loadClicks, loadAuditEvents: once a list is   *)
(* answered, the rows are those of the page the cursors stand on, "Page n" *)
(* counts the pages walked, and Next leads to the page after it.           *)
PageShownIsCurrent ==
  \A l \in List : (~disturbed[l] /\ ~due[l] /\ Quiet(l)) =>
    /\ pageShown[l] = [query |-> asked[l], cursor |-> cursor[l]]
    /\ label[l] = Len(history[l]) + 1
    /\ next[l] = After[asked[l]][cursor[l]]
=============================================================================
