---------------------------- MODULE MCWebClient ----------------------------
(***************************************************************************)
(* The parts of the web client side by side, in small instances for TLC.   *)
(*                                                                         *)
(* No part reads what another part writes, so a property of one part holds *)
(* of the whole page if it holds of the behaviours in which only that part *)
(* moves.  Those are the behaviours here: the part that moves is chosen at *)
(* the beginning, and the others stay in one of their initial states.      *)
(***************************************************************************)
EXTENDS PagedLists, ConfirmedChanges, Dashboard, ReportView, LinkEdits,
        Charts, TLC

CONSTANTS c1, c2, i1, wide, narrow, a, b, l1, u1, u2, r1, r2

(* One listing of two pages and one of four. *)
Listings == (wide :> (Nil :> 2 @@ 2 :> Nil @@ 3 :> Nil @@ 4 :> Nil)) @@
            (narrow :> (Nil :> 3 @@ 3 :> 2 @@ 2 :> 4 @@ 4 :> Nil))

NetworkFaults == {"lost_answer", "list_fails"}

Presets == {7, 30, 90}
Dates == {-95, -2, 2}

(* In seconds: a minute past noon, and twenty-nine seconds later. *)
AMinute == {43260}
WithSeconds == {43289}
SomePatches == {[Unchanged EXCEPT !.expires = 43289, !.term = u2]}
SomeBulks == {[Unchanged EXCEPT !.code = "permanent"]}

(* No clicks, and two counts that split half a tenth of a per cent (7 of   *)
(* 400 are 1.75) and make a bar thinner than two per cent.                 *)
Counts == {0, 7, 393}

(* Requests are interchangeable. *)
Interchangeable ==
  Permutations(Call) \cup Permutations(Request)

VARIABLE part  \* the part that moves

Part == {"lists", "changes", "dashboard", "report", "edits", "charts"}

(* One initial state for a part that does not move. *)
Resting ==
  /\ part # "lists" =>
       /\ role = "superadmin"
       /\ controls = [l \in List |-> wide]
  /\ part # "changes" =>
       items = [k \in Kind |-> [i \in Id |-> "present"]]
  /\ part # "dashboard" =>
       /\ cookie = "admin" /\ hash = "home"
       /\ call = [c \in Call |->
                    IF c = c1 THEN NewCall("me", Nil, cookie) ELSE Nil]
  /\ part # "edits" =>
       row = [l \in Link |-> [url |-> u1, expires |-> Nil, term |-> u1,
                              code |-> "temporary", password |-> FALSE]]

(* Destinations and terms only matter by being changed or not, and a code  *)
(* becomes permanent by being chosen.                                      *)
SameLinks ==
  \A l \in Link :
    row[l].url = u1 /\ row[l].term = u1 /\ row[l].code = "temporary"

(* The lists of a change are independent but for the calls they share: a   *)
(* user with domains has a key.                                            *)
KeysLikeDomains ==
  \A i \in Id : items["key"][i] = "absent" <=> items["domain"][i] = "absent"

(* Deletion access is switched on before it is switched off. *)
LockedAtFirst == \A i \in Id : items["access"][i] = "present"

(* Lists are walked one at a time; what changes several of them at once    *)
(* finds the others at their first page.                                   *)
Walked(l) == pageShown[l] # Nil \/ ~Quiet(l) \/ controls[l] # asked[l]
OneListWalked == \A k, l \in List : Walked(k) /\ Walked(l) => k = l

Init ==
  /\ part \in Part
  /\ Resting
  /\ ListsInit /\ ChangesInit /\ DashboardInit
  /\ ReportInit /\ EditsInit /\ ChartsInit
  /\ SameLinks
  /\ KeysLikeDomains
  /\ LockedAtFirst

Next ==
  /\ UNCHANGED part
  /\ \/ /\ part = "lists" /\ ListsNext
        /\ UNCHANGED <<changesVars, dashboardVars, reportVars, editsVars,
                       chartsVars>>
     \/ /\ part = "changes" /\ ChangesNext
        /\ UNCHANGED <<listsVars, dashboardVars, reportVars, editsVars,
                       chartsVars>>
     \/ /\ part = "dashboard" /\ DashboardNext
        /\ UNCHANGED <<listsVars, changesVars, reportVars, editsVars,
                       chartsVars>>
     \/ /\ part = "report" /\ ReportNext
        /\ UNCHANGED <<listsVars, changesVars, dashboardVars, editsVars,
                       chartsVars>>
     \/ /\ part = "edits" /\ EditsNext
        /\ UNCHANGED <<listsVars, changesVars, dashboardVars, reportVars,
                       chartsVars>>
     \/ /\ part = "charts" /\ ChartsNext
        /\ UNCHANGED <<listsVars, changesVars, dashboardVars, reportVars,
                       editsVars>>

vars == <<part, listsVars, changesVars, dashboardVars, reportVars, editsVars,
          chartsVars>>
Spec == Init /\ [][Next]_vars
=============================================================================
