---------------------------- MODULE ClickLedger ----------------------------
(***************************************************************************)
(* What click persistence promises, without saying how: every click event  *)
(* enters the books at most once, and the three places an event is booked  *)
(* in -- the set of event ids already seen, the counter of its link and    *)
(* the daily roll-up -- move together in one step.                         *)
(*                                                                         *)
(* ClickPipeline implements this with two persistence paths (synchronous   *)
(* Store.RecordClick and the worker's Store.RecordClicks) that race over   *)
(* copies of the same event.                                               *)
(***************************************************************************)
EXTENDS Naturals, FiniteSets

CONSTANTS
  Event,      \* click events, one per redirect attempt, each with its event_id
  Link,       \* short links
  LinkOf,     \* the link an event belongs to
  Counting    \* events with Increment = true (an expired attempt has false)

VARIABLES
  counted,    \* events booked so far
  clicks,     \* links.clicks
  views       \* sum of click_rollups_daily.clicks over the rows of a link

vars == <<counted, clicks, views>>

(* The events of S that belong to link l. *)
OfLink(S, l) == {e \in S : LinkOf[e] = l}

Init ==
  /\ counted = {}
  /\ clicks = [l \in Link |-> 0]
  /\ views = [l \in Link |-> 0]

(* Book every event of S, none of which was booked before. *)
Book(S) ==
  /\ S # {}
  /\ S \cap counted = {}
  /\ counted' = counted \cup S
  /\ clicks' = [l \in Link |->
                  clicks[l] + Cardinality(OfLink(S \cap Counting, l))]
  /\ views' = [l \in Link |-> views[l] + Cardinality(OfLink(S, l))]

Next == \E S \in SUBSET Event : Book(S)

Spec == Init /\ [][Next]_vars

=============================================================================
