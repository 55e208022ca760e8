---------------------------- MODULE MCRedirects ----------------------------
(* What concurrent changes of a link do to its redirects: the limit they   *)
(* count against, and the destination they are served from the cache.  The *)
(* two share no state here (ClickLimit has its own reading of a cached     *)
(* link), so that one moves and the other stays as it started.             *)
EXTENDS ClickLimit, RedirectCache, TLC

CONSTANTS v1, v2, v3, w1, ed

VARIABLE part   \* the part that moves

RedirectsInit ==
  /\ LimitInit /\ Init
  /\ \/ part = "limit" /\ status = [a \in Alias |-> "absent"]
     \/ part = "cache" /\ max = Nil

LimitMoves == part = "limit" /\ LimitNext /\ UNCHANGED <<vars, part>>

CacheMoves == part = "cache" /\ Next /\ UNCHANGED <<limitVars, part>>

RedirectsSpec ==
  RedirectsInit /\ [][LimitMoves \/ CacheMoves]_<<limitVars, vars, part>>

(* Requests bear the names of redirects; they are interchangeable, as no   *)
(* action and no invariant names one.                                      *)
Interchangeable == Permutations(Visit)

(* Faults that leave invalidation itself alone. *)
FillFaults == {"fill_error"}
=============================================================================
