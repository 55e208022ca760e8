------------------------ MODULE MCConfirmedChanges ------------------------
(* The confirmation dialog alone, for TLC. *)
EXTENDS ConfirmedChanges, TLC

CONSTANTS c1, c2, i1
=============================================================================
