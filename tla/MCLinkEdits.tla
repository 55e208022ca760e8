---------------------------- MODULE MCLinkEdits ----------------------------
(* The edit dialog alone, for TLC. *)
EXTENDS LinkEdits, TLC

CONSTANTS l1, u1, u2, r1, c1

Minute == 60
Hour == 60 * Minute
Noon == {12 * Hour}
SevenHours == 7 * Hour
=============================================================================
