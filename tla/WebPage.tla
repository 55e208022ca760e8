------------------------------ MODULE WebPage ------------------------------
(***************************************************************************)
(* What the modules of the web client share: the page sends requests from  *)
(* a set of slots, and one value stands for whatever is not there.         *)
(***************************************************************************)
CONSTANTS
  Call,  \* requests that can be under way
  Nil    \* the empty cursor, no request, no row, nothing rendered
=============================================================================
