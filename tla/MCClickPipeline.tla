-------------------------- MODULE MCClickPipeline --------------------------
(* Small instances of ClickPipeline for TLC. *)
EXTENDS ClickPipeline, TLC

CONSTANTS e1, e2, l1

(* Two redirects of one link. *)
OneLink == (e1 :> l1) @@ (e2 :> l1)

(* A late confirmation and a purged row each defeat one promise on their own. *)
TolerableFaults == FaultKinds \ {"confirm_timeout", "long_backlog"}
=============================================================================
