---------------------------- MODULE MCClickWorker ----------------------------
(* The worker's loop and its retries, each on its own: ClickPipeline says  *)
(* what a flush does and WorkerLoop when it happens, neither reads what    *)
(* the other writes, and the part that does not move stays as it started.  *)
EXTENDS MCClickPipeline, WorkerLoop

CONSTANTS d1, d2, d3

VARIABLE part   \* the part that moves

WorkerInit == Init /\ LoopInit /\ part \in {"loop", "retries"}

LoopMoves == part = "loop" /\ LoopNext /\ UNCHANGED <<vars, part>>

RetriesMove == part = "retries" /\ Next /\ UNCHANGED <<loopVars, part>>

(* Only the loop is scheduled fairly: the retries are checked for safety.  *)
WorkerSpec ==
  /\ WorkerInit
  /\ [][LoopMoves \/ RetriesMove]_<<vars, loopVars, part>>
  /\ LoopFairness
=============================================================================
