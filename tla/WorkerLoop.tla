----------------------------- MODULE WorkerLoop -----------------------------
(***************************************************************************)
(* The analytics worker as the goroutines it runs: the consumer channel of *)
(* the AMQP library, the bridge that wraps its deliveries, the loop that   *)
(* collects and flushes a batch, and the goroutine that stops intake.      *)
(*                                                                         *)
(*   broker -> source -> bridge -> held -> flushing -> settled             *)
(*                                                                         *)
(* What a flush does to the store and the queues is ClickPipeline's; here  *)
(* it settles its deliveries one by one, by ACK or Reject.  A settled      *)
(* delivery stands for the next message of the queue.                      *)
(*                                                                         *)
(* One reader of the connection hands the broker's deliveries, answers and *)
(* confirmations on, in the order they come.  confirms has room for one    *)
(* confirmation that no Retry has read: a second one the reader keeps, and *)
(* reads nothing more until it is rid of it.                               *)
(***************************************************************************)
EXTENDS Naturals, Sequences, FiniteSets

CONSTANTS
  Delivery,     \* deliveries
  Malformed,    \* those DecodeEvent refuses
  BatchSize,    \* WorkerConfig.BatchSize
  MaxTimeouts,  \* bound on the retries of a connection that time out
  MaxRestarts,  \* bound on the processes that follow the first
  None

ASSUME LoopAssumption ==
  /\ IsFiniteSet(Delivery) /\ Malformed \subseteq Delivery
  /\ BatchSize \in Nat \ {0}
  /\ MaxTimeouts \in Nat /\ MaxRestarts \in Nat
  /\ None # "closed" /\ {None, "closed"} \cap Delivery = {}

VARIABLES
  waiting,   \* messages in the queue
  source,    \* the library's delivery channel
  open,      \* it has not been closed for new deliveries
  bridge,    \* what bridgeDeliveries sends, None, or "closed"
  held,      \* batch
  timer,     \* off: timerC is nil; running; fired: a tick is in the channel
  at,        \* where Worker.Run is
  then,      \* where it goes after the flush
  flushing,  \* deliveries of the flush not settled yet
  settled,   \* acknowledged or rejected
  stop,      \* no, asked: SIGTERM, cancelled: Basic.Cancel is done
  gaveUp,    \* stopWorker was called: workerCtx is done
  failed,    \* Run returned an error, RabbitMQWorker's included
  up,        \* the connection
  late,      \* confirmations of timed-out retries the broker still owes
  unread,    \* those that came: one in confirms, another with the reader
  restarts   \* processes started after the first

intakeVars == <<waiting, source, open, bridge>>
batchVars == <<held, timer, at, then, flushing>>
retryVars == <<late, unread>>
stopVars == <<stop, gaveUp, up, restarts, retryVars>>
loopVars == <<intakeVars, batchVars, settled, failed, stopVars>>

Sourced == {source[i] : i \in 1 .. Len(source)}
Bridged == IF bridge \in Delivery THEN {bridge} ELSE {}

(* Given to the consumer and not settled. *)
Handed == Delivery \ (waiting \cup settled)

(* The reader waits for a Retry to make room in confirms. *)
Blocked == up /\ unread > 1

LoopInit ==
  /\ waiting = Delivery
  /\ source = <<>> /\ open = TRUE
  /\ bridge = None
  /\ held = {} /\ timer = "off"
  /\ at = "select" /\ then = "select" /\ flushing = {}
  /\ settled = {}
  /\ stop = "no" /\ gaveUp = FALSE
  /\ failed = FALSE
  /\ up = TRUE /\ late = 0 /\ unread = 0
  /\ restarts = 0

-----------------------------------------------------------------------------
(* Broker, library and bridge *)

NewMessage(d) ==
  /\ d \in settled
  /\ settled' = settled \ {d}
  /\ waiting' = waiting \cup {d}
  /\ UNCHANGED <<source, open, bridge, batchVars, failed, stopVars>>

Deliver(d) ==
  /\ open /\ ~Blocked
  /\ d \in waiting
  /\ waiting' = waiting \ {d}
  /\ source' = Append(source, d)
  /\ UNCHANGED <<open, bridge, batchVars, settled, failed, stopVars>>

BridgeTakes ==
  /\ bridge = None
  /\ source # <<>>
  /\ bridge' = Head(source)
  /\ source' = Tail(source)
  /\ UNCHANGED <<waiting, open, batchVars, settled, failed, stopVars>>

(* The delivery channel is drained and closed, or the bridge gives up a    *)
(* delivery nobody takes; both close the worker's channel.                 *)
BridgeEnds ==
  /\ \/ bridge = None /\ source = <<>> /\ ~open
     \/ bridge \in Delivery /\ gaveUp
  /\ bridge' = "closed"
  /\ UNCHANGED <<waiting, source, open, batchVars, settled, failed, stopVars>>

-----------------------------------------------------------------------------
(* Worker.Run *)

Return(error) == at' = "returned" /\ failed' = (failed \/ error)

(* A variant of StartFlush that goes on with the batch it flushes. *)
StartFlushKeeping(S, next) ==
  /\ timer' = "off"
  /\ flushing' = S /\ held' = S
  /\ at' = "flush" /\ then' = next

(* flush: stopTimer, and the batch is replaced by an empty one. *)
StartFlush(S, next) ==
  /\ timer' = "off"
  /\ flushing' = S /\ held' = {}
  /\ at' = "flush" /\ then' = next

(* A variant of resetTimer: the timer is armed by the second delivery. *)
resetTimerLate == timer' = IF held # {} THEN "running" ELSE timer

resetTimer == timer' = IF timer = "off" THEN "running" ELSE timer

(* A variant of accept that batches what it could not decode.              *)
acceptUndecoded(d) ==
  /\ IF Cardinality(held) + 1 >= BatchSize
       THEN StartFlush(held \cup {d}, at)
       ELSE /\ held' = held \cup {d} /\ resetTimer
            /\ UNCHANGED <<at, then, flushing>>
  /\ UNCHANGED <<settled, failed>>

(* accept.  A malformed delivery is rejected; without a connection the     *)
(* rejection fails, and Run with it.                                       *)
accept(d) ==
  IF d \in Malformed
    THEN /\ IF up THEN settled' = settled \cup {d} /\ UNCHANGED <<at, failed>>
                  ELSE Return(TRUE) /\ UNCHANGED settled
         /\ UNCHANGED <<held, timer, then, flushing>>
    ELSE /\ IF Cardinality(held) + 1 >= BatchSize
              THEN StartFlush(held \cup {d}, at)
              ELSE /\ held' = held \cup {d} /\ resetTimer
                   /\ UNCHANGED <<at, then, flushing>>
         /\ UNCHANGED <<settled, failed>>

Receive ==
  /\ at \in {"select", "drain"}
  /\ bridge \in Delivery
  /\ bridge' = None
  /\ accept(bridge)
  /\ UNCHANGED <<waiting, source, open, stopVars>>

(* A variant of ReceiveClosed: the last batch is forgotten. *)
ReceiveClosedAndReturn ==
  /\ at \in {"select", "drain"}
  /\ bridge = "closed"
  /\ Return(FALSE)
  /\ UNCHANGED <<intakeVars, held, timer, then, flushing, settled, stopVars>>

ReceiveClosed ==
  /\ at \in {"select", "drain"}
  /\ bridge = "closed"
  /\ StartFlush(held, "returned")
  /\ UNCHANGED <<intakeVars, settled, failed, stopVars>>

TimerFires ==
  /\ timer = "running"
  /\ timer' = "fired"
  /\ UNCHANGED <<intakeVars, held, at, then, flushing, settled, failed, stopVars>>

Tick ==
  /\ at = "select"
  /\ timer = "fired"
  /\ StartFlush(held, "select")
  /\ UNCHANGED <<intakeVars, settled, failed, stopVars>>

(* <-ctx.Done(): what the bridge still offers is taken without waiting,    *)
(* then the batch is flushed.                                              *)
SeeDone ==
  /\ at = "select"
  /\ gaveUp
  /\ at' = "drain"
  /\ UNCHANGED <<intakeVars, held, timer, then, flushing, settled, failed, stopVars>>

DrainDefault ==
  /\ at = "drain"
  /\ StartFlush(held, "returned")
  /\ UNCHANGED <<intakeVars, settled, failed, stopVars>>

(* A variant of SettleDelivery that waits for the connection. *)
SettleDeliveryWhenUp(d) ==
  /\ at = "flush" /\ d \in flushing
  /\ up
  /\ flushing' = flushing \ {d}
  /\ settled' = settled \cup {d}
  /\ UNCHANGED <<intakeVars, held, timer, at, then, failed, stopVars>>

(* The flush has committed, retried or given up its events and settles the *)
(* deliveries; the first one that cannot be settled ends Run.              *)
SettleDelivery(d) ==
  /\ at = "flush" /\ d \in flushing
  /\ IF up THEN /\ flushing' = flushing \ {d}
                /\ settled' = settled \cup {d}
                /\ UNCHANGED <<at, failed>>
           ELSE Return(TRUE) /\ UNCHANGED <<flushing, settled>>
  /\ UNCHANGED <<intakeVars, held, timer, then, stopVars>>

(* Retry of a delivery whose batch failed.  What it reads may answer an    *)
(* earlier retry; its own answer is then owed, and makes no difference to  *)
(* the delivery here.  A retry whose own answer it reads is, as far as the *)
(* loop can tell, SettleDelivery.                                          *)
RetryReads(d) ==
  /\ at = "flush" /\ d \in flushing /\ up
  /\ unread > 0 /\ unread' = unread - 1
  /\ late' = late + 1
  /\ flushing' = flushing \ {d} /\ settled' = settled \cup {d}
  /\ UNCHANGED <<intakeVars, held, timer, at, then, failed, stop, gaveUp, up,
                 restarts>>

(* Nothing to read within the timeout, or workerCtx is done. *)
RetryTimesOut(d) ==
  /\ at = "flush" /\ d \in flushing /\ up
  /\ unread = 0 \/ gaveUp
  /\ late + unread < MaxTimeouts
  /\ late' = late + 1
  /\ flushing' = flushing \ {d} /\ settled' = settled \cup {d}
  /\ UNCHANGED <<intakeVars, held, timer, at, then, failed, stop, gaveUp, up,
                 unread, restarts>>

LateConfirmation ==
  /\ up /\ late > 0 /\ ~Blocked
  /\ late' = late - 1 /\ unread' = unread + 1
  /\ UNCHANGED <<intakeVars, batchVars, settled, failed, stop, gaveUp, up,
                 restarts>>

(* RabbitMQWorker.Run reports a loop that ends without having been asked. *)
FlushDone ==
  /\ at = "flush" /\ flushing = {}
  /\ at' = then
  /\ failed' = (failed \/ (then = "returned" /\ stop = "no"))
  /\ UNCHANGED <<intakeVars, held, timer, then, flushing, settled, stopVars>>

-----------------------------------------------------------------------------
(* RabbitMQWorker.Run: shutdown, failure and the next process *)

Terminate ==
  /\ stop = "no" /\ at # "returned"
  /\ stop' = "asked"
  /\ UNCHANGED <<intakeVars, batchVars, settled, failed, gaveUp, up, retryVars,
                 restarts>>

(* ch.Cancel returns with the broker's answer, which the reader brings, or *)
(* with the loss of the connection; no timer runs before it has returned.  *)
CancelIntake ==
  /\ stop = "asked" /\ at # "returned"
  /\ ~Blocked
  /\ stop' = "cancelled"
  /\ open' = FALSE
  /\ UNCHANGED <<waiting, source, bridge, batchVars, settled, failed, gaveUp, up,
                 retryVars, restarts>>

(* shutdownTimeout is over. *)
stopWorker ==
  /\ stop = "cancelled" /\ at # "returned"
  /\ gaveUp' = TRUE
  /\ UNCHANGED <<intakeVars, batchVars, settled, failed, stop, up, retryVars,
                 restarts>>

(* What the broker owes is lost with the connection. *)
ConnectionLost ==
  /\ up
  /\ up' = FALSE /\ late' = 0 /\ unread' = 0
  /\ open' = FALSE
  /\ UNCHANGED <<waiting, source, bridge, batchVars, settled, failed, stop,
                 gaveUp, restarts>>

(* The library drops what it had buffered when its connection closed.      *)
SourceDropped ==
  /\ ~up /\ source # <<>>
  /\ source' = <<>>
  /\ UNCHANGED <<waiting, open, bridge, batchVars, settled, failed, stopVars>>

(* The process ends after Run, or dies at any time; what was handed over   *)
(* and not settled is in the queue again when the next one starts.         *)
Restart ==
  /\ restarts < MaxRestarts /\ restarts' = restarts + 1
  /\ waiting' = waiting \cup Handed
  /\ source' = <<>> /\ open' = TRUE /\ bridge' = None
  /\ held' = {} /\ timer' = "off"
  /\ at' = "select" /\ then' = "select" /\ flushing' = {}
  /\ stop' = "no" /\ gaveUp' = FALSE /\ failed' = FALSE /\ up' = TRUE
  /\ late' = 0 /\ unread' = 0
  /\ UNCHANGED settled

LoopStep ==
  \/ Receive \/ ReceiveClosed \/ Tick \/ SeeDone \/ DrainDefault \/ FlushDone
  \/ \E d \in Delivery : SettleDelivery(d)

Retries ==
  LateConfirmation \/ \E d \in Delivery : RetryReads(d) \/ RetryTimesOut(d)

LoopNext ==
  \/ \E d \in Delivery : NewMessage(d) \/ Deliver(d)
  \/ BridgeTakes \/ BridgeEnds
  \/ LoopStep \/ Retries \/ TimerFires
  \/ Terminate \/ CancelIntake \/ stopWorker \/ ConnectionLost \/ SourceDropped
  \/ Restart

LoopSpec == LoopInit /\ [][LoopNext]_loopVars

(* Goroutines are scheduled, the timer runs out, and the broker delivers   *)
(* what waits.  select picks any of the cases that are ready, so one that  *)
(* is ready again and again is picked: strong fairness.  So is the answer  *)
(* to Cancel read by a reader that gets on again and again; one that stays *)
(* blocked never reads it, and the broker need not confirm what it owes.   *)
LoopFairness ==
  /\ WF_loopVars(LoopStep)
  /\ SF_loopVars(Tick) /\ SF_loopVars(SeeDone)
  /\ WF_loopVars(BridgeTakes \/ BridgeEnds)
  /\ WF_loopVars(TimerFires)
  /\ SF_loopVars(CancelIntake)
  /\ \A d \in Delivery : WF_loopVars(Deliver(d))

LoopFairSpec == LoopSpec /\ LoopFairness

-----------------------------------------------------------------------------
(* Properties *)

(* Types; the flush timer is armed exactly while the batch is not empty.   *)
LoopTypeOK ==
  /\ waiting \subseteq Delivery /\ source \in Seq(Delivery) /\ open \in BOOLEAN
  /\ bridge \in Delivery \cup {None, "closed"}
  /\ held \subseteq Delivery \ Malformed /\ flushing \subseteq Delivery \ Malformed
  /\ timer \in {"off", "running", "fired"} /\ (timer = "off" <=> held = {})
  /\ at \in {"select", "drain", "flush", "returned"}
  /\ then \in {"select", "drain", "returned"}
  /\ settled \subseteq Delivery
  /\ stop \in {"no", "asked", "cancelled"} /\ gaveUp \in BOOLEAN
  /\ failed \in BOOLEAN /\ up \in BOOLEAN
  /\ late \in Nat /\ unread \in 0 .. 2
  /\ restarts \in Nat

(* accept, flush, bridgeDeliveries: a delivery that was handed over is in  *)
(* the hands of one goroutine, in one batch, so that it is settled once.   *)
HandedOnce ==
  /\ held \cap flushing = {}
  /\ (held \cup flushing) \cap (Sourced \cup Bridged) = {}
  /\ (held \cup flushing \cup Sourced \cup Bridged) \subseteq Handed

(* Run, bridgeDeliveries, RabbitMQWorker.Run: a worker that returns        *)
(* without an error, in time and connected, has settled all it was handed. *)
GracefulStopSettlesAll ==
  (at = "returned" /\ ~failed /\ ~gaveUp /\ up) => Handed = {}

(* resetTimer, flush, accept: a delivery that is handed over is settled,   *)
(* or its worker returns; a batch that is not full does not wait for more. *)
(* A process that dies leaves it to the next one, which late confirmations *)
(* may keep from reading it: once for all, or again and again.             *)
HandedDeliveriesSettle ==
  \A d \in Delivery :
    \/ d \in Handed ~> (d \in settled \/ at = "returned")
    \/ []<>(d \in waiting /\ Blocked)

(* Run, RabbitMQWorker.Run, Retry: a worker that is told to stop returns,  *)
(* with or without its connection, unless late confirmations have blocked  *)
(* the connection's reader and it stays so: then Cancel does not return.   *)
StoppedWorkerReturns ==
  \/ stop # "no" ~> (at = "returned" \/ stop = "no")
  \/ <>[](stop = "asked" /\ Blocked)

(* "SIGINT/SIGTERM cancels broker intake, drains the bounded prefetched/    *)
(* in-process deliveries for up to 10 seconds, flushes the current batch,  *)
(* and then closes the AMQP channel and connection": Run returns.          *)
EveryStopReturns == stop # "no" ~> (at = "returned" \/ stop = "no")
=============================================================================
