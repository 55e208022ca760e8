--------------------------- MODULE ClickPipeline ---------------------------
(***************************************************************************)
(* The life of a click event, from the redirect that creates it to the     *)
(* PostgreSQL rows that account for it:                                    *)
(*                                                                         *)
(*   Recorder.Record --publish--> shortq.clicks --> worker batch           *)
(*        |  (limit, or          ^                    |  RecordClicks       *)
(*        |   publish failed)    | TTL                |  failed: copy       *)
(*        v                      +-- shortq.clicks.retry <--+               *)
(*   Store.RecordClick                                | give up: DLQ        *)
(*                                                                         *)
(* Several copies of one event may be under way at once: the publisher     *)
(* falls back when a confirmation is late although the broker took the     *)
(* message, a commit may succeed and still be reported as failed, and a    *)
(* worker that stops between two steps has its deliveries sent again.      *)
(*                                                                         *)
(* A queue is a bag, a function from messages to the number of copies of   *)
(* them: neither end relies on delivery order.  The retry publisher's      *)
(* channel keeps its order, because it pairs confirmations with publishes  *)
(* by position.                                                            *)
(***************************************************************************)
EXTENDS Naturals, Sequences, FiniteSets

CONSTANTS
  Event,       \* click events; each stands for one redirect and its event_id
  Link,        \* short links
  LinkOf,      \* the link of an event
  Counting,    \* events recorded with increment = true
  Undecodable, \* events whose body the worker's DecodeEvent rejects
  MaxRetries,  \* DefaultWorkerMaxRetries: database failures before the DLQ
  MaxCrashes,  \* bound on worker stops that lose the channel
  Faults,      \* which environment faults may happen, see FaultKinds
  NoMsg        \* no message is awaiting its retry confirmation

FaultKinds ==
  { "db_error",        \* a transaction fails, or its commit is reported failed
    "publish_loss",    \* a message sent by the HTTP server may never arrive
    "nack",            \* the broker refuses a retry publish
    "confirm_timeout", \* Retry gives up before the confirmation is read
    "server_crash",    \* the HTTP server stops in the middle of a request
    "long_backlog" }   \* a copy outlives the 90-day retention of its row

Try == 0 .. (MaxRetries - 1)

(* A message is an event and its x-shortq-retry-count header. *)
Msg == [ev : Event, tries : Try]

ASSUME PipelineAssumption ==
  /\ IsFiniteSet(Event)
  /\ LinkOf \in [Event -> Link]
  /\ Counting \subseteq Event
  /\ Undecodable \subseteq Event
  /\ MaxRetries \in Nat \ {0}
  /\ MaxCrashes \in Nat
  /\ Faults \subseteq FaultKinds
  /\ NoMsg \notin Msg

VARIABLES
  req,        \* what Recorder.Record is doing, or has answered, for an event
  wire,       \* events sent by the HTTP server that the broker has not seen
  reply,      \* the confirmation waiting on the publisher's channel
  mainq,      \* shortq.clicks, ready messages
  retryq,     \* shortq.clicks.retry, messages waiting for their expiration
  dlq,        \* events with a copy in shortq.clicks.dlq
  phase,      \* where the worker is
  batch,      \* deliveries held unacknowledged by the worker
  cur,        \* the delivery whose retry copy awaits confirmation
  rwire,      \* retry publishes the broker has not seen, in order
  confirms,   \* confirmations Retry has not read, in order
  crashes,    \* worker stops so far
  rows,       \* event ids present in table clicks
  purged,     \* event ids whose row PurgeOldClicks deleted
  clicks,     \* links.clicks
  views,      \* sum of click_rollups_daily.clicks of a link
  mode        \* the link row: open, limited (max_clicks set) or deleted

serverVars == <<req, wire, reply>>
brokerVars == <<mainq, retryq, dlq>>
workerVars == <<phase, batch, cur, rwire, confirms, crashes>>
storeVars  == <<rows, purged, clicks, views>>
vars == <<serverVars, brokerVars, workerVars, storeVars, mode>>

-----------------------------------------------------------------------------
(* Helpers *)

ReqState == {"idle", "publishing", "fallback", "direct",
             "queued", "recorded", "refused", "failed"}
Phase == {"down", "collect", "settle", "retry", "confirm"}
Mode == {"open", "limited", "deleted"}

EmptyQueue == [m \in Msg |-> 0]
Put(q, m) == [q EXCEPT ![m] = @ + 1]
Drop(q, m) == [q EXCEPT ![m] = @ - 1]
IsEmpty(q) == \A m \in Msg : q[m] = 0
Holds(q, e) == \E m \in Msg : m.ev = e /\ q[m] > 0

InSeq(s, e) == \E i \in DOMAIN s : s[i].ev = e
OfLink(S, l) == {e \in S : LinkOf[e] = l}

(* Events that are, or once were, booked in the counters. *)
Counted == rows \cup purged

(* Variant: rows and counters in two transactions, the second of which may  *)
(* be lost.  A variant is a bug the code does not have; the runs are        *)
(* validated by putting it in the place of the definition that follows it.  *)
PersistInTwo(S) ==
  /\ rows' = rows \cup S
  /\ \/ /\ clicks' = [l \in Link |->
                         clicks[l] + Cardinality(OfLink(S \cap Counting, l))]
        /\ views' = [l \in Link |-> views[l] + Cardinality(OfLink(S, l))]
     \/ UNCHANGED <<clicks, views>>
  /\ UNCHANGED purged

(* One committed transaction that inserts the rows of S and adds them to   *)
(* the counters and roll-ups: the part shared by RecordClick and           *)
(* RecordClicks, for events that ON CONFLICT let through.                  *)
Persist(S) ==
  /\ rows' = rows \cup S
  /\ clicks' = [l \in Link |->
                  clicks[l] + Cardinality(OfLink(S \cap Counting, l))]
  /\ views' = [l \in Link |-> views[l] + Cardinality(OfLink(S, l))]
  /\ UNCHANGED purged

(* Variant: the conflict on event_id is not noticed. *)
FreshIgnoringConflicts(S) == S

(* The events of a transaction that insertClick really inserts. *)
Fresh(S) == S \ rows

Init ==
  /\ req = [e \in Event |-> "idle"]
  /\ wire = {}
  /\ reply = "none"
  /\ mainq = EmptyQueue
  /\ retryq = EmptyQueue
  /\ dlq = {}
  /\ phase = "down"
  /\ batch = EmptyQueue
  /\ cur = NoMsg
  /\ rwire = <<>>
  /\ confirms = <<>>
  /\ crashes = 0
  /\ rows = {}
  /\ purged = {}
  /\ clicks = [l \in Link |-> 0]
  /\ views = [l \in Link |-> 0]
  /\ mode \in [Link -> {"open", "limited"}]

-----------------------------------------------------------------------------
(* HTTP server: Recorder.Record and RabbitMQPublisher.Publish *)

(* The link was read with max_clicks: straight to Store.RecordClick. *)
RouteDirect(e) ==
  /\ req[e] = "idle"
  /\ mode[LinkOf[e]] = "limited"
  /\ req' = [req EXCEPT ![e] = "direct"]
  /\ UNCHANGED <<wire, reply, brokerVars, workerVars, storeVars, mode>>

(* Publish holds the one-slot lock and has handed the message to the socket. *)
PublishSend(e) ==
  /\ req[e] = "idle"
  /\ mode[LinkOf[e]] = "open"
  /\ \A f \in Event : req[f] # "publishing"
  /\ req' = [req EXCEPT ![e] = "publishing"]
  /\ wire' = wire \cup {e}
  /\ UNCHANGED <<reply, brokerVars, workerVars, storeVars, mode>>

(* Publish fails before anything is sent: no lock in time, no channel. *)
PublishUnsent(e) ==
  /\ req[e] = "idle"
  /\ mode[LinkOf[e]] = "open"
  /\ req' = [req EXCEPT ![e] = "fallback"]
  /\ UNCHANGED <<wire, reply, brokerVars, workerVars, storeVars, mode>>

PublishConfirmed(e) ==
  /\ req[e] = "publishing"
  /\ reply = "ack"
  /\ req' = [req EXCEPT ![e] = "queued"]
  /\ reply' = "none"
  /\ UNCHANGED <<wire, brokerVars, workerVars, storeVars, mode>>

(* ErrPublishNack, ErrConfirmClosed or ErrConfirmTimeout.  reset closes the *)
(* channel, so no confirmation of this publish can be read any more.        *)
PublishUnconfirmed(e) ==
  /\ req[e] = "publishing"
  /\ req' = [req EXCEPT ![e] = "fallback"]
  /\ reply' = "none"
  /\ UNCHANGED <<wire, brokerVars, workerVars, storeVars, mode>>

(* Store.RecordClick.  The fallback passes no limit; the direct path passes *)
(* the one it read, and the comparison with clicks is left open here.       *)
RecordClick(e) ==
  /\ req[e] \in {"fallback", "direct"}
  /\ \/ /\ e \in rows
        /\ req' = [req EXCEPT ![e] = "recorded"]
        /\ UNCHANGED storeVars
     \/ /\ e \notin rows
        /\ e \in Counting => mode[LinkOf[e]] # "deleted"
        /\ Persist({e})
        /\ \/ req' = [req EXCEPT ![e] = "recorded"]
           \/ "db_error" \in Faults /\ req' = [req EXCEPT ![e] = "failed"]
     \/ /\ e \notin rows
        /\ e \in Counting
        /\ mode[LinkOf[e]] = "deleted" \/ req[e] = "direct"
        /\ req' = [req EXCEPT ![e] = "refused"]
        /\ UNCHANGED storeVars
     \/ /\ "db_error" \in Faults
        /\ req' = [req EXCEPT ![e] = "failed"]
        /\ UNCHANGED storeVars
  /\ UNCHANGED <<wire, reply, brokerVars, workerVars, mode>>

(* The process stops: every request it was serving ends unanswered. *)
ServerCrash ==
  /\ "server_crash" \in Faults
  /\ \E e \in Event : req[e] \in {"publishing", "fallback", "direct"}
  /\ req' = [e \in Event |->
               IF req[e] \in {"publishing", "fallback", "direct"}
               THEN "failed" ELSE req[e]]
  /\ reply' = "none"
  /\ UNCHANGED <<wire, brokerVars, workerVars, storeVars, mode>>

-----------------------------------------------------------------------------
(* Broker *)

(* The broker stores a persistent message and confirms it; nobody reads the *)
(* confirmation unless the request is still waiting on the same channel.    *)
BrokerTakesClick(e) ==
  /\ e \in wire
  /\ wire' = wire \ {e}
  /\ mainq' = Put(mainq, [ev |-> e, tries |-> 0])
  /\ reply' = IF req[e] = "publishing" THEN "ack" ELSE reply
  /\ UNCHANGED <<req, retryq, dlq, workerVars, storeVars, mode>>

(* Refused by the broker, or lost with its connection. *)
BrokerMissesClick(e) ==
  /\ e \in wire
  /\ "publish_loss" \in Faults
  /\ wire' = wire \ {e}
  /\ UNCHANGED <<req, reply, brokerVars, workerVars, storeVars, mode>>

BrokerTakesRetry ==
  /\ rwire # <<>>
  /\ retryq' = Put(retryq, Head(rwire))
  /\ rwire' = Tail(rwire)
  /\ confirms' = Append(confirms, "ack")
  /\ UNCHANGED <<serverVars, mainq, dlq, phase, batch, cur, crashes, storeVars, mode>>

BrokerRefusesRetry ==
  /\ rwire # <<>>
  /\ "nack" \in Faults
  /\ rwire' = Tail(rwire)
  /\ confirms' = Append(confirms, "nack")
  /\ UNCHANGED <<serverVars, brokerVars, phase, batch, cur, crashes, storeVars, mode>>

(* A retry message expires and dead-letters back to shortq.analytics. *)
RetryExpires(m) ==
  /\ retryq[m] > 0
  /\ retryq' = Drop(retryq, m)
  /\ mainq' = Put(mainq, m)
  /\ UNCHANGED <<serverVars, dlq, workerVars, storeVars, mode>>

-----------------------------------------------------------------------------
(* Worker *)

WorkerStart ==
  /\ phase = "down"
  /\ phase' = "collect"
  /\ UNCHANGED <<serverVars, brokerVars, batch, cur, rwire, confirms, crashes,
                 storeVars, mode>>

(* A delivery joins the batch, or is rejected to the DLQ if it does not parse. *)
Accept(m) ==
  /\ phase = "collect"
  /\ mainq[m] > 0
  /\ mainq' = Drop(mainq, m)
  /\ IF m.ev \in Undecodable
     THEN /\ dlq' = dlq \cup {m.ev}
          /\ UNCHANGED batch
     ELSE /\ batch' = Put(batch, m)
          /\ UNCHANGED dlq
  /\ UNCHANGED <<serverVars, retryq, phase, cur, rwire, confirms, crashes,
                 storeVars, mode>>

BatchEvents == {e \in Event : Holds(batch, e)}

(* Variant: RecordClicks forgets deleted_at IS NULL. *)
PoisonedByLimitOnly ==
  \E e \in Fresh(BatchEvents) \cap Counting : mode[LinkOf[e]] = "limited"

(* RecordClicks finds a counting event whose link is deleted or limited. *)
Poisoned ==
  \E e \in Fresh(BatchEvents) \cap Counting : mode[LinkOf[e]] # "open"

(* RecordClicks commits the batch; the deliveries may be acknowledged. *)
FlushCommits ==
  /\ phase = "collect"
  /\ ~IsEmpty(batch)
  /\ ~Poisoned
  /\ Persist(Fresh(BatchEvents))
  /\ phase' = "settle"
  /\ UNCHANGED <<serverVars, brokerVars, batch, cur, rwire, confirms, crashes, mode>>

(* RecordClicks returns an error: nothing is kept, unless only the answer *)
(* to COMMIT was lost.                                                    *)
FlushFails ==
  /\ phase = "collect"
  /\ ~IsEmpty(batch)
  /\ \/ /\ Poisoned \/ "db_error" \in Faults
        /\ UNCHANGED storeVars
     \/ /\ ~Poisoned
        /\ "db_error" \in Faults
        /\ Persist(Fresh(BatchEvents))
  /\ phase' = "retry"
  /\ UNCHANGED <<serverVars, brokerVars, batch, cur, rwire, confirms, crashes, mode>>

(* The worker is done with delivery m; with the last one the batch ends. *)
Settle(m, next) ==
  /\ batch' = Drop(batch, m)
  /\ phase' = IF IsEmpty(Drop(batch, m)) THEN "collect" ELSE next

AckCommitted(m) ==
  /\ phase = "settle"
  /\ batch[m] > 0
  /\ Settle(m, "settle")
  /\ UNCHANGED <<serverVars, brokerVars, cur, rwire, confirms, crashes, storeVars, mode>>

(* Variant: the exhausted delivery is acknowledged instead of rejected. *)
AckExhausted(m) ==
  /\ phase = "retry"
  /\ batch[m] > 0
  /\ m.tries + 1 >= MaxRetries
  /\ Settle(m, "retry")
  /\ UNCHANGED <<serverVars, brokerVars, cur, rwire, confirms, crashes,
                 storeVars, mode>>

(* attempt >= MaxRetries: the fifth failure rejects to the DLQ. *)
RejectExhausted(m) ==
  /\ phase = "retry"
  /\ batch[m] > 0
  /\ m.tries + 1 >= MaxRetries
  /\ Settle(m, "retry")
  /\ dlq' = dlq \cup {m.ev}
  /\ UNCHANGED <<serverVars, mainq, retryq, cur, rwire, confirms, crashes,
                 storeVars, mode>>

(* Variants: no confirmation is awaited; the limit is off by one; the count *)
(* of the copy is that of the original.                                     *)
RetryPublishUnconfirmed(m) ==
  /\ phase = "retry"
  /\ batch[m] > 0
  /\ m.tries + 1 < MaxRetries
  /\ rwire' = Append(rwire, [m EXCEPT !.tries = @ + 1])
  /\ Settle(m, "retry")
  /\ UNCHANGED <<serverVars, brokerVars, cur, confirms, crashes, storeVars, mode>>

RetryPublishOnceMore(m) ==
  /\ phase = "retry"
  /\ batch[m] > 0
  /\ rwire' = Append(rwire, [m EXCEPT !.tries = @ + 1])
  /\ cur' = m
  /\ phase' = "confirm"
  /\ UNCHANGED <<serverVars, brokerVars, batch, confirms, crashes, storeVars, mode>>

RetryPublishUncounted(m) ==
  /\ phase = "retry"
  /\ batch[m] > 0
  /\ m.tries + 1 < MaxRetries
  /\ rwire' = Append(rwire, m)
  /\ cur' = m
  /\ phase' = "confirm"
  /\ UNCHANGED <<serverVars, brokerVars, batch, confirms, crashes, storeVars, mode>>

(* Retry publishes a copy with the next retry count and waits. *)
RetryPublish(m) ==
  /\ phase = "retry"
  /\ batch[m] > 0
  /\ m.tries + 1 < MaxRetries
  /\ rwire' = Append(rwire, [m EXCEPT !.tries = @ + 1])
  /\ cur' = m
  /\ phase' = "confirm"
  /\ UNCHANGED <<serverVars, brokerVars, batch, confirms, crashes, storeVars, mode>>

(* The next confirmation is positive: acknowledge the original. *)
RetryConfirmed ==
  /\ phase = "confirm"
  /\ confirms # <<>>
  /\ Head(confirms) = "ack"
  /\ confirms' = Tail(confirms)
  /\ Settle(cur, "retry")
  /\ cur' = NoMsg
  /\ UNCHANGED <<serverVars, brokerVars, rwire, crashes, storeVars, mode>>

(* No positive confirmation: the original goes to the DLQ.  After a timeout *)
(* the confirmation stays unread on the channel.                            *)
RetryUnconfirmed ==
  /\ phase = "confirm"
  /\ \/ /\ confirms # <<>>
        /\ Head(confirms) = "nack"
        /\ confirms' = Tail(confirms)
     \/ /\ "confirm_timeout" \in Faults
        /\ UNCHANGED confirms
  /\ Settle(cur, "retry")
  /\ cur' = NoMsg
  /\ dlq' = dlq \cup {cur.ev}
  /\ UNCHANGED <<serverVars, mainq, retryq, rwire, crashes, storeVars, mode>>

(* The worker or its connection goes away: unacknowledged deliveries return *)
(* to the queue, and some prefix of the unsent retry publishes arrives.     *)
WorkerCrash ==
  /\ phase # "down"
  /\ crashes < MaxCrashes
  /\ crashes' = crashes + 1
  /\ mainq' = [m \in Msg |-> mainq[m] + batch[m]]
  /\ batch' = EmptyQueue
  /\ \E k \in 0 .. Len(rwire) :
       retryq' = [m \in Msg |->
                    retryq[m] + Cardinality({i \in 1 .. k : rwire[i] = m})]
  /\ rwire' = <<>>
  /\ confirms' = <<>>
  /\ cur' = NoMsg
  /\ phase' = "down"
  /\ UNCHANGED <<serverVars, dlq, storeVars, mode>>

-----------------------------------------------------------------------------
(* Store maintenance and link administration *)

NoCopies(e) ==
  /\ e \notin wire
  /\ ~Holds(mainq, e)
  /\ ~Holds(retryq, e)
  /\ ~Holds(batch, e)
  /\ ~InSeq(rwire, e)

(* Nothing is left that could still persist the event. *)
Quiet(e) ==
  /\ req[e] \notin {"idle", "publishing", "fallback", "direct"}
  /\ NoCopies(e)

(* PurgeOldClicks deletes rows older than 90 days, whatever the broker holds. *)
PurgeOldClicks(e) ==
  /\ e \in rows
  /\ Quiet(e) \/ "long_backlog" \in Faults
  /\ rows' = rows \ {e}
  /\ purged' = purged \cup {e}
  /\ UNCHANGED <<clicks, views, serverVars, brokerVars, workerVars, mode>>

(* UpdateLink sets or clears max_clicks; DeleteLink is final. *)
EditLink(l) ==
  /\ mode[l] # "deleted"
  /\ \E to \in Mode \ {mode[l]} : mode' = [mode EXCEPT ![l] = to]
  /\ UNCHANGED <<serverVars, brokerVars, workerVars, storeVars>>

-----------------------------------------------------------------------------
ServerStep(e) ==
  \/ RouteDirect(e) \/ PublishSend(e) \/ PublishUnsent(e)
  \/ PublishConfirmed(e) \/ PublishUnconfirmed(e) \/ RecordClick(e)

BrokerStep ==
  \/ \E e \in Event : BrokerTakesClick(e) \/ BrokerMissesClick(e)
  \/ BrokerTakesRetry \/ BrokerRefusesRetry
  \/ \E m \in Msg : RetryExpires(m)

WorkerStep ==
  \/ WorkerStart
  \/ \E m \in Msg : Accept(m) \/ AckCommitted(m) \/ RejectExhausted(m) \/ RetryPublish(m)
  \/ FlushCommits \/ FlushFails
  \/ RetryConfirmed \/ RetryUnconfirmed

Next ==
  \/ \E e \in Event : ServerStep(e) \/ PurgeOldClicks(e)
  \/ BrokerStep
  \/ WorkerStep
  \/ ServerCrash \/ WorkerCrash
  \/ \E l \in Link : EditLink(l)

Spec == Init /\ [][Next]_vars

(* What the scheduling justifies: the broker moves what it holds, the worker *)
(* runs and is restarted by its supervisor.  Requests need no fairness.      *)
Fairness ==
  /\ WF_vars(\E e \in Event : BrokerTakesClick(e))
  /\ WF_vars(BrokerTakesRetry \/ BrokerRefusesRetry)
  /\ \A m \in Msg : WF_vars(RetryExpires(m))
  /\ WF_vars(WorkerStart)
  /\ \A m \in Msg : WF_vars(Accept(m))
  /\ WF_vars(FlushCommits \/ FlushFails)
  /\ WF_vars(\E m \in Msg : AckCommitted(m) \/ RejectExhausted(m) \/ RetryPublish(m))
  /\ WF_vars(RetryConfirmed \/ RetryUnconfirmed)

FairSpec == Spec /\ Fairness
-----------------------------------------------------------------------------
(* Properties *)

TypeOK ==
  /\ req \in [Event -> ReqState]
  /\ wire \subseteq Event
  /\ reply \in {"none", "ack"}
  /\ mainq \in [Msg -> Nat]
  /\ retryq \in [Msg -> Nat]
  /\ dlq \subseteq Event
  /\ phase \in Phase
  /\ batch \in [Msg -> Nat]
  /\ cur \in Msg \cup {NoMsg}
  /\ rwire \in Seq(Msg)
  /\ confirms \in Seq({"ack", "nack"})
  /\ crashes \in 0 .. MaxCrashes
  /\ rows \subseteq Event
  /\ purged \subseteq Event
  /\ clicks \in [Link -> Nat]
  /\ views \in [Link -> Nat]
  /\ mode \in [Link -> Mode]

(* Counters and roll-ups equal unique inserted events: whichever of the two *)
(* persistence paths books an event, however many copies of it are          *)
(* delivered and whatever fails in between, links.clicks and the roll-up    *)
(* total of a link are the numbers of its distinct events.                  *)
CountersMatchEvents ==
  \A l \in Link :
    /\ clicks[l] = Cardinality(OfLink(Counted \cap Counting, l))
    /\ views[l] = Cardinality(OfLink(Counted, l))

(* The event is booked, parked for an operator, or has a copy that the      *)
(* broker or the worker still owes an outcome.                              *)
Accounted(e) ==
  \/ e \in Counted \cup dlq
  \/ Holds(mainq, e) \/ Holds(retryq, e) \/ Holds(batch, e)
  \/ InSeq(rwire, e)

(* A redirect that was answered because its click was accepted -- confirmed *)
(* by the broker or committed by RecordClick -- never loses that click: no  *)
(* acknowledgement of the worker removes the last trace of it.              *)
AcceptedClicksKept ==
  \A e \in Event : req[e] \in {"queued", "recorded"} => Accounted(e)

(* RecordClick answered false and the visitor got the expired page: the     *)
(* click is not counted later through a copy that was still queued.         *)
RefusedClicksStayUncounted ==
  \A e \in Event : req[e] = "refused" => e \notin Counted

(* An event that the broker confirmed ends up booked or in the DLQ, through *)
(* retries, redeliveries and restarts of the worker.                        *)
QueuedClicksSettle ==
  \A e \in Event : (req[e] = "queued") ~> (e \in Counted \cup dlq)

(* The broker's queues and the worker run empty again: no message is        *)
(* retried, requeued or redelivered for ever.                               *)
QueuesDrain ==
  []<>(\A e \in Event : ~Holds(mainq, e) /\ ~Holds(retryq, e) /\ ~Holds(batch, e))

(* Every step books fresh events in all three places, or books nothing.     *)
Ledger == INSTANCE ClickLedger WITH counted <- Counted
ImplementsLedger == Ledger!Spec
=============================================================================
