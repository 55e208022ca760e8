# ShortQ in TLA+

ShortQ is a multi-tenant URL shortener: a Go HTTP server that redirects short
links and administers them, an optional RabbitMQ queue with a separate
`analytics-worker` process that persists click events, a Redis cache for
redirects, PostgreSQL as the record of everything, and a page in plain
JavaScript that administers it over the HTTP API. This directory holds its
formal models: TLA+ modules translated from the Go and JavaScript source, TLC
configurations that check small instances, and TLAPS proofs for all instances.

    tlc -workers 2 -config PipelineFaults.cfg MCClickPipeline
    tlapm ClickPipeline_proofs.tla

`PROJECT.json` names, for every definition that models code, the lines it stands
for, and for every property a *mutant*: a change of one definition, such as a
plausible bug, under which the run must find the property violated. Some
mutants are definitions of their own in the modules, marked `Variant`; no
specification uses them, they describe bugs the code does not have.

## 1. Inventory

### Components, their state and their operations

| component | source | state | operations |
|---|---|---|---|
| Click recorder | `clickqueue/clickqueue.go` | none of its own | `Record`: direct, queue, or queue with fallback |
| Publisher | `clickqueue/rabbitmq.go` | one connection and channel, one-slot lock, confirmation channel | `Publish`, `ensureChannel`, `reset`, `Close` |
| Broker topology | `rabbitmq.go`, `worker_rabbitmq.go` | `shortq.clicks`, `.retry`, `.dlq` | route, confirm, expire, dead-letter, redeliver |
| Analytics worker | `clickqueue/worker.go` | batch, flush timer, metrics | `Run`, `accept`, `flush`, `retry` |
| Worker transport | `clickqueue/worker_rabbitmq.go` | delivery channels, worker context, confirmations | `RabbitMQWorker.Run`, `bridgeDeliveries`, `Retry`, shutdown and drain |
| Click store | `store/store.go` | `clicks`, `links.clicks`, `click_rollups_daily` | `RecordClick`, `RecordClicks`, `PurgeOldClicks` |
| Redirect cache | `redirectcache/` | Redis entries per host and slug | `Resolve`, `Invalidate`, expiry |
| Links | `store/store.go`, `handlers/handlers.go` | `links`, `link_geo_targets` | create, import, `UpdateLink`, `UpdateLinksBulk`, `DeleteLink` |
| Domains | same | `tenant_domains` | create, verify, lazy re-verify, update, delete |
| Redirect handler | `handlers/handlers.go` | password attempt limiter | host check, password gate, target selection |
| Accounts, sessions, keys | `store/store.go`, `handlers/{handlers,context,oidc}.go`, `auth/` | `users`, memberships, keys, cookies | login, SSO, deactivate, switch tenant |
| Audit log | `store/store.go`, `handlers/handlers.go` | `audit_logs` | append after a mutation |
| Reports | `store/report.go`, `handlers/reports.go` | none (reads) | window, buckets, top lists |
| Database access | `store/database.go`, `db/` | pool | transactions, placeholder rewriting |
| Request metrics | `handlers/request_metrics.go` | counters | observe |
| Start-up and configuration | `cmd/server`, `config/` | environment | `Load`, serve, worker sub-command |
| Deployment | `scripts/deploy.sh` | deployed tag | deploy, roll back |
| Web client | `web/app.js`, `web/reports.js` | globals of the page (session, cursors, loaded views, link cache, open report), DOM, the modal dialog | paged lists, confirmed changes, mode and routes, report page and charts, edit dialog, QR form |
| API documentation page | `web/docs-assets/` | none | Swagger UI, vendored |

### Interactions

    visitor --> redirect handler --> Resolver --> Redis      (hit)
                      |                 '-------> PostgreSQL (miss, then Redis)
                      v
                   Recorder --publish--> RabbitMQ --> worker --RecordClicks--> PostgreSQL
                      '------------- RecordClick (limit or failed publish) ------^

    editor  --> link and domain handlers --> PostgreSQL, then Resolver.Invalidate --> Redis

    user --> web client --HTTP, session cookie--> handlers --> answers, in any order, rendered
                                                               when they arrive

Three points couple these parts. A click event carries an `event_id`, under
which either persistence path may insert it; the loser sees `ON CONFLICT DO
NOTHING` and leaves the counters alone. And an edit is a database transaction
followed, outside it, by one `DEL` per host name. And the page and the server
share nothing but the session cookie, which holds the dashboard mode and is
shared by all tabs: what the page shows was read under the cookie of the moment
a request was sent, and is rendered under the globals of the moment its answer
arrives.

### What is hard, and what makes each part correct

* *Click pipeline* — the publisher cannot tell a refused message from one that
  was accepted late, so it falls back and two copies race; a worker stops
  between commit and acknowledgement, or between retry confirmation and
  acknowledgement; a commit succeeds and its answer is lost; a link is deleted
  or limited while its clicks are queued; confirmations are matched with
  publishes by position only. Correct means: counters and roll-ups are the
  numbers of distinct events; an accepted click is never lost; a refused
  visitor is not counted; the queues come to rest.
* *Redirect cache* — a visit reads the cache, the row and the geo targets and
  writes the cache in four steps, an edit commits, re-reads, lists the hosts
  and deletes in several more; hosts become active and inactive meanwhile; any
  Redis call may fail and none is retried. Correct means: no gated link in the
  cache; outdated entries only while an invalidation is under way or after a
  named race; and recovery from everything by expiry.
* *Links and domains* — read-merge-write `PATCH`es, multi-link transactions
  with a re-read after commit, DNS checks that outlive the status they began
  with.
* *Accounts* — requests that passed authentication before a deactivation, two
  first sign-ons of one person.
* *Database* — row locks taken in batch order by the worker, in request order
  by bulk edits.
* *Worker loop* — the flush timer against the size limit, drain and shutdown
  budget, a lost connection at any of these points, a confirmation buffer of
  one between the retries and the one reader of the connection. Correct means:
  what is handed over is settled once, and in bounded time; a stop in time loses
  nothing; a worker that is told to stop does, which the buffer can prevent.
* *Web client* — no request is ever cancelled and no answer is matched with the
  state it was asked for in: answers overtake, arrive after the page moved on,
  or fail after the state moved. Views are loaded once and then trusted. One
  dialog element serves every confirmation. An expiry is written in UTC, to the
  minute, and read in local time. Correct means: what is shown, its page number and its
  Next button belong together; a list that has settled shows the server's rows;
  Admin panels are open in Admin mode only; nothing is changed without the
  confirmation of its own dialog; an edit stores what was typed and no more.

`PROJECT.json` lists each hazard at its line with the properties that cover it
or the reason none does yet.

## 2. Modules

| module | what it is |
|---|---|
| `ClickLedger` | abstract specification: events are booked at most once, in three places in one step |
| `ClickPipeline` | recorder, publisher, broker, worker and click store; implements `ClickLedger` |
| `MCClickPipeline` | instances for TLC |
| `ClickPipeline_proofs` | type correctness, refinement and three safety invariants |
| `ClickLimit` | `max_clicks`: redirects, batches and edits of one link, statement by statement |
| `ClickLimit_proofs` | its four invariants; exactness without edits |
| `RedirectCache` | visits, edits, deletion, domain changes and expiry around the Redis cache |
| `MCRedirectCache` | instances for TLC |
| `MCRedirects` | the limit beside the cache, for TLC |
| `RedirectCache_proofs` | type correctness and two safety invariants; which hosts an invalidation reaches |
| `WorkerLoop` | the worker's goroutines: bridge, loop with its timer, retries, shutdown, lost connection, restart |
| `MCClickWorker` | the loop beside the pipeline, for TLC |
| `WorkerLoop_proofs` | its three invariants |
| `WebPage` | what the modules of the web client share |
| `PagedLists` | cursor stacks of the four paged lists |
| `ConfirmedChanges` | the modal dialog, changes and the reload of their lists |
| `Lists_proofs` | the three invariants of the lists, the two of the changes |
| `Dashboard`, `Dashboard_proofs` | session, mode, routes and views loaded once; its four invariants |
| `ReportView` | the report page and its period |
| `Charts` | the charts of a report, as operators |
| `Reports_proofs` | the three invariants of the report page, the two of its charts |
| `LinkEdits`, `LinkEdits_proofs` | edit dialog, `PATCH` and bulk handlers; codes and expiries, what an update stores |
| `MCWebClient`, `MCConfirmedChanges`, `MCLinkEdits` | instances for TLC |

### ClickPipeline

An event stands for one redirect and its `event_id`. `req[e]` is the point
`Recorder.Record` has reached for it, then the answer the visitor got.

| state | code |
|---|---|
| `req`, `wire`, `reply` | a request in `Record`/`Publish`; bytes on the socket; the publisher's confirmation channel |
| `mainq`, `retryq`, `dlq` | the three durable queues |
| `phase`, `batch` | where `Worker.Run` is; unacknowledged deliveries |
| `cur`, `rwire`, `confirms` | the delivery `Retry` works on; its publishes and unread confirmations, in order |
| `rows`, `purged` | `clicks.event_id` values present, and deleted by retention |
| `clicks`, `views` | `links.clicks`, sum of `click_rollups_daily.clicks` |
| `mode` | `open`, `limited` (`max_clicks` set), `deleted` |

*Publisher.* `RouteDirect`, `PublishSend`, `PublishUnsent` start `Record`;
`PublishConfirmed` and `PublishUnconfirmed` end the wait under the one-slot
lock; the latter stands for NACK, timeout and closed channel alike, all of
which reset the channel, so a confirmation never reaches another request.
`RecordClick` is the whole transaction, including the rollback of the row when
the counter update matches no link and the early commit on a conflict.
*Broker.* Takes or misses a message, expires a retry into the main queue.
*Worker.* `Accept` (or reject what does not decode), `FlushCommits` and
`FlushFails` (one transaction; a single counting event on a deleted or limited
link fails the whole batch), then per delivery `AckCommitted`, or
`RejectExhausted`, `RetryPublish`, `RetryConfirmed`, `RetryUnconfirmed`.
`WorkerCrash` returns the unacknowledged deliveries, and any prefix of the
unconfirmed publishes arrives. *Store and links.* `PurgeOldClicks`,
`EditLink`.

Abstractions, beyond leaving out payloads, logs and metrics:

* Queues are bags, and the order in which a batch is acknowledged or retried is
  left open; neither end relies on it.
* Back-off times are left out: a waiting retry expires at some moment.
* `Publish` reconnects and sends once more when the *write* fails; nothing was
  accepted then, so the model has one send. A publish that fails in `Retry`
  before anything is sent behaves as one the broker refuses.
* The route of an event is chosen by the link's mode when `Record` runs. The
  handler has read the link a little earlier, or from the cache; an edit
  in between commutes with the publish, because nothing else in the pipeline
  looks at the mode before the batch does.
* On the direct path the comparison of `clicks` with `max_clicks` is left open:
  it accepts or refuses. That comparison is the subject of `ClickLimit`.
* With `CLICK_QUEUE_ENABLED=false` every event takes the direct path, a subset
  of these behaviours.
* A stopped server loses the requests it was serving; their bytes on the socket
  may still reach the broker.

### ClickLimit

One link, because the condition of the counter's `UPDATE` is about one row.
`ClickPipeline` has a transaction in one step; here it has a step for each
statement, so that transactions overlap.

| state | code |
|---|---|
| `max`, `kept`, `clicks` | `links.max_clicks`, `deleted_at IS NULL`, `clicks` |
| `stored`, `queue` | the committed rows of `clicks`; events the broker holds a copy of |
| `visit` | a redirect: the limit and the route it read, then what the visitor got |
| `tx` | a transaction: its deliveries, what is left, inserted and counted, and the link's row lock |
| `mark` | history: the counter at the last edit, and how many redirects had read the link by then |

`Redirect` reads the link, `Record` chooses the transaction or the queue;
`insertClick`, `countClick`, `Commit` or `RowRefused` are the transaction of
`RecordClick`, run by the redirect itself, and of `RecordClicks`, run by a
worker on a batch (`TakeBatch`). `LockLink` and `CommitEdit` are an update that
sets `max_clicks`. Row locks are PostgreSQL's: a second insert of an event waits
for the first, an update waits for the last and looks at its condition again, and
`FOR UPDATE` and the foreign key of a new click exclude each other.

Abstractions: a redirect served from the cache has read the link when the entry
was loaded; the roll-up row is part of `ClickPipeline`; a deadlock, which the
database ends, is a transaction that fails; copies in the dead-letter queue stay
in `queue`, where they may be taken again; retention is left out.

### RedirectCache

One link is followed; slugs are globally unique and immutable and an entry is
keyed by host and slug, so other links' entries never meet this one's. A
destination is the number of the edit that wrote it. `CachedRedirect` is a
record of the version of the row and the version of the geo targets, because
`LinkBySlug` reads them in two statements.

| state | code |
|---|---|
| `ver`, `live` | the committed `links` row and its geo targets, `deleted_at IS NULL` |
| `status` | `tenant_domains.status` of each alias, or absent |
| `cache` | the Redis entry of each host |
| `pc`, `host`, `got`, `todo` | a request: its next access, the host asked for, what was read, hosts to delete |
| `late` | history variable: hosts whose entry was already outdated when stored |

A visit: `redirectSlug` (host check, perhaps a lazy DNS check: `DomainConfirmed`,
`DomainLapsed`), `CacheHit` or `CacheMiss`, `LoadRow`, `LoadGeo`, `StoreEntry`;
with `LoadFails`, `StoreFails`. A writer: `EditCommits`, `EditReread` (or
`EditRereadFails`: the handler answers 400 and invalidates nothing),
`DeleteCommits`, `ListHosts`, `Invalidate` per host; `DomainWrite`, `ListSlugs`
for the domain handlers.

Abstractions: key and host normalisation; the order of the deletes within one
invalidation; a version mismatch or an entry that does not decode is a miss; a
transaction that fails is no step; a Redis outage is any number of failing
calls; a `Set` reported as timed out that is applied all the same is a
`StoreEntry` at the later moment.

### WorkerLoop

`ClickPipeline` says what a flush does; `WorkerLoop` says when one happens.

| state | code |
|---|---|
| `waiting`, `source`, `open` | the queue; the delivery channel of the client library |
| `bridge` | what `bridgeDeliveries` is sending, or that it closed the worker's channel |
| `held`, `timer` | `batch`; `timerC` nil, running, or with a tick in it |
| `at`, `then`, `flushing` | where `Worker.Run` is, where it returns to from a flush, what the flush has not settled |
| `stop`, `gaveUp`, `failed` | the shutdown goroutine; `workerCtx` done; the error returned |
| `up`, `restarts` | the connection; processes started |
| `late`, `unread` | confirmations the broker owes to retries that timed out; those that came and that no `Retry` has read |

`Receive` is one delivery of the loop or the drain and all of `accept`, up to
and including the start of a flush; `SettleDelivery` one `Ack` or `Reject`,
which fails without a connection and ends `Run`. `SeeDone`, then `Receive` or
`DrainDefault` are the drain, whose `default` may be taken although the bridge
is about to offer a delivery. `BridgeEnds` also covers a bridge that drops what
nobody takes once the context is done. `ConnectionLost` closes the library's
channel, which then may or may not deliver what it had buffered
(`SourceDropped`). `Restart` starts a process after a return or a crash.

One goroutine of the library reads the connection and hands on deliveries,
answers and confirmations in the order they come. `confirms` holds one
confirmation (`worker_rabbitmq.go:77`). `RetryTimesOut` leaves its own to come
later, `LateConfirmation` is its coming, and `RetryReads` is a retry that takes
it for its own. When a second one comes before a retry has read the first, the
reader waits (`Blocked`), and until a retry makes room nothing is delivered
and `ch.Cancel` is not answered: `CancelIntake` and `Deliver` need a reader that
is not blocked. `ch.Cancel` has no timeout, and the ten seconds of the shutdown
are counted only after it.

Abstractions: the outcome of a flush (a retried or exhausted delivery is
settled like a booked one), the prefetch limit, back-off, and the time budget,
which is over at any moment after the cancellation. A settled delivery stands
for the next message of the queue. The deferred closing of channel and
connection is left out: it waits for the same reader, so that a worker that
leaves its loop with the reader blocked may hang there instead. A heartbeat
that notices a stuck connection is a `ConnectionLost`, which nobody guarantees.

### The web client

A handler runs to its first `await`, and the rest of it when the answer
arrives, with the globals of that moment. Each module is a group of globals
with every handler that reads or writes them, and none reads what another
writes; `WebPage` has the request slots and `Nil`.

*PagedLists.* Per list `cursor`, `history`, `next` are the three globals,
`pageShown` and `label` what `renderPage` left, `underWay` the unanswered
requests, `due` that the view is not in `loadedWorkspaceViews`. A listing is
the successor relation of its cursors. `asked` remembers the query a walk began
with and `disturbed` that a request overlapped another, failed, or mixed in a
filter that was not submitted; a reset that is alone ends it.

*ConfirmedChanges.* `dialog` and `returnValue` are the one `<dialog>`; a
confirmed change goes out as a request, `Serve` is the server's part,
`Succeed` starts the reload, `RenderRows` ends it. Escape closes a dialog at any
time, with whatever `returnValue` holds. `unconfirmed` and `excused` are history.

*Dashboard.* `cookie` is the session the browser sends, `user` the mode the page
believes in, `hash`, `view`, `loaded`, `content` what is open and rendered,
`call` what each running handler still has to do. Another tab may switch the
mode, and the session may end. `ver` counts the changes a view would show.
`Change` says of each change which views show it (`alters`), which of them
the page forgets or reloads, and which it leaves as they are
loaded (`leaves`): every change adds an audit event, and only the switch of deletion access forgets the Audit
view; a deletion alters the Click analytics, which nothing forgets. `crossed`
names views that a switch met while they were being loaded, `doubtful` those
that a change met while they were being loaded, that failed, or that a change
left.

*ReportView.* The open report, the form's period, what is rendered, and the
requests; a midnight may pass between any two steps. The server's window check
(`parseReportWindow`) is an operator.

*LinkEdits.* Both ends of an update: `linkCache` and the edit dialog with its
conversion of the expiry; the handlers as `ReadCurrent`, merge and validation
(`applyLinkPayload`, `Valid`), `Update` of the whole row, `ReadUpdated`,
`Audit`. A row has five fields, one for each way a field is treated: in every
form, in none, converted, excluding another, and written only when sent. An
expiry is in seconds: the server takes any, `toDigits` shows the minute in UTC
(`toISOString().slice(0, 16)`), and `toInstant` reads it as local time.

*Charts.* Not a process: a report is built up point by point and drawn; the
arithmetic is that of the code, in tenths.

## 3. Runs

On two cores `Redirects` and `WebClient` take about three minutes,
`WorkerRetries` under two, the others one or less.

| run | question | distinct states | result |
|---|---|---|---|
| `PipelineFaults` | books, accepted and refused clicks, refinement, under every fault but two | 333,702 | holds |
| `WorkerRetries` | books under late retry confirmations; the loop: settled once, and in time, stops, unless its reader is blocked | 142,925 | holds |
| `WorkerBlockedStop` | a worker told to stop returns, whatever its retries did | | violated |
| `Redirects` | how far a limit is passed; who is turned away; rows, counter and answers; outdated cache entries | 1,616,986 | holds |
| `PipelineLiveness` | retries and redelivery end, with 3 failures to the DLQ and undecodable bodies | 146,066 | holds |
| `PipelineLostRetry` | accepted clicks under late retry confirmations | | violated |
| `CacheConvergence` | gated versions; the cache catches up | 77,900 | holds |
| `CacheLateFill` | nothing outdated after an invalidation | | violated |
| `CacheDeletedAlias` | every affected alias is invalidated | | violated |
| `WebClient` | lists, dialogs, session and views, reports, edits, charts | 875,545 | holds |
| `ChangesEscape` | every change was confirmed, with Escape after an earlier confirmation | | violated |
| `EditsShiftExpiry` | an update stores the edit, in a browser ahead of UTC | | violated |

**Composition.** `MCWebClient`, `MCClickWorker` and `MCRedirects` check several
modules in one run. Their parts share no variable, so a property of one holds of the whole if
it holds of the behaviours in which only that part moves: the run chooses the
part at the start (`part`) and the others stay in an initial state.

**Bounds.** *Events*: two, of one link. Every property is about one event or
the sum over a link's events; a second event is what puts a stranger into the
batch, the publisher's lock, the confirmation order and the counter. Copies of
an event are not bounded: they arise from the model's faults. *MaxRetries* is 2
or 3 where the code has 5: 2 gives one retry and a DLQ, 3 a retry of a retry.
*MaxCrashes* is 1; each worker stop can fall between any two steps.
*Requests* in the cache runs: two or three at once, each starting over when it
has finished; three is the first number with a visit, an edit and a domain
change or second edit overlapping. *MaxEdits* is 2 (versions 0 to 2), so that
an entry can mix two versions while a third is current. One alias beside the
base host; the proofs cover any number.

*Limits*: three redirects and the limits 1 and 2, so that a limit can be reached,
passed and raised; one worker with batches of two, one editor, and two edits,
deletions or failures (`MaxChanges`) after a start with or without a limit: an
edit and its undoing, or an edit and a failing transaction beside it.

*Worker loop*: three deliveries, one of them malformed, batches of two: a batch
that fills, one that the timer flushes, and one cut short by the end; two
processes; `MaxTimeouts` is 2, at most two confirmations outstanding or unread,
the least number that blocks the reader. *Lists*: two listings, of two and of four pages, so that a walk has
a page before, between and behind; two requests at once, the least number that
overtakes; four handlers. `OneListWalked` leaves out states in which two lists
are walked at once: lists share nothing but the role, and what changes several
of them at once (a mode switch) is checked with one of them anywhere. *Changes*:
one row of each kind (a second row is only another row of the same list), two
requests, three operations. `KeysLikeDomains` and `LockedAtFirst` each halve the
initial states: the kinds are independent but for the slots they share, and
deletion access is switched on before it is switched off. *Dashboard*: a view of
each sort, three things the user does, two requests. *Report*: two reports,
three presets of which one is the limit of ninety days, dates on both sides of
the window, one midnight, four inputs. *Edits*: one link, two updates at once, of
any sort, one typed value, an expiry with seconds and one without; `SameLinks` fixes the initial destination, term and
code, which matter only by being changed. *Charts*: up to nine points (one more
than a bar chart shows) with counts that round away and that make a bar thinner
than the least one drawn.

**Faults** are a constant, so that a run says what it tolerates. The pipeline's
are a failing or ambiguous transaction, a lost or refused publish, a refused
retry, a retry confirmation after its timeout, a server crash, and a copy older
than the retention of 90 days. `PipelineFaults` has all of them but late
retry confirmations and purged rows. These two each defeat one promise: the
first the keeping of accepted clicks (`PipelineLostRetry`), the second the books,
because a copy that waits in a queue for the 90 days of the retention is booked
again after its row is purged (`docs/analytics-persistence.md:23` calls a later
delivery harmless without that condition). That they defeat no other is proved
(`AcceptedNeverLost` allows purged rows) and, for the books under late
confirmations, checked by `WorkerRetries`. The web client's faults are a
failing load, a lost or refused change, another tab and the end of the session.
Pressing Escape is no fault: it is possible in every run.

**Deadlock** is not checked in the pipeline and web runs: once every request is
answered and the queues are empty, or the user has done what the bounds allow,
the system rests; nor in `Redirects`, whose limit comes to rest likewise. It is
checked in `CacheConvergence`.

**Symmetry** permutes requests (visits and their events among them) in
`Redirects` and in `WebClient`; no action or invariant names one, and the one action property
there is a condition on single steps. The liveness runs use none.

**Fairness.** In the pipeline: the broker takes or refuses what is on a channel,
delivers, and expires retries (a per-message expiration is set on each); the
worker's loop goes on, every database and broker call in it having a timeout,
and its supervisor restarts it. Publishing, crashes, edits and retention are
never obliged to happen. Flushing is one weakly fair disjunction, so the
database may fail for ever; the retry count makes that finite. In the cache:
a request that has begun goes on, and Redis drops an entry after its TTL, which
`Get` does not renew. Nobody is obliged to visit, edit or verify. In the worker's
loop: its goroutines are scheduled, the timer runs out, and the broker delivers
what waits. Go's `select` picks at random among the
cases that are ready, so one that is ready again and again is picked: strong
fairness for the tick and for `ctx.Done()`. Weak fairness of the loop would not
do, as an endless run of malformed deliveries keeps it busy while a batch waits.
`CancelIntake` is strongly fair for another reason: the reader that brings the
broker's answer may block and get on again many times, and brings it in one of
the times it gets on. A reader that stays blocked is never enabled and never obliged;
nor is the broker obliged to confirm late, nor a retry to time out.
A call to PostgreSQL is taken to return: `RecordClicks` has no deadline of its
own, and a stop waits for it. Connections are not obliged to be lost, nor anyone
to ask for a stop. The web client has no liveness property: a request without an
answer is waited for for ever, and nothing retries.

## 4. What the runs show

* `CountersMatchEvents` and `ImplementsLedger`: with two persistence paths,
  redelivery, crashes and ambiguous commits, every event is booked at most
  once and in all places at once.
* `AcceptedClicksKept`: an answered and accepted click is booked, in the DLQ, or
  owned by a queue, an unacknowledged delivery or a publish on its way.
* `RefusedClicksStayUncounted`: the visitor who got the expired page through the
  synchronous path is not counted by a queued copy. It relies on deletion being
  final and on the direct path never having a copy.
* `OverrunIsBounded`: a limit is exact for redirects that read it: the counter
  passes it by at most one for each redirect that had read the link before the
  limit was set, whichever of queue, batch and fallback they take.
  `RefusedOnlyWhenSpent`: a visitor is turned away only when the limit is used up
  by committed clicks, or the link is deleted.
  `BooksMatchAnswers`: statement by statement too, the counter is the number of
  rows that count, a refused click never gets a row from another copy, and an
  answered redirect has a row or a message.
* `QueuedClicksSettle`, `QueuesDrain`: also when a link is deleted or limited
  while its clicks are queued, which fails whole batches.
* `StaleOnlyWhilePending`: while the link exists, an entry that was current when
  stored is outdated only while an invalidation of it is on its way. Two
  kinds of outdated entry are thereby named and left out: the late fill
  (`late`), and, by the fault `late_reverify`, the domain set back to active by
  a DNS check begun before it was set to pending, without an invalidation.
* `GatedNeverStored`: a version with a password or `max_clicks` is never stored,
  even when row and geo targets come from both sides of an edit.
* `CacheConverges`: whatever went wrong, expiry repairs it. A late fill is not
  renewed by its hits.

* `LoopTypeOK` (with the flush timer armed exactly while the batch is not empty),
  `HandedOnce`: no delivery is in two batches, or in a batch and on its way to
  one, over every order of size flushes, ticks, drain and restart.
* `GracefulStopSettlesAll`: a worker that returns in time, connected and without
  an error has settled all it was handed, what the library had buffered included.
* `HandedDeliveriesSettle`, `StoppedWorkerReturns`: no delivery waits for a batch
  to fill, and a stop ends the process with or without its connection. The one
  exception is stated in both: a reader blocked by late confirmations, which
  keeps a worker that was asked to stop waiting, or a delivery that a crash gave
  back in the queue. That a stop can wait for ever is `WorkerBlockedStop`; the
  two properties say that nothing else causes it.
* `StackWalksListing`, `PageShownIsCurrent`: while a list's requests do not
  overlap or fail, *Previous* leads back the way that was come, the number counts
  it, and *Next* leads to the page behind the one shown, across filters, page
  sizes, mode switches and reloads after a change.
* `SettledRowsAreCurrent`: after a change and its reload a list shows the
  server's rows; overlapping reloads and lost answers are named, and the next
  lone reload repairs the list.
* `AdminPanelsOnlyInAdminMode`: whatever hash the page stands on, whatever is
  under way and whichever tab switched. `LoadedViewsShowModeUnlessCrossed`,
  `LoadedViewsAreCurrent`: views that are trusted as loaded show the right mode
  and this tab's changes, except those that a switch or a change met half-way and
  those the page leaves as they are: Audit after most changes, Click analytics
  after a deletion.
* `SettledReportIsCurrent`, `PresetIsAcceptedTheSameDay`: what is rendered is what
  the form and the CSV buttons state; presets lie in the server's window.
* `ExpiringIsNotPermanent`: merges of stale reads lose fields, and still never
  store a combination `validateLink` refuses. `FreshUpdatesStoreTheEdit`: in a
  browser on UTC, an update nobody interfered with stores what was typed and
  leaves the rest, but for the seconds of an expiry: saving the dialog moves an
  expiry nobody typed to the start of its minute.
* `TrendIsFaithful`, `BreakdownIsFaithful`: one point, equal points, no clicks and
  rounding keep the charts in their frame and in order.

### Disagreements between the code and its documents

1. **A retry may be acknowledged on another's confirmation** (`PipelineLostRetry`,
   `worker_rabbitmq.go:186`). `Retry` takes the next confirmation on the
   channel. After a timeout (line 194) the late one stays there and is read by
   the next retry, whose original is acknowledged although its own copy is then
   refused. Both the document (`docs/analytics-persistence.md:44`) and the
   comment at `worker.go:234` promise that the original is acknowledged only
   when its copy is confirmed.
2. **A visit stores what it loaded before an edit** (`CacheLateFill`,
   `cache.go:133`), after the edit's invalidation, for up to 24 hours and
   without any fault; `docs/plans/redis-rabbitmq-analytics-plan.md:111` says
   that an edit never serves a stale destination after a successful
   invalidation.
3. **A deleted link comes back with its domain** (`CacheDeletedAlias`,
   `handlers.go:1859`). Deletion invalidates the aliases active at that moment;
   the invalidation that follows a later verification walks only links that are
   not deleted. An entry stored by a visit that passed the host check before
   the domain lapsed is then served until it expires; line 103 of the same plan
   asks for all affected aliases on deletion and domain changes.
4. **Escape confirms** (`ChangesEscape`, `app.js:74`). `returnValue` of the one
   dialog survives its closing: once a deletion was confirmed, pressing Escape in
   the next dialog sends the next deletion. The dialog offers "Cancel".
5. **Saving moves the expiry** (`EditsShiftExpiry`, `app.js:206`). The form is
   filled with the digits of the instant in UTC and read as local time, and the
   field is always sent: outside UTC each save moves the expiry by the offset.
6. **Late confirmations keep a worker from stopping** (`WorkerBlockedStop`,
   `worker_rabbitmq.go:94`). Two retries time out and are confirmed late; the second
   confirmation finds `confirms` full and blocks the reader of the connection.
   `ch.Cancel` then waits for an answer nobody reads, before the shutdown timer
   of line 95 is started; `docs/analytics-persistence.md:46` promises a worker that
   stops intake, drains and closes on SIGTERM.

Met while modelling, named by a history variable or left out of a property
rather than given a run of their own:

* A second press of *Next* before the answer pushes the same cursor again, and
  the page number runs ahead (`app.js:128`); answers of two pages of a list that
  arrive in the other order leave rows and number apart (`disturbed`).
* A view that is being loaded while the mode is switched counts as loaded with
  the rows of the old mode (`crossed`); `docs/user-guide.md:26` says that the
  mode decides what is shown. A report that was left may render over the one
  that was opened after it (`overlapped`; `docs/user-guide.md:210`).
* Creating, importing, changing or deleting a link, and creating a customer, add
  audit events (`handlers.go:588`, `650`, `731`), and the page does not forget the
  Audit view (`app.js:109`): once opened it stays as it was until the mode
  changes or the page is reloaded. So do the Click analytics after a
  deletion (`leaves`). The changes of API keys, domains and departments, which
  are in `ConfirmedChanges` and not in `Dashboard`, leave Audit behind likewise.
* Saving the edit dialog drops the seconds of an expiry that an API client set
  (`app.js:206`, `handlers.go:1104`), in any time zone.
* A period chosen by preset before midnight is one the form still states and the
  server may refuse on the next day (`docs/user-guide.md:211`).
* Of two overlapping partial updates the later may undo fields of the earlier
  (`docs/openapi.yaml:296` calls them partial). If one sets a password and the
  other a permanent code, the link has both in the end, against
  `docs/openapi.yaml:506`: each is validated with what it read, and the password
  column is written only when a password was sent. For the expiry this cannot
  happen, which is what `ExpiringIsNotPermanent` says.
* A bulk update that fails in its re-read answers an error after it committed
  (`docs/openapi.yaml:318`); a single update that fails in its audit answers 500
  after it committed, so that a change exists without a record (`README.md:41`
  of the repository).

## 5. What is proved

TLAPS checks these for every value of the constants that satisfies
the assumption of its module (`PipelineAssumption`, `CacheAssumption`,
`LoopAssumption`, `LimitAssumption`, `PagedAssumption`, ...: finitely many events
or redirects; retries at least 1; names are distinct from what they stand beside). TLC evaluates those
assumptions in the runs.

| theorem | further assumption | argument |
|---|---|---|
| `TypeCorrect` | | inductive with `Awaiting`: in phase `confirm`, `cur` is a held delivery, so dropping it keeps counts natural |
| `ImplementsLedgerThm` | no long backlog | with `PurgedQuiet`: nothing that could persist a purged event is left, so no booking step meets one; every other step leaves the three books alone |
| `CountersAlwaysMatch` | no long backlog | each booking adds the cardinality of a set disjoint from what is booked |
| `RefusedNeverCounted` | no long backlog | `RefusedInv`: a refused event either never had a copy, or counts and its link is deleted for good, which keeps it out of every transaction |
| `AcceptedNeverLost` | no late retry confirmation | `ChannelInStep`: `rwire` and `confirms` together hold at most the one publish of `cur`, so a positive confirmation means a copy in the retry queue; `SettledCounted`: in phase `settle` the batch is booked; `PublisherInStep`: an unread positive reply belongs to the waiting request, whose message the broker has taken |
| `CacheTypeCorrect` | | with `VisitShape`: what a visit knows at each step |
| `GatedVersionsNeverStored` | | with a visit at `set` holding a version that needs no gate |
| `StaleEntriesArePending` | no failing invalidation, no late re-verification | per action: an entry becomes outdated by a commit, which makes a request pending, or by its host becoming active, which puts the host in `todo`; it stops being pending when it is deleted |
| `BaseHostInvalidated` | no failing invalidation | `Reached`, for a host that stays active: an outdated entry was stored late, or a request is coming that will list the hosts or has listed this one |
| `AliasesInvalidatedUnlessRevived` | no failing invalidation; no domain becomes active | the same for every host; with `CacheDeletedAlias` it shows that only a domain set active again brings a deleted link back |
| `LoopTypeCorrect`, `AlwaysHandedOnce` | | inductive with `OnePlace`: the channel holds no delivery twice, and none the bridge has |
| `GracefulStopLosesNothing` | | with `Known`: while connected and in time, all that was handed over is in the channel, the bridge, the batch or the flush; `Stages`: a closed bridge means an empty channel, a return an empty batch |
| `LimitTypeCorrect` | | `ShapeInv`: an event is in the hands of one transaction, the link's row in those of one; what a transaction counted it inserted, and what a row says is committed was |
| `OverrunAlwaysBounded` | | `BoundKept`, on the set `Ahead`: see below |
| `RefusedAlwaysSpent` | | a row that refuses is full or deleted at that moment; the counter and a deletion are never taken back |
| `BooksAlwaysMatch` | | with `BooksInv`: see below |
| `UneditedLimitIsExact` | no editor | `OverrunAlwaysBounded`, with nobody having read the link before its limit |
| `ListsTypeCorrect`, `StackAlwaysWalks`, `PageAlwaysCurrent` | | with `NextFollows`: the next cursor belongs to the page the list stands on or is switched off; `OneLoad`: the one request under way asks for that page |
| `ChangesTypeCorrect`, `SettledRowsCurrent` | | with `Unseen`: news the page has not seen is an unanswered change, and a lone reload ends in the server's rows or in later news |
| `PanelsNeedAdminMode` | | inductive: view and mode change only through `Route`, which looks at both |
| `DashboardTypeCorrect`, `LoadedViewsFollowMode`, `LoadedViewsFollowChanges` | | with `DashInv`: what the loads under way have read (`ReadsCurrent`, `Unseen`), one load of a view at a time unless doubtful, and cookie, page, loads and views that agree on the mode unless crossed; `ChangeForgetsReloadsOrLeaves`: a change does one of the three with each view it alters |
| `ReportTypeCorrect`, `ReportSettlesCurrent`, `PresetsAccepted` | | with `OneRequest`: what the one request under way asks for is what the page states; `PresetInForm` |
| `TrendAlwaysFaithful` | at most 6601 points, labels of at most 165 | `TenthsBounds`: at most half a tenth off, so that rounding keeps the order and never joins two points a tenth apart; `ChartsInv`: see below |
| `BreakdownAlwaysFaithful` | | the same rounding; each share is at most half a tenth off and a half is rounded up, so that two are off by one tenth at most, and upwards |
| `EditsTypeCorrect` | | with `RequestTypes`: what a handler has read at each step, for every kind of request |
| `ExpiringNeverPermanent` | | columns written together were validated together |
| `FreshUpdatesStore` | `Offset = 0` | `EditorFact`, `PayloadFact`, `BaseFact`: the dialog shows the link as cached with what was typed, the payload carries it, and the handler has read the row as it is; `DigitsOfInstant`: the digits of an instant are at most 59 seconds before it |

The strengthenings are needed: without `PurgedQuiet` a purge in an arbitrary
state could precede a redelivery, and without `ChannelInStep` a stray
confirmation acknowledges an original. Both are false exactly under the fault
each theorem excludes, which the violation runs show.

*The limit.* `OverrunIsBounded` compares two numbers, the counter and the
redirects that had read the link when the limit was set, and is far from
inductive: it does not say who may still count. `Ahead` is the set of redirects
that may: they read another limit than the present one, or none, and their click
is not counted yet. Any other redirect counts
only while the counter is below the present limit. `BoundKept` bounds the sum of what
is committed, what a transaction has counted and not committed, and the
cardinality of `Ahead`: counting moves a redirect from the second to the first
two, a redirect that reads the link after the edit is not ahead of it, and an edit
that sets a limit starts from a counter that no transaction is changing, since it
holds the row.

*The books.* `TxBooks` says of a transaction under way that what it inserted is
not stored, that it has counted all of it that counts but the one at hand, and
that the rest of its batch is left to do or stored by another. `VisitBooks` says
which copies of an event there are: none before the redirect runs, none outside
its own transaction if it read a limit, and none that could still count once it
was refused, either because there is none or because the link is deleted. The
event itself may be in two transactions at a time, which is why both are needed.

*The charts.* `Most` chooses the largest of the clicks, and that a finite
sequence has one is an induction the prover cannot do over data. The induction
is done over behaviours instead: `ChartsInv` says that every beginning of the
points has a largest, which holds for one more point if it held before. The
hypotheses of `TrendAlwaysFaithful` are generous: the server answers at most 90
days in detail, and the plot is 6600 tenths wide, so 6601 is the number of points
at which two of them may meet; three labels of 165 units fit beside each other,
and one of five characters is drawn in a fifth of that.

Only model-checked: the liveness properties (`QueuedClicksSettle`,
`QueuesDrain`, `CacheConverges`, `HandedDeliveriesSettle`,
`StoppedWorkerReturns`), since the prover treats neither fairness nor `ENABLED`.
Every invariant and action property the passing runs check is also proved, and so
is the refinement in its temporal form, `Spec => Ledger!Spec`.

## 6. Not modelled, and the plan

In this order; each gets its module and, where it says so, a proof.

1. `Domains` — re-verification races in full, one name claimed by two tenants.
2. `TxLocks` — lock order of batch, single and bulk transactions; deadlock.
3. `Access` — deactivation and key use, first sign-on; the server's side of the
   session, of which `Dashboard` has the mode only.
4. `Reports` and operators — buckets and top lists, `resolveTarget`,
   `mergeTargetQuery`, tags, placeholder rewriting, against reference
   definitions on bounded inputs.
5. `Publisher` — lock, reconnection and confirmation in detail, as a refinement
   of the publisher of `ClickPipeline`.
6. `Deploy` — roll-back and the recorded tag.

Of the web client the QR form and the creation of a tenant (one request whose
answer is rendered, nothing kept), helpers that build markup, and the
documentation page (`docs-init.js` and the vendored Swagger bundle) are left
out: they hold no state between two events. Analytics payloads, logging and page
layout are left out of every model.
