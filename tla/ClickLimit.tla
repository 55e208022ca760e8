----------------------------- MODULE ClickLimit -----------------------------
(***************************************************************************)
(* max_clicks of a link under concurrent redirects, batches and edits.     *)
(*                                                                         *)
(* A redirect reads the link and counts its click later: in a transaction  *)
(* of its own that is given the limit it read, or, without a limit, in a   *)
(* batch of the worker or in the fallback.  A redirect that is served from *)
(* the cache has read the link when the entry was loaded.                  *)
(*                                                                         *)
(* Transactions run statement by statement (READ COMMITTED) and keep their *)
(* row locks to the end: an inserted event is locked against an insert of  *)
(* the same event_id and shares the link's row by its foreign key, a       *)
(* counted one has updated that row.  The roll-up written with each event  *)
(* is part of ClickPipeline.                                               *)
(***************************************************************************)
EXTENDS Naturals, FiniteSets

CONSTANTS
  Visit,       \* redirects of the link; each stands for one event
  Worker,      \* worker processes
  Editor,      \* requests that change the link
  Limits,      \* values of max_clicks
  BatchSize,   \* deliveries of a batch
  MaxChanges,  \* bound on edits, deletions and failures
  Nil          \* no limit, no event, no transaction

(* A transaction: the events it is about, those left, the one inserted and *)
(* not counted yet, those inserted and counted, and whether it has locked  *)
(* the link's row for an update.                                           *)
Transaction ==
  [batch : SUBSET Visit, todo : SUBSET Visit, current : Visit \cup {Nil},
   inserted : SUBSET Visit, counted : SUBSET Visit, locked : BOOLEAN]

ASSUME LimitAssumption ==
  /\ IsFiniteSet(Visit)
  /\ Visit \cap Worker = {} /\ (Visit \cup Worker) \cap Editor = {}
  /\ Limits \subseteq Nat \ {0}
  /\ Nil \notin Nat \cup Visit \cup Transaction
  /\ BatchSize \in Nat \ {0} /\ MaxChanges \in Nat

VARIABLES
  max,     \* links.max_clicks
  kept,    \* links.deleted_at IS NULL
  clicks,  \* links.clicks
  stored,  \* events in table clicks
  queue,   \* events with a copy in the broker's queues
  visit,   \* what a redirect has read, and where it is
  tx,      \* transactions under way
  mark,    \* history: the last edit
  changes  \* edits, deletions and failures so far

limitVars ==
  <<max, kept, clicks, stored, queue, visit, tx, mark, changes>>

(* Who runs transactions; a redirect runs that of RecordClick itself.      *)
Actor == Visit \cup Worker \cup Editor
Acting == {a \in Actor : tx[a] # Nil}
Answer == {"redirected", "refused", "expired", "error"}

Begin(S) ==
  [batch |-> S, todo |-> S, current |-> Nil, inserted |-> {}, counted |-> {},
   locked |-> FALSE]

LimitInit ==
  /\ max \in Limits \cup {Nil}
  /\ kept = TRUE /\ clicks = 0 /\ stored = {} /\ queue = {}
  /\ visit = [v \in Visit |-> [pc |-> "idle", max |-> Nil, route |-> "hit"]]
  /\ tx = [a \in Actor |-> Nil]
  /\ mark = [at |-> 0, early |-> 0]
  /\ changes = 0

Change == changes < MaxChanges /\ changes' = changes + 1
-----------------------------------------------------------------------------
(* Redirects *)

linkExpired(late) == late \/ (max # Nil /\ clicks >= max)

(* LinkBySlug and linkExpired; late: expires_at has passed. *)
Redirect(v) ==
  /\ visit[v].pc = "idle" /\ kept
  /\ \E late \in BOOLEAN :
       visit' = [visit EXCEPT ![v] =
         [pc |-> "read", max |-> max,
          route |-> IF linkExpired(late) THEN "expired" ELSE "hit"]]
  /\ UNCHANGED <<max, kept, clicks, stored, queue, tx, mark, changes>>

(* What the visitor gets: an expired visit ignores how its event fared.    *)
Reply(v, answer) ==
  visit' = [visit EXCEPT ![v].pc =
              IF visit[v].route = "hit" THEN answer ELSE "expired"]

RecordDirect(v) ==
  /\ visit' = [visit EXCEPT ![v].pc = "record"]
  /\ tx' = [tx EXCEPT ![v] = Begin({v})]

(* With a limit, or without a publisher, RecordClick; else the queue, and  *)
(* RecordClick without a limit when that is not confirmed, whether or not  *)
(* the broker has taken the message.                                       *)
Record(v) ==
  /\ visit[v].pc = "read"
  /\ \/ /\ visit[v].max # Nil
        /\ RecordDirect(v) /\ UNCHANGED queue
     \/ /\ visit[v].max = Nil
        /\ queue' = queue \cup {v} /\ Reply(v, "redirected") /\ UNCHANGED tx
     \/ /\ visit[v].max = Nil
        /\ queue' \in {queue, queue \cup {v}} /\ RecordDirect(v)
  /\ UNCHANGED <<max, kept, clicks, stored, mark, changes>>
-----------------------------------------------------------------------------
(* Transactions of RecordClick and RecordClicks *)

TakeBatch(w) ==
  /\ w \notin Acting
  /\ \E batch \in SUBSET queue :
       /\ Cardinality(batch) \in 1..BatchSize
       /\ tx' = [tx EXCEPT ![w] = Begin(batch)]
  /\ UNCHANGED <<max, kept, clicks, stored, queue, visit, mark, changes>>

(* Nobody else has updated the link, or locked it for an update.           *)
LinkFree(a) == \A b \in Acting \ {a} : ~tx[b].locked

(* An event waits for a transaction that has inserted the same one, and    *)
(* its foreign key for a FOR UPDATE.                                       *)
MayInsert(a, v) ==
  \A b \in Acting \ {a} :
    v \notin tx[b].inserted /\ ~(b \in Editor /\ tx[b].locked)

(* insertClick: an event that is stored already needs nothing more, and an *)
(* expired one has nothing to count.  Deliveries come in any order.        *)
insertClick(a, v) ==
  /\ a \in Acting /\ v \in tx[a].todo /\ tx[a].current = Nil
  /\ MayInsert(a, v)
  /\ tx' = IF v \in stored THEN [tx EXCEPT ![a].todo = @ \ {v}]
           ELSE [tx EXCEPT ![a].todo = @ \ {v},
                           ![a].inserted = @ \cup {v},
                           ![a].current = IF visit[v].route = "hit" THEN v
                                          ELSE Nil]
  /\ UNCHANGED <<max, kept, clicks, stored, queue, visit, mark, changes>>

(* Variants of Below: the limit is not looked at again; off by one. *)
BelowWhenRead(v) == TRUE
BelowByOne(v) == visit[v].max # Nil => clicks + 1 < visit[v].max

Below(v) == visit[v].max # Nil => clicks < visit[v].max

(* The condition of the UPDATE: RecordClick has the limit it was given,    *)
(* RecordClicks wants none in the row.                                     *)
Matches(a) == kept /\ IF a \in Visit THEN Below(a) ELSE max = Nil

(* UPDATE links SET clicks=clicks+1: it waits for whoever updated the row  *)
(* and then looks at its condition again.                                  *)
countClick(a) ==
  /\ a \in Acting /\ tx[a].current # Nil
  /\ LinkFree(a) /\ Matches(a)
  /\ tx' = [tx EXCEPT ![a].counted = @ \cup {tx[a].current},
                      ![a].current = Nil, ![a].locked = TRUE]
  /\ UNCHANGED <<max, kept, clicks, stored, queue, visit, mark, changes>>

Books(a) ==
  /\ stored' = stored \cup tx[a].inserted
  /\ clicks' = clicks + Cardinality(tx[a].counted)

Finished(a) ==
  /\ a \in Acting \ Editor
  /\ tx[a].todo = {} /\ tx[a].current = Nil

Ends(a) == tx' = [tx EXCEPT ![a] = Nil]

(* The outcome reaches the visitor, or the worker acknowledges its batch.  *)
Commit(a) ==
  /\ Finished(a) /\ Books(a) /\ Ends(a)
  /\ IF a \in Visit THEN Reply(a, "redirected") /\ UNCHANGED queue
     ELSE queue' = queue \ tx[a].batch /\ UNCHANGED visit
  /\ UNCHANGED <<max, kept, mark, changes>>

Unbooked(a, answer) ==
  /\ Ends(a)
  /\ IF a \in Visit THEN Reply(a, answer) ELSE UNCHANGED visit
  /\ UNCHANGED <<max, kept, queue, mark>>

(* A variant of RowRefused that forgets the rollback. *)
RowRefusedOpen(a) ==
  /\ a \in Acting /\ tx[a].current # Nil /\ ~Matches(a)
  /\ UNCHANGED tx
  /\ IF a \in Visit THEN Reply(a, "refused") ELSE UNCHANGED visit
  /\ UNCHANGED <<max, kept, clicks, stored, queue, mark, changes>>

(* A variant of RowRefused that commits what is inserted. *)
RowRefusedBooked(a) ==
  /\ a \in Acting /\ tx[a].current # Nil /\ ~Matches(a)
  /\ Unbooked(a, "refused") /\ Books(a)
  /\ UNCHANGED changes

(* No row is updated: the transaction is rolled back. *)
RowRefused(a) ==
  /\ a \in Acting /\ tx[a].current # Nil /\ ~Matches(a)
  /\ Unbooked(a, "refused")
  /\ UNCHANGED <<clicks, stored, changes>>

(* A transaction fails, a deadlock being one reason, or its commit is made *)
(* and reported failed.                                                    *)
TxFails(a) ==
  /\ a \in Acting /\ Change
  /\ Unbooked(a, "error")
  /\ UNCHANGED <<clicks, stored>> \/ (Finished(a) /\ Books(a))
-----------------------------------------------------------------------------
(* Edits: UpdateLink, and UpdateLinksBulk as far as one link goes.         *)

(* SELECT ... FOR UPDATE also waits for the foreign keys of new events.    *)
LockLink(e) ==
  /\ e \notin Acting /\ kept /\ Change
  /\ LinkFree(e) /\ \A b \in Acting : tx[b].inserted = {}
  /\ tx' = [tx EXCEPT ![e] = [Begin({}) EXCEPT !.locked = TRUE]]
  /\ UNCHANGED <<max, kept, clicks, stored, queue, visit, mark>>

(* Redirects that have read the link and not counted their click yet. *)
Early == {v \in Visit : visit[v].route = "hit" /\ visit[v].pc \in {"read", "record"}}

CommitEdit(e) ==
  /\ e \in Acting
  /\ max' \in Limits \cup {Nil}
  /\ mark' = [at |-> clicks, early |-> Cardinality(Early)]
  /\ Ends(e)
  /\ UNCHANGED <<kept, clicks, stored, queue, visit, changes>>

DeleteLink ==
  /\ kept /\ Change
  /\ LinkFree(Nil)
  /\ kept' = FALSE
  /\ UNCHANGED <<max, clicks, stored, queue, visit, tx, mark>>
-----------------------------------------------------------------------------

LimitNext ==
  \/ \E v \in Visit : Redirect(v) \/ Record(v)
  \/ \E w \in Worker : TakeBatch(w)
  \/ \E a \in Visit \cup Worker :
       \/ \E v \in Visit : insertClick(a, v)
       \/ countClick(a) \/ RowRefused(a) \/ Commit(a)
  \/ \E a \in Actor : TxFails(a)
  \/ \E e \in Editor : LockLink(e) \/ CommitEdit(e)
  \/ DeleteLink

LimitSpec == LimitInit /\ [][LimitNext]_limitVars
-----------------------------------------------------------------------------
(* Properties *)

(* The type of ClickLimit's state; a redirect's own transaction is under   *)
(* way exactly while it records, and no two hold one event, or the link.   *)
LimitTypeOK ==
  /\ max \in Limits \cup {Nil} /\ kept \in BOOLEAN /\ clicks \in Nat
  /\ stored \subseteq Visit /\ queue \subseteq Visit
  /\ visit \in [Visit -> [pc : {"idle", "read", "record"} \cup Answer,
                          max : Limits \cup {Nil}, route : {"hit", "expired"}]]
  /\ \A v \in Visit : visit[v].pc = "record" <=> v \in Acting
  /\ DOMAIN tx = Actor
  /\ \A a \in Acting :
       /\ tx[a].todo \cup tx[a].inserted \subseteq tx[a].batch
       /\ tx[a].batch \subseteq Visit
       /\ tx[a].current \in tx[a].inserted \cup {Nil}
       /\ tx[a].counted \subseteq tx[a].inserted
       /\ \A b \in Acting \ {a} :
            /\ tx[a].inserted \cap tx[b].inserted = {}
            /\ ~(tx[a].locked /\ tx[b].locked)
  /\ changes \in 0..MaxChanges

(* RecordClick, RecordClicks: the counter passes a limit by no more than   *)
(* the redirects that had read the link before the limit was set, however  *)
(* transactions, fallbacks, batches and edits interleave.                  *)
OverrunIsBounded ==
  max # Nil => \/ clicks <= max + mark.early
               \/ clicks <= mark.at + mark.early

(* RecordClick: a redirect is turned away only when the limit it read is   *)
(* used up or the link is deleted; no click of a transaction that is       *)
(* rolled back takes a place.                                              *)
RefusedOnlyWhenSpent ==
  \A v \in Visit : visit[v].pc = "refused" =>
    \/ ~kept
    \/ visit[v].max # Nil /\ clicks >= visit[v].max

(* RecordClick, RecordClicks: the statements of two transactions overlap,   *)
(* and one event may be in both.  Still the counter is the number of rows   *)
(* that count, a refused click has no row, whatever copy of it is left, and *)
(* a redirect that was answered has a row or a message.                     *)
BooksMatchAnswers ==
  /\ clicks = Cardinality({v \in stored : visit[v].route = "hit"})
  /\ \A v \in Visit : visit[v].pc = "refused" => v \notin stored
  /\ \A v \in Visit : visit[v].pc = "redirected" => v \in stored \cup queue
=============================================================================
