----------------------- MODULE ClickPipeline_proofs -----------------------
(***************************************************************************)
(* Theorems about ClickPipeline, for every set of events and links, every  *)
(* MaxRetries and every bound on worker stops.                             *)
(***************************************************************************)
EXTENDS ClickPipeline, FiniteSetTheorems, SequenceTheorems, TLAPS

-----------------------------------------------------------------------------
(* Queues as bags *)

LEMMA EmptyQueueType ==
  EmptyQueue \in [Msg -> Nat] /\ \A m \in Msg : EmptyQueue[m] = 0
BY DEF EmptyQueue

LEMMA PutQueue ==
  ASSUME NEW q \in [Msg -> Nat], NEW m \in Msg
  PROVE  /\ Put(q, m) \in [Msg -> Nat]
         /\ Put(q, m)[m] > 0
         /\ \A n \in Msg : Put(q, m)[n] >= q[n]
         /\ \A n \in Msg \ {m} : Put(q, m)[n] = q[n]
BY DEF Put

LEMMA DropQueue ==
  ASSUME NEW q \in [Msg -> Nat], NEW m \in Msg, q[m] > 0
  PROVE  /\ Drop(q, m) \in [Msg -> Nat]
         /\ \A n \in Msg : Drop(q, m)[n] <= q[n]
         /\ \A n \in Msg \ {m} : Drop(q, m)[n] = q[n]
BY DEF Drop

(* A retry copy is a message, because Retry is only called below the limit. *)
LEMMA RetryCopy ==
  ASSUME NEW m \in Msg, m.tries + 1 < MaxRetries
  PROVE  /\ [m EXCEPT !.tries = @ + 1] \in Msg
         /\ [m EXCEPT !.tries = @ + 1].ev = m.ev
BY PipelineAssumption DEF Msg, Try

LEMMA FirstCopy ==
  ASSUME NEW e \in Event
  PROVE  [ev |-> e, tries |-> 0] \in Msg
BY PipelineAssumption DEF Msg, Try

(* What a transaction adds to a counter is a natural number. *)
LEMMA BookedCount ==
  ASSUME NEW S, S \subseteq Event, NEW l
  PROVE  IsFiniteSet(OfLink(S, l)) /\ Cardinality(OfLink(S, l)) \in Nat
<1>1. IsFiniteSet(Event)
  BY PipelineAssumption
<1>2. OfLink(S, l) \subseteq Event
  BY DEF OfLink
<1>3. IsFiniteSet(OfLink(S, l))
  BY <1>1, <1>2, FS_Subset
<1>. QED
  BY <1>3, FS_CardinalityType

LEMMA PersistType ==
  ASSUME NEW S, S \subseteq Event,
         rows \subseteq Event, purged \subseteq Event,
         clicks \in [Link -> Nat], views \in [Link -> Nat], Persist(S)
  PROVE  /\ rows' \subseteq Event /\ purged' \subseteq Event
         /\ clicks' \in [Link -> Nat] /\ views' \in [Link -> Nat]
<1>1. S \cap Counting \subseteq Event
  OBVIOUS
<1>2. \A l \in Link : /\ Cardinality(OfLink(S, l)) \in Nat
                      /\ Cardinality(OfLink(S \cap Counting, l)) \in Nat
  BY <1>1, BookedCount
<1>. DEFINE C == [l \in Link |-> Cardinality(OfLink(S \cap Counting, l))]
            V == [l \in Link |-> Cardinality(OfLink(S, l))]
<1>3. C \in [Link -> Nat] /\ V \in [Link -> Nat]
  BY <1>2
<1>4. clicks' = [l \in Link |-> clicks[l] + C[l]]
  BY Zenon DEF Persist
<1>5. views' = [l \in Link |-> views[l] + V[l]]
  BY Zenon DEF Persist
<1>6. rows' \subseteq Event /\ purged' \subseteq Event
  BY DEF Persist
<1>. HIDE DEF C, V
<1>. QED
  BY <1>3, <1>4, <1>5, <1>6

-----------------------------------------------------------------------------
(* Type correctness *)

(* While the worker waits for a confirmation, the delivery it waits for is  *)
(* still in its hands: this is what makes the acknowledgement afterwards    *)
(* well-typed.                                                              *)
Awaiting ==
  phase = "confirm" => cur \in Msg /\ batch[cur] > 0

TypeInv == TypeOK /\ Awaiting

LEMMA TypeInit == Init => TypeInv
<1>. SUFFICES ASSUME Init PROVE TypeInv
  OBVIOUS
<1>1. TypeOK
  BY PipelineAssumption, EmptyQueueType
     DEF Init, TypeOK, ReqState, Phase, Mode
<1>2. Awaiting
  BY DEF Init, Awaiting
<1>. QED
  BY <1>1, <1>2 DEF TypeInv

LEMMA TypeStep == TypeInv /\ [Next]_vars => TypeInv'
<1>. SUFFICES ASSUME TypeInv, [Next]_vars PROVE TypeInv'
  OBVIOUS
<1>. USE DEF TypeInv
<1>. USE DEF serverVars, brokerVars, workerVars, storeVars
<1>a. TypeOK /\ Awaiting
  OBVIOUS
<1>1. ASSUME NEW e \in Event, ServerStep(e) PROVE TypeInv'
  <2>1. CASE RouteDirect(e)
    BY <1>a, <2>1 DEF RouteDirect, TypeOK, Awaiting, ReqState
  <2>2. CASE PublishSend(e)
    BY <1>a, <2>2 DEF PublishSend, TypeOK, Awaiting, ReqState
  <2>3. CASE PublishUnsent(e)
    BY <1>a, <2>3 DEF PublishUnsent, TypeOK, Awaiting, ReqState
  <2>4. CASE PublishConfirmed(e)
    BY <1>a, <2>4 DEF PublishConfirmed, TypeOK, Awaiting, ReqState
  <2>5. CASE PublishUnconfirmed(e)
    BY <1>a, <2>5 DEF PublishUnconfirmed, TypeOK, Awaiting, ReqState
  <2>6. CASE RecordClick(e)
    <3>1. req' \in [Event -> ReqState]
      BY <1>a, <2>6 DEF RecordClick, TypeOK, ReqState
    <3>2. Persist({e}) \/ UNCHANGED storeVars
      BY <2>6 DEF RecordClick
    <3>3. /\ rows' \subseteq Event /\ purged' \subseteq Event
          /\ clicks' \in [Link -> Nat] /\ views' \in [Link -> Nat]
      BY <1>a, <3>2, PersistType DEF TypeOK
    <3>. QED
      BY <1>a, <2>6, <3>1, <3>3 DEF RecordClick, TypeOK, Awaiting
  <2>. QED
    BY <1>1, <2>1, <2>2, <2>3, <2>4, <2>5, <2>6 DEF ServerStep
<1>2. ASSUME NEW e \in Event, PurgeOldClicks(e) PROVE TypeInv'
  BY <1>a, <1>2 DEF PurgeOldClicks, TypeOK, Awaiting
<1>3. CASE BrokerStep
  <2>1. ASSUME NEW e \in Event, BrokerTakesClick(e) PROVE TypeInv'
    BY <1>a, <2>1, FirstCopy, PutQueue DEF BrokerTakesClick, TypeOK, Awaiting
  <2>2. ASSUME NEW e \in Event, BrokerMissesClick(e) PROVE TypeInv'
    BY <1>a, <2>2 DEF BrokerMissesClick, TypeOK, Awaiting
  <2>3. CASE BrokerTakesRetry
    <3>1. Head(rwire) \in Msg /\ Tail(rwire) \in Seq(Msg)
      BY <1>a, <2>3, HeadTailProperties DEF BrokerTakesRetry, TypeOK
    <3>2. confirms' \in Seq({"ack", "nack"})
      BY <1>a, <2>3, AppendProperties DEF BrokerTakesRetry, TypeOK
    <3>. QED
      BY <1>a, <2>3, <3>1, <3>2, PutQueue DEF BrokerTakesRetry, TypeOK, Awaiting
  <2>4. CASE BrokerRefusesRetry
    <3>1. Tail(rwire) \in Seq(Msg)
      BY <1>a, <2>4, HeadTailProperties DEF BrokerRefusesRetry, TypeOK
    <3>2. confirms' \in Seq({"ack", "nack"})
      BY <1>a, <2>4, AppendProperties DEF BrokerRefusesRetry, TypeOK
    <3>. QED
      BY <1>a, <2>4, <3>1, <3>2 DEF BrokerRefusesRetry, TypeOK, Awaiting
  <2>5. ASSUME NEW m \in Msg, RetryExpires(m) PROVE TypeInv'
    BY <1>a, <2>5, PutQueue, DropQueue DEF RetryExpires, TypeOK, Awaiting
  <2>. QED
    BY <1>3, <2>1, <2>2, <2>3, <2>4, <2>5 DEF BrokerStep
<1>4. CASE WorkerStep
  <2>1. CASE WorkerStart
    BY <1>a, <2>1 DEF WorkerStart, TypeOK, Awaiting, Phase
  <2>2. ASSUME NEW m \in Msg, Accept(m) PROVE TypeInv'
    <3>1. mainq' \in [Msg -> Nat]
      BY <1>a, <2>2, DropQueue DEF Accept, TypeOK
    <3>3. batch' = Put(batch, m) \/ batch' = batch
      BY <2>2 DEF Accept
    <3>4. batch' \in [Msg -> Nat]
      <4>1. batch \in [Msg -> Nat]
        BY <1>a DEF TypeOK
      <4>2. Put(batch, m) \in [Msg -> Nat]
        BY <4>1, PutQueue
      <4>. QED
        BY <3>3, <4>1, <4>2
    <3>2. dlq' \subseteq Event
      BY <1>a, <2>2 DEF Accept, TypeOK, Msg
    <3>. QED
      BY <1>a, <2>2, <3>1, <3>2, <3>4 DEF Accept, TypeOK, Awaiting
  <2>3. ASSUME NEW m \in Msg, AckCommitted(m) PROVE TypeInv'
    BY <1>a, <2>3, DropQueue DEF AckCommitted, Settle, TypeOK, Awaiting, Phase
  <2>4. ASSUME NEW m \in Msg, RejectExhausted(m) PROVE TypeInv'
    <3>1. dlq' \subseteq Event
      BY <1>a, <2>4 DEF RejectExhausted, TypeOK, Msg
    <3>. QED
      BY <1>a, <2>4, <3>1, DropQueue
         DEF RejectExhausted, Settle, TypeOK, Awaiting, Phase
  <2>5. ASSUME NEW m \in Msg, RetryPublish(m) PROVE TypeInv'
    <3>1. rwire' \in Seq(Msg)
      BY <1>a, <2>5, RetryCopy, AppendProperties DEF RetryPublish, TypeOK
    <3>. QED
      BY <1>a, <2>5, <3>1 DEF RetryPublish, TypeOK, Awaiting, Phase
  <2>6. CASE FlushCommits
    <3>1. Fresh(BatchEvents) \subseteq Event
      BY DEF Fresh, BatchEvents
    <3>2. /\ rows' \subseteq Event /\ purged' \subseteq Event
          /\ clicks' \in [Link -> Nat] /\ views' \in [Link -> Nat]
      BY <1>a, <2>6, <3>1, PersistType DEF FlushCommits, TypeOK
    <3>. QED
      BY <1>a, <2>6, <3>2 DEF FlushCommits, TypeOK, Awaiting, Phase
  <2>7. CASE FlushFails
    <3>1. Fresh(BatchEvents) \subseteq Event
      BY DEF Fresh, BatchEvents
    <3>2. Persist(Fresh(BatchEvents)) \/ UNCHANGED storeVars
      BY <2>7 DEF FlushFails
    <3>3. /\ rows' \subseteq Event /\ purged' \subseteq Event
          /\ clicks' \in [Link -> Nat] /\ views' \in [Link -> Nat]
      BY <1>a, <3>1, <3>2, PersistType DEF TypeOK
    <3>. QED
      BY <1>a, <2>7, <3>3 DEF FlushFails, TypeOK, Awaiting, Phase
  <2>8. CASE RetryConfirmed
    <3>1. Tail(confirms) \in Seq({"ack", "nack"})
      BY <1>a, <2>8, HeadTailProperties DEF RetryConfirmed, TypeOK
    <3>. QED
      BY <1>a, <2>8, <3>1, DropQueue
         DEF RetryConfirmed, Settle, TypeOK, Awaiting, Phase
  <2>9. CASE RetryUnconfirmed
    <3>1. confirms' \in Seq({"ack", "nack"})
      BY <1>a, <2>9, HeadTailProperties DEF RetryUnconfirmed, TypeOK
    <3>2. dlq' \subseteq Event
      BY <1>a, <2>9 DEF RetryUnconfirmed, TypeOK, Awaiting, Msg
    <3>. QED
      BY <1>a, <2>9, <3>1, <3>2, DropQueue
         DEF RetryUnconfirmed, Settle, TypeOK, Awaiting, Phase
  <2>. QED
    BY <1>4, <2>1, <2>2, <2>3, <2>4, <2>5, <2>6, <2>7, <2>8, <2>9 DEF WorkerStep
<1>5. CASE ServerCrash
  BY <1>a, <1>5 DEF ServerCrash, TypeOK, Awaiting, ReqState
<1>6. CASE WorkerCrash
  <2>. DEFINE Arrived(k) == [m \in Msg |-> Cardinality({i \in 1 .. k : rwire[i] = m})]
  <2>1. PICK k \in 0 .. Len(rwire) :
          retryq' = [m \in Msg |-> retryq[m] + Cardinality({i \in 1 .. k : rwire[i] = m})]
    BY <1>6 DEF WorkerCrash
  <2>2. ASSUME NEW m \in Msg PROVE Cardinality({i \in 1 .. k : rwire[i] = m}) \in Nat
    <3>1. k \in Nat
      BY <1>a, LenProperties DEF TypeOK
    <3>2. IsFiniteSet(1 .. k)
      BY <3>1, FS_Interval
    <3>3. IsFiniteSet({i \in 1 .. k : rwire[i] = m})
      BY <3>2, FS_Subset
    <3>. QED
      BY <3>3, FS_CardinalityType
  <2>3. retryq' \in [Msg -> Nat]
    <3>1. Arrived(k) \in [Msg -> Nat]
      BY <2>2
    <3>2. retryq' = [m \in Msg |-> retryq[m] + Arrived(k)[m]]
      BY <2>1, Zenon
    <3>. HIDE DEF Arrived
    <3>. QED
      BY <1>a, <3>1, <3>2 DEF TypeOK
  <2>4. mainq' \in [Msg -> Nat]
    BY <1>a, <1>6 DEF WorkerCrash, TypeOK
  <2>5. crashes' \in 0 .. MaxCrashes
    BY <1>a, <1>6, PipelineAssumption DEF WorkerCrash, TypeOK
  <2>6. rwire' \in Seq(Msg) /\ confirms' \in Seq({"ack", "nack"})
    BY <1>6, EmptySeq DEF WorkerCrash
  <2>. QED
    BY <1>a, <1>6, <2>3, <2>4, <2>5, <2>6, EmptyQueueType
       DEF WorkerCrash, TypeOK, Awaiting, Phase
<1>7. ASSUME NEW l \in Link, EditLink(l) PROVE TypeInv'
  BY <1>a, <1>7 DEF EditLink, TypeOK, Awaiting, Mode
<1>8. CASE UNCHANGED vars
  BY <1>a, <1>8 DEF vars, TypeOK, Awaiting
<1>. QED
  BY <1>1, <1>2, <1>3, <1>4, <1>5, <1>6, <1>7, <1>8 DEF Next

(* Every variable keeps its type: in particular no retry count reaches      *)
(* MaxRetries, so no message is retried for ever, and no queue is           *)
(* acknowledged below zero.                                                 *)
THEOREM TypeCorrect == Spec => []TypeOK
<1>1. Spec => []TypeInv
  BY TypeInit, TypeStep, PTL DEF Spec
<1>2. TypeInv => TypeOK
  BY DEF TypeInv
<1>. QED
  BY <1>1, <1>2, PTL

-----------------------------------------------------------------------------
(* Where copies come from *)

LEMMA HoldsPut ==
  ASSUME NEW q \in [Msg -> Nat], NEW m \in Msg, NEW e
  PROVE  Holds(Put(q, m), e) => Holds(q, e) \/ m.ev = e
BY DEF Holds, Put

LEMMA HoldsDrop ==
  ASSUME NEW q \in [Msg -> Nat], NEW m \in Msg, NEW e
  PROVE  Holds(Drop(q, m), e) => Holds(q, e)
BY DEF Holds, Drop

LEMMA HoldsEmpty ==
  ASSUME NEW e PROVE ~Holds(EmptyQueue, e)
BY DEF Holds, EmptyQueue

LEMMA InSeqHead ==
  ASSUME NEW s \in Seq(Msg), s # <<>>, NEW e
  PROVE  /\ InSeq(Tail(s), e) => InSeq(s, e)
         /\ Head(s).ev = e => InSeq(s, e)
         /\ InSeq(s, e) => Head(s).ev = e \/ InSeq(Tail(s), e)
<1>1. /\ Len(s) \in Nat /\ Len(s) > 0 /\ DOMAIN s = 1 .. Len(s)
      /\ Head(s) = s[1]
  BY LenProperties, EmptySeq
<1>2. /\ Tail(s) \in Seq(Msg) /\ Len(Tail(s)) = Len(s) - 1
      /\ \A i \in 1 .. Len(Tail(s)) : Tail(s)[i] = s[i + 1]
  BY HeadTailProperties
<1>3. DOMAIN Tail(s) = 1 .. (Len(s) - 1)
  BY <1>2, LenProperties
<1>4. ASSUME NEW i \in DOMAIN s, s[i].ev = e, i # 1
      PROVE  InSeq(Tail(s), e)
  <2>1. i - 1 \in 1 .. (Len(s) - 1) /\ Tail(s)[i - 1] = s[i]
    BY <1>1, <1>2, <1>4
  <2>. QED
    BY <1>3, <1>4, <2>1 DEF InSeq
<1>5. ASSUME NEW i \in DOMAIN Tail(s), Tail(s)[i].ev = e
      PROVE  InSeq(s, e)
  <2>1. i + 1 \in DOMAIN s /\ s[i + 1] = Tail(s)[i]
    BY <1>1, <1>2, <1>3
  <2>. QED
    BY <1>5, <2>1 DEF InSeq
<1>. QED
  BY <1>1, <1>4, <1>5 DEF InSeq

LEMMA InSeqAppend ==
  ASSUME NEW s \in Seq(Msg), NEW m \in Msg, NEW e
  PROVE  /\ InSeq(Append(s, m), e) => InSeq(s, e) \/ m.ev = e
         /\ InSeq(s, e) => InSeq(Append(s, m), e)
         /\ m.ev = e => InSeq(Append(s, m), e)
<1>1. /\ Len(s) \in Nat /\ DOMAIN s = 1 .. Len(s)
      /\ DOMAIN Append(s, m) = 1 .. (Len(s) + 1)
      /\ \A i \in 1 .. Len(s) : Append(s, m)[i] = s[i]
      /\ Append(s, m)[Len(s) + 1] = m
  BY AppendProperties, LenProperties
<1>. QED
  BY <1>1 DEF InSeq

(* Only PublishSend creates a first copy of an event: once every copy of it *)
(* is gone, no step of the broker, the worker or a crash brings one back.   *)
LEMMA CopiesStep ==
  ASSUME NEW e \in Event, TypeInv, NoCopies(e), [Next]_vars
  PROVE  NoCopies(e)' \/ PublishSend(e)
<1>a. TypeOK /\ Awaiting
  BY DEF TypeInv
<1>t. /\ mainq \in [Msg -> Nat] /\ retryq \in [Msg -> Nat]
      /\ batch \in [Msg -> Nat] /\ rwire \in Seq(Msg)
  BY <1>a DEF TypeOK
<1>n. /\ e \notin wire /\ ~Holds(mainq, e) /\ ~Holds(retryq, e)
      /\ ~Holds(batch, e) /\ ~InSeq(rwire, e)
  BY DEF NoCopies
<1>. USE DEF serverVars, brokerVars, workerVars, storeVars
<1>1. ASSUME NEW f \in Event, ServerStep(f) PROVE NoCopies(e)' \/ PublishSend(e)
  <2>1. UNCHANGED <<brokerVars, workerVars>>
    BY <1>1 DEF ServerStep, RouteDirect, PublishSend, PublishUnsent,
                PublishConfirmed, PublishUnconfirmed, RecordClick
  <2>2. wire' = wire \/ (PublishSend(f) /\ wire' = wire \cup {f})
    BY <1>1 DEF ServerStep, RouteDirect, PublishSend, PublishUnsent,
                PublishConfirmed, PublishUnconfirmed, RecordClick
  <2>3. PublishSend(e) \/ e \notin wire'
    BY <1>n, <2>2
  <2>. QED
    BY <1>n, <2>1, <2>3 DEF NoCopies, Holds, InSeq
<1>2. ASSUME NEW f \in Event, PurgeOldClicks(f) PROVE NoCopies(e)'
  BY <1>n, <1>2 DEF PurgeOldClicks, NoCopies, Holds, InSeq
<1>3. CASE BrokerStep
  <2>1. ASSUME NEW f \in Event, BrokerTakesClick(f) PROVE NoCopies(e)'
    <3>1. f # e /\ [ev |-> f, tries |-> 0] \in Msg
      BY <1>n, <2>1, FirstCopy DEF BrokerTakesClick
    <3>2. ~Holds(mainq', e)
      BY <1>t, <1>n, <2>1, <3>1, HoldsPut DEF BrokerTakesClick
    <3>. QED
      BY <1>n, <2>1, <3>2 DEF BrokerTakesClick, NoCopies, Holds, InSeq
  <2>2. ASSUME NEW f \in Event, BrokerMissesClick(f) PROVE NoCopies(e)'
    BY <1>n, <2>2 DEF BrokerMissesClick, NoCopies, Holds, InSeq
  <2>3. CASE BrokerTakesRetry
    <3>1. Head(rwire) \in Msg /\ Head(rwire).ev # e /\ ~InSeq(Tail(rwire), e)
      BY <1>t, <1>n, <2>3, InSeqHead, HeadTailProperties DEF BrokerTakesRetry
    <3>2. ~Holds(retryq', e)
      BY <1>t, <1>n, <2>3, <3>1, HoldsPut DEF BrokerTakesRetry
    <3>3. ~InSeq(rwire', e)
      BY <2>3, <3>1 DEF BrokerTakesRetry
    <3>. QED
      BY <1>n, <2>3, <3>2, <3>3 DEF BrokerTakesRetry, NoCopies, Holds
  <2>4. CASE BrokerRefusesRetry
    <3>1. ~InSeq(rwire', e)
      BY <1>t, <1>n, <2>4, InSeqHead DEF BrokerRefusesRetry
    <3>. QED
      BY <1>n, <2>4, <3>1 DEF BrokerRefusesRetry, NoCopies, Holds
  <2>5. ASSUME NEW m \in Msg, RetryExpires(m) PROVE NoCopies(e)'
    <3>1. m.ev # e
      BY <1>n, <2>5 DEF RetryExpires, Holds
    <3>2. ~Holds(retryq', e) /\ ~Holds(mainq', e)
      BY <1>t, <1>n, <2>5, <3>1, HoldsPut, HoldsDrop DEF RetryExpires
    <3>. QED
      BY <1>n, <2>5, <3>2 DEF RetryExpires, NoCopies, Holds, InSeq
  <2>. QED
    BY <1>3, <2>1, <2>2, <2>3, <2>4, <2>5 DEF BrokerStep
<1>4. CASE WorkerStep
  <2>1. CASE WorkerStart
    BY <1>n, <2>1 DEF WorkerStart, NoCopies, Holds, InSeq
  <2>2. ASSUME NEW m \in Msg, Accept(m) PROVE NoCopies(e)'
    <3>1. m.ev # e
      BY <1>n, <2>2 DEF Accept, Holds
    <3>2. ~Holds(mainq', e)
      BY <1>t, <1>n, <2>2, HoldsDrop DEF Accept
    <3>3. batch' = batch \/ batch' = Put(batch, m)
      BY <2>2 DEF Accept
    <3>4. ~Holds(batch', e)
      BY <1>t, <1>n, <3>1, <3>3, HoldsPut
    <3>. QED
      BY <1>n, <2>2, <3>2, <3>4 DEF Accept, NoCopies, Holds, InSeq
  <2>3. ASSUME NEW m \in Msg, AckCommitted(m) \/ RejectExhausted(m)
        PROVE NoCopies(e)'
    <3>1. ~Holds(batch', e)
      BY <1>t, <1>n, <2>3, HoldsDrop DEF AckCommitted, RejectExhausted, Settle
    <3>. QED
      BY <1>n, <2>3, <3>1 DEF AckCommitted, RejectExhausted, NoCopies, Holds, InSeq
  <2>4. ASSUME NEW m \in Msg, RetryPublish(m) PROVE NoCopies(e)'
    <3>1. m.ev # e
      BY <1>n, <2>4 DEF RetryPublish, Holds
    <3>c. PICK c \in Msg : c.ev = m.ev /\ rwire' = Append(rwire, c)
      BY <2>4, RetryCopy, Zenon DEF RetryPublish
    <3>2. ~InSeq(rwire', e)
      BY <1>t, <1>n, <3>1, <3>c, InSeqAppend
    <3>. QED
      BY <1>n, <2>4, <3>2 DEF RetryPublish, NoCopies, Holds
  <2>5. CASE FlushCommits \/ FlushFails
    BY <1>n, <2>5 DEF FlushCommits, FlushFails, NoCopies, Holds, InSeq
  <2>6. CASE RetryConfirmed \/ RetryUnconfirmed
    <3>1. cur \in Msg
      BY <1>a, <2>6 DEF RetryConfirmed, RetryUnconfirmed, Awaiting
    <3>2. ~Holds(batch', e)
      BY <1>t, <1>n, <2>6, <3>1, HoldsDrop DEF RetryConfirmed, RetryUnconfirmed, Settle
    <3>. QED
      BY <1>n, <2>6, <3>2 DEF RetryConfirmed, RetryUnconfirmed, NoCopies, Holds, InSeq
  <2>. QED
    BY <1>4, <2>1, <2>2, <2>3, <2>4, <2>5, <2>6 DEF WorkerStep
<1>5. CASE ServerCrash
  BY <1>n, <1>5 DEF ServerCrash, NoCopies, Holds, InSeq
<1>6. CASE WorkerCrash
  <2>1. ~Holds(mainq', e)
    <3>1. \A m \in Msg : m.ev = e => mainq[m] = 0 /\ batch[m] = 0
      BY <1>t, <1>n DEF Holds
    <3>2. \A m \in Msg : mainq'[m] = mainq[m] + batch[m]
      BY <1>6 DEF WorkerCrash
    <3>. QED
      BY <3>1, <3>2 DEF Holds
  <2>2. ~Holds(retryq', e)
    <3>1. PICK k \in 0 .. Len(rwire) :
            retryq' = [m \in Msg |->
                         retryq[m] + Cardinality({i \in 1 .. k : rwire[i] = m})]
      BY <1>6 DEF WorkerCrash
    <3>2. ASSUME NEW m \in Msg, m.ev = e PROVE retryq'[m] = 0
      <4>1. DOMAIN rwire = 1 .. Len(rwire) /\ Len(rwire) \in Nat
        BY <1>t, LenProperties
      <4>2. \A i \in 1 .. k : rwire[i] # m
        BY <1>n, <3>2, <4>1 DEF InSeq
      <4>3. {i \in 1 .. k : rwire[i] = m} = {}
        BY <4>2
      <4>4. Cardinality({i \in 1 .. k : rwire[i] = m}) = 0
        BY <4>3, FS_EmptySet
      <4>5. retryq[m] = 0
        BY <1>t, <1>n, <3>2 DEF Holds
      <4>6. retryq'[m] = retryq[m] + Cardinality({i \in 1 .. k : rwire[i] = m})
        BY <3>1, Zenon
      <4>. QED
        BY <4>4, <4>5, <4>6
    <3>. QED
      BY <3>2 DEF Holds
  <2>3. ~Holds(batch', e) /\ ~InSeq(rwire', e)
    BY <1>6, HoldsEmpty DEF WorkerCrash, InSeq
  <2>. QED
    BY <1>n, <1>6, <2>1, <2>2, <2>3 DEF WorkerCrash, NoCopies
<1>7. ASSUME NEW l \in Link, EditLink(l) PROVE NoCopies(e)'
  BY <1>n, <1>7 DEF EditLink, NoCopies, Holds, InSeq
<1>8. CASE UNCHANGED vars
  BY <1>n, <1>8 DEF vars, NoCopies, Holds, InSeq
<1>. QED
  BY <1>1, <1>2, <1>3, <1>4, <1>5, <1>6, <1>7, <1>8 DEF Next

-----------------------------------------------------------------------------
(* The books: refinement of ClickLedger *)

(* A request that has been answered keeps its answer. *)
Answered(e) == req[e] \notin {"idle", "publishing", "fallback", "direct"}

LEMMA RequestStep ==
  ASSUME NEW e \in Event, TypeInv, [Next]_vars
  PROVE  \/ req'[e] = req[e]
         \/ ~Answered(e) /\ ServerStep(e)
         \/ ~Answered(e) /\ req'[e] = "failed"
<1>t. req \in [Event -> ReqState]
  BY DEF TypeInv, TypeOK
<1>. USE DEF serverVars, Answered
<1>1. ASSUME NEW f \in Event, ServerStep(f)
      PROVE  req'[e] = req[e] \/ (~Answered(e) /\ ServerStep(e))
  <2>1. ~Answered(f)
    BY <1>1 DEF ServerStep, RouteDirect, PublishSend, PublishUnsent,
                PublishConfirmed, PublishUnconfirmed, RecordClick
  <2>2. \E r \in ReqState : req' = [req EXCEPT ![f] = r]
    BY <1>1 DEF ServerStep, RouteDirect, PublishSend, PublishUnsent,
                PublishConfirmed, PublishUnconfirmed, RecordClick, ReqState
  <2>3. CASE f # e
    BY <1>t, <2>2, <2>3
  <2>4. CASE f = e
    BY <1>1, <2>1, <2>4
  <2>. QED
    BY <2>3, <2>4
<1>2. ASSUME NEW f \in Event, PurgeOldClicks(f) PROVE req' = req
  BY <1>2 DEF PurgeOldClicks
<1>3. CASE BrokerStep
  BY <1>3 DEF BrokerStep, BrokerTakesClick, BrokerMissesClick, BrokerTakesRetry,
              BrokerRefusesRetry, RetryExpires
<1>4. CASE WorkerStep
  BY <1>4 DEF WorkerStep, WorkerStart, Accept, AckCommitted, RejectExhausted,
              RetryPublish, FlushCommits, FlushFails, RetryConfirmed, RetryUnconfirmed
<1>5. CASE ServerCrash
  BY <1>t, <1>5 DEF ServerCrash
<1>6. CASE WorkerCrash
  BY <1>6 DEF WorkerCrash
<1>7. ASSUME NEW l \in Link, EditLink(l) PROVE req' = req
  BY <1>7 DEF EditLink
<1>8. CASE UNCHANGED vars
  BY <1>8 DEF vars
<1>. QED
  BY <1>1, <1>2, <1>3, <1>4, <1>5, <1>6, <1>7, <1>8 DEF Next

LEMMA QuietStep ==
  ASSUME NEW e \in Event, TypeInv, Quiet(e), [Next]_vars
  PROVE  Quiet(e)'
<1>1. Answered(e) /\ NoCopies(e)
  BY DEF Quiet, Answered
<1>2. req'[e] = req[e]
  BY <1>1, RequestStep
<1>3. ~PublishSend(e)
  BY <1>1 DEF PublishSend, Answered
<1>4. NoCopies(e)'
  BY <1>1, <1>3, CopiesStep
<1>. QED
  BY <1>1, <1>2, <1>4 DEF Quiet, Answered

(* A purged row is never needed again: no copy of its event is left. *)
PurgedQuiet == \A e \in purged : Quiet(e)

(* Every step persists fresh, never booked events, or leaves the books alone. *)
LEMMA BookStep ==
  ASSUME TypeInv, PurgedQuiet, [Next]_vars
  PROVE  \/ \E S \in SUBSET Event : S \cap Counted = {} /\ Persist(S)
         \/ UNCHANGED <<Counted, clicks, views>>
<1>t. purged \subseteq Event /\ rows \subseteq Event
  BY DEF TypeInv, TypeOK
<1>. USE DEF storeVars
<1>u. UNCHANGED storeVars => UNCHANGED <<Counted, clicks, views>>
  BY DEF Counted
<1>1. ASSUME NEW e \in Event, ServerStep(e)
      PROVE  \/ \E S \in SUBSET Event : S \cap Counted = {} /\ Persist(S)
             \/ UNCHANGED storeVars
  <2>1. CASE RecordClick(e)
    <3>1. CASE e \notin rows /\ Persist({e})
      <4>1. ~Quiet(e)
        BY <2>1 DEF RecordClick, Quiet
      <4>2. {e} \cap Counted = {}
        BY <3>1, <4>1 DEF PurgedQuiet, Counted
      <4>. QED
        BY <3>1, <4>2
    <3>2. CASE UNCHANGED storeVars
      BY <3>2
    <3>. QED
      BY <2>1, <3>1, <3>2 DEF RecordClick
  <2>2. CASE ~RecordClick(e)
    BY <1>1, <2>2 DEF ServerStep, RouteDirect, PublishSend, PublishUnsent,
                      PublishConfirmed, PublishUnconfirmed
  <2>. QED
    BY <2>1, <2>2
<1>2. ASSUME NEW e \in Event, PurgeOldClicks(e)
      PROVE  UNCHANGED <<Counted, clicks, views>>
  BY <1>2 DEF PurgeOldClicks, Counted
<1>3. CASE BrokerStep
  BY <1>3, <1>u DEF BrokerStep, BrokerTakesClick, BrokerMissesClick, BrokerTakesRetry,
                    BrokerRefusesRetry, RetryExpires
<1>4. CASE WorkerStep
  <2>1. CASE FlushCommits \/ FlushFails
    <3>1. Fresh(BatchEvents) \cap Counted = {}
      BY DEF Fresh, BatchEvents, Counted, PurgedQuiet, Quiet, NoCopies
    <3>2. Fresh(BatchEvents) \in SUBSET Event
      BY DEF Fresh, BatchEvents
    <3>3. Persist(Fresh(BatchEvents)) \/ UNCHANGED storeVars
      BY <2>1 DEF FlushCommits, FlushFails
    <3>. QED
      BY <1>u, <3>1, <3>2, <3>3
  <2>2. CASE ~FlushCommits /\ ~FlushFails
    BY <1>4, <1>u, <2>2
       DEF WorkerStep, WorkerStart, Accept, AckCommitted, RejectExhausted,
           RetryPublish, RetryConfirmed, RetryUnconfirmed
  <2>. QED
    BY <2>1, <2>2
<1>5. CASE ServerCrash
  BY <1>5, <1>u DEF ServerCrash
<1>6. CASE WorkerCrash
  BY <1>6, <1>u DEF WorkerCrash
<1>7. ASSUME NEW l \in Link, EditLink(l) PROVE UNCHANGED storeVars
  BY <1>7 DEF EditLink
<1>8. CASE UNCHANGED vars
  BY <1>8, <1>u DEF vars
<1>. QED
  BY <1>1, <1>2, <1>3, <1>4, <1>5, <1>6, <1>7, <1>8, <1>u DEF Next

LEMMA PurgedStep ==
  ASSUME "long_backlog" \notin Faults, TypeInv, PurgedQuiet, [Next]_vars
  PROVE  PurgedQuiet'
<1>1. \A e \in Event : e \in purged' => e \in purged \/ PurgeOldClicks(e)
  <2>. SUFFICES ASSUME NEW e \in Event, e \in purged', e \notin purged
                PROVE  PurgeOldClicks(e)
    OBVIOUS
  <2>. USE DEF storeVars
  <2>1. ASSUME NEW f \in Event, ServerStep(f) PROVE FALSE
    BY <2>1 DEF ServerStep, RouteDirect, PublishSend, PublishUnsent,
                PublishConfirmed, PublishUnconfirmed, RecordClick, Persist
  <2>2. ASSUME NEW f \in Event, PurgeOldClicks(f) PROVE PurgeOldClicks(e)
    BY <2>2 DEF PurgeOldClicks
  <2>3. ~BrokerStep
    BY DEF BrokerStep, BrokerTakesClick, BrokerMissesClick, BrokerTakesRetry,
           BrokerRefusesRetry, RetryExpires
  <2>4. ~WorkerStep
    BY DEF WorkerStep, WorkerStart, Accept, AckCommitted, RejectExhausted,
           RetryPublish, FlushCommits, FlushFails, RetryConfirmed,
           RetryUnconfirmed, Persist
  <2>5. ~ServerCrash /\ ~WorkerCrash /\ ~UNCHANGED vars
    BY DEF ServerCrash, WorkerCrash, vars
  <2>6. ASSUME NEW l \in Link, EditLink(l) PROVE FALSE
    BY <2>6 DEF EditLink
  <2>. QED
    BY <2>1, <2>2, <2>3, <2>4, <2>5, <2>6 DEF Next
<1>2. purged' \subseteq Event
  BY TypeStep DEF TypeInv, TypeOK
<1>3. ASSUME NEW e \in purged' PROVE Quiet(e)'
  <2>1. Quiet(e)
    BY <1>1, <1>2, <1>3 DEF PurgedQuiet, PurgeOldClicks
  <2>. QED
    BY <1>2, <2>1, QuietStep
<1>. QED
  BY <1>3 DEF PurgedQuiet

LEMMA PurgedInv ==
  ASSUME "long_backlog" \notin Faults
  PROVE  Spec => [](TypeInv /\ PurgedQuiet)
<1>1. Init => TypeInv /\ PurgedQuiet
  BY TypeInit DEF Init, PurgedQuiet
<1>2. TypeInv /\ PurgedQuiet /\ [Next]_vars => (TypeInv /\ PurgedQuiet)'
  BY TypeStep, PurgedStep
<1>. QED
  BY <1>1, <1>2, PTL DEF Spec

(* Persisting nothing changes nothing. *)
LEMMA PersistNothing ==
  ASSUME TypeInv, Persist({})
  PROVE  UNCHANGED <<Counted, clicks, views>>
<1>1. clicks \in [Link -> Nat] /\ views \in [Link -> Nat]
  BY DEF TypeInv, TypeOK
<1>2. \A l \in Link : OfLink({} \cap Counting, l) = {} /\ OfLink({}, l) = {}
  BY DEF OfLink
<1>3. Cardinality({}) = 0
  BY FS_EmptySet
<1>4. clicks' = [l \in Link |-> clicks[l] + 0]
  BY <1>2, <1>3 DEF Persist
<1>5. views' = [l \in Link |-> views[l] + 0]
  BY <1>2, <1>3 DEF Persist
<1>6. Counted' = Counted
  BY DEF Persist, Counted
<1>. QED
  BY <1>1, <1>4, <1>5, <1>6

(* The pipeline books every click event at most once, in the set of seen    *)
(* events, the link counter and the roll-up together: it implements         *)
(* ClickLedger, as long as no copy of an event outlives the 90 days its row *)
(* is kept.                                                                 *)
THEOREM ImplementsLedgerThm ==
  ASSUME "long_backlog" \notin Faults
  PROVE  Spec => ImplementsLedger
<1>1. Init => Ledger!Init
  BY DEF Init, Ledger!Init, Counted
<1>2. TypeInv /\ PurgedQuiet /\ [Next]_vars => [Ledger!Next]_(Ledger!vars)
  <2>. SUFFICES ASSUME TypeInv, PurgedQuiet, [Next]_vars
                PROVE  Ledger!Next \/ UNCHANGED Ledger!vars
    OBVIOUS
  <2>1. ASSUME NEW S \in SUBSET Event, S \cap Counted = {}, Persist(S)
        PROVE  Ledger!Next \/ UNCHANGED Ledger!vars
    <3>1. CASE S = {}
      BY <2>1, <3>1, PersistNothing DEF Ledger!vars
    <3>2. CASE S # {}
      <4>1. Counted' = Counted \cup S
        BY <2>1 DEF Persist, Counted
      <4>2. \A T, l : Ledger!Cardinality(Ledger!OfLink(T, l)) = Cardinality(OfLink(T, l))
        BY Zenon DEF OfLink, Ledger!OfLink, Cardinality, Ledger!Cardinality
      <4>3. clicks' = [l \in Link |->
              clicks[l] + Ledger!Cardinality(Ledger!OfLink(S \cap Counting, l))]
        BY <2>1, <4>2, Zenon DEF Persist
      <4>4. views' = [l \in Link |->
              views[l] + Ledger!Cardinality(Ledger!OfLink(S, l))]
        BY <2>1, <4>2, Zenon DEF Persist
      <4>5. Ledger!Book(S)
        BY <2>1, <3>2, <4>1, <4>3, <4>4, Zenon DEF Ledger!Book
      <4>. QED
        BY <4>5 DEF Ledger!Next
    <3>. QED
      BY <3>1, <3>2
  <2>2. CASE UNCHANGED <<Counted, clicks, views>>
    BY <2>2 DEF Ledger!vars
  <2>. QED
    BY <2>1, <2>2, BookStep
<1>. QED
  BY <1>1, <1>2, PurgedInv, PTL DEF Spec, ImplementsLedger, Ledger!Spec

(* Counting a set in two disjoint parts. *)
LEMMA CountDisjoint ==
  ASSUME NEW S, S \subseteq Event, NEW T, T \subseteq Event, S \cap T = {}, NEW l
  PROVE  Cardinality(OfLink(S \cup T, l)) =
           Cardinality(OfLink(S, l)) + Cardinality(OfLink(T, l))
<1>1. OfLink(S \cup T, l) = OfLink(S, l) \cup OfLink(T, l)
  BY DEF OfLink
<1>2. OfLink(S, l) \cap OfLink(T, l) = {}
  BY DEF OfLink
<1>3. IsFiniteSet(OfLink(S, l)) /\ IsFiniteSet(OfLink(T, l))
  BY BookedCount
<1>4. Cardinality(OfLink(S, l)) \in Nat /\ Cardinality(OfLink(T, l)) \in Nat
  BY BookedCount
<1>5. Cardinality(OfLink(S, l) \cup OfLink(T, l)) =
        Cardinality(OfLink(S, l)) + Cardinality(OfLink(T, l)) - Cardinality({})
  BY <1>2, <1>3, FS_Union
<1>6. Cardinality({}) = 0
  BY FS_EmptySet
<1>7. Cardinality(OfLink(S \cup T, l)) = Cardinality(OfLink(S, l) \cup OfLink(T, l))
  BY <1>1, Zenon
<1>. QED
  BY <1>4, <1>5, <1>6, <1>7

LEMMA CountersStep ==
  ASSUME TypeInv, PurgedQuiet, CountersMatchEvents, [Next]_vars
  PROVE  CountersMatchEvents'
<1>1. ASSUME NEW S \in SUBSET Event, S \cap Counted = {}, Persist(S), NEW l \in Link
      PROVE  /\ clicks'[l] = Cardinality(OfLink(Counted' \cap Counting, l))
             /\ views'[l] = Cardinality(OfLink(Counted', l))
  <2>1. Counted' = Counted \cup S
    BY <1>1 DEF Persist, Counted
  <2>2. Counted \subseteq Event
    BY DEF TypeInv, TypeOK, Counted
  <2>3. Counted' \cap Counting = (Counted \cap Counting) \cup (S \cap Counting)
    BY <2>1
  <2>4. Cardinality(OfLink(Counted' \cap Counting, l)) =
          Cardinality(OfLink(Counted \cap Counting, l))
            + Cardinality(OfLink(S \cap Counting, l))
    BY <1>1, <2>2, <2>3, CountDisjoint
  <2>5. Cardinality(OfLink(Counted', l)) =
          Cardinality(OfLink(Counted, l)) + Cardinality(OfLink(S, l))
    BY <1>1, <2>1, <2>2, CountDisjoint
  <2>6. /\ clicks'[l] = clicks[l] + Cardinality(OfLink(S \cap Counting, l))
        /\ views'[l] = views[l] + Cardinality(OfLink(S, l))
    BY <1>1, Zenon DEF Persist
  <2>. QED
    BY <2>4, <2>5, <2>6 DEF CountersMatchEvents
<1>2. CASE UNCHANGED <<Counted, clicks, views>>
  BY <1>2 DEF CountersMatchEvents
<1>. QED
  BY <1>1, <1>2, BookStep DEF CountersMatchEvents

(* links.clicks and the roll-up total of every link are the numbers of its  *)
(* distinct booked events, whatever is retried, redelivered or recorded     *)
(* twice: the idempotence the plan demands of both persistence paths.       *)
THEOREM CountersAlwaysMatch ==
  ASSUME "long_backlog" \notin Faults
  PROVE  Spec => []CountersMatchEvents
<1>1. Init => CountersMatchEvents
  <2>. SUFFICES ASSUME Init, NEW l \in Link
                PROVE  /\ clicks[l] = Cardinality(OfLink(Counted \cap Counting, l))
                       /\ views[l] = Cardinality(OfLink(Counted, l))
    BY DEF CountersMatchEvents
  <2>1. OfLink(Counted \cap Counting, l) = {} /\ OfLink(Counted, l) = {}
    BY DEF Init, Counted, OfLink
  <2>2. clicks[l] = 0 /\ views[l] = 0
    BY DEF Init
  <2>. QED
    BY <2>1, <2>2, FS_EmptySet
<1>2. TypeInv /\ PurgedQuiet /\ CountersMatchEvents /\ [Next]_vars
        => CountersMatchEvents'
  BY CountersStep
<1>. QED
  BY <1>1, <1>2, PurgedInv, PTL DEF Spec

-----------------------------------------------------------------------------
(* Refused clicks *)

(* A refused event either has no copy left, or belongs to a link that is    *)
(* deleted for good, so that no batch holding a copy of it can commit; and  *)
(* an event that was never handed to the publisher has no copies at all.    *)
RefusedInv ==
  /\ \A e \in Event : req[e] \in {"idle", "direct"} => NoCopies(e)
  /\ \A e \in Event : req[e] = "refused" =>
       /\ e \notin Counted
       /\ NoCopies(e) \/ (e \in Counting /\ mode[LinkOf[e]] = "deleted")

(* An event is booked by its own request or by a batch that holds a copy    *)
(* and finds its link open.                                                 *)
LEMMA CountedStep ==
  ASSUME NEW e \in Event, e \in Counted', e \notin Counted, [Next]_vars
  PROVE  \/ RecordClick(e)
         \/ /\ Holds(batch, e)
            /\ e \in Counting => mode[LinkOf[e]] = "open"
<1>. USE DEF storeVars
<1>u. ~UNCHANGED storeVars
  BY DEF Counted
<1>1. ASSUME NEW f \in Event, ServerStep(f) PROVE RecordClick(e)
  <2>1. RecordClick(f)
    BY <1>u, <1>1 DEF ServerStep, RouteDirect, PublishSend, PublishUnsent,
                      PublishConfirmed, PublishUnconfirmed
  <2>2. Persist({f})
    BY <1>u, <2>1 DEF RecordClick
  <2>. QED
    BY <2>1, <2>2 DEF Persist, Counted
<1>2. ASSUME NEW f \in Event, PurgeOldClicks(f) PROVE FALSE
  BY <1>2 DEF PurgeOldClicks, Counted
<1>3. ~BrokerStep
  BY <1>u DEF BrokerStep, BrokerTakesClick, BrokerMissesClick, BrokerTakesRetry,
              BrokerRefusesRetry, RetryExpires
<1>4. CASE WorkerStep
  <2>1. FlushCommits \/ FlushFails
    BY <1>4, <1>u
       DEF WorkerStep, WorkerStart, Accept, AckCommitted, RejectExhausted,
           RetryPublish, RetryConfirmed, RetryUnconfirmed
  <2>2. ~Poisoned /\ Persist(Fresh(BatchEvents))
    BY <1>u, <2>1 DEF FlushCommits, FlushFails
  <2>3. e \in Fresh(BatchEvents)
    BY <2>2 DEF Persist, Counted
  <2>. QED
    BY <2>2, <2>3 DEF Poisoned, Fresh, BatchEvents
<1>5. ~ServerCrash /\ ~WorkerCrash
  BY <1>u DEF ServerCrash, WorkerCrash
<1>6. ASSUME NEW l \in Link, EditLink(l) PROVE FALSE
  BY <1>u, <1>6 DEF EditLink
<1>7. ~UNCHANGED vars
  BY <1>u DEF vars
<1>. QED
  BY <1>1, <1>2, <1>3, <1>4, <1>5, <1>6, <1>7 DEF Next

LEMMA DeletedStays ==
  ASSUME NEW l \in Link, TypeInv, mode[l] = "deleted", [Next]_vars
  PROVE  mode'[l] = "deleted"
<1>t. mode \in [Link -> Mode]
  BY DEF TypeInv, TypeOK
<1>1. ASSUME NEW k \in Link, EditLink(k) PROVE mode'[l] = mode[l]
  BY <1>t, <1>1 DEF EditLink
<1>2. CASE ~\E k \in Link : EditLink(k)
  BY <1>2 DEF Next, vars, ServerStep, BrokerStep, WorkerStep, PurgeOldClicks,
     RouteDirect, PublishSend, PublishUnsent, PublishConfirmed,
     PublishUnconfirmed, RecordClick, BrokerTakesClick, BrokerMissesClick,
     BrokerTakesRetry, BrokerRefusesRetry, RetryExpires, WorkerStart, Accept,
     AckCommitted, RejectExhausted, RetryPublish, FlushCommits, FlushFails,
     RetryConfirmed, RetryUnconfirmed, ServerCrash, WorkerCrash
<1>. QED
  BY <1>1, <1>2

LEMMA RefusedStep ==
  ASSUME TypeInv, PurgedQuiet, RefusedInv, [Next]_vars
  PROVE  RefusedInv'
<1>t. LinkOf \in [Event -> Link]
  BY PipelineAssumption
<1>1. ASSUME NEW e \in Event, req'[e] \in {"idle", "direct"} PROVE NoCopies(e)'
  <2>t. req \in [Event -> ReqState]
    BY DEF TypeInv, TypeOK
  <2>1. ~PublishSend(e)
    BY <1>1, <2>t DEF PublishSend
  <2>2. req[e] \in {"idle", "direct"}
    <3>1. ServerStep(e) => req[e] \in {"idle", "direct"}
      BY <1>1, <2>t DEF ServerStep, RouteDirect, PublishSend, PublishUnsent,
                        PublishConfirmed, PublishUnconfirmed, RecordClick, ReqState
    <3>. QED
      BY <1>1, <3>1, RequestStep
  <2>. QED
    BY <2>1, <2>2, CopiesStep DEF RefusedInv
<1>2. ASSUME NEW e \in Event, req'[e] = "refused"
      PROVE  /\ e \notin Counted'
             /\ NoCopies(e)' \/ (e \in Counting /\ mode'[LinkOf[e]] = "deleted")
  <2>1. CASE req[e] = "refused"
    <3>1. ~RecordClick(e) /\ ~PublishSend(e)
      BY <2>1 DEF RecordClick, PublishSend
    <3>2. e \notin Counted
      BY <2>1 DEF RefusedInv
    <3>3. CASE NoCopies(e)
      BY <3>1, <3>2, <3>3, CountedStep, CopiesStep DEF NoCopies
    <3>4. CASE e \in Counting /\ mode[LinkOf[e]] = "deleted"
      BY <1>t, <3>1, <3>2, <3>4, CountedStep, DeletedStays
    <3>. QED
      BY <2>1, <3>3, <3>4 DEF RefusedInv
  <2>2. CASE req[e] # "refused"
    <3>t. req \in [Event -> ReqState]
      BY DEF TypeInv, TypeOK
    <3>1. RecordClick(e)
      BY <1>2, <2>2, <3>t, RequestStep
         DEF ServerStep, RouteDirect, PublishSend, PublishUnsent,
             PublishConfirmed, PublishUnconfirmed
    <3>2. /\ e \notin rows /\ e \in Counting
          /\ mode[LinkOf[e]] = "deleted" \/ req[e] = "direct"
          /\ UNCHANGED storeVars /\ UNCHANGED mode
      BY <1>2, <3>t, <3>1 DEF RecordClick
    <3>3. ~Quiet(e)
      BY <3>1 DEF RecordClick, Quiet
    <3>4. e \notin Counted'
      BY <3>2, <3>3 DEF Counted, PurgedQuiet, storeVars
    <3>5. req[e] = "direct" => NoCopies(e)'
      BY CopiesStep DEF RefusedInv, PublishSend
    <3>. QED
      BY <3>2, <3>4, <3>5
  <2>. QED
    BY <2>1, <2>2
<1>. QED
  BY <1>1, <1>2 DEF RefusedInv

(* A visitor who was told that the link has expired is not counted later by *)
(* a copy of the same click that was still queued.                          *)
THEOREM RefusedNeverCounted ==
  ASSUME "long_backlog" \notin Faults
  PROVE  Spec => []RefusedClicksStayUncounted
<1>1. Init => RefusedInv
  <2>. SUFFICES ASSUME Init, NEW e \in Event PROVE req[e] = "idle" /\ NoCopies(e)
    BY DEF RefusedInv
  <2>. QED
    BY HoldsEmpty DEF Init, NoCopies, InSeq
<1>2. TypeInv /\ PurgedQuiet /\ RefusedInv /\ [Next]_vars => RefusedInv'
  BY RefusedStep
<1>3. RefusedInv => RefusedClicksStayUncounted
  BY DEF RefusedInv, RefusedClicksStayUncounted
<1>. QED
  BY <1>1, <1>2, <1>3, PurgedInv, PTL DEF Spec

-----------------------------------------------------------------------------
(* Accepted clicks *)

(* The retry copy of the delivery that awaits confirmation. *)
RetryOf(m) == [m EXCEPT !.tries = @ + 1]

(* The event is booked, parked, queued or held by the worker.  A copy that  *)
(* is only on its way to the retry queue does not count: the worker holds   *)
(* its original until the copy is confirmed.                                *)
Kept(e) ==
  \/ e \in Counted \cup dlq
  \/ Holds(mainq, e) \/ Holds(retryq, e) \/ Holds(batch, e)

(* Without late confirmations the retry publisher's channel is in step: it  *)
(* is empty unless the worker waits, and then it holds the one copy or the  *)
(* one confirmation the worker waits for.  A positive confirmation means    *)
(* that the broker has the copy.                                            *)
ChannelInStep ==
  /\ phase # "confirm" => rwire = <<>> /\ confirms = <<>>
  /\ phase = "confirm" =>
       /\ cur.tries + 1 < MaxRetries
       /\ \/ rwire = <<RetryOf(cur)>> /\ confirms = <<>>
          \/ rwire = <<>> /\ confirms = <<"nack">>
          \/ /\ rwire = <<>> /\ confirms = <<"ack">>
             /\ Holds(retryq, cur.ev) \/ Holds(mainq, cur.ev)

(* Deliveries are acknowledged after a commit that contains their events. *)
SettledCounted ==
  phase = "settle" => \A m \in Msg : batch[m] > 0 => m.ev \in Counted

(* The publisher lock: one publish at a time, and a confirmation is only    *)
(* ever waiting for it, after the broker took the message.                  *)
PublisherInStep ==
  /\ \A e, f \in Event : req[e] = "publishing" /\ req[f] = "publishing" => e = f
  /\ reply = "ack" => \E e \in Event : req[e] = "publishing" /\ Kept(e)

AcceptedKept ==
  \A e \in Event : req[e] \in {"queued", "recorded"} => Kept(e)

LEMMA HoldsPutKeeps ==
  ASSUME NEW q \in [Msg -> Nat], NEW m \in Msg
  PROVE  Holds(Put(q, m), m.ev) /\ \A e : Holds(q, e) => Holds(Put(q, m), e)
<1>1. \A n \in Msg : Put(q, m)[n] >= q[n] /\ q[n] \in Nat /\ Put(q, m)[n] \in Nat
  BY PutQueue
<1>2. Put(q, m)[m] > 0
  BY PutQueue
<1>3. ASSUME NEW e, Holds(q, e) PROVE Holds(Put(q, m), e)
  BY <1>1, <1>3 DEF Holds
<1>. QED
  BY <1>2, <1>3 DEF Holds

LEMMA HoldsDropKeeps ==
  ASSUME NEW q \in [Msg -> Nat], NEW m \in Msg, q[m] > 0, NEW e, Holds(q, e)
  PROVE  Holds(Drop(q, m), e) \/ e = m.ev
BY DropQueue DEF Holds

(* An event never leaves the books. *)
LEMMA CountedGrows ==
  ASSUME [Next]_vars PROVE Counted \subseteq Counted' /\ dlq \subseteq dlq'
<1>1. \/ rows \subseteq rows' /\ purged' = purged
      \/ \E e \in Event : PurgeOldClicks(e)
  BY DEF Next, vars, serverVars, brokerVars, workerVars, storeVars, ServerStep,
     BrokerStep, WorkerStep, RouteDirect, PublishSend, PublishUnsent,
     PublishConfirmed, PublishUnconfirmed, RecordClick, BrokerTakesClick,
     BrokerMissesClick, BrokerTakesRetry, BrokerRefusesRetry, RetryExpires,
     WorkerStart, Accept, AckCommitted, RejectExhausted, RetryPublish,
     FlushCommits, FlushFails, RetryConfirmed, RetryUnconfirmed, ServerCrash,
     WorkerCrash, EditLink, Persist
<1>2. Counted \subseteq Counted'
  BY <1>1 DEF Counted, PurgeOldClicks
<1>3. dlq \subseteq dlq'
  BY DEF Next, vars, serverVars, brokerVars, workerVars, storeVars, ServerStep,
     BrokerStep, WorkerStep, RouteDirect, PublishSend, PublishUnsent,
     PublishConfirmed, PublishUnconfirmed, RecordClick, BrokerTakesClick,
     BrokerMissesClick, BrokerTakesRetry, BrokerRefusesRetry, RetryExpires,
     WorkerStart, Accept, AckCommitted, RejectExhausted, RetryPublish,
     FlushCommits, FlushFails, RetryConfirmed, RetryUnconfirmed, ServerCrash,
     WorkerCrash, EditLink, PurgeOldClicks
<1>. QED
  BY <1>2, <1>3

(* No step loses the last trace of an event: an acknowledgement comes after *)
(* the commit, or after the broker has taken the retry copy.                *)
LEMMA KeptStep ==
  ASSUME NEW e, TypeInv, ChannelInStep, SettledCounted, Kept(e), [Next]_vars,
         "confirm_timeout" \notin Faults
  PROVE  Kept(e)'
<1>t. /\ mainq \in [Msg -> Nat] /\ retryq \in [Msg -> Nat]
      /\ batch \in [Msg -> Nat] /\ rwire \in Seq(Msg)
  BY DEF TypeInv, TypeOK
<1>g. e \in Counted \cup dlq => Kept(e)'
  BY CountedGrows DEF Kept
<1>k. e \in Counted \cup dlq \/ Holds(mainq, e) \/ Holds(retryq, e) \/ Holds(batch, e)
  BY DEF Kept
<1>u. ASSUME UNCHANGED <<mainq, retryq, batch>> PROVE Kept(e)'
  BY <1>g, <1>k, <1>u DEF Kept, Holds
<1>. USE DEF serverVars, brokerVars, workerVars, storeVars
<1>1. ASSUME NEW f \in Event, ServerStep(f) \/ PurgeOldClicks(f) PROVE Kept(e)'
  BY <1>1, <1>u DEF ServerStep, RouteDirect, PublishSend, PublishUnsent,
     PublishConfirmed, PublishUnconfirmed, RecordClick, PurgeOldClicks
<1>2. CASE BrokerStep
  <2>1. ASSUME NEW f \in Event, BrokerTakesClick(f) PROVE Kept(e)'
    <3>1. Holds(mainq, e) => Holds(mainq', e)
      BY <1>t, <2>1, FirstCopy, HoldsPutKeeps DEF BrokerTakesClick
    <3>. QED
      BY <1>g, <1>k, <2>1, <3>1 DEF BrokerTakesClick, Kept, Holds
  <2>2. ASSUME NEW f \in Event, BrokerMissesClick(f) PROVE Kept(e)'
    BY <1>u, <2>2 DEF BrokerMissesClick
  <2>3. CASE BrokerTakesRetry
    <3>1. Head(rwire) \in Msg
      BY <1>t, <2>3, HeadTailProperties DEF BrokerTakesRetry
    <3>2. Holds(retryq, e) => Holds(retryq', e)
      BY <1>t, <2>3, <3>1, HoldsPutKeeps DEF BrokerTakesRetry
    <3>. QED
      BY <1>g, <1>k, <2>3, <3>2 DEF BrokerTakesRetry, Kept, Holds
  <2>4. CASE BrokerRefusesRetry
    BY <1>u, <2>4 DEF BrokerRefusesRetry
  <2>5. ASSUME NEW m \in Msg, RetryExpires(m) PROVE Kept(e)'
    <3>1. Holds(mainq', m.ev) /\ (Holds(mainq, e) => Holds(mainq', e))
      BY <1>t, <2>5, HoldsPutKeeps DEF RetryExpires
    <3>2. Holds(retryq, e) => Holds(retryq', e) \/ e = m.ev
      BY <1>t, <2>5, HoldsDropKeeps DEF RetryExpires
    <3>. QED
      BY <1>g, <1>k, <2>5, <3>1, <3>2 DEF RetryExpires, Kept, Holds
  <2>. QED
    BY <1>2, <2>1, <2>2, <2>3, <2>4, <2>5 DEF BrokerStep
<1>3. CASE WorkerStep
  <2>1. ASSUME NEW m \in Msg, Accept(m) PROVE Kept(e)'
    <3>1. Holds(mainq, e) => Holds(mainq', e) \/ e = m.ev
      BY <1>t, <2>1, HoldsDropKeeps DEF Accept
    <3>2. CASE m.ev \in Undecodable
      BY <1>g, <1>k, <2>1, <3>1, <3>2 DEF Accept, Kept, Holds
    <3>3. CASE m.ev \notin Undecodable
      <4>1. batch' = Put(batch, m)
        BY <2>1, <3>3 DEF Accept
      <4>2. Holds(batch', m.ev) /\ (Holds(batch, e) => Holds(batch', e))
        BY <1>t, <4>1, HoldsPutKeeps
      <4>. QED
        BY <1>g, <1>k, <2>1, <3>1, <4>2 DEF Accept, Kept, Holds
    <3>. QED
      BY <3>2, <3>3
  <2>2. ASSUME NEW m \in Msg, AckCommitted(m) PROVE Kept(e)'
    <3>1. m.ev \in Counted
      BY <2>2 DEF AckCommitted, SettledCounted
    <3>2. Holds(batch, e) => Holds(batch', e) \/ e = m.ev
      BY <1>t, <2>2, HoldsDropKeeps DEF AckCommitted, Settle
    <3>. QED
      BY <1>g, <1>k, <2>2, <3>1, <3>2 DEF AckCommitted, Kept, Holds
  <2>3. ASSUME NEW m \in Msg, RejectExhausted(m) PROVE Kept(e)'
    <3>1. Holds(batch, e) => Holds(batch', e) \/ e = m.ev
      BY <1>t, <2>3, HoldsDropKeeps DEF RejectExhausted, Settle
    <3>. QED
      BY <1>g, <1>k, <2>3, <3>1 DEF RejectExhausted, Kept, Holds
  <2>4. ASSUME NEW m \in Msg, RetryPublish(m) PROVE Kept(e)'
    BY <1>u, <2>4 DEF RetryPublish
  <2>5. CASE WorkerStart \/ FlushCommits \/ FlushFails
    BY <1>u, <2>5 DEF WorkerStart, FlushCommits, FlushFails
  <2>6. CASE RetryConfirmed
    <3>1. cur \in Msg /\ batch[cur] > 0
      BY <2>6 DEF RetryConfirmed, TypeInv, Awaiting
    <3>2. Holds(retryq, cur.ev) \/ Holds(mainq, cur.ev)
      BY <2>6 DEF RetryConfirmed, ChannelInStep
    <3>3. Holds(batch, e) => Holds(batch', e) \/ e = cur.ev
      BY <1>t, <2>6, <3>1, HoldsDropKeeps DEF RetryConfirmed, Settle
    <3>. QED
      BY <1>g, <1>k, <2>6, <3>2, <3>3 DEF RetryConfirmed, Kept, Holds
  <2>7. CASE RetryUnconfirmed
    <3>1. cur \in Msg /\ batch[cur] > 0
      BY <2>7 DEF RetryUnconfirmed, TypeInv, Awaiting
    <3>3. Holds(batch, e) => Holds(batch', e) \/ e = cur.ev
      BY <1>t, <2>7, <3>1, HoldsDropKeeps DEF RetryUnconfirmed, Settle
    <3>. QED
      BY <1>g, <1>k, <2>7, <3>3 DEF RetryUnconfirmed, Kept, Holds
  <2>. QED
    BY <1>3, <2>1, <2>2, <2>3, <2>4, <2>5, <2>6, <2>7 DEF WorkerStep
<1>4. CASE ServerCrash
  BY <1>4, <1>u DEF ServerCrash
<1>5. CASE WorkerCrash
  <2>1. Holds(mainq, e) \/ Holds(batch, e) => Holds(mainq', e)
    <3>1. \A m \in Msg : mainq'[m] = mainq[m] + batch[m]
      BY <1>5 DEF WorkerCrash
    <3>2. \A m \in Msg : mainq[m] \in Nat /\ batch[m] \in Nat
      BY <1>t
    <3>3. \A m \in Msg : mainq[m] > 0 \/ batch[m] > 0 => mainq'[m] > 0
      BY <3>1, <3>2
    <3>. QED
      BY <3>3 DEF Holds
  <2>2. Holds(retryq, e) => Holds(retryq', e)
    <3>1. PICK k \in 0 .. Len(rwire) :
            retryq' = [m \in Msg |->
                         retryq[m] + Cardinality({i \in 1 .. k : rwire[i] = m})]
      BY <1>5 DEF WorkerCrash
    <3>2. ASSUME NEW m \in Msg, retryq[m] > 0 PROVE retryq'[m] > 0
      <4>1. IsFiniteSet({i \in 1 .. k : rwire[i] = m})
        <5>1. IsFiniteSet(1 .. k)
          BY FS_Interval, <1>t, LenProperties
        <5>2. {i \in 1 .. k : rwire[i] = m} \subseteq 1 .. k
          OBVIOUS
        <5>. QED
          BY <5>1, <5>2, FS_Subset
      <4>2. Cardinality({i \in 1 .. k : rwire[i] = m}) \in Nat
        BY <4>1, FS_CardinalityType
      <4>3. retryq'[m] = retryq[m] + Cardinality({i \in 1 .. k : rwire[i] = m})
        BY <3>1, Zenon
      <4>. QED
        BY <1>t, <3>2, <4>2, <4>3
    <3>. QED
      BY <3>2 DEF Holds
  <2>. QED
    BY <1>g, <1>k, <2>1, <2>2 DEF Kept
<1>6. ASSUME NEW l \in Link, EditLink(l) PROVE Kept(e)'
  BY <1>6, <1>u DEF EditLink
<1>7. CASE UNCHANGED vars
  BY <1>7, <1>u DEF vars
<1>. QED
  BY <1>1, <1>2, <1>3, <1>4, <1>5, <1>6, <1>7 DEF Next

LEMMA ChannelStep ==
  ASSUME TypeInv, ChannelInStep, [Next]_vars, "confirm_timeout" \notin Faults
  PROVE  ChannelInStep'
<1>a. TypeOK /\ Awaiting
  BY DEF TypeInv
<1>t. /\ mainq \in [Msg -> Nat] /\ retryq \in [Msg -> Nat]
      /\ batch \in [Msg -> Nat] /\ rwire \in Seq(Msg)
  BY <1>a DEF TypeOK
<1>. USE DEF serverVars, brokerVars, workerVars, storeVars
<1>u. ASSUME UNCHANGED <<phase, cur, rwire, confirms, retryq>>,
             Holds(mainq, cur.ev) => Holds(mainq', cur.ev)
      PROVE  ChannelInStep'
  BY <1>u DEF ChannelInStep, Holds
<1>i. ASSUME UNCHANGED <<rwire, confirms>>, phase # "confirm", phase' # "confirm"
      PROVE  ChannelInStep'
  BY <1>i DEF ChannelInStep
<1>1. ASSUME NEW e \in Event, ServerStep(e) \/ PurgeOldClicks(e) PROVE ChannelInStep'
  BY <1>1, <1>u DEF ServerStep, RouteDirect, PublishSend, PublishUnsent,
     PublishConfirmed, PublishUnconfirmed, RecordClick, PurgeOldClicks
<1>2. CASE BrokerStep
  <2>1. ASSUME NEW e \in Event, BrokerTakesClick(e) PROVE ChannelInStep'
    <3>1. mainq' = Put(mainq, [ev |-> e, tries |-> 0])
          /\ UNCHANGED <<phase, cur, rwire, confirms, retryq>>
      BY <2>1 DEF BrokerTakesClick
    <3>. QED
      BY <1>t, <1>u, <3>1, FirstCopy, HoldsPutKeeps
  <2>2. ASSUME NEW e \in Event, BrokerMissesClick(e) PROVE ChannelInStep'
    BY <1>u, <2>2 DEF BrokerMissesClick
  <2>3. CASE BrokerTakesRetry
    <3>1. phase = "confirm" /\ rwire = <<RetryOf(cur)>> /\ confirms = <<>>
          /\ cur.tries + 1 < MaxRetries
      BY <2>3 DEF BrokerTakesRetry, ChannelInStep
    <3>2. cur \in Msg
      BY <1>a, <3>1 DEF Awaiting
    <3>3. RetryOf(cur) \in Msg /\ RetryOf(cur).ev = cur.ev
      BY <3>1, <3>2, RetryCopy, Zenon DEF RetryOf
    <3>4. Head(rwire) = RetryOf(cur) /\ Tail(rwire) = <<>>
      <4>. DEFINE c == RetryOf(cur)
      <4>1. c \in Msg /\ rwire = <<c>>
        BY <3>1, <3>3
      <4>. HIDE DEF c
      <4>2. Head(rwire) = c /\ Tail(rwire) = <<>>
        BY <4>1
      <4>. QED
        BY <4>2 DEF c
    <3>5. retryq' = Put(retryq, RetryOf(cur))
      BY <2>3, <3>4, Zenon DEF BrokerTakesRetry
    <3>6. Holds(retryq', cur.ev)
      BY <1>t, <3>3, <3>5, HoldsPutKeeps
    <3>7. rwire' = <<>> /\ confirms' = <<"ack">> /\ UNCHANGED <<phase, cur>>
      BY <2>3, <3>1, <3>4 DEF BrokerTakesRetry
    <3>. QED
      BY <3>1, <3>6, <3>7 DEF ChannelInStep
  <2>4. CASE BrokerRefusesRetry
    <3>1. phase = "confirm" /\ rwire = <<RetryOf(cur)>> /\ confirms = <<>>
          /\ cur.tries + 1 < MaxRetries
      BY <2>4 DEF BrokerRefusesRetry, ChannelInStep
    <3>2. Tail(rwire) = <<>>
      <4>. DEFINE c == RetryOf(cur)
      <4>1. rwire = <<c>>
        BY <3>1
      <4>. HIDE DEF c
      <4>. QED
        BY <4>1
    <3>3. rwire' = <<>> /\ confirms' = <<"nack">> /\ UNCHANGED <<phase, cur>>
      BY <2>4, <3>1, <3>2 DEF BrokerRefusesRetry
    <3>. QED
      BY <3>1, <3>3 DEF ChannelInStep
  <2>5. ASSUME NEW m \in Msg, RetryExpires(m) PROVE ChannelInStep'
    <3>1. Holds(mainq', m.ev) /\ \A e : Holds(mainq, e) => Holds(mainq', e)
      BY <1>t, <2>5, HoldsPutKeeps DEF RetryExpires
    <3>2. \A e : Holds(retryq, e) => Holds(retryq', e) \/ e = m.ev
      BY <1>t, <2>5, HoldsDropKeeps DEF RetryExpires
    <3>3. UNCHANGED <<phase, cur, rwire, confirms>>
      BY <2>5 DEF RetryExpires
    <3>4. Holds(retryq, cur.ev) \/ Holds(mainq, cur.ev)
          => Holds(retryq', cur.ev) \/ Holds(mainq', cur.ev)
      BY <3>1, <3>2
    <3>. QED
      BY <3>3, <3>4 DEF ChannelInStep, Holds
  <2>. QED
    BY <1>2, <2>1, <2>2, <2>3, <2>4, <2>5 DEF BrokerStep
<1>3. CASE WorkerStep
  <2>1. ASSUME NEW m \in Msg, Accept(m) \/ AckCommitted(m) \/ RejectExhausted(m)
        PROVE  ChannelInStep'
    BY <1>i, <2>1 DEF Accept, AckCommitted, RejectExhausted, Settle
  <2>4. CASE WorkerStart \/ FlushCommits \/ FlushFails
    BY <1>i, <2>4 DEF WorkerStart, FlushCommits, FlushFails
  <2>2. ASSUME NEW m \in Msg, RetryPublish(m) PROVE ChannelInStep'
    <3>1. rwire = <<>> /\ confirms = <<>>
      BY <2>2 DEF RetryPublish, ChannelInStep
    <3>2. rwire' = Append(rwire, RetryOf(m)) /\ cur' = m /\ confirms' = confirms
          /\ phase' = "confirm" /\ m.tries + 1 < MaxRetries
      BY <2>2, Zenon DEF RetryPublish, RetryOf
    <3>3. Append(<<>>, RetryOf(m)) = <<RetryOf(m)>>
      <4>. DEFINE c == RetryOf(m)
      <4>. HIDE DEF c
      <4>1. Append(<<>>, c) = <<c>>
        OBVIOUS
      <4>. QED
        BY <4>1 DEF c
    <3>4. rwire' = <<RetryOf(cur')>> /\ confirms' = <<>>
      BY <3>1, <3>2, <3>3, Zenon
    <3>5. cur'.tries + 1 < MaxRetries
      BY <3>2
    <3>. QED
      BY <3>2, <3>4, <3>5, Zenon DEF ChannelInStep, RetryOf
  <2>3. CASE RetryConfirmed \/ RetryUnconfirmed
    <3>1. phase' # "confirm" /\ rwire' = rwire
      BY <2>3 DEF RetryConfirmed, RetryUnconfirmed, Settle
    <3>2. phase = "confirm" /\ confirms # <<>> /\ confirms' = Tail(confirms)
      BY <2>3 DEF RetryConfirmed, RetryUnconfirmed
    <3>3. rwire = <<>> /\ (confirms = <<"nack">> \/ confirms = <<"ack">>)
      BY <3>2 DEF ChannelInStep
    <3>4. rwire' = <<>> /\ confirms' = <<>>
      BY <3>1, <3>2, <3>3
    <3>. QED
      BY <3>1, <3>4 DEF ChannelInStep
  <2>. QED
    BY <1>3, <2>1, <2>2, <2>3, <2>4 DEF WorkerStep
<1>4. CASE ServerCrash
  BY <1>4, <1>u DEF ServerCrash
<1>5. CASE WorkerCrash
  BY <1>5 DEF WorkerCrash, ChannelInStep
<1>6. ASSUME NEW l \in Link, EditLink(l) PROVE ChannelInStep'
  BY <1>6, <1>u DEF EditLink
<1>7. CASE UNCHANGED vars
  BY <1>7, <1>u DEF vars
<1>. QED
  BY <1>1, <1>2, <1>3, <1>4, <1>5, <1>6, <1>7 DEF Next

LEMMA SettledStep ==
  ASSUME TypeInv, SettledCounted, [Next]_vars
  PROVE  SettledCounted'
<1>t. batch \in [Msg -> Nat] /\ rows \subseteq Event
  BY DEF TypeInv, TypeOK
<1>g. Counted \subseteq Counted'
  BY CountedGrows
<1>. USE DEF serverVars, brokerVars, workerVars, storeVars
<1>u. ASSUME UNCHANGED <<phase, batch>> PROVE SettledCounted'
  BY <1>g, <1>u DEF SettledCounted
<1>1. ASSUME phase' # "settle" PROVE SettledCounted'
  BY <1>1 DEF SettledCounted
<1>2. ASSUME NEW e \in Event, ServerStep(e) \/ PurgeOldClicks(e) PROVE SettledCounted'
  BY <1>2, <1>u DEF ServerStep, RouteDirect, PublishSend, PublishUnsent,
     PublishConfirmed, PublishUnconfirmed, RecordClick, PurgeOldClicks
<1>3. CASE BrokerStep
  BY <1>3, <1>u DEF BrokerStep, BrokerTakesClick, BrokerMissesClick,
     BrokerTakesRetry, BrokerRefusesRetry, RetryExpires
<1>4. CASE FlushCommits
  <2>1. ASSUME NEW m \in Msg, batch[m] > 0 PROVE m.ev \in rows'
    <3>1. m.ev \in BatchEvents
      BY <2>1 DEF BatchEvents, Holds, Msg
    <3>. QED
      BY <1>4, <3>1 DEF FlushCommits, Persist, Fresh
  <2>. QED
    BY <1>4, <2>1 DEF FlushCommits, SettledCounted, Counted
<1>5. ASSUME NEW m \in Msg, AckCommitted(m) PROVE SettledCounted'
  <2>1. \A n \in Msg : batch'[n] <= batch[n] /\ batch'[n] \in Nat
    BY <1>t, <1>5, DropQueue DEF AckCommitted, Settle
  <2>2. \A n \in Msg : batch'[n] > 0 => batch[n] > 0
    BY <1>t, <2>1
  <2>. QED
    BY <1>g, <1>5, <2>2 DEF AckCommitted, SettledCounted
<1>6. ASSUME NEW m \in Msg, Accept(m) \/ RejectExhausted(m) \/ RetryPublish(m)
      PROVE  SettledCounted'
  BY <1>1, <1>6 DEF Accept, RejectExhausted, RetryPublish, Settle
<1>11. CASE WorkerStart \/ FlushFails \/ RetryConfirmed \/ RetryUnconfirmed
  BY <1>1, <1>11 DEF WorkerStart, FlushFails, RetryConfirmed, RetryUnconfirmed, Settle
<1>7. CASE WorkerStep
  BY <1>4, <1>5, <1>6, <1>7, <1>11 DEF WorkerStep
<1>8. CASE ServerCrash \/ WorkerCrash
  BY <1>8, <1>u, <1>1 DEF ServerCrash, WorkerCrash
<1>9. ASSUME NEW l \in Link, EditLink(l) PROVE SettledCounted'
  BY <1>9, <1>u DEF EditLink
<1>10. CASE UNCHANGED vars
  BY <1>10, <1>u DEF vars
<1>. QED
  BY <1>2, <1>3, <1>7, <1>8, <1>9, <1>10 DEF Next

LEMMA PublisherStep ==
  ASSUME TypeInv, ChannelInStep, SettledCounted, PublisherInStep, [Next]_vars,
         "confirm_timeout" \notin Faults
  PROVE  PublisherInStep'
<1>t. /\ req \in [Event -> ReqState] /\ mainq \in [Msg -> Nat]
      /\ reply \in {"none", "ack"}
  BY DEF TypeInv, TypeOK
<1>k. \A e \in Event : Kept(e) => Kept(e)'
  BY KeptStep
<1>. USE DEF serverVars, brokerVars, workerVars, storeVars
<1>u. ASSUME UNCHANGED <<req, reply>> PROVE PublisherInStep'
  BY <1>k, <1>u DEF PublisherInStep
<1>1. ASSUME NEW e \in Event, ServerStep(e) PROVE PublisherInStep'
  <2>1. CASE PublishSend(e)
    <3>1. req' = [req EXCEPT ![e] = "publishing"] /\ reply' = reply
          /\ \A f \in Event : req[f] # "publishing"
      BY <2>1 DEF PublishSend
    <3>2. reply # "ack"
      BY <3>1 DEF PublisherInStep
    <3>. QED
      BY <1>t, <3>1, <3>2 DEF PublisherInStep
  <2>2. CASE PublishConfirmed(e) \/ PublishUnconfirmed(e)
    <3>1. reply' = "none"
      BY <2>2 DEF PublishConfirmed, PublishUnconfirmed
    <3>2. \A f \in Event : req'[f] = "publishing" => req[f] = "publishing"
      BY <1>t, <2>2 DEF PublishConfirmed, PublishUnconfirmed
    <3>. QED
      BY <3>1, <3>2 DEF PublisherInStep
  <2>3. CASE RouteDirect(e) \/ PublishUnsent(e) \/ RecordClick(e)
    <3>1. /\ reply' = reply /\ req[e] # "publishing"
          /\ \E r \in ReqState \ {"publishing"} : req' = [req EXCEPT ![e] = r]
      BY <2>3 DEF RouteDirect, PublishUnsent, RecordClick, ReqState
    <3>2. \A f \in Event : req'[f] = "publishing" <=> req[f] = "publishing"
      BY <1>t, <3>1
    <3>. QED
      BY <1>k, <3>1, <3>2 DEF PublisherInStep
  <2>. QED
    BY <1>1, <2>1, <2>2, <2>3 DEF ServerStep
<1>2. ASSUME NEW e \in Event, BrokerTakesClick(e) PROVE PublisherInStep'
  <2>1. CASE req[e] = "publishing"
    <3>1. [ev |-> e, tries |-> 0] \in Msg /\ [ev |-> e, tries |-> 0].ev = e
      BY FirstCopy
    <3>2. Holds(mainq', e)
      BY <1>t, <1>2, <3>1, HoldsPutKeeps DEF BrokerTakesClick
    <3>3. req' = req /\ Kept(e)'
      BY <1>2, <3>2 DEF BrokerTakesClick, Kept
    <3>. QED
      BY <2>1, <3>3 DEF PublisherInStep
  <2>2. CASE req[e] # "publishing"
    BY <1>2, <1>u, <2>2 DEF BrokerTakesClick
  <2>. QED
    BY <2>1, <2>2
<1>3. ASSUME NEW e \in Event, BrokerMissesClick(e) \/ PurgeOldClicks(e)
      PROVE  PublisherInStep'
  BY <1>3, <1>u DEF BrokerMissesClick, PurgeOldClicks
<1>4. CASE BrokerTakesRetry \/ BrokerRefusesRetry \/ \E m \in Msg : RetryExpires(m)
  BY <1>4, <1>u DEF BrokerTakesRetry, BrokerRefusesRetry, RetryExpires
<1>5. CASE WorkerStep
  BY <1>5, <1>u DEF WorkerStep, WorkerStart, Accept, AckCommitted, RejectExhausted,
     RetryPublish, FlushCommits, FlushFails, RetryConfirmed, RetryUnconfirmed
<1>6. CASE ServerCrash
  <2>1. reply' = "none"
    BY <1>6 DEF ServerCrash
  <2>2. \A f \in Event : req'[f] # "publishing"
    BY <1>t, <1>6 DEF ServerCrash
  <2>. QED
    BY <2>1, <2>2 DEF PublisherInStep
<1>7. CASE WorkerCrash \/ \E l \in Link : EditLink(l)
  BY <1>7, <1>u DEF WorkerCrash, EditLink
<1>8. CASE UNCHANGED vars
  BY <1>8, <1>u DEF vars
<1>. QED
  BY <1>1, <1>2, <1>3, <1>4, <1>5, <1>6, <1>7, <1>8 DEF Next, BrokerStep

LEMMA AcceptedStep ==
  ASSUME TypeInv, ChannelInStep, SettledCounted, PublisherInStep, AcceptedKept,
         [Next]_vars, "confirm_timeout" \notin Faults
  PROVE  AcceptedKept'
<1>. SUFFICES ASSUME NEW e \in Event, req'[e] \in {"queued", "recorded"}
              PROVE  Kept(e)'
  BY DEF AcceptedKept
<1>t. req \in [Event -> ReqState]
  BY DEF TypeInv, TypeOK
<1>k. Kept(e) => Kept(e)'
  BY KeptStep
<1>1. CASE req'[e] = req[e]
  BY <1>1, <1>k DEF AcceptedKept
<1>2. CASE req'[e] # req[e]
  <2>1. ServerStep(e)
    BY <1>2, RequestStep
  <2>2. PublishConfirmed(e) \/ RecordClick(e)
    BY <1>t, <2>1 DEF ServerStep, RouteDirect, PublishSend, PublishUnsent,
                      PublishUnconfirmed
  <2>3. CASE PublishConfirmed(e)
    <3>1. req[e] = "publishing" /\ reply = "ack"
      BY <2>3 DEF PublishConfirmed
    <3>2. Kept(e)
      BY <3>1 DEF PublisherInStep
    <3>. QED
      BY <1>k, <3>2
  <2>4. CASE RecordClick(e)
    <3>1. e \in rows \/ Persist({e})
      BY <1>t, <2>4 DEF RecordClick
    <3>2. e \in Counted'
      BY <2>4, <3>1, CountedGrows DEF Persist, Counted
    <3>. QED
      BY <3>2 DEF Kept
  <2>. QED
    BY <2>2, <2>3, <2>4
<1>. QED
  BY <1>1, <1>2

(* A redirect that was answered because its click was accepted keeps that   *)
(* click, as long as no retry confirmation arrives after Retry gave up on   *)
(* it: the assumption is the one the code needs, see run PipelineLostRetry. *)
THEOREM AcceptedNeverLost ==
  ASSUME "confirm_timeout" \notin Faults
  PROVE  Spec => []AcceptedClicksKept
<1>. DEFINE Inv == ChannelInStep /\ SettledCounted /\ PublisherInStep /\ AcceptedKept
<1>1. Init => Inv
  BY DEF Init, ChannelInStep, SettledCounted, PublisherInStep, AcceptedKept
<1>2. TypeInv /\ Inv /\ [Next]_vars => Inv'
  BY ChannelStep, SettledStep, PublisherStep, AcceptedStep
<1>3. Inv => AcceptedClicksKept
  BY DEF AcceptedKept, AcceptedClicksKept, Kept, Accounted
<1>. HIDE DEF Inv
<1>. QED
  BY <1>1, <1>2, <1>3, TypeInit, TypeStep, PTL DEF Spec
=============================================================================
