-------------------------- MODULE WorkerLoop_proofs --------------------------
(***************************************************************************)
(* Safety of the worker's loop: its batch and its timer, the path of a     *)
(* delivery, and a stop that loses nothing.                                *)
(*                                                                         *)
(* The invariant follows a delivery: it is at one place at a time, and as  *)
(* long as the connection is up and shutdown is not overdue, what has been *)
(* handed over is at one of the four places the process knows.             *)
(***************************************************************************)
EXTENDS WorkerLoop, SequenceTheorems, TLAPS

(* A delivery is in the channel once, and not with the bridge as well. *)
OnePlace ==
  /\ \A i, j \in 1 .. Len(source) : source[i] = source[j] => i = j
  /\ Bridged \cap Sourced = {}
  /\ waiting \cap settled = {}

(* Nothing that was handed over is lost sight of. *)
Known == (up /\ ~gaveUp) => Handed \subseteq held \cup flushing \cup Sourced \cup Bridged

(* What Worker.Run may rely on at each point. *)
Stages ==
  /\ at \notin {"flush", "returned"} => flushing = {}
  /\ at = "flush" => held = {}
  /\ (at = "drain" \/ then = "drain") => gaveUp
  /\ (bridge = "closed" /\ ~gaveUp) => (source = <<>> /\ ~open)
  /\ (at = "flush" /\ then = "returned" /\ ~gaveUp) => bridge = "closed"
  /\ (at = "returned" /\ ~failed) =>
       (held = {} /\ flushing = {} /\ (gaveUp \/ bridge = "closed"))

LoopInv == LoopTypeOK /\ HandedOnce /\ OnePlace /\ Known /\ Stages

-----------------------------------------------------------------------------
(* The delivery channel as a sequence *)

Elems(s) == {s[i] : i \in 1 .. Len(s)}

LEMMA AppendElems ==
  ASSUME NEW S, NEW s \in Seq(S), NEW d \in S
  PROVE  Elems(Append(s, d)) = Elems(s) \cup {d}
<1>1. Len(Append(s, d)) = Len(s) + 1 /\ Len(s) \in Nat
  BY AppendProperties, LenProperties
<1>2. \A i \in 1 .. Len(s) : Append(s, d)[i] = s[i]
  BY AppendProperties, <1>1
<1>3. Append(s, d)[Len(s) + 1] = d
  BY AppendProperties, <1>1
<1> QED BY <1>1, <1>2, <1>3 DEF Elems

LEMMA HeadTailElems ==
  ASSUME NEW S, NEW s \in Seq(S), s # <<>>,
         \A i, j \in 1 .. Len(s) : s[i] = s[j] => i = j
  PROVE  /\ Tail(s) \in Seq(S) /\ Head(s) \in Elems(s)
         /\ Elems(Tail(s)) = Elems(s) \ {Head(s)}
         /\ \A i, j \in 1 .. Len(Tail(s)) : Tail(s)[i] = Tail(s)[j] => i = j
<1>1. Len(s) \in Nat /\ Len(s) >= 1 /\ Head(s) = s[1]
  BY EmptySeq, LenProperties, HeadTailProperties
<1>2. /\ Tail(s) \in Seq(S) /\ Len(Tail(s)) = Len(s) - 1
      /\ \A i \in 1 .. Len(Tail(s)) : Tail(s)[i] = s[i + 1]
  BY HeadTailProperties
<1>3. ASSUME NEW x \in Elems(s), x # Head(s) PROVE x \in Elems(Tail(s))
  <2>1. PICK i \in 1 .. Len(s) : x = s[i]
    BY DEF Elems
  <2>2. i - 1 \in 1 .. Len(Tail(s)) /\ Tail(s)[i - 1] = x
    BY <1>1, <1>2, <1>3, <2>1
  <2> QED BY <2>2 DEF Elems
<1>4. ASSUME NEW x \in Elems(Tail(s)) PROVE x \in Elems(s) /\ x # Head(s)
  <2>1. PICK i \in 1 .. Len(Tail(s)) : x = Tail(s)[i]
    BY DEF Elems
  <2>2. i + 1 \in 1 .. Len(s) /\ x = s[i + 1] /\ i + 1 # 1
    BY <1>1, <1>2, <2>1
  <2> QED BY <1>1, <2>2 DEF Elems
<1>5. \A i, j \in 1 .. Len(Tail(s)) : Tail(s)[i] = Tail(s)[j] => i = j
  BY <1>1, <1>2
<1> QED BY <1>1, <1>2, <1>3, <1>4, <1>5 DEF Elems

-----------------------------------------------------------------------------
(* One lemma per action *)

LEMMA NewMessageStep ==
  ASSUME NEW d \in Delivery, LoopInv, NewMessage(d) PROVE LoopInv'
<1>a. LoopAssumption BY LoopAssumption
<1>s. Sourced' = Sourced BY DEF Sourced, NewMessage, intakeVars
<1>1. LoopTypeOK'
  BY <1>a DEF LoopInv, LoopTypeOK, Stages, LoopAssumption, NewMessage, intakeVars,
     batchVars, stopVars, retryVars
<1>2. HandedOnce'
  BY <1>a, <1>s DEF LoopInv, LoopTypeOK, Stages, LoopAssumption, HandedOnce, Handed,
     Bridged, NewMessage, intakeVars, batchVars, stopVars, retryVars
<1>3. OnePlace'
  BY <1>a, <1>s DEF LoopInv, LoopTypeOK, Stages, LoopAssumption, HandedOnce,
     OnePlace, Handed, Bridged, NewMessage, intakeVars, batchVars, stopVars, retryVars
<1>4. Known'
  BY <1>a, <1>s DEF LoopInv, LoopTypeOK, Stages, LoopAssumption, HandedOnce, Known,
     Handed, Bridged, NewMessage, intakeVars, batchVars, stopVars, retryVars
<1>5. Stages'
  BY <1>a DEF LoopInv, LoopTypeOK, Stages, LoopAssumption, NewMessage, intakeVars,
     batchVars, stopVars, retryVars
<1> QED BY <1>1, <1>2, <1>3, <1>4, <1>5 DEF LoopInv

LEMMA BridgeEndsStep ==
  ASSUME LoopInv, BridgeEnds PROVE LoopInv'
<1>a. LoopAssumption BY LoopAssumption
<1>s. Sourced' = Sourced BY DEF Sourced, BridgeEnds, intakeVars
<1>1. LoopTypeOK'
  BY <1>a DEF LoopInv, LoopTypeOK, Stages, LoopAssumption, BridgeEnds, intakeVars,
     batchVars, stopVars, retryVars
<1>2. HandedOnce'
  BY <1>a, <1>s DEF LoopInv, LoopTypeOK, Stages, LoopAssumption, HandedOnce, Handed,
     Bridged, BridgeEnds, intakeVars, batchVars, stopVars, retryVars
<1>3. OnePlace'
  BY <1>a, <1>s DEF LoopInv, LoopTypeOK, Stages, LoopAssumption, HandedOnce,
     OnePlace, Handed, Bridged, BridgeEnds, intakeVars, batchVars, stopVars, retryVars
<1>4. Known'
  BY <1>a, <1>s DEF LoopInv, LoopTypeOK, Stages, LoopAssumption, HandedOnce, Known,
     Handed, Bridged, BridgeEnds, intakeVars, batchVars, stopVars, retryVars
<1>5. Stages'
  BY <1>a DEF LoopInv, LoopTypeOK, Stages, LoopAssumption, BridgeEnds, intakeVars,
     batchVars, stopVars, retryVars
<1> QED BY <1>1, <1>2, <1>3, <1>4, <1>5 DEF LoopInv

(* The delivery received is known to be neither waiting nor settled, and it *)
(* is settled, added to the batch, or left behind by a loop that returns.   *)
LEMMA ReceiveStep ==
  ASSUME LoopInv, Receive PROVE LoopInv'
<1>a. LoopAssumption BY LoopAssumption
<1>s. Sourced' = Sourced BY DEF Sourced, Receive, intakeVars
<1> DEFINE d == bridge
<1>b. /\ d \in Delivery /\ d \in Handed /\ d \notin Sourced /\ d \notin held \cup flushing
      /\ bridge' = None /\ Bridged = {d} /\ Bridged' = {}
  BY <1>a DEF LoopInv, HandedOnce, OnePlace, Bridged, Receive, LoopAssumption
<1>c. flushing = {} BY DEF LoopInv, Stages, Receive
<1>d. waiting' = waiting BY DEF Receive
<1>e. \/ settled' = settled \cup {d} /\ held' = held /\ flushing' = flushing
      \/ ~up /\ settled' = settled /\ held' = held /\ flushing' = flushing
      \/ settled' = settled /\ held' = {} /\ flushing' = held \cup {d}
      \/ settled' = settled /\ held' = held \cup {d} /\ flushing' = flushing
  BY DEF Receive, accept, StartFlush
<1>1. LoopTypeOK'
  BY <1>a DEF LoopInv, LoopTypeOK, Stages, LoopAssumption, Receive, accept,
     StartFlush, resetTimer, Return, intakeVars, batchVars, stopVars, retryVars
<1>2. HandedOnce'
  BY <1>b, <1>c, <1>d, <1>e, <1>s DEF LoopInv, HandedOnce, Handed
<1>3. OnePlace'
  BY <1>b, <1>d, <1>e, <1>s DEF LoopInv, OnePlace, Handed, Receive
<1>4. Known'
  BY <1>b, <1>c, <1>d, <1>e, <1>s DEF LoopInv, Known, Handed, Receive, stopVars, retryVars
<1>5. Stages'
  BY <1>a DEF LoopInv, LoopTypeOK, Stages, LoopAssumption, Receive, accept,
     StartFlush, resetTimer, Return, intakeVars, batchVars, stopVars, retryVars
<1> QED BY <1>1, <1>2, <1>3, <1>4, <1>5 DEF LoopInv

LEMMA ReceiveClosedStep ==
  ASSUME LoopInv, ReceiveClosed PROVE LoopInv'
<1>a. LoopAssumption BY LoopAssumption
<1>s. Sourced' = Sourced BY DEF Sourced, ReceiveClosed, intakeVars
<1>1. LoopTypeOK'
  BY <1>a DEF LoopInv, LoopTypeOK, Stages, LoopAssumption, ReceiveClosed,
     StartFlush, intakeVars, batchVars, stopVars, retryVars
<1>2. HandedOnce'
  BY <1>a, <1>s DEF LoopInv, LoopTypeOK, Stages, LoopAssumption, HandedOnce, Handed,
     Bridged, ReceiveClosed, StartFlush, intakeVars, batchVars, stopVars, retryVars
<1>3. OnePlace'
  BY <1>a, <1>s DEF LoopInv, LoopTypeOK, Stages, LoopAssumption, HandedOnce,
     OnePlace, Handed, Bridged, ReceiveClosed, StartFlush, intakeVars, batchVars,
     stopVars, retryVars
<1>4. Known'
  BY <1>a, <1>s DEF LoopInv, LoopTypeOK, Stages, LoopAssumption, HandedOnce, Known,
     Handed, Bridged, ReceiveClosed, StartFlush, intakeVars, batchVars, stopVars, retryVars
<1>5. Stages'
  BY <1>a DEF LoopInv, LoopTypeOK, Stages, LoopAssumption, ReceiveClosed,
     StartFlush, intakeVars, batchVars, stopVars, retryVars
<1> QED BY <1>1, <1>2, <1>3, <1>4, <1>5 DEF LoopInv

LEMMA TimerFiresStep ==
  ASSUME LoopInv, TimerFires PROVE LoopInv'
<1>a. LoopAssumption BY LoopAssumption
<1>s. Sourced' = Sourced BY DEF Sourced, TimerFires, intakeVars
<1>1. LoopTypeOK'
  BY <1>a DEF LoopInv, LoopTypeOK, Stages, LoopAssumption, TimerFires, intakeVars,
     batchVars, stopVars, retryVars
<1>2. HandedOnce'
  BY <1>a, <1>s DEF LoopInv, LoopTypeOK, Stages, LoopAssumption, HandedOnce, Handed,
     Bridged, TimerFires, intakeVars, batchVars, stopVars, retryVars
<1>3. OnePlace'
  BY <1>a, <1>s DEF LoopInv, LoopTypeOK, Stages, LoopAssumption, HandedOnce,
     OnePlace, Handed, Bridged, TimerFires, intakeVars, batchVars, stopVars, retryVars
<1>4. Known'
  BY <1>a, <1>s DEF LoopInv, LoopTypeOK, Stages, LoopAssumption, HandedOnce, Known,
     Handed, Bridged, TimerFires, intakeVars, batchVars, stopVars, retryVars
<1>5. Stages'
  BY <1>a DEF LoopInv, LoopTypeOK, Stages, LoopAssumption, TimerFires, intakeVars,
     batchVars, stopVars, retryVars
<1> QED BY <1>1, <1>2, <1>3, <1>4, <1>5 DEF LoopInv

LEMMA TickStep ==
  ASSUME LoopInv, Tick PROVE LoopInv'
<1>a. LoopAssumption BY LoopAssumption
<1>s. Sourced' = Sourced BY DEF Sourced, Tick, intakeVars
<1>1. LoopTypeOK'
  BY <1>a DEF LoopInv, LoopTypeOK, Stages, LoopAssumption, Tick, StartFlush,
     intakeVars, batchVars, stopVars, retryVars
<1>2. HandedOnce'
  BY <1>a, <1>s DEF LoopInv, LoopTypeOK, Stages, LoopAssumption, HandedOnce, Handed,
     Bridged, Tick, StartFlush, intakeVars, batchVars, stopVars, retryVars
<1>3. OnePlace'
  BY <1>a, <1>s DEF LoopInv, LoopTypeOK, Stages, LoopAssumption, HandedOnce,
     OnePlace, Handed, Bridged, Tick, StartFlush, intakeVars, batchVars, stopVars, retryVars
<1>4. Known'
  BY <1>a, <1>s DEF LoopInv, LoopTypeOK, Stages, LoopAssumption, HandedOnce, Known,
     Handed, Bridged, Tick, StartFlush, intakeVars, batchVars, stopVars, retryVars
<1>5. Stages'
  BY <1>a DEF LoopInv, LoopTypeOK, Stages, LoopAssumption, Tick, StartFlush,
     intakeVars, batchVars, stopVars, retryVars
<1> QED BY <1>1, <1>2, <1>3, <1>4, <1>5 DEF LoopInv

LEMMA SeeDoneStep ==
  ASSUME LoopInv, SeeDone PROVE LoopInv'
<1>a. LoopAssumption BY LoopAssumption
<1>s. Sourced' = Sourced BY DEF Sourced, SeeDone, intakeVars
<1>1. LoopTypeOK'
  BY <1>a DEF LoopInv, LoopTypeOK, Stages, LoopAssumption, SeeDone, intakeVars,
     batchVars, stopVars, retryVars
<1>2. HandedOnce'
  BY <1>a, <1>s DEF LoopInv, LoopTypeOK, Stages, LoopAssumption, HandedOnce, Handed,
     Bridged, SeeDone, intakeVars, batchVars, stopVars, retryVars
<1>3. OnePlace'
  BY <1>a, <1>s DEF LoopInv, LoopTypeOK, Stages, LoopAssumption, HandedOnce,
     OnePlace, Handed, Bridged, SeeDone, intakeVars, batchVars, stopVars, retryVars
<1>4. Known'
  BY <1>a, <1>s DEF LoopInv, LoopTypeOK, Stages, LoopAssumption, HandedOnce, Known,
     Handed, Bridged, SeeDone, intakeVars, batchVars, stopVars, retryVars
<1>5. Stages'
  BY <1>a DEF LoopInv, LoopTypeOK, Stages, LoopAssumption, SeeDone, intakeVars,
     batchVars, stopVars, retryVars
<1> QED BY <1>1, <1>2, <1>3, <1>4, <1>5 DEF LoopInv

LEMMA DrainDefaultStep ==
  ASSUME LoopInv, DrainDefault PROVE LoopInv'
<1>a. LoopAssumption BY LoopAssumption
<1>s. Sourced' = Sourced BY DEF Sourced, DrainDefault, intakeVars
<1>1. LoopTypeOK'
  BY <1>a DEF LoopInv, LoopTypeOK, Stages, LoopAssumption, DrainDefault, StartFlush,
     intakeVars, batchVars, stopVars, retryVars
<1>2. HandedOnce'
  BY <1>a, <1>s DEF LoopInv, LoopTypeOK, Stages, LoopAssumption, HandedOnce, Handed,
     Bridged, DrainDefault, StartFlush, intakeVars, batchVars, stopVars, retryVars
<1>3. OnePlace'
  BY <1>a, <1>s DEF LoopInv, LoopTypeOK, Stages, LoopAssumption, HandedOnce,
     OnePlace, Handed, Bridged, DrainDefault, StartFlush, intakeVars, batchVars,
     stopVars, retryVars
<1>4. Known'
  BY <1>a, <1>s DEF LoopInv, LoopTypeOK, Stages, LoopAssumption, HandedOnce, Known,
     Handed, Bridged, DrainDefault, StartFlush, intakeVars, batchVars, stopVars, retryVars
<1>5. Stages'
  BY <1>a DEF LoopInv, LoopTypeOK, Stages, LoopAssumption, DrainDefault, StartFlush,
     intakeVars, batchVars, stopVars, retryVars
<1> QED BY <1>1, <1>2, <1>3, <1>4, <1>5 DEF LoopInv

LEMMA SettleDeliveryStep ==
  ASSUME NEW d \in Delivery, LoopInv, SettleDelivery(d) PROVE LoopInv'
<1>a. LoopAssumption BY LoopAssumption
<1>s. Sourced' = Sourced BY DEF Sourced, SettleDelivery, intakeVars
<1>1. LoopTypeOK'
  BY <1>a DEF LoopInv, LoopTypeOK, Stages, LoopAssumption, SettleDelivery, Return,
     intakeVars, batchVars, stopVars, retryVars
<1>2. HandedOnce'
  BY <1>a, <1>s DEF LoopInv, LoopTypeOK, Stages, LoopAssumption, HandedOnce, Handed,
     Bridged, SettleDelivery, Return, intakeVars, batchVars, stopVars, retryVars
<1>3. OnePlace'
  BY <1>a, <1>s DEF LoopInv, LoopTypeOK, Stages, LoopAssumption, HandedOnce,
     OnePlace, Handed, Bridged, SettleDelivery, Return, intakeVars, batchVars,
     stopVars, retryVars
<1>4. Known'
  BY <1>a, <1>s DEF LoopInv, LoopTypeOK, Stages, LoopAssumption, HandedOnce, Known,
     Handed, Bridged, SettleDelivery, Return, intakeVars, batchVars, stopVars, retryVars
<1>5. Stages'
  BY <1>a DEF LoopInv, LoopTypeOK, Stages, LoopAssumption, SettleDelivery, Return,
     intakeVars, batchVars, stopVars, retryVars
<1> QED BY <1>1, <1>2, <1>3, <1>4, <1>5 DEF LoopInv

LEMMA RetryReadsStep ==
  ASSUME NEW d \in Delivery, LoopInv, RetryReads(d) PROVE LoopInv'
<1>a. LoopAssumption BY LoopAssumption
<1>s. Sourced' = Sourced BY DEF Sourced, RetryReads, intakeVars
<1>1. LoopTypeOK'
  BY <1>a DEF LoopInv, LoopTypeOK, Stages, LoopAssumption, RetryReads, intakeVars,
     batchVars, stopVars, retryVars
<1>2. HandedOnce'
  BY <1>a, <1>s DEF LoopInv, LoopTypeOK, Stages, LoopAssumption, HandedOnce, Handed,
     Bridged, RetryReads, intakeVars, batchVars, stopVars, retryVars
<1>3. OnePlace'
  BY <1>a, <1>s DEF LoopInv, LoopTypeOK, Stages, LoopAssumption, HandedOnce,
     OnePlace, Handed, Bridged, RetryReads, intakeVars, batchVars, stopVars, retryVars
<1>4. Known'
  BY <1>a, <1>s DEF LoopInv, LoopTypeOK, Stages, LoopAssumption, HandedOnce, Known,
     Handed, Bridged, RetryReads, intakeVars, batchVars, stopVars, retryVars
<1>5. Stages'
  BY <1>a DEF LoopInv, LoopTypeOK, Stages, LoopAssumption, RetryReads, intakeVars,
     batchVars, stopVars, retryVars
<1> QED BY <1>1, <1>2, <1>3, <1>4, <1>5 DEF LoopInv

LEMMA RetryTimesOutStep ==
  ASSUME NEW d \in Delivery, LoopInv, RetryTimesOut(d) PROVE LoopInv'
<1>a. LoopAssumption BY LoopAssumption
<1>s. Sourced' = Sourced BY DEF Sourced, RetryTimesOut, intakeVars
<1>1. LoopTypeOK'
  BY <1>a DEF LoopInv, LoopTypeOK, Stages, LoopAssumption, RetryTimesOut, intakeVars,
     batchVars, stopVars, retryVars
<1>2. HandedOnce'
  BY <1>a, <1>s DEF LoopInv, LoopTypeOK, Stages, LoopAssumption, HandedOnce, Handed,
     Bridged, RetryTimesOut, intakeVars, batchVars, stopVars, retryVars
<1>3. OnePlace'
  BY <1>a, <1>s DEF LoopInv, LoopTypeOK, Stages, LoopAssumption, HandedOnce,
     OnePlace, Handed, Bridged, RetryTimesOut, intakeVars, batchVars, stopVars, retryVars
<1>4. Known'
  BY <1>a, <1>s DEF LoopInv, LoopTypeOK, Stages, LoopAssumption, HandedOnce, Known,
     Handed, Bridged, RetryTimesOut, intakeVars, batchVars, stopVars, retryVars
<1>5. Stages'
  BY <1>a DEF LoopInv, LoopTypeOK, Stages, LoopAssumption, RetryTimesOut, intakeVars,
     batchVars, stopVars, retryVars
<1> QED BY <1>1, <1>2, <1>3, <1>4, <1>5 DEF LoopInv

LEMMA LateConfirmationStep ==
  ASSUME LoopInv, LateConfirmation PROVE LoopInv'
<1>a. LoopAssumption BY LoopAssumption
<1>s. Sourced' = Sourced BY DEF Sourced, LateConfirmation, intakeVars
<1>1. LoopTypeOK'
  BY <1>a DEF LoopInv, LoopTypeOK, Stages, LoopAssumption, LateConfirmation, Blocked, intakeVars,
     batchVars, stopVars, retryVars
<1>2. HandedOnce'
  BY <1>a, <1>s DEF LoopInv, LoopTypeOK, Stages, LoopAssumption, HandedOnce, Handed,
     Bridged, LateConfirmation, intakeVars, batchVars, stopVars, retryVars
<1>3. OnePlace'
  BY <1>a, <1>s DEF LoopInv, LoopTypeOK, Stages, LoopAssumption, HandedOnce,
     OnePlace, Handed, Bridged, LateConfirmation, intakeVars, batchVars, stopVars, retryVars
<1>4. Known'
  BY <1>a, <1>s DEF LoopInv, LoopTypeOK, Stages, LoopAssumption, HandedOnce, Known,
     Handed, Bridged, LateConfirmation, intakeVars, batchVars, stopVars, retryVars
<1>5. Stages'
  BY <1>a DEF LoopInv, LoopTypeOK, Stages, LoopAssumption, LateConfirmation, intakeVars,
     batchVars, stopVars, retryVars
<1> QED BY <1>1, <1>2, <1>3, <1>4, <1>5 DEF LoopInv

LEMMA FlushDoneStep ==
  ASSUME LoopInv, FlushDone PROVE LoopInv'
<1>a. LoopAssumption BY LoopAssumption
<1>s. Sourced' = Sourced BY DEF Sourced, FlushDone, intakeVars
<1>1. LoopTypeOK'
  BY <1>a DEF LoopInv, LoopTypeOK, Stages, LoopAssumption, FlushDone, intakeVars,
     batchVars, stopVars, retryVars
<1>2. HandedOnce'
  BY <1>a, <1>s DEF LoopInv, LoopTypeOK, Stages, LoopAssumption, HandedOnce, Handed,
     Bridged, FlushDone, intakeVars, batchVars, stopVars, retryVars
<1>3. OnePlace'
  BY <1>a, <1>s DEF LoopInv, LoopTypeOK, Stages, LoopAssumption, HandedOnce,
     OnePlace, Handed, Bridged, FlushDone, intakeVars, batchVars, stopVars, retryVars
<1>4. Known'
  BY <1>a, <1>s DEF LoopInv, LoopTypeOK, Stages, LoopAssumption, HandedOnce, Known,
     Handed, Bridged, FlushDone, intakeVars, batchVars, stopVars, retryVars
<1>5. Stages'
  BY <1>a DEF LoopInv, LoopTypeOK, Stages, LoopAssumption, FlushDone, intakeVars,
     batchVars, stopVars, retryVars
<1> QED BY <1>1, <1>2, <1>3, <1>4, <1>5 DEF LoopInv

LEMMA TerminateStep ==
  ASSUME LoopInv, Terminate PROVE LoopInv'
<1>a. LoopAssumption BY LoopAssumption
<1>s. Sourced' = Sourced BY DEF Sourced, Terminate, intakeVars
<1>1. LoopTypeOK'
  BY <1>a DEF LoopInv, LoopTypeOK, Stages, LoopAssumption, Terminate, intakeVars,
     batchVars, stopVars, retryVars
<1>2. HandedOnce'
  BY <1>a, <1>s DEF LoopInv, LoopTypeOK, Stages, LoopAssumption, HandedOnce, Handed,
     Bridged, Terminate, intakeVars, batchVars, stopVars, retryVars
<1>3. OnePlace'
  BY <1>a, <1>s DEF LoopInv, LoopTypeOK, Stages, LoopAssumption, HandedOnce,
     OnePlace, Handed, Bridged, Terminate, intakeVars, batchVars, stopVars, retryVars
<1>4. Known'
  BY <1>a, <1>s DEF LoopInv, LoopTypeOK, Stages, LoopAssumption, HandedOnce, Known,
     Handed, Bridged, Terminate, intakeVars, batchVars, stopVars, retryVars
<1>5. Stages'
  BY <1>a DEF LoopInv, LoopTypeOK, Stages, LoopAssumption, Terminate, intakeVars,
     batchVars, stopVars, retryVars
<1> QED BY <1>1, <1>2, <1>3, <1>4, <1>5 DEF LoopInv

LEMMA CancelIntakeStep ==
  ASSUME LoopInv, CancelIntake PROVE LoopInv'
<1>a. LoopAssumption BY LoopAssumption
<1>s. Sourced' = Sourced BY DEF Sourced, CancelIntake, intakeVars
<1>1. LoopTypeOK'
  BY <1>a DEF LoopInv, LoopTypeOK, Stages, LoopAssumption, CancelIntake, intakeVars,
     batchVars, stopVars, retryVars
<1>2. HandedOnce'
  BY <1>a, <1>s DEF LoopInv, LoopTypeOK, Stages, LoopAssumption, HandedOnce, Handed,
     Bridged, CancelIntake, intakeVars, batchVars, stopVars, retryVars
<1>3. OnePlace'
  BY <1>a, <1>s DEF LoopInv, LoopTypeOK, Stages, LoopAssumption, HandedOnce,
     OnePlace, Handed, Bridged, CancelIntake, intakeVars, batchVars, stopVars, retryVars
<1>4. Known'
  BY <1>a, <1>s DEF LoopInv, LoopTypeOK, Stages, LoopAssumption, HandedOnce, Known,
     Handed, Bridged, CancelIntake, intakeVars, batchVars, stopVars, retryVars
<1>5. Stages'
  BY <1>a DEF LoopInv, LoopTypeOK, Stages, LoopAssumption, CancelIntake, intakeVars,
     batchVars, stopVars, retryVars
<1> QED BY <1>1, <1>2, <1>3, <1>4, <1>5 DEF LoopInv

LEMMA stopWorkerStep ==
  ASSUME LoopInv, stopWorker PROVE LoopInv'
<1>a. LoopAssumption BY LoopAssumption
<1>s. Sourced' = Sourced BY DEF Sourced, stopWorker, intakeVars
<1>1. LoopTypeOK'
  BY <1>a DEF LoopInv, LoopTypeOK, Stages, LoopAssumption, stopWorker, intakeVars,
     batchVars, stopVars, retryVars
<1>2. HandedOnce'
  BY <1>a, <1>s DEF LoopInv, LoopTypeOK, Stages, LoopAssumption, HandedOnce, Handed,
     Bridged, stopWorker, intakeVars, batchVars, stopVars, retryVars
<1>3. OnePlace'
  BY <1>a, <1>s DEF LoopInv, LoopTypeOK, Stages, LoopAssumption, HandedOnce,
     OnePlace, Handed, Bridged, stopWorker, intakeVars, batchVars, stopVars, retryVars
<1>4. Known'
  BY <1>a, <1>s DEF LoopInv, LoopTypeOK, Stages, LoopAssumption, HandedOnce, Known,
     Handed, Bridged, stopWorker, intakeVars, batchVars, stopVars, retryVars
<1>5. Stages'
  BY <1>a DEF LoopInv, LoopTypeOK, Stages, LoopAssumption, stopWorker, intakeVars,
     batchVars, stopVars, retryVars
<1> QED BY <1>1, <1>2, <1>3, <1>4, <1>5 DEF LoopInv

LEMMA ConnectionLostStep ==
  ASSUME LoopInv, ConnectionLost PROVE LoopInv'
<1>a. LoopAssumption BY LoopAssumption
<1>s. Sourced' = Sourced BY DEF Sourced, ConnectionLost, intakeVars
<1>t. late' \in Nat /\ unread' \in 0 .. 2
  <2>1. late' = 0 /\ unread' = 0 BY DEF ConnectionLost
  <2> QED BY <2>1
<1>u. up' \in BOOLEAN /\ open' \in BOOLEAN
  <2>1. up' = FALSE /\ open' = FALSE BY DEF ConnectionLost
  <2> QED BY <2>1
<1>1. LoopTypeOK'
  BY <1>t, <1>u DEF LoopInv, LoopTypeOK, ConnectionLost, batchVars
<1>2. HandedOnce'
  BY <1>a, <1>s DEF LoopInv, LoopTypeOK, Stages, LoopAssumption, HandedOnce, Handed,
     Bridged, ConnectionLost, intakeVars, batchVars, stopVars, retryVars
<1>3. OnePlace'
  BY <1>a, <1>s DEF LoopInv, LoopTypeOK, Stages, LoopAssumption, HandedOnce,
     OnePlace, Handed, Bridged, ConnectionLost, intakeVars, batchVars, stopVars, retryVars
<1>4. Known'
  BY <1>a, <1>s DEF LoopInv, LoopTypeOK, Stages, LoopAssumption, HandedOnce, Known,
     Handed, Bridged, ConnectionLost, intakeVars, batchVars, stopVars, retryVars
<1>5. Stages'
  BY <1>a DEF LoopInv, LoopTypeOK, Stages, LoopAssumption, ConnectionLost,
     intakeVars, batchVars, stopVars, retryVars
<1> QED BY <1>1, <1>2, <1>3, <1>4, <1>5 DEF LoopInv

LEMMA DeliverStep ==
  ASSUME NEW d \in Delivery, LoopInv, Deliver(d) PROVE LoopInv'
<1>a. LoopAssumption BY LoopAssumption
<1>b. source \in Seq(Delivery) /\ source' = Append(source, d)
  BY DEF LoopInv, LoopTypeOK, Deliver
<1>s. Sourced' = Sourced \cup {d}
  BY <1>b, AppendElems DEF Sourced, Elems
<1>c. d \notin Sourced /\ d \notin held \cup flushing \cup Bridged /\ d \in waiting
  BY DEF LoopInv, HandedOnce, Handed, Deliver
<1>1. LoopTypeOK'
  BY <1>b, AppendProperties DEF LoopInv, LoopTypeOK, Deliver, intakeVars, batchVars,
     stopVars, retryVars
<1>2. HandedOnce'
  BY <1>s, <1>c DEF LoopInv, LoopTypeOK, HandedOnce, OnePlace, Handed, Bridged,
     Deliver, intakeVars, batchVars, stopVars, retryVars
<1>3. OnePlace'
  <2>1. \A i, j \in 1 .. Len(source') : source'[i] = source'[j] => i = j
    <3>1. /\ Len(source') = Len(source) + 1 /\ Len(source) \in Nat
          /\ source'[Len(source) + 1] = d
          /\ \A i \in 1 .. Len(source) : source'[i] = source[i] /\ source[i] # d
      BY <1>b, <1>c, AppendProperties DEF Sourced
    <3> QED BY <3>1 DEF LoopInv, OnePlace
  <2> QED BY <1>s, <1>c, <2>1 DEF LoopInv, OnePlace, Bridged, Deliver
<1>4. Known'
  BY <1>s, <1>c DEF LoopInv, LoopTypeOK, Known, Handed, Bridged, Deliver,
     intakeVars, batchVars, stopVars, retryVars
<1>5. Stages'
  BY <1>a DEF LoopInv, LoopTypeOK, Stages, LoopAssumption, Deliver, intakeVars,
     batchVars, stopVars, retryVars
<1> QED BY <1>1, <1>2, <1>3, <1>4, <1>5 DEF LoopInv

LEMMA BridgeTakesStep ==
  ASSUME LoopInv, BridgeTakes PROVE LoopInv'
<1>a. LoopAssumption BY LoopAssumption
<1> DEFINE h == Head(source)
<1>b. /\ source \in Seq(Delivery) /\ source # <<>> /\ source' = Tail(source)
      /\ bridge = None /\ bridge' = h
      /\ \A i, j \in 1 .. Len(source) : source[i] = source[j] => i = j
  BY DEF LoopInv, LoopTypeOK, OnePlace, BridgeTakes
<1>s. /\ source' \in Seq(Delivery) /\ h \in Sourced /\ Sourced' = Sourced \ {h}
      /\ \A i, j \in 1 .. Len(source') : source'[i] = source'[j] => i = j
  <2> HIDE DEF h
  <2>1. /\ Tail(source) \in Seq(Delivery) /\ Head(source) \in Elems(source)
        /\ Elems(Tail(source)) = Elems(source) \ {Head(source)}
        /\ \A i, j \in 1 .. Len(Tail(source)) : Tail(source)[i] = Tail(source)[j] => i = j
    BY <1>b, HeadTailElems
  <2>2. Sourced = Elems(source) /\ Sourced' = Elems(source')
    BY DEF Sourced, Elems
  <2> QED BY <1>b, <2>1, <2>2 DEF h
<1>c. h \in Delivery /\ h \in Handed /\ h \notin held \cup flushing
      /\ Bridged = {} /\ Bridged' = {h}
  BY <1>a, <1>b, <1>s DEF LoopInv, HandedOnce, Handed, Bridged, LoopAssumption
<1>d. Handed' = Handed /\ held' = held /\ flushing' = flushing /\ waiting' = waiting
      /\ settled' = settled
  BY DEF BridgeTakes, batchVars, Handed
<1>1. LoopTypeOK'
  BY <1>b, <1>s, <1>c DEF LoopInv, LoopTypeOK, BridgeTakes, intakeVars, batchVars, stopVars, retryVars
<1>2. HandedOnce'
  BY <1>s, <1>c, <1>d DEF LoopInv, HandedOnce
<1>3. OnePlace'
  BY <1>s, <1>c, <1>d DEF LoopInv, OnePlace
<1>4. Known'
  BY <1>s, <1>c, <1>d DEF LoopInv, Known, BridgeTakes, stopVars, retryVars
<1>5. Stages'
  BY <1>a, <1>b, <1>c DEF LoopInv, Stages, LoopAssumption, BridgeTakes, intakeVars,
     batchVars, stopVars, retryVars
<1> QED BY <1>1, <1>2, <1>3, <1>4, <1>5 DEF LoopInv

LEMMA SourceDroppedStep ==
  ASSUME LoopInv, SourceDropped PROVE LoopInv'
<1>a. LoopAssumption BY LoopAssumption
<1>s. source' = <<>> /\ Len(source') = 0 /\ Sourced' = {}
  BY DEF SourceDropped, Sourced
<1>1. LoopTypeOK'
  BY <1>s DEF LoopInv, LoopTypeOK, SourceDropped, intakeVars, batchVars, stopVars, retryVars
<1>2. HandedOnce'
  BY <1>s DEF LoopInv, HandedOnce, Handed, Bridged, SourceDropped, intakeVars,
     batchVars, stopVars, retryVars
<1>3. OnePlace'
  BY <1>s DEF LoopInv, OnePlace, Bridged, SourceDropped
<1>4. Known' BY DEF Known, SourceDropped, stopVars, retryVars
<1>5. Stages'
  BY <1>s DEF LoopInv, Stages, SourceDropped, intakeVars, batchVars, stopVars, retryVars
<1> QED BY <1>1, <1>2, <1>3, <1>4, <1>5 DEF LoopInv

LEMMA RestartStep ==
  ASSUME LoopInv, Restart PROVE LoopInv'
<1>a. LoopAssumption BY LoopAssumption
<1>s. source' = <<>> /\ Len(source') = 0 /\ Sourced' = {}
  BY DEF Restart, Sourced
<1>b. bridge' = None /\ Bridged' = {}
  BY <1>a DEF Restart, Bridged, LoopAssumption
<1>t. /\ source' \in Seq(Delivery) /\ open' \in BOOLEAN /\ bridge' \in Delivery \cup {None, "closed"}
      /\ waiting' \subseteq Delivery /\ settled' \subseteq Delivery /\ restarts' \in Nat
      /\ late' \in Nat /\ unread' \in 0 .. 2
  BY <1>a, <1>s, <1>b DEF LoopInv, LoopTypeOK, Handed, Restart, LoopAssumption
<1>1. LoopTypeOK' BY <1>t DEF LoopTypeOK, Restart
<1>2. HandedOnce'
  BY <1>s, <1>b DEF HandedOnce, Restart
<1>3. OnePlace'
  <2>1. \A i, j \in 1 .. Len(source') : source'[i] = source'[j] => i = j
    BY <1>s
  <2>2. waiting' \cap settled' = {}
    BY DEF LoopInv, OnePlace, Handed, Restart
  <2> QED BY <1>s, <2>1, <2>2 DEF OnePlace
<1>4. Known'
  BY <1>s, <1>b DEF LoopInv, LoopTypeOK, Known, Handed, Restart
<1>5. Stages' BY <1>a, <1>b DEF Stages, Restart, LoopAssumption
<1> QED BY <1>1, <1>2, <1>3, <1>4, <1>5 DEF LoopInv

-----------------------------------------------------------------------------
(* Theorems *)

LEMMA LoopInitInv == LoopInit => LoopInv
<1> SUFFICES ASSUME LoopInit PROVE LoopInv
  OBVIOUS
<1>a. LoopAssumption BY LoopAssumption
<1>s. source = <<>> /\ Len(source) = 0 /\ Sourced = {} /\ bridge = None /\ Bridged = {}
  BY <1>a DEF LoopInit, Sourced, Bridged, LoopAssumption
<1>t. /\ source \in Seq(Delivery) /\ open \in BOOLEAN /\ bridge \in Delivery \cup {None, "closed"}
      /\ waiting \subseteq Delivery /\ settled \subseteq Delivery
      /\ late \in Nat /\ unread \in 0 .. 2
  BY <1>s DEF LoopInit
<1>1. LoopTypeOK BY <1>t DEF LoopInit, LoopTypeOK
<1>2. HandedOnce BY <1>s DEF LoopInit, HandedOnce
<1>3. OnePlace BY <1>s DEF LoopInit, OnePlace
<1>4. Known BY DEF LoopInit, Known, Handed
<1>5. Stages BY <1>a, <1>s DEF LoopInit, Stages, LoopAssumption
<1> QED BY <1>1, <1>2, <1>3, <1>4, <1>5 DEF LoopInv

LEMMA LoopNextInv == LoopInv /\ [LoopNext]_loopVars => LoopInv'
<1> SUFFICES ASSUME LoopInv, [LoopNext]_loopVars PROVE LoopInv'
  OBVIOUS
<1>1. ASSUME NEW d \in Delivery, NewMessage(d) PROVE LoopInv'
  BY <1>1, NewMessageStep
<1>2. ASSUME NEW d \in Delivery, Deliver(d) PROVE LoopInv'
  BY <1>2, DeliverStep
<1>3. CASE BridgeTakes BY <1>3, BridgeTakesStep
<1>4. CASE BridgeEnds BY <1>4, BridgeEndsStep
<1>5. CASE Receive BY <1>5, ReceiveStep
<1>6. CASE ReceiveClosed BY <1>6, ReceiveClosedStep
<1>7. CASE Tick BY <1>7, TickStep
<1>8. CASE SeeDone BY <1>8, SeeDoneStep
<1>9. CASE DrainDefault BY <1>9, DrainDefaultStep
<1>10. CASE FlushDone BY <1>10, FlushDoneStep
<1>11. ASSUME NEW d \in Delivery, SettleDelivery(d) PROVE LoopInv'
  BY <1>11, SettleDeliveryStep
<1>12. CASE TimerFires BY <1>12, TimerFiresStep
<1>13. CASE Terminate BY <1>13, TerminateStep
<1>14. CASE CancelIntake BY <1>14, CancelIntakeStep
<1>15. CASE stopWorker BY <1>15, stopWorkerStep
<1>16. CASE ConnectionLost BY <1>16, ConnectionLostStep
<1>17. CASE SourceDropped BY <1>17, SourceDroppedStep
<1>18. CASE Restart BY <1>18, RestartStep
<1>19. ASSUME NEW d \in Delivery, RetryReads(d) PROVE LoopInv'
  BY <1>19, RetryReadsStep
<1>20. ASSUME NEW d \in Delivery, RetryTimesOut(d) PROVE LoopInv'
  BY <1>20, RetryTimesOutStep
<1>21. CASE LateConfirmation BY <1>21, LateConfirmationStep
<1>22. CASE UNCHANGED loopVars
  <2>1. /\ UNCHANGED <<waiting, source, open, bridge, held, timer, at, then, flushing>>
        /\ UNCHANGED <<settled, failed, stop, gaveUp, up, late, unread, restarts>>
    BY <1>22 DEF loopVars, intakeVars, batchVars, stopVars, retryVars
  <2>2. Sourced' = Sourced /\ Bridged' = Bridged /\ Handed' = Handed
    BY <2>1 DEF Sourced, Bridged, Handed
  <2> QED BY <2>1, <2>2 DEF LoopInv, LoopTypeOK, HandedOnce, OnePlace, Known, Stages
<1> QED
  BY <1>1, <1>2, <1>3, <1>4, <1>5, <1>6, <1>7, <1>8, <1>9, <1>10, <1>11, <1>12, <1>13,
     <1>14, <1>15, <1>16, <1>17, <1>18, <1>19, <1>20, <1>21, <1>22 DEF LoopNext, LoopStep, Retries

LEMMA LoopAlwaysInv == LoopSpec => []LoopInv
BY LoopInitInv, LoopNextInv, PTL DEF LoopSpec

(* Types, and a flush timer that is armed exactly while there is a batch.  *)
THEOREM LoopTypeCorrect == LoopSpec => []LoopTypeOK
<1>1. LoopInv => LoopTypeOK BY DEF LoopInv
<1> QED BY <1>1, LoopAlwaysInv, PTL

(* accept, flush, bridgeDeliveries: a delivery is in one place and in one  *)
(* batch at a time, so that no flush settles it twice.                     *)
THEOREM AlwaysHandedOnce == LoopSpec => []HandedOnce
<1>1. LoopInv => HandedOnce BY DEF LoopInv
<1> QED BY <1>1, LoopAlwaysInv, PTL

(* A worker that returns in time, connected and without an error leaves    *)
(* nothing unsettled.                                                      *)
THEOREM GracefulStopLosesNothing == LoopSpec => []GracefulStopSettlesAll
<1>1. LoopInv => GracefulStopSettlesAll
  <2> SUFFICES ASSUME LoopInv, at = "returned", ~failed, ~gaveUp, up PROVE Handed = {}
    BY DEF GracefulStopSettlesAll
  <2>1. bridge = "closed" /\ source = <<>> /\ held = {} /\ flushing = {}
    BY DEF LoopInv, Stages
  <2>2. Sourced = {} /\ Bridged = {}
    BY <2>1, LoopAssumption DEF Sourced, Bridged, LoopAssumption
  <2> QED BY <2>1, <2>2 DEF LoopInv, Known
<1> QED BY <1>1, LoopAlwaysInv, PTL
=============================================================================
