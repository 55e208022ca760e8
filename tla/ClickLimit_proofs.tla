------------------------- MODULE ClickLimit_proofs -------------------------
(***************************************************************************)
(* A limit is exact for the redirects that read it, for any number of      *)
(* redirects, workers, edits and limits.                                   *)
(*                                                                         *)
(* A redirect that may still pass the present limit has read another one,  *)
(* or none, and has not counted its click: it is ahead of the limit.  Such *)
(* redirects never grow in number between two edits, and each of them      *)
(* counts at most once; all others count below the limit.  So what is      *)
(* counted, what is about to be committed and the redirects ahead stay     *)
(* together within one bound (BoundKept).                                  *)
(***************************************************************************)
EXTENDS ClickLimit, FiniteSetTheorems, TLAPS

VisitType ==
  visit \in [Visit -> [pc : {"idle", "read", "record"} \cup Answer,
                       max : Limits \cup {Nil}, route : {"hit", "expired"}]]

(* What holds of one transaction. *)
Whole(a, t, route) ==
  /\ t.todo \cup t.inserted \subseteq t.batch
  /\ t.current \in t.inserted \cup {Nil}
  /\ t.counted \subseteq t.inserted
  /\ a \in Visit => t.batch = {a}
  /\ t.todo \cap t.inserted = {}
  /\ t.current \notin t.counted
  /\ t.counted # {} => t.locked
  /\ a \in Visit /\ t.current # Nil => route = "hit"
  /\ a \in Editor => t.locked

(* What holds of two. *)
Apart(s, t) == s.inserted \cap t.inserted = {} /\ ~(s.locked /\ t.locked)

TxInv ==
  /\ tx \in [Actor -> Transaction \cup {Nil}]
  /\ \A a \in Acting : a \in Visit \/ Whole(a, tx[a], "hit")
  /\ \A v \in Visit : v \in Acting => Whole(v, tx[v], visit[v].route)
  /\ \A a, b \in Acting : a # b => Apart(tx[a], tx[b])

(* A redirect runs a transaction exactly while it records. *)
RecordsInTx == \A v \in Visit : visit[v].pc = "record" <=> v \in Acting

RestType ==
  /\ max \in Limits \cup {Nil} /\ kept \in BOOLEAN /\ clicks \in Nat
  /\ stored \subseteq Visit /\ queue \subseteq Visit
  /\ changes \in 0..MaxChanges /\ mark \in [at : Nat, early : Nat]

ShapeInv == VisitType /\ TxInv /\ RecordsInTx /\ RestType

(* Redirects that may count a click whatever the present limit is. *)
Ahead ==
  {v \in Visit :
     /\ visit[v].route = "hit" /\ visit[v].pc \in {"read", "record"}
     /\ visit[v].max # max
     /\ v \in Acting => v \notin tx[v].counted}

Bound(n) == n <= max + mark.early \/ n <= mark.at + mark.early

(* What is committed, what one transaction may add to it, what redirects   *)
(* ahead of the limit may add.                                             *)
BoundKept ==
  /\ Cardinality(Ahead) <= mark.early
  /\ max # Nil =>
       /\ Bound(clicks + Cardinality(Ahead))
       /\ \A a \in Acting :
            Bound(clicks + Cardinality(tx[a].counted) + Cardinality(Ahead))

LimitInv == ShapeInv /\ BoundKept

-----------------------------------------------------------------------------
(* Transactions *)

LEMMA TransactionFields ==
  ASSUME NEW t \in Transaction
  PROVE  /\ t.batch \subseteq Visit /\ t.todo \subseteq Visit
         /\ t.inserted \subseteq Visit /\ t.counted \subseteq Visit
         /\ t.current \in Visit \cup {Nil} /\ t.locked \in BOOLEAN
         /\ t # Nil
BY LimitAssumption DEF Transaction

LEMMA BeginIs ==
  ASSUME NEW S \in SUBSET Visit
  PROVE  /\ Begin(S) \in Transaction
         /\ Begin(S).batch = S /\ Begin(S).todo = S /\ Begin(S).current = Nil
         /\ Begin(S).inserted = {} /\ Begin(S).counted = {}
         /\ Begin(S).locked = FALSE
BY DEF Begin, Transaction

(* Only the transaction of a changes, and becomes t. *)
TxBecomes(a, t) == tx' = [tx EXCEPT ![a] = t]

LEMMA OneChanges ==
  ASSUME tx \in [Actor -> Transaction \cup {Nil}], NEW a \in Actor,
         NEW t \in Transaction \cup {Nil}, TxBecomes(a, t)
  PROVE  /\ tx' \in [Actor -> Transaction \cup {Nil}]
         /\ tx'[a] = t
         /\ \A b \in Actor \ {a} : tx'[b] = tx[b]
         /\ Acting' = IF t = Nil THEN Acting \ {a} ELSE Acting \cup {a}
BY DEF TxBecomes, Acting

LEMMA ActiveIs ==
  ASSUME TxInv, NEW a \in Acting
  PROVE  a \in Actor /\ tx[a] \in Transaction
BY DEF TxInv, Acting

LEMMA InsertIs ==
  ASSUME ShapeInv, NEW a \in Actor, NEW v \in Visit, insertClick(a, v)
  PROVE  \E t \in Transaction :
           /\ TxBecomes(a, t)
           /\ t.batch = tx[a].batch /\ t.todo = tx[a].todo \ {v}
           /\ t.counted = tx[a].counted /\ t.locked = tx[a].locked
           /\ \/ t.inserted = tx[a].inserted /\ t.current = tx[a].current
              \/ /\ t.inserted = tx[a].inserted \cup {v}
                 /\ t.current = Nil \/ (t.current = v /\ visit[v].route = "hit")
<1> DEFINE done == [tx[a] EXCEPT !.todo = @ \ {v}]
           new == [tx[a] EXCEPT !.todo = @ \ {v}, !.inserted = @ \cup {v},
                                !.current = IF visit[v].route = "hit" THEN v
                                            ELSE Nil]
<1>1. a \in Acting /\ tx[a] \in Transaction
  BY ActiveIs DEF ShapeInv, insertClick
<1>2. CASE v \in stored
  <2>1. TxBecomes(a, done)
    BY <1>2 DEF insertClick, TxBecomes
  <2>2. done \in Transaction
    BY <1>1 DEF Transaction
  <2> QED BY <2>1, <2>2, <1>1 DEF Transaction
<1>3. CASE v \notin stored
  <2>1. TxBecomes(a, new)
    BY <1>3 DEF insertClick, TxBecomes
  <2>2. new \in Transaction
    BY <1>1 DEF Transaction
  <2> QED BY <2>1, <2>2, <1>1 DEF Transaction
<1> QED BY <1>2, <1>3

LEMMA CountIs ==
  ASSUME ShapeInv, NEW a \in Actor, countClick(a)
  PROVE  \E t \in Transaction :
           /\ TxBecomes(a, t)
           /\ t.batch = tx[a].batch /\ t.todo = tx[a].todo
           /\ t.inserted = tx[a].inserted /\ t.current = Nil /\ t.locked
           /\ t.counted = tx[a].counted \cup {tx[a].current}
<1> DEFINE t == [tx[a] EXCEPT !.counted = @ \cup {tx[a].current},
                              !.current = Nil, !.locked = TRUE]
<1>1. tx[a] \in Transaction /\ tx[a].current # Nil
  BY ActiveIs DEF ShapeInv, countClick
<1>2. t \in Transaction
  BY <1>1 DEF Transaction
<1>3. TxBecomes(a, t)
  BY DEF countClick, TxBecomes
<1> QED BY <1>1, <1>2, <1>3 DEF Transaction

-----------------------------------------------------------------------------
(* Types and shape *)

LEMMA ShapeSuffices ==
  ASSUME ShapeInv
  PROVE  LimitTypeOK
<1> USE DEF ShapeInv
<1>1. \A a \in Acting : a \in Actor /\ tx[a] \in Transaction
  BY DEF Acting, TxInv
<1>2. \A a \in Acting : tx[a].batch \subseteq Visit
  BY <1>1 DEF Transaction
<1>3. DOMAIN tx = Actor
  BY DEF TxInv
<1>4. \A a \in Acting : \E r : Whole(a, tx[a], r) /\ (a \in Visit => r = visit[a].route)
  BY DEF TxInv
<1>5. \A a \in Acting :
        /\ tx[a].todo \cup tx[a].inserted \subseteq tx[a].batch
        /\ tx[a].current \in tx[a].inserted \cup {Nil}
        /\ tx[a].counted \subseteq tx[a].inserted
        /\ \A b \in Acting \ {a} : Apart(tx[a], tx[b])
  BY <1>4 DEF Whole, TxInv
<1> QED
  BY <1>2, <1>3, <1>5 DEF LimitTypeOK, VisitType, RecordsInTx, RestType, Apart

(* A step that replaces or begins the transaction of a. *)
LEMMA TxStays ==
  ASSUME TxInv, NEW a \in Actor, NEW t \in Transaction, TxBecomes(a, t),
         Whole(a, t, IF a \in Visit THEN visit'[a].route ELSE "hit"),
         \A b \in Acting \ {a} : Apart(t, tx[b]),
         \A v \in Visit : v \in Acting => visit'[v].route = visit[v].route
  PROVE  TxInv' /\ Acting' = Acting \cup {a}
<1>0. t # Nil
  BY TransactionFields
<1>1. /\ tx' \in [Actor -> Transaction \cup {Nil}] /\ tx'[a] = t
      /\ \A b \in Actor \ {a} : tx'[b] = tx[b]
      /\ Acting' = Acting \cup {a}
  BY <1>0, OneChanges DEF TxInv
<1>2. \A b \in Acting : b \in Actor
  BY DEF Acting
<1>3. ASSUME NEW b \in Acting', b \notin Visit
      PROVE  Whole(b, tx'[b], "hit")
  BY <1>1, <1>2, <1>3 DEF TxInv
<1>4. ASSUME NEW v \in Visit, v \in Acting'
      PROVE  Whole(v, tx'[v], visit'[v].route)
  BY <1>1, <1>2, <1>4 DEF TxInv
<1>5. ASSUME NEW b \in Acting', NEW c \in Acting', b # c
      PROVE  Apart(tx'[b], tx'[c])
  <2>1. CASE b = a
    BY <2>1, <1>1, <1>2, <1>5
  <2>2. CASE c = a
    BY <2>2, <1>1, <1>2, <1>5 DEF Apart
  <2>3. CASE b # a /\ c # a
    BY <2>3, <1>1, <1>2, <1>5 DEF TxInv
  <2> QED BY <2>1, <2>2, <2>3
<1> QED BY <1>1, <1>3, <1>4, <1>5 DEF TxInv

(* A step that ends the transaction of a. *)
LEMMA TxEnds ==
  ASSUME TxInv, NEW a \in Actor, Ends(a),
         \A v \in Visit : v \in Acting => visit'[v].route = visit[v].route
  PROVE  TxInv' /\ Acting' = Acting \ {a}
<1>1. /\ tx' \in [Actor -> Transaction \cup {Nil}]
      /\ \A b \in Actor \ {a} : tx'[b] = tx[b]
      /\ Acting' = Acting \ {a}
  BY OneChanges DEF TxInv, Ends, TxBecomes
<1>2. \A b \in Acting' : b \in Acting /\ b \in Actor \ {a} /\ tx'[b] = tx[b]
  BY <1>1 DEF Acting
<1>3. ASSUME NEW b \in Acting'
      PROVE  b \in Visit \/ Whole(b, tx'[b], "hit")
  BY <1>2, <1>3 DEF TxInv
<1>4. ASSUME NEW v \in Visit, v \in Acting'
      PROVE  Whole(v, tx'[v], visit'[v].route)
  BY <1>2, <1>4 DEF TxInv
<1>5. ASSUME NEW b \in Acting', NEW c \in Acting', b # c
      PROVE  Apart(tx'[b], tx'[c])
  BY <1>2, <1>5 DEF TxInv
<1> QED BY <1>1, <1>3, <1>4, <1>5 DEF TxInv

(* A step that leaves transactions alone. *)
LEMMA TxSame ==
  ASSUME TxInv, UNCHANGED tx,
         \A v \in Visit : v \in Acting => visit'[v].route = visit[v].route
  PROVE  TxInv' /\ Acting' = Acting
<1>1. Acting' = Acting
  BY DEF Acting
<1> QED BY <1>1 DEF TxInv

LEMMA ReplyIs ==
  ASSUME VisitType, NEW v \in Visit, NEW answer \in Answer, Reply(v, answer)
  PROVE  /\ VisitType'
         /\ visit'[v].pc \in Answer
         /\ visit'[v].pc = "refused" => answer = "refused" /\ visit[v].route = "hit"
         /\ \A w \in Visit : visit'[w].max = visit[w].max
                             /\ visit'[w].route = visit[w].route
         /\ \A w \in Visit : w # v => visit'[w] = visit[w]
BY DEF VisitType, Reply, Answer

LEMMA AnswersEnd ==
  ASSUME NEW answer \in Answer
  PROVE  answer \notin {"idle", "read", "record"}
BY DEF Answer

LEMMA RedirectShape ==
  ASSUME ShapeInv, NEW v \in Visit, Redirect(v)
  PROVE  ShapeInv'
<1>1. VisitType'
  BY DEF Redirect, ShapeInv, VisitType, RestType
<1>2. /\ v \notin Acting /\ visit'[v].pc = "read"
      /\ \A w \in Visit : w # v => visit'[w] = visit[w]
  BY DEF Redirect, ShapeInv, VisitType, RecordsInTx
<1>3. TxInv' /\ Acting' = Acting
  BY <1>2, TxSame DEF Redirect, ShapeInv
<1>4. RecordsInTx'
  BY <1>2, <1>3 DEF ShapeInv, RecordsInTx
<1>5. RestType'
  BY DEF Redirect, ShapeInv, RestType
<1> QED BY <1>1, <1>3, <1>4, <1>5 DEF ShapeInv

(* Begin(S) holds nothing, so it is apart from every transaction. *)
LEMMA BeginApart ==
  ASSUME NEW S \in SUBSET Visit, NEW t
  PROVE  Apart(Begin(S), t)
BY BeginIs DEF Apart

LEMMA RecordDirectShape ==
  ASSUME ShapeInv, NEW v \in Visit, visit[v].pc = "read", RecordDirect(v)
  PROVE  /\ VisitType' /\ TxInv' /\ RecordsInTx'
         /\ Acting' = Acting \cup {v}
         /\ tx'[v] = Begin({v})
         /\ \A a \in Actor \ {v} : tx'[a] = tx[a]
         /\ visit'[v].pc = "record"
         /\ \A w \in Visit : visit'[w].max = visit[w].max
                             /\ visit'[w].route = visit[w].route
         /\ \A w \in Visit : w # v => visit'[w] = visit[w]
<1> USE DEF ShapeInv
<1>1. /\ VisitType' /\ visit'[v].pc = "record"
      /\ \A w \in Visit : visit'[w].max = visit[w].max
                             /\ visit'[w].route = visit[w].route
      /\ \A w \in Visit : w # v => visit'[w] = visit[w]
  BY DEF RecordDirect, VisitType
<1>2. v \in Actor /\ TxBecomes(v, Begin({v})) /\ {v} \in SUBSET Visit
  BY DEF Actor, RecordDirect, TxBecomes
<1>3. Begin({v}) \in Transaction
  BY <1>2, BeginIs
<1>4. Whole(v, Begin({v}), visit'[v].route)
  BY <1>2, BeginIs, LimitAssumption DEF Whole
<1>5. TxInv' /\ Acting' = Acting \cup {v}
  BY <1>1, <1>2, <1>3, <1>4, BeginApart, TxStays
<1>6. tx'[v] = Begin({v}) /\ \A a \in Actor \ {v} : tx'[a] = tx[a]
  BY <1>2, <1>3, OneChanges DEF TxInv
<1>7. RecordsInTx'
  BY <1>1, <1>5 DEF RecordsInTx
<1> QED BY <1>1, <1>5, <1>6, <1>7

(* The queue has the event, and the visitor an answer. *)
LEMMA RecordQueuedShape ==
  ASSUME ShapeInv, NEW v \in Visit, visit[v].pc = "read",
         Reply(v, "redirected"), UNCHANGED tx
  PROVE  VisitType' /\ TxInv' /\ RecordsInTx' /\ Acting' = Acting
<1> USE DEF ShapeInv
<1>1. /\ VisitType' /\ visit'[v].pc \in Answer
      /\ \A w \in Visit : visit'[w].route = visit[w].route
      /\ \A w \in Visit : w # v => visit'[w] = visit[w]
  BY ReplyIs DEF Answer
<1>2. TxInv' /\ Acting' = Acting
  BY <1>1, TxSame
<1>3. RecordsInTx'
  BY <1>1, <1>2, AnswersEnd DEF RecordsInTx
<1> QED BY <1>1, <1>2, <1>3

LEMMA RecordShape ==
  ASSUME ShapeInv, NEW v \in Visit, Record(v)
  PROVE  ShapeInv'
<1>1. visit[v].pc = "read"
  BY DEF Record
<1>2. VisitType' /\ TxInv' /\ RecordsInTx'
  <2>1. CASE RecordDirect(v)
    BY <1>1, <2>1, RecordDirectShape
  <2>2. CASE Reply(v, "redirected") /\ UNCHANGED tx
    BY <1>1, <2>2, RecordQueuedShape
  <2> QED BY <2>1, <2>2 DEF Record
<1>3. RestType'
  BY DEF Record, ShapeInv, RestType
<1> QED BY <1>2, <1>3 DEF ShapeInv

LEMMA TakeBatchIs ==
  ASSUME ShapeInv, NEW w \in Worker, TakeBatch(w)
  PROVE  \E S \in SUBSET Visit : TxBecomes(w, Begin(S))
BY DEF TakeBatch, TxBecomes, ShapeInv, RestType

LEMMA TakeBatchShape ==
  ASSUME ShapeInv, NEW w \in Worker, TakeBatch(w)
  PROVE  ShapeInv' /\ Acting' = Acting \cup {w} /\ tx'[w].counted = {}
         /\ \A a \in Actor \ {w} : tx'[a] = tx[a]
<1> USE DEF ShapeInv
<1>1. PICK S \in SUBSET Visit : TxBecomes(w, Begin(S))
  BY TakeBatchIs
<1>2. w \in Actor /\ w \notin Visit
  BY LimitAssumption DEF Actor
<1>3. Begin(S) \in Transaction /\ Whole(w, Begin(S), "hit")
  BY <1>2, BeginIs, LimitAssumption DEF Whole
<1>4. UNCHANGED visit
  BY DEF TakeBatch
<1>5. TxInv' /\ Acting' = Acting \cup {w}
  BY <1>1, <1>2, <1>3, <1>4, BeginApart, TxStays
<1>6. tx'[w] = Begin(S) /\ \A a \in Actor \ {w} : tx'[a] = tx[a]
  BY <1>1, <1>2, <1>3, OneChanges DEF TxInv
<1>7. RecordsInTx'
  BY <1>2, <1>4, <1>5 DEF RecordsInTx
<1>8. VisitType' /\ RestType'
  BY DEF TakeBatch, VisitType, RestType
<1> QED BY <1>5, <1>6, <1>7, <1>8, BeginIs

LEMMA InsertShape ==
  ASSUME ShapeInv, NEW a \in Visit \cup Worker, NEW v \in Visit, insertClick(a, v)
  PROVE  /\ ShapeInv' /\ Acting' = Acting
         /\ \A b \in Acting : tx'[b].counted = tx[b].counted
<1> USE DEF ShapeInv
<1>1. a \in Actor /\ a \in Acting /\ UNCHANGED visit
  BY DEF Actor, insertClick
<1>2. PICK t \in Transaction :
           /\ TxBecomes(a, t)
           /\ t.batch = tx[a].batch /\ t.todo = tx[a].todo \ {v}
           /\ t.counted = tx[a].counted /\ t.locked = tx[a].locked
           /\ \/ t.inserted = tx[a].inserted /\ t.current = tx[a].current
              \/ /\ t.inserted = tx[a].inserted \cup {v}
                 /\ t.current = Nil \/ (t.current = v /\ visit[v].route = "hit")
  BY <1>1, InsertIs
<1>3. /\ v \in tx[a].todo /\ tx[a].current = Nil /\ Nil \notin Visit
      /\ tx[a] \in Transaction
  BY <1>1, ActiveIs, LimitAssumption DEF insertClick
<1>4. PICK r : Whole(a, tx[a], r) /\ r = IF a \in Visit THEN visit[a].route ELSE "hit"
  BY <1>1 DEF TxInv
<1>5. Whole(a, t, IF a \in Visit THEN visit'[a].route ELSE "hit")
  <2>1. a \in Visit => v = a
    BY <1>3, <1>4 DEF Whole
  <2>2. v \notin tx[a].counted
    BY <1>3, <1>4 DEF Whole
  <2>3. tx[a].counted \subseteq Visit
    BY <1>3, TransactionFields
  <2> QED BY <1>1, <1>2, <1>3, <1>4, <2>1, <2>2, <2>3 DEF Whole
<1>6. ASSUME NEW b \in Acting \ {a}
      PROVE  Apart(t, tx[b])
  <2>1. Apart(tx[a], tx[b])
    BY <1>1 DEF TxInv
  <2>2. v \notin tx[b].inserted
    BY DEF insertClick, MayInsert
  <2>3. t.inserted \subseteq tx[a].inserted \cup {v} /\ t.locked = tx[a].locked
    BY <1>2
  <2> QED BY <2>1, <2>2, <2>3 DEF Apart
<1>7. TxInv' /\ Acting' = Acting
  <2>1. \A w \in Visit : visit'[w].route = visit[w].route
    BY <1>1
  <2>2. TxBecomes(a, t) /\ a \in Actor /\ TxInv
    BY <1>1, <1>2
  <2>3. TxInv' /\ Acting' = Acting \cup {a}
    BY <1>5, <1>6, <2>1, <2>2, TxStays
  <2> QED BY <1>1, <2>3
<1>8. tx'[a] = t /\ \A b \in Actor \ {a} : tx'[b] = tx[b]
  BY <1>1, <1>2, OneChanges DEF TxInv
<1>9. VisitType' /\ RecordsInTx' /\ RestType'
  BY <1>7 DEF insertClick, VisitType, RecordsInTx, RestType
<1> QED BY <1>2, <1>7, <1>8, <1>9, ActiveIs

(* countClick takes the link's row, which nobody else has.                 *)
LEMMA CountShape ==
  ASSUME ShapeInv, NEW a \in Visit \cup Worker, countClick(a)
  PROVE  /\ ShapeInv' /\ Acting' = Acting
         /\ tx'[a].counted = tx[a].counted \cup {tx[a].current}
         /\ tx[a].current \in Visit \ tx[a].counted
         /\ a \in Visit => tx[a].current = a /\ visit[a].route = "hit"
         /\ \A b \in Acting \ {a} : tx'[b] = tx[b] /\ tx[b].counted = {}
<1> USE DEF ShapeInv
<1>1. /\ a \in Actor /\ a \in Acting /\ UNCHANGED visit
      /\ tx[a].current # Nil /\ LinkFree(a)
  BY DEF Actor, countClick
<1>2. PICK t \in Transaction :
           /\ TxBecomes(a, t)
           /\ t.batch = tx[a].batch /\ t.todo = tx[a].todo
           /\ t.inserted = tx[a].inserted /\ t.current = Nil /\ t.locked
           /\ t.counted = tx[a].counted \cup {tx[a].current}
  BY <1>1, CountIs
<1>3. tx[a] \in Transaction
  BY <1>1, ActiveIs
<1>4. PICK r : Whole(a, tx[a], r) /\ r = IF a \in Visit THEN visit[a].route ELSE "hit"
  BY <1>1 DEF TxInv
<1>5. tx[a].current \in Visit \ tx[a].counted /\ tx[a].current \in tx[a].inserted
  BY <1>1, <1>3, <1>4, TransactionFields DEF Whole
<1>6. a \in Visit => tx[a].current = a /\ visit[a].route = "hit"
  BY <1>1, <1>4, <1>5 DEF Whole
<1>7. Whole(a, t, IF a \in Visit THEN visit'[a].route ELSE "hit")
  <2>1. Nil \notin t.counted
    BY TransactionFields, LimitAssumption
  <2> QED BY <1>1, <1>2, <1>4, <1>5, <2>1 DEF Whole
<1>8. \A b \in Acting \ {a} : Apart(t, tx[b]) /\ tx[b].counted = {}
  <2>1. ASSUME NEW b \in Acting \ {a}
        PROVE  Apart(t, tx[b]) /\ tx[b].counted = {}
    <3>1. ~tx[b].locked
      BY <1>1 DEF LinkFree
    <3>2. \E s : Whole(b, tx[b], s)
      BY DEF TxInv
    <3> QED BY <1>1, <1>2, <3>1, <3>2 DEF TxInv, Apart, Whole
  <2> QED BY <2>1
<1>9. TxInv' /\ Acting' = Acting
  BY <1>1, <1>2, <1>7, <1>8, TxStays
<1>10. tx'[a] = t /\ \A b \in Actor \ {a} : tx'[b] = tx[b]
  BY <1>1, <1>2, OneChanges DEF TxInv
<1>11. VisitType' /\ RecordsInTx' /\ RestType'
  BY <1>9 DEF countClick, VisitType, RecordsInTx, RestType
<1> QED BY <1>2, <1>5, <1>6, <1>8, <1>9, <1>10, <1>11, ActiveIs

(* A transaction ends, and with that of a redirect the redirect.           *)
EndsWith(a, answer) ==
  /\ Ends(a)
  /\ IF a \in Visit THEN Reply(a, answer) ELSE UNCHANGED visit

LEMMA EndShape ==
  ASSUME ShapeInv, NEW a \in Actor, NEW answer \in Answer, EndsWith(a, answer)
  PROVE  /\ VisitType' /\ TxInv' /\ RecordsInTx' /\ Acting' = Acting \ {a}
         /\ a \in Visit => visit'[a].pc \in Answer
         /\ \A b \in Acting \ {a} : tx'[b] = tx[b]
         /\ \A w \in Visit : visit'[w].max = visit[w].max
                             /\ visit'[w].route = visit[w].route
         /\ \A w \in Visit : w # a => visit'[w] = visit[w]
<1> USE DEF ShapeInv, EndsWith
<1>1. /\ VisitType'
      /\ a \in Visit => visit'[a].pc \in Answer
      /\ \A w \in Visit : visit'[w].max = visit[w].max
                             /\ visit'[w].route = visit[w].route
      /\ \A w \in Visit : w # a => visit'[w] = visit[w]
  <2>1. CASE a \in Visit
    BY <2>1, ReplyIs
  <2>2. CASE a \notin Visit
    BY <2>2 DEF VisitType
  <2> QED BY <2>1, <2>2
<1>2. TxInv' /\ Acting' = Acting \ {a}
  BY <1>1, TxEnds
<1>3. \A b \in Actor \ {a} : tx'[b] = tx[b]
  BY DEF Ends, TxInv
<1>4. RecordsInTx'
  BY <1>1, <1>2, AnswersEnd DEF RecordsInTx
<1> QED BY <1>1, <1>2, <1>3, <1>4, ActiveIs

LEMMA CountedIsFinite ==
  ASSUME ShapeInv, NEW a \in Acting
  PROVE  IsFiniteSet(tx[a].counted) /\ Cardinality(tx[a].counted) \in Nat
<1>1. tx[a].counted \in SUBSET Visit
  BY ActiveIs, TransactionFields DEF ShapeInv
<1> QED BY <1>1, FS_Subset, FS_CardinalityType, LimitAssumption

LEMMA CommitShape ==
  ASSUME ShapeInv, NEW a \in Visit \cup Worker, Commit(a)
  PROVE  ShapeInv' /\ a \in Acting /\ EndsWith(a, "redirected") /\ Books(a)
<1> USE DEF ShapeInv
<1>1. a \in Actor /\ a \in Acting /\ EndsWith(a, "redirected") /\ Books(a)
  BY DEF Actor, Commit, Finished, EndsWith
<1>2. VisitType' /\ TxInv' /\ RecordsInTx'
  BY <1>1, EndShape DEF Answer
<1>3. clicks' \in Nat
  BY <1>1, CountedIsFinite DEF Books, RestType
<1>4. stored' \subseteq Visit
  <2>1. tx[a].inserted \subseteq Visit
    BY <1>1, ActiveIs, TransactionFields
  <2> QED BY <1>1, <2>1 DEF Books, RestType
<1>5. RestType'
  BY <1>3, <1>4 DEF Commit, RestType
<1> QED BY <1>1, <1>2, <1>5

LEMMA RowRefusedShape ==
  ASSUME ShapeInv, NEW a \in Visit \cup Worker, RowRefused(a)
  PROVE  ShapeInv' /\ EndsWith(a, "refused")
<1> USE DEF ShapeInv
<1>1. a \in Actor /\ EndsWith(a, "refused")
  BY DEF Actor, RowRefused, Unbooked, EndsWith
<1>2. VisitType' /\ TxInv' /\ RecordsInTx'
  BY <1>1, EndShape DEF Answer
<1>3. RestType'
  BY DEF RowRefused, Unbooked, RestType
<1> QED BY <1>1, <1>2, <1>3

LEMMA TxFailsShape ==
  ASSUME ShapeInv, NEW a \in Actor, TxFails(a)
  PROVE  ShapeInv' /\ a \in Acting /\ EndsWith(a, "error")
<1> USE DEF ShapeInv
<1>1. a \in Acting /\ EndsWith(a, "error")
  BY DEF TxFails, Unbooked, EndsWith
<1>2. VisitType' /\ TxInv' /\ RecordsInTx'
  BY <1>1, EndShape DEF Answer
<1>3. clicks' \in Nat /\ stored' \subseteq Visit
  <2>1. CASE UNCHANGED <<clicks, stored>>
    BY <2>1 DEF RestType
  <2>2. CASE Books(a)
    <3>1. tx[a].inserted \subseteq Visit
      BY <1>1, ActiveIs, TransactionFields
    <3> QED BY <1>1, <2>2, <3>1, CountedIsFinite DEF Books, RestType
  <2> QED BY <2>1, <2>2 DEF TxFails
<1>4. changes' \in 0..MaxChanges
  BY LimitAssumption DEF TxFails, Change, RestType
<1>5. RestType'
  BY <1>3, <1>4 DEF TxFails, Unbooked, RestType
<1> QED BY <1>1, <1>2, <1>5

LEMMA LockLinkShape ==
  ASSUME ShapeInv, NEW e \in Editor, LockLink(e)
  PROVE  /\ ShapeInv' /\ Acting' = Acting \cup {e} /\ tx'[e].counted = {}
         /\ \A b \in Acting : tx'[b] = tx[b]
<1> USE DEF ShapeInv
<1> DEFINE t == [Begin({}) EXCEPT !.locked = TRUE]
<1>1. /\ t \in Transaction
      /\ t.batch = {} /\ t.todo = {} /\ t.current = Nil /\ t.inserted = {}
      /\ t.counted = {} /\ t.locked
  BY DEF Begin, Transaction
<1>2. e \in Actor /\ e \notin Acting /\ e \notin Visit /\ TxBecomes(e, t)
  BY LimitAssumption DEF Actor, LockLink, TxBecomes
<1>3. Whole(e, t, "hit")
  BY <1>1, <1>2 DEF Whole
<1>4. \A b \in Acting \ {e} : Apart(t, tx[b])
  BY <1>1 DEF LockLink, LinkFree, Apart
<1>5. UNCHANGED visit
  BY DEF LockLink
<1>6. TxInv' /\ Acting' = Acting \cup {e}
  BY <1>1, <1>2, <1>3, <1>4, <1>5, TxStays
<1>7. tx'[e] = t /\ \A b \in Actor \ {e} : tx'[b] = tx[b]
  BY <1>1, <1>2, OneChanges DEF TxInv
<1>8. RecordsInTx' /\ VisitType'
  BY <1>2, <1>5, <1>6 DEF RecordsInTx, VisitType
<1>9. changes' \in 0..MaxChanges
  BY LimitAssumption DEF LockLink, Change, RestType
<1>10. RestType'
  BY <1>9 DEF LockLink, RestType
<1> QED BY <1>1, <1>2, <1>6, <1>7, <1>8, <1>10, ActiveIs

LEMMA EarlyIsFinite == IsFiniteSet(Early) /\ Cardinality(Early) \in Nat
<1>1. Early \in SUBSET Visit
  BY DEF Early
<1> QED BY <1>1, FS_Subset, FS_CardinalityType, LimitAssumption

LEMMA CommitEditShape ==
  ASSUME ShapeInv, NEW e \in Editor, CommitEdit(e)
  PROVE  /\ ShapeInv' /\ Acting' = Acting \ {e} /\ UNCHANGED visit
         /\ \A b \in Acting \ {e} : tx'[b] = tx[b]
<1> USE DEF ShapeInv
<1>1. e \in Actor /\ e \notin Visit /\ Ends(e) /\ UNCHANGED visit
  BY LimitAssumption DEF Actor, CommitEdit
<1>2. /\ VisitType' /\ TxInv' /\ RecordsInTx' /\ Acting' = Acting \ {e}
      /\ \A b \in Acting \ {e} : tx'[b] = tx[b]
  <2>1. EndsWith(e, "error")
    BY <1>1 DEF EndsWith
  <2> QED BY <1>1, <2>1, EndShape DEF Answer
<1>3. RestType'
  BY EarlyIsFinite DEF CommitEdit, RestType
<1> QED BY <1>1, <1>2, <1>3

LEMMA DeleteLinkShape ==
  ASSUME ShapeInv, DeleteLink
  PROVE  ShapeInv' /\ Acting' = Acting
<1> USE DEF ShapeInv
<1>1. UNCHANGED <<tx, visit>>
  BY DEF DeleteLink
<1>2. TxInv' /\ Acting' = Acting
  BY <1>1, TxSame
<1>3. changes' \in 0..MaxChanges
  BY LimitAssumption DEF DeleteLink, Change, RestType
<1>4. VisitType' /\ RecordsInTx' /\ RestType'
  BY <1>1, <1>2, <1>3 DEF DeleteLink, VisitType, RecordsInTx, RestType
<1> QED BY <1>2, <1>4

LEMMA ShapeInit ==
  ASSUME LimitInit
  PROVE  ShapeInv /\ Acting = {}
<1>1. Acting = {}
  BY DEF LimitInit, Acting
<1>2. VisitType /\ RecordsInTx
  BY <1>1 DEF LimitInit, VisitType, RecordsInTx
<1>3. TxInv
  BY <1>1 DEF LimitInit, TxInv
<1>4. RestType
  BY LimitAssumption DEF LimitInit, RestType
<1> QED BY <1>1, <1>2, <1>3, <1>4 DEF ShapeInv

LEMMA ShapeStep ==
  ASSUME ShapeInv, [LimitNext]_limitVars
  PROVE  ShapeInv'
<1>1. ASSUME NEW v \in Visit, Redirect(v) \/ Record(v)
      PROVE  ShapeInv'
  BY <1>1, RedirectShape, RecordShape
<1>2. ASSUME NEW w \in Worker, TakeBatch(w)
      PROVE  ShapeInv'
  BY <1>2, TakeBatchShape
<1>3. ASSUME NEW a \in Visit \cup Worker, NEW v \in Visit, insertClick(a, v)
      PROVE  ShapeInv'
  BY <1>3, InsertShape
<1>4. ASSUME NEW a \in Visit \cup Worker,
             countClick(a) \/ RowRefused(a) \/ Commit(a)
      PROVE  ShapeInv'
  BY <1>4, CountShape, RowRefusedShape, CommitShape
<1>5. ASSUME NEW a \in Actor, TxFails(a)
      PROVE  ShapeInv'
  BY <1>5, TxFailsShape
<1>6. ASSUME NEW e \in Editor, LockLink(e) \/ CommitEdit(e)
      PROVE  ShapeInv'
  BY <1>6, LockLinkShape, CommitEditShape
<1>7. CASE DeleteLink
  BY <1>7, DeleteLinkShape
<1>8. CASE UNCHANGED limitVars
  <2>1. UNCHANGED <<max, kept, clicks, stored, queue, visit, tx, mark, changes>>
    BY <1>8 DEF limitVars
  <2>2. TxInv' /\ Acting' = Acting
    BY <2>1, TxSame DEF ShapeInv
  <2> QED BY <2>1, <2>2 DEF ShapeInv, VisitType, RecordsInTx, RestType
<1> QED BY <1>1, <1>2, <1>3, <1>4, <1>5, <1>6, <1>7, <1>8 DEF LimitNext

-----------------------------------------------------------------------------
(* The bound *)

LEMMA AheadIsFinite == IsFiniteSet(Ahead) /\ Cardinality(Ahead) \in Nat
<1>1. Ahead \in SUBSET Visit
  BY DEF Ahead
<1> QED BY <1>1, FS_Subset, FS_CardinalityType, LimitAssumption

LEMMA AheadShrinks ==
  ASSUME Ahead' \subseteq Ahead
  PROVE  Cardinality(Ahead') \in Nat /\ Cardinality(Ahead') <= Cardinality(Ahead)
BY FS_Subset, FS_CardinalityType, AheadIsFinite

(* The limit stays, nothing is booked and nothing is counted.              *)
LEMMA NothingCounted ==
  ASSUME ShapeInv, BoundKept, ShapeInv', UNCHANGED <<max, mark, clicks>>,
         Ahead' \subseteq Ahead,
         \A a \in Acting' : tx'[a].counted = {}
                            \/ (a \in Acting /\ tx'[a].counted = tx[a].counted)
  PROVE  BoundKept'
<1>1. /\ mark.early \in Nat /\ mark.at \in Nat /\ clicks \in Nat
      /\ max # Nil => max \in Nat
  BY LimitAssumption DEF ShapeInv, RestType
<1>2. Cardinality(Ahead) \in Nat /\ Cardinality(Ahead') \in Nat
      /\ Cardinality(Ahead') <= Cardinality(Ahead)
  BY AheadIsFinite, AheadShrinks
<1>3. Cardinality(Ahead') <= mark'.early
  BY <1>1, <1>2 DEF BoundKept
<1>4. ASSUME max # Nil
      PROVE  Bound(clicks + Cardinality(Ahead))'
  BY <1>1, <1>2, <1>4 DEF BoundKept, Bound
<1>5. ASSUME max # Nil, NEW a \in Acting'
      PROVE  Bound(clicks + Cardinality(tx[a].counted) + Cardinality(Ahead))'
  <2>1. CASE tx'[a].counted = {}
    BY <1>1, <1>2, <1>4, <1>5, <2>1, FS_EmptySet DEF Bound
  <2>2. CASE a \in Acting /\ tx'[a].counted = tx[a].counted
    <3>1. Cardinality(tx[a].counted) \in Nat
      BY <2>2, CountedIsFinite
    <3> QED BY <1>1, <1>2, <1>5, <2>2, <3>1 DEF BoundKept, Bound
  <2> QED BY <1>5, <2>1, <2>2
<1> QED BY <1>3, <1>4, <1>5 DEF BoundKept

LEMMA RedirectBound ==
  ASSUME LimitInv, NEW v \in Visit, Redirect(v)
  PROVE  BoundKept'
<1> USE DEF LimitInv, ShapeInv
<1>1. /\ visit'[v].max = max /\ UNCHANGED <<max, clicks, mark, tx>>
      /\ \A w \in Visit : w # v => visit'[w] = visit[w]
  BY DEF Redirect, VisitType
<1>2. Acting' = Acting
  BY <1>1 DEF Acting
<1>3. Ahead' \subseteq Ahead
  BY <1>1, <1>2 DEF Ahead
<1>4. \A a \in Acting' : tx'[a].counted = tx[a].counted
  BY <1>1
<1> QED BY <1>1, <1>2, <1>3, <1>4, RedirectShape, NothingCounted

LEMMA RecordBound ==
  ASSUME LimitInv, NEW v \in Visit, Record(v)
  PROVE  BoundKept'
<1> USE DEF LimitInv, ShapeInv
<1>1. /\ visit[v].pc = "read" /\ v \notin Acting /\ v \in Actor
      /\ UNCHANGED <<max, clicks, mark>>
  BY DEF Record, RecordsInTx, Actor
<1>2. CASE RecordDirect(v)
  <2>1. /\ Acting' = Acting \cup {v} /\ tx'[v] = Begin({v})
        /\ \A a \in Actor \ {v} : tx'[a] = tx[a]
        /\ \A w \in Visit : visit'[w].max = visit[w].max
                              /\ visit'[w].route = visit[w].route
        /\ \A w \in Visit : w # v => visit'[w] = visit[w]
    BY <1>1, <1>2, RecordDirectShape
  <2>2. Ahead' \subseteq Ahead
    BY <1>1, <2>1 DEF Ahead, Actor
  <2>3. \A a \in Acting' : tx'[a].counted = {}
                            \/ (a \in Acting /\ tx'[a].counted = tx[a].counted)
    <3>1. tx'[v].counted = {}
      BY <2>1 DEF Begin
    <3>2. \A a \in Acting : a # v => tx'[a] = tx[a]
      BY <2>1 DEF Acting
    <3> QED BY <2>1, <3>1, <3>2
  <2> QED BY <1>1, <2>2, <2>3, RecordShape, NothingCounted
<1>3. CASE Reply(v, "redirected") /\ UNCHANGED tx
  <2>1. /\ Acting' = Acting
        /\ visit'[v].pc \in Answer
        /\ \A w \in Visit : w # v => visit'[w] = visit[w]
    BY <1>1, <1>3, RecordQueuedShape, ReplyIs DEF Answer
  <2>2. Ahead' \subseteq Ahead
    BY <1>1, <1>3, <2>1, AnswersEnd DEF Ahead
  <2>3. \A a \in Acting' : tx'[a].counted = tx[a].counted
    BY <1>3
  <2> QED BY <1>1, <2>1, <2>2, <2>3, RecordShape, NothingCounted
<1> QED BY <1>2, <1>3 DEF Record

LEMMA TakeBatchBound ==
  ASSUME LimitInv, NEW w \in Worker, TakeBatch(w)
  PROVE  BoundKept'
<1> USE DEF LimitInv
<1>1. /\ Acting' = Acting \cup {w} /\ tx'[w].counted = {}
      /\ \A a \in Actor \ {w} : tx'[a] = tx[a]
  BY TakeBatchShape
<1>2. UNCHANGED <<max, clicks, mark, visit>> /\ w \notin Visit
  BY LimitAssumption DEF TakeBatch
<1>3. Ahead' \subseteq Ahead
  BY <1>1, <1>2 DEF Ahead, Actor
<1>4. \A a \in Acting' : tx'[a].counted = {}
                          \/ (a \in Acting /\ tx'[a].counted = tx[a].counted)
  BY <1>1 DEF Acting
<1> QED BY <1>2, <1>3, <1>4, TakeBatchShape, NothingCounted

LEMMA InsertBound ==
  ASSUME LimitInv, NEW a \in Visit \cup Worker, NEW v \in Visit, insertClick(a, v)
  PROVE  BoundKept'
<1> USE DEF LimitInv
<1>1. Acting' = Acting /\ \A b \in Acting : tx'[b].counted = tx[b].counted
  BY InsertShape
<1>2. UNCHANGED <<max, clicks, mark, visit>>
  BY DEF insertClick
<1>3. Ahead' \subseteq Ahead
  BY <1>1, <1>2 DEF Ahead
<1> QED BY <1>1, <1>2, <1>3, InsertShape, NothingCounted

LEMMA LockLinkBound ==
  ASSUME LimitInv, NEW e \in Editor, LockLink(e)
  PROVE  BoundKept'
<1> USE DEF LimitInv
<1>1. /\ Acting' = Acting \cup {e} /\ tx'[e].counted = {}
      /\ \A b \in Acting : tx'[b] = tx[b]
  BY LockLinkShape
<1>2. UNCHANGED <<max, clicks, mark, visit>> /\ e \notin Visit
  BY LimitAssumption DEF LockLink
<1>3. Ahead' \subseteq Ahead
  BY <1>1, <1>2 DEF Ahead
<1> QED BY <1>1, <1>2, <1>3, LockLinkShape, NothingCounted

LEMMA DeleteLinkBound ==
  ASSUME LimitInv, DeleteLink
  PROVE  BoundKept'
<1> USE DEF LimitInv
<1>1. UNCHANGED <<max, clicks, mark, visit, tx>> /\ Acting' = Acting
  BY DeleteLinkShape DEF DeleteLink
<1>2. Ahead' \subseteq Ahead
  BY <1>1 DEF Ahead
<1>3. \A a \in Acting' : tx'[a].counted = tx[a].counted
  BY <1>1
<1> QED BY <1>1, <1>2, <1>3, DeleteLinkShape, NothingCounted

(* A redirect that has its answer is no longer ahead.                      *)
LEMMA EndAhead ==
  ASSUME ShapeInv, NEW a \in Actor, NEW answer \in Answer, EndsWith(a, answer),
         UNCHANGED max
  PROVE  Ahead' \subseteq Ahead
<1>1. /\ Acting' = Acting \ {a}
      /\ a \in Visit => visit'[a].pc \in Answer
      /\ \A b \in Acting \ {a} : tx'[b] = tx[b]
      /\ \A w \in Visit : w # a => visit'[w] = visit[w]
  BY EndShape
<1>2. a \notin Ahead'
  BY <1>1, AnswersEnd DEF Ahead
<1> QED BY <1>1, <1>2 DEF Ahead

LEMMA UnbookedBound ==
  ASSUME LimitInv, ShapeInv', NEW a \in Actor, NEW answer \in Answer,
         EndsWith(a, answer), UNCHANGED <<max, mark, clicks>>
  PROVE  BoundKept'
<1> USE DEF LimitInv
<1>1. /\ Acting' = Acting \ {a} /\ \A b \in Acting \ {a} : tx'[b] = tx[b]
      /\ Ahead' \subseteq Ahead
  BY EndShape, EndAhead
<1> QED BY <1>1, NothingCounted

(* What a transaction books was within the bound before, and whoever has   *)
(* counted holds the row alone.                                            *)
LEMMA BookedBound ==
  ASSUME LimitInv, ShapeInv', NEW a \in Acting, NEW answer \in Answer,
         EndsWith(a, answer), Books(a), UNCHANGED <<max, mark>>
  PROVE  BoundKept'
<1> USE DEF LimitInv
<1>1. a \in Actor
  BY DEF Acting
<1>2. /\ Acting' = Acting \ {a} /\ \A b \in Acting \ {a} : tx'[b] = tx[b]
      /\ Ahead' \subseteq Ahead
  BY <1>1, EndShape, EndAhead
<1>3. /\ mark.early \in Nat /\ mark.at \in Nat /\ clicks \in Nat
      /\ max # Nil => max \in Nat
  BY LimitAssumption DEF ShapeInv, RestType
<1>4. Cardinality(Ahead) \in Nat /\ Cardinality(Ahead') \in Nat
      /\ Cardinality(Ahead') <= Cardinality(Ahead)
  BY <1>2, AheadIsFinite, AheadShrinks
<1>5. /\ Cardinality(tx[a].counted) \in Nat
      /\ clicks' = clicks + Cardinality(tx[a].counted)
  BY CountedIsFinite DEF Books
<1>6. Cardinality(Ahead') <= mark'.early
  BY <1>3, <1>4 DEF BoundKept
<1>7. ASSUME max # Nil
      PROVE  Bound(clicks + Cardinality(Ahead))'
  BY <1>3, <1>4, <1>5, <1>7 DEF BoundKept, Bound
<1>8. ASSUME max # Nil, NEW b \in Acting'
      PROVE  Bound(clicks + Cardinality(tx[b].counted) + Cardinality(Ahead))'
  <2>1. b \in Acting /\ b # a /\ tx'[b] = tx[b]
    BY <1>2
  <2>2. Cardinality(tx[b].counted) \in Nat
    BY <2>1, CountedIsFinite
  <2>3. CASE tx[a].counted = {}
    <3>1. clicks' = clicks
      BY <1>3, <1>5, <2>3, FS_EmptySet
    <3> QED BY <1>3, <1>4, <1>8, <2>1, <2>2, <3>1 DEF BoundKept, Bound
  <2>4. CASE tx[a].counted # {}
    <3>1. tx[b].counted = {}
      <4>1. tx[a].locked
        BY <2>4 DEF ShapeInv, TxInv, Whole
      <4>2. ~tx[b].locked
        BY <4>1, <2>1 DEF ShapeInv, TxInv, Apart
      <4> QED BY <4>2, <2>1 DEF ShapeInv, TxInv, Whole
    <3>2. Cardinality(tx'[b].counted) = 0
      BY <2>1, <3>1, FS_EmptySet
    <3> QED BY <1>3, <1>4, <1>7, <1>8, <3>2, <1>5 DEF Bound
  <2> QED BY <2>3, <2>4
<1> QED BY <1>6, <1>7, <1>8 DEF BoundKept

(* A redirect below the limit it read counts within it; one ahead is ahead *)
(* no longer; a worker counts only without a limit.                        *)
LEMMA CountBound ==
  ASSUME LimitInv, NEW a \in Visit \cup Worker, countClick(a)
  PROVE  BoundKept'
<1> USE DEF LimitInv
<1>1. /\ ShapeInv' /\ Acting' = Acting /\ a \in Acting
      /\ tx'[a].counted = tx[a].counted \cup {tx[a].current}
      /\ tx[a].current \in Visit \ tx[a].counted
      /\ a \in Visit => tx[a].current = a /\ visit[a].route = "hit"
      /\ \A b \in Acting \ {a} : tx'[b] = tx[b] /\ tx[b].counted = {}
  BY CountShape DEF countClick
<1>2. UNCHANGED <<max, clicks, mark, visit>> /\ Matches(a)
  BY DEF countClick
<1>3. /\ mark.early \in Nat /\ mark.at \in Nat /\ clicks \in Nat
      /\ max # Nil => max \in Nat
  BY LimitAssumption DEF ShapeInv, RestType
<1>4. Ahead' \subseteq Ahead
  <2>1. \A v \in Visit : v \in Acting => tx[v].counted \subseteq tx'[v].counted
    BY <1>1
  <2> QED BY <1>1, <1>2, <2>1 DEF Ahead
<1>5. Cardinality(Ahead) \in Nat /\ Cardinality(Ahead') \in Nat
      /\ Cardinality(Ahead') <= Cardinality(Ahead)
  BY <1>4, AheadIsFinite, AheadShrinks
<1>6. Cardinality(Ahead') <= mark'.early
  BY <1>2, <1>3, <1>5 DEF BoundKept
<1>7. ASSUME max # Nil
      PROVE  Bound(clicks + Cardinality(Ahead))'
  BY <1>2, <1>3, <1>5, <1>7 DEF BoundKept, Bound
<1>8. ASSUME max # Nil, NEW b \in Acting'
      PROVE  Bound(clicks + Cardinality(tx[b].counted) + Cardinality(Ahead))'
  <2>1. CASE b # a
    <3>1. Cardinality(tx'[b].counted) = 0
      <4>1. tx'[b].counted = {}
        BY <1>1, <1>8, <2>1
      <4> QED BY <4>1, FS_EmptySet
    <3>2. clicks' \in Nat /\ Cardinality(Ahead)' \in Nat
      BY <1>2, <1>3, <1>5
    <3>3. clicks' + Cardinality(tx'[b].counted) + Cardinality(Ahead)'
            = clicks' + Cardinality(Ahead)'
      BY <3>1, <3>2
    <3> QED BY <1>7, <1>8, <3>3 DEF Bound
  <2>2. CASE b = a
    <3>1. a \in Visit /\ tx[a].current = a /\ visit[a].route = "hit" /\ Below(a)
      BY <1>1, <1>2, <1>8 DEF Matches
    <3>2. tx[a].counted = {} /\ Cardinality(tx'[a].counted) = 1
      <4>1. tx[a].counted \subseteq {a}
        BY <1>1, <3>1 DEF ShapeInv, TxInv, Whole
      <4>2. tx[a].counted = {} /\ tx'[a].counted = {a}
        BY <1>1, <3>1, <4>1
      <4> QED BY <4>2, FS_Singleton
    <3>3. CASE visit[a].max = max
      <4>1. clicks < max
        BY <1>8, <3>1, <3>3 DEF Below
      <4> QED
        BY <1>2, <1>3, <1>6, <1>5, <1>8, <2>2, <3>2, <4>1 DEF Bound
    <3>4. CASE visit[a].max # max
      <4>1. a \in Ahead
        BY <1>1, <3>1, <3>2, <3>4 DEF Ahead, ShapeInv, RecordsInTx
      <4>2. a \notin Ahead'
        BY <1>1, <3>1 DEF Ahead
      <4>3. Ahead' \subseteq Ahead \ {a}
        BY <1>4, <4>2
      <4>4. /\ Cardinality(Ahead \ {a}) = Cardinality(Ahead) - 1
            /\ IsFiniteSet(Ahead \ {a})
        BY <4>1, AheadIsFinite, FS_RemoveElement
      <4>5. Cardinality(Ahead') <= Cardinality(Ahead) - 1
        BY <4>3, <4>4, FS_Subset
      <4> QED BY <1>2, <1>3, <1>5, <1>8, <2>2, <3>2, <4>5 DEF BoundKept, Bound
    <3> QED BY <3>3, <3>4
  <2> QED BY <2>1, <2>2
<1> QED BY <1>2, <1>6, <1>7, <1>8 DEF BoundKept

(* An edit holds the row, so nobody has counted and not booked; whoever    *)
(* will be ahead of the new limit has read the link already.               *)
LEMMA CommitEditBound ==
  ASSUME LimitInv, NEW e \in Editor, CommitEdit(e)
  PROVE  BoundKept'
<1> USE DEF LimitInv
<1>1. /\ ShapeInv' /\ Acting' = Acting \ {e} /\ UNCHANGED visit /\ e \in Acting
      /\ \A b \in Acting \ {e} : tx'[b] = tx[b]
  BY CommitEditShape DEF CommitEdit
<1>2. UNCHANGED clicks /\ mark' = [at |-> clicks, early |-> Cardinality(Early)]
  BY DEF CommitEdit
<1>3. clicks \in Nat /\ (max' # Nil => max' \in Nat)
  BY <1>1, LimitAssumption DEF ShapeInv, RestType
<1>4. /\ Cardinality(Ahead') \in Nat /\ Cardinality(Early) \in Nat
      /\ Cardinality(Ahead') <= Cardinality(Early)
  <2>1. Ahead' \subseteq Early
    BY <1>1 DEF Ahead, Early
  <2> QED BY <2>1, EarlyIsFinite, FS_Subset, FS_CardinalityType
<1>5. \A b \in Acting' : tx'[b].counted = {}
  <2>1. e \notin Visit
    BY LimitAssumption
  <2>2. tx[e].locked
    BY <1>1, <2>1 DEF ShapeInv, TxInv, Whole
  <2>3. \A b \in Acting \ {e} : ~tx[b].locked
    BY <1>1, <2>2 DEF ShapeInv, TxInv, Apart
  <2>4. \A b \in Acting \ {e} : tx[b].counted = {}
    BY <2>3 DEF ShapeInv, TxInv, Whole
  <2> QED BY <1>1, <2>4
<1>6. mark'.at = clicks' /\ mark'.early = Cardinality(Early) /\ clicks' = clicks
  BY <1>2
<1>7. ASSUME max' # Nil
      PROVE  Bound(clicks + Cardinality(Ahead))'
  BY <1>3, <1>4, <1>6, <1>7 DEF Bound
<1>8. ASSUME max' # Nil, NEW b \in Acting'
      PROVE  Bound(clicks + Cardinality(tx[b].counted) + Cardinality(Ahead))'
  <2>1. Cardinality(tx'[b].counted) = 0
    BY <1>5, <1>8, FS_EmptySet
  <2> QED BY <1>3, <1>4, <1>6, <1>8, <2>1 DEF Bound
<1> QED BY <1>4, <1>6, <1>7, <1>8 DEF BoundKept

LEMMA LimitInvInit == LimitInit => LimitInv
<1> SUFFICES ASSUME LimitInit
             PROVE  LimitInv
  OBVIOUS
<1>1. ShapeInv /\ Acting = {}
  BY ShapeInit
<1>2. Ahead = {}
  BY DEF LimitInit, Ahead
<1>3. /\ Cardinality(Ahead) = 0 /\ clicks = 0 /\ mark.at = 0 /\ mark.early = 0
  BY <1>2, FS_EmptySet DEF LimitInit
<1>4. max # Nil => max \in Nat
  BY LimitAssumption DEF LimitInit
<1> QED BY <1>1, <1>3, <1>4 DEF LimitInv, BoundKept, Bound

LEMMA LimitInvStep == LimitInv /\ [LimitNext]_limitVars => LimitInv'
<1> SUFFICES ASSUME LimitInv, [LimitNext]_limitVars
             PROVE  LimitInv'
  OBVIOUS
<1>0. ShapeInv'
  BY ShapeStep DEF LimitInv
<1>1. ASSUME NEW v \in Visit, Redirect(v) \/ Record(v)
      PROVE  BoundKept'
  BY <1>1, RedirectBound, RecordBound
<1>2. ASSUME NEW w \in Worker, TakeBatch(w)
      PROVE  BoundKept'
  BY <1>2, TakeBatchBound
<1>3. ASSUME NEW a \in Visit \cup Worker, NEW v \in Visit, insertClick(a, v)
      PROVE  BoundKept'
  BY <1>3, InsertBound
<1>4. ASSUME NEW a \in Visit \cup Worker, countClick(a)
      PROVE  BoundKept'
  BY <1>4, CountBound
<1>5. ASSUME NEW a \in Visit \cup Worker, RowRefused(a)
      PROVE  BoundKept'
  <2>1. a \in Actor /\ EndsWith(a, "refused") /\ UNCHANGED <<max, mark, clicks>>
    BY <1>5, RowRefusedShape DEF LimitInv, RowRefused, Unbooked, Actor
  <2> QED BY <1>0, <2>1, UnbookedBound DEF Answer
<1>6. ASSUME NEW a \in Visit \cup Worker, Commit(a)
      PROVE  BoundKept'
  <2>1. a \in Acting /\ EndsWith(a, "redirected") /\ Books(a)
        /\ UNCHANGED <<max, mark>>
    BY <1>6, CommitShape DEF LimitInv, Commit
  <2> QED BY <1>0, <2>1, BookedBound DEF Answer
<1>7. ASSUME NEW a \in Actor, TxFails(a)
      PROVE  BoundKept'
  <2>1. a \in Acting /\ EndsWith(a, "error") /\ UNCHANGED <<max, mark>>
    BY <1>7, TxFailsShape DEF LimitInv, TxFails, Unbooked
  <2>2. CASE UNCHANGED clicks
    BY <1>0, <2>1, <2>2, UnbookedBound DEF Answer
  <2>3. CASE Books(a)
    BY <1>0, <2>1, <2>3, BookedBound DEF Answer
  <2> QED BY <1>7, <2>2, <2>3 DEF TxFails
<1>8. ASSUME NEW e \in Editor, LockLink(e) \/ CommitEdit(e)
      PROVE  BoundKept'
  BY <1>8, LockLinkBound, CommitEditBound
<1>9. CASE DeleteLink
  BY <1>0, <1>9, DeleteLinkBound DEF LimitInv
<1>10. CASE UNCHANGED limitVars
  <2>1. UNCHANGED <<max, clicks, mark, visit, tx>> /\ Acting' = Acting
    BY <1>10 DEF limitVars, Acting
  <2>2. Ahead' \subseteq Ahead /\ \A a \in Acting' : tx'[a].counted = tx[a].counted
    BY <2>1 DEF Ahead
  <2> QED BY <1>0, <2>1, <2>2, NothingCounted DEF LimitInv
<1> QED
  BY <1>0, <1>1, <1>2, <1>3, <1>4, <1>5, <1>6, <1>7, <1>8, <1>9, <1>10
     DEF LimitNext, LimitInv

LEMMA LimitInvAlways == LimitSpec => []LimitInv
BY LimitInvInit, LimitInvStep, PTL DEF LimitSpec

(* The record of each transaction is whole: it books only what it has      *)
(* inserted, one event is in one transaction and the link's row in one     *)
(* transaction's hands, whatever statements of RecordClick, RecordClicks   *)
(* and UpdateLink interleave.                                              *)
THEOREM LimitTypeCorrect == LimitSpec => []LimitTypeOK
<1>1. LimitInv => LimitTypeOK
  BY ShapeSuffices DEF LimitInv
<1> QED BY <1>1, LimitInvAlways, PTL

(* RecordClick, RecordClicks: links.clicks passes max_clicks by no more    *)
(* than the redirects that had read the link when the limit was set.       *)
THEOREM OverrunAlwaysBounded == LimitSpec => []OverrunIsBounded
<1>1. LimitInv => OverrunIsBounded
  <2> SUFFICES ASSUME LimitInv, max # Nil
               PROVE  Bound(clicks)
    BY DEF OverrunIsBounded, Bound
  <2>1. /\ mark.early \in Nat /\ mark.at \in Nat /\ clicks \in Nat /\ max \in Nat
    BY LimitAssumption DEF LimitInv, ShapeInv, RestType
  <2> QED BY <2>1, AheadIsFinite DEF LimitInv, BoundKept, Bound
<1> QED BY <1>1, LimitInvAlways, PTL

-----------------------------------------------------------------------------
(* Refusals *)

(* The counter and a deletion are never taken back. *)
LEMMA NeverTakenBack ==
  ASSUME LimitInv, [LimitNext]_limitVars
  PROVE  clicks' >= clicks /\ (~kept => ~kept')
<1>1. clicks \in Nat
  BY DEF LimitInv, ShapeInv, RestType
<1>2. ASSUME NEW a \in Acting, Books(a)
      PROVE  clicks' >= clicks
  BY <1>1, <1>2, CountedIsFinite DEF Books, LimitInv
<1>3. clicks' = clicks \/ \E a \in Acting : Books(a)
  BY DEF LimitNext, limitVars, Redirect, Record, TakeBatch, insertClick, countClick,
         RowRefused, Unbooked, Commit, Finished, TxFails, LockLink, CommitEdit,
         DeleteLink
<1>4. kept' = kept \/ kept' = FALSE
  BY DEF LimitNext, limitVars, Redirect, Record, TakeBatch, insertClick, countClick,
         RowRefused, Unbooked, Commit, TxFails, LockLink, CommitEdit, DeleteLink
<1> QED BY <1>1, <1>2, <1>3, <1>4

(* Whoever is refused by this step was refused by its UPDATE.              *)
LEMMA NewlyRefused ==
  ASSUME LimitInv, [LimitNext]_limitVars, NEW v \in Visit, visit'[v].pc = "refused"
  PROVE  /\ visit'[v].max = visit[v].max
         /\ visit[v].pc = "refused" \/ (RowRefused(v) /\ visit[v].route = "hit")
<1> USE DEF LimitInv, ShapeInv
<1>1. ASSUME NEW w \in Visit, Redirect(w)
      PROVE  visit'[v] = visit[v]
  BY <1>1 DEF Redirect, VisitType
<1>2. ASSUME NEW w \in Visit, RecordDirect(w)
      PROVE  visit'[v] = visit[v]
  BY <1>2 DEF RecordDirect, VisitType
<1>3. ASSUME NEW w \in Visit, NEW answer \in Answer, answer # "refused",
             Reply(w, answer)
      PROVE  visit'[v] = visit[v]
  BY <1>3, ReplyIs
<1>4. ASSUME NEW w \in Visit, Record(w)
      PROVE  visit'[v] = visit[v]
  BY <1>2, <1>3, <1>4 DEF Record, Answer
<1>5. ASSUME NEW a \in Visit \cup Worker, RowRefused(a)
      PROVE  /\ visit'[v].max = visit[v].max
             /\ visit'[v] = visit[v] \/ (a = v /\ visit[v].route = "hit")
  <2>1. CASE a \in Visit
    <3>1. Reply(a, "refused")
      BY <1>5, <2>1 DEF RowRefused, Unbooked
    <3> QED BY <2>1, <3>1, ReplyIs DEF Answer
  <2>2. CASE a \notin Visit
    BY <1>5, <2>2 DEF RowRefused, Unbooked
  <2> QED BY <2>1, <2>2
<1>6. ASSUME NEW a \in Actor, Commit(a) \/ TxFails(a)
      PROVE  visit'[v] = visit[v]
  <2>1. CASE a \in Visit
    BY <1>3, <1>6, <2>1 DEF Commit, TxFails, Unbooked, Answer
  <2>2. CASE a \notin Visit
    BY <1>6, <2>2 DEF Commit, TxFails, Unbooked
  <2> QED BY <2>1, <2>2
<1>7. \/ visit'[v] = visit[v]
      \/ \E a \in Visit \cup Worker : RowRefused(a)
  BY <1>1, <1>4, <1>6
     DEF LimitNext, limitVars, TakeBatch, insertClick, countClick, LockLink,
         CommitEdit, DeleteLink, Actor
<1> QED BY <1>5, <1>7

LEMMA RefusedStep ==
  LimitInv /\ RefusedOnlyWhenSpent /\ [LimitNext]_limitVars => RefusedOnlyWhenSpent'
<1> SUFFICES ASSUME LimitInv, RefusedOnlyWhenSpent, [LimitNext]_limitVars,
                    NEW v \in Visit, visit'[v].pc = "refused"
             PROVE  ~kept' \/ (visit'[v].max # Nil /\ clicks' >= visit'[v].max)
  BY DEF RefusedOnlyWhenSpent
<1>1. clicks' >= clicks /\ (~kept => ~kept') /\ visit'[v].max = visit[v].max
  BY NeverTakenBack, NewlyRefused
<1>2. /\ clicks \in Nat /\ clicks' \in Nat
      /\ visit[v].max # Nil => visit[v].max \in Nat
  BY LimitInvStep, LimitAssumption DEF LimitInv, ShapeInv, RestType, VisitType
<1>3. ~kept \/ (visit[v].max # Nil /\ clicks >= visit[v].max)
  <2>1. CASE visit[v].pc = "refused"
    BY <2>1 DEF RefusedOnlyWhenSpent
  <2>2. CASE RowRefused(v)
    BY <1>2, <2>2 DEF RowRefused, Matches, Below
  <2> QED BY <2>1, <2>2, NewlyRefused
<1> QED BY <1>1, <1>2, <1>3

(* RecordClick: a redirect is refused only when the limit it read is used  *)
(* up or the link is deleted: the UPDATE that matches no row says so, and  *)
(* neither the counter nor a deletion is ever taken back.                  *)
THEOREM RefusedAlwaysSpent == LimitSpec => []RefusedOnlyWhenSpent
<1>1. LimitInit => RefusedOnlyWhenSpent
  BY DEF LimitInit, RefusedOnlyWhenSpent
<1> QED BY <1>1, RefusedStep, LimitInvAlways, PTL DEF LimitSpec

-----------------------------------------------------------------------------
(* The books *)

Hits(S) == {v \in S : visit[v].route = "hit"}

(* What a transaction inserted is not stored, and counted if it counts; the *)
(* rest of its batch is left to do, or another has stored it.               *)
TxBooks(a) ==
  /\ tx[a].inserted \cap stored = {}
  /\ Hits(tx[a].inserted) = tx[a].counted \cup ({tx[a].current} \ {Nil})
  /\ tx[a].batch \subseteq tx[a].todo \cup tx[a].inserted \cup stored
  /\ a \in Worker => tx[a].batch \subseteq queue \cup stored

InBatch(v, a) == v \in tx[a].batch

(* Which copies of its event there may be, for each state of a redirect.    *)
VisitBooks(v) ==
  /\ visit[v].pc = "idle" =>
       v \notin queue \cup stored /\ \A a \in Acting : ~InBatch(v, a)
  /\ visit[v].max # Nil \/ visit[v].pc = "read" =>
       v \notin queue /\ \A a \in Acting \ {v} : ~InBatch(v, a)
  /\ visit[v].pc = "refused" =>
       /\ visit[v].route = "hit" /\ v \notin stored
       /\ \A a \in Acting : v \notin tx[a].counted
       /\ ~kept \/ (v \notin queue /\ \A a \in Acting : ~InBatch(v, a))
  /\ visit[v].pc = "redirected" => v \in stored \cup queue

CounterCounts == clicks = Cardinality(Hits(stored))

BooksInv ==
  /\ CounterCounts
  /\ \A a \in Acting : TxBooks(a)
  /\ \A v \in Visit : VisitBooks(v)

(* The transaction of b goes on as it was.                                 *)
LEMMA TxBooksKept ==
  ASSUME NEW b, TxBooks(b), tx'[b] = tx[b],
         stored \subseteq stored', stored' \cap tx[b].inserted = {},
         queue \cup stored \subseteq queue' \cup stored',
         \A v \in tx[b].inserted : visit'[v].route = visit[v].route
  PROVE  TxBooks(b)'
<1>1. Hits(tx[b].inserted)' = Hits(tx[b].inserted)
  BY DEF Hits
<1> QED BY <1>1 DEF TxBooks

(* No new copy of the event of v is made, and what is stored stays.         *)
LEMMA VisitBooksKept ==
  ASSUME NEW v \in Visit, VisitBooks(v), visit'[v] = visit[v],
         v \in queue' => v \in queue,
         v \in stored' => v \in stored \/ visit[v].pc \notin {"idle", "refused"},
         v \in stored \cup queue => v \in stored' \cup queue',
         \A a \in Acting' : InBatch(v, a)' =>
           v \in queue \/ (a \in Acting /\ InBatch(v, a)),
         \A a \in Acting' : v \in tx'[a].counted =>
           \/ a \in Acting /\ v \in tx[a].counted
           \/ visit[v].pc # "refused",
         ~kept => ~kept'
  PROVE  VisitBooks(v)'
BY DEF VisitBooks

LEMMA HitsAreFinite ==
  ASSUME ShapeInv, NEW S \in SUBSET Visit
  PROVE  IsFiniteSet(Hits(S))
<1>1. Hits(S) \in SUBSET Visit
  BY DEF Hits
<1> QED BY <1>1, FS_Subset, LimitAssumption

(* What every transaction holds are events of redirects.                    *)
LEMMA HoldsVisits ==
  ASSUME ShapeInv, NEW a \in Acting
  PROVE  /\ a \in Actor
         /\ tx[a].batch \subseteq Visit /\ tx[a].inserted \subseteq tx[a].batch
         /\ tx[a].counted \subseteq tx[a].inserted
         /\ tx[a].todo \subseteq tx[a].batch
         /\ tx[a].current \in tx[a].inserted \cup {Nil}
         /\ a \in Visit => tx[a].batch = {a}
<1>1. a \in Actor /\ tx[a] \in Transaction
  BY ActiveIs DEF ShapeInv
<1>2. tx[a].batch \subseteq Visit
  BY <1>1, TransactionFields
<1>3. \E r : Whole(a, tx[a], r)
  BY DEF ShapeInv, TxInv
<1> QED BY <1>1, <1>2, <1>3 DEF Whole

LEMMA BooksInit ==
  ASSUME LimitInit
  PROVE  BooksInv
<1>1. Acting = {}
  BY ShapeInit
<1>2. Hits(stored) = {} /\ clicks = 0
  BY DEF LimitInit, Hits
<1>3. CounterCounts
  BY <1>2, FS_EmptySet DEF CounterCounts
<1>4. \A v \in Visit : VisitBooks(v)
  BY <1>1 DEF LimitInit, VisitBooks
<1> QED BY <1>1, <1>3, <1>4 DEF BooksInv

(* The event of a redirect that has not begun is nowhere.                   *)
LEMMA RedirectBooks ==
  ASSUME ShapeInv, BooksInv, NEW v \in Visit, Redirect(v)
  PROVE  BooksInv'
<1>1. /\ visit[v].pc = "idle" /\ visit'[v].pc = "read"
      /\ \A w \in Visit \ {v} : visit'[w] = visit[w]
      /\ UNCHANGED <<kept, clicks, stored, queue, tx>> /\ Acting' = Acting
  BY DEF Redirect, ShapeInv, VisitType, Acting
<1>2. v \notin queue \cup stored /\ \A a \in Acting : ~InBatch(v, a)
  BY <1>1 DEF BooksInv, VisitBooks
<1>3. stored \subseteq Visit
  BY DEF ShapeInv, RestType
<1>4. CounterCounts'
  <2>1. Hits(stored)' = Hits(stored)
    BY <1>1, <1>2, <1>3 DEF Hits
  <2> QED BY <1>1, <2>1 DEF BooksInv, CounterCounts
<1>5. ASSUME NEW a \in Acting
      PROVE  TxBooks(a)'
  <2>1. \A w \in tx[a].inserted : w \in Visit \ {v}
    BY <1>2, HoldsVisits DEF InBatch
  <2>2. TxBooks(a)
    BY DEF BooksInv
  <2>3. stored' \cap tx[a].inserted = {}
    BY <1>1, <2>2 DEF TxBooks
  <2> QED BY <1>1, <2>1, <2>2, <2>3, TxBooksKept
<1>6. ASSUME NEW w \in Visit \ {v}
      PROVE  VisitBooks(w)'
  BY <1>1, VisitBooksKept DEF BooksInv, InBatch
<1>7. VisitBooks(v)'
  BY <1>1, <1>2 DEF VisitBooks, InBatch
<1> QED BY <1>1, <1>4, <1>5, <1>6, <1>7 DEF BooksInv

LEMMA RecordBooks ==
  ASSUME ShapeInv, BooksInv, NEW v \in Visit, Record(v)
  PROVE  BooksInv'
<1>1. /\ visit[v].pc = "read" /\ UNCHANGED <<kept, clicks, stored>>
      /\ queue \subseteq queue' /\ queue' \subseteq queue \cup {v}
      /\ visit[v].max # Nil => queue' = queue
  BY DEF Record
<1>2. v \notin queue /\ \A a \in Acting \ {v} : ~InBatch(v, a)
  BY <1>1 DEF BooksInv, VisitBooks
<1>3. stored \subseteq Visit
  BY DEF ShapeInv, RestType
<1>4. v \notin Acting
  BY <1>1 DEF ShapeInv, RecordsInTx
<1>5. /\ \A w \in Visit : visit'[w].route = visit[w].route
      /\ visit'[v].max = visit[v].max
      /\ \A w \in Visit \ {v} : visit'[w] = visit[w]
      /\ \A a \in Acting : tx'[a] = tx[a]
      /\ \/ /\ Acting' = Acting \cup {v} /\ tx'[v] = Begin({v})
            /\ visit'[v].pc = "record"
         \/ /\ Acting' = Acting /\ visit[v].max = Nil
            /\ v \in queue' /\ visit'[v].pc \in {"redirected", "expired"}
  <2>1. CASE RecordDirect(v)
    BY <1>1, <1>4, <2>1, RecordDirectShape, ActiveIs DEF ShapeInv
  <2>2. CASE /\ visit[v].max = Nil /\ queue' = queue \cup {v}
             /\ Reply(v, "redirected") /\ UNCHANGED tx
    BY <2>2 DEF Reply, ShapeInv, VisitType, Acting
  <2> QED BY <2>1, <2>2 DEF Record
<1>6. CounterCounts'
  <2>1. Hits(stored)' = Hits(stored)
    BY <1>1, <1>3, <1>5 DEF Hits
  <2> QED BY <1>1, <2>1 DEF BooksInv, CounterCounts
<1>7. ASSUME NEW a \in Acting
      PROVE  TxBooks(a)'
  <2>1. \A w \in tx[a].inserted : w \in Visit
    BY HoldsVisits
  <2>2. TxBooks(a)
    BY DEF BooksInv
  <2>3. stored' \cap tx[a].inserted = {}
    BY <1>1, <2>2 DEF TxBooks
  <2> QED BY <1>1, <1>5, <2>1, <2>2, <2>3, TxBooksKept
<1>8. ASSUME v \in Acting'
      PROVE  TxBooks(v)'
  <2>1. tx'[v] = Begin({v}) /\ {v} \in SUBSET Visit
    BY <1>4, <1>5, <1>8
  <2>2. v \notin Worker
    BY LimitAssumption
  <2> QED BY <2>1, <2>2, BeginIs DEF TxBooks, Hits
<1>9. ASSUME NEW w \in Visit \ {v}
      PROVE  VisitBooks(w)'
  <2>1. ASSUME NEW a \in Acting'
        PROVE  /\ InBatch(w, a)' => a \in Acting /\ InBatch(w, a)
               /\ w \in tx'[a].counted => a \in Acting /\ w \in tx[a].counted
    <3>1. CASE a \in Acting
      BY <1>5, <3>1 DEF InBatch
    <3>2. CASE a \notin Acting
      <4>1. a = v /\ tx'[a] = Begin({v}) /\ {v} \in SUBSET Visit
        BY <1>5, <3>2
      <4>2. tx'[a].batch = {v} /\ tx'[a].counted = {}
        BY <4>1, BeginIs
      <4> QED BY <4>2 DEF InBatch
    <3> QED BY <3>1, <3>2
  <2>2. VisitBooks(w) /\ visit'[w] = visit[w] /\ (w \in queue' => w \in queue)
    BY <1>1, <1>5 DEF BooksInv
  <2> QED BY <1>1, <2>1, <2>2, VisitBooksKept
<1>10. VisitBooks(v)'
  <2>1. \A a \in Acting' \ {v} : ~InBatch(v, a)'
    BY <1>2, <1>5 DEF InBatch
  <2> QED BY <1>1, <1>2, <1>5, <2>1 DEF VisitBooks
<1>11. \A a \in Acting' : a \in Acting \/ a = v
  BY <1>5
<1> QED BY <1>6, <1>7, <1>8, <1>9, <1>10, <1>11 DEF BooksInv

LEMMA TakeBatchBooks ==
  ASSUME ShapeInv, BooksInv, NEW w \in Worker, TakeBatch(w)
  PROVE  BooksInv'
<1>1. /\ w \notin Acting /\ w \notin Visit
      /\ UNCHANGED <<kept, clicks, stored, queue, visit>>
  BY LimitAssumption DEF TakeBatch
<1>2. PICK S \in SUBSET queue : tx' = [tx EXCEPT ![w] = Begin(S)]
  BY DEF TakeBatch
<1>3. Acting' = Acting \cup {w} /\ \A a \in Actor \ {w} : tx'[a] = tx[a]
  BY TakeBatchShape
<1>4. /\ S \in SUBSET Visit
      /\ tx'[w].batch = S /\ tx'[w].todo = S /\ tx'[w].current = Nil
      /\ tx'[w].inserted = {} /\ tx'[w].counted = {}
  <2>1. tx'[w] = Begin(S) /\ S \in SUBSET Visit
    BY <1>2 DEF ShapeInv, TxInv, RestType, Actor
  <2> QED BY <2>1, BeginIs
<1>5. CounterCounts'
  BY <1>1 DEF BooksInv, CounterCounts, Hits
<1>6. ASSUME NEW a \in Acting
      PROVE  TxBooks(a)'
  <2>1. tx'[a] = tx[a]
    BY <1>1, <1>3, HoldsVisits
  <2> QED BY <1>1, <2>1, TxBooksKept DEF BooksInv, TxBooks
<1>7. TxBooks(w)'
  BY <1>1, <1>4 DEF TxBooks, Hits
<1>8. ASSUME NEW v \in Visit
      PROVE  VisitBooks(v)'
  <2>1. ASSUME NEW a \in Acting'
        PROVE  /\ InBatch(v, a)' => v \in queue \/ (a \in Acting /\ InBatch(v, a))
               /\ v \in tx'[a].counted => a \in Acting /\ v \in tx[a].counted
    <3>1. CASE a = w
      BY <1>4, <3>1 DEF InBatch
    <3>2. CASE a # w
      BY <1>3, <3>2, HoldsVisits DEF InBatch
    <3> QED BY <3>1, <3>2
  <2> QED BY <1>1, <2>1, VisitBooksKept DEF BooksInv
<1> QED BY <1>3, <1>5, <1>6, <1>7, <1>8 DEF BooksInv

LEMMA InsertBooks ==
  ASSUME ShapeInv, BooksInv, NEW a \in Visit \cup Worker, NEW v \in Visit,
         insertClick(a, v)
  PROVE  BooksInv'
<1>1. /\ a \in Acting /\ v \in tx[a].todo /\ tx[a].current = Nil
      /\ UNCHANGED <<kept, clicks, stored, queue, visit>>
  BY DEF insertClick
<1>2. a \in Actor /\ tx[a] \in Transaction /\ tx \in [Actor -> Transaction \cup {Nil}]
  BY <1>1, ActiveIs DEF ShapeInv, TxInv
<1>3. Acting' = Acting /\ \A b \in Acting : tx'[b].counted = tx[b].counted
  BY InsertShape
<1>4. \A b \in Actor \ {a} : tx'[b] = tx[b]
  BY <1>2 DEF insertClick
<1>5. /\ tx'[a].batch = tx[a].batch /\ tx'[a].todo = tx[a].todo \ {v}
      /\ v \in stored => /\ tx'[a].inserted = tx[a].inserted
                         /\ tx'[a].current = Nil
      /\ v \notin stored =>
           /\ tx'[a].inserted = tx[a].inserted \cup {v}
           /\ tx'[a].current = IF visit[v].route = "hit" THEN v ELSE Nil
  BY <1>1, <1>2 DEF insertClick, Transaction
<1>6. CounterCounts'
  BY <1>1 DEF BooksInv, CounterCounts, Hits
<1>7. ASSUME NEW b \in Acting, b # a
      PROVE  TxBooks(b)'
  <2>1. tx'[b] = tx[b]
    BY <1>4, <1>7, HoldsVisits
  <2> QED BY <1>1, <2>1, TxBooksKept DEF BooksInv, TxBooks
<1>8. TxBooks(a)'
  <2>1. TxBooks(a) /\ tx'[a].counted = tx[a].counted
    BY <1>1, <1>3 DEF BooksInv
  <2>2. Nil \notin Visit /\ Nil \notin tx[a].counted
    BY <1>2, TransactionFields, LimitAssumption
  <2>3. Hits(tx[a].inserted)' = Hits(tx[a].inserted) \cup
          (IF v \in stored \/ visit[v].route # "hit" THEN {} ELSE {v})
    BY <1>1, <1>5 DEF Hits
  <2>4. CASE v \in stored
    BY <1>1, <1>5, <2>1, <2>3, <2>4 DEF TxBooks
  <2>5. CASE v \notin stored
    BY <1>1, <1>5, <2>1, <2>2, <2>3, <2>5 DEF TxBooks
  <2> QED BY <2>4, <2>5
<1>9. ASSUME NEW w \in Visit
      PROVE  VisitBooks(w)'
  <2>1. \A b \in Acting : InBatch(w, b)' => InBatch(w, b)
    BY <1>4, <1>5, HoldsVisits DEF InBatch
  <2> QED BY <1>1, <1>3, <2>1, VisitBooksKept DEF BooksInv
<1> QED BY <1>3, <1>6, <1>7, <1>8, <1>9 DEF BooksInv

LEMMA CountBooks ==
  ASSUME ShapeInv, BooksInv, NEW a \in Visit \cup Worker, countClick(a)
  PROVE  BooksInv'
<1> DEFINE v == tx[a].current
<1>1. /\ a \in Acting /\ v # Nil /\ Matches(a)
      /\ UNCHANGED <<kept, clicks, stored, queue, visit>>
  BY DEF countClick
<1>2. /\ Acting' = Acting /\ v \in Visit
      /\ tx'[a].counted = tx[a].counted \cup {v}
      /\ \A b \in Acting \ {a} : tx'[b] = tx[b]
  BY CountShape
<1>3. a \in Actor /\ tx[a] \in Transaction
  BY <1>1, ActiveIs DEF ShapeInv
<1>4. /\ tx'[a].batch = tx[a].batch /\ tx'[a].todo = tx[a].todo
      /\ tx'[a].inserted = tx[a].inserted /\ tx'[a].current = Nil
  <2>1. PICK t \in Transaction :
           /\ TxBecomes(a, t)
           /\ t.batch = tx[a].batch /\ t.todo = tx[a].todo
           /\ t.inserted = tx[a].inserted /\ t.current = Nil /\ t.locked
           /\ t.counted = tx[a].counted \cup {tx[a].current}
    BY <1>3, CountIs
  <2> QED BY <1>3, <2>1, OneChanges DEF ShapeInv, TxInv
<1>5. CounterCounts'
  BY <1>1 DEF BooksInv, CounterCounts, Hits
<1>6. ASSUME NEW b \in Acting, b # a
      PROVE  TxBooks(b)'
  BY <1>1, <1>2, <1>6, TxBooksKept DEF BooksInv, TxBooks
<1>7. TxBooks(a)'
  <2>1. TxBooks(a)
    BY <1>1 DEF BooksInv
  <2>2. Hits(tx[a].inserted)' = Hits(tx[a].inserted)
    BY <1>1, <1>4 DEF Hits
  <2> QED BY <1>1, <1>2, <1>4, <2>1, <2>2 DEF TxBooks
<1>8. ASSUME NEW w \in Visit
      PROVE  VisitBooks(w)'
  <2>1. \A b \in Acting : InBatch(w, b)' => InBatch(w, b)
    BY <1>2, <1>4 DEF InBatch
  <2>2. visit[v].pc # "refused"
    <3>1. kept
      BY <1>1 DEF Matches
    <3>2. InBatch(v, a)
      BY <1>1, <1>2, HoldsVisits DEF InBatch
    <3> QED BY <1>1, <1>2, <3>1, <3>2 DEF BooksInv, VisitBooks
  <2>3. \A b \in Acting : w \in tx'[b].counted =>
          w \in tx[b].counted \/ visit[w].pc # "refused"
    BY <1>2, <2>2
  <2>4. VisitBooks(w)
    BY DEF BooksInv
  <2> HIDE DEF v
  <2> QED BY <1>1, <1>2, <2>1, <2>3, <2>4, VisitBooksKept
<1> QED BY <1>2, <1>5, <1>6, <1>7, <1>8 DEF BooksInv

(* A transaction that ends has booked what it inserted, or nothing.         *)
LEMMA EndBooks ==
  ASSUME ShapeInv, BooksInv, NEW a \in Acting, NEW answer \in Answer,
         EndsWith(a, answer), UNCHANGED kept,
         queue' \subseteq queue, queue \subseteq queue' \cup tx[a].batch,
         \/ /\ UNCHANGED <<clicks, stored, queue>>
            /\ answer = "redirected" => Finished(a) /\ tx[a].inserted = {}
         \/ Books(a) /\ Finished(a),
         a \in Visit /\ answer = "refused" /\ visit[a].route = "hit" =>
           /\ a \notin stored'
           /\ \A b \in Acting \ {a} : a \notin tx[b].counted
           /\ ~kept \/ visit[a].max # Nil
  PROVE  BooksInv'
<1>1. a \in Actor
  BY HoldsVisits
<1>2. /\ Acting' = Acting \ {a}
      /\ \A b \in Acting \ {a} : tx'[b] = tx[b]
      /\ \A w \in Visit : visit'[w].max = visit[w].max
                          /\ visit'[w].route = visit[w].route
      /\ \A w \in Visit : w # a => visit'[w] = visit[w]
  BY <1>1, EndShape
<1>3. /\ tx[a].batch \subseteq Visit /\ tx[a].inserted \subseteq tx[a].batch
      /\ a \in Visit => tx[a].batch = {a}
  BY HoldsVisits
<1>4. TxBooks(a) /\ stored \subseteq Visit /\ clicks \in Nat
  BY DEF BooksInv, ShapeInv, RestType
<1>5. Finished(a) => /\ tx[a].counted = Hits(tx[a].inserted)
                     /\ tx[a].batch \subseteq tx[a].inserted \cup stored
  BY <1>4 DEF Finished, TxBooks
<1>6. /\ stored \subseteq stored' /\ stored' \subseteq stored \cup tx[a].inserted
      /\ queue \cup stored \subseteq queue' \cup stored'
  BY <1>5 DEF Books
<1>7. CounterCounts'
  <2>1. \A S \in SUBSET Visit : {w \in S : visit'[w].route = "hit"} = Hits(S)
    BY <1>2 DEF Hits
  <2>2. CASE UNCHANGED <<clicks, stored, queue>>
    BY <1>4, <2>1, <2>2 DEF BooksInv, CounterCounts, Hits
  <2>3. CASE Books(a) /\ Finished(a)
    <3> DEFINE old == Hits(stored)
               new == Hits(tx[a].inserted)
    <3>1. IsFiniteSet(old) /\ IsFiniteSet(new)
      BY <1>3, <1>4, HitsAreFinite
    <3>2. old \cap new = {}
      BY <1>4 DEF TxBooks, Hits
    <3>3. Cardinality(old \cup new) = Cardinality(old) + Cardinality(new)
      <4>1. Cardinality(old \cap new) = 0
        BY <3>2, FS_EmptySet
      <4>2. /\ Cardinality(old) \in Nat /\ Cardinality(new) \in Nat
            /\ Cardinality(old \cup new) =
                 Cardinality(old) + Cardinality(new) - Cardinality(old \cap new)
        BY <3>1, FS_CardinalityType, FS_Union
      <4> QED BY <4>1, <4>2
    <3>4. Hits(stored)' = old \cup new
      <4>1. stored' = stored \cup tx[a].inserted
        BY <2>3 DEF Books
      <4>2. \A w \in stored' : visit'[w].route = visit[w].route
        BY <1>2, <1>3, <1>4, <4>1
      <4> QED BY <4>1, <4>2 DEF Hits
    <3>5. clicks' = Cardinality(old) + Cardinality(new)
      BY <1>5, <2>3 DEF Books, BooksInv, CounterCounts
    <3> QED BY <3>3, <3>4, <3>5 DEF CounterCounts
  <2> QED BY <2>2, <2>3
<1>8. ASSUME NEW b \in Acting'
      PROVE  TxBooks(b)'
  <2>1. b \in Acting /\ b # a /\ tx'[b] = tx[b] /\ TxBooks(b)
    BY <1>2 DEF BooksInv
  <2>2. tx[a].inserted \cap tx[b].inserted = {}
    BY <2>1 DEF ShapeInv, TxInv, Apart
  <2>3. stored' \cap tx[b].inserted = {}
    BY <1>6, <2>1, <2>2 DEF TxBooks
  <2>4. \A w \in tx[b].inserted : visit'[w].route = visit[w].route
    BY <1>2, <2>1, HoldsVisits
  <2> QED BY <1>6, <2>1, <2>3, <2>4, TxBooksKept
<1>9. ASSUME NEW w \in Visit, w # a
      PROVE  VisitBooks(w)'
  <2>1. visit'[w] = visit[w] /\ VisitBooks(w)
    BY <1>2, <1>9 DEF BooksInv
  <2>2. ASSUME w \in stored', w \notin stored
        PROVE  visit[w].pc \notin {"idle", "refused"}
    <3>1. w \in tx[a].inserted /\ Finished(a) /\ InBatch(w, a)
      BY <1>3, <2>2 DEF Books, InBatch
    <3>2. visit[w].route = "hit" => w \in tx[a].counted
      BY <1>5, <3>1 DEF Hits
    <3> QED BY <2>1, <3>1, <3>2 DEF VisitBooks
  <2>3. \A b \in Acting' : /\ InBatch(w, b)' => b \in Acting /\ InBatch(w, b)
                           /\ w \in tx'[b].counted => b \in Acting /\ w \in tx[b].counted
    BY <1>2 DEF InBatch
  <2>4. /\ w \in queue' => w \in queue
        /\ w \in stored \cup queue => w \in stored' \cup queue'
        /\ ~kept => ~kept'
    BY <1>6
  <2> QED BY <2>1, <2>2, <2>3, <2>4, VisitBooksKept
<1>10. ASSUME a \in Visit
       PROVE  VisitBooks(a)'
  <2>1. /\ visit'[a].pc = IF visit[a].route = "hit" THEN answer ELSE "expired"
        /\ answer \notin {"idle", "read"}
    BY <1>10, AnswersEnd DEF EndsWith, Reply, ShapeInv, VisitType
  <2>2. visit[a].max # Nil =>
          a \notin queue /\ \A b \in Acting \ {a} : ~InBatch(a, b)
    BY <1>10 DEF BooksInv, VisitBooks
  <2>3. \A b \in Acting' : InBatch(a, b)' <=> InBatch(a, b)
    BY <1>2 DEF InBatch
  <2>4. visit[a].max # Nil =>
          a \notin queue' /\ \A b \in Acting' : ~InBatch(a, b)'
    BY <1>2, <2>2, <2>3
  <2>5. answer = "redirected" => a \in stored' \cup queue'
    BY <1>3, <1>5, <1>10 DEF Books
  <2>6. visit'[a].pc = "refused" =>
          /\ visit'[a].route = "hit" /\ a \notin stored'
          /\ \A b \in Acting' : a \notin tx'[b].counted
          /\ ~kept' \/ visit[a].max # Nil
    BY <1>2, <1>10, <2>1
  <2> QED BY <1>2, <1>10, <2>1, <2>4, <2>5, <2>6 DEF VisitBooks
<1> QED BY <1>7, <1>8, <1>9, <1>10, <1>2 DEF BooksInv

LEMMA CommitBooks ==
  ASSUME ShapeInv, BooksInv, NEW a \in Visit \cup Worker, Commit(a)
  PROVE  BooksInv'
<1>1. /\ a \in Acting /\ EndsWith(a, "redirected") /\ "redirected" \in Answer
      /\ Books(a) /\ Finished(a) /\ UNCHANGED kept
  BY CommitShape DEF Commit, Answer
<1>2. queue' \subseteq queue /\ queue \subseteq queue' \cup tx[a].batch
  BY DEF Commit
<1> QED BY <1>1, <1>2, EndBooks

(* The refused click is in no other transaction, so no other counts it.     *)
LEMMA RowRefusedBooks ==
  ASSUME ShapeInv, BooksInv, NEW a \in Visit \cup Worker, RowRefused(a)
  PROVE  BooksInv'
<1>1. /\ a \in Acting /\ EndsWith(a, "refused") /\ "refused" \in Answer
      /\ UNCHANGED <<kept, clicks, stored, queue>>
      /\ tx[a].current # Nil /\ ~Matches(a)
  BY RowRefusedShape DEF RowRefused, Unbooked, Answer
<1>2. ASSUME a \in Visit, visit[a].route = "hit"
      PROVE  /\ a \notin stored'
             /\ \A b \in Acting \ {a} : a \notin tx[b].counted
             /\ ~kept \/ visit[a].max # Nil
  <2>1. a \in tx[a].inserted
    BY <1>1, <1>2, HoldsVisits
  <2>2. a \notin stored
    BY <1>1, <2>1 DEF BooksInv, TxBooks
  <2>3. \A b \in Acting \ {a} : a \notin tx[b].inserted
    BY <1>1, <2>1 DEF ShapeInv, TxInv, Apart
  <2>4. ~kept \/ visit[a].max # Nil
    BY <1>1, <1>2 DEF Matches, Below
  <2> QED BY <1>1, <2>2, <2>3, <2>4, HoldsVisits
<1> QED BY <1>1, <1>2, EndBooks

LEMMA TxFailsBooks ==
  ASSUME ShapeInv, BooksInv, NEW a \in Actor, TxFails(a)
  PROVE  BooksInv'
<1>1. /\ a \in Acting /\ EndsWith(a, "error") /\ "error" \in Answer
      /\ UNCHANGED <<kept, queue>>
  BY TxFailsShape DEF TxFails, Unbooked, Answer
<1>2. \/ UNCHANGED <<clicks, stored, queue>>
      \/ Books(a) /\ Finished(a)
  BY <1>1 DEF TxFails
<1> QED BY <1>1, <1>2, EndBooks

(* A step that begins or ends an edit leaves the books alone.               *)
LEMMA EditBooks ==
  ASSUME ShapeInv, BooksInv, NEW e \in Editor,
         UNCHANGED <<kept, clicks, stored, queue, visit>>,
         \A b \in Acting' \ {e} : b \in Acting /\ tx'[b] = tx[b],
         e \in Acting' => tx'[e] = [Begin({}) EXCEPT !.locked = TRUE]
  PROVE  BooksInv'
<1>1. CounterCounts'
  BY DEF BooksInv, CounterCounts, Hits
<1>2. ASSUME NEW b \in Acting', b # e
      PROVE  TxBooks(b)'
  BY <1>2, TxBooksKept DEF BooksInv, TxBooks
<1>3. e \in Acting' => /\ tx'[e].batch = {} /\ tx'[e].todo = {}
                       /\ tx'[e].inserted = {} /\ tx'[e].counted = {}
                       /\ tx'[e].current = Nil
  BY DEF Begin
<1>4. ASSUME e \in Acting'
      PROVE  TxBooks(e)'
  BY <1>3, <1>4 DEF TxBooks, Hits
<1>5. ASSUME NEW v \in Visit
      PROVE  VisitBooks(v)'
  <2>1. ASSUME NEW b \in Acting'
        PROVE  /\ InBatch(v, b)' => b \in Acting /\ InBatch(v, b)
               /\ v \in tx'[b].counted => b \in Acting /\ v \in tx[b].counted
    BY <1>3 DEF InBatch
  <2> QED BY <2>1, VisitBooksKept DEF BooksInv
<1> QED BY <1>1, <1>2, <1>4, <1>5 DEF BooksInv

LEMMA LockLinkBooks ==
  ASSUME ShapeInv, BooksInv, NEW e \in Editor, LockLink(e)
  PROVE  BooksInv'
<1>1. /\ Acting' = Acting \cup {e} /\ \A b \in Acting : tx'[b] = tx[b]
      /\ UNCHANGED <<kept, clicks, stored, queue, visit>>
  BY LockLinkShape DEF LockLink
<1>2. tx'[e] = [Begin({}) EXCEPT !.locked = TRUE]
  BY DEF LockLink, ShapeInv, TxInv, Actor
<1> QED BY <1>1, <1>2, EditBooks

LEMMA CommitEditBooks ==
  ASSUME ShapeInv, BooksInv, NEW e \in Editor, CommitEdit(e)
  PROVE  BooksInv'
<1>1. /\ Acting' = Acting \ {e} /\ \A b \in Acting \ {e} : tx'[b] = tx[b]
      /\ UNCHANGED <<kept, clicks, stored, queue, visit>>
  BY CommitEditShape DEF CommitEdit
<1> QED BY <1>1, EditBooks

(* Nobody has counted when the link is deleted, and nobody will.            *)
LEMMA DeleteLinkBooks ==
  ASSUME ShapeInv, BooksInv, DeleteLink
  PROVE  BooksInv'
<1>1. /\ UNCHANGED <<clicks, stored, queue, visit, tx>> /\ kept' = FALSE
      /\ Acting' = Acting
  BY DeleteLinkShape DEF DeleteLink
<1>2. CounterCounts'
  BY <1>1 DEF BooksInv, CounterCounts, Hits
<1>3. ASSUME NEW a \in Acting
      PROVE  TxBooks(a)'
  BY <1>1, TxBooksKept DEF BooksInv, TxBooks
<1>4. ASSUME NEW v \in Visit
      PROVE  VisitBooks(v)'
  BY <1>1, VisitBooksKept DEF BooksInv, InBatch
<1> QED BY <1>1, <1>2, <1>3, <1>4 DEF BooksInv

LEMMA BooksStep ==
  ASSUME ShapeInv, BooksInv, [LimitNext]_limitVars
  PROVE  BooksInv'
<1>1. ASSUME NEW v \in Visit, Redirect(v) \/ Record(v)
      PROVE  BooksInv'
  BY <1>1, RedirectBooks, RecordBooks
<1>2. ASSUME NEW w \in Worker, TakeBatch(w)
      PROVE  BooksInv'
  BY <1>2, TakeBatchBooks
<1>3. ASSUME NEW a \in Visit \cup Worker, NEW v \in Visit, insertClick(a, v)
      PROVE  BooksInv'
  BY <1>3, InsertBooks
<1>4. ASSUME NEW a \in Visit \cup Worker,
             countClick(a) \/ RowRefused(a) \/ Commit(a)
      PROVE  BooksInv'
  BY <1>4, CountBooks, RowRefusedBooks, CommitBooks
<1>5. ASSUME NEW a \in Actor, TxFails(a)
      PROVE  BooksInv'
  BY <1>5, TxFailsBooks
<1>6. ASSUME NEW e \in Editor, LockLink(e) \/ CommitEdit(e)
      PROVE  BooksInv'
  BY <1>6, LockLinkBooks, CommitEditBooks
<1>7. CASE UNCHANGED limitVars
  BY <1>7 DEF limitVars, BooksInv, CounterCounts, TxBooks, VisitBooks, Hits,
              InBatch, Acting
<1> QED
  BY <1>1, <1>2, <1>3, <1>4, <1>5, <1>6, <1>7, DeleteLinkBooks DEF LimitNext

(* RecordClick, RecordClicks: the counter is the number of rows that count  *)
(* and every answer agrees with the rows, although a redirect's own         *)
(* transaction and a worker's batch may be about the same event: only one   *)
(* of them inserts it, and the other skips it when it is stored.            *)
THEOREM BooksAlwaysMatch == LimitSpec => []BooksMatchAnswers
<1>1. BooksInv => BooksMatchAnswers
  BY DEF BooksInv, CounterCounts, VisitBooks, Hits, BooksMatchAnswers
<1>2. LimitInit => ShapeInv /\ BooksInv
  BY ShapeInit, BooksInit
<1>3. ShapeInv /\ BooksInv /\ [LimitNext]_limitVars => (ShapeInv /\ BooksInv)'
  BY ShapeStep, BooksStep
<1> QED BY <1>1, <1>2, <1>3, PTL DEF LimitSpec

-----------------------------------------------------------------------------
(* No edit: the limit is exact *)

NobodyBefore == mark.at = 0 /\ mark.early = 0

(* RecordClick: max_clicks that nobody edits is never passed, whatever      *)
(* redirects, retries and deletions there are.                              *)
THEOREM UneditedLimitIsExact ==
  ASSUME Editor = {}
  PROVE  LimitSpec => [](max # Nil => clicks <= max)
<1>1. LimitInit => NobodyBefore
  BY DEF LimitInit, NobodyBefore
<1>2. NobodyBefore /\ [LimitNext]_limitVars => NobodyBefore'
  BY DEF NobodyBefore, LimitNext, limitVars, Redirect, Record, TakeBatch,
         insertClick, countClick, RowRefused, Unbooked, Commit, TxFails,
         LockLink, DeleteLink
<1>3. LimitInv /\ OverrunIsBounded /\ NobodyBefore => (max # Nil => clicks <= max)
  <2> SUFFICES ASSUME LimitInv, OverrunIsBounded, NobodyBefore, max # Nil
               PROVE  clicks <= max
    OBVIOUS
  <2>1. max \in Nat /\ clicks \in Nat
    BY LimitAssumption DEF LimitInv, ShapeInv, RestType
  <2> QED BY <2>1 DEF OverrunIsBounded, NobodyBefore
<1> QED BY <1>1, <1>2, <1>3, LimitInvAlways, OverrunAlwaysBounded, PTL DEF LimitSpec
=============================================================================
