---------------------------- MODULE Lists_proofs ----------------------------
(***************************************************************************)
(* The lists of the web client: those that are walked page by page         *)
(* (PagedLists), and those that are loaded again after a change            *)
(* (ConfirmedChanges).                                                     *)
(*                                                                         *)
(* The cursors of a paged list walk one listing, and a list that was       *)
(* answered shows the page they stand on: for any lists, queries and       *)
(* listings, any number of requests under way, and walks of any depth.     *)
(* Neither is inductive.  The next cursor is only worth following if it    *)
(* belongs to the page the list stands on, and the rows are only those of  *)
(* that page if the one request under way asks for it.                     *)
(*                                                                         *)
(* When the requests about a short list are answered, the rows shown are   *)
(* the server's: for any rows, number of requests under way, and faults.   *)
(* The argument follows the news a page has not seen.  A change the server *)
(* has made and not answered (Unseen) is news, and so is a list that was   *)
(* read before such a change.  News only ends in a reload, and a reload    *)
(* that is alone ends in the server's rows or in later news.               *)
(***************************************************************************)
EXTENDS PagedLists, ConfirmedChanges, SequenceTheorems, TLAPS

(* One request at a time, for the page the cursors stand on. *)
OneLoad(l) ==
  /\ \A f, g \in Call : underWay[l][f] # Nil /\ underWay[l][g] # Nil => f = g
  /\ \A f \in Call : underWay[l][f] # Nil =>
       underWay[l][f].query = asked[l] /\ underWay[l][f].cursor = cursor[l]

Walks(l) ==
  \A i \in 1 .. Len(history[l]) :
    /\ Stack(l)[i + 1] # Nil
    /\ Stack(l)[i + 1] = After[asked[l]][Stack(l)[i]]

(* Next follows the listing, or is switched off. *)
NextFollows(l) == next[l] = Nil \/ next[l] = After[asked[l]][cursor[l]]

Shown(l) ==
  /\ pageShown[l] = [query |-> asked[l], cursor |-> cursor[l]]
  /\ label[l] = Len(history[l]) + 1
  /\ next[l] = After[asked[l]][cursor[l]]

(* Every walk begins at the first page, a disturbed one too. *)
ListInv(l) ==
  /\ Stack(l)[1] = Nil
  /\ ~disturbed[l] =>
       /\ OneLoad(l) /\ Walks(l)
       /\ Quiet(l) => NextFollows(l) /\ (due[l] \/ Shown(l))

ListsInv == ListsTypeOK /\ \A l \in List : ListInv(l)

-----------------------------------------------------------------------------
(* Stacks *)

LEMMA StackElements ==
  ASSUME NEW S, NEW s \in Seq(S), NEW c \in S
  PROVE  /\ Append(s, c) \in Seq(S) /\ Len(Append(s, c)) = Len(s) + 1
         /\ Append(s, c)[Len(s) + 1] = c
         /\ \A i \in 1 .. Len(s) : Append(s, c)[i] = s[i]
         /\ Len(s) \in Nat
BY AppendProperties

LEMMA FrontElements ==
  ASSUME NEW S, NEW s \in Seq(S), s # <<>>
  PROVE  /\ SubSeq(s, 1, Len(s) - 1) \in Seq(S)
         /\ Len(SubSeq(s, 1, Len(s) - 1)) = Len(s) - 1
         /\ \A i \in 1 .. Len(s) - 1 : SubSeq(s, 1, Len(s) - 1)[i] = s[i]
         /\ Len(s) \in Nat \ {0} /\ s[Len(s)] \in S
<1>1. Len(s) \in Nat \ {0} /\ s[Len(s)] \in S
  BY EmptySeq
<1> QED BY <1>1, SubSeqProperties

(* What the types say about one list. *)
LEMMA ListTypes ==
  ASSUME ListsTypeOK, NEW l \in List
  PROVE  /\ cursor[l] \in Position /\ next[l] \in Position
         /\ history[l] \in Seq(Position) /\ Nil \in Position
         /\ controls[l] \in Query /\ asked[l] \in Query
         /\ underWay[l] \in [Call -> Load \cup {Nil}]
         /\ label[l] \in Nat \ {0} /\ disturbed[l] \in BOOLEAN
         /\ due[l] \in BOOLEAN
BY DEF ListsTypeOK, Position

-----------------------------------------------------------------------------
(* Steps on one list *)

(* A list no step is about; at most its view has to be loaded again. *)
Untouched(l) ==
  /\ cursor'[l] = cursor[l] /\ history'[l] = history[l] /\ next'[l] = next[l]
  /\ pageShown'[l] = pageShown[l] /\ label'[l] = label[l]
  /\ underWay'[l] = underWay[l] /\ asked'[l] = asked[l]
  /\ disturbed'[l] = disturbed[l]
  /\ due'[l] = due[l] \/ due'[l] = TRUE

LEMMA UntouchedKeeps ==
  ASSUME NEW l \in List, ListInv(l), Untouched(l)
  PROVE  ListInv(l)'
BY DEF ListInv, Untouched, Stack, OneLoad, Walks, NextFollows, Shown, Quiet

(* A request for the page the list stands on. *)
LEMMA SendKeeps ==
  ASSUME ListsTypeOK, NEW l \in List, NEW c \in Position, NEW q \in Query,
         NEW view \in BOOLEAN, NEW first \in BOOLEAN,
         SendLoad(l, c, q, view), Walk(l, first, q), cursor'[l] = c,
         Stack(l)'[1] = Nil, ~disturbed'[l] => Walks(l)'
  PROVE  ListInv(l)'
<1>1. PICK f \in Call :
        /\ underWay[l][f] = Nil
        /\ underWay' = [underWay EXCEPT ![l][f] =
                          [query |-> q, cursor |-> c, view |-> view]]
  BY DEF SendLoad
<1>2. /\ underWay'[l][f] = [query |-> q, cursor |-> c, view |-> view]
      /\ \A g \in Call \ {f} : underWay'[l][g] = underWay[l][g]
  BY <1>1 DEF ListsTypeOK
<1>3. [query |-> q, cursor |-> c, view |-> view] # Nil
  BY PagedAssumption DEF Load
<1>4. /\ asked'[l] = IF first THEN q ELSE asked[l]
      /\ disturbed'[l] = (~Quiet(l) \/ (~first /\ (disturbed[l] \/ q # asked[l])))
  BY DEF Walk, ListsTypeOK
<1>5. ~Quiet(l)'
  BY <1>2, <1>3 DEF Quiet
<1>6. ASSUME ~disturbed'[l] PROVE OneLoad(l)'
  <2>1. asked'[l] = q
    BY <1>4, <1>6
  <2>2. \A g \in Call \ {f} : underWay'[l][g] = Nil
    BY <1>2, <1>4, <1>6 DEF Quiet
  <2> QED BY <1>2, <2>1, <2>2 DEF OneLoad
<1> QED BY <1>5, <1>6 DEF ListInv

LEMMA SendTypes ==
  ASSUME ListsTypeOK, NEW l \in List, NEW c \in Position, NEW q \in Query,
         NEW view \in BOOLEAN, NEW first \in BOOLEAN,
         SendLoad(l, c, q, view), Walk(l, first, q)
  PROVE  /\ underWay' \in [List -> [Call -> Load \cup {Nil}]]
         /\ asked' \in [List -> Query] /\ disturbed' \in [List -> BOOLEAN]
         /\ \A k \in List \ {l} : /\ underWay'[k] = underWay[k]
                                  /\ asked'[k] = asked[k]
                                  /\ disturbed'[k] = disturbed[k]
<1>1. PICK f \in Call :
        underWay' = [underWay EXCEPT ![l][f] =
                       [query |-> q, cursor |-> c, view |-> view]]
  BY DEF SendLoad
<1>2. [query |-> q, cursor |-> c, view |-> view] \in Load
  BY DEF Load
<1>3. /\ underWay' \in [List -> [Call -> Load \cup {Nil}]]
      /\ \A k \in List \ {l} : underWay'[k] = underWay[k]
  BY <1>1, <1>2 DEF ListsTypeOK
<1>4. asked' \in [List -> Query] /\ \A k \in List \ {l} : asked'[k] = asked[k]
  BY DEF Walk, ListsTypeOK
<1>5. /\ disturbed' \in [List -> BOOLEAN]
      /\ \A k \in List \ {l} : disturbed'[k] = disturbed[k]
  BY DEF Walk, ListsTypeOK
<1> QED BY <1>3, <1>4, <1>5

(* A walk that goes on has not been disturbed, and neither has its query.  *)
LEMMA WalkOn ==
  ASSUME ListsTypeOK, NEW l \in List, NEW q, NEW first \in BOOLEAN,
         Walk(l, first, q), ~disturbed'[l], first = FALSE
  PROVE  ~disturbed[l] /\ Quiet(l) /\ asked'[l] = asked[l]
BY DEF Walk, ListsTypeOK

HandlerType == handlers \in Nat => handlers' \in Nat

LEMMA HandlerTypes == Handler => HandlerType
BY DEF Handler, HandlerType

(* reset...Pagination *)
LEMMA ResetTypes ==
  ASSUME ListsTypeOK, NEW ls, Reset(ls)
  PROVE  /\ cursor' \in [List -> Position] /\ next' \in [List -> Position]
         /\ history' \in [List -> Seq(Position)]
         /\ \A k \in List : IF k \in ls
              THEN cursor'[k] = Nil /\ history'[k] = <<>> /\ next'[k] = Nil
              ELSE /\ cursor'[k] = cursor[k] /\ history'[k] = history[k]
                   /\ next'[k] = next[k]
BY DEF Reset, ListsTypeOK, Position

LEMMA FreshStack ==
  ASSUME NEW l \in List, cursor'[l] = Nil, history'[l] = <<>>
  PROVE  Stack(l)'[1] = Nil /\ Walks(l)'
<1>1. Append(<<>>, Nil)[1] = Nil
  OBVIOUS
<1> QED BY <1>1 DEF Stack, Walks

LEMMA FirstPageKeeps ==
  ASSUME ListsInv, NEW l \in List, NEW q \in Query, FirstPage(l, q), Reset({l})
  PROVE  ListsInv'
<1>1. /\ Handler /\ controls' = [controls EXCEPT ![l] = q]
      /\ SendLoad(l, Nil, q, FALSE) /\ Walk(l, TRUE, q)
      /\ UNCHANGED <<role, shownVars, due>>
  BY DEF FirstPage
<1>2. /\ cursor' \in [List -> Position] /\ next' \in [List -> Position]
      /\ history' \in [List -> Seq(Position)]
      /\ cursor'[l] = Nil /\ history'[l] = <<>>
      /\ \A k \in List \ {l} : /\ cursor'[k] = cursor[k] /\ next'[k] = next[k]
                               /\ history'[k] = history[k]
  BY ResetTypes DEF ListsInv
<1>3. /\ underWay' \in [List -> [Call -> Load \cup {Nil}]]
      /\ asked' \in [List -> Query] /\ disturbed' \in [List -> BOOLEAN]
      /\ \A k \in List \ {l} : /\ underWay'[k] = underWay[k]
                               /\ asked'[k] = asked[k]
                               /\ disturbed'[k] = disturbed[k]
  BY <1>1, SendTypes DEF ListsInv, Position
<1>4. ListsTypeOK'
  BY <1>1, <1>2, <1>3, HandlerTypes
  DEF ListsInv, ListsTypeOK, shownVars, HandlerType
<1>5. ListInv(l)'
  BY <1>1, <1>2, FreshStack, SendKeeps DEF ListsInv, Position
<1>6. ASSUME NEW k \in List \ {l} PROVE ListInv(k)'
  BY <1>1, <1>2, <1>3, UntouchedKeeps DEF ListsInv, Untouched, shownVars
<1> QED BY <1>4, <1>5, <1>6 DEF ListsInv

(* Steps on one list that leave the others alone and send a request. *)
LEMMA SendStep ==
  ASSUME ListsInv, NEW l \in List, NEW c \in Position, NEW q \in Query,
         NEW view \in BOOLEAN, NEW first \in BOOLEAN, Handler,
         SendLoad(l, c, q, view), Walk(l, first, q),
         cursor' = [cursor EXCEPT ![l] = c],
         history' \in [List -> Seq(Position)],
         \A k \in List \ {l} : history'[k] = history[k],
         UNCHANGED <<role, controls, next, shownVars, due>>,
         Stack(l)'[1] = Nil, ~disturbed'[l] => Walks(l)'
  PROVE  ListsInv'
<1>1. /\ cursor' \in [List -> Position] /\ cursor'[l] = c
      /\ \A k \in List \ {l} : cursor'[k] = cursor[k]
  BY DEF ListsInv, ListsTypeOK
<1>2. /\ underWay' \in [List -> [Call -> Load \cup {Nil}]]
      /\ asked' \in [List -> Query] /\ disturbed' \in [List -> BOOLEAN]
      /\ \A k \in List \ {l} : /\ underWay'[k] = underWay[k]
                               /\ asked'[k] = asked[k]
                               /\ disturbed'[k] = disturbed[k]
  BY SendTypes DEF ListsInv
<1>3. ListsTypeOK'
  BY <1>1, <1>2, HandlerTypes
  DEF ListsInv, ListsTypeOK, shownVars, HandlerType
<1>4. ListInv(l)'
  BY <1>1, SendKeeps DEF ListsInv
<1>5. ASSUME NEW k \in List \ {l} PROVE ListInv(k)'
  BY <1>1, <1>2, UntouchedKeeps DEF ListsInv, Untouched, shownVars
<1> QED BY <1>3, <1>4, <1>5 DEF ListsInv

(* next...Page: the cursor pushed and the next one are neighbours. *)
LEMMA NextPageKeeps ==
  ASSUME ListsInv, NEW l \in List, NextPage(l)
  PROVE  ListsInv'
<1>1. /\ cursor[l] \in Position /\ next[l] \in Position \ {Nil}
      /\ history[l] \in Seq(Position) /\ controls[l] \in Query
  BY ListTypes DEF ListsInv, NextPage
<1>2. /\ Handler /\ SendLoad(l, next[l], controls[l], FALSE)
      /\ Walk(l, FALSE, controls[l])
      /\ cursor' = [cursor EXCEPT ![l] = next[l]]
      /\ history' = [history EXCEPT ![l] = Append(history[l], cursor[l])]
      /\ UNCHANGED <<role, controls, next, shownVars, due>>
  BY DEF NextPage
<1>3. /\ cursor'[l] = next[l] /\ history'[l] = Stack(l)
      /\ history' \in [List -> Seq(Position)]
      /\ \A k \in List \ {l} : history'[k] = history[k]
  BY <1>1, <1>2, StackElements DEF ListsInv, ListsTypeOK, Stack
<1>4. /\ Stack(l) \in Seq(Position) /\ Len(Stack(l)) = Len(history[l]) + 1
      /\ Len(history[l]) \in Nat /\ Stack(l)[Len(history[l]) + 1] = cursor[l]
  BY <1>1, StackElements DEF Stack
<1>5. Stack(l)' = Append(Stack(l), next[l])
  BY <1>3 DEF Stack
<1>6. /\ Stack(l)'[Len(history[l]) + 2] = next[l]
      /\ \A i \in 1 .. Len(history[l]) + 1 : Stack(l)'[i] = Stack(l)[i]
  BY <1>1, <1>4, <1>5, StackElements
<1>7. Stack(l)'[1] = Nil
  BY <1>4, <1>6 DEF ListsInv, ListInv
<1>8. ASSUME ~disturbed'[l] PROVE Walks(l)'
  <2>1. ~disturbed[l] /\ Quiet(l) /\ asked'[l] = asked[l]
    BY <1>1, <1>2, <1>8, WalkOn DEF ListsInv
  <2>2. Walks(l) /\ next[l] = After[asked[l]][cursor[l]]
    BY <1>1, <2>1 DEF ListsInv, ListInv, NextFollows
  <2>3. ASSUME NEW i \in 1 .. Len(history[l]) + 1
        PROVE  /\ Stack(l)'[i + 1] # Nil
               /\ Stack(l)'[i + 1] = After[asked[l]][Stack(l)'[i]]
    <3>1. CASE i \in 1 .. Len(history[l])
      <4>1. /\ Stack(l)[i + 1] # Nil
            /\ Stack(l)[i + 1] = After[asked[l]][Stack(l)[i]]
        BY <2>2, <3>1 DEF Walks
      <4>2. i \in 1 .. Len(history[l]) + 1 /\ i + 1 \in 1 .. Len(history[l]) + 1
        BY <1>4, <3>1
      <4>3. Stack(l)'[i] = Stack(l)[i] /\ Stack(l)'[i + 1] = Stack(l)[i + 1]
        BY <1>6, <4>2
      <4> QED BY <4>1, <4>3
    <3>2. CASE i = Len(history[l]) + 1
      BY <1>1, <1>4, <1>6, <2>2, <3>2
    <3> QED BY <1>4, <3>1, <3>2
  <2>4. Len(history'[l]) = Len(history[l]) + 1
    BY <1>3, <1>4
  <2> QED BY <2>1, <2>3, <2>4 DEF Walks
<1> QED BY <1>1, <1>2, <1>3, <1>7, <1>8, SendStep

(* previous...Page: the stack without its last element is a stack. *)
LEMMA PreviousPageKeeps ==
  ASSUME ListsInv, NEW l \in List, PreviousPage(l)
  PROVE  ListsInv'
<1> DEFINE n == Len(history[l])
           c == history[l][n]
<1>1. /\ history[l] \in Seq(Position) /\ history[l] # <<>>
      /\ controls[l] \in Query /\ n \in Nat \ {0} /\ c \in Position
      /\ cursor[l] \in Position
  BY ListTypes, FrontElements DEF ListsInv, PreviousPage
<1>2. /\ Handler
      /\ cursor' = [cursor EXCEPT ![l] = c]
      /\ history' = [history EXCEPT ![l] = SubSeq(history[l], 1, n - 1)]
      /\ SendLoad(l, cursor'[l], controls[l], FALSE)
      /\ Walk(l, history'[l] = <<>>, controls[l])
      /\ UNCHANGED <<role, controls, next, shownVars, due>>
  BY DEF PreviousPage
<1>3. /\ cursor'[l] = c /\ history'[l] = SubSeq(history[l], 1, n - 1)
      /\ history' \in [List -> Seq(Position)]
      /\ \A k \in List \ {l} : history'[k] = history[k]
  BY <1>1, <1>2, FrontElements DEF ListsInv, ListsTypeOK
<1>4. /\ Len(history'[l]) = n - 1 /\ history'[l] \in Seq(Position)
      /\ \A i \in 1 .. n - 1 : history'[l][i] = history[l][i]
  BY <1>1, <1>3, FrontElements
<1>5. \A i \in 1 .. n : Stack(l)'[i] = history[l][i]
  <2>1. /\ Stack(l)'[n] = c
        /\ \A i \in 1 .. n - 1 : Stack(l)'[i] = history'[l][i]
    BY <1>1, <1>3, <1>4, StackElements DEF Stack
  <2> QED BY <1>1, <1>4, <2>1
<1>6. \A i \in 1 .. n : Stack(l)'[i] = Stack(l)[i]
  <2>1. \A i \in 1 .. n : Append(history[l], cursor[l])[i] = history[l][i]
    BY <1>1, StackElements
  <2> QED BY <1>5, <2>1 DEF Stack
<1>7. Stack(l)'[1] = Nil
  BY <1>1, <1>6 DEF ListsInv, ListInv
<1>8. ASSUME ~disturbed'[l] PROVE Walks(l)'
  <2>1. CASE history'[l] = <<>>
    BY <1>1, <1>4, <2>1 DEF Walks
  <2>2. CASE history'[l] # <<>>
    <3>1. ~disturbed[l] /\ asked'[l] = asked[l]
      BY <1>2, <1>8, <2>2, WalkOn DEF ListsInv
    <3>2. Walks(l)
      BY <3>1 DEF ListsInv, ListInv
    <3>3. ASSUME NEW i \in 1 .. n - 1
          PROVE  /\ Stack(l)'[i + 1] # Nil
                 /\ Stack(l)'[i + 1] = After[asked[l]][Stack(l)'[i]]
      <4>1. i \in 1 .. n /\ i + 1 \in 1 .. n
        BY <1>1
      <4>2. Stack(l)'[i] = Stack(l)[i] /\ Stack(l)'[i + 1] = Stack(l)[i + 1]
        BY <1>6, <4>1
      <4>3. /\ Stack(l)[i + 1] # Nil
            /\ Stack(l)[i + 1] = After[asked[l]][Stack(l)[i]]
        BY <3>2, <4>1 DEF Walks
      <4> QED BY <4>2, <4>3
    <3> QED BY <1>4, <3>1, <3>3 DEF Walks
  <2> QED BY <2>1, <2>2
<1> QED BY <1>1, <1>2, <1>3, <1>7, <1>8, SendStep

(* Reload and loadWorkspaceView: the stack stays what it is. *)
LEMMA AgainKeeps ==
  ASSUME ListsInv, NEW l \in List, Reload(l) \/ OpenView(l)
  PROVE  ListsInv'
<1>1. /\ history[l] \in Seq(Position) /\ controls[l] \in Query
      /\ cursor[l] \in Position
  BY ListTypes DEF ListsInv
<1>2. PICK view \in BOOLEAN :
        /\ Handler /\ SendLoad(l, cursor[l], controls[l], view)
        /\ Walk(l, history[l] = <<>>, controls[l])
        /\ UNCHANGED <<role, controls, cursor, history, next, shownVars, due>>
  BY DEF Reload, OpenView
<1>3. /\ cursor' = [cursor EXCEPT ![l] = cursor[l]]
      /\ history' \in [List -> Seq(Position)]
      /\ Stack(l)'[1] = Nil
  BY <1>2 DEF ListsInv, ListsTypeOK, ListInv, Stack
<1>4. ASSUME ~disturbed'[l] PROVE Walks(l)'
  <2>1. CASE history[l] = <<>>
    BY <1>2, <2>1 DEF Walks
  <2>2. CASE history[l] # <<>>
    <3>1. ~disturbed[l] /\ asked'[l] = asked[l]
      BY <1>2, <1>4, <2>2, WalkOn DEF ListsInv
    <3> QED BY <1>2, <3>1 DEF ListsInv, ListInv, Walks, Stack
  <2> QED BY <2>1, <2>2
<1> QED BY <1>1, <1>2, <1>3, <1>4, SendStep

(* An answer: the lone request asked for the page the list stands on. *)
LEMMA RenderKeeps ==
  ASSUME ListsInv, NEW l \in List, NEW f \in Call, RenderPage(l, f)
  PROVE  ListsInv'
<1> DEFINE load == underWay[l][f]
<1>1. /\ load \in Load /\ load # Nil
      /\ load.query \in Query /\ load.cursor \in Position /\ load.view \in BOOLEAN
      /\ history[l] \in Seq(Position) /\ Len(history[l]) \in Nat
  BY ListTypes, StackElements DEF ListsInv, RenderPage, Load
<1>2. /\ next' = [next EXCEPT ![l] = After[load.query][load.cursor]]
      /\ pageShown' = [pageShown EXCEPT ![l] =
                         [query |-> load.query, cursor |-> load.cursor]]
      /\ label' = [label EXCEPT ![l] = Len(history[l]) + 1]
      /\ underWay' = [underWay EXCEPT ![l][f] = Nil]
      /\ due' = [due EXCEPT ![l] = due[l] /\ ~load.view]
      /\ UNCHANGED <<role, controls, cursor, history, asked, disturbed, handlers>>
  BY DEF RenderPage
<1>3. /\ After[load.query][load.cursor] \in Position
      /\ [query |-> load.query, cursor |-> load.cursor] \in Page
      /\ Len(history[l]) + 1 \in Nat \ {0}
  BY <1>1, PagedAssumption DEF Page
<1>4. /\ next' \in [List -> Position] /\ pageShown' \in [List -> Page \cup {Nil}]
      /\ label' \in [List -> Nat \ {0}]
  BY <1>2, <1>3 DEF ListsInv, ListsTypeOK
<1>5. underWay' \in [List -> [Call -> Load \cup {Nil}]] /\ due' \in [List -> BOOLEAN]
  BY <1>2 DEF ListsInv, ListsTypeOK
<1>6. ListsTypeOK'
  BY <1>2, <1>4, <1>5 DEF ListsInv, ListsTypeOK
<1>7. /\ next'[l] = After[load.query][load.cursor]
      /\ pageShown'[l] = [query |-> load.query, cursor |-> load.cursor]
      /\ label'[l] = Len(history[l]) + 1
      /\ underWay'[l][f] = Nil
      /\ \A g \in Call \ {f} : underWay'[l][g] = underWay[l][g]
  BY <1>2 DEF ListsInv, ListsTypeOK
<1>8. ListInv(l)'
  <2> SUFFICES ASSUME ~disturbed[l]
               PROVE  OneLoad(l)' /\ Walks(l)' /\ NextFollows(l)' /\ Shown(l)'
    BY <1>2 DEF ListInv, ListsInv, Stack
  <2>1. OneLoad(l) /\ Walks(l)
    BY DEF ListsInv, ListInv
  <2>2. load.query = asked[l] /\ load.cursor = cursor[l]
    BY <1>1, <2>1 DEF OneLoad
  <2>3. \A g \in Call : underWay'[l][g] = Nil
    BY <1>1, <1>7, <2>1 DEF OneLoad
  <2> QED BY <1>2, <1>7, <2>1, <2>2, <2>3
          DEF OneLoad, Walks, Stack, NextFollows, Shown
<1>9. ASSUME NEW k \in List \ {l} PROVE ListInv(k)'
  <2>1. Untouched(k)
    BY <1>2 DEF Untouched, ListsInv, ListsTypeOK
  <2> QED BY <2>1, UntouchedKeeps DEF ListsInv
<1> QED BY <1>6, <1>8, <1>9 DEF ListsInv

LEMMA FailsKeeps ==
  ASSUME ListsInv, NEW l \in List, NEW f \in Call, PageFails(l, f)
  PROVE  ListsInv'
<1>1. /\ underWay' = [underWay EXCEPT ![l][f] = Nil]
      /\ disturbed' = [disturbed EXCEPT ![l] = TRUE]
      /\ UNCHANGED <<role, pageVars, shownVars, due, handlers>>
  BY DEF PageFails
<1>2. /\ underWay' \in [List -> [Call -> Load \cup {Nil}]]
      /\ disturbed' \in [List -> BOOLEAN] /\ disturbed'[l] = TRUE
  BY <1>1 DEF ListsInv, ListsTypeOK
<1>3. ListsTypeOK'
  BY <1>1, <1>2 DEF ListsInv, ListsTypeOK, pageVars, shownVars
<1>4. ListInv(l)'
  BY <1>1, <1>2 DEF ListsInv, ListInv, Stack, pageVars
<1>5. ASSUME NEW k \in List \ {l} PROVE ListInv(k)'
  <2>1. Untouched(k)
    BY <1>1 DEF Untouched, ListsInv, ListsTypeOK, pageVars, shownVars
  <2> QED BY <2>1, UntouchedKeeps DEF ListsInv
<1> QED BY <1>3, <1>4, <1>5 DEF ListsInv

(* createLink and the switch of the mode: lists are reset and not loaded. *)
LEMMA ResetKeeps ==
  ASSUME ListsInv, NEW reset \in SUBSET List, Reset(reset), Handler,
         role' \in {"superadmin", "customer"},
         UNCHANGED <<controls, shownVars, underWay>>,
         due' \in [List -> BOOLEAN],
         \A k \in List : due'[k] = TRUE \/ (k \notin reset /\ due'[k] = due[k]),
         asked' = [k \in List |-> IF k \in reset THEN controls[k] ELSE asked[k]],
         disturbed' = [k \in List |->
                         IF k \in reset THEN ~Quiet(k) ELSE disturbed[k]]
  PROVE  ListsInv'
<1>1. /\ cursor' \in [List -> Position] /\ next' \in [List -> Position]
      /\ history' \in [List -> Seq(Position)]
      /\ \A k \in List : IF k \in reset
           THEN cursor'[k] = Nil /\ history'[k] = <<>> /\ next'[k] = Nil
           ELSE /\ cursor'[k] = cursor[k] /\ history'[k] = history[k]
                /\ next'[k] = next[k]
  BY ResetTypes DEF ListsInv
<1>2. asked' \in [List -> Query] /\ disturbed' \in [List -> BOOLEAN]
  BY DEF ListsInv, ListsTypeOK, Quiet
<1>3. ListsTypeOK'
  BY <1>1, <1>2, HandlerTypes DEF ListsInv, ListsTypeOK, shownVars, HandlerType
<1>4. ASSUME NEW k \in reset PROVE ListInv(k)'
  <2>1. /\ cursor'[k] = Nil /\ history'[k] = <<>> /\ next'[k] = Nil
        /\ due'[k] = TRUE /\ disturbed'[k] = ~Quiet(k)
    BY <1>1, <1>4
  <2>2. Stack(k)'[1] = Nil /\ Walks(k)'
    BY <2>1, <1>4, FreshStack
  <2>3. Quiet(k) => OneLoad(k)'
    BY <1>4 DEF Quiet, OneLoad
  <2> QED BY <2>1, <2>2, <2>3 DEF ListInv, NextFollows
<1>5. ASSUME NEW k \in List \ reset PROVE ListInv(k)'
  BY <1>1, UntouchedKeeps DEF ListsInv, Untouched, shownVars
<1> QED BY <1>3, <1>4, <1>5 DEF ListsInv

LEMMA TypeFilterKeeps ==
  ASSUME ListsInv, NEW l \in List, NEW q \in Query, TypeFilter(l, q)
  PROVE  ListsInv'
<1>1. /\ Handler /\ controls' = [controls EXCEPT ![l] = q]
      /\ UNCHANGED <<role, cursor, history, next, asked, shownVars, underWay,
                     due, disturbed>>
  BY DEF TypeFilter
<1>2. ListsTypeOK'
  BY <1>1, HandlerTypes DEF ListsInv, ListsTypeOK, shownVars, HandlerType
<1>3. ASSUME NEW k \in List PROVE ListInv(k)'
  BY <1>1, UntouchedKeeps DEF ListsInv, Untouched, shownVars
<1> QED BY <1>2, <1>3 DEF ListsInv

-----------------------------------------------------------------------------
(* The inductive invariant *)

LEMMA ListsInvInit == ListsInit => ListsInv
<1> SUFFICES ASSUME ListsInit PROVE ListsInv
  OBVIOUS
<1>1. <<>> \in Seq(Position) /\ 1 \in Nat \ {0} /\ Nil \in Position
      /\ Append(<<>>, Nil)[1] = Nil
  BY EmptySeq DEF Position
<1>2. controls \in [List -> Query] /\ asked \in [List -> Query]
  BY DEF ListsInit
<1>3. ListsTypeOK
  BY <1>1, <1>2 DEF ListsInit, ListsTypeOK
<1>4. ASSUME NEW l \in List PROVE ListInv(l)
  BY <1>1 DEF ListsInit, ListInv, Stack, OneLoad, Walks, NextFollows
<1> QED BY <1>3, <1>4 DEF ListsInv

LEMMA ListsInvStep ==
  ASSUME ListsInv, [ListsNext]_listsVars
  PROVE  ListsInv'
<1>1. ASSUME NEW q \in Query,
             \/ FirstPage("links", q) /\ resetLinkPagination
             \/ FirstPage("users", q) /\ resetUserPagination
             \/ FirstPage("clicks", q) /\ resetClickPagination
             \/ FirstPage("audit", q) /\ resetAuditPagination
      PROVE  ListsInv'
  <2>1. PICK l \in List : FirstPage(l, q) /\ Reset({l})
    BY <1>1 DEF FirstPage, Reachable, resetLinkPagination, resetUserPagination,
                resetClickPagination, resetAuditPagination
  <2> QED BY <2>1, FirstPageKeeps
<1>2. CASE filterUsers \/ filterAuditEvents
  <2>1. PICK l \in List : FirstPage(l, controls[l]) /\ Reset({l})
    BY <1>2 DEF filterUsers, filterAuditEvents, Reachable, resetUserPagination,
                resetAuditPagination
  <2> QED BY <2>1, FirstPageKeeps, ListTypes DEF ListsInv
<1>3. CASE nextLinkPage \/ nextUserPage \/ nextClickPage \/ nextAuditPage
  <2>1. PICK l \in List : NextPage(l)
    BY <1>3 DEF nextLinkPage, nextUserPage, nextClickPage, nextAuditPage,
                NextPage, Reachable
  <2> QED BY <2>1, NextPageKeeps
<1>4. CASE \/ previousLinkPage \/ previousUserPage
           \/ previousClickPage \/ previousAuditPage
  <2>1. PICK l \in List : PreviousPage(l)
    BY <1>4 DEF previousLinkPage, previousUserPage, previousClickPage,
                previousAuditPage, PreviousPage, Reachable
  <2> QED BY <2>1, PreviousPageKeeps
<1>5. CASE createLinkResets
  <2>1. /\ "links" \in List /\ Handler /\ Reset({"links"})
        /\ due' = [due EXCEPT !["links"] = TRUE]
        /\ asked' = [asked EXCEPT !["links"] = controls["links"]]
        /\ disturbed' = [disturbed EXCEPT !["links"] = ~Quiet("links")]
        /\ UNCHANGED <<role, controls, shownVars, underWay>>
    BY <1>5 DEF createLinkResets, Reachable, resetLinkPagination
  <2>2. /\ role' \in {"superadmin", "customer"} /\ due' \in [List -> BOOLEAN]
        /\ \A k \in List :
             due'[k] = TRUE \/ (k \notin {"links"} /\ due'[k] = due[k])
    BY <2>1 DEF ListsInv, ListsTypeOK
  <2>3. asked' = [k \in List |-> IF k \in {"links"} THEN controls[k] ELSE asked[k]]
    BY <2>1 DEF ListsInv, ListsTypeOK
  <2>4. disturbed' = [k \in List |->
                        IF k \in {"links"} THEN ~Quiet(k) ELSE disturbed[k]]
    BY <2>1 DEF ListsInv, ListsTypeOK
  <2>5. {"links"} \in SUBSET List
    BY <2>1
  <2> QED BY <2>1, <2>2, <2>3, <2>4, <2>5, ResetKeeps
<1>6. CASE renderDashboardResets
  <2>1. /\ List \ {"audit"} \in SUBSET List /\ Handler
        /\ role' \in {"superadmin", "customer"}
        /\ Reset(List \ {"audit"})
        /\ due' \in [List -> BOOLEAN] /\ \A k \in List : due'[k] = TRUE
        /\ asked' = [k \in List |->
                       IF k \in List \ {"audit"} THEN controls[k] ELSE asked[k]]
        /\ disturbed' = [k \in List |->
                       IF k \in List \ {"audit"} THEN ~Quiet(k) ELSE disturbed[k]]
        /\ UNCHANGED <<controls, shownVars, underWay>>
    BY <1>6 DEF renderDashboardResets
  <2> QED BY <2>1, ResetKeeps
<1>7. CASE loadLinks \/ loadCustomers \/ loadClicks \/ loadAuditEvents
  BY <1>7, RenderKeeps DEF loadLinks, loadCustomers, loadClicks, loadAuditEvents
<1>8. ASSUME NEW l \in List, NEW q \in Query, TypeFilter(l, q)
      PROVE  ListsInv'
  BY <1>8, TypeFilterKeeps
<1>9. CASE UNCHANGED listsVars
  <2>1. ListsTypeOK'
    BY <1>9 DEF listsVars, pageVars, shownVars, ListsInv, ListsTypeOK
  <2>2. ASSUME NEW k \in List PROVE ListInv(k)'
    BY <1>9, UntouchedKeeps DEF listsVars, pageVars, shownVars, ListsInv, Untouched
  <2> QED BY <2>1, <2>2 DEF ListsInv
<1> QED
  BY <1>1, <1>2, <1>3, <1>4, <1>5, <1>6, <1>7, <1>8, <1>9, AgainKeeps, FailsKeeps
  DEF ListsNext, changeLinkPageSize, changeUserPageSize, changeClickPageSize,
      changeAuditPageSize

LEMMA ListsInvAlways == ListsSpec => []ListsInv
<1>1. ListsInv /\ [ListsNext]_listsVars => ListsInv'
  BY ListsInvStep
<1> QED BY <1>1, ListsInvInit, PTL DEF ListsSpec

-----------------------------------------------------------------------------
(* What follows from it *)

(* Type correctness of the paged lists. *)
THEOREM ListsTypeCorrect == ListsSpec => []ListsTypeOK
<1>1. ListsInv => ListsTypeOK
  BY DEF ListsInv
<1> QED BY <1>1, ListsInvAlways, PTL

(* next...Page, previous...Page, reset...Pagination: the cursors kept are  *)
(* the first pages of one listing, in order and without a gap.             *)
THEOREM StackAlwaysWalks == ListsSpec => []StackWalksListing
<1>1. ListsInv => StackWalksListing
  BY DEF ListsInv, ListInv, Walks, StackWalksListing
<1> QED BY <1>1, ListsInvAlways, PTL

(* loadLinks, loadCustomers, loadClicks, loadAuditEvents: once a list is   *)
(* answered, rows, page number and Next are those of the page it stands on. *)
THEOREM PageAlwaysCurrent == ListsSpec => []PageShownIsCurrent
<1>1. ListsInv => PageShownIsCurrent
  BY ListTypes DEF ListsInv, ListInv, Shown, PageShownIsCurrent
<1> QED BY <1>1, ListsInvAlways, PTL

-----------------------------------------------------------------------------
(* Changes and the lists they reload *)

(* A request is free, makes a change or loads a list; a reload that is     *)
(* done has read the list.                                                 *)
CallsInv ==
  \A c \in Call :
    /\ phase[c] = "free" <=> change[c] = Nil /\ reload[c] = Nil
    /\ change[c] = Nil \/ reload[c] = Nil
    /\ reload[c] # Nil /\ phase[c] = "done" => read[c] \in Lists

(* A change of the list k is made, and its answer is under way. *)
Unseen(k) == \E c \in Call :
  change[c] # Nil /\ change[c].kind = k /\ phase[c] = "done"

LoneReload(k) == \A c, d \in Call : reload[c] = k /\ reload[d] = k => c = d

ReadIsCurrent(k) ==
  \A c \in Call : reload[c] = k /\ phase[c] = "done" =>
                    read[c] = items[k] \/ Unseen(k)

RestIsCurrent(k) ==
  (\A c \in Call : reload[c] # k) => rows[k] = items[k] \/ Unseen(k)

KindInv(k) == LoneReload(k) /\ ReadIsCurrent(k) /\ RestIsCurrent(k)

ChangesInv ==
  /\ ChangesTypeOK /\ CallsInv
  /\ \A k \in Kind : k \notin excused => KindInv(k)

-----------------------------------------------------------------------------
(* Types *)

LEMMA NilIsNoKind == Nil \notin Op /\ Nil \notin Lists
BY ChangesAssumption

LEMMA OpFields ==
  ASSUME NEW op \in Op
  PROVE  op.kind \in Kind /\ op.id \in Id /\ op.to \in State
BY DEF Op

LEMMA StartType ==
  ASSUME ChangesInv, Start
  PROVE  ops' \in Nat
<1>1. ops \in Nat
  BY DEF ChangesInv, ChangesTypeOK
<1>2. ops' = ops + 1
  BY DEF Start
<1> QED BY <1>1, <1>2

(* Steps that touch no request and no list. *)
LEMMA QuietStep ==
  ASSUME ChangesInv, UNCHANGED <<items, rows, callVars, excused>>
  PROVE  CallsInv' /\ \A k \in Kind : k \notin excused' => KindInv(k)'
BY DEF ChangesInv, CallsInv, KindInv, LoneReload, ReadIsCurrent, RestIsCurrent,
       Unseen, callVars

-----------------------------------------------------------------------------
(* Requests: sent, released, and turned into a reload *)

LEMMA SendOpStep ==
  ASSUME ChangesInv, NEW op \in Op, SendOp(op), UNCHANGED <<items, rows, excused>>
  PROVE  /\ change' \in [Call -> Op \cup {Nil}] /\ reload' = reload
         /\ phase' \in [Call -> Phase] /\ read' = read
         /\ CallsInv' /\ \A k \in Kind : k \notin excused' => KindInv(k)'
<1>1. PICK c \in Call : /\ phase[c] = "free"
                        /\ change' = [change EXCEPT ![c] = op]
                        /\ phase' = [phase EXCEPT ![c] = "sent"]
                        /\ UNCHANGED <<reload, read>>
  BY DEF SendOp
<1>2. /\ change \in [Call -> Op \cup {Nil}] /\ phase \in [Call -> Phase]
  BY DEF ChangesInv, ChangesTypeOK
<1>3. /\ change'[c] = op /\ phase'[c] = "sent"
      /\ \A d \in Call \ {c} : change'[d] = change[d] /\ phase'[d] = phase[d]
  BY <1>1, <1>2
<1>4. change[c] = Nil /\ reload[c] = Nil
  BY <1>1 DEF ChangesInv, CallsInv
<1>5. CallsInv'
  BY <1>1, <1>3, <1>4, NilIsNoKind DEF ChangesInv, CallsInv
<1>6. ASSUME NEW k \in Kind
      PROVE  Unseen(k) => Unseen(k)'
  BY <1>1, <1>3 DEF Unseen
<1>7. ASSUME NEW k \in Kind, k \notin excused'
      PROVE  KindInv(k)'
  <2>1. KindInv(k)
    BY <1>7 DEF ChangesInv
  <2>2. ASSUME NEW d \in Call, phase'[d] = "done" PROVE phase[d] = "done"
    BY <1>3, <2>2
  <2> QED BY <1>1, <1>6, <2>1, <2>2 DEF KindInv, LoneReload, ReadIsCurrent,
                                       RestIsCurrent
<1> QED BY <1>1, <1>2, <1>5, <1>7 DEF Phase

(* A request ends.  Nothing is lost if its list was excused, or if it made *)
(* no change and the rows shown are still the server's.                    *)
LEMMA ReleaseStep ==
  ASSUME ChangesInv, NEW c \in Call, Release(c)
  PROVE  /\ change' \in [Call -> Op \cup {Nil}]
         /\ reload' \in [Call -> Kind \cup {Nil}]
         /\ phase' \in [Call -> Phase] /\ read' \in [Call -> Lists \cup {Nil}]
         /\ CallsInv'
         /\ change'[c] = Nil /\ reload'[c] = Nil /\ phase'[c] = "free"
         /\ \A d \in Call \ {c} :
              /\ change'[d] = change[d] /\ reload'[d] = reload[d]
              /\ phase'[d] = phase[d] /\ read'[d] = read[d]
<1>1. /\ change \in [Call -> Op \cup {Nil}]
      /\ reload \in [Call -> Kind \cup {Nil}]
      /\ phase \in [Call -> Phase] /\ read \in [Call -> Lists \cup {Nil}]
  BY DEF ChangesInv, ChangesTypeOK
<1>2. /\ change'[c] = Nil /\ reload'[c] = Nil /\ phase'[c] = "free"
      /\ \A d \in Call \ {c} :
           /\ change'[d] = change[d] /\ reload'[d] = reload[d]
           /\ phase'[d] = phase[d] /\ read'[d] = read[d]
  BY <1>1 DEF Release
<1>3. CallsInv'
  BY <1>2 DEF ChangesInv, CallsInv
<1>4. /\ change' \in [Call -> Op \cup {Nil}]
      /\ reload' \in [Call -> Kind \cup {Nil}]
  BY <1>1 DEF Release
<1>5. phase' \in [Call -> Phase] /\ read' \in [Call -> Lists \cup {Nil}]
  BY <1>1 DEF Release, Phase
<1> QED BY <1>2, <1>3, <1>4, <1>5

(* A reload of k begins: alone, it makes the list current again.           *)
LEMMA ReloadStep ==
  ASSUME ChangesInv, NEW c \in Call, NEW k \in Kind,
         reload[c] = Nil, change[c] = Nil \/ change[c].kind = k,
         change' = [change EXCEPT ![c] = Nil],
         reload' = [reload EXCEPT ![c] = k],
         phase' = [phase EXCEPT ![c] = "sent"],
         UNCHANGED <<items, rows, read>>, Reloading(k)
  PROVE  /\ change' \in [Call -> Op \cup {Nil}]
         /\ reload' \in [Call -> Kind \cup {Nil}]
         /\ phase' \in [Call -> Phase] /\ excused' \subseteq Kind
         /\ CallsInv' /\ \A j \in Kind : j \notin excused' => KindInv(j)'
<1>1. /\ change \in [Call -> Op \cup {Nil}]
      /\ reload \in [Call -> Kind \cup {Nil}]
      /\ phase \in [Call -> Phase] /\ excused \subseteq Kind
  BY DEF ChangesInv, ChangesTypeOK
<1>2. /\ change'[c] = Nil /\ reload'[c] = k /\ phase'[c] = "sent"
      /\ \A d \in Call \ {c} :
           /\ change'[d] = change[d] /\ reload'[d] = reload[d]
           /\ phase'[d] = phase[d]
  BY <1>1
<1>3. change' \in [Call -> Op \cup {Nil}] /\ reload' \in [Call -> Kind \cup {Nil}]
  BY <1>1
<1>4. phase' \in [Call -> Phase] /\ excused' \subseteq Kind
  BY <1>1 DEF Phase, Reloading
<1>5. Nil \notin Kind
  BY ChangesAssumption
<1>6. CallsInv'
  BY <1>2, <1>5 DEF ChangesInv, CallsInv
<1>7. ASSUME k \notin excused' PROVE KindInv(k)'
  <2>1. \A d \in Call : reload[d] # k
    BY <1>7 DEF Reloading, Reloads
  <2>2. \A d \in Call : reload'[d] = k => d = c
    BY <1>2, <2>1
  <2> QED BY <1>2, <2>2 DEF KindInv, LoneReload, ReadIsCurrent, RestIsCurrent
<1>8. ASSUME NEW j \in Kind \ {k}, j \notin excused' PROVE KindInv(j)'
  <2>1. KindInv(j)
    BY <1>8 DEF ChangesInv, Reloading
  <2>2. Unseen(j) => Unseen(j)'
    BY <1>2 DEF Unseen
  <2>3. \A d \in Call : reload'[d] = j <=> reload[d] = j
    BY <1>2, <1>5, <1>8
  <2>4. \A d \in Call : phase'[d] = "done" => phase[d] = "done"
    BY <1>2
  <2> QED BY <2>1, <2>2, <2>3, <2>4 DEF KindInv, LoneReload, ReadIsCurrent,
                                       RestIsCurrent
<1> QED BY <1>3, <1>4, <1>6, <1>7, <1>8


-----------------------------------------------------------------------------
(* The inductive invariant *)

LEMMA ChangesInvInit == ChangesInit => ChangesInv
<1> SUFFICES ASSUME ChangesInit PROVE ChangesInv
  OBVIOUS
<1>1. ChangesTypeOK
  BY DEF ChangesInit, ChangesTypeOK, Phase
<1>2. CallsInv
  BY DEF ChangesInit, CallsInv
<1>3. ASSUME NEW k \in Kind PROVE KindInv(k)
  BY ChangesAssumption DEF ChangesInit, KindInv, LoneReload, ReadIsCurrent, RestIsCurrent
<1> QED BY <1>1, <1>2, <1>3 DEF ChangesInv

LEMMA AskStep ==
  ASSUME ChangesInv, NEW k \in Kind, NEW i \in Id, NEW to \in State, Ask(k, i, to)
  PROVE  ChangesInv'
<1>1. /\ dialog' \in Op /\ ops' \in Nat
      /\ UNCHANGED <<items, rows, returnValue, unconfirmed, callVars, excused>>
  BY StartType DEF Ask, Op
<1>2. ChangesTypeOK'
  BY <1>1 DEF ChangesInv, ChangesTypeOK, callVars
<1> QED BY <1>1, <1>2, QuietStep DEF ChangesInv

LEMMA SubmitStep ==
  ASSUME ChangesInv, NEW k \in Kind, NEW i \in Id, NEW from, NEW to \in State,
         Submit(k, i, from, to)
  PROVE  ChangesInv'
<1>1. /\ [kind |-> k, id |-> i, to |-> to] \in Op /\ ops' \in Nat
      /\ SendOp([kind |-> k, id |-> i, to |-> to])
      /\ UNCHANGED <<items, rows, dialogVars, excused>>
  BY StartType DEF Submit, Op
<1>2. /\ change' \in [Call -> Op \cup {Nil}] /\ reload' = reload
      /\ phase' \in [Call -> Phase] /\ read' = read
      /\ CallsInv' /\ \A j \in Kind : j \notin excused' => KindInv(j)'
  BY <1>1, SendOpStep
<1>3. ChangesTypeOK'
  BY <1>1, <1>2 DEF ChangesInv, ChangesTypeOK, dialogVars
<1> QED BY <1>2, <1>3 DEF ChangesInv

LEMMA ConfirmStep ==
  ASSUME ChangesInv, NEW how \in {"confirm", "cancel", "escape"},
         confirmAction(how)
  PROVE  ChangesInv'
<1>1. /\ dialog \in Op /\ dialog' = Nil
      /\ returnValue' = ReturnValue(how)
      /\ UNCHANGED <<items, rows, excused, ops>>
      /\ unconfirmed' \subseteq Op
  BY DEF confirmAction, ChangesInv, ChangesTypeOK
<1>2. returnValue' \in {"", "confirm", "cancel"}
  BY <1>1 DEF ReturnValue, ChangesInv, ChangesTypeOK
<1>3. /\ change' \in [Call -> Op \cup {Nil}] /\ reload' = reload
      /\ phase' \in [Call -> Phase] /\ read' = read
      /\ CallsInv' /\ \A j \in Kind : j \notin excused' => KindInv(j)'
  <2>1. CASE SendOp(dialog)
    BY <1>1, <2>1, SendOpStep
  <2>2. CASE UNCHANGED callVars
    <3>1. CallsInv' /\ \A j \in Kind : j \notin excused' => KindInv(j)'
      BY <1>1, <2>2, QuietStep
    <3> QED BY <2>2, <3>1 DEF callVars, ChangesInv, ChangesTypeOK
  <2> QED BY <2>1, <2>2 DEF confirmAction
<1>4. ChangesTypeOK'
  BY <1>1, <1>2, <1>3 DEF ChangesInv, ChangesTypeOK
<1> QED BY <1>3, <1>4 DEF ChangesInv

(* A change the server makes is news for its list, and for no other.       *)
LEMMA ServeStep ==
  ASSUME ChangesInv, NEW c \in Call, Serve(c)
  PROVE  ChangesInv'
<1> DEFINE op == change[c]
<1>1. /\ op \in Op /\ phase[c] = "sent" /\ reload[c] = Nil
      /\ UNCHANGED <<rows, dialogVars, change, reload, read, excused, ops>>
  BY DEF Serve, ChangesInv, ChangesTypeOK, CallsInv
<1>2. op.kind \in Kind /\ op.id \in Id /\ op.to \in State
  BY <1>1, OpFields
<1>3. /\ items' \in [Kind -> Lists]
      /\ \A k \in Kind : items'[k] = items[k] \/ (k = op.kind /\ phase'[c] = "done")
      /\ phase' = [phase EXCEPT ![c] = "done"] \/ phase' = [phase EXCEPT ![c] = "refused"]
  <2>1. CASE /\ items' = [items EXCEPT ![op.kind][op.id] = op.to]
             /\ phase' = [phase EXCEPT ![c] = "done"]
    <3>1. items \in [Kind -> [Id -> State]] /\ phase'[c] = "done"
      BY <2>1 DEF ChangesInv, ChangesTypeOK, Lists
    <3>2. items' \in [Kind -> [Id -> State]]
      BY <1>2, <2>1, <3>1
    <3>3. \A k \in Kind : k # op.kind => items'[k] = items[k]
      BY <1>2, <2>1, <3>1
    <3> QED BY <2>1, <3>1, <3>2, <3>3 DEF Lists
  <2>2. CASE /\ phase' = [phase EXCEPT ![c] = "refused"]
             /\ UNCHANGED items
    BY <2>2 DEF ChangesInv, ChangesTypeOK
  <2> QED BY <2>1, <2>2 DEF Serve
<1>4. /\ phase' \in [Call -> Phase]
      /\ phase'[c] \in {"done", "refused"}
      /\ \A d \in Call \ {c} : phase'[d] = phase[d]
  BY <1>3 DEF ChangesInv, ChangesTypeOK, Phase
<1>5. ChangesTypeOK'
  BY <1>1, <1>3, <1>4 DEF ChangesInv, ChangesTypeOK, dialogVars
<1>6. CallsInv'
  BY <1>1, <1>4, NilIsNoKind DEF ChangesInv, CallsInv
<1>7. ASSUME NEW k \in Kind, k \notin excused'
      PROVE  KindInv(k)'
  <2>1. KindInv(k)
    BY <1>1, <1>7 DEF ChangesInv
  <2>2. Unseen(k) => Unseen(k)'
    BY <1>1, <1>4 DEF Unseen
  <2>3. items'[k] = items[k] \/ Unseen(k)'
    BY <1>1, <1>3, NilIsNoKind DEF Unseen
  <2>4. \A d \in Call : reload[d] = k => phase'[d] = phase[d]
    BY <1>1, <1>4, ChangesAssumption
  <2> QED BY <1>1, <2>1, <2>2, <2>3, <2>4 DEF KindInv, LoneReload, ReadIsCurrent,
                                              RestIsCurrent
<1> QED BY <1>5, <1>6, <1>7 DEF ChangesInv

LEMMA SucceedStep ==
  ASSUME ChangesInv, NEW c \in Call, Succeed(c)
  PROVE  ChangesInv'
<1> DEFINE k == change[c].kind
<1>1. /\ change[c] \in Op /\ k \in Kind
  BY OpFields DEF Succeed, ChangesInv, ChangesTypeOK
<1>2. /\ reload[c] = Nil
      /\ change' = [change EXCEPT ![c] = Nil]
      /\ reload' = [reload EXCEPT ![c] = k]
      /\ phase' = [phase EXCEPT ![c] = "sent"]
      /\ UNCHANGED <<items, rows, dialogVars, read, ops>> /\ Reloading(k)
  BY DEF Succeed, ChangesInv, CallsInv
<1>3. /\ change' \in [Call -> Op \cup {Nil}]
      /\ reload' \in [Call -> Kind \cup {Nil}]
      /\ phase' \in [Call -> Phase] /\ excused' \subseteq Kind
      /\ CallsInv' /\ \A j \in Kind : j \notin excused' => KindInv(j)'
  BY <1>1, <1>2, ReloadStep
<1>4. ChangesTypeOK'
  BY <1>2, <1>3 DEF ChangesInv, ChangesTypeOK, dialogVars
<1> QED BY <1>3, <1>4 DEF ChangesInv

LEMMA RefreshStep ==
  ASSUME ChangesInv, NEW k \in Kind, Refresh(k)
  PROVE  ChangesInv'
<1>1. PICK c \in Call : /\ phase[c] = "free"
                        /\ reload' = [reload EXCEPT ![c] = k]
                        /\ phase' = [phase EXCEPT ![c] = "sent"]
  BY DEF Refresh
<1>2. /\ ops' \in Nat /\ Reloading(k)
      /\ UNCHANGED <<items, rows, dialogVars, change, read>>
  BY StartType DEF Refresh
<1>3. change[c] = Nil /\ reload[c] = Nil
  BY <1>1 DEF ChangesInv, CallsInv
<1>4. change' = [change EXCEPT ![c] = Nil]
  BY <1>2, <1>3 DEF ChangesInv, ChangesTypeOK
<1>5. /\ reload' \in [Call -> Kind \cup {Nil}]
      /\ phase' \in [Call -> Phase] /\ excused' \subseteq Kind
      /\ CallsInv' /\ \A j \in Kind : j \notin excused' => KindInv(j)'
  BY <1>1, <1>2, <1>3, <1>4, ReloadStep
<1>6. ChangesTypeOK'
  BY <1>2, <1>5 DEF ChangesInv, ChangesTypeOK, dialogVars
<1> QED BY <1>5, <1>6 DEF ChangesInv

(* A request that ends without rows, and was no news or excuses its list.  *)
LEMMA GiveUpStep ==
  ASSUME ChangesInv, NEW c \in Call, Release(c),
         UNCHANGED <<items, rows, dialogVars, ops>>,
         excused \subseteq excused', excused' \subseteq Kind,
         \A k \in Kind \ excused' :
           /\ reload[c] # k
           /\ change[c] # Nil /\ change[c].kind = k => phase[c] # "done"
  PROVE  ChangesInv'
<1>1. /\ change' \in [Call -> Op \cup {Nil}]
      /\ reload' \in [Call -> Kind \cup {Nil}]
      /\ phase' \in [Call -> Phase] /\ read' \in [Call -> Lists \cup {Nil}]
      /\ CallsInv'
      /\ change'[c] = Nil /\ reload'[c] = Nil /\ phase'[c] = "free"
      /\ \A d \in Call \ {c} :
           /\ change'[d] = change[d] /\ reload'[d] = reload[d]
           /\ phase'[d] = phase[d] /\ read'[d] = read[d]
  BY ReleaseStep
<1>2. ChangesTypeOK'
  BY <1>1 DEF ChangesInv, ChangesTypeOK, dialogVars
<1>3. ASSUME NEW k \in Kind, k \notin excused'
      PROVE  KindInv(k)'
  <2>1. KindInv(k)
    BY <1>3 DEF ChangesInv
  <2>2. Unseen(k) => Unseen(k)'
    BY <1>1, <1>3 DEF Unseen
  <2>3. \A d \in Call : reload'[d] = k <=> reload[d] = k
    BY <1>1, <1>3, ChangesAssumption
  <2>4. \A d \in Call : reload[d] = k => phase'[d] = phase[d] /\ read'[d] = read[d]
    BY <1>1, <1>3
  <2> QED BY <2>1, <2>2, <2>3, <2>4 DEF KindInv, LoneReload, ReadIsCurrent,
                                       RestIsCurrent
<1> QED BY <1>1, <1>2, <1>3 DEF ChangesInv

LEMMA ReadListStep ==
  ASSUME ChangesInv, NEW c \in Call, ReadList(c)
  PROVE  ChangesInv'
<1>1. /\ reload[c] \in Kind
      /\ read' = [read EXCEPT ![c] = items[reload[c]]]
      /\ phase[c] = "sent" /\ phase' = [phase EXCEPT ![c] = "done"]
      /\ UNCHANGED <<items, rows, dialogVars, change, reload, excused, ops>>
  BY DEF ReadList, ChangesInv, ChangesTypeOK
<1>2. /\ phase'[c] = "done" /\ read'[c] = items[reload[c]]
      /\ \A d \in Call \ {c} : phase'[d] = phase[d] /\ read'[d] = read[d]
  BY <1>1 DEF ChangesInv, ChangesTypeOK
<1>3. phase' \in [Call -> Phase] /\ read' \in [Call -> Lists \cup {Nil}]
  BY <1>1 DEF ChangesInv, ChangesTypeOK, Phase
<1>4. ChangesTypeOK'
  BY <1>1, <1>3 DEF ChangesInv, ChangesTypeOK, dialogVars
<1>5. CallsInv'
  BY <1>1, <1>2, ChangesAssumption DEF ChangesInv, CallsInv, ChangesTypeOK
<1>6. ASSUME NEW k \in Kind, k \notin excused'
      PROVE  KindInv(k)'
  <2>1. KindInv(k)
    BY <1>1, <1>6 DEF ChangesInv
  <2>2. Unseen(k) => Unseen(k)'
    BY <1>1, <1>2 DEF Unseen
  <2> QED BY <1>1, <1>2, <2>1, <2>2 DEF KindInv, LoneReload, ReadIsCurrent,
                                       RestIsCurrent
<1> QED BY <1>4, <1>5, <1>6 DEF ChangesInv

(* The rows of a lone reload are the server's, or a change made since then *)
(* is still to be answered.                                                *)
LEMMA RenderStep ==
  ASSUME ChangesInv, NEW c \in Call, NEW k \in Kind, RenderRows(c, k)
  PROVE  ChangesInv'
<1>1. /\ reload[c] = k /\ phase[c] = "done" /\ Release(c)
      /\ rows' = [rows EXCEPT ![k] = read[c]]
      /\ UNCHANGED <<items, dialogVars, excused, ops>>
  BY DEF RenderRows
<1>2. /\ change' \in [Call -> Op \cup {Nil}]
      /\ reload' \in [Call -> Kind \cup {Nil}]
      /\ phase' \in [Call -> Phase] /\ read' \in [Call -> Lists \cup {Nil}]
      /\ CallsInv'
      /\ change'[c] = Nil /\ reload'[c] = Nil /\ phase'[c] = "free"
      /\ \A d \in Call \ {c} :
           /\ change'[d] = change[d] /\ reload'[d] = reload[d]
           /\ phase'[d] = phase[d] /\ read'[d] = read[d]
  BY <1>1, ReleaseStep
<1>3. change[c] = Nil
  BY <1>1, ChangesAssumption DEF ChangesInv, CallsInv
<1>4. ASSUME NEW j \in Kind PROVE Unseen(j) => Unseen(j)'
  BY <1>2, <1>3 DEF Unseen
<1>5. rows'[k] = read[c] /\ \A j \in Kind \ {k} : rows'[j] = rows[j]
  BY <1>1 DEF ChangesInv, ChangesTypeOK
<1>6. rows' \in [Kind -> Lists]
  BY <1>1, ChangesAssumption DEF ChangesInv, ChangesTypeOK, CallsInv
<1>7. ChangesTypeOK'
  BY <1>1, <1>2, <1>6 DEF ChangesInv, ChangesTypeOK, dialogVars
<1>8. ASSUME NEW j \in Kind, j \notin excused'
      PROVE  KindInv(j)'
  <2>1. KindInv(j)
    BY <1>1, <1>8 DEF ChangesInv
  <2>2. CASE j = k
    <3>1. \A d \in Call : reload'[d] # k
      BY <1>1, <1>2, <2>1, <2>2, ChangesAssumption DEF KindInv, LoneReload
    <3>2. read[c] = items[k] \/ Unseen(k)
      BY <1>1, <2>1, <2>2 DEF KindInv, ReadIsCurrent
    <3> QED BY <1>1, <1>4, <1>5, <2>2, <3>1, <3>2
            DEF KindInv, LoneReload, ReadIsCurrent, RestIsCurrent
  <2>3. CASE j # k
    <3>1. \A d \in Call : reload'[d] = j <=> reload[d] = j
      BY <1>1, <1>2, <2>3, ChangesAssumption
    <3>2. \A d \in Call : reload[d] = j => phase'[d] = phase[d] /\ read'[d] = read[d]
      BY <1>1, <1>2, <2>3
    <3> QED BY <1>1, <1>4, <1>5, <2>1, <2>3, <3>1, <3>2
            DEF KindInv, LoneReload, ReadIsCurrent, RestIsCurrent
  <2> QED BY <2>2, <2>3
<1> QED BY <1>2, <1>7, <1>8 DEF ChangesInv

LEMMA ChangesInvStep ==
  ASSUME ChangesInv, [ChangesNext]_changesVars
  PROVE  ChangesInv'
<1>1. ASSUME NEW i \in Id,
             delLink(i) \/ delKey(i) \/ delDomain(i) \/ setDeletionAccess(i)
      PROVE  ChangesInv'
  BY <1>1, AskStep DEF delLink, delKey, delDomain, setDeletionAccess, Kind, State
<1>2. ASSUME NEW i \in Id, createKey(i) \/ createDomain(i) \/ verifyDomain(i)
      PROVE  ChangesInv'
  BY <1>2, SubmitStep DEF createKey, createDomain, verifyDomain, Kind, State
<1>3. ASSUME NEW c \in Call, showMsg(c)
      PROVE  ChangesInv'
  <2>1. /\ Release(c) /\ reload[c] = Nil /\ change[c] \in Op
        /\ UNCHANGED <<items, rows, dialogVars, ops>> /\ excused \subseteq Kind
    BY <1>3 DEF showMsg, ChangesInv, ChangesTypeOK, CallsInv
  <2>2. CASE phase[c] = "refused" /\ UNCHANGED excused
    BY <2>1, <2>2, GiveUpStep, ChangesAssumption
  <2>3. CASE excused' = excused \cup {change[c].kind}
    BY <2>1, <2>3, GiveUpStep, OpFields, ChangesAssumption
  <2> QED BY <1>3, <2>2, <2>3 DEF showMsg
<1>4. ASSUME NEW c \in Call, ListFails(c)
      PROVE  ChangesInv'
  <2>1. /\ Release(c) /\ reload[c] \in Kind /\ change[c] = Nil
        /\ UNCHANGED <<items, rows, dialogVars, ops>> /\ excused \subseteq Kind
        /\ excused' = excused \cup {reload[c]}
    BY <1>4 DEF ListFails, ChangesInv, ChangesTypeOK, CallsInv
  <2> QED BY <2>1, GiveUpStep
<1>5. ASSUME NEW c \in Call, loadKeys(c) \/ loadDomains(c) \/ loadPage(c)
      PROVE  ChangesInv'
  BY <1>5, RenderStep DEF loadKeys, loadDomains, loadPage, Kind
<1>6. CASE UNCHANGED changesVars
  <2>1. ChangesTypeOK'
    BY <1>6 DEF changesVars, dialogVars, callVars, ChangesInv, ChangesTypeOK
  <2> QED BY <1>6, <2>1, QuietStep DEF changesVars, ChangesInv
<1> QED
  BY <1>1, <1>2, <1>3, <1>4, <1>5, <1>6, ConfirmStep, RefreshStep, ServeStep,
     SucceedStep, ReadListStep DEF ChangesNext

LEMMA ChangesInvAlways == ChangesSpec => []ChangesInv
<1>1. ChangesInv /\ [ChangesNext]_changesVars => ChangesInv'
  BY ChangesInvStep
<1> QED BY <1>1, ChangesInvInit, PTL DEF ChangesSpec

-----------------------------------------------------------------------------
(* What follows from it *)

(* Type correctness of the confirmed changes. *)
THEOREM ChangesTypeCorrect == ChangesSpec => []ChangesTypeOK
<1>1. ChangesInv => ChangesTypeOK
  BY DEF ChangesInv
<1> QED BY <1>1, ChangesInvAlways, PTL

(* delLink, createKey, delKey, loadKeys, ...: a list whose requests are    *)
(* answered shows the server's rows, however the answers overtook.         *)
THEOREM SettledRowsCurrent == ChangesSpec => []SettledRowsAreCurrent
<1>1. ChangesInv => SettledRowsAreCurrent
  BY DEF ChangesInv, KindInv, RestIsCurrent, Unseen, Settled,
         SettledRowsAreCurrent
<1> QED BY <1>1, ChangesInvAlways, PTL
=============================================================================
