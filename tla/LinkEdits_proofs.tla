-------------------------- MODULE LinkEdits_proofs --------------------------
(***************************************************************************)
(* Updates of links, for any links, payloads, requests and bounds.         *)
(*                                                                         *)
(* That an expiring link has no permanent code needs no more than the      *)
(* property: the columns written together are those validated together.    *)
(* That an update stores what was typed is a longer story, told by three   *)
(* facts: the dialog shows the link it was opened for, its expiry cut to   *)
(* the minute, with what was typed (EditorFact), a request that nobody     *)
(* overtook carries what was typed or the values of the row (PayloadFact), *)
(* and its handler has read the row as it is (BaseFact).                   *)
(***************************************************************************)
EXTENDS LinkEdits, TLAPS

Step == {"idle", "read", "write", "reread", "audit", "answer"}

(* The functions over requests, and which links a request is about. *)
Shape ==
  /\ pc \in [Request -> Step]
  /\ DOMAIN req = Request /\ DOMAIN base = Request
  /\ DOMAIN outcome = Request /\ DOMAIN typed = Request

-----------------------------------------------------------------------------
(* Codes and expiries *)

LEMMA WrittenRowIsValid ==
  ASSUME NEW r, NEW l,
         Valid(applyLinkPayload(base[r][l], req[r].set)),
         WrittenRow(r, l).expires # Nil
  PROVE  WrittenRow(r, l).code # "permanent"
<1> DEFINE p == req[r].set
           v == applyLinkPayload(base[r][l], p)
           w == WrittenRow(r, l)
<1>1. w.expires = v.expires /\ w.code = v.code
  BY DEF WrittenRow, applyLinkPayload, Field
<1> QED BY <1>1 DEF Valid, Dynamic

LEMMA ExpiringInit == EditsInit => ExpiringIsNotPermanent
BY DEF EditsInit, ExpiringIsNotPermanent, Valid, Dynamic

LEMMA ExpiringStep ==
  ASSUME ExpiringIsNotPermanent, [EditsNext]_editsVars
  PROVE  ExpiringIsNotPermanent'
<1>1. CASE row' = row
  BY <1>1 DEF ExpiringIsNotPermanent
<1>2. ASSUME NEW r \in Request, Update(r), row' # row
      PROVE  ExpiringIsNotPermanent'
  <2>1. /\ \A l \in req[r].links :
             Valid(applyLinkPayload(base[r][l], req[r].set))
        /\ row' = [l \in Link |-> IF l \in req[r].links
                                    THEN WrittenRow(r, l) ELSE row[l]]
    BY <1>2 DEF Update
  <2> SUFFICES ASSUME NEW l \in Link, row'[l].expires # Nil
               PROVE  row'[l].code # "permanent"
    BY DEF ExpiringIsNotPermanent
  <2>2. CASE l \in req[r].links
    BY <2>1, <2>2, WrittenRowIsValid
  <2>3. CASE l \notin req[r].links
    BY <2>1, <2>3 DEF ExpiringIsNotPermanent
  <2> QED BY <2>2, <2>3
<1>3. row' = row \/ \E r \in Request : Update(r)
  BY DEF EditsNext, editsVars, webVars, editLink, DeleteLink, Type, closeEditor,
         refreshLinkCache, saveLink, Patch, Bulk, ReadCurrent, ReadUpdated,
         Audit, Answered
<1> QED BY <1>1, <1>2, <1>3

(* applyLinkPayload, validateLink, UpdateLink: a permanent code excludes   *)
(* an expiry, over every overlap of updates.                               *)
THEOREM ExpiringNeverPermanent == EditsSpec => []ExpiringIsNotPermanent
BY ExpiringInit, ExpiringStep, PTL DEF EditsSpec

-----------------------------------------------------------------------------
(* Shape *)

LEMMA ShapeInit == EditsInit => Shape
BY DEF EditsInit, Shape, Step

LEMMA ShapeStep ==
  ASSUME Shape, [EditsNext]_editsVars
  PROVE  Shape'
<1> USE DEF Shape, Step
<1>1. CASE UNCHANGED <<pc, req, base, outcome, typed>>
  BY <1>1
<1>2. ASSUME NEW r \in Request, saveLink(r)
      PROVE  Shape'
  BY <1>2 DEF saveLink, SendUpdate, Goto
<1>3. ASSUME NEW r \in Request, NEW l \in Link, NEW p \in Patches,
             Patch(r, l, p)
      PROVE  Shape'
  BY <1>3 DEF Patch, SendUpdate, Goto
<1>4. ASSUME NEW r \in Request, NEW p \in Bulks, Bulk(r, p)
      PROVE  Shape'
  BY <1>4 DEF Bulk, SendUpdate, Goto
<1>5. ASSUME NEW r \in Request, ReadCurrent(r)
      PROVE  Shape'
  BY <1>5 DEF ReadCurrent, Finish, Goto
<1>6. ASSUME NEW r \in Request, Update(r)
      PROVE  Shape'
  BY <1>6 DEF Update, Finish, Goto
<1>7. ASSUME NEW r \in Request, ReadUpdated(r) \/ Audit(r)
      PROVE  Shape'
  BY <1>7 DEF ReadUpdated, Audit, Finish, Goto
<1>8. ASSUME NEW r \in Request, Answered(r)
      PROVE  Shape'
  BY <1>8 DEF Answered, Goto
<1>9. \/ UNCHANGED <<pc, req, base, outcome, typed>>
      \/ \E r \in Request :
           \/ saveLink(r) \/ (\E l \in Link, p \in Patches : Patch(r, l, p))
           \/ (\E p \in Bulks : Bulk(r, p))
           \/ ReadCurrent(r) \/ Update(r) \/ ReadUpdated(r) \/ Audit(r)
           \/ Answered(r)
  BY DEF EditsNext, editsVars, webVars, editLink, DeleteLink, Type, closeEditor,
         refreshLinkCache
<1> QED BY <1>1, <1>2, <1>3, <1>4, <1>5, <1>6, <1>7, <1>8, <1>9

-----------------------------------------------------------------------------
(* What an update stores *)

(* A row, as far as the conversion of its expiry goes. *)
IsRow(v) == DOMAIN v = Field /\ v.expires \in Int \cup {Nil}

RowFact ==
  /\ DOMAIN row = Link /\ DOMAIN cached = Link
  /\ \A l \in Link : IsRow(row[l]) /\ IsRow(cached[l])

(* editLink and the controls of the form. *)
EditorFact ==
  editor # Nil =>
    /\ DOMAIN editor = {"link", "from", "values", "password", "typed"}
    /\ editor.link \in Link
    /\ IsRow(editor.from) /\ IsRow(editor.values) /\ DOMAIN editor.typed = Field
    /\ \A f \in {"url", "code"} :
         editor.values[f] = IF editor.typed[f] = Keep THEN editor.from[f]
                                                      ELSE editor.typed[f]
    /\ IF editor.typed.expires = Keep
         THEN editor.values.expires = toDigits(editor.from.expires)
         ELSE editor.typed.expires = toInstant(editor.values.expires)
    /\ editor.typed.term = Keep
    /\ editor.password = editor.typed.password

UnderWay(r) == pc[r] \in {"read", "write"}

RequestFact ==
  \A r \in Request :
    /\ pc[r] = "idle" => r \notin fresh
    /\ UnderWay(r) => /\ req[r].links \subseteq Link
                      /\ req[r].set.expires \in Int \cup {Nil, Keep}
    /\ pc[r] = "write" => \A l \in Link : IsRow(base[r][l])

(* A field of a payload is the edit's, or the row's when it has none, as   *)
(* the dialog shows it.                                                    *)
CarriesField(f, kind, p, edit, v) ==
  IF edit[f] # Keep THEN p[f] = edit[f]
  ELSE \/ p[f] \in {Keep, v[f]}
       \/ f = "expires" /\ kind = "web" /\ CutToMinute(p[f], v[f])
Carries(kind, p, edit, v) ==
  \A f \in Field : CarriesField(f, kind, p, edit, v)

PayloadFact ==
  \A r \in fresh : UnderWay(r) =>
    \A l \in req[r].links : Carries(req[r].kind, req[r].set, typed[r], row[l])

BaseFact ==
  \A r \in fresh : pc[r] = "write" =>
    \A l \in req[r].links : base[r][l] = row[l]

EditInv ==
  Shape /\ fresh \subseteq Request /\ RowFact /\ EditorFact /\ RequestFact
    /\ PayloadFact /\ BaseFact

LEMMA EditInvInit == EditsInit => EditInv
<1> SUFFICES ASSUME EditsInit PROVE EditInv
  OBVIOUS
<1>1. PICK v \in [url : Url, expires : Expiry \cup {Nil}, term : Url,
                  code : Code, password : {FALSE}] :
        row = [l \in Link |-> v]
  BY DEF EditsInit
<1>2. IsRow(v)
  BY EditAssumption DEF IsRow, Field
<1>3. RowFact
  BY <1>1, <1>2 DEF EditsInit, RowFact
<1> QED
  BY <1>3, ShapeInit DEF EditsInit, EditInv, EditorFact, RequestFact, UnderWay,
                         PayloadFact, BaseFact

(* What slice cuts off is less than a minute. *)
LEMMA DigitsOfInstant ==
  ASSUME NEW t \in Int \cup {Nil}
  PROVE  toDigits(t) \in Int \cup {Nil} /\ CutToMinute(toDigits(t), t)
<1>1. Nil \notin Int
  BY EditAssumption
<1>2. CASE t = Nil
  BY <1>2 DEF toDigits, CutToMinute
<1>3. CASE t # Nil
  <2>1. t \in Int /\ t % 60 \in 0..59
    BY <1>3
  <2>2. toDigits(t) = t - (t % 60) /\ toDigits(t) \in Int
    BY <1>3, <2>1 DEF toDigits
  <2>3. toDigits(t) \in (t - 59)..t
    BY <2>1, <2>2
  <2> QED BY <1>1, <1>3, <2>2, <2>3 DEF CutToMinute
<1> QED BY <1>2, <1>3

(* The payload of the dialog, in a time zone without offset. *)
LEMMA FormPayload ==
  ASSUME Offset = 0, EditorFact, editor # Nil
  PROVE  LET p == linkPayloadFromForm(editor) IN
         /\ p.expires \in Int \cup {Nil}
         /\ Carries("web", p, editor.typed, editor.from)
<1> DEFINE p == linkPayloadFromForm(editor)
<1>1. /\ editor.values.expires \in Int \cup {Nil}
      /\ editor.from.expires \in Int \cup {Nil}
  BY DEF EditorFact, IsRow
<1>2. toInstant(editor.values.expires) = editor.values.expires
  <2>1. CASE editor.values.expires = Nil
    BY <2>1 DEF toInstant
  <2>2. CASE editor.values.expires \in Int /\ editor.values.expires # Nil
    BY <2>2 DEF toInstant
  <2> QED BY <1>1, <2>1, <2>2
<1>3. /\ p["expires"] = editor.values["expires"]
      /\ p["password"] = editor.password
      /\ p["url"] = editor.values["url"] /\ p["code"] = editor.values["code"]
      /\ p["term"] = Keep
  BY <1>2 DEF linkPayloadFromForm, Field, FormField
<1> HIDE DEF p
<1>4. Carries("web", p, editor.typed, editor.from)
  <2>1. ASSUME NEW f \in {"url", "code"}
        PROVE  CarriesField(f, "web", p, editor.typed, editor.from)
    BY <1>3, <2>1 DEF EditorFact, CarriesField
  <2>2. ASSUME NEW f \in {"password", "term"}
        PROVE  CarriesField(f, "web", p, editor.typed, editor.from)
    BY <1>3, <2>2 DEF EditorFact, CarriesField
  <2>3. CarriesField("expires", "web", p, editor.typed, editor.from)
    <3>1. CASE editor.typed["expires"] = Keep
      <4>1. p["expires"] = toDigits(editor.from["expires"])
        BY <1>3, <3>1 DEF EditorFact
      <4>2. CutToMinute(p["expires"], editor.from["expires"])
        BY <1>1, <4>1, DigitsOfInstant
      <4> QED BY <3>1, <4>2 DEF CarriesField
    <3>2. CASE editor.typed["expires"] # Keep
      <4>1. p["expires"] = editor.typed["expires"]
        BY <1>2, <1>3, <3>2 DEF EditorFact
      <4> QED BY <3>2, <4>1 DEF CarriesField
    <3> QED BY <3>1, <3>2
  <2> QED BY <2>1, <2>2, <2>3 DEF Carries, Field
<1>5. p.expires \in Int \cup {Nil}
  BY <1>1, <1>3
<1> QED BY <1>4, <1>5 DEF p

(* A step of a handler before or after the write. *)
LEMMA HandlerStep ==
  ASSUME EditInv, Shape', NEW r \in Request,
         UNCHANGED <<row, cached, editor, req, typed>>,
         \A q \in Request \ {r} : pc'[q] = pc[q] /\ base'[q] = base[q],
         pc'[r] \in {"reread", "audit", "answer"}, pc[r] # "idle",
         fresh' = fresh
  PROVE  EditInv'
<1>1. RowFact' /\ EditorFact'
  BY DEF EditInv, RowFact, EditorFact
<1>2. RequestFact'
  BY DEF EditInv, RequestFact, UnderWay
<1>3. PayloadFact'
  BY DEF EditInv, PayloadFact, UnderWay
<1>4. BaseFact'
  BY DEF EditInv, BaseFact
<1> QED BY <1>1, <1>2, <1>3, <1>4 DEF EditInv

(* A new request. *)
LEMMA SendStep ==
  ASSUME EditInv, Shape', NEW r \in Request, NEW kind, NEW ls \in SUBSET Link,
         NEW p, NEW edit, SendUpdate(r, kind, ls, p, edit),
         UNCHANGED <<row, cached, editor, base>>,
         p.expires \in Int \cup {Nil, Keep},
         fresh' \in {fresh, fresh \cup {r}},
         r \in fresh' => \A l \in ls : Carries(kind, p, edit, row[l])
  PROVE  EditInv'
<1>1. /\ pc[r] = "idle" /\ pc'[r] = "read"
      /\ req'[r].links = ls /\ req'[r].set = p /\ req'[r].kind = kind
      /\ typed'[r] = edit
      /\ \A q \in Request \ {r} :
           pc'[q] = pc[q] /\ req'[q] = req[q] /\ typed'[q] = typed[q]
  BY DEF SendUpdate, Goto, EditInv, Shape
<1>2. r \notin fresh
  BY <1>1 DEF EditInv, RequestFact
<1>3. RowFact' /\ EditorFact' /\ fresh' \subseteq Request
  BY DEF EditInv, RowFact, EditorFact
<1>4. RequestFact'
  <2> SUFFICES ASSUME NEW q \in Request
               PROVE  /\ pc'[q] = "idle" => q \notin fresh'
                      /\ UnderWay(q)' =>
                           /\ req'[q].links \subseteq Link
                           /\ req'[q].set.expires \in Int \cup {Nil, Keep}
                      /\ pc'[q] = "write" => \A l \in Link : IsRow(base'[q][l])
    BY DEF RequestFact
  <2>1. CASE q = r
    BY <1>1, <2>1
  <2>2. CASE q # r
    BY <1>1, <2>2 DEF EditInv, RequestFact, UnderWay
  <2> QED BY <2>1, <2>2
<1>5. PayloadFact'
  <2> SUFFICES ASSUME NEW q \in fresh', UnderWay(q)'
               PROVE  \A l \in req'[q].links :
                        Carries(req'[q].kind, req'[q].set, typed'[q], row'[l])
    BY DEF PayloadFact
  <2>1. CASE q = r
    BY <1>1, <2>1
  <2>2. CASE q # r
    BY <1>1, <1>3, <2>2 DEF EditInv, PayloadFact, UnderWay
  <2> QED BY <2>1, <2>2
<1>6. BaseFact'
  BY <1>1, <1>3 DEF EditInv, BaseFact
<1> QED BY <1>3, <1>4, <1>5, <1>6 DEF EditInv

(* A field of the row after the update of a request, as the edit has it. *)
FieldStored(r, l, f, new) ==
  IF typed[r][f] # Keep THEN new = typed[r][f]
  ELSE \/ new = row[l][f]
       \/ f = "expires" /\ req[r].kind = "web" /\ CutToMinute(new, row[l][f])

(* What Update writes for its own request, when nobody overtook it. *)
LEMMA FreshWrite ==
  ASSUME EditInv, NEW r \in fresh, pc[r] = "write",
         NEW l \in req[r].links, NEW f \in Field
  PROVE  FieldStored(r, l, f, WrittenRow(r, l)[f])
<1> DEFINE p == req[r].set
<1>1. base[r][l] = row[l]
  BY DEF EditInv, BaseFact
<1>2. CarriesField(f, req[r].kind, p, typed[r], row[l])
  BY DEF EditInv, PayloadFact, UnderWay, Carries
<1>3. WrittenRow(r, l)[f] = IF p[f] = Keep THEN row[l][f] ELSE p[f]
  BY <1>1 DEF WrittenRow, applyLinkPayload, Field
<1> QED BY <1>2, <1>3 DEF CarriesField, FieldStored

LEMMA UpdateStep ==
  ASSUME EditInv, Shape', NEW r \in Request, Update(r)
  PROVE  EditInv'
<1> DEFINE ls == req[r].links
<1>1. CASE UNCHANGED <<row, fresh>>
  <2>1. /\ pc[r] = "write" /\ pc'[r] \in {"reread", "answer"}
        /\ \A q \in Request \ {r} : pc'[q] = pc[q]
        /\ UNCHANGED <<cached, editor, req, typed, base>>
    BY <1>1 DEF Update, Finish, Goto, webVars, EditInv, Shape
  <2> QED BY <1>1, <2>1, HandlerStep
<1>2. CASE ~UNCHANGED <<row, fresh>>
  <2>1. /\ row' = [l \in Link |-> IF l \in ls THEN WrittenRow(r, l) ELSE row[l]]
        /\ fresh' = {q \in fresh : q = r \/ pc[q] \in {"idle", "answer"}
                                       \/ req[q].links \cap ls = {}}
        /\ pc[r] = "write" /\ pc' = [pc EXCEPT ![r] = "reread"]
        /\ UNCHANGED <<cached, editor, req, typed, base>>
    BY <1>2 DEF Update, Goto, webVars
  <2>2. pc'[r] = "reread" /\ \A q \in Request \ {r} : pc'[q] = pc[q]
    BY <2>1 DEF EditInv, Shape
  <2>3. ls \subseteq Link /\ req[r].set.expires \in Int \cup {Nil, Keep}
    BY <2>1 DEF EditInv, RequestFact, UnderWay
  <2>4. ASSUME NEW l \in ls PROVE IsRow(WrittenRow(r, l))
    <3>1. IsRow(base[r][l])
      BY <2>1, <2>3 DEF EditInv, RequestFact
    <3>2. /\ DOMAIN WrittenRow(r, l) = Field
          /\ WrittenRow(r, l).expires \in {base[r][l].expires,
                                           req[r].set.expires} \ {Keep}
      BY <2>3, <3>1, EditAssumption
      DEF WrittenRow, applyLinkPayload, IsRow, Field
    <3> QED BY <2>3, <3>1, <3>2, EditAssumption DEF IsRow
  <2>5. RowFact'
    BY <2>1, <2>4 DEF EditInv, RowFact
  <2>6. EditorFact' /\ fresh' \subseteq Request
    BY <2>1 DEF EditInv, EditorFact
  <2>7. RequestFact'
    BY <2>1, <2>2 DEF EditInv, RequestFact, UnderWay
  <2>8. ASSUME NEW q \in fresh', UnderWay(q)', NEW l \in req[q].links
        PROVE  q # r /\ q \in fresh /\ UnderWay(q) /\ row'[l] = row[l]
    <3>1. q # r /\ q \in fresh /\ q \in Request
      BY <2>1, <2>2, <2>8 DEF UnderWay, EditInv
    <3>2. UnderWay(q)
      BY <2>2, <2>8, <3>1 DEF UnderWay
    <3>3. l \notin ls
      BY <2>1, <2>8, <3>1, <3>2 DEF UnderWay
    <3>4. l \in Link
      BY <2>8, <3>1, <3>2 DEF EditInv, RequestFact
    <3> QED BY <2>1, <3>1, <3>2, <3>3, <3>4
  <2>9. PayloadFact'
    BY <2>1, <2>8 DEF EditInv, PayloadFact
  <2>10. BaseFact'
    <3> SUFFICES ASSUME NEW q \in fresh', pc'[q] = "write",
                        NEW l \in req'[q].links
                 PROVE  base'[q][l] = row'[l]
      BY DEF BaseFact
    <3>1. UnderWay(q)'
      BY DEF UnderWay
    <3>2. q # r /\ q \in fresh /\ q \in Request /\ row'[l] = row[l]
      BY <2>1, <2>8, <3>1 DEF EditInv
    <3> QED BY <2>1, <2>2, <3>2 DEF EditInv, BaseFact
  <2> QED BY <2>5, <2>6, <2>7, <2>9, <2>10 DEF EditInv
<1> QED BY <1>1, <1>2

LEMMA EditInvStep ==
  ASSUME Offset = 0, EditInv, [EditsNext]_editsVars
  PROVE  EditInv'
<1>0. Shape'
  BY ShapeStep DEF EditInv
<1>1. ASSUME UNCHANGED <<row, cached, pc, req, base, typed, fresh>>, EditorFact'
      PROVE  EditInv'
  BY <1>0, <1>1 DEF EditInv, RowFact, RequestFact, UnderWay, PayloadFact, BaseFact
<1>2. ASSUME NEW l \in Link, editLink(l)
      PROVE  EditInv'
  <2>1. /\ IsRow(cached[l])
        /\ editor' = [link |-> l, from |-> cached[l],
                      values |-> [cached[l] EXCEPT !.expires = toDigits(@)],
                      password |-> Keep, typed |-> Unchanged]
        /\ UNCHANGED <<row, cached, pc, req, base, typed, fresh>>
    BY <1>2 DEF editLink, EditInv, RowFact
  <2>2. toDigits(cached[l].expires) \in Int \cup {Nil}
    BY <2>1, DigitsOfInstant DEF IsRow
  <2>3. EditorFact'
    BY <2>1, <2>2 DEF EditorFact, Unchanged, Field, IsRow
  <2> QED BY <1>1, <2>1, <2>3
<1>3. ASSUME NEW f, NEW v, Type(f, v), v # Keep,
             \/ f = "expires" /\ v \in Int \cup {Nil}
             \/ f \in {"url", "code", "password"}
      PROVE  EditInv'
  <2>1. UNCHANGED <<row, cached, pc, req, base, typed, fresh>> /\ editor # Nil
    BY <1>3 DEF Type
  <2>2. EditorFact'
    <3>1. CASE f = "password"
      <4>1. editor' = [editor EXCEPT !.password = v, !.typed[f] = v]
        BY <1>3, <3>1 DEF Type
      <4> QED BY <2>1, <3>1, <4>1 DEF EditInv, EditorFact, IsRow, FormField, Field
    <3>2. CASE f # "password"
      <4>1. editor' = [editor EXCEPT !.values[f] = v, !.typed[f] = Meant(f, v)]
        BY <1>3, <3>2 DEF Type
      <4>2. Meant(f, v) = IF f = "expires" THEN toInstant(v) ELSE v
        BY DEF Meant
      <4>3. f = "expires" => toInstant(v) # Keep
        BY <1>3, EditAssumption DEF toInstant
      <4>4. CASE f = "expires"
        BY <1>3, <2>1, <4>1, <4>2, <4>3, <4>4 DEF EditInv, EditorFact, IsRow, Field
      <4>5. CASE f \in {"url", "code"}
        BY <1>3, <2>1, <4>1, <4>2, <4>5 DEF EditInv, EditorFact, IsRow, Field
      <4> QED BY <1>3, <3>2, <4>4, <4>5
    <3> QED BY <3>1, <3>2
  <2> QED BY <1>1, <2>1, <2>2
<1>4. CASE closeEditor
  BY <1>1, <1>4 DEF closeEditor, EditorFact
<1>5. CASE refreshLinkCache
  <2>1. UNCHANGED <<row, editor, pc, req, base, typed, fresh>> /\ cached' = row
    BY <1>5 DEF refreshLinkCache
  <2> QED
    BY <1>0, <2>1 DEF EditInv, RowFact, EditorFact, RequestFact, UnderWay,
                      PayloadFact, BaseFact
<1>6. ASSUME NEW l \in Link, DeleteLink(l)
      PROVE  EditInv'
  BY <1>1, <1>6 DEF DeleteLink, webVars, EditInv, EditorFact
<1>7. ASSUME NEW r \in Request, saveLink(r)
      PROVE  EditInv'
  <2> DEFINE p == linkPayloadFromForm(editor)
  <2>1. /\ editor # Nil /\ editor.link \in Link
        /\ SendUpdate(r, "web", {editor.link}, p, editor.typed)
        /\ fresh' = IF editor.from = row[editor.link]
                      THEN fresh \cup {r} ELSE fresh
        /\ UNCHANGED <<row, cached, editor, base>>
    BY <1>7 DEF saveLink, webVars, EditInv, EditorFact
  <2>2. /\ p.expires \in Int \cup {Nil}
        /\ Carries("web", p, editor.typed, editor.from)
    BY <2>1, FormPayload DEF EditInv
  <2>3. r \notin fresh
    BY <2>1 DEF SendUpdate, EditInv, RequestFact
  <2>4. r \in fresh' => \A l \in {editor.link} : Carries("web", p, editor.typed, row[l])
    BY <2>1, <2>2, <2>3
  <2>5. fresh' \in {fresh, fresh \cup {r}}
    BY <2>1
  <2> QED BY <1>0, <2>1, <2>2, <2>4, <2>5, SendStep
<1>8. ASSUME NEW r \in Request, NEW kind, NEW ls \in SUBSET Link,
             NEW p \in Patches \cup Bulks, SendUpdate(r, kind, ls, p, p),
             fresh' = fresh \cup {r}, UNCHANGED <<row, cached, editor, base>>
      PROVE  EditInv'
  <2>1. p.expires \in Int \cup {Nil, Keep} /\ \A v : Carries(kind, p, p, v)
    BY EditAssumption DEF Carries, CarriesField, Payload
  <2> QED BY <1>0, <1>8, <2>1, SendStep
<1>9. ASSUME NEW r \in Request, NEW l \in Link, NEW p \in Patches,
             Patch(r, l, p)
      PROVE  EditInv'
  BY <1>8, <1>9 DEF Patch, webVars
<1>10. ASSUME NEW r \in Request, NEW p \in Bulks, Bulk(r, p)
       PROVE  EditInv'
  BY <1>8, <1>10 DEF Bulk, webVars
<1>11. ASSUME NEW r \in Request, ReadCurrent(r)
       PROVE  EditInv'
  <2>1. /\ pc[r] = "read" /\ UNCHANGED <<row, cached, editor, req, typed, fresh>>
        /\ \A q \in Request \ {r} : pc'[q] = pc[q] /\ base'[q] = base[q]
    BY <1>11 DEF ReadCurrent, Finish, Goto, webVars, EditInv, Shape
  <2>2. CASE req[r].links \subseteq live
    <3>1. pc'[r] = "write" /\ base'[r] = row
      BY <1>11, <2>2 DEF ReadCurrent, Goto, EditInv, Shape
    <3>2. RowFact' /\ EditorFact'
      BY <2>1 DEF EditInv, RowFact, EditorFact
    <3>3. RequestFact'
      BY <2>1, <3>1 DEF EditInv, RequestFact, UnderWay, RowFact
    <3>4. PayloadFact'
      BY <2>1, <3>1 DEF EditInv, PayloadFact, UnderWay
    <3>5. BaseFact'
      BY <2>1, <3>1 DEF EditInv, BaseFact
    <3> QED BY <1>0, <2>1, <3>2, <3>3, <3>4, <3>5 DEF EditInv
  <2>3. CASE ~(req[r].links \subseteq live)
    <3>1. pc'[r] = "answer"
      BY <1>11, <2>3 DEF ReadCurrent, Finish, Goto, EditInv, Shape
    <3> QED BY <1>0, <2>1, <3>1, HandlerStep
  <2> QED BY <2>2, <2>3
<1>12. ASSUME NEW r \in Request, Update(r)
       PROVE  EditInv'
  BY <1>0, <1>12, UpdateStep
<1>13. ASSUME NEW r \in Request, ReadUpdated(r) \/ Audit(r)
       PROVE  EditInv'
  <2>1. /\ pc[r] \in {"reread", "audit"} /\ pc'[r] \in {"audit", "answer"}
        /\ \A q \in Request \ {r} : pc'[q] = pc[q]
        /\ UNCHANGED <<row, cached, editor, req, typed, base, fresh>>
    BY <1>13 DEF ReadUpdated, Audit, Finish, Goto, webVars, EditInv, Shape
  <2> QED BY <1>0, <2>1, HandlerStep
<1>14. ASSUME NEW r \in Request, Answered(r)
       PROVE  EditInv'
  <2>1. /\ pc'[r] = "idle" /\ fresh' = fresh \ {r}
        /\ row' = row /\ cached' \in {cached, row} /\ editor' \in {editor, Nil}
        /\ \A q \in Request \ {r} :
             /\ pc'[q] = pc[q] /\ req'[q] = req[q]
             /\ base'[q] = base[q] /\ typed'[q] = typed[q]
    BY <1>14 DEF Answered, Goto, EditInv, Shape
  <2>2. RowFact' /\ fresh' \subseteq Request
    BY <2>1 DEF EditInv, RowFact
  <2>3. EditorFact'
    BY <2>1 DEF EditInv, EditorFact
  <2>4. RequestFact'
    BY <2>1 DEF EditInv, RequestFact, UnderWay
  <2>5. PayloadFact' /\ BaseFact'
    BY <2>1 DEF EditInv, PayloadFact, BaseFact, UnderWay
  <2> QED BY <1>0, <2>2, <2>3, <2>4, <2>5 DEF EditInv
<1>15. CASE UNCHANGED editsVars
  BY <1>1, <1>15 DEF editsVars, webVars, EditInv, EditorFact
<1>16. /\ \A u \in Url : u # Keep
       /\ \A t \in Typeable \cup {Nil} : t # Keep /\ t \in Int \cup {Nil}
       /\ \A c \in Code : c # Keep
       /\ \A b \in BOOLEAN : b # Keep
  BY EditAssumption
<1>17. ASSUME \/ \E u \in Url : Type("url", u)
              \/ \E t \in Typeable \cup {Nil} : Type("expires", t)
              \/ \E c \in Code : Type("code", c)
              \/ \E b \in BOOLEAN : Type("password", b)
       PROVE  EditInv'
  BY <1>3, <1>16, <1>17
<1> QED
  BY <1>2, <1>4, <1>5, <1>6, <1>7, <1>9, <1>10, <1>11, <1>12, <1>13, <1>14,
     <1>15, <1>17
  DEF EditsNext

(* Only the step that writes commits an update. *)
LEMMA FreshStep ==
  ASSUME EditInv, [EditsNext]_editsVars, NEW r \in fresh, Commits(r)
  PROVE  StoresTheEditToTheMinute(r)
<1>1. r \in Request /\ pc[r] = "write" /\ pc'[r] = "reread"
  BY DEF Commits, EditInv
<1>2. Update(r)
  <2>1. pc' # pc
    BY <1>1
  <2>2. ASSUME NEW q \in Request, NEW step, pc' = [pc EXCEPT ![q] = step]
        PROVE  q = r /\ step = "reread" /\ pc[q] = "write"
    BY <1>1, <2>2 DEF EditInv, Shape
  <2>3. ASSUME NEW q \in Request, NEW kind, NEW ls, NEW p, NEW edit,
               SendUpdate(q, kind, ls, p, edit)
        PROVE  FALSE
    BY <2>2, <2>3 DEF SendUpdate, Goto
  <2>4. ASSUME NEW q \in Request, ReadCurrent(q) \/ ReadUpdated(q) \/ Audit(q)
                                 \/ Answered(q)
        PROVE  FALSE
    BY <2>2, <2>4 DEF ReadCurrent, ReadUpdated, Audit, Answered, Finish, Goto
  <2>5. ASSUME NEW q \in Request, Update(q)
        PROVE  q = r
    BY <2>2, <2>5 DEF Update, Finish, Goto
  <2> QED
    BY <2>1, <2>3, <2>4, <2>5
    DEF EditsNext, editsVars, webVars, editLink, DeleteLink, Type, closeEditor,
        refreshLinkCache, saveLink, Patch, Bulk
<1>3. row' = [l \in Link |-> IF l \in req[r].links THEN WrittenRow(r, l)
                                                   ELSE row[l]]
  BY <1>1, <1>2 DEF Update, Finish, Goto, EditInv, Shape
<1>4. req[r].links \subseteq Link
  BY <1>1 DEF EditInv, RequestFact, UnderWay
<1> QED BY <1>1, <1>3, <1>4, FreshWrite DEF StoresTheEditToTheMinute, FieldStored

(* editLink, linkPayloadFromForm, applyLinkPayload, UpdateLink: in a time  *)
(* zone without offset, an update of links that nobody else wrote stores   *)
(* the fields that were typed or sent, and changes no other but, from the  *)
(* dialog, an expiry, to the start of its minute.                          *)
THEOREM FreshUpdatesStore ==
  ASSUME Offset = 0
  PROVE  EditsSpec => FreshUpdatesStoreTheEdit
<1>1. EditInv /\ [EditsNext]_editsVars => EditInv'
  BY EditInvStep
<1>2. EditInv /\ [EditsNext]_editsVars
        => [\A r \in fresh : Commits(r) => StoresTheEditToTheMinute(r)]_editsVars
  BY FreshStep
<1> QED
  BY <1>1, <1>2, EditInvInit, PTL DEF EditsSpec, FreshUpdatesStoreTheEdit

-----------------------------------------------------------------------------
(* Types *)

Dialog ==
  [link : Link, from : Values, values : Values,
   password : BOOLEAN \cup {Keep}, typed : Payload]

RowTypes ==
  /\ row \in [Link -> Values] /\ cached \in [Link -> Values]
  /\ live \subseteq Link

EditorType == editor = Nil \/ editor \in Dialog

RequestTypes ==
  /\ pc \in [Request -> Step]
  /\ req \in [Request -> Sent \cup {Nil}]
  /\ base \in [Request -> [Link -> Values] \cup {Nil}]
  /\ outcome \in [Request -> Outcome \cup {Nil}]
  /\ typed \in [Request -> Payload]
  /\ fresh \subseteq Request
  /\ \A r \in Request :
       /\ pc[r] \in {"write", "reread", "audit"} => base[r] \in [Link -> Values]
       /\ pc[r] = "idle" <=> req[r] = Nil
       /\ pc[r] = "answer" <=> outcome[r] # Nil

EditTypes == RowTypes /\ EditorType /\ RequestTypes

LEMMA TypesSuffice == EditTypes => EditsTypeOK
BY DEF EditTypes, RowTypes, EditorType, RequestTypes, EditsTypeOK, Step, Dialog,
       Payload, Field

LEMMA EditTypesInit == EditsInit => EditTypes
<1> SUFFICES ASSUME EditsInit PROVE EditTypes
  OBVIOUS
<1>1. PICK v \in [url : Url, expires : Expiry \cup {Nil}, term : Url,
                  code : Code, password : {FALSE}] :
        row = [l \in Link |-> v]
  BY DEF EditsInit
<1>2. v \in Values
  BY EditAssumption DEF Values
<1>3. RowTypes
  BY <1>1, <1>2 DEF EditsInit, RowTypes
<1>4. Unchanged \in Payload
  BY DEF Unchanged, Payload, Field
<1> QED
  BY <1>3, <1>4 DEF EditsInit, EditTypes, EditorType, RequestTypes, Step

LEMMA MergedIsValues ==
  ASSUME NEW v \in Values, NEW p \in Payload
  PROVE  applyLinkPayload(v, p) \in Values
BY DEF applyLinkPayload, Values, Payload, Field

LEMMA FormPayloadType ==
  ASSUME editor \in Dialog
  PROVE  linkPayloadFromForm(editor) \in Payload
<1>1. editor.values \in Values /\ editor.password \in BOOLEAN \cup {Keep}
  BY DEF Dialog
<1>2. toInstant(editor.values.expires) \in Int \cup {Nil}
  BY <1>1, EditAssumption DEF toInstant, Values
<1> QED BY <1>1, <1>2 DEF linkPayloadFromForm, Payload, Field, FormField, Values

(* A request is sent. *)
LEMMA SendTypes ==
  ASSUME EditTypes, NEW r \in Request, NEW kind \in {"web", "patch", "bulk"},
         NEW ls \in SUBSET Link, NEW p \in Payload, NEW edit \in Payload,
         SendUpdate(r, kind, ls, p, edit), fresh' \subseteq Request,
         UNCHANGED <<row, live, webVars, base, outcome>>
  PROVE  EditTypes'
<1>1. [kind |-> kind, links |-> ls, set |-> p] \in Sent
  BY DEF Sent
<1>2. RowTypes' /\ EditorType'
  BY DEF EditTypes, RowTypes, EditorType, webVars
<1>3. RequestTypes'
  BY <1>1, EditAssumption DEF EditTypes, RequestTypes, SendUpdate, Goto, Step
<1> QED BY <1>2, <1>3 DEF EditTypes

(* A handler has its answer. *)
LEMMA FinishTypes ==
  ASSUME EditTypes, NEW r \in Request, pc[r] # "idle",
         NEW answer \in Outcome, Finish(r, answer),
         UNCHANGED <<base, req, typed, fresh>>
  PROVE  RequestTypes'
BY EditAssumption DEF EditTypes, RequestTypes, Finish, Goto, Step

(* A handler goes on to its next step. *)
LEMMA GotoTypes ==
  ASSUME EditTypes, NEW r \in Request, pc[r] \notin {"idle", "answer"},
         NEW step \in {"reread", "audit"}, Goto(r, step),
         pc[r] \in {"write", "reread", "audit"},
         UNCHANGED <<base, req, typed, outcome>>, fresh' \subseteq fresh
  PROVE  RequestTypes'
BY DEF EditTypes, RequestTypes, Goto, Step

LEMMA UpdateTypes ==
  ASSUME EditTypes, NEW r \in Request, Update(r)
  PROVE  EditTypes'
<1> USE DEF EditTypes
<1>1. pc[r] = "write" /\ UNCHANGED <<live, cached, editor, req, base, typed>>
  BY DEF Update, webVars
<1>2. EditorType'
  BY <1>1 DEF EditorType
<1>3. CASE Goto(r, "reread") /\ UNCHANGED outcome /\ fresh' \subseteq fresh
           /\ row' = [l \in Link |->
                        IF l \in req[r].links THEN WrittenRow(r, l) ELSE row[l]]
  <2>1. base[r] \in [Link -> Values] /\ req[r].set \in Payload
    BY <1>1, EditAssumption DEF RequestTypes, Sent
  <2>2. ASSUME NEW l \in Link
        PROVE  WrittenRow(r, l) \in Values
    <3>1. applyLinkPayload(base[r][l], req[r].set) \in Values
      BY <2>1, MergedIsValues
    <3>2. /\ row[l].password \in BOOLEAN
          /\ req[r].set.password \in BOOLEAN \cup {Keep}
      BY <2>1 DEF RowTypes, Values, Payload
    <3> QED BY <3>1, <3>2 DEF WrittenRow, Values
  <2>3. RowTypes'
    BY <1>1, <1>3, <2>2 DEF RowTypes
  <2>4. RequestTypes'
    BY <1>1, <1>3, GotoTypes
  <2> QED BY <1>2, <2>3, <2>4
<1>4. CASE Finish(r, "failed") /\ UNCHANGED <<row, fresh>>
  <2>1. RequestTypes'
    BY <1>1, <1>4, FinishTypes DEF Outcome
  <2> QED BY <1>1, <1>2, <1>4, <2>1 DEF RowTypes
<1>5. \/ /\ Goto(r, "reread") /\ UNCHANGED outcome /\ fresh' \subseteq fresh
         /\ row' = [l \in Link |->
                      IF l \in req[r].links THEN WrittenRow(r, l) ELSE row[l]]
      \/ Finish(r, "failed") /\ UNCHANGED <<row, fresh>>
  BY DEF Update
<1> QED BY <1>3, <1>4, <1>5

LEMMA EditTypesStep ==
  ASSUME EditTypes, [EditsNext]_editsVars
  PROVE  EditTypes'
<1> USE DEF EditTypes
<1>1. ASSUME UNCHANGED <<row, cached, pc, req, base, outcome, typed, fresh>>,
             live' \subseteq live, EditorType'
      PROVE  EditTypes'
  BY <1>1 DEF RowTypes, RequestTypes
<1>2. ASSUME NEW l \in Link, editLink(l)
      PROVE  EditTypes'
  <2>1. cached[l] \in Values /\ Unchanged \in Payload
    BY DEF RowTypes, Unchanged, Payload, Field
  <2>2. [cached[l] EXCEPT !.expires = toDigits(@)] \in Values
    BY <2>1, DigitsOfInstant DEF Values
  <2>3. EditorType'
    BY <1>2, <2>1, <2>2 DEF editLink, EditorType, Dialog
  <2> QED BY <1>1, <1>2, <2>3 DEF editLink
<1>3. ASSUME NEW f, NEW v, Type(f, v),
             \/ f = "url" /\ v \in Url
             \/ f = "expires" /\ v \in Int \cup {Nil}
             \/ f = "code" /\ v \in Code
             \/ f = "password" /\ v \in BOOLEAN
      PROVE  EditTypes'
  <2>1. editor \in Dialog
    BY <1>3 DEF Type, EditorType
  <2>2. /\ editor.values \in Values /\ editor.typed \in Payload
        /\ [editor.typed EXCEPT ![f] = Meant(f, v)] \in Payload
    <3>1. f = "expires" => Meant(f, v) \in Int \cup {Nil}
      BY <1>3, EditAssumption DEF Meant, toInstant
    <3>2. f # "expires" => Meant(f, v) = v
      BY DEF Meant
    <3>3. editor.values \in Values /\ editor.typed \in Payload
      BY <2>1 DEF Dialog
    <3> QED BY <1>3, <3>1, <3>2, <3>3 DEF Payload
  <2>3. CASE f = "password"
    <3>1. editor' = [editor EXCEPT !.password = v, !.typed[f] = Meant(f, v)]
      BY <1>3, <2>3 DEF Type, Meant
    <3> QED BY <1>1, <1>3, <2>1, <2>2, <2>3, <3>1 DEF Type, EditorType, Dialog
  <2>4. CASE f # "password"
    <3>1. editor' = [editor EXCEPT !.values[f] = v, !.typed[f] = Meant(f, v)]
      BY <1>3, <2>4 DEF Type
    <3>2. [editor.values EXCEPT ![f] = v] \in Values
      BY <1>3, <2>2, <2>4 DEF Values
    <3>3. EditorType'
      BY <2>1, <2>2, <3>1, <3>2 DEF EditorType, Dialog
    <3> QED BY <1>1, <1>3, <3>3 DEF Type
  <2> QED BY <2>3, <2>4
<1>4. CASE closeEditor
  BY <1>1, <1>4 DEF closeEditor, EditorType
<1>5. CASE refreshLinkCache
  BY <1>5 DEF refreshLinkCache, RowTypes, EditorType, RequestTypes
<1>6. ASSUME NEW l \in Link, DeleteLink(l)
      PROVE  EditTypes'
  BY <1>1, <1>6 DEF DeleteLink, webVars, EditorType
<1>7. ASSUME NEW r \in Request, saveLink(r)
      PROVE  EditTypes'
  <2>1. /\ editor \in Dialog /\ editor.link \in Link /\ editor.typed \in Payload
        /\ linkPayloadFromForm(editor) \in Payload
    BY <1>7, FormPayloadType DEF saveLink, EditorType, Dialog
  <2>2. fresh' \subseteq Request
    BY <1>7 DEF saveLink, RequestTypes
  <2> QED BY <1>7, <2>1, <2>2, SendTypes DEF saveLink
<1>8. ASSUME NEW r \in Request, NEW kind \in {"patch", "bulk"},
             NEW ls \in SUBSET Link, NEW p \in Patches \cup Bulks,
             SendUpdate(r, kind, ls, p, p), fresh' = fresh \cup {r},
             UNCHANGED <<row, live, webVars, base, outcome>>
      PROVE  EditTypes'
  <2>1. p \in Payload /\ fresh' \subseteq Request
    BY <1>8, EditAssumption DEF RequestTypes
  <2> QED BY <1>8, <2>1, SendTypes
<1>9. ASSUME NEW r \in Request, NEW l \in Link, NEW p \in Patches,
             Patch(r, l, p)
      PROVE  EditTypes'
  BY <1>8, <1>9 DEF Patch
<1>10. ASSUME NEW r \in Request, NEW p \in Bulks, Bulk(r, p)
       PROVE  EditTypes'
  BY <1>8, <1>10 DEF Bulk
<1>11. ASSUME NEW r \in Request, ReadCurrent(r)
       PROVE  EditTypes'
  <2>1. /\ pc[r] = "read"
        /\ UNCHANGED <<row, live, cached, editor, req, typed, fresh>>
    BY <1>11 DEF ReadCurrent, webVars
  <2>2. CASE Finish(r, "failed") /\ UNCHANGED base
    <3>1. RequestTypes'
      BY <2>1, <2>2, FinishTypes DEF Outcome
    <3> QED BY <2>1, <3>1 DEF RowTypes, EditorType
  <2>3. CASE /\ base' = [base EXCEPT ![r] = row]
             /\ Goto(r, "write") /\ UNCHANGED outcome
    BY <2>1, <2>3 DEF RowTypes, EditorType, RequestTypes, Goto, Step
  <2> QED BY <1>11, <2>2, <2>3 DEF ReadCurrent
<1>12. ASSUME NEW r \in Request, ReadUpdated(r)
       PROVE  EditTypes'
  <2>1. /\ pc[r] = "reread"
        /\ UNCHANGED <<row, live, cached, editor, req, base, typed, fresh>>
    BY <1>12 DEF ReadUpdated, webVars
  <2>2. RequestTypes'
    BY <1>12, <2>1, FinishTypes, GotoTypes DEF ReadUpdated, Outcome
  <2> QED BY <2>1, <2>2 DEF RowTypes, EditorType
<1>13. ASSUME NEW r \in Request, Audit(r)
       PROVE  EditTypes'
  <2>1. /\ pc[r] = "audit"
        /\ UNCHANGED <<row, live, cached, editor, req, base, typed, fresh>>
    BY <1>13 DEF Audit, webVars
  <2>2. PICK recorded \in BOOLEAN :
          Finish(r, IF recorded THEN "ok" ELSE "failed")
    BY <1>13 DEF Audit
  <2>3. RequestTypes'
    BY <2>1, <2>2, FinishTypes DEF Outcome
  <2> QED BY <2>1, <2>3 DEF RowTypes, EditorType
<1>14. ASSUME NEW r \in Request, Answered(r)
       PROVE  EditTypes'
  <2>1. Unchanged \in Payload
    BY DEF Unchanged, Payload, Field
  <2>2. RowTypes' /\ EditorType'
    BY <1>14 DEF Answered, RowTypes, EditorType
  <2>3. RequestTypes'
    BY <1>14, <2>1 DEF Answered, Goto, RequestTypes, Step
  <2> QED BY <2>2, <2>3
<1>15. CASE UNCHANGED editsVars
  BY <1>1, <1>15 DEF editsVars, webVars, EditorType
<1>16. ASSUME \/ \E u \in Url : Type("url", u)
              \/ \E t \in Typeable \cup {Nil} : Type("expires", t)
              \/ \E c \in Code : Type("code", c)
              \/ \E b \in BOOLEAN : Type("password", b)
       PROVE  EditTypes'
  BY <1>3, <1>16, EditAssumption
<1> QED
  BY <1>2, <1>4, <1>5, <1>6, <1>7, <1>9, <1>10, <1>11, <1>12, <1>13, <1>14,
     <1>15, <1>16, UpdateTypes DEF EditsNext

(* A request's handler has read the rows it merges its payload into, and   *)
(* answers once: linkPayload, applyLinkPayload, UpdateLink.                *)
THEOREM EditsTypeCorrect == EditsSpec => []EditsTypeOK
<1>1. EditTypes /\ [EditsNext]_editsVars => EditTypes'
  BY EditTypesStep
<1> QED BY <1>1, TypesSuffice, EditTypesInit, PTL DEF EditsSpec
=============================================================================
