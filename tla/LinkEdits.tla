----------------------------- MODULE LinkEdits -----------------------------
(***************************************************************************)
(* Editing links: the edit dialog of the web client, partial updates over  *)
(* the API, and the handlers that read a link, merge the payload into what *)
(* they read, and write the whole row.                                     *)
(*                                                                         *)
(*   web   linkCache -> form -> payload of every field of the form -> PATCH *)
(*   PATCH read -> merge, validate -> write the row -> read it again       *)
(*   bulk  the same for several links, written in one transaction          *)
(*                                                                         *)
(* Five fields stand for the row: url and code are in every form, term     *)
(* (utm_term, utm_content) is in none, expires_at is converted between the *)
(* form and the row, and the password column is written only when the      *)
(* payload has a password.  Instants are counted in seconds: the form has  *)
(* minutes, and API clients may set any second.                            *)
(***************************************************************************)
EXTENDS WebPage, Integers, FiniteSets

CONSTANTS
  Link,         \* links
  Url,          \* destinations
  Expiry,       \* instants links expire at in the beginning
  Typeable,     \* local times the user may type as expiry, whole minutes
  Offset,       \* seconds the browser's time zone is ahead of UTC
  Request,      \* requests that can be under way
  Patches,      \* payloads API clients send
  Bulks,        \* payloads of bulk updates
  MaxRequests,  \* bound on the requests
  MaxTyped,     \* bound on the values typed into forms
  Keep          \* the payload does not have the field

Field == {"url", "expires", "term", "code", "password"}
Code == {"temporary", "permanent"}
FormField == {"url", "expires", "code"}

(* What a request may set, what it is, and what its answer says. *)
Payload ==
  [url : Url \cup {Keep}, expires : Int \cup {Nil, Keep}, term : Url \cup {Keep},
   code : Code \cup {Keep}, password : BOOLEAN \cup {Keep}]
Sent ==
  [kind : {"web", "patch", "bulk"}, links : SUBSET Link, set : Payload]
Outcome == {"ok", "failed"}

ASSUME EditAssumption ==
  /\ IsFiniteSet(Link) /\ Url # {}
  /\ Expiry \subseteq Int /\ Offset \in Int
  /\ \A t \in Typeable : t \in Int /\ t % 60 = 0
  /\ MaxRequests \in Nat /\ MaxTyped \in Nat
  /\ Keep \notin Int \cup {Nil} \cup Url \cup Code \cup BOOLEAN
  /\ Nil \notin Int \cup Sent \cup Outcome
  /\ Patches \cup Bulks \subseteq Payload

VARIABLES
  row,       \* the links table
  live,      \* deleted_at IS NULL
  cached,    \* linkCache of the web client
  editor,    \* the edit dialog: link, values, fields typed
  pc,        \* next step of a request's handler
  req,       \* what a request is: kind, links, payload
  base,      \* what its handler has read
  outcome,   \* answers given
  typed,     \* history: what a request was to change: typed values, fields
             \* an API client sent
  fresh,     \* history: requests whose links nobody else has written since
             \* the values they start from were read
  requests,  \* requests started
  keys       \* values typed

webVars == <<cached, editor>>
editsVars == <<row, live, webVars, pc, req, base, outcome, typed, fresh,
               requests, keys>>

Values ==
  [url : Url, expires : Int \cup {Nil}, term : Url, code : Code,
   password : BOOLEAN]

(* validateLink *)
Dynamic(v) == v.expires # Nil \/ v.password
Valid(v) == Dynamic(v) => v.code # "permanent"

Unchanged == [f \in Field |-> Keep]

EditsInit ==
  /\ \E v \in [url : Url, expires : Expiry \cup {Nil}, term : Url,
               code : Code, password : {FALSE}] :
       Valid(v) /\ row = [l \in Link |-> v]
  /\ live = Link
  /\ cached = row
  /\ editor = Nil
  /\ pc = [r \in Request |-> "idle"]
  /\ req = [r \in Request |-> Nil]
  /\ base = [r \in Request |-> Nil]
  /\ outcome = [r \in Request |-> Nil]
  /\ typed = [r \in Request |-> Unchanged]
  /\ fresh = {}
  /\ requests = 0 /\ keys = 0

Goto(r, step) == pc' = [pc EXCEPT ![r] = step]

SendUpdate(r, kind, ls, payload, edit) ==
  /\ pc[r] = "idle"
  /\ requests < MaxRequests /\ requests' = requests + 1
  /\ Goto(r, "read")
  /\ req' = [req EXCEPT ![r] = [kind |-> kind, links |-> ls, set |-> payload]]
  /\ typed' = [typed EXCEPT ![r] = edit]

-----------------------------------------------------------------------------
(* The edit dialog *)

(* toISOString().slice(0, 16): the digits of the instant in UTC, without   *)
(* its seconds.                                                            *)
toDigits(t) == IF t = Nil THEN Nil ELSE t - (t % 60)

(* A datetime-local value is read as local time.                           *)
toInstant(digits) == IF digits = Nil THEN Nil ELSE digits - Offset

(* The dialog opens with the values of linkCache. *)
editLink(l) ==
  /\ editor = Nil
  /\ l \in live
  /\ editor' = [link |-> l, from |-> cached[l],
                values |-> [cached[l] EXCEPT !.expires = toDigits(@)],
                password |-> Keep, typed |-> Unchanged]
  /\ UNCHANGED <<row, live, cached, pc, req, base, outcome, typed,
                 fresh, requests, keys>>

(* The user means the local time. *)
Meant(f, v) == IF f = "expires" THEN toInstant(v) ELSE v

Type(f, v) ==
  /\ editor # Nil
  /\ keys < MaxTyped /\ keys' = keys + 1
  /\ editor' = IF f = "password"
       THEN [editor EXCEPT !.password = v, !.typed[f] = v]
       ELSE [editor EXCEPT !.values[f] = v, !.typed[f] = Meant(f, v)]
  /\ UNCHANGED <<row, live, cached, pc, req, base, outcome, typed,
                 fresh, requests>>

(* A variant of linkPayloadFromForm: what is empty is left out.            *)
linkPayloadWithoutBlanks(e) ==
  [f \in Field |->
     CASE f = "expires"  -> IF e.values.expires = Nil THEN Keep
                            ELSE toInstant(e.values.expires)
       [] f = "password" -> e.password
       [] f \in FormField \ {"expires"} -> e.values[f]
       [] OTHER -> Keep]

(* Every field of the form is sent, typed or not; an empty expiry clears.  *)
linkPayloadFromForm(e) ==
  [f \in Field |->
     CASE f = "expires"  -> toInstant(e.values.expires)
       [] f = "password" -> e.password
       [] f \in FormField \ {"expires"} -> e.values[f]
       [] OTHER -> Keep]

saveLink(r) ==
  /\ editor # Nil
  /\ SendUpdate(r, "web", {editor.link}, linkPayloadFromForm(editor),
                editor.typed)
  /\ fresh' = IF editor.from = row[editor.link]
                THEN fresh \cup {r} ELSE fresh
  /\ UNCHANGED <<row, live, webVars, base, outcome, keys>>

(* The Close button or Escape. *)
closeEditor ==
  /\ editor # Nil
  /\ editor' = Nil
  /\ UNCHANGED <<row, live, cached, pc, req, base, outcome, typed, fresh,
                 requests, keys>>

(* Some load of the list. *)
refreshLinkCache ==
  /\ cached # row
  /\ cached' = row
  /\ UNCHANGED <<row, live, editor, pc, req, base, outcome, typed,
                 fresh, requests, keys>>

-----------------------------------------------------------------------------
(* API clients *)

Patch(r, l, p) ==
  /\ SendUpdate(r, "patch", {l}, p, p)
  /\ fresh' = fresh \cup {r}
  /\ UNCHANGED <<row, live, webVars, base, outcome, keys>>

Bulk(r, p) ==
  /\ SendUpdate(r, "bulk", Link, p, p)
  /\ fresh' = fresh \cup {r}
  /\ UNCHANGED <<row, live, webVars, base, outcome, keys>>

DeleteLink(l) ==
  /\ l \in live
  /\ live' = live \ {l}
  /\ UNCHANGED <<row, webVars, pc, req, base, outcome, typed, fresh, requests,
                 keys>>

-----------------------------------------------------------------------------
(* The handlers *)

Finish(r, answer) ==
  /\ Goto(r, "answer")
  /\ outcome' = [outcome EXCEPT ![r] = answer]

(* LinkByID, LinksByIDs: a deleted link is an error. *)
ReadCurrent(r) ==
  /\ pc[r] = "read"
  /\ IF req[r].links \subseteq live
       THEN /\ base' = [base EXCEPT ![r] = row]
            /\ Goto(r, "write")
            /\ UNCHANGED outcome
       ELSE Finish(r, "failed") /\ UNCHANGED base
  /\ UNCHANGED <<row, live, webVars, req, typed, fresh, requests, keys>>

applyLinkPayload(v, p) ==
  [f \in Field |-> IF p[f] = Keep THEN v[f] ELSE p[f]]

(* A variant of WrittenRow: only the columns of the payload are written.   *)
WrittenColumns(r, l) ==
  LET p == req[r].set IN
  [f \in Field |-> IF p[f] = Keep THEN row[l][f] ELSE p[f]]

(* Every column is written, but password_hash only when it was in the      *)
(* payload.                                                                *)
WrittenRow(r, l) ==
  LET p == req[r].set IN
  [applyLinkPayload(base[r][l], p) EXCEPT !.password =
     IF p.password = Keep THEN row[l].password ELSE p.password]

(* validateLink, then UpdateLink or UpdateLinksBulk under FOR UPDATE. *)
Update(r) ==
  LET ls == req[r].links
      valid == \A l \in ls : Valid(applyLinkPayload(base[r][l], req[r].set))
  IN
  /\ pc[r] = "write"
  /\ IF valid /\ ls \subseteq live
       THEN /\ row' = [l \in Link |->
                         IF l \in ls THEN WrittenRow(r, l) ELSE row[l]]
            /\ Goto(r, "reread")
            /\ fresh' = {q \in fresh : q = r \/ pc[q] \in {"idle", "answer"}
                                         \/ req[q].links \cap ls = {}}
            /\ UNCHANGED outcome
       ELSE Finish(r, "failed") /\ UNCHANGED <<row, fresh>>
  /\ UNCHANGED <<live, webVars, req, base, typed, requests, keys>>

(* The updated links are read again, for the audit record and the answer. *)
ReadUpdated(r) ==
  /\ pc[r] = "reread"
  /\ IF req[r].links \subseteq live
       THEN Goto(r, "audit") /\ UNCHANGED outcome
       ELSE Finish(r, "failed")
  /\ UNCHANGED <<row, live, webVars, req, base, typed, fresh, requests, keys>>

(* The audit record is an insert of its own, after the commit; without it  *)
(* the answer is an error.                                                 *)
Audit(r) ==
  /\ pc[r] = "audit"
  /\ \E recorded \in BOOLEAN : Finish(r, IF recorded THEN "ok" ELSE "failed")
  /\ UNCHANGED <<row, live, webVars, req, base, typed, fresh, requests, keys>>

SavedByDialog(r) == req[r].kind = "web" /\ outcome[r] = "ok"

(* A variant of Answered: the request is not forgotten. *)
AnsweredAndKept(r) ==
  /\ pc[r] = "answer"
  /\ Goto(r, "idle")
  /\ outcome' = [outcome EXCEPT ![r] = Nil]
  /\ UNCHANGED <<row, live, webVars, req, base, typed, fresh, requests, keys>>

(* saveLink goes on: the dialog is closed, whichever link it is open for   *)
(* by then, and the list loaded.                                           *)
Answered(r) ==
  /\ pc[r] = "answer"
  /\ Goto(r, "idle")
  /\ editor' = IF SavedByDialog(r) THEN Nil ELSE editor
  /\ cached' = IF SavedByDialog(r) THEN row ELSE cached
  /\ req' = [req EXCEPT ![r] = Nil]
  /\ base' = [base EXCEPT ![r] = Nil]
  /\ outcome' = [outcome EXCEPT ![r] = Nil]
  /\ typed' = [typed EXCEPT ![r] = Unchanged]
  /\ fresh' = fresh \ {r}
  /\ UNCHANGED <<row, live, requests, keys>>

EditsNext ==
  \/ \E l \in Link : editLink(l) \/ DeleteLink(l)
  \/ \E u \in Url : Type("url", u)
  \/ \E t \in Typeable \cup {Nil} : Type("expires", t)
  \/ \E c \in Code : Type("code", c)
  \/ \E b \in BOOLEAN : Type("password", b)
  \/ closeEditor \/ refreshLinkCache
  \/ \E r \in Request :
       \/ saveLink(r)
       \/ \E l \in Link, p \in Patches : Patch(r, l, p)
       \/ \E p \in Bulks : Bulk(r, p)
       \/ ReadCurrent(r) \/ Update(r) \/ ReadUpdated(r) \/ Audit(r)
       \/ Answered(r)

EditsSpec == EditsInit /\ [][EditsNext]_editsVars
-----------------------------------------------------------------------------
(* Properties *)

EditsTypeOK ==
  /\ row \in [Link -> Values] /\ cached \in [Link -> Values]
  /\ live \subseteq Link
  /\ pc \in [Request -> {"idle", "read", "write", "reread", "audit", "answer"}]
  /\ \A r \in Request :
       /\ pc[r] \in {"write", "reread", "audit"} => base[r] \in [Link -> Values]
       /\ pc[r] = "idle" <=> req[r] = Nil
       /\ pc[r] = "answer" <=> outcome[r] # Nil
       /\ DOMAIN typed[r] = Field
  /\ fresh \subseteq Request
  /\ editor = Nil \/ (editor.link \in Link /\ DOMAIN editor.typed = Field)

Commits(r) == pc[r] = "write" /\ pc'[r] = "reread"
StoresTheEdit(r) ==
  \A l \in req[r].links, f \in Field :
    row'[l][f] = IF typed[r][f] = Keep THEN row[l][f] ELSE typed[r][f]

(* editLink, linkPayloadFromForm, applyLinkPayload, UpdateLink: an update  *)
(* stores the fields that were typed or sent, and changes no other.        *)
UpdatesStoreTheEdit ==
  [][\A r \in Request : Commits(r) => StoresTheEdit(r)]_editsVars

(* The form cuts an expiry down to its minute. *)
CutToMinute(new, old) ==
  IF old = Nil THEN new = Nil ELSE new # Nil /\ new \in (old - 59)..old
StoresTheEditToTheMinute(r) ==
  \A l \in req[r].links, f \in Field :
    IF typed[r][f] # Keep THEN row'[l][f] = typed[r][f]
    ELSE \/ row'[l][f] = row[l][f]
         \/ /\ f = "expires" /\ req[r].kind = "web"
            /\ CutToMinute(row'[l][f], row[l][f])

(* editLink, linkPayloadFromForm, applyLinkPayload, UpdateLink: an update  *)
(* of a link that nobody else wrote since its values were read stores the  *)
(* fields that were typed or sent, and changes no other, but the seconds   *)
(* of an expiry: saving the dialog moves an expiry nobody typed to the     *)
(* start of its minute.                                                    *)
FreshUpdatesStoreTheEdit ==
  [][\A r \in fresh : Commits(r) => StoresTheEditToTheMinute(r)]_editsVars

(* applyLinkPayload, validateLink, UpdateLink: a permanent code excludes   *)
(* an expiry, over every overlap of updates: a stale one may undo another, *)
(* but never combines its code with an expiry it was not validated with.   *)
ExpiringIsNotPermanent ==
  \A l \in Link : row[l].expires # Nil => row[l].code # "permanent"
=============================================================================
