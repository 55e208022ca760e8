------------------------- MODULE ConfirmedChanges -------------------------
(***************************************************************************)
(* The changes of the web client that end with a reload of a short list:   *)
(* deleting a link, creating and revoking API keys, adding, verifying and  *)
(* deleting domains, switching a user's deletion access.                   *)
(*                                                                         *)
(* A destructive change first asks in the one modal dialog the page has.   *)
(* The dialog is closed by a button or by the Escape key; an open dialog   *)
(* lets no other control be used.  A confirmed change is a request; its    *)
(* answer starts the reload of the list, and answers may overtake.         *)
(***************************************************************************)
EXTENDS WebPage, Naturals

CONSTANTS
  Id,            \* rows
  MaxOps,        \* bound on the changes and reloads started
  ChangeFaults   \* which faults may happen, see ChangeFaultKinds

ChangeFaultKinds ==
  { "lost_answer",   \* a change is made and its answer is lost
    "list_fails" }   \* a reload fails

Kind == {"link", "key", "domain", "access"}
State == {"absent", "present", "active"}
Op == [kind : Kind, id : Id, to : State]
Lists == [Id -> State]

ASSUME ChangesAssumption ==
  /\ Id # {} /\ MaxOps \in Nat /\ ChangeFaults \subseteq ChangeFaultKinds
  /\ Nil \notin Kind /\ Nil \notin Op /\ Nil \notin Lists

VARIABLES
  items,        \* the server's rows
  rows,         \* the rows rendered
  dialog,       \* the change the open dialog asks about
  returnValue,  \* dialog.returnValue
  change,       \* the change a request makes, of a change request
  reload,       \* the list a request loads, of a reload
  phase,        \* how far a request is
  read,         \* the rows a reload has read on the server
  unconfirmed,  \* history: changes sent that the user did not confirm
  excused,      \* history: lists a known race or failure left behind
  ops           \* changes and reloads started

dialogVars == <<dialog, returnValue, unconfirmed>>
callVars == <<change, reload, phase, read>>
changesVars == <<items, rows, dialogVars, callVars, excused, ops>>

Phase == {"free", "sent", "done", "refused"}

ChangesInit ==
  /\ items \in [Kind -> Lists]
  /\ \A i \in Id : items["link"][i] = "present" /\ items["key"][i] # "active"
                   /\ items["access"][i] # "absent"
  /\ rows = items
  /\ dialog = Nil
  /\ returnValue = ""
  /\ change = [c \in Call |-> Nil]
  /\ reload = [c \in Call |-> Nil]
  /\ phase = [c \in Call |-> "free"]
  /\ read = [c \in Call |-> Nil]
  /\ unconfirmed = {}
  /\ excused = {}
  /\ ops = 0

Start == ops < MaxOps /\ ops' = ops + 1

SendOp(op) ==
  \E c \in Call :
    /\ phase[c] = "free"
    /\ change' = [change EXCEPT ![c] = op]
    /\ phase' = [phase EXCEPT ![c] = "sent"]
    /\ UNCHANGED <<reload, read>>

Reloads(k) == \E c \in Call : reload[c] = k
Settled(k) ==
  \A c \in Call : reload[c] # k /\ (change[c] # Nil => change[c].kind # k)

(* A reload makes the list current again unless it overlaps another one.   *)
Reloading(k) == excused' = IF Reloads(k) THEN excused \cup {k}
                                         ELSE excused \ {k}

Release(c) ==
  /\ phase' = [phase EXCEPT ![c] = "free"]
  /\ change' = [change EXCEPT ![c] = Nil]
  /\ reload' = [reload EXCEPT ![c] = Nil]
  /\ read' = [read EXCEPT ![c] = Nil]

-----------------------------------------------------------------------------
(* The dialog: confirmAction *)

(* A button of a rendered row opens the dialog. *)
Ask(k, i, to) ==
  /\ dialog = Nil
  /\ Start
  /\ rows[k][i] # "absent"
  /\ dialog' = [kind |-> k, id |-> i, to |-> to]
  /\ UNCHANGED <<items, rows, returnValue, unconfirmed, callVars, excused>>

delLink(i) == Ask("link", i, "absent")
delKey(i) == Ask("key", i, "absent")
delDomain(i) == Ask("domain", i, "absent")
setDeletionAccess(i) ==
  Ask("access", i, IF rows["access"][i] = "active" THEN "present" ELSE "active")

(* A variant of ReturnValue: Escape is a value of its own. *)
ReturnValueOfKey(how) == how

(* The browser closes the dialog.  The value of the button that submitted  *)
(* the form becomes the return value; Escape leaves the return value as it *)
(* is, and opening the dialog does not reset it.                           *)
ReturnValue(how) == IF how = "escape" THEN returnValue ELSE how

Confirmed(value) == value = "confirm"

(* onClose: the awaiting handler sends the change or returns. *)
confirmAction(how) ==
  LET value == ReturnValue(how) IN
  /\ dialog # Nil
  /\ returnValue' = value
  /\ dialog' = Nil
  /\ IF Confirmed(value)
       THEN SendOp(dialog) ELSE UNCHANGED callVars
  /\ unconfirmed' = IF Confirmed(value) /\ how # "confirm"
                      THEN unconfirmed \cup {dialog} ELSE unconfirmed
  /\ UNCHANGED <<items, rows, excused, ops>>

-----------------------------------------------------------------------------
(* Changes that need no confirmation *)

Submit(k, i, from, to) ==
  /\ dialog = Nil
  /\ Start
  /\ rows[k][i] = from
  /\ SendOp([kind |-> k, id |-> i, to |-> to])
  /\ UNCHANGED <<items, rows, dialogVars, excused>>

createKey(i) == Submit("key", i, "absent", "present")
createDomain(i) == Submit("domain", i, "absent", "present")
verifyDomain(i) == Submit("domain", i, "present", "active")

-----------------------------------------------------------------------------
(* The server and the answers *)

(* A row that is gone takes no change but its creation. *)
Serve(c) ==
  LET op == change[c] IN
  /\ op # Nil
  /\ phase[c] = "sent"
  /\ \/ /\ items[op.kind][op.id] = "absent" <=>
             (op.to = "present" /\ op.kind # "access")
        /\ items' = [items EXCEPT ![op.kind][op.id] = op.to]
        /\ phase' = [phase EXCEPT ![c] = "done"]
     \/ /\ phase' = [phase EXCEPT ![c] = "refused"]
        /\ UNCHANGED items
  /\ UNCHANGED <<rows, dialogVars, change, reload, read, excused, ops>>

(* A variant of Succeed: the list is not loaded again. *)
SucceedSilently(c) ==
  /\ phase[c] = "done" /\ change[c] # Nil
  /\ Release(c)
  /\ UNCHANGED <<items, rows, dialogVars, excused, ops>>

(* After the change: loadLinks, loadKeys, loadDomains or loadCustomers.    *)
Succeed(c) ==
  LET k == change[c].kind IN
  /\ phase[c] = "done" /\ change[c] # Nil
  /\ change' = [change EXCEPT ![c] = Nil]
  /\ reload' = [reload EXCEPT ![c] = k]
  /\ phase' = [phase EXCEPT ![c] = "sent"]
  /\ Reloading(k)
  /\ UNCHANGED <<items, rows, dialogVars, read, ops>>

(* showMsg(x): the list is left as it is. *)
showMsg(c) ==
  /\ change[c] # Nil
  /\ \/ phase[c] = "refused" /\ UNCHANGED excused
     \/ /\ phase[c] = "done" /\ "lost_answer" \in ChangeFaults
        /\ excused' = excused \cup {change[c].kind}
  /\ Release(c)
  /\ UNCHANGED <<items, rows, dialogVars, ops>>

(* The view is opened or refreshed. *)
Refresh(k) ==
  /\ dialog = Nil
  /\ Start
  /\ \E c \in Call :
       /\ phase[c] = "free"
       /\ reload' = [reload EXCEPT ![c] = k]
       /\ phase' = [phase EXCEPT ![c] = "sent"]
  /\ Reloading(k)
  /\ UNCHANGED <<items, rows, dialogVars, change, read>>

(* The server reads the list of a reload. *)
ReadList(c) ==
  /\ reload[c] # Nil /\ phase[c] = "sent"
  /\ read' = [read EXCEPT ![c] = items[reload[c]]]
  /\ phase' = [phase EXCEPT ![c] = "done"]
  /\ UNCHANGED <<items, rows, dialogVars, change, reload, excused, ops>>

RenderRows(c, k) ==
  /\ reload[c] = k /\ phase[c] = "done"
  /\ rows' = [rows EXCEPT ![k] = read[c]]
  /\ Release(c)
  /\ UNCHANGED <<items, dialogVars, excused, ops>>

loadKeys(c) == RenderRows(c, "key")
loadDomains(c) == RenderRows(c, "domain")
loadPage(c) == RenderRows(c, "link") \/ RenderRows(c, "access")

ListFails(c) ==
  /\ reload[c] # Nil /\ "list_fails" \in ChangeFaults
  /\ excused' = excused \cup {reload[c]}
  /\ Release(c)
  /\ UNCHANGED <<items, rows, dialogVars, ops>>

ChangesNext ==
  \/ \E i \in Id :
       \/ delLink(i) \/ delKey(i) \/ delDomain(i) \/ setDeletionAccess(i)
       \/ createKey(i) \/ createDomain(i) \/ verifyDomain(i)
  \/ \E how \in {"confirm", "cancel", "escape"} : confirmAction(how)
  \/ \E k \in Kind : Refresh(k)
  \/ \E c \in Call :
       \/ Serve(c) \/ Succeed(c) \/ showMsg(c) \/ ReadList(c)
       \/ loadKeys(c) \/ loadDomains(c) \/ loadPage(c) \/ ListFails(c)

ChangesSpec == ChangesInit /\ [][ChangesNext]_changesVars
-----------------------------------------------------------------------------
(* Properties *)

ChangesTypeOK ==
  /\ items \in [Kind -> Lists] /\ rows \in [Kind -> Lists]
  /\ dialog \in Op \cup {Nil}
  /\ returnValue \in {"", "confirm", "cancel"}
  /\ change \in [Call -> Op \cup {Nil}]
  /\ reload \in [Call -> Kind \cup {Nil}]
  /\ phase \in [Call -> Phase]
  /\ read \in [Call -> Lists \cup {Nil}]
  /\ unconfirmed \subseteq Op
  /\ excused \subseteq Kind
  /\ ops \in Nat

(* confirmAction: no destructive change is sent that was not confirmed in  *)
(* its own dialog, whatever earlier dialogs were closed with.              *)
NothingUnconfirmed == unconfirmed = {}

(* delLink, createKey, delKey, ...: when every request about a list has    *)
(* been answered, the rows rendered are the server's, unless two reloads   *)
(* overlapped, a reload failed or the answer to a change was lost, and     *)
(* then the next reload that is alone repairs the list.                    *)
SettledRowsAreCurrent ==
  \A k \in Kind : (Settled(k) /\ k \notin excused) => rows[k] = items[k]
=============================================================================
