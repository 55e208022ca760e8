---------------------------- MODULE ReportView ----------------------------
(***************************************************************************)
(* The report page of the web client: which report is open, the period its *)
(* form states, and what is rendered.                                      *)
(*                                                                         *)
(* A report is requested when it is opened, when a preset is chosen and    *)
(* when the form is applied.  The answers arrive in any order, also after  *)
(* the page was left.  The server accepts a period of whole local days     *)
(* within the last ninety.  Days are integers; a midnight may pass at any  *)
(* moment, and the dates in the form stay what they are.                   *)
(***************************************************************************)
EXTENDS WebPage, Integers

CONSTANTS
  Report,       \* reports of links and users
  Preset,       \* the presets of the form, in days
  DefaultDays,  \* the preset of a form that was never filled in
  Typed,        \* dates the user may type
  Midnights,    \* bound on the midnights that pass
  MaxInputs     \* bound on what the user does

DetailDays == 90
Custom == 0

Period == [from : Int, to : Int]
ReportRequest == [report : Report, from : Int, to : Int]

ASSUME ReportAssumption ==
  /\ Preset \subseteq 1 .. DetailDays /\ DefaultDays \in Preset
  /\ Typed \subseteq Int
  /\ Midnights \in Nat /\ MaxInputs \in Nat
  /\ Nil \notin Report /\ Nil \notin Int
  /\ Nil \notin Period /\ Nil \notin ReportRequest

VARIABLES
  current,     \* currentReportState
  preset,      \* the preset selected, or Custom
  form,        \* reportFrom and reportTo
  shown,       \* what is rendered
  loads,       \* reports requested and not answered
  today,       \* the local day
  chosen,      \* history: the day the preset filled in the form
  edited,      \* history: the form changed since the report was requested
  overlapped,  \* history: a request overlapped another one
  inputs       \* what the user did

reportVars == <<current, preset, form, shown, loads, today, chosen, edited,
          overlapped, inputs>>

Blank == [status |-> "blank", of |-> Nil]
LoadingMessage == [status |-> "loading", of |-> Nil]
Unavailable == [status |-> "unavailable", of |-> Nil]
Rendered(q) == [status |-> "report", of |-> q]

AllAnswered == \A f \in Call : loads[f] = Nil

ReportInit ==
  /\ current = Nil
  /\ preset = DefaultDays
  /\ form = Nil
  /\ shown = Blank
  /\ loads = [f \in Call |-> Nil]
  /\ today = 0
  /\ chosen = Nil
  /\ edited = FALSE /\ overlapped = FALSE
  /\ inputs = 0

Input == inputs < MaxInputs /\ inputs' = inputs + 1

(* A variant of setReportPreset: d days before today. *)
setReportPresetBefore(d) == [from |-> today - d, to |-> today]

(* The last d days, today included. *)
setReportPreset(d) == [from |-> today - d + 1, to |-> today]

(* The end of the period is exclusive. *)
reportQuery(r, f) == [report |-> r, from |-> f.from, to |-> f.to + 1]

(* The page says "Loading report..." and the report is requested. *)
loadCurrentReport(r, f) ==
  /\ shown' = LoadingMessage
  /\ \E s \in Call :
       loads[s] = Nil /\ loads' = [loads EXCEPT ![s] = reportQuery(r, f)]
  /\ edited' = FALSE
  /\ overlapped' = ~AllAnswered

-----------------------------------------------------------------------------
(* The user *)

(* openLinkReport, openUserReport and routeView: another report is opened. *)
openReport(r) ==
  LET f == IF form = Nil THEN setReportPreset(DefaultDays) ELSE form IN
  /\ Input
  /\ r # current
  /\ current' = r
  /\ form' = f
  /\ chosen' = IF form = Nil THEN today ELSE chosen
  /\ loadCurrentReport(r, f)
  /\ UNCHANGED <<preset, today>>

(* The report is left; it stays rendered in the hidden section. *)
backToDashboard ==
  /\ Input
  /\ current # Nil
  /\ current' = Nil
  /\ UNCHANGED <<preset, form, shown, loads, today, chosen, edited, overlapped>>

(* Variants of choosePreset: the report is not requested again; the        *)
(* position in the list is taken for the value.                            *)
choosePresetOnly(d) ==
  /\ Input
  /\ current # Nil /\ d # preset
  /\ preset' = d
  /\ form' = setReportPreset(d)
  /\ chosen' = today
  /\ UNCHANGED <<current, shown, loads, today, edited, overlapped>>

choosePresetByPosition(d) ==
  /\ Input
  /\ current # Nil /\ d # preset
  /\ preset' = d - 1
  /\ form' = setReportPreset(d)
  /\ chosen' = today
  /\ loadCurrentReport(current, setReportPreset(d))
  /\ UNCHANGED <<current, today>>

choosePreset(d) ==
  /\ Input
  /\ current # Nil /\ d # preset
  /\ preset' = d
  /\ form' = setReportPreset(d)
  /\ chosen' = today
  /\ loadCurrentReport(current, setReportPreset(d))
  /\ UNCHANGED <<current, today>>

chooseCustom ==
  /\ Input
  /\ current # Nil /\ preset # Custom
  /\ preset' = Custom
  /\ UNCHANGED <<current, form, shown, loads, today, chosen, edited, overlapped>>

(* A date is typed; the preset stays selected, nothing is requested. *)
typeDates(f) ==
  /\ Input
  /\ current # Nil /\ f # form
  /\ form' = f
  /\ chosen' = Nil
  /\ edited' = TRUE
  /\ UNCHANGED <<current, preset, shown, loads, today, overlapped>>

apply ==
  /\ Input
  /\ current # Nil
  /\ loadCurrentReport(current, form)
  /\ UNCHANGED <<current, preset, form, today, chosen>>

(* What the Summary CSV and Events CSV buttons download. *)
downloadReport == reportQuery(current, form)

-----------------------------------------------------------------------------
(* The server, the answers and the clock *)

parseReportWindow(from, to) ==
  /\ from < to
  /\ from >= today - (DetailDays - 1)
  /\ to <= today + 1
  /\ to - from <= DetailDays

renderReport(f) ==
  LET q == loads[f] IN
  /\ q # Nil
  /\ shown' = IF parseReportWindow(q.from, q.to) THEN Rendered(q) ELSE Unavailable
  /\ loads' = [loads EXCEPT ![f] = Nil]
  /\ UNCHANGED <<current, preset, form, today, chosen, edited, overlapped, inputs>>

(* The request fails, or the report does not exist. *)
reportFails(f) ==
  /\ loads[f] # Nil
  /\ shown' = Unavailable
  /\ loads' = [loads EXCEPT ![f] = Nil]
  /\ UNCHANGED <<current, preset, form, today, chosen, edited, overlapped, inputs>>

Midnight ==
  /\ today < Midnights
  /\ today' = today + 1
  /\ UNCHANGED <<current, preset, form, shown, loads, chosen, edited, overlapped,
                 inputs>>

ReportNext ==
  \/ \E r \in Report : openReport(r)
  \/ backToDashboard
  \/ \E d \in Preset : choosePreset(d)
  \/ chooseCustom \/ apply
  \/ \E from, to \in Typed : typeDates([from |-> from, to |-> to])
  \/ \E f \in Call : renderReport(f) \/ reportFails(f)
  \/ Midnight

ReportSpec == ReportInit /\ [][ReportNext]_reportVars

-----------------------------------------------------------------------------
(* Properties *)

ReportTypeOK ==
  /\ current \in Report \cup {Nil}
  /\ preset \in Preset \cup {Custom}
  /\ form = Nil \/ form \in Period
  /\ \/ shown \in {Blank, LoadingMessage, Unavailable}
     \/ shown.status = "report" /\ shown.of \in ReportRequest /\ shown = Rendered(shown.of)
  /\ loads \in [Call -> ReportRequest \cup {Nil}]
  /\ today \in 0 .. Midnights
  /\ chosen \in (0 .. Midnights) \cup {Nil}
  /\ edited \in BOOLEAN /\ overlapped \in BOOLEAN
  /\ inputs \in Nat

(* loadCurrentReport, downloadReport: once the answers have arrived, an    *)
(* open report is rendered or unavailable, and what is rendered is the     *)
(* open report over the period of the form, which is also what the CSV     *)
(* buttons download, unless two requests overlapped or the dates were      *)
(* edited and not applied.                                                 *)
SettledReportIsCurrent ==
  (current # Nil /\ AllAnswered /\ ~overlapped) =>
    /\ shown.status \in {"report", "unavailable"}
    /\ (shown.status = "report" /\ ~edited) => shown.of = downloadReport

(* setReportPreset, reportQuery, parseReportWindow: the period a preset    *)
(* fills in is one the server accepts.                                     *)
PresetIsAccepted ==
  (chosen # Nil) =>
    LET q == downloadReport IN parseReportWindow(q.from, q.to)

(* The same on the day the preset was chosen. *)
PresetIsAcceptedTheSameDay == (chosen = today) => PresetIsAccepted
=============================================================================
