--------------------------- MODULE Reports_proofs ---------------------------
(***************************************************************************)
(* Proofs about ReportView, for any reports, presets up to ninety days,    *)
(* number of requests under way, and number of midnights.                  *)
(*                                                                         *)
(* SettledReportIsCurrent is not inductive: what is rendered when the last *)
(* answer arrives was decided when its request was sent.  OneRequest says  *)
(* what that request is, from the moment it is sent.                       *)
(*                                                                         *)
(* And about Charts, for any clicks and points: Tenths rounds to the       *)
(* nearest tenth, whatever is divided, and so keeps the order and the      *)
(* whole.  Most is a CHOOSE over the clicks so far; that there is such a   *)
(* largest one is part of the invariant, point by point.                   *)
(***************************************************************************)
EXTENDS ReportView, Charts, SequenceTheorems, TLAPS

(* A report is open only with a period to show. *)
TypeInv == ReportTypeOK /\ (current # Nil => form \in Period)

(* The form still holds what the preset filled in on the day it was chosen. *)
PresetInForm ==
  chosen # Nil =>
    \E d \in Preset : form = [from |-> chosen - d + 1, to |-> chosen]

(* One request at a time, and it asks for what the page shows next.        *)
OneRequest ==
  (overlapped = FALSE) =>
    /\ \A f, g \in Call : loads[f] # Nil /\ loads[g] # Nil => f = g
    /\ current # Nil =>
         /\ \A f \in Call :
              loads[f] # Nil /\ edited = FALSE => loads[f] = downloadReport
         /\ (\A f \in Call : loads[f] = Nil) =>
              /\ shown.status \in {"report", "unavailable"}
              /\ shown.status = "report" /\ edited = FALSE
                   => shown.of = downloadReport

ReportInv == TypeInv /\ PresetInForm /\ OneRequest

-----------------------------------------------------------------------------
(* Requests *)

LEMMA PresetIsPeriod ==
  ASSUME ReportTypeOK, NEW d \in Preset
  PROVE  setReportPreset(d) \in Period
<1>1. today \in Int /\ d \in Int
  BY ReportAssumption DEF ReportTypeOK, DetailDays
<1> QED BY <1>1 DEF setReportPreset, Period

LEMMA RequestType ==
  ASSUME NEW r \in Report, NEW f \in Period
  PROVE  reportQuery(r, f) \in ReportRequest /\ reportQuery(r, f) # Nil
BY ReportAssumption DEF reportQuery, ReportRequest, Period

(* A request is sent for the report that is open and the period in its form. *)
LEMMA SendKeepsInv ==
  ASSUME ReportInv, NEW r \in Report, NEW f \in Period, loadCurrentReport(r, f),
         current' = r, form' = f,
         preset' \in Preset \cup {Custom}, UNCHANGED today,
         chosen' \in (0 .. Midnights) \cup {Nil}, PresetInForm', inputs' \in Nat
  PROVE  ReportInv'
<1>1. PICK s \in Call : /\ loads[s] = Nil
                        /\ loads' = [loads EXCEPT ![s] = reportQuery(r, f)]
  BY DEF loadCurrentReport
<1>2. /\ shown' = LoadingMessage /\ edited' = FALSE
      /\ overlapped' = ~AllAnswered
  BY DEF loadCurrentReport
<1>3. loads'[s] = reportQuery(r, f) /\ \A g \in Call \ {s} : loads'[g] = loads[g]
  BY <1>1 DEF ReportInv, TypeInv, ReportTypeOK
<1>4. TypeInv'
  <2>1. /\ current' \in Report \cup {Nil} /\ preset' \in Preset \cup {Custom}
        /\ (form = Nil \/ form \in Period)' /\ today' \in 0 .. Midnights
        /\ overlapped' \in BOOLEAN /\ edited' \in BOOLEAN
    BY <1>2 DEF ReportInv, TypeInv, ReportTypeOK, AllAnswered
  <2>2. loads' \in [Call -> ReportRequest \cup {Nil}]
    BY <1>3, RequestType, <1>1 DEF ReportInv, TypeInv, ReportTypeOK
  <2> QED BY <1>2, <2>1, <2>2 DEF TypeInv, ReportTypeOK
<1>5. OneRequest'
  <2> SUFFICES ASSUME overlapped' = FALSE PROVE OneRequest'
    BY DEF OneRequest
  <2>1. \A g \in Call \ {s} : loads'[g] = Nil
    BY <1>2, <1>3 DEF AllAnswered
  <2>2. loads'[s] # Nil /\ loads'[s] = downloadReport'
    BY <1>3, RequestType DEF downloadReport
  <2> QED BY <2>1, <2>2 DEF OneRequest
<1> QED BY <1>4, <1>5 DEF ReportInv

(* Steps that leave the requests and what is rendered alone. *)
LEMMA QuietKeepsInv ==
  ASSUME ReportInv, UNCHANGED <<loads, shown, overlapped>>, TypeInv',
         PresetInForm',
         current' = Nil \/
           (current' = current /\ (edited' = TRUE \/ UNCHANGED <<form, edited>>))
  PROVE  ReportInv'
<1>1. OneRequest'
  BY DEF ReportInv, OneRequest, downloadReport
<1> QED BY <1>1 DEF ReportInv

(* An answer: one request less, and what it is about is rendered. *)
LEMMA AnswerKeepsInv ==
  ASSUME ReportInv, NEW f \in Call, loads[f] # Nil,
         loads' = [loads EXCEPT ![f] = Nil],
         shown' \in {Rendered(loads[f]), Unavailable},
         UNCHANGED <<current, preset, form, today, chosen, edited, overlapped,
                     inputs>>
  PROVE  ReportInv'
<1>1. loads'[f] = Nil /\ \A g \in Call \ {f} : loads'[g] = loads[g]
  BY DEF ReportInv, TypeInv, ReportTypeOK
<1>2. loads[f] \in ReportRequest /\ DOMAIN loads' = Call
  BY DEF ReportInv, TypeInv, ReportTypeOK
<1>3. \/ shown' = Unavailable
      \/ /\ shown'.status = "report" /\ shown'.of = loads[f]
         /\ shown' = Rendered(shown'.of)
  BY DEF Rendered
<1>4. TypeInv'
  BY <1>1, <1>2, <1>3 DEF ReportInv, TypeInv, ReportTypeOK
<1>5. OneRequest'
  <2> SUFFICES ASSUME overlapped = FALSE PROVE OneRequest'
    BY DEF OneRequest
  <2>1. \A g \in Call : loads'[g] = Nil
    BY <1>1 DEF ReportInv, OneRequest
  <2>2. /\ shown'.status \in {"report", "unavailable"}
        /\ shown'.status = "report" => shown'.of = loads[f]
    BY <1>3 DEF Unavailable
  <2>3. current # Nil /\ edited = FALSE => loads[f] = downloadReport
    BY DEF ReportInv, OneRequest
  <2>4. downloadReport' = downloadReport
    BY DEF downloadReport
  <2> QED BY <2>1, <2>2, <2>3, <2>4 DEF OneRequest
<1>6. PresetInForm'
  BY DEF ReportInv, PresetInForm
<1> QED BY <1>4, <1>5, <1>6 DEF ReportInv

-----------------------------------------------------------------------------
(* The inductive invariant *)

LEMMA ReportInvInit == ReportInit => ReportInv
<1> SUFFICES ASSUME ReportInit PROVE ReportInv
  OBVIOUS
<1>1. TypeInv
  <2>1. /\ 0 \in 0 .. Midnights /\ DefaultDays \in Preset
        /\ loads \in [Call -> ReportRequest \cup {Nil}]
    BY ReportAssumption DEF ReportInit
  <2> QED BY <2>1 DEF ReportInit, TypeInv, ReportTypeOK
<1>2. PresetInForm /\ OneRequest
  BY DEF ReportInit, PresetInForm, OneRequest
<1> QED BY <1>1, <1>2 DEF ReportInv

LEMMA ReportInvStep ==
  ASSUME ReportInv, [ReportNext]_reportVars
  PROVE  ReportInv'
<1>0. /\ inputs \in Nat /\ today \in 0 .. Midnights
      /\ current \in Report \cup {Nil} /\ (current # Nil => form \in Period)
      /\ preset \in Preset \cup {Custom} /\ TypeInv
      /\ chosen \in (0 .. Midnights) \cup {Nil}
      /\ Midnights \in Nat /\ Nil \notin Report /\ Nil \notin Period
      /\ DefaultDays \in Preset /\ Typed \subseteq Int
  BY ReportAssumption DEF ReportInv, TypeInv, ReportTypeOK
<1>1. ASSUME NEW d \in Preset, form' = setReportPreset(d), chosen' = today
      PROVE  PresetInForm' /\ form' \in Period
  BY <1>1, PresetIsPeriod DEF PresetInForm, setReportPreset, ReportInv, TypeInv
<1>2. ASSUME UNCHANGED <<form, chosen>>
      PROVE  PresetInForm'
  BY <1>2 DEF ReportInv, PresetInForm
<1>3. ASSUME NEW r \in Report, openReport(r)
      PROVE  ReportInv'
  <2>1. /\ current' = r /\ loadCurrentReport(r, form')
        /\ form' = IF form = Nil THEN setReportPreset(DefaultDays) ELSE form
        /\ chosen' = IF form = Nil THEN today ELSE chosen
        /\ UNCHANGED <<preset, today>> /\ inputs' = inputs + 1
    BY <1>3 DEF openReport, Input
  <2>2. PresetInForm' /\ form' \in Period
    <3>1. CASE form = Nil
      BY <1>0, <1>1, <2>1, <3>1
    <3>2. CASE form # Nil
      BY <1>2, <2>1, <3>2 DEF ReportInv, TypeInv, ReportTypeOK
    <3> QED BY <3>1, <3>2
  <2>3. /\ preset' \in Preset \cup {Custom} /\ inputs' \in Nat
        /\ chosen' \in (0 .. Midnights) \cup {Nil}
    BY <1>0, <2>1
  <2> QED BY <2>1, <2>2, <2>3, SendKeepsInv
<1>4. CASE backToDashboard
  <2>1. /\ current' = Nil /\ inputs' \in Nat
        /\ UNCHANGED <<preset, form, shown, loads, today, chosen, edited,
                       overlapped>>
    BY <1>0, <1>4 DEF backToDashboard, Input
  <2>2. TypeInv'
    BY <2>1, <1>0 DEF TypeInv, ReportTypeOK
  <2> QED BY <1>2, <2>1, <2>2, QuietKeepsInv
<1>5. ASSUME NEW d \in Preset, choosePreset(d)
      PROVE  ReportInv'
  <2>1. /\ current \in Report /\ current' = current
        /\ loadCurrentReport(current, form') /\ form' = setReportPreset(d)
        /\ chosen' = today /\ preset' = d /\ UNCHANGED today /\ inputs' \in Nat
    BY <1>0, <1>5 DEF choosePreset, Input
  <2> QED BY <1>0, <1>1, <2>1, SendKeepsInv
<1>6. CASE chooseCustom
  <2>1. /\ preset' = Custom /\ inputs' \in Nat
        /\ UNCHANGED <<current, form, shown, loads, today, chosen, edited,
                       overlapped>>
    BY <1>0, <1>6 DEF chooseCustom, Input
  <2>2. TypeInv'
    BY <2>1, <1>0 DEF TypeInv, ReportTypeOK
  <2> QED BY <1>2, <2>1, <2>2, QuietKeepsInv
<1>7. CASE apply
  <2>1. /\ current \in Report /\ loadCurrentReport(current, form')
        /\ UNCHANGED <<current, preset, form, today, chosen>> /\ inputs' \in Nat
        /\ form \in Period
    BY <1>0, <1>7 DEF apply, Input
  <2> QED BY <1>0, <1>2, <2>1, SendKeepsInv
<1>8. ASSUME NEW from \in Typed, NEW to \in Typed,
             typeDates([from |-> from, to |-> to])
      PROVE  ReportInv'
  <2>1. /\ form' \in Period /\ chosen' = Nil /\ edited' = TRUE /\ inputs' \in Nat
        /\ UNCHANGED <<current, preset, shown, loads, today, overlapped>>
    BY <1>0, <1>8 DEF typeDates, Input, Period
  <2>2. TypeInv' /\ PresetInForm'
    BY <2>1, <1>0 DEF TypeInv, ReportTypeOK, PresetInForm
  <2> QED BY <2>1, <2>2, QuietKeepsInv
<1>9. ASSUME NEW f \in Call, renderReport(f) \/ reportFails(f)
      PROVE  ReportInv'
  BY <1>9, AnswerKeepsInv DEF renderReport, reportFails
<1>10. CASE Midnight
  <2>1. /\ today' \in 0 .. Midnights
        /\ UNCHANGED <<current, preset, form, shown, loads, chosen, edited,
                       overlapped, inputs>>
    BY <1>0, <1>10 DEF Midnight
  <2>2. TypeInv'
    BY <2>1, <1>0 DEF TypeInv, ReportTypeOK
  <2> QED BY <1>2, <2>1, <2>2, QuietKeepsInv
<1>11. CASE UNCHANGED reportVars
  BY <1>11 DEF reportVars, ReportInv, TypeInv, ReportTypeOK, PresetInForm,
               OneRequest, downloadReport
<1> QED
  BY <1>3, <1>4, <1>5, <1>6, <1>7, <1>8, <1>9, <1>10, <1>11 DEF ReportNext

LEMMA ReportInvAlways == ReportSpec => []ReportInv
<1>1. ReportInv /\ [ReportNext]_reportVars => ReportInv'
  BY ReportInvStep
<1> QED BY <1>1, ReportInvInit, PTL DEF ReportSpec

-----------------------------------------------------------------------------
(* What follows from it *)

(* Type correctness of the report page. *)
THEOREM ReportTypeCorrect == ReportSpec => []ReportTypeOK
<1>1. ReportInv => ReportTypeOK
  BY DEF ReportInv, TypeInv
<1> QED BY <1>1, ReportInvAlways, PTL

(* loadCurrentReport, downloadReport: once a lone request is answered, the *)
(* page shows the open report over the period of its form, and the CSV     *)
(* buttons download the same.                                              *)
THEOREM ReportSettlesCurrent == ReportSpec => []SettledReportIsCurrent
<1>1. ReportInv => SettledReportIsCurrent
  BY DEF ReportInv, TypeInv, ReportTypeOK, OneRequest, SettledReportIsCurrent,
         AllAnswered
<1> QED BY <1>1, ReportInvAlways, PTL

(* setReportPreset, reportQuery, parseReportWindow: every preset of up to  *)
(* ninety days is within what the server accepts, on the day it is chosen. *)
THEOREM PresetsAccepted == ReportSpec => []PresetIsAcceptedTheSameDay
<1>1. ReportInv => PresetIsAcceptedTheSameDay
  <2> SUFFICES ASSUME ReportInv, chosen = today, chosen # Nil
               PROVE  parseReportWindow(downloadReport.from, downloadReport.to)
    BY DEF PresetIsAcceptedTheSameDay, PresetIsAccepted
  <2>1. today \in Int
    BY ReportAssumption DEF ReportInv, TypeInv, ReportTypeOK
  <2>2. PICK d \in Preset : form = [from |-> today - d + 1, to |-> today]
    BY DEF ReportInv, PresetInForm
  <2>3. d \in 1 .. 90
    BY ReportAssumption DEF DetailDays
  <2>4. downloadReport.from = today - d + 1 /\ downloadReport.to = today + 1
    BY <2>2 DEF downloadReport, reportQuery
  <2> QED BY <2>1, <2>3, <2>4 DEF parseReportWindow, DetailDays
<1> QED BY <1>1, ReportInvAlways, PTL

-----------------------------------------------------------------------------
(* Rounding: Tenths *)

LEMMA TenthsBounds ==
  ASSUME NEW n \in Int, NEW d \in Nat \ {0}
  PROVE  /\ Tenths(n, d) \in Int
         /\ (2 * d) * Tenths(n, d) <= 20 * n + d
         /\ 20 * n + d < (2 * d) * Tenths(n, d) + 2 * d
<1>1. 2 * d \in Nat \ {0} /\ 20 * n + d \in Int
  OBVIOUS
<1>2. ASSUME NEW m \in Int, NEW e \in Nat \ {0}
      PROVE  m \div e \in Int /\ e * (m \div e) <= m /\ m < e * (m \div e) + e
  OBVIOUS
<1> QED BY <1>1, <1>2 DEF Tenths

(* Of two quotients, that of the smaller dividend is not the larger. *)
LEMMA Quotients ==
  ASSUME NEW a \in Int, NEW b \in Int, NEW x \in Int, NEW y \in Int,
         NEW e \in Nat \ {0}, e * x <= a, b < e * y + e
  PROVE  /\ a <= b => x <= y
         /\ a + e <= b => x < y
<1>1. e * x \in Int /\ e * y \in Int /\ e * y + e = e * (y + 1)
  OBVIOUS
<1>2. ASSUME a <= b PROVE x <= y
  <2>1. e * x < e * (y + 1)
    BY <1>1, <1>2
  <2> QED BY <2>1
<1>3. ASSUME a + e <= b PROVE x < y
  <2>1. e * x < e * y
    BY <1>1, <1>3
  <2> QED BY <2>1
<1> QED BY <1>2, <1>3

(* More is never rounded to less, and what differs by a tenth is not       *)
(* rounded to the same.                                                    *)
LEMMA TenthsGrow ==
  ASSUME NEW m \in Int, NEW n \in Int, NEW d \in Nat \ {0}
  PROVE  /\ m <= n => Tenths(m, d) <= Tenths(n, d)
         /\ 10 * m + d <= 10 * n => Tenths(m, d) < Tenths(n, d)
<1>1. Tenths(m, d) \in Int /\ (2 * d) * Tenths(m, d) <= 20 * m + d
  BY TenthsBounds
<1>2. Tenths(n, d) \in Int /\ 20 * n + d < (2 * d) * Tenths(n, d) + 2 * d
  BY TenthsBounds
<1>3. 2 * d \in Nat \ {0} /\ 20 * m + d \in Int /\ 20 * n + d \in Int
  OBVIOUS
<1>4. /\ 20 * m + d <= 20 * n + d => Tenths(m, d) <= Tenths(n, d)
      /\ 20 * m + d + 2 * d <= 20 * n + d => Tenths(m, d) < Tenths(n, d)
  BY <1>1, <1>2, <1>3, Quotients
<1>5. /\ m <= n => 20 * m + d <= 20 * n + d
      /\ 10 * m + d <= 10 * n => 20 * m + d + 2 * d <= 20 * n + d
  OBVIOUS
<1> QED BY <1>4, <1>5

LEMMA TenthsOfWhole ==
  ASSUME NEW k \in Nat, NEW d \in Nat \ {0}, NEW n \in Int, n = k * d
  PROVE  Tenths(n, d) = 10 * k
<1> DEFINE t == Tenths(n, d)
           a == 20 * n + d
<1>1. 2 * d \in Nat \ {0} /\ 10 * k \in Int /\ a \in Int
  OBVIOUS
<1>2. t \in Int /\ (2 * d) * t <= a /\ a < (2 * d) * t + 2 * d
  BY TenthsBounds
<1>3. (2 * d) * (10 * k) = 20 * n
  OBVIOUS
<1>4. (2 * d) * (10 * k) <= a /\ a < (2 * d) * (10 * k) + 2 * d /\ a <= a
  BY <1>1, <1>3
<1> HIDE DEF t, a
<1>5. t <= 10 * k
  BY <1>1, <1>2, <1>4, Quotients
<1>6. 10 * k <= t
  BY <1>1, <1>2, <1>4, Quotients
<1>7. t = 10 * k
  BY <1>1, <1>2, <1>5, <1>6
<1> QED BY <1>7 DEF t

-----------------------------------------------------------------------------
(* The largest of the first k clicks, or one *)

Largest(clicks, k, m) ==
  /\ m >= 1 /\ (m = 1 \/ \E i \in 1 .. k : m = clicks[i])
  /\ \A i \in 1 .. k : m >= clicks[i]

(* Every beginning of the points has a largest.                            *)
ChartsInv ==
  /\ points \in Seq(Clicks) /\ Len(points) <= MaxPoints
  /\ drawn = charts(points)
  /\ \A k \in 0 .. Len(points) : \E m \in Nat : Largest(points, k, m)

LEMMA ClicksAreCounts ==
  ASSUME NEW s \in Seq(Clicks)
  PROVE  /\ Len(s) \in Nat /\ DOMAIN s = 1 .. Len(s)
         /\ \A i \in 1 .. Len(s) : s[i] \in Nat
<1>1. Len(s) \in Nat /\ DOMAIN s = 1 .. Len(s)
  BY LenProperties
<1>2. \A i \in 1 .. Len(s) : s[i] \in Clicks
  BY ElementOfSeq
<1> QED BY <1>1, <1>2, ChartAssumption

LEMMA MostIsLargest ==
  ASSUME NEW s \in Seq(Clicks), \E m \in Nat : Largest(s, Len(s), m)
  PROVE  Most(s) \in Nat \ {0} /\ Largest(s, Len(s), Most(s))
<1> DEFINE S == {1} \cup {s[i] : i \in DOMAIN s}
           P(m) == m >= 1 /\ \A i \in DOMAIN s : m >= s[i]
<1>1. PICK m \in Nat : Largest(s, Len(s), m)
  OBVIOUS
<1>2. /\ DOMAIN s = 1 .. Len(s) /\ Len(s) \in Nat
      /\ \A i \in 1 .. Len(s) : s[i] \in Nat
  BY ClicksAreCounts
<1>3. m \in S /\ P(m)
  BY <1>1, <1>2 DEF Largest
<1>4. Most(s) \in S /\ P(Most(s))
  <2>1. Most(s) = CHOOSE x \in S : P(x)
    BY DEF Most
  <2> QED BY <1>3, <2>1
<1> QED BY <1>2, <1>4 DEF Largest

LEMMA ChartsInvInit == ChartsInit => ChartsInv
<1> SUFFICES ASSUME ChartsInit
             PROVE  ChartsInv
  OBVIOUS
<1>1. points = <<>> /\ points \in Seq(Clicks) /\ Len(points) = 0
  BY DEF ChartsInit
<1>2. ASSUME NEW k \in 0 .. Len(points)
      PROVE  Largest(points, k, 1)
  BY <1>1, <1>2 DEF Largest
<1>3. \A k \in 0 .. Len(points) : \E m \in Nat : Largest(points, k, m)
  BY <1>2
<1> QED BY <1>1, <1>3, ChartAssumption DEF ChartsInit, ChartsInv

(* The new point is the largest, or the largest is what it was.            *)
LEMMA ChartsInvStep == ChartsInv /\ [ChartsNext]_chartsVars => ChartsInv'
<1> SUFFICES ASSUME ChartsInv, [ChartsNext]_chartsVars
             PROVE  ChartsInv'
  OBVIOUS
<1>1. CASE UNCHANGED chartsVars
  BY <1>1 DEF chartsVars, ChartsInv, Largest
<1>2. CASE renderCharts
  <2>1. PICK c \in Clicks : /\ Len(points) < MaxPoints
                            /\ points' = Append(points, c)
                            /\ drawn' = charts(points')
    BY <1>2 DEF renderCharts
  <2> DEFINE n == Len(points)
  <2>2. /\ n \in Nat /\ c \in Nat /\ \A i \in 1 .. n : points[i] \in Nat
    BY ChartAssumption, ClicksAreCounts DEF ChartsInv
  <2>3. /\ points' \in Seq(Clicks) /\ Len(points') = n + 1
        /\ points'[n + 1] = c /\ \A i \in 1 .. n : points'[i] = points[i]
    BY <2>1, AppendProperties DEF ChartsInv
  <2>4. ASSUME NEW k \in 0 .. n
        PROVE  \E m \in Nat : Largest(points', k, m)
    <3>1. PICK m \in Nat : Largest(points, k, m)
      BY DEF ChartsInv
    <3>2. \A i \in 1 .. k : points'[i] = points[i]
      BY <2>2, <2>3
    <3> QED BY <3>1, <3>2 DEF Largest
  <2>5. \E m \in Nat : Largest(points', n + 1, m)
    <3>1. PICK m \in Nat : Largest(points, n, m)
      BY <2>2 DEF ChartsInv
    <3>2. CASE c > m
      <4>1. Largest(points', n + 1, c)
        BY <2>2, <2>3, <3>1, <3>2 DEF Largest
      <4> QED BY <2>2, <4>1
    <3>3. CASE ~(c > m)
      <4>1. Largest(points', n + 1, m)
        BY <2>2, <2>3, <3>1, <3>3 DEF Largest
      <4> QED BY <4>1
    <3> QED BY <3>2, <3>3
  <2>6. Len(points') <= MaxPoints
    BY <2>1, <2>2, <2>3, ChartAssumption
  <2>7. \A k \in 0 .. Len(points') : \E m \in Nat : Largest(points', k, m)
    BY <2>2, <2>3, <2>4, <2>5
  <2> QED BY <2>1, <2>3, <2>6, <2>7 DEF ChartsInv
<1> QED BY <1>1, <1>2 DEF ChartsNext

LEMMA ChartsInvAlways == ChartsSpec => []ChartsInv
BY ChartsInvInit, ChartsInvStep, PTL DEF ChartsSpec

-----------------------------------------------------------------------------
(* The line *)

(* A day's place on the line: day i of n, with c clicks of at most max.    *)
Across(i, n) == 420 + Tenths((i - 1) * 660, n - 1)
Down(c, max) == 180 + Tenths((max - c) * 178, max)

LEMMA LineIs ==
  ASSUME NEW s \in Seq(Clicks), Len(s) >= 2
  PROVE  LET line == lineChartCard(s).line IN
         /\ Len(line) = Len(s)
         /\ \A i \in 1 .. Len(s) : /\ line[i].x = Across(i, Len(s))
                                   /\ line[i].y = Down(s[i], Most(s))
<1> DEFINE n == Len(s)
           at == Coords(s)
           line == [i \in 1 .. n |-> at[i - 1]]
<1>1. n \in Nat /\ n >= 2
  BY LenProperties
<1>2. lineChartCard(s).line = line
  BY <1>1 DEF lineChartCard
<1>3. Len(line) = n
  BY <1>1
<1>4. ASSUME NEW i \in 1 .. n
      PROVE  at[i - 1].x = Across(i, n) /\ at[i - 1].y = Down(s[i], Most(s))
  <2>1. i - 1 \in 0 .. n - 1 /\ (i - 1) + 1 = i /\ Span(n) = n - 1
    BY <1>1 DEF Span
  <2> QED BY <2>1 DEF Coords, Across, Down, width, left, right, top, bottom, height
<1> QED BY <1>2, <1>3, <1>4

LEMMA AcrossIs ==
  ASSUME NEW n \in Nat, n >= 2, n <= 6601
  PROVE  /\ Across(1, n) = 420 /\ Across(n, n) = 7020
         /\ \A i \in 1 .. n : Across(i, n) \in Int
         /\ \A i, j \in 1 .. n : i < j => Across(i, n) < Across(j, n)
<1> DEFINE d == n - 1
           p(i) == (i - 1) * 660
           T(i) == Tenths(p(i), d)
<1>1. d \in Nat \ {0} /\ d <= 6600
  OBVIOUS
<1>2. \A i \in 1 .. n : p(i) \in Int /\ Across(i, n) = 420 + T(i)
  BY DEF Across
<1>3. /\ 1 \in 1 .. n /\ n \in 1 .. n
      /\ p(1) = 0 * d /\ p(n) = 660 * d
  OBVIOUS
<1>4. \A i, j \in 1 .. n : i < j => 10 * p(i) + d <= 10 * p(j)
  OBVIOUS
<1> HIDE DEF d, p
<1>5. T(1) = 0 /\ T(n) = 6600
  <2>1. T(1) = 10 * 0
    BY <1>1, <1>2, <1>3, TenthsOfWhole
  <2>2. p(n) \in Int /\ p(n) = 660 * d /\ d \in Nat \ {0} /\ 660 \in Nat
    BY <1>1, <1>2, <1>3
  <2>3. \A m \in Int : m = 660 * d => Tenths(m, d) = 10 * 660
    <3> DEFINE k == 660
    <3>1. k \in Nat
      OBVIOUS
    <3> HIDE DEF k
    <3>2. \A m \in Int : m = k * d => Tenths(m, d) = 10 * k
      BY <1>1, <3>1, TenthsOfWhole
    <3> QED BY <3>2 DEF k
  <2>4. T(n) = 10 * 660
    BY <2>2, <2>3
  <2> QED BY <2>1, <2>4
<1>6. \A i \in 1 .. n : T(i) \in Int
  BY <1>1, <1>2, TenthsBounds
<1>7. \A i, j \in 1 .. n : i < j => T(i) < T(j)
  BY <1>1, <1>2, <1>4, TenthsGrow
<1> HIDE DEF T
<1> QED BY <1>2, <1>3, <1>5, <1>6, <1>7

LEMMA DownIs ==
  ASSUME NEW max \in Nat \ {0}
  PROVE  /\ \A c \in 0 .. max : 180 <= Down(c, max) /\ Down(c, max) <= 1960
         /\ \A b, c \in 0 .. max : b < c => Down(b, max) >= Down(c, max)
<1> DEFINE p(c) == (max - c) * 178
           T(c) == Tenths(p(c), max)
<1>1. \A c \in 0 .. max : p(c) \in Int /\ Down(c, max) = 180 + T(c)
  BY DEF Down
<1>2. /\ 0 \in 0 .. max /\ max \in 0 .. max
      /\ p(0) = 178 * max /\ p(max) = 0 * max
  OBVIOUS
<1>3. \A b, c \in 0 .. max : b <= c => p(c) <= p(b)
  OBVIOUS
<1> HIDE DEF p
<1>4. T(max) = 0 /\ T(0) = 1780
  <2>1. T(max) = 10 * 0
    BY <1>1, <1>2, TenthsOfWhole
  <2>2. T(0) = 10 * 178
    BY <1>1, <1>2, TenthsOfWhole
  <2> QED BY <2>1, <2>2
<1>5. \A c \in 0 .. max : T(c) \in Int
  BY <1>1, TenthsBounds
<1>6. \A b, c \in 0 .. max : b <= c => T(c) <= T(b)
  BY <1>1, <1>3, TenthsGrow
<1> HIDE DEF T
<1>7. ASSUME NEW c \in 0 .. max
      PROVE  180 <= Down(c, max) /\ Down(c, max) <= 1960
  <2>1. T(max) <= T(c) /\ T(c) <= T(0) /\ T(c) \in Int
    BY <1>2, <1>5, <1>6
  <2>2. Down(c, max) = 180 + T(c)
    BY <1>1
  <2> QED BY <1>4, <2>1, <2>2
<1>8. ASSUME NEW b \in 0 .. max, NEW c \in 0 .. max, b < c
      PROVE  Down(b, max) >= Down(c, max)
  <2>1. /\ T(c) <= T(b) /\ T(b) \in Int /\ T(c) \in Int
        /\ Down(b, max) = 180 + T(b) /\ Down(c, max) = 180 + T(c)
    BY <1>1, <1>5, <1>6, <1>8
  <2> QED BY <2>1
<1> QED BY <1>7, <1>8

LEMMA LineIsFaithful ==
  ASSUME ChartsInv, MaxPoints <= 6601
  PROVE  LineFollowsClicks
<1> DEFINE line == drawn.trend.line
           n == Len(points)
<1>1. /\ n \in Nat /\ n <= 6601 /\ line = lineChartCard(points).line
      /\ \A i \in 1 .. n : points[i] \in Nat
  BY ClicksAreCounts, ChartAssumption DEF ChartsInv, charts
<1>2. CASE n < 2
  <2>1. line = <<>>
    BY <1>1, <1>2 DEF lineChartCard
  <2> QED BY <1>2, <2>1 DEF LineFollowsClicks
<1>3. CASE n >= 2
  <2> DEFINE max == Most(points)
  <2>1. /\ Len(line) = n
        /\ \A i \in 1 .. n : /\ line[i].x = Across(i, n)
                             /\ line[i].y = Down(points[i], max)
    BY <1>1, <1>3, LineIs DEF ChartsInv
  <2>2. \E m \in Nat : Largest(points, n, m)
    BY <1>1 DEF ChartsInv
  <2>3. max \in Nat \ {0} /\ \A i \in 1 .. n : points[i] \in 0 .. max
    <3>1. max \in Nat \ {0} /\ Largest(points, n, max)
      BY <2>2, MostIsLargest DEF ChartsInv
    <3> HIDE DEF max, n
    <3> QED BY <1>1, <3>1 DEF Largest
  <2> HIDE DEF line, n, max
  <2>4. /\ Across(1, n) = 420 /\ Across(n, n) = 7020
        /\ \A i, j \in 1 .. n : i < j => Across(i, n) < Across(j, n)
    BY <1>1, <1>3, AcrossIs
  <2>5. 1 \in 1 .. n /\ n \in 1 .. n
    BY <1>1, <1>3
  <2>6. line[1].x = 420 /\ line[n].x = 7020
    BY <2>1, <2>4, <2>5
  <2>7. ASSUME NEW i \in 1 .. n
        PROVE  180 <= line[i].y /\ line[i].y <= 1960
    <3>1. points[i] \in 0 .. max
      BY <2>3
    <3>2. \A c \in 0 .. max : 180 <= Down(c, max) /\ Down(c, max) <= 1960
      BY <2>3, DownIs
    <3> QED BY <2>1, <3>1, <3>2
  <2>8. ASSUME NEW i \in 1 .. n, NEW j \in 1 .. n, i < j
        PROVE  line[i].x < line[j].x
    <3>1. Across(i, n) < Across(j, n)
      BY <2>4, <2>8
    <3> QED BY <2>1, <3>1
  <2>9. ASSUME NEW i \in 1 .. n, NEW j \in 1 .. n, points[i] < points[j]
        PROVE  line[i].y >= line[j].y
    <3>1. points[i] \in 0 .. max /\ points[j] \in 0 .. max
      BY <2>3
    <3>2. Down(points[i], max) >= Down(points[j], max)
      BY <2>3, <2>9, <3>1, DownIs
    <3> QED BY <2>1, <3>2
  <2>10. Len(drawn.trend.line) = n /\ Len(points) = n /\ line = drawn.trend.line
    BY <2>1 DEF line, n
  <2>11. n # 0 /\ ~(n < 2)
    BY <1>1, <1>3
  <2>12. \A i, j \in 1 .. n : /\ i < j => line[i].x < line[j].x
                              /\ points[i] < points[j] => line[i].y >= line[j].y
    BY <2>8, <2>9
  <2>13. \A i \in 1 .. n : 180 <= line[i].y /\ line[i].y <= 1960
    BY <2>7
  <2> QED
    <3> DEFINE l == drawn.trend.line
    <3>1. /\ l[1].x = 420 /\ l[n].x = 7020
          /\ \A i \in 1 .. n : 180 <= l[i].y /\ l[i].y <= 1960
          /\ \A i, j \in 1 .. n : /\ i < j => l[i].x < l[j].x
                                  /\ points[i] < points[j] => l[i].y >= l[j].y
      BY <2>6, <2>10, <2>12, <2>13
    <3>2. Len(l) = n /\ (Len(points) < 2 <=> n = 0)
      BY <2>10, <2>11
    <3> HIDE DEF l
    <3> QED BY <3>1, <3>2, <2>11 DEF LineFollowsClicks, l
<1> QED BY <1>1, <1>2, <1>3

-----------------------------------------------------------------------------
(* The labels of the days *)

Label(x) == [x |-> x, anchor |-> Anchor(x)]

(* The day in the middle is right of the middle of the picture. *)
LEMMA MiddleIs ==
  ASSUME NEW n \in Nat, n >= 3
  PROVE  /\ n \div 2 + 1 \in 1 .. n /\ Across(n \div 2 + 1, n) \in Int
         /\ 3720 <= Across(n \div 2 + 1, n) /\ Across(n \div 2 + 1, n) <= 4820
<1> DEFINE m == n \div 2
           d == n - 1
           p == m * 660
<1>1. m \in Int /\ 2 * m <= n /\ n <= 2 * m + 1
  OBVIOUS
<1> HIDE DEF m
<1>2. /\ d \in Nat \ {0} /\ p \in Int /\ m + 1 \in 1 .. n
      /\ (m + 1) - 1 = m
      /\ 330 * d <= p /\ p <= 440 * d
      /\ 330 * d \in Int /\ 440 * d \in Int
  BY <1>1
<1>3. Across(m + 1, n) = 420 + Tenths(p, d)
  BY <1>2 DEF Across
<1> HIDE DEF p, d
<1>4. Tenths(330 * d, d) = 3300 /\ Tenths(440 * d, d) = 4400
  <2>1. ASSUME NEW k \in Nat
        PROVE  \A q \in Int : q = k * d => Tenths(q, d) = 10 * k
    BY <1>2, TenthsOfWhole
  <2>2. Tenths(330 * d, d) = 10 * 330
    BY <1>2, <2>1
  <2>3. Tenths(440 * d, d) = 10 * 440
    BY <1>2, <2>1
  <2> QED BY <2>2, <2>3
<1>5. Tenths(330 * d, d) <= Tenths(p, d) /\ Tenths(p, d) <= Tenths(440 * d, d)
  BY <1>2, TenthsGrow
<1>6. Tenths(p, d) \in Int
  BY <1>2, TenthsBounds
<1>7. Across(m + 1, n) \in Int /\ 3720 <= Across(m + 1, n) /\ Across(m + 1, n) <= 4820
  BY <1>3, <1>4, <1>5, <1>6
<1> QED BY <1>2, <1>7 DEF m

LEMMA LabelsAre ==
  ASSUME NEW s \in Seq(Clicks), Len(s) >= 2, NEW l \in lineChartCard(s).labels
  PROVE  \/ l = Label(Across(1, Len(s))) \/ l = Label(Across(Len(s), Len(s)))
         \/ Len(s) >= 3 /\ l = Label(Across(Len(s) \div 2 + 1, Len(s)))
<1> DEFINE n == Len(s)
           at == Coords(s)
<1>1. n \in Nat /\ n >= 2
  BY LenProperties
<1>2. PICK i \in {0, n - 1, n \div 2} : l = [x |-> at[i].x, anchor |-> Anchor(at[i].x)]
  BY <1>1 DEF lineChartCard, Labels
<1>3. i \in 0 .. n - 1
  BY <1>1, <1>2
<1>4. at[i].x = Across(i + 1, n)
  <2>1. (i + 1) - 1 = i /\ Span(n) = n - 1
    BY <1>1, <1>3 DEF Span
  <2> QED BY <1>3, <2>1 DEF Coords, Across, width, left, right, top, bottom, height
<1>5. l = Label(Across(i + 1, n))
  BY <1>2, <1>4 DEF Label
<1>6. i = 0 \/ i = n - 1 \/ (n >= 3 /\ i = n \div 2)
  BY <1>1, <1>2
<1> QED BY <1>1, <1>5, <1>6

Middling(x) == x \in Int /\ 3720 <= x /\ x <= 4820

LEMMA LabelsAreReadable ==
  ASSUME ChartsInv, MaxPoints <= 6601, LabelWidth <= 1650
  PROVE  LabelsReadable
<1> DEFINE n == Len(points)
<1>1. /\ n \in Nat /\ n <= 6601 /\ LabelWidth \in Nat
      /\ drawn.trend.labels = lineChartCard(points).labels
  BY ClicksAreCounts, ChartAssumption DEF ChartsInv, charts
<1>2. CASE n < 2
  <2>1. drawn.trend.labels = {}
    BY <1>1, <1>2 DEF lineChartCard
  <2> QED BY <2>1 DEF LabelsReadable
<1>3. CASE n >= 2
  <2> DEFINE mid == Across(n \div 2 + 1, n)
  <2>1. Across(1, n) = 420 /\ Across(n, n) = 7020
    BY <1>1, <1>3, AcrossIs
  <2>2. n >= 3 => Middling(mid)
    BY <1>1, MiddleIs DEF Middling
  <2>3. ASSUME NEW l \in drawn.trend.labels
        PROVE  l = Label(420) \/ l = Label(7020) \/ (n >= 3 /\ l = Label(mid))
    BY <1>1, <1>3, <2>1, LabelsAre DEF ChartsInv
  <2>4. From(Label(420)) = 420 /\ From(Label(7020)) = 7020 - LabelWidth
    BY DEF From, Label, Anchor, left, width
  <2> HIDE DEF mid, n
  <2>5. ASSUME n >= 3
        PROVE  From(Label(mid)) = mid - LabelWidth
    <3>1. 10 * left = 420 /\ 5 * width = 3600
      BY DEF left, width
    <3>2. mid # 420 /\ mid > 3600
      BY <2>2, <2>5 DEF Middling
    <3>3. Anchor(mid) = "end"
      BY <3>1, <3>2 DEF Anchor
    <3> QED BY <3>3 DEF From, Label
  <2>6. ASSUME NEW l \in drawn.trend.labels
        PROVE  /\ From(l) \in Int /\ From(l) >= 0 /\ From(l) + LabelWidth <= 7200
               /\ \/ l = Label(420) /\ From(l) = 420
                  \/ l = Label(7020) /\ From(l) = 7020 - LabelWidth
                  \/ /\ n >= 3 /\ l = Label(mid)
                     /\ From(l) + LabelWidth = mid /\ Middling(mid)
    <3>1. CASE l = Label(420)
      BY <1>1, <2>4, <3>1
    <3>2. CASE l = Label(7020)
      BY <1>1, <2>4, <3>2
    <3>3. CASE n >= 3 /\ l = Label(mid)
      BY <1>1, <2>2, <2>5, <3>3 DEF Middling
    <3> QED BY <2>3, <3>1, <3>2, <3>3
  <2>7. ASSUME NEW k \in drawn.trend.labels, NEW l \in drawn.trend.labels, k # l
        PROVE  From(k) + LabelWidth <= From(l) \/ From(l) + LabelWidth <= From(k)
    BY <1>1, <2>6, <2>7 DEF Middling
  <2> QED BY <2>6, <2>7 DEF LabelsReadable
<1> QED BY <1>1, <1>2, <1>3

-----------------------------------------------------------------------------
(* The bars *)

(* The largest click count makes the longest bar, of a hundred per cent.   *)
LEMMA BarIs ==
  ASSUME NEW max \in Nat \ {0}
  PROVE  /\ \A c \in 0 .. max : /\ ShownBar(c, max) \in Int
                                /\ 20 <= ShownBar(c, max) /\ ShownBar(c, max) <= 1000
         /\ ShownBar(max, max) = 1000
         /\ \A b, c \in 0 .. max : b <= c => ShownBar(b, max) <= ShownBar(c, max)
<1> DEFINE T(c) == Tenths(c * 100, max)
<1>1. T(max) = 1000
  <2>1. max * 100 = 100 * max /\ max * 100 \in Int
    OBVIOUS
  <2>2. \A m \in Int : m = 100 * max => Tenths(m, max) = 10 * 100
    BY TenthsOfWhole
  <2> QED BY <2>1, <2>2
<1>2. \A c \in 0 .. max : T(c) \in Int
  <2>1. \A c \in 0 .. max : c * 100 \in Int
    OBVIOUS
  <2> QED BY <2>1, TenthsBounds
<1>3. \A b, c \in 0 .. max : b <= c => T(b) <= T(c)
  <2>1. \A c \in 0 .. max : c * 100 \in Int
    OBVIOUS
  <2>2. \A b, c \in 0 .. max : b <= c => b * 100 <= c * 100
    OBVIOUS
  <2> QED BY <2>1, <2>2, TenthsGrow
<1>4. \A c, m : ShownBar(c, m) = IF Tenths(c * 100, m) < 20 THEN 20 ELSE Tenths(c * 100, m)
  BY DEF ShownBar
<1>5. \A c : ShownBar(c, max) = IF T(c) < 20 THEN 20 ELSE T(c)
  BY <1>4
<1>6. max \in 0 .. max
  OBVIOUS
<1> HIDE DEF T
<1>7. \A c \in 0 .. max : T(c) <= 1000
  BY <1>1, <1>3, <1>6
<1> QED BY <1>1, <1>2, <1>3, <1>5, <1>6, <1>7

LEMMA BarsAreFaithful ==
  ASSUME ChartsInv
  PROVE  BarsFollowClicks
<1> DEFINE n == Len(points)
           k == IF n < 8 THEN n ELSE 8
           beginning == SubSeq(points, 1, k)
           max == Most(beginning)
           bars == drawn.bars
<1>1. /\ n \in Nat /\ \A i \in 1 .. n : points[i] \in Nat
      /\ points \in Seq(Clicks)
  BY ClicksAreCounts DEF ChartsInv
<1>2. k \in 0 .. n /\ k <= 8 /\ k \in Nat
  BY <1>1
<1>3. /\ beginning \in Seq(Clicks) /\ Len(beginning) = k /\ DOMAIN beginning = 1 .. k
      /\ \A i \in 1 .. k : beginning[i] = points[i]
  BY <1>1, <1>2
<1>4. bars = [i \in DOMAIN beginning |-> ShownBar(beginning[i], max)]
  BY DEF ChartsInv, charts, barChartCard
<1>5. /\ Len(bars) = k /\ DOMAIN bars = 1 .. k
      /\ \A i \in 1 .. k : bars[i] = ShownBar(points[i], max)
  BY <1>2, <1>3, <1>4
<1>6. \E m \in Nat : Largest(beginning, k, m)
  <2>1. PICK m \in Nat : Largest(points, k, m)
    BY <1>2 DEF ChartsInv
  <2> QED BY <1>3, <2>1 DEF Largest
<1>7. max \in Nat \ {0} /\ Largest(beginning, k, max)
  BY <1>3, <1>6, MostIsLargest
<1> HIDE DEF k, beginning, max, bars, n
<1>8. ASSUME NEW i \in 1 .. k
      PROVE  points[i] \in 0 .. max
  BY <1>1, <1>2, <1>3, <1>7 DEF Largest
<1>9. /\ \A c \in 0 .. max : 20 <= ShownBar(c, max) /\ ShownBar(c, max) <= 1000
      /\ ShownBar(max, max) = 1000
      /\ \A b, c \in 0 .. max : b <= c => ShownBar(b, max) <= ShownBar(c, max)
  BY <1>7, BarIs
<1>10. ASSUME NEW i \in 1 .. k
       PROVE  20 <= bars[i] /\ bars[i] <= 1000
  BY <1>5, <1>8, <1>9
<1>11. ASSUME NEW i \in 1 .. k, NEW j \in 1 .. k, points[i] <= points[j]
       PROVE  bars[i] <= bars[j]
  BY <1>5, <1>8, <1>9, <1>11
<1>12. ASSUME NEW i \in 1 .. k, points[i] > 0
       PROVE  \E j \in 1 .. k : bars[j] = 1000
  <2>1. PICK j \in 1 .. k : points[j] = max
    <3>1. CASE max = 1
      <4>1. points[i] = max
        BY <1>8, <1>12, <3>1
      <4> QED BY <4>1
    <3>2. CASE max # 1
      BY <1>3, <1>7, <3>2 DEF Largest
    <3> QED BY <3>1, <3>2
  <2>2. bars[j] = 1000
    BY <1>5, <1>9, <2>1
  <2> QED BY <2>2
<1> QED BY <1>2, <1>5, <1>10, <1>11, <1>12 DEF BarsFollowClicks, bars

-----------------------------------------------------------------------------
(* The shares *)

(* What two shares are rounded up by adds up to one tenth at most.         *)
LEMMA SharesOf ==
  ASSUME NEW a \in Nat, NEW b \in Nat, a + b # 0
  PROVE  Tenths(a * 100, a + b) + Tenths(b * 100, a + b) \in {1000, 1001}
<1> DEFINE e == 2 * (a + b)
           s == Tenths(a * 100, a + b)
           t == Tenths(b * 100, a + b)
<1>1. a + b \in Nat \ {0} /\ e \in Nat \ {0} /\ a * 100 \in Int /\ b * 100 \in Int
  OBVIOUS
<1>2. /\ s \in Int /\ e * s <= 20 * (a * 100) + (a + b)
      /\ 20 * (a * 100) + (a + b) < e * s + e
  BY <1>1, TenthsBounds
<1>3. /\ t \in Int /\ e * t <= 20 * (b * 100) + (a + b)
      /\ 20 * (b * 100) + (a + b) < e * t + e
  BY <1>1, TenthsBounds
<1>4. 20 * (a * 100) + (a + b) + (20 * (b * 100) + (a + b)) = e * 1001
  OBVIOUS
<1> HIDE DEF e, s, t
<1>5. e * (s + t) = e * s + e * t /\ e * (s + t + 2) = e * s + e * t + e + e
  BY <1>1, <1>2, <1>3
<1>6. e * (s + t) <= e * 1001 /\ e * 1001 < e * (s + t + 2)
  <2> DEFINE p == 20 * (a * 100) + (a + b)
             q == 20 * (b * 100) + (a + b)
             es == e * s
             et == e * t
  <2>1. p \in Int /\ q \in Int /\ es \in Int /\ et \in Int
    BY <1>1, <1>2, <1>3
  <2> HIDE DEF p, q, es, et
  <2>2. es + et <= p + q /\ p + q < es + et + e + e
    BY <1>1, <1>2, <1>3, <2>1 DEF p, q, es, et
  <2> QED BY <1>4, <1>5, <2>2 DEF p, q, es, et
<1>7. s + t \in Int /\ s + t <= 1001 /\ 1001 < s + t + 2
  BY <1>1, <1>2, <1>3, <1>6
<1>8. s + t \in {1000, 1001}
  BY <1>7
<1> QED BY <1>8 DEF s, t

LEMMA SharesAreFaithful ==
  ASSUME ChartsInv
  PROVE  SharesAddUp
<1> DEFINE z == points \o <<0, 0>>
           both == SubSeq(z, 1, 2)
           a == both[1]
           b == both[2]
<1>1. Len(points) \in Nat /\ \A i \in 1 .. Len(points) : points[i] \in Nat
  BY ClicksAreCounts DEF ChartsInv
<1>2. z \in Seq(Nat) /\ Len(z) >= 2
  <2>1. points \in Seq(Nat)
    BY <1>1, ChartAssumption DEF ChartsInv
  <2>2. <<0, 0>> \in Seq(Nat) /\ Len(<<0, 0>>) = 2
    OBVIOUS
  <2> QED BY <1>1, <2>1, <2>2, ConcatProperties
<1> HIDE DEF z
<1>3. a \in Nat /\ b \in Nat
  BY <1>2
<1>4. drawn.shares = compositionChartCard(both)
  BY DEF ChartsInv, charts, z
<1> HIDE DEF both
<1>5. (a + b) - a = b
  BY <1>3
<1>6. drawn.shares = IF a + b = 0 THEN <<>>
                     ELSE <<Tenths(a * 100, a + b), Tenths(b * 100, a + b)>>
  BY <1>4, <1>5 DEF compositionChartCard
<1> QED BY <1>3, <1>6, SharesOf DEF SharesAddUp

-----------------------------------------------------------------------------
(* Theorems *)

(* lineChartCard, for every number of clicks: the line runs across the      *)
(* plot, always forwards, rises with the clicks, and its labels can be      *)
(* read.  A report has at most a point a day, and never nearly as many as   *)
(* the plot has tenths; a label "MM-DD" is narrower than a quarter of it.   *)
THEOREM TrendAlwaysFaithful ==
  ASSUME MaxPoints <= 6601, LabelWidth <= 1650
  PROVE  ChartsSpec => []TrendIsFaithful
<1>1. ChartsInv => TrendIsFaithful
  BY LineIsFaithful, LabelsAreReadable DEF TrendIsFaithful
<1> QED BY <1>1, ChartsInvAlways, PTL

(* barChartCard, compositionChartCard, for every number of clicks and keys: *)
(* bars in the order of the clicks, the longest of them full, and shares    *)
(* that add up to the whole but for a tenth.                                *)
THEOREM BreakdownAlwaysFaithful ==
  ChartsSpec => []BreakdownIsFaithful
<1>1. ChartsInv => BreakdownIsFaithful
  BY BarsAreFaithful, SharesAreFaithful DEF BreakdownIsFaithful
<1> QED BY <1>1, ChartsInvAlways, PTL
=============================================================================
