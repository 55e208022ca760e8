------------------------------- MODULE Charts -------------------------------
(***************************************************************************)
(* The charts of a report: a line over the days of the period, bars for    *)
(* the breakdowns, and the two shares of human and bot traffic.            *)
(*                                                                         *)
(* Lengths and percentages are integers in tenths, rounded to the nearest  *)
(* one as toFixed(1) and reportNumber(v, 1) do.  A report is built up one  *)
(* point at a time: a day for the line, a key for a breakdown.             *)
(***************************************************************************)
EXTENDS Integers, Sequences, FiniteSets

CONSTANTS
  Clicks,      \* clicks of a point
  MaxPoints,   \* bound on the points of a chart
  LabelWidth   \* width of a label "MM-DD", in tenths

ASSUME ChartAssumption ==
  /\ Clicks \subseteq Nat
  /\ MaxPoints \in Nat
  /\ LabelWidth \in Nat

VARIABLES
  points,  \* clicks of the points of the report, in the order of the answer
  drawn    \* the charts of the last renderReport

chartsVars == <<points, drawn>>

Tenths(n, d) == (20 * n + d) \div (2 * d)

(* Math.max.apply(null, [1].concat(clicks)) *)
Most(clicks) ==
  CHOOSE m \in {1} \cup {clicks[i] : i \in DOMAIN clicks} :
    m >= 1 /\ \A i \in DOMAIN clicks : m >= clicks[i]

width == 720
left == 42
right == 18
top == 18
bottom == 34
height == 230

(* Variants of Span and ShownBar, with a plausible slip in each. *)
SpanOfAll(n) == n
BarOfAllPoints(c, max) == Tenths(c * 100, max)

Anchor(x) ==
  CASE x = 10 * left     -> "start"
    [] x > 5 * width -> "end"
    [] OTHER         -> "middle"

Span(n) == IF n > 1 THEN n - 1 ELSE 1

Coords(clicks) ==
  LET n == Len(clicks)
      span == Span(n)
      max == Most(clicks)
  IN  [i \in 0..n - 1 |->
         [x |-> 10 * left + Tenths(i * (width - left - right), span),
          y |-> 10 * top + Tenths((max - clicks[i + 1]) * (height - top - bottom),
                                  max)]]

(* The first day, the last one and the one in the middle get a label.      *)
Labels(n) == {0, n - 1, n \div 2}

(* No line with less than two days. *)
lineChartCard(clicks) ==
  IF Len(clicks) < 2 THEN [line |-> <<>>, labels |-> {}]
  ELSE LET at == Coords(clicks) IN
       [line |-> [i \in 1..Len(clicks) |-> at[i - 1]],
        labels |-> {[x |-> at[i].x, anchor |-> Anchor(at[i].x)] :
                      i \in Labels(Len(clicks))}]

ShownBar(c, max) == IF Tenths(c * 100, max) < 20 THEN 20 ELSE Tenths(c * 100, max)

(* The first eight keys; a bar is never thinner than two per cent.         *)
barChartCard(clicks) ==
  LET shown == SubSeq(clicks, 1, IF Len(clicks) < 8 THEN Len(clicks) ELSE 8)
  IN  [i \in DOMAIN shown |-> ShownBar(shown[i], Most(shown))]

(* The shares of human and bot clicks, as the legend states them.          *)
compositionChartCard(clicks) ==
  LET total == clicks[1] + clicks[2] IN
  IF total = 0 THEN <<>>
  ELSE <<Tenths(clicks[1] * 100, total),
         Tenths((total - clicks[1]) * 100, total)>>

(* The charts of a report.  A traffic breakdown has the keys human and     *)
(* bot; a missing one counts as zero.                                      *)
charts(clicks) ==
  [trend |-> lineChartCard(clicks),
   bars |-> barChartCard(clicks),
   shares |-> compositionChartCard(SubSeq(clicks \o <<0, 0>>, 1, 2))]

ChartsInit == points = <<>> /\ drawn = charts(<<>>)

renderCharts ==
  \E c \in Clicks :
    /\ Len(points) < MaxPoints
    /\ points' = Append(points, c)
    /\ drawn' = charts(points')

ChartsNext == renderCharts

ChartsSpec == ChartsInit /\ [][ChartsNext]_chartsVars
-----------------------------------------------------------------------------
(* Properties *)

(* lineChartCard: the line runs from the left edge of the plot to the      *)
(* right one, always forwards and inside the plot, and is higher on a day  *)
(* with more clicks.                                                       *)
LineFollowsClicks ==
  LET line == drawn.trend.line
      n == Len(line)
  IN  /\ Len(points) < 2 <=> n = 0
      /\ n > 0 => line[1].x = 420 /\ line[n].x = 7020
      /\ \A i \in 1..n : 180 <= line[i].y /\ line[i].y <= 1960
      /\ \A i, j \in 1..n :
           /\ i < j => line[i].x < line[j].x
           /\ points[i] < points[j] => line[i].y >= line[j].y

From(l) == CASE l.anchor = "start"  -> l.x
             [] l.anchor = "end"    -> l.x - LabelWidth
             [] l.anchor = "middle" -> l.x - LabelWidth \div 2

(* lineChartCard: the labels of the days neither cover each other nor      *)
(* leave the picture.                                                      *)
LabelsReadable ==
  /\ \A l \in drawn.trend.labels : From(l) >= 0 /\ From(l) + LabelWidth <= 7200
  /\ \A k, l \in drawn.trend.labels :
       k # l => From(k) + LabelWidth <= From(l) \/ From(l) + LabelWidth <= From(k)

(* lineChartCard: the line runs across the plot, rises with the clicks and  *)
(* has labels that can be read.                                            *)
TrendIsFaithful == LineFollowsClicks /\ LabelsReadable

(* barChartCard: every bar is visible and fits, the longest one fills its  *)
(* row, and more clicks never give a shorter bar.                          *)
BarsFollowClicks ==
  LET bars == drawn.bars IN
  /\ Len(bars) <= 8
  /\ \A i \in DOMAIN bars : 20 <= bars[i] /\ bars[i] <= 1000
  /\ (\E i \in DOMAIN bars : points[i] > 0) => \E i \in DOMAIN bars : bars[i] = 1000
  /\ \A i, j \in DOMAIN bars : points[i] <= points[j] => bars[i] <= bars[j]

(* compositionChartCard: the two shares that are stated add up to a        *)
(* hundred per cent, but for one tenth of rounding.                        *)
SharesAddUp ==
  drawn.shares # <<>> => drawn.shares[1] + drawn.shares[2] \in {1000, 1001}

(* barChartCard, compositionChartCard: bars in the order of the clicks, and *)
(* shares of the whole.                                                    *)
BreakdownIsFaithful == BarsFollowClicks /\ SharesAddUp
=============================================================================
