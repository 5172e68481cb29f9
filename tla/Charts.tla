--------------------------------- MODULE Charts ---------------------------------
(***************************************************************************)
(* The chart of an alert (internal/chart/chart.go): the range that is       *)
(* queried and the columns that are drawn.  Times are in seconds.  A series *)
(* is the interval in which it has samples; a value is the time it is of.   *)
(***************************************************************************)
EXTENDS Integers, Sequences, FiniteSets

Window == 30 * 60
Steps == 200
MaxSeries == 8

\* Mutant: the range is not widened.
RangeStart_fixed(startsAt, now) == now - Window

\* ChartForAlert: an onset before the window widens it.
RangeStart(startsAt, now) ==
  IF startsAt >= 0 /\ startsAt < now - Window THEN startsAt - 5 * 60 ELSE now - Window

\* The step of the query, in whole seconds.
QueryStep(start, end) ==
  LET step == (end - start) \div Steps IN IF step < 1 THEN 1 ELSE step

\* What Prometheus returns: the series' samples at start, start + step, ...
Points(s, start, end, step) ==
  LET first == IF s.from <= start THEN 0 ELSE (s.from - start + step - 1) \div step
      last == ((IF s.to < end THEN s.to ELSE end) - start) \div step
  IN  [j \in 1 .. last - first + 1 |-> start + (first + j - 1) * step]

\* QueryRange: the series by their places in the order of their labels; those
\* without a sample are dropped, those beyond MaxSeries cut off.
QueryRange(all, startsAt, now) ==
  LET start == RangeStart(startsAt, now)
      points == [i \in DOMAIN all |-> Points(all[i], start, now, QueryStep(start, now))]
      found == {i \in DOMAIN all : points[i] # <<>>}
  IN  [i \in {j \in found : Cardinality({k \in found : k < j}) < MaxSeries} |-> points[i]]

\* A column without a value.
Null == -2

\* Render: the X axis is that of the first of the longest series, and the j-th
\* value of each series goes to the j-th column.
XAxis(series) ==
  series[CHOOSE i \in DOMAIN series :
           \A j \in DOMAIN series :
             /\ Len(series[j]) <= Len(series[i])
             /\ j < i => Len(series[j]) < Len(series[i])]

Row(s, xAxis) == [j \in DOMAIN xAxis |-> IF j <= Len(s) THEN s[j] ELSE Null]
================================================================================
