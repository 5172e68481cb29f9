----------------------------- MODULE Alertmanager -----------------------------
(***************************************************************************)
(* The Alertmanager receiver (internal/ingest/alertmanager): how a payload *)
(* becomes a notification, its fingerprints, and the alert to chart.        *)
(*                                                                         *)
(* Strings that are only passed on are values of which only emptiness       *)
(* matters; "" is a field that is missing.  Times are in seconds.          *)
(***************************************************************************)
EXTENDS Integers, Sequences

\* The zero time.
Zero == -1

Resolved(a) == a.status = "resolved"
Firing(a) == ~Resolved(a)

\* ParsePayload: JSON with at least one alert.
Accepts(p) == p.valid /\ p.alerts # <<>>

\* Where the payload's alerts that fire, and that are over, are; and the first of
\* some places.
FiringAt(p) == {i \in DOMAIN p.alerts : Firing(p.alerts[i])}
ResolvedAt(p) == DOMAIN p.alerts \ FiringAt(p)
First(places) == CHOOSE i \in places : \A j \in places : i <= j

\* Where a line's link leads: a Prometheus graph of the hour that ends a quarter
\* of an hour after the onset, or whatever the generator URL is.
GraphURL(a) ==
  IF a.startsAt = Zero \/ a.url # "graph"
  THEN [url |-> a.url]
  ELSE [url |-> a.url, from |-> a.startsAt - 45 * 60, to |-> a.startsAt + 15 * 60]

\* A line per alert; the rest of its text is wording.
Line(a) ==
  [mark |-> IF Resolved(a) THEN "resolved" ELSE "firing", link |-> GraphURL(a)]

\* Mutant: a resolved alert counts, too.
Priority_resolved(p) ==
  LET severities == {p.alerts[i].severity : i \in DOMAIN p.alerts}
  IN  IF "critical" \in severities THEN 8 ELSE IF "warning" \in severities THEN 5 ELSE 3

\* The loop leaves at the first firing critical alert.
Priority(p) ==
  LET severities == {p.alerts[i].severity : i \in FiringAt(p)}
  IN  IF "critical" \in severities THEN 8 ELSE IF "warning" \in severities THEN 5 ELSE 3

\* The title counts what there is and names the group, in words that are left
\* out; there always are some.
Format(p) ==
  [title    |-> <<"counts and group">>,
   body     |-> [i \in DOMAIN p.alerts |-> Line(p.alerts[i])],
   priority |-> Priority(p)]

\* Alerts without a fingerprint are skipped.
Fingerprints(p) ==
  [firing   |-> {p.alerts[i].fp : i \in FiringAt(p)} \ {""},
   resolved |-> {p.alerts[i].fp : i \in ResolvedAt(p)} \ {""}]

\* The alerts that ask for a chart and can have one.
ChartRequested(a) == a.url # "" /\ a.chart

\* The first that fires, else the first; an empty sequence if there is none.
ChartTarget(p) ==
  LET asked == {i \in DOMAIN p.alerts : ChartRequested(p.alerts[i])}
      firing == asked \cap FiringAt(p)
  IN  CASE firing # {} -> <<p.alerts[First(firing)]>>
        [] firing = {} /\ asked # {} -> <<p.alerts[First(asked)]>>
        [] OTHER -> <<>>
================================================================================
