-------------------------------- MODULE Grafana --------------------------------
(***************************************************************************)
(* The Grafana receiver (internal/ingest/grafana): the Alertmanager's, over *)
(* again, with links to dashboards and other names for a group.            *)
(***************************************************************************)
EXTENDS Integers, Sequences

Resolved(a) == a.status = "resolved"
Firing(a) == ~Resolved(a)

\* ParsePayload: JSON with at least one alert.
Accepts(p) == p.valid /\ p.alerts # <<>>

\* A line per alert; its links to the panel or dashboard are wording.
Line(a) == [mark |-> IF Resolved(a) THEN "resolved" ELSE "firing"]

\* The loop leaves at the first firing critical alert.
Priority(p) ==
  LET firing == {p.alerts[i] : i \in {j \in DOMAIN p.alerts : Firing(p.alerts[j])}}
  IN  CASE \E a \in firing : a.severity = "critical" -> 8
        [] \A a \in firing : a.severity \notin {"critical", "warning"} -> 3
        [] OTHER -> 5

\* The title counts what there is and names the group, in words that are left
\* out; there always are some.
Format(p) ==
  [title    |-> <<"counts and group">>,
   body     |-> [i \in DOMAIN p.alerts |-> Line(p.alerts[i])],
   priority |-> Priority(p)]

\* Alerts without a fingerprint are skipped.
Fingerprints(p) ==
  LET known == {p.alerts[i] : i \in {j \in DOMAIN p.alerts : p.alerts[j].fp # ""}}
  IN  [firing   |-> {a.fp : a \in {b \in known : Firing(b)}},
       resolved |-> {a.fp : a \in {b \in known : Resolved(b)}}]
================================================================================
