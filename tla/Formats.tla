-------------------------------- MODULE Formats --------------------------------
(***************************************************************************)
(* A payload's way from an ingest endpoint to a message: it is parsed and   *)
(* formatted (internal/ingest), gets its token's prefix, becomes an entry  *)
(* of the outbox (internal/server/server.go), waits there, and is rendered *)
(* when it is sent, with a chart if it asks for one                        *)
(* (internal/outbox/outbox.go, internal/matrix/bot.go).                    *)
(***************************************************************************)
EXTENDS Webhooks, Charts

AM == INSTANCE Alertmanager
GF == INSTANCE Grafana

CONSTANTS
  Inputs,   \* requests: kind, payload, prefix of the token, chart flag of the channel
  Reports,  \* the alerts in their payloads
  Delays,   \* seconds an entry may wait
  Samples   \* what Prometheus may have: sequences of series

AlertKinds == {"alertmanager", "grafana"}

\* When a request comes in.
Arrival == 10 * 24 * 3600

\* Alerts as their senders report them: of a status that is one of two, with a
\* time or the zero time.
ASSUME FormatsAssumption ==
  /\ \A a \in Reports : a.status \in {"firing", "resolved"} /\ a.startsAt \in Nat \cup {AM!Zero}
  /\ \A r \in Inputs :
       /\ r.kind \in AlertKinds \cup {"gotify", "slack", "gitea"}
       /\ r.kind \in AlertKinds => r.payload.alerts \in Seq(Reports)
       /\ r.kind = "gitea" => r.payload.commits \in Nat
  /\ Delays \subseteq Nat
  /\ \A all \in Samples : IsFiniteSet(DOMAIN all) /\ DOMAIN all \subseteq Nat

VARIABLES
  request,  \* the request
  phase,    \* "received", "rejected", "queued" or "sent"
  entry,    \* the entry, NoEntry before it is queued
  message,  \* the markdown that is sent
  chart     \* the drawn chart, or the reason that there is none

formatVars == <<request, phase, entry, message, chart>>

NoEntry == [kind |-> ""]
NoChart == [end |-> 0]

FormatsInit ==
  /\ request \in Inputs
  /\ phase = "received"
  /\ entry = NoEntry
  /\ message = <<>>
  /\ chart = NoChart

--------------------------------------------------------------------------------
\* The notification, or none for a payload that is refused.
Parsed(r) ==
  CASE r.kind = "alertmanager" ->
         IF AM!Accepts(r.payload) THEN <<AM!Format(r.payload)>> ELSE <<>>
    [] r.kind = "grafana" ->
         IF GF!Accepts(r.payload) THEN <<GF!Format(r.payload)>> ELSE <<>>
    [] r.kind = "gotify" -> GotifyParse(r.payload)
    [] r.kind = "slack"  -> SlackParse(r.payload)
    [] r.kind = "gitea"  -> GiteaParse(r.payload)

\* applyPrefix: before the title, or the body if there is no title.
ApplyPrefix(n, prefix) ==
  IF n.title # <<>> THEN [n EXCEPT !.title = Text(prefix) \o @]
  ELSE [n EXCEPT !.body = Text(prefix) \o @]

\* correlate: what the entry says of the alerts that the payload is about.
Correlated(r) ==
  CASE r.kind = "alertmanager" -> AM!Fingerprints(r.payload)
    [] r.kind = "grafana"      -> GF!Fingerprints(r.payload)
    [] OTHER -> [firing |-> {}, resolved |-> {}]

\* The alert an entry is to be charted for: only with the channel's consent.
Target(r) ==
  IF r.kind = "alertmanager" /\ r.chart THEN AM!ChartTarget(r.payload) ELSE <<>>

\* queueEntry.
QueueEntry(r, n) ==
  [kind |-> r.kind, title |-> n.title, body |-> n.body, priority |-> n.priority,
   firing |-> Correlated(r).firing, resolved |-> Correlated(r).resolved,
   target |-> Target(r)]

Queue ==
  /\ phase = "received"
  /\ Parsed(request) # <<>>
  /\ phase' = "queued"
  /\ entry' = QueueEntry(request, ApplyPrefix(Head(Parsed(request)), request.prefix))
  /\ UNCHANGED <<request, message, chart>>

\* 400.
Refuse ==
  /\ phase = "received"
  /\ Parsed(request) = <<>>
  /\ phase' = "rejected"
  /\ UNCHANGED <<request, entry, message, chart>>

\* BuildMarkdown: the title, with a mark on what is urgent, and the body.
BuildMarkdown(n) ==
  (IF n.title # <<>> THEN (IF n.priority >= 8 THEN <<"!!">> ELSE <<>>) \o n.title ELSE <<>>)
  \o n.body

\* The PromQL expression is the generator's, if that is a graph of Prometheus.
ExprFromGeneratorURL(a) == a.url = "graph"

\* Sent as text: nothing is to be charted, or charting fails in some way.
SendText ==
  /\ phase = "queued"
  /\ phase' = "sent"
  /\ message' = BuildMarkdown(entry)
  /\ UNCHANGED <<request, entry, chart>>

\* Sent with a chart, of what Prometheus has by then.
SendChart ==
  /\ phase = "queued"
  /\ entry.target # <<>> /\ ExprFromGeneratorURL(Head(entry.target))
  /\ \E delay \in Delays, all \in Samples :
       LET startsAt == Head(entry.target).startsAt
           now == Arrival + delay
           found == QueryRange(all, startsAt, now)
       IN  /\ DOMAIN found # {}
           /\ chart' = [start  |-> RangeStart(startsAt, now),
                        end    |-> now,
                        step   |-> QueryStep(RangeStart(startsAt, now), now),
                        series |-> found,
                        xAxis  |-> XAxis(found),
                        rows   |-> [i \in DOMAIN found |-> Row(found[i], XAxis(found))]]
  /\ phase' = "sent"
  /\ message' = BuildMarkdown(entry)
  /\ UNCHANGED <<request, entry>>

FormatsNext == Queue \/ Refuse \/ SendText \/ SendChart

FormatsSpec == FormatsInit /\ [][FormatsNext]_formatVars

--------------------------------------------------------------------------------
(* Properties. *)

\* Whatever is accepted has a message to send: an empty one would be taken for
\* delivered without being sent (sendMarkdown returns early for it).
NothingEmpty == phase = "sent" => message # <<>>

Alerts == request.payload.alerts
\* Sets of alerts of the payload, to state what the entry must say of them.
That(Test(_)) == {Alerts[i] : i \in {j \in DOMAIN Alerts : Test(Alerts[j])}}
Severe(s) == \E a \in That(AM!Firing) : a.severity = s
Reference == IF Severe("critical") THEN 8 ELSE IF Severe("warning") THEN 5 ELSE 3

\* An entry accounts for the alerts of its payload, in the same way for both
\* receivers: a line for each, marked as what it is; what fires is named to the
\* mappings as firing, and what is over as resolved; the priority is that of the
\* worst alert that fires; a line's link shows the onset; and a chart is of an
\* alert that asked for it, one that fires if there is one.
AlertsAccountedFor ==
  phase = "queued" /\ request.kind \in AlertKinds =>
    LET asked == That(AM!ChartRequested)
        theirs == IF request.kind = "grafana" THEN AM!Format(request.payload)
                  ELSE GF!Format(request.payload)
        mark(n) == [i \in DOMAIN n.body |-> n.body[i].mark]
    IN  /\ mark(entry) = [i \in DOMAIN Alerts |-> Alerts[i].status]
        /\ entry.priority = Reference /\ theirs.priority = Reference
        /\ mark(theirs) = mark(entry)
        /\ \A a \in That(LAMBDA b : b.fp # "") :
             a.fp \in IF AM!Firing(a) THEN entry.firing ELSE entry.resolved
        /\ entry.firing \cup entry.resolved \subseteq {Alerts[i].fp : i \in DOMAIN Alerts}
        /\ entry.target # <<>> =>
             /\ Head(entry.target) \in asked
             /\ AM!Resolved(Head(entry.target)) => \A a \in asked : AM!Resolved(a)
        /\ request.kind = "alertmanager" =>
             \A i \in DOMAIN Alerts :
               LET link == entry.body[i].link
               IN  "from" \in DOMAIN link =>
                     link.from <= Alerts[i].startsAt /\ Alerts[i].startsAt <= link.to

\* However long an entry waited, its chart shows the onset of its alert, if that
\* is no later than the chart, at a resolution the query and the canvas can bear.
ChartShowsAlert ==
  chart # NoChart =>
    LET onset == Head(entry.target).startsAt
    IN  /\ onset \in 0 .. chart.end => chart.start <= onset
        /\ chart.end - chart.start >= Window
        /\ (chart.end - chart.start) \div chart.step \in Steps .. Steps + Steps \div 8
        /\ Cardinality(DOMAIN chart.series) <= MaxSeries

\* "use the longest series for the X axis" (chart.go:153): a value is drawn at
\* the time it is of.
PointsAtTheirTimes ==
  chart # NoChart =>
    \A i \in DOMAIN chart.rows, j \in DOMAIN chart.xAxis :
      chart.rows[i][j] \in {Null, chart.xAxis[j]}

\* What a request has become: its entry as soon as it is queued, the message of
\* that entry, and a chart not before it is sent.
RequestCarried ==
  /\ request \in Inputs
  /\ phase \in {"queued", "sent"} =>
       /\ Parsed(request) # <<>>
       /\ entry = QueueEntry(request, ApplyPrefix(Head(Parsed(request)), request.prefix))
  /\ phase = "sent" => message = BuildMarkdown(entry)
  /\ phase # "sent" => chart = NoChart

\* The inductive invariant.
FormatsInv == RequestCarried /\ ChartShowsAlert
================================================================================
