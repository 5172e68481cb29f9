------------------------------ MODULE MCFormats ------------------------------
(***************************************************************************)
(* The requests, delays and samples that TLC tries.                        *)
(***************************************************************************)
EXTENDS Formats

\* Onsets: none, now, just within the window, just before it, two days ago.
Onsets == {-1} \cup {Arrival - ago : ago \in {0, 1799, 1801, 2 * 24 * 3600}}

Base == [status |-> "firing", severity |-> "warning", url |-> "", startsAt |-> -1,
         fp |-> "f1", chart |-> FALSE]

Statuses == {"firing", "resolved"}

\* Alerts that differ in what decides of priorities and fingerprints, and alerts
\* that differ in what decides of links and charts.
Plain ==
  {[Base EXCEPT !.status = s, !.severity = v, !.fp = f] :
     s \in Statuses, v \in {"critical", "warning", "info"}, f \in {"", "f1", "f2"}}
Linked ==
  {[Base EXCEPT !.status = s, !.url = u, !.startsAt = o, !.chart = c] :
     s \in Statuses, u \in {"graph", "custom"}, o \in Onsets, c \in BOOLEAN}

MCReports == Plain \cup Linked \cup {Base} \cup {[a EXCEPT !.chart = TRUE] : a \in Linked}

AlertSeqs ==
  {<<>>} \cup {<<x>> : x \in Plain \cup Linked} \cup {<<x, y>> : x, y \in Plain}
    \cup {<<x, y>> : x, y \in Linked} \cup {<<x, x, y>> : x, y \in Plain}

Payload(alerts) == [valid |-> TRUE, alerts |-> alerts]

AlertPayloads ==
  {Payload(as) : as \in AlertSeqs} \cup {[Payload(<<Base>>) EXCEPT !.valid = FALSE]}

AlertRequests ==
  {[kind |-> k, payload |-> p, prefix |-> x, chart |-> c] :
     k \in AlertKinds, p \in AlertPayloads, x \in {"", "prefix"}, c \in BOOLEAN}

GotifyPayloads ==
  [valid : BOOLEAN, number : BOOLEAN, title : {"", "t"}, message : {"", "m"},
   priority : {0, 5, 8}]

Blocks ==
  {<<>>} \cup {<<[type |-> t, text |-> x]>> : t \in {"header", "section", "divider"},
                                              x \in {"", "b"}}
Attachments ==
  [title : {"", "t"}, text : {"", "m"}, fallback : {"", "f"},
   color : {"danger", "warning", ""}, blocks : Blocks]
Few == {a \in Attachments : a.title = "" /\ a.fallback = "" /\ Len(a.blocks) = 0}

SlackPayloads ==
  [valid : BOOLEAN, text : {"", "m"}, username : {"", "u"}, blocks : Blocks,
   attachments : {<<>>} \cup {<<a>> : a \in Few}]
  \cup [valid : {TRUE}, text : {""}, username : {""}, blocks : {<<>>},
        attachments : {<<a>> : a \in Attachments}]
  \cup [valid : {TRUE}, text : {"", "m"}, username : {""}, blocks : {<<>>},
        attachments : {<<a, b>> : a, b \in Few}]

GiteaPayloads ==
  [valid : BOOLEAN,
   event : ObjectEvents \cup {"", "push", "create", "delete", "fork"},
   action : {"opened", "closed", "merged"}, object : BOOLEAN, merged : BOOLEAN,
   commits : {0, 2}]

WebhookRequests ==
  {[kind |-> k.kind, payload |-> k.payload, prefix |-> x, chart |-> FALSE] :
     k \in [kind : {"gotify"}, payload : GotifyPayloads]
           \cup [kind : {"slack"}, payload : SlackPayloads]
           \cup [kind : {"gitea"}, payload : GiteaPayloads],
     x \in {"", "prefix"}}

MCInputs == AlertRequests \cup WebhookRequests

\* One charted alert, for the run that only looks at drawn charts.
ChartedInputs ==
  {[kind |-> "alertmanager", payload |-> Payload(<<[a EXCEPT !.chart = TRUE]>>),
    prefix |-> "", chart |-> TRUE] : a \in Linked}

\* Seconds: at once, after the backoff's first steps, after the maximum age.
MCDelays == {0, 60, 3 * 24 * 3600}

\* A series that was always there, one that began or ended a while ago, and one
\* that is long gone.
Always == [from |-> 0, to |-> 2 * Arrival]
Young == [from |-> Arrival - 600, to |-> 2 * Arrival]
Ended == [from |-> 0, to |-> Arrival - 600]
Gone == [from |-> 0, to |-> 1]

\* More series than a chart may have.
Crowd == [i \in 1 .. MaxSeries + 2 |-> IF i = 1 THEN Gone ELSE Always]

OneSeries == {<<Always>>, <<Young>>, <<Gone>>, Crowd}
SomeSeries == {<<Always>>, <<Always, Young>>, <<Gone, Ended, Always>>}
================================================================================
