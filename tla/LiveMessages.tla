----------------------------- MODULE LiveMessages -----------------------------
(***************************************************************************)
(* One delivery attempt of the dispatcher, seen from the rooms: whether an *)
(* alert notification edits the message that announced its alerts or posts *)
(* a new one (deliver and editTarget of internal/outbox/outbox.go), and    *)
(* the table that maps alert fingerprints to messages                      *)
(* (internal/store/alertmessage.go).                                       *)
(*                                                                         *)
(* Module Outbox has the queue; here any pending entry may be the next one *)
(* attempted, because a backoff, a re-queue or a restart may put it after  *)
(* younger ones, and an attempt whose result was not recorded is repeated. *)
(***************************************************************************)
EXTENDS Naturals, FiniteSets

CONSTANTS
  Fps,         \* alert fingerprints
  Rooms,
  Charted,     \* fingerprints of the alerts whose rule asks for a chart
  Sizes,       \* bound: how many alerts a notification may have
  MaxEntries,  \* bound: notifications
  MaxMessages, \* bound: messages in all rooms
  MaxBudget    \* bound: failed reads and writes, failed edits, failed
               \* posts, lost replies and crashes, together

ASSUME LiveAssumption ==
  /\ Rooms # {}
  /\ Charted \subseteq Fps
  /\ MaxEntries \in Nat
  /\ MaxMessages \in Nat
  /\ MaxBudget \in Nat

Ids == 1 .. MaxEntries
Messages == 1 .. MaxMessages
None == 0

Entries == [room : Rooms, firing : SUBSET Fps, resolved : SUBSET Fps]

VARIABLES
  entry,     \* Fingerprints, ResolveFingerprints and RoomID of each row
  status,    \* its Status, "unused" before its insert
  map,       \* the alert_messages table: room, fingerprint -> message
  pc,        \* where deliver and attempt are
  cur,       \* the entry being attempted
  target,    \* the message editTarget found for it, until it is edited
  posted,    \* the event id Send returned, until it is recorded
  origin,    \* the rooms: the entry each message was posted for,
  shows,     \* ... the entry whose text it shows now,
  kind,      \* ... and whether it is text, an image, or not there yet
  budget,    \* disturbances still to come
  unmapped,  \* history: text messages whose mappings were lost
  reedits    \* history: entries settled by an edit, with the message, since
             \* when no message was posted and no mapping pruned

table == <<entry, status, map>>
attempt == <<pc, cur, target, posted>>
rooms == <<origin, shows, kind>>
history == <<unmapped, reedits>>
vars == <<table, attempt, rooms, budget, history>>

TypeOK ==
  /\ entry \in [Ids -> Entries]
  /\ status \in [Ids -> {"unused", "pending", "delivered", "failed"}]
  /\ map \in [Rooms -> [Fps -> Messages \cup {None}]]
  /\ pc \in {"idle", "edit", "post", "record", "mark"}
  /\ cur \in Ids \cup {None}
  /\ target \in Messages \cup {None}
  /\ posted \in Messages \cup {None}
  /\ origin \in [Messages -> Ids \cup {None}]
  /\ shows \in [Messages -> Ids \cup {None}]
  /\ kind \in [Messages -> {"none", "text", "image"}]
  /\ budget \in 0 .. MaxBudget
  /\ unmapped \in SUBSET Messages
  /\ reedits \in SUBSET (Ids \X Messages)

AnyRoom == CHOOSE r \in Rooms : TRUE

Init ==
  /\ entry = [i \in Ids |-> [room |-> AnyRoom, firing |-> {}, resolved |-> {}]]
  /\ status = [i \in Ids |-> "unused"]
  /\ map = [r \in Rooms |-> [f \in Fps |-> None]]
  /\ pc = "idle"
  /\ cur = None
  /\ target = None
  /\ posted = None
  /\ origin = [m \in Messages |-> None]
  /\ shows = [m \in Messages |-> None]
  /\ kind = [m \in Messages |-> "none"]
  /\ budget = MaxBudget
  /\ unmapped = {}
  /\ reedits = {}

Disturb == budget > 0 /\ budget' = budget - 1

--------------------------------------------------------------------------------
(* What an entry asks for. *)

\* The alerts of a payload, each counted as often as it is in there.
Size(e) == Cardinality(e.firing) + Cardinality(e.resolved)

\* An ingest handler queues a payload, its alerts split by Fingerprints; a
\* payload of another kind has none.  Nothing keeps a payload from having an
\* alert firing and resolved at once.
Enqueue(i, e) ==
  /\ status[i] = "unused"
  /\ \A j \in Ids : j < i => status[j] # "unused"
  /\ Size(e) \in Sizes
  /\ entry' = [entry EXCEPT ![i] = e]
  /\ status' = [status EXCEPT ![i] = "pending"]
  /\ UNCHANGED <<map, attempt, rooms, budget, history>>

RequeueOutbox(i) ==
  /\ status[i] = "failed"
  /\ status' = [status EXCEPT ![i] = "pending"]
  /\ UNCHANGED <<entry, map, attempt, rooms, budget, history>>

\* The mappings of one entry's room.
Mapped(i) == map[entry[i].room]

\* The alerts the entry resolves that a message is known for.
Known(i) == {f \in entry[i].resolved : Mapped(i)[f] # None}

\* Mutant: the check for unannounced firing alerts is left out.
EditableAt_any(i, m) ==
  /\ Known(i) # {}
  /\ \A f \in Known(i) : Mapped(i)[f] = m

\* Message m may be edited into the entry: it resolves a known alert, and m
\* announced every alert it has firing and every known one it resolves.
EditableAt(i, m) ==
  /\ Known(i) # {}
  /\ \A f \in entry[i].firing \cup Known(i) : Mapped(i)[f] = m

editTarget(i) ==
  IF \E m \in Messages : EditableAt(i, m)
  THEN CHOOSE m \in Messages : EditableAt(i, m)
  ELSE None

\* ChartTarget: an alert of the payload asks for a chart.
WantsChart(i) == (entry[i].firing \cup entry[i].resolved) \cap Charted # {}

--------------------------------------------------------------------------------
(* attempt and deliver. *)

\* drain hands an entry to attempt, and editTarget reads its mappings.
Begin(i) ==
  /\ pc = "idle"
  /\ status[i] = "pending"
  /\ cur' = i
  /\ target' = editTarget(i)
  /\ pc' = IF editTarget(i) = None THEN "post" ELSE "edit"
  /\ UNCHANGED <<table, posted, rooms, budget, history>>

\* The mappings cannot be read: as if there were none.
BeginUnread(i) ==
  /\ pc = "idle"
  /\ status[i] = "pending"
  /\ Disturb
  /\ cur' = i
  /\ target' = None
  /\ pc' = "post"
  /\ UNCHANGED <<table, posted, rooms, history>>

\* Mutant: a mapping is used up by the edit it allowed.
MapAfterEdit_consumed ==
  [map EXCEPT ![entry[cur].room] =
     [f \in Fps |-> IF f \in entry[cur].resolved THEN None ELSE Mapped(cur)[f]]]

\* Mappings are deliberately not consumed.
MapAfterEdit == map

\* SendEdit replaces the text of the target.
SendEdit ==
  /\ pc = "edit"
  /\ shows' = [shows EXCEPT ![target] = cur]
  /\ map' = MapAfterEdit
  /\ pc' = "mark"
  /\ target' = None
  /\ reedits' = reedits \cup {<<cur, target>>}
  /\ UNCHANGED <<entry, status, cur, posted, origin, kind, budget, unmapped>>

\* SendEdit returns an error, the edit being lost or only its reply: the entry
\* is posted as well.
SendEditFails ==
  /\ pc = "edit"
  /\ Disturb
  /\ \/ UNCHANGED shows
     \/ shows' = [shows EXCEPT ![target] = cur]
  /\ target' = None
  /\ pc' = "post"
  /\ UNCHANGED <<table, cur, posted, origin, kind, history>>

\* The next message of any room, younger than those that are there.
NextMessage(m) == \A n \in Messages : kind[n] = "none" <=> m <= n

\* A new message, m, shows the entry at hand.
Appear(m, k) ==
  /\ NextMessage(m)
  /\ origin' = [origin EXCEPT ![m] = cur]
  /\ shows' = [shows EXCEPT ![m] = cur]
  /\ kind' = [kind EXCEPT ![m] = k]
  /\ reedits' = {}

\* Mutant: the message of an image is recorded like any other.
SendWithImage_recorded(m) ==
  /\ pc = "post"
  /\ WantsChart(cur)
  /\ Appear(m, "image")
  /\ posted' = m
  /\ pc' = "record"
  /\ UNCHANGED <<table, cur, target, budget, unmapped>>

\* The chart is rendered and sent with the text as its caption.
SendWithImage(m) ==
  /\ pc = "post"
  /\ WantsChart(cur)
  /\ Appear(m, "image")
  /\ pc' = "mark"
  /\ UNCHANGED <<table, cur, target, posted, budget, unmapped>>

\* Send posts text: no chart was asked for, or it could not be rendered.  Only
\* an entry with firing alerts goes on to record its message.
Send(m) ==
  /\ pc = "post"
  /\ Appear(m, "text")
  /\ IF entry[cur].firing = {} THEN pc' = "mark" /\ UNCHANGED posted
                              ELSE pc' = "record" /\ posted' = m
  /\ UNCHANGED <<table, cur, target, budget, unmapped>>

\* The room has the message, and nobody gets to know its id.
AppearUnmapped(m) ==
  \/ Appear(m, "text") /\ unmapped' = unmapped \cup {m}
  \/ WantsChart(cur) /\ Appear(m, "image") /\ UNCHANGED unmapped

\* retrySend sends again what the room has already, its reply being lost.
SendAgain(m) ==
  /\ pc = "post"
  /\ Disturb
  /\ AppearUnmapped(m)
  /\ UNCHANGED <<table, attempt>>

\* attempt returns: the goroutine is back in drain.
Return ==
  /\ pc' = "idle"
  /\ cur' = None
  /\ target' = None
  /\ posted' = None

\* The post fails, before or after the room got it.  The entry is rescheduled,
\* or given up on when it is too old.
SendFails ==
  /\ pc = "post"
  /\ Disturb
  /\ \/ UNCHANGED <<rooms, history>>
     \/ \E m \in Messages : AppearUnmapped(m)
  /\ \/ UNCHANGED status
     \/ status' = [status EXCEPT ![cur] = "failed"]
  /\ Return
  /\ UNCHANGED <<entry, map>>

\* Mutant: the entry's resolved alerts are recorded too.
Recorded_all(i) == entry[i].firing \cup entry[i].resolved

\* Mutant: an alert that is mapped already keeps its mapping.
Recorded_new(i) == {f \in entry[i].firing : Mapped(i)[f] = None}

\* Mutant: the mapping is recorded in every room.
RecordedIn_all(i) == Rooms

\* The alerts whose mappings point at the new message, and where.
Recorded(i) == entry[i].firing
RecordedIn(i) == {entry[i].room}

\* RecordAlertMessages, in one transaction.
RecordAlertMessages ==
  /\ pc = "record"
  /\ map' = [r \in Rooms |-> [f \in Fps |->
               IF r \in RecordedIn(cur) /\ f \in Recorded(cur) THEN posted ELSE map[r][f]]]
  /\ posted' = None
  /\ pc' = "mark"
  /\ UNCHANGED <<entry, status, cur, target, rooms, budget, history>>

\* The mapping cannot be written: logged only.
RecordFails ==
  /\ pc = "record"
  /\ Disturb
  /\ pc' = "mark"
  /\ posted' = None
  /\ unmapped' = unmapped \cup {posted}
  /\ UNCHANGED <<table, cur, target, rooms, reedits>>

MarkOutboxDelivered ==
  /\ pc = "mark"
  /\ status' = [status EXCEPT ![cur] = "delivered"]
  /\ Return
  /\ UNCHANGED <<entry, map, rooms, budget, history>>

\* The result of an attempt is lost, with its record or with the process.
Interrupted ==
  /\ pc # "idle"
  /\ Disturb
  /\ Return
  /\ unmapped' = IF pc = "record" THEN unmapped \cup {posted} ELSE unmapped
  /\ UNCHANGED <<table, rooms, reedits>>

\* PruneAlertMessages drops the mappings recorded before a cutoff; they were
\* recorded in the order of their messages.
PruneAlertMessages(m) ==
  /\ pc = "idle"
  /\ map' = [r \in Rooms |-> [f \in Fps |-> IF map[r][f] < m THEN None ELSE map[r][f]]]
  /\ map' # map
  /\ reedits' = {}
  /\ UNCHANGED <<entry, status, attempt, rooms, budget, unmapped>>

Next ==
  \/ \E i \in Ids :
       \/ \E e \in Entries : Enqueue(i, e)
       \/ RequeueOutbox(i)
       \/ Begin(i)
       \/ BeginUnread(i)
  \/ SendEdit
  \/ SendEditFails
  \/ \E m \in Messages : SendWithImage(m) \/ Send(m) \/ SendAgain(m) \/ PruneAlertMessages(m)
  \/ SendFails
  \/ RecordAlertMessages
  \/ RecordFails
  \/ MarkOutboxDelivered
  \/ Interrupted

Spec == Init /\ [][Next]_vars

--------------------------------------------------------------------------------
(* Properties. *)

Exists(m) == kind[m] # "none"

\* Message m is text that announced alert f in room r.
Announces(m, r, f) ==
  /\ kind[m] = "text"
  /\ entry[origin[m]].room = r
  /\ f \in entry[origin[m]].firing

\* Message m is about to be recorded.
BeingMapped(m) == pc = "record" /\ posted = m

\* A mapping is to be trusted: it leads to a text message of its own room,
\* posted for a notification that had the alert firing, and no younger message
\* announced the alert, whatever was lost, repeated or delivered out of order
\* before it was recorded.  The only younger ones are images, and texts whose
\* record is under way or was lost.
MappingsAnnounced ==
  \A r \in Rooms, f \in Fps : map[r][f] # None =>
    /\ Announces(map[r][f], r, f)
    /\ \A m \in Messages :
         m > map[r][f] /\ Announces(m, r, f) => BeingMapped(m) \/ m \in unmapped

\* A message only ever shows notifications of its own room: a channel that is
\* pointed at another room does not leak there through an edit.
EditsStayInRoom ==
  \A m \in Messages : Exists(m) => entry[shows[m]].room = entry[origin[m]].room

\* "A new alert must post - an edit pings nobody": whatever a message was
\* edited into, it shows no alert firing that its post did not announce.
EditsAnnounceNothing ==
  \A m \in Messages : Exists(m) => entry[shows[m]].firing \subseteq entry[origin[m]].firing

\* "Image messages are never recorded for resolve-by-edit": what was posted as
\* an image is never replaced by text.
ImagesStay ==
  \A m \in Messages : kind[m] = "image" => shows[m] = origin[m]

\* "Each repeat must re-edit the same message idempotently": a notification
\* about the same alerts as one that was settled by an edit, with nothing
\* posted or pruned since, goes to the same message again.
RepeatsReEdit ==
  [][\A i \in Ids : pc = "idle" /\ cur' = i /\ UNCHANGED budget =>
       \A p \in reedits : entry[p[1]] = entry[i] => target' = p[2]]_vars

\* The rooms as module RoomPromise has them: the messages that are there, each
\* with the notification it was posted for and the one it shows.
There == {m \in Messages : Exists(m)}
Announced == [m \in There |-> entry[origin[m]]]
Shown == [m \in There |-> entry[shows[m]]]
Images == {m \in Messages : kind[m] = "image"}

Promised == INSTANCE RoomPromise
  WITH Notifications <- Entries, announced <- Announced, shown <- Shown, images <- Images

\* Whatever fails, repeats, crashes or comes out of order, the rooms see what
\* README.md:18-22 promises: resolutions "edit the group's message in place
\* (matched by alert fingerprint)", what fires is announced in a new message, "an
\* edit pings nobody", and charts are not edited (deliver, editTarget).
KeepsRoomPromise == Promised!BoardSpec

--------------------------------------------------------------------------------
(* The inductive invariant. *)

\* The attempt at hand, and what it carries from one step to the next: the
\* mappings its target was found by, and the message it is to record.
AttemptShape ==
  /\ pc = "idle" <=> cur = None
  /\ cur # None => status[cur] = "pending"
  /\ pc = "edit" => target # None /\ EditableAt(cur, target)
  /\ pc = "record" => /\ posted # None
                      /\ kind[posted] = "text"
                      /\ origin[posted] = cur
                      /\ \A m \in Messages : m > posted => ~Exists(m)

\* Messages show entries that were queued, and images the one they came with.
MessageShape ==
  \A m \in Messages :
    Exists(m) => /\ origin[m] # None /\ status[origin[m]] # "unused"
                 /\ shows[m] # None /\ status[shows[m]] # "unused"

\* What was settled by an edit would be settled by the same edit again: since
\* then the mappings have not changed, for whoever is about to record one has
\* posted a message.
ReeditsStand ==
  /\ \A p \in reedits : status[p[1]] # "unused" /\ EditableAt(p[1], p[2])
  /\ pc = "record" => reedits = {}

LInv ==
  /\ TypeOK
  /\ AttemptShape
  /\ ReeditsStand
  /\ MessageShape
  /\ MappingsAnnounced
  /\ EditsStayInRoom
  /\ EditsAnnounceNothing
  /\ ImagesStay
================================================================================
