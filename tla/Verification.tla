----------------------------- MODULE Verification -----------------------------
(***************************************************************************)
(* Interactive verification (internal/matrix/verification.go): a person     *)
(* verifies the bot, which accepts every request and confirms every SAS.   *)
(* The protocol is run by mautrix's verification helper; the code adds the *)
(* handler that rewrites in-room events before the helper sees them, and    *)
(* the callbacks, which call back into the helper.                         *)
(*                                                                         *)
(* The peer of a transaction sends request, start, key, mac, done; the bot *)
(* answers ready, accept, key, mac, done.  Both are counted: the peer's     *)
(* next step needs as many answers as it has sent steps.  The events of a   *)
(* transaction reach the sync loop in order, those of two in any order.    *)
(***************************************************************************)
EXTENDS Integers, Sequences, FiniteSets

CONSTANTS
  Txns,         \* transactions, each with a peer of its own; none is named "loop"
  ToDevice,     \* those that are not run in a room
  MaxFailures   \* bound: sends that fail and crashes

ASSUME VerificationAssumption ==
  /\ ToDevice \subseteq Txns
  /\ "loop" \notin Txns
  /\ MaxFailures \in Nat

Request == 1
Start == 2
Key == 3
Mac == 4
Done == 5
Cancel == 6

VARIABLES
  sent,       \* per transaction: steps its peer has sent
  seen,       \* steps the sync loop has taken
  answered,   \* answers the bot has sent
  echoed,     \* answers the sync loop has taken from the room again
  quit,       \* the peer's cancellation: "no", "sent" or "seen"
  known,      \* transactions of the helper's store, which is in memory
  theirMac,   \* those whose peer's MAC the helper has
  event,      \* the event the sync loop dispatches
  evtID,      \* what its ID has become: its own, its request's, or blank
  turn,       \* the handler that runs next
  lock,       \* holder of activeTransactionsLock
  handled,    \* the helper is done with the event and about to return
  calls,      \* calls into the helper that are still to run
  finished,   \* ghost: transactions whose last step the helper has taken
  cancelled,  \* ghost: transactions the helper cancelled
  disturbed,  \* ghost: those that a peer, a failure or a crash broke off
  failures    \* failures so far

peers == <<sent, quit>>
room == <<seen, echoed>>
dispatch == <<event, evtID, turn>>
helper == <<known, theirMac, lock, handled, calls>>
ghosts == <<finished, cancelled, disturbed, failures>>
vars == <<peers, room, answered, dispatch, helper, ghosts>>

None == [step |-> 0]
Events == [txn : Txns, from : {"peer", "self"}, step : Request .. Cancel]

\* A call of the helper, and the goroutine that makes it.
Calls == [txn : Txns, op : {"accept", "confirm"}, by : Txns \cup {"loop"}]

\* The lock is free, the helper's handler in the sync loop holds it, or a call.
Free == [op |-> "none"]
Handling == [op |-> "handle"]

Init ==
  /\ sent = [t \in Txns |-> 0]
  /\ seen = [t \in Txns |-> 0]
  /\ answered = [t \in Txns |-> 0]
  /\ echoed = [t \in Txns |-> 0]
  /\ quit = [t \in Txns |-> "no"]
  /\ known = {} /\ theirMac = {}
  /\ event = None /\ evtID = "own" /\ turn = 1
  /\ lock = Free /\ handled = FALSE /\ calls = {}
  /\ finished = {} /\ cancelled = {} /\ disturbed = {} /\ failures = 0

--------------------------------------------------------------------------------
(* The peers. *)

\* The next step, once the bot's answers so far are there.
PeerSends(t) ==
  /\ quit[t] = "no" /\ t \notin cancelled
  /\ sent[t] < Done /\ answered[t] >= sent[t]
  /\ sent' = [sent EXCEPT ![t] = @ + 1]
  /\ UNCHANGED <<quit, room, answered, dispatch, helper, ghosts>>

\* The person does not go on, or waited too long.
PeerQuits(t) ==
  /\ quit[t] = "no" /\ sent[t] > 0
  /\ quit' = [quit EXCEPT ![t] = "sent"]
  /\ disturbed' = disturbed \cup {t}
  /\ UNCHANGED <<sent, room, answered, dispatch, helper, finished, cancelled, failures>>

--------------------------------------------------------------------------------
(* The sync loop: one event at a time, its handlers in the order of their       *)
(* registration.                                                                *)

\* Mutant: RegisterInRoomVerificationFix after the helper's Init.
Handlers_late == <<"helper", "normalize">>

Handlers == <<"normalize", "helper">>

Take(e) ==
  /\ event = None
  /\ event' = e
  /\ UNCHANGED <<sent, answered, evtID, turn, helper, ghosts>>

TakeStep(t) ==
  /\ seen[t] < sent[t]
  /\ Take([txn |-> t, from |-> "peer", step |-> seen[t] + 1])
  /\ seen' = [seen EXCEPT ![t] = @ + 1]
  /\ UNCHANGED <<echoed, quit>>

TakeQuit(t) ==
  /\ seen[t] = sent[t] /\ quit[t] = "sent"
  /\ Take([txn |-> t, from |-> "peer", step |-> Cancel])
  /\ quit' = [quit EXCEPT ![t] = "seen"]
  /\ UNCHANGED <<seen, echoed>>

\* The bot's own answers come back from a room.
TakeEcho(t) ==
  /\ t \notin ToDevice
  /\ echoed[t] < answered[t]
  /\ Take([txn |-> t, from |-> "self", step |-> echoed[t] + 1])
  /\ echoed' = [echoed EXCEPT ![t] = @ + 1]
  /\ UNCHANGED <<seen, quit>>

Running(h) == event # None /\ turn \in DOMAIN Handlers /\ Handlers[turn] = h

\* Events that carry their transaction otherwise: inRoomVerificationEventTypes
\* has neither requests nor the events that go from device to device.
Untouched(e) == e.txn \in ToDevice \/ (e.step = Request /\ e.from = "peer")

\* Mutant: the bot's own answers are not told from the peer's.
Normalized_echo(e) == "request"

\* normalizeInRoomVerificationEvent: an echo is blanked, a step of the peer gets
\* the ID of the request.
Normalized(e) == IF e.from = "self" THEN "blank" ELSE "request"

Normalize ==
  /\ Running("normalize")
  /\ evtID' = IF Untouched(event) THEN evtID ELSE Normalized(event)
  /\ turn' = turn + 1
  /\ UNCHANGED <<peers, room, answered, event, helper, ghosts>>

DispatchEnd ==
  /\ event # None /\ turn > Len(Handlers)
  /\ event' = None /\ evtID' = "own" /\ turn' = 1
  /\ UNCHANGED <<peers, room, answered, helper, ghosts>>

--------------------------------------------------------------------------------
(* The helper. *)

\* An event with a blank ID, or whose ID is no request's, is of no transaction.
Resolved == Untouched(event) \/ evtID = "request"

HelperSkips ==
  /\ Running("helper") /\ ~Resolved
  /\ turn' = turn + 1
  /\ UNCHANGED <<peers, room, answered, event, evtID, helper, ghosts>>

HelperLocks ==
  /\ Running("helper") /\ Resolved
  /\ lock = Free
  /\ lock' = Handling
  /\ UNCHANGED <<peers, room, answered, dispatch, known, theirMac, handled, calls, ghosts>>

Holds == Running("helper") /\ lock = Handling /\ ~handled

\* What the helper expects of a peer: in a known transaction, the step that
\* comes after the bot's last answer.
Expected(e) ==
  /\ e.from = "peer"
  /\ \/ e.step = Request /\ e.txn \notin known
     \/ e.step = Start /\ e.txn \in known /\ answered[e.txn] = 1
     \/ e.step = Key /\ e.txn \in known /\ answered[e.txn] = 2
     \/ e.step = Mac /\ e.txn \in known /\ answered[e.txn] \in {3, 4}
     \/ e.step = Done /\ e.txn \in known /\ answered[e.txn] = 5

Return == handled' = TRUE /\ UNCHANGED <<peers, room, dispatch, lock>>

\* A cancellation by the peer, or the helper's own of anything unexpected.
HelperCancels ==
  /\ Holds
  /\ ~Expected(event)
  /\ known' = known \ {event.txn}
  /\ cancelled' = IF event.step = Cancel THEN cancelled ELSE cancelled \cup {event.txn}
  /\ Return
  /\ UNCHANGED <<answered, theirMac, calls, finished, disturbed, failures>>

\* Mutant: the callback calls the helper itself.
CallBack_itself(t, op) == [txn |-> t, op |-> op, by |-> "loop"]

\* The callbacks VerificationRequested and ShowSAS leave the call to a goroutine.
CallBack(t, op) == [txn |-> t, op |-> op, by |-> t]

\* onVerificationRequest, with VerificationRequested.
HandleRequest ==
  /\ Holds /\ Expected(event) /\ event.step = Request
  /\ known' = known \cup {event.txn}
  /\ calls' = calls \cup {CallBack(event.txn, "accept")}
  /\ Return
  /\ UNCHANGED <<answered, theirMac, ghosts>>

Answer(t) == answered' = [answered EXCEPT ![t] = @ + 1]

\* onVerificationStart: the bot sends accept.
HandleStart ==
  /\ Holds /\ Expected(event) /\ event.step = Start
  /\ Answer(event.txn)
  /\ Return
  /\ UNCHANGED <<known, theirMac, calls, ghosts>>

\* onVerificationKey: the bot sends its key, with ShowSAS.
HandleKey ==
  /\ Holds /\ Expected(event) /\ event.step = Key
  /\ Answer(event.txn)
  /\ calls' = calls \cup {CallBack(event.txn, "confirm")}
  /\ Return
  /\ UNCHANGED <<known, theirMac, ghosts>>

\* onVerificationMAC: once both MACs are sent the bot sends done.
HandleMac ==
  /\ Holds /\ Expected(event) /\ event.step = Mac
  /\ theirMac' = theirMac \cup {event.txn}
  /\ IF answered[event.txn] = 4 THEN Answer(event.txn) ELSE UNCHANGED answered
  /\ Return
  /\ UNCHANGED <<known, calls, ghosts>>

\* onVerificationDone, with VerificationDone.
HandleDone ==
  /\ Holds /\ Expected(event) /\ event.step = Done
  /\ finished' = finished \cup {event.txn}
  /\ Return
  /\ UNCHANGED <<answered, known, theirMac, calls, cancelled, disturbed, failures>>

Disturb(ts) ==
  /\ failures < MaxFailures
  /\ failures' = failures + 1
  /\ disturbed' = disturbed \cup ts

\* The send of an answer fails, and the handler returns the error.
HandleFails ==
  /\ Holds /\ Expected(event) /\ event.step \in {Start, Key, Mac}
  /\ Disturb({event.txn})
  /\ Return
  /\ UNCHANGED <<answered, known, theirMac, calls, finished, cancelled>>

\* The handler returns, after the calls it made itself.
HelperUnlocks ==
  /\ Running("helper") /\ lock = Handling /\ handled
  /\ \A c \in calls : c.by # "loop"
  /\ lock' = Free /\ handled' = FALSE
  /\ turn' = turn + 1
  /\ UNCHANGED <<peers, room, answered, event, evtID, known, theirMac, calls, ghosts>>

\* AcceptVerification and ConfirmSAS take the lock themselves.
CallLocks(c) ==
  /\ c \in calls /\ lock = Free
  /\ lock' = c
  /\ UNCHANGED <<peers, room, answered, dispatch, known, theirMac, handled, calls, ghosts>>

CallEnds(c) ==
  /\ lock' = Free /\ calls' = calls \ {c}
  /\ UNCHANGED <<peers, room, dispatch, known, theirMac, handled>>

\* The bot sends ready.
AcceptVerification(c) ==
  /\ lock = c /\ c.op = "accept"
  /\ IF c.txn \in known /\ answered[c.txn] = 0 THEN Answer(c.txn) ELSE UNCHANGED answered
  /\ CallEnds(c)
  /\ UNCHANGED ghosts

\* The bot sends its MAC, and done if the peer's MAC came first.
ConfirmSAS(c) ==
  /\ lock = c /\ c.op = "confirm"
  /\ answered' = IF c.txn \in known /\ answered[c.txn] = 3
                 THEN [answered EXCEPT ![c.txn] = IF c.txn \in theirMac THEN 5 ELSE 4]
                 ELSE answered
  /\ CallEnds(c)
  /\ UNCHANGED ghosts

\* A call fails, with an error that is only logged.
CallFails(c) ==
  /\ lock = c
  /\ Disturb({c.txn})
  /\ CallEnds(c)
  /\ UNCHANGED <<answered, finished, cancelled>>

\* The process stops and starts: the in-memory store and the calls are gone, and
\* so are the events of the response that was being handled.
Restart ==
  /\ \E s \in [Txns -> 0 .. Done] :
       /\ \A t \in Txns : s[t] \in seen[t] .. sent[t]
       /\ seen' = s
       /\ Disturb({t \in Txns : seen[t] > 0 \/ s[t] > 0} \ finished)
  /\ known' = {} /\ theirMac' = {} /\ calls' = {} /\ lock' = Free /\ handled' = FALSE
  /\ event' = None /\ evtID' = "own" /\ turn' = 1
  /\ UNCHANGED <<peers, echoed, answered, finished, cancelled>>

--------------------------------------------------------------------------------
Peer == \E t \in Txns : PeerSends(t) \/ PeerQuits(t)

Loop ==
  \/ \E t \in Txns : TakeStep(t) \/ TakeQuit(t) \/ TakeEcho(t)
  \/ Normalize \/ DispatchEnd
  \/ HelperSkips \/ HelperLocks \/ HelperCancels \/ HelperUnlocks
  \/ HandleRequest \/ HandleStart \/ HandleKey \/ HandleMac \/ HandleDone \/ HandleFails

Call(c) == CallLocks(c) \/ AcceptVerification(c) \/ ConfirmSAS(c) \/ CallFails(c)

Next == Peer \/ Loop \/ (\E c \in calls : Call(c)) \/ Restart

Spec == Init /\ [][Next]_vars

\* The sync loop and the goroutines run on, and people who began go on.
FairSpec ==
  /\ Spec
  /\ WF_vars(Loop)
  /\ \A t \in Txns : WF_vars(PeerSends(t))
  /\ \A c \in Calls : WF_vars(c \in calls /\ Call(c))

--------------------------------------------------------------------------------
(* Properties. *)

TypeOK ==
  /\ sent \in [Txns -> 0 .. Done] /\ seen \in [Txns -> 0 .. Done]
  /\ answered \in [Txns -> 0 .. Done] /\ echoed \in [Txns -> 0 .. Done]
  /\ quit \in [Txns -> {"no", "sent", "seen"}]
  /\ known \subseteq Txns /\ theirMac \subseteq Txns
  /\ event \in Events \cup {None}
  /\ evtID \in {"own", "request", "blank"}
  /\ turn \in 1 .. 3
  /\ lock \in {Free, Handling} \cup Calls
  /\ handled \in BOOLEAN
  /\ calls \subseteq Calls
  /\ finished \subseteq Txns /\ cancelled \subseteq Txns /\ disturbed \subseteq Txns
  /\ failures \in 0 .. MaxFailures

\* The handlers run in order, an echo does not get to the helper's lock, and no
\* call waits for a lock that is held for it (Handlers, CallBack).
DispatchShape ==
  /\ event = None => turn = 1
  /\ event # None /\ event.from = "self" => event.txn \notin ToDevice
  /\ event # None /\ turn = 2 /\ event.from = "self" => evtID = "blank"
  /\ event # None /\ turn = 2 /\ event.from = "peer" => Resolved
  /\ lock = Handling => event # None /\ turn = 2 /\ event.from = "peer"
  /\ handled => lock = Handling
  /\ lock \in {Free, Handling} \cup calls
  /\ \A c \in calls : c.by = c.txn

\* A step of the peer is taken, but the helper is not done with it.
InHand(t) ==
  event # None /\ event.txn = t /\ event.from = "peer" /\ turn <= 2 /\ ~handled

StepsHandled(t) == IF InHand(t) THEN seen[t] - 1 ELSE seen[t]

\* Steps handled and answers sent that belong together: ready waits for its call,
\* and so does the bot's MAC, which may come before the peer's or after it.
InStep(h, a) ==
  \/ h # 4 /\ a = h
  \/ h = 1 /\ a = 0
  \/ h = 3 /\ a = 4
  \/ h = 4 /\ a \in {3, 5}

\* A transaction that nothing has broken off follows the protocol.
FollowsProtocol(t) ==
  /\ quit[t] = "no" /\ t \notin cancelled
  /\ InHand(t) => event.step = seen[t]
  /\ InStep(StepsHandled(t), answered[t])
  /\ seen[t] <= sent[t] /\ sent[t] <= answered[t] + 1
  /\ CallBack(t, "accept") \in calls <=> StepsHandled(t) = 1 /\ answered[t] = 0
  /\ CallBack(t, "confirm") \in calls <=> answered[t] = 3
  /\ t \in finished <=> StepsHandled(t) = 5
  /\ t \notin finished => /\ t \in known <=> StepsHandled(t) >= 1
                          /\ t \in theirMac <=> StepsHandled(t) >= 4

\* The inductive invariant.
VInv == TypeOK /\ DispatchShape /\ \A t \in Txns \ disturbed : FollowsProtocol(t)

\* The helper cancels no transaction whose peer follows the protocol, nothing
\* failed and no process was restarted: not for an echo of its own answer, and
\* not because the peer's MAC and the bot's confirmation cross
\* (normalizeInRoomVerificationEvent, ShowSAS).
NeverCancelsItself == cancelled \subseteq disturbed

\* The sync loop can go on with its event: to the next handler, with the lock, or
\* out of the helper.
LoopMoves ==
  \/ Running("normalize") \/ turn > Len(Handlers)
  \/ Running("helper") /\ (~Resolved \/ lock = Free)
  \/ Running("helper") /\ lock = Handling /\ (~handled \/ \A c \in calls : c.by # "loop")

\* Somebody can take a step without which t does not go on: its peer, whose turn
\* it is, the sync loop, or a goroutine that has the lock or can take it for t.
SomebodyMoves(t) ==
  \/ quit[t] = "no" /\ t \notin cancelled /\ sent[t] < Done /\ answered[t] >= sent[t]
  \/ event = None /\ seen[t] < sent[t]
  \/ event # None /\ LoopMoves
  \/ \E c \in calls : lock = c \/ (lock = Free /\ c.txn = t)

\* Nobody waits for somebody who waits: as long as a transaction that nobody broke
\* off is not through, its peer's next step is due, or the loop and the calls of
\* the callbacks get on, however they share activeTransactionsLock
\* (VerificationRequested, ShowSAS).
NobodyIsStuck ==
  \A t \in Txns \ disturbed : sent[t] > 0 /\ t \notin finished => SomebodyMoves(t)

\* A request that is not broken off is carried through: no callback waits for
\* the lock its caller holds, and no step of the peer is taken for one of an
\* unknown transaction.
EventuallyVerified ==
  \A t \in Txns : sent[t] > 0 ~> t \in finished \cup disturbed
================================================================================
