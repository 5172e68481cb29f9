-------------------------- MODULE VerificationProofs --------------------------
(***************************************************************************)
(* Proofs about Verification, for every set of transactions, any of them   *)
(* run from device to device, and every number of failures.                *)
(***************************************************************************)
EXTENDS Verification, TLAPS

\* The steps are numbers; the handlers run in their order.
LEMMA Steps == /\ Request = 1 /\ Start = 2 /\ Key = 3 /\ Mac = 4 /\ Done = 5 /\ Cancel = 6
               /\ Request .. Cancel = 1 .. 6 /\ 0 .. Done = 0 .. 5
BY DEF Request, Start, Key, Mac, Done, Cancel

LEMMA Turns ==
  ASSUME turn \in 1 .. 3
  PROVE  /\ Running("normalize") <=> event # None /\ turn = 1
         /\ Running("helper") <=> event # None /\ turn = 2
         /\ turn > Len(Handlers) <=> turn = 3
BY DEF Running, Handlers

\* The records are told apart.
LEMMA Records ==
  /\ None \notin Events
  /\ Free # Handling /\ Free \notin Calls /\ Handling \notin Calls
  /\ \A t \in Txns : CallBack(t, "accept") \in Calls /\ CallBack(t, "confirm") \in Calls
  /\ \A t, u : /\ CallBack(t, "accept") # CallBack(u, "confirm")
               /\ CallBack(t, "accept") = CallBack(u, "accept") => t = u
               /\ CallBack(t, "confirm") = CallBack(u, "confirm") => t = u
  /\ \A c \in Calls : c.by = c.txn => c = CallBack(c.txn, c.op)
<1>1. None \notin Events
  <2>1. "txn" \notin DOMAIN None /\ \A e \in Events : "txn" \in DOMAIN e
    BY DEF None, Events
  <2> QED
    BY <2>1
<1>2. Free # Handling /\ Free \notin Calls /\ Handling \notin Calls
  <2>1. Free.op = "none" /\ Handling.op = "handle" /\ \A c \in Calls : c.op \in {"accept", "confirm"}
    BY DEF Free, Handling, Calls
  <2> QED
    BY <2>1
<1>3. \A t \in Txns : CallBack(t, "accept") \in Calls /\ CallBack(t, "confirm") \in Calls
  BY DEF CallBack, Calls
<1>4. \A t, u : /\ CallBack(t, "accept") # CallBack(u, "confirm")
                /\ CallBack(t, "accept") = CallBack(u, "accept") => t = u
                /\ CallBack(t, "confirm") = CallBack(u, "confirm") => t = u
  BY DEF CallBack
<1>5. \A c \in Calls : c.by = c.txn => c = CallBack(c.txn, c.op)
  BY DEF CallBack, Calls
<1> QED
  BY <1>1, <1>2, <1>3, <1>4, <1>5

--------------------------------------------------------------------------------
(* Types. *)

LEMMA InitType == Init => TypeOK
<1> SUFFICES ASSUME Init PROVE TypeOK
  OBVIOUS
<1>1. /\ sent \in [Txns -> 0 .. Done] /\ seen \in [Txns -> 0 .. Done]
      /\ answered \in [Txns -> 0 .. Done] /\ echoed \in [Txns -> 0 .. Done]
      /\ quit \in [Txns -> {"no", "sent", "seen"}]
      /\ failures \in 0 .. MaxFailures /\ turn \in 1 .. 3
  BY Steps, VerificationAssumption DEF Init
<1>2. handled \in BOOLEAN
  BY DEF Init
<1> QED
  BY <1>1, <1>2 DEF Init, TypeOK

\* The helper's handler has an event of a peer, its answers are in range.
LEMMA HoldsType ==
  ASSUME TypeOK, DispatchShape, Holds
  PROVE  /\ event \in Events /\ event.txn \in Txns /\ event.step \in 1 .. 6
         /\ event # None /\ turn = 2 /\ lock = Handling /\ ~handled /\ event.from = "peer"
BY Turns, Steps, Records DEF Holds, TypeOK, DispatchShape, Events

LEMMA NextType == ASSUME TypeOK, DispatchShape, [Next]_vars PROVE TypeOK'
<1> USE DEF peers, room, dispatch, helper, ghosts
<1>1. ASSUME NEW t \in Txns, PeerSends(t) PROVE TypeOK'
  <2>1. sent' \in [Txns -> 0 .. Done]
    BY <1>1, Steps DEF PeerSends, TypeOK
  <2> QED
    BY <1>1, <2>1 DEF PeerSends, TypeOK
<1>2. ASSUME NEW t \in Txns, PeerQuits(t) PROVE TypeOK'
  BY <1>2 DEF PeerQuits, TypeOK
<1>3. ASSUME NEW t \in Txns, TakeStep(t) PROVE TypeOK'
  <2>1. seen' \in [Txns -> 0 .. Done]
    BY <1>3, Steps DEF TakeStep, TypeOK
  <2>2. [txn |-> t, from |-> "peer", step |-> seen[t] + 1] \in Events
    BY <1>3, Steps DEF TakeStep, TypeOK, Events
  <2> QED
    BY <1>3, <2>1, <2>2 DEF TakeStep, Take, TypeOK
<1>4. ASSUME NEW t \in Txns, TakeQuit(t) PROVE TypeOK'
  <2>1. [txn |-> t, from |-> "peer", step |-> Cancel] \in Events
    BY Steps DEF Events
  <2> QED
    BY <1>4, <2>1 DEF TakeQuit, Take, TypeOK
<1>5. ASSUME NEW t \in Txns, TakeEcho(t) PROVE TypeOK'
  <2>1. echoed' \in [Txns -> 0 .. Done]
    BY <1>5, Steps DEF TakeEcho, TypeOK
  <2>2. [txn |-> t, from |-> "self", step |-> echoed[t] + 1] \in Events
    BY <1>5, Steps DEF TakeEcho, TypeOK, Events
  <2> QED
    BY <1>5, <2>1, <2>2 DEF TakeEcho, Take, TypeOK
<1>6. CASE Normalize
  BY <1>6, Turns DEF Normalize, Normalized, TypeOK
<1>7. CASE DispatchEnd
  BY <1>7 DEF DispatchEnd, TypeOK
<1>8. CASE HelperSkips \/ HelperUnlocks
  <2>1. turn' \in 1 .. 3
    BY <1>8, Turns DEF HelperSkips, HelperUnlocks, TypeOK
  <2>2. handled' \in BOOLEAN
    BY <1>8 DEF HelperSkips, HelperUnlocks, TypeOK
  <2> QED
    BY <1>8, <2>1, <2>2 DEF HelperSkips, HelperUnlocks, TypeOK
<1>9. CASE HelperLocks
  BY <1>9 DEF HelperLocks, TypeOK
<1>10. ASSUME NEW t \in Txns, answered[t] < 5, Answer(t)
       PROVE  answered' \in [Txns -> 0 .. Done]
  BY <1>10, Steps DEF Answer, TypeOK
<1>11. ASSUME Return PROVE handled' \in BOOLEAN
  BY <1>11 DEF Return
<1>12. CASE HelperCancels
  BY <1>11, <1>12, HoldsType DEF HelperCancels, Return, TypeOK
<1>13. CASE HandleRequest
  BY <1>11, <1>13, HoldsType, Records DEF HandleRequest, Return, TypeOK
<1>14. CASE HandleStart
  <2>1. answered' \in [Txns -> 0 .. Done]
    BY <1>10, <1>14, HoldsType, Steps DEF HandleStart, Expected
  <2> QED
    BY <1>11, <1>14, <2>1 DEF HandleStart, Return, TypeOK
<1>15. CASE HandleKey
  <2>1. answered' \in [Txns -> 0 .. Done]
    BY <1>10, <1>15, HoldsType, Steps DEF HandleKey, Expected
  <2>2. calls' \subseteq Calls
    BY <1>15, HoldsType, Records DEF HandleKey, TypeOK
  <2> QED
    BY <1>11, <1>15, <2>1, <2>2 DEF HandleKey, Return, TypeOK
<1>16. CASE HandleMac
  <2>1. answered' \in [Txns -> 0 .. Done]
    BY <1>10, <1>16, HoldsType DEF HandleMac, TypeOK
  <2> QED
    BY <1>11, <1>16, <2>1, HoldsType DEF HandleMac, Return, TypeOK
<1>17. CASE HandleDone
  BY <1>11, <1>17, HoldsType DEF HandleDone, Return, TypeOK
<1>18. ASSUME NEW ts \in SUBSET Txns, Disturb(ts)
       PROVE  failures' \in 0 .. MaxFailures /\ disturbed' \subseteq Txns
  BY <1>18, VerificationAssumption DEF Disturb, TypeOK
<1>19. CASE HandleFails
  BY <1>11, <1>18, <1>19, HoldsType DEF HandleFails, Return, TypeOK
<1>20. ASSUME NEW c \in calls, CallLocks(c) PROVE TypeOK'
  BY <1>20 DEF CallLocks, TypeOK
<1>21. ASSUME NEW c \in calls, AcceptVerification(c) PROVE TypeOK'
  <2>1. c.txn \in Txns
    BY DEF TypeOK, Calls
  <2>2. answered' \in [Txns -> 0 .. Done]
    BY <1>10, <1>21, <2>1 DEF AcceptVerification, TypeOK
  <2> QED
    BY <1>21, <2>2 DEF AcceptVerification, CallEnds, TypeOK
<1>22. ASSUME NEW c \in calls, ConfirmSAS(c) PROVE TypeOK'
  <2>1. answered' \in [Txns -> 0 .. Done]
    BY <1>22, Steps DEF ConfirmSAS, TypeOK
  <2> QED
    BY <1>22, <2>1 DEF ConfirmSAS, CallEnds, TypeOK
<1>23. ASSUME NEW c \in calls, CallFails(c) PROVE TypeOK'
  <2>1. c.txn \in Txns
    BY DEF TypeOK, Calls
  <2> QED
    BY <1>18, <1>23, <2>1 DEF CallFails, CallEnds, TypeOK
<1>24. CASE Restart
  <2>1. PICK s \in [Txns -> 0 .. Done] :
          seen' = s /\ Disturb({t \in Txns : seen[t] > 0 \/ s[t] > 0} \ finished)
    BY <1>24 DEF Restart
  <2>2. failures' \in 0 .. MaxFailures /\ disturbed' \subseteq Txns
    BY <1>18, <2>1
  <2>3. handled' \in BOOLEAN
    BY <1>24 DEF Restart
  <2> QED
    BY <1>24, <2>1, <2>2, <2>3 DEF Restart, TypeOK
<1>25. CASE UNCHANGED vars
  BY <1>25 DEF vars, TypeOK
<1> QED
  BY <1>1, <1>2, <1>3, <1>4, <1>5, <1>6, <1>7, <1>8, <1>9, <1>12, <1>13, <1>14, <1>15, <1>16,
     <1>17, <1>19, <1>20, <1>21, <1>22, <1>23, <1>24, <1>25 DEF Next, Peer, Loop, Call
--------------------------------------------------------------------------------
(* The handlers and the lock. *)

\* Which calls there are does not matter to the rest of the shape.
LEMMA ReturnShape ==
  ASSUME TypeOK, DispatchShape, Holds, Return,
         NEW new \in SUBSET {c \in Calls : c.by = c.txn}, calls' = calls \cup new
  PROVE  DispatchShape'
<1>1. lock' = Handling /\ event # None /\ turn = 2 /\ event.from = "peer"
  BY HoldsType DEF Return
<1>2. UNCHANGED <<event, evtID, turn>>
  BY DEF Return, dispatch
<1>3. Resolved' = Resolved
  BY <1>2 DEF Resolved, Untouched
<1> QED
  BY <1>1, <1>2, <1>3 DEF DispatchShape

LEMMA CallEndsShape ==
  ASSUME TypeOK, DispatchShape, NEW c \in calls, lock = c, CallEnds(c)
  PROVE  DispatchShape'
<1>1. lock # Handling /\ lock' = Free /\ lock' # Handling /\ calls' \subseteq calls
  BY Records DEF CallEnds, TypeOK
<1>2. UNCHANGED <<event, evtID, turn, handled>>
  BY DEF CallEnds, dispatch
<1>3. Resolved' = Resolved
  BY <1>2 DEF Resolved, Untouched
<1> QED
  BY <1>1, <1>2, <1>3 DEF DispatchShape

LEMMA NextShape == ASSUME TypeOK, DispatchShape, [Next]_vars PROVE DispatchShape'
<1> USE DEF peers, room, dispatch, helper, ghosts
<1>1. ASSUME UNCHANGED <<event, evtID, turn, lock, handled, calls>> PROVE DispatchShape'
  BY <1>1 DEF DispatchShape, Resolved, Untouched
<1>2. CASE Peer
  BY <1>1, <1>2 DEF Peer, PeerSends, PeerQuits
<1>3. ASSUME NEW e \in Events, Take(e), e.from = "self" => e.txn \notin ToDevice
      PROVE  DispatchShape'
  <2>1. event = None /\ turn = 1 /\ event' = e /\ e # None
    BY <1>3, Records DEF Take, DispatchShape
  <2>2. UNCHANGED <<evtID, turn, lock, handled, calls>>
    BY <1>3 DEF Take
  <2> QED
    BY <1>3, <2>1, <2>2 DEF DispatchShape
<1>4. ASSUME NEW t \in Txns, TakeStep(t) \/ TakeQuit(t) \/ TakeEcho(t) PROVE DispatchShape'
  <2>1. CASE TakeStep(t)
    <3>1. [txn |-> t, from |-> "peer", step |-> seen[t] + 1] \in Events
      BY <2>1, Steps DEF TakeStep, TypeOK, Events
    <3> QED
      BY <1>3, <2>1, <3>1 DEF TakeStep
  <2>2. CASE TakeQuit(t)
    <3>1. [txn |-> t, from |-> "peer", step |-> Cancel] \in Events
      BY Steps DEF Events
    <3> QED
      BY <1>3, <2>2, <3>1 DEF TakeQuit
  <2>3. CASE TakeEcho(t)
    <3>1. [txn |-> t, from |-> "self", step |-> echoed[t] + 1] \in Events
      BY <2>3, Steps DEF TakeEcho, TypeOK, Events
    <3> QED
      BY <1>3, <2>3, <3>1 DEF TakeEcho
  <2> QED
    BY <1>4, <2>1, <2>2, <2>3
<1>5. CASE Normalize
  <2>1. event # None /\ turn = 1 /\ turn' = 2 /\ lock # Handling
    BY <1>5, Turns DEF Normalize, DispatchShape, TypeOK
  <2>2. event.from = "self" => evtID' = "blank"
    BY <1>5, <2>1, Steps DEF Normalize, Normalized, Untouched, DispatchShape
  <2>3. event.from = "peer" => Resolved'
    BY <1>5 DEF Normalize, Normalized, Resolved, Untouched
  <2> QED
    BY <1>5, <2>1, <2>2, <2>3 DEF Normalize, DispatchShape
<1>6. CASE DispatchEnd
  <2>1. turn = 3 /\ event' = None /\ turn' = 1 /\ UNCHANGED <<lock, handled, calls>>
    BY <1>6, Turns DEF DispatchEnd, TypeOK
  <2> QED
    BY <2>1 DEF DispatchShape
<1>7. CASE HelperSkips
  <2>1. turn' = 3 /\ ~Resolved /\ event # None /\ turn = 2
    BY <1>7, Turns DEF HelperSkips, TypeOK
  <2>2. lock # Handling
    BY <2>1 DEF DispatchShape
  <2>3. UNCHANGED <<event, lock, handled, calls>>
    BY <1>7 DEF HelperSkips
  <2> QED
    BY <2>1, <2>2, <2>3 DEF DispatchShape
<1>8. CASE HelperLocks
  <2>1. event # None /\ turn = 2 /\ Resolved /\ lock = Free /\ lock' = Handling
    BY <1>8, Turns DEF HelperLocks, TypeOK
  <2>2. event.from = "peer"
    <3>1. event \in Events
      BY <2>1 DEF TypeOK
    <3>2. event.from = "self" => evtID = "blank" /\ event.txn \notin ToDevice
      BY <2>1 DEF DispatchShape
    <3> QED
      BY <2>1, <3>1, <3>2 DEF Resolved, Untouched, Events
  <2>3. UNCHANGED <<event, evtID, turn, handled, calls>>
    BY <1>8 DEF HelperLocks
  <2> QED
    BY <2>1, <2>2, <2>3 DEF DispatchShape, Resolved, Untouched
<1>9. CASE HelperUnlocks
  <2>1. turn' = 3 /\ lock' = Free /\ ~handled' /\ event # None /\ UNCHANGED <<event, calls>>
    BY <1>9, Turns DEF HelperUnlocks, TypeOK
  <2> QED
    BY <2>1, Records DEF DispatchShape
<1>10. CASE HelperCancels \/ HandleStart \/ HandleMac \/ HandleDone \/ HandleFails
  <2>1. Holds /\ Return /\ calls' = calls \cup {}
    BY <1>10 DEF HelperCancels, HandleStart, HandleMac, HandleDone, HandleFails
  <2>2. {} \in SUBSET {c \in Calls : c.by = c.txn}
    OBVIOUS
  <2> QED
    BY <2>1, <2>2, ReturnShape
<1>11. CASE HandleRequest \/ HandleKey
  <2>1. event.txn \in Txns /\ Holds
    BY <1>11, HoldsType DEF HandleRequest, HandleKey
  <2>2. \A op \in {"accept", "confirm"} :
          CallBack(event.txn, op) \in Calls /\ CallBack(event.txn, op).by = event.txn
          /\ CallBack(event.txn, op).txn = event.txn
    BY <2>1, Records DEF CallBack
  <2> QED
    BY <1>11, <2>1, <2>2, ReturnShape DEF HandleRequest, HandleKey
<1>12. ASSUME NEW c \in calls, CallLocks(c) PROVE DispatchShape'
  <2>1. lock = Free /\ lock' = c /\ c # Handling
    BY <1>12, Records DEF CallLocks, TypeOK
  <2> QED
    BY <1>12, <2>1, Records DEF CallLocks, DispatchShape, Resolved, Untouched
<1>13. ASSUME NEW c \in calls, AcceptVerification(c) \/ ConfirmSAS(c) \/ CallFails(c)
       PROVE  DispatchShape'
  BY <1>13, CallEndsShape DEF AcceptVerification, ConfirmSAS, CallFails
<1>14. CASE Restart
  BY <1>14, Records DEF Restart, DispatchShape
<1>15. CASE UNCHANGED vars
  BY <1>1, <1>15 DEF vars
<1> QED
  BY <1>2, <1>4, <1>5, <1>6, <1>7, <1>8, <1>9, <1>10, <1>11, <1>12, <1>13, <1>14, <1>15
     DEF Next, Loop, Call
--------------------------------------------------------------------------------
(* The transactions. *)

\* A step that leaves a transaction alone.
Untroubled(t) ==
  /\ sent'[t] = sent[t] /\ seen'[t] = seen[t] /\ answered'[t] = answered[t]
  /\ quit'[t] = quit[t]
  /\ InHand(t)' <=> InHand(t)
  /\ InHand(t) => event' = event
  /\ t \in known' <=> t \in known
  /\ t \in theirMac' <=> t \in theirMac
  /\ t \in cancelled' <=> t \in cancelled
  /\ t \in finished' <=> t \in finished
  /\ CallBack(t, "accept") \in calls' <=> CallBack(t, "accept") \in calls
  /\ CallBack(t, "confirm") \in calls' <=> CallBack(t, "confirm") \in calls

LEMMA UntroubledFollows ==
  ASSUME NEW t \in Txns, FollowsProtocol(t), Untroubled(t)
  PROVE  FollowsProtocol(t)'
<1>1. StepsHandled(t)' = StepsHandled(t)
  BY DEF Untroubled, StepsHandled
<1>2. \A op : CallBack(t, op)' = CallBack(t, op)
  BY DEF CallBack
<1> QED
  BY <1>1, <1>2 DEF Untroubled, FollowsProtocol

\* What a handler of the helper may rely on: a transaction that follows the
\* protocol has done the steps before the one at hand.
LEMMA AtHand ==
  ASSUME TypeOK, DispatchShape, Holds, NEW t, t = event.txn, FollowsProtocol(t)
  PROVE  /\ t \in Txns /\ InHand(t) /\ seen[t] \in 1 .. 5
         /\ event.step = seen[t] /\ StepsHandled(t) = seen[t] - 1
         /\ answered[t] \in 0 .. 5 /\ sent[t] \in 0 .. 5
         /\ seen[t] <= sent[t] /\ sent[t] <= answered[t] + 1
         /\ t \notin finished
         /\ Expected(event)
<1>1. t \in Txns /\ InHand(t) /\ event.step \in 1 .. 6 /\ event.from = "peer"
  BY HoldsType DEF InHand
<1>2. seen[t] \in 0 .. 5 /\ answered[t] \in 0 .. 5 /\ sent[t] \in 0 .. 5
  BY <1>1, Steps DEF TypeOK
<1>3. /\ event.step = seen[t] /\ StepsHandled(t) = seen[t] - 1 /\ seen[t] \in 1 .. 5
      /\ seen[t] <= sent[t] /\ sent[t] <= answered[t] + 1
  BY <1>1, <1>2 DEF FollowsProtocol, StepsHandled
<1>4. t \notin finished
  BY <1>1, <1>2, <1>3 DEF FollowsProtocol
<1>5. t \in known <=> StepsHandled(t) >= 1
  BY <1>4 DEF FollowsProtocol
<1>6. InStep(seen[t] - 1, answered[t])
  BY <1>3 DEF FollowsProtocol
<1>7. \/ seen[t] = 4 /\ answered[t] \in {3, 4}
      \/ seen[t] \in 1 .. 3 /\ answered[t] = seen[t] - 1
      \/ seen[t] = 5 /\ answered[t] = 5
  <2>1. ASSUME NEW n \in 1 .. 5, NEW m \in 0 .. 5, NEW a \in 0 .. 5,
               n <= m, m <= a + 1, InStep(n - 1, a)
        PROVE  \/ n = 4 /\ a \in {3, 4}
               \/ n \in 1 .. 3 /\ a = n - 1
               \/ n = 5 /\ a = 5
    BY <2>1 DEF InStep
  <2> QED
    BY <1>2, <1>3, <1>6, <2>1
<1>8. Expected(event)
  BY <1>1, <1>3, <1>5, <1>7, Steps DEF Expected
<1> QED
  BY <1>1, <1>2, <1>3, <1>4, <1>8

\* A handler of the helper leaves the other transactions alone.
LEMMA OthersUntroubled ==
  ASSUME TypeOK, DispatchShape, Holds, Return, NEW t \in Txns, t # event.txn,
         answered'[t] = answered[t],
         t \in known' <=> t \in known, t \in theirMac' <=> t \in theirMac,
         t \in cancelled' <=> t \in cancelled, t \in finished' <=> t \in finished,
         calls \subseteq calls', \A c \in calls' \ calls : c.txn = event.txn
  PROVE  Untroubled(t)
<1>1. UNCHANGED <<sent, seen, quit, event, turn>>
  BY DEF Return, peers, room, dispatch
<1>2. ~InHand(t) /\ ~InHand(t)'
  BY <1>1 DEF InHand
<1>3. \A op : CallBack(t, op).txn # event.txn
  BY DEF CallBack
<1> QED
  BY <1>1, <1>2, <1>3 DEF Untroubled

\* The helper has handled a step of t that leaves it following the protocol.
LEMMA HandledFollows ==
  ASSUME TypeOK, DispatchShape, Holds, Return, NEW t, t = event.txn, FollowsProtocol(t),
         answered'[t] \in 0 .. 5, answered[t] <= answered'[t],
         InStep(seen[t], answered'[t]),
         t \notin cancelled',
         CallBack(t, "accept") \in calls' <=> seen[t] = 1 /\ answered'[t] = 0,
         CallBack(t, "confirm") \in calls' <=> answered'[t] = 3,
         t \in finished' <=> seen[t] = 5,
         t \notin finished' => t \in known' /\ (t \in theirMac' <=> seen[t] >= 4)
  PROVE  FollowsProtocol(t)'
<1>1. UNCHANGED <<sent, seen, quit, event, turn>> /\ handled'
  BY DEF Return, peers, room, dispatch
<1>2. ~InHand(t)' /\ StepsHandled(t)' = seen[t]
  BY <1>1 DEF InHand, StepsHandled
<1>3. \A op : CallBack(t, op)' = CallBack(t, op)
  BY DEF CallBack
<1>4. seen[t] \in 1 .. 5 /\ answered[t] \in 0 .. 5 /\ sent[t] \in 0 .. 5
      /\ seen[t] <= sent[t] /\ sent[t] <= answered[t] + 1
  BY AtHand
<1>5. sent[t] <= answered'[t] + 1 /\ seen[t] >= 1
  BY <1>4
<1> QED
  BY <1>1, <1>2, <1>3, <1>4, <1>5 DEF FollowsProtocol

LEMMA NextProtocol ==
  ASSUME TypeOK, DispatchShape, [Next]_vars,
         NEW t \in Txns, t \notin disturbed', FollowsProtocol(t)
  PROVE  FollowsProtocol(t)'
<1> USE DEF peers, room, dispatch, helper, ghosts
<1> USE UntroubledFollows
<1>1. /\ sent[t] \in 0 .. 5 /\ seen[t] \in 0 .. 5 /\ answered[t] \in 0 .. 5
      /\ seen[t] <= sent[t] /\ sent[t] <= answered[t] + 1
      /\ \A op : CallBack(t, op)' = CallBack(t, op)
  BY Steps DEF TypeOK, FollowsProtocol, CallBack
<1>2. ASSUME NEW u \in Txns, PeerSends(u) PROVE FollowsProtocol(t)'
  <2>1. CASE u = t
    <3>1. sent'[t] = sent[t] + 1 /\ answered[t] >= sent[t]
      BY <1>2, <2>1 DEF PeerSends, TypeOK
    <3>2. InHand(t)' = InHand(t) /\ StepsHandled(t)' = StepsHandled(t)
      BY <1>2 DEF PeerSends, InHand, StepsHandled
    <3> QED
      BY <1>1, <1>2, <3>1, <3>2 DEF PeerSends, FollowsProtocol
  <2>2. CASE u # t
    BY <1>1, <1>2, <2>2 DEF PeerSends, Untroubled, InHand, TypeOK
  <2> QED
    BY <2>1, <2>2
<1>3. ASSUME NEW u \in Txns, PeerQuits(u) PROVE FollowsProtocol(t)'
  <2>1. u # t
    BY <1>3 DEF PeerQuits
  <2> QED
    BY <1>1, <1>3, <2>1 DEF PeerQuits, Untroubled, InHand, TypeOK
<1>4. ASSUME NEW e, Take(e), UNCHANGED <<seen, quit>>, e.from = "self" \/ e.txn # t
      PROVE  FollowsProtocol(t)'
  <2>1. ~InHand(t) /\ ~InHand(t)'
    BY <1>4 DEF Take, InHand
  <2> QED
    BY <1>1, <1>4, <2>1 DEF Take, Untroubled
<1>5. ASSUME NEW u \in Txns, TakeStep(u) PROVE FollowsProtocol(t)'
  <2>1. CASE u = t
    <3>1. event = None /\ turn = 1 /\ ~handled
      BY <1>5, Records DEF TakeStep, Take, DispatchShape
    <3>2. /\ event' = [txn |-> t, from |-> "peer", step |-> seen[t] + 1]
          /\ seen'[t] = seen[t] + 1 /\ seen[t] < sent[t]
          /\ UNCHANGED <<turn, handled>>
      BY <1>5, <2>1 DEF TakeStep, Take, TypeOK
    <3>3. event' # None
      BY <3>2, Records DEF None
    <3>4. ~InHand(t) /\ InHand(t)' /\ event'.step = seen'[t]
      BY <3>1, <3>2, <3>3 DEF InHand
    <3>5. StepsHandled(t)' = StepsHandled(t)
      BY <1>1, <3>2, <3>4 DEF StepsHandled
    <3> QED
      BY <1>1, <1>5, <3>2, <3>4, <3>5 DEF TakeStep, Take, FollowsProtocol
  <2>2. CASE u # t
    <3>1. ~InHand(t) /\ ~InHand(t)'
      BY <1>5, <2>2 DEF TakeStep, Take, InHand
    <3> QED
      BY <1>1, <1>5, <2>2, <3>1 DEF TakeStep, Take, Untroubled, TypeOK
  <2> QED
    BY <2>1, <2>2
<1>6. ASSUME NEW u \in Txns, TakeQuit(u) PROVE FollowsProtocol(t)'
  <2>1. u # t
    BY <1>6 DEF TakeQuit, FollowsProtocol
  <2>2. ~InHand(t) /\ ~InHand(t)'
    BY <1>6, <2>1 DEF TakeQuit, Take, InHand
  <2> QED
    BY <1>1, <1>6, <2>1, <2>2 DEF TakeQuit, Take, Untroubled, TypeOK
<1>7. ASSUME NEW u \in Txns, TakeEcho(u) PROVE FollowsProtocol(t)'
  BY <1>4, <1>7 DEF TakeEcho
<1>8. CASE Normalize \/ HelperLocks
  <2>1. InHand(t)' = InHand(t)
    BY <1>8, Turns DEF Normalize, HelperLocks, InHand, TypeOK
  <2> QED
    BY <1>1, <1>8, <2>1 DEF Normalize, HelperLocks, Untroubled
<1>9. CASE DispatchEnd \/ HelperSkips \/ HelperUnlocks
  <2>1. ~InHand(t)
    BY <1>9, Turns DEF DispatchEnd, HelperSkips, HelperUnlocks, InHand, DispatchShape, TypeOK
  <2>2. ~InHand(t)'
    BY <1>9, Turns DEF DispatchEnd, HelperSkips, HelperUnlocks, InHand, TypeOK
  <2> QED
    BY <1>1, <1>9, <2>1, <2>2 DEF DispatchEnd, HelperSkips, HelperUnlocks, Untroubled
<1>10. CASE HelperCancels
  <2>1. Holds /\ Return /\ t # event.txn
    BY <1>10, AtHand DEF HelperCancels
  <2> QED
    BY <1>10, <2>1, OthersUntroubled DEF HelperCancels
<1>11. ASSUME HandleRequest \/ HandleStart \/ HandleKey \/ HandleMac \/ HandleDone \/ HandleFails,
              t # event.txn
       PROVE  FollowsProtocol(t)'
  <2>1. /\ Holds /\ Return /\ event.txn \in Txns /\ answered'[t] = answered[t]
        /\ UNCHANGED cancelled
    BY <1>11, HoldsType
       DEF HandleRequest, HandleStart, HandleKey, HandleMac, HandleDone, HandleFails, Answer,
           TypeOK
  <2>2. /\ t \in known' <=> t \in known
        /\ t \in theirMac' <=> t \in theirMac
        /\ t \in finished' <=> t \in finished
    BY <1>11 DEF HandleRequest, HandleStart, HandleKey, HandleMac, HandleDone, HandleFails
  <2>3. calls \subseteq calls' /\ \A c \in calls' \ calls : c.txn = event.txn
    BY <1>11 DEF HandleRequest, HandleStart, HandleKey, HandleMac, HandleDone, HandleFails,
       CallBack
  <2>4. Untroubled(t)
    BY <1>11, <2>1, <2>2, <2>3, OthersUntroubled
  <2> QED
    BY <2>4
<1>12. ASSUME HandleRequest, t = event.txn PROVE FollowsProtocol(t)'
  <2>1. Holds /\ Return /\ seen[t] = 1
    BY <1>12, AtHand, Steps DEF HandleRequest
  <2>2. StepsHandled(t) = 0 /\ answered[t] = 0 /\ t \notin finished
    BY <1>1, <1>12, <2>1, AtHand DEF FollowsProtocol, InStep
  <2>3. CallBack(t, "confirm") \notin calls /\ t \notin theirMac
    BY <2>2 DEF FollowsProtocol
  <2>4. /\ t \in known' /\ calls' = calls \cup {CallBack(t, "accept")}
        /\ UNCHANGED <<answered, theirMac, cancelled, finished>>
    BY <1>12 DEF HandleRequest
  <2>5. InStep(seen[t], answered'[t])
    BY <2>1, <2>2, <2>4 DEF InStep
  <2>6. t \notin cancelled'
    BY <2>4 DEF FollowsProtocol
  <2> QED
    BY <1>1, <1>12, <2>1, <2>2, <2>3, <2>4, <2>5, <2>6, Records, HandledFollows
<1>13. ASSUME HandleStart, t = event.txn PROVE FollowsProtocol(t)'
  <2>1. Holds /\ Return /\ seen[t] = 2 /\ StepsHandled(t) = 1 /\ t \notin finished
    BY <1>13, AtHand, Steps DEF HandleStart
  <2>2. answered[t] = 1 /\ t \in known
    BY <1>1, <1>13, <2>1, AtHand, Steps DEF HandleStart, Expected
  <2>3. /\ CallBack(t, "confirm") \notin calls /\ CallBack(t, "accept") \notin calls
        /\ t \notin theirMac
    BY <2>1, <2>2 DEF FollowsProtocol
  <2>4. answered'[t] = 2 /\ UNCHANGED <<known, theirMac, calls, cancelled, finished>>
    BY <1>13, <2>2 DEF HandleStart, Answer, TypeOK
  <2>5. InStep(seen[t], answered'[t])
    BY <2>1, <2>4 DEF InStep
  <2>6. t \notin cancelled'
    BY <2>4 DEF FollowsProtocol
  <2> QED
    BY <1>1, <1>13, <2>1, <2>2, <2>3, <2>4, <2>5, <2>6, HandledFollows
<1>14. ASSUME HandleKey, t = event.txn PROVE FollowsProtocol(t)'
  <2>1. Holds /\ Return /\ seen[t] = 3 /\ StepsHandled(t) = 2 /\ t \notin finished
    BY <1>14, AtHand, Steps DEF HandleKey
  <2>2. answered[t] = 2 /\ t \in known
    BY <1>1, <1>14, <2>1, AtHand, Steps DEF HandleKey, Expected
  <2>3. CallBack(t, "accept") \notin calls /\ t \notin theirMac
    BY <2>1, <2>2 DEF FollowsProtocol
  <2>4. /\ answered'[t] = 3 /\ calls' = calls \cup {CallBack(t, "confirm")}
        /\ UNCHANGED <<known, theirMac, cancelled, finished>>
    BY <1>14, <2>2 DEF HandleKey, Answer, TypeOK
  <2>5. InStep(seen[t], answered'[t])
    BY <2>1, <2>4 DEF InStep
  <2>6. t \notin cancelled'
    BY <2>4 DEF FollowsProtocol
  <2> QED
    BY <1>1, <1>14, <2>1, <2>2, <2>3, <2>4, <2>5, <2>6, Records, HandledFollows
<1>15. ASSUME HandleMac, t = event.txn PROVE FollowsProtocol(t)'
  <2>1. Holds /\ Return /\ seen[t] = 4 /\ StepsHandled(t) = 3 /\ t \notin finished
    BY <1>15, AtHand, Steps DEF HandleMac
  <2>2. answered[t] \in {3, 4} /\ t \in known
    BY <1>1, <1>15, <2>1, AtHand, Steps DEF HandleMac, Expected
  <2>3. /\ CallBack(t, "accept") \notin calls
        /\ CallBack(t, "confirm") \in calls <=> answered[t] = 3
    BY <2>1, <2>2 DEF FollowsProtocol
  <2>4. /\ answered'[t] = IF answered[t] = 4 THEN 5 ELSE 3
        /\ t \in theirMac' /\ UNCHANGED <<known, calls, cancelled, finished>>
    BY <1>15, <2>2 DEF HandleMac, Answer, TypeOK
  <2>5. InStep(seen[t], answered'[t])
    BY <2>1, <2>4 DEF InStep
  <2>6. t \notin cancelled'
    BY <2>4 DEF FollowsProtocol
  <2> QED
    BY <1>1, <1>15, <2>1, <2>2, <2>3, <2>4, <2>5, <2>6, HandledFollows
<1>16. ASSUME HandleDone, t = event.txn PROVE FollowsProtocol(t)'
  <2>1. Holds /\ Return /\ seen[t] = 5 /\ StepsHandled(t) = 4
    BY <1>16, AtHand, Steps DEF HandleDone
  <2>2. answered[t] = 5
    BY <1>1, <1>16, <2>1, AtHand, Steps DEF HandleDone, Expected
  <2>3. CallBack(t, "accept") \notin calls /\ CallBack(t, "confirm") \notin calls
    BY <2>1, <2>2 DEF FollowsProtocol
  <2>4. t \in finished' /\ UNCHANGED <<answered, calls, cancelled>>
    BY <1>16 DEF HandleDone
  <2>5. InStep(seen[t], answered'[t])
    BY <2>1, <2>2, <2>4 DEF InStep
  <2>6. t \notin cancelled'
    BY <2>4 DEF FollowsProtocol
  <2> QED
    BY <1>1, <1>16, <2>1, <2>2, <2>3, <2>4, <2>5, <2>6, HandledFollows
<1>17. ~(HandleFails /\ t = event.txn)
  BY DEF HandleFails, Disturb
<1>18. ASSUME NEW c \in calls, CallLocks(c) PROVE FollowsProtocol(t)'
  BY <1>1, <1>18 DEF CallLocks, Untroubled, InHand
<1>19. ASSUME NEW c \in calls, c.txn # t, CallEnds(c), answered'[t] = answered[t],
              UNCHANGED <<cancelled, finished>>
       PROVE  FollowsProtocol(t)'
  <2>1. \A op : CallBack(t, op) # c
    BY <1>19 DEF CallBack
  <2>2. InHand(t)' = InHand(t)
    BY <1>19 DEF CallEnds, InHand
  <2> QED
    BY <1>1, <1>19, <2>1, <2>2 DEF CallEnds, Untroubled
<1>20. ASSUME NEW c \in calls, AcceptVerification(c) PROVE FollowsProtocol(t)'
  <2>1. CASE c.txn = t
    <3>1. c = CallBack(t, "accept")
      BY <1>20, <2>1, Records DEF AcceptVerification, DispatchShape, TypeOK
    <3>2. StepsHandled(t) = 1 /\ answered[t] = 0 /\ t \notin finished
      BY <3>1 DEF FollowsProtocol
    <3>3. t \in known /\ CallBack(t, "confirm") \notin calls
      BY <3>2 DEF FollowsProtocol
    <3>4. answered'[t] = 1 /\ calls' = calls \ {c}
      BY <1>20, <2>1, <3>2, <3>3 DEF AcceptVerification, Answer, CallEnds, TypeOK
    <3>5. InHand(t)' = InHand(t) /\ StepsHandled(t)' = StepsHandled(t)
      BY <1>20 DEF AcceptVerification, CallEnds, InHand, StepsHandled
    <3>6. InStep(StepsHandled(t)', answered'[t])
      BY <3>2, <3>4, <3>5 DEF InStep
    <3>7. UNCHANGED <<sent, seen, quit, event, known, theirMac, cancelled, finished>>
      BY <1>20 DEF AcceptVerification, CallEnds
    <3> QED
      BY <1>1, <3>1, <3>2, <3>3, <3>4, <3>5, <3>6, <3>7 DEF FollowsProtocol
  <2>2. CASE c.txn # t
    BY <1>19, <1>20, <2>2 DEF AcceptVerification, Answer, TypeOK
  <2> QED
    BY <2>1, <2>2
<1>21. ASSUME NEW c \in calls, ConfirmSAS(c) PROVE FollowsProtocol(t)'
  <2>1. CASE c.txn = t
    <3>1. c = CallBack(t, "confirm")
      BY <1>21, <2>1, Records DEF ConfirmSAS, DispatchShape, TypeOK
    <3>2. answered[t] = 3
      BY <3>1 DEF FollowsProtocol
    <3>3. StepsHandled(t) \in {3, 4}
      BY <3>2 DEF FollowsProtocol, InStep
    <3>4. t \notin finished /\ CallBack(t, "accept") \notin calls
      BY <3>2, <3>3 DEF FollowsProtocol
    <3>5. t \in known /\ (t \in theirMac <=> StepsHandled(t) = 4)
      BY <3>3, <3>4 DEF FollowsProtocol
    <3>6. /\ answered'[t] = IF StepsHandled(t) = 4 THEN 5 ELSE 4
          /\ calls' = calls \ {c}
      BY <1>21, <2>1, <3>2, <3>5 DEF ConfirmSAS, CallEnds, TypeOK
    <3>7. InHand(t)' = InHand(t) /\ StepsHandled(t)' = StepsHandled(t)
      BY <1>21 DEF ConfirmSAS, CallEnds, InHand, StepsHandled
    <3>8. InStep(StepsHandled(t)', answered'[t])
      BY <3>3, <3>6, <3>7 DEF InStep
    <3>9. UNCHANGED <<sent, seen, quit, event, known, theirMac, cancelled, finished>>
      BY <1>21 DEF ConfirmSAS, CallEnds
    <3> QED
      BY <1>1, <3>1, <3>2, <3>3, <3>4, <3>5, <3>6, <3>7, <3>8, <3>9 DEF FollowsProtocol
  <2>2. CASE c.txn # t
    BY <1>19, <1>21, <2>2 DEF ConfirmSAS, TypeOK
  <2> QED
    BY <2>1, <2>2
<1>22. ASSUME NEW c \in calls, CallFails(c) PROVE FollowsProtocol(t)'
  <2>1. c.txn # t
    BY <1>22 DEF CallFails, Disturb
  <2> QED
    BY <1>19, <1>22, <2>1 DEF CallFails
<1>23. CASE Restart
  <2>1. PICK s \in [Txns -> 0 .. Done] :
          /\ s[t] \in seen[t] .. sent[t] /\ seen' = s
          /\ Disturb({u \in Txns : seen[u] > 0 \/ s[u] > 0} \ finished)
    BY <1>23 DEF Restart
  <2>2. /\ known' = {} /\ theirMac' = {} /\ calls' = {} /\ event' = None
        /\ UNCHANGED <<sent, quit, answered, finished, cancelled>>
    BY <1>23 DEF Restart
  <2>3. ~InHand(t)' /\ StepsHandled(t)' = s[t] /\ s[t] \in 0 .. 5
    BY <2>1, <2>2, Steps DEF InHand, StepsHandled
  <2>4. CASE t \in finished
    <3>1. seen[t] = 5 /\ sent[t] = 5 /\ answered[t] = 5
      BY <1>1, <2>4 DEF FollowsProtocol, StepsHandled, InStep
    <3>2. StepsHandled(t)' = 5
      BY <2>1, <2>3, <3>1
    <3>3. InStep(StepsHandled(t)', answered'[t])
      BY <2>2, <3>1, <3>2 DEF InStep
    <3> QED
      BY <2>1, <2>2, <2>3, <2>4, <3>1, <3>2, <3>3 DEF FollowsProtocol
  <2>5. CASE t \notin finished
    <3>1. seen[t] = 0 /\ s[t] = 0
      BY <1>1, <2>1, <2>3, <2>5 DEF Disturb
    <3>2. answered[t] = 0
      BY <1>1, <3>1 DEF FollowsProtocol, StepsHandled, InStep
    <3>3. InStep(StepsHandled(t)', answered'[t])
      BY <2>2, <2>3, <3>1, <3>2 DEF InStep
    <3> QED
      BY <1>1, <2>1, <2>2, <2>3, <2>5, <3>1, <3>2, <3>3 DEF FollowsProtocol
  <2> QED
    BY <2>4, <2>5
<1>24. CASE UNCHANGED vars
  BY <1>1, <1>24 DEF vars, Untroubled, InHand
<1> QED
  BY <1>2, <1>3, <1>5, <1>6, <1>7, <1>8, <1>9, <1>10, <1>11, <1>12, <1>13, <1>14, <1>15,
     <1>16, <1>17, <1>18, <1>20, <1>21, <1>22, <1>23, <1>24 DEF Next, Peer, Loop, Call

--------------------------------------------------------------------------------
LEMMA InitHolds == Init => VInv
<1> SUFFICES ASSUME Init PROVE VInv
  OBVIOUS
<1>1. TypeOK
  BY InitType
<1>2. DispatchShape
  BY Records DEF Init, DispatchShape
<1>3. ASSUME NEW t \in Txns PROVE FollowsProtocol(t)
  <2>1. StepsHandled(t) = 0 /\ ~InHand(t)
    BY DEF Init, StepsHandled, InHand
  <2>2. InStep(0, 0)
    BY DEF InStep
  <2> QED
    BY <2>1, <2>2 DEF Init, FollowsProtocol
<1> QED
  BY <1>1, <1>2, <1>3 DEF VInv

LEMMA StepHolds == VInv /\ [Next]_vars => VInv'
<1> SUFFICES ASSUME VInv, [Next]_vars PROVE VInv'
  OBVIOUS
<1>1. TypeOK' /\ DispatchShape'
  BY NextType, NextShape DEF VInv
<1>2. disturbed \subseteq disturbed'
  <2> USE DEF peers, room, dispatch, helper, ghosts
  <2>1. CASE Peer
    BY <2>1 DEF Peer, PeerSends, PeerQuits
  <2>2. CASE Loop
    BY <2>2 DEF Loop, TakeStep, TakeQuit, TakeEcho, Take, Normalize, DispatchEnd, HelperSkips,
       HelperLocks, HelperCancels, HelperUnlocks, HandleRequest, HandleStart, HandleKey,
       HandleMac, HandleDone, HandleFails, Disturb
  <2>3. CASE \E c \in calls : Call(c)
    BY <2>3 DEF Call, CallLocks, AcceptVerification, ConfirmSAS, CallFails, Disturb
  <2>4. CASE Restart
    BY <2>4 DEF Restart, Disturb
  <2> QED
    BY <2>1, <2>2, <2>3, <2>4 DEF Next, vars
<1>3. ASSUME NEW t \in Txns, t \notin disturbed' PROVE FollowsProtocol(t)'
  BY <1>2, <1>3, NextProtocol DEF VInv
<1> QED
  BY <1>1, <1>3 DEF VInv

\* The invariant of verification: types, the shape of the dispatch and the lock, and
\* that what nothing has broken off follows the protocol.
THEOREM VerificationInvariant == Spec => []VInv
BY InitHolds, StepHolds, PTL DEF Spec

\* The helper never cancels what nothing has broken off, for any number of
\* transactions that interleave (normalizeInRoomVerificationEvent, ShowSAS).
THEOREM NothingIsCancelled == Spec => []NeverCancelsItself
<1>1. VInv => NeverCancelsItself
  BY DEF VInv, TypeOK, FollowsProtocol, NeverCancelsItself
<1> QED
  BY <1>1, VerificationInvariant, PTL

\* With no event at hand, a transaction that is not through waits for its peer, for
\* the loop to take its next event, or for a call of its own.
LEMMA QuietMoves ==
  ASSUME VInv, event = None, NEW t \in Txns, FollowsProtocol(t), sent[t] > 0, t \notin finished
  PROVE  SomebodyMoves(t)
<1>1. /\ sent[t] \in 1 .. 5 /\ seen[t] \in 0 .. 5 /\ answered[t] \in 0 .. 5
      /\ quit[t] = "no" /\ t \notin cancelled /\ seen[t] <= sent[t]
  BY Steps DEF VInv, TypeOK, FollowsProtocol
<1>2. SUFFICES ASSUME ~ (seen[t] < sent[t]), ~ (answered[t] >= sent[t] /\ sent[t] < 5)
               PROVE  \E c \in calls : lock = c \/ (lock = Free /\ c.txn = t)
  BY <1>1, Steps DEF SomebodyMoves
<1>3. seen[t] = sent[t] /\ StepsHandled(t) = seen[t]
  BY <1>1, <1>2 DEF StepsHandled, InHand
<1>4. seen[t] # 5
  BY <1>3 DEF FollowsProtocol
<1>5. answered[t] < seen[t] /\ InStep(seen[t], answered[t])
  BY <1>1, <1>2, <1>3, <1>4 DEF FollowsProtocol
<1>6. (seen[t] = 1 /\ answered[t] = 0) \/ answered[t] = 3
  <2>1. ASSUME NEW n \in 1 .. 5, NEW a \in 0 .. 5, a < n, InStep(n, a)
        PROVE  (n = 1 /\ a = 0) \/ a = 3
    BY <2>1 DEF InStep
  <2> QED BY <1>1, <1>3, <1>5, <2>1
<1>7. CallBack(t, "accept") \in calls \/ CallBack(t, "confirm") \in calls
  BY <1>3, <1>6 DEF FollowsProtocol
<1>8. lock = Free \/ lock \in calls
  BY DEF VInv, DispatchShape
<1> QED BY <1>7, <1>8 DEF CallBack

\* With an event at hand, the loop gets on, or a call has the lock.
LEMMA BusyMoves ==
  ASSUME VInv, event # None
  PROVE  LoopMoves \/ lock \in calls
<1>1. turn \in 1 .. 3 /\ (turn = 1 \/ turn = 2 \/ turn = 3)
  BY DEF VInv, TypeOK
<1>2. lock = Free \/ lock = Handling \/ lock \in calls
  BY DEF VInv, DispatchShape
<1>3. \A c \in calls : c.by # "loop"
  <2>1. \A c \in calls : c.by = c.txn /\ c.txn \in Txns
    BY DEF VInv, TypeOK, DispatchShape, Calls
  <2> QED BY <2>1, VerificationAssumption
<1> QED BY <1>1, <1>2, <1>3, Turns DEF LoopMoves

\* No lock, callback or peer waits in a circle, for any number of transactions:
\* the part of EventuallyVerified that does not depend on fairness.
THEOREM NobodyEverSticks == Spec => []NobodyIsStuck
<1>1. VInv => NobodyIsStuck
  <2> SUFFICES ASSUME VInv, NEW t \in Txns \ disturbed, sent[t] > 0, t \notin finished
               PROVE  SomebodyMoves(t)
    BY DEF NobodyIsStuck
  <2>1. FollowsProtocol(t)
    BY DEF VInv
  <2>2. CASE event = None
    BY <2>1, <2>2, QuietMoves
  <2>3. CASE event # None
    BY <2>3, BusyMoves DEF SomebodyMoves
  <2> QED BY <2>2, <2>3
<1> QED
  BY <1>1, VerificationInvariant, PTL
================================================================================
