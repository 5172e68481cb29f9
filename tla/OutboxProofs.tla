----------------------------- MODULE OutboxProofs -----------------------------
(***************************************************************************)
(* What holds of module Outbox for every number of entries, batch size,    *)
(* backoff schedule, maximum age, retention and number of disturbances.    *)
(***************************************************************************)
EXTENDS Outbox, FiniteSetTheorems, WellFoundedInduction, TLAPS


--------------------------------------------------------------------------------
(* Types. *)

\* A failed entry is put off by at least the base delay and at most the cap.
LEMMA BackoffType == \A n : backoff(n) \in BackoffBase .. BackoffCap
  BY TimeAssumption DEF backoff

LEMMA InitType == Init => TypeOK
  BY SizeAssumption, TimeAssumption DEF Init, TypeOK, Statuses, PCs, Ids

\* The parts of TypeOK, and what no step of a handler or of the dispatcher
\* takes out of its type.
LEMMA HandleType == ASSUME TypeOK, NEW i \in Ids, Handle(i) PROVE TypeOK'
<1>1. CASE Enqueue(i)
  BY <1>1 DEF TypeOK, Enqueue, Statuses, dispatcher, history
<1>2. CASE Kick(i)
  BY <1>2 DEF TypeOK, Kick, KickHeard, rows, dispatcher, history
<1>3. CASE RecordDelivery(i)
  BY <1>3 DEF TypeOK, RecordDelivery, Statuses, dispatcher
<1>4. CASE RequeueOutbox(i)
  BY <1>4, SizeAssumption, TimeAssumption
  DEF TypeOK, RequeueOutbox, Excuse, Disturb, Statuses, dispatcher, history
<1> QED BY <1>1, <1>2, <1>3, <1>4 DEF Handle

LEMMA AttemptType == ASSUME TypeOK, NEW i \in Ids, Attempt(i) PROVE TypeOK'
<1>1. CASE DeliverSent(i)
  BY <1>1 DEF TypeOK, DeliverSent, Tried, PCs, rows
<1>2. CASE DeliverRefused(i)
  BY <1>2 DEF TypeOK, DeliverRefused, Tried, PCs, rows
<1>3. CASE DeliverReplyLost(i)
  BY <1>3, SizeAssumption DEF TypeOK, DeliverReplyLost, Tried, Disturb, PCs, rows
<1>4. CASE DeliverAgain(i)
  BY <1>4, SizeAssumption DEF TypeOK, DeliverAgain, Disturb, rows, dispatcher
<1> QED BY <1>1, <1>2, <1>3, <1>4 DEF Attempt

LEMMA MarkType == ASSUME TypeOK, NEW i \in Ids, Mark(i) \/ MarkError(i) PROVE TypeOK'
<1>1. CASE MarkOutboxDelivered(i)
  BY <1>1 DEF TypeOK, MarkOutboxDelivered, NextEntry, PCs, Statuses
<1>2. CASE MarkOutboxFailed(i)
  BY <1>2 DEF TypeOK, MarkOutboxFailed, NextEntry, PCs, Statuses
<1>3. CASE RescheduleOutbox(i)
  BY <1>3, BackoffType, TimeAssumption DEF TypeOK, RescheduleOutbox, NextEntry, PCs
<1>4. CASE MarkError(i)
  BY <1>4, SizeAssumption DEF TypeOK, MarkError, Excuse, NextEntry, StoreError, Disturb, PCs, rows
<1> QED BY <1>1, <1>2, <1>3, <1>4 DEF Mark

LEMMA DrainType == ASSUME TypeOK, Drain PROVE TypeOK'
<1>1. CASE Fetch
  BY <1>1 DEF TypeOK, Fetch, DueOutbox, PCs, rows
<1>2. CASE FetchError
  BY <1>2, SizeAssumption DEF TypeOK, FetchError, StoreError, Disturb, PCs, rows
<1>3. CASE CountPendingOutbox \/ LeaveDrain
  BY <1>3 DEF TypeOK, CountPendingOutbox, LeaveDrain, PCs, rows, history
<1>4. CASE WakeKick \/ WakePoll \/ Leave
  BY <1>4 DEF TypeOK, WakeKick, WakePoll, Leave, PCs, rows, history
<1>5. CASE PruneOutbox
  BY <1>5, TimeAssumption DEF TypeOK, PruneOutbox, Statuses, PCs, history
<1>6. CASE PruneError
  BY <1>6, SizeAssumption DEF TypeOK, PruneError, StoreError, Disturb, PCs, rows, history
<1> QED BY <1>1, <1>2, <1>3, <1>4, <1>5, <1>6 DEF Drain

LEMMA ProcessType == ASSUME TypeOK, Process PROVE TypeOK'
<1>1. CASE Shutdown
  BY <1>1, SizeAssumption DEF TypeOK, Shutdown, Disturb, rows, dispatcher, history
<1>2. CASE Crash
  BY <1>2, SizeAssumption DEF TypeOK, Crash, LoseMemory, Disturb, PCs, rows
<1>3. CASE Exit
  BY <1>3 DEF TypeOK, Exit, LoseMemory, PCs, rows
<1>4. CASE Start
  BY <1>4 DEF TypeOK, Start, PCs, rows, history
<1> QED BY <1>1, <1>2, <1>3, <1>4 DEF Process

LEMMA TickType == ASSUME TypeOK, Tick PROVE TypeOK'
  BY TimeAssumption DEF TypeOK, Tick, dispatcher, history

LEMMA NextType == ASSUME TypeOK, [Next]_vars PROVE TypeOK'
<1>1. CASE UNCHANGED vars
  BY <1>1 DEF TypeOK, vars, rows, dispatcher, history
<1> QED
  BY <1>1, HandleType, AttemptType, MarkType, DrainType, ProcessType, TickType
  DEF Next, Step

\* Every variable of the outbox keeps its type, whatever the constants.
THEOREM TypeCorrect == Spec => []TypeOK
  BY InitType, NextType, PTL DEF Spec

--------------------------------------------------------------------------------
(* Reading the due entries. *)

\* A set of natural numbers that is not empty has a least element.
LEMMA LeastElement ==
  ASSUME NEW S, S \subseteq Nat, S # {}
  PROVE  \E m \in S : \A n \in S : m <= n
<1>1. IsWellFoundedOn(OpToRel(<, Nat), Nat)
  BY NatLessThanWellFounded
<1>2. PICK m \in S : \A n \in S : ~ (<<n, m>> \in OpToRel(<, Nat))
  BY <1>1, WFMin
<1>3. \A n \in S : ~ (n < m)
  BY <1>2 DEF OpToRel
<1> QED BY <1>3

\* A batch is empty only when nothing is due: the LIMIT of the query hides
\* the younger entries, never all of them.
LEMMA EmptyBatch == DueOutbox = {} => \A i \in Ids : ~ Due(i)
<1> SUFFICES ASSUME NEW i \in Ids, Due(i) PROVE DueOutbox # {}
  OBVIOUS
<1> DEFINE D == {j \in Ids : Due(j)}
<1>1. PICK m \in D : \A n \in D : m <= n
  <2>1. D \subseteq Nat /\ D # {}
    BY DEF Ids
  <2> HIDE DEF D
  <2> QED BY <2>1, LeastElement
<1>2. {j \in Ids : Due(j) /\ j < m} = {}
  BY <1>1 DEF Ids
<1>3. Cardinality({j \in Ids : Due(j) /\ j < m}) < BatchSize
  BY <1>2, FS_EmptySet, SizeAssumption
<1> QED BY <1>1, <1>3 DEF DueOutbox

--------------------------------------------------------------------------------
(* The copies attempt works from. *)

BatchInv == DispatcherShape /\ BatchIsFresh /\ BatchIsDue

LEMMA InitBatch == Init => BatchInv
  BY DEF Init, BatchInv, DispatcherShape, BatchIsFresh, BatchIsDue

\* No step leaves a stale copy in the batch.  Handlers add rows under fresh ids
\* and re-queue failed ones, pruning deletes settled ones, and only the entry
\* that leaves the batch is written by the dispatcher itself.
LEMMA NextBatch == ASSUME TypeOK, BatchInv, [Next]_vars PROVE BatchInv'
<1> USE DEF BatchInv, DispatcherShape, BatchIsFresh, BatchIsDue
<1>1. ASSUME NEW i \in Ids, Handle(i) PROVE BatchInv'
  <2>1. CASE Enqueue(i)
    BY <2>1 DEF TypeOK, Enqueue, Fresh, dispatcher
  <2>2. CASE Kick(i)
    BY <2>2 DEF Kick, rows, dispatcher
  <2>3. CASE RecordDelivery(i)
    BY <2>3 DEF TypeOK, RecordDelivery, Fresh, dispatcher
  <2>4. CASE RequeueOutbox(i)
    BY <2>4 DEF TypeOK, RequeueOutbox, Requeueable, dispatcher
  <2> QED BY <1>1, <2>1, <2>2, <2>3, <2>4 DEF Handle
<1>2. ASSUME NEW i \in Ids, Attempt(i) PROVE BatchInv'
  BY <1>2 DEF Attempt, Tried, DeliverSent, DeliverRefused, DeliverReplyLost, DeliverAgain, rows,
              dispatcher, Current
<1>3. ASSUME NEW i \in Ids, Mark(i) PROVE BatchInv'
  <2>1. CASE MarkOutboxDelivered(i)
    BY <2>1 DEF TypeOK, MarkOutboxDelivered, NextEntry
  <2>2. CASE MarkOutboxFailed(i)
    BY <2>2 DEF TypeOK, MarkOutboxFailed, NextEntry
  <2>3. CASE RescheduleOutbox(i)
    BY <2>3 DEF TypeOK, RescheduleOutbox, NextEntry
  <2> QED BY <1>3, <2>1, <2>2, <2>3 DEF Mark
<1>4. ASSUME NEW i \in Ids, MarkError(i) PROVE BatchInv'
  BY <1>4 DEF TypeOK, MarkError, NextEntry, rows
<1>5. CASE Drain
  <2>1. CASE Fetch
    BY <2>1 DEF TypeOK, Fetch, DueOutbox, Due, rows
  <2>2. CASE FetchError \/ CountPendingOutbox \/ LeaveDrain
    BY <2>2 DEF FetchError, CountPendingOutbox, LeaveDrain, rows
  <2>3. CASE WakeKick \/ WakePoll \/ Leave
    BY <2>3 DEF WakeKick, WakePoll, Leave, rows
  <2>4. CASE PruneOutbox \/ PruneError
    BY <2>4 DEF PruneOutbox, PruneError, rows
  <2> QED BY <1>5, <2>1, <2>2, <2>3, <2>4 DEF Drain
<1>6. CASE Process
  <2>1. CASE Shutdown \/ Start
    BY <2>1 DEF Shutdown, Running, Start, rows, dispatcher
  <2>2. CASE LoseMemory
    BY <2>2 DEF LoseMemory
  <2> QED BY <1>6, <2>1, <2>2 DEF Process, Crash, Exit
<1>7. CASE Tick
  BY <1>7 DEF TypeOK, Tick, dispatcher
<1>8. CASE UNCHANGED vars
  BY <1>8 DEF vars, rows, dispatcher
<1> QED BY <1>1, <1>2, <1>3, <1>4, <1>5, <1>6, <1>7, <1>8 DEF Next, Step

--------------------------------------------------------------------------------
(* Posts, and what the table knows of them. *)

PostInv == DuplicatesExplained /\ DeliveredWasPosted

LEMMA InitPost == Init => PostInv
  BY DEF Init, PostInv, DuplicatesExplained, DeliveredWasPosted, InFlight

\* Posting and recording are the two ends of an attempt; between them the
\* entry is in flight, and whatever ends the attempt otherwise is counted.
LEMMA NextPost == ASSUME TypeOK, BatchInv, PostInv, [Next]_vars PROVE PostInv'
<1> USE DEF PostInv, DuplicatesExplained, DeliveredWasPosted, InFlight
<1>1. ASSUME NEW i \in Ids, Handle(i) PROVE PostInv'
  <2>1. CASE Enqueue(i)
    BY <2>1 DEF TypeOK, Enqueue, Fresh, dispatcher, history, Current
  <2>2. CASE Kick(i)
    BY <2>2 DEF Kick, rows, dispatcher, history, Current
  <2>3. CASE RecordDelivery(i)
    BY <2>3 DEF TypeOK, BatchInv, BatchIsFresh, RecordDelivery, Fresh, dispatcher, Current
  <2>4. CASE RequeueOutbox(i)
    BY <2>4 DEF TypeOK, RequeueOutbox, Requeueable, dispatcher, history, Current
  <2> QED BY <1>1, <2>1, <2>2, <2>3, <2>4 DEF Handle
<1>2. ASSUME NEW i \in Ids, Attempt(i) PROVE PostInv'
  <2>1. CASE DeliverSent(i)
    <3>1. status[i] = "pending"
      BY <2>1 DEF DeliverSent, Current, BatchInv, BatchIsFresh
    <3>2. \A j \in Ids : Current(j)' => j = i
      BY <2>1 DEF TypeOK, DeliverSent, Tried, Current, Ids
    <3>3. pc' = "mark" /\ outcome' = "sent" /\ Current(i)' /\ pc # "mark"
      BY <2>1 DEF DeliverSent, Tried, Current
    <3> QED BY <2>1, <3>1, <3>2, <3>3 DEF TypeOK, DeliverSent, Tried, rows
  <2>2. CASE DeliverRefused(i)
    BY <2>2 DEF DeliverRefused, Tried, rows
  <2>3. CASE DeliverReplyLost(i)
    BY <2>3 DEF TypeOK, DeliverReplyLost, Tried, rows
  <2>4. CASE DeliverAgain(i)
    BY <2>4 DEF TypeOK, DeliverAgain, rows, dispatcher, Current
  <2> QED BY <1>2, <2>1, <2>2, <2>3, <2>4 DEF Attempt
<1>3. ASSUME NEW i \in Ids, Mark(i) PROVE PostInv'
  <2>1. pc' # "mark" /\ posts' = posts /\ unrecorded' = unrecorded
    BY <1>3 DEF Mark, MarkOutboxDelivered, MarkOutboxFailed, RescheduleOutbox, NextEntry
  <2>2. CASE MarkOutboxDelivered(i)
    <3>1. InFlight(i) /\ \A j \in Ids : Current(j) => j = i
      BY <2>2 DEF TypeOK, MarkOutboxDelivered, Delivered, Current, Ids
    <3> QED BY <2>1, <2>2, <3>1 DEF TypeOK, MarkOutboxDelivered
  <2>3. CASE MarkOutboxFailed(i)
    <3>1. status[i] = "pending"
      BY <2>3 DEF MarkOutboxFailed, Current, BatchInv, BatchIsFresh
    <3> QED BY <2>1, <2>3, <3>1 DEF TypeOK, MarkOutboxFailed
  <2>4. CASE RescheduleOutbox(i)
    BY <2>1, <2>4 DEF TypeOK, RescheduleOutbox
  <2> QED BY <1>3, <2>2, <2>3, <2>4 DEF Mark
<1>4. ASSUME NEW i \in Ids, MarkError(i) PROVE PostInv'
  <2>1. pc' # "mark" /\ posts' = posts /\ status' = status
    BY <1>4 DEF MarkError, NextEntry, rows
  <2>2. \A j \in Ids : Current(j) => j = i
    BY <1>4 DEF TypeOK, MarkError, Current, Ids
  <2> QED BY <1>4, <2>1, <2>2 DEF TypeOK, MarkError
<1>5. CASE Drain
  <2>1. CASE Fetch \/ FetchError \/ CountPendingOutbox \/ LeaveDrain
    BY <2>1 DEF Fetch, FetchError, CountPendingOutbox, LeaveDrain, rows, history
  <2>2. CASE WakeKick \/ WakePoll \/ Leave
    BY <2>2 DEF WakeKick, WakePoll, Leave, rows, history
  <2>3. CASE PruneOutbox
    BY <2>3 DEF TypeOK, PruneOutbox, history
  <2>4. CASE PruneError
    BY <2>4 DEF PruneError, rows, history
  <2> QED BY <1>5, <2>1, <2>2, <2>3, <2>4 DEF Drain
<1>6. CASE Process
  <2>1. CASE Shutdown \/ Start
    BY <2>1 DEF BatchInv, DispatcherShape, Shutdown, Start, rows, dispatcher, history, Current
  <2>2. CASE LoseMemory
    BY <2>2 DEF TypeOK, LoseMemory, rows
  <2> QED BY <1>6, <2>1, <2>2 DEF Process, Crash, Exit
<1>7. CASE Tick
  BY <1>7 DEF Tick, dispatcher, history, Current
<1>8. CASE UNCHANGED vars
  BY <1>8 DEF vars, rows, dispatcher, history, Current
<1> QED BY <1>1, <1>2, <1>3, <1>4, <1>5, <1>6, <1>7, <1>8 DEF Next, Step

--------------------------------------------------------------------------------
(* Retries and the time between them. *)

RetryInv == RowShape /\ SpacedOut

LEMMA InitRetry == Init => RetryInv
  BY TimeAssumption DEF Init, RetryInv, RowShape, SpacedOut, LastTry, Terminal, Ahead

LEMMA Products ==
  /\ BackoffBase \in Nat \ {0}
  /\ \A n \in Int : /\ BackoffBase * n \in Int
                   /\ BackoffBase * (n + 1) = BackoffBase * n + BackoffBase
                   /\ BackoffBase * (n - 1) = BackoffBase * n - BackoffBase
  /\ BackoffBase * 0 = 0
  BY TimeAssumption

\* There is one entry at hand.
LEMMA OneCurrent ==
  ASSUME TypeOK, NEW i \in Ids, NEW j \in Ids, Current(i), Current(j)
  PROVE  i = j
  BY DEF TypeOK, Current, Ids

\* The part of the invariant that speaks of one row.
RetryRow(i) ==
  /\ status[i] # "pending" => wait[i] = 0
  /\ status[i] \in {"unused", "pruned"} => attempts[i] = 0
  /\ status[i] = "pending" /\ attempts[i] = 0 => wait[i] = 0
  /\ tries[i] >= (IF LastTry(i) THEN 1 ELSE 0)
  /\ age[i] < AgeCap => BackoffBase * tries[i] <= age[i] + Ahead(i)
  /\ LastTry(i) => BackoffBase * tries[i] <= MaxPendingAge + 2 * BackoffBase - 1
  /\ ~LastTry(i) => BackoffBase * tries[i] <= MaxPendingAge + BackoffBase - 1

LEMMA RetryRows == RetryInv <=> \A i \in Ids : RetryRow(i)
  BY DEF RetryInv, RowShape, SpacedOut, RetryRow

\* A row that a step leaves alone stays as it is.
LEMMA SameRow ==
  ASSUME NEW i \in Ids, RetryRow(i), LastTry(i)' <=> LastTry(i),
         status'[i] = status[i], attempts'[i] = attempts[i], age'[i] = age[i],
         wait'[i] = wait[i], tries'[i] = tries[i]
  PROVE  RetryRow(i)'
  BY DEF RetryRow, Ahead

\* Only a reschedule makes a try count and leave the entry pending, and it puts
\* the next one at least the base delay away.
LEMMA NextRetry == ASSUME TypeOK, BatchInv, RetryInv, [Next]_vars PROVE RetryInv'
<1> SUFFICES ASSUME NEW j \in Ids PROVE RetryRow(j)'
  BY RetryRows DEF RetryInv, RowShape, SpacedOut, RetryRow
<1>0. RetryRow(j)
  BY RetryRows
<1>t. tries[j] \in Int /\ age[j] \in Nat /\ wait[j] \in Nat
  BY TimeAssumption DEF TypeOK
<1>1. ASSUME NEW i \in Ids, Handle(i) PROVE RetryRow(j)'
  <2>1. pc' = pc /\ batch' = batch
    BY <1>1 DEF Handle, Enqueue, Kick, RecordDelivery, RequeueOutbox, dispatcher
  <2>2. CASE j # i
    <3>1. /\ status'[j] = status[j] /\ attempts'[j] = attempts[j] /\ age'[j] = age[j]
          /\ wait'[j] = wait[j] /\ tries'[j] = tries[j]
      BY <1>1, <2>2 DEF Handle, TypeOK, Enqueue, Kick, RecordDelivery, RequeueOutbox, Excuse,
         rows, history
    <3>2. LastTry(j)' <=> LastTry(j)
      BY <2>1, <3>1 DEF LastTry, Current
    <3> QED BY <1>0, <3>1, <3>2, SameRow
  <2>3. CASE j = i /\ Enqueue(i)
    <3>1. status[j] = "unused" /\ ~LastTry(j)
      BY <2>3 DEF Enqueue, Fresh, LastTry, Terminal, Current, BatchInv, BatchIsFresh
    <3>2. ~LastTry(j)' /\ status'[j] = "pending"
      BY <2>1, <2>3, <3>1 DEF TypeOK, Enqueue, LastTry, Terminal, Current
    <3> QED BY <1>0, <2>3, <3>1, <3>2 DEF RetryRow, Ahead, Enqueue, history
  <2>4. CASE j = i /\ Kick(i)
    BY <1>0, <2>1, <2>4, SameRow DEF Kick, rows, history, LastTry, Current
  <2>5. CASE j = i /\ RecordDelivery(i)
    <3>1. status[j] = "unused" /\ ~LastTry(j)
      BY <2>5 DEF RecordDelivery, Fresh, LastTry, Terminal, Current, BatchInv, BatchIsFresh
    <3>2. LastTry(j)' /\ status'[j] \in Terminal
      BY <2>5 DEF TypeOK, RecordDelivery, LastTry, Terminal
    <3>3. tries'[j] = tries[j] + 1 /\ age'[j] = age[j] /\ wait'[j] = wait[j]
      BY <2>5 DEF TypeOK, RecordDelivery
    <3> QED BY <1>0, <1>t, <3>1, <3>2, <3>3, Products, TimeAssumption
            DEF RetryRow, Ahead, Terminal
  <2>6. CASE j = i /\ RequeueOutbox(i)
    <3>1. status[j] = "failed" /\ LastTry(j) /\ wait[j] = 0
      BY <1>0, <2>6 DEF RequeueOutbox, Requeueable, LastTry, Terminal, RetryRow
    <3>2. ~LastTry(j)' /\ status'[j] = "pending"
      BY <2>1, <2>6, <3>1 DEF TypeOK, RequeueOutbox, LastTry, Terminal, Current, BatchInv,
         BatchIsFresh
    <3>3. tries'[j] = tries[j] - 1 /\ age'[j] = age[j] /\ wait'[j] = 0
      BY <2>6 DEF TypeOK, RequeueOutbox, Excuse
    <3> QED BY <1>0, <1>t, <3>1, <3>2, <3>3, Products, TimeAssumption DEF RetryRow, Ahead
  <2> QED BY <1>1, <2>2, <2>3, <2>4, <2>5, <2>6 DEF Handle
<1>2. ASSUME NEW i \in Ids, Attempt(i) PROVE RetryRow(j)'
  <2>1. CASE DeliverAgain(i)
    BY <1>0, <2>1, SameRow DEF DeliverAgain, rows, dispatcher, LastTry, Current
  <2>2. ASSUME NEW r, Tried(i, r), pc = "attempt", Current(i) PROVE RetryRow(j)'
    <3>1. pc' = "mark" /\ UNCHANGED <<rows, batch>>
      BY <2>2 DEF Tried
    <3>2. CASE j # i
      <4>1. ~Current(j) /\ tries'[j] = tries[j]
        BY <2>2, <3>2, OneCurrent DEF TypeOK, Tried
      <4>2. LastTry(j)' <=> LastTry(j)
        BY <2>2, <3>1, <4>1 DEF LastTry, Current, rows
      <4> QED BY <1>0, <3>1, <4>1, <4>2, SameRow DEF rows
    <3>3. CASE j = i
      <4>1. status[j] = "pending" /\ wait[j] = 0 /\ ~LastTry(j)
        BY <2>2, <3>3 DEF BatchInv, BatchIsFresh, BatchIsDue, Current, LastTry, Terminal
      <4>2. LastTry(j)'
        BY <2>2, <3>1, <3>3 DEF LastTry, Current
      <4>3. tries'[j] = tries[j] + 1
        BY <2>2, <3>3 DEF TypeOK, Tried
      <4> QED BY <1>0, <1>t, <3>1, <4>1, <4>2, <4>3, Products, TimeAssumption
              DEF RetryRow, Ahead, rows
    <3> QED BY <3>2, <3>3
  <2> QED BY <1>2, <2>1, <2>2 DEF Attempt, DeliverSent, DeliverRefused, DeliverReplyLost
<1>3. ASSUME NEW i \in Ids, Mark(i) \/ MarkError(i) PROVE RetryRow(j)'
  <2>1. pc = "mark" /\ pc' # "mark" /\ Current(i)
    BY <1>3 DEF Mark, MarkOutboxDelivered, MarkOutboxFailed, RescheduleOutbox, MarkError,
       NextEntry
  <2>2. CASE j # i
    <3>1. /\ status'[j] = status[j] /\ attempts'[j] = attempts[j] /\ age'[j] = age[j]
          /\ wait'[j] = wait[j] /\ tries'[j] = tries[j]
      BY <1>3, <2>2 DEF TypeOK, Mark, MarkOutboxDelivered, MarkOutboxFailed,
         RescheduleOutbox, MarkError, Excuse, rows
    <3>2. LastTry(j)' <=> LastTry(j)
      BY <2>1, <2>2, <3>1, OneCurrent DEF LastTry
    <3> QED BY <1>0, <3>1, <3>2, SameRow
  <2>3. CASE j = i
    <3>1. LastTry(j) /\ status[j] = "pending" /\ wait[j] = 0
      BY <2>1, <2>3 DEF LastTry, Current, BatchInv, BatchIsFresh, BatchIsDue
    <3>2. CASE MarkOutboxDelivered(i) \/ MarkOutboxFailed(i)
      <4>1. LastTry(j)' /\ status'[j] \in Terminal
        BY <2>3, <3>2 DEF TypeOK, MarkOutboxDelivered, MarkOutboxFailed, LastTry, Terminal
      <4>2. UNCHANGED <<age, wait, tries>>
        BY <3>2 DEF MarkOutboxDelivered, MarkOutboxFailed
      <4> QED BY <1>0, <3>1, <4>1, <4>2 DEF RetryRow, Ahead, Terminal
    <3>3. CASE RescheduleOutbox(i)
      <4>1. /\ status'[j] = "pending" /\ tries'[j] = tries[j] /\ age'[j] = age[j]
            /\ wait'[j] = backoff(snap[j] + 1) /\ attempts'[j] = snap[j] + 1
        BY <2>3, <3>1, <3>3 DEF TypeOK, RescheduleOutbox
      <4>2. ~LastTry(j)'
        BY <2>1, <4>1 DEF LastTry, Terminal
      <4>3. wait'[j] \in Nat /\ wait'[j] >= BackoffBase /\ attempts'[j] # 0
        BY <4>1, BackoffType, TimeAssumption DEF TypeOK
      <4>4. age[j] < MaxPendingAge /\ age[j] < AgeCap
        BY <1>t, <2>3, <3>3, TimeAssumption DEF RescheduleOutbox, TooOld
      <4>5. Ahead(j)' = BackoffBase /\ Ahead(j) = BackoffBase
        BY <3>1, <4>2, <4>3, TimeAssumption DEF Ahead
      <4>6. BackoffBase * tries[j] <= age[j] + BackoffBase
        BY <1>0, <4>4, <4>5 DEF RetryRow
      <4>7. /\ BackoffBase * tries'[j] <= age'[j] + Ahead(j)'
            /\ BackoffBase * tries'[j] <= MaxPendingAge + BackoffBase - 1
        <5>1. BackoffBase * tries[j] \in Int
          BY <1>t, Products
        <5> QED BY <1>t, <4>1, <4>4, <4>5, <4>6, <5>1, TimeAssumption
      <4>8. tries'[j] >= 0
        BY <1>0, <1>t, <3>1, <4>1 DEF RetryRow
      <4> QED BY <4>1, <4>2, <4>3, <4>7, <4>8 DEF RetryRow
    <3>4. CASE MarkError(i)
      <4>1. UNCHANGED rows /\ tries'[j] = tries[j] - 1
        BY <2>3, <3>4 DEF TypeOK, MarkError, Excuse
      <4>2. ~LastTry(j)'
        BY <2>1, <3>1, <4>1 DEF LastTry, Terminal, rows
      <4> QED BY <1>0, <1>t, <3>1, <4>1, <4>2, Products, TimeAssumption
              DEF RetryRow, Ahead, rows
    <3> QED BY <1>3, <3>2, <3>3, <3>4 DEF Mark
  <2> QED BY <2>2, <2>3
<1>5. CASE Drain
  <2>1. pc # "mark" /\ pc' # "mark"
    BY <1>5 DEF Drain, Fetch, FetchError, CountPendingOutbox, LeaveDrain, WakeKick, WakePoll,
       Leave, PruneOutbox, PruneError
  <2>2. CASE PruneOutbox /\ Prunable(j)
    <3>1. status'[j] = "pruned" /\ attempts'[j] = 0 /\ age'[j] = 0 /\ wait'[j] = 0
          /\ tries'[j] = 0
      BY <2>2 DEF PruneOutbox
    <3>2. ~LastTry(j)'
      BY <2>1, <3>1 DEF LastTry, Terminal
    <3>3. Ahead(j)' = 0
      BY <3>1, <3>2, TimeAssumption DEF Ahead
    <3>4. /\ BackoffBase * tries'[j] <= age'[j] + Ahead(j)'
          /\ BackoffBase * tries'[j] <= MaxPendingAge + BackoffBase - 1
      BY <3>1, <3>3, Products, TimeAssumption
    <3> QED BY <3>1, <3>2, <3>4 DEF RetryRow
  <2>3. CASE PruneOutbox /\ ~Prunable(j)
    <3>1. /\ status'[j] = status[j] /\ attempts'[j] = attempts[j] /\ age'[j] = age[j]
          /\ wait'[j] = wait[j] /\ tries'[j] = tries[j]
      BY <2>3 DEF PruneOutbox
    <3> QED BY <1>0, <2>1, <3>1, SameRow DEF LastTry
  <2>4. CASE UNCHANGED <<rows, tries>>
    BY <1>0, <2>1, <2>4, SameRow DEF rows, LastTry
  <2> QED BY <1>5, <2>2, <2>3, <2>4 DEF Drain, Fetch, FetchError, CountPendingOutbox,
             LeaveDrain, WakeKick, WakePoll, Leave, PruneError, history
<1>6. CASE Process
  <2>1. CASE Shutdown \/ Start
    <3>1. UNCHANGED <<rows, tries, batch>> /\ (pc' = "mark" <=> pc = "mark")
      BY <2>1 DEF Shutdown, Start, dispatcher, history, BatchInv, DispatcherShape
    <3> QED BY <1>0, <3>1, SameRow DEF rows, LastTry, Current
  <2>2. CASE LoseMemory
    <3>1. UNCHANGED rows /\ pc' = "off"
      BY <2>2 DEF LoseMemory
    <3>2. CASE pc = "mark" /\ Current(j)
      <4>1. tries'[j] = tries[j] - 1
        BY <2>2, <3>2 DEF LoseMemory
      <4>2. status[j] = "pending" /\ wait[j] = 0 /\ LastTry(j)
        BY <3>2 DEF BatchInv, BatchIsFresh, BatchIsDue, Current, LastTry
      <4>3. ~LastTry(j)'
        BY <3>1, <4>2 DEF LastTry, Terminal, rows
      <4> QED BY <1>0, <1>t, <3>1, <4>1, <4>2, <4>3, Products, TimeAssumption
              DEF RetryRow, Ahead, rows
    <3>3. CASE ~(pc = "mark" /\ Current(j))
      <4>1. tries'[j] = tries[j]
        BY <2>2, <3>3 DEF LoseMemory
      <4> QED BY <1>0, <3>1, <3>3, <4>1, SameRow DEF rows, LastTry
    <3> QED BY <3>2, <3>3
  <2> QED BY <1>6, <2>1, <2>2 DEF Process, Crash, Exit
<1>7. CASE Tick
  <2>1. /\ UNCHANGED <<status, attempts, tries, pc, batch>>
        /\ age'[j] = (IF HasRow(j) /\ age[j] < AgeCap THEN age[j] + 1 ELSE age[j])
        /\ wait'[j] = (IF wait[j] > 0 THEN wait[j] - 1 ELSE wait[j])
    BY <1>7 DEF Tick, dispatcher, history
  <2>2. LastTry(j)' <=> LastTry(j)
    BY <2>1 DEF LastTry, Current
  <2>3. age[j] < AgeCap \/ age'[j] = age[j]
    BY <2>1
  <2>4. CASE status[j] = "pending"
    <3>1. HasRow(j)
      BY <2>4 DEF HasRow
    <3> QED BY <1>0, <1>t, <2>1, <2>2, <2>4, <3>1, Products, TimeAssumption
            DEF RetryRow, Ahead
  <2>5. CASE status[j] # "pending"
    <3>1. wait[j] = 0 /\ wait'[j] = 0
      BY <1>0, <2>1, <2>5 DEF RetryRow
    <3>2. Ahead(j)' = Ahead(j)
      BY <2>2, <3>1 DEF Ahead
    <3>3. Ahead(j) \in Int /\ BackoffBase * tries[j] \in Int
      <4>1. Ahead(j) = BackoffBase \/ Ahead(j) = wait[j]
        BY DEF Ahead
      <4>2. BackoffBase \in Int /\ wait[j] \in Int
        BY <3>1, TimeAssumption
      <4>3. BackoffBase * tries[j] \in Int
        BY <1>t, Products
      <4> QED BY <4>1, <4>2, <4>3
    <3>4. ASSUME age'[j] < AgeCap
          PROVE  BackoffBase * tries'[j] <= age'[j] + Ahead(j)'
      <4>0. tries'[j] = tries[j]
        BY <2>1
      <4>1. age[j] < AgeCap /\ age[j] <= age'[j] /\ age'[j] \in Nat
        BY <1>t, <2>1, <3>4, TimeAssumption
      <4>2. BackoffBase * tries[j] <= age[j] + Ahead(j)
        BY <1>0, <4>1 DEF RetryRow
      <4>3. BackoffBase * tries[j] <= age'[j] + Ahead(j)
        BY <1>t, <3>3, <4>1, <4>2
      <4> QED BY <3>2, <4>0, <4>3
    <3> QED BY <1>0, <2>1, <2>2, <2>5, <3>1, <3>4 DEF RetryRow
  <2> QED BY <2>4, <2>5
<1>8. CASE UNCHANGED vars
  BY <1>0, <1>8, SameRow DEF vars, rows, dispatcher, history, LastTry, Current
<1> QED BY <1>1, <1>2, <1>3, <1>5, <1>6, <1>7, <1>8 DEF Next, Step

--------------------------------------------------------------------------------
(* Kicks. *)

LEMMA InitWakeup == Init => WakeupPending
  BY DEF Init, WakeupPending

\* The drain goes to sleep on an empty read, which leaves nothing due; later
\* entries bring their own kick, which stays in the channel until it is heard.
LEMMA NextWakeup ==
  ASSUME TypeOK, BatchInv, RetryInv, WakeupPending, [Next]_vars
  PROVE  WakeupPending'
<1> USE DEF WakeupPending
<1>1. ASSUME NEW i \in Ids, Handle(i) PROVE WakeupPending'
  <2>1. CASE Enqueue(i)
    BY <2>1 DEF TypeOK, Enqueue, dispatcher, history
  <2>2. CASE Kick(i)
    BY <2>2 DEF Kick, KickHeard
  <2>3. CASE RecordDelivery(i)
    BY <2>3 DEF TypeOK, RecordDelivery, dispatcher
  <2>4. CASE RequeueOutbox(i)
    BY <2>4 DEF TypeOK, RequeueOutbox, dispatcher, history
  <2> QED BY <1>1, <2>1, <2>2, <2>3, <2>4 DEF Handle
<1>2. ASSUME NEW i \in Ids, Attempt(i) PROVE WakeupPending'
  BY <1>2 DEF Attempt, Tried, DeliverSent, DeliverRefused, DeliverReplyLost, DeliverAgain, dispatcher
<1>3. ASSUME NEW i \in Ids, Mark(i) \/ MarkError(i) PROVE WakeupPending'
  BY <1>3 DEF Mark, MarkOutboxDelivered, MarkOutboxFailed, RescheduleOutbox, MarkError,
              NextEntry
<1>5. CASE Drain
  <2>1. CASE Fetch
    <3>1. CASE DueOutbox = {}
      <4>1. \A i \in Ids : ~ (status[i] = "pending" /\ attempts[i] = 0)
        BY <3>1, EmptyBatch DEF RetryInv, RowShape, Due
      <4> QED BY <2>1, <4>1 DEF Fetch, rows
    <3>2. CASE DueOutbox # {}
      BY <2>1, <3>2 DEF Fetch
    <3> QED BY <3>1, <3>2
  <2>2. CASE FetchError \/ WakeKick \/ WakePoll \/ Leave
    BY <2>2 DEF FetchError, WakeKick, WakePoll, Leave
  <2>3. CASE CountPendingOutbox \/ LeaveDrain
    BY <2>3 DEF CountPendingOutbox, LeaveDrain, rows, history
  <2>4. CASE PruneOutbox
    BY <2>4 DEF TypeOK, PruneOutbox, Prunable, history
  <2>5. CASE PruneError
    BY <2>5 DEF PruneError
  <2> QED BY <1>5, <2>1, <2>2, <2>3, <2>4, <2>5 DEF Drain
<1>6. CASE Process
  BY <1>6 DEF Process, Shutdown, Crash, Exit, LoseMemory, Start
<1>7. CASE Tick
  BY <1>7 DEF Tick, dispatcher, history
<1>8. CASE UNCHANGED vars
  BY <1>8 DEF vars, rows, dispatcher, history
<1> QED BY <1>1, <1>2, <1>3, <1>5, <1>6, <1>7, <1>8 DEF Next, Step

--------------------------------------------------------------------------------
(* The inductive invariant and what follows from it. *)

\* IInv holds of every reachable state; the safety properties below are parts
\* or consequences of it.
THEOREM Invariance == Spec => []IInv
<1>1. IInv <=> TypeOK /\ BatchInv /\ PostInv /\ RetryInv /\ WakeupPending
  BY DEF IInv, BatchInv, PostInv, RetryInv
<1>2. Init => IInv
  BY <1>1, InitType, InitBatch, InitPost, InitRetry, InitWakeup
<1>3. IInv /\ [Next]_vars => IInv'
  <2>1. ASSUME IInv, [Next]_vars
        PROVE  TypeOK' /\ BatchInv' /\ PostInv' /\ RetryInv' /\ WakeupPending'
    BY <1>1, <2>1, NextType, NextBatch, NextPost, NextRetry, NextWakeup
  <2> QED BY <2>1 DEF IInv, BatchInv, PostInv, RetryInv
<1> QED BY <1>2, <1>3, PTL DEF Spec

\* attempt never works from a stale copy of an entry.
THEOREM NoStaleCopy == Spec => []BatchIsFresh
<1>1. IInv => BatchIsFresh
  BY DEF IInv
<1> QED BY <1>1, Invariance, PTL

\* An entry is in its room once, plus once per lost reply or lost record.
THEOREM NoUnexplainedDuplicate == Spec => []DuplicatesExplained
<1>1. IInv => DuplicatesExplained
  BY DEF IInv
<1> QED BY <1>1, Invariance, PTL

\* A sleeping dispatcher has been kicked, or will be, for an untried entry.
THEOREM KicksAreNotLost == Spec => []NoLostWakeup
<1>1. IInv => NoLostWakeup
  BY DEF IInv, WakeupPending, NoLostWakeup
<1> QED BY <1>1, Invariance, PTL

\* deliver is called at most once per base delay an entry has lived, and once
\* more; tries whose record was lost and re-queues apart.
THEOREM RetriesSpaced == Spec => []RetriesAreSpaced
<1>1. ASSUME IInv, NEW i \in Ids
      PROVE  BackoffBase * tries[i] <= BackoffBase + RetriedFor(i)
  <2>1. age[i] \in 0 .. AgeCap /\ wait[i] \in Nat /\ BackoffBase * tries[i] \in Int
    BY <1>1, Products, TimeAssumption DEF IInv, TypeOK
  <2>2. Ahead(i) \in Int /\ Ahead(i) <= BackoffBase
    BY <2>1, TimeAssumption DEF Ahead
  <2>3. /\ age[i] < AgeCap => BackoffBase * tries[i] <= age[i] + Ahead(i)
        /\ BackoffBase * tries[i] <= MaxPendingAge + 2 * BackoffBase - 1
    BY <1>1, <2>1, TimeAssumption DEF IInv, SpacedOut
  <2> QED BY <2>1, <2>2, <2>3, TimeAssumption DEF RetriedFor
<1>2. IInv => RetriesAreSpaced
  BY <1>1 DEF RetriesAreSpaced
<1> QED BY <1>2, Invariance, PTL

--------------------------------------------------------------------------------
(* The outbox implements the promise. *)

Promises == [i \in Ids |-> Promised(status[i])]

\* Changing the status of one row changes what is promised of it alone.
LEMMA OnePromise ==
  ASSUME TypeOK, NEW i \in Ids, NEW s \in Statuses,
         status' = [status EXCEPT ![i] = s]
  PROVE  Promises' = [Promises EXCEPT ![i] = Promised(s)]
  BY DEF TypeOK, Promises

\* Each step is a step of the promise, or changes neither row nor room.
LEMMA StepKeepsPromise ==
  ASSUME IInv, [Next]_vars
  PROVE  [Promise!PromiseNext]_<<Promises, posts>>
<1> DEFINE Pending(i) == status[i] = "pending"
<1> USE DEF IInv
<1>1. ASSUME NEW i \in Ids, Handle(i)
      PROVE  [Promise!PromiseNext]_<<Promises, posts>>
  <2>1. CASE Enqueue(i)
    <3>1. Promise!Accept(i)
      BY <2>1, OnePromise DEF Enqueue, Fresh, history, Promise!Accept, Promises, Promised, Statuses
    <3> QED BY <3>1 DEF Promise!PromiseNext
  <2>2. CASE Kick(i)
    BY <2>2 DEF Kick, rows, history, Promises
  <2>3. CASE RecordDelivery(i)
    <3>1. Promise!Report(i)
      BY <2>3, OnePromise DEF RecordDelivery, Fresh, Promise!Report, Promises, Promised, Statuses
    <3> QED BY <3>1 DEF Promise!PromiseNext
  <2>4. CASE RequeueOutbox(i)
    <3>1. Promise!Retry(i)
      BY <2>4, OnePromise
      DEF RequeueOutbox, Requeueable, history, Promise!Retry, Promises, Promised, Statuses
    <3> QED BY <3>1 DEF Promise!PromiseNext
  <2> QED BY <1>1, <2>1, <2>2, <2>3, <2>4 DEF Handle
<1>2. ASSUME NEW i \in Ids, Attempt(i)
      PROVE  [Promise!PromiseNext]_<<Promises, posts>>
  <2>1. Pending(i) /\ UNCHANGED status
    BY <1>2 DEF Attempt, Tried, DeliverSent, DeliverRefused, DeliverReplyLost, DeliverAgain, Current,
                BatchIsFresh, rows
  <2>2. CASE UNCHANGED posts
    BY <2>1, <2>2 DEF Promises
  <2>3. CASE posts' = [posts EXCEPT ![i] = posts[i] + 1]
    <3>1. Promise!Post(i)
      BY <2>1, <2>3 DEF Promise!Post, Promises, Promised
    <3> QED BY <3>1 DEF Promise!PromiseNext
  <2> QED BY <1>2, <2>2, <2>3
    DEF Attempt, Tried, DeliverSent, DeliverRefused, DeliverReplyLost, DeliverAgain, history
<1>3. ASSUME NEW i \in Ids, Mark(i)
      PROVE  [Promise!PromiseNext]_<<Promises, posts>>
  <2>1. Pending(i) /\ UNCHANGED posts
    BY <1>3 DEF Mark, MarkOutboxDelivered, MarkOutboxFailed, RescheduleOutbox, NextEntry,
                Current, BatchIsFresh
  <2>2. CASE MarkOutboxDelivered(i)
    <3>1. posts[i] > 0
      BY <2>2 DEF MarkOutboxDelivered, Delivered, DeliveredWasPosted, InFlight
    <3>2. Promise!Deliver(i)
      BY <2>1, <2>2, <3>1, OnePromise
      DEF MarkOutboxDelivered, Promise!Deliver, Promises, Promised, Statuses
    <3> QED BY <3>2 DEF Promise!PromiseNext
  <2>3. CASE MarkOutboxFailed(i)
    <3>1. Promise!GiveUp(i)
      BY <2>1, <2>3, OnePromise
      DEF MarkOutboxFailed, Promise!GiveUp, Promises, Promised, Statuses
    <3> QED BY <3>1 DEF Promise!PromiseNext
  <2>4. CASE RescheduleOutbox(i)
    BY <2>1, <2>4 DEF RescheduleOutbox, Promises
  <2> QED BY <1>3, <2>2, <2>3, <2>4 DEF Mark
<1>4. ASSUME NEW i \in Ids, MarkError(i)
      PROVE  [Promise!PromiseNext]_<<Promises, posts>>
  BY <1>4 DEF MarkError, NextEntry, rows, Promises
<1>5. CASE PruneOutbox
  <2> DEFINE S == {i \in Ids : Prunable(i)}
  <2>1. S \in SUBSET {i \in Ids : Promises[i] \in Promise!Settled}
    BY DEF Prunable, Terminal, Promise!Settled, Promises, Promised
  <2>2. /\ Promises' = [i \in Ids |-> IF i \in S THEN "forgotten" ELSE Promises[i]]
        /\ UNCHANGED posts
    BY <1>5 DEF PruneOutbox, history, Promises, Promised
  <2>3. Promise!Forget
    BY <2>1, <2>2 DEF Promise!Forget, Promises
  <2> QED BY <2>3 DEF Promise!PromiseNext
<1>6. CASE Drain
  BY <1>5, <1>6 DEF Drain, Fetch, FetchError, CountPendingOutbox, LeaveDrain, WakeKick,
     WakePoll, Leave, PruneError, rows, history, Promises
<1>7. CASE Process
  BY <1>7 DEF Process, Shutdown, Crash, Exit, LoseMemory, Start, rows, history, Promises
<1>8. CASE Tick
  BY <1>8 DEF Tick, history, Promises
<1>9. CASE UNCHANGED vars
  BY <1>9 DEF vars, rows, history, Promises
<1> QED BY <1>1, <1>2, <1>3, <1>4, <1>6, <1>7, <1>8, <1>9 DEF Next, Step

\* Whatever handlers, dispatcher, pruning, stops and crashes do, no accepted
\* entry is lost and none is posted once it is settled.
THEOREM OutboxKeepsPromise == Spec => KeepsPromise
<1>1. Init => Promise!PromiseInit
  BY DEF Init, Promise!PromiseInit, Promised
<1>2. IInv /\ [Next]_vars => [Promise!PromiseNext]_(Promise!pvars)
  BY StepKeepsPromise DEF Promise!pvars, Promises
<1> QED BY <1>1, <1>2, Invariance, PTL DEF Spec, KeepsPromise, Promise!PromiseSpec
================================================================================
