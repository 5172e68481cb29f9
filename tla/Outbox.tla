-------------------------------- MODULE Outbox --------------------------------
(***************************************************************************)
(* The persistent outbox (internal/store/outbox.go) and the dispatcher     *)
(* that drains it (internal/outbox/outbox.go), with the handlers that add  *)
(* to it or re-queue from it, the pruning of its history, and the stop,    *)
(* crash and restart of the process.                                       *)
(*                                                                         *)
(* The content of an entry and its delivery to a room are abstract here: a *)
(* delivery posts, is refused, or posts and is reported as an error (a     *)
(* timeout that loses the reply).  Module LiveMessages looks inside it.    *)
(*                                                                         *)
(* Time is relative, so that it may run for ever in finitely many states:  *)
(* age[i] is now - created_at, saturating at AgeCap, and wait[i] is        *)
(* next_attempt_at - now, zero once the entry is due.                      *)
(***************************************************************************)
EXTENDS Integers, FiniteSets

CONSTANTS
  MaxEntries,     \* bound: rows ever inserted
  BatchSize,      \* batchSize
  BackoffBase,    \* backoffBase, in clock ticks
  BackoffCap,     \* backoffCap
  MaxPendingAge,  \* maxPendingAge
  Retention,      \* Dispatcher.retention (outbox_retention_hours)
  AgeCap,         \* ages are not told apart beyond this one
  MaxBudget       \* bound: failed reads and writes, lost replies, stops,
                  \* crashes and operator retries, together

ASSUME SizeAssumption ==
  /\ MaxEntries \in Nat
  /\ BatchSize \in Nat \ {0}
  /\ MaxBudget \in Nat

ASSUME TimeAssumption ==
  /\ BackoffBase \in Nat \ {0}
  /\ BackoffCap \in Nat
  /\ BackoffBase <= BackoffCap
  /\ MaxPendingAge \in Nat \ {0}
  /\ Retention \in Nat
  /\ AgeCap \in Nat
  /\ MaxPendingAge < AgeCap
  /\ MaxPendingAge + BackoffBase <= AgeCap + 1
  /\ Retention < AgeCap

\* Rows are inserted in the order of their autoincremented ids.
Ids == 1 .. MaxEntries

VARIABLES
  \* the outbox_entries table, which survives a crash
  status,      \* "unused" before its insert, "pruned" after its deletion
  attempts,
  age,
  wait,
  \* the dispatcher goroutine
  pc,          \* where Run is
  batch,       \* ids of the entries DueOutbox returned, not yet handled
  snap,        \* the Attempts they were read with
  outcome,     \* what deliver returned for the entry at hand
  kick,        \* tokens in the kick channel, of capacity one
  \* the rest of the process
  proc,        \* "down", "up", or "stopping" once the context is cancelled
  kicking,     \* entries a handler persisted and has not kicked for yet
  budget,      \* disturbances still to come
  \* history variables
  posts,       \* times the entry reached its room
  unrecorded,  \* times it did and the table never learnt of it
  tries,       \* calls of deliver for the entry, less the excused ones: one for
               \* each the table never learnt of, and one for each re-queue
  lastRead     \* how the last read of the due entries went

rows == <<status, attempts, age, wait>>
dispatcher == <<pc, batch, snap, outcome>>
history == <<posts, unrecorded, tries, lastRead>>
vars == <<rows, dispatcher, kick, proc, kicking, budget, history>>

Statuses == {"unused", "pending", "delivered", "failed", "pruned"}
Terminal == {"delivered", "failed"}
PCs == {"off", "prune", "fetch", "attempt", "mark", "count", "wait"}

TypeOK ==
  /\ status \in [Ids -> Statuses]
  /\ attempts \in [Ids -> Nat]
  /\ age \in [Ids -> 0 .. AgeCap]
  /\ wait \in [Ids -> 0 .. BackoffCap]
  /\ pc \in PCs
  /\ batch \in SUBSET Ids
  /\ snap \in [Ids -> Nat]
  /\ outcome \in {"none", "sent", "error"}
  /\ kick \in {0, 1}
  /\ proc \in {"down", "up", "stopping"}
  /\ kicking \in SUBSET Ids
  /\ budget \in 0 .. MaxBudget
  /\ posts \in [Ids -> Nat]
  /\ unrecorded \in [Ids -> Nat]
  /\ tries \in [Ids -> Int]
  /\ lastRead \in {"ok", "error"}

--------------------------------------------------------------------------------
(* The backoff schedule. *)

\* The delay after the loop of backoff has run for n attempts.
doubled[n \in Nat \ {0}] ==
  IF n = 1 THEN BackoffBase
  ELSE IF doubled[n - 1] < BackoffCap THEN 2 * doubled[n - 1]
  ELSE doubled[n - 1]

\* Mutant: the first retry is due at once, the doubling starts after it.
backoff_from_zero(n) == IF n = 1 THEN 0 ELSE doubled[n - 1]

\* Mutant: the last doubling overshoots the cap.
backoff_uncapped(n) == doubled[n]

\* min(delay, backoffCap); no delay is below the base.
backoff(n) ==
  IF doubled[n] \in BackoffBase .. BackoffCap THEN doubled[n] ELSE BackoffCap

--------------------------------------------------------------------------------
(* The process and its context. *)

Running == proc = "up"
Alive == proc # "down"

\* One of the bounded disturbances happens.
Disturb == budget > 0 /\ budget' = budget - 1

\* A database call fails: any call may, every call does once its context is
\* cancelled.
StoreError ==
  \/ proc = "stopping" /\ UNCHANGED budget
  \/ Running /\ Disturb

Init ==
  /\ status = [i \in Ids |-> "unused"]
  /\ attempts = [i \in Ids |-> 0]
  /\ age = [i \in Ids |-> 0]
  /\ wait = [i \in Ids |-> 0]
  /\ pc = "prune"
  /\ batch = {}
  /\ snap = [i \in Ids |-> 0]
  /\ outcome = "none"
  /\ kick = 0
  /\ proc = "up"
  /\ kicking = {}
  /\ budget = MaxBudget
  /\ posts = [i \in Ids |-> 0]
  /\ unrecorded = [i \in Ids |-> 0]
  /\ tries = [i \in Ids |-> 0]
  /\ lastRead = "ok"

--------------------------------------------------------------------------------
(* Handlers: ingest, test sends and the History tab. *)

\* The next try of entry i may follow at once.
Excuse(i) == tries' = [tries EXCEPT ![i] = tries[i] - 1]

\* The id the next insert gets.
Fresh(i) == status[i] = "unused" /\ \A j \in Ids : j < i => status[j] # "unused"

\* EnqueueOutbox: pending, due immediately.  The kick is a step of its own.
Enqueue(i) ==
  /\ Alive
  /\ Fresh(i)
  /\ status' = [status EXCEPT ![i] = "pending"]
  /\ kicking' = kicking \cup {i}
  /\ UNCHANGED <<attempts, age, wait, dispatcher, kick, proc, budget, history>>

\* Mutant: the wakeup is dropped unless the drain loop is already asleep.
KickHeard_when_idle == IF pc = "wait" THEN 1 ELSE kick

\* A kick fills the channel or finds it full; either way it holds a token.
KickHeard == 1

Kick(i) ==
  /\ i \in kicking
  /\ kick' = KickHeard
  /\ kicking' = kicking \ {i}
  /\ UNCHANGED <<rows, dispatcher, proc, budget, history>>

\* testSend posts synchronously, then RecordDelivery inserts a terminal row.
RecordDelivery(i) ==
  /\ Alive
  /\ Fresh(i)
  /\ \/ /\ status' = [status EXCEPT ![i] = "delivered"]
        /\ posts' = [posts EXCEPT ![i] = posts[i] + 1]
     \/ /\ status' = [status EXCEPT ![i] = "failed"]
        /\ UNCHANGED posts
  /\ attempts' = [attempts EXCEPT ![i] = 1]
  /\ tries' = [tries EXCEPT ![i] = tries[i] + 1]
  /\ UNCHANGED <<age, wait, dispatcher, kick, proc, kicking, budget, unrecorded, lastRead>>

\* Mutant: the WHERE clause of the requeue forgets the status.
Requeueable_any(i) == status[i] \in Terminal \cup {"pending"}

\* Mutant: a delivered entry may be sent again.
Requeueable_terminal(i) == status[i] \in Terminal

Requeueable(i) == status[i] = "failed"

\* RetryDelivery: RequeueOutbox, then the kick of any other enqueue.
RequeueOutbox(i) ==
  /\ Alive
  /\ Requeueable(i)
  /\ Disturb
  /\ status' = [status EXCEPT ![i] = "pending"]
  /\ attempts' = [attempts EXCEPT ![i] = 0]
  /\ wait' = [wait EXCEPT ![i] = 0]
  /\ kicking' = kicking \cup {i}
  /\ Excuse(i)
  /\ UNCHANGED <<age, dispatcher, kick, proc, posts, unrecorded, lastRead>>

--------------------------------------------------------------------------------
(* The dispatcher: Run, drain and attempt. *)

Due(i) == status[i] = "pending" /\ wait[i] = 0

\* Oldest first, at most BatchSize of them.
DueOutbox ==
  {i \in Ids : Due(i) /\ Cardinality({j \in Ids : Due(j) /\ j < i}) < BatchSize}

\* The head of what is left of the batch.
Current(i) == i \in batch /\ \A j \in batch : i <= j

\* drain reads a batch; an empty one ends it.
Fetch ==
  /\ pc = "fetch"
  /\ Running
  /\ batch' = DueOutbox
  /\ snap' = [i \in Ids |-> IF i \in DueOutbox THEN attempts[i] ELSE 0]
  /\ pc' = IF DueOutbox = {} THEN "count" ELSE "attempt"
  /\ lastRead' = "ok"
  /\ UNCHANGED <<rows, outcome, kick, proc, kicking, budget, posts, unrecorded, tries>>

FetchError ==
  /\ pc = "fetch"
  /\ StoreError
  /\ pc' = "count"
  /\ lastRead' = "error"
  /\ UNCHANGED <<rows, batch, snap, outcome, kick, proc, kicking, posts, unrecorded, tries>>

\* drain ends with a query for the gauge of pending entries, whose result
\* matters to nothing but which leaves a gap before the select.
CountPendingOutbox ==
  /\ pc = "count"
  /\ Alive
  /\ pc' = "wait"
  /\ UNCHANGED <<rows, batch, snap, outcome, kick, proc, kicking, budget, history>>

\* deliver returned; attempt is about to write down what came of it.
Tried(i, result) ==
  /\ pc' = "mark"
  /\ outcome' = result
  /\ tries' = [tries EXCEPT ![i] = tries[i] + 1]
  /\ UNCHANGED <<rows, batch, snap, kick, proc, kicking, lastRead>>

\* deliver succeeds: the room shows the entry.
DeliverSent(i) ==
  /\ pc = "attempt"
  /\ Running
  /\ Current(i)
  /\ Tried(i, "sent")
  /\ posts' = [posts EXCEPT ![i] = posts[i] + 1]
  /\ UNCHANGED <<budget, unrecorded>>

\* deliver fails and the room shows nothing.  The context may be cancelled
\* after the loop looked at it.
DeliverRefused(i) ==
  /\ pc = "attempt"
  /\ Current(i)
  /\ Tried(i, "error")
  /\ UNCHANGED <<budget, posts, unrecorded>>

\* The room shows the entry but deliver returns an error: the reply was lost
\* or came after attemptTimeout.
DeliverReplyLost(i) ==
  /\ pc = "attempt"
  /\ Current(i)
  /\ Disturb
  /\ Tried(i, "error")
  /\ posts' = [posts EXCEPT ![i] = posts[i] + 1]
  /\ unrecorded' = [unrecorded EXCEPT ![i] = unrecorded[i] + 1]

\* A reply is lost inside deliver, and retrySend posts the entry again.
DeliverAgain(i) ==
  /\ pc = "attempt"
  /\ Running
  /\ Current(i)
  /\ Disturb
  /\ posts' = [posts EXCEPT ![i] = posts[i] + 1]
  /\ unrecorded' = [unrecorded EXCEPT ![i] = unrecorded[i] + 1]
  /\ UNCHANGED <<rows, dispatcher, kick, proc, kicking, tries, lastRead>>

\* attempt is done with entry i: on to the next one, or to the next batch.
NextEntry(i) ==
  /\ batch' = batch \ {i}
  /\ snap' = [snap EXCEPT ![i] = 0]
  /\ outcome' = "none"
  /\ pc' = IF batch' = {} THEN "fetch" ELSE "attempt"
  /\ UNCHANGED <<kick, proc, kicking, posts, lastRead>>

Delivered == outcome = "sent"

MarkOutboxDelivered(i) ==
  /\ pc = "mark"
  /\ Running
  /\ Current(i)
  /\ Delivered
  /\ status' = [status EXCEPT ![i] = "delivered"]
  /\ attempts' = [attempts EXCEPT ![i] = snap[i] + 1]
  /\ NextEntry(i)
  /\ UNCHANGED <<age, wait, budget, unrecorded, tries>>

\* Past maxPendingAge since it was created, re-queued or not.
TooOld(i) == age[i] >= MaxPendingAge

MarkOutboxFailed(i) ==
  /\ pc = "mark"
  /\ Running
  /\ Current(i)
  /\ outcome = "error"
  /\ TooOld(i)
  /\ status' = [status EXCEPT ![i] = "failed"]
  /\ attempts' = [attempts EXCEPT ![i] = snap[i] + 1]
  /\ NextEntry(i)
  /\ UNCHANGED <<age, wait, budget, unrecorded, tries>>

RescheduleOutbox(i) ==
  /\ pc = "mark"
  /\ Running
  /\ Current(i)
  /\ outcome = "error"
  /\ ~TooOld(i)
  /\ attempts' = [attempts EXCEPT ![i] = snap[i] + 1]
  /\ wait' = [wait EXCEPT ![i] = backoff(snap[i] + 1)]
  /\ NextEntry(i)
  /\ UNCHANGED <<status, age, budget, unrecorded, tries>>

\* Whichever of the three writes was due fails, and is only logged.
MarkError(i) ==
  /\ pc = "mark"
  /\ StoreError
  /\ Current(i)
  /\ unrecorded' =
       [unrecorded EXCEPT ![i] = unrecorded[i] + (IF outcome = "sent" THEN 1 ELSE 0)]
  /\ Excuse(i)
  /\ NextEntry(i)
  /\ UNCHANGED rows

\* The loop of drain sees its context cancelled.
LeaveDrain ==
  /\ pc = "attempt"
  /\ proc = "stopping"
  /\ pc' = "wait"
  /\ batch' = {}
  /\ snap' = [i \in Ids |-> 0]
  /\ UNCHANGED <<rows, outcome, kick, proc, kicking, budget, history>>

\* The select of Run: a kick, a poll, or the cancelled context.
WakeKick ==
  /\ pc = "wait"
  /\ Alive
  /\ kick = 1
  /\ kick' = 0
  /\ pc' = "fetch"
  /\ UNCHANGED <<rows, batch, snap, outcome, proc, kicking, budget, history>>

\* Mutant: the loop only listens for kicks.
WakePoll_on_kick ==
  /\ pc = "wait"
  /\ Alive
  /\ kick = 1
  /\ pc' = "fetch"
  /\ UNCHANGED <<rows, batch, snap, outcome, kick, proc, kicking, budget, history>>

WakePoll ==
  /\ pc = "wait"
  /\ Alive
  /\ pc' = "fetch"
  /\ UNCHANGED <<rows, batch, snap, outcome, kick, proc, kicking, budget, history>>

Leave ==
  /\ pc = "wait"
  /\ proc = "stopping"
  /\ pc' = "off"
  /\ UNCHANGED <<rows, batch, snap, outcome, kick, proc, kicking, budget, history>>

--------------------------------------------------------------------------------
(* Pruning of the history. *)

\* Mutant: retention alone decides.
Prunable_any(i) == status[i] \in Terminal \cup {"pending"} /\ age[i] > Retention

Prunable(i) == status[i] \in Terminal /\ age[i] > Retention

\* Run prunes first thing, and once per pruneInterval afterwards.
PruneOutbox ==
  /\ pc \in {"prune", "wait"}
  /\ Running
  /\ status' = [i \in Ids |-> IF Prunable(i) THEN "pruned" ELSE status[i]]
  /\ attempts' = [i \in Ids |-> IF Prunable(i) THEN 0 ELSE attempts[i]]
  /\ age' = [i \in Ids |-> IF Prunable(i) THEN 0 ELSE age[i]]
  /\ wait' = [i \in Ids |-> IF Prunable(i) THEN 0 ELSE wait[i]]
  /\ tries' = [i \in Ids |-> IF Prunable(i) THEN 0 ELSE tries[i]]
  /\ pc' = IF pc = "prune" THEN "fetch" ELSE "wait"
  /\ UNCHANGED <<batch, snap, outcome, kick, proc, kicking, budget, posts, unrecorded,
                 lastRead>>

PruneError ==
  /\ pc = "prune"
  /\ StoreError
  /\ pc' = "fetch"
  /\ UNCHANGED <<rows, batch, snap, outcome, kick, proc, kicking, history>>

--------------------------------------------------------------------------------
(* The life of the process, and time. *)

\* main cancels the context.
Shutdown ==
  /\ Running
  /\ Disturb
  /\ proc' = "stopping"
  /\ UNCHANGED <<rows, dispatcher, kick, kicking, history>>

\* What the process held in memory is gone, the outcome of a try whose record
\* was still to be written included.
LoseMemory ==
  /\ proc' = "down"
  /\ pc' = "off"
  /\ batch' = {}
  /\ snap' = [i \in Ids |-> 0]
  /\ outcome' = "none"
  /\ kick' = 0
  /\ kicking' = {}
  /\ unrecorded' =
       [i \in Ids |-> IF outcome = "sent" /\ Current(i)
                      THEN unrecorded[i] + 1 ELSE unrecorded[i]]
  /\ tries' = [i \in Ids |-> IF pc = "mark" /\ Current(i) THEN tries[i] - 1 ELSE tries[i]]
  /\ UNCHANGED <<rows, posts, lastRead>>

Crash == Alive /\ Disturb /\ LoseMemory

\* main returns; it does not wait for the dispatcher.
Exit == proc = "stopping" /\ UNCHANGED budget /\ LoseMemory

Start ==
  /\ proc = "down"
  /\ proc' = "up"
  /\ pc' = "prune"
  /\ UNCHANGED <<rows, batch, snap, outcome, kick, kicking, budget, history>>

HasRow(i) == status[i] \in {"pending"} \cup Terminal

Tick ==
  /\ age' = [i \in Ids |-> IF HasRow(i) /\ age[i] < AgeCap THEN age[i] + 1 ELSE age[i]]
  /\ wait' = [i \in Ids |-> IF wait[i] > 0 THEN wait[i] - 1 ELSE wait[i]]
  /\ UNCHANGED <<status, attempts, dispatcher, kick, proc, kicking, budget, history>>

--------------------------------------------------------------------------------
Handle(i) ==
  \/ Enqueue(i) \/ Kick(i) \/ RecordDelivery(i) \/ RequeueOutbox(i)

Attempt(i) ==
  \/ DeliverSent(i) \/ DeliverRefused(i) \/ DeliverReplyLost(i) \/ DeliverAgain(i)

Mark(i) ==
  \/ MarkOutboxDelivered(i) \/ MarkOutboxFailed(i) \/ RescheduleOutbox(i)

Drain ==
  \/ Fetch \/ FetchError \/ CountPendingOutbox \/ LeaveDrain
  \/ WakeKick \/ WakePoll \/ Leave
  \/ PruneOutbox \/ PruneError

Process == Shutdown \/ Crash \/ Exit \/ Start

Step ==
  \/ \E i \in Ids : Handle(i) \/ Attempt(i) \/ Mark(i) \/ MarkError(i)
  \/ Drain
  \/ Process

Next == Step \/ Tick

Spec == Init /\ [][Next]_vars

(* The goroutine keeps running and its ticker keeps firing, so that every  *)
(* step it can take is taken; a stopping process exits, a stopped one is   *)
(* started again, time passes.  Nothing forces a delivery to succeed, a    *)
(* sender to come back or an operator to retry.                            *)
Fairness ==
  /\ WF_vars(Tick)
  /\ WF_vars(Start) /\ WF_vars(Exit)
  /\ WF_vars(pc = "prune" /\ PruneOutbox)
  /\ WF_vars(Fetch) /\ WF_vars(CountPendingOutbox) /\ WF_vars(WakePoll)
  /\ \A i \in Ids :
       /\ WF_vars(DeliverSent(i) \/ DeliverRefused(i))
       /\ WF_vars(Mark(i))

FairSpec == Spec /\ Fairness

--------------------------------------------------------------------------------
(* Properties. *)

\* attempt() decides and writes from the copy of the row it was handed, long
\* after DueOutbox read it and after slow sends of other entries, while
\* handlers insert and re-queue rows.  The copy is never stale: no entry left
\* in the batch was settled, re-queued or retried since it was read.
BatchIsFresh ==
  \A i \in batch : status[i] = "pending" /\ attempts[i] = snap[i]

\* The post of the attempt at hand, which the table is about to learn of.
InFlight(i) == pc = "mark" /\ outcome = "sent" /\ Current(i)

\* Every duplicate has a cause.  An entry is in its room once, plus once for
\* each reply or record that was lost (deliver and MarkOutboxDelivered of
\* attempt, cut by an error, a shutdown or a crash); re-queueing, batches
\* and overlapping handlers add none.
DuplicatesExplained ==
  \A i \in Ids :
    posts[i] <= unrecorded[i]
                + (IF status[i] \in {"delivered", "pruned"} \/ InFlight(i) THEN 1 ELSE 0)

\* A kick is not lost.  When Run is asleep in its select and its last read
\* worked, an entry nobody has tried yet (new, or re-queued) has a token in the
\* kick channel, or a handler about to put one there: it does not have to wait
\* for the poll.
NoLostWakeup ==
  pc = "wait" /\ proc = "up" /\ lastRead = "ok" =>
    \A i \in Ids :
      status[i] = "pending" /\ attempts[i] = 0 => kick = 1 \/ i \in kicking

\* How long an entry has been retried: its age, up to the first retry past
\* MaxPendingAge, the one that gives up.
RetriedFor(i) ==
  IF age[i] < MaxPendingAge + BackoffBase - 1 THEN age[i]
  ELSE MaxPendingAge + BackoffBase - 1

\* Failing entries do not spin.  Whatever the interleaving of drains, polls,
\* kicks and restarts, deliver has been called for an entry at most once plus
\* once per base delay the entry has lived, maxPendingAge being the most that
\* counts.  Only a try that the table never learnt of (its mark failed, or the
\* process stopped before it) and a re-queue by an operator, which tries leaves
\* out, allow one more each: the next try after those may follow at once.
RetriesAreSpaced ==
  \A i \in Ids : BackoffBase * tries[i] <= BackoffBase + RetriedFor(i)

\* What a row stands for in module DeliveryPromise.
Promised(s) ==
  CASE s = "unused" -> "none"
    [] s = "pending" -> "owed"
    [] s = "pruned" -> "forgotten"
    [] OTHER -> s

Promise == INSTANCE DeliveryPromise WITH promise <- [i \in Ids |-> Promised(status[i])]

\* An accepted entry is never dropped, posted after it settled, called
\* delivered before the room saw it, or forgotten while it is owed: every step
\* of handlers, dispatcher, pruning and restarts is one the promise allows.
KeepsPromise == Promise!PromiseSpec

\* Every accepted entry is delivered or given up on in the end, whatever the
\* younger or older entries it shares the queue with do, and although the
\* process may stop and the room may refuse everything.
EventuallySettled ==
  \A i \in Ids : status[i] = "pending" ~> status[i] \in Terminal

--------------------------------------------------------------------------------
(* The inductive invariant. *)

\* Where the dispatcher holds entries, and a result to record.
DispatcherShape ==
  /\ pc \in {"attempt", "mark"} <=> batch # {}
  /\ pc = "mark" <=> outcome # "none"
  /\ proc = "down" => pc = "off"

\* The batch was due when it was read, and time does not undo that.
BatchIsDue ==
  \A i \in batch : wait[i] = 0

\* A delivered entry was posted, and so was the one about to be marked.
DeliveredWasPosted ==
  \A i \in Ids : status[i] = "delivered" \/ InFlight(i) => posts[i] > 0

\* Rows that do not exist hold nothing; a settled entry and one that nobody
\* tried wait for nothing.
RowShape ==
  \A i \in Ids :
    /\ status[i] # "pending" => wait[i] = 0
    /\ status[i] \in {"unused", "pruned"} => attempts[i] = 0
    /\ status[i] = "pending" /\ attempts[i] = 0 => wait[i] = 0

\* The try that settled an entry and the one at hand need no delay after them.
LastTry(i) == status[i] \in Terminal \/ (pc = "mark" /\ Current(i))

\* What an entry need not have lived for: its last try, or the rest of the base
\* delay that follows the one before.
Ahead(i) ==
  IF LastTry(i) \/ wait[i] > BackoffBase THEN BackoffBase ELSE wait[i]

\* RetriesAreSpaced while more tries are to come: an entry that is due has lived
\* long enough for all the tries before this one.
SpacedOut ==
  \A i \in Ids :
    /\ tries[i] >= (IF LastTry(i) THEN 1 ELSE 0)
    /\ age[i] < AgeCap => BackoffBase * tries[i] <= age[i] + Ahead(i)
    /\ LastTry(i) => BackoffBase * tries[i] <= MaxPendingAge + 2 * BackoffBase - 1
    /\ ~LastTry(i) => BackoffBase * tries[i] <= MaxPendingAge + BackoffBase - 1

\* NoLostWakeup from the moment an empty read ends the drain.
WakeupPending ==
  pc \in {"count", "wait"} /\ proc = "up" /\ lastRead = "ok" =>
    \A i \in Ids :
      status[i] = "pending" /\ attempts[i] = 0 => kick = 1 \/ i \in kicking

IInv ==
  /\ TypeOK
  /\ DispatcherShape
  /\ BatchIsFresh
  /\ BatchIsDue
  /\ DuplicatesExplained
  /\ DeliveredWasPosted
  /\ RowShape
  /\ SpacedOut
  /\ WakeupPending
================================================================================
