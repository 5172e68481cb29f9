---------------------------- MODULE DeliveryPromise ----------------------------
(***************************************************************************)
(* What the persistent outbox promises the senders of notifications,       *)
(* without a dispatcher, a batch, a clock or a crash in sight: an accepted *)
(* entry stays owed until it is delivered or given up on, only an owed     *)
(* entry is ever posted, and only a settled one is ever forgotten.         *)
(***************************************************************************)
EXTENDS Naturals

CONSTANT Ids

VARIABLES
  promise,  \* what the service owes each entry
  posts     \* how many times the entry reached its room

pvars == <<promise, posts>>

Settled == {"delivered", "failed"}

PromiseInit ==
  /\ promise = [i \in Ids |-> "none"]
  /\ posts = [i \in Ids |-> 0]

\* A sender is answered 200: from here on the entry is owed.
Accept(i) ==
  /\ promise[i] = "none"
  /\ promise' = [promise EXCEPT ![i] = "owed"]
  /\ UNCHANGED posts

\* A test notification is sent on the spot, only its outcome is kept.
Report(i) ==
  /\ promise[i] = "none"
  /\ \/ /\ promise' = [promise EXCEPT ![i] = "delivered"]
        /\ posts' = [posts EXCEPT ![i] = posts[i] + 1]
     \/ /\ promise' = [promise EXCEPT ![i] = "failed"]
        /\ UNCHANGED posts

\* The entry appears in its room; more than once when a record is lost.
Post(i) ==
  /\ promise[i] = "owed"
  /\ posts' = [posts EXCEPT ![i] = posts[i] + 1]
  /\ UNCHANGED promise

\* Only an entry the room has seen is called delivered.
Deliver(i) ==
  /\ promise[i] = "owed"
  /\ posts[i] > 0
  /\ promise' = [promise EXCEPT ![i] = "delivered"]
  /\ UNCHANGED posts

GiveUp(i) ==
  /\ promise[i] = "owed"
  /\ promise' = [promise EXCEPT ![i] = "failed"]
  /\ UNCHANGED posts

\* The operator asks for a failed entry to be tried again.
Retry(i) ==
  /\ promise[i] = "failed"
  /\ promise' = [promise EXCEPT ![i] = "owed"]
  /\ UNCHANGED posts

\* Retention forgets settled entries, never an owed one.
Forget ==
  \E S \in SUBSET {i \in Ids : promise[i] \in Settled} :
    /\ promise' = [i \in Ids |-> IF i \in S THEN "forgotten" ELSE promise[i]]
    /\ UNCHANGED posts

PromiseNext ==
  \/ \E i \in Ids :
       Accept(i) \/ Report(i) \/ Post(i) \/ Deliver(i) \/ GiveUp(i) \/ Retry(i)
  \/ Forget

PromiseSpec == PromiseInit /\ [][PromiseNext]_pvars
================================================================================
