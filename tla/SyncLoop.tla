------------------------------- MODULE SyncLoop -------------------------------
(***************************************************************************)
(* The bot's life around its sync loop: a start that waits for the first   *)
(* sync, the loop that handles invites and chat commands one event at a    *)
(* time, the state store it keeps, and the sends that ask the store whether *)
(* a room is encrypted (internal/matrix/bot.go, internal/matrix/commands.go, *)
(* run of cmd/tocsin/main.go).                                             *)
(*                                                                         *)
(* mautrix saves the sync token of a response before it processes it: what  *)
(* a stop leaves unprocessed is never seen again.  The homeserver and what  *)
(* mautrix does are modelled from how the code uses them.                  *)
(***************************************************************************)
EXTENDS Integers, FiniteSets

CONSTANTS Rooms,            \* rooms of the homeserver
          Commands,         \* identities of the messages people send
          SendMaxAttempts,  \* sendMaxAttempts
          StaleAfter        \* syncStaleThreshold, in ticks

ASSUME SyncLoopAssumption ==
    /\ SendMaxAttempts \in Nat \ {0}
    /\ StaleAfter \in Nat

VARIABLES
    membership, \* homeserver: the bot's membership in each room
    encrypted,  \* homeserver: the rooms that are encrypted
    unseen,     \* homeserver: events behind the saved sync token
    knows,      \* state store: the rooms it has as encrypted
    life,       \* how far run has come
    loop,       \* the goroutine in SyncWithContext
    batch,      \* events of the last response that are not handled yet
    firstSync,  \* firstSync is closed and lastSyncUnix set
    syncErr,    \* syncErr holds an error
    age,        \* ticks since the last response
    at,         \* per caller: where its send is
    room,       \* per caller: the room it sends to
    tries,      \* per caller: attempts of retrySend begun
    report,     \* the command being run replies when its send fails
    due,        \* rooms with an entry of the outbox that is still pending
    fair,       \* ghost: the room was joined and encrypted when the call began
    leaked,     \* ghost: rooms that were sent a message that is not encrypted
    wronged,    \* ghost: rooms refused for no reason
    missed,     \* ghost: invited rooms whose invite was handled in vain or lost
    sent,       \* ghost: messages sent so far
    ran,        \* ghost: how often a message was run as a command
    backlog     \* ghost: messages sent, but not run, when a process started

server == <<membership, encrypted, unseen>>
process == <<life, loop, batch, firstSync, syncErr, age>>
calls == <<at, room, tries, report, fair>>
ghosts == <<leaked, wronged, missed, sent, ran, backlog>>
vars == <<server, knows, process, calls, due, ghosts>>

\* The goroutines that send: the sync loop (replies) and the dispatcher.
Callers == {"loop", "outbox"}

-------------------------------------------------------------------------------
(* Events *)

InviteEvent(r, t) == [type |-> "invite", room |-> r, trusted |-> t]
EncryptionEvent(r) == [type |-> "encryption", room |-> r]
MessageEvent(c, r, k, old) ==
    [type |-> "message", id |-> c, room |-> r, kind |-> k, old |-> old]

\* A message is the bot's own, or did not arrive encrypted, or is no text that
\* ParseCommand takes for a command; or it is a command with one reply, or a test
\* send that is only followed by a reply when it fails.
Kinds == {"own", "plain", "chatter", "reply", "test"}

\* The invite of the event, or a later one, stands.
Invited(e) == membership[e.room] = "invited"

Invites == {InviteEvent(r, t) : r \in Rooms, t \in BOOLEAN}
Encryptions == {EncryptionEvent(r) : r \in Rooms}
Messages == [type : {"message"}, id : Commands, room : Rooms, kind : Kinds,
             old : BOOLEAN]
Events == Invites \cup Encryptions \cup Messages

\* evt.Timestamp < b.startTime holds of everything sent before New.
Aged(e) == IF e \in Messages THEN [e EXCEPT !.old = TRUE] ELSE e

\* Mutant: without the test on the timestamp.
Addressed_ever(e) == e.kind \notin {"own", "plain", "chatter"}

\* The messages handleMessage acts on.
Addressed(e) == ~e.old /\ e.kind \notin {"own", "plain", "chatter"}

-------------------------------------------------------------------------------
Init ==
    /\ membership = [r \in Rooms |-> "away"]
    /\ encrypted = {}
    /\ unseen = {}
    /\ knows = {}
    /\ life = "down" /\ loop = "off" /\ batch = {}
    /\ firstSync = FALSE /\ syncErr = FALSE /\ age = 0
    /\ at = [c \in Callers |-> "idle"]
    /\ room \in [Callers -> Rooms]
    /\ tries = [c \in Callers |-> 0]
    /\ report = FALSE
    /\ due = {}
    /\ fair = [c \in Callers |-> FALSE]
    /\ leaked = {} /\ wronged = {} /\ missed = {} /\ sent = {}
    /\ ran = [c \in Commands |-> 0]
    /\ backlog = {}

-------------------------------------------------------------------------------
(* The homeserver and the people on it *)

Invite(r, trusted) ==
    /\ membership[r] = "away"
    /\ membership' = [membership EXCEPT ![r] = "invited"]
    /\ unseen' = (unseen \ {InviteEvent(r, ~trusted)}) \cup {InviteEvent(r, trusted)}
    /\ UNCHANGED <<encrypted, knows, process, calls, due, ghosts>>

\* The invite is withdrawn, the bot removed from the room, or LeaveRoom called.
Remove(r) ==
    /\ membership[r] # "away"
    /\ membership' = [membership EXCEPT ![r] = "away"]
    /\ missed' = missed \ {r}
    /\ UNCHANGED <<encrypted, unseen, knows, process, calls, due, leaked, wronged,
                   sent, ran, backlog>>

\* Encryption is turned on, which cannot be undone.
Encrypt(r) ==
    /\ r \notin encrypted
    /\ encrypted' = encrypted \cup {r}
    /\ unseen' = IF membership[r] = "joined" THEN unseen \cup {EncryptionEvent(r)}
                 ELSE unseen
    /\ UNCHANGED <<membership, knows, process, calls, due, ghosts>>

\* A message in a room of the bot; it can only arrive encrypted if the room is.
Post(c, r, kind) ==
    /\ c \notin sent
    /\ membership[r] = "joined"
    /\ kind \in {"reply", "test"} => r \in encrypted
    /\ unseen' = unseen \cup {MessageEvent(c, r, kind, FALSE)}
    /\ sent' = sent \cup {c}
    /\ UNCHANGED <<membership, encrypted, knows, process, calls, due, leaked, wronged,
                   missed, ran, backlog>>

-------------------------------------------------------------------------------
(* run and Start *)

\* matrix.New and the part of Start before the wait; startTime is now.
Start ==
    /\ life = "down"
    /\ life' = "first" /\ loop' = "poll" /\ age' = 0
    /\ unseen' = {Aged(e) : e \in unseen}
    /\ backlog' = backlog \cup {c \in sent : ran[c] = 0}
    /\ UNCHANGED <<membership, encrypted, knows, batch, firstSync, syncErr, calls,
                   due, leaked, wronged, missed, sent, ran>>

\* The select of Start sees firstSync closed.
FirstSynced ==
    /\ life = "first" /\ firstSync
    /\ life' = "verify"
    /\ UNCHANGED <<server, knows, loop, batch, firstSync, syncErr, age, calls, due, ghosts>>

\* ensureVerified, the aliases and the credential are done, the dispatcher runs.
Verified ==
    /\ life = "verify"
    /\ life' = "up"
    /\ UNCHANGED <<server, knows, loop, batch, firstSync, syncErr, age, calls, due, ghosts>>

\* The process is gone, with the events it had not handled.
Gone ==
    /\ life' = "down" /\ loop' = "off" /\ batch' = {}
    /\ firstSync' = FALSE /\ syncErr' = FALSE /\ age' = 0
    /\ at' = [c \in Callers |-> "idle"]
    /\ tries' = [c \in Callers |-> 0]
    /\ report' = FALSE
    /\ fair' = [c \in Callers |-> FALSE]
    /\ missed' = missed \cup {e.room : e \in {i \in batch \cap Invites : Invited(i)}}
    /\ UNCHANGED <<server, knows, room, due, leaked, wronged, sent, ran, backlog>>

\* The select of Start, or the last one of run, receives the sync error.
SyncDied ==
    /\ life \in {"first", "up"} /\ syncErr
    /\ Gone

\* Any other end: the first sync takes too long, a step of the start fails, the
\* HTTP server fails, a signal, a crash.
Stop ==
    /\ life # "down"
    /\ Gone

-------------------------------------------------------------------------------
(* The sync loop *)

\* Mutant: the token is saved after the events are handled.
AfterSave_late(events) == events

\* What is left to be seen once the token of a response is saved.
AfterSave(events) == {}

\* A response: the token is saved, then OnSync runs, then the events are handled.
Respond ==
    /\ loop = "poll"
    /\ loop' = "work" /\ batch' = unseen
    /\ unseen' = AfterSave(unseen)
    /\ firstSync' = TRUE /\ age' = 0
    /\ UNCHANGED <<membership, encrypted, knows, life, syncErr, calls, due, ghosts>>

\* Mutant: the error is dropped unless Start is waiting for it.
Reported_unbuffered == life = "first"

\* What the loop's error leaves for whoever listens: the channel has room for it.
Reported == TRUE

\* SyncWithContext returns an error, e.g. for a revoked access token.
SyncDies ==
    /\ loop = "poll"
    /\ loop' = "dead" /\ syncErr' = Reported
    /\ UNCHANGED <<server, knows, life, batch, firstSync, age, calls, due, ghosts>>

\* The loop is free to take the next event.
Free == loop = "work" /\ at["loop"] = "idle"

Handled ==
    /\ Free /\ batch = {}
    /\ loop' = "poll"
    /\ UNCHANGED <<server, knows, life, batch, firstSync, syncErr, age, calls, due, ghosts>>

\* The state store's handler runs before the bot's own.
StateStoreSyncHandler(e) ==
    /\ Free /\ e \in batch \cap Encryptions
    /\ batch' = batch \ {e}
    /\ knows' = knows \cup {e.room}
    /\ UNCHANGED <<server, life, loop, firstSync, syncErr, age, calls, due, ghosts>>

\* An invite of a trusted inviter: JoinRoomByID works as long as the invite
\* stands; the state of the room comes with a later response.
JoinRoom(e) ==
    /\ Free /\ e \in batch \cap Invites /\ e.trusted
    /\ Invited(e)
    /\ batch' = batch \ {e}
    /\ membership' = [membership EXCEPT ![e.room] = "joined"]
    /\ unseen' = IF e.room \in encrypted THEN unseen \cup {EncryptionEvent(e.room)}
                 ELSE unseen
    /\ missed' = missed \ {e.room}
    /\ UNCHANGED <<encrypted, knows, life, loop, firstSync, syncErr, age, calls, due,
                   leaked, wronged, sent, ran, backlog>>

\* An invite of anybody else: the room is left.
DeclineInvite(e) ==
    /\ Free /\ e \in batch \cap Invites /\ ~e.trusted
    /\ batch' = batch \ {e}
    /\ membership' = [membership EXCEPT ![e.room] = "away"]
    /\ missed' = missed \ {e.room}
    /\ UNCHANGED <<encrypted, unseen, knows, life, loop, firstSync, syncErr, age, calls,
                   due, leaked, wronged, sent, ran, backlog>>

\* Joining or leaving fails and is only logged.
InviteFails(e) ==
    /\ Free /\ e \in batch \cap Invites
    /\ batch' = batch \ {e}
    /\ missed' = IF Invited(e) THEN missed \cup {e.room} ELSE missed
    /\ UNCHANGED <<server, knows, life, loop, firstSync, syncErr, age, calls, due,
                   leaked, wronged, sent, ran, backlog>>

Ready(r) == membership[r] = "joined" /\ r \in encrypted

IgnoreMessage(e) ==
    /\ Free /\ e \in batch \cap Messages /\ ~Addressed(e)
    /\ batch' = batch \ {e}
    /\ UNCHANGED <<server, knows, life, loop, firstSync, syncErr, age, calls, due, ghosts>>

\* runCommand, whose reply or test message the loop now sends.
RunCommand(e) ==
    /\ Free /\ e \in batch \cap Messages /\ Addressed(e)
    /\ batch' = batch \ {e}
    /\ ran' = [ran EXCEPT ![e.id] = @ + 1]
    /\ at' = [at EXCEPT !["loop"] = "ask"]
    /\ room' = [room EXCEPT !["loop"] = e.room]
    /\ fair' = [fair EXCEPT !["loop"] = Ready(e.room)]
    /\ report' = (e.kind = "test")
    /\ UNCHANGED <<server, knows, life, loop, firstSync, syncErr, age, tries, due,
                   leaked, wronged, missed, sent, backlog>>

-------------------------------------------------------------------------------
(* Sending *)

Enqueue(r) ==
    /\ r \notin due
    /\ due' = due \cup {r}
    /\ UNCHANGED <<server, knows, process, calls, ghosts>>

\* The dispatcher attempts the room's entry.
Attempt(r) ==
    /\ life = "up" /\ at["outbox"] = "idle" /\ r \in due
    /\ at' = [at EXCEPT !["outbox"] = "ask"]
    /\ room' = [room EXCEPT !["outbox"] = r]
    /\ fair' = [fair EXCEPT !["outbox"] = Ready(r)]
    /\ UNCHANGED <<server, knows, process, tries, report, due, ghosts>>

\* A call ends; a test send that failed goes on with the reply that says so.
AfterCall(c, ok) ==
    IF c = "loop" /\ report /\ ~ok THEN "ask" ELSE "idle"

Ends(c, ok) ==
    /\ at' = [at EXCEPT ![c] = AfterCall(c, ok)]
    /\ fair' = [fair EXCEPT ![c] = AfterCall(c, ok) = "ask" /\ Ready(room[c])]
    /\ tries' = [tries EXCEPT ![c] = 0]
    /\ report' = (report /\ c # "loop")
    /\ UNCHANGED room

\* A failed attempt reschedules its entry, or gives up on it for its age.
Unsettled(c) ==
    due' \in {due} \cup (IF c = "outbox" THEN {due \ {room[c]}} ELSE {})

\* Mutant: the store's first answer stands.
AskStore_once(c) ==
    /\ at[c] = "ask"
    /\ at' = [at EXCEPT ![c] = IF room[c] \in knows THEN "send" ELSE "again"]
    /\ tries' = [tries EXCEPT ![c] = IF room[c] \in knows THEN 1 ELSE @]
    /\ UNCHANGED <<server, knows, process, room, report, fair, due, ghosts>>

\* roomEncrypted asks the state store.
AskStore(c) ==
    /\ at[c] = "ask"
    /\ IF room[c] \in knows
       THEN /\ at' = [at EXCEPT ![c] = "send"]
            /\ tries' = [tries EXCEPT ![c] = 1]
       ELSE /\ at' = [at EXCEPT ![c] = "refetch"]
            /\ UNCHANGED tries
    /\ UNCHANGED <<server, knows, process, room, report, fair, due, ghosts>>

\* The store cannot be read.
AskFails(c) ==
    /\ at[c] \in {"ask", "again"}
    /\ Ends(c, FALSE) /\ Unsettled(c)
    /\ UNCHANGED <<server, knows, process, leaked, wronged, missed, sent, ran, backlog>>

\* The store said no: Client.State asks the homeserver and corrects the store.
Refetch(c) ==
    /\ at[c] = "refetch"
    /\ membership[room[c]] = "joined"
    /\ knows' = knows \cup ({room[c]} \cap encrypted)
    /\ at' = [at EXCEPT ![c] = "again"]
    /\ UNCHANGED <<server, process, room, tries, report, fair, due, ghosts>>

Refusal(c) == Ends(c, FALSE) /\ Unsettled(c)

\* The homeserver does not answer, or not to a bot that is not in the room: the
\* store's answer stands.
RefetchFails(c) ==
    /\ at[c] = "refetch"
    /\ Refusal(c)
    /\ UNCHANGED <<server, knows, process, leaked, wronged, missed, sent, ran, backlog>>

AskAgain(c) ==
    /\ at[c] = "again"
    /\ room[c] \in knows
    /\ at' = [at EXCEPT ![c] = "send"]
    /\ tries' = [tries EXCEPT ![c] = 1]
    /\ UNCHANGED <<server, knows, process, room, report, fair, due, ghosts>>

Refuse(c) ==
    /\ at[c] = "again"
    /\ room[c] \notin knows
    /\ Refusal(c)
    /\ wronged' = IF fair[c] THEN wronged \cup {room[c]} ELSE wronged
    /\ UNCHANGED <<server, knows, process, leaked, missed, sent, ran, backlog>>

\* SendMessageEvent encrypts for the rooms the store has as encrypted.
Leak(r) == IF r \in knows /\ r \in encrypted THEN {} ELSE {r}

SendAccepted(c) ==
    /\ at[c] = "send"
    /\ membership[room[c]] = "joined"
    /\ leaked' = leaked \cup Leak(room[c])
    /\ Ends(c, TRUE)
    /\ due' = IF c = "outbox" THEN due \ {room[c]} ELSE due
    /\ UNCHANGED <<server, knows, process, wronged, missed, sent, ran, backlog>>

\* An attempt of retrySend fails, or its reply is lost after the message was
\* accepted; it is repeated up to sendMaxAttempts times.
SendFails(c) ==
    /\ at[c] = "send"
    /\ leaked' \in {leaked} \cup
           (IF membership[room[c]] = "joined" THEN {leaked \cup Leak(room[c])} ELSE {})
    /\ IF tries[c] < SendMaxAttempts
       THEN /\ tries' = [tries EXCEPT ![c] = @ + 1]
            /\ UNCHANGED <<at, room, report, fair, due>>
       ELSE Ends(c, FALSE) /\ Unsettled(c)
    /\ UNCHANGED <<server, knows, process, wronged, missed, sent, ran, backlog>>

-------------------------------------------------------------------------------
\* Time passes, for Healthy.
Tick ==
    /\ life # "down" /\ age <= StaleAfter
    /\ age' = age + 1
    /\ UNCHANGED <<server, knows, life, loop, batch, firstSync, syncErr, calls, due, ghosts>>

\* The answer of /health: there has been a sync, and not too long ago.
Healthy == life = "up" /\ firstSync /\ age <= StaleAfter

-------------------------------------------------------------------------------
World ==
    \/ \E r \in Rooms : Remove(r) \/ Encrypt(r) \/ \E t \in BOOLEAN : Invite(r, t)
    \/ \E c \in Commands, r \in Rooms, k \in Kinds : Post(c, r, k)

Process == Start \/ FirstSynced \/ Verified \/ SyncDied \/ Stop \/ Tick

Loop ==
    \/ Respond \/ SyncDies \/ Handled
    \/ \E e \in batch : \/ StateStoreSyncHandler(e) \/ JoinRoom(e) \/ DeclineInvite(e)
                        \/ InviteFails(e) \/ IgnoreMessage(e) \/ RunCommand(e)

Sends ==
    \/ \E r \in Rooms : Enqueue(r) \/ Attempt(r)
    \/ \E c \in Callers : \/ AskStore(c) \/ AskFails(c) \/ Refetch(c) \/ RefetchFails(c)
                          \/ AskAgain(c) \/ Refuse(c) \/ SendAccepted(c) \/ SendFails(c)

Next == World \/ Process \/ Loop \/ Sends

Spec == Init /\ [][Next]_vars

\* A start does not hang, a received error is acted on, and time passes.  That
\* the homeserver answers, or that a handler of the loop returns, is not assumed.
FairSpec == Spec /\ WF_vars(FirstSynced) /\ WF_vars(Verified) /\ WF_vars(SyncDied)
                 /\ WF_vars(Tick)
-------------------------------------------------------------------------------
(* Invariants *)

TypeOK ==
    /\ membership \in [Rooms -> {"away", "invited", "joined"}]
    /\ encrypted \subseteq Rooms /\ knows \subseteq Rooms
    /\ unseen \subseteq Events /\ batch \subseteq Events
    /\ life \in {"down", "first", "verify", "up"}
    /\ loop \in {"off", "poll", "work", "dead"}
    /\ firstSync \in BOOLEAN /\ syncErr \in BOOLEAN /\ report \in BOOLEAN
    /\ age \in 0..StaleAfter + 1
    /\ at \in [Callers -> {"idle", "ask", "refetch", "again", "send"}]
    /\ room \in [Callers -> Rooms]
    /\ tries \in [Callers -> 0..SendMaxAttempts]
    /\ fair \in [Callers -> BOOLEAN]
    /\ due \subseteq Rooms /\ missed \subseteq Rooms
    /\ leaked \subseteq Rooms /\ wronged \subseteq Rooms
    /\ sent \subseteq Commands /\ backlog \subseteq Commands
    /\ ran \in [Commands -> Nat]

\* The store is never ahead of the homeserver, and a call only goes on with a
\* room the store has; one that asked the homeserver about a joined, encrypted
\* room finds it there.
StoreIsTrue ==
    /\ knows \subseteq encrypted
    /\ \A e \in (unseen \cup batch) \cap Encryptions : e.room \in encrypted
    /\ \A c \in Callers :
           /\ at[c] = "send" => room[c] \in knows
           /\ at[c] = "again" /\ fair[c] => room[c] \in knows
           /\ fair[c] => room[c] \in encrypted

\* A message that is still to be handled has not been run, is not behind the
\* token and in a response at once, and is old if a process started after it.
MessagesOnce ==
    /\ \A e \in (unseen \cup batch) \cap Messages :
           e.id \in sent /\ ran[e.id] = 0 /\ (e.id \in backlog => e.old)
    /\ \A e \in unseen \cap Messages, f \in batch \cap Messages : e.id # f.id
    /\ \A e, f \in unseen \cap Messages : e.id = f.id => e = f
    /\ \A e, f \in batch \cap Messages : e.id = f.id => e = f
    /\ backlog \subseteq sent
    /\ \A c \in Commands : ran[c] > 0 => c \in sent

\* What run knows of its loop: without a process there is nothing of it, and a
\* loop that died has said so.
LifeShape ==
    /\ life = "down" => /\ loop = "off" /\ batch = {}
                        /\ \A c \in Callers : at[c] = "idle"
    /\ life # "down" => loop # "off"
    /\ life \in {"verify", "up"} => firstSync
    /\ loop # "work" => batch = {} /\ at["loop"] = "idle"
    /\ syncErr <=> loop = "dead"

\* An invite that stands is still to be handled, or its handling failed or was
\* cut off: the loop never drops one otherwise (handleMember).
InvitesAnswered ==
    \A r \in Rooms : membership[r] = "invited" =>
        r \in missed \/ \E e \in (unseen \cup batch) \cap Invites : e.room = r

\* No message leaves the bot unencrypted, whatever the store has missed, and no
\* room is refused that was joined and encrypted when the send began, unless the
\* homeserver did not answer (roomEncrypted, SendEdit, sendMarkdown).
EncryptionJudged == leaked = {} /\ wronged = {}

\* A command is run at most once, and none that was waiting when the process
\* started: stops between saving the token and handling, and restarts, replay
\* nothing (handleMessage; "no backfill replay", README.md:217).
CommandsOnce ==
    \A c \in Commands : ran[c] <= 1 /\ (c \in backlog => ran[c] = 0)

\* The inductive invariant: all of the above.
SInv ==
    /\ TypeOK /\ StoreIsTrue /\ MessagesOnce /\ LifeShape /\ InvitesAnswered
    /\ EncryptionJudged /\ CommandsOnce

-------------------------------------------------------------------------------
(* Liveness *)

\* A sync loop that died takes the process with it, whatever the start was doing
\* when it died; and a loop that gets no answer, or is stuck in a handler, turns
\* /health red (syncErr of Start and run, Healthy).
SyncTroubleNoticed ==
    /\ loop = "dead" ~> life = "down"
    /\ []<>(age = 0 \/ ~Healthy)
================================================================================
