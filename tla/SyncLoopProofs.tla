---------------------------- MODULE SyncLoopProofs ----------------------------
(***************************************************************************)
(* Proofs about SyncLoop, for every set of rooms and commands, every number *)
(* of attempts and every staleness threshold.                              *)
(***************************************************************************)
EXTENDS SyncLoop, TLAPS

\* The kinds of events are told apart, and only a message ages.
LEMMA EventKinds ==
  /\ \A e \in Invites : e \notin Messages /\ e \notin Encryptions
  /\ \A e \in Encryptions : e \notin Messages
  /\ \A e \in Events : /\ e.room \in Rooms
                       /\ Aged(e) \in Events /\ Aged(e).room = e.room
                       /\ e \notin Messages => Aged(e) = e
  /\ \A e \in Messages : Aged(e) \in Messages /\ Aged(e).id = e.id /\ Aged(e).old
<1>1. \A e \in Invites : e.type = "invite" /\ e.room \in Rooms
  BY DEF Invites, InviteEvent
<1>2. \A e \in Encryptions : e.type = "encryption" /\ e.room \in Rooms
  BY DEF Encryptions, EncryptionEvent
<1>3. \A e \in Messages : e.type = "message" /\ e.room \in Rooms
  BY DEF Messages
<1>4. \A e \in Messages : Aged(e) \in Messages /\ Aged(e).id = e.id /\ Aged(e).old
                          /\ Aged(e).room = e.room
  BY DEF Messages, Aged
<1>5. \A e : e \notin Messages => Aged(e) = e
  BY DEF Aged
<1> QED
  BY <1>1, <1>2, <1>3, <1>4, <1>5 DEF Events

--------------------------------------------------------------------------------
(* Types. *)

LEMMA InitType == Init => TypeOK
<1> SUFFICES ASSUME Init PROVE TypeOK
  OBVIOUS
<1> USE SyncLoopAssumption DEF Init
<1>1. /\ membership \in [Rooms -> {"away", "invited", "joined"}]
      /\ at \in [Callers -> {"idle", "ask", "refetch", "again", "send"}]
      /\ tries \in [Callers -> 0..SendMaxAttempts]
      /\ fair \in [Callers -> BOOLEAN]
      /\ ran \in [Commands -> Nat]
      /\ age \in 0..StaleAfter + 1
  OBVIOUS
<1>2. /\ room \in [Callers -> Rooms]
      /\ firstSync \in BOOLEAN /\ syncErr \in BOOLEAN /\ report \in BOOLEAN
  OBVIOUS
<1> QED
  BY <1>1, <1>2 DEF TypeOK

LEMMA EndsType ==
  ASSUME TypeOK, NEW c \in Callers, NEW ok \in BOOLEAN, Ends(c, ok)
  PROVE  /\ at' \in [Callers -> {"idle", "ask", "refetch", "again", "send"}]
         /\ fair' \in [Callers -> BOOLEAN]
         /\ tries' \in [Callers -> 0..SendMaxAttempts]
         /\ report' \in BOOLEAN
         /\ room' \in [Callers -> Rooms]
<1>1. AfterCall(c, ok) \in {"idle", "ask"}
  BY DEF AfterCall
<1>2. (AfterCall(c, ok) = "ask" /\ Ready(room[c])) \in BOOLEAN
  BY DEF Ready
<1>3. (report /\ c # "loop") \in BOOLEAN
  OBVIOUS
<1> QED
  BY <1>1, <1>2, <1>3, SyncLoopAssumption DEF Ends, TypeOK

LEMMA UnsettledType ==
  ASSUME TypeOK, NEW c \in Callers, Unsettled(c)
  PROVE  due' \subseteq Rooms
BY DEF Unsettled, TypeOK

LEMMA NextType == ASSUME TypeOK, [Next]_vars PROVE TypeOK'
<1> USE SyncLoopAssumption
<1> USE DEF server, process, calls, ghosts
<1>1. ASSUME NEW r \in Rooms, Remove(r) PROVE TypeOK'
  BY <1>1 DEF Remove, TypeOK
<1>2. ASSUME NEW r \in Rooms, Encrypt(r) PROVE TypeOK'
  BY <1>2 DEF Encrypt, TypeOK, Events, Encryptions
<1>3. ASSUME NEW r \in Rooms, NEW t \in BOOLEAN, Invite(r, t) PROVE TypeOK'
  <2>1. InviteEvent(r, t) \in Events
    BY DEF Events, Invites
  <2> QED
    BY <1>3, <2>1 DEF Invite, TypeOK
<1>4. ASSUME NEW c \in Commands, NEW r \in Rooms, NEW k \in Kinds, Post(c, r, k)
      PROVE  TypeOK'
  <2>1. MessageEvent(c, r, k, FALSE) \in Events
    BY DEF Events, Messages, MessageEvent
  <2> QED
    BY <1>4, <2>1 DEF Post, TypeOK
<1>5. CASE Start
  <2>1. unseen' \subseteq Events
    BY <1>5, EventKinds DEF Start, TypeOK
  <2>2. backlog' \subseteq Commands
    BY <1>5 DEF Start, TypeOK
  <2> QED
    BY <1>5, <2>1, <2>2 DEF Start, TypeOK
<1>6. CASE FirstSynced \/ Verified
  BY <1>6 DEF FirstSynced, Verified, TypeOK
<1>7. CASE Gone
  <2>1. missed' \subseteq Rooms
    BY <1>7, EventKinds DEF Gone, TypeOK
  <2>2. /\ at' \in [Callers -> {"idle", "ask", "refetch", "again", "send"}]
        /\ tries' \in [Callers -> 0..SendMaxAttempts]
        /\ age' \in 0..StaleAfter + 1
    BY <1>7 DEF Gone
  <2>3. /\ fair' \in [Callers -> BOOLEAN]
        /\ firstSync' \in BOOLEAN /\ syncErr' \in BOOLEAN /\ report' \in BOOLEAN
    BY <1>7 DEF Gone
  <2> QED
    BY <1>7, <2>1, <2>2, <2>3 DEF Gone, TypeOK
<1>8. CASE Tick
  BY <1>8 DEF Tick, TypeOK
<1>9. CASE Respond
  BY <1>9 DEF Respond, AfterSave, TypeOK
<1>10. CASE SyncDies \/ Handled
  BY <1>10 DEF SyncDies, Reported, Handled, TypeOK
<1>11. ASSUME NEW e \in batch, StateStoreSyncHandler(e) PROVE TypeOK'
  BY <1>11, EventKinds DEF StateStoreSyncHandler, TypeOK
<1>12. ASSUME NEW e \in batch, JoinRoom(e) PROVE TypeOK'
  <2>1. e.room \in Rooms
    BY EventKinds DEF TypeOK
  <2>2. EncryptionEvent(e.room) \in Events
    BY <2>1 DEF Events, Encryptions
  <2> QED
    BY <1>12, <2>1, <2>2 DEF JoinRoom, TypeOK
<1>13. ASSUME NEW e \in batch, DeclineInvite(e) \/ InviteFails(e) PROVE TypeOK'
  <2>1. e.room \in Rooms
    BY EventKinds DEF TypeOK
  <2> QED
    BY <1>13, <2>1 DEF DeclineInvite, InviteFails, TypeOK
<1>14. ASSUME NEW e \in batch, IgnoreMessage(e) PROVE TypeOK'
  BY <1>14 DEF IgnoreMessage, TypeOK
<1>15. ASSUME NEW e \in batch, RunCommand(e) PROVE TypeOK'
  <2>1. e.room \in Rooms /\ e.id \in Commands
    BY <1>15, EventKinds DEF RunCommand, Messages, TypeOK
  <2>2. ran' \in [Commands -> Nat]
    BY <1>15, <2>1 DEF RunCommand, TypeOK
  <2>3. report' \in BOOLEAN /\ fair' \in [Callers -> BOOLEAN]
    BY <1>15, <2>1 DEF RunCommand, TypeOK, Ready
  <2> QED
    BY <1>15, <2>1, <2>2, <2>3 DEF RunCommand, TypeOK
<1>16. ASSUME NEW r \in Rooms, Enqueue(r) PROVE TypeOK'
  BY <1>16 DEF Enqueue, TypeOK
<1>17. ASSUME NEW r \in Rooms, Attempt(r) PROVE TypeOK'
  <2>1. fair' \in [Callers -> BOOLEAN]
    BY <1>17 DEF Attempt, TypeOK, Ready
  <2> QED
    BY <1>17, <2>1 DEF Attempt, TypeOK
<1>18. ASSUME NEW c \in Callers, AskStore(c) \/ Refetch(c) \/ AskAgain(c) PROVE TypeOK'
  BY <1>18 DEF AskStore, Refetch, AskAgain, TypeOK
<1>19. ASSUME NEW c \in Callers, AskFails(c) \/ RefetchFails(c) PROVE TypeOK'
  BY <1>19, EndsType, UnsettledType DEF AskFails, RefetchFails, Refusal, TypeOK
<1>20. ASSUME NEW c \in Callers, Refuse(c) PROVE TypeOK'
  <2>1. wronged' \subseteq Rooms
    BY <1>20 DEF Refuse, TypeOK
  <2> QED
    BY <1>20, <2>1, EndsType, UnsettledType DEF Refuse, Refusal, TypeOK
<1>21. ASSUME NEW c \in Callers, SendAccepted(c) PROVE TypeOK'
  <2>1. leaked' \subseteq Rooms /\ due' \subseteq Rooms
    BY <1>21 DEF SendAccepted, Leak, TypeOK
  <2> QED
    BY <1>21, <2>1, EndsType DEF SendAccepted, TypeOK
<1>22. ASSUME NEW c \in Callers, SendFails(c) PROVE TypeOK'
  <2>1. leaked' \subseteq Rooms
    BY <1>22 DEF SendFails, Leak, TypeOK
  <2>2. CASE tries[c] < SendMaxAttempts
    BY <1>22, <2>1, <2>2 DEF SendFails, TypeOK
  <2>3. CASE ~(tries[c] < SendMaxAttempts)
    BY <1>22, <2>1, <2>3, EndsType, UnsettledType DEF SendFails, TypeOK
  <2> QED
    BY <2>2, <2>3
<1>23. CASE UNCHANGED vars
  BY <1>23 DEF vars, TypeOK
<1> QED
  BY <1>1, <1>2, <1>3, <1>4, <1>5, <1>6, <1>7, <1>8, <1>9, <1>10, <1>11, <1>12, <1>13,
     <1>14, <1>15, <1>16, <1>17, <1>18, <1>19, <1>20, <1>21, <1>22, <1>23
     DEF Next, World, Process, Loop, Sends, SyncDied, Stop
--------------------------------------------------------------------------------
(* The store and the calls that ask it. *)

LEMMA EndsTrue ==
  ASSUME TypeOK, StoreIsTrue, NEW c \in Callers, NEW ok \in BOOLEAN, Ends(c, ok),
         UNCHANGED <<knows, encrypted>>
  PROVE  \A d \in Callers :
           /\ at'[d] = "send" => room'[d] \in knows'
           /\ at'[d] = "again" /\ fair'[d] => room'[d] \in knows'
           /\ fair'[d] => room'[d] \in encrypted'
<1>1. at'[c] \in {"idle", "ask"} /\ (fair'[c] => room[c] \in encrypted)
  BY DEF Ends, AfterCall, Ready, TypeOK
<1>2. \A d \in Callers \ {c} : at'[d] = at[d] /\ fair'[d] = fair[d]
  BY DEF Ends, TypeOK
<1>3. room' = room
  BY DEF Ends
<1> QED
  BY <1>1, <1>2, <1>3 DEF StoreIsTrue

LEMMA NextStore == ASSUME TypeOK, StoreIsTrue, [Next]_vars PROVE StoreIsTrue'
<1> USE DEF server, process, calls, ghosts
<1>1. ASSUME NEW r \in Rooms, Remove(r) \/ Encrypt(r) PROVE StoreIsTrue'
  BY <1>1, EventKinds DEF Remove, Encrypt, StoreIsTrue, Encryptions, EncryptionEvent
<1>2. ASSUME NEW r \in Rooms, NEW t \in BOOLEAN, Invite(r, t) PROVE StoreIsTrue'
  <2>1. InviteEvent(r, t) \notin Encryptions
    BY EventKinds DEF Invites
  <2> QED
    BY <1>2, <2>1 DEF Invite, StoreIsTrue
<1>3. ASSUME NEW c \in Commands, NEW r \in Rooms, NEW k \in Kinds, Post(c, r, k)
      PROVE  StoreIsTrue'
  <2>1. MessageEvent(c, r, k, FALSE) \notin Encryptions
    BY EventKinds DEF Messages, MessageEvent
  <2> QED
    BY <1>3, <2>1 DEF Post, StoreIsTrue
<1>4. CASE Start
  <2>1. unseen' \cap Encryptions \subseteq unseen
    BY <1>4, EventKinds DEF Start, TypeOK, Aged
  <2> QED
    BY <1>4, <2>1 DEF Start, StoreIsTrue
<1>5. CASE FirstSynced \/ Verified \/ Tick \/ SyncDies \/ Handled
  BY <1>5 DEF FirstSynced, Verified, Tick, SyncDies, Handled, StoreIsTrue
<1>6. CASE Gone
  BY <1>6 DEF Gone, StoreIsTrue
<1>7. CASE Respond
  BY <1>7 DEF Respond, AfterSave, StoreIsTrue
<1>8. ASSUME NEW e \in batch, StateStoreSyncHandler(e) PROVE StoreIsTrue'
  BY <1>8 DEF StateStoreSyncHandler, StoreIsTrue
<1>9. ASSUME NEW e \in batch, JoinRoom(e) PROVE StoreIsTrue'
  <2>1. e.room \in Rooms
    BY EventKinds DEF TypeOK
  <2>2. EncryptionEvent(e.room).room = e.room
    BY DEF EncryptionEvent
  <2> QED
    BY <1>9, <2>1, <2>2 DEF JoinRoom, StoreIsTrue
<1>10. ASSUME NEW e \in batch, DeclineInvite(e) \/ InviteFails(e) \/ IgnoreMessage(e)
       PROVE  StoreIsTrue'
  BY <1>10 DEF DeclineInvite, InviteFails, IgnoreMessage, StoreIsTrue
<1>11. ASSUME NEW e \in batch, RunCommand(e) PROVE StoreIsTrue'
  <2>1. at'["loop"] = "ask" /\ (fair'["loop"] => room'["loop"] \in encrypted)
    BY <1>11 DEF RunCommand, Ready, TypeOK, Callers
  <2>2. \A d \in Callers \ {"loop"} :
          at'[d] = at[d] /\ fair'[d] = fair[d] /\ room'[d] = room[d]
    BY <1>11 DEF RunCommand, TypeOK
  <2> QED
    BY <1>11, <2>1, <2>2 DEF RunCommand, StoreIsTrue
<1>12. ASSUME NEW r \in Rooms, Enqueue(r) PROVE StoreIsTrue'
  BY <1>12 DEF Enqueue, StoreIsTrue
<1>13. ASSUME NEW r \in Rooms, Attempt(r) PROVE StoreIsTrue'
  <2>1. at'["outbox"] = "ask" /\ (fair'["outbox"] => room'["outbox"] \in encrypted)
    BY <1>13 DEF Attempt, Ready, TypeOK, Callers
  <2>2. \A d \in Callers \ {"outbox"} :
          at'[d] = at[d] /\ fair'[d] = fair[d] /\ room'[d] = room[d]
    BY <1>13 DEF Attempt, TypeOK
  <2> QED
    BY <1>13, <2>1, <2>2 DEF Attempt, StoreIsTrue
<1>14. ASSUME NEW c \in Callers, AskStore(c) \/ AskAgain(c) PROVE StoreIsTrue'
  BY <1>14 DEF AskStore, AskAgain, StoreIsTrue, TypeOK
<1>15. ASSUME NEW c \in Callers, Refetch(c) PROVE StoreIsTrue'
  BY <1>15 DEF Refetch, StoreIsTrue, TypeOK
<1>16. ASSUME NEW c \in Callers,
              AskFails(c) \/ RefetchFails(c) \/ Refuse(c) \/ SendAccepted(c)
       PROVE  StoreIsTrue'
  BY <1>16, EndsTrue
     DEF AskFails, RefetchFails, Refusal, Refuse, SendAccepted, StoreIsTrue
<1>17. ASSUME NEW c \in Callers, SendFails(c) PROVE StoreIsTrue'
  <2>1. CASE tries[c] < SendMaxAttempts
    BY <1>17, <2>1 DEF SendFails, StoreIsTrue
  <2>2. CASE ~(tries[c] < SendMaxAttempts)
    BY <1>17, <2>2, EndsTrue DEF SendFails, StoreIsTrue
  <2> QED
    BY <2>1, <2>2
<1>18. CASE UNCHANGED vars
  BY <1>18 DEF vars, StoreIsTrue
<1> QED
  BY <1>1, <1>2, <1>3, <1>4, <1>5, <1>6, <1>7, <1>8, <1>9, <1>10, <1>11, <1>12, <1>13,
     <1>14, <1>15, <1>16, <1>17, <1>18
     DEF Next, World, Process, Loop, Sends, SyncDied, Stop

\* No message goes out unencrypted, and a ready room is only refused when the
\* homeserver does not answer.
LEMMA NextJudged ==
  ASSUME TypeOK, StoreIsTrue, EncryptionJudged, [Next]_vars
  PROVE  EncryptionJudged'
<1> USE DEF server, process, calls, ghosts
<1>1. ASSUME NEW c \in Callers, SendAccepted(c) \/ SendFails(c) PROVE EncryptionJudged'
  <2>1. Leak(room[c]) = {}
    BY <1>1 DEF SendAccepted, SendFails, StoreIsTrue, Leak
  <2> QED
    BY <1>1, <2>1 DEF SendAccepted, SendFails, EncryptionJudged
<1>2. ASSUME NEW c \in Callers, Refuse(c) PROVE EncryptionJudged'
  <2>1. ~fair[c]
    BY <1>2 DEF Refuse, StoreIsTrue
  <2> QED
    BY <1>2, <2>1 DEF Refuse, EncryptionJudged
<1>3. ASSUME UNCHANGED <<leaked, wronged>> PROVE EncryptionJudged'
  BY <1>3 DEF EncryptionJudged
<1>4. ASSUME World \/ Process \/ Loop PROVE UNCHANGED <<leaked, wronged>>
  BY <1>4 DEF World, Remove, Encrypt, Invite, Post,
     Process, Start, FirstSynced, Verified, SyncDied, Stop, Gone, Tick,
     Loop, Respond, SyncDies, Handled, StateStoreSyncHandler, JoinRoom, DeclineInvite,
     InviteFails, IgnoreMessage, RunCommand
<1>5. ASSUME Sends, \A c \in Callers : ~(SendAccepted(c) \/ SendFails(c) \/ Refuse(c))
      PROVE  UNCHANGED <<leaked, wronged>>
  BY <1>5 DEF Sends, Enqueue, Attempt, AskStore, AskFails, Refetch, RefetchFails, AskAgain
<1> QED
  BY <1>1, <1>2, <1>3, <1>4, <1>5 DEF Next, vars
--------------------------------------------------------------------------------
(* Commands. *)

\* What a step may do to the messages that are still to be handled, as long as it
\* runs none and no process starts.
Handover ==
  /\ unseen' \cap Messages \subseteq unseen
  /\ batch' \cap Messages \subseteq batch
  /\ UNCHANGED <<sent, ran, backlog>>

LEMMA HandoverKeeps ==
  ASSUME MessagesOnce, CommandsOnce, Handover
  PROVE  MessagesOnce' /\ CommandsOnce'
BY DEF MessagesOnce, CommandsOnce, Handover

LEMMA NextCommands ==
  ASSUME TypeOK, MessagesOnce, CommandsOnce, LifeShape, [Next]_vars
  PROVE  MessagesOnce' /\ CommandsOnce'
<1> USE DEF server, process, calls, ghosts
<1>1. CASE Sends
  BY <1>1, HandoverKeeps DEF Handover, Sends, Enqueue, Attempt, AskStore, AskFails, Refetch,
     RefetchFails, AskAgain, Refuse, SendAccepted, SendFails
<1>2. ASSUME NEW r \in Rooms, Remove(r) PROVE Handover
  BY <1>2 DEF Handover, Remove
<1>3. ASSUME NEW r \in Rooms, Encrypt(r) PROVE Handover
  <2>1. EncryptionEvent(r) \notin Messages
    BY EventKinds DEF Encryptions
  <2> QED
    BY <1>3, <2>1 DEF Handover, Encrypt
<1>4. ASSUME NEW r \in Rooms, NEW t \in BOOLEAN, Invite(r, t) PROVE Handover
  <2>1. InviteEvent(r, t) \notin Messages
    BY EventKinds DEF Invites
  <2> QED
    BY <1>4, <2>1 DEF Handover, Invite
<1>5. ASSUME NEW c \in Commands, NEW r \in Rooms, NEW k \in Kinds, Post(c, r, k)
      PROVE  MessagesOnce' /\ CommandsOnce'
  <2> DEFINE new == MessageEvent(c, r, k, FALSE)
  <2>1. new.id = c
    BY DEF MessageEvent
  <2>2. \A e \in (unseen \cup batch) \cap Messages : e.id # c
    BY <1>5 DEF Post, MessagesOnce
  <2>3. ran[c] = 0 /\ c \notin backlog
    BY <1>5 DEF Post, MessagesOnce, TypeOK
  <2> HIDE DEF new
  <2>4. /\ unseen' = unseen \cup {new} /\ sent' = sent \cup {c}
        /\ UNCHANGED <<batch, ran, backlog>>
    BY <1>5 DEF Post, new
  <2> QED
    BY <2>1, <2>2, <2>3, <2>4 DEF MessagesOnce, CommandsOnce
<1>6. CASE Start
  <2>1. batch = {} /\ batch' = {} /\ UNCHANGED <<sent, ran>>
    BY <1>6 DEF Start, LifeShape
  <2>2. \A e \in unseen' \cap Messages :
          \E f \in unseen \cap Messages : e = Aged(f) /\ e.id = f.id /\ e.old
    <3> TAKE e \in unseen' \cap Messages
    <3>1. PICK f \in unseen : e = Aged(f)
      BY <1>6 DEF Start
    <3>2. f \in Messages
      BY <3>1, EventKinds DEF TypeOK
    <3> QED
      BY <3>1, <3>2, EventKinds
  <2>3. /\ \A e \in unseen' \cap Messages : e.id \in sent /\ ran[e.id] = 0 /\ e.old
        /\ \A e, f \in unseen' \cap Messages : e.id = f.id => e = f
    BY <2>2 DEF MessagesOnce
  <2>4. backlog' \subseteq sent /\ \A c \in backlog' : c \in backlog \/ ran[c] = 0
    BY <1>6 DEF Start, MessagesOnce
  <2> QED
    BY <2>1, <2>3, <2>4 DEF MessagesOnce, CommandsOnce
<1>7. CASE FirstSynced \/ Verified \/ Tick \/ SyncDies \/ Handled
  BY <1>7, HandoverKeeps DEF Handover, FirstSynced, Verified, Tick, SyncDies, Handled
<1>8. CASE Gone
  BY <1>8, HandoverKeeps DEF Handover, Gone
<1>9. CASE Respond
  BY <1>9 DEF Respond, AfterSave, MessagesOnce, CommandsOnce
<1>10. ASSUME NEW e \in batch,
              StateStoreSyncHandler(e) \/ DeclineInvite(e) \/ InviteFails(e) \/ IgnoreMessage(e)
       PROVE  Handover
  BY <1>10 DEF Handover, StateStoreSyncHandler, DeclineInvite, InviteFails, IgnoreMessage
<1>11. ASSUME NEW e \in batch, JoinRoom(e) PROVE Handover
  <2>1. EncryptionEvent(e.room) \notin Messages
    BY EventKinds DEF Encryptions, TypeOK
  <2> QED
    BY <1>11, <2>1 DEF Handover, JoinRoom
<1>12. ASSUME NEW e \in batch, RunCommand(e) PROVE MessagesOnce' /\ CommandsOnce'
  <2>1. e \in batch \cap Messages /\ e.id \in Commands /\ ~e.old
    BY <1>12 DEF RunCommand, Addressed, Messages
  <2>2. e.id \in sent /\ ran[e.id] = 0 /\ e.id \notin backlog
    BY <2>1 DEF MessagesOnce
  <2>3. \A f \in (unseen \cup (batch \ {e})) \cap Messages : f.id # e.id
    BY <2>1 DEF MessagesOnce
  <2>4. /\ ran'[e.id] = 1
        /\ \A c \in Commands \ {e.id} : ran'[c] = ran[c]
        /\ batch' = batch \ {e}
        /\ UNCHANGED <<unseen, sent, backlog>>
    BY <1>12, <2>1, <2>2 DEF RunCommand, TypeOK
  <2>5. \A f \in (unseen \cup batch') \cap Messages : f.id \in Commands /\ ran'[f.id] = 0
    BY <2>3, <2>4 DEF MessagesOnce, Messages
  <2>6. MessagesOnce'
    BY <2>2, <2>4, <2>5 DEF MessagesOnce
  <2>7. CommandsOnce'
    BY <2>2, <2>4 DEF CommandsOnce
  <2> QED
    BY <2>6, <2>7
<1>13. CASE UNCHANGED vars
  BY <1>13, HandoverKeeps DEF Handover, vars
<1> QED
  BY <1>1, <1>2, <1>3, <1>4, <1>5, <1>6, <1>7, <1>8, <1>9, <1>10, <1>11, <1>12, <1>13,
     HandoverKeeps DEF Next, World, Process, Loop, SyncDied, Stop

--------------------------------------------------------------------------------
(* The process and the invites. *)

LEMMA NextLife == ASSUME TypeOK, LifeShape, [Next]_vars PROVE LifeShape'
<1> USE DEF server, process, calls, ghosts
<1>1. CASE World
  <2>1. UNCHANGED <<process, calls>>
    BY <1>1 DEF World, Remove, Encrypt, Invite, Post
  <2> QED
    BY <2>1 DEF LifeShape
<1>2. CASE Start \/ FirstSynced \/ Verified \/ Tick
  BY <1>2 DEF Start, FirstSynced, Verified, Tick, LifeShape, Callers
<1>3. CASE Gone
  BY <1>3 DEF Gone, LifeShape, Callers
<1>4. CASE Respond \/ SyncDies \/ Handled
  BY <1>4 DEF Respond, SyncDies, Reported, Handled, Free, LifeShape
<1>5. ASSUME NEW e \in batch,
             \/ StateStoreSyncHandler(e) \/ JoinRoom(e) \/ DeclineInvite(e)
             \/ InviteFails(e) \/ IgnoreMessage(e) \/ RunCommand(e)
      PROVE  LifeShape'
  BY <1>5 DEF StateStoreSyncHandler, JoinRoom, DeclineInvite, InviteFails, IgnoreMessage,
     RunCommand, Free, LifeShape
<1>6. ASSUME NEW c \in Callers, NEW x, life # "down", at[c] # "idle" \/ c = "outbox",
             at' = [at EXCEPT ![c] = x], UNCHANGED process
      PROVE  LifeShape'
  BY <1>6 DEF LifeShape, TypeOK, Callers
<1>7. ASSUME NEW r \in Rooms, Enqueue(r) \/ Attempt(r) PROVE LifeShape'
  BY <1>6, <1>7 DEF Enqueue, Attempt, LifeShape, Callers
<1>8. ASSUME NEW c \in Callers,
             \/ AskStore(c) \/ AskFails(c) \/ Refetch(c) \/ RefetchFails(c)
             \/ AskAgain(c) \/ Refuse(c) \/ SendAccepted(c) \/ SendFails(c)
      PROVE  LifeShape'
  <2>1. at[c] # "idle" /\ life # "down" /\ UNCHANGED process
    BY <1>8 DEF AskStore, AskFails, Refetch, RefetchFails, AskAgain, Refuse, SendAccepted,
       SendFails, LifeShape
  <2>2. (\E x : at' = [at EXCEPT ![c] = x]) \/ at' = at
    BY <1>8 DEF AskStore, AskFails, Refetch, RefetchFails, AskAgain, Refuse, SendAccepted,
       SendFails, Refusal, Ends
  <2> QED
    BY <1>6, <2>1, <2>2 DEF LifeShape
<1>9. CASE UNCHANGED vars
  BY <1>9 DEF vars, LifeShape
<1> QED
  BY <1>1, <1>2, <1>3, <1>4, <1>5, <1>7, <1>8, <1>9
     DEF Next, Process, Loop, Sends, SyncDied, Stop

LEMMA NextInvites ==
  ASSUME TypeOK, LifeShape, InvitesAnswered, [Next]_vars
  PROVE  InvitesAnswered'
<1> USE DEF server, process, calls, ghosts
<1>1. CASE Sends
  BY <1>1 DEF Sends, Enqueue, Attempt, AskStore, AskFails, Refetch, RefetchFails, AskAgain,
     Refuse, SendAccepted, SendFails, InvitesAnswered
<1>2. ASSUME NEW r \in Rooms, Remove(r) PROVE InvitesAnswered'
  BY <1>2 DEF Remove, InvitesAnswered, TypeOK
<1>3. ASSUME NEW r \in Rooms, Encrypt(r) PROVE InvitesAnswered'
  BY <1>3 DEF Encrypt, InvitesAnswered
<1>4. ASSUME NEW r \in Rooms, NEW t \in BOOLEAN, Invite(r, t) PROVE InvitesAnswered'
  <2>1. /\ InviteEvent(r, t) \in Invites /\ InviteEvent(r, t).room = r
        /\ InviteEvent(r, ~t).room = r
    BY DEF Invites, InviteEvent
  <2>2. \A q \in Rooms \ {r} : membership'[q] = membership[q]
    BY <1>4 DEF Invite, TypeOK
  <2>3. \A e \in unseen : e.room # r => e \in unseen'
    BY <1>4, <2>1 DEF Invite
  <2>4. InviteEvent(r, t) \in unseen'
    BY <1>4 DEF Invite
  <2> QED
    BY <1>4, <2>1, <2>2, <2>3, <2>4 DEF Invite, InvitesAnswered
<1>5. ASSUME NEW c \in Commands, NEW r \in Rooms, NEW k \in Kinds, Post(c, r, k)
      PROVE  InvitesAnswered'
  BY <1>5 DEF Post, InvitesAnswered
<1>6. CASE Start
  <2>1. \A e \in Invites \cap unseen : e \in unseen'
    BY <1>6, EventKinds DEF Start, TypeOK, Events
  <2> QED
    BY <1>6, <2>1 DEF Start, InvitesAnswered
<1>7. CASE FirstSynced \/ Verified \/ Tick \/ SyncDies \/ Handled
  BY <1>7 DEF FirstSynced, Verified, Tick, SyncDies, Handled, InvitesAnswered
<1>8. CASE Gone
  BY <1>8 DEF Gone, Invited, InvitesAnswered
<1>9. CASE Respond
  BY <1>9 DEF Respond, AfterSave, LifeShape, InvitesAnswered
<1>10. ASSUME NEW e \in batch, StateStoreSyncHandler(e) \/ IgnoreMessage(e) \/ RunCommand(e)
       PROVE  InvitesAnswered'
  <2>1. e \notin Invites
    BY <1>10, EventKinds DEF StateStoreSyncHandler, IgnoreMessage, RunCommand
  <2> QED
    BY <1>10, <2>1 DEF StateStoreSyncHandler, IgnoreMessage, RunCommand, InvitesAnswered
<1>11. ASSUME NEW e \in batch, JoinRoom(e) \/ DeclineInvite(e) PROVE InvitesAnswered'
  <2>1. e.room \in Rooms
    BY EventKinds DEF TypeOK
  <2>2. /\ membership'[e.room] # "invited"
        /\ \A q \in Rooms \ {e.room} : membership'[q] = membership[q]
        /\ missed' = missed \ {e.room} /\ unseen \subseteq unseen' /\ batch' = batch \ {e}
    BY <1>11, <2>1 DEF JoinRoom, DeclineInvite, TypeOK
  <2> QED
    BY <2>2 DEF InvitesAnswered
<1>12. ASSUME NEW e \in batch, InviteFails(e) PROVE InvitesAnswered'
  BY <1>12 DEF InviteFails, Invited, InvitesAnswered
<1>13. CASE UNCHANGED vars
  BY <1>13 DEF vars, InvitesAnswered
<1> QED
  BY <1>1, <1>2, <1>3, <1>4, <1>5, <1>6, <1>7, <1>8, <1>9, <1>10, <1>11, <1>12, <1>13
     DEF Next, World, Process, Loop, SyncDied, Stop

--------------------------------------------------------------------------------
LEMMA InitHolds == Init => SInv
<1> SUFFICES ASSUME Init PROVE SInv
  OBVIOUS
<1>1. TypeOK
  BY InitType
<1>2. StoreIsTrue
  BY DEF Init, StoreIsTrue
<1>3. MessagesOnce
  BY DEF Init, MessagesOnce
<1>4. LifeShape
  <2>1. /\ life = "down" /\ loop = "off" /\ batch = {} /\ ~syncErr
        /\ \A c \in Callers : at[c] = "idle"
    BY DEF Init
  <2> QED
    BY <2>1 DEF LifeShape, Callers
<1>5. InvitesAnswered
  BY DEF Init, InvitesAnswered
<1>6. EncryptionJudged
  BY DEF Init, EncryptionJudged
<1>7. CommandsOnce
  <2>1. \A c \in Commands : ran[c] = 0 /\ c \notin backlog
    BY DEF Init
  <2> QED
    BY <2>1 DEF CommandsOnce
<1> QED
  BY <1>1, <1>2, <1>3, <1>4, <1>5, <1>6, <1>7 DEF SInv

LEMMA StepHolds == SInv /\ [Next]_vars => SInv'
BY NextType, NextStore, NextJudged, NextCommands, NextLife, NextInvites DEF SInv

\* The invariant of the sync loop: types, what the state store and the calls that
\* ask it know, which messages are still to be handled, how the process and its
\* loop hang together, and that an invite is not dropped silently.
THEOREM SyncInvariant == Spec => []SInv
BY InitHolds, StepHolds, PTL DEF Spec

\* No message leaves unencrypted and no ready room is refused while the homeserver
\* answers, whatever the state store missed (roomEncrypted).
THEOREM EncryptionIsJudged == Spec => []EncryptionJudged
<1>1. SInv => EncryptionJudged
  BY DEF SInv
<1> QED
  BY <1>1, SyncInvariant, PTL

\* A command is run at most once and never from the backlog of a restart
\* (handleMessage).
THEOREM CommandsRunOnce == Spec => []CommandsOnce
<1>1. SInv => CommandsOnce
  BY DEF SInv
<1> QED
  BY <1>1, SyncInvariant, PTL
================================================================================
