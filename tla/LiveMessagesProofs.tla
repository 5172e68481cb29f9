-------------------------- MODULE LiveMessagesProofs --------------------------
(***************************************************************************)
(* What holds of module LiveMessages for every set of alerts and rooms and *)
(* every number of notifications, messages and disturbances.               *)
(***************************************************************************)
EXTENDS LiveMessages, TLAPS

\* There is a room.
LEMMA AnyRoomType == AnyRoom \in Rooms
  BY LiveAssumption DEF AnyRoom

\* A target is a message the entry may be edited into.
LEMMA TargetIsEditable ==
  ASSUME NEW i \in Ids, editTarget(i) # None
  PROVE  editTarget(i) \in Messages /\ EditableAt(i, editTarget(i))
  BY DEF editTarget

\* The message that appears next is not there yet.
LEMMA NextIsNew == ASSUME NEW m \in Messages, NextMessage(m) PROVE kind[m] = "none"
  BY DEF NextMessage, Messages

\* The delivery starts in its types.
LEMMA InitType == Init => TypeOK
  BY AnyRoomType, LiveAssumption DEF Init, TypeOK, Entries

\* Every step of the delivery keeps the types.
LEMMA NextType == ASSUME TypeOK, AttemptShape, [Next]_vars PROVE TypeOK'
<1> USE DEF TypeOK
<1>1. ASSUME NEW i \in Ids, NEW e \in Entries, Enqueue(i, e) PROVE TypeOK'
  BY <1>1 DEF Enqueue, attempt, rooms, history
<1>2. ASSUME NEW i \in Ids, RequeueOutbox(i) PROVE TypeOK'
  BY <1>2 DEF RequeueOutbox, attempt, rooms, history
<1>3. ASSUME NEW i \in Ids, Begin(i) PROVE TypeOK'
  BY <1>3, TargetIsEditable DEF Begin, table, rooms, history
<1>4. ASSUME NEW i \in Ids, BeginUnread(i) PROVE TypeOK'
  BY <1>4, LiveAssumption DEF BeginUnread, Disturb, table, rooms, history
<1>5. CASE SendEdit
  BY <1>5 DEF SendEdit, MapAfterEdit, AttemptShape
<1>6. CASE SendEditFails
  BY <1>6, LiveAssumption DEF SendEditFails, Disturb, AttemptShape, table, history
<1>7. ASSUME NEW m \in Messages, SendWithImage(m) \/ Send(m) PROVE TypeOK'
  BY <1>7 DEF SendWithImage, Send, Appear, table
<1>8. ASSUME NEW m \in Messages, SendAgain(m) PROVE TypeOK'
  BY <1>8, LiveAssumption DEF SendAgain, AppearUnmapped, Disturb, Appear, table, attempt
<1>9. ASSUME NEW m \in Messages, PruneAlertMessages(m) PROVE TypeOK'
  BY <1>9 DEF PruneAlertMessages, attempt, rooms
<1>10. CASE SendFails
  BY <1>10, LiveAssumption DEF SendFails, AppearUnmapped, Disturb, Appear, Return, rooms, history
<1>11. CASE RecordAlertMessages
  BY <1>11 DEF RecordAlertMessages, rooms, history
<1>12. CASE RecordFails
  BY <1>12, LiveAssumption DEF RecordFails, AttemptShape, Disturb, table, rooms
<1>13. CASE MarkOutboxDelivered
  BY <1>13 DEF MarkOutboxDelivered, Return, rooms, history
<1>14. CASE Interrupted
  BY <1>14, LiveAssumption DEF Interrupted, AttemptShape, Disturb, Return, table, rooms
<1>15. CASE UNCHANGED vars
  BY <1>15 DEF vars, table, attempt, rooms, history
<1> QED
  BY <1>1, <1>2, <1>3, <1>4, <1>5, <1>6, <1>7, <1>8, <1>9, <1>10, <1>11, <1>12, <1>13,
     <1>14, <1>15 DEF Next

--------------------------------------------------------------------------------
(* The attempt at hand. *)

\* There is no attempt at the start.
LEMMA InitAttempt == Init => AttemptShape
  BY DEF Init, AttemptShape

\* Between the lookup of a target and the edit nothing touches the mappings,
\* and a new notification is none that is being delivered.
LEMMA NextAttempt == ASSUME TypeOK, AttemptShape, [Next]_vars PROVE AttemptShape'
<1> USE DEF AttemptShape, Exists
<1>1. ASSUME NEW i \in Ids, NEW e \in Entries, Enqueue(i, e) PROVE AttemptShape'
  <2>1. cur # None => i # cur
    BY <1>1 DEF Enqueue
  <2>2. cur # None => entry'[cur] = entry[cur]
    BY <1>1, <2>1 DEF TypeOK, Enqueue
  <2>3. pc = "edit" => EditableAt(cur, target)'
    BY <1>1, <2>2 DEF Enqueue, attempt, EditableAt, Known, Mapped
  <2> QED BY <1>1, <2>1, <2>3 DEF TypeOK, Enqueue, attempt, rooms
<1>2. ASSUME NEW i \in Ids, RequeueOutbox(i) PROVE AttemptShape'
  BY <1>2 DEF TypeOK, RequeueOutbox, attempt, rooms, EditableAt, Known, Mapped
<1>3. ASSUME NEW i \in Ids, Begin(i) PROVE AttemptShape'
  <2>1. CASE editTarget(i) = None
    BY <1>3, <2>1 DEF Begin, table, rooms, Ids, None
  <2>2. CASE editTarget(i) # None
    <3>1. EditableAt(i, editTarget(i))
      BY <2>2, TargetIsEditable
    <3>2. EditableAt(cur, target)'
      BY <1>3, <3>1 DEF Begin, table, EditableAt, Known, Mapped
    <3> QED BY <1>3, <2>2, <3>2 DEF Begin, table, rooms, Ids, None
  <2> QED BY <2>1, <2>2
<1>4. ASSUME NEW i \in Ids, BeginUnread(i) PROVE AttemptShape'
  BY <1>4 DEF BeginUnread, table, rooms, Ids, None
<1>5. CASE SendEdit \/ SendEditFails \/ RecordAlertMessages \/ RecordFails
  <2>1. pc' \in {"mark", "post"} /\ pc # "idle" /\ cur' = cur /\ status' = status
    BY <1>5 DEF SendEdit, SendEditFails, RecordAlertMessages, RecordFails, table
  <2>2. /\ pc' # "idle" /\ pc' # "edit" /\ pc' # "record"
        /\ cur' # None /\ status'[cur'] = "pending"
    BY <2>1
  <2> QED BY <2>2
<1>6. ASSUME NEW m \in Messages, Send(m) PROVE AttemptShape'
  BY <1>6 DEF TypeOK, Send, Appear, NextMessage, Exists, table, Messages, None
<1>7. ASSUME NEW m \in Messages, SendWithImage(m) PROVE AttemptShape'
  BY <1>7 DEF SendWithImage, table
<1>8. ASSUME NEW m \in Messages, SendAgain(m) PROVE AttemptShape'
  BY <1>8 DEF SendAgain, table, attempt
<1>9. ASSUME NEW m \in Messages, PruneAlertMessages(m) PROVE AttemptShape'
  BY <1>9 DEF PruneAlertMessages, attempt, rooms
<1>10. CASE SendFails \/ MarkOutboxDelivered \/ Interrupted
  BY <1>10 DEF SendFails, MarkOutboxDelivered, Interrupted, Return
<1>11. CASE UNCHANGED vars
  BY <1>11 DEF vars, table, attempt, rooms, EditableAt, Known, Mapped
<1> QED
  BY <1>1, <1>2, <1>3, <1>4, <1>5, <1>6, <1>7, <1>8, <1>9, <1>10, <1>11 DEF Next

--------------------------------------------------------------------------------
(* Repeated edits. *)

\* Nothing was edited at the start.
LEMMA InitReedits == Init => ReeditsStand
  BY DEF Init, ReeditsStand

\* A notification that is there keeps what it asks for, and with the mappings of
\* its room unchanged, what it may be edited into.
LEMMA EditableKept ==
  ASSUME NEW i, NEW m, entry'[i] = entry[i], UNCHANGED map, EditableAt(i, m)
  PROVE  EditableAt(i, m)'
  BY DEF EditableAt, Known, Mapped

\* A step that settles nothing by an edit and changes no mapping.
LEMMA ReeditsStutter ==
  ASSUME TypeOK, ReeditsStand, UNCHANGED map, reedits' \in {reedits, {}},
         \A j \in Ids : status[j] # "unused" => entry'[j] = entry[j] /\ status'[j] # "unused",
         pc' = "record" => reedits' = {}
  PROVE  ReeditsStand'
<1> SUFFICES ASSUME NEW p \in reedits'
             PROVE  status'[p[1]] # "unused" /\ EditableAt(p[1], p[2])'
  BY DEF ReeditsStand
<1>1. p \in reedits /\ p[1] \in Ids
  BY DEF TypeOK
<1>2. status[p[1]] # "unused" /\ EditableAt(p[1], p[2])
  BY <1>1 DEF ReeditsStand
<1> QED BY <1>1, <1>2, EditableKept

\* Every step keeps the repeats true: a mapping changes only after a post or by the
\* pruning, and either ends what was waiting to be repeated.
LEMMA NextReedits ==
  ASSUME TypeOK, AttemptShape, ReeditsStand, [Next]_vars
  PROVE  ReeditsStand'
<1>1. ASSUME NEW i \in Ids, NEW e \in Entries, Enqueue(i, e) PROVE ReeditsStand'
  <2>1. \A j \in Ids : status[j] # "unused" => entry'[j] = entry[j] /\ status'[j] # "unused"
    BY <1>1 DEF TypeOK, Enqueue
  <2> QED BY <1>1, <2>1, ReeditsStutter DEF Enqueue, attempt, ReeditsStand, history
<1>2. ASSUME NEW i \in Ids, RequeueOutbox(i) PROVE ReeditsStand'
  BY <1>2, ReeditsStutter DEF TypeOK, RequeueOutbox, attempt, ReeditsStand, history
<1>3. ASSUME NEW i \in Ids, Begin(i) \/ BeginUnread(i) PROVE ReeditsStand'
  BY <1>3, ReeditsStutter DEF Begin, BeginUnread, table, history
<1>4. CASE SendEdit
  <2>1. cur \in Ids /\ status[cur] # "unused" /\ EditableAt(cur, target)
    BY <1>4 DEF TypeOK, AttemptShape, SendEdit
  <2>2. ASSUME NEW p \in reedits' PROVE status'[p[1]] # "unused" /\ EditableAt(p[1], p[2])'
    <3>1. status[p[1]] # "unused" /\ EditableAt(p[1], p[2])
      BY <1>4, <2>1 DEF SendEdit, ReeditsStand
    <3> QED BY <1>4, <3>1, EditableKept DEF SendEdit, MapAfterEdit
  <2> QED BY <1>4, <2>2 DEF SendEdit, ReeditsStand
<1>5. ASSUME NEW m \in Messages, SendWithImage(m) \/ Send(m) \/ SendAgain(m) PROVE ReeditsStand'
  BY <1>5 DEF SendWithImage, Send, SendAgain, AppearUnmapped, Appear, ReeditsStand
<1>6. CASE SendEditFails
  BY <1>6, ReeditsStutter DEF SendEditFails, table, history
<1>7. CASE SendFails
  <2>1. /\ UNCHANGED <<entry, map>>
        /\ reedits' \in {reedits, {}}
        /\ pc' = "idle"
    BY <1>7 DEF SendFails, AppearUnmapped, Appear, Return, history
  <2>2. \A j \in Ids : status[j] # "unused" => status'[j] # "unused"
    BY <1>7 DEF TypeOK, SendFails
  <2> QED BY <2>1, <2>2, ReeditsStutter
<1>8. CASE RecordAlertMessages
  BY <1>8 DEF RecordAlertMessages, ReeditsStand, history
<1>9. CASE RecordFails \/ Interrupted
  BY <1>9, ReeditsStutter DEF RecordFails, Interrupted, Return, table
<1>10. CASE MarkOutboxDelivered
  BY <1>10, ReeditsStutter DEF TypeOK, MarkOutboxDelivered, Return, history
<1>11. ASSUME NEW m \in Messages, PruneAlertMessages(m) PROVE ReeditsStand'
  BY <1>11 DEF PruneAlertMessages, ReeditsStand
<1>12. CASE UNCHANGED vars
  BY <1>12, ReeditsStutter DEF vars, table, attempt, history, ReeditsStand
<1> QED
  BY <1>1, <1>2, <1>3, <1>4, <1>5, <1>6, <1>7, <1>8, <1>9, <1>10, <1>11, <1>12 DEF Next

--------------------------------------------------------------------------------
(* The rooms and the mappings that lead into them. *)

RoomInv ==
  /\ MessageShape
  /\ MappingsAnnounced
  /\ EditsStayInRoom
  /\ EditsAnnounceNothing
  /\ ImagesStay

\* The rooms are empty at the start.
LEMMA InitRoom == Init => RoomInv
  BY DEF Init, RoomInv, MessageShape, MappingsAnnounced, EditsStayInRoom,
         EditsAnnounceNothing, ImagesStay, Exists

\* What an edit may count on: its target is a text message of the entry's room
\* whose post announced every alert the entry has firing.
LEMMA EditIsSafe ==
  ASSUME TypeOK, AttemptShape, RoomInv, pc = "edit"
  PROVE  /\ target \in Messages
         /\ kind[target] = "text"
         /\ entry[origin[target]].room = entry[cur].room
         /\ entry[cur].firing \subseteq entry[origin[target]].firing
<1>1. cur \in Ids /\ target \in Messages /\ target # None /\ EditableAt(cur, target)
  BY DEF TypeOK, AttemptShape
<1>2. /\ entry[cur].room \in Rooms
      /\ entry[cur].firing \subseteq Fps /\ entry[cur].resolved \subseteq Fps
  BY <1>1 DEF TypeOK, Entries
<1>3. \A f \in entry[cur].firing \cup Known(cur) :
        /\ kind[target] = "text"
        /\ entry[origin[target]].room = entry[cur].room
        /\ f \in entry[origin[target]].firing
  BY <1>1, <1>2 DEF EditableAt, Known, Mapped, RoomInv, MappingsAnnounced, Announces
<1>4. Known(cur) # {}
  BY <1>1 DEF EditableAt
<1> QED BY <1>1, <1>3, <1>4

\* A message that appears is new: no mapping leads to it yet, and it shows the
\* entry it was posted for.  Text that announces something is about to be
\* recorded, or counted as lost.
LEMMA AppearIsSafe ==
  ASSUME TypeOK, RoomInv, cur \in Ids, status[cur] = "pending", pc = "post",
         NEW m \in Messages, NEW k \in {"text", "image"}, Appear(m, k),
         UNCHANGED <<entry, map>>,
         k = "image" \/ entry[cur].firing = {} \/ BeingMapped(m)' \/ m \in unmapped',
         unmapped \subseteq unmapped',
         status' \in [Ids -> {"unused", "pending", "delivered", "failed"}],
         \A j \in Ids : status[j] # "unused" => status'[j] # "unused"
  PROVE  RoomInv'
<1> USE DEF TypeOK, Appear
<1>1. kind[m] = "none" /\ cur # None
  BY NextIsNew DEF Ids, None
<1>2. MessageShape'
  BY <1>1 DEF RoomInv, MessageShape, Exists
<1>3. MappingsAnnounced'
  <2> SUFFICES ASSUME NEW r \in Rooms, NEW f \in Fps, map[r][f] # None
               PROVE  /\ Announces(map[r][f], r, f)'
                      /\ \A n \in Messages : n > map[r][f] /\ Announces(n, r, f)' =>
                           BeingMapped(n)' \/ n \in unmapped'
    BY DEF MappingsAnnounced
  <2>1. map[r][f] \in Messages /\ Announces(map[r][f], r, f)
    BY DEF RoomInv, MappingsAnnounced
  <2>2. Announces(map[r][f], r, f)'
    BY <1>1, <2>1 DEF Announces
  <2>3. ASSUME NEW n \in Messages, n > map[r][f], Announces(n, r, f)', n # m
        PROVE  n \in unmapped'
    <3>1. Announces(n, r, f)
      BY <2>3 DEF Announces
    <3> QED BY <2>3, <3>1 DEF RoomInv, MappingsAnnounced, BeingMapped
  <2>4. Announces(m, r, f)' => BeingMapped(m)' \/ m \in unmapped'
    BY DEF Announces
  <2> QED BY <2>2, <2>3, <2>4
<1>4. EditsStayInRoom' /\ EditsAnnounceNothing'
  BY <1>1 DEF RoomInv, EditsStayInRoom, EditsAnnounceNothing, Exists
<1>5. ImagesStay'
  BY <1>1 DEF RoomInv, ImagesStay
<1> QED BY <1>2, <1>3, <1>4, <1>5 DEF RoomInv

\* Steps that leave rooms, mappings and notifications alone, or use them less.
LEMMA RoomStutter ==
  ASSUME TypeOK, RoomInv, UNCHANGED <<entry, rooms>>,
         \A r \in Rooms, f \in Fps : map'[r][f] \in {map[r][f], None},
         \A m \in Messages :
           BeingMapped(m) \/ m \in unmapped => BeingMapped(m)' \/ m \in unmapped',
         \A j \in Ids : status[j] # "unused" => status'[j] # "unused"
  PROVE  RoomInv'
<1>1. MessageShape'
  BY DEF TypeOK, rooms, RoomInv, MessageShape, Exists
<1>2. \A m \in Messages, r \in Rooms, f \in Fps : Announces(m, r, f)' = Announces(m, r, f)
  BY DEF rooms, Announces
<1>3. MappingsAnnounced'
  <2> SUFFICES ASSUME NEW r \in Rooms, NEW f \in Fps, map'[r][f] # None
               PROVE  /\ Announces(map[r][f], r, f)'
                      /\ \A n \in Messages : n > map[r][f] /\ Announces(n, r, f)' =>
                           BeingMapped(n)' \/ n \in unmapped'
    BY DEF MappingsAnnounced
  <2>1. map[r][f] # None /\ map[r][f] \in Messages
    BY DEF TypeOK
  <2> QED BY <1>2, <2>1 DEF RoomInv, MappingsAnnounced
<1> QED BY <1>1, <1>3
  DEF rooms, RoomInv, EditsStayInRoom, EditsAnnounceNothing, ImagesStay, Exists

\* Every step keeps the rooms and the mappings in order.
LEMMA NextRoom == ASSUME TypeOK, AttemptShape, RoomInv, [Next]_vars PROVE RoomInv'
<1>1. ASSUME NEW i \in Ids, NEW e \in Entries, Enqueue(i, e) PROVE RoomInv'
  <2>1. \A j \in Ids : status[j] # "unused" => entry'[j] = entry[j] /\ status'[j] # "unused"
    BY <1>1 DEF TypeOK, Enqueue
  <2>2. \A m \in Messages : Exists(m) =>
          entry'[origin[m]] = entry[origin[m]] /\ entry'[shows[m]] = entry[shows[m]]
    BY <2>1 DEF TypeOK, RoomInv, MessageShape
  <2>3. MessageShape'
    BY <1>1, <2>1 DEF TypeOK, Enqueue, rooms, RoomInv, MessageShape, Exists
  <2>4. MappingsAnnounced'
    <3>1. \A m \in Messages, r \in Rooms, f \in Fps : Announces(m, r, f)' = Announces(m, r, f)
      BY <1>1, <2>2 DEF Enqueue, rooms, Announces, Exists
    <3>2. \A m \in Messages : BeingMapped(m)' = BeingMapped(m)
      BY <1>1 DEF Enqueue, attempt, BeingMapped
    <3>3. \A r \in Rooms, f \in Fps : map[r][f] # None => map[r][f] \in Messages
      BY DEF TypeOK
    <3> QED BY <1>1, <3>1, <3>2, <3>3 DEF Enqueue, history, RoomInv, MappingsAnnounced
  <2>5. EditsStayInRoom' /\ EditsAnnounceNothing' /\ ImagesStay'
    BY <1>1, <2>2
    DEF Enqueue, rooms, RoomInv, EditsStayInRoom, EditsAnnounceNothing, ImagesStay, Exists
  <2> QED BY <2>3, <2>4, <2>5 DEF RoomInv
<1>2. ASSUME NEW i \in Ids, RequeueOutbox(i) \/ Begin(i) \/ BeginUnread(i) PROVE RoomInv'
  BY <1>2, RoomStutter
  DEF TypeOK, RequeueOutbox, Begin, BeginUnread, BeingMapped, table, attempt, history
<1>3. ASSUME shows' = [shows EXCEPT ![target] = cur], pc = "edit",
             UNCHANGED <<table, origin, kind, unmapped>>
      PROVE  RoomInv'
  <2>1. cur \in Ids /\ status[cur] = "pending" /\ cur # None
    BY <1>3 DEF TypeOK, AttemptShape
  <2>2. MessageShape' /\ MappingsAnnounced'
    BY <1>3, <2>1 DEF TypeOK, table, RoomInv, MessageShape, MappingsAnnounced, Announces,
                      BeingMapped, Exists
  <2>3. EditsStayInRoom' /\ EditsAnnounceNothing' /\ ImagesStay'
    BY <1>3, EditIsSafe
    DEF TypeOK, table, RoomInv, EditsStayInRoom, EditsAnnounceNothing, ImagesStay, Exists
  <2> QED BY <2>2, <2>3 DEF RoomInv
<1>4. CASE SendEdit
  BY <1>3, <1>4 DEF SendEdit, MapAfterEdit, table
<1>5. CASE SendEditFails
  BY <1>3, <1>5, RoomStutter DEF TypeOK, SendEditFails, BeingMapped, table, rooms, history
<1>6. ASSUME NEW m \in Messages, SendWithImage(m) \/ Send(m) \/ SendAgain(m) PROVE RoomInv'
  <2>1. cur \in Ids /\ status[cur] = "pending"
    BY <1>6 DEF TypeOK, AttemptShape, SendWithImage, Send, SendAgain
  <2>2. UNCHANGED <<entry, map, status>> /\ pc = "post" /\ unmapped \subseteq unmapped'
    BY <1>6 DEF SendWithImage, Send, SendAgain, AppearUnmapped, table
  <2>3. \/ Appear(m, "image")
        \/ /\ Appear(m, "text")
           /\ entry[cur].firing = {} \/ BeingMapped(m)' \/ m \in unmapped'
    BY <1>6 DEF SendWithImage, Send, SendAgain, AppearUnmapped, BeingMapped
  <2> QED BY <2>1, <2>2, <2>3, AppearIsSafe DEF TypeOK
<1>7. CASE SendFails
  <2>1. cur \in Ids /\ status[cur] = "pending"
    BY <1>7 DEF TypeOK, AttemptShape, SendFails
  <2>2. UNCHANGED <<entry, map>> /\ pc = "post"
    BY <1>7 DEF SendFails
  <2>3. /\ status' \in [Ids -> {"unused", "pending", "delivered", "failed"}]
        /\ \A j \in Ids : status[j] # "unused" => status'[j] # "unused"
    BY <1>7, <2>1 DEF TypeOK, SendFails
  <2>4. CASE UNCHANGED <<rooms, history>>
    BY <2>2, <2>3, <2>4, RoomStutter DEF TypeOK, history, BeingMapped
  <2>5. CASE \E m \in Messages : AppearUnmapped(m)
    BY <2>1, <2>2, <2>3, <2>5, AppearIsSafe DEF AppearUnmapped
  <2> QED BY <1>7, <2>4, <2>5 DEF SendFails
<1>8. CASE RecordAlertMessages
  <2>1. /\ cur \in Ids /\ posted \in Messages
        /\ kind[posted] = "text" /\ origin[posted] = cur
        /\ \A m \in Messages : m > posted => ~Exists(m)
    BY <1>8 DEF TypeOK, AttemptShape, RecordAlertMessages
  <2>2. \A r \in Rooms, f \in Fps :
          IF r = entry[cur].room /\ f \in entry[cur].firing
          THEN map'[r][f] = posted ELSE map'[r][f] = map[r][f]
    BY <1>8 DEF RecordAlertMessages, RecordedIn, Recorded
  <2>3. UNCHANGED <<entry, status, rooms, unmapped>>
    BY <1>8 DEF RecordAlertMessages, history
  <2>4. MappingsAnnounced'
    <3> SUFFICES ASSUME NEW r \in Rooms, NEW f \in Fps, map'[r][f] # None
                 PROVE  /\ Announces(map'[r][f], r, f)
                        /\ \A n \in Messages : n > map'[r][f] /\ Announces(n, r, f) =>
                             n \in unmapped
      BY <2>3 DEF rooms, MappingsAnnounced, Announces
    <3>1. CASE r = entry[cur].room /\ f \in entry[cur].firing
      BY <2>1, <2>2, <3>1 DEF Announces, Exists
    <3>2. CASE ~ (r = entry[cur].room /\ f \in entry[cur].firing)
      <4>1. map'[r][f] = map[r][f] /\ ~ Announces(posted, r, f)
        BY <2>1, <2>2, <3>2 DEF Announces
      <4> QED BY <4>1 DEF RoomInv, MappingsAnnounced, BeingMapped
    <3> QED BY <3>1, <3>2
  <2> QED BY <2>3, <2>4
    DEF rooms, RoomInv, MessageShape, EditsStayInRoom, EditsAnnounceNothing, ImagesStay, Exists
<1>9. CASE RecordFails \/ Interrupted
  BY <1>9, RoomStutter DEF TypeOK, RecordFails, Interrupted, BeingMapped, table
<1>10. CASE MarkOutboxDelivered
  BY <1>10, RoomStutter DEF TypeOK, AttemptShape, MarkOutboxDelivered, BeingMapped, history
<1>11. ASSUME NEW m \in Messages, PruneAlertMessages(m) PROVE RoomInv'
  BY <1>11, RoomStutter DEF TypeOK, PruneAlertMessages, BeingMapped, attempt
<1>12. CASE UNCHANGED vars
  BY <1>12, RoomStutter DEF TypeOK, BeingMapped, vars, table, attempt, history
<1> QED
  BY <1>1, <1>2, <1>4, <1>5, <1>6, <1>7, <1>8, <1>9, <1>10, <1>11, <1>12 DEF Next

--------------------------------------------------------------------------------
\* Every reachable state satisfies the inductive invariant.
THEOREM LiveInvariance == Spec => []LInv
<1>1. LInv <=> TypeOK /\ AttemptShape /\ ReeditsStand /\ RoomInv
  BY DEF LInv, RoomInv
<1>2. Init => LInv
  BY <1>1, InitType, InitAttempt, InitReedits, InitRoom
<1>3. LInv /\ [Next]_vars => LInv'
  <2>1. ASSUME LInv, [Next]_vars PROVE TypeOK' /\ AttemptShape' /\ ReeditsStand' /\ RoomInv'
    BY <1>1, <2>1, NextType, NextAttempt, NextReedits, NextRoom
  <2> QED BY <2>1 DEF LInv, RoomInv
<1> QED BY <1>2, <1>3, PTL DEF Spec

\* Every mapping leads to the last text message of its room that announced its
\* alert and was recorded.
THEOREM MappingsAreTrusted == Spec => []MappingsAnnounced
<1>1. LInv => MappingsAnnounced
  BY DEF LInv
<1> QED BY <1>1, LiveInvariance, PTL

\* No edit shows a room what was meant for another.
THEOREM EditsNeverLeak == Spec => []EditsStayInRoom
<1>1. LInv => EditsStayInRoom
  BY DEF LInv
<1> QED BY <1>1, LiveInvariance, PTL

\* No alert is announced by an edit, which pings nobody.
THEOREM NewAlertsArePosted == Spec => []EditsAnnounceNothing
<1>1. LInv => EditsAnnounceNothing
  BY DEF LInv
<1> QED BY <1>1, LiveInvariance, PTL

\* No image is replaced by text.
THEOREM ImagesAreNotEdited == Spec => []ImagesStay
<1>1. LInv => ImagesStay
  BY DEF LInv
<1> QED BY <1>1, LiveInvariance, PTL

\* An entry may be edited into one message at most, the one all its alerts are
\* mapped to.
LEMMA OneTarget ==
  ASSUME TypeOK, NEW i \in Ids, NEW m \in Messages, EditableAt(i, m)
  PROVE  editTarget(i) = m
<1>1. PICK f \in Known(i) : Mapped(i)[f] = m
  BY DEF EditableAt
<1>2. EditableAt(i, editTarget(i))
  BY DEF editTarget
<1> QED BY <1>1, <1>2 DEF EditableAt

\* A repeated notification goes to the message its like was edited into.
THEOREM RepeatsAreReEdited == Spec => RepeatsReEdit
<1>1. ASSUME LInv, [Next]_vars,
             NEW i \in Ids, pc = "idle", cur' = i, UNCHANGED budget,
             NEW p \in reedits, entry[p[1]] = entry[i]
      PROVE  target' = p[2]
  <2>1. TypeOK /\ cur = None /\ i # None
    BY <1>1 DEF LInv, AttemptShape, Ids, None
  <2>2. Begin(i)
    <3>1. Next
      <4>1. ~ UNCHANGED vars
        BY <1>1, <2>1 DEF vars, attempt
      <4> QED BY <1>1, <4>1
    <3>2. \A j \in Ids : ~ BeginUnread(j) /\ ~ RequeueOutbox(j)
      BY <1>1, <2>1 DEF BeginUnread, RequeueOutbox, Disturb, TypeOK, attempt
    <3>3. \A j \in Ids, e \in Entries : ~ Enqueue(j, e)
      BY <1>1, <2>1 DEF Enqueue, attempt
    <3>4. \A m \in Messages :
            ~ SendWithImage(m) /\ ~ Send(m) /\ ~ SendAgain(m) /\ ~ PruneAlertMessages(m)
      BY <1>1, <2>1 DEF SendWithImage, Send, SendAgain, PruneAlertMessages, attempt
    <3>5. ~ SendEdit /\ ~ SendEditFails /\ ~ SendFails
      BY <1>1 DEF SendEdit, SendEditFails, SendFails
    <3>6. ~ RecordAlertMessages /\ ~ RecordFails /\ ~ MarkOutboxDelivered /\ ~ Interrupted
      BY <1>1 DEF RecordAlertMessages, RecordFails, MarkOutboxDelivered, Interrupted
    <3>7. \E j \in Ids : Begin(j)
      BY <3>1, <3>2, <3>3, <3>4, <3>5, <3>6 DEF Next
    <3> QED BY <1>1, <3>7 DEF Begin
  <2>3. p[1] \in Ids /\ p[2] \in Messages /\ EditableAt(p[1], p[2])
    BY <1>1, <2>1 DEF TypeOK, LInv, ReeditsStand
  <2>4. EditableAt(i, p[2])
    BY <1>1, <2>3 DEF EditableAt, Known, Mapped
  <2> QED BY <2>1, <2>2, <2>3, <2>4, OneTarget DEF Begin
<1>2. LInv /\ [Next]_vars =>
        [\A i \in Ids : pc = "idle" /\ cur' = i /\ UNCHANGED budget =>
           \A p \in reedits : entry[p[1]] = entry[i] => target' = p[2]]_vars
  BY <1>1
<1> QED BY <1>2, LiveInvariance, PTL DEF Spec, RepeatsReEdit

--------------------------------------------------------------------------------
(* The rooms, as they are promised. *)

\* The empty rooms are a start of the promise.
LEMMA InitPromised == Init => Promised!BoardInit
<1> SUFFICES ASSUME Init PROVE Promised!BoardInit
  OBVIOUS
<1>1. There = {} /\ Images = {}
  BY DEF Init, There, Exists, Images
<1>2. Announced \in [{} -> Entries] /\ Shown \in [{} -> Entries]
  BY <1>1 DEF Announced, Shown
<1> QED BY <1>1, <1>2 DEF Promised!BoardInit

\* A step that changes no message and no notification a message has to do with.
LEMMA BoardStutters ==
  ASSUME TypeOK, MessageShape, UNCHANGED rooms,
         \A i \in Ids : status[i] # "unused" => entry'[i] = entry[i]
  PROVE  UNCHANGED Promised!board
<1>1. There' = There /\ Images' = Images
  BY DEF There, Exists, Images, rooms
<1>2. \A m \in There : entry'[origin[m]] = entry[origin[m]] /\ entry'[shows[m]] = entry[shows[m]]
  BY DEF There, MessageShape, TypeOK
<1>3. Announced' = Announced /\ Shown' = Shown
  BY <1>1, <1>2 DEF Announced, Shown, rooms
<1> QED BY <1>1, <1>3 DEF Promised!board

\* A new message announces the entry at hand.
LEMMA AppearAnnounces ==
  ASSUME TypeOK, cur \in Ids, NEW m \in Messages, NEW k \in {"text", "image"}, Appear(m, k),
         UNCHANGED entry
  PROVE  Promised!BoardNext
<1>1. m \notin There /\ There' = There \cup {m}
  BY NextIsNew DEF Appear, There, Exists, TypeOK
<1>2. entry[cur] \in Entries
  BY DEF TypeOK
<1>3. Announced' = Promised!With(Announced, m, entry[cur])
  BY <1>1 DEF Appear, Announced, There, TypeOK, Promised!With
<1>4. Shown' = Promised!With(Shown, m, entry[cur])
  BY <1>1 DEF Appear, Shown, There, TypeOK, Promised!With
<1>5. Images' \in {Images, Images \cup {m}}
  BY NextIsNew DEF Appear, Images, TypeOK
<1>6. DOMAIN Announced = There /\ DOMAIN Announced' = There'
  BY DEF Announced
<1>7. Promised!board' # Promised!board
  BY <1>1, <1>6 DEF Promised!board
<1>8. Promised!Announce(m)
  BY <1>1, <1>2, <1>3, <1>4, <1>5, <1>6 DEF Promised!Announce
<1> QED BY <1>7, <1>8 DEF Promised!BoardNext

\* An edit of the target settles it.
LEMMA EditSettles ==
  ASSUME LInv, pc = "edit", shows' = [shows EXCEPT ![target] = cur],
         UNCHANGED <<entry, origin, kind>>
  PROVE  [Promised!BoardNext]_(Promised!board)
<1> DEFINE n == entry[cur]
           o == entry[origin[target]]
<1>1. /\ TypeOK /\ cur \in Ids /\ target \in Messages /\ EditableAt(cur, target)
      /\ n \in Entries
  BY DEF LInv, AttemptShape, TypeOK, None
<1>2. ASSUME NEW f \in Fps, Mapped(cur)[f] = target
      PROVE  kind[target] = "text" /\ o.room = n.room /\ f \in o.firing
  <2>1. n.room \in Rooms /\ map[n.room][f] = target /\ target # None
    BY <1>1, <1>2 DEF Mapped, Entries, Messages, None
  <2> QED BY <2>1 DEF LInv, MappingsAnnounced, Announces
<1>3. PICK f \in Known(cur) : Mapped(cur)[f] = target
  BY <1>1 DEF EditableAt
<1>4. n.firing \subseteq Fps /\ n.resolved \subseteq Fps /\ f \in n.resolved
  BY <1>1, <1>3 DEF Entries, Known
<1>5. kind[target] = "text" /\ n.room = o.room /\ f \in o.firing
  BY <1>2, <1>3, <1>4
<1>6. n.firing \subseteq o.firing
  BY <1>1, <1>2, <1>4 DEF EditableAt
<1>7. There' = There /\ Images' = Images /\ Announced' = Announced
      /\ target \in There \ Images /\ DOMAIN Announced = There /\ DOMAIN Shown = There
  BY <1>1, <1>5 DEF There, Exists, Images, Announced, Shown
<1>8. Announced[target] = o
  BY <1>7 DEF Announced
<1>9. Shown' = Promised!With(Shown, target, n)
  BY <1>1, <1>7 DEF Shown, There, TypeOK, Promised!With
<1>10. Promised!MaySettle(target, n)
  BY <1>4, <1>5, <1>6, <1>8 DEF Promised!MaySettle
<1>11. Promised!Settle(target)
  BY <1>1, <1>7, <1>9, <1>10 DEF Promised!Settle
<1> QED BY <1>1, <1>11 DEF Promised!BoardNext

\* Every step is a step of the promise, or is not seen in the rooms.
LEMMA StepKeepsRoomPromise ==
  ASSUME LInv, [Next]_vars
  PROVE  [Promised!BoardNext]_(Promised!board)
<1>1. TypeOK /\ MessageShape /\ (pc # "idle" => cur \in Ids)
  BY DEF LInv, AttemptShape, TypeOK
<1>2. ASSUME NEW i \in Ids, NEW e \in Entries, Enqueue(i, e)
      PROVE  UNCHANGED Promised!board
  <2>1. UNCHANGED rooms /\ \A j \in Ids : status[j] # "unused" => entry'[j] = entry[j]
    BY <1>1, <1>2 DEF Enqueue, TypeOK
  <2> QED BY <1>1, <2>1, BoardStutters
<1>3. ASSUME UNCHANGED <<entry, rooms>>
      PROVE  UNCHANGED Promised!board
  BY <1>1, <1>3, BoardStutters
<1>4. CASE SendEdit \/ SendEditFails
  <2>1. pc = "edit" /\ UNCHANGED <<entry, origin, kind>>
    BY <1>4 DEF SendEdit, SendEditFails, table
  <2>2. UNCHANGED shows \/ shows' = [shows EXCEPT ![target] = cur]
    BY <1>4 DEF SendEdit, SendEditFails
  <2> QED BY <1>3, <2>1, <2>2, EditSettles DEF rooms
<1>5. ASSUME NEW m \in Messages, SendWithImage(m) \/ Send(m) \/ SendAgain(m)
      PROVE  Promised!BoardNext
  <2>1. pc = "post" /\ UNCHANGED entry /\ \E k \in {"text", "image"} : Appear(m, k)
    BY <1>5 DEF SendWithImage, Send, SendAgain, AppearUnmapped, table
  <2> QED BY <1>1, <2>1, AppearAnnounces
<1>6. CASE SendFails
  <2>1. pc = "post" /\ UNCHANGED entry
    BY <1>6 DEF SendFails
  <2>2. CASE UNCHANGED rooms
    BY <1>3, <2>1, <2>2
  <2>3. CASE \E m \in Messages, k \in {"text", "image"} : Appear(m, k)
    BY <1>1, <2>1, <2>3, AppearAnnounces
  <2> QED BY <1>6, <2>2, <2>3 DEF SendFails, AppearUnmapped
<1>7. ASSUME NEW i \in Ids, RequeueOutbox(i) \/ Begin(i) \/ BeginUnread(i)
      PROVE  UNCHANGED <<entry, rooms>>
  BY <1>7 DEF RequeueOutbox, Begin, BeginUnread, table
<1>8. CASE RecordAlertMessages \/ RecordFails \/ MarkOutboxDelivered \/ Interrupted
  BY <1>3, <1>8 DEF RecordAlertMessages, RecordFails, MarkOutboxDelivered, Interrupted, table
<1>9. ASSUME NEW m \in Messages, PruneAlertMessages(m)
      PROVE  UNCHANGED <<entry, rooms>>
  BY <1>9 DEF PruneAlertMessages
<1>10. CASE UNCHANGED vars
  BY <1>3, <1>10 DEF vars, table
<1> QED
  BY <1>2, <1>3, <1>4, <1>5, <1>6, <1>7, <1>8, <1>9, <1>10 DEF Next

\* The rooms see what they are promised: the delivery of alert notifications
\* implements RoomPromise.
THEOREM TheRoomPromiseIsKept == Spec => KeepsRoomPromise
<1>1. Init => Promised!BoardInit
  BY InitPromised
<1>2. LInv /\ [Next]_vars => [Promised!BoardNext]_(Promised!board)
  BY StepKeepsRoomPromise
<1> QED
  BY <1>1, <1>2, LiveInvariance, PTL DEF Spec, KeepsRoomPromise, Promised!BoardSpec
================================================================================
