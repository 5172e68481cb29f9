------------------------------ MODULE RoomPromise ------------------------------
(***************************************************************************)
(* What the people in the rooms are promised of alert notifications,       *)
(* without a queue, a table of mappings, a retry or a crash in sight: what  *)
(* a message announced stays announced, and a message is only ever edited   *)
(* to report the end of something it announced, never to announce, never   *)
(* across rooms, and never in the place of an image.                       *)
(***************************************************************************)
CONSTANTS
  Messages,
  Notifications  \* the room they are for, alerts that fire, alerts that are over

VARIABLES
  announced,  \* per message in a room, the notification that it pinged for
  shown,      \* the notification whose text it shows now
  images      \* the messages that are images

board == <<announced, shown, images>>

BoardInit ==
  /\ announced \in [{} -> Notifications]
  /\ shown \in [{} -> Notifications]
  /\ images = {}

With(f, m, n) == [x \in DOMAIN f \cup {m} |-> IF x = m THEN n ELSE f[x]]

\* A new message appears in a room.
Announce(m) ==
  /\ m \notin DOMAIN announced
  /\ \E n \in Notifications :
       /\ announced' = With(announced, m, n)
       /\ shown' = With(shown, m, n)
  /\ images' \in {images, images \cup {m}}

\* Message m may be edited into n: it announced all that n has firing, and
\* something that n reports to be over.
MaySettle(m, n) ==
  /\ n.room = announced[m].room
  /\ n.firing \subseteq announced[m].firing
  /\ n.resolved \cap announced[m].firing # {}

\* A text is edited, without a ping.
Settle(m) ==
  /\ m \in DOMAIN announced \ images
  /\ \E n \in Notifications : MaySettle(m, n) /\ shown' = With(shown, m, n)
  /\ UNCHANGED <<announced, images>>

\* An edit into what is shown already changes nothing.
BoardNext ==
  /\ board' # board
  /\ \E m \in Messages : Announce(m) \/ Settle(m)

BoardSpec == BoardInit /\ [][BoardNext]_board
================================================================================
