---------------------------- MODULE RoutingProofs ----------------------------
(***************************************************************************)
(* Proofs about Routing, for every set of rooms, names, admins and         *)
(* requests and every number of channels and tokens.                       *)
(***************************************************************************)
EXTENDS Routing, TLAPS

\* A row is in the table or was read by a call that is still to insert.
LEMMA RowsMembers ==
  ASSUME NEW c
  PROVE  c \in Rows <=> c \in channels \/ \E a \in Admins : c \in minting[a]
BY DEF Rows

\* Every row any call still holds is a channel.
LEMMA RowsAreChannels == TypeOK => Rows \subseteq Channel
BY RowsMembers DEF TypeOK

\* The initial state satisfies the invariant.
LEMMA InitHolds == Init => RInv
<1> SUFFICES ASSUME Init PROVE RInv
  OBVIOUS
<1>1. TypeOK
  BY RoutingAssumption DEF Init, TypeOK
<1>2. UniqueRows
  BY RowsMembers DEF Init, UniqueRows
<1>3. TokensHaveChannels /\ RequestShape
  BY DEF Init, TokensHaveChannels, RequestShape, Accepted
<1> QED
  BY <1>1, <1>2, <1>3 DEF RInv

--------------------------------------------------------------------------------
(* Types. *)

LEMMA NextType == ASSUME TypeOK, UniqueRows, [Next]_vars PROVE TypeOK'
<1> USE RoutingAssumption DEF TypeOK, ChannelIds, TokenIds, Channel, Token
<1>1. \A q \in Requests : Leads(q)' \subseteq {c.room : c \in channels'}
  BY DEF Leads
<1>2. ASSUME Watch, channels' \in SUBSET Channel
      PROVE  routes' \in [Requests -> SUBSET Rooms]
  <2>1. \A q \in Requests : Leads(q)' \subseteq Rooms
    BY <1>1, <1>2
  <2> QED
    BY <1>2, <2>1 DEF Watch
<1>3. ASSUME NEW n \in Names, NEW r \in Rooms, CreateChannel(n, r) PROVE TypeOK'
  BY <1>2, <1>3 DEF CreateChannel, FreshChannel, Quick, calls, requests
<1>4. ASSUME NEW c \in channels, DeleteChannel(c) PROVE TypeOK'
  BY <1>2, <1>4 DEF DeleteChannel, Quick, calls, requests
<1>5. ASSUME NEW a \in Admins, NEW r \in Rooms, DeleteChannelsForRoom(a, r) PROVE TypeOK'
  BY <1>2, <1>5 DEF DeleteChannelsForRoom, requests
<1>6. ASSUME NEW a \in Admins, NEW r \in Rooms, LeaveRoom(a, r) PROVE TypeOK'
  BY <1>2, <1>6 DEF LeaveRoom, registry, requests
<1>7. ASSUME NEW r \in Rooms, Join(r) PROVE TypeOK'
  BY <1>2, <1>7 DEF Join, registry, calls, requests
<1>8. ASSUME NEW a \in Admins, NEW c \in channels, GetChannel(a, c) PROVE TypeOK'
  BY <1>2, <1>8 DEF GetChannel, registry, requests
<1>9. ASSUME NEW a \in Admins, NEW c \in minting[a], CreateToken(a, c) PROVE TypeOK'
  <2>1. c \in Channel /\ channels' \in SUBSET Channel
    BY <1>9 DEF CreateToken, Saved
  <2> QED
    BY <1>2, <1>9, <2>1 DEF CreateToken, requests
<1>10. ASSUME NEW a \in Admins, CreateTokenFails(a) PROVE TypeOK'
  BY <1>2, <1>10 DEF CreateTokenFails, registry, requests
<1>11. ASSUME NEW t \in tokens, NEW c \in channels, UpdateToken(t, c) PROVE TypeOK'
  BY <1>2, <1>11 DEF UpdateToken, Quick, calls, requests
<1>12. ASSUME NEW t \in tokens, DeleteToken(t) PROVE TypeOK'
  BY <1>2, <1>12 DEF DeleteToken, Quick, calls, requests
<1>13. ASSUME NEW q \in Requests, NEW t \in tokens, FindToken(q, t) PROVE TypeOK'
  BY <1>2, <1>13 DEF FindToken, registry, calls
<1>14. ASSUME NEW q \in Requests, PreloadChannel(q) PROVE TypeOK'
  BY <1>2, <1>14 DEF PreloadChannel, registry, calls
<1>15. ASSUME NEW q \in Requests, Reject(q) \/ EnqueueOutbox(q) PROVE TypeOK'
  BY <1>2, <1>15 DEF Reject, EnqueueOutbox, registry, calls
<1>16. CASE UNCHANGED vars
  BY <1>16 DEF vars, registry, calls, requests
<1> QED
  BY <1>3, <1>4, <1>5, <1>6, <1>7, <1>8, <1>9, <1>10, <1>11, <1>12, <1>13, <1>14, <1>15,
     <1>16 DEF Next, Admin, Ingest

--------------------------------------------------------------------------------
(* Ids and names are unique, and tokens keep their channels. *)

\* What the rows are after a step that reads or inserts no channel.
LEMMA RowsShrink ==
  ASSUME channels' \subseteq channels,
         \A a \in Admins : minting'[a] \subseteq minting[a]
  PROVE  Rows' \subseteq Rows
BY DEF Rows

LEMMA NextUnique == ASSUME RInv, [Next]_vars PROVE UniqueRows' /\ TokensHaveChannels'
<1> USE DEF RInv
<1>1. TypeOK'
  BY NextType
<1>2. Rows \subseteq Channel /\ Rows' \subseteq Channel
  <2>1. Rows \subseteq Channel
    BY RowsAreChannels
  <2>2. Rows' \subseteq Channel
    BY <1>1 DEF Rows, TypeOK
  <2> QED
    BY <2>1, <2>2
<1> USE RoutingAssumption DEF TypeOK, ChannelIds, TokenIds, Channel, Token, UniqueRows,
        TokensHaveChannels
<1>3. ASSUME Rows' \subseteq Rows, channels' = channels, tokens' \subseteq tokens,
             UNCHANGED lastIds
      PROVE  UniqueRows' /\ TokensHaveChannels'
  BY <1>3
<1>4. channels \subseteq Rows /\ channels' \subseteq Rows'
  BY DEF Rows
<1>5. ASSUME NEW n \in Names, NEW r \in Rooms, CreateChannel(n, r)
      PROVE  UniqueRows' /\ TokensHaveChannels'
  <2> DEFINE new == [id |-> lastIds.channel + 1, name |-> n, room |-> r]
  <2>1. channels' = channels \cup {new} /\ UNCHANGED <<tokens, minting>>
    BY <1>5 DEF CreateChannel, FreshChannel, Quick, calls
  <2>2. Rows' \subseteq Rows \cup {new}
    BY <2>1 DEF Rows
  <2>3. lastIds'.channel = lastIds.channel + 1 /\ lastIds'.token = lastIds.token
    BY <1>5 DEF CreateChannel
  <2>4. \A c \in channels : c.name # n
    BY <1>5 DEF CreateChannel
  <2>5. \A c \in Rows : c.id <= lastIds.channel /\ c.id # new.id
    BY <1>2
  <2> QED
    BY <1>2, <1>4, <2>1, <2>2, <2>3, <2>4, <2>5
<1>6. ASSUME NEW c \in channels, DeleteChannel(c) PROVE UniqueRows' /\ TokensHaveChannels'
  <2>1. Rows' \subseteq Rows
    BY <1>6, RowsShrink DEF DeleteChannel, Quick, calls
  <2> QED
    BY <1>2, <1>4, <1>6, <2>1 DEF DeleteChannel
<1>7. ASSUME NEW a \in Admins, NEW r \in Rooms, DeleteChannelsForRoom(a, r)
      PROVE  UniqueRows' /\ TokensHaveChannels'
  <2>1. Rows' \subseteq Rows
    BY <1>7, RowsShrink DEF DeleteChannelsForRoom
  <2> QED
    BY <1>2, <1>4, <1>7, <2>1 DEF DeleteChannelsForRoom, CutOff
<1>8. ASSUME NEW a \in Admins, NEW r \in Rooms, LeaveRoom(a, r)
      PROVE  UniqueRows' /\ TokensHaveChannels'
  BY <1>3, <1>8, RowsShrink DEF LeaveRoom, registry
<1>9. ASSUME NEW r \in Rooms, Join(r) PROVE UniqueRows' /\ TokensHaveChannels'
  BY <1>3, <1>9, RowsShrink DEF Join, registry, calls
<1>10. ASSUME NEW a \in Admins, NEW c \in channels, GetChannel(a, c)
       PROVE  UniqueRows' /\ TokensHaveChannels'
  <2>1. Rows' \subseteq Rows
    BY <1>10 DEF GetChannel, registry, Rows
  <2> QED
    BY <1>3, <1>10, <2>1 DEF GetChannel, registry
<1>11. ASSUME NEW a \in Admins, NEW c \in minting[a], CreateToken(a, c)
       PROVE  UniqueRows' /\ TokensHaveChannels'
  <2> DEFINE new == [id |-> lastIds.token + 1, channel |-> c.id]
  <2>1. c \in Rows
    BY DEF Rows
  <2>2. channels \subseteq channels' /\ channels' \subseteq channels \cup {c}
    BY <1>11 DEF CreateToken, Saved
  <2>3. Rows' \subseteq Rows
    BY <1>11, <2>1, <2>2 DEF CreateToken, Rows
  <2>4. \A d, e \in channels' : d.name = e.name => d = e
    BY <1>11 DEF CreateToken, Saved
  <2>5. tokens' = tokens \cup {new} /\ lastIds' = [lastIds EXCEPT !.token = lastIds.token + 1]
    BY <1>11 DEF CreateToken
  <2>6. \E d \in channels' : d.id = c.id
    BY <1>11 DEF CreateToken
  <2>7. TokensHaveChannels'
    BY <2>2, <2>5, <2>6
  <2>8. \A s, t \in tokens' : s.id = t.id => s = t
    BY <2>5
  <2>9. \A t \in tokens' : t.id <= lastIds'.token /\ t.channel <= lastIds'.channel
    BY <1>2, <2>1, <2>5
  <2>10. /\ \A d, e \in Rows' : d.id = e.id => d = e
         /\ \A d \in Rows' : d.id <= lastIds'.channel
    BY <2>3, <2>5
  <2> QED
    BY <2>4, <2>7, <2>8, <2>9, <2>10
<1>12. ASSUME NEW a \in Admins, CreateTokenFails(a)
       PROVE  UniqueRows' /\ TokensHaveChannels'
  BY <1>3, <1>12, RowsShrink DEF CreateTokenFails, registry
<1>13. ASSUME NEW t \in tokens, NEW c \in channels, UpdateToken(t, c)
       PROVE  UniqueRows' /\ TokensHaveChannels'
  <2>1. Rows' \subseteq Rows /\ UNCHANGED <<channels, lastIds>>
    BY <1>13, RowsShrink DEF UpdateToken, Quick, calls
  <2>2. [t EXCEPT !.channel = c.id] = [id |-> t.id, channel |-> c.id]
    OBVIOUS
  <2> QED
    BY <1>2, <1>4, <1>13, <2>1, <2>2 DEF UpdateToken
<1>14. ASSUME NEW t \in tokens, DeleteToken(t) PROVE UniqueRows' /\ TokensHaveChannels'
  BY <1>3, <1>14, RowsShrink DEF DeleteToken, Quick, calls
<1>15. ASSUME NEW q \in Requests, Ingest(q) PROVE UniqueRows' /\ TokensHaveChannels'
  BY <1>3, <1>15, RowsShrink
     DEF Ingest, FindToken, PreloadChannel, Reject, EnqueueOutbox, registry, calls
<1>16. CASE UNCHANGED vars
  BY <1>3, <1>16, RowsShrink DEF vars, registry, calls
<1> QED
  BY <1>5, <1>6, <1>7, <1>8, <1>9, <1>10, <1>11, <1>12, <1>13, <1>14, <1>15, <1>16
     DEF Next, Admin

--------------------------------------------------------------------------------
(* Requests. *)

\* A step that leaves request q where it is, and no new row with an old id.
LEMMA ShapeKept ==
  ASSUME TypeOK, RequestShape, Watch,
         NEW q \in Requests,
         pc'[q] = pc[q], presented'[q] = presented[q], route'[q] = route[q],
         entry'[q] = entry[q],
         lastIds.channel <= lastIds'.channel,
         lastIds'.channel \in Nat,
         \A c \in Rows' : c \in Rows \/ lastIds.channel < c.id
  PROVE  /\ pc'[q] \in {"start", "found"} => route'[q] = NoRoom
         /\ route'[q] \in routes'[q] \cup {NoRoom}
         /\ Accepted(q)' => entry'[q] = route'[q]
         /\ \A t \in presented'[q] :
              /\ t.channel <= lastIds'.channel
              /\ \A c \in Rows' : c.id = t.channel => c.room \in routes'[q]
<1>1. routes[q] \subseteq routes'[q]
  BY DEF Watch
<1>2. presented[q] \subseteq Token /\ lastIds.channel \in Nat
  BY RoutingAssumption DEF TypeOK
<1>3. ASSUME NEW t \in presented'[q]
      PROVE  /\ t.channel <= lastIds'.channel
             /\ \A c \in Rows' : c.id = t.channel => c.room \in routes'[q]
  <2>1. t \in presented[q] /\ t.channel \in Nat /\ t.channel <= lastIds.channel
    BY <1>2, <1>3, RoutingAssumption DEF RequestShape, Token, ChannelIds
  <2>2. ASSUME NEW c \in Rows', c.id = t.channel PROVE c.room \in routes'[q]
    <3>1. c \in Rows
      BY <1>2, <2>1, <2>2
    <3> QED
      BY <1>1, <2>1, <2>2, <3>1 DEF RequestShape
  <2> QED
    BY <1>2, <2>1, <2>2
<1> QED
  BY <1>1, <1>3 DEF RequestShape, Accepted

\* What a request has read stays where its token led.
LEMMA NextRequests == ASSUME RInv, [Next]_vars PROVE RequestShape'
<1> USE DEF RInv
<1>1. TypeOK' /\ UniqueRows'
  BY NextType, NextUnique
<1>2. lastIds.channel \in Nat /\ lastIds'.channel \in Nat
  BY <1>1, RoutingAssumption DEF TypeOK
<1>3. ASSUME Watch, UNCHANGED requests, lastIds.channel <= lastIds'.channel,
             \A c \in Rows' : c \in Rows \/ lastIds.channel < c.id
      PROVE  RequestShape'
  <2> SUFFICES ASSUME NEW q \in Requests
               PROVE  /\ pc'[q] \in {"start", "found"} => route'[q] = NoRoom
                      /\ route'[q] \in routes'[q] \cup {NoRoom}
                      /\ Accepted(q)' => entry'[q] = route'[q]
                      /\ \A t \in presented'[q] :
                           /\ t.channel <= lastIds'.channel
                           /\ \A c \in Rows' : c.id = t.channel => c.room \in routes'[q]
    BY DEF RequestShape
  <2> QED
    BY <1>2, <1>3, ShapeKept DEF requests
<1>4. ASSUME NEW n \in Names, NEW r \in Rooms, CreateChannel(n, r) PROVE RequestShape'
  <2> DEFINE new == [id |-> lastIds.channel + 1, name |-> n, room |-> r]
  <2>1. Rows' \subseteq Rows \cup {new}
    BY <1>4 DEF CreateChannel, FreshChannel, Quick, calls, Rows
  <2>2. lastIds'.channel = lastIds.channel + 1
    BY <1>4 DEF CreateChannel, TypeOK
  <2> QED
    BY <1>2, <1>3, <1>4, <2>1, <2>2 DEF CreateChannel, Quick
<1>5. ASSUME NEW a \in Admins, NEW c \in channels, GetChannel(a, c) PROVE RequestShape'
  <2>1. Rows' \subseteq Rows
    BY <1>5 DEF GetChannel, registry, Rows
  <2> QED
    BY <1>2, <1>3, <1>5, <2>1 DEF GetChannel, registry
<1>6. ASSUME NEW a \in Admins, NEW c \in minting[a], CreateToken(a, c) PROVE RequestShape'
  <2>1. c \in Rows /\ channels' \subseteq channels \cup {c}
    BY <1>6 DEF CreateToken, Saved, Rows
  <2>2. Rows' \subseteq Rows
    BY <1>6, <2>1 DEF CreateToken, Rows, TypeOK
  <2>3. lastIds'.channel = lastIds.channel
    BY <1>6 DEF CreateToken, TypeOK
  <2> QED
    BY <1>2, <1>3, <1>6, <2>2, <2>3 DEF CreateToken
<1>7. ASSUME Watch, UNCHANGED requests, UNCHANGED lastIds, channels' \subseteq channels,
             \A a \in Admins : minting'[a] \subseteq minting[a]
      PROVE  RequestShape'
  BY <1>2, <1>3, <1>7, RowsShrink
<1>8. ASSUME NEW c \in channels, DeleteChannel(c) PROVE RequestShape'
  BY <1>7, <1>8 DEF DeleteChannel, Quick, calls
<1>9. ASSUME NEW a \in Admins, NEW r \in Rooms,
             DeleteChannelsForRoom(a, r) \/ LeaveRoom(a, r)
      PROVE  RequestShape'
  BY <1>7, <1>9 DEF DeleteChannelsForRoom, LeaveRoom, registry
<1>10. ASSUME NEW r \in Rooms, Join(r) PROVE RequestShape'
  BY <1>7, <1>10 DEF Join, registry, calls
<1>11. ASSUME NEW a \in Admins, CreateTokenFails(a) PROVE RequestShape'
  BY <1>7, <1>11 DEF CreateTokenFails, registry, TypeOK
<1>12. ASSUME NEW t \in tokens,
              DeleteToken(t) \/ \E c \in channels : UpdateToken(t, c)
       PROVE  RequestShape'
  BY <1>7, <1>12 DEF DeleteToken, UpdateToken, Quick, calls
<1>13. ASSUME NEW q \in Requests, Ingest(q) PROVE RequestShape'
  <2>1. Watch /\ UNCHANGED <<registry, calls>>
    BY <1>13 DEF Ingest, FindToken, PreloadChannel, Reject, EnqueueOutbox
  <2>2. Rows' = Rows /\ lastIds' = lastIds
    BY <2>1 DEF Rows, registry, calls
  <2> SUFFICES ASSUME NEW p \in Requests
               PROVE  /\ pc'[p] \in {"start", "found"} => route'[p] = NoRoom
                      /\ route'[p] \in routes'[p] \cup {NoRoom}
                      /\ Accepted(p)' => entry'[p] = route'[p]
                      /\ \A t \in presented'[p] :
                           /\ t.channel <= lastIds'.channel
                           /\ \A c \in Rows' : c.id = t.channel => c.room \in routes'[p]
    BY DEF RequestShape
  <2>3. CASE p # q
    <3>1. /\ pc'[p] = pc[p] /\ presented'[p] = presented[p]
          /\ route'[p] = route[p] /\ entry'[p] = entry[p]
      BY <1>13, <2>3 DEF Ingest, FindToken, PreloadChannel, Reject, EnqueueOutbox, TypeOK
    <3> QED
      BY <1>2, <2>1, <2>2, <3>1, ShapeKept
  <2>4. CASE p = q
    <3>1. routes[q] \subseteq routes'[q] /\ Leads(q)' \subseteq routes'[q]
      BY <2>1 DEF Watch
    <3>2. ASSUME NEW t \in tokens, FindToken(q, t)
          PROVE  /\ t.channel <= lastIds.channel
                 /\ \A c \in Rows : c.id = t.channel => c.room \in Leads(q)'
      <4>1. presented'[q] = {t} /\ UNCHANGED <<channels, tokens>>
        BY <3>2 DEF FindToken, registry, TypeOK
      <4>2. ASSUME NEW c \in Rows, c.id = t.channel PROVE c \in channels
        <5>1. PICK d \in channels : d.id = t.channel
          BY DEF TokensHaveChannels
        <5> QED
          BY <4>2, <5>1 DEF UniqueRows, Rows
      <4> QED
        BY <4>1, <4>2 DEF Leads, UniqueRows
    <3>3. ASSUME NEW t \in tokens, FindToken(q, t) PROVE presented'[q] = {t} /\
            pc'[q] = "found" /\ route'[q] = NoRoom
      BY <3>3 DEF FindToken, TypeOK, RequestShape
    <3>4. CASE \E t \in tokens : FindToken(q, t)
      BY <2>2, <2>4, <3>1, <3>2, <3>3, <3>4 DEF Accepted
    <3>5. ASSUME PreloadChannel(q)
          PROVE  /\ pc'[q] = "loaded" /\ presented'[q] = presented[q]
                 /\ route'[q] \in routes[q] \cup {NoRoom}
      BY <3>5 DEF PreloadChannel, TypeOK, RequestShape, Rows
    <3>6. CASE PreloadChannel(q)
      BY <2>2, <2>4, <3>1, <3>5, <3>6 DEF Accepted, RequestShape
    <3>7. CASE Reject(q)
      BY <2>2, <2>4, <3>1, <3>7 DEF Reject, Accepted, RequestShape, TypeOK
    <3>8. CASE EnqueueOutbox(q)
      BY <2>2, <2>4, <3>1, <3>8 DEF EnqueueOutbox, Accepted, RequestShape, TypeOK
    <3> QED
      BY <1>13, <3>4, <3>6, <3>7, <3>8 DEF Ingest
  <2> QED
    BY <2>3, <2>4
<1>14. CASE UNCHANGED vars
  <2>1. Rows' = Rows
    BY <1>14 DEF vars, registry, calls, Rows
  <2> QED
    BY <1>14, <2>1 DEF vars, registry, requests, RequestShape, Accepted
<1> QED
  BY <1>4, <1>5, <1>6, <1>8, <1>9, <1>10, <1>11, <1>12, <1>13, <1>14 DEF Next, Admin

--------------------------------------------------------------------------------
(* Theorems. *)

\* The inductive invariant: ids and names are unique although CreateToken may
\* insert a channel again, tokens keep their channels, and what a request has
\* read is somewhere its token led.
THEOREM RoutingInvariance == Spec => []RInv
<1>1. Init => RInv
  BY InitHolds
<1>2. RInv /\ [Next]_vars => RInv'
  BY NextType, NextUnique, NextRequests DEF RInv
<1> QED
  BY <1>1, <1>2, PTL DEF Spec

\* No accepted notification is for a room its token never led to while the
\* request ran, whatever the admin calls do meanwhile.
THEOREM NotificationsAreRouted == Spec => []NeverMisrouted
<1>1. RInv => NeverMisrouted
  BY DEF RInv, RequestShape, NeverMisrouted
<1> QED
  BY <1>1, RoutingInvariance, PTL

\* No order of creations, deletions and cascades leaves a token without its
\* channel.
THEOREM TokensKeepChannels == Spec => []TokensHaveChannels
<1>1. RInv => TokensHaveChannels
  BY DEF RInv
<1> QED
  BY <1>1, RoutingInvariance, PTL
==============================================================================
