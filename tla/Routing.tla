------------------------------- MODULE Routing -------------------------------
(***************************************************************************)
(* How a notification finds its room: channels and ingest tokens           *)
(* (internal/store/store.go), the admin calls that manage them             *)
(* (internal/api/api.go) and the ingest requests that are routed by them   *)
(* (internal/server/server.go), all at the same time.                      *)
(*                                                                         *)
(* A database transaction is one step.  What the code does in several      *)
(* calls is several steps, with any other process in between.  What routes *)
(* nothing is left out: token names, kinds, prefixes and expiry, the chart *)
(* flag of a channel, and what the requests say.  A request that presents  *)
(* no usable token, is over its rate or cannot be parsed is one that stops.*)
(***************************************************************************)
EXTENDS Naturals

CONSTANTS
  Names,        \* channel names
  Rooms,        \* room ids
  NoRoom,       \* the empty string in a room column
  Admins,       \* admin calls in flight
  Requests,     \* ingest requests
  MaxChannels,  \* bound: channels ever created
  MaxTokens     \* bound: tokens ever created

ASSUME RoutingAssumption ==
  /\ NoRoom \notin Rooms
  /\ MaxChannels \in Nat
  /\ MaxTokens \in Nat

ChannelIds == 1 .. MaxChannels
TokenIds == 1 .. MaxTokens
None == 0

Channel == [id : ChannelIds, name : Names, room : Rooms]
Token == [id : TokenIds, channel : ChannelIds]

VARIABLES
  channels,   \* the channels table
  tokens,     \* the ingest_tokens table; the id stands for the secret
  lastIds,    \* the autoincrement counters of both
  joined,     \* the rooms the bot is in
  minting,    \* the channel each CreateToken in flight has read, if any
  leaving,    \* the room each LeaveRoom in flight has cut off, if any
  pc,         \* where each request is
  presented,  \* the token row it found
  route,      \* the channel's room it read
  entry,      \* the room of the outbox entry it queued
  routes      \* history: rooms its token led to since it was found

registry == <<channels, tokens, lastIds>>
calls == <<minting, leaving>>
requests == <<pc, presented, route, entry>>
vars == <<registry, joined, calls, requests, routes>>

TypeOK ==
  /\ channels \in SUBSET Channel
  /\ tokens \in SUBSET Token
  /\ lastIds \in [channel : 0 .. MaxChannels, token : 0 .. MaxTokens]
  /\ joined \in SUBSET Rooms
  /\ minting \in [Admins -> SUBSET Channel]
  /\ leaving \in [Admins -> SUBSET Rooms]
  /\ pc \in [Requests -> {"start", "found", "loaded", "stopped", "queued"}]
  /\ presented \in [Requests -> SUBSET Token]
  /\ route \in [Requests -> Rooms \cup {NoRoom}]
  /\ entry \in [Requests -> Rooms \cup {NoRoom}]
  /\ routes \in [Requests -> SUBSET Rooms]

Init ==
  /\ channels = {}
  /\ tokens = {}
  /\ lastIds = [channel |-> 0, token |-> 0]
  /\ joined = Rooms
  /\ minting = [a \in Admins |-> {}]
  /\ leaving = [a \in Admins |-> {}]
  /\ pc = [q \in Requests |-> "start"]
  /\ presented = [q \in Requests |-> {}]
  /\ route = [q \in Requests |-> NoRoom]
  /\ entry = [q \in Requests |-> NoRoom]
  /\ routes = [q \in Requests |-> {}]

\* Where the token of request q leads now.
Leads(q) ==
  {c.room : c \in {d \in channels :
     \E t \in tokens, p \in presented[q] : t.id = p.id /\ t.channel = d.id}}

\* The history of the routes, kept by every step.
Watch == routes' = [q \in Requests |-> routes[q] \cup Leads(q)']

Idle(a) == minting[a] = {} /\ leaving[a] = {}

\* A call that is done within one transaction, or refused by it.
Quick == UNCHANGED <<joined, calls, requests>> /\ Watch

--------------------------------------------------------------------------------
(* Channels. *)

\* Mutant: the id of a deleted channel is given out again.
FreshChannel_reused ==
  CHOOSE i \in 1 .. MaxChannels + 1 :
    /\ \A c \in channels : c.id < i
    /\ i > 1 => \E c \in channels : c.id = i - 1

\* The primary key is AUTOINCREMENT: ids are not reused.
FreshChannel == lastIds.channel + 1

\* An alias is resolved to the room's id before the insert; the bot need not
\* be in the room.  A name that is taken is refused.
CreateChannel(n, r) ==
  /\ lastIds.channel < MaxChannels
  /\ \A c \in channels : c.name # n
  /\ channels' = channels \cup {[id |-> FreshChannel, name |-> n, room |-> r]}
  /\ lastIds' = [lastIds EXCEPT !.channel = lastIds.channel + 1]
  /\ UNCHANGED tokens
  /\ Quick

\* Refused while the channel has tokens.
DeleteChannel(c) ==
  /\ \A t \in tokens : t.channel # c.id
  /\ channels' = channels \ {c}
  /\ UNCHANGED <<tokens, lastIds>>
  /\ Quick

\* Mutant: the cascade forgets the tokens of the channels it deletes.
CutOff_channels(r) == {}

\* The tokens that go with the channels of a room.
CutOff(r) == {t \in tokens : \E c \in channels : c.room = r /\ t.channel = c.id}

\* LeaveRoom deletes the room's channels and their tokens first ...
DeleteChannelsForRoom(a, r) ==
  /\ Idle(a)
  /\ tokens' = tokens \ CutOff(r)
  /\ channels' = {c \in channels : c.room # r}
  /\ leaving' = [leaving EXCEPT ![a] = {r}]
  /\ UNCHANGED <<lastIds, joined, minting, requests>>
  /\ Watch

\* ... then the bot leaves, unless the homeserver refuses.  Either way the call
\* is over and the channels stay deleted.
LeaveRoom(a, r) ==
  /\ leaving[a] = {r}
  /\ \/ joined' = joined \ {r}
     \/ UNCHANGED joined
  /\ leaving' = [leaving EXCEPT ![a] = {}]
  /\ UNCHANGED <<registry, minting, requests>>
  /\ Watch

\* The bot accepts an invite.
Join(r) ==
  /\ r \notin joined
  /\ joined' = joined \cup {r}
  /\ UNCHANGED <<registry, calls, requests>>
  /\ Watch

--------------------------------------------------------------------------------
(* Tokens. *)

\* CreateToken reads the channel by its name ...
GetChannel(a, c) ==
  /\ Idle(a)
  /\ minting' = [minting EXCEPT ![a] = {c}]
  /\ UNCHANGED <<registry, joined, leaving, requests>>
  /\ Watch

\* Mutant: a channel of the same name is no obstacle.
Saved_twice(c) ==
  IF \E d \in channels : d.id = c.id THEN channels ELSE channels \cup {c}

\* The insert carries the channel it read as an association, which GORM
\* inserts along with the token unless a row with its id or name is there.
Saved(c) ==
  IF \E d \in channels : d.id = c.id \/ d.name = c.name
  THEN channels ELSE channels \cup {c}

\* ... and inserts the token.
CreateToken(a, c) ==
  /\ minting[a] = {c}
  /\ lastIds.token < MaxTokens
  /\ \E d \in Saved(c) : d.id = c.id
  /\ channels' = Saved(c)
  /\ tokens' = tokens \cup {[id |-> lastIds.token + 1, channel |-> c.id]}
  /\ lastIds' = [lastIds EXCEPT !.token = lastIds.token + 1]
  /\ minting' = [minting EXCEPT ![a] = {}]
  /\ UNCHANGED <<joined, leaving, requests>>
  /\ Watch

\* The insert fails: the token's name is taken, the foreign key refuses a
\* channel whose name now belongs to another, or the database is gone.
CreateTokenFails(a) ==
  /\ minting[a] # {}
  /\ minting' = [minting EXCEPT ![a] = {}]
  /\ UNCHANGED <<registry, joined, leaving, requests>>
  /\ Watch

\* A token is moved to another channel.
UpdateToken(t, c) ==
  /\ tokens' = (tokens \ {t}) \cup {[t EXCEPT !.channel = c.id]}
  /\ UNCHANGED <<channels, lastIds>>
  /\ Quick

DeleteToken(t) ==
  /\ tokens' = tokens \ {t}
  /\ UNCHANGED <<channels, lastIds>>
  /\ Quick

--------------------------------------------------------------------------------
(* Ingest requests. *)

\* ResolveToken finds the row of the presented secret ...
FindToken(q, t) ==
  /\ pc[q] = "start"
  /\ presented' = [presented EXCEPT ![q] = {t}]
  /\ pc' = [pc EXCEPT ![q] = "found"]
  /\ UNCHANGED <<registry, joined, calls, route, entry>>
  /\ Watch

\* ... and preloads its channel with a second query, which leaves the zero
\* value when it finds none.
PreloadChannel(q) ==
  /\ pc[q] = "found"
  /\ LET found == {c \in channels : \E t \in presented[q] : c.id = t.channel} IN
       \/ \E c \in found : route' = [route EXCEPT ![q] = c.room]
       \/ found = {} /\ UNCHANGED route
  /\ pc' = [pc EXCEPT ![q] = "loaded"]
  /\ UNCHANGED <<registry, joined, calls, presented, entry>>
  /\ Watch

\* Refused: no such token, too many requests, no sense in the body, or an
\* insert that failed.
Reject(q) ==
  /\ pc[q] \in {"start", "found", "loaded"}
  /\ pc' = [pc EXCEPT ![q] = "stopped"]
  /\ UNCHANGED <<registry, joined, calls, presented, route, entry>>
  /\ Watch

\* queueEntry copies the room that was read with the token; the entry is in the
\* outbox, and the request is answered 200.
EnqueueOutbox(q) ==
  /\ pc[q] = "loaded"
  /\ entry' = [entry EXCEPT ![q] = route[q]]
  /\ pc' = [pc EXCEPT ![q] = "queued"]
  /\ UNCHANGED <<registry, joined, calls, presented, route>>
  /\ Watch

--------------------------------------------------------------------------------
Admin ==
  \/ \E n \in Names, r \in Rooms : CreateChannel(n, r)
  \/ \E c \in channels : DeleteChannel(c)
  \/ \E a \in Admins, r \in Rooms : DeleteChannelsForRoom(a, r)
  \/ \E a \in Admins, r \in Rooms : LeaveRoom(a, r)
  \/ \E r \in Rooms : Join(r)
  \/ \E a \in Admins, c \in channels : GetChannel(a, c)
  \/ \E a \in Admins : \E c \in minting[a] : CreateToken(a, c)
  \/ \E a \in Admins : CreateTokenFails(a)
  \/ \E t \in tokens, c \in channels : UpdateToken(t, c)
  \/ \E t \in tokens : DeleteToken(t)

Ingest(q) ==
  \/ \E t \in tokens : FindToken(q, t)
  \/ PreloadChannel(q)
  \/ Reject(q)
  \/ EnqueueOutbox(q)

Next == Admin \/ \E q \in Requests : Ingest(q)

Spec == Init /\ [][Next]_vars

--------------------------------------------------------------------------------
(* Properties. *)

Accepted(q) == pc[q] = "queued"

\* A notification is never misrouted.  Whatever operators move, delete and
\* re-create while a request is on its way, its entry is for a room that its
\* token led to at some moment since it was presented, or for no room at all.
NeverMisrouted ==
  \A q \in Requests : Accepted(q) => entry[q] \in routes[q] \cup {NoRoom}

\* No token is left without its channel, although CreateToken, DeleteChannel
\* and the cascade of LeaveRoom overlap.
TokensHaveChannels ==
  \A t \in tokens : \E c \in channels : c.id = t.channel

\* What the comment of the ingest server says: "Ingest tokens are resolved
\* through the store; each token routes to its channel's room."
RoutedToChannel ==
  \A q \in Requests : Accepted(q) => entry[q] \in routes[q]

--------------------------------------------------------------------------------
(* The inductive invariant. *)

\* Ids and names are unique, among the rows and the rows calls have read, and
\* no id is given out twice.
Rows == channels \cup UNION {minting[a] : a \in Admins}

UniqueRows ==
  /\ \A c, d \in Rows : c.id = d.id => c = d
  /\ \A c, d \in channels : c.name = d.name => c = d
  /\ \A s, t \in tokens : s.id = t.id => s = t
  /\ \A c \in Rows : c.id <= lastIds.channel
  /\ \A t \in tokens : t.id <= lastIds.token /\ t.channel <= lastIds.channel

\* What a request has read, and where that leads: only to rooms its token led
\* to, for as long as any copy of the channel is left to lead there.
RequestShape ==
  \A q \in Requests :
    /\ pc[q] \in {"start", "found"} => route[q] = NoRoom
    /\ route[q] \in routes[q] \cup {NoRoom}
    /\ Accepted(q) => entry[q] = route[q]
    /\ \A t \in presented[q] :
         /\ t.channel <= lastIds.channel
         /\ \A c \in Rows : c.id = t.channel => c.room \in routes[q]

RInv ==
  /\ TypeOK
  /\ UniqueRows
  /\ TokensHaveChannels
  /\ RequestShape
==============================================================================
