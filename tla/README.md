# tocsin in TLA+

tocsin takes webhooks from Gotify, Alertmanager, Grafana, Slack and
Gitea/Forgejo senders, answers 200 once the notification is in its database,
and delivers it to end-to-end encrypted Matrix rooms. This directory models the
parts of it whose behaviour depends on order, failure or time, checks them with
TLC, and proves their central invariants with TLAPS.

Paths are relative to the repository (`src/`); `outbox.go:112` means the file
the paragraph is about.

## 1. Inventory

### The parts, their state, and how they meet

| Part | State | Operations | Talks to |
|---|---|---|---|
| Ingest endpoints (`internal/server`) | none | resolve token, limit, parse, format, queue, kick | token and outbox tables, dispatcher |
| Outbox table (`internal/store/outbox.go`) | rows with status, attempts, next attempt | enqueue, due, mark, reschedule, requeue, prune | written by handlers, admin calls and the dispatcher |
| Dispatcher (`internal/outbox`) | one goroutine, a batch of copies, a kick channel of capacity 1 | run, drain, attempt, deliver, editTarget, prune | outbox table, message mappings, bot |
| Message mappings (`internal/store/alertmessage.go`) | (room, fingerprint) -> message | record, map, prune | dispatcher |
| Sending (`internal/matrix/bot.go` 398-420, 600-765) | none | send, edit, image, retries | homeserver |
| Channels and tokens (`internal/store/store.go`, `internal/api/api.go`) | two tables, foreign key | create, delete, move, LeaveRoom cascade, resolve | admin calls, ingest endpoints |
| Admin credential (`internal/api/auth.go`, `internal/store/admin.go`) | one row and its cached copy | seed, login, change, mint | admin calls |
| Bot identity (`internal/matrix/bot.go` 420-570, `verify.go`) | cross-signing keys, secret storage, device signature, `recovery.key` | start, verify, bootstrap, reset, verify-identity | homeserver, operator |
| Sync loop and commands (`bot.go` 68-173, 571-600, `commands.go`) | first sync, sync error, joined rooms, state store, a send per goroutine | sync, join, leave, run a command, judge encryption, send with retries | homeserver, dispatcher, process |
| Interactive verification (`verification.go`) | transactions of a library helper, its lock | rewriting of events, callbacks, calls back | sync loop |
| Token checks and rate limiter (`store.go` 269-300, `internal/server/ratelimit.go`) | a row per token, a token bucket per token name | resolve, allow | ingest endpoints, admin calls |
| Process (`cmd/tocsin/main.go`) | a context, an error channel | start, alias resolution, shutdown | all |
| Receivers (`internal/ingest/*`) | none | accept or refuse, format, fingerprints, chart target | ingest endpoints |
| Charts (`internal/chart`) | none | query a range, draw columns | dispatcher, Prometheus |
| Config, logging, metrics, CLI, UI, generated code | none that matters here | | |

An ingest request reads a token and its channel, copies the channel's room into
an outbox row, and pokes the dispatcher through the kick channel. From then on
the row alone matters: the dispatcher copies due rows, sends them one at a time
and marks the rows. Admin calls change the tables at any time, from any number
of goroutines. The sync loop handles invites, commands and verification one
event at a time, and sends on its own account. The process can stop between any
two steps; the tables, the keys and the sync token stay.

### What is hard, and what makes each part correct

* **Outbox and dispatcher.** Handlers insert and kick while the dispatcher
  reads, works on copies, sleeps or is gone; each write that ends an attempt
  may fail; a reply may be lost after the message was accepted; the process may
  stop in between; entries are shared with operators. Correct means: an
  accepted entry is never lost and settles in the end; it is posted twice only
  for a reason; nothing sleeps through a kick; a failing entry is not tried more
  than once per base delay; no decision rests on a stale copy.
* **Live messages.** Mappings are read before and written after slow sends,
  backoff and requeue put notifications out of order, edits and posts are
  repeated. Correct means: a mapping leads to the last text message that
  announced the alert in its own room and was recorded, an edit never
  introduces a firing alert, and
  repeats stay on their message.
* **Routing.** Nothing but two transactions and a foreign key coordinates
  admin calls and requests. Correct means: an entry is for a room its token
  led to, and no token dangles.
* **Admission.** A token is read, then its expiry, kind and bucket are looked
  at, while its row and its name change hands; buckets live in memory, per
  name, and are never evicted. Correct means: a name gets its rate and no more,
  nobody pays for another's requests, and a revoked secret is of no use.
* **Credential.** The row and its cached copy are two writes. Correct means
  they agree, that a changer is not left with an older token, and that the
  configured password, once changed, never comes back.
* **Identity.** The set-up has five remote and local steps, each may be the
  last; the next start sees what the others left, plus what operators and other
  sessions did. Correct means a bot that came up is verified, and holds private
  keys only if `recovery.key` rebuilds them; the file suffices, is not
  overwritten, and no identity is replaced behind its users' backs.
* **Sync loop.** The sync token is saved before the events are handled, so a
  stop loses events; the state store may therefore not know that a room is
  encrypted; the loop may die while nobody listens, or hang in a handler; old
  commands come with the first response. Correct means: nothing goes out
  unencrypted, no room is refused for what the store missed, invites are
  answered, commands are run once, and trouble shows.
* **Verification.** Callbacks run under a lock that the calls they lead to
  need; the room sends the bot its own answers back; the two sides' last
  messages cross. Correct means: the bot never cancels what its peer carries
  through, and carries it through itself.
* **Formats and charts.** Two receivers are written twice over for one kind of
  payload; an entry that waited is charted with a range of its own. Correct
  means: what is accepted has a message, no alert is lost or misjudged, and
  the chart shows the alert.

`PROJECT.json` lists the hazards line by line, with the properties for each.

## 2. Modules

| Module | What it is | Extends |
|---|---|---|
| `DeliveryPromise` | abstract specification: what an accepted notification may expect | |
| `RoomPromise` | abstract specification: what the people in a room may expect of alert notifications | |
| `Outbox` | outbox table, dispatcher, handlers, process | instance of `DeliveryPromise` |
| `LiveMessages` | one delivery attempt seen from the rooms, and the mappings | instance of `RoomPromise` |
| `Routing` | channels, tokens, admin calls and ingest requests | |
| `Admission` | token checks and rate limiter, request by request | |
| `Identity` | the bot's cross-signing identity, start after start | |
| `Credential` | the admin credential and its cached copy | |
| `SyncLoop` | start and sync loop, invites, commands, and the sends of both senders | |
| `Verification` | interactive verification: dispatch, helper, callbacks | |
| `Alertmanager`, `Grafana`, `Webhooks`, `Charts` | the receivers and the charts, as operators | |
| `Formats` | a payload's way from the endpoint to a message | `Webhooks`, `Charts`; instances of `Alertmanager`, `Grafana` |
| `MCLiveMessages`, `MCRouting` | symmetry sets for TLC | |
| `MCFormats` | payloads, delays and samples for TLC | `Formats` |
| `OutboxProofs`, `LiveMessagesProofs`, `RoutingProofs`, `IdentityProofs`, `CredentialProofs`, `SyncLoopProofs`, `VerificationProofs` | theorems and proofs | their module, `TLAPS` |
| `IngestProofs` | theorems and proofs about what happens to a request | `Admission`, `Formats`, `TLAPS` |

A definition whose name has a suffix after an underscore and whose comment
begins with "Mutant" is a plausible mistake in the definition below it. No
specification uses it; putting it in the definition's place violates the
properties `PROJECT.json` names for it.

### Outbox

The variables are the columns that decide something (`status`, `attempts`, and
the two timestamps), where the goroutine is (`pc`, `batch`, `snap`, `outcome`),
the kick channel (`kick`), the process (`proc`) and the handlers between insert
and kick (`kicking`). A timestamp is kept relative to now: `age` is now minus
`created_at` and saturates at `AgeCap`, `wait` is `next_attempt_at` minus now
and stops at 0 (due). Time can thus run for ever in finitely many states.

| Code | Actions |
|---|---|
| `enqueue` (server), `Enqueue`, `Kick` | `Enqueue`, `Kick`: the commit and the non-blocking send are two steps |
| `testSend`, `RetryDelivery` | `RecordDelivery`, `RequeueOutbox` (then `Kick`) |
| `Run` | `WakeKick`, `WakePoll`, `Leave`, `PruneOutbox`, `PruneError` |
| `drain` | `Fetch`, `FetchError`, `CountPendingOutbox`, `LeaveDrain`, `NextEntry` |
| `attempt` | `DeliverSent`, `DeliverRefused`, `DeliverReplyLost`, `DeliverAgain`, then `MarkOutboxDelivered`, `MarkOutboxFailed`, `RescheduleOutbox` or `MarkError` |
| `run` (main) | `Start`, `Shutdown`, `Exit`, `Crash` |

`tries` is a ghost that counts calls of `deliver`, by the dispatcher and by test
sends, whatever becomes of the `attempts` column: an operator's retry sets the
column to 0, and a mark that fails or is cut off leaves it as it was. Each of
these excuses one try (`Excuse`, `LoseMemory`), and nothing else does.

`Exit` does not wait for the goroutine, because `run` does not. `snap` is the
copy of `attempts` the batch was read with: a mark writes `snap + 1`, not the
row's value plus one. `KeepsPromise` is the refinement: under the mapping of
statuses to `none`, `owed`, `delivered`, `failed`, `forgotten`, every step is a
step of `DeliveryPromise` or leaves it alone.

### LiveMessages

A notification is a room and two sets of fingerprints, which may overlap: the
handler does not compare them, and one payload may have an alert firing and
over (`Sizes` bounds how many there are). `unmapped` is a ghost, the text
messages whose mappings were lost: the sends nobody heard of and the records
that failed. `Begin` is `editTarget`:
all the entry's alerts must be mapped to one message, and a firing one must be
mapped already. The message is edited (`SendEdit`), or, if there is no target
or the edit fails, posted as text (`Send`) or with a chart (`SendWithImage`);
its mapping is recorded afterwards (`RecordAlertMessages`) and the row marked
last. `SendAgain` is an attempt of `retrySend` whose predecessor was accepted
although its reply was lost. Any pending entry may be attempted next: that is
what backoff, requeue and restart add up to, so the queue itself is not here.
The rooms are `origin`, `shows` and `kind`: what each message was posted for,
what it shows now, and whether it is text or an image.

`KeepsRoomPromise` is the refinement: with the table, the mappings, the attempt
and its failures hidden, what is left of a behaviour is a behaviour of
`RoomPromise`, in which messages `Announce` a notification and texts `Settle`
into another that reports the end of something they announced, for the same
room, and fires nothing else. `Announced` and `Shown` map a message to the
notification it was posted for and the one it shows, `Images` names the charts.

### Routing

Each transaction is one step, each sequence of calls is several.
`CreateToken` is `GetChannel` (read) and `CreateToken` (insert); `LeaveRoom` is
the cascade and the request to the homeserver; a request is `FindToken`,
`PreloadChannel` (Preload is a query of its own) and `EnqueueOutbox`. The
insert of a token carries the channel it read as an association: GORM inserts
that row too, doing nothing on a conflict (`Saved`). Ids are AUTOINCREMENT and
never reused (`FreshChannel`); foreign keys are on (`store.go:93`).

### Admission

A request goes through `Present`, `FindToken` (the row is read by its hash),
`Resolve` or `Unauthorized` (kind and expiry of the copy), `GetLimiter` (the map
of limiters, under its mutex), `Allow` or `RateLimited` (the bucket, after the
mutex is released), `Accept` or `HandlingFails`, and `Respond`. Meanwhile
`CreateToken`, `UpdateToken` and `DeleteToken` change rows; a name may come back
with another secret. A tick ages tokens, the copies that were read included,
and fills buckets; `Restart` drops the buckets and may change `per_second`.
`flood` is a ghost: for each name the largest excess, over all windows that end
now, of what it was let in for above what the rate gave in the window.

### Identity

An identity is a number that stands for its keys and its recovery key. One
start is `Start`, then `GetOwnVerificationStatus` and one of three branches:
`LoadCrossSigningPrivateKeys` (verified), `VerifyWithRecoveryKey` (keys, not
verified) or `Guard` and the bootstrap (no keys); with `--reset-identity` it is
`NukeOtherDevices` and the bootstrap. The bootstrap is `UploadSecrets`,
`PublishKeys`, `SignOwnDevice`, `PersistRecoveryKey`; `Stop` may come between
any two, and during the last it may leave a truncated file. `LoseDatabase`,
`ReplaceRecoveryKey`, `WipeServer` and `ResetElsewhere` are the environment.
`VerifyIdentity` is not an action but the condition the command establishes.
`ReadyIsRecoverable` says of a bot that came up, first, that its device is signed
by the published identity; second, that if it holds that identity's private keys,
`VerifyIdentity` is true; both hold after whatever half-finished starts, and are
excused only when another session reset the account during this very start.
Third, `VerifyIdentity` holds unless the published identity was made by a set-up
that was cut short or by another session, or its file was taken away. In that
last case the bot is up and verified, without the private keys.

### Credential

Every write of the row is a version. A change is `ChangePassword` (checked
against the cached copy), `UpdateAdminPassword` (the transaction) and
`SetCredential` (the cached copy, under the lock), then `Mint`.
`SeedAdminCredential` is the start, `DeleteRow` the operator's way out
(README.md:174). A ghost remembers which version the last start seeded, and
whether a change has committed since; versions seeded from the configuration all
have the configured password.

### SyncLoop

`life` is where `run` is: `first` (Start waits for the first sync), `verify`
(the rest of the start), `up`. `loop` is the goroutine in `SyncWithContext`.

| Code | Actions |
|---|---|
| `New`, `Start`, `run` (main) | `Start`, `FirstSynced`, `Verified`, `SyncDied`, `Stop` |
| `SyncWithContext` and its handlers | `Respond` (token saved, events taken), `SyncDies`, `Handled` |
| `handleMember` | `JoinRoom`, `DeclineInvite`, `InviteFails` |
| `handleMessage`, `runCommand` | `IgnoreMessage`, `RunCommand`, then a send as caller `loop` |
| `roomEncrypted` | `AskStore`, `AskFails`, `Refetch`, `RefetchFails`, `AskAgain`, `Refuse` |
| `retrySend`, `SendMessageEvent` | `SendAccepted`, `SendFails` |
| `Healthy` | the operator of that name, with `Tick` |

The homeserver is `membership`, `encrypted` and `unseen`, the events behind the
saved token; people `Invite`, `Remove`, `Encrypt` and `Post`. The two callers,
the loop and the dispatcher, interleave at every step of a send. Events of one
response are handled in any order, which includes the order of the code.

### Verification

The peer's steps and the bot's answers are numbered (request, start, key, mac,
done against ready, accept, key, mac, done). The sync loop takes one event at
a time (`TakeStep`, `TakeQuit`, `TakeEcho`) and runs its handlers in the order
of their registration: `Normalize` is `normalizeInRoomVerificationEvent`, the
`Helper...` and `Handle...` actions are the library's handler under
`activeTransactionsLock`. `CallBack` is what the callbacks leave behind: a call
by a goroutine, which takes the lock itself (`CallLocks`, then
`AcceptVerification` or `ConfirmSAS`). The helper is external; it is modelled as
far as the code's comments and calls rely on it.

### Formats

`Queue` and `Refuse` are an ingest handler: parse, `applyPrefix`, `correlate`,
the chart target, the entry. `SendText` and `SendChart` are its delivery after
a delay. Alertmanager's and Grafana's receivers are operators of modules of
their own, because the code has them twice; `Webhooks` has Gotify, Slack and
Gitea/Forgejo; `Charts` has the queried range, its step, the series kept and
the columns. Texts are sequences of parts, of which only emptiness and what a
property tells apart count: an alert's line is its mark and where its link
leads; the wording of titles (counts, group names, repositories, users) and the
order in which Slack's texts are joined are left out. The receivers' loops are
functions over the places of a list, and the points of a series an arithmetic
sequence, not recursions, so that they can be reasoned about.

## 3. Runs

| Run | Shows | Distinct states (about) |
|---|---|---|
| `outbox` | two entries, two disturbances, backoff up to its cap: `IInv`, `BatchIsFresh`, `DuplicatesExplained`, `NoLostWakeup`, `RetriesAreSpaced`, the refinement `KeepsPromise`, and `EventuallySettled` | 629 k |
| `live` | three notifications of one or two alerts, charted or not, two rooms, one disturbance: `LInv`, `MappingsAnnounced`, `EditsAnnounceNothing`, `RepeatsReEdit`, the refinement `KeepsRoomPromise` | 2.6 M, up to symmetry |
| `routing` | two admin calls and a request: `RInv`, `NeverMisrouted`, `TokensHaveChannels` | 91 k, up to symmetry |
| `identity` | `IdentityInv`, `ReadyIsRecoverable`, `SingleFileSuffices`, `NothingOverwritten` | 61 k |
| `credential` | three callers: `CInv`, `CacheFollowsRow`, `CallerSurvivesRotation`, `ChangesSurviveRestarts` | 357 k |
| `sync` | a room, a message, both senders: `SInv`, `EncryptionJudged`, `CommandsOnce`, `SyncTroubleNoticed` | 221 k |
| `verification` | a transaction in a room and one from device to device: `VInv`, `NeverCancelsItself`, `NobodyIsStuck`, `EventuallyVerified` | 628 k |
| `admission` | two requests, two secrets of one name: `AInv`, `RateKept`, `RevokedStaysOut` | 1.37 M |
| `formats` | payloads of all receivers: `NothingEmpty`, `AlertsAccountedFor`, `ChartShowsAlert` | 72 k |
| `routing_empty` | violated: `RoutedToChannel` | |
| `credential_cache` | violated: `RowIsAuthoritative` | |
| `chart_alignment` | violated: `PointsAtTheirTimes` | |

Each run named "violated" checks one statement of the repository that the code
does not keep; section 5 says which.

### Bounds, and why they are enough

* *Outbox.* A batch of two is the smallest queue where an entry waits behind
  another and is re-queued beside a copy of itself, and where reading again
  matters: an entry that is inserted or re-queued while a batch is worked on is
  not in it. The batch's own limit does not bite with two entries (three entries
  take the run beyond minutes); that `Fetch` may leave due entries out is in the
  model all the same, and `NoLostWakeup` is proved for every `BatchSize`, with a
  lemma (`EmptyBatch`) for the one fact about the limit it needs: a read that
  returns nothing found nothing due. `AgeCap` is no less than any age that
  is compared. The
  retention is below the maximum pending age, so that entries are past it while
  they are pending; the backoff schedule 2, 3, 3 reaches its cap by overshooting
  it. Two disturbances (failed reads and writes, lost replies, stops, crashes,
  operator retries) are a cause for a duplicate and an interruption of it.
* *LiveMessages.* Three notifications are one that announces, one that settles,
  one that repeats or fires again; with two rooms and two alerts, groups can
  split and merge, and an alert can be posted as an image, as text, or as one
  after the other. Rooms are interchangeable. One disturbance puts an entry
  back, loses a reply or fails an entry for its age; an operator's retry comes
  on top of that.
* *Routing.* `MaxChannels = MaxTokens = 2` lets a channel be deleted and its
  name taken while calls hold the old id.
* *Identity, Credential.* `MaxIdentities = 4` is two resets of the bot's own,
  one elsewhere and a first identity. `MaxVersions = 5` with three callers is
  two overlapping changes and a third after them, with a re-seed.
* *SyncLoop.* Nothing relates two rooms but their callers, and both callers can
  be at the one room; one message is enough to be run twice, or too late. Three
  attempts are the code's own number; `StaleAfter = 1` leaves a tick in which
  the bot is quiet and still healthy.
* *Verification.* Two transactions share a lock and a loop, and nothing else;
  one is of each kind, so that one's echoes fall between the other's steps. One
  failure or restart breaks off either or both.
* *Admission.* One name with two secrets is the case the limiter is keyed
  for: a second name shares nothing with it. That nobody is throttled for
  another name's requests is therefore left to the theorem; two names, two
  requests and bursts of two take the run beyond minutes. `Rates = {0, 1}` switches the
  limiter off and on, a request costs two ticks, and a burst is two requests, so
  buckets are full, empty and in between. `MaxLife = 1` expires a token between
  any two steps of a request.
* *Formats.* Up to two alerts of every combination of status, name, severity and
  fingerprint, and of every combination of status, link, onset and consent: all
  the code folds over a list but never relates three elements of it; some
  triples are there besides. One sample has two series more than a chart keeps. Onsets
  lie on both sides of the window's edge, delays are none, a retry's and three
  days.

The theorems hold for every value of all these bounds.

`CHECK_DEADLOCK FALSE` is set where the end of a behaviour is an end in the
system as well: `live` (all notifications are settled), `verification` (all
transactions are through or broken off), `formats` and `chart_alignment` (one
payload was refused or sent).

### Fairness

* `EventuallySettled` assumes that the dispatcher's goroutine keeps running and
  its poll ticker keeps firing (`Fetch`, `CountPendingOutbox`, `WakePoll`,
  `PruneOutbox`), that an attempt ends in some way (`DeliverSent \/
  DeliverRefused`; there is a timeout per attempt) and is marked, that time
  passes, that a stopping process exits and that a supervisor starts it again
  (`main.go:208-210` relies on it). It does not assume that the homeserver ever
  accepts anything, that a kick is ever heard (`WakeKick` is not fair), or that
  anybody retries.
* `SyncTroubleNoticed` assumes that a `select` takes what is ready
  (`FirstSynced`, `SyncDied`), that the rest of a start ends (`Verified`; it has
  timeouts) and that time passes. Nothing is assumed of the loop: not that the
  homeserver answers, nor that a handler returns. The process may stop at any
  time, but need not.
* `EventuallyVerified` assumes that the sync loop goes on while a step of it is
  possible, that the goroutines of the callbacks run, and that a peer who has
  not quit sends its next step when it is its turn.

All fairness is weak.

## 4. Proofs

For every value of the constants, from the assumptions named in the modules
(sizes are natural numbers, the base delay is positive and not above the cap,
ages are distinguished beyond the limits, the empty room is no room, the
rates and the burst are integers, `KindAny` is no endpoint, no transaction is
named "loop", an alert is of one of two statuses and has a time or none, the
number of commits is a natural number, the series of a query are finitely many).
Each proof has an inductive invariant, of named parts, and for each part a lemma
with one step per action:

* **Outbox** (`IInv`). None of the properties is inductive alone. Freshness of
  the batch needs the shape of the dispatcher (only entries at hand are in a
  batch, with a result only at `mark`). `RetriesAreSpaced` needs the sharper
  count of `SpacedOut`: an entry that waits has been tried at most once per base
  delay of its age and its wait together (`Ahead`), since a reschedule waits at
  least the base delay and time turns wait into age; and once it is older than
  the maximum it has at most one try left (`LastTry`), which gives up. A try the
  table never learnt of, or an operator's retry, is taken off the count when it
  happens, so that the same bound holds for what follows.
  `NoLostWakeup` is proved from the moment the
  empty read ends the drain (`WakeupPending`), since the wakeup may be lost
  before the goroutine sleeps. `KeepsPromise` follows step by step, with
  `DeliveredWasPosted` for the step that calls an entry delivered.
* **LiveMessages** (`LInv`). An edit is harmless because of what the attempt
  carries: from `Begin` to `SendEdit` the target satisfies `EditableAt`
  (`AttemptShape`), since nobody but the dispatcher writes mappings, and a
  message never changes the announcement it was posted for. `ReeditsStand` says
  that what was settled by an edit could be settled by the same edit now, because
  mappings change only after a post or by the pruning; `RepeatsReEdit` follows with
  `OneTarget`: an entry can be edited into one message only. `KeepsRoomPromise`
  has a lemma for each kind of step: nothing seen in the rooms
  (`BoardStutters`), a post that announces (`AppearAnnounces`), an edit that
  settles (`EditSettles`), where `MappingsAnnounced` gives what the target
  announced. `EditsStayInRoom` and `ImagesStay`, parts of `LInv`, have theorems of
  their own; for the rooms they follow from the promise.
* **Routing** (`RInv`). The token's channel is found by id; `UniqueRows` covers
  the rows calls have read as well as the table's, because one of them may be
  inserted again, and `RequestShape` says that any surviving copy of the
  channel leads where the token led before.
* **Admission** (`AInv`). `BucketsTrue` turns the statement about all windows
  into one about the present: what a name has had in excess is exactly what is
  missing from its bucket. Both halves of `RateKept` follow, and both break if
  a limiter goes away with its token. `GoodNoted` follows a secret from the row
  through the copy to the end of the request.
* **Identity** (`IdentityInv`). The invariant says for each point of a start
  what is published, stored, signed and written, or else who touched it; that a
  start has private keys only after it loaded or made them (`Path`, `Verified`)
  gives the second part of `ReadyIsRecoverable`.
  `NothingIsOverwritten` is proved from its two halves, `TheFileIsKept` and
  `TheIdentityIsKept`; `ResetsAreComplete` is proved besides.
* **Credential** (`CInv`). Without an overlap at most one change is between
  its writes, and then the row is the one it wrote (`OneChangeAtATime`);
  versions are never written twice, so no caller takes another's for its own
  (`CacheReachesChangers`, `ChangerHoldsToken`). That the configured password
  stays out does not need the absence of overlaps: a seed is written only by a
  start that found no row, so it is none of the versions callers wrote
  (`SeedComesFirst`), and the cached copy is the row a start found or one of
  those.
* **SyncLoop** (`SInv`). `StoreIsTrue`: the store is never ahead of the
  homeserver, and a call that got past a question carries the answer with it;
  hence `EncryptionJudged`. `MessagesOnce`: a message is behind the token or in
  a response, once, and is old if a start came after it; hence `CommandsOnce`.
  `LifeShape` and `InvitesAnswered` complete it: an invite that stands is still
  to be handled, or failed, or was cut off by a stop.
* **Verification** (`VInv`). `FollowsProtocol` ties, for every transaction that
  nobody broke off, the steps handled to the answers sent and to the calls that
  are still to run (`InStep` names the pairs in which the two MACs cross). What
  the helper gets is then what it expects, so it cancels nothing.
  `DispatchShape` says why an echo never reaches it, and that every lock is held
  by somebody who can give it back. From both follows `NobodyIsStuck`: with an
  event at hand the loop or the holder of the lock gets on (`BusyMoves`), and
  without one the answer a transaction lacks is owed by a call of its own, or
  it is the peer's turn (`QuietMoves`). It is the part of `EventuallyVerified`
  that does not depend on fairness.

* **Formats** (`FormatsInv`). Induction is needed only to carry the request: an
  entry is that of its request, a message that of its entry, and there is no
  chart before it is sent (`RequestCarried`). The rest is about operators.
  `NothingEmpty`: every receiver either refuses or returns a title or a body
  with something in it (`Telling`, a lemma per receiver), and prefix, entry and
  markdown only add to it. `AlertsAccountedFor`: both receivers give the
  reference's priority, lines and fingerprints for any list of alerts
  (`AlertsTell`).
  `ChartShowsAlert`: for a range of at least the window, the share and the
  number of steps bound each other (`QuotientBetween`, `RangeAndStep`), and the
  series that are kept inject into `MaxSeries` ranks (`FirstOnes`).

The theorems state the properties of the runs and are listed in
`PROJECT.json`.

Only model-checked: the liveness properties `EventuallySettled`,
`EventuallyVerified` and `SyncTroubleNoticed`, which are beyond the provers as
are fairness and ENABLED; and that the three statements of section 5 fail.
Every other property of a run is a theorem.

## 5. Where the repository disagrees with itself

* `server.go:48`: "each token routes to its channel's room". A cascade between
  the two queries of `ResolveToken` leaves the entry without a room, and the
  request is answered 200 (`routing_empty`).
* `README.md:168`: "After the first start the database row is authoritative".
  Two overlapping changes leave the older one in the cache until the next
  restart (`credential_cache`).
* `chart.go:154`: "go-charts wants aligned columns: use the longest series for
  the X axis and pad the others with nulls". The padding is at the end only, so
  a series that begins later than the longest one is drawn from the left edge,
  at times that are not its own (`chart_alignment`).

Seen while modelling, without a run of their own:

* `store/outbox_test.go:71`, "requeue restarts the backoff schedule": an entry
  that failed for its age fails again at the first failed attempt, for its age
  still runs from `created_at`.
* `alertmessage.go:44`, "Mappings die by being re-pointed (alert fires again)":
  in a payload that also resolves another alert of the message, an alert that
  fires again is a silent edit. The models contain it and the room promise allows
  it: no line of the repository says that such an alert is posted, so no property
  does.
* `editTarget` does not see a firing alert that has no fingerprint, so a silent
  edit may be the first message to show it.
* `store.go:143`, the cascade "removes every channel bound to a room": a
  `CreateToken` that read the channel before puts it back.
* `README.md:92`, the refusal of an unencrypted room is "permanently, not
  retried": `attempt` (`outbox.go:132`) treats it like every other error, with
  backoff, until the maximum age.
* `outbox.go:108`, entries that fail are rescheduled, "so the loop terminates":
  when `RescheduleOutbox` itself fails the entry stays due and the same loop
  attempts it again at once. `RetriesAreSpaced` says how far this goes: each
  failed write allows one try that is not spaced, so a database that refuses
  every write lets the loop spin for as long as it does.
* `config.go:49`: retention is documented as how long settled entries are kept,
  but counts from creation (`store/outbox.go:149`).
* `admin.proto:32`: LeaveRoom is "refused while a channel still maps to it"; the
  handler deletes the channels (`api.go:149`).

## 6. What the models leave out

* *Content*: rendering to HTML, encryption itself, the upload of images,
  drawing, the wording of titles and lines, the conversion of Slack's links. That
  there is a title, prefixes and priorities are in `Formats`, and not in the
  modules about delivery.
* *retrySend* is step by step in `SyncLoop`; `Outbox` and `LiveMessages` allow as
  many repeats as the budget does. A test send is one step of `Outbox`.
* *Composition.* A delivery of `Outbox` is an attempt of `LiveMessages` and a
  send of `SyncLoop`; they meet in what each assumes of the other (sent,
  refused, reply lost, sent again), and are not composed into one state space.
* *Transactions* are atomic, and so is a single statement; SQLite and
  Postgres are taken to do that. What GORM adds to a statement is modelled
  where it matters (associations, Preload, AUTOINCREMENT).
* *mautrix* calls are modelled by what they change on the homeserver. A
  generation of keys uploads the secrets, then publishes the keys. That
  `SignOwnDevice` is two uploads does not show. The verification helper is as
  far as the code and its comments rely on it. `pickle.key` is one write that a
  crash of the very first start may truncate; what is left is then the key,
  if it decodes, a shorter one but the same from then on. That is not modelled.
* *Routing* has no alias that is rewritten at a start (`resolveAliasChannels`):
  an alias is resolved before the channel is created. `UpdateChannel`'s write of
  the chart flag is an input of `Formats`, and `last_used_at` is only shown.
* *Credential* has no expiry of sessions and no limiter of logins; a call that
  is refused is no action. A session token is the version that signed it.
* *Order.* The code promises none between notifications of different entries;
  `LiveMessages` takes them in any order and shows what holds all the same.

## 7. Not modelled

Configuration (read once; `validate` tests for missing values), logging and
metrics (write-only), the web UI (browser code over the admin API), the
generated RPC code, the command line tools (one-shot clients). They keep no
state that outlives a call, and nothing in them depends on order. What is left
of the components that are "partly" modelled is named in `PROJECT.json`: the
alias rewrite at a start, the chart flag's update, the pixels of a chart, and
the lookups of a test send.
