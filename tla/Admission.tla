------------------------------- MODULE Admission -------------------------------
(***************************************************************************)
(* What lets an ingest request in: the token it presents                   *)
(* (internal/store/store.go), with its endpoint kind and its expiry, and   *)
(* the rate limiter (internal/server/ratelimit.go), as the handlers of      *)
(* internal/server/server.go go through them, while the admin API creates, *)
(* updates and deletes tokens and the process restarts.                    *)
(*                                                                         *)
(* A secret is a plaintext token and the hash that is stored of it.  Time  *)
(* is in ticks.  A bucket's level is in units: a request takes Cost, a tick *)
(* gives rate, and it holds Burst * Cost.                                  *)
(***************************************************************************)
EXTENDS Integers

CONSTANTS
  Names,        \* token names
  Secrets,      \* secrets that may be minted, each once
  Endpoints,    \* endpoint kinds
  Any,          \* KindAny
  Requests,     \* requests in flight
  Rates,        \* values of per_second; 0 or less switches the limiter off
  Cost,         \* units of a request
  BurstConfig,  \* burst
  MaxLife       \* bound: ticks of life a token is given

ASSUME AdmissionAssumption ==
  /\ Rates \subseteq Int /\ BurstConfig \in Int
  /\ Cost \in Nat \ {0} /\ MaxLife \in Nat
  /\ Any \notin Endpoints

Kinds == Endpoints \cup {Any}

\* The ticks until expires_at has passed, or no expires_at.
Never == -1
Expiries == 0 .. MaxLife \cup {Never}
Expired(tok) == tok.life = 0

\* newLimiters.
Burst == IF BurstConfig <= 0 THEN 1 ELSE BurstConfig
Full == Burst * Cost

Tokens == [name : Names, kind : Kinds, life : Expiries]
None == [life |-> Never]

VARIABLES
  rate,     \* per_second of the running process
  token,    \* per secret: its row, or None
  minted,   \* secrets that have been given out
  present,  \* names with a limiter in the map
  level,    \* per key: what is left in its bucket
  at,       \* where each request is
  secret,   \* the secret it presents
  endpoint, \* the kind of the endpoint it came in at
  copy,     \* the row it read
  good,     \* ghost: while it ran, its secret was good at its endpoint
  flood,    \* ghost: per name, the largest excess over rate of what was let in
            \* since any moment after the start
  wronged   \* ghost: a request was throttled that kept within its rate

table == <<token, minted>>
buckets == <<rate, present, level>>
requests == <<at, secret, endpoint, copy>>
ghosts == <<good, flood, wronged>>
vars == <<table, buckets, requests, ghosts>>

Stages == {"idle", "find", "check", "limit", "allow", "handle", "accepted"}

\* newLimiters.
Limited == rate > 0

Init ==
  /\ rate \in Rates
  /\ token = [s \in Secrets |-> None]
  /\ minted = {}
  /\ present = {}
  /\ level = [n \in Names \cup Secrets |-> Full]
  /\ at = [r \in Requests |-> "idle"]
  /\ secret \in [Requests -> Secrets]
  /\ endpoint \in [Requests -> Endpoints]
  /\ copy = [r \in Requests |-> None]
  /\ good = [r \in Requests |-> FALSE]
  /\ flood = [n \in Names |-> 0]
  /\ wronged = FALSE

Live(s) == token[s] # None
HasName(n) == \E s \in Secrets : Live(s) /\ token[s].name = n

\* The test of ResolveToken.
Admits(tok, k) == tok.kind \in {Any, k} /\ ~Expired(tok)

\* A request whose secret is good in the table, as it has become.
Good(tokens, r) == tokens[secret[r]] # None /\ Admits(tokens[secret[r]], endpoint[r])
Noted(tokens) ==
  [r \in Requests |-> good[r] \/ (at[r] # "idle" /\ Good(tokens, r))]

--------------------------------------------------------------------------------
(* The admin API. *)

SetToken(s, tok) ==
  /\ token' = [token EXCEPT ![s] = tok]
  /\ good' = Noted(token')

\* The interval between now and expires_at; an expires_at in the past is refused.
NewExpiries == Expiries \ {0}

CreateToken(s, n, k, life) ==
  /\ s \notin minted /\ ~HasName(n)
  /\ minted' = minted \cup {s}
  /\ SetToken(s, [name |-> n, kind |-> k, life |-> life])
  /\ UNCHANGED <<buckets, requests, flood, wronged>>

\* clearExpiry or a new expires_at; a nil one leaves it.  An expired token may
\* be revived.
UpdateToken(s, life) ==
  /\ Live(s)
  /\ SetToken(s, [token[s] EXCEPT !.life = life])
  /\ UNCHANGED <<minted, buckets, requests, flood, wronged>>

\* Mutant: the limiter goes with its token.
Evicted_deleted(s) == {token[s].name}

\* Limiters that go when a token is deleted: "no eviction is needed".
Evicted(s) == {}

DeleteToken(s) ==
  /\ Live(s)
  /\ SetToken(s, None)
  /\ present' = present \ Evicted(s)
  /\ UNCHANGED <<minted, rate, level, requests, flood, wronged>>

--------------------------------------------------------------------------------
(* Requests. *)

Go(r, stage) == at' = [at EXCEPT ![r] = stage]

\* A request comes in with a secret that was minted; presentedToken.
Present(r, s, k) ==
  /\ at[r] = "idle" /\ s \in minted
  /\ Go(r, "find")
  /\ secret' = [secret EXCEPT ![r] = s]
  /\ endpoint' = [endpoint EXCEPT ![r] = k]
  /\ good' = [good EXCEPT ![r] = token[s] # None /\ Admits(token[s], k)]
  /\ UNCHANGED <<table, buckets, copy, flood, wronged>>

\* The request ends with an error: 401, 429, 400 or 500.
Reject(r) ==
  /\ Go(r, "idle")
  /\ copy' = [copy EXCEPT ![r] = None]
  /\ good' = [good EXCEPT ![r] = FALSE]
  /\ UNCHANGED <<table, secret, endpoint, flood>>

\* ResolveToken reads the row of the hash ...
FindToken(r) ==
  /\ at[r] = "find" /\ Live(secret[r])
  /\ copy' = [copy EXCEPT ![r] = token[secret[r]]]
  /\ Go(r, "check")
  /\ UNCHANGED <<table, buckets, secret, endpoint, ghosts>>

\* ... if there is one, and the database answers ...
FindFails(r) ==
  /\ at[r] = "find"
  /\ Reject(r)
  /\ UNCHANGED <<buckets, wronged>>

\* Mutant: an expiry is not looked at.
Checked_kind(r) == copy[r].kind \in {Any, endpoint[r]}

\* ... and looks at what it read, with the time it is then.
Checked(r) == Admits(copy[r], endpoint[r])

Resolve(r) ==
  /\ at[r] = "check" /\ Checked(r)
  /\ Go(r, "limit")
  /\ UNCHANGED <<table, buckets, secret, endpoint, copy, ghosts>>

Unauthorized(r) ==
  /\ at[r] = "check" /\ ~Checked(r)
  /\ Reject(r)
  /\ UNCHANGED <<buckets, wronged>>

\* Mutant: a bucket for each credential.
KeyOf_secret(r) == secret[r]

KeyOf(r) == copy[r].name

\* The limiter of the key is found, or made with a full bucket, under the mutex.
GetLimiter(r) ==
  /\ at[r] = "limit" /\ Limited
  /\ present' = present \cup {KeyOf(r)}
  /\ level' = IF KeyOf(r) \in present THEN level ELSE [level EXCEPT ![KeyOf(r)] = Full]
  /\ Go(r, "allow")
  /\ UNCHANGED <<table, rate, secret, endpoint, copy, ghosts>>

\* A nil set of limiters allows everything.
NoLimiter(r) ==
  /\ at[r] = "limit" /\ ~Limited
  /\ Go(r, "handle")
  /\ UNCHANGED <<table, buckets, secret, endpoint, copy, ghosts>>

\* Mutant: the limiter of golang.org/x/time lets the level fall below nothing.
Allows_debt(r) == level[KeyOf(r)] > 0

Allows(r) == level[KeyOf(r)] >= Cost

\* After the mutex is released the bucket is asked.
Allow(r) ==
  /\ at[r] = "allow" /\ Allows(r)
  /\ level' = [level EXCEPT ![KeyOf(r)] = @ - Cost]
  /\ flood' = [flood EXCEPT ![copy[r].name] = @ + Cost]
  /\ Go(r, "handle")
  /\ UNCHANGED <<table, rate, present, secret, endpoint, copy, good, wronged>>

RateLimited(r) ==
  /\ at[r] = "allow" /\ ~Allows(r)
  /\ wronged' = (wronged \/ flood[copy[r].name] + Cost <= Full)
  /\ Reject(r)
  /\ UNCHANGED buckets

\* The payload is parsed and the entry queued; what a request took from its
\* bucket is gone even if its payload is refused.
Accept(r) ==
  /\ at[r] = "handle"
  /\ Go(r, "accepted")
  /\ UNCHANGED <<table, buckets, secret, endpoint, copy, ghosts>>

HandlingFails(r) ==
  /\ at[r] = "handle"
  /\ Reject(r)
  /\ UNCHANGED <<buckets, wronged>>

Respond(r) ==
  /\ at[r] = "accepted"
  /\ Reject(r)
  /\ UNCHANGED <<buckets, wronged>>

--------------------------------------------------------------------------------
(* Time and the process. *)

Older(tok) ==
  IF tok = None THEN None
  ELSE [tok EXCEPT !.life = IF @ \in {0, Never} THEN @ ELSE @ - 1]

AtMost(m, x) == IF x > m THEN m ELSE x
AtLeast(m, x) == IF x < m THEN m ELSE x

\* Buckets fill up to their burst, expiries come nearer, also in the rows read.
Tick ==
  /\ token' = [s \in Secrets |-> Older(token[s])]
  /\ copy' = [r \in Requests |-> Older(copy[r])]
  /\ level' = [n \in DOMAIN level |-> IF Limited THEN AtMost(Full, level[n] + rate) ELSE level[n]]
  /\ flood' = [n \in Names |-> IF Limited THEN AtLeast(0, flood[n] - rate) ELSE flood[n]]
  /\ UNCHANGED <<minted, rate, present, at, secret, endpoint, good, wronged>>

\* Requests in flight and the buckets go with the process; the next one may be
\* configured otherwise.
Restart ==
  /\ rate' \in Rates
  /\ present' = {}
  /\ at' = [r \in Requests |-> "idle"]
  /\ copy' = [r \in Requests |-> None]
  /\ good' = [r \in Requests |-> FALSE]
  /\ flood' = [n \in Names |-> 0]
  /\ UNCHANGED <<table, level, secret, endpoint, wronged>>

--------------------------------------------------------------------------------
Admin ==
  \E s \in Secrets :
    \/ \E n \in Names, k \in Kinds, life \in NewExpiries : CreateToken(s, n, k, life)
    \/ \E life \in NewExpiries : UpdateToken(s, life)
    \/ DeleteToken(s)

Request(r) ==
  \/ \E s \in Secrets, k \in Endpoints : Present(r, s, k)
  \/ FindToken(r) \/ FindFails(r)
  \/ Resolve(r) \/ Unauthorized(r)
  \/ GetLimiter(r) \/ NoLimiter(r)
  \/ Allow(r) \/ RateLimited(r)
  \/ Accept(r) \/ HandlingFails(r) \/ Respond(r)

Next == Admin \/ (\E r \in Requests : Request(r)) \/ Tick \/ Restart

Spec == Init /\ [][Next]_vars

--------------------------------------------------------------------------------
(* Properties. *)

TypeOK ==
  /\ rate \in Rates
  /\ token \in [Secrets -> Tokens \cup {None}]
  /\ minted \subseteq Secrets
  /\ present \subseteq Names \cup Secrets
  /\ level \in [Names \cup Secrets -> 0 .. Full]
  /\ at \in [Requests -> Stages]
  /\ secret \in [Requests -> Secrets]
  /\ endpoint \in [Requests -> Endpoints]
  /\ copy \in [Requests -> Tokens \cup {None}]
  /\ good \in [Requests -> BOOLEAN]
  /\ flood \in [Names -> Nat]
  /\ wronged \in BOOLEAN

\* Since any moment after a start, what a token name was let in for is at most
\* a burst more than its rate gives, over deletions, re-creations and requests
\* that overlap (allow, keyed by name).
FloodsBounded == Limited => \A n \in Names : flood[n] <= Full

\* And nobody is throttled for what another name sent, or for what was refused.
OwnFloodOnly == ~wronged

RateKept == FloodsBounded /\ OwnFloodOnly

\* A request is only accepted if at some moment while it ran its secret belonged
\* to a token of its endpoint that had not expired: a deleted token's secret is
\* of no use, also when its name was given to another one (ResolveToken).
RevokedStaysOut == \A r \in Requests : at[r] = "accepted" => good[r]

\* What was let in and not made good by the rate is what is missing from the
\* bucket; without a bucket there is nothing to make good.
BucketsTrue ==
  \A n \in Names :
    IF Limited /\ n \in present THEN flood[n] = Full - level[n] ELSE flood[n] = 0

\* A request has read a row once it was found, and its bucket is there when asked.
RequestShape ==
  \A r \in Requests :
    /\ at[r] \notin {"idle", "find"} => copy[r] \in Tokens
    /\ at[r] = "allow" => Limited /\ copy[r].name \in present

\* A request whose secret is good now, or was when its row was read, is noted.
GoodNoted ==
  \A r \in Requests :
    /\ at[r] = "find" /\ Good(token, r) => good[r]
    /\ at[r] = "check" /\ Admits(copy[r], endpoint[r]) => good[r]
    /\ at[r] \in {"limit", "allow", "handle", "accepted"} => good[r]

\* The inductive invariant.
AInv == TypeOK /\ BucketsTrue /\ RequestShape /\ GoodNoted /\ OwnFloodOnly
================================================================================
