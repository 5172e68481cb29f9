----------------------------- MODULE IngestProofs ------------------------------
(***************************************************************************)
(* Proofs about what becomes of an ingest request: it is let in (Admission, *)
(* for every set of names, secrets, endpoints and requests, every rate,     *)
(* burst, cost of a request and length of life), and its payload becomes a  *)
(* message (Formats, for every set of payloads, delays and samples).        *)
(***************************************************************************)
EXTENDS Admission, Formats, TLAPS, FiniteSetTheorems, SequenceTheorems,
        WellFoundedInduction, NaturalsInduction

\* The numbers of the limiter are natural, and a request costs something.
LEMMA NumbersAreNat == Burst \in Nat /\ Full \in Nat /\ Cost \in Nat \ {0}
<1>1. Burst \in Nat /\ Cost \in Nat \ {0}
  BY AdmissionAssumption DEF Burst
<1>2. \A b, c \in Nat : b * c \in Nat
  OBVIOUS
<1> QED
  BY <1>1, <1>2 DEF Full

\* A row has a name and a kind, which None has not.
LEMMA NoneIsNoToken == None \notin Tokens
<1>1. ~("name" \in DOMAIN None)
  BY DEF None
<1>2. \A tok \in Tokens : "name" \in DOMAIN tok
  BY DEF Tokens
<1> QED
  BY <1>1, <1>2

\* A row only changes its life with time, and never comes back to life by it.
LEMMA OlderRow ==
  /\ Older(None) = None
  /\ \A tok \in Tokens :
       /\ Older(tok) \in Tokens
       /\ Older(tok).name = tok.name
       /\ \A k \in Endpoints : Admits(Older(tok), k) => Admits(tok, k)
<1>1. Older(None) = None
  BY DEF Older
<1>2. ASSUME NEW tok \in Tokens
      PROVE  /\ Older(tok) \in Tokens
             /\ Older(tok).name = tok.name
             /\ \A k \in Endpoints : Admits(Older(tok), k) => Admits(tok, k)
  <2>1. tok # None
    BY NoneIsNoToken
  <2>2. tok.life \in Expiries
    BY DEF Tokens
  <2> DEFINE older == IF tok.life \in {0, Never} THEN tok.life ELSE tok.life - 1
  <2>3. older \in Expiries /\ (tok.life = 0 => older = 0)
    BY <2>2, AdmissionAssumption DEF Expiries, Never
  <2>4. Older(tok) = [tok EXCEPT !.life = older]
    BY <2>1 DEF Older
  <2> HIDE DEF older
  <2> QED
    BY <2>3, <2>4 DEF Tokens, Admits, Expired
<1> QED
  BY <1>1, <1>2

\* A row of the table that is there is a row.
LEMMA LiveRow ==
  ASSUME TypeOK, NEW s \in Secrets
  PROVE  /\ Live(s) <=> token[s] \in Tokens
         /\ token[s] \notin Tokens => token[s] = None
BY NoneIsNoToken DEF TypeOK, Live

--------------------------------------------------------------------------------
(* Types. *)

\* Admission starts in its types.
LEMMA InitType == Init => TypeOK
<1> SUFFICES ASSUME Init PROVE TypeOK
  OBVIOUS
<1> USE DEF Init, Stages
<1>1. level \in [Names \cup Secrets -> 0 .. Full] /\ flood \in [Names -> Nat]
  BY NumbersAreNat
<1>2. /\ token \in [Secrets -> Tokens \cup {None}]
      /\ copy \in [Requests -> Tokens \cup {None}]
      /\ at \in [Requests -> Stages]
  OBVIOUS
<1>3. good \in [Requests -> BOOLEAN] /\ wronged \in BOOLEAN
  OBVIOUS
<1> QED
  BY <1>1, <1>2, <1>3 DEF TypeOK

\* A request that is rejected leaves the types of what it leaves alone.
LEMMA RejectType ==
  ASSUME TypeOK, NEW r \in Requests, Reject(r)
  PROVE  /\ token' \in [Secrets -> Tokens \cup {None}] /\ minted' \subseteq Secrets
         /\ at' \in [Requests -> Stages]
         /\ secret' \in [Requests -> Secrets] /\ endpoint' \in [Requests -> Endpoints]
         /\ copy' \in [Requests -> Tokens \cup {None}]
         /\ good' \in [Requests -> BOOLEAN] /\ flood' \in [Names -> Nat]
<1>1. /\ at' \in [Requests -> Stages]
      /\ copy' \in [Requests -> Tokens \cup {None}]
  BY DEF Reject, Go, TypeOK, Stages
<1>2. good' \in [Requests -> BOOLEAN]
  BY DEF Reject, TypeOK
<1> QED
  BY <1>1, <1>2 DEF Reject, table, TypeOK

\* The name of a request's row, as long as it has one.
LEMMA KeyIsName ==
  ASSUME TypeOK, RequestShape, NEW r \in Requests, at[r] \notin {"idle", "find"}
  PROVE  copy[r] \in Tokens /\ KeyOf(r) = copy[r].name /\ copy[r].name \in Names
BY DEF RequestShape, KeyOf, Tokens

\* A write of a row keeps the types of the table and of the ghost that watches it.
LEMMA SetTokenType ==
  ASSUME TypeOK, NEW s \in Secrets, NEW tok \in Tokens \cup {None}, SetToken(s, tok)
  PROVE  token' \in [Secrets -> Tokens \cup {None}] /\ good' \in [Requests -> BOOLEAN]
<1>1. token' \in [Secrets -> Tokens \cup {None}]
  BY DEF SetToken, TypeOK
<1>2. \A r \in Requests : (good[r] \/ (at[r] # "idle" /\ Good(token', r))) \in BOOLEAN
  BY DEF TypeOK, Good, Admits, Expired
<1> QED
  BY <1>1, <1>2 DEF SetToken, Noted

\* Every step of admission keeps the types.
LEMMA NextType == ASSUME TypeOK, RequestShape, [Next]_vars PROVE TypeOK'
<1> USE DEF table, buckets, requests, ghosts
<1>1. ASSUME NEW s \in Secrets, NEW n \in Names, NEW k \in Kinds, NEW life \in NewExpiries,
             CreateToken(s, n, k, life)
      PROVE  TypeOK'
  <2>1. [name |-> n, kind |-> k, life |-> life] \in Tokens
    BY DEF Tokens, NewExpiries
  <2> QED
    BY <1>1, <2>1, SetTokenType DEF CreateToken, TypeOK
<1>2. ASSUME NEW s \in Secrets, NEW life \in NewExpiries, UpdateToken(s, life)
      PROVE  TypeOK'
  <2>1. [token[s] EXCEPT !.life = life] \in Tokens
    BY <1>2, LiveRow DEF UpdateToken, Tokens, NewExpiries
  <2> QED
    BY <1>2, <2>1, SetTokenType DEF UpdateToken, TypeOK
<1>3. ASSUME NEW s \in Secrets, DeleteToken(s) PROVE TypeOK'
  BY <1>3, SetTokenType DEF DeleteToken, TypeOK
<1>4. ASSUME NEW r \in Requests, NEW s \in Secrets, NEW k \in Endpoints, Present(r, s, k)
      PROVE  TypeOK'
  <2>1. (token[s] # None /\ Admits(token[s], k)) \in BOOLEAN
    OBVIOUS
  <2>2. good' \in [Requests -> BOOLEAN]
    BY <1>4, <2>1 DEF Present, TypeOK
  <2> QED
    BY <1>4, <2>2 DEF Present, Go, TypeOK, Stages
<1>5. ASSUME NEW r \in Requests, FindToken(r) PROVE TypeOK'
  BY <1>5 DEF FindToken, Go, TypeOK, Stages
<1>6. ASSUME NEW r \in Requests,
             FindFails(r) \/ Unauthorized(r) \/ HandlingFails(r) \/ Respond(r)
      PROVE  TypeOK'
  BY <1>6, RejectType DEF FindFails, Unauthorized, HandlingFails, Respond, TypeOK
<1>7. ASSUME NEW r \in Requests, Resolve(r) \/ NoLimiter(r) \/ Accept(r) PROVE TypeOK'
  BY <1>7 DEF Resolve, NoLimiter, Accept, Go, TypeOK, Stages
<1>8. ASSUME NEW r \in Requests, GetLimiter(r) PROVE TypeOK'
  <2>1. KeyOf(r) \in Names
    BY <1>8, KeyIsName DEF GetLimiter
  <2>2. level' \in [Names \cup Secrets -> 0 .. Full]
    BY <1>8, <2>1, NumbersAreNat DEF GetLimiter, TypeOK
  <2> QED
    BY <1>8, <2>1, <2>2 DEF GetLimiter, Go, TypeOK, Stages
<1>9. ASSUME NEW r \in Requests, Allow(r) PROVE TypeOK'
  <2>1. KeyOf(r) \in Names /\ copy[r].name \in Names
    BY <1>9, KeyIsName DEF Allow
  <2>2. level[KeyOf(r)] - Cost \in 0 .. Full
    BY <1>9, <2>1, NumbersAreNat DEF Allow, Allows, TypeOK
  <2>3. level' \in [Names \cup Secrets -> 0 .. Full]
    BY <1>9, <2>1, <2>2 DEF Allow, TypeOK
  <2>4. flood' \in [Names -> Nat]
    BY <1>9, <2>1, NumbersAreNat DEF Allow, TypeOK
  <2> QED
    BY <1>9, <2>3, <2>4 DEF Allow, Go, TypeOK, Stages
<1>10. ASSUME NEW r \in Requests, RateLimited(r) PROVE TypeOK'
  <2>1. wronged' \in BOOLEAN
    BY <1>10 DEF RateLimited, TypeOK
  <2> QED
    BY <1>10, <2>1, RejectType DEF RateLimited, TypeOK
<1>11. CASE Tick
  <2>1. token' \in [Secrets -> Tokens \cup {None}] /\ copy' \in [Requests -> Tokens \cup {None}]
    BY <1>11, OlderRow DEF Tick, TypeOK
  <2>2. CASE Limited
    <3>1. rate \in Nat
      BY <2>2, AdmissionAssumption DEF Limited, TypeOK
    <3>2. \A n \in Names \cup Secrets : AtMost(Full, level[n] + rate) \in 0 .. Full
      BY <3>1, NumbersAreNat DEF AtMost, TypeOK
    <3>3. \A n \in Names : AtLeast(0, flood[n] - rate) \in Nat
      BY <3>1 DEF AtLeast, TypeOK
    <3> QED
      BY <1>11, <2>1, <2>2, <3>2, <3>3 DEF Tick, TypeOK
  <2>3. CASE ~Limited
    <3>1. level' = level /\ flood' = flood
      BY <1>11, <2>3 DEF Tick, TypeOK
    <3> QED
      BY <1>11, <2>1, <3>1 DEF Tick, TypeOK
  <2> QED
    BY <2>2, <2>3
<1>12. CASE Restart
  <2>1. /\ at' \in [Requests -> Stages] /\ copy' \in [Requests -> Tokens \cup {None}]
        /\ flood' \in [Names -> Nat]
    BY <1>12 DEF Restart, Stages
  <2>2. good' \in [Requests -> BOOLEAN]
    BY <1>12 DEF Restart
  <2> QED
    BY <1>12, <2>1, <2>2 DEF Restart, TypeOK
<1>13. CASE UNCHANGED vars
  BY <1>13 DEF vars, TypeOK
<1> QED
  BY <1>1, <1>2, <1>3, <1>4, <1>5, <1>6, <1>7, <1>8, <1>9, <1>10, <1>11, <1>12, <1>13
     DEF Next, Admin, Request
--------------------------------------------------------------------------------
(* The buckets. *)

\* Every step keeps the buckets true to what the names were let in for.
LEMMA NextBuckets ==
  ASSUME TypeOK, BucketsTrue, RequestShape, OwnFloodOnly, [Next]_vars
  PROVE  BucketsTrue' /\ OwnFloodOnly'
<1> USE DEF table, buckets, requests, ghosts
<1>1. ASSUME UNCHANGED <<rate, present, level, flood>> PROVE BucketsTrue'
  BY <1>1 DEF BucketsTrue, Limited
<1>2. CASE Admin
  <2>1. UNCHANGED <<rate, present, level, flood, wronged>>
    BY <1>2 DEF Admin, CreateToken, UpdateToken, DeleteToken, Evicted
  <2> QED
    BY <1>1, <2>1 DEF OwnFloodOnly
<1>3. ASSUME NEW r \in Requests,
             \/ \E s \in Secrets, k \in Endpoints : Present(r, s, k)
             \/ FindToken(r) \/ FindFails(r) \/ Resolve(r) \/ Unauthorized(r)
             \/ NoLimiter(r) \/ Accept(r) \/ HandlingFails(r) \/ Respond(r)
      PROVE  BucketsTrue' /\ OwnFloodOnly'
  <2>1. UNCHANGED <<rate, present, level, flood, wronged>>
    BY <1>3 DEF Present, FindToken, FindFails, Resolve, Unauthorized, NoLimiter, Accept,
       HandlingFails, Respond, Reject
  <2> QED
    BY <1>1, <2>1 DEF OwnFloodOnly
<1>4. ASSUME NEW r \in Requests, GetLimiter(r) PROVE BucketsTrue' /\ OwnFloodOnly'
  <2>1. KeyOf(r) \in Names
    BY <1>4, KeyIsName DEF GetLimiter
  <2>2. CASE KeyOf(r) \in present
    BY <1>4, <2>2 DEF GetLimiter, BucketsTrue, Limited, OwnFloodOnly
  <2>3. CASE KeyOf(r) \notin present
    <3>1. level'[KeyOf(r)] = Full /\ flood[KeyOf(r)] = 0
      BY <1>4, <2>1, <2>3 DEF GetLimiter, BucketsTrue, TypeOK
    <3>2. \A n \in Names \ {KeyOf(r)} : level'[n] = level[n]
      BY <1>4, <2>3 DEF GetLimiter, TypeOK
    <3> QED
      BY <1>4, <3>1, <3>2, NumbersAreNat DEF GetLimiter, BucketsTrue, Limited, OwnFloodOnly
  <2> QED
    BY <2>2, <2>3
<1>5. ASSUME NEW r \in Requests, Allow(r) PROVE BucketsTrue' /\ OwnFloodOnly'
  <2> DEFINE n == copy[r].name
  <2>1. KeyOf(r) = n /\ n \in Names /\ n \in present /\ Limited
    BY <1>5, KeyIsName DEF Allow, RequestShape
  <2>2. level'[n] = level[n] - Cost /\ flood'[n] = flood[n] + Cost
    BY <1>5, <2>1 DEF Allow, TypeOK
  <2>3. \A m \in Names \ {n} : level'[m] = level[m] /\ flood'[m] = flood[m]
    BY <1>5, <2>1 DEF Allow, TypeOK
  <2>4. level[n] \in Nat /\ flood[n] = Full - level[n]
    BY <2>1 DEF BucketsTrue, TypeOK
  <2>5. flood'[n] = Full - level'[n]
    BY <2>2, <2>4, NumbersAreNat
  <2>6. UNCHANGED <<rate, present, wronged>>
    BY <1>5 DEF Allow
  <2> HIDE DEF n
  <2> QED
    BY <2>1, <2>3, <2>5, <2>6 DEF BucketsTrue, Limited, OwnFloodOnly
<1>6. ASSUME NEW r \in Requests, RateLimited(r) PROVE BucketsTrue' /\ OwnFloodOnly'
  <2> DEFINE n == copy[r].name
  <2>1. KeyOf(r) = n /\ n \in Names /\ n \in present /\ Limited
    BY <1>6, KeyIsName DEF RateLimited, RequestShape
  <2>2. level[n] \in Nat /\ ~(level[n] >= Cost) /\ flood[n] = Full - level[n]
    BY <1>6, <2>1 DEF RateLimited, Allows, BucketsTrue, TypeOK
  <2>3. ~(flood[n] + Cost <= Full)
    BY <2>2, NumbersAreNat
  <2>4. OwnFloodOnly'
    BY <1>6, <2>3 DEF RateLimited, OwnFloodOnly
  <2> QED
    BY <1>1, <1>6, <2>4 DEF RateLimited, Reject
<1>7. CASE Tick
  <2>1. CASE Limited
    <3>1. rate \in Nat
      BY <2>1, AdmissionAssumption DEF Limited, TypeOK
    <3>2. ASSUME NEW n \in Names, n \in present PROVE flood'[n] = Full - level'[n]
      <4>1. level'[n] = AtMost(Full, level[n] + rate) /\ flood'[n] = AtLeast(0, flood[n] - rate)
        BY <1>7, <2>1 DEF Tick, TypeOK
      <4>2. level[n] \in Nat /\ flood[n] = Full - level[n]
        BY <2>1, <3>2 DEF BucketsTrue, TypeOK
      <4> QED
        BY <3>1, <4>1, <4>2, NumbersAreNat DEF AtMost, AtLeast
    <3>3. ASSUME NEW n \in Names, n \notin present PROVE flood'[n] = 0
      <4>1. flood'[n] = AtLeast(0, flood[n] - rate) /\ flood[n] = 0
        BY <1>7, <2>1, <3>3 DEF Tick, BucketsTrue
      <4> QED
        BY <3>1, <4>1 DEF AtLeast
    <3> QED
      BY <1>7, <2>1, <3>2, <3>3 DEF Tick, BucketsTrue, Limited, OwnFloodOnly
  <2>2. CASE ~Limited
    BY <1>7, <2>2 DEF Tick, BucketsTrue, Limited, OwnFloodOnly
  <2> QED
    BY <2>1, <2>2
<1>8. CASE Restart
  BY <1>8 DEF Restart, BucketsTrue, OwnFloodOnly
<1>9. CASE UNCHANGED vars
  BY <1>1, <1>9 DEF vars, OwnFloodOnly
<1> QED
  BY <1>2, <1>3, <1>4, <1>5, <1>6, <1>7, <1>8, <1>9 DEF Next, Request

--------------------------------------------------------------------------------
(* The requests. *)

\* Every step keeps what a request carries at its stage.
LEMMA NextShape == ASSUME TypeOK, RequestShape, [Next]_vars PROVE RequestShape'
<1> USE DEF table, buckets, requests, ghosts
<1>1. CASE Admin
  <2>1. UNCHANGED <<rate, present, at, copy>>
    BY <1>1 DEF Admin, CreateToken, UpdateToken, DeleteToken, Evicted
  <2> QED
    BY <2>1 DEF RequestShape, Limited
<1>2. ASSUME NEW r \in Requests, Reject(r), UNCHANGED <<rate, present>> PROVE RequestShape'
  BY <1>2 DEF Reject, Go, RequestShape, Limited, TypeOK
<1>3. ASSUME NEW r \in Requests, NEW s \in Secrets, NEW k \in Endpoints, Present(r, s, k)
      PROVE  RequestShape'
  BY <1>3 DEF Present, Go, RequestShape, Limited, TypeOK
<1>4. ASSUME NEW r \in Requests, FindToken(r) PROVE RequestShape'
  <2>1. token[secret[r]] \in Tokens
    BY <1>4, LiveRow DEF FindToken, TypeOK
  <2> QED
    BY <1>4, <2>1 DEF FindToken, Go, RequestShape, Limited, TypeOK
<1>5. ASSUME NEW r \in Requests,
             FindFails(r) \/ Unauthorized(r) \/ HandlingFails(r) \/ Respond(r) \/ RateLimited(r)
      PROVE  RequestShape'
  BY <1>2, <1>5 DEF FindFails, Unauthorized, HandlingFails, Respond, RateLimited
<1>6. ASSUME NEW r \in Requests, Resolve(r) \/ NoLimiter(r) \/ Accept(r) \/ Allow(r)
      PROVE  RequestShape'
  BY <1>6 DEF Resolve, NoLimiter, Accept, Allow, Go, RequestShape, Limited, TypeOK
<1>7. ASSUME NEW r \in Requests, GetLimiter(r) PROVE RequestShape'
  <2>1. KeyOf(r) = copy[r].name
    BY <1>7, KeyIsName DEF GetLimiter
  <2> QED
    BY <1>7, <2>1 DEF GetLimiter, Go, RequestShape, Limited, TypeOK
<1>8. CASE Tick
  <2>1. \A r \in Requests : copy'[r] = Older(copy[r])
    BY <1>8 DEF Tick
  <2> QED
    BY <1>8, <2>1, OlderRow DEF Tick, RequestShape, Limited
<1>9. CASE Restart
  BY <1>9 DEF Restart, RequestShape
<1>10. CASE UNCHANGED vars
  BY <1>10 DEF vars, RequestShape, Limited
<1> QED
  BY <1>1, <1>3, <1>4, <1>5, <1>6, <1>7, <1>8, <1>9, <1>10 DEF Next, Request

\* The moment at which a secret becomes good is noted for the requests that run.
LEMMA SetTokenNoted ==
  ASSUME TypeOK, GoodNoted, NEW s \in Secrets, NEW tok, SetToken(s, tok), UNCHANGED requests
  PROVE  GoodNoted'
<1>1. \A r \in Requests : good'[r] = (good[r] \/ (at[r] # "idle" /\ Good(token', r)))
  BY DEF SetToken, Noted
<1>2. \A r \in Requests : Good(token, r)' = Good(token', r)
  BY DEF Good, requests
<1> QED
  BY <1>1, <1>2 DEF GoodNoted, requests

\* Every step keeps the note of whether a secret was good.
LEMMA NextNoted ==
  ASSUME TypeOK, RequestShape, GoodNoted, [Next]_vars
  PROVE  GoodNoted'
<1> USE DEF table, buckets, requests, ghosts
<1>1. CASE Admin
  BY <1>1, SetTokenNoted DEF Admin, CreateToken, UpdateToken, DeleteToken
<1>2. ASSUME NEW r \in Requests, Reject(r) PROVE GoodNoted'
  <2>1. at'[r] = "idle" /\ UNCHANGED <<token, secret, endpoint>>
    BY <1>2 DEF Reject, Go, TypeOK
  <2>2. \A q \in Requests \ {r} : at'[q] = at[q] /\ copy'[q] = copy[q] /\ good'[q] = good[q]
    BY <1>2 DEF Reject, Go, TypeOK
  <2> QED
    BY <2>1, <2>2 DEF GoodNoted, Good
<1>3. ASSUME NEW r \in Requests, NEW s \in Secrets, NEW k \in Endpoints, Present(r, s, k)
      PROVE  GoodNoted'
  <2>1. /\ at'[r] = "find" /\ secret'[r] = s /\ endpoint'[r] = k
        /\ good'[r] = (token[s] # None /\ Admits(token[s], k))
        /\ UNCHANGED <<token, copy>>
    BY <1>3 DEF Present, Go, TypeOK
  <2>2. \A q \in Requests \ {r} : /\ at'[q] = at[q] /\ secret'[q] = secret[q]
                                  /\ endpoint'[q] = endpoint[q] /\ good'[q] = good[q]
    BY <1>3 DEF Present, Go, TypeOK
  <2> QED
    BY <2>1, <2>2 DEF GoodNoted, Good
<1>4. ASSUME NEW r \in Requests, FindToken(r) PROVE GoodNoted'
  <2>1. /\ at[r] = "find" /\ Live(secret[r])
        /\ at'[r] = "check" /\ copy'[r] = token[secret[r]]
        /\ UNCHANGED <<token, secret, endpoint, good>>
    BY <1>4 DEF FindToken, Go, TypeOK
  <2>2. \A q \in Requests \ {r} : at'[q] = at[q] /\ copy'[q] = copy[q]
    BY <1>4 DEF FindToken, Go, TypeOK
  <2> QED
    BY <2>1, <2>2 DEF GoodNoted, Good, Live
<1>5. ASSUME NEW r \in Requests,
             FindFails(r) \/ Unauthorized(r) \/ HandlingFails(r) \/ Respond(r) \/ RateLimited(r)
      PROVE  GoodNoted'
  BY <1>2, <1>5 DEF FindFails, Unauthorized, HandlingFails, Respond, RateLimited
<1>6. ASSUME NEW r \in Requests,
             Resolve(r) \/ NoLimiter(r) \/ Accept(r) \/ Allow(r) \/ GetLimiter(r)
      PROVE  GoodNoted'
  <2>1. /\ UNCHANGED <<token, secret, endpoint, copy, good>>
        /\ at'[r] \in {"limit", "allow", "handle", "accepted"}
        /\ \A q \in Requests \ {r} : at'[q] = at[q]
    BY <1>6 DEF Resolve, NoLimiter, Accept, Allow, GetLimiter, Go, TypeOK
  <2>2. good[r]
    BY <1>6 DEF Resolve, Checked, NoLimiter, Accept, Allow, GetLimiter, GoodNoted
  <2> QED
    BY <2>1, <2>2 DEF GoodNoted, Good
<1>7. CASE Tick
  <2>1. /\ \A r \in Requests : copy'[r] = Older(copy[r])
        /\ \A s \in Secrets : token'[s] = Older(token[s])
        /\ UNCHANGED <<at, secret, endpoint, good>>
    BY <1>7 DEF Tick
  <2>2. ASSUME NEW r \in Requests, Good(token, r)' PROVE Good(token, r)
    <3>1. token'[secret[r]] = Older(token[secret[r]]) /\ token'[secret[r]] # None
          /\ Admits(token'[secret[r]], endpoint[r])
      BY <2>1, <2>2 DEF Good, TypeOK
    <3>2. token[secret[r]] \in Tokens
      BY <3>1, OlderRow, LiveRow DEF TypeOK
    <3> QED
      BY <3>1, <3>2, OlderRow, NoneIsNoToken DEF Good, TypeOK
  <2>3. ASSUME NEW r \in Requests, at[r] = "check", Admits(copy'[r], endpoint[r])
        PROVE  Admits(copy[r], endpoint[r])
    BY <2>1, <2>3, OlderRow DEF RequestShape, TypeOK
  <2> QED
    BY <2>1, <2>2, <2>3 DEF GoodNoted
<1>8. CASE Restart
  BY <1>8 DEF Restart, GoodNoted
<1>9. CASE UNCHANGED vars
  BY <1>9 DEF vars, GoodNoted, Good
<1> QED
  BY <1>1, <1>3, <1>4, <1>5, <1>6, <1>7, <1>8, <1>9 DEF Next, Request

--------------------------------------------------------------------------------
\* The invariant of admission holds at the start.
LEMMA InitHolds == Init => AInv
<1> SUFFICES ASSUME Init PROVE AInv
  OBVIOUS
<1>1. TypeOK
  BY InitType
<1>2. BucketsTrue
  BY DEF Init, BucketsTrue
<1>3. RequestShape /\ GoodNoted
  <2>1. \A r \in Requests : at[r] = "idle"
    BY DEF Init
  <2> QED
    BY <2>1 DEF RequestShape, GoodNoted
<1>4. OwnFloodOnly
  BY DEF Init, OwnFloodOnly
<1> QED
  BY <1>1, <1>2, <1>3, <1>4 DEF AInv

\* The invariant of admission is inductive.
LEMMA StepHolds == AInv /\ [Next]_vars => AInv'
BY NextType, NextBuckets, NextShape, NextNoted DEF AInv

\* The invariant of admission: types, what the buckets say of what was let in,
\* what a request has read at each stage, and that a good secret was noted.
THEOREM AdmissionInvariant == Spec => []AInv
BY InitHolds, StepHolds, PTL DEF Spec

\* Since any moment after a start, a token name is let in for a burst and what its
\* rate gives at most, and nobody pays for another name (rateLimiters.allow).
THEOREM TheRateIsKept == Spec => []RateKept
<1>1. AInv => RateKept
  <2> SUFFICES ASSUME AInv PROVE FloodsBounded
    BY DEF AInv, RateKept
  <2>1. \A n \in Names : level[n] \in 0 .. Full
    BY DEF AInv, TypeOK
  <2>2. ASSUME Limited, NEW n \in Names PROVE flood[n] <= Full
    <3>1. flood[n] = Full - level[n] \/ flood[n] = 0
      BY <2>2 DEF AInv, BucketsTrue
    <3> QED
      BY <2>1, <3>1, NumbersAreNat
  <2> QED
    BY <2>2 DEF FloodsBounded
<1> QED
  BY <1>1, AdmissionInvariant, PTL

\* A secret that was of no token of the endpoint while its request ran is not let
\* in (ResolveToken, DeleteToken, UpdateToken).
THEOREM TheRevokedStayOut == Spec => []RevokedStaysOut
<1>1. AInv => RevokedStaysOut
  BY DEF AInv, GoodNoted, RevokedStaysOut
<1> QED
  BY <1>1, AdmissionInvariant, PTL

--------------------------------------------------------------------------------
(* Texts as sequences of parts. *)

\* A sequence, of whatever its parts are.
IsSequence(s) == \E S : s \in Seq(S)

\* What is put together of sequences is one, and empty only if they all are.
LEMMA Joined ==
  ASSUME NEW s, NEW t, IsSequence(s), IsSequence(t)
  PROVE  /\ IsSequence(s \o t)
         /\ s \o t = <<>> <=> s = <<>> /\ t = <<>>
<1>1. PICK S : s \in Seq(S)
  BY DEF IsSequence
<1>2. PICK T : t \in Seq(T)
  BY DEF IsSequence
<1>3. s \in Seq(S \cup T) /\ t \in Seq(S \cup T)
  BY <1>1, <1>2, SeqMonotonic
<1>4. s \o t \in Seq(S \cup T)
  BY <1>3, ConcatProperties
<1> QED
  BY <1>3, <1>4, ConcatEqualIffEmpty DEF IsSequence

\* Short sequences are sequences, and all but the empty one have something in them.
LEMMA Pieces ==
  /\ IsSequence(<<>>)
  /\ \A x : IsSequence(<<x>>) /\ <<x>> # <<>>
  /\ \A x, y : IsSequence(<<x, y>>) /\ <<x, y>> # <<>>
  /\ \A x, y, z : IsSequence(<<x, y, z>>) /\ <<x, y, z>> # <<>>
<1>1. <<>> \in Seq({})
  OBVIOUS
<1>2. \A x : <<x>> \in Seq({x}) /\ <<x>> # <<>>
  OBVIOUS
<1>3. \A x, y : <<x, y>> \in Seq({x, y}) /\ <<x, y>> # <<>>
  OBVIOUS
<1>4. \A x, y, z : <<x, y, z>> \in Seq({x, y, z}) /\ <<x, y, z>> # <<>>
  OBVIOUS
<1> QED BY <1>1, <1>2, <1>3, <1>4 DEF IsSequence

\* A text that is not empty has something in it.
LEMMA TextPiece == \A x : IsSequence(Text(x)) /\ (x # "" => Text(x) # <<>>)
BY Pieces DEF Text

\* A sequence is made over part by part.
LEMMA Mapped ==
  ASSUME NEW S, NEW s \in Seq(S), NEW f, f = [i \in DOMAIN s |-> f[i]]
  PROVE  IsSequence(f) /\ (s # <<>> => f # <<>>)
<1>1. Len(s) \in Nat /\ DOMAIN s = 1 .. Len(s)
  BY LenProperties
<1> DEFINE T == {f[i] : i \in 1 .. Len(s)}
<1>2. f \in [1 .. Len(s) -> T]
  BY <1>1
<1>3. f \in Seq(T)
  BY <1>1, <1>2, SeqDef
<1>4. s # <<>> => DOMAIN f # {}
  BY <1>1, EmptySeq
<1> QED BY <1>3, <1>4 DEF IsSequence

--------------------------------------------------------------------------------
(* Notifications. *)

\* A notification with a title or a body.
Telling(n) ==
  /\ n = Notification(n.title, n.body, n.priority)
  /\ IsSequence(n.title) /\ IsSequence(n.body)
  /\ n.title # <<>> \/ n.body # <<>>

\* A notification that is put together with a title or a body tells something,
\* also when it comes out of a sequence.
LEMMA Tells ==
  ASSUME NEW title, NEW body, NEW priority, IsSequence(title), IsSequence(body),
         title # <<>> \/ body # <<>>
  PROVE  /\ Telling(Notification(title, body, priority))
         /\ Telling(Head(<<Notification(title, body, priority)>>))
<1>1. Telling(Notification(title, body, priority))
  BY DEF Telling, Notification
<1>2. \A n : Head(<<n>>) = n
  OBVIOUS
<1> QED BY <1>1, <1>2

\* A notification of Gitea tells something, since its title names the repository.
LEMMA TitledTells ==
  ASSUME NEW body, NEW priority, IsSequence(body)
  PROVE  Telling(Titled(body, priority))
BY Pieces, Tells DEF Titled

\* Each receiver refuses a payload, or makes a notification that tells something.
LEMMA GotifyTells ==
  ASSUME NEW p, GotifyParse(p) # <<>>
  PROVE  Telling(Head(GotifyParse(p)))
<1>1. GotifyParse(p) = <<Notification(Text(p.title), Text(p.message), p.priority)>>
      /\ p.message # ""
  BY DEF GotifyParse, GotifyMessage
<1> QED BY <1>1, TextPiece, Tells

\* Slack: a message without a text is refused.
LEMMA SlackTells ==
  ASSUME NEW p, SlackParse(p) # <<>>
  PROVE  Telling(Head(SlackParse(p)))
<1>1. SlackParse(p) =
        <<Notification(Text(p.username), <<SlackTexts(p)>>, SlackPriority(p.attachments))>>
  BY DEF SlackParse
<1> HIDE DEF SlackTexts
<1> QED BY <1>1, TextPiece, Pieces, Tells

\* Gitea: every kind of notification has a title, whatever the event.
LEMMA GiteaTells ==
  ASSUME NEW p, p.commits \in Nat, GiteaParse(p) # <<>>
  PROVE  Telling(Head(GiteaParse(p)))
<1> DEFINE commits == [i \in 1 .. p.commits |-> "commit"]
<1>1. GiteaParse(p) = <<GiteaFormat(p.event, p)>>
  BY DEF GiteaParse
<1>2. IsSequence(commits)
  <2>1. commits \in Seq({"commit"})
    BY SeqDef
  <2> QED BY <2>1 DEF IsSequence
<1> HIDE DEF commits
<1>9. Telling(GiteaFormat(p.event, p))
  <2>1. /\ Telling(Titled(commits, 3)) /\ Telling(Titled(<<>>, 3))
        /\ Telling(Titled(<<"event">>, 3))
        /\ Telling(Titled(<<"link">>, ObjectPriority(p.event, p)))
    BY <1>2, Pieces, TitledTells
  <2> QED BY <2>1 DEF GiteaFormat, commits
<1> QED BY <1>1, <1>9

\* An alert payload has a title, and a line for each alert.
LEMMA AlertsTell ==
  ASSUME NEW p, p.alerts \in Seq(Reports), p.alerts # <<>>
  PROVE  /\ Telling(AM!Format(p)) /\ AM!Format(p).title # <<>>
         /\ Telling(GF!Format(p)) /\ GF!Format(p).title # <<>>
<1> DEFINE title == <<"counts and group">>
<1>1. IsSequence(title) /\ title # <<>>
  BY Pieces
<1>2. /\ IsSequence([i \in DOMAIN p.alerts |-> AM!Line(p.alerts[i])])
      /\ IsSequence([i \in DOMAIN p.alerts |-> GF!Line(p.alerts[i])])
  BY Mapped
<1>3. /\ AM!Format(p) = Notification(title, [i \in DOMAIN p.alerts |-> AM!Line(p.alerts[i])],
                                    AM!Priority(p))
      /\ GF!Format(p) = Notification(title, [i \in DOMAIN p.alerts |-> GF!Line(p.alerts[i])],
                                    GF!Priority(p))
  BY DEF AM!Format, GF!Format, Notification
<1>4. AM!Format(p).title = title /\ GF!Format(p).title = title
  BY DEF AM!Format, GF!Format
<1> HIDE DEF title
<1> QED BY <1>1, <1>2, <1>3, <1>4, Tells

\* What is accepted tells something.
LEMMA AcceptedTells ==
  ASSUME NEW r \in Inputs, Parsed(r) # <<>>
  PROVE  Telling(Head(Parsed(r)))
<1>1. r.kind \in AlertKinds => r.payload.alerts \in Seq(Reports)
  BY FormatsAssumption
<1>2. \A n : Head(<<n>>) = n
  OBVIOUS
<1>3. CASE r.kind = "alertmanager"
  <2>1. Parsed(r) = <<AM!Format(r.payload)>> /\ AM!Accepts(r.payload)
    BY <1>3 DEF Parsed
  <2>2. Telling(AM!Format(r.payload))
    BY <1>1, <1>3, <2>1, AlertsTell DEF AM!Accepts, AlertKinds
  <2> QED BY <1>2, <2>1, <2>2
<1>4. CASE r.kind = "grafana"
  <2>1. Parsed(r) = <<GF!Format(r.payload)>> /\ GF!Accepts(r.payload)
    BY <1>4 DEF Parsed
  <2>2. Telling(GF!Format(r.payload))
    BY <1>1, <1>4, <2>1, AlertsTell DEF GF!Accepts, AlertKinds
  <2> QED BY <1>2, <2>1, <2>2
<1>5. CASE r.kind = "gotify"
  BY <1>5, GotifyTells DEF Parsed
<1>6. CASE r.kind = "slack"
  BY <1>6, SlackTells DEF Parsed
<1>7. CASE r.kind = "gitea"
  BY <1>7, FormatsAssumption, GiteaTells DEF Parsed
<1> QED BY <1>3, <1>4, <1>5, <1>6, <1>7, FormatsAssumption DEF AlertKinds

\* So does its message, with or without a prefix and whatever its priority.
LEMMA MessageTells ==
  ASSUME NEW r \in Inputs, NEW n, Telling(n)
  PROVE  BuildMarkdown(QueueEntry(r, ApplyPrefix(n, r.prefix))) # <<>>
<1> DEFINE n1 == ApplyPrefix(n, r.prefix)
           e == QueueEntry(r, n1)
           mark == IF e.priority >= 8 THEN <<"!!">> ELSE <<>>
<1>1. Telling(n1)
  <2>0. /\ IsSequence(n.title) /\ IsSequence(n.body) /\ (n.title # <<>> \/ n.body # <<>>)
        /\ n = Notification(n.title, n.body, n.priority)
    BY DEF Telling
  <2>1. CASE n.title # <<>>
    <3>1. IsSequence(Text(r.prefix) \o n.title) /\ Text(r.prefix) \o n.title # <<>>
      BY <2>0, <2>1, TextPiece, Joined
    <3>2. n1 = Notification(Text(r.prefix) \o n.title, n.body, n.priority)
      BY <2>0, <2>1 DEF ApplyPrefix, Notification
    <3> QED BY <2>0, <3>1, <3>2, Tells
  <2>2. CASE n.title = <<>>
    <3>1. IsSequence(Text(r.prefix) \o n.body) /\ Text(r.prefix) \o n.body # <<>>
      BY <2>0, <2>2, TextPiece, Joined
    <3>2. n1 = Notification(n.title, Text(r.prefix) \o n.body, n.priority)
      BY <2>0, <2>2 DEF ApplyPrefix, Notification
    <3> QED BY <2>0, <3>1, <3>2, Tells
  <2> QED BY <2>1, <2>2
<1> HIDE DEF n1
<1>2. e.title = n1.title /\ e.body = n1.body
  BY DEF QueueEntry
<1>3. IsSequence(mark)
  BY Pieces
<1> HIDE DEF mark
<1>4. IsSequence(mark \o e.title) /\ (e.title # <<>> => mark \o e.title # <<>>)
  BY <1>1, <1>2, <1>3, Joined DEF Telling
<1>5. BuildMarkdown(e) = (IF e.title # <<>> THEN mark \o e.title ELSE <<>>) \o e.body
  BY DEF BuildMarkdown, mark
<1> HIDE DEF e
<1>6. IsSequence(e.title) /\ IsSequence(e.body) /\ (e.title # <<>> \/ e.body # <<>>)
  BY <1>1, <1>2 DEF Telling
<1>7. BuildMarkdown(e) # <<>>
  BY <1>4, <1>5, <1>6, Pieces, Joined
<1> QED BY <1>7 DEF e, n1

--------------------------------------------------------------------------------
(* Alerts. *)

\* What the payload of an alert receiver has at its places is what was reported.
LEMMA ReportsInPlaces ==
  ASSUME request \in Inputs, request.kind \in AlertKinds
  PROVE  /\ Alerts \in Seq(Reports)
         /\ DOMAIN Alerts \subseteq Nat
         /\ \A i \in DOMAIN Alerts : /\ Alerts[i] \in Reports
                                    /\ Alerts[i].status \in {"firing", "resolved"}
                                    /\ Alerts[i].startsAt \in Nat \cup {AM!Zero}
<1>1. Alerts \in Seq(Reports)
  BY FormatsAssumption DEF Alerts
<1>2. DOMAIN Alerts = 1 .. Len(Alerts) /\ Len(Alerts) \in Nat
  BY <1>1, LenProperties
<1>3. \A i \in DOMAIN Alerts : Alerts[i] \in Reports
  BY <1>1, <1>2, ElementOfSeq
<1> QED BY <1>1, <1>2, <1>3, FormatsAssumption

\* The alerts that pass a test, by their places.
LEMMA SevereSomewhere ==
  ASSUME NEW s
  PROVE  Severe(s) <=> \E i \in DOMAIN Alerts : AM!Firing(Alerts[i]) /\ Alerts[i].severity = s
BY DEF Severe, That

\* Both receivers find the priority of the worst alert that fires.
LEMMA PriorityOfWorst ==
  /\ AM!Priority(request.payload) = Reference
  /\ GF!Priority(request.payload) = Reference
<1> DEFINE Worst(s) == \E i \in DOMAIN Alerts : AM!Firing(Alerts[i]) /\ Alerts[i].severity = s
<1>1. Reference = IF Worst("critical") THEN 8 ELSE IF Worst("warning") THEN 5 ELSE 3
  BY SevereSomewhere DEF Reference
<1>2. AM!Priority(request.payload) =
        IF Worst("critical") THEN 8 ELSE IF Worst("warning") THEN 5 ELSE 3
  BY DEF AM!Priority, AM!FiringAt, Alerts
<1>3. GF!Priority(request.payload) =
        IF Worst("critical") THEN 8 ELSE IF Worst("warning") THEN 5 ELSE 3
  <2> DEFINE firing == {Alerts[i] : i \in {j \in DOMAIN Alerts : GF!Firing(Alerts[j])}}
  <2>1. \A s : Worst(s) <=> \E a \in firing : a.severity = s
    BY DEF AM!Firing, AM!Resolved, GF!Firing, GF!Resolved
  <2>2. GF!Priority(request.payload) =
          CASE \E a \in firing : a.severity = "critical" -> 8
            [] \A a \in firing : a.severity \notin {"critical", "warning"} -> 3
            [] OTHER -> 5
    BY DEF GF!Priority, Alerts
  <2> HIDE DEF firing, Worst
  <2>3. CASE Worst("critical")
    BY <2>1, <2>2, <2>3
  <2>4. CASE ~ Worst("critical") /\ Worst("warning")
    BY <2>1, <2>2, <2>4
  <2>5. CASE ~ Worst("critical") /\ ~ Worst("warning")
    BY <2>1, <2>2, <2>5
  <2> QED BY <2>3, <2>4, <2>5
<1> QED BY <1>1, <1>2, <1>3

\* Both receivers make a line for each alert, marked with its status.
LEMMA LineForEach ==
  ASSUME request \in Inputs, request.kind \in AlertKinds
  PROVE  /\ AM!Format(request.payload).body = [i \in DOMAIN Alerts |-> AM!Line(Alerts[i])]
         /\ GF!Format(request.payload).body = [i \in DOMAIN Alerts |-> GF!Line(Alerts[i])]
         /\ \A i \in DOMAIN Alerts : /\ AM!Line(Alerts[i]).mark = Alerts[i].status
                                    /\ GF!Line(Alerts[i]).mark = Alerts[i].status
<1>1. /\ AM!Format(request.payload).body = [i \in DOMAIN Alerts |-> AM!Line(Alerts[i])]
      /\ GF!Format(request.payload).body = [i \in DOMAIN Alerts |-> GF!Line(Alerts[i])]
  BY DEF AM!Format, GF!Format, Alerts
<1>2. \A i \in DOMAIN Alerts : /\ AM!Line(Alerts[i]).mark = Alerts[i].status
                             /\ GF!Line(Alerts[i]).mark = Alerts[i].status
  BY ReportsInPlaces DEF AM!Line, GF!Line, AM!Resolved, GF!Resolved
<1> QED BY <1>1, <1>2

\* Both receivers split the fingerprints that are there by what fires.
LEMMA FingerprintsSplit ==
  LET firing == {Alerts[i].fp : i \in {j \in DOMAIN Alerts : AM!Firing(Alerts[j])}} \ {""}
      resolved == {Alerts[i].fp : i \in {j \in DOMAIN Alerts : ~ AM!Firing(Alerts[j])}} \ {""}
      split == [firing |-> firing, resolved |-> resolved]
  IN  AM!Fingerprints(request.payload) = split /\ GF!Fingerprints(request.payload) = split
<1> DEFINE firing == {Alerts[i].fp : i \in {j \in DOMAIN Alerts : AM!Firing(Alerts[j])}} \ {""}
           resolved == {Alerts[i].fp : i \in {j \in DOMAIN Alerts : ~ AM!Firing(Alerts[j])}} \ {""}
           known == {Alerts[i] : i \in {j \in DOMAIN Alerts : Alerts[j].fp # ""}}
<1>1. AM!Fingerprints(request.payload) = [firing |-> firing, resolved |-> resolved]
  <2>1. {Alerts[i].fp : i \in AM!FiringAt(request.payload)} \ {""} = firing
    BY DEF AM!FiringAt, Alerts
  <2>2. {Alerts[i].fp : i \in AM!ResolvedAt(request.payload)} \ {""} = resolved
    BY DEF AM!ResolvedAt, AM!FiringAt, Alerts
  <2> QED BY <2>1, <2>2 DEF AM!Fingerprints, Alerts
<1>2. GF!Fingerprints(request.payload) = [firing |-> firing, resolved |-> resolved]
  <2>1. {a.fp : a \in {b \in known : GF!Firing(b)}} = firing
    BY DEF AM!Firing, AM!Resolved, GF!Firing, GF!Resolved
  <2>2. {a.fp : a \in {b \in known : GF!Resolved(b)}} = resolved
    BY DEF AM!Firing, AM!Resolved, GF!Resolved
  <2> QED BY <2>1, <2>2 DEF GF!Fingerprints, Alerts
<1> QED BY <1>1, <1>2

\* A link to a graph shows an hour with the onset in it.
LEMMA LinkShowsOnset ==
  ASSUME NEW a \in Reports, "from" \in DOMAIN AM!Line(a).link
  PROVE  AM!Line(a).link.from <= a.startsAt /\ a.startsAt <= AM!Line(a).link.to
<1>1. a.startsAt # AM!Zero /\ a.url = "graph"
  BY DEF AM!Line, AM!GraphURL
<1>2. a.startsAt \in Nat
  BY <1>1, FormatsAssumption
<1>3. AM!Line(a).link = [url |-> a.url, from |-> a.startsAt - 45 * 60, to |-> a.startsAt + 15 * 60]
  BY <1>1 DEF AM!Line, AM!GraphURL
<1> QED BY <1>2, <1>3

\* A set of natural numbers that is not empty has a least element.
LEMMA FirstPlace ==
  ASSUME NEW places, places \subseteq Nat, places # {}
  PROVE  AM!First(places) \in places
<1>1. IsWellFoundedOn(OpToRel(<, Nat), Nat)
  BY NatLessThanWellFounded
<1>2. PICK m \in places : \A n \in places : ~ (<<n, m>> \in OpToRel(<, Nat))
  BY <1>1, WFMin
<1>3. \A n \in places : ~ (n < m)
  BY <1>2 DEF OpToRel
<1>4. \A n \in places : m <= n
  BY <1>3
<1> QED BY <1>4 DEF AM!First

\* A chart is of an alert that asked for one, and of one that fires if it can be.
LEMMA TargetAsked ==
  ASSUME request \in Inputs, Target(request) # <<>>
  PROVE  \E i \in DOMAIN Alerts :
           /\ Target(request) = <<Alerts[i]>> /\ AM!ChartRequested(Alerts[i])
           /\ AM!Resolved(Alerts[i]) =>
                \A j \in DOMAIN Alerts : AM!ChartRequested(Alerts[j]) => AM!Resolved(Alerts[j])
<1> DEFINE asked == {i \in DOMAIN Alerts : AM!ChartRequested(Alerts[i])}
           firing == asked \cap {i \in DOMAIN Alerts : AM!Firing(Alerts[i])}
<1>1. request.kind \in AlertKinds /\ Target(request) = AM!ChartTarget(request.payload)
  BY DEF Target, AlertKinds
<1>2. Target(request) =
        CASE firing # {} -> <<Alerts[AM!First(firing)]>>
          [] firing = {} /\ asked # {} -> <<Alerts[AM!First(asked)]>>
          [] OTHER -> <<>>
  BY <1>1 DEF AM!ChartTarget, AM!FiringAt, Alerts
<1>3. asked \subseteq Nat /\ firing \subseteq Nat
  BY <1>1, ReportsInPlaces
<1>4. CASE firing # {}
  <2>1. AM!First(firing) \in firing
    BY <1>3, <1>4, FirstPlace
  <2> QED BY <1>2, <1>4, <2>1 DEF AM!Firing
<1>5. CASE firing = {} /\ asked # {}
  <2>1. AM!First(asked) \in asked
    BY <1>3, <1>5, FirstPlace
  <2>2. \A j \in asked : AM!Resolved(Alerts[j])
    BY <1>5 DEF AM!Firing
  <2> QED BY <1>2, <1>5, <2>1, <2>2
<1>6. CASE firing = {} /\ asked = {}
  BY <1>2, <1>6
<1> QED BY <1>4, <1>5, <1>6

\* The prefix only changes the title of an alert payload, which has one.
LEMMA AlertEntry ==
  ASSUME request \in Inputs, request.kind \in AlertKinds, Parsed(request) # <<>>,
         entry = QueueEntry(request, ApplyPrefix(Head(Parsed(request)), request.prefix))
  PROVE  LET mine == IF request.kind = "grafana" THEN GF!Format(request.payload)
                     ELSE AM!Format(request.payload)
         IN  entry.body = mine.body /\ entry.priority = mine.priority
<1> DEFINE n == Head(Parsed(request))
           p == request.payload
<1>1. \A x : Head(<<x>>) = x
  OBVIOUS
<1>2. n = IF request.kind = "grafana" THEN GF!Format(p) ELSE AM!Format(p)
  BY <1>1 DEF Parsed, AlertKinds
<1>3. p.alerts \in Seq(Reports) /\ p.alerts # <<>>
  <2>1. p.alerts # <<>>
    BY DEF Parsed, AlertKinds, AM!Accepts, GF!Accepts
  <2> QED BY <2>1, ReportsInPlaces DEF Alerts
<1>4. n.title # <<>> /\ n = Notification(n.title, n.body, n.priority)
  BY <1>2, <1>3, AlertsTell DEF Telling
<1> HIDE DEF n, p
<1>5. ApplyPrefix(n, request.prefix) =
        Notification(Text(request.prefix) \o n.title, n.body, n.priority)
  BY <1>4 DEF ApplyPrefix, Notification
<1>6. entry.body = n.body /\ entry.priority = n.priority
  BY <1>5 DEF QueueEntry, Notification, n
<1> QED BY <1>2, <1>6 DEF p

\* What a queued entry says of the alerts of its payload.
LEMMA AlertsAccounted ==
  ASSUME RequestCarried
  PROVE  AlertsAccountedFor
<1> SUFFICES ASSUME phase = "queued", request.kind \in AlertKinds
             PROVE  AlertsAccountedFor
  BY DEF AlertsAccountedFor
<1> DEFINE p == request.payload
           mark(n) == [i \in DOMAIN n.body |-> n.body[i].mark]
           statuses == [i \in DOMAIN Alerts |-> Alerts[i].status]
           theirs == IF request.kind = "grafana" THEN AM!Format(p) ELSE GF!Format(p)
           asked == That(AM!ChartRequested)
           firing == {Alerts[i].fp : i \in {j \in DOMAIN Alerts : AM!Firing(Alerts[j])}} \ {""}
           over == {Alerts[i].fp : i \in {j \in DOMAIN Alerts : ~ AM!Firing(Alerts[j])}} \ {""}
<1>1. /\ request \in Inputs /\ Parsed(request) # <<>>
      /\ entry = QueueEntry(request, ApplyPrefix(Head(Parsed(request)), request.prefix))
  BY DEF RequestCarried
<1>2. mark(AM!Format(p)) = statuses /\ mark(GF!Format(p)) = statuses
  BY <1>1, LineForEach
<1>3. mark(entry) = statuses /\ mark(theirs) = statuses
  BY <1>1, <1>2, AlertEntry
<1>4. entry.priority = Reference /\ theirs.priority = Reference
  <2>1. AM!Format(p).priority = Reference /\ GF!Format(p).priority = Reference
    BY PriorityOfWorst DEF AM!Format, GF!Format
  <2> QED BY <1>1, <2>1, AlertEntry
<1>5. entry.firing = firing /\ entry.resolved = over
  <2>1. AM!Fingerprints(request.payload) = [firing |-> firing, resolved |-> over]
        /\ GF!Fingerprints(request.payload) = [firing |-> firing, resolved |-> over]
    BY FingerprintsSplit
  <2>2. entry.firing = Correlated(request).firing /\ entry.resolved = Correlated(request).resolved
    BY <1>1 DEF QueueEntry
  <2> HIDE DEF firing, over
  <2>3. CASE request.kind = "alertmanager"
    BY <2>1, <2>2, <2>3 DEF Correlated
  <2>4. CASE request.kind = "grafana"
    BY <2>1, <2>2, <2>4 DEF Correlated
  <2> QED BY <2>3, <2>4 DEF AlertKinds
<1>6. \A i \in DOMAIN Alerts : Alerts[i].fp # "" =>
        Alerts[i].fp \in IF AM!Firing(Alerts[i]) THEN entry.firing ELSE entry.resolved
  BY <1>5
<1>7. \A a \in That(LAMBDA b : b.fp # "") :
        a.fp \in IF AM!Firing(a) THEN entry.firing ELSE entry.resolved
  BY <1>6 DEF That
<1>8. entry.firing \cup entry.resolved \subseteq {Alerts[i].fp : i \in DOMAIN Alerts}
  BY <1>5
<1>9. entry.target # <<>> =>
        /\ Head(entry.target) \in asked
        /\ AM!Resolved(Head(entry.target)) => \A a \in asked : AM!Resolved(a)
  <2>1. entry.target = Target(request)
    BY <1>1 DEF QueueEntry
  <2>2. ASSUME Target(request) # <<>>
        PROVE  /\ Head(Target(request)) \in asked
               /\ AM!Resolved(Head(Target(request))) => \A a \in asked : AM!Resolved(a)
    <3>1. PICK i \in DOMAIN Alerts :
            /\ Target(request) = <<Alerts[i]>> /\ AM!ChartRequested(Alerts[i])
            /\ AM!Resolved(Alerts[i]) =>
                 \A j \in DOMAIN Alerts : AM!ChartRequested(Alerts[j]) => AM!Resolved(Alerts[j])
      BY <1>1, <2>2, TargetAsked
    <3>2. Head(Target(request)) = Alerts[i]
      BY <3>1
    <3> QED BY <3>1, <3>2 DEF That
  <2> QED BY <2>1, <2>2
<1>10. request.kind = "alertmanager" =>
         \A i \in DOMAIN Alerts :
           LET link == entry.body[i].link
           IN  "from" \in DOMAIN link =>
                 link.from <= Alerts[i].startsAt /\ Alerts[i].startsAt <= link.to
  <2> SUFFICES ASSUME request.kind = "alertmanager", NEW i \in DOMAIN Alerts,
                      "from" \in DOMAIN entry.body[i].link
               PROVE  entry.body[i].link.from <= Alerts[i].startsAt
                      /\ Alerts[i].startsAt <= entry.body[i].link.to
    OBVIOUS
  <2>1. entry.body[i] = AM!Line(Alerts[i])
    BY <1>1, AlertEntry, LineForEach
  <2>2. Alerts[i] \in Reports
    BY <1>1, ReportsInPlaces
  <2> QED BY <2>1, <2>2, LinkShowsOnset
<1> HIDE DEF statuses
<1> QED BY <1>3, <1>4, <1>7, <1>8, <1>9, <1>10 DEF AlertsAccountedFor, statuses

--------------------------------------------------------------------------------
(* Charts. *)

\* A number between two multiples has a quotient between their factors.
LEMMA QuotientBetween ==
  ASSUME NEW n \in Nat, NEW d \in Nat \ {0}, NEW a \in Nat, NEW b \in Nat,
         a * d <= n, n < b * d
  PROVE  n \div d \in a .. b - 1
<1> DEFINE q == n \div d
           r == n % d
<1>1. q \in Int /\ r \in Nat /\ r < d /\ n = q * d + r
  OBVIOUS
<1> HIDE DEF q, r
<1>2. ~ (q < a)
  <2> SUFFICES ASSUME q < a PROVE FALSE
    OBVIOUS
  <2>1. (q + 1) * d <= a * d
    BY <1>1
  <2>2. (q + 1) * d = q * d + d
    BY <1>1
  <2> QED BY <1>1, <2>1, <2>2
<1>3. ~ (q >= b)
  <2> SUFFICES ASSUME q >= b PROVE FALSE
    OBVIOUS
  <2>1. b * d <= q * d
    BY <1>1
  <2> QED BY <1>1, <2>1
<1> QED BY <1>1, <1>2, <1>3 DEF q

\* The queried range is at least the window, and the step divides it into about
\* two hundred.
LEMMA RangeAndStep ==
  ASSUME NEW startsAt \in Nat \cup {-1}, NEW now \in Nat
  PROVE  LET start == RangeStart(startsAt, now)
             step == QueryStep(start, now)
         IN  /\ start \in Int /\ step \in Nat
             /\ startsAt \in 0 .. now => start <= startsAt
             /\ now - start >= Window
             /\ (now - start) \div step \in Steps .. Steps + Steps \div 8
<1> DEFINE start == RangeStart(startsAt, now)
           length == now - start
           step == QueryStep(start, now)
           share == length \div Steps
<1>1. /\ start \in Int /\ length \in Nat /\ length >= 1800
      /\ startsAt \in 0 .. now => start <= startsAt
  BY DEF RangeStart, Window
<1> HIDE DEF start
<1>2. share \in Nat /\ share >= 9 /\ 200 * share <= length /\ length < 200 * share + 200
  BY <1>1 DEF Steps
<1>3. step = share
  BY <1>2 DEF QueryStep
<1> HIDE DEF share, length, step
<1>4. length \div share \in 200 .. 226 - 1
  <2>1. 200 * share <= length /\ length < 226 * share
    BY <1>1, <1>2
  <2> QED BY <1>1, <1>2, <2>1, QuotientBetween
<1>5. Steps = 200 /\ Steps \div 8 = 25 /\ Window = 1800
  BY DEF Steps, Window
<1>6. start \in Int /\ step \in Nat /\ length >= Window
      /\ length \div step \in Steps .. Steps + Steps \div 8
  BY <1>1, <1>2, <1>3, <1>4, <1>5
<1> QED BY <1>1, <1>6 DEF start, length, step

\* Of the series that are found, at most so many have fewer than so many before
\* them.
LEMMA FirstOnes ==
  ASSUME NEW found, found \subseteq Nat, IsFiniteSet(found), NEW n \in Nat
  PROVE  Cardinality({j \in found : Cardinality({k \in found : k < j}) < n}) <= n
<1> DEFINE before(j) == {k \in found : k < j}
           first == {j \in found : Cardinality(before(j)) < n}
           rank == [j \in first |-> Cardinality(before(j))]
<1>1. \A j \in found : IsFiniteSet(before(j)) /\ Cardinality(before(j)) \in Nat
  <2> SUFFICES ASSUME NEW j \in found
               PROVE  IsFiniteSet(before(j)) /\ Cardinality(before(j)) \in Nat
    OBVIOUS
  <2>1. before(j) \in SUBSET found
    OBVIOUS
  <2>2. IsFiniteSet(before(j))
    BY <2>1, FS_Subset
  <2> QED BY <2>2, FS_CardinalityType
<1>2. ASSUME NEW i \in found, NEW j \in found, i < j
      PROVE  Cardinality(before(i)) # Cardinality(before(j))
  <2>1. i \in Int /\ j \in Int /\ \A k \in found : k \in Int
    OBVIOUS
  <2>2. before(i) \in SUBSET before(j) /\ i \in before(j) /\ i \notin before(i)
    <3>1. i \in before(j) /\ i \notin before(i)
      BY <1>2, <2>1
    <3>2. \A k \in before(i) : k \in before(j)
      BY <1>2, <2>1
    <3> QED BY <3>1, <3>2
  <2> HIDE DEF before
  <2> QED BY <1>1, <2>2, FS_Subset
<1> HIDE DEF before
<1>3. rank \in [first -> 0 .. n - 1] /\ \A i \in first, j \in first : i < j => rank[i] # rank[j]
  <2>1. \A j \in first : j \in found /\ Cardinality(before(j)) \in 0 .. n - 1
    BY <1>1
  <2> HIDE DEF first
  <2>2. rank \in [first -> 0 .. n - 1]
    BY <2>1
  <2>3. ASSUME NEW i \in first, NEW j \in first, i < j PROVE rank[i] # rank[j]
    BY <1>2, <2>1, <2>3
  <2> QED BY <2>2, <2>3
<1> HIDE DEF rank
<1>4. \A i, j \in first : rank[i] = rank[j] => i = j
  <2>1. \A i, j \in first : i < j \/ j < i \/ i = j
    OBVIOUS
  <2> HIDE DEF first
  <2> QED BY <1>3, <2>1
<1>5. rank \in Injection(first, 0 .. n - 1)
  BY <1>3, <1>4 DEF Injection, IsInjective
<1>6. IsFiniteSet(0 .. n - 1) /\ Cardinality(0 .. n - 1) = n
  BY FS_Interval
<1> HIDE DEF first
<1>7. Cardinality(first) <= n
  BY <1>5, <1>6, FS_Injection
<1> QED BY <1>7 DEF first, before

\* A chart has no more series than the most.
LEMMA SeriesCut ==
  ASSUME NEW all \in Samples, NEW startsAt, NEW now
  PROVE  Cardinality(DOMAIN QueryRange(all, startsAt, now)) <= MaxSeries
<1> DEFINE start == RangeStart(startsAt, now)
           points == [i \in DOMAIN all |-> Points(all[i], start, now, QueryStep(start, now))]
           found == {i \in DOMAIN all : points[i] # <<>>}
<1>1. DOMAIN QueryRange(all, startsAt, now) =
        {j \in found : Cardinality({k \in found : k < j}) < MaxSeries}
  BY DEF QueryRange
<1>2. found \subseteq Nat /\ IsFiniteSet(found)
  <2>1. IsFiniteSet(DOMAIN all) /\ DOMAIN all \subseteq Nat
    BY FormatsAssumption
  <2>2. found \in SUBSET DOMAIN all
    OBVIOUS
  <2> QED BY <2>1, <2>2, FS_Subset
<1> HIDE DEF found
<1>3. MaxSeries \in Nat
  BY DEF MaxSeries
<1> QED BY <1>1, <1>2, <1>3, FirstOnes

--------------------------------------------------------------------------------
(* The way of a request. *)

\* The alert that is charted has an onset, or the zero time.
LEMMA TargetOnset ==
  ASSUME request \in Inputs, Target(request) # <<>>
  PROVE  Head(Target(request)).startsAt \in Nat \cup {-1}
<1>1. PICK i \in DOMAIN Alerts : Target(request) = <<Alerts[i]>>
  BY TargetAsked
<1>2. Head(Target(request)) = Alerts[i]
  BY <1>1
<1>3. request.kind \in AlertKinds
  BY DEF Target, AlertKinds
<1> QED BY <1>2, <1>3, ReportsInPlaces DEF AM!Zero

\* The invariant of a request holds when it comes in.
LEMMA FormatsStart == FormatsInit => FormatsInv
BY DEF FormatsInit, FormatsInv, RequestCarried, ChartShowsAlert

\* A chart that is sent shows its alert.
LEMMA SendChartStep ==
  ASSUME FormatsInv, SendChart
  PROVE  FormatsInv'
<1>1. /\ request \in Inputs /\ phase = "queued" /\ entry.target # <<>>
      /\ UNCHANGED <<request, entry>> /\ phase' = "sent"
      /\ entry.target = Target(request)
  BY DEF FormatsInv, RequestCarried, SendChart, QueueEntry
<1>2. RequestCarried'
  BY <1>1 DEF FormatsInv, RequestCarried, SendChart
<1>3. PICK delay \in Delays, all \in Samples :
        LET startsAt == Head(entry.target).startsAt
            now == Arrival + delay
            found == QueryRange(all, startsAt, now)
        IN  chart' = [start  |-> RangeStart(startsAt, now),
                      end    |-> now,
                      step   |-> QueryStep(RangeStart(startsAt, now), now),
                      series |-> found,
                      xAxis  |-> XAxis(found),
                      rows   |-> [i \in DOMAIN found |-> Row(found[i], XAxis(found))]]
  BY DEF SendChart
<1> DEFINE startsAt == Head(entry.target).startsAt
           now == Arrival + delay
<1>4. startsAt \in Nat \cup {-1} /\ now \in Nat
  BY <1>1, TargetOnset, FormatsAssumption DEF Arrival
<1> HIDE DEF startsAt, now
<1>5. /\ chart'.start = RangeStart(startsAt, now) /\ chart'.end = now
      /\ chart'.step = QueryStep(RangeStart(startsAt, now), now)
      /\ chart'.series = QueryRange(all, startsAt, now)
  BY <1>3 DEF startsAt, now
<1>6. Cardinality(DOMAIN chart'.series) <= MaxSeries
  BY <1>5, SeriesCut
<1>7. /\ startsAt \in 0 .. chart'.end => chart'.start <= startsAt
      /\ chart'.end - chart'.start >= Window
      /\ (chart'.end - chart'.start) \div chart'.step \in Steps .. Steps + Steps \div 8
  BY <1>4, <1>5, RangeAndStep
<1>8. ChartShowsAlert'
  BY <1>1, <1>6, <1>7 DEF ChartShowsAlert, startsAt
<1> QED BY <1>2, <1>8 DEF FormatsInv

\* A request keeps its entry and its chart, through every step.
THEOREM FormatsInvariance == FormatsSpec => []FormatsInv
<1>1. ASSUME FormatsInv, [FormatsNext]_formatVars
      PROVE  FormatsInv'
  <2>1. CASE Queue
    BY <1>1, <2>1 DEF Queue, FormatsInv, RequestCarried, ChartShowsAlert
  <2>2. CASE Refuse
    BY <1>1, <2>2 DEF Refuse, FormatsInv, RequestCarried, ChartShowsAlert
  <2>3. CASE SendText
    BY <1>1, <2>3 DEF SendText, FormatsInv, RequestCarried, ChartShowsAlert
  <2>4. CASE SendChart
    BY <1>1, <2>4, SendChartStep
  <2>5. CASE UNCHANGED formatVars
    BY <1>1, <2>5 DEF formatVars, FormatsInv, RequestCarried, ChartShowsAlert
  <2> QED BY <1>1, <2>1, <2>2, <2>3, <2>4, <2>5 DEF FormatsNext
<1> QED BY <1>1, FormatsStart, PTL DEF FormatsSpec

\* Every payload that is accepted has a message that says something.
THEOREM NothingIsEmpty == FormatsSpec => []NothingEmpty
<1>1. FormatsInv => NothingEmpty
  <2> SUFFICES ASSUME RequestCarried, phase = "sent"
               PROVE  message # <<>>
    BY DEF FormatsInv, NothingEmpty
  <2>1. /\ request \in Inputs /\ Parsed(request) # <<>>
        /\ entry = QueueEntry(request, ApplyPrefix(Head(Parsed(request)), request.prefix))
        /\ message = BuildMarkdown(entry)
    BY DEF RequestCarried
  <2> QED BY <2>1, AcceptedTells, MessageTells
<1> QED BY <1>1, FormatsInvariance, PTL

\* Every entry accounts for the alerts of its payload.
THEOREM AlertsAreAccountedFor == FormatsSpec => []AlertsAccountedFor
<1>1. FormatsInv => AlertsAccountedFor
  BY AlertsAccounted DEF FormatsInv
<1> QED BY <1>1, FormatsInvariance, PTL

\* Every chart shows the alert it is of.
THEOREM ChartsShowTheirAlerts == FormatsSpec => []ChartShowsAlert
<1>1. FormatsInv => ChartShowsAlert
  BY DEF FormatsInv
<1> QED BY <1>1, FormatsInvariance, PTL
================================================================================
