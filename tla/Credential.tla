----------------------------- MODULE Credential -----------------------------
(***************************************************************************)
(* The admin credential: the single row of admin_credentials               *)
(* (internal/store/admin.go) and the copy of it that AdminAuth keeps in    *)
(* memory (internal/api/auth.go), with logins and password changes in      *)
(* flight, failing transactions, restarts, and an operator who deletes the *)
(* row to have it seeded again.                                            *)
(*                                                                         *)
(* Each write of the row is a version, a number that stands for its        *)
(* password and its signing secret, which are written together.  A session *)
(* token is the version whose secret signed it.  A call that is refused    *)
(* leaves no trace and is no action here.                                  *)
(***************************************************************************)
EXTENDS Naturals

CONSTANTS
  Callers,     \* calls in flight
  MaxVersions  \* bound: writes of the row

ASSUME CredentialAssumption == MaxVersions \in Nat \ {0}

Versions == 1 .. MaxVersions
None == 0

VARIABLES
  row,         \* the row, None when there is none
  cred,        \* the cached copy, None when the process is down
  last,        \* the last version written
  pc,          \* where each call is
  written,     \* the version a caller's ChangePassword wrote, since the start
  session,     \* the caller's session token
  seed,        \* history: the version the last seed wrote
  changed,     \* history: a change has committed, and no operator has deleted
               \* the row since
  deleted,     \* history: the row was deleted since the start
  overlapped   \* history: since the start, a change wrote the row between
               \* another's write of the row and of the cached copy

calls == <<pc, written, session>>
history == <<seed, changed, deleted, overlapped>>
vars == <<row, cred, last, calls, history>>

TypeOK ==
  /\ row \in Versions \cup {None}
  /\ cred \in Versions \cup {None}
  /\ last \in Versions \cup {None}
  /\ pc \in [Callers -> {"idle", "change", "refresh", "mint"}]
  /\ written \in [Callers -> Versions \cup {None}]
  /\ session \in [Callers -> Versions \cup {None}]
  /\ seed \in Versions \cup {None}
  /\ changed \in BOOLEAN
  /\ deleted \in BOOLEAN
  /\ overlapped \in BOOLEAN

Init ==
  /\ row = None
  /\ cred = None
  /\ last = None
  /\ pc = [a \in Callers |-> "idle"]
  /\ written = [a \in Callers |-> None]
  /\ session = [a \in Callers |-> None]
  /\ seed = None
  /\ changed = FALSE
  /\ deleted = FALSE
  /\ overlapped = FALSE

Up == cred # None
Go(a, l) == pc' = [pc EXCEPT ![a] = l]

\* A change has written the row and is still to set the cached copy.
Refreshing == {a \in Callers : pc[a] = "refresh"}

--------------------------------------------------------------------------------
(* Start and stop. *)

\* Mutant: the configured hash is written at every start.
MustSeed_always == TRUE

MustSeed == row = None

\* NewAdminAuth: the row is read, or seeded from the configuration.
SeedAdminCredential ==
  /\ ~Up
  /\ \/ /\ MustSeed
        /\ last < MaxVersions
        /\ last' = last + 1
        /\ row' = last'
        /\ seed' = last'
     \/ /\ ~MustSeed
        /\ UNCHANGED <<last, row, seed>>
  /\ cred' = row'
  /\ deleted' = FALSE
  /\ overlapped' = FALSE
  /\ UNCHANGED <<calls, changed>>

\* The process stops: calls in flight are cut off, sessions are the clients'.
Stop ==
  /\ Up
  /\ cred' = None
  /\ pc' = [a \in Callers |-> "idle"]
  /\ written' = [a \in Callers |-> None]
  /\ UNCHANGED <<row, last, session, history>>

\* The way out for an operator who is locked out, whether or not the process
\* runs.  The bound leaves the next start a version to seed.
DeleteRow ==
  /\ row # None
  /\ last < MaxVersions
  /\ row' = None
  /\ deleted' = TRUE
  /\ changed' = FALSE
  /\ UNCHANGED <<cred, last, calls, seed, overlapped>>

--------------------------------------------------------------------------------
(* Calls. *)

\* The password was compared with the cached hash.
Login(a) ==
  /\ Up
  /\ pc[a] = "idle"
  /\ Go(a, "mint")
  /\ UNCHANGED <<row, cred, last, written, session, history>>

\* The interceptor verified the token with the cached secret, the handler the
\* password with the cached hash and the length of the new one.
ChangePassword(a) ==
  /\ Up
  /\ pc[a] = "idle"
  /\ session[a] = cred
  /\ Go(a, "change")
  /\ UNCHANGED <<row, cred, last, written, session, history>>

\* The transaction reads the row and writes the new hash with a new secret.
UpdateAdminPassword(a) ==
  /\ pc[a] = "change"
  /\ row # None
  /\ last < MaxVersions
  /\ last' = last + 1
  /\ row' = last'
  /\ written' = [written EXCEPT ![a] = last']
  /\ changed' = TRUE
  /\ overlapped' = (overlapped \/ Refreshing # {})
  /\ Go(a, "refresh")
  /\ UNCHANGED <<cred, session, seed, deleted>>

\* Mutant: the cached copy is set although the transaction failed.
AfterFailure_refresh == "refresh"

AfterFailure == "idle"

\* The transaction fails, because the row is gone or the database is.
UpdateFails(a) ==
  /\ pc[a] = "change"
  /\ Go(a, AfterFailure)
  /\ UNCHANGED <<row, cred, last, written, session, history>>

\* The cached copy is set under the lock ...
SetCredential(a) ==
  /\ pc[a] = "refresh"
  /\ cred' = written[a]
  /\ Go(a, "mint")
  /\ UNCHANGED <<row, last, written, session, history>>

\* Mutant: a caller that holds a token gets the same one back.
Minted_held(a) == IF session[a] = None THEN cred ELSE session[a]

\* ... and read again to sign the caller's token.
Minted(a) == cred

Mint(a) ==
  /\ pc[a] = "mint"
  /\ session' = [session EXCEPT ![a] = Minted(a)]
  /\ Go(a, "idle")
  /\ UNCHANGED <<row, cred, last, written, history>>

--------------------------------------------------------------------------------
Call(a) ==
  \/ Login(a)
  \/ ChangePassword(a)
  \/ UpdateAdminPassword(a)
  \/ UpdateFails(a)
  \/ SetCredential(a)
  \/ Mint(a)

Next ==
  \/ SeedAdminCredential
  \/ Stop
  \/ DeleteRow
  \/ \E a \in Callers : Call(a)

Spec == Init /\ [][Next]_vars

--------------------------------------------------------------------------------
(* Properties. *)

\* Between calls, the cached copy is the row, unless two changes overlapped or
\* the row was deleted under the running process.
CacheFollowsRow ==
  Up /\ Refreshing = {} /\ ~overlapped /\ ~deleted => cred = row

\* Once a password change has committed, the configured password is out for
\* good (SeedAdminCredential and UpdateAdminPassword of the store): when no
\* change is between its two writes, no process accepts it or a session of its
\* secret, whatever stopped between the two writes, failed, overlapped or was
\* restarted in between, unless an operator deleted the row.
ChangesSurviveRestarts ==
  Up /\ Refreshing = {} /\ changed => cred # seed

\* "... then mints a fresh token so the calling session survives its own
\* rotation" (auth.go:87).  Once its call has ended, a caller that changed the
\* password holds no token older than its change, and one that is accepted
\* unless a later change has committed; also when another change replaced the
\* cached copy before mint read it again.  Changes that overlap are excluded.
CallerSurvivesRotation ==
  \A a \in Callers :
    Up /\ ~overlapped /\ ~deleted /\ pc[a] = "idle" /\ written[a] # None =>
      written[a] <= session[a] /\ (session[a] = cred \/ session[a] < row)

\* What the README says of a running process: "After the first start the
\* database row is authoritative".  When no change is under way, the cached
\* copy is the row.
RowIsAuthoritative ==
  Up /\ Refreshing = {} /\ ~deleted => cred = row

--------------------------------------------------------------------------------
(* The inductive invariant. *)

\* While the process is down nothing is in flight.
CallsNeedProcess ==
  ~Up => \A a \in Callers : pc[a] = "idle" /\ written[a] = None

\* Versions are new when they are written, so no two callers wrote the same.
VersionsAreNew ==
  /\ row <= last /\ cred <= last
  /\ \A a \in Callers : written[a] <= last
  /\ \A a \in Refreshing : written[a] # None
  /\ \A a, b \in Callers : a # b /\ written[a] = written[b] => written[a] = None

\* The process keeps the row it found, while nobody deletes it.
RowPresent == Up /\ ~deleted => row # None

\* Without an overlap only one change is between its two writes, and the row
\* is the one it wrote.
OneChangeAtATime ==
  Up /\ ~overlapped /\ ~deleted =>
    \A a \in Refreshing : written[a] = row /\ Refreshing = {a}

\* A change that is done with the cached copy left it at least as new, and the
\* copy never runs ahead of the row.
CacheReachesChangers ==
  Up /\ ~overlapped /\ ~deleted =>
    /\ cred <= row
    /\ \A a \in Callers \ Refreshing : written[a] <= cred

\* The token of a changer, also while its next call is under way.
ChangerHoldsToken ==
  \A a \in Callers :
    /\ session[a] <= last
    /\ Up /\ ~overlapped /\ ~deleted /\ pc[a] \in {"idle", "change"} /\ written[a] # None =>
         written[a] <= session[a] /\ (session[a] = cred \/ session[a] < row)

\* A seed comes before the changes of the process that wrote it.
SeedComesFirst ==
  /\ seed <= last
  /\ changed => row # None /\ row # seed
  /\ \A a \in Callers : written[a] = None \/ written[a] # seed

CInv ==
  /\ TypeOK
  /\ CallsNeedProcess
  /\ VersionsAreNew
  /\ RowPresent
  /\ OneChangeAtATime
  /\ CacheFollowsRow
  /\ CacheReachesChangers
  /\ ChangerHoldsToken
  /\ SeedComesFirst
  /\ ChangesSurviveRestarts
==============================================================================
