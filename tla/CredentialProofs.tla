--------------------------- MODULE CredentialProofs ---------------------------
(***************************************************************************)
(* Proofs about the admin credential, for every number of calls in flight  *)
(* and of writes of the row.                                               *)
(***************************************************************************)
EXTENDS Credential, TLAPS

USE CredentialAssumption

\* Every step keeps the state well typed.
LEMMA TypeStep == TypeOK /\ Next => TypeOK'
<1> USE DEF TypeOK, None, Go
<1>0. last \in Versions \cup {None} /\ last < MaxVersions => last + 1 \in Versions
  BY DEF Versions
<1>1. TypeOK /\ SeedAdminCredential => TypeOK'
  BY <1>0 DEF SeedAdminCredential, calls, history
<1>2. TypeOK /\ Stop => TypeOK'
  BY DEF Stop, history
<1>3. TypeOK /\ DeleteRow => TypeOK'
  BY DEF DeleteRow, calls, history
<1>4. ASSUME NEW a \in Callers, TypeOK, Login(a) PROVE TypeOK'
  BY <1>4 DEF Login, Up, history
<1>5. ASSUME NEW a \in Callers, TypeOK, ChangePassword(a) PROVE TypeOK'
  BY <1>5 DEF ChangePassword, Up, history
<1>6. ASSUME NEW a \in Callers, TypeOK, UpdateAdminPassword(a) PROVE TypeOK'
  BY <1>0, <1>6 DEF UpdateAdminPassword, Up
<1>7. ASSUME NEW a \in Callers, TypeOK, UpdateFails(a) PROVE TypeOK'
  BY <1>7 DEF UpdateFails, Up, AfterFailure, history
<1>8. ASSUME NEW a \in Callers, TypeOK, SetCredential(a) PROVE TypeOK'
  BY <1>8 DEF SetCredential, Up, history
<1>9. ASSUME NEW a \in Callers, TypeOK, Mint(a) PROVE TypeOK'
  BY <1>9 DEF Mint, Up, Minted, history
<1> QED
  BY <1>1, <1>2, <1>3, <1>4, <1>5, <1>6, <1>7, <1>8, <1>9 DEF Next, Call

\* The inductive invariant: without an overlap, the row, the cached copy and
\* the tokens of the changers move together; a seed never catches up with a
\* change.
THEOREM CredentialInvariance == Spec => []CInv
<1>1. Init => CInv
  <2> SUFFICES ASSUME Init PROVE CInv
    OBVIOUS
  <2>1. TypeOK
    BY DEF Init, TypeOK
  <2>2. CallsNeedProcess /\ VersionsAreNew /\ SeedComesFirst /\ ChangesSurviveRestarts
    BY DEF Init, CallsNeedProcess, VersionsAreNew, SeedComesFirst, ChangesSurviveRestarts,
       Refreshing, None, Up
  <2>3. CacheReachesChangers /\ ChangerHoldsToken
    BY DEF Init, CacheReachesChangers, ChangerHoldsToken, None, Up
  <2> QED
    BY <2>1, <2>2, <2>3 DEF Init, CInv, RowPresent, OneChangeAtATime, CacheFollowsRow, Up
<1>2. CInv /\ [Next]_vars => CInv'
  <2> SUFFICES ASSUME CInv, [Next]_vars PROVE CInv'
    OBVIOUS
  <2>0. TypeOK'
    BY TypeStep DEF CInv, vars, calls, history, TypeOK
  <2> USE <2>0 DEF CInv, TypeOK, CallsNeedProcess, VersionsAreNew, RowPresent,
     OneChangeAtATime, CacheFollowsRow, CacheReachesChangers, ChangerHoldsToken,
     SeedComesFirst, ChangesSurviveRestarts, Up, Refreshing, Go, None, Versions
  <2>1. CASE SeedAdminCredential
    <3>1. CallsNeedProcess'
      BY <2>1 DEF SeedAdminCredential, calls, history, MustSeed
    <3>2. VersionsAreNew'
      BY <2>1 DEF SeedAdminCredential, calls, history, MustSeed
    <3>3. RowPresent'
      BY <2>1 DEF SeedAdminCredential, calls, history, MustSeed
    <3>4. OneChangeAtATime'
      BY <2>1 DEF SeedAdminCredential, calls, history, MustSeed
    <3>5. CacheFollowsRow'
      BY <2>1 DEF SeedAdminCredential, calls, history, MustSeed
    <3>6. CacheReachesChangers'
      BY <2>1 DEF SeedAdminCredential, calls, history, MustSeed
    <3>7. ChangerHoldsToken'
      BY <2>1 DEF SeedAdminCredential, calls, history, MustSeed
    <3>8. SeedComesFirst'
      BY <2>1 DEF SeedAdminCredential, calls, history, MustSeed
    <3>9. ChangesSurviveRestarts'
      BY <2>1 DEF SeedAdminCredential, calls, history, MustSeed
    <3> QED
      BY <3>1, <3>2, <3>3, <3>4, <3>5, <3>6, <3>7, <3>8, <3>9
  <2>2. CASE Stop
    <3>1. CallsNeedProcess'
      BY <2>2 DEF Stop, history
    <3>2. VersionsAreNew'
      BY <2>2 DEF Stop, history
    <3>3. RowPresent'
      BY <2>2 DEF Stop, history
    <3>4. OneChangeAtATime'
      BY <2>2 DEF Stop, history
    <3>5. CacheFollowsRow'
      BY <2>2 DEF Stop, history
    <3>6. CacheReachesChangers'
      BY <2>2 DEF Stop, history
    <3>7. ChangerHoldsToken'
      BY <2>2 DEF Stop, history
    <3>8. SeedComesFirst'
      BY <2>2 DEF Stop, history
    <3>9. ChangesSurviveRestarts'
      BY <2>2 DEF Stop, history
    <3> QED
      BY <3>1, <3>2, <3>3, <3>4, <3>5, <3>6, <3>7, <3>8, <3>9
  <2>3. CASE DeleteRow
    <3>1. CallsNeedProcess'
      BY <2>3 DEF DeleteRow, calls, history
    <3>2. VersionsAreNew'
      BY <2>3 DEF DeleteRow, calls, history
    <3>3. RowPresent'
      BY <2>3 DEF DeleteRow, calls, history
    <3>4. OneChangeAtATime'
      BY <2>3 DEF DeleteRow, calls, history
    <3>5. CacheFollowsRow'
      BY <2>3 DEF DeleteRow, calls, history
    <3>6. CacheReachesChangers'
      BY <2>3 DEF DeleteRow, calls, history
    <3>7. ChangerHoldsToken'
      BY <2>3 DEF DeleteRow, calls, history
    <3>8. SeedComesFirst'
      BY <2>3 DEF DeleteRow, calls, history
    <3>9. ChangesSurviveRestarts'
      BY <2>3 DEF DeleteRow, calls, history
    <3> QED
      BY <3>1, <3>2, <3>3, <3>4, <3>5, <3>6, <3>7, <3>8, <3>9
  <2>4. ASSUME NEW a \in Callers, Login(a) PROVE CInv'
    <3>1. CallsNeedProcess'
      BY <2>4 DEF Login, history
    <3>2. VersionsAreNew'
      BY <2>4 DEF Login, history
    <3>3. RowPresent'
      BY <2>4 DEF Login, history
    <3>4. OneChangeAtATime'
      BY <2>4 DEF Login, history
    <3>5. CacheFollowsRow'
      BY <2>4 DEF Login, history
    <3>6. CacheReachesChangers'
      BY <2>4 DEF Login, history
    <3>7. ChangerHoldsToken'
      BY <2>4 DEF Login, history
    <3>8. SeedComesFirst'
      BY <2>4 DEF Login, history
    <3>9. ChangesSurviveRestarts'
      BY <2>4 DEF Login, history
    <3> QED
      BY <3>1, <3>2, <3>3, <3>4, <3>5, <3>6, <3>7, <3>8, <3>9
  <2>5. ASSUME NEW a \in Callers, ChangePassword(a) PROVE CInv'
    <3>1. CallsNeedProcess'
      BY <2>5 DEF ChangePassword, history
    <3>2. VersionsAreNew'
      BY <2>5 DEF ChangePassword, history
    <3>3. RowPresent'
      BY <2>5 DEF ChangePassword, history
    <3>4. OneChangeAtATime'
      BY <2>5 DEF ChangePassword, history
    <3>5. CacheFollowsRow'
      BY <2>5 DEF ChangePassword, history
    <3>6. CacheReachesChangers'
      BY <2>5 DEF ChangePassword, history
    <3>7. ChangerHoldsToken'
      BY <2>5 DEF ChangePassword, history
    <3>8. SeedComesFirst'
      BY <2>5 DEF ChangePassword, history
    <3>9. ChangesSurviveRestarts'
      BY <2>5 DEF ChangePassword, history
    <3> QED
      BY <3>1, <3>2, <3>3, <3>4, <3>5, <3>6, <3>7, <3>8, <3>9
  <2>6. ASSUME NEW a \in Callers, UpdateAdminPassword(a) PROVE CInv'
    <3>1. CallsNeedProcess'
      BY <2>6 DEF UpdateAdminPassword, history
    <3>2. VersionsAreNew'
      BY <2>6 DEF UpdateAdminPassword, history
    <3>3. RowPresent'
      BY <2>6 DEF UpdateAdminPassword, history
    <3>4. OneChangeAtATime'
      <4> SUFFICES ASSUME ~overlapped' PROVE \A b \in Refreshing' : written'[b] = row' /\ b = a
        OBVIOUS
      <4>1. \A b \in Callers : pc[b] # "refresh"
        BY <2>6 DEF UpdateAdminPassword
      <4>2. \A b \in Refreshing' : b = a
        BY <2>6, <4>1 DEF UpdateAdminPassword
      <4>3. written'[a] = row'
        BY <2>6 DEF UpdateAdminPassword
      <4> QED
        BY <4>2, <4>3
    <3>5. CacheFollowsRow'
      BY <2>6 DEF UpdateAdminPassword, history
    <3>6. CacheReachesChangers'
      BY <2>6 DEF UpdateAdminPassword, history
    <3>7. ChangerHoldsToken'
      BY <2>6 DEF UpdateAdminPassword, history
    <3>8. SeedComesFirst'
      BY <2>6 DEF UpdateAdminPassword, history
    <3>9. ChangesSurviveRestarts'
      BY <2>6 DEF UpdateAdminPassword, history
    <3> QED
      BY <3>1, <3>2, <3>3, <3>4, <3>5, <3>6, <3>7, <3>8, <3>9
  <2>7. ASSUME NEW a \in Callers, UpdateFails(a) PROVE CInv'
    <3>1. CallsNeedProcess'
      BY <2>7 DEF UpdateFails, AfterFailure, history
    <3>2. VersionsAreNew'
      BY <2>7 DEF UpdateFails, AfterFailure, history
    <3>3. RowPresent'
      BY <2>7 DEF UpdateFails, AfterFailure, history
    <3>4. OneChangeAtATime'
      BY <2>7 DEF UpdateFails, AfterFailure, history
    <3>5. CacheFollowsRow'
      BY <2>7 DEF UpdateFails, AfterFailure, history
    <3>6. CacheReachesChangers'
      BY <2>7 DEF UpdateFails, AfterFailure, history
    <3>7. ChangerHoldsToken'
      BY <2>7 DEF UpdateFails, AfterFailure, history
    <3>8. SeedComesFirst'
      BY <2>7 DEF UpdateFails, AfterFailure, history
    <3>9. ChangesSurviveRestarts'
      BY <2>7 DEF UpdateFails, AfterFailure, history
    <3> QED
      BY <3>1, <3>2, <3>3, <3>4, <3>5, <3>6, <3>7, <3>8, <3>9
  <2>8. ASSUME NEW a \in Callers, SetCredential(a) PROVE CInv'
    <3>1. CallsNeedProcess'
      BY <2>8 DEF SetCredential, history
    <3>2. VersionsAreNew'
      BY <2>8 DEF SetCredential, history
    <3>3. RowPresent'
      BY <2>8 DEF SetCredential, history
    <3>4. OneChangeAtATime'
      BY <2>8 DEF SetCredential, history
    <3>5. CacheFollowsRow'
      BY <2>8 DEF SetCredential, history
    <3>6. CacheReachesChangers'
      BY <2>8 DEF SetCredential, history
    <3>7. ChangerHoldsToken'
      BY <2>8 DEF SetCredential, history
    <3>8. SeedComesFirst'
      BY <2>8 DEF SetCredential, history
    <3>9. ChangesSurviveRestarts'
      BY <2>8 DEF SetCredential, history
    <3> QED
      BY <3>1, <3>2, <3>3, <3>4, <3>5, <3>6, <3>7, <3>8, <3>9
  <2>9. ASSUME NEW a \in Callers, Mint(a) PROVE CInv'
    <3>1. CallsNeedProcess'
      BY <2>9 DEF Mint, Minted, history
    <3>2. VersionsAreNew'
      BY <2>9 DEF Mint, Minted, history
    <3>3. RowPresent'
      BY <2>9 DEF Mint, Minted, history
    <3>4. OneChangeAtATime'
      BY <2>9 DEF Mint, Minted, history
    <3>5. CacheFollowsRow'
      BY <2>9 DEF Mint, Minted, history
    <3>6. CacheReachesChangers'
      BY <2>9 DEF Mint, Minted, history
    <3>7. ChangerHoldsToken'
      BY <2>9 DEF Mint, Minted, history
    <3>8. SeedComesFirst'
      BY <2>9 DEF Mint, Minted, history
    <3>9. ChangesSurviveRestarts'
      <4> SUFFICES ASSUME cred' # None, Refreshing' = {}, changed' PROVE cred' # seed'
        OBVIOUS
      <4>1. Refreshing = {} /\ cred # None /\ changed
        BY <2>9 DEF Mint, history
      <4> QED
        BY <2>9, <4>1 DEF Mint, history
    <3> QED
      BY <3>1, <3>2, <3>3, <3>4, <3>5, <3>6, <3>7, <3>8, <3>9
  <2>10. CASE UNCHANGED vars
    BY <2>10 DEF vars, calls, history
  <2> QED
    BY <2>1, <2>2, <2>3, <2>4, <2>5, <2>6, <2>7, <2>8, <2>9, <2>10 DEF Next, Call
<1> QED
  BY <1>1, <1>2, PTL DEF Spec

\* Between calls the cached copy is the row, without overlap or deletion.
THEOREM CacheIsTheRow == Spec => []CacheFollowsRow
<1>1. CInv => CacheFollowsRow
  BY DEF CInv
<1> QED
  BY <1>1, CredentialInvariance, PTL

\* A caller's token is of its own change or of a later one, and is accepted
\* until a still later one commits.
THEOREM CallersSurvive == Spec => []CallerSurvivesRotation
<1>1. CInv => CallerSurvivesRotation
  BY DEF CInv, ChangerHoldsToken, CallerSurvivesRotation
<1> QED
  BY <1>1, CredentialInvariance, PTL

\* A change that has committed shuts out the configured password, whatever
\* stops, failures, overlaps and restarts follow.
THEOREM ChangesSurvive == Spec => []ChangesSurviveRestarts
<1>1. CInv => ChangesSurviveRestarts
  BY DEF CInv
<1> QED
  BY <1>1, CredentialInvariance, PTL
==============================================================================
