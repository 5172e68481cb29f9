---------------------------- MODULE IdentityProofs ----------------------------
(***************************************************************************)
(* Proofs about Identity, for any number of identities.                    *)
(***************************************************************************)
EXTENDS Identity, TLAPS

\* The initial state satisfies the invariant.
LEMMA InitHolds == Init => IdentityInv
<1> SUFFICES ASSUME Init PROVE IdentityInv
  OBVIOUS
<1>1. TypeOK
  BY DEF Init, TypeOK, Stopped
<1>2. Numbered
  BY DEF Init, Numbered, None
<1>3. Path /\ SettingUp /\ Recoverable /\ Verified /\ ResetBurns
  BY DEF Init, Path, SettingUp, Recoverable, Verified, ResetBurns, Setup
<1> QED
  BY <1>1, <1>2, <1>3 DEF IdentityInv

--------------------------------------------------------------------------------
(* Types and numbers. *)

LEMMA NextType == ASSUME TypeOK, Path, [Next]_vars PROVE TypeOK'
<1> USE IdentityAssumption DEF TypeOK, Identities, None, Torn, server, process, history
<1>1. CASE \E r \in BOOLEAN : Start(r)
  BY <1>1 DEF Start, Starting, Stopped, Setup
<1>2. CASE GetOwnVerificationStatus \/ LoadCrossSigningPrivateKeys
  BY <1>2 DEF GetOwnVerificationStatus, LoadCrossSigningPrivateKeys, Starting, Stopped, Setup
<1>3. CASE VerifyWithRecoveryKey \/ Guard \/ NukeOtherDevices
  BY <1>3 DEF VerifyWithRecoveryKey, VerifyIdentity, Guard, NukeOtherDevices,
              OthersAfterNuke, Starting, Stopped, Setup
<1>4. CASE UploadSecrets
  BY <1>4 DEF UploadSecrets, Starting, Stopped, Setup
<1>5. CASE PublishKeys \/ SignOwnDevice
  BY <1>5 DEF PublishKeys, SignOwnDevice, Starting, Stopped, Setup
<1>6. CASE PersistRecoveryKey
  BY <1>6 DEF PersistRecoveryKey, FileAfter, Path, Starting, Stopped, Setup
<1>7. CASE Stop
  BY <1>7 DEF Stop, CutShort, Path, Starting, Stopped, Setup
<1>8. CASE LoseDatabase \/ WipeServer
  BY <1>8 DEF LoseDatabase, WipeServer
<1>9. CASE \E g \in backups \cup {None} : ReplaceRecoveryKey(g)
  BY <1>9 DEF ReplaceRecoveryKey
<1>10. CASE ResetElsewhere
  BY <1>10 DEF ResetElsewhere, Path
<1>11. CASE UNCHANGED vars
  BY <1>11 DEF vars
<1> QED
  BY <1>1, <1>2, <1>3, <1>4, <1>5, <1>6, <1>7, <1>8, <1>9, <1>10, <1>11
     DEF Next, Bot, Others

\* An identity is a number that was given out before.
LEMMA NextNumbered == ASSUME TypeOK, Path, Numbered, [Next]_vars PROVE Numbered'
<1> USE DEF Numbered, server, process, history
<1>1. /\ last \in Nat
      /\ file # Torn => file \in Nat
      /\ \A g \in backups \cup lost : g \in Nat
  BY IdentityAssumption DEF TypeOK, Identities, None
<1>2. CASE \E r \in BOOLEAN : Start(r)
  BY <1>1, <1>2 DEF Start, None
<1>3. CASE GetOwnVerificationStatus \/ LoadCrossSigningPrivateKeys
  BY <1>3 DEF GetOwnVerificationStatus, LoadCrossSigningPrivateKeys
<1>4. CASE VerifyWithRecoveryKey \/ Guard \/ NukeOtherDevices
  BY <1>4 DEF VerifyWithRecoveryKey, VerifyIdentity, Guard, NukeOtherDevices
<1>5. CASE UploadSecrets
  BY <1>1, <1>5 DEF UploadSecrets
<1>6. CASE PublishKeys \/ SignOwnDevice
  BY <1>6 DEF PublishKeys, SignOwnDevice
<1>7. CASE PersistRecoveryKey
  BY <1>1, <1>7 DEF PersistRecoveryKey, FileAfter
<1>8. CASE Stop
  <2>1. \A g \in lost' : g \in lost \/ g \in {published, fresh}
    BY <1>8 DEF Stop, CutShort
  <2> QED
    BY <1>1, <1>8, <2>1 DEF Stop
<1>9. CASE LoseDatabase \/ WipeServer
  BY <1>1, <1>9 DEF LoseDatabase, WipeServer, None
<1>10. CASE \E g \in backups \cup {None} : ReplaceRecoveryKey(g)
  BY <1>1, <1>10 DEF ReplaceRecoveryKey, None
<1>11. CASE ResetElsewhere
  <2>1. \A g \in lost' : g \in lost \/ g \in {last + 1, fresh}
    BY <1>11 DEF ResetElsewhere
  <2> QED
    BY <1>1, <1>11, <2>1 DEF ResetElsewhere
<1>12. CASE UNCHANGED vars
  BY <1>12 DEF vars
<1> QED
  BY <1>2, <1>3, <1>4, <1>5, <1>6, <1>7, <1>8, <1>9, <1>10, <1>11, <1>12
     DEF Next, Bot, Others

--------------------------------------------------------------------------------
(* One start. *)

\* The identity that is generated next is nobody's yet.
LEMMA NewIdentity ==
  ASSUME TypeOK, Numbered
  PROVE  /\ last + 1 # None
         /\ last + 1 \notin lost
         /\ last + 1 # published
         /\ last < MaxIdentities => last + 1 # file
BY IdentityAssumption DEF TypeOK, Numbered, Identities, None, Torn

LEMMA NextParts ==
  ASSUME IdentityInv, [Next]_vars
  PROVE  Path' /\ SettingUp' /\ Recoverable' /\ Verified' /\ ResetBurns'
<1> USE DEF IdentityInv, Path, SettingUp, Recoverable, Verified, ResetBurns, VerifyIdentity,
        Setup, Starting, server, process, history
<1>1. CASE \E r \in BOOLEAN : Start(r)
  BY <1>1 DEF Start, Stopped
<1>2. CASE GetOwnVerificationStatus
  BY <1>2 DEF GetOwnVerificationStatus, IsVerified, HasKeys
<1>3. CASE LoadCrossSigningPrivateKeys
  BY <1>3 DEF LoadCrossSigningPrivateKeys
<1>4. CASE VerifyWithRecoveryKey
  BY <1>4 DEF VerifyWithRecoveryKey
<1>5. CASE Guard
  BY <1>5 DEF Guard, MayBootstrap
<1>6. CASE NukeOtherDevices
  BY <1>6 DEF NukeOtherDevices, OthersAfterNuke
<1>7. CASE UploadSecrets
  BY <1>7, NewIdentity DEF UploadSecrets
<1>8. CASE PublishKeys
  BY <1>8 DEF PublishKeys
<1>9. CASE SignOwnDevice
  BY <1>9 DEF SignOwnDevice
<1>10. CASE PersistRecoveryKey
  BY <1>10 DEF PersistRecoveryKey, FileAfter
<1>11. CASE Stop
  BY <1>11 DEF Stop, CutShort, Starting
<1>12. CASE LoseDatabase
  BY <1>12 DEF LoseDatabase, Stopped
<1>13. CASE \E g \in backups \cup {None} : ReplaceRecoveryKey(g)
  BY <1>13 DEF ReplaceRecoveryKey, Stopped
<1>14. CASE WipeServer
  BY <1>14 DEF WipeServer, Stopped
<1>15. CASE ResetElsewhere
  BY <1>15, NewIdentity DEF ResetElsewhere
<1>16. CASE UNCHANGED vars
  BY <1>16 DEF vars
<1> QED
  BY <1>1, <1>2, <1>3, <1>4, <1>5, <1>6, <1>7, <1>8, <1>9, <1>10, <1>11, <1>12, <1>13,
     <1>14, <1>15, <1>16 DEF Next, Bot, Others

--------------------------------------------------------------------------------
(* Theorems. *)

\* The inductive invariant: how far a start has come, which identity the
\* homeserver has meanwhile, and which identities can be recovered.
THEOREM IdentityInvariance == Spec => []IdentityInv
<1>1. Init => IdentityInv
  BY InitHolds
<1>2. IdentityInv /\ [Next]_vars => IdentityInv'
  BY NextType, NextNumbered, NextParts DEF IdentityInv
<1> QED
  BY <1>1, <1>2, PTL DEF Spec

\* A bot that came up is verified, and can be rebuilt from recovery.key if it
\* holds the private keys, or if the set-up of its identity was not cut short
\* and nobody else replaced the one or the other.
THEOREM ReadyCanBeRebuilt == Spec => []ReadyIsRecoverable
<1>1. IdentityInv => ReadyIsRecoverable
  BY DEF IdentityInv, Recoverable, Verified, ReadyIsRecoverable, Setup
<1> QED
  BY <1>1, IdentityInvariance, PTL

\* A reset that came up has burned the old identity.
THEOREM ResetsAreComplete == Spec => []ResetBurns
<1>1. IdentityInv => ResetBurns
  BY DEF IdentityInv
<1> QED
  BY <1>1, IdentityInvariance, PTL

\* With a recovery.key that verifies, no start is refused and none replaces
\* the identity.
THEOREM TheFileSuffices == Spec => SingleFileSuffices
<1>1. IdentityInv /\ [Next]_vars =>
        [pc' # pc /\ pc \in Starting /\ ~reset /\ VerifyIdentity
           => pc' # "refused" /\ published' = published /\ secrets' = secrets]_vars
  <2> SUFFICES ASSUME IdentityInv, Next, pc' # pc, pc \in Starting, ~reset, VerifyIdentity
               PROVE  pc' # "refused" /\ published' = published /\ secrets' = secrets
    OBVIOUS
  <2>1. file # None /\ pc \notin Setup \cup {"upload"}
    BY DEF IdentityInv, Path, VerifyIdentity
  <2>2. pc # "guard"
    BY DEF IdentityInv, Verified
  <2>3. \/ GetOwnVerificationStatus \/ LoadCrossSigningPrivateKeys
        \/ VerifyWithRecoveryKey \/ Guard \/ NukeOtherDevices \/ Stop
    BY <2>1 DEF Next, Bot, Others, Start, UploadSecrets, PublishKeys, SignOwnDevice,
         PersistRecoveryKey, LoseDatabase, ReplaceRecoveryKey, WipeServer, ResetElsewhere,
         Starting, Stopped, Setup, process
  <2>4. UNCHANGED <<published, secrets>>
    BY <2>3 DEF GetOwnVerificationStatus, LoadCrossSigningPrivateKeys, VerifyWithRecoveryKey,
         Guard, NukeOtherDevices, Stop, server
  <2>5. pc' # "refused"
    BY <2>2, <2>3 DEF GetOwnVerificationStatus, LoadCrossSigningPrivateKeys,
         VerifyWithRecoveryKey, Guard, NukeOtherDevices, Stop
  <2> QED
    BY <2>4, <2>5
<1> QED
  BY <1>1, IdentityInvariance, PTL DEF Spec, SingleFileSuffices

\* No start overwrites a recovery.key unless it is a reset.
THEOREM TheFileIsKept == Spec => KeyFileKept
<1>1. IdentityInv /\ [Next]_vars =>
        [file' # file /\ pc \in Starting => file = None \/ reset]_vars
  <2> SUFFICES ASSUME IdentityInv, Next, file' # file, pc \in Starting
               PROVE  file = None \/ reset
    OBVIOUS
  <2>1. pc = "persist"
    BY DEF Next, Bot, Others, Start, GetOwnVerificationStatus, LoadCrossSigningPrivateKeys,
         VerifyWithRecoveryKey, Guard, NukeOtherDevices, UploadSecrets, PublishKeys,
         SignOwnDevice, PersistRecoveryKey, Stop, LoseDatabase, ReplaceRecoveryKey,
         WipeServer, ResetElsewhere, Starting, Stopped, Setup, server, process
  <2> QED
    BY <2>1 DEF IdentityInv, Path, Setup
<1> QED
  BY <1>1, IdentityInvariance, PTL DEF Spec, KeyFileKept

\* No start replaces a published identity unless it is a reset.
THEOREM TheIdentityIsKept == Spec => IdentityKept
<1>1. IdentityInv /\ [Next]_vars =>
        [pc' # pc /\ pc \in Starting /\ published' # published
           => published = None \/ reset \/ touched]_vars
  <2> SUFFICES ASSUME IdentityInv, Next, pc' # pc, pc \in Starting, published' # published
               PROVE  published = None \/ reset \/ touched
    OBVIOUS
  <2>1. pc = "publish"
    BY DEF Next, Bot, Others, Start, GetOwnVerificationStatus, LoadCrossSigningPrivateKeys,
         VerifyWithRecoveryKey, Guard, NukeOtherDevices, UploadSecrets, PublishKeys,
         SignOwnDevice, PersistRecoveryKey, Stop, LoseDatabase, ReplaceRecoveryKey,
         WipeServer, ResetElsewhere, Starting, Stopped, Setup, server, process
  <2> QED
    BY <2>1 DEF IdentityInv, Path, Setup
<1> QED
  BY <1>1, IdentityInvariance, PTL DEF Spec, IdentityKept

\* No start overwrites the file or the identity on the homeserver.
THEOREM NothingIsOverwritten == Spec => NothingOverwritten
  BY TheFileIsKept, TheIdentityIsKept DEF NothingOverwritten
==============================================================================
