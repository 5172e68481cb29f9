------------------------------ MODULE Identity ------------------------------
(***************************************************************************)
(* The bot's cross-signing identity: what one start does to bring the      *)
(* device up verified (Start, ensureVerified, bootstrapCrossSigning,       *)
(* loadCrossSigningPrivateKeys and nukeOtherDevices of                     *)
(* internal/matrix/bot.go), start after start, with a stop or a failed     *)
(* call between any two of its steps, and with what operators and other    *)
(* sessions of the account do meanwhile.                                   *)
(*                                                                         *)
(* An identity is a number: its three key pairs and its recovery key are   *)
(* generated together.  Login, sync and the crypto store show only in      *)
(* whether the device is a new one.                                        *)
(***************************************************************************)
EXTENDS Naturals

CONSTANT MaxIdentities  \* bound: identities ever generated

ASSUME IdentityAssumption == MaxIdentities \in Nat

Identities == 1 .. MaxIdentities
None == 0
Torn == MaxIdentities + 1  \* a recovery.key that a stop left truncated

VARIABLES
  published,  \* homeserver: the identity of the published public keys
  secrets,    \* homeserver: the one whose private keys are in secret storage,
              \* and whose recovery key opens it
  signed,     \* homeserver: the identity that signed the bot's device
  others,     \* homeserver: the account has other devices
  file,       \* data_dir/recovery.key
  pc,         \* where the start is
  reset,      \* this start has --reset-identity
  fresh,      \* the identity this start generated
  keys,       \* the private keys in the process's memory
  last,       \* the last identity generated
  backups,    \* history: recovery keys that somebody has
  lost,       \* history: identities whose recovery key may be nowhere, or
              \* may not be the one in recovery.key
  touched     \* history: somebody else changed the account since the start

server == <<published, secrets, signed, others>>
process == <<pc, reset, fresh, keys>>
history == <<backups, lost, touched>>
vars == <<server, file, process, last, history>>

Setup == {"publish", "sign", "persist"}
Starting == Setup \cup {"status", "restore", "verify", "guard", "nuke", "upload"}
Stopped == {"down", "refused"}

TypeOK ==
  /\ published \in Identities \cup {None}
  /\ secrets \in Identities \cup {None}
  /\ signed \in Identities \cup {None}
  /\ others \in BOOLEAN
  /\ file \in Identities \cup {None, Torn}
  /\ pc \in Starting \cup Stopped \cup {"ready"}
  /\ reset \in BOOLEAN
  /\ fresh \in Identities \cup {None}
  /\ keys \in Identities \cup {None}
  /\ last \in Identities \cup {None}
  /\ backups \in SUBSET Identities
  /\ lost \in SUBSET Identities
  /\ touched \in BOOLEAN

Init ==
  /\ published = None
  /\ secrets = None
  /\ signed = None
  /\ others = FALSE
  /\ file = None
  /\ pc = "down"
  /\ reset = FALSE
  /\ fresh = None
  /\ keys = None
  /\ last = None
  /\ backups = {}
  /\ lost = {}
  /\ touched = FALSE

\* What the command verify-identity finds out: recovery.key opens the secret
\* storage, and the keys in there are the published ones.
VerifyIdentity ==
  /\ file = secrets
  /\ secrets = published
  /\ published # None

--------------------------------------------------------------------------------
(* One start. *)

Start(r) ==
  /\ pc \in Stopped
  /\ reset' = r
  /\ pc' = IF r THEN "nuke" ELSE "status"
  /\ fresh' = None
  /\ keys' = None
  /\ touched' = FALSE
  /\ UNCHANGED <<server, file, last, backups, lost>>

\* Mutant: keys that did not sign this device are taken for no keys.
HasKeys_signed == signed # None

HasKeys == published # None

\* Mutant: a signature by any identity will do.
IsVerified_once == HasKeys /\ signed # None

IsVerified == HasKeys /\ signed = published

\* The answer to GetOwnVerificationStatus decides how the start goes on.
GetOwnVerificationStatus ==
  /\ pc = "status"
  /\ \/ IsVerified /\ pc' = "restore"
     \/ ~IsVerified /\ HasKeys /\ pc' = "verify"
     \/ ~HasKeys /\ pc' = "guard"
  /\ UNCHANGED <<server, file, reset, fresh, keys, last, history>>

\* A verified device: the private keys are loaded if recovery.key opens the
\* storage; if not, or if a call fails, the bot goes on without them.
LoadCrossSigningPrivateKeys ==
  /\ pc = "restore"
  /\ \/ file = secrets /\ keys' = secrets
     \/ UNCHANGED keys
  /\ pc' = "ready"
  /\ UNCHANGED <<server, file, reset, fresh, last, history>>

\* A device that is not verified is signed with the help of recovery.key; a
\* key that is missing or opens nothing is fatal.
VerifyWithRecoveryKey ==
  /\ pc = "verify"
  /\ \/ /\ VerifyIdentity
        /\ signed' = published
        /\ keys' = published
        /\ pc' = "ready"
     \/ /\ ~VerifyIdentity
        /\ pc' = "refused"
        /\ UNCHANGED <<signed, keys>>
  /\ UNCHANGED <<published, secrets, others, file, reset, fresh, last, history>>

\* Mutant: the file is not looked at.
MayBootstrap_always == TRUE

\* A recovery.key on disk is never overwritten without --reset-identity.
MayBootstrap == file = None

Guard ==
  /\ pc = "guard"
  /\ pc' = IF MayBootstrap THEN "upload" ELSE "refused"
  /\ UNCHANGED <<server, file, reset, fresh, keys, last, history>>

\* Mutant: only the device that is in use is logged out.
OthersAfterNuke_kept == others

OthersAfterNuke == FALSE

NukeOtherDevices ==
  /\ pc = "nuke"
  /\ others' = OthersAfterNuke
  /\ pc' = "upload"
  /\ UNCHANGED <<published, secrets, signed, file, reset, fresh, keys, last, history>>

\* GenerateAndUploadCrossSigningKeysWithPassword: new private keys are put in
\* secret storage under a new recovery key ...
UploadSecrets ==
  /\ pc = "upload"
  /\ last < MaxIdentities
  /\ last' = last + 1
  /\ fresh' = last + 1
  /\ secrets' = last + 1
  /\ pc' = "publish"
  /\ UNCHANGED <<published, signed, others, file, reset, keys, history>>

\* ... then the public keys are published.
PublishKeys ==
  /\ pc = "publish"
  /\ published' = fresh
  /\ keys' = fresh
  /\ pc' = "sign"
  /\ UNCHANGED <<secrets, signed, others, file, reset, fresh, last, history>>

\* SignOwnDevice and SignOwnMasterKey.
SignOwnDevice ==
  /\ pc = "sign"
  /\ signed' = fresh
  /\ pc' = "persist"
  /\ UNCHANGED <<published, secrets, others, file, reset, fresh, keys, last, history>>

\* Mutant: an existing file is kept, also by a reset.
FileAfter_kept(g) == IF file = None THEN g ELSE file

FileAfter(g) == g

PersistRecoveryKey ==
  /\ pc = "persist"
  /\ file' = FileAfter(fresh)
  /\ backups' = backups \cup {fresh}
  /\ pc' = "ready"
  /\ UNCHANGED <<server, reset, fresh, keys, last, lost, touched>>

\* The recovery keys that a stop here leaves in memory only.  Between the two
\* uploads that is the new identity's, and the old one's opens nothing.
CutShort ==
  IF pc = "publish" THEN {published, fresh} \ {None}
  ELSE IF pc \in {"sign", "persist"} THEN {fresh} ELSE {}

\* A call fails, or the process is stopped or dies, which may leave half a file.
Stop ==
  /\ pc \in Starting \cup {"ready"}
  /\ pc' = "down"
  /\ \/ UNCHANGED file
     \/ pc = "persist" /\ file' \in {Torn, fresh}
  /\ lost' = lost \cup CutShort
  /\ UNCHANGED <<server, reset, fresh, keys, last, backups, touched>>

--------------------------------------------------------------------------------
(* Everybody else. *)

\* The crypto database or the pickle key is lost: the next start is a new
\* device, and the old one is left on the account.
LoseDatabase ==
  /\ pc \in Stopped
  /\ signed' = None
  /\ others' = TRUE
  /\ UNCHANGED <<published, secrets, file, process, last, history>>

\* The operator removes, moves away or restores recovery.key.
ReplaceRecoveryKey(g) ==
  /\ pc \in Stopped
  /\ file' = g
  /\ lost' = lost \cup ({published} \ {g, None})
  /\ UNCHANGED <<server, process, last, backups, touched>>

\* The data directory is pointed at a new or wiped server.
WipeServer ==
  /\ pc \in Stopped
  /\ published' = None
  /\ secrets' = None
  /\ signed' = None
  /\ others' = FALSE
  /\ UNCHANGED <<file, process, last, history>>

\* Another session of the account resets its identity, at any time.
ResetElsewhere ==
  /\ last < MaxIdentities
  /\ last' = last + 1
  /\ published' = last + 1
  /\ secrets' = last + 1
  /\ others' = TRUE
  /\ backups' = backups \cup {last + 1}
  /\ lost' = lost \cup {last + 1} \cup (IF pc \in Setup THEN {fresh} ELSE {})
  /\ touched' = TRUE
  /\ UNCHANGED <<signed, file, process>>

--------------------------------------------------------------------------------
Bot ==
  \/ \E r \in BOOLEAN : Start(r)
  \/ GetOwnVerificationStatus
  \/ LoadCrossSigningPrivateKeys
  \/ VerifyWithRecoveryKey
  \/ Guard
  \/ NukeOtherDevices
  \/ UploadSecrets
  \/ PublishKeys
  \/ SignOwnDevice
  \/ PersistRecoveryKey
  \/ Stop

Others ==
  \/ LoseDatabase
  \/ \E g \in backups \cup {None} : ReplaceRecoveryKey(g)
  \/ WipeServer
  \/ ResetElsewhere

Next == Bot \/ Others

Spec == Init /\ [][Next]_vars

--------------------------------------------------------------------------------
(* Properties. *)

\* recovery.key is the single file that suffices: while verify-identity would
\* succeed, no start without --reset-identity is refused and none replaces the
\* identity, whichever database and device it starts with.
SingleFileSuffices ==
  [][pc' # pc /\ pc \in Starting /\ ~reset /\ VerifyIdentity
       => pc' # "refused" /\ published' = published /\ secrets' = secrets]_vars

\* A start never overwrites a recovery.key, however damaged or stale, unless
\* the operator asked for a reset.
KeyFileKept ==
  [][file' # file /\ pc \in Starting => file = None \/ reset]_vars

\* A start never replaces a published identity unless the operator asked for a
\* reset: people who verified the bot see no identity change.  (An identity
\* that another session published after the start looked is not protected.)
IdentityKept ==
  [][pc' # pc /\ pc \in Starting /\ published' # published
       => published = None \/ reset \/ touched]_vars

\* A start overwrites nothing an operator or another session left, neither in
\* the file nor on the homeserver.
NothingOverwritten == KeyFileKept /\ IdentityKept

\* A bot that came up is verified and can be rebuilt from its recovery.key,
\* whatever earlier starts left half done.  Its device is signed by the identity
\* that is published; if it holds that identity's private keys, verify-identity
\* succeeds with the file on disk; and it does unless the set-up of the identity
\* was cut short, another session made it, or the operator replaced the file.
\* (Only a reset by another session in the middle of the start can leave it with
\* an identity that is no longer the account's, until the next start.)
ReadyIsRecoverable ==
  pc = "ready" =>
    /\ ~touched => signed = published
    /\ ~touched /\ keys = published => VerifyIdentity
    /\ published \notin lost => VerifyIdentity

\* A reset that came up has burned the old identity completely: other devices
\* are logged out, keys, secret storage, device signature and recovery.key are
\* all the new identity's.
ResetBurns ==
  pc = "ready" /\ reset /\ ~touched =>
    /\ ~others
    /\ published = fresh /\ signed = fresh /\ keys = fresh
    /\ VerifyIdentity

--------------------------------------------------------------------------------
(* The inductive invariant. *)

\* Identities are numbered in the order they are generated.
Numbered ==
  /\ {published, secrets, signed, fresh, keys} \subseteq 0 .. last
  /\ file # Torn => file <= last
  /\ \A g \in backups \cup lost : g <= last

\* Where a start without a reset may be, with which keys and which file.
Path ==
  /\ pc \in Setup => fresh # None
  /\ pc = "nuke" => reset
  /\ pc \in {"status", "restore", "verify", "guard"} => ~reset
  /\ pc \in Starting \ {"sign", "persist"} => keys = None
  /\ pc \in Setup \cup {"upload"} /\ ~reset => file = None
  /\ pc \in Setup \cup {"upload"} /\ ~reset /\ ~touched =>
       published = (IF pc \in {"sign", "persist"} THEN fresh ELSE None)

\* Which identity the homeserver has while a new one is set up.
SettingUp ==
  /\ pc \in Setup /\ fresh \notin lost => secrets = fresh
  /\ pc \in {"sign", "persist"} /\ published \notin lost =>
       published = fresh /\ secrets = fresh
  /\ pc \in Setup /\ ~touched => secrets = fresh
  /\ pc \in {"sign", "persist"} /\ ~touched => published = fresh /\ keys = fresh
  /\ pc = "persist" => signed = fresh
  /\ pc \in Setup \cup {"upload"} /\ reset /\ ~touched => ~others

\* An identity that is not lost can be recovered from recovery.key, unless it
\* is being replaced.
Recoverable ==
  pc \notin Setup /\ published # None /\ published \notin lost => VerifyIdentity

\* A bot that is up is verified, unless somebody changed the account.
Verified ==
  /\ pc \in {"restore", "verify", "sign", "persist", "ready"} => published # None
  /\ pc \in {"restore", "ready"} /\ ~touched => signed = published
  /\ pc = "ready" /\ ~touched /\ keys = published => VerifyIdentity
  /\ pc = "guard" => ~VerifyIdentity
  /\ pc = "guard" /\ ~touched => published = None

IdentityInv ==
  /\ TypeOK
  /\ Numbered
  /\ Path
  /\ SettingUp
  /\ Recoverable
  /\ Verified
  /\ ResetBurns
==============================================================================
