----------------------------- MODULE PocketSync -----------------------------
(***************************************************************************)
(* Arkode Pocket: the desktop publishes an encrypted snapshot of the       *)
(* vault's credentials to one file on Google Drive, a phone that was       *)
(* paired with a QR code follows the file by its revision, and a           *)
(* revocation rotates the key.                                             *)
(*                                                                         *)
(* The vault's credentials are a version number.  SQL triggers count the   *)
(* changes in the pocket_state row; a change that no trigger sees leaves   *)
(* counted behind.  A key is a number, 0 is none.                          *)
(*                                                                         *)
(* A request is one call of runPocketPublish or revokePocketDevice.  The   *)
(* requests of a process take turns (withPocketLock), those of two         *)
(* processes do not.  From its start to the upload a publish does not      *)
(* wait, yet other processes run between its SQL statements.               *)
(*                                                                         *)
(* Left out: the vault's lock and Drive's connection, which only refuse a  *)
(* publish; the choice of another folder; restoring from an export.        *)
(***************************************************************************)
EXTENDS Integers

CONSTANTS
    Requests,    \* slots for the calls in progress
    Proc,        \* the process of each
    MaxVersion,  \* bound on the changes of the vault
    MaxKeys,     \* bound on the keys, hence on revocations
    MaxSpare     \* bound on failures, crashes and forced publishes

ASSUME BoundsAssumption ==
    /\ MaxVersion \in Nat \ {0} /\ MaxKeys \in Nat \ {0} /\ MaxSpare \in Nat
    /\ DOMAIN Proc = Requests

Versions == 1 .. MaxVersion
Keys == 1 .. MaxKeys
MaxSeq == MaxVersion + MaxKeys
MaxRevision == MaxSeq + MaxSpare + 1

VARIABLES
    content,  \* the version of the credentials
    counted,  \* history: the last version that was counted as a change
    pocket,   \* the row pocket_state
    dek,      \* secret pocket:dek
    drive,    \* the file on Drive
    pub,      \* the calls in progress
    qr,       \* the key in the last pairing code
    phone,    \* its key, and the revision and version of its snapshot
    sealed,   \* history: the version at which each key was revoked
    torn,     \* history: a rotation of the key is not recorded (yet)
    spare

vars == <<content, counted, pocket, dek, drive, pub, qr, phone, sealed, torn, spare>>

Nothing == [key |-> 0, revision |-> 0, version |-> 0]
Idle == [at |-> "idle", why |-> "publish", seq |-> 0, file |-> Nothing]

File == [key : 0 .. MaxKeys, revision : 0 .. MaxRevision, version : 0 .. MaxVersion]

TypeOK ==
    /\ content \in Versions /\ counted \in Versions
    /\ pocket \in [configured : BOOLEAN, enabled : BOOLEAN, changeSeq : 0 .. MaxSeq,
                   publishedSeq : -1 .. MaxSeq, dirtySince : BOOLEAN,
                   confirmed : 0 .. MaxRevision]
    /\ dek \in 0 .. MaxKeys /\ qr \in 0 .. MaxKeys
    /\ drive \in File /\ phone \in File
    /\ pub \in [Requests -> [at : {"idle", "started", "attempted", "uploading", "moved", "rotated"},
                             why : {"publish", "pair"}, seq : 0 .. MaxSeq, file : File]]
    /\ sealed \in [Keys -> 0 .. MaxVersion]
    /\ torn \in BOOLEAN /\ spare \in 0 .. MaxSpare

Init ==
    /\ content = 1 /\ counted = 1
    /\ pocket = [configured |-> FALSE, enabled |-> TRUE, changeSeq |-> 0, publishedSeq |-> 0,
                 dirtySince |-> FALSE, confirmed |-> 0]
    /\ dek = 0 /\ qr = 0 /\ drive = Nothing /\ phone = Nothing
    /\ pub = [r \in Requests |-> Idle]
    /\ sealed = [k \in Keys |-> 0]
    /\ torn = FALSE /\ spare = 0

Dirty == pocket.changeSeq > pocket.publishedSeq

\* withPocketLock: a call starts when no other call of its process is under way.
\* Deviation: no lock.
NoTurns(r) == pub[r].at = "idle"

MyTurn(r) == \A s \in Requests : Proc[s] = Proc[r] => pub[s].at = "idle"

-----------------------------------------------------------------------------
(* The vault and the settings.                                             *)

\* A trigger counts the change in the same statement.
Edit ==
    /\ content < MaxVersion
    /\ content' = content + 1 /\ counted' = content + 1
    /\ pocket' = IF ~pocket.configured THEN pocket
                 ELSE [pocket EXCEPT
                         !.changeSeq = @ + 1,
                         !.dirtySince = @ \/ pocket.changeSeq = pocket.publishedSeq]
    /\ UNCHANGED <<dek, drive, pub, qr, phone, sealed, torn, spare>>

\* A secret is cleared: DELETE FROM vault_secrets, UPDATE OF secret_blob_ref.
ClearSecret ==
    /\ content < MaxVersion
    /\ content' = content + 1
    /\ UNCHANGED <<counted, pocket, dek, drive, pub, qr, phone, sealed, torn, spare>>

Configure ==
    /\ ~pocket.configured
    /\ pocket' = [pocket EXCEPT !.configured = TRUE, !.publishedSeq = -1, !.dirtySince = TRUE]
    /\ dek' = 1
    /\ UNCHANGED <<content, counted, drive, pub, qr, phone, sealed, torn, spare>>

SetEnabled ==
    /\ pocket.configured
    /\ pocket' = [pocket EXCEPT !.enabled = ~@]
    /\ UNCHANGED <<content, counted, dek, drive, pub, qr, phone, sealed, torn, spare>>

-----------------------------------------------------------------------------
(* Publishing.                                                             *)

\* Deviation: the key of the last publish is cached.
StartWithCachedKey(r, why) ==
    /\ MyTurn(r) /\ pocket.configured /\ pocket.enabled
    /\ pub' = [pub EXCEPT ![r] =
          [Idle EXCEPT !.at = "started", !.why = why,
                       !.file.key = IF drive.key # 0 THEN drive.key ELSE dek]]
    /\ UNCHANGED <<content, counted, pocket, dek, drive, qr, phone, sealed, torn>>

\* The state and the key are read.
Start(r, why) ==
    /\ MyTurn(r) /\ pocket.configured /\ pocket.enabled
    /\ pub' = [pub EXCEPT ![r] =
          [Idle EXCEPT !.at = "started", !.why = why, !.file.key = dek]]
    /\ UNCHANGED <<content, counted, pocket, dek, drive, qr, phone, sealed, torn>>

\* By hand, after an unlock, after configuring, or before a pairing code is made.
Request(r) ==
    /\ Dirty /\ \E why \in {"publish", "pair"} : Start(r, why)
    /\ UNCHANGED spare

\* "Publicar ahora" with force.
ForcePublish(r) ==
    /\ spare < MaxSpare /\ spare' = spare + 1
    /\ ~Dirty /\ Start(r, "publish")

\* The debounce sweep, every minute.
Sweep(r) ==
    /\ Dirty /\ pocket.dirtySince
    /\ Start(r, "publish")
    /\ UNCHANGED spare

BeginPublishAttempt(r) ==
    /\ pub[r].at = "started"
    /\ pub' = [pub EXCEPT ![r].at = "attempted", ![r].seq = pocket.changeSeq,
                          ![r].file.revision = pocket.confirmed + 1]
    /\ UNCHANGED <<content, counted, pocket, dek, drive, qr, phone, sealed, torn, spare>>

BuildSnapshot(r) ==
    /\ pub[r].at = "attempted"
    /\ pub' = [pub EXCEPT ![r].at = "uploading", ![r].file.version = content]
    /\ UNCHANGED <<content, counted, pocket, dek, drive, qr, phone, sealed, torn, spare>>

\* Uploaded under a temporary name, verified, and moved over the file.
MoveTo(r) ==
    /\ pub[r].at = "uploading"
    /\ drive' = pub[r].file
    /\ pub' = [pub EXCEPT ![r].at = "moved"]
    /\ UNCHANGED <<content, counted, pocket, dek, qr, phone, sealed, torn, spare>>

\* Deviation: what was published is taken to be up to date.
PublishedNow(r) ==
    [pocket EXCEPT !.publishedSeq = pocket.changeSeq, !.confirmed = pub[r].file.revision,
                   !.dirtySince = FALSE]

\* Deviation: dirty_since is cleared whatever changed during the upload.
PublishedAndForgotten(r) ==
    [pocket EXCEPT !.publishedSeq = pub[r].seq, !.confirmed = pub[r].file.revision,
                   !.dirtySince = FALSE]

\* What confirmPublish makes of the row.
Published(r) ==
    [pocket EXCEPT !.publishedSeq = pub[r].seq, !.confirmed = pub[r].file.revision,
                   !.dirtySince = @ /\ pocket.changeSeq > pub[r].seq]

\* A pairing code follows at once when the publish was made for one.
ConfirmPublish(r) ==
    /\ pub[r].at = "moved"
    /\ pocket' = Published(r)
    /\ pub' = [pub EXCEPT ![r] = Idle]
    /\ qr' = IF pub[r].why = "pair" THEN dek ELSE qr
    /\ UNCHANGED <<content, counted, dek, drive, phone, sealed, torn, spare>>

\* rclone fails, before or after it has moved the file.
PublishFails(r) ==
    /\ pub[r].at \in {"uploading", "moved"}
    /\ spare < MaxSpare /\ spare' = spare + 1
    /\ pub' = [pub EXCEPT ![r] = Idle]
    /\ UNCHANGED <<content, counted, pocket, dek, drive, qr, phone, sealed, torn>>

-----------------------------------------------------------------------------
(* Pairing and revoking.                                                   *)

\* Deviation: a code is made without a look at the state.
PairAtOnce ==
    /\ pocket.configured
    /\ qr' = dek
    /\ UNCHANGED <<content, counted, pocket, dek, drive, pub, phone, sealed, torn, spare>>

\* A code without a publish: nothing is dirty, or Pocket is disabled.
Pair ==
    /\ pocket.configured /\ ~(Dirty /\ pocket.enabled)
    /\ qr' = dek
    /\ UNCHANGED <<content, counted, pocket, dek, drive, pub, phone, sealed, torn, spare>>

RotateKey(r) ==
    /\ MyTurn(r) /\ pocket.configured /\ dek < MaxKeys
    /\ dek' = dek + 1
    /\ sealed' = [sealed EXCEPT ![dek] = content]
    /\ pub' = [pub EXCEPT ![r].at = "rotated"]
    /\ torn' = TRUE
    /\ UNCHANGED <<content, counted, pocket, drive, qr, phone, spare>>

RecordRevocation(r) ==
    /\ pub[r].at = "rotated"
    /\ pocket' = [pocket EXCEPT !.changeSeq = @ + 1, !.dirtySince = TRUE]
    /\ pub' = [pub EXCEPT ![r] = Idle]
    /\ torn' = FALSE
    /\ UNCHANGED <<content, counted, dek, drive, qr, phone, sealed, spare>>

\* A process dies, and starts again.
Crash(r) ==
    /\ pub[r].at # "idle" /\ spare < MaxSpare /\ spare' = spare + 1
    /\ pub' = [s \in Requests |-> IF Proc[s] = Proc[r] THEN Idle ELSE pub[s]]
    /\ UNCHANGED <<content, counted, pocket, dek, drive, qr, phone, sealed, torn>>

-----------------------------------------------------------------------------
(* The phone.                                                              *)

\* A phone is paired when it has no pairing.
Scan ==
    /\ qr # 0 /\ phone.key = 0
    /\ phone' = [Nothing EXCEPT !.key = qr]
    /\ UNCHANGED <<content, counted, pocket, dek, drive, pub, qr, sealed, torn, spare>>

Forget ==
    /\ phone' = Nothing
    /\ UNCHANGED <<content, counted, pocket, dek, drive, pub, qr, sealed, torn, spare>>

\* decideSnapshotUpdate: adopted if its revision is higher and the key opens it.
Refresh ==
    /\ phone.key # 0 /\ drive.key = phone.key /\ drive.revision > phone.revision
    /\ phone' = drive
    /\ UNCHANGED <<content, counted, pocket, dek, drive, pub, qr, sealed, torn, spare>>

PublishStep(r) ==
    \/ BeginPublishAttempt(r) \/ BuildSnapshot(r) \/ MoveTo(r) \/ ConfirmPublish(r)
    \/ PublishFails(r) \/ RecordRevocation(r)

Next ==
    \/ Edit \/ ClearSecret \/ Configure \/ SetEnabled \/ Pair
    \/ \E r \in Requests :
          \/ Request(r) \/ ForcePublish(r) \/ Sweep(r) \/ PublishStep(r)
          \/ RotateKey(r) \/ Crash(r)
    \/ Scan \/ Forget \/ Refresh

\* The sweep goes on, what was begun ends, and the phone looks again.
Fairness ==
    /\ WF_vars(\E r \in Requests : Sweep(r))
    /\ \A r \in Requests : WF_vars(PublishStep(r))
    /\ WF_vars(Refresh)

Spec == Init /\ [][Next]_vars
FairSpec == Spec /\ Fairness

-----------------------------------------------------------------------------
(* Properties.                                                             *)

\* When nothing is dirty, the file holds every counted change, under the current
\* key unless a revocation is between its two writes, or was cut short there.
CleanIsPublished ==
    pocket.configured /\ ~Dirty =>
       drive.version >= counted /\ (torn \/ drive.key = dek)

\* The sweep looks at dirty_since, which must not get lost while changes wait.
SweepSeesDirty == Dirty => pocket.dirtySince

\* Sequences and revisions have their types, and the sweep sees what waits.
PocketInv == TypeOK /\ SweepSeesDirty

\* A revoked key opens nothing that is newer than its revocation.
RevokedSeesNothingNew ==
    \A file \in {drive, phone} :
       file.key \in 1 .. dek - 1 => file.version <= sealed[file.key]

\* While Pocket is enabled, a new pairing code opens the file that is on Drive.
CodeOpensFile ==
    [][qr' # qr /\ pocket.enabled /\ ~torn => drive.key = qr']_vars

\* The file only moves forward and the phone shows what was published, however
\* publishes, failures and revocations meet.
M == INSTANCE Mirror WITH source <- content, copy <- drive.version, view <- phone.version
FollowsForward == M!Spec

\* A counted change is published some time, unless Pocket gets disabled.
PublishedEventually ==
    \A v \in Versions :
       pocket.configured /\ counted >= v ~> drive.version >= v \/ ~pocket.enabled

\* "Guarantees the phone is never more than a few minutes behind": what is on Drive
\* gets to a phone that has the key.
PhoneCatchesUp ==
    \A v \in Versions :
       phone.key # 0 /\ drive.version >= v ~> phone.version >= v \/ phone.key # drive.key

\* "This invariant cannot be silently broken": dirty, if there is any change since.
UpToDateIsTrue == pocket.configured /\ ~Dirty => drive.version = content

\* "Publishing first closes that window": a code opens the file that is on Drive.
CodeAlwaysOpensFile == [][qr' # qr => drive.key = qr']_vars

=============================================================================
