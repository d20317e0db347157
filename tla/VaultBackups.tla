----------------------------- MODULE VaultBackups -----------------------------
(***************************************************************************)
(* The portable backups of the vault: `.arkvault` files written to the     *)
(* destinations the user configured, local folders and folders of Google   *)
(* Drive, each keeping its newest few.  Calls overlap: the sweep of        *)
(* `serve`, the catch-up after an unlock, the button, the forced round     *)
(* after a change of password, and `vault:backup` in a process of its own. *)
(*                                                                         *)
(* A call lists the enabled targets once and takes them in turn.  A local  *)
(* run has no await, so nothing else of its process comes in between; an   *)
(* upload is a sequence of rclone commands, and everything may.            *)
(*                                                                         *)
(* Left out: the refusal of destinations inside the program's own folders, *)
(* the connection of a Drive account (a run without one fails like one     *)
(* whose upload fails), staging folders, and the text of errors.           *)
(***************************************************************************)
EXTENDS Integers, Sequences, FiniteSets, FiniteSetsExt, SequencesExt

CONSTANTS
    Drive, Local,    \* targets of the two kinds
    Folders,         \* destinations a target may name
    DriveKeeps, LocalKeeps,  \* values of retention_count; 0 is none
    Calls,           \* numbers for the calls in progress at one time ...
    Commands,        \* ... of which these are processes of their own
    MaxTargetRuns,   \* runs started
    MaxEvents,       \* faults, locks, edits of targets, changes of the password
    SpoiltInRace     \* the disk may spoil a file while another process is at work

Target == Drive \cup Local
Keeps(t) == IF t \in Drive THEN DriveKeeps ELSE LocalKeeps
ASSUME KindsAssumption ==
    Drive \cap Local = {} /\ IsFiniteSet(Drive \cup Local) /\ Folders # {}
ASSUME KeepsAssumption == DriveKeeps \cup LocalKeeps \subseteq Nat
ASSUME CallsAssumption == Commands \subseteq Calls /\ Calls \subseteq Nat
ASSUME RaceAssumption == SpoiltInRace \in BOOLEAN
ASSUME BoundsAssumption == {MaxTargetRuns, MaxEvents} \subseteq Nat

VARIABLES
    targets,    \* vault_backup_targets
    successes,  \* vault_backup_runs: of each target, the newest row that is a Success
    files,      \* the .arkvault files of each destination
    calls,      \* calls in progress
    sweeping,   \* vaultSweepRunning
    unlocked,   \* `serve` has the key
    password,   \* how often the master password was changed
    clock,      \* runs started so far
    events

backupsVars == <<targets, successes, files, calls, sweeping, unlocked, password, clock,
                 events>>

Serve == Calls \ Commands
Times == Nat \ {0}
Arkvault == [time : Times, password : 0 .. MaxEvents, good : BOOLEAN]
Row == [id : Target, folder : Folders, keep : Nat]
Place == Target \X Folders

Idle == [op |-> "none", todo |-> <<>>, step |-> "next", file |-> [time |-> 0], doomed |-> {}]

BackupsTypeOK ==
    /\ targets \in [Target -> [state : {"absent", "never", "fresh", "stale", "failed", "removed"},
                               enabled : BOOLEAN, folder : Folders, keep : Nat]]
    /\ \A t \in Target : successes[t] \in [folder : Folders, time : Times \cup {0}]
    /\ \A p \in Place : files[p] \subseteq Arkvault
    /\ \A c \in Calls :
        /\ calls[c].op \in {"none", "sweep", "due", "all"}
        /\ Range(calls[c].todo) \subseteq Row
        /\ calls[c].step \in {"next", "check", "prune", "upload", "list", "delete", "record"}
        /\ calls[c].file \in Arkvault \cup {Idle.file}
        /\ calls[c].doomed \subseteq Arkvault
        /\ calls[c].op # "none" => calls[c].todo # <<>>
        /\ calls[c].step # "next" => calls[c].file \in Arkvault
    /\ {sweeping, unlocked} \subseteq BOOLEAN
    /\ password \in 0 .. MaxEvents /\ clock \in Nat
    /\ events \in 0 .. MaxEvents

BackupsInit ==
    /\ targets = [t \in Target |-> [state |-> "absent", enabled |-> TRUE, keep |-> 0,
                                    folder |-> CHOOSE f \in Folders : TRUE]]
    /\ successes = [t \in Target |-> [folder |-> targets[t].folder, time |-> 0]]
    /\ files = [p \in Place |-> {}]
    /\ calls = [c \in Calls |-> Idle]
    /\ sweeping = FALSE /\ unlocked = FALSE
    /\ password = 0 /\ clock = 0 /\ events = 0

Event == events < MaxEvents /\ events' = events + 1

Exists(t) == targets[t].state \notin {"absent", "removed"}
Enabled == {t \in Target : Exists(t) /\ targets[t].enabled}
isVaultBackupDue(t) == t \in Enabled /\ targets[t].state # "fresh"

\* A call: what it will run, by the rows as they are now.
TodoOf(S) == [i \in 1 .. Cardinality(S) |->
    LET t == SetToSeq(S)[i] IN [id |-> t, folder |-> targets[t].folder, keep |-> targets[t].keep]]

Process(c) == IF c \in Serve THEN Serve ELSE {c}
\* Between two awaits a process does nothing else.
InLocalRun(c) == calls[c].step # "next" /\ Head(calls[c].todo).id \in Local
Free(c) == \A d \in Process(c) \ {c} : ~InLocalRun(d)

\* A call with nothing to run is over at once.  MaxTargetRuns bounds the runs
\* that calls list.
Outstanding == MapThenSumSet(
    LAMBDA c : Len(calls[c].todo) - (IF calls[c].step = "next" THEN 0 ELSE 1), Calls)

Begin(c, op, S) ==
    /\ calls[c].op = "none"
    /\ Free(c)
    /\ \A d \in Process(c) : calls[d].op = "none" => c <= d
    /\ S # {}
    /\ clock + Outstanding + Cardinality(S) <= MaxTargetRuns
    /\ calls' = [calls EXCEPT ![c] = [Idle EXCEPT !.op = op, !.todo = TodoOf(S)]]

Due == {t \in Target : isVaultBackupDue(t)}

runVaultBackupsQuietly(c) ==
    /\ c \in Serve /\ unlocked /\ ~sweeping
    /\ Begin(c, "sweep", Due)
    /\ sweeping' = TRUE
    /\ UNCHANGED <<targets, successes, files, unlocked, password, clock, events>>

\* An unlock catches up at once; so do the automatic unlock of a start and, while the
\* vault is open, a revocation.
Unlock(c) ==
    /\ c \in Serve
    /\ Begin(c, "due", Due)
    /\ unlocked' = TRUE
    /\ UNCHANGED <<targets, successes, files, sweeping, password, clock, events>>

RunAll(c) ==
    /\ c \in Serve => unlocked
    /\ Begin(c, "all", Enabled)
    /\ UNCHANGED <<targets, successes, files, sweeping, unlocked, password, clock, events>>

ChangePassword(c) ==
    /\ c \in Serve
    /\ Event
    /\ Begin(c, "all", Enabled)
    /\ password' = password + 1
    /\ unlocked' = TRUE
    /\ UNCHANGED <<targets, successes, files, sweeping, clock>>

\* The command changes the password and makes no backup.
ChangePasswordByCommand ==
    /\ Event
    /\ password' = password + 1
    /\ UNCHANGED <<targets, successes, files, calls, sweeping, unlocked, clock>>

Lock ==
    /\ unlocked
    /\ Event
    /\ \A c \in Serve : ~InLocalRun(c)
    /\ unlocked' = FALSE
    /\ UNCHANGED <<targets, successes, files, calls, sweeping, password, clock>>

(***************************************************************************)
(* One run.                                                                *)
(***************************************************************************)
Now(c) == Head(calls[c].todo)
At(c) == <<Now(c).id, Now(c).folder>>
Running(c, step) == calls[c].op # "none" /\ calls[c].step = step /\ Free(c)
GoTo(c, step) == calls' = [calls EXCEPT ![c].step = step]

\* The rest of the list, or the end of the call.
Rest(c) == IF Len(calls[c].todo) = 1 THEN Idle
            ELSE [calls[c] EXCEPT !.todo = Tail(@), !.step = "next", !.file = Idle.file,
                                  !.doomed = {}]
Ended(c) == Rest(c).op = "none"
SweepEndsWith(c) == sweeping' = (sweeping /\ calls[c].op # "sweep")

\* Deviation: the flag of the sweep comes down after it, not in a `finally`.
recordOrThrow(c, state) ==
    LET t == Now(c).id IN
    IF Exists(t)
    THEN /\ targets' = [targets EXCEPT ![t].state = state]
         /\ calls' = [calls EXCEPT ![c] = Rest(c)]
         /\ IF Ended(c) THEN SweepEndsWith(c) ELSE UNCHANGED sweeping
    ELSE calls' = [calls EXCEPT ![c] = Idle] /\ UNCHANGED <<targets, sweeping>>

\* recordResult updates the row there is; recordRun refers to it, and throws without one,
\* in the handler of errors too: then the call is over, with its other targets not run.
recordRun(c, state) ==
    LET t == Now(c).id IN
    IF Exists(t)
    THEN /\ targets' = [targets EXCEPT ![t].state = state]
         /\ calls' = [calls EXCEPT ![c] = Rest(c)]
         /\ IF Ended(c) THEN SweepEndsWith(c) ELSE UNCHANGED sweeping
    ELSE /\ calls' = [calls EXCEPT ![c] = Idle]
         /\ SweepEndsWith(c)
         /\ UNCHANGED targets

Fail(c) == recordRun(c, "failed") /\ UNCHANGED <<successes, files>>

CanExport(c) == c \in Serve => unlocked
NewFile(good) == [time |-> clock + 1, password |-> password, good |-> good]

RunLocked(c) ==
    /\ Running(c, "next")
    /\ ~CanExport(c)
    /\ Fail(c)
    /\ UNCHANGED <<unlocked, password, clock, events>>

\* Deviation: the folder is pruned without reading the new file back.
RunUnchecked(c) ==
    /\ Running(c, "next")
    /\ CanExport(c)
    /\ Now(c).id \in Local
    /\ \E good \in BOOLEAN :
        /\ ~good => events < MaxEvents
        /\ events' = events + (IF good THEN 0 ELSE 1)
        /\ files' = [files EXCEPT ![At(c)] = @ \cup {NewFile(good)}]
        /\ calls' = [calls EXCEPT ![c].step = "prune", ![c].file = NewFile(good)]
    /\ clock' = clock + 1
    /\ UNCHANGED <<targets, successes, sweeping, unlocked, password>>

\* The whole file appears at once, by a rename; the disk may have spoilt it.
runLocalDirBackup(c) ==
    /\ Running(c, "next")
    /\ CanExport(c)
    /\ Now(c).id \in Local
    /\ \E good \in BOOLEAN :
        /\ ~good =>
            /\ events < MaxEvents
            /\ SpoiltInRace \/ \A d \in Calls \ Process(c) : calls[d].op = "none"
        /\ events' = events + (IF good THEN 0 ELSE 1)
        /\ files' = [files EXCEPT ![At(c)] = @ \cup {NewFile(good)}]
        /\ calls' = [calls EXCEPT ![c].step = "check", ![c].file = NewFile(good)]
    /\ clock' = clock + 1
    /\ UNCHANGED <<targets, successes, sweeping, unlocked, password>>

inspectVaultBuffer(c) ==
    /\ Running(c, "check")
    /\ IF calls[c].file \in files[At(c)] /\ calls[c].file.good
       THEN GoTo(c, "prune") /\ UNCHANGED <<targets, successes, files, sweeping>>
       ELSE Fail(c)
    /\ UNCHANGED <<unlocked, password, clock, events>>

\* Deviation: the newest go, not the oldest (a sort without its reversal).
OldestOf(S, k) == {f \in S : Cardinality({g \in S : g.time < f.time}) < k}

Newest(S, k) == {f \in S : Cardinality({g \in S : g.time > f.time}) < k}

pruneOldLocalBackups(c) ==
    /\ Running(c, "prune")
    /\ LET here == files[At(c)]
           keep == Now(c).keep
       IN files' = [files EXCEPT ![At(c)] =
              IF keep = 0 THEN here ELSE Newest(here, keep) \cup (here \cap {calls[c].file})]
    /\ GoTo(c, "record")
    /\ UNCHANGED <<targets, successes, sweeping, unlocked, password, clock, events>>

\* The export and its check come before the first await.
runGoogleDriveBackup(c) ==
    /\ Running(c, "next")
    /\ CanExport(c)
    /\ Now(c).id \in Drive
    /\ calls' = [calls EXCEPT ![c].step = "upload", ![c].file = NewFile(TRUE)]
    /\ clock' = clock + 1
    /\ UNCHANGED <<targets, successes, files, sweeping, unlocked, password, events>>

copyTo(c) ==
    /\ Running(c, "upload")
    /\ files' = [files EXCEPT ![At(c)] = @ \cup {calls[c].file}]
    /\ GoTo(c, IF Now(c).keep = 0 THEN "record" ELSE "list")
    /\ UNCHANGED <<targets, successes, sweeping, unlocked, password, clock, events>>

\* The listing leaves out the run's own file, for which one place is reserved.
lsf(c) ==
    /\ Running(c, "list")
    /\ LET others == files[At(c)] \ {calls[c].file}
           doomed == others \ Newest(others, Now(c).keep - 1)
       IN calls' = [calls EXCEPT ![c].doomed = doomed,
                                 ![c].step = IF doomed = {} THEN "record" ELSE "delete"]
    /\ UNCHANGED <<targets, successes, files, sweeping, unlocked, password, clock, events>>

\* One at a time, the newest first; a deletion that fails is passed over.
deleteFile(c) ==
    /\ Running(c, "delete")
    /\ LET f == CHOOSE f \in calls[c].doomed : \A g \in calls[c].doomed : g.time <= f.time
       IN /\ \/ files' = [files EXCEPT ![At(c)] = @ \ {f}] /\ UNCHANGED events
             \/ Event /\ UNCHANGED files
          /\ calls' = [calls EXCEPT ![c].doomed = @ \ {f},
                                    ![c].step = IF calls[c].doomed = {f} THEN "record" ELSE @]
    /\ UNCHANGED <<targets, successes, sweeping, unlocked, password, clock>>

recordSuccess(c) ==
    /\ Running(c, "record")
    /\ LET t == Now(c).id IN
        successes' = IF Exists(t) /\ calls[c].file.time > successes[t].time
                     THEN [successes EXCEPT ![t] = [folder |-> Now(c).folder,
                                                    time |-> calls[c].file.time]]
                     ELSE successes
    /\ recordRun(c, "fresh")
    /\ UNCHANGED <<files, unlocked, password, clock, events>>

\* Writing, uploading or listing fails.
TargetRunFails(c) ==
    /\ \/ Running(c, "next") /\ CanExport(c)
       \/ Running(c, "upload")
       \/ Running(c, "list")
    /\ Event
    /\ Fail(c)
    /\ UNCHANGED <<unlocked, password, clock>>

(***************************************************************************)
(* Targets, time and crashes.                                              *)
(***************************************************************************)
CreateTarget(t) ==
    /\ targets[t].state = "absent"
    /\ \E k \in Keeps(t) :
        targets' = [targets EXCEPT ![t].state = "never", ![t].keep = k]
    /\ UNCHANGED <<successes, files, calls, sweeping, unlocked, password, clock, events>>

\* A change of folder keeps status and time of the last run.
UpdateTarget(t) ==
    /\ Exists(t)
    /\ Event
    /\ \E on \in BOOLEAN, f \in Folders, k \in Keeps(t) :
        targets' = [targets EXCEPT ![t].enabled = on, ![t].folder = f, ![t].keep = k]
    /\ UNCHANGED <<successes, files, calls, sweeping, unlocked, password, clock>>

\* The runs of a target go with it.
RemoveTarget(t) ==
    /\ Exists(t)
    /\ Event
    /\ targets' = [targets EXCEPT ![t].state = "removed"]
    /\ successes' = [successes EXCEPT ![t].time = 0]
    /\ UNCHANGED <<files, calls, sweeping, unlocked, password, clock>>

\* Twenty hours.
Age(t) ==
    /\ targets[t].state = "fresh"
    /\ targets' = [targets EXCEPT ![t].state = "stale"]
    /\ UNCHANGED <<successes, files, calls, sweeping, unlocked, password, clock, events>>

CrashServe ==
    /\ Event
    /\ calls' = [c \in Calls |-> IF c \in Serve THEN Idle ELSE calls[c]]
    /\ sweeping' = FALSE /\ unlocked' = FALSE
    /\ UNCHANGED <<targets, successes, files, password, clock>>

CrashCommand(c) ==
    /\ c \in Commands /\ calls[c].op # "none"
    /\ Event
    /\ calls' = [calls EXCEPT ![c] = Idle]
    /\ UNCHANGED <<targets, successes, files, sweeping, unlocked, password, clock>>

Step(c) ==
    \/ RunLocked(c)
    \/ runLocalDirBackup(c) \/ inspectVaultBuffer(c) \/ pruneOldLocalBackups(c)
    \/ runGoogleDriveBackup(c) \/ copyTo(c) \/ lsf(c) \/ deleteFile(c)
    \/ recordSuccess(c) \/ TargetRunFails(c)

BackupsNext ==
    \/ \E c \in Calls :
        \/ runVaultBackupsQuietly(c) \/ Unlock(c) \/ RunAll(c)
        \/ ChangePassword(c) \/ Step(c) \/ CrashCommand(c)
    \/ \E t \in Target : CreateTarget(t) \/ UpdateTarget(t) \/ RemoveTarget(t) \/ Age(t)
    \/ ChangePasswordByCommand \/ Lock \/ CrashServe

BackupsSpec == BackupsInit /\ [][BackupsNext]_backupsVars

\* A call in progress goes on: rclone ends, and so does every local step.
FairBackupsSpec == BackupsSpec /\ \A c \in Calls : WF_backupsVars(Step(c))

(***************************************************************************)
(* Properties.                                                             *)
(***************************************************************************)

\* What the history shows as a target's last success can be restored: that copy, or a
\* newer one, is whole in the folder it went to, whatever other runs of the target, in
\* this process or another, have pruned since (runVaultBackup.ts:53-90).
SuccessIsThere ==
    \A t \in Target : successes[t].time > 0 =>
        \E f \in files[<<t, successes[t].folder>>] : f.good /\ f.time >= successes[t].time

\* The targets and calls have their types, and the history of successes is true.
BackupsInv == BackupsTypeOK /\ SuccessIsThere

\* Retention deletes nothing before something newer, and whole, is in its place, so a run
\* that fails half way has cost nothing (pruning comes after the self-check and after the
\* upload, runVaultBackup.ts:113-115, 165-178).
PrunedForNewer ==
    [][\A p \in Place : \A f \in files[p] \ files'[p] :
          \E g \in files'[p] : g.good /\ g.time > f.time]_backupsVars

\* The sweep's flag never stays up: a run that fails, a target removed under it, a vault
\* locked between two targets all let the next sweep begin (index.ts:5451-5462).
SweepEnds == sweeping ~> ~sweeping

\* What the forced round after a change of password is for (index.ts:3811): a target that
\* needs no new copy has one that opens with the present password.
FreshHasPassword ==
    (\A c \in Calls : calls[c].op = "none") =>
        \A t \in Enabled : targets[t].state = "fresh" =>
            \E p \in {t} \X Folders : \E f \in files[p] : f.good /\ f.password = password

\* A target with a recent success has a copy where it now points (runVaultBackup.ts:243).
FreshIsHere ==
    \A t \in Enabled : targets[t].state = "fresh" =>
        \E f \in files[<<t, targets[t].folder>>] : f.good

\* A round runs every target it listed: runVaultBackup never throws (runVaultBackup.ts:207).
EveryTargetTried ==
    [][\A c \in Calls : calls[c].op # "none" /\ calls'[c].op = "none" =>
          Len(calls[c].todo) <= 1 \/ events' # events]_backupsVars

=============================================================================
