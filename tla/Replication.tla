---------------------------- MODULE Replication ----------------------------
(***************************************************************************)
(* When a replication target (one content of one client, mirrored off-site *)
(* with rclone) is synced: the due check of the scheduler's tick, "copy    *)
(* now" by hand, and the backups of the client, which never tell           *)
(* replication anything.  Whether a sync is due is derived from the rows   *)
(* of the runs and from when the target was last replicated.               *)
(*                                                                         *)
(* Instants are kept as what they are compared for: newer is the set of    *)
(* runs that finished after the target's last_replicated_at, rested says   *)
(* whether the floor of five minutes has gone by since then.  Runs are     *)
(* numbered by started_at.                                                 *)
(*                                                                         *)
(* A worker is a process that does one thing at a time.  The tick is one:  *)
(* its backups come first, its replication last.  The target is enabled,   *)
(* nothing prunes, and what a killed worker's rclone still copies is left  *)
(* out.                                                                    *)
(***************************************************************************)
EXTENDS Integers, FiniteSets, FiniteSetsExt

CONSTANTS
    Contents,   \* what the target may mirror: db_dumps, restic_repo
    Tick,       \* the worker of the scheduler service
    Manual,     \* the other workers
    MaxRuns,    \* bound on the backup runs
    MaxFaults,  \* bound on the failures of syncs and on the crashes
    Recent      \* how many rows of runs the due check reads

ASSUME ConstantsAssumption ==
    /\ Tick \notin Manual /\ Contents \subseteq {"db_dumps", "restic_repo"}
    /\ MaxRuns \in Nat \ {0} /\ MaxFaults \in Nat /\ Recent \in Nat \ {0}

Runs == 1 .. MaxRuns
Workers == Manual \cup {Tick}

VARIABLES
    content,    \* what the target mirrors, whose runs it follows
    run,        \* backup_runs: the status of each run of the client
    newer,      \* the runs that finished after last_replicated_at
    target,     \* last_status, Never if it has never been replicated
    rested,     \* the floor has gone by since last_replicated_at
    worker,     \* what each worker is doing
    remote,     \* the successful runs whose backup is at the destination
    overtaken,  \* history: the successes that a sync or a later run overtook
    faults

vars == <<content, run, newer, target, rested, worker, remote, overtaken, faults>>

\* at: idle, or what it waits for; run: its backup; base: what its rclone found;
\* seen: rested, compared with the instant at which this tick began.
Idle == [at |-> "idle", run |-> 0, base |-> {}, seen |-> FALSE]

Worker == [at : {"idle", "tick", "backup", "connecting", "copying"},
           run : 0 .. MaxRuns, base : SUBSET Runs, seen : BOOLEAN]

TypeOK ==
    /\ content \in Contents /\ overtaken \subseteq Runs
    /\ run \in [Runs -> {"none", "InProgress", "Success", "Failed"}]
    /\ newer \subseteq Runs /\ remote \subseteq Runs
    /\ target \in {"Never", "Success", "Failed"}
    /\ rested \in BOOLEAN
    /\ worker \in [Workers -> Worker]
    /\ faults \in 0 .. MaxFaults

Init ==
    /\ content \in Contents /\ overtaken = {}
    /\ run = [r \in Runs |-> "none"]
    /\ newer = {} /\ remote = {}
    /\ target = "Never" /\ rested = FALSE
    /\ worker = [w \in Workers |-> Idle]
    /\ faults = 0

Succeeded == {r \in Runs : run[r] = "Success"}

-----------------------------------------------------------------------------
(* Backups.                                                                *)

Home(w) == IF w = Tick THEN "tick" ELSE "idle"

\* A file backup in progress has the row that the lock of its repository is.
Busy == content = "restic_repo" /\ \E r \in Runs : run[r] = "InProgress"

StartBackup(w, r) ==
    /\ worker[w].at = Home(w) /\ ~Busy
    /\ run[r] = "none" /\ \A s \in Runs : s < r => run[s] # "none"
    /\ run' = [run EXCEPT ![r] = "InProgress"]
    /\ worker' = [worker EXCEPT ![w].at = "backup", ![w].run = r]
    /\ UNCHANGED <<content, newer, target, rested, remote, faults, overtaken>>

\* The row of a sync is there only once the connection is resolved.
Syncing == {w \in Workers : worker[w].at = "copying"}

\* Finished while a sync copies, or after a run that started later succeeded.
Overtaken(r) == Syncing # {} \/ \E s \in Succeeded : s > r

EndBackup(w, status) ==
    /\ worker[w].at = "backup"
    /\ run' = [run EXCEPT ![worker[w].run] = status]
    /\ newer' = newer \cup {worker[w].run}
    /\ worker' = [worker EXCEPT ![w].at = Home(w), ![w].run = 0]
    /\ overtaken' = overtaken \cup {r \in {worker[w].run} : status = "Success" /\ Overtaken(r)}
    /\ UNCHANGED <<content, target, rested, remote, faults>>

-----------------------------------------------------------------------------
(* Is a sync due?                                                          *)

Started == {r \in Runs : run[r] # "none"}
Listed == {r \in Started : Cardinality({s \in Started : s > r}) < Recent}

\* Deviation: any row counts, whatever became of the run.
BackupSinceAny == Listed # {} /\ Max(Listed) \in newer

\* latestSuccessfulBackupAt: of the rows it reads, the success that started last.
BackupSince ==
    LET successes == Listed \cap Succeeded IN
    successes # {} /\ Max(successes) \in newer

\* isReplicationDue but for the floor.
Wanted == target \in {"Never", "Failed"} \/ BackupSince

\* Deviations: a failed target is never tried again, or again at every tick.
DueUnlessFailed(rest) == target = "Never" \/ (target = "Success" /\ Wanted /\ rest)
DueRetriesAtOnce(rest) == target \in {"Never", "Failed"} \/ (Wanted /\ rest)

Due(rest) == target = "Never" \/ (Wanted /\ rest)

-----------------------------------------------------------------------------
(* Syncs.                                                                  *)

\* replicateTarget.  Skipped while the repository is busy, or while a live sync of
\* the target has its row.
BeginSync(w) ==
    /\ Syncing = {} /\ ~Busy
    /\ worker' = [worker EXCEPT ![w].at = "connecting"]
    /\ UNCHANGED <<content, run, newer, target, rested, remote, faults, overtaken>>

SyncNow(w) == w \in Manual /\ worker[w].at = "idle" /\ BeginSync(w)

\* rclone lists the folder: what is complete by then is certainly copied.
StartCopy(w) ==
    /\ worker[w].at = "connecting"
    /\ worker' = [worker EXCEPT ![w].at = "copying", ![w].base = Succeeded]
    /\ UNCHANGED <<content, run, newer, target, rested, remote, faults, overtaken>>

\* Deviation: a failure leaves an earlier Success as it is.
RecordResultKeepsSuccess(w, status) ==
    /\ target' = IF target = "Success" THEN target ELSE status
    /\ newer' = {}
    /\ rested' = FALSE
    /\ worker' = [v \in Workers |-> IF v = w THEN Idle ELSE [worker[v] EXCEPT !.seen = FALSE]]

\* recordResult stamps the instant at which the sync ends.
RecordResult(w, status) ==
    /\ target' = status
    /\ newer' = {}
    /\ rested' = FALSE
    /\ worker' = [v \in Workers |-> IF v = w THEN Idle ELSE [worker[v] EXCEPT !.seen = FALSE]]

\* A backup that was finished in the meantime may or may not be copied.
EndCopy(w) ==
    /\ worker[w].at = "copying"
    /\ \E late \in SUBSET (Succeeded \ worker[w].base) :
          remote' = remote \cup worker[w].base \cup late
    /\ RecordResult(w, "Success")
    /\ UNCHANGED <<content, run, faults, overtaken>>

\* The connection or rclone fails; rclone may have copied some of it.
SyncFails(w) ==
    /\ worker[w].at \in {"connecting", "copying"} /\ faults < MaxFaults
    /\ \E some \in SUBSET worker[w].base : remote' = remote \cup some
    /\ RecordResult(w, "Failed")
    /\ faults' = faults + 1
    /\ UNCHANGED <<content, run, overtaken>>

-----------------------------------------------------------------------------
(* The tick and time.                                                      *)

TickStart ==
    /\ worker[Tick].at = "idle"
    /\ worker' = [worker EXCEPT ![Tick] =
                      [at |-> "tick", run |-> 0, base |-> {}, seen |-> rested]]
    /\ UNCHANGED <<content, run, newer, target, rested, remote, faults, overtaken>>

\* runDueReplications comes last; the tick ends with it.
ReplicationPhase ==
    /\ worker[Tick].at = "tick" /\ Due(worker[Tick].seen)
    /\ BeginSync(Tick)

TickEnds ==
    /\ worker[Tick].at = "tick"
    /\ ~Due(worker[Tick].seen) \/ Syncing # {} \/ Busy
    /\ worker' = [worker EXCEPT ![Tick] = Idle]
    /\ UNCHANGED <<content, run, newer, target, rested, remote, faults, overtaken>>

FloorGoesBy ==
    /\ target # "Never" /\ ~rested /\ rested' = TRUE
    /\ UNCHANGED <<content, run, newer, target, worker, remote, faults, overtaken>>

\* The worker dies.  Recovery marks its backup Failed; its sync's row blocks nobody.
Crash(w) ==
    /\ worker[w].at # "idle" /\ faults < MaxFaults
    /\ faults' = faults + 1
    /\ run' = [r \in Runs |-> IF r = worker[w].run THEN "Failed" ELSE run[r]]
    /\ \E some \in SUBSET worker[w].base : remote' = remote \cup some
    /\ worker' = [worker EXCEPT ![w] = Idle]
    /\ UNCHANGED <<content, newer, target, rested, overtaken>>

WorkerStep(w) ==
    \/ \E status \in {"Success", "Failed"} : EndBackup(w, status)
    \/ StartCopy(w) \/ EndCopy(w) \/ SyncFails(w)

TickStep == TickStart \/ ReplicationPhase \/ TickEnds

Next ==
    \/ \E w \in Workers :
          \/ \E r \in Runs : StartBackup(w, r)
          \/ SyncNow(w) \/ WorkerStep(w) \/ Crash(w)
    \/ TickStep \/ FloorGoesBy

\* The service runs one tick after the other, what was begun ends, time passes.
Fairness ==
    /\ \A w \in Workers : WF_vars(WorkerStep(w))
    /\ WF_vars(TickStep) /\ WF_vars(FloorGoesBy)

Spec == Init /\ [][Next]_vars
FairSpec == Spec /\ Fairness

-----------------------------------------------------------------------------
(* The inductive invariant behind CopiedOrWanted.                          *)

\* A run that a worker waits for is in progress, and no other worker's.
RunsOwned ==
    \A w \in Workers :
       IF worker[w].at = "backup"
       THEN /\ worker[w].run \in Runs /\ run[worker[w].run] = "InProgress"
            /\ \A v \in Workers \ {w} : worker[v].run # worker[w].run
       ELSE worker[w].run = 0

\* What a sync found when it began, and what is there already, is all but the
\* successes that were overtaken.
CopyIsWhole ==
    \A w \in Syncing : Succeeded \subseteq remote \cup worker[w].base \cup overtaken

\* A success that is not copied is newer than the last sync, or that one failed.
UncopiedIsNewer ==
    target = "Success" => Succeeded \subseteq remote \cup newer \cup overtaken

\* Successes finish in the order in which they started, the overtaken ones apart.
FinishOrder ==
    \A r, s \in Succeeded : r \in newer \ overtaken /\ r < s => s \in newer

IInv == TypeOK /\ RunsOwned /\ CopyIsWhole /\ UncopiedIsNewer /\ FinishOrder

-----------------------------------------------------------------------------
(* Properties.                                                             *)

\* None of the newest rows, which are all that the due check reads, is a success.
OutOfSight == Listed \cap Succeeded = {}

\* A successful backup that is not at the destination keeps the target due,
\* unless a sync or a later run overtook it, or failures have pushed every success
\* out of sight: no failed sync, crash or skipped sync makes replication forget it.
CopiedOrWanted == Succeeded \subseteq remote \cup overtaken \/ Wanted \/ OutOfSight

\* A sync of the scheduler begins at least the floor after the last attempt.
SyncsAreSpaced == [][ReplicationPhase /\ target # "Never" => rested]_vars

\* Every successful backup that was not overtaken gets to the destination, however
\* syncs by hand, failures and crashes interfere, or gets out of sight.
EventuallyCopied ==
    \A r \in Runs : run[r] = "Success" /\ r \notin overtaken ~> r \in remote \/ OutOfSight

\* "Corre automaticamente despues de cada backup exitoso": every successful
\* backup gets to the destination.
EveryBackupCopied == \A r \in Runs : run[r] = "Success" ~> r \in remote

\* "A successful backup for its client finished after its last replication"
\* makes the target due.
DueAfterBackup == Succeeded \cap newer # {} => Wanted

=============================================================================
