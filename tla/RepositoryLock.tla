--------------------------- MODULE RepositoryLock ---------------------------
(***************************************************************************)
(* Everything that touches one restic repository: file backups of the      *)
(* tasks that share it with the retention pass that follows each, prune    *)
(* and check, the deletion of one snapshot by hand, and the rclone sync    *)
(* that mirrors the repository's folder.                                   *)
(*                                                                         *)
(* Two locks are at work.  Arkode's own is made of rows: an operation      *)
(* looks for rows in progress and then writes its own, and not every       *)
(* operation has one.  restic's is a file in the repository, shared or     *)
(* exclusive, that a killed restic leaves behind.                          *)
(*                                                                         *)
(* Up to its first await an operation runs without interruption within its *)
(* process (points "checked" and "inserted"), but another process may get  *)
(* in between two of its SQL statements.  Killing the engine does not kill *)
(* the restic or rclone that it started.  A dead process is recognised     *)
(* exactly here; recycled pids and the age ceiling are in BackupRuns.      *)
(***************************************************************************)
EXTENDS Integers, FiniteSets

CONSTANTS
    Tasks,      \* the file-backup tasks that share the repository
    PathOf,     \* PathOf[t]: the folder that t backs up
    Procs,      \* processes that run engine code
    Kinds,      \* the kinds of operations that are started
    Keep,       \* Keep[t]: the count of t's retention policy, 0 if it has only a limit
                \* in days, which here has run out for every snapshot
    None,
    MaxOps      \* bound on the operations

Ops == 1 .. MaxOps
Maintenance == {"prune", "check"}

ASSUME ConstantsAssumption ==
    /\ Kinds \subseteq {"backup", "delete", "replicate"} \cup Maintenance
    /\ Keep \in [Tasks -> Nat] /\ MaxOps \in Nat \ {0}
    /\ DOMAIN PathOf = Tasks
    /\ None \notin Tasks \cup Procs \cup Ops

VARIABLES
    op,         \* op[i]: what it is, where it is suspended, what it holds
    row,        \* file_backup_runs, ..._maintenance_runs: the status of i's row
    resticLock, \* resticLock[i]: the lock file of the restic that i started
    snaps,      \* snapshots in the repository; a backup's has its number
    recorded,   \* the rows with a snapshot_id
    forgotten,  \* file_backup_retention_deletions
    made,       \* history: every snapshot there ever was
    asked       \* history: those whose deletion somebody asked for

vars == <<op, row, resticLock, snaps, recorded, forgotten, made, asked>>

NoOp == [kind |-> "none", at |-> "none", proc |-> None, task |-> None,
         target |-> None, removed |-> {}, alive |-> FALSE]

InCall == {"checked", "inserted"}
Running == {"restic", "forgetting"}
Over == {"none", "done", "dead"}
Points == InCall \cup Running \cup Over \cup
          {"preparing", "starting", "retrying", "finishing", "recorded", "retention",
           "retentionRetry", "recording", "syncing"}

TypeOK ==
    /\ op \in [Ops -> [kind : Kinds \cup {"none"}, at : Points, proc : Procs \cup {None},
                       task : Tasks \cup {None}, target : Ops \cup {None},
                       removed : SUBSET Ops, alive : BOOLEAN]]
    /\ row \in [Ops -> {"none", "Pending", "InProgress", "Finished", "Failed"}]
    /\ resticLock \in [Ops -> {"none", "shared", "exclusive"}]
    /\ snaps \subseteq made /\ recorded \subseteq made /\ made \subseteq Ops
    /\ forgotten \subseteq Ops /\ asked \subseteq Ops

Init ==
    /\ op = [i \in Ops |-> NoOp]
    /\ row = [i \in Ops |-> "none"]
    /\ resticLock = [i \in Ops |-> "none"]
    /\ snaps = {} /\ recorded = {} /\ forgotten = {} /\ made = {} /\ asked = {}

-----------------------------------------------------------------------------
(* Arkode's lock.                                                          *)

\* The engine process that began i has died.
Gone(i) == op[i] # NoOp /\ ~op[i].alive

\* recoverStaleRepositoryRuns
Recovered == [i \in Ops |-> IF row[i] = "InProgress" /\ Gone(i) THEN "Failed" ELSE row[i]]

\* Deviation: only file_backup_runs is looked at.
LockedByRun == \E i \in Ops : row[i] = "InProgress" /\ ~Gone(i) /\ op[i].kind = "backup"

\* checkRepositoryLock: whatever operation asks.
Locked == \E i \in Ops : row[i] = "InProgress" /\ ~Gone(i)

Idle(p) == \A i \in Ops : op[i].proc = p => op[i].at \notin InCall

IsNext(i) == op[i] = NoOp /\ \A j \in Ops : j < i => op[j] # NoOp

\* The lock is free: the operation goes on in the same call.  Deleting and
\* replicating write no row that the others look for.
Begin(i, p, kind, t, target, at) ==
    /\ IsNext(i) /\ Idle(p) /\ kind \in Kinds /\ ~Locked
    /\ op' = [op EXCEPT ![i] = [kind |-> kind, at |-> at, proc |-> p, task |-> t,
                                target |-> target, removed |-> {}, alive |-> TRUE]]
    /\ row' = Recovered
    /\ UNCHANGED <<resticLock, snaps, recorded, forgotten, made>>

BeginBackup(i, p, t) == Begin(i, p, "backup", t, None, "checked") /\ UNCHANGED asked

BeginMaintenance(i, p, kind) ==
    Begin(i, p, kind, None, None, "checked") /\ kind \in Maintenance /\ UNCHANGED asked

BeginDelete(i, p, target) ==
    /\ target \in recorded
    /\ Begin(i, p, "delete", None, target, "starting")
    /\ asked' = asked \cup {target}

BeginReplicate(i, p) == Begin(i, p, "replicate", None, None, "preparing") /\ UNCHANGED asked

\* The lock is taken: skipped, refused or left for the next tick.
Refused(p) ==
    /\ Idle(p) /\ Locked
    /\ row' = Recovered /\ row' # row
    /\ UNCHANGED <<op, resticLock, snaps, recorded, forgotten, made, asked>>

-----------------------------------------------------------------------------
At(i, at) == op' = [op EXCEPT ![i].at = at]
RepositoryUnchanged == UNCHANGED <<snaps, recorded, forgotten, made, asked>>

\* fileBackupRunsRepo.create inserts as Pending, the maintenance one as Running.
InsertRow(i) ==
    /\ op[i].at = "checked"
    /\ IF op[i].kind = "backup"
       THEN At(i, "inserted") /\ row' = [row EXCEPT ![i] = "Pending"]
       ELSE At(i, "starting") /\ row' = [row EXCEPT ![i] = "InProgress"]
    /\ UNCHANGED resticLock /\ RepositoryUnchanged

\* Running and then Producing: the lock tells no difference.
SetRunning(i) ==
    /\ op[i].at = "inserted"
    /\ At(i, "preparing") /\ row' = [row EXCEPT ![i] = "InProgress"]
    /\ UNCHANGED resticLock /\ RepositoryUnchanged

\* The remote folder is in its staging directory, or the local one is there;
\* a replication has its connection and its preflight behind it.
Prepared(i) ==
    /\ op[i].at = "preparing"
    /\ At(i, IF op[i].kind = "replicate" THEN "syncing" ELSE "starting")
    /\ UNCHANGED <<row, resticLock>> /\ RepositoryUnchanged

SyncEnds(i) ==
    /\ op[i].at = "syncing" /\ op[i].alive
    /\ At(i, "done")
    /\ UNCHANGED <<row, resticLock>> /\ RepositoryUnchanged

\* What follows when the operation's restic, or what comes before it, fails.
\* resticClient.check answers with ok = false instead of throwing.
AfterFailure(i) ==
    CASE op[i].kind = "backup" -> At(i, "retention") /\ row' = [row EXCEPT ![i] = "Failed"]
      [] op[i].kind = "prune"  -> At(i, "done") /\ row' = [row EXCEPT ![i] = "Failed"]
      [] op[i].kind = "check"  -> At(i, "done") /\ row' = [row EXCEPT ![i] = "Finished"]
      [] OTHER                 -> At(i, "done") /\ UNCHANGED row

Fails(i) ==
    /\ op[i].at \in {"preparing", "restic"} /\ op[i].alive
    /\ AfterFailure(i)
    /\ resticLock' = [resticLock EXCEPT ![i] = "none"]
    /\ RepositoryUnchanged

-----------------------------------------------------------------------------
(* restic.                                                                 *)

Mode(i) == IF op[i].kind = "backup" /\ op[i].at \in {"starting", "retrying"}
           THEN "shared" ELSE "exclusive"

Conflict(i) ==
    \E j \in Ops : resticLock[j] # "none" /\ "exclusive" \in {Mode(i), resticLock[j]}

\* restic unlock removes the locks of restics that are dead.
Unlocked == [j \in Ops |-> IF op[j].at = "dead" THEN "none" ELSE resticLock[j]]

Takes(i, at) ==
    /\ ~Conflict(i)
    /\ At(i, at) /\ resticLock' = [resticLock EXCEPT ![i] = Mode(i)]
    /\ UNCHANGED row /\ RepositoryUnchanged

ResticStarts(i) == op[i].at \in {"starting", "retrying"} /\ Takes(i, "restic")

\* withStaleLockRetry: unlock and try once more.  forgetSnapshot does not.
ResticLocked(i) ==
    /\ op[i].at \in {"starting", "retrying"} /\ Conflict(i)
    /\ IF op[i].at = "starting" /\ op[i].kind # "delete"
       THEN At(i, "retrying") /\ resticLock' = Unlocked /\ UNCHANGED row
       ELSE AfterFailure(i) /\ UNCHANGED resticLock
    /\ RepositoryUnchanged

\* What the restic of i does to the repository before it ends.
Effect(i, removed) ==
    /\ snaps' = (snaps \cup (IF op[i].kind = "backup" /\ op[i].at = "restic" THEN {i} ELSE {}))
                  \ removed
    /\ made' = made \cup snaps'
    /\ resticLock' = [resticLock EXCEPT ![i] = "none"]
    /\ UNCHANGED <<row, recorded, forgotten, asked>>

ResticEnds(i) ==
    /\ op[i].at = "restic" /\ op[i].alive
    /\ IF op[i].kind = "delete"
       THEN op' = [op EXCEPT ![i].at = "recording", ![i].removed = {op[i].target}]
       ELSE At(i, "finishing")
    /\ Effect(i, {op[i].target})

\* recordBackupSummary (after restic diff), or the end of prune or check.
RecordSummary(i) ==
    /\ op[i].at = "finishing"
    /\ IF op[i].kind = "backup"
       THEN At(i, "recorded") /\ recorded' = recorded \cup {i} /\ UNCHANGED row
       ELSE At(i, "done") /\ row' = [row EXCEPT ![i] = "Finished"] /\ UNCHANGED recorded
    /\ UNCHANGED <<resticLock, snaps, forgotten, made, asked>>

\* markFinished gives the lock back; the retention pass comes after it.
MarkFinished(i) ==
    /\ op[i].at = "recorded"
    /\ At(i, "retention") /\ row' = [row EXCEPT ![i] = "Finished"]
    /\ UNCHANGED resticLock /\ RepositoryUnchanged

-----------------------------------------------------------------------------
(* The retention pass: restic forget, then one row for each removed one.   *)

KeepLast(t) == IF Keep[t] > 1 THEN Keep[t] ELSE 1

Rank(s, S) == Cardinality({r \in S : r > s})

\* Deviations: forget without --path, and without the floor of --keep-last 1.
RemovableAnyPath(i) == {s \in snaps : Rank(s, snaps) >= KeepLast(op[i].task)}
RemovableNoFloor(i) ==
    LET own == {s \in snaps : PathOf[op[s].task] = PathOf[op[i].task]} IN
    {s \in own : Rank(s, own) >= Keep[op[i].task]}

\* --path p --keep-last n: of the snapshots of the path, the older ones.
Removable(i) ==
    LET own == {s \in snaps : PathOf[op[s].task] = PathOf[op[i].task]} IN
    {s \in own : Rank(s, own) >= KeepLast(op[i].task)}

ForgetStarts(i) == op[i].at \in {"retention", "retentionRetry"} /\ Takes(i, "forgetting")

\* The pass fails; the run is over nevertheless.
ForgetLocked(i) ==
    /\ op[i].at \in {"retention", "retentionRetry"} /\ Conflict(i)
    /\ IF op[i].at = "retention"
       THEN At(i, "retentionRetry") /\ resticLock' = Unlocked
       ELSE At(i, "done") /\ UNCHANGED resticLock
    /\ UNCHANGED row /\ RepositoryUnchanged

\* Deviation: the report of restic forget is not read.
ForgetEndsUnread(i) ==
    /\ op[i].at = "forgetting" /\ op[i].alive
    /\ At(i, "recording") /\ Effect(i, Removable(i))

ForgetEnds(i) ==
    /\ op[i].at = "forgetting" /\ op[i].alive
    /\ op' = [op EXCEPT ![i].at = "recording", ![i].removed = Removable(i)]
    /\ Effect(i, Removable(i))

RecordForgotten(i, s) ==
    /\ op[i].at = "recording" /\ s \in op[i].removed
    /\ forgotten' = forgotten \cup {s}
    /\ op' = [op EXCEPT ![i].removed = @ \ {s}]
    /\ UNCHANGED <<row, resticLock, snaps, recorded, made, asked>>

Recorded(i) ==
    /\ op[i].at = "recording" /\ op[i].removed = {}
    /\ At(i, "done")
    /\ UNCHANGED <<row, resticLock>> /\ RepositoryUnchanged

-----------------------------------------------------------------------------
(* Crashes.                                                                *)

\* The engine dies.  Of the restics and rclones that it has started some go on;
\* a killed restic leaves its lock file.
Dies(p) ==
    LET own == {i \in Ops : op[i].proc = p /\ op[i].alive /\ op[i].at \notin Over}
        children == {i \in own : op[i].at \in Running \cup {"syncing"}}
    IN
    /\ own # {}
    /\ \E goOn \in SUBSET children :
          op' = [i \in Ops |->
                   IF i \in own
                   THEN [op[i] EXCEPT !.alive = FALSE, !.at = IF i \in goOn THEN @ ELSE "dead"]
                   ELSE op[i]]
    /\ UNCHANGED <<row, resticLock>> /\ RepositoryUnchanged

OrphanEnds(i) ==
    LET removed == IF op[i].at = "forgetting" THEN Removable(i) ELSE {op[i].target} \ {None} IN
    /\ Gone(i) /\ op[i].at \in Running \cup {"syncing"}
    /\ op' = [op EXCEPT ![i].at = "dead", ![i].removed = removed]
    /\ Effect(i, removed)

-----------------------------------------------------------------------------
Next ==
    \/ \E i \in Ops, p \in Procs :
          \/ \E t \in Tasks : BeginBackup(i, p, t)
          \/ \E kind \in Maintenance : BeginMaintenance(i, p, kind)
          \/ \E target \in Ops : BeginDelete(i, p, target)
          \/ BeginReplicate(i, p)
    \/ \E i \in Ops :
          \/ InsertRow(i) \/ SetRunning(i) \/ Prepared(i) \/ SyncEnds(i) \/ Fails(i)
          \/ ResticStarts(i) \/ ResticLocked(i) \/ ResticEnds(i)
          \/ RecordSummary(i) \/ MarkFinished(i)
          \/ ForgetStarts(i) \/ ForgetLocked(i) \/ ForgetEnds(i)
          \/ \E s \in Ops : RecordForgotten(i, s)
          \/ Recorded(i) \/ OrphanEnds(i)
    \/ \E p \in Procs : Refused(p) \/ Dies(p)

Spec == Init /\ [][Next]_vars

-----------------------------------------------------------------------------
(* Properties.                                                             *)

\* Within a process Arkode's lock serialises the operations that write a row: of
\* its backups, prunes and checks, on whatever task, one is in progress at a time.
OneRowAtATime ==
    \A i, j \in Ops :
       /\ row[i] = "InProgress" /\ row[j] = "InProgress"
       /\ op[i].proc = op[j].proc /\ ~Gone(i) /\ ~Gone(j)
       => i = j

\* The rows have their types, and one process has one operation in progress.
LockInv == TypeOK /\ OneRowAtATime

\* Retention keeps the newest snapshots of a folder, as many as every task that
\* backs it up wants and one even if none of them has a count, whatever the other
\* tasks of the repository do; only somebody asking for it removes one of them.
NewestAreKept ==
    \A s \in made \ asked :
       LET path == PathOf[op[s].task] IN
       (\A t \in Tasks : PathOf[t] = path =>
            Rank(s, {r \in made : PathOf[op[r].task] = path}) < KeepLast(t))
       => s \in snaps

\* The audit trail and the repository agree: what is recorded as forgotten is
\* gone, and what is gone is recorded, or is about to be, or was removed by an
\* operation that died before it could record it.
AuditTrailAgrees ==
    /\ forgotten \cap snaps = {}
    /\ \A s \in made \ snaps : s \in forgotten \/ \E i \in Ops : s \in op[i].removed

\* "This can only ever be a stale lock": a restic that is refused because of the
\* repository's lock never meets the restic of an engine that is alive.
ResticLocksAreStale ==
    [][\A i \in Ops : ResticLocked(i) \/ ForgetLocked(i) =>
          \A j \in Ops : resticLock[j] # "none" => ~op[j].alive]_vars

\* A deletion by hand never overlaps a backup or maintenance.
DeleteIsAlone ==
    \A i, j \in Ops : op[i].kind = "delete" /\ op[i].at = "restic"
                          => ~(row[j] = "InProgress" /\ op[j].alive)

\* A sync of the repository's folder never runs while restic writes to it.
SyncIsAlone ==
    \A i, j \in Ops : op[i].at = "syncing" => ~(op[j].at \in Running /\ op[j].alive)

\* A retention pass forgets snapshots of its own task only.
ForgetsItsOwn ==
    \A i \in Ops : op[i].kind = "backup" =>
        \A s \in op[i].removed : op[s].task = op[i].task

=============================================================================
