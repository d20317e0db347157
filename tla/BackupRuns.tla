----------------------------- MODULE BackupRuns -----------------------------
(***************************************************************************)
(* The life of a database-backup run: the backup_runs rows of SQLite, the  *)
(* app-level lock that runBackupTask takes on a task, the pipeline up to   *)
(* the recorded verdict, and the recovery of rows whose process died.      *)
(*                                                                         *)
(* Several OS processes run engine code on the same database: the serve    *)
(* process behind the desktop shell, the scheduler service's tick, a CLI.  *)
(* Node runs one thread: what runBackupTask does before its first await    *)
(* (recover, check the lock, insert the row) is one uninterrupted call in  *)
(* its own process, but every SQL statement commits on its own, so another *)
(* process may run between any two of them.  After the first await a run   *)
(* is a suspended frame of its process, and frames interleave.             *)
(*                                                                         *)
(* Time is the age of a row, counted in clock ticks and saturating once it *)
(* is past MaxRunAge, where it makes no further difference.                *)
(***************************************************************************)
EXTENDS Integers, FiniteSets

CONSTANTS
    Tasks,          \* backup tasks
    Procs,          \* slots for processes that run engine code
    Pids,           \* the ids the operating system hands out and recycles
    Free,           \* holder of a pid no process has
    Foreign,        \* holder of a pid that some unrelated program has
    None,           \* SQL NULL / "not set"
    MaxRuns,        \* bound on the backup_runs rows
    ScrutinyAfter,  \* IN_PROGRESS_SCRUTINY_AFTER_MS, in ticks
    MaxRunAge       \* MAX_IN_PROGRESS_RUN_MS, in ticks

ASSUME NumbersAssumption ==
    /\ MaxRuns \in Nat \ {0}
    /\ ScrutinyAfter \in Nat
    /\ MaxRunAge \in Nat
    /\ ScrutinyAfter <= MaxRunAge

ASSUME NamesAssumption ==
    /\ Free \notin Procs
    /\ Foreign \notin Procs
    /\ Free # Foreign
    /\ None \notin Tasks \cup Procs \cup Pids

RunIds == 1 .. MaxRuns

InProgress == {"Running", "Producing", "Validating"}
Finished == {"Success", "Warning", "Failed"}
Statuses == {"Absent", "Pending"} \cup InProgress \cup Finished

\* The await points of the pipeline, and the status each one is suspended in.
LivePoints == {"setup", "producing", "validating"}
StatusAt == [setup |-> "Running", producing |-> "Producing", validating |-> "Validating"]

NoRow == [status |-> "Absent", task |-> None, pid |-> None, age |-> 0]
NoFrame == [at |-> "none", proc |-> None]
NoCall == [step |-> "idle", task |-> None, todo |-> {}, run |-> None]

VARIABLES
    row,      \* backup_runs
    frame,    \* frame[r]: where run r is suspended, and in which process
    call,     \* call[p]: the synchronous part of runBackupTask that p executes
    holder,   \* holder[pid]: who has the pid
    older     \* older[pid]: the rows written before pid's holder was started

vars == <<row, frame, call, holder, older>>

-----------------------------------------------------------------------------
Row == [status : Statuses, task : Tasks \cup {None}, pid : Pids \cup {None},
        age : 0 .. MaxRunAge + 1]
Frame == [at : {"none", "retention"} \cup LivePoints, proc : Procs \cup {None}]
Call == [step : {"idle", "recover", "insert", "running"}, task : Tasks \cup {None},
         todo : SUBSET RunIds, run : RunIds \cup {None}]

TypeOK ==
    /\ row \in [RunIds -> Row]
    /\ frame \in [RunIds -> Frame]
    /\ call \in [Procs -> Call]
    /\ holder \in [Pids -> Procs \cup {Free, Foreign}]
    /\ older \in [Pids -> SUBSET RunIds]

Init ==
    /\ row = [r \in RunIds |-> NoRow]
    /\ frame = [r \in RunIds |-> NoFrame]
    /\ call = [p \in Procs |-> NoCall]
    /\ holder = [pid \in Pids |-> Free]
    /\ older = [pid \in Pids |-> {}]

Rows == {r \in RunIds : row[r].status # "Absent"}

\* Deviation: the query forgets the runs whose dump is being produced.
ListWithoutProducing(t) ==
    {r \in RunIds : row[r].task = t /\ row[r].status \in {"Running", "Validating"}}

\* runsRepo.listInProgress(taskId): 'Pending' is not one of its statuses.
ListInProgress(t) == {r \in RunIds : row[r].task = t /\ row[r].status \in InProgress}

\* Deviations: the start times compared the wrong way round; a row past the
\* scrutiny age judged without asking who has its pid; no age ceiling.
StaleIfOlderHolder(r, started) ==
    \/ holder[row[r].pid] = Free
    \/ /\ row[r].age > ScrutinyAfter
       /\ \/ started /\ r \notin older[row[r].pid]
          \/ row[r].age > MaxRunAge

StaleAfterScrutinyAge(r, started) ==
    holder[row[r].pid] = Free \/ row[r].age > ScrutinyAfter

StaleWithoutCeiling(r, started) ==
    \/ holder[row[r].pid] = Free
    \/ row[r].age > ScrutinyAfter /\ started /\ r \in older[row[r].pid]

\* isStaleInProgressRun.  "started" tells whether processStartTimeMs answered;
\* its query of the operating system may fail or time out.
IsStale(r, started) ==
    \/ holder[row[r].pid] = Free
    \/ /\ row[r].age > ScrutinyAfter
       /\ \/ started /\ r \in older[row[r].pid]
          \/ row[r].age > MaxRunAge

Overdue(r) == row[r].age > MaxRunAge

Live(r) == frame[r].at \in LivePoints

-----------------------------------------------------------------------------
(* The synchronous part of runBackupTask.                                  *)

Begin(p, t) ==
    /\ \E pid \in Pids : holder[pid] = p
    /\ call[p].step = "idle"
    /\ call' = [call EXCEPT ![p] = [NoCall EXCEPT !.step = "recover", !.task = t,
                                                  !.todo = ListInProgress(t)]]
    /\ UNCHANGED <<row, frame, holder, older>>

\* One turn of recoverStaleRuns' loop: the row was listed earlier, the process
\* is looked up now, and markFinished does not look at the status again.
RecoverRow(p, r) ==
    /\ call[p].step = "recover"
    /\ r \in call[p].todo
    /\ call' = [call EXCEPT ![p].todo = @ \ {r}]
    /\ \E started \in BOOLEAN :
          row' = IF IsStale(r, started)
                 THEN [row EXCEPT ![r].status = "Failed"]
                 ELSE row
    /\ UNCHANGED <<frame, holder, older>>

\* The runs that keep the lock: in progress and not judged stale.
Blocking(t, answered) == {r \in ListInProgress(t) : ~IsStale(r, r \in answered)}

\* "answered": the rows for which the operating system told the start time.
SkipLocked(p) ==
    /\ call[p].step = "recover"
    /\ call[p].todo = {}
    /\ \E answered \in SUBSET RunIds : Blocking(call[p].task, answered) # {}
    /\ call' = [call EXCEPT ![p] = NoCall]
    /\ UNCHANGED <<row, frame, holder, older>>

\* Room for one more row: the bound MaxRuns, not a limit of the code.
Room == Cardinality(RunIds \ Rows) > Cardinality({p \in Procs : call[p].step = "insert"})

\* Deviation: whatever recovery left in progress is taken to be dead.
TakeLockUnchecked(p) ==
    /\ call[p].step = "recover"
    /\ call[p].todo = {}
    /\ Room
    /\ call' = [call EXCEPT ![p].step = "insert"]
    /\ UNCHANGED <<row, frame, holder, older>>

TakeLock(p) ==
    /\ call[p].step = "recover"
    /\ call[p].todo = {}
    /\ \E answered \in SUBSET RunIds : Blocking(call[p].task, answered) = {}
    /\ Room
    /\ call' = [call EXCEPT ![p].step = "insert"]
    /\ UNCHANGED <<row, frame, holder, older>>

\* The client of the task is gone: the call throws before it writes a row.
ClientMissing(p) ==
    /\ call[p].step = "recover"
    /\ call[p].todo = {}
    /\ \E answered \in SUBSET RunIds : Blocking(call[p].task, answered) = {}
    /\ call' = [call EXCEPT ![p] = NoCall]
    /\ UNCHANGED <<row, frame, holder, older>>

\* runsRepo.create, first statement: INSERT ... 'Pending'.
InsertRow(p) ==
    /\ call[p].step = "insert"
    /\ \E r \in RunIds \ Rows, pid \in Pids :
          /\ \A s \in RunIds \ Rows : r <= s
          /\ holder[pid] = p
          /\ row' = [row EXCEPT ![r] = [status |-> "Pending", task |-> call[p].task,
                                        pid |-> pid, age |-> 0]]
          /\ call' = [call EXCEPT ![p] = [@ EXCEPT !.step = "running", !.run = r]]
    /\ UNCHANGED <<frame, holder, older>>

\* runsRepo.create, second statement: UPDATE ... 'Running'.  runBackupTask then
\* reaches its first await (mkdir) and the process is free for other work.
SetRunning(p) ==
    /\ call[p].step = "running"
    /\ row' = [row EXCEPT ![call[p].run].status = "Running"]
    /\ frame' = [frame EXCEPT ![call[p].run] = [at |-> "setup", proc |-> p]]
    /\ call' = [call EXCEPT ![p] = NoCall]
    /\ UNCHANGED <<holder, older>>

-----------------------------------------------------------------------------
(* The asynchronous part: one action per await that resolves or rejects.   *)

\* Run r is suspended at "point" and its process is free to resume it.
Resumes(r, point) ==
    /\ frame[r].at = point
    /\ call[frame[r].proc].step = "idle"

\* Leaves "point" for "next", writing the status of the row (no statement looks
\* at the status the row has).
Advance(r, point, next, status) ==
    /\ Resumes(r, point)
    /\ row' = [row EXCEPT ![r].status = status]
    /\ frame' = [frame EXCEPT ![r].at = next]
    /\ UNCHANGED <<call, holder, older>>

\* mkdir or the sweep of orphaned .part files rejects.  Both are outside the
\* try block: the call throws, and the row stays as it is.
SetupFails(r) ==
    /\ Resumes(r, "setup")
    /\ frame' = [frame EXCEPT ![r] = NoFrame]
    /\ UNCHANGED <<row, call, holder, older>>

MarkProducing(r) == Advance(r, "setup", "producing", "Producing")

\* The dump is produced, hashed and renamed: markValidating.
MarkValidating(r) == Advance(r, "producing", "validating", "Validating")

\* NoNewDumpAvailableError: recorded as a successful no-op.
NothingNew(r) == Advance(r, "producing", "retention", "Success")

\* The executor, the hash or the rename rejects, or the dump is empty.
ProduceFails(r) == Advance(r, "producing", "retention", "Failed")

\* The validators' verdict; a validator that throws is a Failed run as well.
Verdict(r) == \E status \in Finished : Advance(r, "validating", "retention", status)

\* applyRetentionSafely resolves and the call returns.
Return(r) ==
    /\ Resumes(r, "retention")
    /\ frame' = [frame EXCEPT ![r] = NoFrame]
    /\ UNCHANGED <<row, call, holder, older>>

-----------------------------------------------------------------------------
(* The operating system.                                                   *)

\* A process with engine code starts and gets a pid, possibly one used before.
Boot(p, pid) ==
    /\ holder[pid] = Free
    /\ \A other \in Pids : holder[other] # p
    /\ holder' = [holder EXCEPT ![pid] = p]
    /\ older' = [older EXCEPT ![pid] = Rows]
    /\ UNCHANGED <<row, frame, call>>

\* The process exits or crashes: what it had in memory is gone, the rows stay.
Kill(p) ==
    /\ \E pid \in Pids : holder[pid] = p
    /\ holder' = [pid \in Pids |-> IF holder[pid] = p THEN Free ELSE holder[pid]]
    /\ older' = [pid \in Pids |-> IF holder[pid] = p THEN {} ELSE older[pid]]
    /\ call' = [call EXCEPT ![p] = NoCall]
    /\ frame' = [r \in RunIds |-> IF frame[r].proc = p THEN NoFrame ELSE frame[r]]
    /\ UNCHANGED row

\* An unrelated program takes a pid (never so many that ours cannot start).
ForeignStart(pid) ==
    /\ holder[pid] = Free
    /\ Cardinality({q \in Pids : holder[q] = Foreign}) + Cardinality(Procs) < Cardinality(Pids)
    /\ holder' = [holder EXCEPT ![pid] = Foreign]
    /\ older' = [older EXCEPT ![pid] = Rows]
    /\ UNCHANGED <<row, frame, call>>

ForeignExit(pid) ==
    /\ holder[pid] = Foreign
    /\ holder' = [holder EXCEPT ![pid] = Free]
    /\ older' = [older EXCEPT ![pid] = {}]
    /\ UNCHANGED <<row, frame, call>>

Older(a) == IF a > MaxRunAge THEN a ELSE a + 1

Tick ==
    /\ row' = [r \in RunIds |-> IF r \in Rows THEN [row[r] EXCEPT !.age = Older(@)] ELSE row[r]]
    /\ UNCHANGED <<frame, call, holder, older>>

-----------------------------------------------------------------------------
CallStep(p) ==
    \/ \E r \in RunIds : RecoverRow(p, r)
    \/ SkipLocked(p)
    \/ TakeLock(p)
    \/ ClientMissing(p)
    \/ InsertRow(p)
    \/ SetRunning(p)

FrameStep(r) ==
    \/ SetupFails(r)
    \/ MarkProducing(r)
    \/ MarkValidating(r)
    \/ NothingNew(r)
    \/ ProduceFails(r)
    \/ Verdict(r)
    \/ Return(r)

SystemStep ==
    \/ \E p \in Procs, pid \in Pids : Boot(p, pid)
    \/ \E p \in Procs : Kill(p)
    \/ \E pid \in Pids : ForeignStart(pid) \/ ForeignExit(pid)
    \/ Tick

Next ==
    \/ \E p \in Procs, t \in Tasks : Begin(p, t)
    \/ \E p \in Procs : CallStep(p)
    \/ \E r \in RunIds : FrameStep(r)
    \/ SystemStep

Spec == Init /\ [][Next]_vars

(***************************************************************************)
(* Time passes, and the scheduler service never gives up: it is restarted, *)
(* every task gets attempted again and again, and a call that keeps being  *)
(* cut short by crashes gets through at some point.  Nothing is assumed of *)
(* the runs themselves: a dump may hang for ever.                          *)
(***************************************************************************)
Fairness ==
    /\ WF_vars(Tick)
    /\ \A p \in Procs :
          /\ WF_vars(\E pid \in Pids : Boot(p, pid))
          /\ \A t \in Tasks : SF_vars(Begin(p, t))
          /\ \A r \in RunIds : SF_vars(RecoverRow(p, r))
          /\ WF_vars(CallStep(p))

FairSpec == Spec /\ Fairness

-----------------------------------------------------------------------------
(* Properties.                                                             *)

\* A run that is still being executed has the status its pipeline wrote last:
\* no other process has reclaimed it, for as long as it is not past the age at
\* which isStaleInProgressRun gives up on any run.  In particular a recycled
\* pid never makes a live run look dead.
LiveRowKeepsStatus ==
    \A r \in RunIds : Live(r) /\ ~Overdue(r) => row[r].status = StatusAt[frame[r].at]

\* Within one process the app-level lock excludes: it never has two runs of a
\* task between the row and the verdict, unless one of them is overdue.
OneRunPerProcess ==
    \A r, s \in RunIds :
        /\ r # s /\ Live(r) /\ Live(s)
        /\ frame[r].proc = frame[s].proc
        /\ row[r].task = row[s].task
        => Overdue(r) \/ Overdue(s)

\* A row that was written off as Failed comes back to life only when it was
\* written off for its age (the one case in which its process goes on).
NoEarlyResurrection ==
    [][\A r \in RunIds :
          row[r].status = "Failed" /\ row'[r].status # "Failed" => Overdue(r)]_vars

\* No run blocks its task for ever, whatever became of its process or of its
\* pid: every row the lock looks at leaves the in-progress statuses.
InProgressEnds ==
    \A r \in RunIds : row[r].status \in InProgress ~> row[r].status \notin InProgress

-----------------------------------------------------------------------------
(* The inductive invariant behind the three safety properties.             *)

\* A row that exists names its task and its pid; recovery has listed only rows
\* that were in progress at some time, never absent or 'Pending' ones.
RowsWellFormed ==
    /\ \A r \in Rows : row[r].task \in Tasks /\ row[r].pid \in Pids
    /\ \A pid \in Pids : older[pid] \subseteq Rows
    /\ \A p \in Procs : \A r \in call[p].todo : row[r].status \notin {"Absent", "Pending"}

\* A suspended run belongs to the process that still has the pid of its row,
\* and which was running when the row was written.
FramesOwned ==
    \A r \in RunIds : frame[r].at # "none" =>
        /\ row[r].status \notin {"Absent", "Pending"}
        /\ frame[r].proc \in Procs
        /\ holder[row[r].pid] = frame[r].proc
        /\ r \notin older[row[r].pid]

\* A row between its INSERT and its UPDATE is its own process's.
InsertOwned ==
    \A p \in Procs : call[p].step = "running" =>
        /\ call[p].run \in RunIds
        /\ row[call[p].run].status = "Pending"
        /\ row[call[p].run].task = call[p].task
        /\ frame[call[p].run].at = "none"
        /\ holder[row[call[p].run].pid] = p
        /\ call[p].run \notin older[row[call[p].run].pid]

\* A call past the lock check has no live run of its task beside it in its own
\* process that is not overdue.
LockHeld ==
    \A p \in Procs, r \in RunIds :
        /\ call[p].step \in {"insert", "running"}
        /\ Live(r) /\ frame[r].proc = p /\ row[r].task = call[p].task
        => Overdue(r)

\* A call that is under way knows its task.
CallHasTask == \A p \in Procs : call[p].step # "idle" => call[p].task \in Tasks

IInv ==
    /\ TypeOK
    /\ CallHasTask
    /\ RowsWellFormed
    /\ FramesOwned
    /\ InsertOwned
    /\ LockHeld
    /\ LiveRowKeepsStatus
    /\ OneRunPerProcess

-----------------------------------------------------------------------------
(* What the comments of the code say and the code does not do.             *)

\* runBackupTask.ts:220-222, "Skip rather than double-run": two runs of a task
\* are never executed at the same time.
NoDoubleRun ==
    \A r, s \in RunIds :
        r # s /\ Live(r) /\ Live(s) /\ row[r].task = row[s].task
        => Overdue(r) \/ Overdue(s)

\* runBackupTask.ts:86-91: the rows that recovery marks Failed are rows in
\* progress.
RecoveryFailsOnlyInProgress ==
    [][\A r \in RunIds :
          row'[r].status = "Failed" /\ row[r].status # "Failed"
          => row[r].status \in InProgress]_vars

\* processIdentity.ts:47-53: a run that passed the maximum age is failed.
ReclaimedStaysFailed ==
    [][\A r \in RunIds : row[r].status = "Failed" => row'[r].status = "Failed"]_vars
=============================================================================
