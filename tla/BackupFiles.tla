---------------------------- MODULE BackupFiles ----------------------------
(***************************************************************************)
(* The files behind the backup_runs rows of one task: what a run downloads *)
(* or dumps, the name it gets on disk, the retention pass that follows     *)
(* every run, and a backup deleted by hand.                                *)
(*                                                                         *)
(* The task's lock (module BackupRuns) admits one pipeline at a time, but  *)
(* it is released when the verdict is recorded: the retention pass of a    *)
(* run is still unlinking, one await per file, while the next run works,   *)
(* while its own pass starts, and while somebody deletes a backup.         *)
(*                                                                         *)
(* A file's content is the number of the database dump it holds and its    *)
(* size; the checksum_sha256 of a row is that number.  A file that the     *)
(* remote host is still writing has size Partial.  The directory of a task *)
(* is one per month; the model stays within a month, so a local path is    *)
(* the file's name.                                                        *)
(***************************************************************************)
EXTENDS Integers, FiniteSets

CONSTANTS
    Tasks,          \* the tasks to look at: strategy and retention policy
    Names,          \* file names
    ReusedNames,    \* those that later dumps are written to again
    Sizes,          \* sizes of complete dumps
    Partial,        \* size of a dump that is still being written
    Deletable,      \* statuses of the rows that the user deletes by hand
    None,           \* SQL NULL / "not set"
    MaxRuns, MaxDumps, MaxDay   \* bounds on rows, dumps and days

ASSUME NumbersAssumption ==
    /\ MaxRuns \in Nat \ {0} /\ MaxDumps \in Nat /\ MaxDay \in Nat
    /\ Sizes \subseteq Nat \ {0} /\ Partial \in (Nat \ {0}) \ Sizes
    /\ None \notin Nat

\* "dump" stands for remote_dump and direct_dump; a limit that is not set is None.
ASSUME TasksAssumption ==
    Tasks \subseteq [strategy : {"fetch_existing", "dump"},
                     count : Nat \cup {None}, days : Nat \cup {None}]

ASSUME NamesAssumption ==
    /\ ReusedNames \subseteq Names /\ None \notin Names
    /\ Deletable \subseteq {"Success", "Failed"}

RunIds == 1 .. MaxRuns
InProgress == {"Running", "Validating"}

NoFile == [dump |-> 0, size |-> 0]
NoRow == [status |-> "Absent", name |-> None, size |-> None, dump |-> 0, day |-> 0]
NoPull == [at |-> "idle", run |-> None, name |-> None, got |-> NoFile]
NoPass == [todo |-> {}, unlinked |-> FALSE]

VARIABLES
    task,       \* the task
    remote,     \* the remote directory
    used,       \* names the remote side has written to
    dumps,      \* how many dumps were ever made; the newest dump's number
    today,
    disk,       \* the task's directory on this machine
    row,        \* backup_runs
    deleted,    \* the run ids in retention_deletions
    asked,      \* history: the runs whose deletion somebody asked for
    pull,       \* the pipeline: where it is suspended and what it holds
    pass,       \* pass[r]: the retention pass that run r triggered
    hand        \* hand[r]: how far a deletion of r by hand has got

source == <<task, remote, used, dumps, today>>
vars == <<source, disk, row, deleted, asked, pull, pass, hand>>

File == [dump : 0 .. MaxDumps, size : Sizes \cup {0, Partial}]

TypeOK ==
    /\ task \in Tasks
    /\ remote \in [Names -> File] /\ disk \in [Names -> File]
    /\ used \subseteq Names /\ dumps \in 0 .. MaxDumps /\ today \in 0 .. MaxDay
    /\ row \in [RunIds -> [status : {"Absent", "Success", "Failed"} \cup InProgress,
                           name : Names \cup {None}, size : Sizes \cup {Partial, None},
                           dump : 0 .. MaxDumps, day : 0 .. MaxDay]]
    /\ deleted \subseteq RunIds /\ asked \subseteq RunIds
    /\ pull \in [at : {"idle", "listing", "downloading", "renaming", "renamed", "validating"},
                 run : RunIds \cup {None}, name : Names \cup {None}, got : File]
    /\ pass \in [RunIds -> [todo : SUBSET RunIds, unlinked : BOOLEAN]]
    /\ hand \in [RunIds -> {"idle", "unlinking", "recording"}]

Init ==
    /\ task \in Tasks
    /\ remote = [n \in Names |-> NoFile] /\ disk = [n \in Names |-> NoFile]
    /\ used = {} /\ dumps = 0 /\ today = 0
    /\ row = [r \in RunIds |-> NoRow]
    /\ deleted = {} /\ asked = {}
    /\ pull = NoPull
    /\ pass = [r \in RunIds |-> NoPass]
    /\ hand = [r \in RunIds |-> "idle"]

-----------------------------------------------------------------------------
(* The remote side and the calendar.                                       *)

Fresh(n) == n \in ReusedNames \/ n \notin used

\* The job of the remote host that writes the dumps fetch_existing downloads:
\* the file appears, grows, and may be rotated away.
RemoteStart(n) ==
    /\ task.strategy = "fetch_existing" /\ dumps < MaxDumps /\ Fresh(n)
    /\ dumps' = dumps + 1 /\ used' = used \cup {n}
    /\ remote' = [remote EXCEPT ![n] = [dump |-> dumps + 1, size |-> Partial]]
    /\ UNCHANGED <<task, today, disk, row, deleted, asked, pull, pass, hand>>

RemoteComplete(n, s) ==
    /\ remote[n].size = Partial
    /\ remote' = [remote EXCEPT ![n].size = s]
    /\ UNCHANGED <<task, used, dumps, today, disk, row, deleted, asked, pull, pass, hand>>

RemoteRotate(n) ==
    /\ remote[n].size \in Sizes
    /\ remote' = [remote EXCEPT ![n] = NoFile]
    /\ UNCHANGED <<task, used, dumps, today, disk, row, deleted, asked, pull, pass, hand>>

NextDay ==
    /\ today < MaxDay /\ task.days # None
    /\ today' = today + 1
    /\ UNCHANGED <<task, remote, used, dumps, disk, row, deleted, asked, pull, pass, hand>>

-----------------------------------------------------------------------------
(* Retention.                                                              *)

\* listSuccessfulRuns: rows of a no-op Success have no local_path.
Successes(rows) == {r \in RunIds : rows[r].status = "Success" /\ rows[r].name # None}

Rank(r, S) == Cardinality({x \in S : x > r})

ViolatesCount(k) == task.count # None /\ k >= task.count
ViolatesDays(r, rows) == task.days # None /\ rows[r].day < today - task.days

\* shouldDelete: with both policies set, both must agree.
Rejected(r, k, rows) ==
    IF task.count # None /\ task.days # None
    THEN ViolatesCount(k) /\ ViolatesDays(r, rows)
    ELSE ViolatesCount(k) \/ ViolatesDays(r, rows)

\* Deviation: with two limits set, either of them condemns a backup.
DoomedByEither(rows) ==
    LET S == Successes(rows) \ deleted
    IN  {r \in S : Rank(r, S) > 0 /\ (ViolatesCount(Rank(r, S)) \/ ViolatesDays(r, rows))}

\* Deviation: a Success run that fetched nothing takes a place of a kept backup.
DoomedWithNoOps(rows) ==
    LET S == {r \in RunIds : rows[r].status = "Success"} \ deleted
    IN  {r \in S : /\ Rank(r, S) > 0 /\ Rejected(r, Rank(r, S), rows)
                   /\ rows[r].name # None}

\* Deviation: the newest Success run is a candidate like the others.
DoomedWithNewest(rows) ==
    LET S == Successes(rows) \ deleted
    IN  {r \in S : Cardinality(S) > 1 /\ Rejected(r, Rank(r, S), rows)}

\* applyRetention's candidates.  Its "hard floor" (at most all but one) adds
\* nothing: the run of rank 0 is never among them.
Doomed(rows) ==
    LET S == Successes(rows) \ deleted
    IN  {r \in S : Rank(r, S) > 0 /\ Rejected(r, Rank(r, S), rows)}

\* The loop works oldest first.
NextOf(r) == CHOOSE x \in pass[r].todo : \A y \in pass[r].todo : x <= y

\* One unlink of the pass that run r triggered; ENOENT counts as unlinked.
PassUnlink(r) ==
    /\ pass[r].todo # {} /\ ~pass[r].unlinked
    /\ disk' = [disk EXCEPT ![row[NextOf(r)].name] = NoFile]
    /\ pass' = [pass EXCEPT ![r].unlinked = TRUE]
    /\ UNCHANGED <<source, row, deleted, asked, pull, hand>>

\* Deviation: an unlink that failed is recorded like one that worked.
FailUnlinkRecorded(r) ==
    /\ pass[r].todo # {} /\ ~pass[r].unlinked
    /\ pass' = [pass EXCEPT ![r].unlinked = TRUE]
    /\ UNCHANGED <<source, disk, row, deleted, asked, pull, hand>>

\* A file that is locked or not permitted to be removed: the loop goes on.
PassUnlinkFails(r) ==
    /\ pass[r].todo # {} /\ ~pass[r].unlinked
    /\ pass' = [pass EXCEPT ![r].todo = @ \ {NextOf(r)}]
    /\ UNCHANGED <<source, disk, row, deleted, asked, pull, hand>>

PassRecord(r) ==
    /\ pass[r].unlinked
    /\ deleted' = deleted \cup {NextOf(r)}
    /\ pass' = [pass EXCEPT ![r] = [todo |-> @.todo \ {NextOf(r)}, unlinked |-> FALSE]]
    /\ UNCHANGED <<source, disk, row, asked, pull, hand>>

\* The process of the pass dies.
PassDies(r) ==
    /\ pass[r] # NoPass
    /\ pass' = [pass EXCEPT ![r] = NoPass]
    /\ UNCHANGED <<source, disk, row, deleted, asked, pull, hand>>

-----------------------------------------------------------------------------
(* The pipeline.                                                           *)

\* The lock is free once the row of the last run is finished or its process is
\* dead; recoverStaleRuns marks what a dead process left.
StartRun(r) ==
    /\ pull = NoPull
    /\ row[r].status = "Absent" /\ \A x \in RunIds : x < r => row[x].status # "Absent"
    /\ row' = [x \in RunIds |-> IF x = r THEN [NoRow EXCEPT !.status = "Running"]
                                ELSE IF row[x].status \in InProgress
                                THEN [row[x] EXCEPT !.status = "Failed"]
                                ELSE row[x]]
    /\ pull' = [NoPull EXCEPT !.at = "listing", !.run = r]
    /\ UNCHANGED <<source, disk, deleted, asked, pass, hand>>

Listed == {n \in Names : remote[n] # NoFile}

\* Deviation: backups that retention has deleted no longer count as fetched.
FetchedAndKept(n) ==
    \E r \in RunIds \ deleted : /\ row[r].status = "Success"
                                /\ row[r].name = n /\ row[r].size = remote[n].size

\* isAlreadyDownloaded: matched by name and size.
Fetched(n) ==
    \E r \in RunIds : /\ row[r].status = "Success"
                      /\ row[r].name = n /\ row[r].size = remote[n].size

Candidates == {n \in Listed : ~Fetched(n)}

Choose(n) ==
    /\ task.strategy = "fetch_existing" /\ pull.at = "listing"
    /\ n \in Candidates /\ \A m \in Candidates : remote[m].dump <= remote[n].dump
    /\ pull' = [pull EXCEPT !.at = "downloading", !.name = n]
    /\ UNCHANGED <<source, disk, row, deleted, asked, pass, hand>>

\* What arrives is the file as it is when the transfer ends.
Download ==
    /\ pull.at = "downloading" /\ remote[pull.name] # NoFile
    /\ pull' = [pull EXCEPT !.at = "renaming", !.got = remote[pull.name]]
    /\ UNCHANGED <<source, disk, row, deleted, asked, pass, hand>>

\* remote_dump and direct_dump make the dump that they deliver.
Dump(n, s) ==
    /\ task.strategy = "dump" /\ pull.at = "listing" /\ dumps < MaxDumps /\ Fresh(n)
    /\ dumps' = dumps + 1 /\ used' = used \cup {n}
    /\ pull' = [pull EXCEPT !.at = "renaming", !.name = n,
                            !.got = [dump |-> dumps + 1, size |-> s]]
    /\ UNCHANGED <<task, remote, today, disk, row, deleted, asked, pass, hand>>

\* From .part to its final name, before it is validated.
Rename ==
    /\ pull.at = "renaming"
    /\ disk' = [disk EXCEPT ![pull.name] = pull.got]
    /\ pull' = [pull EXCEPT !.at = "renamed"]
    /\ UNCHANGED <<source, row, deleted, asked, pass, hand>>

MarkValidating ==
    /\ pull.at = "renamed"
    /\ row' = [row EXCEPT ![pull.run] =
                  [status |-> "Validating", name |-> pull.name, size |-> pull.got.size,
                   dump |-> pull.got.dump, day |-> today]]
    /\ pull' = [pull EXCEPT !.at = "validating"]
    /\ UNCHANGED <<source, disk, deleted, asked, pass, hand>>

\* markFinished, then applyRetention up to its first await.
Finish(status) ==
    LET rows == [row EXCEPT ![pull.run].status = status] IN
    /\ row' = rows
    /\ pass' = [pass EXCEPT ![pull.run].todo = Doomed(rows)]
    /\ pull' = NoPull
    /\ UNCHANGED <<source, disk, deleted, asked, hand>>

NothingNew ==
    /\ task.strategy = "fetch_existing" /\ pull.at = "listing"
    /\ Listed # {} /\ Candidates = {}
    /\ Finish("Success")

\* The validators read the file that has the final name by then.
Validate ==
    /\ pull.at = "validating"
    /\ Finish(IF disk[pull.name].size \in Sizes THEN "Success" ELSE "Failed")

\* Whatever throws: no file listed, connection lost, rename refused, ...
RunFails ==
    /\ pull.at # "idle"
    /\ Finish("Failed")

RunDies ==
    /\ pull.at # "idle"
    /\ pull' = NoPull
    /\ UNCHANGED <<source, disk, row, deleted, asked, pass, hand>>

-----------------------------------------------------------------------------
(* deleteBackupRun: a row is read, its file unlinked, the deletion recorded. *)

HandStart(r) ==
    /\ row[r].status \in Deletable /\ row[r].name # None
    /\ hand[r] = "idle"
    /\ hand' = [hand EXCEPT ![r] = "unlinking"]
    /\ asked' = asked \cup {r}
    /\ UNCHANGED <<source, disk, row, deleted, pull, pass>>

HandUnlink(r) ==
    /\ hand[r] = "unlinking"
    /\ disk' = [disk EXCEPT ![row[r].name] = NoFile]
    /\ hand' = [hand EXCEPT ![r] = "recording"]
    /\ UNCHANGED <<source, row, deleted, asked, pull, pass>>

HandRecord(r) ==
    /\ hand[r] = "recording"
    /\ deleted' = deleted \cup {r}
    /\ hand' = [hand EXCEPT ![r] = "idle"]
    /\ UNCHANGED <<source, disk, row, asked, pull, pass>>

\* The unlink fails, or the process dies.
HandStops(r) ==
    /\ hand[r] # "idle"
    /\ hand' = [hand EXCEPT ![r] = "idle"]
    /\ UNCHANGED <<source, disk, row, deleted, asked, pull, pass>>

-----------------------------------------------------------------------------
Next ==
    \/ \E n \in Names : RemoteStart(n) \/ RemoteRotate(n) \/ Choose(n)
    \/ \E n \in Names, s \in Sizes : RemoteComplete(n, s) \/ Dump(n, s)
    \/ NextDay
    \/ Download \/ Rename \/ MarkValidating
    \/ NothingNew \/ Validate \/ RunFails \/ RunDies
    \/ \E r \in RunIds :
          \/ StartRun(r)
          \/ PassUnlink(r) \/ PassUnlinkFails(r) \/ PassRecord(r) \/ PassDies(r)
          \/ HandStart(r) \/ HandUnlink(r) \/ HandRecord(r) \/ HandStops(r)

Spec == Init /\ [][Next]_vars

-----------------------------------------------------------------------------
(* Properties.                                                             *)

Intact(r) == disk[row[r].name] = [dump |-> row[r].dump, size |-> row[r].size]

\* What the policy promises to keep, every Success run counted, whatever has
\* become of its file.
PolicyKeeps(r) ==
    LET S == Successes(row) IN
    r \in S /\ (Rank(r, S) = 0 \/ ~Rejected(r, Rank(r, S), row))

\* A backup that the retention policy keeps, the newest one always among them,
\* is on disk as it was validated, whatever passes, runs, crashes and deletions
\* of other backups overlap; only somebody asking for it may remove it.
KeptIsIntact ==
    \A r \in RunIds \ asked : PolicyKeeps(r) => Intact(r)

\* "Never redundantly re-download an existing, validated backup": no dump has
\* two Success runs, also after retention has deleted the first one's file.
NothingFetchedTwice ==
    \A r, s \in Successes(row) : row[r].dump = row[s].dump => r = s

\* A backup recorded as deleted is not on disk any more: no deletion is recorded
\* that did not happen, and what was deleted does not come back.
DeletedIsGone ==
    \A r \in deleted : row[r].status = "Success" => ~Intact(r)

\* The files and rows have their types, and a recorded deletion is a fact.
FilesInv == TypeOK /\ DeletedIsGone

LosesOnlyToLater ==
    \A r \in Successes(row) \ asked :
       Intact(r) /\ ~Intact(r)' =>
          \E s \in Successes(row) : row[s].dump > row[r].dump /\ (Intact(s) \/ s \in asked)

\* "Never delete a backup before a later valid one is confirmed to exist":
\* retention deletes a valid backup only when one of a later dump is there (or
\* was there until somebody asked for its deletion).
LaterBackupExists == [][LosesOnlyToLater]_vars

\* That much is so for the tasks that make the dumps they store.
LaterDumpExists == [][task.strategy = "dump" => LosesOnlyToLater]_vars

\* Retention never removes the last valid backup that is on disk.
RetentionLeavesOne ==
    [][(\E r \in RunIds : ~pass[r].unlinked /\ pass'[r].unlinked)
          /\ (\E s \in Successes(row) : Intact(s))
       => (\E s \in Successes(row) : Intact(s))']_vars

\* "No new backup needed" is recorded only when every dump that the remote
\* directory offers has been downloaded.
NothingNewIsTrue ==
    [][NothingNew => \A n \in Listed : \E r \in RunIds : row[r].dump = remote[n].dump]_vars

\* A final name that a validated backup has is never given to a file that is not
\* complete.
BrokenNeverReplacesValid ==
    \A r \in Successes(row) : disk[row[r].name].size # Partial

\* Deleting a run by hand removes that run's backup and no other.
DeletesOnlyItsOwn ==
    [][\A r \in RunIds : hand[r] = "unlinking" /\ hand'[r] = "recording" =>
          \A s \in Successes(row) \ {r} : Intact(s) => Intact(s)']_vars

=============================================================================
