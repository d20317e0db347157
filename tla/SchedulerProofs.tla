-------------------------- MODULE SchedulerProofs --------------------------
(***************************************************************************)
(* Theorems about what the tick of the scheduler starts: the syncs of      *)
(* Replication, for any workers, runs and faults, and the runs of          *)
(* Scheduling, for any tasks, days and length of a tick.                   *)
(***************************************************************************)
EXTENDS Replication, Scheduling, FiniteSetTheorems, TLAPS

USE ConstantsAssumption

-----------------------------------------------------------------------------
(* The newest of a finite set of runs.                                     *)

LEMMA NewestExists ==
  ASSUME NEW S \in SUBSET Nat, IsFiniteSet(S), S # {}
  PROVE  \E m \in S : \A x \in S : m >= x
  <1> DEFINE Above(x) == {y \in S : y > x}
             T == {Above(x) : x \in S}
  <1>1. T # {}
    <2>1. PICK x \in S : TRUE
      OBVIOUS
    <2>2. Above(x) \in T
      BY <2>1
    <2>3. QED
      BY <2>2
  <1>2. T \subseteq FiniteSubsetsOf(S)
    <2>1. \A x \in S : Above(x) \subseteq S /\ IsFiniteSet(Above(x))
      BY FS_Subset
    <2>2. QED
      BY <2>1 DEF FiniteSubsetsOf
  <1>3. PICK A \in T : \A B \in T : ~(<<B, A>> \in StrictSubsetOrdering(S))
    <2> HIDE DEF T
    <2>1. QED
      BY <1>1, <1>2, FS_StrictSubsetOrderingWellFounded, WFMin
  <1>4. PICK m \in S : A = Above(m)
    OBVIOUS
  <1>5. ASSUME NEW x \in S, ~(m >= x)
        PROVE  FALSE
    <2>1. x > m
      BY <1>5
    <2>2. Above(x) \subseteq Above(m)
      <3>1. \A y \in S : y > x => y > m
        BY <2>1
      <3>2. QED
        BY <3>1
    <2>3. x \in Above(m) /\ ~(x > x)
      BY <2>1
    <2>4. x \notin Above(x)
      BY <2>3
    <2>5. <<Above(x), A>> \in StrictSubsetOrdering(S)
      BY <1>4, <2>2, <2>3, <2>4 DEF StrictSubsetOrdering
    <2>6. QED
      BY <1>3, <2>5
  <1>6. QED
    BY <1>5

LEMMA NewestIsMax ==
  ASSUME NEW S \in SUBSET Nat, IsFiniteSet(S), S # {}
  PROVE  Max(S) \in S /\ \A x \in S : Max(S) >= x
  BY NewestExists DEF Max

LEMMA RunsFinite == \A S \in SUBSET Runs : IsFiniteSet(S) /\ Cardinality(S) <= MaxRuns
  <1>1. IsFiniteSet(Runs) /\ Cardinality(Runs) = MaxRuns
    BY FS_Interval DEF Runs
  <1>2. QED
    BY <1>1, FS_Subset

-----------------------------------------------------------------------------
(* The inductive invariant.                                                *)

LEMMA InitInv == Init => IInv
  <1> SUFFICES ASSUME Init PROVE IInv
    OBVIOUS
  <1>1. Succeeded = {} /\ Syncing = {}
    BY DEF Init, Succeeded, Syncing, Idle
  <1>2. Idle \in Worker
    BY DEF Idle, Worker
  <1>3. TypeOK
    <2>1. worker \in [Workers -> Worker]
      BY <1>2 DEF Init
    <2>2. faults \in 0 .. MaxFaults
      BY DEF Init
    <2>3. QED
      BY <2>1, <2>2 DEF Init, TypeOK
  <1>4. RunsOwned
    BY DEF Init, RunsOwned, Idle
  <1>5. CopyIsWhole /\ UncopiedIsNewer /\ FinishOrder
    BY <1>1 DEF CopyIsWhole, UncopiedIsNewer, FinishOrder
  <1>6. QED
    BY <1>3, <1>4, <1>5 DEF IInv

LEMMA StartBackupInv ==
  ASSUME IInv, NEW w \in Workers, NEW r \in Runs, StartBackup(w, r)
  PROVE  IInv'
  <1> USE DEF IInv
  <1>1. /\ worker[w].at # "backup" /\ run[r] = "none"
        /\ run' = [run EXCEPT ![r] = "InProgress"]
        /\ worker' = [worker EXCEPT ![w].at = "backup", ![w].run = r]
        /\ UNCHANGED <<content, newer, target, rested, remote, faults, overtaken>>
    BY DEF StartBackup, Home
  <1>2. Succeeded' = Succeeded
    BY <1>1 DEF Succeeded, TypeOK
  <1>3. \A v \in Syncing' : v \in Syncing /\ worker'[v].base = worker[v].base
    BY <1>1 DEF Syncing, TypeOK
  <1>4. TypeOK'
    <2>0. worker[w] \in Worker /\ r \in 0 .. MaxRuns
      BY DEF TypeOK, Runs
    <2>1. [worker[w] EXCEPT !.at = "backup", !.run = r] \in Worker
      BY <2>0 DEF Worker
    <2>2. worker' \in [Workers -> Worker] /\ run' \in [Runs -> {"none", "InProgress", "Success", "Failed"}]
      BY <1>1, <2>1 DEF TypeOK
    <2>3. QED
      BY <1>1, <2>2 DEF TypeOK
  <1>5. RunsOwned'
    BY <1>1 DEF RunsOwned, TypeOK, Runs
  <1>6. CopyIsWhole' /\ UncopiedIsNewer' /\ FinishOrder'
    BY <1>1, <1>2, <1>3 DEF CopyIsWhole, UncopiedIsNewer, FinishOrder
  <1>7. QED
    BY <1>4, <1>5, <1>6

LEMMA EndBackupInv ==
  ASSUME IInv, NEW w \in Workers, NEW status \in {"Success", "Failed"}, EndBackup(w, status)
  PROVE  IInv'
  <1> DEFINE r == worker[w].run
  <1> USE DEF IInv
  <1>1. /\ worker[w].at = "backup" /\ r \in Runs /\ run[r] = "InProgress"
        /\ run' = [run EXCEPT ![r] = status]
        /\ newer' = newer \cup {r}
        /\ worker' = [worker EXCEPT ![w].at = Home(w), ![w].run = 0]
        /\ overtaken' = overtaken \cup {x \in {r} : status = "Success" /\ Overtaken(x)}
        /\ UNCHANGED <<content, target, rested, remote, faults>>
    BY DEF EndBackup, RunsOwned
  <1>2. Succeeded' = IF status = "Success" THEN Succeeded \cup {r} ELSE Succeeded
    BY <1>1 DEF Succeeded, TypeOK
  <1>3. Syncing' = Syncing /\ \A v \in Syncing : worker'[v].base = worker[v].base
    BY <1>1 DEF Syncing, TypeOK, Home
  <1>4. TypeOK'
    <2>0. worker[w] \in Worker /\ Home(w) \in {"tick", "idle"} /\ 0 \in 0 .. MaxRuns
      BY DEF TypeOK, Home
    <2>1. [worker[w] EXCEPT !.at = Home(w), !.run = 0] \in Worker
      BY <2>0 DEF Worker
    <2>2. worker' \in [Workers -> Worker] /\ run' \in [Runs -> {"none", "InProgress", "Success", "Failed"}]
      BY <1>1, <2>1 DEF TypeOK
    <2>3. QED
      BY <1>1, <2>2 DEF TypeOK
  <1>5. RunsOwned'
    BY <1>1 DEF RunsOwned, TypeOK, Runs, Home
  <1>6. CopyIsWhole'
    <2>1. ASSUME NEW v \in Syncing
          PROVE  Succeeded' \subseteq remote \cup worker[v].base \cup overtaken'
      <3>1. status = "Success" => r \in overtaken'
        BY <1>1 DEF Overtaken
      <3>2. QED
        BY <1>1, <1>2, <3>1 DEF CopyIsWhole
    <2>2. QED
      BY <1>1, <1>3, <2>1 DEF CopyIsWhole
  <1>7. UncopiedIsNewer'
    BY <1>1, <1>2 DEF UncopiedIsNewer
  <1>8. FinishOrder'
    <2> SUFFICES ASSUME NEW x \in Succeeded', NEW s \in Succeeded',
                        x \in newer' \ overtaken', x < s
                 PROVE  s \in newer'
      BY DEF FinishOrder
    <2>1. CASE s = r
      BY <1>1, <2>1
    <2>2. CASE s # r /\ x = r
      <3>1. s \in Succeeded /\ status = "Success"
        BY <1>1, <1>2, <2>2 DEF Succeeded
      <3>2. Overtaken(r)
        BY <2>2, <3>1 DEF Overtaken, Succeeded, Runs
      <3>3. QED
        BY <1>1, <2>2, <3>1, <3>2
    <2>3. CASE s # r /\ x # r
      BY <1>1, <1>2, <2>3 DEF FinishOrder
    <2>4. QED
      BY <2>1, <2>2, <2>3
  <1>9. QED
    BY <1>4, <1>5, <1>6, <1>7, <1>8

\* A worker goes on, idles or waits for a connection: only it changes.
LEMMA MoveInv ==
  ASSUME IInv, NEW w \in Workers, NEW to \in Worker,
         to.at \notin {"backup", "copying"}, to.run = 0,
         worker' = [worker EXCEPT ![w] = to],
         UNCHANGED <<content, run, newer, target, rested, remote, faults, overtaken>>
  PROVE  IInv'
  <1> USE DEF IInv
  <1>1. TypeOK'
    BY DEF TypeOK
  <1>2. RunsOwned'
    BY DEF RunsOwned, TypeOK, Runs
  <1>3. Succeeded' = Succeeded
    BY DEF Succeeded
  <1>4. \A v \in Syncing' : v \in Syncing /\ worker'[v] = worker[v]
    BY DEF Syncing, TypeOK
  <1>5. CopyIsWhole' /\ UncopiedIsNewer' /\ FinishOrder'
    BY <1>3, <1>4 DEF CopyIsWhole, UncopiedIsNewer, FinishOrder
  <1>6. QED
    BY <1>1, <1>2, <1>5

LEMMA BeginSyncInv ==
  ASSUME IInv, NEW w \in Workers, worker[w].at # "backup", BeginSync(w)
  PROVE  IInv'
  <1> DEFINE to == [worker[w] EXCEPT !.at = "connecting"]
  <1>1. worker[w] \in Worker /\ worker[w].run = 0
    BY DEF IInv, TypeOK, RunsOwned
  <1>2. to \in Worker /\ to.at = "connecting" /\ to.run = 0
    BY <1>1 DEF Worker
  <1>3. worker' = [worker EXCEPT ![w] = to]
    BY DEF BeginSync
  <1>4. QED
    BY <1>2, <1>3, MoveInv DEF BeginSync

LEMMA TickStartInv ==
  ASSUME IInv, TickStart
  PROVE  IInv'
  <1> DEFINE to == [at |-> "tick", run |-> 0, base |-> {}, seen |-> rested]
  <1>1. to \in Worker /\ to.at = "tick" /\ to.run = 0
    BY ConstantsAssumption DEF IInv, TypeOK, Worker
  <1>2. worker' = [worker EXCEPT ![Tick] = to]
    BY DEF TickStart
  <1> HIDE DEF to
  <1>3. QED
    BY <1>1, <1>2, MoveInv DEF TickStart, Workers

LEMMA TickEndsInv ==
  ASSUME IInv, TickEnds
  PROVE  IInv'
  <1>1. Idle \in Worker /\ Idle.at = "idle" /\ Idle.run = 0
    BY DEF Worker, Idle
  <1>2. QED
    BY <1>1, MoveInv DEF TickEnds, Workers

LEMMA StartCopyInv ==
  ASSUME IInv, NEW w \in Workers, StartCopy(w)
  PROVE  IInv'
  <1> DEFINE to == [worker[w] EXCEPT !.at = "copying", !.base = Succeeded]
  <1> USE DEF IInv
  <1>1. worker[w] \in Worker /\ worker[w].run = 0 /\ Succeeded \subseteq Runs
    BY DEF StartCopy, TypeOK, RunsOwned, Succeeded
  <1>2. to \in Worker /\ to.at = "copying" /\ to.run = 0 /\ to.base = Succeeded
    BY <1>1 DEF Worker
  <1>3. /\ worker' = [worker EXCEPT ![w] = to]
        /\ UNCHANGED <<content, run, newer, target, rested, remote, faults, overtaken>>
    BY DEF StartCopy
  <1> HIDE DEF to
  <1>4. TypeOK'
    BY <1>2, <1>3 DEF TypeOK
  <1>5. RunsOwned'
    BY <1>2, <1>3 DEF RunsOwned, TypeOK, Runs
  <1>6. Succeeded' = Succeeded
    BY <1>3 DEF Succeeded
  <1>7. CopyIsWhole'
    BY <1>2, <1>3, <1>6 DEF CopyIsWhole, Syncing, TypeOK
  <1>8. UncopiedIsNewer' /\ FinishOrder'
    BY <1>3, <1>6 DEF UncopiedIsNewer, FinishOrder
  <1>9. QED
    BY <1>4, <1>5, <1>7, <1>8

\* What both ends of a sync have in common: recordResult, and w is idle.
LEMMA RecordResultInv ==
  ASSUME IInv, NEW w \in Workers, worker[w].at # "backup",
         NEW status \in {"Success", "Failed"}, RecordResult(w, status),
         NEW more \in SUBSET Runs, remote' = remote \cup more,
         status = "Success" => Succeeded \subseteq remote \cup more \cup overtaken,
         faults' \in 0 .. MaxFaults,
         UNCHANGED <<content, run, overtaken>>
  PROVE  IInv'
  <1> USE DEF IInv
  <1>1. /\ target' = status /\ newer' = {} /\ rested' = FALSE
        /\ worker' = [v \in Workers |-> IF v = w THEN Idle ELSE [worker[v] EXCEPT !.seen = FALSE]]
    BY DEF RecordResult
  <1>2. Idle \in Worker /\ Idle.at = "idle" /\ Idle.run = 0
    BY DEF Worker, Idle
  <1>3. ASSUME NEW v \in Workers \ {w}
        PROVE  /\ worker'[v] \in Worker
               /\ worker'[v].at = worker[v].at
               /\ worker'[v].run = worker[v].run
               /\ worker'[v].base = worker[v].base
    <2>1. worker[v] \in Worker /\ worker'[v] = [worker[v] EXCEPT !.seen = FALSE]
      BY <1>1 DEF TypeOK
    <2>2. QED
      BY <2>1 DEF Worker
  <1>4. worker'[w] = Idle
    BY <1>1
  <1>5. TypeOK'
    <2>1. worker' \in [Workers -> Worker]
      BY <1>1, <1>2, <1>3, <1>4
    <2>2. QED
      BY <1>1, <2>1 DEF TypeOK
  <1>6. RunsOwned'
    BY <1>2, <1>3, <1>4 DEF RunsOwned, Runs
  <1>7. Succeeded' = Succeeded
    BY DEF Succeeded
  <1>8. CopyIsWhole'
    BY <1>2, <1>3, <1>4, <1>7 DEF CopyIsWhole, Syncing
  <1>9. UncopiedIsNewer' /\ FinishOrder'
    BY <1>1, <1>7 DEF UncopiedIsNewer, FinishOrder
  <1>10. QED
    BY <1>5, <1>6, <1>8, <1>9

LEMMA EndCopyInv ==
  ASSUME IInv, NEW w \in Workers, EndCopy(w)
  PROVE  IInv'
  <1>1. w \in Syncing /\ worker[w].at # "backup"
    BY DEF EndCopy, Syncing
  <1>2. PICK late \in SUBSET (Succeeded \ worker[w].base) :
            remote' = remote \cup worker[w].base \cup late
    BY DEF EndCopy
  <1>3. worker[w].base \cup late \in SUBSET Runs
    BY DEF IInv, TypeOK, Worker, Succeeded
  <1>4. Succeeded \subseteq remote \cup (worker[w].base \cup late) \cup overtaken
    BY <1>1 DEF IInv, CopyIsWhole
  <1>5. faults' \in 0 .. MaxFaults
    BY DEF EndCopy, IInv, TypeOK
  <1>6. remote' = remote \cup (worker[w].base \cup late)
    BY <1>2
  <1>7. QED
    BY <1>1, <1>3, <1>4, <1>5, <1>6, RecordResultInv DEF EndCopy

LEMMA SyncFailsInv ==
  ASSUME IInv, NEW w \in Workers, SyncFails(w)
  PROVE  IInv'
  <1>1. worker[w].at # "backup"
    BY DEF SyncFails
  <1>2. PICK some \in SUBSET worker[w].base : remote' = remote \cup some
    BY DEF SyncFails
  <1>3. some \in SUBSET Runs
    BY DEF IInv, TypeOK, Worker
  <1>4. faults' \in 0 .. MaxFaults
    BY DEF SyncFails, IInv, TypeOK
  <1>5. QED
    BY <1>1, <1>2, <1>3, <1>4, RecordResultInv DEF SyncFails

LEMMA CrashInv ==
  ASSUME IInv, NEW w \in Workers, Crash(w)
  PROVE  IInv'
  <1> USE DEF IInv
  <1>1. /\ run' = [r \in Runs |-> IF r = worker[w].run THEN "Failed" ELSE run[r]]
        /\ worker' = [worker EXCEPT ![w] = Idle]
        /\ faults' \in 0 .. MaxFaults
        /\ UNCHANGED <<content, newer, target, rested, overtaken>>
    BY DEF Crash, TypeOK
  <1>2. PICK some \in SUBSET worker[w].base : remote' = remote \cup some
    BY DEF Crash
  <1>3. some \in SUBSET Runs
    BY DEF TypeOK, Worker
  <1>4. Idle \in Worker /\ Idle.at = "idle" /\ Idle.run = 0
    BY DEF Worker, Idle
  <1>5. Succeeded' = Succeeded
    BY <1>1 DEF Succeeded, RunsOwned, Runs
  <1>6. TypeOK'
    BY <1>1, <1>2, <1>3, <1>4 DEF TypeOK
  <1>7. RunsOwned'
    BY <1>1, <1>4 DEF RunsOwned, TypeOK, Runs
  <1>8. \A v \in Syncing' : v \in Syncing /\ worker'[v] = worker[v]
    BY <1>1, <1>4 DEF Syncing, TypeOK
  <1>9. CopyIsWhole' /\ UncopiedIsNewer' /\ FinishOrder'
    BY <1>1, <1>2, <1>5, <1>8 DEF CopyIsWhole, UncopiedIsNewer, FinishOrder
  <1>10. QED
    BY <1>6, <1>7, <1>9

LEMMA FloorGoesByInv ==
  ASSUME IInv, FloorGoesBy
  PROVE  IInv'
  BY DEF IInv, FloorGoesBy, TypeOK, RunsOwned, CopyIsWhole, UncopiedIsNewer, FinishOrder,
         Succeeded, Syncing

LEMMA NextInv == IInv /\ [Next]_vars => IInv'
  <1> SUFFICES ASSUME IInv, [Next]_vars PROVE IInv'
    OBVIOUS
  <1>1. ASSUME NEW w \in Workers, NEW r \in Runs, StartBackup(w, r) PROVE IInv'
    BY <1>1, StartBackupInv
  <1>2. ASSUME NEW w \in Workers, SyncNow(w) PROVE IInv'
    BY <1>2, BeginSyncInv DEF SyncNow
  <1>3. ASSUME NEW w \in Workers, WorkerStep(w) PROVE IInv'
    BY <1>3, EndBackupInv, StartCopyInv, EndCopyInv, SyncFailsInv DEF WorkerStep
  <1>4. ASSUME NEW w \in Workers, Crash(w) PROVE IInv'
    BY <1>4, CrashInv
  <1>5. ASSUME TickStep PROVE IInv'
    BY <1>5, TickStartInv, TickEndsInv, BeginSyncInv DEF TickStep, ReplicationPhase, Workers
  <1>6. ASSUME FloorGoesBy PROVE IInv'
    BY <1>6, FloorGoesByInv
  <1>7. CASE UNCHANGED vars
    BY <1>7 DEF vars, IInv, TypeOK, RunsOwned, CopyIsWhole, UncopiedIsNewer, FinishOrder,
                Succeeded, Syncing
  <1>8. QED
    BY <1>1, <1>2, <1>3, <1>4, <1>5, <1>6, <1>7 DEF Next

-----------------------------------------------------------------------------
(* The theorems.                                                           *)

\* Every reachable state of replication satisfies the inductive invariant.
THEOREM Invariance == Spec => []IInv
  <1>1. Init => IInv
    BY InitInv
  <1>2. IInv /\ [Next]_vars => IInv'
    BY NextInv
  <1>3. QED
    BY <1>1, <1>2, PTL DEF Spec

\* What the due check lists, it lists with every run that started later.
LEMMA ListedIsRecent ==
  ASSUME NEW m \in Listed, NEW r \in Started, m <= r
  PROVE  r \in Listed
  <1> DEFINE later(x) == {s \in Started : s > x}
  <1>1. later(r) \subseteq later(m) /\ later(m) \in SUBSET Runs
    BY DEF Listed, Started, Runs
  <1>2. IsFiniteSet(later(m))
    BY <1>1, RunsFinite
  <1>3. /\ Cardinality(later(r)) <= Cardinality(later(m))
        /\ Cardinality(later(r)) \in Nat /\ Cardinality(later(m)) \in Nat
    BY <1>1, <1>2, FS_Subset, FS_CardinalityType
  <1>4. Cardinality(later(m)) < Recent
    BY DEF Listed
  <1> HIDE DEF later
  <1>5. Cardinality(later(r)) < Recent
    BY <1>3, <1>4, ConstantsAssumption
  <1>6. QED
    BY <1>5 DEF Listed, later

\* The due check reads every row when there are no more than it reads.
LEMMA EveryRowListed ==
  ASSUME Recent >= MaxRuns, TypeOK
  PROVE  Succeeded \subseteq Listed
  <1>1. ASSUME NEW r \in Started
        PROVE  Cardinality({s \in Started : s > r}) < Recent
    <2> DEFINE later == {s \in Started : s > r}
    <2>1. later \in SUBSET (2 .. MaxRuns)
      BY DEF Started, Runs
    <2>2. IsFiniteSet(2 .. MaxRuns) /\ Cardinality(2 .. MaxRuns) = MaxRuns - 1
      BY FS_Interval, SMT
    <2>3. Cardinality(later) <= MaxRuns - 1 /\ Cardinality(later) \in Nat
      BY <2>1, <2>2, FS_Subset, FS_CardinalityType
    <2>4. QED
      BY <2>3
  <1>2. QED
    BY <1>1 DEF Succeeded, Listed, Started

\* The success that the due check finds is the newest one, whose finish is after
\* that of every backup which is neither copied nor overtaken.
LEMMA VisibleIsWanted ==
  ASSUME IInv, ~OutOfSight
  PROVE  Succeeded \subseteq remote \cup overtaken \/ Wanted
  <1> SUFFICES ASSUME ~(Succeeded \subseteq remote \cup overtaken), target = "Success"
               PROVE  BackupSince
    BY DEF Wanted, IInv, TypeOK
  <1> PICK r \in Succeeded : r \notin remote \cup overtaken
    OBVIOUS
  <1> DEFINE successes == Listed \cap Succeeded
  <1>1. /\ successes \in SUBSET Nat /\ IsFiniteSet(successes) /\ successes # {}
        /\ Succeeded \subseteq Nat
    BY RunsFinite DEF Succeeded, Runs, OutOfSight
  <1>2. Max(successes) \in successes
    BY <1>1, NewestIsMax
  <1>3. Max(successes) >= r
    <2> SUFFICES ASSUME r > Max(successes)
                 PROVE  r \in Listed
      BY <1>1, <1>2, NewestIsMax
    <2>1. r \in Started
      BY DEF Succeeded, Started
    <2>2. QED
      BY <1>1, <1>2, <2>1, ListedIsRecent
  <1>4. r \in newer
    BY DEF IInv, UncopiedIsNewer
  <1>5. Max(successes) \in newer
    <2>1. CASE Max(successes) = r
      BY <1>4, <2>1
    <2>2. CASE r < Max(successes)
      BY <1>2, <1>4, <2>2 DEF IInv, FinishOrder
    <2>3. QED
      BY <1>1, <1>2, <1>3, <2>1, <2>2
  <1>6. QED
    BY <1>1, <1>2, <1>5 DEF BackupSince

\* In every state, a successful backup that no sync and no later run overtook is
\* off-site or keeps the target due, as long as the due check finds a success
\* among the rows it reads (replicateTarget.ts, replicationDue.ts).
THEOREM NoBackupForgotten == Spec => []CopiedOrWanted
  <1>1. IInv => CopiedOrWanted
    BY VisibleIsWanted DEF CopiedOrWanted
  <1>2. QED
    BY <1>1, Invariance, PTL

\* It does, if there are no more runs than it reads.
THEOREM NoBackupForgottenWhileRowsFit ==
  Recent >= MaxRuns => (Spec => [](Succeeded \subseteq remote \cup overtaken \/ Wanted))
  <1> SUFFICES ASSUME Recent >= MaxRuns
               PROVE  Spec => [](Succeeded \subseteq remote \cup overtaken \/ Wanted)
    OBVIOUS
  <1>1. IInv => Succeeded \subseteq remote \cup overtaken \/ Wanted
    <2> SUFFICES ASSUME IInv, Succeeded # {}
                 PROVE  Succeeded \subseteq remote \cup overtaken \/ Wanted
      OBVIOUS
    <2>1. ~OutOfSight
      BY EveryRowListed DEF IInv, OutOfSight
    <2>2. QED
      BY <2>1, VisibleIsWanted
  <1>2. QED
    BY <1>1, Invariance, PTL

-----------------------------------------------------------------------------
(* The floor.                                                              *)

\* A tick compares the floor with the instant at which it began; what it found then is
\* still so, because whoever is replicated meanwhile is seen by it.
SeenIsRested == \A w \in Workers : worker[w].seen => rested

\* A worker goes on and has seen nothing that it had not seen.
LEMMA SeenStep ==
  ASSUME IInv, SeenIsRested, NEW w \in Workers, NEW to, worker' = [worker EXCEPT ![w] = to],
         to.seen => rested, rested' = rested
  PROVE  SeenIsRested'
  BY DEF SeenIsRested, IInv, TypeOK

LEMMA StepSeenIsRested ==
  ASSUME IInv, SeenIsRested, [Next]_vars
  PROVE  SeenIsRested'
  <1>1. worker \in [Workers -> Worker] /\ Tick \in Workers /\ Idle.seen = FALSE
        /\ \A w \in Workers : worker[w].seen => rested
    BY DEF IInv, TypeOK, Workers, Idle, SeenIsRested
  <1>2. ASSUME NEW w \in Workers, NEW at, worker' = [worker EXCEPT ![w].at = at], rested' = rested
        PROVE  SeenIsRested'
    <2>1. worker' = [worker EXCEPT ![w] = [worker[w] EXCEPT !.at = at]]
      BY <1>1, <1>2
    <2>2. [worker[w] EXCEPT !.at = at].seen = worker[w].seen
      BY <1>1 DEF Worker
    <2>3. QED
      BY <1>1, <1>2, <2>1, <2>2, SeenStep
  <1>3. ASSUME NEW w \in Workers, NEW status, RecordResult(w, status) PROVE SeenIsRested'
    <2>1. ASSUME NEW v \in Workers PROVE ~worker'[v].seen
      <3>1. CASE v = w
        BY <1>1, <1>3, <3>1 DEF RecordResult
      <3>2. CASE v # w
        <4>1. worker'[v] = [worker[v] EXCEPT !.seen = FALSE]
          BY <1>3, <3>2 DEF RecordResult
        <4>2. QED
          BY <1>1, <4>1 DEF Worker
      <3>3. QED
        BY <3>1, <3>2
    <2>2. QED
      BY <2>1 DEF SeenIsRested
  <1>4. ASSUME NEW w \in Workers, NEW r \in Runs, StartBackup(w, r) PROVE SeenIsRested'
    <2> DEFINE to == [worker[w] EXCEPT !.at = "backup", !.run = r]
    <2>1. worker' = [worker EXCEPT ![w] = to]
      BY <1>1, <1>4 DEF StartBackup
    <2>2. to.seen = worker[w].seen
      BY <1>1 DEF Worker
    <2> HIDE DEF to
    <2>3. QED
      BY <1>1, <1>4, <2>1, <2>2, SeenStep DEF StartBackup
  <1>5. ASSUME NEW w \in Workers, NEW status, EndBackup(w, status) PROVE SeenIsRested'
    <2> DEFINE to == [worker[w] EXCEPT !.at = Home(w), !.run = 0]
    <2>1. worker' = [worker EXCEPT ![w] = to]
      BY <1>1, <1>5 DEF EndBackup
    <2>2. to.seen = worker[w].seen
      BY <1>1 DEF Worker
    <2> HIDE DEF to
    <2>3. QED
      BY <1>1, <1>5, <2>1, <2>2, SeenStep DEF EndBackup
  <1>6. ASSUME NEW w \in Workers, BeginSync(w) PROVE SeenIsRested'
    BY <1>2, <1>6 DEF BeginSync
  <1>7. ASSUME NEW w \in Workers, StartCopy(w) PROVE SeenIsRested'
    <2> DEFINE to == [worker[w] EXCEPT !.at = "copying", !.base = Succeeded]
    <2>1. worker' = [worker EXCEPT ![w] = to]
      BY <1>1, <1>7 DEF StartCopy
    <2>2. to.seen = worker[w].seen
      BY <1>1 DEF Worker
    <2> HIDE DEF to
    <2>3. QED
      BY <1>1, <1>7, <2>1, <2>2, SeenStep DEF StartCopy
  <1>8. ASSUME NEW w \in Workers, EndCopy(w) \/ SyncFails(w) PROVE SeenIsRested'
    BY <1>3, <1>8 DEF EndCopy, SyncFails
  <1>9. ASSUME NEW w \in Workers, Crash(w) PROVE SeenIsRested'
    BY <1>1, <1>9, SeenStep DEF Crash
  <1>10. CASE TickStart
    <2>1. worker' = [worker EXCEPT ![Tick] =
                        [at |-> "tick", run |-> 0, base |-> {}, seen |-> rested]]
      BY <1>10 DEF TickStart
    <2>2. QED
      BY <1>1, <1>10, <2>1, SeenStep DEF TickStart
  <1>11. CASE ReplicationPhase
    BY <1>1, <1>6, <1>11 DEF ReplicationPhase
  <1>12. CASE TickEnds
    BY <1>1, <1>12, SeenStep DEF TickEnds
  <1>13. CASE FloorGoesBy
    BY <1>1, <1>13 DEF FloorGoesBy, SeenIsRested
  <1>14. CASE UNCHANGED vars
    BY <1>1, <1>14 DEF vars, SeenIsRested
  <1>15. QED
    BY <1>4, <1>5, <1>6, <1>7, <1>8, <1>9, <1>10, <1>11, <1>12, <1>13, <1>14
       DEF Next, SyncNow, WorkerStep, TickStep

\* A sync of the scheduler never begins within the floor of five minutes after the last
\* attempt, also when a sync by hand ends in the middle of the tick
\* (isReplicationDue with the tick's instant, replicationDue.ts).
THEOREM SyncsAreKeptApart == Spec => SyncsAreSpaced
  <1>1. Init => SeenIsRested
    BY DEF Init, SeenIsRested, Idle
  <1>2. Spec => []SeenIsRested
    BY <1>1, StepSeenIsRested, Invariance, PTL DEF Spec
  <1>3. SeenIsRested => (ReplicationPhase /\ target # "Never" => rested)
    BY DEF SeenIsRested, ReplicationPhase, Due, Workers
  <1>4. QED
    BY <1>2, <1>3, PTL DEF SyncsAreSpaced

-----------------------------------------------------------------------------
(***************************************************************************)
(* The runs of scheduled tasks.                                            *)
(*                                                                         *)
(* What is due today and did not start was blocked whenever it could have  *)
(* been started: PastIsBlocked and NowIsBlocked say so of the times of     *)
(* today, and LookedAt tells whether a tick has seen the task at this      *)
(* time.                                                                   *)
(***************************************************************************)
\* Days do not go back.
LEMMA DayGrows ==
    ASSUME NEW x \in Int, NEW y \in Int, x <= y
    PROVE  Day(x) \in Int /\ Day(y) \in Int /\ Day(x) <= Day(y)
<1> DEFINE n == SlotsPerDay
<1>1. n \in Nat /\ n > 0
    BY TimesAssumption
<1> HIDE DEF n
<1> DEFINE i == x \div n
           j == y \div n
<1>2. i \in Int /\ j \in Int
    BY <1>1
<1>3. n * i <= x /\ y < n * j + n
    BY <1>1
<1> HIDE DEF i, j
<1>4. ASSUME i > j PROVE FALSE
  <2>1. i >= j + 1
      BY <1>2, <1>4
  <2>2. n * i >= n * (j + 1)
      BY <1>1, <1>2, <2>1
  <2>3. n * (j + 1) = n * j + n
      BY <1>1, <1>2
  <2> QED
      BY <1>1, <1>2, <1>3, <2>2, <2>3
<1>5. i <= j
    BY <1>2, <1>4
<1> QED
    BY <1>2, <1>5 DEF Day, i, j, n

\* What a tick compares with is not from the future.
TickFits ==
    /\ tick.now <= clock
    /\ tick.at = "sleep" => tick = Asleep
    /\ tick.at = "rest" => tick.todo = {}
    /\ ~up => tick = Asleep /\ ~checked

\* A run on record has begun, and before the tick if the tick has still to look at its task.
RunsFit ==
    \A t \in Tasks :
       /\ latest["scheduled"][t] <= clock
       /\ tick.at # "sleep" /\ t \in tick.todo => latest["scheduled"][t] <= tick.now

\* The task waits for today's run.
Waits(t) == Day(clock) \in Matches[t] /\ ~AttemptOn(t, Day(clock))

\* It could not be started before, and ...
PastIsBlocked ==
    \A t \in Tasks : Waits(t) =>
       \A x \in Window(t, Day(clock)) : x < clock => x \in blocked[t]

\* ... if a tick has looked at it now, it cannot be started now.
LookedAt(t) == t \notin Unseen /\ (tick.at = "sleep" => checked)
NowIsBlocked ==
    \A t \in Tasks : Waits(t) /\ Slot(clock) >= SlotOf[t] /\ LookedAt(t) => clock \in blocked[t]

SchedulingInv == SchedulingTypeOK /\ TickFits /\ RunsFit /\ PastIsBlocked /\ NowIsBlocked

TickType == [at : {"sleep", "tasks", "running", "rest"}, now : Times,
             todo : SUBSET Tasks, task : Tasks \cup {None}]

LEMMA SlotTypes ==
    ASSUME SchedulingTypeOK
    PROVE  /\ clock \in Int /\ clock >= 0 /\ clock <= Horizon /\ Horizon \in Nat
           /\ tick \in TickType /\ tick.now \in Int
           /\ \A t \in Tasks : latest["scheduled"][t] \in Int
           /\ blocked \in [Tasks -> SUBSET Times]
           /\ latest \in [{"scheduled", "manual"} -> [Tasks -> Times \cup {Never}]]
BY TimesAssumption DEF SchedulingTypeOK, TickType, Times, Never

LEMMA IdleType == Asleep \in TickType /\ Asleep.at = "sleep" /\ Asleep.now = 0 /\ Asleep.todo = {}
BY TimesAssumption DEF Asleep, TickType, Times

LEMMA InitSchedulingInv == SchedulingInit => SchedulingInv
<1> SUFFICES ASSUME SchedulingInit PROVE SchedulingInv
    OBVIOUS
<1>1. SchedulingTypeOK
    BY IdleType, TimesAssumption DEF SchedulingInit, SchedulingTypeOK, TickType, Times, Never
<1>2. TickFits /\ RunsFit
    BY IdleType DEF SchedulingInit, TickFits, RunsFit, Never
<1>3. PastIsBlocked /\ NowIsBlocked
    BY <1>1, IdleType DEF SchedulingInit, PastIsBlocked, NowIsBlocked, LookedAt, Window, Times
<1> QED
    BY <1>1, <1>2, <1>3 DEF SchedulingInv

\* A step at one time that records no scheduled run: what was blocked stays so, and a task is
\* looked at only if it was before, or is not to be started.
LEMMA SameTime ==
    ASSUME SchedulingInv, UNCHANGED clock, latest'["scheduled"] = latest["scheduled"],
           \A t \in Tasks : blocked[t] \subseteq blocked'[t],
           \A t \in Tasks : Waits(t) /\ Slot(clock) >= SlotOf[t] /\ LookedAt(t)' /\ ~LookedAt(t)
              => clock \in blocked'[t]
    PROVE  PastIsBlocked' /\ NowIsBlocked'
<1>1. \A t \in Tasks : Waits(t)' <=> Waits(t)
    BY DEF Waits, AttemptOn
<1> QED
    BY <1>1 DEF SchedulingInv, PastIsBlocked, NowIsBlocked, Window

LEMMA BlockedType ==
    ASSUME SchedulingInv, NEW S \in SUBSET Tasks
    PROVE  /\ Blocked(S) \in [Tasks -> SUBSET Times]
           /\ \A t \in Tasks : blocked[t] \subseteq Blocked(S)[t]
           /\ \A t \in S : clock \in Blocked(S)[t]
BY SlotTypes DEF SchedulingInv, SchedulingTypeOK, Blocked

LEMMA TickBeginsKeepsInv == ASSUME SchedulingInv, TickBegins PROVE SchedulingInv'
<1>1. SchedulingTypeOK'
    BY SlotTypes DEF SchedulingInv, SchedulingTypeOK, TickBegins, TickType
<1>2. TickFits' /\ RunsFit'
    BY SlotTypes DEF SchedulingInv, TickFits, RunsFit, TickBegins
<1>3. PastIsBlocked' /\ NowIsBlocked'
    BY SameTime, SlotTypes DEF TickBegins, LookedAt, Unseen, SchedulingInv, SchedulingTypeOK
<1> QED
    BY <1>1, <1>2, <1>3 DEF SchedulingInv

\* A tick that looks at a task, or passes over all of them.
LEMMA TurnKeepsInv ==
    ASSUME SchedulingInv, tick.at = "tasks", NEW S \in SUBSET tick.todo,
           NEW at \in {"tasks", "rest"},
           tick' = [tick EXCEPT !.at = at, !.todo = @ \ S], at = "rest" => S = tick.todo,
           UNCHANGED <<clock, up, checked, latest, locked, heartbeat>>,
           blocked' \in [Tasks -> SUBSET Times], \A t \in Tasks : blocked[t] \subseteq blocked'[t],
           \A t \in S : tick.now = clock => ~TaskDue(t, clock) \/ clock \in blocked'[t]
    PROVE  SchedulingInv'
<1>1. /\ tick \in TickType /\ tick'.at = at /\ tick'.now = tick.now
      /\ tick'.todo = tick.todo \ S /\ tick'.task = tick.task /\ tick' \in TickType
    BY SlotTypes DEF SchedulingInv, TickType
<1>2. SchedulingTypeOK'
    BY <1>1 DEF SchedulingInv, SchedulingTypeOK, TickType, Times
<1>3. TickFits' /\ RunsFit'
    BY <1>1, IdleType DEF SchedulingInv, TickFits, RunsFit
<1>4. ASSUME NEW t \in Tasks, Waits(t), Slot(clock) >= SlotOf[t], LookedAt(t)', ~LookedAt(t)
      PROVE  clock \in blocked'[t]
  <2>1. t \in S /\ tick.now = clock
      BY <1>1, <1>4 DEF LookedAt, Unseen
  <2>2. TaskDue(t, clock)
      BY <1>4 DEF Waits, TaskDue
  <2> QED
      BY <2>1, <2>2
<1>5. PastIsBlocked' /\ NowIsBlocked'
    BY <1>4, SameTime
<1> QED
    BY <1>2, <1>3, <1>5 DEF SchedulingInv

LEMMA TurnsKeepInv ==
    ASSUME SchedulingInv, NEW t \in Tasks, NotDue(t) \/ SkipLocked(t) \/ Throws(t)
    PROVE  SchedulingInv'
<1>1. /\ tick.at = "tasks" /\ {t} \subseteq tick.todo /\ {t} \in SUBSET Tasks
      /\ tick' = [tick EXCEPT !.at = "tasks", !.todo = @ \ {t}]
      /\ UNCHANGED <<clock, up, checked, latest, locked, heartbeat>>
    BY SlotTypes DEF SchedulingInv, NotDue, SkipLocked, Throws, Turn, TickType
<1>2. /\ blocked' \in [Tasks -> SUBSET Times]
      /\ \A u \in Tasks : blocked[u] \subseteq blocked'[u]
    BY <1>1, BlockedType, SlotTypes DEF SchedulingInv, NotDue, SkipLocked, Throws
<1>3. tick.now = clock => ~TaskDue(t, clock) \/ clock \in blocked'[t]
    BY <1>1, BlockedType DEF NotDue, SkipLocked, Throws
<1>4. \A u \in {t} : tick.now = clock => ~TaskDue(u, clock) \/ clock \in blocked'[u]
    BY <1>3
<1> DEFINE S == {t}
           at == "tasks"
<1>5. /\ tick.at = "tasks" /\ S \in SUBSET tick.todo /\ at \in {"tasks", "rest"} /\ at # "rest"
      /\ tick' = [tick EXCEPT !.at = at, !.todo = @ \ S]
      /\ UNCHANGED <<clock, up, checked, latest, locked, heartbeat>>
      /\ \A u \in S : tick.now = clock => ~TaskDue(u, clock) \/ clock \in blocked'[u]
    BY <1>1, <1>4
<1> HIDE DEF S, at
<1> QED
    BY <1>2, <1>5, TurnKeepsInv

LEMMA PhaseEndsKeepInv == ASSUME SchedulingInv, PhaseFails \/ TasksDone PROVE SchedulingInv'
<1>1. /\ tick.at = "tasks" /\ tick.todo \in SUBSET Tasks
      /\ tick' = [tick EXCEPT !.at = "rest", !.todo = @ \ tick.todo]
      /\ UNCHANGED <<clock, up, checked, latest, locked, heartbeat>>
  <2>1. tick \in TickType /\ tick.todo \in SUBSET Tasks
      BY SlotTypes DEF SchedulingInv, TickType
  <2>2. CASE PhaseFails
    <3>1. tick.todo \ tick.todo = {}
        OBVIOUS
    <3> QED
        BY <2>1, <2>2, <3>1 DEF PhaseFails
  <2>3. CASE TasksDone
    <3>1. /\ tick.at = "tasks" /\ tick.todo = {} /\ tick' = [tick EXCEPT !.at = "rest"]
          /\ UNCHANGED <<clock, up, checked, latest, locked, heartbeat>>
        BY <2>3 DEF TasksDone
    <3>2. [tick EXCEPT !.at = "rest"] = [tick EXCEPT !.at = "rest", !.todo = @ \ tick.todo]
        BY <2>1, <3>1 DEF TickType
    <3> QED
        BY <2>1, <3>1, <3>2
  <2> QED
      BY <2>2, <2>3
<1>2. /\ blocked' \in [Tasks -> SUBSET Times]
      /\ \A u \in Tasks : blocked[u] \subseteq blocked'[u]
      /\ \A u \in tick.todo : clock \in blocked'[u]
    BY <1>1, BlockedType, SlotTypes DEF SchedulingInv, PhaseFails, TasksDone
<1> QED
    BY <1>1, <1>2, TurnKeepsInv

LEMMA StartRunKeepsInv == ASSUME SchedulingInv, NEW t \in Tasks, StartRun(t) PROVE SchedulingInv'
<1>1. /\ tick \in TickType /\ tick' \in TickType /\ tick'.at = "running" /\ tick'.now = tick.now
      /\ tick'.todo = tick.todo \ {t} /\ tick.at = "tasks"
    BY SlotTypes DEF SchedulingInv, StartRun, Turn, TickType
<1>2. /\ latest["scheduled"] \in [Tasks -> Times \cup {Never}]
      /\ latest'["scheduled"] = [latest["scheduled"] EXCEPT ![t] = clock]
      /\ latest' \in [{"scheduled", "manual"} -> [Tasks -> Times \cup {Never}]]
    BY SlotTypes DEF SchedulingInv, SchedulingTypeOK, StartRun
<1>3. UNCHANGED <<clock, up, checked, locked, heartbeat, blocked>>
    BY DEF StartRun
<1>4. SchedulingTypeOK'
    BY <1>1, <1>2, <1>3 DEF SchedulingInv, SchedulingTypeOK, TickType, Times
<1>5. TickFits' /\ RunsFit'
    BY <1>1, <1>2, <1>3, SlotTypes, IdleType DEF SchedulingInv, TickFits, RunsFit
<1>6. ASSUME NEW u \in Tasks, Waits(u)' PROVE u # t /\ Waits(u)
    BY <1>2, <1>3, <1>6, SlotTypes DEF SchedulingInv, Waits, AttemptOn
<1>7. ASSUME NEW u \in Tasks, LookedAt(u)', u # t PROVE LookedAt(u)
    BY <1>1, <1>3, <1>7 DEF LookedAt, Unseen
<1>8. PastIsBlocked' /\ NowIsBlocked'
    BY <1>3, <1>6, <1>7 DEF SchedulingInv, PastIsBlocked, NowIsBlocked, Window
<1> QED
    BY <1>4, <1>5, <1>8 DEF SchedulingInv

LEMMA RunEndsKeepsInv == ASSUME SchedulingInv, RunEnds PROVE SchedulingInv'
<1>1. /\ tick \in TickType /\ tick' \in TickType /\ tick'.at = "tasks" /\ tick'.now = tick.now
      /\ tick'.todo = tick.todo /\ tick.at = "running"
      /\ UNCHANGED <<clock, up, checked, latest, locked, heartbeat, blocked>>
    BY SlotTypes DEF SchedulingInv, RunEnds, TickType
<1>2. SchedulingTypeOK'
    BY <1>1 DEF SchedulingInv, SchedulingTypeOK, TickType, Times
<1>3. TickFits' /\ RunsFit'
    BY <1>1, IdleType DEF SchedulingInv, TickFits, RunsFit
<1>4. \A t \in Tasks : LookedAt(t)' => LookedAt(t)
    BY <1>1 DEF LookedAt, Unseen
<1>5. PastIsBlocked' /\ NowIsBlocked'
    BY <1>1, <1>4, SameTime
<1> QED
    BY <1>2, <1>3, <1>5 DEF SchedulingInv

\* The tick is over, or was cut off, and then nothing is checked.
LEMMA TickIsOverKeepsInv ==
    ASSUME SchedulingInv, tick' = Asleep, up' \in BOOLEAN, checked' \in BOOLEAN, ~up' => ~checked',
           checked' => up /\ tick.at = "rest" /\ tick.now = clock,
           locked' \subseteq Tasks, heartbeat' \in Times \cup {-1},
           UNCHANGED <<clock, latest, blocked>>
    PROVE  SchedulingInv'
<1>1. SchedulingTypeOK'
    BY IdleType DEF SchedulingInv, SchedulingTypeOK, TickType, Times
<1>2. TickFits' /\ RunsFit'
    BY IdleType, SlotTypes DEF SchedulingInv, TickFits, RunsFit
<1>3. \A t \in Tasks : LookedAt(t)' => LookedAt(t)
    BY IdleType DEF SchedulingInv, TickFits, LookedAt, Unseen
<1>4. PastIsBlocked' /\ NowIsBlocked'
    BY <1>3, SameTime
<1> QED
    BY <1>1, <1>2, <1>4 DEF SchedulingInv

LEMMA TickIsOver ==
    ASSUME SchedulingInv, TickCompletes \/ TickDies \/ PowerOff PROVE SchedulingInv'
<1>1. locked \subseteq Tasks /\ tick.task \in Tasks \cup {None} /\ tick.now \in Times
      /\ up \in BOOLEAN /\ heartbeat \in Times \cup {-1}
    BY SlotTypes DEF SchedulingInv, SchedulingTypeOK, TickType
<1>2. tick.at # "sleep" => up
    BY IdleType DEF SchedulingInv, TickFits
<1>3. CASE TickCompletes
    BY <1>1, <1>2, <1>3, TickIsOverKeepsInv DEF TickCompletes
<1>4. CASE TickDies
    BY <1>1, <1>2, <1>4, TickIsOverKeepsInv DEF TickDies
<1>5. CASE PowerOff
    BY <1>1, <1>2, <1>5, TickIsOverKeepsInv DEF PowerOff
<1> QED
    BY <1>3, <1>4, <1>5

LEMMA SurroundingsKeepInv ==
    ASSUME SchedulingInv, PowerOn \/ \E t \in Tasks : ManualStart(t) \/ Unlock(t)
    PROVE  SchedulingInv'
<1>1. UNCHANGED <<clock, tick, checked, blocked>> /\ latest'["scheduled"] = latest["scheduled"]
      /\ latest' \in [{"scheduled", "manual"} -> [Tasks -> Times \cup {Never}]]
    BY SlotTypes DEF SchedulingInv, SchedulingTypeOK, PowerOn, ManualStart, Unlock
<1>2. SchedulingTypeOK'
    BY <1>1 DEF SchedulingInv, SchedulingTypeOK, PowerOn, ManualStart, Unlock
<1>3. TickFits' /\ RunsFit'
    BY <1>1 DEF SchedulingInv, TickFits, RunsFit, PowerOn, ManualStart, Unlock
<1>4. \A t \in Tasks : LookedAt(t)' => LookedAt(t)
    BY <1>1, IdleType DEF SchedulingInv, TickFits, LookedAt, Unseen, PowerOn, ManualStart, Unlock
<1>5. PastIsBlocked' /\ NowIsBlocked'
    BY <1>1, <1>4, SameTime
<1> QED
    BY <1>2, <1>3, <1>5 DEF SchedulingInv

\* When the clock goes on, every task that waits was looked at, or is blocked by that.
LEMMA WindowIsBlocked ==
    ASSUME SchedulingInv, Advance, NEW t \in Tasks, Waits(t), NEW x \in Window(t, Day(clock)),
           x <= clock
    PROVE  x \in Blocked(Unseen)[t]
<1>1. x \in Int /\ Unseen \subseteq Tasks
    BY SlotTypes DEF SchedulingInv, Window, Times, Unseen, TickType
<1>2. CASE x < clock
    BY <1>1, <1>2, BlockedType DEF SchedulingInv, PastIsBlocked
<1>3. CASE x = clock
  <2>1. CASE t \in Unseen
      BY <1>1, <1>3, <2>1, BlockedType
  <2>2. CASE t \notin Unseen
    <3>1. LookedAt(t)
        BY <2>2 DEF LookedAt, Advance, Unseen
    <3> QED
        BY <1>1, <1>3, <3>1, BlockedType DEF SchedulingInv, NowIsBlocked, Window
  <2> QED
      BY <2>1, <2>2
<1> QED
    BY <1>1, <1>2, <1>3, SlotTypes DEF SchedulingInv

LEMMA AdvanceKeepsInv == ASSUME SchedulingInv, Advance PROVE SchedulingInv'
<1>1. /\ clock \in Int /\ clock' = clock + 1 /\ clock' \in Times /\ Unseen \subseteq Tasks
      /\ Day(clock) \in Int /\ Day(clock') \in Int
    BY SlotTypes, DayGrows DEF SchedulingInv, Advance, Unseen, TickType, Times
<1>2. blocked' \in [Tasks -> SUBSET Times]
    BY <1>1, BlockedType DEF Advance
<1>3. SchedulingTypeOK'
    BY <1>1, <1>2 DEF SchedulingInv, SchedulingTypeOK, Advance, Times
<1>4. TickFits' /\ RunsFit'
    BY <1>1, SlotTypes, IdleType DEF SchedulingInv, TickFits, RunsFit, Advance
<1>5. \A t \in Tasks : ~LookedAt(t)'
    BY <1>1, SlotTypes, IdleType DEF SchedulingInv, TickFits, LookedAt, Unseen, Advance
<1>6. ASSUME NEW t \in Tasks, Waits(t)', NEW x \in Window(t, Day(clock')), x < clock'
      PROVE  x \in blocked'[t]
  <2>1. x \in Times /\ x \in Int /\ x <= clock /\ Day(x) = Day(clock')
      BY <1>1, <1>6 DEF Window, Times
  <2>2. Day(x) <= Day(clock) /\ Day(clock) <= Day(clock')
      BY <1>1, <2>1, DayGrows
  <2>3. Day(clock') = Day(clock)
      BY <1>1, <2>1, <2>2
  <2>4. Waits(t) /\ x \in Window(t, Day(clock))
      BY <1>6, <2>3 DEF Waits, AttemptOn, Advance
  <2> QED
      BY <1>1, <2>1, <2>3, <2>4, WindowIsBlocked DEF Advance
<1>7. PastIsBlocked' /\ NowIsBlocked'
    BY <1>5, <1>6 DEF PastIsBlocked, NowIsBlocked, Window
<1> QED
    BY <1>3, <1>4, <1>7 DEF SchedulingInv

LEMMA StepKeepsSchedulingInv == ASSUME SchedulingInv,
    [SchedulingNext]_schedulingVars PROVE SchedulingInv'
<1>1. CASE UNCHANGED schedulingVars
    BY <1>1 DEF schedulingVars, SchedulingInv, SchedulingTypeOK, TickFits, RunsFit,
        PastIsBlocked, NowIsBlocked, Waits,
        AttemptOn, LookedAt, Unseen, Window
<1>2. CASE SchedulingNext
    BY <1>2, TickBeginsKeepsInv, TurnsKeepInv, PhaseEndsKeepInv, StartRunKeepsInv,
       RunEndsKeepsInv, TickIsOver, SurroundingsKeepInv, AdvanceKeepsInv DEF SchedulingNext
<1> QED
    BY <1>1, <1>2

-----------------------------------------------------------------------------
\* Every reachable state of the scheduler satisfies the inductive invariant: ticks and rows
\* are not from the future, and a task that waits was blocked whenever it was looked at.
THEOREM SchedulingInvariance == SchedulingSpec => []SchedulingInv
<1>1. SchedulingInv /\ [SchedulingNext]_schedulingVars => SchedulingInv'
    BY StepKeepsSchedulingInv
<1> QED
    BY InitSchedulingInv, <1>1, PTL DEF SchedulingSpec

\* Clock, tick, rows and heartbeat keep their types, whatever is switched off or dies.
THEOREM SchedulingTypes == SchedulingSpec => []SchedulingTypeOK
<1>1. SchedulingInv => SchedulingTypeOK
    BY DEF SchedulingInv
<1> QED
    BY SchedulingInvariance, <1>1, PTL

\* A task gets at most one scheduled run per day, although a tick that lasts for hours judges
\* with the instant of its start and may start a run after midnight (isTaskDue.ts,
\* runDueTasks.ts).
THEOREM OneRunPerDay == SchedulingSpec => OncePerDay
<1> DEFINE Once == \A t \in Tasks : Starting(t) => Day(latest["scheduled"][t]) # Day(clock)
<1>1. ASSUME SchedulingInv, SchedulingNext, NEW t \in Tasks, Starting(t)
      PROVE  Day(latest["scheduled"][t]) # Day(clock)
  <2>1. StartRun(t)
    <3>1. tick \in TickType /\ Asleep.task \notin Tasks
        BY <1>1, SlotTypes, TimesAssumption DEF SchedulingInv, Asleep
    <3>2. tick.task # t /\ tick'.task = t /\ t \in Tasks /\ None \notin Tasks
        BY <1>1, TimesAssumption DEF Starting
    <3>3. ~TickBegins /\ ~RunEnds /\ ~PhaseFails /\ ~TasksDone /\ ~TickCompletes
      <4>1. ~TickBegins /\ ~TickCompletes
          BY <3>1, <3>2 DEF TickBegins, TickCompletes
      <4>2. ~RunEnds
          BY <3>1, <3>2 DEF RunEnds, TickType
      <4>3. ~PhaseFails /\ ~TasksDone
          BY <3>1, <3>2 DEF PhaseFails, TasksDone, TickType
      <4> QED
          BY <4>1, <4>2, <4>3
    <3>4. ~(TickDies \/ PowerOff \/ PowerOn \/ Advance)
        BY <3>1, <3>2 DEF TickDies, PowerOff, PowerOn, Advance
    <3>5. \A u \in Tasks : ~(NotDue(u) \/ SkipLocked(u) \/ Throws(u) \/ ManualStart(u) \/ Unlock(u))
        BY <3>1, <3>2 DEF NotDue, SkipLocked, Throws, ManualStart, Unlock, TickType
    <3>6. \A u \in Tasks : StartRun(u) => u = t
        BY <3>1, <3>2 DEF StartRun, TickType
    <3>7. \E u \in Tasks : StartRun(u)
        BY <1>1, <3>3, <3>4, <3>5 DEF SchedulingNext
    <3> QED
        BY <3>6, <3>7
  <2>2. /\ tick.at = "tasks" /\ t \in tick.todo /\ Day(latest["scheduled"][t]) # Day(tick.now)
      BY <2>1 DEF StartRun, Turn, TaskDue, AttemptOn
  <2>3. /\ latest["scheduled"][t] <= tick.now /\ tick.now <= clock
        /\ {latest["scheduled"][t], tick.now, clock} \subseteq Int
      BY <1>1, <2>2, SlotTypes DEF SchedulingInv, TickFits, RunsFit
  <2>4. /\ Day(latest["scheduled"][t]) <= Day(tick.now) /\ Day(tick.now) <= Day(clock)
        /\ {Day(latest["scheduled"][t]), Day(tick.now), Day(clock)} \subseteq Int
      BY <2>3, DayGrows
  <2> QED
      BY <2>2, <2>4
<1>2. SchedulingInv /\ [SchedulingNext]_schedulingVars => [Once]_schedulingVars
    BY <1>1
<1> QED
    BY SchedulingInvariance, <1>2, PTL DEF SchedulingSpec, OncePerDay

\* A matching day ends without a scheduled run only if the task could not be started at any
\* time of its window: the PC was off, the service busy, the lock held, or the setup failed
\* (runSchedulerTick.ts, scheduler-service's loop).
THEOREM NoRunIsMissedSilently == SchedulingSpec => NoSilentMiss
<1> DEFINE Misses == Day(clock') # Day(clock) =>
         \A t \in Tasks : Day(clock) \in Matches[t] =>
            \/ AttemptOn(t, Day(clock))
            \/ Window(t, Day(clock)) \subseteq Blocked(Unseen)[t]
<1>1. ASSUME SchedulingInv, SchedulingNext, Day(clock') # Day(clock), NEW t \in Tasks,
             Day(clock) \in Matches[t], ~AttemptOn(t, Day(clock)),
             NEW x \in Window(t, Day(clock))
      PROVE  x \in Blocked(Unseen)[t]
  <2>1. Advance
      BY <1>1 DEF SchedulingNext, TickBegins, RunEnds, PhaseFails, TasksDone, TickCompletes,
          NotDue, StartRun,
          SkipLocked, Throws, ManualStart, Unlock, TickDies, PowerOff, PowerOn
  <2>2. clock \in Int /\ clock' = clock + 1 /\ x \in Int /\ Day(x) = Day(clock)
      BY <1>1, <2>1, SlotTypes DEF SchedulingInv, Advance, Window, Times
  <2>3. x <= clock
    <3>1. SUFFICES ASSUME clock' <= x PROVE FALSE
        BY <2>2
    <3>2. Day(clock) <= Day(clock') /\ Day(clock') <= Day(x)
        BY <2>2, <3>1, DayGrows
    <3>3. {Day(clock), Day(clock')} \subseteq Int
        BY <2>2, DayGrows
    <3> QED
        BY <1>1, <2>2, <3>2, <3>3
  <2> QED
      BY <1>1, <2>1, <2>3, WindowIsBlocked DEF Waits
<1>2. SchedulingInv /\ [SchedulingNext]_schedulingVars => [Misses]_schedulingVars
    BY <1>1
<1> QED
    BY SchedulingInvariance, <1>2, PTL DEF SchedulingSpec, NoSilentMiss
=============================================================================
