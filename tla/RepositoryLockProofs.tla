------------------------- MODULE RepositoryLockProofs -------------------------
(***************************************************************************)
(* Proofs about RepositoryLock: a process has one operation in progress,   *)
(* retention keeps the newest snapshots, and the audit trail agrees with   *)
(* the repository, for any tasks, policies, processes and operations.      *)
(***************************************************************************)
EXTENDS RepositoryLock, FiniteSetTheorems, TLAPS

OpType == [kind : Kinds \cup {"none"}, at : Points, proc : Procs \cup {None},
           task : Tasks \cup {None}, target : Ops \cup {None},
           removed : SUBSET Ops, alive : BOOLEAN]
RowType == [Ops -> {"none", "Pending", "InProgress", "Finished", "Failed"}]
LockType == [Ops -> {"none", "shared", "exclusive"}]

\* OneRowAtATime is not inductive: between the look at the rows and the row that an
\* operation writes itself, the lock is its as well.
Holds(i) == op[i].at \in InCall \/ (row[i] = "InProgress" /\ ~Gone(i))
OneTurn == \A i, j \in Ops : Holds(i) /\ Holds(j) /\ op[i].proc = op[j].proc => i = j

BeforeSnapshot == InCall \cup {"preparing", "starting", "retrying", "restic"}
AfterSnapshot == {"finishing", "recorded"}
OfBackups == {"recorded", "retention", "retentionRetry", "forgetting"}

\* A snapshot is there when its backup's restic has ended, and what an operation has
\* removed, and not recorded yet, is gone.
Fits(i) ==
    /\ op[i].kind = "none" => op[i] = NoOp /\ row[i] = "none"
    /\ op[i].kind = "backup" => op[i].task \in Tasks
    /\ op[i].kind = "delete" => op[i].target \in made \cap asked
    /\ op[i].kind # "delete" => op[i].target = None
    /\ op[i].at \in OfBackups => op[i].kind = "backup"
    /\ op[i].removed # {} => op[i].at \in {"recording", "dead"}
    /\ op[i].removed \subseteq made \ snaps
    /\ i \in made => op[i].kind = "backup" /\ op[i].at \notin BeforeSnapshot
    /\ op[i].kind = "backup" /\ op[i].at \in AfterSnapshot => i \in made

OpsFit == \A i \in Ops : Fits(i)

ForgottenIsGone == forgotten \subseteq made \ snaps
GoneIsRecorded ==
    \A s \in made \ snaps : s \in forgotten \/ \E i \in Ops : s \in op[i].removed

IInv == TypeOK /\ OneTurn /\ OpsFit /\ NewestAreKept /\ ForgottenIsGone /\ GoneIsRecorded

-----------------------------------------------------------------------------
(* Types and helpers.                                                      *)

LEMMA Types ==
    TypeOK <=> /\ op \in [Ops -> OpType] /\ row \in RowType /\ resticLock \in LockType
               /\ snaps \subseteq made /\ recorded \subseteq made /\ made \subseteq Ops
               /\ forgotten \subseteq Ops /\ asked \subseteq Ops
BY DEF TypeOK, OpType, RowType, LockType

LEMMA TypesNext ==
    TypeOK' <=> /\ op' \in [Ops -> OpType] /\ row' \in RowType /\ resticLock' \in LockType
                /\ snaps' \subseteq made' /\ recorded' \subseteq made' /\ made' \subseteq Ops
                /\ forgotten' \subseteq Ops /\ asked' \subseteq Ops
BY DEF TypeOK, OpType, RowType, LockType

LEMMA NoOpType == NoOp \in OpType /\ NoOp.kind = "none" /\ NoOp.at = "none"
BY DEF NoOp, OpType, Points, Over

\* An operation that is anywhere has begun.
LEMMA Begun ==
    ASSUME IInv, NEW i \in Ops, op[i].at # "none"
    PROVE  op[i] \in OpType /\ op[i].kind # "none" /\ op[i].kind \in Kinds /\ Fits(i)
BY NoOpType, Types DEF IInv, OpsFit, Fits, OpType

LEMMA RankGrows ==
    ASSUME NEW s, NEW T \in SUBSET Ops, NEW S \in SUBSET T
    PROVE  Rank(s, S) \in Nat /\ Rank(s, T) \in Nat /\ Rank(s, S) <= Rank(s, T)
<1>1. IsFiniteSet(Ops)
    BY ConstantsAssumption, FS_Interval DEF Ops
<1>2. {r \in T : r > s} \subseteq Ops /\ {r \in S : r > s} \subseteq {r \in T : r > s}
    OBVIOUS
<1>3. IsFiniteSet({r \in T : r > s})
    BY <1>1, <1>2, FS_Subset
<1>4. /\ IsFiniteSet({r \in S : r > s})
      /\ Cardinality({r \in S : r > s}) <= Cardinality({r \in T : r > s})
    BY <1>2, <1>3, FS_Subset
<1> QED
    BY <1>3, <1>4, FS_CardinalityType DEF Rank

LEMMA KeepLastType == \A t \in Tasks : KeepLast(t) \in Nat
BY ConstantsAssumption DEF KeepLast

-----------------------------------------------------------------------------
(* What a step must leave alone.                                           *)

LEMMA TurnsStay ==
    ASSUME IInv, \A j \in Ops : op'[j].proc = op[j].proc, \A j \in Ops : Holds(j)' => Holds(j)
    PROVE  OneTurn'
BY DEF IInv, OneTurn

LEMMA KeptStay ==
    ASSUME IInv, UNCHANGED <<snaps, made>>, asked \subseteq asked',
           \A r \in made : op'[r].task = op[r].task
    PROVE  NewestAreKept'
<1> SUFFICES ASSUME NEW s \in made \ asked,
                    \A t \in Tasks : PathOf[t] = PathOf[op[s].task] =>
                       Rank(s, {r \in made : PathOf[op'[r].task] = PathOf[op[s].task]}) < KeepLast(t)
             PROVE  s \in snaps
    BY DEF NewestAreKept
<1>1. {r \in made : PathOf[op'[r].task] = PathOf[op[s].task]}
      = {r \in made : PathOf[op[r].task] = PathOf[op[s].task]}
    OBVIOUS
<1> QED
    BY <1>1 DEF IInv, NewestAreKept

\* An operation goes on, and the repository and what is known of it stay.
LEMMA GoesOn ==
    ASSUME IInv, NEW i \in Ops, NEW at \in Points, At(i, at), op[i].at # "none",
           op[i].at \notin {"recording", "dead"} \/ op[i].removed = {},
           at \in InCall => op[i].at \in InCall,
           at \in OfBackups => op[i].kind = "backup",
           at \in BeforeSnapshot => op[i].at \in BeforeSnapshot \/ op[i].kind # "backup",
           at \in AfterSnapshot /\ op[i].kind = "backup" => i \in made,
           row' \in RowType, resticLock' \in LockType,
           \A j \in Ops : row'[j] # row[j] => j = i,
           row'[i] = "InProgress" => Holds(i) \/ row'[i] = row[i],
           UNCHANGED <<snaps, forgotten, made, asked>>, recorded' \subseteq made
    PROVE  IInv'
<1> DEFINE new == [op[i] EXCEPT !.at = at]
<1>1. op \in [Ops -> OpType] /\ Fits(i) /\ op[i].kind # "none" /\ op[i].kind \in Kinds
    BY Types, Begun DEF IInv
<1>2. op' = [op EXCEPT ![i] = new]
    BY <1>1 DEF At, OpType
<1>3. /\ new \in OpType /\ new.at = at /\ new.kind = op[i].kind /\ new.proc = op[i].proc
      /\ new.task = op[i].task /\ new.target = op[i].target /\ new.removed = op[i].removed
      /\ new.alive = op[i].alive
    BY <1>1 DEF OpType
<1> HIDE DEF new
<1>4. op' \in [Ops -> OpType] /\ op'[i] = new /\ \A j \in Ops : j # i => op'[j] = op[j]
    BY <1>1, <1>2, <1>3
<1>5. TypeOK'
    BY <1>4, Types, TypesNext DEF IInv
<1>6. OneTurn'
  <2>1. ASSUME NEW j \in Ops, Holds(j)' PROVE Holds(j)
    <3>1. CASE j = i
      <4>1. new # NoOp
          BY <1>1, <1>3, NoOpType
      <4>2. op[i] # NoOp
          BY <1>1, NoOpType
      <4> QED
          BY <1>3, <1>4, <2>1, <3>1, <4>1, <4>2 DEF Holds, Gone
    <3>2. CASE j # i
        BY <1>4, <2>1, <3>2 DEF Holds, Gone
    <3> QED
        BY <3>1, <3>2
  <2> QED
      BY <1>3, <1>4, <2>1, TurnsStay
<1>7. ASSUME NEW j \in Ops PROVE Fits(j)'
  <2>1. CASE j = i
      BY <1>1, <1>3, <1>4, <2>1 DEF Fits
  <2>2. CASE j # i
    <3>1. Fits(j)
        BY DEF IInv, OpsFit
    <3> QED
        BY <1>4, <2>2, <3>1 DEF Fits
  <2> QED
      BY <2>1, <2>2
<1>8. NewestAreKept'
    BY <1>3, <1>4, Types, KeptStay DEF IInv
<1>9. ForgottenIsGone' /\ GoneIsRecorded'
    BY <1>3, <1>4 DEF IInv, ForgottenIsGone, GoneIsRecorded
<1> QED
    BY <1>5, <1>6, <1>7, <1>8, <1>9 DEF IInv, OpsFit

-----------------------------------------------------------------------------
LEMMA InitIInv == Init => IInv
<1> SUFFICES ASSUME Init PROVE IInv
    OBVIOUS
<1>1. op = [i \in Ops |-> NoOp] /\ snaps = {} /\ recorded = {} /\ forgotten = {} /\ made = {}
      /\ row = [i \in Ops |-> "none"] /\ resticLock = [i \in Ops |-> "none"] /\ asked = {}
    BY DEF Init
<1>2. op \in [Ops -> OpType] /\ row \in RowType /\ resticLock \in LockType
    BY <1>1, NoOpType DEF RowType, LockType
<1>3. TypeOK
    BY <1>1, <1>2, Types
<1>4. OneTurn
    BY <1>1, NoOpType DEF OneTurn, Holds, InCall
<1>5. OpsFit
    BY <1>1 DEF OpsFit, Fits, NoOp, OfBackups, AfterSnapshot
<1>6. NewestAreKept /\ ForgottenIsGone /\ GoneIsRecorded
    BY <1>1 DEF NewestAreKept, ForgottenIsGone, GoneIsRecorded
<1> QED
    BY <1>3, <1>4, <1>5, <1>6 DEF IInv

-----------------------------------------------------------------------------
(* Operations begin.                                                       *)

LEMMA BeginKeepsIInv ==
    ASSUME IInv, NEW i \in Ops, NEW p \in Procs, NEW kind, NEW t \in Tasks \cup {None},
           NEW target \in Ops \cup {None}, NEW at \in Points,
           Begin(i, p, kind, t, target, at),
           at \notin OfBackups \cup AfterSnapshot,
           kind = "backup" => t \in Tasks, kind # "delete" => target = None,
           kind = "delete" => target \in made \cap asked',
           asked \subseteq asked', asked' \subseteq Ops
    PROVE  IInv'
<1> DEFINE new == [kind |-> kind, at |-> at, proc |-> p, task |-> t, target |-> target,
                   removed |-> {}, alive |-> TRUE]
<1>1. /\ op[i] = NoOp /\ Idle(p) /\ kind \in Kinds /\ ~Locked
      /\ op' = [op EXCEPT ![i] = new] /\ row' = Recovered
      /\ UNCHANGED <<resticLock, snaps, recorded, forgotten, made>>
    BY DEF Begin, IsNext
<1>2. /\ op \in [Ops -> OpType] /\ row \in RowType /\ \A j \in Ops : Fits(j)
      /\ made \subseteq Ops
    BY Types DEF IInv, OpsFit
<1>3. /\ new.kind = kind /\ new.at = at /\ new.proc = p /\ new.task = t /\ new.target = target
      /\ new.removed = {}
    OBVIOUS
<1>4. new \in OpType
    BY <1>1 DEF OpType
<1> HIDE DEF new
<1>5. op' \in [Ops -> OpType] /\ op'[i] = new /\ \A j \in Ops : j # i => op'[j] = op[j]
    BY <1>1, <1>2, <1>4
<1>6. i \notin made /\ row[i] = "none" /\ op[i].removed = {} /\ kind # "none"
    BY <1>1, <1>2, ConstantsAssumption, NoOpType DEF Fits, Maintenance, NoOp
<1>7. row' \in RowType /\ \A j \in Ops : row'[j] # "InProgress" /\ (row[j] = "none" => row'[j] = "none")
    BY <1>1, <1>2 DEF Recovered, RowType, Locked
<1>8. TypeOK'
    BY <1>1, <1>5, <1>7, Types, TypesNext DEF IInv
<1>9. OneTurn'
  <2>1. ASSUME NEW j \in Ops, Holds(j)' PROVE j = i \/ (Holds(j) /\ op[j].at \in InCall)
      BY <1>5, <1>7, <2>1 DEF Holds
  <2>2. \A j \in Ops : op[j].at \in InCall => op[j].proc # p
      BY <1>1 DEF Idle
  <2> QED
      BY <1>3, <1>5, <2>1, <2>2 DEF IInv, OneTurn
<1>10. ASSUME NEW j \in Ops PROVE Fits(j)'
  <2>1. CASE j = i
      BY <1>1, <1>3, <1>5, <1>6, <2>1 DEF Fits
  <2>2. CASE j # i
      BY <1>1, <1>2, <1>5, <1>7, <2>2 DEF Fits
  <2> QED
      BY <2>1, <2>2
<1>11. NewestAreKept'
    BY <1>1, <1>2, <1>5, <1>6, KeptStay
<1>12. ForgottenIsGone' /\ GoneIsRecorded'
    BY <1>1, <1>5, <1>6 DEF IInv, ForgottenIsGone, GoneIsRecorded
<1> QED
    BY <1>8, <1>9, <1>10, <1>11, <1>12 DEF IInv, OpsFit

LEMMA BeginningsKeepIInv ==
    ASSUME IInv, NEW i \in Ops, NEW p \in Procs,
           \/ \E t \in Tasks : BeginBackup(i, p, t)
           \/ \E kind \in Maintenance : BeginMaintenance(i, p, kind)
           \/ \E target \in Ops : BeginDelete(i, p, target)
           \/ BeginReplicate(i, p)
    PROVE  IInv'
<1>0. asked \subseteq Ops /\ recorded \subseteq made
    BY Types DEF IInv
<1>1. {"checked", "starting", "preparing"} \subseteq Points \ (OfBackups \cup AfterSnapshot)
    BY DEF Points, OfBackups, AfterSnapshot, InCall
<1>2. CASE \E t \in Tasks : BeginBackup(i, p, t)
    BY <1>0, <1>1, <1>2, BeginKeepsIInv DEF BeginBackup
<1>3. CASE \E kind \in Maintenance : BeginMaintenance(i, p, kind)
    BY <1>0, <1>1, <1>3, BeginKeepsIInv DEF BeginMaintenance, Maintenance
<1>4. CASE \E target \in Ops : BeginDelete(i, p, target)
  <2>1. PICK target \in Ops : BeginDelete(i, p, target)
      BY <1>4
  <2>2. target \in made \cap asked' /\ asked \subseteq asked' /\ asked' \subseteq Ops
        /\ Begin(i, p, "delete", None, target, "starting")
      BY <1>0, <2>1 DEF BeginDelete
  <2> QED
      BY <1>1, <2>2, BeginKeepsIInv
<1>5. CASE BeginReplicate(i, p)
    BY <1>0, <1>1, <1>5, BeginKeepsIInv DEF BeginReplicate
<1> QED
    BY <1>2, <1>3, <1>4, <1>5

-----------------------------------------------------------------------------
(* Operations go on.                                                       *)

LEMMA PointsAre ==
    {"none", "checked", "inserted", "preparing", "starting", "retrying", "restic", "finishing",
     "recorded", "retention", "retentionRetry", "forgetting", "recording", "syncing", "done",
     "dead"} \subseteq Points
BY DEF Points, InCall, Running, Over

\* What is known of an operation at a point at which it goes on.
LEMMA Going ==
    ASSUME IInv, NEW i \in Ops, op[i].at \notin {"none", "recording", "dead"}
    PROVE  /\ op[i].removed = {} /\ op[i].kind # "none" /\ Fits(i)
           /\ op[i].at \in OfBackups => op[i].kind = "backup"
           /\ row \in RowType /\ resticLock \in LockType /\ recorded \subseteq made
BY Begun, Types DEF Fits, IInv

LEMMA RowStepsKeepIInv ==
    ASSUME IInv, NEW i \in Ops, InsertRow(i) \/ SetRunning(i) \/ MarkFinished(i)
    PROVE  IInv'
<1>1. CASE InsertRow(i)
  <2>1. op[i].at = "checked" /\ UNCHANGED <<resticLock, snaps, recorded, forgotten, made, asked>>
      BY <1>1 DEF InsertRow, RepositoryUnchanged
  <2>2. Holds(i)
      BY <2>1 DEF Holds, InCall
  <2>3. PICK at \in {"inserted", "starting"} :
            At(i, at) /\ row' \in {[row EXCEPT ![i] = "Pending"], [row EXCEPT ![i] = "InProgress"]}
      BY <1>1 DEF InsertRow
  <2>4. row' \in RowType /\ \A j \in Ops : row'[j] # row[j] => j = i
      BY <2>1, <2>3, Going DEF RowType
  <2> QED
      BY <2>1, <2>2, <2>3, <2>4, Going, GoesOn, PointsAre
         DEF InCall, OfBackups, BeforeSnapshot, AfterSnapshot
<1>2. CASE SetRunning(i)
  <2>1. op[i].at = "inserted" /\ UNCHANGED <<resticLock, snaps, recorded, forgotten, made, asked>>
        /\ At(i, "preparing") /\ row' = [row EXCEPT ![i] = "InProgress"]
      BY <1>2 DEF SetRunning, RepositoryUnchanged
  <2>2. Holds(i)
      BY <2>1 DEF Holds, InCall
  <2>3. row' \in RowType /\ \A j \in Ops : row'[j] # row[j] => j = i
      BY <2>1, Going DEF RowType
  <2> QED
      BY <2>1, <2>2, <2>3, Going, GoesOn, PointsAre
         DEF InCall, OfBackups, BeforeSnapshot, AfterSnapshot
<1>3. CASE MarkFinished(i)
  <2>1. op[i].at = "recorded" /\ UNCHANGED <<resticLock, snaps, recorded, forgotten, made, asked>>
        /\ At(i, "retention") /\ row' = [row EXCEPT ![i] = "Finished"]
      BY <1>3 DEF MarkFinished, RepositoryUnchanged
  <2>2. row' \in RowType /\ row'[i] # "InProgress" /\ \A j \in Ops : row'[j] # row[j] => j = i
      BY <2>1, Going DEF RowType
  <2> QED
      BY <2>1, <2>2, Going, GoesOn, PointsAre
         DEF InCall, OfBackups, BeforeSnapshot, AfterSnapshot
<1> QED
    BY <1>1, <1>2, <1>3

\* After a failure an operation is over, but for the retention pass of a backup.
LEMMA FailureIs ==
    ASSUME IInv, NEW i \in Ops, AfterFailure(i), row \in RowType
    PROVE  /\ At(i, "done") \/ (op[i].kind = "backup" /\ At(i, "retention"))
           /\ row' \in {row, [row EXCEPT ![i] = "Failed"], [row EXCEPT ![i] = "Finished"]}
           /\ row' \in RowType /\ (row'[i] = "InProgress" => row'[i] = row[i])
           /\ \A j \in Ops : row'[j] # row[j] => j = i
<1>1. /\ At(i, "done") \/ (op[i].kind = "backup" /\ At(i, "retention"))
      /\ row' \in {row, [row EXCEPT ![i] = "Failed"], [row EXCEPT ![i] = "Finished"]}
  <2>1. CASE op[i].kind = "backup"
      BY <2>1 DEF AfterFailure
  <2>2. CASE op[i].kind = "prune"
      BY <2>2 DEF AfterFailure
  <2>3. CASE op[i].kind = "check"
      BY <2>3 DEF AfterFailure
  <2>4. CASE op[i].kind \notin {"backup", "prune", "check"}
      BY <2>4 DEF AfterFailure
  <2> QED
      BY <2>1, <2>2, <2>3, <2>4
<1>2. /\ row' \in RowType /\ (row'[i] = "InProgress" => row'[i] = row[i])
      /\ \A j \in Ops : row'[j] # row[j] => j = i
    BY <1>1 DEF RowType
<1> QED
    BY <1>1, <1>2

LEMMA FailureKeepsIInv ==
    ASSUME IInv, NEW i \in Ops, op[i].at \notin {"none", "recording", "dead"}, AfterFailure(i),
           resticLock' \in LockType, RepositoryUnchanged
    PROVE  IInv'
<1>1. PICK at \in {"done", "retention"} :
          At(i, at) /\ (at = "retention" => op[i].kind = "backup")
    BY Going, FailureIs
<1>2. /\ row' \in RowType /\ (row'[i] = "InProgress" => row'[i] = row[i])
      /\ \A j \in Ops : row'[j] # row[j] => j = i
    BY Going, FailureIs
<1> QED
    BY <1>1, <1>2, Going, GoesOn, PointsAre
       DEF InCall, OfBackups, BeforeSnapshot, AfterSnapshot, RepositoryUnchanged

LEMMA UnlockedType == ASSUME resticLock \in LockType PROVE Unlocked \in LockType
BY DEF Unlocked, LockType

LEMMA WaitStepsKeepIInv ==
    ASSUME IInv, NEW i \in Ops,
           \/ Prepared(i) \/ SyncEnds(i) \/ Fails(i) \/ ResticStarts(i) \/ ResticLocked(i)
           \/ ForgetStarts(i) \/ ForgetLocked(i) \/ Recorded(i)
    PROVE  IInv'
<1>1. CASE Prepared(i)
  <2>1. PICK at \in {"syncing", "starting"} : At(i, at)
      BY <1>1 DEF Prepared
  <2> QED
      BY <1>1, <2>1, Going, GoesOn, PointsAre
         DEF Prepared, InCall, OfBackups, BeforeSnapshot, AfterSnapshot, RepositoryUnchanged
<1>2. CASE SyncEnds(i)
    BY <1>2, Going, GoesOn, PointsAre
       DEF SyncEnds, InCall, OfBackups, BeforeSnapshot, AfterSnapshot, RepositoryUnchanged
<1>3. CASE Fails(i)
  <2>1. op[i].at \notin {"none", "recording", "dead"} /\ AfterFailure(i) /\ RepositoryUnchanged
        /\ resticLock' = [resticLock EXCEPT ![i] = "none"]
      BY <1>3 DEF Fails
  <2>2. resticLock' \in LockType
      BY <2>1, Going DEF LockType
  <2> QED
      BY <2>1, <2>2, FailureKeepsIInv
<1>4. ASSUME NEW at \in Points, Takes(i, at), op[i].at \notin {"none", "recording", "dead"}
      PROVE  /\ At(i, at) /\ resticLock' \in LockType
             /\ UNCHANGED <<row, snaps, recorded, forgotten, made, asked>>
  <2>1. Mode(i) \in {"shared", "exclusive"}
      BY DEF Mode
  <2> QED
      BY <1>4, <2>1, Going DEF Takes, LockType, RepositoryUnchanged
<1>5. CASE ResticStarts(i)
    BY <1>4, <1>5, Going, GoesOn, PointsAre
       DEF ResticStarts, InCall, OfBackups, BeforeSnapshot, AfterSnapshot
<1>6. CASE ForgetStarts(i)
    BY <1>4, <1>6, Going, GoesOn, PointsAre
       DEF ForgetStarts, InCall, OfBackups, BeforeSnapshot, AfterSnapshot
<1>7. CASE ResticLocked(i)
  <2>1. op[i].at \in {"starting", "retrying"} /\ RepositoryUnchanged
      BY <1>7 DEF ResticLocked
  <2>2. CASE At(i, "retrying") /\ resticLock' = Unlocked /\ UNCHANGED row
      BY <2>1, <2>2, Going, UnlockedType, GoesOn, PointsAre
         DEF InCall, OfBackups, BeforeSnapshot, AfterSnapshot, RepositoryUnchanged
  <2>3. CASE AfterFailure(i) /\ UNCHANGED resticLock
      BY <2>1, <2>3, Going, FailureKeepsIInv
  <2> QED
      BY <1>7, <2>2, <2>3 DEF ResticLocked
<1>8. CASE ForgetLocked(i)
  <2>1. PICK at \in {"retentionRetry", "done"} : At(i, at)
      BY <1>8 DEF ForgetLocked
  <2>2. op[i].at \in {"retention", "retentionRetry"} /\ resticLock' \in {Unlocked, resticLock}
        /\ UNCHANGED row /\ RepositoryUnchanged
      BY <1>8 DEF ForgetLocked
  <2> QED
      BY <2>1, <2>2, Going, UnlockedType, GoesOn, PointsAre
         DEF InCall, OfBackups, BeforeSnapshot, AfterSnapshot, RepositoryUnchanged
<1>9. CASE Recorded(i)
    BY <1>9, Types, GoesOn, PointsAre
       DEF Recorded, InCall, OfBackups, BeforeSnapshot, AfterSnapshot, RepositoryUnchanged, IInv
<1> QED
    BY <1>1, <1>2, <1>3, <1>5, <1>6, <1>7, <1>8, <1>9

LEMMA RecordSummaryKeepsIInv == ASSUME IInv, NEW i \in Ops, RecordSummary(i) PROVE IInv'
<1>1. op[i].at = "finishing" /\ UNCHANGED <<resticLock, snaps, forgotten, made, asked>>
    BY DEF RecordSummary
<1>2. CASE op[i].kind = "backup"
  <2>1. i \in made
      BY <1>1, <1>2, Going DEF Fits, AfterSnapshot
  <2>2. At(i, "recorded") /\ recorded' = recorded \cup {i} /\ UNCHANGED row
      BY <1>2 DEF RecordSummary
  <2> QED
      BY <1>1, <1>2, <2>1, <2>2, Going, GoesOn, PointsAre
         DEF InCall, OfBackups, BeforeSnapshot, AfterSnapshot
<1>3. CASE op[i].kind # "backup"
  <2>1. At(i, "done") /\ row' = [row EXCEPT ![i] = "Finished"] /\ UNCHANGED recorded
      BY <1>3 DEF RecordSummary
  <2>2. row' \in RowType /\ row'[i] # "InProgress" /\ \A j \in Ops : row'[j] # row[j] => j = i
      BY <1>1, <2>1, Going DEF RowType
  <2> QED
      BY <1>1, <2>1, <2>2, Going, GoesOn, PointsAre
         DEF InCall, OfBackups, BeforeSnapshot, AfterSnapshot
<1> QED
    BY <1>2, <1>3

-----------------------------------------------------------------------------
(* What restic does to the repository.                                     *)

\* A snapshot that a retention pass may take is not one of those to keep.
NotKept(s) ==
    \E t \in Tasks :
       /\ PathOf[t] = PathOf[op[s].task]
       /\ Rank(s, {r \in made : PathOf[op[r].task] = PathOf[op[s].task]}) >= KeepLast(t)

LEMMA RemovableIsNotKept ==
    ASSUME IInv, NEW i \in Ops, op[i].kind = "backup", NEW s \in Removable(i)
    PROVE  s \in snaps /\ NotKept(s)
<1> DEFINE path == PathOf[op[i].task]
           own == {r \in snaps : PathOf[op[r].task] = path}
           all == {r \in made : PathOf[op[r].task] = path}
<1>1. snaps \subseteq made /\ made \subseteq Ops /\ op[i].task \in Tasks
    BY Types DEF IInv, OpsFit, Fits
<1>2. s \in own /\ Rank(s, own) >= KeepLast(op[i].task)
    BY DEF Removable
<1>3. Rank(s, own) \in Nat /\ Rank(s, all) \in Nat /\ Rank(s, own) <= Rank(s, all)
    BY <1>1, RankGrows
<1>4. PathOf[op[s].task] = path /\ s \in snaps
    BY <1>2
<1> HIDE DEF own
<1>5. Rank(s, all) >= KeepLast(op[i].task)
    BY <1>1, <1>2, <1>3, KeepLastType
<1> QED
    BY <1>1, <1>4, <1>5 DEF NotKept

\* The restic of i ends: its own snapshot is there, and what it took is gone, asked for or
\* not to be kept.
LEMMA EffectKeepsIInv ==
    ASSUME IInv, NEW i \in Ops, NEW gone, Effect(i, gone), NEW new \in OpType,
           op' = [op EXCEPT ![i] = new],
           op[i].at \in {"restic", "forgetting", "syncing"},
           new.kind = op[i].kind, new.task = op[i].task, new.target = op[i].target,
           new.proc = op[i].proc, new.alive = op[i].alive,
           new.at \in {"finishing", "recording", "dead"},
           op[i].at # "restic" => new.at # "finishing",
           new.removed # {} => new.at # "finishing",
           gone \cap Ops = new.removed, new.removed \subseteq made,
           op[i].kind = "backup" /\ op[i].at = "restic" => new.removed = {},
           \A s \in new.removed \cap snaps : s \in asked \/ NotKept(s)
    PROVE  IInv'
<1>1. /\ op \in [Ops -> OpType] /\ row \in RowType /\ resticLock \in LockType
      /\ snaps \subseteq made /\ made \subseteq Ops /\ \A j \in Ops : Fits(j)
      /\ recorded \subseteq made /\ forgotten \subseteq Ops /\ asked \subseteq Ops
    BY Types DEF IInv, OpsFit
<1>2. op[i].kind # "none" /\ Fits(i) /\ op[i].removed = {}
    BY Going
<1> DEFINE own == IF op[i].kind = "backup" /\ op[i].at = "restic" THEN {i} ELSE {}
<1>3. /\ snaps' = (snaps \cup own) \ gone /\ made' = made \cup snaps'
      /\ resticLock' = [resticLock EXCEPT ![i] = "none"]
      /\ UNCHANGED <<row, recorded, forgotten, asked>>
    BY DEF Effect
<1>4. /\ own \subseteq {i} /\ own \cap made = {} /\ own \cap gone = {}
      /\ own # {} => op[i].kind = "backup" /\ new.removed = {}
      /\ op[i].kind = "backup" /\ new.at = "finishing" => own = {i}
    BY <1>2 DEF Fits, BeforeSnapshot
<1> HIDE DEF own
<1>5. /\ snaps' = (snaps \ gone) \cup own /\ made' = made \cup own
      /\ made' \subseteq Ops /\ snaps' \subseteq made' /\ made \subseteq made'
      /\ made' \ snaps' = (made \ snaps) \cup new.removed
    BY <1>1, <1>3, <1>4
<1>6. op' \in [Ops -> OpType] /\ op'[i] = new /\ \A j \in Ops : j # i => op'[j] = op[j]
    BY <1>1
<1>7. TypeOK'
    BY <1>1, <1>3, <1>5, <1>6, TypesNext DEF LockType
<1>8. OneTurn'
  <2>1. ASSUME NEW j \in Ops, Holds(j)' PROVE Holds(j)
    <3>1. CASE j = i
      <4>1. new # NoOp /\ op[i] # NoOp /\ new.at \notin InCall
          BY <1>2, NoOpType DEF InCall
      <4> QED
          BY <1>3, <1>6, <2>1, <3>1, <4>1 DEF Holds, Gone
    <3>2. CASE j # i
        BY <1>3, <1>6, <2>1, <3>2 DEF Holds, Gone
    <3> QED
        BY <3>1, <3>2
  <2> QED
      BY <1>6, <2>1, TurnsStay
<1>9. ASSUME NEW j \in Ops PROVE Fits(j)'
  <2>1. CASE j = i
    <3>1. new.removed \subseteq made' \ snaps'
        BY <1>5
    <3>2. i \in made' => new.kind = "backup" /\ new.at \notin BeforeSnapshot
        BY <1>2, <1>4, <1>5 DEF Fits, BeforeSnapshot, InCall
    <3>3. new.kind = "backup" /\ new.at \in AfterSnapshot => i \in made'
        BY <1>4, <1>5 DEF AfterSnapshot
    <3>4. new.at \notin OfBackups
        BY DEF OfBackups
    <3> QED
        BY <1>2, <1>3, <1>5, <1>6, <2>1, <3>1, <3>2, <3>3, <3>4 DEF Fits
  <2>2. CASE j # i
    <3>1. j \in made' <=> j \in made
        BY <1>4, <1>5, <2>2
    <3>2. op[j].removed \subseteq made' \ snaps'
        BY <1>1, <1>5 DEF Fits
    <3> QED
        BY <1>1, <1>3, <1>5, <1>6, <2>2, <3>1, <3>2 DEF Fits
  <2> QED
      BY <2>1, <2>2
<1>10. ForgottenIsGone'
    BY <1>3, <1>5 DEF IInv, ForgottenIsGone
<1>11. GoneIsRecorded'
  <2>1. ASSUME NEW s \in made' \ snaps'
        PROVE  s \in forgotten \/ \E j \in Ops : s \in op'[j].removed
    <3>1. CASE s \in new.removed
        BY <1>6, <3>1
    <3>2. CASE s \in made \ snaps
      <4>1. s \in forgotten \/ \E j \in Ops : j # i /\ s \in op[j].removed
          BY <1>2, <3>2 DEF IInv, GoneIsRecorded
      <4> QED
          BY <1>6, <4>1
    <3> QED
        BY <1>5, <2>1, <3>1, <3>2
  <2> QED
      BY <1>3, <2>1 DEF GoneIsRecorded
<1>12. NewestAreKept'
  <2>1. SUFFICES ASSUME NEW s \in made' \ asked, s \notin snaps',
                        \A t \in Tasks : PathOf[t] = PathOf[op'[s].task] =>
                           Rank(s, {r \in made' : PathOf[op'[r].task] = PathOf[op'[s].task]})
                              < KeepLast(t)
                 PROVE  FALSE
      BY <1>3 DEF NewestAreKept
  <2>2. s \in made /\ \A r \in made : op'[r].task = op[r].task
      BY <1>1, <1>4, <1>5, <1>6, <2>1
  <2> DEFINE path == PathOf[op[s].task]
             before == {r \in made : PathOf[op[r].task] = path}
             after == {r \in made' : PathOf[op'[r].task] = path}
  <2>3. before \subseteq after /\ after \subseteq Ops
      BY <1>1, <1>5, <2>2
  <2>4. Rank(s, before) \in Nat /\ Rank(s, after) \in Nat /\ Rank(s, before) <= Rank(s, after)
      BY <2>3, RankGrows
  <2>5. \A t \in Tasks : PathOf[t] = path => Rank(s, after) < KeepLast(t)
      BY <2>1, <2>2
  <2> HIDE DEF after
  <2>6. \A t \in Tasks : PathOf[t] = path => Rank(s, before) < KeepLast(t)
      BY <2>4, <2>5, KeepLastType
  <2>7. s \in snaps
      BY <2>1, <2>2, <2>6 DEF IInv, NewestAreKept
  <2>8. s \in new.removed \cap snaps
      BY <1>1, <1>5, <2>1, <2>7
  <2>9. NotKept(s)
      BY <2>1, <2>8
  <2> QED
      BY <2>4, <2>6, <2>9, KeepLastType DEF NotKept
<1> QED
    BY <1>7, <1>8, <1>9, <1>10, <1>11, <1>12 DEF IInv, OpsFit

LEMMA OutsideOps == None \notin Ops
BY ConstantsAssumption

LEMMA ResticEndsKeepsIInv == ASSUME IInv, NEW i \in Ops, ResticEnds(i) PROVE IInv'
<1>1. op[i].at = "restic" /\ Effect(i, {op[i].target})
    BY DEF ResticEnds
<1>2. /\ op[i] \in OpType /\ op \in [Ops -> OpType] /\ op[i].removed = {} /\ Fits(i)
    BY <1>1, Begun, Going, Types DEF IInv
<1>3. CASE op[i].kind = "delete"
  <2> DEFINE new == [op[i] EXCEPT !.at = "recording", !.removed = {op[i].target}]
  <2>1. op[i].target \in made \cap asked /\ made \subseteq Ops
      BY <1>2, <1>3, Types DEF Fits, IInv
  <2>2. op' = [op EXCEPT ![i] = new]
      BY <1>2, <1>3 DEF ResticEnds, OpType
  <2>3. /\ new \in OpType /\ new.at = "recording" /\ new.removed = {op[i].target}
        /\ new.kind = op[i].kind /\ new.task = op[i].task /\ new.target = op[i].target
        /\ new.proc = op[i].proc /\ new.alive = op[i].alive
      BY <1>2, <2>1, PointsAre DEF OpType
  <2> HIDE DEF new
  <2> DEFINE gone == {op[i].target}
  <2>4. /\ Effect(i, gone) /\ gone \cap Ops = new.removed /\ new.removed \subseteq made
        /\ new.removed \subseteq asked
      BY <1>1, <2>1, <2>3
  <2> HIDE DEF gone
  <2>5. \A s \in new.removed \cap snaps : s \in asked \/ NotKept(s)
      BY <2>4
  <2>6. new.at \in {"finishing", "recording", "dead"} /\ new.at # "finishing"
      BY <2>3
  <2>7. op[i].at \in {"restic", "forgetting", "syncing"} /\ op[i].kind # "backup"
      BY <1>1, <1>3
  <2> QED
      BY <1>1, <2>2, <2>3, <2>4, <2>5, <2>6, <2>7, EffectKeepsIInv
<1>4. CASE op[i].kind # "delete"
  <2> DEFINE new == [op[i] EXCEPT !.at = "finishing"]
  <2>1. op[i].target = None
      BY <1>2, <1>4 DEF Fits
  <2>2. op' = [op EXCEPT ![i] = new]
      BY <1>2, <1>4 DEF ResticEnds, At, OpType
  <2>3. /\ new \in OpType /\ new.at = "finishing" /\ new.removed = {}
        /\ new.kind = op[i].kind /\ new.task = op[i].task /\ new.target = op[i].target
        /\ new.proc = op[i].proc /\ new.alive = op[i].alive
      BY <1>2, PointsAre DEF OpType
  <2> HIDE DEF new
  <2> DEFINE gone == {op[i].target}
  <2>4. /\ Effect(i, gone) /\ gone \cap Ops = new.removed /\ new.removed \subseteq made
      BY <1>1, <2>1, <2>3, OutsideOps
  <2> HIDE DEF gone
  <2>5. \A s \in new.removed \cap snaps : s \in asked \/ NotKept(s)
      BY <2>3
  <2>6. new.at \in {"finishing", "recording", "dead"} /\ new.removed = {}
      BY <2>3
  <2>7. op[i].at \in {"restic", "forgetting", "syncing"} /\ op[i].at = "restic"
      BY <1>1
  <2> QED
      BY <1>1, <2>2, <2>3, <2>4, <2>5, <2>6, <2>7, EffectKeepsIInv
<1> QED
    BY <1>3, <1>4

LEMMA ForgetEndsKeepsIInv == ASSUME IInv, NEW i \in Ops, ForgetEnds(i) PROVE IInv'
<1> DEFINE new == [op[i] EXCEPT !.at = "recording", !.removed = Removable(i)]
<1>1. op[i].at = "forgetting" /\ Effect(i, Removable(i))
      /\ op' = [op EXCEPT ![i].at = "recording", ![i].removed = Removable(i)]
    BY DEF ForgetEnds
<1>2. /\ op[i] \in OpType /\ op \in [Ops -> OpType] /\ op[i].kind = "backup"
      /\ snaps \subseteq made /\ made \subseteq Ops
    BY <1>1, Begun, Going, Types DEF IInv, OfBackups
<1>3. Removable(i) \subseteq snaps /\ \A s \in Removable(i) : NotKept(s)
    BY <1>2, RemovableIsNotKept
<1>4. op' = [op EXCEPT ![i] = new]
    BY <1>1, <1>2
<1>5. /\ new \in OpType /\ new.at = "recording" /\ new.removed = Removable(i)
      /\ new.kind = op[i].kind /\ new.task = op[i].task /\ new.target = op[i].target
      /\ new.proc = op[i].proc /\ new.alive = op[i].alive
    BY <1>2, <1>3, PointsAre DEF OpType
<1> HIDE DEF new
<1> DEFINE gone == Removable(i)
<1>6. /\ Effect(i, gone) /\ gone \cap Ops = new.removed /\ new.removed \subseteq made
    BY <1>1, <1>2, <1>3, <1>5
<1> HIDE DEF gone
<1>7. \A s \in new.removed \cap snaps : s \in asked \/ NotKept(s)
    BY <1>3, <1>5
<1>8. new.at \in {"finishing", "recording", "dead"} /\ new.at # "finishing"
    BY <1>5
<1>9. op[i].at \in {"restic", "forgetting", "syncing"} /\ op[i].at # "restic"
    BY <1>1
<1> QED
    BY <1>4, <1>5, <1>6, <1>7, <1>8, <1>9, EffectKeepsIInv

LEMMA OrphanEndsKeepsIInv == ASSUME IInv, NEW i \in Ops, OrphanEnds(i) PROVE IInv'
<1> DEFINE gone == IF op[i].at = "forgetting" THEN Removable(i) ELSE {op[i].target} \ {None}
           new == [op[i] EXCEPT !.at = "dead", !.removed = gone]
<1>1. op[i].at \in {"restic", "forgetting", "syncing"} /\ Effect(i, gone)
      /\ op' = [op EXCEPT ![i].at = "dead", ![i].removed = gone]
    BY DEF OrphanEnds, Running
<1>2. /\ op[i] \in OpType /\ op \in [Ops -> OpType] /\ Fits(i)
      /\ snaps \subseteq made /\ made \subseteq Ops
      /\ op[i].at = "forgetting" => op[i].kind = "backup"
    BY <1>1, Begun, Going, Types DEF IInv, OfBackups
<1>3. gone \subseteq made /\ \A s \in gone : s \in asked \/ NotKept(s)
  <2>1. CASE op[i].at = "forgetting"
      BY <1>2, <2>1, RemovableIsNotKept
  <2>2. CASE op[i].at # "forgetting"
      BY <1>2, <2>2 DEF Fits
  <2> QED
      BY <2>1, <2>2
<1>4. op[i].kind = "backup" /\ op[i].at = "restic" => gone = {}
    BY <1>2 DEF Fits
<1>5. gone \cap Ops = gone
    BY <1>2, <1>3
<1> HIDE DEF gone
<1>6. op' = [op EXCEPT ![i] = new]
    BY <1>1, <1>2
<1>7. /\ new \in OpType /\ new.at = "dead" /\ new.removed = gone
      /\ new.kind = op[i].kind /\ new.task = op[i].task /\ new.target = op[i].target
      /\ new.proc = op[i].proc /\ new.alive = op[i].alive
    BY <1>2, <1>3, PointsAre DEF OpType
<1> HIDE DEF new
<1>8. /\ gone \cap Ops = new.removed /\ new.removed \subseteq made
      /\ op[i].kind = "backup" /\ op[i].at = "restic" => new.removed = {}
    BY <1>3, <1>4, <1>5, <1>7
<1>9. \A s \in new.removed \cap snaps : s \in asked \/ NotKept(s)
    BY <1>3, <1>7
<1>10. new.at \in {"finishing", "recording", "dead"} /\ new.at # "finishing"
    BY <1>7
<1>11. Effect(i, gone) /\ op[i].at \in {"restic", "forgetting", "syncing"}
    BY <1>1
<1> QED
    BY <1>6, <1>7, <1>8, <1>9, <1>10, <1>11, EffectKeepsIInv

-----------------------------------------------------------------------------
(* The trail, the rows and crashes.                                        *)

LEMMA RecordForgottenKeepsIInv ==
    ASSUME IInv, NEW i \in Ops, NEW s \in Ops, RecordForgotten(i, s) PROVE IInv'
<1> DEFINE new == [op[i] EXCEPT !.removed = @ \ {s}]
<1>1. /\ op[i].at = "recording" /\ s \in op[i].removed /\ forgotten' = forgotten \cup {s}
      /\ op' = [op EXCEPT ![i].removed = @ \ {s}]
      /\ UNCHANGED <<row, resticLock, snaps, recorded, made, asked>>
    BY DEF RecordForgotten
<1>2. op[i] \in OpType /\ op \in [Ops -> OpType] /\ Fits(i) /\ op[i].kind # "none"
    BY <1>1, Begun, Types DEF IInv
<1>3. op' = [op EXCEPT ![i] = new]
    BY <1>1, <1>2
<1>4. /\ new \in OpType /\ new.at = op[i].at /\ new.removed = op[i].removed \ {s}
      /\ new.kind = op[i].kind /\ new.task = op[i].task /\ new.target = op[i].target
      /\ new.proc = op[i].proc /\ new.alive = op[i].alive
    BY <1>2 DEF OpType
<1> HIDE DEF new
<1>5. op' \in [Ops -> OpType] /\ op'[i] = new /\ \A j \in Ops : j # i => op'[j] = op[j]
    BY <1>2, <1>3, <1>4
<1>6. TypeOK'
    BY <1>1, <1>5, Types, TypesNext DEF IInv
<1>7. OneTurn'
  <2>1. \A j \in Ops : op'[j].at = op[j].at /\ op'[j].proc = op[j].proc
                       /\ (Gone(j) => Gone(j)')
      BY <1>2, <1>4, <1>5, NoOpType DEF Gone
  <2> QED
      BY <1>1, <2>1, TurnsStay DEF Holds
<1>8. ASSUME NEW j \in Ops PROVE Fits(j)'
  <2>1. CASE j = i
      BY <1>1, <1>2, <1>4, <1>5, <2>1 DEF Fits
  <2>2. CASE j # i
      BY <1>1, <1>5, <2>2 DEF Fits, IInv, OpsFit
  <2> QED
      BY <2>1, <2>2
<1>9. NewestAreKept'
    BY <1>1, <1>4, <1>5, Types, KeptStay DEF IInv
<1>10. ForgottenIsGone'
    BY <1>1, <1>2 DEF IInv, ForgottenIsGone, Fits
<1>11. GoneIsRecorded'
  <2>1. ASSUME NEW r \in made \ snaps
        PROVE  r \in forgotten' \/ \E j \in Ops : r \in op'[j].removed
    <3>1. CASE r \in forgotten \cup {s}
        BY <1>1, <3>1
    <3>2. CASE r \notin forgotten \cup {s}
      <4>1. PICK j \in Ops : r \in op[j].removed
          BY <3>2 DEF IInv, GoneIsRecorded
      <4> QED
          BY <1>4, <1>5, <3>2, <4>1
    <3> QED
        BY <3>1, <3>2
  <2> QED
      BY <1>1, <2>1 DEF GoneIsRecorded
<1> QED
    BY <1>6, <1>7, <1>8, <1>9, <1>10, <1>11 DEF IInv, OpsFit

LEMMA RefusedKeepsIInv == ASSUME IInv, NEW p, Refused(p) PROVE IInv'
<1>1. row' = Recovered /\ UNCHANGED <<op, resticLock, snaps, recorded, forgotten, made, asked>>
    BY DEF Refused
<1>2. row \in RowType
    BY Types DEF IInv
<1>3. row' \in RowType /\ \A j \in Ops : /\ row'[j] = "InProgress" => row[j] = "InProgress"
                                         /\ row[j] = "none" => row'[j] = "none"
    BY <1>1, <1>2 DEF RowType, Recovered
<1>4. TypeOK'
    BY <1>1, <1>3, Types, TypesNext DEF IInv
<1>5. OneTurn'
    BY <1>1, <1>3, TurnsStay DEF Holds, Gone
<1>6. OpsFit'
    BY <1>1, <1>3 DEF IInv, OpsFit, Fits
<1>7. NewestAreKept' /\ ForgottenIsGone' /\ GoneIsRecorded'
    BY <1>1 DEF IInv, NewestAreKept, ForgottenIsGone, GoneIsRecorded
<1> QED
    BY <1>4, <1>5, <1>6, <1>7 DEF IInv

LEMMA DiesKeepsIInv == ASSUME IInv, NEW p \in Procs, Dies(p) PROVE IInv'
<1> DEFINE own == {i \in Ops : op[i].proc = p /\ op[i].alive /\ op[i].at \notin Over}
           children == {i \in own : op[i].at \in Running \cup {"syncing"}}
<1>1. PICK goOn \in SUBSET children :
          op' = [i \in Ops |->
                   IF i \in own
                   THEN [op[i] EXCEPT !.alive = FALSE, !.at = IF i \in goOn THEN @ ELSE "dead"]
                   ELSE op[i]]
    BY DEF Dies
<1>2. UNCHANGED <<row, resticLock, snaps, recorded, forgotten, made, asked>>
    BY DEF Dies, RepositoryUnchanged
<1>3. op \in [Ops -> OpType]
    BY Types DEF IInv
<1>4. \A i \in goOn : op[i].at \in {"restic", "forgetting", "syncing"}
    BY DEF Running
<1>5. \A i \in own : op[i].at # "none"
    BY DEF Over
<1> HIDE DEF own, children
<1>6. ASSUME NEW i \in Ops
      PROVE  /\ op'[i] \in OpType /\ op'[i].kind = op[i].kind /\ op'[i].task = op[i].task
             /\ op'[i].target = op[i].target /\ op'[i].proc = op[i].proc
             /\ op'[i].removed = op[i].removed
             /\ op'[i].at \in {op[i].at, "dead"}
             /\ op'[i].at = "dead" \/ op'[i].at \notin InCall \/ op'[i] = op[i]
             /\ op'[i].alive = op[i].alive \/ (~op'[i].alive /\ op[i].at # "none")
             /\ op[i].at = "none" => op'[i] = op[i]
  <2>1. CASE i \in own
    <3> DEFINE at == IF i \in goOn THEN op[i].at ELSE "dead"
               new == [op[i] EXCEPT !.alive = FALSE, !.at = at]
    <3>1. op'[i] = new
        BY <1>1, <1>3, <2>1
    <3>2. at \in {op[i].at, "dead"} /\ at \in Points /\ op[i] \in OpType
          /\ (at = "dead" \/ at \notin InCall) /\ op[i].at # "none"
        BY <1>3, <1>4, <1>5, <2>1, PointsAre DEF OpType, InCall
    <3> HIDE DEF at
    <3>3. FALSE \in BOOLEAN
        OBVIOUS
    <3>4. new \in OpType
        BY <3>2, <3>3 DEF OpType
    <3>5. new.at = at /\ new.kind = op[i].kind /\ new.task = op[i].task
          /\ new.target = op[i].target /\ new.proc = op[i].proc /\ new.removed = op[i].removed
        BY <3>2 DEF OpType
    <3>6. new.alive = FALSE
        BY <3>2 DEF OpType
    <3> HIDE DEF new
    <3> QED
        BY <3>1, <3>2, <3>4, <3>5, <3>6
  <2>2. CASE i \notin own
      BY <1>1, <1>3, <2>2
  <2> QED
      BY <2>1, <2>2
<1>7. op' \in [Ops -> OpType]
    BY <1>1, <1>6
<1>8. TypeOK'
    BY <1>2, <1>7, Types, TypesNext DEF IInv
<1>9. OneTurn'
  <2>1. ASSUME NEW j \in Ops, Holds(j)' PROVE Holds(j)
    <3>1. CASE op[j].at = "none"
        BY <1>2, <1>6, <2>1, <3>1 DEF Holds, Gone
    <3>2. CASE op[j].at # "none"
      <4>1. op[j] # NoOp /\ op'[j] # NoOp
          BY <1>6, <3>2, Begun, NoOpType
      <4>2. op'[j].at \in InCall => op[j].at \in InCall
          BY <1>6 DEF InCall
      <4>3. Gone(j) => Gone(j)'
          BY <1>6, <4>1 DEF Gone
      <4> QED
          BY <1>2, <2>1, <4>2, <4>3 DEF Holds
    <3> QED
        BY <3>1, <3>2
  <2> QED
      BY <1>6, <2>1, TurnsStay
<1>10. ASSUME NEW j \in Ops PROVE Fits(j)'
  <2>1. Fits(j)
      BY DEF IInv, OpsFit
  <2>2. op[j].kind = "none" => op'[j] = op[j]
      BY <1>6, <2>1, NoOpType DEF Fits
  <2>3. "dead" \notin OfBackups \cup BeforeSnapshot \cup AfterSnapshot
      BY DEF OfBackups, BeforeSnapshot, AfterSnapshot, InCall
  <2> QED
      BY <1>2, <1>6, <2>1, <2>2, <2>3 DEF Fits
<1>11. NewestAreKept'
    BY <1>2, <1>6, Types, KeptStay DEF IInv
<1>12. ForgottenIsGone' /\ GoneIsRecorded'
    BY <1>2, <1>6 DEF IInv, ForgottenIsGone, GoneIsRecorded
<1> QED
    BY <1>8, <1>9, <1>10, <1>11, <1>12 DEF IInv, OpsFit

-----------------------------------------------------------------------------
LEMMA StepKeepsIInv == ASSUME IInv, [Next]_vars PROVE IInv'
<1>1. ASSUME NEW i \in Ops, NEW p \in Procs,
             \/ \E t \in Tasks : BeginBackup(i, p, t)
             \/ \E kind \in Maintenance : BeginMaintenance(i, p, kind)
             \/ \E target \in Ops : BeginDelete(i, p, target)
             \/ BeginReplicate(i, p)
      PROVE  IInv'
    BY <1>1, BeginningsKeepIInv
<1>2. ASSUME NEW i \in Ops, InsertRow(i) \/ SetRunning(i) \/ MarkFinished(i) PROVE IInv'
    BY <1>2, RowStepsKeepIInv
<1>3. ASSUME NEW i \in Ops,
             \/ Prepared(i) \/ SyncEnds(i) \/ Fails(i) \/ ResticStarts(i) \/ ResticLocked(i)
             \/ ForgetStarts(i) \/ ForgetLocked(i) \/ Recorded(i)
      PROVE  IInv'
    BY <1>3, WaitStepsKeepIInv
<1>4. ASSUME NEW i \in Ops, ResticEnds(i) \/ ForgetEnds(i) \/ OrphanEnds(i) PROVE IInv'
    BY <1>4, ResticEndsKeepsIInv, ForgetEndsKeepsIInv, OrphanEndsKeepsIInv
<1>5. ASSUME NEW i \in Ops, RecordSummary(i) PROVE IInv'
    BY <1>5, RecordSummaryKeepsIInv
<1>6. ASSUME NEW i \in Ops, NEW s \in Ops, RecordForgotten(i, s) PROVE IInv'
    BY <1>6, RecordForgottenKeepsIInv
<1>7. ASSUME NEW p \in Procs, Refused(p) \/ Dies(p) PROVE IInv'
    BY <1>7, RefusedKeepsIInv, DiesKeepsIInv
<1>8. CASE UNCHANGED vars
  <2>1. UNCHANGED <<op, row, resticLock, snaps, recorded, forgotten, made, asked>>
      BY <1>8 DEF vars
  <2> QED
      BY <2>1 DEF IInv, TypeOK, OneTurn, Holds, Gone, OpsFit, Fits, NewestAreKept,
                  ForgottenIsGone, GoneIsRecorded
<1> QED
    BY <1>1, <1>2, <1>3, <1>4, <1>5, <1>6, <1>7, <1>8 DEF Next

\* The repository at any time: one turn for each process, snapshots and what removes them
\* in step with the operations (checkRepositoryLock, resticClient and their callers).
THEOREM RepositoryInvariance == Spec => []IInv
<1>1. Init => IInv
    BY InitIInv
<1>2. IInv /\ [Next]_vars => IInv'
    BY StepKeepsIInv
<1> QED
    BY <1>1, <1>2, PTL DEF Spec

\* Of the operations of a process that write a row, one is in progress at a time: the look
\* at the rows and the row that follows are one call without an await
\* (checkRepositoryLock and fileBackupRunsRepo.create).
THEOREM OneOperationAtATime == Spec => []LockInv
<1>1. IInv => LockInv
  <2>1. ASSUME IInv PROVE OneRowAtATime
      BY <2>1 DEF IInv, OneTurn, Holds, OneRowAtATime
  <2> QED
      BY <2>1 DEF IInv, LockInv
<1> QED
    BY <1>1, RepositoryInvariance, PTL

\* Whatever tasks share a repository, and whatever their policies, retention leaves of every
\* folder the newest snapshots that all its tasks want, and one at least
\* (forget with --path and --keep-last, resticClient.ts).
THEOREM RetentionKeepsNewest == Spec => []NewestAreKept
<1>1. IInv => NewestAreKept
    BY DEF IInv
<1> QED
    BY <1>1, RepositoryInvariance, PTL

\* What file_backup_retention_deletions says is gone is gone, and what is gone is there, or
\* will be, or was removed by an operation that died.
THEOREM TrailAgrees == Spec => []AuditTrailAgrees
<1>1. IInv => AuditTrailAgrees
    BY DEF IInv, ForgottenIsGone, GoneIsRecorded, AuditTrailAgrees
<1> QED
    BY <1>1, RepositoryInvariance, PTL

-----------------------------------------------------------------------------
(* What the documents promise, as far as it is so (section 4 of the README).  *)

\* No two tasks back up the same folder.
OneTaskForEachFolder == \A t, u \in Tasks : PathOf[t] = PathOf[u] => t = u

\* What an operation is stays, and what it has removed it has had forgotten by restic.
ItsOwn(i) ==
    /\ op[i].kind # "none" => op'[i].kind = op[i].kind /\ op'[i].task = op[i].task
    /\ op'[i].kind = "backup" =>
          op'[i].removed \subseteq op[i].removed \cup
             (IF op[i].at = "forgetting" THEN Removable(i) ELSE {})

LEMMA RemovedByRestic == ASSUME IInv, [Next]_vars, NEW j \in Ops PROVE ItsOwn(j)
<1>1. op \in [Ops -> OpType] /\ Fits(j) /\ (op[j].kind = "none" => op[j] = NoOp)
    BY Types DEF IInv, OpsFit, Fits
<1>2. ASSUME NEW i, NEW at, At(i, at) PROVE ItsOwn(j)
    BY <1>1, <1>2 DEF At, OpType, ItsOwn
<1>3. ASSUME NEW i \in Ops, AfterFailure(i) PROVE ItsOwn(j)
    BY <1>2, <1>3 DEF AfterFailure
<1>4. ASSUME NEW i \in Ops, NEW p \in Procs,
             \/ \E t \in Tasks : BeginBackup(i, p, t)
             \/ \E kind \in Maintenance : BeginMaintenance(i, p, kind)
             \/ \E target \in Ops : BeginDelete(i, p, target)
             \/ BeginReplicate(i, p)
      PROVE  ItsOwn(j)
  <2>1. PICK kind, t, target, at : Begin(i, p, kind, t, target, at)
      BY <1>4 DEF BeginBackup, BeginMaintenance, BeginDelete, BeginReplicate
  <2> QED
      BY <1>1, <2>1, NoOpType DEF Begin, IsNext, ItsOwn, OpType
<1>5. ASSUME NEW i \in Ops,
             \/ InsertRow(i) \/ SetRunning(i) \/ Prepared(i) \/ SyncEnds(i) \/ Fails(i)
             \/ ResticStarts(i) \/ ResticLocked(i) \/ RecordSummary(i) \/ MarkFinished(i)
             \/ ForgetStarts(i) \/ ForgetLocked(i) \/ Recorded(i)
      PROVE  ItsOwn(j)
    BY <1>2, <1>3, <1>5
       DEF InsertRow, SetRunning, Prepared, SyncEnds, Fails, ResticStarts, ResticLocked, Takes,
           RecordSummary, MarkFinished, ForgetStarts, ForgetLocked, Recorded
<1>6. ASSUME NEW i \in Ops, ResticEnds(i) PROVE ItsOwn(j)
    BY <1>1, <1>2, <1>6 DEF ResticEnds, OpType, ItsOwn
<1>7. ASSUME NEW i \in Ops, ForgetEnds(i) PROVE ItsOwn(j)
    BY <1>1, <1>7 DEF ForgetEnds, OpType, ItsOwn
<1>8. ASSUME NEW i \in Ops, NEW s \in Ops, RecordForgotten(i, s) PROVE ItsOwn(j)
    BY <1>1, <1>8 DEF RecordForgotten, OpType, ItsOwn
<1>9. ASSUME NEW i \in Ops, OrphanEnds(i) PROVE ItsOwn(j)
    BY <1>1, <1>9 DEF OrphanEnds, Fits, OpType, ItsOwn
<1>10. ASSUME NEW p \in Procs, Refused(p) PROVE ItsOwn(j)
    BY <1>10 DEF Refused, ItsOwn
<1>11. ASSUME NEW p \in Procs, Dies(p) PROVE ItsOwn(j)
  <2> DEFINE own == {i \in Ops : op[i].proc = p /\ op[i].alive /\ op[i].at \notin Over}
             children == {i \in own : op[i].at \in Running \cup {"syncing"}}
  <2>1. PICK goOn \in SUBSET children :
            op' = [i \in Ops |->
                     IF i \in own
                     THEN [op[i] EXCEPT !.alive = FALSE, !.at = IF i \in goOn THEN @ ELSE "dead"]
                     ELSE op[i]]
      BY <1>11 DEF Dies
  <2>2. op'[j] = op[j]
        \/ \E at : op'[j] = [op[j] EXCEPT !.alive = FALSE, !.at = at]
    <3> DEFINE at == IF j \in goOn THEN op[j].at ELSE "dead"
    <3>1. CASE j \in own
      <4>1. op'[j] = [op[j] EXCEPT !.alive = FALSE, !.at = at]
          BY <2>1, <3>1
      <4> HIDE DEF at
      <4> QED
          BY <4>1
    <3>2. CASE j \notin own
        BY <2>1, <3>2
    <3> QED
        BY <3>1, <3>2
  <2>3. ASSUME NEW at, op'[j] = [op[j] EXCEPT !.alive = FALSE, !.at = at] PROVE ItsOwn(j)
      BY <1>1, <2>3 DEF OpType, ItsOwn
  <2> QED
      BY <2>2, <2>3 DEF ItsOwn
<1>12. CASE UNCHANGED vars
    BY <1>12 DEF vars, ItsOwn
<1> QED
    BY <1>4, <1>5, <1>6, <1>7, <1>8, <1>9, <1>10, <1>11, <1>12 DEF Next

\* Retention is asked for by folder, not by task: it forgets snapshots of its own task only,
\* as the documents say, if no two tasks of a repository share a folder
\* (forget with --path, resticClient.ts).
THEOREM RetentionForgetsItsOwn == ASSUME OneTaskForEachFolder PROVE Spec => []ForgetsItsOwn
<1>1. Init => ForgetsItsOwn
    BY DEF Init, NoOp, ForgetsItsOwn
<1>2. ASSUME IInv, ForgetsItsOwn, [Next]_vars PROVE ForgetsItsOwn'
  <2>1. SUFFICES ASSUME NEW i \in Ops, op'[i].kind = "backup", NEW s \in op'[i].removed
                 PROVE  op'[s].task = op'[i].task
      BY DEF ForgetsItsOwn
  <2>2. /\ Fits(i) /\ op \in [Ops -> OpType] /\ snaps \subseteq made /\ made \subseteq Ops
      BY <1>2, Types DEF IInv, OpsFit
  <2>3. op[i].removed # {} \/ op[i].at = "forgetting" => op[i].kind # "none"
      BY <2>2, NoOpType DEF Fits, OfBackups, NoOp
  <2>4. /\ op[i].kind = "backup" /\ op'[i].task = op[i].task /\ op[i].task \in Tasks
        /\ s \in op[i].removed \/ (op[i].at = "forgetting" /\ s \in Removable(i))
      BY <1>2, <2>1, <2>2, <2>3, RemovedByRestic DEF ItsOwn, Fits
  <2>5. s \in made
      BY <2>2, <2>4 DEF Removable, Fits
  <2>6. op[s].kind = "backup" /\ op[s].task \in Tasks /\ op'[s].task = op[s].task
      BY <1>2, <2>2, <2>5, RemovedByRestic DEF IInv, OpsFit, Fits, ItsOwn
  <2>7. op[s].task = op[i].task
      BY <1>2, <2>4, <2>6, OneTaskForEachFolder
         DEF OneTaskForEachFolder, ForgetsItsOwn, Removable
  <2> QED
      BY <2>4, <2>6, <2>7
<1> QED
    BY <1>1, <1>2, RepositoryInvariance, PTL DEF Spec

=============================================================================
