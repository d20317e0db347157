-------------------------- MODULE RetentionProofs --------------------------
(***************************************************************************)
(* Proofs about backups that are kept or pruned. BackupFiles: whatever     *)
(* passes, runs, crashes and deletions overlap, a backup that the policy   *)
(* keeps is on disk as it was validated, and nothing valid is fetched      *)
(* twice, for any policy and number of runs. This is true as long as the   *)
(* remote side does not write another dump under an old name and only      *)
(* successful runs are deleted by hand; each of these is a hypothesis of   *)
(* the theorems, as without it they are false.                             *)
(*                                                                         *)
(* VaultBackups, further down: a success in the history can be restored,   *)
(* for any folders, runs and number of files kept.                         *)
(***************************************************************************)
EXTENDS BackupFiles, VaultBackups, FiniteSetTheorems, SequenceTheorems, TLAPS

\* A dump has a name of its own.
NamesAreNew == ReusedNames = {}

\* Only backups of successful runs are deleted by hand.
OnlySuccessesGo == Deletable \subseteq {"Success"}

-----------------------------------------------------------------------------
(* The inductive invariant.                                                *)

\* Where a file may be: on either side, in transit, or on record.
FileOf(r) == [dump |-> row[r].dump, size |-> row[r].size]
Copy(n, f) ==
    \/ f = remote[n] \/ f = disk[n]
    \/ pull.name = n /\ f = pull.got
    \/ \E r \in RunIds : row[r].name = n /\ f = FileOf(r)

Files == File \ {NoFile}

\* A copy has a name that was used; while the remote side is writing a file, no copy
\* of it is complete.
CopiesAreKnown ==
    \A n \in Names, f \in Files : Copy(n, f) =>
       /\ n \in used /\ f.dump \in 1 .. dumps /\ f.size # 0
       /\ f.size \in Sizes => remote[n].size # Partial

\* The copies of a name, and only they, are of one dump, and the complete ones are equal.
OneDumpPerName ==
    \A n, m \in Names, f, g \in Files : Copy(n, f) /\ Copy(m, g) =>
       /\ n = m <=> f.dump = g.dump
       /\ n = m /\ f.size \in Sizes /\ g.size \in Sizes => f = g

\* Rows are used in order, and no two valid backups have one name.
RowsFit ==
    /\ \A r \in RunIds : row[r].status = "Absent" => row[r] = NoRow
    /\ \A r, s \in RunIds : r < s /\ row[r].status = "Absent" => row[s].status = "Absent"
    /\ \A r \in Successes(row) : row[r].size \in Sizes
    /\ \A r, s \in Successes(row) : row[r].name = row[s].name => r = s

\* The pipeline works for the newest row, under a name that no valid backup has; once
\* renamed, its file stays as it is.
PullFits ==
    /\ pull.at = "idle" => pull = NoPull
    /\ pull.at # "idle" =>
          /\ pull.run \in RunIds
          /\ \A x \in RunIds : x > pull.run => row[x].status = "Absent"
          /\ IF pull.at = "validating"
             THEN /\ row[pull.run].status = "Validating" /\ row[pull.run].name = pull.name
                  /\ FileOf(pull.run) = pull.got
             ELSE row[pull.run] = [NoRow EXCEPT !.status = "Running"]
    /\ pull.at = "listing" => pull.name = None
    /\ pull.at = "downloading" => task.strategy = "fetch_existing"
    /\ pull.at \in {"listing", "downloading"} => pull.got = NoFile
    /\ pull.at \notin {"idle", "listing"} => pull.name \in Names
    /\ pull.at \in {"renaming", "renamed", "validating"} => pull.got # NoFile
    /\ pull.at \in {"renamed", "validating"} => disk[pull.name] = pull.got
    /\ \A r \in Successes(row) : row[r].name # pull.name

\* The pass of a run begins when the run has ended; it works on backups that the policy
\* will never keep again, and what was unlinked stays away.
Spent(r) == r \in Successes(row) /\ ~PolicyKeeps(r)
Away(r) == r \in Successes(row) /\ disk[row[r].name] = NoFile

PassesFit ==
    \A r \in RunIds :
       /\ pass[r] # NoPass => row[r].status \in {"Success", "Failed"}
       /\ \A x \in pass[r].todo : Spent(x)
       /\ pass[r].unlinked => pass[r].todo # {} /\ Away(NextOf(r))

HandsFit ==
    \A r \in RunIds :
       /\ hand[r] # "idle" => r \in Successes(row) \cap asked
       /\ hand[r] = "recording" => Away(r)

DeletedAreAway == \A r \in deleted : Away(r)

\* A task that makes its dumps has them in the order of its runs.
DumpsInOrder ==
    task.strategy = "dump" =>
       /\ \A r, s \in Successes(row) : r < s => row[r].dump < row[s].dump
       /\ pull.got # NoFile => \A r \in Successes(row) : row[r].dump < pull.got.dump

IInv ==
    /\ TypeOK /\ CopiesAreKnown /\ OneDumpPerName /\ RowsFit /\ PullFits
    /\ PassesFit /\ HandsFit /\ DeletedAreAway /\ DumpsInOrder /\ KeptIsIntact

-----------------------------------------------------------------------------
(* Types.                                                                  *)

RowType == [status : {"Absent", "Success", "Failed"} \cup InProgress,
            name : Names \cup {None}, size : Sizes \cup {Partial, None},
            dump : 0 .. MaxDumps, day : 0 .. MaxDay]
PullPoints == {"idle", "listing", "downloading", "renaming", "renamed", "validating"}
PullType == [at : PullPoints, run : RunIds \cup {None}, name : Names \cup {None}, got : File]
PassType == [todo : SUBSET RunIds, unlinked : BOOLEAN]

LEMMA Types ==
    TypeOK <=>
       /\ task \in Tasks
       /\ remote \in [Names -> File] /\ disk \in [Names -> File]
       /\ used \subseteq Names /\ dumps \in 0 .. MaxDumps /\ today \in 0 .. MaxDay
       /\ row \in [RunIds -> RowType]
       /\ deleted \subseteq RunIds /\ asked \subseteq RunIds
       /\ pull \in PullType /\ pass \in [RunIds -> PassType]
       /\ hand \in [RunIds -> {"idle", "unlinking", "recording"}]
BY DEF TypeOK, RowType, PullType, PullPoints, PassType

LEMMA TypesNext ==
    /\ task' \in Tasks
    /\ remote' \in [Names -> File] /\ disk' \in [Names -> File]
    /\ used' \subseteq Names /\ dumps' \in 0 .. MaxDumps /\ today' \in 0 .. MaxDay
    /\ row' \in [RunIds -> RowType]
    /\ deleted' \subseteq RunIds /\ asked' \subseteq RunIds
    /\ pull' \in PullType /\ pass' \in [RunIds -> PassType]
    /\ hand' \in [RunIds -> {"idle", "unlinking", "recording"}]
    => TypeOK'
BY DEF TypeOK, RowType, PullType, PullPoints, PassType

LEMMA Values ==
    /\ NoFile \in File /\ NoRow \in RowType /\ NoPull \in PullType /\ NoPass \in PassType
    /\ NoRow.status = "Absent" /\ NoRow.name = None
    /\ NoPull.at = "idle" /\ NoPull.name = None /\ NoPull.got = NoFile
    /\ None \notin Names /\ NoFile.size = 0 /\ 0 \notin Sizes /\ Partial \notin Sizes
    /\ Partial # 0 /\ None \notin RunIds
BY NumbersAssumption, NamesAssumption
   DEF NoFile, NoRow, NoPull, NoPass, File, RowType, PullType, PullPoints, PassType, RunIds

-----------------------------------------------------------------------------
(* The oldest and the newest of a set of runs, and ranks.                  *)

LEMMA RunsAreFinite == \A S \in SUBSET RunIds : IsFiniteSet(S)
<1>1. IsFiniteSet(RunIds)
    BY NumbersAssumption, FS_Interval DEF RunIds
<1> QED
    BY <1>1, FS_Subset

LEMMA OldestExists ==
    ASSUME NEW S \in SUBSET RunIds, S # {} PROVE \E m \in S : \A x \in S : m <= x
<1> DEFINE Below(x) == {y \in S : y < x}
           All == {Below(x) : x \in S}
<1>1. All # {}
    OBVIOUS
<1>2. All \subseteq FiniteSubsetsOf(S)
  <2>1. \A x \in S : Below(x) \subseteq S /\ IsFiniteSet(Below(x))
      BY RunsAreFinite
  <2> QED
      BY <2>1 DEF FiniteSubsetsOf
<1>3. PICK A \in All : \A B \in All : ~(<<B, A>> \in StrictSubsetOrdering(S))
  <2> HIDE DEF All
  <2>1. IsFiniteSet(S)
      BY RunsAreFinite
  <2> QED
      BY <1>1, <1>2, <2>1, FS_StrictSubsetOrderingWellFounded, WFMin
<1>4. PICK m \in S : A = Below(m)
    OBVIOUS
<1>5. ASSUME NEW x \in S, x < m PROVE FALSE
  <2>1. \A y \in S : y < x => y < m
      BY <1>5 DEF RunIds
  <2>2. S \subseteq Nat /\ ~(x < x)
      BY NumbersAssumption DEF RunIds
  <2>3. x \in Below(m) /\ x \notin Below(x) /\ Below(x) \subseteq Below(m)
      BY <1>5, <2>1, <2>2
  <2>4. <<Below(x), A>> \in StrictSubsetOrdering(S)
      BY <1>4, <2>3 DEF StrictSubsetOrdering
  <2> QED
      BY <1>3, <2>4
<1>6. \A x \in S : m <= x
    BY <1>5 DEF RunIds
<1> QED
    BY <1>6

LEMMA NewestExists ==
    ASSUME NEW S \in SUBSET RunIds, S # {} PROVE \E m \in S : \A x \in S : x <= m
<1> DEFINE Mirrored == {MaxRuns + 1 - x : x \in S}
<1>1. Mirrored \subseteq RunIds /\ Mirrored # {}
  <2>1. \A x \in S : MaxRuns + 1 - x \in 1 .. MaxRuns
      BY NumbersAssumption DEF RunIds
  <2> QED
      BY <2>1 DEF RunIds
<1>2. PICK k \in Mirrored : \A y \in Mirrored : k <= y
    BY <1>1, OldestExists
<1>3. PICK m \in S : k = MaxRuns + 1 - m
    OBVIOUS
<1>4. \A x \in S : k <= MaxRuns + 1 - x
    BY <1>2
<1>5. \A x \in S : x <= m
    BY <1>3, <1>4, NumbersAssumption DEF RunIds
<1> QED
    BY <1>5

LEMMA NextIsOne ==
    ASSUME TypeOK, NEW r \in RunIds, pass[r].todo # {}
    PROVE  NextOf(r) \in pass[r].todo
<1>1. pass[r].todo \in SUBSET RunIds
    BY Types DEF PassType
<1>2. \E x \in pass[r].todo : \A y \in pass[r].todo : x <= y
    BY <1>1, OldestExists
<1> QED
    BY <1>2 DEF NextOf

LEMMA RankGrows ==
    ASSUME NEW r, NEW T \in SUBSET RunIds, NEW S \in SUBSET T
    PROVE  Rank(r, S) \in Nat /\ Rank(r, T) \in Nat /\ Rank(r, S) <= Rank(r, T)
<1>1. IsFiniteSet({x \in T : x > r}) /\ {x \in S : x > r} \subseteq {x \in T : x > r}
    BY RunsAreFinite
<1>2. /\ IsFiniteSet({x \in S : x > r})
      /\ Cardinality({x \in S : x > r}) <= Cardinality({x \in T : x > r})
    BY <1>1, FS_Subset
<1> QED
    BY <1>1, <1>2, FS_CardinalityType DEF Rank

LEMMA NewestHasRankZero ==
    ASSUME NEW S \in SUBSET RunIds, NEW r \in S, \A x \in S : x <= r
    PROVE  Rank(r, S) = 0
<1>1. S \subseteq Nat
    BY NumbersAssumption DEF RunIds
<1>2. \A x \in S : ~(x > r)
    BY <1>1
<1>3. {x \in S : x > r} = {}
    BY <1>2
<1> QED
    BY <1>3, FS_EmptySet DEF Rank

\* With more later backups, and on a later day, a policy rejects what it rejected.
LEMMA RejectedStays ==
    ASSUME NEW r \in RunIds, NEW k \in Nat, NEW l \in Nat, k <= l,
           task \in Tasks, task' = task, today \in Nat, today' \in Nat, today <= today',
           NEW old, NEW new, old[r].day \in Nat, new[r].day = old[r].day,
           Rejected(r, k, old)
    PROVE  IF task'.count # None /\ task'.days # None
           THEN (task'.count # None /\ l >= task'.count)
                /\ (task'.days # None /\ new[r].day < today' - task'.days)
           ELSE (task'.count # None /\ l >= task'.count)
                \/ (task'.days # None /\ new[r].day < today' - task'.days)
<1>1. task.count \in Nat \cup {None} /\ task.days \in Nat \cup {None}
    BY TasksAssumption
<1>2. task.count # None /\ k >= task.count => l >= task.count
    BY <1>1
<1>3. task.days # None /\ old[r].day < today - task.days => new[r].day < today' - task.days
    BY <1>1
<1> QED
    BY <1>2, <1>3 DEF Rejected, ViolatesCount, ViolatesDays

-----------------------------------------------------------------------------
(* What stays as long as valid backups stay on record.                     *)

LEMMA BackupsStay ==
    ASSUME IInv, TypeOK', task' = task, today <= today',
           \A r \in Successes(row) : r \in Successes(row') /\ row'[r] = row[r]
    PROVE  /\ \A r \in RunIds : Spent(r) => Spent(r)'
           /\ \A r \in Successes(row) : PolicyKeeps(r)' => PolicyKeeps(r)
<1>1. ASSUME NEW r \in Successes(row), ~PolicyKeeps(r) PROVE ~PolicyKeeps(r)'
  <2>1. /\ r \in RunIds /\ task \in Tasks /\ today \in Nat /\ today' \in Nat
        /\ row[r].day \in Nat /\ row'[r].day = row[r].day
      BY Types, NumbersAssumption DEF IInv, Successes, RowType, TypeOK
  <2> DEFINE S == Successes(row)
             T == Successes(row')
  <2>2. S \subseteq T /\ T \subseteq RunIds
      BY DEF Successes
  <2>3. Rank(r, S) \in Nat /\ Rank(r, T) \in Nat /\ Rank(r, S) <= Rank(r, T)
      BY <2>2, RankGrows
  <2>4. Rank(r, S) # 0 /\ Rejected(r, Rank(r, S), row)
      BY <1>1 DEF PolicyKeeps
  <2> DEFINE k == Rank(r, T)
  <2>5. Rank(r, S) <= k /\ k \in Nat /\ k # 0 /\ Rank(r, S) \in Nat
      BY <2>3, <2>4
  <2> HIDE DEF S, T, k
  <2>6. IF task'.count # None /\ task'.days # None
        THEN (task'.count # None /\ k >= task'.count)
             /\ (task'.days # None /\ row'[r].day < today' - task'.days)
        ELSE (task'.count # None /\ k >= task'.count)
             \/ (task'.days # None /\ row'[r].day < today' - task'.days)
      BY <2>1, <2>4, <2>5, RejectedStays
  <2> SUFFICES ASSUME PolicyKeeps(r)' PROVE FALSE
      OBVIOUS
  <2> QED
      BY <2>5, <2>6 DEF PolicyKeeps, Rejected, ViolatesCount, ViolatesDays, k, T
<1>2. Successes(row)' = Successes(row')
    BY DEF Successes
<1> QED
    BY <1>1, <1>2 DEF Spent

\* The deletions in progress and on record fit, if backups and what is away stay so.
LEMMA DeletionsStay ==
    ASSUME IInv, TypeOK', \A r \in RunIds : Spent(r) => Spent(r)',
           \A r \in RunIds : Away(r) => Away(r)', \A r \in Successes(row) : r \in Successes(row'),
           \A r \in RunIds : row[r].status \in {"Success", "Failed"} => row'[r] = row[r],
           UNCHANGED <<pass, hand, deleted, asked>>
    PROVE  PassesFit' /\ HandsFit' /\ DeletedAreAway'
<1>1. PassesFit /\ HandsFit /\ DeletedAreAway /\ TypeOK
    BY DEF IInv
<1>2. \A r \in RunIds : pass[r].todo \subseteq RunIds
    BY <1>1, Types DEF PassType
<1>3. PassesFit'
  <2>1. ASSUME NEW r \in RunIds, pass[r].unlinked PROVE NextOf(r) \in RunIds /\ NextOf(r)' = NextOf(r)
      BY <1>1, <1>2, <2>1, NextIsOne DEF NextOf, PassesFit
  <2>2. ASSUME NEW r \in RunIds, pass[r] # NoPass
        PROVE  row'[r].status \in {"Success", "Failed"}
      BY <1>1, <2>2 DEF PassesFit
  <2> QED
      BY <1>1, <1>2, <2>1, <2>2 DEF PassesFit
<1>4. HandsFit'
    BY <1>1 DEF HandsFit, Successes
<1>5. DeletedAreAway'
    BY <1>1, Types DEF DeletedAreAway
<1> QED
    BY <1>3, <1>4, <1>5

\* No new copies: what is known of copies stays.
LEMMA CopiesStay ==
    ASSUME IInv, TypeOK', used \subseteq used', dumps <= dumps',
           \A n \in Names : remote'[n].size = Partial => remote[n].size = Partial,
           \A n \in Names, f \in Files : Copy(n, f)' => Copy(n, f)
    PROVE  CopiesAreKnown' /\ OneDumpPerName'
<1>1. CopiesAreKnown /\ OneDumpPerName /\ dumps \in Nat /\ dumps' \in Nat
    BY Types, NumbersAssumption DEF IInv, TypeOK
<1>2. CopiesAreKnown'
    BY <1>1 DEF CopiesAreKnown, Files, File
<1>3. OneDumpPerName'
    BY <1>1 DEF OneDumpPerName
<1> QED
    BY <1>2, <1>3

\* A new dump comes with a new name.
LEMMA NewCopy ==
    ASSUME IInv, TypeOK', NEW n \in Names \ used, NEW file \in Files,
           used' = used \cup {n}, dumps' = dumps + 1,
           file.dump = dumps + 1, file.size # 0, file.size \in Sizes => remote'[n].size # Partial,
           \A m \in Names : m # n => remote'[m] = remote[m],
           \A m \in Names, f \in Files : Copy(m, f)' => Copy(m, f) \/ (m = n /\ f = file)
    PROVE  CopiesAreKnown' /\ OneDumpPerName'
<1>1. CopiesAreKnown /\ OneDumpPerName /\ dumps \in Nat
    BY Types, NumbersAssumption DEF IInv, TypeOK
<1>2. \A f \in Files : f.dump \in Int
    BY NumbersAssumption DEF Files, File
<1>3. \A m \in Names, f \in Files : Copy(m, f) => m # n /\ f.dump < dumps + 1 /\ f.dump >= 1
    BY <1>1, <1>2 DEF CopiesAreKnown
<1>4. CopiesAreKnown'
  <2>1. ASSUME NEW m \in Names, NEW f \in Files, Copy(m, f)'
        PROVE  /\ m \in used' /\ f.dump \in 1 .. dumps' /\ f.size # 0
               /\ f.size \in Sizes => remote'[m].size # Partial
    <3>1. CASE Copy(m, f)
        BY <1>1, <1>2, <1>3, <3>1 DEF CopiesAreKnown
    <3>2. CASE m = n /\ f = file
        BY <1>1, <3>2
    <3> QED
        BY <2>1, <3>1, <3>2
  <2> QED
      BY <2>1 DEF CopiesAreKnown
<1>5. OneDumpPerName'
  <2>1. ASSUME NEW m \in Names, NEW f \in Files, Copy(m, f)',
               NEW k \in Names, NEW g \in Files, Copy(k, g)'
        PROVE  /\ m = k <=> f.dump = g.dump
               /\ m = k /\ f.size \in Sizes /\ g.size \in Sizes => f = g
    <3>1. (Copy(m, f) \/ (m = n /\ f = file)) /\ (Copy(k, g) \/ (k = n /\ g = file))
        BY <2>1
    <3>2. CASE Copy(m, f) /\ Copy(k, g)
        BY <1>1, <3>2 DEF OneDumpPerName
    <3>3. CASE ~(Copy(m, f) /\ Copy(k, g))
        BY <1>1, <1>2, <1>3, <3>1, <3>3
    <3> QED
        BY <3>2, <3>3
  <2> QED
      BY <2>1 DEF OneDumpPerName
<1> QED
    BY <1>4, <1>5

\* The record of a valid backup is one of the copies.
LEMMA SuccessIsCopy ==
    ASSUME IInv, NEW r \in Successes(row)
    PROVE  /\ r \in RunIds /\ row[r].name \in Names /\ row[r].size \in Sizes
           /\ FileOf(r) \in Files /\ Copy(row[r].name, FileOf(r))
           /\ row[r].name \in used /\ row[r].dump \in 1 .. dumps
<1>1. /\ r \in RunIds /\ row[r] \in RowType /\ row[r].name \in Names /\ row[r].size \in Sizes
    BY Types DEF IInv, Successes, RowsFit, RowType
<1>2. FileOf(r) \in Files /\ Copy(row[r].name, FileOf(r))
    BY <1>1, Values DEF FileOf, Files, File, RowType, NoFile, Copy
<1> QED
    BY <1>1, <1>2 DEF IInv, CopiesAreKnown, FileOf

-----------------------------------------------------------------------------
(* The remote side and the calendar.                                       *)

\* Valid backups stay on record and on disk, and the deletions as they are.
LEMMA RecordsStay ==
    ASSUME IInv, TypeOK', today <= today', Successes(row') = Successes(row),
           \A r \in RunIds : row[r].status \in {"Success", "Failed"} => row'[r] = row[r],
           \A r \in Successes(row) : disk'[row[r].name] = disk[row[r].name],
           UNCHANGED <<task, deleted, asked, pass, hand>>
    PROVE  PassesFit' /\ HandsFit' /\ DeletedAreAway' /\ KeptIsIntact'
<1>1. \A r \in Successes(row) : r \in Successes(row') /\ row'[r] = row[r]
    BY DEF Successes
<1>2. /\ \A r \in RunIds : Spent(r) => Spent(r)'
      /\ \A r \in Successes(row) : PolicyKeeps(r)' => PolicyKeeps(r)
    BY <1>1, BackupsStay
<1>3. \A r \in RunIds : Away(r) => Away(r)'
  <2>1. Successes(row)' = Successes(row)
      BY DEF Successes
  <2> QED
      BY <1>1, <2>1 DEF Away
<1>4. PassesFit' /\ HandsFit' /\ DeletedAreAway'
    BY <1>1, <1>2, <1>3, DeletionsStay
<1>5. KeptIsIntact'
  <2>1. KeptIsIntact /\ \A r \in RunIds : PolicyKeeps(r)' => r \in Successes(row)
      BY DEF IInv, PolicyKeeps, Successes
  <2> QED
      BY <1>1, <1>2, <2>1 DEF KeptIsIntact, Intact
<1> QED
    BY <1>4, <1>5

LEMMA RowsStay == ASSUME IInv, row' = row PROVE RowsFit' /\ Successes(row') = Successes(row)
BY DEF IInv, RowsFit, Successes

\* Nothing happens on this machine.
LEMMA HereStays ==
    ASSUME IInv, TypeOK', today <= today',
           UNCHANGED <<task, disk, row, deleted, asked, pull, pass, hand>>
    PROVE  RowsFit' /\ PullFits' /\ PassesFit' /\ HandsFit' /\ DeletedAreAway' /\ DumpsInOrder'
           /\ KeptIsIntact'
<1>1. PullFits /\ DumpsInOrder /\ RowsFit' /\ Successes(row') = Successes(row)
    BY RowsStay DEF IInv
<1>2. PullFits' /\ DumpsInOrder'
    BY <1>1 DEF PullFits, DumpsInOrder, FileOf, Successes
<1> QED
    BY <1>1, <1>2, RecordsStay

LEMMA RemoteStartKeepsIInv ==
    ASSUME NamesAreNew, IInv, NEW n \in Names, RemoteStart(n) PROVE IInv'
<1> DEFINE file == [dump |-> dumps + 1, size |-> Partial]
<1>1. /\ n \in Names \ used /\ dumps < MaxDumps /\ dumps \in Nat
      /\ remote' = [remote EXCEPT ![n] = file] /\ dumps' = dumps + 1 /\ used' = used \cup {n}
      /\ UNCHANGED <<task, today, disk, row, deleted, asked, pull, pass, hand>>
    BY Types, NumbersAssumption DEF IInv, TypeOK, RemoteStart, Fresh, NamesAreNew
<1>2. file \in Files /\ file.dump = dumps + 1 /\ file.size # 0 /\ file.size \notin Sizes
    BY <1>1, Values, NumbersAssumption DEF Files, File, NoFile
<1> HIDE DEF file
<1>3. TypeOK /\ remote \in [Names -> File]
    BY Types DEF IInv
<1>4. TypeOK'
    BY <1>1, <1>2, <1>3, Types, TypesNext, NumbersAssumption DEF Files
<1>5. \A m \in Names, f \in Files : Copy(m, f)' => Copy(m, f) \/ (m = n /\ f = file)
    BY <1>1, <1>3 DEF Copy, FileOf
<1>6. CopiesAreKnown' /\ OneDumpPerName'
  <2>1. \A m \in Names : m # n => remote'[m] = remote[m]
      BY <1>1, <1>3
  <2> QED
      BY <1>1, <1>2, <1>4, <1>5, <2>1, NewCopy
<1>7. today <= today'
    BY <1>1, <1>3, NumbersAssumption DEF TypeOK
<1> QED
    BY <1>1, <1>4, <1>6, <1>7, HereStays DEF IInv

LEMMA RemoteCompleteKeepsIInv ==
    ASSUME IInv, NEW n \in Names, NEW s \in Sizes, RemoteComplete(n, s) PROVE IInv'
<1> DEFINE file == [remote[n] EXCEPT !.size = s]
<1>1. /\ remote[n].size = Partial /\ remote' = [remote EXCEPT ![n].size = s]
      /\ UNCHANGED <<task, used, dumps, today, disk, row, deleted, asked, pull, pass, hand>>
    BY DEF RemoteComplete
<1>2. TypeOK /\ remote \in [Names -> File] /\ remote[n] \in Files /\ Copy(n, remote[n])
    BY <1>1, Types, Values DEF IInv, Files, Copy
<1>3. /\ remote' = [remote EXCEPT ![n] = file] /\ file \in Files /\ file.size = s
      /\ file.dump = remote[n].dump
    BY <1>1, <1>2, Values DEF Files, File, NoFile
<1> HIDE DEF file
<1>4. TypeOK'
    BY <1>1, <1>2, <1>3, Types, TypesNext DEF Files
<1>5. \A m \in Names, f \in Files : Copy(m, f)' => Copy(m, f) \/ (m = n /\ f = file)
    BY <1>1, <1>2, <1>3 DEF Copy, FileOf
<1>6. CopiesAreKnown /\ OneDumpPerName /\ s # Partial /\ s # 0
    BY Values DEF IInv
<1>7. /\ remote'[n] = file /\ \A m \in Names : m # n => remote'[m] = remote[m]
    BY <1>2, <1>3
<1>8. CopiesAreKnown'
  <2>1. ASSUME NEW m \in Names, NEW f \in Files, Copy(m, f)'
        PROVE  /\ m \in used /\ f.dump \in 1 .. dumps /\ f.size # 0
               /\ f.size \in Sizes => remote'[m].size # Partial
    <3>1. CASE Copy(m, f)
        BY <1>3, <1>6, <1>7, <3>1 DEF CopiesAreKnown
    <3>2. CASE m = n /\ f = file
        BY <1>2, <1>3, <1>6, <1>7, <3>2 DEF CopiesAreKnown
    <3> QED
        BY <1>5, <2>1, <3>1, <3>2
  <2> QED
      BY <1>1, <2>1 DEF CopiesAreKnown
<1>9. OneDumpPerName'
  <2>1. \A f \in Files : Copy(n, f) => f.size \notin Sizes
      BY <1>1, <1>6 DEF CopiesAreKnown
  <2>2. ASSUME NEW m \in Names, NEW f \in Files, Copy(m, f)',
               NEW k \in Names, NEW g \in Files, Copy(k, g)'
        PROVE  /\ m = k <=> f.dump = g.dump
               /\ m = k /\ f.size \in Sizes /\ g.size \in Sizes => f = g
    <3>1. PICK h \in Files : Copy(m, h) /\ h.dump = f.dump /\ (h = f \/ (m = n /\ f = file))
        BY <1>2, <1>3, <1>5, <2>2
    <3>2. PICK l \in Files : Copy(k, l) /\ l.dump = g.dump /\ (l = g \/ (k = n /\ g = file))
        BY <1>2, <1>3, <1>5, <2>2
    <3>3. m = k <=> f.dump = g.dump
        BY <1>6, <3>1, <3>2 DEF OneDumpPerName
    <3>4. ASSUME m = k, f.size \in Sizes, g.size \in Sizes PROVE f = g
      <4>1. CASE m = n
          BY <1>5, <2>1, <2>2, <3>4, <4>1
      <4>2. CASE m # n
          BY <1>6, <3>1, <3>2, <3>4, <4>2 DEF OneDumpPerName
      <4> QED
          BY <4>1, <4>2
    <3> QED
        BY <3>3, <3>4
  <2> QED
      BY <2>2 DEF OneDumpPerName
<1>10. today <= today'
    BY <1>1, <1>2, NumbersAssumption DEF TypeOK
<1> QED
    BY <1>1, <1>4, <1>8, <1>9, <1>10, HereStays DEF IInv

LEMMA RemoteRotateKeepsIInv ==
    ASSUME IInv, NEW n \in Names, RemoteRotate(n) PROVE IInv'
<1>1. /\ remote' = [remote EXCEPT ![n] = NoFile]
      /\ UNCHANGED <<task, used, dumps, today, disk, row, deleted, asked, pull, pass, hand>>
    BY DEF RemoteRotate
<1>2. TypeOK /\ remote \in [Names -> File]
    BY Types DEF IInv
<1>3. TypeOK'
    BY <1>1, <1>2, Types, TypesNext, Values
<1>4. \A m \in Names, f \in Files : Copy(m, f)' => Copy(m, f)
    BY <1>1, <1>2 DEF Copy, FileOf, Files
<1>5. \A m \in Names : remote'[m].size = Partial => remote[m].size = Partial
    BY <1>1, <1>2, Values
<1>6. used \subseteq used' /\ dumps <= dumps' /\ today <= today'
    BY <1>1, <1>2, NumbersAssumption DEF TypeOK
<1>7. CopiesAreKnown' /\ OneDumpPerName'
    BY <1>3, <1>4, <1>5, <1>6, CopiesStay
<1> QED
    BY <1>1, <1>3, <1>6, <1>7, HereStays DEF IInv

LEMMA NextDayKeepsIInv == ASSUME IInv, NextDay PROVE IInv'
<1>1. /\ today < MaxDay /\ today' = today + 1
      /\ UNCHANGED <<task, remote, used, dumps, disk, row, deleted, asked, pull, pass, hand>>
    BY DEF NextDay
<1>2. TypeOK'
    BY <1>1, Types, TypesNext, NumbersAssumption DEF IInv
<1>3. used \subseteq used' /\ dumps <= dumps' /\ today <= today'
    BY <1>1, NumbersAssumption DEF IInv, TypeOK
<1>4. CopiesAreKnown' /\ OneDumpPerName'
  <2>1. /\ \A m \in Names, f \in Files : Copy(m, f)' => Copy(m, f)
        /\ \A m \in Names : remote'[m].size = Partial => remote[m].size = Partial
      BY <1>1 DEF Copy, FileOf
  <2> QED
      BY <1>2, <1>3, <2>1, CopiesStay
<1> QED
    BY <1>1, <1>2, <1>3, <1>4, HereStays DEF IInv

-----------------------------------------------------------------------------
(* The pipeline.                                                           *)

LEMMA ChooseKeepsIInv == ASSUME IInv, NEW n \in Names, Choose(n) PROVE IInv'
<1>1. /\ task.strategy = "fetch_existing" /\ pull.at = "listing" /\ remote[n] # NoFile
      /\ ~Fetched(n)
      /\ pull' = [pull EXCEPT !.at = "downloading", !.name = n]
      /\ UNCHANGED <<task, remote, used, dumps, today, disk, row, deleted, asked, pass, hand>>
    BY DEF Choose, Candidates, Listed, source
<1>2. TypeOK /\ pull \in PullType /\ PullFits /\ pull.got = NoFile /\ DumpsInOrder
    BY <1>1, Types DEF IInv, PullFits
<1>3. /\ pull' \in PullType /\ pull'.at = "downloading" /\ pull'.name = n
      /\ pull'.run = pull.run /\ pull'.got = NoFile
    BY <1>1, <1>2 DEF PullType, PullPoints
<1>4. TypeOK'
    BY <1>1, <1>2, <1>3, Types, TypesNext
<1>5. used \subseteq used' /\ dumps <= dumps' /\ today <= today'
    BY <1>1, <1>2, NumbersAssumption DEF TypeOK
<1>6. CopiesAreKnown' /\ OneDumpPerName'
  <2>1. \A m \in Names, f \in Files : Copy(m, f)' => Copy(m, f)
      BY <1>1, <1>3 DEF Copy, FileOf, Files
  <2> QED
      BY <1>1, <1>4, <1>5, <2>1, CopiesStay
<1>7. \A r \in Successes(row) : row[r].name # n
  <2>1. SUFFICES ASSUME NEW r \in Successes(row), row[r].name = n PROVE FALSE
      OBVIOUS
  <2>2. remote[n] \in Files /\ Copy(n, remote[n])
      BY <1>1, <1>2, Types DEF Files, Copy
  <2>3. /\ FileOf(r) \in Files /\ Copy(n, FileOf(r)) /\ row[r].size \in Sizes
        /\ FileOf(r).size = row[r].size
      BY <2>1, SuccessIsCopy DEF FileOf
  <2>4. remote[n].size \in Sizes
      BY <2>2, <2>3 DEF IInv, CopiesAreKnown, Files, File
  <2>5. remote[n] = FileOf(r)
      BY <2>2, <2>3, <2>4 DEF IInv, OneDumpPerName
  <2> QED
      BY <1>1, <2>1, <2>3, <2>5 DEF Fetched, Successes
<1>8. PullFits'
  <2>1. Successes(row') = Successes(row)
      BY <1>1
  <2>2. /\ pull.run \in RunIds /\ row[pull.run] = [NoRow EXCEPT !.status = "Running"]
        /\ \A x \in RunIds : x > pull.run => row[x].status = "Absent"
      BY <1>1, <1>2 DEF PullFits
  <2> QED
      BY <1>1, <1>3, <1>7, <2>1, <2>2 DEF PullFits, Successes
<1>9. DumpsInOrder'
    BY <1>1, <1>2, <1>3 DEF DumpsInOrder, Successes
<1> QED
    BY <1>1, <1>4, <1>5, <1>6, <1>8, <1>9, RowsStay, RecordsStay DEF IInv

LEMMA DownloadKeepsIInv == ASSUME IInv, Download PROVE IInv'
<1>1. /\ pull.at = "downloading" /\ remote[pull.name] # NoFile
      /\ pull' = [pull EXCEPT !.at = "renaming", !.got = remote[pull.name]]
      /\ UNCHANGED <<task, remote, used, dumps, today, disk, row, deleted, asked, pass, hand>>
    BY DEF Download, source
<1>2. TypeOK /\ pull \in PullType /\ PullFits /\ DumpsInOrder /\ pull.name \in Names
      /\ task.strategy # "dump"
    BY <1>1, Types DEF IInv, PullFits
<1>3. /\ pull' \in PullType /\ pull'.at = "renaming" /\ pull'.name = pull.name
      /\ pull'.run = pull.run /\ pull'.got = remote[pull.name]
    BY <1>1, <1>2, Types DEF PullType, PullPoints
<1>4. TypeOK'
    BY <1>1, <1>2, <1>3, Types, TypesNext
<1>5. used \subseteq used' /\ dumps <= dumps' /\ today <= today'
    BY <1>1, <1>2, NumbersAssumption DEF TypeOK
<1>6. CopiesAreKnown' /\ OneDumpPerName'
  <2>1. \A m \in Names, f \in Files : Copy(m, f)' => Copy(m, f)
      BY <1>1, <1>3 DEF Copy, FileOf, Files
  <2> QED
      BY <1>1, <1>4, <1>5, <2>1, CopiesStay
<1>8. PullFits'
  <2>1. Successes(row') = Successes(row)
      BY <1>1
  <2>2. /\ pull.run \in RunIds /\ row[pull.run] = [NoRow EXCEPT !.status = "Running"]
        /\ \A x \in RunIds : x > pull.run => row[x].status = "Absent"
        /\ \A r \in Successes(row) : row[r].name # pull.name
      BY <1>1, <1>2 DEF PullFits
  <2> QED
      BY <1>1, <1>2, <1>3, <2>1, <2>2 DEF PullFits, Successes
<1>9. DumpsInOrder'
    BY <1>1, <1>2, <1>3 DEF DumpsInOrder, Successes
<1> QED
    BY <1>1, <1>4, <1>5, <1>6, <1>8, <1>9, RowsStay, RecordsStay DEF IInv

LEMMA DumpKeepsIInv ==
    ASSUME NamesAreNew, IInv, NEW n \in Names, NEW s \in Sizes, Dump(n, s) PROVE IInv'
<1> DEFINE file == [dump |-> dumps + 1, size |-> s]
<1>1. /\ pull.at = "listing" /\ dumps < MaxDumps /\ n \in Names \ used
      /\ dumps' = dumps + 1 /\ used' = used \cup {n}
      /\ pull' = [pull EXCEPT !.at = "renaming", !.name = n, !.got = file]
      /\ UNCHANGED <<task, remote, today, disk, row, deleted, asked, pass, hand>>
    BY DEF Dump, Fresh, NamesAreNew
<1>2. /\ TypeOK /\ pull \in PullType /\ PullFits /\ pull.got = NoFile /\ DumpsInOrder
      /\ dumps \in Nat
    BY <1>1, Types, NumbersAssumption DEF IInv, PullFits, TypeOK
<1>3. file \in Files /\ file.dump = dumps + 1 /\ file.size # 0 /\ file.size # Partial
      /\ file # NoFile
    BY <1>1, <1>2, Values, NumbersAssumption DEF Files, File, NoFile
<1> HIDE DEF file
<1>4. /\ pull' \in PullType /\ pull'.at = "renaming" /\ pull'.name = n
      /\ pull'.run = pull.run /\ pull'.got = file
    BY <1>1, <1>2, <1>3 DEF PullType, PullPoints, Files
<1>5. TypeOK'
    BY <1>1, <1>2, <1>4, Types, TypesNext, NumbersAssumption
<1>6. CopiesAreKnown' /\ OneDumpPerName'
  <2>1. \A m \in Names, f \in Files : Copy(m, f)' => Copy(m, f) \/ (m = n /\ f = file)
      BY <1>1, <1>4 DEF Copy, FileOf
  <2>2. remote[n].size # Partial
    <3>1. remote[n] \in Files => Copy(n, remote[n]) /\ n \in used
        BY DEF IInv, CopiesAreKnown, Copy
    <3> QED
        BY <1>1, <1>2, <3>1, Types, Values DEF Files
  <2> QED
      BY <1>1, <1>3, <1>5, <2>1, <2>2, NewCopy
<1>7. \A r \in Successes(row) : row[r].name # n /\ row[r].dump < dumps + 1
    BY <1>1, <1>2, SuccessIsCopy
<1>8. PullFits' /\ DumpsInOrder'
  <2>1. Successes(row') = Successes(row)
      BY <1>1
  <2>2. /\ pull.run \in RunIds /\ row[pull.run] = [NoRow EXCEPT !.status = "Running"]
        /\ \A x \in RunIds : x > pull.run => row[x].status = "Absent"
      BY <1>1, <1>2 DEF PullFits
  <2>3. PullFits'
      BY <1>1, <1>3, <1>4, <1>7, <2>1, <2>2 DEF PullFits, Successes
  <2>4. DumpsInOrder'
      BY <1>1, <1>2, <1>3, <1>4, <1>7, <2>1 DEF DumpsInOrder, Successes
  <2> QED
      BY <2>3, <2>4
<1>9. today <= today'
    BY <1>1, <1>2, NumbersAssumption DEF TypeOK
<1> QED
    BY <1>1, <1>5, <1>6, <1>8, <1>9, RowsStay, RecordsStay DEF IInv

LEMMA RenameKeepsIInv == ASSUME IInv, Rename PROVE IInv'
<1>1. /\ pull.at = "renaming" /\ disk' = [disk EXCEPT ![pull.name] = pull.got]
      /\ pull' = [pull EXCEPT !.at = "renamed"]
      /\ UNCHANGED <<task, remote, used, dumps, today, row, deleted, asked, pass, hand>>
    BY DEF Rename, source
<1>2. /\ TypeOK /\ pull \in PullType /\ PullFits /\ DumpsInOrder /\ pull.name \in Names
      /\ disk \in [Names -> File] /\ pull.got # NoFile
    BY <1>1, Types DEF IInv, PullFits
<1>3. /\ pull' \in PullType /\ pull'.at = "renamed" /\ pull'.name = pull.name
      /\ pull'.run = pull.run /\ pull'.got = pull.got
    BY <1>1, <1>2 DEF PullType, PullPoints
<1>4. TypeOK'
    BY <1>1, <1>2, <1>3, Types, TypesNext DEF PullType
<1>5. used \subseteq used' /\ dumps <= dumps' /\ today <= today'
    BY <1>1, <1>2, NumbersAssumption DEF TypeOK
<1>6. CopiesAreKnown' /\ OneDumpPerName'
  <2>1. \A m \in Names, f \in Files : Copy(m, f)' => Copy(m, f)
      BY <1>1, <1>2, <1>3 DEF Copy, FileOf
  <2> QED
      BY <1>1, <1>4, <1>5, <2>1, CopiesStay
<1>7. \A r \in Successes(row) : row[r].name # pull.name /\ row[r].name \in Names
    BY <1>2, SuccessIsCopy DEF PullFits
<1>8. PullFits' /\ DumpsInOrder'
  <2>1. /\ pull.run \in RunIds /\ row[pull.run] = [NoRow EXCEPT !.status = "Running"]
        /\ \A x \in RunIds : x > pull.run => row[x].status = "Absent"
      BY <1>1, <1>2 DEF PullFits
  <2>2. PullFits'
      BY <1>1, <1>2, <1>3, <1>7, <2>1 DEF PullFits, Successes
  <2>3. DumpsInOrder'
      BY <1>1, <1>2, <1>3 DEF DumpsInOrder, Successes
  <2> QED
      BY <2>2, <2>3
<1>9. \A r \in Successes(row) : disk'[row[r].name] = disk[row[r].name]
    BY <1>1, <1>2, <1>7
<1> QED
    BY <1>1, <1>4, <1>5, <1>6, <1>8, <1>9, RowsStay, RecordsStay DEF IInv

LEMMA RunDiesKeepsIInv == ASSUME IInv, RunDies PROVE IInv'
<1>1. /\ pull' = NoPull
      /\ UNCHANGED <<task, remote, used, dumps, today, disk, row, deleted, asked, pass, hand>>
    BY DEF RunDies, source
<1>2. TypeOK /\ PullFits /\ DumpsInOrder
    BY DEF IInv
<1>3. TypeOK'
    BY <1>1, <1>2, Types, TypesNext, Values
<1>4. used \subseteq used' /\ dumps <= dumps' /\ today <= today'
    BY <1>1, <1>2, NumbersAssumption DEF TypeOK
<1>5. CopiesAreKnown' /\ OneDumpPerName'
  <2>1. \A m \in Names, f \in Files : Copy(m, f)' => Copy(m, f)
      BY <1>1, Values DEF Copy, FileOf
  <2> QED
      BY <1>1, <1>3, <1>4, <2>1, CopiesStay
<1>6. PullFits' /\ DumpsInOrder'
    BY <1>1, <1>2, Values DEF PullFits, DumpsInOrder, Successes
<1> QED
    BY <1>1, <1>3, <1>4, <1>5, <1>6, RowsStay, RecordsStay DEF IInv

LEMMA MarkValidatingKeepsIInv == ASSUME IInv, MarkValidating PROVE IInv'
<1> DEFINE i == pull.run
           new == [status |-> "Validating", name |-> pull.name, size |-> pull.got.size,
                   dump |-> pull.got.dump, day |-> today]
<1>1. /\ pull.at = "renamed" /\ row' = [row EXCEPT ![i] = new]
      /\ pull' = [pull EXCEPT !.at = "validating"]
      /\ UNCHANGED <<task, remote, used, dumps, today, disk, deleted, asked, pass, hand>>
    BY DEF MarkValidating, source
<1>2. /\ TypeOK /\ pull \in PullType /\ PullFits /\ DumpsInOrder /\ RowsFit
      /\ i \in RunIds /\ row \in [RunIds -> RowType] /\ pull.name \in Names /\ pull.got \in Files
      /\ row[i] = [NoRow EXCEPT !.status = "Running"] /\ disk[pull.name] = pull.got
    BY <1>1, Types DEF IInv, PullFits, PullType, Files
<1>3. pull.got.size # 0 /\ pull.got.dump \in 0 .. MaxDumps /\ pull.got.size \in Sizes \cup {Partial}
    BY <1>2 DEF IInv, CopiesAreKnown, Copy, Files, File
<1>4. /\ pull' \in PullType /\ pull'.at = "validating" /\ pull'.name = pull.name
      /\ pull'.run = i /\ pull'.got = pull.got
    BY <1>1, <1>2 DEF PullType, PullPoints
<1>5. /\ new \in RowType /\ new.status = "Validating" /\ new.name = pull.name
      /\ [dump |-> new.dump, size |-> new.size] = pull.got
    BY <1>2, <1>3, Types DEF RowType, InProgress, Files, File
<1> HIDE DEF i, new
<1>6. row' \in [RunIds -> RowType] /\ row'[i] = new /\ \A x \in RunIds : x # i => row'[x] = row[x]
    BY <1>1, <1>2, <1>5
<1>7. TypeOK'
    BY <1>1, <1>2, <1>4, <1>6, Types, TypesNext
<1>8. row[i].status = "Running" /\ Successes(row') = Successes(row) /\ i \notin Successes(row)
  <2>1. row[i].status = "Running"
      BY <1>2, Values DEF NoRow
  <2> QED
      BY <1>5, <1>6, <2>1 DEF Successes
<1>9. used \subseteq used' /\ dumps <= dumps' /\ today <= today'
    BY <1>1, <1>2, NumbersAssumption DEF TypeOK
<1>10. CopiesAreKnown' /\ OneDumpPerName'
  <2>1. \A m \in Names, f \in Files : Copy(m, f)' => Copy(m, f)
      BY <1>1, <1>4, <1>5, <1>6 DEF Copy, FileOf
  <2> QED
      BY <1>1, <1>7, <1>9, <2>1, CopiesStay
<1>11. RowsFit'
  <2>1. \A r \in Successes(row) : row'[r] = row[r]
      BY <1>6, <1>8 DEF Successes
  <2>2. \A r \in RunIds : row'[r].status = "Absent" => r # i /\ row'[r] = row[r]
      BY <1>5, <1>6
  <2>3. \A r, s \in RunIds : r < s /\ row'[r].status = "Absent" => row'[s].status = "Absent"
      BY <1>2, <1>6, <1>8, <2>2 DEF RowsFit
  <2>4. Successes(row)' = Successes(row)
      BY <1>8 DEF Successes
  <2> QED
      BY <1>2, <2>1, <2>2, <2>3, <2>4 DEF RowsFit
<1>12. PullFits' /\ DumpsInOrder'
  <2>1. \A x \in RunIds : x > i => row[x].status = "Absent" /\ x # i
      BY <1>1, <1>2, NumbersAssumption DEF PullFits, i, RunIds
  <2>2. Successes(row)' = Successes(row) /\ \A r \in Successes(row) : row'[r] = row[r]
      BY <1>6, <1>8 DEF Successes
  <2>3. PullFits'
      BY <1>1, <1>2, <1>4, <1>5, <1>6, <2>1, <2>2 DEF PullFits, FileOf, Files
  <2>4. DumpsInOrder /\ task' = task /\ pull'.got = pull.got
      BY <1>1, <1>2, <1>4
  <2>5. DumpsInOrder'
      BY <2>2, <2>4 DEF DumpsInOrder
  <2> QED
      BY <2>3, <2>5
<1>13. \A r \in RunIds : row[r].status \in {"Success", "Failed"} => row'[r] = row[r]
    BY <1>6, <1>8
<1> QED
    BY <1>1, <1>7, <1>8, <1>9, <1>10, <1>11, <1>12, <1>13, RecordsStay DEF IInv

LEMMA StartRunKeepsIInv == ASSUME IInv, NEW i \in RunIds, StartRun(i) PROVE IInv'
<1>1. /\ pull = NoPull /\ row[i].status = "Absent"
      /\ row' = [x \in RunIds |-> IF x = i THEN [NoRow EXCEPT !.status = "Running"]
                                  ELSE IF row[x].status \in InProgress
                                  THEN [row[x] EXCEPT !.status = "Failed"] ELSE row[x]]
      /\ pull' = [NoPull EXCEPT !.at = "listing", !.run = i]
      /\ UNCHANGED <<task, remote, used, dumps, today, disk, deleted, asked, pass, hand>>
    BY DEF StartRun, source
<1>2. TypeOK /\ PullFits /\ DumpsInOrder /\ RowsFit /\ row \in [RunIds -> RowType]
    BY Types DEF IInv
<1> DEFINE running == [NoRow EXCEPT !.status = "Running"]
<1>3. running \in RowType /\ running.status = "Running" /\ running.name = None
    BY Values DEF RowType, InProgress, NoRow
<1>4. /\ pull' \in PullType /\ pull'.at = "listing" /\ pull'.name = None
      /\ pull'.run = i /\ pull'.got = NoFile
    BY <1>1, Values DEF PullType, PullPoints, NoPull
<1>5. /\ row' \in [RunIds -> RowType] /\ row'[i] = running
      /\ \A x \in RunIds : x # i =>
            /\ row'[x].name = row[x].name /\ row'[x].size = row[x].size
            /\ row'[x].dump = row[x].dump
            /\ row'[x] = row[x] \/ (row[x].status \in InProgress /\ row'[x].status = "Failed")
    BY <1>1, <1>2, <1>3 DEF RowType
<1> HIDE DEF running
<1>6. TypeOK'
    BY <1>1, <1>2, <1>4, <1>5, Types, TypesNext
<1>7. \A r \in RunIds : row[r].status \in {"Success", "Failed"} => row'[r] = row[r]
    BY <1>1, <1>5 DEF InProgress
<1>8. Successes(row') = Successes(row)
    BY <1>1, <1>3, <1>5 DEF Successes, InProgress
<1>9. used \subseteq used' /\ dumps <= dumps' /\ today <= today'
    BY <1>1, <1>2, NumbersAssumption DEF TypeOK
<1>10. CopiesAreKnown' /\ OneDumpPerName'
  <2>1. ASSUME NEW m \in Names, NEW f \in Files, Copy(m, f)' PROVE Copy(m, f)
    <3>1. f = remote[m] \/ f = disk[m] \/ \E r \in RunIds : row'[r].name = m /\ f = FileOf(r)'
        BY <1>1, <1>4, <2>1, Values DEF Copy, Files
    <3>2. \A r \in RunIds : row'[r].name = m => row[r].name = m /\ FileOf(r)' = FileOf(r)
        BY <1>3, <1>5, Values DEF FileOf
    <3> QED
        BY <3>1, <3>2 DEF Copy
  <2> QED
      BY <1>1, <1>6, <1>9, <2>1, CopiesStay
<1>11. \A x \in RunIds : x > i => row[x].status = "Absent" /\ row'[x] = row[x]
  <2>1. \A x \in RunIds : x > i => row[x].status = "Absent" /\ x # i
      BY <1>1, <1>2, NumbersAssumption DEF RowsFit, RunIds
  <2> QED
      BY <1>5, <2>1 DEF InProgress
<1>12. Successes(row)' = Successes(row) /\ \A r \in Successes(row) : row'[r] = row[r]
    BY <1>7, <1>8 DEF Successes
<1>13. RowsFit'
  <2>1. \A r \in RunIds : row'[r].status = "Absent" => r # i /\ row'[r] = row[r]
      BY <1>3, <1>5
  <2>2. \A r, s \in RunIds : r < s /\ row'[r].status = "Absent" => row'[s].status = "Absent"
    <3>1. ASSUME NEW r \in RunIds, NEW s \in RunIds, r < s, row'[r].status = "Absent"
          PROVE  row'[s].status = "Absent"
      <4>1. row[r].status = "Absent" /\ row[s].status = "Absent" /\ r # i
          BY <1>2, <2>1, <3>1 DEF RowsFit
      <4>2. s # i
        <5>1. s = i => r < i /\ ~(\A x \in RunIds : x < i => row[x].status # "Absent")
            BY <3>1, <4>1
        <5> QED
            BY <5>1 DEF StartRun
      <4> QED
          BY <1>5, <4>1, <4>2 DEF InProgress
    <3> QED
        BY <3>1
  <2> QED
      BY <1>2, <1>12, <2>1, <2>2 DEF RowsFit
<1>14. PullFits'
    BY <1>2, <1>4, <1>5, <1>11, <1>12, Values DEF PullFits, running, Successes
<1>15. DumpsInOrder'
  <2>1. DumpsInOrder /\ task' = task /\ pull'.got = NoFile
      BY <1>1, <1>2, <1>4
  <2> QED
      BY <1>12, <2>1 DEF DumpsInOrder
<1> QED
    BY <1>1, <1>6, <1>7, <1>8, <1>9, <1>10, <1>12, <1>13, <1>14, <1>15, RecordsStay DEF IInv

\* The run has ended; what its pass condemns is not to be kept.
LEMMA FinishKeepsIInv ==
    ASSUME IInv, NEW status \in {"Success", "Failed"}, Finish(status), pull.at # "idle",
           status = "Success" =>
              pull.at = "listing" \/ (pull.at = "validating" /\ pull.got.size \in Sizes)
    PROVE  IInv'
<1> DEFINE i == pull.run
           new == [row[i] EXCEPT !.status = status]
<1>1. /\ row' = [row EXCEPT ![i].status = status]
      /\ pass' = [pass EXCEPT ![i].todo = Doomed(row')]
      /\ pull' = NoPull
      /\ UNCHANGED <<task, remote, used, dumps, today, disk, deleted, asked, hand>>
    BY DEF Finish, source
<1>2. /\ TypeOK /\ pull \in PullType /\ PullFits /\ DumpsInOrder /\ RowsFit /\ PassesFit
      /\ i \in RunIds /\ row \in [RunIds -> RowType] /\ pass \in [RunIds -> PassType]
      /\ \A x \in RunIds : x > i => row[x].status = "Absent"
    BY Types DEF IInv, PullFits
<1>3. /\ pull.at = "validating" =>
            /\ row[i].status = "Validating" /\ row[i].name = pull.name /\ FileOf(i) = pull.got
            /\ pull.got # NoFile /\ pull.name \in Names /\ disk[pull.name] = pull.got
      /\ pull.at # "validating" => row[i].status = "Running" /\ row[i].name = None
    BY <1>2, Values DEF PullFits, NoRow
<1>4. /\ new \in RowType /\ new.status = status /\ new.name = row[i].name
      /\ new.size = row[i].size /\ new.dump = row[i].dump
    BY <1>2 DEF RowType
<1>5. row' = [row EXCEPT ![i] = new]
    BY <1>1, <1>2
<1> HIDE DEF new
<1>6. row' \in [RunIds -> RowType] /\ row'[i] = new /\ \A x \in RunIds : x # i => row'[x] = row[x]
    BY <1>2, <1>4, <1>5
<1>7. row[i].status \notin {"Success", "Failed", "Absent"} /\ pass[i] = NoPass
    BY <1>2, <1>3 DEF PassesFit
<1>8. Doomed(row') \in SUBSET RunIds
    BY DEF Doomed, Successes
<1>9. /\ pass' \in [RunIds -> PassType] /\ ~pass'[i].unlinked /\ pass'[i].todo = Doomed(row')
      /\ \A x \in RunIds : x # i => pass'[x] = pass[x]
  <2> DEFINE D == Doomed(row')
             mine == [pass[i] EXCEPT !.todo = D]
  <2>1. pass' = [pass EXCEPT ![i].todo = D] /\ D \in SUBSET RunIds
      BY <1>1, <1>8
  <2>2. pass[i] \in PassType /\ ~pass[i].unlinked
      BY <1>2, <1>7 DEF NoPass
  <2> HIDE DEF D
  <2>3. pass' = [pass EXCEPT ![i] = mine]
      BY <1>2, <2>1
  <2>4. mine \in PassType /\ ~mine.unlinked /\ mine.todo = D
      BY <2>1, <2>2 DEF PassType
  <2> HIDE DEF mine
  <2> QED
      BY <1>2, <2>3, <2>4 DEF D
<1>10. TypeOK'
    BY <1>1, <1>2, <1>6, <1>9, Types, TypesNext, Values
<1>11. /\ i \notin Successes(row)
       /\ \A r \in Successes(row) : r \in Successes(row') /\ row'[r] = row[r]
       /\ Successes(row') \subseteq Successes(row) \cup {i} /\ Successes(row)' = Successes(row')
       /\ i \in Successes(row') => status = "Success" /\ pull.at = "validating"
    BY <1>3, <1>4, <1>6, <1>7 DEF Successes
<1>12. used \subseteq used' /\ dumps <= dumps' /\ today <= today'
    BY <1>1, <1>2, NumbersAssumption DEF TypeOK
<1>13. CopiesAreKnown' /\ OneDumpPerName'
  <2>1. \A r \in RunIds : row'[r].name = row[r].name /\ FileOf(r)' = FileOf(r)
      BY <1>4, <1>6 DEF FileOf
  <2>2. \A m \in Names, f \in Files : Copy(m, f)' => Copy(m, f)
      BY <1>1, <2>1, Values DEF Copy
  <2> QED
      BY <1>1, <1>10, <1>12, <2>2, CopiesStay
<1>14. RowsFit'
  <2>1. \A r \in RunIds : row'[r].status = "Absent" => r # i /\ row'[r] = row[r]
      BY <1>4, <1>6
  <2>2. \A r, s \in RunIds : r < s /\ row'[r].status = "Absent" => row'[s].status = "Absent"
      BY <1>2, <1>6, <1>7, <2>1 DEF RowsFit
  <2>3. i \in Successes(row') =>
           /\ row'[i].name = pull.name /\ row'[i].size \in Sizes
           /\ \A r \in Successes(row) : row[r].name # pull.name
      BY <1>2, <1>3, <1>4, <1>6, <1>11 DEF PullFits, FileOf
  <2>4. \A r \in Successes(row') : r = i \/ (r \in Successes(row) /\ row'[r] = row[r])
      BY <1>11
  <2>5. \A r \in Successes(row') : row'[r].size \in Sizes
      BY <1>2, <2>3, <2>4 DEF RowsFit
  <2>6. \A r, s \in Successes(row') : row'[r].name = row'[s].name => r = s
      BY <1>2, <2>3, <2>4 DEF RowsFit
  <2> QED
      BY <1>2, <1>11, <2>1, <2>2, <2>5, <2>6 DEF RowsFit
<1>15. PullFits'
    BY <1>1, <1>11, Values DEF PullFits, Successes
<1>16. /\ \A r \in RunIds : Spent(r) => Spent(r)'
       /\ \A r \in Successes(row) : PolicyKeeps(r)' => PolicyKeeps(r)
    BY <1>1, <1>10, <1>11, <1>12, BackupsStay
<1>17. \A r \in RunIds : Away(r) => Away(r)'
    BY <1>1, <1>11 DEF Away
<1>18. \A x \in Doomed(row') : Spent(x)'
  <2>1. SUFFICES ASSUME NEW x \in Doomed(row') PROVE Spent(x)'
      OBVIOUS
  <2> DEFINE all == Successes(row')
             live == all \ deleted
             k == Rank(x, live)
             l == Rank(x, all)
  <2>2. x \in live /\ k > 0 /\ Rejected(x, k, row')
      BY <2>1 DEF Doomed
  <2>3. all \in SUBSET RunIds /\ live \in SUBSET all
      BY DEF Successes
  <2> HIDE DEF all, live
  <2>4. k \in Nat /\ l \in Nat /\ k <= l
      BY <2>3, RankGrows
  <2> HIDE DEF k, l
  <2>5. l # 0
      BY <2>2, <2>4
  <2>6. task.count \in Nat \cup {None} /\ task.days \in Nat \cup {None}
      BY <1>2, TasksAssumption DEF TypeOK
  <2>7. task.count # None /\ k >= task.count => l >= task.count
      BY <2>4, <2>6
  <2>8. IF task'.count # None /\ task'.days # None
        THEN (task'.count # None /\ l >= task'.count)
             /\ (task'.days # None /\ row'[x].day < today' - task'.days)
        ELSE (task'.count # None /\ l >= task'.count)
             \/ (task'.days # None /\ row'[x].day < today' - task'.days)
      BY <1>1, <2>2, <2>7 DEF Rejected, ViolatesCount, ViolatesDays
  <2>9. x \in Successes(row)'
      BY <1>11, <2>2 DEF live, all
  <2>10. ~PolicyKeeps(x)'
      BY <1>11, <2>5, <2>8 DEF PolicyKeeps, Rejected, ViolatesCount, ViolatesDays, l, all
  <2> QED
      BY <2>9, <2>10 DEF Spent
<1>19. PassesFit'
  <2>1. ASSUME NEW r \in RunIds
        PROVE  /\ pass'[r] # NoPass => row'[r].status \in {"Success", "Failed"}
               /\ \A x \in pass'[r].todo : Spent(x)'
               /\ pass'[r].unlinked => pass'[r].todo # {} /\ Away(NextOf(r))'
    <3>1. CASE r = i
        BY <1>4, <1>6, <1>9, <1>18, <3>1
    <3>2. CASE r # i
      <4>1. pass'[r] = pass[r] /\ row'[r] = row[r] /\ pass[r].todo \subseteq RunIds
          BY <1>2, <1>6, <1>9, <3>2 DEF PassType
      <4>2. \A x \in pass[r].todo : Spent(x)'
          BY <1>2, <1>16, <4>1 DEF PassesFit
      <4>3. pass[r].unlinked => NextOf(r)' = NextOf(r) /\ NextOf(r) \in RunIds /\ Away(NextOf(r))
          BY <1>2, <4>1, NextIsOne DEF NextOf, PassesFit
      <4>4. pass[r].unlinked => Away(NextOf(r))'
          BY <1>17, <4>3 DEF Away
      <4> QED
          BY <1>2, <4>1, <4>2, <4>4 DEF PassesFit
    <3> QED
        BY <3>1, <3>2
  <2> QED
      BY <2>1 DEF PassesFit
<1>20. HandsFit' /\ DeletedAreAway'
  <2>1. HandsFit /\ DeletedAreAway /\ deleted \subseteq RunIds
      BY Types DEF IInv
  <2> QED
      BY <1>1, <1>11, <1>17, <2>1 DEF HandsFit, DeletedAreAway
<1>21. DumpsInOrder'
  <2>1. SUFFICES ASSUME task.strategy = "dump",
                        NEW r \in Successes(row'), NEW s \in Successes(row'), r < s
                 PROVE  row'[r].dump < row'[s].dump
      BY <1>1, <1>11, Values DEF DumpsInOrder
  <2>2. r # i
      BY <1>2, <1>11, <2>1, NumbersAssumption DEF RunIds, Successes
  <2>3. CASE s = i
      BY <1>2, <1>3, <1>4, <1>6, <1>11, <2>1, <2>2, <2>3 DEF DumpsInOrder, FileOf
  <2>4. CASE s # i
      BY <1>2, <1>11, <2>1, <2>2, <2>4 DEF DumpsInOrder
  <2> QED
      BY <2>3, <2>4
<1>22. KeptIsIntact'
  <2>1. SUFFICES ASSUME NEW r \in RunIds \ asked, PolicyKeeps(r)' PROVE Intact(r)'
      BY <1>1 DEF KeptIsIntact
  <2>2. r \in Successes(row')
      BY <1>11, <2>1 DEF PolicyKeeps
  <2>3. CASE r = i
      BY <1>1, <1>3, <1>4, <1>6, <1>11, <2>2, <2>3 DEF Intact, FileOf
  <2>4. CASE r # i
    <3>1. r \in Successes(row) /\ row'[r] = row[r] /\ disk' = disk
        BY <1>1, <1>11, <2>2, <2>4
    <3>2. Intact(r)
        BY <1>16, <2>1, <3>1 DEF IInv, KeptIsIntact
    <3> QED
        BY <3>1, <3>2 DEF Intact
  <2> QED
      BY <2>3, <2>4
<1> QED
    BY <1>10, <1>13, <1>14, <1>15, <1>19, <1>20, <1>21, <1>22 DEF IInv

LEMMA RunEndsKeepsIInv == ASSUME IInv, NothingNew \/ Validate \/ RunFails PROVE IInv'
<1>1. CASE NothingNew
    BY <1>1, FinishKeepsIInv DEF NothingNew
<1>2. CASE Validate
  <2>1. pull.at = "validating" /\ disk[pull.name] = pull.got
      BY <1>2 DEF Validate, IInv, PullFits
  <2> QED
      BY <1>2, <2>1, FinishKeepsIInv DEF Validate
<1>3. CASE RunFails
    BY <1>3, FinishKeepsIInv DEF RunFails
<1> QED
    BY <1>1, <1>2, <1>3

-----------------------------------------------------------------------------
(* Retention and deletions by hand.                                        *)

Ground == /\ CopiesAreKnown /\ OneDumpPerName /\ RowsFit /\ PullFits /\ DumpsInOrder
          /\ KeptIsIntact

\* A deletion that does not touch the disk.
LEMMA PaperKeepsGround ==
    ASSUME IInv, TypeOK', UNCHANGED <<source, disk, row, pull>>, asked \subseteq asked'
    PROVE  Ground' /\ \A r \in RunIds : (Spent(r) => Spent(r)') /\ (Away(r) => Away(r)')
<1>1. used \subseteq used' /\ dumps <= dumps' /\ Successes(row)' = Successes(row)
    BY NumbersAssumption DEF IInv, TypeOK, source, Successes
<1>2. CopiesAreKnown' /\ OneDumpPerName'
  <2>1. /\ \A m \in Names, f \in Files : Copy(m, f)' => Copy(m, f)
        /\ \A m \in Names : remote'[m].size = Partial => remote[m].size = Partial
      BY DEF Copy, FileOf, source
  <2> QED
      BY <1>1, <2>1, CopiesStay
<1>3. RowsFit' /\ PullFits' /\ DumpsInOrder'
    BY <1>1, RowsStay DEF IInv, PullFits, DumpsInOrder, FileOf, source
<1>4. \A r \in RunIds : (PolicyKeeps(r)' <=> PolicyKeeps(r)) /\ (Intact(r)' <=> Intact(r))
    BY DEF PolicyKeeps, Rejected, ViolatesCount, ViolatesDays, Successes, Intact, source
<1>5. KeptIsIntact'
    BY <1>4 DEF IInv, KeptIsIntact
<1> QED
    BY <1>1, <1>2, <1>3, <1>4, <1>5 DEF Ground, Spent, Away

\* A file that is asked for, or not to be kept, is removed: no other backup has its name.
LEMMA UnlinkKeepsGround ==
    ASSUME IInv, TypeOK', NEW x \in Successes(row), x \in asked \/ Spent(x),
           disk' = [disk EXCEPT ![row[x].name] = NoFile],
           UNCHANGED <<source, row, deleted, asked, pull>>
    PROVE  /\ Ground' /\ Away(x)'
           /\ \A r \in RunIds : (Spent(r) => Spent(r)') /\ (Away(r) => Away(r)')
<1>1. /\ used \subseteq used' /\ dumps <= dumps' /\ Successes(row)' = Successes(row)
      /\ disk \in [Names -> File] /\ row[x].name \in Names
    BY SuccessIsCopy, NumbersAssumption DEF IInv, TypeOK, source, Successes
<1>2. CopiesAreKnown' /\ OneDumpPerName'
  <2>1. /\ \A m \in Names, f \in Files : Copy(m, f)' => Copy(m, f)
        /\ \A m \in Names : remote'[m].size = Partial => remote[m].size = Partial
      BY <1>1 DEF Copy, FileOf, source, Files
  <2> QED
      BY <1>1, <2>1, CopiesStay
<1>3. \A n \in Names : n # row[x].name => disk'[n] = disk[n]
    BY <1>1
<1>4. RowsFit' /\ DumpsInOrder'
    BY <1>1, RowsStay DEF IInv, DumpsInOrder, source
<1>5. PullFits'
  <2>1. PullFits /\ row[x].name # pull.name
      BY DEF IInv, PullFits
  <2>2. pull.at \in {"renamed", "validating"} => pull.name \in Names
      BY <2>1 DEF PullFits
  <2> QED
      BY <1>1, <1>3, <2>1, <2>2 DEF PullFits, FileOf, source
<1>6. \A r \in RunIds : PolicyKeeps(r)' <=> PolicyKeeps(r)
    BY DEF PolicyKeeps, Rejected, ViolatesCount, ViolatesDays, Successes, source
<1>7. KeptIsIntact'
  <2>1. SUFFICES ASSUME NEW r \in RunIds \ asked, PolicyKeeps(r) PROVE Intact(r)'
      BY <1>6 DEF KeptIsIntact
  <2>2. Intact(r) /\ r \in Successes(row) /\ r # x
      BY <2>1 DEF IInv, KeptIsIntact, PolicyKeeps, Spent
  <2>3. row[r].name \in Names /\ row[r].name # row[x].name
      BY <2>2, SuccessIsCopy DEF IInv, RowsFit
  <2> QED
      BY <1>3, <2>2, <2>3 DEF Intact
<1>8. Away(x)' /\ \A r \in RunIds : Away(r) => Away(r)'
  <2>1. \A r \in Successes(row) : row[r].name \in Names
      BY SuccessIsCopy
  <2> QED
      BY <1>1, <2>1 DEF Away
<1> QED
    BY <1>1, <1>2, <1>4, <1>5, <1>6, <1>7, <1>8 DEF Ground, Spent

LEMMA PassesKeepIInv ==
    ASSUME IInv, NEW r \in RunIds,
           PassUnlink(r) \/ PassUnlinkFails(r) \/ PassRecord(r) \/ PassDies(r)
    PROVE  IInv'
<1> PICK x : x = NextOf(r)
    OBVIOUS
<1>1. /\ TypeOK /\ PassesFit /\ HandsFit /\ DeletedAreAway /\ pass \in [RunIds -> PassType]
      /\ pass[r] \in PassType /\ disk \in [Names -> File] /\ deleted \subseteq RunIds
    BY Types DEF IInv
<1>2. \A i \in RunIds : pass[i].unlinked \/ pass[i].todo # {} =>
         NextOf(i) \in pass[i].todo /\ NextOf(i) \in RunIds /\ Spent(NextOf(i))
    BY <1>1, NextIsOne DEF PassesFit, PassType
<1>3. CASE PassUnlink(r)
  <2> DEFINE new == [pass[r] EXCEPT !.unlinked = TRUE]
  <2>1. /\ pass[r].todo # {} /\ disk' = [disk EXCEPT ![row[x].name] = NoFile]
        /\ pass' = [pass EXCEPT ![r] = new]
        /\ UNCHANGED <<source, row, deleted, asked, pull, hand>>
      BY <1>1, <1>3 DEF PassUnlink
  <2>2. new \in PassType /\ new.todo = pass[r].todo
      BY <1>1 DEF PassType
  <2>3. pass[r] # NoPass
      BY <2>1 DEF NoPass
  <2> HIDE DEF new
  <2>4. /\ pass' \in [RunIds -> PassType] /\ pass'[r] = new
        /\ \A i \in RunIds : i # r => pass'[i] = pass[i]
      BY <1>1, <2>1, <2>2
  <2>5. TypeOK'
      BY <1>1, <2>1, <2>4, Types, TypesNext, Values DEF source
  <2>6. x \in Successes(row) /\ Spent(x) /\ x \in RunIds
      BY <1>2, <2>1 DEF Spent
  <2>7. Ground' /\ Away(x)' /\ \A i \in RunIds : (Spent(i) => Spent(i)') /\ (Away(i) => Away(i)')
      BY <2>1, <2>5, <2>6, UnlinkKeepsGround
  <2>8. \A i \in RunIds : pass'[i].todo = pass[i].todo /\ NextOf(i)' = NextOf(i)
      BY <2>2, <2>4 DEF NextOf
  <2>9. PassesFit'
    <3>1. ASSUME NEW i \in RunIds
          PROVE  /\ pass'[i] # NoPass => row'[i].status \in {"Success", "Failed"}
                 /\ \A y \in pass'[i].todo : Spent(y)'
                 /\ pass'[i].unlinked => pass'[i].todo # {} /\ Away(NextOf(i))'
      <4>1. \A y \in pass[i].todo : y \in RunIds /\ Spent(y)
          BY <1>1 DEF PassesFit, PassType
      <4>2. pass'[i] # NoPass => pass[i] # NoPass
          BY <2>3, <2>4
      <4>3. pass'[i].unlinked => pass[i].todo # {} /\ Away(NextOf(i))'
        <5>1. CASE i = r
            BY <2>1, <2>7, <2>8, <5>1 DEF Away
        <5>2. CASE i # r
            BY <1>1, <1>2, <2>4, <2>7, <2>8, <5>2 DEF PassesFit, Away
        <5> QED
            BY <5>1, <5>2
      <4> QED
          BY <1>1, <2>1, <2>7, <2>8, <4>1, <4>2, <4>3 DEF PassesFit
    <3> QED
        BY <3>1 DEF PassesFit
  <2>10. HandsFit' /\ DeletedAreAway'
      BY <1>1, <2>1, <2>7 DEF HandsFit, DeletedAreAway, Successes
  <2> QED
      BY <2>5, <2>7, <2>9, <2>10 DEF IInv, Ground
<1>4. CASE PassUnlinkFails(r) \/ PassRecord(r) \/ PassDies(r)
  <2>1. /\ UNCHANGED <<source, disk, row, asked, pull, hand>>
        /\ \/ deleted' = deleted
           \/ pass[r].unlinked /\ deleted' = deleted \cup {x}
        /\ \E new \in PassType : /\ pass' = [pass EXCEPT ![r] = new] /\ ~new.unlinked
                                 /\ new.todo \subseteq pass[r].todo
                                 /\ new # NoPass => pass[r] # NoPass
    <3>1. CASE PassUnlinkFails(r)
      <4> DEFINE new == [pass[r] EXCEPT !.todo = @ \ {NextOf(r)}]
      <4>1. /\ new \in PassType /\ ~new.unlinked /\ new.todo \subseteq pass[r].todo
            /\ pass' = [pass EXCEPT ![r] = new]
          BY <1>1, <3>1 DEF PassUnlinkFails, PassType
      <4>2. pass[r] # NoPass
          BY <3>1 DEF PassUnlinkFails, NoPass
      <4> QED
          BY <3>1, <4>1, <4>2 DEF PassUnlinkFails
    <3>2. CASE PassRecord(r)
      <4> DEFINE new == [todo |-> pass[r].todo \ {NextOf(r)}, unlinked |-> FALSE]
      <4>1. new \in PassType /\ ~new.unlinked /\ new.todo \subseteq pass[r].todo
          BY <1>1 DEF PassType
      <4>2. pass' = [pass EXCEPT ![r] = new]
          BY <1>1, <3>2 DEF PassRecord
      <4>3. pass[r] # NoPass
          BY <3>2 DEF PassRecord, NoPass
      <4> QED
          BY <3>2, <4>1, <4>2, <4>3 DEF PassRecord
    <3>3. CASE PassDies(r)
      <4>1. NoPass \in PassType /\ ~NoPass.unlinked /\ NoPass.todo \subseteq pass[r].todo
          BY Values DEF NoPass
      <4> QED
          BY <3>3, <4>1 DEF PassDies
    <3> QED
        BY <1>4, <3>1, <3>2, <3>3
  <2>2. PICK new \in PassType : /\ pass' = [pass EXCEPT ![r] = new] /\ ~new.unlinked
                                /\ new.todo \subseteq pass[r].todo
                                /\ new # NoPass => pass[r] # NoPass
      BY <2>1
  <2>3. /\ pass' \in [RunIds -> PassType] /\ pass'[r] = new
        /\ \A i \in RunIds : i # r => pass'[i] = pass[i]
      BY <1>1, <2>2
  <2>4. deleted' \subseteq RunIds
      BY <1>1, <1>2, <2>1
  <2>5. TypeOK'
      BY <1>1, <2>1, <2>3, <2>4, Types, TypesNext DEF source
  <2>6. Ground' /\ \A i \in RunIds : (Spent(i) => Spent(i)') /\ (Away(i) => Away(i)')
      BY <2>1, <2>5, PaperKeepsGround
  <2>7. PassesFit'
    <3>1. ASSUME NEW i \in RunIds
          PROVE  /\ pass'[i] # NoPass => row'[i].status \in {"Success", "Failed"}
                 /\ \A y \in pass'[i].todo : Spent(y)'
                 /\ pass'[i].unlinked => pass'[i].todo # {} /\ Away(NextOf(i))'
      <4>1. /\ \A y \in pass[i].todo : y \in RunIds /\ Spent(y)
            /\ pass[i] # NoPass => row[i].status \in {"Success", "Failed"}
          BY <1>1 DEF PassesFit, PassType
      <4>2. CASE i = r
          BY <2>1, <2>2, <2>3, <2>6, <4>1, <4>2
      <4>3. CASE i # r
        <5>1. pass'[i] = pass[i] /\ NextOf(i)' = NextOf(i)
            BY <2>3, <4>3 DEF NextOf
        <5>2. pass[i].unlinked => pass[i].todo # {} /\ NextOf(i) \in RunIds /\ Away(NextOf(i))
            BY <1>1, <1>2 DEF PassesFit
        <5>3. pass[i].unlinked => Away(NextOf(i))'
            BY <2>6, <5>1, <5>2 DEF Away
        <5> QED
            BY <2>1, <2>6, <4>1, <5>1, <5>2, <5>3
      <4> QED
          BY <4>2, <4>3
    <3> QED
        BY <3>1 DEF PassesFit
  <2>8. HandsFit'
      BY <1>1, <2>1, <2>6 DEF HandsFit, Successes
  <2>9. DeletedAreAway'
      BY <1>1, <1>2, <2>1, <2>6 DEF DeletedAreAway, PassesFit
  <2> QED
      BY <2>5, <2>6, <2>7, <2>8, <2>9 DEF IInv, Ground
<1> QED
    BY <1>3, <1>4

LEMMA HandsKeepIInv ==
    ASSUME OnlySuccessesGo, IInv, NEW r \in RunIds,
           HandStart(r) \/ HandUnlink(r) \/ HandRecord(r) \/ HandStops(r)
    PROVE  IInv'
<1>1. /\ TypeOK /\ PassesFit /\ HandsFit /\ DeletedAreAway /\ disk \in [Names -> File]
      /\ hand \in [RunIds -> {"idle", "unlinking", "recording"}]
      /\ deleted \subseteq RunIds /\ asked \subseteq RunIds /\ pass \in [RunIds -> PassType]
    BY Types DEF IInv
<1>2. ASSUME TypeOK', Ground', UNCHANGED <<row, pass>>, hand[r] = "recording" \/ deleted' = deleted,
             deleted' \subseteq deleted \cup {r}, asked \subseteq asked',
             \A i \in RunIds : (Spent(i) => Spent(i)') /\ (Away(i) => Away(i)'),
             \A i \in RunIds : i # r => hand'[i] = hand[i],
             hand'[r] # "idle" => r \in Successes(row) /\ r \in asked',
             hand'[r] = "recording" => Away(r)'
      PROVE  IInv'
  <2>1. PassesFit'
    <3>1. ASSUME NEW i \in RunIds
          PROVE  /\ pass[i] # NoPass => row[i].status \in {"Success", "Failed"}
                 /\ \A y \in pass[i].todo : Spent(y)'
                 /\ pass[i].unlinked => pass[i].todo # {} /\ Away(NextOf(i))'
      <4>1. \A y \in pass[i].todo : y \in RunIds /\ Spent(y)
          BY <1>1 DEF PassesFit, PassType
      <4>2. pass[i].unlinked => NextOf(i) \in RunIds /\ Away(NextOf(i)) /\ NextOf(i)' = NextOf(i)
          BY <1>1, <1>2, <4>1, NextIsOne DEF PassesFit, NextOf
      <4>3. pass[i].unlinked => Away(NextOf(i))'
          BY <1>2, <4>2 DEF Away
      <4> QED
          BY <1>1, <1>2, <4>1, <4>3 DEF PassesFit
    <3> QED
        BY <1>2, <3>1 DEF PassesFit
  <2>2. HandsFit'
      BY <1>1, <1>2 DEF HandsFit, Successes
  <2>3. DeletedAreAway'
      BY <1>1, <1>2 DEF HandsFit, DeletedAreAway
  <2> QED
      BY <1>2, <2>1, <2>2, <2>3 DEF IInv, Ground
<1>3. CASE HandUnlink(r)
  <2>1. /\ hand[r] = "unlinking" /\ disk' = [disk EXCEPT ![row[r].name] = NoFile]
        /\ hand' = [hand EXCEPT ![r] = "recording"]
        /\ UNCHANGED <<source, row, deleted, asked, pull, pass>>
      BY <1>3 DEF HandUnlink
  <2>2. r \in Successes(row) /\ r \in asked
      BY <1>1, <2>1 DEF HandsFit
  <2>3. TypeOK'
      BY <1>1, <2>1, Types, TypesNext, Values DEF source
  <2>4. Ground' /\ Away(r)' /\ \A i \in RunIds : (Spent(i) => Spent(i)') /\ (Away(i) => Away(i)')
      BY <2>1, <2>2, <2>3, UnlinkKeepsGround
  <2> QED
      BY <1>1, <1>2, <2>1, <2>2, <2>3, <2>4
<1>4. CASE HandStart(r) \/ HandRecord(r) \/ HandStops(r)
  <2>1. /\ UNCHANGED <<source, disk, row, pull, pass>> /\ asked \subseteq asked'
        /\ asked' \subseteq RunIds /\ deleted' \subseteq deleted \cup {r}
        /\ hand[r] = "recording" \/ deleted' = deleted
        /\ hand' \in [RunIds -> {"idle", "unlinking", "recording"}]
        /\ \A i \in RunIds : i # r => hand'[i] = hand[i]
        /\ hand'[r] # "recording"
        /\ hand'[r] # "idle" => r \in Successes(row) /\ r \in asked'
      BY <1>1, <1>4 DEF HandStart, HandRecord, HandStops, OnlySuccessesGo, Successes
  <2>2. TypeOK'
      BY <1>1, <2>1, Types, TypesNext DEF source
  <2>3. Ground' /\ \A i \in RunIds : (Spent(i) => Spent(i)') /\ (Away(i) => Away(i)')
      BY <2>1, <2>2, PaperKeepsGround
  <2> QED
      BY <1>2, <2>1, <2>2, <2>3
<1> QED
    BY <1>3, <1>4

-----------------------------------------------------------------------------
(* The theorems.                                                           *)

LEMMA InitIInv == Init => IInv
<1> SUFFICES ASSUME Init PROVE IInv
    OBVIOUS
<1>1. TypeOK
    BY Types, Values, NumbersAssumption DEF Init
<1>2. Successes(row) = {}
    BY Values DEF Init, Successes
<1>3. \A n \in Names, f \in Files : ~Copy(n, f)
    BY Values DEF Init, Copy, Files
<1>4. RowsFit /\ PullFits
    BY <1>2, Values DEF Init, RowsFit, PullFits
<1>5. PassesFit /\ HandsFit /\ DeletedAreAway
    BY DEF Init, PassesFit, HandsFit, DeletedAreAway, NoPass
<1>6. DumpsInOrder /\ KeptIsIntact
    BY <1>2, Values DEF Init, DumpsInOrder, KeptIsIntact, PolicyKeeps
<1> QED
    BY <1>1, <1>3, <1>4, <1>5, <1>6 DEF IInv, CopiesAreKnown, OneDumpPerName

LEMMA StepKeepsIInv ==
    ASSUME NamesAreNew, OnlySuccessesGo, IInv, [Next]_vars PROVE IInv'
<1>1. CASE UNCHANGED vars
  <2>1. TypeOK'
      BY <1>1 DEF IInv, TypeOK, vars, source
  <2>2. Ground' /\ \A r \in RunIds : (Spent(r) => Spent(r)') /\ (Away(r) => Away(r)')
      BY <1>1, <2>1, PaperKeepsGround DEF vars
  <2>3. PassesFit' /\ HandsFit' /\ DeletedAreAway'
      BY <1>1, <2>1, <2>2, DeletionsStay DEF vars, Successes
  <2> QED
      BY <2>1, <2>2, <2>3 DEF IInv, Ground
<1>2. CASE \E n \in Names : RemoteStart(n) \/ RemoteRotate(n) \/ Choose(n)
    BY <1>2, RemoteStartKeepsIInv, RemoteRotateKeepsIInv, ChooseKeepsIInv
<1>3. CASE \E n \in Names, s \in Sizes : RemoteComplete(n, s) \/ Dump(n, s)
    BY <1>3, RemoteCompleteKeepsIInv, DumpKeepsIInv
<1>4. CASE NextDay \/ Download \/ Rename \/ MarkValidating \/ RunDies
    BY <1>4, NextDayKeepsIInv, DownloadKeepsIInv, RenameKeepsIInv, MarkValidatingKeepsIInv,
       RunDiesKeepsIInv
<1>5. CASE NothingNew \/ Validate \/ RunFails
    BY <1>5, RunEndsKeepsIInv
<1>6. CASE \E r \in RunIds : StartRun(r)
    BY <1>6, StartRunKeepsIInv
<1>7. CASE \E r \in RunIds :
              PassUnlink(r) \/ PassUnlinkFails(r) \/ PassRecord(r) \/ PassDies(r)
    BY <1>7, PassesKeepIInv
<1>8. CASE \E r \in RunIds :
              HandStart(r) \/ HandUnlink(r) \/ HandRecord(r) \/ HandStops(r)
    BY <1>8, HandsKeepIInv
<1> QED
    BY <1>1, <1>2, <1>3, <1>4, <1>5, <1>6, <1>7, <1>8 DEF Next

\* The files of a task at any time: rows, files on both sides, the pipeline, retention passes
\* and deletions by hand fit each other (runBackupTask, applyRetention, deleteBackupRun).
THEOREM FilesInvariance == ASSUME NamesAreNew, OnlySuccessesGo PROVE Spec => []IInv
<1>1. IInv /\ [Next]_vars => IInv'
    BY StepKeepsIInv
<1> QED
    BY <1>1, InitIInv, PTL DEF Spec

\* A backup that the retention policy keeps, the newest among them, is on disk as it was
\* validated, whatever passes, runs, crashes and deletions of other backups overlap: what
\* a pass read in applyRetention stays true until its last await.
THEOREM RetentionKeeps == ASSUME NamesAreNew, OnlySuccessesGo PROVE Spec => []KeptIsIntact
<1>1. IInv => KeptIsIntact
    BY DEF IInv
<1> QED
    BY <1>1, FilesInvariance, PTL

\* What retention_deletions has on record was deleted, and does not come back.
THEOREM DeletionsAreFacts == ASSUME NamesAreNew, OnlySuccessesGo PROVE Spec => []FilesInv
<1>1. ASSUME IInv PROVE FilesInv
  <2>1. ASSUME NEW r \in deleted PROVE ~Intact(r)
    <3>1. r \in Successes(row) /\ disk[row[r].name] = NoFile
        BY <1>1, <2>1 DEF IInv, DeletedAreAway, Away
    <3>2. FileOf(r) \in Files
        BY <1>1, <3>1, SuccessIsCopy
    <3> QED
        BY <3>1, <3>2 DEF Intact, FileOf, Files
  <2> QED
      BY <1>1, <2>1 DEF IInv, FilesInv, DeletedIsGone
<1> QED
    BY <1>1, FilesInvariance, PTL

\* No dump is fetched twice: isAlreadyDownloaded looks at all successful runs, also those
\* whose file is deleted, and a name tells which dump it is.
THEOREM NothingComesTwice ==
    ASSUME NamesAreNew, OnlySuccessesGo PROVE Spec => []NothingFetchedTwice
<1>1. ASSUME IInv PROVE NothingFetchedTwice
  <2>1. SUFFICES ASSUME NEW r \in Successes(row), NEW s \in Successes(row),
                        row[r].dump = row[s].dump
                 PROVE  r = s
      BY DEF NothingFetchedTwice
  <2>2. /\ row[r].name \in Names /\ FileOf(r) \in Files /\ Copy(row[r].name, FileOf(r))
        /\ row[s].name \in Names /\ FileOf(s) \in Files /\ Copy(row[s].name, FileOf(s))
        /\ FileOf(r).dump = FileOf(s).dump
      BY <1>1, <2>1, SuccessIsCopy DEF FileOf
  <2>3. row[r].name = row[s].name
      BY <1>1, <2>2 DEF IInv, OneDumpPerName
  <2> QED
      BY <1>1, <2>3 DEF IInv, RowsFit
<1> QED
    BY <1>1, FilesInvariance, PTL

\* A step that changes the disk changes neither rows nor what somebody asks for.
LEMMA DiskChangesAlone ==
    ASSUME IInv, Next, disk' # disk PROVE UNCHANGED <<task, today, row, asked>>
<1>1. ASSUME NEW n \in Names, RemoteStart(n) \/ RemoteRotate(n) \/ Choose(n)
      PROVE  disk' = disk
    BY <1>1 DEF RemoteStart, RemoteRotate, Choose
<1>2. ASSUME NEW n \in Names, NEW s \in Sizes, RemoteComplete(n, s) \/ Dump(n, s)
      PROVE  disk' = disk
    BY <1>2 DEF RemoteComplete, Dump
<1>3. NextDay \/ Download \/ MarkValidating \/ NothingNew \/ Validate \/ RunFails \/ RunDies
      => disk' = disk
    BY DEF NextDay, Download, MarkValidating, NothingNew, Validate, RunFails, RunDies, Finish
<1>4. Rename => UNCHANGED <<task, today, row, asked>>
    BY DEF Rename, source
<1>5. ASSUME NEW r \in RunIds,
             \/ StartRun(r) \/ PassUnlinkFails(r) \/ PassRecord(r) \/ PassDies(r)
             \/ HandStart(r) \/ HandRecord(r) \/ HandStops(r)
      PROVE  disk' = disk
    BY <1>5 DEF StartRun, PassUnlinkFails, PassRecord, PassDies, HandStart, HandRecord, HandStops
<1>6. ASSUME NEW r \in RunIds, PassUnlink(r) \/ HandUnlink(r)
      PROVE  UNCHANGED <<task, today, row, asked>>
    BY <1>6 DEF PassUnlink, HandUnlink, source
<1> QED
    BY <1>1, <1>2, <1>3, <1>4, <1>5, <1>6 DEF Next

\* The row of a valid backup does not change while the disk does not.
LEMMA BackupsStayOnRecord ==
    ASSUME IInv, Next, NEW r \in Successes(row) PROVE row'[r] = row[r]
<1>1. /\ r \in RunIds /\ row[r].status = "Success" /\ row \in [RunIds -> RowType] /\ PullFits
      /\ row[r].name # None
    BY Types DEF IInv, Successes
<1>2. pull.at # "idle" => pull.run # r
    BY <1>1, Values DEF PullFits, NoRow
<1>3. ASSUME NEW status, Finish(status), pull.at # "idle" PROVE row'[r] = row[r]
    BY <1>1, <1>2, <1>3 DEF Finish
<1>4. NothingNew \/ Validate \/ RunFails => row'[r] = row[r]
    BY <1>3 DEF NothingNew, Validate, RunFails
<1>5. MarkValidating => row'[r] = row[r]
    BY <1>1, <1>2 DEF MarkValidating
<1>6. ASSUME NEW i \in RunIds, StartRun(i) PROVE row'[r] = row[r]
    BY <1>1, <1>6 DEF StartRun, InProgress
<1>7. ASSUME NEW n \in Names, RemoteStart(n) \/ RemoteRotate(n) \/ Choose(n)
      PROVE  row' = row
    BY <1>7 DEF RemoteStart, RemoteRotate, Choose
<1>8. ASSUME NEW n \in Names, NEW s \in Sizes, RemoteComplete(n, s) \/ Dump(n, s)
      PROVE  row' = row
    BY <1>8 DEF RemoteComplete, Dump
<1>9. NextDay \/ Download \/ Rename \/ RunDies => row' = row
    BY DEF NextDay, Download, Rename, RunDies
<1>10. ASSUME NEW i \in RunIds,
              \/ PassUnlink(i) \/ PassUnlinkFails(i) \/ PassRecord(i) \/ PassDies(i)
              \/ HandStart(i) \/ HandUnlink(i) \/ HandRecord(i) \/ HandStops(i)
       PROVE  row' = row
    BY <1>10 DEF PassUnlink, PassUnlinkFails, PassRecord, PassDies, HandStart, HandUnlink,
                 HandRecord, HandStops
<1> QED
    BY <1>4, <1>5, <1>6, <1>7, <1>8, <1>9, <1>10 DEF Next

\* A task that makes its dumps loses a backup only when a later one is there, or was until
\* somebody asked for its deletion: the newest is never a candidate of applyRetention.
THEOREM LaterOneExists ==
    ASSUME NamesAreNew, OnlySuccessesGo PROVE Spec => LaterDumpExists
<1> DEFINE Loses == task.strategy = "dump" => LosesOnlyToLater
<1>1. ASSUME IInv, Next PROVE Loses
  <2>1. SUFFICES ASSUME task.strategy = "dump", NEW r \in Successes(row) \ asked,
                        Intact(r), ~Intact(r)'
                 PROVE  \E s \in Successes(row) :
                           row[s].dump > row[r].dump /\ (Intact(s) \/ s \in asked)
      BY DEF LosesOnlyToLater
  <2>2. row'[r] = row[r] /\ disk' # disk
      BY <1>1, <2>1, BackupsStayOnRecord DEF Intact
  <2>3. UNCHANGED <<task, today, row, asked>>
      BY <1>1, <2>2, DiskChangesAlone
  <2>4. KeptIsIntact'
      BY <1>1, StepKeepsIInv DEF IInv
  <2>5. ~PolicyKeeps(r)
    <3>1. ~PolicyKeeps(r)'
        BY <2>1, <2>3, <2>4 DEF KeptIsIntact, Successes
    <3> QED
        BY <2>3, <3>1 DEF PolicyKeeps, Rejected, ViolatesCount, ViolatesDays, Successes
  <2> DEFINE S == Successes(row)
  <2>6. S \in SUBSET RunIds /\ S # {}
      BY DEF Successes
  <2> HIDE DEF S
  <2>7. PICK m \in S : \A x \in S : x <= m
      BY <2>6, NewestExists
  <2>8. Rank(m, S) = 0
      BY <2>6, <2>7, NewestHasRankZero
  <2>9. PolicyKeeps(m) /\ m # r
      BY <2>5, <2>7, <2>8 DEF PolicyKeeps, S
  <2>10. r < m
      BY <2>6, <2>7, <2>9, NumbersAssumption DEF RunIds, S
  <2>11. /\ row[r].dump < row[m].dump /\ row[r].dump \in 1 .. dumps
         /\ row[m].dump \in 1 .. dumps
      BY <1>1, <2>1, <2>7, <2>10, SuccessIsCopy DEF IInv, DumpsInOrder, S
  <2>12. m \in RunIds /\ (Intact(m) \/ m \in asked)
      BY <1>1, <2>6, <2>7, <2>9 DEF IInv, KeptIsIntact
  <2>13. row[m].dump > row[r].dump
      BY <1>1, <2>11, Types, NumbersAssumption DEF IInv
  <2> QED
      BY <2>7, <2>12, <2>13 DEF S
<1>2. IInv /\ [Next]_vars => [Loses]_vars
    BY <1>1
<1> QED
    BY <1>2, FilesInvariance, PTL DEF Spec, LaterDumpExists

-----------------------------------------------------------------------------
(* What the documents promise, as far as it is so (section 4 of the README).  *)

\* Whatever becomes of the file of a valid backup, it is never half a file.
WholeOrGone == \A r \in Successes(row) : Intact(r) \/ Away(r)

LEMMA InitWhole == Init => WholeOrGone
BY Values DEF Init, WholeOrGone, Successes

\* A run becomes a Success only when its validators have seen its file.
LEMMA NewSuccess ==
    ASSUME IInv, Next, NEW r \in Successes(row'), r \notin Successes(row)
    PROVE  Validate /\ r = pull.run /\ disk'[row'[r].name] = FileOf(r)'
<1>1. /\ r \in RunIds /\ row'[r].status = "Success" /\ row'[r].name # None
      /\ ~(row[r].status = "Success" /\ row[r].name # None) /\ row \in [RunIds -> RowType]
      /\ PullFits
    BY Types DEF IInv, Successes
<1>2. ASSUME NEW status, Finish(status), pull.at # "idle"
      PROVE  r = pull.run /\ row'[r] = [row[r] EXCEPT !.status = status]
    BY <1>1, <1>2 DEF Finish, PullFits
<1>3. CASE NothingNew
  <2>1. r = pull.run /\ row'[r] = [row[r] EXCEPT !.status = "Success"]
      BY <1>2, <1>3 DEF NothingNew
  <2>2. row'[r].name = row[r].name
      BY <1>1, <2>1 DEF RowType
  <2>3. row[r].name = None
      BY <1>1, <1>3, <2>1 DEF NothingNew, PullFits, NoRow
  <2> QED
      BY <1>1, <2>2, <2>3
<1>4. CASE RunFails
  <2>1. row'[r] = [row[r] EXCEPT !.status = "Failed"]
      BY <1>2, <1>4 DEF RunFails
  <2> QED
      BY <1>1, <2>1 DEF RowType
<1>5. CASE Validate
  <2>1. /\ r = pull.run /\ row'[r].name = row[r].name /\ row'[r].dump = row[r].dump
        /\ row'[r].size = row[r].size
      BY <1>1, <1>2, <1>5 DEF Validate, RowType
  <2>2. row[r].name = pull.name /\ FileOf(r) = pull.got /\ disk[pull.name] = pull.got
      BY <1>1, <1>5, <2>1 DEF Validate, PullFits
  <2>3. disk' = disk
      BY <1>5 DEF Validate, Finish
  <2> QED
      BY <1>5, <2>1, <2>2, <2>3 DEF FileOf
<1>6. MarkValidating => row'[r].status # "Success" \/ row'[r] = row[r]
    BY <1>1 DEF MarkValidating, PullFits
<1>7. ASSUME NEW i \in RunIds, StartRun(i) PROVE row'[r].status # "Success" \/ row'[r] = row[r]
    BY <1>1, <1>7, Values DEF StartRun, NoRow
<1>8. ASSUME NEW n \in Names, RemoteStart(n) \/ RemoteRotate(n) \/ Choose(n)
      PROVE  row' = row
    BY <1>8 DEF RemoteStart, RemoteRotate, Choose
<1>9. ASSUME NEW n \in Names, NEW s \in Sizes, RemoteComplete(n, s) \/ Dump(n, s)
      PROVE  row' = row
    BY <1>9 DEF RemoteComplete, Dump
<1>10. NextDay \/ Download \/ Rename \/ RunDies => row' = row
    BY DEF NextDay, Download, Rename, RunDies
<1>11. ASSUME NEW i \in RunIds,
              \/ PassUnlink(i) \/ PassUnlinkFails(i) \/ PassRecord(i) \/ PassDies(i)
              \/ HandStart(i) \/ HandUnlink(i) \/ HandRecord(i) \/ HandStops(i)
       PROVE  row' = row
    BY <1>11 DEF PassUnlink, PassUnlinkFails, PassRecord, PassDies, HandStart, HandUnlink,
                 HandRecord, HandStops
<1> QED
    BY <1>1, <1>3, <1>4, <1>5, <1>6, <1>7, <1>8, <1>9, <1>10, <1>11 DEF Next

\* Of a name that a valid backup has, the file stays as it is or is unlinked.
LEMMA FileStaysOrGoes ==
    ASSUME IInv, Next, NEW r \in Successes(row)
    PROVE  disk'[row[r].name] = disk[row[r].name] \/ disk'[row[r].name] = NoFile
<1>1. row[r].name \in Names /\ row[r].name # pull.name /\ disk \in [Names -> File]
    BY SuccessIsCopy, Types DEF IInv, PullFits, Successes
<1>2. Rename => disk'[row[r].name] = disk[row[r].name]
    BY <1>1 DEF Rename
<1>3. ASSUME NEW i \in RunIds, PassUnlink(i) \/ HandUnlink(i)
      PROVE  disk'[row[r].name] = disk[row[r].name] \/ disk'[row[r].name] = NoFile
    BY <1>1, <1>3 DEF PassUnlink, HandUnlink
<1>4. ASSUME NEW n \in Names, RemoteStart(n) \/ RemoteRotate(n) \/ Choose(n)
      PROVE  disk' = disk
    BY <1>4 DEF RemoteStart, RemoteRotate, Choose
<1>5. ASSUME NEW n \in Names, NEW s \in Sizes, RemoteComplete(n, s) \/ Dump(n, s)
      PROVE  disk' = disk
    BY <1>5 DEF RemoteComplete, Dump
<1>6. NextDay \/ Download \/ MarkValidating \/ NothingNew \/ Validate \/ RunFails \/ RunDies
      => disk' = disk
    BY DEF NextDay, Download, MarkValidating, NothingNew, Validate, RunFails, RunDies, Finish
<1>7. ASSUME NEW i \in RunIds,
             \/ StartRun(i) \/ PassUnlinkFails(i) \/ PassRecord(i) \/ PassDies(i)
             \/ HandStart(i) \/ HandRecord(i) \/ HandStops(i)
      PROVE  disk' = disk
    BY <1>7 DEF StartRun, PassUnlinkFails, PassRecord, PassDies, HandStart, HandRecord, HandStops
<1> QED
    BY <1>2, <1>3, <1>4, <1>5, <1>6, <1>7 DEF Next

LEMMA StepWhole == ASSUME IInv, WholeOrGone, [Next]_vars PROVE WholeOrGone'
<1>1. CASE UNCHANGED vars
    BY <1>1 DEF WholeOrGone, Intact, Away, Successes, vars
<1>2. CASE Next
  <2>1. ASSUME NEW r \in Successes(row'), r \notin Successes(row) PROVE Intact(r)'
      BY <1>2, <2>1, NewSuccess DEF Intact, FileOf
  <2>2. ASSUME NEW r \in Successes(row') , r \in Successes(row) PROVE Intact(r)' \/ Away(r)'
    <3>1. row'[r] = row[r] /\ (Intact(r) \/ Away(r)) /\ (r \in Successes(row))'
        BY <1>2, <2>2, BackupsStayOnRecord DEF WholeOrGone, Successes
    <3> QED
        BY <1>2, <2>2, <3>1, FileStaysOrGoes DEF Intact, Away
  <2>3. Successes(row)' = Successes(row')
      BY DEF Successes
  <2> QED
      BY <2>1, <2>2, <2>3 DEF WholeOrGone
<1> QED
    BY <1>1, <1>2

\* As long as names are not reused, the download of a broken dump never takes the place of a
\* valid backup: runBackupTask renames before it validates, but never to the name of a
\* backup that was validated (project.md:304).
THEOREM BrokenReplacesNothing ==
    ASSUME NamesAreNew, OnlySuccessesGo PROVE Spec => []BrokenNeverReplacesValid
<1>1. ASSUME IInv, WholeOrGone PROVE BrokenNeverReplacesValid
  <2>1. ASSUME NEW r \in Successes(row) PROVE disk[row[r].name].size # Partial
    <3>1. row[r].size \in Sizes /\ (Intact(r) \/ disk[row[r].name] = NoFile)
        BY <1>1, SuccessIsCopy DEF WholeOrGone, Away
    <3> QED
        BY <3>1, Values DEF Intact
  <2> QED
      BY <2>1 DEF BrokenNeverReplacesValid
<1>2. IInv /\ WholeOrGone /\ [Next]_vars => WholeOrGone'
    BY StepWhole
<1> QED
    BY <1>1, <1>2, InitWhole, FilesInvariance, PTL DEF Spec

\* As long as names are not reused, a run that found nothing new has a dump of each file in
\* the remote directory: comparing names and sizes is enough (fetchExistingExecutor.ts:47).
THEOREM NothingNewIsBelievable ==
    ASSUME NamesAreNew, OnlySuccessesGo PROVE Spec => NothingNewIsTrue
<1> DEFINE True == NothingNew => \A n \in Listed : \E r \in RunIds : row[r].dump = remote[n].dump
<1>1. ASSUME IInv, NothingNew, NEW n \in Listed
      PROVE  \E r \in RunIds : row[r].dump = remote[n].dump
  <2>1. Fetched(n) /\ n \in Names /\ remote[n] # NoFile
      BY <1>1 DEF NothingNew, Candidates, Listed
  <2>2. PICK r \in RunIds : row[r].status = "Success" /\ row[r].name = n
      BY <2>1 DEF Fetched
  <2>3. r \in Successes(row)
      BY <2>1, <2>2, Values DEF Successes
  <2>4. FileOf(r) \in Files /\ Copy(n, FileOf(r))
      BY <1>1, <2>2, <2>3, SuccessIsCopy
  <2>5. remote[n] \in Files /\ Copy(n, remote[n])
      BY <1>1, <2>1, Types DEF IInv, Files, Copy
  <2>6. FileOf(r).dump = remote[n].dump
      BY <1>1, <2>1, <2>4, <2>5 DEF IInv, OneDumpPerName
  <2> QED
      BY <2>6 DEF FileOf
<1>2. IInv /\ [Next]_vars => [True]_vars
    BY <1>1
<1> QED
    BY <1>2, FilesInvariance, PTL DEF Spec, NothingNewIsTrue

\* As long as only successful runs are deleted by hand and names are not reused, deleteBackupRun
\* removes the file of the run it was asked for and no other ("Deletes one specific backup",
\* deleteBackupRun.ts:13).
THEOREM HandDeletesItsOwn ==
    ASSUME NamesAreNew, OnlySuccessesGo PROVE Spec => DeletesOnlyItsOwn
<1> DEFINE Own(r) == hand[r] = "unlinking" /\ hand'[r] = "recording" =>
                        \A s \in Successes(row) \ {r} : Intact(s) => Intact(s)'
<1>1. ASSUME IInv, Next, NEW r \in RunIds, hand[r] = "unlinking", hand'[r] = "recording",
             NEW s \in Successes(row) \ {r}, Intact(s)
      PROVE  Intact(s)'
  <2>1. hand \in [RunIds -> {"idle", "unlinking", "recording"}] /\ hand' # hand
      BY <1>1, Types DEF IInv
  <2>2. PICK i \in RunIds : HandStart(i) \/ HandUnlink(i) \/ HandRecord(i) \/ HandStops(i)
    <3>1. ASSUME NEW n \in Names, RemoteStart(n) \/ RemoteRotate(n) \/ Choose(n)
          PROVE  hand' = hand
        BY <3>1 DEF RemoteStart, RemoteRotate, Choose
    <3>2. ASSUME NEW n \in Names, NEW z \in Sizes, RemoteComplete(n, z) \/ Dump(n, z)
          PROVE  hand' = hand
        BY <3>2 DEF RemoteComplete, Dump
    <3>3. \/ NextDay \/ Download \/ Rename \/ MarkValidating \/ NothingNew \/ Validate
          \/ RunFails \/ RunDies
          => hand' = hand
        BY DEF NextDay, Download, Rename, MarkValidating, NothingNew, Validate, RunFails,
               RunDies, Finish
    <3>4. ASSUME NEW i \in RunIds, \/ StartRun(i) \/ PassUnlink(i) \/ PassUnlinkFails(i)
                                   \/ PassRecord(i) \/ PassDies(i)
          PROVE  hand' = hand
        BY <3>4 DEF StartRun, PassUnlink, PassUnlinkFails, PassRecord, PassDies
    <3> QED
        BY <1>1, <2>1, <3>1, <3>2, <3>3, <3>4 DEF Next
  <2>3. HandUnlink(r)
      BY <1>1, <2>1, <2>2 DEF HandStart, HandUnlink, HandRecord, HandStops
  <2>4. r \in Successes(row)
      BY <1>1 DEF IInv, HandsFit
  <2>5. row[s].name # row[r].name /\ row[s].name \in Names /\ disk \in [Names -> File]
      BY <1>1, <2>4, SuccessIsCopy, Types DEF IInv, RowsFit
  <2> QED
      BY <1>1, <2>3, <2>5 DEF HandUnlink, Intact
<1>2. IInv /\ [Next]_vars => [\A r \in RunIds : Own(r)]_vars
    BY <1>1
<1> QED
    BY <1>2, FilesInvariance, PTL DEF Spec, DeletesOnlyItsOwn

\* As long as nobody deletes a backup by hand and names are not reused, a retention pass leaves
\* a valid backup on disk, however old the list is that it works off (applyRetention.ts).
THEOREM RetentionLeavesABackup ==
    ASSUME NamesAreNew, Deletable = {} PROVE Spec => RetentionLeavesOne
<1> DEFINE NobodyAsks == asked = {}
           Leaves == (\E r \in RunIds : ~pass[r].unlinked /\ pass'[r].unlinked)
                        /\ (\E s \in Successes(row) : Intact(s))
                     => (\E s \in Successes(row) : Intact(s))'
<1>1. OnlySuccessesGo
    BY DEF OnlySuccessesGo
<1>2. Init => NobodyAsks
    BY DEF Init
<1>3. ASSUME NobodyAsks, [Next]_vars PROVE NobodyAsks'
  <2>1. \A r : ~HandStart(r)
      BY DEF HandStart
  <2>2. ASSUME NEW n \in Names, RemoteStart(n) \/ RemoteRotate(n) \/ Choose(n)
        PROVE  asked' = asked
      BY <2>2 DEF RemoteStart, RemoteRotate, Choose
  <2>3. ASSUME NEW n \in Names, NEW s \in Sizes, RemoteComplete(n, s) \/ Dump(n, s)
        PROVE  asked' = asked
      BY <2>3 DEF RemoteComplete, Dump
  <2>4. \/ NextDay \/ Download \/ Rename \/ MarkValidating \/ NothingNew \/ Validate
        \/ RunFails \/ RunDies \/ UNCHANGED vars
        => asked' = asked
      BY DEF NextDay, Download, Rename, MarkValidating, NothingNew, Validate, RunFails,
             RunDies, Finish, vars
  <2>5. ASSUME NEW i \in RunIds,
               \/ StartRun(i) \/ PassUnlink(i) \/ PassUnlinkFails(i) \/ PassRecord(i)
               \/ PassDies(i) \/ HandUnlink(i) \/ HandRecord(i) \/ HandStops(i)
        PROVE  asked' = asked
      BY <2>5 DEF StartRun, PassUnlink, PassUnlinkFails, PassRecord, PassDies, HandUnlink,
                  HandRecord, HandStops
  <2> QED
      BY <1>3, <2>1, <2>2, <2>3, <2>4, <2>5 DEF Next
<1>4. ASSUME IInv, NobodyAsks, Next, NEW r \in RunIds, ~pass[r].unlinked, pass'[r].unlinked,
             NEW s \in Successes(row)
      PROVE  (\E m \in Successes(row) : Intact(m))'
  <2> DEFINE S == Successes(row')
  <2>1. IInv' /\ NobodyAsks'
      BY <1>1, <1>3, <1>4, StepKeepsIInv
  <2>2. s \in S
      BY <1>4, BackupsStayOnRecord DEF Successes
  <2>3. S \in SUBSET RunIds /\ S # {}
      BY <2>2 DEF Successes
  <2> HIDE DEF S
  <2>4. PICK m \in S : \A x \in S : x <= m
      BY <2>3, NewestExists
  <2>5. Rank(m, S) = 0
      BY <2>3, <2>4, NewestHasRankZero
  <2>6. PolicyKeeps(m)'
      BY <2>4, <2>5 DEF PolicyKeeps, S, Successes, Rank
  <2>7. Intact(m)'
      BY <2>1, <2>3, <2>4, <2>6 DEF IInv, KeptIsIntact
  <2> QED
      BY <2>4, <2>7 DEF S, Successes
<1>5. IInv /\ NobodyAsks /\ [Next]_vars => [Leaves]_vars
    BY <1>4
<1>6. Spec => []IInv
    BY <1>1, FilesInvariance
<1>7. NobodyAsks /\ [Next]_vars => NobodyAsks'
    BY <1>3
<1> QED
    BY <1>2, <1>5, <1>6, <1>7, PTL DEF Spec, RetentionLeavesOne

-----------------------------------------------------------------------------
(***************************************************************************)
(* The backups of the vault.                                               *)
(*                                                                         *)
(* What the history calls a success can be restored, and no file goes      *)
(* before a newer one is whole in its place. The reason for both is        *)
(* RunFits, what a run in progress can count on: from its check or its     *)
(* upload on, a whole file at least as new as its own is in its folder,    *)
(* whatever other runs prune there.                                        *)
(***************************************************************************)
\* A folder of Drive keeps none or several: with one, the listing leaves the run's own file
\* out and reserves its only place, so every older file goes, also one that a run of another
\* process has just recorded.
DriveKeepsMore == 1 \notin DriveKeeps
\* The disk does not spoil a file while another process is at work in the folders.
SpoiltAlone == ~SpoiltInRace
\* What VaultBackups assumes of its constants, and these two.
Assumed ==
    /\ KindsAssumption /\ KeepsAssumption /\ CallsAssumption /\ RaceAssumption
    /\ BoundsAssumption /\ DriveKeepsMore /\ SpoiltAlone

LEMMA ConstantsFit ==
    ASSUME DriveKeepsMore, SpoiltAlone
    PROVE  Assumed
BY KindsAssumption, KeepsAssumption, CallsAssumption, RaceAssumption, BoundsAssumption
   DEF Assumed

TargetType == [state : {"absent", "never", "fresh", "stale", "failed", "removed"},
               enabled : BOOLEAN, folder : Folders, keep : Nat]
\* A row whose target is a folder of Drive keeps none or several.
ListedRow == {r \in Row : r.id \in Drive => r.keep # 1}
CallType == [op : {"none", "sweep", "due", "all"}, todo : Seq(ListedRow),
             step : {"next", "check", "prune", "upload", "list", "delete", "record"},
             file : Arkvault \cup {Idle.file}, doomed : SUBSET Arkvault]

BackupsTyped ==
    /\ targets \in [Target -> TargetType]
    /\ \A t \in Drive : targets[t].keep # 1
    /\ successes \in [Target -> [folder : Folders, time : Nat]]
    /\ files \in [Place -> SUBSET Arkvault]
    /\ calls \in [Calls -> CallType]
    /\ sweeping \in BOOLEAN /\ unlocked \in BOOLEAN
    /\ clock \in Nat /\ events \in 0 .. MaxEvents /\ password \in 0 .. events

\* A call in progress has a list, and is idle otherwise; a run has a file.
CallWhole(k) ==
    /\ k.op = "none" => k = Idle
    /\ k.op # "none" => k.todo # <<>>
    /\ k.step # "next" => k.file \in Arkvault
    /\ k.step = "next" => k.doomed = {}

\* Drive's files were checked before they were sent; a folder has finitely many.
FilesFit ==
    /\ \A p \in Place : IsFiniteSet(files[p]) /\ \A f \in files[p] : f.time <= clock
    /\ \A p \in Place : p[1] \in Drive => \A f \in files[p] : f.good

PlaceOf(k) == <<Head(k.todo).id, Head(k.todo).folder>>
HasNewer(k, fs) == \E g \in fs[PlaceOf(k)] : g.good /\ g.time >= k.file.time

\* What a run in progress can count on, with these files and as many runs started.
RunFits(k, fs, now) ==
    k.step # "next" =>
        /\ k.file.time <= now
        /\ Head(k.todo).id \in Drive =>
            k.step \in {"upload", "list", "delete", "record"} /\ k.file.good
        /\ Head(k.todo).id \in Local => k.step \in {"check", "prune", "record"}
        /\ k.step = "prune" => k.file.good
        /\ k.step = "list" => Head(k.todo).keep # 0
        /\ k.step = "delete" => k.doomed # {} /\ IsFiniteSet(k.doomed)
        /\ k.step \in {"prune", "list", "delete", "record"} => HasNewer(k, fs)
        /\ k.step \in {"check", "prune"} =>
            \A n \in fs[PlaceOf(k)] : n # k.file /\ ~n.good => n.time < k.file.time
        /\ \A f \in k.doomed : \E g \in fs[PlaceOf(k)] : g.good /\ g.time > f.time

CallsFit == \A c \in Calls : CallWhole(calls[c]) /\ RunFits(calls[c], files, clock)

BackupsFit == BackupsTyped /\ FilesFit /\ CallsFit /\ SuccessIsThere

\* What any step does to the files.
NewerStays(fs, fs2) ==
    \A p \in Place : \A f \in fs[p] \ fs2[p] : \E g \in fs2[p] : g.good /\ g.time > f.time

-----------------------------------------------------------------------------
\* The newest of finitely many files.
LEMMA NewestFileExists ==
    ASSUME NEW S, IsFiniteSet(S), S # {}, \A f \in S : f.time \in Nat
    PROVE  \E m \in S : \A f \in S : f.time <= m.time
<1> DEFINE Above(x) == {y \in S : y.time > x.time}
           T == {Above(x) : x \in S}
<1>1. T # {}
  <2>1. PICK x \in S : TRUE
    OBVIOUS
  <2>2. Above(x) \in T
    BY <2>1
  <2> QED
    BY <2>2
<1>2. T \subseteq FiniteSubsetsOf(S)
  <2>1. \A x \in S : Above(x) \subseteq S /\ IsFiniteSet(Above(x))
    BY FS_Subset
  <2> QED
    BY <2>1 DEF FiniteSubsetsOf
<1>3. PICK A \in T : \A B \in T : ~(<<B, A>> \in StrictSubsetOrdering(S))
  <2> HIDE DEF T
  <2> QED
    BY <1>1, <1>2, FS_StrictSubsetOrderingWellFounded, WFMin
<1>4. PICK m \in S : A = Above(m)
  OBVIOUS
<1>5. ASSUME NEW x \in S, ~(x.time <= m.time)
      PROVE  FALSE
  <2>1. x.time > m.time
    BY <1>5
  <2>2. Above(x) \subseteq Above(m)
    <3>1. \A y \in S : y.time > x.time => y.time > m.time
      BY <2>1
    <3> QED
      BY <3>1
  <2>3. x \in Above(m) /\ ~(x.time > x.time)
    BY <2>1
  <2>4. x \notin Above(x)
    BY <2>3
  <2>5. <<Above(x), A>> \in StrictSubsetOrdering(S)
    BY <1>4, <2>2, <2>3, <2>4 DEF StrictSubsetOrdering
  <2> QED
    BY <1>3, <2>5
<1> QED
  BY <1>5

\* The newest k of a set hold its newest, and something newer than what they leave out.
LEMMA NewestHolds ==
    ASSUME NEW S, IsFiniteSet(S), \A f \in S : f.time \in Nat, NEW k \in Nat, k # 0
    PROVE  /\ Newest(S, k) \subseteq S
           /\ \A m \in S : (\A f \in S : f.time <= m.time) => m \in Newest(S, k)
           /\ \A f \in S \ Newest(S, k) : \E g \in S : g.time > f.time
<1>1. ASSUME NEW m \in S, {g \in S : g.time > m.time} = {}
      PROVE  m \in Newest(S, k)
  <2>1. Cardinality({g \in S : g.time > m.time}) = 0
    BY <1>1, FS_EmptySet
  <2> QED
    BY <2>1 DEF Newest
<1>2. ASSUME NEW m \in S, \A f \in S : f.time <= m.time
      PROVE  {g \in S : g.time > m.time} = {}
  BY <1>2
<1>3. Newest(S, k) \subseteq S
  BY DEF Newest
<1> QED
  BY <1>1, <1>2, <1>3

\* The list of a call has a row of each target.
LEMMA ListedType ==
    ASSUME Assumed, BackupsTyped, NEW S \in SUBSET Target, S # {}
    PROVE  TodoOf(S) \in Seq(ListedRow) /\ TodoOf(S) # <<>>
<1>1. IsFiniteSet(S)
  BY FS_Subset DEF Assumed, KindsAssumption, Target
<1>2. PICK n \in Nat : ExistsBijection(1 .. n, S)
  BY <1>1, FS_NatBijection
<1>3. Cardinality(S) = n
  BY <1>2, FS_CountingElements
<1>4. n # 0
  BY <1>1, <1>3, FS_EmptySet
<1>5. PICK g \in [1 .. n -> S] : IsInjective(g)
  <2>1. PICK g \in Bijection(1 .. n, S) : TRUE
    BY <1>2 DEF ExistsBijection
  <2>2. g \in [1 .. n -> S] /\ \A a, b \in 1 .. n : g[a] = g[b] => a = b
    BY <2>1 DEF Bijection, Injection, IsInjective
  <2>3. IsInjective(g)
    BY <2>2 DEF IsInjective
  <2> QED
    BY <2>2, <2>3
<1>6. SetToSeq(S) \in [1 .. n -> S]
  BY <1>3, <1>5 DEF SetToSeq
<1>7. ASSUME NEW i \in 1 .. n
      PROVE  [id |-> SetToSeq(S)[i], folder |-> targets[SetToSeq(S)[i]].folder,
              keep |-> targets[SetToSeq(S)[i]].keep] \in ListedRow
  <2>1. SetToSeq(S)[i] \in Target
    BY <1>6
  <2>2. targets[SetToSeq(S)[i]] \in TargetType
    BY <2>1 DEF BackupsTyped
  <2> QED
    BY <2>1, <2>2 DEF ListedRow, Row, BackupsTyped, TargetType
<1>8. TodoOf(S) \in [1 .. n -> ListedRow]
  BY <1>3, <1>7 DEF TodoOf
<1>9. TodoOf(S) \in Seq(ListedRow) /\ Len(TodoOf(S)) = n
  BY <1>8
<1> QED
  BY <1>4, <1>9

-----------------------------------------------------------------------------
\* What a run can count on is not taken away by what others do to the files.
LEMMA RunStillFits ==
    ASSUME NEW fs \in [Place -> SUBSET Arkvault], NEW fs2 \in [Place -> SUBSET Arkvault],
           NEW now \in Nat, NEW now2 \in Nat, now <= now2, NewerStays(fs, fs2),
           NEW k \in CallType, CallWhole(k), RunFits(k, fs, now),
           k.step \in {"check", "prune"} =>
              \A n \in fs2[PlaceOf(k)] \ fs[PlaceOf(k)] : n.good
    PROVE  RunFits(k, fs2, now2)
<1> SUFFICES ASSUME k.step # "next" PROVE RunFits(k, fs2, now2)
  BY DEF RunFits
<1>1. k.file \in Arkvault /\ k.file.time \in Nat
  BY DEF CallWhole, Arkvault, Times
<1>2. Head(k.todo) \in Row /\ PlaceOf(k) \in Place
  <2>1. k.todo \in Seq(ListedRow) /\ k.todo # <<>>
    <3>1. k.op # "none"
      BY DEF CallWhole, Idle
    <3> QED
      BY <3>1 DEF CallType, CallWhole
  <2>2. Head(k.todo) \in ListedRow
    BY <2>1
  <2> QED
    BY <2>2 DEF ListedRow, Row, PlaceOf, Place
<1>3. ASSUME NEW t \in Nat, NEW g \in fs[PlaceOf(k)], g.good, g.time >= t
      PROVE  \E h \in fs2[PlaceOf(k)] : h.good /\ h.time >= t
  <2>1. CASE g \in fs2[PlaceOf(k)]
    BY <1>3, <2>1
  <2>2. CASE g \notin fs2[PlaceOf(k)]
    <3>1. PICK h \in fs2[PlaceOf(k)] : h.good /\ h.time > g.time
      BY <1>2, <2>2 DEF NewerStays
    <3>2. h.time \in Nat /\ g.time \in Nat
      BY <1>2, <3>1 DEF Arkvault, Times
    <3> QED
      BY <1>3, <3>1, <3>2
  <2> QED
    BY <2>1, <2>2
<1>4. HasNewer(k, fs) => HasNewer(k, fs2)
  BY <1>1, <1>3 DEF HasNewer
<1>5. ASSUME NEW f \in k.doomed
      PROVE  \E g \in fs2[PlaceOf(k)] : g.good /\ g.time > f.time
  <2>1. f \in Arkvault /\ f.time \in Nat
    BY DEF CallType, Arkvault, Times
  <2>2. PICK g \in fs[PlaceOf(k)] : g.good /\ g.time > f.time
    BY DEF RunFits
  <2>3. g.time \in Nat
    BY <1>2, <2>2 DEF Arkvault, Times
  <2>4. g.time >= f.time + 1 /\ f.time + 1 \in Nat
    BY <2>1, <2>2, <2>3
  <2>5. PICK h \in fs2[PlaceOf(k)] : h.good /\ h.time >= f.time + 1
    BY <1>3, <2>2, <2>4
  <2>6. h.time \in Nat
    BY <1>2, <2>5 DEF Arkvault, Times
  <2> QED
    BY <2>1, <2>5, <2>6
<1>6. k.step \in {"check", "prune"} =>
        \A n \in fs2[PlaceOf(k)] : n # k.file /\ ~n.good => n.time < k.file.time
  BY DEF RunFits
<1>7. k.file.time <= now2
  BY <1>1 DEF RunFits
<1> QED
  BY <1>4, <1>5, <1>6, <1>7 DEF RunFits

\* A step of one call, the others as they were.
LEMMA CallStep ==
    ASSUME BackupsTyped, CallsFit, NEW c \in Calls, NEW k \in CallType, CallWhole(k),
           RunFits(k, files', clock'), calls' = [calls EXCEPT ![c] = k],
           files' \in [Place -> SUBSET Arkvault], clock' \in Nat, clock <= clock',
           NewerStays(files, files'),
           \A d \in Calls \ {c} : calls[d].step \in {"check", "prune"} =>
              \A n \in files'[PlaceOf(calls[d])] \ files[PlaceOf(calls[d])] : n.good
    PROVE  CallsFit' /\ calls' \in [Calls -> CallType]
<1>1. calls' \in [Calls -> CallType]
  BY DEF BackupsTyped
<1>2. calls'[c] = k /\ \A d \in Calls \ {c} : calls'[d] = calls[d]
  BY DEF BackupsTyped
<1>3. CallWhole(calls'[c]) /\ RunFits(calls'[c], files', clock')
  BY <1>2
<1>4. ASSUME NEW d \in Calls \ {c}
      PROVE  CallWhole(calls'[d]) /\ RunFits(calls'[d], files', clock')
  <2>1. calls[d] \in CallType /\ CallWhole(calls[d]) /\ RunFits(calls[d], files, clock)
    BY DEF BackupsTyped, CallsFit
  <2>2. RunFits(calls[d], files', clock')
    BY <2>1, RunStillFits DEF BackupsTyped
  <2> QED
    BY <1>2, <2>1, <2>2
<1> QED
  BY <1>1, <1>3, <1>4 DEF CallsFit

\* A success on record is not taken away by what others do to the files.
LEMMA SuccessStays ==
    ASSUME BackupsTyped, SuccessIsThere, files' \in [Place -> SUBSET Arkvault],
           NewerStays(files, files'), NEW t \in Target, successes[t].time > 0
    PROVE  \E f \in files'[<<t, successes[t].folder>>] : f.good /\ f.time >= successes[t].time
<1> DEFINE p == <<t, successes[t].folder>>
<1>1. p \in Place /\ successes[t].time \in Nat
  BY DEF BackupsTyped, Place
<1>2. PICK f \in files[p] : f.good /\ f.time >= successes[t].time
  BY DEF SuccessIsThere
<1>3. CASE f \in files'[p]
  BY <1>2, <1>3
<1>4. CASE f \notin files'[p]
  <2>1. PICK g \in files'[p] : g.good /\ g.time > f.time
    BY <1>1, <1>4 DEF NewerStays
  <2>2. g.time \in Nat /\ f.time \in Nat
    BY <1>1, <1>2, <2>1 DEF BackupsTyped, Arkvault, Times
  <2> QED
    BY <1>1, <1>2, <2>1, <2>2
<1> QED
  BY <1>3, <1>4

LEMMA SameFiles ==
    ASSUME BackupsTyped, UNCHANGED files
    PROVE  NewerStays(files, files') /\ files' \in [Place -> SUBSET Arkvault]
BY DEF NewerStays, BackupsTyped

\* The rest of a list, or nothing.
LEMMA RestFits ==
    ASSUME BackupsTyped, CallsFit, NEW c \in Calls, calls[c].op # "none"
    PROVE  /\ Rest(c) \in CallType /\ CallWhole(Rest(c)) /\ Rest(c).step = "next"
           /\ Idle \in CallType /\ CallWhole(Idle) /\ Idle.step = "next"
<1>1. calls[c] \in CallType /\ calls[c].todo # <<>>
  BY DEF BackupsTyped, CallsFit, CallWhole
<1>2. /\ Idle \in CallType /\ CallWhole(Idle) /\ Idle.step = "next"
  <2>1. <<>> \in Seq(ListedRow)
    OBVIOUS
  <2> QED
    BY <2>1 DEF Idle, CallType, CallWhole
<1>3. CASE Len(calls[c].todo) = 1
  BY <1>2, <1>3 DEF Rest
<1>4. CASE Len(calls[c].todo) # 1
  <2> DEFINE rest == Tail(calls[c].todo)
  <2>1. calls[c].todo \in Seq(ListedRow)
    BY <1>1 DEF CallType
  <2>2. rest \in Seq(ListedRow) /\ rest # <<>>
    <3>1. rest \in Seq(ListedRow) /\ Len(rest) = Len(calls[c].todo) - 1
      BY <1>1, <2>1, HeadTailProperties
    <3>2. Len(calls[c].todo) \in Nat /\ Len(calls[c].todo) # 0
      BY <1>1, <2>1, EmptySeq
    <3>3. Len(rest) # 0
      BY <1>4, <3>1, <3>2
    <3> HIDE DEF rest
    <3> QED
      BY <3>1, <3>3, EmptySeq
  <2>3. Rest(c) = [calls[c] EXCEPT !.todo = rest, !.step = "next", !.file = Idle.file,
                                   !.doomed = {}]
    BY <1>4 DEF Rest
  <2> HIDE DEF rest
  <2>4. Rest(c) \in CallType
    BY <1>1, <2>2, <2>3 DEF CallType
  <2>5. /\ Rest(c).op = calls[c].op /\ Rest(c).step = "next" /\ Rest(c).todo = rest
        /\ Rest(c).doomed = {}
    BY <1>1, <2>3 DEF CallType
  <2> QED
    BY <1>2, <2>2, <2>4, <2>5 DEF CallWhole
<1> QED
  BY <1>2, <1>3, <1>4

\* A run that ends, with the files as they are.
LEMMA RunEnds ==
    ASSUME BackupsTyped, CallsFit, FilesFit, NEW c \in Calls, calls[c].op # "none",
           NEW state \in {"fresh", "failed"}, recordRun(c, state),
           UNCHANGED <<files, unlocked, password, clock>>
    PROVE  /\ targets' \in [Target -> TargetType] /\ \A t \in Drive : targets'[t].keep # 1
           /\ calls' \in [Calls -> CallType] /\ CallsFit' /\ FilesFit'
           /\ sweeping' \in BOOLEAN
<1>1. PICK k \in {Rest(c), Idle} : calls' = [calls EXCEPT ![c] = k]
  BY DEF recordRun
<1>2. k \in CallType /\ CallWhole(k) /\ k.step = "next"
  BY RestFits
<1>3. RunFits(k, files', clock')
  BY <1>2 DEF RunFits
<1>4. CallsFit' /\ calls' \in [Calls -> CallType]
  <2>1. clock' \in Nat /\ clock <= clock' /\ files' = files
    BY DEF BackupsTyped
  <2>2. \A q : files'[q] \ files[q] = {}
    BY <2>1
  <2> QED
    BY <1>1, <1>2, <1>3, <2>1, <2>2, SameFiles, CallStep
<1>5. Now(c).id \in Target
  <2>1. calls[c].todo \in Seq(ListedRow) /\ calls[c].todo # <<>>
    BY DEF BackupsTyped, CallType, CallsFit, CallWhole
  <2>2. Head(calls[c].todo) \in ListedRow
    BY <2>1
  <2> QED
    BY <2>2 DEF Now, ListedRow, Row
<1>6. \/ targets' = targets
      \/ targets' = [targets EXCEPT ![Now(c).id].state = state]
  BY DEF recordRun
<1>7. targets' \in [Target -> TargetType] /\ \A t \in Drive : targets'[t].keep # 1
  BY <1>5, <1>6 DEF BackupsTyped, TargetType, Target
<1>8. sweeping' \in BOOLEAN
  BY Zenon DEF recordRun, SweepEndsWith, BackupsTyped
<1>9. FilesFit'
  BY DEF FilesFit
<1> QED
  BY <1>4, <1>7, <1>8, <1>9

\* Adding a file to a folder, and taking files away.
LEMMA FilesAdded ==
    ASSUME BackupsTyped, FilesFit, NEW p \in Place, NEW f \in Arkvault,
           files' = [files EXCEPT ![p] = @ \cup {f}],
           clock' \in Nat, clock <= clock', f.time <= clock', p[1] \in Drive => f.good
    PROVE  FilesFit' /\ files' \in [Place -> SUBSET Arkvault] /\ NewerStays(files, files')
<1>1. files' \in [Place -> SUBSET Arkvault]
  BY DEF BackupsTyped
<1>2. NewerStays(files, files')
  BY DEF BackupsTyped, NewerStays
<1>3. ASSUME NEW q \in Place
      PROVE  /\ IsFiniteSet(files'[q])
             /\ \A g \in files'[q] : g.time <= clock'
             /\ q[1] \in Drive => \A g \in files'[q] : g.good
  <2>1. files'[q] = IF q = p THEN files[q] \cup {f} ELSE files[q]
    BY DEF BackupsTyped
  <2>2. IsFiniteSet(files[q]) /\ IsFiniteSet(files[q] \cup {f})
    BY FS_AddElement DEF FilesFit
  <2>3. \A g \in files[q] : g.time <= clock'
    <3>1. \A g \in files[q] : g.time \in Nat /\ g.time <= clock
      BY DEF BackupsTyped, FilesFit, Arkvault, Times
    <3> QED
      BY <3>1 DEF BackupsTyped
  <2> QED
    BY <2>1, <2>2, <2>3 DEF FilesFit
<1> QED
  BY <1>1, <1>2, <1>3 DEF FilesFit

LEMMA FilesTaken ==
    ASSUME BackupsTyped, FilesFit, NEW p \in Place, NEW S \in SUBSET files[p],
           files' = [files EXCEPT ![p] = S], UNCHANGED clock,
           \A f \in files[p] \ S : \E g \in S : g.good /\ g.time > f.time
    PROVE  FilesFit' /\ files' \in [Place -> SUBSET Arkvault] /\ NewerStays(files, files')
<1>1. S \subseteq Arkvault
  BY DEF BackupsTyped
<1>2. files' \in [Place -> SUBSET Arkvault]
  BY <1>1 DEF BackupsTyped
<1>3. \A q \in Place : files'[q] = IF q = p THEN S ELSE files[q]
  BY DEF BackupsTyped
<1>4. IsFiniteSet(S)
  BY FS_Subset DEF FilesFit
<1> QED
  BY <1>2, <1>3, <1>4 DEF FilesFit, NewerStays

-----------------------------------------------------------------------------
LEMMA RunAt ==
    ASSUME BackupsTyped, CallsFit, NEW c \in Calls, calls[c].op # "none"
    PROVE  /\ Now(c) = Head(calls[c].todo) /\ Now(c) \in ListedRow
           /\ At(c) = PlaceOf(calls[c]) /\ At(c) \in Place /\ At(c)[1] = Now(c).id
           /\ Now(c).id \in Drive \/ Now(c).id \in Local
           /\ calls[c] \in CallType /\ CallWhole(calls[c]) /\ RunFits(calls[c], files, clock)
<1>1. calls[c] \in CallType /\ CallWhole(calls[c]) /\ RunFits(calls[c], files, clock)
  BY DEF BackupsTyped, CallsFit
<1>2. calls[c].todo \in Seq(ListedRow) /\ calls[c].todo # <<>>
  BY <1>1 DEF CallType, CallWhole
<1>3. Head(calls[c].todo) \in ListedRow
  BY <1>2
<1> QED
  BY <1>1, <1>3 DEF Now, At, PlaceOf, ListedRow, Row, Place, Target

LEMMA SuccessKept ==
    ASSUME BackupsTyped, SuccessIsThere, files' \in [Place -> SUBSET Arkvault],
           NewerStays(files, files'), UNCHANGED successes
    PROVE  SuccessIsThere'
BY SuccessStays DEF SuccessIsThere

LEMMA BeginFits ==
    ASSUME Assumed, BackupsTyped, CallsFit, NEW c \in Calls, NEW op \in {"sweep", "due", "all"},
           NEW S \in SUBSET Target, Begin(c, op, S), UNCHANGED <<files, clock>>
    PROVE  CallsFit' /\ calls' \in [Calls -> CallType]
<1> DEFINE k == [Idle EXCEPT !.op = op, !.todo = TodoOf(S)]
<1>1. S # {} /\ calls' = [calls EXCEPT ![c] = k]
  BY DEF Begin
<1>2. TodoOf(S) \in Seq(ListedRow) /\ TodoOf(S) # <<>>
  BY <1>1, ListedType
<1>3. /\ k \in CallType /\ k.op # "none" /\ k.todo = TodoOf(S) /\ k.step = "next"
      /\ k.doomed = {}
  BY <1>2 DEF Idle, CallType
<1> HIDE DEF k
<1>4. CallWhole(k) /\ RunFits(k, files', clock')
  BY <1>2, <1>3 DEF CallWhole, RunFits
<1>5. clock' \in Nat /\ clock <= clock' /\ \A q : files'[q] \ files[q] = {}
  BY DEF BackupsTyped
<1> QED
  BY <1>1, <1>3, <1>4, <1>5, SameFiles, CallStep

LEMMA BeginStep ==
    ASSUME Assumed, BackupsFit, NEW c \in Calls,
           runVaultBackupsQuietly(c) \/ Unlock(c) \/ RunAll(c) \/ ChangePassword(c)
    PROVE  BackupsFit' /\ NewerStays(files, files')
<1>1. /\ UNCHANGED <<targets, successes, files, clock>>
      /\ \E op \in {"sweep", "due", "all"}, S \in SUBSET Target : Begin(c, op, S)
  <2>1. Due \in SUBSET Target /\ Enabled \in SUBSET Target
    BY DEF Due, Enabled
  <2> QED
    BY <2>1 DEF runVaultBackupsQuietly, Unlock, RunAll, ChangePassword
<1>2. CallsFit' /\ calls' \in [Calls -> CallType]
  BY <1>1, BeginFits DEF BackupsFit
<1>3. NewerStays(files, files') /\ files' \in [Place -> SUBSET Arkvault]
  BY <1>1, SameFiles DEF BackupsFit
<1>4. SuccessIsThere'
  BY <1>1, <1>3, SuccessKept DEF BackupsFit
<1>5. FilesFit'
  BY <1>1 DEF BackupsFit, FilesFit
<1>6. sweeping' \in BOOLEAN /\ unlocked' \in BOOLEAN
  BY Zenon DEF runVaultBackupsQuietly, Unlock, RunAll, ChangePassword, BackupsFit, BackupsTyped
<1>7. events' \in 0 .. MaxEvents /\ password' \in 0 .. events'
  <2> USE DEF BackupsFit, BackupsTyped
  <2>1. MaxEvents \in Nat
    BY DEF Assumed, BoundsAssumption
  <2>2. runVaultBackupsQuietly(c) \/ Unlock(c) \/ RunAll(c) => UNCHANGED <<password, events>>
    BY DEF runVaultBackupsQuietly, Unlock, RunAll
  <2>3. ChangePassword(c) => events' = events + 1 /\ events < MaxEvents /\ password' = password + 1
    BY DEF ChangePassword, Event
  <2> QED
    BY <2>1, <2>2, <2>3
<1> QED
  BY <1>1, <1>2, <1>3, <1>4, <1>5, <1>6, <1>7 DEF BackupsFit, BackupsTyped

\* What every step of a run has to keep, put together.
LEMMA Together ==
    ASSUME BackupsFit, targets' \in [Target -> TargetType], \A t \in Drive : targets'[t].keep # 1,
           files' \in [Place -> SUBSET Arkvault], NewerStays(files, files'),
           calls' \in [Calls -> CallType], CallsFit', FilesFit',
           sweeping' \in BOOLEAN, UNCHANGED <<successes, unlocked, password>>,
           clock' \in Nat, events' \in 0 .. MaxEvents, events <= events'
    PROVE  BackupsFit'
<1>1. SuccessIsThere'
  BY SuccessKept DEF BackupsFit
<1>2. password' \in 0 .. events'
  BY DEF BackupsFit, BackupsTyped
<1>3. UNCHANGED <<successes, unlocked>>
  OBVIOUS
<1> QED
  BY <1>1, <1>2, <1>3 DEF BackupsFit, BackupsTyped

LEMMA EventType ==
    ASSUME BackupsTyped, Event, Assumed
    PROVE  events' \in 0 .. MaxEvents /\ events <= events'
BY DEF BackupsTyped, Event, Assumed, BoundsAssumption

LEMMA FailStep ==
    ASSUME Assumed, BackupsFit, NEW c \in Calls, RunLocked(c) \/ TargetRunFails(c)
    PROVE  BackupsFit' /\ NewerStays(files, files')
<1>1. /\ calls[c].op # "none" /\ recordRun(c, "failed")
      /\ UNCHANGED <<successes, files, unlocked, password, clock>>
  BY DEF RunLocked, TargetRunFails, Fail, Running
<1>2. NewerStays(files, files') /\ files' \in [Place -> SUBSET Arkvault]
  BY <1>1, SameFiles DEF BackupsFit
<1>3. events' \in 0 .. MaxEvents /\ events <= events'
  <2>1. RunLocked(c) => UNCHANGED events
    BY DEF RunLocked
  <2>2. TargetRunFails(c) => Event
    BY DEF TargetRunFails
  <2> QED
    BY <2>1, <2>2, EventType DEF BackupsFit, BackupsTyped
<1>4. /\ targets' \in [Target -> TargetType] /\ \A t \in Drive : targets'[t].keep # 1
      /\ calls' \in [Calls -> CallType] /\ CallsFit' /\ FilesFit'
      /\ sweeping' \in BOOLEAN
  BY <1>1, RunEnds DEF BackupsFit
<1>5. clock' \in Nat
  BY <1>1 DEF BackupsFit, BackupsTyped
<1> QED
  BY <1>1, <1>2, <1>3, <1>4, <1>5, Together

\* A file that is written good, or spoilt while no other process is at work.
LEMMA WriteStep ==
    ASSUME Assumed, BackupsFit, NEW c \in Calls, runLocalDirBackup(c)
    PROVE  BackupsFit' /\ NewerStays(files, files')
<1> USE DEF BackupsFit
<1>1. /\ calls[c].op # "none" /\ calls[c].step = "next" /\ Free(c) /\ Now(c).id \in Local
      /\ clock' = clock + 1
      /\ UNCHANGED <<targets, successes, sweeping, unlocked, password>>
  BY DEF runLocalDirBackup, Running
<1>2. PICK good \in BOOLEAN :
        /\ ~good => /\ events < MaxEvents
                    /\ \A d \in Calls \ Process(c) : calls[d].op = "none"
        /\ events' = events + (IF good THEN 0 ELSE 1)
        /\ files' = [files EXCEPT ![At(c)] = @ \cup {NewFile(good)}]
        /\ calls' = [calls EXCEPT ![c].step = "check", ![c].file = NewFile(good)]
  BY DEF runLocalDirBackup, Assumed, SpoiltAlone
<1>3. /\ Now(c) = Head(calls[c].todo) /\ Now(c) \in ListedRow
      /\ At(c) = PlaceOf(calls[c]) /\ At(c) \in Place /\ At(c)[1] = Now(c).id
      /\ calls[c] \in CallType /\ CallWhole(calls[c])
  BY <1>1, RunAt
<1>4. Now(c).id \notin Drive
  BY <1>1 DEF Assumed, KindsAssumption
<1>5. clock \in Nat /\ clock' \in Nat /\ clock <= clock'
  BY <1>1 DEF BackupsTyped
<1> DEFINE F == NewFile(good)
           k == [calls[c] EXCEPT !.step = "check", !.file = F]
<1>6. F \in Arkvault /\ F.time = clock' /\ F.good = good
  <2>1. password \in 0 .. MaxEvents
    BY DEF BackupsTyped, Assumed, BoundsAssumption
  <2> QED
    BY <1>1, <1>5, <2>1 DEF NewFile, Arkvault, Times
<1>7. calls' = [calls EXCEPT ![c] = k]
  BY <1>2
<1>8. k \in CallType /\ k.step = "check" /\ k.file = F /\ k.todo = calls[c].todo
      /\ k.op = calls[c].op /\ k.doomed = calls[c].doomed
  BY <1>3, <1>6 DEF CallType
<1>9. files' \in [Place -> SUBSET Arkvault] /\ FilesFit' /\ NewerStays(files, files')
  <2>1. files' = [files EXCEPT ![At(c)] = @ \cup {F}]
    BY <1>2
  <2>2. At(c) \in Place /\ At(c)[1] \notin Drive /\ F.time <= clock'
    BY <1>3, <1>4, <1>5, <1>6
  <2> HIDE DEF F
  <2> QED
    BY <1>5, <1>6, <2>1, <2>2, FilesAdded
<1>10. files'[At(c)] = files[At(c)] \cup {F} /\ \A p \in Place : p # At(c) => files'[p] = files[p]
  BY <1>2, <1>3 DEF BackupsTyped
<1> HIDE DEF F, k
<1>11. RunFits(k, files', clock')
  <2>1. PlaceOf(k) = At(c) /\ Head(k.todo) = Now(c)
    BY <1>3, <1>8 DEF PlaceOf
  <2>2. \A n \in files'[At(c)] : n # F => n.time < F.time
    <3>1. \A n \in files[At(c)] : n.time \in Nat /\ n.time <= clock
      BY <1>3 DEF FilesFit, BackupsTyped, Arkvault, Times
    <3> QED
      BY <1>1, <1>5, <1>6, <1>10, <3>1
  <2>3. F.time <= clock'
    BY <1>5, <1>6
  <2>4. k.doomed = {}
    BY <1>1, <1>3, <1>8 DEF CallWhole
  <2> QED
    BY <1>4, <1>8, <2>1, <2>2, <2>3, <2>4 DEF RunFits
<1>12. CallWhole(k)
  BY <1>1, <1>3, <1>6, <1>8 DEF CallWhole
<1>13. ASSUME NEW d \in Calls \ {c}, calls[d].step \in {"check", "prune"}
       PROVE  good
  <2>1. calls[d].op # "none"
    BY <1>13 DEF CallsFit, CallWhole, Idle
  <2>2. Now(d).id \in Local /\ Now(d) = Head(calls[d].todo)
    BY <1>13, <2>1, RunAt DEF RunFits
  <2>3. InLocalRun(d)
    BY <1>13, <2>2 DEF InLocalRun
  <2>4. d \notin Process(c)
    BY <1>1, <2>3 DEF Free
  <2> QED
    BY <1>2, <2>1, <2>4
<1>14. \A d \in Calls \ {c} : calls[d].step \in {"check", "prune"} =>
         \A n \in files'[PlaceOf(calls[d])] \ files[PlaceOf(calls[d])] : n.good
  <2> SUFFICES ASSUME NEW d \in Calls \ {c}, calls[d].step \in {"check", "prune"},
                      NEW n \in files'[PlaceOf(calls[d])] \ files[PlaceOf(calls[d])]
               PROVE  n.good
    OBVIOUS
  <2>1. calls[d].op # "none"
    BY DEF CallsFit, CallWhole, Idle
  <2>2. PlaceOf(calls[d]) \in Place
    BY <2>1, RunAt
  <2>3. n = F
    BY <1>10, <2>2
  <2> QED
    BY <1>6, <1>13, <2>3
<1>15. events' \in 0 .. MaxEvents /\ events <= events'
  BY <1>2 DEF BackupsTyped, Assumed, BoundsAssumption
<1>16. CallsFit' /\ calls' \in [Calls -> CallType]
  BY <1>5, <1>7, <1>8, <1>9, <1>11, <1>12, <1>14, CallStep
<1>17. /\ targets' \in [Target -> TargetType] /\ \A t \in Drive : targets'[t].keep # 1
       /\ sweeping' \in BOOLEAN
  BY <1>1 DEF BackupsTyped
<1> QED
  BY <1>1, <1>5, <1>9, <1>15, <1>16, <1>17, Together

\* A step of a run that writes no file of its own.
LEMMA RunStep ==
    ASSUME Assumed, BackupsFit, NEW c \in Calls, NEW k \in CallType, CallWhole(k),
           RunFits(k, files', clock'), calls' = [calls EXCEPT ![c] = k],
           files' \in [Place -> SUBSET Arkvault], FilesFit', NewerStays(files, files'),
           \A d \in Calls \ {c} : calls[d].step \in {"check", "prune"} =>
              \A n \in files'[PlaceOf(calls[d])] \ files[PlaceOf(calls[d])] : n.good,
           clock' \in Nat, clock <= clock', events' \in 0 .. MaxEvents, events <= events',
           UNCHANGED <<targets, successes, sweeping, unlocked, password>>
    PROVE  BackupsFit' /\ NewerStays(files, files')
<1>1. CallsFit' /\ calls' \in [Calls -> CallType]
  BY CallStep DEF BackupsFit
<1>2. /\ targets' \in [Target -> TargetType] /\ \A t \in Drive : targets'[t].keep # 1
      /\ sweeping' \in BOOLEAN
  BY DEF BackupsFit, BackupsTyped
<1> QED
  BY <1>1, <1>2, Together

LEMMA ExportStep ==
    ASSUME Assumed, BackupsFit, NEW c \in Calls, runGoogleDriveBackup(c)
    PROVE  BackupsFit' /\ NewerStays(files, files')
<1> DEFINE F == NewFile(TRUE)
           k == [calls[c] EXCEPT !.step = "upload", !.file = F]
<1>1. /\ calls[c].op # "none" /\ calls[c].step = "next" /\ Now(c).id \in Drive
      /\ clock' = clock + 1
      /\ calls' = [calls EXCEPT ![c] = k]
      /\ UNCHANGED <<targets, successes, files, sweeping, unlocked, password, events>>
  BY DEF runGoogleDriveBackup, Running
<1>2. /\ Now(c) = Head(calls[c].todo) /\ Now(c).id \notin Local
      /\ calls[c] \in CallType /\ CallWhole(calls[c])
  BY <1>1, RunAt DEF BackupsFit, Assumed, KindsAssumption
<1>3. clock \in Nat /\ clock' \in Nat /\ clock <= clock'
  BY <1>1 DEF BackupsFit, BackupsTyped
<1>4. F \in Arkvault /\ F.time = clock' /\ F.good
  <2>1. password \in 0 .. MaxEvents
    BY DEF BackupsFit, BackupsTyped, Assumed, BoundsAssumption
  <2> QED
    BY <1>1, <1>3, <2>1 DEF NewFile, Arkvault, Times
<1> HIDE DEF F
<1>5. k \in CallType /\ k.step = "upload" /\ k.file = F /\ k.todo = calls[c].todo
      /\ k.op = calls[c].op /\ k.doomed = {}
  BY <1>1, <1>2, <1>4 DEF CallType, CallWhole
<1> HIDE DEF k
<1>6. CallWhole(k) /\ RunFits(k, files', clock')
  BY <1>1, <1>2, <1>3, <1>4, <1>5 DEF CallWhole, RunFits
<1>7. NewerStays(files, files') /\ files' \in [Place -> SUBSET Arkvault]
  BY <1>1, SameFiles DEF BackupsFit
<1>8. FilesFit'
  <2>1. \A p \in Place : \A f \in files[p] : f.time \in Nat
    BY DEF BackupsFit, BackupsTyped, Arkvault, Times
  <2> QED
    BY <1>1, <1>3, <2>1 DEF BackupsFit, FilesFit
<1>9. events' \in 0 .. MaxEvents /\ events <= events' /\ \A q : files'[q] \ files[q] = {}
  BY <1>1 DEF BackupsFit, BackupsTyped
<1> QED
  BY <1>1, <1>3, <1>5, <1>6, <1>7, <1>8, <1>9, RunStep

LEMMA CheckStep ==
    ASSUME Assumed, BackupsFit, NEW c \in Calls, inspectVaultBuffer(c)
    PROVE  BackupsFit' /\ NewerStays(files, files')
<1>1. /\ calls[c].op # "none" /\ calls[c].step = "check"
      /\ UNCHANGED <<unlocked, password, clock, events>>
  BY DEF inspectVaultBuffer, Running
<1>2. CASE calls[c].file \in files[At(c)] /\ calls[c].file.good
  <2> DEFINE k == [calls[c] EXCEPT !.step = "prune"]
  <2>1. /\ calls' = [calls EXCEPT ![c] = k]
        /\ UNCHANGED <<targets, successes, files, sweeping>>
    BY <1>2 DEF inspectVaultBuffer, GoTo
  <2>2. /\ At(c) = PlaceOf(calls[c]) /\ Now(c) = Head(calls[c].todo)
        /\ calls[c] \in CallType /\ CallWhole(calls[c]) /\ RunFits(calls[c], files, clock)
    BY <1>1, RunAt DEF BackupsFit
  <2>3. k \in CallType /\ k.step = "prune" /\ k.file = calls[c].file /\ k.todo = calls[c].todo
        /\ k.op = calls[c].op /\ k.doomed = calls[c].doomed
    BY <2>2 DEF CallType
  <2> HIDE DEF k
  <2>4. PlaceOf(k) = PlaceOf(calls[c])
    BY <2>3 DEF PlaceOf
  <2>5. CallWhole(k)
    BY <1>1, <2>2, <2>3 DEF CallWhole
  <2>6. k.file.time \in Nat
    BY <1>1, <2>2, <2>3 DEF CallWhole, Arkvault, Times
  <2>7. HasNewer(k, files)
    BY <1>2, <2>2, <2>3, <2>4, <2>6 DEF HasNewer
  <2>8. RunFits(k, files', clock')
    BY <1>1, <1>2, <2>1, <2>2, <2>3, <2>4, <2>7 DEF RunFits, HasNewer
  <2>9. NewerStays(files, files') /\ files' \in [Place -> SUBSET Arkvault] /\ FilesFit'
    BY <1>1, <2>1, SameFiles DEF BackupsFit, FilesFit
  <2>10. /\ events' \in 0 .. MaxEvents /\ events <= events' /\ \A q : files'[q] \ files[q] = {}
         /\ clock' \in Nat /\ clock <= clock'
    BY <1>1, <2>1 DEF BackupsFit, BackupsTyped
  <2> QED
    BY <1>1, <2>1, <2>3, <2>5, <2>8, <2>9, <2>10, RunStep
<1>3. CASE ~(calls[c].file \in files[At(c)] /\ calls[c].file.good)
  <2>1. recordRun(c, "failed") /\ UNCHANGED <<successes, files>>
    BY <1>3 DEF inspectVaultBuffer, Fail
  <2>2. /\ targets' \in [Target -> TargetType] /\ \A t \in Drive : targets'[t].keep # 1
        /\ calls' \in [Calls -> CallType] /\ CallsFit' /\ FilesFit'
        /\ sweeping' \in BOOLEAN
    BY <1>1, <2>1, RunEnds DEF BackupsFit
  <2>3. NewerStays(files, files') /\ files' \in [Place -> SUBSET Arkvault]
    BY <2>1, SameFiles DEF BackupsFit
  <2>4. clock' \in Nat /\ events' \in 0 .. MaxEvents /\ events <= events'
    BY <1>1 DEF BackupsFit, BackupsTyped
  <2> QED
    BY <1>1, <2>1, <2>2, <2>3, <2>4, Together
<1> QED
  BY <1>2, <1>3

\* The greatest of a folder survives; were it spoilt, the run's own file would be newer.
LEMMA PruneStep ==
    ASSUME Assumed, BackupsFit, NEW c \in Calls, pruneOldLocalBackups(c)
    PROVE  BackupsFit' /\ NewerStays(files, files')
<1> DEFINE here == files[At(c)]
           keep == Now(c).keep
           S == IF keep = 0 THEN here ELSE Newest(here, keep) \cup (here \cap {calls[c].file})
           k == [calls[c] EXCEPT !.step = "record"]
<1>1. /\ calls[c].op # "none" /\ calls[c].step = "prune"
      /\ files' = [files EXCEPT ![At(c)] = S]
      /\ calls' = [calls EXCEPT ![c] = k]
      /\ UNCHANGED <<targets, successes, sweeping, unlocked, password, clock, events>>
  BY DEF pruneOldLocalBackups, Running, GoTo
<1>2. /\ At(c) = PlaceOf(calls[c]) /\ Now(c) = Head(calls[c].todo) /\ At(c) \in Place
      /\ calls[c] \in CallType /\ CallWhole(calls[c]) /\ RunFits(calls[c], files, clock)
      /\ Now(c) \in Row /\ keep \in Nat
  BY <1>1, RunAt DEF BackupsFit, ListedRow, Row
<1>3. /\ IsFiniteSet(here) /\ here \subseteq Arkvault
      /\ calls[c].file.time \in Nat /\ \A f \in here : f.time \in Nat
  BY <1>1, <1>2 DEF BackupsFit, BackupsTyped, FilesFit, CallWhole, Arkvault, Times
<1>4. /\ calls[c].file.good
      /\ \E g \in here : g.good /\ g.time >= calls[c].file.time
      /\ \A n \in here : n # calls[c].file /\ ~n.good => n.time < calls[c].file.time
  BY <1>1, <1>2 DEF RunFits, HasNewer
<1>5. S \subseteq here
  <2>1. Newest(here, keep) \subseteq here
    BY DEF Newest
  <2> QED
    BY <2>1
<1>6. ASSUME NEW f \in here \ S
      PROVE  \E g \in S : g.good /\ g.time > f.time
  <2>1. keep # 0 /\ f \in here \ Newest(here, keep)
    BY <1>6
  <2>2. PICK m \in here : \A g \in here : g.time <= m.time
    BY <1>3, <1>6, NewestFileExists
  <2>3. m \in S /\ \E g \in here : g.time > f.time
    BY <1>2, <1>3, <2>1, <2>2, NewestHolds
  <2>4. m.time > f.time
    BY <1>3, <2>2, <2>3
  <2>5. m.good
    <3>1. ASSUME ~m.good PROVE FALSE
      <4>1. m.time < calls[c].file.time
        BY <1>4, <3>1
      <4>2. PICK g \in here : g.good /\ g.time >= calls[c].file.time
        BY <1>4
      <4> QED
        BY <1>3, <2>2, <4>1, <4>2
    <3> QED
      BY <3>1
  <2> QED
    BY <2>3, <2>4, <2>5
<1> HIDE DEF S
<1>7. files' \in [Place -> SUBSET Arkvault] /\ FilesFit' /\ NewerStays(files, files')
  BY <1>1, <1>2, <1>5, <1>6, FilesTaken DEF BackupsFit
<1>8. k \in CallType /\ k.step = "record" /\ k.file = calls[c].file /\ k.todo = calls[c].todo
      /\ k.op = calls[c].op /\ k.doomed = calls[c].doomed
  BY <1>2 DEF CallType
<1>9. RunFits(calls[c], files', clock)
  <2>1. files'[At(c)] \ files[At(c)] = {}
    BY <1>1, <1>2, <1>5 DEF BackupsFit, BackupsTyped
  <2>2. clock \in Nat /\ clock <= clock
    BY DEF BackupsFit, BackupsTyped
  <2> QED
    BY <1>2, <1>7, <2>1, <2>2, RunStillFits DEF BackupsFit, BackupsTyped
<1> HIDE DEF k
<1>10. CallWhole(k) /\ RunFits(k, files', clock')
  <2>1. PlaceOf(k) = PlaceOf(calls[c]) /\ clock' = clock
    BY <1>1, <1>8 DEF PlaceOf
  <2>2. Head(k.todo).id \notin Drive
    BY <1>1, <1>2, <1>8 DEF RunFits
  <2> QED
    BY <1>1, <1>2, <1>8, <1>9, <2>1, <2>2 DEF CallWhole, RunFits, HasNewer
<1>11. \A q \in Place : files'[q] \ files[q] = {}
  BY <1>1, <1>2, <1>5 DEF BackupsFit, BackupsTyped
<1>12. \A d \in Calls \ {c} : calls[d].step \in {"check", "prune"} =>
         \A n \in files'[PlaceOf(calls[d])] \ files[PlaceOf(calls[d])] : n.good
  <2>1. ASSUME NEW d \in Calls \ {c}, calls[d].step \in {"check", "prune"}
        PROVE  PlaceOf(calls[d]) \in Place
    <3>1. calls[d].op # "none"
      BY <2>1 DEF BackupsFit, CallsFit, CallWhole, Idle
    <3> QED
      BY <3>1, RunAt DEF BackupsFit
  <2> QED
    BY <1>11, <2>1
<1>13. /\ events' \in 0 .. MaxEvents /\ events <= events' /\ clock' \in Nat /\ clock <= clock'
  BY <1>1 DEF BackupsFit, BackupsTyped
<1> QED
  BY <1>1, <1>7, <1>8, <1>10, <1>12, <1>13, RunStep

LEMMA CopyStep ==
    ASSUME Assumed, BackupsFit, NEW c \in Calls, copyTo(c)
    PROVE  BackupsFit' /\ NewerStays(files, files')
<1> DEFINE step == IF Now(c).keep = 0 THEN "record" ELSE "list"
           k == [calls[c] EXCEPT !.step = step]
           F == calls[c].file
<1>1. /\ calls[c].op # "none" /\ calls[c].step = "upload"
      /\ files' = [files EXCEPT ![At(c)] = @ \cup {F}]
      /\ calls' = [calls EXCEPT ![c] = k]
      /\ UNCHANGED <<targets, successes, sweeping, unlocked, password, clock, events>>
  BY DEF copyTo, Running, GoTo
<1>2. /\ At(c) = PlaceOf(calls[c]) /\ Now(c) = Head(calls[c].todo) /\ At(c) \in Place
      /\ calls[c] \in CallType /\ CallWhole(calls[c]) /\ RunFits(calls[c], files, clock)
      /\ Now(c).id \in Drive \/ Now(c).id \in Local
  BY <1>1, RunAt DEF BackupsFit
<1>3. Now(c).id \in Drive /\ Now(c).id \notin Local /\ F.good
  BY <1>1, <1>2 DEF RunFits, Assumed, KindsAssumption
<1>4. F \in Arkvault /\ F.time \in Nat /\ F.time <= clock
  BY <1>1, <1>2 DEF CallWhole, RunFits, Arkvault, Times
<1>5. clock' = clock /\ clock \in Nat
  BY <1>1 DEF BackupsFit, BackupsTyped
<1>s. step \in {"record", "list"}
  OBVIOUS
<1>8. k \in CallType /\ k.step = step /\ k.file = F /\ k.todo = calls[c].todo
      /\ k.op = calls[c].op /\ k.doomed = calls[c].doomed
  <2> HIDE DEF step
  <2> QED
    BY <1>2, <1>s DEF CallType
<1> HIDE DEF F
<1>6. files' \in [Place -> SUBSET Arkvault] /\ FilesFit' /\ NewerStays(files, files')
  <2>1. At(c)[1] \in Drive => F.good
    BY <1>3
  <2>2. clock' \in Nat /\ clock <= clock' /\ F.time <= clock'
    BY <1>4, <1>5
  <2> QED
    BY <1>1, <1>2, <1>4, <2>1, <2>2, FilesAdded DEF BackupsFit
<1>7. \A q \in Place : files'[q] = IF q = At(c) THEN files[q] \cup {F} ELSE files[q]
  BY <1>1, <1>2 DEF BackupsFit, BackupsTyped
<1>9. RunFits(calls[c], files', clock)
  <2>1. clock \in Nat /\ clock <= clock
    BY <1>5
  <2> QED
    BY <1>1, <1>2, <1>6, <2>1, RunStillFits DEF BackupsFit, BackupsTyped
<1> HIDE DEF k
<1>10. CallWhole(k) /\ RunFits(k, files', clock')
  <2>1. PlaceOf(k) = At(c)
    BY <1>2, <1>8 DEF PlaceOf
  <2>2. HasNewer(k, files')
    <3>1. F \in files'[At(c)]
      BY <1>2, <1>7, Zenon
    <3>2. F.time >= F.time
      BY <1>4
    <3> QED
      BY <1>3, <1>8, <2>1, <3>1, <3>2 DEF HasNewer
  <2>3. CallWhole(k)
    BY <1>1, <1>2, <1>4, <1>8 DEF CallWhole
  <2>4. \A f \in k.doomed : \E g \in files'[PlaceOf(k)] : g.good /\ g.time > f.time
    BY <1>1, <1>2, <1>8, <1>9, <2>1 DEF RunFits
  <2> QED
    BY <1>2, <1>3, <1>4, <1>5, <1>8, <2>1, <2>2, <2>3, <2>4 DEF RunFits
<1>11. \A d \in Calls \ {c} : calls[d].step \in {"check", "prune"} =>
         \A n \in files'[PlaceOf(calls[d])] \ files[PlaceOf(calls[d])] : n.good
  <2>1. ASSUME NEW d \in Calls \ {c}, calls[d].step \in {"check", "prune"}
        PROVE  PlaceOf(calls[d]) \in Place
    <3>1. calls[d].op # "none"
      BY <2>1 DEF BackupsFit, CallsFit, CallWhole, Idle
    <3> QED
      BY <3>1, RunAt DEF BackupsFit
  <2> QED
    BY <1>3, <1>7, <2>1
<1>12. events' \in 0 .. MaxEvents /\ events <= events' /\ clock' \in Nat /\ clock <= clock'
  BY <1>1 DEF BackupsFit, BackupsTyped
<1> QED
  BY <1>1, <1>6, <1>8, <1>10, <1>11, <1>12, RunStep

\* What is listed for deletion has a newer file in the folder: Drive keeps more than one.
LEMMA ListStep ==
    ASSUME Assumed, BackupsFit, NEW c \in Calls, lsf(c)
    PROVE  BackupsFit' /\ NewerStays(files, files')
<1> DEFINE others == files[At(c)] \ {calls[c].file}
           doomed == others \ Newest(others, Now(c).keep - 1)
           k == [calls[c] EXCEPT !.doomed = doomed,
                                 !.step = IF doomed = {} THEN "record" ELSE "delete"]
<1>1. /\ calls[c].op # "none" /\ calls[c].step = "list"
      /\ calls' = [calls EXCEPT ![c] = k]
      /\ UNCHANGED <<targets, successes, files, sweeping, unlocked, password, clock, events>>
  BY DEF lsf, Running
<1>2. /\ At(c) = PlaceOf(calls[c]) /\ Now(c) = Head(calls[c].todo) /\ At(c) \in Place
      /\ calls[c] \in CallType /\ CallWhole(calls[c]) /\ RunFits(calls[c], files, clock)
      /\ Now(c) \in ListedRow /\ At(c)[1] = Now(c).id
      /\ Now(c).id \in Drive \/ Now(c).id \in Local
  BY <1>1, RunAt DEF BackupsFit
<1>3. Now(c).id \in Drive /\ Now(c).id \notin Local /\ Now(c).keep \in Nat
      /\ Now(c).keep # 0 /\ Now(c).keep # 1
  BY <1>1, <1>2 DEF RunFits, Assumed, KindsAssumption, ListedRow, Row
<1>4. Now(c).keep - 1 \in Nat /\ Now(c).keep - 1 # 0
  BY <1>3
<1>5. /\ IsFiniteSet(others) /\ others \subseteq Arkvault /\ \A f \in others : f.time \in Nat
  <2>1. IsFiniteSet(files[At(c)]) /\ files[At(c)] \subseteq Arkvault
    BY <1>2 DEF BackupsFit, BackupsTyped, FilesFit
  <2>2. IsFiniteSet(others)
    BY <2>1, FS_Subset
  <2> QED
    BY <2>1, <2>2 DEF Arkvault, Times
<1>6. \A f \in doomed : \E g \in others : g.time > f.time
  <2> DEFINE n == Now(c).keep - 1
  <2>1. n \in Nat /\ n # 0
    BY <1>4
  <2> HIDE DEF n, others
  <2>2. \A f \in others \ Newest(others, n) : \E g \in others : g.time > f.time
    BY <1>5, <2>1, NewestHolds
  <2> QED
    BY <2>2 DEF n
<1>7. \A g \in others : g \in files[At(c)] /\ g.good
  BY <1>2, <1>3 DEF BackupsFit, FilesFit
<1>8. IsFiniteSet(doomed) /\ doomed \subseteq Arkvault
  BY <1>5, FS_Subset
<1> HIDE DEF doomed, others
<1>9. k \in CallType /\ k.step = (IF doomed = {} THEN "record" ELSE "delete")
      /\ k.file = calls[c].file /\ k.todo = calls[c].todo
      /\ k.op = calls[c].op /\ k.doomed = doomed
  BY <1>2, <1>8 DEF CallType
<1> HIDE DEF k
<1>10. CallWhole(k) /\ RunFits(k, files', clock')
  <2>1. PlaceOf(k) = At(c)
    BY <1>2, <1>9 DEF PlaceOf
  <2>2. HasNewer(k, files)
    BY <1>1, <1>2, <1>9, <2>1 DEF RunFits, HasNewer
  <2>3. CallWhole(k)
    BY <1>1, <1>2, <1>9 DEF CallWhole
  <2>4. \A f \in k.doomed : \E g \in files[PlaceOf(k)] : g.good /\ g.time > f.time
    BY <1>6, <1>7, <1>9, <2>1
  <2> QED
    BY <1>1, <1>2, <1>3, <1>8, <1>9, <2>1, <2>2, <2>3, <2>4 DEF RunFits, HasNewer
<1>11. NewerStays(files, files') /\ files' \in [Place -> SUBSET Arkvault] /\ FilesFit'
  BY <1>1, SameFiles DEF BackupsFit, FilesFit
<1>12. /\ events' \in 0 .. MaxEvents /\ events <= events' /\ \A q : files'[q] \ files[q] = {}
       /\ clock' \in Nat /\ clock <= clock'
  BY <1>1 DEF BackupsFit, BackupsTyped
<1> QED
  BY <1>1, <1>9, <1>10, <1>11, <1>12, RunStep

LEMMA DeleteStep ==
    ASSUME Assumed, BackupsFit, NEW c \in Calls, deleteFile(c)
    PROVE  BackupsFit' /\ NewerStays(files, files')
<1> DEFINE doomed == calls[c].doomed
           f == CHOOSE f \in doomed : \A g \in doomed : g.time <= f.time
           k == [calls[c] EXCEPT !.doomed = doomed \ {f},
                                 !.step = IF doomed = {f} THEN "record" ELSE calls[c].step]
<1>1. /\ calls[c].op # "none" /\ calls[c].step = "delete"
      /\ \/ files' = [files EXCEPT ![At(c)] = @ \ {f}] /\ UNCHANGED events
         \/ Event /\ UNCHANGED files
      /\ calls' = [calls EXCEPT ![c] = k]
      /\ UNCHANGED <<targets, successes, sweeping, unlocked, password, clock>>
  BY DEF deleteFile, Running
<1>2. /\ At(c) = PlaceOf(calls[c]) /\ Now(c) = Head(calls[c].todo) /\ At(c) \in Place
      /\ calls[c] \in CallType /\ CallWhole(calls[c]) /\ RunFits(calls[c], files, clock)
      /\ Now(c).id \in Drive \/ Now(c).id \in Local
  BY <1>1, RunAt DEF BackupsFit
<1>3. /\ doomed # {} /\ IsFiniteSet(doomed) /\ doomed \subseteq Arkvault
      /\ \A g \in doomed : g.time \in Nat
  BY <1>1, <1>2 DEF RunFits, CallType, Arkvault, Times
<1>4. f \in doomed
  BY <1>3, NewestFileExists
<1> HIDE DEF f
<1>5. PICK g \in files[At(c)] : g.good /\ g.time > f.time
  BY <1>1, <1>2, <1>4 DEF RunFits
<1>6. g # f
  <2>1. f.time \in Nat
    BY <1>3, <1>4
  <2> QED
    BY <1>5, <2>1
<1>7. files' \in [Place -> SUBSET Arkvault] /\ FilesFit' /\ NewerStays(files, files')
  <2>1. CASE files' = [files EXCEPT ![At(c)] = @ \ {f}]
    <3>1. files' = [files EXCEPT ![At(c)] = files[At(c)] \ {f}]
      BY <2>1
    <3>2. \A x \in files[At(c)] \ (files[At(c)] \ {f}) :
             \E y \in files[At(c)] \ {f} : y.good /\ y.time > x.time
      BY <1>5, <1>6
    <3> QED
      BY <1>1, <1>2, <3>1, <3>2, FilesTaken DEF BackupsFit
  <2>2. CASE UNCHANGED files
    BY <1>1, <2>2, SameFiles DEF BackupsFit, FilesFit
  <2> QED
    BY <1>1, <2>1, <2>2
<1>8. \A q \in Place : files'[q] \ files[q] = {}
  BY <1>1, <1>2 DEF BackupsFit, BackupsTyped
<1>9. RunFits(calls[c], files', clock)
  <2>1. clock \in Nat /\ clock <= clock
    BY DEF BackupsFit, BackupsTyped
  <2> QED
    BY <1>1, <1>2, <1>7, <2>1, RunStillFits DEF BackupsFit, BackupsTyped
<1>10. k \in CallType /\ k.step = (IF doomed = {f} THEN "record" ELSE "delete")
      /\ k.file = calls[c].file /\ k.todo = calls[c].todo
      /\ k.op = calls[c].op /\ k.doomed = doomed \ {f}
  BY <1>1, <1>2, <1>3 DEF CallType
<1> HIDE DEF k
<1>11. CallWhole(k) /\ RunFits(k, files', clock')
  <2>1. PlaceOf(k) = PlaceOf(calls[c]) /\ clock' = clock
    BY <1>1, <1>10 DEF PlaceOf
  <2>2. IsFiniteSet(k.doomed) /\ (k.step = "delete" => k.doomed # {})
    <3>1. IsFiniteSet(doomed \ {f})
      BY <1>3, FS_Subset
    <3> QED
      BY <1>3, <1>10, <3>1
  <2>3. Now(c).id \in Drive /\ Now(c).id \notin Local
    BY <1>1, <1>2 DEF RunFits, Assumed, KindsAssumption
  <2> QED
    BY <1>1, <1>2, <1>9, <1>10, <2>1, <2>2, <2>3 DEF CallWhole, RunFits, HasNewer
<1>12. \A d \in Calls \ {c} : calls[d].step \in {"check", "prune"} =>
         \A n \in files'[PlaceOf(calls[d])] \ files[PlaceOf(calls[d])] : n.good
  <2>1. ASSUME NEW d \in Calls \ {c}, calls[d].step \in {"check", "prune"}
        PROVE  PlaceOf(calls[d]) \in Place
    <3>1. calls[d].op # "none"
      BY <2>1 DEF BackupsFit, CallsFit, CallWhole, Idle
    <3> QED
      BY <3>1, RunAt DEF BackupsFit
  <2> QED
    BY <1>8, <2>1
<1>13. events' \in 0 .. MaxEvents /\ events <= events' /\ clock' \in Nat /\ clock <= clock'
  BY <1>1, EventType DEF BackupsFit, BackupsTyped
<1> QED
  BY <1>1, <1>7, <1>10, <1>11, <1>12, <1>13, RunStep

LEMMA RecordStep ==
    ASSUME Assumed, BackupsFit, NEW c \in Calls, recordSuccess(c)
    PROVE  BackupsFit' /\ NewerStays(files, files')
<1> DEFINE t == Now(c).id
<1>1. /\ calls[c].op # "none" /\ calls[c].step = "record" /\ recordRun(c, "fresh")
      /\ UNCHANGED <<files, unlocked, password, clock, events>>
      /\ \/ successes' = successes
         \/ successes' = [successes EXCEPT ![t] = [folder |-> Now(c).folder,
                                                   time |-> calls[c].file.time]]
  BY DEF recordSuccess, Running
<1>2. /\ At(c) = PlaceOf(calls[c]) /\ Now(c) = Head(calls[c].todo) /\ At(c) \in Place
      /\ Now(c) \in Row /\ t \in Target
      /\ CallWhole(calls[c]) /\ RunFits(calls[c], files, clock)
  BY <1>1, RunAt DEF BackupsFit, ListedRow, Row
<1>3. calls[c].file.time \in Nat
  BY <1>1, <1>2 DEF CallWhole, Arkvault, Times
<1>4. \E g \in files[<<t, Now(c).folder>>] : g.good /\ g.time >= calls[c].file.time
  BY <1>1, <1>2 DEF RunFits, HasNewer, At
<1>5. successes' \in [Target -> [folder : Folders, time : Nat]]
  BY <1>1, <1>2, <1>3 DEF BackupsFit, BackupsTyped, Row
<1>6. SuccessIsThere'
  <2>1. CASE successes' = successes
    BY <1>1, <2>1 DEF BackupsFit, SuccessIsThere
  <2>2. CASE successes' = [successes EXCEPT ![t] = [folder |-> Now(c).folder,
                                                   time |-> calls[c].file.time]]
    <3>1. /\ successes'[t].folder = Now(c).folder /\ successes'[t].time = calls[c].file.time
          /\ \A u \in Target : u # t => successes'[u] = successes[u]
      BY <1>2, <2>2 DEF BackupsFit, BackupsTyped
    <3> QED
      BY <1>1, <1>4, <3>1 DEF BackupsFit, SuccessIsThere
  <2> QED
    BY <1>1, <2>1, <2>2
<1>7. /\ targets' \in [Target -> TargetType] /\ \A u \in Drive : targets'[u].keep # 1
      /\ calls' \in [Calls -> CallType] /\ CallsFit' /\ FilesFit'
      /\ sweeping' \in BOOLEAN
  BY <1>1, RunEnds DEF BackupsFit
<1>8. NewerStays(files, files') /\ files' \in [Place -> SUBSET Arkvault]
  BY <1>1, SameFiles DEF BackupsFit
<1>9. clock' \in Nat /\ events' \in 0 .. MaxEvents /\ password' \in 0 .. events'
  BY <1>1 DEF BackupsFit, BackupsTyped
<1>10. unlocked' \in BOOLEAN
  BY <1>1 DEF BackupsFit, BackupsTyped
<1> QED
  BY <1>5, <1>6, <1>7, <1>8, <1>9, <1>10 DEF BackupsFit, BackupsTyped

\* What no step of a call touches: the files stay, and every call is what it was or idle.
LEMMA CallsStop ==
    ASSUME BackupsFit, UNCHANGED <<files, clock>>, calls' \in [Calls -> CallType],
           \A c \in Calls : calls'[c] = calls[c] \/ calls'[c] = Idle
    PROVE  /\ CallsFit' /\ FilesFit' /\ NewerStays(files, files')
           /\ files' \in [Place -> SUBSET Arkvault] /\ clock' \in Nat
<1>1. CallWhole(Idle) /\ RunFits(Idle, files', clock')
  BY DEF CallWhole, RunFits, Idle
<1>2. \A c \in Calls : CallWhole(calls[c]) /\ RunFits(calls[c], files', clock')
  BY DEF BackupsFit, CallsFit
<1>3. CallsFit'
  BY <1>1, <1>2 DEF CallsFit
<1>4. FilesFit' /\ clock' \in Nat
  BY DEF BackupsFit, FilesFit, BackupsTyped
<1> QED
  BY <1>3, <1>4, SameFiles DEF BackupsFit

LEMMA TargetStep ==
    ASSUME Assumed, BackupsFit, NEW t \in Target,
           CreateTarget(t) \/ UpdateTarget(t) \/ RemoveTarget(t) \/ Age(t)
    PROVE  BackupsFit' /\ NewerStays(files, files')
<1>1. UNCHANGED <<files, calls, sweeping, unlocked, password, clock>>
  BY DEF CreateTarget, UpdateTarget, RemoveTarget, Age
<1>2. /\ CallsFit' /\ FilesFit' /\ NewerStays(files, files')
      /\ files' \in [Place -> SUBSET Arkvault] /\ clock' \in Nat
  BY <1>1, CallsStop DEF BackupsFit, BackupsTyped
<1>3. targets' \in [Target -> TargetType] /\ \A u \in Drive : targets'[u].keep # 1
  <2>1. PICK e \in TargetType : /\ targets' = [targets EXCEPT ![t] = e]
                                /\ t \in Drive => e.keep # 1
    <3>1. targets[t] \in TargetType /\ Keeps(t) \subseteq Nat /\ (t \in Drive => 1 \notin Keeps(t))
      BY DEF BackupsFit, BackupsTyped, Keeps, Assumed, KeepsAssumption, DriveKeepsMore
    <3>2. CASE CreateTarget(t)
      <4>1. PICK k \in Keeps(t) : targets' = [targets EXCEPT ![t].state = "never", ![t].keep = k]
        BY <3>2 DEF CreateTarget
      <4>2. /\ [targets[t] EXCEPT !.state = "never", !.keep = k] \in TargetType
            /\ [targets[t] EXCEPT !.state = "never", !.keep = k].keep = k
        BY <3>1, <4>1 DEF TargetType
      <4>3. targets' = [targets EXCEPT ![t] = [targets[t] EXCEPT !.state = "never", !.keep = k]]
        BY <4>1 DEF BackupsFit, BackupsTyped
      <4> QED
        BY <3>1, <4>1, <4>2, <4>3
    <3>3. CASE UpdateTarget(t)
      <4>1. PICK on \in BOOLEAN, f \in Folders, k \in Keeps(t) :
              targets' = [targets EXCEPT ![t].enabled = on, ![t].folder = f, ![t].keep = k]
        BY <3>3 DEF UpdateTarget
      <4> DEFINE e == [targets[t] EXCEPT !.enabled = on, !.folder = f, !.keep = k]
      <4>2. e \in TargetType /\ e.keep = k
        BY <3>1, <4>1 DEF TargetType
      <4>3. targets' = [targets EXCEPT ![t] = e]
        BY <4>1 DEF BackupsFit, BackupsTyped
      <4> QED
        BY <3>1, <4>1, <4>2, <4>3
    <3>4. CASE RemoveTarget(t) \/ Age(t)
      <4>1. PICK s \in {"removed", "stale"} : targets' = [targets EXCEPT ![t].state = s]
        BY <3>4 DEF RemoveTarget, Age
      <4> DEFINE e == [targets[t] EXCEPT !.state = s]
      <4>2. e \in TargetType /\ e.keep = targets[t].keep
        BY <3>1 DEF TargetType
      <4>3. targets' = [targets EXCEPT ![t] = e]
        BY <4>1 DEF BackupsFit, BackupsTyped
      <4>4. t \in Drive => targets[t].keep # 1
        BY DEF BackupsFit, BackupsTyped
      <4> QED
        BY <4>2, <4>3, <4>4
    <3> QED
      BY <3>2, <3>3, <3>4
  <2> QED
    BY <2>1 DEF BackupsFit, BackupsTyped
<1>4. \/ successes' = successes
      \/ successes' = [successes EXCEPT ![t].time = 0]
  BY DEF CreateTarget, UpdateTarget, RemoveTarget, Age
<1>5. successes' \in [Target -> [folder : Folders, time : Nat]]
  BY <1>4 DEF BackupsFit, BackupsTyped
<1>6. SuccessIsThere'
  <2>1. \A u \in Target : successes'[u] = successes[u] \/ ~(successes'[u].time > 0)
    BY <1>4 DEF BackupsFit, BackupsTyped
  <2> QED
    BY <1>1, <2>1 DEF BackupsFit, SuccessIsThere
<1>7. events' \in 0 .. MaxEvents /\ password' \in 0 .. events'
  <2>1. UNCHANGED events \/ Event
    BY DEF CreateTarget, UpdateTarget, RemoveTarget, Age
  <2>2. events' \in 0 .. MaxEvents /\ events <= events'
    BY <2>1, EventType DEF BackupsFit, BackupsTyped
  <2> QED
    BY <1>1, <2>2 DEF BackupsFit, BackupsTyped
<1> QED
  BY <1>1, <1>2, <1>3, <1>5, <1>6, <1>7 DEF BackupsFit, BackupsTyped

LEMMA ProcessStep ==
    ASSUME Assumed, BackupsFit,
           \/ ChangePasswordByCommand \/ Lock \/ CrashServe
           \/ \E c \in Calls : CrashCommand(c)
    PROVE  BackupsFit' /\ NewerStays(files, files')
<1>1. UNCHANGED <<targets, successes, files, clock>> /\ Event
  BY DEF ChangePasswordByCommand, Lock, CrashServe, CrashCommand
<1>2. calls' \in [Calls -> CallType] /\ \A c \in Calls : calls'[c] = calls[c] \/ calls'[c] = Idle
  <2>1. Idle \in CallType
    <3>1. <<>> \in Seq(ListedRow)
      OBVIOUS
    <3> QED
      BY <3>1 DEF Idle, CallType
  <2>2. CASE ChangePasswordByCommand \/ Lock
    BY <2>2 DEF ChangePasswordByCommand, Lock, BackupsFit, BackupsTyped
  <2>3. CASE CrashServe
    BY <2>1, <2>3 DEF CrashServe, BackupsFit, BackupsTyped
  <2>4. CASE \E c \in Calls : CrashCommand(c)
    BY <2>1, <2>4 DEF CrashCommand, BackupsFit, BackupsTyped
  <2> QED
    BY <2>2, <2>3, <2>4
<1>3. /\ CallsFit' /\ FilesFit' /\ NewerStays(files, files')
      /\ files' \in [Place -> SUBSET Arkvault] /\ clock' \in Nat
  BY <1>1, <1>2, CallsStop
<1>4. SuccessIsThere'
  BY <1>1, <1>3, SuccessKept DEF BackupsFit
<1>5. sweeping' \in BOOLEAN /\ unlocked' \in BOOLEAN
  BY Zenon DEF ChangePasswordByCommand, Lock, CrashServe, CrashCommand, BackupsFit, BackupsTyped
<1>6. events' \in 0 .. MaxEvents /\ password' \in 0 .. events'
  <2>1. password' = password \/ password' = password + 1
    BY DEF ChangePasswordByCommand, Lock, CrashServe, CrashCommand
  <2>2. events' = events + 1 /\ events < MaxEvents
    BY <1>1 DEF Event
  <2> QED
    BY <2>1, <2>2 DEF BackupsFit, BackupsTyped, Assumed, BoundsAssumption
<1> QED
  BY <1>1, <1>2, <1>3, <1>4, <1>5, <1>6 DEF BackupsFit, BackupsTyped

LEMMA InitFits ==
    ASSUME Assumed, BackupsInit
    PROVE  BackupsFit
<1>1. \A t \in Target : targets[t] \in TargetType /\ targets[t].keep = 0
  <2>1. (CHOOSE f \in Folders : TRUE) \in Folders
    BY DEF Assumed, KindsAssumption
  <2> QED
    BY <2>1 DEF BackupsInit, TargetType
<1>2. targets \in [Target -> TargetType] /\ \A t \in Drive : targets[t].keep # 1
  <2>1. targets = [t \in Target |-> targets[t]]
    BY DEF BackupsInit
  <2> QED
    BY <1>1, <2>1 DEF Target
<1>3. /\ successes \in [Target -> [folder : Folders, time : Nat]]
      /\ \A t \in Target : successes[t].time = 0
  BY <1>1 DEF BackupsInit, TargetType
<1>4. files \in [Place -> SUBSET Arkvault] /\ \A p \in Place : files[p] = {}
  BY DEF BackupsInit
<1>5. calls \in [Calls -> CallType] /\ \A c \in Calls : calls[c] = Idle
  <2>1. <<>> \in Seq(ListedRow)
    OBVIOUS
  <2> QED
    BY <2>1 DEF BackupsInit, Idle, CallType
<1>6. sweeping \in BOOLEAN /\ unlocked \in BOOLEAN
  BY DEF BackupsInit
<1>7. clock \in Nat /\ events \in 0 .. MaxEvents /\ password \in 0 .. events
  BY DEF BackupsInit, Assumed, BoundsAssumption
<1>8. CallsFit
  <2>1. CallWhole(Idle) /\ RunFits(Idle, files, clock)
    BY DEF CallWhole, RunFits, Idle
  <2> QED
    BY <1>5, <2>1 DEF CallsFit
<1>9. FilesFit
  BY <1>4, FS_EmptySet DEF FilesFit
<1>10. SuccessIsThere
  BY <1>3 DEF SuccessIsThere
<1> QED
  BY <1>2, <1>3, <1>4, <1>5, <1>6, <1>7, <1>8, <1>9, <1>10 DEF BackupsFit, BackupsTyped

\* One step of the system: what is known is kept, and no file goes before a newer one.
LEMMA NextFits ==
    ASSUME Assumed, BackupsFit, [BackupsNext]_backupsVars
    PROVE  BackupsFit' /\ NewerStays(files, files')
<1>1. CASE UNCHANGED backupsVars
  <2>1. UNCHANGED <<targets, successes, files, calls, sweeping, unlocked, password, clock,
                    events>>
    BY <1>1 DEF backupsVars
  <2>2. BackupsFit'
    BY <2>1 DEF BackupsFit, BackupsTyped, FilesFit, CallsFit, SuccessIsThere
  <2> QED
    BY <2>1, <2>2, SameFiles DEF BackupsFit
<1>2. ASSUME NEW c \in Calls,
             \/ runVaultBackupsQuietly(c) \/ Unlock(c) \/ RunAll(c) \/ ChangePassword(c)
      PROVE  BackupsFit' /\ NewerStays(files, files')
  BY <1>2, BeginStep
<1>3. ASSUME NEW c \in Calls, Step(c)
      PROVE  BackupsFit' /\ NewerStays(files, files')
  BY <1>3, FailStep, WriteStep, CheckStep, PruneStep, ExportStep, CopyStep, ListStep,
     DeleteStep, RecordStep DEF Step
<1>4. ASSUME NEW t \in Target, CreateTarget(t) \/ UpdateTarget(t) \/ RemoveTarget(t) \/ Age(t)
      PROVE  BackupsFit' /\ NewerStays(files, files')
  BY <1>4, TargetStep
<1> QED
  BY <1>1, <1>2, <1>3, <1>4, ProcessStep DEF BackupsNext

LEMMA FitsType ==
    ASSUME Assumed, BackupsFit
    PROVE  BackupsTypeOK /\ SuccessIsThere
<1>1. \A t \in Target : successes[t] \in [folder : Folders, time : Times \cup {0}]
  BY DEF BackupsFit, BackupsTyped, Times
<1>2. \A p \in Place : files[p] \subseteq Arkvault
  BY DEF BackupsFit, BackupsTyped
<1>3. ASSUME NEW c \in Calls
      PROVE  /\ calls[c].op \in {"none", "sweep", "due", "all"}
             /\ Range(calls[c].todo) \subseteq Row
             /\ calls[c].step \in {"next", "check", "prune", "upload", "list", "delete", "record"}
             /\ calls[c].file \in Arkvault \cup {Idle.file}
             /\ calls[c].doomed \subseteq Arkvault
             /\ calls[c].op # "none" => calls[c].todo # <<>>
             /\ calls[c].step # "next" => calls[c].file \in Arkvault
  <2>1. calls[c] \in CallType /\ CallWhole(calls[c])
    BY DEF BackupsFit, BackupsTyped, CallsFit
  <2>2. \A i \in DOMAIN calls[c].todo : calls[c].todo[i] \in ListedRow
    BY <2>1 DEF CallType
  <2>3. Range(calls[c].todo) \subseteq Row
    BY <2>2 DEF Range, ListedRow
  <2> QED
    BY <2>1, <2>3 DEF CallType, CallWhole
<1>4. {sweeping, unlocked} \subseteq BOOLEAN
  BY DEF BackupsFit, BackupsTyped
<1>5. password \in 0 .. MaxEvents /\ clock \in Nat /\ events \in 0 .. MaxEvents
  BY DEF BackupsFit, BackupsTyped, Assumed, BoundsAssumption
<1>6. targets \in [Target -> [state : {"absent", "never", "fresh", "stale", "failed", "removed"},
                              enabled : BOOLEAN, folder : Folders, keep : Nat]]
  BY DEF BackupsFit, BackupsTyped, TargetType
<1> QED
  BY <1>1, <1>2, <1>3, <1>4, <1>5, <1>6 DEF BackupsTypeOK, BackupsFit

-----------------------------------------------------------------------------
\* Every reachable state of the vault backups satisfies the inductive invariant.
THEOREM BackupsInvariance ==
    ASSUME DriveKeepsMore, SpoiltAlone
    PROVE  BackupsSpec => []BackupsFit
<1>1. BackupsInit => BackupsFit
  BY ConstantsFit, InitFits
<1>2. BackupsFit /\ [BackupsNext]_backupsVars => BackupsFit'
  BY ConstantsFit, NextFits
<1> QED
  BY <1>1, <1>2, PTL DEF BackupsSpec

\* What the history shows as a target's last success, or something newer, is whole in the
\* folder it went to, for any number of targets, calls and processes that prune there
\* (runVaultBackup.ts:53-115, 165-178).
THEOREM SuccessesAreThere ==
    ASSUME DriveKeepsMore, SpoiltAlone
    PROVE  BackupsSpec => []BackupsInv
<1>1. BackupsFit => BackupsInv
  BY ConstantsFit, FitsType DEF BackupsInv
<1> QED
  BY <1>1, BackupsInvariance, PTL

\* Retention deletes a file only when a newer, whole one is in its place
\* (pruneOldLocalBackups after the self-check, deleteFile after the upload,
\* runVaultBackup.ts:113-115, 165-178).
THEOREM NothingPrunedForNothing ==
    ASSUME DriveKeepsMore, SpoiltAlone
    PROVE  BackupsSpec => PrunedForNewer
<1>1. BackupsFit /\ [BackupsNext]_backupsVars =>
        [\A p \in Place : \A f \in files[p] \ files'[p] :
            \E g \in files'[p] : g.good /\ g.time > f.time]_backupsVars
  BY ConstantsFit, NextFits DEF NewerStays
<1> QED
  BY <1>1, BackupsInvariance, PTL DEF BackupsSpec, PrunedForNewer
=============================================================================
