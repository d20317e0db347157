-------------------------- MODULE BackupRunsProofs --------------------------
(* Theorems about BackupRuns, for any tasks, processes, pids and bounds.   *)
EXTENDS BackupRuns, TLAPS

USE NumbersAssumption, NamesAssumption DEF Row, Frame, Call

LEMMA InitInv == Init => IInv
  BY DEF Init, IInv, TypeOK, CallHasTask, RowsWellFormed, FramesOwned, InsertOwned, LockHeld,
         LiveRowKeepsStatus, OneRunPerProcess, Rows, Live, NoRow, NoFrame, NoCall,
         RunIds, Statuses, InProgress, Finished, LivePoints

LEMMA BeginInv ==
  ASSUME IInv, NEW p \in Procs, NEW t \in Tasks, Begin(p, t)
  PROVE  IInv'
  <1> USE DEF IInv, Begin, NoCall
  <1>1. TypeOK'
    BY DEF TypeOK, ListInProgress
  <1>0. CallHasTask'
    BY DEF CallHasTask, TypeOK
  <1>2. RowsWellFormed'
    BY DEF TypeOK, RowsWellFormed, ListInProgress, Rows, InProgress
  <1>3. FramesOwned'
    BY DEF FramesOwned
  <1>4. InsertOwned'
    BY DEF InsertOwned, TypeOK
  <1>5. LockHeld'
    BY DEF LockHeld, Live, Overdue, TypeOK
  <1>6. LiveRowKeepsStatus' /\ OneRunPerProcess'
    BY DEF LiveRowKeepsStatus, OneRunPerProcess, Live, Overdue
  <1>7. QED
    BY <1>0, <1>1, <1>2, <1>3, <1>4, <1>5, <1>6

LEMMA RecoverRowInv ==
  ASSUME IInv, NEW p \in Procs, NEW r \in RunIds, RecoverRow(p, r)
  PROVE  IInv'
  <1> USE DEF IInv
  <1>1. PICK started \in BOOLEAN :
          row' = IF IsStale(r, started)
                 THEN [row EXCEPT ![r].status = "Failed"] ELSE row
    BY DEF RecoverRow
  <1>2. /\ call' = [call EXCEPT ![p].todo = @ \ {r}]
        /\ r \in call[p].todo
        /\ UNCHANGED <<frame, holder, older>>
    BY DEF RecoverRow
  <1>3. row[r].status \notin {"Absent", "Pending"}
    BY <1>2 DEF RowsWellFormed
  <1>4. \A s \in RunIds : /\ row'[s].task = row[s].task
                          /\ row'[s].pid = row[s].pid
                          /\ row'[s].age = row[s].age
                          /\ s # r => row'[s].status = row[s].status
    BY <1>1 DEF TypeOK
  <1>5. row'[r].status \in {"Failed", row[r].status}
    BY <1>1 DEF TypeOK
  <1>6. TypeOK'
    <2>1. "Failed" \in Statuses
      BY DEF Statuses, Finished
    <2>2. row' \in [RunIds -> Row]
      BY <1>1, <2>1 DEF TypeOK
    <2>3. call[p].todo \ {r} \in SUBSET RunIds
      BY DEF TypeOK
    <2>4. call' \in [Procs -> Call]
      BY <1>2, <2>3 DEF TypeOK
    <2>5. QED
      BY <1>2, <2>2, <2>4 DEF TypeOK
  <1>7. Rows' = Rows
    BY <1>3, <1>4, <1>5 DEF Rows
  <1>8. \A q \in Procs : /\ call'[q].todo \subseteq call[q].todo
                         /\ call'[q].step = call[q].step
                         /\ call'[q].task = call[q].task
                         /\ call'[q].run = call[q].run
    BY <1>2 DEF TypeOK
  <1>0. CallHasTask'
    BY <1>8 DEF CallHasTask
  <1>9. RowsWellFormed'
    <2>1. \A s \in Rows' : row'[s].task \in Tasks /\ row'[s].pid \in Pids
      BY <1>4, <1>7 DEF RowsWellFormed, Rows
    <2>2. \A q \in Procs : \A s \in call'[q].todo : row'[s].status \notin {"Absent", "Pending"}
      BY <1>3, <1>4, <1>5, <1>8 DEF RowsWellFormed, TypeOK
    <2>3. QED
      BY <1>2, <1>7, <2>1, <2>2 DEF RowsWellFormed
  <1>10. FramesOwned'
    BY <1>2, <1>3, <1>4, <1>5 DEF FramesOwned
  <1>11. InsertOwned'
    BY <1>2, <1>3, <1>4, <1>8 DEF InsertOwned
  <1>12. LockHeld'
    BY <1>2, <1>4, <1>8 DEF LockHeld, Live, Overdue
  <1>13. LiveRowKeepsStatus'
    <2>1. ASSUME Live(r), ~Overdue(r) PROVE row' = row
      BY <1>1, <2>1 DEF IsStale, Overdue, Live, FramesOwned, TypeOK, LivePoints
    <2>2. QED
      BY <1>2, <1>4, <2>1 DEF LiveRowKeepsStatus, Live, Overdue
  <1>14. OneRunPerProcess'
    BY <1>2, <1>4 DEF OneRunPerProcess, Live, Overdue
  <1>15. QED
    BY <1>0, <1>6, <1>9, <1>10, <1>11, <1>12, <1>13, <1>14

\* A call that gives up before it has written anything.
LEMMA ResetCallInv ==
  ASSUME IInv, NEW p \in Procs,
         call' = [call EXCEPT ![p] = NoCall],
         UNCHANGED <<row, frame, holder, older>>
  PROVE  IInv'
  <1> USE DEF IInv, NoCall
  <1>0. CallHasTask'
    BY DEF CallHasTask, TypeOK
  <1>1. TypeOK'
    BY DEF TypeOK
  <1>2. RowsWellFormed'
    BY DEF TypeOK, RowsWellFormed, Rows
  <1>3. FramesOwned'
    BY DEF FramesOwned
  <1>4. InsertOwned'
    BY DEF InsertOwned, TypeOK
  <1>5. LockHeld'
    BY DEF LockHeld, Live, Overdue, TypeOK
  <1>6. LiveRowKeepsStatus' /\ OneRunPerProcess'
    BY DEF LiveRowKeepsStatus, OneRunPerProcess, Live, Overdue
  <1>7. QED
    BY <1>0, <1>1, <1>2, <1>3, <1>4, <1>5, <1>6

\* The lock check sees every live run of its own process and does not take it
\* for dead, so the call that passes has none beside it.
LEMMA TakeLockInv ==
  ASSUME IInv, NEW p \in Procs, TakeLock(p)
  PROVE  IInv'
  <1> USE DEF IInv
  <1>a. /\ call[p].step = "recover" /\ call' = [call EXCEPT ![p].step = "insert"]
        /\ UNCHANGED <<row, frame, holder, older>>
    BY DEF TakeLock
  <1>b. call \in [Procs -> Call]
    BY DEF TypeOK
  <1>c. call' \in [Procs -> Call]
    BY <1>a, <1>b
  <1>0. CallHasTask'
    BY <1>a, <1>b DEF CallHasTask
  <1>1. TypeOK'
    BY <1>a, <1>c DEF TypeOK
  <1>2. RowsWellFormed'
    BY <1>a DEF TypeOK, RowsWellFormed, Rows
  <1>3. FramesOwned'
    BY <1>a DEF FramesOwned
  <1>4. InsertOwned'
    BY <1>a, <1>b DEF InsertOwned
  <1>5. LockHeld'
    <2>1. ASSUME NEW r \in RunIds, Live(r), frame[r].proc = p,
                 row[r].task = call[p].task, ~Overdue(r)
          PROVE  FALSE
      <3>1. row[r].status \in InProgress
        BY <2>1 DEF LiveRowKeepsStatus, Live, LivePoints, StatusAt, InProgress
      <3>2. ASSUME NEW answered \in SUBSET RunIds
            PROVE  r \in Blocking(call[p].task, answered)
        <4>1. ~IsStale(r, r \in answered)
          BY <2>1 DEF FramesOwned, Live, LivePoints, IsStale, Overdue
        <4>2. QED
          BY <2>1, <3>1, <4>1 DEF Blocking, ListInProgress
      <3>3. QED
        BY <3>2 DEF TakeLock
    <2>2. QED
      BY <1>a, <2>1 DEF LockHeld, Live, Overdue, TypeOK
  <1>6. LiveRowKeepsStatus' /\ OneRunPerProcess'
    BY <1>a DEF LiveRowKeepsStatus, OneRunPerProcess, Live, Overdue
  <1>7. QED
    BY <1>0, <1>1, <1>2, <1>3, <1>4, <1>5, <1>6

LEMMA InsertRowInv ==
  ASSUME IInv, NEW p \in Procs, InsertRow(p)
  PROVE  IInv'
  <1> USE DEF IInv
  <1>1. PICK r \in RunIds \ Rows, pid \in Pids :
          /\ holder[pid] = p
          /\ row' = [row EXCEPT ![r] = [status |-> "Pending", task |-> call[p].task,
                                        pid |-> pid, age |-> 0]]
          /\ call' = [call EXCEPT ![p] = [@ EXCEPT !.step = "running", !.run = r]]
    BY DEF InsertRow
  <1>2. call[p].step = "insert" /\ UNCHANGED <<frame, holder, older>>
    BY DEF InsertRow
  <1>3. call[p].task \in Tasks
    BY <1>2 DEF CallHasTask
  <1>4. row[r].status = "Absent" /\ frame[r].at = "none"
    BY <1>1 DEF Rows, FramesOwned
  <1>5. TypeOK'
    <2>1. row' \in [RunIds -> Row]
      BY <1>1, <1>3 DEF TypeOK, Statuses
    <2>2. call[p] \in Call /\ r \in RunIds
      BY <1>1 DEF TypeOK
    <2>3. [call[p] EXCEPT !.step = "running", !.run = r] \in Call
      BY <2>2
    <2>4. call' \in [Procs -> Call]
      BY <1>1, <2>3 DEF TypeOK
    <2>5. QED
      BY <1>2, <2>1, <2>4 DEF TypeOK
  <1>6. /\ row'[r] = [status |-> "Pending", task |-> call[p].task, pid |-> pid, age |-> 0]
        /\ \A s \in RunIds : s # r => row'[s] = row[s]
    BY <1>1 DEF TypeOK
  <1>7. /\ call'[p].step = "running" /\ call'[p].run = r
        /\ call'[p].task = call[p].task /\ call'[p].todo = call[p].todo
        /\ \A q \in Procs : q # p => call'[q] = call[q]
    BY <1>1 DEF TypeOK
  <1>8. Rows' = Rows \cup {r}
    BY <1>6 DEF Rows
  <1>9. CallHasTask'
    BY <1>3, <1>7 DEF CallHasTask
  <1>10. RowsWellFormed'
    <2>1. \A s \in Rows' : row'[s].task \in Tasks /\ row'[s].pid \in Pids
      BY <1>3, <1>6, <1>8 DEF RowsWellFormed, Rows
    <2>2. \A q \in Procs : \A s \in call'[q].todo : row'[s].status \notin {"Absent", "Pending"}
      BY <1>4, <1>6, <1>7 DEF RowsWellFormed, TypeOK
    <2>3. QED
      BY <1>2, <1>8, <2>1, <2>2 DEF RowsWellFormed
  <1>11. FramesOwned'
    BY <1>2, <1>4, <1>6 DEF FramesOwned
  <1>12. InsertOwned'
    <2>1. r \notin older[pid]
      BY <1>1 DEF RowsWellFormed
    <2>2. ASSUME NEW q \in Procs, q # p, call[q].step = "running"
          PROVE  call[q].run # r
      BY <1>4, <2>2 DEF InsertOwned
    <2>3. ASSUME NEW q \in Procs, q # p, call'[q].step = "running"
          PROVE  /\ call'[q].run \in RunIds
                 /\ row'[call'[q].run] = row[call[q].run]
                 /\ call'[q] = call[q]
      BY <1>6, <1>7, <2>2, <2>3 DEF InsertOwned
    <2>4. ASSUME NEW q \in Procs, q # p, call'[q].step = "running"
          PROVE  /\ row'[call'[q].run].status = "Pending"
                 /\ row'[call'[q].run].task = call'[q].task
                 /\ frame'[call'[q].run].at = "none"
                 /\ holder'[row'[call'[q].run].pid] = q
                 /\ call'[q].run \notin older'[row'[call'[q].run].pid]
      BY <1>2, <2>3, <2>4 DEF InsertOwned
    <2>5. /\ row'[r].status = "Pending" /\ row'[r].task = call'[p].task
          /\ frame'[r].at = "none" /\ holder'[row'[r].pid] = p
          /\ r \notin older'[row'[r].pid]
      BY <1>1, <1>2, <1>4, <1>6, <1>7, <2>1
    <2>6. QED
      BY <1>7, <2>3, <2>4, <2>5 DEF InsertOwned
  <1>13. LockHeld'
    BY <1>2, <1>4, <1>6, <1>7 DEF LockHeld, Live, LivePoints, Overdue
  <1>14. LiveRowKeepsStatus' /\ OneRunPerProcess'
    BY <1>2, <1>4, <1>6 DEF LiveRowKeepsStatus, OneRunPerProcess, Live, LivePoints, Overdue
  <1>15. QED
    BY <1>5, <1>9, <1>10, <1>11, <1>12, <1>13, <1>14

LEMMA SetRunningInv ==
  ASSUME IInv, NEW p \in Procs, SetRunning(p)
  PROVE  IInv'
  <1> USE DEF IInv
  <1> DEFINE r == call[p].run
  <1>1. /\ row' = [row EXCEPT ![r].status = "Running"]
        /\ frame' = [frame EXCEPT ![r] = [at |-> "setup", proc |-> p]]
        /\ call' = [call EXCEPT ![p] = NoCall]
        /\ UNCHANGED <<holder, older>>
    BY DEF SetRunning
  <1>2. /\ r \in RunIds /\ row[r].status = "Pending" /\ row[r].task = call[p].task
        /\ frame[r].at = "none" /\ holder[row[r].pid] = p
        /\ r \notin older[row[r].pid] /\ call[p].step = "running"
    BY DEF SetRunning, InsertOwned
  <1> HIDE DEF r
  <1>3. /\ row'[r] = [row[r] EXCEPT !.status = "Running"]
        /\ frame'[r] = [at |-> "setup", proc |-> p]
        /\ \A s \in RunIds : s # r => row'[s] = row[s] /\ frame'[s] = frame[s]
    BY <1>1, <1>2 DEF TypeOK
  <1>4. /\ call'[p] = NoCall
        /\ \A q \in Procs : q # p => call'[q] = call[q]
    BY <1>1 DEF TypeOK
  <1>5. /\ row'[r].status = "Running" /\ row'[r].task = row[r].task
        /\ row'[r].pid = row[r].pid /\ row'[r].age = row[r].age
    BY <1>2, <1>3 DEF TypeOK
  <1>6. TypeOK'
    <2>0. "Running" \in Statuses
      BY DEF Statuses, InProgress
    <2>1. row' \in [RunIds -> Row]
      BY <1>1, <1>2, <2>0 DEF TypeOK
    <2>2. frame' \in [RunIds -> Frame]
      BY <1>1, <1>2 DEF TypeOK, LivePoints
    <2>3. call' \in [Procs -> Call]
      BY <1>1 DEF TypeOK, NoCall
    <2>4. QED
      BY <1>1, <2>1, <2>2, <2>3 DEF TypeOK
  <1>7. CallHasTask'
    BY <1>4 DEF CallHasTask, NoCall
  <1>8. RowsWellFormed'
    <2>1. Rows' = Rows
      BY <1>2, <1>3, <1>5 DEF Rows
    <2>2. QED
      BY <1>1, <1>3, <1>4, <1>5, <2>1 DEF RowsWellFormed, Rows, NoCall, TypeOK
  <1>9. FramesOwned'
    BY <1>1, <1>2, <1>3, <1>5 DEF FramesOwned
  <1>10. InsertOwned'
    <2>1. ASSUME NEW q \in Procs, call'[q].step = "running"
          PROVE  q # p /\ call'[q] = call[q] /\ call[q].run # r
      BY <1>2, <1>4, <2>1 DEF NoCall, InsertOwned
    <2>2. QED
      BY <1>1, <1>3, <2>1 DEF InsertOwned
  <1>11. LockHeld'
    BY <1>1, <1>2, <1>3, <1>4, <1>5 DEF LockHeld, Live, Overdue, NoCall
  <1>12. LiveRowKeepsStatus'
    <2>1. StatusAt["setup"] = "Running"
      BY DEF StatusAt
    <2>2. row'[r].status = StatusAt[frame'[r].at]
      BY <1>3, <1>5, <2>1
    <2>3. QED
      BY <1>3, <2>2 DEF LiveRowKeepsStatus, Live, Overdue
  <1>13. OneRunPerProcess'
    <2>1. ASSUME NEW s \in RunIds, s # r, Live(s)', frame'[s].proc = p,
                 row'[s].task = row'[r].task
          PROVE  Overdue(s)'
      BY <1>2, <1>3, <1>5, <2>1 DEF LockHeld, Live, Overdue
    <2>2. ASSUME NEW s \in RunIds, NEW u \in RunIds, s # r, u # r, s # u,
                 Live(s)', Live(u)', frame'[s].proc = frame'[u].proc,
                 row'[s].task = row'[u].task
          PROVE  Overdue(s)' \/ Overdue(u)'
      BY <1>3, <2>2 DEF OneRunPerProcess, Live, Overdue
    <2>3. SUFFICES ASSUME NEW s \in RunIds, NEW u \in RunIds, s # u, Live(s)', Live(u)',
                          frame'[s].proc = frame'[u].proc, row'[s].task = row'[u].task
                   PROVE  Overdue(s)' \/ Overdue(u)'
      BY DEF OneRunPerProcess
    <2>4. frame'[r].proc = p
      BY <1>3
    <2>5. CASE s = r
      BY <2>1, <2>3, <2>4, <2>5
    <2>6. CASE u = r
      BY <2>1, <2>3, <2>4, <2>6
    <2>7. QED
      BY <2>2, <2>3, <2>5, <2>6
  <1>14. QED
    BY <1>6, <1>7, <1>8, <1>9, <1>10, <1>11, <1>12, <1>13

\* A frame that ends without a statement on its row.
LEMMA ClearFrameInv ==
  ASSUME IInv, NEW r \in RunIds, frame' = [frame EXCEPT ![r] = NoFrame],
         UNCHANGED <<row, call, holder, older>>
  PROVE  IInv'
  <1> USE DEF IInv, NoFrame
  <1>1. TypeOK'
    BY DEF TypeOK
  <1>2. /\ frame'[r].at = "none"
        /\ \A s \in RunIds : s # r => frame'[s] = frame[s]
    BY DEF TypeOK
  <1>3. CallHasTask' /\ RowsWellFormed'
    BY DEF CallHasTask, RowsWellFormed, Rows
  <1>4. FramesOwned' /\ InsertOwned'
    BY <1>2 DEF FramesOwned, InsertOwned
  <1>5. LockHeld' /\ LiveRowKeepsStatus' /\ OneRunPerProcess'
    BY <1>2 DEF LockHeld, LiveRowKeepsStatus, OneRunPerProcess, Live, LivePoints, Overdue
  <1>6. QED
    BY <1>1, <1>3, <1>4, <1>5

\* A frame that moves on and writes the status of the point it goes to.
LEMMA AdvanceInv ==
  ASSUME IInv, NEW r \in RunIds, NEW point \in LivePoints,
         NEW next \in LivePoints \cup {"retention"},
         NEW status \in InProgress \cup Finished,
         next \in LivePoints => status = StatusAt[next],
         Advance(r, point, next, status)
  PROVE  IInv'
  <1> USE DEF IInv
  <1>1. /\ row' = [row EXCEPT ![r].status = status]
        /\ frame' = [frame EXCEPT ![r].at = next]
        /\ UNCHANGED <<call, holder, older>>
        /\ frame[r].at = point /\ call[frame[r].proc].step = "idle"
    BY DEF Advance, Resumes
  <1>2. status \notin {"Absent", "Pending"} /\ point # "none"
    BY DEF InProgress, Finished, LivePoints
  <1>3. /\ row'[r].status = status /\ row'[r].task = row[r].task
        /\ row'[r].pid = row[r].pid /\ row'[r].age = row[r].age
        /\ frame'[r].at = next /\ frame'[r].proc = frame[r].proc
        /\ \A s \in RunIds : s # r => row'[s] = row[s] /\ frame'[s] = frame[s]
    BY <1>1 DEF TypeOK
  <1>4. row[r].status \notin {"Absent", "Pending"}
    BY <1>1, <1>2 DEF FramesOwned
  <1>5. TypeOK'
    <2>1. status \in Statuses
      BY DEF Statuses
    <2>2. row' \in [RunIds -> Row]
      <3>1. row[r] \in Row
        BY DEF TypeOK
      <3>2. [row[r] EXCEPT !.status = status] \in Row
        BY <2>1, <3>1
      <3>3. QED
        BY <1>1, <3>2 DEF TypeOK
    <2>3. frame[r] \in Frame /\ next \in {"none", "retention"} \cup LivePoints
      BY DEF TypeOK
    <2>4. [frame[r] EXCEPT !.at = next] \in Frame
      BY <2>3
    <2>5. frame' \in [RunIds -> Frame]
      BY <1>1, <2>4 DEF TypeOK
    <2>6. QED
      BY <1>1, <2>2, <2>5 DEF TypeOK
  <1>6. CallHasTask'
    BY <1>1 DEF CallHasTask
  <1>7. RowsWellFormed'
    <2>1. Rows' = Rows
      BY <1>2, <1>3, <1>4 DEF Rows
    <2>2. QED
      BY <1>1, <1>2, <1>3, <2>1 DEF RowsWellFormed, Rows, TypeOK
  <1>8. FramesOwned'
    BY <1>1, <1>2, <1>3 DEF FramesOwned
  <1>9. InsertOwned'
    BY <1>1, <1>3, <1>4 DEF InsertOwned
  <1>10. LockHeld'
    BY <1>1, <1>3 DEF LockHeld, Live, Overdue
  <1>11. LiveRowKeepsStatus'
    BY <1>3 DEF LiveRowKeepsStatus, Live, Overdue
  <1>12. OneRunPerProcess'
    BY <1>1, <1>3 DEF OneRunPerProcess, Live, Overdue
  <1>13. QED
    BY <1>5, <1>6, <1>7, <1>8, <1>9, <1>10, <1>11, <1>12

\* A pid that none of our processes has gets or loses a holder.
LEMMA PidChangesHandsInv ==
  ASSUME IInv, NEW pid \in Pids, NEW h \in Procs \cup {Free, Foreign},
         NEW before \in SUBSET Rows,
         holder[pid] \notin Procs,
         holder' = [holder EXCEPT ![pid] = h],
         older' = [older EXCEPT ![pid] = before],
         UNCHANGED <<row, frame, call>>
  PROVE  IInv'
  <1> USE DEF IInv
  <1>1. TypeOK'
    BY DEF TypeOK, Rows
  <1>2. \A q \in Pids : q # pid => holder'[q] = holder[q] /\ older'[q] = older[q]
    BY DEF TypeOK
  <1>3. CallHasTask' /\ LockHeld' /\ LiveRowKeepsStatus' /\ OneRunPerProcess'
    BY DEF CallHasTask, LockHeld, LiveRowKeepsStatus, OneRunPerProcess, Live, Overdue
  <1>4. RowsWellFormed'
    BY DEF RowsWellFormed, Rows, TypeOK
  <1>5. FramesOwned'
    <2>1. ASSUME NEW r \in RunIds, frame[r].at # "none"
          PROVE  row[r].pid \in Pids /\ row[r].pid # pid
      BY <2>1 DEF FramesOwned, RowsWellFormed, Rows
    <2>2. QED
      BY <1>2, <2>1 DEF FramesOwned
  <1>6. InsertOwned'
    <2>1. ASSUME NEW p \in Procs, call[p].step = "running"
          PROVE  row[call[p].run].pid \in Pids /\ row[call[p].run].pid # pid
      BY <2>1 DEF InsertOwned, RowsWellFormed, Rows
    <2>2. QED
      BY <1>2, <2>1 DEF InsertOwned
  <1>7. QED
    BY <1>1, <1>3, <1>4, <1>5, <1>6

LEMMA KillInv ==
  ASSUME IInv, NEW p \in Procs, Kill(p)
  PROVE  IInv'
  <1> USE DEF IInv
  <1>1. /\ holder' = [pid \in Pids |-> IF holder[pid] = p THEN Free ELSE holder[pid]]
        /\ older' = [pid \in Pids |-> IF holder[pid] = p THEN {} ELSE older[pid]]
        /\ call' = [call EXCEPT ![p] = NoCall]
        /\ frame' = [r \in RunIds |-> IF frame[r].proc = p THEN NoFrame ELSE frame[r]]
        /\ row' = row
    BY DEF Kill
  <1>2. TypeOK'
    BY <1>1 DEF TypeOK, NoCall, NoFrame
  <1>3. /\ call'[p] = NoCall
        /\ \A q \in Procs : q # p => call'[q] = call[q]
    BY <1>1 DEF TypeOK
  <1>4. \A r \in RunIds : frame'[r].at # "none" => frame'[r] = frame[r] /\ frame[r].proc # p
    BY <1>1 DEF NoFrame
  <1>5. CallHasTask'
    BY <1>3 DEF CallHasTask, NoCall
  <1>6. RowsWellFormed'
    BY <1>1, <1>3 DEF RowsWellFormed, Rows, NoCall
  <1>7. FramesOwned'
    <2>1. ASSUME NEW r \in RunIds, frame'[r].at # "none"
          PROVE  /\ row[r].pid \in Pids
                 /\ holder'[row[r].pid] = holder[row[r].pid]
                 /\ older'[row[r].pid] = older[row[r].pid]
      BY <1>1, <1>4, <2>1 DEF FramesOwned, RowsWellFormed, Rows
    <2>2. QED
      BY <1>1, <1>4, <2>1 DEF FramesOwned
  <1>8. InsertOwned'
    <2>1. ASSUME NEW q \in Procs, call'[q].step = "running"
          PROVE  /\ call'[q] = call[q] /\ q # p
                 /\ row[call[q].run].pid \in Pids
                 /\ holder'[row[call[q].run].pid] = holder[row[call[q].run].pid]
                 /\ older'[row[call[q].run].pid] = older[row[call[q].run].pid]
                 /\ frame'[call[q].run].at = "none"
                 /\ row'[call[q].run] = row[call[q].run]
      BY <1>1, <1>3, <2>1 DEF InsertOwned, RowsWellFormed, Rows, NoCall, NoFrame
    <2>2. QED
      BY <2>1 DEF InsertOwned
  <1>9. LockHeld'
    BY <1>1, <1>3, <1>4 DEF LockHeld, Live, LivePoints, Overdue, NoCall
  <1>10. LiveRowKeepsStatus' /\ OneRunPerProcess'
    BY <1>1, <1>4 DEF LiveRowKeepsStatus, OneRunPerProcess, Live, LivePoints, Overdue
  <1>11. QED
    BY <1>2, <1>5, <1>6, <1>7, <1>8, <1>9, <1>10

LEMMA TickInv ==
  ASSUME IInv, Tick
  PROVE  IInv'
  <1> USE DEF IInv
  <1>1. /\ row' = [r \in RunIds |-> IF r \in Rows THEN [row[r] EXCEPT !.age = Older(row[r].age)]
                                                 ELSE row[r]]
        /\ UNCHANGED <<frame, call, holder, older>>
    BY DEF Tick
  <1>2. \A a \in 0 .. MaxRunAge + 1 :
           Older(a) \in 0 .. MaxRunAge + 1 /\ (a > MaxRunAge => Older(a) > MaxRunAge)
    BY DEF Older
  <1>3. \A r \in RunIds : /\ row'[r].status = row[r].status
                          /\ row'[r].task = row[r].task
                          /\ row'[r].pid = row[r].pid
                          /\ Overdue(r) => Overdue(r)'
    BY <1>1, <1>2 DEF TypeOK, Overdue
  <1>4. TypeOK'
    <2>1. ASSUME NEW r \in RunIds PROVE row'[r] \in Row
      <3>1. row[r] \in Row /\ Older(row[r].age) \in 0 .. MaxRunAge + 1
        BY <1>2 DEF TypeOK
      <3>2. [row[r] EXCEPT !.age = Older(row[r].age)] \in Row
        BY <3>1
      <3>3. QED
        BY <1>1, <3>1, <3>2
    <2>2. row' \in [RunIds -> Row]
      BY <1>1, <2>1
    <2>3. QED
      BY <1>1, <2>2 DEF TypeOK
  <1>5. Rows' = Rows
    BY <1>3 DEF Rows
  <1>6. CallHasTask' /\ RowsWellFormed'
    BY <1>1, <1>3, <1>5 DEF CallHasTask, RowsWellFormed, Rows, TypeOK
  <1>7. FramesOwned' /\ InsertOwned'
    BY <1>1, <1>3 DEF FramesOwned, InsertOwned
  <1>8. LockHeld' /\ LiveRowKeepsStatus' /\ OneRunPerProcess'
    BY <1>1, <1>3 DEF LockHeld, LiveRowKeepsStatus, OneRunPerProcess, Live
  <1>9. QED
    BY <1>4, <1>6, <1>7, <1>8

-----------------------------------------------------------------------------
LEMMA CallStepInv ==
  ASSUME IInv, NEW p \in Procs, CallStep(p)
  PROVE  IInv'
  <1>1. CASE \E r \in RunIds : RecoverRow(p, r)
    BY <1>1, RecoverRowInv
  <1>2. CASE SkipLocked(p)
    BY <1>2, ResetCallInv DEF SkipLocked
  <1>3. CASE TakeLock(p)
    BY <1>3, TakeLockInv
  <1>4. CASE ClientMissing(p)
    BY <1>4, ResetCallInv DEF ClientMissing
  <1>5. CASE InsertRow(p)
    BY <1>5, InsertRowInv
  <1>6. CASE SetRunning(p)
    BY <1>6, SetRunningInv
  <1>7. QED
    BY <1>1, <1>2, <1>3, <1>4, <1>5, <1>6 DEF CallStep

LEMMA FrameStepInv ==
  ASSUME IInv, NEW r \in RunIds, FrameStep(r)
  PROVE  IInv'
  <1> USE DEF LivePoints, InProgress, Finished
  <1>1. CASE SetupFails(r)
    BY <1>1, ClearFrameInv DEF SetupFails
  <1>2. CASE MarkProducing(r)
    BY <1>2, AdvanceInv DEF MarkProducing, StatusAt
  <1>3. CASE MarkValidating(r)
    BY <1>3, AdvanceInv DEF MarkValidating, StatusAt
  <1>4. CASE NothingNew(r)
    BY <1>4, AdvanceInv DEF NothingNew
  <1>5. CASE ProduceFails(r)
    BY <1>5, AdvanceInv DEF ProduceFails
  <1>6. CASE Verdict(r)
    BY <1>6, AdvanceInv DEF Verdict
  <1>7. CASE Return(r)
    BY <1>7, ClearFrameInv DEF Return
  <1>8. QED
    BY <1>1, <1>2, <1>3, <1>4, <1>5, <1>6, <1>7 DEF FrameStep

LEMMA SystemStepInv ==
  ASSUME IInv, SystemStep
  PROVE  IInv'
  <1>1. ASSUME NEW p \in Procs, NEW pid \in Pids, Boot(p, pid) PROVE IInv'
    BY <1>1, PidChangesHandsInv DEF Boot
  <1>2. ASSUME NEW p \in Procs, Kill(p) PROVE IInv'
    BY <1>2, KillInv
  <1>3. ASSUME NEW pid \in Pids, ForeignStart(pid) PROVE IInv'
    BY <1>3, PidChangesHandsInv DEF ForeignStart
  <1>4. ASSUME NEW pid \in Pids, ForeignExit(pid) PROVE IInv'
    BY <1>4, PidChangesHandsInv, {} \in SUBSET Rows DEF ForeignExit
  <1>5. CASE Tick
    BY <1>5, TickInv
  <1>6. QED
    BY <1>1, <1>2, <1>3, <1>4, <1>5 DEF SystemStep

LEMMA NextInv ==
  ASSUME IInv, [Next]_vars
  PROVE  IInv'
  <1>1. ASSUME NEW p \in Procs, NEW t \in Tasks, Begin(p, t) PROVE IInv'
    BY <1>1, BeginInv
  <1>2. ASSUME NEW p \in Procs, CallStep(p) PROVE IInv'
    BY <1>2, CallStepInv
  <1>3. ASSUME NEW r \in RunIds, FrameStep(r) PROVE IInv'
    BY <1>3, FrameStepInv
  <1>4. CASE SystemStep
    BY <1>4, SystemStepInv
  <1>5. CASE UNCHANGED vars
    BY <1>5 DEF vars, IInv, TypeOK, CallHasTask, RowsWellFormed, FramesOwned, InsertOwned,
                LockHeld, LiveRowKeepsStatus, OneRunPerProcess, Rows, Live, Overdue
  <1>6. QED
    BY <1>1, <1>2, <1>3, <1>4, <1>5 DEF Next

THEOREM Invariance == Spec => []IInv
  <1>1. Init => IInv
    BY InitInv
  <1>2. IInv /\ [Next]_vars => IInv'
    BY NextInv
  <1>3. QED
    BY <1>1, <1>2, PTL DEF Spec

\* Every variable keeps its type: in particular no statement writes a status
\* the schema does not have.
THEOREM TypeCorrectness == Spec => []TypeOK
  <1>1. IInv => TypeOK
    BY DEF IInv
  <1>2. QED
    BY <1>1, Invariance, PTL

\* However many processes, tasks and pids there are, and however pids are
\* recycled: a run that executes is not reclaimed by another process before
\* it is past the maximum age.
THEOREM LiveRunsAreNotReclaimed == Spec => []LiveRowKeepsStatus
  <1>1. IInv => LiveRowKeepsStatus
    BY DEF IInv
  <1>2. QED
    BY <1>1, Invariance, PTL

\* The lock excludes within a process (what it does not do across processes is
\* the run of NoDoubleRun).
THEOREM LockExcludesWithinProcess == Spec => []OneRunPerProcess
  <1>1. IInv => OneRunPerProcess
    BY DEF IInv
  <1>2. QED
    BY <1>1, Invariance, PTL

\* Only one process runs backups: the service, or the command line without it.
OneProcess == \A p, q \in Procs : p = q

\* Then what one expects of the lock holds (section 4 of the README): no two runs of a task
\* execute at the same time, until one of them is past the maximum age.
THEOREM OneProcessNeverRunsTwice == ASSUME OneProcess PROVE Spec => []NoDoubleRun
  <1>1. IInv => NoDoubleRun
    BY DEF OneProcess, IInv, FramesOwned, OneRunPerProcess, NoDoubleRun, Live, LivePoints
  <1>2. QED
    BY <1>1, Invariance, PTL

\* Only a run that is past the maximum age is revived after it was written off.
THEOREM NoResurrection == Spec => NoEarlyResurrection
  <1> DEFINE Revives == \A r \in RunIds : row[r].status = "Failed" /\ row'[r].status # "Failed"
                                          => Overdue(r)
  <1>1. ASSUME IInv, Next PROVE Revives
    <2> SUFFICES ASSUME NEW s \in RunIds, row[s].status = "Failed", row'[s].status # "Failed"
                 PROVE  Overdue(s)
      OBVIOUS
    <2> USE <1>1 DEF IInv
    <2>1. ASSUME NEW p \in Procs, CallStep(p) PROVE row'[s].status = "Failed"
      <3>1. ASSUME NEW r \in RunIds, RecoverRow(p, r) PROVE row'[s].status = "Failed"
        BY <3>1 DEF RecoverRow, TypeOK
      <3>2. CASE InsertRow(p)
        BY <3>2 DEF InsertRow, TypeOK, Rows
      <3>3. CASE SetRunning(p)
        BY <3>3 DEF SetRunning, InsertOwned, TypeOK
      <3>4. QED
        BY <2>1, <3>1, <3>2, <3>3 DEF CallStep, SkipLocked, TakeLock, ClientMissing
    <2>2. ASSUME NEW r \in RunIds, NEW point \in LivePoints, NEW next, NEW status,
                 Advance(r, point, next, status)
          PROVE  Overdue(s)
      <3>1. s = r
        BY <2>2 DEF Advance, TypeOK
      <3>2. Live(s) /\ row[s].status # StatusAt[frame[s].at]
        BY <2>2, <3>1 DEF Advance, Resumes, Live, LivePoints, StatusAt
      <3>3. QED
        BY <3>2 DEF LiveRowKeepsStatus
    <2>3. ASSUME NEW r \in RunIds, FrameStep(r) PROVE Overdue(s)
      BY <2>2, <2>3 DEF FrameStep, SetupFails, MarkProducing, MarkValidating, NothingNew,
                        ProduceFails, Verdict, Return, LivePoints
    <2>4. ASSUME SystemStep PROVE row'[s].status = "Failed"
      <3>1. CASE Tick
        BY <3>1 DEF Tick, TypeOK
      <3>2. QED
        BY <2>4, <3>1 DEF SystemStep, Boot, Kill, ForeignStart, ForeignExit
    <2>5. QED
      BY <1>1, <2>1, <2>3, <2>4 DEF Next, Begin
  <1>2. IInv /\ [Next]_vars => [Revives]_vars
    BY <1>1
  <1>3. QED
    BY <1>2, Invariance, PTL DEF Spec, NoEarlyResurrection
=============================================================================
