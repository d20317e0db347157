----------------------------- MODULE Scheduling -----------------------------
(***************************************************************************)
(* When scheduled backups start: the arkode-scheduler service runs one     *)
(* tick after the other, and a tick checks every scheduled task against    *)
(* ONE instant, the one at which it began, although the runs it starts,    *)
(* and the file backups, maintenance and replication that follow them,     *)
(* may take hours.  Meanwhile the clock goes on, somebody starts a run by  *)
(* hand, the PC is switched off, the tick's process dies.                  *)
(*                                                                         *)
(* Time is a number; SlotsPerDay of them make a day.  A task is due on its *)
(* days from its slot on.  The service's 60 seconds are short against a    *)
(* slot, so the clock does not move on before an idle service has ticked;  *)
(* a tick is long only while it runs a task or its later phases.           *)
(***************************************************************************)
EXTENDS Integers

CONSTANTS
    Tasks,          \* active tasks with an enabled schedule
    Matches,        \* Matches[t]: the days that fit t's frequency
    SlotOf,         \* SlotOf[t]: its schedule_time
    SlotsPerDay,
    Horizon,        \* bound on the clock
    None

ASSUME TimesAssumption ==
    /\ SlotsPerDay \in Nat \ {0} /\ Horizon \in Nat
    /\ Matches \in [Tasks -> SUBSET Nat]
    /\ SlotOf \in [Tasks -> 0 .. SlotsPerDay - 1]
    /\ None \notin Tasks

Times == 0 .. Horizon
Day(time) == time \div SlotsPerDay
Slot(time) == time % SlotsPerDay
Never == -1

VARIABLES
    clock,
    up,         \* the PC is on
    tick,       \* the service's tick: where it is, its fixed now, what is left
    checked,    \* a whole tick has been made at this time
    latest,     \* latest[trigger][t]: started_at of t's newest run with it
    locked,     \* tasks whose lock is held by somebody else than the tick
    heartbeat,  \* SCHEDULER_HEARTBEAT_KEY
    blocked     \* history: today's times at which a task could not be started

schedulingVars == <<clock, up, tick, checked, latest, locked, heartbeat, blocked>>

Asleep == [at |-> "sleep", now |-> 0, todo |-> {}, task |-> None]

SchedulingTypeOK ==
    /\ clock \in Times /\ up \in BOOLEAN
    /\ tick \in [at : {"sleep", "tasks", "running", "rest"}, now : Times,
                 todo : SUBSET Tasks, task : Tasks \cup {None}]
    /\ checked \in BOOLEAN /\ heartbeat \in Times \cup {-1}
    /\ latest \in [{"scheduled", "manual"} -> [Tasks -> Times \cup {Never}]]
    /\ locked \subseteq Tasks
    /\ blocked \in [Tasks -> SUBSET Times]

SchedulingInit ==
    /\ clock = 0 /\ up = TRUE /\ tick = Asleep /\ checked = FALSE
    /\ latest = [trigger \in {"scheduled", "manual"} |-> [t \in Tasks |-> Never]]
    /\ locked = {} /\ heartbeat = -1
    /\ blocked = [t \in Tasks |-> {}]

\* History: the tasks of S cannot be started at this time.
Blocked(S) == [t \in Tasks |-> IF t \in S THEN blocked[t] \cup {clock} ELSE blocked[t]]

-----------------------------------------------------------------------------
(* Due or not.                                                             *)

\* The newest scheduled run was started that day.
AttemptOn(t, day) == Day(latest["scheduled"][t]) = day

\* Deviation: only an attempt after the day's slot counts.
DueUnlessRunAfterSlot(t, now) ==
    /\ ~(AttemptOn(t, Day(now)) /\ Slot(latest["scheduled"][t]) >= SlotOf[t])
    /\ Day(now) \in Matches[t]
    /\ Slot(now) >= SlotOf[t]

\* Deviation: a run of any trigger counts as the day's attempt.
DueUnlessAnyRun(t, now) ==
    /\ ~AttemptOn(t, Day(now)) /\ Day(latest["manual"][t]) # Day(now)
    /\ Day(now) \in Matches[t]
    /\ Slot(now) >= SlotOf[t]

\* isTaskDue
TaskDue(t, now) ==
    /\ ~AttemptOn(t, Day(now))
    /\ Day(now) \in Matches[t]
    /\ Slot(now) >= SlotOf[t]

-----------------------------------------------------------------------------
(* The tick.                                                               *)

TickBegins ==
    /\ up /\ tick.at = "sleep"
    /\ tick' = [at |-> "tasks", now |-> clock, todo |-> Tasks, task |-> None]
    /\ UNCHANGED <<clock, up, checked, latest, locked, heartbeat, blocked>>

Turn(t) == tick.at = "tasks" /\ t \in tick.todo

NotDue(t) ==
    /\ Turn(t) /\ ~TaskDue(t, tick.now)
    /\ tick' = [tick EXCEPT !.todo = @ \ {t}]
    /\ UNCHANGED <<clock, up, checked, latest, locked, heartbeat, blocked>>

\* started_at is the time of the INSERT, not the tick's now.
StartRun(t) ==
    /\ Turn(t) /\ TaskDue(t, tick.now) /\ t \notin locked
    /\ latest' = [latest EXCEPT !["scheduled"][t] = clock]
    /\ tick' = [tick EXCEPT !.at = "running", !.task = t, !.todo = @ \ {t}]
    /\ UNCHANGED <<clock, up, checked, locked, heartbeat, blocked>>

\* runBackupTask finds the lock taken and leaves no row.
SkipLocked(t) ==
    /\ Turn(t) /\ TaskDue(t, tick.now) /\ t \in locked
    /\ tick' = [tick EXCEPT !.todo = @ \ {t}]
    /\ blocked' = Blocked({t})
    /\ UNCHANGED <<clock, up, checked, latest, locked, heartbeat>>

\* runBackupTask throws before it has written a row: runDueTasks goes on.
Throws(t) ==
    /\ Turn(t) /\ TaskDue(t, tick.now) /\ t \notin locked
    /\ tick' = [tick EXCEPT !.todo = @ \ {t}]
    /\ blocked' = Blocked({t})
    /\ UNCHANGED <<clock, up, checked, latest, locked, heartbeat>>

\* The run is over, in whatever way.
RunEnds ==
    /\ tick.at = "running"
    /\ tick' = [tick EXCEPT !.at = "tasks", !.task = None]
    /\ UNCHANGED <<clock, up, checked, latest, locked, heartbeat, blocked>>

\* A query of the first phase throws: phase isolation, the next ones follow.
PhaseFails ==
    /\ tick.at = "tasks" /\ tick.todo # {}
    /\ tick' = [tick EXCEPT !.at = "rest", !.todo = {}]
    /\ blocked' = Blocked(tick.todo)
    /\ UNCHANGED <<clock, up, checked, latest, locked, heartbeat>>

TasksDone ==
    /\ tick.at = "tasks" /\ tick.todo = {}
    /\ tick' = [tick EXCEPT !.at = "rest"]
    /\ UNCHANGED <<clock, up, checked, latest, locked, heartbeat, blocked>>

\* File backups, maintenance and replication are over: the heartbeat is the
\* tick's now.
TickCompletes ==
    /\ tick.at = "rest"
    /\ heartbeat' = tick.now
    /\ checked' = (tick.now = clock)
    /\ tick' = Asleep
    /\ UNCHANGED <<clock, up, latest, locked, blocked>>

-----------------------------------------------------------------------------
(* The surroundings.                                                       *)

ManualStart(t) ==
    /\ up /\ t \notin locked /\ tick.task # t
    /\ latest' = [latest EXCEPT !["manual"][t] = clock]
    /\ locked' = locked \cup {t}
    /\ UNCHANGED <<clock, up, tick, checked, heartbeat, blocked>>

\* The manual run is over, or the row of a dead process is recovered.
Unlock(t) ==
    /\ t \in locked
    /\ locked' = locked \ {t}
    /\ UNCHANGED <<clock, up, tick, checked, latest, heartbeat, blocked>>

\* The tick's process dies; its run may keep the lock while its pid looks alive.
TickDies ==
    /\ tick.at # "sleep"
    /\ tick' = Asleep /\ checked' = FALSE
    /\ locked' \in {locked, locked \cup ({tick.task} \ {None})}
    /\ UNCHANGED <<clock, up, latest, heartbeat, blocked>>

\* Deviation: an idle tick leaves a lock, too.
PowerOffLocks ==
    /\ up
    /\ up' = FALSE /\ tick' = Asleep /\ checked' = FALSE
    /\ locked' = locked \cup {tick.task}
    /\ UNCHANGED <<clock, latest, heartbeat, blocked>>

PowerOff ==
    /\ up
    /\ up' = FALSE /\ tick' = Asleep /\ checked' = FALSE
    /\ locked' \in {locked, locked \cup ({tick.task} \ {None})}
    /\ UNCHANGED <<clock, latest, heartbeat, blocked>>

PowerOn ==
    /\ ~up
    /\ up' = TRUE
    /\ UNCHANGED <<clock, tick, checked, latest, locked, heartbeat, blocked>>

\* The tasks that no tick of this time has looked at.
Unseen == IF ~up THEN Tasks
          ELSE IF tick.at = "sleep" \/ tick.now = clock THEN tick.todo
          ELSE Tasks

Advance ==
    /\ clock < Horizon
    /\ up => \/ tick.at \in {"running", "rest"}
             \/ tick.at = "sleep" /\ checked
    /\ clock' = clock + 1
    /\ checked' = FALSE
    /\ blocked' = IF Day(clock + 1) = Day(clock) THEN Blocked(Unseen)
                  ELSE [t \in Tasks |-> {}]
    /\ UNCHANGED <<up, tick, latest, locked, heartbeat>>

-----------------------------------------------------------------------------
SchedulingNext ==
    \/ TickBegins \/ RunEnds \/ PhaseFails \/ TasksDone \/ TickCompletes
    \/ \E t \in Tasks : \/ NotDue(t) \/ StartRun(t) \/ SkipLocked(t) \/ Throws(t)
                        \/ ManualStart(t) \/ Unlock(t)
    \/ TickDies \/ PowerOff \/ PowerOn \/ Advance

SchedulingSpec == SchedulingInit /\ [][SchedulingNext]_schedulingVars

-----------------------------------------------------------------------------
(* Properties.                                                             *)

Starting(t) == tick.task # t /\ tick'.task = t

\* A task gets at most one scheduled run per local day, however long ticks are,
\* however often the service is restarted in the middle of one.
OncePerDay ==
    [][\A t \in Tasks : Starting(t) => Day(latest["scheduled"][t]) # Day(clock)]_schedulingVars

\* The times of the day at which t may be started.
Window(t, day) == {x \in Times : Day(x) = day /\ Slot(x) >= SlotOf[t]}

\* No run is missed silently: a matching day passes without a scheduled run only
\* if the task could not be started at any time of its window, because the PC was
\* off, the service was busy, the lock was held or its setup failed.
NoSilentMiss ==
    [][Day(clock') # Day(clock) =>
         \A t \in Tasks : Day(clock) \in Matches[t] =>
            \/ AttemptOn(t, Day(clock))
            \/ Window(t, Day(clock)) \subseteq Blocked(Unseen)[t]]_schedulingVars

\* A scheduled run starts on a day of its task and not before its slot.
RunsWhenDue ==
    \A t \in Tasks : latest["scheduled"][t] # Never =>
        /\ Day(latest["scheduled"][t]) \in Matches[t]
        /\ Slot(latest["scheduled"][t]) >= SlotOf[t]

\* The heartbeat is the time at which the last tick was completed.
HeartbeatMarksCompletion ==
    [][tick.at = "rest" /\ heartbeat' # heartbeat => heartbeat' = clock]_schedulingVars

=============================================================================
