----------------------------- MODULE Scheduler -----------------------------
(***************************************************************************)
(* The auto-scheduler inside the worker daemon (src/core/autotasks.go):    *)
(* schedulerTick enqueues the scheduled tasks that are due                 *)
(* (runDueSchedules), an update of the model when one is ready, and a      *)
(* sync of plays; the loop of runDaemon ticks, claims and executes, and    *)
(* stays resident while there is something to wait for.                    *)
(*                                                                         *)
(* Time advances in hours; a tick takes none.  next_run_at_ms is kept as   *)
(* the distance from now, 0 when it has passed.  The daemon ticks every    *)
(* thirty seconds, so an hour passes only after a tick, or while the       *)
(* daemon is down, executes a job, or defers to an open page.  How rows    *)
(* are claimed among processes is the matter of JobQueue: here one daemon  *)
(* executes them, and all of them are automatic.                           *)
(***************************************************************************)
EXTENDS Integers, Sequences, FiniteSets

CONSTANTS
  Specs,       \* the scheduled tasks, in the order of scheduleSpecs
  Interval,    \* their intervals, in hours
  AutoTasks,   \* auto_tasks_enabled
  Day, Window, \* hours of a day and of coalescing (24 and 6 in the code)
  MaxChanges,  \* bound on changes of the settings
  MaxFaults,   \* bound on crashes and failing writes
  MaxRows,     \* bound on the rows while time passes
  Events       \* what happens besides: "feedback", "play", "page"

Scheduled == {Specs[i] : i \in 1..Len(Specs)}
Builds == {"update-model", "sync-build"}
NoHour == -1
NoRow == -1

ASSUME SchedulerAssumptions ==
  /\ Day \in Nat \ {0} /\ Window \in Nat
  /\ MaxChanges \in Nat /\ MaxFaults \in Nat /\ MaxRows \in Nat
  /\ Scheduled \subseteq {"backup", "sync-build", "expand-refresh"}
  /\ \A i, j \in 1..Len(Specs) :
       (Specs[i] = "backup" /\ Specs[j] = "sync-build") => i < j
  /\ Interval \in [Scheduled -> Nat \ {0}] /\ AutoTasks \in BOOLEAN
  /\ Events \subseteq {"feedback", "play", "page"}

VARIABLES
  hour,             \* the hour of the day
  enabled, atHour,  \* settings of the schedules
  next,             \* scheduled_task.next_run_at_ms, from now
  rows,             \* curator_job, oldest first: queued, running and dead rows
  model,            \* model_update_state, and what a build leaves of it
  unsynced, quiet,  \* playWatermark, and the debounce of sixty seconds
  imported,         \* every play that ended is in the source tables
  late,             \* history: the latest ended after sync-plays had read
  pageActive,
  pc, at,           \* the daemon: where, and the step of the tick
  ticked,           \* a tick succeeded in this hour, with these settings
  fresh, since,     \* history: tasks whose settings no tick has seen yet, and
                    \* for the others the hours since then or since they fired
  changes, faults   \* counters of the bounds

settings == <<enabled, atHour>>
playVars == <<unsynced, quiet, imported, late>>
daemonVars == <<pc, at, ticked>>
bounds == <<changes, faults>>
history == <<fresh, since>>
vars == <<hour, settings, next, rows, model, playVars, pageActive, daemonVars,
          history, bounds>>

Row == [type : Scheduled \union {"update-model", "sync-plays"},
        state : {"queued", "running", "dead"}, age : 0..Window]

Init ==
  /\ hour = 0
  /\ enabled = [t \in Scheduled |-> TRUE]
  /\ atHour \in [Scheduled -> {NoHour, 0}]
  /\ next = [t \in Scheduled |-> NoRow] /\ rows = <<>>
  /\ model = "clean" /\ unsynced = FALSE /\ quiet = TRUE /\ imported = TRUE
  /\ late = FALSE
  /\ pageActive = FALSE /\ pc = "pass" /\ at = 1 /\ ticked = FALSE
  /\ fresh = Scheduled /\ since = [t \in Scheduled |-> 0]
  /\ changes = 0 /\ faults = 0

-----------------------------------------------------------------------------
(* When a schedule runs next.                                              *)

\* The distance to the next instant at hour h; at that hour it is a day off.
NextOccurrenceOfHour(h) == 1 + ((h - hour - 1) % Day)

\* Under a day the runs repeat from the anchor hour, else the next
\* occurrence of the hour is put off by whole days.
NextAnchoredRun(h, interval) ==
  LET base == NextOccurrenceOfHour(h)
      slots == {base} \union
                 {s \in 1..base : ((s - base) + Day) % interval = 0}
  IN IF interval < Day
     THEN CHOOSE s \in slots : \A r \in slots : s <= r
     ELSE base + ((interval \div Day) - 1) * Day

\* Mutant: an anchored schedule advances by its interval as well.
NextRunInterval(t) == Interval[t]

NextRunFor(t) ==
  IF atHour[t] = NoHour THEN Interval[t]
  ELSE NextAnchoredRun(atHour[t], Interval[t])

-----------------------------------------------------------------------------
(* The tick: one step for each statement that writes.                      *)

EnqueueModel == Len(Specs) + 1
EnqueuePlays == Len(Specs) + 2

\* The next step of the tick, or its end.
GoOn ==
  IF at = EnqueuePlays
  THEN pc' = "claim" /\ at' = 1 /\ ticked' = TRUE
  ELSE pc' = "tick" /\ at' = at + 1 /\ UNCHANGED ticked

\* Mutant: any active row of the type does.
CoalescesForever(type) == \E i \in 1..Len(rows) : rows[i].type = type

\* enqueueAutoTask: a young active row of the type makes it a no-op.
Coalesces(type) ==
  \E i \in 1..Len(rows) : rows[i].type = type /\ rows[i].age < Window

EnqueueAutoTask(type) ==
  rows' = IF Coalesces(type) THEN rows
          ELSE Append(rows, [type |-> type, state |-> "queued", age |-> 0])

ModelRebuilding ==
  \E i \in 1..Len(rows) : /\ rows[i].type \in Builds /\ rows[i].age < Window
                          /\ rows[i].state # "queued"

StartTick ==
  /\ pc = "pass" /\ ~pageActive
  /\ pc' = "tick" /\ at' = 1
  /\ UNCHANGED <<hour, settings, next, rows, model, playVars, pageActive,
                 ticked, history, bounds>>

\* An open page defers the tick; the daemon may claim between two ticks.
SkipTick ==
  /\ pc = "pass" /\ (pageActive \/ ticked)
  /\ pc' = "claim"
  /\ UNCHANGED <<hour, settings, next, rows, model, playVars, pageActive, at,
                 ticked, history, bounds>>

\* Mutant: an overdue row as well.
RephasedAlways(t) == atHour[t] # NoHour

\* An anchored row is computed again by each tick, unless it is overdue.
Rephased(t) == atHour[t] # NoHour /\ next[t] > 0

\* One schedule: off, seeded without firing, moved to its hour, or fired.
RunDueSchedule ==
  /\ pc = "tick" /\ at \in 1..Len(Specs)
  /\ LET t == Specs[at] IN
     \/ /\ ~enabled[t] \/ (atHour[t] = NoHour /\ next[t] > 0)
        /\ GoOn
        /\ UNCHANGED <<next, rows, since>>
     \/ /\ enabled[t]
        /\ next[t] = NoRow \/ Rephased(t)
        /\ next' = [next EXCEPT ![t] = NextRunFor(t)]
        /\ GoOn
        /\ UNCHANGED <<rows, since>>
     \/ /\ enabled[t] /\ next[t] = 0
        /\ EnqueueAutoTask(t)
        /\ since' = [since EXCEPT ![t] = 0]
        /\ pc' = "advance"
        /\ UNCHANGED <<next, at, ticked>>
  /\ fresh' = fresh \ {Specs[at]}
  /\ UNCHANGED <<hour, settings, model, playVars, pageActive, bounds>>

\* The UPDATE that follows the enqueue.
AdvanceSchedule ==
  /\ pc = "advance"
  /\ next' = [next EXCEPT ![Specs[at]] = NextRunFor(Specs[at])]
  /\ GoOn
  /\ UNCHANGED <<hour, settings, rows, model, playVars, pageActive, history,
                 bounds>>

\* The two event-driven tasks.
RunAutoTasks ==
  /\ pc = "tick" /\ at > Len(Specs)
  /\ \/ /\ at = EnqueueModel
        /\ IF AutoTasks /\ model = "ready" /\ ~ModelRebuilding
           THEN EnqueueAutoTask("update-model") ELSE UNCHANGED rows
     \/ /\ at = EnqueuePlays
        /\ IF AutoTasks /\ unsynced /\ quiet
           THEN EnqueueAutoTask("sync-plays") ELSE UNCHANGED rows
  /\ GoOn
  /\ UNCHANGED <<hour, settings, next, model, playVars, pageActive, history,
                 bounds>>

\* Mutant: an error of one schedule leaves the others to the same tick.
TickFailsAlone ==
  /\ faults < MaxFaults /\ pc \in {"tick", "advance"}
  /\ faults' = faults + 1
  /\ GoOn
  /\ UNCHANGED <<hour, settings, next, rows, model, playVars, pageActive,
                 history, changes>>

\* A write fails: the tick returns its error and is tried again.
TickFails ==
  /\ faults < MaxFaults /\ pc \in {"tick", "advance"}
  /\ faults' = faults + 1
  /\ pc' = "claim" /\ at' = 1
  /\ UNCHANGED <<hour, settings, next, rows, model, playVars, pageActive,
                 ticked, history, changes>>

-----------------------------------------------------------------------------
(* The rest of the daemon's pass.                                          *)

Queued == {i \in 1..Len(rows) : rows[i].state = "queued"}
Running == {i \in 1..Len(rows) : rows[i].state = "running"}
Without(i) == SubSeq(rows, 1, i - 1) \o SubSeq(rows, i + 1, Len(rows))

\* Mutant: the latest row first.
ClaimableLast(i) == i \in Queued /\ \A j \in Queued : i >= j

\* ORDER BY queued_at_ms: rows of one tick share it and keep the order in
\* which they were inserted.
Claimable(i) == i \in Queued /\ \A j \in Queued : i <= j

ClaimQueuedJob ==
  /\ pc = "claim" /\ ~pageActive
  /\ \E i \in 1..Len(rows) :
       /\ Claimable(i)
       /\ rows' = [rows EXCEPT ![i].state = "running"]
       /\ model' = IF rows[i].type \in Builds /\ model # "clean"
                   THEN "building" ELSE model
  /\ pc' = "run"
  /\ UNCHANGED <<hour, settings, next, playVars, pageActive, at,
                 ticked, history, bounds>>

\* schedulerStayAlive.
StayAlive ==
  \/ \E t \in Scheduled : enabled[t]
  \/ AutoTasks /\ (model # "clean" \/ unsynced)

\* Nothing to claim: idle on, or exit.
IdlePass ==
  /\ pc = "claim" /\ (pageActive \/ Queued = {})
  /\ \/ pc' = "pass"
     \/ ~StayAlive /\ ~pageActive /\ pc' = "down"
  /\ UNCHANGED <<hour, settings, next, rows, model, playVars, pageActive, at,
                 ticked, history, bounds>>

\* sync-plays has read the plays of Stash.
FetchPlays ==
  /\ pc = "run"
  /\ \E i \in Running : rows[i].type = "sync-plays"
  /\ imported' = TRUE /\ late' = FALSE /\ pc' = "fetched"
  /\ UNCHANGED <<hour, settings, next, rows, model, unsynced, quiet,
                 pageActive, at, ticked, history, bounds>>

\* Feedback during the build stays pending, and so does all if it fails.
AfterBuild(complete) ==
  IF model = "building" THEN (IF complete THEN "clean" ELSE "ready")
  ELSE IF model = "again" THEN "ready" ELSE model

\* Mutant: a sync of plays that failed counts as well.
JobEndsAnyhow ==
  /\ pc \in {"run", "fetched"}
  /\ \E i \in Running, complete \in BOOLEAN :
       /\ complete => (pc = "fetched" <=> rows[i].type = "sync-plays")
       /\ ~complete => faults < MaxFaults
       /\ faults' = IF complete THEN faults ELSE faults + 1
       /\ rows' = Without(i)
       /\ model' = IF rows[i].type \in Builds THEN AfterBuild(complete)
                   ELSE model
       /\ unsynced' = (unsynced /\ rows[i].type # "sync-plays")
  /\ pc' = "pass"
  /\ UNCHANGED <<hour, settings, next, quiet, imported, late, pageActive, at,
                 ticked, history, changes>>

\* The body returns.  From then on the plays that ended before count as
\* synced, if it was sync-plays and is complete.
JobEnds ==
  /\ pc \in {"run", "fetched"}
  /\ \E i \in Running, complete \in BOOLEAN :
       /\ complete => (pc = "fetched" <=> rows[i].type = "sync-plays")
       /\ ~complete => faults < MaxFaults
       /\ faults' = IF complete THEN faults ELSE faults + 1
       /\ rows' = Without(i)
       /\ model' = IF rows[i].type \in Builds THEN AfterBuild(complete)
                   ELSE model
       /\ unsynced' = (unsynced /\ ~(complete /\ rows[i].type = "sync-plays"))
  /\ pc' = "pass"
  /\ UNCHANGED <<hour, settings, next, quiet, imported, late, pageActive, at,
                 ticked, history, changes>>

BetweenTicks == pc \notin {"tick", "advance"}

\* The process dies, or cancels itself with its job.
Crash ==
  /\ faults < MaxFaults /\ pc # "down"
  /\ faults' = faults + 1
  /\ pc' = "down" /\ at' = 1
  /\ rows' = [i \in 1..Len(rows) |->
                IF i \in Running THEN [rows[i] EXCEPT !.state = "dead"]
                ELSE rows[i]]
  /\ model' = AfterBuild(FALSE)
  /\ UNCHANGED <<hour, settings, next, playVars, pageActive, ticked, history,
                 changes>>

\* An operation or a request starts a daemon; its first tick comes after
\* thirty seconds.
DaemonStart ==
  /\ pc = "down"
  /\ pc' = "claim"
  /\ UNCHANGED <<hour, settings, next, rows, model, playVars, pageActive, at,
                 ticked, history, bounds>>

\* A start, a request or health fails a row whose heartbeat is old.
RecoverOrphanJobs ==
  /\ BetweenTicks
  /\ \E i \in 1..Len(rows) : rows[i].state = "dead" /\ rows' = Without(i)
  /\ UNCHANGED <<hour, settings, next, model, playVars, pageActive,
                 daemonVars, history, bounds>>

-----------------------------------------------------------------------------
(* The rest of the world.  What happens during a tick, which reads each    *)
(* thing once, might as well have happened before or after it.             *)

ChangeSettings(t) ==
  /\ BetweenTicks /\ changes < MaxChanges
  /\ changes' = changes + 1
  /\ \/ enabled' = [enabled EXCEPT ![t] = ~@] /\ UNCHANGED atHour
     \/ \E h \in {NoHour, 0, 1} :
          atHour' = [atHour EXCEPT ![t] = h] /\ UNCHANGED enabled
  /\ fresh' = fresh \union {t}
  /\ since' = [since EXCEPT ![t] = 0] /\ ticked' = FALSE
  /\ UNCHANGED <<hour, next, rows, model, playVars, pageActive, pc, at,
                 faults>>

\* Feedback makes the model pending; enough of it, or enough time, ready.
Feedback ==
  /\ BetweenTicks /\ "feedback" \in Events
  /\ model' = CASE model = "clean" -> "pending"
                []  model = "building" -> "again"
                []  OTHER -> IF model = "again" THEN model ELSE "ready"
  /\ UNCHANGED <<hour, settings, next, rows, playVars, pageActive, daemonVars,
                 history, bounds>>

PlayEnds ==
  /\ BetweenTicks /\ "play" \in Events
  /\ unsynced' = TRUE /\ quiet' = FALSE /\ imported' = FALSE
  /\ late' = (pc = "fetched")
  /\ UNCHANGED <<hour, settings, next, rows, model, pageActive, daemonVars,
                 history, bounds>>

PageChanges ==
  /\ BetweenTicks /\ "page" \in Events
  /\ pageActive' = ~pageActive
  /\ UNCHANGED <<hour, settings, next, rows, model, playVars, daemonVars,
                 history, bounds>>

Less(n) == IF n > 0 THEN n - 1 ELSE n
HourPasses ==
  /\ Len(rows) <= MaxRows
  /\ pc \in {"down", "run", "fetched"}
     \/ (pc = "pass" /\ (ticked \/ pageActive))
  /\ hour' = (hour + 1) % Day
  /\ next' = [t \in Scheduled |-> Less(next[t])]
  /\ rows' = [i \in 1..Len(rows) |->
                [rows[i] EXCEPT !.age = IF @ < Window THEN @ + 1 ELSE @]]
  /\ model' = IF model = "pending" THEN "ready" ELSE model
  /\ quiet' = TRUE /\ ticked' = FALSE
  /\ since' = [t \in Scheduled |->
                 IF t \notin fresh /\ since[t] < Interval[t]
                 THEN since[t] + 1 ELSE since[t]]
  /\ UNCHANGED <<fresh, settings, unsynced, imported, late, pageActive, pc,
                 at, bounds>>

DaemonNext ==
  \/ StartTick \/ SkipTick \/ RunDueSchedule \/ AdvanceSchedule
  \/ RunAutoTasks \/ ClaimQueuedJob \/ IdlePass \/ FetchPlays \/ JobEnds

Next ==
  \/ DaemonNext \/ TickFails \/ Crash \/ DaemonStart \/ RecoverOrphanJobs
  \/ \E t \in Scheduled : ChangeSettings(t)
  \/ Feedback \/ PlayEnds \/ PageChanges \/ HourPasses

\* The daemon's loop goes on, its jobs return, and time passes: strongly, since
\* no number of passes of the loop takes no time.
Fairness == WF_vars(DaemonNext) /\ SF_vars(HourPasses)

Spec == Init /\ [][Next]_vars /\ Fairness

-----------------------------------------------------------------------------
(* Properties.                                                             *)

\* A schedule keeps its interval: when a tick has been made, no enabled task
\* was fired (or last changed) an interval ago or more, whatever was late,
\* crashed or deferred before ("late runs catch up").
RunsEveryInterval ==
  ticked => \A t \in Scheduled : enabled[t] => since[t] < Interval[t]

\* An anchored schedule that is not overdue is due at its hour, or whole
\* intervals after it ("keep their wall-clock phase"), also after a late run.
KeepsItsHour ==
  ticked => \A t \in Scheduled :
    (enabled[t] /\ atHour[t] # NoHour /\ next[t] > 0) =>
      LET phase == ((hour + next[t]) - atHour[t]) % Day IN
        phase % (IF Interval[t] < Day THEN Interval[t] ELSE Day) = 0

\* Schedules keep their time: they fire each interval, at their hour.
SchedulesKeepTime == RunsEveryInterval /\ KeepsItsHour

\* The schedules whose hour has come.
Due == {t \in Scheduled : enabled[t] /\ next[t] = 0}

\* "backup runs first when both are due so a rebuild never touches an
\* unprotected sidecar": a sync-build is not enqueued while the backup is
\* due, nor claimed while a backup enqueued before it is waiting.
BackupFirst ==
  [][/\ (Len(rows') > Len(rows) /\ rows'[Len(rows')].type = "sync-build") =>
          "backup" \notin Due
     /\ \A i, j \in Queued :
          (rows[i].type = "sync-build" /\ rows[j].type = "backup" /\ j < i) =>
            i \notin Running']_vars

\* Plays "are imported automatically" (docs/using-curator.md): when the
\* watermark says that the plays are synced, they have been imported, unless
\* the latest ended after sync-plays had read and before it was complete.
SyncedPlaysAreImported == ~unsynced => imported \/ late

\* "so the max-wait backstop can fire" and "new plays are synced without any
\* tab open" (autotasks.go): in a daemon that stays up no pending model waits
\* for ever, and no play once people stop playing.
WaitingEnds ==
  <>[](pc # "down" /\ ~pageActive) =>
    /\ []<>(model \notin {"pending", "ready"})
    /\ <>[]quiet => []<>(~unsynced)
=============================================================================
