------------------------------ MODULE JobQueue ------------------------------
(***************************************************************************)
(* The background task queue (src/core/tasks.go, src/core/daemon.go): the  *)
(* rows of curator_job, the requests that insert, release and cancel them, *)
(* and the detached worker daemons that claim and execute them.            *)
(*                                                                         *)
(* Every statement on the sidecar is one BEGIN IMMEDIATE transaction, so   *)
(* one action here is one transaction (or one step of a process between    *)
(* two of them).  Requests and daemons are separate operating system       *)
(* processes: they interleave freely, and any of them can die between two  *)
(* actions.  How many daemons there are is not assumed: without /proc, or  *)
(* when two of them start at a time, the pid file does not keep them to    *)
(* one.  Its contents belong to WorkerLifecycle.                           *)
(*                                                                         *)
(* Timestamps are kept as ages, which saturate at the window the code      *)
(* compares them with: age[j] is now - started_at_ms and beat[j] is        *)
(* now - heartbeat_at_ms.  Two queued rows both older than the coalescing  *)
(* window may be claimed in either order.  Nothing reads the times of a    *)
(* row that has an outcome, so the model lets them lapse.                  *)
(***************************************************************************)
EXTENDS Integers, FiniteSets

CONSTANTS
  Job,               \* identifiers of curator_job rows
  TaskType,          \* job_type values
  AutoType,          \* the types the auto-scheduler enqueues
  Pid,               \* worker processes (a pid is used again after an exit)
  Client,            \* Stash-spawned request processes
  Stale,             \* heartbeatStaleMs, in clock ticks
  Window,            \* the six-hour window, in clock ticks
  IdleLimit,         \* idleExitMs, in clock ticks
  AutoEnabled,       \* auto_tasks_enabled or some schedule is enabled
  TimelyHeartbeats,  \* no live daemon's heartbeat is ever Stale old
  ProcListing,       \* /proc lists the live daemons, as it does on Linux
  Faults             \* which of the disturbances below can happen

NoJob == "no_job"
NoPid == "no_pid"
NoBeat == -1

AllFaults == {"crash", "sigterm", "cancel", "idle_exit", "request_dies",
              "spawn_fails", "open_fails", "schema_skew", "write_fails"}

ASSUME JobQueueAssumptions ==
  /\ NoJob \notin Job /\ NoPid \notin Pid
  /\ AutoType \subseteq TaskType
  /\ Stale \in Nat \ {0} /\ Window \in Nat /\ Stale <= Window
  /\ IdleLimit \in Nat
  /\ AutoEnabled \in BOOLEAN /\ TimelyHeartbeats \in BOOLEAN
  /\ ProcListing \in BOOLEAN
  /\ Faults \subseteq AllFaults

VARIABLES
  state, kind, auto, age, beat, owner, cancelReq,   \* columns of curator_job
  asked,      \* history: an explicit request returned this queued job
  pc, job,    \* where each daemon is, and the job it has claimed
  idle,       \* now - idleSince of each daemon, up to IdleLimit
  term,       \* its SIGTERM handler has run and os.Exit is next
  step, mine, \* where each request is, and the job it inserted
  pageActive  \* the curator-page-active marker is fresh

rowVars == <<state, kind, auto, age, beat, owner, cancelReq, asked>>
workerVars == <<pc, job, idle, term>>
clientVars == <<step, mine>>
vars == <<rowVars, workerVars, clientVars, pageActive>>

Terminal == {"complete", "failed", "cancelled"}
Live == {"queued", "running"}

(***************************************************************************)
(* A sidecar migrated from before the worker existed may hold one running  *)
(* row without owner and heartbeat (migration 0031 copies it).             *)
(***************************************************************************)
Init ==
  /\ \E t \in TaskType : kind = [j \in Job |-> t]
  /\ \E legacy \in SUBSET Job :
       /\ \A i, j \in legacy : i = j
       /\ state = [j \in Job |-> IF j \in legacy THEN "running" ELSE "absent"]
  /\ auto = [j \in Job |-> FALSE]
  /\ age = [j \in Job |-> 0]
  /\ beat = [j \in Job |-> NoBeat]
  /\ owner = [j \in Job |-> NoPid]
  /\ cancelReq = [j \in Job |-> FALSE]
  /\ asked = [j \in Job |-> FALSE]
  /\ pc = [d \in Pid |-> "off"]
  /\ job = [d \in Pid |-> NoJob]
  /\ idle = [d \in Pid |-> 0]
  /\ term = [d \in Pid |-> FALSE]
  /\ step = [c \in Client |-> "idle"]
  /\ mine = [c \in Client |-> NoJob]
  /\ pageActive = FALSE

-----------------------------------------------------------------------------
(* Statements on curator_job.                                              *)

\* Mutants: a row one tick short of stale; rows of before the worker ignored.
OrphanedEarly(j) == /\ state[j] = "running"
                    /\ IF beat[j] = NoBeat THEN age[j] >= Window
                       ELSE beat[j] >= Stale - 1
OrphanedBeating(j) == state[j] = "running" /\ beat[j] >= Stale

Orphaned(j) ==
  /\ state[j] = "running"
  /\ IF beat[j] = NoBeat THEN age[j] >= Window ELSE beat[j] >= Stale

\* Mutant: an interrupted job goes back to the queue.
RequeueOrphans ==
  /\ state' = [j \in Job |-> IF Orphaned(j) THEN "queued" ELSE state[j]]
  /\ UNCHANGED <<kind, auto, age, beat, owner, cancelReq, asked>>

\* The model_update_state half of this function belongs to ModelUpdates.
RecoverOrphanJobs ==
  /\ state' = [j \in Job |-> IF Orphaned(j) THEN "failed" ELSE state[j]]
  /\ UNCHANGED <<kind, auto, age, beat, owner, cancelReq, asked>>

\* Mutant: requests coalesce with waiting jobs only.
QueuedOnly(t) == {j \in Job : state[j] = "queued" /\ kind[j] = t}

Active(t) == {j \in Job : state[j] \in Live /\ kind[j] = t /\ age[j] < Window}

InsertJob(j, t, automatic) ==
  /\ state[j] = "absent"
  /\ state' = [state EXCEPT ![j] = "queued"]
  /\ kind' = [kind EXCEPT ![j] = t]
  /\ auto' = [auto EXCEPT ![j] = automatic]
  /\ age' = [age EXCEPT ![j] = 0]
  /\ asked' = [asked EXCEPT ![j] = ~automatic]
  /\ UNCHANGED <<beat, owner, cancelReq>>

\* Mutant: the update lacks "AND state='running'".
SetOutcomeBlindly(j, o) ==
  /\ state' = [state EXCEPT ![j] = o]
  /\ UNCHANGED <<kind, auto, age, beat, owner, cancelReq, asked>>

\* UPDATE ... SET state=? WHERE job_id=? AND state='running'
SetOutcome(j, o) ==
  /\ state' = [state EXCEPT ![j] = IF @ = "running" THEN o ELSE @]
  /\ UNCHANGED <<kind, auto, age, beat, owner, cancelReq, asked>>

-----------------------------------------------------------------------------
(* Requests.                                                               *)

Alive(d) == pc[d] # "off"

RequestTask(c) ==
  /\ step[c] = "idle"
  /\ RecoverOrphanJobs
  /\ step' = [step EXCEPT ![c] = "enqueue"]
  /\ UNCHANGED <<mine, workerVars, pageActive>>

(***************************************************************************)
(* The enqueue transaction of runTaskBody: a live job of the same type     *)
(* younger than the window answers the request, otherwise a row is         *)
(* inserted and the request goes on to ensure a worker.                    *)
(***************************************************************************)
RunTaskBody(c, t, automatic) ==
  /\ step[c] = "enqueue"
  /\ \/ /\ Active(t) = {}
        /\ \E j \in Job : InsertJob(j, t, automatic)
                          /\ mine' = [mine EXCEPT ![c] = j]
        /\ step' = [step EXCEPT ![c] = "ensure"]
     \/ \E j \in Active(t) :
        /\ \A i \in Active(t) : age[j] <= age[i]
        /\ auto' = [auto EXCEPT ![j] =
                      @ /\ (automatic \/ state[j] # "queued")]
        /\ asked' = [asked EXCEPT ![j] = @ \/ (~automatic /\ state[j] = "queued")]
        /\ step' = [step EXCEPT ![c] = "idle"]
        /\ UNCHANGED <<state, kind, age, beat, owner, cancelReq, mine>>
  /\ UNCHANGED <<workerVars, pageActive>>

\* A request that finds every row in use ends (the bound of the model).
OutOfRows(c, t) ==
  /\ step[c] = "enqueue"
  /\ Active(t) = {} /\ \A j \in Job : state[j] # "absent"
  /\ step' = [step EXCEPT ![c] = "idle"]
  /\ UNCHANGED <<rowVars, workerVars, mine, pageActive>>

(***************************************************************************)
(* With /proc a daemon is found whatever the pid file says.  Without it, a *)
(* starting daemon is not found on Windows, nor one whose pid was replaced *)
(* in the file, and no daemon at all on macOS, where no process is         *)
(* recognised as a worker: a request may then find none of those alive.    *)
(***************************************************************************)
NoneFound == ProcListing => \A d \in Pid : ~Alive(d)

\* ensureWorker: reuse or adopt a live daemon, else recover and look for work.
EnsureWorker(c) ==
  /\ step[c] = "ensure"
  /\ \/ /\ \E d \in Pid : Alive(d)
        /\ step' = [step EXCEPT ![c] = "idle"]
        /\ mine' = [mine EXCEPT ![c] = NoJob]
        /\ UNCHANGED rowVars
     \/ /\ NoneFound
        /\ RecoverOrphanJobs
        /\ IF \E j \in Job : state[j] = "queued"
           THEN step' = [step EXCEPT ![c] = "spawn"] /\ UNCHANGED mine
           ELSE /\ step' = [step EXCEPT ![c] = "idle"]
                /\ mine' = [mine EXCEPT ![c] = NoJob]
  /\ UNCHANGED <<workerVars, pageActive>>

\* The spawn step of ensureWorker ("spawn") or ensureAutoWorker ("autospawn").
SpawnWorker(c) ==
  /\ step[c] \in {"spawn", "autospawn"}
  /\ \E d \in Pid : /\ ~Alive(d)
                    /\ pc' = [pc EXCEPT ![d] = "starting"]
  /\ step' = [step EXCEPT ![c] = IF @ = "spawn" THEN "idle" ELSE "recover"]
  /\ mine' = [mine EXCEPT ![c] = NoJob]
  /\ UNCHANGED <<rowVars, job, idle, term, pageActive>>

\* Any failure of ensureWorker fails the caller's own row, if still queued.
FailClosed(c) ==
  /\ "spawn_fails" \in Faults
  /\ step[c] \in {"ensure", "spawn"}
  /\ state' = [state EXCEPT ![mine[c]] = IF @ = "queued" THEN "failed" ELSE @]
  /\ step' = [step EXCEPT ![c] = "idle"]
  /\ mine' = [mine EXCEPT ![c] = NoJob]
  /\ UNCHANGED <<kind, auto, age, beat, owner, cancelReq, asked, workerVars,
                 pageActive>>

(***************************************************************************)
(* health (and every other API call) first runs ensureAutoWorker, which    *)
(* does nothing unless an automatic task or schedule is enabled; health    *)
(* then recovers orphans in any case.                                      *)
(***************************************************************************)
OpHealth(c) ==
  /\ step[c] = "idle"
  /\ RecoverOrphanJobs
  /\ \/ /\ AutoEnabled /\ NoneFound
        /\ step' = [step EXCEPT ![c] = "autospawn"]
     \/ /\ AutoEnabled => \E d \in Pid : Alive(d)
        /\ UNCHANGED step
  /\ UNCHANGED <<mine, workerVars, pageActive>>

HealthRecover(c) ==
  /\ step[c] = "recover"
  /\ RecoverOrphanJobs
  /\ step' = [step EXCEPT ![c] = "idle"]
  /\ UNCHANGED <<mine, workerVars, pageActive>>

OpCancelJob(c, j) ==
  /\ "cancel" \in Faults
  /\ step[c] = "idle"
  /\ \/ /\ state[j] = "queued"
        /\ state' = [state EXCEPT ![j] = "cancelled"]
        /\ UNCHANGED cancelReq
     \/ /\ state[j] = "running"
        /\ cancelReq' = [cancelReq EXCEPT ![j] = TRUE]
        /\ UNCHANGED state
  /\ UNCHANGED <<kind, auto, age, beat, owner, asked, workerVars, clientVars,
                 pageActive>>

\* Stash kills the request process, between any two of its statements.
RequestDies(c) ==
  /\ "request_dies" \in Faults
  /\ step[c] # "idle"
  /\ step' = [step EXCEPT ![c] = "idle"]
  /\ mine' = [mine EXCEPT ![c] = NoJob]
  /\ UNCHANGED <<rowVars, workerVars, pageActive>>

-----------------------------------------------------------------------------
(* Daemons.                                                                *)

DaemonStart(d) ==
  /\ pc[d] = "starting"
  /\ RecoverOrphanJobs
  /\ pc' = [pc EXCEPT ![d] = "loop"]
  /\ UNCHANGED <<job, idle, term, clientVars, pageActive>>

\* The pid file already names another live worker, or the start fails.
DaemonYields(d) ==
  /\ pc[d] = "starting"
  /\ \/ \E e \in Pid \ {d} : pc[e] \notin {"off", "starting"}
     \/ "open_fails" \in Faults
  /\ pc' = [pc EXCEPT ![d] = "off"]
  /\ UNCHANGED <<rowVars, job, idle, term, clientVars, pageActive>>

\* enqueueAutoTask; what makes a type due belongs to Scheduler.
EnqueueAutoTask(d, t) ==
  /\ AutoEnabled /\ ~pageActive
  /\ pc[d] = "loop"
  /\ Active(t) = {}
  /\ \E j \in Job : InsertJob(j, t, TRUE)
  /\ UNCHANGED <<workerVars, clientVars, pageActive>>

\* Mutant: an open page keeps every job waiting.
ClaimableWhenClosed(j) == state[j] = "queued" /\ ~pageActive

Claimable(j) == state[j] = "queued" /\ ~(pageActive /\ auto[j])

ClaimQueuedJob(d) ==
  /\ pc[d] = "loop"
  /\ \E j \in Job :
       /\ Claimable(j) /\ \A i \in Job : Claimable(i) => age[i] <= age[j]
       /\ state' = [state EXCEPT ![j] = "running"]
       /\ owner' = [owner EXCEPT ![j] = d]
       /\ beat' = [beat EXCEPT ![j] = 0]
       /\ cancelReq' = [cancelReq EXCEPT ![j] = FALSE]
       /\ asked' = [asked EXCEPT ![j] = FALSE]
       /\ job' = [job EXCEPT ![d] = j]
  /\ pc' = [pc EXCEPT ![d] = "open"]
  /\ idle' = [idle EXCEPT ![d] = 0]
  /\ UNCHANGED <<kind, auto, age, term, clientVars, pageActive>>

\* An open page restarts the idle period, so this pass cannot end in an exit.
NothingToClaim(d) ==
  /\ pc[d] = "loop"
  /\ \A j \in Job : ~Claimable(j)
  /\ IF pageActive THEN idle' = [idle EXCEPT ![d] = 0] /\ UNCHANGED pc
     ELSE pc' = [pc EXCEPT ![d] = "idle"] /\ UNCHANGED idle
  /\ UNCHANGED <<rowVars, job, term, clientVars, pageActive>>

\* The end of a pass that found nothing: sleep and go round, or exit after an
\* idle period (unless the scheduler has work pending, see Scheduler).
IdlePass(d) ==
  /\ pc[d] = "idle"
  /\ pc' = [pc EXCEPT ![d] = "loop"]
  /\ UNCHANGED <<rowVars, job, idle, term, clientVars, pageActive>>

Exit(d) == /\ pc' = [pc EXCEPT ![d] = "off"]
           /\ job' = [job EXCEPT ![d] = NoJob]
           /\ idle' = [idle EXCEPT ![d] = 0]
           /\ term' = [term EXCEPT ![d] = FALSE]

IdleExit(d) ==
  /\ "idle_exit" \in Faults
  /\ pc[d] = "idle" /\ idle[d] = IdleLimit
  /\ Exit(d)
  /\ UNCHANGED <<rowVars, clientVars, pageActive>>

\* A daemon between jobs retires: the sidecar's schema is newer than its
\* binary, the scheduler fails again and again, or the plugin was updated.
Retire(d) ==
  /\ "schema_skew" \in Faults
  /\ pc[d] \in {"loop", "idle"}
  /\ Exit(d)
  /\ UNCHANGED <<rowVars, clientVars, pageActive>>

OpenTaskSidecar(d) ==
  /\ pc[d] = "open"
  /\ pc' = [pc EXCEPT ![d] = "body"]
  /\ UNCHANGED <<rowVars, job, idle, term, clientVars, pageActive>>

\* A claimed job whose sidecar does not open fails; on a schema skew the
\* daemon also retires.
OpenFails(d) ==
  /\ pc[d] = "open"
  /\ SetOutcome(job[d], "failed")
  /\ \/ /\ "open_fails" \in Faults
        /\ pc' = [pc EXCEPT ![d] = "loop"]
        /\ job' = [job EXCEPT ![d] = NoJob]
        /\ UNCHANGED <<idle, term>>
     \/ "schema_skew" \in Faults /\ Exit(d)
  /\ UNCHANGED <<clientVars, pageActive>>

\* One tick of heartbeatLoop is Heartbeat and, if a cancel was requested,
\* HonourCancel, after which the process exits.
Heartbeat(d) ==
  /\ pc[d] = "body" /\ state[job[d]] = "running"
  /\ beat' = [beat EXCEPT ![job[d]] = 0]
  /\ UNCHANGED <<state, kind, auto, age, owner, cancelReq, asked, workerVars,
                 clientVars, pageActive>>

HonourCancel(d) ==
  /\ pc[d] = "body" /\ state[job[d]] = "running" /\ cancelReq[job[d]]
  /\ SetOutcome(job[d], "cancelled")
  /\ Exit(d)
  /\ UNCHANGED <<clientVars, pageActive>>

\* The mode body returns; its outcome is written unless the row has one, or
\* the write itself fails and the row stays as it is.
ExecuteClaimedJob(d, o) ==
  /\ pc[d] = "body"
  /\ \/ SetOutcome(job[d], o)
     \/ "write_fails" \in Faults /\ UNCHANGED rowVars
  /\ pc' = [pc EXCEPT ![d] = "loop"]
  /\ job' = [job EXCEPT ![d] = NoJob]
  /\ UNCHANGED <<idle, term, clientVars, pageActive>>

\* Mutant: a stopped daemon hands its job back to the queue.
MarkRunningQueued(d) ==
  /\ "sigterm" \in Faults
  /\ pc[d] \notin {"off", "starting"} /\ ~term[d]
  /\ state' = [j \in Job |-> IF state[j] = "running" /\ owner[j] = d
                             THEN "queued" ELSE state[j]]
  /\ term' = [term EXCEPT ![d] = TRUE]
  /\ UNCHANGED <<kind, auto, age, beat, owner, cancelReq, asked, pc, job,
                 idle, clientVars, pageActive>>

(***************************************************************************)
(* The SIGTERM goroutine marks this process's running rows and exits.  The *)
(* main goroutine goes on in between, and may finish or claim a job.       *)
(***************************************************************************)
MarkRunningCancelled(d) ==
  /\ "sigterm" \in Faults
  /\ pc[d] \notin {"off", "starting"} /\ ~term[d]
  /\ state' = [j \in Job |->
                 IF state[j] = "running" /\ owner[j] \in {d, NoPid}
                 THEN "cancelled" ELSE state[j]]
  /\ term' = [term EXCEPT ![d] = TRUE]
  /\ UNCHANGED <<kind, auto, age, beat, owner, cancelReq, asked, pc, job,
                 idle, clientVars, pageActive>>

TermExit(d) == /\ term[d]
               /\ Exit(d)
               /\ UNCHANGED <<rowVars, clientVars, pageActive>>

Crash(d) == /\ "crash" \in Faults
            /\ Alive(d)
            /\ Exit(d)
            /\ UNCHANGED <<rowVars, clientVars, pageActive>>

-----------------------------------------------------------------------------
(* The environment.                                                        *)

PageChanges == /\ pageActive' = ~pageActive
               /\ UNCHANGED <<rowVars, workerVars, clientVars>>

Executing(d) == pc[d] \in {"open", "body"}

\* Mutant: an age is not capped.
OlderUncapped(a, cap) == a + 1

Older(a, cap) == IF a < cap THEN a + 1 ELSE cap

Tick ==
  /\ TimelyHeartbeats =>
       \A d \in Pid : Executing(d) /\ state[job[d]] = "running"
                        => beat[job[d]] + 1 < Stale
  /\ age' = [j \in Job |-> IF state[j] \in Live THEN Older(age[j], Window)
                           ELSE 0]
  /\ beat' = [j \in Job |-> IF state[j] = "running" /\ beat[j] # NoBeat
                            THEN Older(beat[j], Stale) ELSE NoBeat]
  /\ idle' = [d \in Pid |-> IF pc[d] \in {"loop", "idle"}
                            THEN Older(idle[d], IdleLimit) ELSE idle[d]]
  /\ UNCHANGED <<state, kind, auto, owner, cancelReq, asked, pc, job, term,
                 clientVars, pageActive>>

ClientNext(c) ==
  \/ RequestTask(c) \/ EnsureWorker(c) \/ SpawnWorker(c) \/ FailClosed(c)
  \/ \E t \in TaskType, automatic \in BOOLEAN : RunTaskBody(c, t, automatic)
  \/ \E t \in TaskType : OutOfRows(c, t)
  \/ OpHealth(c) \/ HealthRecover(c) \/ RequestDies(c)
  \/ \E j \in Job : OpCancelJob(c, j)

DaemonNext(d) ==
  \/ DaemonStart(d) \/ DaemonYields(d)
  \/ \E t \in AutoType : EnqueueAutoTask(d, t)
  \/ ClaimQueuedJob(d) \/ NothingToClaim(d) \/ IdlePass(d) \/ IdleExit(d)
  \/ Retire(d) \/ OpenTaskSidecar(d) \/ OpenFails(d)
  \/ Heartbeat(d) \/ HonourCancel(d)
  \/ \E o \in {"complete", "failed"} : ExecuteClaimedJob(d, o)
  \/ MarkRunningCancelled(d) \/ TermExit(d) \/ Crash(d)

Next == \/ \E c \in Client : ClientNext(c)
        \/ \E d \in Pid : DaemonNext(d)
        \/ PageChanges \/ Tick

Spec == Init /\ [][Next]_vars

(***************************************************************************)
(* Fairness.  Processes that are scheduled take their next step; a mode    *)
(* body returns; some page polls health whatever else requests do; and a   *)
(* daemon that is spawned again and again does not die every time before   *)
(* its start or its claim.  Nobody owes the system an exit, a cancel, a    *)
(* crash, a new request, or a page that closes.                            *)
(***************************************************************************)
Fairness ==
  /\ \A c \in Client :
       /\ SF_vars(OpHealth(c)) /\ WF_vars(HealthRecover(c))
       /\ WF_vars(\E t \in TaskType, a \in BOOLEAN :
                      RunTaskBody(c, t, a) \/ OutOfRows(c, t))
       /\ WF_vars(EnsureWorker(c)) /\ WF_vars(SpawnWorker(c))
  /\ \A d \in Pid :
       /\ SF_vars(DaemonStart(d)) /\ SF_vars(ClaimQueuedJob(d))
       /\ WF_vars(NothingToClaim(d)) /\ WF_vars(IdlePass(d))
       /\ WF_vars(OpenTaskSidecar(d)) /\ WF_vars(Heartbeat(d))
       /\ WF_vars(HonourCancel(d)) /\ WF_vars(TermExit(d))
       /\ WF_vars(\E o \in {"complete", "failed"} : ExecuteClaimedJob(d, o))
  /\ WF_vars(Tick)

FairSpec == Spec /\ Fairness

-----------------------------------------------------------------------------
(* Properties.                                                             *)

\* The types of the variables.
TypeOK ==
  /\ state \in [Job -> {"absent"} \union Live \union Terminal]
  /\ kind \in [Job -> TaskType]
  /\ auto \in [Job -> BOOLEAN] /\ asked \in [Job -> BOOLEAN]
  /\ age \in [Job -> 0..Window]
  /\ beat \in [Job -> NoBeat..Stale]
  /\ owner \in [Job -> Pid \union {NoPid}]
  /\ cancelReq \in [Job -> BOOLEAN]
  /\ pc \in [Pid -> {"off", "starting", "loop", "idle", "open", "body"}]
  /\ job \in [Pid -> Job \union {NoJob}]
  /\ idle \in [Pid -> 0..IdleLimit]
  /\ term \in [Pid -> BOOLEAN]
  /\ step \in [Client -> {"idle", "enqueue", "ensure", "spawn", "autospawn",
                          "recover"}]
  /\ mine \in [Client -> Job \union {NoJob}]
  /\ pageActive \in BOOLEAN

\* However many daemons run, no job is executed by two of them, whatever
\* recovery, cancellation and restarts do to its row meanwhile.
SingleExecution ==
  \A d, e \in Pid : Executing(d) /\ Executing(e) /\ job[d] = job[e] => d = e

\* Requests and the auto-scheduler coalesce: no type has two queued or
\* running jobs that are both younger than the six-hour window.
OneActivePerType ==
  \A i, j \in Job :
    (/\ state[i] \in Live /\ state[j] \in Live /\ kind[i] = kind[j]
     /\ age[i] < Window /\ age[j] < Window) => i = j

\* A job's outcome is never replaced: not by a body that ends after its row
\* was cancelled or presumed dead, nor by a late cancel or recovery.
TerminalIsFinal ==
  [][\A j \in Job : state[j] \in Terminal => state'[j] = state[j]]_vars

\* The comment on recoverOrphanJobs: it "fails running rows whose executing
\* process is gone".  No daemon is still executing a job that was failed.
InterruptedMeansGone ==
  \A d \in Pid : Executing(d) => state[job[d]] # "failed"

\* The queue implements the promise of JobService.
JS == INSTANCE JobService WITH
        status <- state,
        executing <- {job[d] : d \in {e \in Pid : Executing(e)}}

ImplementsJobService == JS!Spec

\* A job somebody explicitly asked for leaves the queue, even if pages stay
\* open for ever and daemons crash or retire.
AskedJobStarts ==
  \A j \in Job : (state[j] = "queued" /\ asked[j]) ~> (state[j] # "queued")

\* No job is "running" for ever: it ends, or is found orphaned.
RunningJobSettles ==
  \A j \in Job : (state[j] = "running") ~> (state[j] \in Terminal)
=============================================================================
