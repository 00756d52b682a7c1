--------------------------- MODULE JobQueueProofs ---------------------------
(***************************************************************************)
(* Theorems about JobQueue for every set of jobs, daemons and requests,    *)
(* every window, and every choice of what can go wrong.                    *)
(*                                                                         *)
(* OneActivePerType is inductive with the types.  SingleExecution rests on *)
(* Owned: a daemon that executes a job is the job's recorded owner, and a  *)
(* row that is being executed is never back in the queue.                  *)
(***************************************************************************)
EXTENDS JobQueue, TLAPS

Owned ==
  \A d \in Pid : Executing(d) =>
    /\ job[d] \in Job
    /\ owner[job[d]] = d
    /\ state[job[d]] \notin {"absent", "queued"}

-----------------------------------------------------------------------------

LEMMA InitType == Init => TypeOK
<1> SUFFICES ASSUME Init PROVE TypeOK
  OBVIOUS
<1>1. state \in [Job -> {"absent"} \union Live \union Terminal]
  BY DEF Init, Live, Terminal
<1>2. beat \in [Job -> NoBeat..Stale] /\ age \in [Job -> 0..Window]
      /\ idle \in [Pid -> 0..IdleLimit]
  BY JobQueueAssumptions DEF JobQueueAssumptions, Init, NoBeat
<1> QED
  BY <1>1, <1>2 DEF Init, TypeOK

LEMMA ClientType ==
  ASSUME TypeOK, NEW c \in Client, ClientNext(c)
  PROVE  TypeOK'
<1> USE JobQueueAssumptions DEF JobQueueAssumptions, TypeOK, Live, Terminal,
        rowVars, workerVars, clientVars
<1>1. CASE RequestTask(c)
  BY <1>1 DEF RequestTask, RecoverOrphanJobs
<1>2. ASSUME NEW t \in TaskType, NEW automatic \in BOOLEAN,
             RunTaskBody(c, t, automatic)
      PROVE  TypeOK'
  <2>1. ASSUME NEW j \in Job, InsertJob(j, t, automatic),
               mine' = [mine EXCEPT ![c] = j]
        PROVE  TypeOK'
    <3>1. auto' \in [Job -> BOOLEAN] /\ asked' \in [Job -> BOOLEAN]
      BY <2>1, Zenon DEF InsertJob
    <3>2. state' \in [Job -> {"absent"} \union Live \union Terminal]
          /\ kind' \in [Job -> TaskType] /\ age' \in [Job -> 0..Window]
          /\ UNCHANGED <<beat, owner, cancelReq>>
      BY <2>1 DEF InsertJob
    <3>3. /\ step' \in [Client -> {"idle", "enqueue", "ensure", "spawn",
                                   "autospawn", "recover"}]
          /\ UNCHANGED <<workerVars, pageActive>>
      BY <1>2 DEF RunTaskBody
    <3> QED
      BY <2>1, <3>1, <3>2, <3>3
  <2>2. ASSUME NEW j \in Active(t),
               auto' = [auto EXCEPT ![j] =
                          @ /\ (automatic \/ state[j] # "queued")],
               asked' = [asked EXCEPT ![j] =
                          @ \/ (~automatic /\ state[j] = "queued")],
               UNCHANGED <<state, kind, age, beat, owner, cancelReq, mine>>
        PROVE  TypeOK'
    <3>1. auto' \in [Job -> BOOLEAN] /\ asked' \in [Job -> BOOLEAN]
      BY <2>2, Zenon
    <3> QED
      BY <1>2, <2>2, <3>1 DEF RunTaskBody
  <2> QED
    BY <1>2, <2>1, <2>2 DEF RunTaskBody
<1>3. ASSUME NEW t \in TaskType, OutOfRows(c, t) PROVE TypeOK'
  BY <1>3 DEF OutOfRows
<1>4. CASE EnsureWorker(c)
  BY <1>4 DEF EnsureWorker, RecoverOrphanJobs
<1>5. CASE SpawnWorker(c)
  BY <1>5 DEF SpawnWorker
<1>6. CASE FailClosed(c)
  BY <1>6 DEF FailClosed
<1>7. CASE OpHealth(c)
  BY <1>7 DEF OpHealth, RecoverOrphanJobs
<1>8. CASE HealthRecover(c)
  BY <1>8 DEF HealthRecover, RecoverOrphanJobs
<1>9. CASE RequestDies(c)
  BY <1>9 DEF RequestDies
<1>10. ASSUME NEW j \in Job, OpCancelJob(c, j) PROVE TypeOK'
  BY <1>10 DEF OpCancelJob
<1> QED
  BY <1>1, <1>2, <1>3, <1>4, <1>5, <1>6, <1>7, <1>8, <1>9, <1>10
  DEF ClientNext

LEMMA DaemonType ==
  ASSUME TypeOK, Owned, NEW d \in Pid, DaemonNext(d)
  PROVE  TypeOK'
<1> USE JobQueueAssumptions DEF JobQueueAssumptions, TypeOK, Live, Terminal,
        NoBeat, rowVars, workerVars, clientVars, Executing
<1>1. CASE DaemonStart(d)
  BY <1>1 DEF DaemonStart, RecoverOrphanJobs
<1>2. CASE DaemonYields(d)
  BY <1>2 DEF DaemonYields
<1>3. ASSUME NEW t \in AutoType, EnqueueAutoTask(d, t) PROVE TypeOK'
  BY <1>3 DEF EnqueueAutoTask, InsertJob
<1>4. CASE ClaimQueuedJob(d)
  BY <1>4 DEF ClaimQueuedJob
<1>5. CASE NothingToClaim(d)
  BY <1>5 DEF NothingToClaim
<1>6. CASE IdlePass(d)
  BY <1>6 DEF IdlePass
<1>7. CASE IdleExit(d)
  BY <1>7 DEF IdleExit, Exit
<1>8. CASE OpenTaskSidecar(d)
  BY <1>8 DEF OpenTaskSidecar
<1>9. CASE OpenFails(d)
  <2>1. state' \in [Job -> {"absent"} \union Live \union Terminal]
    BY <1>9 DEF Owned, OpenFails, SetOutcome
  <2>2. /\ pc' \in [Pid -> {"off", "starting", "loop", "idle", "open", "body"}]
        /\ job' \in [Pid -> Job \union {NoJob}]
        /\ idle' \in [Pid -> 0..IdleLimit]
        /\ term' \in [Pid -> BOOLEAN]
    <3>1. CASE Exit(d)
      BY <3>1 DEF Exit
    <3>2. CASE /\ pc' = [pc EXCEPT ![d] = "loop"]
               /\ job' = [job EXCEPT ![d] = NoJob]
               /\ UNCHANGED <<idle, term>>
      BY <3>2
    <3> QED
      BY <1>9, <3>1, <3>2 DEF OpenFails
  <2>3. UNCHANGED <<kind, auto, age, beat, owner, cancelReq, asked, clientVars,
                    pageActive>>
    BY <1>9 DEF OpenFails, SetOutcome
  <2> QED
    BY <2>1, <2>2, <2>3
<1>10. CASE Heartbeat(d)
  BY <1>10 DEF Owned, Heartbeat
<1>11. CASE HonourCancel(d)
  BY <1>11 DEF Owned, HonourCancel, SetOutcome, Exit
<1>12. ASSUME NEW o \in {"complete", "failed"}, ExecuteClaimedJob(d, o)
      PROVE  TypeOK'
  BY <1>12 DEF Owned, ExecuteClaimedJob, SetOutcome
<1>13. CASE MarkRunningCancelled(d)
  BY <1>13 DEF MarkRunningCancelled
<1>14. CASE TermExit(d)
  BY <1>14 DEF TermExit, Exit
<1>15. CASE Crash(d)
  BY <1>15 DEF Crash, Exit
<1>16. CASE Retire(d)
  BY <1>16 DEF Retire, Exit
<1> QED
  BY <1>1, <1>2, <1>3, <1>4, <1>5, <1>6, <1>7, <1>8, <1>9, <1>10, <1>11,
     <1>12, <1>13, <1>14, <1>15, <1>16 DEF DaemonNext

LEMMA TickType == TypeOK /\ Tick => TypeOK'
  BY JobQueueAssumptions DEF JobQueueAssumptions, TypeOK, Tick, Older, NoBeat,
     workerVars, clientVars, Live, Terminal

LEMMA NextType == TypeOK /\ Owned /\ [Next]_vars => TypeOK'
<1> SUFFICES ASSUME TypeOK, Owned, [Next]_vars PROVE TypeOK'
  OBVIOUS
<1>1. CASE UNCHANGED vars
  BY <1>1 DEF TypeOK, vars, rowVars, workerVars, clientVars
<1>2. CASE PageChanges
  BY <1>2 DEF PageChanges, TypeOK, rowVars, workerVars, clientVars
<1> QED
  BY <1>1, <1>2, ClientType, DaemonType, TickType DEF Next

-----------------------------------------------------------------------------
(* What a step does to the rows: the facts the invariants need.            *)

\* A request never touches the daemons, never brings a row back into the
\* queue, and never changes an owner.
LEMMA ClientKeepsOwned ==
  ASSUME TypeOK, Owned, NEW c \in Client, ClientNext(c)
  PROVE  Owned'
<1> USE DEF Owned, TypeOK, Executing, Alive, rowVars, workerVars, clientVars
<1>1. CASE RequestTask(c) \/ OpHealth(c) \/ HealthRecover(c)
  BY <1>1 DEF RequestTask, OpHealth, HealthRecover, RecoverOrphanJobs, Orphaned
<1>2. ASSUME NEW t \in TaskType, NEW automatic \in BOOLEAN,
             RunTaskBody(c, t, automatic)
      PROVE  Owned'
  BY <1>2 DEF RunTaskBody, InsertJob
<1>3. ASSUME NEW t \in TaskType, OutOfRows(c, t) PROVE Owned'
  BY <1>3 DEF OutOfRows
<1>4. CASE EnsureWorker(c)
  BY <1>4 DEF EnsureWorker, RecoverOrphanJobs, Orphaned
<1>5. CASE SpawnWorker(c)
  BY <1>5 DEF SpawnWorker
<1>6. CASE FailClosed(c)
  BY <1>6 DEF FailClosed
<1>7. CASE RequestDies(c)
  BY <1>7 DEF RequestDies
<1>8. ASSUME NEW j \in Job, OpCancelJob(c, j) PROVE Owned'
  BY <1>8 DEF OpCancelJob
<1> QED
  BY <1>1, <1>2, <1>3, <1>4, <1>5, <1>6, <1>7, <1>8 DEF ClientNext

\* A daemon claims a queued row, which by Owned nobody executes, and any
\* other step of a daemon leaves owners and the queue as they are.
LEMMA DaemonKeepsOwned ==
  ASSUME TypeOK, Owned, NEW d \in Pid, DaemonNext(d)
  PROVE  Owned'
<1> USE DEF Owned, TypeOK, Executing, rowVars, workerVars, clientVars
<1>1. CASE DaemonStart(d) \/ DaemonYields(d)
  BY <1>1 DEF DaemonStart, DaemonYields, RecoverOrphanJobs, Orphaned
<1>2. ASSUME NEW t \in AutoType, EnqueueAutoTask(d, t) PROVE Owned'
  BY <1>2 DEF EnqueueAutoTask, InsertJob
<1>3. CASE ClaimQueuedJob(d)
  BY <1>3 DEF ClaimQueuedJob, Claimable
<1>4. CASE NothingToClaim(d) \/ IdlePass(d) \/ IdleExit(d) \/ Retire(d)
  BY <1>4 DEF NothingToClaim, IdlePass, IdleExit, Retire, Exit
<1>5. CASE OpenTaskSidecar(d)
  BY <1>5 DEF OpenTaskSidecar
<1>6. CASE OpenFails(d)
  BY <1>6 DEF OpenFails, SetOutcome, Exit
<1>7. CASE Heartbeat(d) \/ HonourCancel(d)
  BY <1>7 DEF Heartbeat, HonourCancel, SetOutcome, Exit
<1>8. ASSUME NEW o \in {"complete", "failed"}, ExecuteClaimedJob(d, o)
      PROVE  Owned'
  BY <1>8 DEF ExecuteClaimedJob, SetOutcome
<1>9. CASE MarkRunningCancelled(d) \/ TermExit(d) \/ Crash(d)
  BY <1>9 DEF MarkRunningCancelled, TermExit, Crash, Exit
<1> QED
  BY <1>1, <1>2, <1>3, <1>4, <1>5, <1>6, <1>7, <1>8, <1>9 DEF DaemonNext

LEMMA NextOwned == TypeOK /\ Owned /\ [Next]_vars => Owned'
<1> SUFFICES ASSUME TypeOK, Owned, [Next]_vars PROVE Owned'
  OBVIOUS
<1>1. CASE UNCHANGED vars \/ PageChanges
  BY <1>1 DEF Owned, Executing, PageChanges, vars, rowVars, workerVars,
     clientVars
<1>2. CASE Tick
  BY <1>2 DEF Owned, Executing, Tick, clientVars
<1> QED
  BY <1>1, <1>2, ClientKeepsOwned, DaemonKeepsOwned DEF Next

LEMMA TypedAndOwned == Spec => [](TypeOK /\ Owned)
<1>1. Init => Owned
  BY DEF Init, Owned, Executing
<1> QED
  BY <1>1, InitType, NextType, NextOwned, PTL DEF Spec

\* Every reachable state is well typed.
THEOREM TypeCorrect == Spec => []TypeOK
  BY TypedAndOwned, PTL

\* No job is ever executed by two daemons, however many are running.
THEOREM ExecutionIsExclusive == Spec => []SingleExecution
<1>1. TypeOK /\ Owned => SingleExecution
  BY DEF Owned, SingleExecution
<1> QED
  BY <1>1, TypedAndOwned, PTL

-----------------------------------------------------------------------------
(* Outcomes are final, and only an insertion can add an active row.        *)

Final == \A j \in Job : state[j] \in Terminal => state'[j] = state[j]

Shrinks ==
  \A j \in Job : state'[j] \in Live /\ age'[j] < Window =>
    state[j] \in Live /\ age[j] < Window /\ kind'[j] = kind[j]

Inserts ==
  \E j \in Job, t \in TaskType, automatic \in BOOLEAN :
    Active(t) = {} /\ InsertJob(j, t, automatic)

LEMMA ClientRows ==
  ASSUME TypeOK, NEW c \in Client, ClientNext(c)
  PROVE  Final /\ (Shrinks \/ Inserts)
<1> USE DEF Final, Shrinks, TypeOK, Live, Terminal, rowVars, workerVars,
        clientVars
<1>1. CASE RequestTask(c) \/ OpHealth(c) \/ HealthRecover(c)
  BY <1>1 DEF RequestTask, OpHealth, HealthRecover, RecoverOrphanJobs, Orphaned
<1>2. ASSUME NEW t \in TaskType, NEW automatic \in BOOLEAN,
             RunTaskBody(c, t, automatic)
      PROVE  Final /\ (Shrinks \/ Inserts)
  <2>1. ASSUME NEW j \in Job, Active(t) = {}, InsertJob(j, t, automatic)
        PROVE  Final /\ Inserts
    <3>1. Inserts
      BY <2>1, Zenon DEF Inserts
    <3>2. Final
      BY <2>1 DEF InsertJob
    <3> QED
      BY <3>1, <3>2
  <2>2. CASE UNCHANGED <<state, kind, age>>
    BY <2>2
  <2> QED
    BY <1>2, <2>1, <2>2 DEF RunTaskBody
<1>3. ASSUME NEW t \in TaskType, OutOfRows(c, t)
      PROVE  Final /\ Shrinks
  BY <1>3 DEF OutOfRows
<1>4. CASE EnsureWorker(c)
  BY <1>4 DEF EnsureWorker, RecoverOrphanJobs, Orphaned
<1>5. CASE SpawnWorker(c) \/ RequestDies(c)
  BY <1>5 DEF SpawnWorker, RequestDies
<1>6. CASE FailClosed(c)
  BY <1>6 DEF FailClosed
<1>7. ASSUME NEW j \in Job, OpCancelJob(c, j) PROVE Final /\ Shrinks
  BY <1>7 DEF OpCancelJob
<1> QED
  BY <1>1, <1>2, <1>3, <1>4, <1>5, <1>6, <1>7 DEF ClientNext

LEMMA DaemonRows ==
  ASSUME TypeOK, NEW d \in Pid, DaemonNext(d)
  PROVE  Final /\ (Shrinks \/ Inserts)
<1> USE DEF Final, Shrinks, TypeOK, Live, Terminal, rowVars, workerVars,
        clientVars
<1>1. CASE DaemonStart(d) \/ DaemonYields(d)
  BY <1>1 DEF DaemonStart, DaemonYields, RecoverOrphanJobs, Orphaned
<1>2. ASSUME NEW t \in AutoType, EnqueueAutoTask(d, t) PROVE Final /\ Inserts
  <2>1. Inserts
    BY <1>2, JobQueueAssumptions
    DEF EnqueueAutoTask, Inserts, JobQueueAssumptions
  <2>2. Final
    BY <1>2 DEF EnqueueAutoTask, InsertJob
  <2> QED
    BY <2>1, <2>2
<1>3. CASE ClaimQueuedJob(d)
  BY <1>3 DEF ClaimQueuedJob, Claimable
<1>4. CASE NothingToClaim(d) \/ IdlePass(d) \/ IdleExit(d) \/ Retire(d)
  BY <1>4 DEF NothingToClaim, IdlePass, IdleExit, Retire
<1>5. CASE OpenTaskSidecar(d) \/ OpenFails(d)
  BY <1>5 DEF OpenTaskSidecar, OpenFails, SetOutcome
<1>6. CASE Heartbeat(d) \/ HonourCancel(d)
  BY <1>6 DEF Heartbeat, HonourCancel, SetOutcome
<1>7. ASSUME NEW o \in {"complete", "failed"}, ExecuteClaimedJob(d, o)
      PROVE  Final /\ Shrinks
  BY <1>7 DEF ExecuteClaimedJob, SetOutcome
<1>8. CASE MarkRunningCancelled(d) \/ TermExit(d) \/ Crash(d)
  BY <1>8 DEF MarkRunningCancelled, TermExit, Crash
<1> QED
  BY <1>1, <1>2, <1>3, <1>4, <1>5, <1>6, <1>7, <1>8 DEF DaemonNext

LEMMA NextRows == TypeOK /\ [Next]_vars => Final /\ (Shrinks \/ Inserts)
<1> SUFFICES ASSUME TypeOK, [Next]_vars
             PROVE  Final /\ (Shrinks \/ Inserts)
  OBVIOUS
<1>1. CASE UNCHANGED vars \/ PageChanges
  BY <1>1 DEF PageChanges, vars, rowVars, Final, Shrinks
<1>2. CASE Tick
  BY <1>2, JobQueueAssumptions
  DEF Tick, Older, Final, Shrinks, TypeOK, JobQueueAssumptions, Live
<1> QED
  BY <1>1, <1>2, ClientRows, DaemonRows DEF Next

\* An outcome, once recorded, is never replaced.
THEOREM OutcomesAreFinal == Spec => TerminalIsFinal
<1>1. TypeOK /\ [Next]_vars =>
        [\A j \in Job : state[j] \in Terminal => state'[j] = state[j]]_vars
  BY NextRows DEF Final
<1> QED
  BY <1>1, TypeCorrect, PTL DEF Spec, TerminalIsFinal

LEMMA CoalescingStep ==
  ASSUME TypeOK, OneActivePerType, [Next]_vars
  PROVE  OneActivePerType'
<1> SUFFICES ASSUME NEW i \in Job, NEW j \in Job, kind'[i] = kind'[j],
                    state'[i] \in Live, age'[i] < Window,
                    state'[j] \in Live, age'[j] < Window
             PROVE  i = j
  BY DEF OneActivePerType
<1>1. CASE Shrinks
  BY <1>1 DEF Shrinks, OneActivePerType
<1>2. CASE Inserts
  <2>1. PICK k \in Job, u \in TaskType, automatic \in BOOLEAN :
          Active(u) = {} /\ InsertJob(k, u, automatic)
    BY <1>2 DEF Inserts
  <2>2. ASSUME NEW l \in Job, l # k
        PROVE  state'[l] = state[l] /\ kind'[l] = kind[l] /\ age'[l] = age[l]
    BY <2>1, <2>2 DEF InsertJob, TypeOK
  <2>3. kind'[k] = u
    BY <2>1 DEF InsertJob, TypeOK
  <2>4. CASE i # k /\ j # k
    BY <2>2, <2>4 DEF OneActivePerType
  <2>5. CASE i = k /\ j # k
    BY <2>1, <2>2, <2>3, <2>5 DEF Active
  <2>6. CASE i # k /\ j = k
    BY <2>1, <2>2, <2>3, <2>6 DEF Active
  <2> QED
    BY <2>4, <2>5, <2>6
<1> QED
  BY <1>1, <1>2, NextRows

\* However requests and the scheduler interleave, no task type ever has two
\* active jobs inside the window.
THEOREM CoalescingHolds == Spec => []OneActivePerType
<1>1. Init => OneActivePerType
  BY DEF Init, OneActivePerType, Live
<1> QED
  BY <1>1, CoalescingStep, TypeCorrect, PTL DEF Spec

-----------------------------------------------------------------------------
(* The queue implements JobService.                                        *)

Exec == {job[d] : d \in {e \in Pid : Executing(e)}}

\* A daemon that leaves its job takes just that job out of Exec.
LEMMA ExecAfterStop ==
  ASSUME TypeOK, Owned, NEW d \in Pid, Executing(d), NEW q,
         q \notin {"open", "body"},
         pc' = [pc EXCEPT ![d] = q], job' = [job EXCEPT ![d] = NoJob]
  PROVE  Exec' = Exec \ {job[d]}
<1>1. ASSUME NEW e \in Pid, e # d
      PROVE  /\ pc'[e] = pc[e] /\ job'[e] = job[e]
             /\ Executing(e) => job[e] # job[d]
  BY <1>1 DEF TypeOK, Owned
<1>2. pc'[d] = q
  BY DEF TypeOK
<1>3. ASSUME NEW x \in Exec' PROVE x \in Exec \ {job[d]}
  <2>1. PICK e \in Pid : pc'[e] \in {"open", "body"} /\ x = job'[e]
    BY <1>3 DEF Exec, Executing
  <2>2. e # d
    BY <1>2, <2>1
  <2>3. Executing(e) /\ job[e] = x
    BY <1>1, <2>1, <2>2 DEF Executing
  <2> QED
    BY <1>1, <2>2, <2>3 DEF Exec
<1>4. ASSUME NEW x \in Exec, x # job[d] PROVE x \in Exec'
  <2>1. PICK e \in Pid : Executing(e) /\ x = job[e]
    BY <1>4 DEF Exec
  <2>2. e # d
    BY <1>4, <2>1
  <2>3. pc'[e] \in {"open", "body"} /\ job'[e] = x
    BY <1>1, <2>1, <2>2 DEF Executing
  <2> QED
    BY <2>3 DEF Exec, Executing
<1> QED
  BY <1>3, <1>4

LEMMA ExecUnchanged ==
  ASSUME TypeOK, \A e \in Pid : Executing(e)' <=> Executing(e),
         \A e \in Pid : Executing(e) => job'[e] = job[e]
  PROVE  Exec' = Exec
  BY DEF Exec

LEMMA RecoverGivesUp ==
  ASSUME TypeOK, RecoverOrphanJobs, Exec' = Exec
  PROVE  JS!Next
<1> DEFINE S == {j \in Job : Orphaned(j)}
<1>1. \A j \in S : state[j] \in {"queued", "running"}
  BY DEF Orphaned
<1>2. state' = [j \in Job |-> IF j \in S THEN "failed" ELSE state[j]]
  BY DEF RecoverOrphanJobs
<1>3. JS!GiveUp(S, {}, "failed")
  BY <1>1, <1>2 DEF JS!GiveUp, Exec
<1> QED
  BY <1>3 DEF JS!Next, JS!Outcomes

LEMMA StutterMaps ==
  ASSUME UNCHANGED state, Exec' = Exec
  PROVE  UNCHANGED <<state, Exec>>
  OBVIOUS

LEMMA ClientMaps ==
  ASSUME TypeOK, Owned, NEW c \in Client, ClientNext(c)
  PROVE  JS!Next \/ UNCHANGED <<state, Exec>>
<1> USE DEF rowVars, workerVars, clientVars
<1>1. CASE ~ \E d \in Pid : pc'[d] # pc[d] \/ job'[d] # job[d]
  <2>1. Exec' = Exec
    BY <1>1, ExecUnchanged DEF Executing
  <2>2. CASE RequestTask(c) \/ OpHealth(c) \/ HealthRecover(c)
    BY <2>1, <2>2, RecoverGivesUp DEF RequestTask, OpHealth, HealthRecover
  <2>3. ASSUME NEW j \in Job, NEW t, NEW automatic, InsertJob(j, t, automatic)
        PROVE  JS!Next
    BY <2>1, <2>3 DEF InsertJob, JS!Submit, JS!Next, Exec
  <2>4. ASSUME NEW t \in TaskType, NEW automatic \in BOOLEAN,
               RunTaskBody(c, t, automatic)
        PROVE  JS!Next \/ UNCHANGED <<state, Exec>>
    BY <2>1, <2>3, <2>4 DEF RunTaskBody
  <2>5. ASSUME NEW t \in TaskType, OutOfRows(c, t)
        PROVE  UNCHANGED <<state, Exec>>
    BY <2>1, <2>5 DEF OutOfRows
  <2>6. CASE EnsureWorker(c)
    BY <2>1, <2>6, RecoverGivesUp DEF EnsureWorker
  <2>7. CASE SpawnWorker(c) \/ RequestDies(c)
    BY <2>1, <2>7 DEF SpawnWorker, RequestDies
  <2>8. ASSUME NEW j \in Job, state[j] = "queued",
               NEW o \in {"failed", "cancelled"},
               state' = [state EXCEPT ![j] = o]
        PROVE  JS!Next
    <3>1. state' = [i \in Job |-> IF i \in {j} THEN o ELSE state[i]]
      BY <2>8 DEF TypeOK
    <3>2. JS!GiveUp({j}, {}, o)
      BY <2>1, <2>8, <3>1 DEF JS!GiveUp, Exec
    <3> QED
      BY <3>2 DEF JS!Next, JS!Outcomes
  <2>9. CASE FailClosed(c)
    <3>1. CASE mine[c] \in Job /\ state[mine[c]] = "queued"
      <4>1. state' = [state EXCEPT ![mine[c]] = "failed"]
        BY <2>9, <3>1 DEF FailClosed, TypeOK
      <4> QED
        BY <2>8, <3>1, <4>1
    <3>2. CASE ~(mine[c] \in Job /\ state[mine[c]] = "queued")
      <4>1. state' = state
        BY <2>9, <3>2 DEF FailClosed, TypeOK
      <4> QED
        BY <2>1, <4>1
    <3> QED
      BY <3>1, <3>2
  <2>10. ASSUME NEW j \in Job, OpCancelJob(c, j)
         PROVE  JS!Next \/ UNCHANGED <<state, Exec>>
    BY <2>1, <2>8, <2>10 DEF OpCancelJob
  <2> QED
    BY <2>2, <2>4, <2>5, <2>6, <2>7, <2>9, <2>10 DEF ClientNext
<1>2. CASE SpawnWorker(c)
  <2>1. PICK d \in Pid : ~Alive(d) /\ pc' = [pc EXCEPT ![d] = "starting"]
    BY <1>2 DEF SpawnWorker
  <2>2. \A e \in Pid : Executing(e)' <=> Executing(e)
    BY <2>1 DEF Alive, Executing, TypeOK
  <2> QED
    BY <1>2, <2>2, ExecUnchanged DEF SpawnWorker
<1>3. UNCHANGED <<pc, job>> \/ SpawnWorker(c)
  BY DEF ClientNext, RequestTask, RunTaskBody, OutOfRows, EnsureWorker,
     FailClosed, OpHealth, HealthRecover, RequestDies, OpCancelJob
<1> QED
  BY <1>1, <1>2, <1>3

\* A daemon that ends its job with an outcome of its own finishes it.
LEMMA OutcomeFinishes ==
  ASSUME TypeOK, Owned, NEW d \in Pid, Executing(d),
         NEW o \in Terminal, SetOutcome(job[d], o),
         Exec' = Exec \ {job[d]}
  PROVE  JS!Next
<1>1. JS!Finish(job[d], o)
  BY DEF JS!Finish, SetOutcome, Exec
<1> QED
  BY <1>1 DEF JS!Next, JS!Outcomes, Terminal, Owned

\* One that dies without writing anything only stops executing.
LEMMA SilentStop ==
  ASSUME TypeOK, Owned, NEW d \in Pid, Executing(d), UNCHANGED state,
         Exec' = Exec \ {job[d]}
  PROVE  JS!Next
<1>1. state' = [j \in Job |-> IF j \in {} THEN "failed" ELSE state[j]]
  BY DEF TypeOK
<1>2. JS!GiveUp({}, {job[d]}, "failed")
  BY <1>1 DEF JS!GiveUp, Exec
<1> QED
  BY <1>2 DEF JS!Next, JS!Outcomes, Owned

LEMMA ExitMaps ==
  ASSUME TypeOK, Owned, NEW d \in Pid, Exit(d), UNCHANGED state
  PROVE  JS!Next \/ UNCHANGED <<state, Exec>>
<1>1. CASE Executing(d)
  BY <1>1, ExecAfterStop, SilentStop DEF Exit
<1>2. CASE ~Executing(d)
  BY <1>2, ExecUnchanged DEF Exit, Executing, TypeOK
<1> QED
  BY <1>1, <1>2

LEMMA ClaimStarts ==
  ASSUME TypeOK, Owned, NEW d \in Pid, ClaimQueuedJob(d)
  PROVE  JS!Next
<1>1. PICK j \in Job : /\ state[j] = "queued"
                       /\ state' = [state EXCEPT ![j] = "running"]
                       /\ job' = [job EXCEPT ![d] = j]
  BY DEF ClaimQueuedJob, Claimable
<1>2. pc[d] = "loop" /\ pc' = [pc EXCEPT ![d] = "open"]
  BY DEF ClaimQueuedJob
<1>3. ASSUME NEW e \in Pid, e # d
      PROVE  pc'[e] = pc[e] /\ job'[e] = job[e]
  BY <1>1, <1>2, <1>3 DEF TypeOK
<1>4. pc'[d] = "open" /\ job'[d] = j
  BY <1>1, <1>2 DEF TypeOK
<1>5. ASSUME NEW x \in Exec' PROVE x \in Exec \union {j}
  <2>1. PICK e \in Pid : pc'[e] \in {"open", "body"} /\ x = job'[e]
    BY <1>5 DEF Exec, Executing
  <2>2. CASE e = d
    BY <1>4, <2>1, <2>2
  <2>3. CASE e # d
    BY <1>3, <2>1, <2>3 DEF Exec, Executing
  <2> QED
    BY <2>2, <2>3
<1>6. ASSUME NEW x \in Exec PROVE x \in Exec'
  <2>1. PICK e \in Pid : Executing(e) /\ x = job[e]
    BY <1>6 DEF Exec
  <2>2. e # d
    BY <1>2, <2>1 DEF Executing
  <2>3. pc'[e] \in {"open", "body"} /\ job'[e] = x
    BY <1>3, <2>1, <2>2 DEF Executing
  <2> QED
    BY <2>3 DEF Exec, Executing
<1>7. j \in Exec'
  BY <1>4 DEF Exec, Executing
<1>8. Exec' = Exec \union {j}
  BY <1>5, <1>6, <1>7
<1>9. JS!Start(j)
  BY <1>1, <1>8 DEF JS!Start, Exec
<1> QED
  BY <1>9 DEF JS!Next

LEMMA DaemonMaps ==
  ASSUME TypeOK, Owned, NEW d \in Pid, DaemonNext(d)
  PROVE  JS!Next \/ UNCHANGED <<state, Exec>>
<1> USE DEF rowVars, workerVars, clientVars
<1>1. CASE DaemonStart(d)
  <2>1. Exec' = Exec
    BY <1>1, ExecUnchanged DEF DaemonStart, Executing, TypeOK
  <2> QED
    BY <1>1, <2>1, RecoverGivesUp DEF DaemonStart
<1>2. CASE DaemonYields(d)
  BY <1>2, ExecUnchanged DEF DaemonYields, Executing, TypeOK
<1>3. ASSUME NEW t \in AutoType, EnqueueAutoTask(d, t)
      PROVE  JS!Next
  <2>1. Exec' = Exec
    BY <1>3, ExecUnchanged DEF EnqueueAutoTask, Executing
  <2> QED
    BY <1>3, <2>1 DEF EnqueueAutoTask, InsertJob, JS!Submit, JS!Next, Exec
<1>4. CASE ClaimQueuedJob(d)
  BY <1>4, ClaimStarts
<1>5. CASE NothingToClaim(d)
  BY <1>5, ExecUnchanged DEF NothingToClaim, Executing, TypeOK
<1>6. CASE IdlePass(d)
  BY <1>6, ExecUnchanged DEF IdlePass, Executing, TypeOK
<1>7. CASE OpenTaskSidecar(d)
  BY <1>7, ExecUnchanged DEF OpenTaskSidecar, Executing, TypeOK
<1>8. CASE IdleExit(d) \/ Retire(d) \/ TermExit(d) \/ Crash(d)
  BY <1>8, ExitMaps DEF IdleExit, Retire, TermExit, Crash
<1>9. CASE OpenFails(d)
  <2>1. Executing(d) /\ SetOutcome(job[d], "failed")
    BY <1>9 DEF OpenFails, Executing
  <2>2. Exec' = Exec \ {job[d]}
    BY <1>9, <2>1, ExecAfterStop DEF OpenFails, Exit
  <2> QED
    BY <2>1, <2>2, OutcomeFinishes DEF Terminal
<1>10. CASE Heartbeat(d)
  BY <1>10, ExecUnchanged DEF Heartbeat, Executing
<1>11. CASE HonourCancel(d)
  <2>1. Executing(d) /\ SetOutcome(job[d], "cancelled")
    BY <1>11 DEF HonourCancel, Executing
  <2>2. Exec' = Exec \ {job[d]}
    BY <1>11, <2>1, ExecAfterStop DEF HonourCancel, Exit
  <2> QED
    BY <2>1, <2>2, OutcomeFinishes DEF Terminal
<1>12. ASSUME NEW o \in {"complete", "failed"}, ExecuteClaimedJob(d, o)
       PROVE  JS!Next
  <2>1. Executing(d)
    BY <1>12 DEF ExecuteClaimedJob, Executing
  <2>2. Exec' = Exec \ {job[d]}
    BY <1>12, <2>1, ExecAfterStop DEF ExecuteClaimedJob
  <2>3. CASE SetOutcome(job[d], o)
    BY <2>1, <2>2, <2>3, OutcomeFinishes DEF Terminal
  <2>4. CASE UNCHANGED rowVars
    BY <2>1, <2>2, <2>4, SilentStop
  <2> QED
    BY <1>12, <2>3, <2>4 DEF ExecuteClaimedJob
<1>13. CASE MarkRunningCancelled(d)
  <2>1. Exec' = Exec
    BY <1>13, ExecUnchanged DEF MarkRunningCancelled, Executing
  <2> DEFINE S == {j \in Job : state[j] = "running" /\ owner[j] \in {d, NoPid}}
  <2>2. state' = [j \in Job |-> IF j \in S THEN "cancelled" ELSE state[j]]
    BY <1>13 DEF MarkRunningCancelled
  <2>3. JS!GiveUp(S, {}, "cancelled")
    BY <2>1, <2>2 DEF JS!GiveUp, Exec
  <2> QED
    BY <2>3 DEF JS!Next, JS!Outcomes
<1> QED
  BY <1>1, <1>2, <1>3, <1>4, <1>5, <1>6, <1>7, <1>8, <1>9, <1>10, <1>11,
     <1>12, <1>13 DEF DaemonNext

LEMMA NextMaps ==
  ASSUME TypeOK, Owned, [Next]_vars
  PROVE  JS!Next \/ UNCHANGED <<state, Exec>>
<1>1. CASE UNCHANGED vars \/ PageChanges \/ Tick
  BY <1>1, ExecUnchanged
  DEF vars, rowVars, workerVars, clientVars, PageChanges, Tick, Executing
<1> QED
  BY <1>1, ClientMaps, DaemonMaps DEF Next

\* Every behaviour of the queue, whatever dies in the middle of it, is one
\* that JobService promises.
THEOREM QueueImplementsService == Spec => ImplementsJobService
<1>1. Init => JS!Init
  BY DEF Init, JS!Init, Executing
<1>2. TypeOK /\ Owned /\ [Next]_vars => [JS!Next]_<<state, Exec>>
  BY NextMaps
<1> QED
  BY <1>1, <1>2, TypedAndOwned, PTL DEF Spec, ImplementsJobService, JS!Spec, Exec

-----------------------------------------------------------------------------
(* Recovery fails only jobs whose executing process is gone, provided that *)
(* a live process is never late with its heartbeat.                        *)

Fresh ==
  \A d \in Pid : Executing(d) =>
    /\ state[job[d]] # "failed"
    /\ state[job[d]] = "running" => beat[job[d]] \in 0..(Stale - 1)

LEMMA RecoverySparesFresh ==
  ASSUME TypeOK, Owned, Fresh, RecoverOrphanJobs,
         \A e \in Pid : Executing(e)' => Executing(e) /\ job'[e] = job[e]
  PROVE  Fresh'
  BY JobQueueAssumptions
  DEF Fresh, TypeOK, Owned, RecoverOrphanJobs, Orphaned, JobQueueAssumptions,
      NoBeat

LEMMA ClientKeepsFresh ==
  ASSUME TypeOK, Owned, Fresh, NEW c \in Client, ClientNext(c)
  PROVE  Fresh'
<1> USE DEF rowVars, workerVars, clientVars
<1>1. CASE RequestTask(c) \/ OpHealth(c) \/ HealthRecover(c)
  BY <1>1, RecoverySparesFresh
  DEF RequestTask, OpHealth, HealthRecover, Executing
<1>2. ASSUME NEW t \in TaskType, NEW automatic \in BOOLEAN,
             RunTaskBody(c, t, automatic)
      PROVE  Fresh'
  BY <1>2 DEF RunTaskBody, InsertJob, Fresh, Owned, TypeOK, Executing
<1>3. ASSUME NEW t \in TaskType, OutOfRows(c, t) PROVE Fresh'
  BY <1>3 DEF OutOfRows, Fresh, Executing
<1>4. CASE EnsureWorker(c)
  <2>1. CASE UNCHANGED rowVars
    BY <1>4, <2>1 DEF EnsureWorker, Fresh, Executing
  <2>2. CASE RecoverOrphanJobs
    BY <1>4, <2>2, RecoverySparesFresh DEF EnsureWorker, Executing
  <2> QED
    BY <1>4, <2>1, <2>2 DEF EnsureWorker
<1>5. CASE SpawnWorker(c)
  BY <1>5 DEF SpawnWorker, Fresh, TypeOK, Executing, Alive
<1>6. CASE FailClosed(c)
  BY <1>6 DEF FailClosed, Fresh, Owned, TypeOK, Executing
<1>7. CASE RequestDies(c)
  BY <1>7 DEF RequestDies, Fresh, Executing
<1>8. ASSUME NEW j \in Job, OpCancelJob(c, j) PROVE Fresh'
  BY <1>8 DEF OpCancelJob, Fresh, Owned, TypeOK, Executing
<1> QED
  BY <1>1, <1>2, <1>3, <1>4, <1>5, <1>6, <1>7, <1>8 DEF ClientNext

LEMMA DaemonKeepsFresh ==
  ASSUME TypeOK, Owned, Fresh, NEW d \in Pid, DaemonNext(d)
  PROVE  Fresh'
<1> USE JobQueueAssumptions
    DEF JobQueueAssumptions, Fresh, Owned, TypeOK, Executing, rowVars,
        workerVars, clientVars
<1>1. CASE DaemonStart(d)
  BY <1>1, RecoverySparesFresh DEF DaemonStart
<1>2. CASE DaemonYields(d)
  BY <1>2 DEF DaemonYields
<1>3. ASSUME NEW t \in AutoType, EnqueueAutoTask(d, t) PROVE Fresh'
  BY <1>3 DEF EnqueueAutoTask, InsertJob
<1>4. CASE ClaimQueuedJob(d)
  BY <1>4 DEF ClaimQueuedJob, Claimable
<1>5. CASE NothingToClaim(d) \/ IdlePass(d) \/ OpenTaskSidecar(d)
  BY <1>5 DEF NothingToClaim, IdlePass, OpenTaskSidecar
<1>6. CASE IdleExit(d) \/ Retire(d) \/ TermExit(d) \/ Crash(d)
  BY <1>6 DEF IdleExit, Retire, TermExit, Crash, Exit
<1>7. CASE OpenFails(d)
  BY <1>7 DEF OpenFails, SetOutcome, Exit
<1>8. CASE Heartbeat(d)
  BY <1>8 DEF Heartbeat
<1>9. CASE HonourCancel(d)
  BY <1>9 DEF HonourCancel, SetOutcome, Exit
<1>10. ASSUME NEW o \in {"complete", "failed"}, ExecuteClaimedJob(d, o)
       PROVE  Fresh'
  BY <1>10 DEF ExecuteClaimedJob, SetOutcome
<1>11. CASE MarkRunningCancelled(d)
  BY <1>11 DEF MarkRunningCancelled
<1> QED
  BY <1>1, <1>2, <1>3, <1>4, <1>5, <1>6, <1>7, <1>8, <1>9, <1>10, <1>11
  DEF DaemonNext

LEMMA NextFresh ==
  ASSUME TimelyHeartbeats, TypeOK, Owned, Fresh, [Next]_vars
  PROVE  Fresh'
<1>1. CASE UNCHANGED vars \/ PageChanges
  BY <1>1 DEF vars, rowVars, workerVars, clientVars, PageChanges, Fresh,
     Executing
<1>2. CASE Tick
  BY <1>2, JobQueueAssumptions
  DEF Tick, Older, Fresh, Owned, TypeOK, Executing, JobQueueAssumptions,
      NoBeat, clientVars
<1> QED
  BY <1>1, <1>2, ClientKeepsFresh, DaemonKeepsFresh DEF Next

\* If heartbeats are on time, no process still executes a job that recovery
\* reported as failed.  (README: what happens without the premise.)
THEOREM InterruptedJobsAreGone ==
  TimelyHeartbeats => (Spec => []InterruptedMeansGone)
<1> SUFFICES ASSUME TimelyHeartbeats
             PROVE  Spec => []InterruptedMeansGone
  OBVIOUS
<1>1. Init => Fresh
  BY DEF Init, Fresh, Executing
<1>2. TypeOK /\ Owned /\ Fresh /\ [Next]_vars => Fresh'
  BY NextFresh
<1>3. Fresh => InterruptedMeansGone
  BY DEF Fresh, InterruptedMeansGone
<1> QED
  BY <1>1, <1>2, <1>3, TypedAndOwned, PTL DEF Spec
=============================================================================
