--------------------------- MODULE LifecycleProofs --------------------------
(***************************************************************************)
(* Proofs about the plugin's processes, their builds and the files they    *)
(* work on, for any number of workers, requests, files, backups, models,   *)
(* schema versions and connections, and any mix of task modes and faults:  *)
(* one worker builds at a time, and readers always find a model            *)
(* (ModelUpdates); daemons are succeeded while the plugin is updated       *)
(* (WorkerLifecycle); across copies, restores, deaths and the swap of a    *)
(* file that others hold open nothing that was committed is lost, the      *)
(* sidecar can be opened, and each migration runs once (BackupRestore).    *)
(*                                                                         *)
(* OneBuilder is not inductive by itself: a second build is kept out by    *)
(* the tracker, so the invariant says that while a worker builds, the      *)
(* tracker says "building" - through recovery, which looks for running     *)
(* rows first, and through the six-hour expiry, which no build reaches.    *)
(* That readers always find a model is proved on top of it, for systems in *)
(* which nobody asks for a forced build (with one it is false).            *)
(***************************************************************************)
EXTENDS ModelUpdates, WorkerLifecycle, BackupRestore, FiniteSetTheorems, NaturalsInduction,
        WellFoundedInduction, TLAPS

-----------------------------------------------------------------------------
(* Builds, and the models that readers find.                               *)

PcState == Stage \union {"off", "idle", "sync", "request", "drain", "lanes",
                         "panic"}

Tracked == \A w \in Worker : Building(w) => tracker = "building"

OneBuilderInv == pc \in [Worker -> PcState] /\ Tracked /\ OneBuilder

\* A worker that goes on with its build, or goes where no build is, disturbs
\* nothing if it leaves the tracker alone.
LEMMA MovesAside ==
  ASSUME OneBuilderInv, NEW w \in Worker, NEW p \in PcState,
         Goto(w, p), p \in Stage => Building(w), UNCHANGED tracker
  PROVE  OneBuilderInv'
<1>1. pc' \in [Worker -> PcState]
  BY DEF OneBuilderInv, Goto
<1>2. \A v \in Worker : Building(v)' => Building(v)
  BY DEF OneBuilderInv, Goto, Building
<1>3. QED
  BY <1>1, <1>2 DEF OneBuilderInv, Tracked, OneBuilder

\* recoverOrphanJobs resets the tracker only when no model job runs.
LEMMA RecoveryIsSafe ==
  ASSUME OneBuilderInv, RecoverOrphanJobs,
         pc' \in [Worker -> PcState],
         \A v \in Worker : Building(v)' => Building(v)
  PROVE  OneBuilderInv'
<1>1. \A v \in Worker : Building(v) => Busy(v)
  BY DEF Building, Busy, Stage
<1>2. Tracked'
  BY <1>1 DEF OneBuilderInv, Tracked, RecoverOrphanJobs
<1>3. QED
  BY <1>2 DEF OneBuilderInv, OneBuilder

\* A worker that was the builder gives the tracker back.
LEMMA BuilderStops ==
  ASSUME OneBuilderInv, NEW w \in Worker, NEW p \in PcState \ Stage,
         Building(w), Goto(w, p)
  PROVE  OneBuilderInv'
<1>1. pc' \in [Worker -> PcState]
  BY DEF OneBuilderInv, Goto
<1>2. \A v \in Worker : ~Building(v)'
  BY DEF OneBuilderInv, OneBuilder, Goto, Building
<1>3. QED
  BY <1>1, <1>2 DEF OneBuilderInv, Tracked, OneBuilder

LEMMA OneBuilderStep == OneBuilderInv /\ [Next]_vars => OneBuilderInv'
<1> SUFFICES ASSUME OneBuilderInv, [Next]_vars PROVE OneBuilderInv'
  OBVIOUS
<1> USE DEF PcState, Stage, coordinatorVars, modelVars
<1>1. CASE Feedback \/ OrphanGoesStale \/ UNCHANGED vars
  BY <1>1 DEF Feedback, OrphanGoesStale, vars, OneBuilderInv, Tracked,
              OneBuilder, Building
<1>2. CASE Recover
  BY <1>2, RecoveryIsSafe DEF Recover, OneBuilderInv, Building
<1>3. CASE SixHoursPass
  BY <1>3 DEF SixHoursPass, OneBuilderInv, Tracked, OneBuilder, Building
<1>4. ASSUME NEW w \in Worker, WorkerNext(w) PROVE OneBuilderInv'
  <2>1. CASE DaemonStart(w)
    <3>1. pc' \in [Worker -> PcState] /\ RecoverOrphanJobs
      BY <2>1 DEF DaemonStart, Goto, OneBuilderInv
    <3>2. \A v \in Worker : Building(v)' => Building(v)
      BY <2>1 DEF DaemonStart, Goto, OneBuilderInv, Building
    <3>3. QED
      BY <3>1, <3>2, RecoveryIsSafe
  <2>2. CASE \E m \in Mode : Claim(w, m)
    <3>1. PICK m \in Mode : Claim(w, m)
      BY <2>2
    <3>2. PICK p \in {"drain", "sync", "request"} : Goto(w, p)
      BY <3>1 DEF Claim
    <3>3. QED
      BY <3>1, <3>2, MovesAside DEF Claim
  <2>3. CASE Sync(w) \/ RequestBuild(w)
    BY <2>3, MovesAside DEF Sync, RequestBuild
  <2>4. CASE RequestSync(w)
    BY <2>4, MovesAside DEF RequestSync
  <2>5. CASE Drain(w)
    <3>1. CASE CanStart /\ tracker' = "building" /\ Goto(w, "features")
      <4>1. \A v \in Worker : ~Building(v)
        BY <3>1 DEF CanStart, OneBuilderInv, Tracked
      <4>2. pc' \in [Worker -> PcState]
        BY <3>1 DEF Goto, OneBuilderInv
      <4>3. \A v \in Worker : Building(v)' => v = w
        BY <3>1, <4>1 DEF Goto, OneBuilderInv, Building
      <4>4. QED
        BY <3>1, <4>2, <4>3 DEF OneBuilderInv, Tracked, OneBuilder
    <3>2. CASE /\ Goto(w, IF task[w].mode \in SyncModes THEN "panic" ELSE "idle")
               /\ UNCHANGED tracker
      BY <3>2, MovesAside
    <3>3. QED
      BY <2>5, <3>1, <3>2 DEF Drain, Drop
  <2>6. CASE NameModel(w) \/ Score(w) \/ PublishFile(w) \/ Register(w)
               \/ PruneSnapshots(w) \/ BuildFails(w)
    <3>1. Building(w) /\ UNCHANGED tracker
      BY <2>6 DEF NameModel, Score, PublishFile, Register, PruneSnapshots,
                  BuildFails, Building
    <3>2. PICK p \in Stage : Goto(w, p)
      BY <2>6 DEF NameModel, Score, PublishFile, Register, PruneSnapshots,
                  BuildFails
    <3>3. QED
      BY <3>1, <3>2, MovesAside
  <2>7. CASE Lookup(w)
    <3>1. PICK p \in Stage : Goto(w, p)
      BY <2>7 DEF Lookup
    <3>2. QED
      BY <2>7, <3>1, MovesAside DEF Lookup, Building
  <2>8. CASE Finish(w) \/ ReportError(w)
    <3>1. PICK p \in PcState \ Stage : Goto(w, p)
      BY <2>8 DEF Finish, ReportError, Drop
    <3>2. QED
      BY <2>8, <3>1, BuilderStops DEF Finish, ReportError, Building
  <2>9. CASE JobEnds(w)
    BY <2>9, MovesAside DEF JobEnds, Drop
  <2>10. CASE Panics(w) \/ Crash(w) \/ CancelStops(w)
    BY <2>10, MovesAside DEF Panics, Crash, CancelStops, Dies, Drop
  <2>11. QED
    BY <1>4, <2>1, <2>2, <2>3, <2>4, <2>5, <2>6, <2>7, <2>8, <2>9, <2>10
       DEF WorkerNext
<1>5. QED
  BY <1>1, <1>2, <1>3, <1>4 DEF Next

\* At most one worker is between the start of a build and its report in
\* model_update_state, however many claim model jobs, die and are recovered.
THEOREM BuildsAreExclusive == Spec => []OneBuilder
<1>1. Init => OneBuilderInv
  BY DEF Init, OneBuilderInv, OneBuilder, Tracked, Building, PcState, Stage
<1>2. OneBuilderInv => OneBuilder
  BY DEF OneBuilderInv
<1>3. QED
  BY <1>1, <1>2, OneBuilderStep, PTL DEF Spec

-----------------------------------------------------------------------------
(***************************************************************************)
(* What is published is whole.  A published row has its file; a build that *)
(* is past the lookup works on a row that is not published, so that        *)
(* neither its failure nor the clean-up of its file hits the published     *)
(* model, and retention removes rows that are not published only.          *)
(***************************************************************************)
Held(m) == status[m] = "published" /\ m \in named /\ file[m] # {}

TaskType == [mode : Mode \union {"update-model"}, gen : Nat, id : Evidence,
             read : SUBSET Evidence, found : [Entity -> 0..1]]

Types ==
  /\ evidence \in Evidence /\ requested \in Nat
  /\ status \in [Evidence -> {"absent", "building", "published", "superseded",
                              "failed"}]
  /\ named \subseteq Evidence /\ file \in [Evidence -> SUBSET Evidence]
  /\ task \in [Worker -> TaskType]

Progress(w) ==
  /\ pc[w] \in {"lookup", "score", "write"} => task[w].read # {}
  /\ pc[w] \in {"score", "write", "register"} => status[task[w].id] = "building"
  /\ pc[w] = "register" => file[task[w].id] # {}

WholeInv ==
  /\ OneBuilderInv /\ Types
  /\ \A m \in Evidence : status[m] = "published" => Held(m)
  /\ \A w \in Worker : Progress(w)

LEMMA NoTaskType == NoTask \in TaskType
  BY ModelUpdatesAssumptions DEF NoTask, TaskType, Evidence

\* A step that leaves the models alone and starts or ends tasks.
LEMMA ModelsUntouched ==
  ASSUME WholeInv, UNCHANGED modelVars, OneBuilderInv', Types',
         \A w \in Worker :
            pc'[w] \in {"lookup", "score", "write", "register"} =>
              pc'[w] = pc[w] /\ task'[w] = task[w]
  PROVE  WholeInv'
<1>1. \A w \in Worker : Progress(w)'
  BY DEF WholeInv, Progress, modelVars
<1>2. QED
  BY <1>1 DEF WholeInv, Held, modelVars

LEMMA WholeStep == WholeInv /\ [Next]_vars => WholeInv'
<1> SUFFICES ASSUME WholeInv, [Next]_vars PROVE WholeInv'
  OBVIOUS
<1>0. OneBuilderInv'
  BY OneBuilderStep DEF WholeInv
<1>a. 0 \in Evidence /\ Evidence \subseteq Nat
  BY ModelUpdatesAssumptions DEF Evidence
<1> USE <1>0
<1>1. CASE UNCHANGED vars \/ Feedback \/ Recover \/ OrphanGoesStale
             \/ SixHoursPass
  <2>1. UNCHANGED <<modelVars, pc, task>>
    BY <1>1 DEF vars, Feedback, Recover, OrphanGoesStale, SixHoursPass
  <2>2. evidence' \in Evidence /\ requested' \in Nat
    BY <1>1 DEF WholeInv, Types, vars, coordinatorVars, Feedback, Recover,
                OrphanGoesStale, SixHoursPass
  <2>3. Types'
    BY <2>1, <2>2 DEF WholeInv, Types, modelVars
  <2>4. QED
    BY <2>1, <2>3, ModelsUntouched
<1>2. ASSUME NEW w \in Worker, WorkerNext(w) PROVE WholeInv'
  <2> DEFINE Elsewhere == {"off", "idle", "sync", "request", "drain", "lanes",
                           "panic", "features", "finish", "report"}
  <2>0. \A v \in Worker \ {w} : Building(w) => ~Building(v)
    BY DEF WholeInv, OneBuilderInv, OneBuilder
  <2>b. \A v \in Worker \ {w} : \A p :
          Goto(w, p) => pc'[v] = pc[v]
    BY DEF Goto, WholeInv, OneBuilderInv
  <2>c. \A p : Goto(w, p) => pc'[w] = p
    BY DEF Goto, WholeInv, OneBuilderInv
  <2>1. ASSUME NEW p \in Elsewhere, Goto(w, p), UNCHANGED modelVars,
               evidence' \in Evidence, requested' \in Nat,
               task' \in [Worker -> TaskType],
               \A v \in Worker \ {w} : task'[v] = task[v]
        PROVE  WholeInv'
    <3>1. Types'
      BY <2>1 DEF WholeInv, Types, modelVars
    <3>2. \A v \in Worker :
            pc'[v] \in {"lookup", "score", "write", "register"} =>
              pc'[v] = pc[v] /\ task'[v] = task[v]
      BY <2>1, <2>b, <2>c
    <3>3. QED
      BY <2>1, <3>1, <3>2, ModelsUntouched
  <2>2. ASSUME NEW p \in Elsewhere, Drop(w, p)
        PROVE  /\ Goto(w, p)
               /\ task' \in [Worker -> TaskType]
               /\ \A v \in Worker \ {w} : task'[v] = task[v]
    BY <2>2, NoTaskType DEF Drop, WholeInv, Types
  <2>3. CASE DaemonStart(w) \/ JobEnds(w) \/ Finish(w) \/ ReportError(w)
               \/ Panics(w) \/ Crash(w) \/ CancelStops(w)
    <3>1. UNCHANGED <<modelVars, evidence, requested>>
      BY <2>3 DEF DaemonStart, JobEnds, Finish, ReportError, Panics, Crash,
                  CancelStops, Dies, coordinatorVars
    <3>2. PICK p \in Elsewhere :
            Drop(w, p) \/ (Goto(w, p) /\ UNCHANGED task)
      BY <2>3 DEF DaemonStart, JobEnds, Finish, ReportError, Panics, Crash,
                  CancelStops, Dies
    <3>3. QED
      BY <2>1, <2>2, <3>1, <3>2 DEF WholeInv, Types
  <2>4. CASE \E m \in Mode : Claim(w, m)
    <3>1. PICK m \in Mode : Claim(w, m)
      BY <2>4
    <3>2. PICK p \in Elsewhere : Goto(w, p)
      BY <3>1 DEF Claim
    <3>3. /\ task' \in [Worker -> TaskType]
          /\ \A v \in Worker \ {w} : task'[v] = task[v]
      BY <3>1, SMTT(40) DEF Claim, WholeInv, Types, TaskType
    <3>4. UNCHANGED <<modelVars, evidence, requested>>
      BY <3>1 DEF Claim, coordinatorVars
    <3>5. QED
      BY <2>1, <3>2, <3>3, <3>4 DEF WholeInv, Types
  <2>5. CASE Sync(w)
    <3>1. /\ task' \in [Worker -> TaskType]
          /\ \A v \in Worker \ {w} : task'[v] = task[v]
      BY <2>5, ZenonT(60) DEF Sync, WholeInv, Types, TaskType
    <3>2. evidence' \in Evidence
      BY <2>5 DEF Sync, WholeInv, Types
    <3>3. QED
      BY <2>1, <2>5, <3>1, <3>2 DEF Sync, WholeInv, Types
  <2>6. CASE RequestBuild(w)
    <3>1. PICK p \in {"drain"} : Goto(w, p) /\ UNCHANGED <<named, file, task>>
      BY <2>6 DEF RequestBuild
    <3>2. Types'
      BY <2>6, <3>1 DEF RequestBuild, WholeInv, Types
    <3>3. \A m \in Evidence : /\ status'[m] = "published" => status[m] = "published"
                              /\ status[m] = "building" => status'[m] = "building"
      BY <2>6 DEF RequestBuild, WholeInv, Types
    <3>4. \A v \in Worker : task[v].id \in Evidence
      BY DEF WholeInv, Types, TaskType
    <3>5. \A v \in Worker : Progress(v)'
      BY <3>1, <3>3, <3>4, <2>b, <2>c DEF WholeInv, Progress
    <3>6. QED
      BY <3>1, <3>2, <3>3, <3>5 DEF WholeInv, Held
  <2>7. CASE RequestSync(w)
    <3>1. requested' \in Nat
      BY <2>7 DEF RequestSync, WholeInv, Types
    <3>2. PICK p \in Elsewhere : Goto(w, p)
      BY <2>7 DEF RequestSync
    <3>3. QED
      BY <2>1, <2>7, <3>1, <3>2 DEF RequestSync, WholeInv, Types
  <2>8. CASE Drain(w)
    <3>1. CASE task' = [task EXCEPT ![w].gen = requested] /\ Goto(w, "features")
      <4>1. /\ task' \in [Worker -> TaskType]
            /\ \A v \in Worker \ {w} : task'[v] = task[v]
        BY <3>1, ZenonT(60) DEF WholeInv, Types, TaskType
      <4>2. QED
        BY <2>1, <2>8, <3>1, <4>1 DEF Drain, WholeInv, Types
    <3>2. CASE Drop(w, IF task[w].mode \in SyncModes THEN "panic" ELSE "idle")
      BY <2>1, <2>2, <2>8, <3>2 DEF Drain, WholeInv, Types
    <3>3. QED
      BY <2>8, <3>1, <3>2 DEF Drain
  <2> DEFINE Absent ==
        \A v \in Worker \ {w} :
           pc'[v] \notin {"lookup", "score", "write", "register"}
  <2>9. ASSUME Building(w), NEW p, Goto(w, p) PROVE Absent
    BY <2>9, <2>0, <2>b DEF Building, Stage
  <2>10. CASE NameModel(w)
    <3>1. Types' /\ task'[w].read # {}
      BY <2>10, ZenonT(60) DEF NameModel, WholeInv, Types, TaskType, coordinatorVars,
                   modelVars
    <3>2. Absent /\ pc'[w] = "lookup"
      BY <2>9, <2>10, <2>c DEF NameModel, Building, Stage
    <3>3. QED
      BY <2>10, <3>1, <3>2 DEF NameModel, WholeInv, Progress, Held, modelVars
  <2>11. CASE Lookup(w)
    <3>1. Types' /\ UNCHANGED <<task, named, file, recency>>
      BY <2>11 DEF Lookup, WholeInv, Types, TaskType, coordinatorVars
    <3>2. Absent
      BY <2>9, <2>11 DEF Lookup, Building, Stage
    <3>3. CASE Goto(w, "finish") /\ UNCHANGED status
      BY <3>1, <3>2, <3>3, <2>c DEF WholeInv, Progress, Held
    <3>4. CASE /\ Goto(w, "score") /\ status[task[w].id] # "published"
               /\ status' = [status EXCEPT ![task[w].id] = "building"]
      <4>1. task[w].id \in Evidence
        BY DEF WholeInv, Types, TaskType
      <4>2. \A m \in Evidence :
              status'[m] = "published" <=> status[m] = "published"
        BY <3>4, <4>1 DEF WholeInv, Types
      <4>3. status'[task[w].id] = "building" /\ task[w].read # {}
        BY <2>11, <3>4, <4>1 DEF Lookup, WholeInv, Types, Progress
      <4>4. \A v \in Worker : Progress(v)'
        BY <3>1, <3>2, <3>4, <4>3, <2>c DEF Progress
      <4>5. QED
        BY <3>1, <4>2, <4>4 DEF WholeInv, Held
    <3>5. task[w].id \in Evidence
      BY DEF WholeInv, Types, TaskType
    <3>6. status[task[w].id] = "published" => file[task[w].id] # {}
      BY <3>5 DEF WholeInv, Held
    <3>7. QED
      BY <2>11, <3>3, <3>4, <3>6 DEF Lookup
  <2>12. CASE Score(w)
    <3>1. Types'
      BY <2>12, ZenonT(60) DEF Score, WholeInv, Types, TaskType, coordinatorVars,
                   modelVars
    <3>2. task'[w].id = task[w].id /\ task'[w].read # {}
      BY <2>12 DEF Score, WholeInv, Types, TaskType, Progress
    <3>3. Absent /\ pc'[w] = "write"
      BY <2>9, <2>12, <2>c DEF Score, Building, Stage
    <3>4. QED
      BY <2>12, <3>1, <3>2, <3>3
         DEF Score, WholeInv, Progress, Held, modelVars
  <2>13. CASE PublishFile(w)
    <3>1. Types' /\ UNCHANGED <<task, named, status, recency>>
      BY <2>13 DEF PublishFile, WholeInv, Types, TaskType, coordinatorVars
    <3>2. Absent /\ pc'[w] = "register"
      BY <2>9, <2>13, <2>c DEF PublishFile, Building, Stage
    <3>3. /\ file'[task[w].id] # {}
          /\ \A m \in Evidence : file[m] # {} => file'[m] # {}
      BY <2>13 DEF PublishFile, WholeInv, Types, TaskType, Progress
    <3>4. status[task[w].id] = "building"
      BY <2>13 DEF PublishFile, WholeInv, Progress
    <3>5. QED
      BY <3>1, <3>2, <3>3, <3>4 DEF WholeInv, Progress, Held
  <2>14. CASE Register(w)
    <3>1. task[w].id \in Evidence /\ file[task[w].id] # {}
      BY <2>14 DEF Register, WholeInv, Types, TaskType, Progress
    <3>2. Types' /\ UNCHANGED file
      BY <2>14, <3>1 DEF Register, WholeInv, Types, coordinatorVars
    <3>3. Absent /\ pc'[w] = "prune"
      BY <2>9, <2>14, <2>c DEF Register, Building, Stage
    <3>4. \A m \in Evidence : status'[m] = "published" <=> m = task[w].id
      BY <2>14, <3>1 DEF Register
    <3>5. task[w].id \in named'
      BY <2>14 DEF Register
    <3>6. \A m \in Evidence : status'[m] = "published" => Held(m)'
      BY <3>1, <3>2, <3>4, <3>5 DEF Held
    <3>7. \A v \in Worker : Progress(v)'
      BY <3>1, <3>3, <3>4 DEF Progress
    <3>8. QED
      BY <3>1, <3>2, <3>4, <3>6, <3>7 DEF WholeInv
  <2>15. CASE PruneSnapshots(w)
    <3>1. PICK gone \in SUBSET Candidates, swept \in SUBSET Unregistered :
            /\ file' = [m \in Evidence |->
                         IF (m \in gone /\ m \in named) \/ m \in swept THEN {}
                         ELSE file[m]]
            /\ status' = [m \in Evidence |-> IF m \in gone THEN "absent"
                                             ELSE status[m]]
            /\ named' = named \ gone
      BY <2>15 DEF PruneSnapshots
    <3>2. Types'
      BY <2>15, <3>1 DEF PruneSnapshots, WholeInv, Types, TaskType,
                         coordinatorVars
    <3>3. Absent /\ pc'[w] = "finish"
      BY <2>9, <2>15, <2>c DEF PruneSnapshots, Building, Stage
    <3>4. \A m \in Evidence : status[m] = "published" =>
            m \notin gone /\ m \notin swept
      BY DEF Candidates, Abandoned, Unregistered, WholeInv, Held
    <3>5. \A m \in Evidence : status[m] = "published" =>
            status'[m] = "published" /\ file'[m] = file[m] /\ m \in named'
      BY <3>1, <3>4 DEF WholeInv, Held
    <3>6. \A m \in Evidence : status'[m] = "published" =>
            status[m] = "published"
      BY <3>1
    <3>7. \A v \in Worker : Progress(v)'
      BY <3>3 DEF Progress
    <3>8. QED
      BY <3>2, <3>5, <3>6, <3>7 DEF WholeInv, Held
  <2>16. CASE BuildFails(w)
    <3>1. Types' /\ UNCHANGED <<named, recency>>
      BY <2>16 DEF BuildFails, WholeInv, Types, TaskType, coordinatorVars
    <3>2. Absent /\ pc'[w] = "report"
      BY <2>9, <2>16, <2>c DEF BuildFails, Building, Stage
    <3>3. pc[w] = "write" => status[task[w].id] = "building"
      BY DEF WholeInv, Progress
    <3>4. \A m \in Evidence : status'[m] = "published" <=>
                              status[m] = "published"
      BY <2>16 DEF BuildFails, WholeInv, Types
    <3>5. \A m \in Evidence : status[m] = "published" => file'[m] = file[m]
      BY <2>16, <3>3 DEF BuildFails, WholeInv, Types
    <3>6. \A v \in Worker : Progress(v)'
      BY <3>2 DEF Progress
    <3>7. QED
      BY <3>1, <3>4, <3>5, <3>6 DEF WholeInv, Held
  <2>17. QED
    BY <1>2, <2>3, <2>4, <2>5, <2>6, <2>7, <2>8, <2>10, <2>11, <2>12, <2>13,
       <2>14, <2>15, <2>16 DEF WorkerNext
<1>3. QED
  BY <1>1, <1>2 DEF Next

\* The initial state.
LEMMA WholeInit == Init => WholeInv
<1> SUFFICES ASSUME Init PROVE WholeInv
  OBVIOUS
<1>1. OneBuilderInv
  BY DEF Init, OneBuilderInv, OneBuilder, Tracked, Building, PcState, Stage
<1>2. Types
  BY NoTaskType, ModelUpdatesAssumptions DEF Init, Types, Evidence
<1>3. QED
  BY <1>1, <1>2 DEF Init, WholeInv, Progress, Held

-----------------------------------------------------------------------------
(***************************************************************************)
(* Availability.  Once there was a publication there is a published row;   *)
(* whoever prunes has just published.                                      *)
(***************************************************************************)
HasModel == \E m \in Evidence : status[m] = "published"

AvailableInv ==
  /\ WholeInv
  /\ \A w \in Worker : pc[w] = "prune" => HasModel
  /\ recency # <<>> => HasModel

LEMMA AvailableStep ==
  ASSUME "force-build" \notin Mode
  PROVE  AvailableInv /\ [Next]_vars => AvailableInv'
<1> SUFFICES ASSUME AvailableInv, [Next]_vars PROVE AvailableInv'
  OBVIOUS
<1>0. WholeInv'
  BY WholeStep DEF AvailableInv
<1>a. \A w \in Worker : \A p :
        Goto(w, p) => \A v \in Worker : pc'[v] = IF v = w THEN p ELSE pc[v]
  BY DEF Goto, AvailableInv, WholeInv, OneBuilderInv
<1>1. ASSUME HasModel => HasModel', recency' = recency,
             \A v \in Worker : pc'[v] = "prune" => pc[v] = "prune"
      PROVE  AvailableInv'
  BY <1>0, <1>1 DEF AvailableInv
<1>2. CASE UNCHANGED vars \/ Feedback \/ Recover \/ OrphanGoesStale \/ SixHoursPass
  <2>1. UNCHANGED <<status, recency, pc>>
    BY <1>2 DEF vars, modelVars, Feedback, Recover, OrphanGoesStale, SixHoursPass
  <2>2. QED
    BY <1>1, <2>1 DEF HasModel
<1>3. ASSUME NEW w \in Worker, WorkerNext(w) PROVE AvailableInv'
  <2>1. CASE Register(w)
    <3>1. task[w].id \in Evidence
      BY DEF AvailableInv, WholeInv, Types, TaskType
    <3>2. HasModel'
      BY <2>1, <3>1 DEF Register, HasModel
    <3>3. QED
      BY <1>0, <3>2 DEF AvailableInv
  <2>2. CASE PruneSnapshots(w)
    <3>1. HasModel
      BY <2>2 DEF PruneSnapshots, AvailableInv
    <3>2. PICK gone \in SUBSET Candidates :
            status' = [m \in Evidence |-> IF m \in gone THEN "absent" ELSE status[m]]
      BY <2>2 DEF PruneSnapshots
    <3>3. \A m \in Evidence : status[m] = "published" => m \notin gone
      BY DEF Candidates, Abandoned
    <3>4. HasModel'
      BY <3>1, <3>2, <3>3 DEF HasModel
    <3>5. QED
      BY <1>0, <3>4 DEF AvailableInv
  <2>3. CASE RequestBuild(w)
    <3>1. task[w].mode # "force-build"
      BY DEF AvailableInv, WholeInv, Types, TaskType
    <3>2. status' = status
      BY <2>3, <3>1 DEF RequestBuild, AvailableInv, WholeInv, Types
    <3>3. QED
      BY <1>1, <1>a, <2>3, <3>2 DEF RequestBuild, HasModel
  <2>4. CASE Lookup(w)
    <3>1. \A v \in Worker : pc'[v] = "prune" => pc[v] = "prune"
      BY <1>a, <2>4 DEF Lookup
    <3>2. task[w].id \in Evidence /\ (status[task[w].id] = "published" => file[task[w].id] # {})
      BY DEF AvailableInv, WholeInv, Types, TaskType, Held
    <3>3. \A m \in Evidence : status[m] = "published" => status'[m] = "published"
      BY <2>4, <3>2 DEF Lookup, AvailableInv, WholeInv, Types
    <3>4. QED
      BY <1>1, <2>4, <3>1, <3>3 DEF Lookup, HasModel
  <2>5. CASE BuildFails(w)
    <3>1. \A m \in Evidence : status[m] = "published" => status'[m] = "published"
      BY <2>5 DEF BuildFails, AvailableInv, WholeInv, Types
    <3>2. QED
      BY <1>1, <1>a, <2>5, <3>1 DEF BuildFails, HasModel
  <2>6. CASE \/ DaemonStart(w) \/ (\E m \in Mode : Claim(w, m)) \/ Sync(w) \/ RequestSync(w)
             \/ Drain(w) \/ NameModel(w) \/ Score(w) \/ PublishFile(w) \/ Finish(w)
             \/ JobEnds(w) \/ ReportError(w) \/ Panics(w) \/ Crash(w) \/ CancelStops(w)
    <3>1. UNCHANGED <<status, recency>>
      BY <2>6 DEF DaemonStart, Claim, Sync, RequestSync, Drain, NameModel, Score, PublishFile,
                  Finish, JobEnds, ReportError, Panics, Crash, CancelStops, Dies, modelVars
    <3>2. \E p \in PcState \ {"prune"} : Goto(w, p)
      BY <2>6 DEF DaemonStart, Claim, Sync, RequestSync, Drain, NameModel, Score, PublishFile,
                  Finish, JobEnds, ReportError, Panics, Crash, CancelStops, Dies, Drop, PcState, Stage
    <3>3. QED
      BY <1>1, <1>a, <3>1, <3>2 DEF HasModel
  <2>7. QED
    BY <1>3, <2>1, <2>2, <2>3, <2>4, <2>5, <2>6 DEF WorkerNext
<1>4. QED
  BY <1>2, <1>3 DEF Next

\* Where nobody forces a build, readers find a published model with its
\* artifact in place at every moment after the first publication: builds that
\* fail, die, are cancelled or pruned never take it away.
THEOREM ModelStaysAvailable ==
  "force-build" \notin Mode => (Spec => []ModelAvailable)
<1> SUFFICES ASSUME "force-build" \notin Mode PROVE Spec => []ModelAvailable
  OBVIOUS
<1>1. Init => AvailableInv
  BY WholeInit DEF Init, AvailableInv
<1>2. AvailableInv => ModelAvailable
  BY DEF AvailableInv, WholeInv, HasModel, ModelAvailable, Held
<1>3. AvailableInv /\ [Next]_vars => AvailableInv'
  BY AvailableStep
<1>4. QED
  BY <1>1, <1>2, <1>3, PTL DEF Spec

-----------------------------------------------------------------------------
(***************************************************************************)
(* Freshness.  A file was computed from evidence between the one its model *)
(* is named after and the present one, and while nobody asks for more than *)
(* the builder builds, and no sync has moved on silently, the present one  *)
(* is the one it is named after.  Rows change only at the hands of the     *)
(* builder, who has something to publish yet, so that nothing happens to a *)
(* coordinator that is clean.                                              *)
(***************************************************************************)
Matched(w) == task[w].gen = requested /\ ~silent

UpToDate(w) ==
  /\ Building(w) => published < task[w].gen /\ task[w].gen <= requested
  /\ task[w].id <= evidence /\ task[w].read \subseteq task[w].id..evidence
  /\ pc[w] \in {"lookup", "score", "write", "register"} /\ Matched(w) => task[w].id = evidence
  /\ pc[w] \in {"prune", "finish"} /\ Matched(w) =>
       \A m \in Evidence : status[m] = "published" => m = evidence

FreshInv ==
  /\ WholeInv
  /\ published \in Nat /\ published <= requested
  /\ \A m \in Evidence : file[m] \subseteq m..evidence
  /\ \A m, n \in Evidence : status[m] = "published" /\ status[n] = "published" => m = n
  /\ \A w \in Worker : UpToDate(w)
  /\ FreshWhenClean

\* While somebody builds, the coordinator is not clean.
LEMMA BuilderHasWork == ASSUME FreshInv, NEW w \in Worker, Building(w) PROVE requested # published
  BY DEF FreshInv, WholeInv, Types, TaskType, UpToDate

\* A step that leaves the models alone, and the tasks of those who build on:
\* it may ask for a generation, or let a sync move on.
LEMMA FreshElsewhere ==
  ASSUME FreshInv, WholeInv', UNCHANGED <<file, published>>,
         evidence' \in Nat, evidence <= evidence', requested' \in Nat, requested <= requested',
         evidence' # evidence => requested' > requested \/ silent',
         requested' = requested => (silent => silent'),
         \A m \in Evidence : status'[m] = "published" => status[m] = "published",
         \A w \in Worker :
            \/ pc'[w] = pc[w] /\ task'[w] = task[w]
            \/ /\ pc'[w] \notin Stage \ {"features", "report"}
               /\ Building(w)' => published < task'[w].gen /\ task'[w].gen <= requested'
               /\ task'[w].id <= evidence' /\ task'[w].read \subseteq task'[w].id..evidence'
  PROVE  FreshInv'
<1>0. /\ evidence \in Nat /\ requested \in Nat /\ published \in Nat
      /\ \A w \in Worker : task[w].gen \in Nat /\ task[w].id \in Nat
  BY ModelUpdatesAssumptions DEF FreshInv, WholeInv, Types, TaskType, Evidence
<1>1. \A a \in Nat : a..evidence \subseteq a..evidence'
  BY <1>0
<1>2. Evidence \subseteq Nat
  BY ModelUpdatesAssumptions DEF Evidence
<1>3. \A m \in Evidence : file'[m] \subseteq m..evidence'
  BY <1>1, <1>2 DEF FreshInv
<1>4. \A w \in Worker : UpToDate(w)'
  <2> SUFFICES ASSUME NEW w \in Worker PROVE UpToDate(w)'
    OBVIOUS
  <2>1. CASE pc'[w] = pc[w] /\ task'[w] = task[w]
    <3>1. Matched(w)' /\ task[w].gen <= requested => Matched(w) /\ evidence' = evidence
      BY <1>0, <2>1 DEF Matched
    <3>2. pc[w] \in {"lookup", "score", "write", "register", "prune", "finish"} => Building(w)
      BY DEF Building, Stage
    <3>3. task[w].id <= evidence' /\ task[w].read \subseteq task[w].id..evidence'
      BY <1>0, <1>1 DEF FreshInv, UpToDate
    <3>4. Building(w)' => published < task[w].gen /\ task[w].gen <= requested'
      BY <1>0, <2>1 DEF FreshInv, UpToDate, Building
    <3>5. QED
      BY <2>1, <3>1, <3>2, <3>3, <3>4 DEF FreshInv, UpToDate
  <2>2. CASE pc'[w] \notin Stage \ {"features", "report"}
    BY <2>1, <2>2 DEF UpToDate, Stage
  <2>3. QED
    BY <2>1, <2>2
<1>5. FreshWhenClean'
  BY <1>0 DEF FreshWhenClean, FreshInv
<1>6. QED
  BY <1>0, <1>3, <1>4, <1>5 DEF FreshInv

\* A step of the builder that leaves the coordinator alone and stays a build.
LEMMA FreshBuild ==
  ASSUME FreshInv, WholeInv', NEW w \in Worker, NEW p \in Stage, Building(w), Goto(w, p),
         UNCHANGED coordinatorVars, UpToDate(w)',
         \A v \in Worker \ {w} : task'[v] = task[v],
         \A m \in Evidence : file'[m] \subseteq m..evidence,
         \A m, n \in Evidence : status'[m] = "published" /\ status'[n] = "published" => m = n
  PROVE  FreshInv'
<1>1. \A v \in Worker \ {w} : pc'[v] = pc[v] /\ ~Building(v)
  BY DEF Goto, FreshInv, WholeInv, OneBuilderInv, OneBuilder
<1>2. \A v \in Worker \ {w} : UpToDate(v)'
  BY <1>1 DEF FreshInv, UpToDate, Building, Stage, coordinatorVars
<1>3. FreshWhenClean'
  BY BuilderHasWork DEF FreshWhenClean, coordinatorVars
<1>4. QED
  BY <1>2, <1>3 DEF FreshInv, coordinatorVars

LEMMA FreshStep ==
  ASSUME Revert = FALSE
  PROVE  FreshInv /\ [Next]_vars => FreshInv'
<1> SUFFICES ASSUME FreshInv, [Next]_vars PROVE FreshInv'
  OBVIOUS
<1>0. WholeInv' /\ WholeInv /\ OneBuilderInv /\ Types
  BY WholeStep DEF FreshInv, WholeInv
<1>a. /\ evidence \in Nat /\ requested \in Nat /\ published \in Nat /\ Evidence \subseteq Nat
      /\ \A w \in Worker : task[w].id \in Evidence /\ task[w].gen \in Nat
  BY <1>0, ModelUpdatesAssumptions DEF FreshInv, Types, TaskType, Evidence
<1>b. \A w \in Worker : task[w].id <= evidence /\ task[w].read \subseteq task[w].id..evidence
  BY DEF FreshInv, UpToDate
<1>c. \A w \in Worker : \A p :
        Goto(w, p) => \A v \in Worker : pc'[v] = IF v = w THEN p ELSE pc[v]
  BY <1>0 DEF Goto, OneBuilderInv
<1>d. \A e \in Evidence' : e \in Nat
  BY <1>a DEF Evidence
<1>1. CASE UNCHANGED vars \/ Recover \/ OrphanGoesStale \/ SixHoursPass
  <2>1. UNCHANGED <<file, published, evidence, requested, silent, status, pc, task>>
    BY <1>1 DEF vars, coordinatorVars, modelVars, Recover, OrphanGoesStale, SixHoursPass
  <2>2. QED
    BY <1>0, <1>a, <2>1, FreshElsewhere
<1>2. CASE Feedback
  <2>1. evidence' = evidence + 1 /\ requested' = requested + 1
    BY <1>2 DEF Feedback
  <2>2. UNCHANGED <<file, published, status, pc, task>>
    BY <1>2 DEF Feedback, modelVars
  <2>3. QED
    BY <1>0, <1>a, <2>1, <2>2, FreshElsewhere
<1>3. ASSUME NEW w \in Worker, WorkerNext(w) PROVE FreshInv'
  <2> DEFINE Apart == \A v \in Worker \ {w} : task'[v] = task[v] /\ pc'[v] = pc[v]
  <2>0. \A p : Drop(w, p) => /\ Goto(w, p)
                             /\ \A v \in Worker \ {w} : task'[v] = task[v]
                             /\ task'[w] = NoTask
    BY <1>0 DEF Drop, Types
  <2>1. CASE \/ DaemonStart(w) \/ JobEnds(w) \/ ReportError(w)
             \/ Panics(w) \/ Crash(w) \/ CancelStops(w)
    <3>1. UNCHANGED <<file, published, evidence, requested, silent, status>>
      BY <2>1 DEF DaemonStart, JobEnds, ReportError, Panics, Crash, CancelStops, Dies,
                  coordinatorVars, modelVars
    <3>2. PICK p \in {"off", "idle"} : Goto(w, p) /\ (task' = task \/ Drop(w, p))
      BY <2>1 DEF DaemonStart, JobEnds, ReportError, Panics, Crash, CancelStops, Dies, Drop
    <3>3. task'[w].id <= evidence /\ task'[w].read \subseteq task'[w].id..evidence
      BY <1>a, <1>b, <2>0, <3>2 DEF NoTask
    <3>4. Apart /\ pc'[w] = p
      BY <1>c, <2>0, <3>2
    <3>5. QED
      BY <1>0, <1>a, <3>1, <3>3, <3>4, FreshElsewhere DEF Building, Stage
  <2>2. CASE (\E m \in Mode : Claim(w, m)) \/ Sync(w) \/ RequestBuild(w) \/ RequestSync(w)
    <3>1. PICK p \in {"drain", "sync", "request", "lanes"} : Goto(w, p)
      BY <2>2 DEF Claim, Sync, RequestBuild, RequestSync
    <3>2. /\ Apart /\ pc'[w] = p
          /\ task'[w].id = task[w].id /\ task'[w].read = task[w].read
      BY <1>0, <1>c, <2>2, <3>1 DEF Claim, Sync, RequestBuild, RequestSync, Types, TaskType
    <3>3. /\ UNCHANGED <<file, published>>
          /\ \A m \in Evidence : status'[m] = "published" => status[m] = "published"
      BY <2>2 DEF Claim, Sync, RequestBuild, RequestSync, coordinatorVars, modelVars
    <3>4. /\ evidence' \in {evidence, evidence + 1} /\ requested' \in {requested, requested + 1}
          /\ evidence' # evidence => silent'
          /\ requested' = requested => (silent => silent')
      <4>1. CASE \E m \in Mode : Claim(w, m)
        BY <1>a, <4>1 DEF Claim, coordinatorVars
      <4>2. CASE Sync(w)
        BY <1>a, <4>2 DEF Sync
      <4>3. CASE RequestBuild(w)
        BY <1>a, <4>3 DEF RequestBuild
      <4>4. CASE RequestSync(w)
        BY <1>a, <4>4 DEF RequestSync
      <4>5. QED
        BY <2>2, <4>1, <4>2, <4>3, <4>4
    <3>5. task'[w].id <= evidence' /\ task'[w].read \subseteq task'[w].id..evidence'
      <4>1. \A a \in Nat : a <= evidence => a <= evidence' /\ a..evidence \subseteq a..evidence'
        BY <1>a, <3>4
      <4>2. QED
        BY <1>a, <1>b, <3>2, <4>1
    <3>6. QED
      BY <1>0, <1>a, <3>2, <3>3, <3>4, <3>5, FreshElsewhere DEF Building, Stage
  <2>3. CASE Drain(w)
    <3>1. UNCHANGED <<file, published, evidence, requested, silent, status>>
      BY <2>3 DEF Drain, coordinatorVars, modelVars
    <3>2. CASE CanStart /\ task' = [task EXCEPT ![w].gen = requested] /\ Goto(w, "features")
      <4>1. /\ Apart /\ pc'[w] = "features" /\ task'[w].gen = requested
            /\ task'[w].id = task[w].id /\ task'[w].read = task[w].read
        BY <1>0, <1>c, <3>2 DEF Types, TaskType
      <4>2. published < requested
        BY <1>a, <3>2 DEF CanStart
      <4>3. QED
        BY <1>0, <1>a, <1>b, <3>1, <4>1, <4>2, FreshElsewhere DEF Building, Stage
    <3>3. ASSUME NEW p \in {"panic", "idle"}, Drop(w, p) PROVE FreshInv'
      <4>1. Apart /\ pc'[w] = p /\ task'[w] = NoTask
        BY <1>c, <2>0, <3>3
      <4>2. NoTask.id <= evidence /\ NoTask.read \subseteq NoTask.id..evidence
        BY <1>a DEF NoTask
      <4>3. QED
        BY <1>0, <1>a, <3>1, <4>1, <4>2, FreshElsewhere DEF Building, Stage
    <3>4. QED
      BY <2>3, <3>2, <3>3 DEF Drain
  <2>4. CASE NameModel(w)
    <3>1. UNCHANGED <<coordinatorVars, modelVars>> /\ Building(w)
      BY <2>4 DEF NameModel, Building, Stage
    <3>2. Goto(w, "lookup") /\ pc'[w] = "lookup"
      BY <1>c, <2>4 DEF NameModel
    <3>3. /\ \A v \in Worker \ {w} : task'[v] = task[v]
          /\ task'[w].gen = task[w].gen /\ task'[w].id = evidence /\ task'[w].read = {evidence}
      BY <1>0, <2>4 DEF NameModel, Types, TaskType
    <3>4. UpToDate(w)'
      BY <1>a, <3>1, <3>2, <3>3 DEF FreshInv, UpToDate, Building, coordinatorVars
    <3>5. QED
      BY <1>0, <3>1, <3>2, <3>3, <3>4, FreshBuild DEF Stage, FreshInv, modelVars, coordinatorVars
  <2>5. CASE Score(w)
    <3>1. UNCHANGED <<coordinatorVars, modelVars>> /\ Building(w)
      BY <2>5 DEF Score, Building, Stage
    <3>2. Goto(w, "write") /\ pc'[w] = "write"
      BY <1>c, <2>5 DEF Score
    <3>3. /\ \A v \in Worker \ {w} : task'[v] = task[v]
          /\ task'[w].gen = task[w].gen /\ task'[w].id = task[w].id
          /\ task'[w].read = task[w].read \union {evidence}
      BY <1>0, <2>5 DEF Score, Types, TaskType
    <3>4. evidence \in task[w].id..evidence
      BY <1>a, <1>b
    <3>5. UpToDate(w)'
      BY <1>a, <2>5, <3>1, <3>2, <3>3, <3>4
         DEF Score, FreshInv, UpToDate, Matched, Building, coordinatorVars
    <3>6. QED
      BY <1>0, <3>1, <3>2, <3>3, <3>5, FreshBuild DEF Stage, FreshInv, modelVars, coordinatorVars
  <2>6. CASE PublishFile(w)
    <3>1. UNCHANGED <<coordinatorVars, status, task>> /\ Building(w)
      BY <2>6 DEF PublishFile, Building, Stage
    <3>2. Goto(w, "register") /\ pc'[w] = "register"
      BY <1>c, <2>6 DEF PublishFile
    <3>3. \A m \in Evidence : file'[m] = IF m = task[w].id THEN task[w].read ELSE file[m]
      BY <1>0, <2>6 DEF PublishFile, Types
    <3>4. \A m \in Evidence : file'[m] \subseteq m..evidence
      BY <1>b, <3>3 DEF FreshInv
    <3>5. UpToDate(w)'
      BY <2>6, <3>1, <3>2 DEF PublishFile, FreshInv, UpToDate, Matched, Building, coordinatorVars
    <3>6. QED
      BY <1>0, <3>1, <3>2, <3>4, <3>5, FreshBuild DEF Stage, FreshInv
  <2>7. CASE Lookup(w)
    <3>1. UNCHANGED <<coordinatorVars, file, task>> /\ Building(w)
      BY <2>7 DEF Lookup, Building, Stage
    <3>2. PICK p \in {"finish", "score"} : Goto(w, p) /\ pc'[w] = p
      BY <1>c, <2>7 DEF Lookup
    <3>3. \A m \in Evidence : status'[m] = "published" => status[m] = "published"
      BY <1>0, <1>a, <2>7 DEF Lookup, Types
    <3>4. p = "finish" => status[task[w].id] = "published"
      BY <2>7, <3>2, <1>c DEF Lookup
    <3>5. UpToDate(w)'
      BY <1>a, <2>7, <3>1, <3>2, <3>3, <3>4
         DEF Lookup, FreshInv, UpToDate, Matched, Building, coordinatorVars
    <3>6. QED
      BY <1>0, <3>1, <3>2, <3>3, <3>5, FreshBuild DEF Stage, FreshInv
  <2>8. CASE Register(w)
    <3>1. UNCHANGED <<coordinatorVars, file, task>> /\ Building(w)
      BY <2>8 DEF Register, Building, Stage
    <3>2. Goto(w, "prune") /\ pc'[w] = "prune"
      BY <1>c, <2>8 DEF Register
    <3>3. \A m \in Evidence : status'[m] = "published" <=> m = task[w].id
      BY <2>8 DEF Register
    <3>4. UpToDate(w)'
      BY <1>a, <2>8, <3>1, <3>2, <3>3
         DEF Register, FreshInv, UpToDate, Matched, Building, coordinatorVars
    <3>5. QED
      BY <1>0, <3>1, <3>2, <3>3, <3>4, FreshBuild DEF Stage, FreshInv
  <2>9. CASE PruneSnapshots(w) \/ BuildFails(w)
    <3>1. UNCHANGED <<coordinatorVars, task>> /\ Building(w)
      BY <2>9 DEF PruneSnapshots, BuildFails, Building, Stage
    <3>2. PICK p \in {"finish", "report"} : /\ Goto(w, p) /\ pc'[w] = p
                                            /\ p = "finish" => pc[w] = "prune"
      <4>1. CASE PruneSnapshots(w)
        BY <1>c, <4>1 DEF PruneSnapshots
      <4>2. CASE BuildFails(w)
        BY <1>c, <4>2 DEF BuildFails
      <4>3. QED
        BY <2>9, <4>1, <4>2
    <3>3. /\ \A m \in Evidence : file'[m] \subseteq file[m]
          /\ \A m \in Evidence : status'[m] = "published" => status[m] = "published"
      <4>1. CASE PruneSnapshots(w)
        BY <4>1 DEF PruneSnapshots
      <4>2. CASE BuildFails(w)
        BY <1>0, <4>2 DEF BuildFails, Types
      <4>3. QED
        BY <2>9, <4>1, <4>2
    <3>4. UpToDate(w)'
      BY <3>1, <3>2, <3>3 DEF FreshInv, UpToDate, Matched, Building, coordinatorVars
    <3>5. \A m \in Evidence : file'[m] \subseteq m..evidence
      BY <3>3 DEF FreshInv
    <3>6. QED
      BY <1>0, <3>1, <3>2, <3>3, <3>4, <3>5, FreshBuild DEF Stage, FreshInv
  <2>10. CASE Finish(w)
    <3>1. /\ UNCHANGED <<evidence, requested, silent, modelVars>>
          /\ published' = task[w].gen /\ Building(w)
      BY <2>10 DEF Finish, Building, Stage
    <3>2. Drop(w, "lanes") /\ Goto(w, "lanes")
      BY <2>0, <2>10 DEF Finish
    <3>3. Apart /\ pc'[w] = "lanes" /\ task'[w] = NoTask
      BY <1>c, <2>0, <3>2
    <3>4. \A v \in Worker : ~Building(v)'
      BY <1>0, <3>1, <3>3 DEF OneBuilderInv, OneBuilder, Building, Stage
    <3>5. \A v \in Worker : UpToDate(v)'
      <4>1. \A v \in Worker : task'[v].id <= evidence /\ task'[v].read \subseteq task'[v].id..evidence
        BY <1>a, <1>b, <3>3 DEF NoTask
      <4>2. QED
        BY <3>1, <3>4, <4>1 DEF UpToDate, Building, Stage
    <3>6. task[w].gen \in Nat /\ task[w].gen <= requested
      BY <1>a, <3>1 DEF FreshInv, UpToDate
    <3>7. FreshWhenClean'
      <4> SUFFICES ASSUME requested = task[w].gen, ~silent,
                          NEW m \in Evidence, status[m] = "published"
                   PROVE  file[m] = {evidence}
        BY <3>1 DEF FreshWhenClean, modelVars
      <4>1. m = evidence
        BY <2>10 DEF Finish, FreshInv, UpToDate, Matched
      <4>2. file[m] # {} /\ file[m] \subseteq evidence..evidence
        BY <1>0, <4>1 DEF WholeInv, Held, FreshInv
      <4>3. QED
        BY <1>a, <4>2
    <3>8. QED
      BY <1>0, <3>1, <3>5, <3>6, <3>7 DEF FreshInv, modelVars
  <2>11. QED
    BY <1>3, <2>1, <2>2, <2>3, <2>4, <2>5, <2>6, <2>7, <2>8, <2>9, <2>10 DEF WorkerNext
<1>4. QED
  BY <1>1, <1>2, <1>3 DEF Next

\* Where feedback never restores what the sidecar said before, a coordinator
\* without pending work means a fresh model: the published one was computed
\* from what the sidecar says, whoever asked, synced, built, failed or died,
\* forced builds included.
THEOREM CleanMeansFresh ==
  Revert = FALSE => (Spec => []FreshWhenClean)
<1> SUFFICES ASSUME Revert = FALSE PROVE Spec => []FreshWhenClean
  OBVIOUS
<1>1. Init => FreshInv
  <2> SUFFICES ASSUME Init PROVE FreshInv
    OBVIOUS
  <2>1. \A w \in Worker : UpToDate(w)
    BY DEF Init, UpToDate, Building, Stage, NoTask
  <2>2. QED
    BY <2>1, WholeInit DEF Init, FreshInv, FreshWhenClean
<1>2. FreshInv => FreshWhenClean
  BY DEF FreshInv
<1>3. FreshInv /\ [Next]_vars => FreshInv'
  BY FreshStep
<1>4. QED
  BY <1>1, <1>2, <1>3, PTL DEF Spec

-----------------------------------------------------------------------------
(* Daemons and the requests for them.                                      *)

Phases == {"dead", "started", "read", "free", "loop", "handing", "last", "exiting"}
Asks == [at : {"idle", "restart", "clear", "fingerprint", "list", "owner", "reuse", "state", "new", "spawn"},
         kind : {"auto", "task", "restart"}, fingerprint : Nat, stop : SUBSET Process]

TypeOKWorkers ==
  /\ installed \in Nat /\ stateFile \in Nat /\ pidFile \in Process \cup {NoPid}
  /\ phase \in [Process -> Phases]
  /\ binary \in [Process -> Nat] /\ noticed \in [Process -> Nat]
  /\ waiting \in BOOLEAN /\ ran \in BOOLEAN /\ outrun \in BOOLEAN
  /\ ask \in [Asker -> Asks]
  /\ upset \in Nat

\* Nobody knows a binary that is not installed yet, and a daemon that hands
\* over has noticed a later one than its own.
BinariesInOrder ==
  /\ \A p \in Process :
       /\ binary[p] <= installed /\ noticed[p] <= installed
       /\ phase[p] \in {"read", "free", "loop", "handing", "last", "exiting"} => binary[p] = noticed[p]
       /\ phase[p] \in {"handing", "last", "exiting"} => noticed[p] < installed
  /\ \A r \in Asker : ask[r].fingerprint <= installed

\* Who starts, or is about to, finds the state file of the installed binary.
StartsAreCurrent ==
  ~outrun =>
    /\ \A p \in Process : phase[p] = "started" => binary[p] = installed
    /\ \A p \in Process : phase[p] # "dead" /\ binary[p] = installed => stateFile = installed
    /\ \A p \in Process : phase[p] \in {"handing", "last"} => stateFile = installed
    /\ \A r \in Asker : ask[r].at = "spawn" => stateFile = installed

\* A daemon that has dropped its pid does not get it back.
LeaversOwnNothing == \A p \in Process : phase[p] \in {"last", "exiting"} => pidFile # p

\* Requests stop daemons where the code does.
StopsInOrder ==
  \A r \in Asker :
    /\ ask[r].at \notin {"clear", "owner", "reuse"} => ask[r].stop = {}
    /\ ask[r].at \in {"restart", "clear"} => ask[r].kind = "restart"

\* What a request has chosen to stop is not the installed binary's.
StopsAreStale ==
  ~outrun =>
    \A r \in Asker : \A p \in ask[r].stop :
      ask[r].kind = "restart" \/ ask[r].fingerprint # installed \/ binary[p] # installed

\* A daemon that goes on, or whose successor it has still to start.
GoesOn(p) == phase[p] \in {"started", "read", "free", "loop", "handing", "last"}
Pledged(r) == ask[r].at \notin {"idle", "state"} /\ (ask[r].kind # "task" \/ waiting)

SomebodyComes ==
  upset = 0 /\ ~outrun /\ (ran \/ waiting) =>
    (\E p \in Process : GoesOn(p)) \/ (\E r \in Asker : Pledged(r))

WorkersInv ==
  /\ TypeOKWorkers
  /\ BinariesInOrder
  /\ StartsAreCurrent
  /\ LeaversOwnNothing
  /\ StopsInOrder
  /\ StopsAreStale
  /\ SomebodyComes

LEMMA LowestIsOne ==
  ASSUME NEW S, S \subseteq Process, S # {}
  PROVE  Lowest(S) \in S
<1>1. S \subseteq Nat
  BY LifecycleAssumption
<1>2. PICK s \in S : \A r \in S : <<r, s>> \notin OpToRel(<, Nat)
  BY <1>1, NatLessThanWellFounded, WFMin
<1>3. \A r \in S : ~(r < s)
  BY <1>1, <1>2 DEF OpToRel
<1>4. \A r \in S : s <= r
  BY <1>1, <1>3
<1> QED BY <1>4 DEF Lowest

\* A request that goes on with something to stop.
LEMMA AskMovesOn ==
  ASSUME NEW e \in Asks, NEW at, NEW S
  PROVE  /\ [e EXCEPT !.at = at] =
              [at |-> at, kind |-> e.kind, fingerprint |-> e.fingerprint, stop |-> e.stop]
         /\ [e EXCEPT !.at = at, !.stop = S] =
              [at |-> at, kind |-> e.kind, fingerprint |-> e.fingerprint, stop |-> S]
<1>1. DOMAIN e = {"at", "kind", "fingerprint", "stop"}
  BY DEF Asks
<1>2. e = [at |-> e.at, kind |-> e.kind, fingerprint |-> e.fingerprint, stop |-> e.stop]
  BY DEF Asks
<1>3. [e EXCEPT !.at = at] =
        [at |-> at, kind |-> e.kind, fingerprint |-> e.fingerprint, stop |-> e.stop]
  BY <1>2
<1>4. [e EXCEPT !.at = at, !.stop = S] = [[e EXCEPT !.at = at] EXCEPT !.stop = S]
  OBVIOUS
<1>5. ASSUME NEW f, f = [at |-> at, kind |-> e.kind, fingerprint |-> e.fingerprint, stop |-> e.stop]
      PROVE  [f EXCEPT !.stop = S] =
               [at |-> at, kind |-> e.kind, fingerprint |-> e.fingerprint, stop |-> S]
  BY <1>5
<1>6. [[e EXCEPT !.at = at] EXCEPT !.stop = S] =
        [at |-> at, kind |-> e.kind, fingerprint |-> e.fingerprint, stop |-> S]
  BY <1>3, <1>5
<1> QED BY <1>3, <1>4, <1>6

LEMMA WorkersInit == InitWorkers => WorkersInv
<1> SUFFICES ASSUME InitWorkers PROVE WorkersInv
  OBVIOUS
<1>1. Unasked \in Asks /\ Unasked.at = "idle" /\ Unasked.stop = {} /\ Unasked.fingerprint = 0
  BY DEF Unasked, Asks
<1>2. \A r \in Asker : ask[r] = Unasked
  BY DEF InitWorkers
<1>3. TypeOKWorkers
  <2>1. NoState \in Nat
    <3>1. MaxUpdates \in Nat
      BY LifecycleAssumption
    <3> QED BY <3>1 DEF NoState
  <2> QED BY <1>1, <2>1 DEF InitWorkers, TypeOKWorkers, Phases, NoPid
<1> QED BY <1>1, <1>2, <1>3 DEF InitWorkers, WorkersInv, BinariesInOrder, StartsAreCurrent,
        LeaversOwnNothing, StopsInOrder, StopsAreStale, SomebodyComes

LEMMA PluginUpdatedKeeps ==
  ASSUME WorkersInv, PluginUpdated
  PROVE  WorkersInv'
<1> USE LifecycleAssumption DEF WorkersInv, TypeOKWorkers, Phases, Asks, NoPid
<1>1. TypeOKWorkers'
  BY DEF PluginUpdated, Starting, daemonVars, NoState
<1>2. BinariesInOrder'
  BY DEF PluginUpdated, Starting, daemonVars, BinariesInOrder
<1>3. StartsAreCurrent'
  <2> SUFFICES ASSUME ~outrun'
               PROVE  StartsAreCurrent'
    BY DEF StartsAreCurrent
  <2>1. ~Starting /\ ~outrun /\ installed' = installed + 1 /\ UNCHANGED <<stateFile, daemonVars, ask>>
    BY DEF PluginUpdated
  <2>2. /\ \A p \in Process : phase[p] \notin {"handing", "last", "started", "read", "free"}
        /\ \A r \in Asker : ask[r].at # "spawn"
    BY <2>1 DEF Starting
  <2>3. \A p \in Process : binary[p] # installed + 1
    BY DEF BinariesInOrder
  <2> QED BY <2>1, <2>2, <2>3 DEF daemonVars, StartsAreCurrent
<1>4. LeaversOwnNothing'
  BY DEF PluginUpdated, Starting, daemonVars, BinariesInOrder, LeaversOwnNothing
<1>5. StopsInOrder'
  BY DEF PluginUpdated, Starting, daemonVars, StopsInOrder
<1>6. StopsAreStale'
  BY DEF PluginUpdated, Starting, daemonVars, BinariesInOrder, StartsAreCurrent, StopsInOrder, StopsAreStale
<1>7. SomebodyComes'
  BY DEF PluginUpdated, Starting, daemonVars, BinariesInOrder, StartsAreCurrent, LeaversOwnNothing,
     StopsInOrder, SomebodyComes, GoesOn, Pledged
<1> QED BY <1>1, <1>2, <1>3, <1>4, <1>5, <1>6, <1>7

LEMMA DaemonReadsKeeps ==
  ASSUME WorkersInv, NEW p \in Process, DaemonReads(p)
  PROVE  WorkersInv'
<1> USE LifecycleAssumption DEF WorkersInv, TypeOKWorkers, Phases, Asks, NoPid
<1>1. TypeOKWorkers'
  BY DEF DaemonReads, fileVars, NoState
<1>2. BinariesInOrder'
  BY DEF DaemonReads, fileVars, BinariesInOrder
<1>3. StartsAreCurrent'
  BY DEF DaemonReads, fileVars, BinariesInOrder, StartsAreCurrent
<1>4. LeaversOwnNothing'
  BY DEF DaemonReads, fileVars, BinariesInOrder, LeaversOwnNothing
<1>5. StopsInOrder'
  BY DEF DaemonReads, fileVars, StopsInOrder
<1>6. StopsAreStale'
  BY DEF DaemonReads, fileVars, BinariesInOrder, StartsAreCurrent, StopsInOrder, StopsAreStale
<1>7. SomebodyComes'
  BY DEF DaemonReads, fileVars, BinariesInOrder, StartsAreCurrent, LeaversOwnNothing, StopsInOrder,
     SomebodyComes, GoesOn, Pledged
<1> QED BY <1>1, <1>2, <1>3, <1>4, <1>5, <1>6, <1>7

LEMMA DaemonLooksForOwnerKeeps ==
  ASSUME WorkersInv, NEW p \in Process, DaemonLooksForOwner(p)
  PROVE  WorkersInv'
<1> USE LifecycleAssumption DEF WorkersInv, TypeOKWorkers, Phases, Asks, NoPid
<1>1. TypeOKWorkers'
  BY DEF DaemonLooksForOwner, fileVars, WorkerAlive, NoState
<1>2. BinariesInOrder'
  BY DEF DaemonLooksForOwner, fileVars, WorkerAlive, BinariesInOrder
<1>3. StartsAreCurrent'
  BY DEF DaemonLooksForOwner, fileVars, WorkerAlive, BinariesInOrder, StartsAreCurrent
<1>4. LeaversOwnNothing'
  BY DEF DaemonLooksForOwner, fileVars, WorkerAlive, BinariesInOrder, LeaversOwnNothing
<1>5. StopsInOrder'
  BY DEF DaemonLooksForOwner, fileVars, WorkerAlive, StopsInOrder
<1>6. StopsAreStale'
  BY DEF DaemonLooksForOwner, fileVars, WorkerAlive, BinariesInOrder, StartsAreCurrent, StopsInOrder,
     StopsAreStale
<1>7. SomebodyComes'
  BY DEF DaemonLooksForOwner, fileVars, WorkerAlive, BinariesInOrder, StartsAreCurrent, LeaversOwnNothing,
     StopsInOrder, SomebodyComes, GoesOn, Pledged
<1> QED BY <1>1, <1>2, <1>3, <1>4, <1>5, <1>6, <1>7

LEMMA DaemonWritesPidKeeps ==
  ASSUME WorkersInv, NEW p \in Process, DaemonWritesPid(p)
  PROVE  WorkersInv'
<1> USE LifecycleAssumption DEF WorkersInv, TypeOKWorkers, Phases, Asks, NoPid
<1>1. TypeOKWorkers'
  <2>1. phase' \in [Process -> Phases]
    BY DEF DaemonWritesPid
  <2>2. upset' \in Nat
    BY DEF DaemonWritesPid, Fault
  <2>3. ran' = TRUE \/ ran' = ran
    BY DEF DaemonWritesPid
  <2>4. ran' \in BOOLEAN
    BY <2>3
  <2> QED BY <2>1, <2>2, <2>4 DEF DaemonWritesPid
<1>2. BinariesInOrder'
  BY DEF DaemonWritesPid, Fault, BinariesInOrder
<1>3. StartsAreCurrent'
  BY DEF DaemonWritesPid, Fault, BinariesInOrder, StartsAreCurrent
<1>4. LeaversOwnNothing'
  BY DEF DaemonWritesPid, Fault, BinariesInOrder, LeaversOwnNothing
<1>5. StopsInOrder'
  BY DEF DaemonWritesPid, Fault, StopsInOrder
<1>6. StopsAreStale'
  BY DEF DaemonWritesPid, Fault, BinariesInOrder, StartsAreCurrent, StopsInOrder, StopsAreStale
<1>7. SomebodyComes'
  BY DEF DaemonWritesPid, Fault, BinariesInOrder, StartsAreCurrent, LeaversOwnNothing, StopsInOrder,
     SomebodyComes, GoesOn, Pledged
<1> QED BY <1>1, <1>2, <1>3, <1>4, <1>5, <1>6, <1>7

LEMMA TakesQueuedKeeps ==
  ASSUME WorkersInv, NEW p \in Process, TakesQueued(p)
  PROVE  WorkersInv'
<1> USE LifecycleAssumption DEF WorkersInv, TypeOKWorkers, Phases, Asks, NoPid
<1>1. TypeOKWorkers'
  BY DEF TakesQueued, fileVars, daemonVars, NoState
<1>2. BinariesInOrder'
  BY DEF TakesQueued, fileVars, daemonVars, BinariesInOrder
<1>3. StartsAreCurrent'
  BY DEF TakesQueued, fileVars, daemonVars, BinariesInOrder, StartsAreCurrent
<1>4. LeaversOwnNothing'
  BY DEF TakesQueued, fileVars, daemonVars, BinariesInOrder, LeaversOwnNothing
<1>5. StopsInOrder'
  BY DEF TakesQueued, fileVars, daemonVars, StopsInOrder
<1>6. StopsAreStale'
  BY DEF TakesQueued, fileVars, daemonVars, BinariesInOrder, StartsAreCurrent, StopsInOrder, StopsAreStale
<1>7. SomebodyComes'
  BY DEF TakesQueued, fileVars, daemonVars, BinariesInOrder, StartsAreCurrent, LeaversOwnNothing,
     StopsInOrder, SomebodyComes, GoesOn, Pledged
<1> QED BY <1>1, <1>2, <1>3, <1>4, <1>5, <1>6, <1>7

LEMMA HandoverWritesStateKeeps ==
  ASSUME WorkersInv, NEW p \in Process, HandoverWritesState(p)
  PROVE  WorkersInv'
<1> USE LifecycleAssumption DEF WorkersInv, TypeOKWorkers, Phases, Asks, NoPid
<1>1. TypeOKWorkers'
  BY DEF HandoverWritesState, NoState
<1>2. BinariesInOrder'
  BY DEF HandoverWritesState, BinariesInOrder
<1>3. StartsAreCurrent'
  BY DEF HandoverWritesState, BinariesInOrder, StartsAreCurrent
<1>4. LeaversOwnNothing'
  BY DEF HandoverWritesState, BinariesInOrder, LeaversOwnNothing
<1>5. StopsInOrder'
  BY DEF HandoverWritesState, StopsInOrder
<1>6. StopsAreStale'
  BY DEF HandoverWritesState, BinariesInOrder, StartsAreCurrent, StopsInOrder, StopsAreStale
<1>7. SomebodyComes'
  BY DEF HandoverWritesState, BinariesInOrder, StartsAreCurrent, LeaversOwnNothing, StopsInOrder,
     SomebodyComes, GoesOn, Pledged
<1> QED BY <1>1, <1>2, <1>3, <1>4, <1>5, <1>6, <1>7

LEMMA HandoverDropsPidKeeps ==
  ASSUME WorkersInv, NEW p \in Process, HandoverDropsPid(p)
  PROVE  WorkersInv'
<1> USE LifecycleAssumption DEF WorkersInv, TypeOKWorkers, Phases, Asks, NoPid
<1>1. TypeOKWorkers'
  BY DEF HandoverDropsPid, RemoveWorkerPidIfOwned, NoState
<1>2. BinariesInOrder'
  BY DEF HandoverDropsPid, RemoveWorkerPidIfOwned, BinariesInOrder
<1>3. StartsAreCurrent'
  BY DEF HandoverDropsPid, RemoveWorkerPidIfOwned, BinariesInOrder, StartsAreCurrent
<1>4. LeaversOwnNothing'
  BY DEF HandoverDropsPid, RemoveWorkerPidIfOwned, BinariesInOrder, LeaversOwnNothing
<1>5. StopsInOrder'
  BY DEF HandoverDropsPid, RemoveWorkerPidIfOwned, StopsInOrder
<1>6. StopsAreStale'
  BY DEF HandoverDropsPid, RemoveWorkerPidIfOwned, BinariesInOrder, StartsAreCurrent, StopsInOrder,
     StopsAreStale
<1>7. SomebodyComes'
  BY DEF HandoverDropsPid, RemoveWorkerPidIfOwned, BinariesInOrder, StartsAreCurrent, LeaversOwnNothing,
     StopsInOrder, SomebodyComes, GoesOn, Pledged
<1> QED BY <1>1, <1>2, <1>3, <1>4, <1>5, <1>6, <1>7

LEMMA HandoverSpawnsKeeps ==
  ASSUME WorkersInv, NEW p \in Process, HandoverSpawns(p)
  PROVE  WorkersInv'
<1> USE LifecycleAssumption DEF WorkersInv, TypeOKWorkers, Phases, Asks, NoPid
<1>1. TypeOKWorkers'
  BY LowestIsOne DEF HandoverSpawns, fileVars, FreeProcesses, WorkerAlive, Targets, NoState
<1>2. BinariesInOrder'
  BY LowestIsOne DEF HandoverSpawns, fileVars, FreeProcesses, WorkerAlive, Targets, BinariesInOrder
<1>3. StartsAreCurrent'
  BY LowestIsOne DEF HandoverSpawns, fileVars, FreeProcesses, WorkerAlive, Targets, BinariesInOrder,
     StartsAreCurrent
<1>4. LeaversOwnNothing'
  BY LowestIsOne DEF HandoverSpawns, fileVars, FreeProcesses, WorkerAlive, Targets, BinariesInOrder,
     LeaversOwnNothing
<1>5. StopsInOrder'
  BY LowestIsOne DEF HandoverSpawns, fileVars, FreeProcesses, WorkerAlive, Targets, StopsInOrder
<1>6. Lowest(FreeProcesses) \in FreeProcesses
  BY LowestIsOne DEF HandoverSpawns, FreeProcesses
<1>7. StopsAreStale'
  <2>1. \A r \in Asker : ask[r].stop \subseteq Targets
    BY DEF Targets
  <2>2. \A r \in Asker : ask[r].stop \subseteq Process
    OBVIOUS
  <2>3. /\ \A q \in Process \ {Lowest(FreeProcesses)} : binary'[q] = binary[q]
        /\ ask' = ask /\ outrun' = outrun /\ installed' = installed
    BY DEF HandoverSpawns, fileVars
  <2>4. Lowest(FreeProcesses) \notin Targets
    BY <1>6 DEF FreeProcesses
  <2> QED BY <2>1, <2>3, <2>2, <2>4 DEF StopsAreStale
<1>8. SomebodyComes'
  <2>1. Lowest(FreeProcesses) \in Process /\ phase[Lowest(FreeProcesses)] = "dead"
    BY <1>6 DEF FreeProcesses, WorkerAlive
  <2>2. phase'[Lowest(FreeProcesses)] = "started"
    BY <2>1 DEF HandoverSpawns
  <2> QED BY <2>1, <2>2 DEF SomebodyComes, GoesOn
<1> QED BY <1>1, <1>2, <1>3, <1>4, <1>5, <1>7, <1>8

LEMMA HandoverExitsKeeps ==
  ASSUME WorkersInv, NEW p \in Process, HandoverExits(p)
  PROVE  WorkersInv'
<1> USE LifecycleAssumption DEF WorkersInv, TypeOKWorkers, Phases, Asks, NoPid
<1>1. TypeOKWorkers'
  BY DEF HandoverExits, RemoveWorkerPidIfOwned, NoState
<1>2. BinariesInOrder'
  BY DEF HandoverExits, RemoveWorkerPidIfOwned, BinariesInOrder
<1>3. StartsAreCurrent'
  BY DEF HandoverExits, RemoveWorkerPidIfOwned, BinariesInOrder, StartsAreCurrent
<1>4. LeaversOwnNothing'
  BY DEF HandoverExits, RemoveWorkerPidIfOwned, BinariesInOrder, LeaversOwnNothing
<1>5. StopsInOrder'
  BY DEF HandoverExits, RemoveWorkerPidIfOwned, StopsInOrder
<1>6. StopsAreStale'
  BY DEF HandoverExits, RemoveWorkerPidIfOwned, BinariesInOrder, StartsAreCurrent, StopsInOrder, StopsAreStale
<1>7. SomebodyComes'
  BY DEF HandoverExits, RemoveWorkerPidIfOwned, BinariesInOrder, StartsAreCurrent, LeaversOwnNothing,
     StopsInOrder, SomebodyComes, GoesOn, Pledged
<1> QED BY <1>1, <1>2, <1>3, <1>4, <1>5, <1>6, <1>7

LEMMA DaemonDiesKeeps ==
  ASSUME WorkersInv, NEW p \in Process, DaemonDies(p)
  PROVE  WorkersInv'
<1> USE LifecycleAssumption DEF WorkersInv, TypeOKWorkers, Phases, Asks, NoPid
<1>1. TypeOKWorkers'
  BY DEF DaemonDies, Fault, fileVars, WorkerAlive, NoState
<1>2. BinariesInOrder'
  BY DEF DaemonDies, Fault, fileVars, WorkerAlive, BinariesInOrder
<1>3. StartsAreCurrent'
  BY DEF DaemonDies, Fault, fileVars, WorkerAlive, BinariesInOrder, StartsAreCurrent
<1>4. LeaversOwnNothing'
  BY DEF DaemonDies, Fault, fileVars, WorkerAlive, BinariesInOrder, LeaversOwnNothing
<1>5. StopsInOrder'
  BY DEF DaemonDies, Fault, fileVars, WorkerAlive, StopsInOrder
<1>6. StopsAreStale'
  BY DEF DaemonDies, Fault, fileVars, WorkerAlive, BinariesInOrder, StartsAreCurrent, StopsInOrder,
     StopsAreStale
<1>7. SomebodyComes'
  BY DEF DaemonDies, Fault, fileVars, WorkerAlive, BinariesInOrder, StartsAreCurrent, LeaversOwnNothing,
     StopsInOrder, SomebodyComes, GoesOn, Pledged
<1> QED BY <1>1, <1>2, <1>3, <1>4, <1>5, <1>6, <1>7

LEMMA AskForWorkerKeeps ==
  ASSUME WorkersInv, NEW r \in Asker, NEW kind \in {"auto", "task", "restart"}, AskForWorker(r, kind)
  PROVE  WorkersInv'
<1>0. \A q \in Asker \ {r} : ask'[q] = ask[q]
  BY DEF AskForWorker, Continue, WorkersInv, TypeOKWorkers
<1>1. TypeOKWorkers'
  BY <1>0, LifecycleAssumption DEF AskForWorker, fileVars, daemonVars, Continue, WorkersInv, TypeOKWorkers,
     Phases, Asks, NoPid, NoState
<1>2. BinariesInOrder'
  BY <1>0, LifecycleAssumption DEF AskForWorker, fileVars, daemonVars, Continue, WorkersInv, TypeOKWorkers,
     BinariesInOrder, Phases, Asks, NoPid
<1>3. StartsAreCurrent'
  BY <1>0, LifecycleAssumption DEF AskForWorker, fileVars, daemonVars, Continue, WorkersInv, TypeOKWorkers,
     BinariesInOrder, StartsAreCurrent, Phases, Asks, NoPid
<1>4. LeaversOwnNothing'
  BY <1>0, LifecycleAssumption DEF AskForWorker, fileVars, daemonVars, Continue, WorkersInv, TypeOKWorkers,
     BinariesInOrder, LeaversOwnNothing, Phases, Asks, NoPid
<1>5. StopsInOrder'
  BY <1>0, LifecycleAssumption DEF AskForWorker, fileVars, daemonVars, Continue, WorkersInv, TypeOKWorkers,
     StopsInOrder, Phases, Asks, NoPid
<1>6. StopsAreStale'
  BY <1>0, LifecycleAssumption DEF AskForWorker, fileVars, daemonVars, Continue, WorkersInv, TypeOKWorkers,
     BinariesInOrder, StartsAreCurrent, StopsInOrder, StopsAreStale, Phases, Asks, NoPid
<1>7. SomebodyComes'
  BY <1>0, LifecycleAssumption DEF AskForWorker, fileVars, daemonVars, Continue, WorkersInv, TypeOKWorkers,
     BinariesInOrder, StartsAreCurrent, LeaversOwnNothing, StopsInOrder, SomebodyComes, GoesOn, Pledged,
     Phases, Asks, NoPid
<1> QED BY <1>1, <1>2, <1>3, <1>4, <1>5, <1>6, <1>7 DEF WorkersInv

LEMMA FindsOwnerKeeps ==
  ASSUME WorkersInv, NEW r \in Asker, FindsOwner(r)
  PROVE  WorkersInv'
<1>a. /\ ask[r] \in Asks /\ ask[r].at = "restart"
      /\ UNCHANGED <<fileVars, daemonVars, waiting, requests, upset, ran, outrun>>
  BY DEF FindsOwner, WorkersInv, TypeOKWorkers
<1>b. PICK S \in SUBSET Process, at \in {"fingerprint", "clear"} :
        /\ at = "fingerprint" => S = {}
        /\ ask' = [ask EXCEPT ![r] = [at |-> at, kind |-> ask[r].kind,
                                      fingerprint |-> ask[r].fingerprint, stop |-> S]]
  <2> DEFINE T == IF WorkerAlive(pidFile) THEN {pidFile} ELSE {}
             at == IF pidFile = NoPid THEN "fingerprint" ELSE "clear"
  <2>1. T \in SUBSET Process /\ (at = "fingerprint" => T = {})
    BY DEF WorkerAlive, WorkersInv, TypeOKWorkers
  <2>2. at \in {"fingerprint", "clear"}
    OBVIOUS
  <2>3. ask' = [ask EXCEPT ![r] = [ask[r] EXCEPT !.at = at, !.stop = T]]
    BY DEF FindsOwner, Continue
  <2> HIDE DEF T, at
  <2>4. [ask[r] EXCEPT !.at = at, !.stop = T] = [at |-> at, kind |-> ask[r].kind,
                                                 fingerprint |-> ask[r].fingerprint, stop |-> T]
    BY <1>a, AskMovesOn
  <2> QED BY <2>1, <2>2, <2>3, <2>4
<1>c. /\ ask' \in [Asker -> Asks]
      /\ \A q \in Asker \ {r} : ask'[q] = ask[q]
      /\ ask'[r].at = at /\ ask'[r].kind = ask[r].kind
      /\ ask'[r].fingerprint = ask[r].fingerprint /\ ask'[r].stop = S
  <2>1. [at |-> at, kind |-> ask[r].kind, fingerprint |-> ask[r].fingerprint, stop |-> S] \in Asks
    BY <1>a, <1>b DEF Asks
  <2> QED BY <1>b, <2>1 DEF WorkersInv, TypeOKWorkers
<1>1. TypeOKWorkers'
  BY <1>a, <1>c DEF fileVars, daemonVars, WorkersInv, TypeOKWorkers
<1>2. BinariesInOrder'
  BY <1>a, <1>b, <1>c DEF fileVars, daemonVars, WorkersInv, TypeOKWorkers, BinariesInOrder
<1>3. StartsAreCurrent'
  BY <1>a, <1>b, <1>c DEF fileVars, daemonVars, WorkersInv, TypeOKWorkers, StartsAreCurrent
<1>4. LeaversOwnNothing'
  BY <1>a, <1>b, <1>c DEF fileVars, daemonVars, WorkersInv, TypeOKWorkers, LeaversOwnNothing
<1>5. StopsInOrder'
  BY <1>a, <1>b, <1>c DEF fileVars, daemonVars, WorkersInv, TypeOKWorkers, StopsInOrder
<1>6. StopsAreStale'
  BY <1>a, <1>b, <1>c DEF fileVars, daemonVars, WorkersInv, TypeOKWorkers, StopsAreStale, StopsInOrder
<1>7. SomebodyComes'
  BY <1>a, <1>b, <1>c DEF fileVars, daemonVars, WorkersInv, TypeOKWorkers, SomebodyComes, GoesOn, Pledged
<1> QED BY <1>1, <1>2, <1>3, <1>4, <1>5, <1>6, <1>7 DEF WorkersInv

LEMMA ClearsPidKeeps ==
  ASSUME WorkersInv, NEW r \in Asker, ClearsPid(r)
  PROVE  WorkersInv'
<1>0. \A q \in Asker \ {r} : ask'[q] = ask[q]
  BY DEF ClearsPid, Continue, WorkersInv, TypeOKWorkers
<1>1. TypeOKWorkers'
  BY <1>0, LifecycleAssumption DEF ClearsPid, daemonVars, Continue, WorkersInv, TypeOKWorkers, Phases, Asks,
     NoPid, NoState
<1>2. BinariesInOrder'
  BY <1>0, LifecycleAssumption DEF ClearsPid, daemonVars, Continue, WorkersInv, TypeOKWorkers,
     BinariesInOrder, Phases, Asks, NoPid
<1>3. StartsAreCurrent'
  BY <1>0, LifecycleAssumption DEF ClearsPid, daemonVars, Continue, WorkersInv, TypeOKWorkers,
     BinariesInOrder, StartsAreCurrent, Phases, Asks, NoPid
<1>4. LeaversOwnNothing'
  BY <1>0, LifecycleAssumption DEF ClearsPid, daemonVars, Continue, WorkersInv, TypeOKWorkers,
     BinariesInOrder, LeaversOwnNothing, Phases, Asks, NoPid
<1>5. StopsInOrder'
  BY <1>0, LifecycleAssumption DEF ClearsPid, daemonVars, Continue, WorkersInv, TypeOKWorkers, StopsInOrder,
     Phases, Asks, NoPid
<1>6. StopsAreStale'
  BY <1>0, LifecycleAssumption DEF ClearsPid, daemonVars, Continue, WorkersInv, TypeOKWorkers,
     BinariesInOrder, StartsAreCurrent, StopsInOrder, StopsAreStale, Phases, Asks, NoPid
<1>7. SomebodyComes'
  BY <1>0, LifecycleAssumption DEF ClearsPid, daemonVars, Continue, WorkersInv, TypeOKWorkers,
     BinariesInOrder, StartsAreCurrent, LeaversOwnNothing, StopsInOrder, SomebodyComes, GoesOn, Pledged,
     Phases, Asks, NoPid
<1> QED BY <1>1, <1>2, <1>3, <1>4, <1>5, <1>6, <1>7 DEF WorkersInv

LEMMA ReadsFingerprintKeeps ==
  ASSUME WorkersInv, NEW r \in Asker, ReadsFingerprint(r)
  PROVE  WorkersInv'
<1>0. \A q \in Asker \ {r} : ask'[q] = ask[q]
  BY DEF ReadsFingerprint, Continue, WorkersInv, TypeOKWorkers
<1>1. TypeOKWorkers'
  BY <1>0, LifecycleAssumption, ZenonT(40) DEF ReadsFingerprint, fileVars, daemonVars, Continue, WorkersInv,
     TypeOKWorkers, Phases, Asks, NoPid, NoState
<1>2. BinariesInOrder'
  BY <1>0, LifecycleAssumption DEF ReadsFingerprint, fileVars, daemonVars, Continue, WorkersInv,
     TypeOKWorkers, BinariesInOrder, Phases, Asks, NoPid
<1>3. StartsAreCurrent'
  BY <1>0, LifecycleAssumption DEF ReadsFingerprint, fileVars, daemonVars, Continue, WorkersInv,
     TypeOKWorkers, BinariesInOrder, StartsAreCurrent, Phases, Asks, NoPid
<1>4. LeaversOwnNothing'
  BY <1>0, LifecycleAssumption DEF ReadsFingerprint, fileVars, daemonVars, Continue, WorkersInv,
     TypeOKWorkers, BinariesInOrder, LeaversOwnNothing, Phases, Asks, NoPid
<1>5. StopsInOrder'
  BY <1>0, LifecycleAssumption DEF ReadsFingerprint, fileVars, daemonVars, Continue, WorkersInv,
     TypeOKWorkers, StopsInOrder, Phases, Asks, NoPid
<1>6. StopsAreStale'
  BY <1>0, LifecycleAssumption DEF ReadsFingerprint, fileVars, daemonVars, Continue, WorkersInv,
     TypeOKWorkers, BinariesInOrder, StartsAreCurrent, StopsInOrder, StopsAreStale, Phases, Asks, NoPid
<1>7. SomebodyComes'
  BY <1>0, LifecycleAssumption DEF ReadsFingerprint, fileVars, daemonVars, Continue, WorkersInv,
     TypeOKWorkers, BinariesInOrder, StartsAreCurrent, LeaversOwnNothing, StopsInOrder, SomebodyComes, GoesOn,
     Pledged, Phases, Asks, NoPid
<1> QED BY <1>1, <1>2, <1>3, <1>4, <1>5, <1>6, <1>7 DEF WorkersInv

LEMMA ListsStaleKeeps ==
  ASSUME WorkersInv, NEW r \in Asker, ListsStale(r)
  PROVE  WorkersInv'
<1>0. \A q \in Asker \ {r} : ask'[q] = ask[q]
  BY DEF ListsStale, Continue, WorkersInv, TypeOKWorkers
<1>1. TypeOKWorkers'
  BY <1>0, LifecycleAssumption, ZenonT(40) DEF ListsStale, fileVars, daemonVars, WorkerAlive, Requested, Continue,
     WorkersInv, TypeOKWorkers, Phases, Asks, NoPid, NoState
<1>2. BinariesInOrder'
  BY <1>0, LifecycleAssumption DEF ListsStale, fileVars, daemonVars, WorkerAlive, Requested, Continue,
     WorkersInv, TypeOKWorkers, BinariesInOrder, Phases, Asks, NoPid
<1>3. StartsAreCurrent'
  BY <1>0, LifecycleAssumption DEF ListsStale, fileVars, daemonVars, WorkerAlive, Requested, Continue,
     WorkersInv, TypeOKWorkers, BinariesInOrder, StartsAreCurrent, Phases, Asks, NoPid
<1>4. LeaversOwnNothing'
  BY <1>0, LifecycleAssumption DEF ListsStale, fileVars, daemonVars, WorkerAlive, Requested, Continue,
     WorkersInv, TypeOKWorkers, BinariesInOrder, LeaversOwnNothing, Phases, Asks, NoPid
<1>5. StopsInOrder'
  BY <1>0, LifecycleAssumption DEF ListsStale, fileVars, daemonVars, WorkerAlive, Requested, Continue,
     WorkersInv, TypeOKWorkers, StopsInOrder, Phases, Asks, NoPid
<1>6. StopsAreStale'
  BY <1>0, LifecycleAssumption DEF ListsStale, fileVars, daemonVars, WorkerAlive, Requested, Continue,
     WorkersInv, TypeOKWorkers, BinariesInOrder, StartsAreCurrent, StopsInOrder, StopsAreStale, Phases, Asks,
     NoPid
<1>7. SomebodyComes'
  BY <1>0, LifecycleAssumption DEF ListsStale, fileVars, daemonVars, WorkerAlive, Requested, Continue,
     WorkersInv, TypeOKWorkers, BinariesInOrder, StartsAreCurrent, LeaversOwnNothing, StopsInOrder,
     SomebodyComes, GoesOn, Pledged, Phases, Asks, NoPid
<1> QED BY <1>1, <1>2, <1>3, <1>4, <1>5, <1>6, <1>7 DEF WorkersInv

LEMMA ChecksOwnerKeeps ==
  ASSUME WorkersInv, NEW r \in Asker, ChecksOwner(r)
  PROVE  WorkersInv'
<1>a. StaleOwner(r) \subseteq Process
  BY LifecycleAssumption DEF StaleOwner, WorkerAlive, WorkersInv, TypeOKWorkers, NoPid
<1>b. /\ ask[r] \in Asks /\ ask[r].at = "owner" /\ ask[r].stop = {}
      /\ UNCHANGED <<fileVars, daemonVars, waiting, requests, ran, outrun>>
      /\ upset' \in Nat /\ (upset' = 0 => upset = 0)
  BY DEF ChecksOwner, Fault, WorkersInv, TypeOKWorkers
<1>c. PICK S \in SUBSET StaleOwner(r) :
        ask' = [ask EXCEPT ![r] = [at |-> "reuse", kind |-> ask[r].kind,
                                   fingerprint |-> ask[r].fingerprint, stop |-> S]]
  <2>1. CASE Continue(r, [ask[r] EXCEPT !.at = "reuse", !.stop = StaleOwner(r)])
    <3>1. [ask[r] EXCEPT !.at = "reuse", !.stop = StaleOwner(r)] =
            [at |-> "reuse", kind |-> ask[r].kind, fingerprint |-> ask[r].fingerprint,
             stop |-> StaleOwner(r)]
      <4> DEFINE moved == [at |-> "reuse", kind |-> ask[r].kind,
                           fingerprint |-> ask[r].fingerprint, stop |-> ask[r].stop]
      <4>1. [ask[r] EXCEPT !.at = "reuse", !.stop = StaleOwner(r)] =
              [[ask[r] EXCEPT !.at = "reuse"] EXCEPT !.stop = StaleOwner(r)]
        OBVIOUS
      <4>2. [ask[r] EXCEPT !.at = "reuse"] = moved
        BY <1>b, AskMovesOn, Zenon
      <4>3. [moved EXCEPT !.stop = StaleOwner(r)] =
              [at |-> "reuse", kind |-> ask[r].kind, fingerprint |-> ask[r].fingerprint,
               stop |-> StaleOwner(r)]
        OBVIOUS
      <4> HIDE DEF moved
      <4> QED BY <4>1, <4>2, <4>3, Zenon
    <3>2. ask' = [ask EXCEPT ![r] = [ask[r] EXCEPT !.at = "reuse", !.stop = StaleOwner(r)]]
      BY <2>1 DEF Continue
    <3>3. StaleOwner(r) \in SUBSET StaleOwner(r)
      OBVIOUS
    <3> QED BY <3>1, <3>2, <3>3, Zenon
  <2>2. CASE Continue(r, [ask[r] EXCEPT !.at = "reuse"])
    <3>1. [ask[r] EXCEPT !.at = "reuse"] = [at |-> "reuse", kind |-> ask[r].kind,
                                            fingerprint |-> ask[r].fingerprint, stop |-> {}]
      BY <1>b, AskMovesOn, Zenon
    <3> QED BY <2>2, <3>1 DEF Continue
  <2> QED BY <2>1, <2>2 DEF ChecksOwner
<1>d. /\ ask' \in [Asker -> Asks]
      /\ \A q \in Asker \ {r} : ask'[q] = ask[q]
      /\ ask'[r].at = "reuse" /\ ask'[r].kind = ask[r].kind
      /\ ask'[r].fingerprint = ask[r].fingerprint /\ ask'[r].stop = S
  <2>1. [at |-> "reuse", kind |-> ask[r].kind, fingerprint |-> ask[r].fingerprint, stop |-> S] \in Asks
    BY <1>a, <1>b DEF Asks
  <2> QED BY <1>c, <2>1 DEF WorkersInv, TypeOKWorkers
<1>1. TypeOKWorkers'
  BY <1>b, <1>d DEF fileVars, daemonVars, WorkersInv, TypeOKWorkers
<1>2. BinariesInOrder'
  BY <1>b, <1>d DEF fileVars, daemonVars, WorkersInv, TypeOKWorkers, BinariesInOrder
<1>3. StartsAreCurrent'
  BY <1>b, <1>d DEF fileVars, daemonVars, WorkersInv, TypeOKWorkers, StartsAreCurrent
<1>4. LeaversOwnNothing'
  BY <1>b, <1>d DEF fileVars, daemonVars, WorkersInv, TypeOKWorkers, LeaversOwnNothing
<1>5. StopsInOrder'
  BY <1>b, <1>d DEF fileVars, daemonVars, WorkersInv, TypeOKWorkers, StopsInOrder
<1>6. StopsAreStale'
  <2>1. \A p \in S : ~outrun => ask[r].fingerprint # installed \/ binary[p] # installed
    BY <1>a DEF StaleOwner, WorkerAlive, Requested, WorkersInv, StartsAreCurrent
  <2> QED BY <1>b, <1>d, <2>1 DEF fileVars, daemonVars, WorkersInv, TypeOKWorkers, StopsAreStale
<1>7. SomebodyComes'
  BY <1>b, <1>d DEF fileVars, daemonVars, WorkersInv, TypeOKWorkers, SomebodyComes, GoesOn, Pledged
<1> QED BY <1>1, <1>2, <1>3, <1>4, <1>5, <1>6, <1>7 DEF WorkersInv

LEMMA StopsWorkerKeeps ==
  ASSUME WorkersInv, NEW r \in Asker, NEW p \in Process, StopsWorker(r, p)
  PROVE  WorkersInv'
<1>0. \A q \in Asker \ {r} : ask'[q] = ask[q]
  BY DEF StopsWorker, Continue, WorkersInv, TypeOKWorkers
<1>1. TypeOKWorkers'
  BY <1>0, LifecycleAssumption DEF StopsWorker, RemoveWorkerPidIfOwned, Fault, Continue, WorkersInv,
     TypeOKWorkers, Phases, Asks, NoPid, NoState
<1>2. BinariesInOrder'
  BY <1>0, LifecycleAssumption DEF StopsWorker, RemoveWorkerPidIfOwned, Fault, Continue, WorkersInv,
     TypeOKWorkers, BinariesInOrder, Phases, Asks, NoPid
<1>3. StartsAreCurrent'
  BY <1>0, LifecycleAssumption DEF StopsWorker, RemoveWorkerPidIfOwned, Fault, Continue, WorkersInv,
     TypeOKWorkers, BinariesInOrder, StartsAreCurrent, Phases, Asks, NoPid
<1>4. LeaversOwnNothing'
  BY <1>0, LifecycleAssumption DEF StopsWorker, RemoveWorkerPidIfOwned, Fault, Continue, WorkersInv,
     TypeOKWorkers, BinariesInOrder, LeaversOwnNothing, Phases, Asks, NoPid
<1>5. StopsInOrder'
  BY <1>0, LifecycleAssumption DEF StopsWorker, RemoveWorkerPidIfOwned, Fault, Continue, WorkersInv,
     TypeOKWorkers, StopsInOrder, Phases, Asks, NoPid
<1>6. StopsAreStale'
  BY <1>0, LifecycleAssumption DEF StopsWorker, RemoveWorkerPidIfOwned, Fault, Continue, WorkersInv,
     TypeOKWorkers, BinariesInOrder, StartsAreCurrent, StopsInOrder, StopsAreStale, Phases, Asks, NoPid
<1>7. SomebodyComes'
  BY <1>0, LifecycleAssumption DEF StopsWorker, RemoveWorkerPidIfOwned, Fault, Continue, WorkersInv,
     TypeOKWorkers, BinariesInOrder, StartsAreCurrent, LeaversOwnNothing, StopsInOrder, SomebodyComes, GoesOn,
     Pledged, Phases, Asks, NoPid
<1> QED BY <1>1, <1>2, <1>3, <1>4, <1>5, <1>6, <1>7 DEF WorkersInv

LEMMA ReusesWorkerKeeps ==
  ASSUME WorkersInv, NEW r \in Asker, ReusesWorker(r)
  PROVE  WorkersInv'
<1>0. \A q \in Asker \ {r} : ask'[q] = ask[q]
  BY DEF ReusesWorker, Continue, WorkersInv, TypeOKWorkers
<1>1. TypeOKWorkers'
  BY <1>0, LifecycleAssumption DEF ReusesWorker, daemonVars, Current, WorkerAlive, Continue, WorkersInv,
     TypeOKWorkers, Phases, Asks, NoPid, NoState
<1>2. BinariesInOrder'
  BY <1>0, LifecycleAssumption DEF ReusesWorker, daemonVars, Current, WorkerAlive, Continue, WorkersInv,
     TypeOKWorkers, BinariesInOrder, Phases, Asks, NoPid
<1>3. StartsAreCurrent'
  BY <1>0, LifecycleAssumption DEF ReusesWorker, daemonVars, Current, WorkerAlive, Continue, WorkersInv,
     TypeOKWorkers, BinariesInOrder, StartsAreCurrent, Phases, Asks, NoPid
<1>4. LeaversOwnNothing'
  BY <1>0, LifecycleAssumption DEF ReusesWorker, daemonVars, Current, WorkerAlive, Continue, WorkersInv,
     TypeOKWorkers, BinariesInOrder, LeaversOwnNothing, Phases, Asks, NoPid
<1>5. StopsInOrder'
  BY <1>0, LifecycleAssumption DEF ReusesWorker, daemonVars, Current, WorkerAlive, Continue, WorkersInv,
     TypeOKWorkers, StopsInOrder, Phases, Asks, NoPid
<1>6. StopsAreStale'
  BY <1>0, LifecycleAssumption DEF ReusesWorker, daemonVars, Current, WorkerAlive, Continue, WorkersInv,
     TypeOKWorkers, BinariesInOrder, StartsAreCurrent, StopsInOrder, StopsAreStale, Phases, Asks, NoPid
<1>7. SomebodyComes'
  BY <1>0, LifecycleAssumption DEF ReusesWorker, daemonVars, Current, WorkerAlive, Continue, WorkersInv,
     TypeOKWorkers, BinariesInOrder, StartsAreCurrent, LeaversOwnNothing, StopsInOrder, SomebodyComes, GoesOn,
     Pledged, Phases, Asks, NoPid
<1> QED BY <1>1, <1>2, <1>3, <1>4, <1>5, <1>6, <1>7 DEF WorkersInv

LEMMA NeedsWorkerKeeps ==
  ASSUME WorkersInv, NEW r \in Asker, NeedsWorker(r)
  PROVE  WorkersInv'
<1>0. \A q \in Asker \ {r} : ask'[q] = ask[q]
  BY DEF NeedsWorker, Continue, WorkersInv, TypeOKWorkers
<1>1. TypeOKWorkers'
  BY <1>0, LifecycleAssumption DEF NeedsWorker, fileVars, daemonVars, Unasked, Current, WorkerAlive, Continue,
     WorkersInv, TypeOKWorkers, Phases, Asks, NoPid, NoState
<1>2. BinariesInOrder'
  BY <1>0, LifecycleAssumption DEF NeedsWorker, fileVars, daemonVars, Unasked, Current, WorkerAlive, Continue,
     WorkersInv, TypeOKWorkers, BinariesInOrder, Phases, Asks, NoPid
<1>3. StartsAreCurrent'
  BY <1>0, LifecycleAssumption DEF NeedsWorker, fileVars, daemonVars, Unasked, Current, WorkerAlive, Continue,
     WorkersInv, TypeOKWorkers, BinariesInOrder, StartsAreCurrent, Phases, Asks, NoPid
<1>4. LeaversOwnNothing'
  BY <1>0, LifecycleAssumption DEF NeedsWorker, fileVars, daemonVars, Unasked, Current, WorkerAlive, Continue,
     WorkersInv, TypeOKWorkers, BinariesInOrder, LeaversOwnNothing, Phases, Asks, NoPid
<1>5. StopsInOrder'
  BY <1>0, LifecycleAssumption DEF NeedsWorker, fileVars, daemonVars, Unasked, Current, WorkerAlive, Continue,
     WorkersInv, TypeOKWorkers, StopsInOrder, Phases, Asks, NoPid
<1>6. StopsAreStale'
  BY <1>0, LifecycleAssumption DEF NeedsWorker, fileVars, daemonVars, Unasked, Current, WorkerAlive, Continue,
     WorkersInv, TypeOKWorkers, BinariesInOrder, StartsAreCurrent, StopsInOrder, StopsAreStale, Phases, Asks,
     NoPid
<1>7. SomebodyComes'
  BY <1>0, LifecycleAssumption DEF NeedsWorker, fileVars, daemonVars, Unasked, Current, WorkerAlive, Continue,
     WorkersInv, TypeOKWorkers, BinariesInOrder, StartsAreCurrent, LeaversOwnNothing, StopsInOrder,
     SomebodyComes, GoesOn, Pledged, Phases, Asks, NoPid
<1> QED BY <1>1, <1>2, <1>3, <1>4, <1>5, <1>6, <1>7 DEF WorkersInv

LEMMA WritesStateKeeps ==
  ASSUME WorkersInv, NEW r \in Asker, WritesState(r)
  PROVE  WorkersInv'
<1>0. \A q \in Asker \ {r} : ask'[q] = ask[q]
  BY DEF WritesState, Continue, WorkersInv, TypeOKWorkers
<1>1. TypeOKWorkers'
  BY <1>0, LifecycleAssumption DEF WritesState, daemonVars, Requested, Unasked, Continue, WorkersInv,
     TypeOKWorkers, Phases, Asks, NoPid, NoState
<1>2. BinariesInOrder'
  BY <1>0, LifecycleAssumption DEF WritesState, daemonVars, Requested, Unasked, Continue, WorkersInv,
     TypeOKWorkers, BinariesInOrder, Phases, Asks, NoPid
<1>3. StartsAreCurrent'
  BY <1>0, LifecycleAssumption DEF WritesState, daemonVars, Requested, Unasked, Continue, WorkersInv,
     TypeOKWorkers, BinariesInOrder, StartsAreCurrent, Phases, Asks, NoPid
<1>4. LeaversOwnNothing'
  BY <1>0, LifecycleAssumption DEF WritesState, daemonVars, Requested, Unasked, Continue, WorkersInv,
     TypeOKWorkers, BinariesInOrder, LeaversOwnNothing, Phases, Asks, NoPid
<1>5. StopsInOrder'
  BY <1>0, LifecycleAssumption DEF WritesState, daemonVars, Requested, Unasked, Continue, WorkersInv,
     TypeOKWorkers, StopsInOrder, Phases, Asks, NoPid
<1>6. StopsAreStale'
  BY <1>0, LifecycleAssumption DEF WritesState, daemonVars, Requested, Unasked, Continue, WorkersInv,
     TypeOKWorkers, BinariesInOrder, StartsAreCurrent, StopsInOrder, StopsAreStale, Phases, Asks, NoPid
<1>7. SomebodyComes'
  BY <1>0, LifecycleAssumption DEF WritesState, daemonVars, Requested, Unasked, Continue, WorkersInv,
     TypeOKWorkers, BinariesInOrder, StartsAreCurrent, LeaversOwnNothing, StopsInOrder, SomebodyComes, GoesOn,
     Pledged, Phases, Asks, NoPid
<1> QED BY <1>1, <1>2, <1>3, <1>4, <1>5, <1>6, <1>7 DEF WorkersInv

LEMMA RequestSpawnsKeeps ==
  ASSUME WorkersInv, NEW r \in Asker, RequestSpawns(r)
  PROVE  WorkersInv'
<1>0. \A q \in Asker \ {r} : ask'[q] = ask[q]
  BY DEF RequestSpawns, Continue, WorkersInv, TypeOKWorkers
<1>1. TypeOKWorkers'
  BY <1>0, LifecycleAssumption, LowestIsOne DEF RequestSpawns, fileVars, FreeProcesses, WorkerAlive, Targets,
     Unasked, Continue, WorkersInv, TypeOKWorkers, Phases, Asks, NoPid, NoState
<1>2. BinariesInOrder'
  BY <1>0, LifecycleAssumption, LowestIsOne DEF RequestSpawns, fileVars, FreeProcesses, WorkerAlive, Targets,
     Unasked, Continue, WorkersInv, TypeOKWorkers, BinariesInOrder, Phases, Asks, NoPid
<1>3. StartsAreCurrent'
  BY <1>0, LifecycleAssumption, LowestIsOne DEF RequestSpawns, fileVars, FreeProcesses, WorkerAlive, Targets,
     Unasked, Continue, WorkersInv, TypeOKWorkers, BinariesInOrder, StartsAreCurrent, Phases, Asks, NoPid
<1>4. LeaversOwnNothing'
  BY <1>0, LifecycleAssumption, LowestIsOne DEF RequestSpawns, fileVars, FreeProcesses, WorkerAlive, Targets,
     Unasked, Continue, WorkersInv, TypeOKWorkers, BinariesInOrder, LeaversOwnNothing, Phases, Asks, NoPid
<1>5. StopsInOrder'
  BY <1>0, LifecycleAssumption, LowestIsOne DEF RequestSpawns, fileVars, FreeProcesses, WorkerAlive, Targets,
     Unasked, Continue, WorkersInv, TypeOKWorkers, StopsInOrder, Phases, Asks, NoPid
<1>6. StopsAreStale'
  <2>1. Lowest(FreeProcesses) \in FreeProcesses
    BY LowestIsOne DEF RequestSpawns, FreeProcesses
  <2>2. \A q \in Asker : Lowest(FreeProcesses) \notin ask[q].stop
    BY <2>1 DEF FreeProcesses, Targets
  <2>3. \A q \in Asker : \A p \in ask[q].stop : p \in Process /\ binary'[p] = binary[p]
    <3>1. \A q \in Asker : ask[q].stop \subseteq Process
      BY DEF WorkersInv, TypeOKWorkers, Asks
    <3>2. \A p \in Process : p # Lowest(FreeProcesses) => binary'[p] = binary[p]
      BY DEF RequestSpawns, WorkersInv, TypeOKWorkers
    <3> QED BY <2>2, <3>1, <3>2
  <2>4. ask'[r].stop = {} /\ installed' = installed /\ outrun' = outrun
    BY DEF RequestSpawns, Continue, Unasked, fileVars, WorkersInv, TypeOKWorkers
  <2> QED BY <1>0, <2>3, <2>4 DEF WorkersInv, StopsAreStale
<1>7. SomebodyComes'
  <2>1. Lowest(FreeProcesses) \in FreeProcesses
    BY LowestIsOne DEF RequestSpawns, FreeProcesses
  <2>2. Lowest(FreeProcesses) \in Process /\ phase[Lowest(FreeProcesses)] = "dead"
    BY <2>1, LifecycleAssumption DEF FreeProcesses, WorkerAlive, NoPid
  <2>3. phase'[Lowest(FreeProcesses)] = "started"
    BY <2>2 DEF RequestSpawns, WorkersInv, TypeOKWorkers
  <2> QED BY <2>2, <2>3 DEF SomebodyComes, GoesOn
<1> QED BY <1>1, <1>2, <1>3, <1>4, <1>5, <1>6, <1>7 DEF WorkersInv

LEMMA WorkersStep ==
  ASSUME WorkersInv, [NextWorkers]_workerVars
  PROVE  WorkersInv'
<1>1. CASE UNCHANGED workerVars
  BY <1>1 DEF workerVars, fileVars, daemonVars, WorkersInv, TypeOKWorkers, Phases, Asks, NoPid,
     BinariesInOrder,
       StartsAreCurrent, LeaversOwnNothing, StopsInOrder, StopsAreStale, SomebodyComes, GoesOn, Pledged
<1>2. ASSUME NEW p \in Process, DaemonStep(p)
      PROVE  WorkersInv'
  BY <1>2, DaemonReadsKeeps, DaemonLooksForOwnerKeeps, DaemonWritesPidKeeps, TakesQueuedKeeps,
     HandoverWritesStateKeeps, HandoverDropsPidKeeps, HandoverSpawnsKeeps, HandoverExitsKeeps, DaemonDiesKeeps
     DEF DaemonStep
<1>3. ASSUME NEW r \in Asker, AskerStep(r)
      PROVE  WorkersInv'
  BY <1>3, AskForWorkerKeeps, FindsOwnerKeeps, ClearsPidKeeps, ReadsFingerprintKeeps, ListsStaleKeeps,
     ChecksOwnerKeeps, StopsWorkerKeeps, ReusesWorkerKeeps, NeedsWorkerKeeps, WritesStateKeeps,
     RequestSpawnsKeeps DEF AskerStep
<1> QED BY <1>1, <1>2, <1>3, PluginUpdatedKeeps DEF NextWorkers

LEMMA WorkersInvariant == SpecWorkers => []WorkersInv
  BY WorkersInit, WorkersStep, PTL DEF SpecWorkers

\* A daemon of the installed binary is not stopped by requests that know an
\* older one, and one that hands over is succeeded (startDaemon, handover).
THEOREM WorkersAlwaysGoOn == SpecWorkers => WorkersGoOn
<1>1. WorkersInv => CurrentIsSpared
  BY DEF WorkersInv, StopsAreStale, CurrentIsSpared, Current, Requested
<1>2. WorkersInv => WorkIsSucceeded
  <2>1. WorkersInv /\ upset = 0 /\ ~outrun /\ (ran \/ waiting) =>
          (\E p \in Process : WorkerAlive(p)) \/ (\E r \in Asker : ask[r].at # "idle")
    BY LifecycleAssumption DEF WorkersInv, SomebodyComes, GoesOn, Pledged, WorkerAlive, NoPid
  <2> QED BY <2>1 DEF WorkIsSucceeded
<1> QED BY <1>1, <1>2, WorkersInvariant, PTL DEF WorkersGoOn

-----------------------------------------------------------------------------
(* The sidecar, its copies and its restores.                               *)

Point == {"idle", "connected", "migrate", "open", "job", "close", "unlog", "swap",
          "reopen", "reconnected", "remigrate"}

FileContent == [facts : SUBSET Fact, rows : SUBSET Nat, live : BOOLEAN, running : BOOLEAN,
            applied : SUBSET Nat, twice : BOOLEAN]

Connection == [at : Point, on : Nat, version : Nat, plan : SUBSET Nat, of : Nat]

TypeOKBackups ==
  /\ instance \in 1..MaxInstance
  /\ visible \in [1..MaxInstance -> FileContent]
  /\ settled \in [1..MaxInstance -> FileContent]
  /\ shipped \in Nat /\ models \in Nat
  /\ conn \in [Holder -> Connection]
  /\ backups \in [1..MaxBackups -> FileContent]
  /\ cut \in BOOLEAN

\* A process that has a file open has one that is, or has been, the sidecar.
HasAFile ==
  \A p \in Holder : conn[p].at # "idle" => conn[p].on \in 1..instance

\* What is kept beside the sidecar, or excused.
Kept(f) ==
  \/ \E b \in 1..MaxBackups : f \in backups[b].facts
  \/ f \in astray
  \/ f \in deleted

FactsAreThere == \A f \in committed : f \in visible[instance].facts \/ Kept(f)

\* From its safety copy until its swap, whatever a restore replaces is kept.
CopiedBeforeSwap ==
  \A p \in Holder : conn[p].at \in {"close", "unlog", "swap"} /\ conn[p].on = instance =>
    \A f \in visible[instance].facts : Kept(f)

\* Migrations are applied in their order, and once.
InOrder(content) ==
  ~content.twice /\ \A v \in content.applied : 1..v \subseteq content.applied

ContentsInOrder ==
  /\ \A i \in 1..instance : InOrder(visible[i]) /\ InOrder(settled[i])
  /\ \A b \in 1..MaxBackups : backups[b] # NoBackup => InOrder(backups[b])

\* What a process still has to apply is all it has not found applied.
PlansAreWhole ==
  \A p \in Holder :
    /\ conn[p].at \in {"migrate", "remigrate"} =>
         /\ conn[p].plan \subseteq 1..conn[p].version
         /\ \A v \in 1..conn[p].version : v \in conn[p].plan \/ v \in Its(p).applied
    /\ conn[p].at \in {"open", "job"} => 1..conn[p].version \subseteq Its(p).applied

\* No file knows of a model that has not been published.
ModelsAreCounted ==
  /\ \A i \in 1..MaxInstance : \A m \in visible[i].rows \union settled[i].rows : m <= models
  /\ \A b \in 1..MaxBackups : \A m \in backups[b].rows : m <= models

Restoring(p) ==
  \/ conn[p].at \in {"swap", "reopen"}
  \/ conn[p].at \in {"reconnected", "remigrate"} /\ conn[p].on = instance

NewestRow(m, rows) == m \in rows /\ \A n \in rows : n <= m

\* The newest model of a live sidecar has its artifact, and no file that was
\* replaced knows of it: the retention of a process that still has one leaves
\* it alone.
NewestIsItsOwn ==
  \/ cut
  \/ \E p \in Holder : Restoring(p)
  \/ visible[instance].live =>
       \A m \in visible[instance].rows : NewestRow(m, visible[instance].rows) =>
         m \in artifacts /\ \A i \in 1..instance : i # instance => m \notin visible[i].rows

BackupInv ==
  /\ TypeOKBackups
  /\ HasAFile
  /\ FactsAreThere
  /\ CopiedBeforeSwap
  /\ ContentsInOrder
  /\ PlansAreWhole
  /\ ModelsAreCounted
  /\ NewestIsItsOwn

-----------------------------------------------------------------------------
(* What the helpers of the actions do.                                     *)

LEMMA LeastNumber ==
  ASSUME NEW S \in SUBSET Nat, S # {}
  PROVE  \E m \in S : \A n \in S : m <= n
  <1>1. PICK m \in S : \A n \in S : <<n, m>> \notin OpToRel(<, Nat)
    BY NatLessThanWellFounded, WFMin
  <1>2. \A n \in S : ~(n < m)
    BY <1>1 DEF OpToRel
  <1> QED
    BY <1>2

\* A connection that is moved to another stage stays what it is.
LEMMA MovesItself ==
  ASSUME TypeOKBackups, NEW p \in Holder, NEW stage \in Point, Moves(p, stage)
  PROVE  /\ conn' \in [Holder -> Connection]
         /\ conn'[p].at = stage /\ conn'[p].on = conn[p].on
         /\ conn'[p].version = conn[p].version /\ conn'[p].plan = conn[p].plan
         /\ \A q \in Holder : q # p => conn'[q] = conn[q]
  BY DEF TypeOKBackups, Moves, Connection

LEMMA LeavesAlone ==
  ASSUME TypeOKBackups, NEW p \in Holder, Leave(p)
  PROVE  /\ conn' \in [Holder -> Connection]
         /\ conn'[p].at = "idle"
         /\ \A q \in Holder : q # p => conn'[q] = conn[q]
  BY DEF TypeOKBackups, Leave, Connection, Disconnected, Point

LEMMA WritesItsFile ==
  ASSUME TypeOKBackups, HasAFile, NEW p \in Holder, conn[p].at # "idle",
         NEW content \in FileContent, Writes(p, content)
  PROVE  /\ visible' \in [1..MaxInstance -> FileContent]
         /\ visible'[conn[p].on] = content
         /\ \A i \in 1..MaxInstance : i # conn[p].on => visible'[i] = visible[i]
  BY BackupAssumption DEF TypeOKBackups, HasAFile, Writes

LEMMA ItsFile ==
  ASSUME TypeOKBackups, HasAFile, NEW p \in Holder, conn[p].at # "idle"
  PROVE  conn[p].on \in 1..instance /\ conn[p].on \in 1..MaxInstance /\ Its(p) \in FileContent
  BY BackupAssumption DEF TypeOKBackups, HasAFile, Its

\* The file that a swap puts at the path.
LEMMA SwappedIn ==
  ASSUME TypeOKBackups, NEW content \in FileContent, Swapped(content)
  PROVE  /\ instance' = instance + 1 /\ instance' \in 1..MaxInstance
         /\ visible' \in [1..MaxInstance -> FileContent] /\ settled' \in [1..MaxInstance -> FileContent]
         /\ visible'[instance'] = content /\ settled'[instance'] = content
         /\ \A i \in 1..MaxInstance : i # instance' => visible'[i] = visible[i] /\ settled'[i] = settled[i]
  BY BackupAssumption DEF TypeOKBackups, Swapped

\* A backup gets a number that none has, and the others stay.
LEMMA FreeNameIsFree ==
  ASSUME FreeBackups # {}
  PROVE  FreeName \in 1..MaxBackups /\ backups[FreeName] = NoBackup
  <1>1. FreeBackups \in SUBSET Nat
    BY BackupAssumption DEF FreeBackups
  <1>2. \E b \in FreeBackups : \A c \in FreeBackups : b <= c
    BY <1>1, LeastNumber
  <1>3. FreeName \in FreeBackups
    BY <1>2 DEF FreeName
  <1> QED
    BY <1>3 DEF FreeBackups

LEMMA BackupIsAdded ==
  ASSUME TypeOKBackups, FreeBackups # {}, NEW content \in FileContent,
         backups' = [backups EXCEPT ![FreeName] = content]
  PROVE  /\ backups' \in [1..MaxBackups -> FileContent]
         /\ \A b \in 1..MaxBackups :
              \/ backups'[b] = backups[b]
              \/ backups[b] = NoBackup /\ backups'[b] = content
         /\ \E b \in 1..MaxBackups : backups'[b] = content
  <1>1. FreeName \in 1..MaxBackups /\ backups[FreeName] = NoBackup
    BY FreeNameIsFree
  <1>2. backups'[FreeName] = content /\ \A b \in 1..MaxBackups : b # FreeName => backups'[b] = backups[b]
    BY <1>1 DEF TypeOKBackups
  <1>3. backups' \in [1..MaxBackups -> FileContent]
    BY <1>1 DEF TypeOKBackups
  <1> QED
    BY <1>1, <1>2, <1>3

\* No backup holds nothing.
LEMMA NoBackupIsEmpty ==
  NoBackup \in FileContent /\ NoBackup.facts = {} /\ NoBackup.rows = {}
  BY DEF NoBackup, EmptyContent, FileContent

LEMMA KeptStaysKept ==
  ASSUME TypeOKBackups, astray \subseteq astray', deleted \subseteq deleted',
         \A b \in 1..MaxBackups :
           backups'[b] = backups[b] \/ backups[b] = NoBackup \/ backups[b].facts \subseteq deleted'
  PROVE  \A f : Kept(f) => Kept(f)'
  BY NoBackupIsEmpty DEF Kept

-----------------------------------------------------------------------------
(* Every step keeps the invariant.                                         *)

LEMMA PluginShipsKeeps ==
  ASSUME BackupInv, PluginShips
  PROVE  BackupInv'
  <1> USE BackupAssumption DEF BackupInv
  <1>u. UNCHANGED <<artifacts, astray, backups, committed, conn, cut,
                    deleted, instance, models, settled, visible>>
    BY DEF PluginShips, fileVarsOfBackups, historyVars
  <1>1. TypeOKBackups'
    BY <1>u DEF PluginShips, TypeOKBackups, FileContent, Connection, Point,
      NoBackup, EmptyContent, Disconnected
  <1>2. HasAFile'
    BY <1>u DEF HasAFile, Disconnected
  <1>3. FactsAreThere'
    BY <1>u DEF FactsAreThere, Kept
  <1>4. CopiedBeforeSwap'
    BY <1>u DEF CopiedBeforeSwap, Kept, Disconnected
  <1>5. ContentsInOrder'
    BY <1>u DEF ContentsInOrder, InOrder
  <1>6. PlansAreWhole'
    BY <1>u DEF PlansAreWhole, Disconnected, Its
  <1>7. ModelsAreCounted'
    BY <1>u DEF ModelsAreCounted
  <1>8. NewestIsItsOwn'
    BY <1>u DEF NewestIsItsOwn, NewestRow, Restoring, Disconnected
  <1> QED
    BY <1>1, <1>2, <1>3, <1>4, <1>5, <1>6, <1>7, <1>8

LEMMA ConnectKeeps ==
  ASSUME BackupInv, NEW p \in Holder, Connect(p)
  PROVE  BackupInv'
  <1> USE BackupAssumption DEF BackupInv
  <1>u. UNCHANGED <<artifacts, astray, backups, committed, cut, deleted,
                    instance, models, settled, shipped, visible>>
    BY DEF Connect, historyVars
  <1>1. TypeOKBackups'
    BY <1>u, SMTT(40) DEF Connect, TypeOKBackups, FileContent, Connection, Point, NoBackup,
      EmptyContent, Disconnected
  <1>2. HasAFile'
    BY <1>u DEF Connect, HasAFile, Disconnected, TypeOKBackups, FileContent,
      Connection
  <1>3. FactsAreThere'
    BY <1>u DEF FactsAreThere, Kept
  <1>4. CopiedBeforeSwap'
    BY <1>u DEF Connect, CopiedBeforeSwap, Kept, Disconnected, TypeOKBackups,
      FileContent, Connection
  <1>5. ContentsInOrder'
    BY <1>u DEF ContentsInOrder, InOrder
  <1>6. PlansAreWhole'
    BY <1>u DEF Connect, PlansAreWhole, Disconnected, Its, TypeOKBackups,
      FileContent, Connection
  <1>7. ModelsAreCounted'
    BY <1>u DEF ModelsAreCounted
  <1>8. NewestIsItsOwn'
    BY <1>u DEF Connect, NewestIsItsOwn, NewestRow, Restoring, Disconnected,
      TypeOKBackups, FileContent, Connection
  <1> QED
    BY <1>1, <1>2, <1>3, <1>4, <1>5, <1>6, <1>7, <1>8

LEMMA QueryMigrationStatusKeeps ==
  ASSUME BackupInv, NEW p \in Holder, QueryMigrationStatus(p)
  PROVE  BackupInv'
  <1> USE BackupAssumption DEF BackupInv
  <1>u. UNCHANGED <<artifacts, astray, backups, committed, deleted,
                    instance, models, settled, shipped, visible>>
    BY DEF QueryMigrationStatus, fileVarsOfBackups
  <1>e. /\ conn' \in [Holder -> Connection]
        /\ \A q \in Holder : q # p => conn'[q] = conn[q]
        /\ conn[p].at \in {"connected", "reconnected"}
        /\ \/ /\ conn'[p].at = IF conn[p].at = "connected" THEN "migrate" ELSE "remigrate"
              /\ conn'[p].on = conn[p].on /\ conn'[p].version = conn[p].version
              /\ conn'[p].plan = (1..conn[p].version) \ Its(p).applied
              /\ cut' = cut
           \/ conn'[p].at = "idle" /\ cut' = (cut \/ conn[p].at = "reconnected")
    <2>1. CASE Understood(Its(p), conn[p].version)
      <3>1. /\ conn' = [conn EXCEPT ![p].at = IF @ = "connected" THEN "migrate" ELSE "remigrate",
                                   ![p].plan = (1..conn[p].version) \ Its(p).applied]
            /\ cut' = cut /\ conn[p].at \in {"connected", "reconnected"}
        BY <2>1 DEF QueryMigrationStatus
      <3>2. conn[p] \in Connection /\ (1..conn[p].version) \ Its(p).applied \in SUBSET Nat
        BY DEF TypeOKBackups, Connection
      <3> DEFINE stage == IF conn[p].at = "connected" THEN "migrate" ELSE "remigrate"
                 plan == (1..conn[p].version) \ Its(p).applied
      <3>3. stage \in Point /\ plan \in SUBSET Nat
        BY <3>2 DEF Point
      <3>4. conn' = [conn EXCEPT ![p].at = stage, ![p].plan = plan]
        BY <3>1, <3>2
      <3>5. stage = IF conn[p].at = "connected" THEN "migrate" ELSE "remigrate"
        OBVIOUS
      <3>6. plan = (1..conn[p].version) \ Its(p).applied
        OBVIOUS
      <3> HIDE DEF stage, plan
      <3>7. /\ conn' \in [Holder -> Connection]
            /\ \A q \in Holder : q # p => conn'[q] = conn[q]
            /\ conn'[p].at = stage /\ conn'[p].plan = plan
            /\ conn'[p].on = conn[p].on /\ conn'[p].version = conn[p].version
        BY <3>3, <3>4 DEF TypeOKBackups, Connection
      <3> QED
        BY <3>1, <3>5, <3>6, <3>7
    <2>2. CASE ~Understood(Its(p), conn[p].version)
      <3>1. /\ Leave(p) /\ cut' = (cut \/ conn[p].at = "reconnected")
            /\ conn[p].at \in {"connected", "reconnected"}
        BY <2>2 DEF QueryMigrationStatus
      <3> QED
        BY <3>1, LeavesAlone
    <2> QED
      BY <2>1, <2>2
  <1>1. TypeOKBackups'
    BY <1>u, <1>e DEF TypeOKBackups
  <1>2. HasAFile'
    BY <1>u, <1>e DEF HasAFile
  <1>3. FactsAreThere'
    BY <1>u DEF FactsAreThere, Kept
  <1>4. CopiedBeforeSwap'
    BY <1>u, <1>e DEF CopiedBeforeSwap, Kept, TypeOKBackups, Connection
  <1>5. ContentsInOrder'
    BY <1>u DEF ContentsInOrder, InOrder
  <1>6. PlansAreWhole'
    BY <1>u, <1>e, ZenonT(60) DEF PlansAreWhole, Its, TypeOKBackups, FileContent, Connection
  <1>7. ModelsAreCounted'
    BY <1>u DEF ModelsAreCounted
  <1>8. NewestIsItsOwn'
    <2>1. conn[p].at = "reconnected" => cut' \/ (Restoring(p) => Restoring(p)')
      BY <1>u, <1>e DEF Restoring
    <2>2. conn[p].at = "connected" => ~Restoring(p)
      BY DEF Restoring
    <2>3. \A q \in Holder : q # p => (Restoring(q) => Restoring(q)')
      BY <1>u, <1>e DEF Restoring
    <2>4. cut => cut'
      BY <1>e
    <2> QED
      BY <1>u, <1>e, <2>1, <2>2, <2>3, <2>4 DEF NewestIsItsOwn, NewestRow
  <1> QED
    BY <1>1, <1>2, <1>3, <1>4, <1>5, <1>6, <1>7, <1>8

LEMMA MigrateOneKeeps ==
  ASSUME BackupInv, NEW p \in Holder, MigrateOne(p)
  PROVE  BackupInv'
  <1> USE BackupAssumption DEF BackupInv
  <1>u. UNCHANGED <<artifacts, astray, backups, committed, cut, deleted,
                    instance, models, settled, shipped>>
    BY DEF MigrateOne, fileVarsOfBackups, historyVars
  <1>v. PICK v \in conn[p].plan :
          /\ \A u \in conn[p].plan : v <= u
          /\ Writes(p, IF StillPending(Its(p), v)
                       THEN [Its(p) EXCEPT !.applied = @ \union {v}, !.twice = @ \/ v \in Its(p).applied]
                       ELSE Its(p))
          /\ conn' = [conn EXCEPT ![p].plan = @ \ {v}]
    <2>1. conn[p].plan \in SUBSET Nat /\ conn[p].plan # {}
      BY DEF MigrateOne, TypeOKBackups, Connection
    <2>2. \E v \in conn[p].plan : \A u \in conn[p].plan : v <= u
      BY <2>1, LeastNumber
    <2> QED
      BY <2>2 DEF MigrateOne
  <1>at. conn[p].at \in {"migrate", "remigrate"}
    BY DEF MigrateOne
  <1>o. conn[p].on \in 1..instance /\ conn[p].on \in 1..MaxInstance /\ Its(p) \in FileContent
    BY <1>at, ItsFile
  <1>p. conn[p].plan \subseteq 1..conn[p].version /\ conn[p].version \in Nat /\ v \in Nat
        /\ \A u \in 1..conn[p].version : u \in conn[p].plan \/ u \in Its(p).applied
    BY <1>at DEF PlansAreWhole, TypeOKBackups, Connection
  <1>c. /\ conn' \in [Holder -> Connection]
        /\ conn'[p].at = conn[p].at /\ conn'[p].on = conn[p].on
        /\ conn'[p].version = conn[p].version /\ conn'[p].plan = conn[p].plan \ {v}
        /\ \A q \in Holder : q # p => conn'[q] = conn[q]
    BY <1>v DEF TypeOKBackups, Connection
  <1> DEFINE content == visible'[conn[p].on]
  <1>w. /\ content \in FileContent /\ visible' \in [1..MaxInstance -> FileContent]
        /\ \A i \in 1..MaxInstance : i # conn[p].on => visible'[i] = visible[i]
        /\ content.facts = Its(p).facts /\ content.rows = Its(p).rows /\ content.live = Its(p).live
        /\ content.applied = Its(p).applied \union {v}
        /\ content.twice = Its(p).twice
    <2>1. CASE v \in Its(p).applied
      <3>1. Writes(p, Its(p)) /\ Its(p).applied = Its(p).applied \union {v}
        BY <1>v, <2>1 DEF StillPending
      <3> QED
        BY <3>1, <1>o, <1>at, WritesItsFile
    <2>2. CASE v \notin Its(p).applied
      <3> DEFINE new == [Its(p) EXCEPT !.applied = @ \union {v}, !.twice = @ \/ v \in Its(p).applied]
      <3>1. Writes(p, new)
        BY <1>v, <2>2 DEF StillPending
      <3>2. /\ new \in FileContent /\ new.facts = Its(p).facts /\ new.rows = Its(p).rows
            /\ new.live = Its(p).live /\ new.applied = Its(p).applied \union {v}
            /\ new.twice = Its(p).twice
        BY <1>o, <1>p, <2>2 DEF FileContent
      <3> HIDE DEF new
      <3> QED
        BY <3>1, <3>2, <1>at, WritesItsFile
    <2> QED
      BY <2>1, <2>2
  <1>i. InOrder(content)
    <2>1. InOrder(Its(p))
      BY <1>o DEF ContentsInOrder, Its
    <2>2. \A u \in 1..v : u = v \/ u \in Its(p).applied
      BY <1>v, <1>p
    <2> QED
      BY <1>w, <1>p, <2>1, <2>2 DEF InOrder
  <1>s. visible[conn[p].on] = Its(p) /\ instance \in 1..MaxInstance
    BY DEF Its, TypeOKBackups
  <1>1. TypeOKBackups'
    BY <1>u, <1>c, <1>w DEF TypeOKBackups
  <1>2. HasAFile'
    BY <1>u, <1>c DEF HasAFile
  <1>3. FactsAreThere'
    BY <1>u, <1>w, <1>s DEF FactsAreThere, Kept
  <1>4. CopiedBeforeSwap'
    BY <1>u, <1>c, <1>w, <1>s DEF CopiedBeforeSwap, Kept
  <1>5. ContentsInOrder'
    BY <1>u, <1>w, <1>i, <1>s DEF ContentsInOrder
  <1>6. PlansAreWhole'
    <2>1. \A q \in Holder : conn[q].at # "idle" => Its(q).applied \subseteq (Its(q).applied)'
      BY <1>w, <1>c, <1>s, ItsFile, SMTT(40) DEF Its
    <2>2. conn'[p].at = conn[p].at /\ conn'[p].version = conn[p].version /\ v \in Its(p)'.applied
      BY <1>c, <1>w DEF Its
    <2> QED
      BY <2>1, <2>2, <1>c, <1>p DEF PlansAreWhole
  <1>7. ModelsAreCounted'
    BY <1>u, <1>w, <1>s DEF ModelsAreCounted
  <1>8. NewestIsItsOwn'
    BY <1>u, <1>c, <1>w, <1>s, SMTT(40) DEF NewestIsItsOwn, NewestRow, Restoring
  <1> QED
    BY <1>1, <1>2, <1>3, <1>4, <1>5, <1>6, <1>7, <1>8

LEMMA OpenedKeeps ==
  ASSUME BackupInv, NEW p \in Holder, Opened(p)
  PROVE  BackupInv'
  <1> USE BackupAssumption DEF BackupInv
  <1>u. UNCHANGED <<artifacts, astray, backups, committed, cut, deleted,
                    instance, models, settled, shipped, visible>>
    BY DEF Opened, fileVarsOfBackups, historyVars
  <1>e. /\ conn' \in [Holder -> Connection]
        /\ \A q \in Holder : q # p => conn'[q] = conn[q]
        /\ conn[p].at = "migrate" /\ conn[p].plan = {}
        /\ \/ /\ conn'[p].at = "open" /\ conn'[p].on = conn[p].on
              /\ conn'[p].version = conn[p].version /\ conn'[p].plan = conn[p].plan
           \/ conn'[p].at = "idle"
    <2>1. conn[p].at = "migrate" /\ conn[p].plan = {} /\ (Moves(p, "open") \/ Leave(p))
      BY DEF Opened
    <2>2. CASE Moves(p, "open")
      BY <2>1, <2>2, MovesItself DEF Point
    <2>3. CASE Leave(p)
      BY <2>1, <2>3, LeavesAlone
    <2> QED
      BY <2>1, <2>2, <2>3
  <1>1. TypeOKBackups'
    BY <1>u, <1>e DEF TypeOKBackups
  <1>2. HasAFile'
    BY <1>u, <1>e DEF HasAFile
  <1>3. FactsAreThere'
    BY <1>u DEF FactsAreThere, Kept
  <1>4. CopiedBeforeSwap'
    BY <1>u, <1>e DEF CopiedBeforeSwap, Kept
  <1>5. ContentsInOrder'
    BY <1>u DEF ContentsInOrder, InOrder
  <1>6. PlansAreWhole'
    BY <1>u, <1>e DEF PlansAreWhole, Its
  <1>7. ModelsAreCounted'
    BY <1>u DEF ModelsAreCounted
  <1>8. NewestIsItsOwn'
    BY <1>u, <1>e DEF NewestIsItsOwn, Restoring, NewestRow
  <1> QED
    BY <1>1, <1>2, <1>3, <1>4, <1>5, <1>6, <1>7, <1>8

LEMMA CloseKeeps ==
  ASSUME BackupInv, NEW p \in Holder, Close(p)
  PROVE  BackupInv'
  <1> USE BackupAssumption DEF BackupInv
  <1>u. UNCHANGED <<artifacts, astray, backups, committed, cut, deleted,
                    instance, models, shipped, visible>>
    BY DEF Close, fileVarsOfBackups, historyVars
  <1>1. TypeOKBackups'
    BY <1>u, ZenonT(60) DEF Close, TypeOKBackups, FileContent, Connection, Point, NoBackup,
      EmptyContent, Disconnected, Its, Leave, Others
  <1>2. HasAFile'
    BY <1>u DEF Close, HasAFile, Disconnected, Its, Leave, Others,
      TypeOKBackups, FileContent, Connection
  <1>3. FactsAreThere'
    BY <1>u DEF FactsAreThere, Kept
  <1>4. CopiedBeforeSwap'
    BY <1>u DEF Close, CopiedBeforeSwap, Kept, Disconnected, Its, Leave,
      Others, TypeOKBackups, FileContent, Connection
  <1>5. ContentsInOrder'
    <2>1. settled' = settled \/ settled' = [settled EXCEPT ![conn[p].on] = visible[conn[p].on]]
      BY DEF Close, Its
    <2>2. \A i \in 1..instance : settled'[i] = settled[i] \/ settled'[i] = visible[i]
      BY <2>1, SMTT(40) DEF TypeOKBackups
    <2> QED
      BY <1>u, <2>2 DEF ContentsInOrder
  <1>6. PlansAreWhole'
    BY <1>u DEF Close, PlansAreWhole, Disconnected, Its, Leave, Others,
      TypeOKBackups, FileContent, Connection
  <1>7. ModelsAreCounted'
    BY <1>u DEF Close, ModelsAreCounted, Its, Leave, Others, TypeOKBackups,
      FileContent, Connection
  <1>8. NewestIsItsOwn'
    BY <1>u DEF Close, NewestIsItsOwn, NewestRow, Restoring, Disconnected, Its,
      Leave, Others, TypeOKBackups, FileContent, Connection
  <1> QED
    BY <1>1, <1>2, <1>3, <1>4, <1>5, <1>6, <1>7, <1>8

LEMMA ProcessDiesKeeps ==
  ASSUME BackupInv, NEW p \in Holder, ProcessDies(p)
  PROVE  BackupInv'
  <1> USE BackupAssumption DEF BackupInv
  <1>u. UNCHANGED <<artifacts, astray, backups, committed, deleted,
                    instance, models, settled, shipped, visible>>
    BY DEF ProcessDies, fileVarsOfBackups
  <1>1. TypeOKBackups'
    BY <1>u DEF ProcessDies, TypeOKBackups, FileContent, Connection, Point,
      NoBackup, EmptyContent, Disconnected, Leave
  <1>2. HasAFile'
    BY <1>u DEF ProcessDies, HasAFile, Disconnected, Leave, TypeOKBackups,
      FileContent, Connection
  <1>3. FactsAreThere'
    BY <1>u DEF FactsAreThere, Kept
  <1>4. CopiedBeforeSwap'
    BY <1>u DEF ProcessDies, CopiedBeforeSwap, Kept, Disconnected, Leave,
      TypeOKBackups, FileContent, Connection
  <1>5. ContentsInOrder'
    BY <1>u DEF ContentsInOrder, InOrder
  <1>6. PlansAreWhole'
    BY <1>u DEF ProcessDies, PlansAreWhole, Disconnected, Its, Leave,
      TypeOKBackups, FileContent, Connection
  <1>7. ModelsAreCounted'
    BY <1>u DEF ModelsAreCounted
  <1>8. NewestIsItsOwn'
    BY <1>u DEF ProcessDies, NewestIsItsOwn, NewestRow, Restoring, Disconnected,
      Leave, TypeOKBackups, FileContent, Connection
  <1> QED
    BY <1>1, <1>2, <1>3, <1>4, <1>5, <1>6, <1>7, <1>8

LEMMA CheckpointKeeps ==
  ASSUME BackupInv, Checkpoint
  PROVE  BackupInv'
  <1> USE BackupAssumption DEF BackupInv
  <1>u. UNCHANGED <<artifacts, astray, backups, committed, conn, cut,
                    deleted, instance, models, shipped, visible>>
    BY DEF Checkpoint, fileVarsOfBackups, historyVars
  <1>1. TypeOKBackups'
    BY <1>u DEF Checkpoint, TypeOKBackups, FileContent, Connection, Point,
      NoBackup, EmptyContent, Disconnected
  <1>2. HasAFile'
    BY <1>u DEF HasAFile, Disconnected
  <1>3. FactsAreThere'
    BY <1>u DEF FactsAreThere, Kept
  <1>4. CopiedBeforeSwap'
    BY <1>u DEF CopiedBeforeSwap, Kept, Disconnected
  <1>5. ContentsInOrder'
    <2>1. \A i \in 1..instance : settled'[i] = settled[i] \/ settled'[i] = visible[i]
      BY DEF Checkpoint, TypeOKBackups
    <2> QED
      BY <1>u, <2>1 DEF ContentsInOrder
  <1>6. PlansAreWhole'
    BY <1>u DEF PlansAreWhole, Disconnected, Its
  <1>7. ModelsAreCounted'
    BY <1>u DEF Checkpoint, ModelsAreCounted, TypeOKBackups, FileContent,
      Connection
  <1>8. NewestIsItsOwn'
    BY <1>u DEF NewestIsItsOwn, NewestRow, Restoring, Disconnected
  <1> QED
    BY <1>1, <1>2, <1>3, <1>4, <1>5, <1>6, <1>7, <1>8

LEMMA CommitFactKeeps ==
  ASSUME BackupInv, NEW p \in Holder, NEW f \in Fact, CommitFact(p, f)
  PROVE  BackupInv'
  <1> USE BackupAssumption DEF BackupInv
  <1>u. UNCHANGED <<artifacts, backups, conn, cut, deleted, instance,
                    models, settled, shipped>>
    BY DEF CommitFact, fileVarsOfBackups
  <1>o. conn[p].on \in 1..MaxInstance /\ Its(p) \in FileContent /\ Its(p) = visible[conn[p].on]
    BY ItsFile DEF CommitFact, Its
  <1> DEFINE new == [Its(p) EXCEPT !.facts = @ \union {f}]
  <1>n. new \in FileContent
    BY <1>o DEF FileContent
  <1>w. /\ visible' \in [1..MaxInstance -> FileContent] /\ visible'[conn[p].on] = new
        /\ \A i \in 1..MaxInstance : i # conn[p].on => visible'[i] = visible[i]
    <2>1. Writes(p, new) /\ conn[p].at # "idle"
      BY DEF CommitFact
    <2> HIDE DEF new
    <2> QED
      BY <2>1, <1>n, WritesItsFile
  <1>1. TypeOKBackups'
    BY <1>u, <1>w DEF TypeOKBackups
  <1>2. HasAFile'
    BY <1>u DEF HasAFile, Disconnected
  <1>3. FactsAreThere'
    BY <1>u DEF CommitFact, FactsAreThere, Kept, Its, Writes, Swapping,
      TypeOKBackups, FileContent, Connection
  <1>4. CopiedBeforeSwap'
    <2>1. \A g : Kept(g) => Kept(g)'
      BY <1>u DEF CommitFact, Kept
    <2>2. ASSUME NEW q \in Holder, conn[q].at \in {"close", "unlog", "swap"}, conn[q].on = instance
          PROVE  \A g \in visible'[instance].facts : Kept(g)'
      <3>1. CASE conn[p].on = instance
        <4>1. q # p /\ Swapping(p)
          BY <2>2, <3>1 DEF CommitFact, Swapping
        <4>2. Kept(f)'
          BY <4>1 DEF CommitFact, Kept
        <4>3. visible'[instance].facts = visible[instance].facts \union {f}
          BY <1>o, <1>w, <3>1 DEF FileContent
        <4> QED
          BY <2>1, <2>2, <4>2, <4>3 DEF CopiedBeforeSwap
      <3>2. CASE conn[p].on # instance
        <4>1. visible'[instance] = visible[instance]
          BY <1>w, <3>2 DEF TypeOKBackups
        <4> QED
          BY <2>1, <2>2, <4>1 DEF CopiedBeforeSwap
      <3> QED
        BY <3>1, <3>2
    <2> QED
      BY <2>2, <1>u DEF CopiedBeforeSwap
  <1>5. ContentsInOrder'
    BY <1>u, SMTT(30) DEF CommitFact, ContentsInOrder, InOrder, Its, Writes, Swapping,
      TypeOKBackups, FileContent, Connection
  <1>6. PlansAreWhole'
    BY <1>u, SMTT(40) DEF CommitFact, PlansAreWhole, Disconnected, Its, Writes,
      Swapping, TypeOKBackups, FileContent, Connection
  <1>7. ModelsAreCounted'
    BY <1>u DEF CommitFact, ModelsAreCounted, Its, Writes, Swapping,
      TypeOKBackups, FileContent, Connection
  <1>8. NewestIsItsOwn'
    BY <1>u DEF CommitFact, NewestIsItsOwn, NewestRow, Restoring, Disconnected,
      Its, Writes, Swapping, TypeOKBackups, FileContent, Connection
  <1> QED
    BY <1>1, <1>2, <1>3, <1>4, <1>5, <1>6, <1>7, <1>8

LEMMA JobStartsKeeps ==
  ASSUME BackupInv, NEW p \in Holder, JobStarts(p)
  PROVE  BackupInv'
  <1> USE BackupAssumption DEF BackupInv
  <1>u. UNCHANGED <<artifacts, astray, backups, committed, cut, deleted,
                    instance, models, settled, shipped>>
    BY DEF JobStarts, fileVarsOfBackups, historyVars
  <1>o. conn[p].on \in 1..MaxInstance /\ Its(p) \in FileContent /\ Its(p) = visible[conn[p].on]
    BY ItsFile DEF JobStarts, Its
  <1> DEFINE new == [Its(p) EXCEPT !.running = TRUE]
  <1>n. new \in FileContent
    BY <1>o DEF FileContent
  <1>w. /\ visible' \in [1..MaxInstance -> FileContent] /\ visible'[conn[p].on] = new
        /\ \A i \in 1..MaxInstance : i # conn[p].on => visible'[i] = visible[i]
    <2>1. Writes(p, new) /\ conn[p].at # "idle"
      BY DEF JobStarts
    <2> HIDE DEF new
    <2> QED
      BY <2>1, <1>n, WritesItsFile
  <1>1. TypeOKBackups'
    <2>1. conn' \in [Holder -> Connection]
      BY MovesItself DEF JobStarts, Point
    <2> QED
      BY <2>1, <1>u, <1>w DEF TypeOKBackups
  <1>2. HasAFile'
    BY <1>u, SMTT(40) DEF JobStarts, HasAFile, Disconnected, Its, Moves, Writes,
      TypeOKBackups, FileContent, Connection
  <1>3. FactsAreThere'
    BY <1>u DEF JobStarts, FactsAreThere, Kept, Its, Moves, Writes,
      TypeOKBackups, FileContent, Connection
  <1>4. CopiedBeforeSwap'
    BY <1>u DEF JobStarts, CopiedBeforeSwap, Kept, Disconnected, Its, Moves,
      Writes, TypeOKBackups, FileContent, Connection
  <1>5. ContentsInOrder'
    BY <1>u, SMTT(30) DEF JobStarts, ContentsInOrder, InOrder, Its, Moves, Writes,
      TypeOKBackups, FileContent, Connection
  <1>6. PlansAreWhole'
    BY <1>u, SMTT(40) DEF JobStarts, PlansAreWhole, Disconnected, Its, Moves, Writes,
      TypeOKBackups, FileContent, Connection
  <1>7. ModelsAreCounted'
    BY <1>u DEF JobStarts, ModelsAreCounted, Its, Moves, Writes,
      TypeOKBackups, FileContent, Connection
  <1>8. NewestIsItsOwn'
    BY <1>u, SMTT(40) DEF JobStarts, NewestIsItsOwn, NewestRow, Restoring, Disconnected,
      Its, Moves, Writes, TypeOKBackups, FileContent, Connection
  <1> QED
    BY <1>1, <1>2, <1>3, <1>4, <1>5, <1>6, <1>7, <1>8

LEMMA JobDoneKeeps ==
  ASSUME BackupInv, NEW p \in Holder, JobDone(p)
  PROVE  BackupInv'
  <1> USE BackupAssumption DEF BackupInv
  <1>u. UNCHANGED <<artifacts, astray, backups, committed, cut, deleted,
                    instance, models, settled, shipped>>
    BY DEF JobDone, fileVarsOfBackups, historyVars
  <1>o. conn[p].on \in 1..MaxInstance /\ Its(p) \in FileContent /\ Its(p) = visible[conn[p].on]
    BY ItsFile DEF JobDone, Its
  <1> DEFINE new == [Its(p) EXCEPT !.running = FALSE]
  <1>n. new \in FileContent
    BY <1>o DEF FileContent
  <1>w. /\ visible' \in [1..MaxInstance -> FileContent] /\ visible'[conn[p].on] = new
        /\ \A i \in 1..MaxInstance : i # conn[p].on => visible'[i] = visible[i]
    <2>1. Writes(p, new) /\ conn[p].at # "idle"
      BY DEF JobDone
    <2> HIDE DEF new
    <2> QED
      BY <2>1, <1>n, WritesItsFile
  <1>1. TypeOKBackups'
    <2>1. conn' \in [Holder -> Connection]
      BY MovesItself DEF JobDone, Point
    <2> QED
      BY <2>1, <1>u, <1>w DEF TypeOKBackups
  <1>2. HasAFile'
    BY <1>u, SMTT(40) DEF JobDone, HasAFile, Disconnected, Its, Moves, Writes,
      TypeOKBackups, FileContent, Connection
  <1>3. FactsAreThere'
    BY <1>u DEF JobDone, FactsAreThere, Kept, Its, Moves, Writes,
      TypeOKBackups, FileContent, Connection
  <1>4. CopiedBeforeSwap'
    BY <1>u DEF JobDone, CopiedBeforeSwap, Kept, Disconnected, Its, Moves,
      Writes, TypeOKBackups, FileContent, Connection
  <1>5. ContentsInOrder'
    BY <1>u, SMTT(30) DEF JobDone, ContentsInOrder, InOrder, Its, Moves, Writes,
      TypeOKBackups, FileContent, Connection
  <1>6. PlansAreWhole'
    BY <1>u, SMTT(40) DEF JobDone, PlansAreWhole, Disconnected, Its, Moves, Writes,
      TypeOKBackups, FileContent, Connection
  <1>7. ModelsAreCounted'
    BY <1>u DEF JobDone, ModelsAreCounted, Its, Moves, Writes, TypeOKBackups,
      FileContent, Connection
  <1>8. NewestIsItsOwn'
    BY <1>u DEF JobDone, NewestIsItsOwn, NewestRow, Restoring, Disconnected,
      Its, Moves, Writes, TypeOKBackups, FileContent, Connection
  <1> QED
    BY <1>1, <1>2, <1>3, <1>4, <1>5, <1>6, <1>7, <1>8

LEMMA RecoverOrphanKeeps ==
  ASSUME BackupInv, NEW p \in Holder, RecoverOrphan(p)
  PROVE  BackupInv'
  <1> USE BackupAssumption DEF BackupInv
  <1>u. UNCHANGED <<artifacts, astray, backups, committed, conn, cut,
                    deleted, instance, models, settled, shipped>>
    BY DEF RecoverOrphan, fileVarsOfBackups, historyVars
  <1>o. conn[p].on \in 1..MaxInstance /\ Its(p) \in FileContent /\ Its(p) = visible[conn[p].on]
    BY ItsFile DEF RecoverOrphan, Its
  <1> DEFINE new == [Its(p) EXCEPT !.running = FALSE]
  <1>n. new \in FileContent
    BY <1>o DEF FileContent
  <1>w. /\ visible' \in [1..MaxInstance -> FileContent] /\ visible'[conn[p].on] = new
        /\ \A i \in 1..MaxInstance : i # conn[p].on => visible'[i] = visible[i]
    <2>1. Writes(p, new) /\ conn[p].at # "idle"
      BY DEF RecoverOrphan
    <2> HIDE DEF new
    <2> QED
      BY <2>1, <1>n, WritesItsFile
  <1>1. TypeOKBackups'
    BY <1>u, <1>w DEF TypeOKBackups
  <1>2. HasAFile'
    BY <1>u DEF HasAFile, Disconnected
  <1>3. FactsAreThere'
    BY <1>u DEF RecoverOrphan, FactsAreThere, Kept, Its, Writes,
      TypeOKBackups, FileContent, Connection
  <1>4. CopiedBeforeSwap'
    BY <1>u DEF RecoverOrphan, CopiedBeforeSwap, Kept, Disconnected, Its,
      Writes, TypeOKBackups, FileContent, Connection
  <1>5. ContentsInOrder'
    BY <1>u, SMTT(40) DEF RecoverOrphan, ContentsInOrder, InOrder, Its, Writes,
      TypeOKBackups, FileContent, Connection
  <1>6. PlansAreWhole'
    BY <1>u, SMTT(40) DEF RecoverOrphan, PlansAreWhole, Disconnected, Its, Writes,
      TypeOKBackups, FileContent, Connection
  <1>7. ModelsAreCounted'
    BY <1>u DEF RecoverOrphan, ModelsAreCounted, Its, Writes, TypeOKBackups,
      FileContent, Connection
  <1>8. NewestIsItsOwn'
    BY <1>u DEF RecoverOrphan, NewestIsItsOwn, NewestRow, Restoring,
      Disconnected, Its, Writes, TypeOKBackups, FileContent, Connection
  <1> QED
    BY <1>1, <1>2, <1>3, <1>4, <1>5, <1>6, <1>7, <1>8

LEMMA PublishModelKeeps ==
  ASSUME BackupInv, NEW p \in Holder, PublishModel(p)
  PROVE  BackupInv'
  <1> USE BackupAssumption DEF BackupInv
  <1>u. UNCHANGED <<astray, backups, committed, conn, cut, deleted,
                    instance, settled, shipped>>
    BY DEF PublishModel, historyVars
  <1>o. conn[p].on \in 1..MaxInstance /\ Its(p) \in FileContent /\ Its(p) = visible[conn[p].on]
    BY ItsFile DEF PublishModel, Its
  <1> DEFINE new == [Its(p) EXCEPT !.rows = @ \union {models + 1}, !.live = TRUE]
  <1>n. new \in FileContent
    <2>1. models + 1 \in Nat /\ Its(p).rows \union {models + 1} \in SUBSET Nat
      BY <1>o DEF FileContent, TypeOKBackups
    <2> QED
      BY <1>o, <2>1 DEF FileContent
  <1>w. /\ visible' \in [1..MaxInstance -> FileContent] /\ visible'[conn[p].on] = new
        /\ \A i \in 1..MaxInstance : i # conn[p].on => visible'[i] = visible[i]
    <2>1. Writes(p, new) /\ conn[p].at # "idle"
      BY DEF PublishModel
    <2> HIDE DEF new
    <2> QED
      BY <2>1, <1>n, WritesItsFile
  <1>1. TypeOKBackups'
    BY <1>u, <1>w DEF TypeOKBackups, PublishModel
  <1>2. HasAFile'
    BY <1>u DEF HasAFile, Disconnected
  <1>3. FactsAreThere'
    BY <1>u DEF PublishModel, FactsAreThere, Kept, Its, Writes,
      TypeOKBackups, FileContent, Connection
  <1>4. CopiedBeforeSwap'
    BY <1>u, SMTT(40) DEF PublishModel, CopiedBeforeSwap, Kept, Disconnected, Its,
      Writes, TypeOKBackups, FileContent, Connection
  <1>5. ContentsInOrder'
    <2>1. new.applied = Its(p).applied /\ new.twice = Its(p).twice
      BY <1>o DEF FileContent
    <2>2. \A i \in 1..instance : visible'[i].applied = visible[i].applied /\ visible'[i].twice = visible[i].twice
      <3> HIDE DEF new
      <3>1. \A i \in 1..instance : i \in 1..MaxInstance
        BY DEF TypeOKBackups
      <3> QED
        BY <1>o, <1>w, <2>1, <3>1
    <2> QED
      BY <1>u, <2>2 DEF ContentsInOrder, InOrder
  <1>6. PlansAreWhole'
    BY <1>u, SMTT(40) DEF PublishModel, PlansAreWhole, Disconnected, Its, Writes,
      TypeOKBackups, FileContent, Connection
  <1>7. ModelsAreCounted'
    BY <1>u, SMTT(30) DEF PublishModel, ModelsAreCounted, Its, Writes, TypeOKBackups,
      FileContent, Connection
  <1>8. NewestIsItsOwn'
    <2>1. models \in Nat /\ models' = models + 1 /\ instance \in 1..MaxInstance
      BY DEF PublishModel, TypeOKBackups
    <2>2. models + 1 \in artifacts' /\ \A m \in artifacts : m \in Its(p).rows \/ m \in artifacts'
      BY DEF PublishModel
    <2>3. visible'[conn[p].on].rows = visible[conn[p].on].rows \union {models + 1}
      BY <1>o, <1>w DEF FileContent
    <2>4. \A i \in 1..instance : \A m \in visible[i].rows : m <= models /\ m \in Nat
      <3>1. \A i \in 1..instance : i \in 1..MaxInstance
        BY <2>1
      <3> QED
        BY <3>1 DEF ModelsAreCounted, TypeOKBackups, FileContent
    <2>5. CASE conn[p].on = instance
      <3>1. \A m \in visible'[instance].rows : NewestRow(m, visible'[instance].rows) => m = models + 1
        BY <2>1, <2>3, <2>4, <2>5 DEF NewestRow
      <3>2. \A i \in 1..instance : i # instance => visible'[i] = visible[i]
        BY <1>w, <2>1, <2>5
      <3>3. \A i \in 1..instance : i # instance => models + 1 \notin visible[i].rows
        BY <2>1, <2>4
      <3> QED
        BY <1>u, <2>2, <3>1, <3>2, <3>3 DEF NewestIsItsOwn
    <2>6. CASE conn[p].on # instance
      <3>1. visible'[instance] = visible[instance]
        BY <1>w, <2>1, <2>6
      <3>2. ASSUME NEW m \in visible[instance].rows, m \in artifacts,
                   \A i \in 1..instance : i # instance => m \notin visible[i].rows
            PROVE  m \in artifacts' /\ \A i \in 1..instance : i # instance => m \notin visible'[i].rows
        <4>1. m # models + 1
          BY <2>1, <2>4
        <4>2. conn[p].on \in 1..instance
          BY ItsFile DEF PublishModel
        <4>3. m \in artifacts'
          BY <4>2, <3>2, <2>2, <2>6, <1>o
        <4>4. \A i \in 1..instance : i # conn[p].on => visible'[i] = visible[i]
          BY <1>w, <2>1
        <4> QED
          BY <4>1, <4>3, <4>4, <3>2, <2>3
      <3>3. \A q \in Holder : Restoring(q) => Restoring(q)'
        BY <1>u DEF Restoring
      <3> QED
        BY <1>u, <3>1, <3>2, <3>3 DEF NewestIsItsOwn
    <2> QED
      BY <2>5, <2>6
  <1> QED
    BY <1>1, <1>2, <1>3, <1>4, <1>5, <1>6, <1>7, <1>8

LEMMA CreateBackupKeeps ==
  ASSUME BackupInv, NEW p \in Holder, CreateBackup(p)
  PROVE  BackupInv'
  <1> USE BackupAssumption DEF BackupInv
  <1>u. UNCHANGED <<artifacts, astray, committed, conn, cut, deleted,
                    instance, models, settled, shipped, visible>>
    BY DEF CreateBackup, historyVars
  <1>o. conn[p].on \in 1..instance /\ Its(p) \in FileContent /\ Its(p) = visible[conn[p].on]
    BY ItsFile DEF CreateBackup, Its
  <1>e. PICK content \in FileContent :
          /\ content = Its(p) \/ content = NoBackup
          /\ backups' \in [1..MaxBackups -> FileContent]
          /\ \A b \in 1..MaxBackups :
               \/ backups'[b] = backups[b]
               \/ backups[b] = NoBackup /\ backups'[b] = content
    <2> DEFINE new == IF Understood(Its(p), conn[p].version) THEN Its(p) ELSE NoBackup
    <2>1. FreeBackups # {} /\ backups' = [backups EXCEPT ![FreeName] = new]
      BY FreeNameIsFree DEF CreateBackup, Snapshot, TypeOKBackups
    <2>2. new \in FileContent /\ (new = Its(p) \/ new = NoBackup)
      BY <1>o, NoBackupIsEmpty
    <2> HIDE DEF new
    <2> QED
      BY <2>1, <2>2, BackupIsAdded
  <1>k. \A f : Kept(f) => Kept(f)'
    BY <1>u, <1>e, KeptStaysKept
  <1>1. TypeOKBackups'
    BY <1>u, <1>e DEF TypeOKBackups
  <1>2. HasAFile'
    BY <1>u DEF HasAFile, Disconnected
  <1>3. FactsAreThere'
    BY <1>u, <1>k DEF FactsAreThere
  <1>4. CopiedBeforeSwap'
    BY <1>u, <1>k DEF CopiedBeforeSwap
  <1>5. ContentsInOrder'
    BY <1>u, <1>e, <1>o DEF ContentsInOrder, InOrder
  <1>6. PlansAreWhole'
    BY <1>u DEF PlansAreWhole, Disconnected, Its
  <1>7. ModelsAreCounted'
    <2>1. \A m \in Its(p).rows : m <= models
      BY <1>o DEF ModelsAreCounted, TypeOKBackups
    <2>2. \A m \in content.rows : m <= models
      BY <1>e, <2>1, NoBackupIsEmpty
    <2>3. \A b \in 1..MaxBackups : backups'[b] = backups[b] \/ backups'[b] = content
      BY <1>e
    <2> QED
      BY <1>u, <2>2, <2>3 DEF ModelsAreCounted
  <1>8. NewestIsItsOwn'
    BY <1>u DEF NewestIsItsOwn, NewestRow, Restoring, Disconnected
  <1> QED
    BY <1>1, <1>2, <1>3, <1>4, <1>5, <1>6, <1>7, <1>8

LEMMA DeleteBackupKeeps ==
  ASSUME BackupInv, NEW p \in Holder, NEW b \in 1..MaxBackups, DeleteBackup(p, b)
  PROVE  BackupInv'
  <1> USE BackupAssumption DEF BackupInv
  <1>u. UNCHANGED <<artifacts, astray, committed, conn, cut, instance,
                    models, settled, shipped, visible>>
    BY DEF DeleteBackup
  <1>e. /\ backups' \in [1..MaxBackups -> FileContent]
        /\ \A c \in 1..MaxBackups : backups'[c] = backups[c] \/ (c = b /\ backups'[c] = NoBackup)
    BY NoBackupIsEmpty DEF DeleteBackup, TypeOKBackups
  <1>k. \A f : Kept(f) => Kept(f)'
    BY <1>u, <1>e, KeptStaysKept DEF DeleteBackup
  <1>1. TypeOKBackups'
    BY <1>u DEF DeleteBackup, TypeOKBackups, FileContent, Connection, Point,
      NoBackup, EmptyContent, Disconnected, Its, StoredBackups
  <1>2. HasAFile'
    BY <1>u DEF HasAFile, Disconnected
  <1>3. FactsAreThere'
    BY <1>u, <1>k DEF FactsAreThere
  <1>4. CopiedBeforeSwap'
    BY <1>u, <1>k DEF CopiedBeforeSwap
  <1>5. ContentsInOrder'
    BY <1>u DEF DeleteBackup, ContentsInOrder, InOrder, Its, StoredBackups,
      TypeOKBackups, FileContent, Connection
  <1>6. PlansAreWhole'
    BY <1>u DEF PlansAreWhole, Disconnected, Its
  <1>7. ModelsAreCounted'
    BY <1>u, <1>e, NoBackupIsEmpty DEF ModelsAreCounted
  <1>8. NewestIsItsOwn'
    BY <1>u DEF NewestIsItsOwn, NewestRow, Restoring, Disconnected
  <1> QED
    BY <1>1, <1>2, <1>3, <1>4, <1>5, <1>6, <1>7, <1>8

LEMMA CopiesForSafetyKeeps ==
  ASSUME BackupInv, NEW p \in Holder, NEW b \in 1..MaxBackups, CopiesForSafety(p, b)
  PROVE  BackupInv'
  <1> USE BackupAssumption DEF BackupInv
  <1>u. UNCHANGED <<artifacts, astray, committed, cut, deleted, instance,
                    models, settled, shipped, visible>>
    BY DEF CopiesForSafety, historyVars
  <1>o. conn[p].on \in 1..instance /\ Its(p) \in FileContent /\ Its(p) = visible[conn[p].on]
    BY ItsFile DEF CopiesForSafety, Its
  <1>e. /\ backups' \in [1..MaxBackups -> FileContent]
        /\ \A c \in 1..MaxBackups :
             \/ backups'[c] = backups[c]
             \/ backups[c] = NoBackup /\ backups'[c] = Its(p)
        /\ \E c \in 1..MaxBackups : backups'[c] = Its(p)
    BY <1>o, BackupIsAdded DEF CopiesForSafety, Snapshot
  <1>k. \A f : Kept(f) => Kept(f)'
    BY <1>u, <1>e, KeptStaysKept
  <1>c. /\ conn' \in [Holder -> Connection]
        /\ conn[p].at = "open" /\ conn'[p].at = "close" /\ conn'[p].on = conn[p].on
        /\ \A q \in Holder : q # p => conn'[q] = conn[q]
    <2>1. conn' = [conn EXCEPT ![p].at = "close", ![p].of = b] /\ conn[p].at = "open" /\ b \in Nat
      BY DEF CopiesForSafety
    <2> QED
      BY <2>1, ZenonT(60) DEF TypeOKBackups, Connection, Point
  <1>1. TypeOKBackups'
    BY <1>u, <1>e, <1>c DEF TypeOKBackups
  <1>2. HasAFile'
    BY <1>u, <1>c DEF HasAFile
  <1>3. FactsAreThere'
    BY <1>u, <1>k DEF FactsAreThere
  <1>4. CopiedBeforeSwap'
    <2>1. \A f \in visible[conn[p].on].facts : Kept(f)'
      BY <1>o, <1>e DEF Kept
    <2> QED
      BY <1>u, <1>k, <1>c, <2>1 DEF CopiedBeforeSwap
  <1>5. ContentsInOrder'
    BY <1>u, <1>e, <1>o DEF ContentsInOrder
  <1>6. PlansAreWhole'
    BY <1>u, <1>c DEF PlansAreWhole, Its
  <1>7. ModelsAreCounted'
    <2>1. \A m \in Its(p).rows : m <= models
      BY <1>o DEF ModelsAreCounted, TypeOKBackups
    <2>2. \A c \in 1..MaxBackups : \A m \in backups'[c].rows : m <= models
      BY <1>e, <2>1 DEF ModelsAreCounted
    <2>3. \A i \in 1..MaxInstance : \A m \in visible[i].rows \union settled[i].rows : m <= models
      BY DEF ModelsAreCounted
    <2> QED
      BY <1>u, <2>2, <2>3 DEF ModelsAreCounted
  <1>8. NewestIsItsOwn'
    BY <1>u, <1>c DEF NewestIsItsOwn, NewestRow, Restoring
  <1> QED
    BY <1>1, <1>2, <1>3, <1>4, <1>5, <1>6, <1>7, <1>8

LEMMA ClosesForSwapKeeps ==
  ASSUME BackupInv, NEW p \in Holder, ClosesForSwap(p)
  PROVE  BackupInv'
  <1> USE BackupAssumption DEF BackupInv
  <1>u. UNCHANGED <<artifacts, astray, backups, committed, cut, deleted,
                    instance, models, shipped, visible>>
    BY DEF ClosesForSwap, fileVarsOfBackups, historyVars
  <1>1. TypeOKBackups'
    BY <1>u, ZenonT(40) DEF ClosesForSwap, TypeOKBackups, FileContent, Connection, Point,
      NoBackup, EmptyContent, Disconnected, Its, Moves, Others
  <1>2. HasAFile'
    BY <1>u, SMTT(40) DEF ClosesForSwap, HasAFile, Disconnected, Its, Moves, Others,
      TypeOKBackups, FileContent, Connection
  <1>3. FactsAreThere'
    BY <1>u DEF FactsAreThere, Kept
  <1>4. CopiedBeforeSwap'
    BY <1>u DEF ClosesForSwap, CopiedBeforeSwap, Kept, Disconnected, Its,
      Moves, Others, TypeOKBackups, FileContent, Connection
  <1>5. ContentsInOrder'
    <2>1. settled' = settled \/ settled' = [settled EXCEPT ![conn[p].on] = visible[conn[p].on]]
      BY DEF ClosesForSwap, Its
    <2>2. \A i \in 1..instance : settled'[i] = settled[i] \/ settled'[i] = visible[i]
      BY <2>1 DEF TypeOKBackups
    <2> QED
      BY <1>u, <2>2 DEF ContentsInOrder
  <1>6. PlansAreWhole'
    BY <1>u, SMTT(40) DEF ClosesForSwap, PlansAreWhole, Disconnected, Its, Moves,
      Others, TypeOKBackups, FileContent, Connection
  <1>7. ModelsAreCounted'
    BY <1>u DEF ClosesForSwap, ModelsAreCounted, Its, Moves, Others,
      TypeOKBackups, FileContent, Connection
  <1>8. NewestIsItsOwn'
    BY <1>u DEF ClosesForSwap, NewestIsItsOwn, NewestRow, Restoring,
      Disconnected, Its, Moves, Others, TypeOKBackups, FileContent, Connection
  <1> QED
    BY <1>1, <1>2, <1>3, <1>4, <1>5, <1>6, <1>7, <1>8

(* The file at the path is replaced, by what was settled or by a backup.   *)
LEMMA SwapKeeps ==
  ASSUME BackupInv, NEW p \in Holder, conn[p].at \in {"unlog", "swap"},
         conn' \in [Holder -> Connection], conn'[p].at \in {"swap", "reopen"},
         conn'[p].on = conn[p].on, \A q \in Holder : q # p => conn'[q] = conn[q],
         NEW content \in FileContent, Swapped(content),
         InOrder(content), \A m \in content.rows : m <= models,
         astray' = astray \union Unsaved(p),
         UNCHANGED <<backups, committed, cut, deleted, models, shipped>>
  PROVE  BackupInv'
  <1> USE BackupAssumption DEF BackupInv
  <1>s. /\ instance' = instance + 1 /\ instance' \in 1..MaxInstance
        /\ visible' \in [1..MaxInstance -> FileContent] /\ settled' \in [1..MaxInstance -> FileContent]
        /\ visible'[instance'] = content /\ settled'[instance'] = content
        /\ \A i \in 1..MaxInstance : i # instance' => visible'[i] = visible[i] /\ settled'[i] = settled[i]
    BY SwappedIn
  <1>i. instance \in 1..MaxInstance /\ instance \in Nat
    BY DEF TypeOKBackups
  <1>o. \A q \in Holder : conn[q].at # "idle" => conn[q].on \in 1..MaxInstance /\ conn[q].on < instance'
    BY <1>s, <1>i DEF HasAFile
  <1>k. \A f : Kept(f) => Kept(f)'
    BY DEF Kept
  <1>f. \A f \in visible[instance].facts : Kept(f)'
    BY DEF Unsaved, CopiedBeforeSwap, Kept
  <1>1. TypeOKBackups'
    BY <1>s DEF TypeOKBackups
  <1>2. HasAFile'
    BY <1>s, <1>i DEF HasAFile
  <1>3. FactsAreThere'
    BY <1>f, <1>k DEF FactsAreThere
  <1>4. CopiedBeforeSwap'
    <2>1. \A q \in Holder : conn'[q].at \in {"close", "unlog", "swap"} => conn'[q].on < instance'
      BY <1>o
    <2>2. \A q \in Holder : conn'[q].at \in {"close", "unlog", "swap"} => conn'[q].on # instance'
      BY <2>1, <1>s, <1>i
    <2> QED
      BY <2>2 DEF CopiedBeforeSwap
  <1>5. ContentsInOrder'
    BY <1>s, <1>i, SMTT(40) DEF ContentsInOrder
  <1>6. PlansAreWhole'
    <2>1. \A q \in Holder : conn[q].at # "idle" => visible'[conn[q].on] = visible[conn[q].on]
      BY <1>o, <1>s, <1>i
    <2> QED
      BY <2>1 DEF PlansAreWhole, Its
  <1>7. ModelsAreCounted'
    BY <1>s DEF ModelsAreCounted
  <1>8. NewestIsItsOwn'
    BY DEF NewestIsItsOwn, Restoring
  <1> QED
    BY <1>1, <1>2, <1>3, <1>4, <1>5, <1>6, <1>7, <1>8

LEMMA RemovesLogKeeps ==
  ASSUME BackupInv, NEW p \in Holder, RemovesLog(p)
  PROVE  BackupInv'
  <1>1. /\ conn' \in [Holder -> Connection] /\ conn[p].at = "unlog"
        /\ conn'[p].at = "swap" /\ conn'[p].on = conn[p].on
        /\ \A q \in Holder : q # p => conn'[q] = conn[q]
    BY MovesItself DEF RemovesLog, Point, BackupInv
  <1>2. UNCHANGED <<backups, committed, cut, deleted, models, shipped>>
    BY DEF RemovesLog, fileVarsOfBackups
  <1>3. instance \in 1..MaxInstance /\ settled[instance] \in FileContent
        /\ InOrder(settled[instance]) /\ \A m \in settled[instance].rows : m <= models
    BY DEF BackupInv, TypeOKBackups, ContentsInOrder, ModelsAreCounted
  <1>4. CASE settled[instance] = visible[instance]
    <2>1. UNCHANGED <<instance, visible, settled, astray>>
      BY <1>4 DEF RemovesLog
    <2> USE <1>1, <1>2, <2>1 DEF BackupInv
    <2>2. TypeOKBackups' /\ HasAFile' /\ FactsAreThere'
      BY DEF TypeOKBackups, HasAFile, FactsAreThere, Kept
    <2>3. CopiedBeforeSwap' /\ ContentsInOrder' /\ ModelsAreCounted'
      BY DEF CopiedBeforeSwap, Kept, ContentsInOrder, ModelsAreCounted
    <2>4. PlansAreWhole' /\ NewestIsItsOwn'
      BY DEF PlansAreWhole, Its, NewestIsItsOwn, Restoring
    <2> QED
      BY <2>2, <2>3, <2>4
  <1>5. CASE settled[instance] # visible[instance]
    <2>1. Swapped(settled[instance]) /\ astray' = astray \union Unsaved(p)
      BY <1>5 DEF RemovesLog
    <2> QED
      BY <1>1, <1>2, <1>3, <2>1, SwapKeeps
  <1> QED
    BY <1>4, <1>5

LEMMA SwapsFileKeeps ==
  ASSUME BackupInv, NEW p \in Holder, SwapsFile(p)
  PROVE  BackupInv'
  <1>1. /\ conn' \in [Holder -> Connection] /\ conn[p].at = "swap"
        /\ conn'[p].at = "reopen" /\ conn'[p].on = conn[p].on
        /\ \A q \in Holder : q # p => conn'[q] = conn[q]
    BY MovesItself DEF SwapsFile, Point, BackupInv
  <1>2. UNCHANGED <<backups, committed, cut, deleted, models, shipped>>
    BY DEF SwapsFile, fileVarsOfBackups
  <1>3. PICK b \in 1..MaxBackups : b = conn[p].of /\ backups[b] # NoBackup
    BY DEF SwapsFile, StoredBackups, FreeBackups
  <1>4. /\ backups[b] \in FileContent /\ InOrder(backups[b])
        /\ \A m \in backups[b].rows : m <= models
    BY <1>3 DEF BackupInv, TypeOKBackups, ContentsInOrder, ModelsAreCounted
  <1>5. Swapped(backups[b]) /\ astray' = astray \union Unsaved(p)
    BY <1>3 DEF SwapsFile
  <1> QED
    BY <1>1, <1>2, <1>4, <1>5, SwapKeeps

LEMMA SwapFailsKeeps ==
  ASSUME BackupInv, NEW p \in Holder, SwapFails(p)
  PROVE  BackupInv'
  <1> USE BackupAssumption DEF BackupInv
  <1>u. UNCHANGED <<artifacts, astray, backups, committed, deleted,
                    instance, models, settled, shipped, visible>>
    BY DEF SwapFails, fileVarsOfBackups
  <1>1. TypeOKBackups'
    BY <1>u DEF SwapFails, TypeOKBackups, FileContent, Connection, Point,
      NoBackup, EmptyContent, Disconnected, Leave
  <1>2. HasAFile'
    BY <1>u DEF SwapFails, HasAFile, Disconnected, Leave, TypeOKBackups,
      FileContent, Connection
  <1>3. FactsAreThere'
    BY <1>u DEF FactsAreThere, Kept
  <1>4. CopiedBeforeSwap'
    BY <1>u DEF SwapFails, CopiedBeforeSwap, Kept, Disconnected, Leave,
      TypeOKBackups, FileContent, Connection
  <1>5. ContentsInOrder'
    BY <1>u DEF ContentsInOrder, InOrder
  <1>6. PlansAreWhole'
    BY <1>u DEF SwapFails, PlansAreWhole, Disconnected, Its, Leave,
      TypeOKBackups, FileContent, Connection
  <1>7. ModelsAreCounted'
    BY <1>u DEF ModelsAreCounted
  <1>8. NewestIsItsOwn'
    BY <1>u DEF SwapFails, NewestIsItsOwn, NewestRow, Restoring, Disconnected,
      Leave, TypeOKBackups, FileContent, Connection
  <1> QED
    BY <1>1, <1>2, <1>3, <1>4, <1>5, <1>6, <1>7, <1>8

LEMMA OpensRestoredKeeps ==
  ASSUME BackupInv, NEW p \in Holder, OpensRestored(p)
  PROVE  BackupInv'
  <1> USE BackupAssumption DEF BackupInv
  <1>u. UNCHANGED <<artifacts, astray, backups, committed, cut, deleted,
                    instance, models, settled, shipped, visible>>
    BY DEF OpensRestored, fileVarsOfBackups, historyVars
  <1>c. /\ conn' \in [Holder -> Connection]
        /\ conn[p].at = "reopen" /\ conn'[p].at = "reconnected" /\ conn'[p].on = instance
        /\ \A q \in Holder : q # p => conn'[q] = conn[q]
    <2>1. /\ conn' = [conn EXCEPT ![p].at = "reconnected", ![p].on = instance]
          /\ conn[p].at = "reopen" /\ instance \in Nat
      BY DEF OpensRestored, TypeOKBackups
    <2> QED
      BY <2>1, ZenonT(60) DEF TypeOKBackups, Connection, Point
  <1>1. TypeOKBackups'
    BY <1>u, <1>c DEF TypeOKBackups
  <1>2. HasAFile'
    BY <1>u, <1>c, SMTT(40) DEF HasAFile, TypeOKBackups
  <1>3. FactsAreThere'
    BY <1>u DEF FactsAreThere, Kept
  <1>4. CopiedBeforeSwap'
    BY <1>u, <1>c DEF CopiedBeforeSwap, Kept
  <1>5. ContentsInOrder'
    BY <1>u DEF ContentsInOrder, InOrder
  <1>6. PlansAreWhole'
    BY <1>u, <1>c DEF PlansAreWhole, Its
  <1>7. ModelsAreCounted'
    BY <1>u DEF ModelsAreCounted
  <1>8. NewestIsItsOwn'
    BY <1>u, <1>c DEF NewestIsItsOwn, NewestRow, Restoring
  <1> QED
    BY <1>1, <1>2, <1>3, <1>4, <1>5, <1>6, <1>7, <1>8

LEMMA WithdrawsModelsKeeps ==
  ASSUME BackupInv, NEW p \in Holder, WithdrawsModels(p)
  PROVE  BackupInv'
  <1> USE BackupAssumption DEF BackupInv
  <1>u. UNCHANGED <<artifacts, astray, backups, committed, cut, deleted,
                    instance, models, settled, shipped>>
    BY DEF WithdrawsModels, fileVarsOfBackups, historyVars
  <1>o. conn[p].on \in 1..MaxInstance /\ Its(p) \in FileContent /\ Its(p) = visible[conn[p].on]
    BY ItsFile DEF WithdrawsModels, Its
  <1> DEFINE new == [Its(p) EXCEPT !.live = FALSE]
  <1>n. new \in FileContent
    BY <1>o DEF FileContent
  <1>w. /\ visible' \in [1..MaxInstance -> FileContent] /\ visible'[conn[p].on] = new
        /\ \A i \in 1..MaxInstance : i # conn[p].on => visible'[i] = visible[i]
    <2>1. Writes(p, new) /\ conn[p].at # "idle"
      BY DEF WithdrawsModels
    <2> HIDE DEF new
    <2> QED
      BY <2>1, <1>n, WritesItsFile
  <1>1. TypeOKBackups'
    <2>1. conn' \in [Holder -> Connection]
      BY LeavesAlone DEF WithdrawsModels
    <2> QED
      BY <2>1, <1>u, <1>w DEF TypeOKBackups
  <1>2. HasAFile'
    BY <1>u DEF WithdrawsModels, HasAFile, Disconnected, Its, Leave, Writes,
      TypeOKBackups, FileContent, Connection
  <1>3. FactsAreThere'
    BY <1>u DEF WithdrawsModels, FactsAreThere, Kept, Its, Leave, Writes,
      TypeOKBackups, FileContent, Connection
  <1>4. CopiedBeforeSwap'
    BY <1>u DEF WithdrawsModels, CopiedBeforeSwap, Kept, Disconnected, Its,
      Leave, Writes, TypeOKBackups, FileContent, Connection
  <1>5. ContentsInOrder'
    BY <1>u, SMTT(40) DEF WithdrawsModels, ContentsInOrder, InOrder, Its, Leave,
      Writes, TypeOKBackups, FileContent, Connection
  <1>6. PlansAreWhole'
    BY <1>u, SMTT(40) DEF WithdrawsModels, PlansAreWhole, Disconnected, Its, Leave,
      Writes, TypeOKBackups, FileContent, Connection
  <1>7. ModelsAreCounted'
    BY <1>u DEF WithdrawsModels, ModelsAreCounted, Its, Leave, Writes,
      TypeOKBackups, FileContent, Connection
  <1>8. NewestIsItsOwn'
    <2>1. \A q \in Holder : q # p => conn'[q] = conn[q]
      BY LeavesAlone DEF WithdrawsModels
    <2>2. CASE conn[p].on = instance
      <3>1. visible'[instance].live = FALSE
        BY <1>o, <1>w, <2>2 DEF FileContent
      <3> QED
        BY <1>u, <3>1 DEF NewestIsItsOwn
    <2>3. CASE conn[p].on # instance
      <3>1. ~Restoring(p)
        BY <2>3 DEF WithdrawsModels, Restoring
      <3>2. \A i \in 1..instance : visible'[i].rows = visible[i].rows
        BY <1>o, <1>w, SMTT(40) DEF FileContent, TypeOKBackups
      <3>3. visible'[instance] = visible[instance]
        BY <1>w, <2>3 DEF TypeOKBackups
      <3>4. \A q \in Holder : Restoring(q) => Restoring(q)'
        BY <1>u, <2>1, <3>1 DEF Restoring
      <3> QED
        BY <1>u, <3>2, <3>3, <3>4 DEF NewestIsItsOwn, NewestRow
    <2> QED
      BY <2>2, <2>3
  <1> QED
    BY <1>1, <1>2, <1>3, <1>4, <1>5, <1>6, <1>7, <1>8

LEMMA NextKeeps ==
  ASSUME BackupInv, [NextBackups]_backupVars
  PROVE  BackupInv'
  <1>1. CASE UNCHANGED backupVars
    BY <1>1 DEF backupVars, BackupInv, TypeOKBackups, HasAFile, FactsAreThere,
      CopiedBeforeSwap, ContentsInOrder, PlansAreWhole, ModelsAreCounted,
      NewestIsItsOwn, Its, Kept, InOrder, Restoring, NewestRow
  <1>2. CASE NextBackups
    BY <1>2, PluginShipsKeeps, ConnectKeeps, QueryMigrationStatusKeeps,
      MigrateOneKeeps, OpenedKeeps, CloseKeeps, ProcessDiesKeeps,
      CheckpointKeeps, CommitFactKeeps, JobStartsKeeps, JobDoneKeeps,
      RecoverOrphanKeeps, PublishModelKeeps, CreateBackupKeeps,
      DeleteBackupKeeps, CopiesForSafetyKeeps, ClosesForSwapKeeps,
      RemovesLogKeeps, SwapsFileKeeps, SwapFailsKeeps, OpensRestoredKeeps,
      WithdrawsModelsKeeps DEF NextBackups
  <1> QED
    BY <1>1, <1>2

-----------------------------------------------------------------------------
LEMMA InitBackupInv ==
  ASSUME InitBackups
  PROVE  BackupInv
  <1>1. EmptyContent \in FileContent /\ NoBackup \in FileContent
    BY DEF EmptyContent, NoBackup, FileContent
  <1>a. MaxInstance \in Nat \ {0}
    BY BackupAssumption
  <1> DEFINE first == [EmptyContent EXCEPT !.applied = {1}, !.rows = {1}, !.live = TRUE]
  <1>2. first \in FileContent /\ first.applied = {1} /\ first.rows = {1} /\ first.twice = FALSE
    <2>1. EmptyContent \in FileContent /\ EmptyContent.twice = FALSE /\ {1} \in SUBSET Nat
      BY <1>1 DEF EmptyContent
    <2>2. /\ EmptyContent.facts \in SUBSET Fact /\ EmptyContent.running \in BOOLEAN
          /\ EmptyContent.twice \in BOOLEAN
      BY <2>1 DEF FileContent
    <2>3. first.applied = {1} /\ first.rows = {1} /\ first.live = TRUE
      BY <2>1 DEF FileContent
    <2> QED
      BY <2>1, <2>2, <2>3 DEF FileContent
  <1>3. EmptyContent.rows = {} /\ NoBackup.rows = {}
    BY DEF EmptyContent, NoBackup
  <1> HIDE DEF first
  <1>4. visible = [i \in 1..MaxInstance |-> IF i = 1 THEN first ELSE EmptyContent] /\ settled = visible
    BY DEF first, InitBackups
  <1>5. visible[1] = first /\ settled[1] = first /\ 1 \in 1..MaxInstance
    BY <1>4, BackupAssumption
  <1>6. conn \in [Holder -> Connection] /\ \A p \in Holder : conn[p].at = "idle"
    BY DEF InitBackups, Disconnected, Connection, Point
  <1>7. TypeOKBackups
    <2>1. visible \in [1..MaxInstance -> FileContent] /\ settled \in [1..MaxInstance -> FileContent]
      BY <1>1, <1>2, <1>4
    <2>2. instance \in 1..MaxInstance /\ shipped \in Nat /\ models \in Nat
      BY <1>a DEF InitBackups
    <2>4. cut \in BOOLEAN
      BY Zenon DEF InitBackups
    <2>3. backups \in [1..MaxBackups -> FileContent]
      BY <1>1 DEF InitBackups
    <2> QED
      BY <1>6, <2>1, <2>2, <2>3, <2>4 DEF TypeOKBackups
  <1>8. HasAFile /\ CopiedBeforeSwap /\ PlansAreWhole
    BY <1>6 DEF HasAFile, CopiedBeforeSwap, PlansAreWhole
  <1>9. FactsAreThere
    BY DEF FactsAreThere, InitBackups
  <1>10. ContentsInOrder
    <2>1. InOrder(first)
      BY <1>2 DEF InOrder
    <2>2. instance = 1 /\ \A b \in 1..MaxBackups : backups[b] = NoBackup
      BY DEF InitBackups
    <2> QED
      BY <1>5, <2>1, <2>2 DEF ContentsInOrder
  <1>11. ModelsAreCounted
    BY <1>2, <1>3, <1>4 DEF ModelsAreCounted, InitBackups
  <1>12. NewestIsItsOwn
    BY <1>2, <1>5 DEF NewestIsItsOwn, InitBackups
  <1> QED
    BY <1>7, <1>8, <1>9, <1>10, <1>11, <1>12 DEF BackupInv

LEMMA InvIsSafe ==
  ASSUME BackupInv
  PROVE  RestoreIsSafe
  <1>1. NothingIsLost
    <2> DEFINE stored == UNION {backups[b].facts : b \in StoredBackups}
    <2>1. ASSUME NEW f, Kept(f)
          PROVE  f \in stored \union astray \union deleted
      <3>1. CASE \E b \in 1..MaxBackups : f \in backups[b].facts
        <4>1. PICK b \in 1..MaxBackups : f \in backups[b].facts
          BY <3>1
        <4>2. b \in StoredBackups
          BY <4>1, NoBackupIsEmpty DEF StoredBackups, FreeBackups
        <4> QED
          BY <4>1, <4>2
      <3>2. CASE f \in astray \union deleted
        <4> HIDE DEF stored
        <4> QED
          BY <3>2
      <3> QED
        BY <2>1, <3>1, <3>2 DEF Kept
    <2> HIDE DEF stored
    <2>2. ASSUME NEW f \in committed
          PROVE  f \in visible[instance].facts \union stored \union astray \union deleted
      BY <2>1 DEF BackupInv, FactsAreThere
    <2>3. committed \subseteq visible[instance].facts \union stored \union astray \union deleted
      BY <2>2
    <2> QED
      BY <2>3 DEF NothingIsLost, stored
  <1>2. OpensAgain
    BY DEF OpensAgain, BackupInv, NewestIsItsOwn, Restoring, Attachable,
      NewestRow, NewestOf
  <1>3. MigrationsRunOnce
    BY DEF MigrationsRunOnce, BackupInv, ContentsInOrder, InOrder, PlansAreWhole
  <1> QED
    BY <1>1, <1>2, <1>3 DEF RestoreIsSafe

(* The inductive invariant holds in every reachable state.                  *)
THEOREM BackupsInvariant == SpecBackups => []BackupInv
  BY InitBackupInv, NextKeeps, PTL DEF SpecBackups

(* Whatever the number of processes, files, backups, models, versions and   *)
(* connections: across copies, restores, deaths and the swap of a file that *)
(* others hold open, restoreBackup and the migrations lose no committed     *)
(* fact, leave a sidecar that can be opened, and apply each migration once. *)
THEOREM RestoresAreSafe == SpecBackups => []RestoreIsSafe
  BY BackupsInvariant, InvIsSafe, PTL
=============================================================================
