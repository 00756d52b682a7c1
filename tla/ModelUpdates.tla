---------------------------- MODULE ModelUpdates ----------------------------
(***************************************************************************)
(* The preference model: the coordinator that counts what the model has    *)
(* not seen yet (model_update_state), the tasks that build and publish it  *)
(* (taskBuild, taskSyncBuild, modelBuild), and the rows and files of its   *)
(* generations (model_version, the derived directory, retention).          *)
(*                                                                         *)
(* The digest that names a model stands for everything the build reads     *)
(* before it looks for a model of that name; distinct evidence has         *)
(* distinct digests, so a model is identified with the evidence it was     *)
(* named after.  A file is the set of evidence its rows were computed      *)
(* from: a build goes on reading the live sidecar after the digest.        *)
(*                                                                         *)
(* Of the job table only what the coordinator asks of it is kept: whether  *)
(* rows of model-building types are "running".  A live process's row is    *)
(* never stale (JobQueue's TimelyHeartbeats).  Draining the hook queue     *)
(* before a build belongs to EntityHooks.                                  *)
(***************************************************************************)
EXTENDS Integers, Sequences, FiniteSets

CONSTANTS
  Worker,        \* worker daemons
  Entity,        \* entity types a sync goes through
  Mode,          \* the task modes that are requested
  MaxRequests,   \* bound on requested_generation and on new evidence
  Revert,        \* feedback may restore what the sidecar said before
  Faults         \* which of the disturbances below can happen

SyncModes == {"sync-build", "full-sync-build"}
AllModes == SyncModes \union {"build", "force-build", "update-model"}

ASSUME ModelUpdatesAssumptions ==
  /\ Mode \subseteq AllModes
  /\ MaxRequests \in Nat /\ Revert \in BOOLEAN
  /\ Faults \subseteq {"crash", "cancel", "build_fails"}

Evidence == 0..MaxRequests
Stage == {"features", "lookup", "score", "write", "register", "prune",
          "finish", "report"}

VARIABLES
  evidence,              \* what the sidecar says now
  requested, published,  \* the generations of model_update_state
  silent,     \* history: a sync changed the sidecar, and no generation was
              \* requested since (its process may end before it asks for one)
  tracker,    \* its last_started/last_finished/last_error: idle, building
              \* (started, neither finished nor failed), expired (building for
              \* six hours), error
  status, named, file,   \* model_version.status, rows with an artifact_basename,
                         \* the contents of the final artifact files
  created, recency,      \* rows by created_at_ms, rows by published_at_ms
  pc, task,   \* where each worker is, and the local variables of its job
  orphans     \* ages of the "running" rows dead processes left behind

coordinatorVars == <<evidence, requested, published, tracker, silent>>
modelVars == <<status, named, file, created, recency>>
vars == <<coordinatorVars, modelVars, pc, task, orphans>>

\* gen: the generation to publish; id: the model; read: what it is computed
\* from; found: how many entities of each type the sync found changed.
NoTask == [mode |-> "update-model", gen |-> 0, id |-> 0, read |-> {},
           found |-> [e \in Entity |-> 0]]

Building(w) == pc[w] \in Stage
Busy(w) == pc[w] \notin {"off", "idle"}

Init ==
  /\ evidence = 0 /\ requested = 0 /\ published = 0
  /\ tracker = "idle" /\ silent = FALSE
  /\ status = [m \in Evidence |-> "absent"]
  /\ named = {} /\ file = [m \in Evidence |-> {}]
  /\ created = <<>> /\ recency = <<>>
  /\ pc = [w \in Worker |-> "off"] /\ task = [w \in Worker |-> NoTask]
  /\ orphans = {}

Goto(w, p) == pc' = [pc EXCEPT ![w] = p]

\* The job's process forgets it: it is over, or the process is.
Drop(w, p) == Goto(w, p) /\ task' = [task EXCEPT ![w] = NoTask]

-----------------------------------------------------------------------------
(* The coordinator.                                                        *)

\* Requests that running tasks are yet to make, within the bound.
CanRequest ==
  requested + Cardinality({w \in Worker : pc[w] \in {"sync", "request"}})
    < MaxRequests

\* Every change of evidence through the API requests a generation in the
\* same transaction.
Feedback ==
  /\ CanRequest
  /\ requested' = requested + 1
  /\ evidence' \in IF Revert THEN Evidence \ {evidence}
                   ELSE {evidence + 1} \intersect Evidence
  /\ silent' = FALSE
  /\ UNCHANGED <<published, tracker, modelVars, pc, task, orphans>>

\* recoverOrphanJobs, as far as model-building rows are concerned.
RecoverOrphanJobs ==
  /\ orphans' = orphans \ {"stale", "old"}
  /\ tracker' = IF /\ tracker \in {"building", "expired"}
                   /\ orphans' = {} /\ \A w \in Worker : ~Busy(w)
                THEN "error" ELSE tracker

Recover ==
  /\ RecoverOrphanJobs
  /\ UNCHANGED <<evidence, requested, published, silent, modelVars, pc, task>>

\* Five minutes without a heartbeat.
OrphanGoesStale ==
  /\ "fresh" \in orphans
  /\ orphans' = (orphans \ {"fresh"}) \union {"stale"}
  /\ UNCHANGED <<coordinatorVars, modelVars, pc, task>>

\* No build takes six hours.
SixHoursPass ==
  /\ \A w \in Worker : ~Building(w)
  /\ tracker = "building" \/ orphans \intersect {"fresh", "stale"} # {}
  /\ tracker' = IF tracker = "building" THEN "expired" ELSE tracker
  /\ orphans' = IF orphans = {} THEN {} ELSE {"old"}
  /\ UNCHANGED <<evidence, requested, published, silent, modelVars, pc, task>>

-----------------------------------------------------------------------------
(* Tasks.                                                                  *)

DaemonStart(w) ==
  /\ pc[w] = "off"
  /\ RecoverOrphanJobs
  /\ Goto(w, "idle")
  /\ UNCHANGED <<evidence, requested, published, silent, modelVars, task>>

Claim(w, m) ==
  /\ pc[w] = "idle"
  /\ m # "update-model" => CanRequest
  /\ task' = [task EXCEPT ![w].mode = m]
  /\ Goto(w, CASE m = "update-model" -> "drain"
               [] m \in SyncModes -> "sync"
               [] OTHER -> "request")
  /\ UNCHANGED <<coordinatorVars, modelVars, orphans>>

\* The sync of taskSyncBuild: it counts, for each entity type, the entities
\* that changed, and changes the evidence if there were any.
Sync(w) ==
  /\ pc[w] = "sync"
  /\ \E counts \in [Entity -> 0..1] :
       /\ task' = [task EXCEPT ![w].found = counts]
       /\ evidence' \in IF \E e \in Entity : counts[e] > 0
                        THEN {evidence + 1} \intersect Evidence ELSE {evidence}
  /\ silent' = (silent \/ evidence' # evidence)
  /\ Goto(w, "request")
  /\ UNCHANGED <<requested, published, tracker, modelVars, orphans>>

RequestBuild(w) ==
  /\ pc[w] = "request" /\ task[w].mode \in {"build", "force-build"}
  /\ requested' = requested + 1 /\ silent' = FALSE
  /\ status' = [m \in Evidence |->
                  IF task[w].mode = "force-build" /\ status[m] = "published"
                  THEN "superseded" ELSE status[m]]
  /\ Goto(w, "drain")
  /\ UNCHANGED <<evidence, published, tracker, named, file, created, recency,
                 task, orphans>>

\* len(synced.changedEntityCounts) > 0: the map has an entry, be it 0, for
\* every entity type the sync went through.
SourceChanged(w) ==
  task[w].mode = "full-sync-build" \/ DOMAIN task[w].found # {}

RequestSync(w) ==
  /\ pc[w] = "request" /\ task[w].mode \in SyncModes
  /\ IF SourceChanged(w) \/ \A m \in Evidence : status[m] # "published"
     THEN requested' = requested + 1 /\ silent' = FALSE /\ Goto(w, "drain")
     ELSE UNCHANGED <<requested, silent>> /\ Goto(w, "lanes")
  /\ UNCHANGED <<evidence, published, tracker, modelVars, task, orphans>>

\* Mutants: a build under way does not keep another from starting; only a
\* build that finished lets the next one start.
StartWheneverPending == requested > published
StartWhenIdle == requested > published /\ tracker = "idle"

(***************************************************************************)
(* The first transaction of coordinatorDrain.  If it starts no build,      *)
(* taskBuild reports that nothing was updated; taskSyncBuild indexes the   *)
(* empty slice of results, which ends the process (nothing recovers).      *)
(***************************************************************************)
CanStart == requested > published /\ tracker # "building"

Drain(w) ==
  /\ pc[w] = "drain"
  /\ \/ /\ CanStart
        /\ tracker' = "building"
        /\ task' = [task EXCEPT ![w].gen = requested]
        /\ Goto(w, "features")
     \/ /\ ~CanStart
        /\ Drop(w, IF task[w].mode \in SyncModes THEN "panic" ELSE "idle")
        /\ UNCHANGED tracker
  /\ UNCHANGED <<evidence, requested, published, silent, modelVars, orphans>>

\* Mutant: Finish takes what is requested by now for what it has built.
FinishAllRequested(w) ==
  /\ pc[w] = "finish"
  /\ published' = requested
  /\ tracker' = "idle"
  /\ Drop(w, "lanes")
  /\ UNCHANGED <<evidence, requested, silent, modelVars, orphans>>

\* The last transaction of coordinatorDrain.
Finish(w) ==
  /\ pc[w] = "finish"
  /\ published' = task[w].gen
  /\ tracker' = "idle"
  /\ Drop(w, "lanes")
  /\ UNCHANGED <<evidence, requested, silent, modelVars, orphans>>

\* Lanes and pages are prepared, and the job completes.
JobEnds(w) ==
  /\ pc[w] = "lanes"
  /\ Drop(w, "idle")
  /\ UNCHANGED <<coordinatorVars, modelVars, orphans>>

-----------------------------------------------------------------------------
(* modelBuild.                                                             *)

\* Features, labels and the two fingerprints: the name of the model.
NameModel(w) ==
  /\ pc[w] = "features"
  /\ task' = [task EXCEPT ![w].id = evidence, ![w].read = {evidence}]
  /\ Goto(w, "lookup")
  /\ UNCHANGED <<coordinatorVars, modelVars, orphans>>

\* Mutant: a published model is never reused, always rebuilt in place.
LookupRebuilds(w) ==
  LET m == task[w].id IN
  /\ pc[w] = "lookup"
  /\ status' = [status EXCEPT ![m] = "building"]
  /\ created' = IF status[m] = "absent" THEN Append(created, m) ELSE created
  /\ Goto(w, "score")
  /\ UNCHANGED <<coordinatorVars, named, file, recency, task, orphans>>

\* A published model of that name is reused; any other row becomes a build.
Lookup(w) ==
  LET m == task[w].id IN
  /\ pc[w] = "lookup"
  /\ IF status[m] = "published" /\ file[m] # {}
     THEN Goto(w, "finish") /\ UNCHANGED <<status, created>>
     ELSE /\ status' = [status EXCEPT ![m] = "building"]
          /\ created' = IF status[m] = "absent" THEN Append(created, m)
                        ELSE created
          /\ Goto(w, "score")
  /\ UNCHANGED <<coordinatorVars, named, file, recency, task, orphans>>

\* Affinities and scores are computed from what the sidecar says by now.
Score(w) ==
  /\ pc[w] = "score"
  /\ task' = [task EXCEPT ![w].read = @ \union {evidence}]
  /\ Goto(w, "write")
  /\ UNCHANGED <<coordinatorVars, modelVars, orphans>>

\* The temporary file is complete and renamed to its final name.
PublishFile(w) ==
  /\ pc[w] = "write"
  /\ file' = [file EXCEPT ![task[w].id] = task[w].read]
  /\ Goto(w, "register")
  /\ UNCHANGED <<coordinatorVars, status, named, created, recency, task,
                 orphans>>

Register(w) ==
  LET new == task[w].id IN
  /\ pc[w] = "register"
  /\ status' = [m \in Evidence |-> CASE m = new -> "published"
                                     [] m # new /\ status[m] = "published" ->
                                          "superseded"
                                     [] OTHER -> status[m]]
  /\ named' = named \union {new}
  /\ recency' = Append(SelectSeq(recency, LAMBDA m : m # new), new)
  /\ Goto(w, "prune")
  /\ UNCHANGED <<coordinatorVars, file, created, task, orphans>>

Position(s, m) == CHOOSE i \in 1..Len(s) : s[i] = m

\* The two newest of the published and superseded models stay.
Retained ==
  LET kept == SelectSeq(recency, LAMBDA m :
                          status[m] \in {"published", "superseded"})
  IN {kept[i] : i \in {j \in 1..Len(kept) : j > Len(kept) - 2}}

Abandoned(m) ==
  /\ status[m] = "building"
  /\ \E p \in Evidence : status[p] = "published"
                           /\ Position(created, m) < Position(created, p)

Candidates ==
  {m \in Evidence : status[m] \in {"superseded", "failed"} \/ Abandoned(m)}
    \ Retained

\* Files nobody registered, except one that was renamed a moment ago.
Unregistered ==
  {m \in Evidence : m \notin named}
    \ {task[w].id : w \in {v \in Worker : pc[v] = "register"}}

\* pruneSnapshots: some candidates' files may resist, and only files older
\* than six hours are swept.
PruneSnapshots(w) ==
  /\ pc[w] = "prune"
  /\ \E gone \in SUBSET Candidates, swept \in SUBSET Unregistered :
       /\ file' = [m \in Evidence |->
                     IF (m \in gone /\ m \in named) \/ m \in swept THEN {}
                     ELSE file[m]]
       /\ status' = [m \in Evidence |-> IF m \in gone THEN "absent"
                                        ELSE status[m]]
       /\ named' = named \ gone
       /\ created' = SelectSeq(created, LAMBDA m : m \notin gone)
       /\ recency' = SelectSeq(recency, LAMBDA m : m \notin gone)
  /\ Goto(w, "finish")
  /\ UNCHANGED <<coordinatorVars, task, orphans>>

\* An error before or after the publication.  The clean-up of a failed write
\* removes the final file of that name too.
BuildFails(w) ==
  LET m == task[w].id IN
  /\ "build_fails" \in Faults
  /\ pc[w] \in {"features", "lookup", "score", "write", "register", "prune"}
  /\ status' = [status EXCEPT ![m] =
                  IF pc[w] \notin {"features", "lookup"} /\ @ = "building"
                  THEN "failed" ELSE @]
  /\ file' = [file EXCEPT ![m] = IF pc[w] = "write" THEN {} ELSE @]
  /\ Goto(w, "report")
  /\ UNCHANGED <<coordinatorVars, named, created, recency, task, orphans>>

ReportError(w) ==
  /\ pc[w] = "report"
  /\ tracker' = "error"
  /\ Drop(w, "idle")
  /\ UNCHANGED <<evidence, requested, published, silent, modelVars, orphans>>

\* The process dies; the row of its job, if it had one, still says "running".
Dies(w) ==
  /\ Drop(w, "off")
  /\ orphans' = IF Busy(w) THEN orphans \union {"fresh"} ELSE orphans
  /\ UNCHANGED <<coordinatorVars, modelVars>>

Panics(w) == pc[w] = "panic" /\ Dies(w)

Crash(w) == "crash" \in Faults /\ pc[w] # "off" /\ Dies(w)

\* A cancelled job's row is "cancelled" before its process exits.
CancelStops(w) ==
  /\ "cancel" \in Faults
  /\ Busy(w)
  /\ Drop(w, "off")
  /\ UNCHANGED <<coordinatorVars, modelVars, orphans>>

WorkerNext(w) ==
  \/ DaemonStart(w) \/ \E m \in Mode : Claim(w, m)
  \/ Sync(w) \/ RequestBuild(w) \/ RequestSync(w) \/ Drain(w)
  \/ NameModel(w) \/ Lookup(w) \/ Score(w) \/ PublishFile(w) \/ Register(w)
  \/ PruneSnapshots(w) \/ Finish(w) \/ JobEnds(w)
  \/ BuildFails(w) \/ ReportError(w) \/ Panics(w) \/ Crash(w) \/ CancelStops(w)

Next == \/ Feedback \/ Recover \/ OrphanGoesStale \/ SixHoursPass
        \/ \E w \in Worker : WorkerNext(w)

Spec == Init /\ [][Next]_vars

(***************************************************************************)
(* Fairness.  JobQueue is relied on for a daemon that keeps being started  *)
(* and for the update-model job that the scheduler of a live daemon        *)
(* enqueues while a generation is unpublished and no model job is running. *)
(* Steps of a build are strongly fair: no step is interrupted every time   *)
(* it is reached.  Nobody owes feedback, syncs, manual builds or health.   *)
(***************************************************************************)
ModelRebuilding == (\E w \in Worker : Busy(w))
                     \/ orphans \intersect {"fresh", "stale"} # {}

AutoClaim(w) == requested > published /\ ~ModelRebuilding
                  /\ Claim(w, "update-model")

Fairness ==
  /\ WF_vars(OrphanGoesStale) /\ WF_vars(SixHoursPass)
  /\ \A w \in Worker :
       /\ WF_vars(DaemonStart(w)) /\ SF_vars(AutoClaim(w))
       /\ SF_vars(RequestBuild(w)) /\ SF_vars(Drain(w))
       /\ SF_vars(NameModel(w)) /\ SF_vars(Lookup(w)) /\ SF_vars(Score(w))
       /\ SF_vars(PublishFile(w)) /\ SF_vars(Register(w))
       /\ SF_vars(PruneSnapshots(w)) /\ SF_vars(Finish(w))
       /\ WF_vars(ReportError(w)) /\ WF_vars(JobEnds(w))

FairSpec == Spec /\ Fairness

-----------------------------------------------------------------------------
(* Properties.                                                             *)

\* test_coordinator_does_not_duplicate_an_active_build: however many daemons
\* claim model jobs, crash and are recovered, one of them builds.
OneBuilder == \A v, w \in Worker : Building(v) /\ Building(w) => v = w

\* docs/architecture.md: readers see the old complete model or the new
\* complete model.  Once a model was published there always is one whose
\* artifact is in place, whatever fails, dies or is pruned meanwhile.
ModelAvailable ==
  recency # <<>> => \E m \in Evidence : /\ status[m] = "published"
                                        /\ m \in named /\ file[m] # {}

\* When the coordinator says that nothing is pending, the published model was
\* computed from what the sidecar says and from nothing else (a sync between
\* its last page and its request, or one that died there, apart).
FreshWhenClean ==
  (requested = published /\ requested > 0 /\ ~silent) =>
    \A m \in Evidence : status[m] = "published" => file[m] = {evidence}

\* Every requested generation is published at last, in spite of crashes,
\* failed and cancelled builds.
RequestsArePublished ==
  \A g \in 1..MaxRequests : (requested = g) ~> (published >= g)
=============================================================================
