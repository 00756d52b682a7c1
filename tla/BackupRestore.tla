---------------------------- MODULE BackupRestore ----------------------------
(***************************************************************************)
(* Backups of the sidecar, their restore, and the migrations every open    *)
(* runs (src/core/backups.go, src/core/db.go, src/core/migrations.go).     *)
(* A restore swaps the file while other processes hold it open: they go on *)
(* with the file they have (an instance), whatever is at the path now.     *)
(* The copy itself is SQLite's, and takes what is committed at one moment. *)
(***************************************************************************)
EXTENDS Naturals, FiniteSets

CONSTANTS
  Holder,       \* processes with a connection to the sidecar
  Daemon,        \* those of them whose connection attaches no artifacts, and that run jobs
  Fact,          \* what they commit
  MaxInstance,   \* bound: files that have been the sidecar
  MaxBackups,    \* bound
  MaxModels,     \* bound: published models
  MaxVersion,    \* bound: schema versions of installed binaries
  MaxOpens       \* bound: connections that are opened

ASSUME BackupAssumption ==
  {MaxInstance, MaxBackups, MaxModels, MaxVersion, MaxOpens} \subseteq Nat /\ MaxInstance > 0

VARIABLES
  instance,   \* the file at the path
  visible,    \* instance -> what its connections read
  settled,    \* instance -> what is in it without its write-ahead log
  shipped,    \* the schema version of the installed binary
  conn,       \* process -> [at, on, version, plan, of]
  backups,    \* number -> the content that was copied, or NoBackup
  artifacts,  \* artifacts beside the sidecar
  models, opens,  \* counters: published models, connections
  committed, astray, deleted,  \* history: facts committed; behind a swap; in a deleted backup
  cut         \* history: a restore ended between the swap and the invalidation

backupVars ==
  <<instance, visible, settled, shipped, conn, backups, artifacts, models, opens,
    committed, astray, deleted, cut>>

\* Facts; the rows of models, and whether the newest is published; a running job; the
\* migrations that were applied, and whether one was applied twice.
EmptyContent ==
  [facts |-> {}, rows |-> {}, live |-> FALSE, running |-> FALSE, applied |-> {}, twice |-> FALSE]
NoBackup == [EmptyContent EXCEPT !.twice = TRUE]
Disconnected == [at |-> "idle", on |-> 0, version |-> 0, plan |-> {}, of |-> 0]

(* A sidecar of the first version that has a model.                         *)
InitBackups ==
  /\ instance = 1
  /\ visible = [i \in 1..MaxInstance |->
       IF i = 1 THEN [EmptyContent EXCEPT !.applied = {1}, !.rows = {1}, !.live = TRUE] ELSE EmptyContent]
  /\ settled = visible
  /\ shipped = 1
  /\ conn = [p \in Holder |-> Disconnected]
  /\ backups = [b \in 1..MaxBackups |-> NoBackup]
  /\ artifacts = {1} /\ models = 1 /\ opens = 0
  /\ committed = {} /\ astray = {} /\ deleted = {} /\ cut = FALSE

historyVars == <<committed, astray, deleted, cut>>
fileVarsOfBackups == <<backups, artifacts, models, opens>>

Its(p) == visible[conn[p].on]
Moves(p, stage) == conn' = [conn EXCEPT ![p].at = stage]
Leave(p) == conn' = [conn EXCEPT ![p] = Disconnected]
Writes(p, content) == visible' = [visible EXCEPT ![conn[p].on] = content]
Others(p) == {q \in Holder \ {p} : conn[q].on = conn[p].on /\ conn[q].at \notin {"idle", "swap", "reopen"}}

-----------------------------------------------------------------------------
(* openSidecar, openDaemonLoop: connect, migrate, attach.                   *)
PluginShips ==
  /\ shipped < MaxVersion
  /\ shipped' = shipped + 1
  /\ UNCHANGED <<instance, visible, settled, conn, fileVarsOfBackups, historyVars>>

Connect(p) ==
  /\ conn[p].at = "idle" /\ opens < MaxOpens
  /\ opens' = opens + 1
  /\ conn' = [conn EXCEPT ![p] =
       [at |-> "connected", on |-> instance, version |-> shipped, plan |-> {}, of |-> 0]]
  /\ UNCHANGED <<instance, visible, settled, shipped, backups, artifacts, models, historyVars>>

(* A sidecar with unknown migrations is of a newer binary.                  *)
Understood(content, version) == content.applied \subseteq 1..version

QueryMigrationStatus(p) ==
  /\ conn[p].at \in {"connected", "reconnected"}
  /\ IF Understood(Its(p), conn[p].version)
     THEN conn' = [conn EXCEPT ![p].at = IF @ = "connected" THEN "migrate" ELSE "remigrate",
                               ![p].plan = (1..conn[p].version) \ Its(p).applied] /\ UNCHANGED cut
     ELSE Leave(p) /\ cut' = (cut \/ conn[p].at = "reconnected")
  /\ UNCHANGED <<instance, visible, settled, shipped, fileVarsOfBackups, committed, astray, deleted>>

\* Mutant: what was pending when the status was read is taken for pending still.
RunAgain(content, v) == TRUE

(* Another process may have applied it while this one waited for the lock.  *)
StillPending(content, v) == v \notin content.applied

MigrateOne(p) ==
  /\ conn[p].at \in {"migrate", "remigrate"} /\ conn[p].plan # {}
  /\ LET v == CHOOSE w \in conn[p].plan : \A u \in conn[p].plan : w <= u IN
     /\ Writes(p, IF StillPending(Its(p), v)
                  THEN [Its(p) EXCEPT !.applied = @ \union {v}, !.twice = @ \/ v \in Its(p).applied]
                  ELSE Its(p))
     /\ conn' = [conn EXCEPT ![p].plan = @ \ {v}]
  /\ UNCHANGED <<instance, settled, shipped, fileVarsOfBackups, historyVars>>

NewestOf(rows) == {m \in rows : \A n \in rows : n <= m}
Attachable(content) == content.live => NewestOf(content.rows) \subseteq artifacts

Opened(p) ==
  /\ conn[p].at = "migrate" /\ conn[p].plan = {}
  /\ IF p \in Daemon \/ Attachable(Its(p)) THEN Moves(p, "open") ELSE Leave(p)
  /\ UNCHANGED <<instance, visible, settled, shipped, fileVarsOfBackups, historyVars>>

Close(p) ==
  /\ conn[p].at = "open"
  /\ Leave(p)
  /\ settled' = IF Others(p) = {} THEN [settled EXCEPT ![conn[p].on] = Its(p)] ELSE settled
  /\ UNCHANGED <<instance, visible, shipped, fileVarsOfBackups, historyVars>>

(* Anything dies: a restore leaves what it has unlogged, or swapped.        *)
ProcessDies(p) ==
  /\ conn[p].at # "idle"
  /\ Leave(p)
  /\ cut' = (cut \/ conn[p].at \in {"swap", "reopen", "reconnected", "remigrate"})
  /\ UNCHANGED <<instance, visible, settled, shipped, fileVarsOfBackups, committed, astray, deleted>>

(* SQLite moves the log into the file when it likes.                        *)
Checkpoint ==
  /\ settled[instance] # visible[instance] /\ \E p \in Holder : conn[p].on = instance
  /\ settled' = [settled EXCEPT ![instance] = visible[instance]]
  /\ UNCHANGED <<instance, visible, shipped, conn, fileVarsOfBackups, historyVars>>

-----------------------------------------------------------------------------
(* What goes on meanwhile: requests commit facts, the daemon runs jobs.     *)
Swapping(p) == \E q \in Holder \ {p} : conn[q].on = conn[p].on /\ conn[q].at \in {"close", "unlog", "swap"}

CommitFact(p, f) ==
  /\ conn[p].at \in {"open", "job"} /\ f \notin committed
  /\ Writes(p, [Its(p) EXCEPT !.facts = @ \union {f}])
  /\ committed' = committed \union {f}
  /\ astray' = IF conn[p].on # instance \/ Swapping(p) THEN astray \union {f} ELSE astray
  /\ UNCHANGED <<instance, settled, shipped, conn, fileVarsOfBackups, deleted, cut>>

JobStarts(p) ==
  /\ p \in Daemon /\ conn[p].at = "open" /\ ~Its(p).running
  /\ Writes(p, [Its(p) EXCEPT !.running = TRUE])
  /\ Moves(p, "job")
  /\ UNCHANGED <<instance, settled, shipped, fileVarsOfBackups, historyVars>>

JobDone(p) ==
  /\ conn[p].at = "job"
  /\ Writes(p, [Its(p) EXCEPT !.running = FALSE])
  /\ Moves(p, "open")
  /\ UNCHANGED <<instance, settled, shipped, fileVarsOfBackups, historyVars>>

(* recoverOrphanJobs: the row of a dead daemon, or one a backup has kept.   *)
RecoverOrphan(p) ==
  /\ p \in Daemon /\ conn[p].at = "open" /\ Its(p).running
  /\ \A q \in Holder : conn[q].at = "job" => conn[q].on # conn[p].on
  /\ Writes(p, [Its(p) EXCEPT !.running = FALSE])
  /\ UNCHANGED <<instance, settled, shipped, conn, fileVarsOfBackups, historyVars>>

(* A job publishes a model; retention leaves the two newest models its own   *)
(* rows know of, or more if a file cannot be removed.                       *)
PublishModel(p) ==
  /\ conn[p].at = "job" /\ models < MaxModels
  /\ models' = models + 1
  /\ Writes(p, [Its(p) EXCEPT !.rows = @ \union {models + 1}, !.live = TRUE])
  /\ LET old == Its(p).rows \ NewestOf(Its(p).rows)
     IN  artifacts' \in {(artifacts \ removed) \union {models + 1} : removed \in {{}, old}}
  /\ UNCHANGED <<instance, settled, shipped, conn, backups, opens, historyVars>>

-----------------------------------------------------------------------------
(* backupDatabase: a copy of what is committed, under a name of its own.    *)
\* Mutant: the file is copied without its log.
FileOf(p) == settled[conn[p].on]

Snapshot(p) == Its(p)

FreeBackups == {b \in 1..MaxBackups : backups[b] = NoBackup}
FreeName == CHOOSE b \in FreeBackups : \A c \in FreeBackups : b <= c
StoredBackups == 1..MaxBackups \ FreeBackups

(* create_backup refuses while a job runs; the task is a job itself.  A copy *)
(* that cannot be validated is removed again.                               *)
CreateBackup(p) ==
  /\ \/ p \notin Daemon /\ conn[p].at = "open" /\ ~Its(p).running
     \/ conn[p].at = "job"
  /\ FreeBackups # {}
  /\ backups' = [backups EXCEPT ![FreeName] = IF Understood(Its(p), conn[p].version) THEN Snapshot(p) ELSE @]
  /\ UNCHANGED <<instance, visible, settled, shipped, conn, artifacts, models, opens, historyVars>>

DeleteBackup(p, b) ==
  /\ p \notin Daemon /\ conn[p].at = "open" /\ ~Its(p).running
  /\ b \in StoredBackups /\ Understood(backups[b], conn[p].version)
  /\ backups' = [backups EXCEPT ![b] = NoBackup]
  /\ deleted' = deleted \union backups[b].facts
  /\ UNCHANGED <<instance, visible, settled, shipped, conn, artifacts, models, opens, committed, astray, cut>>

(* restore_backup: the safety copy, the close, the log, the swap, and then  *)
(* the restored file is opened, migrated, and its models are withdrawn.     *)
CopiesForSafety(p, b) ==
  /\ p \notin Daemon /\ conn[p].at = "open" /\ ~Its(p).running
  /\ b \in StoredBackups /\ Understood(backups[b], conn[p].version)
  /\ FreeBackups # {} /\ backups' = [backups EXCEPT ![FreeName] = Snapshot(p)]
  /\ conn' = [conn EXCEPT ![p].at = "close", ![p].of = b]
  /\ UNCHANGED <<instance, visible, settled, shipped, artifacts, models, opens, historyVars>>

(* The last connection to close leaves no log.                              *)
ClosesForSwap(p) ==
  /\ conn[p].at = "close"
  /\ Moves(p, "unlog")
  /\ settled' = IF Others(p) = {} THEN [settled EXCEPT ![conn[p].on] = Its(p)] ELSE settled
  /\ UNCHANGED <<instance, visible, shipped, fileVarsOfBackups, historyVars>>

\* What comes after another's swap is at the path without having been copied.
Unsaved(p) == IF conn[p].on = instance THEN {} ELSE visible[instance].facts

Swapped(content) ==
  /\ instance < MaxInstance
  /\ instance' = instance + 1
  /\ visible' = [visible EXCEPT ![instance + 1] = content]
  /\ settled' = [settled EXCEPT ![instance + 1] = content]

(* Whoever has the file open keeps its log; whoever opens it from now on    *)
(* reads what was settled.                                                  *)
RemovesLog(p) ==
  /\ conn[p].at = "unlog"
  /\ Moves(p, "swap")
  /\ IF settled[instance] = visible[instance]
     THEN UNCHANGED <<instance, visible, settled, astray>>
     ELSE Swapped(settled[instance]) /\ astray' = astray \union Unsaved(p)
  /\ UNCHANGED <<shipped, fileVarsOfBackups, committed, deleted, cut>>

(* The backup is copied under another name and renamed over the sidecar.    *)
SwapsFile(p) ==
  /\ conn[p].at = "swap" /\ conn[p].of \in StoredBackups
  /\ Swapped(backups[conn[p].of])
  /\ astray' = astray \union Unsaved(p)
  /\ Moves(p, "reopen")
  /\ UNCHANGED <<shipped, fileVarsOfBackups, committed, deleted, cut>>

(* The backup is gone, or the disk is full: what was unlogged stays so.     *)
SwapFails(p) ==
  /\ conn[p].at = "swap"
  /\ Leave(p)
  /\ cut' = TRUE
  /\ UNCHANGED <<instance, visible, settled, shipped, fileVarsOfBackups, committed, astray, deleted>>

OpensRestored(p) ==
  /\ conn[p].at = "reopen"
  /\ conn' = [conn EXCEPT ![p].at = "reconnected", ![p].on = instance]
  /\ UNCHANGED <<instance, visible, settled, shipped, fileVarsOfBackups, historyVars>>

WithdrawsModels(p) ==
  /\ conn[p].at = "remigrate" /\ conn[p].plan = {}
  /\ Writes(p, [Its(p) EXCEPT !.live = FALSE])
  /\ Leave(p)
  /\ UNCHANGED <<instance, settled, shipped, fileVarsOfBackups, historyVars>>

-----------------------------------------------------------------------------
NextBackups ==
  \/ PluginShips \/ Checkpoint
  \/ \E p \in Holder :
       \/ Connect(p)
       \/ QueryMigrationStatus(p) \/ MigrateOne(p) \/ Opened(p) \/ Close(p) \/ ProcessDies(p)
       \/ \E f \in Fact : CommitFact(p, f)
       \/ JobStarts(p) \/ JobDone(p) \/ RecoverOrphan(p) \/ PublishModel(p)
       \/ CreateBackup(p)
       \/ \E b \in 1..MaxBackups : DeleteBackup(p, b) \/ CopiesForSafety(p, b)
       \/ ClosesForSwap(p) \/ RemovesLog(p) \/ SwapsFile(p) \/ SwapFails(p)
       \/ OpensRestored(p) \/ WithdrawsModels(p)

SpecBackups == InitBackups /\ [][NextBackups]_backupVars

-----------------------------------------------------------------------------
(* Properties.                                                              *)

(* A restore loses nothing: what was committed is in the sidecar or in a    *)
(* backup, unless the user deleted that, or it was committed by a process   *)
(* that still had the replaced file, or while a restore was under way.      *)
NothingIsLost ==
  committed \subseteq
    visible[instance].facts \union (UNION {backups[b].facts : b \in StoredBackups})
      \union astray \union deleted

(* The sidecar can be opened with its artifacts: a restored one names no    *)
(* model that has been removed since, unless its restore was cut short.     *)
OpensAgain ==
  \/ Attachable(visible[instance])
  \/ \E p \in Holder : conn[p].at \in {"swap", "reopen", "reconnected", "remigrate"}
  \/ cut

(* However many processes open a sidecar at once, each migration runs once  *)
(* and in order, and a process that has opened one finds its schema.        *)
MigrationsRunOnce ==
  /\ \A i \in 1..instance :
       ~visible[i].twice /\ \A v \in visible[i].applied : 1..v \subseteq visible[i].applied
  /\ \A p \in Holder : conn[p].at \in {"open", "job"} => 1..conn[p].version \subseteq Its(p).applied

(* Across backups, restores and the swap of the file nothing is lost, the   *)
(* sidecar can be opened, and each migration has run once.                  *)
RestoreIsSafe == NothingIsLost /\ OpensAgain /\ MigrationsRunOnce
=============================================================================
