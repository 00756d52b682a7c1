--------------------------- MODULE WorkerLifecycle ---------------------------
(***************************************************************************)
(* How daemons are found, started, replaced and restarted                  *)
(* (src/core/daemon.go, src/core/daemon_unix.go): the pid file, the state  *)
(* file with the fingerprint of the binary, and /proc.  No lock is held:   *)
(* requests, daemons and an update of the plugin interleave between any    *)
(* two reads and writes of the files.  What a daemon does with its queue   *)
(* is JobQueue's; here it takes what is queued.                            *)
(***************************************************************************)
EXTENDS Naturals, FiniteSets

CONSTANTS
  Process,     \* pids; a pid is used again when its process is dead
  Asker,       \* concurrent requests
  MaxUpdates,  \* bound: updates of the plugin
  MaxAsked,    \* bound: requests
  MaxFaults    \* bound: crashes, kills, failing opens, unreadable state files

ASSUME LifecycleAssumption ==
  Process \subseteq Nat \ {0} /\ {MaxUpdates, MaxAsked, MaxFaults} \subseteq Nat

VARIABLES
  installed,  \* the binary on the disk
  pidFile,    \* worker.pid
  stateFile,  \* the fingerprint in the worker state
  phase,      \* where a daemon process is
  binary,     \* the binary it executes
  noticed,    \* daemonFingerprint: the installed one when it started
  waiting,    \* rows in the queue
  ask,        \* a request: [at, kind, fingerprint, stop]
  requests, upset,  \* counters: requests, faults
  ran,        \* history: a daemon has reached its loop, and none was stopped for a task since
  outrun   \* history: an update overtook a start or a request that wrote its fingerprint

fileVars == <<installed, pidFile, stateFile>>
daemonVars == <<phase, binary, noticed>>
workerVars == <<fileVars, daemonVars, waiting, ask, requests, upset, ran, outrun>>

NoPid == 0
NoState == MaxUpdates + 1
Unasked == [at |-> "idle", kind |-> "auto", fingerprint |-> 0, stop |-> {}]

InitWorkers ==
  /\ installed = 0 /\ pidFile = NoPid /\ stateFile = NoState
  /\ phase = [p \in Process |-> "dead"]
  /\ binary = [p \in Process |-> 0] /\ noticed = [p \in Process |-> 0]
  /\ waiting = FALSE /\ ask = [r \in Asker |-> Unasked]
  /\ requests = 0 /\ upset = 0 /\ ran = FALSE /\ outrun = FALSE

WorkerAlive(p) == p # NoPid /\ phase[p] # "dead"
Fault == upset < MaxFaults /\ upset' = upset + 1
Starting ==
  \/ \E p \in Process : phase[p] \in {"handing", "last", "started", "read", "free"}
  \/ \E r \in Asker : ask[r].at = "spawn"
Targets == UNION {ask[r].stop : r \in Asker}

(* The plugin is updated.  What has read the old fingerprint goes on with it.*)
PluginUpdated ==
  /\ installed < MaxUpdates
  /\ installed' = installed + 1
  /\ outrun' = (outrun \/ Starting)
  /\ UNCHANGED <<pidFile, stateFile, daemonVars, waiting, ask, requests, upset, ran>>

(* os.Executable() names the path, so a spawn executes what is installed.   *)
FreeProcesses == {p \in Process : ~WorkerAlive(p) /\ p \notin Targets}
Lowest(pids) == CHOOSE p \in pids : \A q \in pids : p <= q

-----------------------------------------------------------------------------
(* The daemon.                                                              *)
DaemonReads(p) ==
  /\ phase[p] = "started"
  /\ phase' = [phase EXCEPT ![p] =
       IF stateFile = installed /\ binary[p] = installed THEN "read" ELSE "dead"]
  /\ noticed' = [noticed EXCEPT ![p] = installed]
  /\ UNCHANGED <<fileVars, binary, waiting, ask, requests, upset, ran, outrun>>

(* A concurrent spawn that has written its pid wins.                        *)
DaemonLooksForOwner(p) ==
  /\ phase[p] = "read"
  /\ phase' = [phase EXCEPT ![p] = IF pidFile # p /\ WorkerAlive(pidFile) THEN "dead" ELSE "free"]
  /\ UNCHANGED <<fileVars, binary, noticed, waiting, ask, requests, upset, ran, outrun>>

DaemonWritesPid(p) ==
  /\ phase[p] = "free"
  /\ pidFile' = p
  /\ \/ phase' = [phase EXCEPT ![p] = "loop"] /\ ran' = TRUE /\ UNCHANGED upset
     \/ phase' = [phase EXCEPT ![p] = "dead"] /\ Fault /\ UNCHANGED ran   \* openDaemonLoop fails
  /\ UNCHANGED <<installed, stateFile, binary, noticed, waiting, ask, requests, outrun>>

TakesQueued(p) ==
  /\ phase[p] = "loop" /\ waiting
  /\ waiting' = FALSE
  /\ UNCHANGED <<fileVars, daemonVars, ask, requests, upset, ran, outrun>>

(* handoverWorker: the state file, the own pid, the successor.              *)
HandoverWritesState(p) ==
  /\ phase[p] = "loop" /\ installed # noticed[p]
  /\ stateFile' = installed
  /\ phase' = [phase EXCEPT ![p] = "handing"]
  /\ UNCHANGED <<installed, pidFile, binary, noticed, waiting, ask, requests, upset, ran, outrun>>

RemoveWorkerPidIfOwned(p) == pidFile' = IF pidFile = p THEN NoPid ELSE pidFile

\* Mutant: the pid file is only removed by the exit, after the spawn.
HandoverKeepsPid(p) ==
  /\ phase[p] = "handing"
  /\ phase' = [phase EXCEPT ![p] = "last"]
  /\ UNCHANGED <<fileVars, binary, noticed, waiting, ask, requests, upset, ran, outrun>>

HandoverDropsPid(p) ==
  /\ phase[p] = "handing"
  /\ RemoveWorkerPidIfOwned(p)
  /\ phase' = [phase EXCEPT ![p] = "last"]
  /\ UNCHANGED <<installed, stateFile, binary, noticed, waiting, ask, requests, upset, ran, outrun>>

HandoverSpawns(p) ==
  /\ phase[p] = "last"
  /\ LET free == FreeProcesses IN
     /\ free # {}
     /\ phase' = [phase EXCEPT ![p] = "exiting", ![Lowest(free)] = "started"]
     /\ binary' = [binary EXCEPT ![Lowest(free)] = installed]
  /\ UNCHANGED <<fileVars, noticed, waiting, ask, requests, upset, ran, outrun>>

HandoverExits(p) ==
  /\ phase[p] = "exiting"
  /\ RemoveWorkerPidIfOwned(p)
  /\ phase' = [phase EXCEPT ![p] = "dead"]
  /\ UNCHANGED <<installed, stateFile, binary, noticed, waiting, ask, requests, upset, ran, outrun>>

(* A daemon dies and leaves its pid file, or exits as idle.                 *)
DaemonDies(p) ==
  /\ WorkerAlive(p) /\ Fault
  /\ phase' = [phase EXCEPT ![p] = "dead"]
  /\ UNCHANGED <<fileVars, binary, noticed, waiting, ask, requests, ran, outrun>>

-----------------------------------------------------------------------------
(* A request: ensureAutoWorker ("auto") or ensureWorker after its row       *)
(* ("task"), and restartWorker ("restart") before the former.               *)
Continue(r, e) == ask' = [ask EXCEPT ![r] = e]
Requested(r) == ask[r].fingerprint

AskForWorker(r, kind) ==
  /\ ask[r].at = "idle" /\ requests < MaxAsked
  /\ requests' = requests + 1
  /\ waiting' = (waiting \/ kind = "task")
  /\ Continue(r, [at |-> IF kind = "restart" THEN "restart" ELSE "fingerprint",
                  kind |-> kind, fingerprint |-> 0, stop |-> {}])
  /\ UNCHANGED <<fileVars, daemonVars, upset, ran, outrun>>

(* restartWorker stops the pid's owner whatever it is, and clears the pid.  *)
FindsOwner(r) ==
  /\ ask[r].at = "restart"
  /\ Continue(r, [ask[r] EXCEPT !.at = IF pidFile = NoPid THEN "fingerprint" ELSE "clear",
                                !.stop = IF WorkerAlive(pidFile) THEN {pidFile} ELSE {}])
  /\ UNCHANGED <<fileVars, daemonVars, waiting, requests, upset, ran, outrun>>

ClearsPid(r) ==
  /\ ask[r].at = "clear" /\ ask[r].stop = {}
  /\ pidFile' = NoPid
  /\ Continue(r, [ask[r] EXCEPT !.at = "fingerprint"])
  /\ UNCHANGED <<installed, stateFile, daemonVars, waiting, requests, upset, ran, outrun>>

ReadsFingerprint(r) ==
  /\ ask[r].at = "fingerprint"
  /\ Continue(r, [ask[r] EXCEPT !.at = "list", !.fingerprint = installed])
  /\ UNCHANGED <<fileVars, daemonVars, waiting, requests, upset, ran, outrun>>

(* rotateStaleWorkersByExecutable: every daemon that executes another binary.*)
ListsStale(r) ==
  /\ ask[r].at = "list"
  /\ Continue(r, [ask[r] EXCEPT !.at = "owner",
       !.stop = {p \in Process : WorkerAlive(p) /\ binary[p] # Requested(r)}])
  /\ UNCHANGED <<fileVars, daemonVars, waiting, requests, upset, ran, outrun>>

(* rotateStaleWorker: the owner of the pid file, on a confirmed mismatch.   *)
StaleOwner(r) == {p \in {pidFile} : WorkerAlive(p) /\ stateFile \notin {NoState, Requested(r)}}

\* Mutant: what cannot be read counts as a mismatch.
ChecksOwnerBlindly(r) ==
  /\ ask[r].at = "owner" /\ ask[r].stop = {}
  /\ \/ /\ Continue(r, [ask[r] EXCEPT !.at = "reuse", !.stop = StaleOwner(r)])
        /\ UNCHANGED upset
     \/ /\ Continue(r, [ask[r] EXCEPT !.at = "reuse", !.stop = {p \in {pidFile} : WorkerAlive(p)}])
        /\ Fault
  /\ UNCHANGED <<fileVars, daemonVars, waiting, requests, ran, outrun>>

ChecksOwner(r) ==
  /\ ask[r].at = "owner" /\ ask[r].stop = {}
  /\ \/ /\ Continue(r, [ask[r] EXCEPT !.at = "reuse", !.stop = StaleOwner(r)])
        /\ UNCHANGED upset
     \/ /\ Continue(r, [ask[r] EXCEPT !.at = "reuse"])   \* the state file cannot be read
        /\ Fault
  /\ UNCHANGED <<fileVars, daemonVars, waiting, requests, ran, outrun>>

(* stopWorker: SIGTERM, after which the daemon removes its own pid file, or *)
(* SIGKILL when it has not exited in time.                                  *)
StopsWorker(r, p) ==
  /\ p \in ask[r].stop
  /\ Continue(r, [ask[r] EXCEPT !.stop = @ \ {p}])
  /\ phase' = [phase EXCEPT ![p] = "dead"]
  /\ \/ RemoveWorkerPidIfOwned(p) /\ UNCHANGED upset
     \/ Fault /\ UNCHANGED pidFile
  /\ ran' = (ran /\ ask[r].kind # "task")
  /\ UNCHANGED <<installed, stateFile, binary, noticed, waiting, requests, outrun>>

Current == {p \in Process : WorkerAlive(p) /\ binary[p] = installed}

(* The owner of the pid file, or an adopted daemon of the installed binary. *)
ReusesWorker(r) ==
  /\ ask[r].at = "reuse" /\ ask[r].stop = {}
  /\ \/ WorkerAlive(pidFile) /\ UNCHANGED pidFile
     \/ ~WorkerAlive(pidFile) /\ \E p \in Current : pidFile' = p
  /\ Continue(r, [ask[r] EXCEPT !.at = "state"])
  /\ UNCHANGED <<installed, stateFile, daemonVars, waiting, requests, upset, ran, outrun>>

NeedsWorker(r) ==
  /\ ask[r].at = "reuse" /\ ask[r].stop = {}
  /\ ~WorkerAlive(pidFile) /\ Current = {}
  /\ Continue(r, IF ask[r].kind = "task" /\ ~waiting THEN Unasked ELSE [ask[r] EXCEPT !.at = "new"])
  /\ UNCHANGED <<fileVars, daemonVars, waiting, requests, upset, ran, outrun>>

WritesState(r) ==
  /\ ask[r].at \in {"state", "new"}
  /\ stateFile' = Requested(r)
  /\ outrun' = (outrun \/ Requested(r) # installed)
  /\ Continue(r, IF ask[r].at = "new" THEN [ask[r] EXCEPT !.at = "spawn"] ELSE Unasked)
  /\ UNCHANGED <<installed, pidFile, daemonVars, waiting, requests, upset, ran>>

RequestSpawns(r) ==
  /\ ask[r].at = "spawn"
  /\ LET free == FreeProcesses IN
     /\ free # {}
     /\ phase' = [phase EXCEPT ![Lowest(free)] = "started"]
     /\ binary' = [binary EXCEPT ![Lowest(free)] = installed]
  /\ Continue(r, Unasked)
  /\ UNCHANGED <<fileVars, noticed, waiting, requests, upset, ran, outrun>>

-----------------------------------------------------------------------------
DaemonStep(p) ==
  \/ DaemonReads(p) \/ DaemonLooksForOwner(p) \/ DaemonWritesPid(p) \/ TakesQueued(p)
  \/ HandoverWritesState(p) \/ HandoverDropsPid(p) \/ HandoverSpawns(p) \/ HandoverExits(p)
  \/ DaemonDies(p)

AskerStep(r) ==
  \/ \E kind \in {"auto", "task", "restart"} : AskForWorker(r, kind)
  \/ FindsOwner(r) \/ ClearsPid(r) \/ ReadsFingerprint(r) \/ ListsStale(r) \/ ChecksOwner(r)
  \/ \E p \in Process : StopsWorker(r, p)
  \/ ReusesWorker(r) \/ NeedsWorker(r) \/ WritesState(r) \/ RequestSpawns(r)

NextWorkers ==
  \/ PluginUpdated
  \/ \E p \in Process : DaemonStep(p)
  \/ \E r \in Asker : AskerStep(r)

SpecWorkers == InitWorkers /\ [][NextWorkers]_workerVars

-----------------------------------------------------------------------------
(* Properties.                                                              *)

(* Only a restart the user asks for stops a daemon of the installed binary: *)
(* a state file that cannot be read, or another daemon's leftovers, is no   *)
(* reason.  Excepted are requests an update overtook, and what they wrote   *)
(* into the state file.                                                     *)
CurrentIsSpared ==
  \A p \in Current : phase'[p] = "dead" /\ ~outrun =>
    \A r \in Asker : p \in ask[r].stop \ ask'[r].stop =>
      ask[r].kind = "restart" \/ Requested(r) # installed

(* Work goes on: as long as nothing fails, once a daemon has run, or while a *)
(* row waits, some daemon lives or a request is about to see to one, also   *)
(* across updates, unless one overtook a start.                             *)
WorkIsSucceeded ==
  upset = 0 /\ ~outrun /\ (ran \/ waiting) =>
    (\E p \in Process : WorkerAlive(p)) \/ (\E r \in Asker : ask[r].at # "idle")

(* Daemons are neither stopped without a reason nor missing without a fault.*)
WorkersGoOn == [][CurrentIsSpared /\ WorkIsSucceeded']_workerVars
=============================================================================
