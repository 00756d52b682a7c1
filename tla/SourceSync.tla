----------------------------- MODULE SourceSync -----------------------------
(***************************************************************************)
(* Synchronisation of Stash's scenes into the sidecar's source tables      *)
(* (src/core/syncclient.go): the runs of sync_run, the cursors and         *)
(* watermarks of sync_cursor, paging through a library that goes on        *)
(* changing, and the two ways of noticing deletions, the id sweep of an    *)
(* incremental run and the reconciliation of a full one.                   *)
(*                                                                         *)
(* Scenes stand for every entity type; the play pass (entity type          *)
(* "scene_play") is the second pass over the same table.  A change in      *)
(* Stash gets the next tick of a clock as its updated_at or its            *)
(* last_played_at, so no two changes have the same timestamp, and scene    *)
(* ids grow with creation and are not used again.  One daemon executes one *)
(* task at a time, so the steps of two syncs do not interleave.  A page    *)
(* query and the transaction that saves the page are one action: nothing   *)
(* but the sync reads or writes these tables in between.  An error (whose  *)
(* failRun leaves the run "failed") and the death of the process (which    *)
(* leaves it "running") are one action: a run in either state is resumed.  *)
(* What nothing reads any more (the cursors and the seen ids of a run that *)
(* ended, the page and baseline of a complete pass) is allowed to lapse.   *)
(***************************************************************************)
EXTENDS Integers, FiniteSets, FiniteSetsExt

CONSTANTS
  LastScene,           \* scene ids are 1..LastScene
  MaxClock,            \* bound on the changes Stash makes
  PageSize,            \* sync_page_size
  SweepSize,           \* syncSweepPageSize
  FullOverlap,         \* the changes Stash makes while a full run is open
  IncrementalOverlap   \* and while an incremental run is open

Change == {"create", "update", "play", "delete"}

ASSUME SourceSyncAssumptions ==
  /\ LastScene \in Nat /\ MaxClock \in Nat
  /\ PageSize \in Nat \ {0} /\ SweepSize \in Nat \ {0}
  /\ FullOverlap \subseteq Change /\ IncrementalOverlap \subseteq Change

Scene == 1..LastScene
Pass == {"scene", "scene_play"}
Task == {"full", "incremental", "plays"}
NoTask == "no_task"
NoRun == "no_run"

VARIABLES
  stash,    \* what Stash has: updated_at and last_played_at, 0 if never
  clock, born,   \* the last timestamp, and the highest scene id, in use
  source,   \* source_scene and source_play
  open,     \* sync_run: the modes with a run that is running or failed
  cursor,   \* sync_cursor: the run it belongs to, state, page and watermarks
  seen,     \* sync_seen of the open full run
  touched,  \* history: scenes Stash changed since the open run began
  pc, task, pass,  \* where the worker is, its task, and the pass it makes
  sweep            \* the page the id sweep is at and the ids it has seen

remoteVars == <<stash, clock, born>>
localVars == <<source, open, cursor, seen>>
workerVars == <<pc, task, pass, sweep>>
vars == <<remoteVars, localVars, touched, workerVars>>

Absent == [at |-> 0, played |-> 0]
Present(table) == {s \in Scene : table[s].at > 0}

NewCursor(run, mark) == [run |-> run, complete |-> FALSE, page |-> 1,
                         watermark |-> mark, baseline |-> mark, pending |-> 0]
NoSweep == [page |-> 1, present |-> {}]

\* The library has some scenes; the sidecar is new.
Init ==
  /\ born \in 0..LastScene /\ born <= MaxClock /\ clock = born
  /\ stash = [s \in Scene |-> IF s <= born THEN [at |-> s, played |-> 0]
                              ELSE Absent]
  /\ source = [s \in Scene |-> Absent]
  /\ open = {} /\ seen = {} /\ touched = [m \in {"full", "incremental"} |-> {}]
  /\ cursor = [p \in Pass |-> NewCursor(NoRun, 0)]
  /\ pc = "idle" /\ task = NoTask /\ pass = "scene" /\ sweep = NoSweep

-----------------------------------------------------------------------------
(* Stash.                                                                  *)

MayChange(kind) ==
  /\ clock < MaxClock
  /\ "full" \in open => kind \in FullOverlap
  /\ "incremental" \in open => kind \in IncrementalOverlap

StashChanges(s, kind) ==
  /\ MayChange(kind)
  /\ (kind = "create") => s = born + 1
  /\ (kind # "create") => s \in Present(stash)
  /\ clock' = clock + 1
  /\ born' = IF kind = "create" THEN s ELSE born
  /\ stash' = [stash EXCEPT ![s] =
                 CASE kind = "create" -> [at |-> clock', played |-> 0]
                   [] kind = "update" -> [@ EXCEPT !.at = clock']
                   [] kind = "play"   -> [@ EXCEPT !.played = clock']
                   [] kind = "delete" -> Absent]
  /\ touched' = [m \in DOMAIN touched |->
                   IF m \in open THEN touched[m] \union {s} ELSE {}]
  /\ UNCHANGED <<localVars, workerVars>>

-----------------------------------------------------------------------------
(* The page queries.                                                       *)

\* sync-plays shares the ledger, and so the open run, of incremental syncs.
LedgerMode(t) == IF t = "full" THEN "full" ELSE "incremental"

RunMode == LedgerMode(task)

Timestamp(table, s) == IF pass = "scene" THEN table[s].at ELSE table[s].played

\* The play pass asks for scenes played after the baseline.
Listed == IF pass = "scene" THEN Present(stash)
          ELSE {s \in Present(stash) : stash[s].played > cursor[pass].baseline}

\* Mutant: an incremental pass pages from the oldest change on.
ListedOldestFirst(t, s) == IF task = "full" THEN t < s
                           ELSE Timestamp(stash, t) < Timestamp(stash, s)

\* A full run pages by id, an incremental one from the latest change back.
ListedBefore(t, s) == IF task = "full" THEN t < s
                      ELSE Timestamp(stash, t) > Timestamp(stash, s)

Page(p) == {s \in Listed :
              Cardinality({t \in Listed : ListedBefore(t, s)}) \div PageSize
                = p - 1}

\* Page p of the id sweep.
IdPage(p) == {s \in Present(stash) :
                Cardinality({t \in Present(stash) : t < s}) \div SweepSize
                  = p - 1}

-----------------------------------------------------------------------------
(* sync: the run.                                                          *)

FirstPass(t) == IF t = "plays" THEN "scene_play" ELSE "scene"

\* What follows the last pass: sync-plays skips every look for deletions.
AfterPasses == CASE task = "full" -> "reconcile"
                 [] task = "incremental" -> "prune"
                 [] task = "plays" -> "finish"

EndPass == IF task = "incremental" /\ pass = "scene"
           THEN pass' = "scene_play" /\ pc' = "entity"
           ELSE pc' = AfterPasses /\ UNCHANGED pass

\* An open run of the mode is resumed.
BeginSync(t) ==
  LET mode == LedgerMode(t) IN
  /\ pc = "idle"
  /\ IF mode \in open THEN UNCHANGED <<open, cursor, seen, touched>>
     ELSE open' = open \union {mode} /\ UNCHANGED <<cursor, seen, touched>>
  /\ task' = t /\ pass' = FirstPass(t) /\ pc' = "entity"
  /\ UNCHANGED <<remoteVars, source, sweep>>

\* Mutant: a pass that another run has completed is skipped as well.
PrepareEntityOfAnyRun ==
  /\ pc = "entity"
  /\ IF cursor[pass].complete THEN EndPass /\ UNCHANGED cursor
     ELSE /\ cursor' = IF cursor[pass].run = RunMode THEN cursor
                       ELSE [cursor EXCEPT ![pass] =
                               NewCursor(RunMode, cursor[pass].watermark)]
          /\ pc' = "page" /\ UNCHANGED pass
  /\ UNCHANGED <<remoteVars, source, open, seen, touched, task, sweep>>

\* A pass this run has completed is skipped, one it has begun goes on where it
\* was, any other starts at page 1 with the watermark as its baseline.
PrepareEntity ==
  /\ pc = "entity"
  /\ IF cursor[pass].run = RunMode
     THEN /\ UNCHANGED cursor
          /\ IF cursor[pass].complete THEN EndPass
             ELSE pc' = "page" /\ UNCHANGED pass
     ELSE /\ cursor' = [cursor EXCEPT ![pass] =
                          NewCursor(RunMode, cursor[pass].watermark)]
          /\ pc' = "page" /\ UNCHANGED pass
  /\ UNCHANGED <<remoteVars, source, open, seen, touched, task, sweep>>

\* An incremental pass ends at the first page with a known timestamp.
ReachedWatermark(items) ==
  /\ task # "full" /\ cursor[pass].baseline > 0 /\ items # {}
  /\ Min({Timestamp(stash, s) : s \in items}) <= cursor[pass].baseline

Exhausted(items) == \/ items = {}
                    \/ cursor[pass].page * PageSize >= Cardinality(Listed)

\* A page without timestamps turns a NULL pending watermark into '', which is
\* below every timestamp and not NULL: here, as the absent baseline, 0.
HighWatermark(items) ==
  Max({Timestamp(stash, s) : s \in items} \union {cursor[pass].pending})

\* Every page beyond LastScene is empty: the page number is capped there.
NextPage(p) == Min({p + 1, LastScene + 1})

\* Mutant: only what the page changed is recorded as seen.
SavePageSeenIfChanged ==
  LET items == Page(cursor[pass].page)
      changed == {s \in items : source[s] # stash[s]} IN
  /\ pc = "page"
  /\ source' = [s \in Scene |-> IF s \in items THEN stash[s] ELSE source[s]]
  /\ seen' = IF task = "full" THEN seen \union changed ELSE seen
  /\ cursor' = [cursor EXCEPT ![pass].page = NextPage(@),
                              ![pass].pending = HighWatermark(items)]
  /\ pc' = IF ReachedWatermark(items) \/ Exhausted(items) THEN "complete"
           ELSE "page"
  /\ UNCHANGED <<remoteVars, open, touched, task, pass, sweep>>

SavePage ==
  LET items == Page(cursor[pass].page) IN
  /\ pc = "page"
  /\ source' = [s \in Scene |-> IF s \in items THEN stash[s] ELSE source[s]]
  /\ seen' = IF task = "full" THEN seen \union items ELSE seen
  /\ cursor' = [cursor EXCEPT ![pass].page = NextPage(@),
                              ![pass].pending = HighWatermark(items)]
  /\ pc' = IF ReachedWatermark(items) \/ Exhausted(items) THEN "complete"
           ELSE "page"
  /\ UNCHANGED <<remoteVars, open, touched, task, pass, sweep>>

CompleteEntity ==
  /\ pc = "complete"
  /\ cursor' = [cursor EXCEPT ![pass] =
                   [NewCursor(@.run, @.pending) EXCEPT !.complete = TRUE]]
  /\ EndPass
  /\ UNCHANGED <<remoteVars, source, open, seen, touched, task, sweep>>

\* Mutant: the counts are compared the wrong way round.
CountsSuggestAdditions ==
  Cardinality(Present(source)) < Cardinality(Present(stash))

CountsSuggestDeletions ==
  Cardinality(Present(source)) > Cardinality(Present(stash))

\* pruneDeleted: the id sweep is made if the sidecar has more than Stash.
PruneDeleted ==
  /\ pc = "prune"
  /\ pc' = IF CountsSuggestDeletions THEN "sweep" ELSE "finish"
  /\ sweep' = NoSweep
  /\ UNCHANGED <<remoteVars, localVars, touched, task, pass>>

Keep(ids) == [s \in Scene |-> IF s \in ids THEN source[s] ELSE Absent]

SweepPage ==
  LET items == IdPage(sweep.page)
      present == sweep.present \union items IN
  /\ pc = "sweep"
  /\ IF items = {} \/ Cardinality(present) >= Cardinality(Present(stash))
     THEN /\ source' = IF present = {} THEN source ELSE Keep(present)
          /\ sweep' = NoSweep /\ pc' = "finish"
     ELSE /\ sweep' = [page |-> NextPage(sweep.page), present |-> present]
          /\ UNCHANGED <<source, pc>>
  /\ UNCHANGED <<remoteVars, open, cursor, seen, touched, task, pass>>

\* A full run drops what it has not seen on any page.
Reconcile ==
  /\ pc = "reconcile"
  /\ source' = Keep(seen)
  /\ pc' = "finish"
  /\ UNCHANGED <<remoteVars, open, cursor, seen, touched, task, pass, sweep>>

\* The next run of this mode has a new id: no cursor and nothing in sync_seen
\* will belong to it.
FinishRun ==
  /\ pc = "finish"
  /\ open' = open \ {RunMode}
  /\ cursor' = [p \in Pass |-> IF cursor[p].run = RunMode
                               THEN NewCursor(NoRun, cursor[p].watermark)
                               ELSE cursor[p]]
  /\ seen' = IF task = "full" THEN {} ELSE seen
  /\ touched' = [touched EXCEPT ![RunMode] = {}]
  /\ pc' = "idle" /\ task' = NoTask /\ pass' = "scene"
  /\ UNCHANGED <<remoteVars, source, sweep>>

\* A query or a statement fails, or the process dies.
SyncFails ==
  /\ pc # "idle"
  /\ pc' = "idle" /\ task' = NoTask /\ pass' = "scene" /\ sweep' = NoSweep
  /\ UNCHANGED <<remoteVars, localVars, touched>>

Sync == \/ PrepareEntity \/ SavePage \/ CompleteEntity \/ PruneDeleted
        \/ SweepPage \/ Reconcile \/ FinishRun

Next == \/ \E s \in Scene, kind \in Change : StashChanges(s, kind)
        \/ \E t \in Task : BeginSync(t)
        \/ Sync \/ SyncFails

Spec == Init /\ [][Next]_vars

-----------------------------------------------------------------------------
(* Properties.                                                             *)

\* What a watermark stands for: the next incremental pass may stop there, as
\* everything Stash changed (or saw played) up to it has been copied.
WatermarkSound ==
  \A s \in Present(stash) :
    /\ stash[s].at <= cursor["scene"].watermark => source[s].at = stash[s].at
    /\ stash[s].played <= cursor["scene_play"].watermark
         => source[s].played >= stash[s].played

\* A sync that completes has copied every scene that Stash left alone since
\* its run began, however often the run was interrupted and resumed; a
\* play-only sync vouches for the plays.
CatchesUp ==
  \A s \in Present(stash) \ touched[RunMode] :
    /\ source[s].played >= stash[s].played
    /\ task # "plays" => source[s] = stash[s]

\* Comparing counts is enough to notice deletions: a sync of an untouched
\* library leaves nothing behind that Stash deleted before (it takes an empty
\* Stash for a failed answer, and a scene created meanwhile hides a deletion).
DropsDeleted ==
  (task # "plays" /\ touched[RunMode] = {} /\ Present(stash) # {})
    => Present(source) \subseteq Present(stash)

\* What a completed sync leaves is what Stash had: nothing missed, nothing
\* deleted kept.
CompleteSyncAgrees == [][pc = "finish" /\ open' # open => CatchesUp /\ DropsDeleted]_vars

\* The comment on syncDeleteEntitiesConn: "drop entities Stash no longer has".
OnlyGoneAreDropped ==
  [][\A s \in Scene : (source[s] # Absent /\ source'[s] = Absent)
                        => stash[s] = Absent]_vars

=============================================================================
