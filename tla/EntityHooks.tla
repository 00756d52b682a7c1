---------------------------- MODULE EntityHooks ----------------------------
(***************************************************************************)
(* Stash's entity hooks (src/core/entity_hook.go) and the queue they fill  *)
(* (pending_entity_change): each create, update and destroy starts a hook  *)
(* process that records the entity and asks for a model; the preference    *)
(* rebuild imports the recorded entities before it builds                  *)
(* (drainPendingEntityChanges), and a sync empties the queue because it    *)
(* has fetched everything itself (taskSyncBuild).                          *)
(*                                                                         *)
(* A version is the clock of the change that made it, 0 an entity Stash    *)
(* does not have.  One worker executes one task at a time and is the only  *)
(* writer of the source tables.  Which entities a sync copies is the       *)
(* matter of SourceSync: here it fetches each of them at some moment of    *)
(* its own.  How a build is claimed and published is the matter of         *)
(* ModelUpdates: here it is one step.                                      *)
(***************************************************************************)
EXTENDS Integers, FiniteSets

CONSTANTS
  Entity,
  MaxClock,   \* bound on the changes Stash makes
  MaxExtra,   \* bound on requests besides those of the hooks
  InOrder,    \* the hooks of one entity commit in the order of the changes
  Faults      \* "hook", "fetch", "crash"

ASSUME EntityHooksAssumptions ==
  /\ MaxClock \in Nat \ {0} /\ MaxExtra \in Nat
  /\ InOrder \in BOOLEAN
  /\ Faults \subseteq {"hook", "fetch", "crash"}

Operation == {"upsert", "delete"}
Row == [entity : Entity, op : Operation]
NoRow == "no_row"

VARIABLES
  stash, clock,   \* Stash: the versions of its entities
  hooks,      \* hook processes that have not committed yet
  pending,    \* pending_entity_change: the operation recorded per entity
  source,     \* the versions in the source tables
  requested, published,   \* the generations of model_update_state
  model,      \* the versions the published model was built from
  failed,     \* history: the kinds of faults there have been
  overtaken,  \* history: the entities whose latest hook met a running task
  pc, batch, dropped,   \* the worker: rows it read, rows it will delete
  answer      \* the row whose entity it has fetched, with the version it got

stashVars == <<stash, clock>>
queueVars == <<hooks, pending>>
modelVars == <<published, model>>
workerVars == <<pc, batch, dropped, answer>>
history == <<failed, overtaken>>
vars == <<stashVars, queueVars, source, requested, modelVars, history,
          workerVars>>

\* After the first sync and build.
Init ==
  /\ stash \in [Entity -> {0, 1}] /\ clock = 1
  /\ hooks = {} /\ pending = [e \in Entity |-> NoRow]
  /\ source = stash /\ model = stash
  /\ requested = 1 /\ published = 1
  /\ failed = {} /\ overtaken = {}
  /\ pc = "idle" /\ batch = {} /\ dropped = {} /\ answer = {}

-----------------------------------------------------------------------------
(* Stash and its hooks.                                                    *)

Quiet == pc = "idle" /\ hooks = {}

StashChanges(e) ==
  /\ clock < MaxClock
  /\ InOrder => \A h \in hooks : h.entity # e
  /\ clock' = clock + 1
  /\ \/ /\ stash' = [stash EXCEPT ![e] = clock']
        /\ hooks' = hooks \union {[entity |-> e, op |-> "upsert"]}
     \/ /\ stash[e] # 0
        /\ stash' = [stash EXCEPT ![e] = 0]
        /\ hooks' = hooks \union {[entity |-> e, op |-> "delete"]}
  /\ UNCHANGED <<pending, source, requested, modelVars, history, workerVars>>

\* The latest hook of an entity commits while a task is executed, or not.
Overtakes(h) == overtaken' = IF pc = "idle" THEN overtaken \ {h.entity}
                             ELSE overtaken \union {h.entity}

\* Mutant: the hook records the change but asks for no model.
RecordOnly(h) ==
  /\ h \in hooks
  /\ hooks' = hooks \ {h}
  /\ pending' = [pending EXCEPT ![h.entity] = h.op]
  /\ Overtakes(h)
  /\ UNCHANGED <<stashVars, source, requested, modelVars, failed, workerVars>>

\* One transaction: the row (the latest operation wins) and the request.
RunEntityHook(h) ==
  /\ h \in hooks
  /\ hooks' = hooks \ {h}
  /\ pending' = [pending EXCEPT ![h.entity] = h.op]
  /\ requested' = requested + 1
  /\ Overtakes(h)
  /\ UNCHANGED <<stashVars, source, modelVars, failed, workerVars>>

\* A hook that cannot write logs a warning and returns.
NeutralHookResult(h) ==
  /\ "hook" \in Faults /\ h \in hooks
  /\ hooks' = hooks \ {h}
  /\ failed' = failed \union {"hook"}
  /\ UNCHANGED <<stashVars, pending, source, requested, modelVars, overtaken,
                 workerVars>>

-----------------------------------------------------------------------------
(* The preference rebuild.                                                 *)

Recorded == {[entity |-> e, op |-> pending[e]] :
               e \in {x \in Entity : pending[x] # NoRow}}

\* "build" asks for a generation first, "update-model" does not.
BeginBuild(manual) ==
  /\ pc = "idle"
  /\ manual => requested < MaxClock + MaxExtra
  /\ requested' = IF manual THEN requested + 1 ELSE requested
  /\ batch' = Recorded /\ dropped' = {}
  /\ pc' = "drain"
  /\ UNCHANGED <<stashVars, queueVars, source, modelVars, history, answer>>

DeleteEntity(r) ==
  /\ pc = "drain" /\ r \in batch /\ r.op = "delete" /\ answer = {}
  /\ source' = [source EXCEPT ![r.entity] = 0]
  /\ batch' = batch \ {r} /\ dropped' = dropped \union {r}
  /\ UNCHANGED <<stashVars, queueVars, requested, modelVars, history, pc,
                 answer>>

\* The request to Stash; what it answers is saved in a later step.
FetchEntity(r) ==
  /\ pc \in {"drain", "sync"} /\ r \in batch
  /\ r.op = "upsert" /\ answer = {}
  /\ answer' = {[row |-> r, version |-> stash[r.entity]]}
  /\ UNCHANGED <<stashVars, queueVars, source, requested, modelVars, history,
                 pc, batch, dropped>>

\* Stash's answer that it has no such entity ends the row as well.
UpsertEntity ==
  /\ pc = "drain"
  /\ \E a \in answer :
       /\ source' = [source EXCEPT ![a.row.entity] =
                       IF a.version = 0 THEN @ ELSE a.version]
       /\ batch' = batch \ {a.row} /\ dropped' = dropped \union {a.row}
  /\ answer' = {}
  /\ UNCHANGED <<stashVars, queueVars, requested, modelVars, history, pc>>

\* After any other error the row stays.
FetchFails(r) ==
  /\ "fetch" \in Faults
  /\ pc = "drain" /\ r \in batch /\ r.op = "upsert" /\ answer = {}
  /\ batch' = batch \ {r}
  /\ failed' = failed \union {"fetch"}
  /\ UNCHANGED <<stashVars, queueVars, source, requested, modelVars, overtaken,
                 pc, dropped, answer>>

\* Mutant: rows are deleted whether or not they were imported.
DropEveryRow ==
  /\ pc = "drain" /\ batch = {}
  /\ pending' = [e \in Entity |-> NoRow]
  /\ dropped' = {} /\ pc' = "build"
  /\ UNCHANGED <<stashVars, hooks, source, requested, modelVars, history,
                 batch, answer>>

\* The rows that were imported are deleted by entity, whatever they say now.
DropRows ==
  /\ pc = "drain" /\ batch = {}
  /\ pending' = [e \in Entity |->
                   IF \E r \in dropped : r.entity = e THEN NoRow
                   ELSE pending[e]]
  /\ dropped' = {} /\ pc' = "build"
  /\ UNCHANGED <<stashVars, hooks, source, requested, modelVars, history,
                 batch, answer>>

\* A drain of the coordinator builds only if a generation is outstanding.
Build ==
  /\ pc = "build"
  /\ IF requested > published
     THEN published' = requested /\ model' = source
     ELSE UNCHANGED modelVars
  /\ pc' = "idle"
  /\ UNCHANGED <<stashVars, queueVars, source, requested, history, batch,
                 dropped, answer>>

-----------------------------------------------------------------------------
(* taskSyncBuild.                                                          *)

All == {[entity |-> e, op |-> "upsert"] : e \in Entity}

BeginSync ==
  /\ pc = "idle"
  /\ requested < MaxClock + MaxExtra
  /\ batch' = All /\ dropped' = {}
  /\ pc' = "sync"
  /\ UNCHANGED <<stashVars, queueVars, source, requested, modelVars, history,
                 answer>>

SyncEntity ==
  /\ pc = "sync"
  /\ \E a \in answer :
       /\ source' = [source EXCEPT ![a.row.entity] = a.version]
       /\ batch' = batch \ {a.row}
  /\ answer' = {}
  /\ UNCHANGED <<stashVars, queueVars, requested, modelVars, history, pc,
                 dropped>>

\* Every row goes, also one recorded since its entity was fetched; the request
\* for a model follows in a transaction of its own.
ClearQueue ==
  /\ pc = "sync" /\ batch = {}
  /\ pending' = [e \in Entity |-> NoRow]
  /\ pc' = "request"
  /\ UNCHANGED <<stashVars, hooks, source, requested, modelVars, history,
                 batch, dropped, answer>>

RequestSync ==
  /\ pc = "request"
  /\ requested' = requested + 1
  /\ pc' = "build"
  /\ UNCHANGED <<stashVars, queueVars, source, modelVars, history, batch,
                 dropped, answer>>

\* The task fails or its process dies.
Stop ==
  /\ "crash" \in Faults /\ pc # "idle"
  /\ pc' = "idle" /\ batch' = {} /\ dropped' = {} /\ answer' = {}
  /\ UNCHANGED <<stashVars, queueVars, source, requested, modelVars, history>>

Next ==
  \/ \E e \in Entity : StashChanges(e)
  \/ \E h \in hooks : RunEntityHook(h) \/ NeutralHookResult(h)
  \/ \E manual \in BOOLEAN : BeginBuild(manual)
  \/ \E r \in batch : DeleteEntity(r) \/ FetchEntity(r) \/ FetchFails(r)
  \/ UpsertEntity \/ SyncEntity \/ DropRows \/ Build \/ BeginSync
  \/ ClearQueue \/ RequestSync \/ Stop

Spec == Init /\ [][Next]_vars

-----------------------------------------------------------------------------
(* Properties.                                                             *)

\* The types of the variables.
TypeOK ==
  /\ clock \in 1..MaxClock /\ stash \in [Entity -> 0..clock]
  /\ hooks \subseteq Row /\ pending \in [Entity -> Operation \union {NoRow}]
  /\ source \in [Entity -> 0..clock] /\ model \in [Entity -> 0..clock]
  /\ published \in 1..requested /\ requested \in Nat
  /\ failed \subseteq {"hook", "fetch"} /\ overtaken \subseteq Entity
  /\ pc \in {"idle", "drain", "sync", "request", "build"}
  /\ batch \subseteq Row /\ dropped \subseteq Row
  /\ answer \subseteq [row : Row, version : 0..clock]

\* "Changes to scenes, performers, studios, and tags in Stash are queued
\* through entity hooks" (docs/using-curator.md): an entity the sidecar has an
\* old version of is on its way to it, whatever failed or died, unless its
\* latest hook met a running task.
ChangesAreQueued ==
  "hook" \notin failed =>
    \A e \in Entity \ overtaken : source[e] # stash[e] =>
      pending[e] # NoRow \/ \E h \in hooks : h.entity = e

\* When nothing failed, nothing is outstanding and nothing is going on, the
\* published model was built from what Stash says, with the same exception.
FreshModel ==
  (failed = {} /\ Quiet /\ requested = published) =>
    \A e \in Entity \ overtaken : model[e] = stash[e]

\* The drain comes before the build "so the model always sees fresh source
\* data" (docs/architecture.md): the same without the exception.
ModelAlwaysFresh ==
  (failed = {} /\ Quiet /\ requested = published) => model = stash
=============================================================================
