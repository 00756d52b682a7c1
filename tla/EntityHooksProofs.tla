------------------------- MODULE EntityHooksProofs -------------------------
(***************************************************************************)
(* Proofs about EntityHooks, for any entities, bounds and faults, if the   *)
(* hooks of an entity commit in the order of its changes.  A change is     *)
(* followed through its hook, its row, the worker's copy of the row and    *)
(* Stash's answer: each of them agrees with Stash unless a later change    *)
(* of the same entity is still in an earlier stage, or has overtaken it.   *)
(***************************************************************************)
EXTENDS EntityHooks, TLAPS

Hooked(e) == \E h \in hooks : h.entity = e
Told == "hook" \notin failed
Settled(e) == e \notin overtaken /\ ~Hooked(e)

\* A hook has the operation of its entity's latest change, and is its only one.
HooksTell ==
  \A h \in hooks :
    /\ h.op = "delete" <=> stash[h.entity] = 0
    /\ \A k \in hooks : k.entity = h.entity => k = h

\* So has a row, once no hook of its entity is on its way.
RowsTell ==
  Told => \A e \in Entity :
    (pending[e] # NoRow /\ ~Hooked(e)) =>
      (pending[e] = "delete" <=> stash[e] = 0)

\* The rows that the worker drains are still recorded as it read them.
BatchTells ==
  pc = "drain" => \A r \in batch \union dropped :
    /\ pending[r.entity] # NoRow
    /\ r.entity \notin overtaken => pending[r.entity] = r.op

\* What the worker holds in each of its phases.
Phases ==
  /\ pc \in {"idle", "request", "build"} => batch = {} /\ answer = {}
  /\ pc # "drain" => dropped = {}
  /\ \A a \in answer : a.row \in batch /\ a.row.op = "upsert"

\* An answer, a drained row and a synchronised entity agree with Stash.
AnswersTell ==
  Told => \A a \in answer :
    Settled(a.row.entity) => a.version = stash[a.row.entity]

DroppedTells ==
  (Told /\ pc = "drain") => \A r \in dropped :
    Settled(r.entity) => source[r.entity] = stash[r.entity]

SyncTells ==
  (Told /\ pc = "sync") => \A e \in Entity :
    (Settled(e) /\ \A r \in batch : r.entity # e) => source[e] = stash[e]

Queued ==
  Told => \A e \in Entity :
    (Settled(e) /\ source[e] # stash[e]) => pending[e] # NoRow

\* A row whose hook met no task waits for a generation that is not published.
RowsAwaitModel ==
  failed = {} => \A e \in Entity \ overtaken :
    pending[e] # NoRow =>
      pc \notin {"request", "build"} /\ requested > published

\* In a drain each such row is in the worker's hands.
DrainHoldsRows ==
  (failed = {} /\ pc = "drain") => \A e \in Entity \ overtaken :
    pending[e] # NoRow => \E r \in batch \union dropped : r.entity = e

\* The model of the latest generation was built from the source tables.
ModelTells ==
  (failed = {} /\ requested = published) => \A e \in Entity :
    Settled(e) => model[e] = source[e]

IInv ==
  /\ TypeOK /\ HooksTell /\ RowsTell /\ BatchTells /\ Phases
  /\ AnswersTell /\ DroppedTells /\ SyncTells /\ Queued
  /\ RowsAwaitModel /\ DrainHoldsRows /\ ModelTells

-----------------------------------------------------------------------------
\* What a change in Stash leaves as it is, and what it adds.
LEMMA StashStep ==
  ASSUME TypeOK, InOrder, NEW e \in Entity, StashChanges(e)
  PROVE  /\ Hooked(e)' /\ ~Hooked(e)
         /\ \A f \in Entity \ {e} :
              stash'[f] = stash[f] /\ (Hooked(f)' <=> Hooked(f))
         /\ stash' \in [Entity -> 0..clock'] /\ clock' \in 1..MaxClock
         /\ hooks' \subseteq Row
  <1> DEFINE hook(op) == [entity |-> e, op |-> op]
  <1>1. clock' \in 1..MaxClock /\ clock < clock' /\ clock \in Nat
    BY EntityHooksAssumptions DEF TypeOK, StashChanges
  <1>2. PICK op \in Operation :
          /\ hooks' = hooks \union {hook(op)}
          /\ stash' = [stash EXCEPT ![e] = clock']
             \/ stash' = [stash EXCEPT ![e] = 0]
    BY DEF StashChanges, Operation
  <1>3. stash' \in [Entity -> 0..clock']
        /\ \A f \in Entity \ {e} : stash'[f] = stash[f]
    BY <1>1, <1>2 DEF TypeOK
  <1>4. hook(op) \in Row /\ hook(op).entity = e
    BY DEF Row
  <1>5. ~Hooked(e)
    BY DEF StashChanges, Hooked
  <1>6. Hooked(e)'
    BY <1>2, <1>4 DEF Hooked
  <1>7. ASSUME NEW f \in Entity \ {e} PROVE Hooked(f)' <=> Hooked(f)
    BY <1>2, <1>4, <1>7 DEF Hooked
  <1>8. hooks' \subseteq Row
    BY <1>2, <1>4 DEF TypeOK
  <1>. QED
    BY <1>1, <1>3, <1>5, <1>6, <1>7, <1>8

\* What a hook records, if it is the only one of its entity.
LEMMA HookStep ==
  ASSUME TypeOK, HooksTell, NEW h \in hooks, RunEntityHook(h)
  PROVE  /\ h.entity \in Entity /\ h.op \in Operation /\ h.op # NoRow
         /\ Hooked(h.entity) /\ ~Hooked(h.entity)'
         /\ pending'[h.entity] = h.op
         /\ \A f \in Entity \ {h.entity} :
              pending'[f] = pending[f] /\ (Hooked(f)' <=> Hooked(f))
  <1>1. h.entity \in Entity /\ h.op \in Operation /\ h.op # NoRow
    BY DEF TypeOK, Row, Operation, NoRow
  <1>2. pending'[h.entity] = h.op
        /\ \A f \in Entity \ {h.entity} : pending'[f] = pending[f]
    BY <1>1 DEF TypeOK, RunEntityHook
  <1>3. Hooked(h.entity) /\ ~Hooked(h.entity)'
    BY DEF Hooked, HooksTell, RunEntityHook
  <1>4. \A f \in Entity \ {h.entity} : Hooked(f)' <=> Hooked(f)
    BY DEF Hooked, RunEntityHook
  <1>. QED
    BY <1>1, <1>2, <1>3, <1>4

\* Every step keeps the types.
LEMMA TypeOKStep ==
  ASSUME IInv, InOrder, [Next]_vars
  PROVE  TypeOK'
  <1> USE DEF IInv, TypeOK, Row, Operation, stashVars, queueVars, modelVars,
      workerVars, history
  <1>1. ASSUME NEW e \in Entity, StashChanges(e) PROVE TypeOK'
    BY <1>1, StashStep DEF StashChanges
  <1>2. ASSUME NEW h \in hooks, RunEntityHook(h) PROVE TypeOK'
    BY <1>2 DEF RunEntityHook, Overtakes
  <1>3. ASSUME NEW h \in hooks, NeutralHookResult(h) PROVE TypeOK'
    BY <1>3 DEF NeutralHookResult
  <1>4. ASSUME NEW manual \in BOOLEAN, BeginBuild(manual) PROVE TypeOK'
    BY <1>4 DEF BeginBuild, Recorded
  <1>5. ASSUME NEW r \in batch, DeleteEntity(r) PROVE TypeOK'
    BY <1>5 DEF DeleteEntity
  <1>6. ASSUME NEW r \in batch, FetchEntity(r) PROVE TypeOK'
    BY <1>6 DEF FetchEntity
  <1>7. ASSUME NEW r \in batch, FetchFails(r) PROVE TypeOK'
    BY <1>7 DEF FetchFails
  <1>8. CASE UpsertEntity
    BY <1>8 DEF UpsertEntity
  <1>9. CASE SyncEntity
    BY <1>9 DEF SyncEntity
  <1>10. CASE DropRows
    BY <1>10 DEF DropRows
  <1>11. CASE Build
    BY <1>11 DEF Build
  <1>12. CASE BeginSync
    BY <1>12 DEF BeginSync, All
  <1>13. CASE ClearQueue
    BY <1>13 DEF ClearQueue
  <1>14. CASE RequestSync
    BY <1>14 DEF RequestSync
  <1>15. CASE Stop
    BY <1>15 DEF Stop
  <1>16. CASE UNCHANGED vars
    BY <1>16 DEF vars
  <1>. QED
      BY <1>1, <1>2, <1>3, <1>4, <1>5, <1>6, <1>7, <1>8, <1>9, <1>10, <1>11,
       <1>12, <1>13, <1>14, <1>15, <1>16 DEF Next, vars

\* Hooks keep telling of the latest change: an entity has one at a time.
LEMMA HooksTellStep ==
  ASSUME IInv, InOrder, [Next]_vars
  PROVE  HooksTell'
  <1> USE DEF IInv, HooksTell, TypeOK, Row, Operation, stashVars, queueVars,
      modelVars, workerVars, history
  <1>1. ASSUME NEW e \in Entity, StashChanges(e) PROVE HooksTell'
    BY <1>1 DEF StashChanges
  <1>2. ASSUME NEW h \in hooks, RunEntityHook(h) PROVE HooksTell'
    BY <1>2 DEF RunEntityHook, Overtakes
  <1>3. ASSUME NEW h \in hooks, NeutralHookResult(h) PROVE HooksTell'
    BY <1>3 DEF NeutralHookResult
  <1>4. CASE UNCHANGED <<stash, hooks>>
    BY <1>4
  <1>. QED
      BY <1>1, <1>2, <1>3, <1>4 DEF Next, vars, BeginBuild, DeleteEntity,
       FetchEntity, FetchFails, UpsertEntity, SyncEntity, DropRows, Build,
       BeginSync, ClearQueue, RequestSync, Stop

\* A row that a hook leaves tells of the latest change.
LEMMA RowsTellStep ==
  ASSUME IInv, InOrder, [Next]_vars
  PROVE  RowsTell'
  <1> USE DEF IInv, RowsTell, TypeOK, HooksTell, Hooked, Told, Row, Operation,
      stashVars, queueVars, modelVars, workerVars, history
  <1>1. ASSUME NEW e \in Entity, StashChanges(e) PROVE RowsTell'
    <2>1. \A f \in Entity : ~Hooked(f)' => ~Hooked(f) /\ stash'[f] = stash[f]
      BY <1>1, StashStep
    <2>2. UNCHANGED <<pending, failed>>
      BY <1>1 DEF StashChanges
    <2>. QED
      BY <2>1, <2>2
  <1>2. ASSUME NEW h \in hooks, RunEntityHook(h) PROVE RowsTell'
    BY <1>2 DEF RunEntityHook, Overtakes
  <1>3. ASSUME NEW h \in hooks, NeutralHookResult(h) PROVE RowsTell'
    BY <1>3 DEF NeutralHookResult
  <1>4. ASSUME NEW r \in batch, FetchFails(r) PROVE RowsTell'
    BY <1>4 DEF FetchFails
  <1>5. CASE DropRows
    BY <1>5 DEF DropRows
  <1>6. CASE ClearQueue
    BY <1>6 DEF ClearQueue
  <1>7. CASE UNCHANGED <<stash, hooks, pending, failed>>
    BY <1>7
  <1>. QED
      BY <1>1, <1>2, <1>3, <1>4, <1>5, <1>6, <1>7 DEF Next, vars, BeginBuild,
       DeleteEntity, FetchEntity, UpsertEntity, SyncEntity, Build, BeginSync,
       RequestSync, Stop

\* A row in the worker's hands stays recorded, or is overtaken.
LEMMA BatchTellsStep ==
  ASSUME IInv, InOrder, [Next]_vars
  PROVE  BatchTells'
  <1> USE DEF IInv, BatchTells, TypeOK, Row, Operation, Phases, stashVars,
      queueVars, modelVars, workerVars, history
  <1>1. ASSUME NEW h \in hooks, RunEntityHook(h) PROVE BatchTells'
    <2>1. pc' = "drain" => pc = "drain" /\ overtaken' = overtaken \union
        {h.entity}
      BY <1>1 DEF RunEntityHook, Overtakes
    <2>2. batch' = batch /\ dropped' = dropped
      BY <1>1 DEF RunEntityHook
    <2>. QED
      BY <1>1, <2>1, <2>2, HookStep
  <1>2. ASSUME NEW manual \in BOOLEAN, BeginBuild(manual) PROVE BatchTells'
    BY <1>2 DEF BeginBuild, Recorded
  <1>3. ASSUME NEW r \in batch, DeleteEntity(r) PROVE BatchTells'
    BY <1>3 DEF DeleteEntity
  <1>4. ASSUME NEW r \in batch, FetchFails(r) PROVE BatchTells'
    BY <1>4 DEF FetchFails
  <1>5. CASE UpsertEntity
    BY <1>5 DEF UpsertEntity
  <1>6. CASE SyncEntity
    BY <1>6 DEF SyncEntity
  <1>7. CASE DropRows
    BY <1>7 DEF DropRows
  <1>8. CASE Build
    BY <1>8 DEF Build
  <1>9. CASE BeginSync
    BY <1>9 DEF BeginSync, All
  <1>10. CASE ClearQueue
    BY <1>10 DEF ClearQueue
  <1>11. CASE RequestSync
    BY <1>11 DEF RequestSync
  <1>12. CASE Stop
    BY <1>12 DEF Stop
  <1>13. CASE UNCHANGED <<pc, batch, dropped, pending, overtaken>>
    BY <1>13
  <1>. QED
      BY <1>1, <1>2, <1>3, <1>4, <1>5, <1>6, <1>7, <1>8, <1>9, <1>10, <1>11,
       <1>12, <1>13 DEF Next, vars, StashChanges, NeutralHookResult,
       FetchEntity

\* The worker holds nothing between its tasks.
LEMMA PhasesStep ==
  ASSUME IInv, InOrder, [Next]_vars
  PROVE  Phases'
  <1> USE DEF IInv, Phases, TypeOK, Row, stashVars, queueVars, modelVars,
      workerVars, history
  <1>1. ASSUME NEW manual \in BOOLEAN, BeginBuild(manual) PROVE Phases'
    BY <1>1 DEF BeginBuild, Recorded
  <1>2. ASSUME NEW r \in batch, DeleteEntity(r) PROVE Phases'
    BY <1>2 DEF DeleteEntity
  <1>3. ASSUME NEW r \in batch, FetchEntity(r) PROVE Phases'
    BY <1>3 DEF FetchEntity
  <1>4. ASSUME NEW r \in batch, FetchFails(r) PROVE Phases'
    BY <1>4 DEF FetchFails
  <1>5. CASE UpsertEntity
    BY <1>5 DEF UpsertEntity
  <1>6. CASE SyncEntity
    BY <1>6 DEF SyncEntity
  <1>7. CASE DropRows
    BY <1>7 DEF DropRows
  <1>8. CASE Build
    BY <1>8 DEF Build
  <1>9. CASE BeginSync
    BY <1>9 DEF BeginSync, All
  <1>10. CASE ClearQueue
    BY <1>10 DEF ClearQueue
  <1>11. CASE RequestSync
    BY <1>11 DEF RequestSync
  <1>12. CASE Stop
    BY <1>12 DEF Stop
  <1>13. CASE UNCHANGED <<pc, batch, dropped, answer>>
    BY <1>13
  <1>. QED
      BY <1>1, <1>2, <1>3, <1>4, <1>5, <1>6, <1>7, <1>8, <1>9, <1>10, <1>11,
       <1>12, <1>13 DEF Next, vars, StashChanges, RunEntityHook,
       NeutralHookResult

\* An answer of Stash is current unless a later change follows.
LEMMA AnswersTellStep ==
  ASSUME IInv, InOrder, [Next]_vars
  PROVE  AnswersTell'
  <1> USE DEF IInv, AnswersTell, TypeOK, Phases, Settled, Hooked, Told, Row,
      stashVars, queueVars, modelVars, workerVars, history
  <1>1. ASSUME NEW e \in Entity, StashChanges(e) PROVE AnswersTell'
    <2>1. \A f \in Entity : Settled(f)' => Settled(f) /\ stash'[f] = stash[f]
      BY <1>1, StashStep DEF StashChanges
    <2>2. UNCHANGED <<pending, source, failed, pc, batch, dropped, answer>>
      BY <1>1 DEF StashChanges
    <2>. QED
      BY <2>1, <2>2
  <1>2. ASSUME NEW h \in hooks, RunEntityHook(h) PROVE AnswersTell'
    BY <1>2 DEF RunEntityHook, Overtakes
  <1>3. ASSUME NEW h \in hooks, NeutralHookResult(h) PROVE AnswersTell'
    BY <1>3 DEF NeutralHookResult
  <1>4. ASSUME NEW r \in batch, FetchEntity(r) PROVE AnswersTell'
    BY <1>4 DEF FetchEntity
  <1>5. ASSUME NEW r \in batch, FetchFails(r) PROVE AnswersTell'
    BY <1>5 DEF FetchFails
  <1>6. CASE UpsertEntity
    BY <1>6 DEF UpsertEntity
  <1>7. CASE SyncEntity
    BY <1>7 DEF SyncEntity
  <1>8. CASE Stop
    BY <1>8 DEF Stop
  <1>9. CASE UNCHANGED <<stash, hooks, overtaken, failed, answer>>
    BY <1>9
  <1>. QED
      BY <1>1, <1>2, <1>3, <1>4, <1>5, <1>6, <1>7, <1>8, <1>9 DEF Next, vars,
       BeginBuild, DeleteEntity, DropRows, Build, BeginSync, ClearQueue,
       RequestSync

\* A row is given up once its entity is current.
LEMMA DroppedTellsStep ==
  ASSUME IInv, InOrder, [Next]_vars
  PROVE  DroppedTells'
  <1> USE DEF IInv, DroppedTells, TypeOK, HooksTell, RowsTell, BatchTells,
      Phases, AnswersTell, Settled, Hooked, Told, Row, Operation, stashVars,
      queueVars, modelVars, workerVars, history
  <1>1. ASSUME NEW e \in Entity, StashChanges(e) PROVE DroppedTells'
    <2>1. \A f \in Entity : Settled(f)' => Settled(f) /\ stash'[f] = stash[f]
      BY <1>1, StashStep DEF StashChanges
    <2>2. UNCHANGED <<pending, source, failed, pc, batch, dropped, answer>>
      BY <1>1 DEF StashChanges
    <2>. QED
      BY <2>1, <2>2
  <1>2. ASSUME NEW h \in hooks, RunEntityHook(h) PROVE DroppedTells'
    BY <1>2 DEF RunEntityHook, Overtakes
  <1>3. ASSUME NEW h \in hooks, NeutralHookResult(h) PROVE DroppedTells'
    BY <1>3 DEF NeutralHookResult
  <1>4. ASSUME NEW manual \in BOOLEAN, BeginBuild(manual) PROVE DroppedTells'
    BY <1>4 DEF BeginBuild, Recorded
  <1>5. ASSUME NEW r \in batch, DeleteEntity(r) PROVE DroppedTells'
    BY <1>5 DEF DeleteEntity
  <1>6. ASSUME NEW r \in batch, FetchFails(r) PROVE DroppedTells'
    BY <1>6 DEF FetchFails
  <1>7. CASE UpsertEntity
    BY <1>7 DEF UpsertEntity
  <1>8. CASE SyncEntity
    BY <1>8 DEF SyncEntity
  <1>9. CASE DropRows
    BY <1>9 DEF DropRows
  <1>10. CASE Build
    BY <1>10 DEF Build
  <1>11. CASE BeginSync
    BY <1>11 DEF BeginSync, All
  <1>12. CASE ClearQueue
    BY <1>12 DEF ClearQueue
  <1>13. CASE RequestSync
    BY <1>13 DEF RequestSync
  <1>14. CASE Stop
    BY <1>14 DEF Stop
  <1>15. CASE UNCHANGED <<pc, dropped, stash, source, hooks, overtaken,
      failed>>
    BY <1>15
  <1>. QED
      BY <1>1, <1>2, <1>3, <1>4, <1>5, <1>6, <1>7, <1>8, <1>9, <1>10, <1>11,
       <1>12, <1>13, <1>14, <1>15 DEF Next, vars, FetchEntity

\* A synchronised entity is current.
LEMMA SyncTellsStep ==
  ASSUME IInv, InOrder, [Next]_vars
  PROVE  SyncTells'
  <1> USE DEF IInv, SyncTells, TypeOK, AnswersTell, Phases, Settled, Hooked,
      Told, Row, stashVars, queueVars, modelVars, workerVars, history
  <1>1. ASSUME NEW e \in Entity, StashChanges(e) PROVE SyncTells'
    <2>1. \A f \in Entity : Settled(f)' => Settled(f) /\ stash'[f] = stash[f]
      BY <1>1, StashStep DEF StashChanges
    <2>2. UNCHANGED <<pending, source, failed, pc, batch, dropped, answer>>
      BY <1>1 DEF StashChanges
    <2>. QED
      BY <2>1, <2>2
  <1>2. ASSUME NEW h \in hooks, RunEntityHook(h) PROVE SyncTells'
    BY <1>2 DEF RunEntityHook, Overtakes
  <1>3. ASSUME NEW h \in hooks, NeutralHookResult(h) PROVE SyncTells'
    BY <1>3 DEF NeutralHookResult
  <1>4. ASSUME NEW manual \in BOOLEAN, BeginBuild(manual) PROVE SyncTells'
    BY <1>4 DEF BeginBuild, Recorded
  <1>5. ASSUME NEW r \in batch, DeleteEntity(r) PROVE SyncTells'
    BY <1>5 DEF DeleteEntity
  <1>6. ASSUME NEW r \in batch, FetchFails(r) PROVE SyncTells'
    BY <1>6 DEF FetchFails
  <1>7. CASE UpsertEntity
    BY <1>7 DEF UpsertEntity
  <1>8. CASE SyncEntity
    BY <1>8 DEF SyncEntity
  <1>9. CASE DropRows
    BY <1>9 DEF DropRows
  <1>10. CASE Build
    BY <1>10 DEF Build
  <1>11. CASE BeginSync
    <2>1. ASSUME NEW e \in Entity PROVE \E r \in batch' : r.entity = e
      <3>1. [entity |-> e, op |-> "upsert"] \in batch'
        BY <1>11 DEF BeginSync, All
      <3>. QED
        BY <3>1
    <2>. QED
      BY <2>1
  <1>12. CASE ClearQueue
    BY <1>12 DEF ClearQueue
  <1>13. CASE RequestSync
    BY <1>13 DEF RequestSync
  <1>14. CASE Stop
    BY <1>14 DEF Stop
  <1>15. CASE UNCHANGED <<pc, batch, stash, source, hooks, overtaken, failed>>
    BY <1>15
  <1>. QED
      BY <1>1, <1>2, <1>3, <1>4, <1>5, <1>6, <1>7, <1>8, <1>9, <1>10, <1>11,
       <1>12, <1>13, <1>14, <1>15 DEF Next, vars, FetchEntity

\* No step leaves an old entity without a row.
LEMMA QueuedStep ==
  ASSUME IInv, InOrder, [Next]_vars
  PROVE  Queued'
  <1> USE DEF IInv, Queued, TypeOK, Phases, RowsTell, BatchTells, AnswersTell,
      DroppedTells, SyncTells, Settled, Hooked, Told, Row, Operation,
      stashVars, queueVars, modelVars, workerVars, history
  <1>1. ASSUME NEW e \in Entity, StashChanges(e) PROVE Queued'
    <2>1. \A f \in Entity : Settled(f)' => Settled(f) /\ stash'[f] = stash[f]
      BY <1>1, StashStep DEF StashChanges
    <2>2. UNCHANGED <<pending, source, failed, pc, batch, dropped, answer>>
      BY <1>1 DEF StashChanges
    <2>. QED
      BY <2>1, <2>2
  <1>2. ASSUME NEW h \in hooks, RunEntityHook(h) PROVE Queued'
    <2>1. \A f \in Entity \ {h.entity} : Settled(f)' => Settled(f)
      BY <1>2, HookStep DEF RunEntityHook, Overtakes
    <2>2. UNCHANGED <<stash, source, failed>>
      BY <1>2 DEF RunEntityHook
    <2>. QED
      BY <1>2, <2>1, <2>2, HookStep
  <1>3. ASSUME NEW h \in hooks, NeutralHookResult(h) PROVE Queued'
    BY <1>3 DEF NeutralHookResult
  <1>4. ASSUME NEW r \in batch, DeleteEntity(r) PROVE Queued'
    BY <1>4 DEF DeleteEntity
  <1>5. ASSUME NEW r \in batch, FetchFails(r) PROVE Queued'
    BY <1>5 DEF FetchFails
  <1>6. CASE UpsertEntity
    BY <1>6 DEF UpsertEntity
  <1>7. CASE SyncEntity
    BY <1>7 DEF SyncEntity
  <1>8. CASE DropRows
    BY <1>8 DEF DropRows
  <1>9. CASE ClearQueue
    BY <1>9 DEF ClearQueue
  <1>10. CASE UNCHANGED <<stash, source, hooks, overtaken, failed, pending>>
    BY <1>10
  <1>. QED
      BY <1>1, <1>2, <1>3, <1>4, <1>5, <1>6, <1>7, <1>8, <1>9, <1>10 DEF Next,
       vars, BeginBuild, FetchEntity, Build, BeginSync, RequestSync, Stop

\* A row and the request for its model go together.
LEMMA RowsAwaitModelStep ==
  ASSUME IInv, InOrder, [Next]_vars
  PROVE  RowsAwaitModel'
  <1> USE DEF IInv, RowsAwaitModel, TypeOK, Phases, DrainHoldsRows, Row,
      Operation, stashVars, queueVars, modelVars, workerVars, history
  <1>1. ASSUME NEW h \in hooks, RunEntityHook(h) PROVE RowsAwaitModel'
    BY <1>1 DEF RunEntityHook, Overtakes
  <1>2. ASSUME NEW h \in hooks, NeutralHookResult(h) PROVE RowsAwaitModel'
    BY <1>2 DEF NeutralHookResult
  <1>3. ASSUME NEW manual \in BOOLEAN, BeginBuild(manual) PROVE
      RowsAwaitModel'
    BY <1>3 DEF BeginBuild, Recorded
  <1>4. ASSUME NEW r \in batch, FetchFails(r) PROVE RowsAwaitModel'
    BY <1>4 DEF FetchFails
  <1>5. CASE DropRows
    BY <1>5 DEF DropRows
  <1>6. CASE Build
    BY <1>6 DEF Build
  <1>7. CASE BeginSync
    BY <1>7 DEF BeginSync, All
  <1>8. CASE ClearQueue
    BY <1>8 DEF ClearQueue
  <1>9. CASE RequestSync
    BY <1>9 DEF RequestSync
  <1>10. CASE Stop
    BY <1>10 DEF Stop
  <1>11. CASE UNCHANGED <<failed, overtaken, pending, pc, requested,
      published>>
    BY <1>11
  <1>. QED
      BY <1>1, <1>2, <1>3, <1>4, <1>5, <1>6, <1>7, <1>8, <1>9, <1>10, <1>11
       DEF Next, vars, StashChanges, DeleteEntity, FetchEntity, UpsertEntity,
       SyncEntity

\* A drain takes each row it found.
LEMMA DrainHoldsRowsStep ==
  ASSUME IInv, InOrder, [Next]_vars
  PROVE  DrainHoldsRows'
  <1> USE DEF IInv, DrainHoldsRows, TypeOK, Phases, Row, Operation,
      BatchTells, stashVars, queueVars, modelVars, workerVars, history
  <1>1. ASSUME NEW h \in hooks, RunEntityHook(h) PROVE DrainHoldsRows'
    BY <1>1 DEF RunEntityHook, Overtakes
  <1>2. ASSUME NEW h \in hooks, NeutralHookResult(h) PROVE DrainHoldsRows'
    BY <1>2 DEF NeutralHookResult
  <1>3. ASSUME NEW manual \in BOOLEAN, BeginBuild(manual) PROVE
      DrainHoldsRows'
    <2>1. ASSUME NEW e \in Entity, pending[e] # NoRow
          PROVE  \E r \in batch' : r.entity = e
      <3>1. [entity |-> e, op |-> pending[e]] \in batch'
        BY <1>3, <2>1 DEF BeginBuild, Recorded
      <3>. QED
        BY <3>1
    <2>. QED
      BY <1>3, <2>1 DEF BeginBuild
  <1>4. ASSUME NEW r \in batch, DeleteEntity(r) PROVE DrainHoldsRows'
    BY <1>4 DEF DeleteEntity
  <1>5. ASSUME NEW r \in batch, FetchFails(r) PROVE DrainHoldsRows'
    BY <1>5 DEF FetchFails
  <1>6. CASE UpsertEntity
    BY <1>6 DEF UpsertEntity
  <1>7. CASE SyncEntity
    BY <1>7 DEF SyncEntity
  <1>8. CASE DropRows
    BY <1>8 DEF DropRows
  <1>9. CASE Build
    BY <1>9 DEF Build
  <1>10. CASE BeginSync
    BY <1>10 DEF BeginSync, All
  <1>11. CASE ClearQueue
    BY <1>11 DEF ClearQueue
  <1>12. CASE RequestSync
    BY <1>12 DEF RequestSync
  <1>13. CASE Stop
    BY <1>13 DEF Stop
  <1>14. CASE UNCHANGED <<failed, overtaken, pending, pc, batch, dropped>>
    BY <1>14
  <1>. QED
      BY <1>1, <1>2, <1>3, <1>4, <1>5, <1>6, <1>7, <1>8, <1>9, <1>10, <1>11,
       <1>12, <1>13, <1>14 DEF Next, vars, StashChanges, FetchEntity

\* A published generation has seen the source tables.
LEMMA ModelTellsStep ==
  ASSUME IInv, InOrder, [Next]_vars
  PROVE  ModelTells'
  <1> USE DEF IInv, ModelTells, TypeOK, Queued, RowsAwaitModel, BatchTells,
      AnswersTell, Phases, Settled, Hooked, Told, Row, Operation, stashVars,
      queueVars, modelVars, workerVars, history
  <1>1. ASSUME NEW e \in Entity, StashChanges(e) PROVE ModelTells'
    BY <1>1 DEF StashChanges
  <1>2. ASSUME NEW h \in hooks, RunEntityHook(h) PROVE ModelTells'
    BY <1>2 DEF RunEntityHook, Overtakes
  <1>3. ASSUME NEW h \in hooks, NeutralHookResult(h) PROVE ModelTells'
    BY <1>3 DEF NeutralHookResult
  <1>4. ASSUME NEW manual \in BOOLEAN, BeginBuild(manual) PROVE ModelTells'
    BY <1>4 DEF BeginBuild, Recorded
  <1>5. ASSUME NEW r \in batch, DeleteEntity(r) PROVE ModelTells'
    BY <1>5 DEF DeleteEntity
  <1>6. ASSUME NEW r \in batch, FetchFails(r) PROVE ModelTells'
    BY <1>6 DEF FetchFails
  <1>7. CASE UpsertEntity
    BY <1>7 DEF UpsertEntity
  <1>8. CASE SyncEntity
    BY <1>8 DEF SyncEntity
  <1>9. CASE Build
    BY <1>9 DEF Build
  <1>10. CASE RequestSync
    BY <1>10 DEF RequestSync
  <1>11. CASE UNCHANGED <<failed, requested, published, hooks, overtaken,
      model, source>>
    BY <1>11
  <1>. QED
      BY <1>1, <1>2, <1>3, <1>4, <1>5, <1>6, <1>7, <1>8, <1>9, <1>10, <1>11
       DEF Next, vars, FetchEntity, DropRows, BeginSync, ClearQueue, Stop

\* The invariant holds at first ...
LEMMA InitIInv == Init => IInv
  <1> SUFFICES ASSUME Init PROVE IInv
    OBVIOUS
  <1>1. TypeOK
    BY EntityHooksAssumptions DEF Init, TypeOK, Row, NoRow
  <1>. QED
    BY <1>1 DEF Init, IInv, TypeOK, HooksTell, RowsTell, BatchTells, Phases,
         AnswersTell, DroppedTells, SyncTells, Queued, RowsAwaitModel,
         DrainHoldsRows, ModelTells, Told, Settled, Hooked

\* ... is preserved by each step ...
LEMMA NextIInv == InOrder /\ IInv /\ [Next]_vars => IInv'
  BY TypeOKStep, HooksTellStep, RowsTellStep, BatchTellsStep, PhasesStep,
     AnswersTellStep, DroppedTellsStep, SyncTellsStep, QueuedStep,
     RowsAwaitModelStep, DrainHoldsRowsStep, ModelTellsStep DEF IInv

\* ... and so holds always.
LEMMA SpecIInv == ASSUME InOrder PROVE Spec => []IInv
  <1>1. IInv /\ [Next]_vars => IInv'
    BY NextIInv
  <1>. QED
    BY <1>1, InitIInv, PTL DEF Spec

\* The types of the variables, for any entities, bounds and faults.
THEOREM TypeCorrect == ASSUME InOrder PROVE Spec => []TypeOK
  <1>1. IInv => TypeOK
    BY DEF IInv
  <1>. QED
    BY <1>1, SpecIInv, PTL

\* No change of Stash is forgotten on its way from the hook to the source
\* tables, unless the hook met a running task (tasks.go:493 and 704).
THEOREM ChangesStayQueued == ASSUME InOrder PROVE Spec => []ChangesAreQueued
  <1>1. IInv => ChangesAreQueued
    BY DEF IInv, Queued, ChangesAreQueued, Settled, Hooked, Told
  <1>. QED
    BY <1>1, SpecIInv, PTL

\* With nothing outstanding the published model was built from what Stash says,
\* with the same exception.
THEOREM ModelIsFresh == ASSUME InOrder PROVE Spec => []FreshModel
  <1>1. IInv => FreshModel
    <2> SUFFICES ASSUME IInv, failed = {}, Quiet, requested = published,
                        NEW e \in Entity \ overtaken
                 PROVE  model[e] = stash[e]
      BY DEF FreshModel
    <2>1. Settled(e) /\ Told
      BY DEF Quiet, Settled, Hooked, Told
    <2>2. pending[e] = NoRow
      BY DEF IInv, TypeOK, RowsAwaitModel
    <2>3. source[e] = stash[e]
      BY <2>1, <2>2 DEF IInv, Queued
    <2>. QED
      BY <2>1, <2>3 DEF IInv, ModelTells
  <1>. QED
    BY <1>1, SpecIInv, PTL
=============================================================================
