------------------------------ MODULE Feedback ------------------------------
(***************************************************************************)
(* Feedback on scenes and what follows from it: the exclusion and the      *)
(* pruning row of a scene, the corrections that take feedback back, and    *)
(* the prune tag, which lives in Stash and in the sidecar at once.         *)
(* src/core/writes.go, src/core/curation.go, src/core/prune.go.            *)
(*                                                                         *)
(* Every operation is a request process of its own and one transaction,    *)
(* but for setPruneTag (Stash first, the sidecar after it) and the         *)
(* reconciliation of the sync task (it reads before its transaction).      *)
(***************************************************************************)
EXTENDS Library, Integers, FiniteSets

CONSTANTS
  FeedbackId,   \* ids the clients give their feedback
  Type,         \* the feedback types the clients send
  MaxClock,     \* bound: the sidecar's clock, and the clients'
  MaxSyncs      \* bound: how often the sync task imports Stash's tags

ASSUME FeedbackAssumption ==
  /\ Type \subseteq {"thumb_up", "thumb_down", "never_show", "prune"}
  /\ MaxClock \in Nat /\ MaxSyncs \in Nat

VARIABLES
  feedback,   \* feedback rows by id
  exclusion,  \* the never_show exclusion of a scene
  pruning,    \* the pruning_candidate row of a scene
  stashTag,   \* scenes that carry the prune tag in Stash
  sourceTag,  \* scenes that carry it in the sidecar's scene_tag
  tagging,    \* setPruneTag between Stash's mutation and recordPruneTags
  task,       \* the sync task: idle, imported the tags, read the tagged scenes
  found,      \* the tagged scenes it read, for its transaction
  drift,      \* history: the removals may differ from the tags, and since when
  requested,  \* coordinatorRequest: a generation is asked for and not built
  clock, syncs

evidence == <<feedback, exclusion, pruning>>
tags == <<stashTag, sourceTag, tagging, task, found, drift, syncs>>
feedbackVars == <<evidence, tags, requested, clock>>

Negative == {"thumb_down", "never_show", "prune"}
NoFeedback == [type |-> "none"]
NoRow == [state |-> "none"]
NoTagging == [mode |-> "none"]

InitFeedback ==
  /\ feedback = [f \in FeedbackId |-> NoFeedback]
  /\ exclusion = [s \in Scene |-> "none"]
  /\ pruning = [s \in Scene |-> NoRow]
  /\ stashTag = {} /\ sourceTag = {}
  /\ tagging = NoTagging /\ task = "idle" /\ found = {} /\ drift = "none"
  /\ requested = FALSE /\ clock = 0 /\ syncs = 0

Known(f) == feedback[f] # NoFeedback

-----------------------------------------------------------------------------
(* The upsert of a pruning row.  The row keeps its created_at_ms, and the   *)
(* table's CHECK refuses an update that lies before it.                     *)
Upsert(rows, s, state, at) ==
  [rows EXCEPT ![s] = [state   |-> state,
                       created |-> IF rows[s] = NoRow THEN at ELSE rows[s].created,
                       updated |-> at]]

ChecksHold(rows) == \A s \in Scene : rows[s] # NoRow => rows[s].updated >= rows[s].created

(* applyFeedback, reopenPruning: what one new row does beside itself.       *)
ApplyExclusion(excluded, entry) ==
  IF entry.type = "never_show" THEN [excluded EXCEPT ![entry.scene] = "active"]
  ELSE excluded

ApplyPruning(rows, entry) ==
  IF entry.type \in Negative THEN Upsert(rows, entry.scene, "review", entry.at) ELSE rows

(* One entry of a batch: INSERT OR IGNORE, and its consequences if it is    *)
(* new.  An entry that breaks a CHECK rolls the whole batch back.           *)
Submit(db, entry) ==
  IF db.feedback[entry.id] # NoFeedback \/ ~db.ok THEN db
  ELSE LET rows == ApplyPruning(db.pruning, entry) IN
       [ok        |-> ChecksHold(rows),
        inserted  |-> TRUE,
        feedback  |-> [db.feedback EXCEPT ![entry.id] =
                         [scene |-> entry.scene, type |-> entry.type,
                          at |-> entry.at, by |-> entry.id]],
        exclusion |-> ApplyExclusion(db.exclusion, entry),
        pruning   |-> rows]

Entry == [id : FeedbackId, scene : Scene, type : Type, at : 0..MaxClock]

(* submitFeedback: a batch of two entries, or of one (the same twice, which *)
(* is ignored), whose times a client's clock has set and which may arrive   *)
(* late, twice and out of order.                                            *)
Batches == {b \in Entry \X Entry : b[1] = b[2] \/ b[1].at # b[2].at}

Stored == [ok |-> TRUE, inserted |-> FALSE, feedback |-> feedback,
           exclusion |-> exclusion, pruning |-> pruning]

SubmitFeedback(batch) ==
  LET db == Submit(Submit(Stored, batch[1]), batch[2])
  IN /\ db.ok /\ db.inserted
     /\ feedback' = db.feedback
     /\ exclusion' = db.exclusion
     /\ pruning' = db.pruning
     /\ requested' = TRUE
     /\ UNCHANGED <<tags, clock>>

-----------------------------------------------------------------------------
(* correctFeedback.  A row is unreversed while `by` is its own id.          *)
Live(rows, f) == rows[f] # NoFeedback /\ rows[f].by = f

LiveOf(rows, s, types) == {f \in FeedbackId : Live(rows, f) /\ rows[f].scene = s
                                              /\ rows[f].type \in types}

Correctable(f, c) == Live(feedback, f) /\ ~Known(c) /\ clock >= feedback[f].at

WithdrawnBlindly(rows, s, excluded) ==
  IF excluded[s] = "active" THEN [excluded EXCEPT ![s] = "reversed"] ELSE excluded

Withdrawn(rows, s, excluded) ==
  IF LiveOf(rows, s, {"never_show"}) = {} /\ excluded[s] = "active"
  THEN [excluded EXCEPT ![s] = "reversed"] ELSE excluded

Unqueued(rows, s, original, candidates) ==
  IF /\ original \in Negative
     /\ LiveOf(rows, s, Negative) = {}
     /\ candidates[s].state = "review"
  THEN [candidates EXCEPT ![s] = NoRow] ELSE candidates

CorrectFeedback(f, c, type) ==
  LET s == feedback[f].scene
      entry == [id |-> c, scene |-> s, type |-> type, at |-> clock]
      rows == [feedback EXCEPT ![c] = [scene |-> s, type |-> type, at |-> clock, by |-> c],
                               ![f].by = c]
      candidates == ApplyPruning(pruning, entry)
  IN /\ Correctable(f, c)
     /\ ChecksHold(candidates)
     /\ feedback' = rows
     /\ exclusion' = Withdrawn(rows, s, ApplyExclusion(exclusion, entry))
     /\ pruning' = Unqueued(rows, s, feedback[f].type, candidates)
     /\ requested' = TRUE
     /\ UNCHANGED <<tags, clock>>

(* submitImpactCorrection: the new row takes every live one's place.        *)
SubmitImpactCorrection(c, s) ==
  /\ ~Known(c)
  /\ feedback' = [f \in FeedbackId |->
       IF f = c THEN [scene |-> s, type |-> "impact_correction", at |-> clock, by |-> c]
       ELSE IF f \in LiveOf(feedback, s, {"impact_correction"}) THEN [feedback[f] EXCEPT !.by = c]
       ELSE feedback[f]]
  /\ requested' = TRUE
  /\ UNCHANGED <<exclusion, pruning, tags, clock>>

-----------------------------------------------------------------------------
(* dismissPruneCandidate *)
Dismiss(s) ==
  /\ ChecksHold(Upsert(pruning, s, "keep", clock))
  /\ pruning' = Upsert(pruning, s, "keep", clock)
  /\ UNCHANGED <<feedback, exclusion, tags, requested, clock>>

(* setPruneTag: the bulk mutation in Stash; the process may die after it.   *)
MutateStash(scenes, mode) ==
  /\ tagging = NoTagging
  /\ stashTag' = IF mode = "ADD" THEN stashTag \cup scenes ELSE stashTag \ scenes
  /\ tagging' = [mode |-> mode, scenes |-> scenes]
  /\ UNCHANGED <<evidence, sourceTag, task, found, drift, syncs, requested, clock>>

Record(rows, scenes, mode) ==
  [s \in Scene |->
    IF s \notin scenes THEN rows[s]
    ELSE IF mode = "ADD" THEN Upsert(rows, s, "remove", clock)[s]
    ELSE IF rows[s].state = "remove" THEN NoRow ELSE rows[s]]

RecordPruneTags ==
  /\ tagging # NoTagging
  /\ ChecksHold(Record(pruning, tagging.scenes, tagging.mode))
  /\ sourceTag' = IF tagging.mode = "ADD" THEN sourceTag \cup tagging.scenes
                  ELSE sourceTag \ tagging.scenes
  /\ pruning' = Record(pruning, tagging.scenes, tagging.mode)
  /\ tagging' = NoTagging
  /\ drift' = IF task = "read" THEN "raced" ELSE drift
  /\ UNCHANGED <<feedback, exclusion, stashTag, task, found, syncs, requested, clock>>

SetPruneTagDies ==
  /\ tagging # NoTagging
  /\ tagging' = NoTagging
  /\ UNCHANGED <<evidence, stashTag, sourceTag, task, found, drift, syncs, requested, clock>>

(* The sync task imports Stash's tags; reconcilePruneTag then reads the     *)
(* tagged scenes, and writes in a transaction of its own.                   *)
ImportTags ==
  /\ task = "idle" /\ syncs < MaxSyncs
  /\ sourceTag' = stashTag
  /\ task' = "imported" /\ syncs' = syncs + 1 /\ drift' = "imported"
  /\ UNCHANGED <<evidence, stashTag, tagging, found, requested, clock>>

ReadTagged ==
  /\ task = "imported"
  /\ found' = sourceTag
  /\ task' = "read" /\ drift' = "imported"
  /\ UNCHANGED <<evidence, stashTag, sourceTag, tagging, syncs, requested, clock>>

ReconciledOnlyAdding(rows, tagged) ==
  [s \in Scene |-> IF s \in tagged THEN Upsert(rows, s, "remove", clock)[s] ELSE rows[s]]

Reconciled(rows, tagged) ==
  [s \in Scene |->
    IF s \in tagged
    THEN IF rows[s].state = "remove" THEN rows[s] ELSE Upsert(rows, s, "remove", clock)[s]
    ELSE IF rows[s].state = "remove" /\ s \notin sourceTag THEN NoRow ELSE rows[s]]

ReconcilePruneTag ==
  /\ task = "read"
  /\ ChecksHold(Reconciled(pruning, found))
  /\ pruning' = Reconciled(pruning, found)
  /\ task' = "idle" /\ found' = {}
  /\ drift' = IF drift = "raced" THEN "raced" ELSE "none"
  /\ UNCHANGED <<feedback, exclusion, stashTag, sourceTag, tagging, syncs, requested, clock>>

SyncDies ==
  /\ task # "idle"
  /\ task' = "idle" /\ found' = {}
  /\ UNCHANGED <<evidence, stashTag, sourceTag, tagging, drift, syncs, requested, clock>>

Tick ==
  /\ clock < MaxClock
  /\ clock' = clock + 1
  /\ UNCHANGED <<evidence, tags, requested>>

NextFeedback ==
  \/ \E batch \in Batches : SubmitFeedback(batch)
  \/ \E f, c \in FeedbackId, type \in Type \cup {"reversal"} : CorrectFeedback(f, c, type)
  \/ \E c \in FeedbackId, s \in Scene : SubmitImpactCorrection(c, s)
  \/ \E s \in Scene : Dismiss(s)
  \/ \E scenes \in SUBSET Scene \ {{}}, mode \in {"ADD", "REMOVE"} : MutateStash(scenes, mode)
  \/ RecordPruneTags \/ SetPruneTagDies
  \/ ImportTags \/ ReadTagged \/ ReconcilePruneTag \/ SyncDies
  \/ Tick

SpecFeedback == InitFeedback /\ [][NextFeedback]_feedbackVars

-----------------------------------------------------------------------------
(* A scene is hidden exactly while somebody's "never show" stands: no       *)
(* correction, of whatever row, brings back a scene that another live row   *)
(* still hides, and none leaves a scene hidden that nothing hides any more. *)
ExcludedWhileAsked ==
  \A s \in Scene : (exclusion[s] = "active") <=> (LiveOf(feedback, s, {"never_show"}) # {})

(* A scene waits for review only while a live thumbs down, never show or    *)
(* prune stands behind it, however often the row changed hands between      *)
(* feedback, dismissal and prune tag.                                       *)
ReviewHasCause ==
  \A s \in Scene : pruning[s].state = "review" => LiveOf(feedback, s, Negative) # {}

(* A reversed row was reversed by a row of the same scene that is not       *)
(* older, and following the corrections ends in a live row: no cycle takes  *)
(* a scene's evidence away for good.                                        *)
CorrectionsEnd ==
  /\ \A f \in FeedbackId : Known(f) =>
       /\ Known(feedback[f].by) /\ feedback[feedback[f].by].scene = feedback[f].scene
  /\ \A s \in Scene : (\E f \in FeedbackId : Known(f) /\ feedback[f].scene = s) =>
       \E f \in FeedbackId : Live(feedback, f) /\ feedback[f].scene = s
  /\ \A s \in Scene : Cardinality(LiveOf(feedback, s, {"impact_correction"})) <= 1

(* The three together: what hides a scene or puts it up for review is live  *)
(* feedback, and corrections never lose it.                                 *)
FeedbackStands == ExcludedWhileAsked /\ ReviewHasCause /\ CorrectionsEnd

(* Once the sync task has reconciled, a scene marked for removal carries    *)
(* the prune tag in the sidecar, unless a prune-tag request committed       *)
(* inside the reconciliation's window and its stale answer was written      *)
(* over it.                                                                 *)
RemovalsAreTagged ==
  drift = "none" => \A s \in Scene : pruning[s].state = "remove" => s \in sourceTag
=============================================================================
