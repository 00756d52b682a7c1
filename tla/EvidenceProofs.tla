--------------------------- MODULE EvidenceProofs ---------------------------
(***************************************************************************)
(* Proofs about what a user leaves behind, for any scenes, ids, types,     *)
(* times and number of syncs: what hides a scene or puts it up for review  *)
(* is live feedback, corrections never lose it, and a scene marked for     *)
(* removal is tagged (Feedback); of all the preferences a tag ever got one *)
(* counts (Preferences); every play and O of Stash's history counts once,  *)
(* because the matching of matchOs is one to one and passes a pair over    *)
(* only for a nearer one (Historical).  What that evidence weighs: the     *)
(* calibration of the labels is the least squares fit that never falls,    *)
(* the lower hull of the running totals of the buckets (SceneLabels); a    *)
(* tag nobody wrote of takes the nearest answers above it, and an affinity *)
(* points the way of those who speak of the tag (TagAffinities).           *)
(***************************************************************************)
EXTENDS MCEvidence, FiniteSetTheorems, WellFoundedInduction, TLAPS

\* Of any numbers one is the least.
LEMMA LeastOf ==
  ASSUME NEW S, S \subseteq Nat, S # {}
  PROVE  \E s \in S : \A r \in S : s <= r
<1>1. PICK s \in S : \A r \in S : <<r, s>> \notin OpToRel(<, Nat)
  BY NatLessThanWellFounded, WFMin
<1>2. \A r \in S : ~(r < s)
  BY <1>1 DEF OpToRel
<1> QED BY <1>2

-----------------------------------------------------------------------------
(* Feedback: its types, and the inductive invariants.                      *)

Given == Type \union {"reversal", "impact_correction"}
FeedbackRow == [scene : Scene, type : Given, at : Int, by : FeedbackId]
Logs == [FeedbackId -> FeedbackRow \union {NoFeedback}]
PruningRow == [state : {"review", "keep", "remove"}, created : Int, updated : Int]
PruningRows == [Scene -> PruningRow \union {NoRow}]
Tagging == [mode : {"ADD", "REMOVE"}, scenes : SUBSET Scene]

\* A reversed row was reversed by a row of its scene; a scene of which there
\* is feedback has a live row; and one correction of its impact counts.
Followed(log) ==
  \A f \in FeedbackId : log[f] # NoFeedback =>
    log[log[f].by] # NoFeedback /\ log[log[f].by].scene = log[f].scene

SceneHasLive(log) ==
  \A f \in FeedbackId : log[f] # NoFeedback =>
    \E g \in FeedbackId : Live(log, g) /\ log[g].scene = log[f].scene

OneImpact(log) ==
  \A f, g \in FeedbackId :
    /\ Live(log, f) /\ log[f].type = "impact_correction"
    /\ Live(log, g) /\ log[g].type = "impact_correction"
    /\ log[f].scene = log[g].scene
    => f = g

Hides(log, s) ==
  \E f \in FeedbackId : Live(log, f) /\ log[f].scene = s /\ log[f].type = "never_show"

SpeaksAgainst(log, s) ==
  \E f \in FeedbackId : Live(log, f) /\ log[f].scene = s /\ log[f].type \in Negative

\* The tables of one transaction agree with each other.
Agree(log, barred, candidates) ==
  /\ log \in Logs
  /\ barred \in [Scene -> {"none", "active", "reversed"}]
  /\ candidates \in PruningRows
  /\ Followed(log) /\ SceneHasLive(log) /\ OneImpact(log)
  /\ \A s \in Scene : (barred[s] = "active") <=> Hides(log, s)
  /\ \A s \in Scene : candidates[s].state = "review" => SpeaksAgainst(log, s)

\* What the sync task has read is tagged, unless a request committed since.
ReadIsTagged ==
  task = "read" /\ drift # "raced" => found \subseteq sourceTag

FeedbackInv ==
  /\ Agree(feedback, exclusion, pruning)
  /\ tagging \in Tagging \union {NoTagging}
  /\ clock \in Int
  /\ RemovalsAreTagged
  /\ ReadIsTagged

-----------------------------------------------------------------------------
(* What the helpers of the actions do.                                     *)

LEMMA LiveOfIs ==
  ASSUME NEW log, NEW s, NEW types, NEW f
  PROVE  f \in LiveOf(log, s, types) <=>
           f \in FeedbackId /\ Live(log, f) /\ log[f].scene = s /\ log[f].type \in types
  BY DEF LiveOf

LEMMA RowsDiffer ==
  /\ \A row \in FeedbackRow : row # NoFeedback
  /\ \A row \in PruningRow : row # NoRow
  /\ NoRow.state = "none"
  <1>1. \A row \in FeedbackRow : row.type \in Given /\ "none" \notin Given
    BY FeedbackAssumption DEF FeedbackRow, Given
  <1>2. \A row \in FeedbackRow : row.type # NoFeedback.type
    BY <1>1 DEF NoFeedback
  <1>3. \A row \in PruningRow : row.state # NoRow.state
    BY DEF PruningRow, NoRow
  <1> QED
    BY <1>2, <1>3 DEF NoRow

LEMMA UpsertIs ==
  ASSUME NEW candidates \in PruningRows, NEW s \in Scene,
         NEW state \in {"review", "keep", "remove"}, NEW at \in Int
  PROVE  /\ Upsert(candidates, s, state, at) \in PruningRows
         /\ Upsert(candidates, s, state, at)[s] \in PruningRow
         /\ Upsert(candidates, s, state, at)[s].state = state
         /\ \A t \in Scene : t # s => Upsert(candidates, s, state, at)[t] = candidates[t]
  <1> DEFINE created == IF candidates[s] = NoRow THEN at ELSE candidates[s].created
             row == [state |-> state, created |-> created, updated |-> at]
  <1>1. created \in Int
    BY DEF PruningRows, PruningRow
  <1>2. row \in PruningRow /\ row.state = state
    BY <1>1 DEF PruningRow
  <1>3. Upsert(candidates, s, state, at) = [candidates EXCEPT ![s] = row]
    BY DEF Upsert
  <1> HIDE DEF row
  <1> QED
    BY <1>2, <1>3 DEF PruningRows

LEMMA AppliedPruning ==
  ASSUME NEW candidates \in PruningRows, NEW entry, entry.scene \in Scene, entry.at \in Int
  PROVE  /\ ApplyPruning(candidates, entry) \in PruningRows
         /\ \A s \in Scene : ApplyPruning(candidates, entry)[s].state = "review" =>
              candidates[s].state = "review" \/ (entry.type \in Negative /\ s = entry.scene)
         /\ \A s \in Scene : ApplyPruning(candidates, entry)[s].state = "remove" =>
              candidates[s].state = "remove"
  <1>1. CASE entry.type \in Negative
    <2>1. ApplyPruning(candidates, entry) = Upsert(candidates, entry.scene, "review", entry.at)
      BY <1>1 DEF ApplyPruning
    <2> DEFINE upserted == Upsert(candidates, entry.scene, "review", entry.at)
    <2>2. /\ upserted \in PruningRows /\ upserted[entry.scene].state = "review"
          /\ \A t \in Scene : t # entry.scene => upserted[t] = candidates[t]
      BY UpsertIs, SMTT(30)
    <2> HIDE DEF upserted
    <2> QED
      BY <1>1, <2>1, <2>2 DEF upserted
  <1>2. CASE entry.type \notin Negative
    BY <1>2 DEF ApplyPruning
  <1> QED
    BY <1>1, <1>2

LEMMA AppliedExclusion ==
  ASSUME NEW barred \in [Scene -> {"none", "active", "reversed"}], NEW entry, entry.scene \in Scene
  PROVE  /\ ApplyExclusion(barred, entry) \in [Scene -> {"none", "active", "reversed"}]
         /\ \A s \in Scene : (ApplyExclusion(barred, entry)[s] = "active") <=>
              \/ barred[s] = "active"
              \/ entry.type = "never_show" /\ s = entry.scene
  BY DEF ApplyExclusion

\* A new row is live, and leaves the others as they are.
LEMMA NewRow ==
  ASSUME NEW log, NEW barred, NEW candidates, Agree(log, barred, candidates),
         NEW entry \in Entry, log[entry.id] = NoFeedback
  PROVE  Agree([log EXCEPT ![entry.id] = [scene |-> entry.scene, type |-> entry.type,
                                           at |-> entry.at, by |-> entry.id]],
               ApplyExclusion(barred, entry), ApplyPruning(candidates, entry))
  <1> DEFINE new == [log EXCEPT ![entry.id] = [scene |-> entry.scene, type |-> entry.type,
                                                at |-> entry.at, by |-> entry.id]]
  <1>1. /\ entry.id \in FeedbackId /\ entry.scene \in Scene /\ entry.at \in Int
        /\ entry.type \in Given /\ entry.type # "impact_correction"
    BY FeedbackAssumption DEF Entry, Given
  <1>2. /\ new \in Logs
        /\ new[entry.id] # NoFeedback /\ Live(new, entry.id)
        /\ new[entry.id].scene = entry.scene /\ new[entry.id].type = entry.type
        /\ new[entry.id].by = entry.id
        /\ \A f \in FeedbackId : f # entry.id => new[f] = log[f]
    <2>1. [scene |-> entry.scene, type |-> entry.type, at |-> entry.at, by |-> entry.id] \in FeedbackRow
      BY <1>1 DEF FeedbackRow
    <2> QED
      BY <1>1, <2>1, RowsDiffer DEF Agree, Logs, Live
  <1> HIDE DEF new
  <1>3. \A f \in FeedbackId : Live(log, f) => f # entry.id /\ Live(new, f)
    BY <1>2 DEF Live
  <1>4. \A f \in FeedbackId : Live(new, f) => f = entry.id \/ Live(log, f)
    BY <1>2 DEF Live
  <1>5. Followed(new)
    BY <1>1, <1>2 DEF Agree, Followed, Logs, FeedbackRow
  <1>6. SceneHasLive(new)
    BY <1>1, <1>2, <1>3 DEF Agree, SceneHasLive
  <1>7. OneImpact(new)
    BY <1>1, <1>2, <1>4 DEF Agree, OneImpact
  <1>8. \A s \in Scene : (ApplyExclusion(barred, entry)[s] = "active") <=> Hides(new, s)
    <2>1. \A s \in Scene : Hides(new, s) <=> Hides(log, s) \/ (entry.type = "never_show" /\ s = entry.scene)
      BY <1>1, <1>2, <1>3, <1>4 DEF Hides
    <2>2. \A s \in Scene : (ApplyExclusion(barred, entry)[s] = "active") <=>
            \/ barred[s] = "active"
            \/ entry.type = "never_show" /\ s = entry.scene
      <3>1. barred \in [Scene -> {"none", "active", "reversed"}]
        BY DEF Agree
      <3> QED
        BY <1>1, <3>1, AppliedExclusion
    <2>3. \A s \in Scene : (barred[s] = "active") <=> Hides(log, s)
      BY DEF Agree
    <2> QED
      BY <2>1, <2>2, <2>3
  <1>9. \A s \in Scene : ApplyPruning(candidates, entry)[s].state = "review" => SpeaksAgainst(new, s)
    <2>1. \A s \in Scene : SpeaksAgainst(log, s) \/ (entry.type \in Negative /\ s = entry.scene) => SpeaksAgainst(new, s)
      BY <1>1, <1>2, <1>3 DEF SpeaksAgainst
    <2> QED
      BY <2>1, <1>1, AppliedPruning DEF Agree
  <1> QED
    BY <1>1, <1>2, <1>5, <1>6, <1>7, <1>8, <1>9, AppliedExclusion, AppliedPruning DEF Agree, new

LEMMA SubmitAgrees ==
  ASSUME NEW db, Agree(db.feedback, db.exclusion, db.pruning), NEW entry \in Entry
  PROVE  /\ Agree(Submit(db, entry).feedback, Submit(db, entry).exclusion, Submit(db, entry).pruning)
         /\ \A s \in Scene : Submit(db, entry).pruning[s].state = "remove" =>
              db.pruning[s].state = "remove"
  <1>1. CASE db.feedback[entry.id] # NoFeedback \/ ~db.ok
    BY <1>1 DEF Submit
  <1>2. CASE ~(db.feedback[entry.id] # NoFeedback \/ ~db.ok)
    <2>1. Agree([db.feedback EXCEPT ![entry.id] = [scene |-> entry.scene, type |-> entry.type,
                                                   at |-> entry.at, by |-> entry.id]],
                ApplyExclusion(db.exclusion, entry), ApplyPruning(db.pruning, entry))
      BY <1>2, NewRow
    <2>2. /\ Submit(db, entry).feedback =
               [db.feedback EXCEPT ![entry.id] = [scene |-> entry.scene, type |-> entry.type,
                                                  at |-> entry.at, by |-> entry.id]]
          /\ Submit(db, entry).exclusion = ApplyExclusion(db.exclusion, entry)
          /\ Submit(db, entry).pruning = ApplyPruning(db.pruning, entry)
      BY <1>2 DEF Submit
    <2>3. db.pruning \in PruningRows /\ entry.scene \in Scene /\ entry.at \in Int
      BY FeedbackAssumption DEF Agree, Entry
    <2> QED
      BY <2>1, <2>2, <2>3, AppliedPruning
  <1> QED
    BY <1>1, <1>2

-----------------------------------------------------------------------------
(* The operations.                                                         *)

LEMMA SubmitFeedbackKeeps ==
  ASSUME FeedbackInv, NEW batch \in Batches, SubmitFeedback(batch)
  PROVE  FeedbackInv'
  <1> DEFINE first == Submit(Stored, batch[1])
             db == Submit(first, batch[2])
  <1>1. batch[1] \in Entry /\ batch[2] \in Entry
    BY DEF Batches
  <1>2. Agree(Stored.feedback, Stored.exclusion, Stored.pruning)
    BY DEF FeedbackInv, Stored
  <1>3. Agree(first.feedback, first.exclusion, first.pruning)
    BY <1>1, <1>2, SubmitAgrees
  <1> HIDE DEF first
  <1>4. Agree(db.feedback, db.exclusion, db.pruning)
    BY <1>1, <1>3, SubmitAgrees
  <1>5. feedback' = db.feedback /\ exclusion' = db.exclusion /\ pruning' = db.pruning
    BY DEF SubmitFeedback, first
  <1>6. UNCHANGED <<sourceTag, tagging, task, found, drift, clock>>
    BY DEF SubmitFeedback, tags
  <1>7. Agree(feedback, exclusion, pruning)'
    BY <1>4, <1>5
  <1>8. \A s \in Scene : pruning'[s].state = "remove" => pruning[s].state = "remove"
    <2>1. \A s \in Scene : db.pruning[s].state = "remove" => first.pruning[s].state = "remove"
      BY <1>1, <1>3, SubmitAgrees
    <2>2. \A s \in Scene : first.pruning[s].state = "remove" => pruning[s].state = "remove"
      BY <1>1, <1>2, SubmitAgrees DEF first, Stored
    <2> QED
      BY <1>5, <2>1, <2>2
  <1> QED
    BY <1>6, <1>7, <1>8 DEF FeedbackInv, RemovalsAreTagged, ReadIsTagged


LEMMA CorrectFeedbackKeeps ==
  ASSUME FeedbackInv, NEW f \in FeedbackId, NEW c \in FeedbackId,
         NEW type \in Type \union {"reversal"}, CorrectFeedback(f, c, type)
  PROVE  FeedbackInv'
  <1> DEFINE s == feedback[f].scene
             original == feedback[f].type
             entry == [id |-> c, scene |-> s, type |-> type, at |-> clock]
             log == [feedback EXCEPT ![c] = [scene |-> s, type |-> type, at |-> clock, by |-> c],
                                      ![f].by = c]
             barred == ApplyExclusion(exclusion, entry)
             candidates == ApplyPruning(pruning, entry)
  <1>1. /\ Live(feedback, f) /\ feedback[c] = NoFeedback
        /\ feedback' = log
        /\ exclusion' = Withdrawn(log, s, barred)
        /\ pruning' = Unqueued(log, s, original, candidates)
        /\ UNCHANGED <<sourceTag, tagging, task, found, drift, clock>>
    BY DEF CorrectFeedback, Correctable, Known, tags
  <1>2. Agree(feedback, exclusion, pruning) /\ clock \in Int
    BY DEF FeedbackInv
  <1>3. /\ f # c /\ feedback[f] \in FeedbackRow /\ feedback[f] # NoFeedback /\ feedback[f].by = f
        /\ s \in Scene /\ original \in Given
        /\ type \in Given /\ type # "impact_correction"
    BY <1>1, <1>2, FeedbackAssumption DEF Agree, Logs, FeedbackRow, Live, Given
  <1>4. /\ entry.scene = s /\ entry.type = type /\ entry.at = clock
    OBVIOUS
  <1>5. /\ log \in Logs
        /\ log[c] # NoFeedback /\ log[c].scene = s /\ log[c].type = type /\ log[c].by = c
        /\ log[f] # NoFeedback /\ log[f].scene = s /\ log[f].type = original /\ log[f].by = c
        /\ \A g \in FeedbackId : g # f /\ g # c => log[g] = feedback[g]
    <2>1. [scene |-> s, type |-> type, at |-> clock, by |-> c] \in FeedbackRow
      BY <1>2, <1>3 DEF FeedbackRow
    <2>2. [feedback[f] EXCEPT !.by = c] \in FeedbackRow
      BY <1>3 DEF FeedbackRow
    <2>3. log = [feedback EXCEPT ![c] = [scene |-> s, type |-> type, at |-> clock, by |-> c],
                                  ![f] = [feedback[f] EXCEPT !.by = c]]
      BY <1>2, <1>3 DEF Agree, Logs
    <2>4. log \in Logs /\ log[c] = [scene |-> s, type |-> type, at |-> clock, by |-> c]
          /\ log[f] = [feedback[f] EXCEPT !.by = c]
          /\ \A g \in FeedbackId : g # f /\ g # c => log[g] = feedback[g]
      BY <1>2, <1>3, <2>1, <2>2, <2>3 DEF Agree, Logs
    <2>5. [feedback[f] EXCEPT !.by = c].scene = s /\ [feedback[f] EXCEPT !.by = c].type = original
          /\ [feedback[f] EXCEPT !.by = c].by = c
      BY <1>3 DEF FeedbackRow
    <2>6. log[c] # NoFeedback /\ log[f] # NoFeedback
      BY <2>1, <2>2, <2>4, RowsDiffer
    <2>7. log[c].scene = s /\ log[c].type = type /\ log[c].by = c
      BY <2>4
    <2>8. log[f].scene = s /\ log[f].type = original /\ log[f].by = c
      BY <2>4, <2>5
    <2> HIDE DEF log
    <2> QED
      BY <2>4, <2>6, <2>7, <2>8
  <1>6. /\ barred \in [Scene -> {"none", "active", "reversed"}]
        /\ \A t \in Scene : (barred[t] = "active") <=>
             exclusion[t] = "active" \/ (type = "never_show" /\ t = s)
    BY <1>2, <1>3, <1>4, AppliedExclusion DEF Agree
  <1>7. /\ candidates \in PruningRows
        /\ \A t \in Scene : candidates[t].state = "review" =>
             pruning[t].state = "review" \/ (type \in Negative /\ t = s)
        /\ \A t \in Scene : candidates[t].state = "remove" => pruning[t].state = "remove"
    BY <1>2, <1>3, <1>4, AppliedPruning DEF Agree
  <1> HIDE DEF s, original, entry, log, barred, candidates
  <1>8. /\ Live(log, c) /\ ~Live(log, f)
        /\ \A g \in FeedbackId : g # f /\ g # c => (Live(log, g) <=> Live(feedback, g))
        /\ ~Live(feedback, c)
    BY <1>1, <1>3, <1>5 DEF Live
  <1>9. Followed(log)
    BY <1>1, <1>2, <1>3, <1>5 DEF Agree, Followed, Logs, FeedbackRow, s
  <1>10. SceneHasLive(log)
    BY <1>1, <1>2, <1>3, <1>5, <1>8 DEF Agree, SceneHasLive, s
  <1>11. OneImpact(log)
    BY <1>2, <1>3, <1>5, <1>8 DEF Agree, OneImpact
  <1>12. \A t \in Scene : t # s => (Hides(log, t) <=> Hides(feedback, t))
    BY <1>1, <1>3, <1>5, <1>8 DEF Hides, s
  <1>13. \A t \in Scene : t # s => (SpeaksAgainst(log, t) <=> SpeaksAgainst(feedback, t))
    BY <1>1, <1>3, <1>5, <1>8 DEF SpeaksAgainst, s
  <1>14. /\ exclusion' \in [Scene -> {"none", "active", "reversed"}]
         /\ \A t \in Scene : (exclusion'[t] = "active") <=> Hides(log, t)
    <2>1. (LiveOf(log, s, {"never_show"}) # {}) <=> Hides(log, s)
      BY LiveOfIs DEF Hides
    <2>2. \A t \in Scene : (exclusion[t] = "active") <=> Hides(feedback, t)
      BY <1>2 DEF Agree
    <2>3. type = "never_show" => Hides(log, s)
      BY <1>5, <1>8 DEF Hides
    <2>4. Hides(log, s) => Hides(feedback, s) \/ type = "never_show"
      BY <1>3, <1>5, <1>8 DEF Hides
    <2>5. CASE LiveOf(log, s, {"never_show"}) = {} /\ barred[s] = "active"
      <3>1. exclusion' = [barred EXCEPT ![s] = "reversed"]
        BY <1>1, <2>5 DEF Withdrawn
      <3> QED
        BY <1>3, <1>6, <1>12, <2>1, <2>2, <2>3, <2>5, <3>1
    <2>6. CASE ~(LiveOf(log, s, {"never_show"}) = {} /\ barred[s] = "active")
      <3>1. exclusion' = barred
        BY <1>1, <2>6 DEF Withdrawn
      <3> QED
        BY <1>3, <1>6, <1>12, <2>1, <2>2, <2>3, <2>4, <2>6, <3>1
    <2> QED
      BY <2>5, <2>6
  <1>15. /\ pruning' \in PruningRows
         /\ \A t \in Scene : pruning'[t].state = "review" => SpeaksAgainst(log, t)
         /\ \A t \in Scene : pruning'[t].state = "remove" => pruning[t].state = "remove"
    <2>1. (LiveOf(log, s, Negative) # {}) <=> SpeaksAgainst(log, s)
      BY LiveOfIs DEF SpeaksAgainst
    <2>2. \A t \in Scene : pruning[t].state = "review" => SpeaksAgainst(feedback, t)
      BY <1>2 DEF Agree
    <2>3. type \in Negative => SpeaksAgainst(log, s)
      BY <1>5, <1>8 DEF SpeaksAgainst
    <2>4. original \notin Negative /\ SpeaksAgainst(feedback, s) => SpeaksAgainst(log, s)
      BY <1>3, <1>5, <1>8 DEF SpeaksAgainst, original
    <2>5. CASE /\ original \in Negative /\ LiveOf(log, s, Negative) = {}
               /\ candidates[s].state = "review"
      <3>1. pruning' = [candidates EXCEPT ![s] = NoRow]
        BY <1>1, <2>5 DEF Unqueued
      <3>2. pruning' \in PruningRows /\ pruning'[s].state = "none"
            /\ \A t \in Scene : t # s => pruning'[t] = candidates[t]
        BY <1>3, <1>7, <3>1, RowsDiffer DEF PruningRows
      <3> QED
        BY <1>3, <1>7, <1>13, <2>2, <3>2
    <2>6. CASE ~(/\ original \in Negative /\ LiveOf(log, s, Negative) = {}
                 /\ candidates[s].state = "review")
      <3>1. pruning' = candidates
        BY <1>1, <2>6 DEF Unqueued
      <3> QED
        BY <1>3, <1>7, <1>13, <2>1, <2>2, <2>3, <2>4, <2>6, <3>1
    <2> QED
      BY <2>5, <2>6
  <1>16. Agree(feedback, exclusion, pruning)'
    BY <1>1, <1>5, <1>9, <1>10, <1>11, <1>14, <1>15 DEF Agree
  <1> QED
    BY <1>1, <1>15, <1>16 DEF FeedbackInv, RemovalsAreTagged, ReadIsTagged

LEMMA ImpactCorrectionKeeps ==
  ASSUME FeedbackInv, NEW c \in FeedbackId, NEW s \in Scene, SubmitImpactCorrection(c, s)
  PROVE  FeedbackInv'
  <1> DEFINE replaced == LiveOf(feedback, s, {"impact_correction"})
  <1>1. /\ feedback[c] = NoFeedback
        /\ feedback' = [f \in FeedbackId |->
             IF f = c THEN [scene |-> s, type |-> "impact_correction", at |-> clock, by |-> c]
             ELSE IF f \in replaced THEN [feedback[f] EXCEPT !.by = c]
             ELSE feedback[f]]
        /\ UNCHANGED <<exclusion, pruning, sourceTag, tagging, task, found, drift, clock>>
    BY DEF SubmitImpactCorrection, Known, tags
  <1>2. Agree(feedback, exclusion, pruning) /\ clock \in Int
    BY DEF FeedbackInv
  <1>3. \A f \in FeedbackId : f \in replaced <=>
          Live(feedback, f) /\ feedback[f].scene = s /\ feedback[f].type = "impact_correction"
    BY DEF LiveOf
  <1> HIDE DEF replaced
  <1>4. c \notin replaced
    BY <1>1, <1>3 DEF Live
  <1>5. feedback' \in Logs /\ \A f \in FeedbackId :
          /\ f = c => /\ feedback'[f].scene = s /\ feedback'[f].type = "impact_correction"
                      /\ feedback'[f].by = c
          /\ f \in replaced => feedback'[f].by = c
          /\ f \notin replaced /\ f # c => feedback'[f] = feedback[f]
          /\ f # c => /\ feedback'[f].scene = feedback[f].scene
                      /\ feedback'[f].type = feedback[f].type
          /\ feedback'[f] # NoFeedback <=> feedback[f] # NoFeedback \/ f = c
    <2>1. [scene |-> s, type |-> "impact_correction", at |-> clock, by |-> c] \in FeedbackRow
      BY <1>2 DEF FeedbackRow, Given
    <2>2. \A f \in replaced : feedback[f] \in FeedbackRow
      BY <1>2, <1>3 DEF Agree, Logs, Live, replaced, LiveOf
    <2>3. \A f \in replaced : /\ [feedback[f] EXCEPT !.by = c] \in FeedbackRow
                              /\ [feedback[f] EXCEPT !.by = c].scene = feedback[f].scene
                              /\ [feedback[f] EXCEPT !.by = c].type = feedback[f].type
                              /\ [feedback[f] EXCEPT !.by = c].by = c
      BY <2>2 DEF FeedbackRow
    <2>4. \A f \in FeedbackId :
            /\ f = c => feedback'[f] = [scene |-> s, type |-> "impact_correction", at |-> clock, by |-> c]
            /\ f \in replaced => feedback'[f] = [feedback[f] EXCEPT !.by = c]
            /\ f \notin replaced /\ f # c => feedback'[f] = feedback[f]
      BY <1>1, <1>4
    <2>5. DOMAIN feedback' = FeedbackId /\ feedback' = [f \in FeedbackId |-> feedback'[f]]
      BY <1>1
    <2>6. \A f \in FeedbackId : feedback'[f] \in FeedbackRow \union {NoFeedback}
      BY <1>2, <2>1, <2>3, <2>4, ZenonT(40) DEF Agree, Logs
    <2>7. feedback' \in Logs
      BY <2>5, <2>6 DEF Logs
    <2>8. ASSUME NEW f \in FeedbackId
          PROVE  feedback'[f] # NoFeedback <=> feedback[f] # NoFeedback \/ f = c
      <3>1. CASE f = c
        BY <2>1, <2>4, <3>1, RowsDiffer
      <3>2. CASE f \in replaced
        BY <2>2, <2>3, <2>4, <3>2, RowsDiffer
      <3>3. CASE f # c /\ f \notin replaced
        BY <2>4, <3>3
      <3> QED
        BY <3>1, <3>2, <3>3
    <2>9. ASSUME NEW f \in FeedbackId
          PROVE  /\ f = c => /\ feedback'[f].scene = s /\ feedback'[f].type = "impact_correction"
                             /\ feedback'[f].by = c
                 /\ f \in replaced => feedback'[f].by = c
                 /\ f # c => /\ feedback'[f].scene = feedback[f].scene
                             /\ feedback'[f].type = feedback[f].type
      <3>1. CASE f = c
        <4>1. /\ f \notin replaced
              /\ feedback'[f] = [scene |-> s, type |-> "impact_correction", at |-> clock, by |-> c]
          BY <1>4, <2>4, <3>1
        <4>2. /\ feedback'[f].scene = s /\ feedback'[f].type = "impact_correction"
              /\ feedback'[f].by = c
          BY <4>1
        <4> QED
          BY <3>1, <4>1, <4>2
      <3>2. CASE f \in replaced
        BY <1>4, <2>3, <2>4, <3>2
      <3>3. CASE f # c /\ f \notin replaced
        BY <2>4, <3>3
      <3> QED
        BY <3>1, <3>2, <3>3
    <2> QED
      BY <2>4, <2>7, <2>8, <2>9
  <1>6. \A f \in FeedbackId : Live(feedback', f) <=> f = c \/ (Live(feedback, f) /\ f \notin replaced)
    BY <1>4, <1>5 DEF Live
  <1>7. Followed(feedback')
    <2>1. ASSUME NEW f \in FeedbackId, feedback'[f] # NoFeedback
          PROVE  /\ feedback'[feedback'[f].by] # NoFeedback
                 /\ feedback'[feedback'[f].by].scene = feedback'[f].scene
      <3>1. CASE f = c
        BY <1>5, <3>1
      <3>2. CASE f \in replaced
        BY <1>3, <1>4, <1>5, <3>2
      <3>3. CASE f # c /\ f \notin replaced
        <4>1. feedback'[f] = feedback[f] /\ feedback[f] # NoFeedback
          BY <1>5, <2>1, <3>3
        <4>2. feedback[f].by \in FeedbackId
          BY <1>2, <4>1 DEF Agree, Logs, FeedbackRow
        <4>3. feedback[feedback[f].by] # NoFeedback /\ feedback[feedback[f].by].scene = feedback[f].scene
          BY <1>2, <4>1 DEF Agree, Followed
        <4> QED
          BY <1>1, <1>5, <4>1, <4>2, <4>3, ZenonT(60)
      <3> QED
        BY <3>1, <3>2, <3>3
    <2> QED
      BY <2>1 DEF Followed
  <1>8. SceneHasLive(feedback')
    <2>1. ASSUME NEW f \in FeedbackId, feedback'[f] # NoFeedback
          PROVE  \E g \in FeedbackId : Live(feedback', g) /\ feedback'[g].scene = feedback'[f].scene
      <3>1. CASE f = c
        BY <1>6, <3>1
      <3>2. CASE f # c
        <4>1. feedback[f] # NoFeedback /\ feedback'[f].scene = feedback[f].scene
          BY <1>5, <2>1, <3>2
        <4>2. PICK g \in FeedbackId : Live(feedback, g) /\ feedback[g].scene = feedback[f].scene
          BY <1>2, <4>1 DEF Agree, SceneHasLive
        <4>3. g # c
          BY <1>1, <4>2 DEF Live
        <4>4. CASE g \in replaced
          <5>1. Live(feedback', c) /\ feedback'[c].scene = s /\ feedback[g].scene = s
            BY <1>3, <1>5, <1>6, <4>4
          <5> QED
            BY <4>1, <4>2, <5>1
        <4>5. CASE g \notin replaced
          <5>1. Live(feedback', g) /\ feedback'[g].scene = feedback[g].scene
            BY <1>5, <1>6, <4>2, <4>3, <4>5
          <5> QED
            BY <4>1, <4>2, <5>1
        <4> QED
          BY <4>4, <4>5
      <3> QED
        BY <3>1, <3>2
    <2> QED
      BY <2>1 DEF SceneHasLive
  <1>9. OneImpact(feedback')
    BY <1>2, <1>3, <1>5, <1>6 DEF Agree, OneImpact
  <1>10. \A t \in Scene : Hides(feedback', t) <=> Hides(feedback, t)
    BY <1>1, <1>3, <1>5, <1>6 DEF Hides, Live
  <1>11. \A t \in Scene : SpeaksAgainst(feedback', t) <=> SpeaksAgainst(feedback, t)
    BY <1>1, <1>3, <1>5, <1>6 DEF SpeaksAgainst, Live, Negative
  <1>12. Agree(feedback, exclusion, pruning)'
    BY <1>1, <1>2, <1>5, <1>7, <1>8, <1>9, <1>10, <1>11 DEF Agree
  <1> QED
    BY <1>1, <1>12 DEF FeedbackInv, RemovalsAreTagged, ReadIsTagged


LEMMA DismissKeeps ==
  ASSUME FeedbackInv, NEW s \in Scene, Dismiss(s)
  PROVE  FeedbackInv'
  <1>1. /\ pruning' = Upsert(pruning, s, "keep", clock)
        /\ UNCHANGED <<feedback, exclusion, sourceTag, tagging, task, found, drift, clock>>
    BY DEF Dismiss, tags
  <1>2. pruning \in PruningRows /\ clock \in Int
    BY DEF FeedbackInv, Agree
  <1> DEFINE upserted == Upsert(pruning, s, "keep", clock)
  <1>3. /\ upserted \in PruningRows /\ upserted[s].state = "keep"
        /\ \A t \in Scene : t # s => upserted[t] = pruning[t]
    <2>1. "keep" \in {"review", "keep", "remove"}
      OBVIOUS
    <2> QED
      BY <1>2, <2>1, UpsertIs, SMTT(30)
  <1> HIDE DEF upserted
  <1>4. /\ pruning' \in PruningRows /\ pruning'[s].state = "keep"
        /\ \A t \in Scene : t # s => pruning'[t] = pruning[t]
    BY <1>1, <1>3 DEF upserted
  <1>5. Agree(feedback, exclusion, pruning)'
    BY <1>1, <1>4 DEF FeedbackInv, Agree
  <1> QED
    BY <1>1, <1>4, <1>5 DEF FeedbackInv, RemovalsAreTagged, ReadIsTagged

\* What the prune tag does to the rows is no review and speaks for nothing.
LEMMA TagKeepsAgreement ==
  ASSUME FeedbackInv, UNCHANGED <<feedback, exclusion>>, pruning' \in PruningRows,
         \A s \in Scene : pruning'[s] = pruning[s] \/ pruning'[s].state # "review"
  PROVE  Agree(feedback, exclusion, pruning)'
  BY DEF FeedbackInv, Agree

LEMMA RecordIs ==
  ASSUME NEW log \in PruningRows, NEW scenes \in SUBSET Scene, NEW mode \in {"ADD", "REMOVE"},
         clock \in Int
  PROVE  /\ Record(log, scenes, mode) \in PruningRows
         /\ \A s \in Scene :
              /\ s \notin scenes => Record(log, scenes, mode)[s] = log[s]
              /\ s \in scenes /\ mode = "ADD" => Record(log, scenes, mode)[s].state = "remove"
              /\ s \in scenes /\ mode # "ADD" =>
                   \/ log[s].state = "remove" /\ Record(log, scenes, mode)[s] = NoRow
                   \/ log[s].state # "remove" /\ Record(log, scenes, mode)[s] = log[s]
  <1> DEFINE new(s) == IF s \notin scenes THEN log[s]
                       ELSE IF mode = "ADD" THEN Upsert(log, s, "remove", clock)[s]
                       ELSE IF log[s].state = "remove" THEN NoRow ELSE log[s]
  <1>1. Record(log, scenes, mode) = [s \in Scene |-> new(s)]
    BY DEF Record
  <1>2. \A s \in Scene : /\ Upsert(log, s, "remove", clock)[s] \in PruningRow
                         /\ Upsert(log, s, "remove", clock)[s].state = "remove"
    BY UpsertIs
  <1>3. \A s \in Scene : new(s) \in PruningRow \union {NoRow}
    BY <1>2 DEF PruningRows
  <1> QED
    BY <1>1, <1>2, <1>3 DEF PruningRows

LEMMA RecordPruneTagsKeeps ==
  ASSUME FeedbackInv, RecordPruneTags
  PROVE  FeedbackInv'
  <1> DEFINE scenes == tagging.scenes
             mode == tagging.mode
  <1>1. /\ pruning' = Record(pruning, scenes, mode)
        /\ sourceTag' = IF mode = "ADD" THEN sourceTag \cup scenes ELSE sourceTag \ scenes
        /\ tagging' = NoTagging
        /\ drift' = IF task = "read" THEN "raced" ELSE drift
        /\ UNCHANGED <<feedback, exclusion, task, found, clock>>
    BY DEF RecordPruneTags
  <1>2. scenes \in SUBSET Scene /\ mode \in {"ADD", "REMOVE"}
    BY DEF FeedbackInv, RecordPruneTags, Tagging
  <1>3. pruning \in PruningRows /\ clock \in Int
    BY DEF FeedbackInv, Agree
  <1> HIDE DEF scenes, mode
  <1>4. /\ pruning' \in PruningRows
        /\ \A s \in Scene :
             /\ s \notin scenes => pruning'[s] = pruning[s]
             /\ s \in scenes /\ mode = "ADD" => pruning'[s].state = "remove"
             /\ s \in scenes /\ mode # "ADD" =>
                  \/ pruning[s].state = "remove" /\ pruning'[s] = NoRow
                  \/ pruning[s].state # "remove" /\ pruning'[s] = pruning[s]
    BY <1>1, <1>2, <1>3, RecordIs
  <1>5. \A s \in Scene : pruning'[s] = pruning[s] \/ pruning'[s].state # "review"
    BY <1>4, RowsDiffer
  <1>6. Agree(feedback, exclusion, pruning)'
    BY <1>1, <1>4, <1>5, TagKeepsAgreement
  <1>7. RemovalsAreTagged'
    <2> SUFFICES ASSUME drift' = "none", NEW s \in Scene, pruning'[s].state = "remove"
                 PROVE  s \in sourceTag'
      BY DEF RemovalsAreTagged
    <2>1. drift = "none"
      BY <1>1
    <2>2. CASE s \in scenes /\ mode = "ADD"
      BY <1>1, <2>2
    <2>3. CASE s \in scenes /\ mode # "ADD"
      BY <1>4, <2>3, RowsDiffer
    <2>4. CASE s \notin scenes
      <3>1. s \in sourceTag
        BY <1>4, <2>1, <2>4 DEF FeedbackInv, RemovalsAreTagged
      <3> QED
        BY <1>1, <2>4, <3>1
    <2> QED
      BY <2>2, <2>3, <2>4
  <1>8. ReadIsTagged'
    BY <1>1 DEF ReadIsTagged
  <1> QED
    BY <1>1, <1>3, <1>6, <1>7, <1>8 DEF FeedbackInv

LEMMA ReconcileKeeps ==
  ASSUME FeedbackInv, ReconcilePruneTag
  PROVE  FeedbackInv'
  <1>1. /\ task = "read" /\ pruning' = Reconciled(pruning, found)
        /\ task' = "idle" /\ found' = {}
        /\ drift' = IF drift = "raced" THEN "raced" ELSE "none"
        /\ UNCHANGED <<feedback, exclusion, sourceTag, tagging, clock>>
    BY DEF ReconcilePruneTag
  <1>2. pruning \in PruningRows /\ clock \in Int
    BY DEF FeedbackInv, Agree
  <1> DEFINE new(s) == IF s \in found
                       THEN IF pruning[s].state = "remove" THEN pruning[s]
                            ELSE Upsert(pruning, s, "remove", clock)[s]
                       ELSE IF pruning[s].state = "remove" /\ s \notin sourceTag THEN NoRow
                       ELSE pruning[s]
  <1>3. pruning' = [s \in Scene |-> new(s)]
    BY <1>1 DEF Reconciled
  <1>4. \A s \in Scene : /\ Upsert(pruning, s, "remove", clock)[s] \in PruningRow
                         /\ Upsert(pruning, s, "remove", clock)[s].state = "remove"
    BY <1>2, UpsertIs
  <1>5. \A s \in Scene : new(s) \in PruningRow \union {NoRow}
    BY <1>2, <1>4 DEF PruningRows
  <1>6. pruning' \in PruningRows
    BY <1>3, <1>5 DEF PruningRows
  <1>7. \A s \in Scene : pruning'[s] = pruning[s] \/ pruning'[s].state # "review"
    BY <1>3, <1>4, RowsDiffer
  <1>8. Agree(feedback, exclusion, pruning)'
    BY <1>1, <1>6, <1>7, TagKeepsAgreement
  <1>9. \A s \in Scene : pruning'[s].state = "remove" => s \in found \/ s \in sourceTag
    BY <1>3, RowsDiffer
  <1>10. drift # "raced" => found \subseteq sourceTag
    BY <1>1 DEF FeedbackInv, ReadIsTagged
  <1>11. RemovalsAreTagged'
    BY <1>1, <1>9, <1>10 DEF RemovalsAreTagged
  <1>12. ReadIsTagged'
    BY <1>1 DEF ReadIsTagged
  <1> QED
    BY <1>1, <1>2, <1>8, <1>11, <1>12 DEF FeedbackInv

LEMMA OthersKeep ==
  ASSUME FeedbackInv,
         \/ \E scenes \in SUBSET Scene \ {{}}, mode \in {"ADD", "REMOVE"} : MutateStash(scenes, mode)
         \/ SetPruneTagDies \/ ImportTags \/ ReadTagged \/ SyncDies \/ Tick
         \/ UNCHANGED feedbackVars
  PROVE  FeedbackInv'
  <1>1. UNCHANGED <<feedback, exclusion, pruning>>
    BY DEF MutateStash, SetPruneTagDies, ImportTags, ReadTagged, SyncDies, Tick, feedbackVars, evidence
  <1>2. Agree(feedback, exclusion, pruning)'
    BY <1>1 DEF FeedbackInv
  <1>3. tagging' \in Tagging \union {NoTagging}
    BY DEF FeedbackInv, Tagging, MutateStash, SetPruneTagDies, ImportTags, ReadTagged, SyncDies, Tick,
           feedbackVars, tags
  <1>4. clock' \in Int
    BY DEF FeedbackInv, MutateStash, SetPruneTagDies, ImportTags, ReadTagged, SyncDies, Tick, feedbackVars
  <1>5. RemovalsAreTagged' /\ ReadIsTagged'
    BY <1>1 DEF FeedbackInv, RemovalsAreTagged, ReadIsTagged, MutateStash, SetPruneTagDies, ImportTags,
                ReadTagged, SyncDies, Tick, feedbackVars, tags
  <1> QED
    BY <1>2, <1>3, <1>4, <1>5 DEF FeedbackInv

-----------------------------------------------------------------------------
LEMMA InitFeedbackInv ==
  ASSUME InitFeedback
  PROVE  FeedbackInv
  <1>1. feedback \in Logs /\ pruning \in PruningRows /\ exclusion \in [Scene -> {"none", "active", "reversed"}]
    BY DEF InitFeedback, Logs, PruningRows
  <1>2. \A f \in FeedbackId : feedback[f] = NoFeedback /\ ~Live(feedback, f)
    BY DEF InitFeedback, Live
  <1>3. Followed(feedback) /\ SceneHasLive(feedback) /\ OneImpact(feedback)
    BY <1>2 DEF Followed, SceneHasLive, OneImpact
  <1>4. \A s \in Scene : exclusion[s] = "none" /\ ~Hides(feedback, s) /\ pruning[s].state = "none"
    BY <1>2, RowsDiffer DEF InitFeedback, Hides
  <1>5. Agree(feedback, exclusion, pruning)
    BY <1>1, <1>3, <1>4 DEF Agree
  <1> QED
    BY <1>4, <1>5 DEF FeedbackInv, InitFeedback, RemovalsAreTagged, ReadIsTagged

LEMMA NextFeedbackInv ==
  ASSUME FeedbackInv, [NextFeedback]_feedbackVars
  PROVE  FeedbackInv'
  BY SubmitFeedbackKeeps, CorrectFeedbackKeeps, ImpactCorrectionKeeps, DismissKeeps,
     RecordPruneTagsKeeps, ReconcileKeeps, OthersKeep DEF NextFeedback

LEMMA InvStands ==
  ASSUME FeedbackInv
  PROVE  FeedbackStands /\ RemovalsAreTagged
  <1> USE DEF FeedbackInv
  <1>1. ExcludedWhileAsked
    <2>1. \A s \in Scene : (LiveOf(feedback, s, {"never_show"}) # {}) <=> Hides(feedback, s)
      BY LiveOfIs DEF Hides
    <2>2. \A s \in Scene : (exclusion[s] = "active") <=> Hides(feedback, s)
      BY DEF Agree
    <2> QED
      BY <2>1, <2>2 DEF ExcludedWhileAsked
  <1>2. ReviewHasCause
    BY LiveOfIs DEF ReviewHasCause, Agree, SpeaksAgainst
  <1>3. CorrectionsEnd
    <2>1. \A f \in FeedbackId : Known(f) =>
            Known(feedback[f].by) /\ feedback[feedback[f].by].scene = feedback[f].scene
      BY DEF Agree, Followed, Known
    <2>2. \A s \in Scene : (\E f \in FeedbackId : Known(f) /\ feedback[f].scene = s) =>
            \E f \in FeedbackId : Live(feedback, f) /\ feedback[f].scene = s
      BY DEF Agree, SceneHasLive, Known
    <2>3. ASSUME NEW s \in Scene
          PROVE  Cardinality(LiveOf(feedback, s, {"impact_correction"})) <= 1
      <3> DEFINE corrections == LiveOf(feedback, s, {"impact_correction"})
      <3>1. \A f, g \in corrections : f = g
        BY LiveOfIs DEF Agree, OneImpact
      <3>2. corrections = {} \/ \E f : corrections = {f}
        <4> HIDE DEF corrections
        <4>1. CASE corrections # {}
          <5>1. PICK f \in corrections : TRUE
            BY <4>1
          <5>2. corrections = {f}
            BY <3>1, <5>1
          <5> QED
            BY <5>2
        <4> QED
          BY <4>1
      <3> HIDE DEF corrections
      <3>3. Cardinality(corrections) \in {0, 1}
        BY <3>2, FS_EmptySet, FS_Singleton
      <3> QED
        BY <3>3 DEF corrections
    <2> QED
      BY <2>1, <2>2, <2>3 DEF CorrectionsEnd
  <1> QED
    BY <1>1, <1>2, <1>3 DEF FeedbackStands

(* The inductive invariant holds in every reachable state.                  *)
THEOREM FeedbackInvariant == SpecFeedback => []FeedbackInv
  BY InitFeedbackInv, NextFeedbackInv, PTL DEF SpecFeedback

(* However batches arrive, are repeated or come late, and whatever is       *)
(* corrected in between: a scene is hidden exactly while a live "never      *)
(* show" hides it, waits for review only while live feedback speaks against *)
(* it, and following corrections ends in a live row (submitFeedback,        *)
(* correctFeedback, submitImpactCorrection, dismissPruneCandidate).         *)
THEOREM FeedbackAlwaysStands == SpecFeedback => []FeedbackStands
  BY FeedbackInvariant, InvStands, PTL

(* What the reconciliation of the prune tag leaves marked for removal is    *)
(* tagged, however prune-tag requests and the sync task interleave or die.  *)
THEOREM RemovalsStayTagged == SpecFeedback => []RemovalsAreTagged
  BY FeedbackInvariant, InvStands, PTL

-----------------------------------------------------------------------------
(* Preferences: of all that was stated about a tag one row counts.          *)

PreferenceRow == [tag : Tag, at : 0..MaxAt, value : Sentiment, by : PreferenceId \union {NoPreference}]

TypeOKPreferences ==
  /\ history \in [PreferenceId -> {None} \union PreferenceRow]
  /\ current \in [Tag -> PreferenceId \union {NoPreference}]
  /\ pending.kind = "preference" =>
       /\ pending.id \in PreferenceId /\ pending.tag \in Tag
       /\ pending.at \in 0..MaxAt /\ pending.value \in Sentiment

\* The preference that counts is the one that is neither replaced nor cleared;
\* unless the tag was cleared, there is one, the newest.
CountsFor(t) ==
  /\ current[t] # NoPreference => current[t] \in Rows(t) /\ ~Replaced(current[t]) /\ history[current[t]].value # "cleared"
  /\ \A p \in Rows(t) : ~Replaced(p) /\ history[p].value # "cleared" => p = current[t]
  /\ \A p \in Rows(t) : Replaced(p) => history[p].by \in Rows(t) /\ Newer(history, history[p].by, p)
  /\ (\A p \in Rows(t) : history[p].value # "cleared") =>
       \A p \in Rows(t) : current[t] # NoPreference /\ Newer(history, current[t], p)

PreferencesInv == TypeOKPreferences /\ \A t \in Tag : CountsFor(t)

LEMMA RowsAre ==
  ASSUME TypeOKPreferences, NEW t \in Tag, NEW p
  PROVE  p \in Rows(t) <=> p \in PreferenceId /\ history[p] \in PreferenceRow /\ history[p].tag = t
<1>1. None.tag # t /\ None \notin PreferenceRow
  BY PreferencesAssumption DEF None, PreferenceRow
<1> QED BY <1>1 DEF TypeOKPreferences, Rows

LEMMA PreferencesInit == InitPreferences => PreferencesInv
<1> SUFFICES ASSUME InitPreferences PROVE PreferencesInv
  OBVIOUS
<1>1. TypeOKPreferences
  BY DEF InitPreferences, TypeOKPreferences, Nothing
<1>2. \A t \in Tag : Rows(t) = {} /\ current[t] = NoPreference
  BY <1>1, RowsAre, PreferencesAssumption DEF InitPreferences, None, PreferenceRow, Rows
<1> QED BY <1>1, <1>2 DEF PreferencesInv, CountsFor

\* The order of a tag's history.
LEMMA NewerIsAnOrder ==
  ASSUME NEW h, NEW p \in Int, NEW q \in Int, NEW r \in Int, h[p].at \in Int, h[q].at \in Int, h[r].at \in Int
  PROVE  /\ Newer(h, p, p)
         /\ Newer(h, p, q) \/ Newer(h, q, p)
         /\ Newer(h, p, q) /\ Newer(h, q, r) => Newer(h, p, r)
  BY DEF Newer

\* What a new row leaves as it was.
LEMMA OtherRowsStay ==
  ASSUME PreferencesInv, TypeOKPreferences', NEW t \in Tag,
         \A p \in PreferenceId : history[p].tag = t \/ history'[p].tag = t => history'[p] = history[p],
         current'[t] = current[t]
  PROVE  CountsFor(t)'
<1>1. \A p : p \in Rows(t)' <=> p \in Rows(t)
  BY DEF Rows
<1>2. \A p \in Rows(t) : history'[p] = history[p]
  BY DEF Rows
<1> QED BY <1>1, <1>2 DEF PreferencesInv, CountsFor, Replaced, Newer

LEMMA SubmitTagPreferenceKeeps ==
  ASSUME PreferencesInv, SubmitTagPreference
  PROVE  PreferencesInv'
<1>0. PICK p \in PreferenceId, t \in Tag, at \in 0..MaxAt, value \in Sentiment, old \in PreferenceId \union {NoPreference} :
        p = pending.id /\ t = pending.tag /\ at = pending.at /\ value = pending.value /\ old = current[t]
  BY DEF SubmitTagPreference, PreferencesInv, TypeOKPreferences
<1> DEFINE row == [tag |-> t, at |-> at, value |-> value, by |-> NoPreference]
           log == [history EXCEPT ![p] = row]
<1>1. pending'.kind # "preference"
  BY DEF SubmitTagPreference, Nothing
<1>2. row \in PreferenceRow
  BY <1>0, <1>1 DEF PreferenceRow
<1>3. CASE UNCHANGED <<history, current>>
  BY <1>0, <1>1, <1>3 DEF PreferencesInv, TypeOKPreferences, CountsFor, Rows, Replaced, Newer
<1>4. CASE /\ history[p] = None
           /\ IF Outranked(log, old, p)
              THEN history' = [log EXCEPT ![p].by = old] /\ UNCHANGED current
              ELSE /\ history' = IF old = NoPreference THEN log
                                 ELSE [log EXCEPT ![old].by = p]
                   /\ current' = [current EXCEPT ![t] =
                                    IF value = "cleared" THEN NoPreference ELSE p]
  <2>1. /\ log \in [PreferenceId -> {None} \union PreferenceRow] /\ log[p] = row
        /\ \A q \in PreferenceId : q # p => log[q] = history[q]
    BY <1>0, <1>1, <1>2 DEF PreferencesInv, TypeOKPreferences
  <2>2. p \notin Rows(t) /\ \A q \in Rows(t) : q \in PreferenceId /\ q # p /\ history[q] \in PreferenceRow
    BY <1>0, <1>1, <1>4, RowsAre DEF PreferencesInv, None, PreferenceRow
  <2>3. old # NoPreference => old \in Rows(t) /\ ~Replaced(old) /\ history[old].value # "cleared"
    BY <1>0, <1>1 DEF PreferencesInv, CountsFor
  <2>4. \A q \in Rows(t) \union {p} : q \in Int /\ log[q].at \in Int /\ (q # p => log[q].at = history[q].at)
    BY <1>0, <1>1, <2>1, <2>2, PreferencesAssumption DEF PreferenceRow
  <2>5. \A q \in PreferenceId : q # NoPreference
    BY PreferencesAssumption DEF NoPreference
  <2>a. \A q, r \in Rows(t) : Newer(log, q, r) <=> Newer(history, q, r)
    BY <2>1, <2>2 DEF Newer
  <2>6. CASE Outranked(log, old, p)
    <3>1. /\ history' = [log EXCEPT ![p].by = old] /\ UNCHANGED current
          /\ old # NoPreference /\ Newer(log, old, p)
      BY <1>4, <2>6 DEF Outranked
    <3> DEFINE with == [tag |-> t, at |-> at, value |-> value, by |-> old]
    <3>2. with = [row EXCEPT !.by = old]
      OBVIOUS
    <3>3. with \in PreferenceRow
      BY <1>0, <1>1, <2>2, <2>3, <3>1 DEF PreferenceRow
    <3> HIDE DEF row, log
    <3>4. history' = [log EXCEPT ![p] = with]
      BY <2>1, <3>1, <3>2
    <3> HIDE DEF with
    <3>5. /\ history' \in [PreferenceId -> {None} \union PreferenceRow] /\ history'[p] = with
          /\ \A q \in PreferenceId : q # p => history'[q] = history[q]
      BY <1>0, <1>1, <2>1, <3>3, <3>4
    <3>6. with.tag = t /\ with.by = old /\ with.at = row.at
      BY DEF with, row
    <3>7. TypeOKPreferences'
      BY <1>0, <1>1, <3>1, <3>5 DEF PreferencesInv, TypeOKPreferences
    <3>8. \A q : q \in Rows(t)' <=> q \in Rows(t) \/ q = p
      BY <1>0, <1>1, <2>2, <3>5, <3>6 DEF Rows
    <3>9. Newer(history', old, p)
      BY <1>0, <1>1, <2>1, <2>2, <2>3, <3>1, <3>5, <3>6 DEF Newer
    <3>10. \A q, r \in Rows(t) : Newer(history', q, r) <=> Newer(history, q, r)
      BY <2>2, <3>5 DEF Newer
    <3>11. CountsFor(t)'
      <4>1. /\ old = current[t] /\ old = current'[t] /\ old \in Rows(t) /\ old # p
            /\ CountsFor(t)
        BY <1>0, <1>1, <2>2, <2>3, <3>1 DEF PreferencesInv
      <4>2. \A q \in Rows(t) : history'[q] = history[q]
        BY <2>2, <3>5
      <4>3. history'[p].by = old /\ old # NoPreference
        BY <3>1, <3>5, <3>6
      <4> QED BY <3>8, <3>9, <3>10, <4>1, <4>2, <4>3 DEF CountsFor, Replaced
    <3>12. ASSUME NEW u \in Tag, u # t
           PROVE  CountsFor(u)'
      <4>1. \A q \in PreferenceId : history[q].tag = u \/ history'[q].tag = u => history'[q] = history[q]
        BY <1>4, <3>5, <3>6, <3>12, PreferencesAssumption DEF None
      <4> QED BY <3>1, <3>7, <4>1, OtherRowsStay
    <3> QED BY <3>7, <3>11, <3>12 DEF PreferencesInv
  <2>7. CASE ~Outranked(log, old, p) /\ old = NoPreference
    <3>1. /\ history' = log
          /\ current' = [current EXCEPT ![t] = IF value = "cleared" THEN NoPreference ELSE p]
      BY <1>4, <2>7
    <3> HIDE DEF log
    <3>2. /\ current' \in [Tag -> PreferenceId \union {NoPreference}]
          /\ current'[t] = IF value = "cleared" THEN NoPreference ELSE p
          /\ \A u \in Tag : u # t => current'[u] = current[u]
      BY <1>0, <1>1, <3>1 DEF PreferencesInv, TypeOKPreferences
    <3>3. TypeOKPreferences'
      BY <1>0, <1>1, <2>1, <3>1, <3>2 DEF PreferencesInv, TypeOKPreferences
    <3>4. row.tag = t /\ row.by = NoPreference /\ row.value = value
      OBVIOUS
    <3> HIDE DEF row
    <3>5. \A q : q \in Rows(t)' <=> q \in Rows(t) \/ q = p
      BY <1>0, <1>1, <2>1, <2>2, <3>1, <3>4 DEF Rows
    <3>6. \A q, r \in Rows(t) : Newer(history', q, r) <=> Newer(history, q, r)
      BY <2>a, <3>1
    <3>7. CountsFor(t)'
      <4>1. CountsFor(t) /\ current[t] = NoPreference
        BY <1>0, <1>1, <2>7 DEF PreferencesInv
      <4>2. /\ \A q \in Rows(t) : history'[q] = history[q] /\ q # p
            /\ history'[p].by = NoPreference /\ history'[p].value = value
        BY <2>1, <2>2, <3>1, <3>4
      <4>3. Newer(history', p, p)
        BY <2>4, <3>1, NewerIsAnOrder
      <4>4. \A q \in Rows(t) : q # NoPreference
        BY <2>2, <2>5
      <4> QED BY <1>0, <1>1, <2>5, <3>2, <3>5, <3>6, <4>1, <4>2, <4>3, <4>4 DEF CountsFor, Replaced
    <3>8. ASSUME NEW u \in Tag, u # t
          PROVE  CountsFor(u)'
      <4>1. \A q \in PreferenceId : history[q].tag = u \/ history'[q].tag = u => history'[q] = history[q]
        BY <1>4, <2>1, <3>1, <3>4, <3>8, PreferencesAssumption DEF None
      <4> QED BY <3>2, <3>3, <3>8, <4>1, OtherRowsStay
    <3> QED BY <3>3, <3>7, <3>8 DEF PreferencesInv
  <2>8. CASE ~Outranked(log, old, p) /\ old # NoPreference
    <3>1. /\ history' = [log EXCEPT ![old].by = p] /\ ~Newer(log, old, p)
          /\ current' = [current EXCEPT ![t] = IF value = "cleared" THEN NoPreference ELSE p]
      BY <1>4, <2>8 DEF Outranked
    <3>2. old \in Rows(t) /\ old \in PreferenceId /\ old # p /\ history[old] \in PreferenceRow
      BY <2>2, <2>3, <2>8
    <3>3. row.tag = t /\ row.by = NoPreference /\ row.value = value
      OBVIOUS
    <3> HIDE DEF log, row
    <3> DEFINE done == [history[old] EXCEPT !.by = p]
    <3>4. /\ done \in PreferenceRow /\ done.tag = history[old].tag /\ done.by = p
          /\ done.at = history[old].at /\ done.value = history[old].value
      BY <1>0, <1>1, <3>2 DEF PreferenceRow
    <3>5. history' = [log EXCEPT ![old] = done]
      BY <2>1, <3>1, <3>2
    <3> HIDE DEF done
    <3>6. /\ history' \in [PreferenceId -> {None} \union PreferenceRow]
          /\ history'[old] = done /\ history'[p] = row
          /\ \A q \in PreferenceId : q \notin {p, old} => history'[q] = history[q]
      BY <1>0, <1>1, <2>1, <3>2, <3>4, <3>5
    <3>7. /\ current' \in [Tag -> PreferenceId \union {NoPreference}]
          /\ current'[t] = IF value = "cleared" THEN NoPreference ELSE p
          /\ \A u \in Tag : u # t => current'[u] = current[u]
      BY <1>0, <1>1, <3>1 DEF PreferencesInv, TypeOKPreferences
    <3>8. TypeOKPreferences'
      BY <1>0, <1>1, <3>6, <3>7 DEF PreferencesInv, TypeOKPreferences
    <3>9. history[old].tag = t
      BY <3>2 DEF Rows
    <3>10. \A q : q \in Rows(t)' <=> q \in Rows(t) \/ q = p
      BY <1>0, <1>1, <2>2, <3>2, <3>3, <3>4, <3>6, <3>9 DEF Rows
    <3>11. \A q \in Rows(t) \union {p} : history'[q].at = log[q].at
      BY <2>1, <2>2, <3>2, <3>4, <3>6
    <3>12. \A q, r \in Rows(t) \union {p} : Newer(history', q, r) <=> Newer(log, q, r)
      BY <3>11 DEF Newer
    <3>13. Newer(log, p, old) /\ Newer(log, p, p)
      BY <2>4, <3>1, <3>2, NewerIsAnOrder
    <3>14. \A q \in Rows(t) : Newer(log, old, q) => Newer(log, p, q)
      <4> SUFFICES ASSUME NEW q \in Rows(t), Newer(log, old, q) PROVE Newer(log, p, q)
        OBVIOUS
      <4>1. p \in Int /\ old \in Int /\ q \in Int /\ log[p].at \in Int /\ log[old].at \in Int /\ log[q].at \in Int
        BY <2>4, <3>2
      <4> QED BY <3>13, <4>1, NewerIsAnOrder
    <3>15. CountsFor(t)'
      <4>1. CountsFor(t) /\ current[t] = old
        BY <1>0, <1>1 DEF PreferencesInv
      <4>2. /\ \A q \in Rows(t) : q # p /\ (q # old => history'[q] = history[q])
            /\ history'[p].by = NoPreference /\ history'[p].value = value
            /\ history'[old].by = p /\ history'[old].value = history[old].value
            /\ p # NoPreference
        BY <1>0, <1>1, <2>2, <2>5, <3>3, <3>4, <3>6
      <4>3. current'[t] # NoPreference =>
              current'[t] \in Rows(t)' /\ history'[current'[t]].by = NoPreference /\ history'[current'[t]].value # "cleared"
        BY <3>7, <3>10, <4>2
      <4>4. \A q \in Rows(t)' : history'[q].by = NoPreference /\ history'[q].value # "cleared" => q = current'[t]
        BY <3>7, <3>10, <4>1, <4>2 DEF CountsFor, Replaced
      <4>5. ASSUME NEW q \in Rows(t)', history'[q].by # NoPreference
            PROVE  history'[q].by \in Rows(t)' /\ Newer(history', history'[q].by, q)
        <5>1. q \in Rows(t)
          BY <3>10, <4>2, <4>5
        <5>2. CASE q = old
          BY <3>2, <3>10, <3>12, <3>13, <4>2, <5>2
        <5>3. CASE q # old
          <6>1. history'[q].by = history[q].by /\ history[q].by \in Rows(t) /\ Newer(history, history[q].by, q)
            BY <4>1, <4>2, <4>5, <5>1, <5>3 DEF CountsFor, Replaced
          <6> QED BY <2>a, <3>10, <3>12, <5>1, <6>1
        <5> QED BY <5>2, <5>3
      <4>6. ASSUME \A q \in Rows(t)' : history'[q].value # "cleared"
            PROVE  \A q \in Rows(t)' : current'[t] # NoPreference /\ Newer(history', current'[t], q)
        <5>1. current'[t] = p /\ p # NoPreference
          BY <3>7, <3>10, <4>2, <4>6
        <5>2. \A q \in Rows(t) : history[q].value # "cleared"
          BY <3>10, <4>2, <4>6
        <5>3. \A q \in Rows(t) : Newer(log, old, q)
          BY <2>a, <3>2, <4>1, <5>2 DEF CountsFor
        <5> QED BY <3>10, <3>12, <3>13, <3>14, <5>1, <5>3
      <4> QED BY <4>3, <4>4, <4>5, <4>6 DEF CountsFor, Replaced
    <3>16. ASSUME NEW u \in Tag, u # t
           PROVE  CountsFor(u)'
      <4>1. \A q \in PreferenceId : history[q].tag = u \/ history'[q].tag = u => history'[q] = history[q]
        BY <1>4, <3>3, <3>4, <3>6, <3>9, <3>16, PreferencesAssumption DEF None
      <4> QED BY <3>7, <3>8, <3>16, <4>1, OtherRowsStay
    <3> QED BY <3>8, <3>15, <3>16 DEF PreferencesInv
  <2> QED BY <2>6, <2>7, <2>8
<1> QED BY <1>0, <1>3, <1>4 DEF SubmitTagPreference

LEMMA DeleteTagKeeps ==
  ASSUME PreferencesInv, NEW t \in Tag, DeleteTag(t)
  PROVE  PreferencesInv'
<1>1. /\ history' = [p \in PreferenceId |-> IF history[p].tag = t THEN None ELSE history[p]]
      /\ current' = [current EXCEPT ![t] = NoPreference]
      /\ pending' = pending
  BY DEF DeleteTag
<1>2. TypeOKPreferences'
  BY <1>1 DEF PreferencesInv, TypeOKPreferences
<1>3. \A p \in PreferenceId : history'[p] = IF history[p].tag = t THEN None ELSE history[p]
  BY <1>1
<1>4. CountsFor(t)'
  <2>0. None.tag # t
    BY PreferencesAssumption DEF None
  <2>1. \A p : p \notin Rows(t)'
    BY <1>3, <2>0 DEF Rows
  <2>2. current'[t] = NoPreference
    BY <1>1 DEF PreferencesInv, TypeOKPreferences
  <2> QED BY <2>1, <2>2 DEF CountsFor
<1>5. ASSUME NEW u \in Tag, u # t
      PROVE  CountsFor(u)'
  <2>0. None.tag # u
    BY PreferencesAssumption DEF None
  <2>1. \A p \in PreferenceId : history[p].tag = u \/ history'[p].tag = u => history'[p] = history[p]
    <3> SUFFICES ASSUME NEW p \in PreferenceId, history[p].tag = u \/ history'[p].tag = u
                 PROVE  history'[p] = history[p]
      OBVIOUS
    <3>1. history'[p] = IF history[p].tag = t THEN None ELSE history[p]
      BY <1>3
    <3>2. CASE history[p].tag = t
      <4>1. history'[p].tag # u
        BY <3>1, <3>2, <2>0
      <4> QED BY <4>1, <3>2, <1>5
    <3>3. CASE history[p].tag # t
      BY <3>1, <3>3
    <3> QED BY <3>2, <3>3
  <2>2. current'[u] = current[u]
    BY <1>1, <1>5 DEF PreferencesInv, TypeOKPreferences
  <2> QED BY <1>2, <2>1, <2>2, OtherRowsStay
<1> QED BY <1>2, <1>4, <1>5 DEF PreferencesInv

LEMMA NextPreferencesKeeps ==
  ASSUME PreferencesInv, [NextPreferences]_prefVars
  PROVE  PreferencesInv'
<1>1. ASSUME UNCHANGED <<history, current>>,
             pending'.kind = "preference" =>
               /\ pending'.id \in PreferenceId /\ pending'.tag \in Tag
               /\ pending'.at \in 0..MaxAt /\ pending'.value \in Sentiment
      PROVE  PreferencesInv'
  BY <1>1 DEF PreferencesInv, TypeOKPreferences, CountsFor, Rows, Replaced, Newer
<1>2. CASE \E p \in PreferenceId, t \in Tag, value \in Sentiment, blocked \in BOOLEAN, at \in 0..MaxAt :
             Normalize(p, t, value, blocked, at)
  <2>1. PICK p \in PreferenceId, t \in Tag, value \in Sentiment, blocked \in BOOLEAN, at \in 0..MaxAt :
             Normalize(p, t, value, blocked, at)
    BY <1>2
  <2>2. /\ UNCHANGED <<history, current>> /\ pending'.id = p /\ pending'.tag = t /\ pending'.at = at
        /\ pending'.value = IF blocked THEN "dislike" ELSE value
    BY <2>1 DEF Normalize, preferenceVars
  <2>3. pending'.value \in Sentiment
    BY <2>2 DEF Sentiment
  <2> QED BY <1>1, <2>2, <2>3
<1>3. CASE SubmitTagPreference
  BY <1>3, SubmitTagPreferenceKeeps
<1>4. CASE \E t \in Tag : DeleteTag(t)
  BY <1>4, DeleteTagKeeps
<1>5. CASE \E a \in AnswerId, s \in Scene, reasons \in SUBSET Subject, flipped \in BOOLEAN :
             NormalizeAnswer(a, s, reasons, flipped)
  BY <1>1, <1>5 DEF NormalizeAnswer, preferenceVars
<1>6. CASE SubmitSceneReasons
  BY <1>1, <1>6 DEF SubmitSceneReasons, preferenceVars, Nothing
<1>7. CASE \E s \in Scene : DeleteScene(s)
  BY <1>1, <1>7 DEF DeleteScene, preferenceVars, PreferencesInv, TypeOKPreferences
<1>8. CASE UNCHANGED prefVars
  BY <1>1, <1>8 DEF prefVars, preferenceVars, PreferencesInv, TypeOKPreferences
<1> QED BY <1>2, <1>3, <1>4, <1>5, <1>6, <1>7, <1>8 DEF NextPreferences

LEMMA CountingOne == PreferencesInv => OnePreferenceCounts
<1> SUFFICES ASSUME PreferencesInv, NEW t \in Tag
             PROVE  /\ {p \in Rows(t) : ~Replaced(p) /\ history[p].value # "cleared"} = {current[t]} \ {NoPreference}
                    /\ \A p \in Rows(t) : Replaced(p) => history[p].by \in Rows(t) /\ Newer(history, history[p].by, p)
                    /\ (\A p \in Rows(t) : history[p].value # "cleared") =>
                         \A p \in Rows(t) : Newer(history, current[t], p)
  BY DEF OnePreferenceCounts
<1>1. CountsFor(t) /\ \A p \in Rows(t) : p # NoPreference
  BY PreferencesAssumption DEF PreferencesInv, Rows, NoPreference
<1> QED BY <1>1 DEF CountsFor

(* Of all the preferences a tag ever got, in whatever order they arrived and *)
(* were stored, one counts, and it is the newest unless the tag was cleared; *)
(* for any tags, ids and times.                                             *)
THEOREM OnePreferenceAlwaysCounts == SpecPreferences => []OnePreferenceCounts
<1>1. InitPreferences => PreferencesInv
  BY PreferencesInit
<1>2. PreferencesInv /\ [NextPreferences]_prefVars => PreferencesInv'
  BY NextPreferencesKeeps
<1>3. PreferencesInv => OnePreferenceCounts
  BY CountingOne
<1> QED BY <1>1, <1>2, <1>3, PTL DEF SpecPreferences

-----------------------------------------------------------------------------
(* History: what is rebuilt from Stash's timestamps.                        *)

LEMMA BeforeOrders ==
  ASSUME NEW x \in Nat \X Nat, NEW y \in Nat \X Nat
  PROVE  /\ Before(x, y) \/ Before(y, x) \/ x = y
         /\ ~(Before(x, y) /\ Before(y, x)) /\ ~Before(x, x)
         /\ Distance(x[1], x[2]) \in Nat
         /\ Before(x, y) => Distance(x[1], x[2]) <= Distance(y[1], y[2])
<1>1. /\ x[1] \in Nat /\ x[2] \in Nat /\ y[1] \in Nat /\ y[2] \in Nat
      /\ x = <<x[1], x[2]>> /\ y = <<y[1], y[2]>>
  OBVIOUS
<1>2. Distance(x[1], x[2]) \in Nat /\ Distance(y[1], y[2]) \in Nat
  BY <1>1 DEF Distance
<1> QED BY <1>1, <1>2 DEF Before

LEMMA FirstOfPairs ==
  ASSUME NEW S, S \subseteq Nat \X Nat, S # {}
  PROVE  \E x \in S : \A y \in S : x = y \/ Before(x, y)
<1>1. \A x \in S : x \in Nat \X Nat /\ x[1] \in Nat /\ x[2] \in Nat /\ x = <<x[1], x[2]>>
  OBVIOUS
<1>2. \A x \in S : Distance(x[1], x[2]) \in Nat
  BY <1>1 DEF Distance
<1>3. PICK d \in {Distance(x[1], x[2]) : x \in S} : \A x \in S : d <= Distance(x[1], x[2])
  <2>1. {Distance(x[1], x[2]) : x \in S} \subseteq Nat /\ {Distance(x[1], x[2]) : x \in S} # {}
    BY <1>2
  <2> DEFINE distances == {Distance(x[1], x[2]) : x \in S}
  <2> HIDE DEF distances
  <2>2. \E d \in distances : \A e \in distances : d <= e
    BY <2>1, LeastOf DEF distances
  <2> QED BY <2>2 DEF distances
<1> DEFINE near == {x \in S : Distance(x[1], x[2]) = d}
<1>4. PICK p \in {x[1] : x \in near} : \A x \in near : p <= x[1]
  <2> DEFINE firsts == {x[1] : x \in near}
  <2>1. firsts \subseteq Nat /\ firsts # {} /\ \A x \in near : x[1] \in firsts
    BY <1>1, <1>3
  <2> HIDE DEF firsts
  <2>2. PICK p \in firsts : \A r \in firsts : p <= r
    BY <2>1, LeastOf
  <2> QED BY <2>1, <2>2 DEF firsts
<1> DEFINE of == {x \in near : x[1] = p}
<1>5. PICK o \in {x[2] : x \in of} : \A x \in of : o <= x[2]
  <2> DEFINE seconds == {x[2] : x \in of}
  <2>1. seconds \subseteq Nat /\ seconds # {} /\ \A x \in of : x[2] \in seconds
    BY <1>1, <1>4
  <2> HIDE DEF seconds
  <2>2. PICK o \in seconds : \A r \in seconds : o <= r
    BY <2>1, LeastOf
  <2> QED BY <2>1, <2>2 DEF seconds
<1>6. PICK x \in S : Distance(x[1], x[2]) = d /\ x[1] = p /\ x[2] = o
  BY <1>5
<1>7. ASSUME NEW y \in S, x # y PROVE Before(x, y)
  <2>1. d <= Distance(y[1], y[2]) /\ d \in Nat /\ Distance(y[1], y[2]) \in Nat
    BY <1>2, <1>3, <1>6
  <2>2. CASE d < Distance(y[1], y[2])
    BY <1>6, <2>2 DEF Before
  <2>3. CASE d = Distance(y[1], y[2])
    <3>1. p <= y[1] /\ p \in Nat /\ y[1] \in Nat /\ y[2] \in Nat /\ o \in Nat
      BY <1>1, <1>4, <1>6, <2>3
    <3>2. CASE p < y[1]
      BY <1>6, <2>3, <3>2 DEF Before
    <3>3. CASE p = y[1]
      <4>1. o <= y[2]
        BY <1>5, <2>3, <3>3
      <4>2. o # y[2]
        BY <1>1, <1>6, <1>7, <3>3
      <4> QED BY <1>6, <2>3, <3>1, <3>3, <4>1, <4>2 DEF Before
    <3> QED BY <3>1, <3>2, <3>3
  <2> QED BY <2>1, <2>2, <2>3
<1> QED BY <1>7

\* What matchOs has taken when it has come through `done`, and that it can
\* come through all pairs.
Matches(taken, done) ==
  \A x \in done : x \in taken <=> ~\E y \in taken : InTheWay(y, x)

LEMMA MatchingExists ==
  ASSUME NEW pairs, pairs \subseteq Nat \X Nat, IsFiniteSet(pairs)
  PROVE  \E taken \in SUBSET pairs : Matches(taken, pairs)
<1> DEFINE Reached(done) == /\ \A x \in done : \A y \in pairs : Before(y, x) => y \in done
                            /\ \E taken \in SUBSET done : Matches(taken, done)
           left == {Cardinality(pairs \ done) : done \in {d \in SUBSET pairs : Reached(d)}}
<1>1. \A d \in SUBSET pairs : IsFiniteSet(pairs \ d) /\ Cardinality(pairs \ d) \in Nat
  BY FS_Difference, FS_CardinalityType
<1>2. Reached({})
  BY DEF Matches
<1>3. left \subseteq Nat /\ left # {}
  <2> HIDE DEF Reached
  <2> QED BY <1>1, <1>2
<1>4. PICK n \in left : \A m \in left : n <= m
  <2> HIDE DEF left
  <2> QED BY <1>3, LeastOf
<1>5. PICK done \in SUBSET pairs : Reached(done) /\ n = Cardinality(pairs \ done)
  <2> HIDE DEF Reached
  <2> QED BY <1>4
<1>6. PICK taken \in SUBSET done : Matches(taken, done)
  BY <1>5
<1>7. CASE done = pairs
  BY <1>6, <1>7
<1>8. CASE done # pairs
  <2>1. pairs \ done # {} /\ pairs \ done \subseteq Nat \X Nat
    BY <1>8
  <2>2. PICK x \in pairs \ done : \A y \in pairs \ done : x = y \/ Before(x, y)
    BY <2>1, FirstOfPairs
  <2> DEFINE more == done \cup {x}
             new == IF \E y \in taken : InTheWay(y, x) THEN taken ELSE taken \cup {x}
  <2>3. \A y \in done : ~Before(x, y)
    BY <1>5, <2>2
  <2>4. ~Before(x, x)
    BY <2>2, BeforeOrders
  <2>5. \A y \in pairs : Before(y, x) => y \in done
    <3>1. SUFFICES ASSUME NEW y \in pairs, Before(y, x), y \notin done PROVE FALSE
      OBVIOUS
    <3>2. x = y \/ Before(x, y)
      BY <2>2, <3>1
    <3> QED BY <2>2, <2>4, <3>1, <3>2, BeforeOrders
  <2>6. Matches(new, more)
    <3>1. ASSUME NEW z \in done PROVE z \in new <=> ~\E y \in new : InTheWay(y, z)
      <4>1. z \in new <=> z \in taken
        BY <2>2, <3>1
      <4>2. (\E y \in new : InTheWay(y, z)) <=> \E y \in taken : InTheWay(y, z)
        BY <2>3, <3>1 DEF InTheWay
      <4> QED BY <1>6, <4>1, <4>2 DEF Matches
    <3>2. x \in new <=> ~\E y \in new : InTheWay(y, x)
      BY <2>2, <2>4 DEF InTheWay
    <3> QED BY <3>1, <3>2 DEF Matches
  <2>7. Reached(more)
    <3>1. new \in SUBSET more
      OBVIOUS
    <3>2. \A z \in more : \A y \in pairs : Before(y, z) => y \in more
      BY <1>5, <2>5
    <3> HIDE DEF new
    <3> QED BY <2>6, <3>1, <3>2
  <2>8. more \in SUBSET pairs /\ pairs \ more = (pairs \ done) \ {x}
    BY <2>2
  <2>9. Cardinality(pairs \ more) \in left
    <3> HIDE DEF Reached, more
    <3> QED BY <2>7, <2>8
  <2>10. Cardinality(pairs \ more) = Cardinality(pairs \ done) - 1
    <3>1. IsFiniteSet(pairs \ done) /\ x \in pairs \ done
      BY <1>1, <2>2
    <3>2. Cardinality((pairs \ done) \ {x}) = Cardinality(pairs \ done) - 1
      BY <3>1, FS_RemoveElement
    <3> HIDE DEF more
    <3> QED BY <2>8, <3>2
  <2>11. Cardinality(pairs \ done) \in Nat /\ n = Cardinality(pairs \ done)
    BY <1>1, <1>5
  <2>12. n <= Cardinality(pairs \ more)
    <3> DEFINE m == Cardinality(pairs \ more)
    <3>1. m \in left
      BY <2>9
    <3> HIDE DEF left, more, m
    <3>2. n <= m
      BY <1>4, <3>1
    <3> QED BY <3>2 DEF m
  <2> HIDE DEF left, Reached, more
  <2> QED BY <2>10, <2>11, <2>12
<1> QED BY <1>7, <1>8

\* Each play gets one O at most and each O one play; a pair in the window is
\* passed over only for a nearer one.
LEMMA OsAreMatched ==
  ASSUME NEW n \in Nat, NEW ps \in SUBSET (0..n), NEW outcomes \in SUBSET (0..n)
  PROVE  /\ MatchOs(ps, outcomes) \subseteq Pairs(ps, outcomes)
         /\ Pairs(ps, outcomes) \subseteq Nat \X Nat
         /\ \A x, y \in MatchOs(ps, outcomes) : x[1] = y[1] \/ x[2] = y[2] => x = y
         /\ \A x \in Pairs(ps, outcomes) \ MatchOs(ps, outcomes) :
              \E y \in MatchOs(ps, outcomes) : InTheWay(y, x)
<1> DEFINE pairs == Pairs(ps, outcomes)
           taken == MatchOs(ps, outcomes)
<1>1. pairs \subseteq Nat \X Nat /\ pairs \in SUBSET (ps \X outcomes)
  <2>1. \A x \in 0..n : x \in Nat
    OBVIOUS
  <2>2. pairs \in SUBSET (ps \X outcomes)
    BY DEF Pairs
  <2>3. ps \subseteq Nat /\ outcomes \subseteq Nat
    BY <2>1
  <2> QED BY <2>2, <2>3
<1>2. IsFiniteSet(pairs)
  <2>1. IsFiniteSet(0..n)
    BY FS_Interval
  <2>2. IsFiniteSet(ps) /\ IsFiniteSet(outcomes)
    BY <2>1, FS_Subset
  <2>3. IsFiniteSet(ps \X outcomes)
    BY <2>2, FS_Product
  <2> QED BY <1>1, <2>3, FS_Subset
<1>3. taken \in SUBSET pairs /\ Matches(taken, pairs)
  BY <1>1, <1>2, MatchingExists DEF MatchOs, Matches
<1> HIDE DEF pairs, taken
<1>4. ASSUME NEW x \in taken, NEW y \in taken, x[1] = y[1] \/ x[2] = y[2], x # y PROVE FALSE
  <2>1. Before(x, y) \/ Before(y, x)
    BY <1>1, <1>3, <1>4, BeforeOrders
  <2>2. ~InTheWay(x, y) /\ ~InTheWay(y, x)
    BY <1>3, <1>4 DEF Matches
  <2> QED BY <1>4, <2>1, <2>2 DEF InTheWay
<1> QED BY <1>1, <1>3, <1>4 DEF Matches, pairs, taken

LEMMA AnOIsStrongest ==
  ASSUME NEW p, NEW ps, NEW matched, NEW m \in matched, m[1] = p, m[2] \in Nat,
         \A x \in matched : x[1] = p => x = m
  PROVE  CollapseSignals(SignalsOf(p, ps, matched)) = [type |-> "o", at |-> m[2]]
<1> DEFINE top == [type |-> "o", at |-> m[2]]
           signals == SignalsOf(p, ps, matched)
<1>1. top \in signals
  BY DEF SignalsOf
<1>2. \A y \in signals : y = top \/ y.type \in {"view", "repeat"}
  BY DEF SignalsOf
<1>3. top.type = "o" /\ top.at <= top.at
  OBVIOUS
<1> HIDE DEF top, signals
<1>4. Strength["o"] = 3 /\ Strength["view"] = 2 /\ Strength["repeat"] = 1
  BY DEF Strength
<1>5. \A y \in signals : y = top \/ (Strength[y.type] < Strength[top.type] /\ ~(Strength[top.type] < Strength[y.type])
                                     /\ Strength[y.type] # Strength[top.type])
  <2>1. ASSUME NEW y \in signals, y # top
        PROVE  Strength[y.type] < Strength[top.type] /\ ~(Strength[top.type] < Strength[y.type])
               /\ Strength[y.type] # Strength[top.type]
    <3>1. CASE y.type = "view"
      BY <1>3, <1>4, <3>1
    <3>2. CASE y.type = "repeat"
      BY <1>3, <1>4, <3>2
    <3> QED BY <1>2, <2>1, <3>1, <3>2
  <2> QED BY <2>1
<1>6. ~(Strength[top.type] < Strength[top.type])
  BY <1>3, <1>4
<1> DEFINE Best(x) == \A y \in signals : \/ Strength[y.type] < Strength[x.type]
                                         \/ Strength[y.type] = Strength[x.type] /\ y.at <= x.at
<1>7. Best(top)
  BY <1>3, <1>5
<1>8. ASSUME NEW x \in signals, Best(x) PROVE x = top
  BY <1>1, <1>5, <1>8
<1>9. CollapseSignals(signals) = CHOOSE x \in signals : Best(x)
  BY DEF CollapseSignals
<1> HIDE DEF Best
<1> QED BY <1>1, <1>7, <1>8, <1>9 DEF top, signals

\* What HistoryCountsOnce says of the sessions r of one scene.
CountsOnce(r, ps, outcomes) ==
  /\ {x.at : x \in r.sessions} = ps
  /\ \A o \in outcomes :
       /\ Cardinality({x \in r.sessions : o \in x.o}) = (IF o \in r.standalone THEN 0 ELSE 1)
       /\ o \in r.standalone => \A x \in r.sessions :
            Distance(x.at, o) <= MatchWindow =>
              \E other \in x.o : Distance(x.at, other) <= Distance(x.at, o)
  /\ \A x \in r.sessions : Cardinality(x.o) <= 1
       /\ (x.o # {} => \E y \in x.outcome : y.type = "o" /\ y.at \in x.o)

LEMMA ReconstructionCounts ==
  ASSUME NEW n \in Nat, NEW ps \in SUBSET (0..n), NEW outcomes \in SUBSET (0..n)
  PROVE  CountsOnce(ReconstructHistory(ps, outcomes), ps, outcomes)
<1>0. SUFFICES ASSUME NEW r, r = ReconstructHistory(ps, outcomes) PROVE CountsOnce(r, ps, outcomes)
  OBVIOUS
<1> DEFINE matched == MatchOs(ps, outcomes)
           OsOf(p) == {m[2] : m \in {x \in matched : x[1] = p}}
           session(p) == [at |-> p, o |-> OsOf(p),
                          outcome |-> IF SignalsOf(p, ps, matched) = {} THEN {}
                                      ELSE {CollapseSignals(SignalsOf(p, ps, matched))}]
<1>1. r.sessions = {session(p) : p \in ps} /\ r.standalone = outcomes \ {m[2] : m \in matched}
  BY <1>0 DEF ReconstructHistory
<1>2. /\ \A m \in matched : m \in Pairs(ps, outcomes)
      /\ \A x \in Pairs(ps, outcomes) : x \in Nat \X Nat
      /\ \A x, y \in matched : x[1] = y[1] \/ x[2] = y[2] => x = y
      /\ \A x \in Pairs(ps, outcomes) : x \notin matched => \E y \in matched : InTheWay(y, x)
  BY OsAreMatched
<1>3. \A x : x \in Pairs(ps, outcomes) <=> /\ x \in ps \X outcomes /\ Distance(x[1], x[2]) <= MatchWindow
  BY DEF Pairs
<1>4. \A p \in ps : session(p).at = p /\ session(p).o = OsOf(p)
  OBVIOUS
<1>5. ASSUME NEW p \in ps, NEW m \in matched, m[1] = p
      PROVE  OsOf(p) = {m[2]} /\ m[2] \in Nat
  <2>1. \A x \in matched : x[1] = p => x = m
    BY <1>2, <1>5
  <2>2. m[2] \in Nat
    BY <1>2
  <2> HIDE DEF matched
  <2> QED BY <1>5, <2>1, <2>2
<1>6. ASSUME NEW p \in ps, NEW m \in matched, m[1] = p
      PROVE  session(p).outcome = {[type |-> "o", at |-> m[2]]}
  <2>1. \A x \in matched : x[1] = p => x = m
    BY <1>2, <1>6
  <2>2. m[2] \in Nat
    BY <1>2
  <2>3. [type |-> "o", at |-> m[2]] \in SignalsOf(p, ps, matched)
    BY <1>6 DEF SignalsOf
  <2> HIDE DEF matched
  <2>4. CollapseSignals(SignalsOf(p, ps, matched)) = [type |-> "o", at |-> m[2]]
    BY <1>6, <2>1, <2>2, AnOIsStrongest
  <2> QED BY <2>3, <2>4
<1>7. \A p \in ps : OsOf(p) # {} => \E m \in matched : m[1] = p
  OBVIOUS
<1> HIDE DEF matched, OsOf, session
<1>8. {x.at : x \in r.sessions} = ps
  <2>1. ASSUME NEW x \in r.sessions PROVE x.at \in ps
    BY <1>1, <1>4
  <2>2. ASSUME NEW p \in ps PROVE \E x \in r.sessions : x.at = p
    <3>1. session(p) \in r.sessions /\ session(p).at = p
      BY <1>1, <1>4
    <3> QED BY <3>1
  <2> QED BY <2>1, <2>2
<1>9. ASSUME NEW x \in r.sessions
      PROVE  Cardinality(x.o) <= 1 /\ (x.o # {} => \E y \in x.outcome : y.type = "o" /\ y.at \in x.o)
  <2>1. PICK p \in ps : x = session(p)
    BY <1>1, <1>9
  <2>2. CASE x.o = {}
    BY <2>2, FS_EmptySet
  <2>3. CASE x.o # {}
    <3>1. PICK m \in matched : m[1] = p
      BY <1>4, <1>7, <2>1, <2>3
    <3>2. x.o = {m[2]} /\ x.outcome = {[type |-> "o", at |-> m[2]]}
      BY <1>4, <1>5, <1>6, <2>1, <3>1
    <3>3. Cardinality({m[2]}) = 1
      BY FS_Singleton
    <3> QED BY <3>2, <3>3
  <2> QED BY <2>2, <2>3
<1>10. ASSUME NEW o \in outcomes
       PROVE  Cardinality({x \in r.sessions : o \in x.o}) = (IF o \in r.standalone THEN 0 ELSE 1)
  <2>1. \A p \in ps : o \in OsOf(p) <=> \E m \in matched : m[1] = p /\ m[2] = o
    BY DEF OsOf
  <2>2. CASE o \in r.standalone
    <3>1. {x \in r.sessions : o \in x.o} = {}
      BY <1>1, <1>4, <2>1, <2>2
    <3> QED BY <2>2, <3>1, FS_EmptySet
  <2>3. CASE o \notin r.standalone
    <3>1. PICK m \in matched : m[2] = o
      BY <1>1, <1>10, <2>3
    <3>2. m[1] \in ps
      BY <1>2, <1>3
    <3>3. {x \in r.sessions : o \in x.o} = {session(m[1])}
      <4>1. o \in session(m[1]).o /\ session(m[1]) \in r.sessions
        BY <1>1, <1>4, <2>1, <3>1, <3>2
      <4>2. ASSUME NEW x \in r.sessions, o \in x.o PROVE x = session(m[1])
        <5>1. PICK p \in ps : x = session(p)
          BY <1>1, <4>2
        <5>2. PICK k \in matched : k[1] = p /\ k[2] = o
          BY <1>4, <2>1, <4>2, <5>1
        <5>3. k = m
          BY <1>2, <3>1, <5>2
        <5> QED BY <5>1, <5>2, <5>3
      <4> QED BY <4>1, <4>2
    <3>4. Cardinality({session(m[1])}) = 1
      BY FS_Singleton
    <3> QED BY <2>3, <3>3, <3>4
  <2> QED BY <2>2, <2>3
<1>11. ASSUME NEW o \in outcomes, o \in r.standalone, NEW x \in r.sessions, Distance(x.at, o) <= MatchWindow
       PROVE  \E other \in x.o : Distance(x.at, other) <= Distance(x.at, o)
  <2>1. PICK p \in ps : x = session(p)
    BY <1>1, <1>11
  <2> DEFINE pair == <<p, o>>
  <2>2. pair \in Pairs(ps, outcomes) /\ pair[1] = p /\ pair[2] = o
    BY <1>3, <1>4, <1>11, <2>1
  <2>3. \A m \in matched : m[2] # o
    BY <1>1, <1>11
  <2> HIDE DEF pair
  <2>4. PICK y \in matched : InTheWay(y, pair)
    BY <1>2, <2>2, <2>3
  <2>5. y[1] = p /\ Before(y, pair)
    BY <2>2, <2>3, <2>4 DEF InTheWay
  <2>6. Distance(p, y[2]) <= Distance(p, o)
    <3>1. y \in Nat \X Nat /\ pair \in Nat \X Nat
      BY <1>2, <2>2
    <3> QED BY <2>2, <2>5, <3>1, BeforeOrders
  <2>7. y[2] \in x.o
    <3>1. p \in ps /\ y \in matched /\ y[1] = p
      BY <2>1, <2>4, <2>5
    <3>2. OsOf(p) = {y[2]}
      BY <1>5, <3>1
    <3>3. x.o = OsOf(p)
      BY <1>4, <2>1
    <3> QED BY <3>2, <3>3
  <2> QED BY <1>4, <2>1, <2>6, <2>7
<1> QED BY <1>8, <1>9, <1>10, <1>11 DEF CountsOnce

-----------------------------------------------------------------------------
\* A rebuild that still counts has read the plays of each of its scenes as
\* they are, and what it replaces is what plays and Os now rebuild to.
HistInv ==
  /\ plays \in [Scene -> SUBSET (0..MaxHour)]
  /\ os \in [Scene -> SUBSET (0..MaxHour)]
  /\ reading # NotReading =>
       /\ reading = [selection |-> reading.selection, plays |-> reading.plays]
       /\ \A s \in reading.selection \ stale : s \in Scene => reading.plays[s] = plays[s]
  /\ \A s \in Scene \ stale :
       reading = NotReading \/ s \notin reading.selection =>
         rebuilt[s] = ReconstructHistory(plays[s], os[s])

LEMMA HistInit ==
  ASSUME InitHistory PROVE HistInv
BY DEF InitHistory, HistInv

LEMMA HistNext ==
  ASSUME HistInv, [NextHistory]_histVars PROVE HistInv'
<1>1. ASSUME NEW s \in Scene, NEW at \in 0..MaxHour, NEW o \in SUBSET (0..MaxHour), SyncScene(s, at, o)
      PROVE  HistInv'
  <2>1. /\ plays' = [plays EXCEPT ![s] = @ \cup {at}] /\ os' = [os EXCEPT ![s] = @ \cup o]
        /\ stale' = stale \cup {s} /\ rebuilt' = rebuilt /\ reading' = reading
    BY <1>1 DEF SyncScene
  <2>2. plays' \in [Scene -> SUBSET (0..MaxHour)] /\ os' \in [Scene -> SUBSET (0..MaxHour)]
    BY <2>1 DEF HistInv
  <2>3. \A t \in Scene \ stale' : t \in Scene \ stale /\ plays'[t] = plays[t] /\ os'[t] = os[t]
    BY <2>1 DEF HistInv
  <2> QED BY <2>1, <2>2, <2>3 DEF HistInv
<1>2. ASSUME NEW selection \in SUBSET Scene \ {{}}, BeginRebuild(selection) PROVE HistInv'
  <2>1. /\ reading = NotReading /\ reading' = [selection |-> selection, plays |-> plays]
        /\ stale' = stale \ selection /\ plays' = plays /\ os' = os /\ rebuilt' = rebuilt
    BY <1>2 DEF BeginRebuild
  <2>2. reading' # NotReading
    BY <1>2, <2>1 DEF NotReading
  <2>3. \A s \in Scene \ stale' : s \notin reading'.selection => s \notin stale
    BY <2>1
  <2> QED BY <2>1, <2>2, <2>3 DEF HistInv
<1>3. CASE FinishRebuild
  <2>1. /\ reading # NotReading /\ reading' = NotReading /\ plays' = plays /\ os' = os /\ stale' = stale
        /\ rebuilt' = [s \in Scene |-> IF s \in reading.selection
                                       THEN ReconstructHistory(reading.plays[s], os[s])
                                       ELSE rebuilt[s]]
    BY <1>3 DEF FinishRebuild
  <2>2. \A s \in Scene \ stale : rebuilt'[s] = ReconstructHistory(plays[s], os[s])
    BY <2>1 DEF HistInv
  <2> QED BY <2>1, <2>2 DEF HistInv
<1>4. CASE RebuildDies
  <2>1. /\ reading # NotReading /\ reading' = NotReading /\ stale' = stale \cup reading.selection
        /\ plays' = plays /\ os' = os /\ rebuilt' = rebuilt
    BY <1>4 DEF RebuildDies
  <2> QED BY <2>1 DEF HistInv
<1>5. CASE UNCHANGED histVars
  BY <1>5 DEF histVars, HistInv
<1> QED BY <1>1, <1>2, <1>3, <1>4, <1>5 DEF NextHistory

\* historicalRebuild: every scene that did not change since its last rebuild
\* counts each play and each O of Stash exactly once, and leaves an O beside
\* the plays only when each near one took one no further away.
THEOREM HistoryAlwaysCountsOnce == SpecHistory => []HistoryCountsOnce
<1>1. InitHistory => HistInv
  BY HistInit
<1>2. HistInv /\ [NextHistory]_histVars => HistInv'
  BY HistNext
<1>3. HistInv => HistoryCountsOnce
  <2>1. SUFFICES ASSUME HistInv, reading = NotReading, NEW s \in Scene \ stale
                 PROVE  CountsOnce(rebuilt[s], plays[s], os[s])
    BY DEF HistoryCountsOnce, CountsOnce
  <2>2. plays[s] \in SUBSET (0..MaxHour) /\ os[s] \in SUBSET (0..MaxHour) /\ MaxHour \in Nat
    BY <2>1, HistoricalAssumption DEF HistInv
  <2>3. rebuilt[s] = ReconstructHistory(plays[s], os[s])
    BY <2>1 DEF HistInv
  <2> QED BY <2>2, <2>3, ReconstructionCounts
<1> QED BY <1>1, <1>2, <1>3, PTL DEF SpecHistory

-----------------------------------------------------------------------------
\* What holds of the first of some numbers, and of each after one of which it
\* holds, holds of all of them.
LEMMA StepByStep ==
  ASSUME NEW a \in Int, NEW b \in Int, NEW S, a <= b => a \in S,
         \A n \in a..b : n < b /\ n \in S => n + 1 \in S
  PROVE  \A n \in a..b : n \in S
<1> DEFINE wrong == {n \in Nat : a + n <= b /\ a + n \notin S}
<1>1. SUFFICES ASSUME NEW m \in a..b, m \notin S PROVE FALSE
  OBVIOUS
<1>2. m - a \in wrong
  <2>1. m - a \in Nat /\ a + (m - a) = m
    BY <1>1
  <2> QED BY <1>1, <2>1
<1>3. PICK n \in wrong : \A k \in wrong : n <= k
  BY <1>2, LeastOf
<1>4. n \in Nat /\ a + n <= b /\ a + n \notin S
  BY <1>3
<1>5. n # 0
  BY <1>4
<1>6. n - 1 \in Nat /\ n - 1 \notin wrong /\ a + (n - 1) \in a..b /\ a + (n - 1) < b /\ a + (n - 1) + 1 = a + n
  BY <1>3, <1>4, <1>5
<1>7. a + (n - 1) \in S
  BY <1>4, <1>6
<1>8. a + (n - 1) + 1 \in S
  BY <1>6, <1>7
<1> QED BY <1>4, <1>6, <1>8

\* A recursive function over a range of numbers is there.
Follows(f, first, next, a, b) ==
  f = [n \in a..b |-> IF n = a THEN first ELSE next[n][f[n - 1]]]

LEMMA RecursionExists ==
  ASSUME NEW a \in Int, NEW b \in Int, NEW V, NEW first \in V, NEW next \in [a..b -> [V -> V]]
  PROVE  \E f \in [a..b -> V] : Follows(f, first, next, a, b)
<1> DEFINE Upto(f, m) == \A n \in a..m : f[n] = IF n = a THEN first ELSE next[n][f[n - 1]]
           Reached(m) == \E f \in [a..b -> V] : Upto(f, m)
           S == {m \in a..b : Reached(m)}
<1>1. a <= b => a \in S
  <2>1. [n \in a..b |-> first] \in [a..b -> V]
    OBVIOUS
  <2>2. a <= b => Upto([n \in a..b |-> first], a)
    OBVIOUS
  <2> HIDE DEF Upto
  <2>3. a <= b => Reached(a) /\ a \in a..b
    BY <2>1, <2>2
  <2> QED BY <2>3
<1>2. ASSUME NEW m \in a..b, m < b, m \in S PROVE m + 1 \in S
  <2>1. PICK f \in [a..b -> V] : Upto(f, m)
    BY <1>2
  <2> DEFINE g == [n \in a..b |-> IF n = m + 1 THEN next[n][f[m]] ELSE f[n]]
  <2>2. g \in [a..b -> V]
    OBVIOUS
  <2>3. ASSUME NEW n \in a..(m + 1) PROVE g[n] = IF n = a THEN first ELSE next[n][g[n - 1]]
    <3>1. CASE n = m + 1
      <4>1. n # a /\ n \in a..b /\ n - 1 \in a..b /\ n - 1 = m /\ m # m + 1
        BY <1>2, <3>1
      <4>2. g[n] = next[n][f[m]] /\ g[n - 1] = f[m]
        BY <3>1, <4>1
      <4> QED BY <4>1, <4>2
    <3>2. CASE n # m + 1
      <4>1. n \in a..m /\ n \in a..b
        BY <1>2, <3>2
      <4>2. g[n] = f[n] /\ (n # a => n - 1 \in a..b /\ n - 1 # m + 1 /\ g[n - 1] = f[n - 1])
        BY <1>2, <3>2, <4>1
      <4> QED BY <2>1, <4>1, <4>2
    <3> QED BY <3>1, <3>2
  <2>4. m + 1 \in a..b
    BY <1>2
  <2> HIDE DEF g
  <2>5. Reached(m + 1) /\ m + 1 \in a..b
    BY <2>2, <2>3, <2>4
  <2> HIDE DEF Reached
  <2> QED BY <2>5
<1>3. CASE b < a
  <2>1. [n \in a..b |-> first] \in [a..b -> V] /\ a..b = {}
    BY <1>3
  <2> QED BY <2>1 DEF Follows
<1>4. CASE a <= b
  <2>1. \A n \in a..b : n \in S
    <3> HIDE DEF S
    <3> QED BY <1>1, <1>2, StepByStep
  <2>2. PICK f \in [a..b -> V] : Upto(f, b)
    BY <1>4, <2>1
  <2>3. Follows(f, first, next, a, b)
    BY <2>2 DEF Follows
  <2> QED BY <2>3
<1> QED BY <1>3, <1>4

-----------------------------------------------------------------------------
(* Inheritance: climbing the hierarchy meets the nearest answers.           *)

Generations == [fresh : SUBSET Content, seen : SUBSET Content]
Youngest(t) == [fresh |-> parents[t] \ {t}, seen |-> {t}]

LEMMA ClimbIs ==
  ASSUME IsFiniteSet(Content), parents \in [Content -> SUBSET Content], NEW t \in Content
  PROVE  /\ Climb(t) \in [1..Cardinality(Content) -> Generations]
         /\ Climb(t)[1] = Youngest(t)
         /\ \A n \in 2..Cardinality(Content) : Climb(t)[n] = Above(Climb(t)[n - 1])
<1> DEFINE C == Cardinality(Content)
           Only(x) == CHOOSE above \in {Above(below) : below \in {x}} : TRUE
           Unfolded(g) == [n \in 1..C |-> IF n = 1 THEN Youngest(t) ELSE Only(g[n - 1])]
           f == CHOOSE g : g = Unfolded(g)
           step == [n \in 1..C |-> [below \in Generations |-> Above(below)]]
<1>0. ASSUME NEW x PROVE Only(x) = Above(x)
  <2>1. {Above(below) : below \in {x}} = {Above(x)}
    OBVIOUS
  <2>2. Only(x) \in {Above(below) : below \in {x}}
    BY <2>1
  <2> QED BY <2>1, <2>2
<1>1. C \in Nat /\ C >= 1
  BY FS_CardinalityType, FS_EmptySet
<1>2. Youngest(t) \in Generations
  BY DEF Youngest, Generations
<1>3. \A below \in Generations : Above(below) \in Generations
  BY DEF Above, Generations
<1>4. step \in [1..C -> [Generations -> Generations]]
  BY <1>3
<1>5. PICK g \in [1..C -> Generations] : Follows(g, Youngest(t), step, 1, C)
  <2> HIDE DEF step, C
  <2> QED BY <1>1, <1>2, <1>4, RecursionExists
<1>6. g = Unfolded(g)
  <2>1. \A n \in 1..C : n # 1 => n - 1 \in 1..C
    BY <1>1
  <2>2. \A n \in 1..C : n # 1 => step[n][g[n - 1]] = Above(g[n - 1])
    <3> HIDE DEF C
    <3> QED BY <1>5, <2>1
  <2>3. g = [n \in 1..C |-> IF n = 1 THEN Youngest(t) ELSE step[n][g[n - 1]]]
    BY <1>5 DEF Follows
  <2> HIDE DEF step, C, Only
  <2> QED BY <1>0, <2>2, <2>3
<1>7. f = Unfolded(f)
  BY <1>6
<1>8. Climb(t) = f
  BY DEF Climb, Youngest
<1> HIDE DEF f, Only
<1>9. f[1] = Youngest(t) /\ \A n \in 2..C : f[n] = Above(f[n - 1])
  <2> HIDE DEF C
  <2>1. 1 \in 1..C /\ \A n \in 2..C : n \in 1..C /\ n # 1
    BY <1>1
  <2> QED BY <1>0, <1>7, <2>1
<1>10. \A n \in 1..C : f[n] \in Generations
  <2> DEFINE S == {n \in 1..C : f[n] \in Generations}
  <2>1. 1 \in S
    BY <1>1, <1>2, <1>9
  <2>2. ASSUME NEW n \in 1..C, n < C, n \in S PROVE n + 1 \in S
    <3>1. n + 1 \in 2..C /\ n + 1 \in 1..C /\ (n + 1) - 1 = n
      BY <1>1, <2>2
    <3>2. f[n + 1] = Above(f[n])
      BY <1>9, <3>1
    <3> QED BY <1>3, <2>2, <3>1, <3>2
  <2>3. \A n \in 1..C : n \in S
    <3> HIDE DEF S, C
    <3> QED BY <1>1, <2>1, <2>2, StepByStep
  <2> QED BY <2>3
<1>11. f \in [1..C -> Generations]
  <2> HIDE DEF C
  <2> QED BY <1>7, <1>10
<1> QED BY <1>8, <1>9, <1>11

LEMMA AncestorsAre ==
  ASSUME IsFiniteSet(Content), parents \in [Content -> SUBSET Content], NEW t \in Content
  PROVE  /\ Ancestors(t) \in [1..Cardinality(Content) -> SUBSET Content]
         /\ Ancestors(t)[1] = parents[t]
         /\ \A n \in 2..Cardinality(Content) :
              Ancestors(t)[n] = UNION {parents[p] : p \in Ancestors(t)[n - 1]}
<1> DEFINE C == Cardinality(Content)
           Higher(up) == UNION {parents[p] : p \in up}
           Unfolded(g) == [n \in 1..C |-> IF n = 1 THEN parents[t] ELSE Higher(g[n - 1])]
           f == CHOOSE g : g = Unfolded(g)
           Tags == SUBSET Content
           step == [n \in 1..C |-> [up \in Tags |-> Higher(up)]]
<1>1. C \in Nat /\ C >= 1
  BY FS_CardinalityType, FS_EmptySet
<1>2. parents[t] \in Tags
  OBVIOUS
<1>3. \A up \in Tags : Higher(up) \in Tags
  OBVIOUS
<1>4. step \in [1..C -> [Tags -> Tags]]
  BY <1>3
<1>5. PICK g \in [1..C -> Tags] : Follows(g, parents[t], step, 1, C)
  <2> HIDE DEF step, C, Higher, Tags
  <2> QED BY <1>1, <1>2, <1>4, RecursionExists
<1>6. g = Unfolded(g)
  <2>1. \A n \in 1..C : n # 1 => n - 1 \in 1..C
    BY <1>1
  <2>2. \A n \in 1..C : n # 1 => step[n][g[n - 1]] = Higher(g[n - 1])
    <3> HIDE DEF C, Higher
    <3> QED BY <1>5, <2>1
  <2>3. g = [n \in 1..C |-> IF n = 1 THEN parents[t] ELSE step[n][g[n - 1]]]
    BY <1>5 DEF Follows
  <2> HIDE DEF step, C, Higher, Tags
  <2> QED BY <2>2, <2>3
<1>7. f = Unfolded(f)
  BY <1>6
<1>8. Ancestors(t) = f
  BY DEF Ancestors
<1> HIDE DEF f, Higher
<1>9. f[1] = parents[t] /\ \A n \in 2..C : f[n] = Higher(f[n - 1])
  <2> HIDE DEF C
  <2>1. 1 \in 1..C /\ \A n \in 2..C : n \in 1..C /\ n # 1
    BY <1>1
  <2> QED BY <1>7, <2>1
<1>10. \A n \in 1..C : f[n] \in SUBSET Content
  <2> DEFINE S == {n \in 1..C : f[n] \in SUBSET Content}
  <2>1. 1 \in S
    BY <1>1, <1>2, <1>9
  <2>2. ASSUME NEW n \in 1..C, n < C, n \in S PROVE n + 1 \in S
    <3>1. n + 1 \in 2..C /\ n + 1 \in 1..C /\ (n + 1) - 1 = n
      BY <1>1, <2>2
    <3>2. f[n + 1] = Higher(f[n])
      BY <1>9, <3>1
    <3>3. Higher(f[n]) \in SUBSET Content
      BY <1>3, <2>2
    <3> QED BY <3>1, <3>2, <3>3
  <2>3. \A n \in 1..C : n \in S
    <3> HIDE DEF S, C
    <3> QED BY <1>1, <2>1, <2>2, StepByStep
  <2> QED BY <2>3
<1>11. f \in [1..C -> SUBSET Content]
  <2> HIDE DEF C
  <2> QED BY <1>7, <1>10
<1> QED BY <1>8, <1>9, <1>11 DEF Higher

\* The tags below generation n, and the generation, in terms of paths.
Below(up, n) == UNION {up[k] : k \in 1..(n - 1)}
Quiet(up, speak, n) == \A k \in 1..(n - 1) : up[k] \cap speak = {}
ClimbsAlong(t, up, speak, n) ==
  /\ Quiet(up, speak, n) => /\ Climb(t)[n].seen = {t} \union Below(up, n)
                            /\ Climb(t)[n].fresh = up[n] \ Climb(t)[n].seen
  /\ \A m \in 1..(n - 1) : Quiet(up, speak, m) /\ up[m] \cap speak # {}
                             => Climb(t)[n].fresh \cap Speaking = up[m] \cap speak

LEMMA BelowGrows ==
  ASSUME NEW up, NEW n \in Nat \ {0} PROVE Below(up, n + 1) = Below(up, n) \union up[n]
<1>1. 1..((n + 1) - 1) = (1..(n - 1)) \union {n}
  OBVIOUS
<1> QED BY <1>1 DEF Below

LEMMA ClimbFollowsPaths ==
  ASSUME IsFiniteSet(Content), parents \in [Content -> SUBSET Content], NEW t \in Content
  PROVE  \A n \in 1..Cardinality(Content) : ClimbsAlong(t, Ancestors(t), Speaking \ {t}, n)
<1> DEFINE C == Cardinality(Content)
           up == Ancestors(t)
           f == Climb(t)
           speak == Speaking \ {t}
           S == {n \in 1..C : ClimbsAlong(t, up, speak, n)}
<1>1. C \in Nat /\ C >= 1
  BY FS_CardinalityType, FS_EmptySet
<1>2. /\ f \in [1..C -> Generations] /\ f[1] = Youngest(t)
      /\ \A n \in 2..C : f[n] = Above(f[n - 1])
  BY ClimbIs
<1>3. /\ up \in [1..C -> SUBSET Content] /\ up[1] = parents[t]
      /\ \A n \in 2..C : up[n] = UNION {parents[p] : p \in up[n - 1]}
  BY AncestorsAre
<1> HIDE DEF C, up, speak
<1>4. 1 \in S
  <2>1. 1..(1 - 1) = {}
    OBVIOUS
  <2>2. Below(up, 1) = {}
    BY <2>1 DEF Below
  <2>3. f[1].seen = {t} /\ f[1].fresh = up[1] \ {t}
    BY <1>2, <1>3 DEF Youngest
  <2>4. ClimbsAlong(t, up, speak, 1)
    BY <2>1, <2>2, <2>3 DEF ClimbsAlong
  <2> QED BY <1>1, <2>4
<1>5. ASSUME NEW n \in 1..C, n < C, n \in S PROVE n + 1 \in S
  <2>1. /\ n + 1 \in 2..C /\ n + 1 \in 1..C /\ (n + 1) - 1 = n /\ n \in Nat \ {0}
        /\ 1..n = (1..(n - 1)) \union {n} /\ ClimbsAlong(t, up, speak, n)
    BY <1>1, <1>5
  <2>2. f[n + 1] = Above(f[n]) /\ up[n + 1] = UNION {parents[p] : p \in up[n]}
    BY <1>2, <1>3, <2>1
  <2>3. Quiet(up, speak, n + 1) <=> Quiet(up, speak, n) /\ up[n] \cap speak = {}
    BY <2>1 DEF Quiet
  <2> DEFINE seen == f[n].seen
             fresh == f[n].fresh
  <2>4. ASSUME Quiet(up, speak, n)
        PROVE  /\ seen = {t} \union Below(up, n) /\ fresh = up[n] \ seen
               /\ fresh \cap Speaking = up[n] \cap speak
    <3>1. seen = {t} \union Below(up, n) /\ fresh = up[n] \ seen
      BY <2>1, <2>4 DEF ClimbsAlong
    <3>2. Below(up, n) \cap speak = {}
      BY <2>4 DEF Below, Quiet
    <3> QED BY <3>1, <3>2 DEF speak
  <2>5. ASSUME Quiet(up, speak, n + 1)
        PROVE  /\ f[n + 1].seen = {t} \union Below(up, n + 1)
               /\ f[n + 1].fresh = up[n + 1] \ f[n + 1].seen
    <3>1. seen = {t} \union Below(up, n) /\ fresh = up[n] \ seen /\ fresh \cap Speaking = {}
      BY <2>3, <2>4, <2>5
    <3>2. f[n + 1] = [fresh |-> (UNION {parents[p] : p \in fresh}) \ (seen \union fresh), seen |-> seen \union fresh]
      BY <2>2, <3>1 DEF Above
    <3>3. seen \union fresh = {t} \union Below(up, n + 1)
      BY <2>1, <3>1, BelowGrows
    <3>4. ASSUME NEW p \in seen PROVE parents[p] \subseteq seen \union fresh
      <4>1. CASE p = t
        <5>1. up[1] \subseteq Below(up, n + 1)
          BY <2>1 DEF Below
        <5> QED BY <1>3, <3>3, <4>1, <5>1
      <4>2. CASE p \in Below(up, n)
        <5>1. PICK k \in 1..(n - 1) : p \in up[k]
          BY <4>2 DEF Below
        <5>2. k + 1 \in 2..C /\ k + 1 \in 1..((n + 1) - 1) /\ (k + 1) - 1 = k
          BY <1>1, <2>1
        <5>3. up[k + 1] = UNION {parents[q] : q \in up[k]}
          BY <1>3, <5>2
        <5>4. parents[p] \subseteq up[k + 1]
          BY <5>1, <5>3
        <5>5. up[k + 1] \subseteq Below(up, n + 1)
          BY <5>2 DEF Below
        <5> QED BY <3>3, <5>4, <5>5
      <4> QED BY <3>1, <4>1, <4>2
    <3>5. up[n] \subseteq seen \union fresh /\ fresh \subseteq up[n]
      BY <3>1
    <3>6. (UNION {parents[p] : p \in fresh}) \ (seen \union fresh) = up[n + 1] \ (seen \union fresh)
      <4>1. ASSUME NEW x \in up[n + 1], x \notin seen \union fresh
            PROVE  \E p \in fresh : x \in parents[p]
        <5>1. PICK p \in up[n] : x \in parents[p]
          BY <2>2
        <5>2. p \notin seen
          BY <3>4, <4>1, <5>1
        <5> QED BY <3>1, <5>1, <5>2
      <4>2. ASSUME NEW x, NEW p \in fresh, x \in parents[p] PROVE x \in up[n + 1]
        BY <2>2, <3>5, <4>2
      <4> HIDE DEF seen, fresh, f
      <4> QED BY <4>1, <4>2
    <3>7. f[n + 1].seen = seen \union fresh /\ f[n + 1].fresh = (UNION {parents[p] : p \in fresh}) \ (seen \union fresh)
      BY <3>2
    <3> HIDE DEF seen, fresh, f
    <3> QED BY <3>3, <3>6, <3>7
  <2>6. ASSUME NEW m \in 1..((n + 1) - 1), Quiet(up, speak, m), up[m] \cap speak # {}
        PROVE  f[n + 1].fresh \cap Speaking = up[m] \cap speak
    <3>1. fresh \cap Speaking = up[m] \cap speak
      <4>1. CASE m = n
        BY <2>4, <2>6, <4>1
      <4>2. CASE m \in 1..(n - 1)
        BY <2>1, <2>6, <4>2 DEF ClimbsAlong
      <4> QED BY <2>1, <4>1, <4>2
    <3>2. f[n + 1] = f[n]
      BY <2>2, <2>6, <3>1 DEF Above
    <3> QED BY <3>1, <3>2
  <2>7. ClimbsAlong(t, up, speak, n + 1)
    BY <2>5, <2>6 DEF ClimbsAlong
  <2> QED BY <2>1, <2>7
<1>6. \A n \in 1..C : n \in S
  <2> HIDE DEF S
  <2> QED BY <1>1, <1>4, <1>5, StepByStep
<1> QED BY <1>6 DEF C, up, speak

\* Whom a tag inherits from: the nearest that speak, by the shortest path.
LEMMA NearestIsFound ==
  ASSUME IsFiniteSet(Content), parents \in [Content -> SUBSET Content],
         answer \in [Content -> Answer \union {Unanswered}]
  PROVE  InheritsFromNearest
<1> DEFINE C == Cardinality(Content)
<1>1. SUFFICES ASSUME NEW t \in Content
      PROVE  LET up == Ancestors(t)
                 speak == {u \in Content \ {t} : answer[u].value # 0 /\ ~answer[u].never}
                 reached == {n \in DOMAIN up : up[n] \cap speak # {}}
             IN Sources(t) = IF reached = {} THEN {} ELSE up[Min(reached)] \cap speak
  BY DEF InheritsFromNearest
<1> DEFINE up == Ancestors(t)
           speak == {u \in Content \ {t} : answer[u].value # 0 /\ ~answer[u].never}
           reached == {n \in DOMAIN up : up[n] \cap speak # {}}
<1>2. speak = Speaking \ {t}
  <2>1. ASSUME NEW u \in Content
        PROVE  answer[u].value # 0 /\ ~answer[u].never <=> answer[u] # Unanswered /\ ~answer[u].never
    <3>1. answer[u] \in Answer \/ answer[u] = Unanswered
      OBVIOUS
    <3>2. \A a \in Answer : a.value \in {1000, 0 - 1000}
      BY DEF Answer
    <3>3. \A x \in {1000, 0 - 1000} : x # 0
      OBVIOUS
    <3> QED BY <3>1, <3>2, <3>3 DEF Unanswered
  <2> QED BY <2>1 DEF Speaking, Answered
<1>3. C \in Nat /\ C >= 1
  BY FS_CardinalityType, FS_EmptySet
<1>4. DOMAIN up = 1..C
  BY AncestorsAre
<1>5. ClimbsAlong(t, up, speak, C)
  BY <1>2, <1>3, ClimbFollowsPaths
<1>6. 1..C = (1..(C - 1)) \union {C}
  BY <1>3
<1>7. Quiet(up, speak, C) => Climb(t)[C].fresh \cap Speaking = up[C] \cap speak
  <2>1. SUFFICES ASSUME Quiet(up, speak, C) PROVE Climb(t)[C].fresh \cap Speaking = up[C] \cap speak
    OBVIOUS
  <2>2. Climb(t)[C].seen = {t} \union Below(up, C) /\ Climb(t)[C].fresh = up[C] \ Climb(t)[C].seen
    BY <1>5, <2>1 DEF ClimbsAlong
  <2>3. Below(up, C) \cap speak = {}
    BY <2>1 DEF Below, Quiet
  <2> HIDE DEF C, up
  <2> QED BY <1>2, <2>2, <2>3
<1>8. Sources(t) = Climb(t)[C].fresh \cap Speaking
  BY DEF Sources
<1> HIDE DEF up, speak, C
<1>9. CASE reached = {}
  <2>1. Quiet(up, speak, C) /\ up[C] \cap speak = {}
    BY <1>4, <1>6, <1>9 DEF Quiet
  <2> QED BY <1>7, <1>8, <1>9, <2>1 DEF up, speak
<1>10. CASE reached # {}
  <2>1. reached \in SUBSET Nat
    BY <1>3, <1>4
  <2>2. PICK m \in reached : \A n \in reached : m <= n
    BY <1>10, <2>1, LeastOf
  <2>3. Min(reached) = m
    BY <2>1, <2>2 DEF Min
  <2>4. m \in 1..C /\ up[m] \cap speak # {}
    BY <1>4
  <2>5. Quiet(up, speak, m)
    <3>1. \A k \in 1..(m - 1) : k \in 1..C /\ ~(m <= k)
      BY <1>3, <2>4
    <3> QED BY <1>4, <2>2, <3>1 DEF Quiet
  <2>6. Sources(t) = up[m] \cap speak
    <3>1. CASE m = C
      BY <1>7, <1>8, <2>5, <3>1
    <3>2. CASE m \in 1..(C - 1)
      BY <1>5, <1>8, <2>4, <2>5, <3>2 DEF ClimbsAlong
    <3> QED BY <1>6, <2>4, <3>1, <3>2
  <2> QED BY <1>10, <2>3, <2>6 DEF up, speak
<1> QED BY <1>9, <1>10

-----------------------------------------------------------------------------
(* Sums over finite sets, by the values of a function.                      *)

\* What SumFunctionOnSet adds to a set's sum, given those of its subsets.
Adding(f, g, W) ==
  [s \in SUBSET W |-> IF s = {} THEN 0
                      ELSE f[CHOOSE x \in s : TRUE] + g[s \ {CHOOSE x \in s : TRUE}]]


LEMMA SubsetsAreFinite ==
  ASSUME NEW W, IsFiniteSet(W)
  PROVE  \A s \in SUBSET W : IsFiniteSet(s) /\ Cardinality(s) \in Nat /\ Cardinality(s) <= Cardinality(W)
BY FS_Subset, FS_CardinalityType

\* If whatever holds of all smaller subsets holds of a subset, it holds of all.
LEMMA SmallerFirst ==
  ASSUME NEW W, IsFiniteSet(W), NEW S,
         \A s \in SUBSET W : (\A r \in SUBSET W : Cardinality(r) < Cardinality(s) => r \in S) => s \in S
  PROVE  \A s \in SUBSET W : s \in S
<1> DEFINE wrong == {s \in SUBSET W : s \notin S}
           sizes == {Cardinality(s) : s \in wrong}
<1>1. SUFFICES ASSUME wrong # {} PROVE FALSE
  OBVIOUS
<1>2. sizes \subseteq Nat /\ sizes # {}
  BY <1>1, SubsetsAreFinite
<1>3. PICK n \in sizes : \A m \in sizes : n <= m
  <2> HIDE DEF sizes
  <2> QED BY <1>2, LeastOf
<1>4. PICK s \in wrong : n = Cardinality(s)
  BY <1>3
<1>5. ASSUME NEW r \in SUBSET W, Cardinality(r) < Cardinality(s) PROVE r \in S
  <2>1. r \notin S => Cardinality(r) \in sizes
    OBVIOUS
  <2>2. Cardinality(r) \in Nat /\ Cardinality(s) \in Nat
    BY <1>4, SubsetsAreFinite
  <2> HIDE DEF sizes, wrong
  <2> QED BY <1>3, <1>4, <1>5, <2>1, <2>2
<1> QED BY <1>4, <1>5

LEMMA TakingOne ==
  ASSUME NEW W, IsFiniteSet(W), NEW s \in SUBSET W, NEW x \in s
  PROVE  s \ {x} \in SUBSET W /\ Cardinality(s \ {x}) = Cardinality(s) - 1 /\ Cardinality(s \ {x}) < Cardinality(s)
BY SubsetsAreFinite, FS_RemoveElement

LEMMA SumsExist ==
  ASSUME NEW W, IsFiniteSet(W), NEW f, \A x \in W : f[x] \in Int
  PROVE  \E g \in [SUBSET W -> Int] : g = Adding(f, g, W)
<1> DEFINE Upto(g, n) == \A s \in SUBSET W : Cardinality(s) <= n => g[s] = Adding(f, g, W)[s]
           Reached(n) == \E g \in [SUBSET W -> Int] : Upto(g, n)
           missed == {n \in Nat : ~Reached(n)}
<1>1. \A s \in SUBSET W : IsFiniteSet(s) /\ Cardinality(s) \in Nat /\ Cardinality(s) <= Cardinality(W)
  BY SubsetsAreFinite
<1>2. \A g \in [SUBSET W -> Int] : Adding(f, g, W) \in [SUBSET W -> Int]
  <2>1. SUFFICES ASSUME NEW g \in [SUBSET W -> Int], NEW s \in SUBSET W, s # {}
                 PROVE  f[CHOOSE x \in s : TRUE] + g[s \ {CHOOSE x \in s : TRUE}] \in Int
    BY DEF Adding
  <2>2. (CHOOSE x \in s : TRUE) \in s
    BY <2>1
  <2>3. s \ {CHOOSE x \in s : TRUE} \in SUBSET W
    BY <2>1
  <2> HIDE DEF Upto
  <2> QED BY <2>1, <2>2, <2>3
<1>3. ASSUME NEW n \in Nat, NEW g \in [SUBSET W -> Int], \A s \in SUBSET W : Cardinality(s) < n => g[s] = Adding(f, g, W)[s]
      PROVE  Reached(n)
  <2> DEFINE h == Adding(f, g, W)
  <2>1. h \in [SUBSET W -> Int]
    BY <1>2
  <2>2. ASSUME NEW s \in SUBSET W, Cardinality(s) <= n PROVE h[s] = Adding(f, h, W)[s]
    <3>1. CASE s = {}
      BY <3>1 DEF Adding
    <3>2. CASE s # {}
      <4> DEFINE x == CHOOSE y \in s : TRUE
      <4>1. x \in s
        BY <3>2
      <4>2. s \ {x} \in SUBSET W
        OBVIOUS
      <4>3. Cardinality(s \ {x}) = Cardinality(s) - 1 /\ Cardinality(s) \in Nat
        BY <1>1, <4>1, FS_RemoveElement
      <4>4. h[s \ {x}] = g[s \ {x}]
        <5>1. Cardinality(s \ {x}) < n
          BY <1>3, <2>2, <4>3
        <5> QED BY <1>3, <4>2, <5>1
      <4>5. h[s] = f[x] + g[s \ {x}] /\ Adding(f, h, W)[s] = f[x] + h[s \ {x}]
        BY <3>2 DEF Adding
      <4> QED BY <4>4, <4>5
    <3> QED BY <3>1, <3>2
  <2> QED BY <2>1, <2>2
<1>4. missed = {}
  <2>1. SUFFICES ASSUME missed # {} PROVE FALSE
    OBVIOUS
  <2>2. PICK n \in missed : \A m \in missed : n <= m
    BY <2>1, LeastOf
  <2>3. n \in Nat /\ ~Reached(n)
    OBVIOUS
  <2>4. \E g \in [SUBSET W -> Int] : \A s \in SUBSET W : Cardinality(s) < n => g[s] = Adding(f, g, W)[s]
    <3>1. CASE n = 0
      <4>1. [s \in SUBSET W |-> 0] \in [SUBSET W -> Int]
        OBVIOUS
      <4>2. \A s \in SUBSET W : ~(Cardinality(s) < 0)
        BY <1>1
      <4> QED BY <3>1, <4>1, <4>2
    <3>2. CASE n # 0
      <4>1. n - 1 \in Nat /\ ~(n <= n - 1)
        BY <2>3, <3>2
      <4>2. Reached(n - 1)
        BY <2>2, <4>1
      <4>3. PICK g \in [SUBSET W -> Int] : Upto(g, n - 1)
        BY <4>2
      <4>4. \A s \in SUBSET W : Cardinality(s) < n => Cardinality(s) <= n - 1
        BY <1>1, <2>3
      <4> QED BY <4>3, <4>4
    <3> QED BY <3>1, <3>2
  <2> HIDE DEF Reached, missed
  <2> QED BY <1>3, <2>3, <2>4
<1>5. PICK g \in [SUBSET W -> Int] : Upto(g, Cardinality(W))
  <2>1. Cardinality(W) \in Nat
    BY FS_CardinalityType
  <2>2. Reached(Cardinality(W))
    BY <1>4, <2>1
  <2> QED BY <2>2
<1>6. \A s \in SUBSET W : g[s] = Adding(f, g, W)[s]
  BY <1>1, <1>5
<1>7. Adding(f, g, W) \in [SUBSET W -> Int]
  BY <1>2
<1>8. g = Adding(f, g, W)
  <2> DEFINE h == Adding(f, g, W)
  <2>1. h \in [SUBSET W -> Int] /\ \A s \in SUBSET W : g[s] = h[s]
    BY <1>6, <1>7
  <2> HIDE DEF h
  <2>2. g = h
    BY <2>1
  <2> QED BY <2>2 DEF h
<1> QED BY <1>8

\* The sums of a set's subsets depend on nothing else.
LEMMA SumsAreLocal ==
  ASSUME NEW W, IsFiniteSet(W), NEW S \in SUBSET W, NEW f, NEW e, \A x \in S : f[x] = e[x],
         NEW g, g = Adding(f, g, W), NEW h, h = Adding(e, h, S)
  PROVE  \A s \in SUBSET S : g[s] = h[s]
<1> DEFINE good == {s \in SUBSET S : g[s] = h[s]}
<1>1. IsFiniteSet(S)
  BY FS_Subset
<1>2. ASSUME NEW s \in SUBSET S, \A r \in SUBSET S : Cardinality(r) < Cardinality(s) => r \in good
      PROVE  s \in good
  <2> DEFINE x == CHOOSE y \in s : TRUE
  <2>1. g[s] = IF s = {} THEN 0 ELSE f[x] + g[s \ {x}]
    <3>1. s \in SUBSET W
      OBVIOUS
    <3> QED BY <3>1 DEF Adding
  <2>2. h[s] = IF s = {} THEN 0 ELSE e[x] + h[s \ {x}]
    BY DEF Adding
  <2>3. CASE s = {}
    BY <2>1, <2>2, <2>3
  <2>4. CASE s # {}
    <3>1. x \in s
      BY <2>4
    <3>2. s \ {x} \in good
      BY <1>1, <1>2, <3>1, TakingOne
    <3>3. f[x] = e[x]
      BY <3>1
    <3> QED BY <2>1, <2>2, <2>4, <3>2, <3>3
  <2> QED BY <2>3, <2>4
<1> QED
  <2> HIDE DEF good
  <2>1. \A s \in SUBSET S : s \in good
    BY <1>1, <1>2, SmallerFirst
  <2> QED BY <2>1 DEF good

LEMMA SumIs ==
  ASSUME NEW W, IsFiniteSet(W), NEW f, \A x \in W : f[x] \in Int, NEW g, g = Adding(f, g, W)
  PROVE  g[W] = SumFunctionOnSet(f, W)
<1> DEFINE iter == CHOOSE h : h = Adding(f, h, W)
<1>1. iter = Adding(f, iter, W)
  BY SumsExist
<1>2. SumFunctionOnSet(f, W) = iter[W]
  BY DEF SumFunctionOnSet, FoldFunctionOnSet, MapThenFoldSet, Adding
<1> HIDE DEF iter
<1> QED BY <1>1, <1>2, SumsAreLocal

LEMMA SumIsInt ==
  ASSUME NEW W, IsFiniteSet(W), NEW f, \A x \in W : f[x] \in Int
  PROVE  SumFunctionOnSet(f, W) \in Int
<1>1. PICK g \in [SUBSET W -> Int] : g = Adding(f, g, W)
  BY SumsExist
<1>2. g[W] \in Int
  OBVIOUS
<1> QED BY <1>1, <1>2, SumIs

LEMMA SumOfNothing ==
  ASSUME NEW f PROVE SumFunctionOnSet(f, {}) = 0
<1>1. IsFiniteSet({})
  BY FS_EmptySet
<1>2. PICK g : g = Adding(f, g, {})
  BY <1>1, SumsExist
<1>3. g[{}] = 0
  BY <1>2 DEF Adding
<1> QED BY <1>1, <1>2, <1>3, SumIs

LEMMA SumsAgree ==
  ASSUME NEW W, IsFiniteSet(W), NEW f, NEW e, \A x \in W : f[x] \in Int /\ f[x] = e[x]
  PROVE  SumFunctionOnSet(f, W) = SumFunctionOnSet(e, W)
<1>1. PICK g \in [SUBSET W -> Int] : g = Adding(f, g, W)
  BY SumsExist
<1>2. PICK h \in [SUBSET W -> Int] : h = Adding(e, h, W)
  BY SumsExist
<1>3. g[W] = h[W]
  BY <1>1, <1>2, SumsAreLocal
<1>4. g[W] = SumFunctionOnSet(f, W)
  BY <1>1, SumIs
<1>5. h[W] = SumFunctionOnSet(e, W)
  BY <1>2, SumIs
<1> QED BY <1>3, <1>4, <1>5

LEMMA SumWithout ==
  ASSUME NEW W, IsFiniteSet(W), NEW f, \A x \in W : f[x] \in Int, NEW x \in W
  PROVE  SumFunctionOnSet(f, W) = f[x] + SumFunctionOnSet(f, W \ {x})
<1> DEFINE Splits(s, y) == SumFunctionOnSet(f, s) = f[y] + SumFunctionOnSet(f, s \ {y})
           good == {s \in SUBSET W : \A y \in s : Splits(s, y)}
<1>1. ASSUME NEW s \in SUBSET W PROVE IsFiniteSet(s) /\ SumFunctionOnSet(f, s) \in Int
  BY FS_Subset, SumIsInt
<1>2. ASSUME NEW s \in SUBSET W, s # {} PROVE Splits(s, CHOOSE y \in s : TRUE)
  <2> DEFINE y == CHOOSE z \in s : TRUE
  <2>1. y \in s
    BY <1>2
  <2>2. PICK g \in [SUBSET s -> Int] : g = Adding(f, g, s)
    BY <1>1, SumsExist
  <2>3. g[s] = f[y] + g[s \ {y}]
    BY <1>2, <2>2 DEF Adding
  <2>4. PICK h \in [SUBSET (s \ {y}) -> Int] : h = Adding(f, h, s \ {y})
    <3>1. IsFiniteSet(s \ {y})
      BY <1>1, FS_Subset
    <3> QED BY <3>1, SumsExist
  <2>5. g[s \ {y}] = h[s \ {y}]
    <3> DEFINE rest == s \ {y}
    <3>1. rest \in SUBSET s /\ rest \in SUBSET rest /\ h = Adding(f, h, rest)
      BY <2>4
    <3> HIDE DEF rest
    <3>2. IsFiniteSet(s) /\ g = Adding(f, g, s)
      BY <1>1, <2>2
    <3>3. \A t \in SUBSET rest : g[t] = h[t]
      BY <3>1, <3>2, SumsAreLocal
    <3> QED BY <3>1, <3>3 DEF rest
  <2>6. g[s] = SumFunctionOnSet(f, s)
    BY <1>1, <2>2, SumIs
  <2>7. h[s \ {y}] = SumFunctionOnSet(f, s \ {y})
    <3>1. IsFiniteSet(s \ {y})
      BY <1>1, FS_Subset
    <3> QED BY <2>4, <3>1, SumIs
  <2> QED BY <2>3, <2>5, <2>6, <2>7
<1>3. ASSUME NEW s \in SUBSET W, \A r \in SUBSET W : Cardinality(r) < Cardinality(s) => r \in good
      PROVE  s \in good
  <2>1. SUFFICES ASSUME NEW z \in s PROVE Splits(s, z)
    OBVIOUS
  <2> DEFINE y == CHOOSE w \in s : TRUE
  <2>2. y \in s /\ Splits(s, y)
    BY <1>2
  <2> HIDE DEF y
  <2>3. CASE y = z
    BY <2>2, <2>3
  <2>4. CASE y # z
    <3>1. s \ {y} \in good /\ s \ {z} \in good
      BY <1>3, <2>2, TakingOne
    <3>2. z \in s \ {y} /\ y \in s \ {z} /\ (s \ {y}) \ {z} = (s \ {z}) \ {y}
      BY <2>2, <2>4
    <3>3. SumFunctionOnSet(f, s \ {y}) = f[z] + SumFunctionOnSet(f, (s \ {y}) \ {z})
      BY <3>1, <3>2
    <3>4. SumFunctionOnSet(f, s \ {z}) = f[y] + SumFunctionOnSet(f, (s \ {y}) \ {z})
      BY <3>1, <3>2
    <3>5. SumFunctionOnSet(f, (s \ {y}) \ {z}) \in Int /\ f[y] \in Int /\ f[z] \in Int
      BY <1>1, <2>2
    <3>6. SumFunctionOnSet(f, s) = f[y] + SumFunctionOnSet(f, s \ {y})
      BY <2>2
    <3> HIDE DEF good
    <3> QED BY <3>3, <3>4, <3>5, <3>6
  <2> QED BY <2>3, <2>4
<1>4. W \in good
  <2> HIDE DEF good
  <2> QED BY <1>3, SmallerFirst
<1> QED BY <1>4

LEMMA SumKeepsSign ==
  ASSUME NEW W, IsFiniteSet(W), NEW f, \A x \in W : f[x] \in Int
  PROVE  /\ (\A x \in W : f[x] >= 0) => SumFunctionOnSet(f, W) >= 0
         /\ (\A x \in W : f[x] <= 0) => SumFunctionOnSet(f, W) <= 0
<1> DEFINE good == {s \in SUBSET W : /\ (\A x \in W : f[x] >= 0) => SumFunctionOnSet(f, s) >= 0
                                     /\ (\A x \in W : f[x] <= 0) => SumFunctionOnSet(f, s) <= 0}
<1>1. ASSUME NEW s \in SUBSET W, \A r \in SUBSET W : Cardinality(r) < Cardinality(s) => r \in good
      PROVE  s \in good
  <2>1. CASE s = {}
    BY <2>1, SumOfNothing
  <2>2. CASE s # {}
    <3>1. PICK y \in s : TRUE
      BY <2>2
    <3>2. s \ {y} \in good
      BY <1>1, <3>1, TakingOne
    <3>3. IsFiniteSet(s) /\ IsFiniteSet(s \ {y})
      BY FS_Subset
    <3>4. SumFunctionOnSet(f, s) = f[y] + SumFunctionOnSet(f, s \ {y}) /\ SumFunctionOnSet(f, s \ {y}) \in Int /\ f[y] \in Int
      BY <3>1, <3>3, SumWithout, SumIsInt
    <3> QED BY <3>2, <3>4
  <2> QED BY <2>1, <2>2
<1>2. W \in good
  <2> HIDE DEF good
  <2> QED BY <1>1, SmallerFirst
<1> QED BY <1>2

-----------------------------------------------------------------------------
(* Affinities: what speaks about a tag points where its affinity does.      *)

Leans(x, d) == x \in Int /\ (d = "up" => x >= 0) /\ (d = "down" => x <= 0)

LEMMA QuotientLeans ==
  ASSUME NEW d, NEW a, Leans(a, d), NEW b \in Nat \ {0}
  PROVE  Leans(Quotient(a, b), d)
<1>1. a \in Int
  BY DEF Leans
<1>2. CASE a >= 0
  <2>1. a \in Nat
    BY <1>1, <1>2
  <2>2. a \div b \in Int /\ a \div b >= 0 /\ (a = 0 => a \div b = 0)
    BY <2>1
  <2> QED BY <1>1, <1>2, <2>2 DEF Leans, Quotient
<1>3. CASE ~(a >= 0)
  <2> DEFINE c == 0 - a
  <2>1. c \in Nat
    BY <1>1, <1>3
  <2>2. c \div b \in Int /\ c \div b >= 0
    BY <2>1
  <2>3. Quotient(a, b) = 0 - (c \div b)
    BY <1>3 DEF Quotient
  <2> HIDE DEF c
  <2>4. 0 - (c \div b) \in Int /\ 0 - (c \div b) <= 0
    BY <2>2
  <2> QED BY <1>1, <1>3, <2>3, <2>4 DEF Leans
<1> QED BY <1>2, <1>3

LEMMA QuotientIsInt ==
  ASSUME NEW a \in Int, NEW b \in Nat \ {0} PROVE Quotient(a, b) \in Int
<1>1. Leans(a, "any")
  BY DEF Leans
<1>2. Leans(Quotient(a, b), "any")
  BY <1>1, QuotientLeans
<1> QED BY <1>2 DEF Leans

LEMMA BoundedLeans ==
  ASSUME NEW d, NEW a, Leans(a, d) PROVE Leans(Bounded(a), d)
BY DEF Leans, Bounded

LEMMA ProductLeans ==
  ASSUME NEW d, NEW a, Leans(a, d), NEW n \in Nat PROVE Leans(a * n, d) /\ Leans(n * a, d)
<1>1. a \in Int
  BY DEF Leans
<1>2. a * n = n * a /\ a * n \in Int
  BY <1>1
<1>3. a >= 0 => a * n >= 0
  BY <1>1
<1>4. a <= 0 => a * n <= 0
  <2>1. a <= 0 => (0 - a) \in Nat
    BY <1>1
  <2>2. a <= 0 => (0 - a) * n >= 0
    BY <2>1
  <2>3. (0 - a) * n = 0 - a * n
    BY <1>1
  <2> QED BY <1>2, <2>2, <2>3
<1> QED BY <1>1, <1>2, <1>3, <1>4 DEF Leans

LEMMA SumLeans ==
  ASSUME NEW d, NEW a, Leans(a, d), NEW b, Leans(b, d) PROVE Leans(a + b, d)
BY DEF Leans

LEMMA SumsLean ==
  ASSUME NEW d, NEW W, IsFiniteSet(W), NEW f, \A x \in W : Leans(f[x], d)
  PROVE  Leans(SumFunctionOnSet(f, W), d)
<1>1. \A x \in W : f[x] \in Int
  BY DEF Leans
<1>2. SumFunctionOnSet(f, W) \in Int
  BY <1>1, SumIsInt
<1>3. /\ (\A x \in W : f[x] >= 0) => SumFunctionOnSet(f, W) >= 0
      /\ (\A x \in W : f[x] <= 0) => SumFunctionOnSet(f, W) <= 0
  BY <1>1, SumKeepsSign
<1> QED BY <1>2, <1>3 DEF Leans

TypeOKAffinities ==
  /\ parents \in [Content -> SUBSET Content]
  /\ label \in [Film -> Int]
  /\ beaten \subseteq Film \X Film
  /\ watched \subseteq Film
  /\ given \in [Content -> {0 - 1, 0, 1}]
  /\ answer \in [Content -> Answer \union {Unanswered}]

Finite == IsFiniteSet(Content) /\ IsFiniteSet(Film)

LEMMA CountsAreNat ==
  ASSUME Finite, TypeOKAffinities, NEW t
  PROVE  /\ Won(t) \in Nat /\ Lost(t) \in Nat /\ Cardinality(LabelledWith(t)) \in Nat
         /\ IsFiniteSet(LabelledWith(t)) /\ IsFiniteSet(Labelled) /\ Cardinality(Labelled) \in Nat
<1>1. IsFiniteSet(beaten)
  BY FS_Product, FS_Subset DEF Finite, TypeOKAffinities
<1>2. IsFiniteSet({p \in beaten : t \in Carries[p[1]] \ Carries[p[2]]})
  BY <1>1, FS_Subset
<1>3. IsFiniteSet({p \in beaten : t \in Carries[p[2]] \ Carries[p[1]]})
  BY <1>1, FS_Subset
<1>4. IsFiniteSet(Labelled)
  BY FS_Subset DEF Finite, Labelled
<1>5. IsFiniteSet(LabelledWith(t))
  BY <1>4, FS_Subset DEF LabelledWith
<1> QED BY <1>2, <1>3, <1>4, <1>5, FS_CardinalityType DEF Won, Lost

LEMMA LabelMeanIsInt ==
  ASSUME Finite, TypeOKAffinities PROVE LabelMean \in Int
<1>1. \A s \in Labelled : label[s] \in Int
  BY DEF Labelled, TypeOKAffinities
<1>2. SumFunctionOnSet(label, Labelled) \in Int
  BY <1>1, CountsAreNat, SumIsInt
<1>3. Labelled # {} => Cardinality(Labelled) \in Nat \ {0}
  BY CountsAreNat, FS_EmptySet
<1> QED BY <1>2, <1>3, QuotientIsInt DEF LabelMean

LEMMA SumOverAll ==
  ASSUME NEW W, NEW f, DOMAIN f = W PROVE SumFunction(f) = SumFunctionOnSet(f, W)
BY DEF SumFunction

LEMMA HeardAreInts ==
  ASSUME Finite, TypeOKAffinities, NEW t PROVE \A v \in Heard(t) : v \in Int
<1>1. \A s \in LabelledWith(t) : label[s] - LabelMean \in Int
  BY LabelMeanIsInt DEF LabelledWith, Labelled, TypeOKAffinities
<1> QED BY <1>1 DEF Heard

\* Won and lost recommendations point the way of what they say.
LEMMA PairsLean ==
  ASSUME Finite, TypeOKAffinities, NEW t, NEW d, \A v \in Heard(t) : Leans(v, d)
  PROVE  /\ Leans(Won(t) - Lost(t), d)
         /\ Won(t) + Lost(t) > 0 => Heard(t) # {}
<1> DEFINE wins == {p \in beaten : t \in Carries[p[1]] \ Carries[p[2]]}
           losses == {p \in beaten : t \in Carries[p[2]] \ Carries[p[1]]}
<1>1. Won(t) = Cardinality(wins) /\ Lost(t) = Cardinality(losses)
  BY DEF Won, Lost
<1>2. wins # {} => 1 \in Heard(t)
  BY DEF Heard
<1>3. losses # {} => 0 - 1 \in Heard(t)
  BY DEF Heard
<1>4. Won(t) \in Nat /\ Lost(t) \in Nat
  BY CountsAreNat
<1>5. d = "up" => losses = {}
  BY <1>3 DEF Leans
<1>6. d = "down" => wins = {}
  BY <1>2 DEF Leans
<1>7. (wins = {} => Won(t) = 0) /\ (losses = {} => Lost(t) = 0)
  BY <1>1, FS_EmptySet
<1> HIDE DEF wins, losses
<1>8. (d = "up" => Lost(t) = 0) /\ (d = "down" => Won(t) = 0)
  BY <1>5, <1>6, <1>7
<1>9. Won(t) + Lost(t) > 0 => wins # {} \/ losses # {}
  BY <1>4, <1>7
<1> QED BY <1>2, <1>3, <1>4, <1>8, <1>9 DEF Leans

LEMMA LearnedLeans ==
  ASSUME Finite, TypeOKAffinities, NEW t, NEW d, \A v \in Heard(t) : Leans(v, d)
  PROVE  /\ Learned(t).support \in Nat /\ Leans(Learned(t).numerator, d)
         /\ Learned(t).support > 0 => Heard(t) # {}
<1> DEFINE W == LabelledWith(t)
           f == [s \in W |-> LabelWeight * (label[s] - LabelMean)]
           sum == SumFunction(f)
           count == Cardinality(W)
<1>1. /\ sum = SumFunctionOnSet(f, W) /\ IsFiniteSet(W) /\ count \in Nat
      /\ \A s \in W : label[s] - LabelMean \in Int
  
  <2>1. \A s \in W : label[s] - LabelMean \in Int
    BY LabelMeanIsInt DEF LabelledWith, Labelled, TypeOKAffinities
  <2>2. DOMAIN f = W
    OBVIOUS
  <2>3. sum = SumFunctionOnSet(f, W)
    <3> HIDE DEF f, W
    <3> QED BY <2>2, SumOverAll
  <2> QED BY <2>1, <2>3, CountsAreNat
<1>2. \A s \in W : Leans(label[s] - LabelMean, d)
  BY DEF Heard
<1>3. \A s \in W : Leans(LabelWeight * (label[s] - LabelMean), d)
  <2>1. LabelWeight \in Nat
    BY DEF LabelWeight
  <2> HIDE DEF W
  <2> QED BY <1>2, <2>1, ProductLeans
<1>4. Leans(sum, d)
  <2>1. \A s \in W : Leans(f[s], d)
    BY <1>3
  <2> HIDE DEF f, W, sum
  <2> QED BY <1>1, <2>1, SumsLean
<1>5. W # {} => Heard(t) # {}
  BY DEF Heard
<1>6. W = {} => count = 0
  BY FS_EmptySet
<1>7. Won(t) \in Nat /\ Lost(t) \in Nat
  BY CountsAreNat
<1>8. Leans(Won(t) - Lost(t), d) /\ (Won(t) + Lost(t) > 0 => Heard(t) # {})
  BY PairsLean
<1>9. Learned(t) = [support |-> 6 * count + (Won(t) + Lost(t)), numerator |-> sum + 1000 * (Won(t) - Lost(t))]
  <2>1. SkipWeight * (Won(t) + Lost(t)) = Won(t) + Lost(t) /\ SkipWeight * 1000 * (Won(t) - Lost(t)) = 1000 * (Won(t) - Lost(t))
    BY <1>7 DEF SkipWeight
  <2>2. Learned(t) = [support |-> LabelWeight * count + SkipWeight * (Won(t) + Lost(t)),
                      numerator |-> sum + SkipWeight * 1000 * (Won(t) - Lost(t))]
    BY DEF Learned
  <2> HIDE DEF count, sum
  <2> QED BY <2>1, <2>2 DEF LabelWeight
<1> HIDE DEF sum, count, W
<1>10. Leans(sum + 1000 * (Won(t) - Lost(t)), d)
  <2>1. Leans(1000 * (Won(t) - Lost(t)), d)
    BY <1>8, ProductLeans
  <2> QED BY <1>4, <2>1, SumLeans
<1>11. 6 * count + (Won(t) + Lost(t)) \in Nat
  BY <1>1, <1>7
<1>12. 6 * count + (Won(t) + Lost(t)) > 0 => Heard(t) # {}
  BY <1>1, <1>5, <1>6, <1>7, <1>8
<1> QED BY <1>9, <1>10, <1>11, <1>12

\* A mean weighted by what is above zero leans as its terms do.
LEMMA SiblingPriorLeans ==
  ASSUME Finite, TypeOKAffinities, NEW t, NEW d, \A u \in Siblings(t) : \A v \in Heard(u) : Leans(v, d)
  PROVE  Leans(SiblingPrior(t), d)
<1> DEFINE W == Siblings(t)
           affinity(u) == Quotient(Learned(u).numerator, AffinityPrior + Learned(u).support)
           terms == [u \in W |-> affinity(u) * Learned(u).support]
           weights == [u \in W |-> Learned(u).support]
<1>1. IsFiniteSet(W)
  BY FS_Subset DEF Siblings, Finite
<1>2. \A u \in W : Learned(u).support \in Nat /\ Learned(u).support > 0 /\ Leans(Learned(u).numerator, d)
  <2>1. \A u \in W : Learned(u).support > 0
    BY DEF Siblings
  <2> QED BY <2>1, LearnedLeans
<1>3. \A u \in W : Leans(affinity(u) * Learned(u).support, d)
  <2>1. SUFFICES ASSUME NEW u \in W PROVE Leans(affinity(u) * Learned(u).support, d)
    OBVIOUS
  <2>2. AffinityPrior + Learned(u).support \in Nat \ {0}
    BY <1>2 DEF AffinityPrior
  <2>3. Leans(affinity(u), d)
    <3> HIDE DEF W
    <3> QED BY <1>2, <2>1, <2>2, QuotientLeans
  <2> HIDE DEF affinity, W
  <2> QED BY <1>2, <2>3, ProductLeans
<1>4. SumFunction(terms) = SumFunctionOnSet(terms, W) /\ SumFunction(weights) = SumFunctionOnSet(weights, W)
  <2>1. DOMAIN terms = W /\ DOMAIN weights = W
    OBVIOUS
  <2> HIDE DEF terms, weights, W
  <2> QED BY <2>1, SumOverAll
<1>5. Leans(SumFunctionOnSet(terms, W), d)
  <2>1. \A u \in W : Leans(terms[u], d)
    BY <1>3
  <2> HIDE DEF terms, W
  <2> QED BY <1>1, <2>1, SumsLean
<1>6. W # {} => SumFunctionOnSet(weights, W) \in Nat \ {0}
  <2>1. SUFFICES ASSUME NEW u \in W PROVE SumFunctionOnSet(weights, W) \in Nat \ {0}
    OBVIOUS
  <2>2. \A x \in W : weights[x] \in Int /\ weights[x] > 0
    BY <1>2
  <2>3. IsFiniteSet(W \ {u})
    BY <1>1, FS_Subset
  <2> HIDE DEF weights, W
  <2>4. SumFunctionOnSet(weights, W) = weights[u] + SumFunctionOnSet(weights, W \ {u})
    BY <1>1, <2>1, <2>2, SumWithout
  <2>5. SumFunctionOnSet(weights, W \ {u}) \in Int /\ SumFunctionOnSet(weights, W \ {u}) >= 0
    <3>1. \A x \in W \ {u} : weights[x] \in Int /\ weights[x] >= 0
      BY <2>2
    <3> QED BY <2>3, <3>1, SumIsInt, SumKeepsSign
  <2>6. weights[u] \in Int /\ weights[u] > 0
    BY <2>1, <2>2
  <2> QED BY <2>4, <2>5, <2>6
<1>7. SiblingPrior(t) = IF W = {} THEN 0 ELSE Quotient(SumFunctionOnSet(terms, W), SumFunctionOnSet(weights, W))
  BY <1>4 DEF SiblingPrior
<1> HIDE DEF terms, weights, W
<1> QED
  <2>1. CASE W = {}
    BY <1>7, <2>1 DEF Leans
  <2>2. CASE W # {}
    BY <1>5, <1>6, <1>7, <2>2, QuotientLeans
  <2> QED BY <2>1, <2>2

LEMMA SquaresAreInOrder ==
  ASSUME NEW x \in Nat, NEW y \in Nat
  PROVE  /\ x >= y => x * x - y * y >= 0
         /\ x <= y => x * x - y * y <= 0
         /\ x * x - y * y \in Int
         /\ y > 0 => x * x + y * y \in Nat \ {0}
<1>1. x * x - y * y = (x - y) * (x + y)
  OBVIOUS
<1>2. ASSUME x >= y PROVE x * x - y * y >= 0
  <2>1. x - y \in Nat /\ x + y \in Nat
    BY <1>2
  <2>2. (x - y) * (x + y) >= 0
    BY <2>1
  <2> QED BY <1>1, <2>2
<1>3. ASSUME x <= y PROVE x * x - y * y <= 0
  <2>1. y - x \in Nat /\ x + y \in Nat
    BY <1>3
  <2>2. (y - x) * (x + y) >= 0
    BY <2>1
  <2>3. (y - x) * (x + y) = y * y - x * x
    OBVIOUS
  <2> QED BY <2>2, <2>3
<1>4. y > 0 => y * y > 0
  OBVIOUS
<1> QED BY <1>2, <1>3, <1>4

\* What is watched more, or less, than it is there says so.
LEMMA WatchLiftLeans ==
  ASSUME Finite, TypeOKAffinities, NEW t, NEW d,
         Leans(Cardinality(InLibrary(t) \cap watched) * Cardinality(Film)
               - Cardinality(watched) * Cardinality(InLibrary(t)), d)
  PROVE  WatchLift(t).support \in Nat /\ Leans(WatchLift(t).numerator, d)
<1> DEFINE total == Cardinality(Film)
           all == Cardinality(InLibrary(t))
           chosen == Cardinality(InLibrary(t) \cap watched)
           seen == Cardinality(watched)
           x == chosen * total + Shrink * all
           y == (seen + Shrink) * all
           mass == Max({chosen, Quotient(seen * all, total)})
           support == Quotient(20 * mass, mass + Shrink)
<1>1. total \in Nat /\ all \in Nat /\ chosen \in Nat /\ seen \in Nat
  <2>1. IsFiniteSet(Film) /\ InLibrary(t) \subseteq Film /\ watched \subseteq Film
    BY DEF Finite, TypeOKAffinities, InLibrary
  <2>2. IsFiniteSet(InLibrary(t)) /\ IsFiniteSet(InLibrary(t) \cap watched) /\ IsFiniteSet(watched)
    BY <2>1, FS_Subset
  <2> QED BY <2>1, <2>2, FS_CardinalityType
<1>2. all # 0 => total > 0
  <2>1. InLibrary(t) \subseteq Film /\ IsFiniteSet(Film)
    BY DEF Finite, InLibrary
  <2>2. all <= total
    BY <2>1, FS_Subset
  <2> HIDE DEF all, total
  <2> QED BY <1>1, <2>2
<1>3. Leans(chosen * total - seen * all, d)
  OBVIOUS
<1>4. WatchLift(t) = IF watched = {} \/ all = 0 THEN [support |-> 0, numerator |-> 0]
                     ELSE [support |-> support, numerator |-> support * Quotient(1000 * (x * x - y * y), x * x + y * y)]
  BY DEF WatchLift
<1>5. CASE watched = {} \/ all = 0
  BY <1>4, <1>5 DEF Leans
<1>6. CASE ~(watched = {} \/ all = 0)
  <2>0. /\ all > 0 /\ total \in Nat \ {0}
    BY <1>1, <1>2, <1>6
  <2>1. x \in Nat /\ y \in Nat /\ y > 0 /\ x - y = chosen * total - seen * all
    <3> HIDE DEF total, all, chosen, seen
    <3>1. chosen * total \in Nat /\ seen * all \in Nat /\ 10 * all \in Nat /\ 10 * all > 0
      BY <1>1, <2>0
    <3>2. (seen + 10) * all = seen * all + 10 * all
      BY <1>1
    <3> QED BY <3>1, <3>2 DEF Shrink
  <2>2. Leans(x * x - y * y, d) /\ x * x + y * y \in Nat \ {0}
    <3> HIDE DEF total, all, chosen, seen, x, y
    <3>1. /\ x >= y => x * x - y * y >= 0
          /\ x <= y => x * x - y * y <= 0
          /\ x * x - y * y \in Int
          /\ x * x + y * y \in Nat \ {0}
      BY <2>1, SquaresAreInOrder
    <3>2. (d = "up" => x >= y) /\ (d = "down" => x <= y)
      BY <1>3, <2>1 DEF Leans
    <3> QED BY <3>1, <3>2 DEF Leans
  <2>3. mass \in Nat
    <3> DEFINE q == Quotient(seen * all, total)
    <3>1. Leans(seen * all, "up")
      <4> HIDE DEF seen, all
      <4>1. seen * all \in Nat
        BY <1>1
      <4> QED BY <4>1 DEF Leans
    <3>2. Leans(q, "up")
      <4> HIDE DEF seen, all, total
      <4> QED BY <2>0, <3>1, QuotientLeans
    <3>3. q \in Nat
      <4> HIDE DEF q
      <4> QED BY <3>2 DEF Leans
    <3> HIDE DEF q, chosen
    <3>4. \E z \in {chosen, q} : \A w \in {chosen, q} : z >= w
      BY <1>1, <3>3
    <3>5. Max({chosen, q}) \in {chosen, q}
      BY <3>4 DEF Max
    <3> QED BY <1>1, <3>3, <3>5 DEF q
  <2>4. support \in Nat
    <3> HIDE DEF mass
    <3>1. Leans(20 * mass, "up") /\ mass + Shrink \in Nat \ {0}
      BY <2>3 DEF Leans, Shrink
    <3>2. Leans(support, "up")
      BY <3>1, QuotientLeans
    <3> QED BY <3>2 DEF Leans
  <2> HIDE DEF x, y, support
  <2>5. Leans(1000 * (x * x - y * y), d)
    BY <2>2, ProductLeans
  <2>6. Leans(Quotient(1000 * (x * x - y * y), x * x + y * y), d)
    BY <2>2, <2>5, QuotientLeans
  <2>7. Leans(support * Quotient(1000 * (x * x - y * y), x * x + y * y), d)
    BY <2>4, <2>6, ProductLeans
  <2> QED BY <1>4, <1>6, <2>4, <2>7
<1> QED BY <1>5, <1>6

LEMMA SceneReasonLeans ==
  ASSUME TypeOKAffinities, NEW t, NEW d, Leans(given[t], d)
  PROVE  SceneReason(t).support \in Nat /\ Leans(SceneReason(t).numerator, d)
<1>1. Leans(20000 * given[t], d)
  BY ProductLeans
<1>2. ReasonSupport * 1000 * given[t] = 20000 * given[t]
  BY DEF ReasonSupport, Leans
<1>3. CASE given[t] = 0 \/ InLibrary(t) = {}
  BY <1>3 DEF SceneReason, Leans
<1>4. CASE ~(given[t] = 0 \/ InLibrary(t) = {})
  BY <1>1, <1>2, <1>4 DEF SceneReason, ReasonSupport
<1> QED BY <1>3, <1>4

LEMMA BeliefLeans ==
  ASSUME Finite, TypeOKAffinities, NEW t, NEW d, \A v \in Heard(t) : Leans(v, d),
         Heard(t) # {} => \A u \in Siblings(t) : \A v \in Heard(u) : Leans(v, d),
         Leans(Cardinality(InLibrary(t) \cap watched) * Cardinality(Film)
               - Cardinality(watched) * Cardinality(InLibrary(t)), d),
         Leans(given[t], d)
  PROVE  Belief(t).support \in Nat /\ Leans(Belief(t).affinity, d)
<1> DEFINE support == Learned(t).support + WatchLift(t).support + SceneReason(t).support
           numerator == Learned(t).numerator + WatchLift(t).numerator + SceneReason(t).numerator
           prior == IF Learned(t).support > 0 THEN AffinityPrior * SiblingPrior(t) ELSE 0
<1>1. /\ Learned(t).support \in Nat /\ Leans(Learned(t).numerator, d)
      /\ Learned(t).support > 0 => Heard(t) # {}
  BY LearnedLeans
<1>2. WatchLift(t).support \in Nat /\ Leans(WatchLift(t).numerator, d)
  BY WatchLiftLeans
<1>3. SceneReason(t).support \in Nat /\ Leans(SceneReason(t).numerator, d)
  BY SceneReasonLeans
<1>4. support \in Nat /\ AffinityPrior + support \in Nat \ {0}
  BY <1>1, <1>2, <1>3 DEF AffinityPrior
<1>5. Leans(numerator, d)
  BY <1>1, <1>2, <1>3, SumLeans
<1>6. Leans(prior, d)
  <2>1. CASE Learned(t).support > 0
    <3>1. Leans(SiblingPrior(t), d)
      BY <1>1, <2>1, SiblingPriorLeans
    <3>2. AffinityPrior \in Nat
      BY DEF AffinityPrior
    <3> QED BY <2>1, <3>1, <3>2, ProductLeans
  <2>2. CASE ~(Learned(t).support > 0)
    BY <2>2 DEF Leans
  <2> QED BY <2>1, <2>2
<1>7. Belief(t) = [support |-> support, affinity |-> Bounded(Quotient(numerator + prior, AffinityPrior + support))]
  BY DEF Belief
<1> HIDE DEF support, numerator, prior
<1>8. Leans(Quotient(numerator + prior, AffinityPrior + support), d)
  BY <1>4, <1>5, <1>6, SumLeans, QuotientLeans
<1>9. Leans(Bounded(Quotient(numerator + prior, AffinityPrior + support)), d)
  BY <1>8, BoundedLeans
<1> QED BY <1>4, <1>7, <1>9

LEMMA BlendedLeans ==
  ASSUME NEW d, NEW belief, belief.support \in Nat, Leans(belief.affinity, d),
         NEW value, Leans(value, d), NEW weight \in Nat \ {0}
  PROVE  Leans(Blended(belief, value, weight).affinity, d)
<1>1. Leans(belief.affinity * belief.support, d) /\ Leans(value * weight, d)
  BY ProductLeans
<1>2. belief.support + weight \in Nat \ {0}
  OBVIOUS
<1>3. Leans(Quotient(belief.affinity * belief.support + value * weight, belief.support + weight), d)
  BY <1>1, <1>2, SumLeans, QuotientLeans
<1>4. Leans(Bounded(Quotient(belief.affinity * belief.support + value * weight, belief.support + weight)), d)
  BY <1>3, BoundedLeans
<1> QED BY <1>4 DEF Blended

LEMMA InheritedLeans ==
  ASSUME Finite, TypeOKAffinities, NEW t, NEW d, Sources(t) # {}, \A u \in Sources(t) : Leans(answer[u].value, d)
  PROVE  Leans(Inherited(t), d)
<1> DEFINE W == Sources(t)
           values == [u \in W |-> answer[u].value]
<1>1. IsFiniteSet(W)
  BY FS_Subset DEF Sources, Speaking, Answered, Finite
<1>2. Cardinality(W) \in Nat \ {0}
  BY <1>1, FS_CardinalityType, FS_EmptySet
<1>3. DOMAIN values = W /\ \A u \in W : Leans(values[u], d)
  OBVIOUS
<1>4. Inherited(t) = Quotient(SumFunction(values), Cardinality(W))
  BY DEF Inherited
<1> HIDE DEF values, W
<1>5. Leans(SumFunctionOnSet(values, W), d)
  BY <1>1, <1>3, SumsLean
<1>6. SumFunction(values) = SumFunctionOnSet(values, W)
  BY <1>3, SumOverAll
<1> QED BY <1>2, <1>4, <1>5, <1>6, QuotientLeans

LEMMA AffinityLeans ==
  ASSUME Finite, TypeOKAffinities, NEW t \in Content, NEW d, \A v \in Voices(t) : Leans(v, d)
  PROVE  Leans(Affinity(t), d)
<1>1. /\ \A v \in Heard(t) : Leans(v, d)
      /\ Heard(t) # {} => \A u \in Siblings(t) : \A v \in Heard(u) : Leans(v, d)
      /\ Leans(Cardinality(InLibrary(t) \cap watched) * Cardinality(Film)
               - Cardinality(watched) * Cardinality(InLibrary(t)), d)
      /\ Leans(given[t], d) /\ Leans(answer[t].value, d)
      /\ Inherits(t) => \A u \in Sources(t) : Leans(answer[u].value, d)
  BY DEF Voices
<1>2. Belief(t).support \in Nat /\ Leans(Belief(t).affinity, d)
  BY <1>1, BeliefLeans
<1>3. CASE t \in Answered
  <2>1. DirectSupport \in Nat \ {0}
    BY DEF DirectSupport
  <2> QED BY <1>1, <1>2, <1>3, <2>1, BlendedLeans DEF Affinity
<1>4. CASE t \notin Answered /\ Inherits(t)
  <2>1. InheritedSupport \in Nat \ {0}
    BY DEF InheritedSupport
  <2>2. Leans(Inherited(t), d)
    BY <1>1, <1>4, InheritedLeans DEF Inherits
  <2> QED BY <1>2, <1>4, <2>1, <2>2, BlendedLeans DEF Affinity
<1>5. CASE t \notin Answered /\ ~Inherits(t)
  BY <1>2, <1>5 DEF Affinity
<1> QED BY <1>3, <1>4, <1>5

LEMMA VoicesAreInts ==
  ASSUME Finite, TypeOKAffinities, NEW t \in Content PROVE \A v \in Voices(t) : v \in Int
<1>1. \A u : \A v \in Heard(u) : v \in Int
  BY HeardAreInts
<1>2. Cardinality(InLibrary(t) \cap watched) * Cardinality(Film) - Cardinality(watched) * Cardinality(InLibrary(t)) \in Int
  <2>1. IsFiniteSet(Film) /\ InLibrary(t) \subseteq Film /\ watched \subseteq Film
    BY DEF Finite, TypeOKAffinities, InLibrary
  <2>2. IsFiniteSet(InLibrary(t)) /\ IsFiniteSet(InLibrary(t) \cap watched) /\ IsFiniteSet(watched)
    BY <2>1, FS_Subset
  <2>3. /\ Cardinality(InLibrary(t) \cap watched) \in Nat /\ Cardinality(Film) \in Nat
        /\ Cardinality(watched) \in Nat /\ Cardinality(InLibrary(t)) \in Nat
    BY <2>1, <2>2, FS_CardinalityType
  <2> QED BY <2>3
<1>3. \A u \in Content : answer[u].value \in Int
  <2>1. \A a \in Answer \union {Unanswered} : a.value \in Int
    BY DEF Answer, Unanswered
  <2> QED BY <2>1 DEF TypeOKAffinities
<1>4. given[t] \in Int
  <2>1. \A g \in {0 - 1, 0, 1} : g \in Int
    OBVIOUS
  <2> QED BY <2>1 DEF TypeOKAffinities
<1>5. Sources(t) \subseteq Content
  BY DEF Sources, Speaking, Answered
<1> QED BY <1>1, <1>2, <1>3, <1>4, <1>5 DEF Voices

LEMMA VoicesAreFollowed ==
  ASSUME Finite, TypeOKAffinities PROVE AffinityFollowsItsVoices
<1>1. SUFFICES ASSUME NEW t \in Content
               PROVE  /\ (\A v \in Voices(t) : v >= 0) => Affinity(t) >= 0
                      /\ (\A v \in Voices(t) : v <= 0) => Affinity(t) <= 0
  BY DEF AffinityFollowsItsVoices
<1>2. \A v \in Voices(t) : v \in Int
  BY VoicesAreInts
<1>3. ASSUME \A v \in Voices(t) : v >= 0 PROVE Affinity(t) >= 0
  <2>1. \A v \in Voices(t) : Leans(v, "up")
    BY <1>2, <1>3 DEF Leans
  <2>2. Leans(Affinity(t), "up")
    BY <2>1, AffinityLeans
  <2> QED BY <2>2 DEF Leans
<1>4. ASSUME \A v \in Voices(t) : v <= 0 PROVE Affinity(t) <= 0
  <2>1. \A v \in Voices(t) : Leans(v, "down")
    BY <1>2, <1>4 DEF Leans
  <2>2. Leans(Affinity(t), "down")
    BY <2>1, AffinityLeans
  <2> QED BY <2>2 DEF Leans
<1> QED BY <1>3, <1>4

-----------------------------------------------------------------------------
(* Quotients, by their cross products.                                      *)

LEMMA ScaleUp ==
  ASSUME NEW a \in Int, NEW b \in Int, a <= b, NEW n \in Nat PROVE a * n <= b * n
<1>1. b - a \in Nat
  OBVIOUS
<1>2. (b - a) * n >= 0
  BY <1>1
<1>3. (b - a) * n = b * n - a * n
  OBVIOUS
<1> QED BY <1>2, <1>3

LEMMA ScaleDown ==
  ASSUME NEW a \in Int, NEW b \in Int, NEW n \in Nat \ {0}, a * n <= b * n PROVE a <= b
<1>1. SUFFICES ASSUME b < a PROVE FALSE
  OBVIOUS
<1>2. a - b \in Nat \ {0}
  BY <1>1
<1>3. (a - b) * n > 0
  BY <1>2
<1>4. (a - b) * n = a * n - b * n
  OBVIOUS
<1> QED BY <1>3, <1>4

LEMMA SlopesOrdered ==
  ASSUME NEW t1 \in Int, NEW w1 \in Nat, NEW t2 \in Int, NEW w2 \in Nat \ {0}, NEW t3 \in Int, NEW w3 \in Nat,
         t1 * w2 <= t2 * w1, t2 * w3 <= t3 * w2
  PROVE  t1 * w3 <= t3 * w1
<1>1. (t1 * w2) * w3 <= (t2 * w1) * w3
  <2>1. t1 * w2 \in Int /\ t2 * w1 \in Int
    OBVIOUS
  <2> QED BY <2>1, ScaleUp
<1>2. (t2 * w3) * w1 <= (t3 * w2) * w1
  <2>1. t2 * w3 \in Int /\ t3 * w2 \in Int
    OBVIOUS
  <2> QED BY <2>1, ScaleUp
<1>3. /\ (t1 * w2) * w3 = (t1 * w3) * w2 /\ (t2 * w1) * w3 = (t2 * w3) * w1
      /\ (t3 * w2) * w1 = (t3 * w1) * w2
  OBVIOUS
<1>4. (t1 * w3) * w2 <= (t3 * w1) * w2
  <2>1. (t1 * w2) * w3 \in Int /\ (t2 * w1) * w3 \in Int /\ (t3 * w2) * w1 \in Int
    OBVIOUS
  <2> QED BY <1>1, <1>2, <1>3, <2>1
<1>5. t1 * w3 \in Int /\ t3 * w1 \in Int
  OBVIOUS
<1> QED BY <1>4, <1>5, ScaleDown

LEMMA MeansOrdered ==
  ASSUME NEW t1 \in Int, NEW w1 \in Nat \ {0}, NEW t2 \in Int, NEW w2 \in Nat \ {0}, t1 * w2 <= t2 * w1
  PROVE  /\ (100 * t1) \div w1 \in Int /\ (100 * t2) \div w2 \in Int
         /\ (100 * t1) \div w1 <= (100 * t2) \div w2
<1> DEFINE a1 == 100 * t1
           a2 == 100 * t2
           q1 == a1 \div w1
           q2 == a2 \div w2
<1>1. a1 \in Int /\ a2 \in Int /\ a1 * w2 <= a2 * w1
  <2>1. t1 * w2 \in Int /\ t2 * w1 \in Int /\ a1 * w2 = 100 * (t1 * w2) /\ a2 * w1 = 100 * (t2 * w1)
    OBVIOUS
  <2> QED BY <2>1
<1> HIDE DEF a1, a2
<1>2. q1 \in Int /\ q2 \in Int /\ q1 * w1 <= a1 /\ a2 < (q2 + 1) * w2
  BY <1>1
<1> HIDE DEF q1, q2
<1>3. SUFFICES ASSUME q2 + 1 <= q1 PROVE FALSE
  BY <1>2 DEF q1, q2, a1, a2
<1>4. (q2 + 1) * w1 <= q1 * w1
  BY <1>2, <1>3, ScaleUp
<1>5. (q2 + 1) * w1 <= a1
  <2>1. (q2 + 1) * w1 \in Int /\ q1 * w1 \in Int
    BY <1>2
  <2> QED BY <1>1, <1>2, <1>4, <2>1
<1>6. ((q2 + 1) * w1) * w2 <= a1 * w2
  <2>1. (q2 + 1) * w1 \in Int
    BY <1>2
  <2> QED BY <1>1, <1>5, <2>1, ScaleUp
<1>7. ((q2 + 1) * w1) * w2 = ((q2 + 1) * w2) * w1
  BY <1>2
<1>8. ((q2 + 1) * w2) * w1 <= a2 * w1
  <2>1. ((q2 + 1) * w2) * w1 \in Int /\ a1 * w2 \in Int /\ a2 * w1 \in Int
    BY <1>1, <1>2
  <2> QED BY <1>1, <1>6, <1>7, <2>1
<1>9. (q2 + 1) * w2 <= a2
  <2>1. (q2 + 1) * w2 \in Int
    BY <1>2
  <2> QED BY <1>1, <1>8, <2>1, ScaleDown
<1>10. (q2 + 1) * w2 \in Int
  BY <1>2
<1> QED BY <1>1, <1>2, <1>9, <1>10

-----------------------------------------------------------------------------
(* The blocks of the calibration, drawn as chords between the points of its *)
(* running totals: `pt` of the totals and `pw` of the weights.              *)

Blocks == [total : Int, weight : Nat \ {0}, first : Int, last : Int]

Running(pt, pw) ==
  /\ pt \in [0..11 -> Int] /\ pw \in [0..11 -> Int]
  /\ \A a, b \in 0..11 : a <= b => pw[a] <= pw[b]

Spans(x, pt, pw) ==
  /\ x.first \in 0..10 /\ x.last \in 0..10 /\ x.first <= x.last
  /\ x.total = pt[x.last + 1] - pt[x.first]
  /\ x.weight = pw[x.last + 1] - pw[x.first]

\* A point is not below the line through a block.
NotUnder(x, b, pt, pw) == x.total * (pw[b] - pw[x.first]) <= (pt[b] - pt[x.first]) * x.weight

Chord(x, pt, pw) ==
  /\ x \in Blocks /\ Spans(x, pt, pw)
  /\ \A b \in x.first..(x.last + 1) : NotUnder(x, b, pt, pw)

LEMMA PooledIsChord ==
  ASSUME NEW pt, NEW pw, Running(pt, pw), NEW x, Chord(x, pt, pw), NEW y, Chord(y, pt, pw),
         y.first = x.last + 1, NotBelow(x, y)
  PROVE  /\ Chord(Pool(x, y), pt, pw) /\ Pool(x, y).first = x.first /\ Pool(x, y).last = y.last
<1> DEFINE z == Pool(x, y)
<1>1. /\ x.total \in Int /\ x.weight \in Nat \ {0} /\ y.total \in Int /\ y.weight \in Nat \ {0}
      /\ x.first \in 0..10 /\ x.last \in 0..10 /\ y.first \in 0..10 /\ y.last \in 0..10
      /\ x.first <= x.last /\ y.first <= y.last
  BY DEF Chord, Blocks, Spans
<1>2. /\ z.total = x.total + y.total /\ z.weight = x.weight + y.weight
      /\ z.first = x.first /\ z.last = y.last
      /\ z \in Blocks
  <2>1. Least(x.first, y.first) = x.first /\ Greatest(x.last, y.last) = y.last
    BY <1>1 DEF Least, Greatest
  <2>2. z = [total |-> x.total + y.total, weight |-> x.weight + y.weight, first |-> x.first, last |-> y.last]
    BY <2>1 DEF Pool
  <2>3. x.weight + y.weight \in Nat \ {0} /\ x.total + y.total \in Int
    BY <1>1
  <2> HIDE DEF z
  <2> QED BY <1>1, <2>2, <2>3 DEF Blocks
<1> HIDE DEF z
<1>3. /\ pt[x.first] \in Int /\ pt[x.last + 1] \in Int /\ pt[y.last + 1] \in Int
      /\ pw[x.first] \in Int /\ pw[x.last + 1] \in Int /\ pw[y.last + 1] \in Int
  <2>1. x.first \in 0..11 /\ x.last + 1 \in 0..11 /\ y.last + 1 \in 0..11
    BY <1>1
  <2> QED BY <2>1 DEF Running
<1>4. /\ x.total = pt[x.last + 1] - pt[x.first] /\ x.weight = pw[x.last + 1] - pw[x.first]
      /\ y.total = pt[y.last + 1] - pt[x.last + 1] /\ y.weight = pw[y.last + 1] - pw[x.last + 1]
  BY DEF Chord, Spans
<1>5. Spans(z, pt, pw)
  BY <1>1, <1>2, <1>3, <1>4 DEF Spans
<1>6. y.total * x.weight <= x.total * y.weight
  <2>1. y.total * x.weight \in Int /\ x.total * y.weight \in Int
    BY <1>1
  <2> QED BY <2>1 DEF NotBelow
<1>7. ASSUME NEW b \in x.first..(y.last + 1) PROVE NotUnder(z, b, pt, pw)
  <2>1. b \in 0..11 /\ pt[b] \in Int /\ pw[b] \in Int
    <3>1. b \in 0..11
      BY <1>1
    <3> QED BY <3>1 DEF Running
  <2>2. CASE b \in x.first..(x.last + 1)
    <3> DEFINE u == pt[b] - pt[x.first]
               v == pw[b] - pw[x.first]
    <3>1. u \in Int /\ v \in Nat
      <4>1. x.first \in 0..11 /\ x.first <= b
        BY <1>1, <2>2
      <4>2. pw[x.first] <= pw[b]
        BY <2>1, <4>1 DEF Running
      <4> QED BY <1>3, <2>1, <4>2
    <3>2. x.total * v <= u * x.weight
      BY <2>2 DEF Chord, NotUnder
    <3> HIDE DEF u, v
    <3>3. y.total * v <= u * y.weight
      BY <1>1, <1>6, <3>1, <3>2, SlopesOrdered
    <3>4. (x.total + y.total) * v <= u * (x.weight + y.weight)
      <4>1. (x.total + y.total) * v = x.total * v + y.total * v /\ u * (x.weight + y.weight) = u * x.weight + u * y.weight
        BY <1>1, <3>1
      <4>2. x.total * v \in Int /\ y.total * v \in Int /\ u * x.weight \in Int /\ u * y.weight \in Int
        BY <1>1, <3>1
      <4> QED BY <3>2, <3>3, <4>1, <4>2
    <3> QED BY <1>2, <3>4 DEF NotUnder, u, v
  <2>3. CASE b \in y.first..(y.last + 1)
    <3> DEFINE u == pt[b] - pt[y.first]
               v == pw[b] - pw[y.first]
               r == y.total - u
               s == y.weight - v
    <3>1. u \in Int /\ v \in Nat /\ s \in Nat /\ r \in Int
      <4>1. y.first \in 0..11 /\ y.first <= b /\ y.last + 1 \in 0..11 /\ b <= y.last + 1
        BY <1>1, <2>3
      <4>2. pw[y.first] <= pw[b] /\ pw[b] <= pw[y.last + 1]
        BY <2>1, <4>1 DEF Running
      <4> QED BY <1>1, <1>3, <1>4, <2>1, <4>2
    <3>2. y.total * v <= u * y.weight
      BY <2>3 DEF Chord, NotUnder
    <3> HIDE DEF u, v
    <3>3. r * y.weight <= y.total * s
      <4>1. r * y.weight = y.total * y.weight - u * y.weight /\ y.total * s = y.total * y.weight - y.total * v
        BY <1>1, <3>1
      <4>2. y.total * y.weight \in Int /\ u * y.weight \in Int /\ y.total * v \in Int
        BY <1>1, <3>1
      <4> HIDE DEF r, s
      <4> QED BY <3>2, <4>1, <4>2
    <3>4. r * x.weight <= x.total * s
      <4> HIDE DEF r, s
      <4> QED BY <1>1, <1>6, <3>1, <3>3, SlopesOrdered
    <3>5. (x.total + y.total) * (x.weight + v) <= (x.total + u) * (x.weight + y.weight)
      <4>1. (x.total + y.total) * (x.weight + v) = x.total * x.weight + x.total * v + y.total * x.weight + y.total * v
        BY <1>1, <3>1
      <4>2. (x.total + u) * (x.weight + y.weight) = x.total * x.weight + x.total * y.weight + u * x.weight + u * y.weight
        BY <1>1, <3>1
      <4>3. r * x.weight = y.total * x.weight - u * x.weight /\ x.total * s = x.total * y.weight - x.total * v
        BY <1>1, <3>1
      <4>4. /\ x.total * x.weight \in Int /\ x.total * v \in Int /\ y.total * x.weight \in Int /\ y.total * v \in Int
            /\ x.total * y.weight \in Int /\ u * x.weight \in Int /\ u * y.weight \in Int
        BY <1>1, <3>1
      <4> HIDE DEF r, s
      <4> QED BY <3>2, <3>4, <4>1, <4>2, <4>3, <4>4
    <3>6. pt[b] - pt[x.first] = x.total + u /\ pw[b] - pw[x.first] = x.weight + v
      <4>1. u = pt[b] - pt[x.last + 1] /\ v = pw[b] - pw[x.last + 1]
        BY DEF u, v
      <4> QED BY <1>3, <1>4, <2>1, <4>1
    <3> QED BY <1>2, <3>5, <3>6 DEF NotUnder
  <2> QED BY <1>1, <2>2, <2>3
<1>8. Chord(z, pt, pw)
  BY <1>2, <1>5, <1>7 DEF Chord
<1> QED BY <1>2, <1>8 DEF z

LEMMA PoolIsBlock ==
  ASSUME NEW x \in Blocks, NEW y \in Blocks PROVE Pool(x, y) \in Blocks
<1>1. x.weight + y.weight \in Nat \ {0} /\ x.total + y.total \in Int
  BY DEF Blocks
<1>2. Least(x.first, y.first) \in Int /\ Greatest(x.last, y.last) \in Int
  BY DEF Blocks, Least, Greatest
<1> QED BY <1>1, <1>2 DEF Pool, Blocks

\* How the new block takes in those before it.
TakesIn(blocks, block, taken, most) ==
  LET n == Len(blocks) IN
  /\ taken \in [0..n -> Blocks] /\ most \in 0..n
  /\ taken[0] = block
  /\ \A k \in 1..n : taken[k] = Pool(blocks[n - (k - 1)], taken[k - 1])
  /\ \A j \in 0..(most - 1) : NotBelow(blocks[n - j], taken[j])
  /\ most < n => ~NotBelow(blocks[n - most], taken[most])
  /\ PoolAdjacent(blocks, block) = Append(SubSeq(blocks, 1, n - most), taken[most])

LEMMA BlocksAreTaken ==
  ASSUME NEW blocks \in Seq(Blocks), NEW block \in Blocks
  PROVE  \E taken, most : TakesIn(blocks, block, taken, most)
<1> DEFINE n == Len(blocks)
           before(k) == blocks[Len(blocks) - k]
           Only(k, x) == CHOOSE joint \in {Pool(before(k - 1), last) : last \in {x}} : TRUE
           Unfolded(g) == [k \in 0..Len(blocks) |-> IF k = 0 THEN block ELSE Only(k, g[k - 1])]
           f == CHOOSE g : g = Unfolded(g)
           goesOn(k) == k < Len(blocks) /\ NotBelow(before(k), f[k])
           stop == CHOOSE k \in DOMAIN f : ~goesOn(k) /\ \A j \in 0..(k - 1) : goesOn(j)
           step == [k \in 0..n |-> [x \in Blocks |-> IF k = 0 THEN block ELSE Pool(before(k - 1), x)]]
<1>0. PoolAdjacent(blocks, block) = Append(SubSeq(blocks, 1, Len(blocks) - stop), f[stop])
  BY DEF PoolAdjacent
<1>1. n \in Nat /\ \A k \in 1..n : before(k - 1) \in Blocks
  <2>1. \A k \in 1..Len(blocks) : Len(blocks) - (k - 1) \in 1..Len(blocks)
    OBVIOUS
  <2> QED BY <2>1
<1>2. ASSUME NEW k, NEW x PROVE Only(k, x) = Pool(before(k - 1), x)
  <2>1. {Pool(before(k - 1), last) : last \in {x}} = {Pool(before(k - 1), x)}
    OBVIOUS
  <2>2. Only(k, x) \in {Pool(before(k - 1), last) : last \in {x}}
    BY <2>1
  <2> QED BY <2>1, <2>2
<1>3. step \in [0..n -> [Blocks -> Blocks]]
  <2>1. \A k \in 0..n : k # 0 => k \in 1..n
    BY <1>1
  <2>2. \A k \in 0..n, x \in Blocks : k # 0 => Pool(before(k - 1), x) \in Blocks
    BY <1>1, <2>1, PoolIsBlock
  <2> HIDE DEF before, n
  <2> QED BY <2>2
<1> HIDE DEF before, n
<1>4. PICK g \in [0..n -> Blocks] : Follows(g, block, step, 0, n)
  <2> HIDE DEF step
  <2>1. 0 \in Int /\ n \in Int
    BY <1>1
  <2> QED BY <1>3, <2>1, RecursionExists
<1>5. \A k \in 0..n : k # 0 => k - 1 \in 0..n
  BY <1>1
<1>6. g = Unfolded(g)
  <2>1. g = [k \in 0..n |-> IF k = 0 THEN block ELSE step[k][g[k - 1]]]
    BY <1>4 DEF Follows
  <2>2. \A k \in 0..n : k # 0 => step[k][g[k - 1]] = Pool(before(k - 1), g[k - 1])
    BY <1>4, <1>5
  <2> HIDE DEF step, Only
  <2>3. g = [k \in 0..n |-> IF k = 0 THEN block ELSE Only(k, g[k - 1])]
    BY <1>2, <2>1, <2>2
  <2> QED BY <2>3 DEF n
<1>7. f = Unfolded(f)
  BY <1>6
<1> HIDE DEF f, Only
<1>8. f = [k \in 0..n |-> IF k = 0 THEN block ELSE Pool(before(k - 1), f[k - 1])]
  BY <1>2, <1>7 DEF n
<1>9. \A k \in 0..n : f[k] \in Blocks
  <2> DEFINE S == {k \in 0..n : f[k] \in Blocks}
  <2>1. 0 <= n => 0 \in S
    BY <1>1, <1>8
  <2>2. ASSUME NEW k \in 0..n, k < n, k \in S PROVE k + 1 \in S
    <3>1. k + 1 \in 1..n /\ k + 1 \in 0..n /\ k + 1 # 0 /\ (k + 1) - 1 = k
      BY <1>1, <2>2
    <3>2. f[k + 1] = Pool(before((k + 1) - 1), f[(k + 1) - 1])
      BY <1>8, <3>1
    <3>3. before((k + 1) - 1) \in Blocks /\ f[(k + 1) - 1] \in Blocks
      BY <1>1, <2>2, <3>1
    <3> QED BY <3>1, <3>2, <3>3, PoolIsBlock
  <2>3. \A k \in 0..n : k \in S
    <3> HIDE DEF S
    <3>1. 0 \in Int /\ n \in Int
      BY <1>1
    <3> QED BY <2>1, <2>2, <3>1, StepByStep
  <2> QED BY <2>3
<1>10. stop \in 0..n /\ ~goesOn(stop) /\ \A j \in 0..(stop - 1) : goesOn(j)
  <2> DEFINE stops == {k \in 0..n : ~goesOn(k)}
  <2>1. n \in stops
    BY <1>1 DEF n
  <2>2. stops \subseteq Nat
    BY <1>1
  <2> HIDE DEF stops, goesOn
  <2>3. PICK k \in stops : \A j \in stops : k <= j
    BY <2>1, <2>2, LeastOf
  <2>4. k \in 0..n /\ ~goesOn(k)
    BY DEF stops
  <2>5. \A j \in 0..(k - 1) : goesOn(j)
    <3>1. \A j \in 0..(k - 1) : j \in 0..n /\ ~(k <= j)
      BY <1>1, <2>4
    <3> QED BY <2>3, <3>1 DEF stops
  <2>6. DOMAIN f = 0..n
    BY <1>8
  <2>7. \E j \in DOMAIN f : ~goesOn(j) /\ \A i \in 0..(j - 1) : goesOn(i)
    BY <2>4, <2>5, <2>6
  <2>8. stop \in DOMAIN f /\ ~goesOn(stop) /\ \A j \in 0..(stop - 1) : goesOn(j)
    BY <2>7
  <2> HIDE DEF stop
  <2> QED BY <2>6, <2>8
<1>11. f \in [0..n -> Blocks]
  BY <1>8, <1>9
<1>12. \A k \in 1..n : f[k] = Pool(blocks[n - (k - 1)], f[k - 1])
  <2>1. \A k \in 1..n : k \in 0..n /\ k # 0
    BY <1>1
  <2> QED BY <1>8, <2>1 DEF before, n
<1>13. f[0] = block
  BY <1>1, <1>8
<1>14. TakesIn(blocks, block, f, stop)
  BY <1>0, <1>10, <1>11, <1>12, <1>13 DEF TakesIn, before, n
<1> HIDE DEF stop
<1> QED BY <1>14

\* The blocks that are done cover the points so far with chords that rise more
\* and more, and no point is under any of their lines.
Rises(x, y) == x.total * y.weight <= y.total * x.weight

Hull(blocks, n, pt, pw) ==
  /\ blocks \in Seq(Blocks)
  /\ \A k \in DOMAIN blocks : /\ Spans(blocks[k], pt, pw) /\ blocks[k].last < n
                              /\ \A b \in 0..n : NotUnder(blocks[k], b, pt, pw)
  /\ \A i, j \in DOMAIN blocks : i < j => Rises(blocks[i], blocks[j]) /\ blocks[i].last < blocks[j].first
  /\ \A i \in 1..(Len(blocks) - 1) : blocks[i + 1].first = blocks[i].last + 1
  /\ Len(blocks) = 0 => n = 0
  /\ Len(blocks) > 0 => blocks[1].first = 0 /\ blocks[Len(blocks)].last = n - 1
  /\ \A b \in 0..(n - 1) : \E k \in DOMAIN blocks : b \in blocks[k].first..blocks[k].last

\* The point where two chords meet tells on which side of it the other's points are.
LEMMA LinesMeet ==
  ASSUME NEW pt, NEW pw, Running(pt, pw), NEW x \in Blocks, Spans(x, pt, pw), NEW y \in Blocks, Spans(y, pt, pw),
         Rises(x, y), y.first = x.last + 1, NEW b \in 0..11, b <= y.first, NotUnder(x, b, pt, pw)
  PROVE  NotUnder(y, b, pt, pw)
<1> DEFINE p == pt[y.first] - pt[b]
           q == pw[y.first] - pw[b]
<1>1. /\ x.total \in Int /\ x.weight \in Nat \ {0} /\ y.total \in Int /\ y.weight \in Nat \ {0}
      /\ x.first \in 0..11 /\ y.first \in 0..11
  BY DEF Blocks, Spans
<1>2. pt[x.first] \in Int /\ pt[y.first] \in Int /\ pt[b] \in Int /\ pw[x.first] \in Int /\ pw[y.first] \in Int /\ pw[b] \in Int
  BY <1>1 DEF Running
<1>3. pw[b] <= pw[y.first]
  BY <1>1 DEF Running
<1>4. p \in Int /\ q \in Nat
  BY <1>2, <1>3
<1>5. x.total = pt[y.first] - pt[x.first] /\ x.weight = pw[y.first] - pw[x.first]
  BY DEF Spans
<1>6. pt[b] - pt[x.first] = x.total - p /\ pw[b] - pw[x.first] = x.weight - q
  BY <1>2, <1>5
<1>7. x.total * (x.weight - q) <= (x.total - p) * x.weight
  BY <1>6 DEF NotUnder
<1>8. pt[b] - pt[y.first] = 0 - p /\ pw[b] - pw[y.first] = 0 - q
  BY <1>2
<1> HIDE DEF p, q
<1>9. p * x.weight <= x.total * q
  <2>1. x.total * (x.weight - q) = x.total * x.weight - x.total * q /\ (x.total - p) * x.weight = x.total * x.weight - p * x.weight
    BY <1>1, <1>4
  <2>2. x.total * x.weight \in Int /\ x.total * q \in Int /\ p * x.weight \in Int
    BY <1>1, <1>4
  <2> QED BY <1>7, <2>1, <2>2
<1>10. p * y.weight <= y.total * q
  BY <1>1, <1>4, <1>9, SlopesOrdered DEF Rises
<1>11. y.total * (0 - q) <= (0 - p) * y.weight
  <2>1. y.total * (0 - q) = 0 - y.total * q /\ (0 - p) * y.weight = 0 - p * y.weight
    BY <1>1, <1>4
  <2>2. y.total * q \in Int /\ p * y.weight \in Int
    BY <1>1, <1>4
  <2> QED BY <1>10, <2>1, <2>2
<1> QED BY <1>8, <1>11 DEF NotUnder

\* The end of a chord that rises more is not under the line of one before it.
LEMMA EndIsAbove ==
  ASSUME NEW pt, NEW pw, Running(pt, pw), NEW x \in Blocks, Spans(x, pt, pw), NEW y \in Blocks, Spans(y, pt, pw),
         Rises(x, y), NotUnder(x, y.first, pt, pw)
  PROVE  NotUnder(x, y.last + 1, pt, pw)
<1> DEFINE u == pt[y.first] - pt[x.first]
           v == pw[y.first] - pw[x.first]
<1>1. /\ x.total \in Int /\ x.weight \in Nat \ {0} /\ y.total \in Int /\ y.weight \in Nat \ {0}
      /\ x.first \in 0..11 /\ y.first \in 0..11 /\ y.last + 1 \in 0..11
  BY DEF Blocks, Spans
<1>2. /\ pt[x.first] \in Int /\ pt[y.first] \in Int /\ pt[y.last + 1] \in Int
      /\ pw[x.first] \in Int /\ pw[y.first] \in Int /\ pw[y.last + 1] \in Int
  BY <1>1 DEF Running
<1>3. y.total = pt[y.last + 1] - pt[y.first] /\ y.weight = pw[y.last + 1] - pw[y.first]
  BY DEF Spans
<1>4. pt[y.last + 1] - pt[x.first] = u + y.total /\ pw[y.last + 1] - pw[x.first] = v + y.weight
  BY <1>2, <1>3
<1>5. u \in Int /\ v \in Int /\ x.total * v <= u * x.weight
  BY <1>2 DEF NotUnder
<1> HIDE DEF u, v
<1>6. x.total * (v + y.weight) <= (u + y.total) * x.weight
  <2>1. x.total * (v + y.weight) = x.total * v + x.total * y.weight /\ (u + y.total) * x.weight = u * x.weight + y.total * x.weight
    BY <1>1, <1>5
  <2>2. x.total * v \in Int /\ x.total * y.weight \in Int /\ u * x.weight \in Int /\ y.total * x.weight \in Int
    BY <1>1, <1>5
  <2> QED BY <1>5, <2>1, <2>2 DEF Rises
<1> QED BY <1>4, <1>6 DEF NotUnder

\* What is taken in is a chord from where the blocks that are left end.
LEMMA TakenIsChord ==
  ASSUME NEW pt, NEW pw, Running(pt, pw), NEW n \in 0..10, NEW blocks, Hull(blocks, n, pt, pw),
         NEW new, Chord(new, pt, pw), new.first = n, new.last = n,
         NEW taken, NEW most, TakesIn(blocks, new, taken, most)
  PROVE  /\ Chord(taken[most], pt, pw) /\ taken[most].last = n
         /\ most < Len(blocks) => taken[most].first = blocks[Len(blocks) - most].last + 1
         /\ most = Len(blocks) => taken[most].first = 0
<1> DEFINE l == Len(blocks)
           Right(k) == /\ Chord(taken[k], pt, pw) /\ taken[k].last = n
                       /\ k < l => taken[k].first = blocks[l - k].last + 1
                       /\ k = l => taken[k].first = 0
           S == {k \in 0..most : Right(k)}
<1>1. l \in Nat /\ most \in 0..l /\ DOMAIN blocks = 1..l
  BY DEF Hull, TakesIn
<1>2. 0 \in S
  <2>1. taken[0] = new
    BY DEF TakesIn
  <2>2. 0 < l => blocks[l - 0].last + 1 = n
    <3>1. 0 < l => blocks[l].last = n - 1 /\ l - 0 = l
      BY <1>1 DEF Hull
    <3> QED BY <3>1
  <2>3. 0 = l => n = 0
    BY DEF Hull
  <2> QED BY <1>1, <2>1, <2>2, <2>3
<1>3. ASSUME NEW k \in 0..most, k < most, k \in S PROVE k + 1 \in S
  <2> DEFINE x == blocks[l - k]
             y == taken[k]
  <2>1. k + 1 \in 0..most /\ k + 1 \in 1..l /\ (k + 1) - 1 = k /\ k < l /\ k \in 0..(most - 1) /\ l - k \in 1..l
    BY <1>1, <1>3
  <2>2. taken[k + 1] = Pool(x, y) /\ NotBelow(x, y)
    <3>1. taken[k + 1] = Pool(blocks[l - ((k + 1) - 1)], taken[(k + 1) - 1])
      BY <2>1 DEF TakesIn
    <3>2. NotBelow(blocks[l - k], taken[k])
      BY <2>1 DEF TakesIn
    <3> QED BY <2>1, <3>1, <3>2
  <2>3. x \in Blocks /\ Spans(x, pt, pw) /\ x.last < n /\ \A b \in 0..n : NotUnder(x, b, pt, pw)
    <3>1. blocks \in Seq(Blocks) /\ l - k \in DOMAIN blocks
      BY <1>1, <2>1 DEF Hull
    <3>2. \A j \in DOMAIN blocks : /\ Spans(blocks[j], pt, pw) /\ blocks[j].last < n
                                  /\ \A b \in 0..n : NotUnder(blocks[j], b, pt, pw)
      BY DEF Hull
    <3>3. \A j \in DOMAIN blocks : blocks[j] \in Blocks
      BY <3>1
    <3> HIDE DEF l
    <3>4. blocks[l - k] \in Blocks
      BY <3>1, <3>3
    <3>5. Spans(blocks[l - k], pt, pw) /\ blocks[l - k].last < n /\ \A b \in 0..n : NotUnder(blocks[l - k], b, pt, pw)
      BY <3>1, <3>2
    <3>6. x = blocks[l - k]
      OBVIOUS
    <3> HIDE DEF x
    <3> QED BY <3>4, <3>5, <3>6
  <2>4. Chord(x, pt, pw)
    <3> HIDE DEF x
    <3>0. x.first \in 0..10 /\ x.last \in 0..10 /\ x.last < n
      BY <2>3 DEF Spans
    <3>1. \A b \in x.first..(x.last + 1) : b \in 0..n
      BY <3>0
    <3> QED BY <2>3, <3>1 DEF Chord
  <2>5. Chord(y, pt, pw) /\ y.last = n /\ y.first = x.last + 1
    BY <1>3, <2>1
  <2>6. k + 1 < l => x.first = blocks[l - (k + 1)].last + 1
    <3>1. SUFFICES ASSUME k + 1 < l PROVE x.first = blocks[l - (k + 1)].last + 1
      OBVIOUS
    <3>2. l - (k + 1) \in 1..(l - 1) /\ (l - (k + 1)) + 1 = l - k
      BY <1>1, <2>1, <3>1
    <3> QED BY <3>2 DEF Hull
  <2>7. k + 1 = l => x.first = 0
    <3>1. SUFFICES ASSUME k + 1 = l PROVE x.first = 0
      OBVIOUS
    <3>2. l - k = 1 /\ l > 0
      <4> HIDE DEF l
      <4>1. l \in Nat /\ k \in Int
        BY <1>1
      <4> QED BY <2>1, <3>1, <4>1
    <3>3. blocks[1].first = 0
      BY <3>2 DEF Hull
    <3> QED BY <3>2, <3>3
  <2> HIDE DEF x, y
  <2>8. Chord(Pool(x, y), pt, pw) /\ Pool(x, y).first = x.first /\ Pool(x, y).last = y.last
    BY <2>2, <2>4, <2>5, PooledIsChord
  <2> HIDE DEF l
  <2> QED BY <2>1, <2>2, <2>5, <2>6, <2>7, <2>8
<1>4. \A k \in 0..most : k \in S
  <2>1. 0 \in Int /\ most \in Int
    BY <1>1
  <2> HIDE DEF S
  <2> QED BY <1>2, <1>3, <2>1, StepByStep
<1>5. most \in S
  <2>1. most \in 0..most
    BY <1>1
  <2> HIDE DEF S
  <2> QED BY <1>4, <2>1
<1> QED BY <1>5

LEMMA HullGrows ==
  ASSUME NEW pt, NEW pw, Running(pt, pw), NEW n \in 0..10, NEW blocks, Hull(blocks, n, pt, pw),
         NEW new, Chord(new, pt, pw), new.first = n, new.last = n
  PROVE  Hull(PoolAdjacent(blocks, new), n + 1, pt, pw)
<1>1. new \in Blocks /\ blocks \in Seq(Blocks)
  BY DEF Chord, Hull
<1>2. PICK taken, most : TakesIn(blocks, new, taken, most)
  BY <1>1, BlocksAreTaken
<1> DEFINE l == Len(blocks)
           m == l - most
           last == taken[most]
           left == SubSeq(blocks, 1, m)
           result == Append(left, last)
<1>3. /\ Chord(last, pt, pw) /\ last.last = n
      /\ most < l => last.first = blocks[m].last + 1
      /\ most = l => last.first = 0
  BY <1>2, TakenIsChord
<1>4. l \in Nat /\ most \in 0..l /\ m \in 0..l /\ DOMAIN blocks = 1..l
  BY <1>1, <1>2 DEF TakesIn
<1>5. PoolAdjacent(blocks, new) = result
  BY <1>2 DEF TakesIn
<1>6. last \in Blocks /\ Spans(last, pt, pw)
  BY <1>3 DEF Chord
<1>7. /\ result \in Seq(Blocks) /\ Len(result) = m + 1 /\ DOMAIN result = 1..(m + 1)
      /\ result[m + 1] = last /\ \A i \in 1..m : result[i] = blocks[i] /\ i \in 1..l
  <2>1. left \in Seq(Blocks) /\ Len(left) = m /\ \A i \in 1..m : left[i] = blocks[i] /\ i \in 1..l
    <3> HIDE DEF m
    <3> QED BY <1>1, <1>4
  <2> HIDE DEF left, last, m
  <2> QED BY <1>4, <1>6, <2>1
<1>8. m > 0 => Rises(blocks[m], last) /\ last.first = blocks[m].last + 1 /\ m \in 1..l
  <2>1. SUFFICES ASSUME m > 0 PROVE Rises(blocks[m], last) /\ last.first = blocks[m].last + 1 /\ m \in 1..l
    OBVIOUS
  <2>2. most < l
    BY <1>4, <2>1
  <2>3. ~NotBelow(blocks[m], last)
    BY <1>2, <2>2 DEF TakesIn
  <2>4. m \in 1..l
    BY <1>4, <2>1
  <2>5. blocks[m] \in Blocks
    BY <1>1, <1>4, <2>4
  <2>6. Rises(blocks[m], last)
    <3> HIDE DEF m, last
    <3>1. blocks[m].total * last.weight \in Int /\ last.total * blocks[m].weight \in Int
      BY <1>6, <2>5 DEF Blocks
    <3> QED BY <2>3, <3>1 DEF Rises, NotBelow
  <2> QED BY <1>3, <2>2, <2>4, <2>6
<1>9. m = 0 => last.first = 0
  <2>1. m = 0 => most = l
    <3>1. l \in Nat /\ most \in Nat
      BY <1>4
    <3> HIDE DEF l
    <3> QED BY <3>1
  <2> QED BY <1>3, <2>1
<1>10. ASSUME NEW i \in 1..l
       PROVE  /\ blocks[i] \in Blocks /\ Spans(blocks[i], pt, pw) /\ blocks[i].last < n
              /\ \A b \in 0..n : NotUnder(blocks[i], b, pt, pw)
  BY <1>1, <1>4, SMTT(40) DEF Hull
<1> HIDE DEF result, left, last, m, l
<1>11. \A i \in 1..m : Rises(blocks[i], last) /\ blocks[i].last < last.first
  <2>1. SUFFICES ASSUME NEW i \in 1..m PROVE Rises(blocks[i], last) /\ blocks[i].last < last.first
    OBVIOUS
  <2>2. m > 0 /\ i \in 1..l /\ m \in 1..l
    BY <1>4, <1>7, <1>8
  <2>3. blocks[m] \in Blocks /\ blocks[i] \in Blocks /\ Spans(blocks[m], pt, pw) /\ Spans(blocks[i], pt, pw)
    BY <1>10, <2>2
  <2>4. CASE i = m
    <3>1. blocks[m].last \in 0..10
      BY <2>3 DEF Spans
    <3> QED BY <1>8, <2>2, <2>4, <3>1
  <2>5. CASE i # m
    <3>1. i < m
      BY <1>4, <2>1, <2>5
    <3>2. Rises(blocks[i], blocks[m]) /\ blocks[i].last < blocks[m].first
      BY <1>4, <2>2, <3>1 DEF Hull
    <3>3. Rises(blocks[i], last)
      <4>1. /\ blocks[i].total \in Int /\ blocks[i].weight \in Nat /\ blocks[m].total \in Int
            /\ blocks[m].weight \in Nat \ {0} /\ last.total \in Int /\ last.weight \in Nat
        BY <1>6, <2>3 DEF Blocks
      <4>2. /\ blocks[i].total * blocks[m].weight <= blocks[m].total * blocks[i].weight
            /\ blocks[m].total * last.weight <= last.total * blocks[m].weight
        BY <1>8, <2>2, <3>2 DEF Rises
      <4> DEFINE t1 == blocks[i].total
                 w1 == blocks[i].weight
                 t2 == blocks[m].total
                 w2 == blocks[m].weight
                 t3 == last.total
                 w3 == last.weight
      <4>3. /\ t1 \in Int /\ w1 \in Nat /\ t2 \in Int /\ w2 \in Nat \ {0} /\ t3 \in Int /\ w3 \in Nat
            /\ t1 * w2 <= t2 * w1 /\ t2 * w3 <= t3 * w2
        BY <4>1, <4>2
      <4> HIDE DEF t1, w1, t2, w2, t3, w3
      <4>4. t1 * w3 <= t3 * w1
        BY <4>3, SlopesOrdered
      <4> QED BY <4>4 DEF Rises, t1, w1, t3, w3
    <3>4. blocks[i].last < last.first
      BY <1>8, <2>2, <2>3, <3>2 DEF Spans
    <3> QED BY <3>3, <3>4
  <2> QED BY <2>4, <2>5
<1>12. last.first \in 0..n /\ last.first \in 0..11
  <2>1. last.first \in 0..10 /\ last.first <= last.last
    BY <1>6 DEF Spans
  <2> QED BY <1>3, <2>1
<1>13. \A b \in 0..(n + 1) : NotUnder(last, b, pt, pw)
  <2>1. SUFFICES ASSUME NEW b \in 0..(n + 1) PROVE NotUnder(last, b, pt, pw)
    OBVIOUS
  <2>2. CASE b >= last.first
    <3>1. b \in last.first..(last.last + 1)
      BY <1>3, <1>12, <2>2
    <3> QED BY <1>3, <3>1 DEF Chord
  <2>3. CASE b < last.first
    <3>1. m > 0
      BY <1>4, <1>9, <2>3
    <3>2. b \in 0..n /\ b \in 0..11 /\ b <= last.first
      BY <1>12, <2>3
    <3>3. blocks[m] \in Blocks /\ Spans(blocks[m], pt, pw) /\ NotUnder(blocks[m], b, pt, pw)
      BY <1>8, <1>10, <3>1, <3>2
    <3> QED BY <1>6, <1>8, <3>1, <3>2, <3>3, LinesMeet
  <2> QED BY <1>12, <2>2, <2>3
<1>14. \A i \in 1..m, b \in 0..(n + 1) : NotUnder(blocks[i], b, pt, pw)
  <2>1. SUFFICES ASSUME NEW i \in 1..m, NEW b \in 0..(n + 1) PROVE NotUnder(blocks[i], b, pt, pw)
    OBVIOUS
  <2>2. i \in 1..l
    BY <1>7
  <2>3. CASE b \in 0..n
    BY <1>10, <2>2, <2>3
  <2>4. CASE b = n + 1
    <3>1. NotUnder(blocks[i], last.first, pt, pw)
      BY <1>10, <1>12, <2>2
    <3>2. NotUnder(blocks[i], last.last + 1, pt, pw)
      BY <1>6, <1>10, <1>11, <2>2, <3>1, EndIsAbove
    <3> QED BY <1>3, <2>4, <3>2
  <2> QED BY <2>3, <2>4
<1>15. \A k \in DOMAIN result : /\ Spans(result[k], pt, pw) /\ result[k].last < n + 1
                                /\ \A b \in 0..(n + 1) : NotUnder(result[k], b, pt, pw)
  <2>1. SUFFICES ASSUME NEW k \in 1..(m + 1)
                 PROVE  /\ Spans(result[k], pt, pw) /\ result[k].last < n + 1
                        /\ \A b \in 0..(n + 1) : NotUnder(result[k], b, pt, pw)
    BY <1>7
  <2>2. CASE k \in 1..m
    <3>1. result[k] = blocks[k] /\ k \in 1..l
      BY <1>7, <2>2
    <3>2. Spans(blocks[k], pt, pw) /\ blocks[k].last < n
      BY <1>10, <3>1
    <3>3. blocks[k].last < n + 1
      BY <3>2 DEF Spans
    <3> QED BY <1>14, <2>2, <3>1, <3>2, <3>3
  <2>3. CASE k = m + 1
    BY <1>3, <1>6, <1>7, <1>13, <2>3
  <2> QED BY <1>4, <2>2, <2>3
<1>16. \A i, j \in DOMAIN result : i < j => Rises(result[i], result[j]) /\ result[i].last < result[j].first
  <2>1. SUFFICES ASSUME NEW i \in 1..(m + 1), NEW j \in 1..(m + 1), i < j
                 PROVE  Rises(result[i], result[j]) /\ result[i].last < result[j].first
    BY <1>7
  <2>2. i \in 1..m /\ result[i] = blocks[i] /\ i \in 1..l
    <3>1. i \in 1..m
      BY <1>4, <2>1
    <3> QED BY <1>7, <3>1
  <2>3. CASE j \in 1..m
    <3>1. result[j] = blocks[j] /\ j \in 1..l
      BY <1>7, <2>3
    <3> QED BY <1>4, <2>1, <2>2, <3>1 DEF Hull
  <2>4. CASE j = m + 1
    BY <1>7, <1>11, <2>2, <2>4
  <2> QED BY <1>4, <2>3, <2>4
<1>17. \A i \in 1..(Len(result) - 1) : result[i + 1].first = result[i].last + 1
  <2>1. SUFFICES ASSUME NEW i \in 1..m PROVE result[i + 1].first = result[i].last + 1
    BY <1>4, <1>7
  <2>2. result[i] = blocks[i] /\ i \in 1..l
    BY <1>7
  <2>3. CASE i < m
    <3>1. i + 1 \in 1..m /\ i \in 1..(l - 1)
      BY <1>4, <2>3
    <3>2. result[i + 1] = blocks[i + 1]
      BY <1>7, <3>1
    <3>3. blocks[i + 1].first = blocks[i].last + 1
      BY <3>1 DEF Hull, l
    <3> QED BY <2>2, <3>2, <3>3
  <2>4. CASE i = m
    <3>1. m > 0
      BY <1>4, <2>4
    <3> QED BY <1>7, <1>8, <2>2, <2>4, <3>1
  <2> QED BY <1>4, <2>3, <2>4
<1>18. result[1].first = 0
  <2>1. CASE m = 0
    BY <1>7, <1>9, <2>1
  <2>2. CASE m > 0
    <3>1. 1 \in 1..m /\ l > 0
      BY <1>4, <2>2
    <3>2. blocks[1].first = 0
      BY <3>1 DEF Hull, l
    <3> QED BY <1>7, <3>1, <3>2
  <2> QED BY <1>4, <2>1, <2>2
<1>19. \A b \in 0..((n + 1) - 1) : \E k \in DOMAIN result : b \in result[k].first..result[k].last
  <2>1. SUFFICES ASSUME NEW b \in 0..n PROVE \E k \in 1..(m + 1) : b \in result[k].first..result[k].last
    BY <1>7, SMTT(40)
  <2>2. CASE b >= last.first
    <3>1. b \in last.first..last.last /\ m + 1 \in 1..(m + 1)
      BY <1>3, <1>4, <1>12, <2>2
    <3> QED BY <1>7, <3>1
  <2>3. CASE b < last.first
    <3>1. b \in 0..(n - 1) /\ m > 0
      BY <1>4, <1>9, <1>12, <2>3
    <3>2. PICK k \in 1..l : b \in blocks[k].first..blocks[k].last
      BY <1>4, <3>1 DEF Hull
    <3>3. k \in 1..m
      <4>1. SUFFICES ASSUME m < k PROVE FALSE
        BY <1>4, <3>2
      <4>2. blocks[m].last < blocks[k].first /\ m \in 1..l
        BY <1>4, <1>8, <3>1, <3>2, <4>1 DEF Hull
      <4>3. blocks[m].last \in 0..10 /\ blocks[k].first \in 0..10 /\ last.first = blocks[m].last + 1
        BY <1>8, <1>10, <3>1, <3>2, <4>2 DEF Spans
      <4> QED BY <2>3, <3>2, <4>2, <4>3
    <3>4. k \in 1..(m + 1) /\ result[k] = blocks[k]
      BY <1>4, <1>7, <3>3
    <3> QED BY <3>2, <3>4
  <2> QED BY <1>12, <2>2, <2>3
<1>20. Len(result) > 0 /\ result[Len(result)].last = (n + 1) - 1
  BY <1>3, <1>4, <1>7
<1>21. Hull(result, n + 1, pt, pw)
  BY <1>7, <1>15, <1>16, <1>17, <1>18, <1>19, <1>20 DEF Hull
<1> QED BY <1>5, <1>21

-----------------------------------------------------------------------------
(* The buckets.                                                             *)

LabelsFinite == IsFiniteSet(Judged) /\ IsFiniteSet(EvidenceId)

\* What speaks has a value.
Valued == \A e \in EvidenceId : Speaks(rows[e]) => Value(rows[e]) \in Int

LEMMA SumOfPositives ==
  ASSUME NEW W, IsFiniteSet(W), NEW f, DOMAIN f = W, \A x \in W : f[x] \in Nat
  PROVE  /\ SumFunction(f) \in Nat
         /\ (\E x \in W : f[x] > 0) => SumFunction(f) > 0
<1>1. SumFunction(f) = SumFunctionOnSet(f, W)
  BY SumOverAll
<1>2. ASSUME NEW S \in SUBSET W PROVE SumFunctionOnSet(f, S) \in Int /\ SumFunctionOnSet(f, S) >= 0
  <2>1. IsFiniteSet(S) /\ \A x \in S : f[x] \in Int /\ f[x] >= 0
    BY FS_Subset
  <2> QED BY <2>1, SumIsInt, SumKeepsSign
<1>3. ASSUME NEW x \in W, f[x] > 0 PROVE SumFunctionOnSet(f, W) > 0
  <2>1. \A y \in W : f[y] \in Int
    OBVIOUS
  <2>2. SumFunctionOnSet(f, W) = f[x] + SumFunctionOnSet(f, W \ {x})
    BY <2>1, SumWithout
  <2>3. SumFunctionOnSet(f, W \ {x}) \in Int /\ SumFunctionOnSet(f, W \ {x}) >= 0
    BY <1>2
  <2>4. f[x] \in Int
    OBVIOUS
  <2> QED BY <1>3, <2>2, <2>3, <2>4
<1>4. SumFunctionOnSet(f, W) \in Nat
  BY <1>2
<1> QED BY <1>1, <1>3, <1>4

LEMMA SumOfInts ==
  ASSUME NEW W, IsFiniteSet(W), NEW f, DOMAIN f = W, \A x \in W : f[x] \in Int
  PROVE  SumFunction(f) \in Int
BY SumOverAll, SumIsInt

LEMMA EvidenceCounts ==
  ASSUME LabelsFinite, NEW ids, ids \subseteq EvidenceId
  PROVE  Evidence(ids) \in Nat /\ (ids # {} => Evidence(ids) > 0)
<1> DEFINE f == [e \in ids |-> Confidence(rows[e])]
<1>1. IsFiniteSet(ids)
  BY FS_Subset DEF LabelsFinite
<1>2. \A e \in ids : f[e] \in Nat /\ f[e] > 0
  <2>1. \A row : Confidence(row) \in {5, 6, 8, 10}
    BY DEF Confidence
  <2>2. \A c \in {5, 6, 8, 10} : c \in Nat /\ c > 0
    OBVIOUS
  <2> QED BY <2>1, <2>2
<1>3. Evidence(ids) = SumFunction(f)
  BY DEF Evidence
<1>4. DOMAIN f = ids
  OBVIOUS
<1> HIDE DEF f
<1> QED BY <1>1, <1>2, <1>3, <1>4, SumOfPositives

LEMMA WeightedIsInt ==
  ASSUME LabelsFinite, Valued, NEW ids, ids \subseteq EvidenceId, \A e \in ids : Speaks(rows[e])
  PROVE  Weighted(ids) \in Int
<1> DEFINE f == [e \in ids |-> Value(rows[e]) * Confidence(rows[e])]
<1>1. IsFiniteSet(ids)
  BY FS_Subset DEF LabelsFinite
<1>2. \A e \in ids : f[e] \in Int
  <2>1. \A row : Confidence(row) \in Int
    BY DEF Confidence
  <2>2. \A e \in ids : Value(rows[e]) \in Int
    BY DEF Valued
  <2> QED BY <2>1, <2>2
<1>3. Weighted(ids) = SumFunction(f)
  BY DEF Weighted
<1>4. DOMAIN f = ids
  OBVIOUS
<1> HIDE DEF f
<1> QED BY <1>1, <1>2, <1>3, <1>4, SumOfInts

LEMMA LineIsInt == \A r \in Int : RatingLine(r) \in Int
<1>1. \A v \in Int : Clamp(v) \in Int
  BY DEF Clamp, Greatest, Least
<1>2. \A r \in Int : (r - 50) \div 5 \in Int
  OBVIOUS
<1> QED BY <1>1, <1>2 DEF RatingLine

LEMMA BucketIsBlock ==
  ASSUME LabelsFinite, Valued, NEW b \in 0..10
  PROVE  Bucket(b) \in Blocks /\ Bucket(b).first = b /\ Bucket(b).last = b
<1> DEFINE W == RatedIn(b)
           weight(s) == Certainty(Evidence(Behavior(s)))
           totals == [s \in W |-> weight(s) * Outcome(s)]
           weights == [s \in W |-> weight(s)]
<1>1. IsFiniteSet(W)
  BY FS_Subset DEF RatedIn, LabelsFinite
<1>2. \A s \in W : weight(s) \in Nat /\ Outcome(s) \in Int
  <2>1. SUFFICES ASSUME NEW s \in W PROVE weight(s) \in Nat /\ Outcome(s) \in Int
    OBVIOUS
  <2> DEFINE ids == Behavior(s)
  <2>2. ids # {} /\ ids \subseteq EvidenceId /\ \A e \in ids : Speaks(rows[e])
    BY DEF RatedIn, Behavior, Signals
  <2>3. Evidence(ids) \in Nat /\ Evidence(ids) > 0
    BY <2>2, EvidenceCounts
  <2>4. Weighted(ids) \in Int
    BY <2>2, WeightedIsInt
  <2>5. Outcome(s) \in Int
    BY <2>3, <2>4 DEF Outcome
  <2>6. \A e \in Nat : Certainty(e) \in Nat
    <3>1. \A e \in Nat : 17 * e \in Nat /\ e + 17 \in Nat \ {0}
      OBVIOUS
    <3>2. \A x \in Nat, y \in Nat \ {0} : x \div y \in Nat
      OBVIOUS
    <3>3. \A e \in Nat : (17 * e) \div (e + 17) \in Nat
      BY <3>1, <3>2
    <3> QED BY <3>3 DEF Certainty, Least
  <2> QED BY <2>3, <2>5, <2>6
<1>3. SumFunction(totals) \in Int
  <2>1. DOMAIN totals = W /\ \A s \in W : totals[s] \in Int
    BY <1>2
  <2> HIDE DEF totals, W
  <2> QED BY <1>1, <2>1, SumOfInts
<1>4. SumFunction(weights) \in Nat
  <2>1. DOMAIN weights = W /\ \A s \in W : weights[s] \in Nat
    BY <1>2
  <2> HIDE DEF weights, W
  <2> QED BY <1>1, <2>1, SumOfPositives
<1>5. Bucket(b) = [total |-> SumFunction(totals) + Support * RatingLine(10 * b),
                   weight |-> SumFunction(weights) + Support, first |-> b, last |-> b]
  BY DEF Bucket
<1> HIDE DEF totals, weights
<1>6. RatingLine(10 * b) \in Int
  BY LineIsInt
<1>7. SumFunction(totals) + Support * RatingLine(10 * b) \in Int /\ SumFunction(weights) + Support \in Nat \ {0}
  BY <1>3, <1>4, <1>6 DEF Support
<1> QED BY <1>5, <1>7 DEF Blocks

-----------------------------------------------------------------------------
(* Running totals: a sum over a range is the difference of two of them.     *)

LEMMA RangeSumGrows ==
  ASSUME NEW f \in [1..11 -> Int], NEW a \in 1..11, NEW k \in 0..10, a <= k + 1
  PROVE  SumFunctionOnSet(f, a..(k + 1)) = f[k + 1] + SumFunctionOnSet(f, a..k)
<1> DEFINE W == a..(k + 1)
           last == k + 1
<1>1. IsFiniteSet(W) /\ \A b \in W : f[b] \in Int
  <2>1. IsFiniteSet(W)
    BY FS_Interval
  <2>2. \A b \in W : b \in 1..11
    OBVIOUS
  <2> HIDE DEF W
  <2> QED BY <2>1, <2>2
<1>2. last \in W /\ W \ {last} = a..k
  OBVIOUS
<1> HIDE DEF W, last
<1>3. SumFunctionOnSet(f, W) = f[last] + SumFunctionOnSet(f, W \ {last})
  BY <1>1, <1>2, SumWithout
<1> QED BY <1>2, <1>3 DEF W, last

LEMMA RangeSumIsInt ==
  ASSUME NEW f \in [1..11 -> Int], NEW a \in 1..11, NEW k \in 0..11
  PROVE  SumFunctionOnSet(f, a..k) \in Int
<1> DEFINE W == a..k
<1>1. IsFiniteSet(W)
  BY FS_Interval
<1>2. \A b \in W : b \in 1..11
  OBVIOUS
<1> HIDE DEF W
<1>3. SumFunctionOnSet(f, W) \in Int
  BY <1>1, <1>2, SumIsInt
<1> QED BY <1>3 DEF W

LEMMA RangeSums ==
  ASSUME NEW f \in [1..11 -> Int], NEW i \in 1..11, NEW j \in 0..11, i - 1 <= j
  PROVE  SumFunctionOnSet(f, i..j) = SumFunctionOnSet(f, 1..j) - SumFunctionOnSet(f, 1..(i - 1))
<1> DEFINE start == SumFunctionOnSet(f, 1..(i - 1))
           Sums(k) == SumFunctionOnSet(f, i..k) = SumFunctionOnSet(f, 1..k) - start
           S == {k \in (i - 1)..11 : Sums(k)}
<1>1. i - 1 \in 0..11 /\ start \in Int
  <2>1. i - 1 \in 0..11 /\ 1 \in 1..11
    OBVIOUS
  <2> QED BY <2>1, RangeSumIsInt
<1> HIDE DEF start
<1>2. i - 1 \in S
  <2>1. i..(i - 1) = {} /\ i - 1 \in (i - 1)..11
    BY <1>1
  <2>2. SumFunctionOnSet(f, i..(i - 1)) = 0
    BY <2>1, SumOfNothing
  <2>3. 0 = start - start
    BY <1>1
  <2> QED BY <2>1, <2>2, <2>3 DEF start
<1> HIDE DEF Sums
<1>3. ASSUME NEW k \in (i - 1)..11, k < 11, k \in S PROVE k + 1 \in S
  <2>1. k \in 0..10 /\ k + 1 \in (i - 1)..11 /\ i <= k + 1 /\ 1 <= k + 1 /\ k \in 0..11 /\ k + 1 \in 1..11 /\ 1 \in 1..11
    <3>1. k \in Int /\ i \in Int /\ 1 <= i /\ i - 1 <= k /\ k < 11
      BY <1>3
    <3> HIDE DEF S
    <3> QED BY <3>1
  <2>2. SumFunctionOnSet(f, i..(k + 1)) = f[k + 1] + SumFunctionOnSet(f, i..k)
    BY <2>1, RangeSumGrows
  <2>3. SumFunctionOnSet(f, 1..(k + 1)) = f[k + 1] + SumFunctionOnSet(f, 1..k)
    BY <2>1, RangeSumGrows
  <2>4. f[k + 1] \in Int /\ SumFunctionOnSet(f, i..k) \in Int /\ SumFunctionOnSet(f, 1..k) \in Int
    BY <2>1, RangeSumIsInt
  <2>5. SumFunctionOnSet(f, i..k) = SumFunctionOnSet(f, 1..k) - start
    BY <1>3 DEF Sums
  <2> DEFINE x == SumFunctionOnSet(f, i..k)
             y == SumFunctionOnSet(f, 1..k)
             z == f[k + 1]
  <2>6. z + x = (z + y) - start
    <3>1. x \in Int /\ y \in Int /\ z \in Int /\ x = y - start
      BY <2>4, <2>5
    <3> HIDE DEF x, y, z
    <3> QED BY <1>1, <3>1
  <2>7. Sums(k + 1)
    BY <2>2, <2>3, <2>6 DEF Sums
  <2> QED BY <2>1, <2>7
<1>4. \A k \in (i - 1)..11 : k \in S
  <2>1. i - 1 \in Int /\ 11 \in Int
    OBVIOUS
  <2> HIDE DEF S
  <2> QED BY <1>2, <1>3, <2>1, StepByStep
<1>5. j \in (i - 1)..11
  OBVIOUS
<1>6. Sums(j)
  BY <1>4, <1>5
<1> QED BY <1>6 DEF Sums, start

\* The greatest and the least of some numbers, as FiniteSetsExt finds them.
LEMMA GreatestIs ==
  ASSUME NEW S, S \subseteq Int, NEW m \in S, \A x \in S : x <= m PROVE Max(S) = m
<1>1. \A x \in S : m >= x
  OBVIOUS
<1>2. Max(S) \in S /\ \A x \in S : Max(S) >= x
  BY <1>1 DEF Max
<1>3. Max(S) \in Int /\ Max(S) >= m /\ Max(S) <= m /\ m \in Int
  BY <1>2
<1> HIDE DEF Max
<1> QED BY <1>3

LEMMA LeastIs ==
  ASSUME NEW S, S \subseteq Int, NEW m \in S, \A x \in S : m <= x PROVE Min(S) = m
<1>1. Min(S) \in S /\ \A x \in S : Min(S) <= x
  BY DEF Min
<1>2. Min(S) \in Int /\ Min(S) <= m /\ m <= Min(S) /\ m \in Int
  BY <1>1
<1> HIDE DEF Min
<1> QED BY <1>2

LEMMA SomeIsGreatest ==
  ASSUME NEW n \in Nat \ {0}, NEW f \in [1..n -> Int]
  PROVE  /\ {f[i] : i \in 1..n} \subseteq Int
         /\ Max({f[i] : i \in 1..n}) \in Int
         /\ \A i \in 1..n : f[i] <= Max({f[i2] : i2 \in 1..n})
<1> DEFINE Has(k) == \E m \in 1..k : \A i \in 1..k : f[i] <= f[m]
           S == {k \in 1..n : Has(k)}
<1>1. 1 \in S
  <2>1. \A i \in 1..1 : i = 1
    OBVIOUS
  <2>2. 1 \in 1..n /\ 1 \in 1..1 /\ f[1] <= f[1]
    OBVIOUS
  <2> QED BY <2>1, <2>2
<1>2. ASSUME NEW k \in 1..n, k < n, k \in S PROVE k + 1 \in S
  <2>1. k + 1 \in 1..n /\ k + 1 \in 1..(k + 1) /\ \A i \in 1..(k + 1) : i = k + 1 \/ i \in 1..k
    BY <1>2
  <2>2. PICK m \in 1..k : \A i \in 1..k : f[i] <= f[m]
    BY <1>2
  <2>3. m \in 1..(k + 1) /\ m \in 1..n /\ \A i \in 1..k : i \in 1..n
    OBVIOUS
  <2>4. f[m] \in Int /\ f[k + 1] \in Int /\ \A i \in 1..k : f[i] \in Int
    BY <2>1, <2>3
  <2>5. CASE f[k + 1] <= f[m]
    BY <2>1, <2>2, <2>3, <2>5
  <2>6. CASE f[m] < f[k + 1]
    <3>1. \A i \in 1..(k + 1) : f[i] <= f[k + 1]
      BY <2>1, <2>2, <2>4, <2>6
    <3> QED BY <2>1, <3>1
  <2> QED BY <2>4, <2>5, <2>6
<1>3. \A k \in 1..n : k \in S
  <2>1. 1 \in Int /\ n \in Int
    OBVIOUS
  <2> HIDE DEF S
  <2> QED BY <1>1, <1>2, <2>1, StepByStep
<1>4. PICK m \in 1..n : \A i \in 1..n : f[i] <= f[m]
  <2>1. n \in 1..n
    OBVIOUS
  <2>2. Has(n)
    BY <1>3, <2>1
  <2> QED BY <2>2
<1> DEFINE values == {f[i] : i \in 1..n}
<1>5. values \subseteq Int /\ f[m] \in values /\ \A x \in values : x <= f[m]
  BY <1>4
<1>6. Max(values) = f[m]
  <2> HIDE DEF values
  <2> QED BY <1>5, GreatestIs
<1> QED BY <1>4, <1>5, <1>6

-----------------------------------------------------------------------------
(* The calibration is the lower hull of the running totals.                 *)

Totals == [b \in 1..11 |-> Bucket(b - 1).total]
Weights == [b \in 1..11 |-> Bucket(b - 1).weight]
RunningTotal == [n \in 0..11 |-> SumFunctionOnSet(Totals, 1..n)]
RunningWeight == [n \in 0..11 |-> SumFunctionOnSet(Weights, 1..n)]

LEMMA BucketsAreTyped ==
  ASSUME LabelsFinite, Valued
  PROVE  /\ Totals \in [1..11 -> Int] /\ Weights \in [1..11 -> Int]
         /\ \A b \in 1..11 : Weights[b] \in Nat \ {0}
<1>1. \A b \in 1..11 : b - 1 \in 0..10
  OBVIOUS
<1>2. \A b \in 1..11 : Bucket(b - 1).total \in Int /\ Bucket(b - 1).weight \in Nat \ {0}
  BY <1>1, BucketIsBlock DEF Blocks
<1> QED BY <1>2 DEF Totals, Weights

LEMMA TotalsRun ==
  ASSUME LabelsFinite, Valued
  PROVE  Running(RunningTotal, RunningWeight)
<1>1. Totals \in [1..11 -> Int] /\ Weights \in [1..11 -> Int] /\ \A b \in 1..11 : Weights[b] \in Nat \ {0}
  BY BucketsAreTyped
<1>2. RunningTotal \in [0..11 -> Int] /\ RunningWeight \in [0..11 -> Int]
  <2>1. 1 \in 1..11
    OBVIOUS
  <2>2. \A n \in 0..11 : SumFunctionOnSet(Totals, 1..n) \in Int /\ SumFunctionOnSet(Weights, 1..n) \in Int
    BY <1>1, <2>1, RangeSumIsInt
  <2> QED BY <2>2 DEF RunningTotal, RunningWeight
<1>3. ASSUME NEW a \in 0..11, NEW b \in 0..11, a <= b PROVE RunningWeight[a] <= RunningWeight[b]
  <2>1. CASE a = b
    <3>1. RunningWeight[a] \in Int
      BY <1>2
    <3> QED BY <2>1, <3>1
  <2>2. CASE a < b
    <3> DEFINE i == a + 1
               W == i..b
    <3>1. i \in 1..11 /\ i - 1 = a /\ i - 1 <= b
      BY <2>2
    <3> HIDE DEF i
    <3>2. SumFunctionOnSet(Weights, i..b) = RunningWeight[b] - RunningWeight[a]
      <4>1. SumFunctionOnSet(Weights, i..b) = SumFunctionOnSet(Weights, 1..b) - SumFunctionOnSet(Weights, 1..(i - 1))
        BY <1>1, <3>1, RangeSums
      <4> QED BY <3>1, <4>1 DEF RunningWeight
    <3>3. IsFiniteSet(W) /\ \A x \in W : Weights[x] \in Int /\ Weights[x] >= 0
      <4>1. IsFiniteSet(i..b)
        BY <3>1, FS_Interval
      <4>2. \A x \in i..b : x \in 1..11
        BY <3>1
      <4>3. \A x \in i..b : Weights[x] \in Nat
        BY <1>1, <4>2
      <4>4. \A x \in W : Weights[x] \in Nat
        BY <4>3
      <4>5. \A w \in Nat : w \in Int /\ w >= 0
        OBVIOUS
      <4> HIDE DEF W
      <4> QED BY <4>1, <4>4, <4>5 DEF W
    <3> HIDE DEF W
    <3>4. SumFunctionOnSet(Weights, W) \in Int /\ SumFunctionOnSet(Weights, W) >= 0
      BY <3>3, SumIsInt, SumKeepsSign
    <3>5. RunningWeight[a] \in Int /\ RunningWeight[b] \in Int
      BY <1>2
    <3> QED BY <3>2, <3>4, <3>5 DEF W
  <2> QED BY <1>3, <2>1, <2>2
<1> QED BY <1>2, <1>3 DEF Running

LEMMA BucketIsChord ==
  ASSUME LabelsFinite, Valued, NEW n \in 0..10
  PROVE  Chord(Bucket(n), RunningTotal, RunningWeight) /\ Bucket(n).first = n /\ Bucket(n).last = n
<1> DEFINE x == Bucket(n)
<1>1. x \in Blocks /\ x.first = n /\ x.last = n
  BY BucketIsBlock
<1>2. n \in 0..11 /\ n + 1 \in 0..11 /\ n + 1 \in 1..11 /\ (n + 1) - 1 = n /\ 1 \in 1..11 /\ 1 <= n + 1
  OBVIOUS
<1>3. Totals \in [1..11 -> Int] /\ Weights \in [1..11 -> Int]
  BY BucketsAreTyped
<1>4. /\ RunningTotal[n + 1] = Totals[n + 1] + RunningTotal[n]
      /\ RunningWeight[n + 1] = Weights[n + 1] + RunningWeight[n]
  <2>1. SumFunctionOnSet(Totals, 1..(n + 1)) = Totals[n + 1] + SumFunctionOnSet(Totals, 1..n)
    BY <1>2, <1>3, RangeSumGrows, ZenonT(60)
  <2>2. SumFunctionOnSet(Weights, 1..(n + 1)) = Weights[n + 1] + SumFunctionOnSet(Weights, 1..n)
    BY <1>2, <1>3, RangeSumGrows, ZenonT(60)
  <2> QED BY <1>2, <2>1, <2>2 DEF RunningTotal, RunningWeight
<1>5. Totals[n + 1] = x.total /\ Weights[n + 1] = x.weight
  BY <1>2 DEF Totals, Weights
<1> HIDE DEF x
<1>6. /\ RunningTotal[n] \in Int /\ RunningWeight[n] \in Int
      /\ RunningTotal[n + 1] \in Int /\ RunningWeight[n + 1] \in Int
  BY <1>2, TotalsRun DEF Running
<1>7. x.total \in Int /\ x.weight \in Int
  BY <1>1 DEF Blocks
<1>8. x.total = RunningTotal[n + 1] - RunningTotal[n] /\ x.weight = RunningWeight[n + 1] - RunningWeight[n]
  BY <1>4, <1>5, <1>6, <1>7
<1>9. Spans(x, RunningTotal, RunningWeight)
  BY <1>1, <1>2, <1>8 DEF Spans
<1>10. NotUnder(x, n, RunningTotal, RunningWeight) /\ NotUnder(x, n + 1, RunningTotal, RunningWeight)
  <2>1. NotUnder(x, n, RunningTotal, RunningWeight)
    <3>1. RunningWeight[n] - RunningWeight[n] = 0 /\ RunningTotal[n] - RunningTotal[n] = 0
      BY <1>6
    <3>2. x.total * 0 <= 0 * x.weight
      BY <1>7
    <3> QED BY <1>1, <3>1, <3>2 DEF NotUnder
  <2>2. NotUnder(x, n + 1, RunningTotal, RunningWeight)
    <3>1. x.total * x.weight <= x.total * x.weight
      BY <1>7
    <3> QED BY <1>1, <1>8, <3>1 DEF NotUnder
  <2> QED BY <2>1, <2>2
<1>11. \A b \in x.first..(x.last + 1) : b = n \/ b = n + 1
  BY <1>1
<1>12. Chord(x, RunningTotal, RunningWeight)
  BY <1>1, <1>9, <1>10, <1>11 DEF Chord
<1> QED BY <1>1, <1>12 DEF x

LEMMA PooledIs ==
  ASSUME LabelsFinite, Valued
  PROVE  Pooled[0] = <<>> /\ \A n \in 0..10 : Pooled[n + 1] = PoolAdjacent(Pooled[n], Bucket(n))
<1> DEFINE V == Seq(Blocks)
           Only(n, x) == CHOOSE blocks \in {PoolAdjacent(done, new) : done \in {x}, new \in {Bucket(n - 1)}} : TRUE
           Unfolded(g) == [n \in 0..11 |-> IF n = 0 THEN <<>> ELSE Only(n, g[n - 1])]
           step == [n \in 0..11 |-> [x \in V |-> IF n = 0 THEN <<>> ELSE PoolAdjacent(x, Bucket(n - 1))]]
<1>1. ASSUME NEW n, NEW x PROVE Only(n, x) = PoolAdjacent(x, Bucket(n - 1))
  <2>1. {PoolAdjacent(done, new) : done \in {x}, new \in {Bucket(n - 1)}} = {PoolAdjacent(x, Bucket(n - 1))}
    OBVIOUS
  <2>2. Only(n, x) \in {PoolAdjacent(done, new) : done \in {x}, new \in {Bucket(n - 1)}}
    BY <2>1
  <2> QED BY <2>1, <2>2
<1>2. ASSUME NEW x \in Seq(Blocks), NEW y \in Blocks PROVE PoolAdjacent(x, y) \in Seq(Blocks)
  <2>1. PICK taken, most : TakesIn(x, y, taken, most)
    BY BlocksAreTaken
  <2>2. /\ Len(x) \in Nat /\ most \in 0..Len(x) /\ taken[most] \in Blocks
        /\ PoolAdjacent(x, y) = Append(SubSeq(x, 1, Len(x) - most), taken[most])
    <3>1. Len(x) \in Nat
      OBVIOUS
    <3>2. /\ most \in 0..Len(x) /\ taken \in [0..Len(x) -> Blocks]
          /\ PoolAdjacent(x, y) = Append(SubSeq(x, 1, Len(x) - most), taken[most])
      BY <2>1 DEF TakesIn
    <3> QED BY <3>1, <3>2
  <2>3. SubSeq(x, 1, Len(x) - most) \in Seq(Blocks)
    <3>1. Len(x) - most \in 0..Len(x)
      BY <2>2
    <3> QED BY <3>1
  <2> QED BY <2>2, <2>3
<1>3. step \in [0..11 -> [V -> V]]
  <2>1. \A n \in 0..11 : n # 0 => n - 1 \in 0..10
    OBVIOUS
  <2>2. \A n \in 0..11, x \in V : n # 0 => PoolAdjacent(x, Bucket(n - 1)) \in V
    BY <1>2, <2>1, BucketIsBlock
  <2>3. <<>> \in V
    OBVIOUS
  <2> HIDE DEF V
  <2> QED BY <2>2, <2>3
<1>4. PICK g \in [0..11 -> V] : Follows(g, <<>>, step, 0, 11)
  <2>1. 0 \in Int /\ 11 \in Int /\ <<>> \in V
    OBVIOUS
  <2> HIDE DEF step, V
  <2> QED BY <1>3, <2>1, RecursionExists
<1>5. g = Unfolded(g)
  <2>1. g = [n \in 0..11 |-> IF n = 0 THEN <<>> ELSE step[n][g[n - 1]]]
    BY <1>4 DEF Follows
  <2>2. \A n \in 0..11 : n # 0 => step[n][g[n - 1]] = PoolAdjacent(g[n - 1], Bucket(n - 1))
    <3>1. \A n \in 0..11 : n # 0 => n - 1 \in 0..11
      OBVIOUS
    <3> HIDE DEF V
    <3> QED BY <1>4, <3>1
  <2> HIDE DEF step, Only
  <2>3. g = [n \in 0..11 |-> IF n = 0 THEN <<>> ELSE Only(n, g[n - 1])]
    BY <1>1, <2>1, <2>2
  <2> QED BY <2>3
<1> DEFINE f == CHOOSE h : h = Unfolded(h)
<1>6. f = Unfolded(f)
  <2> HIDE DEF Only, step, V
  <2> QED BY <1>5
<1>7. Pooled = f
  BY DEF Pooled
<1> HIDE DEF f
<1> HIDE DEF Only
<1>8. Pooled = [n \in 0..11 |-> IF n = 0 THEN <<>> ELSE PoolAdjacent(Pooled[n - 1], Bucket(n - 1))]
  BY <1>1, <1>6, <1>7
<1>9. \A n \in 0..10 : n + 1 \in 0..11 /\ n + 1 # 0 /\ (n + 1) - 1 = n
  OBVIOUS
<1> QED BY <1>8, <1>9

LEMMA CalibrationIsHull ==
  ASSUME LabelsFinite, Valued
  PROVE  Hull(Pooled[11], 11, RunningTotal, RunningWeight)
<1> DEFINE S == {n \in 0..11 : Hull(Pooled[n], n, RunningTotal, RunningWeight)}
<1>1. 0 \in S
  <2>1. Pooled[0] = <<>>
    BY PooledIs
  <2>2. <<>> \in Seq(Blocks) /\ Len(<<>>) = 0 /\ DOMAIN <<>> = {}
    OBVIOUS
  <2>3. \A b \in 0..(0 - 1) : FALSE
    OBVIOUS
  <2>4. \A i \in 1..(0 - 1) : FALSE
    OBVIOUS
  <2>5. Hull(<<>>, 0, RunningTotal, RunningWeight)
    BY <2>2, <2>3, <2>4 DEF Hull
  <2> QED BY <2>1, <2>5
<1>2. ASSUME NEW n \in 0..11, n < 11, n \in S PROVE n + 1 \in S
  <2>1. n \in 0..10 /\ n + 1 \in 0..11 /\ Hull(Pooled[n], n, RunningTotal, RunningWeight)
    BY <1>2
  <2>2. Pooled[n + 1] = PoolAdjacent(Pooled[n], Bucket(n))
    BY <2>1, PooledIs
  <2>3. Chord(Bucket(n), RunningTotal, RunningWeight) /\ Bucket(n).first = n /\ Bucket(n).last = n
    BY <2>1, BucketIsChord
  <2>4. Running(RunningTotal, RunningWeight)
    BY TotalsRun
  <2>5. Hull(PoolAdjacent(Pooled[n], Bucket(n)), n + 1, RunningTotal, RunningWeight)
    BY <2>1, <2>3, <2>4, HullGrows
  <2> QED BY <2>1, <2>2, <2>5
<1>3. \A n \in 0..11 : n \in S
  <2>1. 0 \in Int /\ 11 \in Int
    OBVIOUS
  <2> HIDE DEF S
  <2> QED BY <1>1, <1>2, <2>1, StepByStep
<1>4. 11 \in 0..11
  OBVIOUS
<1> QED BY <1>3, <1>4

Drawn == Pooled[11]
MeanOf(i, j) == (100 * (RunningTotal[j] - RunningTotal[i - 1])) \div (RunningWeight[j] - RunningWeight[i - 1])

LEMMA SpansOf ==
  ASSUME LabelsFinite, Valued, NEW i \in 1..11, NEW j \in i..11
  PROVE  /\ RunningTotal[j] \in Int /\ RunningTotal[i - 1] \in Int
         /\ RunningWeight[j] \in Int /\ RunningWeight[i - 1] \in Int
         /\ RunningWeight[j] - RunningWeight[i - 1] \in Nat \ {0}
<1> DEFINE k == i - 1
<1>1. k \in 0..10 /\ k \in 0..11 /\ k + 1 = i /\ i \in 0..11 /\ j \in 0..11 /\ i <= j /\ 1 \in 1..11 /\ 1 <= k + 1
  OBVIOUS
<1> HIDE DEF k
<1>2. RunningWeight[i] <= RunningWeight[j] /\ \A n \in 0..11 : RunningTotal[n] \in Int /\ RunningWeight[n] \in Int
  BY <1>1, TotalsRun DEF Running
<1>3. RunningWeight[i] = Weights[i] + RunningWeight[k] /\ Weights[i] \in Nat \ {0}
  <2>1. Weights \in [1..11 -> Int] /\ Weights[i] \in Nat \ {0}
    BY BucketsAreTyped
  <2>2. SumFunctionOnSet(Weights, 1..(k + 1)) = Weights[k + 1] + SumFunctionOnSet(Weights, 1..k)
    BY <1>1, <2>1, RangeSumGrows
  <2> QED BY <1>1, <2>1, <2>2 DEF RunningWeight
<1>4. /\ RunningTotal[j] \in Int /\ RunningTotal[k] \in Int
      /\ RunningWeight[j] \in Int /\ RunningWeight[k] \in Int /\ RunningWeight[i] \in Int
  BY <1>1, <1>2
<1>5. RunningWeight[j] - RunningWeight[k] \in Nat \ {0}
  BY <1>2, <1>3, <1>4
<1> QED BY <1>4, <1>5 DEF k

\* A bucket's value is the mean of the block that it is in.
LEMMA ValueIsMean ==
  ASSUME LabelsFinite, Valued, NEW b \in 0..10
  PROVE  \E k \in DOMAIN Drawn : b \in Drawn[k].first..Drawn[k].last /\ CalibrationAt(Drawn, b) = Mean(Drawn[k])
<1>1. Hull(Drawn, 11, RunningTotal, RunningWeight)
  BY CalibrationIsHull DEF Drawn
<1>2. b \in 0..(11 - 1)
  OBVIOUS
<1>3. \E k \in DOMAIN Drawn : b \in Drawn[k].first..Drawn[k].last
  BY <1>1, <1>2 DEF Hull
<1>4. ToSet(Drawn) = {Drawn[k] : k \in DOMAIN Drawn}
  BY DEF ToSet
<1> DEFINE x == CHOOSE block \in ToSet(Drawn) : b \in block.first..block.last
<1>5. x \in ToSet(Drawn) /\ b \in x.first..x.last
  BY <1>3, <1>4
<1>6. CalibrationAt(Drawn, b) = Mean(x)
  BY DEF CalibrationAt
<1> HIDE DEF x
<1> QED BY <1>4, <1>5, <1>6

LEMMA ValuesGrow ==
  ASSUME LabelsFinite, Valued, NEW b \in 0..10, NEW c \in 0..10, b <= c
  PROVE  /\ CalibrationAt(Drawn, b) \in Int /\ CalibrationAt(Drawn, c) \in Int
         /\ CalibrationAt(Drawn, b) <= CalibrationAt(Drawn, c)
<1>1. Hull(Drawn, 11, RunningTotal, RunningWeight)
  BY CalibrationIsHull DEF Drawn
<1>2. PICK k \in DOMAIN Drawn : b \in Drawn[k].first..Drawn[k].last /\ CalibrationAt(Drawn, b) = Mean(Drawn[k])
  BY ValueIsMean
<1>3. PICK n \in DOMAIN Drawn : c \in Drawn[n].first..Drawn[n].last /\ CalibrationAt(Drawn, c) = Mean(Drawn[n])
  BY ValueIsMean
<1>4. /\ Drawn[k] \in Blocks /\ Spans(Drawn[k], RunningTotal, RunningWeight)
      /\ Drawn[n] \in Blocks /\ Spans(Drawn[n], RunningTotal, RunningWeight)
  <2>1. /\ Drawn \in Seq(Blocks)
        /\ \A m \in DOMAIN Drawn : Spans(Drawn[m], RunningTotal, RunningWeight)
    BY <1>1 DEF Hull
  <2>2. \A m \in DOMAIN Drawn : Drawn[m] \in Blocks
    BY <2>1
  <2> QED BY <2>1, <2>2
<1>5. k \in Nat /\ n \in Nat
  <2>1. Drawn \in Seq(Blocks)
    BY <1>1 DEF Hull
  <2>2. DOMAIN Drawn = 1..Len(Drawn) /\ Len(Drawn) \in Nat
    BY <2>1
  <2> QED BY <2>2
<1>6. ~(n < k)
  <2>1. SUFFICES ASSUME n < k PROVE FALSE
    OBVIOUS
  <2>2. Drawn[n].last < Drawn[k].first
    BY <1>1, <2>1 DEF Hull
  <2>3. Drawn[n].last \in 0..10 /\ Drawn[k].first \in 0..10 /\ Drawn[n].first \in 0..10 /\ Drawn[k].last \in 0..10
    BY <1>4 DEF Spans
  <2>4. Drawn[k].first <= b /\ c <= Drawn[n].last
    BY <1>2, <1>3, <2>3
  <2> QED BY <2>2, <2>3, <2>4
<1> DEFINE t1 == Drawn[k].total
           w1 == Drawn[k].weight
           t2 == Drawn[n].total
           w2 == Drawn[n].weight
<1>7. t1 \in Int /\ w1 \in Nat \ {0} /\ t2 \in Int /\ w2 \in Nat \ {0}
  BY <1>4 DEF Blocks
<1>8. t1 * w2 <= t2 * w1
  <2>1. CASE k = n
    <3>1. t1 * w1 \in Int
      BY <1>7
    <3> QED BY <2>1, <3>1
  <2>2. CASE k # n
    <3>1. k < n
      BY <1>5, <1>6, <2>2
    <3> QED BY <1>1, <3>1 DEF Hull, Rises
  <2> QED BY <2>1, <2>2
<1>9. Mean(Drawn[k]) = (100 * t1) \div w1 /\ Mean(Drawn[n]) = (100 * t2) \div w2
  BY DEF Mean
<1> HIDE DEF t1, w1, t2, w2
<1>10. (100 * t1) \div w1 \in Int /\ (100 * t2) \div w2 \in Int /\ (100 * t1) \div w1 <= (100 * t2) \div w2
  BY <1>7, <1>8, MeansOrdered
<1> QED BY <1>2, <1>3, <1>9, <1>10

\* No mean that ends with a block is above its own, and none that begins with
\* one is below.
LEMMA BlockMeans ==
  ASSUME LabelsFinite, Valued, NEW k \in DOMAIN Drawn
  PROVE  /\ Drawn[k].first \in 0..10 /\ Drawn[k].last \in 0..10 /\ Drawn[k].first <= Drawn[k].last
         /\ Mean(Drawn[k]) \in Int
         /\ Mean(Drawn[k]) = MeanOf(Drawn[k].first + 1, Drawn[k].last + 1)
         /\ \A i \in 1..(Drawn[k].last + 1) :
              MeanOf(i, Drawn[k].last + 1) \in Int /\ MeanOf(i, Drawn[k].last + 1) <= Mean(Drawn[k])
         /\ \A j \in (Drawn[k].first + 1)..11 :
              MeanOf(Drawn[k].first + 1, j) \in Int /\ Mean(Drawn[k]) <= MeanOf(Drawn[k].first + 1, j)
<1> DEFINE x == Drawn[k]
           f == x.first
           l == x.last
           t == x.total
           w == x.weight
<1>1. Hull(Drawn, 11, RunningTotal, RunningWeight)
  BY CalibrationIsHull DEF Drawn
<1>2. x \in Blocks /\ Spans(x, RunningTotal, RunningWeight) /\ \A b \in 0..11 : NotUnder(x, b, RunningTotal, RunningWeight)
  BY <1>1 DEF Hull
<1>3. f \in 0..10 /\ l \in 0..10 /\ f <= l /\ t = RunningTotal[l + 1] - RunningTotal[f] /\ w = RunningWeight[l + 1] - RunningWeight[f]
  BY <1>2 DEF Spans
<1>4. t \in Int /\ w \in Nat \ {0}
  BY <1>2 DEF Blocks
<1>5. \A b \in 0..11 : t * (RunningWeight[b] - RunningWeight[f]) <= (RunningTotal[b] - RunningTotal[f]) * w
  BY <1>2 DEF NotUnder
<1>6. Mean(x) = (100 * t) \div w
  BY DEF Mean
<1> HIDE DEF x, f, l, t, w
<1>7. \A n \in 0..11 : RunningTotal[n] \in Int /\ RunningWeight[n] \in Int
  BY TotalsRun DEF Running
<1>8. Mean(x) \in Int /\ Mean(x) = MeanOf(f + 1, l + 1)
  <2>1. (f + 1) - 1 = f
    BY <1>3
  <2>2. (100 * t) \div w \in Int
    BY <1>4
  <2> QED BY <1>3, <1>6, <2>1, <2>2 DEF MeanOf
<1>9. ASSUME NEW i \in 1..(l + 1) PROVE MeanOf(i, l + 1) \in Int /\ MeanOf(i, l + 1) <= Mean(x)
  <2> DEFINE t1 == RunningTotal[l + 1] - RunningTotal[i - 1]
             w1 == RunningWeight[l + 1] - RunningWeight[i - 1]
             u == RunningTotal[i - 1] - RunningTotal[f]
             v == RunningWeight[i - 1] - RunningWeight[f]
  <2>1. i \in 1..11 /\ l + 1 \in i..11 /\ i - 1 \in 0..11 /\ f \in 0..11 /\ l + 1 \in 0..11
    BY <1>3
  <2>2. w1 \in Nat \ {0}
    BY <2>1, SpansOf
  <2>3. t * v <= u * w
    BY <1>5, <2>1
  <2>4. /\ RunningTotal[l + 1] \in Int /\ RunningTotal[i - 1] \in Int /\ RunningTotal[f] \in Int
        /\ RunningWeight[l + 1] \in Int /\ RunningWeight[i - 1] \in Int /\ RunningWeight[f] \in Int
    BY <1>7, <2>1
  <2>5. t1 \in Int /\ u \in Int /\ v \in Int /\ t1 = t - u /\ w1 = w - v
    BY <1>3, <2>4
  <2>6. MeanOf(i, l + 1) = (100 * t1) \div w1
    BY DEF MeanOf
  <2> HIDE DEF t1, w1, u, v
  <2>7. t1 * w <= t * w1
    <3>1. (t - u) * w = t * w - u * w /\ t * (w - v) = t * w - t * v
      BY <1>4, <2>5
    <3>2. t * w \in Int /\ u * w \in Int /\ t * v \in Int
      BY <1>4, <2>5
    <3> QED BY <2>3, <2>5, <3>1, <3>2
  <2>8. t1 \in Int
    BY <2>5
  <2>9. (100 * t1) \div w1 \in Int /\ (100 * t1) \div w1 <= (100 * t) \div w
    BY <1>4, <2>2, <2>7, <2>8, MeansOrdered
  <2> QED BY <1>6, <2>6, <2>9
<1>10. ASSUME NEW j \in (f + 1)..11 PROVE MeanOf(f + 1, j) \in Int /\ Mean(x) <= MeanOf(f + 1, j)
  <2> DEFINE t1 == RunningTotal[j] - RunningTotal[f]
             w1 == RunningWeight[j] - RunningWeight[f]
  <2>1. f + 1 \in 1..11 /\ (f + 1) - 1 = f /\ f \in 0..11 /\ j \in 0..11
    BY <1>3
  <2>2. w1 \in Nat \ {0}
    <3>1. RunningWeight[j] - RunningWeight[(f + 1) - 1] \in Nat \ {0}
      BY <2>1, SpansOf
    <3> QED BY <2>1, <3>1
  <2>3. t * w1 <= t1 * w
    BY <1>5, <2>1
  <2>4. t1 \in Int
    <3>1. RunningTotal[j] \in Int /\ RunningTotal[f] \in Int
      BY <1>7, <2>1
    <3> QED BY <3>1
  <2>5. MeanOf(f + 1, j) = (100 * t1) \div w1
    BY <2>1 DEF MeanOf
  <2> HIDE DEF t1, w1
  <2> QED BY <1>4, <1>6, <2>2, <2>3, <2>4, <2>5, MeansOrdered
<1> QED BY <1>3, <1>8, <1>9, <1>10 DEF x, f, l

LEMMA BucketsInOrder ==
  ASSUME LabelsFinite, Valued
  PROVE  <<>> \o [b \in 1..11 |-> Bucket(b - 1)] = [b \in 1..11 |-> Bucket(b - 1)]
<1> DEFINE f == [b \in 1..11 |-> Bucket(b - 1)]
<1>1. \A b \in 1..11 : b - 1 \in 0..10
  OBVIOUS
<1>2. f \in [1..11 -> Blocks]
  BY <1>1, BucketIsBlock
<1> HIDE DEF f
<1>3. f \in Seq(Blocks) /\ <<>> \in Seq(Blocks)
  <2>1. 11 \in Nat /\ f \in [1..11 -> Blocks]
    BY <1>2
  <2>2. \A B, g : g \in [1..11 -> B] => g \in Seq(B)
    <3>1. SUFFICES ASSUME NEW B, NEW g \in [1..11 -> B] PROVE g \in Seq(B)
      OBVIOUS
    <3>2. \A k \in 1..11 : g[k] \in B
      OBVIOUS
    <3>3. DOMAIN g = 1..11 /\ g = [k \in 1..11 |-> g[k]]
      OBVIOUS
    <3>4. [k \in 1..11 |-> g[k]] \in Seq(B)
      BY <3>2
    <3> QED BY <3>3, <3>4
  <2> QED BY <2>1, <2>2
<1>4. Len(f) = 11
  BY <1>2
<1>5. <<>> \o f = f
  BY <1>3, <1>4
<1> QED BY <1>5 DEF f

RangeMean(buckets, i, j) ==
  Mean([total  |-> SumFunction([b \in i..j |-> buckets[b].total]),
        weight |-> SumFunction([b \in i..j |-> buckets[b].weight])])

LEMMA RangeMeans ==
  ASSUME LabelsFinite, Valued, NEW i \in 1..11, NEW j \in i..11,
         NEW buckets, buckets = [b \in 1..11 |-> Bucket(b - 1)]
  PROVE  RangeMean(buckets, i, j) = MeanOf(i, j)
<1> DEFINE W == i..j
           f == [b \in W |-> buckets[b].total]
           g == [b \in W |-> buckets[b].weight]
<1>1. IsFiniteSet(W) /\ \A b \in W : b \in 1..11
  BY FS_Interval, SMTT(40)
<1>2. Totals \in [1..11 -> Int] /\ Weights \in [1..11 -> Int]
  BY BucketsAreTyped
<1>3. \A b \in W : f[b] = Totals[b] /\ g[b] = Weights[b]
  BY <1>1 DEF Totals, Weights
<1>4. DOMAIN f = W /\ DOMAIN g = W
  OBVIOUS
<1>5. i \in 1..11 /\ j \in 0..11 /\ i - 1 <= j /\ i - 1 \in 0..11
  OBVIOUS
<1>6. /\ SumFunctionOnSet(Totals, W) = RunningTotal[j] - RunningTotal[i - 1]
      /\ SumFunctionOnSet(Weights, W) = RunningWeight[j] - RunningWeight[i - 1]
  <2>1. /\ SumFunctionOnSet(Totals, i..j) = SumFunctionOnSet(Totals, 1..j) - SumFunctionOnSet(Totals, 1..(i - 1))
        /\ SumFunctionOnSet(Weights, i..j) = SumFunctionOnSet(Weights, 1..j) - SumFunctionOnSet(Weights, 1..(i - 1))
    BY <1>2, <1>5, RangeSums
  <2> QED BY <1>5, <2>1 DEF RunningTotal, RunningWeight
<1>7. Mean([total |-> SumFunction(f), weight |-> SumFunction(g)]) = (100 * SumFunction(f)) \div SumFunction(g)
  BY DEF Mean
<1> HIDE DEF f, g, W
<1>8. \A b \in W : f[b] \in Int /\ g[b] \in Int
  BY <1>1, <1>2, <1>3
<1>9. SumFunction(f) = SumFunctionOnSet(Totals, W) /\ SumFunction(g) = SumFunctionOnSet(Weights, W)
  <2>1. SumFunction(f) = SumFunctionOnSet(f, W) /\ SumFunction(g) = SumFunctionOnSet(g, W)
    BY <1>4, SumOverAll
  <2>2. SumFunctionOnSet(f, W) = SumFunctionOnSet(Totals, W)
    BY <1>1, <1>3, <1>8, SumsAgree
  <2>3. SumFunctionOnSet(g, W) = SumFunctionOnSet(Weights, W)
    BY <1>1, <1>3, <1>8, SumsAgree
  <2> QED BY <2>1, <2>2, <2>3
<1>10. (100 * SumFunction(f)) \div SumFunction(g) = MeanOf(i, j)
  BY <1>6, <1>9 DEF MeanOf
<1>11. RangeMean(buckets, i, j) = Mean([total |-> SumFunction(f), weight |-> SumFunction(g)])
  BY DEF RangeMean, f, g, W
<1> QED BY <1>7, <1>10, <1>11

LEMMA MinMax ==
  ASSUME LabelsFinite, Valued, NEW b \in 1..11
  PROVE  CalibrationAt(Drawn, b - 1) = Min({Max({MeanOf(i, j) : i \in 1..b}) : j \in b..11})
<1>1. b - 1 \in 0..10 /\ b \in Nat \ {0}
  OBVIOUS
<1>2. PICK k \in DOMAIN Drawn : /\ b - 1 \in Drawn[k].first..Drawn[k].last
                                /\ CalibrationAt(Drawn, b - 1) = Mean(Drawn[k])
  BY <1>1, ValueIsMean
<1> DEFINE x == Drawn[k]
           f == x.first
           l == x.last
           m == Mean(x)
           top(j) == Max({MeanOf(i, j) : i \in 1..b})
           tops == {top(j) : j \in b..11}
<1>3. /\ f \in 0..10 /\ l \in 0..10 /\ m \in Int /\ m = MeanOf(f + 1, l + 1)
      /\ \A i \in 1..(l + 1) : MeanOf(i, l + 1) \in Int /\ MeanOf(i, l + 1) <= m
      /\ \A j \in (f + 1)..11 : MeanOf(f + 1, j) \in Int /\ m <= MeanOf(f + 1, j)
  BY BlockMeans
<1>4. b - 1 \in f..l
  BY <1>2
<1> HIDE DEF x, f, l, m
<1>5. f + 1 \in 1..b /\ l + 1 \in b..11 /\ \A i \in 1..b : i \in 1..(l + 1)
  BY <1>1, <1>3, <1>4
<1>6. \A i \in 1..b, j \in b..11 : MeanOf(i, j) \in Int
  <2>1. SUFFICES ASSUME NEW i \in 1..b, NEW j \in b..11 PROVE MeanOf(i, j) \in Int
    OBVIOUS
  <2>2. i \in 1..11 /\ j \in i..11
    OBVIOUS
  <2> DEFINE t == RunningTotal[j] - RunningTotal[i - 1]
             w == RunningWeight[j] - RunningWeight[i - 1]
  <2>3. t \in Int /\ w \in Nat \ {0}
    BY <2>2, SpansOf
  <2>4. MeanOf(i, j) = (100 * t) \div w
    BY DEF MeanOf
  <2> HIDE DEF t, w
  <2> QED BY <2>3, <2>4
<1>7. top(l + 1) = m
  <2> DEFINE S == {MeanOf(i, l + 1) : i \in 1..b}
  <2>1. S \subseteq Int /\ m \in S /\ \A y \in S : y <= m
    BY <1>3, <1>5
  <2> HIDE DEF S
  <2>2. Max(S) = m
    BY <2>1, GreatestIs
  <2> QED BY <2>2 DEF S
<1>8. ASSUME NEW j \in b..11 PROVE top(j) \in Int /\ m <= top(j)
  <2> DEFINE g == [i \in 1..b |-> MeanOf(i, j)]
  <2>1. g \in [1..b -> Int]
    BY <1>6
  <2>2. {g[i] : i \in 1..b} = {MeanOf(i, j) : i \in 1..b}
    OBVIOUS
  <2>3. g[f + 1] = MeanOf(f + 1, j)
    BY <1>5
  <2> HIDE DEF g
  <2>4. Max({g[i] : i \in 1..b}) \in Int /\ \A i \in 1..b : g[i] <= Max({g[i2] : i2 \in 1..b})
    BY <1>1, <2>1, SomeIsGreatest
  <2>5. top(j) \in Int /\ MeanOf(f + 1, j) <= top(j)
    BY <1>5, <2>2, <2>3, <2>4
  <2>6. j \in (f + 1)..11
    BY <1>3, <1>5
  <2>7. MeanOf(f + 1, j) \in Int /\ m <= MeanOf(f + 1, j)
    BY <1>3, <2>6
  <2> HIDE DEF top
  <2> QED BY <1>3, <2>5, <2>7
<1>9. tops \subseteq Int /\ m \in tops /\ \A y \in tops : m <= y
  <2> HIDE DEF top
  <2> QED BY <1>5, <1>7, <1>8
<1> HIDE DEF tops
<1>10. Min(tops) = m
  BY <1>9, LeastIs
<1> QED BY <1>2, <1>10 DEF m, x, tops

LEMMA LineRises ==
  ASSUME NEW n \in 0..19
  PROVE  /\ RatingLine(5 * n) \in Int /\ RatingLine(5 * n + 5) \in Int
         /\ RatingLine(5 * n) <= RatingLine(5 * n + 5)
<1>1. (5 * n - 50) \div 5 = n - 10 /\ ((5 * n + 5) - 50) \div 5 = n - 9
  OBVIOUS
<1>2. Clamp(n - 10) \in Int /\ Clamp(n - 9) \in Int /\ Clamp(n - 10) <= Clamp(n - 9)
  BY DEF Clamp, Greatest, Least
<1> QED BY <1>1, <1>2 DEF RatingLine

\* Half way between two values is between them.
Between(r) ==
  LET low == r \div 10
  IN CalibrationAt(Drawn, low)
     + ((r - 10 * low) * (CalibrationAt(Drawn, Least(low + 1, 10)) - CalibrationAt(Drawn, low))) \div 10

LEMMA BetweenIs ==
  ASSUME LabelsFinite, Valued, NEW m \in 0..10
  PROVE  /\ CalibrationAt(Drawn, m) \in Int
         /\ Between(10 * m) = CalibrationAt(Drawn, m)
         /\ m < 10 => /\ Between(10 * m + 5) \in Int
                      /\ CalibrationAt(Drawn, m) <= Between(10 * m + 5)
                      /\ Between(10 * m + 5) <= CalibrationAt(Drawn, m + 1)
<1> DEFINE c == CalibrationAt(Drawn, m)
           up == CalibrationAt(Drawn, Least(m + 1, 10))
<1>1. Least(m + 1, 10) \in 0..10 /\ m <= Least(m + 1, 10) /\ (m < 10 => Least(m + 1, 10) = m + 1)
  BY DEF Least
<1>2. c \in Int /\ up \in Int /\ c <= up
  BY <1>1, ValuesGrow
<1>3. (10 * m) \div 10 = m /\ (10 * m + 5) \div 10 = m /\ 10 * m - 10 * m = 0 /\ (10 * m + 5) - 10 * m = 5
  OBVIOUS
<1>4. Between(10 * m) = c + (0 * (up - c)) \div 10
  BY <1>3 DEF Between
<1>5. Between(10 * m + 5) = c + (5 * (up - c)) \div 10
  BY <1>3 DEF Between
<1>6. m < 10 => up = CalibrationAt(Drawn, m + 1)
  BY <1>1
<1> HIDE DEF c, up
<1> DEFINE d == up - c
<1>7. d \in Nat
  BY <1>2
<1>8. c + d = up
  BY <1>2
<1> HIDE DEF d
<1>9. (0 * d) \div 10 = 0 /\ (5 * d) \div 10 \in Nat /\ (5 * d) \div 10 <= d
  BY <1>7
<1>10. Between(10 * m) = c + (0 * d) \div 10 /\ Between(10 * m + 5) = c + (5 * d) \div 10
  BY <1>4, <1>5 DEF d
<1>11. Between(10 * m) = c
  BY <1>2, <1>9, <1>10
<1>12. Between(10 * m + 5) \in Int /\ c <= Between(10 * m + 5) /\ Between(10 * m + 5) <= up
  BY <1>2, <1>7, <1>8, <1>9, <1>10
<1> QED BY <1>2, <1>6, <1>11, <1>12 DEF c

LEMMA BetweenGrows ==
  ASSUME LabelsFinite, Valued, NEW n \in 0..19
  PROVE  Between(5 * n) \in Int /\ Between(5 * n + 5) \in Int /\ Between(5 * n) <= Between(5 * n + 5)
<1>1. PICK m \in 0..9 : n = 2 * m \/ n = 2 * m + 1
  <2>1. n \div 2 \in 0..9 /\ (n = 2 * (n \div 2) \/ n = 2 * (n \div 2) + 1)
    OBVIOUS
  <2> QED BY <2>1
<1>2. m \in 0..10 /\ m + 1 \in 0..10 /\ m < 10
  OBVIOUS
<1>3. /\ CalibrationAt(Drawn, m) \in Int /\ CalibrationAt(Drawn, m + 1) \in Int
      /\ Between(10 * m) = CalibrationAt(Drawn, m) /\ Between(10 * (m + 1)) = CalibrationAt(Drawn, m + 1)
      /\ Between(10 * m + 5) \in Int
      /\ CalibrationAt(Drawn, m) <= Between(10 * m + 5) /\ Between(10 * m + 5) <= CalibrationAt(Drawn, m + 1)
  BY <1>2, BetweenIs
<1>4. CASE n = 2 * m
  <2>1. 5 * n = 10 * m /\ 5 * n + 5 = 10 * m + 5
    BY <1>4
  <2> QED BY <1>3, <2>1
<1>5. CASE n = 2 * m + 1
  <2>1. 5 * n = 10 * m + 5 /\ 5 * n + 5 = 10 * (m + 1)
    BY <1>5
  <2> QED BY <1>3, <2>1
<1> QED BY <1>1, <1>4, <1>5

LEMMA RatingsGrow ==
  ASSUME LabelsFinite, Valued, NEW n \in 0..19
  PROVE  /\ CalibratedRating(5 * n, Drawn) <= CalibratedRating(5 * n + 5, Drawn)
         /\ CalibratedRating(5 * n, Drawn) >= 100 * RatingLine(5 * n)
         /\ CalibratedRating(5 * n + 5, Drawn) >= 100 * RatingLine(5 * n + 5)
<1> DEFINE p == Between(5 * n)
           q == Between(5 * n + 5)
           x == RatingLine(5 * n)
           y == RatingLine(5 * n + 5)
<1>1. p \in Int /\ q \in Int /\ p <= q
  BY BetweenGrows
<1>2. x \in Int /\ y \in Int /\ x <= y
  BY LineRises
<1>3. /\ CalibratedRating(5 * n, Drawn) = Greatest(100 * x, Greatest(0 - 1000, Least(1000, p)))
      /\ CalibratedRating(5 * n + 5, Drawn) = Greatest(100 * y, Greatest(0 - 1000, Least(1000, q)))
  BY DEF CalibratedRating, Between
<1> HIDE DEF p, q, x, y
<1>4. /\ Greatest(100 * x, Greatest(0 - 1000, Least(1000, p))) <= Greatest(100 * y, Greatest(0 - 1000, Least(1000, q)))
      /\ Greatest(100 * x, Greatest(0 - 1000, Least(1000, p))) >= 100 * x
      /\ Greatest(100 * y, Greatest(0 - 1000, Least(1000, q))) >= 100 * y
  BY <1>1, <1>2, SMTT(40) DEF Greatest, Least
<1> QED BY <1>3, <1>4 DEF x, y

\* The calibration is the isotonic regression, grows, and keeps to the line.
LEMMA RatingsAreCalibrated ==
  ASSUME LabelsFinite, Valued PROVE CalibrationIsIsotonic
<1>0. SUFFICES ASSUME NEW buckets \in {<<>> \o [b \in 1..11 |-> Bucket(b - 1)]}, NEW blocks \in {Pooled[11]}
               PROVE  LET mean(i, j) == Mean([total  |-> SumFunction([b \in i..j |-> buckets[b].total]),
                                              weight |-> SumFunction([b \in i..j |-> buckets[b].weight])])
                      IN /\ \A b \in 1..11 : CalibrationAt(blocks, b - 1)
                                                 = Min({Max({mean(i, j) : i \in 1..b}) : j \in b..11})
                         /\ \A n \in 0..19 : CalibratedRating(5 * n, blocks) <= CalibratedRating(5 * n + 5, blocks)
                         /\ \A n \in 0..20 : CalibratedRating(5 * n, blocks) >= 100 * RatingLine(5 * n)
  BY DEF CalibrationIsIsotonic
<1>1. buckets = [b \in 1..11 |-> Bucket(b - 1)] /\ blocks = Drawn
  BY BucketsInOrder DEF Drawn
<1> DEFINE mean(i, j) == Mean([total  |-> SumFunction([b \in i..j |-> buckets[b].total]),
                               weight |-> SumFunction([b \in i..j |-> buckets[b].weight])])
<1>2. \A b \in 1..11 : CalibrationAt(Drawn, b - 1) = Min({Max({mean(i, j) : i \in 1..b}) : j \in b..11})
  <2>1. SUFFICES ASSUME NEW b \in 1..11
                 PROVE  CalibrationAt(Drawn, b - 1) = Min({Max({mean(i, j) : i \in 1..b}) : j \in b..11})
    OBVIOUS
  <2>2. \A i \in 1..11, j \in 1..11 : i <= j => mean(i, j) = MeanOf(i, j)
    <3>1. SUFFICES ASSUME NEW i \in 1..11, NEW j \in 1..11, i <= j PROVE mean(i, j) = MeanOf(i, j)
      OBVIOUS
    <3>2. j \in i..11
      BY <3>1
    <3>3. RangeMean(buckets, i, j) = MeanOf(i, j)
      BY <1>1, <3>2, RangeMeans
    <3>4. mean(i, j) = RangeMean(buckets, i, j)
      BY DEF RangeMean
    <3> QED BY <3>3, <3>4, SMTT(40)
  <2>3. \A i \in 1..b, j \in b..11 : mean(i, j) = MeanOf(i, j)
    <3>1. \A i \in 1..b, j \in b..11 : i \in 1..11 /\ j \in 1..11 /\ i <= j
      OBVIOUS
    <3> HIDE DEF mean
    <3> QED BY <2>2, <3>1
  <2> HIDE DEF mean
  <2>4. \A j \in b..11 : {mean(i, j) : i \in 1..b} = {MeanOf(i, j) : i \in 1..b}
    BY <2>3
  <2>5. {Max({mean(i, j) : i \in 1..b}) : j \in b..11} = {Max({MeanOf(i, j) : i \in 1..b}) : j \in b..11}
    BY <2>4, ZenonT(60)
  <2>6. CalibrationAt(Drawn, b - 1) = Min({Max({MeanOf(i, j) : i \in 1..b}) : j \in b..11})
    BY MinMax
  <2> QED BY <2>5, <2>6
<1>3. \A n \in 0..19 : CalibratedRating(5 * n, Drawn) <= CalibratedRating(5 * n + 5, Drawn)
  BY RatingsGrow
<1>4. \A n \in 0..20 : CalibratedRating(5 * n, Drawn) >= 100 * RatingLine(5 * n)
  <2>1. SUFFICES ASSUME NEW n \in 0..20 PROVE CalibratedRating(5 * n, Drawn) >= 100 * RatingLine(5 * n)
    OBVIOUS
  <2>2. CASE n \in 0..19
    BY <2>2, RatingsGrow
  <2>3. CASE n = 20
    <3>1. 19 \in 0..19 /\ 5 * n = 5 * 19 + 5
      BY <2>3
    <3>2. CalibratedRating(5 * 19 + 5, Drawn) >= 100 * RatingLine(5 * 19 + 5)
      BY <3>1, RatingsGrow
    <3> QED BY <3>1, <3>2
  <2> QED BY <2>2, <2>3
<1> QED BY <1>1, <1>2, <1>3, <1>4, ZenonT(60)

-----------------------------------------------------------------------------
(* Together: what the topics write of is kept for every step of the whole.  *)

\* The labels and the affinities, in every reachable state.
LabelsTyped == rows \in [EvidenceId -> Row \union {NoEvidence}]
WeighedInv == LabelsTyped /\ TypeOKAffinities

LEMMA RowsAreValued ==
  ASSUME LabelsTyped PROVE Valued
<1>1. ASSUME NEW row \in Row, Speaks(row) PROVE Value(row) \in Int
  <2>1. \A up \in BOOLEAN : Thumb(up) \in Int
    BY DEF Thumb
  <2>2. CASE row \in [type : {"view"}, scene : Judged, value : {3}, from : 0..Len(Displayed)]
    BY <2>2 DEF Value
  <2>3. CASE row \in [type : {"thumb_up"}, scene : Judged, from : 0..Len(Displayed)]
    BY <2>1, <2>3 DEF Value
  <2>4. CASE row \in [type : {"thumb_down", "metadata_wrong"}, scene : Judged]
    BY <1>1, <2>1, <2>4 DEF Value, Speaks
  <2>5. CASE row \in [type : {"curation_rating"}, scene : Judged, value : {9, 11}]
    BY <2>5 DEF Value
  <2>6. CASE row \in [type : {"scene", "reasons"}, scene : Judged, value : {10, 0 - 10}]
    <3>1. row.type \in {"scene", "reasons"} /\ row.value \in {10, 0 - 10}
      BY <2>6
    <3>2. CASE row.type = "scene"
      <4>1. Value(row) = Thumb(row.value > 0)
        BY <3>2 DEF Value
      <4> QED BY <4>1 DEF Thumb
    <3>3. CASE row.type = "reasons"
      <4>1. Value(row) = row.value
        BY <3>3 DEF Value
      <4> QED BY <3>1, <4>1
    <3> QED BY <3>1, <3>2, <3>3
  <2>7. CASE row \in [type : {"strong"}, scene : Judged, value : {10}]
    <3>1. row.type = "strong" /\ row.value = 10
      BY <2>7
    <3>2. Value(row) = Thumb(row.value > 0)
      BY <3>1 DEF Value
    <3> QED BY <3>2 DEF Thumb
  <2>8. CASE row \in [type : {"mild", "impact_correction"}, scene : Judged, value : {0 - 10}]
    BY <2>8 DEF Value
  <2> QED BY <2>2, <2>3, <2>4, <2>5, <2>6, <2>7, <2>8 DEF Row
<1>2. ~Speaks(NoEvidence)
  BY DEF Speaks, NoEvidence
<1> QED BY <1>1, <1>2 DEF Valued, LabelsTyped

LEMMA WeighedInit == EvidenceInit => WeighedInv
<1>1. SUFFICES ASSUME EvidenceInit PROVE WeighedInv
  OBVIOUS
<1>2. InitLabels /\ InitAffinities
  BY <1>1 DEF EvidenceInit
<1>3. LabelsTyped
  BY <1>2 DEF InitLabels, LabelsTyped
<1>4. TypeOKAffinities
  BY <1>2, AffinitiesAssumption DEF InitAffinities, TypeOKAffinities, Unlabelled
<1> QED BY <1>3, <1>4 DEF WeighedInv

LEMMA LabelsStayTyped ==
  ASSUME LabelsTyped, NextLabels PROVE LabelsTyped'
<1>1. ASSUME NEW e \in EvidenceId, NEW row \in Row, Arrives(e, row) PROVE LabelsTyped'
  BY <1>1 DEF Arrives, LabelsTyped
<1>2. ASSUME NEW e \in EvidenceId, IsTakenBack(e) PROVE LabelsTyped'
  BY <1>2 DEF IsTakenBack, LabelsTyped
<1>3. ASSUME NEW s \in Judged, NEW r \in Rating100 \union {Unrated}, Rates(s, r) PROVE LabelsTyped'
  BY <1>3 DEF Rates, LabelsTyped
<1> QED BY <1>1, <1>2, <1>3 DEF NextLabels

LEMMA AffinitiesStayTyped ==
  ASSUME TypeOKAffinities, NextAffinities PROVE TypeOKAffinities'
<1>1. ASSUME NEW s \in Film, NEW outcome \in {900, 0 - 1000}, Labels(s, outcome) PROVE TypeOKAffinities'
  <2>1. outcome \in Int
    OBVIOUS
  <2>2. label' \in [Film -> Int]
    BY <1>1, <2>1 DEF Labels, TypeOKAffinities
  <2> QED BY <1>1, <2>2 DEF Labels, TypeOKAffinities
<1>2. ASSUME NEW winner \in Film, NEW loser \in Film, Beats(winner, loser) PROVE TypeOKAffinities'
  BY <1>2 DEF Beats, TypeOKAffinities
<1>3. ASSUME NEW s \in Film, Watches(s) PROVE TypeOKAffinities'
  BY <1>3 DEF Watches, TypeOKAffinities
<1>4. ASSUME NEW t \in Content, NEW polarity \in {1, 0 - 1}, GivesReason(t, polarity) PROVE TypeOKAffinities'
  <2>1. polarity \in {0 - 1, 0, 1}
    OBVIOUS
  <2>2. given' \in [Content -> {0 - 1, 0, 1}]
    BY <1>4, <2>1 DEF GivesReason, TypeOKAffinities
  <2> QED BY <1>4, <2>2 DEF GivesReason, TypeOKAffinities
<1>5. ASSUME NEW t \in Content, NEW a \in Answer, Answers(t, a) PROVE TypeOKAffinities'
  <2>1. answer' \in [Content -> Answer \union {Unanswered}]
    BY <1>5 DEF Answers, TypeOKAffinities
  <2> QED BY <1>5, <2>1 DEF Answers, TypeOKAffinities
<1> QED BY <1>1, <1>2, <1>3, <1>4, <1>5 DEF NextAffinities

LEMMA TopicsMove ==
  ASSUME [EvidenceNext]_evidenceVars
  PROVE  /\ [NextFeedback]_feedbackVars /\ [NextPreferences]_prefVars /\ [NextHistory]_histVars
         /\ [NextLabels]_labelVars /\ [NextAffinities]_affinityVars
BY DEF EvidenceNext, FeedbackMoves, PreferencesMove, HistoryMoves, LabelsMove, AffinitiesMove, evidenceVars

LEMMA WeighedNext == WeighedInv /\ [EvidenceNext]_evidenceVars => WeighedInv'
<1>1. SUFFICES ASSUME WeighedInv, [EvidenceNext]_evidenceVars PROVE WeighedInv'
  OBVIOUS
<1>2. [NextLabels]_labelVars /\ [NextAffinities]_affinityVars
  BY <1>1, TopicsMove
<1>3. LabelsTyped'
  <2>1. CASE NextLabels
    BY <1>1, <2>1, LabelsStayTyped DEF WeighedInv
  <2>2. CASE UNCHANGED labelVars
    BY <1>1, <2>2 DEF WeighedInv, LabelsTyped, labelVars
  <2> QED BY <1>2, <2>1, <2>2
<1>4. TypeOKAffinities'
  <2>1. CASE NextAffinities
    BY <1>1, <2>1, AffinitiesStayTyped DEF WeighedInv
  <2>2. CASE UNCHANGED affinityVars
    BY <1>1, <2>2 DEF WeighedInv, TypeOKAffinities, affinityVars
  <2> QED BY <1>2, <2>1, <2>2
<1> QED BY <1>3, <1>4 DEF WeighedInv

\* modelbuild.go: the calibration of ratings is the isotonic regression of its
\* buckets, for any evidence; a tag inherits from the nearest answered ancestors
\* in any hierarchy, cyclic ones too; and an affinity points where all that
\* speaks about its tag does.
THEOREM EvidenceIsAlwaysWeighed == EvidenceSpec => []EvidenceIsWeighed
<1>1. WeighedInv => EvidenceIsWeighed
  <2>1. SUFFICES ASSUME WeighedInv PROVE EvidenceIsWeighed
    OBVIOUS
  <2>2. CalibrationIsIsotonic
    BY <2>1, LabelsAssumption, RowsAreValued, RatingsAreCalibrated DEF WeighedInv, LabelsFinite
  <2>3. InheritsFromNearest
    BY <2>1, AffinitiesAssumption, NearestIsFound DEF WeighedInv, TypeOKAffinities
  <2>4. AffinityFollowsItsVoices
    BY <2>1, AffinitiesAssumption, VoicesAreFollowed DEF WeighedInv, Finite
  <2> QED BY <2>2, <2>3, <2>4 DEF EvidenceIsWeighed
<1> QED BY <1>1, WeighedInit, WeighedNext, PTL DEF EvidenceSpec

\* Of the whole, too: one preference of a tag counts, and every play and O once.
THEOREM EvidenceAlwaysCountsOnce == EvidenceSpec => []EvidenceCountsOnce
<1>1. EvidenceInit => InitPreferences /\ InitHistory
  BY DEF EvidenceInit
<1>2. [EvidenceNext]_evidenceVars => [NextPreferences]_prefVars /\ [NextHistory]_histVars
  BY TopicsMove
<1>3. OnePreferenceCounts /\ HistoryCountsOnce => EvidenceCountsOnce
  BY DEF EvidenceCountsOnce
<1>4. EvidenceSpec => SpecPreferences /\ SpecHistory
  BY <1>1, <1>2, PTL DEF EvidenceSpec, SpecPreferences, SpecHistory
<1>5. SpecPreferences => []OnePreferenceCounts
  BY OnePreferenceAlwaysCounts
<1>6. SpecHistory => []HistoryCountsOnce
  BY HistoryAlwaysCountsOnce
<1> QED BY <1>3, <1>4, <1>5, <1>6, PTL
=============================================================================
