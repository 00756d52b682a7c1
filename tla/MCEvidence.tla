------------------------------ MODULE MCEvidence ----------------------------
(***************************************************************************)
(* The evidence a user gives and what a model makes of it, for TLC.  The   *)
(* modules write tables of their own, so one run takes them one at a time: *)
(* `topic` says which of them moves, and the others stay where they began. *)
(***************************************************************************)
EXTENDS Feedback, Preferences, Historical, SceneLabels, TagAffinities, TLC

VARIABLE topic

(* One impression showed two scenes; three scenes and what they carry; a    *)
(* hierarchy with two ways up, and one with a cycle.                        *)
OneImpression == <<<<"x1", "x2">>>>
SmallLibrary == ("y1" :> {"a", "c"}) @@ ("y2" :> {"b"}) @@ ("y3" :> {"a", "b"})
Tree == ("a" :> {"c", "d"}) @@ ("b" :> {"c"}) @@ ("c" :> {"d"}) @@ ("d" :> {})
Cycle == ("a" :> {"b"}) @@ ("b" :> {"c"}) @@ ("c" :> {"a"}) @@ ("d" :> {"c"})
TwoHierarchies == {Tree, Cycle}

evidenceVars == <<topic, feedbackVars, prefVars, histVars, labelVars, affinityVars>>

EvidenceInit ==
  /\ topic \in {"feedback", "preferences", "history", "labels", "affinities"}
  /\ InitFeedback
  /\ InitPreferences
  /\ InitHistory
  /\ InitLabels
  /\ InitAffinities
  /\ topic # "history" => plays = [s \in Scene |-> {}] /\ os = [s \in Scene |-> {}]
  /\ topic # "affinities" => parents = Tree

FeedbackMoves ==
  /\ topic = "feedback"
  /\ NextFeedback
  /\ UNCHANGED <<topic, prefVars, histVars, labelVars, affinityVars>>

PreferencesMove ==
  /\ topic = "preferences"
  /\ NextPreferences
  /\ UNCHANGED <<topic, feedbackVars, histVars, labelVars, affinityVars>>

HistoryMoves ==
  /\ topic = "history"
  /\ NextHistory
  /\ UNCHANGED <<topic, feedbackVars, prefVars, labelVars, affinityVars>>

LabelsMove ==
  /\ topic = "labels"
  /\ NextLabels
  /\ UNCHANGED <<topic, feedbackVars, prefVars, histVars, affinityVars>>

AffinitiesMove ==
  /\ topic = "affinities"
  /\ NextAffinities
  /\ UNCHANGED <<topic, feedbackVars, prefVars, histVars, labelVars>>

EvidenceNext ==
  \/ FeedbackMoves
  \/ PreferencesMove
  \/ HistoryMoves
  \/ LabelsMove
  \/ AffinitiesMove

EvidenceSpec == EvidenceInit /\ [][EvidenceNext]_evidenceVars

Symmetry == Permutations(FeedbackId) \cup Permutations(EvidenceId)

-----------------------------------------------------------------------------
(* Of all that was ever stated about a tag one row counts, the newest; and a *)
(* play or an o-count of Stash's history counts once, whatever was rebuilt. *)
EvidenceCountsOnce == OnePreferenceCounts /\ HistoryCountsOnce

(* Evidence is weighed the way it was meant: ratings are calibrated by an    *)
(* isotonic regression, a tag inherits from its nearest answered ancestors,  *)
(* and its affinity points where all that speaks about it does.              *)
EvidenceIsWeighed ==
  /\ topic = "labels" => CalibrationIsIsotonic
  /\ topic = "affinities" => InheritsFromNearest /\ AffinityFollowsItsVoices
=============================================================================
