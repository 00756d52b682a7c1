---------------------------- MODULE SceneLabels -----------------------------
(***************************************************************************)
(* What a model is trained on: the label of a scene, from everything that  *)
(* was said and observed about it, the calibration of Stash's ratings, the *)
(* pairs of a recommendation that was taken and those that were passed     *)
(* over, and the fingerprint a model is named by.                          *)
(* src/core/modelbuild.go.                                                 *)
(*                                                                         *)
(* Values and confidences are in tenths, rating100 in steps of five.       *)
(* Averages are quotients of integers, rounded down; Certainty stands for  *)
(* the growing function 1 - exp(-evidence).                                *)
(***************************************************************************)
EXTENDS Integers, FiniteSets, SequencesExt, FiniteSetsExt

CONSTANTS
  Judged,        \* bound: the scenes about which something is known
  EvidenceId,    \* bound: rows of behavior_event, feedback and scene_reason_answer
  Rating100,     \* the ratings Stash may hold
  Displayed      \* impression_item: what each impression showed, from the top

ASSUME LabelsAssumption ==
  /\ Rating100 \subseteq {5 * n : n \in 0..20}
  /\ Displayed \in Seq(Seq(Judged))
  /\ IsFiniteSet(Judged) /\ IsFiniteSet(EvidenceId)

VARIABLES
  rows,       \* the live rows, by id
  ratings     \* source_scene.rating100

labelVars == <<rows, ratings>>

NoEvidence == [type |-> "none"]
Unrated == 0 - 1
NotDisplayed == 0

(* The kinds of rows: a view with its outcome, feedback, and a "Why these?" *)
(* answer, whose value is its polarity: about this scene only, a strong or  *)
(* a mild flip of Curator's direction, or neither (reasons alone).          *)
Row == [type : {"view"}, scene : Judged, value : {3}, from : 0..Len(Displayed)]
       \cup [type : {"thumb_up"}, scene : Judged, from : 0..Len(Displayed)]
       \cup [type : {"thumb_down", "metadata_wrong"}, scene : Judged]
       \cup [type : {"curation_rating"}, scene : Judged, value : {9, 11}]
       \cup [type : {"scene", "reasons"}, scene : Judged, value : {10, 0 - 10}]
       \cup [type : {"strong"}, scene : Judged, value : {10}]
       \cup [type : {"mild", "impact_correction"}, scene : Judged, value : {0 - 10}]

InitLabels ==
  /\ rows = [e \in EvidenceId |-> NoEvidence]
  /\ ratings = [s \in Judged |-> Unrated]

Arrives(e, row) ==
  /\ rows[e] = NoEvidence
  /\ rows' = [rows EXCEPT ![e] = row]
  /\ UNCHANGED ratings

(* Feedback is corrected: the row counts no longer.  Events and answers stay. *)
IsTakenBack(e) ==
  /\ rows[e].type \in {"thumb_up", "thumb_down", "metadata_wrong", "curation_rating",
                       "impact_correction"}
  /\ rows' = [rows EXCEPT ![e] = NoEvidence]
  /\ UNCHANGED ratings

(* The sync reads a rating. *)
Rates(s, r) ==
  /\ ratings' = [ratings EXCEPT ![s] = r]
  /\ UNCHANGED rows

NextLabels ==
  \/ \E e \in EvidenceId, row \in Row : Arrives(e, row)
  \/ \E e \in EvidenceId : IsTakenBack(e)
  \/ \E s \in Judged, r \in Rating100 \cup {Unrated} : Rates(s, r)

-----------------------------------------------------------------------------
Least(a, b) == IF a <= b THEN a ELSE b
Greatest(a, b) == IF a >= b THEN a ELSE b
Clamp(v) == Greatest(0 - 10, Least(10, v))
Certainty(evidence) == Least(10, (17 * evidence) \div (evidence + 17))

(* modelSceneLabels: the rows that say how a scene went, with the value and *)
(* the confidence of each.  A curation rating outside 0..10 is skipped.     *)
Speaks(row) ==
  \/ row.type \in {"view", "thumb_up", "thumb_down", "impact_correction", "scene", "strong", "mild"}
  \/ row.type = "curation_rating" /\ row.value \in 0..10

Thumb(up) == IF up THEN 9 ELSE 0 - 10

Value(row) ==
  CASE row.type = "curation_rating" -> 2 * (row.value - 5)
    [] row.type \in {"thumb_up", "thumb_down"} -> Thumb(row.type = "thumb_up")
    [] row.type \in {"scene", "strong"} -> Thumb(row.value > 0)
    [] row.type = "mild" -> IF row.value > 0 THEN 5 ELSE 0 - 5
    [] OTHER -> row.value

Confidence(row) ==
  CASE row.type \in {"view", "curation_rating"} -> 8
    [] row.type = "impact_correction" -> 6
    [] row.type = "mild" -> 5
    [] OTHER -> 10

Signals(s) == {e \in EvidenceId : rows[e] # NoEvidence /\ rows[e].scene = s /\ Speaks(rows[e])}

Evidence(ids) == SumFunction([e \in ids |-> Confidence(rows[e])])
Weighted(ids) == SumFunction([e \in ids |-> Value(rows[e]) * Confidence(rows[e])])

-----------------------------------------------------------------------------
(* ratingCalibration: what a rating means, from the other signals of the    *)
(* scenes that carry it.  Each of eleven buckets is shrunk toward the line  *)
(* and pooled with those below it until the means grow with the rating.     *)
Support == 30
RatingLine(r) == Clamp((r - 50) \div 5)
BucketOf(r) == (r + 5) \div 10

Behavior(s) == {e \in Signals(s) : rows[e].type # "curation_rating"}
Outcome(s) == Weighted(Behavior(s)) \div Evidence(Behavior(s))

RatedIn(b) == {s \in Judged : ratings[s] # Unrated /\ BucketOf(ratings[s]) = b
                              /\ Behavior(s) # {}}

Bucket(b) ==
  LET weight(s) == Certainty(Evidence(Behavior(s)))
  IN [total  |-> SumFunction([s \in RatedIn(b) |-> weight(s) * Outcome(s)]) + Support * RatingLine(10 * b),
      weight |-> SumFunction([s \in RatedIn(b) |-> weight(s)]) + Support,
      first  |-> b, last |-> b]

Pool(one, other) == [total |-> one.total + other.total, weight |-> one.weight + other.weight,
                     first |-> Least(one.first, other.first), last |-> Greatest(one.last, other.last)]

Mean(block) == (100 * block.total) \div block.weight
NotBelow(one, other) == one.total * other.weight >= other.total * one.weight

(* The new block takes in the last one, and the one before, ... as long as  *)
(* that is not below what it has become.                                    *)
Unpooled(blocks, block) == Append(blocks, block)

PoolAdjacent(blocks, block) ==
  LET before(k) == blocks[Len(blocks) - k]
      taken[k \in 0..Len(blocks)] ==
        IF k = 0 THEN block
        ELSE CHOOSE joint \in {Pool(before(k - 1), last) : last \in {taken[k - 1]}} : TRUE
      goesOn(k) == k < Len(blocks) /\ NotBelow(before(k), taken[k])
      most == CHOOSE k \in DOMAIN taken : ~goesOn(k) /\ \A j \in 0..(k - 1) : goesOn(j)
  IN Append(SubSeq(blocks, 1, Len(blocks) - most), taken[most])

(* `done` and `new` name values: what a set holds TLC evaluates once. *)
Pooled[n \in 0..11] ==
  IF n = 0 THEN <<>>
  ELSE CHOOSE blocks \in {PoolAdjacent(done, new) : done \in {Pooled[n - 1]}, new \in {Bucket(n - 1)}} : TRUE

CalibrationAt(blocks, b) ==
  Mean(CHOOSE block \in ToSet(blocks) : b \in block.first..block.last)

(* calibratedRating: interpolated, and never below the line; in thousandths. *)
CalibratedRating(r, blocks) ==
  LET low == r \div 10
      from == CalibrationAt(blocks, low)
      to == CalibrationAt(blocks, Least(low + 1, 10))
      between == from + ((r - 10 * low) * (to - from)) \div 10
  IN Greatest(100 * RatingLine(r), Greatest(0 - 1000, Least(1000, between)))

RatingWorth(r) == CHOOSE worth \in {CalibratedRating(r, blocks) : blocks \in {Pooled[11]}} : TRUE

-----------------------------------------------------------------------------
(* The label of a scene from some of its signals and its rating, if there   *)
(* is anything at all.                                                      *)
NoLabel == [outcome |-> 0, evidence |-> 0]

Aggregate(s, ids) ==
  LET rated == ratings[s] # Unrated
      evidence == Evidence(ids) + (IF rated THEN 9 ELSE 0)
      weighted == 100 * Weighted(ids)
                  + (IF rated THEN 9 * RatingWorth(ratings[s]) ELSE 0)
  IN IF evidence = 0 THEN NoLabel
     ELSE [outcome |-> weighted \div evidence, evidence |-> evidence]

SceneLabel(s) == Aggregate(s, Signals(s))

(* modelTrainingLabels: a scene whose metadata is wrong teaches nothing,    *)
(* and an answer about this scene only is left out.                         *)
MetadataWrong == {rows[e].scene : e \in {i \in EvidenceId : rows[i].type = "metadata_wrong"}}
SceneOnlyIfMild(e) == rows[e].type = "mild"
SceneOnly(e) == rows[e].type = "scene"

TrainingLabel(s) ==
  IF s \in MetadataWrong THEN NoLabel
  ELSE Aggregate(s, {e \in Signals(s) : ~SceneOnly(e)})

(* modelImplicitSkipEvents: a scene that was played or liked from an        *)
(* impression beats what was shown above it there.  Of several impressions  *)
(* the first of the query counts.                                           *)
TakenFrom(s) ==
  {rows[e].from : e \in {i \in EvidenceId : rows[i].type \in {"view", "thumb_up"}
                                            /\ rows[i].scene = s}} \ {NotDisplayed}

ImplicitSkips ==
  UNION {LET shown == Displayed[Min(TakenFrom(s))]
             place == {i \in DOMAIN shown : shown[i] = s}
         IN {<<s, shown[i]>> : i \in {j \in DOMAIN shown : place # {} /\ j < Min(place)}}
         : s \in {w \in Judged \ MetadataWrong : TakenFrom(w) # {}}}

-----------------------------------------------------------------------------
(* modelEvidenceFingerprint: a model whose name, made of it, is known and   *)
(* published is not built again.                                            *)
FeedbackState == {<<e, rows[e]>> : e \in {i \in EvidenceId :
                    rows[i].type \notin {"none", "view", "scene", "strong", "mild", "reasons"}}}
NoReasons == {}
Reasons == {<<e, rows[e].scene, rows[e].value>> : e \in {i \in EvidenceId :
                    rows[i].type \in {"scene", "reasons"}}}

Fingerprint == <<[s \in Judged |-> SceneLabel(s)], FeedbackState, Reasons>>

(* modelSceneReasons: support and direction of the reasons about a subject, *)
(* here the one tag of each scene; the scene itself carries nothing.        *)
ReasonTerm(s) ==
  LET given == {e \in EvidenceId : rows[e].type = "reasons" /\ rows[e].scene = s}
  IN <<Cardinality(given), SumFunction([e \in given |-> rows[e].value])>>

(* What the build computes the model from. *)
ModelInput == <<[s \in Judged |-> SceneLabel(s)], [s \in Judged |-> TrainingLabel(s)],
                [s \in Judged |-> ReasonTerm(s)], ImplicitSkips>>

-----------------------------------------------------------------------------
(* The calibration is the isotonic regression of its buckets, by the        *)
(* min-max formula: pooling in one pass loses nothing.  A higher rating is  *)
(* never worth less, and none less than the plain line.                     *)
CalibrationIsIsotonic ==
  \A buckets \in {<<>> \o [b \in 1..11 |-> Bucket(b - 1)]}, blocks \in {Pooled[11]} :
    LET mean(i, j) == Mean([total  |-> SumFunction([b \in i..j |-> buckets[b].total]),
                            weight |-> SumFunction([b \in i..j |-> buckets[b].weight])])
    IN /\ \A b \in 1..11 : CalibrationAt(blocks, b - 1)
                               = Min({Max({mean(i, j) : i \in 1..b}) : j \in b..11})
       /\ \A n \in 0..19 : CalibratedRating(5 * n, blocks) <= CalibratedRating(5 * n + 5, blocks)
       /\ \A n \in 0..20 : CalibratedRating(5 * n, blocks) >= 100 * RatingLine(5 * n)

(* "Just this scene" never reaches training: as long as its scene is not    *)
(* rated (else it moves the calibration of every rating, README section 6), *)
(* the answer changes no training label.                                    *)
AnswersStayWithTheirScene ==
  (\E e \in EvidenceId : /\ rows[e] = NoEvidence /\ rows'[e].type = "scene"
                          /\ ratings[rows'[e].scene] = Unrated)
    => \A s \in Judged : TrainingLabel(s)' = TrainingLabel(s)

(* No step changes what a model is computed from and leaves its name: the   *)
(* build would find the old one and keep it.                                *)
ChangesRename == ModelInput' # ModelInput => Fingerprint' # Fingerprint

(* An answer stays where it belongs, and a model is named by all it was     *)
(* made of.                                                                 *)
LabelsAreSound ==
  [][labelVars' # labelVars => AnswersStayWithTheirScene /\ ChangesRename]_labelVars
=============================================================================
