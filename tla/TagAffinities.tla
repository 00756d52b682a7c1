--------------------------- MODULE TagAffinities ----------------------------
(***************************************************************************)
(* What a model believes of a tag: from the labels of the scenes that      *)
(* carry it, the recommendations it won and lost, its siblings, what was   *)
(* watched, the reasons given, the user's own answer, and where there is   *)
(* none, the answer for the nearest ancestors.  src/core/modelbuild.go.    *)
(*                                                                         *)
(* Values are in thousandths, weights in tenths; performers and studios    *)
(* take part like tags without a hierarchy.  Quotients are cut off.        *)
(***************************************************************************)
EXTENDS Integers, FiniteSets, FiniteSetsExt

CONSTANTS
  Content,      \* bound: tags, and performers and studios like them
  Carries,      \* bound: the scenes of the library, each with what it carries
  Hierarchies,  \* bound: the tag hierarchies Stash may hold
  MaxFacts      \* bound: facts a model is built from

Film == DOMAIN Carries

ASSUME AffinitiesAssumption ==
  /\ Carries \in [Film -> SUBSET Content]
  /\ Hierarchies \subseteq [Content -> SUBSET Content]
  /\ MaxFacts \in Nat
  /\ IsFiniteSet(Content) /\ IsFiniteSet(Film)

VARIABLES
  parents,      \* tag_parent
  label,        \* the training label of a scene
  beaten,       \* implicit skips: <<winner, loser>>
  watched,      \* scenes with a source_play
  given,        \* reasons: the polarity of the one about a tag
  answer        \* direct_tag_preference

affinityVars == <<parents, label, beaten, watched, given, answer>>

Unlabelled == 0
Unanswered == [value |-> 0, never |-> FALSE]
Answer == {a \in [value : {1000, 0 - 1000}, never : BOOLEAN] : a.never => a.value < 0}

InitAffinities ==
  /\ parents \in Hierarchies
  /\ label = [s \in Film |-> Unlabelled]
  /\ beaten = {} /\ watched = {}
  /\ given = [t \in Content |-> 0]
  /\ answer = [t \in Content |-> Unanswered]

Facts == Cardinality({s \in Film : label[s] # Unlabelled}) + Cardinality(beaten)
         + Cardinality(watched) + Cardinality({t \in Content : given[t] # 0})
         + Cardinality({t \in Content : answer[t] # Unanswered})

Labels(s, outcome) ==
  /\ Facts < MaxFacts /\ label[s] = Unlabelled
  /\ label' = [label EXCEPT ![s] = outcome]
  /\ UNCHANGED <<parents, beaten, watched, given, answer>>

Beats(winner, loser) ==
  /\ Facts < MaxFacts /\ winner # loser
  /\ beaten' = beaten \cup {<<winner, loser>>}
  /\ UNCHANGED <<parents, label, watched, given, answer>>

Watches(s) ==
  /\ Facts < MaxFacts
  /\ watched' = watched \cup {s}
  /\ UNCHANGED <<parents, label, beaten, given, answer>>

GivesReason(t, polarity) ==
  /\ Facts < MaxFacts /\ given[t] = 0
  /\ given' = [given EXCEPT ![t] = polarity]
  /\ UNCHANGED <<parents, label, beaten, watched, answer>>

Answers(t, a) ==
  /\ Facts < MaxFacts /\ answer[t] = Unanswered
  /\ answer' = [answer EXCEPT ![t] = a]
  /\ UNCHANGED <<parents, label, beaten, watched, given>>

NextAffinities ==
  \/ \E s \in Film, outcome \in {900, 0 - 1000} : Labels(s, outcome)
  \/ \E winner, loser \in Film : Beats(winner, loser)
  \/ \E s \in Film : Watches(s)
  \/ \E t \in Content, polarity \in {1, 0 - 1} : GivesReason(t, polarity)
  \/ \E t \in Content, a \in Answer : Answers(t, a)

-----------------------------------------------------------------------------
Quotient(a, b) == IF a >= 0 THEN a \div b ELSE 0 - ((0 - a) \div b)
Bounded(v) == IF v > 1000 THEN 1000 ELSE IF v < 0 - 1000 THEN 0 - 1000 ELSE v

AffinityPrior == 10
LabelWeight == 6       \* 1 - exp(-evidence) of one thumb
SkipWeight == 1        \* implicitSkipConfidence
ReasonSupport == 20
DirectSupport == 80
InheritedSupport == 40

(* modelAbsoluteLabelMean: labels count as far as they differ from it.      *)
Labelled == {s \in Film : label[s] # Unlabelled}
LabelMean ==
  IF Labelled = {} THEN 0 ELSE Quotient(SumFunctionOnSet(label, Labelled), Cardinality(Labelled))

LabelledWith(t) == {s \in Labelled : t \in Carries[s]}

(* Matched pairs: what winner and loser share is left out.                  *)
Won(t) == Cardinality({p \in beaten : t \in Carries[p[1]] \ Carries[p[2]]})
LostByShared(t) == Cardinality({p \in beaten : t \in Carries[p[2]]})
Lost(t) == Cardinality({p \in beaten : t \in Carries[p[2]] \ Carries[p[1]]})

Learned(t) ==
  [support   |-> LabelWeight * Cardinality(LabelledWith(t)) + SkipWeight * (Won(t) + Lost(t)),
   numerator |-> SumFunction([s \in LabelledWith(t) |-> LabelWeight * (label[s] - LabelMean)])
                 + SkipWeight * 1000 * (Won(t) - Lost(t))]

(* modelSiblingPriors: the mean of what the siblings say, weighted by their *)
(* support, and without the tag itself.                                     *)
Siblings(t) == {u \in Content \ {t} : parents[u] \cap parents[t] # {} /\ Learned(u).support > 0}

SiblingPrior(t) ==
  IF Siblings(t) = {} THEN 0
  ELSE LET affinity(u) == Quotient(Learned(u).numerator, AffinityPrior + Learned(u).support)
       IN Quotient(SumFunction([u \in Siblings(t) |-> affinity(u) * Learned(u).support]),
                   SumFunction([u \in Siblings(t) |-> Learned(u).support]))

(* modelWatchLift: how much more of the watched than of all scenes carry    *)
(* it, shrunk by ten scenes; tanh(ln r) is (r^2 - 1) / (r^2 + 1).           *)
Shrink == 10
InLibrary(t) == {s \in Film : t \in Carries[s]}

WatchLift(t) ==
  LET total == Cardinality(Film)
      all == Cardinality(InLibrary(t))
      chosen == Cardinality(InLibrary(t) \cap watched)
      x == chosen * total + Shrink * all
      y == (Cardinality(watched) + Shrink) * all
      mass == Max({chosen, Quotient(Cardinality(watched) * all, total)})
      support == Quotient(20 * mass, mass + Shrink)
  IN IF watched = {} \/ all = 0 THEN [support |-> 0, numerator |-> 0]
     ELSE [support   |-> support,
           numerator |-> support * Quotient(1000 * (x * x - y * y), x * x + y * y)]

(* modelSceneReasons: reasons about what no scene carries are dropped.      *)
SceneReason(t) ==
  IF given[t] = 0 \/ InLibrary(t) = {} THEN [support |-> 0, numerator |-> 0]
  ELSE [support |-> ReasonSupport, numerator |-> ReasonSupport * 1000 * given[t]]

(* modelAffinities, up to the user's own answers.  Only what a labelled     *)
(* scene carries or a pair tells apart leans on its siblings.               *)
Belief(t) ==
  LET support == Learned(t).support + WatchLift(t).support + SceneReason(t).support
      numerator == Learned(t).numerator + WatchLift(t).numerator + SceneReason(t).numerator
      prior == IF Learned(t).support > 0 THEN AffinityPrior * SiblingPrior(t) ELSE 0
  IN [support |-> support, affinity |-> Bounded(Quotient(numerator + prior, AffinityPrior + support))]

Blended(belief, value, weight) ==
  [support  |-> belief.support + weight,
   affinity |-> Bounded(Quotient(belief.affinity * belief.support + value * weight,
                                 belief.support + weight))]

-----------------------------------------------------------------------------
(* inheritTagPreferences: generation by generation up the hierarchy, until  *)
(* one holds an answer other than Never.  A tag seen before is skipped, so  *)
(* that a cycle ends.                                                       *)
Answered == {t \in Content : answer[t] # Unanswered}
SpeakingAny == Answered
Speaking == {t \in Answered : ~answer[t].never}

\* (`below` and `above` name values: what a set holds TLC evaluates once.)
Above(below) ==
  LET seen == below.seen \cup below.fresh
  IN IF below.fresh \cap Speaking # {} THEN below
     ELSE [fresh |-> (UNION {parents[p] : p \in below.fresh}) \ seen, seen |-> seen]

Climb(t) ==
  LET generation[n \in 1..Cardinality(Content)] ==
        IF n = 1 THEN [fresh |-> parents[t] \ {t}, seen |-> {t}]
        ELSE CHOOSE above \in {Above(below) : below \in {generation[n - 1]}} : TRUE
  IN generation

Sources(t) == Climb(t)[Cardinality(Content)].fresh \cap Speaking

Inherited(t) ==
  Quotient(SumFunction([u \in Sources(t) |-> answer[u].value]), Cardinality(Sources(t)))

Inherits(t) == t \notin Answered /\ Sources(t) # {}

(* The affinity of a tag that some scene of the library carries.            *)
Affinity(t) ==
  IF t \in Answered THEN Blended(Belief(t), answer[t].value, DirectSupport).affinity
  ELSE IF Inherits(t) THEN Blended(Belief(t), Inherited(t), InheritedSupport).affinity
  ELSE Belief(t).affinity

-----------------------------------------------------------------------------
(* The tags that are reached in n steps up the hierarchy, by any path.      *)
Ancestors(t) ==
  LET up[n \in 1..Cardinality(Content)] ==
        IF n = 1 THEN parents[t] ELSE UNION {parents[p] : p \in up[n - 1]}
  IN up

(* A tag without an answer takes that of its nearest answered ancestors, by *)
(* the shortest path to each, across those that were never or not answered, *)
(* and no matter what cycles and diamonds the hierarchy has.                *)
InheritsFromNearest ==
  \A t \in Content :
    LET up == Ancestors(t)
        speak == {u \in Content \ {t} : answer[u].value # 0 /\ ~answer[u].never}
        reached == {n \in DOMAIN up : up[n] \cap speak # {}}
    IN Sources(t) = IF reached = {} THEN {} ELSE up[Min(reached)] \cap speak

(* What scenes and recommendations say of a tag, one by one; and all that   *)
(* speaks about it.                                                         *)
Heard(t) ==
  {label[s] - LabelMean : s \in LabelledWith(t)}
  \cup {IF t \in Carries[p[1]] THEN 1 ELSE 0 - 1
        : p \in {q \in beaten : (t \in Carries[q[1]]) # (t \in Carries[q[2]])}}

Voices(t) ==
  Heard(t)
  \cup (IF Heard(t) = {} THEN {} ELSE UNION {Heard(u) : u \in Siblings(t)})
  \cup {Cardinality(InLibrary(t) \cap watched) * Cardinality(Film)
        - Cardinality(watched) * Cardinality(InLibrary(t))}
  \cup {given[t], answer[t].value}
  \cup (IF Inherits(t) THEN {answer[u].value : u \in Sources(t)} ELSE {})

(* Whatever speaks about a tag, itself or through a sibling, an ancestor, a *)
(* lost recommendation or what is watched more than it is there: if all of  *)
(* it points one way, so does the affinity.                                 *)
AffinityFollowsItsVoices ==
  \A t \in {u \in Content : InLibrary(u) # {}} :
    /\ (\A v \in Voices(t) : v >= 0) => Affinity(t) >= 0
    /\ (\A v \in Voices(t) : v <= 0) => Affinity(t) <= 0
=============================================================================
