----------------------------- MODULE LanePolicy -----------------------------
(***************************************************************************)
(* Which lanes a scene belongs to: laneClassify of                         *)
(* src/core/laneclassify.go.  It reads the scores of the model, the plays, *)
(* the facets and the dormant entities one after the other, ranks the      *)
(* scenes, classifies each, and replaces the rows of the model in one      *)
(* transaction.  Shares are hundredths, percentiles sixtieths.             *)
(***************************************************************************)
EXTENDS Library, Integers, FiniteSets, Sequences, SequencesExt, FiniteSetsExt

CONSTANTS
  Scored,       \* bound: the scenes of the library that have a score
  Score,        \* the scores a scene may have: records of model_scene_score
  Facet,        \* tags and studios: [type, id]
  FacetsOf,     \* the confirmed tags and the studio of a scene
  Added,        \* created_at of a scene, in days; 0: not organized or unknown
  Dormant,      \* model_entity_dormancy: [id, of, last, strength, plays, scenes]
  Strength,     \* darkPoolStats' alpha
  MinLibrary, MaxLibrary,           \* dark_min_library, dark_max_library
  MinFeatures,  \* a blind spot's content features
  WindowDays, MinScenes,            \* new arrivals
  LongAgo,      \* days after which an entity counts as dormant: half of the curve
  LastNow       \* bound: the clock

ASSUME PolicyAssumption ==
  /\ Scored \subseteq Scene
  /\ {Strength, MinLibrary, MaxLibrary, MinFeatures, WindowDays, MinScenes, LongAgo, LastNow} \subseteq Nat
  /\ FacetsOf \in [Scored -> SUBSET Facet] /\ Added \in [Scored -> Nat]
  /\ IsFiniteSet(Scored)

(* A score has finitely many contributors, one of a feature. *)
ASSUME ScoreAssumption ==
  \A score \in Score :
    /\ IsFiniteSet(score.features)
    /\ \A f \in score.features : {f.id, f.value, f.affinity, f.confidence} \subseteq Int
    /\ \A f, g \in score.features : f.id = g.id => f = g

VARIABLES
  scores,     \* model_scene_score
  watched,    \* scenes with a play
  clockDay,
  seen,       \* the plays and the clock laneClassify has read
  laneRows    \* model_scene_lane

policyVars == <<scores, watched, clockDay, seen, laneRows>>

NotRead == [lanes |-> {}, day |-> 0]

InitPolicy ==
  /\ scores \in [Scored -> Score]
  /\ watched \in SUBSET Scored
  /\ clockDay = LastNow - 1
  /\ seen = NotRead /\ laneRows = {}

EligibleScenes == {s \in Scored : scores[s].eligible}

-----------------------------------------------------------------------------
(* lanePercentiles: the sorted values, ties at their midpoint.              *)
Percentiles(value) ==
  LET n == Cardinality(DOMAIN value)
      last == IF n > 1 THEN n - 1 ELSE 1
      start(s) == Cardinality({t \in DOMAIN value : value[t] < value[s]})
      end(s) == Cardinality({t \in DOMAIN value : value[t] <= value[s]})
  IN [s \in DOMAIN value |-> (60 * (start(s) + end(s) - 1)) \div (2 * last)]

Rank(component) == Percentiles([s \in EligibleScenes |-> scores[s][component]])

(* The ranks of a scene, mixed; confident metadata counts in full. *)
Relevance(s) ==
  (32 * Rank("neighbor")[s] + 10 * Rank("similarity")[s] + 28 * Rank("performer")[s]
   + 20 * Rank("content")[s] + 10 * Rank("studio")[s]) * (900 + scores[s].metadata)

Corroborated(s) ==
  Rank("neighbor")[s] >= 36 /\ (Rank("performer")[s] >= 36 \/ Rank("content")[s] >= 36)

BestBet(s, played) ==
  /\ scores[s].fit >= 18 /\ scores[s].confidence >= 30 /\ scores[s].metadata >= 35
  /\ Relevance(s) >= 3600000
  /\ Corroborated(s) \/ (scores[s].direct > 10 /\ scores[s].directConfidence >= 50)
  /\ s \notin played

Revisit(s, played) ==
  /\ scores[s].direct > 10 /\ scores[s].directConfidence >= 35 /\ scores[s].recovery >= 10
  /\ scores[s].durable
  /\ s \in played

(* Stretch: something that is liked and something that is not, or not known.*)
Anchors(s) == {f \in scores[s].features : f.affinity >= 2 /\ f.confidence >= 50}

TestedNegative(s) == {f \in scores[s].features : f.affinity <= 0 - 2 /\ f.confidence >= 50}

Untested(s) == {f \in scores[s].features : f.support < 50}

Challenges(s) == {[f |-> f, kind |-> "tested_negative"] : f \in TestedNegative(s)}
                 \cup {[f |-> f, kind |-> "untested"] : f \in Untested(s)}

Size(n) == IF n < 0 THEN 0 - n ELSE n

(* The challenge that weighs most; the later id breaks a tie, and a feature *)
(* that is both counts as tested.                                           *)
Challenge(s) ==
  CHOOSE c \in Challenges(s) : \A d \in Challenges(s) \ {c} :
    \/ Size(c.f.value) > Size(d.f.value)
    \/ Size(c.f.value) = Size(d.f.value) /\ c.f.id > d.f.id
    \/ c.f = d.f /\ c.kind = "tested_negative"

Stretch(s, played) ==
  /\ ~BestBet(s, played)
  /\ scores[s].directConfidence < 35 /\ scores[s].fit >= 0
  /\ Anchors(s) # {} /\ Challenges(s) # {}

AnchorStrength(s) == MapThenSumSet(LAMBDA f : f.value, Anchors(s))

ChallengeDistance(s) ==
  LET c == Challenge(s) IN
  IF c.kind = "tested_negative" THEN Size(c.f.affinity) * c.f.confidence ELSE 100 - c.f.confidence

-----------------------------------------------------------------------------
(* blindSpotContext and darkPoolStats: a facet that is played far below the *)
(* rate of the library, drawn towards that rate.  It reads the plays anew.  *)
ScenesOf(facet) == {s \in Scored : facet \in FacetsOf[s]}

Dark(facet) ==
  LET library == Cardinality(ScenesOf(facet))
      hits == Cardinality(ScenesOf(facet) \cap watched)
      all == Cardinality(Scored)
      base == Cardinality(watched)
  IN /\ base > 0
     /\ library \in MinLibrary..MaxLibrary
     /\ 100 * (hits * all + Strength * base) <= 45 * base * (library + Strength)

DarkFacets(s) == {facet \in FacetsOf[s] : Dark(facet)}

(* Facets of two kinds corroborate one another. *)
BlindSpot(s, played) ==
  /\ s \notin played
  /\ scores[s].contentFeatures >= MinFeatures
  /\ Cardinality({facet.type : facet \in DarkFacets(s)}) >= 2

(* dormantContext: what the user watched a lot of and has not for long.     *)
DormantEntities(s, day) ==
  {d \in Dormant : /\ s \in d.of
                   /\ d.plays >= 3 /\ d.scenes >= 2 /\ d.strength >= 10
                   /\ day - d.last >= LongAgo}

(* newArrivalsContext: the window, widened to the latest few. *)
Arrivals(played) == {s \in EligibleScenes : Added[s] > 0 /\ s \notin played}

NewerById(s, scenes) == {t \in scenes : t < s}

NewerThan(s, scenes) ==
  {t \in scenes : Added[t] > Added[s] \/ (Added[t] = Added[s] /\ t < s)}

NewArrivals(played, day) ==
  LET arrivals == Arrivals(played)
      window == Cardinality({s \in arrivals : Added[s] >= day - WindowDays})
      least == Min({MinScenes, Cardinality(arrivals)})
      count == IF window > least THEN window ELSE least
  IN {s \in arrivals : Cardinality(NewerThan(s, arrivals)) < count}

-----------------------------------------------------------------------------
(* classifyScene, and laneClassify's pass over the stretches: anchors are   *)
(* ranked together, distances within their kind.                            *)
InLane(s, lane, played, day) ==
  \/ lane = "best_bets"    /\ BestBet(s, played)
  \/ lane = "revisit"      /\ Revisit(s, played)
  \/ lane = "stretch"      /\ Stretch(s, played)
  \/ lane = "blind_spots"  /\ BlindSpot(s, played)
  \/ lane = "dormant"      /\ s \notin played /\ DormantEntities(s, day) # {}
  \/ lane = "new_arrivals" /\ s \in NewArrivals(played, day)

StretchValue(s, stretches) ==
  LET peers == {t \in stretches : Challenge(t).kind = Challenge(s).kind}
  IN Percentiles([t \in stretches |-> AnchorStrength(t)])[s]
     * Percentiles([t \in peers |-> ChallengeDistance(t)])[s]

Subtype(s, lane) ==
  CASE lane = "stretch" -> Challenge(s).kind
    [] lane = "blind_spots" -> IF \A facet \in DarkFacets(s) : ScenesOf(facet) \cap watched = {}
                               THEN "never_played" ELSE "under_played"
    [] OTHER -> ""

Lanes == {"best_bets", "revisit", "stretch", "blind_spots", "dormant", "new_arrivals"}

Classified(played, day) ==
  LET member == {row \in EligibleScenes \X Lanes : InLane(row[1], row[2], played, day)}
      stretches == {row[1] : row \in {r \in member : r[2] = "stretch"}}
  IN {[scene |-> row[1], lane |-> row[2], subtype |-> Subtype(row[1], row[2]),
       value |-> IF row[2] = "stretch" THEN StretchValue(row[1], stretches) ELSE 0] : row \in member}

(* playedSceneIDs is read before the rest, and plays go on. *)
ReadPlayed ==
  /\ seen = NotRead
  /\ seen' = [lanes |-> watched, day |-> clockDay]
  /\ UNCHANGED <<scores, watched, clockDay, laneRows>>

(* lanePersist: the rows of the model are replaced at once. *)
LanePersist ==
  /\ seen # NotRead
  /\ laneRows' = Classified(seen.lanes, seen.day)
  /\ seen' = NotRead
  /\ UNCHANGED <<scores, watched, clockDay>>

Watch(s) == watched' = watched \cup {s} /\ UNCHANGED <<scores, clockDay, seen, laneRows>>

DayPasses == /\ clockDay < LastNow /\ clockDay' = clockDay + 1
             /\ UNCHANGED <<scores, watched, seen, laneRows>>

NextPolicy == ReadPlayed \/ LanePersist \/ DayPasses \/ \E s \in Scored : Watch(s)

SpecPolicy == InitPolicy /\ [][NextPolicy]_policyVars

-----------------------------------------------------------------------------
(* However thresholds, ties and widening windows fall, the lanes agree with *)
(* one another: no scene is a best bet and a stretch, or at once new, blind *)
(* or dormant and to be seen again; only scenes that may be shown have a    *)
(* lane; and a later arrival is never left out for an earlier one.          *)
LanesAgree ==
  LET of(lane) == {row.scene : row \in {r \in laneRows : r.lane = lane}}
      unseen == of("best_bets") \cup of("blind_spots") \cup of("dormant") \cup of("new_arrivals")
  IN /\ of("best_bets") \cap of("stretch") = {}
     /\ of("revisit") \cap unseen = {}
     /\ of("revisit") \subseteq watched
     /\ UNION {of(lane) : lane \in Lanes} \subseteq EligibleScenes
     /\ \A s \in of("new_arrivals"), t \in EligibleScenes :
          Added[t] > Added[s] /\ t \notin watched => t \in of("new_arrivals")
     /\ \A row \in laneRows : row.lane = "stretch" => row.value \in 0..3600
=============================================================================
