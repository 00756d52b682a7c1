---------------------------- MODULE GreedySlates ----------------------------
(***************************************************************************)
(* A slate that is computed when it is asked for, because the lanes of the *)
(* model have no order yet or the user explores: recommendGreedy of        *)
(* src/core/slate_greedy.go, with the slate that an earlier request left   *)
(* prepared, some of whose scenes may have been withdrawn or played since. *)
(***************************************************************************)
EXTENDS Eligibility, Sequences, SequencesExt, FiniteSetsExt

CONSTANTS
  Candidate,     \* model_scene_lane: [scene, lane, value, performers, studio, content, turn]
  GreedyLane,    \* the lanes that are asked for
  ForYou, Familiar, Adventurous,   \* the patterns
  Likeness,      \* cosine of the content of two scenes, in quarters
  Shown,         \* recommendation_history: scenes shown lately
  Recent,        \* the last ten of them
  FreshFor,      \* how long a prepared slate is used: an hour
  MostAsked      \* bound: the size of a slate

ASSUME GreedyAssumption ==
  /\ IsFiniteSet(Candidate)
  /\ \A c \in Candidate : /\ c.scene \in Scene /\ c.scene \in Int /\ c.value \in Int
                          /\ IsFiniteSet(c.content)
  /\ Likeness \in [Scene -> [Scene -> Nat]]
  /\ IsFiniteSet(Recent) /\ Recent \subseteq Scene
  /\ MostAsked \in Nat

VARIABLES
  prepared,   \* application_meta: the prepared slate of a lane
  answer      \* the slate served last
greedyVars == <<prepared, answer>>

Nothing == [at |-> 0, items |-> <<>>]
NoAnswer == [lane |-> "", items |-> <<>>, prefix |-> 0, refused |-> {}]

InitGreedy ==
  /\ prepared = [l \in GreedyLane |-> Nothing]
  /\ answer = NoAnswer

-----------------------------------------------------------------------------
ShareAny(a, b) == a \cap b # {}

(* sourceLanes, and the candidates of those lanes that may be shown now.    *)
SourceLanes(lane, exploration) ==
  {lane} \cup (IF lane # "for_you" THEN {} ELSE
                 Range(ForYou) \cup (IF exploration < 0 THEN Range(Familiar)
                                     ELSE IF exploration > 0 THEN Range(Adventurous) ELSE {}))

LiveCandidates(lane, exploration) ==
  {c \in Candidate : /\ c.lane \in SourceLanes(lane, exploration)
                     /\ RowEligible([scene |-> c.scene, from |-> c.lane])}

(* liveCurrentFit: a scene played lately pays for it. *)
LiveCooldown(s) == IF Unrecovered(s) THEN 2 ELSE 0

(* slateTarget: exploration, in percent, mixes places of another pattern in.*)
(* The place is taken modulo the length of For You's own pattern.           *)
Absolute(n) == IF n < 0 THEN 0 - n ELSE n

UsesAlternative(place, exploration) ==
  (place * 7) % Len(ForYou) < (2 * Absolute(exploration) * Len(ForYou) + 100) \div 200

PatternAt(place, exploration) ==
  IF ~UsesAlternative(place, exploration) THEN ForYou
  ELSE IF exploration > 0 THEN Adventurous ELSE Familiar

InPattern(lane, place, exploration) ==
  lane = "for_you" => (place % Len(ForYou)) + 1 \in DOMAIN PatternAt(place, exploration)

TargetOf(lane, place, exploration) ==
  IF lane # "for_you" \/ ~InPattern(lane, place, exploration) THEN lane
  ELSE PatternAt(place, exploration)[(place % Len(ForYou)) + 1]

(* The dimension, facet or entity whose turn it is. *)
TurnsOf(lane, live_) ==
  IF lane \notin {"stretch", "blind_spots", "dormant"} THEN <<>>
  ELSE SetToSortSeq({c.turn : c \in live_} \ {""}, LAMBDA a, b : a = "a" /\ b # "a")

(* greedyUtility: refused next to one of its performers. *)
HistoryPerformers == UNION {c.performers : c \in {d \in Candidate : d.scene \in Shown}}
HistoryStudios == {c.studio : c \in {d \in Candidate : d.scene \in Shown}} \ {""}

Refused(c, selected) == selected # <<>> /\ ShareAny(c.performers, Last(selected).performers)

Penalty(c, selected) ==
  LET seen == UNION {d.performers : d \in Range(selected)}
      studios == {d.studio : d \in Range(selected)} \ {""}
  IN (IF ShareAny(c.performers, seen) THEN 6 ELSE 0)
   + (IF c.studio \in studios THEN 8 ELSE 0)
   + (14 * Max({0} \cup {Likeness[c.scene][d.scene] : d \in Range(selected)})) \div 4
   + (IF ShareAny(c.performers, HistoryPerformers) THEN 4 ELSE 0)
   + (IF c.studio \in HistoryStudios THEN 3 ELSE 0)
   + (5 * Max({0} \cup {Likeness[c.scene][s] : s \in Recent})) \div 4
   + LiveCooldown(c.scene)

Bonus(c, selected) ==
  LET covered == UNION {d.content : d \in Range(selected)}
  IN IF c.content = {} THEN 0
     ELSE (3 * Cardinality(c.content \ covered)) \div Cardinality(c.content)

GreedyUtility(c, selected) == c.value + Bonus(c, selected) - Penalty(c, selected)

(* The pool of a place: the target lane's turn, the target lane, anything.  *)
GreedyPool(lane, exploration, remaining, turns, place) ==
  LET target == TargetOf(lane, place, exploration)
      ofLane == {c \in remaining : c.lane = target}
      preferred == IF turns = <<>> THEN ofLane
                   ELSE {c \in ofLane : c.turn = turns[(place % Len(turns)) + 1]}
  IN IF preferred # {} THEN preferred ELSE IF ofLane # {} THEN ofLane ELSE remaining

(* One more is selected, unless there are enough or the pool is exhausted:  *)
(* nothing is relaxed.  Place by place that is the selection.               *)
OneMore(lane, exploration, from, count, selected) ==
  LET remaining == {c \in from : \A d \in Range(selected) : d.scene # c.scene}
      pool == GreedyPool(lane, exploration, remaining, TurnsOf(lane, from), Len(selected))
      ranked == {c \in pool : ~Refused(c, selected)}
      best == CHOOSE c \in ranked : \A d \in ranked \ {c} :
                LET u == GreedyUtility(c, selected)
                    v == GreedyUtility(d, selected)
                IN u > v \/ (u = v /\ c.scene <= d.scene)
  IN IF Len(selected) >= count \/ ranked = {} THEN selected
     ELSE Append(selected, best)

Greedy(lane, exploration, from, count, prefix) ==
  LET slate[n \in 0..count] ==
        IF n = 0 THEN prefix ELSE OneMore(lane, exploration, from, count, slate[n - 1])
  IN slate[count]

(* loadPreparedSlate: an hour old at most, without what is ineligible or    *)
(* was played since.                                                        *)
PlayedSince(s, at) == \E play \in plays : play.scene = s /\ play.at >= at

UsablePrepared(lane, count) ==
  LET kept == Those(prepared[lane].items,
                    {c \in Candidate : Eligible(c.scene) /\ ~PlayedSince(c.scene, prepared[lane].at)})
  IN IF prepared[lane].at = 0 \/ today - prepared[lane].at > FreshFor THEN <<>>
     ELSE SubSeq(kept, 1, Min({count, Len(kept)}))

(* recommendGreedy: the prepared slate if it is long enough, or else what   *)
(* of it is still live, continued; saved unless the user explores.  Past    *)
(* the end of a shorter pattern the process ends, and nothing is answered.  *)
RecommendGreedy(lane, count, exploration) ==
  LET ready == IF exploration = 0 THEN UsablePrepared(lane, count) ELSE <<>>
      from == LiveCandidates(lane, exploration)
      prefix == Those(ready, from)
      slate == IF Len(ready) >= count THEN ready ELSE Greedy(lane, exploration, from, count, prefix)
  IN /\ \A place \in Len(prefix)..Min({Len(slate), count - 1}) : InPattern(lane, place, exploration)
     /\ answer' = [lane |-> lane, items |-> slate,
                   prefix |-> IF Len(ready) >= count THEN count ELSE Len(prefix),
                   refused |-> {c.scene : c \in from} \ {c.scene : c \in Range(slate)}]
     /\ prepared' = IF exploration # 0 \/ Len(ready) >= count THEN prepared
                    ELSE [prepared EXCEPT ![lane] = [at |-> today, items |-> slate]]
     /\ UNCHANGED factVars

NextGreedy ==
  \/ FactsChange /\ answer' = NoAnswer /\ UNCHANGED prepared
  \/ \E lane \in GreedyLane, count \in 1..MostAsked, exploration \in {0 - 50, 0, 100} :
       RecommendGreedy(lane, count, exploration)

-----------------------------------------------------------------------------
(* A slate has no scene twice and none that may not be shown now, whatever  *)
(* was prepared before; what was chosen now stands next to none of its      *)
(* performers, and a lane with one rotation key per place gives it its turn.*)
GreedySlateFits ==
  LET items == answer.items IN
  /\ \A i, j \in DOMAIN items : i # j => items[i].scene # items[j].scene
  /\ \A i \in DOMAIN items : /\ Eligible(items[i].scene)
                             /\ i > answer.prefix => RowEligible([scene |-> items[i].scene, from |-> items[i].lane])
  /\ \A i \in 2..Len(items) : i > answer.prefix => ~ShareAny(items[i].performers, items[i - 1].performers)
=============================================================================
