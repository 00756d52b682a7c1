--------------------------- MODULE MCRecommendations ------------------------
(***************************************************************************)
(* The way from an artifact to the slates a user sees and plays, for TLC:  *)
(* the generations of artifacts, and what a published model serves.  One   *)
(* module at a time moves (`topic`), the others stay where they began; the *)
(* slates, greedy slates and Prune page read the same facts of the scenes. *)
(***************************************************************************)
EXTENDS Slates, GreedySlates, LaneOrders, LanePolicy, PlaySessions, PruneViews, Generations

VARIABLE topic

pruneOwnVars == <<imported, reading, ever, decided>>
servedVars == <<factVars, slateVars, greedyVars, orderVars, policyVars, playVars, pruneOwnVars>>
recommendationVars == <<topic, servedVars, generationVars>>

RecommendationInit ==
  /\ topic \in {"slates", "greedy", "orders", "lanes", "plays", "prune", "generations"}
  /\ InitFacts /\ InitSlates /\ InitGreedy /\ InitOrders /\ InitPolicy /\ InitPlays
  /\ InitPrune /\ InitGenerations
  /\ topic # "lanes" => watched = {} /\ scores = [s \in Scored |-> CHOOSE x \in Score : TRUE]
  /\ topic # "orders" => table = CHOOSE x \in Candidates : TRUE

SlatesMove ==
  /\ topic = "slates"
  /\ NextSlates
  /\ UNCHANGED <<topic, greedyVars, orderVars, policyVars, playVars, pruneOwnVars, generationVars>>

GreedyMoves ==
  /\ topic = "greedy"
  /\ NextGreedy
  /\ UNCHANGED <<topic, counts, request, pages, orderVars, policyVars, playVars, pruneOwnVars, generationVars>>

OrdersMove ==
  /\ topic = "orders"
  /\ NextOrders
  /\ UNCHANGED <<topic, factVars, slateVars, greedyVars, policyVars, playVars, pruneOwnVars, generationVars>>

LanesMove ==
  /\ topic = "lanes"
  /\ NextPolicy
  /\ UNCHANGED <<topic, factVars, slateVars, greedyVars, orderVars, playVars, pruneOwnVars, generationVars>>

PlaysMove ==
  /\ topic = "plays"
  /\ NextPlays
  /\ UNCHANGED <<topic, factVars, slateVars, greedyVars, orderVars, policyVars, pruneOwnVars, generationVars>>

PruneMoves ==
  /\ topic = "prune"
  /\ NextPrune
  /\ UNCHANGED <<topic, slateVars, greedyVars, orderVars, policyVars, playVars, generationVars>>

GenerationsMove ==
  /\ topic = "generations"
  /\ NextGenerations
  /\ UNCHANGED <<topic, servedVars>>

RecommendationNext ==
  \/ SlatesMove
  \/ GreedyMoves
  \/ OrdersMove
  \/ LanesMove
  \/ PlaysMove
  \/ PruneMoves
  \/ GenerationsMove

RecommendationSpec == RecommendationInit /\ [][RecommendationNext]_recommendationVars

-----------------------------------------------------------------------------
(* The pages of a stream and the greedy slates both keep their promises.    *)
SlatesFit == PagesFit /\ GreedySlateFits

-----------------------------------------------------------------------------
(* Slates: five scenes of two lanes, in their order, and their luck in the draw. *)
OrderRow(s, f) == [scene |-> s, from |-> f]
MCLaneOrder == [for_you |-> <<OrderRow(1, "best_bets"), OrderRow(2, "revisit"),
                              OrderRow(3, "best_bets"), OrderRow(4, "revisit"),
                              OrderRow(5, "best_bets")>>]
MCLuck == [s \in Scene |-> CASE s = 1 -> 9 [] s = 2 -> 4 [] s = 3 -> 2 [] OTHER -> 1]
MCHiding == {{}, {2}}

(* Orders and greedy slates: scenes that share performers, studios, content.*)
Scored4(s, l, v, p, st, co, t) ==
  [scene |-> s, lane |-> l, value |-> v, performers |-> p, studio |-> st, content |-> co, turn |-> t]
MCPattern == <<"best_bets", "stretch", "best_bets">>
MCOrders == <<"stretch", "for_you">>
MCTable(p2, c3) ==
  {Scored4(1, "best_bets", 9, {"p"}, "x", {"f", "g"}, ""), Scored4(2, "best_bets", 8, p2, "x", {"f"}, ""),
   Scored4(3, "best_bets", 3, {"q"}, "", c3, ""), Scored4(2, "stretch", 5, p2, "x", {"f"}, "a"),
   Scored4(4, "stretch", 6, {"p", "q"}, "y", {"g"}, "b"), Scored4(1, "stretch", 4, {"p"}, "x", {"f", "g"}, "a")}
MCCandidates == {MCTable(p, c) : p \in {{"p"}, {"q"}, {}}, c \in SUBSET {"f", "g"}}
MCForYou == <<"best_bets", "stretch", "best_bets", "stretch">>
MCFamiliar == <<"best_bets", "stretch">>
MCCandidate ==
  {Scored4(1, "best_bets", 30, {"p"}, "x", {"f", "g"}, ""), Scored4(2, "best_bets", 29, {"q"}, "x", {"f"}, ""),
   Scored4(3, "best_bets", 28, {"q"}, "", {}, ""), Scored4(2, "stretch", 15, {"q"}, "x", {"f"}, "a"),
   Scored4(4, "stretch", 16, {"p"}, "y", {"g"}, "b"), Scored4(1, "stretch", 14, {"p"}, "x", {"f", "g"}, "a")}
MCLikeness == [s \in Scene |-> [t \in Scene |-> IF s = t THEN 4 ELSE IF s + t = 3 THEN 3 ELSE 1]]

(* Lanes: three scenes of two facets, each with one of five scores.         *)
Signal(i, v, a, c, su) == [id |-> i, value |-> v, affinity |-> a, confidence |-> c, support |-> su]
MCOneScore(n, p, fit, dir, dc, fs) ==
  [eligible |-> TRUE, neighbor |-> n, similarity |-> n, performer |-> p, content |-> p, studio |-> 0,
   fit |-> fit, confidence |-> 40, metadata |-> 50, direct |-> dir, directConfidence |-> dc,
   recovery |-> 20, durable |-> TRUE, features |-> fs, contentFeatures |-> 4]
MCScore ==
  {MCOneScore(5, 5, 30, 0, 0, {Signal(1, 8, 4, 60, 90), Signal(2, -6, -3, 60, 90)}),
   MCOneScore(3, 3, 18, 20, 50, {}),
   MCOneScore(3, 2, 10, 0, 0, {Signal(1, 8, 4, 60, 90), Signal(3, 6, 1, 20, 20)}),
   [MCOneScore(9, 9, 40, 20, 60, {}) EXCEPT !.eligible = FALSE],
   MCOneScore(1, 9, 18, 20, 40, {Signal(1, 3, 2, 50, 90)})}
MCFacet == {[type |-> "tag", id |-> "t"], [type |-> "studio", id |-> "u"]}
MCFacetsOf == [s \in Scored |-> IF s <= 2 THEN MCFacet ELSE {}]
MCAdded == [s \in Scored |-> 3 + s]
MCDormant == {[id |-> "d", of |-> {2, 3}, last |-> 5, strength |-> 20, plays |-> 3, scenes |-> 2]}

(* The Prune page: five scenes of two studios, one of them without.         *)
MCAppeal == <<0-3000, 0-1000, 0-100, 5000, 0-1000>>
MCConfidence == <<6000, 4000, 6000, 5000, 6000>>
MCStudioOf == <<"x", "x", "y", "x", "none">>

(* Plays: a short and a long one from impressions, and one that follows and *)
(* stops at the threshold.                                                  *)
MCSession(s, a, b, active, origin, i) ==
  [scene |-> s, start |-> a, end |-> b, active |-> active, origin |-> origin, impression |-> i]
MCShownAt == [i \in ImpressionId |-> 1]
MCReport == [p \in SessionId |->
  CASE p = 1 -> MCSession(1, 0, 1, "short", "curator", 1)
    [] p = 2 -> MCSession(2, 1, 2, "threshold", "stash", NoImpression)
    [] OTHER -> MCSession(1, 0, 1, "long", "curator", 2)]
=============================================================================
