----------------------------- MODULE LaneOrders -----------------------------
(***************************************************************************)
(* The order a lane is published in: buildOrdering and materializeLanes of *)
(* src/core/materialize.go.  Places are filled one by one, the best        *)
(* candidate for each; what a choice changes in the utilities of the rest  *)
(* is applied to them at once, and the queues keep the outdated entries    *)
(* until they surface.  Each order is saved in a transaction of its own,   *)
(* and so is the row that says that all of them are there.                 *)
(***************************************************************************)
EXTENDS Integers, Sequences, FiniteSets, SequencesExt, FiniteSetsExt

CONSTANTS
  Candidates,   \* the tables of candidates that are tried: sets of records
                \* [scene, lane, value, performers, studio, content, turn]
  Pattern,      \* forYouPattern: the lane of each place of For You
  Queried,      \* queriedScoreFirstLanes
  Orders,       \* the lanes whose orders are made, in turn
  PerformerPenalty, StudioPenalty, ContentPenalty, UncoveredBonus,
  \* the weights, the last two for one whole scene's content
  Whole         \* the unit of utilities: a multiple of every scene's content

(* Ids are compared as numbers here, lanes in their alphabetical order.     *)
LaneRank == [best_bets |-> 1, blind_spots |-> 2, dormant |-> 3, new_arrivals |-> 4,
             revisit |-> 5, stretch |-> 6]

Key(c) == <<c.scene, c.lane>>

Total(c) == Cardinality(c.content)
Weight(c) == IF Total(c) = 0 THEN 1 ELSE Total(c)

(* model_scene_lane: a scene is in a lane once. *)
IsTable(rows) ==
  /\ IsFiniteSet(rows)
  /\ \A c \in rows : /\ c.scene \in Nat /\ c.lane \in DOMAIN LaneRank /\ c.value \in Int
                      /\ IsFiniteSet(c.content) /\ Whole % Weight(c) = 0
  /\ \A c, d \in rows : Key(c) = Key(d) => c = d

ASSUME OrdersAssumption ==
  /\ {PerformerPenalty, StudioPenalty, ContentPenalty, UncoveredBonus} \subseteq Nat
  /\ Whole \in Nat \ {0}
  /\ Pattern \in Seq(STRING) \ {<<>>} /\ Orders \in Seq(STRING)
  /\ \A rows \in Candidates : IsTable(rows)

VARIABLES
  table,     \* model_scene_lane with performers, studios and content
  todo,      \* what is still to be saved: orderings <<lane, ordering>>, the state row
  ordered,   \* the order under construction
  utility,   \* utilities, by candidate
  version,   \* versions
  heap,      \* heaps: entries [key, utility, version] of each selector
  saved,     \* model_lane_order
  complete   \* model_lane_order_state

buildVars == <<ordered, utility, version, heap>>
orderVars == <<table, todo, buildVars, saved, complete>>

Of(lane) == {c \in table : lane = "for_you" \/ c.lane = lane}

Row(k) == CHOOSE c \in table : Key(c) = k

-----------------------------------------------------------------------------
(* selectorsOf; `turn` is the challenged dimension, dark facet or dormant   *)
(* entity of a candidate of the lanes that rotate through theirs.           *)
Rotating == {"stretch", "blind_spots", "dormant"}

SelectorsOf(lane, c) ==
  {<<"all", "">>} \cup (IF lane = "for_you" THEN {<<"lane", c.lane>>} ELSE {})
                  \cup (IF lane \in Rotating /\ c.turn # "" THEN {<<"turn", c.turn>>} ELSE {})

(* stretchDimensions, blindSpotFacets, dormantEntities: sorted, distinct.   *)
(* Stretch rotates in its varied order only.                                *)
Sorted(turns) == SetToSortSeq(turns, LAMBDA a, b : a = "a" /\ b # "a")

Turns(lane, varied) ==
  IF lane \notin Rotating \/ (lane = "stretch" /\ ~varied) THEN <<>>
  ELSE Sorted({c.turn : c \in Of(lane)} \ {""})

SlateTarget(place) == Pattern[(place % Len(Pattern)) + 1]

Wanted(lane, varied, place) ==
  LET turns == Turns(lane, varied) IN
  IF turns # <<>> THEN <<"turn", turns[(place % Len(turns)) + 1]>>
  ELSE IF lane = "for_you" THEN <<"lane", SlateTarget(place)>>
  ELSE <<"all", "">>

(* Utilities are kept in parts of a whole: the share of its content that a  *)
(* candidate has among some features weighs so many of them.                *)
Share(c, features) == Cardinality(c.content \cap features) * (Whole \div Weight(c))

FirstUtility(c, varied) ==
  Whole * c.value + (IF varied /\ c.content # {} THEN Whole * UncoveredBonus ELSE 0)

-----------------------------------------------------------------------------
Before(x, y) ==
  \/ x.utility > y.utility
  \/ x.utility = y.utility /\ x.key[1] < y.key[1]
  \/ x.utility = y.utility /\ x.key[1] = y.key[1] /\ LaneRank[x.key[2]] < LaneRank[y.key[2]]

ScenesIn(rows) == {rows[i].scene : i \in DOMAIN rows}

Taken == ScenesIn(ordered)

(* A selector that no candidate has is an empty queue. *)
Queue(selector) == IF selector \in DOMAIN heap THEN heap[selector] ELSE {}

Valid(entry) == entry.version = version[entry.key] /\ entry.key[1] \notin Taken

Adjacent(entry) == ordered # <<>> /\ Row(entry.key).performers \cap Last(ordered).performers # {}

(* pop: the first valid entry that is not next to one of its performers.    *)
(* What was passed on the way is gone, the deferred entries excepted.       *)
Poppable(selector, varied, allowAdjacent) ==
  {entry \in Queue(selector) : Valid(entry) /\ (varied /\ ~allowAdjacent => ~Adjacent(entry))}

First(entries) == CHOOSE entry \in entries : \A other \in entries \ {entry} : Before(entry, other)

PoppedForGood(selector, varied, allowAdjacent) ==
  LET candidates == Poppable(selector, varied, allowAdjacent)
  IN {entry \in Queue(selector) : candidates # {} /\ Before(First(candidates), entry)}

Popped(selector, varied, allowAdjacent) ==
  LET candidates == Poppable(selector, varied, allowAdjacent)
      passed(entry) == candidates = {} \/ Before(entry, First(candidates)) \/ entry = First(candidates)
  IN {entry \in Queue(selector) :
        ~passed(entry) \/ (Valid(entry) /\ entry \notin candidates)}

(* The wanted selector, any other candidate, any candidate at all. *)
Attempts(lane, varied, place) ==
  <<<<Wanted(lane, varied, place), FALSE>>, <<<<"all", "">>, FALSE>>, <<<<"all", "">>, TRUE>>>>

(* The attempts that would find one at the present place: with none of them *)
(* the order ends, whatever is left.                                        *)
Found(lane, varied) ==
  LET attempts == Attempts(lane, varied, Len(ordered))
  IN {n \in 1..3 : Poppable(attempts[n][1], varied, attempts[n][2]) # {}}

Selectors(lane) == UNION {SelectorsOf(lane, c) : c \in Of(lane)}

(* What the choice of c costs the others: a performer or studio seen again, *)
(* and the shares of their content that it covers.                          *)
PerformersIn(rows) == UNION {rows[i].performers : i \in DOMAIN rows}
StudiosIn(rows) == {rows[i].studio : i \in DOMAIN rows}
ContentIn(rows) == UNION {rows[i].content : i \in DOMAIN rows}

Cost(c, chosen) ==
  (IF /\ c.performers \cap PerformersIn(ordered) = {}
      /\ c.performers \cap chosen.performers # {} THEN Whole * PerformerPenalty ELSE 0)
  + (IF c.studio # "" /\ c.studio \notin StudiosIn(ordered) /\ c.studio = chosen.studio
     THEN Whole * StudioPenalty ELSE 0)
  + (ContentPenalty + UncoveredBonus) * Share(c, chosen.content \ ContentIn(ordered))

Entry(c, u, v) == [key |-> Key(c), utility |-> u[Key(c)], version |-> v[Key(c)]]

(* One place of buildOrdering. *)
PlaceCandidate ==
  LET lane == todo[1][1]
      varied == todo[1][2] = "varied"
      attempts == Attempts(lane, varied, Len(ordered))
      used == Min(Found(lane, varied))
      tried == [h \in DOMAIN heap |->
                  IF \E n \in 1..used : attempts[n][1] = h
                  THEN LET n == Max({m \in 1..used : attempts[m][1] = h})
                       IN Popped(h, varied, attempts[n][2])
                  ELSE heap[h]]
      chosen == Row(First(Poppable(attempts[used][1], varied, attempts[used][2])).key)
      cost == [k \in DOMAIN utility |-> IF varied THEN Cost(Row(k), chosen) ELSE 0]
      changed == {c \in Of(lane) : cost[Key(c)] > 0 /\ c.scene \notin Taken \cup {chosen.scene}}
      utilities == [k \in DOMAIN utility |-> utility[k] - cost[k]]
      versions == [k \in DOMAIN version |-> IF Row(k) \in changed THEN version[k] + 1 ELSE version[k]]
  IN /\ todo # <<>> /\ Found(lane, varied) # {}
     /\ ordered' = Append(ordered, chosen)
     /\ utility' = utilities
     /\ version' = versions
     /\ heap' = [h \in DOMAIN heap |->
                   tried[h] \cup {Entry(c, utilities, versions) : c \in {d \in changed : h \in SelectorsOf(lane, d)}}]
     /\ UNCHANGED <<table, todo, saved, complete>>

(* buildOrdering: every candidate is pushed. *)
Pushed(lane, varied) ==
  LET u == [k \in {Key(c) : c \in Of(lane)} |-> FirstUtility(Row(k), varied)]
      v == [k \in DOMAIN u |-> 0]
  IN [utility |-> u, version |-> v,
      heap    |-> [h \in Selectors(lane) |-> {Entry(c, u, v) : c \in {d \in Of(lane) : h \in SelectorsOf(lane, d)}}]]

Begin(next) ==
  /\ ordered' = <<>>
  /\ IF next = <<>> THEN utility' = <<>> /\ version' = <<>> /\ heap' = <<>>
     ELSE LET new == Pushed(next[1][1], next[1][2] = "varied")
          IN utility' = new.utility /\ version' = new.version /\ heap' = new.heap

(* materializeLanes: three lanes are read score first by a query; the row   *)
(* that says that all is there comes last.                                  *)
OrderingsOf(lane) ==
  (IF lane \in Queried THEN <<>> ELSE <<<<lane, "score_first">>>>) \o <<<<lane, "varied">>>>

Orderings ==
  LET upTo[n \in 0..Len(Orders)] == IF n = 0 THEN <<>> ELSE upTo[n - 1] \o OrderingsOf(Orders[n])
  IN upTo[Len(Orders)]

StateRow == <<"state", "row">>

MaterializeLanes ==
  /\ todo = <<>> /\ ~complete
  /\ todo' = Append(Orderings, StateRow)
  /\ complete' = FALSE /\ saved' = <<>>
  /\ Begin(Append(Orderings, StateRow))
  /\ UNCHANGED table

SaveOrder ==
  /\ todo # <<>> /\ todo[1] # StateRow /\ Found(todo[1][1], todo[1][2] = "varied") = {}
  /\ saved' = Append(saved, [of |-> todo[1], rows |-> ordered])
  /\ todo' = Tail(todo)
  /\ Begin(Tail(todo))
  /\ UNCHANGED <<table, complete>>

SaveState ==
  /\ todo # <<>> /\ todo[1] = StateRow
  /\ complete' = TRUE
  /\ todo' = <<>> /\ Begin(<<>>)
  /\ UNCHANGED <<table, saved>>

(* The build dies with the order it was making, or between two of them. *)
MaterializationDies ==
  /\ todo # <<>>
  /\ todo' = <<>> /\ Begin(<<>>)
  /\ UNCHANGED <<table, saved, complete>>

InitOrders ==
  /\ table \in Candidates
  /\ todo = <<>> /\ ordered = <<>> /\ utility = <<>> /\ version = <<>> /\ heap = <<>>
  /\ saved = <<>> /\ complete = FALSE

NextOrders ==
  \/ PlaceCandidate
  \/ MaterializeLanes \/ SaveOrder \/ SaveState
  \/ MaterializationDies

SpecOrders == InitOrders /\ [][NextOrders]_orderVars

-----------------------------------------------------------------------------
(* What an order should be, computed anew from the rows placed before: the  *)
(* utility of a candidate, and those among which the best one is to be.     *)
FreshUtility(c, varied, placed) ==
  FirstUtility(c, varied)
  - (IF ~varied THEN 0
     ELSE (IF c.performers \cap PerformersIn(placed) # {} THEN Whole * PerformerPenalty ELSE 0)
          + (IF c.studio \in StudiosIn(placed) \ {""} THEN Whole * StudioPenalty ELSE 0)
          + (ContentPenalty + UncoveredBonus) * Share(c, ContentIn(placed)))

LeftOf(lane, placed) == {c \in Of(lane) : c.scene \notin ScenesIn(placed)}

Apart(c, placed) == placed = <<>> \/ c.performers \cap Last(placed).performers = {}

PoolOf(lane, varied, placed) ==
  LET apart == {c \in LeftOf(lane, placed) : varied => Apart(c, placed)}
      wanted == {c \in apart : Wanted(lane, varied, Len(placed)) \in SelectorsOf(lane, c)}
  IN IF wanted # {} THEN wanted ELSE IF apart # {} THEN apart ELSE LeftOf(lane, placed)

Better(c, d, varied, placed) ==
  Before([key |-> Key(c), utility |-> FreshUtility(c, varied, placed)],
         [key |-> Key(d), utility |-> FreshUtility(d, varied, placed)])

(* Each row is the best that could be placed there. *)
IsGreedy(of, rows) ==
  \A n \in DOMAIN rows :
    LET placed == SubSeq(rows, 1, n - 1)
        pool == PoolOf(of[1], of[2] = "varied", placed)
    IN /\ rows[n] \in pool
       /\ \A c \in pool \ {rows[n]} : Better(rows[n], c, of[2] = "varied", placed)

(* Where the state row is, every lane has its orders, each with every scene *)
(* of the lane once.                                                        *)
OrdersAreComplete ==
  /\ complete => [i \in DOMAIN saved |-> saved[i].of] = Orderings
  /\ \A i \in DOMAIN saved :
       /\ ScenesIn(saved[i].rows) = {c.scene : c \in Of(saved[i].of[1])}
       /\ Len(saved[i].rows) = Cardinality(ScenesIn(saved[i].rows))

(* Utilities are kept up to date step by step, and the queues keep outdated *)
(* entries until they surface; yet every order, saved or under construction,*)
(* is the one that is made by looking for the best candidate of each place  *)
(* anew: none is lost, none is chosen for what it was worth before.  And    *)
(* where the model counts as materialized all orders are there, and whole.  *)
OrdersAreGreedy ==
  /\ todo # <<>> => IsGreedy(todo[1], ordered)
  /\ \A i \in DOMAIN saved : IsGreedy(saved[i].of, saved[i].rows)
  /\ OrdersAreComplete
=============================================================================
