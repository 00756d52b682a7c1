-------------------------------- MODULE Slates --------------------------------
(***************************************************************************)
(* One request for a slate: getSlateCore of src/core/slate.go over the     *)
(* published order of a lane (src/core/materialize.go).  It counts the     *)
(* lane, reads rows, draws, cuts the page and records the impression,      *)
(* statement by statement, while feedback, plays and syncs commit.         *)
(***************************************************************************)
EXTENDS Eligibility, Sequences, SequencesExt

CONSTANTS
  Lane,
  LaneOrder,    \* model_lane_order: rows [scene, from] of each lane
  Luck,         \* -log of the uniform that a draw's seed gives a scene
  PageSize,     \* config: page_size
  Chunk,        \* rows per statement: 100
  LeastPool, MostPool,  \* bounds of the pool of a draw: 100 and 500
  Hiding        \* sets of scenes that a client has on its other rows

ASSUME SlatesAssumption ==
  /\ LaneOrder \in [Lane -> Seq([scene : Scene, from : STRING])]
  /\ \A l \in Lane : \A i, j \in DOMAIN LaneOrder[l] :     \* UNIQUE (lane, scene_id)
       LaneOrder[l][i].scene = LaneOrder[l][j].scene => i = j
  /\ Luck \in [Scene -> Nat]
  /\ {PageSize, Chunk, LeastPool, MostPool} \subseteq Nat \ {0}
  /\ \A hiding \in Hiding : IsFiniteSet(hiding)

VARIABLES
  counts,    \* application_meta: the cached count of a lane and its fingerprint
  request,   \* the request being served
  pages      \* history: the pages served since a row last changed

slateVars == <<counts, request, pages>>

NoCount == [count |-> 0, fingerprint |-> <<>>]
NoRequest == [pc |-> "none"]

InitSlates ==
  /\ counts = [l \in Lane |-> NoCount]
  /\ request = NoRequest
  /\ pages = {}

-----------------------------------------------------------------------------
(* eligibilityFingerprint: a number and a time of every table. *)
LatestAt(rows) == IF rows = {} THEN 0
                  ELSE CHOOSE at \in {row.at : row \in rows} : \A row \in rows : row.at <= at

FeedbackFingerprint == <<Cardinality(live), LatestAt(live), Cardinality(files)>>

EligibilityFingerprint ==
  <<Cardinality(live), LatestAt(live), Cardinality(excluded), LatestAt(excluded),
    Cardinality(prunings), LatestAt(prunings), Cardinality(blocks), LatestAt(blocks),
    Cardinality(files)>>

RowsOfLane(l) == {LaneOrder[l][i] : i \in DOMAIN LaneOrder[l]}

(* ineligibleLaneScenes: SQL narrows the lane to suspects. *)
SuspectsWithoutRevisits(rows) ==
  {row \in rows : \/ row.scene \notin files
                  \/ \E x \in live \cup excluded \cup prunings : x.scene = row.scene
                  \/ tagsOf[row.scene] \cap BlockedTags # {}
                  \/ row.from = "best_bets" /\ Played(row.scene)}

Suspects(rows) ==
  {row \in rows : \/ row.scene \notin files
                  \/ \E f \in live : f.scene = row.scene
                  \/ \E e \in excluded : e.scene = row.scene
                  \/ \E p \in prunings : p.scene = row.scene
                  \/ tagsOf[row.scene] \cap BlockedTags # {}
                  \/ row.from \in {"best_bets", "revisit"} /\ Played(row.scene)}

IneligibleLaneScenes(rows) == {row \in Suspects(rows) : ~RowEligible(row)}

(* What a cached count saw that its fingerprint does not: times that pass,  *)
(* plays, the tags of scenes, which files they were.                        *)
Unseen == <<files, plays, tagsOf, {s \in Scene : NotNowActive(s)}, {s \in Scene : Unrecovered(s)}>>

(* excludedEligibleCount: taken off the total, in the lane or not. *)
HiddenCount(hiding) == Cardinality({s \in hiding : Eligible(s)})

NotBelowZero(n) == IF n < 0 THEN 0 ELSE n

\* History: the tables as a fingerprint was taken of them, and when.
Asked == [at |-> today, live |-> live, excluded |-> excluded, prunings |-> prunings, blocks |-> blocks]

-----------------------------------------------------------------------------
(* getSlateCore and availableCount: the fingerprint first. *)
AskSlate(l, page, hiding, drawn) ==
  /\ request = NoRequest
  /\ request' = [pc |-> "count", lane |-> l, page |-> page, hiding |-> hiding, drawn |-> drawn,
                 fingerprint |-> EligibilityFingerprint, asked |-> Asked, total |-> 0]
  /\ UNCHANGED <<counts, pages>>

UseCount ==
  LET cached == counts[request.lane] IN
  /\ request.pc = "count"
  /\ cached.fingerprint = request.fingerprint
  /\ request' = [request EXCEPT !.pc = "rank",
                   !.total = NotBelowZero(cached.count - HiddenCount(request.hiding))]
  /\ UNCHANGED <<counts, pages>>

AvailableCount ==
  LET l == request.lane
      rows == RowsOfLane(l)
      count == Cardinality(rows) - Cardinality(IneligibleLaneScenes(rows))
  IN /\ request.pc = "count"
     /\ counts[l].fingerprint # request.fingerprint
     /\ counts' = [counts EXCEPT ![l] = [count |-> count, fingerprint |-> request.fingerprint,
                                         unseen |-> Unseen, asked |-> request.asked,
                                         torn |-> blocks # request.asked.blocks]]
     /\ request' = [request EXCEPT !.pc = "rank",
                      !.total = NotBelowZero(count - HiddenCount(request.hiding))]
     /\ UNCHANGED pages

(* materializedLaneRows: chunk by chunk, until there are enough rows; no    *)
(* more than asked for are kept.                                            *)
RowsOfPage == request.page * PageSize

RowsAsked ==
  LET needed == request.page * PageSize + Cardinality(request.hiding)
      pool == LET pages5 == 5 * PageSize
                  capped == IF pages5 < MostPool THEN pages5 ELSE MostPool
              IN (IF capped < LeastPool THEN LeastPool ELSE capped) + Cardinality(request.hiding)
  IN IF request.drawn /\ pool > needed THEN pool ELSE needed

LaneRows(l, wanted) ==
  LET order == LaneOrder[l]
      size == IF wanted > Chunk THEN wanted ELSE Chunk
      last == Len(order) \div size + 1
      upTo(k) == IF k * size < Len(order) THEN k * size ELSE Len(order)
      chunk(k) == SubSeq(order, (k - 1) * size + 1, upTo(k))
      selected[k \in 0..last] ==
        IF k = 0 THEN <<>>
        ELSE IF Len(selected[k - 1]) >= wanted THEN selected[k - 1]
        ELSE selected[k - 1] \o Those(chunk(k), {row \in RowsOfLane(l) : RowEligible(row)})
  IN selected[last]

MaterializedLaneRows(l, wanted) ==
  LET rows == LaneRows(l, wanted)
  IN SubSeq(rows, 1, IF Len(rows) < wanted THEN Len(rows) ELSE wanted)

(* drawSlate: a weighted order within each source lane of a bounded pool,   *)
(* whose slots stay the lanes'.  A row's weight falls with its place.       *)
PoolSize(rows) ==
  LET pool == IF 5 * PageSize < MostPool THEN 5 * PageSize ELSE MostPool
      least == IF pool < LeastPool THEN LeastPool ELSE pool
  IN IF Len(rows) < least THEN Len(rows) ELSE least

DrawPool(pool) ==
  LET size == Len(pool)
      weight(i) == 5 * size - 4 * (i - 1)
      peers(i) == {j \in 1..size : pool[j].from = pool[i].from}
      \* Luck / weight, smaller first; ids break ties, here places
      before(i, j) == \/ Luck[pool[i].scene] * weight(j) < Luck[pool[j].scene] * weight(i)
                      \/ Luck[pool[i].scene] * weight(j) = Luck[pool[j].scene] * weight(i) /\ i < j
      slot(i) == Cardinality({j \in peers(i) : j < i})
      drawn(i) == CHOOSE j \in peers(i) : Cardinality({k \in peers(i) : before(k, j)}) = slot(i)
  IN [i \in 1..size |-> pool[drawn(i)]]

DrawSlate(rows) ==
  DrawPool(SubSeq(rows, 1, PoolSize(rows))) \o SubSeq(rows, PoolSize(rows) + 1, Len(rows))

(* The rows without those the client shows elsewhere, drawn, cut to the     *)
(* page and recorded as an impression.                                      *)
Recommended ==
  LET kept == Those(MaterializedLaneRows(request.lane, RowsAsked),
                    {row \in RowsOfLane(request.lane) : row.scene \notin request.hiding})
  IN IF request.drawn THEN DrawSlate(kept) ELSE kept

PageOf(rows, page) ==
  LET last == page * PageSize
  IN SubSeq(rows, (page - 1) * PageSize + 1, IF Len(rows) < last THEN Len(rows) ELSE last)

Stream == {p \in pages : p.lane = request.lane /\ p.hiding = request.hiding /\ p.drawn = request.drawn}

ServeSlate ==
  /\ request.pc = "rank"
  /\ pages' = Stream \cup {[lane |-> request.lane, page |-> request.page,
                           hiding |-> request.hiding, drawn |-> request.drawn,
                           rows |-> PageOf(Recommended, request.page)]}
  /\ request' = NoRequest
  /\ UNCHANGED counts

NextSlates ==
  \/ FactsChange /\ pages' = {} /\ UNCHANGED <<counts, request>>
  \/ /\ \/ \E l \in Lane, page \in 1..2, hiding \in Hiding, drawn \in BOOLEAN :
             AskSlate(l, page, hiding, drawn)
        \/ UseCount \/ AvailableCount \/ ServeSlate
     /\ UNCHANGED factVars

SpecSlates == InitFacts /\ InitSlates /\ [][NextSlates]_<<factVars, slateVars>>

-----------------------------------------------------------------------------
(* SQL's narrowing to suspects loses no row: the scenes it spares would     *)
(* pass the full check, in every state of the tables.                       *)
NarrowingIsExact ==
  \A l \in Lane : IneligibleLaneScenes(RowsOfLane(l)) = {row \in RowsOfLane(l) : ~RowEligible(row)}

(* No further row of the millisecond in which the fingerprint was taken. *)
NothingBeside(asked) ==
  /\ {row \in live : row.at = asked.at} \subseteq asked.live
  /\ {row \in excluded : row.at = asked.at} \subseteq asked.excluded
  /\ {row \in prunings : row.at = asked.at} \subseteq asked.prunings
  /\ {row \in blocks : row.at = asked.at} \subseteq asked.blocks

(* A count that is served from the cache is the lane's: whatever feedback,  *)
(* corrections, exclusions, prune decisions and blocked tags did since it   *)
(* was taken shows in the fingerprint, unless it was in the very millisecond*)
(* in which the fingerprint was taken, or tags were blocked between that    *)
(* and the count; times that passed, plays, tags of scenes and swapped      *)
(* files never show.                                                        *)
CachedCountIsRight ==
  \A l \in Lane :
    LET cached == counts[l] IN
      /\ cached # NoCount /\ ~cached.torn /\ NothingBeside(cached.asked)
      /\ cached.fingerprint = EligibilityFingerprint /\ cached.unseen = Unseen
      => cached.count = Cardinality({row \in RowsOfLane(l) : RowEligible(row)})

(* A slate shows what may be shown now and nothing its client shows         *)
(* elsewhere; while the rows stand still, the pages of one draw neither     *)
(* repeat a scene nor leave one out, and the draw keeps every lane's slots. *)
PagesFit ==
  /\ \A p \in pages : \A i \in DOMAIN p.rows :
       RowEligible(p.rows[i]) /\ p.rows[i].scene \notin p.hiding
  /\ \A p, q \in pages :
       p.page = 1 /\ q.page = 2
       => LET shown == Those(LaneOrder[p.lane], {row \in RowsOfLane(p.lane) :
                                                     RowEligible(row) /\ row.scene \notin p.hiding})
              both == p.rows \o q.rows
              size == Len(both)
          IN   /\ size = IF Len(shown) < 2 * PageSize THEN Len(shown) ELSE 2 * PageSize
               /\ Cardinality({both[i].scene : i \in 1..size}) = size
               /\ \A i \in 1..size : both[i].from = shown[i].from
=============================================================================
