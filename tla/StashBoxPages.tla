--------------------------- MODULE StashBoxPages ---------------------------
(***************************************************************************)
(* How one discovery probe reads the pages of a stash-box whose listing    *)
(* moves meanwhile.  src/core/expand.go (fetchParallel, fetchUpdatedSince) *)
(* and src/core/theporndb.go (list), whose REST pages are shorter than the *)
(* pages its callers ask for.                                              *)
(***************************************************************************)
EXTENDS Integers, Sequences, SequencesExt

CONSTANTS
  Catalogue,    \* the scenes that match the probe, in the order they begin in
  FetchPageSize,  \* fetchPageSize, 500
  RestPageSize, \* ThePornDB's cap of a page, 100
  ProbeLimits,  \* spec.limit
  MaxMoves      \* bound: changes of the listing

ScenesIn(rows) == {rows[i] : i \in DOMAIN rows}

ASSUME StashBoxPagesAssumption ==
  /\ {FetchPageSize, RestPageSize, MaxMoves} \cup ProbeLimits \subseteq Nat \ {0}
  /\ Catalogue \in Seq(ScenesIn(Catalogue)) /\ IsInjective(Catalogue)

VARIABLES
  listing,      \* what the stash-box answers with, newest update first
  updated,      \* scenes stamped after the watermark
  probe,        \* the probe between its requests
  moves,        \* changes so far
  awaited       \* history: the scenes the probe must bring, as far as none is removed

probeVars == <<listing, updated, probe, moves, awaited>>

NoProbe == [pc |-> "idle"]

Smaller(a, b) == IF a < b THEN a ELSE b

InitProbes ==
  /\ \E n \in 0..Len(Catalogue) :
       /\ listing = SubSeq(Catalogue, 1, n)
       /\ \E k \in 0..n : updated = ScenesIn(SubSeq(Catalogue, 1, k))
  /\ probe = NoProbe /\ moves = 0 /\ awaited = {}

-----------------------------------------------------------------------------
(* A slip: a virtual page that begins inside a REST page begins with it.    *)
VirtualPageUnskipped(n, size, cap) ==
  [size |-> size, restSize |-> Smaller(size, cap), rest |-> ((n - 1) * size) \div Smaller(size, cap) + 1,
   skip |-> 0, rows |-> <<>>, newer |-> {}, total |-> 0, read |-> FALSE]

(* list: a page of `size` rows from REST pages of at most `cap` rows.       *)
VirtualPage(n, size, cap) ==
  LET restSize == Smaller(size, cap)
      offset == (n - 1) * size
  IN [size |-> size, restSize |-> restSize, rest |-> offset \div restSize + 1,
      skip |-> offset % restSize, rows |-> <<>>, newer |-> {}, total |-> 0, read |-> FALSE]

RestRows(page) == SubSeq(listing, (page.rest - 1) * page.restSize + 1,
                         Smaller(page.rest * page.restSize, Len(listing)))

Taken(page, data) ==
  SubSeq(data, page.skip + 1, Smaller(Len(data), page.skip + page.size - Len(page.rows)))

ReadRest(page) ==
  LET data == RestRows(page)
      rows == page.rows \o Taken(page, data)
  IN [page EXCEPT !.rows = rows, !.newer = @ \cup (ScenesIn(data) \cap updated),
                  !.total = Len(listing), !.rest = @ + 1, !.skip = 0,
                  !.read = \/ Len(rows) >= page.size
                           \/ data = <<>>
                           \/ page.rest * page.restSize >= Len(listing)]

ReadPage(n) ==
  /\ probe.pc \in {"first", "rest", "walk"}
  /\ n \in DOMAIN probe.pages
  /\ ~probe.pages[n].read
  /\ probe' = [probe EXCEPT !.pages[n] = ReadRest(@)]
  /\ UNCHANGED <<listing, updated, moves, awaited>>

Begin(kind, limit, cap) ==
  /\ probe = NoProbe
  /\ probe' = [kind |-> kind, pc |-> IF kind = "walk" THEN "walk" ELSE "first", limit |-> limit, cap |-> cap, fetched |-> 0, rows |-> <<>>, steady |-> TRUE,
               pages |-> <<VirtualPage(1, Smaller(FetchPageSize, limit), cap)>>]
  /\ UNCHANGED <<listing, updated, moves>>

-----------------------------------------------------------------------------
(* fetchParallel: the first page tells how many there are; the others are   *)
(* read by several workers and merged in page order.                        *)
BeginParallel(limit, cap) ==
  /\ Begin("parallel", limit, cap)
  /\ UNCHANGED awaited

PageSizeOf == Smaller(FetchPageSize, probe.limit)
PagesNeeded(total) == (Smaller(total, probe.limit) + PageSizeOf - 1) \div PageSizeOf

FirstPageRead ==
  /\ probe.pc = "first" /\ probe.pages[1].read
  /\ LET page == probe.pages[1]
     IN probe' = IF page.rows = <<>> \/ Len(page.rows) >= page.total
                 THEN [probe EXCEPT !.pc = "end", !.rows = page.rows]
                 ELSE [probe EXCEPT !.pc = "rest",
                         !.pages = [n \in 1..PagesNeeded(page.total) |->
                                      IF n = 1 THEN page ELSE VirtualPage(n, PageSizeOf, probe.cap)]]
  /\ UNCHANGED <<listing, updated, moves, awaited>>

(* Rows count towards the limit page by page, doubles included. *)
Merged ==
  LET upTo[n \in 0..Len(probe.pages)] ==
        IF n = 0 THEN <<>>
        ELSE LET before == upTo[n - 1]
                 rows == probe.pages[n].rows
             IN before \o SubSeq(rows, 1, Smaller(Len(rows), probe.limit - Len(before)))
  IN upTo[Len(probe.pages)]

MergePages ==
  /\ probe.pc = "rest" /\ \A n \in DOMAIN probe.pages : probe.pages[n].read
  /\ probe' = [probe EXCEPT !.pc = "end", !.rows = Merged]
  /\ UNCHANGED <<listing, updated, moves, awaited>>

-----------------------------------------------------------------------------
(* A slip: a walk that ends at the first scene it has already. *)
StopsWalkAtSeen(page, x) == x \notin page.newer \/ x \in ScenesIn(probe.rows)

(* fetchUpdatedSince: page after page, until the first scene that is not    *)
(* newer than the watermark, or the limit.                                  *)
BeginSince(limit) ==
  /\ Begin("walk", limit, FetchPageSize)
  /\ awaited' = updated

StopsWalk(page, x) == x \notin page.newer

Old(page) == {i \in DOMAIN page.rows : StopsWalk(page, page.rows[i])}
Fresh(page) == IF Old(page) = {} THEN Len(page.rows)
               ELSE (CHOOSE i \in Old(page) : \A j \in Old(page) : i <= j) - 1

WalkPage ==
  /\ probe.pc = "walk"
  /\ LET n == Len(probe.pages)
         page == probe.pages[n]
         room == probe.limit - probe.fetched
         taken == SubSeq(page.rows, 1, Smaller(Fresh(page), room))
         last == \/ Old(page) # {}
                 \/ probe.fetched + Len(taken) >= probe.limit
                 \/ page.rows = <<>>
                 \/ n * page.size >= page.total
     IN /\ page.read
        /\ probe' = [probe EXCEPT !.pc = IF last THEN "end" ELSE "walk",
                                  !.rows = @ \o taken, !.fetched = @ + Len(taken),
                                  !.pages = IF last THEN @ ELSE Append(@, VirtualPage(n + 1, page.size, probe.cap))]
  /\ UNCHANGED <<listing, updated, moves, awaited>>

(* A request fails, and the probe with it; or its rows are handed over. *)
ProbeEnds ==
  /\ probe # NoProbe
  /\ probe' = NoProbe /\ awaited' = {}
  /\ UNCHANGED <<listing, updated, moves>>

-----------------------------------------------------------------------------
(* The stash-box: a scene is edited or added, and comes first; or removed.  *)
Without(x) ==
  IF x \notin ScenesIn(listing) THEN listing
  ELSE RemoveAt(listing, CHOOSE i \in DOMAIN listing : listing[i] = x)

ListingMoves ==
  /\ moves < MaxMoves
  /\ moves' = moves + 1
  /\ probe' = IF probe = NoProbe THEN probe ELSE [probe EXCEPT !.steady = FALSE]

SceneUpdated(x) ==
  /\ ListingMoves
  /\ listing' = <<x>> \o Without(x)
  /\ updated' = updated \cup {x}
  /\ awaited' = awaited \ {x}

SceneRemoved(x) ==
  /\ ListingMoves
  /\ x \in ScenesIn(listing)
  /\ listing' = Without(x)
  /\ updated' = updated \ {x}
  /\ awaited' = {}

NextProbes ==
  \/ \E limit \in ProbeLimits, cap \in {FetchPageSize, RestPageSize} : BeginParallel(limit, cap)
  \/ \E limit \in ProbeLimits : BeginSince(limit)
  \/ \E n \in 1..Len(Catalogue) + 1 : ReadPage(n)
  \/ FirstPageRead \/ MergePages \/ WalkPage \/ ProbeEnds
  \/ \E x \in ScenesIn(Catalogue) : SceneUpdated(x)
  \/ \E x \in ScenesIn(Catalogue) : SceneRemoved(x)

SpecProbes == InitProbes /\ [][NextProbes]_probeVars

-----------------------------------------------------------------------------
(* Pages read in any order, through REST pages of another size, are the     *)
(* first `limit` rows of the listing, none twice and none left out, unless  *)
(* it moved meanwhile.                                                      *)
PagesAreTheListing ==
  probe.pc = "end" /\ probe.kind = "parallel" /\ probe.steady
    => probe.rows = SubSeq(listing, 1, Smaller(probe.limit, Len(listing)))

(* A walk back to the watermark that did not reach its limit has every      *)
(* scene that was newer when it began, though others are edited meanwhile   *)
(* and shift its pages, as long as none is removed.  One edited again while *)
(* it walks may slip past it: it is newer than the next watermark, which is *)
(* taken before the walk.                                                   *)
WalksMissNothing ==
  probe.pc = "end" /\ probe.kind = "walk" /\ probe.fetched < probe.limit
    => awaited \subseteq ScenesIn(probe.rows)
=============================================================================
