--------------------------- MODULE SourceSyncProofs ---------------------------
(***************************************************************************)
(* Proofs about SourceSync, for any library, page sizes and number of      *)
(* changes: what the changes made while a run is open must spare for a     *)
(* sync to drop only what Stash no longer has, for the watermarks to be  *)
(* sound, and for what a completed sync leaves to agree with Stash.      *)
(***************************************************************************)
EXTENDS SourceSync, FiniteSetTheorems, WellFoundedInduction, TLAPS

-----------------------------------------------------------------------------
(* Pages of a finite set, in the order of a key.                           *)

LEMMA Division ==
  ASSUME NEW a \in Nat, NEW n \in Nat \ {0}, NEW p \in Nat \ {0}
  PROVE  /\ a \div n = p - 1 <=> (p - 1) * n <= a /\ a < p * n
         /\ (p - 1) * n \in Nat /\ p * n \in Nat /\ p * n = (p - 1) * n + n
         /\ p <= p * n
  <1>1. a = n * (a \div n) + (a % n) /\ a % n \in 0..n - 1 /\ a \div n \in Nat
    OBVIOUS
  <1>2. p * n = (p - 1) * n + n /\ (p - 1) * n \in Nat /\ p * n \in Nat
    OBVIOUS
  <1>3. ASSUME a \div n = p - 1
        PROVE  (p - 1) * n <= a /\ a < p * n
    BY <1>1, <1>2, <1>3
  <1>4. ASSUME (p - 1) * n <= a, a < p * n
        PROVE  a \div n = p - 1
    <2> DEFINE d == a \div n
               r == a % n
    <2>1. d \in Nat /\ r \in 0..n - 1 /\ a = n * d + r
      BY <1>1
    <2> HIDE DEF d, r
    <2>2. ~(d < p - 1)
      <3>1. SUFFICES ASSUME d + 1 <= p - 1 PROVE FALSE
        BY <2>1
      <3>2. n * (d + 1) <= (p - 1) * n
        BY <2>1, <3>1
      <3>3. n * (d + 1) = n * d + n
        BY <2>1
      <3>. QED
        BY <1>4, <2>1, <3>2, <3>3
    <2>3. ~(d > p - 1)
      <3>1. SUFFICES ASSUME p <= d PROVE FALSE
        BY <2>1
      <3>2. p * n <= n * d
        BY <2>1, <3>1
      <3>. QED
        BY <1>2, <1>4, <2>1, <3>2
    <2>. QED
      BY <2>1, <2>2, <2>3 DEF d
  <1>5. p <= p * n
    OBVIOUS
  <1>. QED
    BY <1>2, <1>3, <1>4, <1>5

LEMMA Least ==
  ASSUME NEW S, S \subseteq Nat, S # {}
  PROVE  \E s \in S : \A r \in S : s <= r
  <1>1. PICK s \in S : \A r \in S : <<r, s>> \notin OpToRel(<, Nat)
    BY NatLessThanWellFounded, WFMin
  <1>2. \A r \in S : ~(r < s)
    BY <1>1 DEF OpToRel
  <1>. QED
    BY <1>2

LEMMA Largest ==
  ASSUME NEW S, S \subseteq Nat, S # {}, NEW b \in Nat, \A r \in S : r <= b
  PROVE  /\ Max(S) \in S
         /\ \A r \in S : r <= Max(S)
  <1> DEFINE B == {m \in Nat : \A r \in S : r <= m}
  <1>1. PICK m \in B : \A q \in B : m <= q
    <2>1. B \subseteq Nat /\ b \in B
      OBVIOUS
    <2> HIDE DEF B
    <2>. QED
      BY <2>1, Least
  <1>2. m \in S
    <2>1. SUFFICES ASSUME m \notin S PROVE FALSE
      OBVIOUS
    <2>2. m \in Nat /\ \A r \in S : r \in Nat /\ r <= m
      BY <1>1
    <2>3. \A r \in S : r <= m - 1
      BY <2>1, <2>2
    <2>4. m - 1 \in Nat
      <3>1. PICK r \in S : TRUE
        OBVIOUS
      <3>2. r \in Nat /\ r <= m - 1
        BY <2>2, <2>3
      <3>. QED
        BY <2>2, <3>2
    <2>5. m - 1 \in B
      BY <2>3, <2>4
    <2>. QED
      BY <1>1, <2>2, <2>5
  <1>3. \E x \in S : \A y \in S : x >= y
    BY <1>1, <1>2
  <1>4. Max(S) \in S /\ \A y \in S : Max(S) >= y
    BY <1>3 DEF Max
  <1>. QED
    BY <1>4

LEMMA Smallest ==
  ASSUME NEW S, S \subseteq Nat, S # {}
  PROVE  Min(S) \in S /\ \A r \in S : Min(S) <= r
  <1>1. \E x \in S : \A y \in S : x <= y
    BY Least
  <1>. QED
    BY <1>1 DEF Min

\* The members of S in front of s.
Before(S, key, s) == {t \in S : key[t] < key[s]}

Ordered(S, key) ==
  /\ IsFiniteSet(S) /\ \A t \in S : key[t] \in Nat
  /\ \A t, u \in S : key[t] = key[u] => t = u

LEMMA RankInRange ==
  ASSUME NEW S, NEW key, Ordered(S, key), NEW s \in S
  PROVE  /\ IsFiniteSet(Before(S, key, s))
         /\ Cardinality(Before(S, key, s)) \in Nat
         /\ Cardinality(S) \in Nat
         /\ Cardinality(Before(S, key, s)) < Cardinality(S)
  <1>1. Before(S, key, s) \in SUBSET S /\ Before(S, key, s) # S
    BY DEF Before, Ordered
  <1>. QED
    BY <1>1, FS_Subset, FS_CardinalityType DEF Ordered

\* There is a last one.
LEMMA LastOne ==
  ASSUME NEW S, NEW key, Ordered(S, key), NEW L, L \subseteq S, L # {},
         NEW b \in Nat, \A t \in L : key[t] <= b
  PROVE  \E v \in L : \A t \in L : key[t] <= key[v]
  <1> DEFINE K == {key[t] : t \in L}
  <1>1. K \subseteq Nat /\ K # {} /\ \A r \in K : r <= b
    BY DEF Ordered
  <1>2. Max(K) \in K /\ \A r \in K : r <= Max(K)
    <2> HIDE DEF K
    <2>. QED
      BY <1>1, Largest
  <1>. QED
    BY <1>2

\* Ranks have no gaps.
LEMMA RankExists ==
  ASSUME NEW S, NEW key, Ordered(S, key), NEW n \in Nat,
         NEW s \in S, Cardinality(Before(S, key, s)) >= n
  PROVE  \E u \in S : Cardinality(Before(S, key, u)) = n
  <1> DEFINE rank(t) == Cardinality(Before(S, key, t))
             R == {r \in Nat : r >= n /\ \E t \in S : rank(t) = r}
  <1>1. R \subseteq Nat /\ rank(s) \in R
    BY RankInRange
  <1>2. PICK r \in R : \A q \in R : r <= q
    <2> HIDE DEF R
    <2>. QED
      BY <1>1, Least
  <1>3. PICK u \in S : rank(u) = r
    BY <1>2
  <1>4. SUFFICES ASSUME r > n PROVE FALSE
    BY <1>2, <1>3
  <1> DEFINE L == Before(S, key, u)
  <1>5. L # {} /\ L \subseteq S /\ IsFiniteSet(L)
    BY <1>3, <1>4, FS_EmptySet, RankInRange DEF Before
  <1>6. \A t \in L : key[t] <= key[u]
    BY DEF Before, Ordered
  <1>7. PICK v \in L : \A t \in L : key[t] <= key[v]
    <2>1. key[u] \in Nat
      BY DEF Ordered
    <2> HIDE DEF L
    <2>. QED
      BY <1>5, <1>6, <2>1, LastOne
  <1>8. Before(S, key, v) = L \ {v}
    BY <1>7 DEF Before, Ordered
  <1>9. rank(v) = r - 1
    BY <1>3, <1>5, <1>7, <1>8, FS_RemoveElement
  <1>10. r - 1 \in R
    BY <1>2, <1>4, <1>5, <1>7, <1>9
  <1>. QED
    BY <1>2, <1>10

Rank(S, key, s) == Cardinality(Before(S, key, s))

\* The n members of S that make its page p.
PageOf(S, key, n, p) == {s \in S : Rank(S, key, s) \div n = p - 1}

LEMMA PageRanks ==
  ASSUME NEW S, NEW key, Ordered(S, key), NEW n \in Nat \ {0},
         NEW p \in Nat \ {0}
  PROVE  /\ (p - 1) * n \in Nat /\ p * n \in Nat /\ p <= p * n
         /\ Cardinality(S) \in Nat
         /\ \A s \in S : /\ Rank(S, key, s) \in Nat
                         /\ Rank(S, key, s) < Cardinality(S)
                         /\ s \in PageOf(S, key, n, p) <=>
                              (p - 1) * n <= Rank(S, key, s)
                              /\ Rank(S, key, s) < p * n
  <1>1. /\ (p - 1) * n \in Nat /\ p * n \in Nat /\ p <= p * n
    BY Division
  <1>2. Cardinality(S) \in Nat
    BY FS_CardinalityType DEF Ordered
  <1>3. ASSUME NEW s \in S
        PROVE  /\ Rank(S, key, s) \in Nat
               /\ Rank(S, key, s) < Cardinality(S)
               /\ s \in PageOf(S, key, n, p) <=>
                    (p - 1) * n <= Rank(S, key, s) /\ Rank(S, key, s) < p * n
    <2>1. Rank(S, key, s) \in Nat /\ Rank(S, key, s) < Cardinality(S)
      BY RankInRange DEF Rank
    <2>2. Rank(S, key, s) \div n = p - 1 <=>
            (p - 1) * n <= Rank(S, key, s) /\ Rank(S, key, s) < p * n
      BY <2>1, Division
    <2>. QED
      BY <2>1, <2>2 DEF PageOf
  <1>. QED
    BY <1>1, <1>2, <1>3

\* Nothing follows an empty page.
LEMMA EmptyPage ==
  ASSUME NEW S, NEW key, Ordered(S, key), NEW n \in Nat \ {0},
         NEW p \in Nat \ {0}, PageOf(S, key, n, p) = {}
  PROVE  \A s \in S : Rank(S, key, s) < (p - 1) * n
  <1>1. SUFFICES ASSUME NEW s \in S, ~(Rank(S, key, s) < (p - 1) * n)
                 PROVE  FALSE
    OBVIOUS
  <1>2. /\ (p - 1) * n \in Nat /\ p * n \in Nat /\ Rank(S, key, s) \in Nat
        /\ p * n = (p - 1) * n + n
    BY PageRanks, Division
  <1>3. PICK u \in S : Rank(S, key, u) = (p - 1) * n
    BY <1>1, <1>2, RankExists DEF Rank
  <1>4. u \in PageOf(S, key, n, p)
    <2>1. u \in PageOf(S, key, n, p) <=>
            (p - 1) * n <= Rank(S, key, u) /\ Rank(S, key, u) < p * n
      BY PageRanks
    <2> DEFINE x == (p - 1) * n
               y == p * n
    <2>2. x \in Nat /\ y = x + n /\ Rank(S, key, u) = x
      BY <1>2, <1>3
    <2> HIDE DEF x, y
    <2>3. x <= Rank(S, key, u) /\ Rank(S, key, u) < y
      BY <2>2
    <2>. QED
      BY <2>1, <2>3 DEF x, y
  <1>. QED
    BY <1>4

\* Ranks follow the key.
LEMMA RankFollowsKey ==
  ASSUME NEW S, NEW key, Ordered(S, key), NEW s \in S, NEW t \in S
  PROVE  Rank(S, key, s) < Rank(S, key, t) => key[s] < key[t]
  <1>1. SUFFICES ASSUME key[t] <= key[s]
                 PROVE  Rank(S, key, t) <= Rank(S, key, s)
    BY RankInRange DEF Rank, Ordered
  <1>2. Before(S, key, t) \in SUBSET Before(S, key, s)
    BY <1>1 DEF Before, Ordered
  <1>. QED
    BY <1>2, RankInRange, FS_Subset DEF Rank

LEMMA NextPageIs ==
  ASSUME NEW p \in 1..LastScene + 1
  PROVE  NextPage(p) = IF p <= LastScene THEN p + 1 ELSE p
  <1>1. LastScene \in Nat
    BY SourceSyncAssumptions
  <1>2. {p + 1, LastScene + 1} \subseteq Nat
    BY <1>1
  <1>3. Min({p + 1, LastScene + 1}) \in {p + 1, LastScene + 1}
        /\ \A r \in {p + 1, LastScene + 1} : Min({p + 1, LastScene + 1}) <= r
    BY <1>2, Smallest
  <1>. QED
    BY <1>1, <1>3 DEF NextPage

-----------------------------------------------------------------------------
(* Types, and the runs.                                                    *)

TimeStamp(p, table, s) == IF p = "scene" THEN table[s].at ELSE table[s].played

Cursor == [run : {"full", "incremental", NoRun}, complete : BOOLEAN,
           page : 1..LastScene + 1, watermark : Nat, baseline : Nat,
           pending : Nat]

StashTypes ==
  /\ clock \in 0..MaxClock /\ born \in 0..LastScene
  /\ stash \in [Scene -> [at : 0..clock, played : 0..clock]]
  /\ Present(stash) \subseteq 1..born
  /\ \A s, t \in Present(stash), p \in Pass :
       /\ TimeStamp(p, stash, s) = TimeStamp(p, stash, t)
       /\ TimeStamp(p, stash, s) > 0
       => s = t

LocalTypes ==
  /\ source \in [Scene -> [at : Nat, played : Nat]]
  /\ open \subseteq {"full", "incremental"} /\ seen \subseteq Scene
  /\ cursor \in [Pass -> Cursor]
  /\ \A p \in Pass : /\ cursor[p].baseline = cursor[p].watermark
                     /\ cursor[p].watermark <= clock
                     /\ cursor[p].pending <= clock
  /\ sweep.page \in 1..LastScene + 1 /\ sweep.present \subseteq Scene

\* A cursor belongs to an open run, and the worker to one of them.
Runs ==
  /\ \A p \in Pass : cursor[p].run # NoRun => cursor[p].run \in open
  /\ cursor["scene_play"].run # "full"
  /\ pass \in Pass
  /\ pc # "idle" =>
       task \in Task /\ RunMode \in open /\ (task = "full" => pass = "scene")
  /\ pc \in {"page", "complete"} =>
       cursor[pass].run = RunMode /\ ~cursor[pass].complete
  /\ pc = "reconcile" => task = "full"
  /\ pc \in {"prune", "sweep"} => task = "incremental"

TypesInv == StashTypes /\ LocalTypes /\ Runs

\* The pages are those of a set in the order of a key.
IdKey == [s \in Scene |-> s]
AgeKey(p) == [s \in Scene |-> MaxClock - TimeStamp(p, stash, s)]

ListedBy(p) == IF p = "scene" THEN Present(stash)
               ELSE {s \in Present(stash) :
                       stash[s].played > cursor[p].baseline}

PageKey == IF task = "full" THEN IdKey ELSE AgeKey(pass)

LEMMA ScenesAreOrdered ==
  ASSUME NEW S, S \subseteq Scene
  PROVE  Ordered(S, IdKey)
  <1>1. IsFiniteSet(Scene) /\ S \in SUBSET Scene
    BY FS_Interval, SourceSyncAssumptions DEF Scene
  <1>2. IsFiniteSet(S)
    BY <1>1, FS_Subset
  <1>. QED
    BY <1>2, SourceSyncAssumptions DEF Ordered, IdKey, Scene

LEMMA ListedAreOrdered ==
  ASSUME TypesInv, NEW p \in Pass
  PROVE  ListedBy(p) \subseteq Present(stash) /\ Ordered(ListedBy(p), AgeKey(p))
  <1>1. ListedBy(p) \subseteq Present(stash) /\ Present(stash) \subseteq Scene
    BY DEF ListedBy, Present
  <1>2. IsFiniteSet(ListedBy(p))
    BY <1>1, ScenesAreOrdered DEF Ordered
  <1>3. \A s \in ListedBy(p) : /\ TimeStamp(p, stash, s) \in 0..MaxClock
                               /\ TimeStamp(p, stash, s) > 0
    BY <1>1, SourceSyncAssumptions
    DEF ListedBy, Present, TimeStamp, TypesInv, StashTypes, LocalTypes,
        Cursor, Pass
  <1>4. \A s \in ListedBy(p) :
          AgeKey(p)[s] = MaxClock - TimeStamp(p, stash, s) /\ AgeKey(p)[s] \in Nat
    BY <1>1, <1>3, SourceSyncAssumptions DEF AgeKey
  <1>5. \A s, t \in ListedBy(p) : AgeKey(p)[s] = AgeKey(p)[t] => s = t
    <2>1. SUFFICES ASSUME NEW s \in ListedBy(p), NEW t \in ListedBy(p),
                          AgeKey(p)[s] = AgeKey(p)[t]
                   PROVE  s = t
      OBVIOUS
    <2>2. TimeStamp(p, stash, s) = TimeStamp(p, stash, t)
      BY <1>3, <1>4, <2>1, SourceSyncAssumptions
    <2>. QED
      BY <1>1, <1>3, <2>2 DEF TypesInv, StashTypes
  <1>. QED
    BY <1>1, <1>2, <1>4, <1>5 DEF Ordered

\* The page query, as a page of an ordered set.
LEMMA PageIs ==
  ASSUME TypesInv, NEW p \in Nat \ {0}, task = "full" => pass = "scene"
  PROVE  /\ Listed = ListedBy(pass)
         /\ Ordered(Listed, PageKey) /\ Listed \subseteq Present(stash)
         /\ Page(p) = PageOf(Listed, PageKey, PageSize, p)
  <1>1. Listed = ListedBy(pass) /\ pass \in Pass
    BY DEF Listed, ListedBy, TypesInv, Runs
  <1>2. Listed \subseteq Present(stash) /\ Present(stash) \subseteq Scene
    BY DEF Listed, Present
  <1>3. Ordered(Listed, PageKey)
    BY <1>1, <1>2, ScenesAreOrdered, ListedAreOrdered DEF PageKey
  <1>4. ASSUME NEW s \in Listed, NEW t \in Listed
        PROVE  ListedBefore(t, s) <=> PageKey[t] < PageKey[s]
    <2>1. CASE task = "full"
      BY <1>2, <1>4, <2>1 DEF ListedBefore, PageKey, IdKey
    <2>2. CASE task # "full"
      <3>1. Timestamp(stash, s) = TimeStamp(pass, stash, s)
            /\ Timestamp(stash, t) = TimeStamp(pass, stash, t)
        BY DEF Timestamp, TimeStamp
      <3>2. TimeStamp(pass, stash, s) \in Nat /\ TimeStamp(pass, stash, t) \in Nat
        BY <1>1, <1>2, <1>4, SourceSyncAssumptions
        DEF TypesInv, StashTypes, TimeStamp
      <3>3. PageKey[s] = MaxClock - TimeStamp(pass, stash, s)
            /\ PageKey[t] = MaxClock - TimeStamp(pass, stash, t)
        BY <1>2, <1>4, <2>2 DEF PageKey, AgeKey
      <3>. QED
        BY <2>2, <3>1, <3>2, <3>3, SourceSyncAssumptions DEF ListedBefore
    <2>. QED
      BY <2>1, <2>2
  <1>5. \A s \in Listed :
          {t \in Listed : ListedBefore(t, s)} = Before(Listed, PageKey, s)
    BY <1>4 DEF Before
  <1>6. Page(p) = PageOf(Listed, PageKey, PageSize, p)
    BY <1>5 DEF Page, PageOf, Rank
  <1>. QED
    BY <1>1, <1>2, <1>3, <1>6

-----------------------------------------------------------------------------
(* The types are invariant.                                                *)

LEMMA StartedCursor ==
  ASSUME NEW r \in {"full", "incremental", NoRun}, NEW m \in Nat
  PROVE  /\ NewCursor(r, m) \in Cursor
         /\ NewCursor(r, m).run = r /\ ~NewCursor(r, m).complete
         /\ NewCursor(r, m).page = 1 /\ NewCursor(r, m).pending = 0
         /\ NewCursor(r, m).watermark = m /\ NewCursor(r, m).baseline = m
  BY SourceSyncAssumptions DEF NewCursor, Cursor

LEMMA EndedCursor ==
  ASSUME NEW r \in {"full", "incremental", NoRun}, NEW m \in Nat
  PROVE  LET c == [NewCursor(r, m) EXCEPT !.complete = TRUE]
         IN  /\ c \in Cursor /\ c.run = r /\ c.complete /\ c.page = 1
             /\ c.pending = 0 /\ c.watermark = m /\ c.baseline = m
  <1> DEFINE c == NewCursor(r, m)
             d == [c EXCEPT !.complete = TRUE]
  <1>1. /\ c \in Cursor /\ c.run = r /\ ~c.complete /\ c.page = 1
        /\ c.pending = 0 /\ c.watermark = m /\ c.baseline = m
    BY StartedCursor
  <1> HIDE DEF c
  <1>2. /\ d \in Cursor /\ d.run = c.run /\ d.complete /\ d.page = c.page
        /\ d.pending = c.pending /\ d.watermark = c.watermark
        /\ d.baseline = c.baseline
    BY <1>1 DEF Cursor
  <1>. QED
    BY <1>1, <1>2 DEF c

\* What SavePage makes of the cursor.
LEMMA SavedCursor ==
  ASSUME TypesInv, SavePage
  PROVE  LET c == cursor[pass]
             d == cursor'[pass]
             items == Page(c.page)
         IN /\ c \in Cursor /\ cursor' \in [Pass -> Cursor]
            /\ \A q \in Pass : q # pass => cursor'[q] = cursor[q]
            /\ d.run = c.run /\ d.complete = c.complete
            /\ d.watermark = c.watermark /\ d.baseline = c.baseline
            /\ d.page = IF c.page <= LastScene THEN c.page + 1 ELSE c.page
            /\ d.pending <= clock /\ c.pending <= d.pending
            /\ \A s \in items : TimeStamp(pass, stash, s) <= d.pending
            /\ \/ d.pending = c.pending
               \/ \E s \in items : d.pending = TimeStamp(pass, stash, s)
  <1> DEFINE c == cursor[pass]
             items == Page(c.page)
             T == {Timestamp(stash, s) : s \in items} \union {c.pending}
             d == [[c EXCEPT !.page = NextPage(@)]
                     EXCEPT !.pending = HighWatermark(items)]
  <1>1. pass \in Pass /\ c \in Cursor /\ cursor \in [Pass -> Cursor]
        /\ clock \in Nat /\ c.pending <= clock
    BY SourceSyncAssumptions DEF TypesInv, Runs, LocalTypes, StashTypes
  <1>2. items \subseteq Scene
    BY DEF Page, Listed, Present
  <1>3. \A s \in items : /\ Timestamp(stash, s) = TimeStamp(pass, stash, s)
                         /\ Timestamp(stash, s) \in 0..clock
    BY <1>2 DEF TypesInv, StashTypes, TimeStamp, Timestamp
  <1>4. T \subseteq Nat /\ T # {} /\ \A r \in T : r <= clock
    BY <1>1, <1>3 DEF Cursor
  <1>5. HighWatermark(items) = Max(T)
    BY DEF HighWatermark
  <1>6. HighWatermark(items) \in T
        /\ \A r \in T : r <= HighWatermark(items)
    <2> HIDE DEF T
    <2>. QED
      BY <1>1, <1>4, <1>5, Largest
  <1>7. c.page \in 1..LastScene + 1
    BY <1>1 DEF Cursor
  <1>8. NextPage(c.page) = IF c.page <= LastScene THEN c.page + 1 ELSE c.page
    BY <1>7, NextPageIs
  <1>9. NextPage(c.page) \in 1..LastScene + 1
    BY <1>7, <1>8, SourceSyncAssumptions
  <1>10. HighWatermark(items) \in Nat
    BY <1>4, <1>6
  <1> DEFINE np == NextPage(c.page)
             hw == HighWatermark(items)
  <1>11. cursor' = [cursor EXCEPT ![pass] =
                      [[c EXCEPT !.page = np] EXCEPT !.pending = hw]]
    BY DEF SavePage
  <1>12. /\ [[c EXCEPT !.page = np] EXCEPT !.pending = hw] \in Cursor
         /\ LET e == [[c EXCEPT !.page = np] EXCEPT !.pending = hw]
            IN  /\ e.run = c.run /\ e.complete = c.complete
                /\ e.watermark = c.watermark /\ e.baseline = c.baseline
                /\ e.page = np /\ e.pending = hw
    <2> HIDE DEF c, np, hw
    <2>. QED
      BY <1>1, <1>9, <1>10 DEF Cursor, np, hw
  <1>13. /\ cursor' \in [Pass -> Cursor]
         /\ \A q \in Pass : q # pass => cursor'[q] = cursor[q]
         /\ cursor'[pass] = [[c EXCEPT !.page = np] EXCEPT !.pending = hw]
    <2> DEFINE e == [[c EXCEPT !.page = np] EXCEPT !.pending = hw]
    <2>1. e \in Cursor /\ cursor' = [cursor EXCEPT ![pass] = e]
      BY <1>11, <1>12
    <2> HIDE DEF e
    <2>2. /\ cursor' \in [Pass -> Cursor] /\ cursor'[pass] = e
          /\ \A q \in Pass : q # pass => cursor'[q] = cursor[q]
      BY <1>1, <2>1
    <2>. QED
      BY <2>2 DEF e
  <1> HIDE DEF T, np, hw
  <1>14. /\ \A s \in items : TimeStamp(pass, stash, s) <= hw
         /\ c.pending <= hw /\ hw <= clock
         /\ hw = c.pending \/ \E s \in items : hw = TimeStamp(pass, stash, s)
    BY <1>3, <1>4, <1>6 DEF T, hw
  <1>. QED
    BY <1>1, <1>8, <1>12, <1>13, <1>14 DEF np

\* The other steps that write cursors: one cursor begins again for a run.
LEMMA CompletedCursor ==
  ASSUME TypesInv, CompleteEntity
  PROVE  LET c == cursor[pass]
             d == cursor'[pass]
         IN /\ c \in Cursor /\ cursor' \in [Pass -> Cursor]
            /\ \A q \in Pass : q # pass => cursor'[q] = cursor[q]
            /\ d.run = c.run /\ d.complete /\ d.page = 1 /\ d.pending = 0
            /\ d.watermark = c.pending /\ d.baseline = c.pending
  <1> DEFINE c == cursor[pass]
             d == [NewCursor(c.run, c.pending) EXCEPT !.complete = TRUE]
  <1>1. pass \in Pass /\ c \in Cursor /\ cursor \in [Pass -> Cursor]
    BY DEF TypesInv, Runs, LocalTypes
  <1>2. c.run \in {"full", "incremental", NoRun} /\ c.pending \in Nat
    BY <1>1 DEF Cursor
  <1>3. /\ d \in Cursor /\ d.run = c.run /\ d.complete /\ d.page = 1
        /\ d.pending = 0 /\ d.watermark = c.pending /\ d.baseline = c.pending
    BY <1>2, EndedCursor
  <1>4. cursor' = [cursor EXCEPT ![pass] = d]
    BY DEF CompleteEntity
  <1> HIDE DEF d
  <1>. QED
    BY <1>1, <1>3, <1>4

LEMMA PreparedCursor ==
  ASSUME TypesInv, PrepareEntity, cursor' # cursor
  PROVE  LET c == cursor[pass]
             d == cursor'[pass]
         IN /\ c \in Cursor /\ cursor' \in [Pass -> Cursor]
            /\ \A q \in Pass : q # pass => cursor'[q] = cursor[q]
            /\ d.run = RunMode /\ ~d.complete /\ d.page = 1 /\ d.pending = 0
            /\ d.watermark = c.watermark /\ d.baseline = c.watermark
            /\ pc' = "page" /\ UNCHANGED pass /\ c.run # RunMode
  <1> DEFINE c == cursor[pass]
             d == NewCursor(RunMode, c.watermark)
  <1>1. pass \in Pass /\ c \in Cursor /\ cursor \in [Pass -> Cursor]
    BY DEF TypesInv, Runs, LocalTypes
  <1>2. RunMode \in {"full", "incremental", NoRun} /\ c.watermark \in Nat
    BY <1>1 DEF Cursor, RunMode, LedgerMode
  <1>3. /\ d \in Cursor /\ d.run = RunMode /\ ~d.complete /\ d.page = 1
        /\ d.pending = 0 /\ d.watermark = c.watermark
        /\ d.baseline = c.watermark
    BY <1>2, StartedCursor
  <1>4. /\ cursor' = [cursor EXCEPT ![pass] = d] /\ c.run # RunMode
        /\ pc' = "page" /\ UNCHANGED pass
    BY DEF PrepareEntity
  <1> HIDE DEF d
  <1>. QED
    BY <1>1, <1>3, <1>4

LEMMA FinishedCursors ==
  ASSUME TypesInv, FinishRun
  PROVE  /\ cursor' \in [Pass -> Cursor]
         /\ \A p \in Pass :
              IF cursor[p].run = RunMode
              THEN /\ cursor'[p].run = NoRun /\ ~cursor'[p].complete
                   /\ cursor'[p].pending = 0 /\ cursor'[p].page = 1
                   /\ cursor'[p].watermark = cursor[p].watermark
                   /\ cursor'[p].baseline = cursor[p].watermark
              ELSE cursor'[p] = cursor[p]
  <1>1. ASSUME NEW p \in Pass
        PROVE  LET d == NewCursor(NoRun, cursor[p].watermark)
               IN /\ cursor[p] \in Cursor /\ d \in Cursor
                  /\ d.run = NoRun /\ ~d.complete
                  /\ d.pending = 0 /\ d.page = 1
                  /\ d.watermark = cursor[p].watermark
                  /\ d.baseline = cursor[p].watermark
    <2>1. cursor[p] \in Cursor
      BY DEF TypesInv, LocalTypes
    <2>2. cursor[p].watermark \in Nat
      BY <2>1 DEF Cursor
    <2>. QED
      BY <2>1, <2>2, StartedCursor
  <1>2. cursor' = [p \in Pass |-> IF cursor[p].run = RunMode
                               THEN NewCursor(NoRun, cursor[p].watermark)
                               ELSE cursor[p]]
    BY DEF FinishRun
  <1>. QED
    BY <1>1, <1>2

\* A change Stash makes.
LEMMA ChangedStash ==
  ASSUME TypesInv, NEW s \in Scene, NEW kind \in Change, StashChanges(s, kind)
  PROVE  /\ clock' = clock + 1 /\ clock' \in 0..MaxClock
         /\ \A t \in Scene : t # s => stash'[t] = stash[t]
         /\ kind = "create" =>
              /\ s = born + 1 /\ s \notin Present(stash)
              /\ born' = s /\ stash'[s].at = clock' /\ stash'[s].played = 0
         /\ kind # "create" => s \in Present(stash) /\ born' = born
         /\ kind = "update" =>
              stash'[s].at = clock' /\ stash'[s].played = stash[s].played
         /\ kind = "play" =>
              stash'[s].at = stash[s].at /\ stash'[s].played = clock'
         /\ kind = "delete" => stash'[s] = Absent
         /\ StashTypes'
  <1>1. /\ clock' = clock + 1 /\ clock' \in 0..MaxClock /\ clock \in Nat
        /\ LastScene \in Nat /\ born \in 0..LastScene
    BY SourceSyncAssumptions
    DEF StashChanges, MayChange, TypesInv, StashTypes
  <1>2. /\ kind = "create" => s = born + 1 /\ born' = s
        /\ kind # "create" => s \in Present(stash) /\ born' = born
    BY DEF StashChanges
  <1>3. stash \in [Scene -> [at : 0..clock, played : 0..clock]]
    BY DEF TypesInv, StashTypes
  <1> DEFINE new == CASE kind = "create" -> [at |-> clock', played |-> 0]
                      [] kind = "update" -> [stash[s] EXCEPT !.at = clock']
                      [] kind = "play"   -> [stash[s] EXCEPT !.played = clock']
                      [] kind = "delete" -> Absent
  <1>4. stash' = [stash EXCEPT ![s] = new]
    BY DEF StashChanges
  <1>5. /\ new \in [at : 0..clock', played : 0..clock']
        /\ kind = "create" => new.at = clock' /\ new.played = 0
        /\ kind = "update" => new.at = clock' /\ new.played = stash[s].played
        /\ kind = "play" => new.at = stash[s].at /\ new.played = clock'
        /\ kind = "delete" => new = Absent
    <2>1. stash[s] \in [at : 0..clock', played : 0..clock']
      BY <1>1, <1>3
    <2>2. CASE kind = "create"
      BY <1>1, <2>2
    <2>3. CASE kind = "update"
      BY <1>1, <2>1, <2>3
    <2>4. CASE kind = "play"
      BY <1>1, <2>1, <2>4
    <2>5. CASE kind = "delete"
      BY <1>1, <2>5 DEF Absent
    <2>. QED
      BY <2>2, <2>3, <2>4, <2>5 DEF Change
  <1> HIDE DEF new
  <1>6. stash'[s] = new /\ \A t \in Scene : t # s => stash'[t] = stash[t]
    BY <1>3, <1>4
  <1>7. kind = "create" => s \notin Present(stash)
    BY <1>1, <1>2 DEF TypesInv, StashTypes
  <1>8. stash' \in [Scene -> [at : 0..clock', played : 0..clock']]
    <2>1. \A t \in Scene : stash[t] \in [at : 0..clock', played : 0..clock']
      BY <1>1, <1>3
    <2>. QED
      BY <1>3, <1>4, <1>5, <2>1
  <1>9. born' \in 0..LastScene /\ Present(stash)' \subseteq 1..born'
    <2>1. born' \in 0..LastScene /\ born <= born'
      BY <1>1, <1>2 DEF Scene
    <2>2. \A t \in Present(stash)' : t = s \/ t \in Present(stash)
      BY <1>6 DEF Present
    <2>3. s \in 1..born'
      BY <1>1, <1>2 DEF TypesInv, StashTypes, Scene
    <2>4. \A t \in Present(stash) : t \in 1..born
      BY DEF TypesInv, StashTypes
    <2>. QED
      BY <1>1, <2>1, <2>2, <2>3, <2>4
  <1>10. ASSUME NEW t \in Present(stash)', NEW u \in Present(stash)',
                NEW p \in Pass,
                TimeStamp(p, stash, t)' = TimeStamp(p, stash, u)',
                TimeStamp(p, stash, t)' > 0
         PROVE  t = u
    <2>1. \A x \in Present(stash)' : x # s => x \in Present(stash)
      BY <1>6 DEF Present
    <2>2. \A x \in Present(stash)' : x # s =>
            /\ TimeStamp(p, stash, x)' = TimeStamp(p, stash, x)
            /\ TimeStamp(p, stash, x) \in 0..clock
      BY <1>3, <1>6 DEF TimeStamp, Present
    <2>3. TimeStamp(p, stash, s)' = clock' \/ TimeStamp(p, stash, s)' = 0
          \/ (s \in Present(stash)
              /\ TimeStamp(p, stash, s)' = TimeStamp(p, stash, s))
      BY <1>2, <1>5, <1>6 DEF TimeStamp, Absent, Change
    <2>4. \A x, y \in Present(stash) :
            /\ TimeStamp(p, stash, x) = TimeStamp(p, stash, y)
            /\ TimeStamp(p, stash, x) > 0
            => x = y
      BY DEF TypesInv, StashTypes
    <2>. QED
      BY <1>1, <1>10, <2>1, <2>2, <2>3, <2>4
  <1>11. StashTypes'
    BY <1>1, <1>8, <1>9, <1>10 DEF StashTypes
  <1>. QED
    BY <1>1, <1>2, <1>5, <1>6, <1>7, <1>11

LEMMA TypesInvInit == Init => TypesInv
  <1> SUFFICES ASSUME Init PROVE TypesInv
    OBVIOUS
  <1>1. /\ clock \in 0..MaxClock /\ born \in 0..LastScene /\ clock = born
        /\ \A s \in Scene : stash[s] =
             IF s <= born THEN [at |-> s, played |-> 0] ELSE Absent
        /\ stash = [s \in Scene |-> stash[s]]
    BY SourceSyncAssumptions DEF Init
  <1>2. \A s \in Scene : /\ stash[s] \in [at : 0..clock, played : 0..clock]
                         /\ stash[s].played = 0
                         /\ stash[s].at = IF s <= born THEN s ELSE 0
    BY <1>1 DEF Scene, Absent
  <1>3. stash \in [Scene -> [at : 0..clock, played : 0..clock]]
    BY <1>1, <1>2
  <1>4. Present(stash) \subseteq 1..born
    BY <1>1, <1>2 DEF Present, Scene
  <1>5. StashTypes
    <2>1. \A s, t \in Present(stash), p \in Pass :
            /\ TimeStamp(p, stash, s) = TimeStamp(p, stash, t)
            /\ TimeStamp(p, stash, s) > 0
            => s = t
      BY <1>2 DEF Present, TimeStamp
    <2>. QED
      BY <1>1, <1>3, <1>4, <2>1 DEF StashTypes
  <1>6. /\ NewCursor(NoRun, 0) \in Cursor
        /\ NewCursor(NoRun, 0).run = NoRun
        /\ NewCursor(NoRun, 0).baseline = 0 /\ NewCursor(NoRun, 0).pending = 0
        /\ NewCursor(NoRun, 0).watermark = 0
    BY StartedCursor
  <1>7. cursor \in [Pass -> Cursor] /\ \A p \in Pass : cursor[p] = NewCursor(NoRun, 0)
    BY <1>6 DEF Init
  <1>8. LocalTypes
    BY <1>1, <1>6, <1>7, SourceSyncAssumptions
    DEF Init, LocalTypes, Absent, NoSweep
  <1>9. Runs
    BY <1>6, <1>7 DEF Init, Runs, Pass, NoRun
  <1>. QED
    BY <1>5, <1>8, <1>9 DEF TypesInv

\* Where the worker goes after a pass.
LEMMA EndedPass ==
  ASSUME TypesInv, EndPass, pc # "idle"
  PROVE  /\ pass' \in Pass /\ (task = "full" => UNCHANGED pass)
         /\ pc' \in {"entity", "reconcile", "prune", "finish"}
         /\ pc' = "reconcile" => task = "full"
         /\ pc' \in {"prune", "sweep"} => task = "incremental"
  BY DEF EndPass, AfterPasses, TypesInv, Runs, Task, Pass

LEMMA TypesInvStep == ASSUME TypesInv, [Next]_vars PROVE TypesInv'
  <1>1. ASSUME NEW s \in Scene, NEW kind \in Change, StashChanges(s, kind)
        PROVE  TypesInv'
    <2>1. StashTypes' /\ clock' = clock + 1 /\ clock \in Nat
      BY <1>1, ChangedStash, SourceSyncAssumptions DEF TypesInv, StashTypes
    <2>2. UNCHANGED <<source, open, cursor, seen, pc, task, pass, sweep>>
      BY <1>1 DEF StashChanges, localVars, workerVars
    <2>3. \A p \in Pass : cursor[p].watermark \in Nat /\ cursor[p].pending \in Nat
      BY DEF TypesInv, LocalTypes, Cursor
    <2>4. LocalTypes'
      BY <2>1, <2>2, <2>3 DEF TypesInv, LocalTypes
    <2>. QED
      BY <2>1, <2>2, <2>4 DEF TypesInv, Runs, RunMode
  <1>2. ASSUME NEW t \in Task, BeginSync(t) PROVE TypesInv'
    <2>1. /\ UNCHANGED <<stash, clock, born, source, cursor, seen, sweep>>
          /\ open' = open \union {LedgerMode(t)} /\ task' = t
          /\ pass' = FirstPass(t) /\ pc' = "entity"
      BY <1>2 DEF BeginSync, remoteVars
    <2>2. LedgerMode(t) \in {"full", "incremental"} /\ FirstPass(t) \in Pass
          /\ (t = "full" => FirstPass(t) = "scene")
      BY DEF LedgerMode, FirstPass, Pass
    <2>3. StashTypes'
      BY <2>1 DEF TypesInv, StashTypes, TimeStamp
    <2>4. LocalTypes'
      BY <2>1, <2>2 DEF TypesInv, LocalTypes
    <2>5. Runs'
      BY <2>1, <2>2 DEF TypesInv, Runs, RunMode
    <2>. QED
      BY <2>3, <2>4, <2>5 DEF TypesInv
  <1>3. CASE PrepareEntity
    <2>1. /\ UNCHANGED <<stash, clock, born, source, open, seen, task, sweep>>
          /\ pc = "entity"
      BY <1>3 DEF PrepareEntity, remoteVars
    <2>2. StashTypes'
      BY <2>1 DEF TypesInv, StashTypes, TimeStamp
    <2>3. CASE cursor' = cursor
      <3>1. \/ EndPass
            \/ /\ pc' = "page" /\ UNCHANGED pass
               /\ cursor[pass].run = RunMode /\ ~cursor[pass].complete
        <4>1. CASE cursor[pass].run = RunMode
          BY <1>3, <4>1 DEF PrepareEntity
        <4>2. CASE cursor[pass].run # RunMode
          <5>1. /\ pass \in Pass /\ cursor \in [Pass -> Cursor]
                /\ cursor' = [cursor EXCEPT ![pass] =
                                NewCursor(RunMode, cursor[pass].watermark)]
            BY <1>3, <4>2 DEF PrepareEntity, TypesInv, Runs, LocalTypes
          <5>2. cursor[pass] = NewCursor(RunMode, cursor[pass].watermark)
            BY <2>3, <5>1
          <5>3. cursor[pass].run = RunMode
            BY <5>2 DEF NewCursor
          <5>. QED
            BY <4>2, <5>3
        <4>. QED
          BY <4>1, <4>2
      <3>2. LocalTypes'
        BY <2>1, <2>3 DEF TypesInv, LocalTypes
      <3>3. Runs'
        BY <2>1, <2>3, <3>1, EndedPass DEF TypesInv, Runs, RunMode
      <3>. QED
        BY <2>2, <3>2, <3>3 DEF TypesInv
    <2>4. CASE cursor' # cursor
      <3>1. LET c == cursor[pass]
                d == cursor'[pass]
            IN /\ c \in Cursor /\ cursor' \in [Pass -> Cursor]
               /\ \A q \in Pass : q # pass => cursor'[q] = cursor[q]
               /\ d.run = RunMode /\ ~d.complete /\ d.page = 1 /\ d.pending = 0
               /\ d.watermark = c.watermark /\ d.baseline = c.watermark
               /\ pc' = "page" /\ UNCHANGED pass
        BY <1>3, <2>4, PreparedCursor
      <3>2. LocalTypes'
        BY <2>1, <3>1, SourceSyncAssumptions
        DEF TypesInv, LocalTypes, StashTypes, Runs
      <3>3. Runs'
        BY <2>1, <3>1 DEF TypesInv, Runs, RunMode, LedgerMode, Pass
      <3>. QED
        BY <2>2, <3>2, <3>3 DEF TypesInv
    <2>. QED
      BY <2>3, <2>4
  <1>4. CASE SavePage
    <2>1. /\ UNCHANGED <<stash, clock, born, open, task, pass, sweep>>
          /\ pc = "page" /\ pc' \in {"page", "complete"}
      BY <1>4 DEF SavePage, remoteVars
    <2>2. LET c == cursor[pass]
              d == cursor'[pass]
          IN /\ c \in Cursor /\ cursor' \in [Pass -> Cursor]
             /\ \A q \in Pass : q # pass => cursor'[q] = cursor[q]
             /\ d.run = c.run /\ d.complete = c.complete
             /\ d.watermark = c.watermark /\ d.baseline = c.baseline
             /\ d.pending <= clock
      BY <1>4, SavedCursor
    <2>3. /\ source' \in [Scene -> [at : Nat, played : Nat]]
          /\ seen' \subseteq Scene
      <3>1. \A s \in Scene : /\ stash[s] \in [at : Nat, played : Nat]
                             /\ source[s] \in [at : Nat, played : Nat]
        BY SourceSyncAssumptions DEF TypesInv, StashTypes, LocalTypes
      <3>2. Page(cursor[pass].page) \subseteq Scene
        BY DEF Page, Listed, Present
      <3>3. seen \subseteq Scene
        BY DEF TypesInv, LocalTypes
      <3>. QED
        BY <1>4, <3>1, <3>2, <3>3 DEF SavePage
    <2>4. StashTypes'
      BY <2>1 DEF TypesInv, StashTypes, TimeStamp
    <2>5. LocalTypes'
      BY <2>1, <2>2, <2>3 DEF TypesInv, LocalTypes, Runs
    <2>6. Runs'
      BY <2>1, <2>2 DEF TypesInv, Runs, RunMode, Pass
    <2>. QED
      BY <2>4, <2>5, <2>6 DEF TypesInv
  <1>5. CASE CompleteEntity
    <2>1. /\ UNCHANGED <<stash, clock, born, source, open, seen, task, sweep>>
          /\ pc = "complete" /\ EndPass
      BY <1>5 DEF CompleteEntity, remoteVars
    <2>2. LET c == cursor[pass]
              d == cursor'[pass]
          IN /\ c \in Cursor /\ cursor' \in [Pass -> Cursor]
             /\ \A q \in Pass : q # pass => cursor'[q] = cursor[q]
             /\ d.run = c.run /\ d.pending = 0
             /\ d.watermark = c.pending /\ d.baseline = c.pending
      BY <1>5, CompletedCursor
    <2>3. StashTypes'
      BY <2>1 DEF TypesInv, StashTypes, TimeStamp
    <2>4. LocalTypes'
      BY <2>1, <2>2, SourceSyncAssumptions
      DEF TypesInv, LocalTypes, StashTypes, Runs
    <2>5. Runs'
      BY <2>1, <2>2, EndedPass DEF TypesInv, Runs, RunMode, Pass
    <2>. QED
      BY <2>3, <2>4, <2>5 DEF TypesInv
  <1>6. CASE PruneDeleted \/ SyncFails
    <2>1. /\ UNCHANGED <<stash, clock, born, source, open, cursor, seen>>
          /\ sweep' = NoSweep /\ pass' \in Pass
          /\ \/ pc' = "idle"
             \/ pc' \in {"sweep", "finish"} /\ pc = "prune"
                /\ UNCHANGED <<task, pass>>
      BY <1>6 DEF PruneDeleted, SyncFails, remoteVars, localVars, TypesInv,
           Runs, Pass
    <2>2. StashTypes'
      BY <2>1 DEF TypesInv, StashTypes, TimeStamp
    <2>3. LocalTypes'
      BY <2>1, SourceSyncAssumptions DEF TypesInv, LocalTypes, NoSweep
    <2>4. Runs'
      BY <2>1 DEF TypesInv, Runs, RunMode
    <2>. QED
      BY <2>2, <2>3, <2>4 DEF TypesInv
  <1>7. CASE SweepPage \/ Reconcile
    <2>1. /\ UNCHANGED <<stash, clock, born, open, cursor, seen, task, pass>>
          /\ pc # "idle"
          /\ pc' \in {"sweep", "finish"} /\ (pc' = "sweep" => pc = "sweep")
      BY <1>7 DEF SweepPage, Reconcile, remoteVars
    <2>2. \A ids : Keep(ids) \in [Scene -> [at : Nat, played : Nat]]
      BY DEF Keep, TypesInv, LocalTypes, Absent
    <2>3. source' \in [Scene -> [at : Nat, played : Nat]]
      BY <1>7, <2>2 DEF SweepPage, Reconcile, TypesInv, LocalTypes
    <2>4. sweep'.page \in 1..LastScene + 1 /\ sweep'.present \subseteq Scene
      <3>1. sweep.page \in 1..LastScene + 1 /\ sweep.present \subseteq Scene
        BY DEF TypesInv, LocalTypes
      <3>2. NextPage(sweep.page) \in 1..LastScene + 1
        BY <3>1, NextPageIs, SourceSyncAssumptions
      <3>3. IdPage(sweep.page) \subseteq Scene
        BY DEF IdPage, Present
      <3>. QED
        BY <1>7, <3>1, <3>2, <3>3, SourceSyncAssumptions
        DEF SweepPage, Reconcile, NoSweep
    <2>5. StashTypes'
      BY <2>1 DEF TypesInv, StashTypes, TimeStamp
    <2>6. LocalTypes'
      BY <2>1, <2>3, <2>4 DEF TypesInv, LocalTypes
    <2>7. Runs'
      BY <2>1 DEF TypesInv, Runs, RunMode
    <2>. QED
      BY <2>5, <2>6, <2>7 DEF TypesInv
  <1>8. CASE FinishRun
    <2>1. /\ UNCHANGED <<stash, clock, born, source, sweep>>
          /\ open' = open \ {RunMode} /\ seen' \subseteq seen
          /\ pc' = "idle" /\ pass' = "scene"
      BY <1>8 DEF FinishRun, remoteVars
    <2>2. /\ cursor' \in [Pass -> Cursor]
          /\ \A p \in Pass :
               IF cursor[p].run = RunMode
               THEN /\ cursor'[p].run = NoRun /\ cursor'[p].pending = 0
                    /\ cursor'[p].watermark = cursor[p].watermark
                    /\ cursor'[p].baseline = cursor[p].watermark
               ELSE cursor'[p] = cursor[p]
      BY <1>8, FinishedCursors
    <2>3. StashTypes'
      BY <2>1 DEF TypesInv, StashTypes, TimeStamp
    <2>4. LocalTypes'
      <3>1. clock \in Nat /\ open' \subseteq {"full", "incremental"}
            /\ seen' \subseteq Scene
        <4>1. clock \in Nat
          BY SourceSyncAssumptions DEF TypesInv, StashTypes
        <4>2. open \subseteq {"full", "incremental"} /\ seen \subseteq Scene
          BY DEF TypesInv, LocalTypes
        <4>. QED
          BY <2>1, <4>1, <4>2
      <3>2. ASSUME NEW p \in Pass
            PROVE  /\ cursor'[p].baseline = cursor'[p].watermark
                   /\ cursor'[p].watermark <= clock
                   /\ cursor'[p].pending <= clock
        BY <2>2, <3>1 DEF TypesInv, LocalTypes
      <3>. QED
        BY <2>1, <2>2, <3>1, <3>2 DEF TypesInv, LocalTypes
    <2>5. Runs'
      BY <2>1, <2>2 DEF TypesInv, Runs, Pass, NoRun
    <2>. QED
      BY <2>3, <2>4, <2>5 DEF TypesInv
  <1>9. CASE UNCHANGED vars
    BY <1>9 DEF vars, remoteVars, localVars, workerVars, TypesInv, StashTypes,
         LocalTypes, Runs, RunMode, TimeStamp
  <1>. QED
    BY <1>1, <1>2, <1>3, <1>4, <1>5, <1>6, <1>7, <1>8, <1>9 DEF Next, Sync

-----------------------------------------------------------------------------
(* Only what is gone is dropped.                                           *)

\* What Stash may do while a run is open, for this to hold: a full run pages
\* by id and drops what it has not seen, so that nothing may come or go; the
\* id sweep of an incremental run stands scenes that come.
FullStandsStill == FullOverlap \subseteq {"update", "play"}
IncrementalOnlyGrows == IncrementalOverlap \subseteq {"create", "update", "play"}

\* The pages behind the cursor of a full run have been seen.
PagedAreSeen ==
  /\ cursor["scene"].run = "full" =>
       \A s \in Present(stash) :
         \/ s \in seen
         \/ /\ ~cursor["scene"].complete
            /\ (cursor["scene"].page - 1) * PageSize
                 <= Rank(Present(stash), IdKey, s)
  /\ (task = "full" /\ pc \in {"complete", "reconcile"}) =>
       Present(stash) \subseteq seen

\* So have those behind the id sweep, and there are as many.
SweptArePresent ==
  pc = "sweep" =>
    /\ sweep.present \subseteq Present(stash)
    /\ (sweep.page - 1) * SweepSize <= Cardinality(Present(stash))
    /\ \A s \in Present(stash) :
         \/ s \in sweep.present
         \/ (sweep.page - 1) * SweepSize <= Rank(Present(stash), IdKey, s)

\* What Stash lacks has no plays either.
GoneIsAbsent == \A s \in Scene : stash[s].at = 0 => stash[s] = Absent

DropInv == PagedAreSeen /\ SweptArePresent /\ GoneIsAbsent

\* The bounds of a page, for the scenes Stash has.
LEMMA ScenePages ==
  ASSUME NEW S, S \subseteq Scene, NEW n \in Nat \ {0}, NEW p \in Nat \ {0}
  PROVE  /\ (p - 1) * n \in Nat /\ p * n = (p - 1) * n + n /\ p <= p * n
         /\ IsFiniteSet(S) /\ Cardinality(S) \in 0..LastScene
         /\ \A s \in S : /\ Rank(S, IdKey, s) \in Nat
                         /\ Rank(S, IdKey, s) < Cardinality(S)
                         /\ s \in PageOf(S, IdKey, n, p) <=>
                              (p - 1) * n <= Rank(S, IdKey, s)
                              /\ Rank(S, IdKey, s) < p * n
  <1>1. Ordered(S, IdKey)
    BY ScenesAreOrdered
  <1>2. IsFiniteSet(Scene) /\ Cardinality(Scene) = LastScene
    BY FS_Interval, SourceSyncAssumptions DEF Scene
  <1>3. IsFiniteSet(S) /\ Cardinality(S) \in Nat
        /\ Cardinality(S) <= LastScene
    BY <1>2, FS_Subset, FS_CardinalityType
  <1>4. (p - 1) * n \in Nat /\ p * n = (p - 1) * n + n /\ p <= p * n
    BY Division
  <1>. QED
    BY <1>1, <1>3, <1>4, PageRanks, SourceSyncAssumptions

\* A full run has seen its page, and all of Stash when it ends its pass.
LEMMA SavedPageIsSeen ==
  ASSUME TypesInv, PagedAreSeen, SavePage
  PROVE  PagedAreSeen'
  <1> DEFINE S == Present(stash)
             c == cursor[pass]
             items == Page(c.page)
  <1>0. /\ pc = "page" /\ UNCHANGED <<stash, task, pass>>
        /\ pass \in Pass /\ S \subseteq Scene
        /\ task = "full" => pass = "scene"
        /\ pc' \in {"page", "complete"}
        /\ pc' = "complete" => ReachedWatermark(items) \/ Exhausted(items)
        /\ seen' = IF task = "full" THEN seen \union items ELSE seen
    BY DEF SavePage, remoteVars, TypesInv, Runs, Present
  <1>1. /\ c \in Cursor
        /\ \A q \in Pass : q # pass => cursor'[q] = cursor[q]
        /\ cursor'[pass].run = c.run /\ cursor'[pass].complete = c.complete
        /\ cursor'[pass].page = IF c.page <= LastScene THEN c.page + 1
                                ELSE c.page
    BY SavedCursor
  <1>2. CASE task # "full"
    <2>1. c.run # "full"
      BY <1>0, <1>2 DEF TypesInv, Runs, RunMode, LedgerMode, Task
    <2>. QED
      BY <1>0, <1>1, <1>2, <2>1 DEF PagedAreSeen, Pass
  <1>3. CASE task = "full"
    <2>1. /\ pass = "scene" /\ c.run = "full" /\ ~c.complete
          /\ c.page \in Nat \ {0} /\ c.page <= LastScene + 1
      BY <1>0, <1>1, <1>3, SourceSyncAssumptions
      DEF TypesInv, Runs, RunMode, LedgerMode, Cursor
    <2>2. /\ Listed = S /\ items = PageOf(S, IdKey, PageSize, c.page)
      BY <1>3, <2>1, PageIs DEF ListedBy, PageKey
    <2> DEFINE x == (c.page - 1) * PageSize
               y == c.page * PageSize
    <2>3. /\ x \in Nat /\ y = x + PageSize /\ c.page <= y
          /\ Cardinality(S) \in 0..LastScene
          /\ \A s \in S : /\ Rank(S, IdKey, s) \in Nat
                          /\ Rank(S, IdKey, s) < Cardinality(S)
                          /\ s \in items <=> x <= Rank(S, IdKey, s)
                                             /\ Rank(S, IdKey, s) < y
      <3>1. PageSize \in Nat \ {0}
        BY SourceSyncAssumptions
      <3> DEFINE p == c.page
      <3>2. S \subseteq Scene /\ p \in Nat \ {0}
        BY <1>0, <2>1
      <3> HIDE DEF S, p, items
      <3>3. /\ (p - 1) * PageSize \in Nat
            /\ p * PageSize = (p - 1) * PageSize + PageSize
            /\ p <= p * PageSize /\ Cardinality(S) \in 0..LastScene
        BY <3>1, <3>2, ScenePages
      <3>4. ASSUME NEW s \in S
            PROVE  /\ Rank(S, IdKey, s) \in Nat
                   /\ Rank(S, IdKey, s) < Cardinality(S)
                   /\ s \in PageOf(S, IdKey, PageSize, p) <=>
                        (p - 1) * PageSize <= Rank(S, IdKey, s)
                        /\ Rank(S, IdKey, s) < p * PageSize
        BY <3>1, <3>2, ScenePages
      <3>. QED
        BY <2>2, <3>3, <3>4 DEF p
    <2>4. \A s \in S : s \in seen \/ x <= Rank(S, IdKey, s)
      BY <2>1 DEF PagedAreSeen
    <2>5. \A s \in S : s \in seen' \/ y <= Rank(S, IdKey, s)
      <3> HIDE DEF S, items, x, y
      <3>. QED
        BY <1>0, <1>3, <2>3, <2>4, SourceSyncAssumptions DEF S, items
    <2>6. ASSUME pc' = "complete" PROVE S \subseteq seen'
      <3>1. ~ReachedWatermark(items)
        BY <1>3 DEF ReachedWatermark
      <3>2. CASE items = {}
        <4>1. \A s \in S : Rank(S, IdKey, s) < x
          BY <1>0, <2>1, <2>2, <3>2, EmptyPage, ScenesAreOrdered,
             SourceSyncAssumptions
        <4> HIDE DEF S, items, x, y
        <4>. QED
          BY <1>0, <1>3, <2>3, <2>4, <4>1
      <3>3. CASE y >= Cardinality(S)
        <4> HIDE DEF S, items, x, y
        <4>. QED
          BY <2>3, <2>5, <3>3, SourceSyncAssumptions
      <3>. QED
        BY <1>0, <2>2, <2>6, <3>1, <3>2, <3>3 DEF Exhausted
    <2>7. \A s \in S : s \in seen'
            \/ (cursor'["scene"].page - 1) * PageSize <= Rank(S, IdKey, s)
      <3>1. CASE c.page <= LastScene
        <4>1. (cursor'["scene"].page - 1) * PageSize = y
          BY <1>1, <2>1, <3>1
        <4>. QED
          BY <2>5, <4>1
      <3>2. CASE ~(c.page <= LastScene)
        <4>1. (cursor'["scene"].page - 1) * PageSize = x
          BY <1>1, <2>1, <3>2
        <4>. QED
          BY <1>0, <1>3, <2>4, <4>1
      <3>. QED
        BY <3>1, <3>2
    <2>. QED
      BY <1>0, <1>1, <2>1, <2>6, <2>7 DEF PagedAreSeen, Present
  <1>. QED
    BY <1>2, <1>3

\* The id sweep has met its page, and at its end everything Stash has.
LEMMA IdPageIs ==
  ASSUME TypesInv, NEW p \in Nat \ {0}
  PROVE  IdPage(p) = PageOf(Present(stash), IdKey, SweepSize, p)
  <1>1. \A s \in Present(stash) :
          {t \in Present(stash) : t < s} = Before(Present(stash), IdKey, s)
    BY DEF Before, IdKey, Present
  <1>. QED
    BY <1>1 DEF IdPage, PageOf, Rank

LEMMA SweepMeetsAll ==
  ASSUME TypesInv, SweptArePresent, SweepPage
  PROVE  LET items == IdPage(sweep.page)
             present == sweep.present \union items
         IN /\ present \subseteq Present(stash)
            /\ (items = {} \/ Cardinality(present) >= Cardinality(Present(stash)))
                 => present = Present(stash)
            /\ SweptArePresent'
  <1> DEFINE S == Present(stash)
             p == sweep.page
             items == IdPage(p)
             present == sweep.present \union items
             x == (p - 1) * SweepSize
             y == p * SweepSize
  <1>0. /\ pc = "sweep" /\ UNCHANGED stash
        /\ p \in Nat \ {0} /\ p <= LastScene + 1 /\ S \subseteq Scene
        /\ SweepSize \in Nat \ {0} /\ LastScene \in Nat
    BY SourceSyncAssumptions
    DEF SweepPage, remoteVars, TypesInv, LocalTypes, Present
  <1>1. items = PageOf(S, IdKey, SweepSize, p) /\ items \subseteq S
    BY <1>0, IdPageIs DEF PageOf
  <1>2. /\ sweep.present \subseteq S /\ x <= Cardinality(S)
        /\ \A s \in S : s \in sweep.present \/ x <= Rank(S, IdKey, s)
    BY <1>0 DEF SweptArePresent
  <1>3. /\ x \in Nat /\ y = x + SweepSize /\ p <= y
        /\ IsFiniteSet(S) /\ Cardinality(S) \in 0..LastScene
    <2> HIDE DEF S, p
    <2>. QED
      BY <1>0, ScenePages
  <1>4. \A s \in S : /\ Rank(S, IdKey, s) \in Nat
                     /\ Rank(S, IdKey, s) < Cardinality(S)
                     /\ s \in items <=> x <= Rank(S, IdKey, s)
                                        /\ Rank(S, IdKey, s) < y
    <2>1. SUFFICES ASSUME NEW s \in S
                   PROVE  /\ Rank(S, IdKey, s) \in Nat
                          /\ Rank(S, IdKey, s) < Cardinality(S)
                          /\ s \in items <=> x <= Rank(S, IdKey, s)
                                             /\ Rank(S, IdKey, s) < y
      OBVIOUS
    <2> HIDE DEF S, p, items
    <2>2. s \in PageOf(S, IdKey, SweepSize, p) <=>
            (p - 1) * SweepSize <= Rank(S, IdKey, s)
            /\ Rank(S, IdKey, s) < p * SweepSize
      BY <1>0, ScenePages
    <2>3. Rank(S, IdKey, s) \in Nat /\ Rank(S, IdKey, s) < Cardinality(S)
      BY <1>0, ScenePages
    <2>. QED
      BY <1>1, <2>2, <2>3
  <1>5. present \subseteq S
    BY <1>1, <1>2
  <1>6. \A s \in S : s \in present \/ y <= Rank(S, IdKey, s)
    <2> HIDE DEF S, items, x, y
    <2>. QED
      BY <1>2, <1>3, <1>4, <1>0
  <1>7. ASSUME items = {} PROVE present = S
    <2>1. \A s \in S : Rank(S, IdKey, s) < x
      <3> HIDE DEF S, p
      <3>1. PageOf(S, IdKey, SweepSize, p) = {}
        BY <1>1, <1>7
      <3>. QED
        BY <1>0, <3>1, EmptyPage, ScenesAreOrdered
    <2> HIDE DEF S, items, x, y
    <2>. QED
      BY <1>2, <1>3, <1>4, <1>7, <2>1
  <1>8. ASSUME Cardinality(present) >= Cardinality(S) PROVE present = S
    <2> HIDE DEF S, items
    <2>1. present \in SUBSET S
      BY <1>5
    <2> HIDE DEF present
    <2>2. Cardinality(present) <= Cardinality(S) /\ Cardinality(present) \in Nat
      BY <1>3, <2>1, FS_Subset, FS_CardinalityType
    <2>3. Cardinality(present) = Cardinality(S)
      BY <1>3, <1>8, <2>2
    <2>. QED
      BY <1>3, <2>1, <2>3, FS_Subset
  <1>9. SweptArePresent'
    <2>1. CASE items = {} \/ Cardinality(present) >= Cardinality(S)
      <3>1. pc' = "finish"
        BY <2>1 DEF SweepPage
      <3>. QED
        BY <3>1 DEF SweptArePresent
    <2>2. CASE ~(items = {} \/ Cardinality(present) >= Cardinality(S))
      <3>1. sweep' = [page |-> NextPage(p), present |-> present]
        BY <2>2 DEF SweepPage
      <3>2. y <= Cardinality(S)
        <4>1. PICK s \in S : s \notin present
          <5>1. SUFFICES ASSUME \A s \in S : s \in present PROVE FALSE
            OBVIOUS
          <5> HIDE DEF S, items, present
          <5>2. present = S
            BY <1>5, <5>1
          <5>. QED
            BY <1>3, <2>2, <5>2
        <4>2. y <= Rank(S, IdKey, s) /\ Rank(S, IdKey, s) \in Nat
              /\ Rank(S, IdKey, s) < Cardinality(S)
          BY <1>4, <1>6, <4>1
        <4> HIDE DEF S, y
        <4>. QED
          BY <1>0, <1>3, <4>2
      <3>3. p <= LastScene
        <4> HIDE DEF S, y, p
        <4>. QED
          BY <1>0, <1>3, <3>2
      <3>4. NextPage(p) = p + 1
        BY <1>0, <3>3, NextPageIs
      <3>5. (sweep'.page - 1) * SweepSize = y /\ sweep'.present = present
        BY <1>0, <3>1, <3>4
      <3>6. Present(stash)' = S
        BY <1>0 DEF Present
      <3> HIDE DEF S, y, present
      <3>. QED
        BY <1>5, <1>6, <3>2, <3>5, <3>6 DEF SweptArePresent
    <2>. QED
      BY <2>1, <2>2
  <1>. QED
    BY <1>5, <1>7, <1>8, <1>9

\* Ranks do not change unless a scene comes or goes, and then only behind it.
LEMMA CreatedRanks ==
  ASSUME TypesInv, NEW s \in Scene, NEW kind \in Change, StashChanges(s, kind),
         kind # "delete"
  PROVE  LET S == Present(stash)
             T == Present(stash)'
         IN /\ T = IF kind = "create" THEN S \union {s} ELSE S
            /\ S \subseteq Scene
            /\ \A t \in S : Rank(T, IdKey, t) = Rank(S, IdKey, t)
            /\ kind = "create" =>
                 /\ s \notin S /\ Rank(T, IdKey, s) = Cardinality(S)
                 /\ Cardinality(T) = Cardinality(S) + 1
  <1> DEFINE S == Present(stash)
             T == Present(stash)'
  <1>1. /\ \A t \in Scene : t # s => stash'[t] = stash[t]
        /\ kind = "create" => s = born + 1 /\ s \notin S /\ stash'[s].at = clock'
        /\ kind # "create" => s \in S
        /\ kind = "update" => stash'[s].at = clock'
        /\ kind = "play" => stash'[s].at = stash[s].at
        /\ clock' = clock + 1
    BY ChangedStash
  <1>2. clock' > 0 /\ S \subseteq 1..born /\ born \in Nat /\ S \subseteq Scene
    BY <1>1, SourceSyncAssumptions DEF TypesInv, StashTypes, Present
  <1>3. T = IF kind = "create" THEN S \union {s} ELSE S
    BY <1>1, <1>2 DEF Present, Change
  <1>4. \A t \in S : t \in Nat /\ t <= born
    BY <1>2
  <1>5. ASSUME NEW t \in S PROVE Rank(T, IdKey, t) = Rank(S, IdKey, t)
    <2>1. Before(T, IdKey, t) = Before(S, IdKey, t)
      <3> HIDE DEF S, T
      <3>. QED
        BY <1>1, <1>2, <1>3, <1>4, <1>5 DEF Before, IdKey
    <2>. QED
      BY <2>1 DEF Rank
  <1>6. ASSUME kind = "create"
        PROVE  /\ s \notin S /\ Rank(T, IdKey, s) = Cardinality(S)
               /\ Cardinality(T) = Cardinality(S) + 1
    <2>1. Before(T, IdKey, s) = S
      <3> HIDE DEF S, T
      <3>1. T = S \union {s} /\ s \notin S /\ s \in Nat /\ s = born + 1
        BY <1>1, <1>2, <1>3, <1>6
      <3>2. \A t \in T : IdKey[t] = t
        BY <1>2, <3>1 DEF IdKey
      <3>3. \A t \in T : IdKey[t] < IdKey[s] <=> t \in S
        BY <1>2, <1>4, <3>1, <3>2
      <3>. QED
        BY <3>1, <3>3 DEF Before
    <2>2. IsFiniteSet(S)
      BY <1>2, ScenesAreOrdered DEF Ordered
    <2>. QED
      BY <1>1, <1>3, <1>6, <2>1, <2>2, FS_AddElement DEF Rank
  <1>. QED
    BY <1>2, <1>3, <1>5, <1>6

LEMMA DropInvInit == Init => DropInv
  <1>1. Init => PagedAreSeen /\ SweptArePresent
    BY DEF Init, PagedAreSeen, SweptArePresent, NewCursor, NoRun, NoTask, Pass
  <1>2. Init => GoneIsAbsent
    BY DEF Init, GoneIsAbsent, Scene
  <1>. QED
    BY <1>1, <1>2 DEF DropInv

LEMMA DropInvStep ==
  ASSUME FullStandsStill, IncrementalOnlyGrows, TypesInv, DropInv, [Next]_vars
  PROVE  DropInv'
  <1>0. UNCHANGED stash => GoneIsAbsent'
    BY DEF DropInv, GoneIsAbsent
  <1>1. ASSUME NEW s \in Scene, NEW kind \in Change, StashChanges(s, kind)
        PROVE  DropInv'
    <2>0. GoneIsAbsent'
      <3>1. /\ \A t \in Scene : t # s => stash'[t] = stash[t]
            /\ kind \in {"create", "update"} => stash'[s].at = clock'
            /\ kind = "play" => stash'[s].at = stash[s].at
            /\ kind = "delete" => stash'[s] = Absent
            /\ kind # "create" => s \in Present(stash)
            /\ clock' = clock + 1
        BY <1>1, ChangedStash
      <3>2. clock' # 0 /\ (s \in Present(stash) => stash[s].at # 0)
        BY <3>1, SourceSyncAssumptions DEF TypesInv, StashTypes, Present
      <3>. QED
        BY <3>1, <3>2 DEF DropInv, GoneIsAbsent, Change
    <2> DEFINE S == Present(stash)
               T == Present(stash)'
    <2>1. /\ UNCHANGED <<open, cursor, seen, pc, task, sweep>>
          /\ "full" \in open => kind \in FullOverlap
          /\ "incremental" \in open => kind \in IncrementalOverlap
      BY <1>1 DEF StashChanges, MayChange, localVars, workerVars
    <2>2. PagedAreSeen'
      <3>1. CASE "full" \in open
        <4>1. kind # "delete" /\ kind # "create"
          BY <2>1, <3>1 DEF FullStandsStill
        <4>2. T = S
          BY <1>1, <4>1, CreatedRanks
        <4> HIDE DEF S, T
        <4>. QED
          BY <2>1, <4>2 DEF DropInv, PagedAreSeen, S, T
      <3>2. CASE "full" \notin open
        <4>1. cursor["scene"].run # "full"
          BY <3>2 DEF TypesInv, Runs, Pass, NoRun
        <4>2. ~(task = "full" /\ pc \in {"complete", "reconcile"})
          BY <3>2 DEF TypesInv, Runs, RunMode, LedgerMode
        <4>. QED
          BY <2>1, <4>1, <4>2 DEF PagedAreSeen
      <3>. QED
        BY <3>1, <3>2
    <2>3. ASSUME pc = "sweep" PROVE SweptArePresent'
      <3>1. "incremental" \in open
        BY <2>3 DEF TypesInv, Runs, RunMode, LedgerMode
      <3>2. kind # "delete"
        BY <2>1, <3>1 DEF IncrementalOnlyGrows
      <3> DEFINE x == (sweep.page - 1) * SweepSize
      <3>3. /\ S \subseteq Scene /\ T = IF kind = "create" THEN S \union {s} ELSE S
            /\ \A t \in S : Rank(T, IdKey, t) = Rank(S, IdKey, t)
            /\ kind = "create" => /\ Rank(T, IdKey, s) = Cardinality(S)
                                  /\ Cardinality(T) = Cardinality(S) + 1
        BY <1>1, <3>2, CreatedRanks
      <3>4. /\ sweep.present \subseteq S /\ x <= Cardinality(S)
            /\ \A t \in S : t \in sweep.present \/ x <= Rank(S, IdKey, t)
        BY <2>3 DEF DropInv, SweptArePresent
      <3>5. x \in Nat /\ Cardinality(S) \in Nat
        <4>1. sweep.page \in Nat \ {0} /\ SweepSize \in Nat \ {0}
          BY SourceSyncAssumptions DEF TypesInv, LocalTypes
        <4>2. x \in Nat
          BY <4>1, Division
        <4>. QED
          BY <3>3, <4>2, ScenesAreOrdered, FS_CardinalityType DEF Ordered
      <3> HIDE DEF S, T, x
      <3>6. /\ sweep.present \subseteq T /\ x <= Cardinality(T)
            /\ \A t \in T : t \in sweep.present \/ x <= Rank(T, IdKey, t)
        <4>1. CASE kind = "create"
          BY <3>3, <3>4, <3>5, <4>1
        <4>2. CASE kind # "create"
          BY <3>3, <3>4, <3>5, <4>2
        <4>. QED
          BY <4>1, <4>2
      <3>. QED
        BY <2>1, <3>6 DEF SweptArePresent, T, x
    <2>. QED
      BY <2>0, <2>1, <2>2, <2>3 DEF DropInv, SweptArePresent
  <1>2. ASSUME NEW t \in Task, BeginSync(t) PROVE DropInv'
    <2>1. UNCHANGED <<stash, cursor, seen, sweep>> /\ pc' = "entity"
      BY <1>2 DEF BeginSync, remoteVars
    <2>. QED
      BY <1>0, <2>1 DEF DropInv, PagedAreSeen, SweptArePresent, Present
  <1>3. CASE PrepareEntity
    <2>1. UNCHANGED <<stash, seen, task, sweep>> /\ pc = "entity"
      BY <1>3 DEF PrepareEntity, remoteVars
    <2>2. SweptArePresent'
      BY <1>3, EndedPass DEF PrepareEntity, SweptArePresent, EndPass, AfterPasses,
         TypesInv, Runs, Task
    <2>3. CASE cursor' = cursor
      <3>1. CASE cursor[pass].run = RunMode /\ cursor[pass].complete
        <4>1. task = "full" => Present(stash) \subseteq seen
          BY <2>1, <3>1 DEF DropInv, PagedAreSeen, TypesInv, Runs, RunMode,
             LedgerMode
        <4>. QED
          BY <1>0, <2>1, <2>2, <2>3, <4>1 DEF DropInv, PagedAreSeen, Present
      <3>2. CASE ~(cursor[pass].run = RunMode /\ cursor[pass].complete)
        <4>1. pc' = "page"
          BY <1>3, <3>2 DEF PrepareEntity
        <4>. QED
          BY <1>0, <2>1, <2>2, <2>3, <4>1 DEF DropInv, PagedAreSeen, Present
      <3>. QED
        BY <3>1, <3>2
    <2>4. CASE cursor' # cursor
      <3>1. LET d == cursor'[pass]
            IN /\ \A q \in Pass : q # pass => cursor'[q] = cursor[q]
               /\ ~d.complete /\ d.page = 1 /\ pc' = "page"
        BY <1>3, <2>4, PreparedCursor
      <3>2. CASE pass = "scene"
        <4>1. \A s \in Present(stash) : 0 <= Rank(Present(stash), IdKey, s)
          <5>1. Ordered(Present(stash), IdKey)
            BY ScenesAreOrdered DEF Present
          <5>. QED
            BY <5>1, RankInRange DEF Rank
        <4>2. (cursor'["scene"].page - 1) * PageSize = 0
          BY <3>1, <3>2, SourceSyncAssumptions
        <4>. QED
          BY <1>0, <2>1, <2>2, <3>1, <3>2, <4>1, <4>2
          DEF DropInv, PagedAreSeen, Present
      <3>3. CASE pass # "scene"
        BY <1>0, <2>1, <2>2, <3>1, <3>3 DEF DropInv, PagedAreSeen, Present, Pass
      <3>. QED
        BY <3>2, <3>3
    <2>. QED
      BY <2>3, <2>4
  <1>4. CASE SavePage
    <2>1. PagedAreSeen'
      BY <1>4, SavedPageIsSeen DEF DropInv
    <2>. QED
      BY <1>0, <1>4, <2>1 DEF DropInv, SweptArePresent, SavePage, remoteVars
  <1>5. CASE CompleteEntity
    <2>1. UNCHANGED <<stash, seen, task>> /\ pc = "complete" /\ EndPass
      BY <1>5 DEF CompleteEntity, remoteVars
    <2>2. /\ \A q \in Pass : q # pass => cursor'[q] = cursor[q]
          /\ cursor'[pass].run = cursor[pass].run
      BY <1>5, CompletedCursor
    <2>3. cursor[pass].run = RunMode /\ pass \in Pass /\ task \in Task
          /\ (task = "full" => pass = "scene")
      BY <2>1 DEF TypesInv, Runs
    <2>4. task = "full" => Present(stash) \subseteq seen
      BY <2>1 DEF DropInv, PagedAreSeen
    <2>5. pc' # "sweep"
      BY <2>1 DEF EndPass, AfterPasses, TypesInv, Runs, Task
    <2>6. PagedAreSeen'
      <3>1. CASE task = "full"
        BY <2>1, <2>4, <3>1 DEF PagedAreSeen, Present
      <3>2. CASE task # "full"
        <4>1. cursor'["scene"].run = "full" => cursor'["scene"] = cursor["scene"]
          BY <2>2, <2>3, <3>2 DEF RunMode, LedgerMode, Pass
        <4>. QED
          BY <2>1, <3>2, <4>1 DEF DropInv, PagedAreSeen, Present
      <3>. QED
        BY <3>1, <3>2
    <2>. QED
      BY <1>0, <2>1, <2>5, <2>6 DEF DropInv, SweptArePresent
  <1>6. CASE PruneDeleted \/ SyncFails
    <2>1. /\ UNCHANGED <<stash, cursor, seen>> /\ sweep' = NoSweep
          /\ pc' \in {"sweep", "finish", "idle"}
      BY <1>6 DEF PruneDeleted, SyncFails, remoteVars, localVars
    <2>2. PagedAreSeen'
      BY <2>1 DEF DropInv, PagedAreSeen, Present
    <2>3. SweptArePresent'
      <3>1. /\ (sweep'.page - 1) * SweepSize = 0 /\ sweep'.present = {}
            /\ Present(stash)' = Present(stash)
        BY <2>1, SourceSyncAssumptions DEF NoSweep, Present
      <3>2. Ordered(Present(stash), IdKey)
        BY ScenesAreOrdered DEF Present
      <3>3. /\ Cardinality(Present(stash)) \in Nat
            /\ \A s \in Present(stash) : Rank(Present(stash), IdKey, s) \in Nat
        BY <3>2, RankInRange, FS_CardinalityType DEF Rank, Ordered
      <3>. QED
        BY <3>1, <3>3 DEF SweptArePresent
    <2>. QED
      BY <1>0, <2>1, <2>2, <2>3 DEF DropInv
  <1>7. CASE SweepPage
    <2>1. UNCHANGED <<stash, cursor, seen, task>> /\ pc' \in {"sweep", "finish"}
      BY <1>7 DEF SweepPage, remoteVars
    <2>2. SweptArePresent'
      BY <1>7, SweepMeetsAll DEF DropInv
    <2>. QED
      BY <1>0, <2>1, <2>2 DEF DropInv, PagedAreSeen, Present
  <1>8. CASE Reconcile
    <2>1. UNCHANGED <<stash, cursor, seen, task>> /\ pc' = "finish"
      BY <1>8 DEF Reconcile, remoteVars
    <2>. QED
      BY <1>0, <2>1 DEF DropInv, PagedAreSeen, SweptArePresent, Present
  <1>9. CASE FinishRun
    <2>1. /\ UNCHANGED stash /\ pc' = "idle"
          /\ seen' = IF task = "full" THEN {} ELSE seen
      BY <1>9 DEF FinishRun, remoteVars
    <2>2. /\ cursor'["scene"].run = "full" =>
               cursor'["scene"] = cursor["scene"] /\ RunMode # "full"
      BY <1>9, FinishedCursors DEF Pass, NoRun
    <2>3. RunMode # "full" => task # "full"
      BY DEF RunMode, LedgerMode
    <2>. QED
      BY <1>0, <2>1, <2>2, <2>3
      DEF DropInv, PagedAreSeen, SweptArePresent, Present
  <1>10. CASE UNCHANGED vars
    BY <1>0, <1>10 DEF vars, remoteVars, localVars, workerVars, DropInv, PagedAreSeen,
       SweptArePresent, Present
  <1>. QED
    BY <1>1, <1>2, <1>3, <1>4, <1>5, <1>6, <1>7, <1>8, <1>9, <1>10
    DEF Next, Sync

DropsOnlyGone ==
  \A s \in Scene : (source[s] # Absent /\ source'[s] = Absent)
                     => stash[s] = Absent

LEMMA DropsOnlyGoneStep ==
  ASSUME TypesInv, DropInv, [Next]_vars
  PROVE  DropsOnlyGone
  <1>1. SUFFICES ASSUME NEW s \in Scene, source[s] # Absent,
                        source'[s] = Absent, s \in Present(stash)
                 PROVE  FALSE
    <2>1. \A s \in Scene : s \notin Present(stash) => stash[s] = Absent
      BY SourceSyncAssumptions
      DEF DropInv, GoneIsAbsent, Present, TypesInv, StashTypes
    <2>. QED
      BY <2>1 DEF DropsOnlyGone
  <1>2. UNCHANGED source \/ SavePage \/ SweepPage \/ Reconcile
    BY DEF Next, Sync, vars, StashChanges, BeginSync, PrepareEntity,
       CompleteEntity, PruneDeleted, FinishRun, SyncFails, localVars
  <1>3. CASE UNCHANGED source
    BY <1>1, <1>3
  <1>4. CASE SavePage
    <2>1. source'[s] = stash[s] \/ source'[s] = source[s]
      BY <1>4 DEF SavePage
    <2>. QED
      BY <1>1, <2>1 DEF Present, Absent
  <1>5. CASE SweepPage
    <2> DEFINE items == IdPage(sweep.page)
               present == sweep.present \union items
    <2>1. source' = Keep(present)
          /\ (items = {} \/ Cardinality(present) >= Cardinality(Present(stash)))
      BY <1>1, <1>5 DEF SweepPage
    <2>2. present = Present(stash)
      BY <1>5, <2>1, SweepMeetsAll DEF DropInv
    <2> HIDE DEF present, items
    <2>. QED
      BY <1>1, <2>1, <2>2 DEF Keep
  <1>6. CASE Reconcile
    <2>1. task = "full" /\ pc = "reconcile"
      BY <1>6 DEF Reconcile, TypesInv, Runs
    <2>2. s \in seen
      BY <1>1, <2>1 DEF DropInv, PagedAreSeen
    <2>. QED
      BY <1>1, <1>6, <2>2 DEF Reconcile, Keep
  <1>. QED
    BY <1>2, <1>3, <1>4, <1>5, <1>6

\* "drop entities Stash no longer has" (src/core/syncclient.go:1251): for any
\* library and page sizes, a sync drops nothing that Stash still has, however
\* often it is interrupted and resumed, if only updates and plays come during
\* a full run, and no deletion during an incremental one.
THEOREM OnlyWhatIsGoneIsDropped ==
  FullStandsStill /\ IncrementalOnlyGrows => (Spec => OnlyGoneAreDropped)
  <1>1. Init => TypesInv /\ DropInv
    BY TypesInvInit, DropInvInit
  <1>2. ASSUME FullStandsStill, IncrementalOnlyGrows
        PROVE  /\ TypesInv /\ DropInv /\ [Next]_vars => (TypesInv /\ DropInv)'
               /\ TypesInv /\ DropInv /\ [Next]_vars => [DropsOnlyGone]_vars
    BY <1>2, TypesInvStep, DropInvStep, DropsOnlyGoneStep
  <1>3. OnlyGoneAreDropped <=> [][DropsOnlyGone]_vars
    BY DEF OnlyGoneAreDropped, DropsOnlyGone
  <1>4. SUFFICES ASSUME FullStandsStill, IncrementalOnlyGrows
                 PROVE  Spec => OnlyGoneAreDropped
    OBVIOUS
  <1>5. /\ TypesInv /\ DropInv /\ [Next]_vars => (TypesInv /\ DropInv)'
        /\ TypesInv /\ DropInv /\ [Next]_vars => [DropsOnlyGone]_vars
    BY <1>2, <1>4
  <1>. QED
    BY <1>1, <1>3, <1>5, PTL DEF Spec

-----------------------------------------------------------------------------
(* The watermarks.                                                         *)

\* An update behind the pages of a full run is not in the sidecar, and a later
\* page may bring a newer timestamp: only plays may come during one.
FullOnlyPlays == FullOverlap \subseteq {"play"}

Copied(p, s) == IF p = "scene" THEN source[s].at = stash[s].at
                ELSE source[s].played >= stash[s].played

MarkedAreCopied ==
  \A p \in Pass, s \in Present(stash) :
    TimeStamp(p, stash, s) <= cursor[p].watermark => Copied(p, s)

\* The pages behind a cursor are copied, up to the pending watermark.
PagedFull(p) ==
  (cursor[p].run = "full" /\ ~cursor[p].complete) =>
    \A s \in Present(stash) :
      \/ Copied(p, s)
      \/ (cursor[p].page - 1) * PageSize <= Rank(Present(stash), IdKey, s)

PagedIncremental(p) ==
  (cursor[p].run = "incremental" /\ ~cursor[p].complete) =>
    \A s \in ListedBy(p) :
      TimeStamp(p, stash, s) <= cursor[p].pending =>
        \/ Copied(p, s)
        \/ (cursor[p].page - 1) * PageSize <= Rank(ListedBy(p), AgeKey(p), s)

ReadAreCopied ==
  pc = "complete" =>
    \A s \in Present(stash) :
      TimeStamp(pass, stash, s) <= cursor[pass].pending => Copied(pass, s)

MarkInv == /\ MarkedAreCopied
           /\ \A p \in Pass : PagedFull(p) /\ PagedIncremental(p)
           /\ ReadAreCopied

\* No step of a sync takes back what is copied.
LEMMA CopiesStay ==
  ASSUME TypesInv, DropInv, [Next]_vars, UNCHANGED stash
  PROVE  \A p \in Pass, s \in Present(stash) : Copied(p, s) => Copied(p, s)'
  <1>1. SUFFICES ASSUME NEW p \in Pass, NEW s \in Present(stash), Copied(p, s)
                 PROVE  Copied(p, s)'
    OBVIOUS
  <1>2. s \in Scene /\ stash[s].played \in Nat
    BY SourceSyncAssumptions DEF Present, TypesInv, StashTypes
  <1>3. source'[s] \in {source[s], stash[s], Absent}
    <2>1. UNCHANGED source \/ SavePage \/ SweepPage \/ Reconcile
      BY DEF Next, Sync, vars, StashChanges, BeginSync, PrepareEntity,
         CompleteEntity, PruneDeleted, FinishRun, SyncFails, localVars
    <2>2. CASE UNCHANGED source
      BY <2>2
    <2>3. CASE SavePage
      BY <1>2, <2>3 DEF SavePage
    <2>4. CASE SweepPage \/ Reconcile
      BY <1>2, <2>4 DEF SweepPage, Reconcile, Keep
    <2>. QED
      BY <2>1, <2>2, <2>3, <2>4
  <1>4. source'[s] \in {source[s], stash[s]}
    <2>1. stash[s] # Absent
      BY <1>1 DEF Present, Absent
    <2>. QED
      BY <1>2, <1>3, <2>1, DropsOnlyGoneStep DEF DropsOnlyGone
  <1>. QED
    BY <1>1, <1>2, <1>4 DEF Copied

\* What Stash has just changed is newer than every watermark.
LEMMA ChangesAreNew ==
  ASSUME TypesInv, NEW s \in Scene, NEW kind \in Change, StashChanges(s, kind),
         NEW p \in Pass, NEW t \in Present(stash)',
         TimeStamp(p, stash, t)' <= clock
  PROVE  \/ /\ p = "scene_play" /\ t = s /\ kind = "create"
            /\ TimeStamp(p, stash, t)' = 0
         \/ /\ t \in Present(stash)
            /\ TimeStamp(p, stash, t)' = TimeStamp(p, stash, t)
  <1>1. /\ clock' = clock + 1
        /\ \A u \in Scene : u # s => stash'[u] = stash[u]
        /\ kind = "create" => stash'[s].at = clock' /\ stash'[s].played = 0
        /\ kind # "create" => s \in Present(stash)
        /\ kind = "update" =>
             stash'[s].at = clock' /\ stash'[s].played = stash[s].played
        /\ kind = "play" =>
             stash'[s].at = stash[s].at /\ stash'[s].played = clock'
        /\ kind = "delete" => stash'[s] = Absent
    BY ChangedStash
  <1>2. clock \in Nat /\ t \in Scene /\ stash'[t].at > 0
    BY SourceSyncAssumptions DEF TypesInv, StashTypes, Present
  <1>3. CASE t # s
    BY <1>1, <1>2, <1>3 DEF TimeStamp, Present
  <1>4. CASE t = s
    <2>1. kind # "delete"
      BY <1>1, <1>2, <1>4 DEF Absent
    <2>2. ~(clock + 1 <= clock)
      BY <1>2
    <2>. QED
      BY <1>1, <1>2, <1>4, <2>1, <2>2 DEF TimeStamp, Change, Pass
  <1>. QED
    BY <1>3, <1>4

LEMMA ChangedCopies ==
  ASSUME TypesInv, NEW s \in Scene, NEW kind \in Change, StashChanges(s, kind),
         NEW p \in Pass, NEW t \in Present(stash)',
         TimeStamp(p, stash, t)' <= clock,
         (t \in Present(stash)
            /\ TimeStamp(p, stash, t)' = TimeStamp(p, stash, t)) => Copied(p, t)
  PROVE  Copied(p, t)'
  <1>1. UNCHANGED source
    BY DEF StashChanges, localVars
  <1>2. t \in Scene /\ source[t].played \in Nat
    BY DEF Present, TypesInv, LocalTypes
  <1>3. CASE p = "scene_play" /\ TimeStamp(p, stash, t)' = 0
    BY <1>1, <1>2, <1>3 DEF Copied, TimeStamp
  <1>4. CASE /\ t \in Present(stash)
             /\ TimeStamp(p, stash, t)' = TimeStamp(p, stash, t)
    BY <1>1, <1>4 DEF Copied, TimeStamp
  <1>. QED
    BY <1>3, <1>4, ChangesAreNew

LEMMA NextListedAreOrdered ==
  TypesInv' => \A p \in Pass : Ordered(ListedBy(p)', AgeKey(p)')
  <1>1. TypesInv => \A p \in Pass : Ordered(ListedBy(p), AgeKey(p))
    BY ListedAreOrdered
  <1>2. (TypesInv => \A p \in Pass : Ordered(ListedBy(p), AgeKey(p)))'
    BY <1>1, PTL
  <1>. QED
    BY <1>2

\* Changes only come in front of what an incremental pass has still to read.
LEMMA ChangedPages ==
  ASSUME FullOnlyPlays, IncrementalOnlyGrows, TypesInv, MarkInv,
         NEW s \in Scene, NEW kind \in Change, StashChanges(s, kind),
         NEW p \in Pass
  PROVE  PagedFull(p)' /\ PagedIncremental(p)'
  <1>1. /\ UNCHANGED <<source, open, cursor>>
        /\ "full" \in open => kind \in FullOverlap
        /\ "incremental" \in open => kind \in IncrementalOverlap
    BY DEF StashChanges, MayChange, localVars
  <1>2. ASSUME cursor[p].run = "full", ~cursor[p].complete
        PROVE  PagedFull(p)'
    <2>1. kind = "play" /\ p = "scene"
      BY <1>1, <1>2 DEF FullOnlyPlays, TypesInv, Runs, Pass, NoRun
    <2>2. Present(stash)' = Present(stash)
      BY <2>1, CreatedRanks
    <2>3. \A t \in Present(stash) : stash'[t].at = stash[t].at
      <3>1. /\ \A t \in Scene : t # s => stash'[t] = stash[t]
            /\ stash'[s].at = stash[s].at
        BY <2>1, ChangedStash
      <3>. QED
        BY <3>1 DEF Present
    <2>. QED
      BY <1>1, <1>2, <2>1, <2>2, <2>3 DEF MarkInv, PagedFull, Copied
  <1>3. ASSUME cursor[p].run = "incremental", ~cursor[p].complete
        PROVE  PagedIncremental(p)'
    <2> DEFINE L == ListedBy(p)
               M == ListedBy(p)'
    <2>1. kind # "delete"
      BY <1>1, <1>3 DEF IncrementalOnlyGrows, TypesInv, Runs, NoRun
    <2>2. /\ \A t \in Scene : t # s => stash'[t] = stash[t]
          /\ clock' = clock + 1 /\ clock' <= MaxClock
          /\ kind = "create" => stash'[s].at = clock' /\ stash'[s].played = 0
          /\ kind = "create" => s \notin Present(stash)
          /\ kind # "create" => s \in Present(stash)
          /\ kind = "update" =>
               stash'[s].at = clock' /\ stash'[s].played = stash[s].played
          /\ kind = "play" =>
               stash'[s].at = stash[s].at /\ stash'[s].played = clock'
      <3>1. clock' \in 0..MaxClock
        BY ChangedStash
      <3>. QED
        BY <3>1, ChangedStash, SourceSyncAssumptions
    <2>3. /\ clock \in Nat /\ MaxClock \in Nat
          /\ \A t \in Scene : stash[t].at \in 0..clock /\ stash[t].played \in 0..clock
          /\ cursor[p].baseline \in Nat /\ cursor[p].pending <= clock
          /\ cursor[p].pending \in Nat
      BY SourceSyncAssumptions DEF TypesInv, StashTypes, LocalTypes, Cursor
    <2>4. ASSUME NEW t \in Present(stash)
          PROVE  /\ t \in Present(stash)'
                 /\ stash[t].at <= stash'[t].at
                 /\ stash[t].played <= stash'[t].played
                 /\ stash'[t].at <= clock' /\ stash'[t].played <= clock'
                 /\ stash'[t].at \in Nat /\ stash'[t].played \in Nat
      <3>1. t \in Scene /\ stash[t].at > 0
        BY DEF Present
      <3>2. CASE t = s
        BY <2>1, <2>2, <2>3, <3>1, <3>2 DEF Present, Change
      <3>3. CASE t # s
        BY <2>2, <2>3, <3>1, <3>3 DEF Present
      <3>. QED
        BY <3>2, <3>3
    <2>5. L \subseteq M /\ L \subseteq Present(stash)
      BY <1>1, <2>3, <2>4 DEF ListedBy, Present
    <2>6. ASSUME NEW t \in L
          PROVE  /\ TimeStamp(p, stash, t) \in 0..clock
                 /\ TimeStamp(p, stash, t)' \in 0..clock'
                 /\ TimeStamp(p, stash, t) <= TimeStamp(p, stash, t)'
                 /\ AgeKey(p)[t] = MaxClock - TimeStamp(p, stash, t)
                 /\ AgeKey(p)'[t] = MaxClock - TimeStamp(p, stash, t)'
      <3>1. t \in Present(stash) /\ t \in Scene
        BY <2>5, <2>6 DEF Present
      <3>2. /\ TimeStamp(p, stash, t) \in 0..clock
            /\ TimeStamp(p, stash, t)' \in 0..clock'
            /\ TimeStamp(p, stash, t) <= TimeStamp(p, stash, t)'
        BY <2>2, <2>3, <2>4, <3>1 DEF TimeStamp
      <3>. QED
        BY <3>1, <3>2 DEF AgeKey
    <2>7. Ordered(L, AgeKey(p)) /\ Ordered(M, AgeKey(p)')
      <3>1. TypesInv'
        BY TypesInvStep DEF Next
      <3>2. Ordered(L, AgeKey(p))
        BY ListedAreOrdered
      <3>3. Ordered(M, AgeKey(p)')
        BY <3>1, NextListedAreOrdered
      <3>. QED
        BY <3>2, <3>3
    <2>8. ASSUME NEW t \in M, TimeStamp(p, stash, t)' <= cursor[p].pending
          PROVE  t \in L /\ TimeStamp(p, stash, t)' = TimeStamp(p, stash, t)
      <3>1. t \in Present(stash)' /\ TimeStamp(p, stash, t)' <= clock
        <4>1. t \in Present(stash)' /\ t \in Scene
          BY DEF ListedBy, Present
        <4>2. TimeStamp(p, stash, t)' \in Nat
          <5>1. StashTypes'
            BY ChangedStash
          <5>2. stash'[t].at \in 0..clock' /\ stash'[t].played \in 0..clock'
            BY <4>1, <5>1 DEF StashTypes
          <5>. QED
            BY <2>2, <2>3, <5>2 DEF TimeStamp
        <4>. QED
          BY <2>3, <2>8, <4>1, <4>2
      <3>2. CASE p = "scene_play" /\ t = s /\ kind = "create"
                 /\ TimeStamp(p, stash, t)' = 0
        BY <1>1, <2>3, <2>8, <3>2 DEF ListedBy, TimeStamp
      <3>3. CASE /\ t \in Present(stash)
                 /\ TimeStamp(p, stash, t)' = TimeStamp(p, stash, t)
        BY <1>1, <2>8, <3>3 DEF ListedBy, TimeStamp, Pass
      <3>. QED
        BY <3>1, <3>2, <3>3, ChangesAreNew
    <2>9. SUFFICES ASSUME NEW t \in M, TimeStamp(p, stash, t)' <= cursor[p].pending
                   PROVE  \/ Copied(p, t)'
                          \/ (cursor[p].page - 1) * PageSize
                               <= Rank(M, AgeKey(p)', t)
      BY <1>1 DEF PagedIncremental
    <2>10. t \in L /\ TimeStamp(p, stash, t)' = TimeStamp(p, stash, t)
      BY <2>8, <2>9
    <2>11. CASE Copied(p, t)
      BY <1>1, <2>10, <2>11 DEF Copied, TimeStamp
    <2>12. CASE (cursor[p].page - 1) * PageSize <= Rank(L, AgeKey(p), t)
      <3>1. Before(L, AgeKey(p), t) \in SUBSET Before(M, AgeKey(p)', t)
        <4>1. SUFFICES ASSUME NEW u \in L, AgeKey(p)[u] < AgeKey(p)[t]
                       PROVE  u \in M /\ AgeKey(p)'[u] < AgeKey(p)'[t]
          BY DEF Before
        <4>2. u \in M
          BY <2>5, <4>1
        <4> HIDE DEF L, M
        <4>3. AgeKey(p)[t] = AgeKey(p)'[t]
          BY <2>6, <2>10
        <4>4. AgeKey(p)'[u] <= AgeKey(p)[u]
          BY <2>2, <2>3, <2>6, <4>1
        <4>5. AgeKey(p)'[u] \in Int /\ AgeKey(p)[u] \in Int
              /\ AgeKey(p)[t] \in Int
          BY <2>2, <2>3, <2>6, <2>10, <4>1
        <4>. QED
          BY <4>1, <4>2, <4>3, <4>4, <4>5
      <3> HIDE DEF L, M
      <3>2. t \in M /\ t \in L
        BY <2>9, <2>10
      <3>3. /\ IsFiniteSet(Before(M, AgeKey(p)', t))
            /\ Rank(M, AgeKey(p)', t) \in Nat /\ Rank(L, AgeKey(p), t) \in Nat
        BY <2>7, <3>2, RankInRange DEF Rank
      <3>4. Rank(L, AgeKey(p), t) <= Rank(M, AgeKey(p)', t)
        BY <3>1, <3>3, FS_Subset DEF Rank
      <3>5. (cursor[p].page - 1) * PageSize \in Int
        BY SourceSyncAssumptions DEF TypesInv, LocalTypes, Cursor
      <3>. QED
        BY <2>12, <3>3, <3>4, <3>5
    <2>. QED
      <3>1. TimeStamp(p, stash, t) <= cursor[p].pending
        BY <2>9, <2>10
      <3>. QED
        BY <1>3, <2>10, <2>11, <2>12, <3>1 DEF MarkInv, PagedIncremental
  <1>. QED
    BY <1>1, <1>2, <1>3 DEF PagedFull, PagedIncremental

\* A page of a full run is copied, and the whole table at the end of the pass.
LEMMA SavedFullPage ==
  ASSUME TypesInv, DropInv, MarkInv, SavePage, task = "full"
  PROVE  PagedFull(pass)' /\ ReadAreCopied'
  <1> DEFINE S == Present(stash)
             c == cursor[pass]
             items == Page(c.page)
             x == (c.page - 1) * PageSize
             y == c.page * PageSize
  <1>0. /\ pc = "page" /\ UNCHANGED <<stash, task, pass>>
        /\ pass = "scene" /\ S \subseteq Scene
        /\ pc' = "complete" => ReachedWatermark(items) \/ Exhausted(items)
        /\ \A s \in items : source'[s] = stash[s]
    <2>1. items \subseteq Scene
      BY DEF Page, Listed, Present
    <2>. QED
      BY <2>1 DEF SavePage, remoteVars, TypesInv, Runs, Present
  <1>1. /\ c \in Cursor /\ c.run = "full" /\ ~c.complete
        /\ c.page \in Nat \ {0} /\ c.page <= LastScene + 1
        /\ cursor'[pass].run = c.run /\ cursor'[pass].complete = c.complete
        /\ cursor'[pass].page = IF c.page <= LastScene THEN c.page + 1
                                ELSE c.page
    <2>1. /\ c \in Cursor
          /\ cursor'[pass].run = c.run /\ cursor'[pass].complete = c.complete
          /\ cursor'[pass].page = IF c.page <= LastScene THEN c.page + 1
                                  ELSE c.page
      BY SavedCursor
    <2>2. c.run = "full" /\ ~c.complete
      BY <1>0 DEF TypesInv, Runs, RunMode, LedgerMode
    <2>. QED
      BY <2>1, <2>2, SourceSyncAssumptions DEF Cursor
  <1>2. Listed = S /\ items = PageOf(S, IdKey, PageSize, c.page)
    BY <1>0, <1>1, PageIs DEF ListedBy, PageKey
  <1>3. /\ x \in Nat /\ y = x + PageSize /\ c.page <= y
        /\ Cardinality(S) \in 0..LastScene
        /\ \A s \in S : /\ Rank(S, IdKey, s) \in Nat
                        /\ Rank(S, IdKey, s) < Cardinality(S)
                        /\ s \in items <=> x <= Rank(S, IdKey, s)
                                           /\ Rank(S, IdKey, s) < y
    <2>1. PageSize \in Nat \ {0}
      BY SourceSyncAssumptions
    <2> DEFINE p == c.page
    <2>2. S \subseteq Scene /\ p \in Nat \ {0}
      BY <1>0, <1>1
    <2> HIDE DEF S, p, items
    <2>3. /\ (p - 1) * PageSize \in Nat
          /\ p * PageSize = (p - 1) * PageSize + PageSize
          /\ p <= p * PageSize /\ Cardinality(S) \in 0..LastScene
      BY <2>1, <2>2, ScenePages
    <2>4. ASSUME NEW s \in S
          PROVE  /\ Rank(S, IdKey, s) \in Nat
                 /\ Rank(S, IdKey, s) < Cardinality(S)
                 /\ s \in PageOf(S, IdKey, PageSize, p) <=>
                      (p - 1) * PageSize <= Rank(S, IdKey, s)
                      /\ Rank(S, IdKey, s) < p * PageSize
      BY <2>1, <2>2, ScenePages
    <2>. QED
      BY <1>2, <2>3, <2>4 DEF p
  <1>4. \A s \in S : Copied("scene", s) \/ x <= Rank(S, IdKey, s)
    BY <1>0, <1>1 DEF MarkInv, PagedFull, Pass
  <1>5. \A s \in S : Copied("scene", s) => Copied("scene", s)'
    BY <1>0, CopiesStay DEF Next, Sync, Pass
  <1>6. \A s \in items : Copied("scene", s)'
    BY <1>0 DEF Copied
  <1>7. \A s \in S : Copied("scene", s)' \/ y <= Rank(S, IdKey, s)
    <2> HIDE DEF S, items, x, y
    <2>. QED
      BY <1>3, <1>4, <1>5, <1>6, SourceSyncAssumptions
  <1>8. PagedFull(pass)'
    <2>1. \A s \in S : Copied("scene", s)'
            \/ (cursor'["scene"].page - 1) * PageSize <= Rank(S, IdKey, s)
      <3>1. CASE c.page <= LastScene
        <4>1. (cursor'["scene"].page - 1) * PageSize = y
          BY <1>0, <1>1, <3>1
        <4>. QED
          BY <1>7, <4>1
      <3>2. CASE ~(c.page <= LastScene)
        <4>1. (cursor'["scene"].page - 1) * PageSize = x
          BY <1>0, <1>1, <3>2
        <4>. QED
          BY <1>4, <1>5, <4>1
      <3>. QED
        BY <3>1, <3>2
    <2>. QED
      BY <1>0, <2>1 DEF PagedFull, Present
  <1>9. ASSUME pc' = "complete" PROVE \A s \in S : Copied("scene", s)'
    <2>1. ~ReachedWatermark(items)
      BY DEF ReachedWatermark
    <2>2. CASE items = {}
      <3>1. \A s \in S : Rank(S, IdKey, s) < x
        BY <1>0, <1>1, <1>2, <2>2, EmptyPage, ScenesAreOrdered,
           SourceSyncAssumptions
      <3> HIDE DEF S, items, x, y
      <3>. QED
        BY <1>3, <1>4, <1>5, <3>1
    <2>3. CASE y >= Cardinality(S)
      <3> HIDE DEF S, items, x, y
      <3>. QED
        BY <1>3, <1>7, <2>3, SourceSyncAssumptions
    <2>. QED
      BY <1>0, <1>2, <1>9, <2>1, <2>2, <2>3 DEF Exhausted
  <1>. QED
    BY <1>0, <1>8, <1>9 DEF ReadAreCopied, Present

\* So is a page of an incremental one, and everything up to the pending
\* watermark when the pass meets the old one or comes to an end.
LEMMA SavedIncrementalPage ==
  ASSUME TypesInv, DropInv, MarkInv, SavePage, task # "full"
  PROVE  PagedIncremental(pass)' /\ ReadAreCopied'
  <1> DEFINE L == ListedBy(pass)
             key == AgeKey(pass)
             c == cursor[pass]
             d == cursor'[pass]
             items == Page(c.page)
             x == (c.page - 1) * PageSize
             y == c.page * PageSize
             ts(s) == TimeStamp(pass, stash, s)
  <1>0. /\ pc = "page" /\ UNCHANGED <<stash, clock, task, pass>>
        /\ pass \in Pass /\ task \in Task
        /\ pc' = "complete" => ReachedWatermark(items) \/ Exhausted(items)
        /\ \A s \in items : source'[s] = stash[s]
    <2>1. items \subseteq Scene
      BY DEF Page, Listed, Present
    <2>. QED
      BY <2>1 DEF SavePage, remoteVars, TypesInv, Runs
  <1>1. /\ c \in Cursor /\ c.run = "incremental" /\ ~c.complete
        /\ c.page \in Nat \ {0} /\ c.page <= LastScene + 1
        /\ d.run = c.run /\ d.complete = c.complete
        /\ d.watermark = c.watermark /\ d.baseline = c.baseline
        /\ d.page = IF c.page <= LastScene THEN c.page + 1 ELSE c.page
        /\ d.pending \in Nat /\ c.pending \in Nat /\ c.pending <= d.pending
        /\ \/ d.pending = c.pending
           \/ \E s \in items : d.pending = ts(s)
    <2>1. /\ c \in Cursor /\ cursor' \in [Pass -> Cursor]
          /\ d.run = c.run /\ d.complete = c.complete
          /\ d.watermark = c.watermark /\ d.baseline = c.baseline
          /\ d.page = IF c.page <= LastScene THEN c.page + 1 ELSE c.page
          /\ c.pending <= d.pending
          /\ \/ d.pending = c.pending
             \/ \E s \in items : d.pending = ts(s)
      BY SavedCursor
    <2>2. c.run = "incremental" /\ ~c.complete
      BY <1>0 DEF TypesInv, Runs, RunMode, LedgerMode
    <2>. QED
      BY <1>0, <2>1, <2>2, SourceSyncAssumptions DEF Cursor
  <1>2. /\ Listed = L /\ items = PageOf(L, key, PageSize, c.page)
        /\ Ordered(L, key) /\ L \subseteq Present(stash) /\ items \subseteq L
    BY <1>0, <1>1, PageIs DEF PageKey, PageOf
  <1>3. /\ \A s \in L : ts(s) \in 0..MaxClock /\ key[s] = MaxClock - ts(s)
        /\ \A s \in Present(stash) : ts(s) \in 0..MaxClock
    <2>1. \A s \in Present(stash) : ts(s) \in 0..MaxClock /\ s \in Scene
      BY <1>0, SourceSyncAssumptions DEF TypesInv, StashTypes, TimeStamp, Present
    <2>. QED
      BY <1>2, <2>1 DEF AgeKey
  <1>4. /\ x \in Nat /\ y = x + PageSize /\ c.page <= y
        /\ Cardinality(L) \in 0..LastScene
        /\ \A s \in L : /\ Rank(L, key, s) \in Nat
                        /\ Rank(L, key, s) < Cardinality(L)
                        /\ s \in items <=> x <= Rank(L, key, s)
                                           /\ Rank(L, key, s) < y
    <2>1. PageSize \in Nat \ {0} /\ LastScene \in Nat
      BY SourceSyncAssumptions
    <2>2. Cardinality(L) \in 0..LastScene
      <3>1. L \subseteq Scene
        BY <1>2 DEF Present
      <3>. QED
        BY <2>1, <3>1, ScenePages
    <2> DEFINE p == c.page
    <2>3. p \in Nat \ {0}
      BY <1>1
    <2> HIDE DEF L, key, p, items
    <2>4. /\ (p - 1) * PageSize \in Nat
          /\ p * PageSize = (p - 1) * PageSize + PageSize
          /\ p <= p * PageSize
      BY <2>1, <2>3, Division
    <2>5. ASSUME NEW s \in L
          PROVE  /\ Rank(L, key, s) \in Nat
                 /\ Rank(L, key, s) < Cardinality(L)
                 /\ s \in PageOf(L, key, PageSize, p) <=>
                      (p - 1) * PageSize <= Rank(L, key, s)
                      /\ Rank(L, key, s) < p * PageSize
      BY <1>2, <2>1, <2>3, PageRanks
    <2>. QED
      BY <1>2, <2>2, <2>4, <2>5 DEF p
  <1>5. \A s \in L : ts(s) <= c.pending =>
                       Copied(pass, s) \/ x <= Rank(L, key, s)
    BY <1>0, <1>1 DEF MarkInv, PagedIncremental
  <1>6. \A s \in Present(stash) : Copied(pass, s) => Copied(pass, s)'
    BY <1>0, CopiesStay DEF Next, Sync, Copied
  <1>7. \A s \in items : Copied(pass, s)'
    <2>1. \A s \in items : stash[s].played \in Nat
      BY <1>2, SourceSyncAssumptions DEF Present, TypesInv, StashTypes
    <2>. QED
      BY <1>0, <2>1 DEF Copied
  \* What comes before this page and is not copied is too new to be counted.
  <1>8. ASSUME NEW s \in L, ts(s) <= d.pending, Rank(L, key, s) < x
        PROVE  Copied(pass, s)'
    <2>1. \A r \in items : ts(r) < ts(s)
      <3>1. SUFFICES ASSUME NEW r \in items PROVE ts(r) < ts(s)
        OBVIOUS
      <3> HIDE DEF L, key, items, x, y
      <3>2. r \in L /\ Rank(L, key, s) < Rank(L, key, r)
        BY <1>2, <1>4, <1>8, <3>1
      <3>3. key[s] < key[r]
        BY <1>2, <3>2, RankFollowsKey
      <3>. QED
        BY <1>3, <3>2, <3>3, SourceSyncAssumptions
    <2>2. d.pending = c.pending
      <3> HIDE DEF L, items, ts, c, d
      <3>1. \A r \in items : ts(r) \in Nat
        BY <1>2, <1>3, SourceSyncAssumptions
      <3>2. ts(s) \in Nat
        BY <1>3, SourceSyncAssumptions
      <3>. QED
        BY <1>1, <1>8, <2>1, <3>1, <3>2
    <2>3. ~(x <= Rank(L, key, s))
      <3> HIDE DEF L, key, x
      <3>. QED
        BY <1>4, <1>8
    <2>. QED
      BY <1>2, <1>5, <1>6, <1>8, <2>2, <2>3
  <1>9. \A s \in L : ts(s) <= d.pending =>
                       Copied(pass, s)' \/ y <= Rank(L, key, s)
    <2> HIDE DEF L, key, items, x, y, d, ts
    <2>. QED
      BY <1>4, <1>7, <1>8, SourceSyncAssumptions
  <1>10. PagedIncremental(pass)'
    <2>1. ListedBy(pass)' = L /\ AgeKey(pass)' = key
      BY <1>0, <1>1 DEF ListedBy, AgeKey, TimeStamp, Present
    <2>2. ASSUME NEW s \in L, ts(s) <= d.pending
          PROVE  Copied(pass, s)' \/ (d.page - 1) * PageSize <= Rank(L, key, s)
      <3>1. CASE c.page <= LastScene
        <4>1. (d.page - 1) * PageSize = y
          BY <1>1, <3>1
        <4>. QED
          BY <1>9, <2>2, <4>1
      <3>2. CASE ~(c.page <= LastScene)
        <4>1. (d.page - 1) * PageSize = x
          BY <1>1, <3>2
        <4>2. CASE Rank(L, key, s) < x
          BY <1>8, <2>2, <4>2
        <4>3. CASE ~(Rank(L, key, s) < x)
          <5> HIDE DEF L, key, x, d
          <5>. QED
            BY <1>4, <2>2, <4>1, <4>3
        <4>. QED
          BY <4>2, <4>3
      <3>. QED
        BY <3>1, <3>2
    <2>. QED
      BY <1>0, <2>1, <2>2 DEF PagedIncremental, TimeStamp
  <1>11. ASSUME pc' = "complete", NEW s \in Present(stash), ts(s) <= d.pending
         PROVE  Copied(pass, s)'
    <2>1. CASE ts(s) <= c.watermark
      BY <1>0, <1>6, <1>11, <2>1 DEF MarkInv, MarkedAreCopied
    <2>2. CASE ~(ts(s) <= c.watermark)
      <3>1. s \in L
        BY <1>0, <1>1, <1>3, <1>11, <2>2
        DEF ListedBy, TypesInv, LocalTypes, TimeStamp, Cursor, Pass
      <3>2. SUFFICES ASSUME ~(Rank(L, key, s) < y) PROVE FALSE
        <4> HIDE DEF L, key, y, ts, d
        <4>. QED
          BY <1>4, <1>9, <1>11, <3>1, <3>2, SourceSyncAssumptions
      <3>3. ~Exhausted(items)
        <4>1. items # {}
          <5>1. SUFFICES ASSUME items = {} PROVE FALSE
            OBVIOUS
          <5>2. Rank(L, key, s) < x
            BY <1>1, <1>2, <3>1, <5>1, EmptyPage, SourceSyncAssumptions
          <5> HIDE DEF L, key, x, y
          <5>. QED
            BY <1>4, <3>1, <3>2, <5>2, SourceSyncAssumptions
        <4>2. ~(y >= Cardinality(L))
          <5> HIDE DEF L, key, x, y
          <5>. QED
            BY <1>4, <3>1, <3>2, SourceSyncAssumptions
        <4>. QED
          BY <1>2, <4>1, <4>2 DEF Exhausted
      <3>4. ReachedWatermark(items)
        BY <1>0, <1>11, <3>3
      <3> DEFINE T == {Timestamp(stash, r) : r \in items}
      <3>5. T # {} /\ Min(T) <= c.baseline
        BY <3>4 DEF ReachedWatermark
      <3>6. \A r \in items : Timestamp(stash, r) = ts(r) /\ ts(r) \in Nat
        BY <1>2, <1>3, SourceSyncAssumptions DEF Timestamp, TimeStamp
      <3>7. Min(T) \in T
        <4>1. T \subseteq Nat
          BY <3>6
        <4> HIDE DEF T
        <4>. QED
          BY <3>5, <4>1, Smallest
      <3>8. PICK r \in items : ts(r) <= c.baseline
        BY <3>5, <3>6, <3>7
      <3>9. c.baseline = c.watermark /\ c.watermark \in Nat
        BY <1>0, <1>1 DEF TypesInv, LocalTypes, Cursor
      <3>10. key[r] < key[s]
        <4> HIDE DEF L, key, items, x, y
        <4>1. r \in L /\ Rank(L, key, r) < Rank(L, key, s)
          BY <1>2, <1>4, <3>1, <3>2, <3>8, SourceSyncAssumptions
        <4>. QED
          BY <1>2, <3>1, <4>1, RankFollowsKey
      <3> HIDE DEF L, key, items, ts, c
      <3>11. ts(s) < ts(r)
        BY <1>2, <1>3, <3>1, <3>8, <3>10, SourceSyncAssumptions
      <3>12. ts(s) \in Nat /\ ts(r) \in Nat
        BY <1>3, <3>1, <3>6, SourceSyncAssumptions
      <3>. QED
        BY <2>2, <3>8, <3>9, <3>11, <3>12
    <2>. QED
      BY <2>1, <2>2
  <1>. QED
    BY <1>0, <1>10, <1>11 DEF ReadAreCopied, Present, TimeStamp

LEMMA MarkInvInit == Init => MarkInv
  <1>1. SUFFICES ASSUME Init PROVE MarkInv
    OBVIOUS
  <1>2. \A p \in Pass : cursor[p].watermark = 0 /\ cursor[p].run = NoRun
    BY <1>1, StartedCursor DEF Init
  <1>3. \A s \in Present(stash) : /\ stash[s].at \in Nat /\ stash[s].at > 0
                                  /\ stash[s].played = 0
                                  /\ source[s].played = 0
    BY <1>1 DEF Init, Present, Absent, Scene
  <1>4. MarkedAreCopied
    BY <1>2, <1>3 DEF MarkedAreCopied, Copied, TimeStamp, Pass
  <1>5. \A p \in Pass : PagedFull(p) /\ PagedIncremental(p)
    BY <1>2 DEF PagedFull, PagedIncremental, NoRun
  <1>. QED
    BY <1>1, <1>4, <1>5 DEF MarkInv, ReadAreCopied, Init

\* A step that leaves Stash alone and moves no watermark and no page.
LEMMA UnmarkedStep ==
  ASSUME TypesInv, DropInv, MarkInv, [Next]_vars, UNCHANGED stash,
         NEW p \in Pass, cursor'[p] = cursor[p]
  PROVE  /\ \A s \in Present(stash)' :
              TimeStamp(p, stash, s)' <= cursor'[p].watermark => Copied(p, s)'
         /\ PagedFull(p)' /\ PagedIncremental(p)'
  <1>1. /\ Present(stash)' = Present(stash) /\ ListedBy(p)' = ListedBy(p)
        /\ AgeKey(p)' = AgeKey(p)
        /\ \A s : TimeStamp(p, stash, s)' = TimeStamp(p, stash, s)
    BY DEF Present, ListedBy, AgeKey, TimeStamp
  <1>2. \A s \in Present(stash) : Copied(p, s) => Copied(p, s)'
    BY CopiesStay
  <1>3. ListedBy(p) \subseteq Present(stash)
    BY DEF ListedBy
  <1>4. PagedFull(p)'
    BY <1>1, <1>2 DEF MarkInv, PagedFull
  <1>5. PagedIncremental(p)'
    BY <1>1, <1>2, <1>3 DEF MarkInv, PagedIncremental
  <1>. QED
    BY <1>1, <1>2, <1>4, <1>5 DEF MarkInv, MarkedAreCopied

LEMMA MarkInvStep ==
  ASSUME FullOnlyPlays, IncrementalOnlyGrows, TypesInv, DropInv, MarkInv,
         [Next]_vars
  PROVE  MarkInv'
  <1> DEFINE Marked(p) == \A s \in Present(stash)' :
                            TimeStamp(p, stash, s)' <= cursor'[p].watermark
                              => Copied(p, s)'
             Fine(p) == Marked(p) /\ PagedFull(p)' /\ PagedIncremental(p)'
  <1>0. ASSUME \A p \in Pass : Fine(p), ReadAreCopied' PROVE MarkInv'
    BY <1>0 DEF MarkInv, MarkedAreCopied
  <1>1. ASSUME NEW s \in Scene, NEW kind \in Change, StashChanges(s, kind)
        PROVE  MarkInv'
    <2>1. UNCHANGED <<cursor, pc, pass>> /\ pass \in Pass
      BY <1>1 DEF StashChanges, localVars, workerVars, TypesInv, Runs
    <2>2. /\ clock \in Nat
          /\ \A p \in Pass : /\ cursor[p].watermark \in Nat
                             /\ cursor[p].watermark <= clock
                             /\ cursor[p].pending \in Nat
                             /\ cursor[p].pending <= clock
      BY SourceSyncAssumptions DEF TypesInv, StashTypes, LocalTypes, Cursor
    <2>3. \A p \in Pass, t \in Present(stash)' : TimeStamp(p, stash, t)' \in Nat
      <3>1. StashTypes' /\ clock' \in Nat
        BY <1>1, ChangedStash
      <3>. QED
        BY <3>1 DEF StashTypes, TimeStamp, Present
    <2>4. ASSUME NEW p \in Pass PROVE Fine(p)
      <3>1. ASSUME NEW t \in Present(stash)',
                   TimeStamp(p, stash, t)' <= cursor'[p].watermark
            PROVE  Copied(p, t)'
        <4>1. TimeStamp(p, stash, t)' <= clock
          BY <2>1, <2>2, <2>3, <3>1
        <4>2. ASSUME t \in Present(stash),
                     TimeStamp(p, stash, t)' = TimeStamp(p, stash, t)
              PROVE  Copied(p, t)
          BY <2>1, <3>1, <4>2 DEF MarkInv, MarkedAreCopied
        <4>. QED
          BY <1>1, <4>1, <4>2, ChangedCopies
      <3>. QED
        BY <1>1, <3>1, ChangedPages
    <2>5. ReadAreCopied'
      <3>1. SUFFICES ASSUME pc = "complete", NEW t \in Present(stash)',
                            TimeStamp(pass, stash, t)' <= cursor[pass].pending
                     PROVE  Copied(pass, t)'
        BY <2>1 DEF ReadAreCopied, TimeStamp, Copied
      <3>2. TimeStamp(pass, stash, t)' <= clock
        BY <2>1, <2>2, <2>3, <3>1
      <3>3. ASSUME NEW p \in Pass, p = pass PROVE Copied(p, t)'
        <4>1. TimeStamp(p, stash, t)' <= clock
          BY <2>1, <3>2, <3>3 DEF TimeStamp
        <4>2. ASSUME t \in Present(stash),
                     TimeStamp(p, stash, t)' = TimeStamp(p, stash, t)
              PROVE  Copied(p, t)
          BY <2>1, <3>1, <3>3, <4>2 DEF MarkInv, ReadAreCopied, TimeStamp
        <4>. QED
          BY <1>1, <4>1, <4>2, ChangedCopies
      <3>. QED
        BY <2>1, <3>3 DEF Copied
    <2>. QED
      BY <1>0, <2>4, <2>5
  \* The steps that leave the cursors alone.
  <1>2. ASSUME UNCHANGED <<stash, cursor>>, pc' # "complete" PROVE MarkInv'
    BY <1>0, <1>2, UnmarkedStep DEF ReadAreCopied
  <1>3. CASE \E t \in Task : BeginSync(t)
    <2>1. UNCHANGED <<stash, cursor>> /\ pc' # "complete"
      BY <1>3 DEF BeginSync, remoteVars
    <2>. QED
      BY <1>2, <2>1
  <1>4. CASE PrepareEntity
    <2>1. UNCHANGED stash /\ pc' # "complete"
      BY <1>4 DEF PrepareEntity, remoteVars, EndPass, AfterPasses, TypesInv,
         Runs, Task
    <2>2. CASE cursor' = cursor
      BY <1>2, <2>1, <2>2
    <2>3. CASE cursor' # cursor
      <3>1. /\ \A q \in Pass : q # pass => cursor'[q] = cursor[q]
            /\ cursor'[pass].page = 1
            /\ cursor'[pass].watermark = cursor[pass].watermark
        BY <1>4, <2>3, PreparedCursor
      <3>2. ASSUME NEW p \in Pass, p = pass PROVE Fine(p)
        <4>1. \A s \in Present(stash) : Copied(p, s) => Copied(p, s)'
          BY <2>1, CopiesStay
        <4>2. Marked(p)
          BY <2>1, <3>1, <3>2, <4>1
          DEF MarkInv, MarkedAreCopied, Present, TimeStamp
        <4>3. (cursor'[p].page - 1) * PageSize = 0
          BY <3>1, <3>2, SourceSyncAssumptions
        <4>4. \A s \in Present(stash)' : 0 <= Rank(Present(stash)', IdKey, s)
          <5>1. Ordered(Present(stash)', IdKey)
            BY ScenesAreOrdered DEF Present
          <5>. QED
            BY <5>1, RankInRange DEF Rank
        <4>5. \A s \in ListedBy(p)' : 0 <= Rank(ListedBy(p)', AgeKey(p)', s)
          <5>1. TypesInv'
            BY TypesInvStep
          <5>2. Ordered(ListedBy(p)', AgeKey(p)')
            BY <3>2, <5>1, NextListedAreOrdered
          <5>. QED
            BY <5>2, RankInRange DEF Rank
        <4>. QED
          BY <4>2, <4>3, <4>4, <4>5 DEF PagedFull, PagedIncremental
      <3>3. \A p \in Pass : Fine(p)
        BY <2>1, <3>1, <3>2, UnmarkedStep
      <3>. QED
        BY <1>0, <2>1, <3>3 DEF ReadAreCopied
    <2>. QED
      BY <2>2, <2>3
  <1>5. CASE SavePage
    <2>1. UNCHANGED <<stash, pass>> /\ pass \in Pass
      BY <1>5 DEF SavePage, remoteVars, TypesInv, Runs
    <2>2. /\ \A q \in Pass : q # pass => cursor'[q] = cursor[q]
          /\ cursor'[pass].run = cursor[pass].run
          /\ cursor'[pass].watermark = cursor[pass].watermark
      BY <1>5, SavedCursor
    <2>3. Marked(pass)
      <3>1. \A s \in Present(stash) : Copied(pass, s) => Copied(pass, s)'
        BY <2>1, CopiesStay DEF Copied
      <3>. QED
        BY <2>1, <2>2, <3>1 DEF MarkInv, MarkedAreCopied, Present, TimeStamp
    <2>4. PagedFull(pass)' /\ PagedIncremental(pass)' /\ ReadAreCopied'
      <3>1. cursor[pass].run = RunMode
        BY <1>5 DEF SavePage, TypesInv, Runs
      <3>2. CASE task = "full"
        <4>1. cursor'[pass].run # "incremental"
          BY <2>2, <3>1, <3>2 DEF RunMode, LedgerMode
        <4>. QED
          BY <1>5, <2>1, <3>2, <4>1, SavedFullPage DEF PagedIncremental
      <3>3. CASE task # "full"
        <4>1. cursor'[pass].run # "full"
          BY <2>2, <3>1, <3>3 DEF RunMode, LedgerMode
        <4>. QED
          BY <1>5, <2>1, <3>3, <4>1, SavedIncrementalPage DEF PagedFull
      <3>. QED
        BY <3>2, <3>3
    <2>. QED
      BY <1>0, <2>1, <2>2, <2>3, <2>4, UnmarkedStep
  <1>6. CASE CompleteEntity
    <2>1. UNCHANGED stash /\ pc = "complete" /\ pc' # "complete" /\ pass \in Pass
      BY <1>6 DEF CompleteEntity, remoteVars, EndPass, AfterPasses, TypesInv,
         Runs, Task
    <2>2. /\ \A q \in Pass : q # pass => cursor'[q] = cursor[q]
          /\ cursor'[pass].complete
          /\ cursor'[pass].watermark = cursor[pass].pending
      BY <1>6, CompletedCursor
    <2>3. ASSUME NEW p \in Pass, p = pass PROVE Fine(p)
      <3>1. \A s \in Present(stash) : Copied(p, s) => Copied(p, s)'
        BY <2>1, CopiesStay
      <3>2. Marked(p)
        BY <2>1, <2>2, <2>3, <3>1 DEF MarkInv, ReadAreCopied, Present, TimeStamp
      <3>. QED
        BY <2>2, <2>3, <3>2 DEF PagedFull, PagedIncremental
    <2>4. \A p \in Pass : Fine(p)
      BY <2>1, <2>2, <2>3, UnmarkedStep
    <2>. QED
      BY <1>0, <2>1, <2>4 DEF ReadAreCopied
  <1>7. CASE PruneDeleted \/ SweepPage \/ Reconcile \/ SyncFails
    <2>1. UNCHANGED <<stash, cursor>> /\ pc' # "complete"
      BY <1>7 DEF PruneDeleted, SweepPage, Reconcile, SyncFails, remoteVars,
         localVars
    <2>. QED
      BY <1>2, <2>1
  <1>8. CASE FinishRun
    <2>1. UNCHANGED stash /\ pc' = "idle"
      BY <1>8 DEF FinishRun, remoteVars
    <2>2. \A p \in Pass :
            IF cursor[p].run = RunMode
            THEN /\ cursor'[p].run = NoRun
                 /\ cursor'[p].watermark = cursor[p].watermark
            ELSE cursor'[p] = cursor[p]
      BY <1>8, FinishedCursors
    <2>3. ASSUME NEW p \in Pass, cursor[p].run = RunMode PROVE Fine(p)
      <3>1. \A s \in Present(stash) : Copied(p, s) => Copied(p, s)'
        BY <2>1, CopiesStay
      <3>2. Marked(p)
        BY <2>1, <2>2, <2>3, <3>1 DEF MarkInv, MarkedAreCopied, Present, TimeStamp
      <3>. QED
        BY <2>2, <2>3, <3>2 DEF PagedFull, PagedIncremental, NoRun
    <2>. QED
      BY <1>0, <2>1, <2>2, <2>3, UnmarkedStep DEF ReadAreCopied
  <1>9. CASE UNCHANGED vars
    <2>1. UNCHANGED <<stash, cursor, pc, pass>> /\ pass \in Pass
      BY <1>9 DEF vars, remoteVars, localVars, workerVars, TypesInv, Runs
    <2>2. ReadAreCopied'
      <3>1. UNCHANGED source
        BY <1>9 DEF vars, localVars
      <3>. QED
        BY <2>1, <3>1 DEF MarkInv, ReadAreCopied, Copied, Present, TimeStamp
    <2>. QED
      BY <1>0, <2>1, <2>2, UnmarkedStep
  <1>. QED
    BY <1>1, <1>3, <1>4, <1>5, <1>6, <1>7, <1>8, <1>9 DEF Next, Sync

\* A watermark stands for what it says (completeEntity, ReachedWatermark), for
\* any library and page size, however often a sync is interrupted and resumed,
\* if only plays come during a full run and no deletion during an incremental
\* one: everything Stash changed up to it has been copied.
THEOREM WatermarksAreSound ==
  FullOnlyPlays /\ IncrementalOnlyGrows => (Spec => []WatermarkSound)
  <1> DEFINE Inv == TypesInv /\ DropInv /\ MarkInv
  <1>1. Init => Inv
    BY TypesInvInit, DropInvInit, MarkInvInit
  <1>2. SUFFICES ASSUME FullOnlyPlays, IncrementalOnlyGrows
                 PROVE  Spec => []WatermarkSound
    OBVIOUS
  <1>3. Inv /\ [Next]_vars => Inv'
    <2>1. FullStandsStill
      BY <1>2 DEF FullOnlyPlays, FullStandsStill
    <2>. QED
      BY <1>2, <2>1, TypesInvStep, DropInvStep, MarkInvStep
  <1>4. Inv => WatermarkSound
    BY DEF WatermarkSound, MarkInv, MarkedAreCopied, Copied, TimeStamp, Pass
  <1>. QED
    BY <1>1, <1>3, <1>4, PTL DEF Spec

-----------------------------------------------------------------------------
(* What a completed sync leaves.                                           *)

\* The sidecar never knows more plays than Stash, nor scenes that never were.
NeverAhead ==
  /\ \A s \in Present(stash) : source[s].played <= stash[s].played
  /\ \A s \in Scene : s > born => source[s] = Absent

\* What a full run has seen it has copied, unless Stash changed it since; and
\* if Stash changed nothing, it has seen nothing that is gone.
SeenAgree ==
  /\ "full" \notin open => seen = {}
  /\ \A s \in (seen \intersect Present(stash)) \ touched["full"] : source[s] = stash[s]
  /\ touched["full"] = {} => seen \subseteq Present(stash)

\* The first page of an incremental pass has the newest of what Stash left
\* alone since the run began; when the pass ends all of that is copied.
ReadSoFar(p) ==
  cursor[p].run = "incremental" =>
    \A s \in Present(stash) \ touched["incremental"] :
      IF cursor[p].complete THEN Copied(p, s)
      ELSE cursor[p].page > 1 =>
             \/ TimeStamp(p, stash, s) <= cursor[p].watermark
             \/ TimeStamp(p, stash, s) <= cursor[p].pending

Done(p) == cursor[p].run = RunMode /\ cursor[p].complete

\* How far the passes of a task are.
PassesDone ==
  /\ touched \in [{"full", "incremental"} -> SUBSET Scene]
  /\ pc = "complete" => cursor[pass].page > 1 \/ Scene = {}
  /\ (task = "plays" /\ pc # "idle") => pass = "scene_play"
  /\ (task = "full" /\ pc \in {"reconcile", "finish"}) => Done("scene")
  /\ (task = "incremental" /\ pc # "idle" /\ pass = "scene_play") => Done("scene")
  /\ (task # "full" /\ pc \in {"prune", "sweep", "finish"}) => pass = "scene_play" /\ Done("scene_play")

\* Nothing is left that Stash deleted before an undisturbed run.
NothingLeft == pc = "finish" => DropsDeleted

AgreeInv ==
  /\ NeverAhead
  /\ SeenAgree
  /\ \A p \in Pass : ReadSoFar(p)
  /\ PassesDone
  /\ NothingLeft

\* A step of a sync copies a scene, drops it or leaves it alone.
LEMMA SourceMoves ==
  ASSUME TypesInv, DropInv, [Next]_vars, NEW s \in Scene
  PROVE  /\ source'[s] \in {source[s], stash[s], Absent}
         /\ s \in Present(stash) => source'[s] \in {source[s], stash[s]}
  <1>1. source'[s] \in {source[s], stash[s], Absent}
    <2>1. UNCHANGED source \/ SavePage \/ SweepPage \/ Reconcile
      BY DEF Next, Sync, vars, StashChanges, BeginSync, PrepareEntity,
         CompleteEntity, PruneDeleted, FinishRun, SyncFails, localVars
    <2>2. CASE UNCHANGED source
      BY <2>2
    <2>3. CASE SavePage
      BY <2>3 DEF SavePage
    <2>4. CASE SweepPage \/ Reconcile
      BY <2>4 DEF SweepPage, Reconcile, Keep
    <2>. QED
      BY <2>1, <2>2, <2>3, <2>4
  <1>2. s \in Present(stash) => stash[s] # Absent
    BY DEF Present, Absent
  <1>. QED
    BY <1>1, <1>2, DropsOnlyGoneStep DEF DropsOnlyGone

LEMMA NeverAheadStep ==
  ASSUME TypesInv, DropInv, NeverAhead, [Next]_vars
  PROVE  NeverAhead'
  <1>0. /\ born \in Nat /\ LastScene \in Nat /\ clock \in Nat
        /\ Present(stash) \subseteq 1..born
        /\ \A s \in Scene : stash[s].played \in 0..clock /\ s \in Nat
        /\ \A s \in Scene : s \notin Present(stash) => stash[s] = Absent
    BY SourceSyncAssumptions
    DEF TypesInv, StashTypes, DropInv, GoneIsAbsent, Present, Scene
  <1>1. ASSUME NEW s \in Scene, NEW kind \in Change, StashChanges(s, kind)
        PROVE  NeverAhead'
    <2>1. /\ UNCHANGED source /\ clock' = clock + 1
          /\ \A t \in Scene : t # s => stash'[t] = stash[t]
          /\ kind = "create" =>
               s = born + 1 /\ born' = s /\ stash'[s].played = 0
          /\ kind # "create" => s \in Present(stash) /\ born' = born
          /\ kind = "update" => stash'[s].played = stash[s].played
          /\ kind = "play" => stash'[s].played = clock'
          /\ kind = "delete" => stash'[s] = Absent
      <3>1. UNCHANGED source
        BY <1>1 DEF StashChanges, localVars
      <3>. QED
        BY <1>1, <3>1, ChangedStash
    <2>2. ASSUME NEW t \in Present(stash)'
          PROVE  source'[t].played <= stash'[t].played
      <3>1. t \in Scene /\ stash'[t].at > 0 /\ source[t].played \in Nat
        BY DEF Present, TypesInv, LocalTypes
      <3>2. CASE t # s
        <4>1. t \in Present(stash)
          BY <2>1, <3>1, <3>2 DEF Present
        <4>. QED
          BY <2>1, <3>1, <3>2, <4>1 DEF NeverAhead
      <3>3. CASE t = s /\ kind = "create"
        <4>1. source[s] = Absent
          BY <1>0, <2>1, <3>3 DEF NeverAhead
        <4>. QED
          BY <2>1, <3>3, <4>1 DEF Absent
      <3>4. CASE t = s /\ kind # "create"
        <4>1. kind # "delete"
          BY <2>1, <3>1, <3>4 DEF Absent
        <4>2. source[s].played <= stash[s].played
          BY <2>1, <3>4 DEF NeverAhead
        <4>3. stash'[s].played = stash[s].played \/ stash'[s].played = clock + 1
          BY <2>1, <3>4, <4>1 DEF Change
        <4>. QED
          BY <1>0, <2>1, <3>1, <3>4, <4>2, <4>3
      <3>. QED
        BY <3>2, <3>3, <3>4
    <2>3. ASSUME NEW t \in Scene, t > born'
          PROVE  source'[t] = Absent
      <3>1. t > born
        BY <1>0, <2>1, <2>3
      <3>. QED
        BY <2>1, <3>1 DEF NeverAhead
    <2>. QED
      BY <2>2, <2>3 DEF NeverAhead
  <1>2. CASE UNCHANGED <<stash, born>>
    <2>1. Present(stash)' = Present(stash)
      BY <1>2 DEF Present
    <2>2. ASSUME NEW t \in Present(stash)
          PROVE  source'[t].played <= stash[t].played
      <3>1. t \in Scene
        BY DEF Present
      <3>2. source'[t] \in {source[t], stash[t]}
        BY <3>1, SourceMoves
      <3>3. source[t].played <= stash[t].played /\ stash[t].played <= stash[t].played
        BY <1>0, <3>1 DEF NeverAhead
      <3>. QED
        BY <3>2, <3>3
    <2>3. ASSUME NEW t \in Scene, t > born
          PROVE  source'[t] = Absent
      <3>1. t \notin Present(stash)
        BY <1>0, <2>3
      <3>2. stash[t] = Absent /\ source[t] = Absent
        BY <1>0, <2>3, <3>1 DEF NeverAhead
      <3>. QED
        BY <3>2, SourceMoves
    <2>. QED
      BY <1>2, <2>1, <2>2, <2>3 DEF NeverAhead
  <1>3. \/ UNCHANGED <<stash, born>>
        \/ \E s \in Scene, kind \in Change : StashChanges(s, kind)
    BY DEF Next, Sync, vars, remoteVars, BeginSync, PrepareEntity, SavePage,
       CompleteEntity, PruneDeleted, SweepPage, Reconcile, FinishRun, SyncFails
  <1>. QED
    BY <1>1, <1>2, <1>3

\* What a change does to the scenes Stash left alone in an open run.
LEMMA TouchedByChange ==
  ASSUME TypesInv, PassesDone, NEW s \in Scene, NEW kind \in Change,
         StashChanges(s, kind), NEW m \in open
  PROVE  /\ touched'[m] = touched[m] \union {s}
         /\ \A t \in Present(stash)' \ touched'[m] :
              /\ t \in Present(stash) \ touched[m] /\ t \in Scene
              /\ stash'[t] = stash[t]
  <1>1. m \in {"full", "incremental"}
    BY DEF TypesInv, LocalTypes
  <1>2. touched' = [n \in DOMAIN touched |->
                      IF n \in open THEN touched[n] \union {s} ELSE {}]
        /\ DOMAIN touched = {"full", "incremental"}
    BY DEF StashChanges, PassesDone
  <1>3. touched'[m] = touched[m] \union {s}
    BY <1>1, <1>2
  <1>4. \A t \in Scene : t # s => stash'[t] = stash[t]
    BY ChangedStash
  <1>. QED
    BY <1>3, <1>4 DEF Present

\* A step that leaves Stash and what was seen alone.
LEMMA SeenStays ==
  ASSUME TypesInv, DropInv, SeenAgree, [Next]_vars, UNCHANGED <<stash, seen>>,
         "full" \notin open' => "full" \notin open,
         touched'["full"] = touched["full"]
  PROVE  SeenAgree'
  <1>1. Present(stash)' = Present(stash)
    BY DEF Present
  <1>2. ASSUME NEW t \in (seen \intersect Present(stash)) \ touched["full"]
        PROVE  source'[t] = stash[t]
    <2>1. t \in Scene /\ source[t] = stash[t]
      BY DEF Present, SeenAgree
    <2>. QED
      BY <2>1, SourceMoves
  <1>. QED
    BY <1>1, <1>2 DEF SeenAgree

LEMMA SeenAgreeStep ==
  ASSUME TypesInv, DropInv, SeenAgree, PassesDone, [Next]_vars
  PROVE  SeenAgree'
  <1>1. ASSUME NEW s \in Scene, NEW kind \in Change, StashChanges(s, kind)
        PROVE  SeenAgree'
    <2>1. UNCHANGED <<source, seen, open>>
      BY <1>1 DEF StashChanges, localVars
    <2>2. CASE "full" \notin open
      BY <2>1, <2>2 DEF SeenAgree
    <2>3. CASE "full" \in open
      <3>1. /\ touched'["full"] # {}
            /\ \A t \in Present(stash)' \ touched'["full"] :
                 t \in Present(stash) \ touched["full"] /\ stash'[t] = stash[t]
        BY <1>1, <2>3, TouchedByChange
      <3>. QED
        BY <2>1, <2>3, <3>1 DEF SeenAgree
    <2>. QED
      BY <2>2, <2>3
  <1>2. CASE SavePage
    <2> DEFINE items == Page(cursor[pass].page)
    <2>1. /\ UNCHANGED <<stash, open, touched>> /\ pc = "page"
          /\ seen' = IF task = "full" THEN seen \union items ELSE seen
          /\ \A t \in Scene : t \in items => source'[t] = stash[t]
      BY <1>2 DEF SavePage, remoteVars
    <2>2. CASE task # "full"
      BY <2>1, <2>2, SeenStays
    <2>3. CASE task = "full"
      <3>1. "full" \in open
        BY <2>1, <2>3 DEF TypesInv, Runs, RunMode, LedgerMode
      <3>2. items \subseteq Present(stash) /\ Present(stash)' = Present(stash)
        BY <2>1 DEF Page, Listed, Present
      <3>3. ASSUME NEW t \in ((seen \union items) \intersect Present(stash)) \ touched["full"]
            PROVE  source'[t] = stash[t]
        <4>1. t \in Scene
          BY DEF Present
        <4>2. CASE t \in items
          BY <2>1, <4>1, <4>2
        <4>3. CASE t \notin items
          <5>1. source[t] = stash[t]
            BY <4>3 DEF SeenAgree
          <5>. QED
            BY <4>1, <5>1, SourceMoves
        <4>. QED
          BY <4>2, <4>3
      <3> HIDE DEF items
      <3>. QED
        BY <2>1, <2>3, <3>1, <3>2, <3>3 DEF SeenAgree
    <2>. QED
      BY <2>2, <2>3
  <1>3. CASE FinishRun
    <2>1. /\ UNCHANGED <<stash, source>> /\ open' = open \ {RunMode}
          /\ seen' = IF task = "full" THEN {} ELSE seen
          /\ touched' = [touched EXCEPT ![RunMode] = {}]
      BY <1>3 DEF FinishRun, remoteVars
    <2>2. CASE task = "full"
      BY <2>1, <2>2 DEF SeenAgree
    <2>3. CASE task # "full"
      <3>1. RunMode # "full"
        BY <2>3 DEF RunMode, LedgerMode
      <3>2. touched'["full"] = touched["full"]
        BY <2>1, <3>1 DEF PassesDone
      <3>. QED
        BY <2>1, <2>3, <3>1, <3>2, SeenStays
    <2>. QED
      BY <2>2, <2>3
  <1>4. CASE \/ \E t \in Task : BeginSync(t)
             \/ PrepareEntity \/ CompleteEntity \/ PruneDeleted \/ SweepPage
             \/ Reconcile \/ SyncFails \/ UNCHANGED vars
    <2>1. /\ UNCHANGED <<stash, seen, touched>> /\ open \subseteq open'
      BY <1>4 DEF BeginSync, PrepareEntity, CompleteEntity, PruneDeleted, SweepPage,
         Reconcile, SyncFails, vars, remoteVars, localVars
    <2>. QED
      BY <2>1, SeenStays
  <1>. QED
    BY <1>1, <1>2, <1>3, <1>4 DEF Next, Sync

\* The first page of an incremental pass has the newest.
LEMMA FirstPageIsNewest ==
  ASSUME TypesInv, SavePage, task # "full", cursor[pass].page = 1,
         NEW s \in Present(stash)
  PROVE  \/ TimeStamp(pass, stash, s) <= cursor[pass].watermark
         \/ TimeStamp(pass, stash, s) <= cursor'[pass].pending
  <1> DEFINE L == ListedBy(pass)
             key == AgeKey(pass)
             items == Page(1)
             ts(t) == TimeStamp(pass, stash, t)
             high == cursor'[pass].pending
  <1>1. /\ Listed = L /\ Ordered(L, key) /\ L \subseteq Present(stash)
        /\ items = PageOf(L, key, PageSize, 1)
    <2>1. pass \in Pass
      BY DEF TypesInv, Runs
    <2>. QED
      BY <2>1, PageIs DEF PageKey
  <1>2. \A t \in items : ts(t) <= high
    BY SavedCursor
  <1>3. /\ \A t \in L : ts(t) \in 0..MaxClock /\ key[t] = MaxClock - ts(t)
        /\ \A t \in Present(stash) : ts(t) \in 0..MaxClock
        /\ MaxClock \in Nat /\ high \in Nat
    <2>1. \A t \in Present(stash) : ts(t) \in 0..MaxClock /\ t \in Scene
      BY SourceSyncAssumptions DEF TypesInv, StashTypes, TimeStamp, Present
    <2>2. pass \in Pass /\ cursor' \in [Pass -> Cursor]
      BY SavedCursor DEF TypesInv, Runs
    <2>3. high \in Nat
      BY <2>2 DEF Cursor
    <2>. QED
      BY <1>1, <2>1, <2>3, SourceSyncAssumptions DEF AgeKey
  <1>4. CASE s \notin L
    <2>1. pass = "scene_play" /\ ~(stash[s].played > cursor[pass].baseline)
      BY <1>4 DEF ListedBy, TypesInv, Runs, Pass
    <2>2. cursor[pass].baseline = cursor[pass].watermark /\ cursor[pass].watermark \in Nat
      BY DEF TypesInv, Runs, LocalTypes, Cursor
    <2>3. ts(s) = stash[s].played /\ ts(s) \in Nat
      BY <1>3, <2>1 DEF TimeStamp
    <2>. QED
      BY <2>1, <2>2, <2>3
  <1>5. CASE s \in L
    <2> HIDE DEF L, key, items, ts, high
    <2>1. PageSize \in Nat \ {0} /\ 1 \in Nat \ {0}
      BY SourceSyncAssumptions
    <2>2. \A t \in L : /\ Rank(L, key, t) \in Nat
                       /\ t \in items <=> Rank(L, key, t) < PageSize
      <3>1. ASSUME NEW t \in L
            PROVE  /\ Rank(L, key, t) \in Nat
                   /\ t \in PageOf(L, key, PageSize, 1) <=>
                        (1 - 1) * PageSize <= Rank(L, key, t)
                        /\ Rank(L, key, t) < 1 * PageSize
        BY <1>1, <2>1, PageRanks
      <3>2. (1 - 1) * PageSize = 0 /\ 1 * PageSize = PageSize
        BY <2>1
      <3>. QED
        BY <1>1, <3>1, <3>2
    <2>3. CASE s \in items
      BY <1>2, <2>3 DEF ts, high
    <2>4. CASE s \notin items
      <3>1. PICK u \in L : Rank(L, key, u) = 0
        <4>1. Cardinality(Before(L, key, s)) >= 0
          BY <1>5, <2>2 DEF Rank
        <4>. QED
          BY <1>1, <1>5, <4>1, RankExists DEF Rank
      <3>2. u \in items /\ Rank(L, key, u) < Rank(L, key, s)
        BY <1>5, <2>1, <2>2, <2>4, <3>1
      <3>3. key[u] < key[s]
        BY <1>1, <1>5, <3>1, <3>2, RankFollowsKey
      <3>4. ts(u) <= high /\ ts(s) < ts(u) /\ ts(s) \in Nat
        BY <1>2, <1>3, <1>5, <3>1, <3>2, <3>3
      <3>5. ts(s) <= high
        BY <1>3, <3>1, <3>4
      <3>. QED
        BY <3>5 DEF ts, high
    <2>. QED
      BY <2>3, <2>4
  <1>. QED
    BY <1>4, <1>5

\* A step that leaves Stash and a cursor alone.
LEMMA ReadStays ==
  ASSUME TypesInv, DropInv, [Next]_vars, UNCHANGED stash, NEW p \in Pass,
         ReadSoFar(p), cursor'[p] = cursor[p],
         cursor[p].run = "incremental" => touched'["incremental"] = touched["incremental"]
  PROVE  ReadSoFar(p)'
  <1>1. Present(stash)' = Present(stash)
    BY DEF Present
  <1>2. \A s \in Present(stash) : Copied(p, s) => Copied(p, s)'
    BY CopiesStay
  <1>3. \A s : TimeStamp(p, stash, s)' = TimeStamp(p, stash, s)
    BY DEF TimeStamp
  <1>. QED
    BY <1>1, <1>2, <1>3 DEF ReadSoFar

LEMMA ReadSoFarStep ==
  ASSUME TypesInv, DropInv, MarkInv, PassesDone, [Next]_vars,
         NEW p \in Pass, ReadSoFar(p)
  PROVE  ReadSoFar(p)'
  <1>1. ASSUME NEW s \in Scene, NEW kind \in Change, StashChanges(s, kind)
        PROVE  ReadSoFar(p)'
    <2>1. UNCHANGED <<source, cursor, open>>
      BY <1>1 DEF StashChanges, localVars
    <2>2. SUFFICES ASSUME cursor[p].run = "incremental" PROVE ReadSoFar(p)'
      BY <2>1 DEF ReadSoFar
    <2>3. "incremental" \in open
      BY <2>2 DEF TypesInv, Runs, NoRun
    <2>4. ASSUME NEW t \in Present(stash)' \ touched'["incremental"]
          PROVE  /\ t \in Present(stash) \ touched["incremental"]
                 /\ TimeStamp(p, stash, t)' = TimeStamp(p, stash, t)
                 /\ Copied(p, t) => Copied(p, t)'
      <3>1. t \in Present(stash) \ touched["incremental"] /\ stash'[t] = stash[t]
        BY <1>1, <2>3, TouchedByChange
      <3>. QED
        BY <2>1, <3>1 DEF TimeStamp, Copied
    <2>. QED
      BY <2>1, <2>2, <2>4 DEF ReadSoFar
  <1>2. CASE PrepareEntity
    <2>1. UNCHANGED <<stash, touched>>
      BY <1>2 DEF PrepareEntity, remoteVars
    <2>2. CASE cursor' = cursor
      BY <2>1, <2>2, ReadStays
    <2>3. CASE cursor' # cursor
      <3>1. /\ \A q \in Pass : q # pass => cursor'[q] = cursor[q]
            /\ ~cursor'[pass].complete /\ cursor'[pass].page = 1
        BY <1>2, <2>3, PreparedCursor
      <3>2. CASE p = pass
        BY <3>1, <3>2 DEF ReadSoFar
      <3>. QED
        BY <2>1, <3>1, <3>2, ReadStays
    <2>. QED
      BY <2>2, <2>3
  <1>3. CASE SavePage
    <2>1. UNCHANGED <<stash, touched, pass>> /\ pc = "page"
      BY <1>3 DEF SavePage, remoteVars
    <2>2. /\ \A q \in Pass : q # pass => cursor'[q] = cursor[q]
          /\ cursor'[pass].run = cursor[pass].run
          /\ cursor'[pass].complete = cursor[pass].complete
          /\ cursor'[pass].watermark = cursor[pass].watermark
          /\ cursor[pass].pending <= cursor'[pass].pending
          /\ cursor[pass] \in Cursor /\ cursor' \in [Pass -> Cursor]
      BY <1>3, SavedCursor
    <2>3. CASE p # pass
      BY <2>1, <2>2, <2>3, ReadStays
    <2>4. CASE p = pass
      <3>1. SUFFICES ASSUME cursor[p].run = "incremental",
                            NEW s \in Present(stash) \ touched["incremental"]
                     PROVE  /\ ~cursor'[p].complete
                            /\ \/ TimeStamp(p, stash, s) <= cursor'[p].watermark
                               \/ TimeStamp(p, stash, s) <= cursor'[p].pending
        BY <2>1, <2>2, <2>4 DEF ReadSoFar, Present, TimeStamp
      <3>2. cursor[pass].run = RunMode /\ ~cursor[pass].complete /\ task # "full"
        BY <2>1, <2>4, <3>1 DEF TypesInv, Runs, RunMode, LedgerMode
      <3>3. CASE cursor[p].page = 1
        BY <1>3, <2>2, <2>4, <3>2, <3>3, FirstPageIsNewest
      <3>4. CASE cursor[p].page # 1
        <4>1. cursor[p].page > 1
          BY <2>2, <2>4, <3>4, SourceSyncAssumptions DEF Cursor
        <4>2. \/ TimeStamp(p, stash, s) <= cursor[p].watermark
              \/ TimeStamp(p, stash, s) <= cursor[p].pending
          BY <2>4, <3>1, <3>2, <4>1 DEF ReadSoFar
        <4>3. cursor[p].pending \in Nat /\ cursor'[p].pending \in Nat
          BY <2>2, <2>4 DEF Cursor
        <4>4. TimeStamp(p, stash, s) \in Nat
          BY SourceSyncAssumptions DEF TypesInv, StashTypes, TimeStamp, Present
        <4>. QED
          BY <2>2, <2>4, <3>2, <4>2, <4>3, <4>4
      <3>. QED
        BY <3>3, <3>4
    <2>. QED
      BY <2>3, <2>4
  <1>4. CASE CompleteEntity
    <2>1. UNCHANGED <<stash, touched>> /\ pc = "complete"
      BY <1>4 DEF CompleteEntity, remoteVars
    <2>2. /\ \A q \in Pass : q # pass => cursor'[q] = cursor[q]
          /\ cursor'[pass].run = cursor[pass].run /\ cursor'[pass].complete
      BY <1>4, CompletedCursor
    <2>3. CASE p # pass
      BY <2>1, <2>2, <2>3, ReadStays
    <2>4. CASE p = pass
      <3>1. SUFFICES ASSUME cursor[p].run = "incremental",
                            NEW s \in Present(stash) \ touched["incremental"]
                     PROVE  Copied(p, s)'
        BY <2>1, <2>2, <2>4 DEF ReadSoFar, Present
      <3>2. cursor[p].page > 1 /\ ~cursor[p].complete
        BY <2>1, <2>4, <3>1 DEF PassesDone, Present, TypesInv, Runs
      <3>3. \/ TimeStamp(p, stash, s) <= cursor[p].watermark
            \/ TimeStamp(p, stash, s) <= cursor[p].pending
        BY <3>1, <3>2 DEF ReadSoFar
      <3>4. Copied(p, s)
        BY <2>1, <2>4, <3>3 DEF MarkInv, MarkedAreCopied, ReadAreCopied
      <3>. QED
        BY <2>1, <3>4, CopiesStay
    <2>. QED
      BY <2>3, <2>4
  <1>5. CASE FinishRun
    <2>1. UNCHANGED stash /\ touched' = [touched EXCEPT ![RunMode] = {}]
      BY <1>5 DEF FinishRun, remoteVars
    <2>2. IF cursor[p].run = RunMode THEN cursor'[p].run = NoRun ELSE cursor'[p] = cursor[p]
      BY <1>5, FinishedCursors
    <2>3. CASE cursor[p].run = RunMode
      BY <2>2, <2>3 DEF ReadSoFar, NoRun
    <2>4. CASE cursor[p].run # RunMode
      <3>1. cursor[p].run = "incremental" => touched'["incremental"] = touched["incremental"]
        BY <2>1, <2>4 DEF PassesDone
      <3>. QED
        BY <2>1, <2>2, <2>4, <3>1, ReadStays
    <2>. QED
      BY <2>3, <2>4
  <1>6. CASE \/ \E t \in Task : BeginSync(t)
             \/ PruneDeleted \/ SweepPage \/ Reconcile \/ SyncFails \/ UNCHANGED vars
    <2>1. UNCHANGED <<stash, cursor, touched>>
      BY <1>6 DEF BeginSync, PruneDeleted, SweepPage, Reconcile, SyncFails, vars,
         remoteVars, localVars
    <2>. QED
      BY <2>1, ReadStays
  <1>. QED
    BY <1>1, <1>2, <1>3, <1>4, <1>5, <1>6 DEF Next, Sync

LEMMA AgreeInvInit == Init => AgreeInv
  <1>1. SUFFICES ASSUME Init PROVE AgreeInv
    OBVIOUS
  <1>2. NeverAhead
    BY <1>1, SourceSyncAssumptions DEF Init, NeverAhead, Absent, Present
  <1>3. SeenAgree
    BY <1>1 DEF Init, SeenAgree
  <1>4. \A p \in Pass : ReadSoFar(p)
    BY <1>1 DEF Init, ReadSoFar, NewCursor, NoRun
  <1>5. PassesDone
    BY <1>1 DEF Init, PassesDone, NoTask
  <1>. QED
    BY <1>1, <1>2, <1>3, <1>4, <1>5 DEF AgreeInv, NothingLeft, Init

LEMMA PassesDoneStep ==
  ASSUME TypesInv, PassesDone, [Next]_vars
  PROVE  PassesDone'
  <1> DEFINE Pairs == [{"full", "incremental"} -> SUBSET Scene]
  <1>1. ASSUME NEW s \in Scene, NEW kind \in Change, StashChanges(s, kind)
        PROVE  PassesDone'
    <2>1. UNCHANGED <<cursor, pc, task, pass>>
      BY <1>1 DEF StashChanges, localVars, workerVars
    <2>2. touched' = [n \in DOMAIN touched |->
                        IF n \in open THEN touched[n] \union {s} ELSE {}]
          /\ DOMAIN touched = {"full", "incremental"}
      BY <1>1 DEF StashChanges, PassesDone
    <2>3. touched' \in Pairs
      BY <2>2 DEF PassesDone
    <2>. QED
      BY <2>1, <2>3 DEF PassesDone, Done, RunMode
  <1>2. ASSUME NEW t \in Task, BeginSync(t)
        PROVE  PassesDone'
    <2>1. /\ UNCHANGED <<cursor, touched>> /\ task' = t /\ pass' = FirstPass(t)
          /\ pc' = "entity"
      BY <1>2 DEF BeginSync
    <2>. QED
      BY <2>1 DEF PassesDone, FirstPass, Task
  <1>3. CASE PrepareEntity
    <2>1. /\ UNCHANGED <<touched, task>> /\ pc = "entity" /\ task \in Task /\ pass \in Pass
          /\ task = "full" => pass = "scene"
      BY <1>3 DEF PrepareEntity, TypesInv, Runs
    <2>2. CASE cursor' = cursor /\ pc' = "page" /\ UNCHANGED pass
      BY <2>1, <2>2 DEF PassesDone, Done, RunMode
    <2>3. CASE cursor' = cursor /\ Done(pass) /\ EndPass
      BY <2>1, <2>3 DEF PassesDone, Done, RunMode, EndPass, AfterPasses, Task, Pass
    <2>4. CASE cursor' # cursor
      <3>1. /\ \A q \in Pass : q # pass => cursor'[q] = cursor[q]
            /\ pc' = "page" /\ UNCHANGED pass
        BY <1>3, <2>4, PreparedCursor
      <3>. QED
        BY <2>1, <3>1 DEF PassesDone, Done, RunMode, Pass
    <2>. QED
      BY <1>3, <2>2, <2>3, <2>4 DEF PrepareEntity, Done
  <1>4. CASE SavePage
    <2>1. /\ UNCHANGED <<touched, task, pass>> /\ pc = "page" /\ pass \in Pass
          /\ pc' \in {"page", "complete"}
      BY <1>4 DEF SavePage, TypesInv, Runs
    <2>2. /\ \A q \in Pass : q # pass => cursor'[q] = cursor[q]
          /\ cursor'[pass].run = cursor[pass].run
          /\ cursor'[pass].complete = cursor[pass].complete
          /\ cursor'[pass].page = IF cursor[pass].page <= LastScene
                                  THEN cursor[pass].page + 1 ELSE cursor[pass].page
          /\ cursor[pass] \in Cursor
      BY <1>4, SavedCursor
    <2>3. cursor'[pass].page > 1 \/ Scene = {}
      <3>1. CASE LastScene = 0
        BY <3>1 DEF Scene
      <3>2. CASE LastScene # 0
        BY <2>2, <3>2, SourceSyncAssumptions DEF Cursor
      <3>. QED
        BY <3>1, <3>2
    <2>4. ~cursor[pass].complete
      BY <2>1 DEF TypesInv, Runs
    <2>. QED
      BY <2>1, <2>2, <2>3, <2>4 DEF PassesDone, Done, RunMode, Pass
  <1>5. CASE CompleteEntity
    <2>1. /\ UNCHANGED <<touched, task>> /\ pc = "complete" /\ EndPass
          /\ pass \in Pass /\ task \in Task /\ cursor[pass].run = RunMode
          /\ task = "full" => pass = "scene"
      BY <1>5 DEF CompleteEntity, TypesInv, Runs
    <2>2. /\ \A q \in Pass : q # pass => cursor'[q] = cursor[q]
          /\ cursor'[pass].run = cursor[pass].run /\ cursor'[pass].complete
      BY <1>5, CompletedCursor
    <2>. QED
      BY <2>1, <2>2 DEF PassesDone, Done, RunMode, EndPass, AfterPasses, Task, Pass
  <1>6. CASE PruneDeleted \/ SweepPage \/ Reconcile
    <2>1. /\ UNCHANGED <<cursor, touched, task, pass>>
          /\ pc \in {"prune", "sweep", "reconcile"} /\ pc' \in {"sweep", "finish"}
          /\ pc = "reconcile" => task = "full"
          /\ pc \in {"prune", "sweep"} => task = "incremental"
      BY <1>6 DEF PruneDeleted, SweepPage, Reconcile, TypesInv, Runs, localVars
    <2>. QED
      BY <2>1 DEF PassesDone, Done, RunMode
  <1>7. CASE FinishRun
    <2>1. /\ touched' = [touched EXCEPT ![RunMode] = {}] /\ pc' = "idle" /\ task' = NoTask
      BY <1>7 DEF FinishRun
    <2>2. touched' \in Pairs
      BY <2>1 DEF PassesDone
    <2>. QED
      BY <2>1, <2>2 DEF PassesDone, NoTask
  <1>8. CASE SyncFails
    <2>1. UNCHANGED touched /\ pc' = "idle" /\ task' = NoTask
      BY <1>8 DEF SyncFails
    <2>. QED
      BY <2>1 DEF PassesDone, NoTask
  <1>9. CASE UNCHANGED vars
    BY <1>9 DEF vars, localVars, workerVars, PassesDone, Done, RunMode
  <1>. QED
    BY <1>1, <1>2, <1>3, <1>4, <1>5, <1>6, <1>7, <1>8, <1>9 DEF Next, Sync

\* A sync about to finish has copied what Stash left alone.
LEMMA DoneCatchesUp ==
  ASSUME TypesInv, DropInv, NeverAhead, SeenAgree, \A p \in Pass : ReadSoFar(p), PassesDone,
         \/ pc = "finish"
         \/ pc \in {"prune", "sweep"}
  PROVE  CatchesUp
  <1>1. task \in Task
    BY DEF TypesInv, Runs
  <1>2. ASSUME NEW s \in Present(stash)
        PROVE  /\ source[s].played \in Nat /\ stash[s].played \in Nat
               /\ source[s].played <= stash[s].played
               /\ source[s] \in [at : Nat, played : Nat]
               /\ stash[s] \in [at : Nat, played : Nat]
    <2>1. s \in Scene /\ clock \in Nat
      BY SourceSyncAssumptions DEF Present, TypesInv, StashTypes
    <2>2. stash[s] \in [at : 0..clock, played : 0..clock]
          /\ source[s] \in [at : Nat, played : Nat]
      BY <2>1 DEF TypesInv, StashTypes, LocalTypes
    <2>. QED
      BY <2>1, <2>2 DEF NeverAhead
  <1>3. CASE task = "full"
    <2>1. pc = "finish"
      BY <1>3 DEF TypesInv, Runs
    <2>2. cursor["scene"].run = "full" /\ cursor["scene"].complete
      BY <1>3, <2>1 DEF PassesDone, Done, RunMode, LedgerMode
    <2>3. Present(stash) \subseteq seen
      BY <2>2 DEF DropInv, PagedAreSeen
    <2>4. \A s \in Present(stash) \ touched["full"] : source[s] = stash[s]
      BY <2>3 DEF SeenAgree
    <2>. QED
      BY <1>2, <1>3, <2>4 DEF CatchesUp, RunMode, LedgerMode
  <1>4. CASE task # "full"
    <2>1. RunMode = "incremental"
      BY <1>4 DEF RunMode, LedgerMode
    <2>2. pass = "scene_play" /\ Done("scene_play")
      BY <1>4 DEF PassesDone
    <2>3. \A s \in Present(stash) \ touched["incremental"] : source[s].played >= stash[s].played
      BY <2>1, <2>2 DEF ReadSoFar, Done, Copied, Pass
    <2>4. ASSUME task # "plays", NEW s \in Present(stash) \ touched["incremental"]
          PROVE  source[s] = stash[s]
      <3>1. Done("scene")
        BY <1>1, <1>4, <2>2, <2>4 DEF PassesDone, Task
      <3>2. source[s].at = stash[s].at
        BY <2>1, <3>1 DEF ReadSoFar, Done, Copied, Pass
      <3>3. source[s].played = stash[s].played
        BY <1>2, <2>3
      <3>. QED
        BY <1>2, <3>2, <3>3
    <2>. QED
      BY <2>1, <2>3, <2>4 DEF CatchesUp
  <1>. QED
    BY <1>3, <1>4

LEMMA NothingLeftStep ==
  ASSUME FullOnlyPlays, IncrementalOnlyGrows, TypesInv, DropInv, MarkInv, AgreeInv, [Next]_vars
  PROVE  NothingLeft'
  <1>0. IsFiniteSet(Scene) /\ IsFiniteSet(Present(stash)) /\ IsFiniteSet(Present(source))
        /\ Present(stash) \subseteq Scene /\ Present(source) \subseteq Scene
        /\ \A s \in Scene : stash[s].at \in Nat
    <2>1. IsFiniteSet(Scene)
      BY FS_Interval, SourceSyncAssumptions DEF Scene
    <2>2. Present(stash) \subseteq Scene /\ Present(source) \subseteq Scene
      BY DEF Present
    <2>3. \A s \in Scene : stash[s].at \in Nat
      BY SourceSyncAssumptions DEF TypesInv, StashTypes
    <2>. QED
      BY <2>1, <2>2, <2>3, FS_Subset
  <1>1. ASSUME NEW s \in Scene, NEW kind \in Change, StashChanges(s, kind)
        PROVE  NothingLeft'
    <2>1. UNCHANGED <<pc, task, open>>
      BY <1>1 DEF StashChanges, localVars, workerVars
    <2>2. SUFFICES ASSUME pc = "finish" PROVE touched'[RunMode] # {}
      BY <2>1 DEF NothingLeft, DropsDeleted, RunMode
    <2>3. RunMode \in open
      BY <2>2 DEF TypesInv, Runs
    <2>. QED
      BY <1>1, <2>3, TouchedByChange DEF AgreeInv
  <1>2. CASE PruneDeleted
    <2>1. /\ UNCHANGED <<stash, source, touched, task>> /\ pc = "prune" /\ task = "incremental"
          /\ pc' = IF CountsSuggestDeletions THEN "sweep" ELSE "finish"
      BY <1>2 DEF PruneDeleted, remoteVars, localVars, TypesInv, Runs
    <2>2. SUFFICES ASSUME ~CountsSuggestDeletions, touched["incremental"] = {}
                   PROVE  Present(source) \subseteq Present(stash)
      BY <2>1 DEF NothingLeft, DropsDeleted, RunMode, LedgerMode, Present
    <2>3. \A s \in Present(stash) : source[s] = stash[s]
      BY <2>1, <2>2, DoneCatchesUp DEF AgreeInv, CatchesUp, RunMode, LedgerMode
    <2>4. Present(stash) \subseteq Present(source)
      BY <2>3 DEF Present
    <2>5. Cardinality(Present(stash)) \in Nat /\ Cardinality(Present(source)) \in Nat
          /\ ~(Cardinality(Present(source)) > Cardinality(Present(stash)))
      BY <1>0, <2>2, FS_CardinalityType DEF CountsSuggestDeletions
    <2>6. SUFFICES ASSUME Present(stash) # Present(source) PROVE FALSE
      OBVIOUS
    <2>7. Cardinality(Present(stash)) < Cardinality(Present(source))
      <3>1. Present(stash) \in SUBSET Present(source) /\ Present(stash) # Present(source)
        BY <2>4, <2>6
      <3>. QED
        BY <1>0, <2>5, <3>1, FS_Subset
    <2>. QED
      BY <2>5, <2>7
  <1>3. CASE SweepPage
    <2> DEFINE items == IdPage(sweep.page)
               present == sweep.present \union items
    <2>1. UNCHANGED <<stash, touched, task>>
      BY <1>3 DEF SweepPage, remoteVars
    <2>2. CASE items = {} \/ Cardinality(present) >= Cardinality(Present(stash))
      <3>1. present = Present(stash)
        BY <1>3, <2>2, SweepMeetsAll DEF DropInv
      <3>2. source' = IF present = {} THEN source ELSE Keep(present)
        BY <1>3, <2>2 DEF SweepPage
      <3>3. Present(stash) # {} => Present(source') \subseteq Present(stash)
        <4> HIDE DEF present
        <4>. QED
          BY <3>1, <3>2 DEF Keep, Present, Absent
      <3>4. Present(source)' = Present(source') /\ Present(stash)' = Present(stash)
        BY <2>1 DEF Present
      <3>. QED
        BY <3>3, <3>4 DEF NothingLeft, DropsDeleted
    <2>3. CASE ~(items = {} \/ Cardinality(present) >= Cardinality(Present(stash)))
      BY <1>3, <2>3 DEF SweepPage, NothingLeft
    <2>. QED
      BY <2>2, <2>3
  <1>4. CASE Reconcile
    <2>1. UNCHANGED <<stash, touched, task>> /\ task = "full" /\ source' = Keep(seen)
      BY <1>4 DEF Reconcile, remoteVars, TypesInv, Runs
    <2>2. touched["full"] = {} => seen \subseteq Present(stash)
      BY DEF AgreeInv, SeenAgree
    <2>3. Present(source') \subseteq seen
      BY <2>1 DEF Keep, Present, Absent
    <2>4. Present(source)' = Present(source') /\ Present(stash)' = Present(stash)
      BY <2>1 DEF Present
    <2>. QED
      BY <2>1, <2>2, <2>3, <2>4 DEF NothingLeft, DropsDeleted, RunMode, LedgerMode
  <1>5. CASE \/ \E t \in Task : BeginSync(t)
             \/ SavePage \/ FinishRun \/ SyncFails
    <2>1. pc' # "finish"
      BY <1>5 DEF BeginSync, SavePage, FinishRun, SyncFails
    <2>. QED
      BY <2>1 DEF NothingLeft
  <1>6. CASE PrepareEntity \/ CompleteEntity
    <2>1. UNCHANGED task /\ task \in Task
      BY <1>6 DEF PrepareEntity, CompleteEntity, TypesInv, Runs
    <2>2. pc' = "finish" => task = "plays"
      BY <1>6, <2>1 DEF PrepareEntity, CompleteEntity, EndPass, AfterPasses, Task, TypesInv, Runs
    <2>. QED
      BY <2>1, <2>2 DEF NothingLeft, DropsDeleted
  <1>7. CASE UNCHANGED vars
    BY <1>7 DEF vars, remoteVars, localVars, workerVars, AgreeInv, NothingLeft, DropsDeleted,
       Present, RunMode
  <1>. QED
    BY <1>1, <1>2, <1>3, <1>4, <1>5, <1>6, <1>7 DEF Next, Sync

\* A sync that completes leaves what Stash had (finishRun), for any library and
\* page sizes, however often it is interrupted and resumed, if only plays come
\* during a full run and no deletion during an incremental one: it has copied
\* every scene Stash left alone since the run began, and if Stash stood still
\* it keeps none that Stash deleted before.
THEOREM CompletedSyncsAgree ==
  FullOnlyPlays /\ IncrementalOnlyGrows => (Spec => CompleteSyncAgrees)
  <1> DEFINE Inv == TypesInv /\ DropInv /\ MarkInv /\ AgreeInv
  <1>1. Init => Inv
    BY TypesInvInit, DropInvInit, MarkInvInit, AgreeInvInit
  <1>2. SUFFICES ASSUME FullOnlyPlays, IncrementalOnlyGrows
                 PROVE  Spec => CompleteSyncAgrees
    OBVIOUS
  <1>3. Inv /\ [Next]_vars => Inv'
    <2>1. FullStandsStill
      BY <1>2 DEF FullOnlyPlays, FullStandsStill
    <2>2. SUFFICES ASSUME Inv, [Next]_vars PROVE Inv'
      OBVIOUS
    <2>3. TypesInv' /\ DropInv' /\ MarkInv'
      BY <1>2, <2>1, <2>2, TypesInvStep, DropInvStep, MarkInvStep
    <2>4. NeverAhead' /\ SeenAgree' /\ PassesDone'
      BY <2>2, NeverAheadStep, SeenAgreeStep, PassesDoneStep DEF AgreeInv
    <2>5. \A p \in Pass : ReadSoFar(p)'
      BY <2>2, ReadSoFarStep DEF AgreeInv
    <2>6. NothingLeft'
      BY <1>2, <2>2, NothingLeftStep
    <2>. QED
      BY <2>3, <2>4, <2>5, <2>6 DEF AgreeInv
  <1>4. Inv /\ pc = "finish" => CatchesUp /\ DropsDeleted
    BY DoneCatchesUp DEF AgreeInv, NothingLeft
  <1>5. Inv /\ [Next]_vars
          => [pc = "finish" /\ open' # open => CatchesUp /\ DropsDeleted]_vars
    BY <1>4
  <1>. QED
    BY <1>1, <1>3, <1>5, PTL DEF Spec, CompleteSyncAgrees
=============================================================================
