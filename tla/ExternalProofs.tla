--------------------------- MODULE ExternalProofs ---------------------------
(***************************************************************************)
(* Proofs about what a process of the plugin meets outside itself: the     *)
(* cache of a stash-box and its order, the links of Stash, the matches of  *)
(* its scenes, Whisparr, the identities queries share and the pace of      *)
(* requests; for any scenes, stash-boxes, clients, requests and bounds.    *)
(* Each component is proved about by itself; MCExternal moves them all.    *)
(***************************************************************************)
EXTENDS MCExternal, FiniteSetTheorems, SequenceTheorems, NaturalsInduction, WellFoundedInduction, TLAPS

-----------------------------------------------------------------------------
(* The cache of a stash-box.                                               *)

Entities == [pool : {"candidate", "explore"}, version : Nat, model : Nat, by : {"refresh", "hunt"}]
FetchedFields == {"pc", "endpoint", "at", "model", "seeds", "last", "since", "cutoff", "changed",
                  "rows", "short"}

CacheTyped ==
  cache # NoCache =>
    /\ cache.endpoint \in Endpoint
    /\ cache.fetched \in StartAt..now
    /\ cache.cutoff \in Int /\ cache.cutoff + Horizon <= now
    /\ cache.model \in Nat

\* A refresh at work: its time, its model, and what it starts from.
RefreshTyped ==
  \/ refresh = NoRefresh
  \/ /\ refresh.pc \in {"begun", "fetched", "written", "rescoring"}
     /\ refresh.endpoint \in Endpoint /\ refresh.at \in StartAt..now /\ refresh.model \in Nat
     /\ refresh.pc # "begun" => DOMAIN refresh = FetchedFields
     /\ refresh.pc \in {"begun", "fetched"} =>
          /\ refresh.since \in Nat
          /\ cache # NoCache => refresh.last = cache.model
          /\ refresh.since > 0 => /\ cache # NoCache
                                  /\ cache.endpoint = refresh.endpoint
                                  /\ refresh.since = cache.fetched - Slack
     /\ refresh.pc = "fetched" =>
          /\ refresh.short \in BOOLEAN
          /\ refresh.cutoff \in Int /\ refresh.cutoff + Horizon <= now
          /\ cache # NoCache => cache.cutoff <= refresh.cutoff
          /\ \A x \in DOMAIN refresh.rows : refresh.rows[x] \in Nat

TypeOKRefresh ==
  /\ now \in Nat /\ now >= StartAt /\ published \in Nat
  /\ upstream \in [External -> [version : Nat, stamp : Int]]
  /\ pool \in [External -> {NoEntity} \cup Entities]
  /\ truncated \in BOOLEAN /\ unscored \in BOOLEAN
  /\ CacheTyped /\ RefreshTyped
  /\ hunt # NoHunt => hunt.model \in Nat /\ \A x \in DOMAIN hunt.rows : hunt.rows[x] \in Nat

\* What changed since a fetch bears a stamp the next one walks back to.
ChangesAreLate ==
  /\ cache # NoCache => \A x \in changed : upstream[x].stamp > cache.fetched - Slack
  /\ refresh.pc = "fetched" => /\ refresh.changed \subseteq External
                                /\ \A x \in refresh.changed : upstream[x].stamp > refresh.at - Slack
  /\ changed \subseteq External

\* What a scene must be to belong into the cache.
Belongs(x, seeds, cutoff) ==
  upstream[x].version > 0 /\ SeedsOf[x] \cap seeds # {} /\ RecentScene(x, cutoff) /\ x \notin Owned

\* What a fetch brought is current, and what it did not bring is cached already.
FetchIsWhole ==
  refresh.pc = "fetched" =>
    \A x \in Lists[refresh.endpoint] \ refresh.changed :
      /\ x \in DOMAIN refresh.rows => refresh.rows[x] = upstream[x].version
      /\ ~refresh.short /\ Belongs(x, refresh.seeds, refresh.cutoff) =>
           \/ x \in DOMAIN refresh.rows
           \/ refresh.since > 0 /\ x \notin changed /\ SeedsOf[x] \cap cache.seeds # {}

\* Until the cached candidates are rescored, that is known to be missing.
RescoringIsDue ==
  /\ refresh.pc \in {"written", "rescoring"} =>
       unscored /\ cache # NoCache /\ refresh.model = cache.model
  /\ refresh.pc = "rescoring" => \A x \in External : Candidate(x) => x \in refresh.rows

RefreshInv ==
  /\ TypeOKRefresh
  /\ ChangesAreLate
  /\ FetchIsWhole
  /\ RescoringIsDue
  /\ RefreshCatchesUp
  /\ ScoresAreOfOneModel

LEMMA Nobodies ==
  /\ NoRefresh.pc = "idle" /\ NoEntity.pool = "none" /\ NoEntity \notin Entities
  /\ \A e \in Entities : e # NoEntity
  BY DEF NoRefresh, NoEntity, Entities

LEMMA ExpandParameters ==
  /\ Slack \in Nat \ {0} /\ StartAt \in Nat \ {0} /\ Horizon \in Nat \ {0} /\ StartAt > Slack
  /\ \A e \in Endpoint : Lists[e] \subseteq External
  /\ \A x \in External : Release[x] \in Int
  BY ExpandAssumption

LEMMA RefreshInit == InitRefresh => RefreshInv
<1> SUFFICES ASSUME InitRefresh PROVE RefreshInv
  OBVIOUS
<1>1. TypeOKRefresh
  <2>1. upstream \in [External -> [version : Nat, stamp : Int]]
    BY DEF InitRefresh
  <2>2. pool \in [External -> {NoEntity} \cup Entities]
    BY DEF InitRefresh
  <2>3. /\ now = StartAt /\ published = 1 /\ truncated = FALSE /\ unscored = FALSE
        /\ cache = NoCache /\ refresh = NoRefresh /\ hunt = NoHunt
    BY DEF InitRefresh
  <2>4. CacheTyped /\ RefreshTyped
    BY <2>3 DEF CacheTyped, RefreshTyped
  <2>5. now \in Nat /\ now >= StartAt /\ published \in Nat
    BY <2>3, ExpandParameters
  <2> QED BY <2>1, <2>2, <2>3, <2>4, <2>5, Zenon DEF TypeOKRefresh
<1>2. refresh.pc = "idle" /\ cache = NoCache /\ \A x \in External : ~Candidate(x)
  BY Nobodies DEF InitRefresh, Candidate
<1> QED BY <1>1, <1>2 DEF InitRefresh, RefreshInv, ChangesAreLate, FetchIsWhole, RescoringIsDue,
        RefreshCatchesUp, ScoresAreOfOneModel

-----------------------------------------------------------------------------
(* The stash-box changes.                                                  *)

LEMMA UpstreamChangesKeeps ==
  ASSUME RefreshInv, NEW y \in External, NEW behind \in 0..(Slack - 1), UpstreamChanges(y, behind)
  PROVE  RefreshInv'
<1> USE DEF RefreshInv
<1>1. /\ upstream' = [upstream EXCEPT ![y] = [version |-> upstream[y].version + 1, stamp |-> now - behind]]
      /\ changed' = changed \cup {y}
      /\ UNCHANGED <<now, published, pool, cache, hunt, drafts, truncated, unscored>>
      /\ refresh.pc # "fetched" => refresh' = refresh
      /\ refresh.pc = "fetched" => refresh' = [refresh EXCEPT !.changed = @ \cup {y}]
  BY DEF UpstreamChanges
<1>2. /\ upstream' \in [External -> [version : Nat, stamp : Int]]
      /\ upstream'[y].stamp = now - behind
      /\ \A x \in External \ {y} : upstream'[x] = upstream[x]
  BY <1>1, ExpandParameters DEF TypeOKRefresh
<1>3. CASE refresh.pc = "fetched"
  <2>1. DOMAIN refresh = FetchedFields /\ refresh # NoRefresh
    BY <1>3, Nobodies DEF TypeOKRefresh, RefreshTyped
  <2>2. /\ DOMAIN refresh' = FetchedFields
        /\ refresh'.pc = refresh.pc /\ refresh'.endpoint = refresh.endpoint /\ refresh'.at = refresh.at
        /\ refresh'.model = refresh.model /\ refresh'.seeds = refresh.seeds /\ refresh'.last = refresh.last
        /\ refresh'.since = refresh.since /\ refresh'.cutoff = refresh.cutoff
        /\ refresh'.rows = refresh.rows /\ refresh'.short = refresh.short
        /\ refresh'.changed = refresh.changed \cup {y}
    BY <1>1, <1>3, <2>1 DEF FetchedFields
  <2>3. TypeOKRefresh'
    BY <1>1, <1>2, <1>3, <2>1, <2>2 DEF TypeOKRefresh, CacheTyped, RefreshTyped
  <2>4. ChangesAreLate'
    BY <1>1, <1>2, <1>3, <2>1, <2>2, ExpandParameters DEF ChangesAreLate, TypeOKRefresh, CacheTyped,
       RefreshTyped
  <2>5. Lists[refresh.endpoint] \subseteq External
    BY <1>3, <2>1, ExpandParameters DEF TypeOKRefresh, RefreshTyped
  <2>6. FetchIsWhole'
    BY <1>1, <1>2, <1>3, <2>2, <2>5 DEF FetchIsWhole, Belongs, RecentScene
  <2>7. RescoringIsDue' /\ ScoresAreOfOneModel'
    BY <1>1, <1>3, <2>2 DEF RescoringIsDue, ScoresAreOfOneModel, Candidate
  <2>8. RefreshCatchesUp'
    BY <1>1, <1>2, ExpandParameters DEF RefreshCatchesUp, RecentScene, TypeOKRefresh, CacheTyped
  <2> QED BY <2>3, <2>4, <2>6, <2>7, <2>8
<1>4. CASE refresh.pc # "fetched"
  <2>1. TypeOKRefresh'
    BY <1>1, <1>2, <1>4 DEF TypeOKRefresh, CacheTyped, RefreshTyped
  <2>2. ChangesAreLate'
    BY <1>1, <1>2, <1>4, ExpandParameters DEF ChangesAreLate, TypeOKRefresh, CacheTyped
  <2>3. FetchIsWhole' /\ RescoringIsDue' /\ ScoresAreOfOneModel'
    BY <1>1, <1>4 DEF FetchIsWhole, RescoringIsDue, ScoresAreOfOneModel, Candidate
  <2>4. RefreshCatchesUp'
    BY <1>1, <1>2, ExpandParameters DEF RefreshCatchesUp, RecentScene, TypeOKRefresh, CacheTyped
  <2> QED BY <2>1, <2>2, <2>3, <2>4
<1> QED BY <1>3, <1>4

-----------------------------------------------------------------------------
(* A refresh.                                                              *)

LEMMA BeginRefreshKeeps ==
  ASSUME RefreshInv, NEW e \in Endpoint, NEW seeds, NEW forceFull \in BOOLEAN,
         BeginRefresh(e, seeds, forceFull)
  PROVE  RefreshInv'
<1> USE DEF RefreshInv
<1> DEFINE incremental == /\ ~forceFull
                          /\ cache # NoCache
                          /\ cache.endpoint = e
                          /\ e \in Updatable
                          /\ now - cache.full < FullEvery
           since == IF incremental THEN cache.fetched - Slack ELSE 0
           last == IF cache = NoCache THEN 0 ELSE cache.model
           r == [pc |-> "begun", endpoint |-> e, at |-> now, model |-> published,
                 seeds |-> seeds, since |-> since, last |-> last]
<1>1. refresh' = r /\ UNCHANGED <<now, inputs, pool, cache, hunt, history>>
  BY DEF BeginRefresh
<1>2. /\ refresh'.pc = "begun" /\ refresh'.endpoint = e /\ refresh'.at = now
      /\ refresh'.model = published /\ refresh'.since = since /\ refresh'.last = last
  BY <1>1
<1>3. /\ incremental => cache # NoCache /\ cache.endpoint = e
      /\ incremental => since = cache.fetched - Slack
      /\ ~incremental => since = 0
      /\ cache # NoCache => last = cache.model
  OBVIOUS
<1> HIDE DEF since, last, incremental, r
<1>4. since \in Nat
  BY <1>3, ExpandParameters DEF TypeOKRefresh, CacheTyped
<1>5. RefreshTyped'
  BY <1>1, <1>2, <1>3, <1>4, ExpandParameters DEF TypeOKRefresh, RefreshTyped
<1>6. TypeOKRefresh'
  BY <1>1, <1>5 DEF TypeOKRefresh, CacheTyped, inputs, history
<1>7. refresh = NoRefresh
  BY DEF BeginRefresh
<1>8. ScoresAreOfOneModel'
  BY <1>1, <1>2, <1>7, Nobodies DEF ScoresAreOfOneModel, Candidate, history
<1>9. RefreshCatchesUp'
  BY <1>1 DEF RefreshCatchesUp, RecentScene, inputs, history
<1> QED BY <1>1, <1>2, <1>6, <1>8, <1>9 DEF ChangesAreLate, FetchIsWhole, RescoringIsDue, inputs, history

LEMMA FetchKeeps ==
  ASSUME RefreshInv, NEW since \in 0..LastAt, Fetch(since)
  PROVE  RefreshInv'
<1> USE DEF RefreshInv
<1> DEFINE e == refresh.endpoint
           known == Known(since)
           fresh == refresh.seeds \ known
           short(rows) == \/ ~Matching(e, fresh) \subseteq rows
                          \/ \E x \in Matching(e, known) \ rows : upstream[x].stamp > since
           taken(rows) == {y \in rows : RecentScene(y, now - Horizon) /\ y \notin Owned}
<1>1. /\ refresh.pc = "begun" /\ since \in {refresh.since, 0}
      /\ UNCHANGED <<now, inputs, pool, cache, hunt, drafts, history>>
  BY DEF Fetch
<1>2. PICK rows \in FetchProbes(e, known, fresh, since) :
        refresh' = [pc |-> "fetched", endpoint |-> e, at |-> refresh.at,
                    model |-> refresh.model, seeds |-> refresh.seeds, last |-> refresh.last,
                    since |-> since, cutoff |-> now - Horizon, changed |-> {},
                    rows |-> [x \in taken(rows) |-> upstream[x].version],
                    short |-> short(rows)]
  BY DEF Fetch
<1>3. /\ refresh'.pc = "fetched" /\ refresh'.endpoint = e /\ refresh'.at = refresh.at
      /\ refresh'.model = refresh.model /\ refresh'.seeds = refresh.seeds /\ refresh'.last = refresh.last
      /\ refresh'.since = since /\ refresh'.cutoff = now - Horizon /\ refresh'.changed = {}
      /\ refresh'.rows = [x \in taken(rows) |-> upstream[x].version]
      /\ refresh'.short = short(rows)
      /\ DOMAIN refresh' = FetchedFields
  BY <1>2 DEF FetchedFields
<1>4. refresh # NoRefresh /\ since \in Nat
  BY <1>1, Nobodies, ExpandAssumption
<1>5. e \in Endpoint /\ Lists[e] \subseteq External
  BY <1>1, <1>4, ExpandParameters DEF TypeOKRefresh, RefreshTyped
<1>6. since > 0 => /\ cache # NoCache /\ cache.endpoint = e /\ since = cache.fetched - Slack
                   /\ known \subseteq cache.seeds
  BY <1>1, <1>4 DEF TypeOKRefresh, RefreshTyped, Known
<1>7. rows \subseteq External
  <2>1. PICK a \in FetchUpdatedSince(e, known, since), b \in FetchParallel(e, fresh, Half),
              c \in FetchParallel(e, fresh, Half) : rows = a \cup b \cup c
    <3> HIDE DEF known, fresh, e
    <3>1. rows \in FetchProbes(e, known, fresh, since)
      BY <1>2
    <3> QED BY <3>1, SMT DEF FetchProbes
  <2>2. a \subseteq Matching(e, known) /\ b \subseteq Matching(e, fresh) /\ c \subseteq Matching(e, fresh)
    BY DEF FetchUpdatedSince, FetchParallel
  <2> QED BY <1>5, <2>1, <2>2 DEF Matching
<1>8. RefreshTyped'
  <2>1. /\ refresh'.endpoint \in Endpoint /\ refresh'.at \in (StartAt..now)' /\ refresh'.model \in Nat
    BY <1>1, <1>3, <1>4 DEF TypeOKRefresh, RefreshTyped
  <2>2. /\ cache' # NoCache' => refresh'.last = cache'.model
        /\ refresh'.since > 0 => /\ cache' # NoCache' /\ cache'.endpoint = refresh'.endpoint
                                 /\ refresh'.since = cache'.fetched - Slack
    BY <1>1, <1>3, <1>4, <1>6 DEF TypeOKRefresh, RefreshTyped, NoCache
  <2>3. refresh'.short \in BOOLEAN
    BY <1>3, Zenon
  <2>4. /\ refresh'.cutoff \in Int /\ refresh'.cutoff + Horizon <= now'
        /\ cache' # NoCache' => cache'.cutoff <= refresh'.cutoff
    BY <1>1, <1>3, ExpandParameters DEF TypeOKRefresh, CacheTyped, NoCache
  <2>5. \A x \in DOMAIN refresh'.rows : refresh'.rows[x] \in Nat
    BY <1>3, <1>7 DEF TypeOKRefresh
  <2> QED BY <1>3, <1>4, <2>1, <2>2, <2>3, <2>4, <2>5 DEF RefreshTyped
<1>9. TypeOKRefresh'
  BY <1>1, <1>8 DEF TypeOKRefresh, CacheTyped, inputs, history
<1>10. ChangesAreLate'
  BY <1>1, <1>3 DEF ChangesAreLate, inputs, history
<1>11. FetchIsWhole'
  <2>2. ASSUME NEW x \in Lists[e], ~short(rows), Belongs(x, refresh.seeds, now - Horizon),
               x \notin taken(rows)
        PROVE  since > 0 /\ x \notin changed /\ SeedsOf[x] \cap cache.seeds # {}
    <3>1. x \notin rows
      BY <2>2 DEF Belongs
    <3>2. x \notin Matching(e, fresh)
      BY <2>2, <3>1
    <3>3. SeedsOf[x] \cap fresh = {} /\ SeedsOf[x] \cap known # {}
      BY <2>2, <3>2 DEF Belongs, Matching
    <3>4. x \in Matching(e, known)
      BY <2>2, <3>3 DEF Belongs, Matching
    <3>5. since > 0
      BY <1>4, <3>3 DEF Known
    <3>6. ~(upstream[x].stamp > since)
      BY <2>2, <3>1, <3>4
    <3>7. x \notin changed
      BY <1>6, <3>5, <3>6 DEF ChangesAreLate
    <3> QED BY <1>6, <3>3, <3>5, <3>7
  <2>3. /\ upstream' = upstream /\ cache' = cache /\ changed' = changed
        /\ \A x \in Lists[e] : x \in DOMAIN refresh'.rows => refresh'.rows[x] = upstream[x].version
        /\ DOMAIN refresh'.rows = taken(rows)
    BY <1>1, <1>3 DEF inputs, history
  <2> HIDE DEF known, fresh, short, taken
  <2> QED BY <1>3, <2>2, <2>3 DEF FetchIsWhole, Belongs, RecentScene
<1>12. ScoresAreOfOneModel' /\ RescoringIsDue'
  BY <1>1, <1>3 DEF ScoresAreOfOneModel, RescoringIsDue, Candidate, history
<1>13. RefreshCatchesUp'
  BY <1>1 DEF RefreshCatchesUp, RecentScene, inputs, history
<1> QED BY <1>9, <1>10, <1>11, <1>12, <1>13

-----------------------------------------------------------------------------
(* The write of a refresh, and the rescoring after it.                     *)

\* What is cached of a scene after the write transaction.
LEMMA KeptOrFetched ==
  ASSUME RefreshInv, refresh.pc = "fetched", NEW x \in External
  PROVE  /\ Kept(x) \in {NoEntity} \cup Entities
         /\ Kept(x) # NoEntity =>
              \/ /\ x \in DOMAIN refresh.rows /\ Kept(x).version = refresh.rows[x]
                 /\ Kept(x).model = refresh.model /\ Kept(x).by = "refresh"
              \/ x \notin DOMAIN refresh.rows /\ cache # NoCache /\ Kept(x) = pool[x]
         /\ RecentScene(x, refresh.cutoff) /\ x \in DOMAIN refresh.rows => Kept(x) # NoEntity
         /\ RecentScene(x, refresh.cutoff) /\ x \notin DOMAIN refresh.rows
              /\ cache # NoCache /\ cache.endpoint = refresh.endpoint => Kept(x) = pool[x]
<1> DEFINE new == [pool |-> "candidate", version |-> refresh.rows[x], model |-> refresh.model, by |-> "refresh"]
<1>1. /\ refresh # NoRefresh /\ pool[x] \in {NoEntity} \cup Entities /\ refresh.model \in Nat
      /\ x \in DOMAIN refresh.rows => refresh.rows[x] \in Nat
  BY Nobodies DEF RefreshInv, TypeOKRefresh, RefreshTyped
<1>2. /\ x \in DOMAIN refresh.rows => new \in Entities
      /\ new.version = refresh.rows[x] /\ new.model = refresh.model /\ new.by = "refresh"
  BY <1>1 DEF Entities
<1>3. /\ x \in DOMAIN refresh.rows => Refreshed(x) = new
      /\ x \notin DOMAIN refresh.rows => Refreshed(x) = Cleared(x)
  BY DEF Refreshed
<1>4. Kept(x) = Refreshed(x) \/ Kept(x) = NoEntity
  BY DEF Kept
<1>5. RecentScene(x, refresh.cutoff) => Kept(x) = Refreshed(x)
  BY DEF Kept
<1>6. /\ Cleared(x) = NoEntity \/ (cache # NoCache /\ Cleared(x) = pool[x])
      /\ cache # NoCache /\ cache.endpoint = refresh.endpoint => Cleared(x) = pool[x]
  BY DEF Cleared
<1> HIDE DEF new
<1> QED BY <1>1, <1>2, <1>3, <1>4, <1>5, <1>6, Nobodies

LEMMA WriteRefreshKeeps ==
  ASSUME RefreshInv, WriteRefresh
  PROVE  RefreshInv'
<1> DEFINE full == IF refresh.since > 0 THEN cache.full ELSE refresh.at
           written == [endpoint |-> refresh.endpoint, model |-> refresh.model, fetched |-> refresh.at,
                       seeds |-> refresh.seeds, cutoff |-> refresh.cutoff, full |-> full]
<1>1. /\ refresh.pc = "fetched" /\ pool' = [x \in External |-> Kept(x)] /\ cache' = written
      /\ changed' = refresh.changed
      /\ truncated' = (refresh.short \/ (refresh.since > 0 /\ truncated))
      /\ unscored' = (ModelChanged \/ unscored)
      /\ ModelChanged => refresh' = [refresh EXCEPT !.pc = "written"]
      /\ ~ModelChanged => refresh' = NoRefresh
      /\ now' = now /\ upstream' = upstream /\ published' = published /\ hunt' = hunt
  BY DEF WriteRefresh, inputs
<1>2. /\ TypeOKRefresh /\ ChangesAreLate /\ FetchIsWhole /\ RefreshCatchesUp /\ ScoresAreOfOneModel
      /\ refresh # NoRefresh /\ DOMAIN refresh = FetchedFields
  BY <1>1, Nobodies DEF RefreshInv, TypeOKRefresh, RefreshTyped
<1>3. /\ refresh.endpoint \in Endpoint /\ refresh.at \in StartAt..now /\ refresh.model \in Nat
      /\ refresh.since \in Nat /\ refresh.short \in BOOLEAN
      /\ cache # NoCache => refresh.last = cache.model /\ cache.cutoff <= refresh.cutoff
                            /\ cache.cutoff \in Int
      /\ refresh.since > 0 => cache # NoCache /\ cache.endpoint = refresh.endpoint
      /\ refresh.cutoff \in Int /\ refresh.cutoff + Horizon <= now
  BY <1>1, <1>2 DEF TypeOKRefresh, RefreshTyped, CacheTyped
<1>4. /\ cache'.endpoint = refresh.endpoint /\ cache'.model = refresh.model /\ cache'.fetched = refresh.at
      /\ cache'.seeds = refresh.seeds /\ cache'.cutoff = refresh.cutoff
      /\ DOMAIN cache' # {"endpoint"}
  BY <1>1
<1>5. cache' # NoCache
  BY <1>4 DEF NoCache
<1>6. ModelChanged => refresh'.pc = "written" /\ refresh'.endpoint = refresh.endpoint /\ refresh'.at = refresh.at
                      /\ refresh'.model = refresh.model /\ DOMAIN refresh' = FetchedFields
  BY <1>1, <1>2 DEF FetchedFields
<1>7. ~ModelChanged => refresh'.pc = "idle"
  BY <1>1, Nobodies
<1> HIDE DEF full, written
<1>8. /\ pool' \in [External -> {NoEntity} \cup Entities]
      /\ \A x \in External : pool'[x] = Kept(x)
  BY <1>1, KeptOrFetched
<1>9. RefreshTyped'
  <2>1. CASE ModelChanged
    BY <1>1, <1>3, <1>6, <2>1 DEF RefreshTyped
  <2>2. CASE ~ModelChanged
    BY <1>1, <2>2 DEF RefreshTyped, NoRefresh
  <2> QED BY <2>1, <2>2
<1>10. CacheTyped'
  BY <1>1, <1>3, <1>4 DEF CacheTyped
<1>11. truncated' \in BOOLEAN /\ unscored' \in BOOLEAN
  BY <1>1, <1>2, <1>3, Zenon DEF TypeOKRefresh, ModelChanged
<1>12. TypeOKRefresh'
  <2>1. (hunt # NoHunt => hunt.model \in Nat /\ \A x \in DOMAIN hunt.rows : hunt.rows[x] \in Nat)'
    BY <1>1, <1>2 DEF TypeOKRefresh, NoHunt
  <2>2. (/\ now \in Nat /\ now >= StartAt /\ published \in Nat
         /\ upstream \in [External -> [version : Nat, stamp : Int]])'
    BY <1>1, <1>2 DEF TypeOKRefresh
  <2> QED BY <1>8, <1>9, <1>10, <1>11, <2>1, <2>2, Zenon DEF TypeOKRefresh, Entities, NoEntity
<1>13. refresh'.pc # "fetched"
  BY <1>6, <1>7
<1>14. ChangesAreLate'
  <2>1. refresh.changed \subseteq External
    BY <1>1, <1>2 DEF ChangesAreLate
  <2> QED BY <1>1, <1>2, <1>4, <1>13, <2>1 DEF ChangesAreLate
<1>15. FetchIsWhole'
  BY <1>13 DEF FetchIsWhole
<1>16. RescoringIsDue'
  BY <1>1, <1>4, <1>5, <1>6, <1>7 DEF RescoringIsDue
<1>17. ScoresAreOfOneModel'
  <2> SUFFICES ASSUME refresh'.pc \notin {"written", "rescoring"}, ~unscored',
                      NEW x \in External, pool'[x].pool = "candidate", pool'[x].by = "refresh"
               PROVE  pool'[x].model = cache'.model
    BY DEF ScoresAreOfOneModel, Candidate
  <2>1. ~ModelChanged /\ ~unscored
    BY <1>1, <1>6
  <2>2. Kept(x) # NoEntity
    BY <1>8, Nobodies
  <2>3. CASE Kept(x).model = refresh.model
    BY <1>4, <1>8, <2>3
  <2>4. CASE cache # NoCache /\ Kept(x) = pool[x]
    BY <1>1, <1>2, <1>3, <1>4, <1>8, <2>1, <2>4 DEF ModelChanged, ScoresAreOfOneModel, Candidate
  <2> QED BY <1>1, <2>2, <2>3, <2>4, KeptOrFetched
<1>18. RefreshCatchesUp'
  <2> SUFFICES ASSUME ~truncated', NEW x \in Lists[refresh.endpoint] \ refresh.changed,
                      Belongs(x, refresh.seeds, refresh.cutoff)
               PROVE  /\ pool'[x] # NoEntity
                      /\ pool'[x].by = "refresh" => pool'[x].version = upstream[x].version
    BY <1>1, <1>4 DEF RefreshCatchesUp, Belongs, RecentScene, NoEntity
  <2>1. x \in External /\ ~refresh.short /\ (refresh.since > 0 => ~truncated)
    BY <1>1, <1>3, ExpandParameters
  <2>2. RecentScene(x, refresh.cutoff)
    BY DEF Belongs
  <2>3. CASE x \in DOMAIN refresh.rows
    <3>1. refresh.rows[x] = upstream[x].version
      BY <1>1, <1>2, <2>3 DEF FetchIsWhole
    <3>2. Kept(x) # NoEntity /\ Kept(x).version = refresh.rows[x]
      BY <1>1, <2>1, <2>2, <2>3, KeptOrFetched
    <3> QED BY <1>8, <2>1, <3>1, <3>2
  <2>4. CASE x \notin DOMAIN refresh.rows
    <3>1. refresh.since > 0 /\ x \notin changed /\ SeedsOf[x] \cap cache.seeds # {}
      BY <1>1, <1>2, <2>1, <2>4 DEF FetchIsWhole
    <3>2. RecentScene(x, cache.cutoff)
      BY <1>3, <2>1, <2>2, <3>1, ExpandParameters DEF RecentScene
    <3>3. pool[x] # NoEntity /\ (pool[x].by = "refresh" => pool[x].version = upstream[x].version)
      BY <1>2, <1>3, <2>1, <3>1, <3>2 DEF RefreshCatchesUp, Belongs
    <3>4. Kept(x) = pool[x]
      BY <1>1, <1>3, <2>1, <2>2, <2>4, <3>1, KeptOrFetched
    <3> QED BY <1>8, <2>1, <3>3, <3>4
  <2> QED BY <2>3, <2>4
<1> QED BY <1>12, <1>14, <1>15, <1>16, <1>17, <1>18 DEF RefreshInv

LEMMA ReadCandidatesKeeps ==
  ASSUME RefreshInv, ReadCandidates
  PROVE  RefreshInv'
<1> USE DEF RefreshInv
<1>1. /\ refresh.pc = "written" /\ now' = now /\ upstream' = upstream /\ published' = published
      /\ pool' = pool /\ cache' = cache /\ hunt' = hunt
      /\ changed' = changed /\ truncated' = truncated /\ unscored' = unscored
      /\ refresh' = [[refresh EXCEPT !.pc = "rescoring"] EXCEPT !.rows = {x \in External : Candidate(x)}]
  BY DEF ReadCandidates, inputs, history
<1>2. refresh # NoRefresh /\ DOMAIN refresh = FetchedFields
  BY <1>1, Nobodies DEF TypeOKRefresh, RefreshTyped
<1>3. /\ refresh'.pc = "rescoring" /\ refresh'.endpoint = refresh.endpoint /\ refresh'.at = refresh.at
      /\ refresh'.model = refresh.model /\ DOMAIN refresh' = FetchedFields
      /\ refresh'.rows = {x \in External : Candidate(x)}
  BY <1>1, <1>2 DEF FetchedFields
<1>4. TypeOKRefresh'
  BY <1>1, <1>2, <1>3 DEF TypeOKRefresh, RefreshTyped, CacheTyped
<1>5. RescoringIsDue' /\ ScoresAreOfOneModel'
  BY <1>1, <1>3 DEF RescoringIsDue, ScoresAreOfOneModel, Candidate
<1>6. ChangesAreLate' /\ FetchIsWhole' /\ RefreshCatchesUp'
  BY <1>1, <1>3 DEF ChangesAreLate, FetchIsWhole, RefreshCatchesUp, RecentScene
<1> QED BY <1>4, <1>5, <1>6

LEMMA RescoreCandidatesKeeps ==
  ASSUME RefreshInv, RescoreCandidates
  PROVE  RefreshInv'
<1> USE DEF RefreshInv
<1> DEFINE new(x) == IF x \in refresh.rows /\ pool[x] # NoEntity
                     THEN [pool[x] EXCEPT !.model = refresh.model] ELSE pool[x]
<1>1. /\ refresh.pc = "rescoring" /\ now' = now /\ upstream' = upstream /\ published' = published
      /\ pool' = [x \in External |-> new(x)] /\ cache' = cache /\ hunt' = hunt
      /\ changed' = changed /\ truncated' = truncated /\ unscored' = FALSE
      /\ refresh' = NoRefresh /\ refresh'.pc = "idle"
  BY Nobodies DEF RescoreCandidates, inputs
<1>2. refresh.model = cache.model /\ refresh.model \in Nat
      /\ \A x \in External : Candidate(x) => x \in refresh.rows
  BY <1>1, Nobodies DEF RescoringIsDue, TypeOKRefresh, RefreshTyped
<1>3. ASSUME NEW x \in External
      PROVE  /\ pool'[x] = new(x) /\ new(x) \in {NoEntity} \cup Entities
             /\ pool[x] = NoEntity => new(x) = NoEntity
             /\ pool[x] # NoEntity => /\ new(x) # NoEntity
                                      /\ new(x).version = pool[x].version /\ new(x).by = pool[x].by
                                      /\ new(x).pool = pool[x].pool
                                      /\ Candidate(x) => new(x).model = refresh.model
  <2>1. pool'[x] = new(x)
    BY <1>1
  <2>2. pool[x] \in {NoEntity} \cup Entities
    BY DEF TypeOKRefresh
  <2>3. CASE pool[x] = NoEntity
    BY <2>1, <2>3
  <2>4. CASE pool[x] \in Entities
    BY <1>2, <2>1, <2>4, Nobodies DEF Entities
  <2> QED BY <2>2, <2>3, <2>4
<1>4. pool' \in [External -> {NoEntity} \cup Entities]
  BY <1>1, <1>3
<1> HIDE DEF new
<1>5. TypeOKRefresh'
  BY <1>1, <1>4 DEF TypeOKRefresh, RefreshTyped, CacheTyped
<1>6. ScoresAreOfOneModel'
  BY <1>1, <1>2, <1>3, Nobodies DEF ScoresAreOfOneModel, Candidate
<1>7. RefreshCatchesUp'
  <2>1. cache # NoCache => Lists[cache.endpoint] \subseteq External
    BY ExpandParameters DEF TypeOKRefresh, CacheTyped
  <2> QED BY <1>1, <1>3, <2>1 DEF RefreshCatchesUp, RecentScene
<1> QED BY <1>1, <1>5, <1>6, <1>7 DEF ChangesAreLate, FetchIsWhole, RescoringIsDue

LEMMA RefreshStopsKeeps ==
  ASSUME RefreshInv, RefreshStops
  PROVE  RefreshInv'
<1> USE DEF RefreshInv
<1>1. /\ now' = now /\ upstream' = upstream /\ published' = published
      /\ pool' = pool /\ cache' = cache /\ hunt' = hunt
      /\ changed' = changed /\ truncated' = truncated /\ unscored' = unscored
      /\ refresh' = NoRefresh /\ refresh'.pc = "idle"
  BY Nobodies DEF RefreshStops, inputs, history
<1>2. TypeOKRefresh'
  BY <1>1 DEF TypeOKRefresh, RefreshTyped, CacheTyped
<1>3. ScoresAreOfOneModel'
  BY <1>1 DEF ScoresAreOfOneModel, Candidate, RescoringIsDue
<1>4. RefreshCatchesUp'
  BY <1>1 DEF RefreshCatchesUp, RecentScene
<1> QED BY <1>1, <1>2, <1>3, <1>4 DEF ChangesAreLate, FetchIsWhole, RescoringIsDue

-----------------------------------------------------------------------------
(* A hunt, the clock and the model.                                        *)

LEMMA BeginHuntKeeps ==
  ASSUME RefreshInv, NEW e \in Endpoint, NEW seed \in Seed, BeginHunt(e, seed)
  PROVE  RefreshInv'
<1> USE DEF RefreshInv
<1>1. PICK rows \in FetchParallel(e, {seed}, PerSource) :
        hunt' = [pc |-> "fetched", model |-> published, rows |-> [x \in rows |-> upstream[x].version]]
  BY DEF BeginHunt
<1>2. /\ now' = now /\ upstream' = upstream /\ published' = published
      /\ pool' = pool /\ cache' = cache /\ refresh' = refresh
      /\ changed' = changed /\ truncated' = truncated /\ unscored' = unscored
  BY DEF BeginHunt, inputs, history
<1>3. rows \subseteq External
  BY ExpandParameters DEF FetchParallel, Matching
<1>4. hunt'.model \in Nat /\ \A x \in DOMAIN hunt'.rows : hunt'.rows[x] \in Nat
  BY <1>1, <1>3 DEF TypeOKRefresh
<1>5. TypeOKRefresh'
  BY <1>2, <1>4 DEF TypeOKRefresh, RefreshTyped, CacheTyped
<1> QED BY <1>2, <1>5 DEF ChangesAreLate, FetchIsWhole, RescoringIsDue, RefreshCatchesUp, ScoresAreOfOneModel,
        Belongs, RecentScene, Candidate

LEMMA MergeExternalKeeps ==
  ASSUME RefreshInv, MergeExternal
  PROVE  RefreshInv'
<1> USE DEF RefreshInv
<1> DEFINE new(x) == IF x \in DOMAIN hunt.rows
                     THEN [pool |-> IF Candidate(x) THEN "candidate" ELSE "explore",
                           version |-> hunt.rows[x], model |-> hunt.model, by |-> "hunt"]
                     ELSE pool[x]
<1>1. /\ now' = now /\ upstream' = upstream /\ published' = published
      /\ cache' = cache /\ refresh' = refresh /\ hunt # NoHunt /\ hunt' = NoHunt
      /\ changed' = changed /\ truncated' = truncated /\ unscored' = unscored
      /\ pool' = [x \in External |-> new(x)]
  BY DEF MergeExternal, inputs, history
<1>2. ASSUME NEW x \in External
      PROVE  /\ pool'[x] = new(x) /\ new(x) \in {NoEntity} \cup Entities
             /\ pool[x] # NoEntity => new(x) # NoEntity
             /\ new(x) = pool[x] \/ new(x).by = "hunt"
             /\ new(x).pool = "candidate" => Candidate(x)
  <2>1. pool'[x] = new(x) /\ pool[x] \in {NoEntity} \cup Entities
    BY <1>1 DEF TypeOKRefresh
  <2>2. CASE x \notin DOMAIN hunt.rows
    BY <2>1, <2>2 DEF Candidate
  <2>3. CASE x \in DOMAIN hunt.rows
    <3>1. hunt.rows[x] \in Nat /\ hunt.model \in Nat
      BY <1>1, <2>3 DEF TypeOKRefresh
    <3>2. new(x) \in Entities /\ new(x).by = "hunt" /\ (new(x).pool = "candidate" => Candidate(x))
      BY <2>3, <3>1 DEF Entities
    <3> QED BY <2>1, <3>2, Nobodies
  <2> QED BY <2>2, <2>3
<1>3. pool' \in [External -> {NoEntity} \cup Entities]
  BY <1>1, <1>2
<1> HIDE DEF new
<1>4. TypeOKRefresh'
  BY <1>1, <1>3 DEF TypeOKRefresh, RefreshTyped, CacheTyped
<1>5. ScoresAreOfOneModel'
  BY <1>1, <1>2 DEF ScoresAreOfOneModel, Candidate
<1>6. RefreshCatchesUp'
  <2>1. cache # NoCache => Lists[cache.endpoint] \subseteq External
    BY ExpandParameters DEF TypeOKRefresh, CacheTyped
  <2> QED BY <1>1, <1>2, <2>1 DEF RefreshCatchesUp, RecentScene
<1>7. RescoringIsDue'
  BY <1>1, <1>2 DEF RescoringIsDue, Candidate
<1> QED BY <1>1, <1>4, <1>5, <1>6, <1>7 DEF ChangesAreLate, FetchIsWhole, Belongs, RecentScene

LEMMA TimePassesKeeps ==
  ASSUME RefreshInv, TimePasses \/ ModelPublished
  PROVE  RefreshInv'
<1> USE DEF RefreshInv
<1>1. /\ now' \in Nat /\ now' >= now /\ published' \in Nat /\ upstream' = upstream
      /\ pool' = pool /\ cache' = cache /\ refresh' = refresh /\ hunt' = hunt
      /\ changed' = changed /\ truncated' = truncated /\ unscored' = unscored
  BY DEF TimePasses, ModelPublished, inputs, history, TypeOKRefresh
<1>2. /\ \A t \in StartAt..now : t \in StartAt..now'
      /\ \A t \in Int : t + Horizon <= now => t + Horizon <= now'
  <2>1. now' >= now /\ now \in Nat /\ now' \in Nat
    BY <1>1 DEF TypeOKRefresh
  <2>2. StartAt \in Int /\ Horizon \in Int
    BY ExpandParameters
  <2>3. ASSUME NEW t \in StartAt..now PROVE t \in StartAt..now'
    BY <2>1, <2>2
  <2>4. ASSUME NEW t \in Int, t + Horizon <= now PROVE t + Horizon <= now'
    BY <2>1, <2>2, <2>4
  <2> QED BY <2>3, <2>4
<1>3. CacheTyped'
  BY <1>1, <1>2 DEF TypeOKRefresh, CacheTyped
<1>4. RefreshTyped'
  BY <1>1, <1>2 DEF TypeOKRefresh, RefreshTyped
<1>5. TypeOKRefresh'
  BY <1>1, <1>3, <1>4, ExpandParameters DEF TypeOKRefresh
<1> QED BY <1>1, <1>5 DEF ChangesAreLate, FetchIsWhole, RescoringIsDue, RefreshCatchesUp, ScoresAreOfOneModel,
        Belongs, RecentScene, Candidate

LEMMA RefreshStep == RefreshInv /\ [NextRefresh]_refreshVars => RefreshInv'
<1> SUFFICES ASSUME RefreshInv, [NextRefresh]_refreshVars PROVE RefreshInv'
  OBVIOUS
<1>1. ASSUME NEW x \in External, NEW behind \in 0..(Slack - 1), UpstreamChanges(x, behind)
      PROVE  RefreshInv'
  BY <1>1, UpstreamChangesKeeps
<1>2. ASSUME NEW e \in Endpoint, NEW seeds \in SUBSET Seed \ {{}}, NEW forceFull \in BOOLEAN,
             BeginRefresh(e, seeds, forceFull)
      PROVE  RefreshInv'
  BY <1>2, BeginRefreshKeeps
<1>3. ASSUME NEW since \in 0..LastAt, Fetch(since) PROVE RefreshInv'
  BY <1>3, FetchKeeps
<1>4. CASE WriteRefresh \/ ReadCandidates \/ RescoreCandidates \/ RefreshStops
  BY <1>4, WriteRefreshKeeps, ReadCandidatesKeeps, RescoreCandidatesKeeps, RefreshStopsKeeps
<1>5. ASSUME NEW e \in Endpoint, NEW seed \in Seed, BeginHunt(e, seed) PROVE RefreshInv'
  BY <1>5, BeginHuntKeeps
<1>6. CASE MergeExternal \/ TimePasses \/ ModelPublished
  BY <1>6, MergeExternalKeeps, TimePassesKeeps
<1>7. CASE UNCHANGED refreshVars
  BY <1>7 DEF refreshVars, inputs, history, RefreshInv, TypeOKRefresh, CacheTyped, RefreshTyped,
     ChangesAreLate,
     FetchIsWhole, RescoringIsDue, RefreshCatchesUp, ScoresAreOfOneModel, Belongs, RecentScene, Candidate
<1> QED BY <1>1, <1>2, <1>3, <1>4, <1>5, <1>6, <1>7 DEF NextRefresh

\* A refresh that walks back to its watermark catches up with the stash-box.
THEOREM RefreshAlwaysCatchesUp == SpecRefresh => []RefreshCatchesUp
<1>1. SpecRefresh => []RefreshInv
  BY RefreshInit, RefreshStep, PTL DEF SpecRefresh
<1>2. RefreshInv => RefreshCatchesUp
  BY DEF RefreshInv
<1> QED BY <1>1, <1>2, PTL

\* The scores a refresh leaves were given under one model.
THEOREM ScoresStayOfOneModel == SpecRefresh => []ScoresAreOfOneModel
<1>1. SpecRefresh => []RefreshInv
  BY RefreshInit, RefreshStep, PTL DEF SpecRefresh
<1>2. RefreshInv => ScoresAreOfOneModel
  BY DEF RefreshInv
<1> QED BY <1>1, <1>2, PTL

-----------------------------------------------------------------------------
(* The cached order of the pages.                                          *)

IsCandidate(rows, x) == rows[x].pool = "candidate"

RowsTyped ==
  /\ revision \in Nat /\ selected \in Box
  /\ entity \in [Listing -> {NotCached} \cup [pool : {"candidate", "explore"}, stamp : Nat]]

\* A candidate bears the stamp of a revision that is over.
StampsAreOld == \A x \in Listing : IsCandidate(entity, x) => entity[x].stamp < revision

\* A page request read a revision there was; nothing is a candidate if the
\* endpoint changed since and the revision did not.
ViewsAreOld ==
  view # NoView =>
    /\ view.rev \in 0..revision /\ view.box \in Box
    /\ view.rev = revision /\ cached # view.box => \A x \in Listing : ~IsCandidate(entity, x)

\* The cached order is the one of its revision.
OrderIsOfItsRevision ==
  order # NoOrder =>
    /\ order.for # NoView /\ order.for.rev \in 0..revision /\ order.for.box \in Box
    /\ order.for.rev = revision => order.ids = Rank(entity, order.for.box, order.for)

PagesInv == RowsTyped /\ StampsAreOld /\ ViewsAreOld /\ OrderIsOfItsRevision

LEMMA NotCachedIsNone == NotCached.pool = "none" /\ NoView.rev = 0 - 1 /\ NoOrder.for = NoView
  BY DEF NotCached, NoView, NoOrder

LEMMA PagesInit == InitPages => PagesInv
<1> SUFFICES ASSUME InitPages PROVE PagesInv
  OBVIOUS
<1>1. \A x \in Listing : ~IsCandidate(entity, x)
  BY NotCachedIsNone DEF InitPages, IsCandidate
<1> QED BY <1>1 DEF InitPages, PagesInv, RowsTyped, StampsAreOld, ViewsAreOld, OrderIsOfItsRevision

\* What is not revised has the same candidates, and so the same order.
LEMMA RevisedOrSame ==
  ASSUME RowsTyped, NEW rows, Revised(rows) = revision
  PROVE  \A x \in Listing : IsCandidate(entity, x) \/ IsCandidate(rows, x) => rows[x] = entity[x]
  BY DEF RowsTyped, Revised, IsCandidate

LEMMA SameCandidatesSameOrder ==
  ASSUME NEW rows, NEW other, NEW e \in Box, NEW filters,
         \A x \in Listing : IsCandidate(rows, x) \/ IsCandidate(other, x) => rows[x] = other[x]
  PROVE  Rank(rows, e, filters) = Rank(other, e, filters)
<1> DEFINE R == {y \in Carries[e] : rows[y].pool = "candidate" /\ y \notin filters.hidden \cup filters.linked}
           O == {y \in Carries[e] : other[y].pool = "candidate" /\ y \notin filters.hidden \cup filters.linked}
<1>1. Carries[e] \subseteq Listing
  BY PagesAssumption
<1>2. R = O
  BY <1>1 DEF IsCandidate
<1>3. \A x \in R : rows[x] = other[x]
  BY <1>1 DEF IsCandidate
<1>4. /\ Rank(rows, e, filters) = [x \in R |-> <<rows[x].stamp, x \in filters.disliked>>]
      /\ Rank(other, e, filters) = [x \in O |-> <<other[x].stamp, x \in filters.disliked>>]
  BY DEF Rank
<1> HIDE DEF R, O
<1>5. [x \in R |-> <<rows[x].stamp, x \in filters.disliked>>] =
        [x \in R |-> <<other[x].stamp, x \in filters.disliked>>]
  BY <1>3
<1> QED BY <1>2, <1>4, <1>5

\* Rows that come, change and go leave what is read true, or make it old.
LEMMA CommitsKeep ==
  ASSUME PagesInv, NEW fresh, fresh \subseteq Listing,
         entity' \in [Listing -> {NotCached} \cup [pool : {"candidate", "explore"}, stamp : Nat]],
         \A x \in Listing : IsCandidate(entity', x) =>
           IF x \in fresh THEN entity'[x].stamp = revision ELSE cached' = cached /\ entity'[x] = entity[x],
         revision' = Revised(entity'),
         UNCHANGED <<selected, order, view>>
  PROVE  PagesInv'
<1> USE DEF PagesInv
<1>1. revision \in Nat /\ revision' \in {revision, revision + 1}
  BY DEF Revised, RowsTyped
<1>2. RowsTyped'
  BY <1>1 DEF RowsTyped, NotCached
<1>3. ASSUME NEW x \in Listing, IsCandidate(entity', x)
      PROVE  entity'[x].stamp < revision'
  <2>1. CASE x \in fresh
    <3>1. entity'[x].stamp = revision
      BY <1>3, <2>1
    <3>2. entity'[x] # entity[x]
      BY <3>1, <1>1, <1>3 DEF StampsAreOld, IsCandidate
    <3>3. revision' = revision + 1
      BY <1>3, <3>2 DEF Revised, IsCandidate
    <3> QED BY <1>1, <3>1, <3>3
  <2>2. CASE x \notin fresh
    <3>1. entity'[x] = entity[x]
      BY <1>3, <2>2
    <3>2. entity[x].pool = "candidate"
      BY <1>3, <3>1 DEF IsCandidate
    <3>3. entity[x].stamp \in Nat /\ entity[x].stamp < revision
      BY <3>2, NotCachedIsNone DEF StampsAreOld, IsCandidate, RowsTyped
    <3> QED BY <1>1, <3>1, <3>3
  <2> QED BY <2>1, <2>2
<1>4. StampsAreOld'
  BY <1>3 DEF StampsAreOld, IsCandidate
<1>5. ASSUME revision' = revision
      PROVE  /\ \A x \in Listing : IsCandidate(entity, x) \/ IsCandidate(entity', x) => entity'[x] = entity[x]
             /\ cached' # cached => \A x \in Listing : ~IsCandidate(entity, x) /\ ~IsCandidate(entity', x)
  <2>1. \A x \in Listing : IsCandidate(entity, x) \/ IsCandidate(entity', x) => entity'[x] = entity[x]
    BY <1>5, RevisedOrSame
  <2>2. ASSUME NEW x \in Listing, IsCandidate(entity', x), cached' # cached
        PROVE  FALSE
    <3>1. entity'[x].stamp = revision
      BY <2>2
    <3> QED BY <1>1, <1>3, <1>5, <2>2, <3>1
  <2> QED BY <2>1, <2>2 DEF IsCandidate
<1>6. ViewsAreOld'
  BY <1>1, <1>5 DEF ViewsAreOld, IsCandidate, NoView
<1>7. OrderIsOfItsRevision'
  <2> SUFFICES ASSUME order # NoOrder
               PROVE  /\ order.for # NoView /\ order.for.rev \in 0..revision' /\ order.for.box \in Box
                      /\ order.for.rev = revision' => order.ids = Rank(entity', order.for.box, order.for)
    BY DEF OrderIsOfItsRevision, NoOrder, NoView, Rank
  <2>1. /\ order.for # NoView /\ order.for.rev \in 0..revision /\ order.for.box \in Box
        /\ order.for.rev = revision => order.ids = Rank(entity, order.for.box, order.for)
    BY DEF OrderIsOfItsRevision
  <2>2. CASE revision' = revision
    <3>1. Rank(entity', order.for.box, order.for) = Rank(entity, order.for.box, order.for)
      BY <1>5, <2>1, <2>2, SameCandidatesSameOrder
    <3> QED BY <2>1, <2>2, <3>1
  <2>3. CASE revision' = revision + 1
    BY <1>1, <2>1, <2>3
  <2> QED BY <1>1, <2>2, <2>3
<1> QED BY <1>2, <1>4, <1>6, <1>7

LEMMA RefreshCommitsKeeps ==
  ASSUME PagesInv, NEW e \in Box, NEW xs \in SUBSET Carries[e], NEW gone \in SUBSET xs,
         RefreshCommits([x \in xs |-> IF x \in gone THEN NotCached ELSE Stamped("candidate")], e)
  PROVE  PagesInv'
<1> DEFINE rows == [x \in xs |-> IF x \in gone THEN NotCached ELSE Stamped("candidate")]
           new(x) == IF x \in xs THEN rows[x] ELSE IF e = cached THEN entity[x] ELSE NotCached
<1>1. /\ entity' = [x \in Listing |-> new(x)]
      /\ revision' = Revised(entity') /\ cached' = e
      /\ UNCHANGED <<selected, order, view>>
  BY DEF RefreshCommits
<1>2. /\ \A x \in xs : rows[x] = NotCached \/ rows[x] = Stamped("candidate")
      /\ Stamped("candidate") \in [pool : {"candidate", "explore"}, stamp : Nat]
      /\ Stamped("candidate").stamp = revision
      /\ entity \in [Listing -> {NotCached} \cup [pool : {"candidate", "explore"}, stamp : Nat]]
  BY DEF Stamped, PagesInv, RowsTyped
<1> HIDE DEF rows
<1>3. \A x \in Listing : entity'[x] = new(x)
  BY <1>1
<1>4. \A x \in Listing : new(x) \in {NotCached} \cup [pool : {"candidate", "explore"}, stamp : Nat]
  BY <1>2
<1>5. entity' \in [Listing -> {NotCached} \cup [pool : {"candidate", "explore"}, stamp : Nat]]
  BY <1>1, <1>4
<1>6. ASSUME NEW x \in Listing, IsCandidate(entity', x)
      PROVE  IF x \in xs THEN entity'[x].stamp = revision ELSE cached' = cached /\ entity'[x] = entity[x]
  <2>1. new(x) # NotCached /\ entity'[x] = new(x)
    BY <1>3, <1>6, NotCachedIsNone DEF IsCandidate
  <2> QED BY <1>1, <1>2, <2>1
<1>7. xs \subseteq Listing
  BY PagesAssumption
<1> QED BY <1>1, <1>5, <1>6, <1>7, CommitsKeep

LEMMA HuntCommitsKeeps ==
  ASSUME PagesInv, NEW e \in Box, NEW xs \in SUBSET Carries[e],
         HuntCommits([x \in xs |-> Stamped("explore")])
  PROVE  PagesInv'
<1> DEFINE rows == [x \in xs |-> Stamped("explore")]
           new(x) == IF x \notin xs THEN entity[x]
                     ELSE IF entity[x].pool = "candidate" THEN [rows[x] EXCEPT !.pool = "candidate"] ELSE rows[x]
<1>1. /\ entity' = [x \in Listing |-> new(x)]
      /\ revision' = Revised(entity') /\ cached' = cached
      /\ UNCHANGED <<selected, order, view>>
  BY DEF HuntCommits
<1>2. /\ \A x \in xs : rows[x] = Stamped("explore")
      /\ Stamped("explore") \in [pool : {"candidate", "explore"}, stamp : Nat]
      /\ Stamped("explore").stamp = revision
      /\ entity \in [Listing -> {NotCached} \cup [pool : {"candidate", "explore"}, stamp : Nat]]
  BY DEF Stamped, PagesInv, RowsTyped
<1> HIDE DEF rows
<1>3. \A x \in Listing : entity'[x] = new(x)
  BY <1>1
<1>4. ASSUME NEW x \in Listing
      PROVE  /\ new(x) \in {NotCached} \cup [pool : {"candidate", "explore"}, stamp : Nat]
             /\ IF x \in xs THEN new(x).stamp = revision ELSE new(x) = entity[x]
  BY <1>2
<1>5. entity' \in [Listing -> {NotCached} \cup [pool : {"candidate", "explore"}, stamp : Nat]]
  BY <1>1, <1>4
<1>6. \A x \in Listing :
        IF x \in xs THEN entity'[x].stamp = revision ELSE cached' = cached /\ entity'[x] = entity[x]
  BY <1>1, <1>3, <1>4
<1>7. xs \subseteq Listing
  BY PagesAssumption
<1> QED BY <1>1, <1>5, <1>6, <1>7, CommitsKeep

\* The user's marks, the library and the settings are no part of an order.
LEMMA MarksKeep ==
  ASSUME PagesInv, selected' \in Box, UNCHANGED <<cached, entity, revision, order, view>>
  PROVE  PagesInv'
  BY DEF PagesInv, RowsTyped, StampsAreOld, ViewsAreOld, OrderIsOfItsRevision, IsCandidate, Rank,
     NotCached, NoView, NoOrder

LEMMA PageRequestsKeep ==
  ASSUME PagesInv,
         \/ \E hideDismissed \in BOOLEAN : OpenPage(hideDismissed)
         \/ ServeCachedPage \/ ServeRankedPage
  PROVE  PagesInv'
<1> USE DEF PagesInv
<1>1. /\ selected' = selected /\ cached' = cached /\ entity' = entity /\ revision' = revision
      /\ revision \in Nat /\ selected \in Box
  BY DEF OpenPage, ServeCachedPage, ServeRankedPage, RowsTyped
<1>2. RowsTyped' /\ StampsAreOld'
  BY <1>1 DEF RowsTyped, StampsAreOld, IsCandidate, NotCached
<1>3. ASSUME NEW hideDismissed \in BOOLEAN, OpenPage(hideDismissed) PROVE PagesInv'
  <2>1. view'.rev = revision /\ view'.box = selected /\ cached = selected /\ order' = order
    BY <1>3 DEF OpenPage
  <2>2. ViewsAreOld'
    BY <1>1, <2>1 DEF ViewsAreOld
  <2>3. OrderIsOfItsRevision'
    BY <1>1, <2>1 DEF OrderIsOfItsRevision, NoOrder, NoView, Rank
  <2> QED BY <1>2, <2>2, <2>3
<1>4. CASE ServeCachedPage
  <2>1. view' = NoView /\ order' = order
    BY <1>4 DEF ServeCachedPage
  <2>2. ViewsAreOld'
    BY <2>1 DEF ViewsAreOld, NoView
  <2>3. OrderIsOfItsRevision'
    BY <1>1, <2>1 DEF OrderIsOfItsRevision, NoOrder, NoView, Rank
  <2> QED BY <1>2, <2>2, <2>3
<1>5. CASE ServeRankedPage
  <2> DEFINE ids == IF cached = view.box THEN Rank(entity, view.box, view) ELSE << >>
  <2>1. view # NoView /\ view' = NoView /\ order' = [for |-> view, ids |-> ids]
    BY <1>5 DEF ServeRankedPage
  <2>2. order'.for = view /\ order'.ids = ids
    BY <2>1
  <2>3. ViewsAreOld'
    BY <2>1 DEF ViewsAreOld, NoView
  <2>4. ASSUME view.rev = revision, cached # view.box
        PROVE  << >> = Rank(entity, view.box, view)
    <3>1. Carries[view.box] \subseteq Listing
      BY <2>1, PagesAssumption DEF ViewsAreOld
    <3>2. {y \in Carries[view.box] : /\ entity[y].pool = "candidate"
                                     /\ y \notin view.hidden \cup view.linked} = {}
      BY <2>1, <2>4, <3>1 DEF ViewsAreOld, IsCandidate
    <3> QED BY <3>2 DEF Rank
  <2>5. view.rev = revision => ids = Rank(entity, view.box, view)
    BY <2>4
  <2> HIDE DEF ids
  <2>6. OrderIsOfItsRevision'
    BY <1>1, <2>1, <2>2, <2>5 DEF OrderIsOfItsRevision, ViewsAreOld, Rank, NoView
  <2> QED BY <1>2, <2>3, <2>6
<1> QED BY <1>3, <1>4, <1>5

LEMMA PagesStep == PagesInv /\ [NextPages]_pageVars => PagesInv'
<1> SUFFICES ASSUME PagesInv, [NextPages]_pageVars PROVE PagesInv'
  OBVIOUS
<1>0. selected \in Box
  BY DEF PagesInv, RowsTyped
<1>1. ASSUME NEW e \in Box, NEW xs \in SUBSET Carries[e], NEW gone \in SUBSET xs,
             RefreshCommits([x \in xs |-> IF x \in gone THEN NotCached ELSE Stamped("candidate")], e)
      PROVE  PagesInv'
  BY <1>1, RefreshCommitsKeeps
<1>2. ASSUME NEW e \in Box, NEW xs \in SUBSET Carries[e], HuntCommits([x \in xs |-> Stamped("explore")])
      PROVE  PagesInv'
  BY <1>2, HuntCommitsKeeps
<1>3. ASSUME NEW x \in Marked, UpdateShortlist(x) \/ DismissalExpires(x) \/ LibraryChanges(x)
      PROVE  PagesInv'
  BY <1>0, <1>3, MarksKeep DEF UpdateShortlist, DismissalExpires, LibraryChanges
<1>4. ASSUME NEW batch \in SUBSET Marked, NEW kind \in {"no", "not_interested", "not_now"},
             UpdateExternalDismissal(batch, kind)
      PROVE  PagesInv'
  BY <1>0, <1>4, MarksKeep DEF UpdateExternalDismissal
<1>5. ASSUME NEW scenes \in SUBSET Marked, UpdatePerformerDislike(scenes) PROVE PagesInv'
  BY <1>0, <1>5, MarksKeep DEF UpdatePerformerDislike
<1>6. ASSUME NEW e \in Box, SelectEndpoint(e) PROVE PagesInv'
  BY <1>6, MarksKeep DEF SelectEndpoint
<1>7. CASE \/ \E hideDismissed \in BOOLEAN : OpenPage(hideDismissed)
           \/ ServeCachedPage \/ ServeRankedPage
  BY <1>7, PageRequestsKeep
<1>8. CASE UNCHANGED pageVars
  BY <1>0, <1>8, MarksKeep DEF pageVars
<1> QED BY <1>1, <1>2, <1>3, <1>4, <1>5, <1>6, <1>7, <1>8 DEF NextPages

LEMMA FreshByInv == PagesInv => CachedOrderIsFresh
<1> SUFFICES ASSUME PagesInv, view # NoView, ServesCached
             PROVE  order.ids = Rank(entity, view.box, view)
  BY DEF CachedOrderIsFresh
<1>1. order.for = view /\ revision = view.rev /\ order # NoOrder
  BY NotCachedIsNone DEF ServesCached
<1> QED BY <1>1 DEF PagesInv, OrderIsOfItsRevision

\* A page that is served from the cached order shows what ranking the pool
\* anew would show, however many stash-boxes and writers there are.
THEOREM CachedPagesAreFresh == SpecPages => []CachedOrderIsFresh
<1>1. SpecPages => []PagesInv
  BY PagesInit, PagesStep, PTL DEF SpecPages
<1> QED BY <1>1, FreshByInv, PTL

-----------------------------------------------------------------------------
(* The matches of a scene.                                                *)

LEMMA IdleIsIdle == Idle.pc = "idle"
  BY DEF Idle

\* Revisions are given once, and nobody refreshes an index that is not filled.
ReadersInOrder ==
  /\ DOMAIN reader = Request
  /\ hooks \in Nat /\ revisions \in Nat /\ pending \in 0..revisions
  /\ \A r \in Request :
       /\ reader[r].pc \in {"idle", "filled", "ready", "pending", "fetched"}
       /\ ~ready => reader[r].pc \in {"idle", "filled"}
       /\ reader[r].pc \in {"pending", "fetched"} => reader[r].rev \in 1..revisions

\* What a request has fetched is what Stash has, unless a hook says otherwise.
FetchedIsCurrent ==
  hooks = 0 =>
    \A r \in Request :
      /\ reader[r].pc = "filled" /\ ~ready /\ pending = 0 => reader[r].found = match
      /\ reader[r].pc = "fetched" /\ reader[r].rev = pending => reader[r].found = match

MatchInv == ReadersInOrder /\ FetchedIsCurrent /\ MatchesAreCurrent

LEMMA MatchInit == InitMatches => MatchInv
  BY IdleIsIdle DEF InitMatches, MatchInv, ReadersInOrder, FetchedIsCurrent, MatchesAreCurrent

LEMMA MatchStep ==
  ASSUME MatchInv, [NextMatches]_matchVars
  PROVE  MatchInv'
<1> USE DEF MatchInv
<1>1. CASE UNCHANGED matchVars
  BY <1>1 DEF ReadersInOrder, FetchedIsCurrent, MatchesAreCurrent, matchVars
<1>2. ASSUME NEW version \in 0..MaxMatch, StashChangesMatch(version)
      PROVE  MatchInv'
  <2>1. ReadersInOrder'
    BY <1>2, IdleIsIdle DEF StashChangesMatch, ReadersInOrder, FetchedIsCurrent, MatchesAreCurrent
  <2>2. FetchedIsCurrent'
    BY <1>2, IdleIsIdle DEF StashChangesMatch, ReadersInOrder, FetchedIsCurrent, MatchesAreCurrent
  <2>3. MatchesAreCurrent'
    BY <1>2, IdleIsIdle DEF StashChangesMatch, ReadersInOrder, FetchedIsCurrent, MatchesAreCurrent
  <2> QED BY <2>1, <2>2, <2>3
<1>3. ASSUME QueueLocalSceneMatch
      PROVE  MatchInv'
  <2>1. ReadersInOrder'
    BY <1>3, IdleIsIdle DEF QueueLocalSceneMatch, ReadersInOrder, FetchedIsCurrent, MatchesAreCurrent
  <2>2. FetchedIsCurrent'
    BY <1>3, IdleIsIdle DEF QueueLocalSceneMatch, ReadersInOrder, FetchedIsCurrent, MatchesAreCurrent
  <2>3. MatchesAreCurrent'
    BY <1>3, IdleIsIdle DEF QueueLocalSceneMatch, ReadersInOrder, FetchedIsCurrent, MatchesAreCurrent
  <2> QED BY <2>1, <2>2, <2>3
<1>4. ASSUME NEW r \in Request, BackfillFetch(r)
      PROVE  MatchInv'
  <2>0. \A q \in Request \ {r} : reader'[q] = reader[q]
    BY <1>4 DEF BackfillFetch, ReadersInOrder
  <2>1. ReadersInOrder'
    BY <1>4, <2>0, IdleIsIdle DEF BackfillFetch, ReadersInOrder, FetchedIsCurrent, MatchesAreCurrent
  <2>2. FetchedIsCurrent'
    BY <1>4, <2>0, IdleIsIdle DEF BackfillFetch, ReadersInOrder, FetchedIsCurrent, MatchesAreCurrent
  <2>3. MatchesAreCurrent'
    BY <1>4, <2>0, IdleIsIdle DEF BackfillFetch, ReadersInOrder, FetchedIsCurrent, MatchesAreCurrent
  <2> QED BY <2>1, <2>2, <2>3
<1>5. ASSUME NEW r \in Request, BackfillIndex(r)
      PROVE  MatchInv'
  <2>0. \A q \in Request \ {r} : reader'[q] = reader[q]
    BY <1>5 DEF BackfillIndex, ReadersInOrder
  <2>1. ReadersInOrder'
    BY <1>5, <2>0, IdleIsIdle DEF BackfillIndex, ReadersInOrder, FetchedIsCurrent, MatchesAreCurrent
  <2>2. FetchedIsCurrent'
    BY <1>5, <2>0, IdleIsIdle DEF BackfillIndex, ReadersInOrder, FetchedIsCurrent, MatchesAreCurrent
  <2>3. MatchesAreCurrent'
    BY <1>5, <2>0, IdleIsIdle DEF BackfillIndex, ReadersInOrder, FetchedIsCurrent, MatchesAreCurrent
  <2> QED BY <2>1, <2>2, <2>3
<1>6. ASSUME NEW r \in Request, ReadPending(r)
      PROVE  MatchInv'
  <2>0. \A q \in Request \ {r} : reader'[q] = reader[q]
    BY <1>6 DEF ReadPending, ReadersInOrder
  <2>1. ReadersInOrder'
    BY <1>6, <2>0, IdleIsIdle DEF ReadPending, ReadersInOrder, FetchedIsCurrent, MatchesAreCurrent
  <2>2. FetchedIsCurrent'
    BY <1>6, <2>0, IdleIsIdle DEF ReadPending, ReadersInOrder, FetchedIsCurrent, MatchesAreCurrent
  <2>3. MatchesAreCurrent'
    BY <1>6, <2>0, IdleIsIdle DEF ReadPending, ReadersInOrder, FetchedIsCurrent, MatchesAreCurrent
  <2> QED BY <2>1, <2>2, <2>3
<1>7. ASSUME NEW r \in Request, FetchPending(r)
      PROVE  MatchInv'
  <2>0. \A q \in Request \ {r} : reader'[q] = reader[q]
    BY <1>7 DEF FetchPending, ReadersInOrder
  <2>1. ReadersInOrder'
    BY <1>7, <2>0, IdleIsIdle DEF FetchPending, ReadersInOrder, FetchedIsCurrent, MatchesAreCurrent
  <2>2. FetchedIsCurrent'
    BY <1>7, <2>0, IdleIsIdle DEF FetchPending, ReadersInOrder, FetchedIsCurrent, MatchesAreCurrent
  <2>3. MatchesAreCurrent'
    BY <1>7, <2>0, IdleIsIdle DEF FetchPending, ReadersInOrder, FetchedIsCurrent, MatchesAreCurrent
  <2> QED BY <2>1, <2>2, <2>3
<1>8. ASSUME NEW r \in Request, RefreshPending(r)
      PROVE  MatchInv'
  <2>0. \A q \in Request \ {r} : reader'[q] = reader[q]
    BY <1>8 DEF RefreshPending, ReadersInOrder
  <2>1. ReadersInOrder'
    BY <1>8, <2>0, IdleIsIdle DEF RefreshPending, ReadersInOrder, FetchedIsCurrent, MatchesAreCurrent
  <2>2. FetchedIsCurrent'
    BY <1>8, <2>0, IdleIsIdle DEF RefreshPending, ReadersInOrder, FetchedIsCurrent, MatchesAreCurrent
  <2>3. MatchesAreCurrent'
    BY <1>8, <2>0, IdleIsIdle DEF RefreshPending, ReadersInOrder, FetchedIsCurrent, MatchesAreCurrent
  <2> QED BY <2>1, <2>2, <2>3
<1>9. ASSUME NEW r \in Request, ReaderFails(r)
      PROVE  MatchInv'
  <2>0. \A q \in Request \ {r} : reader'[q] = reader[q]
    BY <1>9 DEF ReaderFails, ReadersInOrder
  <2>1. ReadersInOrder'
    BY <1>9, <2>0, IdleIsIdle DEF ReaderFails, ReadersInOrder, FetchedIsCurrent, MatchesAreCurrent
  <2>2. FetchedIsCurrent'
    BY <1>9, <2>0, IdleIsIdle DEF ReaderFails, ReadersInOrder, FetchedIsCurrent, MatchesAreCurrent
  <2>3. MatchesAreCurrent'
    BY <1>9, <2>0, IdleIsIdle DEF ReaderFails, ReadersInOrder, FetchedIsCurrent, MatchesAreCurrent
  <2> QED BY <2>1, <2>2, <2>3
<1>10. ASSUME SyncFetchesPage
      PROVE  MatchInv'
  <2>1. ReadersInOrder'
    BY <1>10, IdleIsIdle DEF SyncFetchesPage, ReadersInOrder, FetchedIsCurrent, MatchesAreCurrent
  <2>2. FetchedIsCurrent'
    BY <1>10, IdleIsIdle DEF SyncFetchesPage, ReadersInOrder, FetchedIsCurrent, MatchesAreCurrent
  <2>3. MatchesAreCurrent'
    BY <1>10, IdleIsIdle DEF SyncFetchesPage, ReadersInOrder, FetchedIsCurrent, MatchesAreCurrent
  <2> QED BY <2>1, <2>2, <2>3
<1>11. ASSUME SyncSavesPage
      PROVE  MatchInv'
  <2>1. ReadersInOrder'
    BY <1>11, IdleIsIdle DEF SyncSavesPage, ReadersInOrder, FetchedIsCurrent, MatchesAreCurrent
  <2>2. FetchedIsCurrent'
    BY <1>11, IdleIsIdle DEF SyncSavesPage, ReadersInOrder, FetchedIsCurrent, MatchesAreCurrent
  <2>3. MatchesAreCurrent'
    BY <1>11, IdleIsIdle DEF SyncSavesPage, ReadersInOrder, FetchedIsCurrent, MatchesAreCurrent
  <2> QED BY <2>1, <2>2, <2>3
<1> QED BY <1>1, <1>2, <1>3, <1>4, <1>5, <1>6, <1>7, <1>8, <1>9, <1>10, <1>11 DEF NextMatches

\* The fingerprints of a scene that requests share are those Stash has.
THEOREM MatchesStayCurrent == SpecMatches => []MatchesAreCurrent
<1>1. MatchInv => MatchesAreCurrent
  BY DEF MatchInv
<1> QED BY <1>1, MatchInit, MatchStep, PTL DEF SpecMatches

-----------------------------------------------------------------------------
(* The state Stash reports of its links.                                   *)

LEMMA Least ==
  ASSUME NEW S, S \subseteq Nat, S # {}
  PROVE  \E s \in S : \A r \in S : s <= r
<1>1. PICK s \in S : \A r \in S : <<r, s>> \notin OpToRel(<, Nat)
  BY NatLessThanWellFounded, WFMin
<1>2. \A r \in S : ~(r < s)
  BY <1>1 DEF OpToRel
<1> QED BY <1>2

LEMMA LatestStamp ==
  ASSUME NEW n \in Nat, NEW S, S \subseteq 0..n, S # {}
  PROVE  /\ Max(S) \in S
         /\ \A s \in S : s <= Max(S)
<1> DEFINE T == {t \in Nat : \E s \in S : t = n - s}
<1>1. T # {}
  <2>1. PICK s \in S : TRUE
    OBVIOUS
  <2>2. n - s \in T
    BY <2>1
  <2> QED BY <2>2
<1>2. PICK t \in T : \A u \in T : t <= u
  <2>1. T \subseteq Nat
    OBVIOUS
  <2> HIDE DEF T
  <2> QED BY <1>1, <2>1, Least
<1>3. PICK m \in S : t = n - m
  BY <1>2
<1>4. \A s \in S : n - s \in T /\ s \in 0..n
  OBVIOUS
<1>5. \A s \in S : s <= m
  <2> HIDE DEF T
  <2> QED BY <1>2, <1>3, <1>4
<1> QED BY <1>3, <1>5 DEF Max

LEMMA StateOfLinks ==
  ASSUME second \in Nat, links \in [Entity -> 0..second]
  PROVE  /\ Linked \subseteq Entity /\ IsFiniteSet(Linked) /\ Cardinality(Linked) \in Nat
         /\ State[1] = Cardinality(Linked)
         /\ State[2] \in 0..second
         /\ \A x \in Linked : links[x] <= State[2]
<1> DEFINE S == {links[x] : x \in Linked}
<1>1. Linked \subseteq Entity /\ IsFiniteSet(Linked) /\ Cardinality(Linked) \in Nat
  <2>1. Linked \in SUBSET Entity
    BY DEF Linked
  <2> QED BY <2>1, LinksAssumption, FS_Subset, FS_CardinalityType
<1>2. CASE Linked = {}
  BY <1>1, <1>2 DEF State
<1>3. CASE Linked # {}
  <2>1. S \subseteq 0..second /\ S # {}
    BY <1>1, <1>3
  <2>2. Max(S) \in S /\ \A s \in S : s <= Max(S)
    BY <2>1, LatestStamp
  <2>3. State[1] = Cardinality(Linked) /\ State[2] = Max(S)
    BY <1>3 DEF State
  <2> HIDE DEF S
  <2>4. \A x \in Linked : links[x] \in S
    BY DEF S
  <2> QED BY <1>1, <2>1, <2>2, <2>3, <2>4
<1> QED BY <1>2, <1>3

\* As many records as there are entities.
LEMMA RecordsOfFunction ==
  ASSUME NEW S, IsFiniteSet(S), NEW h
  PROVE  LET R == {<<x, h[x]>> : x \in S}
         IN IsFiniteSet(R) /\ Cardinality(R) = Cardinality(S)
<1> DEFINE R == {<<x, h[x]>> : x \in S}
           f == [x \in S |-> <<x, h[x]>>]
<1>1. f \in Bijection(S, R)
  BY DEF Bijection, Injection, Surjection, IsInjective
<1>2. ExistsBijection(S, R)
  BY <1>1 DEF ExistsBijection
<1> QED BY <1>2, FS_Bijection

\* Every linked entity has a place among the pages.
LEMMA PagesHoldAll ==
  ASSUME second \in Nat, links \in [Entity -> 0..second]
  PROVE  \A x \in Linked : \E o \in 1..Cardinality(Linked) : x \in At(o)
<1> SUFFICES ASSUME NEW x \in Linked
             PROVE  \E o \in 1..Cardinality(Linked) : x \in At(o)
  OBVIOUS
<1> DEFINE Y == {y \in Linked : y <= x}
<1>1. IsFiniteSet(Linked) /\ Y \in SUBSET Linked /\ Cardinality(Linked) \in Nat
  BY StateOfLinks
<1>2. IsFiniteSet(Y) /\ Cardinality(Y) <= Cardinality(Linked) /\ Cardinality(Y) \in Nat
  BY <1>1, FS_Subset, FS_CardinalityType
<1>3. x \in Y
  <2>1. x \in Nat
    BY StateOfLinks, LinksAssumption
  <2> QED BY <2>1
<1>4. Cardinality(Y) # 0
  BY <1>2, <1>3, FS_EmptySet
<1>5. x \in At(Cardinality(Y))
  BY DEF At
<1> HIDE DEF Y
<1>6. Cardinality(Y) \in 1..Cardinality(Linked)
  BY <1>1, <1>2, <1>4
<1> QED BY <1>5, <1>6

-----------------------------------------------------------------------------
(* The invariant.                                                          *)

Untouched == ~torn /\ ~blurred

\* Records that are as many as their state says, with every entity that was
\* not edited after that state.
LinkSnapshot(state, records) ==
  /\ IsFiniteSet(records) /\ Cardinality(records) = state[1]
  /\ \A x \in Linked : links[x] <= state[2] => Record(x) \in records

\* The first page of a walk: what it recorded of the entity.
FirstPage(state, records) ==
  \E g : /\ records = {<<x, g[x]>> : x \in At(1)}
         /\ \A x \in At(1) : links[x] <= state[2] => g[x] = links[x]

LinksTyped ==
  /\ second \in Nat /\ links \in [Entity -> 0..second] /\ DOMAIN job = Request
  /\ saved = Nothing \/ (saved.state[1] \in Nat /\ saved.state[2] \in 0..second)
  /\ \A r \in Request :
       \/ job[r] = Idle
       \/ /\ job[r].pc \in {"patch", "walk", "walking", "save"}
          /\ job[r].state[1] \in Nat /\ job[r].state[2] \in 0..second
          /\ job[r].pc = "patch" => saved # Nothing

SavedIsSnapshot == Untouched /\ saved # Nothing => LinkSnapshot(saved.state, saved.records)

JobsAreSnapshots ==
  Untouched =>
    \A r \in Request : job[r] # Idle =>
      /\ job[r].state[1] = Cardinality(Linked)
      /\ job[r].pc = "walking" => /\ job[r].pages = Cardinality(Linked)
                                  /\ FirstPage(job[r].state, job[r].records)
      /\ job[r].pc = "save" => LinkSnapshot(job[r].state, job[r].records)

LinksInv == LinksTyped /\ SavedIsSnapshot /\ JobsAreSnapshots

LEMMA LinksInit == InitLinks => LinksInv
  BY DEF InitLinks, LinksInv, LinksTyped, SavedIsSnapshot, JobsAreSnapshots

LEMMA LinksImply == LinksInv => LinksAreCurrent
<1> SUFFICES ASSUME LinksInv, Untouched, saved.state = State
             PROVE  saved.records = {Record(x) : x \in Linked}
  BY DEF LinksAreCurrent, Untouched
<1> DEFINE R == {<<x, links[x]>> : x \in Linked}
<1>1. /\ IsFiniteSet(Linked) /\ Cardinality(Linked) \in Nat
      /\ State[1] = Cardinality(Linked)
      /\ \A x \in Linked : links[x] <= State[2]
  BY StateOfLinks DEF LinksInv, LinksTyped
<1>2. saved # Nothing
  BY <1>1 DEF Nothing
<1>3. LinkSnapshot(saved.state, saved.records)
  BY <1>2 DEF LinksInv, SavedIsSnapshot
<1>4. R \subseteq saved.records
  BY <1>1, <1>3 DEF LinkSnapshot, Record
<1>5. IsFiniteSet(R) /\ Cardinality(R) = Cardinality(Linked)
  BY <1>1, RecordsOfFunction
<1> HIDE DEF R
<1>6. R = saved.records
  BY <1>1, <1>3, <1>4, <1>5, FS_Subset DEF LinkSnapshot
<1> QED BY <1>6 DEF R, Record

-----------------------------------------------------------------------------
(* Steps.                                                                  *)

\* What Stash did not edit is what it was.
LEMMA EditKeepsSnapshots ==
  ASSUME NEW e \in Entity, NEW stamp \in {0, second}, StashEdits(e, stamp), LinksTyped,
         NEW state, NEW records, state[2] \in 0..second, state[2] # second,
         LinkSnapshot(state, records)
  PROVE  LinkSnapshot(state, records)'
<1>1. links' = [links EXCEPT ![e] = stamp]
  BY DEF StashEdits
<1>2. \A x \in Linked' : links'[x] <= state[2] => x # e /\ x \in Linked /\ links'[x] = links[x]
  BY <1>1 DEF LinksTyped, Linked
<1> QED BY <1>2 DEF LinkSnapshot, Record

LEMMA EditStep ==
  ASSUME LinksInv, NEW e \in Entity, NEW stamp \in {0, second}, StashEdits(e, stamp)
  PROVE  LinksInv'
<1>1. /\ links' = [links EXCEPT ![e] = stamp]
      /\ second' = second /\ saved' = saved /\ job' = job
      /\ torn' = (torn \/ (0 \in {links[e], stamp} /\ \E r \in Request : job[r] # Idle))
      /\ blurred' = (blurred \/ InSecondRead)
  BY DEF StashEdits
<1>2. LinksTyped'
  BY <1>1 DEF LinksInv, LinksTyped, Idle, Nothing
<1>3. SUFFICES ASSUME Untouched'
               PROVE  SavedIsSnapshot' /\ JobsAreSnapshots'
  BY <1>2 DEF LinksInv, SavedIsSnapshot, JobsAreSnapshots
<1>4. Untouched /\ ~InSecondRead
  BY <1>1, <1>3 DEF Untouched
<1>5. SavedIsSnapshot'
  <2>1. CASE saved = Nothing
    BY <1>1, <2>1 DEF SavedIsSnapshot, Nothing
  <2>2. CASE saved # Nothing
    <3>1. LinkSnapshot(saved.state, saved.records) /\ saved.state[2] \in 0..second /\ saved.state[2] # second
      BY <1>4, <2>2 DEF LinksInv, SavedIsSnapshot, LinksTyped, InSecondRead
    <3>2. \A s, t : s = saved.state /\ t = saved.records => LinkSnapshot(s, t)'
      BY <3>1, EditKeepsSnapshots DEF LinksInv
    <3> QED BY <1>1, <3>2 DEF SavedIsSnapshot
  <2> QED BY <2>1, <2>2
<1>6. ASSUME NEW r \in Request, job[r] # Idle
      PROVE  /\ job[r].state[1] = Cardinality(Linked')
             /\ job[r].pc = "walking" => /\ job[r].pages = Cardinality(Linked')
                                         /\ FirstPage(job[r].state, job[r].records)'
             /\ job[r].pc = "save" => LinkSnapshot(job[r].state, job[r].records)'
  <2>1. links[e] # 0 /\ stamp = second /\ second # 0
    BY <1>1, <1>3, <1>6 DEF Untouched
  <2>2. Linked' = Linked
    BY <1>1, <2>1 DEF Linked, LinksInv, LinksTyped
  <2>3. job[r].state[2] \in 0..second /\ job[r].state[2] # second
    BY <1>4, <1>6 DEF InSecondRead, LinksInv, LinksTyped
  <2>4. CASE job[r].pc = "save"
    <3>1. LinkSnapshot(job[r].state, job[r].records)
      BY <1>4, <1>6, <2>4 DEF LinksInv, JobsAreSnapshots
    <3>2. \A s, t : s = job[r].state /\ t = job[r].records => LinkSnapshot(s, t)'
      BY <2>3, <3>1, EditKeepsSnapshots DEF LinksInv
    <3> QED BY <1>1, <1>4, <1>6, <2>2, <2>4, <3>2 DEF LinksInv, JobsAreSnapshots
  <2>5. CASE job[r].pc = "walking"
    <3>1. PICK g : /\ job[r].records = {<<x, g[x]>> : x \in At(1)}
                   /\ \A x \in At(1) : links[x] <= job[r].state[2] => g[x] = links[x]
      BY <1>4, <1>6, <2>5 DEF LinksInv, JobsAreSnapshots, FirstPage
    <3>2. At(1)' = At(1) /\ At(1) \subseteq Linked
      BY <2>2 DEF At
    <3>3. \A x \in At(1) : links'[x] <= job[r].state[2] => g[x] = links'[x]
      BY <1>1, <2>1, <2>3, <3>1, <3>2 DEF LinksInv, LinksTyped, Linked
    <3>4. FirstPage(job[r].state, job[r].records)'
      BY <1>1, <3>1, <3>2, <3>3 DEF FirstPage
    <3> QED BY <1>1, <1>4, <1>6, <2>2, <2>5, <3>4 DEF LinksInv, JobsAreSnapshots
  <2> QED BY <1>4, <1>6, <2>2, <2>4, <2>5 DEF LinksInv, JobsAreSnapshots
<1> QED BY <1>1, <1>5, <1>6 DEF JobsAreSnapshots

\* What is said of snapshots depends on the links alone.
LEMMA SnapshotsOfLinks ==
  ASSUME links' = links
  PROVE  /\ Linked' = Linked
         /\ \A state, records : /\ LinkSnapshot(state, records)' <=> LinkSnapshot(state, records)
                                /\ FirstPage(state, records)' <=> FirstPage(state, records)
<1>1. Linked' = Linked /\ At(1)' = At(1) /\ \A x : Record(x)' = Record(x)
  BY DEF Linked, Record, At
<1> QED BY <1>1 DEF LinkSnapshot, FirstPage

\* Only one request moves, and what it knows then is right.
JobIsSound(e) ==
  /\ e.pc \in {"patch", "walk", "walking", "save"}
  /\ e.state[1] \in Nat /\ e.state[2] \in 0..second
  /\ e.pc = "patch" => saved # Nothing
  /\ Untouched =>
       /\ e.state[1] = Cardinality(Linked)
       /\ e.pc = "walking" => /\ e.pages = Cardinality(Linked)
                              /\ FirstPage(e.state, e.records)
       /\ e.pc = "save" => LinkSnapshot(e.state, e.records)

LEMMA JobMoves ==
  ASSUME LinksInv, NEW r \in Request, NEW e, job' = [job EXCEPT ![r] = e],
         UNCHANGED <<second, links, saved, torn, blurred>>,
         e = Idle \/ JobIsSound(e)
  PROVE  LinksInv'
<1>1. /\ DOMAIN job' = Request /\ job'[r] = e
      /\ \A q \in Request \ {r} : job'[q] = job[q]
  BY DEF LinksInv, LinksTyped
<1>2. Untouched' = Untouched /\ Nothing' = Nothing /\ Idle' = Idle
  BY DEF Untouched, Nothing, Idle
<1>3. /\ Linked' = Linked
      /\ \A state, records : /\ LinkSnapshot(state, records)' <=> LinkSnapshot(state, records)
                             /\ FirstPage(state, records)' <=> FirstPage(state, records)
  BY SnapshotsOfLinks
<1>4. LinksTyped'
  BY <1>1, <1>2 DEF LinksInv, LinksTyped, JobIsSound
<1>5. SavedIsSnapshot'
  BY <1>2, <1>3 DEF LinksInv, SavedIsSnapshot
<1>6. JobsAreSnapshots'
  BY <1>1, <1>2, <1>3 DEF LinksInv, JobsAreSnapshots, JobIsSound
<1> QED BY <1>4, <1>5, <1>6 DEF LinksInv

LEMMA ReadStateStep ==
  ASSUME LinksInv, NEW r \in Request, NEW force \in BOOLEAN, ReadState(r, force)
  PROVE  LinksInv'
<1> DEFINE pc == IF force \/ saved = Nothing THEN "walk" ELSE "patch"
           e == [pc |-> pc, state |-> State]
<1>1. job' = [job EXCEPT ![r] = e] /\ UNCHANGED <<second, links, saved, torn, blurred>>
  BY DEF ReadState
<1>2. e.pc = pc /\ e.state = State
  OBVIOUS
<1>3. pc \in {"patch", "walk"} /\ (pc = "patch" => saved # Nothing)
  OBVIOUS
<1> HIDE DEF e, pc
<1>4. JobIsSound(e)
  BY <1>2, <1>3, StateOfLinks DEF JobIsSound, LinksInv, LinksTyped
<1> QED BY <1>1, <1>4, JobMoves

\* Merging what was edited into a sound copy gives all there is; the count
\* tells whether it gives more.
LEMMA PatchIsSnapshot ==
  ASSUME LinksInv, Untouched, NEW r \in Request, job[r].pc = "patch",
         Cardinality(PatchedRecords(r)) = job[r].state[1]
  PROVE  LinkSnapshot(job[r].state, PatchedRecords(r))
<1> DEFINE edited == ChangedSince(saved.state, job[r].state)
<1>1. /\ saved # Nothing /\ LinkSnapshot(saved.state, saved.records)
      /\ saved.state[2] \in 0..second /\ job[r].state[2] \in 0..second
  BY IdleIsIdle DEF LinksInv, LinksTyped, SavedIsSnapshot
<1>2. /\ IsFiniteSet(Linked) /\ Linked \subseteq Entity
      /\ \A x \in Linked : links[x] \in 0..second
  BY StateOfLinks DEF LinksInv, LinksTyped
<1>3. IsFiniteSet(PatchedRecords(r))
  <2>1. IsFiniteSet({Record(x) : x \in Linked})
    BY <1>2, RecordsOfFunction DEF Record
  <2>2. edited \in SUBSET {Record(x) : x \in Linked}
    BY DEF ChangedSince
  <2>3. {x \in saved.records : \A y \in edited : y[1] # x[1]} \in SUBSET saved.records
    OBVIOUS
  <2>4. IsFiniteSet(edited) /\ IsFiniteSet({x \in saved.records : \A y \in edited : y[1] # x[1]})
    BY <1>1, <2>1, <2>2, <2>3, FS_Subset DEF LinkSnapshot
  <2> QED BY <2>4, FS_Union DEF PatchedRecords, MergeLinkRecords
<1>4. ASSUME NEW x \in Linked, links[x] <= job[r].state[2]
      PROVE  Record(x) \in PatchedRecords(r)
  <2>1. CASE saved.state = job[r].state
    <3>1. edited = {} /\ Record(x) \in saved.records
      BY <1>1, <1>4, <2>1 DEF LinkSnapshot, ChangedSince
    <3> QED BY <3>1 DEF PatchedRecords, MergeLinkRecords
  <2>2. CASE saved.state # job[r].state /\ links[x] >= saved.state[2]
    <3>1. Record(x) \in edited
      BY <2>2 DEF ChangedSince
    <3> QED BY <3>1 DEF PatchedRecords, MergeLinkRecords
  <2>3. CASE saved.state # job[r].state /\ ~(links[x] >= saved.state[2])
    <3>1. Record(x) \in saved.records
      BY <1>1, <1>2, <2>3 DEF LinkSnapshot
    <3>2. \A y \in edited : y[1] # Record(x)[1]
      BY <2>3 DEF ChangedSince, Record
    <3> QED BY <3>1, <3>2 DEF PatchedRecords, MergeLinkRecords
  <2> QED BY <2>1, <2>2, <2>3
<1> QED BY <1>3, <1>4 DEF LinkSnapshot

LEMMA PatchStep ==
  ASSUME LinksInv, NEW r \in Request, Patch(r)
  PROVE  LinksInv'
<1>1. /\ job[r].pc = "patch" /\ job[r] # Idle
      /\ job' = [job EXCEPT ![r] = job'[r]] /\ UNCHANGED <<second, links, saved, torn, blurred>>
  BY IdleIsIdle DEF Patch, LinksInv, LinksTyped
<1>2. CASE Cardinality(PatchedRecords(r)) = job[r].state[1]
  <2> DEFINE e == [pc |-> "save", state |-> job[r].state, records |-> PatchedRecords(r)]
  <2>1. job' = [job EXCEPT ![r] = e]
    BY <1>2 DEF Patch
  <2>2. e.pc = "save" /\ e.state = job[r].state /\ e.records = PatchedRecords(r)
    OBVIOUS
  <2> HIDE DEF e
  <2>3. JobIsSound(e)
    BY <1>1, <1>2, <2>2, PatchIsSnapshot DEF JobIsSound, LinksInv, LinksTyped, JobsAreSnapshots
  <2> QED BY <1>1, <2>1, <2>3, JobMoves
<1>3. CASE Cardinality(PatchedRecords(r)) # job[r].state[1]
  <2> DEFINE e == [pc |-> "walk", state |-> job[r].state]
  <2>1. job' = [job EXCEPT ![r] = e]
    BY <1>3 DEF Patch
  <2>2. e.pc = "walk" /\ e.state = job[r].state
    OBVIOUS
  <2> HIDE DEF e
  <2>3. JobIsSound(e)
    BY <1>1, <2>2 DEF JobIsSound, LinksInv, LinksTyped, JobsAreSnapshots
  <2> QED BY <1>1, <2>1, <2>3, JobMoves
<1> QED BY <1>2, <1>3

LEMMA WalkFirstPageStep ==
  ASSUME LinksInv, NEW r \in Request, WalkFirstPage(r)
  PROVE  LinksInv'
<1> DEFINE first == {Record(x) : x \in At(1)}
           e == [pc |-> "walking", state |-> job[r].state, pages |-> Cardinality(Linked),
                 records |-> first]
<1>1. /\ job[r].pc = "walk" /\ job[r] # Idle
      /\ job' = [job EXCEPT ![r] = e] /\ UNCHANGED <<second, links, saved, torn, blurred>>
  BY IdleIsIdle DEF WalkFirstPage
<1>2. FirstPage(job[r].state, first)
  BY DEF FirstPage, Record
<1>3. /\ e.pc = "walking" /\ e.state = job[r].state /\ e.pages = Cardinality(Linked)
      /\ e.records = first
  OBVIOUS
<1> HIDE DEF e, first
<1>4. JobIsSound(e)
  BY <1>1, <1>2, <1>3 DEF JobIsSound, LinksInv, LinksTyped, JobsAreSnapshots
<1> QED BY <1>1, <1>4, JobMoves

\* The other pages bring what the first one left out.
LEMMA WalkIsSnapshot ==
  ASSUME LinksInv, Untouched, NEW r \in Request, job[r].pc = "walking"
  PROVE  LinkSnapshot(job[r].state,
           job[r].records \cup {Record(x) : x \in UNION {At(o) : o \in 2..job[r].pages}})
<1> DEFINE others == UNION {At(o) : o \in 2..job[r].pages}
<1>1. /\ job[r] # Idle /\ job[r].state[1] = Cardinality(Linked)
      /\ job[r].pages = Cardinality(Linked) /\ FirstPage(job[r].state, job[r].records)
      /\ job[r].state[2] \in 0..second /\ second \in Nat /\ links \in [Entity -> 0..second]
  BY IdleIsIdle DEF LinksInv, LinksTyped, JobsAreSnapshots
<1>2. IsFiniteSet(Linked) /\ Cardinality(Linked) \in Nat
  BY <1>1, StateOfLinks
<1>3. PICK g : /\ job[r].records = {<<x, g[x]>> : x \in At(1)}
               /\ \A x \in At(1) : links[x] <= job[r].state[2] => g[x] = links[x]
  BY <1>1 DEF FirstPage
<1>4. Linked = At(1) \cup others /\ At(1) \cap others = {}
  <2>1. At(1) \subseteq Linked /\ others \subseteq Linked /\ At(1) \cap others = {}
    <3>1. \A o : At(o) \subseteq Linked
      BY DEF At
    <3>2. \A o \in 2..job[r].pages : At(1) \cap At(o) = {}
      BY DEF At
    <3> QED BY <3>1, <3>2
  <2>2. ASSUME NEW x \in Linked
        PROVE  x \in At(1) \cup others
    <3>1. PICK o \in 1..Cardinality(Linked) : x \in At(o)
      BY <1>1, PagesHoldAll
    <3>2. o = 1 \/ o \in 2..job[r].pages
      BY <1>1, <1>2
    <3> QED BY <3>1, <3>2
  <2> QED BY <2>1, <2>2
<1> HIDE DEF others
<1> DEFINE h == [x \in Linked |-> IF x \in At(1) THEN g[x] ELSE links[x]]
           R == {<<x, h[x]>> : x \in Linked}
<1>5. job[r].records \cup {Record(x) : x \in others} = R
  <2>1. \A x \in At(1) : h[x] = g[x]
    BY <1>4
  <2>2. \A x \in others : h[x] = links[x]
    BY <1>4
  <2> HIDE DEF h
  <2> QED BY <1>3, <1>4, <2>1, <2>2 DEF Record
<1>6. IsFiniteSet(R) /\ Cardinality(R) = Cardinality(Linked)
  <2> HIDE DEF h
  <2> QED BY <1>2, RecordsOfFunction
<1>7. \A x \in Linked : links[x] <= job[r].state[2] => Record(x) \in R
  <2>1. \A x \in Linked : links[x] <= job[r].state[2] => h[x] = links[x]
    BY <1>3
  <2> HIDE DEF h
  <2> QED BY <2>1 DEF Record
<1> HIDE DEF R
<1>8. LinkSnapshot(job[r].state, R)
  BY <1>1, <1>6, <1>7 DEF LinkSnapshot
<1> QED BY <1>5, <1>8 DEF others

LEMMA WalkOtherPagesStep ==
  ASSUME LinksInv, NEW r \in Request, WalkOtherPages(r)
  PROVE  LinksInv'
<1> DEFINE all == job[r].records \cup {Record(x) : x \in UNION {At(o) : o \in 2..job[r].pages}}
           e == [pc |-> "save", state |-> job[r].state, records |-> all]
<1>1. /\ job[r].pc = "walking" /\ job[r] # Idle
      /\ job' = [job EXCEPT ![r] = e] /\ UNCHANGED <<second, links, saved, torn, blurred>>
  BY IdleIsIdle DEF WalkOtherPages
<1>2. Untouched => LinkSnapshot(job[r].state, all)
  BY <1>1, WalkIsSnapshot
<1>3. e.pc = "save" /\ e.state = job[r].state /\ e.records = all
  OBVIOUS
<1> HIDE DEF e, all
<1>4. JobIsSound(e)
  BY <1>1, <1>2, <1>3 DEF JobIsSound, LinksInv, LinksTyped, JobsAreSnapshots
<1> QED BY <1>1, <1>4, JobMoves

LEMMA SaveStep ==
  ASSUME LinksInv, NEW r \in Request, SaveExternalLinks(r)
  PROVE  LinksInv'
<1>1. /\ job[r].pc = "save" /\ job[r] # Idle
      /\ saved' = [state |-> job[r].state, records |-> job[r].records]
      /\ job' = [job EXCEPT ![r] = Idle]
      /\ UNCHANGED <<second, links, torn, blurred>>
  BY IdleIsIdle DEF SaveExternalLinks
<1>2. saved'.state = job[r].state /\ saved'.records = job[r].records
  BY <1>1
<1>3. job[r].state[1] \in Nat /\ job[r].state[2] \in 0..second
  BY <1>1 DEF LinksInv, LinksTyped
<1>4. saved' # Nothing
  <2>1. Nothing.state[1] = 0 - 1
    BY DEF Nothing
  <2> QED BY <1>2, <1>3, <2>1
<1>5. /\ DOMAIN job' = Request /\ job'[r] = Idle
      /\ \A q \in Request \ {r} : job'[q] = job[q]
  BY <1>1 DEF LinksInv, LinksTyped
<1>6. Untouched' = Untouched
  BY <1>1 DEF Untouched
<1>7. /\ Linked' = Linked
      /\ \A state, records : /\ LinkSnapshot(state, records)' <=> LinkSnapshot(state, records)
                             /\ FirstPage(state, records)' <=> FirstPage(state, records)
  BY <1>1, SnapshotsOfLinks
<1>8. LinksTyped'
  BY <1>1, <1>2, <1>3, <1>4, <1>5 DEF LinksInv, LinksTyped
<1>9. SavedIsSnapshot'
  BY <1>1, <1>2, <1>6, <1>7 DEF LinksInv, SavedIsSnapshot, JobsAreSnapshots
<1>10. JobsAreSnapshots'
  BY <1>5, <1>6, <1>7 DEF LinksInv, JobsAreSnapshots
<1> QED BY <1>8, <1>9, <1>10 DEF LinksInv

LEMMA LinksStep ==
  ASSUME LinksInv, [NextLinks]_linkVars
  PROVE  LinksInv'
<1>1. CASE UNCHANGED linkVars
  <2>1. UNCHANGED <<second, links, saved, job, torn, blurred>>
    BY <1>1 DEF linkVars
  <2> QED BY <2>1, SnapshotsOfLinks DEF LinksInv, LinksTyped, SavedIsSnapshot, JobsAreSnapshots,
            Untouched, Idle, Nothing
<1>2. CASE SecondPasses
  <2>1. second' = second + 1 /\ UNCHANGED <<links, saved, job, torn, blurred>>
    BY <1>2 DEF SecondPasses
  <2>2. LinksTyped'
    BY <2>1 DEF LinksInv, LinksTyped, Idle, Nothing
  <2>3. (SavedIsSnapshot /\ JobsAreSnapshots)'
    BY <2>1, SnapshotsOfLinks DEF LinksInv, SavedIsSnapshot, JobsAreSnapshots, Untouched,
         Idle, Nothing
  <2> QED BY <2>2, <2>3 DEF LinksInv
<1>3. ASSUME NEW r \in Request, LinksFail(r)
      PROVE  LinksInv'
  BY <1>3, JobMoves DEF LinksFail
<1> QED BY <1>1, <1>2, <1>3, EditStep, ReadStateStep, PatchStep, WalkFirstPageStep,
        WalkOtherPagesStep, SaveStep DEF NextLinks

LEMMA LinksInvariant == SpecLinks => []LinksInv
  BY LinksInit, LinksStep, PTL DEF SpecLinks

\* While the cached links are of the state Stash reports they are Stash's links,
\* but for links made under a request and edits in a second already read.
THEOREM LinksStayCurrent == SpecLinks => []LinksAreCurrent
  BY LinksInvariant, LinksImply, PTL

-----------------------------------------------------------------------------
(* Whisparr: what was sent is there.                                       *)

\* A call is under way with a scene that Whisparr has, once it was added.
Calls == [pc : {"add", "search", "record"}, film : Film, search : {SearchImmediately}]

CallsInOrder ==
  /\ call \in [Client -> {NoCall} \cup Calls]
  /\ \A c \in Client : call[c].pc \in {"search", "record"} => call[c].film \in movies
  /\ \A c \in Client : call[c].pc = "search" => SearchImmediately

\* Somebody is about to have a scene searched for.
SearchIsNear(f) == \E c \in Client : call[c].pc = "search" /\ call[c].film = f

\* What was added was searched for, too, or is about to be.
AddedAreSearched ==
  SearchImmediately => \A f \in movies : f \in searched \cup dropped \/ SearchIsNear(f)

WhisparrInv ==
  /\ CallsInOrder
  /\ AddedAreSearched
  /\ sent \subseteq movies

LEMMA NoCallIsNone == NoCall.pc = "no call" /\ NoCall \notin Calls
  BY DEF NoCall, Calls

\* Fields of a call that is under way.
LEMMA CallFields ==
  ASSUME NEW r \in Calls
  PROVE  /\ r.pc \in {"add", "search", "record"} /\ r.film \in Film
         /\ r.search = SearchImmediately
         /\ \A x : [r EXCEPT !.pc = x] = [pc |-> x, film |-> r.film, search |-> r.search]
  BY DEF Calls

LEMMA WhisparrInit == InitWhisparr => WhisparrInv
  BY NoCallIsNone DEF InitWhisparr, WhisparrInv, CallsInOrder, AddedAreSearched

LEMMA WhisparrStep ==
  ASSUME WhisparrInv, [NextWhisparr]_whisparrVars
  PROVE  WhisparrInv'
<1> USE WhisparrAssumption
<1>1. CASE UNCHANGED whisparrVars
  BY <1>1 DEF WhisparrInv, CallsInOrder, AddedAreSearched, SearchIsNear, whisparrVars, Calls
<1>2. ASSUME NEW c \in Client, NEW f \in Film, FindMovie(c, f, SearchImmediately)
      PROVE  WhisparrInv'
  <2>1. call' = [call EXCEPT ![c] =
          [pc |-> IF f \in movies THEN "record" ELSE "add", film |-> f, search |-> SearchImmediately]]
    BY <1>2 DEF FindMovie
  <2>2. /\ \A d \in Client \ {c} : call'[d] = call[d]
        /\ call'[c] = [pc |-> IF f \in movies THEN "record" ELSE "add", film |-> f, search |-> SearchImmediately]
    BY <2>1 DEF WhisparrInv, CallsInOrder
  <2>3. call' \in [Client -> {NoCall} \cup Calls]
    BY <2>1 DEF Calls, WhisparrInv, CallsInOrder
  <2>4. CallsInOrder'
    BY <1>2, <2>2, <2>3, NoCallIsNone, CallFields DEF FindMovie, WhisparrInv, CallsInOrder
  <2>5. AddedAreSearched'
    BY <1>2, <2>2, NoCallIsNone, CallFields DEF FindMovie, WhisparrInv, CallsInOrder, AddedAreSearched,
       SearchIsNear
  <2>6. (sent \subseteq movies)'
    BY <1>2, <2>2, NoCallIsNone, CallFields DEF FindMovie, WhisparrInv, CallsInOrder
  <2> QED BY <2>4, <2>5, <2>6 DEF WhisparrInv
<1>3. ASSUME NEW c \in Client, AddMovie(c)
      PROVE  WhisparrInv'
  <2>0. call[c] \in Calls
    BY <1>3, NoCallIsNone DEF AddMovie, WhisparrInv, CallsInOrder
  <2>1. call' = [call EXCEPT ![c] =
          [pc |-> IF call[c].search THEN "search" ELSE "record", film |-> call[c].film,
           search |-> call[c].search]]
    BY <1>3, <2>0, CallFields DEF AddMovie
  <2>2. /\ \A d \in Client \ {c} : call'[d] = call[d]
        /\ call'[c] =
             [pc |-> IF call[c].search THEN "search" ELSE "record", film |-> call[c].film,
           search |-> call[c].search]
    BY <2>1 DEF WhisparrInv, CallsInOrder
  <2>3. call' \in [Client -> {NoCall} \cup Calls]
    BY <2>0, <2>1 DEF Calls, WhisparrInv, CallsInOrder
  <2>2a. call'[c].pc = (IF call[c].search THEN "search" ELSE "record") /\ call'[c].film = call[c].film
    BY <2>2
  <2>2b. call[c].search = SearchImmediately
    BY <2>0, CallFields
  <2>2c. /\ movies' = movies \cup {call[c].film} /\ searched' = searched
         /\ call[c].pc = "add" /\ UNCHANGED <<sent, dropped>>
    BY <1>3 DEF AddMovie
  <2>4. CallsInOrder'
    BY <2>2, <2>2a, <2>2b, <2>2c, <2>3, NoCallIsNone DEF WhisparrInv, CallsInOrder
  <2>5. AddedAreSearched'
    <3> SUFFICES ASSUME SearchImmediately, NEW f \in movies'
                 PROVE  f \in searched' \cup dropped' \/ SearchIsNear(f)'
      BY DEF AddedAreSearched
    <3>1. CASE f = call[c].film
      BY <3>1, <2>2a, <2>2b, <2>2c DEF SearchIsNear
    <3>2. CASE f # call[c].film
      <4>1. f \in searched \cup dropped \/ SearchIsNear(f)
        BY <3>2, <2>2c DEF WhisparrInv, AddedAreSearched
      <4>2. ASSUME NEW d \in Client, call[d].pc = "search", call[d].film = f
            PROVE  SearchIsNear(f)'
        BY <3>2, <4>2, <2>2 DEF SearchIsNear
      <4> QED BY <4>1, <4>2, <2>2c DEF SearchIsNear
    <3> QED BY <3>1, <3>2
  <2>6. (sent \subseteq movies)'
    BY <2>2, <2>2a, <2>2b, <2>2c, NoCallIsNone DEF WhisparrInv, CallsInOrder
  <2> QED BY <2>4, <2>5, <2>6 DEF WhisparrInv
<1>4. ASSUME NEW c \in Client, MoviesSearch(c)
      PROVE  WhisparrInv'
  <2>0. call[c] \in Calls
    BY <1>4, NoCallIsNone DEF MoviesSearch, WhisparrInv, CallsInOrder
  <2>1. call' = [call EXCEPT ![c] = [pc |-> "record", film |-> call[c].film,
           search |-> call[c].search]]
    BY <1>4, <2>0, CallFields DEF MoviesSearch
  <2>2. /\ \A d \in Client \ {c} : call'[d] = call[d]
        /\ call'[c] = [pc |-> "record", film |-> call[c].film,
           search |-> call[c].search]
    BY <2>1 DEF WhisparrInv, CallsInOrder
  <2>3. call' \in [Client -> {NoCall} \cup Calls]
    BY <2>0, <2>1 DEF Calls, WhisparrInv, CallsInOrder
  <2>2a. call'[c].pc = ("record") /\ call'[c].film = call[c].film
    BY <2>2
  <2>2b. call[c].search = SearchImmediately
    BY <2>0, CallFields
  <2>2c. /\ movies' = movies /\ searched' = searched \cup {call[c].film}
         /\ call[c].pc = "search" /\ UNCHANGED <<sent, dropped>>
    BY <1>4 DEF MoviesSearch
  <2>4. CallsInOrder'
    BY <2>2, <2>2a, <2>2b, <2>2c, <2>3, NoCallIsNone DEF WhisparrInv, CallsInOrder
  <2>5. AddedAreSearched'
    <3> SUFFICES ASSUME SearchImmediately, NEW f \in movies'
                 PROVE  f \in searched' \cup dropped' \/ SearchIsNear(f)'
      BY DEF AddedAreSearched
    <3>1. CASE f = call[c].film
      BY <3>1, <2>2a, <2>2b, <2>2c DEF SearchIsNear
    <3>2. CASE f # call[c].film
      <4>1. f \in searched \cup dropped \/ SearchIsNear(f)
        BY <3>2, <2>2c DEF WhisparrInv, AddedAreSearched
      <4>2. ASSUME NEW d \in Client, call[d].pc = "search", call[d].film = f
            PROVE  SearchIsNear(f)'
        BY <3>2, <4>2, <2>2 DEF SearchIsNear
      <4> QED BY <4>1, <4>2, <2>2c DEF SearchIsNear
    <3> QED BY <3>1, <3>2
  <2>6. (sent \subseteq movies)'
    BY <2>2, <2>2a, <2>2b, <2>2c, NoCallIsNone DEF WhisparrInv, CallsInOrder
  <2> QED BY <2>4, <2>5, <2>6 DEF WhisparrInv
<1>5. ASSUME NEW c \in Client, RecordSent(c)
      PROVE  WhisparrInv'
  <2>0. call[c] \in Calls
    BY <1>5, NoCallIsNone DEF RecordSent, WhisparrInv, CallsInOrder
  <2>1. call' = [call EXCEPT ![c] = NoCall]
    BY <1>5, <2>0, CallFields DEF RecordSent
  <2>2. /\ \A d \in Client \ {c} : call'[d] = call[d]
        /\ call'[c] = NoCall
    BY <2>1 DEF WhisparrInv, CallsInOrder
  <2>3. call' \in [Client -> {NoCall} \cup Calls]
    BY <2>0, <2>1 DEF Calls, WhisparrInv, CallsInOrder
  <2>4. CallsInOrder'
    BY <1>5, <2>0, <2>2, <2>3, NoCallIsNone, CallFields DEF RecordSent, WhisparrInv, CallsInOrder
  <2>5. AddedAreSearched'
    BY <1>5, <2>0, <2>2, NoCallIsNone, CallFields DEF RecordSent, WhisparrInv, CallsInOrder, AddedAreSearched,
       SearchIsNear
  <2>6. (sent \subseteq movies)'
    BY <1>5, <2>0, <2>2, NoCallIsNone, CallFields DEF RecordSent, WhisparrInv, CallsInOrder
  <2> QED BY <2>4, <2>5, <2>6 DEF WhisparrInv
<1>6. ASSUME NEW c \in Client, SendFails(c)
      PROVE  WhisparrInv'
  <2>0. call[c] \in Calls
    BY <1>6, NoCallIsNone DEF SendFails, WhisparrInv, CallsInOrder
  <2>1. call' = [call EXCEPT ![c] = NoCall]
    BY <1>6, <2>0, CallFields DEF SendFails
  <2>2. /\ \A d \in Client \ {c} : call'[d] = call[d]
        /\ call'[c] = NoCall
    BY <2>1 DEF WhisparrInv, CallsInOrder
  <2>3. call' \in [Client -> {NoCall} \cup Calls]
    BY <2>0, <2>1 DEF Calls, WhisparrInv, CallsInOrder
  <2>4. CallsInOrder'
    BY <1>6, <2>0, <2>2, <2>3, NoCallIsNone, CallFields DEF SendFails, WhisparrInv, CallsInOrder
  <2>5. AddedAreSearched'
    BY <1>6, <2>0, <2>2, NoCallIsNone, CallFields DEF SendFails, WhisparrInv, CallsInOrder, AddedAreSearched,
       SearchIsNear
  <2>6. (sent \subseteq movies)'
    BY <1>6, <2>0, <2>2, NoCallIsNone, CallFields DEF SendFails, WhisparrInv, CallsInOrder
  <2> QED BY <2>4, <2>5, <2>6 DEF WhisparrInv
<1>7. ASSUME NEW c \in Client, AddAnswerLost(c)
      PROVE  WhisparrInv'
  <2>0. call[c] \in Calls
    BY <1>7, NoCallIsNone DEF AddAnswerLost, WhisparrInv, CallsInOrder
  <2>1. call' = [call EXCEPT ![c] = NoCall]
    BY <1>7, <2>0, CallFields DEF AddAnswerLost
  <2>2. /\ \A d \in Client \ {c} : call'[d] = call[d]
        /\ call'[c] = NoCall
    BY <2>1 DEF WhisparrInv, CallsInOrder
  <2>3. call' \in [Client -> {NoCall} \cup Calls]
    BY <2>0, <2>1 DEF Calls, WhisparrInv, CallsInOrder
  <2>4. CallsInOrder'
    BY <1>7, <2>0, <2>2, <2>3, NoCallIsNone, CallFields DEF AddAnswerLost, WhisparrInv, CallsInOrder
  <2>5. AddedAreSearched'
    BY <1>7, <2>0, <2>2, NoCallIsNone, CallFields DEF AddAnswerLost, WhisparrInv, CallsInOrder,
       AddedAreSearched, SearchIsNear
  <2>6. (sent \subseteq movies)'
    BY <1>7, <2>0, <2>2, NoCallIsNone, CallFields DEF AddAnswerLost, WhisparrInv, CallsInOrder
  <2> QED BY <2>4, <2>5, <2>6 DEF WhisparrInv
<1> QED BY <1>1, <1>2, <1>3, <1>4, <1>5, <1>6, <1>7 DEF NextWhisparr

\* What was added was searched for or is about to be, and what was sent was added.
THEOREM WhisparrInvariant == SpecWhisparr => []WhisparrInv
  BY WhisparrInit, WhisparrStep, PTL DEF SpecWhisparr

\* A scene marked as sent is in Whisparr and was searched for as the settings ask.
THEOREM SentScenesStay == SpecWhisparr => []SentScenesAreThere
<1>1. WhisparrInv => SentScenesAreThere
  BY DEF WhisparrInv, AddedAreSearched, SearchIsNear, SentScenesAreThere
<1> QED BY <1>1, WhisparrInvariant, PTL

-----------------------------------------------------------------------------
(* The pace of requests.                                                   *)

\* No request is given a time later than an interval before the next free one.
PaceInv ==
  /\ paceClock \in Int /\ retryAfter \in Int /\ nextRequest \in Int
  /\ \A a \in starts : a[3] \in Int /\ a[3] + RequestInterval <= nextRequest
  /\ RequestsArePaced

LEMMA LatestOfThree ==
  ASSUME NEW a \in Int, NEW b \in Int, NEW c \in Int
  PROVE  Latest({a, b, c}) \in {a, b, c} /\ c <= Latest({a, b, c})
<1>1. \E t \in {a, b, c} : \A u \in {a, b, c} : u <= t
  <2>1. CASE a >= b /\ a >= c
    BY <2>1
  <2>2. CASE b >= a /\ b >= c
    BY <2>2
  <2>3. CASE c >= a /\ c >= b
    BY <2>3
  <2> QED BY <2>1, <2>2, <2>3
<1> QED BY <1>1 DEF Latest

LEMMA PaceStep == PaceInv /\ [NextPace]_paceVars => PaceInv'
<1> SUFFICES ASSUME PaceInv, [NextPace]_paceVars PROVE PaceInv'
  OBVIOUS
<1> USE DEF PaceInv
<1>1. RequestInterval \in Nat \ {0}
  BY StashBoxClientAssumption
<1>2. ASSUME NEW c \in Call, Schedule(c) PROVE PaceInv'
  <2> DEFINE new == <<c, request[c].attempt, StartOf>>
  <2>1. StartOf \in Int /\ nextRequest <= StartOf
    BY LatestOfThree DEF StartOf
  <2>2. /\ nextRequest' = StartOf + RequestInterval /\ starts' = starts \cup {new}
        /\ paceClock' = paceClock /\ retryAfter' = retryAfter
    BY <1>2 DEF Schedule
  <2>3. new[3] = StartOf
    OBVIOUS
  <2> HIDE DEF new
  <2>4. \A a \in starts' : a[3] \in Int /\ a[3] + RequestInterval <= nextRequest'
    BY <1>1, <2>1, <2>2, <2>3
  <2>5. RequestsArePaced'
    <3> SUFFICES ASSUME NEW a \in starts', NEW b \in starts', a # b
                 PROVE  a[3] - b[3] >= RequestInterval \/ b[3] - a[3] >= RequestInterval
      BY DEF RequestsArePaced
    <3>1. CASE a \in starts /\ b \in starts
      BY <3>1 DEF RequestsArePaced
    <3>2. CASE a = new /\ b \in starts
      BY <1>1, <2>1, <2>3, <3>2
    <3>3. CASE b = new /\ a \in starts
      BY <1>1, <2>1, <2>3, <3>3
    <3> QED BY <2>2, <3>1, <3>2, <3>3
  <2> QED BY <1>1, <2>1, <2>2, <2>4, <2>5
<1>3. ASSUME NEW c \in Call, Issue(c) \/ Returns(c) PROVE PaceInv'
  BY <1>3 DEF Issue, Returns, RequestsArePaced
<1>4. ASSUME NEW c \in Call, NEW wait \in 0..2, TooMany(c, wait) PROVE PaceInv'
  BY <1>4 DEF TooMany, RequestsArePaced
<1>5. CASE PaceTicks \/ UNCHANGED paceVars
  BY <1>5 DEF PaceTicks, paceVars, RequestsArePaced
<1> QED BY <1>2, <1>3, <1>4, <1>5 DEF NextPace

\* Requests to ThePornDB keep their interval, repeated ones and those a
\* Retry-After delayed included, however many calls there are.
THEOREM RequestsKeepPace == SpecPace => []RequestsArePaced
<1>1. InitPace => PaceInv
  BY DEF InitPace, PaceInv, RequestsArePaced
<1>2. PaceInv => RequestsArePaced
  BY DEF PaceInv
<1> QED BY <1>1, <1>2, PaceStep, PTL DEF SpecPace

-----------------------------------------------------------------------------
(* The identities that queries share.                                      *)

ReadyEntries == [state : {"ready"}, number : Nat, failed : BOOLEAN, day : Nat]
Clients == [since : Nat \ {0}, details : [Key -> {NoEntry, Loading} \cup ReadyEntries],
            tags : BOOLEAN, mu : {Nobody} \cup (Query \X Ident)]
Queries == [pc : {"filtering"}, session : Session, source : {"performers", "tags"}, ids : SUBSET Ident]
           \cup [pc : {"filtered", "saving", "listing"}, session : Session]
           \cup [pc : {"listed"}, session : Session, id : Ident, number : Nat]
UnderWay == [pc : {"detail", "getting", "sent", "awaiting"}, key : Key \cup {"tags"}]
Lookups == {NoLookup, [pc |-> "queued"], Broken} \cup UnderWay
           \cup [pc : {"done"}, number : Nat, failed : {FALSE}]

TypeOKIdentities ==
  /\ day \in Nat \ {0} /\ number \in [Ident -> Nat] /\ left \in [Ident -> Nat]
  /\ cacheFile \in [Key -> {NoEntry} \cup ReadyEntries]
  /\ client \in [Session -> {NoClient} \cup Clients]
  /\ query \in [Query -> {NoQuery} \cup Queries]
  /\ lookup \in [Query -> [Ident -> Lookups]]

\* A query has a client, and looks up the ids it filters by.
QueriesInOrder ==
  \A q \in Query :
    /\ query[q] # NoQuery => client[query[q].session] # NoClient
    /\ \A i \in Ident :
         /\ lookup[q][i] # NoLookup <=> query[q].pc = "filtering" /\ i \in query[q].ids
         /\ lookup[q][i].pc \in {"detail", "getting", "sent", "awaiting"} =>
              IF query[q].source = "performers" THEN lookup[q][i].key \in Key
              ELSE lookup[q][i].pc \in {"getting", "sent"}

\* What is believed was so on a day that is over or today.
EntriesAreOfTheirDay ==
  /\ \A s \in Session : client[s] # NoClient =>
       /\ client[s].since <= day
       /\ \A k \in Key : client[s].details[k].state = "ready" => client[s].details[k].day <= day
  /\ \A k \in Key : cacheFile[k] # NoEntry => cacheFile[k].day <= day
  /\ \A q \in Query : query[q].pc = "listed" =>
       query[q].number = number[query[q].id] \/ left[query[q].id] >= day

\* The lookup of a query of s that a request is made for.
Asking(q, i, s, source) ==
  /\ query[q] # NoQuery /\ query[q].session = s /\ query[q].source = source
  /\ lookup[q][i].pc \in {"getting", "sent"}

\* What is waited for is being asked: a key, by the lookup that found it
\* absent; the tags, by the one that holds mu.
WhoAsks ==
  /\ \A s \in Session : client[s] # NoClient =>
       /\ \A k \in Key : client[s].details[k] = Loading =>
            \E q \in Query, i \in Ident : Asking(q, i, s, "performers") /\ lookup[q][i].key = k
       /\ client[s].mu # Nobody => \E q \in Query, i \in Ident : Asking(q, i, s, "tags")
  /\ \A q \in Query, i \in Ident : lookup[q][i].pc = "awaiting" =>
       client[query[q].session].details[lookup[q][i].key] = Loading

IdentitiesInv ==
  /\ TypeOKIdentities
  /\ QueriesInOrder
  /\ EntriesAreOfTheirDay
  /\ IdentitiesAreRecent
  /\ WhoAsks

LEMMA IdentityValues ==
  /\ NoClient.since = 0 /\ NoClient \notin Clients
  /\ NoQuery.pc = "idle" /\ NoQuery \notin Queries
  /\ NoLookup.pc = "none" /\ NoLookup \notin UnderWay
  /\ [pc |-> "queued"].pc = "queued" /\ Broken.pc = "done" /\ Broken.failed /\ Broken.number = 0
  /\ NoEntry.state = "absent" /\ Loading.state = "loading" /\ NoEntry # Loading
  /\ \A e \in ReadyEntries : e.state = "ready" /\ e # NoEntry /\ e # Loading
  /\ \A l \in Lookups : l.pc \in {"none", "queued", "detail", "getting", "sent", "awaiting", "done"}
  /\ \A l \in Lookups : l.pc = "none" <=> l = NoLookup
  /\ \A l \in Lookups : l.pc = "done" => l = Broken \/ ~l.failed
  /\ \A l \in Lookups : l.pc \in {"detail", "getting", "sent", "awaiting"} => l \in UnderWay
<1>1. /\ NoClient.since = 0 /\ NoClient \notin Clients
  BY DEF NoClient, Clients
<1>2. NoQuery.pc = "idle" /\ NoQuery \notin Queries
  BY DEF NoQuery, Queries
<1>3. NoLookup.pc = "none" /\ NoLookup \notin UnderWay
  BY DEF NoLookup, UnderWay
<1>4. [pc |-> "queued"].pc = "queued" /\ Broken.pc = "done" /\ Broken.failed /\ Broken.number = 0
  BY DEF Broken
<1>5. /\ NoEntry.state = "absent" /\ Loading.state = "loading" /\ NoEntry # Loading
  BY DEF NoEntry, Loading
<1>6. \A e \in ReadyEntries : e.state = "ready" /\ e # NoEntry /\ e # Loading
  BY DEF ReadyEntries, NoEntry, Loading
<1>7. ASSUME NEW l \in Lookups
      PROVE  /\ l.pc \in {"none", "queued", "detail", "getting", "sent", "awaiting", "done"}
             /\ l.pc = "none" <=> l = NoLookup
             /\ l.pc = "done" => l = Broken \/ ~l.failed
             /\ l.pc \in {"detail", "getting", "sent", "awaiting"} => l \in UnderWay
  <2>1. \/ l = NoLookup \/ l = [pc |-> "queued"] \/ l = Broken \/ l \in UnderWay
        \/ l \in [pc : {"done"}, number : Nat, failed : {FALSE}]
    BY DEF Lookups
  <2>2. CASE l \in UnderWay
    BY <1>3, <2>2 DEF UnderWay
  <2>3. CASE l \in [pc : {"done"}, number : Nat, failed : {FALSE}]
    BY <1>3, <2>3
  <2> QED BY <1>3, <1>4, <2>1, <2>2, <2>3
<1> QED BY <1>1, <1>2, <1>3, <1>4, <1>5, <1>6, <1>7

\* A filter that is used rests on the answers for all its ids.
LEMMA WholeByInv == IdentitiesInv => FiltersAreWhole
<1> SUFFICES ASSUME IdentitiesInv, NEW q \in Query, query[q].pc = "filtering", Settled(q), ~Breaks(q)
             PROVE  \A i \in query[q].ids : lookup[q][i].pc = "done" /\ ~lookup[q][i].failed
  BY DEF FiltersAreWhole, Outcome
<1>1. query[q] \in Queries
  BY IdentityValues DEF IdentitiesInv, TypeOKIdentities
<1>2. query[q].ids \subseteq Ident
  BY <1>1 DEF Queries
<1>3. \A i \in Ident : lookup[q][i] \in Lookups
  BY DEF IdentitiesInv, TypeOKIdentities
<1> QED BY <1>2, <1>3, IdentityValues DEF Settled, Breaks

\* Nobody waits in vain: when no request is made and none is in flight, mu is
\* free and no answer is awaited.
LEMMA GoesOnByInv == IdentitiesInv => NobodyWaitsForever
<1> USE DEF IdentitiesInv
<1> SUFFICES ASSUME IdentitiesInv, NEW s \in Session, NEW p \in QueriesOf(s)
             PROVE  \E q \in QueriesOf(s) :
                      \/ query[q].pc = "filtering" /\ Settled(q)
                      \/ query[q].pc = "filtered" /\ InFlight(s) < Slots
                      \/ query[q].pc = "listing"
                      \/ query[q].pc \in {"listed", "saving"} /\ Free(s)
                      \/ \E i \in Ident :
                           \/ lookup[q][i].pc \in {"queued", "detail"} /\ Free(s)
                           \/ lookup[q][i].pc = "getting" /\ InFlight(s) < Slots
                           \/ lookup[q][i].pc = "sent"
  BY DEF NobodyWaitsForever
<1>1. SUFFICES ASSUME /\ \A q \in QueriesOf(s) : query[q].pc # "listing"
                      /\ \A q \in QueriesOf(s), i \in Ident : lookup[q][i].pc # "sent"
               PROVE  \E q \in QueriesOf(s) :
                        \/ query[q].pc = "filtering" /\ Settled(q)
                        \/ query[q].pc = "filtered" /\ InFlight(s) < Slots
                        \/ query[q].pc \in {"listed", "saving"} /\ Free(s)
                        \/ \E i \in Ident :
                             \/ lookup[q][i].pc \in {"queued", "detail"} /\ Free(s)
                             \/ lookup[q][i].pc = "getting" /\ InFlight(s) < Slots
  OBVIOUS
<1>2. InFlight(s) < Slots
  <2>1. {w \in QueriesOf(s) \X Ident : lookup[w[1]][w[2]].pc = "sent"} = {}
    BY <1>1
  <2>2. {q \in QueriesOf(s) : query[q].pc = "listing"} = {}
    BY <1>1
  <2>3. Slots \in Nat \ {0}
    BY StashBoxClientAssumption
  <2>4. InFlight(s) = Cardinality({}) + Cardinality({})
    BY <2>1, <2>2, Zenon DEF InFlight
  <2>5. Cardinality({}) = 0
    BY FS_EmptySet
  <2> QED BY <2>3, <2>4, <2>5
<1>3. SUFFICES ASSUME \A q \in QueriesOf(s), i \in Ident : lookup[q][i].pc # "getting"
               PROVE  \E q \in QueriesOf(s) :
                        \/ query[q].pc = "filtering" /\ Settled(q)
                        \/ query[q].pc = "filtered" /\ InFlight(s) < Slots
                        \/ query[q].pc \in {"listed", "saving"} /\ Free(s)
                        \/ \E i \in Ident : lookup[q][i].pc \in {"queued", "detail"} /\ Free(s)
  BY <1>2
<1>4. p \in Query /\ query[p] # NoQuery /\ query[p].session = s /\ client[s] # NoClient
  BY DEF QueriesOf, Home, QueriesInOrder
<1>5. \A q \in Query, i \in Ident, source \in {"performers", "tags"} : ~Asking(q, i, s, source)
  BY <1>1, <1>3 DEF Asking, QueriesOf, Home
<1>6. client[s] \in Clients /\ query[p] \in Queries
  BY <1>4 DEF TypeOKIdentities
<1>7. Free(s)
  BY <1>4, <1>5, <1>6 DEF WhoAsks, Free, Clients
<1>8. CASE query[p].pc = "filtering"
  <2>1. SUFFICES ASSUME \A i \in Ident : lookup[p][i].pc \notin {"queued", "detail"}
                 PROVE  Settled(p)
    BY <1>7, <1>8
  <2> SUFFICES ASSUME NEW i \in query[p].ids
               PROVE  lookup[p][i].pc = "done"
    BY DEF Settled
  <2>2. i \in Ident
    BY <1>6, <1>8 DEF Queries
  <2>3. lookup[p][i] \in Lookups /\ lookup[p][i] # NoLookup
    BY <1>4, <1>8, <2>2 DEF TypeOKIdentities, QueriesInOrder
  <2>4. lookup[p][i].pc # "awaiting"
    <3> SUFFICES ASSUME lookup[p][i].pc = "awaiting" PROVE FALSE
      OBVIOUS
    <3>1. lookup[p][i].key \in Key /\ client[s].details[lookup[p][i].key] = Loading
      BY <1>4, <2>2 DEF QueriesInOrder, WhoAsks
    <3> QED BY <1>4, <1>5, <3>1 DEF WhoAsks
  <2> QED BY <1>1, <1>3, <2>1, <2>2, <2>3, <2>4, IdentityValues
<1> QED BY <1>2, <1>4, <1>6, <1>7, <1>8, <1>1 DEF Queries

-----------------------------------------------------------------------------
(* One query asks and waits.                                               *)

LEMMA IdentitiesInit == InitIdentities => IdentitiesInv
<1> SUFFICES ASSUME InitIdentities PROVE IdentitiesInv
  OBVIOUS
<1>1. /\ \A s \in Session : client[s] = NoClient
      /\ \A q \in Query : query[q] = NoQuery /\ query[q].pc = "idle"
      /\ \A q \in Query, i \in Ident : lookup[q][i] = NoLookup /\ lookup[q][i].pc = "none"
      /\ \A k \in Key : cacheFile[k] = NoEntry
  BY IdentityValues DEF InitIdentities
<1>2. TypeOKIdentities
  BY DEF InitIdentities, TypeOKIdentities, Lookups
<1> QED BY <1>1, <1>2 DEF IdentitiesInv, QueriesInOrder, EntriesAreOfTheirDay, IdentitiesAreRecent, WhoAsks

\* Where a lookup goes from an entry.
LEMMA ConcludedIsLookup ==
  ASSUME NEW e \in ReadyEntries, NEW k \in Key
  PROVE  /\ Concluded(e, k) \in Lookups /\ Concluded(e, k) # NoLookup
         /\ Concluded(e, k).pc \in {"detail", "done"}
         /\ Concluded(e, k).pc = "detail" => Concluded(e, k).key \in Key
<1>1. <<"performer-sites", k[2]>> \in Key
  BY DEF Key
<1>2. CASE e.failed
  BY <1>2, IdentityValues DEF Concluded, Lookups
<1>3. CASE ~e.failed /\ e.number = 0 /\ k[1] = "performers"
  <2> DEFINE d == [pc |-> "detail", key |-> <<"performer-sites", k[2]>>]
  <2>1. Concluded(e, k) = d
    BY <1>3 DEF Concluded
  <2>2. d \in UnderWay /\ d.pc = "detail" /\ d.key \in Key
    BY <1>1 DEF UnderWay
  <2> HIDE DEF d
  <2> QED BY <2>1, <2>2, IdentityValues DEF Lookups
<1>4. CASE ~e.failed /\ ~(e.number = 0 /\ k[1] = "performers")
  <2> DEFINE d == [pc |-> "done", number |-> e.number, failed |-> FALSE]
  <2>1. Concluded(e, k) = d
    BY <1>4 DEF Concluded, Done
  <2>2. d \in [pc : {"done"}, number : Nat, failed : {FALSE}] /\ d.pc = "done" /\ d # NoLookup
    BY DEF ReadyEntries, NoLookup
  <2> HIDE DEF d
  <2> QED BY <2>1, <2>2 DEF Lookups
<1> QED BY <1>2, <1>3, <1>4, Zenon

LEMMA SessionOfQuery ==
  ASSUME IdentitiesInv, NEW q \in Query, query[q] # NoQuery
  PROVE  /\ query[q] \in Queries /\ query[q].session \in Session
         /\ client[query[q].session] # NoClient /\ client[query[q].session] \in Clients
<1>1. query[q] \in Queries
  BY DEF IdentitiesInv, TypeOKIdentities
<1>2. query[q].session \in Session
  BY <1>1 DEF Queries
<1> QED BY <1>1, <1>2 DEF IdentitiesInv, QueriesInOrder, TypeOKIdentities

\* A lookup that moves on without an answer, a key or mu changes nothing else.
OnlyLookupIs(q, i, v) ==
  /\ lookup' \in [Query -> [Ident -> Lookups]] /\ lookup'[q][i] = v
  /\ \A p \in Query, j \in Ident : p # q \/ j # i => lookup'[p][j] = lookup[p][j]

LEMMA LookupMoves ==
  ASSUME IdentitiesInv, NEW q \in Query, NEW i \in Ident, NEW v \in Lookups,
         lookup' = [lookup EXCEPT ![q][i] = v]
  PROVE  OnlyLookupIs(q, i, v)
  BY DEF IdentitiesInv, TypeOKIdentities, OnlyLookupIs

\* An entry that one key of a client is given.
OnlyDetailIs(s, k, v) ==
  /\ client' \in [Session -> {NoClient} \cup Clients]
  /\ \A r \in Session \ {s} : client'[r] = client[r]
  /\ client'[s] \in Clients /\ client'[s].since = client[s].since
  /\ client'[s].tags = client[s].tags /\ client'[s].mu = client[s].mu
  /\ client'[s].details[k] = v
  /\ \A j \in Key \ {k} : client'[s].details[j] = client[s].details[j]

LEMMA DetailIsSet ==
  ASSUME IdentitiesInv, NEW s \in Session, client[s] # NoClient, NEW k \in Key,
         NEW v \in {NoEntry, Loading} \cup ReadyEntries,
         NEW d, d = [client[s].details EXCEPT ![k] = v],
         client' = [client EXCEPT ![s] = [client[s] EXCEPT !.details = d]]
  PROVE  OnlyDetailIs(s, k, v)
<1>1. client[s] \in Clients /\ client \in [Session -> {NoClient} \cup Clients]
  BY DEF IdentitiesInv, TypeOKIdentities
<1> DEFINE c == [client[s] EXCEPT !.details = d]
<1>2. /\ d \in [Key -> {NoEntry, Loading} \cup ReadyEntries] /\ d[k] = v
      /\ \A j \in Key \ {k} : d[j] = client[s].details[j]
  BY <1>1 DEF Clients
<1>3. /\ c \in Clients /\ c.since = client[s].since /\ c.tags = client[s].tags /\ c.mu = client[s].mu
      /\ c.details = d
  BY <1>1, <1>2 DEF Clients
<1>4. client' = [client EXCEPT ![s] = c]
  OBVIOUS
<1> HIDE DEF c
<1> QED BY <1>1, <1>2, <1>3, <1>4 DEF OnlyDetailIs

\* What the clients believe stays true when entries go, load, fail or are
\* answered today.
LEMMA EntriesStayTrue ==
  ASSUME IdentitiesInv, UNCHANGED <<day, number, left, cacheFile>>,
         \A s \in Session : client'[s] # NoClient =>
           /\ client[s] # NoClient /\ client'[s].since = client[s].since
           /\ \A k \in Key :
                \/ client'[s].details[k] = client[s].details[k]
                \/ client'[s].details[k].state # "ready"
                \/ /\ client'[s].details[k].day = day
                   /\ client'[s].details[k].failed \/ WasSo(k, client'[s].details[k]),
         \A q \in Query : query'[q].pc = "listed" =>
           \/ query'[q] = query[q]
           \/ query'[q].number = number[query'[q].id]
  PROVE  EntriesAreOfTheirDay' /\ IdentitiesAreRecent'
<1> USE DEF IdentitiesInv
<1>1. day \in Nat \ {0} /\ KeepFor \in Nat \ {0}
  BY StashBoxClientAssumption DEF TypeOKIdentities
<1>2. ASSUME NEW s \in Session, client'[s] # NoClient
      PROVE  /\ client'[s].since <= day /\ client'[s].since \in Nat
             /\ \A k \in Key : client'[s].details[k].state = "ready" =>
                  /\ client'[s].details[k].day <= day
                  /\ ~client'[s].details[k].failed =>
                       /\ WasSo(k, client'[s].details[k])
                       /\ client'[s].since - client'[s].details[k].day < KeepFor
  <2>1. client[s] # NoClient /\ client[s] \in Clients /\ client'[s].since = client[s].since
    BY <1>2 DEF TypeOKIdentities
  <2>2. client'[s].since <= day /\ client'[s].since \in Nat
    BY <2>1 DEF EntriesAreOfTheirDay, Clients
  <2>3. ASSUME NEW k \in Key, client'[s].details[k].state = "ready"
        PROVE  /\ client'[s].details[k].day <= day
               /\ ~client'[s].details[k].failed =>
                    /\ WasSo(k, client'[s].details[k])
                    /\ client'[s].since - client'[s].details[k].day < KeepFor
    <3>1. CASE client'[s].details[k] = client[s].details[k]
      BY <2>1, <2>3, <3>1 DEF EntriesAreOfTheirDay, IdentitiesAreRecent, Details
    <3>2. CASE client'[s].details[k] # client[s].details[k]
      <4>1. /\ client'[s].details[k].day = day
            /\ client'[s].details[k].failed \/ WasSo(k, client'[s].details[k])
        BY <1>2, <2>3, <3>2
      <4> QED BY <1>1, <2>2, <4>1
    <3> QED BY <3>1, <3>2
  <2> QED BY <2>2, <2>3
<1>3. \A k \in Key : cacheFile[k] # NoEntry =>
        cacheFile[k].day <= day /\ WasSo(k, cacheFile[k]) /\ There(k, cacheFile[k].number)
  BY DEF EntriesAreOfTheirDay, IdentitiesAreRecent
<1>4. \A q \in Query : query'[q].pc = "listed" =>
        query'[q].number = number[query'[q].id] \/ left[query'[q].id] >= day
  BY DEF EntriesAreOfTheirDay
<1>5. \A k \in Key : \A e : WasSo(k, e)' <=> WasSo(k, e)
  BY DEF WasSo, Own
<1>6. EntriesAreOfTheirDay'
  BY <1>2, <1>3, <1>4 DEF EntriesAreOfTheirDay, NoEntry, NoClient
<1>7. IdentitiesAreRecent'
  BY <1>2, <1>3 DEF IdentitiesAreRecent, Details, WasSo, Own, There, NoClient, NoEntry
<1> QED BY <1>6, <1>7

\* The steps of one lookup: LookUp, Detail, Send.
LEMMA SendKeeps ==
  ASSUME IdentitiesInv, NEW q \in Query, NEW i \in Ident, Send(q, i)
  PROVE  IdentitiesInv'
<1> USE DEF IdentitiesInv
<1> DEFINE v == [pc |-> "sent", key |-> lookup[q][i].key]
<1>1. /\ lookup[q][i].pc = "getting" /\ lookup' = [lookup EXCEPT ![q][i].pc = "sent"]
      /\ UNCHANGED <<day, number, left, cacheFile, client, query, asked>>
  BY DEF Send
<1>2. lookup[q][i] \in Lookups /\ lookup[q][i] \in UnderWay
  BY <1>1, IdentityValues DEF TypeOKIdentities
<1>3. /\ [lookup[q][i] EXCEPT !.pc = "sent"] = v /\ v \in UnderWay /\ v.pc = "sent"
      /\ v.key = lookup[q][i].key
  BY <1>2 DEF UnderWay
<1> HIDE DEF v
<1>4. lookup' = [lookup EXCEPT ![q][i] = v]
  BY <1>1, <1>3
<1>5. /\ lookup' \in [Query -> [Ident -> Lookups]] /\ lookup'[q][i] = v /\ v # NoLookup
      /\ \A p \in Query, j \in Ident : p # q \/ j # i => lookup'[p][j] = lookup[p][j]
  <2>1. v \in Lookups
    BY <1>3 DEF Lookups
  <2>2. v # NoLookup
    BY <1>3, IdentityValues
  <2>8. IdentitiesInv
    OBVIOUS
  <2> HIDE DEF IdentitiesInv
  <2>9. OnlyLookupIs(q, i, v)
    BY <2>8, <1>4, <2>1, LookupMoves
  <2> QED BY <2>2, <2>9 DEF OnlyLookupIs
<1>6. TypeOKIdentities'
  BY <1>1, <1>5 DEF TypeOKIdentities
<1>7. QueriesInOrder'
  BY <1>1, <1>2, <1>3, <1>5, IdentityValues, SMTT(40) DEF QueriesInOrder
<1>8. WhoAsks'
  BY <1>1, <1>2, <1>3, <1>5 DEF WhoAsks, Asking
<1> QED BY <1>1, <1>6, <1>7, <1>8 DEF EntriesAreOfTheirDay, IdentitiesAreRecent, WasSo, Own, There, Details

\* A lookup finds its entry, ready or being loaded.
LEMMA JoinsKeeps ==
  ASSUME IdentitiesInv, NEW q \in Query, NEW i \in Ident, NEW k \in Key,
         lookup[q][i].pc \in {"queued", "detail"}, query[q].source = "performers",
         client[query[q].session].details[k] # NoEntry, Joins(q, i, k),
         UNCHANGED <<day, number, left, cacheFile, client, query, asked>>
  PROVE  IdentitiesInv'
<1> USE DEF IdentitiesInv
<1> DEFINE s == query[q].session
           e == client[s].details[k]
           waits == [pc |-> "awaiting", key |-> k]
           v == IF e = Loading THEN waits ELSE Concluded(e, k)
<1>1. lookup' = [lookup EXCEPT ![q][i] = v]
  BY DEF Joins, Details, Home
<1>2. lookup[q][i] \in Lookups /\ lookup[q][i] # NoLookup
  BY IdentityValues DEF TypeOKIdentities
<1>3. query[q].pc = "filtering" /\ query[q] # NoQuery /\ query[q] \in Queries
  BY <1>2, IdentityValues DEF QueriesInOrder, TypeOKIdentities
<1>4. s \in Session /\ client[s] # NoClient /\ client[s] \in Clients
  BY <1>3 DEF Queries, QueriesInOrder, TypeOKIdentities
<1>5. e \in {NoEntry, Loading} \cup ReadyEntries
  BY <1>4 DEF Clients
<1>6. waits \in UnderWay /\ waits.pc = "awaiting" /\ waits.key = k
  BY DEF UnderWay
<1> HIDE DEF waits, e, s
<1>7. /\ v \in Lookups /\ v # NoLookup /\ v.pc \in {"awaiting", "detail", "done"}
      /\ v.pc \in {"awaiting", "detail"} => v.key \in Key
      /\ v.pc = "awaiting" => client[s].details[v.key] = Loading
  <2>1. CASE e = Loading
    BY <1>6, <2>1, IdentityValues DEF Lookups, e
  <2>2. CASE e # Loading
    <3>1. e \in ReadyEntries
      BY <1>5, <2>2 DEF e, s
    <3> QED BY <2>2, <3>1, ConcludedIsLookup
  <2> QED BY <2>1, <2>2
<1> HIDE DEF v
<1>8. /\ lookup' \in [Query -> [Ident -> Lookups]] /\ lookup'[q][i] = v
      /\ \A p \in Query, j \in Ident : p # q \/ j # i => lookup'[p][j] = lookup[p][j]
  <2>8. IdentitiesInv
    OBVIOUS
  <2> HIDE DEF IdentitiesInv
  <2>9. OnlyLookupIs(q, i, v)
    BY <2>8, <1>1, <1>7, LookupMoves
  <2> QED BY <1>7, <2>9 DEF OnlyLookupIs
<1>9. TypeOKIdentities'
  BY <1>8 DEF TypeOKIdentities
<1>10. QueriesInOrder'
  <2>1. \A p \in Query : query'[p] # NoQuery => client'[query'[p].session] # NoClient
    BY <1>2 DEF QueriesInOrder
  <2>2. ASSUME NEW p \in Query, NEW j \in Ident
        PROVE  /\ lookup'[p][j] # NoLookup <=> query'[p].pc = "filtering" /\ j \in query'[p].ids
               /\ lookup'[p][j].pc \in {"detail", "getting", "sent", "awaiting"} =>
                    IF query'[p].source = "performers" THEN lookup'[p][j].key \in Key
                    ELSE lookup'[p][j].pc \in {"getting", "sent"}
    <3>1. CASE p = q /\ j = i
      BY <1>2, <1>3, <1>7, <1>8, <3>1 DEF QueriesInOrder
    <3>2. CASE p # q \/ j # i
      <4>1. lookup'[p][j] = lookup[p][j]
        BY <1>8, <3>2
      <4> QED BY <1>2, <4>1 DEF QueriesInOrder
    <3> QED BY <3>1, <3>2
  <2> QED BY <2>1, <2>2 DEF QueriesInOrder
<1>11. WhoAsks'
  BY <1>7, <1>8, SMTT(40) DEF WhoAsks, Asking, s
<1> QED BY <1>9, <1>10, <1>11 DEF EntriesAreOfTheirDay, IdentitiesAreRecent, WasSo, Own, There, Details

LEMMA LookUpKeeps ==
  ASSUME IdentitiesInv, NEW q \in Query, NEW i \in Ident, LookUp(q, i)
  PROVE  IdentitiesInv'
<1> USE DEF IdentitiesInv
<1> DEFINE site == <<"performer-sites", i>>
           v == [pc |-> "detail", key |-> <<"performers", i>>]
<1>1. /\ lookup[q][i].pc = "queued" /\ query[q].source = "performers"
      /\ UNCHANGED <<day, number, left, cacheFile, client, query, asked>>
  BY DEF LookUp
<1>2. site \in Key /\ <<"performers", i>> \in Key
  BY DEF Key
<1>3. CASE client[query[q].session].details[site] # NoEntry
  <2>1. Joins(q, i, site)
    BY <1>3 DEF LookUp, Details, Home
  <2> QED BY <1>1, <1>2, <1>3, <2>1, JoinsKeeps
<1>4. CASE client[query[q].session].details[site] = NoEntry
  <2>1. lookup' = [lookup EXCEPT ![q][i] = v]
    BY <1>4 DEF LookUp, Details, Home
  <2>2. v \in UnderWay /\ v.pc = "detail" /\ v.key \in Key
    BY <1>2 DEF UnderWay
  <2> HIDE DEF v, site
  <2>3. v \in Lookups
    BY <2>2 DEF Lookups
  <2>4. v # NoLookup
    BY <2>2, IdentityValues
  <2>5. /\ lookup' \in [Query -> [Ident -> Lookups]] /\ lookup'[q][i] = v
        /\ \A p \in Query, j \in Ident : p # q \/ j # i => lookup'[p][j] = lookup[p][j]
    <3>8. IdentitiesInv
      OBVIOUS
    <3> HIDE DEF IdentitiesInv
    <3>9. OnlyLookupIs(q, i, v)
      BY <3>8, <2>1, <2>3, LookupMoves
    <3> QED BY <3>9 DEF OnlyLookupIs
  <2>6. TypeOKIdentities'
    BY <1>1, <2>5 DEF TypeOKIdentities
  <2>7. lookup[q][i] # NoLookup
    BY <1>1, IdentityValues
  <2>8. QueriesInOrder'
    <3>1. \A p \in Query : query'[p] # NoQuery => client'[query'[p].session] # NoClient
      BY <1>1 DEF QueriesInOrder
    <3>2. ASSUME NEW p \in Query, NEW j \in Ident
          PROVE  /\ lookup'[p][j] # NoLookup <=> query'[p].pc = "filtering" /\ j \in query'[p].ids
                 /\ lookup'[p][j].pc \in {"detail", "getting", "sent", "awaiting"} =>
                      IF query'[p].source = "performers" THEN lookup'[p][j].key \in Key
                      ELSE lookup'[p][j].pc \in {"getting", "sent"}
      <4>1. CASE p = q /\ j = i
        BY <1>1, <2>2, <2>4, <2>5, <2>7, <4>1 DEF QueriesInOrder
      <4>2. CASE p # q \/ j # i
        <5>1. lookup'[p][j] = lookup[p][j]
          BY <2>5, <4>2
        <5> QED BY <1>1, <5>1 DEF QueriesInOrder
      <4> QED BY <4>1, <4>2
    <3> QED BY <3>1, <3>2 DEF QueriesInOrder
  <2>9. WhoAsks'
    BY <1>1, <2>2, <2>5, SMTT(40) DEF WhoAsks, Asking
  <2> QED BY <1>1, <2>6, <2>8, <2>9 DEF EntriesAreOfTheirDay, IdentitiesAreRecent, WasSo, Own, There, Details
<1> QED BY <1>3, <1>4

LEMMA DetailKeeps ==
  ASSUME IdentitiesInv, NEW q \in Query, NEW i \in Ident, Detail(q, i)
  PROVE  IdentitiesInv'
<1> USE DEF IdentitiesInv
<1>1. /\ lookup[q][i].pc = "detail"
      /\ UNCHANGED <<day, number, left, cacheFile, query, asked>>
  BY DEF Detail
<1>2. lookup[q][i] \in Lookups /\ lookup[q][i] # NoLookup
  BY <1>1, IdentityValues DEF TypeOKIdentities
<1>3. query[q].pc = "filtering" /\ query[q] # NoQuery /\ query[q] \in Queries
  BY <1>2, IdentityValues DEF QueriesInOrder, TypeOKIdentities
<1>4. PICK s \in Session : s = query[q].session /\ client[s] # NoClient /\ client[s] \in Clients
  BY <1>3, SessionOfQuery
<1>5. PICK k \in Key : k = lookup[q][i].key /\ query[q].source = "performers"
  BY <1>1 DEF QueriesInOrder
<1> DEFINE v == [pc |-> "getting", key |-> k]
<1>6. CASE client[s].details[k] # NoEntry
  <2>1. Joins(q, i, k) /\ client' = client
    BY <1>4, <1>5, <1>6 DEF Detail, Details, Home
  <2> QED BY <1>1, <1>4, <1>5, <1>6, <2>1, JoinsKeeps
<1>7. CASE client[s].details[k] = NoEntry
  <2>1. lookup' = [lookup EXCEPT ![q][i] = v] /\ client' = [client EXCEPT ![s].details[k] = Loading]
    BY <1>4, <1>5, <1>7 DEF Detail, Details, Home
  <2>2. v \in UnderWay /\ v.pc = "getting" /\ v.key = k
    BY <1>5 DEF UnderWay
  <2> HIDE DEF v
  <2>3. v \in Lookups
    BY <2>2 DEF Lookups
  <2>4. v # NoLookup
    BY <2>2, IdentityValues
  <2>5. /\ lookup' \in [Query -> [Ident -> Lookups]] /\ lookup'[q][i] = v
        /\ \A p \in Query, j \in Ident : p # q \/ j # i => lookup'[p][j] = lookup[p][j]
    <3>8. IdentitiesInv
      OBVIOUS
    <3> HIDE DEF IdentitiesInv
    <3>9. OnlyLookupIs(q, i, v)
      BY <3>8, <2>1, <2>3, LookupMoves
    <3> QED BY <3>9 DEF OnlyLookupIs
  <2>6. /\ client' \in [Session -> {NoClient} \cup Clients]
        /\ \A r \in Session \ {s} : client'[r] = client[r]
        /\ client'[s] \in Clients /\ client'[s].since = client[s].since
        /\ client'[s].tags = client[s].tags /\ client'[s].mu = client[s].mu
        /\ client'[s].details[k] = Loading
        /\ \A j \in Key \ {k} : client'[s].details[j] = client[s].details[j]
    <3>1. Loading \in {NoEntry, Loading} \cup ReadyEntries
      OBVIOUS
    <3> DEFINE d == [client[s].details EXCEPT ![k] = Loading]
    <3>2. client' = [client EXCEPT ![s] = [client[s] EXCEPT !.details = d]]
      BY <2>1
    <3> HIDE DEF d
    <3>3. d = [client[s].details EXCEPT ![k] = Loading]
      BY DEF d
    <3>4. client[s] # NoClient
      BY <1>4
    <3>5. IdentitiesInv
      OBVIOUS
    <3> HIDE DEF IdentitiesInv
    <3>6. OnlyDetailIs(s, k, Loading)
      BY <3>1, <3>2, <3>3, <3>4, <3>5, DetailIsSet
    <3> QED BY <3>6 DEF OnlyDetailIs
  <2>7. TypeOKIdentities'
    BY <1>1, <2>5, <2>6 DEF TypeOKIdentities
  <2>8. client'[s] # NoClient
    BY <2>6, IdentityValues
  <2>9. QueriesInOrder'
    <3>1. ASSUME NEW p \in Query, query[p] # NoQuery
          PROVE  client'[query[p].session] # NoClient
      BY <2>6, <2>8, <3>1, SessionOfQuery
    <3>2. \A p \in Query, j \in Ident :
            /\ lookup'[p][j] # NoLookup <=> query[p].pc = "filtering" /\ j \in query[p].ids
            /\ lookup'[p][j].pc \in {"detail", "getting", "sent", "awaiting"} =>
                 IF query[p].source = "performers" THEN lookup'[p][j].key \in Key
                 ELSE lookup'[p][j].pc \in {"getting", "sent"}
      BY <1>2, <1>5, <2>2, <2>4, <2>5 DEF QueriesInOrder
    <3> QED BY <1>1, <3>1, <3>2 DEF QueriesInOrder, NoQuery, NoClient, NoLookup
  <2>10. Loading.state # "ready"
    BY IdentityValues
  <2>11. EntriesAreOfTheirDay' /\ IdentitiesAreRecent'
    BY <1>1, <1>4, <2>6, <2>10, EntriesStayTrue
  <2>12. Asking(q, i, s, "performers")' /\ lookup'[q][i].key = k
    BY <1>1, <1>3, <1>4, <1>5, <2>2, <2>5 DEF Asking
  <2>13. \A p \in Query, j \in Ident, r \in Session, source \in {"performers", "tags"} :
           Asking(p, j, r, source) => Asking(p, j, r, source)' /\ lookup'[p][j].key = lookup[p][j].key
    BY <1>1, <2>5 DEF Asking
  <2>14. WhoAsks'
    <3>1. ASSUME NEW r \in Session, client'[r] # NoClient, NEW j \in Key, client'[r].details[j] = Loading
          PROVE  \E p \in Query, h \in Ident : Asking(p, h, r, "performers")' /\ lookup'[p][h].key = j
      <4>1. CASE r = s /\ j = k
        BY <2>12, <4>1
      <4>2. CASE ~(r = s /\ j = k)
        BY <1>4, <2>6, <2>13, <3>1, <4>2, SMTT(40) DEF WhoAsks
      <4> QED BY <4>1, <4>2
    <3>2. ASSUME NEW r \in Session, client'[r] # NoClient, client'[r].mu # Nobody
          PROVE  \E p \in Query, h \in Ident : Asking(p, h, r, "tags")'
      BY <1>4, <2>6, <2>13, <3>2 DEF WhoAsks
    <3>3. ASSUME NEW p \in Query, NEW j \in Ident, lookup'[p][j].pc = "awaiting"
          PROVE  client'[query'[p].session].details[lookup'[p][j].key] = Loading
      <4>1. lookup'[p][j] = lookup[p][j] /\ query'[p] = query[p]
        BY <1>1, <2>2, <2>5, <3>3
      <4>2. client[query[p].session].details[lookup[p][j].key] = Loading
        BY <3>3, <4>1 DEF WhoAsks
      <4>3. lookup[p][j].key \in Key
        BY <3>3, <4>1 DEF QueriesInOrder
      <4>4. query[p].session \in Session
        <5>1. lookup[p][j] # NoLookup
          BY <3>3, <4>1, IdentityValues
        <5>2. query[p].pc = "filtering"
          BY <5>1 DEF QueriesInOrder
        <5> QED BY <5>2, IdentityValues, SessionOfQuery
      <4> QED BY <2>6, <4>1, <4>2, <4>3, <4>4
    <3> QED BY <3>1, <3>2, <3>3 DEF WhoAsks, NoClient, Nobody, Loading
  <2> QED BY <2>7, <2>9, <2>11, <2>14
<1> QED BY <1>6, <1>7

\* An answer is for the lookup that asked and for all who wait for its key.
LEMMA AnswerKeeps ==
  ASSUME IdentitiesInv, NEW q \in Query, NEW i \in Ident, NEW e, Answer(q, i, e)
  PROVE  IdentitiesInv'
<1>1. /\ lookup[q][i].pc = "sent" /\ query[q].source = "performers"
      /\ UNCHANGED <<day, number, left, cacheFile, query, asked>>
      /\ e \in {Answered(lookup[q][i].key), Failed}
      /\ client' = [client EXCEPT ![query[q].session].details[lookup[q][i].key] = e]
      /\ lookup' = [p \in Query |-> [j \in Ident |->
           IF \/ p = q /\ j = i
              \/ /\ p \in QueriesOf(query[q].session)
                 /\ lookup[p][j] = [pc |-> "awaiting", key |-> lookup[q][i].key]
           THEN Concluded(e, lookup[q][i].key) ELSE lookup[p][j]]]
  BY DEF Answer, Home
<1>2. lookup[q][i] \in Lookups /\ lookup[q][i] # NoLookup
  BY <1>1, IdentityValues DEF IdentitiesInv, TypeOKIdentities
<1>3. query[q].pc = "filtering" /\ query[q] # NoQuery
  BY <1>2, IdentityValues DEF IdentitiesInv, QueriesInOrder
<1>4. PICK s \in Session : s = query[q].session /\ client[s] # NoClient /\ client[s] \in Clients
  BY <1>3, SessionOfQuery
<1>5. PICK k \in Key : k = lookup[q][i].key
  BY <1>1 DEF IdentitiesInv, QueriesInOrder
<1>6. e \in ReadyEntries /\ e.state = "ready" /\ e # Loading /\ e.day = day /\ (e.failed \/ WasSo(k, e))
  <2>1. day \in Nat /\ k[2] \in Ident /\ number[k[2]] \in Nat
    BY DEF IdentitiesInv, TypeOKIdentities, Key
  <2>2. CASE e = Failed
    BY <2>1, <2>2, IdentityValues DEF Failed, ReadyEntries
  <2>3. CASE e = Answered(k)
    <3>1. /\ e \in ReadyEntries /\ e.day = day
          /\ e.number = IF Own(k) THEN number[k[2]] ELSE 0
      BY <2>1, <2>3 DEF Answered, Ready, ReadyEntries
    <3> QED BY <3>1, IdentityValues DEF WasSo
  <2> QED BY <1>1, <1>5, <2>2, <2>3
<1> DEFINE c == Concluded(e, k)
           Gets(p, j) == \/ p = q /\ j = i
                         \/ p \in QueriesOf(s) /\ lookup[p][j] = [pc |-> "awaiting", key |-> k]
<1>7. c \in Lookups /\ c # NoLookup /\ c.pc \in {"detail", "done"} /\ (c.pc = "detail" => c.key \in Key)
  BY <1>6, ConcludedIsLookup
<1>8. \A p \in Query, j \in Ident :
        /\ Gets(p, j) => lookup'[p][j] = c
        /\ ~Gets(p, j) => lookup'[p][j] = lookup[p][j]
        /\ Gets(p, j) => lookup[p][j] # NoLookup /\ query[p].source = "performers"
        /\ Gets(p, j) /\ lookup[p][j].pc \in {"getting", "sent"} => p = q /\ j = i
  <2>1. \A p \in Query, j \in Ident : lookup'[p][j] = IF Gets(p, j) THEN c ELSE lookup[p][j]
    BY <1>1, <1>4, <1>5
  <2>2. ASSUME NEW p \in Query, NEW j \in Ident, lookup[p][j] = [pc |-> "awaiting", key |-> k]
        PROVE  /\ lookup[p][j] # NoLookup /\ query[p].source = "performers"
               /\ lookup[p][j].pc \notin {"getting", "sent"}
    BY <2>2, IdentityValues DEF IdentitiesInv, QueriesInOrder
  <2> HIDE DEF c
  <2> QED BY <1>1, <1>2, <2>1, <2>2
<1>9. lookup' \in [Query -> [Ident -> Lookups]]
  <2>1. \A p \in Query, j \in Ident : lookup'[p][j] \in Lookups
    BY <1>7, <1>8 DEF IdentitiesInv, TypeOKIdentities
  <2>2. lookup' = [p \in Query |-> [j \in Ident |-> lookup'[p][j]]]
    BY <1>1
  <2> QED BY <2>1, <2>2
<1>10. \A p \in Query : query[p] # NoQuery /\ query[p].session = s => p \in QueriesOf(s)
  BY DEF QueriesOf, Home
<1> HIDE DEF c
<1>11. /\ client' \in [Session -> {NoClient} \cup Clients]
       /\ \A r \in Session \ {s} : client'[r] = client[r]
       /\ client'[s] \in Clients /\ client'[s].since = client[s].since
       /\ client'[s].tags = client[s].tags /\ client'[s].mu = client[s].mu
       /\ client'[s].details[k] = e
       /\ \A j \in Key \ {k} : client'[s].details[j] = client[s].details[j]
  <2>1. e \in {NoEntry, Loading} \cup ReadyEntries
    BY <1>6
  <2> DEFINE d == [client[s].details EXCEPT ![k] = e]
  <2>2. client' = [client EXCEPT ![s] = [client[s] EXCEPT !.details = d]]
    BY <1>1, <1>4, <1>5
  <2> HIDE DEF d
  <2>3. d = [client[s].details EXCEPT ![k] = e]
    BY DEF d
  <2>4. client[s] # NoClient
    BY <1>4
  <2>5. OnlyDetailIs(s, k, e)
    BY <2>1, <2>2, <2>3, <2>4, DetailIsSet
  <2> QED BY <2>5 DEF OnlyDetailIs
<1>12. client'[s] # NoClient
  BY <1>11, IdentityValues
<1>13. TypeOKIdentities'
  BY <1>1, <1>9, <1>11, SMTT(40) DEF IdentitiesInv, TypeOKIdentities
<1>14. QueriesInOrder'
  <2>1. ASSUME NEW p \in Query, query[p] # NoQuery
        PROVE  client'[query[p].session] # NoClient
    BY <1>11, <1>12, <2>1, SessionOfQuery
  <2>2. \A p \in Query, j \in Ident :
          /\ lookup'[p][j] # NoLookup <=> query[p].pc = "filtering" /\ j \in query[p].ids
          /\ lookup'[p][j].pc \in {"detail", "getting", "sent", "awaiting"} =>
               IF query[p].source = "performers" THEN lookup'[p][j].key \in Key
               ELSE lookup'[p][j].pc \in {"getting", "sent"}
    <3> HIDE DEF Gets
    <3> QED BY <1>7, <1>8 DEF IdentitiesInv, QueriesInOrder
  <2> QED BY <1>1, <2>1, <2>2 DEF QueriesInOrder, NoQuery, NoClient, NoLookup
<1>15. EntriesAreOfTheirDay' /\ IdentitiesAreRecent'
  <2>1. ASSUME NEW r \in Session, client'[r] # NoClient
        PROVE  /\ client[r] # NoClient /\ client'[r].since = client[r].since
               /\ \A j \in Key :
                    \/ client'[r].details[j] = client[r].details[j]
                    \/ client'[r].details[j].state # "ready"
                    \/ /\ client'[r].details[j].day = day
                       /\ client'[r].details[j].failed \/ WasSo(j, client'[r].details[j])
    <3>1. CASE r = s
      BY <1>4, <1>6, <1>11, <3>1
    <3>2. CASE r # s
      BY <1>11, <2>1, <3>2
    <3> QED BY <3>1, <3>2, SMTT(40)
  <2>2. /\ UNCHANGED <<day, number, left, cacheFile>>
        /\ \A p \in Query : query'[p] = query[p]
    BY <1>1
  <2> QED BY <2>1, <2>2, EntriesStayTrue
<1>16. \A p \in Query, j \in Ident, r \in Session, source \in {"performers", "tags"} :
         Asking(p, j, r, source) /\ ~(p = q /\ j = i) => Asking(p, j, r, source)' /\ lookup'[p][j] = lookup[p][j]
  <2> HIDE DEF Gets
  <2> QED BY <1>1, <1>8 DEF Asking
<1>17. WhoAsks'
  <2>1. ASSUME NEW r \in Session, client'[r] # NoClient, NEW j \in Key, client'[r].details[j] = Loading
        PROVE  \E p \in Query, h \in Ident : Asking(p, h, r, "performers")' /\ lookup'[p][h].key = j
    <3>1. ~(r = s /\ j = k) /\ client[r] # NoClient /\ client[r].details[j] = Loading
      BY <1>4, <1>6, <1>11, <2>1
    <3>2. PICK p \in Query, h \in Ident : Asking(p, h, r, "performers") /\ lookup[p][h].key = j
      BY <3>1 DEF IdentitiesInv, WhoAsks
    <3>3. ~(p = q /\ h = i)
      BY <1>4, <1>5, <3>1, <3>2 DEF Asking
    <3> QED BY <1>16, <3>2, <3>3
  <2>2. ASSUME NEW r \in Session, client'[r] # NoClient, client'[r].mu # Nobody
        PROVE  \E p \in Query, h \in Ident : Asking(p, h, r, "tags")'
    <3>1. client[r] # NoClient /\ client[r].mu # Nobody
      BY <1>4, <1>11, <2>2
    <3>2. PICK p \in Query, h \in Ident : Asking(p, h, r, "tags")
      BY <3>1 DEF IdentitiesInv, WhoAsks
    <3>3. ~(p = q /\ h = i)
      BY <1>1, <3>2 DEF Asking
    <3> QED BY <1>16, <3>2, <3>3
  <2>3. ASSUME NEW p \in Query, NEW j \in Ident, lookup'[p][j].pc = "awaiting"
        PROVE  client'[query'[p].session].details[lookup'[p][j].key] = Loading
    <3>1. ~Gets(p, j) /\ lookup'[p][j] = lookup[p][j] /\ query'[p] = query[p]
      BY <1>1, <1>7, <1>8, <2>3
    <3>2. client[query[p].session].details[lookup[p][j].key] = Loading
      BY <2>3, <3>1 DEF IdentitiesInv, WhoAsks
    <3>3. lookup[p][j].key \in Key
      BY <2>3, <3>1 DEF IdentitiesInv, QueriesInOrder
    <3>4. lookup[p][j] # NoLookup /\ lookup[p][j] \in UnderWay
      BY <2>3, <3>1, IdentityValues DEF IdentitiesInv, TypeOKIdentities
    <3>5. query[p] # NoQuery
      BY <3>4, IdentityValues DEF IdentitiesInv, QueriesInOrder
    <3>6. query[p].session \in Session
      BY <3>5, SessionOfQuery
    <3>7. ~(query[p].session = s /\ lookup[p][j].key = k)
      <4> SUFFICES ASSUME query[p].session = s, lookup[p][j].key = k PROVE FALSE
        OBVIOUS
      <4>1. lookup[p][j] = [pc |-> "awaiting", key |-> k]
        BY <2>3, <3>1, <3>4 DEF UnderWay
      <4> QED BY <1>10, <3>1, <3>5, <4>1
    <3> QED BY <1>11, <3>1, <3>2, <3>3, <3>6, <3>7
  <2> QED BY <2>1, <2>2, <2>3 DEF WhoAsks, NoClient, Nobody, Loading
<1> QED BY <1>13, <1>14, <1>15, <1>17 DEF IdentitiesInv

-----------------------------------------------------------------------------
(* The tags.                                                               *)

\* What a client is given with mu and the tags.
LEMMA MuIsSet ==
  ASSUME IdentitiesInv, NEW s \in Session, client[s] # NoClient,
         NEW t \in BOOLEAN, NEW m \in {Nobody} \cup (Query \X Ident),
         client' = [client EXCEPT ![s] = [since |-> client[s].since, details |-> client[s].details,
                                          tags |-> t, mu |-> m]]
  PROVE  /\ client' \in [Session -> {NoClient} \cup Clients]
         /\ \A r \in Session \ {s} : client'[r] = client[r]
         /\ client'[s] # NoClient /\ client'[s].since = client[s].since
         /\ client'[s].details = client[s].details /\ client'[s].mu = m
<1> DEFINE c == [since |-> client[s].since, details |-> client[s].details, tags |-> t, mu |-> m]
<1>1. client[s] \in Clients /\ client \in [Session -> {NoClient} \cup Clients]
  BY DEF IdentitiesInv, TypeOKIdentities
<1>2. /\ c \in Clients /\ c.since = client[s].since /\ c.details = client[s].details /\ c.mu = m
  BY <1>1 DEF Clients
<1> HIDE DEF c
<1>3. client' = [client EXCEPT ![s] = c]
  BY DEF c
<1> QED BY <1>1, <1>2, <1>3, IdentityValues

\* One lookup of tags moves; who holds mu asks.
LEMMA TagsMoveKeeps ==
  ASSUME IdentitiesInv, NEW q \in Query, NEW i \in Ident, NEW s \in Session, s = query[q].session,
         query[q] # NoQuery, query[q].source = "tags", lookup[q][i] # NoLookup,
         NEW v \in Lookups, v # NoLookup, v.pc \in {"getting", "done"},
         lookup' = [lookup EXCEPT ![q][i] = v],
         client' \in [Session -> {NoClient} \cup Clients],
         \A r \in Session \ {s} : client'[r] = client[r],
         client'[s] # NoClient, client'[s].since = client[s].since, client'[s].details = client[s].details,
         client'[s].mu = Nobody \/ v.pc = "getting",
         UNCHANGED <<day, number, left, cacheFile, query, asked>>
  PROVE  IdentitiesInv'
<1>1. /\ lookup' \in [Query -> [Ident -> Lookups]] /\ lookup'[q][i] = v
      /\ \A p \in Query, j \in Ident : p # q \/ j # i => lookup'[p][j] = lookup[p][j]
  <2>1. OnlyLookupIs(q, i, v)
    BY LookupMoves
  <2> QED BY <2>1 DEF OnlyLookupIs
<1>2. TypeOKIdentities'
  BY <1>1 DEF IdentitiesInv, TypeOKIdentities
<1>3. \A r \in Session : client'[r] # NoClient =>
        client[r] # NoClient /\ client'[r].since = client[r].since /\ client'[r].details = client[r].details
  BY SessionOfQuery
<1>4. EntriesAreOfTheirDay' /\ IdentitiesAreRecent'
  BY <1>3, EntriesStayTrue
<1>5. QueriesInOrder'
  <2>1. ASSUME NEW p \in Query, query[p] # NoQuery
        PROVE  client'[query[p].session] # NoClient
    BY <2>1, SessionOfQuery
  <2>2. \A p \in Query, j \in Ident :
          /\ lookup'[p][j] # NoLookup <=> query[p].pc = "filtering" /\ j \in query[p].ids
          /\ lookup'[p][j].pc \in {"detail", "getting", "sent", "awaiting"} =>
               IF query[p].source = "performers" THEN lookup'[p][j].key \in Key
               ELSE lookup'[p][j].pc \in {"getting", "sent"}
    BY <1>1 DEF IdentitiesInv, QueriesInOrder
  <2> QED BY <2>1, <2>2 DEF QueriesInOrder, NoQuery, NoClient, NoLookup
<1>6. /\ \A p \in Query, j \in Ident, r \in Session :
           /\ Asking(p, j, r, "performers") => Asking(p, j, r, "performers")' /\ lookup'[p][j] = lookup[p][j]
           /\ r # s /\ Asking(p, j, r, "tags") => Asking(p, j, r, "tags")'
      /\ v.pc = "getting" => Asking(q, i, s, "tags")'
  BY <1>1, SMTT(40) DEF Asking
<1>7. WhoAsks'
  <2>1. ASSUME NEW r \in Session, client'[r] # NoClient, NEW j \in Key, client'[r].details[j] = Loading
        PROVE  \E p \in Query, h \in Ident : Asking(p, h, r, "performers")' /\ lookup'[p][h].key = j
    <3>1. client[r] # NoClient /\ client[r].details[j] = Loading
      BY <1>3, <2>1
    <3>2. PICK p \in Query, h \in Ident : Asking(p, h, r, "performers") /\ lookup[p][h].key = j
      BY <3>1 DEF IdentitiesInv, WhoAsks
    <3> QED BY <1>6, <3>2
  <2>2. ASSUME NEW r \in Session, client'[r] # NoClient, client'[r].mu # Nobody
        PROVE  \E p \in Query, h \in Ident : Asking(p, h, r, "tags")'
    <3>1. CASE r = s
      BY <1>6, <2>2, <3>1
    <3>2. CASE r # s
      <4>1. PICK p \in Query, h \in Ident : Asking(p, h, r, "tags")
        BY <2>2, <3>2 DEF IdentitiesInv, WhoAsks
      <4> QED BY <1>6, <3>2, <4>1
    <3> QED BY <3>1, <3>2
  <2>3. ASSUME NEW p \in Query, NEW j \in Ident, lookup'[p][j].pc = "awaiting"
        PROVE  client'[query'[p].session].details[lookup'[p][j].key] = Loading
    <3>1. lookup'[p][j] = lookup[p][j] /\ query'[p] = query[p]
      BY <1>1, <2>3
    <3>2. client[query[p].session].details[lookup[p][j].key] = Loading
      BY <2>3, <3>1 DEF IdentitiesInv, WhoAsks
    <3>3. lookup[p][j] # NoLookup
      BY <2>3, <3>1, IdentityValues
    <3>4. query[p] # NoQuery
      BY <3>3, IdentityValues DEF IdentitiesInv, QueriesInOrder
    <3>5. query[p].session \in Session
      BY <3>4, SessionOfQuery
    <3> QED BY <3>1, <3>2, <3>5
  <2> QED BY <2>1, <2>2, <2>3 DEF WhoAsks, NoClient, Nobody, Loading
<1> QED BY <1>2, <1>4, <1>5, <1>7 DEF IdentitiesInv

LEMMA ReadTagsKeeps ==
  ASSUME IdentitiesInv, NEW q \in Query, NEW i \in Ident, ReadTags(q, i)
  PROVE  IdentitiesInv'
<1>1. /\ lookup[q][i].pc = "queued" /\ query[q].source = "tags" /\ client[query[q].session].mu = Nobody
      /\ UNCHANGED <<day, number, left, cacheFile, query, asked>>
  BY DEF ReadTags, Free, Home
<1>2. lookup[q][i] # NoLookup
  BY <1>1, IdentityValues
<1>3. query[q] # NoQuery
  BY <1>2, IdentityValues DEF IdentitiesInv, QueriesInOrder
<1>4. PICK s \in Session : s = query[q].session /\ client[s] # NoClient /\ client[s] \in Clients
  BY <1>3, SessionOfQuery
<1>5. CASE client[s].tags
  <2> DEFINE v == [pc |-> "done", number |-> 1, failed |-> FALSE]
  <2>1. lookup' = [lookup EXCEPT ![q][i] = v] /\ client' = client
    BY <1>4, <1>5 DEF ReadTags, Home, Done
  <2>2. v \in [pc : {"done"}, number : Nat, failed : {FALSE}] /\ v.pc = "done"
    OBVIOUS
  <2> HIDE DEF v
  <2>3. v \in Lookups /\ v # NoLookup
    BY <2>2, IdentityValues DEF Lookups
  <2>4. /\ client' \in [Session -> {NoClient} \cup Clients]
        /\ \A r \in Session \ {s} : client'[r] = client[r]
        /\ client'[s] # NoClient /\ client'[s].since = client[s].since
        /\ client'[s].details = client[s].details /\ client'[s].mu = Nobody
    BY <1>1, <1>4, <2>1 DEF IdentitiesInv, TypeOKIdentities
  <2> QED BY <1>1, <1>2, <1>3, <1>4, <2>1, <2>2, <2>3, <2>4, TagsMoveKeeps, ZenonT(60)
<1>6. CASE ~client[s].tags
  <2> DEFINE v == [pc |-> "getting", key |-> "tags"]
             m == <<q, i>>
  <2>1. lookup' = [lookup EXCEPT ![q][i] = v] /\ client' = [client EXCEPT ![s].mu = m]
    BY <1>4, <1>6 DEF ReadTags, Home
  <2>2. v \in UnderWay /\ v.pc = "getting" /\ m \in {Nobody} \cup (Query \X Ident)
    BY DEF UnderWay
  <2> HIDE DEF v, m
  <2>3. v \in Lookups /\ v # NoLookup
    BY <2>2, IdentityValues DEF Lookups
  <2>4. client' = [client EXCEPT ![s] = [since |-> client[s].since, details |-> client[s].details,
                                         tags |-> client[s].tags, mu |-> m]]
    <3> DEFINE c == [since |-> client[s].since, details |-> client[s].details,
                     tags |-> client[s].tags, mu |-> m]
    <3>1. [client[s] EXCEPT !.mu = m] = c
      BY <1>4 DEF Clients
    <3> HIDE DEF c
    <3>2. client' = [client EXCEPT ![s] = c]
      BY <2>1, <3>1
    <3> QED BY <3>2 DEF c
  <2>5. client[s].tags \in BOOLEAN
    BY <1>4 DEF Clients
  <2>6. /\ client' \in [Session -> {NoClient} \cup Clients]
        /\ \A r \in Session \ {s} : client'[r] = client[r]
        /\ client'[s] # NoClient /\ client'[s].since = client[s].since
        /\ client'[s].details = client[s].details
    BY <1>4, <2>2, <2>4, <2>5, MuIsSet
  <2>7. /\ s = query[q].session /\ query[q].source = "tags" /\ v.pc \in {"getting", "done"}
        /\ client'[s].mu = Nobody \/ v.pc = "getting"
        /\ UNCHANGED <<day, number, left, cacheFile, query, asked>>
    BY <1>1, <1>4, <2>2
  <2> QED BY <1>2, <1>3, <2>1, <2>3, <2>6, <2>7, TagsMoveKeeps
<1> QED BY <1>5, <1>6

LEMMA TagsArriveKeeps ==
  ASSUME IdentitiesInv, NEW q \in Query, NEW i \in Ident, NEW fails \in BOOLEAN, TagsArrive(q, i, fails)
  PROVE  IdentitiesInv'
<1> DEFINE v == IF fails THEN Broken ELSE Done(1)
<1>1. /\ lookup[q][i].pc = "sent" /\ query[q].source = "tags"
      /\ lookup' = [lookup EXCEPT ![q][i] = v]
      /\ UNCHANGED <<day, number, left, cacheFile, query, asked>>
  BY DEF TagsArrive
<1>2. lookup[q][i] # NoLookup
  BY <1>1, IdentityValues
<1>3. query[q] # NoQuery
  BY <1>2, IdentityValues DEF IdentitiesInv, QueriesInOrder
<1>4. PICK s \in Session : s = query[q].session /\ client[s] # NoClient /\ client[s] \in Clients
  BY <1>3, SessionOfQuery
<1>5. v \in Lookups /\ v.pc = "done" /\ v # NoLookup
  <2>1. Done(1) \in [pc : {"done"}, number : Nat, failed : {FALSE}] /\ Done(1).pc = "done"
    BY DEF Done
  <2> QED BY <2>1, IdentityValues DEF Lookups
<1> HIDE DEF v
<1> DEFINE t == ~fails
<1>6. t \in BOOLEAN
  OBVIOUS
<1>7. client' = [client EXCEPT ![s].tags = t, ![s].mu = Nobody]
  BY <1>4 DEF TagsArrive, Home
<1> HIDE DEF t
<1>8. client' = [client EXCEPT ![s] = [since |-> client[s].since, details |-> client[s].details,
                                       tags |-> t, mu |-> Nobody]]
  <2> DEFINE c == [since |-> client[s].since, details |-> client[s].details, tags |-> t, mu |-> Nobody]
  <2>1. [[client[s] EXCEPT !.tags = t] EXCEPT !.mu = Nobody] = c
    <3>1. client[s] = [since |-> client[s].since, details |-> client[s].details,
                       tags |-> client[s].tags, mu |-> client[s].mu]
      BY <1>4 DEF Clients
    <3> DEFINE e == [client[s] EXCEPT !.tags = t]
    <3>2. e = [since |-> client[s].since, details |-> client[s].details, tags |-> t, mu |-> client[s].mu]
      BY <3>1
    <3> HIDE DEF e
    <3>3. [e EXCEPT !.mu = Nobody] = c
      BY <3>2
    <3> QED BY <3>3 DEF e
  <2>2. client' = [client EXCEPT ![s] = [[client[s] EXCEPT !.tags = t] EXCEPT !.mu = Nobody]]
    BY <1>7 DEF IdentitiesInv, TypeOKIdentities
  <2> HIDE DEF c
  <2>3. client' = [client EXCEPT ![s] = c]
    BY <2>1, <2>2
  <2> QED BY <2>3 DEF c
<1>9. /\ client' \in [Session -> {NoClient} \cup Clients]
      /\ \A r \in Session \ {s} : client'[r] = client[r]
      /\ client'[s] # NoClient /\ client'[s].since = client[s].since
      /\ client'[s].details = client[s].details /\ client'[s].mu = Nobody
  BY <1>4, <1>6, <1>8, MuIsSet
<1> QED BY <1>1, <1>2, <1>3, <1>4, <1>5, <1>9, TagsMoveKeeps

-----------------------------------------------------------------------------
(* A query goes on, or is over.                                            *)

\* A query without requests leaves its filter: nobody waits for it.
LEMMA QueryMoves ==
  ASSUME IdentitiesInv, NEW q \in Query, query[q] # NoQuery,
         \A i \in Ident : lookup[q][i].pc \notin {"getting", "sent"},
         NEW u \in {NoQuery} \cup Queries, u = NoQuery \/ u.session = query[q].session, u.pc # "filtering",
         query' = [query EXCEPT ![q] = u],
         lookup' \in [Query -> [Ident -> Lookups]], \A i \in Ident : lookup'[q][i] = NoLookup,
         \A p \in Query \ {q}, i \in Ident : lookup'[p][i] = lookup[p][i],
         \A s \in Session :
           /\ client'[s] = NoClient <=> client[s] = NoClient
           /\ client'[s].mu = client[s].mu
           /\ \A k \in Key : client'[s].details[k] = Loading <=> client[s].details[k] = Loading
  PROVE  QueriesInOrder' /\ WhoAsks' /\ query' \in [Query -> {NoQuery} \cup Queries]
<1>1. /\ query' \in [Query -> {NoQuery} \cup Queries] /\ query'[q] = u
      /\ \A p \in Query \ {q} : query'[p] = query[p]
  BY DEF IdentitiesInv, TypeOKIdentities
<1>2. QueriesInOrder'
  <2>1. ASSUME NEW p \in Query, query'[p] # NoQuery
        PROVE  client'[query'[p].session] # NoClient
    <3>1. query[p] # NoQuery /\ query'[p].session = query[p].session
      BY <1>1, <2>1
    <3> QED BY <3>1, SessionOfQuery
  <2>2. ASSUME NEW p \in Query, NEW j \in Ident
        PROVE  /\ lookup'[p][j] # NoLookup <=> query'[p].pc = "filtering" /\ j \in query'[p].ids
               /\ lookup'[p][j].pc \in {"detail", "getting", "sent", "awaiting"} =>
                    IF query'[p].source = "performers" THEN lookup'[p][j].key \in Key
                    ELSE lookup'[p][j].pc \in {"getting", "sent"}
    <3>1. CASE p = q
      BY <1>1, <3>1, IdentityValues
    <3>2. CASE p # q
      BY <1>1, <3>2 DEF IdentitiesInv, QueriesInOrder
    <3> QED BY <3>1, <3>2
  <2> QED BY <2>1, <2>2 DEF QueriesInOrder, NoQuery, NoClient, NoLookup
<1>3. \A p \in Query, j \in Ident, r \in Session, source \in {"performers", "tags"} :
        Asking(p, j, r, source) => Asking(p, j, r, source)' /\ lookup'[p][j] = lookup[p][j]
  <2> SUFFICES ASSUME NEW p \in Query, NEW j \in Ident, NEW r \in Session,
                      NEW source \in {"performers", "tags"}, Asking(p, j, r, source)
               PROVE  Asking(p, j, r, source)' /\ lookup'[p][j] = lookup[p][j]
    OBVIOUS
  <2>1. p # q
    BY DEF Asking
  <2>2. lookup'[p][j] = lookup[p][j] /\ query'[p] = query[p]
    BY <1>1, <2>1
  <2> QED BY <2>2 DEF Asking, NoQuery
<1>4. WhoAsks'
  <2>1. ASSUME NEW r \in Session, client'[r] # NoClient, NEW j \in Key, client'[r].details[j] = Loading
        PROVE  \E p \in Query, h \in Ident : Asking(p, h, r, "performers")' /\ lookup'[p][h].key = j
    <3>1. PICK p \in Query, h \in Ident : Asking(p, h, r, "performers") /\ lookup[p][h].key = j
      BY <2>1 DEF IdentitiesInv, WhoAsks
    <3> QED BY <1>3, <3>1
  <2>2. ASSUME NEW r \in Session, client'[r] # NoClient, client'[r].mu # Nobody
        PROVE  \E p \in Query, h \in Ident : Asking(p, h, r, "tags")'
    <3>1. PICK p \in Query, h \in Ident : Asking(p, h, r, "tags")
      BY <2>2 DEF IdentitiesInv, WhoAsks
    <3> QED BY <1>3, <3>1
  <2>3. ASSUME NEW p \in Query, NEW j \in Ident, lookup'[p][j].pc = "awaiting"
        PROVE  client'[query'[p].session].details[lookup'[p][j].key] = Loading
    <3>1. p # q
      BY <2>3, IdentityValues
    <3>2. lookup'[p][j] = lookup[p][j] /\ query'[p] = query[p]
      BY <1>1, <3>1
    <3>3. lookup[p][j] # NoLookup
      BY <2>3, <3>2, IdentityValues
    <3>4. query[p] # NoQuery
      BY <3>3, IdentityValues DEF IdentitiesInv, QueriesInOrder
    <3>5. query[p].session \in Session
      BY <3>4, SessionOfQuery
    <3>6. lookup[p][j].key \in Key /\ client[query[p].session].details[lookup[p][j].key] = Loading
      BY <2>3, <3>2 DEF IdentitiesInv, QueriesInOrder, WhoAsks
    <3> QED BY <3>2, <3>5, <3>6
  <2> QED BY <2>1, <2>2, <2>3 DEF WhoAsks, NoClient, Nobody, Loading
<1> QED BY <1>1, <1>2, <1>4

LEMMA SceneFilterKeeps ==
  ASSUME IdentitiesInv, NEW q \in Query, NEW modifier, SceneFilter(q, modifier)
  PROVE  IdentitiesInv'
<1> DEFINE pc == IF Outcome(q, modifier) = "filtered" THEN "filtered" ELSE "saving"
           u == [session |-> query[q].session, pc |-> pc]
<1>1. /\ query[q].pc = "filtering" /\ Settled(q)
      /\ query' = [query EXCEPT ![q] = u]
      /\ lookup' = [lookup EXCEPT ![q] = [i \in Ident |-> NoLookup]]
      /\ UNCHANGED <<day, number, left, cacheFile, client, asked>>
  BY DEF SceneFilter, Home
<1>2. query[q] # NoQuery
  BY <1>1, IdentityValues
<1>3. query[q].session \in Session
  BY <1>2, SessionOfQuery
<1>4. pc \in {"filtered", "saving"}
  OBVIOUS
<1> HIDE DEF pc
<1>5. u \in Queries /\ u.session = query[q].session /\ u.pc \in {"filtered", "saving"}
  BY <1>3, <1>4 DEF Queries
<1> HIDE DEF u
<1>6. /\ lookup' \in [Query -> [Ident -> Lookups]]
      /\ \A i \in Ident : lookup'[q][i] = NoLookup
      /\ \A p \in Query \ {q}, i \in Ident : lookup'[p][i] = lookup[p][i]
  BY <1>1 DEF IdentitiesInv, TypeOKIdentities, Lookups
<1>7. ASSUME NEW i \in Ident
      PROVE  lookup[q][i].pc \notin {"getting", "sent"}
  <2>1. CASE i \in query[q].ids
    BY <1>1, <2>1 DEF Settled
  <2>2. CASE i \notin query[q].ids
    BY <2>2, IdentityValues DEF IdentitiesInv, QueriesInOrder
  <2> QED BY <2>1, <2>2
<1>8. \A s \in Session :
        /\ client'[s] = NoClient <=> client[s] = NoClient
        /\ client'[s].mu = client[s].mu
        /\ \A k \in Key : client'[s].details[k] = Loading <=> client[s].details[k] = Loading
  BY <1>1
<1>9. QueriesInOrder' /\ WhoAsks' /\ query' \in [Query -> {NoQuery} \cup Queries]
  <2>1. u \in {NoQuery} \cup Queries /\ u.pc # "filtering" /\ query' = [query EXCEPT ![q] = u]
    BY <1>1, <1>5
  <2> QED BY <1>2, <1>5, <1>6, <1>7, <1>8, <2>1, QueryMoves
<1>10. TypeOKIdentities'
  BY <1>1, <1>6, <1>9 DEF IdentitiesInv, TypeOKIdentities
<1>11. \A p \in Query : query'[p].pc = "listed" => query'[p] = query[p]
  BY <1>1, <1>5 DEF IdentitiesInv, TypeOKIdentities
<1>12. EntriesAreOfTheirDay' /\ IdentitiesAreRecent'
  BY <1>1, <1>11, EntriesStayTrue
<1> QED BY <1>9, <1>10, <1>12 DEF IdentitiesInv

\* A query that does not filter has no lookups.
LEMMA WithoutLookups ==
  ASSUME IdentitiesInv, NEW q \in Query, query[q].pc # "filtering"
  PROVE  \A i \in Ident : lookup[q][i] = NoLookup /\ lookup[q][i].pc \notin {"getting", "sent"}
  BY IdentityValues DEF IdentitiesInv, QueriesInOrder

\* It goes on with the lookups and the cache file as they are.
LEMMA QueryGoesOn ==
  ASSUME IdentitiesInv, NEW q \in Query, query[q] # NoQuery, query[q].pc # "filtering",
         NEW u \in Queries, u.session = query[q].session, u.pc # "filtering",
         u.pc = "listed" => u.number = number[u.id],
         query' = [query EXCEPT ![q] = u],
         UNCHANGED <<day, number, left, cacheFile, client, lookup, asked>>
  PROVE  IdentitiesInv'
<1>1. \A i \in Ident : lookup[q][i] = NoLookup /\ lookup[q][i].pc \notin {"getting", "sent"}
  BY WithoutLookups
<1>2. /\ lookup' \in [Query -> [Ident -> Lookups]]
      /\ \A i \in Ident : lookup'[q][i] = NoLookup
      /\ \A p \in Query \ {q}, i \in Ident : lookup'[p][i] = lookup[p][i]
  BY <1>1 DEF IdentitiesInv, TypeOKIdentities
<1>3. QueriesInOrder' /\ WhoAsks' /\ query' \in [Query -> {NoQuery} \cup Queries]
  <2>1. u \in {NoQuery} \cup Queries
    OBVIOUS
  <2>2. \A s \in Session :
          /\ client'[s] = NoClient <=> client[s] = NoClient
          /\ client'[s].mu = client[s].mu
          /\ \A k \in Key : client'[s].details[k] = Loading <=> client[s].details[k] = Loading
    OBVIOUS
  <2> QED BY <1>1, <1>2, <2>1, <2>2, QueryMoves
<1>4. TypeOKIdentities'
  BY <1>2, <1>3 DEF IdentitiesInv, TypeOKIdentities
<1>5. \A p \in Query : query'[p].pc = "listed" =>
        query'[p] = query[p] \/ query'[p].number = number[query'[p].id]
  BY DEF IdentitiesInv, TypeOKIdentities
<1>6. \A s \in Session : client'[s] = client[s]
  OBVIOUS
<1>7. EntriesAreOfTheirDay' /\ IdentitiesAreRecent'
  BY <1>5, <1>6, EntriesStayTrue
<1> QED BY <1>3, <1>4, <1>7 DEF IdentitiesInv

LEMMA SendListKeeps ==
  ASSUME IdentitiesInv, NEW q \in Query, SendList(q)
  PROVE  IdentitiesInv'
<1>1. /\ query[q].pc = "filtered" /\ query' = [query EXCEPT ![q].pc = "listing"]
      /\ UNCHANGED <<day, number, left, cacheFile, client, lookup, asked>>
  BY DEF SendList
<1>2. query[q] # NoQuery
  BY <1>1, IdentityValues
<1>3. query[q] \in Queries
  BY <1>2, SessionOfQuery
<1> DEFINE u == [pc |-> "listing", session |-> query[q].session]
<1>4. [query[q] EXCEPT !.pc = "listing"] = u /\ u \in Queries /\ u.pc = "listing" /\ u.session = query[q].session
  BY <1>1, <1>3 DEF Queries
<1> HIDE DEF u
<1>5. query' = [query EXCEPT ![q] = u]
  BY <1>1, <1>4
<1>6. query[q].pc # "filtering" /\ u.pc # "filtering" /\ (u.pc = "listed" => u.number = number[u.id])
  BY <1>1, <1>4
<1> QED BY <1>1, <1>2, <1>4, <1>5, <1>6, QueryGoesOn

LEMMA ListArrivesKeeps ==
  ASSUME IdentitiesInv, NEW q \in Query, NEW i \in Ident \cup {"none"}, ListArrives(q, i)
  PROVE  IdentitiesInv'
<1>1. /\ query[q].pc = "listing"
      /\ UNCHANGED <<day, number, left, cacheFile, client, lookup, asked>>
  BY DEF ListArrives
<1>2. query[q] # NoQuery
  BY <1>1, IdentityValues
<1>3. query[q].session \in Session
  BY <1>2, SessionOfQuery
<1>4. CASE i = "none"
  <2> DEFINE u == [pc |-> "saving", session |-> query[q].session]
  <2>1. u \in Queries /\ u.pc = "saving" /\ u.session = query[q].session
    BY <1>3 DEF Queries
  <2>2. query' = [query EXCEPT ![q] = u]
    BY <1>4 DEF ListArrives, Home
  <2> HIDE DEF u
  <2>3. query[q].pc # "filtering" /\ u.pc # "filtering" /\ (u.pc = "listed" => u.number = number[u.id])
    BY <1>1, <2>1
  <2> QED BY <1>1, <1>2, <2>1, <2>2, <2>3, QueryGoesOn
<1>5. CASE i # "none"
  <2> DEFINE u == [pc |-> "listed", session |-> query[q].session, id |-> i, number |-> number[i]]
  <2>1. i \in Ident /\ number[i] \in Nat
    BY <1>5 DEF IdentitiesInv, TypeOKIdentities
  <2>2. /\ u \in Queries /\ u.pc = "listed" /\ u.session = query[q].session
        /\ u.number = number[u.id]
    BY <1>3, <2>1 DEF Queries
  <2>3. query' = [query EXCEPT ![q] = u]
    BY <1>5 DEF ListArrives, Home
  <2> HIDE DEF u
  <2>4. query[q].pc # "filtering" /\ u.pc # "filtering" /\ (u.pc = "listed" => u.number = number[u.id])
    BY <1>1, <2>2
  <2> QED BY <1>1, <1>2, <2>2, <2>3, <2>4, QueryGoesOn
<1> QED BY <1>4, <1>5

LEMMA RememberIdentityKeeps ==
  ASSUME IdentitiesInv, NEW q \in Query, RememberIdentity(q)
  PROVE  IdentitiesInv'
<1> DEFINE u == [pc |-> "saving", session |-> query[q].session]
<1>1. /\ query[q].pc = "listed" /\ query' = [query EXCEPT ![q] = u]
      /\ UNCHANGED <<day, number, left, cacheFile, lookup, asked>>
  BY DEF RememberIdentity, Home
<1>2. query[q] # NoQuery
  BY <1>1, IdentityValues
<1>3. PICK s \in Session : /\ s = query[q].session /\ query[q] \in Queries
                          /\ client[s] # NoClient /\ client[s] \in Clients
  BY <1>2, SessionOfQuery
<1>4. u \in Queries /\ u.session = query[q].session /\ u.pc = "saving"
  BY <1>3 DEF Queries
<1> HIDE DEF u
<1>5. PICK i \in Ident : i = query[q].id /\ query[q].number \in Nat
  BY <1>1, <1>3 DEF Queries
<1>6. PICK k \in Key : k = <<IF i \in SiteIdent THEN "performer-sites" ELSE "performers", i>>
  <2>1. <<"performer-sites", i>> \in Key /\ <<"performers", i>> \in Key
    BY DEF Key
  <2> QED BY <2>1
<1>7. PICK e : e = Ready(query[q].number)
  OBVIOUS
<1>8. /\ e \in ReadyEntries /\ e # Loading /\ e.day = day /\ WasSo(k, e)
  <2>1. /\ e \in ReadyEntries /\ e.day = day /\ e.number = query[q].number
    BY <1>5, <1>7 DEF Ready, ReadyEntries, IdentitiesInv, TypeOKIdentities
  <2>2. query[q].number = number[i] \/ left[i] >= day
    BY <1>1, <1>5 DEF IdentitiesInv, EntriesAreOfTheirDay
  <2>3. Own(k) /\ k[2] = i
    BY <1>6 DEF Own
  <2> QED BY <2>1, <2>2, <2>3, IdentityValues DEF WasSo
<1>9. /\ client' \in [Session -> {NoClient} \cup Clients]
      /\ \A r \in Session :
           /\ client'[r] = NoClient <=> client[r] = NoClient
           /\ client'[r].since = client[r].since /\ client'[r].mu = client[r].mu
           /\ \A j \in Key :
                \/ client'[r].details[j] = client[r].details[j]
                \/ /\ r = s /\ j = k
                   /\ client[r].details[j] # Loading /\ client'[r].details[j] = e
  <2>1. CASE client' = client
    BY <2>1 DEF IdentitiesInv, TypeOKIdentities
  <2>2. CASE client' # client
    <3>1. /\ client[s].details[k] # Loading
          /\ client' = [client EXCEPT ![s].details[k] = e]
      BY <1>3, <1>5, <1>6, <1>7, <2>2 DEF RememberIdentity, Details, Home
    <3> DEFINE d == [client[s].details EXCEPT ![k] = e]
    <3>2. client' = [client EXCEPT ![s] = [client[s] EXCEPT !.details = d]]
      BY <3>1
    <3> HIDE DEF d
    <3>3. d = [client[s].details EXCEPT ![k] = e]
      BY DEF d
    <3>4. e \in {NoEntry, Loading} \cup ReadyEntries
      BY <1>8
    <3>7. client[s] # NoClient
      BY <1>3
    <3>5. /\ client' \in [Session -> {NoClient} \cup Clients]
          /\ \A r \in Session \ {s} : client'[r] = client[r]
          /\ client'[s] \in Clients /\ client'[s].since = client[s].since
          /\ client'[s].tags = client[s].tags /\ client'[s].mu = client[s].mu
          /\ client'[s].details[k] = e
          /\ \A j \in Key \ {k} : client'[s].details[j] = client[s].details[j]
      <4>1. OnlyDetailIs(s, k, e)
        BY <3>2, <3>3, <3>4, <3>7, DetailIsSet
      <4> QED BY <4>1 DEF OnlyDetailIs
    <3>6. client'[s] # NoClient
      BY <3>5, IdentityValues
    <3>8. ASSUME NEW r \in Session
          PROVE  /\ client'[r] = NoClient <=> client[r] = NoClient
                 /\ client'[r].since = client[r].since /\ client'[r].mu = client[r].mu
                 /\ \A j \in Key :
                      \/ client'[r].details[j] = client[r].details[j]
                      \/ /\ r = s /\ j = k
                         /\ client[r].details[j] # Loading /\ client'[r].details[j] = e
      <4>1. CASE r = s
        BY <1>3, <3>1, <3>5, <3>6, <4>1, ZenonT(60)
      <4>2. CASE r # s
        BY <3>5, <4>2
      <4> QED BY <4>1, <4>2
    <3> QED BY <3>5, <3>8
  <2> QED BY <2>1, <2>2
<1>10. \A j \in Ident : lookup[q][j] = NoLookup /\ lookup[q][j].pc \notin {"getting", "sent"}
  <2>1. query[q].pc # "filtering"
    BY <1>1
  <2> QED BY <2>1, WithoutLookups
<1>11. QueriesInOrder' /\ WhoAsks' /\ query' \in [Query -> {NoQuery} \cup Queries]
  <2>1. u \in {NoQuery} \cup Queries /\ u.pc # "filtering"
    BY <1>4
  <2>2. /\ lookup' \in [Query -> [Ident -> Lookups]]
        /\ \A j \in Ident : lookup'[q][j] = NoLookup
        /\ \A p \in Query \ {q}, j \in Ident : lookup'[p][j] = lookup[p][j]
    BY <1>1, <1>10 DEF IdentitiesInv, TypeOKIdentities
  <2>3. \A r \in Session :
          /\ client'[r] = NoClient <=> client[r] = NoClient
          /\ client'[r].mu = client[r].mu
          /\ \A j \in Key : client'[r].details[j] = Loading <=> client[r].details[j] = Loading
    BY <1>8, <1>9
  <2> QED BY <1>1, <1>2, <1>4, <1>10, <2>1, <2>2, <2>3, QueryMoves
<1>12. TypeOKIdentities'
  BY <1>1, <1>9, <1>11 DEF IdentitiesInv, TypeOKIdentities
<1>13. EntriesAreOfTheirDay' /\ IdentitiesAreRecent'
  <2>1. \A r \in Session : client'[r] # NoClient =>
          /\ client[r] # NoClient /\ client'[r].since = client[r].since
          /\ \A j \in Key :
               \/ client'[r].details[j] = client[r].details[j]
               \/ client'[r].details[j].state # "ready"
               \/ /\ client'[r].details[j].day = day
                  /\ client'[r].details[j].failed \/ WasSo(j, client'[r].details[j])
    BY <1>8, <1>9
  <2>2. \A p \in Query : query'[p].pc = "listed" => query'[p] = query[p]
    BY <1>1, <1>4 DEF IdentitiesInv, TypeOKIdentities
  <2> QED BY <1>1, <2>1, <2>2, EntriesStayTrue
<1> QED BY <1>11, <1>12, <1>13 DEF IdentitiesInv

LEMMA SaveCacheKeeps ==
  ASSUME IdentitiesInv, NEW q \in Query, SaveCache(q)
  PROVE  IdentitiesInv'
<1>1. /\ query[q].pc = "saving" /\ query' = [query EXCEPT ![q] = NoQuery]
      /\ UNCHANGED <<day, number, left, client, lookup, asked>>
      /\ cacheFile' = [k \in Key |-> Saved(query[q].session, k)]
  BY DEF SaveCache, Home
<1>2. query[q] # NoQuery /\ query[q].pc # "filtering"
  BY <1>1, IdentityValues
<1>3. PICK s \in Session : s = query[q].session /\ client[s] # NoClient /\ client[s] \in Clients
  BY <1>2, SessionOfQuery
<1>4. \A i \in Ident : lookup[q][i] = NoLookup /\ lookup[q][i].pc \notin {"getting", "sent"}
  BY <1>2, WithoutLookups
<1>5. QueriesInOrder' /\ WhoAsks' /\ query' \in [Query -> {NoQuery} \cup Queries]
  <2>1. /\ lookup' \in [Query -> [Ident -> Lookups]]
        /\ \A i \in Ident : lookup'[q][i] = NoLookup
        /\ \A p \in Query \ {q}, i \in Ident : lookup'[p][i] = lookup[p][i]
    BY <1>1, <1>4 DEF IdentitiesInv, TypeOKIdentities
  <2>2. \A r \in Session :
          /\ client'[r] = NoClient <=> client[r] = NoClient
          /\ client'[r].mu = client[r].mu
          /\ \A k \in Key : client'[r].details[k] = Loading <=> client[r].details[k] = Loading
    BY <1>1
  <2>3. NoQuery \in {NoQuery} \cup Queries /\ NoQuery.pc # "filtering"
    BY IdentityValues
  <2> QED BY <1>1, <1>2, <1>4, <2>1, <2>2, <2>3, QueryMoves
<1>6. ASSUME NEW k \in Key
      PROVE  \/ cacheFile'[k] = NoEntry
             \/ /\ cacheFile'[k] \in ReadyEntries /\ cacheFile'[k].day <= day
                /\ WasSo(k, cacheFile'[k]) /\ There(k, cacheFile'[k].number)
  <2>1. cacheFile'[k] = Saved(s, k)
    BY <1>1, <1>3
  <2>2. CASE cacheFile'[k] # NoEntry
    <3>1. /\ cacheFile'[k] = client[s].details[k]
          /\ client[s].details[k].state = "ready" /\ ~client[s].details[k].failed
          /\ There(k, cacheFile'[k].number)
      BY <2>1, <2>2 DEF Saved, Details
    <3>2. client[s].details[k] \in ReadyEntries
      BY <1>3, <3>1, IdentityValues, SMTT(40) DEF Clients
    <3>3. client[s].details[k].day <= day /\ WasSo(k, client[s].details[k])
      BY <1>3, <3>1 DEF IdentitiesInv, EntriesAreOfTheirDay, IdentitiesAreRecent, Details
    <3> QED BY <3>1, <3>2, <3>3
  <2> QED BY <2>2
<1>7. TypeOKIdentities'
  <2>1. cacheFile' \in [Key -> {NoEntry} \cup ReadyEntries]
    BY <1>1, <1>6
  <2> QED BY <1>1, <1>5, <2>1 DEF IdentitiesInv, TypeOKIdentities
<1>8. EntriesAreOfTheirDay'
  <2>1. ASSUME NEW p \in Query, query'[p].pc = "listed"
        PROVE  query'[p].number = number[query'[p].id] \/ left[query'[p].id] >= day
    <3>1. query'[p] = query[p]
      BY <1>1, <2>1, IdentityValues DEF IdentitiesInv, TypeOKIdentities
    <3> QED BY <2>1, <3>1 DEF IdentitiesInv, EntriesAreOfTheirDay
  <2> QED BY <1>1, <1>6, <2>1 DEF IdentitiesInv, EntriesAreOfTheirDay, NoEntry, NoClient
<1>9. IdentitiesAreRecent'
  <2>1. \A k \in Key : cacheFile'[k] # NoEntry => WasSo(k, cacheFile'[k]) /\ There(k, cacheFile'[k].number)
    BY <1>6
  <2> QED BY <1>1, <2>1 DEF IdentitiesInv, IdentitiesAreRecent, Details, WasSo, Own, There, NoEntry, NoClient
<1> QED BY <1>5, <1>7, <1>8, <1>9 DEF IdentitiesInv

-----------------------------------------------------------------------------
(* Queries and processes begin and end, days pass, performers are merged.  *)

LEMMA BeginQueryKeeps ==
  ASSUME IdentitiesInv, NEW q \in Query, NEW s \in Session, NEW source \in {"performers", "tags"},
         NEW ids \in SUBSET Ident, BeginQuery(q, s, source, ids)
  PROVE  IdentitiesInv'
<1> DEFINE u == [pc |-> "filtering", session |-> s, source |-> source, ids |-> ids]
           l == [pc |-> "queued"]
<1>0. PICK n : n = NewClient
  OBVIOUS
<1>1. /\ query[q] = NoQuery /\ query' = [query EXCEPT ![q] = u]
      /\ lookup' = [lookup EXCEPT ![q] = [i \in Ident |-> IF i \in ids THEN l ELSE NoLookup]]
      /\ client' = IF client[s] = NoClient THEN [client EXCEPT ![s] = n] ELSE client
      /\ UNCHANGED <<day, number, left, cacheFile>>
  BY <1>0 DEF BeginQuery
<1>2. u \in Queries /\ u # NoQuery /\ u.pc = "filtering" /\ u.session = s /\ u.ids = ids
  <2>1. u \in Queries /\ u.pc = "filtering" /\ u.session = s /\ u.ids = ids
    BY DEF Queries
  <2> HIDE DEF u
  <2> QED BY <2>1, IdentityValues
<1> HIDE DEF u
<1>3. /\ query' \in [Query -> {NoQuery} \cup Queries] /\ query'[q] = u
      /\ \A p \in Query \ {q} : query'[p] = query[p]
  BY <1>1, <1>2 DEF IdentitiesInv, TypeOKIdentities
<1>4. \A i \in Ident : lookup[q][i] = NoLookup
  <2>1. query[q].pc # "filtering"
    BY <1>1, IdentityValues
  <2> QED BY <2>1, WithoutLookups
<1>5. l \in Lookups /\ l.pc = "queued" /\ l # NoLookup /\ NoLookup \in Lookups
  BY IdentityValues DEF Lookups
<1> HIDE DEF l
<1>6. /\ lookup' \in [Query -> [Ident -> Lookups]]
      /\ \A i \in Ident : lookup'[q][i] = IF i \in ids THEN l ELSE NoLookup
      /\ \A p \in Query \ {q}, i \in Ident : lookup'[p][i] = lookup[p][i]
  BY <1>1, <1>5 DEF IdentitiesInv, TypeOKIdentities
<1>7. /\ n \in Clients /\ n.since = day /\ n.mu = Nobody
      /\ \A k \in Key : /\ n.details[k] # Loading
                        /\ n.details[k].state = "ready" =>
                             /\ n.details[k].day <= day /\ WasSo(k, n.details[k])
                             /\ day - n.details[k].day < KeepFor
  <2>1. day \in Nat \ {0} /\ cacheFile \in [Key -> {NoEntry} \cup ReadyEntries]
    BY DEF IdentitiesInv, TypeOKIdentities
  <2> DEFINE d == [k \in Key |-> Loaded(k)]
  <2>2. ASSUME NEW k \in Key
        PROVE  /\ d[k] = NoEntry \/ (d[k] = cacheFile[k] /\ d[k] \in ReadyEntries)
               /\ d[k] # NoEntry => day - cacheFile[k].day < KeepFor
    BY <2>1 DEF Loaded
  <2>3. d \in [Key -> {NoEntry, Loading} \cup ReadyEntries]
    BY <2>2
  <2>4. n.details = d /\ n.since = day /\ n.mu = Nobody /\ n.tags = FALSE
        /\ n = [since |-> n.since, details |-> n.details, tags |-> n.tags, mu |-> n.mu]
    BY <1>0 DEF NewClient
  <2> HIDE DEF d
  <2>5. n \in Clients
    BY <2>1, <2>3, <2>4 DEF Clients
  <2>6. ASSUME NEW k \in Key, d[k].state = "ready"
        PROVE  /\ d[k].day <= day /\ WasSo(k, d[k])
               /\ day - d[k].day < KeepFor
    <3>1. d[k] = cacheFile[k] /\ cacheFile[k] # NoEntry /\ day - cacheFile[k].day < KeepFor
      BY <2>2, <2>6, IdentityValues
    <3> QED BY <3>1 DEF IdentitiesInv, EntriesAreOfTheirDay, IdentitiesAreRecent
  <2>7. \A k \in Key : d[k] # Loading
    BY <2>2, IdentityValues
  <2> QED BY <2>4, <2>5, <2>6, <2>7
<1>8. /\ client' \in [Session -> {NoClient} \cup Clients] /\ client'[s] # NoClient
      /\ \A r \in Session : client'[r] = client[r] \/ (client[r] = NoClient /\ r = s /\ client'[r] = n)
  BY <1>1, <1>7, IdentityValues DEF IdentitiesInv, TypeOKIdentities
<1>9. TypeOKIdentities'
  BY <1>1, <1>3, <1>6, <1>8 DEF IdentitiesInv, TypeOKIdentities
<1>10. QueriesInOrder'
  <2>1. ASSUME NEW p \in Query, query'[p] # NoQuery
        PROVE  client'[query'[p].session] # NoClient
    <3>1. CASE p = q
      BY <1>2, <1>3, <1>8, <3>1
    <3>2. CASE p # q
      <4>1. query'[p] = query[p] /\ query[p].session \in Session /\ client[query[p].session] # NoClient
        BY <1>3, <2>1, <3>2, SessionOfQuery
      <4> QED BY <1>8, <4>1
    <3> QED BY <3>1, <3>2
  <2>2. ASSUME NEW p \in Query, NEW j \in Ident
        PROVE  /\ lookup'[p][j] # NoLookup <=> query'[p].pc = "filtering" /\ j \in query'[p].ids
               /\ lookup'[p][j].pc \in {"detail", "getting", "sent", "awaiting"} =>
                    IF query'[p].source = "performers" THEN lookup'[p][j].key \in Key
                    ELSE lookup'[p][j].pc \in {"getting", "sent"}
    <3>1. CASE p = q
      BY <1>2, <1>3, <1>5, <1>6, <3>1, IdentityValues
    <3>2. CASE p # q
      BY <1>3, <1>6, <3>2 DEF IdentitiesInv, QueriesInOrder
    <3> QED BY <3>1, <3>2
  <2> QED BY <2>1, <2>2 DEF QueriesInOrder, NoQuery, NoClient, NoLookup
<1>11. ASSUME NEW p \in Query, NEW j \in Ident, NEW r \in Session, NEW what \in {"performers", "tags"},
              Asking(p, j, r, what)
       PROVE  Asking(p, j, r, what)' /\ lookup'[p][j] = lookup[p][j]
  <2>1. p # q
    BY <1>1, <1>11 DEF Asking
  <2>2. lookup'[p][j] = lookup[p][j] /\ query'[p] = query[p]
    BY <1>3, <1>6, <2>1
  <2> QED BY <1>11, <2>2 DEF Asking, NoQuery
<1>12. WhoAsks'
  <2>1. ASSUME NEW r \in Session, client'[r] # NoClient, NEW j \in Key, client'[r].details[j] = Loading
        PROVE  \E p \in Query, h \in Ident : Asking(p, h, r, "performers")' /\ lookup'[p][h].key = j
    <3>1. client'[r] = client[r]
      BY <1>7, <1>8, <2>1
    <3>2. PICK p \in Query, h \in Ident : Asking(p, h, r, "performers") /\ lookup[p][h].key = j
      BY <2>1, <3>1 DEF IdentitiesInv, WhoAsks
    <3> QED BY <1>11, <3>2
  <2>2. ASSUME NEW r \in Session, client'[r] # NoClient, client'[r].mu # Nobody
        PROVE  \E p \in Query, h \in Ident : Asking(p, h, r, "tags")'
    <3>1. client'[r] = client[r]
      BY <1>7, <1>8, <2>2
    <3>2. PICK p \in Query, h \in Ident : Asking(p, h, r, "tags")
      BY <2>2, <3>1 DEF IdentitiesInv, WhoAsks
    <3> QED BY <1>11, <3>2
  <2>3. ASSUME NEW p \in Query, NEW j \in Ident, lookup'[p][j].pc = "awaiting"
        PROVE  client'[query'[p].session].details[lookup'[p][j].key] = Loading
    <3>1. p # q
      BY <1>5, <1>6, <2>3, IdentityValues
    <3>2. lookup'[p][j] = lookup[p][j] /\ query'[p] = query[p]
      BY <1>3, <1>6, <3>1
    <3>3. lookup[p][j] # NoLookup
      BY <2>3, <3>2, IdentityValues
    <3>4. query[p] # NoQuery
      BY <3>3, IdentityValues DEF IdentitiesInv, QueriesInOrder
    <3>5. query[p].session \in Session /\ client[query[p].session] # NoClient
      BY <3>4, SessionOfQuery
    <3>6. client[query[p].session].details[lookup[p][j].key] = Loading
      BY <2>3, <3>2 DEF IdentitiesInv, WhoAsks
    <3> QED BY <1>8, <3>2, <3>5, <3>6
  <2> QED BY <2>1, <2>2, <2>3 DEF WhoAsks, NoClient, Nobody, Loading
<1>13. EntriesAreOfTheirDay'
  <2>1. ASSUME NEW r \in Session, client'[r] # NoClient
        PROVE  /\ client'[r].since <= day
               /\ \A k \in Key : client'[r].details[k].state = "ready" => client'[r].details[k].day <= day
    <3>1. CASE client'[r] = client[r]
      BY <2>1, <3>1 DEF IdentitiesInv, EntriesAreOfTheirDay
    <3>2. CASE client'[r] = n
      BY <1>7, <3>2 DEF IdentitiesInv, TypeOKIdentities
    <3> QED BY <1>8, <3>1, <3>2
  <2>2. ASSUME NEW p \in Query, query'[p].pc = "listed"
        PROVE  query'[p].number = number[query'[p].id] \/ left[query'[p].id] >= day
    <3>1. query'[p] = query[p]
      BY <1>2, <1>3, <2>2
    <3> QED BY <2>2, <3>1 DEF IdentitiesInv, EntriesAreOfTheirDay
  <2> QED BY <1>1, <2>1, <2>2 DEF IdentitiesInv, EntriesAreOfTheirDay, NoEntry, NoClient
<1>14. IdentitiesAreRecent'
  <2>1. ASSUME NEW r \in Session, client'[r] # NoClient,
               NEW k \in Key, client'[r].details[k].state = "ready", ~client'[r].details[k].failed
        PROVE  /\ WasSo(k, client'[r].details[k])
               /\ client'[r].since - client'[r].details[k].day < KeepFor
    <3>1. CASE client'[r] = client[r]
      BY <2>1, <3>1 DEF IdentitiesInv, IdentitiesAreRecent, Details
    <3>2. CASE client'[r] = n
      BY <1>7, <2>1, <3>2
    <3> QED BY <1>8, <3>1, <3>2
  <2> QED BY <1>1, <2>1 DEF IdentitiesInv, IdentitiesAreRecent, Details, WasSo, Own, There, NoEntry, NoClient
<1> QED BY <1>9, <1>10, <1>12, <1>13, <1>14 DEF IdentitiesInv

LEMMA SessionEndsKeeps ==
  ASSUME IdentitiesInv, NEW s \in Session, SessionEnds(s)
  PROVE  IdentitiesInv'
<1>1. /\ client' = [client EXCEPT ![s] = NoClient]
      /\ query' = [q \in Query |-> IF q \in QueriesOf(s) THEN NoQuery ELSE query[q]]
      /\ lookup' = [q \in Query |-> IF q \in QueriesOf(s) THEN [i \in Ident |-> NoLookup] ELSE lookup[q]]
      /\ UNCHANGED <<day, number, left, cacheFile, asked>>
  BY DEF SessionEnds
<1>2. /\ client' \in [Session -> {NoClient} \cup Clients] /\ client'[s] = NoClient
      /\ \A r \in Session \ {s} : client'[r] = client[r]
  BY <1>1 DEF IdentitiesInv, TypeOKIdentities
<1>3. \A q \in QueriesOf(s) : query'[q] = NoQuery /\ \A i \in Ident : lookup'[q][i] = NoLookup
  BY <1>1 DEF QueriesOf
<1>4. \A q \in Query \ QueriesOf(s) : query'[q] = query[q] /\ lookup'[q] = lookup[q]
  BY <1>1
<1>5. TypeOKIdentities'
  <2>1. query' \in [Query -> {NoQuery} \cup Queries]
    BY <1>1 DEF IdentitiesInv, TypeOKIdentities
  <2>2. lookup' \in [Query -> [Ident -> Lookups]]
    BY <1>1 DEF IdentitiesInv, TypeOKIdentities, Lookups
  <2> QED BY <1>1, <1>2, <2>1, <2>2 DEF IdentitiesInv, TypeOKIdentities
<1>6. \A q \in Query : query'[q] # NoQuery =>
        /\ q \notin QueriesOf(s) /\ query[q] # NoQuery /\ query[q].session \in Session \ {s}
        /\ client[query[q].session] # NoClient
  <2> SUFFICES ASSUME NEW q \in Query, query'[q] # NoQuery
               PROVE  /\ q \notin QueriesOf(s) /\ query[q] # NoQuery /\ query[q].session \in Session \ {s}
                      /\ client[query[q].session] # NoClient
    OBVIOUS
  <2>1. q \notin QueriesOf(s) /\ query[q] # NoQuery
    BY <1>3, <1>4
  <2>2. query[q].session \in Session /\ client[query[q].session] # NoClient
    BY <2>1, SessionOfQuery
  <2> QED BY <2>1, <2>2 DEF QueriesOf, Home
<1>7. QueriesInOrder'
  <2>1. ASSUME NEW q \in Query, query'[q] # NoQuery
        PROVE  client'[query'[q].session] # NoClient
    BY <1>2, <1>4, <1>6, <2>1
  <2>2. ASSUME NEW q \in Query, NEW j \in Ident
        PROVE  /\ lookup'[q][j] # NoLookup <=> query'[q].pc = "filtering" /\ j \in query'[q].ids
               /\ lookup'[q][j].pc \in {"detail", "getting", "sent", "awaiting"} =>
                    IF query'[q].source = "performers" THEN lookup'[q][j].key \in Key
                    ELSE lookup'[q][j].pc \in {"getting", "sent"}
    <3>1. CASE q \in QueriesOf(s)
      BY <1>3, <3>1, IdentityValues
    <3>2. CASE q \notin QueriesOf(s)
      BY <1>4, <3>2 DEF IdentitiesInv, QueriesInOrder
    <3> QED BY <3>1, <3>2
  <2> QED BY <2>1, <2>2 DEF QueriesInOrder, NoQuery, NoClient, NoLookup
<1>8. ASSUME NEW q \in Query, NEW j \in Ident, NEW r \in Session, NEW source \in {"performers", "tags"},
             Asking(q, j, r, source), r # s
      PROVE  Asking(q, j, r, source)' /\ lookup'[q][j] = lookup[q][j]
  <2>1. q \notin QueriesOf(s)
    BY <1>8 DEF Asking, QueriesOf, Home
  <2> QED BY <1>4, <1>8, <2>1 DEF Asking, NoQuery
<1>9. WhoAsks'
  <2>1. ASSUME NEW r \in Session, client'[r] # NoClient, NEW j \in Key, client'[r].details[j] = Loading
        PROVE  \E p \in Query, h \in Ident : Asking(p, h, r, "performers")' /\ lookup'[p][h].key = j
    <3>1. r # s /\ client'[r] = client[r]
      BY <1>2, <2>1
    <3>2. PICK p \in Query, h \in Ident : Asking(p, h, r, "performers") /\ lookup[p][h].key = j
      BY <2>1, <3>1 DEF IdentitiesInv, WhoAsks
    <3> QED BY <1>8, <3>1, <3>2
  <2>2. ASSUME NEW r \in Session, client'[r] # NoClient, client'[r].mu # Nobody
        PROVE  \E p \in Query, h \in Ident : Asking(p, h, r, "tags")'
    <3>1. r # s /\ client'[r] = client[r]
      BY <1>2, <2>2
    <3>2. PICK p \in Query, h \in Ident : Asking(p, h, r, "tags")
      BY <2>2, <3>1 DEF IdentitiesInv, WhoAsks
    <3> QED BY <1>8, <3>1, <3>2
  <2>3. ASSUME NEW p \in Query, NEW j \in Ident, lookup'[p][j].pc = "awaiting"
        PROVE  client'[query'[p].session].details[lookup'[p][j].key] = Loading
    <3>1. p \notin QueriesOf(s)
      BY <1>3, <2>3, IdentityValues
    <3>2. lookup'[p][j] = lookup[p][j] /\ query'[p] = query[p]
      BY <1>4, <3>1
    <3>3. lookup[p][j] # NoLookup
      BY <2>3, <3>2, IdentityValues
    <3>4. query[p] # NoQuery
      BY <3>3, IdentityValues DEF IdentitiesInv, QueriesInOrder
    <3>5. query[p].session \in Session \ {s}
      BY <1>6, <3>2, <3>4
    <3>6. client[query[p].session].details[lookup[p][j].key] = Loading
      BY <2>3, <3>2 DEF IdentitiesInv, WhoAsks
    <3> QED BY <1>2, <3>2, <3>5, <3>6
  <2> QED BY <2>1, <2>2, <2>3 DEF WhoAsks, NoClient, Nobody, Loading
<1>10. \A r \in Session : client'[r] # NoClient => client'[r] = client[r]
  BY <1>2
<1>11. \A q \in Query : query'[q].pc = "listed" => query'[q] = query[q]
  BY <1>3, <1>4, IdentityValues
<1>12. EntriesAreOfTheirDay' /\ IdentitiesAreRecent'
  <2>1. \A r \in Session : client'[r] # NoClient =>
          client[r] # NoClient /\ client'[r].since = client[r].since /\ client'[r].details = client[r].details
    BY <1>10
  <2> QED BY <1>1, <1>11, <2>1, EntriesStayTrue
<1> QED BY <1>5, <1>7, <1>9, <1>12 DEF IdentitiesInv

LEMMA NextDayKeeps ==
  ASSUME IdentitiesInv, NextDay
  PROVE  IdentitiesInv'
<1>1. /\ \A q \in Query : query[q] = NoQuery /\ query[q].pc = "idle" /\ day' = day + 1
      /\ UNCHANGED <<number, left, cacheFile, client, query, lookup, asked>>
  BY IdentityValues DEF NextDay
<1>2. day' = day + 1
  BY DEF NextDay
<1>3. day \in Nat \ {0} /\ day + 1 \in Nat \ {0}
  BY DEF IdentitiesInv, TypeOKIdentities
<1>4. TypeOKIdentities'
  BY <1>1, <1>2, <1>3 DEF IdentitiesInv, TypeOKIdentities
<1>5. QueriesInOrder' /\ WhoAsks'
  BY <1>1 DEF IdentitiesInv, QueriesInOrder, WhoAsks, Asking
<1>6. EntriesAreOfTheirDay'
  <2>1. \A s \in Session : client[s] # NoClient =>
          /\ client[s].since \in Nat
          /\ \A k \in Key : client[s].details[k].state = "ready" => client[s].details[k].day \in Nat
    <3> SUFFICES ASSUME NEW s \in Session, client[s] # NoClient
                 PROVE  /\ client[s].since \in Nat
                        /\ \A k \in Key : client[s].details[k].state = "ready" => client[s].details[k].day \in Nat
      OBVIOUS
    <3>1. client[s] \in Clients
      BY DEF IdentitiesInv, TypeOKIdentities
    <3>2. client[s].since \in Nat /\ \A k \in Key : client[s].details[k] \in {NoEntry, Loading} \cup ReadyEntries
      BY <3>1 DEF Clients
    <3> QED BY <3>2, IdentityValues DEF ReadyEntries
  <2>2. \A k \in Key : cacheFile[k] # NoEntry => cacheFile[k].day \in Nat
    BY DEF IdentitiesInv, TypeOKIdentities, ReadyEntries
  <2>3. \A t \in Nat : t <= day => t <= day + 1
    BY <1>3
  <2>4. \A s \in Session : client[s] # NoClient =>
          /\ client[s].since <= day + 1
          /\ \A k \in Key : client[s].details[k].state = "ready" => client[s].details[k].day <= day + 1
    BY <2>1, <2>3 DEF IdentitiesInv, EntriesAreOfTheirDay
  <2>5. \A k \in Key : cacheFile[k] # NoEntry => cacheFile[k].day <= day + 1
    BY <2>2, <2>3 DEF IdentitiesInv, EntriesAreOfTheirDay
  <2> QED BY <1>1, <1>2, <2>4, <2>5 DEF EntriesAreOfTheirDay
<1>7. IdentitiesAreRecent'
  BY <1>1 DEF IdentitiesInv, IdentitiesAreRecent, Details, WasSo, Own, There
<1> QED BY <1>4, <1>5, <1>6, <1>7 DEF IdentitiesInv

LEMMA RenumberedKeeps ==
  ASSUME IdentitiesInv, NEW i \in Ident, Renumbered(i)
  PROVE  IdentitiesInv'
<1>1. /\ number' = [number EXCEPT ![i] = number[i] + 1] /\ left' = [left EXCEPT ![i] = day]
      /\ UNCHANGED <<day, cacheFile, client, query, lookup, asked>>
  BY DEF Renumbered
<1>2. /\ day \in Nat /\ number \in [Ident -> Nat] /\ left \in [Ident -> Nat]
  BY DEF IdentitiesInv, TypeOKIdentities
<1>3. /\ number' \in [Ident -> Nat] /\ left' \in [Ident -> Nat] /\ left'[i] = day
      /\ \A j \in Ident \ {i} : number'[j] = number[j] /\ left'[j] = left[j]
  BY <1>1, <1>2
<1>4. TypeOKIdentities'
  BY <1>1, <1>3 DEF IdentitiesInv, TypeOKIdentities
<1>5. QueriesInOrder' /\ WhoAsks'
  BY <1>1 DEF IdentitiesInv, QueriesInOrder, WhoAsks, Asking
<1>6. ASSUME NEW k \in Key, NEW e, e.day <= day, WasSo(k, e)
      PROVE  e.number = (IF Own(k) THEN number'[k[2]] ELSE 0) \/ (Own(k) /\ left'[k[2]] >= e.day)
  <2>1. k[2] \in Ident
    BY DEF Key
  <2>2. CASE k[2] = i
    BY <1>2, <1>3, <1>6, <2>2 DEF WasSo
  <2>3. CASE k[2] # i
    BY <1>3, <1>6, <2>1, <2>3 DEF WasSo
  <2> QED BY <2>2, <2>3
<1>7. EntriesAreOfTheirDay'
  <2>1. ASSUME NEW q \in Query, query[q].pc = "listed"
        PROVE  query[q].number = number'[query[q].id] \/ left'[query[q].id] >= day
    <3>1. query[q] # NoQuery
      BY <2>1, IdentityValues
    <3>2. query[q].id \in Ident
      BY <2>1, <3>1, SessionOfQuery DEF Queries
    <3>3. query[q].number = number[query[q].id] \/ left[query[q].id] >= day
      BY <2>1 DEF IdentitiesInv, EntriesAreOfTheirDay
    <3>4. CASE query[q].id = i
      BY <1>2, <1>3, <3>4
    <3>5. CASE query[q].id # i
      BY <1>3, <3>2, <3>3, <3>5
    <3> QED BY <3>4, <3>5
  <2> QED BY <1>1, <2>1 DEF IdentitiesInv, EntriesAreOfTheirDay
<1>8. IdentitiesAreRecent'
  <2>1. ASSUME NEW s \in Session, client[s] # NoClient,
               NEW k \in Key, client[s].details[k].state = "ready", ~client[s].details[k].failed
        PROVE  WasSo(k, client[s].details[k])'
    <3>1. client[s].details[k].day <= day /\ WasSo(k, client[s].details[k])
      BY <2>1 DEF IdentitiesInv, EntriesAreOfTheirDay, IdentitiesAreRecent, Details
    <3>2. PICK e : e = client[s].details[k]
      OBVIOUS
    <3> QED BY <1>1, <1>6, <3>1, <3>2 DEF WasSo, Own
  <2>2. ASSUME NEW k \in Key, cacheFile[k] # NoEntry
        PROVE  WasSo(k, cacheFile[k])'
    <3>1. cacheFile[k].day <= day /\ WasSo(k, cacheFile[k])
      BY <2>2 DEF IdentitiesInv, EntriesAreOfTheirDay, IdentitiesAreRecent
    <3>2. PICK e : e = cacheFile[k]
      OBVIOUS
    <3> QED BY <1>1, <1>6, <3>1, <3>2 DEF WasSo, Own
  <2> QED BY <1>1, <2>1, <2>2 DEF IdentitiesInv, IdentitiesAreRecent, Details, There, Own, NoEntry, NoClient
<1> QED BY <1>4, <1>5, <1>7, <1>8 DEF IdentitiesInv

LEMMA IdentitiesStep ==
  ASSUME IdentitiesInv, [NextIdentities]_identityVars
  PROVE  IdentitiesInv'
<1>1. CASE UNCHANGED identityVars
  <2>1. UNCHANGED <<day, number, left, cacheFile, client, query, lookup>>
    BY <1>1 DEF identityVars
  <2> QED BY <2>1 DEF IdentitiesInv, TypeOKIdentities, QueriesInOrder, EntriesAreOfTheirDay,
       IdentitiesAreRecent, WhoAsks, Asking, WasSo, Own, There, Details
<1>2. ASSUME NEW q \in Query, NEW s \in Session, NEW source \in {"performers", "tags"},
             NEW ids \in SUBSET Ident \ {{}}, BeginQuery(q, s, source, ids)
      PROVE  IdentitiesInv'
  <2>1. ids \in SUBSET Ident
    OBVIOUS
  <2> QED BY <1>2, <2>1, BeginQueryKeeps
<1>3. ASSUME NEW q \in Query, NEW i \in Ident, LookUp(q, i) \/ Detail(q, i) \/ Send(q, i) \/ ReadTags(q, i)
      PROVE  IdentitiesInv'
  BY <1>3, LookUpKeeps, DetailKeeps, SendKeeps, ReadTagsKeeps
<1>4. ASSUME NEW q \in Query, NEW i \in Ident, NEW fails \in BOOLEAN, TagsArrive(q, i, fails)
      PROVE  IdentitiesInv'
  BY <1>4, TagsArriveKeeps
<1>5. ASSUME NEW q \in Query, NEW i \in Ident, NEW e, Answer(q, i, e)
      PROVE  IdentitiesInv'
  BY <1>5, AnswerKeeps
<1>6. ASSUME NEW q \in Query, NEW modifier, SceneFilter(q, modifier)
      PROVE  IdentitiesInv'
  BY <1>6, SceneFilterKeeps
<1>7. ASSUME NEW q \in Query, SendList(q) \/ RememberIdentity(q) \/ SaveCache(q)
      PROVE  IdentitiesInv'
  BY <1>7, SendListKeeps, RememberIdentityKeeps, SaveCacheKeeps
<1>8. ASSUME NEW q \in Query, NEW i \in Ident \cup {"none"}, ListArrives(q, i)
      PROVE  IdentitiesInv'
  BY <1>8, ListArrivesKeeps
<1>9. ASSUME NEW s \in Session, SessionEnds(s)
      PROVE  IdentitiesInv'
  BY <1>9, SessionEndsKeeps
<1>10. CASE NextDay
  BY <1>10, NextDayKeeps
<1>11. ASSUME NEW i \in Ident, Renumbered(i)
       PROVE  IdentitiesInv'
  BY <1>11, RenumberedKeeps
<1> QED BY <1>1, <1>2, <1>3, <1>4, <1>5, <1>6, <1>7, <1>8, <1>9, <1>10, <1>11, SMTT(40) DEF NextIdentities

LEMMA IdentitiesInvariant == SpecIdentities => []IdentitiesInv
<1>1. InitIdentities => IdentitiesInv
  BY IdentitiesInit
<1>2. IdentitiesInv /\ [NextIdentities]_identityVars => IdentitiesInv'
  BY IdentitiesStep
<1> QED BY <1>1, <1>2, PTL DEF SpecIdentities

\* What a process or the cache file believes of an identity was so within a
\* week before the process began (lookup and saveCache of theporndb.go).
THEOREM IdentitiesStayRecent == SpecIdentities => []IdentitiesAreRecent
<1>1. IdentitiesInv => IdentitiesAreRecent
  BY DEF IdentitiesInv
<1> QED BY <1>1, IdentitiesInvariant, PTL

\* Among the queries of a process one can always go on: nobody waits in a
\* circle or for an answer that nobody gets (lookup, tagCatalog and get).
THEOREM SomebodyGoesOn == SpecIdentities => []NobodyWaitsForever
BY GoesOnByInv, IdentitiesInvariant, PTL

\* A filter that is used rests on the answers for all its ids (sceneFilter).
THEOREM FiltersStayWhole == SpecIdentities => []FiltersAreWhole
BY WholeByInv, IdentitiesInvariant, PTL

-----------------------------------------------------------------------------
(* The probes of a stash-box.                                              *)

Scenes == ScenesIn(Catalogue)
Page == [size : Nat \ {0}, restSize : Nat \ {0}, rest : Nat \ {0}, skip : Nat, rows : Seq(Scenes),
         newer : SUBSET Scenes, total : Nat, read : BOOLEAN]
Probe == [kind : {"parallel", "walk"}, pc : {"first", "rest", "walk", "end"}, limit : Nat \ {0},
          cap : Nat \ {0}, fetched : Nat, rows : Seq(Scenes), steady : BOOLEAN, pages : Seq(Page)]

TypeOKProbes ==
  /\ listing \in Seq(Scenes) /\ updated \in SUBSET Scenes /\ awaited \in SUBSET Scenes
  /\ moves \in Nat /\ probe \in {NoProbe} \cup Probe

\* The rows of a sequence from m to n.
LEMMA SliceProperties ==
  ASSUME NEW S, NEW s \in Seq(S), NEW m \in Nat \ {0}, NEW n \in Int, n <= Len(s)
  PROVE  /\ SubSeq(s, m, n) \in Seq(S)
         /\ Len(SubSeq(s, m, n)) = IF m <= n THEN n - m + 1 ELSE 0
         /\ \A i \in 1..Len(SubSeq(s, m, n)) : SubSeq(s, m, n)[i] = s[m + i - 1]
<1>1. \A i \in m..n : s[i] \in S
  OBVIOUS
<1>2. m \in Int
  OBVIOUS
<1>3. /\ SubSeq(s, m, n) \in Seq(S)
      /\ Len(SubSeq(s, m, n)) = IF m <= n THEN n - m + 1 ELSE 0
      /\ \A i \in 1..(n - m + 1) : SubSeq(s, m, n)[i] = s[m + i - 1]
  BY <1>1, <1>2, SubSeqProperties
<1>4. 1..Len(SubSeq(s, m, n)) \subseteq 1..(n - m + 1)
  BY <1>3
<1> QED BY <1>3, <1>4

\* Sequences with the same rows are the same.
LEMMA SameRows ==
  ASSUME NEW S, NEW s \in Seq(S), NEW t \in Seq(S), Len(s) = Len(t),
         \A i \in 1..Len(s) : s[i] = t[i]
  PROVE  s = t
OBVIOUS

LEMMA QuotientAndRest ==
  \A a \in Nat, b \in Nat \ {0} :
     a \div b \in Nat /\ a % b \in 0..(b - 1) /\ a = b * (a \div b) + (a % b)
OBVIOUS

LEMMA MultiplesDivide ==
  ASSUME NEW a \in Nat, NEW b \in Nat \ {0}
  PROVE  (a * b) \div b = a /\ (a * b) % b = 0 /\ a * b \in Nat
OBVIOUS

LEMMA ScenesOfCatalogue ==
  /\ Catalogue \in Seq(Scenes) /\ IsInjective(Catalogue)
  /\ FetchPageSize \in Nat \ {0} /\ RestPageSize \in Nat \ {0} /\ ProbeLimits \subseteq Nat \ {0}
  /\ MaxMoves \in Nat
BY StashBoxPagesAssumption DEF Scenes

\* The rows before a page, and before what it asks for.
Offset(n, size) == (n - 1) * size
BaseOf(sheet) == (sheet.rest - 1) * sheet.restSize

IsBegun(sheet, n, size, cap) ==
  /\ sheet \in Page
  /\ sheet.size = size /\ sheet.restSize = Smaller(size, cap)
  /\ sheet.rows = <<>> /\ sheet.newer = {} /\ sheet.read = FALSE
  /\ sheet.skip < sheet.restSize
  /\ Offset(n, size) \in Nat /\ BaseOf(sheet) + sheet.skip = Offset(n, size)
  /\ size <= cap => sheet.rest = n /\ sheet.skip = 0

LEMMA VirtualPageIsBegun ==
  ASSUME NEW n \in Nat \ {0}, NEW size \in Nat \ {0}, NEW cap \in Nat \ {0}
  PROVE  IsBegun(VirtualPage(n, size, cap), n, size, cap)
<1> DEFINE sheet == VirtualPage(n, size, cap)
           offset == (n - 1) * size
           r == Smaller(size, cap)
<1>1. n - 1 \in Nat /\ r \in Nat \ {0}
  BY DEF Smaller
<1>2. offset \in Nat
  BY <1>1, MultiplesDivide
<1>3. /\ sheet.size = size /\ sheet.restSize = r /\ sheet.rest = offset \div r + 1
      /\ sheet.skip = offset % r
      /\ sheet.rows = <<>> /\ sheet.newer = {} /\ sheet.read = FALSE /\ sheet.total = 0
      /\ sheet = [size |-> sheet.size, restSize |-> sheet.restSize, rest |-> sheet.rest, skip |-> sheet.skip,
                 rows |-> sheet.rows, newer |-> sheet.newer, total |-> sheet.total, read |-> sheet.read]
  BY DEF VirtualPage
<1> HIDE DEF offset, r, sheet
<1>4. offset \div r \in Nat /\ offset % r \in 0..(r - 1) /\ offset = r * (offset \div r) + (offset % r)
  BY <1>1, <1>2, QuotientAndRest
<1>5. sheet.rest \in Nat \ {0} /\ sheet.rest - 1 = offset \div r
  BY <1>3, <1>4
<1>6. (sheet.rest - 1) * sheet.restSize + sheet.skip = offset
  <2>1. \A q \in Nat : q * r = r * q
    BY <1>1
  <2>2. (sheet.rest - 1) * sheet.restSize = r * (offset \div r)
    BY <1>3, <1>4, <1>5, <2>1
  <2> QED BY <1>3, <1>4, <2>2
<1>7. sheet.skip \in Nat /\ sheet.skip < sheet.restSize
  BY <1>1, <1>3, <1>4
<1>8. sheet \in Page
  <2>1. <<>> \in Seq(Scenes) /\ {} \in SUBSET Scenes /\ 0 \in Nat /\ FALSE \in BOOLEAN
    OBVIOUS
  <2> QED BY <1>1, <1>3, <1>5, <1>7, <2>1 DEF Page
<1>9. ASSUME size <= cap PROVE sheet.rest = n /\ sheet.skip = 0
  <2>1. r = size
    BY <1>9 DEF r, Smaller
  <2>2. offset \div r = n - 1 /\ offset % r = 0
    BY <1>1, <2>1, MultiplesDivide DEF offset
  <2> QED BY <1>3, <2>2
<1>10. Offset(n, size) = offset /\ BaseOf(sheet) = (sheet.rest - 1) * sheet.restSize
  BY DEF Offset, BaseOf, offset
<1>11. IsBegun(sheet, n, size, cap)
  BY <1>2, <1>3, <1>6, <1>7, <1>8, <1>9, <1>10 DEF r, IsBegun
<1> QED BY <1>11 DEF sheet

-----------------------------------------------------------------------------
\* The listing without a scene: the others, in their order.
Follows(L, W, x) ==
  /\ W \in Seq(Scenes) /\ x \notin ScenesIn(W)
  /\ \A i \in DOMAIN W : \E a \in DOMAIN L : W[i] = L[a]
  /\ \A i, j \in DOMAIN W : i < j => \E a, b \in DOMAIN L : a < b /\ W[i] = L[a] /\ W[j] = L[b]
  /\ \A a \in DOMAIN L : L[a] # x => \E j \in DOMAIN W : j >= a - 1 /\ W[j] = L[a]

LEMMA WithoutFollows ==
  ASSUME listing \in Seq(Scenes), IsInjective(listing), NEW x
  PROVE  Follows(listing, Without(x), x)
<1> DEFINE L == listing
           W == Without(x)
<1>0. Len(L) \in Nat /\ DOMAIN L = 1..Len(L)
  OBVIOUS
<1>1. CASE x \notin ScenesIn(L)
  <2>1. W = L
    BY <1>1 DEF Without
  <2> HIDE DEF L, W
  <2>2. \A a \in DOMAIN L : a >= a - 1
    BY <1>0
  <2> QED BY <1>0, <1>1, <2>1, <2>2 DEF Follows, L, W
<1>2. CASE x \in ScenesIn(L)
  <2>1. PICK k \in DOMAIN L : k = CHOOSE i \in DOMAIN L : L[i] = x
    BY <1>2 DEF ScenesIn
  <2>2. L[k] = x
    BY <1>2, <2>1 DEF ScenesIn
  <2>3. W = SubSeq(L, 1, k - 1) \o SubSeq(L, k + 1, Len(L))
    BY <1>2, <2>1 DEF Without, RemoveAt
  <2> DEFINE A == SubSeq(L, 1, k - 1)
             B == SubSeq(L, k + 1, Len(L))
             m == Len(L)
  <2>4. k \in 1..m /\ m \in Nat
    BY <1>0
  <2>5. A \in Seq(Scenes) /\ Len(A) = k - 1 /\ \A i \in 1..(k - 1) : A[i] = L[i]
    <3>1. 1 \in Nat \ {0} /\ k - 1 \in Int /\ k - 1 <= Len(L)
      BY <2>4
    <3>2. /\ A \in Seq(Scenes) /\ Len(A) = (IF 1 <= k - 1 THEN (k - 1) - 1 + 1 ELSE 0)
          /\ \A i \in 1..Len(A) : A[i] = L[1 + i - 1]
      BY <3>1, SliceProperties
    <3> QED BY <2>4, <3>2
  <2>6. B \in Seq(Scenes) /\ Len(B) = m - k /\ \A i \in 1..(m - k) : B[i] = L[k + i]
    <3>1. k + 1 \in Nat \ {0} /\ Len(L) \in Int /\ Len(L) <= Len(L)
      BY <2>4
    <3>2. /\ B \in Seq(Scenes) /\ Len(B) = (IF k + 1 <= Len(L) THEN Len(L) - (k + 1) + 1 ELSE 0)
          /\ \A i \in 1..Len(B) : B[i] = L[(k + 1) + i - 1]
      BY <3>1, SliceProperties
    <3> QED BY <2>4, <3>2
  <2> HIDE DEF A, B, L, W, m
  <2>7. W = A \o B
    BY <2>3 DEF A, B
  <2>8. W \in Seq(Scenes) /\ Len(W) = m - 1 /\ DOMAIN W = 1..(m - 1)
    <3>1. W \in Seq(Scenes) /\ Len(W) = Len(A) + Len(B)
      BY <2>5, <2>6, <2>7, ConcatProperties
    <3>2. Len(W) = m - 1
      BY <2>4, <2>5, <2>6, <3>1
    <3> QED BY <3>1, <3>2
  <2>9. \A i \in 1..(m - 1) : W[i] = IF i < k THEN L[i] ELSE L[i + 1]
    <3> TAKE i \in 1..(m - 1)
    <3>1. CASE i < k
      <4>1. i \in 1..(k - 1)
        BY <2>4, <3>1
      <4> QED BY <2>5, <2>6, <2>7, <3>1, <4>1
    <3>2. CASE ~(i < k)
      <4>1. i - (k - 1) \in 1..(m - k) /\ i > Len(A) /\ k + (i - (k - 1)) = i + 1
        BY <2>4, <2>5, <3>2
      <4>2. W[i] = B[i - (k - 1)]
        <5>1. i \in 1..(Len(A) + Len(B)) /\ ~(i <= Len(A)) /\ i - Len(A) = i - (k - 1)
          BY <2>4, <2>5, <2>6, <4>1, SMTT(40)
        <5>2. \A j \in 1..(Len(A) + Len(B)) : (A \o B)[j] = IF j <= Len(A) THEN A[j] ELSE B[j - Len(A)]
          BY <2>5, <2>6, ConcatProperties
        <5> QED BY <2>7, <5>1, <5>2
      <4>3. B[i - (k - 1)] = L[k + (i - (k - 1))]
        BY <2>6, <4>1
      <4> QED BY <3>2, <4>1, <4>2, <4>3
    <3> QED BY <3>1, <3>2
  <2>10. DOMAIN L = 1..m
    BY <1>0 DEF m
  <2>11. \A i \in 1..(m - 1) : \E a \in 1..m : a # k /\ W[i] = L[a]
    BY <2>4, <2>9
  <2>12. \A i, j \in 1..(m - 1) :
           i < j => \E a, b \in 1..m : a < b /\ W[i] = L[a] /\ W[j] = L[b]
    <3> SUFFICES ASSUME NEW i \in 1..(m - 1), NEW j \in 1..(m - 1), i < j
                 PROVE  \E a, b \in 1..m : a < b /\ W[i] = L[a] /\ W[j] = L[b]
      OBVIOUS
    <3> DEFINE a == IF i < k THEN i ELSE i + 1
               b == IF j < k THEN j ELSE j + 1
    <3>1. a \in 1..m /\ b \in 1..m /\ a < b
      BY <2>4
    <3>2. W[i] = L[a] /\ W[j] = L[b]
      BY <2>9
    <3> QED BY <3>1, <3>2
  <2>13. ASSUME NEW a \in 1..m, L[a] # x PROVE \E j \in 1..(m - 1) : j >= a - 1 /\ W[j] = L[a]
    <3>1. a # k
      BY <2>2, <2>13
    <3> DEFINE j == IF a < k THEN a ELSE a - 1
    <3>2. j \in 1..(m - 1) /\ j >= a - 1 /\ (a < k => j < k /\ j = a)
          /\ (~(a < k) => ~(j < k) /\ j + 1 = a)
      BY <2>4, <3>1
    <3> HIDE DEF j
    <3>3. W[j] = L[a]
      BY <2>9, <3>2
    <3> QED BY <3>2, <3>3
  <2>14. \A a, b \in 1..m : L[a] = L[b] => a = b
    BY <2>10 DEF IsInjective, L
  <2>15. x \notin ScenesIn(W)
    BY <2>2, <2>4, <2>8, <2>11, <2>14 DEF ScenesIn
  <2>16. /\ \A i \in DOMAIN W : \E a \in DOMAIN L : W[i] = L[a]
         /\ \A a \in DOMAIN L : L[a] # x => \E j \in DOMAIN W : j >= a - 1 /\ W[j] = L[a]
    BY <2>8, <2>10, <2>11, <2>13
  <2>17. \A i, j \in DOMAIN W : i < j => \E a, b \in DOMAIN L : a < b /\ W[i] = L[a] /\ W[j] = L[b]
    <3> SUFFICES ASSUME NEW i \in DOMAIN W, NEW j \in DOMAIN W, i < j
                 PROVE  \E a, b \in DOMAIN L : a < b /\ W[i] = L[a] /\ W[j] = L[b]
      OBVIOUS
    <3>1. i \in 1..(m - 1) /\ j \in 1..(m - 1)
      BY <2>8
    <3>2. PICK a \in 1..m, b \in 1..m : a < b /\ W[i] = L[a] /\ W[j] = L[b]
      BY <2>12, <3>1
    <3>3. a \in DOMAIN L /\ b \in DOMAIN L
      BY <2>10
    <3> QED BY <3>2, <3>3
  <2>18. Follows(L, W, x)
    BY <2>8, <2>15, <2>16, <2>17, Zenon DEF Follows
  <2> QED BY <2>18 DEF L, W
<1> QED BY <1>1, <1>2 DEF L

PosAfter(L, x, k) == \E i \in DOMAIN L : i > k /\ L[i] = x

\* The newest come first.
UpdatedFirst(L, U) ==
  /\ U \subseteq ScenesIn(L)
  /\ \A i, j \in DOMAIN L : i < j /\ L[j] \in U => L[i] \in U

LEMMA FirstRow ==
  ASSUME NEW W \in Seq(Scenes), NEW x \in Scenes
  PROVE  LET M == <<x>> \o W
         IN /\ M \in Seq(Scenes) /\ DOMAIN M = 1..(Len(W) + 1) /\ M[1] = x
            /\ \A i \in DOMAIN W : i + 1 \in DOMAIN M /\ M[i + 1] = W[i]
            /\ \A j \in DOMAIN M : j # 1 => j - 1 \in DOMAIN W /\ M[j] = W[j - 1]
OBVIOUS

LEMMA FollowsKeeps ==
  ASSUME NEW L \in Seq(Scenes), NEW W, NEW x, Follows(L, W, x), IsInjective(L)
  PROVE  /\ IsInjective(W)
         /\ \A U : UpdatedFirst(L, U) => UpdatedFirst(W, U \ {x})
<1>0. /\ W \in Seq(Scenes) /\ x \notin ScenesIn(W)
      /\ \A i \in DOMAIN W : \E a \in DOMAIN L : W[i] = L[a]
      /\ \A i, j \in DOMAIN W : i < j => \E a, b \in DOMAIN L : a < b /\ W[i] = L[a] /\ W[j] = L[b]
      /\ \A a \in DOMAIN L : L[a] # x => \E j \in DOMAIN W : j >= a - 1 /\ W[j] = L[a]
  BY DEF Follows
<1>1. DOMAIN L \subseteq Int /\ DOMAIN W \subseteq Int
  BY <1>0
<1>2. \A i, j \in DOMAIN W : i < j => W[i] # W[j]
  BY <1>0, <1>1 DEF IsInjective
<1>3. IsInjective(W)
  BY <1>1, <1>2 DEF IsInjective
<1>4. ASSUME NEW U, UpdatedFirst(L, U) PROVE UpdatedFirst(W, U \ {x})
  <2>1. U \ {x} \subseteq ScenesIn(W)
    BY <1>0, <1>4 DEF UpdatedFirst, ScenesIn
  <2>2. ASSUME NEW i \in DOMAIN W, NEW j \in DOMAIN W, i < j, W[j] \in U PROVE W[i] \in U \ {x}
    <3>1. PICK a \in DOMAIN L, b \in DOMAIN L : a < b /\ W[i] = L[a] /\ W[j] = L[b]
      BY <1>0, <2>2
    <3>2. L[a] \in U
      BY <1>4, <2>2, <3>1 DEF UpdatedFirst
    <3> QED BY <1>0, <2>2, <3>1, <3>2 DEF ScenesIn
  <2> QED BY <2>1, <2>2 DEF UpdatedFirst
<1> QED BY <1>3, <1>4

LEMMA PutFirst ==
  ASSUME NEW L \in Seq(Scenes), NEW W, NEW x \in Scenes, Follows(L, W, x), IsInjective(L),
         NEW U, UpdatedFirst(L, U)
  PROVE  LET M == <<x>> \o W
         IN /\ M \in Seq(Scenes) /\ IsInjective(M) /\ UpdatedFirst(M, U \cup {x})
            /\ \A y, k : k \in Nat /\ y # x /\ PosAfter(L, y, k) => PosAfter(M, y, k)
<1> DEFINE M == <<x>> \o W
<1>0. /\ W \in Seq(Scenes) /\ x \notin ScenesIn(W)
      /\ \A a \in DOMAIN L : L[a] # x => \E j \in DOMAIN W : j >= a - 1 /\ W[j] = L[a]
  BY DEF Follows
<1>1. IsInjective(W) /\ UpdatedFirst(W, U \ {x})
  BY FollowsKeeps
<1>2. /\ M \in Seq(Scenes) /\ DOMAIN M = 1..(Len(W) + 1) /\ M[1] = x
      /\ \A i \in DOMAIN W : i + 1 \in DOMAIN M /\ M[i + 1] = W[i]
      /\ \A j \in DOMAIN M : j # 1 => j - 1 \in DOMAIN W /\ M[j] = W[j - 1]
  BY <1>0, FirstRow
<1> HIDE DEF M
<1>3. DOMAIN W \subseteq Int /\ DOMAIN M \subseteq Nat \ {0} /\ 1 \in DOMAIN M /\ DOMAIN L \subseteq Int
  BY <1>0, <1>2
<1>4. \A i \in DOMAIN W : W[i] # x
  BY <1>0 DEF ScenesIn
<1>5. ASSUME NEW i \in DOMAIN M, NEW j \in DOMAIN M, M[i] = M[j] PROVE i = j
  <2>1. i # 1 /\ j # 1 => i - 1 = j - 1
    BY <1>1, <1>2, <1>5 DEF IsInjective
  <2>2. (i = 1 /\ j # 1) \/ (i # 1 /\ j = 1) => FALSE
    BY <1>2, <1>4, <1>5
  <2> QED BY <1>3, <2>1, <2>2
<1>6. IsInjective(M)
  BY <1>5 DEF IsInjective
<1>7. U \cup {x} \subseteq ScenesIn(M)
  <2>1. \A y \in U \ {x} : \E i \in DOMAIN W : W[i] = y
    BY <1>1 DEF UpdatedFirst, ScenesIn
  <2> QED BY <1>2, <1>3, <2>1 DEF ScenesIn
<1>8. ASSUME NEW i \in DOMAIN M, NEW j \in DOMAIN M, i < j, M[j] \in U \cup {x}
      PROVE  M[i] \in U \cup {x}
  <2>1. CASE i = 1
    BY <1>2, <2>1
  <2>2. CASE i # 1
    <3>1. j # 1 /\ i - 1 < j - 1
      BY <1>3, <1>8, <2>2
    <3>2. /\ i - 1 \in DOMAIN W /\ M[i] = W[i - 1]
          /\ j - 1 \in DOMAIN W /\ M[j] = W[j - 1]
      BY <1>2, <2>2, <3>1
    <3>3. W[j - 1] \in U \ {x}
      BY <1>4, <1>8, <3>2
    <3>4. W[i - 1] \in U \ {x}
      BY <1>1, <3>1, <3>2, <3>3 DEF UpdatedFirst
    <3> QED BY <3>2, <3>4
  <2> QED BY <2>1, <2>2
<1>9. ASSUME NEW y, NEW k \in Nat, y # x, PosAfter(L, y, k) PROVE PosAfter(M, y, k)
  <2>1. PICK a \in DOMAIN L : a > k /\ L[a] = y
    BY <1>9 DEF PosAfter
  <2>2. PICK j \in DOMAIN W : j >= a - 1 /\ W[j] = y
    BY <1>0, <1>9, <2>1
  <2>3. j + 1 \in DOMAIN M /\ M[j + 1] = y /\ j + 1 > k
    BY <1>2, <1>3, <2>1, <2>2
  <2> QED BY <2>3 DEF PosAfter
<1>10. UpdatedFirst(M, U \cup {x})
  BY <1>7, <1>8 DEF UpdatedFirst
<1> QED BY <1>2, <1>6, <1>9, <1>10 DEF M

-----------------------------------------------------------------------------
\* A request for a REST page: what of it is taken, and where it was.
DataLen(sheet, total) ==
  LET top == Smaller(BaseOf(sheet) + sheet.restSize, total)
  IN IF BaseOf(sheet) < top THEN top - BaseOf(sheet) ELSE 0
TakenLen(sheet, total) ==
  LET most == Smaller(DataLen(sheet, total), sheet.skip + sheet.size - Len(sheet.rows))
  IN IF sheet.skip < most THEN most - sheet.skip ELSE 0

LEMMA PageFields ==
  ASSUME NEW sheet \in Page
  PROVE  /\ sheet.size \in Nat \ {0} /\ sheet.restSize \in Nat \ {0} /\ sheet.rest \in Nat \ {0}
         /\ sheet.skip \in Nat /\ sheet.rows \in Seq(Scenes) /\ Len(sheet.rows) \in Nat
         /\ sheet.newer \in SUBSET Scenes /\ sheet.total \in Nat /\ sheet.read \in BOOLEAN
         /\ BaseOf(sheet) \in Nat /\ sheet.rest * sheet.restSize = BaseOf(sheet) + sheet.restSize
<1>1. /\ sheet.size \in Nat \ {0} /\ sheet.restSize \in Nat \ {0} /\ sheet.rest \in Nat \ {0}
      /\ sheet.skip \in Nat /\ sheet.rows \in Seq(Scenes) /\ Len(sheet.rows) \in Nat
      /\ sheet.newer \in SUBSET Scenes /\ sheet.total \in Nat /\ sheet.read \in BOOLEAN
  BY DEF Page
<1>2. \A a \in Nat \ {0}, b \in Nat \ {0} : (a - 1) * b \in Nat /\ a * b = (a - 1) * b + b
  OBVIOUS
<1>3. BaseOf(sheet) \in Nat /\ sheet.rest * sheet.restSize = BaseOf(sheet) + sheet.restSize
  BY <1>1, <1>2 DEF BaseOf
<1> QED BY <1>1, <1>3

LEMMA ReadRestIs ==
  ASSUME listing \in Seq(Scenes), updated \in SUBSET Scenes, NEW sheet \in Page
  PROVE  LET new == ReadRest(sheet)
             total == Len(listing)
         IN /\ new \in Page
            /\ new.size = sheet.size /\ new.restSize = sheet.restSize /\ new.rest = sheet.rest + 1
            /\ new.skip = 0 /\ new.total = total
            /\ Len(new.rows) = Len(sheet.rows) + TakenLen(sheet, total)
            /\ \A i \in 1..Len(sheet.rows) : new.rows[i] = sheet.rows[i]
            /\ \A i \in 1..TakenLen(sheet, total) :
                 new.rows[Len(sheet.rows) + i] = listing[BaseOf(sheet) + sheet.skip + i]
            /\ \A i \in 1..DataLen(sheet, total) :
                 listing[BaseOf(sheet) + i] \in updated => listing[BaseOf(sheet) + i] \in new.newer
            /\ new.read = \/ Len(new.rows) >= sheet.size
                          \/ DataLen(sheet, total) = 0
                          \/ BaseOf(sheet) + sheet.restSize >= total
<1> DEFINE L == listing
           total == Len(L)
           base == BaseOf(sheet)
           top == Smaller(base + sheet.restSize, total)
           data == RestRows(sheet)
           most == Smaller(Len(data), sheet.skip + sheet.size - Len(sheet.rows))
           took == Taken(sheet, data)
           new == ReadRest(sheet)
<1>0. total \in Nat /\ L \in Seq(Scenes)
  OBVIOUS
<1>1. /\ sheet.size \in Nat \ {0} /\ sheet.restSize \in Nat \ {0} /\ sheet.rest \in Nat \ {0}
      /\ sheet.skip \in Nat /\ sheet.rows \in Seq(Scenes) /\ Len(sheet.rows) \in Nat
      /\ sheet.newer \in SUBSET Scenes /\ sheet.total \in Nat /\ sheet.read \in BOOLEAN
      /\ base \in Nat /\ sheet.rest * sheet.restSize = base + sheet.restSize
  BY PageFields
<1>2. data = SubSeq(L, base + 1, top)
  BY <1>1 DEF RestRows, BaseOf
<1>3. took = SubSeq(data, sheet.skip + 1, most)
  BY DEF Taken
<1>4. new = [sheet EXCEPT !.rows = sheet.rows \o took, !.newer = sheet.newer \cup (ScenesIn(data) \cap updated),
                         !.total = total, !.rest = sheet.rest + 1, !.skip = 0,
                         !.read = \/ Len(sheet.rows \o took) >= sheet.size
                                  \/ data = <<>>
                                  \/ base + sheet.restSize >= total]
  BY <1>1 DEF ReadRest
<1> HIDE DEF L, total, base, top, data, most, took, new
<1>5. top \in Nat /\ top <= total
  BY <1>0, <1>1, SMTT(40) DEF top, Smaller
<1>6. /\ data \in Seq(Scenes) /\ Len(data) = DataLen(sheet, total)
      /\ \A i \in 1..Len(data) : data[i] = L[base + i]
  <2>1. base + 1 \in Nat \ {0} /\ top \in Int /\ top <= Len(L)
    BY <1>1, <1>5 DEF total
  <2>2. /\ data \in Seq(Scenes) /\ Len(data) = (IF base + 1 <= top THEN top - (base + 1) + 1 ELSE 0)
        /\ \A i \in 1..Len(data) : data[i] = L[(base + 1) + i - 1]
    BY <1>0, <1>2, <2>1, SliceProperties, SMTT(40)
  <2>3. Len(data) = DataLen(sheet, total)
    BY <1>1, <1>5, <2>2 DEF DataLen, top, base
  <2>4. \A i \in 1..Len(data) : (base + 1) + i - 1 = base + i
    BY <1>1, <2>2
  <2> QED BY <2>2, <2>3, <2>4
<1>7. Len(data) \in Nat /\ most \in Int /\ most <= Len(data)
  <2>1. data \in Seq(Scenes)
    BY <1>6
  <2>2. Len(data) \in Nat
    BY ONLY <2>1
  <2>3. sheet.size \in Nat /\ sheet.skip \in Nat /\ Len(sheet.rows) \in Nat
    BY <1>1
  <2> QED BY ONLY <2>2, <2>3 DEF most, Smaller
<1>8. /\ took \in Seq(Scenes) /\ Len(took) = TakenLen(sheet, total)
      /\ \A i \in 1..Len(took) : took[i] = L[base + sheet.skip + i]
  <2>1. sheet.skip + 1 \in Nat \ {0}
    BY <1>1, SMTT(40)
  <2>2. /\ took \in Seq(Scenes)
        /\ Len(took) = (IF sheet.skip + 1 <= most THEN most - (sheet.skip + 1) + 1 ELSE 0)
        /\ \A i \in 1..Len(took) : took[i] = data[(sheet.skip + 1) + i - 1]
    BY <1>3, <1>6, <1>7, <2>1, SliceProperties, SMTT(40)
  <2>3. Len(took) = TakenLen(sheet, total)
    BY <1>1, <1>6, <1>7, <2>2, SMTT(40) DEF TakenLen, most
  <2>4. \A i \in 1..Len(took) : /\ (sheet.skip + 1) + i - 1 = sheet.skip + i
                                 /\ sheet.skip + i \in 1..Len(data)
                                 /\ base + (sheet.skip + i) = base + sheet.skip + i
    <3> DEFINE d == Len(data)
               k == Len(took)
               z == sheet.skip
    <3>1. /\ z \in Nat /\ d \in Nat /\ most \in Int /\ most <= d /\ base \in Nat
          /\ k = (IF z + 1 <= most THEN most - (z + 1) + 1 ELSE 0)
      BY <1>1, <1>7, <2>2
    <3> HIDE DEF d, k, z
    <3>2. \A i \in 1..k : (z + 1) + i - 1 = z + i /\ z + i \in 1..d /\ base + (z + i) = base + z + i
      BY <3>1
    <3> QED BY <3>2 DEF d, k, z
  <2>5. \A i \in 1..Len(took) : took[i] = L[base + (sheet.skip + i)]
    BY <1>6, <2>2, <2>4
  <2> QED BY <2>2, <2>3, <2>4, <2>5
<1>9. /\ sheet.rows \o took \in Seq(Scenes)
      /\ Len(sheet.rows \o took) = Len(sheet.rows) + TakenLen(sheet, total)
      /\ \A i \in 1..Len(sheet.rows) : (sheet.rows \o took)[i] = sheet.rows[i]
      /\ \A i \in 1..TakenLen(sheet, total) :
           (sheet.rows \o took)[Len(sheet.rows) + i] = L[base + sheet.skip + i]
  <2>1. /\ sheet.rows \o took \in Seq(Scenes)
        /\ Len(sheet.rows \o took) = Len(sheet.rows) + Len(took)
        /\ \A i \in 1..(Len(sheet.rows) + Len(took)) :
             (sheet.rows \o took)[i] = IF i <= Len(sheet.rows) THEN sheet.rows[i] ELSE took[i - Len(sheet.rows)]
    <3>1. sheet.rows \in Seq(Scenes) /\ took \in Seq(Scenes)
      BY <1>1, <1>8
    <3> QED BY ONLY <3>1, ConcatProperties
  <2>2. Len(took) \in Nat
    BY <1>8
  <2>3. \A i \in 1..Len(sheet.rows) : i \in 1..(Len(sheet.rows) + Len(took)) /\ i <= Len(sheet.rows)
    BY <1>1, <2>2
  <2>4. \A i \in 1..Len(took) : /\ Len(sheet.rows) + i \in 1..(Len(sheet.rows) + Len(took))
                                 /\ ~(Len(sheet.rows) + i <= Len(sheet.rows))
                                 /\ (Len(sheet.rows) + i) - Len(sheet.rows) = i
    BY <1>1, <2>2, SMTT(40)
  <2>5. \A i \in 1..Len(took) : (sheet.rows \o took)[Len(sheet.rows) + i] = took[i]
    BY <2>1, <2>4
  <2> QED BY <1>8, <2>1, <2>3, <2>5
<1>10. ScenesIn(data) \in SUBSET Scenes /\ \A i \in 1..DataLen(sheet, total) : L[base + i] \in ScenesIn(data)
  BY <1>6 DEF ScenesIn
<1>11. (data = <<>>) <=> (DataLen(sheet, total) = 0)
  BY <1>6
<1> DEFINE read == \/ Len(sheet.rows \o took) >= sheet.size
                   \/ data = <<>>
                   \/ base + sheet.restSize >= total
<1>12. /\ new.size = sheet.size /\ new.restSize = sheet.restSize /\ new.rest = sheet.rest + 1
       /\ new.skip = 0 /\ new.total = total /\ new.rows = sheet.rows \o took
       /\ new.newer = sheet.newer \cup (ScenesIn(data) \cap updated)
       /\ new.read = read
  BY <1>4 DEF Page
<1>13. new \in Page
  <2> DEFINE rows == sheet.rows \o took
             newer == sheet.newer \cup (ScenesIn(data) \cap updated)
  <2>1. rows \in Seq(Scenes) /\ newer \in SUBSET Scenes /\ read \in BOOLEAN /\ sheet.rest + 1 \in Nat \ {0}
    BY <1>1, <1>9, <1>10, SMTT(40)
  <2>2. new = [sheet EXCEPT !.rows = rows, !.newer = newer, !.total = total, !.rest = sheet.rest + 1,
                           !.skip = 0, !.read = read]
    BY <1>4
  <2> HIDE DEF rows, newer, read
  <2> QED BY <1>0, <2>1, <2>2 DEF Page
<1>14. \A i \in 1..DataLen(sheet, total) : L[base + i] \in updated => L[base + i] \in new.newer
  BY <1>10, <1>12
<1>15. new.read = (\/ Len(new.rows) >= sheet.size \/ DataLen(sheet, total) = 0
                   \/ base + sheet.restSize >= total)
  BY <1>11, <1>12
<1>16. /\ Len(new.rows) = Len(sheet.rows) + TakenLen(sheet, total)
       /\ \A i \in 1..Len(sheet.rows) : new.rows[i] = sheet.rows[i]
       /\ \A i \in 1..TakenLen(sheet, total) : new.rows[Len(sheet.rows) + i] = L[base + sheet.skip + i]
  BY <1>9, <1>12
<1> QED BY <1>12, <1>13, <1>14, <1>15, <1>16 DEF L, total, base, new

-----------------------------------------------------------------------------
\* A page of a listing that does not move: what is read of it is a slice.
RowsDue(offset, size, total) == IF offset < total THEN Smaller(size, total - offset) ELSE 0

PageIs(L, sheet, n, size, cap) ==
  LET offset == Offset(n, size)
      have == Len(sheet.rows)
  IN /\ sheet.size = size /\ sheet.restSize = Smaller(size, cap) /\ sheet.skip < sheet.restSize
     /\ \A i \in 1..have : sheet.rows[i] = L[offset + i]
     /\ have = 0 \/ offset + have <= Len(L)
     /\ ~sheet.read => have < size /\ BaseOf(sheet) + sheet.skip = offset + have
     /\ sheet.read => have = RowsDue(offset, size, Len(L)) /\ sheet.total = Len(L)

LEMMA VirtualPageIs ==
  ASSUME NEW L \in Seq(Scenes), NEW n \in Nat \ {0}, NEW size \in Nat \ {0}, NEW cap \in Nat \ {0}
  PROVE  PageIs(L, VirtualPage(n, size, cap), n, size, cap)
<1> DEFINE sheet == VirtualPage(n, size, cap)
           offset == Offset(n, size)
<1>0. IsBegun(sheet, n, size, cap)
  BY VirtualPageIsBegun
<1> HIDE DEF sheet, offset
<1>1. /\ offset \in Nat /\ sheet.size = size /\ sheet.restSize = Smaller(size, cap)
      /\ sheet.rows = <<>> /\ sheet.read = FALSE
      /\ sheet.skip < sheet.restSize /\ BaseOf(sheet) + sheet.skip = offset
  BY <1>0 DEF IsBegun, offset
<1>2. Len(sheet.rows) = 0 /\ 0 < size /\ offset + 0 = offset /\ 1..0 = {}
  BY <1>1
<1>3. Offset(n, size) = offset /\ BaseOf(sheet) + sheet.skip = offset
  BY <1>1 DEF offset
<1>4. 0 = 0 \/ offset + 0 <= Len(L)
  OBVIOUS
<1>5. PageIs(L, sheet, n, size, cap)
  <2> DEFINE have == Len(sheet.rows)
             o == Offset(n, size)
  <2>1. /\ sheet.size = size /\ sheet.restSize = Smaller(size, cap) /\ sheet.skip < sheet.restSize
        /\ \A i \in 1..have : sheet.rows[i] = L[o + i]
        /\ have = 0 \/ o + have <= Len(L)
    BY <1>1, <1>2
  <2>2. have < size /\ BaseOf(sheet) + sheet.skip = o + have /\ ~sheet.read
    BY <1>1, <1>2, <1>3
  <2> HIDE DEF have, o
  <2> QED BY <2>1, <2>2 DEF PageIs, have, o
<1> QED BY <1>5 DEF sheet

LEMMA OffsetIsNat ==
  ASSUME NEW n \in Nat \ {0}, NEW size \in Nat \ {0}
  PROVE  Offset(n, size) \in Nat
<1>1. n - 1 \in Nat
  OBVIOUS
<1> QED BY <1>1, MultiplesDivide DEF Offset

LEMMA ReadKeepsPage ==
  ASSUME listing \in Seq(Scenes), updated \in SUBSET Scenes, NEW sheet \in Page, ~sheet.read,
         NEW n \in Nat \ {0}, NEW size \in Nat \ {0}, NEW cap \in Nat \ {0},
         PageIs(listing, sheet, n, size, cap)
  PROVE  PageIs(listing, ReadRest(sheet), n, size, cap)
<1> DEFINE L == listing
           total == Len(L)
           offset == Offset(n, size)
           have == Len(sheet.rows)
           base == BaseOf(sheet)
           r == sheet.restSize
           new == ReadRest(sheet)
           took == TakenLen(sheet, total)
           got == DataLen(sheet, total)
<1>1. /\ sheet.size \in Nat \ {0} /\ r \in Nat \ {0} /\ sheet.rest \in Nat \ {0}
      /\ sheet.skip \in Nat /\ sheet.rows \in Seq(Scenes) /\ have \in Nat
      /\ base \in Nat /\ sheet.rest * sheet.restSize = base + r /\ total \in Nat
  BY PageFields
<1>2. /\ new \in Page
      /\ new.size = sheet.size /\ new.restSize = sheet.restSize /\ new.rest = sheet.rest + 1
      /\ new.skip = 0 /\ new.total = total
      /\ Len(new.rows) = have + took
      /\ \A i \in 1..have : new.rows[i] = sheet.rows[i]
      /\ \A i \in 1..took : new.rows[have + i] = L[base + sheet.skip + i]
      /\ new.read = (Len(new.rows) >= sheet.size \/ got = 0 \/ base + r >= total)
  BY ReadRestIs
<1>3. /\ sheet.size = size /\ r = Smaller(size, cap) /\ sheet.skip < r
      /\ \A i \in 1..have : sheet.rows[i] = L[offset + i]
      /\ have = 0 \/ offset + have <= total
      /\ have < size /\ base + sheet.skip = offset + have
  BY DEF PageIs
<1>4. offset \in Nat
  BY OffsetIsNat
<1>5. got = IF base < Smaller(base + r, total) THEN Smaller(base + r, total) - base ELSE 0
  BY DEF DataLen
<1>6. took = LET most == Smaller(got, sheet.skip + size - have)
             IN IF sheet.skip < most THEN most - sheet.skip ELSE 0
  BY <1>3 DEF TakenLen
<1>7. BaseOf(new) = base + r
  BY <1>1, <1>2 DEF BaseOf
<1> HIDE DEF L, total, offset, have, base, r, new, took, got
<1>8. got \in Nat /\ took \in Nat
  <2>1. base \in Nat /\ r \in Nat /\ total \in Nat
    BY <1>1
  <2>2. got \in Nat
    BY <1>5, <2>1 DEF Smaller
  <2> DEFINE rest == sheet.skip + size - have
  <2>3. rest \in Int /\ sheet.skip \in Nat
    BY <1>1
  <2> HIDE DEF rest
  <2>4. took = LET most == Smaller(got, rest) IN IF sheet.skip < most THEN most - sheet.skip ELSE 0
    BY <1>6 DEF rest
  <2> QED BY <2>2, <2>3, <2>4 DEF Smaller
<1>9. /\ have + took = 0 \/ offset + (have + took) <= total
      /\ ~new.read => have + took < size /\ base + r = offset + (have + took)
      /\ new.read => have + took = RowsDue(offset, size, total)
  <2>1. sheet.skip \in Nat /\ size \in Nat /\ sheet.size = size
    BY <1>1, <1>3
  <2> DEFINE full == have + took >= size \/ got = 0 \/ base + r >= total
  <2>2. new.read = full
    BY <1>2, <1>3
  <2>3. /\ have + took = 0 \/ offset + (have + took) <= total
        /\ ~full => have + took < size /\ base + r = offset + (have + took)
        /\ full => have + took = RowsDue(offset, size, total)
    <3> DEFINE skip == sheet.skip
    <3>0. /\ base \in Nat /\ r \in Nat \ {0} /\ skip \in Nat /\ have \in Nat /\ size \in Nat
          /\ total \in Nat /\ offset \in Nat /\ skip < r /\ have < size /\ base + skip = offset + have
          /\ have = 0 \/ offset + have <= total
          /\ got = IF base < Smaller(base + r, total) THEN Smaller(base + r, total) - base ELSE 0
          /\ took = LET most == Smaller(got, skip + size - have)
                    IN IF skip < most THEN most - skip ELSE 0
      BY <1>1, <1>3, <1>4, <1>5, <1>6, <2>1
    <3> HIDE DEF skip
    <3>1. CASE base + r <= total
      <4>1. got = r
        BY <3>0, <3>1 DEF Smaller
      <4>2. took = IF r <= skip + size - have THEN r - skip ELSE size - have
        BY <3>0, <4>1 DEF Smaller
      <4> QED BY <3>0, <3>1, <4>1, <4>2 DEF RowsDue, Smaller
    <3>2. CASE ~(base + r <= total) /\ base + skip < total
      <4>1. got = total - base
        BY <3>0, <3>2 DEF Smaller
      <4>2. took = IF total - base - skip <= size - have THEN total - base - skip ELSE size - have
        BY <3>0, <3>2, <4>1 DEF Smaller
      <4> QED BY <3>0, <3>2, <4>1, <4>2 DEF RowsDue, Smaller
    <3>3. CASE ~(base + r <= total) /\ ~(base + skip < total)
      <4>1. got <= skip /\ got \in Nat
        BY <3>0, <3>3 DEF Smaller
      <4>2. took = 0
        BY <3>0, <3>3, <4>1 DEF Smaller
      <4> QED BY <3>0, <3>3, <4>1, <4>2 DEF RowsDue, Smaller
    <3> QED BY <3>1, <3>2, <3>3
  <2> HIDE DEF full
  <2> QED BY <2>2, <2>3
<1>10. \A i \in 1..(have + took) : new.rows[i] = L[offset + i]
  <2> TAKE i \in 1..(have + took)
  <2>1. CASE i <= have
    <3>1. i \in 1..have
      BY <1>1, <1>8, <2>1
    <3> QED BY <1>2, <1>3, <3>1
  <2>2. CASE ~(i <= have)
    <3>1. i - have \in 1..took /\ have + (i - have) = i
      BY <1>1, <1>8, <2>2
    <3>2. base + sheet.skip + (i - have) = offset + i
      BY <1>1, <1>3, <1>4
    <3>3. new.rows[have + (i - have)] = L[base + sheet.skip + (i - have)]
      BY <1>2, <3>1
    <3> QED BY <3>1, <3>2, <3>3
  <2> QED BY <2>1, <2>2
<1>11. new.size = size /\ new.restSize = Smaller(size, cap) /\ new.skip < new.restSize
  BY <1>1, <1>2, <1>3 DEF r
<1>12. BaseOf(new) + new.skip = base + r
  BY <1>1, <1>2, <1>7
<1>13. /\ Len(new.rows) = 0 \/ offset + Len(new.rows) <= total
       /\ ~new.read => Len(new.rows) < size /\ BaseOf(new) + new.skip = offset + Len(new.rows)
       /\ new.read => Len(new.rows) = RowsDue(offset, size, total) /\ new.total = total
       /\ \A i \in 1..Len(new.rows) : new.rows[i] = L[offset + i]
  BY <1>2, <1>9, <1>10, <1>12
<1> HIDE DEF r
<1>14. PageIs(L, new, n, size, cap)
  BY <1>11, <1>13 DEF PageIs, total, offset
<1> QED BY <1>14 DEF L, new

-----------------------------------------------------------------------------
\* Pages merged one after the other are a prefix of the listing.
Prefix(L, limit, k) == SubSeq(L, 1, Smaller(limit, Smaller(k, Len(L))))

LEMMA PrefixProperties ==
  ASSUME NEW L \in Seq(Scenes), NEW limit \in Nat, NEW k \in Nat
  PROVE  /\ Prefix(L, limit, k) \in Seq(Scenes)
         /\ Len(Prefix(L, limit, k)) = Smaller(limit, Smaller(k, Len(L)))
         /\ \A i \in 1..Len(Prefix(L, limit, k)) : Prefix(L, limit, k)[i] = L[i]
<1> DEFINE n == Smaller(limit, Smaller(k, Len(L)))
<1>1. n \in Nat /\ n \in Int /\ n <= Len(L) /\ 1 \in Nat \ {0}
  BY DEF Smaller
<1> HIDE DEF n
<1>2. /\ SubSeq(L, 1, n) \in Seq(Scenes) /\ Len(SubSeq(L, 1, n)) = (IF 1 <= n THEN n - 1 + 1 ELSE 0)
      /\ \A i \in 1..Len(SubSeq(L, 1, n)) : SubSeq(L, 1, n)[i] = L[1 + i - 1]
  BY <1>1, SliceProperties
<1>3. Len(SubSeq(L, 1, n)) = n
  BY <1>1, <1>2
<1>4. \A i \in 1..n : 1 + i - 1 = i
  BY <1>1
<1> QED BY <1>2, <1>3, <1>4 DEF Prefix, n

Joined(before, rows, limit) ==
  before \o SubSeq(rows, 1, Smaller(Len(rows), limit - Len(before)))

LEMMA NextOffset ==
  ASSUME NEW n \in Nat \ {0}, NEW size \in Nat \ {0}
  PROVE  Offset(n + 1, size) = Offset(n, size) + size
<1>1. \A a \in Nat, c \in Nat : (a + 1) * c = a * c + c
  OBVIOUS
<1>2. n - 1 \in Nat /\ (n - 1) + 1 = (n + 1) - 1 /\ size \in Nat
  OBVIOUS
<1>3. ((n - 1) + 1) * size = (n - 1) * size + size
  BY <1>1, <1>2
<1>4. ((n + 1) - 1) * size = (n - 1) * size + size
  BY <1>2, <1>3
<1> QED BY <1>4 DEF Offset

LEMMA PrefixGrows ==
  ASSUME NEW L \in Seq(Scenes), NEW limit \in Nat, NEW sheet \in Page,
         NEW n \in Nat \ {0}, NEW size \in Nat \ {0}, NEW cap \in Nat \ {0},
         PageIs(L, sheet, n, size, cap), sheet.read
  PROVE  Joined(Prefix(L, limit, Offset(n, size)), sheet.rows, limit)
           = Prefix(L, limit, Offset(n + 1, size))
<1> DEFINE offset == Offset(n, size)
           rows == sheet.rows
           have == Len(rows)
           total == Len(L)
           before == Prefix(L, limit, offset)
           b == Len(before)
           most == Smaller(have, limit - b)
           more == SubSeq(rows, 1, most)
           after == Prefix(L, limit, offset + size)
<1>1. offset \in Nat /\ offset + size \in Nat
  <2>1. offset \in Nat /\ size \in Nat
    BY OffsetIsNat, Zenon
  <2> HIDE DEF offset
  <2> QED BY ONLY <2>1
<1>2. rows \in Seq(Scenes) /\ have \in Nat /\ total \in Nat
  <2>1. sheet \in Page /\ L \in Seq(Scenes)
    OBVIOUS
  <2>2. sheet.rows \in Seq(Scenes) /\ Len(sheet.rows) \in Nat
    BY ONLY <2>1, PageFields
  <2>3. Len(L) \in Nat
    BY ONLY <2>1
  <2> QED BY <2>2, <2>3
<1>3. have = RowsDue(offset, size, total) /\ \A i \in 1..have : rows[i] = L[offset + i]
  BY DEF PageIs
<1>4. /\ before \in Seq(Scenes) /\ b = Smaller(limit, Smaller(offset, total))
      /\ \A i \in 1..b : before[i] = L[i]
  BY <1>1, PrefixProperties
<1>5. /\ after \in Seq(Scenes) /\ Len(after) = Smaller(limit, Smaller(offset + size, total))
      /\ \A i \in 1..Len(after) : after[i] = L[i]
  BY <1>1, PrefixProperties
<1> HIDE DEF offset, rows, have, total, before, b, most, more, after
<1>6. b \in Nat /\ b <= limit
  BY <1>1, <1>2, <1>4, SMTT(40) DEF Smaller
<1>7. most \in Nat /\ most <= have
  BY <1>2, <1>6 DEF most, Smaller
<1>8. /\ more \in Seq(Scenes) /\ Len(more) = most
      /\ \A i \in 1..most : more[i] = rows[i]
  <2>1. 1 \in Nat \ {0} /\ most \in Int /\ most <= Len(rows)
    BY <1>7 DEF have
  <2>2. /\ more \in Seq(Scenes) /\ Len(more) = (IF 1 <= most THEN most - 1 + 1 ELSE 0)
        /\ \A i \in 1..Len(more) : more[i] = rows[1 + i - 1]
    BY <1>2, <2>1, SliceProperties DEF more
  <2>3. Len(more) = most /\ \A i \in 1..most : 1 + i - 1 = i
    BY <1>7, <2>2
  <2> QED BY <2>2, <2>3
<1>9. b + most = Len(after) /\ (most > 0 => b = offset)
  <2>1. CASE offset < total /\ offset < limit
    <3>1. b = offset /\ have = Smaller(size, total - offset)
      BY <1>1, <1>2, <1>3, <1>4, <2>1 DEF Smaller, RowsDue
    <3> QED BY <1>1, <1>2, <1>5, <2>1, <3>1 DEF Smaller, most
  <2>2. CASE offset < total /\ ~(offset < limit)
    <3>1. b = limit
      BY <1>1, <1>2, <1>4, <2>2, SMTT(40) DEF Smaller
    <3>2. most = 0
      BY <1>2, <3>1 DEF Smaller, most
    <3> QED BY <1>1, <1>2, <1>5, <2>2, <3>1, <3>2 DEF Smaller
  <2>3. CASE ~(offset < total)
    <3>1. have = 0
      BY <1>3, <2>3 DEF RowsDue
    <3>2. most = 0
      BY <1>6, <3>1 DEF Smaller, most
    <3> QED BY <1>1, <1>2, <1>4, <1>5, <2>3, <3>2 DEF Smaller
  <2> QED BY <2>1, <2>2, <2>3
<1>10. /\ before \o more \in Seq(Scenes) /\ Len(before \o more) = b + most
       /\ \A i \in 1..(b + most) : (before \o more)[i] = IF i <= b THEN before[i] ELSE more[i - b]
  BY <1>4, <1>8, ConcatProperties, ZenonT(60) DEF b
<1>11. \A i \in 1..(b + most) : (before \o more)[i] = L[i]
  <2> TAKE i \in 1..(b + most)
  <2>1. CASE i <= b
    <3>1. i \in 1..b
      BY <1>6, <2>1
    <3> QED BY <1>4, <1>10, <2>1, <3>1
  <2>2. CASE ~(i <= b)
    <3>1. i - b \in 1..most /\ most > 0
      BY <1>6, <1>7, <2>2
    <3>2. b = offset /\ i - b \in 1..have
      BY <1>2, <1>7, <1>9, <3>1
    <3>3. offset + (i - b) = i
      BY <1>1, <3>2
    <3>4. rows[i - b] = L[offset + (i - b)]
      BY <1>3, <3>2
    <3> QED BY <1>8, <1>10, <2>2, <3>1, <3>3, <3>4
  <2> QED BY <2>1, <2>2
<1>12. before \o more = after
  BY <1>5, <1>9, <1>10, <1>11, SameRows
<1>13. Offset(n + 1, size) = Offset(n, size) + size
  BY NextOffset
<1> QED BY <1>12, <1>13 DEF before, more, most, b, rows, have, after, offset, Joined

LEMMA LeastOf ==
  ASSUME NEW M \in SUBSET Nat, M # {}
  PROVE  \E n \in M : \A m \in M : n <= m
<1>1. PICK n \in M : \A m \in M : <<m, n>> \notin OpToRel(<, Nat)
  BY NatLessThanWellFounded, WFMin
<1>2. \A m \in M : ~(m < n)
  BY <1>1 DEF OpToRel
<1> QED BY <1>2

NextMerged(f) ==
  [n \in 0..Len(probe.pages) |->
     IF n = 0 THEN <<>>
     ELSE Joined(f[n - 1], probe.pages[n].rows, probe.limit)]

LEMMA MergedIsAPrefix ==
  ASSUME listing \in Seq(Scenes), probe \in Probe, NEW size \in Nat \ {0},
         \A n \in 1..Len(probe.pages) :
            probe.pages[n].read /\ PageIs(listing, probe.pages[n], n, size, probe.cap)
  PROVE  Merged = Prefix(listing, probe.limit, Offset(Len(probe.pages) + 1, size))
<1> DEFINE K == Len(probe.pages)
           limit == probe.limit
           whole == [n \in 0..K |-> Prefix(listing, limit, Offset(n + 1, size))]
           f == CHOOSE g : g = NextMerged(g)
<1>1. /\ K \in Nat /\ limit \in Nat /\ probe.cap \in Nat \ {0}
      /\ \A n \in 1..K : probe.pages[n] \in Page
  BY DEF Probe
<1>2. ASSUME NEW n \in 1..K
      PROVE  Joined(Prefix(listing, limit, Offset(n, size)), probe.pages[n].rows, limit)
               = Prefix(listing, limit, Offset(n + 1, size))
  <2>1. n \in Nat \ {0} /\ size \in Nat \ {0}
    BY <1>1
  <2>2. /\ probe.pages[n] \in Page /\ probe.pages[n].read
        /\ PageIs(listing, probe.pages[n], n, size, probe.cap)
    BY <1>1
  <2> HIDE DEF limit
  <2> DEFINE sheet == probe.pages[n]
  <2>3. sheet \in Page /\ sheet.read /\ PageIs(listing, sheet, n, size, probe.cap)
    BY <2>2
  <2> HIDE DEF sheet
  <2>4. Joined(Prefix(listing, limit, Offset(n, size)), sheet.rows, limit)
          = Prefix(listing, limit, Offset(n + 1, size))
    BY <1>1, <2>1, <2>3, PrefixGrows
  <2> QED BY <2>4 DEF sheet
<1>3. Prefix(listing, limit, Offset(0 + 1, size)) = <<>>
  <2>1. Offset(0 + 1, size) = 0
    BY DEF Offset
  <2>2. Smaller(limit, Smaller(0, Len(listing))) = 0
    BY <1>1 DEF Smaller
  <2>3. SubSeq(listing, 1, 0) = <<>>
    BY SubSeqEmpty
  <2> QED BY <2>1, <2>2, <2>3 DEF Prefix
<1> HIDE DEF limit
<1>4. \A n \in 1..K : n - 1 \in 0..K /\ n \in 0..K /\ (n - 1) + 1 = n /\ n # 0
  BY <1>1
<1>5. ASSUME NEW g, NEW n \in 1..K, g[n - 1] = whole[n - 1] PROVE NextMerged(g)[n] = whole[n]
  <2>1. whole[n - 1] = Prefix(listing, limit, Offset(n, size))
    BY <1>4
  <2>2. whole[n] = Prefix(listing, limit, Offset(n + 1, size))
    BY <1>4
  <2>3. NextMerged(g)[n] = Joined(g[n - 1], probe.pages[n].rows, limit)
    BY <1>4 DEF NextMerged, limit
  <2> HIDE DEF whole
  <2> QED BY <1>2, <1>5, <2>1, <2>2, <2>3
<1>6. 0 \in 0..K /\ \A g : NextMerged(g)[0] = <<>>
  BY <1>1 DEF NextMerged
<1>7. whole[0] = <<>>
  BY <1>3, <1>6
<1>8. \A g : NextMerged(g) = [n \in 0..K |-> NextMerged(g)[n]]
  BY DEF NextMerged
<1>9. whole = [n \in 0..K |-> whole[n]]
  OBVIOUS
<1> HIDE DEF whole
<1>10. \A n \in 0..K : n = 0 \/ n \in 1..K
  BY <1>1
<1>11. whole = NextMerged(whole)
  <2>1. \A n \in 0..K : NextMerged(whole)[n] = whole[n]
    BY <1>5, <1>6, <1>7, <1>10
  <2> QED BY <1>8, <1>9, <2>1
<1>12. f = NextMerged(f)
  BY <1>11
<1>13. Merged = f[K]
  BY DEF Merged, NextMerged, Joined
<1> HIDE DEF f, K
<1> DEFINE wrong == {n \in 0..K : f[n] # whole[n]}
<1>14. wrong = {}
  <2>1. SUFFICES ASSUME wrong # {} PROVE FALSE
    OBVIOUS
  <2>2. wrong \in SUBSET Nat
    BY <1>1
  <2>3. PICK n \in wrong : \A m \in wrong : n <= m
    BY <2>1, <2>2, LeastOf
  <2>4. n \in 0..K /\ f[n] # whole[n]
    OBVIOUS
  <2>5. n # 0
    BY <1>6, <1>7, <1>12, <2>4
  <2>6. n \in 1..K
    BY <1>10, <2>4, <2>5
  <2>7. n - 1 \in 0..K /\ ~(n <= n - 1)
    BY <1>1, <2>6
  <2>8. n - 1 \notin wrong
    BY <2>3, <2>7
  <2>9. f[n - 1] = whole[n - 1]
    BY <2>7, <2>8
  <2> QED BY <1>5, <1>12, <2>4, <2>6, <2>9
<1>15. K \in 0..K
  BY <1>1
<1> QED BY <1>13, <1>14, <1>15 DEF whole, K, limit

-----------------------------------------------------------------------------
\* What holds of a probe at work.
SizeOf(p) == Smaller(FetchPageSize, p.limit)
Needed(limit, total) ==
  (Smaller(total, limit) + Smaller(FetchPageSize, limit) - 1) \div Smaller(FetchPageSize, limit)

KindHolds(p) ==
  /\ p.kind = "walk" => p.pc \in {"walk", "end"}
  /\ p.kind = "parallel" => p.pc # "walk"
  /\ p.pc = "first" => Len(p.pages) = 1

\* As long as the listing does not move, its pages are slices of it.
SteadyHolds(L, p) ==
  p.kind = "parallel" /\ p.steady =>
    /\ p.pc = "rest" => Len(p.pages) = Needed(p.limit, Len(L))
    /\ p.pc \in {"first", "rest"} =>
         \A n \in 1..Len(p.pages) : PageIs(L, p.pages[n], n, SizeOf(p), p.cap)
    /\ p.pc = "end" => p.rows = SubSeq(L, 1, Smaller(p.limit, Len(L)))

\* A scene a walk has not taken yet is in its page before the first old row,
\* or further down than the page reaches.
Ahead(L, sheet, x) ==
  \/ \E i \in 1..Fresh(sheet) : sheet.rows[i] = x
  \/ Old(sheet) = {} /\ sheet.rows # <<>> /\ BaseOf(sheet) < sheet.total /\ PosAfter(L, x, BaseOf(sheet))

WalkGoesOn(L, A, p) ==
  LET n == Len(p.pages)
      sheet == p.pages[n]
  IN /\ n >= 1 /\ \A m \in 1..(n - 1) : p.pages[m].read
     /\ p.fetched < p.limit /\ sheet.size <= p.cap /\ sheet.restSize = sheet.size
     /\ ~sheet.read => /\ sheet.rest = n /\ sheet.skip = 0 /\ sheet.rows = <<>> /\ sheet.newer = {}
                      /\ \A x \in A : x \in ScenesIn(p.rows) \/ PosAfter(L, x, BaseOf(sheet))
     /\ sheet.read => /\ sheet.rest = n + 1
                     /\ \A x \in A : x \in ScenesIn(p.rows) \/ Ahead(L, sheet, x)

WalkHolds(L, A, p) ==
  p.kind = "walk" =>
    /\ p.pc = "walk" => WalkGoesOn(L, A, p)
    /\ p.pc = "end" /\ p.fetched < p.limit => A \subseteq ScenesIn(p.rows)

ProbesInv ==
  /\ TypeOKProbes /\ IsInjective(listing) /\ UpdatedFirst(listing, updated) /\ awaited \subseteq updated
  /\ probe # NoProbe => KindHolds(probe) /\ SteadyHolds(listing, probe) /\ WalkHolds(listing, awaited, probe)

LEMMA ProbesInvAnswers == ProbesInv => PagesAreTheListing /\ WalksMissNothing
BY DEF ProbesInv, TypeOKProbes, SteadyHolds, WalkHolds, PagesAreTheListing, WalksMissNothing, NoProbe

LEMMA ProbesInit == InitProbes => ProbesInv
<1> SUFFICES ASSUME InitProbes PROVE ProbesInv
  OBVIOUS
<1> DEFINE C == Catalogue
<1>1. C \in Seq(Scenes) /\ IsInjective(C) /\ Len(C) \in Nat /\ DOMAIN C = 1..Len(C)
  BY ScenesOfCatalogue
<1>2. PICK n \in 0..Len(C) : /\ listing = SubSeq(C, 1, n)
                             /\ \E k \in 0..n : updated = ScenesIn(SubSeq(C, 1, k))
  BY DEF InitProbes
<1>20. PICK k \in 0..n : listing = SubSeq(C, 1, n) /\ updated = ScenesIn(SubSeq(C, 1, k))
  BY <1>2
<1>3. probe = NoProbe /\ moves = 0 /\ awaited = {}
  BY DEF InitProbes
<1> HIDE DEF C
<1>4. ASSUME NEW m \in 0..Len(C)
      PROVE  /\ SubSeq(C, 1, m) \in Seq(Scenes) /\ Len(SubSeq(C, 1, m)) = m
             /\ DOMAIN SubSeq(C, 1, m) = 1..m
             /\ \A i \in 1..m : SubSeq(C, 1, m)[i] = C[i]
  <2>1. 1 \in Nat \ {0} /\ m \in Int /\ m <= Len(C)
    BY <1>1
  <2>2. /\ SubSeq(C, 1, m) \in Seq(Scenes)
        /\ Len(SubSeq(C, 1, m)) = (IF 1 <= m THEN m - 1 + 1 ELSE 0)
        /\ \A i \in 1..Len(SubSeq(C, 1, m)) : SubSeq(C, 1, m)[i] = C[1 + i - 1]
    BY <1>1, <2>1, SliceProperties
  <2>3. Len(SubSeq(C, 1, m)) = m /\ \A i \in 1..m : 1 + i - 1 = i
    BY <1>1, <2>2
  <2> QED BY <2>2, <2>3
<1>5. k \in 0..Len(C) /\ n \in 0..Len(C) /\ k \in Nat /\ n \in Nat /\ k <= n
  BY <1>1, <1>2, <1>20
<1>6. 1..n \subseteq DOMAIN C /\ 1..k \subseteq 1..n
  BY <1>1, <1>5
<1>7. listing \in Seq(Scenes) /\ DOMAIN listing = 1..n /\ \A i \in 1..n : listing[i] = C[i]
  BY <1>2, <1>20, <1>4, <1>5
<1>8. updated = {C[i] : i \in 1..k}
  BY <1>2, <1>20, <1>4, <1>5 DEF ScenesIn
<1>9. IsInjective(listing)
  BY <1>1, <1>6, <1>7 DEF IsInjective
<1>10. \A i, j \in 1..n : i < j /\ listing[j] \in updated => listing[i] \in updated
  <2> SUFFICES ASSUME NEW i \in 1..n, NEW j \in 1..n, i < j, listing[j] \in updated
               PROVE  listing[i] \in updated
    OBVIOUS
  <2>1. PICK h \in 1..k : C[j] = C[h]
    BY <1>7, <1>8
  <2>2. j = h
    BY <1>1, <1>6, <2>1 DEF IsInjective
  <2>3. i \in 1..k
    BY <1>5, <2>2
  <2> QED BY <1>7, <1>8, <2>3
<1>11. updated \subseteq ScenesIn(listing)
  <2>1. \A i \in 1..k : i \in DOMAIN listing /\ listing[i] = C[i]
    BY <1>6, <1>7
  <2> QED BY <1>8, <2>1 DEF ScenesIn
<1>12. updated \in SUBSET Scenes
  BY <1>7, <1>11 DEF ScenesIn
<1>13. UpdatedFirst(listing, updated)
  BY <1>7, <1>10, <1>11 DEF UpdatedFirst
<1> QED BY <1>3, <1>7, <1>9, <1>12, <1>13 DEF ProbesInv, TypeOKProbes

LEMMA BeginIs ==
  ASSUME ProbesInv, NEW kind \in {"parallel", "walk"}, NEW limit \in ProbeLimits,
         NEW cap \in {FetchPageSize, RestPageSize}, Begin(kind, limit, cap)
  PROVE  LET size == Smaller(FetchPageSize, limit)
         IN /\ probe' \in Probe /\ probe' # NoProbe
            /\ probe'.kind = kind /\ probe'.pc = (IF kind = "walk" THEN "walk" ELSE "first")
            /\ probe'.limit = limit /\ probe'.cap = cap /\ probe'.fetched = 0 /\ probe'.rows = <<>>
            /\ Len(probe'.pages) = 1 /\ probe'.pages[1] = VirtualPage(1, size, cap)
            /\ size \in Nat \ {0} /\ limit \in Nat \ {0} /\ cap \in Nat \ {0}
            /\ IsBegun(VirtualPage(1, size, cap), 1, size, cap)
            /\ UNCHANGED <<listing, updated, moves>>
<1> DEFINE size == Smaller(FetchPageSize, limit)
           first == VirtualPage(1, size, cap)
           pc == IF kind = "walk" THEN "walk" ELSE "first"
<1>1. limit \in Nat \ {0} /\ cap \in Nat \ {0} /\ size \in Nat \ {0} /\ 1 \in Nat \ {0}
  BY ScenesOfCatalogue DEF Smaller
<1>2. IsBegun(first, 1, size, cap)
  BY <1>1, VirtualPageIsBegun
<1>3. /\ probe' = [kind |-> kind, pc |-> pc, limit |-> limit, cap |-> cap, fetched |-> 0,
                   rows |-> <<>>, steady |-> TRUE, pages |-> <<first>>]
      /\ UNCHANGED <<listing, updated, moves>>
  BY DEF Begin
<1> HIDE DEF size, first, pc
<1>4. first \in Page
  BY <1>2 DEF IsBegun
<1>5. pc \in {"first", "walk"} /\ <<>> \in Seq(Scenes) /\ <<first>> \in Seq(Page)
  BY <1>4 DEF pc
<1>6. probe' \in Probe
  BY <1>1, <1>3, <1>5 DEF Probe
<1>7. probe' # NoProbe
  BY <1>3, <1>5 DEF NoProbe
<1> QED BY <1>1, <1>2, <1>3, <1>6, <1>7 DEF size, first, pc

LEMMA BeginParallelKeepsProbes ==
  ASSUME ProbesInv, NEW limit \in ProbeLimits, NEW cap \in {FetchPageSize, RestPageSize},
         BeginParallel(limit, cap)
  PROVE  ProbesInv'
<1> DEFINE size == Smaller(FetchPageSize, limit)
<1>1. /\ probe' \in Probe /\ probe' # NoProbe
      /\ probe'.kind = "parallel" /\ probe'.pc = "first"
      /\ probe'.limit = limit /\ probe'.cap = cap
      /\ Len(probe'.pages) = 1 /\ probe'.pages[1] = VirtualPage(1, size, cap)
      /\ size \in Nat \ {0} /\ limit \in Nat \ {0} /\ cap \in Nat \ {0}
      /\ UNCHANGED <<listing, updated, moves, awaited>>
  BY BeginIs DEF BeginParallel
<1>2. listing \in Seq(Scenes)
  BY DEF ProbesInv, TypeOKProbes
<1>3. 1 \in Nat \ {0} /\ SizeOf(probe') = size
  BY <1>1 DEF SizeOf
<1> HIDE DEF size
<1>4. PageIs(listing, VirtualPage(1, size, cap), 1, size, cap)
  BY <1>1, <1>2, <1>3, VirtualPageIs
<1>5. SteadyHolds(listing', probe')
  BY <1>1, <1>3, <1>4 DEF SteadyHolds
<1>6. KindHolds(probe') /\ WalkHolds(listing', awaited', probe')
  BY <1>1 DEF KindHolds, WalkHolds
<1> QED BY <1>1, <1>5, <1>6 DEF ProbesInv, TypeOKProbes

LEMMA BeginSinceKeepsProbes ==
  ASSUME ProbesInv, NEW limit \in ProbeLimits, BeginSince(limit)
  PROVE  ProbesInv'
<1> DEFINE size == Smaller(FetchPageSize, limit)
           sheet == VirtualPage(1, size, FetchPageSize)
<1>1. /\ probe' \in Probe /\ probe' # NoProbe
      /\ probe'.kind = "walk" /\ probe'.pc = "walk"
      /\ probe'.limit = limit /\ probe'.cap = FetchPageSize /\ probe'.fetched = 0 /\ probe'.rows = <<>>
      /\ Len(probe'.pages) = 1 /\ probe'.pages[1] = sheet
      /\ size \in Nat \ {0} /\ limit \in Nat \ {0} /\ FetchPageSize \in Nat \ {0}
      /\ IsBegun(sheet, 1, size, FetchPageSize)
      /\ UNCHANGED <<listing, updated, moves>> /\ awaited' = updated
  BY BeginIs DEF BeginSince
<1>2. size <= FetchPageSize /\ Smaller(size, FetchPageSize) = size
  BY <1>1 DEF Smaller
<1> HIDE DEF size, sheet
<1>3. /\ sheet.size = size /\ sheet.restSize = size /\ sheet.rows = <<>> /\ sheet.newer = {}
      /\ ~sheet.read /\ sheet.rest = 1 /\ sheet.skip = 0
  BY <1>1, <1>2 DEF IsBegun
<1>4. BaseOf(sheet) = 0
  BY <1>1, <1>3 DEF BaseOf
<1>5. \A x \in updated : PosAfter(listing, x, 0)
  <2>1. \A i \in DOMAIN listing : i > 0
    BY DEF ProbesInv, TypeOKProbes
  <2> QED BY <2>1 DEF ProbesInv, UpdatedFirst, ScenesIn, PosAfter
<1>6. WalkGoesOn(listing', awaited', probe')
  <2>1. 1 >= 1 /\ 1..(1 - 1) = {} /\ 0 < limit
    BY <1>1
  <2> QED BY <1>1, <1>2, <1>3, <1>4, <1>5, <2>1 DEF WalkGoesOn
<1>7. KindHolds(probe') /\ SteadyHolds(listing', probe') /\ WalkHolds(listing', awaited', probe')
  BY <1>1, <1>6 DEF KindHolds, WalkHolds, SteadyHolds
<1> QED BY <1>1, <1>7 DEF ProbesInv, TypeOKProbes

-----------------------------------------------------------------------------
\* A page of a walk is read in one request.
IsReadWhole(L, U, sheet, new) ==
  LET base == BaseOf(sheet)
  IN /\ new.size = sheet.size /\ new.restSize = sheet.restSize /\ new.rest = sheet.rest + 1
     /\ new.read /\ new.total = Len(L) /\ base \in Nat /\ BaseOf(new) = base + sheet.size
     /\ Len(new.rows) = RowsDue(base, sheet.size, Len(L))
     /\ \A i \in 1..Len(new.rows) : new.rows[i] = L[base + i]
     /\ \A i \in 1..Len(new.rows) : new.rows[i] \in U => new.rows[i] \in new.newer

LEMMA ReadIsWhole ==
  ASSUME listing \in Seq(Scenes), updated \in SUBSET Scenes, NEW sheet \in Page,
         sheet.restSize = sheet.size, sheet.skip = 0, sheet.rows = <<>>
  PROVE  IsReadWhole(listing, updated, sheet, ReadRest(sheet))
<1> DEFINE L == listing
           total == Len(L)
           base == BaseOf(sheet)
           size == sheet.size
           new == ReadRest(sheet)
           took == TakenLen(sheet, total)
           got == DataLen(sheet, total)
<1>1. /\ size \in Nat \ {0} /\ base \in Nat /\ total \in Nat /\ sheet.rest \in Nat \ {0}
      /\ sheet.rest * sheet.restSize = base + size /\ Len(sheet.rows) = 0
  BY PageFields
<1>2. /\ new.size = size /\ new.restSize = size /\ new.rest = sheet.rest + 1
      /\ new.skip = 0 /\ new.total = total
      /\ Len(new.rows) = Len(sheet.rows) + took
      /\ \A i \in 1..took : new.rows[Len(sheet.rows) + i] = L[base + sheet.skip + i]
      /\ \A i \in 1..got : L[base + i] \in updated => L[base + i] \in new.newer
      /\ new.read = (Len(new.rows) >= size \/ got = 0 \/ base + size >= total)
  BY ReadRestIs
<1>3. got = IF base < Smaller(base + size, total) THEN Smaller(base + size, total) - base ELSE 0
  BY DEF DataLen
<1>4. took = LET most == Smaller(got, 0 + size - 0) IN IF 0 < most THEN most - 0 ELSE 0
  BY <1>1 DEF TakenLen
<1>5. BaseOf(new) = base + size
  BY <1>1, <1>2 DEF BaseOf
<1>6. sheet.skip = 0
  OBVIOUS
<1> HIDE DEF L, total, base, size, new, took, got
<1>7. got = RowsDue(base, size, total) /\ got \in Nat /\ got <= size
  BY <1>1, <1>3 DEF RowsDue, Smaller
<1>8. took = got
  BY <1>1, <1>4, <1>7 DEF Smaller
<1>9. Len(new.rows) = got
  BY <1>1, <1>2, <1>7, <1>8
<1>10. got < size => got = 0 \/ base + size >= total
  BY <1>1, <1>7 DEF RowsDue, Smaller
<1>11. new.read
  <2>1. Len(new.rows) >= size \/ got = 0 \/ base + size >= total
    BY <1>1, <1>7, <1>9, <1>10
  <2> QED BY <1>2, <2>1
<1>12. \A i \in 1..got : 0 + i = i /\ base + 0 + i = base + i
  BY <1>1, <1>7
<1>13. \A i \in 1..got : new.rows[i] = L[base + i]
  BY <1>1, <1>2, <1>6, <1>8, <1>12
<1>14. \A i \in 1..got : new.rows[i] \in updated => new.rows[i] \in new.newer
  BY <1>2, <1>13
<1> QED BY <1>1, <1>2, <1>5, <1>7, <1>9, <1>11, <1>13, <1>14 DEF L, total, base, size, new, IsReadWhole

LEMMA WalkReads ==
  ASSUME listing \in Seq(Scenes), updated \in SUBSET Scenes, NEW sheet \in Page,
         sheet.restSize = sheet.size, sheet.skip = 0, sheet.rows = <<>>,
         UpdatedFirst(listing, updated), NEW x \in updated, PosAfter(listing, x, BaseOf(sheet))
  PROVE  Ahead(listing, ReadRest(sheet), x)
<1> DEFINE L == listing
           total == Len(L)
           base == BaseOf(sheet)
           size == sheet.size
           new == ReadRest(sheet)
           have == Len(new.rows)
<1>1. /\ new.total = total /\ base \in Nat /\ BaseOf(new) = base + size
      /\ have = RowsDue(base, size, total)
      /\ \A i \in 1..have : new.rows[i] = L[base + i]
      /\ \A i \in 1..have : new.rows[i] \in updated => new.rows[i] \in new.newer
  BY ReadIsWhole DEF IsReadWhole
<1>2. new \in Page /\ size \in Nat \ {0} /\ total \in Nat
  <2>1. new \in Page
    BY ReadRestIs
  <2> QED BY <2>1, PageFields
<1>3. new.rows \in Seq(Scenes) /\ have \in Nat /\ DOMAIN new.rows = 1..have
  BY <1>2, PageFields
<1>4. PICK a \in DOMAIN L : a > base /\ L[a] = x
  BY DEF PosAfter
<1>5. /\ DOMAIN L = 1..total
      /\ \A i, j \in DOMAIN L : i < j /\ L[j] \in updated => L[i] \in updated
  BY DEF UpdatedFirst
<1> HIDE DEF L, total, base, size, new, have
<1>6. a \in 1..total /\ base < total
  BY <1>1, <1>2, <1>4, <1>5
<1>7. ASSUME NEW i \in 1..have, base + i <= a PROVE i \notin Old(new)
  <2>1. base + i \in 1..total
    BY <1>1, <1>2, <1>3, <1>6, <1>7
  <2>2. L[base + i] \in updated
    <3>1. CASE base + i = a
      BY <1>4, <3>1
    <3>2. CASE base + i # a
      <4>1. base + i < a /\ base + i \in DOMAIN L
        <5> DEFINE b == base + i
        <5>1. b \in 1..total /\ a \in 1..total /\ b <= a /\ b # a
          BY <1>6, <1>7, <2>1, <3>2
        <5> HIDE DEF b
        <5>2. b < a
          BY <1>2, <5>1
        <5> QED BY <1>5, <5>1, <5>2 DEF b
      <4> QED BY <1>4, <1>5, <4>1
    <3> QED BY <3>1, <3>2
  <2>3. new.rows[i] \in new.newer
    BY <1>1, <2>2
  <2> QED BY <2>3 DEF Old, StopsWalk
<1>8. CASE a <= base + size
  <2> DEFINE k == a - base
  <2>1. k \in 1..have /\ base + k = a
    BY <1>1, <1>2, <1>4, <1>6, <1>8 DEF RowsDue, Smaller
  <2>2. new.rows[k] = x
    BY <1>1, <1>4, <2>1
  <2>3. \A i \in 1..k : i \in 1..have /\ base + i <= a
    BY <1>1, <1>3, <2>1
  <2>4. \A i \in Old(new) : i \in 1..have /\ i > k
    <3>1. \A i \in Old(new) : i \in 1..have /\ i \notin 1..k
      BY <1>3, <1>7, <2>3 DEF Old
    <3> QED BY <1>3, <2>1, <3>1
  <2> HIDE DEF k
  <2>5. k \in 1..Fresh(new)
    <3>1. CASE Old(new) = {}
      BY <2>1, <3>1 DEF Fresh, have
    <3>2. CASE Old(new) # {}
      <4> DEFINE f == CHOOSE i \in Old(new) : \A j \in Old(new) : i <= j
      <4>1. Old(new) \in SUBSET Nat
        BY <1>3, <2>4
      <4>2. f \in Old(new)
        BY <3>2, <4>1, LeastOf
      <4>3. f \in Nat /\ f > k
        BY <2>4, <4>1, <4>2
      <4>4. Fresh(new) = f - 1
        BY <3>2 DEF Fresh
      <4> HIDE DEF f
      <4> QED BY <2>1, <4>3, <4>4
    <3> QED BY <3>1, <3>2
  <2> QED BY <2>2, <2>5 DEF Ahead, L, new
<1>9. CASE ~(a <= base + size)
  <2>1. have = size /\ a > base + size /\ base + size < total
    BY <1>1, <1>2, <1>4, <1>6, <1>9 DEF RowsDue, Smaller
  <2>2. \A i \in 1..have : base + i <= a
    BY <1>1, <1>2, <2>1, <1>6
  <2>3. Old(new) = {}
    BY <1>3, <1>7, <2>2 DEF Old
  <2>4. new.rows # <<>>
    BY <1>2, <2>1 DEF have
  <2>5. PosAfter(L, x, BaseOf(new))
    BY <1>1, <1>4, <2>1 DEF PosAfter
  <2>6. BaseOf(new) < new.total
    BY <1>1, <2>1
  <2>7. Ahead(L, new, x)
    BY <2>3, <2>4, <2>5, <2>6 DEF Ahead
  <2> QED BY <2>7 DEF L, new
<1> QED BY <1>8, <1>9

LEMMA ProbeFields ==
  ASSUME TypeOKProbes, probe # NoProbe
  PROVE  /\ probe \in Probe /\ probe.limit \in Nat \ {0} /\ probe.cap \in Nat \ {0}
         /\ SizeOf(probe) \in Nat \ {0} /\ Len(probe.pages) \in Nat
         /\ \A n \in 1..Len(probe.pages) : probe.pages[n] \in Page
         /\ DOMAIN probe.pages = 1..Len(probe.pages)
<1>1. /\ probe \in Probe /\ probe.limit \in Nat \ {0} /\ probe.cap \in Nat \ {0}
      /\ probe.pages \in Seq(Page)
  BY DEF TypeOKProbes, Probe
<1>2. SizeOf(probe) \in Nat \ {0}
  BY <1>1, ScenesOfCatalogue DEF SizeOf, Smaller
<1> QED BY <1>1, <1>2

LEMMA NoProbeIsIdle ==
  /\ NoProbe.pc = "idle"
  /\ \A p \in Probe : p.pc # "idle" /\ p # NoProbe
<1>1. NoProbe.pc = "idle"
  BY DEF NoProbe
<1>2. \A p \in Probe : p.pc \in {"first", "rest", "walk", "end"}
  BY DEF Probe
<1> QED BY <1>1, <1>2

\* When the listing moves, a probe only learns that it did.
LEMMA MovesKeepProbe ==
  ASSUME ProbesInv, ListingMoves, awaited' \subseteq awaited, listing' \in Seq(Scenes),
         \A x \in awaited', k \in Nat : PosAfter(listing, x, k) => PosAfter(listing', x, k)
  PROVE  /\ moves' \in Nat /\ probe' \in {NoProbe} \cup Probe
         /\ probe' # NoProbe => /\ KindHolds(probe') /\ SteadyHolds(listing', probe')
                                /\ WalkHolds(listing', awaited', probe')
<1>1. moves' \in Nat
  BY DEF ProbesInv, TypeOKProbes, ListingMoves
<1>2. CASE probe = NoProbe
  BY <1>1, <1>2 DEF ListingMoves
<1>3. CASE probe # NoProbe
  <2>1. probe \in Probe /\ probe' = [probe EXCEPT !.steady = FALSE]
    BY <1>3, ProbeFields DEF ListingMoves, ProbesInv
  <2>2. /\ probe' \in Probe /\ probe'.steady = FALSE
        /\ probe'.kind = probe.kind /\ probe'.pc = probe.pc /\ probe'.limit = probe.limit
        /\ probe'.cap = probe.cap /\ probe'.fetched = probe.fetched /\ probe'.rows = probe.rows
        /\ probe'.pages = probe.pages
    BY <2>1 DEF Probe
  <2>3. KindHolds(probe) /\ WalkHolds(listing, awaited, probe)
    BY <1>3 DEF ProbesInv
  <2>4. KindHolds(probe') /\ SteadyHolds(listing', probe')
    BY <2>2, <2>3 DEF KindHolds, SteadyHolds
  <2>5. ASSUME probe.kind = "walk", probe.pc = "walk", WalkGoesOn(listing, awaited, probe)
        PROVE  WalkGoesOn(listing', awaited', probe')
    <3> DEFINE n == Len(probe.pages)
               sheet == probe.pages[n]
    <3>1. /\ n >= 1 /\ \A m \in 1..(n - 1) : probe.pages[m].read
          /\ probe.fetched < probe.limit /\ sheet.size <= probe.cap /\ sheet.restSize = sheet.size
          /\ ~sheet.read => /\ sheet.rest = n /\ sheet.skip = 0 /\ sheet.rows = <<>> /\ sheet.newer = {}
                           /\ \A x \in awaited : x \in ScenesIn(probe.rows) \/ PosAfter(listing, x, BaseOf(sheet))
          /\ sheet.read => /\ sheet.rest = n + 1
                          /\ \A x \in awaited : x \in ScenesIn(probe.rows) \/ Ahead(listing, sheet, x)
      BY <2>5 DEF WalkGoesOn
    <3>2. sheet \in Page /\ n \in Nat
      <4>1. n \in Nat /\ n \in 1..n
        BY <1>3, <3>1, ProbeFields DEF ProbesInv
      <4> QED BY <1>3, <4>1, ProbeFields DEF ProbesInv
    <3> HIDE DEF n, sheet
    <3>3. BaseOf(sheet) \in Nat
      BY <3>2, PageFields
    <3>4. ~sheet.read => \A x \in awaited' : x \in ScenesIn(probe.rows) \/ PosAfter(listing', x, BaseOf(sheet))
      BY <3>1, <3>3
    <3>5. \A x \in awaited' : Ahead(listing, sheet, x) => Ahead(listing', sheet, x)
      BY <3>3 DEF Ahead
    <3>6. sheet.read => \A x \in awaited' : x \in ScenesIn(probe.rows) \/ Ahead(listing', sheet, x)
      BY <3>1, <3>5
    <3>7. n = Len(probe'.pages) /\ sheet = probe'.pages[n]
      BY <2>2 DEF n, sheet
    <3> QED BY <2>2, <3>1, <3>4, <3>6, <3>7 DEF WalkGoesOn
  <2>6. WalkHolds(listing', awaited', probe')
    BY <2>2, <2>3, <2>5 DEF WalkHolds
  <2> QED BY <1>1, <2>2, <2>4, <2>6
<1> QED BY <1>2, <1>3

LEMMA SceneUpdatedKeepsProbes ==
  ASSUME ProbesInv, NEW x \in Scenes, SceneUpdated(x)
  PROVE  ProbesInv'
<1> DEFINE W == Without(x)
           M == <<x>> \o W
<1>1. /\ ListingMoves /\ listing' = M /\ updated' = updated \cup {x} /\ awaited' = awaited \ {x}
  BY DEF SceneUpdated
<1>2. /\ listing \in Seq(Scenes) /\ IsInjective(listing) /\ UpdatedFirst(listing, updated)
      /\ awaited \subseteq updated /\ updated \in SUBSET Scenes
  BY DEF ProbesInv, TypeOKProbes
<1>3. Follows(listing, W, x)
  BY <1>2, WithoutFollows
<1> HIDE DEF W
<1>4. /\ M \in Seq(Scenes) /\ IsInjective(M) /\ UpdatedFirst(M, updated \cup {x})
      /\ \A y, k : k \in Nat /\ y # x /\ PosAfter(listing, y, k) => PosAfter(M, y, k)
  BY <1>2, <1>3, PutFirst
<1> HIDE DEF M
<1>5. awaited' \subseteq awaited /\ listing' \in Seq(Scenes)
  BY <1>1, <1>4
<1>6. \A y \in awaited', k \in Nat : PosAfter(listing, y, k) => PosAfter(listing', y, k)
  BY <1>1, <1>4
<1>7. /\ moves' \in Nat /\ probe' \in {NoProbe} \cup Probe
      /\ probe' # NoProbe => /\ KindHolds(probe') /\ SteadyHolds(listing', probe')
                             /\ WalkHolds(listing', awaited', probe')
  BY <1>1, <1>5, <1>6, MovesKeepProbe
<1>8. /\ updated' \in SUBSET Scenes /\ awaited' \subseteq updated' /\ awaited' \in SUBSET Scenes
  BY <1>1, <1>2
<1>9. IsInjective(listing') /\ UpdatedFirst(listing', updated')
  BY <1>1, <1>4
<1> QED BY <1>5, <1>7, <1>8, <1>9 DEF ProbesInv, TypeOKProbes

LEMMA SceneRemovedKeepsProbes ==
  ASSUME ProbesInv, NEW x \in Scenes, SceneRemoved(x)
  PROVE  ProbesInv'
<1> DEFINE W == Without(x)
<1>1. /\ ListingMoves /\ listing' = W /\ updated' = updated \ {x} /\ awaited' = {}
  BY DEF SceneRemoved
<1>2. /\ listing \in Seq(Scenes) /\ IsInjective(listing) /\ UpdatedFirst(listing, updated)
      /\ updated \in SUBSET Scenes
  BY DEF ProbesInv, TypeOKProbes
<1>3. Follows(listing, W, x)
  BY <1>2, WithoutFollows
<1> HIDE DEF W
<1>4. W \in Seq(Scenes) /\ IsInjective(W) /\ UpdatedFirst(W, updated \ {x})
  <2>1. W \in Seq(Scenes)
    BY <1>3 DEF Follows
  <2> QED BY <1>2, <1>3, <2>1, FollowsKeeps
<1>5. awaited' \subseteq awaited /\ listing' \in Seq(Scenes)
  BY <1>1, <1>4
<1>6. \A y \in awaited', k \in Nat : PosAfter(listing, y, k) => PosAfter(listing', y, k)
  BY <1>1
<1>7. /\ moves' \in Nat /\ probe' \in {NoProbe} \cup Probe
      /\ probe' # NoProbe => /\ KindHolds(probe') /\ SteadyHolds(listing', probe')
                             /\ WalkHolds(listing', awaited', probe')
  BY <1>1, <1>5, <1>6, MovesKeepProbe
<1>8. IsInjective(listing') /\ UpdatedFirst(listing', updated') /\ updated' \in SUBSET Scenes
  BY <1>1, <1>2, <1>4
<1> QED BY <1>1, <1>5, <1>7, <1>8 DEF ProbesInv, TypeOKProbes

-----------------------------------------------------------------------------
LEMMA ReadPageKeepsProbes ==
  ASSUME ProbesInv, NEW n \in Nat, ReadPage(n)
  PROVE  ProbesInv'
<1> DEFINE sheet == probe.pages[n]
           new == ReadRest(sheet)
           last == Len(probe.pages)
<1>1. /\ probe.pc \in {"first", "rest", "walk"} /\ n \in DOMAIN probe.pages /\ ~sheet.read
      /\ probe' = [probe EXCEPT !.pages[n] = new]
      /\ UNCHANGED <<listing, updated, moves, awaited>>
  BY DEF ReadPage
<1>2. /\ listing \in Seq(Scenes) /\ updated \in SUBSET Scenes /\ awaited \subseteq updated
      /\ UpdatedFirst(listing, updated)
  BY DEF ProbesInv, TypeOKProbes
<1>3. probe # NoProbe
  BY <1>1, NoProbeIsIdle
<1>4. /\ probe \in Probe /\ probe.limit \in Nat \ {0} /\ probe.cap \in Nat \ {0}
      /\ SizeOf(probe) \in Nat \ {0} /\ last \in Nat
      /\ \A m \in 1..last : probe.pages[m] \in Page
      /\ DOMAIN probe.pages = 1..last
  BY <1>3, ProbeFields DEF ProbesInv
<1>5. n \in 1..last /\ sheet \in Page
  BY <1>1, <1>4
<1>6. new \in Page
  BY <1>2, <1>5, ReadRestIs
<1>7. KindHolds(probe) /\ SteadyHolds(listing, probe) /\ WalkHolds(listing, awaited, probe)
  BY <1>3 DEF ProbesInv
<1> HIDE DEF new
<1>8. /\ probe' \in Probe
      /\ probe'.kind = probe.kind /\ probe'.pc = probe.pc /\ probe'.limit = probe.limit
      /\ probe'.cap = probe.cap /\ probe'.fetched = probe.fetched /\ probe'.rows = probe.rows
      /\ probe'.steady = probe.steady /\ probe'.pages = [probe.pages EXCEPT ![n] = new]
  <2>1. probe.pages \in Seq(Page)
    BY <1>4 DEF Probe
  <2>2. [probe.pages EXCEPT ![n] = new] \in Seq(Page)
    BY <1>1, <1>6, <2>1
  <2>3. probe' = [probe EXCEPT !.pages = [probe.pages EXCEPT ![n] = new]]
    BY <1>1
  <2> QED BY <1>4, <2>2, <2>3 DEF Probe
<1>9. /\ Len(probe'.pages) = last /\ probe'.pages[n] = new
      /\ \A m \in 1..last : m # n => probe'.pages[m] = probe.pages[m]
  <2>1. probe.pages \in Seq(Page)
    BY <1>4 DEF Probe
  <2> QED BY <1>4, <1>5, <1>8, <2>1
<1>10. probe' # NoProbe
  BY <1>8, NoProbeIsIdle
<1> HIDE DEF sheet, last
<1>11. KindHolds(probe')
  BY <1>7, <1>8, <1>9 DEF KindHolds, last
<1>12. SteadyHolds(listing, probe')
  <2>1. SizeOf(probe') = SizeOf(probe)
    BY <1>8 DEF SizeOf
  <2>2. ASSUME probe.kind = "parallel", probe.steady, NEW m \in 1..last
        PROVE  PageIs(listing, probe'.pages[m], m, SizeOf(probe), probe.cap)
    <3>1. PageIs(listing, probe.pages[m], m, SizeOf(probe), probe.cap)
      BY <1>1, <1>7, <2>2 DEF SteadyHolds, KindHolds, last
    <3>2. CASE m # n
      BY <1>9, <3>1, <3>2
    <3>3. CASE m = n
      <4>1. PageIs(listing, sheet, n, SizeOf(probe), probe.cap) /\ n \in Nat \ {0}
        BY <1>4, <1>5, <3>1, <3>3 DEF sheet
      <4>2. PageIs(listing, ReadRest(sheet), n, SizeOf(probe), probe.cap)
        BY <1>1, <1>2, <1>4, <1>5, <4>1, ReadKeepsPage
      <4> QED BY <1>9, <3>3, <4>2 DEF new
    <3> QED BY <3>2, <3>3
  <2>3. probe.pc # "end"
    BY <1>1
  <2> QED BY <1>7, <1>8, <1>9, <2>1, <2>2, <2>3 DEF SteadyHolds, last
<1>13. WalkHolds(listing, awaited, probe')
  <2>1. CASE probe.kind # "walk"
    BY <1>8, <2>1 DEF WalkHolds
  <2>2. CASE probe.kind = "walk"
    <3>1. probe.pc = "walk" /\ WalkGoesOn(listing, awaited, probe)
      BY <1>1, <1>7, <2>2 DEF KindHolds, WalkHolds
    <3>2. n = last
      <4>1. \A m \in 1..(last - 1) : probe.pages[m].read
        BY <3>1 DEF WalkGoesOn, last
      <4>2. n # last => n \in 1..(last - 1)
        BY <1>4, <1>5
      <4> QED BY <1>1, <4>1, <4>2 DEF sheet
    <3>3. /\ last >= 1 /\ \A m \in 1..(last - 1) : probe.pages[m].read
          /\ probe.fetched < probe.limit /\ sheet.size <= probe.cap /\ sheet.restSize = sheet.size
          /\ sheet.rest = last /\ sheet.skip = 0 /\ sheet.rows = <<>> /\ sheet.newer = {}
          /\ \A x \in awaited : x \in ScenesIn(probe.rows) \/ PosAfter(listing, x, BaseOf(sheet))
      BY <1>1, <3>1, <3>2 DEF WalkGoesOn, last, sheet
    <3>4. ASSUME NEW x \in awaited, PosAfter(listing, x, BaseOf(sheet)) PROVE Ahead(listing, new, x)
      <4> HIDE <1>7
      <4> QED BY <1>1, <1>2, <1>5, <3>3, <3>4, WalkReads DEF new
    <3>5. new.size = sheet.size /\ new.restSize = sheet.restSize /\ new.rest = last + 1 /\ new.read
      BY <1>1, <1>2, <1>5, <3>3, ReadIsWhole DEF new, IsReadWhole
    <3>6. \A m \in 1..(last - 1) : m \in 1..last /\ m # last
      BY <1>4
    <3>7. \A m \in 1..(last - 1) : probe'.pages[m].read
      BY <1>9, <3>2, <3>3, <3>6
    <3>8. WalkGoesOn(listing, awaited, probe')
      BY <1>8, <1>9, <3>2, <3>3, <3>4, <3>5, <3>7 DEF WalkGoesOn
    <3> QED BY <1>1, <1>8, <3>1, <3>8 DEF WalkHolds
  <2> QED BY <2>1, <2>2
<1> QED BY <1>1, <1>2, <1>8, <1>10, <1>11, <1>12, <1>13 DEF ProbesInv, TypeOKProbes

LEMMA NeededIsEnough ==
  ASSUME NEW limit \in Nat \ {0}, NEW total \in Nat
  PROVE  LET size == Smaller(FetchPageSize, limit)
         IN /\ Needed(limit, total) \in Nat
            /\ Offset(Needed(limit, total) + 1, size) >= Smaller(total, limit)
            /\ total > 0 => Needed(limit, total) >= 1
<1> DEFINE size == Smaller(FetchPageSize, limit)
           due == Smaller(total, limit)
           n == (due + size - 1) \div size
<1>1. size \in Nat \ {0} /\ due \in Nat
  BY ScenesOfCatalogue DEF Smaller
<1>2. Needed(limit, total) = n
  BY DEF Needed
<1>3. total > 0 => due > 0
  BY DEF Smaller
<1> HIDE DEF size, due, n
<1>4. due + size - 1 \in Nat
  BY <1>1
<1>5. /\ n \in Nat /\ (due + size - 1) % size \in 0..(size - 1)
      /\ due + size - 1 = size * n + ((due + size - 1) % size)
  BY <1>1, <1>4, QuotientAndRest DEF n
<1>6. size * n >= due
  <2> DEFINE p == size * n
  <2>1. p \in Nat
    BY <1>1, <1>5, MultiplesDivide
  <2>2. due + size - 1 = p + ((due + size - 1) % size)
    BY <1>5
  <2> HIDE DEF p
  <2>3. p >= due
    BY <1>1, <1>5, <2>1, <2>2
  <2> QED BY <2>3 DEF p
<1>7. Offset(n + 1, size) = size * n
  <2>1. (n + 1) - 1 = n /\ n * size = size * n
    BY <1>1, <1>5
  <2> QED BY <2>1 DEF Offset
<1>8. due > 0 => n >= 1
  <2>1. n = 0 => size * n = 0
    BY <1>1
  <2> QED BY <1>1, <1>5, <1>6, <2>1
<1> QED BY <1>2, <1>3, <1>5, <1>6, <1>7, <1>8 DEF size, due

LEMMA FirstPageReadKeepsProbes ==
  ASSUME ProbesInv, FirstPageRead
  PROVE  ProbesInv'
<1> DEFINE sheet == probe.pages[1]
           size == SizeOf(probe)
           need == Needed(probe.limit, sheet.total)
           pages == [n \in 1..need |-> IF n = 1 THEN sheet ELSE VirtualPage(n, size, probe.cap)]
           whole == sheet.rows = <<>> \/ Len(sheet.rows) >= sheet.total
           total == Len(listing)
<1>1. /\ probe.pc = "first" /\ sheet.read
      /\ probe' = IF whole THEN [probe EXCEPT !.pc = "end", !.rows = sheet.rows]
                  ELSE [probe EXCEPT !.pc = "rest", !.pages = pages]
      /\ UNCHANGED <<listing, updated, moves, awaited>>
  BY DEF FirstPageRead, PagesNeeded, PageSizeOf, Needed, SizeOf
<1>2. listing \in Seq(Scenes) /\ total \in Nat
  BY DEF ProbesInv, TypeOKProbes
<1>3. probe # NoProbe
  BY <1>1, NoProbeIsIdle
<1>4. /\ probe \in Probe /\ probe.limit \in Nat \ {0} /\ probe.cap \in Nat \ {0}
      /\ size \in Nat \ {0} /\ \A n \in 1..Len(probe.pages) : probe.pages[n] \in Page
  BY <1>3, ProbeFields DEF ProbesInv
<1>5. KindHolds(probe) /\ SteadyHolds(listing, probe)
  BY <1>3 DEF ProbesInv
<1>6. Len(probe.pages) = 1 /\ probe.kind # "walk" /\ probe.kind \in {"parallel", "walk"}
  BY <1>1, <1>4, <1>5 DEF KindHolds, Probe
<1>7. sheet \in Page
  BY <1>4, <1>6
<1>8. sheet.rows \in Seq(Scenes) /\ Len(sheet.rows) \in Nat /\ sheet.total \in Nat
  BY <1>7, PageFields
<1>9. probe.steady => PageIs(listing, sheet, 1, size, probe.cap)
  BY <1>1, <1>5, <1>6, <1>4 DEF SteadyHolds
<1>10. need \in Nat /\ (sheet.total > 0 => need >= 1)
  BY <1>4, <1>8, NeededIsEnough
<1> HIDE DEF sheet, size, need, pages, whole, total
<1>11. ASSUME NEW n \in 1..need, n # 1 PROVE IsBegun(VirtualPage(n, size, probe.cap), n, size, probe.cap)
  <2>1. n \in Nat \ {0}
    BY <1>10
  <2> QED BY <1>4, <2>1, VirtualPageIsBegun
<1>12. pages \in Seq(Page) /\ Len(pages) = need /\ DOMAIN pages = 1..need
  <2>1. \A n \in 1..need : (IF n = 1 THEN sheet ELSE VirtualPage(n, size, probe.cap)) \in Page
    BY <1>7, <1>11 DEF IsBegun
  <2> QED BY <1>10, <2>1 DEF pages
<1>13. CASE whole
  <2>1. /\ probe' \in Probe /\ probe'.kind = probe.kind /\ probe'.pc = "end" /\ probe'.steady = probe.steady
        /\ probe'.rows = sheet.rows /\ probe'.limit = probe.limit
    BY <1>1, <1>4, <1>8, <1>13 DEF Probe
  <2>2. KindHolds(probe') /\ WalkHolds(listing, awaited, probe') /\ probe' # NoProbe
    BY <1>6, <2>1, NoProbeIsIdle DEF KindHolds, WalkHolds
  <2>3. ASSUME probe.steady PROVE sheet.rows = SubSeq(listing, 1, Smaller(probe.limit, total))
    <3>1. /\ Len(sheet.rows) = RowsDue(Offset(1, size), size, total) /\ sheet.total = total
          /\ \A i \in 1..Len(sheet.rows) : sheet.rows[i] = listing[Offset(1, size) + i]
      BY <1>1, <1>9, <2>3 DEF PageIs, total
    <3>2. Offset(1, size) = 0
      BY <1>4 DEF Offset
    <3>3. Len(sheet.rows) = Smaller(size, total) /\ \A i \in 1..Len(sheet.rows) : 0 + i = i
      BY <1>2, <1>4, <3>1, <3>2 DEF RowsDue, Smaller
    <3>4. Len(sheet.rows) = total /\ total <= size
      BY <1>2, <1>4, <1>13, <3>1, <3>3 DEF Smaller, whole
    <3>5. size <= probe.limit
      BY <1>4, ScenesOfCatalogue DEF size, SizeOf, Smaller
    <3>6. Smaller(probe.limit, total) = total
      BY <1>2, <1>4, <3>4, <3>5 DEF Smaller
    <3>7. SubSeq(listing, 1, total) = listing
      BY <1>2, SubSeqFull DEF total
    <3>8. sheet.rows = listing
      BY <1>2, <1>8, <3>1, <3>2, <3>3, <3>4, SameRows DEF total
    <3> QED BY <3>6, <3>7, <3>8
  <2>4. SteadyHolds(listing, probe')
    BY <2>1, <2>3 DEF SteadyHolds, total
  <2> QED BY <1>1, <2>1, <2>2, <2>4 DEF ProbesInv, TypeOKProbes
<1>14. CASE ~whole
  <2>1. /\ probe' \in Probe /\ probe'.kind = probe.kind /\ probe'.pc = "rest" /\ probe'.steady = probe.steady
        /\ probe'.pages = pages /\ probe'.limit = probe.limit /\ probe'.cap = probe.cap
    BY <1>1, <1>4, <1>12, <1>14 DEF Probe
  <2>2. KindHolds(probe') /\ WalkHolds(listing, awaited, probe') /\ probe' # NoProbe
    BY <1>6, <2>1, NoProbeIsIdle DEF KindHolds, WalkHolds
  <2>3. ASSUME probe.steady, NEW n \in 1..need PROVE PageIs(listing, pages[n], n, size, probe.cap)
    <3>1. CASE n = 1
      BY <1>9, <2>3, <3>1 DEF pages
    <3>2. CASE n # 1
      <4>1. n \in Nat \ {0}
        BY <1>10
      <4>2. PageIs(listing, VirtualPage(n, size, probe.cap), n, size, probe.cap)
        BY <1>2, <1>4, <4>1, VirtualPageIs
      <4> QED BY <3>2, <4>2 DEF pages
    <3> QED BY <3>1, <3>2
  <2>4. probe.steady => need = Needed(probe.limit, Len(listing))
    BY <1>1, <1>9 DEF PageIs, need
  <2>5. SizeOf(probe') = size
    BY <2>1 DEF size, SizeOf
  <2>6. SteadyHolds(listing, probe')
    BY <1>12, <2>1, <2>3, <2>4, <2>5 DEF SteadyHolds
  <2> QED BY <1>1, <2>1, <2>2, <2>6 DEF ProbesInv, TypeOKProbes
<1> QED BY <1>13, <1>14

LEMMA MergedStep ==
  ASSUME probe \in Probe, NEW f, NEW n \in 0..Len(probe.pages), n # 0 => f[n - 1] \in Seq(Scenes)
  PROVE  NextMerged(f)[n] \in Seq(Scenes)
<1>1. CASE n = 0
  <2>1. NextMerged(f)[n] = <<>>
    BY <1>1 DEF NextMerged
  <2> QED BY <2>1
<1>2. CASE n # 0
  <2> DEFINE before == f[n - 1]
             rows == probe.pages[n].rows
             most == Smaller(Len(rows), probe.limit - Len(before))
  <2>1. NextMerged(f)[n] = before \o SubSeq(rows, 1, most)
    BY <1>2 DEF NextMerged, Joined
  <2>2. probe.limit \in Nat /\ probe.pages[n] \in Page
    <3>1. probe.pages \in Seq(Page) /\ n \in 1..Len(probe.pages)
      BY <1>2 DEF Probe
    <3> QED BY <3>1 DEF Probe
  <2>3. rows \in Seq(Scenes) /\ before \in Seq(Scenes) /\ 1 \in Nat \ {0}
    BY <1>2, <2>2, PageFields
  <2>4. most \in Int /\ most <= Len(rows)
    BY <2>2, <2>3, SMTT(40) DEF Smaller
  <2> HIDE DEF before, rows, most
  <2>5. SubSeq(rows, 1, most) \in Seq(Scenes)
    BY <2>3, <2>4, SliceProperties
  <2> QED BY <2>1, <2>3, <2>5, ConcatProperties, SMTT(40)
<1> QED BY <1>1, <1>2

LEMMA MergedIsTyped ==
  ASSUME probe \in Probe PROVE Merged \in Seq(Scenes)
<1> DEFINE K == Len(probe.pages)
           G == [0..K -> Seq(Scenes)]
           Upto(f, n) == \A m \in 0..K : m <= n => f[m] = NextMerged(f)[m]
           Reached(n) == \E f \in G : Upto(f, n)
           missed == {n \in Nat : ~Reached(n)}
<1>1. K \in Nat
  BY DEF Probe
<1>2. Reached(0)
  <2> DEFINE f == [m \in 0..K |-> <<>>]
  <2>1. f \in G
    OBVIOUS
  <2>2. \A m \in 0..K : m <= 0 => m = 0
    BY <1>1
  <2>3. NextMerged(f)[0] = <<>> /\ f[0] = <<>>
    BY <1>1 DEF NextMerged
  <2> QED BY <2>1, <2>2, <2>3
<1>3. ASSUME NEW n \in Nat, Reached(n) PROVE Reached(n + 1)
  <2>1. PICK f \in G : Upto(f, n)
    BY <1>3
  <2> DEFINE g == [f EXCEPT ![n + 1] = NextMerged(f)[n + 1]]
  <2>2. CASE n + 1 \notin 0..K
    <3>1. \A m \in 0..K : m <= n + 1 => m <= n
      BY <1>1, <2>2
    <3> QED BY <2>1, <3>1
  <2>3. CASE n + 1 \in 0..K
    <3>1. NextMerged(f)[n + 1] \in Seq(Scenes)
      <4>1. f[(n + 1) - 1] \in Seq(Scenes)
        BY <2>1, <2>3
      <4> QED BY <2>3, <4>1, MergedStep
    <3>2. g \in G /\ g[n + 1] = NextMerged(f)[n + 1] /\ \A m \in 0..K : m # n + 1 => g[m] = f[m]
      BY <2>1, <2>3, <3>1
    <3> HIDE DEF g
    <3>3. ASSUME NEW m \in 0..K, m <= n + 1 PROVE g[m] = NextMerged(g)[m]
      <4>1. m # 0 => m - 1 \in 0..K /\ m - 1 # n + 1
        BY <1>1, <3>3
      <4>2. m # 0 => g[m - 1] = f[m - 1]
        BY <3>2, <4>1
      <4>3. NextMerged(g)[m] = NextMerged(f)[m]
        BY <4>2 DEF NextMerged
      <4>4. m # n + 1 => m <= n
        BY <3>3
      <4> QED BY <2>1, <3>2, <4>3, <4>4
    <3> QED BY <3>2, <3>3
  <2> QED BY <2>2, <2>3
<1>4. missed = {}
  <2>1. SUFFICES ASSUME missed # {} PROVE FALSE
    OBVIOUS
  <2>2. PICK n \in missed : \A m \in missed : n <= m
    BY <2>1, LeastOf
  <2>3. n \in Nat /\ ~Reached(n) /\ n # 0
    BY <1>2
  <2>4. n - 1 \in Nat /\ ~(n <= n - 1) /\ (n - 1) + 1 = n
    BY <2>3
  <2>5. n - 1 \in Nat /\ n - 1 \notin missed /\ (n - 1) + 1 = n
    BY <2>2, <2>4, Zenon
  <2>6. Reached(n - 1)
    BY <2>5
  <2> HIDE DEF Reached
  <2>7. Reached((n - 1) + 1)
    BY <1>3, <2>5, <2>6
  <2> QED BY <2>3, <2>5, <2>7
<1>5. PICK h \in G : Upto(h, K)
  BY <1>1, <1>4
<1>6. \A m \in 0..K : h[m] = NextMerged(h)[m]
  BY <1>1, <1>5
<1>7. NextMerged(h) = [m \in 0..K |-> NextMerged(h)[m]] /\ h = [m \in 0..K |-> h[m]]
  BY <1>5 DEF NextMerged
<1>8. h = NextMerged(h)
  BY <1>6, <1>7
<1> DEFINE f == CHOOSE g : g = NextMerged(g)
           wrong == {n \in 0..K : f[n] \notin Seq(Scenes)}
<1>9. f = NextMerged(f)
  BY <1>8
<1>10. Merged = f[K]
  BY DEF Merged, NextMerged, Joined
<1> HIDE DEF f
<1>11. wrong = {}
  <2>1. SUFFICES ASSUME wrong # {} PROVE FALSE
    OBVIOUS
  <2>2. wrong \subseteq Nat
    BY <1>1
  <2>3. PICK n \in wrong : \A m \in wrong : n <= m
    BY <2>1, <2>2, LeastOf
  <2>4. n \in 0..K /\ (n # 0 => n - 1 \in 0..K /\ n - 1 \notin wrong)
    BY <1>1, <2>3
  <2>5. n # 0 => f[n - 1] \in Seq(Scenes)
    BY <2>4
  <2>6. NextMerged(f)[n] \in Seq(Scenes)
    BY <2>4, <2>5, MergedStep
  <2> QED BY <1>9, <2>3, <2>6
<1> QED BY <1>1, <1>10, <1>11

LEMMA MergePagesKeepsProbes ==
  ASSUME ProbesInv, MergePages
  PROVE  ProbesInv'
<1> DEFINE size == SizeOf(probe)
           K == Len(probe.pages)
           total == Len(listing)
<1>1. /\ probe.pc = "rest" /\ \A n \in DOMAIN probe.pages : probe.pages[n].read
      /\ probe' = [probe EXCEPT !.pc = "end", !.rows = Merged]
      /\ UNCHANGED <<listing, updated, moves, awaited>>
  BY DEF MergePages
<1>2. listing \in Seq(Scenes) /\ total \in Nat
  BY DEF ProbesInv, TypeOKProbes
<1>3. probe # NoProbe
  BY <1>1, NoProbeIsIdle
<1>4. /\ probe \in Probe /\ probe.limit \in Nat \ {0} /\ probe.cap \in Nat \ {0}
      /\ size \in Nat \ {0} /\ K \in Nat /\ DOMAIN probe.pages = 1..K
  BY <1>3, ProbeFields DEF ProbesInv
<1>5. KindHolds(probe) /\ SteadyHolds(listing, probe)
  BY <1>3 DEF ProbesInv
<1>6. Merged \in Seq(Scenes)
  BY <1>4, MergedIsTyped
<1>7. /\ probe' \in Probe /\ probe'.kind = probe.kind /\ probe'.pc = "end" /\ probe'.steady = probe.steady
      /\ probe'.rows = Merged /\ probe'.limit = probe.limit
  BY <1>1, <1>4, <1>6 DEF Probe
<1>8. probe.kind = "parallel"
  BY <1>1, <1>4, <1>5 DEF KindHolds, Probe
<1>9. ASSUME probe.steady PROVE Merged = SubSeq(listing, 1, Smaller(probe.limit, total))
  <2>1. K = Needed(probe.limit, total) /\ \A n \in 1..K : PageIs(listing, probe.pages[n], n, size, probe.cap)
    BY <1>1, <1>5, <1>8, <1>9 DEF SteadyHolds
  <2>2. Merged = Prefix(listing, probe.limit, Offset(K + 1, size))
    BY <1>1, <1>2, <1>4, <2>1, MergedIsAPrefix
  <2>3. Offset(K + 1, size) >= Smaller(total, probe.limit)
    BY <1>2, <1>4, <2>1, NeededIsEnough DEF SizeOf
  <2>4. Offset(K + 1, size) \in Nat
    <3>1. K + 1 \in Nat \ {0}
      BY <1>4
    <3> QED BY <1>4, <3>1, OffsetIsNat
  <2> DEFINE reach == Offset(K + 1, size)
  <2> HIDE DEF reach, total
  <2>5. Smaller(probe.limit, Smaller(reach, total)) = Smaller(probe.limit, total)
    BY <1>2, <1>4, <2>3, <2>4 DEF Smaller, reach
  <2> QED BY <2>2, <2>5 DEF Prefix, reach, total
<1>10. SteadyHolds(listing, probe')
  BY <1>7, <1>9 DEF SteadyHolds
<1>11. KindHolds(probe') /\ WalkHolds(listing, awaited, probe') /\ probe' # NoProbe
  BY <1>7, <1>8, NoProbeIsIdle DEF KindHolds, WalkHolds
<1> QED BY <1>1, <1>7, <1>10, <1>11 DEF ProbesInv, TypeOKProbes

LEMMA FreshIsInPage ==
  ASSUME NEW sheet \in Page PROVE Fresh(sheet) \in 0..Len(sheet.rows)
<1> DEFINE f == CHOOSE i \in Old(sheet) : \A j \in Old(sheet) : i <= j
<1>1. Len(sheet.rows) \in Nat /\ Old(sheet) \subseteq 1..Len(sheet.rows)
  BY PageFields DEF Old
<1>2. CASE Old(sheet) = {}
  BY <1>1, <1>2 DEF Fresh
<1>3. CASE Old(sheet) # {}
  <2>1. Old(sheet) \in SUBSET Nat
    BY <1>1
  <2>2. f \in Old(sheet)
    BY <1>3, <2>1, LeastOf
  <2>3. f \in 1..Len(sheet.rows) /\ Fresh(sheet) = f - 1
    BY <1>1, <1>3, <2>2 DEF Fresh
  <2> HIDE DEF f
  <2> QED BY <1>1, <2>3
<1> QED BY <1>2, <1>3

LEMMA WalkPageKeepsProbes ==
  ASSUME ProbesInv, WalkPage
  PROVE  ProbesInv'
<1> DEFINE n == Len(probe.pages)
           sheet == probe.pages[n]
           room == probe.limit - probe.fetched
           most == Smaller(Fresh(sheet), room)
           taken == SubSeq(sheet.rows, 1, most)
           last == \/ Old(sheet) # {}
                   \/ probe.fetched + Len(taken) >= probe.limit
                   \/ sheet.rows = <<>>
                   \/ n * sheet.size >= sheet.total
           next == VirtualPage(n + 1, sheet.size, probe.cap)
           rows == probe.rows \o taken
           fetched == probe.fetched + Len(taken)
           pages == IF last THEN probe.pages ELSE Append(probe.pages, next)
           pc == IF last THEN "end" ELSE "walk"
<1>1. /\ probe.pc = "walk" /\ sheet.read
      /\ probe' = [probe EXCEPT !.pc = pc, !.rows = rows, !.fetched = fetched, !.pages = pages]
      /\ UNCHANGED <<listing, updated, moves, awaited>>
  BY DEF WalkPage
<1>2. probe # NoProbe
  BY <1>1, NoProbeIsIdle
<1>3. /\ probe \in Probe /\ probe.limit \in Nat \ {0} /\ probe.cap \in Nat \ {0} /\ n \in Nat
      /\ \A m \in 1..n : probe.pages[m] \in Page
  BY <1>2, ProbeFields DEF ProbesInv
<1>4. probe.kind = "walk" /\ WalkGoesOn(listing, awaited, probe)
  <2>1. KindHolds(probe) /\ WalkHolds(listing, awaited, probe)
    BY <1>2 DEF ProbesInv
  <2> QED BY <1>1, <1>3, <2>1 DEF KindHolds, WalkHolds, Probe
<1>5. /\ n >= 1 /\ \A m \in 1..(n - 1) : probe.pages[m].read
      /\ probe.fetched < probe.limit /\ sheet.size <= probe.cap /\ sheet.restSize = sheet.size
      /\ sheet.rest = n + 1
      /\ \A x \in awaited : x \in ScenesIn(probe.rows) \/ Ahead(listing, sheet, x)
  BY <1>1, <1>4 DEF WalkGoesOn
<1>6. sheet \in Page /\ probe.fetched \in Nat /\ probe.rows \in Seq(Scenes) /\ probe.pages \in Seq(Page)
  <2>1. n \in 1..n
    BY <1>3, <1>5
  <2> QED BY <1>3, <2>1 DEF Probe
<1>7. sheet.rows \in Seq(Scenes) /\ Len(sheet.rows) \in Nat /\ sheet.size \in Nat \ {0} /\ sheet.total \in Nat
  BY <1>6, PageFields
<1>8. BaseOf(sheet) = n * sheet.size /\ BaseOf(sheet) \in Nat
  <2>1. sheet.rest - 1 = n
    BY <1>3, <1>5
  <2> QED BY <1>5, <1>6, <2>1, PageFields DEF BaseOf
<1>9. n + 1 \in Nat \ {0}
  BY <1>3
<1> HIDE DEF sheet
<1>10. IsBegun(next, n + 1, sheet.size, probe.cap)
  BY <1>3, <1>7, <1>9, VirtualPageIsBegun
<1> HIDE DEF n, next
<1>11. Fresh(sheet) \in 0..Len(sheet.rows)
  BY <1>6, FreshIsInPage
<1>12. most \in Nat /\ most <= Len(sheet.rows) /\ most <= room /\ (most < room => most = Fresh(sheet))
  BY <1>3, <1>5, <1>6, <1>7, <1>11, SMTT(40) DEF Smaller
<1> HIDE DEF most, room
<1>13. taken \in Seq(Scenes) /\ Len(taken) = most /\ \A i \in 1..most : taken[i] = sheet.rows[i]
  <2>1. 1 \in Nat \ {0} /\ most \in Int /\ most <= Len(sheet.rows)
    BY <1>12
  <2>2. /\ taken \in Seq(Scenes) /\ Len(taken) = (IF 1 <= most THEN most - 1 + 1 ELSE 0)
        /\ \A i \in 1..Len(taken) : taken[i] = sheet.rows[1 + i - 1]
    BY <1>7, <2>1, SliceProperties
  <2>3. Len(taken) = most /\ \A i \in 1..most : 1 + i - 1 = i
    BY <1>12, <2>2
  <2> QED BY <2>2, <2>3
<1> HIDE DEF taken
<1>14. rows \in Seq(Scenes) /\ \A x : x \in ScenesIn(probe.rows) \/ x \in ScenesIn(taken) => x \in ScenesIn(rows)
  <2>1. /\ rows \in Seq(Scenes) /\ Len(rows) = Len(probe.rows) + Len(taken)
        /\ \A i \in 1..(Len(probe.rows) + Len(taken)) :
             rows[i] = IF i <= Len(probe.rows) THEN probe.rows[i] ELSE taken[i - Len(probe.rows)]
    BY <1>6, <1>13, ConcatProperties, ZenonT(60)
  <2> DEFINE a == Len(probe.rows)
             b == Len(taken)
  <2>2. /\ a \in Nat /\ b \in Nat /\ DOMAIN rows = 1..(a + b) /\ DOMAIN probe.rows = 1..a
        /\ DOMAIN taken = 1..b
    BY <1>6, <1>13, <2>1
  <2> HIDE DEF rows, a, b
  <2>3. \A i \in 1..a : i \in 1..(a + b) /\ i <= a
    BY <2>2
  <2>4. \A i \in 1..b : a + i \in 1..(a + b) /\ ~(a + i <= a) /\ (a + i) - a = i
    BY <2>2
  <2>5. \A i \in 1..a : rows[i] = probe.rows[i]
    BY <2>1, <2>3 DEF a, b
  <2>6. \A i \in 1..b : rows[a + i] = taken[i]
    BY <2>1, <2>4 DEF a, b
  <2>7. \A x \in ScenesIn(probe.rows) : x \in ScenesIn(rows)
    BY <2>2, <2>3, <2>5 DEF ScenesIn
  <2>8. \A x \in ScenesIn(taken) : x \in ScenesIn(rows)
    BY <2>2, <2>4, <2>6 DEF ScenesIn
  <2> QED BY <2>1, <2>7, <2>8
<1> HIDE DEF rows
<1>15. fetched \in Nat /\ (fetched < probe.limit => most = Fresh(sheet))
  BY <1>3, <1>6, <1>12, <1>13 DEF room
<1>16. ASSUME fetched < probe.limit, NEW x \in awaited
       PROVE  \/ x \in ScenesIn(rows)
              \/ Old(sheet) = {} /\ sheet.rows # <<>> /\ n * sheet.size < sheet.total /\ PosAfter(listing, x, n * sheet.size)
  <2>1. CASE x \in ScenesIn(probe.rows)
    BY <1>14, <2>1
  <2>2. CASE \E i \in 1..Fresh(sheet) : sheet.rows[i] = x
    <3>1. PICK i \in 1..most : sheet.rows[i] = x
      BY <1>15, <1>16, <2>2
    <3>2. x \in ScenesIn(taken)
      BY <1>13, <3>1 DEF ScenesIn
    <3> QED BY <1>14, <3>2
  <2> QED BY <1>5, <1>8, <2>1, <2>2 DEF Ahead
<1>17. CASE last
  <2>1. /\ probe' \in Probe /\ probe'.kind = "walk" /\ probe'.pc = "end" /\ probe'.limit = probe.limit
        /\ probe'.rows = rows /\ probe'.fetched = fetched
    <3>1. probe' = [probe EXCEPT !.pc = "end", !.rows = rows, !.fetched = fetched, !.pages = probe.pages]
      BY <1>1, <1>17
    <3> HIDE DEF fetched
    <3> QED BY <1>3, <1>4, <1>6, <1>14, <1>15, <3>1 DEF Probe
  <2>2. ASSUME fetched < probe.limit PROVE awaited \subseteq ScenesIn(rows)
    <3>1. ASSUME NEW x \in awaited PROVE x \in ScenesIn(rows)
      <4>1. ~(Old(sheet) = {} /\ sheet.rows # <<>> /\ n * sheet.size < sheet.total)
        <5> DEFINE p == n * sheet.size
        <5>1. p \in Nat
          BY <1>8
        <5>2. \/ Old(sheet) # {} \/ sheet.rows = <<>> \/ p >= sheet.total
          BY <1>3, <1>15, <1>17, <2>2
        <5> HIDE DEF p
        <5>3. ~(Old(sheet) = {} /\ sheet.rows # <<>> /\ p < sheet.total)
          BY <1>7, <5>1, <5>2
        <5> QED BY <5>3 DEF p
      <4> QED BY <1>16, <2>2, <3>1, <4>1
    <3> QED BY <3>1
  <2> HIDE DEF fetched
  <2>3. KindHolds(probe') /\ SteadyHolds(listing, probe') /\ WalkHolds(listing, awaited, probe') /\ probe' # NoProbe
    BY <2>1, <2>2, NoProbeIsIdle DEF KindHolds, SteadyHolds, WalkHolds
  <2> QED BY <1>1, <2>1, <2>3 DEF ProbesInv, TypeOKProbes
<1>18. CASE ~last
  <2>1. next \in Page
    BY <1>10 DEF IsBegun
  <2>2. /\ probe' \in Probe /\ probe'.kind = "walk" /\ probe'.pc = "walk" /\ probe'.limit = probe.limit
        /\ probe'.rows = rows /\ probe'.fetched = fetched /\ probe'.cap = probe.cap
        /\ probe'.pages = Append(probe.pages, next)
    <3>1. Append(probe.pages, next) \in Seq(Page)
      BY <1>6, <2>1
    <3>2. probe' = [probe EXCEPT !.pc = "walk", !.rows = rows, !.fetched = fetched, !.pages = Append(probe.pages, next)]
      BY <1>1, <1>18
    <3> HIDE DEF fetched
    <3> QED BY <1>3, <1>4, <1>14, <1>15, <3>1, <3>2 DEF Probe
  <2>3. /\ Len(probe'.pages) = n + 1 /\ probe'.pages[n + 1] = next
        /\ \A m \in 1..n : probe'.pages[m] = probe.pages[m]
    BY <1>6, <2>1, <2>2 DEF n
  <2>4. fetched < probe.limit
    BY <1>3, <1>15, <1>18
  <2>5. \A m \in 1..n : probe'.pages[m].read
    <3>1. \A m \in 1..n : m = n \/ m \in 1..(n - 1)
      BY <1>3
    <3> QED BY <1>1, <1>5, <2>3, <3>1, ZenonT(60) DEF sheet
  <2> HIDE DEF fetched, last
  <2>6. Smaller(sheet.size, probe.cap) = sheet.size
    BY <1>3, <1>5, <1>7 DEF Smaller
  <2>7. /\ next.size = sheet.size /\ next.restSize = sheet.size /\ next.rest = n + 1 /\ next.skip = 0
        /\ next.rows = <<>> /\ next.newer = {} /\ ~next.read
    BY <1>5, <1>10, <2>6 DEF IsBegun
  <2>8. BaseOf(next) = n * sheet.size
    <3>1. next.rest - 1 = n
      BY <1>3, <2>7
    <3> QED BY <2>7, <3>1 DEF BaseOf
  <2>9. \A x \in awaited : x \in ScenesIn(rows) \/ PosAfter(listing, x, BaseOf(next))
    BY <1>16, <2>4, <2>8
  <2>10. (n + 1) - 1 = n /\ n + 1 >= 1
    BY <1>3
  <2>11. WalkGoesOn(listing, awaited, probe')
    BY <1>5, <2>2, <2>3, <2>4, <2>5, <2>7, <2>9, <2>10 DEF WalkGoesOn
  <2>12. KindHolds(probe') /\ SteadyHolds(listing, probe') /\ WalkHolds(listing, awaited, probe') /\ probe' # NoProbe
    BY <2>2, <2>11, NoProbeIsIdle DEF KindHolds, SteadyHolds, WalkHolds
  <2> QED BY <1>1, <2>2, <2>12 DEF ProbesInv, TypeOKProbes
<1> QED BY <1>17, <1>18

LEMMA ProbesNext == ProbesInv /\ [NextProbes]_probeVars => ProbesInv'
<1> SUFFICES ASSUME ProbesInv, [NextProbes]_probeVars PROVE ProbesInv'
  OBVIOUS
<1>1. CASE \E limit \in ProbeLimits, cap \in {FetchPageSize, RestPageSize} : BeginParallel(limit, cap)
  BY <1>1, BeginParallelKeepsProbes
<1>2. CASE \E limit \in ProbeLimits : BeginSince(limit)
  BY <1>2, BeginSinceKeepsProbes
<1>3. CASE \E n \in 1..Len(Catalogue) + 1 : ReadPage(n)
  <2>1. PICK n \in 1..Len(Catalogue) + 1 : ReadPage(n)
    BY <1>3
  <2>2. n \in Nat
    BY ScenesOfCatalogue
  <2> QED BY <2>1, <2>2, ReadPageKeepsProbes
<1>4. CASE FirstPageRead
  BY <1>4, FirstPageReadKeepsProbes
<1>5. CASE MergePages
  BY <1>5, MergePagesKeepsProbes
<1>6. CASE WalkPage
  BY <1>6, WalkPageKeepsProbes
<1>7. CASE ProbeEnds
  BY <1>7 DEF ProbeEnds, ProbesInv, TypeOKProbes
<1>8. CASE \E x \in ScenesIn(Catalogue) : SceneUpdated(x)
  BY <1>8, SceneUpdatedKeepsProbes DEF Scenes
<1>9. CASE \E x \in ScenesIn(Catalogue) : SceneRemoved(x)
  BY <1>9, SceneRemovedKeepsProbes DEF Scenes
<1>10. CASE UNCHANGED probeVars
  BY <1>10 DEF probeVars, ProbesInv, TypeOKProbes
<1> QED BY <1>1, <1>2, <1>3, <1>4, <1>5, <1>6, <1>7, <1>8, <1>9, <1>10 DEF NextProbes

\* What a probe brings is the listing, or all that is newer than the watermark.
LEMMA ProbesStayWhole == SpecProbes => [](PagesAreTheListing /\ WalksMissNothing)
<1>1. SpecProbes => []ProbesInv
  BY ProbesInit, ProbesNext, PTL DEF SpecProbes
<1> QED BY <1>1, ProbesInvAnswers, PTL

-----------------------------------------------------------------------------
(* All of them together.  One component moves, the others stay.            *)

LEMMA ComponentsMove ==
  ASSUME [ExternalNext]_externalVars
  PROVE  /\ [NextRefresh]_refreshVars /\ [NextPages]_pageVars
         /\ [NextLinks]_linkVars /\ [NextMatches]_matchVars
         /\ [NextWhisparr]_whisparrVars
         /\ [NextProbes]_probeVars /\ [NextIdentities]_identityVars /\ [NextPace]_paceVars
<1>1. CASE RefreshMoves
  BY <1>1 DEF RefreshMoves, clientVars
<1>2. CASE PagesMove
  BY <1>2 DEF PagesMove, clientVars
<1>3. CASE LinksMove
  BY <1>3 DEF LinksMove, clientVars
<1>4. CASE MatchesMove
  BY <1>4 DEF MatchesMove, clientVars
<1>5. CASE WhisparrMoves
  BY <1>5 DEF WhisparrMoves, clientVars
<1>6. CASE WorkersMove \/ BackupsMove
  BY <1>6 DEF WorkersMove, BackupsMove, clientVars
<1>7. CASE ProbesMove \/ IdentitiesMove \/ PaceMoves
  BY <1>7 DEF ProbesMove, IdentitiesMove, PaceMoves, OthersStay
<1>8. CASE UNCHANGED externalVars
  BY <1>8 DEF externalVars
<1> QED BY <1>1, <1>2, <1>3, <1>4, <1>5, <1>6, <1>7, <1>8 DEF ExternalNext

\* What the sidecar keeps of Stash and of Whisparr is what they have.
THEOREM CopiesStayCurrent == ExternalSpec => []CopiesAreCurrent
<1>1. ExternalSpec => SpecLinks /\ SpecMatches /\ SpecWhisparr
  BY ComponentsMove, PTL DEF ExternalSpec, ExternalInit, SpecLinks, SpecMatches, SpecWhisparr
<1>2. LinksAreCurrent /\ MatchesAreCurrent /\ SentScenesAreThere => CopiesAreCurrent
  BY DEF CopiesAreCurrent
<1> QED BY <1>1, <1>2, LinksStayCurrent, MatchesStayCurrent, SentScenesStay, PTL

\* The order external scenes are shown in is that of the present state: the
\* scores are of one model, the order of what it was sorted by.
THEOREM ExternalOrderStaysCurrent == ExternalSpec => []ExternalOrderIsCurrent
<1>1. ExternalSpec => SpecRefresh /\ SpecPages
  BY ComponentsMove, PTL DEF ExternalSpec, ExternalInit, SpecRefresh, SpecPages
<1>2. ScoresAreOfOneModel /\ CachedOrderIsFresh => ExternalOrderIsCurrent
  BY DEF ExternalOrderIsCurrent
<1> QED BY <1>1, <1>2, ScoresStayOfOneModel, CachedPagesAreFresh, PTL

\* What the sidecar asks a stash-box for comes whole: pages, identities, pace.
THEOREM AnswersStayWhole == ExternalSpec => []AnswersAreWhole
<1>1. ExternalSpec => SpecProbes /\ SpecIdentities /\ SpecPace
  BY ComponentsMove, PTL DEF ExternalSpec, ExternalInit, SpecProbes, SpecIdentities, SpecPace
<1>2. /\ PagesAreTheListing /\ WalksMissNothing
      /\ IdentitiesAreRecent /\ NobodyWaitsForever /\ FiltersAreWhole /\ RequestsArePaced
      => AnswersAreWhole
  BY DEF AnswersAreWhole
<1> QED BY <1>1, <1>2, ProbesStayWhole, IdentitiesStayRecent, SomebodyGoesOn, FiltersStayWhole,
           RequestsKeepPace, PTL

=============================================================================
