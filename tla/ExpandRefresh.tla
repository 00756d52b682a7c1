--------------------------- MODULE ExpandRefresh ---------------------------
(***************************************************************************)
(* Expand: the cache of a stash-box's scenes that match the taste of the   *)
(* model.  src/core/expand_refresh.go, src/core/expand_incremental.go,     *)
(* src/core/expand_ops.go, src/core/expand.go.                             *)
(*                                                                         *)
(* The refresh is a task (one at a time), a performer hunt a request       *)
(* process.  Each reads, asks the stash-box and writes in separate steps,  *)
(* and the stash-box, the model and the other commit in between.           *)
(***************************************************************************)
EXTENDS Integers, FiniteSets, Functions, Folds

CONSTANTS
  External,     \* scenes of the stash-boxes
  Endpoint,     \* the stash-boxes
  Updatable,    \* those that sort by UPDATED_AT; ThePornDB does not
  Lists,        \* the scenes a stash-box has
  Seed,         \* performers, studios and tags that scenes are searched by
  SeedsOf,      \* the seeds a scene matches
  Release,      \* its release date
  Owned,        \* scenes the library has by their stash-box id
  Shortlisted,  \* scenes of external_shortlist
  Horizon,      \* expand_horizon_days
  PerSource,    \* scenes a probe may take
  Slack,        \* expandWatermarkSlackMs
  FullEvery,    \* expandFullFetchIntervalMs
  StartAt, LastAt,     \* bounds: the clock
  MaxChanges,   \* bound: changes of scenes in the stash-box
  MaxRefreshes  \* bound: refreshes and hunts

ASSUME ExpandAssumption ==
  /\ {Slack, FullEvery, PerSource, Horizon, StartAt, LastAt, MaxChanges, MaxRefreshes} \subseteq Nat \ {0}
  /\ Updatable \subseteq Endpoint /\ StartAt > Slack
  /\ Lists \in [Endpoint -> SUBSET External]
  /\ SeedsOf \in [External -> SUBSET Seed] /\ Release \in [External -> Int]

VARIABLES
  now,          \* the clock of the sidecar
  upstream,     \* the version of a scene and the stash-box's stamp on it; 0: not there yet
  published,    \* the published model
  pool,         \* external_entity
  cache,        \* expand_cache, the seed state and the endpoint, as one row (cutoff: history)
  refresh,      \* the refresh task between its steps
  hunt,         \* a performer hunt between its fetch and its commit
  drafts,       \* refreshes and hunts so far
  changed, truncated, unscored  \* history: what the last refresh could not have seen

inputs == <<upstream, published>>
history == <<changed, truncated, unscored>>
refreshVars == <<now, inputs, pool, cache, refresh, hunt, drafts, history>>

NoEntity == [pool |-> "none"]
NoCache == [endpoint |-> "none"]
NoRefresh == [pc |-> "idle"]
NoHunt == [pc |-> "none"]

InitRefresh ==
  /\ now = StartAt
  /\ upstream \in [External -> {[version |-> 0, stamp |-> 0], [version |-> 1, stamp |-> 1]}]
  /\ published = 1
  /\ pool = [x \in External |-> NoEntity] /\ cache = NoCache
  /\ refresh = NoRefresh /\ hunt = NoHunt /\ drafts = 0
  /\ changed = External /\ truncated = FALSE /\ unscored = FALSE

-----------------------------------------------------------------------------
(* The stash-box's clock may run behind the sidecar's, by less than Slack.  *)
Changes == SumFunction([x \in External |-> upstream[x].version])

UpstreamChanges(x, behind) ==
  /\ Changes < MaxChanges
  /\ upstream' = [upstream EXCEPT ![x] = [version |-> @.version + 1, stamp |-> now - behind]]
  /\ changed' = changed \cup {x}
  /\ refresh' = IF refresh.pc = "fetched" THEN [refresh EXCEPT !.changed = @ \cup {x}] ELSE refresh
  /\ UNCHANGED <<now, published, pool, cache, hunt, drafts, truncated, unscored>>

Matching(e, seeds) ==
  {x \in Lists[e] : upstream[x].version > 0 /\ SeedsOf[x] \cap seeds # {}}

(* fetchUpdatedSince: newest update first, up to the watermark or the limit. *)
FetchUpdatedSince(e, seeds, since) ==
  LET fresh == {x \in Matching(e, seeds) : upstream[x].stamp > since}
  IN {taken \in SUBSET fresh :
        /\ Cardinality(taken) = IF Cardinality(fresh) < PerSource THEN Cardinality(fresh) ELSE PerSource
        /\ \A x \in taken, y \in fresh \ taken : upstream[x].stamp >= upstream[y].stamp}

(* fetchParallel: the first pages of a sort by date or popularity. *)
FetchParallel(e, seeds, limit) ==
  LET all == Matching(e, seeds)
  IN {taken \in SUBSET all :
        Cardinality(taken) = IF Cardinality(all) < limit THEN Cardinality(all) ELSE limit}

Half == IF PerSource < 2 THEN 1 ELSE PerSource \div 2

(* fetchProbes: the known seeds by update, the new ones sampled twice.      *)
FetchProbes(e, known, fresh, since) ==
  {a \cup b \cup c : a \in FetchUpdatedSince(e, known, since),
                     b \in FetchParallel(e, fresh, Half), c \in FetchParallel(e, fresh, Half)}

RecentScene(x, cutoff) == Release[x] >= cutoff

-----------------------------------------------------------------------------
(* expandRefresh.  The watermark is the start of the last refresh less the  *)
(* slack; a full fetch takes its place when forced, for another endpoint,   *)
(* for one without the sort, or when the last full fetch is too old.        *)
BeginRefresh(e, seeds, forceFull) ==
  /\ refresh = NoRefresh /\ drafts < MaxRefreshes
  /\ LET incremental == /\ ~forceFull
                        /\ cache # NoCache
                        /\ cache.endpoint = e
                        /\ e \in Updatable
                        /\ now - cache.full < FullEvery
         since == IF incremental THEN cache.fetched - Slack ELSE 0
     IN refresh' = [pc |-> "begun", endpoint |-> e, at |-> now, model |-> published,
                    seeds |-> seeds, since |-> since,
                    last |-> IF cache = NoCache THEN 0 ELSE cache.model]
  /\ drafts' = drafts + 1
  /\ UNCHANGED <<now, inputs, pool, cache, hunt, history>>

KnownOfAnyAge(since) == IF since > 0 THEN refresh.seeds ELSE {}

Known(since) == IF since > 0 THEN refresh.seeds \cap cache.seeds ELSE {}

(* A failed incremental fetch is retried in full. *)
Fetch(since) ==
  /\ refresh.pc = "begun"
  /\ since \in {refresh.since, 0}
  /\ LET known == Known(since)
         fresh == refresh.seeds \ known
     IN \E rows \in FetchProbes(refresh.endpoint, known, fresh, since) :
          refresh' = [pc |-> "fetched", endpoint |-> refresh.endpoint, at |-> refresh.at,
                      model |-> refresh.model, seeds |-> refresh.seeds, last |-> refresh.last,
                      since |-> since, cutoff |-> now - Horizon, changed |-> {},
                      rows |-> [x \in {y \in rows : RecentScene(y, now - Horizon) /\ y \notin Owned} |->
                                  upstream[x].version],
                      short |-> \/ ~Matching(refresh.endpoint, fresh) \subseteq rows
                                \/ \E x \in Matching(refresh.endpoint, known) \ rows :
                                     upstream[x].stamp > since]
  /\ UNCHANGED <<now, inputs, pool, cache, hunt, drafts, history>>

Candidate(x) == pool[x].pool = "candidate"

(* The write transaction: what another endpoint left goes, the candidates   *)
(* are upserted, what is past the horizon and not shortlisted goes.         *)
Cleared(x) == IF cache = NoCache \/ cache.endpoint # refresh.endpoint THEN NoEntity ELSE pool[x]

Refreshed(x) ==
  IF x \in DOMAIN refresh.rows
  THEN [pool |-> "candidate", version |-> refresh.rows[x], model |-> refresh.model, by |-> "refresh"]
  ELSE Cleared(x)

Kept(x) == IF Refreshed(x) # NoEntity /\ ~RecentScene(x, refresh.cutoff) /\ x \notin Shortlisted THEN NoEntity
           ELSE Refreshed(x)

(* The candidates that stay were scored under another model. *)
ModelChangedSince == cache # NoCache /\ published # refresh.model
ModelChanged == cache # NoCache /\ refresh.last # refresh.model

(* Every probe may have been cut at its limit; a full fetch that was not    *)
(* makes up for those that were.                                            *)
WriteRefresh ==
  /\ refresh.pc = "fetched"
  /\ pool' = [x \in External |-> Kept(x)]
  /\ cache' = [endpoint |-> refresh.endpoint, model |-> refresh.model, fetched |-> refresh.at,
               seeds |-> refresh.seeds, cutoff |-> refresh.cutoff,
               full |-> IF refresh.since > 0 THEN cache.full ELSE refresh.at]
  /\ changed' = refresh.changed
  /\ truncated' = (refresh.short \/ (refresh.since > 0 /\ truncated))
  /\ unscored' = (ModelChanged \/ unscored)
  /\ refresh' = IF ModelChanged THEN [refresh EXCEPT !.pc = "written"] ELSE NoRefresh
  /\ UNCHANGED <<now, inputs, hunt, drafts>>

(* rescoreCandidates reads the candidates, scores them and writes scores.   *)
ReadCandidates ==
  /\ refresh.pc = "written"
  /\ refresh' = [refresh EXCEPT !.pc = "rescoring", !.rows = {x \in External : Candidate(x)}]
  /\ UNCHANGED <<now, inputs, pool, cache, hunt, drafts, history>>

RescoreCandidates ==
  /\ refresh.pc = "rescoring"
  /\ pool' = [x \in External |-> IF x \in refresh.rows /\ pool[x] # NoEntity
                                 THEN [pool[x] EXCEPT !.model = refresh.model] ELSE pool[x]]
  /\ unscored' = FALSE
  /\ refresh' = NoRefresh
  /\ UNCHANGED <<now, inputs, cache, hunt, drafts, changed, truncated>>

(* The fetch fails, the task is cancelled, or its process dies. *)
RefreshStops ==
  /\ refresh # NoRefresh
  /\ refresh' = NoRefresh
  /\ UNCHANGED <<now, inputs, pool, cache, hunt, drafts, history>>

-----------------------------------------------------------------------------
(* expandPerformerHunt, expandTargetedSimilar: a search of their own, then  *)
(* mergeExternal, which leaves a candidate a candidate.                     *)
BeginHunt(e, seed) ==
  /\ hunt = NoHunt /\ drafts < MaxRefreshes
  /\ \E rows \in FetchParallel(e, {seed}, PerSource) :
       /\ rows # {}
       /\ hunt' = [pc |-> "fetched", model |-> published, rows |-> [x \in rows |-> upstream[x].version]]
  /\ drafts' = drafts + 1
  /\ UNCHANGED <<now, inputs, pool, cache, refresh, history>>

MergeExternal ==
  /\ hunt # NoHunt
  /\ pool' = [x \in External |->
       IF x \in DOMAIN hunt.rows
       THEN [pool |-> IF Candidate(x) THEN "candidate" ELSE "explore",
             version |-> hunt.rows[x], model |-> hunt.model, by |-> "hunt"]
       ELSE pool[x]]
  /\ hunt' = NoHunt
  /\ UNCHANGED <<now, inputs, cache, refresh, drafts, history>>

-----------------------------------------------------------------------------
TimePasses ==
  /\ now < LastAt
  /\ now' = now + 1
  /\ UNCHANGED <<inputs, pool, cache, refresh, hunt, drafts, history>>

(* What the rest of the system changes: the settings, the library, the      *)
(* published model; a Not now expires.                                      *)
ModelPublished ==
  /\ published = 1
  /\ published' = 2
  /\ UNCHANGED <<now, upstream, pool, cache, refresh, hunt, drafts, history>>

NextRefresh ==
  \/ \E x \in External, behind \in 0..(Slack - 1) : UpstreamChanges(x, behind)
  \/ \E e \in Endpoint, seeds \in SUBSET Seed \ {{}}, forceFull \in BOOLEAN :
       BeginRefresh(e, seeds, forceFull)
  \/ \E since \in 0..LastAt : Fetch(since)
  \/ WriteRefresh \/ ReadCandidates \/ RescoreCandidates \/ RefreshStops
  \/ \E e \in Endpoint, seed \in Seed : BeginHunt(e, seed)
  \/ MergeExternal
  \/ TimePasses
  \/ ModelPublished

SpecRefresh == InitRefresh /\ [][NextRefresh]_refreshVars

-----------------------------------------------------------------------------
(* Walking back only to the watermark loses nothing: a scene of the seeds   *)
(* that has not changed since the last refresh fetched is in the cache, in  *)
(* its current version, whatever came between (failed or dead refreshes,    *)
(* seeds that come and go, a stash-box clock that runs behind), unless a    *)
(* probe hit its limit or a hunt has put its own answer in its place.       *)
RefreshCatchesUp ==
  cache # NoCache /\ ~truncated =>
    \A x \in Lists[cache.endpoint] \ changed :
      (/\ upstream[x].version > 0
       /\ SeedsOf[x] \cap cache.seeds # {}
       /\ RecentScene(x, cache.cutoff)
       /\ x \notin Owned)
      => pool[x] # NoEntity /\ (pool[x].by = "refresh" => pool[x].version = upstream[x].version)

(* The scores of the cached candidates compare with one another: once a     *)
(* refresh has ended, each was given under the model the cache is of, but   *)
(* for a hunt's, and but for a refresh that died before it rescored.        *)
ScoresAreOfOneModel ==
  refresh.pc \notin {"written", "rescoring"} /\ ~unscored =>
    \A x \in External : Candidate(x) /\ pool[x].by = "refresh" => pool[x].model = cache.model

=============================================================================
