---------------------------- MODULE LibraryLinks ----------------------------
(***************************************************************************)
(* What of the stash-box the library already has.  Two answers:            *)
(* the map of linked entities (src/core/links.go), walked page by page or  *)
(* patched with what was edited since, and the index of scene matches      *)
(* (src/core/localmatches.go), filled once and kept up to date by hooks.   *)
(*                                                                         *)
(* Every request is a process of its own; Stash changes between any two of *)
(* its reads.  Stash's updated_at counts seconds.                          *)
(***************************************************************************)
EXTENDS Integers, FiniteSets, FiniteSetsExt

CONSTANTS
  Entity,      \* linked performers, scenes or studios, by ascending id
  Request,     \* concurrent request processes
  MaxSecond,   \* bound: Stash's clock
  MaxEdits,    \* bound: changes in Stash
  MaxMatch     \* bound: fingerprint changes of the scene

ASSUME LinksAssumption ==
  /\ Entity \subseteq Nat \ {0} /\ IsFiniteSet(Entity)
  /\ {MaxSecond, MaxEdits, MaxMatch} \subseteq Nat

VARIABLES
  second, edits,
  links,     \* Stash: the second of the last edit of a linked entity, 0 if it is not linked
  saved,     \* the cached links: the state they are of, and the records
  job,       \* externalLinks of a request
  torn,      \* history: something was linked or unlinked under a request at work
  blurred,   \* history: an edit in a second whose state had been read
  match,     \* Stash: the version of a scene's stash ids and fingerprints; 0: no scene
  hooks,     \* hook processes that have not committed
  index,     \* local_scene_match: the version the index holds
  ready,     \* local_scene_matches_ready
  pending,   \* local_scene_match_pending: the revision, 0 for no row
  revisions, \* revisions given so far
  reader,    \* localSceneLinks of a request
  page,      \* the sync between the fetch and the save of a page: 0 - 1 when none
  overtaken  \* history: the sync saved a page older than the index

linkVars == <<second, edits, links, saved, job, torn, blurred>>
matchVars == <<match, hooks, index, ready, pending, revisions, reader, page, overtaken>>

Nothing == [state |-> <<0 - 1, 0>>]
Idle == [pc |-> "idle"]

InitLinks ==
  /\ second = 1 /\ edits = 0
  /\ links \in [Entity -> {0, 1}]
  /\ saved = Nothing /\ job = [r \in Request |-> Idle]
  /\ torn = FALSE /\ blurred = FALSE

-----------------------------------------------------------------------------
Linked == {x \in Entity : links[x] > 0}
Record(x) == <<x, links[x]>>

(* externalLinksState: how many are linked, and the latest edit of them. *)
State == <<Cardinality(Linked), IF Linked = {} THEN 0 ELSE Max({links[x] : x \in Linked})>>

InSecondRead ==
  \/ saved.state[2] = second
  \/ \E r \in Request : job[r] # Idle /\ job[r].state[2] = second

(* Stash edits, links or unlinks an entity. *)
StashEdits(x, stamp) ==
  /\ edits < MaxEdits /\ links[x] + stamp > 0
  /\ links' = [links EXCEPT ![x] = stamp]
  /\ edits' = edits + 1
  /\ torn' = (torn \/ (0 \in {links[x], stamp} /\ \E r \in Request : job[r] # Idle))
  /\ blurred' = (blurred \/ InSecondRead)
  /\ UNCHANGED <<second, saved, job>>

SecondPasses ==
  /\ second < MaxSecond
  /\ second' = second + 1
  /\ UNCHANGED <<edits, links, saved, job, torn, blurred>>

(* externalLinks: the state is read before anything else.  A cache of that  *)
(* state is served; externalLinksRefresh does not ask for one.              *)
ReadState(r, force) ==
  /\ job[r] = Idle
  /\ ~force => State # saved.state
  /\ job' = [job EXCEPT ![r] = [pc |-> IF force \/ saved = Nothing THEN "walk" ELSE "patch",
                                state |-> State]]
  /\ UNCHANGED <<second, edits, links, saved, torn, blurred>>

(* incrementalLinkRecords: what was edited since the saved state, its last  *)
(* second included, merged into the saved records; and the number of        *)
(* records must come out at the count of the state.                         *)
MergeLinkRecords(records, changed) ==
  changed \cup {x \in records : \A y \in changed : y[1] # x[1]}

ChangedSince(before, after) ==
  IF before = after THEN {} ELSE {Record(x) : x \in {y \in Linked : links[y] >= before[2]}}

PatchedRecords(r) == MergeLinkRecords(saved.records, ChangedSince(saved.state, job[r].state))

PatchUncounted(r) ==
  /\ job[r].pc = "patch"
  /\ job' = [job EXCEPT ![r] = [pc |-> "save", state |-> job[r].state, records |-> PatchedRecords(r)]]
  /\ UNCHANGED <<second, edits, links, saved, torn, blurred>>

Patch(r) ==
  /\ job[r].pc = "patch"
  /\ job' = [job EXCEPT ![r] =
       IF Cardinality(PatchedRecords(r)) = job[r].state[1]
       THEN [pc |-> "save", state |-> job[r].state, records |-> PatchedRecords(r)]
       ELSE [pc |-> "walk", state |-> job[r].state]]
  /\ UNCHANGED <<second, edits, links, saved, torn, blurred>>

(* walkLinkRecords: the first page fixes how many there are; the others are *)
(* asked for by their offset, after it.                                     *)
At(offset) == {x \in Linked : Cardinality({y \in Linked : y <= x}) = offset}

WalkFirstPage(r) ==
  /\ job[r].pc = "walk"
  /\ job' = [job EXCEPT ![r] = [pc |-> "walking", state |-> job[r].state, pages |-> Cardinality(Linked),
                                records |-> {Record(x) : x \in At(1)}]]
  /\ UNCHANGED <<second, edits, links, saved, torn, blurred>>

WalkOtherPages(r) ==
  /\ job[r].pc = "walking"
  /\ job' = [job EXCEPT ![r] = [pc |-> "save", state |-> job[r].state,
       records |-> job[r].records \cup {Record(x) : x \in UNION {At(o) : o \in 2..job[r].pages}}]]
  /\ UNCHANGED <<second, edits, links, saved, torn, blurred>>

SaveExternalLinks(r) ==
  /\ job[r].pc = "save"
  /\ saved' = [state |-> job[r].state, records |-> job[r].records]
  /\ job' = [job EXCEPT ![r] = Idle]
  /\ UNCHANGED <<second, edits, links, torn, blurred>>

LinksFail(r) ==
  /\ job[r] # Idle
  /\ job' = [job EXCEPT ![r] = Idle]
  /\ UNCHANGED <<second, edits, links, saved, torn, blurred>>

NextLinks ==
  \/ \E x \in Entity, stamp \in {0, second} : StashEdits(x, stamp)
  \/ SecondPasses
  \/ \E r \in Request :
        \/ \E force \in BOOLEAN : ReadState(r, force)
       \/ Patch(r) \/ WalkFirstPage(r) \/ WalkOtherPages(r) \/ SaveExternalLinks(r) \/ LinksFail(r)

SpecLinks == InitLinks /\ [][NextLinks]_linkVars

-----------------------------------------------------------------------------
InitMatches ==
  /\ match \in 0..1 /\ hooks = 0 /\ index = 0
  /\ ready = FALSE /\ pending = 0 /\ revisions = 0
  /\ reader = [r \in Request |-> Idle] /\ page = 0 - 1 /\ overtaken = FALSE

(* Stash changes the scene's fingerprints, or deletes it, and starts a hook. *)
StashChangesMatch(version) ==
  /\ version \in {match + 1, 0}
  /\ version <= MaxMatch /\ match > 0 /\ hooks < 2
  /\ match' = version /\ hooks' = hooks + 1
  /\ UNCHANGED <<index, ready, pending, revisions, reader, page, overtaken>>

(* queueLocalSceneMatch: every hook gives the row another revision. *)
QueueLocalSceneMatch ==
  /\ hooks > 0
  /\ hooks' = hooks - 1 /\ revisions' = revisions + 1 /\ pending' = revisions + 1
  /\ UNCHANGED <<match, index, ready, reader, page, overtaken>>

(* backfillLocalSceneMatches: all of Stash, then one transaction, which     *)
(* looks again whether another request has filled the index meanwhile.      *)
BackfillFetch(r) ==
  /\ reader[r] = Idle /\ ~ready
  /\ reader' = [reader EXCEPT ![r] = [pc |-> "filled", found |-> match]]
  /\ UNCHANGED <<match, hooks, index, ready, pending, revisions, page, overtaken>>

BackfillIndex(r) ==
  /\ reader[r].pc = "filled"
  /\ index' = IF ready THEN index ELSE reader[r].found
  /\ overtaken' = (ready /\ overtaken)
  /\ ready' = TRUE
  /\ reader' = [reader EXCEPT ![r] = [pc |-> "ready"]]
  /\ UNCHANGED <<match, hooks, pending, revisions, page>>

(* refreshPendingLocalSceneMatches *)
ReadPending(r) ==
  /\ reader[r].pc = "ready" \/ (reader[r] = Idle /\ ready)
  /\ reader' = [reader EXCEPT ![r] = IF pending = 0 THEN Idle ELSE [pc |-> "pending", rev |-> pending]]
  /\ UNCHANGED <<match, hooks, index, ready, pending, revisions, page, overtaken>>

FetchPending(r) ==
  /\ reader[r].pc = "pending"
  /\ reader' = [reader EXCEPT ![r] = [pc |-> "fetched", rev |-> reader[r].rev, found |-> match]]
  /\ UNCHANGED <<match, hooks, index, ready, pending, revisions, page, overtaken>>

(* A newer hook survives a fetch that started before its change. *)
RefreshPending(r) ==
  /\ reader[r].pc = "fetched"
  /\ IF pending = reader[r].rev
     THEN index' = reader[r].found /\ pending' = 0 /\ overtaken' = FALSE
     ELSE UNCHANGED <<index, pending, overtaken>>
  /\ reader' = [reader EXCEPT ![r] = Idle]
  /\ UNCHANGED <<match, hooks, ready, revisions, page>>

ReaderFails(r) ==
  /\ reader[r] # Idle
  /\ reader' = [reader EXCEPT ![r] = Idle]
  /\ UNCHANGED <<match, hooks, index, ready, pending, revisions, page, overtaken>>

(* The sync writes the matches of the scenes of its page. *)
SyncFetchesPage ==
  /\ page < 0 /\ match > 0
  /\ page' = match
  /\ UNCHANGED <<match, hooks, index, ready, pending, revisions, reader, overtaken>>

SyncSavesPage ==
  /\ page >= 0
  /\ index' = page /\ page' = 0 - 1
  /\ overtaken' = (page # match)
  /\ UNCHANGED <<match, hooks, ready, pending, revisions, reader>>

NextMatches ==
  \/ \E version \in 0..MaxMatch : StashChangesMatch(version)
  \/ QueueLocalSceneMatch
  \/ \E r \in Request : \/ BackfillFetch(r) \/ BackfillIndex(r) \/ ReadPending(r)
                        \/ FetchPending(r) \/ RefreshPending(r) \/ ReaderFails(r)
  \/ SyncFetchesPage \/ SyncSavesPage

SpecMatches == InitMatches /\ [][NextMatches]_matchVars

-----------------------------------------------------------------------------
(* While the cached links are of the state Stash reports, they are the      *)
(* links Stash has: patching what was edited never keeps an entity that was *)
(* deleted or unlinked and never misses an edit, in whatever order requests *)
(* finish, unless something was linked or unlinked under a request at work  *)
(* (its records then are not those of its state) or an edit fell into a     *)
(* second already read.                                                     *)
LinksAreCurrent ==
  ~torn /\ ~blurred /\ saved.state = State => saved.records = {Record(x) : x \in Linked}

(* Once the index is filled, a scene without a queued hook is indexed as    *)
(* Stash has it: no slow fetch overwrites a newer one, however backfills    *)
(* and refreshes of several requests overlap, but for the page of a sync    *)
(* that Stash has overtaken.                                                *)
MatchesAreCurrent ==
  ready /\ pending = 0 /\ hooks = 0 /\ ~overtaken => index = match
=============================================================================
