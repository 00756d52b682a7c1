---------------------------- MODULE ExpandPages ----------------------------
(***************************************************************************)
(* The ranked pages of Expand, the order they are cached in, and what the  *)
(* user marks: shortlist, dismissals, disliked performers.                 *)
(* src/core/expand_ops.go, src/core/external_dismissal.go,                 *)
(* src/core/writes.go, src/core/migrations/0039.                           *)
(*                                                                         *)
(* A page request reads its filters, the revision and the rows one after   *)
(* the other, without a transaction around them.                           *)
(***************************************************************************)
EXTENDS Integers, FiniteSets

CONSTANTS
  Listing,      \* the scenes of the stash-boxes
  Box,          \* the stash-boxes
  Carries,      \* the scenes a stash-box has
  Marked,       \* bound: the scenes the user marks and the library gains
  MaxRevision   \* bound: transactions that change candidates

ASSUME PagesAssumption == MaxRevision \in Nat /\ Marked \subseteq Listing /\ Carries \in [Box -> SUBSET Listing]

VARIABLES
  selected,     \* the endpoint of the settings
  cached,       \* expand_cache_endpoint
  entity,       \* external_entity: the pool of a scene and a stamp for score and payload
  revision,     \* expand_candidate_revision
  linked,       \* scenes the links map finds in the library
  shortlist, dismissed,
  disliked,     \* scenes with a disliked performer
  order,        \* the cached order and the fingerprint of what it was made from
  view          \* a page request that has read its filters and the revision

marks == <<shortlist, dismissed, disliked, linked>>
pageVars == <<selected, cached, entity, revision, marks, order, view>>

NotCached == [pool |-> "none"]
NoView == [rev |-> 0 - 1]
NoOrder == [for |-> NoView]

InitPages ==
  /\ selected \in Box /\ cached \in Box
  /\ entity = [x \in Listing |-> NotCached] /\ revision = 0
  /\ shortlist = {} /\ dismissed = [x \in Listing |-> "no"] /\ disliked = {} /\ linked = {}
  /\ order = NoOrder /\ view = NoView

-----------------------------------------------------------------------------
(* A refresh, its rescoring or a hunt commits: rows come, change and go.    *)
(* The triggers count every change of a candidate row, in that transaction. *)
Revised(rows) ==
  IF \E x \in Listing : rows[x] # entity[x] /\ "candidate" \in {entity[x].pool, rows[x].pool}
  THEN revision + 1 ELSE revision

RefreshCommits(rows, e) ==
  /\ revision < MaxRevision
  /\ entity' = [x \in Listing |-> IF x \in DOMAIN rows THEN rows[x]
                                  ELSE IF e = cached THEN entity[x] ELSE NotCached]
  /\ revision' = Revised(entity')
  /\ cached' = e
  /\ UNCHANGED <<selected, marks, order, view>>

HuntCommits(rows) ==
  /\ revision < MaxRevision
  /\ entity' = [x \in Listing |->
       IF x \notin DOMAIN rows THEN entity[x]
       ELSE IF entity[x].pool = "candidate" THEN [rows[x] EXCEPT !.pool = "candidate"] ELSE rows[x]]
  /\ revision' = Revised(entity')
  /\ UNCHANGED <<selected, cached, marks, order, view>>

(* A row that is not of the selected stash-box is refused. *)
InSelectedCache(x) == entity[x] # NotCached /\ x \in Carries[selected]

(* updateShortlist *)
UpdateShortlist(x) ==
  /\ \/ InSelectedCache(x) /\ shortlist' = shortlist \cup {x}
     \/ x \in Carries[selected] /\ shortlist' = shortlist \ {x}
  /\ UNCHANGED <<selected, cached, entity, revision, dismissed, disliked, linked, order, view>>

(* updateExternalDismissal: of a batch, the scenes that left the cache are  *)
(* skipped; an empty kind takes the dismissal back.                         *)
UpdateExternalDismissal(batch, kind) ==
  /\ dismissed' = [x \in Listing |->
       IF x \in batch \cap Carries[selected] /\ (kind = "no" \/ InSelectedCache(x)) THEN kind
       ELSE dismissed[x]]
  /\ UNCHANGED <<selected, cached, entity, revision, shortlist, disliked, linked, order, view>>

(* dismissedScenes: a Not now holds until it expires. *)
DismissalExpires(x) ==
  /\ dismissed[x] = "not_now"
  /\ dismissed' = [dismissed EXCEPT ![x] = "no"]
  /\ UNCHANGED <<selected, cached, entity, revision, shortlist, disliked, linked, order, view>>

(* updateExternalPerformerDislike: lowers the scenes of that performer. *)
UpdatePerformerDislike(scenes) ==
  /\ disliked' \in {disliked \cup scenes, disliked \ scenes}
  /\ UNCHANGED <<selected, cached, entity, revision, shortlist, dismissed, linked, order, view>>

(* The settings select another endpoint; the library gains or loses a scene. *)
SelectEndpoint(e) ==
  /\ selected' = e
  /\ UNCHANGED <<cached, entity, revision, marks, order, view>>

LibraryChanges(x) ==
  /\ linked' \in {linked \cup {x}, linked \ {x}}
  /\ UNCHANGED <<selected, cached, entity, revision, shortlist, dismissed, disliked, order, view>>

-----------------------------------------------------------------------------
(* What a page orders: the candidates of the stash-box that the filters     *)
(* leave, by score (which a dislike lowers), id and diversity.  The order   *)
(* is a function of these rows and stands for them here.                    *)
Rank(rows, e, filters) ==
  [x \in {y \in Carries[e] : /\ rows[y].pool = "candidate"
                           /\ y \notin filters.hidden \cup filters.linked} |->
     <<rows[x].stamp, x \in filters.disliked>>]

Hidden(hideDismissed) ==
  IF hideDismissed THEN {x \in Carries[selected] : dismissed[x] # "no"} ELSE {}

(* expandResults: the filters and then the revision. *)
OpenPage(hideDismissed) ==
  /\ view = NoView
  /\ cached = selected
  /\ view' = [rev |-> revision, box |-> selected, hidden |-> Hidden(hideDismissed),
              disliked |-> disliked, linked |-> linked]
  /\ UNCHANGED <<selected, cached, entity, revision, marks, order>>

(* The page query of a cached order checks the revision and the endpoint in *)
(* its own snapshot.                                                        *)
ServesAnyRevision == order.for = view /\ cached = view.box

ServesCached ==
  /\ order.for = view
  /\ revision = view.rev /\ cached = view.box

ServeCachedPage ==
  /\ view # NoView /\ ServesCached
  /\ view' = NoView
  /\ UNCHANGED <<selected, cached, entity, revision, marks, order>>

(* Else the whole pool is ranked and its order kept. *)
ServeRankedPage ==
  /\ view # NoView /\ ~ServesCached
  /\ order' = [for |-> view,
               ids |-> IF cached = view.box THEN Rank(entity, view.box, view) ELSE << >>]
  /\ view' = NoView
  /\ UNCHANGED <<selected, cached, entity, revision, marks>>

Stamped(pool) == [pool |-> pool, stamp |-> revision]

NextPages ==
  \/ \E e \in Box : \E xs \in SUBSET Carries[e] :
       \/ \E gone \in SUBSET xs :
            RefreshCommits([x \in xs |-> IF x \in gone THEN NotCached ELSE Stamped("candidate")], e)
       \/ HuntCommits([x \in xs |-> Stamped("explore")])
  \/ \E x \in Marked : UpdateShortlist(x) \/ DismissalExpires(x) \/ LibraryChanges(x)
  \/ \E batch \in SUBSET Marked, kind \in {"no", "not_interested", "not_now"} :
       UpdateExternalDismissal(batch, kind)
  \/ \E scenes \in SUBSET Marked : UpdatePerformerDislike(scenes)
  \/ \E e \in Box : SelectEndpoint(e)
  \/ \E hideDismissed \in BOOLEAN : OpenPage(hideDismissed)
  \/ ServeCachedPage \/ ServeRankedPage

SpecPages == InitPages /\ [][NextPages]_pageVars

-----------------------------------------------------------------------------
(* A page that is served from the cached order shows what ranking the pool  *)
(* anew would show, whoever writes between the reads of a slow request.     *)
CachedOrderIsFresh ==
  view # NoView /\ ServesCached => order.ids = Rank(entity, view.box, view)
=============================================================================
