----------------------------- MODULE Eligibility -----------------------------
(***************************************************************************)
(* Which scenes may be recommended now: sceneEligibility of                *)
(* src/core/eligibility.go over the rows it reads, and the direct plays    *)
(* that two lanes look at (src/core/slate.go).  The rows change under the  *)
(* readers; Feedback, Preferences and PlaySessions model how.              *)
(***************************************************************************)
EXTENDS Library, Integers, FiniteSets, Sequences

CONSTANTS
  Tag,
  Touched,     \* bound: the scenes whose rows change
  MaxChanges,  \* bound: changes of the rows
  NotNow,      \* how long a not_now lasts
  Recovery     \* how long after a play a scene has recovered less than a tenth

ASSUME EligibilityAssumption ==
  /\ Touched \subseteq Scene
  /\ {NotNow, Recovery, MaxChanges} \subseteq Nat

VARIABLES
  today,
  files,      \* scenes with a source_file that is available
  live,       \* unreversed feedback rows: scene, type, at
  excluded,   \* exclusion rows not reversed: scene, at
  prunings,   \* pruning_candidate rows: scene, state, at
  blocks,     \* direct_tag_preference rows with blocked=1: tag, at
  tagsOf,     \* scene_tag
  plays,      \* observed sessions of the direct player: scene, at
  changes

factVars == <<today, files, live, excluded, prunings, blocks, tagsOf, plays, changes>>

InitFacts ==
  /\ today = 1
  /\ files = Scene
  /\ live = {} /\ excluded = {} /\ prunings = {} /\ blocks = {}
  /\ tagsOf = [s \in Scene |-> {}] /\ plays = {} /\ changes = 0

-----------------------------------------------------------------------------
(* The last thumb of a scene decides, and its last not_now. *)
RowsOf(s, types) == {row \in live : row.scene = s /\ row.type \in types}

LatestRows(rows) == {row \in rows : \A other \in rows : other.at <= row.at}

ThumbedDown(s) ==
  \E row \in LatestRows(RowsOf(s, {"thumb_up", "thumb_down"})) : row.type = "thumb_down"

NotNowActive(s) == \E row \in LatestRows(RowsOf(s, {"not_now"})) : today - row.at < NotNow

BlockedTags == {row.tag : row \in blocks}

(* sceneEligibility: a blocked tag is named only where nothing else speaks  *)
(* against the scene.                                                       *)
FirmReasons(s) ==
  {reason \in {"file_unavailable", "hard_exclusion", "pruning_review", "pruning_remove",
               "current_thumb_down", "not_now"} :
     \/ reason = "file_unavailable"   /\ s \notin files
     \/ reason = "hard_exclusion"     /\ \E row \in excluded : row.scene = s
     \/ reason = "pruning_review"     /\ \E row \in prunings : row.scene = s /\ row.state = "review"
     \/ reason = "pruning_remove"     /\ \E row \in prunings : row.scene = s /\ row.state = "remove"
     \/ reason = "current_thumb_down" /\ ThumbedDown(s)
     \/ reason = "not_now"            /\ NotNowActive(s)}

Reasons(s) ==
  IF FirmReasons(s) = {} /\ tagsOf[s] \cap BlockedTags # {} THEN {"blocked_tag"}
  ELSE FirmReasons(s)

Eligible(s) == Reasons(s) = {}

(* directPlayFilters, with sceneRecovery as the days until a tenth. *)
Played(s) == \E play \in plays : play.scene = s

Unrecovered(s) ==
  /\ Played(s)
  /\ \A play \in plays : play.scene = s => today - play.at < Recovery
       \/ \E later \in plays : later.scene = s /\ later.at > play.at

(* materializedRowIsEligible *)
RowEligible(row) ==
  /\ Eligible(row.scene)
  /\ ~(row.from = "best_bets" /\ Played(row.scene))
  /\ ~(row.from = "revisit" /\ Unrecovered(row.scene))

(* What a reader keeps of the rows it reads, in their order. *)
Those(rows, kept) ==
  LET among[i \in 0..Len(rows)] ==
        IF i = 0 THEN <<>>
        ELSE IF rows[i] \in kept THEN Append(among[i - 1], rows[i])
        ELSE among[i - 1]
  IN among[Len(rows)]

-----------------------------------------------------------------------------
(* The rows change: each a transaction of another process. *)
TimePasses ==
  /\ today' = today + 1
  /\ UNCHANGED <<files, live, excluded, prunings, blocks, tagsOf, plays>>

FilesChange(s) ==
  /\ files' = IF s \in files THEN files \ {s} ELSE files \cup {s}
  /\ UNCHANGED <<today, live, excluded, prunings, blocks, tagsOf, plays>>

(* applyFeedback *)
GiveFeedback(s, type) ==
  /\ ~\E row \in live : row.scene = s /\ row.at = today   \* milliseconds apart
  /\ live' = live \cup {[scene |-> s, type |-> type, at |-> today]}
  /\ excluded' = IF type = "never_show" THEN {row \in excluded : row.scene # s}
                                             \cup {[scene |-> s, at |-> today]}
                 ELSE excluded
  /\ prunings' = IF type \in {"thumb_down", "never_show"} THEN {row \in prunings : row.scene # s}
                                             \cup {[scene |-> s, state |-> "review", at |-> today]}
                 ELSE prunings
  /\ UNCHANGED <<today, files, blocks, tagsOf, plays>>

(* correctFeedback: the new row takes the old one's place, and what only    *)
(* the old one justified goes with it.                                      *)
ReplaceFeedback(row, type) ==
  /\ row \in live /\ row.at < today
  /\ type \in {"thumb_up", "not_now"}
  /\ live' = (live \ {row}) \cup {[scene |-> row.scene, type |-> type, at |-> today]}
  /\ excluded' = IF \E other \in live \ {row} : other.scene = row.scene /\ other.type = "never_show"
                 THEN excluded ELSE {e \in excluded : e.scene # row.scene}
  /\ prunings' = IF \/ row.type \notin {"thumb_down", "never_show"}
                    \/ \E other \in live \ {row} : /\ other.scene = row.scene
                                                   /\ other.type \in {"thumb_down", "never_show"}
                 THEN prunings ELSE {p \in prunings : p.scene # row.scene \/ p.state # "review"}
  /\ UNCHANGED <<today, files, blocks, tagsOf, plays>>

KeepScene(s) ==
  /\ prunings' = {row \in prunings : row.scene # s} \cup {[scene |-> s, state |-> "keep", at |-> today]}
  /\ UNCHANGED <<today, files, live, excluded, blocks, tagsOf, plays>>

BlockTag(t) ==
  /\ blocks' = IF t \in BlockedTags THEN {row \in blocks : row.tag # t}
               ELSE blocks \cup {[tag |-> t, at |-> today]}
  /\ UNCHANGED <<today, files, live, excluded, prunings, tagsOf, plays>>

Retag(s, tags) ==
  /\ tagsOf' = [tagsOf EXCEPT ![s] = tags]
  /\ UNCHANGED <<today, files, live, excluded, prunings, blocks, plays>>

Play(s) ==
  /\ plays' = plays \cup {[scene |-> s, at |-> today]}
  /\ UNCHANGED <<today, files, live, excluded, prunings, blocks, tagsOf>>

FactsChange ==
  /\ changes < MaxChanges /\ changes' = changes + 1
  /\ \/ TimePasses
     \/ \E s \in Touched : FilesChange(s)
     \/ \E s \in Touched, type \in {"thumb_up", "thumb_down", "never_show", "not_now"} : GiveFeedback(s, type)
     \/ \E row \in live, type \in {"thumb_up", "not_now"} : ReplaceFeedback(row, type)
     \/ \E s \in Touched : KeepScene(s)
     \/ \E t \in Tag : BlockTag(t)
     \/ \E s \in Touched, tags \in SUBSET Tag : Retag(s, tags)
     \/ \E s \in Touched : Play(s)
=============================================================================
