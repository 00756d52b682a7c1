------------------------------ MODULE PruneViews ------------------------------
(***************************************************************************)
(* The views of the Prune page (src/core/prune.go): what is tagged for     *)
(* removal, what the user dislikes, what the model suspects, and what      *)
(* belongs to a broad studio that is hardly played.  A request reads its   *)
(* tables one after the other, without a transaction, while their rows     *)
(* change.  Appeal and confidence are in ten-thousandths.                  *)
(***************************************************************************)
EXTENDS Eligibility, Sequences, SequencesExt

CONSTANTS
  PruneTag,      \* the tag that is named prune_tag_name
  Appeal, Confidence,   \* model_scene_score of the published model, by scene
  StudioOf,      \* source_scene.studio_id, or NoStudio
  Aggressiveness,  \* in percent: what the user may ask for
  Alpha, DarkMaxLibrary, \* the constants of a dark pool (20 and 500 in the code)
  PrunePage      \* page_size

ASSUME PruneAssumption ==
  /\ Scene \subseteq Nat /\ IsFiniteSet(Scene)   \* ids are compared as numbers here
  /\ Appeal \in [Scene -> Int] /\ Confidence \in [Scene -> Int]
  /\ Aggressiveness \subseteq 0..100
  /\ {Alpha, DarkMaxLibrary} \subseteq Nat /\ PrunePage \in Nat \ {0}

VARIABLES
  imported,  \* scenes of source_play, and of sessions outside the direct player
  reading,   \* the request: the view, how far it is, and what it has read
  ever,      \* history: scenes that were candidates at a moment of the request
  decided    \* history: scenes that were tagged or kept during the request

pruneVars == <<factVars, imported, reading, ever, decided>>

NoStudio == "none"
View == {"candidates", "tagged", "explicit", "suspects", "breadth"}
NotReading ==
  [at |-> "idle", view |-> "tagged", limit |-> 0, tagged |-> {}, kept |-> {}, reviewed |-> {},
   explicit |-> {}, scored |-> {}, listed |-> <<>>]

InitPrune == imported = {} /\ reading = NotReading /\ ever = {} /\ decided = {}

-----------------------------------------------------------------------------
(* What the tables say now.                                                 *)
TaggedNow == {s \in Scene : PruneTag \in tagsOf[s]}
InState(state) == {row.scene : row \in {r \in prunings : r.state = state}}

(* The latest thumb or never_show of a scene is against it.                 *)
Disliked ==
  {s \in Scene : \E row \in LatestRows(RowsOf(s, {"thumb_up", "thumb_down", "never_show"})) :
                   row.type # "thumb_up"}

AppealLimit(aggressiveness) == 13 * aggressiveness - 1800
ConfidenceLimit(aggressiveness) == 5500 - 20 * aggressiveness
UnderLimits(aggressiveness) ==
  {s \in Scene : Appeal[s] <= AppealLimit(aggressiveness) /\ Confidence[s] >= ConfidenceLimit(aggressiveness)}

(* A dark pool: 1 - rate / baseRate is 0.55 or more, where the rate of a    *)
(* studio is drawn to that of the library.                                  *)
EverPlayed == {s \in Scene : Played(s)} \union imported   \* playedSceneIDs

ScenesOfStudio(x) == {s \in Scene : StudioOf[s] = x}
DarkPool(x) ==
  LET library == Cardinality(ScenesOfStudio(x))
      all     == Cardinality(Scene)
      played  == Cardinality(EverPlayed)
      own     == Cardinality(ScenesOfStudio(x) \intersect EverPlayed)
  IN /\ played > 0 /\ library > DarkMaxLibrary
     /\ 100 * (own * all + Alpha * played) <= 45 * played * (library + Alpha)

Broad == {s \in Scene : StudioOf[s] # NoStudio /\ DarkPool(StudioOf[s])}

Suspected(low, kept) == low \ kept

(* What the candidates view would list if it read everything at once.       *)
CandidatesNow(aggressiveness) ==
  (InState("review") \union Disliked
     \union Suspected(UnderLimits(aggressiveness), InState("keep")) \union (Broad \ InState("keep")))
  \ TaggedNow

-----------------------------------------------------------------------------
(* pruneCandidates, one query after the other.                              *)
Noted == ever' = ever \union CandidatesNow(reading.limit)
Reads(next) == reading' = next /\ Noted /\ UNCHANGED <<factVars, imported, decided>>

ReadTaggedScenes(view, aggressiveness) ==
  /\ reading.at = "idle"
  /\ reading' = [NotReading EXCEPT !.at = "states", !.view = view, !.limit = aggressiveness, !.tagged = TaggedNow]
  /\ ever' = CandidatesNow(aggressiveness) /\ decided' = {}
  /\ UNCHANGED <<factVars, imported>>

ReadStates ==
  /\ reading.at = "states"
  /\ Reads([reading EXCEPT !.at = "explicit", !.kept = InState("keep"), !.reviewed = InState("review")])

ReadExplicit ==
  /\ reading.at = "explicit"
  /\ Reads([reading EXCEPT !.at = "scores", !.explicit = reading.reviewed \union Disliked])

(* The scores under the limits, and those of the rows under review.         *)
ReadScores ==
  /\ reading.at = "scores"
  /\ Reads([reading EXCEPT !.at = "breadth",
       !.scored = IF reading.view = "tagged" THEN {} ELSE UnderLimits(reading.limit) \union InState("review")])

\* Mutant: the model suspects what was dismissed as well.
SuspectsOfScore == reading.scored \intersect UnderLimits(reading.limit)

SuspectsRead == Suspected(reading.scored \intersect UnderLimits(reading.limit), reading.kept)

Selected(breadth) ==
  CASE reading.view = "candidates" -> (reading.explicit \union SuspectsRead \union breadth) \ reading.tagged
    [] reading.view = "tagged"     -> reading.tagged
    [] reading.view = "explicit"   -> reading.explicit \ reading.tagged
    [] reading.view = "suspects"   -> SuspectsRead \ reading.tagged
    [] reading.view = "breadth"    -> breadth \ reading.tagged

(* Dislikes first, then the least appealing; what has no score counts as 0. *)
AppealRead(s) == IF s \in reading.scored THEN Appeal[s] ELSE 0
Precedes(s, t) ==
  \/ s \in reading.explicit /\ t \notin reading.explicit
  \/ /\ s \in reading.explicit <=> t \in reading.explicit
     /\ AppealRead(s) < AppealRead(t) \/ (AppealRead(s) = AppealRead(t) /\ s < t)

Place(s, scenes) == Cardinality({t \in scenes : Precedes(t, s)}) + 1
Listing(scenes) == [n \in 1..Cardinality(scenes) |-> CHOOSE s \in scenes : Place(s, scenes) = n]

ListCandidates ==
  /\ reading.at = "breadth"
  /\ Reads([reading EXCEPT !.at = "idle", !.listed = Listing(Selected(Broad \ reading.kept))])

PageOfList(page) == SubSeq(reading.listed, (page - 1) * PrunePage + 1, Min({page * PrunePage, Len(reading.listed)}))

(* recordPruneTags: the tag and the state in one transaction.               *)
TagForRemoval(s) ==
  /\ changes < MaxChanges /\ changes' = changes + 1
  /\ tagsOf' = [tagsOf EXCEPT ![s] = @ \union {PruneTag}]
  /\ prunings' = {row \in prunings : row.scene # s} \union {[scene |-> s, state |-> "remove", at |-> today]}
  /\ UNCHANGED <<today, files, live, excluded, blocks, plays, imported>>

(* A sync brings a play of Stash's. *)
ImportPlay(s) ==
  /\ changes < MaxChanges /\ changes' = changes + 1
  /\ imported' = imported \union {s}
  /\ UNCHANGED <<today, files, live, excluded, prunings, blocks, tagsOf, plays>>

RowsChange ==
  /\ \/ FactsChange /\ UNCHANGED imported
     \/ \E s \in Touched : TagForRemoval(s)
     \/ \E s \in Scene : ImportPlay(s)
  /\ UNCHANGED reading
  /\ IF reading.at = "idle" THEN UNCHANGED <<ever, decided>>
     ELSE /\ ever' = ever \union CandidatesNow(reading.limit)'
          /\ decided' = decided \union (TaggedNow' \ TaggedNow) \union (InState("keep")' \ InState("keep"))

NextPrune ==
  \/ \E view \in View, a \in Aggressiveness : ReadTaggedScenes(view, a)
  \/ ReadStates \/ ReadExplicit \/ ReadScores \/ ListCandidates
  \/ RowsChange

SpecPrune == InitFacts /\ InitPrune /\ [][NextPrune]_pruneVars

-----------------------------------------------------------------------------
(* Nothing is offered for removal that was not a candidate at some moment of *)
(* the request, however the rows change between its queries, unless the user *)
(* decided about it meanwhile; and the pages list it once.                  *)
PruneViewsAreHonest ==
  reading.at = "idle" =>
    /\ reading.view # "tagged" => Range(reading.listed) \subseteq ever \union decided
    /\ LET pages == 1..(Len(reading.listed) \div PrunePage + 1)
       IN  \A s \in Range(reading.listed) :
             Cardinality({page \in pages : s \in Range(PageOfList(page))}) = 1
=============================================================================
