------------------------ MODULE RecommendationProofs ------------------------
(***************************************************************************)
(* Proofs about the way from an artifact to a slate that is played, for    *)
(* any number of builds, scenes, ids, lanes, thresholds, tables and times: *)
(* the generations that are published are whole while retention removes    *)
(* others (Generations); the signals of plays and impressions add up       *)
(* however they are reported (PlaySessions); the scenes of a lane that may *)
(* be shown, and their cached count, follow all that is said of them       *)
(* (Slates); the lanes agree with one another (LanePolicy); the order of a *)
(* lane is the greedy one, though it is made with outdated entries in its  *)
(* queues (LaneOrders); the Prune page lists what was a candidate while it *)
(* was read (PruneViews); and a slate that is answered fits its client and *)
(* its lane, page by page (Slates) or place by place (GreedySlates).       *)
(***************************************************************************)
EXTENDS MCRecommendations, FiniteSetTheorems, SequenceTheorems, NaturalsInduction,
        WellFoundedInduction, TLAPS

\* Of any numbers one is the least.
LEMMA LeastOf ==
  ASSUME NEW S, S \subseteq Nat, S # {}
  PROVE  \E s \in S : \A r \in S : s <= r
<1>1. PICK s \in S : \A r \in S : <<r, s>> \notin OpToRel(<, Nat)
  BY NatLessThanWellFounded, WFMin
<1>2. \A r \in S : ~(r < s)
  BY <1>1 DEF OpToRel
<1> QED BY <1>2

-----------------------------------------------------------------------------
(* Generations: what is published is whole.                                 *)

Stages ==
  {"idle", "features", "write features", "register features", "activate features", "model",
   "write model", "register model", "prune models", "models", "features too"}

Openings ==
  [at : {"closed", "features", "then", "model", "open", "missing"},
   feature : Generation \union {NoGeneration}, model : Generation \union {NoGeneration},
   missed : 0..2]

\* No row is newer than the build that is counted last.
TypeOKGenerations ==
  /\ row \in [Generation -> {"none", "building", "published", "superseded", "failed"}]
  /\ named \subseteq Generation /\ file \subseteq Generation /\ doomed \subseteq Generation
  /\ since \in [Generation -> Nat] /\ builds \in Nat
  /\ \A g \in Generation : since[g] <= builds
  /\ build \in [at : Stages, of : Content \union {Nobody.of}, with : Evidence \union {Nobody.with}]
  /\ builds > 0 => build.of \in Content /\ build.with \in Evidence
  /\ build.at # "idle" => builds > 0
  /\ opening \in [Opener -> Openings]

Ran(g) == row[g] \in {"published", "superseded"}

\* One generation of a kind is published, with its file, and none is newer.
PublishedIsWhole ==
  \A g \in Generation : row[g] = "published" =>
    /\ g \in named /\ g \in file
    /\ \A h \in Generation : h.kind = g.kind =>
         /\ row[h] = "published" => h = g
         /\ Ran(h) => since[h] <= since[g]

\* What a builder has reached.
StagesInOrder ==
  /\ build.at \in {"write features", "register features"} => row[F] = "building"
  /\ build.at = "register features" => F \in file
  /\ build.at \in {"activate features", "model", "write model", "register model"} => row[F] = "published"
  /\ build.at \in {"write model", "register model"} => row[M] = "building"
  /\ build.at = "register model" => M \in file
  /\ sound /\ builds > 0 =>
       /\ build.at \in {"idle", "prune models", "models", "features too"}
       /\ row[F] = "published" /\ row[M] = "published"

\* Retention removes models, then features no model needs, and nothing published.
DoomedAreRetired ==
  /\ doomed # {} => build.at \in {"models", "features too"}
  /\ \A g \in doomed :
       /\ row[g] # "published"
       /\ build.at = "models" => g.kind = "model"
       /\ build.at = "features too" =>
            g.kind = "feature" /\ \A e \in Evidence : Model(g.of, e) \notin named

\* The features an opener has looked up are there while a model needs them.
Needed(g) == (g \in file /\ g \in named) \/ \A e \in Evidence : Model(g.of, e) \notin named

FeaturesStay(o) ==
  LET g == opening[o].feature IN
  opening[o].at = "features" /\ g # NoGeneration =>
    /\ g.kind = "feature"
    /\ opening[o].missed = 0 => row[g] = "published"
    /\ opening[o].missed < 2 => Needed(g)

Newer(x, g) == x.kind = "model" /\ Ran(x) /\ since[x] > since[g]

\* The model an opener has looked up has been followed by at most one other.
ModelStays(o) ==
  LET g == opening[o].model IN
  opening[o].at = "model" /\ g # NoGeneration =>
    /\ g.kind = "model"
    /\ opening[o].missed = 0 => row[g] = "published"
    /\ opening[o].missed < 2 =>
         /\ g \in file /\ g \in named /\ g \notin doomed
         /\ row[g] \in {"published", "superseded", "building"}
         /\ build.at = "prune models" => row[g] # "building"
         /\ \A x, y \in Generation : Newer(x, g) /\ Newer(y, g) => x = y

ReadersFind == \A o \in Opener : FeaturesStay(o) /\ ModelStays(o)

GenerationsInv ==
  /\ TypeOKGenerations
  /\ PublishedIsWhole
  /\ StagesInOrder
  /\ DoomedAreRetired
  /\ ReadersFind

-----------------------------------------------------------------------------
(* Generations as records.                                                  *)

LEMMA GenerationKinds ==
  /\ NoGeneration \notin Generation
  /\ \A g \in Generation : g.kind \in {"feature", "model"} /\ g.of \in Content
  /\ \A g \in Generation : g.kind = "feature" => g = Features(g.of)
  /\ \A c \in Content : Features(c) \in Generation /\ Features(c).kind = "feature" /\ Features(c).of = c
  /\ \A c \in Content, e \in Evidence :
       Model(c, e) \in Generation /\ Model(c, e).kind = "model" /\ Model(c, e).of = c
  /\ \A k : OfKind(k) = {g \in Generation : g.kind = k}
  BY DEF NoGeneration, Generation, Features, Model, OfKind

LEMMA UnderWay ==
  ASSUME TypeOKGenerations, builds > 0
  PROVE  /\ F \in Generation /\ F.kind = "feature" /\ F.of = build.of
         /\ M \in Generation /\ M.kind = "model" /\ M.of = build.of
  BY GenerationKinds DEF TypeOKGenerations, F, M

\* What the builder builds does not change with its stage.
LEMMA StageChanges ==
  ASSUME TypeOKGenerations, NEW s \in Stages, BuildAt(s)
  PROVE  /\ build'.at = s /\ build'.of = build.of /\ build'.with = build.with
         /\ build' \in [at : Stages, of : Content \union {Nobody.of}, with : Evidence \union {Nobody.with}]
         /\ F' = F /\ M' = M
  BY DEF TypeOKGenerations, BuildAt, F, M

LEMMA SameBuild == ASSUME UNCHANGED build PROVE F' = F /\ M' = M
  BY DEF F, M

LEMMA MissedIs ==
  ASSUME TypeOKGenerations, NEW g \in Generation, Missed(g)
  PROVE  /\ opening' \in [Opener -> Openings]
         /\ \A o \in Opener :
              /\ opening'[o].at = opening[o].at
              /\ opening'[o].feature = opening[o].feature /\ opening'[o].model = opening[o].model
              /\ opening[o].missed <= opening'[o].missed
              /\ opening[o].at = "features" /\ g.kind = "feature" /\ opening[o].missed < 2 =>
                   opening'[o].missed = opening[o].missed + 1
              /\ opening[o].at = "model" /\ g.kind = "model" /\ opening[o].missed < 2 =>
                   opening'[o].missed = opening[o].missed + 1
<1> DEFINE New(o) == IF opening[o].at \in {"features", "model"} /\ (opening[o].at = "model") = (g.kind = "model")
                     THEN [opening[o] EXCEPT !.missed = IF @ = 2 THEN 2 ELSE @ + 1] ELSE opening[o]
<1>1. opening' = [o \in Opener |-> New(o)]
  BY DEF Missed
<1>2. ASSUME NEW o \in Opener
      PROVE  /\ opening'[o] \in Openings
             /\ opening'[o].at = opening[o].at
             /\ opening'[o].feature = opening[o].feature /\ opening'[o].model = opening[o].model
             /\ opening[o].missed <= opening'[o].missed
             /\ opening[o].at = "features" /\ g.kind = "feature" /\ opening[o].missed < 2 =>
                  opening'[o].missed = opening[o].missed + 1
             /\ opening[o].at = "model" /\ g.kind = "model" /\ opening[o].missed < 2 =>
                  opening'[o].missed = opening[o].missed + 1
  <2>1. opening[o] \in Openings /\ opening'[o] = New(o)
    BY <1>1 DEF TypeOKGenerations
  <2>2. CASE opening[o].at \in {"features", "model"} /\ (opening[o].at = "model") = (g.kind = "model")
    BY <2>1, <2>2 DEF Openings
  <2>3. CASE ~(opening[o].at \in {"features", "model"} /\ (opening[o].at = "model") = (g.kind = "model"))
    BY <2>1, <2>3, GenerationKinds DEF Openings
  <2> QED BY <2>2, <2>3
<1> HIDE DEF New
<1> QED BY <1>1, <1>2

\* What an opener that has not missed two generations reads.
LEMMA FeatureReader ==
  ASSUME GenerationsInv, NEW o \in Opener, NEW g, g = opening[o].feature,
         opening[o].at = "features", g # NoGeneration
  PROVE  /\ g \in Generation /\ g.kind = "feature"
         /\ opening[o].missed = 0 => row[g] = "published" /\ g \in file /\ g \in named
         /\ opening[o].missed < 2 => Needed(g)
<1>1. g \in Generation
  BY DEF GenerationsInv, TypeOKGenerations, Openings
<1>2. /\ g.kind = "feature"
      /\ opening[o].missed = 0 => row[g] = "published"
      /\ opening[o].missed < 2 => Needed(g)
  BY DEF GenerationsInv, ReadersFind, FeaturesStay
<1> QED BY <1>1, <1>2 DEF GenerationsInv, PublishedIsWhole

LEMMA ModelReader ==
  ASSUME GenerationsInv, NEW o \in Opener, NEW g, g = opening[o].model,
         opening[o].at = "model", g # NoGeneration
  PROVE  /\ g \in Generation /\ g.kind = "model"
         /\ opening[o].missed = 0 => row[g] = "published"
         /\ opening[o].missed < 2 =>
              /\ g \in file /\ g \in named /\ g \notin doomed
              /\ row[g] \in {"published", "superseded", "building"}
              /\ build.at = "prune models" => row[g] # "building"
              /\ \A x, y \in Generation : Newer(x, g) /\ Newer(y, g) => x = y
<1>1. g \in Generation
  BY DEF GenerationsInv, TypeOKGenerations, Openings
<1>2. ModelStays(o)
  BY DEF GenerationsInv, ReadersFind
<1> QED BY <1>1, <1>2 DEF ModelStays

-----------------------------------------------------------------------------
(* Each action keeps the invariant.                                         *)

LEMMA GenerationsInit == InitGenerations => GenerationsInv
<1> SUFFICES ASSUME InitGenerations PROVE GenerationsInv
  OBVIOUS
<1>1. build.at = "idle" /\ build \in [at : Stages, of : {Nobody.of}, with : {Nobody.with}]
  BY DEF InitGenerations, Nobody, Stages
<1>2. Closed \in Openings /\ Closed.at = "closed"
  BY DEF Closed, Openings
<1> QED BY <1>1, <1>2 DEF InitGenerations, GenerationsInv, TypeOKGenerations, PublishedIsWhole,
           StagesInOrder, DoomedAreRetired, ReadersFind, FeaturesStay, ModelStays, Ran

LEMMA BeginGenerationKeeps ==
  ASSUME GenerationsInv, NEW c \in Content, NEW e \in Evidence, BeginGeneration(c, e)
  PROVE  GenerationsInv'
<1>1. /\ build'.at = "features" /\ build'.of = c /\ build'.with = e
      /\ build' \in [at : Stages, of : Content \union {Nobody.of}, with : Evidence \union {Nobody.with}]
  BY DEF BeginGeneration, Stages
<1>2. TypeOKGenerations'
  BY <1>1 DEF BeginGeneration, GenerationsInv, TypeOKGenerations
<1>3. doomed = {}
  BY DEF BeginGeneration, GenerationsInv, DoomedAreRetired
<1>4. (PublishedIsWhole /\ StagesInOrder /\ DoomedAreRetired)'
  BY <1>1, <1>3 DEF BeginGeneration, GenerationsInv, PublishedIsWhole, StagesInOrder, DoomedAreRetired, Ran
<1>5. ReadersFind'
  BY <1>1 DEF BeginGeneration, GenerationsInv, ReadersFind, FeaturesStay, ModelStays, Needed, Newer, Ran
<1> QED BY <1>2, <1>4, <1>5 DEF GenerationsInv

\* A generation that is published is reused; nobody who reads loses one.
LEMMA LookUpFeaturesKeeps ==
  ASSUME GenerationsInv, LookUpFeatures
  PROVE  GenerationsInv'
<1>1. build.at = "features" /\ builds > 0 /\ ~sound /\ doomed = {}
  BY DEF LookUpFeatures, LooksUp, GenerationsInv, TypeOKGenerations, StagesInOrder, DoomedAreRetired
<1>2. F \in Generation /\ F.kind = "feature"
  BY <1>1, UnderWay DEF GenerationsInv
<1>3. CASE Reusable(F)
  <2>1. /\ build'.at = "model" /\ build'.of = build.of /\ build'.with = build.with
        /\ build' \in [at : Stages, of : Content \union {Nobody.of}, with : Evidence \union {Nobody.with}]
        /\ F' = F /\ M' = M /\ UNCHANGED <<row, since>>
    BY <1>3, StageChanges DEF LookUpFeatures, LooksUp, GenerationsInv, Stages
  <2>2. TypeOKGenerations'
    BY <1>1, <2>1 DEF LookUpFeatures, GenerationsInv, TypeOKGenerations
  <2>3. (PublishedIsWhole /\ StagesInOrder /\ DoomedAreRetired)'
    BY <1>1, <1>3, <2>1 DEF LookUpFeatures, GenerationsInv, PublishedIsWhole, StagesInOrder, DoomedAreRetired, Ran, Reusable
  <2>4. ReadersFind'
    BY <2>1, ZenonT(60)
    DEF LookUpFeatures, GenerationsInv, ReadersFind, FeaturesStay, ModelStays, Needed, Newer, Ran
  <2> QED BY <2>2, <2>3, <2>4 DEF GenerationsInv
<1>4. CASE ~Reusable(F)
  <2>1. /\ build'.at = "write features" /\ build'.of = build.of /\ build'.with = build.with
        /\ build' \in [at : Stages, of : Content \union {Nobody.of}, with : Evidence \union {Nobody.with}]
        /\ F' = F /\ M' = M
    BY <1>4, StageChanges DEF LookUpFeatures, LooksUp, GenerationsInv, Stages
  <2>2. /\ row' = [row EXCEPT ![F] = "building"]
        /\ since' = [since EXCEPT ![F] = IF row[F] = "none" THEN builds ELSE @]
    BY <1>4 DEF LookUpFeatures, LooksUp
  <2>3. row[F] # "published"
    BY <1>2, <1>4 DEF GenerationsInv, PublishedIsWhole, Reusable
  <2>4. row' \in [Generation -> {"none", "building", "published", "superseded", "failed"}]
    BY <2>2 DEF GenerationsInv, TypeOKGenerations
  <2>5. /\ since' \in [Generation -> Nat]
        /\ \A g \in Generation : since'[g] <= builds
    BY <1>2, <2>2 DEF GenerationsInv, TypeOKGenerations
  <2>6. TypeOKGenerations'
    <3>1. UNCHANGED <<named, file, doomed, builds, sound, opening>>
      BY DEF LookUpFeatures
    <3> QED BY <1>1, <2>1, <2>4, <2>5, <3>1 DEF GenerationsInv, TypeOKGenerations
  <2>7. /\ row'[F] = "building"
        /\ row[F] # "none" => since'[F] = since[F]
        /\ \A g \in Generation : g # F => row'[g] = row[g] /\ since'[g] = since[g]
    BY <1>2, <2>2 DEF GenerationsInv, TypeOKGenerations
  <2>8. (PublishedIsWhole /\ StagesInOrder /\ DoomedAreRetired)'
    BY <1>1, <1>2, <2>1, <2>3, <2>7, ZenonT(60)
    DEF LookUpFeatures, GenerationsInv, PublishedIsWhole, StagesInOrder, DoomedAreRetired, Ran
  <2>9. ReadersFind'
    <3> SUFFICES ASSUME NEW o \in Opener PROVE (FeaturesStay(o) /\ ModelStays(o))'
      BY DEF ReadersFind
    <3>1. FeaturesStay(o)'
      BY <1>2, <2>3, <2>7 DEF LookUpFeatures, GenerationsInv, TypeOKGenerations, Openings, ReadersFind, FeaturesStay, Needed
    <3>2. \A x, g \in Generation : Newer(x, g)' /\ g.kind = "model" => Newer(x, g)
      BY <1>2, <2>7 DEF Newer, Ran
    <3>3. ModelStays(o)'
      BY <1>2, <2>1, <2>3, <2>7, <3>2, ZenonT(60)
      DEF LookUpFeatures, GenerationsInv, TypeOKGenerations, Openings, ReadersFind, ModelStays
    <3> QED BY <3>1, <3>3
  <2> QED BY <2>6, <2>8, <2>9 DEF GenerationsInv
<1> QED BY <1>3, <1>4

LEMMA LookUpModelKeeps ==
  ASSUME GenerationsInv, LookUpModel
  PROVE  GenerationsInv'
<1>1. build.at = "model" /\ builds > 0 /\ doomed = {} /\ row[F] = "published"
  BY DEF LookUpModel, LooksUp, GenerationsInv, TypeOKGenerations, StagesInOrder, DoomedAreRetired
<1>2. /\ F \in Generation /\ F.kind = "feature"
      /\ M \in Generation /\ M.kind = "model"
  BY <1>1, UnderWay DEF GenerationsInv
<1>3. CASE Reusable(M)
  <2>1. /\ build'.at = "idle" /\ build'.of = build.of /\ build'.with = build.with
        /\ build' \in [at : Stages, of : Content \union {Nobody.of}, with : Evidence \union {Nobody.with}]
        /\ F' = F /\ M' = M /\ UNCHANGED <<row, since>>
    BY <1>3, StageChanges DEF LookUpModel, LooksUp, GenerationsInv, Stages
  <2>2. TypeOKGenerations'
    BY <1>1, <2>1 DEF LookUpModel, GenerationsInv, TypeOKGenerations
  <2>3. (PublishedIsWhole /\ StagesInOrder /\ DoomedAreRetired)'
    BY <1>1, <1>3, <2>1 DEF LookUpModel, GenerationsInv, PublishedIsWhole, StagesInOrder, DoomedAreRetired, Ran, Reusable
  <2>4. ReadersFind'
    BY <2>1, ZenonT(60)
    DEF LookUpModel, GenerationsInv, ReadersFind, FeaturesStay, ModelStays, Needed, Newer, Ran
  <2> QED BY <2>2, <2>3, <2>4 DEF GenerationsInv
<1>4. CASE ~Reusable(M)
  <2>1. /\ build'.at = "write model" /\ build'.of = build.of /\ build'.with = build.with
        /\ build' \in [at : Stages, of : Content \union {Nobody.of}, with : Evidence \union {Nobody.with}]
        /\ F' = F /\ M' = M
    BY <1>4, StageChanges DEF LookUpModel, LooksUp, GenerationsInv, Stages
  <2>2. /\ row' = [row EXCEPT ![M] = "building"]
        /\ since' = [since EXCEPT ![M] = IF row[M] = "none" THEN builds ELSE @]
        /\ ~sound'
    BY <1>4 DEF LookUpModel, LooksUp
  <2>3. row[M] # "published"
    BY <1>2, <1>4 DEF GenerationsInv, PublishedIsWhole, Reusable
  <2>4. row' \in [Generation -> {"none", "building", "published", "superseded", "failed"}]
    BY <2>2 DEF GenerationsInv, TypeOKGenerations
  <2>5. /\ since' \in [Generation -> Nat]
        /\ \A g \in Generation : since'[g] <= builds
    BY <1>2, <2>2 DEF GenerationsInv, TypeOKGenerations
  <2>6. TypeOKGenerations'
    <3>1. UNCHANGED <<named, file, doomed, builds, opening>>
      BY DEF LookUpModel
    <3> QED BY <1>1, <2>1, <2>4, <2>5, <3>1 DEF GenerationsInv, TypeOKGenerations
  <2>7. /\ row'[M] = "building"
        /\ row[M] # "none" => since'[M] = since[M]
        /\ \A g \in Generation : g # M => row'[g] = row[g] /\ since'[g] = since[g]
    BY <1>2, <2>2 DEF GenerationsInv, TypeOKGenerations
  <2>8. /\ PublishedIsWhole' /\ DoomedAreRetired'
        /\ StagesInOrder'
    <3>1. PublishedIsWhole'
      BY <2>3, <2>7 DEF LookUpModel, GenerationsInv, PublishedIsWhole, Ran
    <3>2. StagesInOrder'
      BY <1>1, <1>2, <2>1, <2>2, <2>7 DEF StagesInOrder
    <3>3. DoomedAreRetired'
      BY <1>1, <2>1 DEF LookUpModel, DoomedAreRetired
    <3> QED BY <3>1, <3>2, <3>3
  <2>9. ReadersFind'
    <3> SUFFICES ASSUME NEW o \in Opener PROVE (FeaturesStay(o) /\ ModelStays(o))'
      BY DEF ReadersFind
    <3>1. FeaturesStay(o)'
      BY <1>2, <2>3, <2>7 DEF LookUpModel, GenerationsInv, TypeOKGenerations, Openings, ReadersFind, FeaturesStay, Needed
    <3>2. \A x, g \in Generation : Newer(x, g)' /\ row[g] # "none" => Newer(x, g)
      BY <1>2, <2>7 DEF Newer, Ran
    <3>3. ModelStays(o)'
      BY <1>2, <2>1, <2>3, <2>7, <3>2, ZenonT(60)
      DEF LookUpModel, GenerationsInv, TypeOKGenerations, Openings, ReadersFind, ModelStays
    <3> QED BY <3>1, <3>3
  <2> QED BY <2>6, <2>8, <2>9 DEF GenerationsInv
<1> QED BY <1>3, <1>4

LEMMA WriteFeaturesKeeps ==
  ASSUME GenerationsInv, WriteFeatures
  PROVE  GenerationsInv'
<1>1. build.at = "write features" /\ builds > 0 /\ ~sound /\ row[F] = "building" /\ doomed = {}
  BY DEF WriteFeatures, PublishArtifactFile, GenerationsInv, TypeOKGenerations, StagesInOrder, DoomedAreRetired
<1>2. F \in Generation /\ F.kind = "feature"
  BY <1>1, UnderWay DEF GenerationsInv
<1>3. /\ build'.at = "register features" /\ build'.of = build.of /\ build'.with = build.with
      /\ build' \in [at : Stages, of : Content \union {Nobody.of}, with : Evidence \union {Nobody.with}]
      /\ F' = F /\ M' = M
  BY StageChanges DEF WriteFeatures, PublishArtifactFile, GenerationsInv, Stages
<1>4. file' = file \union {F} /\ UNCHANGED <<row, named, since, doomed, builds, sound, opening>>
  BY DEF WriteFeatures, PublishArtifactFile
<1>5. TypeOKGenerations'
  BY <1>1, <1>2, <1>3, <1>4 DEF GenerationsInv, TypeOKGenerations
<1>6. (PublishedIsWhole /\ StagesInOrder /\ DoomedAreRetired)'
  BY <1>1, <1>3, <1>4 DEF GenerationsInv, PublishedIsWhole, StagesInOrder, DoomedAreRetired, Ran
<1>7. ReadersFind'
  BY <1>3, <1>4, ZenonT(60) DEF GenerationsInv, ReadersFind, FeaturesStay, ModelStays, Needed, Newer, Ran
<1> QED BY <1>5, <1>6, <1>7 DEF GenerationsInv

LEMMA WriteModelKeeps ==
  ASSUME GenerationsInv, WriteModel
  PROVE  GenerationsInv'
<1>1. /\ build.at = "write model" /\ builds > 0 /\ ~sound /\ doomed = {}
      /\ row[F] = "published" /\ row[M] = "building"
  BY DEF WriteModel, PublishArtifactFile, GenerationsInv, TypeOKGenerations, StagesInOrder, DoomedAreRetired
<1>2. M \in Generation /\ M.kind = "model"
  BY <1>1, UnderWay DEF GenerationsInv
<1>3. /\ build'.at = "register model" /\ build'.of = build.of /\ build'.with = build.with
      /\ build' \in [at : Stages, of : Content \union {Nobody.of}, with : Evidence \union {Nobody.with}]
      /\ F' = F /\ M' = M
  BY StageChanges DEF WriteModel, PublishArtifactFile, GenerationsInv, Stages
<1>4. file' = file \union {M} /\ UNCHANGED <<row, named, since, doomed, builds, sound, opening>>
  BY DEF WriteModel, PublishArtifactFile
<1>5. TypeOKGenerations'
  BY <1>1, <1>2, <1>3, <1>4 DEF GenerationsInv, TypeOKGenerations
<1>6. (PublishedIsWhole /\ StagesInOrder /\ DoomedAreRetired)'
  BY <1>1, <1>3, <1>4 DEF GenerationsInv, PublishedIsWhole, StagesInOrder, DoomedAreRetired, Ran
<1>7. ReadersFind'
  BY <1>3, <1>4, ZenonT(60) DEF GenerationsInv, ReadersFind, FeaturesStay, ModelStays, Needed, Newer, Ran
<1> QED BY <1>5, <1>6, <1>7 DEF GenerationsInv

\* What the registered generation supersedes was the newest of its kind.
LEMMA RegisterRows ==
  ASSUME TypeOKGenerations, NEW g \in Generation, row[g] = "building", builds > 0,
         NEW s \in Stages, NEW t \in Stages, Register(g, s, t)
  PROVE  /\ row' \in [Generation -> {"none", "building", "published", "superseded", "failed"}]
         /\ since' \in [Generation -> Nat] /\ \A h \in Generation : since'[h] <= builds
         /\ row'[g] = "published" /\ since'[g] = builds
         /\ \A h \in Generation : h # g =>
              /\ since'[h] = since[h]
              /\ row'[h] = IF h.kind = g.kind /\ row[h] = "published" THEN "superseded" ELSE row[h]
<1>1. /\ row' = [h \in Generation |->
            IF h = g THEN "published"
            ELSE IF h.kind = g.kind /\ row[h] = "published" THEN "superseded" ELSE row[h]]
      /\ since' = [since EXCEPT ![g] = builds]
  BY DEF Register, Registered
<1>2. row' \in [Generation -> {"none", "building", "published", "superseded", "failed"}]
  BY <1>1 DEF TypeOKGenerations
<1>3. since' \in [Generation -> Nat] /\ \A h \in Generation : since'[h] <= builds
  BY <1>1 DEF TypeOKGenerations
<1> QED BY <1>1, <1>2, <1>3 DEF TypeOKGenerations

LEMMA RegisterFeaturesKeeps ==
  ASSUME GenerationsInv, RegisterFeatures
  PROVE  GenerationsInv'
<1>1. /\ build.at = "register features" /\ builds > 0 /\ ~sound /\ doomed = {}
      /\ row[F] = "building" /\ F \in file
  BY DEF RegisterFeatures, Register, GenerationsInv, TypeOKGenerations, StagesInOrder, DoomedAreRetired
<1>2. F \in Generation /\ F.kind = "feature"
  BY <1>1, UnderWay DEF GenerationsInv
<1>3. /\ build'.at = "activate features" /\ build'.of = build.of /\ build'.with = build.with
      /\ build' \in [at : Stages, of : Content \union {Nobody.of}, with : Evidence \union {Nobody.with}]
      /\ F' = F /\ M' = M
  BY StageChanges DEF RegisterFeatures, Register, GenerationsInv, Stages
<1>4. named' = named \union {F} /\ UNCHANGED <<file, doomed, builds, sound>>
  BY DEF RegisterFeatures, Register
<1>5. /\ row' \in [Generation -> {"none", "building", "published", "superseded", "failed"}]
      /\ since' \in [Generation -> Nat] /\ \A h \in Generation : since'[h] <= builds
      /\ row'[F] = "published" /\ since'[F] = builds
      /\ \A h \in Generation : h # F =>
           /\ since'[h] = since[h]
           /\ row'[h] = IF h.kind = F.kind /\ row[h] = "published" THEN "superseded" ELSE row[h]
  <2>1. "register features" \in Stages /\ "activate features" \in Stages
    BY DEF Stages
  <2>2. TypeOKGenerations /\ Register(F, "register features", "activate features")
    BY DEF RegisterFeatures, GenerationsInv
  <2> HIDE DEF F
  <2> QED BY <1>1, <1>2, <2>1, <2>2, RegisterRows
<1>6. Missed(F)
  BY DEF RegisterFeatures, Register
<1>7. TypeOKGenerations'
  <2>1. opening' \in [Opener -> Openings]
    BY <1>2, <1>6, MissedIs DEF GenerationsInv
  <2> QED BY <1>1, <1>2, <1>3, <1>4, <1>5, <2>1 DEF GenerationsInv, TypeOKGenerations
<1>8. PublishedIsWhole'
  BY <1>1, <1>2, <1>4, <1>5, ZenonT(60) DEF GenerationsInv, TypeOKGenerations, PublishedIsWhole, Ran
<1>9. (StagesInOrder /\ DoomedAreRetired)'
  BY <1>1, <1>3, <1>4, <1>5 DEF StagesInOrder, DoomedAreRetired
<1>10. ReadersFind'
  <2> SUFFICES ASSUME NEW o \in Opener PROVE (FeaturesStay(o) /\ ModelStays(o))'
    BY DEF ReadersFind
  <2>1. /\ opening[o] \in Openings
        /\ opening'[o].at = opening[o].at
        /\ opening'[o].feature = opening[o].feature /\ opening'[o].model = opening[o].model
        /\ opening[o].missed <= opening'[o].missed
        /\ opening[o].at = "features" /\ opening[o].missed < 2 => opening'[o].missed = opening[o].missed + 1
    BY <1>2, <1>6, MissedIs DEF GenerationsInv, TypeOKGenerations
  <2>2. opening[o].missed \in 0..2 /\ opening'[o].missed \in 0..2
    BY <1>7, <2>1 DEF TypeOKGenerations, Openings
  <2>3. FeaturesStay(o)'
    <3> SUFFICES ASSUME opening[o].at = "features", opening[o].feature # NoGeneration,
                        NEW g, g = opening[o].feature
                 PROVE  /\ g.kind = "feature"
                        /\ opening'[o].missed = 0 => row'[g] = "published"
                        /\ opening'[o].missed < 2 => Needed(g)'
      BY <2>1 DEF FeaturesStay
    <3>1. /\ g.kind = "feature"
          /\ opening[o].missed = 0 => g \in file /\ g \in named
      BY FeatureReader
    <3> QED BY <1>4, <2>1, <2>2, <3>1 DEF Needed
  <2>4. \A x, g \in Generation : Newer(x, g)' /\ g.kind = "model" => Newer(x, g)
    BY <1>2, <1>5 DEF Newer, Ran
  <2>5. ModelStays(o)'
    <3> SUFFICES ASSUME opening[o].at = "model", opening[o].model # NoGeneration,
                        NEW g, g = opening[o].model
                 PROVE  /\ g.kind = "model"
                        /\ opening'[o].missed = 0 => row'[g] = "published"
                        /\ opening'[o].missed < 2 =>
                             /\ g \in file' /\ g \in named' /\ g \notin doomed'
                             /\ row'[g] \in {"published", "superseded", "building"}
                             /\ build'.at = "prune models" => row'[g] # "building"
                             /\ \A x, y \in Generation : Newer(x, g)' /\ Newer(y, g)' => x = y
      BY <2>1 DEF ModelStays
    <3>1. /\ g \in Generation /\ g.kind = "model"
          /\ opening[o].missed = 0 => row[g] = "published"
          /\ opening[o].missed < 2 =>
               /\ g \in file /\ g \in named /\ g \notin doomed
               /\ row[g] \in {"published", "superseded", "building"}
               /\ \A x, y \in Generation : Newer(x, g) /\ Newer(y, g) => x = y
      BY ModelReader
    <3>2. row'[g] = row[g]
      BY <1>2, <1>5, <3>1
    <3>3. (opening'[o].missed = 0 => opening[o].missed = 0) /\ (opening'[o].missed < 2 => opening[o].missed < 2)
      BY <2>1, <2>2
    <3>4. \A x : Newer(x, g)' /\ x \in Generation => Newer(x, g)
      BY <2>4, <3>1
    <3> QED BY <1>3, <1>4, <3>1, <3>2, <3>3, <3>4
  <2> QED BY <2>3, <2>5
<1> QED BY <1>7, <1>8, <1>9, <1>10 DEF GenerationsInv

LEMMA RegisterModelKeeps ==
  ASSUME GenerationsInv, RegisterModel
  PROVE  GenerationsInv'
<1>1. /\ build.at = "register model" /\ builds > 0 /\ ~sound /\ doomed = {}
      /\ row[F] = "published" /\ row[M] = "building" /\ M \in file
  BY DEF RegisterModel, Register, GenerationsInv, TypeOKGenerations, StagesInOrder, DoomedAreRetired
<1>2. /\ F \in Generation /\ F.kind = "feature"
      /\ M \in Generation /\ M.kind = "model" /\ M.of = build.of /\ F = Features(build.of)
  BY <1>1, UnderWay DEF GenerationsInv, F
<1>3. /\ build'.at = "prune models" /\ build'.of = build.of /\ build'.with = build.with
      /\ build' \in [at : Stages, of : Content \union {Nobody.of}, with : Evidence \union {Nobody.with}]
      /\ F' = F /\ M' = M
  BY StageChanges DEF RegisterModel, Register, GenerationsInv, Stages
<1>4. named' = named \union {M} /\ UNCHANGED <<file, doomed, builds>>
  BY DEF RegisterModel, Register
<1>5. /\ row' \in [Generation -> {"none", "building", "published", "superseded", "failed"}]
      /\ since' \in [Generation -> Nat] /\ \A h \in Generation : since'[h] <= builds
      /\ row'[M] = "published" /\ since'[M] = builds
      /\ \A h \in Generation : h # M =>
           /\ since'[h] = since[h]
           /\ row'[h] = IF h.kind = M.kind /\ row[h] = "published" THEN "superseded" ELSE row[h]
  <2>1. "register model" \in Stages /\ "prune models" \in Stages
    BY DEF Stages
  <2>2. TypeOKGenerations /\ Register(M, "register model", "prune models")
    BY DEF RegisterModel, GenerationsInv
  <2> HIDE DEF M
  <2> QED BY <1>1, <1>2, <2>1, <2>2, RegisterRows
<1>6. Missed(M)
  BY DEF RegisterModel, Register
<1>7. TypeOKGenerations'
  <2>1. opening' \in [Opener -> Openings]
    BY <1>2, <1>6, MissedIs DEF GenerationsInv
  <2> QED BY <1>1, <1>2, <1>3, <1>4, <1>5, <2>1 DEF GenerationsInv, TypeOKGenerations
<1>8. PublishedIsWhole'
  <2>1. ASSUME NEW g \in Generation, row'[g] = "published"
        PROVE  g \in named' /\ g \in file'
    BY <1>1, <1>2, <1>4, <1>5, <2>1 DEF GenerationsInv, PublishedIsWhole
  <2>2. ASSUME NEW g \in Generation, NEW h \in Generation, row'[g] = "published", h.kind = g.kind
        PROVE  /\ row'[h] = "published" => h = g
               /\ Ran(h)' => since'[h] <= since'[g]
    <3>1. CASE g = M
      BY <1>2, <1>5, <2>2, <3>1
    <3>2. CASE g # M
      <4>1. g.kind # M.kind /\ h # M /\ row[g] = "published"
        BY <1>2, <1>5, <2>2, <3>2
      <4>2. row'[h] = row[h] /\ since'[h] = since[h] /\ since'[g] = since[g]
        BY <1>5, <2>2, <3>2, <4>1
      <4> QED BY <2>2, <4>1, <4>2 DEF GenerationsInv, PublishedIsWhole, Ran
    <3> QED BY <3>1, <3>2
  <2> QED BY <2>1, <2>2 DEF PublishedIsWhole
<1>9. (StagesInOrder /\ DoomedAreRetired)'
  BY <1>1, <1>2, <1>3, <1>4, <1>5 DEF StagesInOrder, DoomedAreRetired
<1>10. ReadersFind'
  <2> SUFFICES ASSUME NEW o \in Opener PROVE (FeaturesStay(o) /\ ModelStays(o))'
    BY DEF ReadersFind
  <2>1. /\ opening[o] \in Openings
        /\ opening'[o].at = opening[o].at
        /\ opening'[o].feature = opening[o].feature /\ opening'[o].model = opening[o].model
        /\ opening[o].missed <= opening'[o].missed
        /\ opening[o].at = "model" /\ opening[o].missed < 2 => opening'[o].missed = opening[o].missed + 1
    BY <1>2, <1>6, MissedIs DEF GenerationsInv, TypeOKGenerations
  <2>2. opening[o].missed \in 0..2 /\ opening'[o].missed \in 0..2
    BY <1>7, <2>1 DEF TypeOKGenerations, Openings
  <2>3. \A g \in Generation : g.kind = "feature" /\ Needed(g) => Needed(g)'
    <3> SUFFICES ASSUME NEW g \in Generation, g.kind = "feature", Needed(g) PROVE Needed(g)'
      OBVIOUS
    <3>1. CASE g \in file /\ g \in named
      BY <1>4, <3>1 DEF Needed
    <3>2. CASE \E e \in Evidence : Model(g.of, e) = M
      <4>1. g = F
        BY <1>2, <3>2, GenerationKinds
      <4> QED BY <1>1, <1>2, <1>4, <4>1 DEF GenerationsInv, PublishedIsWhole, Needed
    <3>3. CASE (\A e \in Evidence : Model(g.of, e) # M) /\ \A e \in Evidence : Model(g.of, e) \notin named
      BY <1>4, <3>3 DEF Needed
    <3> QED BY <3>1, <3>2, <3>3 DEF Needed
  <2>4. FeaturesStay(o)'
    <3> SUFFICES ASSUME opening[o].at = "features", opening[o].feature # NoGeneration,
                        NEW g, g = opening[o].feature
                 PROVE  /\ g.kind = "feature"
                        /\ opening'[o].missed = 0 => row'[g] = "published"
                        /\ opening'[o].missed < 2 => Needed(g)'
      BY <2>1 DEF FeaturesStay
    <3>1. /\ g \in Generation /\ g.kind = "feature"
          /\ opening[o].missed = 0 => row[g] = "published"
          /\ opening[o].missed < 2 => Needed(g)
      BY FeatureReader
    <3>2. row'[g] = row[g]
      BY <1>2, <1>5, <3>1
    <3> QED BY <2>1, <2>2, <2>3, <3>1, <3>2
  <2>5. \A x, g \in Generation : row[g] = "published" /\ g.kind = "model" /\ Newer(x, g)' => x = M
    <3> SUFFICES ASSUME NEW x \in Generation, NEW g \in Generation, x # M,
                        row[g] = "published", g.kind = "model", Newer(x, g)'
                 PROVE  FALSE
      OBVIOUS
    <3>1. x.kind = "model" /\ Ran(x) /\ g # M /\ since'[x] > since'[g] /\ since'[x] = since[x] /\ since'[g] = since[g]
      BY <1>1, <1>5 DEF Newer, Ran
    <3>2. since[x] <= since[g] /\ since[x] \in Nat /\ since[g] \in Nat
      BY <3>1 DEF GenerationsInv, TypeOKGenerations, PublishedIsWhole
    <3> QED BY <3>1, <3>2
  <2>6. ModelStays(o)'
    <3> SUFFICES ASSUME opening[o].at = "model", opening[o].model # NoGeneration,
                        NEW g, g = opening[o].model
                 PROVE  /\ g.kind = "model"
                        /\ opening'[o].missed = 0 => row'[g] = "published"
                        /\ opening'[o].missed < 2 =>
                             /\ g \in file' /\ g \in named' /\ g \notin doomed'
                             /\ row'[g] \in {"published", "superseded", "building"}
                             /\ build'.at = "prune models" => row'[g] # "building"
                             /\ \A x, y \in Generation : Newer(x, g)' /\ Newer(y, g)' => x = y
      BY <2>1 DEF ModelStays
    <3>0. opening'[o].missed # 0 /\ (opening'[o].missed < 2 => opening[o].missed = 0)
      BY <2>1, <2>2
    <3>1. g \in Generation /\ g.kind = "model"
      BY ModelReader
    <3> SUFFICES ASSUME opening'[o].missed < 2
                 PROVE  /\ g \in file' /\ g \in named' /\ g \notin doomed'
                        /\ row'[g] \in {"published", "superseded", "building"}
                        /\ row'[g] # "building"
                        /\ \A x, y \in Generation : Newer(x, g)' /\ Newer(y, g)' => x = y
      BY <3>0, <3>1
    <3>2. row[g] = "published" /\ g \in file /\ g \in named
      <4>1. opening[o].missed = 0 /\ opening[o].missed < 2
        BY <3>0
      <4> QED BY <4>1, ModelReader
    <3>3. row'[g] = "superseded"
      BY <1>1, <1>2, <1>5, <3>1, <3>2
    <3>4. \A x, y \in Generation : Newer(x, g)' /\ Newer(y, g)' => x = y
      BY <2>5, <3>1, <3>2
    <3> QED BY <1>1, <1>4, <3>2, <3>3, <3>4
  <2> QED BY <2>4, <2>6
<1> QED BY <1>7, <1>8, <1>9, <1>10 DEF GenerationsInv

LEMMA FeaturesFailKeeps ==
  ASSUME GenerationsInv, FeaturesFail
  PROVE  GenerationsInv'
<1>1. build.at \in {"write features", "register features"} /\ builds > 0 /\ ~sound /\ row[F] = "building" /\ doomed = {}
  BY DEF FeaturesFail, BuildFails, GenerationsInv, TypeOKGenerations, StagesInOrder, DoomedAreRetired
<1>2. F \in Generation /\ F.kind = "feature"
  BY <1>1, UnderWay DEF GenerationsInv
<1>3. /\ build'.at = "idle" /\ build'.of = build.of /\ build'.with = build.with
      /\ build' \in [at : Stages, of : Content \union {Nobody.of}, with : Evidence \union {Nobody.with}]
      /\ F' = F /\ M' = M
  BY StageChanges DEF FeaturesFail, BuildFails, GenerationsInv, Stages
<1>4. /\ file' \subseteq file /\ \A h \in file : h # F => h \in file'
      /\ UNCHANGED <<named, since, doomed, builds, sound>>
      /\ Missed(F)
  BY DEF FeaturesFail, BuildFails
<1>5. row' = [row EXCEPT ![F] = "failed"]
  BY DEF FeaturesFail, BuildFails
<1>6. /\ row' \in [Generation -> {"none", "building", "published", "superseded", "failed"}]
      /\ row'[F] = "failed" /\ \A h \in Generation : h # F => row'[h] = row[h]
  BY <1>2, <1>5 DEF GenerationsInv, TypeOKGenerations
<1>7. TypeOKGenerations'
  <2>1. opening' \in [Opener -> Openings]
    BY <1>2, <1>4, MissedIs DEF GenerationsInv
  <2> QED BY <1>1, <1>2, <1>3, <1>4, <1>6, <2>1 DEF GenerationsInv, TypeOKGenerations
<1>8. PublishedIsWhole'
  BY <1>1, <1>2, <1>4, <1>6 DEF GenerationsInv, PublishedIsWhole, Ran
<1>9. (StagesInOrder /\ DoomedAreRetired)'
  BY <1>1, <1>3, <1>4 DEF StagesInOrder, DoomedAreRetired
<1>10. ReadersFind'
  <2> SUFFICES ASSUME NEW o \in Opener PROVE (FeaturesStay(o) /\ ModelStays(o))'
    BY DEF ReadersFind
  <2>1. /\ opening'[o].at = opening[o].at
        /\ opening'[o].feature = opening[o].feature /\ opening'[o].model = opening[o].model
        /\ opening[o].missed \in 0..2 /\ opening'[o].missed \in 0..2
        /\ opening[o].missed <= opening'[o].missed
        /\ opening[o].at = "features" /\ opening[o].missed < 2 => opening'[o].missed = opening[o].missed + 1
    <3>1. opening[o] \in Openings /\ opening'[o] \in Openings
      BY <1>7 DEF GenerationsInv, TypeOKGenerations
    <3>2. /\ opening'[o].at = opening[o].at
          /\ opening'[o].feature = opening[o].feature /\ opening'[o].model = opening[o].model
          /\ opening[o].missed <= opening'[o].missed
          /\ opening[o].at = "features" /\ opening[o].missed < 2 => opening'[o].missed = opening[o].missed + 1
      BY <1>2, <1>4, MissedIs DEF GenerationsInv
    <3> QED BY <3>1, <3>2 DEF Openings
  <2>2. FeaturesStay(o)'
    <3> SUFFICES ASSUME opening[o].at = "features", opening[o].feature # NoGeneration,
                        NEW g, g = opening[o].feature
                 PROVE  /\ g.kind = "feature"
                        /\ opening'[o].missed = 0 => row'[g] = "published"
                        /\ opening'[o].missed < 2 => Needed(g)'
      BY <2>1 DEF FeaturesStay
    <3>1. /\ g \in Generation /\ g.kind = "feature"
          /\ opening[o].missed = 0 => row[g] = "published" /\ g \in file /\ g \in named
      BY FeatureReader
    <3>2. opening'[o].missed # 0 /\ (opening'[o].missed < 2 => opening[o].missed = 0)
      BY <2>1
    <3> QED BY <1>1, <1>4, <3>1, <3>2 DEF Needed
  <2>3. ModelStays(o)'
    <3> SUFFICES ASSUME opening[o].at = "model", opening[o].model # NoGeneration,
                        NEW g, g = opening[o].model
                 PROVE  /\ g.kind = "model"
                        /\ opening'[o].missed = 0 => row'[g] = "published"
                        /\ opening'[o].missed < 2 =>
                             /\ g \in file' /\ g \in named' /\ g \notin doomed'
                             /\ row'[g] \in {"published", "superseded", "building"}
                             /\ build'.at = "prune models" => row'[g] # "building"
                             /\ \A x, y \in Generation : Newer(x, g)' /\ Newer(y, g)' => x = y
      BY <2>1 DEF ModelStays
    <3>1. /\ g \in Generation /\ g.kind = "model"
          /\ opening[o].missed = 0 => row[g] = "published"
          /\ opening[o].missed < 2 =>
               /\ g \in file /\ g \in named /\ g \notin doomed
               /\ row[g] \in {"published", "superseded", "building"}
               /\ \A x, y \in Generation : Newer(x, g) /\ Newer(y, g) => x = y
      BY ModelReader
    <3>2. (opening'[o].missed = 0 => opening[o].missed = 0) /\ (opening'[o].missed < 2 => opening[o].missed < 2)
      BY <2>1
    <3>3. row'[g] = row[g]
      BY <1>2, <1>6, <3>1
    <3>4. \A x \in Generation : Newer(x, g)' => Newer(x, g)
      BY <1>2, <1>4, <1>6 DEF Newer, Ran
    <3> QED BY <1>2, <1>3, <1>4, <3>1, <3>2, <3>3, <3>4
  <2> QED BY <2>2, <2>3
<1> QED BY <1>7, <1>8, <1>9, <1>10 DEF GenerationsInv

LEMMA ModelFailsKeeps ==
  ASSUME GenerationsInv, ModelFails
  PROVE  GenerationsInv'
<1>1. build.at \in {"write model", "register model"} /\ builds > 0 /\ ~sound /\ row[M] = "building" /\ doomed = {}
  BY DEF ModelFails, BuildFails, GenerationsInv, TypeOKGenerations, StagesInOrder, DoomedAreRetired
<1>2. M \in Generation /\ M.kind = "model"
  BY <1>1, UnderWay DEF GenerationsInv
<1>3. /\ build'.at = "idle" /\ build'.of = build.of /\ build'.with = build.with
      /\ build' \in [at : Stages, of : Content \union {Nobody.of}, with : Evidence \union {Nobody.with}]
      /\ F' = F /\ M' = M
  BY StageChanges DEF ModelFails, BuildFails, GenerationsInv, Stages
<1>4. /\ file' \subseteq file /\ \A h \in file : h # M => h \in file'
      /\ UNCHANGED <<named, since, doomed, builds, sound>>
      /\ Missed(M)
  BY DEF ModelFails, BuildFails
<1>5. row' = [row EXCEPT ![M] = "failed"]
  BY DEF ModelFails, BuildFails
<1>6. /\ row' \in [Generation -> {"none", "building", "published", "superseded", "failed"}]
      /\ row'[M] = "failed" /\ \A h \in Generation : h # M => row'[h] = row[h]
  BY <1>2, <1>5 DEF GenerationsInv, TypeOKGenerations
<1>7. TypeOKGenerations'
  <2>1. opening' \in [Opener -> Openings]
    BY <1>2, <1>4, MissedIs DEF GenerationsInv
  <2> QED BY <1>1, <1>2, <1>3, <1>4, <1>6, <2>1 DEF GenerationsInv, TypeOKGenerations
<1>8. PublishedIsWhole'
  BY <1>1, <1>2, <1>4, <1>6 DEF GenerationsInv, PublishedIsWhole, Ran
<1>9. (StagesInOrder /\ DoomedAreRetired)'
  BY <1>1, <1>3, <1>4 DEF StagesInOrder, DoomedAreRetired
<1>10. ReadersFind'
  <2> SUFFICES ASSUME NEW o \in Opener PROVE (FeaturesStay(o) /\ ModelStays(o))'
    BY DEF ReadersFind
  <2>1. /\ opening'[o].at = opening[o].at
        /\ opening'[o].feature = opening[o].feature /\ opening'[o].model = opening[o].model
        /\ opening[o].missed \in 0..2 /\ opening'[o].missed \in 0..2
        /\ opening[o].missed <= opening'[o].missed
        /\ opening[o].at = "model" /\ opening[o].missed < 2 => opening'[o].missed = opening[o].missed + 1
    <3>1. opening[o] \in Openings /\ opening'[o] \in Openings
      BY <1>7 DEF GenerationsInv, TypeOKGenerations
    <3>2. /\ opening'[o].at = opening[o].at
          /\ opening'[o].feature = opening[o].feature /\ opening'[o].model = opening[o].model
          /\ opening[o].missed <= opening'[o].missed
          /\ opening[o].at = "model" /\ opening[o].missed < 2 => opening'[o].missed = opening[o].missed + 1
      BY <1>2, <1>4, MissedIs DEF GenerationsInv
    <3> QED BY <3>1, <3>2 DEF Openings
  <2>2. FeaturesStay(o)'
    <3> SUFFICES ASSUME opening[o].at = "features", opening[o].feature # NoGeneration,
                        NEW g, g = opening[o].feature
                 PROVE  /\ g.kind = "feature"
                        /\ opening'[o].missed = 0 => row'[g] = "published"
                        /\ opening'[o].missed < 2 => Needed(g)'
      BY <2>1 DEF FeaturesStay
    <3>1. /\ g \in Generation /\ g.kind = "feature"
          /\ opening[o].missed = 0 => row[g] = "published" /\ g \in file /\ g \in named
          /\ opening[o].missed < 2 => Needed(g)
      BY FeatureReader
    <3>2. (opening'[o].missed = 0 => opening[o].missed = 0) /\ (opening'[o].missed < 2 => opening[o].missed < 2)
      BY <2>1
    <3>3. row'[g] = row[g]
      BY <1>2, <1>6, <3>1
    <3> QED BY <1>2, <1>4, <3>1, <3>2, <3>3 DEF Needed
  <2>3. ModelStays(o)'
    <3> SUFFICES ASSUME opening[o].at = "model", opening[o].model # NoGeneration,
                        NEW g, g = opening[o].model
                 PROVE  /\ g.kind = "model"
                        /\ opening'[o].missed = 0 => row'[g] = "published"
                        /\ opening'[o].missed < 2 =>
                             /\ g \in file' /\ g \in named' /\ g \notin doomed'
                             /\ row'[g] \in {"published", "superseded", "building"}
                             /\ build'.at = "prune models" => row'[g] # "building"
                             /\ \A x, y \in Generation : Newer(x, g)' /\ Newer(y, g)' => x = y
      BY <2>1 DEF ModelStays
    <3>1. /\ g \in Generation /\ g.kind = "model"
          /\ opening[o].missed = 0 => row[g] = "published"
          /\ opening[o].missed < 2 =>
               /\ g \in file /\ g \in named /\ g \notin doomed
               /\ \A x, y \in Generation : Newer(x, g) /\ Newer(y, g) => x = y
      BY ModelReader
    <3>2. opening'[o].missed # 0 /\ (opening'[o].missed < 2 => opening[o].missed = 0 /\ opening[o].missed < 2)
      BY <2>1
    <3>3. row[g] = "published" => row'[g] = "published" /\ g # M
      BY <1>1, <1>6, <3>1
    <3>4. \A x \in Generation : Newer(x, g)' => Newer(x, g)
      BY <1>2, <1>4, <1>6 DEF Newer, Ran
    <3> QED BY <1>3, <1>4, <3>1, <3>2, <3>3, <3>4
  <2> QED BY <2>2, <2>3
<1> QED BY <1>7, <1>8, <1>9, <1>10 DEF GenerationsInv

LEMMA ActivateFeaturesKeeps ==
  ASSUME GenerationsInv, ActivateFeatures
  PROVE  GenerationsInv'
<1>1. build.at = "activate features" /\ builds > 0 /\ ~sound /\ row[F] = "published" /\ doomed = {}
  BY DEF ActivateFeatures, GenerationsInv, TypeOKGenerations, StagesInOrder, DoomedAreRetired
<1>2. F \in Generation /\ F.kind = "feature"
  BY <1>1, UnderWay DEF GenerationsInv
<1>4. UNCHANGED <<named, file, since, doomed, builds, sound>>
  BY DEF ActivateFeatures
<1>a. CASE BuildAt("model") /\ UNCHANGED <<row, opening>>
  <2>1. /\ build'.at = "model" /\ build'.of = build.of /\ build'.with = build.with
        /\ build' \in [at : Stages, of : Content \union {Nobody.of}, with : Evidence \union {Nobody.with}]
        /\ F' = F /\ M' = M
    BY <1>a, StageChanges DEF GenerationsInv, Stages
  <2>2. TypeOKGenerations'
    BY <1>1, <1>4, <1>a, <2>1 DEF GenerationsInv, TypeOKGenerations
  <2>3. (PublishedIsWhole /\ StagesInOrder /\ DoomedAreRetired)'
    BY <1>1, <1>4, <1>a, <2>1 DEF GenerationsInv, PublishedIsWhole, StagesInOrder, DoomedAreRetired, Ran
  <2>4. ReadersFind'
    BY <1>4, <1>a, <2>1, ZenonT(60)
    DEF GenerationsInv, ReadersFind, FeaturesStay, ModelStays, Needed, Newer, Ran
  <2> QED BY <2>2, <2>3, <2>4 DEF GenerationsInv
<1>b. CASE BuildAt("idle") /\ row' = [row EXCEPT ![F] = "failed"] /\ Missed(F)
  <2>1. /\ build'.at = "idle" /\ build'.of = build.of /\ build'.with = build.with
        /\ build' \in [at : Stages, of : Content \union {Nobody.of}, with : Evidence \union {Nobody.with}]
        /\ F' = F /\ M' = M
    BY <1>b, StageChanges DEF GenerationsInv, Stages
  <2>2. /\ row' \in [Generation -> {"none", "building", "published", "superseded", "failed"}]
        /\ row'[F] = "failed" /\ \A h \in Generation : h # F => row'[h] = row[h]
    BY <1>2, <1>b DEF GenerationsInv, TypeOKGenerations
  <2>3. TypeOKGenerations'
    <3>1. opening' \in [Opener -> Openings]
      BY <1>2, <1>b, MissedIs DEF GenerationsInv
    <3> QED BY <1>1, <1>4, <2>1, <2>2, <3>1 DEF GenerationsInv, TypeOKGenerations
  <2>4. PublishedIsWhole'
    BY <1>2, <1>4, <2>2 DEF GenerationsInv, PublishedIsWhole, Ran
  <2>5. (StagesInOrder /\ DoomedAreRetired)'
    BY <1>1, <1>4, <2>1 DEF StagesInOrder, DoomedAreRetired
  <2>6. ASSUME NEW o \in Opener
        PROVE  (FeaturesStay(o) /\ ModelStays(o))'
    <3>1. /\ opening'[o].at = opening[o].at
          /\ opening'[o].feature = opening[o].feature /\ opening'[o].model = opening[o].model
          /\ opening[o].missed \in 0..2 /\ opening'[o].missed \in 0..2
          /\ opening[o].missed <= opening'[o].missed
          /\ opening[o].at = "features" /\ opening[o].missed < 2 => opening'[o].missed = opening[o].missed + 1
      <4>1. opening[o] \in Openings /\ opening'[o] \in Openings
        BY <2>3 DEF GenerationsInv, TypeOKGenerations
      <4>2. /\ opening'[o].at = opening[o].at
            /\ opening'[o].feature = opening[o].feature /\ opening'[o].model = opening[o].model
            /\ opening[o].missed <= opening'[o].missed
            /\ opening[o].at = "features" /\ opening[o].missed < 2 => opening'[o].missed = opening[o].missed + 1
        BY <1>2, <1>b, MissedIs DEF GenerationsInv
      <4> QED BY <4>1, <4>2 DEF Openings
    <3>2. FeaturesStay(o)'
      <4> SUFFICES ASSUME opening[o].at = "features", opening[o].feature # NoGeneration,
                          NEW g, g = opening[o].feature
                   PROVE  /\ g.kind = "feature"
                          /\ opening'[o].missed = 0 => row'[g] = "published"
                          /\ opening'[o].missed < 2 => Needed(g)'
        BY <3>1 DEF FeaturesStay
      <4>1. /\ g \in Generation /\ g.kind = "feature"
            /\ opening[o].missed = 0 => g \in file /\ g \in named
        BY FeatureReader
      <4>2. opening'[o].missed # 0 /\ (opening'[o].missed < 2 => opening[o].missed = 0)
        BY <3>1
      <4> QED BY <1>4, <4>1, <4>2 DEF Needed
    <3>3. ModelStays(o)'
      <4> SUFFICES ASSUME opening[o].at = "model", opening[o].model # NoGeneration,
                        NEW g, g = opening[o].model
                 PROVE  /\ g.kind = "model"
                        /\ opening'[o].missed = 0 => row'[g] = "published"
                        /\ opening'[o].missed < 2 =>
                             /\ g \in file' /\ g \in named' /\ g \notin doomed'
                             /\ row'[g] \in {"published", "superseded", "building"}
                             /\ build'.at = "prune models" => row'[g] # "building"
                             /\ \A x, y \in Generation : Newer(x, g)' /\ Newer(y, g)' => x = y
      BY <3>1 DEF ModelStays
      <4>1. /\ g \in Generation /\ g.kind = "model"
            /\ opening[o].missed = 0 => row[g] = "published"
            /\ opening[o].missed < 2 =>
                 /\ g \in file /\ g \in named /\ g \notin doomed
                 /\ row[g] \in {"published", "superseded", "building"}
                 /\ \A x, y \in Generation : Newer(x, g) /\ Newer(y, g) => x = y
        BY ModelReader
      <4>2. (opening'[o].missed = 0 => opening[o].missed = 0) /\ (opening'[o].missed < 2 => opening[o].missed < 2)
        BY <3>1
      <4>3. row'[g] = row[g]
        BY <1>2, <2>2, <4>1
      <4>4. \A x \in Generation : Newer(x, g)' => Newer(x, g)
        BY <1>2, <1>4, <2>2 DEF Newer, Ran
      <4> QED BY <1>4, <2>1, <4>1, <4>2, <4>3, <4>4
    <3> QED BY <3>2, <3>3
  <2> QED BY <2>3, <2>4, <2>5, <2>6 DEF GenerationsInv, ReadersFind
<1> QED BY <1>a, <1>b DEF ActivateFeatures

LEMMA BuilderDiesKeeps ==
  ASSUME GenerationsInv, BuilderDies
  PROVE  GenerationsInv'
<1>1. builds \in Nat /\ (build.at # "idle") /\ doomed' = {} /\ UNCHANGED <<row, named, file, since, builds, sound, opening>>
  BY DEF BuilderDies, GenerationsInv, TypeOKGenerations
<1>2. /\ build'.at = "idle" /\ build'.of = build.of /\ build'.with = build.with
      /\ build' \in [at : Stages, of : Content \union {Nobody.of}, with : Evidence \union {Nobody.with}]
      /\ F' = F /\ M' = M
  BY StageChanges DEF BuilderDies, GenerationsInv, Stages
<1>3. TypeOKGenerations'
  BY <1>1, <1>2 DEF GenerationsInv, TypeOKGenerations
<1>4. (PublishedIsWhole /\ StagesInOrder /\ DoomedAreRetired)'
  BY <1>1, <1>2 DEF GenerationsInv, PublishedIsWhole, StagesInOrder, DoomedAreRetired, Ran
<1>5. ReadersFind'
  BY <1>1, <1>2, ZenonT(60) DEF GenerationsInv, ReadersFind, FeaturesStay, ModelStays, Needed, Newer, Ran
<1> QED BY <1>3, <1>4, <1>5 DEF GenerationsInv

\* The two models published last are kept, and so are those one other has followed.
LEMMA FollowedAreKept ==
  ASSUME NEW g \in Generation, g.kind = "model", Ran(g), g \in named,
         \A x, y \in Generation : Newer(x, g) /\ Newer(y, g) => x = y
  PROVE  g \in KeptModels
<1> DEFINE S == {h \in OfKind("model") : row[h] \in {"published", "superseded"} /\ h \in named}
<1> DEFINE L == {h \in S : since[h] > since[g]}
<1>1. g \in S
  BY GenerationKinds DEF Ran
<1>2. \A x, y \in L : x = y
  BY GenerationKinds DEF Newer, Ran
<1>3. L = {} \/ \E x : L = {x}
  <2> HIDE DEF L
  <2> QED BY <1>2
<1>4. Cardinality(L) < 2
  <2> HIDE DEF L
  <2>1. CASE L = {}
    BY <2>1, FS_EmptySet
  <2>2. CASE \E x : L = {x}
    <3>1. PICK x : L = {x}
      BY <2>2
    <3>2. Cardinality({x}) = 1
      BY FS_Singleton
    <3> QED BY <3>1, <3>2
  <2> QED BY <1>3, <2>1, <2>2
<1> QED BY <1>1, <1>4 DEF KeptModels, Newest

LEMMA ListModelsKeeps ==
  ASSUME GenerationsInv, ListModels
  PROVE  GenerationsInv'
<1>1. build.at = "prune models" /\ builds > 0 /\ UNCHANGED <<row, named, file, since, builds, sound, opening>>
  BY DEF ListModels, GenerationsInv, TypeOKGenerations
<1>2. /\ build'.at = "models" /\ build'.of = build.of /\ build'.with = build.with
      /\ build' \in [at : Stages, of : Content \union {Nobody.of}, with : Evidence \union {Nobody.with}]
      /\ F' = F /\ M' = M
  BY StageChanges DEF ListModels, GenerationsInv, Stages
<1>3. \A g \in doomed' : /\ g \in Generation /\ g.kind = "model" /\ g \notin KeptModels
                         /\ row[g] \in {"superseded", "failed", "building"}
  BY GenerationKinds DEF ListModels, Abandoned
<1>4. TypeOKGenerations'
  BY <1>1, <1>2, <1>3 DEF GenerationsInv, TypeOKGenerations
<1>5. (PublishedIsWhole /\ StagesInOrder /\ DoomedAreRetired)'
  BY <1>1, <1>2, <1>3 DEF GenerationsInv, PublishedIsWhole, StagesInOrder, DoomedAreRetired, Ran
<1>6. ASSUME NEW o \in Opener
      PROVE  (FeaturesStay(o) /\ ModelStays(o))'
  <2>1. FeaturesStay(o)'
    BY <1>1 DEF GenerationsInv, ReadersFind, FeaturesStay, Needed
  <2>2. ModelStays(o)'
    <3> SUFFICES ASSUME opening[o].at = "model", opening[o].model # NoGeneration,
                        NEW g, g = opening[o].model
                 PROVE  /\ g.kind = "model"
                        /\ opening[o].missed = 0 => row[g] = "published"
                        /\ opening[o].missed < 2 =>
                             /\ g \in file /\ g \in named /\ g \notin doomed'
                             /\ row[g] \in {"published", "superseded", "building"}
                             /\ \A x, y \in Generation : Newer(x, g)' /\ Newer(y, g)' => x = y
      BY <1>1, <1>2 DEF ModelStays
    <3>1. /\ g \in Generation /\ g.kind = "model"
          /\ opening[o].missed = 0 => row[g] = "published"
          /\ opening[o].missed < 2 =>
               /\ g \in file /\ g \in named
               /\ row[g] \in {"published", "superseded"}
               /\ \A x, y \in Generation : Newer(x, g) /\ Newer(y, g) => x = y
      BY <1>1, ModelReader
    <3>2. opening[o].missed < 2 => g \notin doomed'
      BY <1>3, <3>1, FollowedAreKept DEF Ran
    <3>3. \A x \in Generation : Newer(x, g)' => Newer(x, g)
      BY <1>1 DEF Newer, Ran
    <3> QED BY <3>1, <3>2, <3>3
  <2> QED BY <2>1, <2>2
<1> QED BY <1>4, <1>5, <1>6 DEF GenerationsInv, ReadersFind

LEMMA ListFeaturesKeeps ==
  ASSUME GenerationsInv, ListFeatures
  PROVE  GenerationsInv'
<1>1. build.at = "models" /\ builds > 0 /\ UNCHANGED <<row, named, file, since, builds, sound, opening>>
  BY DEF ListFeatures, GenerationsInv, TypeOKGenerations
<1>2. /\ build'.at = "features too" /\ build'.of = build.of /\ build'.with = build.with
      /\ build' \in [at : Stages, of : Content \union {Nobody.of}, with : Evidence \union {Nobody.with}]
      /\ F' = F /\ M' = M
  BY StageChanges DEF ListFeatures, GenerationsInv, Stages
<1>3. \A g \in doomed' : g \in Generation /\ g.kind = "feature" /\ g \notin UsedFeatures /\ row[g] # "published"
  BY GenerationKinds DEF ListFeatures
<1>4. ASSUME NEW g \in doomed', NEW e \in Evidence
      PROVE  Model(g.of, e) \notin named
  <2>1. /\ g = Features(g.of) /\ Model(g.of, e) \in OfKind("model") /\ Model(g.of, e).of = g.of
    BY <1>3, GenerationKinds
  <2> QED BY <1>3, <2>1 DEF UsedFeatures
<1>5. TypeOKGenerations'
  BY <1>1, <1>2, <1>3 DEF GenerationsInv, TypeOKGenerations
<1>6. (PublishedIsWhole /\ StagesInOrder)'
  BY <1>1, <1>2 DEF GenerationsInv, PublishedIsWhole, StagesInOrder, Ran
<1>7. DoomedAreRetired'
  BY <1>1, <1>2, <1>3, <1>4 DEF DoomedAreRetired
<1>8. ReadersFind'
  BY <1>1, <1>2, <1>3, ZenonT(60)
  DEF GenerationsInv, ReadersFind, FeaturesStay, ModelStays, Needed, Newer, Ran
<1> QED BY <1>5, <1>6, <1>7, <1>8 DEF GenerationsInv

\* What retention may remove: nothing that is published, or that somebody finds.
LEMMA DoomedIs ==
  ASSUME GenerationsInv, NEW d \in doomed
  PROVE  /\ d \in Generation /\ row[d] # "published"
         /\ build.at \in {"models", "features too"}
         /\ d.kind = "feature" => \A e \in Evidence : Model(d.of, e) \notin named
<1>1. d \in Generation /\ row[d] # "published" /\ build.at \in {"models", "features too"}
  BY DEF GenerationsInv, TypeOKGenerations, DoomedAreRetired
<1>2. d.kind = "feature" => build.at # "models"
  BY DEF GenerationsInv, DoomedAreRetired
<1> QED BY <1>1, <1>2 DEF GenerationsInv, DoomedAreRetired

LEMMA RemoveArtifactKeeps ==
  ASSUME GenerationsInv, NEW d \in Generation, RemoveArtifact(d)
  PROVE  GenerationsInv'
<1>1. d \in doomed /\ UNCHANGED <<row, named, since, build, builds, sound, opening>>
  BY DEF RemoveArtifact
<1>2. /\ row[d] # "published" /\ build.at \in {"models", "features too"}
      /\ d.kind = "feature" => \A e \in Evidence : Model(d.of, e) \notin named
  BY <1>1, DoomedIs
<1>3. /\ doomed' \subseteq doomed /\ file' \subseteq file
      /\ \A g \in file : g # d => g \in file'
  BY DEF RemoveArtifact
<1>4. F' = F /\ M' = M
  BY <1>1, SameBuild
<1>5. TypeOKGenerations'
  BY <1>1, <1>3 DEF GenerationsInv, TypeOKGenerations
<1>6. (PublishedIsWhole /\ StagesInOrder /\ DoomedAreRetired)'
  BY <1>1, <1>2, <1>3, <1>4 DEF GenerationsInv, PublishedIsWhole, StagesInOrder, DoomedAreRetired, Ran
<1>7. ReadersFind'
  <2> SUFFICES ASSUME NEW o \in Opener PROVE (FeaturesStay(o) /\ ModelStays(o))'
    BY DEF ReadersFind
  <2>1. FeaturesStay(o)'
    <3>1. \A g : g.kind = "feature" /\ Needed(g) => Needed(g)'
      BY <1>1, <1>2, <1>3 DEF Needed
    <3> SUFFICES ASSUME opening[o].at = "features", opening[o].feature # NoGeneration,
                        NEW g, g = opening[o].feature
                 PROVE  /\ g.kind = "feature"
                        /\ opening[o].missed = 0 => row[g] = "published"
                        /\ opening[o].missed < 2 => Needed(g)'
      BY <1>1 DEF FeaturesStay
    <3> QED BY <3>1, FeatureReader
  <2>2. ModelStays(o)'
    BY <1>1, <1>3 DEF GenerationsInv, ReadersFind, ModelStays, Newer, Ran
  <2> QED BY <2>1, <2>2
<1> QED BY <1>5, <1>6, <1>7 DEF GenerationsInv

LEMMA RetireRowKeeps ==
  ASSUME GenerationsInv, NEW d \in Generation, RetireRow(d)
  PROVE  GenerationsInv'
<1>1. /\ d \in doomed /\ doomed' = doomed \ {d} /\ named' = named \ {d}
      /\ UNCHANGED <<file, since, build, builds, sound, opening>>
  BY DEF RetireRow
<1>2. /\ row[d] # "published" /\ build.at \in {"models", "features too"}
      /\ d.kind = "feature" => \A e \in Evidence : Model(d.of, e) \notin named
  BY <1>1, DoomedIs
<1>3. /\ row' \in [Generation -> {"none", "building", "published", "superseded", "failed"}]
      /\ row'[d] = "none" /\ \A g \in Generation : g # d => row'[g] = row[g]
  BY DEF RetireRow, GenerationsInv, TypeOKGenerations
<1>4. F' = F /\ M' = M /\ (builds > 0 => F \in Generation /\ M \in Generation)
  BY <1>1, SameBuild, UnderWay DEF GenerationsInv
<1>5. TypeOKGenerations'
  BY <1>1, <1>3 DEF GenerationsInv, TypeOKGenerations
<1>6. PublishedIsWhole'
  BY <1>1, <1>2, <1>3 DEF GenerationsInv, PublishedIsWhole, Ran
<1>7. StagesInOrder'
  BY <1>1, <1>2, <1>3, <1>4 DEF GenerationsInv, StagesInOrder
<1>8. DoomedAreRetired'
  BY <1>1, <1>2, <1>3 DEF GenerationsInv, TypeOKGenerations, DoomedAreRetired
<1>9. ReadersFind'
  <2> SUFFICES ASSUME NEW o \in Opener PROVE (FeaturesStay(o) /\ ModelStays(o))'
    BY DEF ReadersFind
  <2>1. FeaturesStay(o)'
    <3>1. \A g : g.kind = "feature" /\ Needed(g) => Needed(g)'
      BY <1>1, <1>2 DEF Needed
    <3> SUFFICES ASSUME opening[o].at = "features", opening[o].feature # NoGeneration,
                        NEW g, g = opening[o].feature
                 PROVE  /\ g.kind = "feature"
                        /\ opening[o].missed = 0 => row'[g] = "published"
                        /\ opening[o].missed < 2 => Needed(g)'
      BY <1>1 DEF FeaturesStay
    <3>2. /\ g \in Generation /\ g.kind = "feature"
          /\ opening[o].missed = 0 => row[g] = "published"
          /\ opening[o].missed < 2 => Needed(g)
      BY FeatureReader
    <3> QED BY <1>2, <1>3, <3>1, <3>2
  <2>2. ModelStays(o)'
    <3> SUFFICES ASSUME opening[o].at = "model", opening[o].model # NoGeneration,
                        NEW g, g = opening[o].model
                 PROVE  /\ g.kind = "model"
                        /\ opening[o].missed = 0 => row'[g] = "published"
                        /\ opening[o].missed < 2 =>
                             /\ g \in file /\ g \in named' /\ g \notin doomed'
                             /\ row'[g] \in {"published", "superseded", "building"}
                             /\ \A x, y \in Generation : Newer(x, g)' /\ Newer(y, g)' => x = y
      BY <1>1, <1>2 DEF ModelStays
    <3>1. /\ g \in Generation /\ g.kind = "model"
          /\ opening[o].missed = 0 => row[g] = "published"
          /\ opening[o].missed < 2 =>
               /\ g \in file /\ g \in named /\ g \notin doomed
               /\ row[g] \in {"published", "superseded", "building"}
               /\ \A x, y \in Generation : Newer(x, g) /\ Newer(y, g) => x = y
      BY ModelReader
    <3>2. \A x \in Generation : Newer(x, g)' => Newer(x, g)
      BY <1>1, <1>3 DEF Newer, Ran
    <3>3. opening[o].missed < 2 \/ opening[o].missed = 0 => g # d /\ row'[g] = row[g]
      BY <1>1, <1>2, <1>3, <3>1
    <3> QED BY <1>1, <3>1, <3>2, <3>3
  <2> QED BY <2>1, <2>2
<1> QED BY <1>5, <1>6, <1>7, <1>8, <1>9 DEF GenerationsInv

LEMMA SweepOrphansKeeps ==
  ASSUME GenerationsInv, SweepOrphans
  PROVE  GenerationsInv'
<1>1. /\ build.at = "features too" /\ doomed = {} /\ builds > 0
      /\ UNCHANGED <<row, named, since, doomed, builds, sound, opening>>
  BY DEF SweepOrphans, GenerationsInv, TypeOKGenerations
<1>2. file' \subseteq file /\ \A g \in file : g \in named => g \in file'
  BY DEF SweepOrphans
<1>3. /\ build'.at = "idle" /\ build'.of = build.of /\ build'.with = build.with
      /\ build' \in [at : Stages, of : Content \union {Nobody.of}, with : Evidence \union {Nobody.with}]
      /\ F' = F /\ M' = M
  BY StageChanges DEF SweepOrphans, GenerationsInv, Stages
<1>4. TypeOKGenerations'
  BY <1>1, <1>2, <1>3 DEF GenerationsInv, TypeOKGenerations
<1>5. (PublishedIsWhole /\ StagesInOrder /\ DoomedAreRetired)'
  BY <1>1, <1>2, <1>3 DEF GenerationsInv, PublishedIsWhole, StagesInOrder, DoomedAreRetired, Ran
<1>6. ReadersFind'
  BY <1>1, <1>2, <1>3, ZenonT(60)
  DEF GenerationsInv, ReadersFind, FeaturesStay, ModelStays, Needed, Newer, Ran
<1> QED BY <1>4, <1>5, <1>6 DEF GenerationsInv

-----------------------------------------------------------------------------
(* Openers change nothing else.                                             *)

LEMMA PublishedOfIs ==
  ASSUME NEW k \in {"feature", "model"}
  PROVE  /\ PublishedOf(k) \in Generation \union {NoGeneration}
         /\ PublishedOf(k) # NoGeneration =>
              /\ PublishedOf(k) \in Generation /\ PublishedOf(k).kind = k
              /\ row[PublishedOf(k)] = "published" /\ PublishedOf(k) \in named
<1>1. CASE Published(k) = {}
  BY <1>1 DEF PublishedOf
<1>2. CASE Published(k) # {}
  <2>1. PublishedOf(k) \in Published(k)
    BY <1>2 DEF PublishedOf
  <2> QED BY <2>1, GenerationKinds DEF Published
<1> QED BY <1>1, <1>2

LEMMA OpenersKeep ==
  ASSUME GenerationsInv, NEW o \in Opener,
         UNCHANGED <<row, named, file, since, build, doomed, builds, sound>>,
         opening' \in [Opener -> Openings],
         \A p \in Opener : p # o => opening'[p] = opening[p],
         (FeaturesStay(o) /\ ModelStays(o))'
  PROVE  GenerationsInv'
<1>1. F' = F /\ M' = M
  BY SameBuild
<1>2. (TypeOKGenerations /\ PublishedIsWhole /\ StagesInOrder /\ DoomedAreRetired)'
  BY <1>1, ZenonT(60)
  DEF GenerationsInv, TypeOKGenerations, PublishedIsWhole, StagesInOrder, DoomedAreRetired, Ran
<1>3. ASSUME NEW p \in Opener, p # o
      PROVE  (FeaturesStay(p) /\ ModelStays(p))'
  BY <1>3, ZenonT(60) DEF GenerationsInv, ReadersFind, FeaturesStay, ModelStays, Needed, Newer, Ran
<1> QED BY <1>2, <1>3 DEF GenerationsInv, ReadersFind

LEMMA FindFeaturesKeeps ==
  ASSUME GenerationsInv, NEW o \in Opener, FindFeatures(o)
  PROVE  GenerationsInv'
<1> DEFINE g == PublishedOf("feature")
<1> DEFINE w == [Closed EXCEPT !.at = "features", !.feature = g]
<1>1. UNCHANGED <<row, named, file, since, build, doomed, builds, sound>> /\ opening' = [opening EXCEPT ![o] = w]
  BY DEF FindFeatures
<1>2. g \in Generation \union {NoGeneration}
  BY PublishedOfIs
<1>3. w \in Openings /\ w.at = "features" /\ w.feature = g
  <2>1. Closed \in Openings
    BY DEF Closed, Openings
  <2> HIDE DEF g
  <2> QED BY <1>2, <2>1 DEF Openings
<1>4. g # NoGeneration => g.kind = "feature" /\ row[g] = "published" /\ g \in file /\ g \in named
  BY PublishedOfIs DEF GenerationsInv, PublishedIsWhole
<1> HIDE DEF w, g
<1>5. opening' \in [Opener -> Openings] /\ opening'[o] = w /\ \A p \in Opener : p # o => opening'[p] = opening[p]
  BY <1>1, <1>3 DEF GenerationsInv, TypeOKGenerations
<1>6. (FeaturesStay(o) /\ ModelStays(o))'
  <2>1. PICK h : h = g
    OBVIOUS
  <2>2. Needed(h)' \/ h = NoGeneration
    BY <1>1, <1>4, <2>1 DEF Needed
  <2>3. /\ opening'[o].at = "features" /\ opening'[o].feature = h
        /\ h # NoGeneration => h.kind = "feature" /\ row'[h] = "published"
    BY <1>1, <1>3, <1>4, <1>5, <2>1
  <2>4. FeaturesStay(o)'
    BY <2>2, <2>3 DEF FeaturesStay
  <2>5. ModelStays(o)'
    BY <2>3 DEF ModelStays
  <2> QED BY <2>4, <2>5
<1> QED BY <1>1, <1>5, <1>6, OpenersKeep

LEMMA FindModelKeeps ==
  ASSUME GenerationsInv, NEW o \in Opener, FindModel(o)
  PROVE  GenerationsInv'
<1> DEFINE g == PublishedOf("model")
<1> DEFINE w == [opening[o] EXCEPT !.at = "model", !.model = g, !.missed = 0]
<1>1. UNCHANGED <<row, named, file, since, build, doomed, builds, sound>> /\ opening' = [opening EXCEPT ![o] = w]
  BY DEF FindModel
<1>2. g \in Generation \union {NoGeneration}
  BY PublishedOfIs
<1>3. opening[o] \in Openings
  BY DEF GenerationsInv, TypeOKGenerations
<1>4. w \in Openings /\ w.at = "model" /\ w.model = g
  <2>1. PICK x \in Openings : x = opening[o]
    BY <1>3
  <2>2. PICK h \in Generation \union {NoGeneration} : h = g
    BY <1>2
  <2>3. w = [x EXCEPT !.at = "model", !.model = h, !.missed = 0]
    BY <2>1, <2>2
  <2> HIDE DEF w, g
  <2>4. w = [at |-> "model", feature |-> x.feature, model |-> h, missed |-> 0]
    BY <2>3 DEF Openings
  <2> QED BY <2>2, <2>4 DEF Openings
<1>5. g # NoGeneration => /\ g \in Generation /\ g.kind = "model" /\ row[g] = "published"
                          /\ g \in file /\ g \in named /\ g \notin doomed
  BY PublishedOfIs, DoomedIs DEF GenerationsInv, PublishedIsWhole
<1>6. g # NoGeneration => \A x \in Generation : ~Newer(x, g)
  <2> HIDE DEF g
  <2> SUFFICES ASSUME g # NoGeneration, NEW x \in Generation, x.kind = "model", Ran(x) PROVE ~(since[x] > since[g])
    BY DEF Newer
  <2>1. since[x] <= since[g] /\ since[x] \in Nat /\ since[g] \in Nat
    BY <1>5 DEF GenerationsInv, TypeOKGenerations, PublishedIsWhole
  <2> QED BY <2>1
<1> HIDE DEF w, g
<1>7. opening' \in [Opener -> Openings] /\ opening'[o] = w /\ \A p \in Opener : p # o => opening'[p] = opening[p]
  BY <1>1, <1>4 DEF GenerationsInv, TypeOKGenerations
<1>8. (FeaturesStay(o) /\ ModelStays(o))'
  <2>1. PICK h : h = g
    OBVIOUS
  <2>2. h # NoGeneration => \A x \in Generation : ~Newer(x, h)'
    BY <1>1, <1>6, <2>1 DEF Newer, Ran
  <2>3. opening'[o].at = "model" /\ opening'[o].model = h
    BY <1>4, <1>7, <2>1
  <2>4. h # NoGeneration => /\ h.kind = "model" /\ row'[h] = "published"
                            /\ h \in file' /\ h \in named' /\ h \notin doomed'
    BY <1>1, <1>5, <2>1
  <2>5. FeaturesStay(o)'
    BY <2>3 DEF FeaturesStay
  <2>6. ModelStays(o)'
    BY <2>2, <2>3, <2>4 DEF ModelStays
  <2> QED BY <2>5, <2>6
<1> QED BY <1>1, <1>7, <1>8, OpenersKeep

LEMMA AttachKeeps ==
  ASSUME GenerationsInv, NEW o \in Opener, AttachFeatures(o) \/ AttachModel(o)
  PROVE  GenerationsInv'
<1>1. /\ UNCHANGED <<row, named, file, since, build, doomed, builds, sound>>
      /\ \E s \in {"then", "missing", "open"} : opening' = [opening EXCEPT ![o].at = s]
  BY DEF AttachFeatures, AttachModel
<1>2. PICK s \in {"then", "missing", "open"} : opening' = [opening EXCEPT ![o].at = s]
  BY <1>1
<1> DEFINE w == [opening[o] EXCEPT !.at = s]
<1>3. opening' = [opening EXCEPT ![o] = w]
  BY <1>2
<1>4. opening[o] \in Openings
  BY DEF GenerationsInv, TypeOKGenerations
<1>5. w \in Openings /\ w.at = s
  BY <1>4 DEF Openings
<1> HIDE DEF w
<1>6. opening' \in [Opener -> Openings] /\ opening'[o] = w /\ \A p \in Opener : p # o => opening'[p] = opening[p]
  BY <1>3, <1>5 DEF GenerationsInv, TypeOKGenerations
<1>7. (FeaturesStay(o) /\ ModelStays(o))'
  BY <1>5, <1>6 DEF FeaturesStay, ModelStays
<1> QED BY <1>1, <1>6, <1>7, OpenersKeep

-----------------------------------------------------------------------------
(* What the invariant says.                                                 *)

LEMMA NextGenerationsKeeps ==
  ASSUME GenerationsInv, [NextGenerations]_generationVars
  PROVE  GenerationsInv'
<1>1. CASE UNCHANGED generationVars
  <2>1. F' = F /\ M' = M
    BY <1>1, SameBuild DEF generationVars
  <2>2. (TypeOKGenerations /\ PublishedIsWhole /\ StagesInOrder /\ DoomedAreRetired)'
    BY <1>1, <2>1 DEF generationVars, GenerationsInv, TypeOKGenerations, PublishedIsWhole, StagesInOrder,
       DoomedAreRetired, Ran
  <2>3. ReadersFind'
    BY <1>1, ZenonT(60)
    DEF generationVars, GenerationsInv, ReadersFind, FeaturesStay, ModelStays, Needed, Newer, Ran
  <2> QED BY <2>2, <2>3 DEF GenerationsInv
<1>2. CASE NextGenerations
  <2>1. CASE \E c \in Content, e \in Evidence : BeginGeneration(c, e)
    BY <2>1, BeginGenerationKeeps
  <2>2. CASE LookUpFeatures \/ LookUpModel \/ WriteFeatures \/ WriteModel
    BY <2>2, LookUpFeaturesKeeps, LookUpModelKeeps, WriteFeaturesKeeps, WriteModelKeeps
  <2>3. CASE RegisterFeatures \/ ActivateFeatures \/ RegisterModel \/ FeaturesFail \/ ModelFails \/ BuilderDies
    BY <2>3, RegisterFeaturesKeeps, ActivateFeaturesKeeps, RegisterModelKeeps, FeaturesFailKeeps, ModelFailsKeeps,
       BuilderDiesKeeps
  <2>4. CASE ListModels \/ ListFeatures \/ SweepOrphans
    BY <2>4, ListModelsKeeps, ListFeaturesKeeps, SweepOrphansKeeps
  <2>5. CASE \E g \in Generation : RemoveArtifact(g) \/ RetireRow(g)
    BY <2>5, RemoveArtifactKeeps, RetireRowKeeps
  <2>6. CASE \E o \in Opener : FindFeatures(o) \/ AttachFeatures(o) \/ FindModel(o) \/ AttachModel(o)
    BY <2>6, FindFeaturesKeeps, AttachKeeps, FindModelKeeps
  <2> QED BY <1>2, <2>1, <2>2, <2>3, <2>4, <2>5, <2>6 DEF NextGenerations
<1> QED BY <1>1, <1>2

LEMMA WholeIsThere == GenerationsInv => PublishedAreThere
<1> SUFFICES ASSUME GenerationsInv, NEW k \in {"feature", "model"}
             PROVE  /\ Cardinality({g \in OfKind(k) : row[g] = "published"}) <= 1
                    /\ Published(k) \subseteq file
  BY DEF PublishedAreThere
<1> DEFINE S == {g \in OfKind(k) : row[g] = "published"}
<1>1. \A x, y \in S : x = y
  BY GenerationKinds DEF GenerationsInv, PublishedIsWhole
<1>2. Cardinality(S) <= 1
  <2> HIDE DEF S
  <2>1. S = {} \/ \E x : S = {x}
    BY <1>1
  <2>2. CASE S = {}
    BY <2>2, FS_EmptySet
  <2>3. CASE \E x : S = {x}
    <3>1. PICK x : S = {x}
      BY <2>3
    <3>2. Cardinality({x}) = 1
      BY FS_Singleton
    <3> QED BY <3>1, <3>2
  <2> QED BY <2>1, <2>2, <2>3
<1>3. Published(k) \subseteq file
  BY GenerationKinds DEF GenerationsInv, PublishedIsWhole, Published
<1> QED BY <1>2, <1>3

LEMMA SoundPairAgrees == GenerationsInv => PairAgrees
<1> SUFFICES ASSUME GenerationsInv, sound, builds > 0
             PROVE  PublishedOf("feature") = F /\ PublishedOf("model") = M
  BY DEF PairAgrees
<1>1. row[F] = "published" /\ row[M] = "published"
  BY DEF GenerationsInv, StagesInOrder
<1>2. F \in Generation /\ F.kind = "feature" /\ M \in Generation /\ M.kind = "model"
  BY UnderWay DEF GenerationsInv
<1>3. ASSUME NEW g \in Generation, NEW k, g.kind = k, row[g] = "published"
      PROVE  Published(k) = {g}
  BY <1>3, GenerationKinds DEF GenerationsInv, PublishedIsWhole, Published
<1>4. Published("feature") = {F} /\ Published("model") = {M}
  BY <1>1, <1>2, <1>3
<1> HIDE DEF F, M
<1> QED BY <1>4 DEF PublishedOf

LEMMA ReadersFindFiles ==
  ASSUME GenerationsInv, NextGenerations
  PROVE  OpenersFindFiles
<1> SUFFICES ASSUME NEW o \in Opener, opening'[o].at = "missing", opening[o].at \in {"features", "model"}
             PROVE  \/ opening[o].missed > 1
                    \/ opening[o].at = "features" /\ \A e \in Evidence : Model(opening[o].feature.of, e) \notin named
  BY DEF OpenersFindFiles
<1>1. opening[o] \in Openings /\ opening \in [Opener -> Openings] /\ opening[o].missed \in 0..2
  BY DEF GenerationsInv, TypeOKGenerations, Openings
<1>2. opening'[o].at # opening[o].at
  OBVIOUS
<1>3. \A g : Missed(g) => opening'[o].at = opening[o].at
  BY <1>1 DEF Missed, Openings
<1>4. PICK p \in Opener : FindFeatures(p) \/ AttachFeatures(p) \/ FindModel(p) \/ AttachModel(p)
  <2>1. ~(opening' = opening) /\ \A g : ~Missed(g)
    BY <1>2, <1>3
  <2> QED BY <2>1 DEF NextGenerations, BeginGeneration, LookUpFeatures, LookUpModel, WriteFeatures, WriteModel,
             PublishArtifactFile, RegisterFeatures, RegisterModel, Register, ActivateFeatures, FeaturesFail, ModelFails, BuildFails, BuilderDies,
             ListModels, ListFeatures, SweepOrphans, RemoveArtifact, RetireRow
<1>5. p = o
  BY <1>1, <1>2, <1>4 DEF FindFeatures, AttachFeatures, FindModel, AttachModel
<1>6. CASE AttachFeatures(o)
  <2>1. opening[o].at = "features" /\ opening[o].feature \notin file /\ opening[o].feature # NoGeneration
    BY <1>1, <1>6 DEF AttachFeatures, Openings
  <2>2. opening[o].missed < 2 => Needed(opening[o].feature)
    BY <2>1, FeatureReader
  <2> QED BY <1>1, <2>1, <2>2 DEF Needed
<1>7. CASE AttachModel(o)
  <2>1. opening[o].at = "model" /\ opening[o].model \notin file /\ opening[o].model # NoGeneration
    BY <1>1, <1>7 DEF AttachModel, Openings
  <2>2. opening[o].missed < 2 => opening[o].model \in file
    BY <2>1, ModelReader
  <2> QED BY <1>1, <2>1, <2>2
<1>8. CASE FindFeatures(o) \/ FindModel(o)
  BY <1>1, <1>8 DEF FindFeatures, FindModel, Openings, Closed
<1> QED BY <1>4, <1>5, <1>6, <1>7, <1>8

(* What is published is one generation of a kind, with its file; after a build *)
(* that ended well it is that build's pair; and who opens a connection finds *)
(* the files it has looked up, unless two more were published meanwhile or  *)
(* no model kept the features: however many contents, openers and builds    *)
(* there are, and wherever builds fail or die.                              *)
THEOREM GenerationsStayWhole == SpecGenerations => GenerationsAreWhole
<1>1. InitGenerations => GenerationsInv
  BY GenerationsInit
<1>2. GenerationsInv /\ [NextGenerations]_generationVars => GenerationsInv'
  BY NextGenerationsKeeps
<1>3. GenerationsInv /\ GenerationsInv' /\ [NextGenerations]_generationVars
        => [PublishedAreThere' /\ PairAgrees' /\ OpenersFindFiles]_generationVars
  <2> SUFFICES ASSUME GenerationsInv, GenerationsInv', NextGenerations
               PROVE  PublishedAreThere' /\ PairAgrees' /\ OpenersFindFiles
    OBVIOUS
  <2>1. PublishedAreThere'
    BY WholeIsThere, PTL
  <2>2. PairAgrees'
    BY SoundPairAgrees, PTL
  <2>3. OpenersFindFiles
    BY ReadersFindFiles
  <2> QED BY <2>1, <2>2, <2>3
<1> QED BY <1>1, <1>2, <1>3, PTL DEF SpecGenerations, GenerationsAreWhole

-----------------------------------------------------------------------------
(* Plays: what is reported adds up.                                         *)

\* A stored session is the one its client reports, of a scene that is stored.
SessionsAreReported ==
  \A p \in SessionId : sessions[p] # NoSession =>
    /\ sessions[p].scene = Report[p].scene /\ Report[p].scene \in stored
    /\ sessions[p].active = Report[p].active
    /\ sessions[p].origin = Report[p].origin
    /\ Report[p].impression # NoImpression => sessions[p].impression = Report[p].impression

\* A signal is made by a session once: by one that is stored, or that is
\* dropped from now on.
SignalsAreMade ==
  \A e \in signals :
    /\ e.session \in SessionId /\ sessions[e.session] # NoSession
    /\ e.scene \in stored /\ sessions[e.session].scene = e.scene
    /\ e.positive => e.id[2] = "view"
    /\ \E p \in SessionId :
         /\ e.id \in {<<p, "view">>, <<p, "replacement">>}
         /\ sessions[p] # NoSession \/ Report[p].scene \notin stored
    /\ e.id[2] = "view" => e.positive = (Report[e.session].active = "long")
    /\ e.id[2] = "replacement" => Report[e.session].active = "short" /\ Report[e.session].origin = "curator"

SignalsAreUnique == \A e, f \in signals : e.id = f.id => e = f

PlaysInv ==
  /\ recommended = qualified
  /\ sessions = [p \in SessionId |-> sessions[p]]
  /\ phase # NoBatch => phase.sid \in SessionId
  /\ SessionsAreReported
  /\ SignalsAreMade
  /\ SignalsAreUnique

LEMMA PlaysInit == InitPlays => PlaysInv
  BY DEF InitPlays, PlaysInv, SessionsAreReported, SignalsAreMade, SignalsAreUnique

\* Attribution names an impression where the client named none.
LEMMA AttributedIs ==
  ASSUME NEW session \in Session
  PROVE  /\ Attributed(session) # NoSession
         /\ Attributed(session).scene = session.scene
         /\ Attributed(session).active = session.active
         /\ Attributed(session).origin = session.origin
         /\ session.impression # NoImpression => Attributed(session).impression = session.impression
<1>1. "active" \in DOMAIN Attributed(session)
  BY DEF Attributed, Session
<1>2. "active" \notin DOMAIN NoSession
  BY DEF NoSession
<1>3. /\ Attributed(session).scene = session.scene
      /\ Attributed(session).active = session.active
      /\ Attributed(session).origin = session.origin
      /\ session.impression # NoImpression => Attributed(session).impression = session.impression
  BY DEF Attributed, Session
<1> QED BY <1>1, <1>2, <1>3

\* What a session that is stored adds: signals of its own.
LEMMA SessionIsStored ==
  ASSUME PlaysInv, SubmitSessions, sessions' # sessions \/ signals' # signals
  PROVE  \E p \in SessionId :
           /\ sessions[p] = NoSession /\ Report[p].scene \in stored
           /\ sessions' = [q \in SessionId |-> IF q = p THEN Attributed(Report[p]) ELSE sessions[q]]
           /\ \/ signals' = signals \union ViewSignals(p, Attributed(Report[p]))
              \/ \E q \in SessionId \ {p} :
                   /\ sessions[q] # NoSession
                   /\ signals' = signals \union ViewSignals(p, Attributed(Report[p]))
                                   \union ReplacementSignals(sessions', p, Attributed(Report[p]), q)
<1> DEFINE p == phase.sid
<1> DEFINE session == Attributed(Report[p])
<1> DEFINE rows == [sessions EXCEPT ![p] = session]
<1> DEFINE before == Preceding(rows, p, session)
<1> DEFINE last == {q \in before : \A r \in before : rows[r].end <= rows[q].end}
<1>1. p \in SessionId /\ Report[p] \in Session
  BY PlaysAssumption DEF SubmitSessions, PlaysInv
<1>2. /\ sessions[p] = NoSession /\ session.scene \in stored
      /\ sessions' = rows
      /\ \/ signals' = signals \union ViewSignals(p, session)
         \/ \E q \in last : signals' = signals \union ViewSignals(p, session)
                                         \union ReplacementSignals(rows, p, session, q)
  BY DEF SubmitSessions
<1>3. session.scene = Report[p].scene
  BY <1>1, AttributedIs
<1>4. rows = [q \in SessionId |-> IF q = p THEN session ELSE sessions[q]]
  BY <1>1 DEF PlaysInv
<1>5. \A q \in last : q \in SessionId \ {p} /\ sessions[q] # NoSession
  BY <1>4 DEF Preceding
<1> HIDE DEF p, session, rows, last
<1>6. \/ signals' = signals \union ViewSignals(p, session)
      \/ \E q \in SessionId \ {p} :
           /\ sessions[q] # NoSession
           /\ signals' = signals \union ViewSignals(p, session)
                           \union ReplacementSignals(sessions', p, session, q)
  BY <1>2, <1>5
<1>7. /\ sessions[p] = NoSession /\ Report[p].scene \in stored
      /\ sessions' = [q \in SessionId |-> IF q = p THEN session ELSE sessions[q]]
  BY <1>2, <1>3, <1>4
<1> QED BY <1>1, <1>6, <1>7 DEF session

LEMMA SubmitSessionsKeeps ==
  ASSUME PlaysInv, SubmitSessions
  PROVE  PlaysInv'
<1>1. recommended' = qualified' /\ phase' = NoBatch /\ UNCHANGED stored
  BY DEF SubmitSessions, impressionVars, PlaysInv
<1>2. CASE UNCHANGED <<sessions, signals>>
  BY <1>1, <1>2 DEF PlaysInv, SessionsAreReported, SignalsAreMade, SignalsAreUnique
<1>3. CASE ~UNCHANGED <<sessions, signals>>
  <2>1. PICK p \in SessionId :
           /\ sessions[p] = NoSession /\ Report[p].scene \in stored
           /\ sessions' = [q \in SessionId |-> IF q = p THEN Attributed(Report[p]) ELSE sessions[q]]
           /\ \/ signals' = signals \union ViewSignals(p, Attributed(Report[p]))
              \/ \E q \in SessionId \ {p} :
                   /\ sessions[q] # NoSession
                   /\ signals' = signals \union ViewSignals(p, Attributed(Report[p]))
                                   \union ReplacementSignals(sessions', p, Attributed(Report[p]), q)
    BY <1>3, SessionIsStored
  <2> DEFINE session == Attributed(Report[p])
  <2>2. Report[p] \in Session
    BY PlaysAssumption
  <2>3. /\ session # NoSession /\ session.scene = Report[p].scene /\ session.active = Report[p].active
        /\ session.origin = Report[p].origin
        /\ Report[p].impression # NoImpression => session.impression = Report[p].impression
    BY <2>2, AttributedIs
  <2> HIDE DEF session
  <2>4. /\ sessions'[p] = session
        /\ \A q \in SessionId : q # p => sessions'[q] = sessions[q]
    BY <2>1 DEF session
  <2>5. DOMAIN sessions' = SessionId
    BY <2>1
  <2>6. SessionsAreReported'
    BY <1>1, <2>1, <2>3, <2>4 DEF PlaysInv, SessionsAreReported
  <2> DEFINE Seen == [id |-> <<p, "view">>, scene |-> Report[p].scene, session |-> p,
                      positive |-> Report[p].active = "long"]
             Replaced(q) == [id |-> <<p, "replacement">>, scene |-> Report[q].scene, session |-> q, positive |-> FALSE]
             Left(q) == /\ q \in SessionId \ {p} /\ sessions[q] # NoSession
                        /\ Report[q].active = "short" /\ Report[q].origin = "curator"
  <2>7. ViewSignals(p, session) \subseteq {Seen}
    BY <2>3 DEF ViewSignals
  <2>8. \E q \in SessionId :
          /\ signals \subseteq signals'
          /\ \A e \in signals' : e \in signals \/ e = Seen \/ (e = Replaced(q) /\ Left(q))
    <3>1. CASE signals' = signals \union ViewSignals(p, session)
      BY <2>7, <3>1
    <3>2. CASE \E q \in SessionId \ {p} :
                 /\ sessions[q] # NoSession
                 /\ signals' = signals \union ViewSignals(p, session)
                                 \union ReplacementSignals(sessions', p, session, q)
      <4>1. PICK q \in SessionId \ {p} :
                 /\ sessions[q] # NoSession
                 /\ signals' = signals \union ViewSignals(p, session)
                                 \union ReplacementSignals(sessions', p, session, q)
        BY <3>2
      <4>2. /\ sessions'[q].scene = Report[q].scene /\ sessions'[q].active = Report[q].active
            /\ sessions'[q].origin = Report[q].origin
        BY <2>4, <4>1 DEF PlaysInv, SessionsAreReported
      <4>3. \A e \in ReplacementSignals(sessions', p, session, q) : e = Replaced(q) /\ Left(q)
        BY <4>1, <4>2 DEF ReplacementSignals, Replaces
      <4> HIDE DEF Seen, Replaced, Left
      <4> QED BY <2>7, <4>1, <4>3
    <3> QED BY <2>1, <3>1, <3>2 DEF session
  <2>9. ASSUME NEW e \in signals PROVE e.id \notin {<<p, "view">>, <<p, "replacement">>} /\ e.session # p
    BY <2>1 DEF PlaysInv, SignalsAreMade
  <2>10. PICK q \in SessionId :
          /\ signals \subseteq signals'
          /\ \A e \in signals' : e \in signals \/ e = Seen \/ (e = Replaced(q) /\ Left(q))
    BY <2>8
  <2>11. SignalsAreUnique'
    <3>1. Seen.id = <<p, "view">> /\ Replaced(q).id = <<p, "replacement">> /\ Seen.id # Replaced(q).id
      OBVIOUS
    <3> HIDE DEF Seen, Replaced, Left
    <3> QED BY <2>9, <2>10, <3>1, ZenonT(60) DEF PlaysInv, SignalsAreUnique
  <2>12. ASSUME NEW e \in signals'
         PROVE  /\ e.session \in SessionId /\ sessions'[e.session] # NoSession
                /\ e.scene \in stored /\ sessions'[e.session].scene = e.scene
                /\ e.positive => e.id[2] = "view"
                /\ \E r \in SessionId :
                     /\ e.id \in {<<r, "view">>, <<r, "replacement">>}
                     /\ sessions'[r] # NoSession \/ Report[r].scene \notin stored
                /\ e.id[2] = "view" => e.positive = (Report[e.session].active = "long")
                /\ e.id[2] = "replacement" => Report[e.session].active = "short" /\ Report[e.session].origin = "curator"
    <3>1. CASE e \in signals
      <4>1. e.session # p /\ sessions'[e.session] = sessions[e.session]
        BY <2>4, <2>9, <3>1 DEF PlaysInv, SignalsAreMade
      <4>2. \A r \in SessionId : sessions[r] # NoSession => sessions'[r] # NoSession
        BY <2>3, <2>4
      <4> QED BY <3>1, <4>1, <4>2 DEF PlaysInv, SignalsAreMade
    <3>2. CASE e = Seen
      BY <2>1, <2>3, <2>4, <3>2
    <3>3. CASE e = Replaced(q) /\ Left(q)
      <4>1. sessions'[q] = sessions[q] /\ sessions[q].scene = Report[q].scene /\ Report[q].scene \in stored
        BY <2>4, <3>3 DEF PlaysInv, SessionsAreReported
      <4> QED BY <2>3, <2>4, <3>3, <4>1
    <3> QED BY <2>10, <3>1, <3>2, <3>3
  <2>13. SignalsAreMade'
    BY <1>1, <2>12 DEF SignalsAreMade
  <2>14. sessions' = [r \in SessionId |-> sessions'[r]]
    BY <2>1
  <2> QED BY <1>1, <2>6, <2>11, <2>13, <2>14 DEF PlaysInv
<1> QED BY <1>2, <1>3

\* What Stash deletes takes its session, and the signals of either scene.
LEMMA DeleteSceneKeeps ==
  ASSUME PlaysInv, NEW s \in Listed, DeleteScene(s)
  PROVE  PlaysInv'
<1>1. /\ stored' = stored \ {s}
      /\ sessions' = [p \in SessionId |-> IF sessions[p].scene = s THEN NoSession ELSE sessions[p]]
      /\ signals' = {e \in signals : e.scene # s /\ sessions[e.session].scene # s}
      /\ UNCHANGED <<qualified, recommended, phase>>
  BY DEF DeleteScene, impressionVars
<1>2. \A p \in SessionId : sessions'[p] = IF sessions[p].scene = s THEN NoSession ELSE sessions[p]
  BY <1>1
<1>3. SessionsAreReported'
  BY <1>1, <1>2 DEF PlaysInv, SessionsAreReported
<1>4. SignalsAreUnique'
  BY <1>1 DEF PlaysInv, SignalsAreUnique
<1>5. ASSUME NEW e \in signals'
      PROVE  /\ e.session \in SessionId /\ sessions'[e.session] # NoSession
             /\ e.scene \in stored' /\ sessions'[e.session].scene = e.scene
             /\ \E p \in SessionId :
                  /\ e.id \in {<<p, "view">>, <<p, "replacement">>}
                  /\ sessions'[p] # NoSession \/ Report[p].scene \notin stored'
  <2>1. e \in signals /\ e.scene # s /\ sessions[e.session].scene # s
    BY <1>1
  <2>2. PICK p \in SessionId :
          /\ e.id \in {<<p, "view">>, <<p, "replacement">>}
          /\ sessions[p] # NoSession \/ Report[p].scene \notin stored
    BY <2>1 DEF PlaysInv, SignalsAreMade
  <2>3. sessions'[p] # NoSession \/ Report[p].scene \notin stored'
    BY <1>1, <1>2, <2>2 DEF PlaysInv, SessionsAreReported
  <2> QED BY <1>1, <1>2, <2>1, <2>2, <2>3 DEF PlaysInv, SignalsAreMade
<1>6. SignalsAreMade'
  BY <1>1, <1>5 DEF PlaysInv, SignalsAreMade
<1>7. sessions' = [p \in SessionId |-> sessions'[p]]
  BY <1>1
<1> QED BY <1>1, <1>3, <1>4, <1>6, <1>7 DEF PlaysInv

LEMMA NextPlaysKeeps ==
  ASSUME PlaysInv, [NextPlays]_playVars
  PROVE  PlaysInv'
<1>1. CASE SubmitSessions
  BY <1>1, SubmitSessionsKeeps
<1>2. CASE \E s \in Listed : DeleteScene(s)
  BY <1>2, DeleteSceneKeeps
<1>3. ASSUME UNCHANGED <<stored, sessions, signals>>, recommended' = qualified',
             phase' # NoBatch => phase'.sid \in SessionId
      PROVE  PlaysInv'
  BY <1>3 DEF PlaysInv, SessionsAreReported, SignalsAreMade, SignalsAreUnique
<1>4. CASE \E items \in SUBSET (ImpressionId \X Listed), p \in SessionId : QualifyImpressions(items, p)
  BY <1>3, <1>4 DEF QualifyImpressions, PlaysInv
<1>5. CASE (\E i \in ImpressionId, scenes \in SUBSET Listed \ {{}} : RecordImpression(i, scenes)) \/ UNCHANGED playVars
  BY <1>3, <1>5 DEF RecordImpression, playVars, impressionVars, PlaysInv
<1>6. CASE SubmitDies \/ \E s \in Listed, at \in 0..MaxTime, i \in ImpressionId \cup {NoImpression} : ThumbUp(s, at, i)
  BY <1>3, <1>6 DEF SubmitDies, ThumbUp, impressionVars, PlaysInv
<1> QED BY <1>1, <1>2, <1>4, <1>5, <1>6 DEF NextPlays

\* Of a session that replaced nothing a viewer stayed with, and that Curator started.
LEMMA PlaysInvAddsUp == PlaysInv => PlaysAddUp
<1> SUFFICES ASSUME PlaysInv PROVE PlaysAddUp
  OBVIOUS
<1>1. SignalsHaveSessions
  BY DEF PlaysInv, SignalsAreMade, SignalsAreUnique, SignalsHaveSessions
<1>2. ASSUME NEW e \in signals, e.id[2] = "replacement"
      PROVE  /\ ~\E f \in signals : f.session = e.session /\ f.positive
             /\ sessions[e.session].impression # NoImpression
  <2>1. /\ e.session \in SessionId /\ sessions[e.session] # NoSession
        /\ Report[e.session].active = "short" /\ Report[e.session].origin = "curator"
    BY <1>2 DEF PlaysInv, SignalsAreMade
  <2>2. \A f \in signals : f.positive => Report[f.session].active = "long"
    BY DEF PlaysInv, SignalsAreMade
  <2>3. Report[e.session].impression # NoImpression
    BY <2>1, PlaysAssumption DEF Session
  <2> QED BY <2>1, <2>2, <2>3 DEF PlaysInv, SessionsAreReported
<1>3. \A s \in Buckets.never_shown, item \in Buckets.played : item[2] # s
  BY DEF Buckets
<1> QED BY <1>1, <1>2, <1>3 DEF PlaysAddUp, ReplacedWereLeft

(* However reports are repeated, reordered or cut short, and whatever is    *)
(* deleted in between: each signal of a play has its session and its scene, *)
(* each session makes it once, a scene that was played on is never counted  *)
(* as replaced, and what was recommended is what was qualified; for any     *)
(* scenes, impressions, sessions, reports and windows.                      *)
THEOREM PlaysAlwaysAddUp == SpecPlays => []PlaysAddUp
<1>1. InitPlays => PlaysInv
  BY PlaysInit
<1>2. PlaysInv /\ [NextPlays]_playVars => PlaysInv'
  BY NextPlaysKeeps
<1>3. PlaysInv => PlaysAddUp
  BY PlaysInvAddsUp
<1> QED BY <1>1, <1>2, <1>3, PTL DEF SpecPlays

-----------------------------------------------------------------------------
(* Slates: what the narrowing of SQL keeps, and what a fingerprint tells.   *)

\* Why a row is not shown, without the names of the reasons.
LEMMA RowShown ==
  ASSUME NEW rec
  PROVE  RowEligible(rec) <=>
           /\ rec.scene \in files
           /\ ~\E e \in excluded : e.scene = rec.scene
           /\ ~\E p \in prunings : p.scene = rec.scene /\ p.state \in {"review", "remove"}
           /\ ~ThumbedDown(rec.scene) /\ ~NotNowActive(rec.scene)
           /\ tagsOf[rec.scene] \cap BlockedTags = {}
           /\ ~(rec.from = "best_bets" /\ Played(rec.scene))
           /\ ~(rec.from = "revisit" /\ Unrecovered(rec.scene))
<1> DEFINE s == rec.scene
           firm == \/ s \notin files
                   \/ \E e \in excluded : e.scene = s
                   \/ \E p \in prunings : p.scene = s /\ p.state = "review"
                   \/ \E p \in prunings : p.scene = s /\ p.state = "remove"
                   \/ ThumbedDown(s)
                   \/ NotNowActive(s)
<1>1. FirmReasons(s) = {} <=> ~firm
  <2>1. ASSUME NEW reason \in FirmReasons(s) PROVE firm
    BY <2>1 DEF FirmReasons
  <2>2. ASSUME firm PROVE FirmReasons(s) # {}
    <3>1. CASE s \notin files
      <4>1. "file_unavailable" \in FirmReasons(s)
        BY <3>1 DEF FirmReasons
      <4> QED BY <4>1
    <3>2. CASE \E e \in excluded : e.scene = s
      <4>1. "hard_exclusion" \in FirmReasons(s)
        BY <3>2 DEF FirmReasons
      <4> QED BY <4>1
    <3>3. CASE \E p \in prunings : p.scene = s /\ p.state = "review"
      <4>1. "pruning_review" \in FirmReasons(s)
        BY <3>3 DEF FirmReasons
      <4> QED BY <4>1
    <3>4. CASE \E p \in prunings : p.scene = s /\ p.state = "remove"
      <4>1. "pruning_remove" \in FirmReasons(s)
        BY <3>4 DEF FirmReasons
      <4> QED BY <4>1
    <3>5. CASE ThumbedDown(s)
      <4>1. "current_thumb_down" \in FirmReasons(s)
        BY <3>5 DEF FirmReasons
      <4> QED BY <4>1
    <3>6. CASE NotNowActive(s)
      <4>1. "not_now" \in FirmReasons(s)
        BY <3>6 DEF FirmReasons
      <4> QED BY <4>1
    <3> QED BY <2>2, <3>1, <3>2, <3>3, <3>4, <3>5, <3>6
  <2> QED BY <2>1, <2>2
<1>2. Eligible(s) <=> FirmReasons(s) = {} /\ tagsOf[s] \cap BlockedTags = {}
  <2>1. {"blocked_tag"} # {}
    OBVIOUS
  <2> QED BY <2>1 DEF Eligible, Reasons
<1>3. firm <=> \/ s \notin files
               \/ \E e \in excluded : e.scene = s
               \/ \E p \in prunings : p.scene = s /\ p.state \in {"review", "remove"}
               \/ ThumbedDown(s)
               \/ NotNowActive(s)
  OBVIOUS
<1> HIDE DEF firm
<1> QED BY <1>1, <1>2, <1>3 DEF RowEligible

LEMMA NarrowingLosesNothing == NarrowingIsExact
<1> SUFFICES ASSUME NEW l \in Lane, NEW rec \in RowsOfLane(l), ~RowEligible(rec)
             PROVE  rec \in Suspects(RowsOfLane(l))
  BY DEF NarrowingIsExact, IneligibleLaneScenes, Suspects
<1>1. ThumbedDown(rec.scene) \/ NotNowActive(rec.scene) => \E f \in live : f.scene = rec.scene
  BY DEF ThumbedDown, NotNowActive, LatestRows, RowsOf
<1>2. Unrecovered(rec.scene) => Played(rec.scene)
  BY DEF Unrecovered
<1> QED BY <1>1, <1>2, RowShown DEF Suspects

(* In every state of feedback, corrections, exclusions, prune decisions,    *)
(* tags, files and plays, the query that narrows a lane to suspects leaves  *)
(* out only rows that the full check would pass: for any scenes, tags,      *)
(* lanes, orders and times.                                                 *)
THEOREM NarrowingStaysExact == SpecSlates => []NarrowingIsExact
  BY NarrowingLosesNothing, PTL

\* The latest time of rows, where a time bounds them.
LEMMA LatestOfRows ==
  ASSUME NEW rows, NEW n \in Nat, \A rec \in rows : rec.at \in 0..n
  PROVE  /\ LatestAt(rows) \in 0..n
         /\ \A rec \in rows : rec.at <= LatestAt(rows)
<1> DEFINE times == {rec.at : rec \in rows}
           late == {t \in Nat : \A rec \in rows : rec.at <= t}
<1>1. CASE rows = {}
  BY <1>1 DEF LatestAt
<1>2. CASE rows # {}
  <2>1. late \subseteq Nat /\ n \in late
    OBVIOUS
  <2>2. PICK t \in late : \A u \in late : <<u, t>> \notin OpToRel(<, Nat)
    <3> HIDE DEF late
    <3> QED BY <2>1, NatLessThanWellFounded, WFMin
  <2>3. t \in Nat /\ \A rec \in rows : rec.at <= t
    BY <2>2
  <2>4. t \in times
    <3>1. SUFFICES ASSUME t \notin times PROVE FALSE
      OBVIOUS
    <3>2. \A rec \in rows : rec.at <= t - 1 /\ rec.at \in Nat
      BY <2>3, <3>1
    <3>3. t - 1 \in late
      BY <1>2, <2>3, <3>2
    <3>4. t - 1 \in Nat /\ t - 1 < t
      BY <2>3, <3>3
    <3>5. <<t - 1, t>> \in OpToRel(<, Nat)
      BY <2>3, <3>4 DEF OpToRel
    <3> QED BY <2>2, <3>3, <3>5
  <2>5. \E at \in times : \A rec \in rows : rec.at <= at
    BY <2>3, <2>4
  <2>6. LatestAt(rows) \in times /\ \A rec \in rows : rec.at <= LatestAt(rows)
    BY <1>2, <2>5 DEF LatestAt
  <2> QED BY <2>6
<1> QED BY <1>1, <1>2

\* A table whose number and latest time are what they were, and which has
\* no older row than it had, is the table it was.
LEMMA SameTable ==
  ASSUME NEW rows, NEW old, NEW n \in Nat, NEW at \in 0..n,
         IsFiniteSet(old),
         \A rec \in rows : rec.at \in 0..n, \A rec \in old : rec.at \in 0..at,
         \A rec \in rows : rec.at < at => rec \in old,
         {rec \in rows : rec.at = at} \subseteq old,
         Cardinality(rows) = Cardinality(old), LatestAt(rows) = LatestAt(old)
  PROVE  rows = old
<1>1. LatestAt(old) \in 0..at
  BY LatestOfRows
<1>2. \A rec \in rows : rec.at <= LatestAt(rows)
  BY LatestOfRows
<1>3. \A rec \in rows : rec.at \in 0..n /\ rec.at <= at
  BY <1>1, <1>2
<1>4. rows \in SUBSET old
  BY <1>3
<1> QED BY <1>4, FS_Subset

\* The four tables of a fingerprint, as a record like Asked: times are not
\* of the future, and a scene has one prune decision.
Tables(t) ==
  /\ t.at \in Nat
  /\ IsFiniteSet(t.live) /\ \A rec \in t.live : rec.at \in 0..t.at
  /\ IsFiniteSet(t.excluded) /\ \A rec \in t.excluded : rec.at \in 0..t.at
  /\ IsFiniteSet(t.prunings) /\ \A rec \in t.prunings : rec.at \in 0..t.at
  /\ IsFiniteSet(t.blocks) /\ \A rec \in t.blocks : rec.at \in 0..t.at
  /\ \A p \in t.prunings : p = [scene |-> p.scene, state |-> p.state, at |-> p.at]
  /\ \A p, q \in t.prunings : p.scene = q.scene => p = q

\* What one transaction does to them.
Dated(rows, new, at) == \A rec \in new : rec \in rows \/ rec.at = at

TablesStep(t, n) ==
  /\ n.at \in {t.at, t.at + 1}
  /\ Dated(t.live, n.live, t.at) /\ Dated(t.excluded, n.excluded, t.at)
  /\ Dated(t.prunings, n.prunings, t.at) /\ Dated(t.blocks, n.blocks, t.at)
  /\ \/ n.live = t.live /\ n.excluded = t.excluded /\ n.prunings = t.prunings
     \/ /\ n.at = t.at /\ n.live = t.live /\ n.excluded = t.excluded
        /\ \E s : n.prunings = {p \in t.prunings : p.scene # s}
                               \cup {[scene |-> s, state |-> "keep", at |-> t.at]}
     \/ \E rec : rec \notin t.live /\ rec.at = t.at /\ n.live = t.live \cup {rec}
     \/ \E old \in t.live : \E rec : /\ old.at < t.at /\ rec.at = t.at
                                     /\ n.live = (t.live \ {old}) \cup {rec}

\* Tables `t` that came from tables `a`: feedback that was given or corrected
\* since leaves a trace that stays, and without it so does a scene that was kept.
LiveMoved(a, t) ==
  \/ \E rec \in t.live : rec \notin a.live
  \/ \E rec \in a.live : rec \notin t.live /\ rec.at < t.at

KeptMoved(a, t) == \E rec \in t.prunings : rec \notin a.prunings /\ rec.state = "keep"

Moved(a, t) == LiveMoved(a, t) \/ KeptMoved(a, t)

Late(a, t) ==
  /\ a.at <= t.at
  /\ \A rec \in t.live : rec.at < a.at => rec \in a.live
  /\ \A rec \in t.excluded : rec.at < a.at => rec \in a.excluded
  /\ \A rec \in t.prunings : rec.at < a.at => rec \in a.prunings
  /\ \A rec \in t.blocks : rec.at < a.at => rec \in a.blocks

Since(a, t) ==
  /\ Tables(a) /\ Late(a, t)
  /\ \/ LiveMoved(a, t)
     \/ /\ t.live = a.live /\ t.excluded = a.excluded
        /\ KeptMoved(a, t) \/ t.prunings = a.prunings

LEMMA LateStep ==
  ASSUME NEW a, NEW t, NEW n, Tables(a), Tables(t), Late(a, t), TablesStep(t, n)
  PROVE  Late(a, n)
<1>1. a.at \in Nat /\ t.at \in Nat /\ a.at <= t.at /\ n.at \in {t.at, t.at + 1}
  BY DEF Tables, Late, TablesStep
<1>2. ASSUME NEW rows, NEW new, NEW old, Dated(rows, new, t.at), \A rec \in rows : rec.at < a.at => rec \in old
      PROVE  \A rec \in new : rec.at < a.at => rec \in old
  BY <1>1, <1>2 DEF Dated
<1>3. \A rec \in n.live : rec.at < a.at => rec \in a.live
  <2>1. Dated(t.live, n.live, t.at) /\ \A rec \in t.live : rec.at < a.at => rec \in a.live
    BY DEF Late, TablesStep
  <2> QED BY <1>2, <2>1
<1>4. \A rec \in n.excluded : rec.at < a.at => rec \in a.excluded
  <2>1. Dated(t.excluded, n.excluded, t.at) /\ \A rec \in t.excluded : rec.at < a.at => rec \in a.excluded
    BY DEF Late, TablesStep
  <2> QED BY <1>2, <2>1
<1>5. \A rec \in n.prunings : rec.at < a.at => rec \in a.prunings
  <2>1. Dated(t.prunings, n.prunings, t.at) /\ \A rec \in t.prunings : rec.at < a.at => rec \in a.prunings
    BY DEF Late, TablesStep
  <2> QED BY <1>2, <2>1
<1>6. \A rec \in n.blocks : rec.at < a.at => rec \in a.blocks
  <2>1. Dated(t.blocks, n.blocks, t.at) /\ \A rec \in t.blocks : rec.at < a.at => rec \in a.blocks
    BY DEF Late, TablesStep
  <2> QED BY <1>2, <2>1
<1> QED BY <1>1, <1>3, <1>4, <1>5, <1>6 DEF Late

\* A correction takes a row that is older than it, so what it leaves is new.
LEMMA LiveMovedStep ==
  ASSUME NEW a, NEW t, NEW n, Tables(a), Tables(t), Late(a, t), TablesStep(t, n)
  PROVE  /\ LiveMoved(a, t) => LiveMoved(a, n)
         /\ t.live = a.live /\ n.live # t.live => LiveMoved(a, n)
<1>1. /\ a.at \in Nat /\ t.at \in Nat /\ a.at <= t.at /\ n.at \in {t.at, t.at + 1}
      /\ \A rec \in t.live : rec.at \in Nat /\ (rec.at < a.at => rec \in a.live)
      /\ \A rec \in a.live : rec.at \in Nat /\ rec.at <= a.at
  BY DEF Tables, Late, TablesStep
<1>2. CASE n.live = t.live
  BY <1>1, <1>2 DEF LiveMoved
<1>3. CASE \E rec : rec \notin t.live /\ rec.at = t.at /\ n.live = t.live \cup {rec}
  <2>1. PICK new : new \notin t.live /\ new.at = t.at /\ n.live = t.live \cup {new}
    BY <1>3
  <2>2. ASSUME NEW rec \in a.live, rec \notin t.live, rec.at < t.at PROVE rec \notin n.live /\ rec.at < n.at
    BY <1>1, <2>1, <2>2
  <2> QED BY <2>1, <2>2 DEF LiveMoved
<1>4. CASE \E old \in t.live : \E rec : /\ old.at < t.at /\ rec.at = t.at
                                        /\ n.live = (t.live \ {old}) \cup {rec}
  <2>1. PICK old \in t.live : \E rec : /\ old.at < t.at /\ rec.at = t.at
                                       /\ n.live = (t.live \ {old}) \cup {rec}
    BY <1>4
  <2>2. PICK new : old.at < t.at /\ new.at = t.at /\ n.live = (t.live \ {old}) \cup {new}
    BY <2>1
  <2>3. old \notin n.live /\ old.at < n.at
    BY <1>1, <2>2
  <2>4. ASSUME NEW rec \in t.live, rec \notin a.live PROVE \E r \in n.live : r \notin a.live
    <3>1. CASE rec = old
      <4>1. new \notin a.live
        BY <1>1, <2>2, <2>4, <3>1
      <4> QED BY <2>2, <4>1
    <3>2. CASE rec # old
      BY <2>2, <2>4, <3>2
    <3> QED BY <3>1, <3>2
  <2>5. ASSUME NEW rec \in a.live, rec \notin t.live, rec.at < t.at PROVE rec \notin n.live /\ rec.at < n.at
    BY <1>1, <2>2, <2>5
  <2> QED BY <2>2, <2>3, <2>4, <2>5 DEF LiveMoved
<1> QED BY <1>2, <1>3, <1>4 DEF TablesStep

LEMMA SinceStep ==
  ASSUME NEW a, NEW t, NEW n, Tables(t), Tables(n), TablesStep(t, n), Since(a, t)
  PROVE  Since(a, n) /\ (Moved(a, t) => Moved(a, n))
<1>1. Tables(a) /\ Late(a, t)
  BY DEF Since
<1>2. Late(a, n)
  BY <1>1, LateStep
<1>3. CASE LiveMoved(a, t)
  BY <1>1, <1>2, <1>3, LiveMovedStep DEF Since, Moved
<1>4. CASE t.live = a.live /\ n.live # t.live
  BY <1>1, <1>2, <1>4, LiveMovedStep DEF Since, Moved
<1>5. CASE /\ t.live = a.live /\ t.excluded = a.excluded /\ n.live = t.live
           /\ KeptMoved(a, t) \/ t.prunings = a.prunings
  <2>1. CASE n.excluded = t.excluded /\ n.prunings = t.prunings
    <3>1. KeptMoved(a, t) => KeptMoved(a, n)
      BY <2>1 DEF KeptMoved
    <3>2. ~LiveMoved(a, t)
      BY <1>5 DEF LiveMoved
    <3> QED BY <1>1, <1>2, <1>5, <2>1, <3>1, <3>2 DEF Since, Moved
  <2>2. CASE \E s : /\ n.excluded = t.excluded
                    /\ n.prunings = {p \in t.prunings : p.scene # s}
                                    \cup {[scene |-> s, state |-> "keep", at |-> t.at]}
    <3>1. PICK s : /\ n.excluded = t.excluded
                   /\ n.prunings = {p \in t.prunings : p.scene # s}
                                   \cup {[scene |-> s, state |-> "keep", at |-> t.at]}
      BY <2>2
    <3> DEFINE kept == [scene |-> s, state |-> "keep", at |-> t.at]
    <3>2. kept.scene = s /\ kept.state = "keep" /\ kept.at = t.at
      OBVIOUS
    <3>3. n.prunings = {p \in t.prunings : p.scene # s} \cup {kept}
      BY <3>1
    <3> HIDE DEF kept
    <3>4. ASSUME kept \notin a.prunings PROVE KeptMoved(a, n)
      BY <3>2, <3>3, <3>4 DEF KeptMoved
    <3>5. ASSUME kept \in a.prunings, t.prunings = a.prunings PROVE n.prunings = a.prunings
      <4>1. \A p \in t.prunings : p.scene = s => p = kept
        BY <3>2, <3>5 DEF Tables
      <4> QED BY <3>2, <3>3, <3>5, <4>1
    <3>6. ASSUME kept \in a.prunings, KeptMoved(a, t) PROVE KeptMoved(a, n)
      <4>1. PICK p \in t.prunings : p \notin a.prunings /\ p.state = "keep"
        BY <3>6 DEF KeptMoved
      <4>2. p.scene # s
        <5>1. SUFFICES ASSUME p.scene = s PROVE FALSE
          OBVIOUS
        <5>2. p.at \in Nat /\ p.at <= t.at /\ a.at \in Nat /\ t.at \in Nat /\ a.at <= t.at
          BY <1>1 DEF Tables, Late
        <5>3. p.at >= a.at /\ t.at <= a.at
          BY <1>1, <3>2, <3>6, <4>1, <5>2 DEF Tables, Late
        <5>4. p = [scene |-> p.scene, state |-> p.state, at |-> p.at]
          BY DEF Tables
        <5>5. p = kept
          BY <4>1, <5>1, <5>2, <5>3, <5>4 DEF kept
        <5> QED BY <3>6, <4>1, <5>5
      <4> QED BY <3>3, <4>1, <4>2 DEF KeptMoved
    <3>7. ~LiveMoved(a, t)
      BY <1>5 DEF LiveMoved
    <3>8. /\ KeptMoved(a, n) \/ n.prunings = a.prunings
          /\ KeptMoved(a, t) => KeptMoved(a, n)
      BY <1>5, <3>4, <3>5, <3>6
    <3>9. n.live = a.live /\ n.excluded = a.excluded
      BY <1>5, <3>1
    <3> QED BY <1>1, <1>2, <3>7, <3>8, <3>9 DEF Since, Moved
  <2>3. ASSUME NEW rec, rec \notin t.live, n.live = t.live \cup {rec} PROVE FALSE
    BY <1>5, <2>3
  <2>4. ASSUME NEW old \in t.live, NEW rec, old.at < t.at, rec.at = t.at, n.live = (t.live \ {old}) \cup {rec}
        PROVE FALSE
    <3>1. old \notin n.live
      <4>1. t.at \in Nat /\ old.at \in Nat
        BY DEF Tables
      <4> QED BY <2>4, <4>1
    <3> QED BY <1>5, <3>1
  <2> QED BY <2>1, <2>2, <2>3, <2>4 DEF TablesStep
<1> QED BY <1>3, <1>4, <1>5 DEF Since

\* The rows change as TablesStep says.
LEMMA FactsStep ==
  ASSUME Tables(Asked), FactsChange
  PROVE  Tables(Asked)' /\ TablesStep(Asked, Asked')
<1> DEFINE t == Asked
           n == Asked'
<1>1. /\ t.at = today /\ t.live = live /\ t.excluded = excluded /\ t.prunings = prunings /\ t.blocks = blocks
      /\ n.at = today' /\ n.live = live' /\ n.excluded = excluded' /\ n.prunings = prunings' /\ n.blocks = blocks'
  BY DEF Asked
<1>2. /\ today \in Nat
      /\ IsFiniteSet(live) /\ \A rec \in live : rec.at \in 0..today
      /\ IsFiniteSet(excluded) /\ \A rec \in excluded : rec.at \in 0..today
      /\ IsFiniteSet(prunings) /\ \A rec \in prunings : rec.at \in 0..today
      /\ IsFiniteSet(blocks) /\ \A rec \in blocks : rec.at \in 0..today
      /\ \A p \in prunings : p = [scene |-> p.scene, state |-> p.state, at |-> p.at]
      /\ \A p, q \in prunings : p.scene = q.scene => p = q
  BY <1>1 DEF Tables
<1> HIDE DEF t, n
\* Rows of which some go and at most one comes, of this instant.
<1>3. ASSUME NEW rows, NEW new, IsFiniteSet(rows), \A rec \in rows : rec.at \in 0..today,
             NEW one, one.at = today, new \subseteq rows \cup {one}
      PROVE  IsFiniteSet(new) /\ (\A rec \in new : rec.at \in 0..today) /\ Dated(rows, new, today)
  <2>1. IsFiniteSet(rows \cup {one})
    BY <1>3, FS_AddElement
  <2>2. new \in SUBSET (rows \cup {one})
    BY <1>3
  <2>3. IsFiniteSet(new)
    BY <2>1, <2>2, FS_Subset
  <2> QED BY <1>2, <1>3, <2>3 DEF Dated
<1>4. ASSUME NEW rows, IsFiniteSet(rows), \A rec \in rows : rec.at \in 0..today
      PROVE  Dated(rows, rows, today)
  BY DEF Dated
<1>5. CASE TimePasses
  <2>1. /\ today' = today + 1 /\ live' = live /\ excluded' = excluded /\ prunings' = prunings /\ blocks' = blocks
    BY <1>5 DEF TimePasses
  <2>2. \A x \in 0..today : x \in 0..today + 1
    BY <1>2
  <2>3. Tables(n)
    BY <1>1, <1>2, <2>1, <2>2 DEF Tables
  <2> QED BY <1>1, <2>1, <2>3 DEF Tables, TablesStep, Dated, t, n
\* A step within an instant: what it does to the tables one by one.
<1>6. ASSUME today' = today,
             NEW f, f.at = today, live' \subseteq live \cup {f},
             NEW e, e.at = today, excluded' \subseteq excluded \cup {e},
             NEW k, k.at = today, prunings' \subseteq prunings \cup {k},
             k = [scene |-> k.scene, state |-> k.state, at |-> k.at],
             k \in prunings' => \A p \in prunings' : p.scene = k.scene => p = k,
             NEW b, b.at = today, blocks' \subseteq blocks \cup {b},
             \/ live' = live /\ excluded' = excluded /\ prunings' = prunings
             \/ /\ live' = live /\ excluded' = excluded
                /\ \E s : prunings' = {p \in prunings : p.scene # s}
                                      \cup {[scene |-> s, state |-> "keep", at |-> today]}
             \/ \E rec : rec \notin live /\ rec.at = today /\ live' = live \cup {rec}
             \/ \E old \in live : \E rec : /\ old.at < today /\ rec.at = today
                                           /\ live' = (live \ {old}) \cup {rec}
      PROVE  Tables(Asked)' /\ TablesStep(Asked, Asked')
  <2>1. IsFiniteSet(live') /\ (\A rec \in live' : rec.at \in 0..today) /\ Dated(live, live', today)
    BY <1>2, <1>3, <1>6
  <2>2. IsFiniteSet(excluded') /\ (\A rec \in excluded' : rec.at \in 0..today) /\ Dated(excluded, excluded', today)
    BY <1>2, <1>3, <1>6
  <2>3. IsFiniteSet(prunings') /\ (\A rec \in prunings' : rec.at \in 0..today) /\ Dated(prunings, prunings', today)
    BY <1>2, <1>3, <1>6
  <2>4. IsFiniteSet(blocks') /\ (\A rec \in blocks' : rec.at \in 0..today) /\ Dated(blocks, blocks', today)
    BY <1>2, <1>3, <1>6
  <2>5. /\ \A p \in prunings' : p = [scene |-> p.scene, state |-> p.state, at |-> p.at]
        /\ \A p, q \in prunings' : p.scene = q.scene => p = q
    BY <1>2, <1>6
  <2>6. Tables(n)
    BY <1>1, <1>2, <1>6, <2>1, <2>2, <2>3, <2>4, <2>5 DEF Tables
  <2>7. TablesStep(t, n)
    <3>1. n.at = t.at
      BY <1>1, <1>6
    <3>2. /\ Dated(t.live, n.live, t.at) /\ Dated(t.excluded, n.excluded, t.at)
          /\ Dated(t.prunings, n.prunings, t.at) /\ Dated(t.blocks, n.blocks, t.at)
      BY <1>1, <2>1, <2>2, <2>3, <2>4
    <3>3. \/ n.live = t.live /\ n.excluded = t.excluded /\ n.prunings = t.prunings
          \/ /\ n.live = t.live /\ n.excluded = t.excluded
             /\ \E s : n.prunings = {p \in t.prunings : p.scene # s}
                                    \cup {[scene |-> s, state |-> "keep", at |-> t.at]}
          \/ \E rec : rec \notin t.live /\ rec.at = t.at /\ n.live = t.live \cup {rec}
          \/ \E old \in t.live : \E rec : /\ old.at < t.at /\ rec.at = t.at
                                          /\ n.live = (t.live \ {old}) \cup {rec}
      BY <1>1, <1>6
    <3> QED BY <3>1, <3>2, <3>3 DEF TablesStep
  <2> QED BY <2>6, <2>7 DEF t, n
\* A row of each table as an action may write it.
<1> DEFINE noFeedback == [scene |-> "", type |-> "", at |-> today]
           noRow == [scene |-> "", at |-> today]
           noDecision(s, state) == [scene |-> s, state |-> state, at |-> today]
           noBlock == [tag |-> "", at |-> today]
<1>7. ASSUME UNCHANGED <<live, excluded, prunings>>, today' = today,
             NEW b, b.at = today, blocks' \subseteq blocks \cup {b}
      PROVE  Tables(Asked)' /\ TablesStep(Asked, Asked')
  <2>1. \A p \in prunings : \A q \in prunings : p.scene = q.scene => p = q
    BY <1>2
  <2> DEFINE k == noDecision("", "keep")
  <2>2. k = [scene |-> k.scene, state |-> k.state, at |-> k.at] /\ k.at = today
    OBVIOUS
  <2>3. noFeedback.at = today /\ noRow.at = today
    OBVIOUS
  <2> HIDE DEF k, noFeedback, noRow
  <2>4. k \in prunings' => \A p \in prunings' : p.scene = k.scene => p = k
    BY <1>7, <2>1
  <2> QED BY <1>6, <1>7, <2>2, <2>3, <2>4
<1>8. CASE (\E s \in Touched : FilesChange(s)) \/ (\E s \in Touched, ts \in SUBSET Tag : Retag(s, ts))
           \/ (\E s \in Touched : Play(s))
  <2>1. UNCHANGED <<live, excluded, prunings, blocks>> /\ today' = today
    BY <1>8 DEF FilesChange, Retag, Play
  <2>2. noBlock.at = today /\ blocks' \subseteq blocks \cup {noBlock}
    BY <2>1
  <2> HIDE DEF noBlock
  <2> QED BY <1>7, <2>1, <2>2
<1>9. ASSUME NEW tag \in Tag, BlockTag(tag) PROVE Tables(Asked)' /\ TablesStep(Asked, Asked')
  <2> DEFINE b == [tag |-> tag, at |-> today]
  <2>1. UNCHANGED <<live, excluded, prunings>> /\ today' = today /\ blocks' \subseteq blocks \cup {b} /\ b.at = today
    BY <1>9 DEF BlockTag
  <2> HIDE DEF b
  <2> QED BY <1>7, <2>1
<1>10. ASSUME NEW s \in Touched, KeepScene(s) PROVE Tables(Asked)' /\ TablesStep(Asked, Asked')
  <2> DEFINE k == noDecision(s, "keep")
  <2>1. k = [scene |-> k.scene, state |-> k.state, at |-> k.at] /\ k.at = today /\ k.scene = s
    OBVIOUS
  <2>2. noFeedback.at = today /\ noRow.at = today /\ noBlock.at = today
    OBVIOUS
  <2>3. /\ UNCHANGED <<today, live, excluded, blocks>>
        /\ prunings' = {p \in prunings : p.scene # s} \cup {[scene |-> s, state |-> "keep", at |-> today]}
    BY <1>10 DEF KeepScene
  <2>4. prunings' = {p \in prunings : p.scene # s} \cup {k}
    BY <2>3
  <2> HIDE DEF k, noFeedback, noRow, noBlock
  <2>5. k \in prunings' => \A p \in prunings' : p.scene = k.scene => p = k
    BY <2>1, <2>4
  <2>6. prunings' \subseteq prunings \cup {k} /\ live' \subseteq live \cup {noFeedback}
        /\ excluded' \subseteq excluded \cup {noRow} /\ blocks' \subseteq blocks \cup {noBlock}
    BY <2>3, <2>4
  <2> QED BY <1>6, <2>1, <2>2, <2>3, <2>5, <2>6
<1>11. ASSUME NEW s \in Touched, NEW type, GiveFeedback(s, type)
       PROVE  Tables(Asked)' /\ TablesStep(Asked, Asked')
  <2> DEFINE k == noDecision(s, "review")
             f == [scene |-> s, type |-> type, at |-> today]
             e == [scene |-> s, at |-> today]
  <2>1. k = [scene |-> k.scene, state |-> k.state, at |-> k.at] /\ k.at = today /\ k.scene = s
    OBVIOUS
  <2>2. f.at = today /\ f.scene = s /\ e.at = today /\ noBlock.at = today
    OBVIOUS
  <2>3. /\ UNCHANGED <<today, blocks>> /\ ~\E rec \in live : rec.scene = s /\ rec.at = today
        /\ live' = live \cup {f} /\ excluded' \subseteq excluded \cup {e}
        /\ prunings' = prunings \/ prunings' = {p \in prunings : p.scene # s} \cup {k}
    BY <1>11 DEF GiveFeedback
  <2> HIDE DEF k, f, e, noBlock
  <2>4. k \in prunings' => \A p \in prunings' : p.scene = k.scene => p = k
    BY <1>2, <2>1, <2>3
  <2>5. f \notin live
    BY <2>2, <2>3
  <2>6. /\ prunings' \subseteq prunings \cup {k} /\ blocks' \subseteq blocks \cup {noBlock}
        /\ live' \subseteq live \cup {f}
        /\ \E rec : rec \notin live /\ rec.at = today /\ live' = live \cup {rec}
    BY <2>2, <2>3, <2>5
  <2> QED BY <1>6, <2>1, <2>2, <2>3, <2>4, <2>6
<1>12. ASSUME NEW old \in live, NEW type, ReplaceFeedback(old, type)
       PROVE  Tables(Asked)' /\ TablesStep(Asked, Asked')
  <2> DEFINE k == noDecision("", "keep")
             f == [scene |-> old.scene, type |-> type, at |-> today]
  <2>1. k = [scene |-> k.scene, state |-> k.state, at |-> k.at] /\ k.at = today
    OBVIOUS
  <2>2. f.at = today /\ noRow.at = today /\ noBlock.at = today
    OBVIOUS
  <2>3. /\ UNCHANGED <<today, blocks>> /\ old.at < today
        /\ live' = (live \ {old}) \cup {f} /\ excluded' \subseteq excluded /\ prunings' \subseteq prunings
    BY <1>12 DEF ReplaceFeedback
  <2> HIDE DEF k, f, noRow, noBlock
  <2>4. k \in prunings' => \A p \in prunings' : p.scene = k.scene => p = k
    BY <1>2, <2>3
  <2>5. /\ prunings' \subseteq prunings \cup {k} /\ blocks' \subseteq blocks \cup {noBlock}
        /\ live' \subseteq live \cup {f} /\ excluded' \subseteq excluded \cup {noRow}
        /\ \E o \in live : \E rec : o.at < today /\ rec.at = today /\ live' = (live \ {o}) \cup {rec}
    BY <2>2, <2>3
  <2> QED BY <1>6, <2>1, <2>2, <2>3, <2>4, <2>5
<1> QED BY <1>5, <1>8, <1>9, <1>10, <1>11, <1>12 DEF FactsChange

\* What was read of the tables when a fingerprint was taken of them.
Looks(f, a) ==
  /\ f[1] = Cardinality(a.live) /\ f[2] = LatestAt(a.live)
  /\ f[3] = Cardinality(a.excluded) /\ f[4] = LatestAt(a.excluded)
  /\ f[5] = Cardinality(a.prunings) /\ f[6] = LatestAt(a.prunings)
  /\ f[7] = Cardinality(a.blocks) /\ f[8] = LatestAt(a.blocks)

\* RowEligible by tables and by what a count saw besides (Unseen).
DownIn(rows, s) ==
  \E rec \in LatestRows({r \in rows : r.scene = s /\ r.type \in {"thumb_up", "thumb_down"}}) :
    rec.type = "thumb_down"

FitsBy(rec, t, u) ==
  /\ rec.scene \in u[1]
  /\ ~\E e \in t.excluded : e.scene = rec.scene
  /\ ~\E p \in t.prunings : p.scene = rec.scene /\ p.state \in {"review", "remove"}
  /\ ~DownIn(t.live, rec.scene) /\ rec.scene \notin u[4]
  /\ u[3][rec.scene] \cap {b.tag : b \in t.blocks} = {}
  /\ ~(rec.from = "best_bets" /\ \E play \in u[2] : play.scene = rec.scene)
  /\ ~(rec.from = "revisit" /\ rec.scene \in u[5])

FittingRows(l, t, u) == {rec \in RowsOfLane(l) : FitsBy(rec, t, u)}

\* A count was right when it was taken, unless by then the tables were no
\* longer those of its fingerprint, of which there is a trace.
CountIsOf(l, c, t) ==
  /\ Looks(c.fingerprint, c.asked) /\ Since(c.asked, t)
  /\ \/ c.torn
     \/ Moved(c.asked, t)
     \/ c.count = Cardinality(FittingRows(l, c.asked, c.unseen))

CountsInv ==
  /\ Tables(Asked)
  /\ request # NoRequest => /\ request.lane \in Lane
                            /\ Looks(request.fingerprint, request.asked) /\ Since(request.asked, Asked)
  /\ counts = [l \in Lane |-> counts[l]]
  /\ \A l \in Lane : counts[l] # NoCount => CountIsOf(l, counts[l], Asked)

LEMMA RowFits ==
  ASSUME NEW l \in Lane, NEW t, t.live = live, t.excluded = excluded, t.prunings = prunings, t.blocks = blocks
  PROVE  FittingRows(l, t, Unseen) = {rec \in RowsOfLane(l) : RowEligible(rec)}
<1> DEFINE u == Unseen
<1>1. /\ u[1] = files /\ u[2] = plays /\ u[3] = tagsOf
      /\ u[4] = {s \in Scene : NotNowActive(s)} /\ u[5] = {s \in Scene : Unrecovered(s)}
  BY DEF Unseen
<1> HIDE DEF u
<1>2. SUFFICES ASSUME NEW rec \in RowsOfLane(l) PROVE FitsBy(rec, t, u) <=> RowEligible(rec)
  BY DEF FittingRows, u
<1>3. rec.scene \in Scene
  <2>1. LaneOrder[l] \in Seq([scene : Scene, from : STRING])
    BY SlatesAssumption
  <2>2. PICK i \in DOMAIN LaneOrder[l] : rec = LaneOrder[l][i]
    BY DEF RowsOfLane
  <2> DEFINE LaneRow == [scene : Scene, from : STRING]
  <2>3. \A e \in LaneRow : e.scene \in Scene
    OBVIOUS
  <2>4. LaneOrder[l] \in Seq(LaneRow)
    BY <2>1
  <2> HIDE DEF LaneRow
  <2>5. rec \in LaneRow
    BY <2>2, <2>4
  <2> QED BY <2>3, <2>5
<1>4. DownIn(t.live, rec.scene) <=> ThumbedDown(rec.scene)
  BY DEF DownIn, ThumbedDown, RowsOf
<1>5. u[3][rec.scene] \cap {b.tag : b \in t.blocks} = tagsOf[rec.scene] \cap BlockedTags
  BY <1>1 DEF BlockedTags
<1>6. rec.scene \in u[4] <=> NotNowActive(rec.scene)
  BY <1>1, <1>3
<1>7. rec.scene \in u[5] <=> Unrecovered(rec.scene)
  BY <1>1, <1>3
<1>8. (\E play \in u[2] : play.scene = rec.scene) <=> Played(rec.scene)
  BY <1>1 DEF Played
<1> QED BY <1>1, <1>4, <1>5, <1>6, <1>7, <1>8, RowShown DEF FitsBy

LEMMA RowsAreCounted ==
  ASSUME NEW l \in Lane
  PROVE  Cardinality(RowsOfLane(l)) - Cardinality(IneligibleLaneScenes(RowsOfLane(l)))
           = Cardinality({rec \in RowsOfLane(l) : RowEligible(rec)})
<1> DEFINE order == LaneOrder[l]
           rows == RowsOfLane(l)
           bad == {rec \in rows : ~RowEligible(rec)}
           good == {rec \in rows : RowEligible(rec)}
<1>1. order \in Seq([scene : Scene, from : STRING])
  BY SlatesAssumption
<1>2. DOMAIN order = 1..Len(order) /\ Len(order) \in Nat
  BY <1>1
<1>3. IsFiniteSet(DOMAIN order)
  <2> HIDE DEF order
  <2>1. IsFiniteSet(1..Len(order))
    BY <1>2, FS_Interval
  <2> QED BY <1>2, <2>1
<1>4. order \in Surjection(DOMAIN order, rows)
  BY <1>1, <1>2 DEF Surjection, RowsOfLane
<1>5. IsFiniteSet(rows)
  BY <1>3, <1>4, FS_Surjection
<1>6. IsFiniteSet(bad) /\ Cardinality(rows \ good) = Cardinality(rows) - Cardinality(rows \cap good)
  <2>1. bad \in SUBSET rows
    OBVIOUS
  <2> QED BY <1>5, <2>1, FS_Subset, FS_Difference
<1>7. rows \ good = bad /\ rows \cap good = good
  OBVIOUS
<1>8. Cardinality(rows) \in Nat /\ Cardinality(bad) \in Nat /\ Cardinality(good) \in Nat
  <2>1. good \in SUBSET rows
    OBVIOUS
  <2>2. IsFiniteSet(good)
    BY <1>5, <2>1, FS_Subset
  <2> QED BY <1>5, <1>6, <2>2, FS_CardinalityType
<1>9. IneligibleLaneScenes(rows) = bad
  BY NarrowingLosesNothing DEF NarrowingIsExact
<1> HIDE DEF rows, bad, good
<1>10. Cardinality(rows) - Cardinality(bad) = Cardinality(good)
  BY <1>6, <1>7, <1>8
<1> QED BY <1>9, <1>10 DEF rows, good

LEMMA CountsInit == InitFacts /\ InitSlates => CountsInv
<1> SUFFICES ASSUME InitFacts, InitSlates PROVE CountsInv
  OBVIOUS
<1>1. IsFiniteSet({})
  BY FS_EmptySet
<1>2. Tables(Asked)
  BY <1>1 DEF InitFacts, Tables, Asked
<1> QED BY <1>2 DEF InitSlates, CountsInv

\* The tables change under a count and a request.
LEMMA CountsWhenFactsChange ==
  ASSUME CountsInv, FactsChange, UNCHANGED <<counts, request>>
  PROVE  CountsInv'
<1>1. Tables(Asked)' /\ TablesStep(Asked, Asked')
  BY FactsStep DEF CountsInv
<1>2. ASSUME NEW a, Since(a, Asked)
      PROVE  Since(a, Asked') /\ (Moved(a, Asked) => Moved(a, Asked'))
  BY <1>1, <1>2, SinceStep DEF CountsInv
<1>3. ASSUME NEW l \in Lane, NEW c, CountIsOf(l, c, Asked)
      PROVE  CountIsOf(l, c, Asked')
  BY <1>2, <1>3 DEF CountIsOf
<1> QED BY <1>1, <1>2, <1>3 DEF CountsInv

\* A fingerprint and a count are taken while the tables stand still.
LEMMA CountsOfRequests ==
  ASSUME CountsInv, UNCHANGED factVars,
         \/ \E l \in Lane, page \in 1..2, hiding \in Hiding, drawn \in BOOLEAN : AskSlate(l, page, hiding, drawn)
         \/ UseCount \/ AvailableCount \/ ServeSlate
  PROVE  CountsInv'
<1>1. Asked' = Asked
  BY DEF factVars, Asked
<1>2. ASSUME NEW l \in Lane, NEW page, NEW hiding, NEW drawn, AskSlate(l, page, hiding, drawn)
      PROVE  CountsInv'
  <2>1. counts' = counts /\ request'.lane = l /\ request'.asked = Asked
        /\ request'.fingerprint = EligibilityFingerprint
    BY <1>2 DEF AskSlate
  <2>2. Looks(EligibilityFingerprint, Asked)
    BY DEF Looks, EligibilityFingerprint, Asked
  <2>3. Since(Asked, Asked)
    BY DEF Since, Late, CountsInv, Tables
  <2> QED BY <1>1, <2>1, <2>2, <2>3 DEF CountsInv
<1>3. CASE UseCount
  <2>1. counts' = counts /\ request # NoRequest
    BY <1>3 DEF UseCount, NoRequest
  <2>2. request'.lane = request.lane /\ request'.asked = request.asked
        /\ request'.fingerprint = request.fingerprint
    BY <1>3 DEF UseCount
  <2> QED BY <1>1, <2>1, <2>2 DEF CountsInv
<1>4. CASE AvailableCount
  <2> DEFINE l == request.lane
             c == [count |-> Cardinality(RowsOfLane(l)) - Cardinality(IneligibleLaneScenes(RowsOfLane(l))),
                   fingerprint |-> request.fingerprint, unseen |-> Unseen, asked |-> request.asked,
                   torn |-> blocks # request.asked.blocks]
  <2>1. request # NoRequest
    BY <1>4 DEF AvailableCount, NoRequest
  <2>2. /\ request'.lane = request.lane /\ request'.asked = request.asked
        /\ request'.fingerprint = request.fingerprint
    BY <1>4 DEF AvailableCount
  <2>3. counts' = [counts EXCEPT ![l] = c]
    BY <1>4 DEF AvailableCount
  <2>4. l \in Lane /\ Looks(request.fingerprint, request.asked) /\ Since(request.asked, Asked)
    BY <2>1 DEF CountsInv
  <2>5. /\ c.count = Cardinality({rec \in RowsOfLane(l) : RowEligible(rec)})
        /\ c.fingerprint = request.fingerprint /\ c.asked = request.asked /\ c.unseen = Unseen
        /\ c.torn <=> blocks # request.asked.blocks
    BY <2>4, RowsAreCounted
  <2> HIDE DEF c
  <2>6. ASSUME ~c.torn, ~Moved(c.asked, Asked)
        PROVE  c.count = Cardinality(FittingRows(l, c.asked, c.unseen))
    <3>1. /\ c.asked.live = live /\ c.asked.excluded = excluded /\ c.asked.prunings = prunings
          /\ c.asked.blocks = blocks
      BY <2>4, <2>5, <2>6 DEF Since, Moved, Asked
    <3> QED BY <2>4, <2>5, <3>1, RowFits
  <2>7. CountIsOf(l, c, Asked)
    BY <2>4, <2>5, <2>6 DEF CountIsOf
  <2>8. counts' = [m \in Lane |-> IF m = l THEN c ELSE counts[m]]
    BY <2>3 DEF CountsInv
  <2> QED BY <1>1, <2>1, <2>2, <2>4, <2>7, <2>8 DEF CountsInv
<1>5. CASE ServeSlate
  BY <1>1, <1>5 DEF ServeSlate, CountsInv
<1> QED BY <1>2, <1>3, <1>4, <1>5

LEMMA CountsNext == CountsInv /\ [NextSlates]_<<factVars, slateVars>> => CountsInv'
<1> SUFFICES ASSUME CountsInv, [NextSlates]_<<factVars, slateVars>> PROVE CountsInv'
  OBVIOUS
<1>1. CASE UNCHANGED <<factVars, slateVars>>
  <2>1. Asked' = Asked /\ counts' = counts /\ request' = request
    BY <1>1 DEF factVars, slateVars, Asked
  <2> QED BY <2>1 DEF CountsInv
<1> QED BY <1>1, CountsWhenFactsChange, CountsOfRequests DEF NextSlates

LEMMA CountsInvIsRight == CountsInv => CachedCountIsRight
<1> SUFFICES ASSUME CountsInv, NEW l \in Lane, NEW c, c = counts[l],
                    c # NoCount, ~c.torn, NothingBeside(c.asked),
                    c.fingerprint = EligibilityFingerprint, c.unseen = Unseen
             PROVE  c.count = Cardinality({rec \in RowsOfLane(l) : RowEligible(rec)})
  BY DEF CachedCountIsRight
<1> DEFINE a == c.asked
<1>1. Tables(Asked) /\ CountIsOf(l, c, Asked)
  BY DEF CountsInv
<1>2. Looks(c.fingerprint, a) /\ Since(a, Asked) /\ Tables(a) /\ Late(a, Asked)
  BY <1>1 DEF CountIsOf, Since
<1>3. today \in Nat /\ a.at \in 0..today
  BY <1>1, <1>2 DEF Tables, Late, Asked
<1>4. live = a.live
  <2>1. /\ IsFiniteSet(a.live) /\ (\A rec \in live : rec.at \in 0..today)
        /\ (\A rec \in a.live : rec.at \in 0..a.at) /\ (\A rec \in live : rec.at < a.at => rec \in a.live)
    BY <1>1, <1>2 DEF Tables, Late, Asked
  <2>2. {rec \in live : rec.at = a.at} \subseteq a.live
    BY DEF NothingBeside
  <2>3. Cardinality(live) = Cardinality(a.live) /\ LatestAt(live) = LatestAt(a.live)
    BY <1>2 DEF Looks, EligibilityFingerprint
  <2> QED BY <1>3, <2>1, <2>2, <2>3, SameTable
<1>5. excluded = a.excluded
  <2>1. /\ IsFiniteSet(a.excluded) /\ (\A rec \in excluded : rec.at \in 0..today)
        /\ (\A rec \in a.excluded : rec.at \in 0..a.at) /\ (\A rec \in excluded : rec.at < a.at => rec \in a.excluded)
    BY <1>1, <1>2 DEF Tables, Late, Asked
  <2>2. {rec \in excluded : rec.at = a.at} \subseteq a.excluded
    BY DEF NothingBeside
  <2>3. Cardinality(excluded) = Cardinality(a.excluded) /\ LatestAt(excluded) = LatestAt(a.excluded)
    BY <1>2 DEF Looks, EligibilityFingerprint
  <2> QED BY <1>3, <2>1, <2>2, <2>3, SameTable
<1>6. prunings = a.prunings
  <2>1. /\ IsFiniteSet(a.prunings) /\ (\A rec \in prunings : rec.at \in 0..today)
        /\ (\A rec \in a.prunings : rec.at \in 0..a.at) /\ (\A rec \in prunings : rec.at < a.at => rec \in a.prunings)
    BY <1>1, <1>2 DEF Tables, Late, Asked
  <2>2. {rec \in prunings : rec.at = a.at} \subseteq a.prunings
    BY DEF NothingBeside
  <2>3. Cardinality(prunings) = Cardinality(a.prunings) /\ LatestAt(prunings) = LatestAt(a.prunings)
    BY <1>2 DEF Looks, EligibilityFingerprint
  <2> QED BY <1>3, <2>1, <2>2, <2>3, SameTable
<1>7. blocks = a.blocks
  <2>1. /\ IsFiniteSet(a.blocks) /\ (\A rec \in blocks : rec.at \in 0..today)
        /\ (\A rec \in a.blocks : rec.at \in 0..a.at) /\ (\A rec \in blocks : rec.at < a.at => rec \in a.blocks)
    BY <1>1, <1>2 DEF Tables, Late, Asked
  <2>2. {rec \in blocks : rec.at = a.at} \subseteq a.blocks
    BY DEF NothingBeside
  <2>3. Cardinality(blocks) = Cardinality(a.blocks) /\ LatestAt(blocks) = LatestAt(a.blocks)
    BY <1>2 DEF Looks, EligibilityFingerprint
  <2> QED BY <1>3, <2>1, <2>2, <2>3, SameTable
<1>8. ~Moved(a, Asked)
  BY <1>4, <1>6 DEF Moved, LiveMoved, KeptMoved, Asked
<1>9. c.count = Cardinality(FittingRows(l, a, Unseen))
  BY <1>1, <1>8 DEF CountIsOf
<1>10. FittingRows(l, a, Unseen) = {rec \in RowsOfLane(l) : RowEligible(rec)}
  BY <1>4, <1>5, <1>6, <1>7, RowFits
<1> QED BY <1>9, <1>10

(* However feedback, corrections, exclusions, prune decisions and blocked   *)
(* tags interleave with requests that fingerprint, count and serve a lane:  *)
(* a count served from the cache is the lane's, apart from what no          *)
(* fingerprint shows; for any scenes, tags, lanes, orders and times.        *)
THEOREM CachedCountsStayRight == SpecSlates => []CachedCountIsRight
  BY CountsInit, CountsNext, CountsInvIsRight, PTL DEF SpecSlates

-----------------------------------------------------------------------------
(* Lanes: what laneClassify makes of scores, plays and the library.         *)

\* What MapThenSumSet adds, given the sums of smaller sets.
Step(g, S) == [s \in S |-> IF s = {} THEN 0
                           ELSE (CHOOSE x \in s : TRUE).value + g[s \ {CHOOSE x \in s : TRUE}]]

LEMMA SumsExist ==
  ASSUME NEW W, IsFiniteSet(W), \A f \in W : f.value \in Int
  PROVE  \E g \in [SUBSET W -> Int] : g = Step(g, SUBSET W)
<1> DEFINE Upto(g, n) == \A s \in SUBSET W : Cardinality(s) <= n => g[s] = Step(g, SUBSET W)[s]
           Reached(n) == \E g \in [SUBSET W -> Int] : Upto(g, n)
           missed == {n \in Nat : ~Reached(n)}
<1>1. \A s \in SUBSET W : IsFiniteSet(s) /\ Cardinality(s) \in Nat /\ Cardinality(s) <= Cardinality(W)
  BY FS_Subset, FS_CardinalityType
<1>2. \A g \in [SUBSET W -> Int] : Step(g, SUBSET W) \in [SUBSET W -> Int]
  <2>1. SUFFICES ASSUME NEW g \in [SUBSET W -> Int], NEW s \in SUBSET W, s # {}
                 PROVE  (CHOOSE x \in s : TRUE).value + g[s \ {CHOOSE x \in s : TRUE}] \in Int
    BY DEF Step
  <2>2. (CHOOSE x \in s : TRUE) \in s
    BY <2>1
  <2>3. s \ {CHOOSE x \in s : TRUE} \in SUBSET W
    BY <2>1
  <2> HIDE DEF Upto
  <2> QED BY <2>1, <2>2, <2>3
<1>3. ASSUME NEW n \in Nat, NEW g \in [SUBSET W -> Int], \A s \in SUBSET W : Cardinality(s) < n => g[s] = Step(g, SUBSET W)[s]
      PROVE  Reached(n)
  <2> DEFINE h == Step(g, SUBSET W)
  <2>1. h \in [SUBSET W -> Int]
    BY <1>2
  <2>2. ASSUME NEW s \in SUBSET W, Cardinality(s) <= n PROVE h[s] = Step(h, SUBSET W)[s]
    <3>1. CASE s = {}
      BY <3>1 DEF Step
    <3>2. CASE s # {}
      <4> DEFINE x == CHOOSE y \in s : TRUE
      <4>1. x \in s
        BY <3>2
      <4>2. s \ {x} \in SUBSET W
        OBVIOUS
      <4>3. Cardinality(s \ {x}) = Cardinality(s) - 1 /\ Cardinality(s) \in Nat
        BY <1>1, <4>1, FS_RemoveElement
      <4>4. h[s \ {x}] = g[s \ {x}]
        <5>1. Cardinality(s \ {x}) < n
          BY <1>3, <2>2, <4>3
        <5> QED BY <1>3, <4>2, <5>1
      <4>5. h[s] = x.value + g[s \ {x}] /\ Step(h, SUBSET W)[s] = x.value + h[s \ {x}]
        BY <3>2 DEF Step
      <4> QED BY <4>4, <4>5
    <3> QED BY <3>1, <3>2
  <2> QED BY <2>1, <2>2
<1>4. missed = {}
  <2>1. SUFFICES ASSUME missed # {} PROVE FALSE
    OBVIOUS
  <2>2. PICK n \in missed : \A m \in missed : n <= m
    BY <2>1, LeastOf
  <2>3. n \in Nat /\ ~Reached(n)
    OBVIOUS
  <2>4. \E g \in [SUBSET W -> Int] : \A s \in SUBSET W : Cardinality(s) < n => g[s] = Step(g, SUBSET W)[s]
    <3>1. CASE n = 0
      <4>1. [s \in SUBSET W |-> 0] \in [SUBSET W -> Int]
        OBVIOUS
      <4>2. \A s \in SUBSET W : ~(Cardinality(s) < 0)
        BY <1>1
      <4> QED BY <3>1, <4>1, <4>2
    <3>2. CASE n # 0
      <4>1. n - 1 \in Nat /\ ~(n <= n - 1)
        BY <2>3, <3>2
      <4>2. Reached(n - 1)
        BY <2>2, <4>1
      <4>3. PICK g \in [SUBSET W -> Int] : Upto(g, n - 1)
        BY <4>2
      <4>4. \A s \in SUBSET W : Cardinality(s) < n => Cardinality(s) <= n - 1
        BY <1>1, <2>3
      <4> QED BY <4>3, <4>4
    <3> QED BY <3>1, <3>2
  <2> HIDE DEF Reached, missed
  <2> QED BY <1>3, <2>3, <2>4
<1>5. PICK g \in [SUBSET W -> Int] : Upto(g, Cardinality(W))
  <2>1. Cardinality(W) \in Nat
    BY FS_CardinalityType
  <2>2. Reached(Cardinality(W))
    BY <1>4, <2>1
  <2> QED BY <2>2
<1>6. \A s \in SUBSET W : g[s] = Step(g, SUBSET W)[s]
  BY <1>1, <1>5
<1>7. Step(g, SUBSET W) \in [SUBSET W -> Int]
  BY <1>2
<1>8. g = Step(g, SUBSET W)
  <2> DEFINE h == Step(g, SUBSET W)
  <2>1. h \in [SUBSET W -> Int] /\ \A s \in SUBSET W : g[s] = h[s]
    BY <1>6, <1>7
  <2> HIDE DEF h
  <2>2. g = h
    BY <2>1
  <2> QED BY <2>2 DEF h
<1> QED BY <1>8

LEMMA SumsAreInt ==
  ASSUME NEW W, IsFiniteSet(W), \A f \in W : f.value \in Int, NEW g, g = Step(g, SUBSET W)
  PROVE  \A s \in SUBSET W : g[s] \in Int
<1> DEFINE wrong == {s \in SUBSET W : g[s] \notin Int}
           sizes == {Cardinality(s) : s \in wrong}
<1>1. \A s \in SUBSET W : IsFiniteSet(s) /\ Cardinality(s) \in Nat
  BY FS_Subset, FS_CardinalityType
<1>2. SUFFICES ASSUME wrong # {} PROVE FALSE
  OBVIOUS
<1>3. PICK n \in sizes : \A m \in sizes : n <= m
  <2>1. sizes \subseteq Nat /\ sizes # {}
    BY <1>1, <1>2
  <2> HIDE DEF sizes
  <2> QED BY <2>1, LeastOf
<1>4. PICK s \in wrong : n = Cardinality(s)
  BY <1>3
<1>5. g[s] = IF s = {} THEN 0 ELSE (CHOOSE x \in s : TRUE).value + g[s \ {CHOOSE x \in s : TRUE}]
  BY <1>4 DEF Step
<1>6. s # {}
  BY <1>4, <1>5
<1> DEFINE x == CHOOSE y \in s : TRUE
<1>7. x \in s /\ x.value \in Int
  BY <1>6
<1>8. Cardinality(s \ {x}) = Cardinality(s) - 1 /\ Cardinality(s) \in Nat
  BY <1>1, <1>7, FS_RemoveElement
<1>9. s \ {x} \notin wrong
  <2>1. s \ {x} \in wrong => Cardinality(s \ {x}) \in sizes
    OBVIOUS
  <2> HIDE DEF sizes, wrong, x
  <2> QED BY <1>3, <1>4, <1>8, <2>1
<1>10. g[s \ {x}] \in Int
  BY <1>9
<1> QED BY <1>4, <1>5, <1>6, <1>7, <1>10

LEMMA ValuesAddUp ==
  ASSUME NEW W, IsFiniteSet(W), \A f \in W : f.value \in Int
  PROVE  MapThenSumSet(LAMBDA f : f.value, W) \in Int
<1> DEFINE iter == CHOOSE g : g = Step(g, SUBSET W)
<1>1. iter = Step(iter, SUBSET W)
  BY SumsExist
<1>2. MapThenSumSet(LAMBDA f : f.value, W) = iter[W]
  BY DEF MapThenSumSet, MapThenFoldSet, Step
<1>3. \A s \in SUBSET W : iter[s] \in Int
  <2> HIDE DEF iter
  <2> QED BY <1>1, SumsAreInt
<1> HIDE DEF iter
<1> QED BY <1>2, <1>3

-----------------------------------------------------------------------------
\* A percentile lies between 0 and 60, whatever the ties.
LEMMA DivisionIsBounded ==
  ASSUME NEW a \in Nat, NEW b \in Nat \ {0}, a <= 60 * b PROVE a \div b \in 0..60
OBVIOUS

LEMMA PercentilesAreBounded ==
  ASSUME NEW D, IsFiniteSet(D), NEW v \in [D -> Int], NEW s \in D
  PROVE  Percentiles(v)[s] \in 0..60
<1> DEFINE below == {t \in D : v[t] < v[s]}
           upto == {t \in D : v[t] <= v[s]}
           start == Cardinality(below)
           end == Cardinality(upto)
           n == Cardinality(D)
           last == IF n > 1 THEN n - 1 ELSE 1
<1>1. below \in SUBSET upto /\ upto \in SUBSET D /\ s \in upto /\ s \notin below
  OBVIOUS
<1>2. IsFiniteSet(upto) /\ IsFiniteSet(below) /\ end <= n /\ start \in Nat /\ end \in Nat /\ n \in Nat
  <2> HIDE DEF below, upto
  <2>1. IsFiniteSet(upto) /\ end <= n
    BY <1>1, FS_Subset
  <2>2. IsFiniteSet(below)
    BY <1>1, <2>1, FS_Subset
  <2> QED BY <2>1, <2>2, FS_CardinalityType
<1>3. start <= end - 1 /\ end >= 1
  <2> HIDE DEF below, upto
  <2>1. IsFiniteSet(upto \ {s}) /\ Cardinality(upto \ {s}) = end - 1
    BY <1>1, <1>2, FS_RemoveElement
  <2>2. below \in SUBSET (upto \ {s})
    BY <1>1
  <2>3. start <= Cardinality(upto \ {s})
    BY <2>1, <2>2, FS_Subset
  <2> QED BY <1>2, <2>1, <2>3
<1>4. Percentiles(v)[s] = (60 * (start + end - 1)) \div (2 * last)
  BY DEF Percentiles
<1> HIDE DEF start, end, n
<1>5. 60 * (start + end - 1) \in Nat /\ 2 * last \in Nat \ {0} /\ 60 * (start + end - 1) <= 60 * (2 * last)
  BY <1>2, <1>3
<1> HIDE DEF last
<1> QED BY <1>4, <1>5, DivisionIsBounded

\* A stretch has a challenge that outweighs the others.
Outweighs(f, g) == \/ Size(f.value) > Size(g.value)
                   \/ Size(f.value) = Size(g.value) /\ f.id > g.id

LEMMA HeaviestExists ==
  ASSUME NEW W, IsFiniteSet(W), W # {}, \A f \in W : f.value \in Int /\ f.id \in Int,
         \A f, g \in W : f.id = g.id => f = g
  PROVE  \E f \in W : \A g \in W \ {f} : Outweighs(f, g)
<1> DEFINE over(f) == {g \in W : Outweighs(g, f)}
           overs == {Cardinality(over(f)) : f \in W}
<1>1. \A f \in W : IsFiniteSet(over(f)) /\ Cardinality(over(f)) \in Nat
  <2>1. \A f \in W : over(f) \in SUBSET W
    OBVIOUS
  <2> HIDE DEF over
  <2> QED BY <2>1, FS_Subset, FS_CardinalityType
<1>2. \A f \in W : Size(f.value) \in Int
  BY DEF Size
<1>3. PICK n \in overs : \A m \in overs : n <= m
  <2> HIDE DEF over
  <2>1. overs \subseteq Nat /\ overs # {}
    BY <1>1
  <2> HIDE DEF overs
  <2> QED BY <2>1, LeastOf
<1>4. PICK f \in W : n = Cardinality(over(f))
  BY <1>3
<1>5. over(f) = {}
  <2>1. SUFFICES ASSUME NEW g \in over(f) PROVE FALSE
    OBVIOUS
  <2>2. g \in W /\ over(g) \in SUBSET (over(f) \ {g})
    BY <1>2, <1>4 DEF Outweighs
  <2> HIDE DEF over
  <2>3. IsFiniteSet(over(f) \ {g}) /\ Cardinality(over(f) \ {g}) = Cardinality(over(f)) - 1
    BY <1>1, <1>4, <2>1, FS_RemoveElement
  <2>4. Cardinality(over(g)) <= Cardinality(over(f)) - 1
    BY <2>2, <2>3, FS_Subset
  <2>5. Cardinality(over(g)) \in overs
    BY <2>2
  <2> HIDE DEF overs
  <2> QED BY <1>1, <1>3, <1>4, <2>2, <2>4, <2>5
<1>6. \A g \in W \ {f} : Outweighs(f, g)
  BY <1>2, <1>4, <1>5 DEF Outweighs
<1> QED BY <1>4, <1>6

LEMMA ChallengeIsOne ==
  ASSUME NEW s \in Scored, scores[s] \in Score, Challenges(s) # {}
  PROVE  Challenge(s) \in Challenges(s)
<1> DEFINE W == {c.f : c \in Challenges(s)}
<1>1. \A c \in Challenges(s) : /\ c = [f |-> c.f, kind |-> c.kind] /\ c.f \in scores[s].features
                               /\ c.kind \in {"tested_negative", "untested"}
  BY DEF Challenges, TestedNegative, Untested
<1>2. W \in SUBSET scores[s].features /\ W # {}
  BY <1>1
<1>3. IsFiniteSet(W) /\ (\A f \in W : f.value \in Int /\ f.id \in Int) /\ \A f, g \in W : f.id = g.id => f = g
  <2> HIDE DEF W
  <2>1. IsFiniteSet(W)
    BY <1>2, ScoreAssumption, FS_Subset
  <2> QED BY <1>2, <2>1, ScoreAssumption
<1>4. PICK f \in W : \A g \in W \ {f} : Outweighs(f, g)
  <2> HIDE DEF W
  <2> QED BY <1>2, <1>3, HeaviestExists
<1> DEFINE tested == [f |-> f, kind |-> "tested_negative"]
           untested == [f |-> f, kind |-> "untested"]
           heaviest == IF tested \in Challenges(s) THEN tested ELSE untested
<1>5. tested \in Challenges(s) \/ untested \in Challenges(s)
  BY <1>1, <1>4
<1>6. heaviest \in Challenges(s) /\ heaviest.f = f
  BY <1>5
<1>7. ASSUME NEW d \in Challenges(s) \ {heaviest}
      PROVE  \/ Size(heaviest.f.value) > Size(d.f.value)
             \/ Size(heaviest.f.value) = Size(d.f.value) /\ heaviest.f.id > d.f.id
             \/ heaviest.f = d.f /\ heaviest.kind = "tested_negative"
  <2>1. CASE d.f = f
    <3>1. d = tested \/ d = untested
      BY <1>1, <2>1
    <3> QED BY <1>5, <2>1, <3>1
  <2>2. CASE d.f # f
    <3>1. Outweighs(f, d.f)
      BY <1>4, <2>2
    <3> QED BY <1>6, <3>1 DEF Outweighs
  <2> QED BY <2>1, <2>2
<1> HIDE DEF heaviest
<1> QED BY <1>6, <1>7 DEF Challenge

\* What StretchValue is asked of.
Stretches(set) == set \subseteq Scored /\ \A s \in set : Challenges(s) # {}

Typed == scores \in [Scored -> Score]

LEMMA StretchValuesAreBounded ==
  ASSUME Typed, NEW stretches, Stretches(stretches), NEW s \in stretches
  PROVE  StretchValue(s, stretches) \in 0..3600
<1> DEFINE peers == {t \in stretches : Challenge(t).kind = Challenge(s).kind}
           strengths == [t \in stretches |-> AnchorStrength(t)]
           distances == [t \in peers |-> ChallengeDistance(t)]
<1>1. IsFiniteSet(stretches) /\ IsFiniteSet(peers) /\ peers \in SUBSET Scored /\ s \in peers
  <2>1. IsFiniteSet(stretches)
    BY PolicyAssumption, FS_Subset DEF Stretches
  <2>2. peers \in SUBSET stretches /\ s \in peers
    OBVIOUS
  <2> HIDE DEF peers
  <2> QED BY <2>1, <2>2, FS_Subset DEF Stretches
<1>2. \A t \in stretches : AnchorStrength(t) \in Int
  <2>1. SUFFICES ASSUME NEW t \in stretches PROVE MapThenSumSet(LAMBDA f : f.value, Anchors(t)) \in Int
    BY DEF AnchorStrength
  <2>2. Anchors(t) \in SUBSET scores[t].features /\ scores[t] \in Score
    BY DEF Anchors, Stretches, Typed
  <2>3. IsFiniteSet(Anchors(t)) /\ \A f \in Anchors(t) : f.value \in Int
    BY <2>2, ScoreAssumption, FS_Subset
  <2> QED BY <2>3, ValuesAddUp
<1>3. \A t \in stretches : ChallengeDistance(t) \in Int
  <2>1. SUFFICES ASSUME NEW t \in stretches PROVE ChallengeDistance(t) \in Int
    OBVIOUS
  <2>2. Challenge(t) \in Challenges(t) /\ scores[t] \in Score
    BY ChallengeIsOne DEF Stretches, Typed
  <2> DEFINE c == Challenge(t)
  <2>3. c.f \in scores[t].features
    BY <2>2 DEF Challenges, TestedNegative, Untested
  <2>4. c.f.affinity \in Int /\ c.f.confidence \in Int
    BY <2>2, <2>3, ScoreAssumption
  <2> HIDE DEF c
  <2>5. ChallengeDistance(t) = IF c.kind = "tested_negative" THEN Size(c.f.affinity) * c.f.confidence
                               ELSE 100 - c.f.confidence
    BY DEF ChallengeDistance, c
  <2> QED BY <2>4, <2>5 DEF Size
<1>4. strengths \in [stretches -> Int] /\ distances \in [peers -> Int]
  BY <1>1, <1>2, <1>3
<1>5. StretchValue(s, stretches) = Percentiles(strengths)[s] * Percentiles(distances)[s]
  BY DEF StretchValue
<1> HIDE DEF peers, strengths, distances
<1>6. Percentiles(strengths)[s] \in 0..60 /\ Percentiles(distances)[s] \in 0..60
  BY <1>1, <1>4, PercentilesAreBounded
<1> DEFINE p == Percentiles(strengths)[s]
           q == Percentiles(distances)[s]
<1>7. p \in 0..60 /\ q \in 0..60 /\ StretchValue(s, stretches) = p * q
  BY <1>5, <1>6
<1> HIDE DEF p, q
<1>8. p * q \in 0..3600
  BY <1>7
<1> QED BY <1>7, <1>8

\* A later arrival that may be known is not left out for an earlier one.
LEMMA LaterArrivalsComeFirst ==
  ASSUME NEW played, NEW day \in Int, NEW s \in NewArrivals(played, day), NEW t \in EligibleScenes,
         Added[t] > Added[s], t \notin played
  PROVE  t \in NewArrivals(played, day)
<1> DEFINE arrivals == Arrivals(played)
           window == Cardinality({u \in arrivals : Added[u] >= day - WindowDays})
           least == Min({MinScenes, Cardinality(arrivals)})
           count == IF window > least THEN window ELSE least
<1>1. /\ s \in arrivals /\ Cardinality(NewerThan(s, arrivals)) < count
      /\ \A u \in arrivals : Cardinality(NewerThan(u, arrivals)) < count => u \in NewArrivals(played, day)
  BY DEF NewArrivals
<1>2. arrivals \in SUBSET Scored /\ (\A u \in Scored : Added[u] \in Nat) /\ t \in Scored
  BY PolicyAssumption DEF Arrivals, EligibleScenes
<1>3. t \in arrivals
  BY <1>1, <1>2 DEF Arrivals
<1>4. IsFiniteSet(arrivals) /\ Cardinality(arrivals) \in Nat
  <2> HIDE DEF arrivals
  <2> QED BY <1>2, PolicyAssumption, FS_Subset, FS_CardinalityType
<1>5. count \in Int
  <2>1. window \in Nat
    <3> DEFINE recent == {u \in arrivals : Added[u] >= day - WindowDays}
    <3>1. recent \in SUBSET arrivals
      OBVIOUS
    <3> HIDE DEF arrivals, recent
    <3>2. IsFiniteSet(recent)
      BY <1>4, <3>1, FS_Subset
    <3> QED BY <3>2, FS_CardinalityType DEF recent
  <2>2. least \in Int
    <3> DEFINE c == Cardinality(arrivals)
    <3>1. c \in Int /\ MinScenes \in Int
      BY <1>4, PolicyAssumption
    <3> HIDE DEF c
    <3>2. \E x \in {MinScenes, c} : \A y \in {MinScenes, c} : x =< y
      BY <3>1
    <3>3. Min({MinScenes, c}) \in {MinScenes, c}
      BY <3>2 DEF Min
    <3> QED BY <3>1, <3>3 DEF c
  <2> HIDE DEF window, least
  <2> QED BY <2>1, <2>2
<1> HIDE DEF count
<1>6. Cardinality(NewerThan(t, arrivals)) <= Cardinality(NewerThan(s, arrivals))
      /\ Cardinality(NewerThan(t, arrivals)) \in Nat /\ Cardinality(NewerThan(s, arrivals)) \in Nat
  <2>1. NewerThan(t, arrivals) \in SUBSET NewerThan(s, arrivals) /\ NewerThan(s, arrivals) \in SUBSET arrivals
    <3> HIDE DEF arrivals
    <3> QED BY <1>1, <1>2 DEF NewerThan
  <2> HIDE DEF arrivals
  <2>2. IsFiniteSet(NewerThan(s, arrivals))
    BY <1>4, <2>1, FS_Subset
  <2>3. /\ IsFiniteSet(NewerThan(t, arrivals))
        /\ Cardinality(NewerThan(t, arrivals)) <= Cardinality(NewerThan(s, arrivals))
    BY <2>1, <2>2, FS_Subset, SMTT(40)
  <2> QED BY <2>2, <2>3, FS_CardinalityType
<1> HIDE DEF arrivals
<1> QED BY <1>1, <1>3, <1>5, <1>6

\* What LanesAgree says of the rows of a model; `known` are the scenes with a play.
RowsAgree(rows, known) ==
  LET of(lane) == {rec.scene : rec \in {r \in rows : r.lane = lane}}
      unseen == of("best_bets") \cup of("blind_spots") \cup of("dormant") \cup of("new_arrivals")
  IN /\ of("best_bets") \cap of("stretch") = {}
     /\ of("revisit") \cap unseen = {}
     /\ of("revisit") \subseteq known
     /\ UNION {of(lane) : lane \in Lanes} \subseteq EligibleScenes
     /\ \A s \in of("new_arrivals"), t \in EligibleScenes :
          Added[t] > Added[s] /\ t \notin known => t \in of("new_arrivals")
     /\ \A rec \in rows : rec.lane = "stretch" => rec.value \in 0..3600

LEMMA ClassesAgree ==
  ASSUME scores \in [Scored -> Score], NEW played, played \subseteq watched, NEW day \in Int
  PROVE  RowsAgree(Classified(played, day), watched)
<1> DEFINE rows == Classified(played, day)
           of(lane) == {rec.scene : rec \in {r \in rows : r.lane = lane}}
           member == {rec \in EligibleScenes \X Lanes : InLane(rec[1], rec[2], played, day)}
           stretches == {rec[1] : rec \in {r \in member : r[2] = "stretch"}}
<1>1. rows = {[scene |-> rec[1], lane |-> rec[2], subtype |-> Subtype(rec[1], rec[2]),
               value |-> IF rec[2] = "stretch" THEN StretchValue(rec[1], stretches) ELSE 0] : rec \in member}
  BY DEF Classified
<1>2. \A lane \in Lanes : \A s : s \in of(lane) <=> s \in EligibleScenes /\ InLane(s, lane, played, day)
  <2>1. SUFFICES ASSUME NEW lane \in Lanes, NEW s
                 PROVE  s \in of(lane) <=> s \in EligibleScenes /\ InLane(s, lane, played, day)
    OBVIOUS
  <2>2. s \in of(lane) <=> <<s, lane>> \in member
    <3> HIDE DEF member, stretches, rows
    <3>1. ASSUME s \in of(lane) PROVE <<s, lane>> \in member
      <4>1. PICK r \in rows : r.lane = lane /\ r.scene = s
        BY <3>1
      <4>2. PICK rec \in member : r.scene = rec[1] /\ r.lane = rec[2]
        BY <1>1, <4>1
      <4>3. rec = <<rec[1], rec[2]>>
        BY DEF member
      <4> QED BY <4>1, <4>2, <4>3
    <3>2. ASSUME <<s, lane>> \in member PROVE s \in of(lane)
      <4> DEFINE r == [scene |-> s, lane |-> lane, subtype |-> Subtype(s, lane),
                       value |-> IF lane = "stretch" THEN StretchValue(s, stretches) ELSE 0]
      <4>1. <<s, lane>>[1] = s /\ <<s, lane>>[2] = lane
        OBVIOUS
      <4>2. r \in rows
        BY <1>1, <3>2, <4>1
      <4>3. r.scene = s /\ r.lane = lane
        OBVIOUS
      <4> HIDE DEF r
      <4> QED BY <4>2, <4>3
    <3> QED BY <3>1, <3>2
  <2> QED BY <2>1, <2>2
<1>3. {"best_bets", "revisit", "stretch", "blind_spots", "dormant", "new_arrivals"} = Lanes
  BY DEF Lanes
<1>4. \A s \in stretches : s \in Scored /\ Challenges(s) # {}
  BY SMTT(40) DEF EligibleScenes, InLane, Stretch
<1>5. \A rec \in rows : rec.lane = "stretch" => rec.value \in 0..3600
  <2>1. SUFFICES ASSUME NEW rec \in rows, rec.lane = "stretch" PROVE rec.value \in 0..3600
    OBVIOUS
  <2>2. PICK m \in member : m[2] = "stretch" /\ rec.value = StretchValue(m[1], stretches)
    <3> HIDE DEF member, stretches, rows
    <3>1. PICK m \in member : rec = [scene |-> m[1], lane |-> m[2], subtype |-> Subtype(m[1], m[2]),
                                     value |-> IF m[2] = "stretch" THEN StretchValue(m[1], stretches) ELSE 0]
      BY <1>1, <2>1
    <3>2. m[2] = "stretch" /\ rec.value = StretchValue(m[1], stretches)
      BY <2>1, <3>1
    <3> QED BY <3>2
  <2>3. m[1] \in stretches
    BY <2>2
  <2>4. Stretches(stretches) /\ Typed
    BY <1>4 DEF Stretches, Typed
  <2> HIDE DEF member, stretches
  <2>5. \A x \in stretches : StretchValue(x, stretches) \in 0..3600
    BY <2>4, StretchValuesAreBounded
  <2> QED BY <2>2, <2>3, <2>5, SMTT(40)
<1> HIDE DEF rows, member, stretches, of
<1>6. \A s : /\ s \in of("best_bets") => BestBet(s, played) /\ s \notin played
             /\ s \in of("revisit") => s \in played
             /\ s \in of("stretch") => ~BestBet(s, played)
             /\ s \in of("blind_spots") => s \notin played
             /\ s \in of("dormant") => s \notin played
             /\ s \in of("new_arrivals") <=> s \in EligibleScenes /\ s \in NewArrivals(played, day)
  <2>1. SUFFICES ASSUME NEW s
                 PROVE  /\ s \in of("best_bets") => BestBet(s, played) /\ s \notin played
                        /\ s \in of("revisit") => s \in played
                        /\ s \in of("stretch") => ~BestBet(s, played)
                        /\ s \in of("blind_spots") => s \notin played
                        /\ s \in of("dormant") => s \notin played
                        /\ s \in of("new_arrivals") <=> s \in EligibleScenes /\ s \in NewArrivals(played, day)
    OBVIOUS
  <2>2. \A lane \in Lanes : s \in of(lane) <=> s \in EligibleScenes /\ InLane(s, lane, played, day)
    BY <1>2
  <2>3. /\ InLane(s, "best_bets", played, day) <=> BestBet(s, played)
        /\ InLane(s, "revisit", played, day) <=> Revisit(s, played)
        /\ InLane(s, "stretch", played, day) <=> Stretch(s, played)
        /\ InLane(s, "blind_spots", played, day) <=> BlindSpot(s, played)
        /\ InLane(s, "dormant", played, day) <=> s \notin played /\ DormantEntities(s, day) # {}
        /\ InLane(s, "new_arrivals", played, day) <=> s \in NewArrivals(played, day)
    BY DEF InLane
  <2>4. BestBet(s, played) => s \notin played
    BY DEF BestBet
  <2>5. Revisit(s, played) => s \in played
    BY DEF Revisit
  <2>6. Stretch(s, played) => ~BestBet(s, played)
    BY DEF Stretch
  <2>7. BlindSpot(s, played) => s \notin played
    BY DEF BlindSpot
  <2> QED BY <1>3, <2>2, <2>3, <2>4, <2>5, <2>6, <2>7
<1>7. \A s \in of("new_arrivals") : s \notin played
  BY <1>6 DEF NewArrivals, Arrivals
<1>8. UNION {of(lane) : lane \in Lanes} \subseteq EligibleScenes
  BY <1>2
<1>9. \A s \in of("new_arrivals"), t \in EligibleScenes :
        Added[t] > Added[s] /\ t \notin watched => t \in of("new_arrivals")
  BY <1>6, LaterArrivalsComeFirst
<1>10. /\ of("best_bets") \cap of("stretch") = {} /\ of("revisit") \subseteq watched
       /\ of("revisit") \cap (of("best_bets") \cup of("blind_spots") \cup of("dormant") \cup of("new_arrivals")) = {}
  BY <1>6, <1>7
<1> QED BY <1>5, <1>8, <1>9, <1>10, SMTT(40) DEF RowsAgree, of, rows

PolicyInv ==
  /\ scores \in [Scored -> Score]
  /\ clockDay \in Int /\ seen.day \in Int
  /\ seen.lanes \subseteq watched
  /\ LanesAgree

LEMMA PolicyInit ==
  ASSUME InitPolicy PROVE PolicyInv
<1>1. scores \in [Scored -> Score] /\ clockDay \in Int /\ seen.day \in Int /\ seen.lanes \subseteq watched
  BY PolicyAssumption DEF InitPolicy, NotRead
<1>2. laneRows = {}
  BY DEF InitPolicy
<1>3. LanesAgree
  BY <1>2 DEF LanesAgree
<1> QED BY <1>1, <1>3 DEF PolicyInv

LEMMA PolicyNext ==
  ASSUME PolicyInv, [NextPolicy]_policyVars PROVE PolicyInv'
<1>1. LanesAgree <=> RowsAgree(laneRows, watched)
  BY DEF LanesAgree, RowsAgree
<1>2. CASE ReadPlayed
  <2>1. /\ seen' = [lanes |-> watched, day |-> clockDay] /\ scores' = scores /\ watched' = watched
        /\ clockDay' = clockDay /\ laneRows' = laneRows
    BY <1>2, SMTT(40) DEF ReadPlayed
  <2>2. LanesAgree'
    BY <2>1, SMTT(40) DEF PolicyInv, LanesAgree, EligibleScenes
  <2> QED BY <2>1, <2>2 DEF PolicyInv
<1>3. CASE LanePersist
  <2>1. /\ laneRows' = Classified(seen.lanes, seen.day) /\ seen' = NotRead /\ scores' = scores
        /\ watched' = watched /\ clockDay' = clockDay
    BY <1>3 DEF LanePersist
  <2>2. RowsAgree(Classified(seen.lanes, seen.day), watched)
    BY ClassesAgree DEF PolicyInv
  <2>3. RowsAgree(laneRows', watched)
    BY <2>1, <2>2
  <2>4. LanesAgree'
    BY <2>1, <2>3, SMTT(40) DEF LanesAgree, RowsAgree, EligibleScenes
  <2> QED BY <2>1, <2>4 DEF PolicyInv, NotRead
<1>4. ASSUME NEW s \in Scored, Watch(s) PROVE PolicyInv'
  <2>1. /\ watched' = watched \cup {s} /\ scores' = scores /\ clockDay' = clockDay /\ seen' = seen
        /\ laneRows' = laneRows
    BY <1>4 DEF Watch
  <2>2. LanesAgree'
    BY <2>1, SMTT(30) DEF PolicyInv, LanesAgree, EligibleScenes
  <2> QED BY <2>1, <2>2 DEF PolicyInv
<1>5. CASE DayPasses
  <2>1. /\ clockDay' = clockDay + 1 /\ watched' = watched /\ scores' = scores /\ seen' = seen
        /\ laneRows' = laneRows
    BY <1>5 DEF DayPasses
  <2>2. LanesAgree'
    BY <2>1, SMTT(40) DEF PolicyInv, LanesAgree, EligibleScenes
  <2> QED BY <2>1, <2>2 DEF PolicyInv
<1>6. CASE UNCHANGED policyVars
  <2>1. LanesAgree'
    BY <1>6, SMTT(40) DEF PolicyInv, LanesAgree, EligibleScenes, policyVars
  <2> QED BY <1>6, <2>1, SMTT(40) DEF PolicyInv, policyVars
<1> QED BY <1>2, <1>3, <1>4, <1>5, <1>6 DEF NextPolicy

\* The lanes of a model agree with one another, whatever is watched and however
\* the days pass between what laneClassify reads and what lanePersist writes.
THEOREM LanesAlwaysAgree == SpecPolicy => []LanesAgree
<1>1. InitPolicy => PolicyInv
  BY PolicyInit
<1>2. PolicyInv /\ [NextPolicy]_policyVars => PolicyInv'
  BY PolicyNext
<1>3. PolicyInv => LanesAgree
  BY DEF PolicyInv
<1> QED BY <1>1, <1>2, <1>3, PTL DEF SpecPolicy

-----------------------------------------------------------------------------
(* Orders: what buildOrdering makes of a table of candidates.              *)

\* The order of the lanes' names, and that of entries.
LEMMA RanksDiffer ==
  /\ \A l \in DOMAIN LaneRank : LaneRank[l] \in Nat
  /\ \A l, m \in DOMAIN LaneRank : l # m => LaneRank[l] # LaneRank[m]
<1>1. DOMAIN LaneRank = {"best_bets", "blind_spots", "dormant", "new_arrivals", "revisit", "stretch"}
  BY DEF LaneRank
<1>2. /\ LaneRank["best_bets"] = 1 /\ LaneRank["blind_spots"] = 2 /\ LaneRank["dormant"] = 3
      /\ LaneRank["new_arrivals"] = 4 /\ LaneRank["revisit"] = 5 /\ LaneRank["stretch"] = 6
  BY DEF LaneRank
<1> QED BY <1>1, <1>2

IsRanked(e) ==
  /\ e.utility \in Int
  /\ \E s \in Nat, l \in DOMAIN LaneRank : e.key = <<s, l>>

LEMMA BeforeIsAnOrder ==
  ASSUME NEW x, NEW y, IsRanked(x), IsRanked(y)
  PROVE  /\ ~(Before(x, y) /\ Before(y, x))
         /\ x.key # y.key => Before(x, y) \/ Before(y, x)
         /\ \A z : IsRanked(z) /\ Before(x, y) /\ Before(y, z) => Before(x, z)
<1>1. PICK s \in Nat, l \in DOMAIN LaneRank : x.key = <<s, l>>
  BY DEF IsRanked
<1>2. PICK t \in Nat, m \in DOMAIN LaneRank : y.key = <<t, m>>
  BY DEF IsRanked
<1>3. LaneRank[l] \in Nat /\ LaneRank[m] \in Nat /\ (l # m => LaneRank[l] # LaneRank[m])
  BY RanksDiffer
<1>4. x.utility \in Int /\ y.utility \in Int
  BY DEF IsRanked
<1>5. ~(Before(x, y) /\ Before(y, x))
  BY <1>1, <1>2, <1>3, <1>4 DEF Before
<1>6. x.key # y.key => Before(x, y) \/ Before(y, x)
  BY <1>1, <1>2, <1>3, <1>4 DEF Before
<1>7. ASSUME NEW z, IsRanked(z), Before(x, y), Before(y, z) PROVE Before(x, z)
  <2>1. PICK r \in Nat, k \in DOMAIN LaneRank : z.key = <<r, k>>
    BY <1>7 DEF IsRanked
  <2>2. LaneRank[k] \in Nat
    BY RanksDiffer
  <2>3. z.utility \in Int
    BY <1>7 DEF IsRanked
  <2> QED BY <1>1, <1>2, <1>3, <1>4, <1>7, <2>1, <2>2, <2>3 DEF Before
<1> QED BY <1>5, <1>6, <1>7

\* Of finitely many entries with keys of their own one comes first.
AreRanked(E) ==
  /\ IsFiniteSet(E)
  /\ \A e \in E : IsRanked(e)
  /\ \A e, f \in E : e.key = f.key => e = f

LEMMA FirstIsFirst ==
  ASSUME NEW E, AreRanked(E), E # {}
  PROVE  First(E) \in E /\ \A f \in E \ {First(E)} : Before(First(E), f)
<1> DEFINE over(e) == {g \in E : Before(g, e)}
           overs == {Cardinality(over(e)) : e \in E}
<1>1. \A e \in E : IsFiniteSet(over(e)) /\ Cardinality(over(e)) \in Nat
  <2>1. \A e \in E : over(e) \in SUBSET E
    OBVIOUS
  <2>2. IsFiniteSet(E)
    BY DEF AreRanked
  <2> HIDE DEF over
  <2> QED BY <2>1, <2>2, FS_Subset, FS_CardinalityType
<1>2. PICK n \in overs : \A m \in overs : n <= m
  <2> HIDE DEF over
  <2>1. overs \subseteq Nat /\ overs # {}
    BY <1>1
  <2> HIDE DEF overs
  <2> QED BY <2>1, LeastOf
<1>3. PICK e \in E : n = Cardinality(over(e))
  BY <1>2
<1>4. \A f \in E : IsRanked(f)
  BY DEF AreRanked
<1>5. over(e) = {}
  <2>1. SUFFICES ASSUME NEW g \in over(e) PROVE FALSE
    OBVIOUS
  <2>2. g \in E /\ Before(g, e)
    OBVIOUS
  <2>3. \A f \in E : Before(f, g) => Before(f, e) /\ f # g
    BY <1>3, <1>4, <2>2, BeforeIsAnOrder
  <2>4. over(g) \in SUBSET (over(e) \ {g})
    BY <2>3
  <2> HIDE DEF over
  <2>5. IsFiniteSet(over(e) \ {g}) /\ Cardinality(over(e) \ {g}) = Cardinality(over(e)) - 1
    BY <1>1, <1>3, <2>1, FS_RemoveElement
  <2>6. Cardinality(over(g)) <= Cardinality(over(e)) - 1
    BY <2>4, <2>5, FS_Subset
  <2>7. Cardinality(over(g)) \in overs
    BY <2>2
  <2> HIDE DEF overs
  <2> QED BY <1>1, <1>2, <1>3, <2>2, <2>6, <2>7
<1>6. \A f \in E \ {e} : Before(e, f)
  <2> SUFFICES ASSUME NEW f \in E \ {e} PROVE Before(e, f)
    OBVIOUS
  <2>1. e.key # f.key
    BY <1>3 DEF AreRanked
  <2>2. ~Before(f, e)
    BY <1>5
  <2> QED BY <1>3, <1>4, <2>1, <2>2, BeforeIsAnOrder
<1> DEFINE least(x) == \A f \in E \ {x} : Before(x, f)
<1>7. \E x \in E : least(x)
  BY <1>3, <1>6
<1> HIDE DEF least
<1>8. First(E) = CHOOSE x \in E : least(x)
  BY DEF First, least
<1>9. First(E) \in E /\ least(First(E))
  BY <1>7, <1>8
<1> QED BY <1>9 DEF least

-----------------------------------------------------------------------------
\* What a chosen row adds.
LEMMA AppendedFeatures ==
  ASSUME NEW rows, NEW S, rows \in Seq(S), NEW x \in S
  PROVE  /\ PerformersIn(Append(rows, x)) = PerformersIn(rows) \cup x.performers
         /\ StudiosIn(Append(rows, x)) = StudiosIn(rows) \cup {x.studio}
         /\ ContentIn(Append(rows, x)) = ContentIn(rows) \cup x.content
         /\ ScenesIn(Append(rows, x)) = ScenesIn(rows) \cup {x.scene}
<1> DEFINE more == Append(rows, x)
<1>1. /\ DOMAIN more = DOMAIN rows \cup {Len(rows) + 1}
      /\ \A i \in DOMAIN rows : more[i] = rows[i]
      /\ more[Len(rows) + 1] = x
  OBVIOUS
<1> HIDE DEF more
<1>2. PerformersIn(more) = PerformersIn(rows) \cup x.performers
  BY <1>1 DEF PerformersIn
<1>3. StudiosIn(more) = StudiosIn(rows) \cup {x.studio}
  BY <1>1 DEF StudiosIn
<1>4. ContentIn(more) = ContentIn(rows) \cup x.content
  BY <1>1 DEF ContentIn
<1>5. ScenesIn(more) = ScenesIn(rows) \cup {x.scene}
  BY <1>1 DEF ScenesIn
<1> QED BY <1>2, <1>3, <1>4, <1>5 DEF more

IsCandidate(c) ==
  /\ c.scene \in Nat /\ c.lane \in DOMAIN LaneRank /\ c.value \in Int /\ IsFiniteSet(c.content)

LEMMA SharesAddUp ==
  ASSUME NEW c, IsCandidate(c), NEW A, NEW B
  PROVE  /\ Share(c, A) \in Nat
         /\ Share(c, A \cup B) = Share(c, A) + Share(c, B \ A)
<1> DEFINE a == c.content \cap A
           b == c.content \cap (B \ A)
           both == c.content \cap (A \cup B)
           unit == Whole \div Weight(c)
<1>1. IsFiniteSet(c.content) /\ a \in SUBSET c.content /\ b \in SUBSET c.content
  BY DEF IsCandidate
<1>2. both = a \cup b /\ a \cap b = {}
  OBVIOUS
<1>3. unit \in Nat
  <2>1. Weight(c) \in Nat \ {0}
    BY <1>1, FS_CardinalityType DEF Weight, Total
  <2> QED BY <2>1, OrdersAssumption, SMTT(40)
<1>4. Share(c, A) = Cardinality(a) * unit /\ Share(c, B \ A) = Cardinality(b) * unit /\ Share(c, A \cup B) = Cardinality(both) * unit
  BY DEF Share
<1> HIDE DEF a, b, both, unit
<1>5. IsFiniteSet(a) /\ IsFiniteSet(b) /\ Cardinality(a) \in Nat /\ Cardinality(b) \in Nat
  BY <1>1, FS_Subset, FS_CardinalityType
<1>6. Cardinality(both) = Cardinality(a) + Cardinality(b)
  <2>1. Cardinality(a \cup b) = Cardinality(a) + Cardinality(b) - Cardinality(a \cap b)
    BY <1>5, FS_Union
  <2>2. Cardinality(a \cap b) = 0
    BY <1>2, FS_EmptySet
  <2>3. Cardinality(both) = Cardinality(a \cup b)
    BY <1>2
  <2> QED BY <1>5, <2>1, <2>2, <2>3
<1> QED BY <1>3, <1>4, <1>5, <1>6

\* What keeping up with a choice takes off is what looking at it anew does.
LEMMA CostIsTheDifference ==
  ASSUME NEW c, IsCandidate(c), NEW S, ordered \in Seq(S), NEW x \in S
  PROVE  /\ Cost(c, x) \in Nat
         /\ FreshUtility(c, TRUE, ordered) \in Int
         /\ FreshUtility(c, TRUE, Append(ordered, x)) = FreshUtility(c, TRUE, ordered) - Cost(c, x)
<1> DEFINE P == IF c.performers \cap PerformersIn(ordered) # {} THEN Whole * PerformerPenalty ELSE 0
           T == IF c.studio \in StudiosIn(ordered) \ {""} THEN Whole * StudioPenalty ELSE 0
           K == (ContentPenalty + UncoveredBonus) * Share(c, ContentIn(ordered))
           Pn == IF c.performers \cap PerformersIn(Append(ordered, x)) # {} THEN Whole * PerformerPenalty ELSE 0
           Tn == IF c.studio \in StudiosIn(Append(ordered, x)) \ {""} THEN Whole * StudioPenalty ELSE 0
           Kn == (ContentPenalty + UncoveredBonus) * Share(c, ContentIn(Append(ordered, x)))
           Pc == IF /\ c.performers \cap PerformersIn(ordered) = {}
                    /\ c.performers \cap x.performers # {} THEN Whole * PerformerPenalty ELSE 0
           Tc == IF c.studio # "" /\ c.studio \notin StudiosIn(ordered) /\ c.studio = x.studio
                 THEN Whole * StudioPenalty ELSE 0
           Kc == (ContentPenalty + UncoveredBonus) * Share(c, x.content \ ContentIn(ordered))
<1>1. /\ PerformersIn(Append(ordered, x)) = PerformersIn(ordered) \cup x.performers
      /\ StudiosIn(Append(ordered, x)) = StudiosIn(ordered) \cup {x.studio}
      /\ ContentIn(Append(ordered, x)) = ContentIn(ordered) \cup x.content
  BY AppendedFeatures
<1>2. /\ Whole \in Nat /\ PerformerPenalty \in Nat /\ StudioPenalty \in Nat
      /\ ContentPenalty \in Nat /\ UncoveredBonus \in Nat
  BY OrdersAssumption
<1>3. Whole * PerformerPenalty \in Nat /\ Whole * StudioPenalty \in Nat /\ Whole * UncoveredBonus \in Nat
  BY <1>2
<1>4. P \in Nat /\ Pc \in Nat /\ Pn = P + Pc
  <2>1. c.performers \cap PerformersIn(Append(ordered, x)) = {}
          <=> c.performers \cap PerformersIn(ordered) = {} /\ c.performers \cap x.performers = {}
    BY <1>1
  <2> QED BY <1>3, <2>1
<1>5. T \in Nat /\ Tc \in Nat /\ Tn = T + Tc
  <2>1. c.studio \in StudiosIn(Append(ordered, x)) \ {""}
          <=> c.studio # "" /\ (c.studio \in StudiosIn(ordered) \/ c.studio = x.studio)
    BY <1>1
  <2>2. c.studio \in StudiosIn(ordered) \ {""} <=> c.studio # "" /\ c.studio \in StudiosIn(ordered)
    OBVIOUS
  <2> DEFINE w == Whole * StudioPenalty
  <2>3. w \in Nat /\ 0 \in Nat /\ w = 0 + w /\ w = w + 0 /\ 0 = 0 + 0
    BY <1>3
  <2>4. T \in {0, w} /\ Tc \in {0, w} /\ (T = 0 \/ Tc = 0) /\ (Tn = w <=> T = w \/ Tc = w) /\ Tn \in {0, w}
    BY <2>1, <2>2, Zenon
  <2> HIDE DEF w, T, Tc, Tn
  <2> QED BY <2>3, <2>4
<1>6. K \in Nat /\ Kc \in Nat /\ Kn = K + Kc
  <2>1. /\ Share(c, ContentIn(ordered)) \in Nat
        /\ Share(c, x.content \ ContentIn(ordered)) \in Nat
        /\ Share(c, ContentIn(ordered) \cup x.content)
             = Share(c, ContentIn(ordered)) + Share(c, x.content \ ContentIn(ordered))
    BY SharesAddUp
  <2>2. Share(c, ContentIn(Append(ordered, x))) = Share(c, ContentIn(ordered) \cup x.content)
    BY <1>1
  <2> DEFINE u == Share(c, ContentIn(ordered))
             v == Share(c, x.content \ ContentIn(ordered))
             w == ContentPenalty + UncoveredBonus
  <2>3. w \in Nat /\ Kn = w * (u + v) /\ K = w * u /\ Kc = w * v /\ u \in Nat /\ v \in Nat
    BY <1>2, <2>1, <2>2
  <2> HIDE DEF u, v, w, K, Kn, Kc
  <2>4. w * (u + v) = w * u + w * v /\ w * u \in Nat /\ w * v \in Nat
    BY <2>3
  <2> QED BY <2>3, <2>4
<1>7. FirstUtility(c, TRUE) \in Int
  <2>1. c.value \in Int
    BY DEF IsCandidate
  <2> QED BY <1>2, <1>3, <2>1, SMTT(30) DEF FirstUtility
<1>8. Cost(c, x) = Pc + Tc + Kc
  BY DEF Cost
<1>9. FreshUtility(c, TRUE, ordered) = FirstUtility(c, TRUE) - (P + T + K)
  BY DEF FreshUtility
<1>10. FreshUtility(c, TRUE, Append(ordered, x)) = FirstUtility(c, TRUE) - (Pn + Tn + Kn)
  BY DEF FreshUtility
<1> HIDE DEF P, T, K, Pn, Tn, Kn, Pc, Tc, Kc
<1>11. Cost(c, x) \in Nat
  BY <1>4, <1>5, <1>6, <1>8
<1> DEFINE u == FirstUtility(c, TRUE)
<1>12. u \in Int
  BY <1>7
<1> HIDE DEF u
<1>13. u - (P + T + K) \in Int /\ u - (Pn + Tn + Kn) = (u - (P + T + K)) - (Pc + Tc + Kc)
  BY <1>4, <1>5, <1>6, <1>12
<1> QED BY <1>8, <1>9, <1>10, <1>11, <1>13 DEF u
-----------------------------------------------------------------------------
\* The order under construction.
Made == todo[1][1]
Varied == todo[1][2] = "varied"
Rows == Of(Made)
Keys == {Key(c) : c \in Rows}

TableOK == table \in Candidates

\* An entry that is not outdated says what its candidate is worth.
EntryFits(h, e) ==
  \E c \in Rows :
    /\ h \in SelectorsOf(Made, c)
    /\ e.key = Key(c) /\ e.version \in Nat /\ e.version <= version[Key(c)]
    /\ e.version = version[Key(c)] /\ c.scene \notin Taken => e = Entry(c, utility, version)

BuildTyped ==
  /\ ordered \in Seq(Rows)
  /\ utility \in [Keys -> Int] /\ version \in [Keys -> Nat]
  /\ DOMAIN heap = Selectors(Made)
  /\ \A h \in DOMAIN heap : IsFiniteSet(heap[h])

EntriesFit == \A h \in DOMAIN heap : \A e \in heap[h] : EntryFits(h, e)

UtilitiesAreFresh == \A c \in Rows : utility[Key(c)] = FreshUtility(c, Varied, ordered)

NoneIsLost ==
  \A c \in Rows : c.scene \notin Taken =>
    \A h \in SelectorsOf(Made, c) : Entry(c, utility, version) \in heap[h]

ScenesDiffer(rows) == \A i, j \in DOMAIN rows : rows[i].scene = rows[j].scene => i = j

BuildInv ==
  /\ BuildTyped /\ EntriesFit /\ UtilitiesAreFresh /\ NoneIsLost
  /\ ScenesDiffer(ordered) /\ IsGreedy(todo[1], ordered)

LEMMA RowsAreCandidates ==
  ASSUME TableOK
  PROVE  /\ IsFiniteSet(table)
         /\ \A c \in table : IsCandidate(c) /\ Row(Key(c)) = c
         /\ \A c, d \in table : Key(c) = Key(d) => c = d
<1>1. IsTable(table)
  BY OrdersAssumption DEF TableOK
<1>2. \A c, d \in table : Key(c) = Key(d) => c = d
  BY <1>1 DEF IsTable
<1>3. \A c \in table : IsCandidate(c)
  BY <1>1 DEF IsTable, IsCandidate
<1>4. \A c \in table : Row(Key(c)) = c
  BY <1>2 DEF Row
<1> QED BY <1>1, <1>2, <1>3, <1>4 DEF IsTable

LEMMA RowsAreFinite ==
  ASSUME TableOK
  PROVE  /\ IsFiniteSet(Rows) /\ Rows \subseteq table
         /\ \A S \in SUBSET Rows : IsFiniteSet(S)
<1>1. Rows \in SUBSET table
  BY DEF Rows, Of
<1>2. IsFiniteSet(Rows)
  BY <1>1, RowsAreCandidates, FS_Subset
<1> QED BY <1>1, <1>2, FS_Subset

\* What pop may return is what the unplaced candidates of the selector are.
Here(h, allowAdjacent) ==
  {c \in LeftOf(Made, ordered) :
     h \in SelectorsOf(Made, c) /\ (Varied /\ ~allowAdjacent => Apart(c, ordered))}

LEMMA PoppableIs ==
  ASSUME TableOK, BuildTyped, EntriesFit, NoneIsLost, NEW h, NEW allow
  PROVE  Poppable(h, Varied, allow) = {Entry(c, utility, version) : c \in Here(h, allow)}
<1>1. \A c \in Rows : c \in table /\ Row(Key(c)) = c
  BY RowsAreCandidates DEF Rows, Of
<1>2. \A c \in Rows : /\ Entry(c, utility, version).key = Key(c)
                      /\ Entry(c, utility, version).version = version[Key(c)]
                      /\ Key(c)[1] = c.scene
  BY DEF Entry, Key
<1>3. ASSUME NEW c \in Rows
      PROVE  Adjacent(Entry(c, utility, version)) <=> ~Apart(c, ordered)
  BY <1>1, <1>2, <1>3 DEF Adjacent, Apart
<1>4. ASSUME NEW e \in Poppable(h, Varied, allow)
      PROVE  \E c \in Here(h, allow) : e = Entry(c, utility, version)
  <2>1. h \in DOMAIN heap /\ e \in heap[h] /\ Valid(e) /\ (Varied /\ ~allow => ~Adjacent(e))
    BY <1>4 DEF Poppable, Queue
  <2>2. PICK c \in Rows : /\ h \in SelectorsOf(Made, c) /\ e.key = Key(c)
                          /\ e.version = version[Key(c)] /\ c.scene \notin Taken => e = Entry(c, utility, version)
    BY <2>1 DEF EntriesFit, EntryFits
  <2>3. e.version = version[Key(c)] /\ c.scene \notin Taken
    BY <1>2, <2>1, <2>2 DEF Valid
  <2>4. e = Entry(c, utility, version)
    BY <2>2, <2>3
  <2>5. c \in LeftOf(Made, ordered)
    BY <2>3 DEF LeftOf, Rows, Taken
  <2> QED BY <1>3, <2>1, <2>2, <2>4, <2>5 DEF Here
<1>5. ASSUME NEW c \in Here(h, allow)
      PROVE  Entry(c, utility, version) \in Poppable(h, Varied, allow)
  <2>1. c \in Rows /\ c.scene \notin Taken /\ h \in SelectorsOf(Made, c) /\ (Varied /\ ~allow => Apart(c, ordered))
    BY <1>5 DEF Here, LeftOf, Rows, Taken
  <2>2. h \in DOMAIN heap
    BY <2>1 DEF BuildTyped, Selectors, Rows
  <2>3. Entry(c, utility, version) \in Queue(h)
    BY <2>1, <2>2 DEF NoneIsLost, Queue
  <2>4. Valid(Entry(c, utility, version))
    BY <1>2, <2>1 DEF Valid
  <2> QED BY <1>3, <2>1, <2>3, <2>4 DEF Poppable
<1> QED BY <1>4, <1>5

LEMMA EntriesAreRanked ==
  ASSUME TableOK, BuildTyped, NEW C \in SUBSET Rows
  PROVE  /\ AreRanked({Entry(c, utility, version) : c \in C})
         /\ \A c, d \in C : Entry(c, utility, version) = Entry(d, utility, version) => c = d
         /\ \A c \in C : IsRanked(Entry(c, utility, version))
<1> DEFINE E == {Entry(c, utility, version) : c \in C}
<1>1. \A c \in C : c \in table /\ c.scene \in Nat /\ c.lane \in DOMAIN LaneRank /\ Key(c) \in Keys
  BY RowsAreCandidates DEF Rows, Of, IsCandidate, Keys
<1>2. \A c \in C : IsRanked(Entry(c, utility, version))
  BY <1>1 DEF IsRanked, Entry, Key, BuildTyped
<1>3. \A c \in C : Entry(c, utility, version).key = Key(c)
  BY DEF Entry
<1>4. \A c, d \in C : Key(c) = Key(d) => c = d
  BY <1>1, RowsAreCandidates
<1>5. IsFiniteSet(E)
  <2>1. IsFiniteSet(C)
    BY RowsAreFinite
  <2> DEFINE f == [c \in C |-> Entry(c, utility, version)]
  <2>2. f \in Surjection(C, E)
    BY DEF Surjection
  <2> HIDE DEF f, E
  <2> QED BY <2>1, <2>2, FS_Surjection
<1>6. AreRanked(E)
  BY <1>2, <1>3, <1>4, <1>5, SMTT(40) DEF AreRanked
<1> QED BY <1>2, <1>3, <1>4, <1>6
-----------------------------------------------------------------------------
\* One place: the attempts, what is chosen, and what becomes of the rest.
AttemptsNow == Attempts(Made, Varied, Len(ordered))
Pops(n) == Poppable(AttemptsNow[n][1], Varied, AttemptsNow[n][2])
Used == Min(Found(Made, Varied))
Best == First(Pops(Used))
Chosen == Row(Best.key)
Costs == [k \in DOMAIN utility |-> IF Varied THEN Cost(Row(k), Chosen) ELSE 0]
Changed == {c \in Rows : Costs[Key(c)] > 0 /\ c.scene \notin Taken \cup {Chosen.scene}}
Utilities == [k \in DOMAIN utility |-> utility[k] - Costs[k]]
Versions == [k \in DOMAIN version |-> IF Row(k) \in Changed THEN version[k] + 1 ELSE version[k]]
Tried ==
  [h \in DOMAIN heap |->
     IF \E n \in 1..Used : AttemptsNow[n][1] = h
     THEN LET n == Max({m \in 1..Used : AttemptsNow[m][1] = h})
          IN Popped(h, Varied, AttemptsNow[n][2])
     ELSE heap[h]]
Heaps ==
  [h \in DOMAIN heap |->
     Tried[h] \cup {Entry(c, Utilities, Versions) : c \in {d \in Changed : h \in SelectorsOf(Made, d)}}]

LEMMA PlaceIs ==
  ASSUME PlaceCandidate
  PROVE  /\ todo # <<>> /\ Found(Made, Varied) # {}
         /\ ordered' = Append(ordered, Chosen)
         /\ utility' = Utilities /\ version' = Versions /\ heap' = Heaps
         /\ UNCHANGED <<table, todo, saved, complete>>
BY DEF PlaceCandidate, Made, Varied, Rows, AttemptsNow, Pops, Used, Best, Chosen, Costs, Changed,
       Utilities, Versions, Tried, Heaps

LEMMA AttemptsAre ==
  /\ AttemptsNow[1] = <<Wanted(Made, Varied, Len(ordered)), FALSE>>
  /\ AttemptsNow[2] = <<<<"all", "">>, FALSE>>
  /\ AttemptsNow[3] = <<<<"all", "">>, TRUE>>
BY DEF AttemptsNow, Attempts

LEMMA UsedIs ==
  ASSUME Found(Made, Varied) # {}
  PROVE  /\ Used \in 1..3 /\ Pops(Used) # {}
         /\ \A n \in 1..3 : n < Used => Pops(n) = {}
<1>1. Found(Made, Varied) = {n \in 1..3 : Pops(n) # {}}
  BY DEF Found, Pops, AttemptsNow
<1>2. Found(Made, Varied) \subseteq Nat
  BY <1>1
<1>3. PICK n \in Found(Made, Varied) : \A m \in Found(Made, Varied) : n <= m
  BY <1>2, LeastOf
<1>4. Used \in Found(Made, Varied) /\ \A m \in Found(Made, Varied) : Used <= m
  BY <1>3 DEF Used, Min
<1> QED BY <1>1, <1>4

\* What the attempt that succeeds chooses from is the pool of the place.
LEMMA PoolIsTried ==
  ASSUME TableOK, BuildTyped, EntriesFit, NoneIsLost, Found(Made, Varied) # {}
  PROVE  LET pool == PoolOf(Made, Varied, ordered)
         IN pool \in SUBSET Rows /\ pool # {} /\ Pops(Used) = {Entry(c, utility, version) : c \in pool}
<1> DEFINE apart == {c \in LeftOf(Made, ordered) : Varied => Apart(c, ordered)}
           wanted == {c \in apart : Wanted(Made, Varied, Len(ordered)) \in SelectorsOf(Made, c)}
           entries(C) == {Entry(c, utility, version) : c \in C}
<1>1. \A c \in Rows : <<"all", "">> \in SelectorsOf(Made, c)
  BY DEF SelectorsOf
<1>2. LeftOf(Made, ordered) \in SUBSET Rows
  BY DEF LeftOf, Rows
<1>3. /\ Here(Wanted(Made, Varied, Len(ordered)), FALSE) = wanted
      /\ Here(<<"all", "">>, FALSE) = apart
      /\ Here(<<"all", "">>, TRUE) = LeftOf(Made, ordered)
  BY <1>1, <1>2 DEF Here
<1>4. Pops(1) = entries(wanted) /\ Pops(2) = entries(apart) /\ Pops(3) = entries(LeftOf(Made, ordered))
  <2>1. \A h : \A allow : Poppable(h, Varied, allow) = entries(Here(h, allow))
    BY PoppableIs
  <2>2. /\ Pops(1) = Poppable(Wanted(Made, Varied, Len(ordered)), Varied, FALSE)
        /\ Pops(2) = Poppable(<<"all", "">>, Varied, FALSE)
        /\ Pops(3) = Poppable(<<"all", "">>, Varied, TRUE)
    BY DEF Pops, AttemptsNow, Attempts
  <2> HIDE DEF entries
  <2> QED BY <1>3, <2>1, <2>2, ZenonT(60)
<1>5. PoolOf(Made, Varied, ordered) = IF wanted # {} THEN wanted ELSE IF apart # {} THEN apart ELSE LeftOf(Made, ordered)
  BY DEF PoolOf
<1>6. wanted \in SUBSET Rows /\ apart \in SUBSET Rows
  BY <1>2
<1> HIDE DEF wanted, apart
<1>7. CASE Used = 1
  BY <1>4, <1>5, <1>6, <1>7, UsedIs
<1>8. CASE Used = 2
  BY <1>4, <1>5, <1>6, <1>8, UsedIs
<1>9. CASE Used = 3
  BY <1>2, <1>4, <1>5, <1>6, <1>9, UsedIs
<1> QED BY <1>7, <1>8, <1>9, UsedIs

LEMMA ChosenIsBest ==
  ASSUME TableOK, BuildTyped, EntriesFit, NoneIsLost, Found(Made, Varied) # {}
  PROVE  LET pool == PoolOf(Made, Varied, ordered)
         IN /\ Chosen \in pool /\ Chosen \in Rows /\ Chosen.scene \notin Taken
            /\ Best = Entry(Chosen, utility, version)
            /\ \A c \in pool \ {Chosen} : Before(Best, Entry(c, utility, version))
<1> DEFINE pool == PoolOf(Made, Varied, ordered)
           E == {Entry(c, utility, version) : c \in pool}
<1>1. pool \in SUBSET Rows /\ pool # {} /\ Pops(Used) = E
  BY PoolIsTried
<1> HIDE DEF pool
<1>2. AreRanked(E) /\ \A c, d \in pool : Entry(c, utility, version) = Entry(d, utility, version) => c = d
  BY <1>1, EntriesAreRanked
<1>3. Best \in E /\ \A f \in E \ {Best} : Before(Best, f)
  <2> HIDE DEF E
  <2>1. E # {}
    BY <1>1 DEF E
  <2> QED BY <1>1, <1>2, <2>1, FirstIsFirst DEF Best
<1>4. PICK b \in pool : Best = Entry(b, utility, version)
  BY <1>3
<1>5. Chosen = b
  <2>1. b \in table /\ Best.key = Key(b)
    BY <1>1, <1>4 DEF Rows, Of, Entry
  <2> QED BY <2>1, RowsAreCandidates DEF Chosen
<1>6. \A c \in pool \ {b} : Before(Best, Entry(c, utility, version))
  BY <1>2, <1>3, <1>4
<1>7. b \in LeftOf(Made, ordered)
  BY <1>4 DEF pool, PoolOf
<1>8. b \in Rows /\ b.scene \notin Taken
  BY <1>7 DEF LeftOf, Rows, Taken
<1> QED BY <1>4, <1>5, <1>6, <1>8 DEF pool

\* No attempt takes more out of a queue than what is outdated and the choice.
LEMMA TriedKeeps ==
  ASSUME TableOK, BuildTyped, EntriesFit, NoneIsLost, Found(Made, Varied) # {},
         NEW h \in DOMAIN heap
  PROVE  /\ Tried[h] \subseteq heap[h]
         /\ \A c \in Rows : /\ c.scene \notin Taken \cup {Chosen.scene}
                            /\ h \in SelectorsOf(Made, c)
                            => Entry(c, utility, version) \in Tried[h]
<1>1. CASE ~\E n \in 1..Used : AttemptsNow[n][1] = h
  <2>1. Tried[h] = heap[h]
    BY <1>1 DEF Tried
  <2> QED BY <2>1 DEF NoneIsLost
<1>2. CASE \E n \in 1..Used : AttemptsNow[n][1] = h
  <2> DEFINE N == {m \in 1..Used : AttemptsNow[m][1] = h}
             n == Max(N)
             cands == Poppable(h, Varied, AttemptsNow[n][2])
  <2>1. Used \in 1..3
    BY UsedIs
  <2>2. n \in N
    <3>1. N \subseteq 1..3 /\ N # {}
      BY <1>2, <2>1
    <3> HIDE DEF N
    <3>2. \E x \in N : \A y \in N : x >= y
      <4>1. CASE 3 \in N
        BY <3>1, <4>1
      <4>2. CASE 3 \notin N /\ 2 \in N
        BY <3>1, <4>2
      <4>3. CASE 3 \notin N /\ 2 \notin N
        <5>1. \A y \in N : y = 1
          BY <3>1, <4>3
        <5>2. 1 \in N
          BY <3>1, <5>1
        <5> QED BY <5>1, <5>2
      <4> QED BY <4>1, <4>2, <4>3
    <3> QED BY <3>2 DEF Max
  <2>3. n \in 1..3 /\ n <= Used /\ AttemptsNow[n][1] = h
    BY <2>1, <2>2
  <2>4. Tried[h] = Popped(h, Varied, AttemptsNow[n][2])
    BY <1>2 DEF Tried
  <2> HIDE DEF N, n
  <2>5. cands = Pops(n)
    BY <2>3 DEF Pops
  <2>6. Tried[h] \subseteq heap[h]
    BY <2>4 DEF Popped, Queue
  <2>7. ASSUME NEW c \in Rows, c.scene \notin Taken \cup {Chosen.scene}, h \in SelectorsOf(Made, c)
        PROVE  Entry(c, utility, version) \in Tried[h]
    <3> DEFINE e == Entry(c, utility, version)
    <3>1. e \in Queue(h) /\ Valid(e)
      BY <2>7 DEF NoneIsLost, Queue, Valid, Entry, Key
    <3>2. e \notin cands \/ ~(cands = {} \/ Before(e, First(cands)) \/ e = First(cands))
      <4>1. CASE cands = {}
        BY <4>1
      <4>2. CASE cands # {}
        <5>1. n = Used /\ First(cands) = Best
          BY <2>1, <2>3, <2>5, <4>2, UsedIs DEF Best
        <5>2. e # Best
          <6>1. Key(c) # Key(Chosen)
            BY <2>7 DEF Key
          <6> QED BY <6>1, ChosenIsBest DEF Entry
        <5>3. SUFFICES ASSUME e \in cands PROVE ~Before(e, Best)
          BY <4>2, <5>1, <5>2
        <5>4. PICK d \in PoolOf(Made, Varied, ordered) : e = Entry(d, utility, version)
          BY <2>5, <5>1, <5>3, PoolIsTried
        <5>5. d # Chosen /\ d \in Rows
          BY <5>2, <5>4, ChosenIsBest, PoolIsTried
        <5>6. Before(Best, e)
          BY <5>4, <5>5, ChosenIsBest
        <5>7. IsRanked(e) /\ IsRanked(Best)
          <6>1. Chosen \in Rows /\ Best = Entry(Chosen, utility, version)
            BY ChosenIsBest
          <6> HIDE DEF e
          <6> QED BY <5>4, <5>5, <6>1, EntriesAreRanked
        <5> QED BY <5>6, <5>7, BeforeIsAnOrder
      <4> QED BY <4>1, <4>2
    <3> HIDE DEF e, cands
    <3> QED BY <2>4, <3>1, <3>2 DEF Popped, cands, e
  <2> QED BY <2>6, <2>7
<1> QED BY <1>1, <1>2
-----------------------------------------------------------------------------
\* The table does not change, nor does what is computed of it.
LEMMA PoolsStay ==
  ASSUME table' = table, NEW lane, NEW varied, NEW placed
  PROVE  /\ Of(lane)' = Of(lane)
         /\ PoolOf(lane, varied, placed)' = PoolOf(lane, varied, placed)
<1>1. Of(lane)' = Of(lane)
  BY DEF Of
<1>2. Turns(lane, varied)' = Turns(lane, varied)
  BY <1>1 DEF Turns
<1>3. Wanted(lane, varied, Len(placed))' = Wanted(lane, varied, Len(placed))
  BY <1>2 DEF Wanted
<1> QED BY <1>1, <1>3 DEF PoolOf, LeftOf

LEMMA GreedyStays ==
  ASSUME table' = table, NEW of, NEW rows
  PROVE  IsGreedy(of, rows)' <=> IsGreedy(of, rows)
BY PoolsStay DEF IsGreedy
\* What a choice costs the others, and what becomes of their entries.
LEMMA CostsAre ==
  ASSUME TableOK, BuildTyped, Chosen \in Rows, NEW c \in Rows
  PROVE  /\ Key(c) \in Keys /\ Row(Key(c)) = c
         /\ Costs[Key(c)] = IF Varied THEN Cost(c, Chosen) ELSE 0
         /\ Costs[Key(c)] \in Nat
         /\ Utilities[Key(c)] = utility[Key(c)] - Costs[Key(c)]
         /\ Versions[Key(c)] = IF c \in Changed THEN version[Key(c)] + 1 ELSE version[Key(c)]
         /\ FreshUtility(c, Varied, Append(ordered, Chosen))
              = FreshUtility(c, Varied, ordered) - Costs[Key(c)]
<1>1. Key(c) \in Keys /\ Row(Key(c)) = c /\ IsCandidate(c)
  BY RowsAreCandidates DEF Keys, Rows, Of
<1>2. DOMAIN utility = Keys /\ DOMAIN version = Keys /\ ordered \in Seq(Rows)
  BY DEF BuildTyped
<1>3. Costs[Key(c)] = IF Varied THEN Cost(c, Chosen) ELSE 0
  BY <1>1, <1>2 DEF Costs
<1>4. /\ Utilities[Key(c)] = utility[Key(c)] - Costs[Key(c)]
      /\ Versions[Key(c)] = IF c \in Changed THEN version[Key(c)] + 1 ELSE version[Key(c)]
  BY <1>1, <1>2 DEF Utilities, Versions
<1>5. /\ Cost(c, Chosen) \in Nat
      /\ FreshUtility(c, TRUE, ordered) \in Int
      /\ FreshUtility(c, TRUE, Append(ordered, Chosen)) = FreshUtility(c, TRUE, ordered) - Cost(c, Chosen)
  BY <1>1, <1>2, CostIsTheDifference
<1>6. CASE Varied
  <2>1. /\ FreshUtility(c, Varied, ordered) = FreshUtility(c, TRUE, ordered)
        /\ FreshUtility(c, Varied, Append(ordered, Chosen)) = FreshUtility(c, TRUE, Append(ordered, Chosen))
    BY <1>6 DEF Varied
  <2> QED BY <1>1, <1>3, <1>4, <1>5, <1>6, <2>1
<1>7. CASE ~Varied
  <2>1. FirstUtility(c, Varied) \in Int
    <3>1. c.value \in Int /\ Whole \in Nat
      BY <1>1, OrdersAssumption DEF IsCandidate
    <3> QED BY <1>7, <3>1 DEF FirstUtility
  <2>2. /\ FreshUtility(c, Varied, ordered) = FirstUtility(c, Varied) - 0
        /\ FreshUtility(c, Varied, Append(ordered, Chosen)) = FirstUtility(c, Varied) - 0
    BY <1>7 DEF FreshUtility
  <2> QED BY <1>1, <1>3, <1>4, <1>7, <2>1, <2>2
<1> QED BY <1>6, <1>7

LEMMA NewEntryIs ==
  ASSUME TableOK, BuildTyped, Chosen \in Rows, NEW c \in Rows, c.scene \notin Taken \cup {Chosen.scene}
  PROVE  c \notin Changed => Entry(c, Utilities, Versions) = Entry(c, utility, version)
<1>1. /\ Costs[Key(c)] \in Nat /\ Key(c) \in Keys
      /\ Utilities[Key(c)] = utility[Key(c)] - Costs[Key(c)]
      /\ Versions[Key(c)] = IF c \in Changed THEN version[Key(c)] + 1 ELSE version[Key(c)]
  BY CostsAre
<1>2. utility[Key(c)] \in Int
  BY <1>1 DEF BuildTyped
<1>3. c \notin Changed => Costs[Key(c)] = 0
  BY <1>1 DEF Changed
<1>4. c \notin Changed => Utilities[Key(c)] = utility[Key(c)] /\ Versions[Key(c)] = version[Key(c)]
  BY <1>1, <1>2, <1>3
<1> QED BY <1>4 DEF Entry

LEMMA PlaceIsTyped ==
  ASSUME TableOK, BuildInv, PlaceCandidate
  PROVE  BuildTyped'
<1>1. /\ todo # <<>> /\ Found(Made, Varied) # {} /\ ordered' = Append(ordered, Chosen)
      /\ utility' = Utilities /\ version' = Versions /\ heap' = Heaps
      /\ table' = table /\ todo' = todo
  BY PlaceIs
<1>2. BuildTyped /\ EntriesFit /\ NoneIsLost
  BY DEF BuildInv
<1>3. Chosen \in Rows
  BY <1>1, <1>2, ChosenIsBest
<1>4. Rows' = Rows /\ Keys' = Keys /\ Made' = Made /\ Selectors(Made)' = Selectors(Made)
  <2>1. Made' = Made
    BY <1>1 DEF Made
  <2>2. Rows' = Rows
    BY <1>1, <2>1 DEF Rows, Of
  <2>3. Keys' = Keys
    BY <2>2 DEF Keys
  <2>4. Selectors(Made)' = Selectors(Made)
    BY <1>1, <2>1 DEF Selectors, Of
  <2> QED BY <2>1, <2>2, <2>3, <2>4
<1>5. ordered' \in Seq(Rows)
  BY <1>1, <1>2, <1>3 DEF BuildTyped
<1>6. Utilities \in [Keys -> Int] /\ Versions \in [Keys -> Nat]
  <2>1. utility \in [Keys -> Int] /\ version \in [Keys -> Nat]
    BY <1>2 DEF BuildTyped
  <2>2. \A k \in Keys : Utilities[k] \in Int /\ Versions[k] \in Nat
    <3> SUFFICES ASSUME NEW c \in Rows PROVE Utilities[Key(c)] \in Int /\ Versions[Key(c)] \in Nat
      BY DEF Keys
    <3>1. /\ Costs[Key(c)] \in Nat /\ Key(c) \in Keys
          /\ Utilities[Key(c)] = utility[Key(c)] - Costs[Key(c)]
          /\ Versions[Key(c)] = IF c \in Changed THEN version[Key(c)] + 1 ELSE version[Key(c)]
      BY <1>2, <1>3, CostsAre
    <3> QED BY <2>1, <3>1
  <2>3. /\ DOMAIN Utilities = Keys /\ DOMAIN Versions = Keys
        /\ Utilities = [k \in Keys |-> Utilities[k]] /\ Versions = [k \in Keys |-> Versions[k]]
    BY <2>1 DEF Utilities, Versions
  <2> QED BY <2>2, <2>3
<1>7. DOMAIN Heaps = Selectors(Made)
  BY <1>2 DEF Heaps, BuildTyped
<1>8. ASSUME NEW h \in DOMAIN heap PROVE IsFiniteSet(Heaps[h])
  <2> DEFINE C == {d \in Changed : h \in SelectorsOf(Made, d)}
             E == {Entry(c, Utilities, Versions) : c \in C}
  <2>1. IsFiniteSet(heap[h]) /\ Tried[h] \in SUBSET heap[h]
    BY <1>1, <1>2, <1>8, TriedKeeps DEF BuildTyped
  <2>2. IsFiniteSet(Tried[h])
    BY <2>1, FS_Subset
  <2>3. C \in SUBSET Rows
    BY DEF Changed
  <2>4. IsFiniteSet(C)
    BY <2>3, RowsAreFinite
  <2> DEFINE f == [c \in C |-> Entry(c, Utilities, Versions)]
  <2>5. f \in Surjection(C, E)
    BY DEF Surjection
  <2>6. Heaps[h] = Tried[h] \cup E
    BY <1>8 DEF Heaps
  <2> HIDE DEF f, E, C
  <2>7. IsFiniteSet(E)
    BY <2>4, <2>5, FS_Surjection
  <2> QED BY <2>2, <2>6, <2>7, FS_Union
<1>9. DOMAIN Heaps = DOMAIN heap
  BY DEF Heaps
<1> QED BY <1>1, <1>4, <1>5, <1>6, <1>7, <1>8, <1>9 DEF BuildTyped

LEMMA PlaceKeepsEntries ==
  ASSUME TableOK, BuildInv, PlaceCandidate
  PROVE  EntriesFit' /\ NoneIsLost'
<1>1. /\ todo # <<>> /\ Found(Made, Varied) # {} /\ ordered' = Append(ordered, Chosen)
      /\ utility' = Utilities /\ version' = Versions /\ heap' = Heaps
      /\ table' = table /\ todo' = todo
  BY PlaceIs
<1>2. BuildTyped /\ EntriesFit /\ NoneIsLost
  BY DEF BuildInv
<1>3. Chosen \in Rows
  BY <1>1, <1>2, ChosenIsBest
<1>4. Rows' = Rows /\ Made' = Made
  BY <1>1 DEF Rows, Of, Made
<1>5. Taken' = Taken \cup {Chosen.scene}
  BY <1>1, <1>2, <1>3, AppendedFeatures DEF Taken, BuildTyped
<1>7. DOMAIN heap = Selectors(Made) /\ DOMAIN Heaps = DOMAIN heap
  BY <1>2 DEF BuildTyped, Heaps
<1>8. ASSUME NEW c \in Rows
      PROVE  /\ Key(c) \in Keys /\ version[Key(c)] \in Nat
             /\ Versions[Key(c)] = IF c \in Changed THEN version[Key(c)] + 1 ELSE version[Key(c)]
             /\ Entry(c, Utilities, Versions).key = Key(c)
             /\ Entry(c, Utilities, Versions).version = Versions[Key(c)]
  BY <1>2, <1>3, CostsAre DEF BuildTyped, Entry
<1>9. ASSUME NEW h \in DOMAIN heap, NEW e \in Heaps[h]
      PROVE  \E c \in Rows :
               /\ h \in SelectorsOf(Made, c)
               /\ e.key = Key(c) /\ e.version \in Nat /\ e.version <= Versions[Key(c)]
               /\ e.version = Versions[Key(c)] /\ c.scene \notin Taken \cup {Chosen.scene}
                    => e = Entry(c, Utilities, Versions)
  <2>1. CASE e \in Tried[h]
    <3>1. e \in heap[h]
      BY <1>1, <1>2, <1>9, <2>1, TriedKeeps
    <3>2. PICK c \in Rows :
             /\ h \in SelectorsOf(Made, c)
             /\ e.key = Key(c) /\ e.version \in Nat /\ e.version <= version[Key(c)]
             /\ e.version = version[Key(c)] /\ c.scene \notin Taken => e = Entry(c, utility, version)
      BY <1>2, <1>9, <3>1 DEF EntriesFit, EntryFits
    <3>3. e.version <= Versions[Key(c)]
      BY <1>8, <3>2
    <3>4. ASSUME e.version = Versions[Key(c)], c.scene \notin Taken \cup {Chosen.scene}
          PROVE  e = Entry(c, Utilities, Versions)
      <4>1. c \notin Changed
        BY <1>8, <3>2, <3>4
      <4>2. Entry(c, Utilities, Versions) = Entry(c, utility, version)
        BY <1>2, <1>3, <3>4, <4>1, NewEntryIs
      <4>3. e.version = version[Key(c)]
        BY <1>8, <3>4, <4>1
      <4> QED BY <3>2, <3>4, <4>2, <4>3
    <3> QED BY <3>2, <3>3, <3>4
  <2>2. CASE e \notin Tried[h]
    <3>1. PICK c \in Changed : h \in SelectorsOf(Made, c) /\ e = Entry(c, Utilities, Versions)
      BY <1>9, <2>2 DEF Heaps
    <3>2. c \in Rows
      BY DEF Changed
    <3>3. e.key = Key(c) /\ e.version = Versions[Key(c)] /\ Versions[Key(c)] \in Nat
      BY <1>8, <3>1, <3>2
    <3> QED BY <3>1, <3>2, <3>3
  <2> QED BY <2>1, <2>2
<1>10. ASSUME NEW c \in Rows, c.scene \notin Taken \cup {Chosen.scene}, NEW h \in SelectorsOf(Made, c)
       PROVE  Entry(c, Utilities, Versions) \in Heaps[h]
  <2>1. h \in DOMAIN heap
    BY <1>7, <1>10 DEF Selectors, Rows
  <2>2. Heaps[h] = Tried[h] \cup {Entry(d, Utilities, Versions) : d \in {d \in Changed : h \in SelectorsOf(Made, d)}}
    BY <2>1 DEF Heaps
  <2>3. CASE c \in Changed
    BY <1>10, <2>2, <2>3
  <2>4. CASE c \notin Changed
    <3>1. Entry(c, utility, version) \in Tried[h]
      BY <1>1, <1>2, <1>10, <2>1, TriedKeeps
    <3>2. Entry(c, Utilities, Versions) = Entry(c, utility, version)
      BY <1>2, <1>3, <1>10, <2>4, NewEntryIs
    <3> QED BY <2>2, <3>1, <3>2
  <2> QED BY <2>3, <2>4
<1>11. EntriesFit'
  BY <1>1, <1>4, <1>5, <1>7, <1>9 DEF EntriesFit, EntryFits, Entry
<1>12. NoneIsLost'
  BY <1>1, <1>4, <1>5, <1>10 DEF NoneIsLost, Entry
<1> QED BY <1>11, <1>12

LEMMA PlaceKeeps ==
  ASSUME TableOK, BuildInv, PlaceCandidate
  PROVE  BuildInv'
<1>1. /\ todo # <<>> /\ Found(Made, Varied) # {} /\ ordered' = Append(ordered, Chosen)
      /\ utility' = Utilities /\ table' = table /\ todo' = todo
  BY PlaceIs
<1>2. BuildTyped /\ EntriesFit /\ NoneIsLost /\ UtilitiesAreFresh /\ ScenesDiffer(ordered) /\ IsGreedy(todo[1], ordered)
  BY DEF BuildInv
<1>3. /\ Chosen \in PoolOf(Made, Varied, ordered) /\ Chosen \in Rows /\ Chosen.scene \notin Taken
      /\ Best = Entry(Chosen, utility, version)
      /\ \A c \in PoolOf(Made, Varied, ordered) \ {Chosen} : Before(Best, Entry(c, utility, version))
  BY <1>1, <1>2, ChosenIsBest
<1>4. Rows' = Rows /\ Made' = Made /\ Varied' = Varied
  BY <1>1 DEF Rows, Of, Made, Varied
<1>5. ordered \in Seq(Rows)
  BY <1>2 DEF BuildTyped
<1>6. UtilitiesAreFresh'
  <2>1. \A c \in Rows : Utilities[Key(c)] = FreshUtility(c, Varied, Append(ordered, Chosen))
    BY <1>2, <1>3, CostsAre DEF UtilitiesAreFresh
  <2> QED BY <1>1, <1>4, <2>1 DEF UtilitiesAreFresh
<1> DEFINE more == Append(ordered, Chosen)
<1>7. /\ DOMAIN more = DOMAIN ordered \cup {Len(ordered) + 1} /\ Len(ordered) \in Nat
      /\ DOMAIN ordered = 1..Len(ordered)
      /\ \A i \in DOMAIN ordered : more[i] = ordered[i]
      /\ more[Len(ordered) + 1] = Chosen
  BY <1>3, <1>5
<1>8. ScenesDiffer(more)
  <2>1. \A i \in DOMAIN ordered : ordered[i].scene # Chosen.scene
    BY <1>3 DEF Taken, ScenesIn
  <2> HIDE DEF more
  <2> QED BY <1>2, <1>7, <2>1 DEF ScenesDiffer
<1>9. IsGreedy(todo[1], more)
  <2> SUFFICES ASSUME NEW n \in DOMAIN more
               PROVE  LET placed == SubSeq(more, 1, n - 1)
                          pool == PoolOf(Made, Varied, placed)
                      IN /\ more[n] \in pool
                         /\ \A c \in pool \ {more[n]} : Better(more[n], c, Varied, placed)
    BY DEF IsGreedy, Made, Varied
  <2>1. CASE n \in DOMAIN ordered
    <3>1. SubSeq(more, 1, n - 1) = SubSeq(ordered, 1, n - 1)
      BY <1>3, <1>5, <1>7, <2>1
    <3> HIDE DEF more
    <3>2. more[n] = ordered[n]
      BY <1>7, <2>1
    <3> QED BY <1>2, <2>1, <3>1, <3>2 DEF IsGreedy, Made, Varied
  <2>2. CASE n = Len(ordered) + 1
    <3>1. SubSeq(more, 1, n - 1) = ordered
      BY <1>3, <1>5, <1>7, <2>2
    <3>2. more[n] = Chosen
      BY <1>7, <2>2
    <3>3. \A c \in PoolOf(Made, Varied, ordered) : c \in Rows
      BY DEF PoolOf, LeftOf, Rows
    <3>4. ASSUME NEW c \in PoolOf(Made, Varied, ordered) \ {Chosen}
          PROVE  Better(Chosen, c, Varied, ordered)
      <4>1. Before(Best, Entry(c, utility, version))
        BY <1>3, <3>4
      <4>2. /\ utility[Key(c)] = FreshUtility(c, Varied, ordered)
            /\ utility[Key(Chosen)] = FreshUtility(Chosen, Varied, ordered)
        BY <1>2, <1>3, <3>3, <3>4 DEF UtilitiesAreFresh
      <4> QED BY <1>3, <4>1, <4>2 DEF Better, Before, Entry
    <3> HIDE DEF more
    <3> QED BY <1>3, <3>1, <3>2, <3>4
  <2> QED BY <1>7, <2>1, <2>2
<1>10. IsGreedy(todo[1], ordered)'
  BY <1>1, <1>9, GreedyStays
<1>11. ScenesDiffer(ordered)'
  BY <1>1, <1>8 DEF ScenesDiffer
<1> QED BY <1>6, <1>10, <1>11, PlaceIsTyped, PlaceKeepsEntries DEF BuildInv
-----------------------------------------------------------------------------
\* The orders to make are a sequence: an induction over the lanes.
Pairs == STRING \X {"score_first", "varied"}

NextOrderings(f) ==
  [n \in 0..Len(Orders) |-> IF n = 0 THEN <<>> ELSE f[n - 1] \o OrderingsOf(Orders[n])]

LEMMA OrderingsStep ==
  ASSUME NEW f, NEW n \in 0..Len(Orders), n # 0 => f[n - 1] \in Seq(Pairs)
  PROVE  NextOrderings(f)[n] \in Seq(Pairs)
<1>1. CASE n = 0
  <2>1. NextOrderings(f)[n] = <<>>
    BY <1>1 DEF NextOrderings
  <2> QED BY <2>1
<1>2. CASE n # 0
  <2>1. NextOrderings(f)[n] = f[n - 1] \o OrderingsOf(Orders[n])
    BY <1>2 DEF NextOrderings
  <2>2. Orders[n] \in STRING
    BY <1>2, OrdersAssumption
  <2> DEFINE lane == Orders[n]
             first == <<lane, "score_first">>
             second == <<lane, "varied">>
  <2>a. first \in Pairs /\ second \in Pairs
    BY <2>2 DEF Pairs
  <2> HIDE DEF first, second
  <2>b. <<first>> \in Seq(Pairs) /\ <<second>> \in Seq(Pairs) /\ <<>> \in Seq(Pairs)
    BY <2>a
  <2>3. <<<<lane, "score_first">>>> \in Seq(Pairs) /\ <<<<lane, "varied">>>> \in Seq(Pairs) /\ <<>> \in Seq(Pairs)
    BY <2>b DEF first, second
  <2> HIDE DEF lane
  <2>4. OrderingsOf(lane) \in Seq(Pairs)
    BY <2>3, ConcatProperties DEF OrderingsOf
  <2> QED BY <1>2, <2>1, <2>4, ConcatProperties DEF lane
<1> QED BY <1>1, <1>2

LEMMA OrderingsExist == \E f : f = NextOrderings(f)
<1> DEFINE L == Len(Orders)
           G == [0..L -> Seq(Pairs)]
           Upto(f, n) == \A m \in 0..L : m <= n => f[m] = NextOrderings(f)[m]
           Reached(n) == \E f \in G : Upto(f, n)
           missed == {n \in Nat : ~Reached(n)}
<1>1. L \in Nat
  BY OrdersAssumption
<1>2. Reached(0)
  <2> DEFINE f == [m \in 0..L |-> <<>>]
  <2>1. f \in G
    OBVIOUS
  <2>2. \A m \in 0..L : m <= 0 => m = 0
    BY <1>1
  <2>3. NextOrderings(f)[0] = <<>> /\ f[0] = <<>>
    BY <1>1 DEF NextOrderings
  <2> QED BY <2>1, <2>2, <2>3
<1>3. ASSUME NEW n \in Nat, Reached(n) PROVE Reached(n + 1)
  <2>1. PICK f \in G : Upto(f, n)
    BY <1>3
  <2> DEFINE g == [f EXCEPT ![n + 1] = NextOrderings(f)[n + 1]]
  <2>2. CASE n + 1 \notin 0..L
    <3>1. \A m \in 0..L : m <= n + 1 => m <= n
      BY <1>1, <2>2
    <3> QED BY <2>1, <3>1
  <2>3. CASE n + 1 \in 0..L
    <3>1. NextOrderings(f)[n + 1] \in Seq(Pairs)
      <4>1. f[(n + 1) - 1] \in Seq(Pairs)
        BY <2>1, <2>3
      <4> QED BY <2>3, <4>1, OrderingsStep
    <3>2. g \in G /\ g[n + 1] = NextOrderings(f)[n + 1] /\ \A m \in 0..L : m # n + 1 => g[m] = f[m]
      BY <2>1, <2>3, <3>1
    <3> HIDE DEF g
    <3>3. ASSUME NEW m \in 0..L, m <= n + 1 PROVE g[m] = NextOrderings(g)[m]
      <4>1. m # 0 => m - 1 \in 0..L /\ m - 1 # n + 1
        BY <1>1, <3>3
      <4>2. m # 0 => g[m - 1] = f[m - 1]
        BY <3>2, <4>1
      <4>3. NextOrderings(g)[m] = NextOrderings(f)[m]
        BY <4>2 DEF NextOrderings
      <4>4. m # n + 1 => m <= n
        BY <3>3
      <4> QED BY <2>1, <3>2, <4>3, <4>4
    <3> QED BY <3>2, <3>3
  <2> QED BY <2>2, <2>3
<1>4. missed = {}
  <2>1. SUFFICES ASSUME missed # {} PROVE FALSE
    OBVIOUS
  <2>2. PICK n \in missed : \A m \in missed : n <= m
    BY <2>1, LeastOf
  <2>3. n \in Nat /\ ~Reached(n) /\ n # 0
    BY <1>2
  <2>7. n - 1 \in Nat /\ ~(n <= n - 1) /\ (n - 1) + 1 = n
    BY <2>3
  <2>4. n - 1 \in Nat /\ n - 1 \notin missed /\ (n - 1) + 1 = n
    BY <2>2, <2>7, Zenon
  <2>5. Reached(n - 1)
    BY <2>4
  <2> HIDE DEF Reached
  <2>6. Reached((n - 1) + 1)
    BY <1>3, <2>4, <2>5
  <2> QED BY <2>3, <2>4, <2>6
<1>5. PICK f \in G : Upto(f, L)
  BY <1>1, <1>4
<1>6. \A m \in 0..L : f[m] = NextOrderings(f)[m]
  BY <1>1, <1>5
<1> DEFINE g == NextOrderings(f)
<1>7. g = [m \in 0..L |-> g[m]] /\ f = [m \in 0..L |-> f[m]]
  BY <1>5 DEF NextOrderings
<1> HIDE DEF g
<1>8. f = g
  BY <1>6, <1>7 DEF g
<1> QED BY <1>8 DEF g

LEMMA OrderingsAreASequence == Orderings \in Seq(Pairs)
<1> DEFINE f == CHOOSE g : g = NextOrderings(g)
           wrong == {n \in 0..Len(Orders) : f[n] \notin Seq(Pairs)}
<1>1. f = NextOrderings(f)
  BY OrderingsExist
<1>2. Orderings = f[Len(Orders)]
  BY DEF Orderings, NextOrderings
<1>3. Len(Orders) \in Nat
  BY OrdersAssumption
<1> HIDE DEF f
<1>4. wrong = {}
  <2>1. SUFFICES ASSUME wrong # {} PROVE FALSE
    OBVIOUS
  <2>2. wrong \subseteq Nat
    BY <1>3
  <2>3. PICK n \in wrong : \A m \in wrong : n <= m
    BY <2>1, <2>2, LeastOf
  <2>4. n \in 0..Len(Orders) /\ (n # 0 => n - 1 \in 0..Len(Orders) /\ n - 1 \notin wrong)
    BY <1>3, <2>3
  <2>5. n # 0 => f[n - 1] \in Seq(Pairs)
    BY <2>4
  <2>6. NextOrderings(f)[n] \in Seq(Pairs)
    BY <2>4, <2>5, OrderingsStep
  <2> QED BY <1>1, <2>3, <2>6
<1> QED BY <1>2, <1>3, <1>4
-----------------------------------------------------------------------------
\* An order that is begun: every candidate is in its queues, at its first worth.
LEMMA FirstIsFresh ==
  ASSUME NEW c, IsCandidate(c), NEW varied \in BOOLEAN
  PROVE  FirstUtility(c, varied) \in Int /\ FreshUtility(c, varied, <<>>) = FirstUtility(c, varied)
<1>1. c.value \in Int /\ Whole \in Nat /\ ContentPenalty \in Nat /\ UncoveredBonus \in Nat
  BY OrdersAssumption DEF IsCandidate
<1>2. FirstUtility(c, varied) \in Int
  BY <1>1 DEF FirstUtility
<1>3. PerformersIn(<<>>) = {} /\ StudiosIn(<<>>) = {} /\ ContentIn(<<>>) = {}
  BY DEF PerformersIn, StudiosIn, ContentIn
<1>4. Share(c, {}) \in Nat /\ Share(c, {}) = Share(c, {}) + Share(c, {})
  <2>1. Share(c, {} \cup {}) = Share(c, {}) + Share(c, {} \ {}) /\ Share(c, {}) \in Nat
    BY SharesAddUp
  <2> QED BY <2>1
<1> DEFINE none == Share(c, {})
           w == ContentPenalty + UncoveredBonus
           u == FirstUtility(c, varied)
<1>5. none = 0 /\ w \in Nat
  <2>1. none \in Nat /\ none = none + none
    BY <1>4
  <2>2. w \in Nat
    BY <1>1
  <2> HIDE DEF none, w
  <2> QED BY <2>1, <2>2
<1>6. FreshUtility(c, varied, <<>>) = u - (IF ~varied THEN 0 ELSE 0 + 0 + w * none)
  BY <1>3 DEF FreshUtility
<1> HIDE DEF none, w, u
<1>7. w * none = 0
  BY <1>5
<1> QED BY <1>2, <1>6, <1>7 DEF u

LEMMA BeginsAnew ==
  ASSUME TableOK, NEW next, next # <<>>, table' = table, todo' = next, Begin(next)
  PROVE  BuildInv'
<1> DEFINE lane == next[1][1]
           varied == next[1][2] = "varied"
           C == Of(lane)
           K == {Key(c) : c \in C}
           u == [k \in K |-> FirstUtility(Row(k), varied)]
           v == [k \in DOMAIN u |-> 0]
           H == [h \in Selectors(lane) |-> {Entry(c, u, v) : c \in {d \in C : h \in SelectorsOf(lane, d)}}]
<1>1. ordered' = <<>> /\ utility' = u /\ version' = v /\ heap' = H
  BY DEF Begin, Pushed
<1>2. Made' = lane /\ Varied' = varied /\ Rows' = C /\ Keys' = K /\ Selectors(Made)' = Selectors(lane)
  <2>1. Made' = lane /\ Varied' = varied
    BY DEF Made, Varied
  <2>2. Rows' = C
    BY <2>1 DEF Rows, Of
  <2>3. Keys' = K
    BY <2>2 DEF Keys
  <2>4. Selectors(Made)' = Selectors(lane)
    BY <2>1 DEF Selectors, Of
  <2> QED BY <2>1, <2>2, <2>3, <2>4
<1>3. C \in SUBSET table /\ \A c \in C : IsCandidate(c) /\ Row(Key(c)) = c /\ Key(c) \in K
  BY RowsAreCandidates DEF Of
<1>4. varied \in BOOLEAN
  OBVIOUS
<1> HIDE DEF varied, lane
<1>5. \A c \in C : u[Key(c)] = FirstUtility(c, varied) /\ v[Key(c)] = 0 /\ u[Key(c)] \in Int
                   /\ u[Key(c)] = FreshUtility(c, varied, <<>>)
  BY <1>3, <1>4, FirstIsFresh
<1>6. u \in [K -> Int] /\ v \in [K -> Nat]
  <2>1. \A k \in K : u[k] \in Int
    BY <1>5
  <2> QED BY <2>1
<1>7. Taken' = {}
  BY <1>1 DEF Taken, ScenesIn
<1>8. DOMAIN H = Selectors(lane)
  OBVIOUS
<1>9. ASSUME NEW h \in DOMAIN H PROVE IsFiniteSet(H[h])
  <2> DEFINE D == {d \in C : h \in SelectorsOf(lane, d)}
             E == {Entry(c, u, v) : c \in D}
             f == [c \in D |-> Entry(c, u, v)]
  <2>1. D \in SUBSET table
    BY <1>3
  <2>2. IsFiniteSet(D)
    BY <2>1, RowsAreCandidates, FS_Subset
  <2>3. H[h] = E
    OBVIOUS
  <2>4. f \in Surjection(D, E)
    BY DEF Surjection
  <2> HIDE DEF D, E, f, H
  <2> QED BY <2>2, <2>3, <2>4, FS_Surjection
<1>10. BuildTyped'
  <2>1. ordered' \in Seq(Rows')
    BY <1>1
  <2> HIDE DEF u, v, H, K, C
  <2> QED BY <1>1, <1>2, <1>6, <1>8, <1>9, <2>1 DEF BuildTyped
<1>11. ASSUME NEW h \in DOMAIN H, NEW e \in H[h]
       PROVE  \E c \in C : /\ h \in SelectorsOf(lane, c) /\ e = Entry(c, u, v)
                           /\ e.key = Key(c) /\ e.version = v[Key(c)] /\ v[Key(c)] = 0
  <2>1. PICK c \in C : h \in SelectorsOf(lane, c) /\ e = Entry(c, u, v)
    OBVIOUS
  <2>2. e.key = Key(c) /\ e.version = v[Key(c)]
    BY <2>1 DEF Entry
  <2> QED BY <1>5, <2>1, <2>2
<1>12. ASSUME NEW c \in C, NEW h \in SelectorsOf(lane, c) PROVE Entry(c, u, v) \in H[h]
  BY <1>12 DEF Selectors
<1> HIDE DEF u, v, H, K, C
<1>13. EntriesFit'
  BY <1>1, <1>2, <1>11 DEF EntriesFit, EntryFits, Entry
<1>14. NoneIsLost'
  BY <1>1, <1>2, <1>12 DEF NoneIsLost, Entry
<1>15. UtilitiesAreFresh'
  BY <1>1, <1>2, <1>5 DEF UtilitiesAreFresh
<1>16. ScenesDiffer(ordered)' /\ IsGreedy(todo[1], ordered)'
  BY <1>1 DEF ScenesDiffer, IsGreedy
<1> QED BY <1>10, <1>13, <1>14, <1>15, <1>16 DEF BuildInv

-----------------------------------------------------------------------------
\* A saved order is a greedy one of all scenes of its lane.
IsWhole(of, rows) ==
  /\ rows \in Seq(Of(of[1])) /\ ScenesDiffer(rows)
  /\ ScenesIn(rows) = {c.scene : c \in Of(of[1])}
  /\ IsGreedy(of, rows)

LEMMA EndedIsWhole ==
  ASSUME TableOK, BuildInv, Found(Made, Varied) = {}
  PROVE  IsWhole(todo[1], ordered)
<1>1. BuildTyped /\ EntriesFit /\ NoneIsLost /\ ScenesDiffer(ordered) /\ IsGreedy(todo[1], ordered)
  BY DEF BuildInv
<1>2. Poppable(<<"all", "">>, Varied, TRUE) = {}
  <2>1. Found(Made, Varied) = {n \in 1..3 : Pops(n) # {}}
    BY DEF Found, Pops, AttemptsNow
  <2>2. Pops(3) = {}
    BY <2>1
  <2> QED BY <2>2 DEF Pops, AttemptsNow, Attempts
<1>3. Here(<<"all", "">>, TRUE) = {}
  <2> DEFINE all == <<"all", "">>
             H == Here(all, TRUE)
  <2> HIDE DEF all
  <2>1. Poppable(all, Varied, TRUE) = {Entry(c, utility, version) : c \in H}
    BY <1>1, PoppableIs
  <2> HIDE DEF H
  <2>2. H = {}
    BY <1>2, <2>1 DEF all
  <2> QED BY <2>2 DEF H, all
<1>4. \A c \in Rows : c.scene \in ScenesIn(ordered)
  BY <1>3 DEF Here, LeftOf, SelectorsOf, Rows
<1>5. \A i \in DOMAIN ordered : ordered[i] \in Rows
  BY <1>1 DEF BuildTyped
<1>6. ScenesIn(ordered) = {c.scene : c \in Rows}
  BY <1>4, <1>5 DEF ScenesIn
<1> QED BY <1>1, <1>6 DEF IsWhole, BuildTyped, Rows, Made

LEMMA WholeStays ==
  ASSUME table' = table, NEW of, NEW rows
  PROVE  IsWhole(of, rows)' <=> IsWhole(of, rows)
<1>1. Of(of[1])' = Of(of[1])
  BY DEF Of
<1> QED BY <1>1, GreedyStays DEF IsWhole, ScenesDiffer, ScenesIn

LEMMA WholeHasEachOnce ==
  ASSUME NEW of, NEW rows, IsWhole(of, rows)
  PROVE  Len(rows) = Cardinality(ScenesIn(rows))
<1> DEFINE n == Len(rows)
           S == ScenesIn(rows)
           f == [i \in 1..n |-> rows[i].scene]
<1>1. n \in Nat /\ DOMAIN rows = 1..n
  BY DEF IsWhole
<1>2. f \in Bijection(1..n, S)
  BY <1>1 DEF IsWhole, ScenesDiffer, ScenesIn, Bijection, Injection, Surjection, IsInjective
<1>3. ExistsBijection(1..n, S)
  BY <1>2 DEF ExistsBijection
<1> HIDE DEF S, n
<1> QED BY <1>1, <1>3, FS_CountingElements DEF S, n
-----------------------------------------------------------------------------
\* What is saved and what is still to be made is the plan.
Steps == Pairs \union {StateRow}
Plan == Append(Orderings, StateRow)

LEMMA PlanIsASequence ==
  /\ Orderings \in Seq(Steps) /\ Plan \in Seq(Steps) /\ Plan # <<>>
  /\ Len(Orderings) \in Nat /\ Len(Plan) = Len(Orderings) + 1
  /\ \A i \in 1..Len(Orderings) : Plan[i] = Orderings[i] /\ Orderings[i] # StateRow
  /\ <<StateRow>> \in Seq(Steps) /\ Plan = Orderings \o <<StateRow>>
<1>1. Orderings \in Seq(Pairs) /\ Pairs \subseteq Steps /\ StateRow \in Steps
  BY OrderingsAreASequence DEF Steps
<1>2. Orderings \in Seq(Steps)
  BY <1>1, SeqMonotonic
<1>3. \A p \in Pairs : p # StateRow
  BY DEF Pairs, StateRow
<1>4. Len(Orderings) \in Nat /\ \A i \in 1..Len(Orderings) : Orderings[i] \in Pairs
  BY <1>1
<1>5. /\ Plan \in Seq(Steps) /\ Plan # <<>> /\ Len(Plan) = Len(Orderings) + 1
      /\ \A i \in 1..Len(Orderings) : Plan[i] = Orderings[i]
  BY <1>1, <1>2, AppendProperties DEF Plan
<1>6. <<StateRow>> \in Seq(Steps)
  BY <1>1
<1>7. Plan = Orderings \o <<StateRow>>
  BY <1>1, <1>2, AppendIsConcat DEF Plan
<1> QED BY <1>2, <1>3, <1>4, <1>5, <1>6, <1>7

Ofs(orders) == [i \in DOMAIN orders |-> orders[i].of]

SavedOrders == Seq([of : Steps, rows : Seq(table)])

PlanInv ==
  /\ todo \in Seq(Steps) /\ complete \in BOOLEAN /\ saved \in SavedOrders
  /\ todo # <<>> => ~complete /\ Ofs(saved) \o todo = Plan
  /\ complete => Ofs(saved) = Orderings

SavedInv == \A i \in DOMAIN saved : IsWhole(saved[i].of, saved[i].rows)

OrdersInv ==
  /\ TableOK /\ PlanInv /\ SavedInv
  /\ todo # <<>> => BuildInv

LEMMA OfsAreTheirOrderings ==
  ASSUME NEW S, NEW orders \in Seq([of : Steps, rows : S])
  PROVE  /\ Ofs(orders) \in Seq(Steps) /\ Len(Ofs(orders)) = Len(orders)
         /\ \A i \in 1..Len(orders) : Ofs(orders)[i] = orders[i].of
<1> DEFINE n == Len(orders)
           g == Ofs(orders)
<1>1. n \in Nat /\ DOMAIN orders = 1..n /\ \A i \in 1..n : orders[i].of \in Steps
  <2> DEFINE R == [of : Steps, rows : S]
  <2>1. \A r \in R : r.of \in Steps
    OBVIOUS
  <2> HIDE DEF R
  <2>2. n \in Nat /\ DOMAIN orders = 1..n /\ \A i \in 1..n : orders[i] \in R
    BY LenProperties, ElementOfSeq DEF R
  <2> QED BY <2>1, <2>2
<1>2. g = [i \in 1..n |-> orders[i].of]
  BY <1>1 DEF Ofs
<1> HIDE DEF n, g
<1>3. g \in [1..n -> Steps]
  BY <1>1, <1>2
<1>4. g \in Seq(Steps) /\ Len(g) = n
  BY <1>1, <1>3
<1> QED BY <1>2, <1>4 DEF n, g

LEMMA OneMoreSaved ==
  ASSUME NEW S, NEW orders \in Seq([of : Steps, rows : S]), NEW plan \in Seq(Steps), plan # <<>>,
         NEW rows \in S
  PROVE  LET more == Append(orders, [of |-> plan[1], rows |-> rows])
         IN /\ more \in Seq([of : Steps, rows : S])
            /\ Ofs(more) \o Tail(plan) = Ofs(orders) \o plan
            /\ Ofs(more) \in Seq(Steps)
<1> DEFINE first == plan[1]
           x == [of |-> first, rows |-> rows]
           more == Append(orders, x)
           rest == Tail(plan)
<1>1. first \in Steps /\ rest \in Seq(Steps) /\ plan = <<first>> \o rest
  <2>1. first \in Steps /\ rest \in Seq(Steps)
    OBVIOUS
  <2>2. plan = <<first>> \o rest
    <3>1. Len(plan) \in Nat \ {0}
      BY EmptySeq
    <3>2. SubSeq(plan, 1, Len(plan)) = <<plan[1]>> \o SubSeq(plan, 1 + 1, Len(plan))
      BY <3>1, SubSeqRecursiveFirst
    <3>3. SubSeq(plan, 1, Len(plan)) = plan /\ Tail(plan) = SubSeq(plan, 2, Len(plan))
      BY SubSeqFull, TailIsSubSeq
    <3> QED BY <3>2, <3>3
  <2> QED BY <2>1, <2>2
<1> HIDE DEF first, rest
<1>2. x \in [of : Steps, rows : S] /\ x.of = first
  BY <1>1
<1>3. /\ more \in Seq([of : Steps, rows : S]) /\ Len(more) = Len(orders) + 1 /\ Len(orders) \in Nat
      /\ DOMAIN more = 1..(Len(orders) + 1) /\ DOMAIN orders = 1..Len(orders)
      /\ \A i \in 1..Len(orders) : more[i] = orders[i]
      /\ more[Len(orders) + 1] = x
  <2> HIDE DEF x
  <2> QED BY <1>2
<1> HIDE DEF x, more
<1>4. Ofs(orders) \in Seq(Steps) /\ Len(Ofs(orders)) = Len(orders)
  BY OfsAreTheirOrderings
<1>5. Ofs(more) = Append(Ofs(orders), first)
  <2> DEFINE left == Ofs(more)
             right == Append(Ofs(orders), first)
  <2>1. left \in Seq(Steps) /\ Len(left) = Len(orders) + 1
        /\ \A i \in 1..(Len(orders) + 1) : left[i] = more[i].of
    BY <1>3, OfsAreTheirOrderings
  <2>2. /\ right \in Seq(Steps) /\ Len(right) = Len(orders) + 1
        /\ right[Len(orders) + 1] = first
        /\ \A i \in 1..Len(orders) : right[i] = Ofs(orders)[i]
    <3> DEFINE of == Ofs(orders)
    <3> HIDE DEF of
    <3>1. of \in Seq(Steps) /\ Len(of) = Len(orders) /\ first \in Steps
      BY <1>1, <1>4 DEF of
    <3>2. /\ Append(of, first) \in Seq(Steps) /\ Len(Append(of, first)) = Len(of) + 1
          /\ Append(of, first)[Len(of) + 1] = first
          /\ \A i \in 1..Len(of) : Append(of, first)[i] = of[i]
      BY <3>1
    <3> QED BY <3>1, <3>2 DEF of
  <2> HIDE DEF left, right
  <2>3. ASSUME NEW i \in 1..Len(left) PROVE left[i] = right[i]
    <3>0. i \in 1..(Len(orders) + 1)
      BY <2>1
    <3>1. i \in 1..(Len(orders) + 1) /\ left[i] = more[i].of
      BY <2>1, <3>0, Zenon
    <3>2. CASE i = Len(orders) + 1
      <4>1. more[i] = x
        BY <1>3, <3>2
      <4>2. left[i] = first
        BY <1>2, <3>1, <4>1
      <4>3. right[i] = first
        BY <2>2, <3>2
      <4> QED BY <4>2, <4>3
    <3>3. CASE i # Len(orders) + 1
      <4>1. i \in 1..Len(orders)
        BY <1>3, <2>1, <3>3
      <4>2. Ofs(orders)[i] = orders[i].of
        BY <4>1, OfsAreTheirOrderings
      <4>3. right[i] = Ofs(orders)[i]
        BY <2>2, <4>1
      <4> QED BY <1>3, <3>1, <4>1, <4>2, <4>3
    <3> QED BY <3>2, <3>3
  <2>4. left = right
    BY <2>1, <2>2, <2>3, SeqEqual
  <2> QED BY <2>4 DEF left, right
<1>6. Ofs(more) = Ofs(orders) \o <<first>>
  BY <1>1, <1>4, <1>5, AppendIsConcat
<1>7. Ofs(more) \o rest = Ofs(orders) \o plan
  <2>1. <<first>> \in Seq(Steps)
    BY <1>1
  <2> QED BY <1>1, <1>4, <1>6, <2>1, ConcatAssociative
<1>8. Ofs(more) \in Seq(Steps)
  BY <1>1, <1>4, <1>5
<1> QED BY <1>3, <1>7, <1>8 DEF more, x, first, rest

LEMMA InitKeepsThePlan == InitOrders => OrdersInv
<1> SUFFICES ASSUME InitOrders PROVE OrdersInv
  OBVIOUS
<1>1. TableOK /\ todo = <<>> /\ saved = <<>> /\ complete = FALSE
  BY DEF InitOrders, TableOK
<1>2. todo \in Seq(Steps) /\ saved \in SavedOrders
  BY <1>1, EmptySeq DEF SavedOrders
<1>3. PlanInv
  BY <1>1, <1>2 DEF PlanInv
<1>4. SavedInv
  BY <1>1 DEF SavedInv
<1> QED BY <1>1, <1>3, <1>4 DEF OrdersInv

LEMMA PlaceKeepsThePlan ==
  ASSUME OrdersInv, PlaceCandidate
  PROVE  OrdersInv'
<1>1. todo # <<>> /\ UNCHANGED <<table, todo, saved, complete>>
  BY DEF PlaceCandidate
<1>2. BuildInv'
  BY <1>1, PlaceKeeps DEF OrdersInv
<1>3. SavedInv'
  BY <1>1, WholeStays DEF OrdersInv, SavedInv
<1>4. TableOK' /\ PlanInv'
  BY <1>1 DEF OrdersInv, TableOK, PlanInv, SavedOrders
<1> QED BY <1>2, <1>3, <1>4 DEF OrdersInv

LEMMA MaterializeKeepsThePlan ==
  ASSUME OrdersInv, MaterializeLanes
  PROVE  OrdersInv'
<1>1. todo' = Plan /\ complete' = FALSE /\ saved' = <<>> /\ Begin(Plan) /\ table' = table
  BY DEF MaterializeLanes, Plan
<1>2. TableOK'
  BY <1>1 DEF OrdersInv, TableOK
<1>3. PlanInv'
  <2>1. Ofs(<<>>) = <<>>
    BY DEF Ofs
  <2>2. <<>> \o Plan = Plan
    BY PlanIsASequence, ConcatEmptySeq
  <2>3. Ofs(saved)' = <<>> /\ Plan' = Plan
    BY <1>1, <2>1 DEF Ofs, Plan, Orderings
  <2>4. saved' \in SavedOrders' /\ todo' \in Seq(Steps)
    BY <1>1, EmptySeq, PlanIsASequence DEF SavedOrders
  <2> QED BY <1>1, <2>2, <2>3, <2>4 DEF PlanInv
<1>4. SavedInv'
  BY <1>1 DEF SavedInv
<1>5. ASSUME todo' # <<>> PROVE BuildInv'
  BY <1>1, <1>5, BeginsAnew DEF OrdersInv
<1> QED BY <1>2, <1>3, <1>4, <1>5 DEF OrdersInv

LEMMA SaveKeepsThePlan ==
  ASSUME OrdersInv, SaveOrder
  PROVE  OrdersInv'
<1>1. /\ todo # <<>> /\ Found(Made, Varied) = {}
      /\ saved' = Append(saved, [of |-> todo[1], rows |-> ordered])
      /\ todo' = Tail(todo) /\ Begin(Tail(todo)) /\ UNCHANGED <<table, complete>>
  BY DEF SaveOrder, Made, Varied
<1>2. TableOK /\ PlanInv /\ SavedInv /\ BuildInv
  BY <1>1 DEF OrdersInv
<1>3. IsWhole(todo[1], ordered)
  BY <1>1, <1>2, EndedIsWhole
<1>4. ordered \in Seq(table)
  <2>1. ordered \in Seq(Rows) /\ Rows \subseteq table
    BY <1>2, RowsAreFinite DEF BuildInv, BuildTyped
  <2> QED BY <2>1
<1>5. todo \in Seq(Steps) /\ saved \in Seq([of : Steps, rows : Seq(table)])
  BY <1>2 DEF PlanInv, SavedOrders
<1>6. /\ saved' \in Seq([of : Steps, rows : Seq(table)])
      /\ Ofs(saved') \o Tail(todo) = Plan
      /\ Ofs(saved') \in Seq(Steps)
  <2>1. Ofs(saved) \o todo = Plan
    BY <1>1, <1>2 DEF PlanInv
  <2> DEFINE rows == Seq(table)
             more == Append(saved, [of |-> todo[1], rows |-> ordered])
  <2>2. ordered \in rows /\ saved \in Seq([of : Steps, rows : rows])
    BY <1>4, <1>5
  <2> HIDE DEF rows
  <2>3. /\ more \in Seq([of : Steps, rows : rows])
        /\ Ofs(more) \o Tail(todo) = Ofs(saved) \o todo
        /\ Ofs(more) \in Seq(Steps)
    BY <1>1, <1>5, <2>2, OneMoreSaved
  <2> QED BY <1>1, <2>1, <2>3 DEF rows
<1>7. PlanInv'
  <2>2. todo' \in Seq(Steps) /\ complete' = FALSE
    BY <1>1, <1>2, <1>5 DEF PlanInv
  <2>3. Ofs(saved)' = Ofs(saved')
    BY DEF Ofs
  <2>4. SavedOrders' = Seq([of : Steps, rows : Seq(table)])
    BY <1>1 DEF SavedOrders
  <2>5. saved' \in SavedOrders'
    BY <1>6, <2>4
  <2>6. Plan' = Plan
    BY DEF Plan, Orderings
  <2> QED BY <1>1, <1>6, <2>2, <2>3, <2>5, <2>6 DEF PlanInv
<1>8. SavedInv'
  <2> DEFINE x == [of |-> todo[1], rows |-> ordered]
  <2>1. /\ DOMAIN saved' = DOMAIN saved \cup {Len(saved) + 1}
        /\ \A i \in DOMAIN saved : saved'[i] = saved[i]
        /\ saved'[Len(saved) + 1] = x
    <3> HIDE DEF x
    <3> QED BY <1>1, <1>5 DEF x
  <2>2. IsWhole(x.of, x.rows)
    BY <1>3
  <2> HIDE DEF x
  <2>3. \A i \in DOMAIN saved' : IsWhole(saved'[i].of, saved'[i].rows)
    BY <1>2, <2>1, <2>2 DEF SavedInv
  <2>4. \A of : \A rows : IsWhole(of, rows)' <=> IsWhole(of, rows)
    BY <1>1, WholeStays
  <2>5. \A of : \A rows : IsWhole(of, rows) => IsWhole(of, rows)'
    BY <2>4
  <2> QED BY <2>3, <2>5 DEF SavedInv
<1>9. ASSUME todo' # <<>> PROVE BuildInv'
  BY <1>1, <1>2, <1>9, BeginsAnew
<1>10. TableOK'
  BY <1>1, <1>2 DEF TableOK
<1> QED BY <1>7, <1>8, <1>9, <1>10 DEF OrdersInv

\* No ordering is the state row: where it is next all of them are saved.
LEMMA StateKeepsThePlan ==
  ASSUME OrdersInv, SaveState
  PROVE  OrdersInv'
<1>1. todo # <<>> /\ todo[1] = StateRow /\ complete' = TRUE /\ todo' = <<>> /\ UNCHANGED <<table, saved>>
  BY DEF SaveState
<1>2. Ofs(saved) \o todo = Plan /\ todo \in Seq(Steps) /\ saved \in SavedOrders
  BY <1>1 DEF OrdersInv, PlanInv
<1> DEFINE done == Ofs(saved)
           n == Len(done)
<1>3. done \in Seq(Steps) /\ n \in Nat
  <2>1. done \in Seq(Steps)
    BY <1>2, OfsAreTheirOrderings DEF SavedOrders
  <2> HIDE DEF done
  <2> QED BY <2>1
<1> HIDE DEF done
<1>4. Len(todo) \in Nat \ {0}
  BY <1>1, <1>2, EmptySeq
<1>5. /\ n + Len(todo) = Len(Orderings) + 1
      /\ Plan[n + 1] = StateRow
      /\ \A i \in 1..n : Plan[i] = done[i]
  BY <1>1, <1>2, <1>3, <1>4, ConcatProperties, PlanIsASequence DEF done
<1>6. n = Len(Orderings)
  <2>1. n + 1 \notin 1..Len(Orderings)
    BY <1>5, PlanIsASequence
  <2> QED BY <1>3, <1>4, <1>5, <2>1, PlanIsASequence
<1>7. done = Orderings
  <2>1. \A i \in 1..n : done[i] = Orderings[i]
    BY <1>5, <1>6, PlanIsASequence
  <2> QED BY <1>3, <1>6, <2>1, PlanIsASequence, SeqEqual
<1>8. PlanInv'
  <2>1. Ofs(saved)' = Ofs(saved) /\ Orderings' = Orderings /\ SavedOrders' = SavedOrders
    BY <1>1 DEF Ofs, Orderings, SavedOrders
  <2>2. todo' \in Seq(Steps)
    BY <1>1
  <2> QED BY <1>1, <1>2, <1>7, <2>1, <2>2 DEF PlanInv, done
<1>9. SavedInv'
  BY <1>1, WholeStays DEF OrdersInv, SavedInv
<1>10. TableOK'
  BY <1>1 DEF OrdersInv, TableOK
<1> QED BY <1>1, <1>8, <1>9, <1>10 DEF OrdersInv

LEMMA DeathKeepsThePlan ==
  ASSUME OrdersInv, MaterializationDies
  PROVE  OrdersInv'
<1>1. todo' = <<>> /\ UNCHANGED <<table, saved, complete>> /\ todo # <<>>
  BY DEF MaterializationDies
<1>2. SavedInv'
  BY <1>1, WholeStays DEF OrdersInv, SavedInv
<1>3. TableOK' /\ PlanInv'
  BY <1>1 DEF OrdersInv, TableOK, PlanInv, SavedOrders
<1> QED BY <1>1, <1>2, <1>3 DEF OrdersInv

LEMMA StutteringKeepsThePlan ==
  ASSUME OrdersInv, UNCHANGED orderVars
  PROVE  OrdersInv'
<1>1. /\ UNCHANGED <<table, todo, saved, complete>>
      /\ UNCHANGED <<ordered, utility, version, heap>>
  BY DEF orderVars, buildVars
<1>2. SavedInv'
  BY <1>1, WholeStays DEF OrdersInv, SavedInv
<1>3. TableOK' /\ PlanInv'
  BY <1>1 DEF OrdersInv, TableOK, PlanInv, SavedOrders
<1>4. ASSUME BuildInv PROVE BuildInv'
  <2>1. Made' = Made /\ Varied' = Varied /\ Rows' = Rows /\ Keys' = Keys /\ Taken' = Taken
        /\ Selectors(Made)' = Selectors(Made)
    BY <1>1 DEF Made, Varied, Rows, Keys, Of, Taken, Selectors
  <2>2. BuildTyped'
    BY <1>1, <1>4, <2>1 DEF BuildInv, BuildTyped
  <2>3. EntriesFit' /\ NoneIsLost'
    BY <1>1, <1>4, <2>1 DEF BuildInv, EntriesFit, EntryFits, NoneIsLost, Entry
  <2>4. UtilitiesAreFresh' /\ ScenesDiffer(ordered)'
    BY <1>1, <1>4, <2>1 DEF BuildInv, UtilitiesAreFresh, ScenesDiffer
  <2>5. IsGreedy(todo[1], ordered)'
    BY <1>1, <1>4, GreedyStays DEF BuildInv
  <2> QED BY <2>2, <2>3, <2>4, <2>5 DEF BuildInv
<1> QED BY <1>1, <1>2, <1>3, <1>4 DEF OrdersInv

(* Every order, saved or under construction, is the one that is made by     *)
(* looking for the best candidate of each place anew, though buildOrdering  *)
(* only takes off what a choice costs and leaves outdated entries in its    *)
(* queues; a saved one has every scene of its lane once, and where the      *)
(* state row is all of them are there.                                      *)
THEOREM OrdersAlwaysGreedy == SpecOrders => []OrdersAreGreedy
<1>1. InitOrders => OrdersInv
  BY InitKeepsThePlan
<1>2. OrdersInv /\ [NextOrders]_orderVars => OrdersInv'
  BY PlaceKeepsThePlan, MaterializeKeepsThePlan, SaveKeepsThePlan, StateKeepsThePlan,
     DeathKeepsThePlan, StutteringKeepsThePlan DEF NextOrders
<1>3. OrdersInv => OrdersAreGreedy
  <2> SUFFICES ASSUME OrdersInv PROVE OrdersAreGreedy
    OBVIOUS
  <2>1. todo # <<>> => IsGreedy(todo[1], ordered)
    BY DEF OrdersInv, BuildInv
  <2>2. \A i \in DOMAIN saved : IsWhole(saved[i].of, saved[i].rows)
    BY DEF OrdersInv, SavedInv
  <2>3. complete => [i \in DOMAIN saved |-> saved[i].of] = Orderings
    BY DEF OrdersInv, PlanInv, Ofs
  <2>4. \A i \in DOMAIN saved : Len(saved[i].rows) = Cardinality(ScenesIn(saved[i].rows))
    BY <2>2, WholeHasEachOnce
  <2> QED BY <2>1, <2>2, <2>3, <2>4 DEF OrdersAreGreedy, OrdersAreComplete, IsWhole
<1> QED BY <1>1, <1>2, <1>3, PTL DEF SpecOrders

-----------------------------------------------------------------------------
(* PruneViews: what is listed was a candidate, and is on one page.          *)

LEMMA AppealIsInt == \A s \in Scene : AppealRead(s) \in Int
<1> QED BY PruneAssumption DEF AppealRead

LEMMA PrecedesOrders ==
  ASSUME NEW s \in Scene, NEW t \in Scene
  PROVE  /\ ~Precedes(s, s)
         /\ s # t => Precedes(s, t) \/ Precedes(t, s)
         /\ \A r \in Scene : Precedes(s, t) /\ Precedes(t, r) => Precedes(s, r)
<1>1. s \in Nat /\ t \in Nat /\ \A r \in Scene : r \in Nat
  BY PruneAssumption
<1> QED BY <1>1, AppealIsInt DEF Precedes

\* The places of the scenes of a list are the numbers up to its length.
LEMMA PlacesAreThere ==
  ASSUME NEW S \in SUBSET Scene
  PROVE  /\ Cardinality(S) \in Nat
         /\ \A n \in 1..Cardinality(S) : \E s \in S : Place(s, S) = n
<1>1. IsFiniteSet(S)
  BY PruneAssumption, FS_Subset
<1>2. Cardinality(S) \in Nat
  BY <1>1, FS_CardinalityType
<1> DEFINE n == Cardinality(S)
           Ahead(s) == {t \in S : Precedes(t, s)}
           place == [s \in S |-> Place(s, S)]
<1>3. ASSUME NEW s \in S
      PROVE  IsFiniteSet(Ahead(s)) /\ Cardinality(Ahead(s)) \in Nat /\ Place(s, S) \in 1..n
  <2>1. Ahead(s) \in SUBSET (S \ {s}) /\ Ahead(s) \in SUBSET S
    BY PrecedesOrders
  <2>2. IsFiniteSet(S \ {s}) /\ Cardinality(S \ {s}) = n - 1
    BY <1>1, <1>2, FS_RemoveElement
  <2>3. IsFiniteSet(Ahead(s)) /\ Cardinality(Ahead(s)) <= n - 1
    BY <2>1, <2>2, FS_Subset
  <2>4. Cardinality(Ahead(s)) \in Nat
    BY <2>3, FS_CardinalityType
  <2>5. Place(s, S) = Cardinality(Ahead(s)) + 1
    BY DEF Place
  <2> HIDE DEF Ahead
  <2> QED BY <1>2, <2>3, <2>4, <2>5
<1>4. ASSUME NEW s \in S, NEW t \in S, Precedes(s, t)
      PROVE  Place(s, S) < Place(t, S)
  <2>1. Ahead(s) \in SUBSET Ahead(t) /\ s \in Ahead(t) /\ s \notin Ahead(s)
    BY <1>4, PrecedesOrders
  <2>2. /\ Cardinality(Ahead(s)) <= Cardinality(Ahead(t))
        /\ Cardinality(Ahead(s)) # Cardinality(Ahead(t))
    BY <1>3, <2>1, FS_Subset
  <2>3. Place(s, S) = Cardinality(Ahead(s)) + 1 /\ Place(t, S) = Cardinality(Ahead(t)) + 1
    BY DEF Place
  <2> HIDE DEF Ahead
  <2> QED BY <1>3, <2>2, <2>3
<1>5. place \in Injection(S, 1..n)
  <2>1. place \in [S -> 1..n]
    BY <1>3
  <2>2. ASSUME NEW s \in S, NEW t \in S, place[s] = place[t], s # t
        PROVE  FALSE
    <3>1. Precedes(s, t) \/ Precedes(t, s)
      BY <2>2, PrecedesOrders
    <3>2. Place(s, S) = Place(t, S)
      BY <2>2
    <3>3. Place(s, S) \in 1..n
      BY <1>3
    <3>4. Place(s, S) \in Int
      <4> HIDE DEF n
      <4> QED BY <3>3
    <3>5. Place(s, S) < Place(t, S) \/ Place(t, S) < Place(s, S)
      BY <3>1, <1>4
    <3> QED BY <3>2, <3>4, <3>5
  <2> QED BY <2>1, <2>2 DEF Injection, IsInjective
<1>6. place \in Surjection(S, 1..n)
  <2>1. IsFiniteSet(1..n) /\ Cardinality(1..n) = n
    BY <1>2, FS_Interval
  <2> QED BY <1>5, <2>1, FS_Injection
<1> QED BY <1>2, <1>6 DEF Surjection

\* A list has its scenes, and each of them once.
LEMMA ListingIsWhole ==
  ASSUME NEW S \in SUBSET Scene
  PROVE  /\ Listing(S) \in Seq(S)
         /\ \A i, j \in 1..Len(Listing(S)) : Listing(S)[i] = Listing(S)[j] => i = j
<1>1. Cardinality(S) \in Nat /\ \A n \in 1..Cardinality(S) : \E s \in S : Place(s, S) = n
  BY PlacesAreThere
<1>2. \A n \in 1..Cardinality(S) : Listing(S)[n] \in S /\ Place(Listing(S)[n], S) = n
  BY <1>1 DEF Listing
<1>3. Listing(S) \in [1..Cardinality(S) -> S]
  BY <1>2 DEF Listing
<1>4. Listing(S) \in Seq(S) /\ Len(Listing(S)) = Cardinality(S)
  BY <1>1, <1>3
<1> QED BY <1>2, <1>4

\* One page has the place i of a list: the one it falls into by division.
 
LEMMA PlaceIsOnAPage ==
  ASSUME NEW i \in Nat \ {0}, NEW p \in Nat \ {0}, NEW n \in Nat \ {0}
  PROVE  (p - 1) * n + 1 <= i /\ i <= p * n <=> p = (i - 1) \div n + 1
<1> DEFINE q == (i - 1) \div n
           r == (i - 1) % n
<1>1. q \in Nat /\ r \in 0..n - 1 /\ i - 1 = n * q + r
  OBVIOUS
<1> HIDE DEF q, r
<1>2. p * n = (p - 1) * n + n /\ (p - 1) * n \in Nat
  OBVIOUS
<1>3. ASSUME p = q + 1 PROVE (p - 1) * n + 1 <= i /\ i <= p * n
  <2>1. (p - 1) * n = n * q
    BY <1>1, <1>3
  <2> DEFINE m == n * q
             l == (p - 1) * n
             k == p * n
  <2>2. m \in Nat /\ l = m /\ k = l + n
    BY <1>1, <1>2, <2>1
  <2>3. i - 1 = m + r
    BY <1>1
  <2> HIDE DEF m, l, k
  <2>4. l + 1 <= i /\ i <= k
    BY <1>1, <2>2, <2>3
  <2> QED BY <2>4 DEF l, k
<1>4. ASSUME (p - 1) * n + 1 <= i, i <= p * n PROVE p = q + 1
  <2> DEFINE m == n * q
             l == (p - 1) * n
             k == p * n
  <2>1. m \in Nat /\ l \in Nat /\ k = l + n /\ i - 1 = m + r /\ l + 1 <= i /\ i <= k
    BY <1>1, <1>2, <1>4
  <2>2. ~(q < p - 1)
    <3>1. SUFFICES ASSUME q + 1 <= p - 1 PROVE FALSE
      BY <1>1
    <3>2. n * (q + 1) <= (p - 1) * n /\ n * (q + 1) = n * q + n
      BY <1>1, <3>1
    <3>3. m + n <= l
      BY <3>2
    <3> HIDE DEF m, l, k
    <3> QED BY <1>1, <2>1, <3>3
  <2>3. ~(p - 1 < q)
    <3>1. SUFFICES ASSUME p <= q PROVE FALSE
      BY <1>1
    <3>2. p * n <= n * q
      BY <1>1, <3>1
    <3>3. k <= m
      BY <3>2
    <3> HIDE DEF m, l, k
    <3> QED BY <1>1, <2>1, <3>3
  <2> QED BY <1>1, <2>2, <2>3
<1> QED BY <1>3, <1>4 DEF q

LEMMA LesserOf ==
  ASSUME NEW a \in Int, NEW b \in Int
  PROVE  /\ Min({a, b}) \in {a, b}
         /\ Min({a, b}) <= a /\ Min({a, b}) <= b
<1>1. \E x \in {a, b} : \A y \in {a, b} : x <= y
  BY a <= b \/ b <= a
<1> QED BY <1>1 DEF Min

Cut(L, page) == SubSeq(L, (page - 1) * PrunePage + 1, Min({page * PrunePage, Len(L)}))

\* The pages of a list, each place on one.
LEMMA PagesPartition ==
  ASSUME NEW L, L \in Seq(Scene),
         \A i, j \in 1..Len(L) : L[i] = L[j] => i = j,
         NEW s \in Range(L)
  PROVE  Cardinality({page \in 1..(Len(L) \div PrunePage + 1) : s \in Range(Cut(L, page))}) = 1
<1>0. PrunePage \in Nat \ {0} /\ Len(L) \in Nat
  BY PruneAssumption
<1>1. PICK i \in 1..Len(L) : L[i] = s
  BY DEF Range
<1> DEFINE p == (i - 1) \div PrunePage + 1
<1>2. p \in 1..(Len(L) \div PrunePage + 1)
  <2> DEFINE q == (i - 1) \div PrunePage
             r == (i - 1) % PrunePage
             d == Len(L) \div PrunePage
             e == Len(L) % PrunePage
  <2>1. q \in Nat /\ r \in 0..PrunePage - 1 /\ i - 1 = PrunePage * q + r
    BY <1>0, <1>1
  <2>2. d \in Nat /\ e \in 0..PrunePage - 1 /\ Len(L) = PrunePage * d + e
    <3>1. \A x \in Nat, y \in Nat \ {0} :
            x \div y \in Nat /\ x % y \in 0..y - 1 /\ x = y * (x \div y) + (x % y)
      OBVIOUS
    <3> QED BY <1>0, <3>1
  <2>3. i - 1 < Len(L)
    BY <1>0, <1>1
  <2> HIDE DEF q, r, d, e
  <2>4. q <= d
    <3>1. SUFFICES ASSUME d + 1 <= q PROVE FALSE
      BY <2>1, <2>2
    <3>2. PrunePage * (d + 1) <= PrunePage * q /\ PrunePage * (d + 1) = PrunePage * d + PrunePage
      BY <1>0, <2>1, <2>2, <3>1
    <3> DEFINE x == PrunePage * q
               y == PrunePage * d
    <3>3. x \in Nat /\ y \in Nat /\ y + PrunePage <= x /\ i - 1 = x + r /\ Len(L) = y + e
      BY <1>0, <2>1, <2>2, <3>2
    <3> HIDE DEF x, y
    <3> QED BY <1>0, <1>1, <2>1, <2>2, <2>3, <3>3
  <2>5. q + 1 \in 1..(d + 1)
    BY <2>1, <2>2, <2>4
  <2> QED BY <2>5 DEF q, d
<1>3. ASSUME NEW page \in Nat \ {0}
      PROVE  s \in Range(Cut(L, page)) <=> page = p
  <2> DEFINE a == (page - 1) * PrunePage
             b == page * PrunePage
             m == Min({b, Len(L)})
  <2>1. a \in Nat /\ b \in Nat
    BY <1>0
  <2>2. m \in {b, Len(L)} /\ m <= b /\ m <= Len(L)
    <3> HIDE DEF b
    <3>1. Len(L) \in Int /\ b \in Int
      BY <1>0, <2>1
    <3> QED BY <3>1, LesserOf
  <2>3. a + 1 <= i /\ i <= b <=> page = p
    BY <1>0, <1>1, PlaceIsOnAPage
  <2>4. Cut(L, page) = SubSeq(L, a + 1, m)
    BY DEF Cut
  <2> HIDE DEF a, b, m, p
  <2>5. m \in Nat
    BY <1>0, <2>1, <2>2
  <2> DEFINE T == SubSeq(L, a + 1, m)
  <2>6. /\ DOMAIN T = {k \in Nat : 1 <= k /\ k <= m - a}
        /\ \A k \in Nat : 1 <= k /\ k <= m - a => T[k] = L[k + a]
    <3>1. a + 1 \in Int /\ \A k \in (a + 1)..m : L[k] \in Scene
      BY <1>0, <2>1, <2>2, <2>5
    <3>2. /\ T \in Seq(Scene) /\ Len(T) = IF a + 1 <= m THEN m - (a + 1) + 1 ELSE 0
          /\ \A k \in 1..m - (a + 1) + 1 : T[k] = L[(a + 1) + k - 1]
      BY <2>5, <3>1, SubSeqProperties
    <3> HIDE DEF T
    <3>3. DOMAIN T = 1..(IF a + 1 <= m THEN m - (a + 1) + 1 ELSE 0)
      BY <3>2
    <3>4. ASSUME NEW k \in Nat, 1 <= k, k <= m - a PROVE T[k] = L[k + a]
      <4>1. k \in 1..m - (a + 1) + 1 /\ (a + 1) + k - 1 = k + a
        BY <2>1, <2>5, <3>4
      <4> QED BY <3>2, <4>1
    <3> QED BY <2>1, <2>5, <3>3, <3>4
  <2> HIDE DEF T
  <2>7. ASSUME a + 1 <= i, i <= b PROVE s \in Range(T)
    <3>1. i <= m
      BY <1>0, <1>1, <2>2, <2>7
    <3>2. i - a \in Nat /\ 1 <= i - a /\ i - a <= m - a /\ (i - a) + a = i
      BY <1>1, <2>1, <2>5, <2>7, <3>1
    <3>3. T[i - a] = s /\ i - a \in DOMAIN T
      BY <1>1, <2>6, <3>2
    <3> QED BY <3>3 DEF Range
  <2>8. ASSUME s \in Range(T) PROVE a + 1 <= i /\ i <= b
    <3>1. PICK k \in DOMAIN T : T[k] = s
      BY <2>8 DEF Range
    <3>2. k \in Nat /\ 1 <= k /\ k <= m - a /\ L[k + a] = s
      BY <2>6, <3>1
    <3>3. k + a \in 1..Len(L) /\ a + 1 <= k + a /\ k + a <= b
      BY <1>0, <2>1, <2>2, <2>5, <3>2
    <3>4. k + a = i
      BY <1>1, <3>2, <3>3
    <3> QED BY <3>3, <3>4
  <2>9. Cut(L, page) = T
    BY <2>4 DEF T
  <2> QED BY <2>3, <2>7, <2>8, <2>9
<1>4. {page \in 1..(Len(L) \div PrunePage + 1) : s \in Range(Cut(L, page))} = {p}
  <2> HIDE DEF p
  <2> DEFINE last == Len(L) \div PrunePage + 1
  <2>1. 1..last \subseteq Nat \ {0}
    <3>1. last \in Int
      BY <1>0
    <3> HIDE DEF last
    <3> QED BY <3>1
  <2> HIDE DEF last
  <2>2. p \in 1..last
    BY <1>2 DEF last
  <2>3. \A page \in 1..last : s \in Range(Cut(L, page)) <=> page = p
    BY <1>3, <2>1
  <2>4. {page \in 1..last : s \in Range(Cut(L, page))} = {p}
    BY <2>2, <2>3
  <2> QED BY <2>4 DEF last
<1> QED BY <1>4, FS_Singleton

-----------------------------------------------------------------------------
(* What a request knows of the candidates of its time, as far as it is.     *)

Known == ever \union decided \union reading.tagged

\* The tables now, against what was read of them.
TablesAreFollowed ==
  /\ TaggedNow \subseteq reading.tagged \union decided
  /\ reading.at # "states" => InState("keep") \subseteq reading.kept \union decided

\* What was read was a candidate then, unless it was tagged.
ReadsAreCandidates ==
  /\ reading.at # "states" => /\ reading.reviewed \subseteq Known
                              /\ UnderLimits(reading.limit) \ reading.kept \subseteq Known
  /\ reading.at \in {"scores", "breadth"} => reading.explicit \subseteq Known

RequestInv ==
  /\ \A rec \in prunings : rec.scene \in Scene
  /\ reading.at \in {"idle", "states", "explicit", "scores", "breadth"}
  /\ DOMAIN reading = DOMAIN NotReading
  /\ reading.view \in View
  /\ reading.tagged \union reading.reviewed \union reading.explicit \subseteq Scene
  /\ reading.at # "idle" => TablesAreFollowed /\ ReadsAreCandidates

PruneInv == RequestInv /\ PruneViewsAreHonest

\* A candidate of this moment is known, or tagged.
LEMMA CandidatesAreKnown ==
  ASSUME TaggedNow \subseteq reading.tagged \union decided,
         NEW E, CandidatesNow(reading.limit) \subseteq E
  PROVE  InState("review") \union Disliked
           \union (UnderLimits(reading.limit) \ InState("keep")) \union (Broad \ InState("keep"))
         \subseteq E \union decided \union reading.tagged
<1> HIDE DEF TaggedNow
<1> QED BY DEF CandidatesNow, Suspected

LEMMA InStateIsOfScenes == Disliked \subseteq Scene /\ Broad \subseteq Scene
<1> QED BY DEF Disliked, Broad

\* A query leaves the tables alone.
LEMMA QueryStays ==
  ASSUME NEW next, Reads(next)
  PROVE  /\ reading' = next /\ ever' = ever \union CandidatesNow(reading.limit)
         /\ decided' = decided /\ TaggedNow' = TaggedNow
         /\ \A state : InState(state)' = InState(state)
<1>1. UNCHANGED factVars /\ UNCHANGED <<imported, decided>>
  BY DEF Reads
<1>2. tagsOf' = tagsOf /\ prunings' = prunings
  BY <1>1 DEF factVars
<1> QED BY <1>1, <1>2 DEF Reads, Noted, TaggedNow, InState

\* Rows are of scenes.
LEMMA RowsAreOfScenes ==
  ASSUME \A rec \in prunings : rec.scene \in Scene, RowsChange
  PROVE  \A rec \in prunings' : rec.scene \in Scene
<1> DEFINE Grown == \/ prunings' \subseteq prunings
                    \/ \E s \in Scene : \E k : k.scene = s /\ prunings' \subseteq prunings \union {k}
<1>1. SUFFICES Grown
  OBVIOUS
<1>2. Touched \subseteq Scene
  BY EligibilityAssumption
<1>3. CASE FactsChange
  <2>1. CASE prunings' = prunings
    BY <2>1
  <2>2. ASSUME NEW s \in Touched, NEW type, GiveFeedback(s, type) PROVE Grown
    <3> DEFINE k == [scene |-> s, state |-> "review", at |-> today]
    <3>1. k.scene = s /\ prunings' \subseteq prunings \union {k}
      BY <2>2 DEF GiveFeedback
    <3> QED BY <1>2, <3>1
  <2>3. ASSUME NEW rec, NEW type, ReplaceFeedback(rec, type) PROVE Grown
    BY <2>3 DEF ReplaceFeedback
  <2>4. ASSUME NEW s \in Touched, KeepScene(s) PROVE Grown
    <3> DEFINE k == [scene |-> s, state |-> "keep", at |-> today]
    <3>1. k.scene = s /\ prunings' \subseteq prunings \union {k}
      BY <2>4 DEF KeepScene
    <3> QED BY <1>2, <3>1
  <2> QED BY <1>3, <2>1, <2>2, <2>3, <2>4 DEF FactsChange, TimePasses, FilesChange, BlockTag, Retag, Play
<1>4. ASSUME NEW s \in Touched, TagForRemoval(s) PROVE Grown
  <2> DEFINE k == [scene |-> s, state |-> "remove", at |-> today]
  <2>1. k.scene = s /\ prunings' \subseteq prunings \union {k}
    BY <1>4 DEF TagForRemoval
  <2> QED BY <1>2, <2>1
<1>5. ASSUME NEW s, ImportPlay(s) PROVE Grown
  BY <1>5 DEF ImportPlay
<1> QED BY <1>3, <1>4, <1>5 DEF RowsChange

Field == {"at", "view", "limit", "tagged", "kept", "reviewed", "explicit", "scored", "listed"}

LEMMA FieldsOfReading == DOMAIN NotReading = Field
<1> QED BY DEF NotReading, Field

LEMMA PruneInvInit == InitPrune /\ InitFacts => PruneInv
<1> SUFFICES ASSUME InitPrune, InitFacts PROVE PruneInv
  OBVIOUS
<1>1. /\ reading = NotReading /\ prunings = {}
      /\ reading.at = "idle" /\ reading.view = "tagged" /\ reading.listed = <<>>
      /\ reading.tagged = {} /\ reading.reviewed = {} /\ reading.explicit = {}
  BY DEF InitPrune, InitFacts, NotReading
<1>2. RequestInv
  BY <1>1 DEF RequestInv, View
<1>3. Range(reading.listed) = {}
  BY <1>1 DEF Range
<1>4. PruneViewsAreHonest
  BY <1>1, <1>3 DEF PruneViewsAreHonest
<1> QED BY <1>2, <1>4 DEF PruneInv

LEMMA RowsChangeKeepsInv == PruneInv /\ RowsChange => PruneInv'
<1> SUFFICES ASSUME PruneInv, RowsChange PROVE PruneInv'
  OBVIOUS
<1>1. reading' = reading
  BY DEF RowsChange
<1>2. \A rec \in prunings' : rec.scene \in Scene
  BY RowsAreOfScenes DEF PruneInv, RequestInv
<1>3. CASE reading.at = "idle"
  <2>1. ever' = ever /\ decided' = decided
    BY <1>3 DEF RowsChange
  <2>2. PruneViewsAreHonest'
    BY <1>1, <2>1 DEF PruneInv, PruneViewsAreHonest, PageOfList
  <2> QED BY <1>1, <1>2, <1>3, <2>2 DEF PruneInv, RequestInv
<1>4. CASE reading.at # "idle"
  <2>1. /\ ever \subseteq ever'
        /\ decided' = decided \union (TaggedNow' \ TaggedNow) \union (InState("keep")' \ InState("keep"))
    BY <1>4 DEF RowsChange
  <2>2. TablesAreFollowed /\ ReadsAreCandidates
    BY <1>4 DEF PruneInv, RequestInv
  <2>3. TablesAreFollowed'
    BY <1>1, <2>1, <2>2 DEF TablesAreFollowed
  <2>4. ReadsAreCandidates'
    <3>1. Known \subseteq Known'
      BY <1>1, <2>1 DEF Known
    <3>2. UnderLimits(reading.limit)' = UnderLimits(reading.limit)
      BY <1>1 DEF UnderLimits, AppealLimit, ConfidenceLimit
    <3> QED BY <1>1, <2>2, <3>1, <3>2 DEF ReadsAreCandidates
  <2>5. PruneViewsAreHonest'
    BY <1>1, <1>4 DEF PruneViewsAreHonest
  <2> QED BY <1>1, <1>2, <1>4, <2>3, <2>4, <2>5 DEF PruneInv, RequestInv
<1> QED BY <1>3, <1>4

\* The queries before the last.
LEMMA QueriesKeepInv ==
  ASSUME PruneInv,
         \/ \E view \in View, a \in Aggressiveness : ReadTaggedScenes(view, a)
         \/ ReadStates \/ ReadExplicit \/ ReadScores
  PROVE  PruneInv'
<1>0. RequestInv /\ DOMAIN reading = Field
  BY FieldsOfReading DEF PruneInv, RequestInv
<1>1. ASSUME NEW view \in View, NEW a \in Aggressiveness, ReadTaggedScenes(view, a)
      PROVE  PruneInv'
  <2>1. /\ DOMAIN reading' = Field /\ reading'.at = "states" /\ reading'.view = view
        /\ reading'.tagged = TaggedNow /\ reading'.reviewed = {} /\ reading'.explicit = {}
    BY <1>1, ZenonT(60) DEF ReadTaggedScenes, NotReading, Field
  <2>2. TaggedNow' = TaggedNow /\ prunings' = prunings
    BY <1>1 DEF ReadTaggedScenes, factVars, TaggedNow
  <2>3. TablesAreFollowed' /\ ReadsAreCandidates'
    BY <2>1, <2>2 DEF TablesAreFollowed, ReadsAreCandidates
  <2>4. TaggedNow \subseteq Scene
    BY DEF TaggedNow
  <2> QED BY <1>0, <2>1, <2>2, <2>3, <2>4, FieldsOfReading DEF PruneInv, RequestInv, PruneViewsAreHonest
<1> DEFINE E == ever \union CandidatesNow(reading.limit)
<1>2. ASSUME TablesAreFollowed
      PROVE  InState("review") \union Disliked \union (UnderLimits(reading.limit) \ InState("keep"))
             \subseteq E \union decided \union reading.tagged
  <2>1. TaggedNow \subseteq reading.tagged \union decided
    BY <1>2 DEF TablesAreFollowed
  <2>2. CandidatesNow(reading.limit) \subseteq E
    OBVIOUS
  <2> QED BY <2>1, <2>2, CandidatesAreKnown
<1>3. CASE ReadStates
  <2> DEFINE next == [reading EXCEPT !.at = "explicit", !.kept = InState("keep"), !.reviewed = InState("review")]
  <2>1. reading.at = "states" /\ Reads(next)
    BY <1>3 DEF ReadStates
  <2>2. /\ reading' = next /\ ever' = E /\ decided' = decided /\ TaggedNow' = TaggedNow
        /\ InState("keep")' = InState("keep") /\ prunings' = prunings
    BY <2>1, QueryStays DEF Reads, factVars
  <2>3. /\ DOMAIN reading' = Field /\ reading'.at = "explicit" /\ reading'.view = reading.view
        /\ reading'.tagged = reading.tagged /\ reading'.explicit = reading.explicit
        /\ reading'.kept = InState("keep") /\ reading'.reviewed = InState("review")
        /\ reading'.limit = reading.limit
    BY <1>0, <2>2 DEF Field
  <2>4. TablesAreFollowed
    BY <1>0, <2>1 DEF RequestInv
  <2>5. Known' = E \union decided \union reading.tagged
    BY <2>2, <2>3 DEF Known
  <2>6. TablesAreFollowed'
    BY <2>2, <2>3, <2>4 DEF TablesAreFollowed
  <2>7. UnderLimits(reading.limit)' = UnderLimits(reading.limit)
    BY <2>3 DEF UnderLimits, AppealLimit, ConfidenceLimit
  <2>8. ReadsAreCandidates'
    <3> HIDE DEF E
    <3> QED BY <1>2, <2>3, <2>4, <2>5, <2>7 DEF ReadsAreCandidates
  <2>9. InState("review") \subseteq Scene
    BY <1>0 DEF RequestInv, InState
  <2> QED BY <1>0, <2>2, <2>3, <2>6, <2>8, <2>9, FieldsOfReading DEF PruneInv, RequestInv, PruneViewsAreHonest
<1>4. CASE ReadExplicit
  <2> DEFINE next == [reading EXCEPT !.at = "scores", !.explicit = reading.reviewed \union Disliked]
  <2>1. reading.at = "explicit" /\ Reads(next)
    BY <1>4 DEF ReadExplicit
  <2>2. /\ reading' = next /\ ever' = E /\ decided' = decided /\ TaggedNow' = TaggedNow
        /\ InState("keep")' = InState("keep") /\ prunings' = prunings
    BY <2>1, QueryStays DEF Reads, factVars
  <2>3. /\ DOMAIN reading' = Field /\ reading'.at = "scores" /\ reading'.view = reading.view
        /\ reading'.tagged = reading.tagged /\ reading'.explicit = reading.reviewed \union Disliked
        /\ reading'.kept = reading.kept /\ reading'.reviewed = reading.reviewed
        /\ reading'.limit = reading.limit
    BY <1>0, <2>2 DEF Field
  <2>4. TablesAreFollowed /\ ReadsAreCandidates
    BY <1>0, <2>1 DEF RequestInv
  <2>5. Known' = E \union decided \union reading.tagged /\ Known \subseteq Known'
    BY <2>2, <2>3 DEF Known
  <2>6. TablesAreFollowed'
    BY <2>1, <2>2, <2>3, <2>4 DEF TablesAreFollowed
  <2>7. UnderLimits(reading.limit)' = UnderLimits(reading.limit)
    BY <2>3 DEF UnderLimits, AppealLimit, ConfidenceLimit
  <2>8. ReadsAreCandidates'
    <3> HIDE DEF E
    <3> QED BY <1>2, <2>1, <2>3, <2>4, <2>5, <2>7 DEF ReadsAreCandidates
  <2>9. reading'.explicit \subseteq Scene
    BY <1>0, <2>3, InStateIsOfScenes DEF RequestInv
  <2> QED BY <1>0, <2>2, <2>3, <2>6, <2>8, <2>9, FieldsOfReading DEF PruneInv, RequestInv, PruneViewsAreHonest
<1>5. CASE ReadScores
  <2> DEFINE low == IF reading.view = "tagged" THEN {} ELSE UnderLimits(reading.limit) \union InState("review")
             next == [reading EXCEPT !.at = "breadth", !.scored = low]
  <2>1. reading.at = "scores" /\ Reads(next)
    BY <1>5 DEF ReadScores
  <2>2. /\ reading' = next /\ ever' = E /\ decided' = decided /\ TaggedNow' = TaggedNow
        /\ InState("keep")' = InState("keep") /\ prunings' = prunings
    BY <2>1, QueryStays DEF Reads, factVars
  <2>3. /\ DOMAIN reading' = Field /\ reading'.at = "breadth" /\ reading'.view = reading.view
        /\ reading'.tagged = reading.tagged /\ reading'.explicit = reading.explicit
        /\ reading'.kept = reading.kept /\ reading'.reviewed = reading.reviewed
        /\ reading'.limit = reading.limit
    <3> HIDE DEF low
    <3> QED BY <1>0, <2>2 DEF Field
  <2>4. TablesAreFollowed /\ ReadsAreCandidates
    BY <1>0, <2>1 DEF RequestInv
  <2>5. Known \subseteq Known'
    BY <2>2, <2>3 DEF Known
  <2>6. TablesAreFollowed'
    BY <2>1, <2>2, <2>3, <2>4 DEF TablesAreFollowed
  <2>7. UnderLimits(reading.limit)' = UnderLimits(reading.limit)
    BY <2>3 DEF UnderLimits, AppealLimit, ConfidenceLimit
  <2>8. ReadsAreCandidates'
    BY <2>1, <2>3, <2>4, <2>5, <2>7 DEF ReadsAreCandidates
  <2> QED BY <1>0, <2>2, <2>3, <2>6, <2>8, FieldsOfReading DEF PruneInv, RequestInv, PruneViewsAreHonest
<1> QED BY <1>1, <1>3, <1>4, <1>5

LEMMA ListingKeepsInv ==
  ASSUME PruneInv, ListCandidates
  PROVE  PruneInv'
<1> DEFINE breadth == Broad \ reading.kept
           S == Selected(breadth)
           next == [reading EXCEPT !.at = "idle", !.listed = Listing(S)]
           E == ever \union CandidatesNow(reading.limit)
<1>1. reading.at = "breadth" /\ Reads(next)
  BY DEF ListCandidates
<1>2. RequestInv /\ DOMAIN reading = Field /\ TablesAreFollowed /\ ReadsAreCandidates
  BY <1>1, FieldsOfReading DEF PruneInv, RequestInv
<1>3. reading' = next /\ ever' = E /\ decided' = decided /\ prunings' = prunings
  BY <1>1, QueryStays DEF Reads, factVars
<1>4. /\ DOMAIN reading' = Field /\ reading'.at = "idle" /\ reading'.view = reading.view
      /\ reading'.tagged = reading.tagged /\ reading'.explicit = reading.explicit
      /\ reading'.reviewed = reading.reviewed /\ reading'.listed = Listing(S)
  <2> HIDE DEF S
  <2> QED BY <1>2, <1>3 DEF Field
<1>5. breadth \subseteq E \union decided \union reading.tagged
  <2>1. TaggedNow \subseteq reading.tagged \union decided /\ InState("keep") \subseteq reading.kept \union decided
    BY <1>1, <1>2 DEF TablesAreFollowed
  <2>2. CandidatesNow(reading.limit) \subseteq E
    OBVIOUS
  <2> HIDE DEF E
  <2>3. Broad \ InState("keep") \subseteq E \union decided \union reading.tagged
    BY <2>1, <2>2, CandidatesAreKnown
  <2> QED BY <2>1, <2>3
<1>6. SuspectsRead \subseteq Known /\ reading.explicit \subseteq Known
  BY <1>1, <1>2 DEF ReadsAreCandidates, SuspectsRead, Suspected
<1>7. S \in SUBSET Scene
  <2>1. SuspectsRead \subseteq Scene /\ breadth \subseteq Scene
    BY InStateIsOfScenes DEF SuspectsRead, Suspected, UnderLimits
  <2>2. reading.view \in View /\ reading.tagged \subseteq Scene /\ reading.explicit \subseteq Scene
    BY <1>2 DEF RequestInv
  <2> HIDE DEF breadth
  <2> QED BY <2>1, <2>2 DEF Selected, View
<1>8. reading.view # "tagged" => S \subseteq E \union decided
  <2>1. Known \subseteq E \union decided \union reading.tagged
    BY DEF Known
  <2>2. reading.view \in View
    BY <1>2 DEF RequestInv
  <2> HIDE DEF breadth, E
  <2> QED BY <1>5, <1>6, <2>1, <2>2 DEF Selected, View
<1> DEFINE L == Listing(S)
<1>9. L \in Seq(S) /\ \A i, j \in 1..Len(L) : L[i] = L[j] => i = j
  <2> HIDE DEF S
  <2> QED BY <1>7, ListingIsWhole
<1>10. L \in Seq(Scene) /\ Range(L) \subseteq S
  <2> HIDE DEF S, L
  <2> QED BY <1>7, <1>9 DEF Range
<1>11. \A s \in Range(L) : Cardinality({page \in 1..(Len(L) \div PrunePage + 1) : s \in Range(Cut(L, page))}) = 1
  <2> HIDE DEF L
  <2> QED BY <1>9, <1>10, PagesPartition
<1>12. PruneViewsAreHonest'
  <2> HIDE DEF S
  <2>1. reading'.view # "tagged" => Range(reading'.listed) \subseteq ever' \union decided'
    BY <1>3, <1>4, <1>8, <1>10
  <2> HIDE DEF L
  <2>2. reading'.listed = L
    BY <1>4 DEF L
  <2> QED BY <1>11, <2>1, <2>2 DEF PruneViewsAreHonest, PageOfList, Cut
<1> QED BY <1>2, <1>3, <1>4, <1>12, FieldsOfReading DEF PruneInv, RequestInv

LEMMA StutterKeepsPruneInv == PruneInv /\ UNCHANGED pruneVars => PruneInv'
<1> SUFFICES ASSUME PruneInv, UNCHANGED pruneVars PROVE PruneInv'
  OBVIOUS
<1>1. reading' = reading /\ ever' = ever /\ decided' = decided /\ tagsOf' = tagsOf /\ prunings' = prunings
  BY DEF pruneVars, factVars
<1>2. TaggedNow' = TaggedNow /\ \A state : InState(state)' = InState(state)
  BY <1>1 DEF TaggedNow, InState
<1>3. Known' = Known
  BY <1>1 DEF Known
<1>4. UnderLimits(reading.limit)' = UnderLimits(reading.limit)
  BY <1>1 DEF UnderLimits, AppealLimit, ConfidenceLimit
<1>5. RequestInv'
  BY <1>1, <1>2, <1>3, <1>4 DEF PruneInv, RequestInv, TablesAreFollowed, ReadsAreCandidates
<1>6. PruneViewsAreHonest'
  BY <1>1 DEF PruneInv, PruneViewsAreHonest, PageOfList
<1> QED BY <1>5, <1>6 DEF PruneInv

\* However tags, states, feedback, plays and the hour change between the
\* queries of a request of the Prune page, what it lists was a candidate at
\* some moment of the request, or was decided about meanwhile, and is on one
\* page of the list: for any scenes, studios, scores and limits.
THEOREM PruneViewsStayHonest == SpecPrune => []PruneViewsAreHonest
<1>1. InitFacts /\ InitPrune => PruneInv
  BY PruneInvInit
<1>2. PruneInv /\ [NextPrune]_pruneVars => PruneInv'
  BY RowsChangeKeepsInv, QueriesKeepInv, ListingKeepsInv, StutterKeepsPruneInv DEF NextPrune
<1>3. PruneInv => PruneViewsAreHonest
  BY DEF PruneInv
<1> QED BY <1>1, <1>2, <1>3, PTL DEF SpecPrune

-----------------------------------------------------------------------------
(* Slates: what is read in chunks, hidden, drawn and cut is what a client   *)
(* is to see; what is chosen greedily fits, whatever was prepared.          *)

LEMMA StepByStep ==
  ASSUME NEW a \in Int, NEW b \in Int, NEW S, a <= b => a \in S,
         \A n \in a..b : n < b /\ n \in S => n + 1 \in S
  PROVE  \A n \in a..b : n \in S
<1> DEFINE wrong == {n \in Nat : a + n <= b /\ a + n \notin S}
<1>1. SUFFICES ASSUME NEW m \in a..b, m \notin S PROVE FALSE
  OBVIOUS
<1>2. m - a \in wrong
  <2>1. m - a \in Nat /\ a + (m - a) = m
    BY <1>1
  <2> QED BY <1>1, <2>1
<1>3. PICK n \in wrong : \A k \in wrong : n <= k
  BY <1>2, LeastOf
<1>4. n \in Nat /\ a + n <= b /\ a + n \notin S
  BY <1>3
<1>5. n # 0
  BY <1>4
<1>6. n - 1 \in Nat /\ n - 1 \notin wrong /\ a + (n - 1) \in a..b /\ a + (n - 1) < b /\ a + (n - 1) + 1 = a + n
  BY <1>3, <1>4, <1>5
<1>7. a + (n - 1) \in S
  BY <1>4, <1>6
<1>8. a + (n - 1) + 1 \in S
  BY <1>6, <1>7
<1> QED BY <1>4, <1>6, <1>8

\* A recursive function over a range of numbers is there.
Follows(f, first, next, a, b) ==
  f = [n \in a..b |-> IF n = a THEN first ELSE next[n][f[n - 1]]]

LEMMA RecursionExists ==
  ASSUME NEW a \in Int, NEW b \in Int, NEW V, NEW first \in V, NEW next \in [a..b -> [V -> V]]
  PROVE  \E f \in [a..b -> V] : Follows(f, first, next, a, b)
<1> DEFINE Upto(f, m) == \A n \in a..m : f[n] = IF n = a THEN first ELSE next[n][f[n - 1]]
           Reached(m) == \E f \in [a..b -> V] : Upto(f, m)
           S == {m \in a..b : Reached(m)}
<1>1. a <= b => a \in S
  <2>1. [n \in a..b |-> first] \in [a..b -> V]
    OBVIOUS
  <2>2. a <= b => Upto([n \in a..b |-> first], a)
    OBVIOUS
  <2> HIDE DEF Upto
  <2>3. a <= b => Reached(a) /\ a \in a..b
    BY <2>1, <2>2
  <2> QED BY <2>3
<1>2. ASSUME NEW m \in a..b, m < b, m \in S PROVE m + 1 \in S
  <2>1. PICK f \in [a..b -> V] : Upto(f, m)
    BY <1>2
  <2> DEFINE g == [n \in a..b |-> IF n = m + 1 THEN next[n][f[m]] ELSE f[n]]
  <2>2. g \in [a..b -> V]
    OBVIOUS
  <2>3. ASSUME NEW n \in a..(m + 1) PROVE g[n] = IF n = a THEN first ELSE next[n][g[n - 1]]
    <3>1. CASE n = m + 1
      <4>1. n # a /\ n \in a..b /\ n - 1 \in a..b /\ n - 1 = m /\ m # m + 1
        BY <1>2, <3>1
      <4>2. g[n] = next[n][f[m]] /\ g[n - 1] = f[m]
        BY <3>1, <4>1
      <4> QED BY <4>1, <4>2
    <3>2. CASE n # m + 1
      <4>1. n \in a..m /\ n \in a..b
        BY <1>2, <3>2
      <4>2. g[n] = f[n] /\ (n # a => n - 1 \in a..b /\ n - 1 # m + 1 /\ g[n - 1] = f[n - 1])
        BY <1>2, <3>2, <4>1
      <4> QED BY <2>1, <4>1, <4>2
    <3> QED BY <3>1, <3>2
  <2>4. m + 1 \in a..b
    BY <1>2
  <2> HIDE DEF g
  <2>5. Reached(m + 1) /\ m + 1 \in a..b
    BY <2>2, <2>3, <2>4
  <2> HIDE DEF Reached
  <2> QED BY <2>5
<1>3. CASE b < a
  <2>1. [n \in a..b |-> first] \in [a..b -> V] /\ a..b = {}
    BY <1>3
  <2> QED BY <2>1 DEF Follows
<1>4. CASE a <= b
  <2>1. \A n \in a..b : n \in S
    <3> HIDE DEF S
    <3> QED BY <1>1, <1>2, StepByStep
  <2>2. PICK f \in [a..b -> V] : Upto(f, b)
    BY <1>4, <2>1, SMTT(40)
  <2>3. Follows(f, first, next, a, b)
    BY <2>2 DEF Follows
  <2> QED BY <2>3
<1> QED BY <1>3, <1>4

-----------------------------------------------------------------------------
(* What is kept of a sequence, element by element.                          *)
Chain(f, s, S) ==
  /\ f[0] = <<>>
  /\ \A i \in 1..Len(s) : f[i] = IF s[i] \in S THEN Append(f[i - 1], s[i]) ELSE f[i - 1]

LEMMA ThoseAreAChain ==
  ASSUME NEW T, NEW s \in Seq(T), NEW S
  PROVE  \E f \in [0..Len(s) -> Seq(T)] : Chain(f, s, S) /\ Those(s, S) = f[Len(s)]
<1> DEFINE n == Len(s)
           Unfolded(g) == [i \in 0..n |-> IF i = 0 THEN <<>>
                                          ELSE IF s[i] \in S THEN Append(g[i - 1], s[i]) ELSE g[i - 1]]
           f == CHOOSE g : g = Unfolded(g)
           V == Seq(T)
           step == [i \in 0..n |-> [r \in V |-> IF i # 0 /\ s[i] \in S THEN Append(r, s[i]) ELSE r]]
<1>1. n \in Nat /\ s \in [1..n -> T] /\ <<>> \in V
  OBVIOUS
<1>2. \A i \in 0..n : i # 0 => i \in 1..n /\ i - 1 \in 0..n
  BY <1>1
<1>3. step \in [0..n -> [V -> V]]
  <2>1. ASSUME NEW i \in 0..n, NEW r \in V, i # 0 PROVE Append(r, s[i]) \in V
    <3>1. s[i] \in T
      BY <1>1, <1>2, <2>1
    <3> QED BY <2>1, <3>1
  <2> HIDE DEF V, n
  <2> QED BY <2>1
<1>4. PICK g \in [0..n -> V] : Follows(g, <<>>, step, 0, n)
  <2>1. 0 \in Int /\ n \in Int
    BY <1>1
  <2> HIDE DEF step, n, V
  <2> QED BY <1>1, <1>3, <2>1, RecursionExists
<1>5. g = Unfolded(g)
  <2>1. \A i \in 0..n : i # 0 => step[i][g[i - 1]] = IF s[i] \in S THEN Append(g[i - 1], s[i]) ELSE g[i - 1]
    <3> HIDE DEF V, n
    <3> QED BY <1>2, <1>4
  <2>2. g = [i \in 0..n |-> IF i = 0 THEN <<>> ELSE step[i][g[i - 1]]]
    BY <1>4 DEF Follows
  <2> HIDE DEF step, n, V
  <2> QED BY <2>1, <2>2
<1>6. f = Unfolded(f)
  BY <1>5
<1>7. Those(s, S) = f[n]
  BY DEF Those
<1> HIDE DEF f
<1>8. Chain(f, s, S)
  <2>1. f[0] = <<>>
    <3>1. 0 \in 0..n
      BY <1>1
    <3> HIDE DEF n
    <3> QED BY <1>6, <3>1
  <2>2. ASSUME NEW i \in 1..n PROVE f[i] = IF s[i] \in S THEN Append(f[i - 1], s[i]) ELSE f[i - 1]
    <3>1. i \in 0..n /\ i # 0
      BY <1>1
    <3> HIDE DEF n
    <3> QED BY <1>6, <3>1
  <2> QED BY <2>1, <2>2 DEF Chain
<1>9. \A i \in 0..n : f[i] \in V
  <2> DEFINE X == {i \in 0..n : f[i] \in V}
  <2>1. 0 \in X
    <3>1. f[0] = <<>> /\ 0 \in 0..n
      BY <1>1, <1>8 DEF Chain
    <3> HIDE DEF V, n
    <3> QED BY <1>1, <3>1
  <2>2. ASSUME NEW i \in 0..n, i < n, i \in X PROVE i + 1 \in X
    <3>1. i + 1 \in 1..n /\ i + 1 \in 0..n /\ (i + 1) - 1 = i
      BY <1>1, <2>2
    <3>2. f[i + 1] = IF s[i + 1] \in S THEN Append(f[i], s[i + 1]) ELSE f[i]
      BY <1>8, <3>1 DEF Chain
    <3>3. s[i + 1] \in T /\ f[i] \in V
      BY <1>1, <2>2, <3>1
    <3>4. Append(f[i], s[i + 1]) \in V
      BY <3>3
    <3> QED BY <3>1, <3>2, <3>3, <3>4
  <2>3. \A i \in 0..n : i \in X
    <3>1. 0 \in Int /\ n \in Int
      BY <1>1
    <3> HIDE DEF X, n
    <3> QED BY <2>1, <2>2, <3>1, StepByStep
  <2> QED BY <2>3
<1>10. f \in [0..n -> V]
  <2> HIDE DEF V, n
  <2> QED BY <1>6, <1>9
<1> QED BY <1>7, <1>8, <1>10

LEMMA ThoseOfNone == \A S : Those(<<>>, S) = <<>>
<1> TAKE S
<1>1. <<>> \in Seq({}) /\ Len(<<>>) = 0
  OBVIOUS
<1>2. PICK f \in [0..Len(<<>>) -> Seq({})] : Chain(f, <<>>, S) /\ Those(<<>>, S) = f[Len(<<>>)]
  BY <1>1, ThoseAreAChain, ZenonT(60)
<1> QED BY <1>1, <1>2 DEF Chain

LEMMA ThoseOfMore ==
  ASSUME NEW T, NEW s \in Seq(T), NEW x \in T, NEW S
  PROVE  /\ Those(s, S) \in Seq(T)
         /\ Those(Append(s, x), S) = IF x \in S THEN Append(Those(s, S), x) ELSE Those(s, S)
<1> DEFINE n == Len(s)
           more == Append(s, x)
<1>1. /\ n \in Nat /\ more \in Seq(T) /\ Len(more) = n + 1 /\ more[n + 1] = x
      /\ \A i \in 1..n : more[i] = s[i]
  OBVIOUS
<1>2. PICK f \in [0..n -> Seq(T)] : Chain(f, s, S) /\ Those(s, S) = f[n]
  BY ThoseAreAChain
<1>3. PICK g \in [0..Len(more) -> Seq(T)] : Chain(g, more, S) /\ Those(more, S) = g[Len(more)]
  BY <1>1, ThoseAreAChain
<1>4. \A i \in 0..n : g[i] = f[i]
  <2> DEFINE X == {i \in 0..n : g[i] = f[i]}
  <2>1. 0 \in X
    BY <1>1, <1>2, <1>3 DEF Chain
  <2>2. ASSUME NEW i \in 0..n, i < n, i \in X PROVE i + 1 \in X
    <3>1. i + 1 \in 1..n /\ i + 1 \in 0..n /\ (i + 1) - 1 = i /\ i + 1 \in 1..(n + 1)
      BY <1>1, <2>2
    <3>2. f[i + 1] = IF s[i + 1] \in S THEN Append(f[i], s[i + 1]) ELSE f[i]
      BY <1>2, <3>1 DEF Chain
    <3>3. g[i + 1] = IF more[i + 1] \in S THEN Append(g[i], more[i + 1]) ELSE g[i]
      BY <1>1, <1>3, <3>1 DEF Chain
    <3>4. more[i + 1] = s[i + 1]
      BY <1>1, <3>1
    <3> HIDE DEF more, n
    <3> QED BY <2>2, <3>1, <3>2, <3>3, <3>4
  <2>3. \A i \in 0..n : i \in X
    <3>1. 0 \in Int /\ n \in Int
      BY <1>1
    <3> HIDE DEF X, n
    <3> QED BY <2>1, <2>2, <3>1, StepByStep
  <2> QED BY <2>3
<1>5. g[n + 1] = IF more[n + 1] \in S THEN Append(g[n], more[n + 1]) ELSE g[n]
  <2>1. n + 1 \in 1..(n + 1) /\ (n + 1) - 1 = n
    BY <1>1
  <2> HIDE DEF more, n
  <2> QED BY <1>1, <1>3, <2>1 DEF Chain
<1>6. n \in 0..n
  BY <1>1
<1> HIDE DEF more, n
<1>7. Those(s, S) \in Seq(T)
  BY <1>2, <1>6
<1>8. Those(more, S) = IF x \in S THEN Append(Those(s, S), x) ELSE Those(s, S)
  BY <1>1, <1>2, <1>3, <1>4, <1>5, <1>6
<1> QED BY <1>7, <1>8 DEF more

\* What holds of the empty sequence, and with a sequence of each that has one
\* more, holds of all the beginnings of a sequence.
LEMMA Beginnings ==
  ASSUME NEW T, NEW s \in Seq(T), NEW k \in 0..Len(s)
  PROVE  /\ SubSeq(s, 1, 0) = <<>>
         /\ SubSeq(s, 1, Len(s)) = s
         /\ SubSeq(s, 1, k) \in Seq(T) /\ Len(SubSeq(s, 1, k)) = k
         /\ \A i \in 1..k : SubSeq(s, 1, k)[i] = s[i]
         /\ k < Len(s) => /\ s[k + 1] \in T
                          /\ SubSeq(s, 1, k + 1) = Append(SubSeq(s, 1, k), s[k + 1])
<1>1. Len(s) \in Nat /\ k \in Nat /\ k <= Len(s) /\ s \in [1..Len(s) -> T]
  OBVIOUS
<1>2. SubSeq(s, 1, 0) = <<>>
  OBVIOUS
<1>3. SubSeq(s, 1, Len(s)) = s
  BY SubSeqFull
<1>4. SubSeq(s, 1, k) \in Seq(T) /\ Len(SubSeq(s, 1, k)) = k /\ \A i \in 1..k : SubSeq(s, 1, k)[i] = s[i]
  BY <1>1
<1>5. ASSUME k < Len(s) PROVE s[k + 1] \in T /\ SubSeq(s, 1, k + 1) = Append(SubSeq(s, 1, k), s[k + 1])
  <2>1. k + 1 \in 1..Len(s)
    BY <1>1, <1>5
  <2>2. s[k + 1] \in T
    BY <1>1, <2>1
  <2> DEFINE a == SubSeq(s, 1, k + 1)
             b == Append(SubSeq(s, 1, k), s[k + 1])
  <2>3. a \in Seq(T) /\ Len(a) = k + 1 /\ \A i \in 1..(k + 1) : a[i] = s[i]
    BY <1>1, <2>1
  <2>4. b \in Seq(T) /\ Len(b) = k + 1 /\ \A i \in 1..(k + 1) : b[i] = s[i]
    BY <1>1, <1>4, <2>2
  <2> HIDE DEF a, b
  <2>5. a = b
    BY <2>3, <2>4, SeqEqual
  <2> QED BY <2>2, <2>5 DEF a, b
<1> QED BY <1>2, <1>3, <1>4, <1>5

\* A sequence starts with another one.
Starts(q, p) == Len(q) <= Len(p) /\ \A a \in 1..Len(q) : p[a] = q[a]

LEMMA ThoseOfBeginnings ==
  ASSUME NEW T, NEW s \in Seq(T), NEW S, NEW k \in 0..Len(s)
  PROVE  /\ Those(SubSeq(s, 1, k), S) \in Seq(T)
         /\ Those(SubSeq(s, 1, 0), S) = <<>>
         /\ Those(SubSeq(s, 1, Len(s)), S) = Those(s, S)
         /\ k < Len(s) => Those(SubSeq(s, 1, k + 1), S) = IF s[k + 1] \in S
                                                         THEN Append(Those(SubSeq(s, 1, k), S), s[k + 1])
                                                         ELSE Those(SubSeq(s, 1, k), S)
<1>1. SubSeq(s, 1, 0) = <<>> /\ SubSeq(s, 1, Len(s)) = s /\ SubSeq(s, 1, k) \in Seq(T)
  BY Beginnings
<1>0. \A u \in Seq(T), x \in T :
        Those(u, S) \in Seq(T) /\ Those(Append(u, x), S) = IF x \in S THEN Append(Those(u, S), x) ELSE Those(u, S)
  BY ThoseOfMore
<1>2. Those(SubSeq(s, 1, k), S) \in Seq(T)
  <2>1. k = 0 \/ (k - 1 \in 0..Len(s) /\ k - 1 < Len(s) /\ (k - 1) + 1 = k)
    OBVIOUS
  <2>2. CASE k = 0
    BY <1>1, <2>2, ThoseOfNone
  <2>3. CASE k - 1 \in 0..Len(s) /\ k - 1 < Len(s) /\ (k - 1) + 1 = k
    <3> DEFINE t == SubSeq(s, 1, k - 1)
    <3>1. t \in Seq(T) /\ s[k] \in T /\ SubSeq(s, 1, k) = Append(t, s[k])
      BY <2>3, Beginnings
    <3> HIDE DEF t
    <3>2. Those(t, S) \in Seq(T) /\ Those(Append(t, s[k]), S) = IF s[k] \in S THEN Append(Those(t, S), s[k]) ELSE Those(t, S)
      BY <1>0, <3>1
    <3>3. Append(Those(t, S), s[k]) \in Seq(T)
      BY <3>1, <3>2
    <3> QED BY <3>1, <3>2, <3>3
  <2> QED BY <2>1, <2>2, <2>3
<1>3. ASSUME k < Len(s)
      PROVE  Those(SubSeq(s, 1, k + 1), S) = IF s[k + 1] \in S
                                             THEN Append(Those(SubSeq(s, 1, k), S), s[k + 1])
                                             ELSE Those(SubSeq(s, 1, k), S)
  <2> DEFINE t == SubSeq(s, 1, k)
  <2>1. t \in Seq(T) /\ s[k + 1] \in T /\ SubSeq(s, 1, k + 1) = Append(t, s[k + 1])
    BY <1>3, Beginnings
  <2> HIDE DEF t
  <2>2. Those(Append(t, s[k + 1]), S) = IF s[k + 1] \in S THEN Append(Those(t, S), s[k + 1]) ELSE Those(t, S)
    BY <1>0, <2>1
  <2> QED BY <2>1, <2>2 DEF t
<1> QED BY <1>1, <1>2, <1>3, ThoseOfNone

LEMMA MoreStarts ==
  ASSUME NEW T, NEW p \in Seq(T), NEW q \in Seq(T), NEW x \in T, Starts(q, p)
  PROVE  Starts(q, Append(p, x))
<1>1. /\ Len(Append(p, x)) = Len(p) + 1 /\ Len(p) \in Nat /\ Len(q) \in Nat
      /\ \A a \in 1..Len(p) : Append(p, x)[a] = p[a]
  OBVIOUS
<1>2. \A a \in 1..Len(q) : a \in 1..Len(p) /\ p[a] = q[a]
  BY <1>1 DEF Starts
<1>3. Len(q) <= Len(p)
  BY DEF Starts
<1> QED BY <1>1, <1>2, <1>3 DEF Starts

LEMMA EarlierStarts ==
  ASSUME NEW T, NEW s \in Seq(T), NEW S, NEW k \in 0..Len(s)
  PROVE  Starts(Those(SubSeq(s, 1, k), S), Those(s, S))
<1> DEFINE n == Len(s)
           P(m) == Those(SubSeq(s, 1, m), S)
           X == {m \in k..n : Starts(P(k), P(m))}
<1>1. n \in Nat /\ k \in Nat /\ k <= n
  OBVIOUS
<1>2. /\ \A m \in 0..n : P(m) \in Seq(T)
      /\ \A m \in 0..n : m < n => P(m + 1) = IF s[m + 1] \in S THEN Append(P(m), s[m + 1]) ELSE P(m)
      /\ P(n) = Those(s, S)
  BY <1>1, ThoseOfBeginnings
<1> HIDE DEF P
<1>3. k \in X
  <2>1. Len(P(k)) \in Nat
    BY <1>2
  <2> QED BY <1>1, <2>1 DEF Starts
<1>4. ASSUME NEW m \in k..n, m < n, m \in X PROVE m + 1 \in X
  <2>1. m \in 0..n /\ m + 1 \in k..n /\ m + 1 \in 1..n
    BY <1>1, <1>4
  <2>2. s[m + 1] \in T /\ P(m) \in Seq(T) /\ P(k) \in Seq(T)
    BY <1>1, <1>2, <2>1
  <2>3. Starts(P(k), P(m))
    BY <1>4
  <2>4. Starts(P(k), Append(P(m), s[m + 1]))
    BY <2>2, <2>3, MoreStarts
  <2>5. Starts(P(k), P(m + 1))
    BY <1>2, <1>4, <2>1, <2>3, <2>4
  <2> QED BY <2>1, <2>5
<1>5. \A m \in k..n : m \in X
  <2>1. k \in Int /\ n \in Int
    BY <1>1
  <2> HIDE DEF X, n
  <2> QED BY <1>3, <1>4, <2>1, StepByStep
<1>6. Starts(P(k), P(n))
  <2>1. n \in k..n
    BY <1>1
  <2> QED BY <1>5, <2>1
<1> QED BY <1>2, <1>6 DEF P

LEMMA ThoseOfParts ==
  ASSUME NEW T, NEW s \in Seq(T), NEW S, NEW i \in 0..Len(s), NEW j \in i..Len(s)
  PROVE  Those(SubSeq(s, 1, i), S) \o Those(SubSeq(s, i + 1, j), S) = Those(SubSeq(s, 1, j), S)
<1> DEFINE n == Len(s)
           P(m) == Those(SubSeq(s, 1, m), S)
           Q(m) == Those(SubSeq(s, i + 1, m), S)
           X == {m \in i..n : Q(m) \in Seq(T) /\ P(i) \o Q(m) = P(m)}
<1>1. n \in Nat /\ i \in Nat /\ i <= n /\ j \in i..n /\ s \in [1..n -> T]
  OBVIOUS
<1>2. /\ \A m \in 0..n : P(m) \in Seq(T)
      /\ \A m \in 0..n : m < n => P(m + 1) = IF s[m + 1] \in S THEN Append(P(m), s[m + 1]) ELSE P(m)
  BY <1>1, ThoseOfBeginnings, SMTT(40)
<1>3. Q(i) = <<>>
  <2>1. SubSeq(s, i + 1, i) = <<>>
    BY <1>1, SubSeqEmpty
  <2> QED BY <2>1, ThoseOfNone
<1>4. ASSUME NEW m \in i..n, m < n, Q(m) \in Seq(T)
      PROVE  /\ Q(m + 1) = IF s[m + 1] \in S THEN Append(Q(m), s[m + 1]) ELSE Q(m)
             /\ s[m + 1] \in T
  <2> DEFINE t == SubSeq(s, i + 1, m)
             more == SubSeq(s, i + 1, m + 1)
  <2>1. m \in Nat /\ m + 1 \in 1..n /\ s[m + 1] \in T
    BY <1>1, <1>4
  <2>2. t \in Seq(T) /\ Len(t) = m - i /\ \A a \in 1..(m - i) : t[a] = s[i + a]
    <3>1. \A a \in (i + 1)..m : s[a] \in T
      BY <1>1, <2>1
    <3>2. t \in Seq(T) /\ Len(t) = (IF i + 1 <= m THEN m - (i + 1) + 1 ELSE 0) /\ \A a \in 1..(m - (i + 1) + 1) : t[a] = s[(i + 1) + a - 1]
      BY <1>1, <2>1, <3>1, SubSeqProperties
    <3>3. m - (i + 1) + 1 = m - i /\ \A a \in 1..(m - i) : (i + 1) + a - 1 = i + a
      BY <1>1, <2>1
    <3>4. (IF i + 1 <= m THEN m - (i + 1) + 1 ELSE 0) = m - i
      BY <1>1, <1>4, <2>1
    <3> HIDE DEF t
    <3> QED BY <3>2, <3>3, <3>4
  <2>3. more \in Seq(T) /\ Len(more) = m + 1 - i /\ \A a \in 1..(m + 1 - i) : more[a] = s[i + a]
    <3>1. \A a \in (i + 1)..(m + 1) : s[a] \in T
      BY <1>1, <2>1
    <3>2. more \in Seq(T) /\ Len(more) = (IF i + 1 <= m + 1 THEN (m + 1) - (i + 1) + 1 ELSE 0) /\ \A a \in 1..((m + 1) - (i + 1) + 1) : more[a] = s[(i + 1) + a - 1]
      BY <1>1, <2>1, <3>1, SubSeqProperties
    <3>3. (m + 1) - (i + 1) + 1 = m + 1 - i /\ \A a \in 1..(m + 1 - i) : (i + 1) + a - 1 = i + a
      BY <1>1, <2>1
    <3>4. (IF i + 1 <= m + 1 THEN (m + 1) - (i + 1) + 1 ELSE 0) = m + 1 - i
      BY <1>1, <1>4, <2>1
    <3> HIDE DEF more
    <3> QED BY <3>2, <3>3, <3>4
  <2> HIDE DEF t, more
  <2>4. more = Append(t, s[m + 1])
    <3> DEFINE b == Append(t, s[m + 1])
    <3>1. b \in Seq(T) /\ Len(b) = (m - i) + 1 /\ b[(m - i) + 1] = s[m + 1] /\ \A a \in 1..(m - i) : b[a] = t[a]
      BY <2>1, <2>2, SMTT(40)
    <3> HIDE DEF b
    <3>2. (m - i) + 1 = m + 1 - i /\ i + (m + 1 - i) = m + 1 /\ m - i \in Nat
      BY <1>1, <1>4, <2>1
    <3>3. \A a \in 1..(m + 1 - i) : a = m + 1 - i \/ a \in 1..(m - i)
      BY <1>1, <2>1
    <3>4. \A a \in 1..(m + 1 - i) : more[a] = b[a]
      BY <2>2, <2>3, <3>1, <3>2, <3>3, ZenonT(60)
    <3>5. more = b
      BY <2>3, <3>1, <3>2, <3>4, SeqEqual
    <3> QED BY <3>5 DEF b
  <2>5. Those(Append(t, s[m + 1]), S) = IF s[m + 1] \in S THEN Append(Those(t, S), s[m + 1]) ELSE Those(t, S)
    <3>1. \A u \in Seq(T), x \in T :
            Those(Append(u, x), S) = IF x \in S THEN Append(Those(u, S), x) ELSE Those(u, S)
      BY ThoseOfMore
    <3> QED BY <2>1, <2>2, <3>1
  <2> QED BY <2>1, <2>4, <2>5 DEF t, more
<1> HIDE DEF P, Q
<1>5. i \in X
  <2>1. P(i) \in Seq(T) /\ <<>> \in Seq(T)
    BY <1>1, <1>2
  <2>2. P(i) \o <<>> = P(i)
    BY <2>1, ConcatEmptySeq
  <2> QED BY <1>1, <1>3, <2>1, <2>2
<1>6. ASSUME NEW m \in i..n, m < n, m \in X PROVE m + 1 \in X
  <2>1. m \in 0..n /\ m + 1 \in i..n
    BY <1>1, <1>6
  <2>2. /\ Q(m) \in Seq(T) /\ P(i) \o Q(m) = P(m) /\ P(i) \in Seq(T) /\ s[m + 1] \in T
        /\ Q(m + 1) = IF s[m + 1] \in S THEN Append(Q(m), s[m + 1]) ELSE Q(m)
        /\ P(m + 1) = IF s[m + 1] \in S THEN Append(P(m), s[m + 1]) ELSE P(m)
    BY <1>1, <1>2, <1>4, <1>6, <2>1
  <2>3. P(i) \o Append(Q(m), s[m + 1]) = Append(P(i) \o Q(m), s[m + 1])
    <3> DEFINE a == P(i) \o Append(Q(m), s[m + 1])
               b == Append(P(i) \o Q(m), s[m + 1])
               u == Len(P(i))
               v == Len(Q(m))
    <3>1. a \in Seq(T) /\ b \in Seq(T) /\ Len(a) = u + (v + 1) /\ Len(b) = (u + v) + 1 /\ u \in Nat /\ v \in Nat
      <4> DEFINE x == s[m + 1]
      <4>1. P(i) \in Seq(T) /\ Q(m) \in Seq(T) /\ x \in T
        BY <2>2
      <4> HIDE DEF x
      <4>2. Append(Q(m), x) \in Seq(T) /\ Len(Append(Q(m), x)) = v + 1 /\ u \in Nat /\ v \in Nat
        BY <4>1
      <4>3. P(i) \o Q(m) \in Seq(T) /\ Len(P(i) \o Q(m)) = u + v
        BY <4>1
      <4>4. P(i) \o Append(Q(m), x) \in Seq(T) /\ Len(P(i) \o Append(Q(m), x)) = u + (v + 1)
        BY <4>1, <4>2
      <4>5. Append(P(i) \o Q(m), x) \in Seq(T) /\ Len(Append(P(i) \o Q(m), x)) = (u + v) + 1
        BY <4>1, <4>3
      <4> QED BY <4>2, <4>4, <4>5 DEF x
    <3>2. \A c \in 1..(u + v + 1) : a[c] = b[c]
      BY <2>2, SMTT(40)
    <3> HIDE DEF a, b, u, v
    <3>3. a = b
      BY <3>1, <3>2, SeqEqual
    <3> QED BY <3>3 DEF a, b
  <2>4. Append(Q(m), s[m + 1]) \in Seq(T)
    BY <2>2
  <2>5. Q(m + 1) \in Seq(T) /\ P(i) \o Q(m + 1) = P(m + 1)
    BY <2>2, <2>3, <2>4
  <2> QED BY <2>1, <2>5
<1>7. \A m \in i..n : m \in X
  <2>1. i \in Int /\ n \in Int
    BY <1>1
  <2> HIDE DEF X, n
  <2> QED BY <1>5, <1>6, <2>1, StepByStep
<1> QED BY <1>1, <1>7 DEF P, Q

LEMMA ThoseOfThose ==
  ASSUME NEW T, NEW s \in Seq(T), NEW S, NEW R
  PROVE  Those(Those(s, S), R) = Those(s, S \cap R)
<1> DEFINE n == Len(s)
           P(m) == Those(SubSeq(s, 1, m), S)
           Q(m) == Those(SubSeq(s, 1, m), S \cap R)
           X == {m \in 0..n : Those(P(m), R) = Q(m)}
<1>1. n \in Nat /\ s \in [1..n -> T]
  OBVIOUS
<1>2. /\ \A m \in 0..n : P(m) \in Seq(T)
      /\ \A m \in 0..n : m < n => P(m + 1) = IF s[m + 1] \in S THEN Append(P(m), s[m + 1]) ELSE P(m)
      /\ P(0) = <<>> /\ P(n) = Those(s, S)
  BY <1>1, ThoseOfBeginnings
<1>3. /\ \A m \in 0..n : m < n => Q(m + 1) = IF s[m + 1] \in S \cap R THEN Append(Q(m), s[m + 1]) ELSE Q(m)
      /\ Q(0) = <<>> /\ Q(n) = Those(s, S \cap R)
  BY <1>1, ThoseOfBeginnings, SMTT(40)
<1>4. \A u \in Seq(T), x \in T : Those(Append(u, x), R) = IF x \in R THEN Append(Those(u, R), x) ELSE Those(u, R)
  BY ThoseOfMore
<1> HIDE DEF P, Q
<1>5. 0 \in X
  BY <1>1, <1>2, <1>3, ThoseOfNone
<1>6. ASSUME NEW m \in 0..n, m < n, m \in X PROVE m + 1 \in X
  <2>1. m + 1 \in 0..n /\ m + 1 \in 1..n
    BY <1>1, <1>6
  <2>2. s[m + 1] \in T /\ P(m) \in Seq(T) /\ Those(P(m), R) = Q(m)
    BY <1>1, <1>2, <1>6, <2>1
  <2>3. CASE s[m + 1] \in S
    <3>1. P(m + 1) = Append(P(m), s[m + 1])
      BY <1>2, <1>6, <2>3
    <3>2. Those(P(m + 1), R) = IF s[m + 1] \in R THEN Append(Q(m), s[m + 1]) ELSE Q(m)
      BY <1>4, <2>2, <3>1, ZenonT(60)
    <3> QED BY <1>3, <1>6, <2>1, <2>3, <3>2
  <2>4. CASE s[m + 1] \notin S
    BY <1>2, <1>3, <1>6, <2>1, <2>2, <2>4
  <2> QED BY <2>3, <2>4
<1>7. \A m \in 0..n : m \in X
  <2>1. 0 \in Int /\ n \in Int
    BY <1>1
  <2> HIDE DEF X, n
  <2> QED BY <1>5, <1>6, <2>1, StepByStep
<1> QED BY <1>1, <1>2, <1>3, <1>7

\* No two rows of a scene.
Differ(rows) == \A a, b \in 1..Len(rows) : rows[a].scene = rows[b].scene => a = b

LEMMA MoreDiffer ==
  ASSUME NEW T, NEW p \in Seq(T), NEW x \in T, Differ(p), \A a \in 1..Len(p) : p[a].scene # x.scene
  PROVE  Differ(Append(p, x))
<1> DEFINE q == Append(p, x)
           n == Len(p)
<1>1. n \in Nat /\ Len(q) = n + 1 /\ q[n + 1] = x /\ \A a \in 1..n : q[a] = p[a]
  OBVIOUS
<1>2. \A a \in 1..(n + 1) : a = n + 1 \/ a \in 1..n
  BY <1>1
<1>3. ASSUME NEW a \in 1..(n + 1), NEW b \in 1..(n + 1), q[a].scene = q[b].scene PROVE a = b
  <2> HIDE DEF n, q
  <2>1. CASE a \in 1..n /\ b \in 1..n
    BY <1>1, <1>3, <2>1 DEF Differ, n
  <2>2. CASE a = n + 1 /\ b \in 1..n
    BY <1>1, <1>3, <2>2 DEF n
  <2>3. CASE b = n + 1 /\ a \in 1..n
    BY <1>1, <1>3, <2>3 DEF n
  <2> QED BY <1>2, <1>3, <2>1, <2>2, <2>3
<1> HIDE DEF q, n
<1> QED BY <1>1, <1>3 DEF Differ, q

LEMMA ThoseDiffer ==
  ASSUME NEW T, NEW s \in Seq(T), NEW S
  PROVE  /\ \A a \in 1..Len(Those(s, S)) : \E i \in 1..Len(s) : Those(s, S)[a] = s[i] /\ s[i] \in S
         /\ Differ(s) => Differ(Those(s, S))
<1> DEFINE n == Len(s)
           P(m) == Those(SubSeq(s, 1, m), S)
           RowsUpTo(m) == \A a \in 1..Len(P(m)) : \E i \in 1..m : P(m)[a] = s[i] /\ s[i] \in S
           X == {m \in 0..n : RowsUpTo(m) /\ (Differ(s) => Differ(P(m)))}
<1>1. n \in Nat /\ s \in [1..n -> T]
  OBVIOUS
<1>2. /\ \A m \in 0..n : P(m) \in Seq(T)
      /\ \A m \in 0..n : m < n => P(m + 1) = IF s[m + 1] \in S THEN Append(P(m), s[m + 1]) ELSE P(m)
      /\ P(0) = <<>> /\ P(n) = Those(s, S)
  BY <1>1, ThoseOfBeginnings
<1> HIDE DEF P
<1>3. 0 \in X
  <2>1. Len(P(0)) = 0 /\ 1..0 = {}
    BY <1>2
  <2>2. 0 \in 0..n
    BY <1>1
  <2> QED BY <2>1, <2>2 DEF Differ
<1>4. ASSUME NEW m \in 0..n, m < n, m \in X PROVE m + 1 \in X
  <2>1. m + 1 \in 0..n /\ m + 1 \in 1..n /\ m \in Nat
    BY <1>1, <1>4
  <2>2. s[m + 1] \in T /\ P(m) \in Seq(T) /\ RowsUpTo(m) /\ (Differ(s) => Differ(P(m)))
    BY <1>1, <1>2, <1>4, <2>1
  <2>3. \A i \in 1..m : i \in 1..(m + 1) /\ i \in 1..n /\ i # m + 1
    BY <1>1, <2>1
  <2>4. CASE s[m + 1] \in S
    <3> DEFINE q == Append(P(m), s[m + 1])
               l == Len(P(m))
    <3>1. P(m + 1) = q
      BY <1>2, <1>4, <2>4
    <3>2. l \in Nat /\ Len(q) = l + 1 /\ q[l + 1] = s[m + 1] /\ \A a \in 1..l : q[a] = P(m)[a]
      BY <2>2
    <3>3. RowsUpTo(m + 1)
      <4>1. ASSUME NEW a \in 1..(l + 1) PROVE \E i \in 1..(m + 1) : q[a] = s[i] /\ s[i] \in S
        <5>1. CASE a = l + 1
          <6>1. m + 1 \in 1..(m + 1)
            BY <2>1
          <6> QED BY <2>4, <3>2, <5>1, <6>1
        <5>2. CASE a # l + 1
          <6>1. a \in 1..l
            BY <3>2, <5>2
          <6> HIDE DEF l, q
          <6>2. PICK i \in 1..m : P(m)[a] = s[i] /\ s[i] \in S
            BY <2>2, <6>1 DEF l
          <6> QED BY <2>3, <3>2, <6>1, <6>2
        <5> QED BY <5>1, <5>2
      <4> HIDE DEF q, l
      <4> QED BY <3>1, <3>2, <4>1
    <3>4. ASSUME Differ(s) PROVE Differ(P(m + 1))
      <4>1. \A a \in 1..l : P(m)[a].scene # s[m + 1].scene
        <5>1. SUFFICES ASSUME NEW a \in 1..l PROVE P(m)[a].scene # s[m + 1].scene
          OBVIOUS
        <5>2. PICK i \in 1..m : P(m)[a] = s[i]
          BY <2>2
        <5>3. i \in 1..n /\ m + 1 \in 1..n /\ i # m + 1
          BY <2>1, <2>3
        <5> QED BY <3>4, <5>2, <5>3 DEF Differ
      <4>2. Differ(P(m))
        BY <2>2, <3>4
      <4>3. Differ(q)
        BY <2>2, <4>1, <4>2, MoreDiffer
      <4> QED BY <3>1, <4>3
    <3> QED BY <2>1, <3>3, <3>4
  <2>5. CASE s[m + 1] \notin S
    <3>1. P(m + 1) = P(m)
      BY <1>2, <1>4, <2>5
    <3>2. RowsUpTo(m + 1)
      BY <2>2, <2>3, <3>1
    <3> QED BY <2>1, <2>2, <3>1, <3>2
  <2> QED BY <2>4, <2>5
<1>5. \A m \in 0..n : m \in X
  <2>1. 0 \in Int /\ n \in Int
    BY <1>1
  <2> HIDE DEF X, n
  <2> QED BY <1>3, <1>4, <2>1, StepByStep
<1>6. n \in 0..n
  BY <1>1
<1> QED BY <1>2, <1>5, <1>6

\* What is left out has its scenes in H: at most as many rows as those.
LEMMA ThoseCount ==
  ASSUME NEW T, NEW s \in Seq(T), NEW S, Differ(s), NEW H, IsFiniteSet(H),
         \A i \in 1..Len(s) : s[i] \notin S => s[i].scene \in H
  PROVE  Len(s) <= Len(Those(s, S)) + Cardinality(H)
<1> DEFINE n == Len(s)
           P(m) == Those(SubSeq(s, 1, m), S)
           Out(m) == {s[i].scene : i \in {j \in 1..m : s[j] \notin S}}
           X == {m \in 0..n : m = Len(P(m)) + Cardinality(Out(m))}
<1>1. n \in Nat /\ s \in [1..n -> T]
  OBVIOUS
<1>2. /\ \A m \in 0..n : P(m) \in Seq(T)
      /\ \A m \in 0..n : m < n => P(m + 1) = IF s[m + 1] \in S THEN Append(P(m), s[m + 1]) ELSE P(m)
      /\ P(0) = <<>> /\ P(n) = Those(s, S)
  BY <1>1, ThoseOfBeginnings
<1> HIDE DEF P
<1>3. \A m \in 0..n : Out(m) \subseteq H /\ IsFiniteSet(Out(m)) /\ Cardinality(Out(m)) \in Nat
                      /\ Cardinality(Out(m)) <= Cardinality(H)
  <2>1. SUFFICES ASSUME NEW m \in 0..n
                 PROVE  Out(m) \subseteq H /\ IsFiniteSet(Out(m)) /\ Cardinality(Out(m)) \in Nat
                        /\ Cardinality(Out(m)) <= Cardinality(H)
    OBVIOUS
  <2>2. \A j \in 1..m : j \in 1..n
    BY <1>1
  <2>3. Out(m) \in SUBSET H
    BY <2>2
  <2> HIDE DEF Out
  <2>4. IsFiniteSet(Out(m)) /\ Cardinality(Out(m)) <= Cardinality(H)
    BY <2>3, FS_Subset
  <2> QED BY <2>3, <2>4, FS_CardinalityType
<1>4. 0 \in X
  <2>1. Out(0) = {}
    OBVIOUS
  <2>2. Cardinality(Out(0)) = 0
    BY <2>1, FS_EmptySet
  <2>3. Len(P(0)) = 0 /\ 0 \in 0..n
    BY <1>1, <1>2
  <2> HIDE DEF Out
  <2> QED BY <2>2, <2>3
<1>5. ASSUME NEW m \in 0..n, m < n, m \in X PROVE m + 1 \in X
  <2>1. m + 1 \in 0..n /\ m + 1 \in 1..n /\ m \in Nat
    BY <1>1, <1>5
  <2>2. s[m + 1] \in T /\ P(m) \in Seq(T) /\ m = Len(P(m)) + Cardinality(Out(m))
    BY <1>1, <1>2, <1>5, <2>1
  <2>3. \A j : j \in 1..(m + 1) <=> j = m + 1 \/ j \in 1..m
    BY <2>1
  <2> DEFINE x == s[m + 1]
             p == P(m)
  <2>a. x \in T /\ p \in Seq(T)
    BY <2>2
  <2>b. P(m + 1) = IF x \in S THEN Append(p, x) ELSE p
    BY <1>2, <1>5
  <2>c. Len(Append(p, x)) = Len(p) + 1 /\ Len(p) \in Nat
    <3> HIDE DEF x, p
    <3> QED BY <2>a
  <2>d. Cardinality(Out(m)) \in Nat /\ IsFiniteSet(Out(m))
    <3> HIDE DEF Out, n
    <3> QED BY <1>3
  <2>4. CASE s[m + 1] \in S
    <3>1. Len(P(m + 1)) = Len(P(m)) + 1
      BY <2>b, <2>c, <2>4
    <3>2. Out(m + 1) = Out(m)
      BY <2>3, <2>4
    <3>3. Len(P(m)) \in Nat /\ Cardinality(Out(m)) \in Nat
      BY <2>c, <2>d
    <3> HIDE DEF Out
    <3> QED BY <2>1, <2>2, <3>1, <3>2, <3>3
  <2>5. CASE s[m + 1] \notin S
    <3>1. P(m + 1) = P(m)
      BY <1>2, <1>5, <2>5
    <3>2. Out(m + 1) = Out(m) \cup {s[m + 1].scene}
      BY <2>3, <2>5
    <3>3. s[m + 1].scene \notin Out(m)
      <4>1. SUFFICES ASSUME NEW j \in 1..m, s[j].scene = s[m + 1].scene PROVE FALSE
        OBVIOUS
      <4>2. j \in 1..n /\ m + 1 \in 1..n /\ j # m + 1
        BY <1>1, <2>1
      <4> QED BY <4>1, <4>2 DEF Differ
    <3> HIDE DEF Out
    <3>4. Cardinality(Out(m + 1)) = Cardinality(Out(m)) + 1
      <4> DEFINE w == x.scene
                 o == Out(m)
      <4>1. Out(m + 1) = o \cup {w} /\ w \notin o /\ IsFiniteSet(o)
        BY <2>d, <3>2, <3>3
      <4> HIDE DEF w, o
      <4>2. Cardinality(o \cup {w}) = Cardinality(o) + 1
        BY <4>1, FS_AddElement
      <4> QED BY <4>1, <4>2 DEF o
    <3>5. Len(P(m)) \in Nat /\ Cardinality(Out(m)) \in Nat
      BY <2>c, <2>d
    <3> QED BY <2>1, <2>2, <3>1, <3>4, <3>5, SMTT(40)
  <2> QED BY <2>4, <2>5
<1>6. \A m \in 0..n : m \in X
  <2>1. 0 \in Int /\ n \in Int
    BY <1>1
  <2> HIDE DEF X, n
  <2> QED BY <1>4, <1>5, <2>1, StepByStep
<1>7. n = Len(Those(s, S)) + Cardinality(Out(n)) /\ Cardinality(Out(n)) <= Cardinality(H) /\ Cardinality(Out(n)) \in Nat
  <2>1. n \in 0..n
    BY <1>1
  <2> HIDE DEF Out
  <2> QED BY <1>2, <1>3, <1>6, <2>1
<1>8. Cardinality(H) \in Nat
  BY FS_CardinalityType
<1>9. Len(Those(s, S)) \in Nat
  <2>1. n \in 0..n
    BY <1>1
  <2>2. Those(s, S) \in Seq(T)
    BY <1>2, <2>1
  <2> QED BY <2>2
<1> HIDE DEF Out
<1> QED BY <1>1, <1>7, <1>8, <1>9

\* The first rows of a sequence, as many as are wanted.
FirstRows(s, wanted) == SubSeq(s, 1, IF Len(s) < wanted THEN Len(s) ELSE wanted)

LEMMA FirstFits ==
  ASSUME NEW T, NEW s \in Seq(T), NEW w \in Nat
  PROVE  /\ FirstRows(s, w) \in Seq(T)
         /\ Len(FirstRows(s, w)) = IF Len(s) < w THEN Len(s) ELSE w
         /\ \A a \in 1..Len(FirstRows(s, w)) : FirstRows(s, w)[a] = s[a]
<1> DEFINE k == IF Len(s) < w THEN Len(s) ELSE w
<1>1. k \in 0..Len(s)
  OBVIOUS
<1> HIDE DEF k
<1>2. SubSeq(s, 1, k) \in Seq(T) /\ Len(SubSeq(s, 1, k)) = k /\ \A a \in 1..k : SubSeq(s, 1, k)[a] = s[a]
  BY <1>1, Beginnings
<1>3. FirstRows(s, w) = SubSeq(s, 1, k)
  BY DEF FirstRows, k
<1>4. k = IF Len(s) < w THEN Len(s) ELSE w
  BY DEF k
<1> QED BY <1>2, <1>3, <1>4

LEMMA FirstOfBeginning ==
  ASSUME NEW T, NEW p \in Seq(T), NEW q \in Seq(T), Starts(q, p), NEW w \in Nat, Len(q) >= w \/ q = p
  PROVE  FirstRows(q, w) = FirstRows(p, w)
<1>1. Len(q) \in Nat /\ Len(p) \in Nat /\ Len(q) <= Len(p)
  BY DEF Starts
<1>2. CASE q = p
  BY <1>2
<1>3. CASE Len(q) >= w
  <2>1. Len(FirstRows(q, w)) = w /\ Len(FirstRows(p, w)) = w /\ FirstRows(q, w) \in Seq(T) /\ FirstRows(p, w) \in Seq(T)
    BY <1>1, <1>3, FirstFits
  <2>2. \A a \in 1..w : FirstRows(q, w)[a] = q[a] /\ FirstRows(p, w)[a] = p[a]
    BY <2>1, FirstFits
  <2>3. \A a \in 1..w : a \in 1..Len(q)
    BY <1>1, <1>3
  <2>4. \A a \in 1..w : FirstRows(q, w)[a] = FirstRows(p, w)[a]
    BY <2>2, <2>3 DEF Starts
  <2> QED BY <2>1, <2>4, SeqEqual
<1> QED BY <1>2, <1>3

EligibleRows(l) == {rec \in RowsOfLane(l) : RowEligible(rec)}
Chunks(wanted) == IF wanted > Chunk THEN wanted ELSE Chunk
UpTo(n, size, k) == IF k * size < n THEN k * size ELSE n

LEMMA UpToFits ==
  ASSUME NEW n \in Nat, NEW size \in Nat, size > 0, NEW k \in Nat
  PROVE  /\ UpTo(n, size, k) \in 0..n /\ UpTo(n, size, 0) = 0
         /\ UpTo(n, size, n \div size + 1) = n
         /\ UpTo(n, size, k) <= UpTo(n, size, k + 1)
         /\ k * size \in Nat
         /\ n \div size + 1 \in Nat
<1>1. k * size \in Nat /\ (k + 1) * size = k * size + size
  OBVIOUS
<1>2. (n \div size + 1) * size >= n /\ n \div size + 1 \in Nat
  <2> DEFINE d == n \div size
             r == n % size
  <2>1. n = size * d + r /\ r < size /\ d \in Nat /\ r \in Nat
    OBVIOUS
  <2> HIDE DEF d, r
  <2>2. (d + 1) * size = size * d + size
    BY <2>1
  <2>3. size * d \in Nat
    BY <2>1
  <2> QED BY <2>1, <2>2, <2>3 DEF d
<1>3. 0 * size = 0
  OBVIOUS
<1> QED BY <1>1, <1>2, <1>3 DEF UpTo

LEMMA LaneRowsAre ==
  ASSUME NEW l \in Lane, NEW wanted \in Nat
  PROVE  MaterializedLaneRows(l, wanted) = FirstRows(Those(LaneOrder[l], EligibleRows(l)), wanted)
<1> DEFINE T == [scene : Scene, from : STRING]
           s == LaneOrder[l]
           S == EligibleRows(l)
           n == Len(s)
           V == Seq(T)
           size == Chunks(wanted)
           last == n \div size + 1
           chunk(k) == SubSeq(s, (k - 1) * size + 1, UpTo(n, size, k))
           Unfolded(g) == [k \in 0..last |-> IF k = 0 THEN <<>>
                                             ELSE IF Len(g[k - 1]) >= wanted THEN g[k - 1]
                                             ELSE g[k - 1] \o Those(chunk(k), S)]
           f == CHOOSE g : g = Unfolded(g)
           step == [k \in 0..last |-> [r \in V |-> IF k = 0 \/ Len(r) >= wanted THEN r ELSE r \o Those(chunk(k), S)]]
<1>1. s \in Seq(T) /\ n \in Nat /\ size \in Nat /\ size > 0
  <2>1. s \in Seq(T) /\ Chunk \in Nat /\ Chunk > 0
    <3>1. LaneOrder \in [Lane -> Seq(T)]
      BY SlatesAssumption
    <3>2. Chunk \in Nat \ {0}
      BY SlatesAssumption
    <3> HIDE DEF T
    <3> QED BY <3>1, <3>2
  <2> HIDE DEF s
  <2>2. n \in Nat
    BY <2>1
  <2> QED BY <2>1, <2>2 DEF Chunks
<1>2. last \in Nat /\ UpTo(n, size, 0) = 0 /\ UpTo(n, size, last) = n
  <2> HIDE DEF n, size
  <2> QED BY <1>1, UpToFits
<1>3. \A k \in Nat : UpTo(n, size, k) \in 0..n /\ UpTo(n, size, k) <= UpTo(n, size, k + 1) /\ k * size \in Nat
  <2> HIDE DEF n, size
  <2> QED BY <1>1, UpToFits
<1>4. LaneRows(l, wanted) = f[last]
  BY DEF LaneRows, EligibleRows, Chunks, UpTo
<1> HIDE DEF s, S, n, size
<1>5. \A i \in 0..n : Those(SubSeq(s, 1, i), S) \in V
  <2>1. \A i \in 0..Len(s) : Those(SubSeq(s, 1, i), S) \in Seq(T)
    BY <1>1, ThoseOfBeginnings
  <2> QED BY <2>1 DEF n
<1>6. \A i \in 0..n, j \in 0..n : i <= j => Those(SubSeq(s, 1, i), S) \o Those(SubSeq(s, i + 1, j), S) = Those(SubSeq(s, 1, j), S)
  <2>1. SUFFICES ASSUME NEW i \in 0..n, NEW j \in 0..n, i <= j
                 PROVE  Those(SubSeq(s, 1, i), S) \o Those(SubSeq(s, i + 1, j), S) = Those(SubSeq(s, 1, j), S)
    OBVIOUS
  <2>2. i \in 0..Len(s) /\ j \in i..Len(s)
    BY <1>1, <2>1 DEF n
  <2> QED BY <1>1, <2>2, ThoseOfParts
<1>7. \A k \in Nat : chunk(k + 1) = SubSeq(s, UpTo(n, size, k) + 1, UpTo(n, size, k + 1))
  <2>1. SUFFICES ASSUME NEW k \in Nat PROVE SubSeq(s, ((k + 1) - 1) * size + 1, UpTo(n, size, k + 1)) = SubSeq(s, UpTo(n, size, k) + 1, UpTo(n, size, k + 1))
    OBVIOUS
  <2>2. (k + 1) - 1 = k /\ k + 1 \in Nat
    OBVIOUS
  <2>3. CASE k * size < n
    BY <2>2, <2>3 DEF UpTo
  <2>4. CASE ~(k * size < n)
    <3>1. UpTo(n, size, k) = n /\ UpTo(n, size, k + 1) \in 0..n /\ UpTo(n, size, k) <= UpTo(n, size, k + 1)
      BY <1>3, <2>2, <2>4 DEF UpTo
    <3>2. UpTo(n, size, k + 1) = n
      BY <1>1, <3>1
    <3>3. \A a \in Nat : a > n => SubSeq(s, a, n) = <<>>
      BY <1>1, SubSeqEmpty
    <3>4. k * size + 1 \in Nat /\ k * size + 1 > n /\ n + 1 \in Nat /\ n + 1 > n
      BY <1>1, <1>3, <2>4
    <3>5. SubSeq(s, k * size + 1, n) = <<>> /\ SubSeq(s, n + 1, n) = <<>>
      BY <3>3, <3>4
    <3> QED BY <2>2, <3>1, <3>2, <3>5
  <2> QED BY <2>3, <2>4
<1>8. \A k \in Nat : Those(chunk(k + 1), S) \in V
  <2>1. SUFFICES ASSUME NEW k \in Nat PROVE Those(chunk(k + 1), S) \in V
    OBVIOUS
  <2> DEFINE c == chunk(k + 1)
  <2>2. c \in Seq(T)
    <3>1. k + 1 \in Nat
      OBVIOUS
    <3>2. UpTo(n, size, k) \in 0..n /\ UpTo(n, size, k + 1) \in 0..n
      BY <1>3, <3>1
    <3>3. \A i, j \in 0..n : \A a \in (i + 1)..j : s[a] \in T
      <4>1. \A a \in 1..n : s[a] \in T
        <5> HIDE DEF T
        <5> QED BY <1>1 DEF n
      <4>2. \A i, j \in 0..n : \A a \in (i + 1)..j : a \in 1..n
        BY <1>1
      <4> HIDE DEF T
      <4> QED BY <4>1, <4>2
    <3>4. \A i, j \in 0..n : SubSeq(s, i + 1, j) \in Seq(T)
      <4>1. SUFFICES ASSUME NEW i \in 0..n, NEW j \in 0..n PROVE SubSeq(s, i + 1, j) \in Seq(T)
        OBVIOUS
      <4>2. i + 1 \in Int /\ j \in Int /\ \A a \in (i + 1)..j : s[a] \in T
        BY <3>3
      <4> QED BY <4>2, SubSeqProperties
    <3>5. c = SubSeq(s, UpTo(n, size, k) + 1, UpTo(n, size, k + 1))
      BY <1>7
    <3> HIDE DEF c
    <3> QED BY <3>2, <3>4, <3>5
  <2> HIDE DEF c
  <2>3. \A u \in Seq(T) : Those(u, S) \in Seq(T)
    <3>1. SUFFICES ASSUME NEW u \in Seq(T) PROVE Those(u, S) \in Seq(T)
      OBVIOUS
    <3>2. Len(u) \in 0..Len(u) /\ SubSeq(u, 1, Len(u)) = u
      BY SubSeqFull
    <3> QED BY <3>2, ThoseOfBeginnings, ZenonT(40)
  <2> QED BY <2>2, <2>3 DEF c
<1> HIDE DEF chunk
<1>9. step \in [0..last -> [V -> V]]
  <2>1. ASSUME NEW k \in 0..last, NEW r \in V, k # 0 PROVE r \o Those(chunk(k), S) \in V
    <3>1. k - 1 \in Nat /\ (k - 1) + 1 = k
      BY <1>2, <2>1
    <3>2. Those(chunk(k), S) \in V
      BY <1>8, <3>1
    <3> QED BY <3>2
  <2> HIDE DEF V, last
  <2> QED BY <2>1
<1>10. PICK g \in [0..last -> V] : Follows(g, <<>>, step, 0, last)
  <2>1. 0 \in Int /\ last \in Int /\ <<>> \in V
    BY <1>2
  <2> HIDE DEF step, last, V
  <2> QED BY <1>9, <2>1, RecursionExists
<1>11. g = Unfolded(g)
  <2>1. \A k \in 0..last : k # 0 => g[k - 1] \in V
    <3> HIDE DEF V
    <3>1. \A k \in 0..last : k # 0 => k - 1 \in 0..last
      BY <1>2
    <3> QED BY <1>10, <3>1
  <2>2. \A k \in 0..last : k # 0 => step[k][g[k - 1]] = IF Len(g[k - 1]) >= wanted THEN g[k - 1] ELSE g[k - 1] \o Those(chunk(k), S)
    <3> HIDE DEF V, last
    <3> QED BY <2>1
  <2>3. g = [k \in 0..last |-> IF k = 0 THEN <<>> ELSE step[k][g[k - 1]]]
    BY <1>10 DEF Follows
  <2> HIDE DEF step, last, V
  <2> QED BY <2>2, <2>3
<1>12. f = Unfolded(f)
  BY <1>11
<1> HIDE DEF f
<1> DEFINE Part(m) == Those(SubSeq(s, 1, m), S)
           ReadsUpTo(k, m) == f[k] = Part(m) /\ (Len(f[k]) >= wanted \/ m = UpTo(n, size, k))
           X == {k \in 0..last : \E m \in 0..n : ReadsUpTo(k, m)}
<1>13. 0 \in X
  <2>1. f[0] = <<>> /\ 0 \in 0..last
    <3>1. 0 \in 0..last
      BY <1>2
    <3> HIDE DEF last
    <3> QED BY <1>12, <3>1
  <2>2. Part(0) = <<>>
    <3>1. 0 \in 0..Len(s)
      BY <1>1 DEF n
    <3> QED BY <1>1, <3>1, ThoseOfBeginnings
  <2>3. 0 \in 0..n
    BY <1>1
  <2> HIDE DEF Part, last
  <2>4. ReadsUpTo(0, 0)
    BY <1>2, <2>1, <2>2
  <2> QED BY <2>1, <2>3, <2>4
<1>14. ASSUME NEW k \in 0..last, k < last, k \in X PROVE k + 1 \in X
  <2>1. k + 1 \in 0..last /\ k \in Nat /\ k + 1 # 0 /\ (k + 1) - 1 = k
    BY <1>2, <1>14
  <2>2. f[k + 1] = IF Len(f[k]) >= wanted THEN f[k] ELSE f[k] \o Those(chunk(k + 1), S)
    <3> HIDE DEF last
    <3> QED BY <1>12, <2>1
  <2>3. PICK m \in 0..n : ReadsUpTo(k, m)
    BY <1>14
  <2>4. CASE Len(f[k]) >= wanted
    <3>1. ReadsUpTo(k + 1, m)
      <4> HIDE DEF Part
      <4> QED BY <2>2, <2>3, <2>4
    <3> HIDE DEF ReadsUpTo, last
    <3> QED BY <2>1, <3>1
  <2>5. CASE ~(Len(f[k]) >= wanted)
    <3> DEFINE i == UpTo(n, size, k)
               j == UpTo(n, size, k + 1)
    <3>1. m = i /\ f[k] = Part(i)
      <4> HIDE DEF Part
      <4> QED BY <2>3, <2>5
    <3>2. i \in 0..n /\ j \in 0..n /\ i <= j
      BY <1>3, <2>1
    <3>3. chunk(k + 1) = SubSeq(s, i + 1, j)
      BY <1>7, <2>1 DEF chunk
    <3> HIDE DEF i, j
    <3>4. f[k + 1] = Part(j)
      BY <1>6, <2>2, <2>5, <3>1, <3>2, <3>3
    <3>5. ReadsUpTo(k + 1, j)
      <4> HIDE DEF Part
      <4> QED BY <3>4 DEF j
    <3> HIDE DEF ReadsUpTo, last
    <3> QED BY <2>1, <3>2, <3>5
  <2> QED BY <2>4, <2>5
<1>15. \A k \in 0..last : k \in X
  <2>1. 0 \in Int /\ last \in Int
    BY <1>2
  <2> HIDE DEF X, last
  <2> QED BY <1>13, <1>14, <2>1, StepByStep
<1>16. PICK m \in 0..n : ReadsUpTo(last, m)
  <2>1. last \in 0..last
    BY <1>2
  <2> HIDE DEF ReadsUpTo, last
  <2> QED BY <1>15, <2>1
<1>17. Starts(Part(m), Those(s, S)) /\ Part(m) \in V /\ Those(s, S) \in V /\ Part(n) = Those(s, S)
  <2>1. m \in 0..Len(s) /\ n \in 0..Len(s)
    BY <1>1 DEF n
  <2>2. Starts(Part(m), Those(s, S)) /\ Part(m) \in V
    BY <1>1, <2>1, EarlierStarts, ThoseOfBeginnings
  <2>3. Part(n) \in V /\ Part(n) = Those(s, S)
    BY <1>1, <2>1, ThoseOfBeginnings DEF n
  <2> QED BY <2>2, <2>3
<1>18. Len(Part(m)) >= wanted \/ Part(m) = Those(s, S)
  <2> HIDE DEF Part, last
  <2> QED BY <1>2, <1>16, <1>17
<1>19. FirstRows(Part(m), wanted) = FirstRows(Those(s, S), wanted)
  <2> HIDE DEF Part
  <2> QED BY <1>17, <1>18, FirstOfBeginning
<1>20. MaterializedLaneRows(l, wanted) = FirstRows(f[last], wanted)
  <2> HIDE DEF last
  <2> QED BY <1>4 DEF MaterializedLaneRows, FirstRows
<1>21. f[last] = Part(m)
  <2> HIDE DEF Part, last
  <2> QED BY <1>16
<1> QED BY <1>19, <1>20, <1>21 DEF s, S

\* In a finite order each place is taken, by one.
LEMMA RanksAreThere ==
  ASSUME NEW N, IsFiniteSet(N), NEW R,
         \A s \in N : <<s, s>> \notin R,
         \A s, t \in N : s # t => <<s, t>> \in R \/ <<t, s>> \in R,
         \A r, s, t \in N : <<r, s>> \in R /\ <<s, t>> \in R => <<r, t>> \in R
  PROVE  /\ Cardinality(N) \in Nat
         /\ \A n \in 0..Cardinality(N) - 1 : \E s \in N : Cardinality({t \in N : <<t, s>> \in R}) = n
         /\ \A s \in N : Cardinality({t \in N : <<t, s>> \in R}) \in 0..Cardinality(N) - 1
         /\ \A s, t \in N : Cardinality({r \in N : <<r, s>> \in R}) = Cardinality({r \in N : <<r, t>> \in R}) => s = t
<1> DEFINE n == Cardinality(N)
           Ahead(s) == {t \in N : <<t, s>> \in R}
           place == [s \in N |-> Cardinality(Ahead(s))]
<1>1. n \in Nat
  BY FS_CardinalityType
<1>2. ASSUME NEW s \in N
      PROVE  IsFiniteSet(Ahead(s)) /\ Cardinality(Ahead(s)) \in 0..n - 1
  <2>1. Ahead(s) \in SUBSET (N \ {s})
    OBVIOUS
  <2>2. IsFiniteSet(N \ {s}) /\ Cardinality(N \ {s}) = n - 1
    BY <1>1, FS_RemoveElement
  <2>3. IsFiniteSet(Ahead(s)) /\ Cardinality(Ahead(s)) <= n - 1
    <3> DEFINE rest == N \ {s}
               A == Ahead(s)
    <3>1. A \in SUBSET rest /\ IsFiniteSet(rest) /\ Cardinality(rest) = n - 1
      BY <2>1, <2>2
    <3> HIDE DEF rest, A, n
    <3>2. IsFiniteSet(A) /\ Cardinality(A) <= Cardinality(rest)
      BY <3>1, FS_Subset
    <3> QED BY <3>1, <3>2 DEF A
  <2>4. Cardinality(Ahead(s)) \in Nat
    BY <2>3, FS_CardinalityType
  <2> HIDE DEF Ahead, n
  <2> QED BY <1>1, <2>3, <2>4
<1>3. ASSUME NEW s \in N, NEW t \in N, <<s, t>> \in R
      PROVE  Cardinality(Ahead(s)) < Cardinality(Ahead(t))
  <2>1. Ahead(s) \in SUBSET Ahead(t) /\ s \in Ahead(t) /\ s \notin Ahead(s)
    BY <1>3
  <2>2. /\ Cardinality(Ahead(s)) <= Cardinality(Ahead(t))
        /\ Cardinality(Ahead(s)) # Cardinality(Ahead(t))
    BY <1>2, <2>1, FS_Subset
  <2>3. Cardinality(Ahead(s)) \in Int /\ Cardinality(Ahead(t)) \in Int
    <3> HIDE DEF Ahead, n
    <3> QED BY <1>2
  <2> HIDE DEF Ahead
  <2> QED BY <2>2, <2>3
<1>4. ASSUME NEW s \in N, NEW t \in N, Cardinality(Ahead(s)) = Cardinality(Ahead(t)) PROVE s = t
  <2>1. Cardinality(Ahead(s)) \in Int /\ Cardinality(Ahead(t)) \in Int
    <3> HIDE DEF Ahead, n
    <3> QED BY <1>2
  <2>2. s # t => <<s, t>> \in R \/ <<t, s>> \in R
    OBVIOUS
  <2> HIDE DEF Ahead
  <2>3. <<s, t>> \in R => Cardinality(Ahead(s)) < Cardinality(Ahead(t))
    BY <1>3
  <2>4. <<t, s>> \in R => Cardinality(Ahead(t)) < Cardinality(Ahead(s))
    BY <1>3
  <2> QED BY <1>4, <2>1, <2>2, <2>3, <2>4
<1>5. place \in Injection(N, 0..n - 1)
  <2>1. place \in [N -> 0..n - 1]
    BY <1>2
  <2>2. \A s, t \in N : place[s] = place[t] => s = t
    BY <1>4
  <2> QED BY <2>1, <2>2 DEF Injection, IsInjective
<1>6. place \in Surjection(N, 0..n - 1)
  <2>1. IsFiniteSet(0..n - 1) /\ Cardinality(0..n - 1) = n
    <3>1. 0 \in Int /\ n - 1 \in Int
      BY <1>1
    <3>2. IsFiniteSet(0..n - 1) /\ Cardinality(0..n - 1) = IF 0 > n - 1 THEN 0 ELSE (n - 1) - 0 + 1
      BY <3>1, FS_Interval
    <3> HIDE DEF n
    <3> QED BY <1>1, <3>2
  <2> QED BY <1>5, <2>1, FS_Injection
<1>7. \A m \in 0..n - 1 : \E s \in N : Cardinality(Ahead(s)) = m
  BY <1>6 DEF Surjection
<1> QED BY <1>1, <1>2, <1>4, <1>7

-----------------------------------------------------------------------------
(* The draw.                                                                *)
DrawWeight(n, i) == 5 * n - 4 * (i - 1)
Sooner(p, i, j) ==
  \/ Luck[p[i].scene] * DrawWeight(Len(p), j) < Luck[p[j].scene] * DrawWeight(Len(p), i)
  \/ Luck[p[i].scene] * DrawWeight(Len(p), j) = Luck[p[j].scene] * DrawWeight(Len(p), i) /\ i < j
PeersOf(p, i) == {j \in 1..Len(p) : p[j].from = p[i].from}
SlotOf(p, i) == Cardinality({j \in PeersOf(p, i) : j < i})
RankOf(p, i, j) == Cardinality({k \in PeersOf(p, i) : Sooner(p, k, j)})
DrawnAt(p, i) == CHOOSE j \in PeersOf(p, i) : RankOf(p, i, j) = SlotOf(p, i)

LaneRow == [scene : Scene, from : STRING]

LEMMA Crossed ==
  ASSUME NEW a \in Nat, NEW b \in Nat, NEW c \in Nat,
         NEW x \in Nat \ {0}, NEW y \in Nat \ {0}, NEW z \in Nat \ {0}
  PROVE  /\ a * y <= b * x /\ b * z <= c * y => a * z <= c * x
         /\ a * y <= b * x /\ b * z <= c * y /\ a * z = c * x => a * y = b * x /\ b * z = c * y
<1> DEFINE ay == a * y
           bx == b * x
           bz == b * z
           cy == c * y
           az == a * z
           cx == c * x
<1>1. ay \in Nat /\ bx \in Nat /\ bz \in Nat /\ cy \in Nat /\ az \in Nat /\ cx \in Nat
  OBVIOUS
<1>2. ay * z = az * y /\ bx * z = bz * x /\ cy * x = cx * y
  OBVIOUS
<1> HIDE DEF ay, bx, bz, cy, az, cx
<1>3. ASSUME NEW u \in Nat, NEW v \in Nat, NEW w \in Nat \ {0} PROVE (u <= v <=> u * w <= v * w) /\ (u = v <=> u * w = v * w)
  OBVIOUS
<1>4. ASSUME ay <= bx, bz <= cy PROVE az <= cx
  <2>1. ay * z <= bx * z /\ bz * x <= cy * x
    BY <1>1, <1>3, <1>4
  <2>2. az * y <= cx * y
    <3>1. ay * z \in Int /\ bx * z \in Int /\ cy * x \in Int
      BY <1>1
    <3> QED BY <1>2, <2>1, <3>1
  <2> QED BY <1>1, <1>3, <2>2
<1>5. ASSUME ay <= bx, bz <= cy, az = cx PROVE ay = bx /\ bz = cy
  <2>1. ay * z <= bx * z /\ bz * x <= cy * x
    BY <1>1, <1>3, <1>5
  <2>2. ay * z = bx * z /\ bz * x = cy * x
    <3>1. ay * z \in Int /\ bx * z \in Int /\ cy * x \in Int /\ az * y = cx * y
      BY <1>1, <1>5
    <3> QED BY <1>2, <2>1, <3>1
  <2> QED BY <1>1, <1>3, <2>2
<1> QED BY <1>4, <1>5 DEF ay, bx, bz, cy, az, cx

LEMMA SoonerOrders ==
  ASSUME NEW p \in Seq(LaneRow)
  PROVE  /\ \A i \in 1..Len(p) : ~Sooner(p, i, i)
         /\ \A i, j \in 1..Len(p) : i # j => Sooner(p, i, j) \/ Sooner(p, j, i)
         /\ \A i, j, k \in 1..Len(p) : Sooner(p, i, j) /\ Sooner(p, j, k) => Sooner(p, i, k)
<1> DEFINE n == Len(p)
           luck(i) == Luck[p[i].scene]
           w(i) == DrawWeight(n, i)
<1>1. n \in Nat
  OBVIOUS
<1>2. ASSUME NEW i \in 1..n PROVE luck(i) \in Nat /\ w(i) \in Nat \ {0} /\ i \in Int
  <2>1. p[i] \in LaneRow
    <3> HIDE DEF LaneRow
    <3> QED OBVIOUS
  <2>2. p[i].scene \in Scene
    BY <2>1 DEF LaneRow
  <2>3. luck(i) \in Nat
    BY <2>2, SlatesAssumption
  <2>4. w(i) \in Nat \ {0}
    <3> HIDE DEF n
    <3> QED BY <1>1 DEF DrawWeight
  <2> QED BY <2>3, <2>4
<1>3. \A i, j \in 1..n : Sooner(p, i, j) <=> luck(i) * w(j) < luck(j) * w(i) \/ (luck(i) * w(j) = luck(j) * w(i) /\ i < j)
  <2>1. SUFFICES ASSUME NEW i \in 1..n, NEW j \in 1..n
                 PROVE Sooner(p, i, j) <=> luck(i) * w(j) < luck(j) * w(i) \/ (luck(i) * w(j) = luck(j) * w(i) /\ i < j)
    OBVIOUS
  <2> QED BY Zenon DEF Sooner
<1> HIDE DEF luck, w, n
<1>4. \A i, j \in 1..n : luck(i) * w(j) \in Nat
  BY <1>2
<1>5. \A i \in 1..n : ~Sooner(p, i, i)
  BY <1>2, <1>3, <1>4
<1>6. ASSUME NEW i \in 1..n, NEW j \in 1..n, i # j PROVE Sooner(p, i, j) \/ Sooner(p, j, i)
  <2> DEFINE ij == luck(i) * w(j)
             ji == luck(j) * w(i)
  <2>1. ij \in Nat /\ ji \in Nat /\ i \in Int /\ j \in Int
    BY <1>2, <1>4
  <2>2. (Sooner(p, i, j) <=> ij < ji \/ (ij = ji /\ i < j)) /\ (Sooner(p, j, i) <=> ji < ij \/ (ji = ij /\ j < i))
    BY <1>3
  <2> HIDE DEF ij, ji
  <2>3. i < j \/ j < i
    BY <1>6, <2>1
  <2>4. ij < ji \/ ji < ij \/ ij = ji
    BY <2>1
  <2> QED BY <2>2, <2>3, <2>4
<1>7. ASSUME NEW i \in 1..n, NEW j \in 1..n, NEW k \in 1..n, Sooner(p, i, j), Sooner(p, j, k) PROVE Sooner(p, i, k)
  <2> DEFINE ij == luck(i) * w(j)
             ji == luck(j) * w(i)
             jk == luck(j) * w(k)
             kj == luck(k) * w(j)
             ik == luck(i) * w(k)
             ki == luck(k) * w(i)
  <2>1. ij \in Nat /\ ji \in Nat /\ jk \in Nat /\ kj \in Nat /\ ik \in Nat /\ ki \in Nat
    BY <1>4
  <2>2. /\ ij <= ji /\ jk <= kj => ik <= ki
        /\ ij <= ji /\ jk <= kj /\ ik = ki => ij = ji /\ jk = kj
    <3> DEFINE a == luck(i)
               b == luck(j)
               c == luck(k)
               x == w(i)
               y == w(j)
               z == w(k)
    <3>1. a \in Nat /\ b \in Nat /\ c \in Nat /\ x \in Nat \ {0} /\ y \in Nat \ {0} /\ z \in Nat \ {0}
      BY <1>2
    <3> HIDE DEF a, b, c, x, y, z
    <3>2. /\ a * y <= b * x /\ b * z <= c * y => a * z <= c * x
          /\ a * y <= b * x /\ b * z <= c * y /\ a * z = c * x => a * y = b * x /\ b * z = c * y
      BY <3>1, Crossed
    <3> QED BY <3>2 DEF a, b, c, x, y, z
  <2>3. (ij < ji \/ (ij = ji /\ i < j)) /\ (jk < kj \/ (jk = kj /\ j < k))
    BY <1>3, <1>7
  <2> HIDE DEF ij, ji, jk, kj, ik, ki
  <2>4. ik < ki \/ (ik = ki /\ i < k)
    BY <1>2, <2>1, <2>2, <2>3
  <2> QED BY <1>3, <2>4 DEF ik, ki
<1> QED BY <1>5, <1>6, <1>7 DEF n

LEMMA DrawnIs ==
  ASSUME NEW p \in Seq(LaneRow)
  PROVE  /\ \A i \in 1..Len(p) : DrawnAt(p, i) \in PeersOf(p, i) /\ RankOf(p, i, DrawnAt(p, i)) = SlotOf(p, i)
         /\ \A i, j \in 1..Len(p) : DrawnAt(p, i) = DrawnAt(p, j) => i = j
<1> DEFINE n == Len(p)
<1>1. n \in Nat
  OBVIOUS
<1>2. \A i, j \in 1..n : p[i].from = p[j].from => PeersOf(p, i) = PeersOf(p, j)
  BY DEF PeersOf
<1>3. ASSUME NEW i \in 1..n
      PROVE  /\ \E j \in PeersOf(p, i) : RankOf(p, i, j) = SlotOf(p, i)
             /\ \A j \in PeersOf(p, i) : SlotOf(p, j) = SlotOf(p, i) => j = i
  <2> DEFINE N == PeersOf(p, i)
             R == {e \in N \X N : Sooner(p, e[1], e[2])}
             U == {e \in N \X N : e[1] < e[2]}
  <2>1. IsFiniteSet(N) /\ N \subseteq 1..n /\ i \in N
    <3>1. IsFiniteSet(1..n)
      BY <1>1, FS_Interval
    <3>2. N \in SUBSET (1..n) /\ i \in N
      BY DEF PeersOf
    <3> QED BY <3>1, <3>2, FS_Subset
  <2>2. N \subseteq Int
    BY <2>1
  <2> HIDE DEF N
  <2>3. \A s, t \in N : <<s, t>> \in R <=> Sooner(p, s, t)
    OBVIOUS
  <2>4. \A s, t \in N : <<s, t>> \in U <=> s < t
    OBVIOUS
  <2>5. /\ \A s \in N : <<s, s>> \notin R
        /\ \A s, t \in N : s # t => <<s, t>> \in R \/ <<t, s>> \in R
        /\ \A r, s, t \in N : <<r, s>> \in R /\ <<s, t>> \in R => <<r, t>> \in R
    BY <2>1, <2>3, SoonerOrders
  <2>6. /\ \A s \in N : <<s, s>> \notin U
        /\ \A s, t \in N : s # t => <<s, t>> \in U \/ <<t, s>> \in U
        /\ \A r, s, t \in N : <<r, s>> \in U /\ <<s, t>> \in U => <<r, t>> \in U
    BY <2>2, <2>4
  <2> HIDE DEF R, U
  <2>7. \A m \in 0..Cardinality(N) - 1 : \E s \in N : Cardinality({t \in N : <<t, s>> \in R}) = m
    BY <2>1, <2>5, RanksAreThere, ZenonT(60)
  <2>8. /\ \A s \in N : Cardinality({t \in N : <<t, s>> \in U}) \in 0..Cardinality(N) - 1
        /\ \A s, t \in N : Cardinality({r \in N : <<r, s>> \in U}) = Cardinality({r \in N : <<r, t>> \in U}) => s = t
    BY <2>1, <2>6, RanksAreThere, ZenonT(60)
  <2>9. \A s \in N : {t \in N : <<t, s>> \in R} = {t \in N : Sooner(p, t, s)}
    BY <2>3
  <2>10. \A s \in N : {t \in N : <<t, s>> \in U} = {t \in N : t < s}
    BY <2>4
  <2>11. \A j \in N : RankOf(p, i, j) = Cardinality({t \in N : <<t, j>> \in R})
    BY <2>9 DEF RankOf, N
  <2>12. \A j \in N : PeersOf(p, j) = N
    BY <2>1, <1>2 DEF N, PeersOf
  <2>13. \A j \in N : SlotOf(p, j) = Cardinality({t \in N : <<t, j>> \in U})
    BY <2>10, <2>12 DEF SlotOf
  <2>14. \E j \in N : RankOf(p, i, j) = SlotOf(p, i)
    BY <2>1, <2>7, <2>8, <2>11, <2>13
  <2>15. \A j \in N : SlotOf(p, j) = SlotOf(p, i) => j = i
    BY <2>1, <2>8, <2>13
  <2> QED BY <2>14, <2>15 DEF N
<1>4. \A i \in 1..n : DrawnAt(p, i) \in PeersOf(p, i) /\ RankOf(p, i, DrawnAt(p, i)) = SlotOf(p, i)
  <2>1. SUFFICES ASSUME NEW i \in 1..n PROVE DrawnAt(p, i) \in PeersOf(p, i) /\ RankOf(p, i, DrawnAt(p, i)) = SlotOf(p, i)
    OBVIOUS
  <2>2. \E j \in PeersOf(p, i) : RankOf(p, i, j) = SlotOf(p, i)
    BY <1>3
  <2> QED BY <2>2 DEF DrawnAt
<1>5. ASSUME NEW i \in 1..n, NEW j \in 1..n, DrawnAt(p, i) = DrawnAt(p, j) PROVE i = j
  <2>1. p[i].from = p[j].from
    BY <1>4, <1>5 DEF PeersOf
  <2>2. PeersOf(p, i) = PeersOf(p, j) /\ j \in PeersOf(p, i)
    BY <1>2, <2>1 DEF PeersOf
  <2>3. RankOf(p, i, DrawnAt(p, i)) = RankOf(p, j, DrawnAt(p, i))
    BY <2>2 DEF RankOf
  <2>4. SlotOf(p, i) = SlotOf(p, j)
    BY <1>4, <1>5, <2>3
  <2> QED BY <1>3, <2>2, <2>4
<1> QED BY <1>4, <1>5

LEMMA DrawPoolIs ==
  ASSUME NEW p \in Seq(LaneRow)
  PROVE  /\ DrawPool(p) \in Seq(LaneRow) /\ Len(DrawPool(p)) = Len(p)
         /\ \A i \in 1..Len(p) : /\ DrawnAt(p, i) \in 1..Len(p) /\ DrawPool(p)[i] = p[DrawnAt(p, i)]
                                 /\ DrawPool(p)[i].from = p[i].from
<1>1. DrawPool(p) = [i \in 1..Len(p) |-> p[DrawnAt(p, i)]]
  BY DEF DrawPool, DrawnAt, RankOf, SlotOf, PeersOf, Sooner, DrawWeight
<1>2. Len(p) \in Nat /\ \A i \in 1..Len(p) : p[i] \in LaneRow
  <2> HIDE DEF LaneRow
  <2> QED OBVIOUS
<1>3. \A i \in 1..Len(p) : DrawnAt(p, i) \in 1..Len(p) /\ p[DrawnAt(p, i)].from = p[i].from
  BY DrawnIs DEF PeersOf
<1>4. DrawPool(p) \in [1..Len(p) -> LaneRow]
  <2> HIDE DEF LaneRow
  <2> QED BY <1>1, <1>2, <1>3
<1>5. DrawPool(p) \in Seq(LaneRow) /\ Len(DrawPool(p)) = Len(p)
  <2> HIDE DEF LaneRow
  <2> QED BY <1>2, <1>4
<1> QED BY <1>1, <1>3, <1>5

\* Where a row of a drawn slate was.
DrawnFrom(rows, i) == IF i <= PoolSize(rows) THEN DrawnAt(SubSeq(rows, 1, PoolSize(rows)), i) ELSE i

\* As many rows as a draw looks at, when there are so many.
PoolRows ==
  LET pool == IF 5 * PageSize < MostPool THEN 5 * PageSize ELSE MostPool
  IN IF pool < LeastPool THEN LeastPool ELSE pool

LEMMA PoolSizeIs ==
  ASSUME NEW rows \in Seq(LaneRow)
  PROVE  /\ PoolRows \in Nat /\ PoolSize(rows) \in 0..Len(rows)
         /\ PoolSize(rows) = IF Len(rows) < PoolRows THEN Len(rows) ELSE PoolRows
<1>1. PageSize \in Nat /\ MostPool \in Nat /\ LeastPool \in Nat
  BY SlatesAssumption
<1>2. PoolRows \in Nat
  BY <1>1 DEF PoolRows
<1>3. PoolSize(rows) = IF Len(rows) < PoolRows THEN Len(rows) ELSE PoolRows
  BY DEF PoolSize, PoolRows
<1>4. Len(rows) \in Nat
  OBVIOUS
<1> QED BY <1>2, <1>3, <1>4

\* What is drawn are the rows, each once, and every lane's slots stay.
LEMMA DrawSlateIs ==
  ASSUME NEW rows \in Seq(LaneRow)
  PROVE  /\ DrawSlate(rows) \in Seq(LaneRow) /\ Len(DrawSlate(rows)) = Len(rows)
         /\ \A i \in 1..Len(rows) : /\ DrawnFrom(rows, i) \in 1..Len(rows)
                                    /\ DrawSlate(rows)[i] = rows[DrawnFrom(rows, i)]
                                    /\ DrawSlate(rows)[i].from = rows[i].from
         /\ \A i, j \in 1..Len(rows) : DrawnFrom(rows, i) = DrawnFrom(rows, j) => i = j
<1> DEFINE n == Len(rows)
           k == PoolSize(rows)
           p == SubSeq(rows, 1, k)
           rest == SubSeq(rows, k + 1, n)
           drawn == DrawPool(p)
           whole == DrawSlate(rows)
<1>1. n \in Nat /\ k \in 0..n
  BY PoolSizeIs
<1>2. p \in Seq(LaneRow) /\ Len(p) = k /\ \A i \in 1..k : p[i] = rows[i]
  BY <1>1, Beginnings
<1>3. rest \in Seq(LaneRow) /\ Len(rest) = n - k /\ \A i \in 1..n - k : rest[i] = rows[k + i]
  <2>1. \A a \in (k + 1)..n : rows[a] \in LaneRow
    <3>1. \A a \in (k + 1)..n : a \in 1..n
      BY <1>1
    <3> HIDE DEF LaneRow, k
    <3> QED BY <3>1
  <2>2. rest \in Seq(LaneRow) /\ Len(rest) = (IF k + 1 <= n THEN n - (k + 1) + 1 ELSE 0)
        /\ \A a \in 1..(n - (k + 1) + 1) : rest[a] = rows[(k + 1) + a - 1]
    <3>1. k + 1 \in Int /\ n \in Int
      BY <1>1
    <3> HIDE DEF k, n
    <3> QED BY <2>1, <3>1, SubSeqProperties
  <2>3. n - (k + 1) + 1 = n - k /\ \A a \in 1..n - k : (k + 1) + a - 1 = k + a
    BY <1>1
  <2>4. (IF k + 1 <= n THEN n - (k + 1) + 1 ELSE 0) = n - k
    BY <1>1
  <2> HIDE DEF rest, k, n
  <2> QED BY <2>2, <2>3, <2>4
<1>4. drawn \in Seq(LaneRow) /\ Len(drawn) = k
      /\ \A i \in 1..k : DrawnAt(p, i) \in 1..k /\ drawn[i] = p[DrawnAt(p, i)] /\ drawn[i].from = p[i].from
  BY <1>2, DrawPoolIs, ZenonT(60)
<1>5. \A i, j \in 1..k : DrawnAt(p, i) = DrawnAt(p, j) => i = j
  BY <1>2, DrawnIs
<1>6. whole = drawn \o rest
  BY DEF DrawSlate
<1>7. \A i \in 1..n : DrawnFrom(rows, i) = IF i <= k THEN DrawnAt(p, i) ELSE i
  BY DEF DrawnFrom
<1> HIDE DEF n, k, p, rest, drawn, whole
<1>8. whole \in Seq(LaneRow) /\ Len(whole) = n /\ \A i \in 1..n : whole[i] = IF i <= k THEN drawn[i] ELSE rest[i - k]
  <2> HIDE DEF LaneRow
  <2>1. whole \in Seq(LaneRow)
    BY <1>3, <1>4, <1>6
  <2>2. Len(whole) = k + (n - k) /\ \A i \in 1..(k + (n - k)) : whole[i] = IF i <= k THEN drawn[i] ELSE rest[i - k]
    <3>1. Len(drawn) = k /\ Len(rest) = n - k
      BY <1>3, <1>4
    <3>2. /\ Len(drawn \o rest) = Len(drawn) + Len(rest)
          /\ \A i \in 1..Len(drawn) + Len(rest) : (drawn \o rest)[i] = IF i <= Len(drawn) THEN drawn[i] ELSE rest[i - Len(drawn)]
      <4>1. drawn \in Seq(LaneRow) /\ rest \in Seq(LaneRow)
        BY <1>3, <1>4
      <4> QED BY ONLY <4>1, ConcatProperties
    <3> QED BY <1>6, <3>1, <3>2
  <2>3. k + (n - k) = n
    BY <1>1
  <2> QED BY <2>1, <2>2, <2>3
<1>9. ASSUME NEW i \in 1..n
      PROVE  /\ DrawnFrom(rows, i) \in 1..n /\ whole[i] = rows[DrawnFrom(rows, i)] /\ whole[i].from = rows[i].from
             /\ i <= k => DrawnFrom(rows, i) <= k
             /\ i > k => DrawnFrom(rows, i) > k
  <2>1. CASE i <= k
    <3>1. i \in 1..k /\ 1..k \subseteq 1..n
      BY <1>1, <2>1
    <3>2. DrawnAt(p, i) \in 1..k /\ drawn[i] = p[DrawnAt(p, i)] /\ drawn[i].from = p[i].from /\ p[i] = rows[i]
          /\ p[DrawnAt(p, i)] = rows[DrawnAt(p, i)]
      BY <1>2, <1>4, <3>1
    <3> QED BY <1>1, <1>7, <1>8, <2>1, <3>1, <3>2
  <2>2. CASE ~(i <= k)
    <3>1. i - k \in 1..n - k /\ k + (i - k) = i /\ i > k
      BY <1>1, <2>2
    <3>2. rest[i - k] = rows[i]
      BY <1>3, <3>1
    <3> QED BY <1>7, <1>8, <2>2, <3>1, <3>2
  <2> QED BY <2>1, <2>2
<1>10. ASSUME NEW i \in 1..n, NEW j \in 1..n, DrawnFrom(rows, i) = DrawnFrom(rows, j) PROVE i = j
  <2>1. CASE i <= k /\ j <= k
    BY <1>1, <1>5, <1>7, <1>10, <2>1
  <2>2. CASE ~(i <= k) /\ ~(j <= k)
    BY <1>7, <1>10, <2>2
  <2>3. DrawnFrom(rows, i) \in 1..n /\ DrawnFrom(rows, j) \in 1..n
    BY <1>9
  <2>4. (i <= k <=> DrawnFrom(rows, i) <= k) /\ (j <= k <=> DrawnFrom(rows, j) <= k)
    BY <1>1, <1>9, <2>3
  <2> QED BY <1>10, <2>1, <2>2, <2>4
<1> QED BY <1>8, <1>9, <1>10 DEF n, whole

LEMMA DrawnDiffer ==
  ASSUME NEW rows \in Seq(LaneRow), Differ(rows) PROVE Differ(DrawSlate(rows))
<1> DEFINE d == DrawSlate(rows)
<1>1. SUFFICES ASSUME NEW a \in 1..Len(d), NEW b \in 1..Len(d), d[a].scene = d[b].scene PROVE a = b
  BY DEF Differ
<1>2. Len(d) = Len(rows)
  BY DrawSlateIs
<1>3. /\ DrawnFrom(rows, a) \in 1..Len(rows) /\ d[a] = rows[DrawnFrom(rows, a)]
      /\ DrawnFrom(rows, b) \in 1..Len(rows) /\ d[b] = rows[DrawnFrom(rows, b)]
      /\ (DrawnFrom(rows, a) = DrawnFrom(rows, b) => a = b)
  BY <1>1, <1>2, DrawSlateIs
<1> QED BY <1>1, <1>3 DEF Differ

\* What a draw does with a beginning that has its whole pool, it does with the whole.
LEMMA DrawnBeginning ==
  ASSUME NEW p \in Seq(LaneRow), NEW q \in Seq(LaneRow), Starts(q, p), Len(q) >= PoolRows \/ q = p
  PROVE  Starts(DrawSlate(q), DrawSlate(p))
<1>1. Len(q) \in Nat /\ Len(p) \in Nat /\ Len(q) <= Len(p) /\ PoolRows \in Nat
  BY PoolSizeIs DEF Starts
<1>2. PoolSize(q) = PoolSize(p) /\ PoolSize(q) \in 0..Len(q)
  <2>1. CASE q = p
    BY <2>1, PoolSizeIs
  <2>2. CASE Len(q) >= PoolRows
    <3>1. PoolSize(q) = PoolRows /\ PoolSize(p) = PoolRows /\ PoolSize(q) \in 0..Len(q)
      BY <1>1, <2>2, PoolSizeIs
    <3> QED BY <3>1
  <2> QED BY <2>1, <2>2
<1> DEFINE k == PoolSize(p)
<1>3. SubSeq(q, 1, k) = SubSeq(p, 1, k)
  <2>1. k \in 0..Len(q) /\ k \in 0..Len(p)
    BY <1>1, <1>2
  <2> HIDE DEF k
  <2>2. /\ SubSeq(q, 1, k) \in Seq(LaneRow) /\ Len(SubSeq(q, 1, k)) = k /\ \A i \in 1..k : SubSeq(q, 1, k)[i] = q[i]
        /\ SubSeq(p, 1, k) \in Seq(LaneRow) /\ Len(SubSeq(p, 1, k)) = k /\ \A i \in 1..k : SubSeq(p, 1, k)[i] = p[i]
    BY <2>1, Beginnings
  <2>3. \A i \in 1..k : p[i] = q[i]
    BY <1>1, <2>1 DEF Starts
  <2>4. \A i \in 1..k : SubSeq(q, 1, k)[i] = SubSeq(p, 1, k)[i]
    BY <2>2, <2>3
  <2> QED BY <2>2, <2>4, SeqEqual
<1>4. ASSUME NEW i \in 1..Len(q) PROVE DrawSlate(p)[i] = DrawSlate(q)[i]
  <2>1. i \in 1..Len(p)
    BY <1>1
  <2>2. DrawnFrom(q, i) = DrawnFrom(p, i)
    BY <1>2, <1>3 DEF DrawnFrom
  <2>3. /\ DrawnFrom(q, i) \in 1..Len(q) /\ DrawSlate(q)[i] = q[DrawnFrom(q, i)]
        /\ DrawSlate(p)[i] = p[DrawnFrom(p, i)]
    BY <2>1, DrawSlateIs
  <2> QED BY <2>2, <2>3 DEF Starts
<1>5. Len(DrawSlate(q)) = Len(q) /\ Len(DrawSlate(p)) = Len(p)
  BY DrawSlateIs
<1> QED BY <1>1, <1>4, <1>5 DEF Starts

\* What a client is to see of a lane, and in which order.
ToShow(l, hiding) ==
  Those(LaneOrder[l], {rec \in RowsOfLane(l) : RowEligible(rec) /\ rec.scene \notin hiding})
Answered(l, hiding, drawn) == IF drawn THEN DrawSlate(ToShow(l, hiding)) ELSE ToShow(l, hiding)
NotHidden(l, hiding) == {rec \in RowsOfLane(l) : rec.scene \notin hiding}

LEMMA OrderIs ==
  ASSUME NEW l \in Lane
  PROVE  /\ LaneOrder[l] \in Seq(LaneRow) /\ Differ(LaneOrder[l])
         /\ \A i \in 1..Len(LaneOrder[l]) : LaneOrder[l][i] \in RowsOfLane(l)
<1>1. LaneOrder \in [Lane -> Seq(LaneRow)]
  BY SlatesAssumption DEF LaneRow
<1>2. LaneOrder[l] \in Seq(LaneRow)
  BY <1>1
<1>3. DOMAIN LaneOrder[l] = 1..Len(LaneOrder[l])
  BY <1>2
<1> QED BY <1>2, <1>3, SlatesAssumption DEF Differ, RowsOfLane

LEMMA ThoseIsSeq ==
  ASSUME NEW T, NEW s \in Seq(T), NEW S PROVE Those(s, S) \in Seq(T)
<1>1. Len(s) \in 0..Len(s) /\ SubSeq(s, 1, Len(s)) = s
  BY SubSeqFull
<1>2. Those(SubSeq(s, 1, Len(s)), S) \in Seq(T)
  BY <1>1, ThoseOfBeginnings
<1> QED BY <1>1, <1>2

LEMMA ShownIs ==
  ASSUME NEW l \in Lane, NEW hiding
  PROVE  /\ ToShow(l, hiding) \in Seq(LaneRow) /\ Differ(ToShow(l, hiding))
         /\ \A i \in 1..Len(ToShow(l, hiding)) : /\ RowEligible(ToShow(l, hiding)[i])
                                                /\ ToShow(l, hiding)[i].scene \notin hiding
<1> DEFINE s == LaneOrder[l]
           S == {rec \in RowsOfLane(l) : RowEligible(rec) /\ rec.scene \notin hiding}
<1>1. s \in Seq(LaneRow) /\ Differ(s)
  BY OrderIs
<1>2. Those(s, S) \in Seq(LaneRow)
  <2> HIDE DEF s, S
  <2> QED BY <1>1, ThoseIsSeq
<1>3. Differ(Those(s, S)) /\ \A a \in 1..Len(Those(s, S)) : Those(s, S)[a] \in S
  <2> HIDE DEF s, S
  <2> QED BY <1>1, ThoseDiffer
<1>4. \A a \in 1..Len(Those(s, S)) : RowEligible(Those(s, S)[a]) /\ Those(s, S)[a].scene \notin hiding
  BY <1>3
<1> QED BY <1>2, <1>3, <1>4 DEF ToShow

LEMMA AnsweredIs ==
  ASSUME NEW l \in Lane, NEW hiding, NEW drawn
  PROVE  /\ Answered(l, hiding, drawn) \in Seq(LaneRow) /\ Differ(Answered(l, hiding, drawn))
         /\ Len(Answered(l, hiding, drawn)) = Len(ToShow(l, hiding))
         /\ \A i \in 1..Len(Answered(l, hiding, drawn)) :
              /\ RowEligible(Answered(l, hiding, drawn)[i]) /\ Answered(l, hiding, drawn)[i].scene \notin hiding
              /\ Answered(l, hiding, drawn)[i].from = ToShow(l, hiding)[i].from
<1> DEFINE s == ToShow(l, hiding)
           d == DrawSlate(s)
<1>1. s \in Seq(LaneRow) /\ Differ(s) /\ \A i \in 1..Len(s) : RowEligible(s[i]) /\ s[i].scene \notin hiding
  BY ShownIs
<1>2. Answered(l, hiding, drawn) = IF drawn THEN d ELSE s
  BY DEF Answered
<1> HIDE DEF s
<1>3. d \in Seq(LaneRow) /\ Len(d) = Len(s) /\ Differ(d)
  BY <1>1, DrawSlateIs, DrawnDiffer
<1>4. \A i \in 1..Len(s) : RowEligible(d[i]) /\ d[i].scene \notin hiding /\ d[i].from = s[i].from
  BY <1>1, DrawSlateIs
<1> HIDE DEF d
<1> QED BY <1>1, <1>2, <1>3, <1>4 DEF s

LEMMA AskedFor ==
  ASSUME request.hiding \in Hiding, request.page \in Nat, request.drawn \in BOOLEAN
  PROVE  /\ RowsAsked \in Nat /\ Cardinality(request.hiding) \in Nat /\ request.page * PageSize \in Nat
         /\ RowsAsked >= request.page * PageSize + Cardinality(request.hiding)
         /\ request.drawn => RowsAsked >= PoolRows + Cardinality(request.hiding)
<1> DEFINE h == Cardinality(request.hiding)
           m == request.page * PageSize
<1>1. h \in Nat
  BY SlatesAssumption, FS_CardinalityType
<1>2. PageSize \in Nat /\ MostPool \in Nat /\ LeastPool \in Nat
  BY SlatesAssumption
<1>3. m \in Nat
  BY <1>2
<1>4. PoolRows \in Nat
  BY <1>2 DEF PoolRows
<1>5. RowsAsked = IF request.drawn /\ PoolRows + h > m + h THEN PoolRows + h ELSE m + h
  BY DEF RowsAsked, PoolRows
<1> HIDE DEF h, m
<1> QED BY <1>1, <1>3, <1>4, <1>5 DEF h, m

LEMMA RecommendedStarts ==
  ASSUME request.lane \in Lane, request.hiding \in Hiding, request.page \in Nat, request.drawn \in BOOLEAN
  PROVE  LET whole == Answered(request.lane, request.hiding, request.drawn)
         IN /\ Recommended \in Seq(LaneRow) /\ Starts(Recommended, whole)
            /\ Recommended = whole \/ Len(Recommended) >= request.page * PageSize
<1> DEFINE l == request.lane
           h == request.hiding
           s == LaneOrder[l]
           usable == Those(s, EligibleRows(l))
           W == RowsAsked
           firsts == FirstRows(usable, W)
           K == NotHidden(l, h)
           kept == Those(firsts, K)
           n == IF Len(usable) < W THEN Len(usable) ELSE W
           m == request.page * PageSize
           c == Cardinality(h)
           toShow == ToShow(l, h)
<1>1. s \in Seq(LaneRow) /\ Differ(s) /\ \A i \in 1..Len(s) : s[i] \in RowsOfLane(l)
  BY OrderIs
<1>2. W \in Nat /\ c \in Nat /\ m \in Nat /\ W >= m + c /\ (request.drawn => W >= PoolRows + c) /\ PoolRows \in Nat
  <2>1. PoolRows \in Nat
    <3>1. MostPool \in Nat /\ LeastPool \in Nat /\ PageSize \in Nat
      BY SlatesAssumption
    <3> QED BY <3>1 DEF PoolRows
  <2> QED BY <2>1, AskedFor
<1>3. Recommended = IF request.drawn THEN DrawSlate(kept) ELSE kept
  <2>1. MaterializedLaneRows(l, W) = firsts
    BY <1>2, LaneRowsAre
  <2> QED BY <2>1 DEF Recommended, NotHidden
<1>4. usable \in Seq(LaneRow) /\ Differ(usable) /\ \A a \in 1..Len(usable) : usable[a] \in RowsOfLane(l)
  <2>1. usable \in Seq(LaneRow)
    <3> HIDE DEF s
    <3> QED BY <1>1, ThoseIsSeq
  <2>2. Differ(usable) /\ \A a \in 1..Len(usable) : \E i \in 1..Len(s) : usable[a] = s[i]
    <3> HIDE DEF s
    <3> QED BY <1>1, ThoseDiffer
  <2> HIDE DEF usable, s
  <2> QED BY <1>1, <2>1, <2>2
<1>5. Those(usable, K) = toShow
  <2>1. Those(usable, K) = Those(s, EligibleRows(l) \cap K)
    <3> DEFINE A == EligibleRows(l)
    <3> HIDE DEF A, K, s
    <3>1. Those(Those(s, A), K) = Those(s, A \cap K)
      BY <1>1, ThoseOfThose
    <3> QED BY <3>1 DEF A
  <2>2. EligibleRows(l) \cap K = {rec \in RowsOfLane(l) : RowEligible(rec) /\ rec.scene \notin h}
    BY DEF EligibleRows, NotHidden
  <2> QED BY <2>1, <2>2 DEF ToShow
<1> HIDE DEF usable, W, K, s, toShow
<1>6. n \in 0..Len(usable) /\ firsts = SubSeq(usable, 1, n) /\ firsts \in Seq(LaneRow) /\ Len(firsts) = n /\ \A a \in 1..n : firsts[a] = usable[a]
  <2>1. n \in 0..Len(usable)
    BY <1>2, <1>4
  <2>2. firsts = SubSeq(usable, 1, n)
    BY DEF FirstRows
  <2> HIDE DEF firsts, n
  <2> QED BY <1>4, <2>1, <2>2, Beginnings
<1>7. kept \in Seq(LaneRow) /\ Starts(kept, toShow) /\ (n = Len(usable) => kept = toShow)
  <2> HIDE DEF n, firsts
  <2>1. Starts(Those(SubSeq(usable, 1, n), K), Those(usable, K))
    BY <1>4, <1>6, EarlierStarts
  <2>2. kept \in Seq(LaneRow)
    BY <1>6, ThoseIsSeq
  <2>3. n = Len(usable) => firsts = usable
    BY <1>4, <1>6, SubSeqFull
  <2> QED BY <1>5, <1>6, <2>1, <2>2, <2>3
<1>8. n <= Len(kept) + c
  <2> HIDE DEF n, firsts
  <2>1. Differ(firsts) /\ \A a \in 1..Len(firsts) : firsts[a] \in RowsOfLane(l)
    <3>1. \A a \in 1..n : a \in 1..Len(usable)
      BY <1>4, <1>6
    <3> QED BY <1>4, <1>6, <3>1 DEF Differ
  <2>2. \A a \in 1..Len(firsts) : firsts[a] \notin K => firsts[a].scene \in h
    BY <2>1 DEF K, NotHidden
  <2>3. IsFiniteSet(h)
    BY SlatesAssumption
  <2> HIDE DEF h
  <2>4. Len(firsts) <= Len(Those(firsts, K)) + Cardinality(h)
    BY <1>6, <2>1, <2>2, <2>3, ThoseCount
  <2> QED BY <1>6, <2>4
<1>9. toShow \in Seq(LaneRow)
  BY ShownIs DEF toShow
<1>10. kept = toShow \/ (Len(kept) >= m /\ (request.drawn => Len(kept) >= PoolRows))
  <2>1. Len(kept) \in Nat /\ Len(usable) \in Nat
    <3> HIDE DEF kept
    <3> QED BY <1>4, <1>7
  <2>2. n = Len(usable) \/ n = W
    OBVIOUS
  <2>3. ASSUME n = W PROVE Len(kept) >= m /\ (request.drawn => Len(kept) >= PoolRows)
    <3>1. W <= Len(kept) + c
      BY <1>8, <2>3
    <3> HIDE DEF kept, n, m, c
    <3> QED BY <1>2, <2>1, <3>1
  <2> QED BY <1>7, <2>2, <2>3
<1> HIDE DEF kept, n
<1>11. Answered(l, h, request.drawn) = IF request.drawn THEN DrawSlate(toShow) ELSE toShow
  BY DEF Answered, toShow
<1>12. CASE ~request.drawn
  BY <1>3, <1>7, <1>10, <1>11, <1>12
<1>13. CASE request.drawn
  <2>1. DrawSlate(kept) \in Seq(LaneRow) /\ Len(DrawSlate(kept)) = Len(kept)
    BY <1>7, DrawSlateIs
  <2>2. Starts(DrawSlate(kept), DrawSlate(toShow))
    BY <1>7, <1>9, <1>10, <1>13, DrawnBeginning
  <2> QED BY <1>3, <1>10, <1>11, <1>13, <2>1, <2>2
<1> QED BY <1>12, <1>13

\* A page has its part of the rows.
LEMMA PageIs ==
  ASSUME NEW p \in Seq(LaneRow), NEW page \in 1..2
  PROVE  LET last == IF Len(p) < page * PageSize THEN Len(p) ELSE page * PageSize
             first == (page - 1) * PageSize
             size == IF last < first THEN 0 ELSE last - first
         IN /\ first \in Nat /\ page * PageSize = first + PageSize
            /\ PageOf(p, page) \in Seq(LaneRow) /\ Len(PageOf(p, page)) = size
            /\ \A i \in 1..size : PageOf(p, page)[i] = p[first + i]
<1> DEFINE n == Len(p)
           m == page * PageSize
           last == IF n < m THEN n ELSE m
           first == (page - 1) * PageSize
           size == IF last < first THEN 0 ELSE last - first
<1>1. n \in Nat /\ PageSize \in Nat /\ PageSize > 0
  <2>1. PageSize \in Nat \ {0}
    BY SlatesAssumption
  <2> QED BY <2>1
<1>2. first \in Nat /\ m = first + PageSize
  <2>1. page = 1 \/ page = 2
    OBVIOUS
  <2>2. 0 * PageSize = 0 /\ 1 * PageSize = PageSize /\ 2 * PageSize = PageSize + PageSize
    BY <1>1
  <2>3. CASE page = 1
    BY <1>1, <2>2, <2>3
  <2>4. CASE page = 2
    BY <1>1, <2>2, <2>4
  <2> QED BY <2>1, <2>3, <2>4
<1>3. PageOf(p, page) = SubSeq(p, first + 1, last)
  BY DEF PageOf
<1> HIDE DEF n, first, m
<1>4. first + 1 \in Int /\ last \in Int /\ \A a \in (first + 1)..last : p[a] \in LaneRow
  <2>1. \A a \in (first + 1)..last : a \in 1..n
    BY <1>1, <1>2
  <2>2. \A a \in 1..n : p[a] \in LaneRow
    <3> HIDE DEF LaneRow
    <3> QED BY DEF n
  <2> HIDE DEF last
  <2>3. last \in Int
    BY <1>1, <1>2 DEF last
  <2> QED BY <1>2, <2>1, <2>2, <2>3
<1>5. /\ SubSeq(p, first + 1, last) \in Seq(LaneRow)
      /\ Len(SubSeq(p, first + 1, last)) = (IF first + 1 <= last THEN last - (first + 1) + 1 ELSE 0)
      /\ \A a \in 1..(last - (first + 1) + 1) : SubSeq(p, first + 1, last)[a] = p[(first + 1) + a - 1]
  <2> HIDE DEF last
  <2> QED BY ONLY <1>4, SubSeqProperties
<1>6. (IF first + 1 <= last THEN last - (first + 1) + 1 ELSE 0) = size /\ size \in Nat
      /\ \A a \in 1..size : a \in 1..(last - (first + 1) + 1) /\ (first + 1) + a - 1 = first + a
  <2>1. last \in Int
    BY <1>4
  <2> HIDE DEF last
  <2> QED BY <1>2, <2>1
<1> HIDE DEF last, size
<1>7. PageOf(p, page) \in Seq(LaneRow) /\ Len(PageOf(p, page)) = size /\ \A i \in 1..size : PageOf(p, page)[i] = p[first + i]
  BY <1>3, <1>5, <1>6
<1> QED BY <1>2, <1>7 DEF n, m, last, first, size

LEMMA PageOfBeginning ==
  ASSUME NEW p \in Seq(LaneRow), NEW q \in Seq(LaneRow), NEW page \in 1..2, Starts(q, p), q = p \/ Len(q) >= page * PageSize
  PROVE  PageOf(q, page) = PageOf(p, page)
<1> DEFINE first == (page - 1) * PageSize
           m == page * PageSize
<1>1. CASE q = p
  BY <1>1
<1>2. CASE Len(q) >= m
  <2>1. Len(q) \in Nat /\ Len(p) \in Nat /\ Len(q) <= Len(p) /\ PageSize \in Nat
    BY SlatesAssumption DEF Starts
  <2>2. first \in Nat /\ m = first + PageSize
    BY PageIs
  <2>3. \A r \in Seq(LaneRow) : Len(r) >= m => /\ PageOf(r, page) \in Seq(LaneRow) /\ Len(PageOf(r, page)) = PageSize
                                           /\ \A i \in 1..PageSize : PageOf(r, page)[i] = r[first + i]
    <3>1. SUFFICES ASSUME NEW r \in Seq(LaneRow), Len(r) >= m
                   PROVE  /\ PageOf(r, page) \in Seq(LaneRow) /\ Len(PageOf(r, page)) = PageSize
                          /\ \A i \in 1..PageSize : PageOf(r, page)[i] = r[first + i]
      OBVIOUS
    <3> DEFINE last == IF Len(r) < m THEN Len(r) ELSE m
               size == IF last < first THEN 0 ELSE last - first
    <3>2. /\ PageOf(r, page) \in Seq(LaneRow) /\ Len(PageOf(r, page)) = size
          /\ \A i \in 1..size : PageOf(r, page)[i] = r[first + i]
      BY PageIs
    <3>3. last = m
      <4>1. Len(r) \in Nat
        OBVIOUS
      <4> HIDE DEF m, first
      <4> QED BY <2>1, <2>2, <3>1, <4>1
    <3>4. size = PageSize
      <4> HIDE DEF last, m, first
      <4> QED BY <2>1, <2>2, <3>3
    <3> QED BY <3>2, <3>4
  <2>4. \A i \in 1..PageSize : first + i \in 1..Len(q)
    <3> HIDE DEF m, first
    <3> QED BY <1>2, <2>1, <2>2
  <2>5. Len(p) >= m
    <3> HIDE DEF m, first
    <3> QED BY <1>2, <2>1, <2>2
  <2>6. \A i \in 1..PageSize : PageOf(q, page)[i] = PageOf(p, page)[i]
    <3> HIDE DEF m, first
    <3> QED BY <1>2, <2>3, <2>4, <2>5 DEF Starts
  <2>7. PageOf(q, page) \in Seq(LaneRow) /\ Len(PageOf(q, page)) = PageSize /\ PageOf(p, page) \in Seq(LaneRow) /\ Len(PageOf(p, page)) = PageSize
    BY <1>2, <2>3, <2>5
  <2> QED BY <2>6, <2>7, SeqEqual
<1> QED BY <1>1, <1>2

\* Two pages make up the first rows.
LEMMA PagesJoin ==
  ASSUME NEW p \in Seq(LaneRow)
  PROVE  PageOf(p, 1) \o PageOf(p, 2) = FirstRows(p, 2 * PageSize)
<1> DEFINE a == PageOf(p, 1)
           b == PageOf(p, 2)
           n == Len(p)
           k == PageSize
           least(i, j) == IF i < j THEN i ELSE j
           c == FirstRows(p, 2 * k)
<1>1. n \in Nat /\ k \in Nat
  BY SlatesAssumption
<1>2. a \in Seq(LaneRow) /\ Len(a) = least(n, k) /\ \A i \in 1..least(n, k) : a[i] = p[i]
  <2>1. (1 - 1) * PageSize = 0 /\ 1 * PageSize = PageSize
    BY <1>1
  <2>2. 1 \in 1..2
    OBVIOUS
  <2> DEFINE last == IF n < 1 * PageSize THEN n ELSE 1 * PageSize
             first == (1 - 1) * PageSize
             size == IF last < first THEN 0 ELSE last - first
  <2>3. PageOf(p, 1) \in Seq(LaneRow) /\ Len(PageOf(p, 1)) = size /\ \A i \in 1..size : PageOf(p, 1)[i] = p[first + i]
    BY <2>2, PageIs
  <2>4. size = least(n, k) /\ \A i \in 1..size : first + i = i
    <3>1. first = 0
      BY <2>1
    <3>2. last = least(n, k)
      BY <2>1
    <3> HIDE DEF first, n, k
    <3>3. last \in Nat
      BY <1>1, <3>2
    <3> HIDE DEF last
    <3>4. size = last /\ \A i \in 1..size : first + i = i
      BY <3>1, <3>3
    <3> QED BY <3>2, <3>4
  <2> QED BY <2>3, <2>4
<1>3. b \in Seq(LaneRow) /\ Len(b) = least(n, 2 * k) - least(n, k) /\ \A i \in 1..Len(b) : b[i] = p[k + i]
  <2>1. (2 - 1) * PageSize = k
    BY <1>1
  <2>2. 2 \in 1..2
    OBVIOUS
  <2> DEFINE last == IF n < 2 * PageSize THEN n ELSE 2 * PageSize
             first == (2 - 1) * PageSize
             size == IF last < first THEN 0 ELSE last - first
  <2>3. PageOf(p, 2) \in Seq(LaneRow) /\ Len(PageOf(p, 2)) = size /\ \A i \in 1..size : PageOf(p, 2)[i] = p[first + i]
    BY <2>2, PageIs
  <2>4. size = least(n, 2 * k) - least(n, k)
    <3>1. first = k
      BY <2>1
    <3>2. last = least(n, 2 * k)
      OBVIOUS
    <3>3. 2 * k = k + k
      BY <1>1
    <3> HIDE DEF first, last, n, k
    <3> DEFINE m == 2 * k
    <3>4. last = least(n, m) /\ m = k + k
      BY <3>2, <3>3
    <3> HIDE DEF m
    <3>5. (IF last < first THEN 0 ELSE last - first) = least(n, m) - least(n, k)
      BY <1>1, <3>1, <3>4
    <3> QED BY <3>5 DEF m
  <2> HIDE DEF size
  <2> QED BY <2>1, <2>3, <2>4
<1>4. c \in Seq(LaneRow) /\ Len(c) = least(n, 2 * k) /\ \A i \in 1..least(n, 2 * k) : c[i] = p[i]
  <2>1. 2 * k \in Nat
    BY <1>1
  <2>2. c \in Seq(LaneRow) /\ Len(c) = least(n, 2 * k) /\ \A i \in 1..Len(c) : c[i] = p[i]
    BY <2>1, FirstFits
  <2> QED BY <2>2
<1> HIDE DEF a, b, c, n, k
<1>5. /\ a \o b \in Seq(LaneRow) /\ Len(a \o b) = Len(a) + Len(b)
      /\ \A i \in 1..Len(a) + Len(b) : (a \o b)[i] = IF i <= Len(a) THEN a[i] ELSE b[i - Len(a)]
  <2>1. a \in Seq(LaneRow) /\ b \in Seq(LaneRow)
    BY <1>2, <1>3
  <2> QED BY ONLY <2>1, ConcatProperties
<1>6. Len(a) + Len(b) = least(n, 2 * k) /\ Len(a) \in Nat /\ Len(b) \in Nat
  <2>1. Len(a) \in Nat /\ Len(b) \in Nat
    BY <1>2, <1>3
  <2> QED BY <1>1, <1>2, <1>3, <2>1
<1>7. ASSUME NEW i \in 1..least(n, 2 * k) PROVE (a \o b)[i] = c[i]
  <2>1. i \in Int /\ (a \o b)[i] = IF i <= Len(a) THEN a[i] ELSE b[i - Len(a)]
    <3> HIDE DEF least
    <3> QED BY <1>5, <1>6
  <2>2. c[i] = p[i]
    BY <1>4
  <2>3. CASE i <= Len(a)
    <3>1. i \in 1..least(n, k)
      <4>1. Len(a) = least(n, k)
        BY <1>2
      <4> HIDE DEF least
      <4> QED BY <1>6, <2>1, <2>3, <4>1
    <3> HIDE DEF least
    <3> QED BY <1>2, <2>1, <2>2, <2>3, <3>1
  <2>4. CASE ~(i <= Len(a))
    <3>1. Len(a) = k
      <4>1. Len(a) = least(n, k) /\ ~(i <= least(n, k))
        BY <1>2, <2>4
      <4> QED BY <1>1, <4>1
    <3>2. i - k \in 1..Len(b) /\ k + (i - k) = i
      <4> DEFINE z == least(n, 2 * k)
      <4>1. i \in 1..z /\ Len(a) + Len(b) = z
        BY <1>6
      <4> HIDE DEF z, least
      <4> QED BY <1>1, <1>6, <2>4, <3>1, <4>1
    <3> HIDE DEF least
    <3> QED BY <1>3, <2>1, <2>2, <2>4, <3>1, <3>2
  <2> QED BY <2>3, <2>4
<1>8. a \o b = c
  <2> HIDE DEF least
  <2> QED BY <1>4, <1>5, <1>6, <1>7, SeqEqual, SMTT(40)
<1> QED BY <1>8 DEF a, b, c, k

\* Rows of different scenes are as many as their scenes.
LEMMA DifferCounts ==
  ASSUME NEW T, NEW s \in Seq(T), Differ(s)
  PROVE  Cardinality({s[i].scene : i \in 1..Len(s)}) = Len(s)
<1> DEFINE n == Len(s)
           S == {s[i].scene : i \in 1..n}
           f == [i \in 1..n |-> s[i].scene]
<1>1. n \in Nat /\ IsFiniteSet(1..n) /\ Cardinality(1..n) = n
  <2>1. n \in Nat
    OBVIOUS
  <2>2. 1 \in Int /\ n \in Int
    BY <2>1
  <2>3. IsFiniteSet(1..n) /\ Cardinality(1..n) = IF 1 > n THEN 0 ELSE n - 1 + 1
    <3> HIDE DEF n
    <3> QED BY ONLY <2>2, FS_Interval
  <2> HIDE DEF n
  <2> QED BY <2>1, <2>3
<1>2. f \in Bijection(1..n, S)
  <2>1. \A i, j \in 1..n : f[i] = f[j] => i = j
    BY DEF Differ
  <2>2. f \in [1..n -> S] /\ \A x \in S : \E i \in 1..n : f[i] = x
    OBVIOUS
  <2> HIDE DEF f, S, n
  <2> QED BY <2>1, <2>2 DEF Bijection, Injection, IsInjective, Surjection
<1>3. ExistsBijection(1..n, S)
  BY <1>2 DEF ExistsBijection
<1>4. Cardinality(S) = n
  <2> HIDE DEF S, n
  <2> QED BY <1>1, <1>3, FS_Bijection
<1> QED BY <1>4

LEMMA FirstDiffer ==
  ASSUME NEW T, NEW s \in Seq(T), NEW w \in Nat, Differ(s) PROVE Differ(FirstRows(s, w))
<1>1. Len(FirstRows(s, w)) <= Len(s) /\ Len(FirstRows(s, w)) \in Nat /\ Len(s) \in Nat
  BY FirstFits
<1>2. \A a \in 1..Len(FirstRows(s, w)) : FirstRows(s, w)[a] = s[a]
  BY FirstFits
<1>3. \A a \in 1..Len(FirstRows(s, w)) : a \in 1..Len(s)
  BY <1>1
<1> QED BY <1>2, <1>3 DEF Differ

-----------------------------------------------------------------------------
(* Pages: each is its part of what its client is to see, as long as the     *)
(* facts stand still, and all are of one stream.                            *)
RequestIsSound ==
  request # NoRequest => /\ request.lane \in Lane /\ request.page \in 1..2
                         /\ request.hiding \in Hiding /\ request.drawn \in BOOLEAN

PageIsItsPart(p) ==
  /\ p.lane \in Lane /\ p.page \in 1..2
  /\ p.rows = PageOf(Answered(p.lane, p.hiding, p.drawn), p.page)

PagesInv ==
  /\ RequestIsSound
  /\ \A p \in pages : PageIsItsPart(p)
  /\ \A p, q \in pages : p.lane = q.lane /\ p.hiding = q.hiding /\ p.drawn = q.drawn

LEMMA EligibleStays ==
  ASSUME UNCHANGED factVars, NEW rec PROVE RowEligible(rec)' <=> RowEligible(rec)
BY DEF factVars, RowEligible, Eligible, Reasons, FirmReasons, Played, Unrecovered, NotNowActive, ThumbedDown,
       LatestRows, RowsOf, BlockedTags

LEMMA AnsweredStays ==
  ASSUME UNCHANGED factVars, NEW l, NEW hiding, NEW drawn
  PROVE  Answered(l, hiding, drawn)' = Answered(l, hiding, drawn)
<1> DEFINE S == {rec \in RowsOfLane(l) : RowEligible(rec) /\ rec.scene \notin hiding}
<1>1. S' = S
  BY EligibleStays DEF RowsOfLane
<1>2. ToShow(l, hiding) = Those(LaneOrder[l], S)
  BY DEF ToShow
<1>3. ToShow(l, hiding)' = Those(LaneOrder[l], S')
  BY DEF ToShow
<1> HIDE DEF S
<1>4. ToShow(l, hiding)' = ToShow(l, hiding)
  BY <1>1, <1>2, <1>3
<1> QED BY <1>4 DEF Answered

LEMMA PagesInit == InitSlates => PagesInv
BY DEF InitSlates, PagesInv, RequestIsSound

LEMMA PagesStay ==
  ASSUME PagesInv, UNCHANGED factVars, pages' \subseteq pages, request' = request PROVE PagesInv'
<1>1. \A p \in pages' : PageIsItsPart(p)'
  <2>1. SUFFICES ASSUME NEW p \in pages' PROVE PageIsItsPart(p)'
    OBVIOUS
  <2>2. PageIsItsPart(p)
    BY DEF PagesInv
  <2> QED BY <2>2, AnsweredStays DEF PageIsItsPart
<1> QED BY <1>1 DEF PagesInv, RequestIsSound

LEMMA PagesNext == PagesInv /\ [NextSlates]_<<factVars, slateVars>> => PagesInv'
<1> SUFFICES ASSUME PagesInv, [NextSlates]_<<factVars, slateVars>> PROVE PagesInv'
  OBVIOUS
<1>1. CASE UNCHANGED <<factVars, slateVars>>
  BY <1>1, PagesStay DEF slateVars
<1>2. CASE FactsChange /\ pages' = {} /\ UNCHANGED <<counts, request>>
  BY <1>2 DEF PagesInv, RequestIsSound
<1>3. ASSUME UNCHANGED factVars, NEW l \in Lane, NEW page \in 1..2, NEW hiding \in Hiding, NEW drawn \in BOOLEAN,
             AskSlate(l, page, hiding, drawn)
      PROVE  PagesInv'
  <2>1. /\ request'.lane = l /\ request'.page = page /\ request'.hiding = hiding /\ request'.drawn = drawn
        /\ pages' = pages
    BY <1>3 DEF AskSlate
  <2>2. RequestIsSound'
    BY <1>3, <2>1 DEF RequestIsSound
  <2>3. \A p \in pages : PageIsItsPart(p)'
    BY <1>3, AnsweredStays DEF PagesInv, PageIsItsPart
  <2> QED BY <2>1, <2>2, <2>3 DEF PagesInv
<1>4. ASSUME UNCHANGED factVars, UseCount \/ AvailableCount PROVE PagesInv'
  <2>1. request # NoRequest
    BY <1>4 DEF UseCount, AvailableCount, NoRequest
  <2>2. /\ request'.lane = request.lane /\ request'.page = request.page /\ request'.hiding = request.hiding
        /\ request'.drawn = request.drawn /\ pages' = pages
    <3>1. CASE UseCount
      BY <3>1 DEF UseCount
    <3>2. CASE AvailableCount
      BY <3>2 DEF AvailableCount
    <3> QED BY <1>4, <3>1, <3>2
  <2>3. RequestIsSound'
    BY <2>1, <2>2 DEF RequestIsSound, PagesInv
  <2>4. \A p \in pages : PageIsItsPart(p)'
    BY <1>4, AnsweredStays DEF PagesInv, PageIsItsPart
  <2> QED BY <2>2, <2>3, <2>4 DEF PagesInv
<1>5. ASSUME UNCHANGED factVars, ServeSlate PROVE PagesInv'
  <2> DEFINE new == [lane |-> request.lane, page |-> request.page, hiding |-> request.hiding, drawn |-> request.drawn,
                     rows |-> PageOf(Recommended, request.page)]
             whole == Answered(request.lane, request.hiding, request.drawn)
  <2>1. /\ request # NoRequest /\ request' = NoRequest /\ pages' = Stream \cup {new}
    BY <1>5 DEF ServeSlate, NoRequest
  <2>2. /\ request.lane \in Lane /\ request.page \in 1..2
        /\ request.hiding \in Hiding /\ request.drawn \in BOOLEAN
    BY <2>1 DEF PagesInv, RequestIsSound
  <2>3. PageIsItsPart(new)
    <3>1. request.page \in Nat
      BY <2>2
    <3>2. /\ Recommended \in Seq(LaneRow) /\ Starts(Recommended, whole)
          /\ Recommended = whole \/ Len(Recommended) >= request.page * PageSize
      BY <2>2, <3>1, RecommendedStarts
    <3>3. whole \in Seq(LaneRow)
      BY <2>2, AnsweredIs
    <3> HIDE DEF whole
    <3>4. PageOf(Recommended, request.page) = PageOf(whole, request.page)
      BY <2>2, <3>2, <3>3, PageOfBeginning
    <3> QED BY <2>2, <3>4 DEF PageIsItsPart, whole
  <2> HIDE DEF new
  <2>4. ASSUME NEW p \in pages' PROVE PageIsItsPart(p)'
    <3>1. PageIsItsPart(p)
      BY <2>1, <2>3 DEF PagesInv, Stream
    <3> QED BY <1>5, <3>1, AnsweredStays DEF PageIsItsPart
  <2>5. \A p \in pages' : p.lane = request.lane /\ p.hiding = request.hiding /\ p.drawn = request.drawn
    BY <2>1 DEF Stream, new
  <2>6. RequestIsSound'
    BY <2>1 DEF RequestIsSound
  <2> QED BY <2>4, <2>5, <2>6 DEF PagesInv
<1> QED BY <1>1, <1>2, <1>3, <1>4, <1>5 DEF NextSlates

LEMMA PagesInvFits == PagesInv => PagesFit
<1> SUFFICES ASSUME PagesInv PROVE PagesFit
  OBVIOUS
<1>1. ASSUME NEW p \in pages
      PROVE  \A i \in DOMAIN p.rows : RowEligible(p.rows[i]) /\ p.rows[i].scene \notin p.hiding
  <2> DEFINE whole == Answered(p.lane, p.hiding, p.drawn)
             first == (p.page - 1) * PageSize
             last == IF Len(whole) < p.page * PageSize THEN Len(whole) ELSE p.page * PageSize
             size == IF last < first THEN 0 ELSE last - first
  <2>1. p.lane \in Lane /\ p.page \in 1..2 /\ p.rows = PageOf(whole, p.page)
    BY DEF PagesInv, PageIsItsPart
  <2>2. whole \in Seq(LaneRow) /\ \A i \in 1..Len(whole) : RowEligible(whole[i]) /\ whole[i].scene \notin p.hiding
    BY <2>1, AnsweredIs
  <2> HIDE DEF whole
  <2>3. /\ first \in Nat /\ p.page * PageSize = first + PageSize /\ p.rows \in Seq(LaneRow) /\ Len(p.rows) = size
        /\ \A i \in 1..size : p.rows[i] = whole[first + i]
    <3> DEFINE page == p.page
    <3>1. page \in 1..2 /\ whole \in Seq(LaneRow) /\ p.rows = PageOf(whole, page)
      BY <2>1, <2>2
    <3> DEFINE f == (page - 1) * PageSize
               k == IF Len(whole) < page * PageSize THEN Len(whole) ELSE page * PageSize
               z == IF k < f THEN 0 ELSE k - f
    <3> HIDE DEF page
    <3>2. /\ f \in Nat /\ page * PageSize = f + PageSize
          /\ PageOf(whole, page) \in Seq(LaneRow) /\ Len(PageOf(whole, page)) = z
          /\ \A i \in 1..z : PageOf(whole, page)[i] = whole[f + i]
      BY <3>1, PageIs
    <3> HIDE DEF f, k, z
    <3>3. /\ f \in Nat /\ page * PageSize = f + PageSize /\ p.rows \in Seq(LaneRow) /\ Len(p.rows) = z
          /\ \A i \in 1..z : p.rows[i] = whole[f + i]
      BY <3>1, <3>2
    <3> QED BY <3>3 DEF page, f, k, z
  <2>4. Len(whole) \in Nat /\ PageSize \in Nat
    BY <2>2, SlatesAssumption
  <2>5. DOMAIN p.rows = 1..size
    <3> HIDE DEF size
    <3> QED BY <2>3
  <2>6. \A i \in 1..size : first + i \in 1..Len(whole)
    <3> DEFINE m == p.page * PageSize
    <3>1. m = first + PageSize
      BY <2>3
    <3> HIDE DEF m, first
    <3> QED BY <2>3, <2>4, <3>1 DEF m
  <2> HIDE DEF size, first
  <2> QED BY <2>2, <2>3, <2>5, <2>6
<1>2. ASSUME NEW p \in pages, NEW q \in pages, p.page = 1, q.page = 2
      PROVE  LET toShow == Those(LaneOrder[p.lane], {rec \in RowsOfLane(p.lane) :
                                                     RowEligible(rec) /\ rec.scene \notin p.hiding})
                 both == p.rows \o q.rows
                 size == Len(both)
             IN   /\ size = IF Len(toShow) < 2 * PageSize THEN Len(toShow) ELSE 2 * PageSize
                  /\ Cardinality({both[i].scene : i \in 1..size}) = size
                  /\ \A i \in 1..size : both[i].from = toShow[i].from
  <2> DEFINE whole == Answered(p.lane, p.hiding, p.drawn)
             toShow == ToShow(p.lane, p.hiding)
             both == p.rows \o q.rows
             w == 2 * PageSize
  <2>1. p.lane \in Lane /\ p.rows = PageOf(whole, 1) /\ q.rows = PageOf(whole, 2)
    BY <1>2 DEF PagesInv, PageIsItsPart
  <2>2. whole \in Seq(LaneRow) /\ Differ(whole) /\ Len(whole) = Len(toShow)
        /\ \A i \in 1..Len(whole) : whole[i].from = toShow[i].from
    BY <2>1, AnsweredIs
  <2>3. w \in Nat
    <3>1. PageSize \in Nat
      BY SlatesAssumption
    <3> QED BY <3>1
  <2>4. toShow \in Seq(LaneRow)
    BY <2>1, ShownIs
  <2> HIDE DEF whole, toShow
  <2>5. both = FirstRows(whole, w)
    BY <2>1, <2>2, PagesJoin
  <2> HIDE DEF both, w
  <2>6. /\ both \in Seq(LaneRow) /\ Len(both) = (IF Len(whole) < w THEN Len(whole) ELSE w)
        /\ \A i \in 1..Len(both) : both[i] = whole[i]
    BY <2>2, <2>3, <2>5, FirstFits
  <2>7. Differ(both)
    BY <2>2, <2>3, <2>5, FirstDiffer
  <2>8. Cardinality({both[i].scene : i \in 1..Len(both)}) = Len(both)
    BY <2>6, <2>7, DifferCounts
  <2>9. \A i \in 1..Len(both) : i \in 1..Len(whole)
    <3>1. Len(whole) \in Nat
      BY <2>2
    <3> QED BY <2>3, <2>6, <3>1
  <2>10. \A i \in 1..Len(both) : both[i].from = toShow[i].from
    BY <2>2, <2>6, <2>9
  <2>11. Len(both) = IF Len(toShow) < w THEN Len(toShow) ELSE w
    BY <2>2, <2>6
  <2> QED BY <2>8, <2>10, <2>11 DEF both, toShow, w, ToShow
<1> QED BY <1>1, <1>2 DEF PagesFit


LEMMA ImageIsFinite ==
  ASSUME NEW S, IsFiniteSet(S), NEW f, DOMAIN f = S PROVE IsFiniteSet({f[x] : x \in S})
<1> DEFINE T == {f[x] : x \in S}
           g == [x \in S |-> f[x]]
<1>1. g \in Surjection(S, T)
  BY DEF Surjection
<1> HIDE DEF g, T
<1>2. IsFiniteSet(T)
  BY <1>1, FS_Surjection
<1> QED BY <1>2 DEF T

\* In a finite order one is the first.
LEMMA FirstInOrder ==
  ASSUME NEW N, IsFiniteSet(N), N # {}, NEW R,
         \A s \in N : <<s, s>> \notin R,
         \A s, t \in N : s # t => <<s, t>> \in R \/ <<t, s>> \in R,
         \A r, s, t \in N : <<r, s>> \in R /\ <<s, t>> \in R => <<r, t>> \in R
  PROVE  \E s \in N : \A t \in N : <<t, s>> \notin R
<1>1. Cardinality(N) \in Nat /\ \A n \in 0..Cardinality(N) - 1 : \E s \in N : Cardinality({t \in N : <<t, s>> \in R}) = n
  BY RanksAreThere, ZenonT(40)
<1>2. Cardinality(N) # 0
  BY FS_EmptySet
<1>3. PICK s \in N : Cardinality({t \in N : <<t, s>> \in R}) = 0
  <2>1. 0 \in 0..Cardinality(N) - 1
    BY <1>1, <1>2
  <2> QED BY <1>1, <2>1
<1> DEFINE A == {t \in N : <<t, s>> \in R}
<1>4. A \in SUBSET N /\ Cardinality(A) = 0
  BY <1>3
<1> HIDE DEF A
<1>5. IsFiniteSet(A)
  BY <1>4, FS_Subset
<1>6. A = {}
  BY <1>4, <1>5, FS_EmptySet
<1> QED BY <1>6 DEF A

\* Of finitely many numbers one is the greatest.
LEMMA GreatestOf ==
  ASSUME NEW S, IsFiniteSet(S), S # {}, S \subseteq Int
  PROVE  Max(S) \in S
<1> DEFINE R == {e \in S \X S : e[1] > e[2]}
<1>1. \A s, t \in S : <<s, t>> \in R <=> s > t
  OBVIOUS
<1>2. /\ \A s \in S : <<s, s>> \notin R
      /\ \A s, t \in S : s # t => <<s, t>> \in R \/ <<t, s>> \in R
      /\ \A r, s, t \in S : <<r, s>> \in R /\ <<s, t>> \in R => <<r, t>> \in R
  BY <1>1
<1> HIDE DEF R
<1>6. PICK s \in S : \A t \in S : <<t, s>> \notin R
  BY <1>2, FirstInOrder
<1>7. ASSUME NEW t \in S PROVE s >= t
  <2>1. <<t, s>> \notin R
    BY <1>6
  <2>2. ~(t > s) /\ s \in Int /\ t \in Int
    BY <1>1, <2>1
  <2> QED BY <2>2
<1> QED BY <1>7 DEF Max

\* Of finitely many that have two numbers each one is the first.
LEMMA BestOf ==
  ASSUME NEW S, IsFiniteSet(S), S # {}, NEW u \in [S -> Int], NEW v \in [S -> Int]
  PROVE  \E c \in S : \A d \in S \ {c} : u[c] > u[d] \/ (u[c] = u[d] /\ v[c] <= v[d])
<1> DEFINE K == {<<u[c], v[c]>> : c \in S}
           R == {e \in K \X K : e[1][1] > e[2][1] \/ (e[1][1] = e[2][1] /\ e[1][2] < e[2][2])}
<1>1. K # {} /\ \A k \in K : k[1] \in Int /\ k[2] \in Int /\ k = <<k[1], k[2]>>
  <2>1. ASSUME NEW k \in K PROVE k[1] \in Int /\ k[2] \in Int /\ k = <<k[1], k[2]>>
    <3>1. PICK c \in S : k = <<u[c], v[c]>>
      OBVIOUS
    <3>2. u[c] \in Int /\ v[c] \in Int
      OBVIOUS
    <3> QED BY <3>1, <3>2
  <2>2. K # {}
    OBVIOUS
  <2> QED BY <2>1, <2>2
<1>2. IsFiniteSet(K)
  <2> DEFINE key == [c \in S |-> <<u[c], v[c]>>]
  <2>1. K = {key[c] : c \in S} /\ DOMAIN key = S
    OBVIOUS
  <2> HIDE DEF key, K
  <2> QED BY <2>1, ImageIsFinite
<1>3. \A s, t \in K : <<s, t>> \in R <=> s[1] > t[1] \/ (s[1] = t[1] /\ s[2] < t[2])
  OBVIOUS
<1>0. \A c \in S : <<u[c], v[c]>> \in K
  OBVIOUS
<1>00. \A k \in K : \E c \in S : k = <<u[c], v[c]>>
  OBVIOUS
<1> HIDE DEF R, K
<1>4. /\ \A s \in K : <<s, s>> \notin R
      /\ \A s, t \in K : s # t => <<s, t>> \in R \/ <<t, s>> \in R
      /\ \A r, s, t \in K : <<r, s>> \in R /\ <<s, t>> \in R => <<r, t>> \in R
  <2>1. \A s \in K : <<s, s>> \notin R
    BY <1>1, <1>3
  <2>2. ASSUME NEW s \in K, NEW t \in K, s # t PROVE <<s, t>> \in R \/ <<t, s>> \in R
    <3>1. s[1] # t[1] \/ s[2] # t[2]
      BY <1>1, <2>2
    <3> QED BY <1>1, <1>3, <3>1
  <2>3. ASSUME NEW r \in K, NEW s \in K, NEW t \in K, <<r, s>> \in R, <<s, t>> \in R PROVE <<r, t>> \in R
    BY <1>1, <1>3, <2>3
  <2> QED BY <2>1, <2>2, <2>3
<1>8. PICK k \in K : \A t \in K : <<t, k>> \notin R
  BY <1>1, <1>2, <1>4, FirstInOrder
<1>9. PICK c \in S : k = <<u[c], v[c]>>
  BY <1>00
<1>10. ASSUME NEW d \in S PROVE u[c] > u[d] \/ (u[c] = u[d] /\ v[c] <= v[d])
  <2> DEFINE e == <<u[d], v[d]>>
  <2>1. e \in K /\ <<e, k>> \notin R
    BY <1>0, <1>8
  <2>2. ~(e[1] > k[1] \/ (e[1] = k[1] /\ e[2] < k[2]))
    <3> HIDE DEF e
    <3> QED BY <1>3, <2>1
  <2>3. e[1] = u[d] /\ e[2] = v[d] /\ k[1] = u[c] /\ k[2] = v[c]
    BY <1>9
  <2>4. u[c] \in Int /\ u[d] \in Int /\ v[c] \in Int /\ v[d] \in Int
    OBVIOUS
  <2> HIDE DEF e
  <2> QED BY <2>2, <2>3, <2>4
<1> QED BY <1>10

-----------------------------------------------------------------------------
(* Greedy slates.                                                           *)

LEMMA RangeIs ==
  ASSUME NEW T, NEW s \in Seq(T)
  PROVE  IsFiniteSet(Range(s)) /\ Range(s) \subseteq T /\ \A d : d \in Range(s) <=> \E i \in 1..Len(s) : d = s[i]
<1>1. DOMAIN s = 1..Len(s) /\ Len(s) \in Nat /\ \A i \in 1..Len(s) : s[i] \in T
  OBVIOUS
<1>2. IsFiniteSet(1..Len(s))
  BY <1>1, FS_Interval
<1>3. IsFiniteSet({s[i] : i \in 1..Len(s)})
  <2> DEFINE D == 1..Len(s)
  <2>1. IsFiniteSet(D) /\ DOMAIN s = D
    BY <1>1, <1>2
  <2> HIDE DEF D
  <2>2. IsFiniteSet({s[i] : i \in D})
    BY <2>1, ImageIsFinite
  <2> QED BY <2>2 DEF D
<1>4. Range(s) = {s[i] : i \in 1..Len(s)}
  BY <1>1 DEF Range
<1> QED BY <1>1, <1>3, <1>4

\* The greatest likeness of a scene to some is a number.
LEMMA GreatestIsNat ==
  ASSUME NEW S, IsFiniteSet(S), S \subseteq Nat PROVE Max({0} \cup S) \in Nat
<1>1. IsFiniteSet({0} \cup S)
  BY FS_Singleton, FS_Union
<1>2. {0} \cup S # {} /\ {0} \cup S \subseteq Int /\ {0} \cup S \subseteq Nat
  OBVIOUS
<1>3. Max({0} \cup S) \in {0} \cup S
  BY <1>1, <1>2, GreatestOf
<1> QED BY <1>2, <1>3

LEMMA UtilityIsInt ==
  ASSUME NEW c \in Candidate, NEW selected \in Seq(Candidate)
  PROVE  GreedyUtility(c, selected) \in Int
<1>1. c.value \in Int /\ c.scene \in Scene /\ IsFiniteSet(c.content) /\ \A d \in Candidate : d.scene \in Scene
  BY GreedyAssumption
<1>2. Bonus(c, selected) \in Int
  <2> DEFINE covered == UNION {d.content : d \in Range(selected)}
             a == Cardinality(c.content \ covered)
             b == Cardinality(c.content)
  <2>1. a \in Nat /\ b \in Nat
    BY <1>1, FS_Difference, FS_CardinalityType
  <2>2. c.content # {} => b # 0
    BY <1>1, FS_EmptySet
  <2>3. Bonus(c, selected) = IF c.content = {} THEN 0 ELSE (3 * a) \div b
    BY DEF Bonus
  <2> HIDE DEF a, b
  <2>4. b # 0 => (3 * a) \div b \in Int
    BY <2>1
  <2> QED BY <2>2, <2>3, <2>4
<1>3. Penalty(c, selected) \in Int
  <2> DEFINE S == {Likeness[c.scene][d.scene] : d \in Range(selected)}
             R == {Likeness[c.scene][s] : s \in Recent}
             m == Max({0} \cup S)
             r == Max({0} \cup R)
  <2>1. IsFiniteSet(Range(selected)) /\ Range(selected) \subseteq Candidate
    BY RangeIs
  <2>2. Likeness[c.scene] \in [Scene -> Nat]
    BY <1>1, GreedyAssumption
  <2>3. m \in Nat
    <3> DEFINE f == [d \in Range(selected) |-> Likeness[c.scene][d.scene]]
    <3>1. S = {f[d] : d \in Range(selected)} /\ DOMAIN f = Range(selected)
      OBVIOUS
    <3>2. S \subseteq Nat
      BY <1>1, <2>1, <2>2
    <3> HIDE DEF f, S
    <3>3. IsFiniteSet(S)
      BY <2>1, <3>1, ImageIsFinite
    <3> QED BY <3>2, <3>3, GreatestIsNat
  <2>4. r \in Nat
    <3> DEFINE f == [s \in Recent |-> Likeness[c.scene][s]]
    <3>1. R = {f[s] : s \in Recent} /\ DOMAIN f = Recent
      OBVIOUS
    <3>2. R \subseteq Nat /\ IsFiniteSet(Recent)
      BY <2>2, GreedyAssumption
    <3> HIDE DEF f, R
    <3>3. IsFiniteSet(R)
      BY <3>1, <3>2, ImageIsFinite
    <3> QED BY <3>2, <3>3, GreatestIsNat
  <2> HIDE DEF m, r
  <2>5. (14 * m) \div 4 \in Int /\ (5 * r) \div 4 \in Int
    BY <2>3, <2>4
  <2>6. LiveCooldown(c.scene) \in Int
    BY DEF LiveCooldown
  <2> DEFINE x == IF ShareAny(c.performers, UNION {d.performers : d \in Range(selected)}) THEN 6 ELSE 0
             y == IF c.studio \in {d.studio : d \in Range(selected)} \ {""} THEN 8 ELSE 0
             z == IF ShareAny(c.performers, HistoryPerformers) THEN 4 ELSE 0
             w == IF c.studio \in HistoryStudios THEN 3 ELSE 0
             g == (14 * m) \div 4
             h == (5 * r) \div 4
             k == LiveCooldown(c.scene)
  <2>7. Penalty(c, selected) = x + y + g + z + w + h + k
    BY DEF Penalty, m, r
  <2>8. x \in Int /\ y \in Int /\ z \in Int /\ w \in Int /\ g \in Int /\ h \in Int /\ k \in Int
    BY <2>5, <2>6
  <2> HIDE DEF x, y, z, w, g, h, k
  <2> QED BY <2>7, <2>8
<1> QED BY <1>1, <1>2, <1>3 DEF GreedyUtility

\* What is selected is left as it is, or another scene follows that may stand there.
FollowsFrom(next, selected, from) ==
  \/ next = selected
  \/ \E c \in from : /\ next = Append(selected, c) /\ ~Refused(c, selected)
                     /\ \A i \in 1..Len(selected) : selected[i].scene # c.scene

LEMMA OneMoreIs ==
  ASSUME NEW lane, NEW exploration, NEW from \in SUBSET Candidate, NEW count, NEW selected \in Seq(from)
  PROVE  FollowsFrom(OneMore(lane, exploration, from, count, selected), selected, from)
<1> DEFINE next == OneMore(lane, exploration, from, count, selected)
           remaining == {c \in from : \A d \in Range(selected) : d.scene # c.scene}
           pool == GreedyPool(lane, exploration, remaining, TurnsOf(lane, from), Len(selected))
           ranked == {c \in pool : ~Refused(c, selected)}
           Outranks(c, d) == GreedyUtility(c, selected) > GreedyUtility(d, selected)
                           \/ (GreedyUtility(c, selected) = GreedyUtility(d, selected) /\ c.scene <= d.scene)
           best == CHOOSE c \in ranked : \A d \in ranked \ {c} : Outranks(c, d)
<1>1. next = IF Len(selected) >= count \/ ranked = {} THEN selected ELSE Append(selected, best)
  BY DEF OneMore
<1>2. pool \subseteq remaining
  BY DEF GreedyPool
<1>3. ranked \subseteq from /\ \A c \in ranked : ~Refused(c, selected) /\ \A d \in Range(selected) : d.scene # c.scene
  BY <1>2
<1>4. selected \in Seq(Candidate)
  OBVIOUS
<1> HIDE DEF pool, remaining, next
<1>5. ASSUME ranked # {} PROVE best \in ranked
  <2> DEFINE u == [c \in ranked |-> GreedyUtility(c, selected)]
             v == [c \in ranked |-> c.scene]
  <2>0. ranked # {}
    BY <1>5
  <2>1. ranked \in SUBSET Candidate
    BY <1>3
  <2>2. IsFiniteSet(ranked)
    BY <2>1, GreedyAssumption, FS_Subset
  <2>3. u \in [ranked -> Int]
    BY <1>4, <2>1, UtilityIsInt
  <2>4. v \in [ranked -> Int]
    BY <2>1, GreedyAssumption
  <2>5. \A c, d \in ranked : Outranks(c, d) <=> u[c] > u[d] \/ (u[c] = u[d] /\ v[c] <= v[d])
    OBVIOUS
  <2> HIDE DEF u, v, ranked, Outranks
  <2>6. \E c \in ranked : \A d \in ranked \ {c} : u[c] > u[d] \/ (u[c] = u[d] /\ v[c] <= v[d])
    BY ONLY <2>0, <2>2, <2>3, <2>4, BestOf, ZenonT(60)
  <2>7. \E c \in ranked : \A d \in ranked \ {c} : Outranks(c, d)
    BY <2>5, <2>6
  <2> QED BY <2>7
<1> HIDE DEF ranked, best
<1>6. ASSUME ranked # {}, next = Append(selected, best)
      PROVE  \E c \in from : /\ next = Append(selected, c) /\ ~Refused(c, selected)
                             /\ \A i \in 1..Len(selected) : selected[i].scene # c.scene
  <2>1. best \in from /\ ~Refused(best, selected) /\ \A d \in Range(selected) : d.scene # best.scene
    BY <1>3, <1>5, <1>6
  <2>2. \A i \in 1..Len(selected) : selected[i] \in Range(selected)
    BY RangeIs
  <2> QED BY <1>6, <2>1, <2>2
<1>7. next = selected \/ \E c \in from : /\ next = Append(selected, c) /\ ~Refused(c, selected)
                                         /\ \A i \in 1..Len(selected) : selected[i].scene # c.scene
  BY <1>1, <1>6
<1>8. FollowsFrom(next, selected, from)
  BY <1>7 DEF FollowsFrom
<1> QED BY <1>8 DEF next

\* A slate goes on from a prefix: the rest stands next to none of its performers.
GoesOn(slate, prefix) ==
  /\ Differ(slate) /\ Starts(prefix, slate)
  /\ \A i \in 2..Len(slate) : i > Len(prefix) => ~ShareAny(slate[i].performers, slate[i - 1].performers)

LEMMA OneMoreGoesOn ==
  ASSUME NEW lane, NEW exploration, NEW from \in SUBSET Candidate, NEW count, NEW prefix \in Seq(from),
         NEW selected \in Seq(from), GoesOn(selected, prefix)
  PROVE  /\ OneMore(lane, exploration, from, count, selected) \in Seq(from)
         /\ GoesOn(OneMore(lane, exploration, from, count, selected), prefix)
<1> DEFINE next == OneMore(lane, exploration, from, count, selected)
<1>0. FollowsFrom(next, selected, from)
  BY OneMoreIs
<1> HIDE DEF next
<1>1. \/ next = selected
      \/ \E c \in from : /\ next = Append(selected, c) /\ ~Refused(c, selected)
                         /\ \A i \in 1..Len(selected) : selected[i].scene # c.scene
  BY ONLY <1>0 DEF FollowsFrom
<1>2. CASE next = selected
  BY <1>2 DEF next
<1>3. ASSUME NEW c \in from, next = Append(selected, c), ~Refused(c, selected),
             \A i \in 1..Len(selected) : selected[i].scene # c.scene
      PROVE  next \in Seq(from) /\ GoesOn(next, prefix)
  <2> DEFINE n == Len(selected)
  <2>1. n \in Nat /\ next \in Seq(from) /\ Len(next) = n + 1 /\ next[n + 1] = c /\ \A i \in 1..n : next[i] = selected[i]
    BY <1>3
  <2>2. Differ(next)
    BY <1>3, MoreDiffer DEF GoesOn
  <2>3. Starts(prefix, next)
    BY <1>3, MoreStarts DEF GoesOn
  <2>4. ASSUME NEW i \in 2..(n + 1), i > Len(prefix) PROVE ~ShareAny(next[i].performers, next[i - 1].performers)
    <3>1. i - 1 \in 1..n
      BY <2>1
    <3>2. CASE i = n + 1
      <4>1. n >= 1 /\ i - 1 = n
        BY <2>1, <3>1, <3>2
      <4>2. selected # <<>>
        BY <4>1
      <4>3. ~ShareAny(c.performers, selected[n].performers)
        BY <1>3, <4>2 DEF Refused, Last
      <4> QED BY <2>1, <3>1, <3>2, <4>1, <4>3
    <3>3. CASE i # n + 1
      <4>1. i \in 2..n /\ i \in 1..n
        BY <2>1, <3>3
      <4>2. ~ShareAny(selected[i].performers, selected[i - 1].performers)
        BY <2>4, <4>1 DEF GoesOn
      <4> QED BY <2>1, <3>1, <4>1, <4>2
    <3> QED BY <3>2, <3>3
  <2> QED BY <2>1, <2>2, <2>3, <2>4 DEF GoesOn
<1> QED BY <1>1, <1>2, <1>3 DEF next

LEMMA OneMoreIsSeq ==
  ASSUME NEW lane, NEW exploration, NEW from \in SUBSET Candidate, NEW count, NEW selected \in Seq(from)
  PROVE  OneMore(lane, exploration, from, count, selected) \in Seq(from)
<1> DEFINE next == OneMore(lane, exploration, from, count, selected)
<1>0. FollowsFrom(next, selected, from)
  BY OneMoreIs
<1> HIDE DEF next
<1>1. next = selected \/ \E c \in from : next = Append(selected, c)
  BY ONLY <1>0 DEF FollowsFrom
<1>2. \A c \in from : Append(selected, c) \in Seq(from)
  OBVIOUS
<1>3. next \in Seq(from)
  BY <1>1, <1>2
<1> QED BY <1>3 DEF next

LEMMA GreedyGoesOn ==
  ASSUME NEW lane, NEW exploration, NEW from \in SUBSET Candidate, NEW count \in Nat, NEW prefix \in Seq(from),
         Differ(prefix)
  PROVE  /\ Greedy(lane, exploration, from, count, prefix) \in Seq(from)
         /\ GoesOn(Greedy(lane, exploration, from, count, prefix), prefix)
<1> DEFINE V == Seq(from)
           More(s) == OneMore(lane, exploration, from, count, s)
           Unfolded(g) == [n \in 0..count |-> IF n = 0 THEN prefix ELSE More(g[n - 1])]
           slate == CHOOSE g : g = Unfolded(g)
           step == [n \in 0..count |-> [s \in V |-> More(s)]]
<1>1. \A s \in V : More(s) \in V
  BY OneMoreIsSeq
<1>2. Greedy(lane, exploration, from, count, prefix) = slate[count]
  BY DEF Greedy
<1>3. \A s \in V : GoesOn(s, prefix) => GoesOn(More(s), prefix)
  BY OneMoreGoesOn
<1> HIDE DEF More
<1>4. PICK g \in [0..count -> V] : Follows(g, prefix, step, 0, count)
  <2>1. 0 \in Int /\ count \in Int /\ prefix \in V /\ step \in [0..count -> [V -> V]]
    BY <1>1
  <2> HIDE DEF step, V
  <2> QED BY <2>1, RecursionExists
<1>5. g = Unfolded(g)
  <2>1. \A n \in 0..count : n # 0 => n - 1 \in 0..count /\ g[n - 1] \in V
    <3>1. \A n \in 0..count : n # 0 => n - 1 \in 0..count
      OBVIOUS
    <3> HIDE DEF V
    <3> QED BY <1>4, <3>1
  <2>2. \A n \in 0..count : n # 0 => step[n][g[n - 1]] = More(g[n - 1])
    <3> HIDE DEF V
    <3> QED BY <2>1
  <2>3. g = [n \in 0..count |-> IF n = 0 THEN prefix ELSE step[n][g[n - 1]]]
    BY <1>4 DEF Follows
  <2> HIDE DEF step, V
  <2> QED BY <2>2, <2>3
<1>6. slate = Unfolded(slate)
  BY <1>5
<1> HIDE DEF slate
<1> DEFINE X == {n \in 0..count : slate[n] \in V /\ GoesOn(slate[n], prefix)}
<1>7. 0 \in X
  <2>1. slate[0] = prefix /\ 0 \in 0..count
    <3>1. 0 \in 0..count
      OBVIOUS
    <3> QED BY <1>6, <3>1
  <2>2. GoesOn(prefix, prefix)
    <3>1. Len(prefix) \in Nat
      OBVIOUS
    <3> QED BY <3>1 DEF GoesOn, Starts
  <2> QED BY <2>1, <2>2
<1>8. ASSUME NEW n \in 0..count, n < count, n \in X PROVE n + 1 \in X
  <2>1. n + 1 \in 0..count /\ n + 1 # 0 /\ (n + 1) - 1 = n
    BY <1>8
  <2>2. slate[n + 1] = More(slate[n])
    <3> HIDE DEF V
    <3> QED BY <1>6, <2>1
  <2> HIDE DEF V
  <2> QED BY <1>1, <1>3, <1>8, <2>1, <2>2
<1>9. \A n \in 0..count : n \in X
  <2>1. 0 \in Int /\ count \in Int
    OBVIOUS
  <2> HIDE DEF X
  <2> QED BY <1>7, <1>8, <2>1, StepByStep
<1>10. count \in 0..count
  OBVIOUS
<1> QED BY <1>2, <1>9, <1>10

\* A slate that is ready has its scenes once, and none that may not be shown.
ReadyIsSound(slate, count) ==
  /\ slate \in Seq(Candidate) /\ Differ(slate) /\ Len(slate) <= count
  /\ \A i \in 1..Len(slate) : Eligible(slate[i].scene)

PreparedIsSound ==
  \A l \in GreedyLane : prepared[l].items \in Seq(Candidate) /\ Differ(prepared[l].items)

LEMMA MinOfTwo ==
  ASSUME NEW a \in Nat, NEW b \in Nat PROVE Min({a, b}) = IF a <= b THEN a ELSE b
<1> DEFINE m == IF a <= b THEN a ELSE b
<1>1. m \in {a, b} /\ \A y \in {a, b} : m <= y
  OBVIOUS
<1>2. \A x \in {a, b} : (\A y \in {a, b} : x <= y) => x = m
  OBVIOUS
<1> HIDE DEF m
<1>3. Min({a, b}) = m
  BY <1>1, <1>2 DEF Min
<1> QED BY <1>3 DEF m

LEMMA UsableIsSound ==
  ASSUME PreparedIsSound, NEW lane \in GreedyLane, NEW count \in Nat
  PROVE  ReadyIsSound(UsablePrepared(lane, count), count)
<1> DEFINE s == prepared[lane].items
           S == {c \in Candidate : Eligible(c.scene) /\ ~PlayedSince(c.scene, prepared[lane].at)}
           kept == Those(s, S)
           k == Min({count, Len(kept)})
           ready == SubSeq(kept, 1, k)
<1>1. s \in Seq(Candidate) /\ Differ(s)
  BY DEF PreparedIsSound
<1>2. UsablePrepared(lane, count) = <<>> \/ UsablePrepared(lane, count) = ready
  BY DEF UsablePrepared
<1>3. \A a \in S : Eligible(a.scene)
  OBVIOUS
<1> HIDE DEF s, S
<1>4. kept \in Seq(Candidate)
  BY <1>1, ThoseIsSeq
<1>5. Differ(kept) /\ \A a \in 1..Len(kept) : kept[a] \in S
  BY <1>1, ThoseDiffer
<1> HIDE DEF kept
<1>6. Len(kept) \in Nat
  BY <1>4
<1>7. k \in 0..Len(kept) /\ k <= count
  <2> DEFINE b == Len(kept)
  <2>1. b \in Nat
    BY <1>6
  <2> HIDE DEF b
  <2>2. Min({count, b}) = IF count <= b THEN count ELSE b
    BY <2>1, MinOfTwo
  <2>3. Min({count, b}) \in 0..b /\ Min({count, b}) <= count
    BY <2>1, <2>2
  <2> QED BY <2>3 DEF b
<1> HIDE DEF k
<1>8. ready \in Seq(Candidate) /\ Len(ready) = k /\ \A i \in 1..k : ready[i] = kept[i]
  BY <1>4, <1>7, Beginnings
<1> HIDE DEF ready
<1>9. \A i \in 1..k : i \in 1..Len(kept)
  BY <1>6, <1>7
<1>10. ReadyIsSound(ready, count)
  BY <1>3, <1>5, <1>7, <1>8, <1>9 DEF ReadyIsSound, Differ
<1>11. ReadyIsSound(<<>>, count)
  <2>1. <<>> \in Seq(Candidate) /\ Len(<<>>) = 0 /\ 1..0 = {}
    OBVIOUS
  <2> QED BY <2>1 DEF ReadyIsSound, Differ
<1> QED BY <1>2, <1>10, <1>11

ShowableScenes == {s \in Scene : Eligible(s)}
ShowableCandidates == {c \in Candidate : RowEligible([scene |-> c.scene, from |-> c.lane])}

SlateIsFit(items, prefix, scenes, candidates) ==
  /\ items \in Seq(Candidate) /\ Differ(items)
  /\ \A i \in 1..Len(items) : items[i].scene \in scenes /\ (i > prefix => items[i] \in candidates)
  /\ \A i \in 2..Len(items) : i > prefix => ~ShareAny(items[i].performers, items[i - 1].performers)

GreedyInv ==
  /\ PreparedIsSound /\ DOMAIN prepared = GreedyLane
  /\ SlateIsFit(answer.items, answer.prefix, ShowableScenes, ShowableCandidates)

LEMMA ShowableStay ==
  ASSUME UNCHANGED factVars
  PROVE  ShowableScenes' = ShowableScenes /\ ShowableCandidates' = ShowableCandidates
<1>1. \A c : Eligible(c)' <=> Eligible(c)
  BY DEF factVars, Eligible, Reasons, FirmReasons, Played, NotNowActive, ThumbedDown,
         LatestRows, RowsOf, BlockedTags
<1>2. \A c : RowEligible(c)' <=> RowEligible(c)
  BY EligibleStays
<1> QED BY <1>1, <1>2 DEF ShowableScenes, ShowableCandidates

LEMMA NothingIsFit == ASSUME NEW prefix, NEW scenes, NEW candidates PROVE SlateIsFit(<<>>, prefix, scenes, candidates)
<1>1. <<>> \in Seq(Candidate) /\ Len(<<>>) = 0 /\ 1..0 = {} /\ 2..0 = {}
  OBVIOUS
<1> QED BY <1>1 DEF SlateIsFit, Differ

LEMMA GreedyInit == InitGreedy => GreedyInv
<1> SUFFICES ASSUME InitGreedy PROVE GreedyInv
  OBVIOUS
<1>1. answer.items = <<>>
  BY DEF InitGreedy, NoAnswer
<1>2. \A l \in GreedyLane : prepared[l].items = <<>>
  BY DEF InitGreedy, Nothing
<1>3. <<>> \in Seq(Candidate) /\ Differ(<<>>)
  BY DEF Differ
<1> QED BY <1>1, <1>2, <1>3, NothingIsFit DEF GreedyInv, PreparedIsSound, InitGreedy

LEMMA GreedyInvFits == GreedyInv => GreedySlateFits
<1> SUFFICES ASSUME GreedyInv PROVE GreedySlateFits
  OBVIOUS
<1> DEFINE items == answer.items
<1>1. SlateIsFit(items, answer.prefix, ShowableScenes, ShowableCandidates)
  BY DEF GreedyInv
<1>2. DOMAIN items = 1..Len(items)
  <2> HIDE DEF items
  <2> QED BY <1>1 DEF SlateIsFit
<1> QED BY <1>1, <1>2 DEF GreedySlateFits, SlateIsFit, Differ, ShowableScenes, ShowableCandidates

LEMMA RecommendKeeps ==
  ASSUME GreedyInv, NEW lane \in GreedyLane, NEW count \in 1..MostAsked, NEW exploration,
         RecommendGreedy(lane, count, exploration)
  PROVE  GreedyInv'
<1> DEFINE ready == IF exploration = 0 THEN UsablePrepared(lane, count) ELSE <<>>
           from == LiveCandidates(lane, exploration)
           prefix == Those(ready, from)
           greedy == Greedy(lane, exploration, from, count, prefix)
           slate == IF Len(ready) >= count THEN ready ELSE greedy
           kept == IF Len(ready) >= count THEN count ELSE Len(prefix)
<1>1. /\ UNCHANGED factVars /\ answer'.items = slate /\ answer'.prefix = kept
      /\ prepared' = IF exploration # 0 \/ Len(ready) >= count THEN prepared
                     ELSE [prepared EXCEPT ![lane] = [at |-> today, items |-> slate]]
  BY DEF RecommendGreedy
<1>2. count \in Nat
  BY GreedyAssumption
<1>3. ReadyIsSound(ready, count)
  <2>1. ReadyIsSound(UsablePrepared(lane, count), count)
    BY <1>2, UsableIsSound DEF GreedyInv
  <2>2. ReadyIsSound(<<>>, count)
    <3>1. <<>> \in Seq(Candidate) /\ Len(<<>>) = 0 /\ 1..0 = {}
      OBVIOUS
    <3> QED BY <1>2, <3>1 DEF ReadyIsSound, Differ
  <2> QED BY <2>1, <2>2
<1>4. /\ from \in SUBSET Candidate /\ from \subseteq ShowableCandidates
      /\ \A c \in from : c.scene \in ShowableScenes
  <2>1. from \in SUBSET Candidate /\ \A c \in Candidate : c.scene \in Scene
    BY GreedyAssumption DEF LiveCandidates
  <2> QED BY <2>1 DEF LiveCandidates, RowEligible, ShowableScenes, ShowableCandidates
<1> HIDE DEF ready, from
<1>5. prefix \in Seq(from) /\ Differ(prefix)
  <2>1. ready \in Seq(Candidate) /\ Differ(ready)
    BY <1>3 DEF ReadyIsSound
  <2>2. prefix \in Seq(Candidate)
    BY <2>1, ThoseIsSeq
  <2>3. Differ(prefix) /\ \A a \in 1..Len(prefix) : prefix[a] \in from
    BY <2>1, ThoseDiffer
  <2> HIDE DEF prefix
  <2>4. prefix \in Seq(from)
    <3>1. prefix \in [1..Len(prefix) -> from] /\ Len(prefix) \in Nat
      BY <2>2, <2>3
    <3> QED BY <3>1
  <2> QED BY <2>3, <2>4
<1> HIDE DEF prefix
<1>6. greedy \in Seq(from) /\ GoesOn(greedy, prefix)
  BY <1>2, <1>4, <1>5, GreedyGoesOn
<1> HIDE DEF greedy
<1>7. slate \in Seq(Candidate) /\ Differ(slate) /\ Len(slate) \in Nat
  <2>1. ready \in Seq(Candidate) /\ Differ(ready)
    BY <1>3 DEF ReadyIsSound
  <2>2. greedy \in Seq(Candidate) /\ Differ(greedy)
    <3>1. Differ(greedy)
      BY <1>6 DEF GoesOn
    <3>2. greedy \in Seq(Candidate)
      BY <1>4, <1>6
    <3> QED BY <3>1, <3>2
  <2>3. slate \in Seq(Candidate) /\ Differ(slate)
    BY <2>1, <2>2
  <2> HIDE DEF slate
  <2> QED BY <2>3
<1>8. ASSUME NEW i \in 1..Len(slate)
      PROVE  /\ slate[i].scene \in ShowableScenes
             /\ i > kept => slate[i] \in ShowableCandidates
             /\ i >= 2 /\ i > kept => ~ShareAny(slate[i].performers, slate[i - 1].performers)
  <2>1. CASE Len(ready) >= count
    <3>1. slate = ready /\ kept = count
      BY <2>1
    <3>2. Len(ready) <= count /\ \A j \in 1..Len(ready) : ready[j].scene \in ShowableScenes
      <4>1. ready \in Seq(Candidate) /\ Len(ready) <= count /\ \A j \in 1..Len(ready) : Eligible(ready[j].scene)
        BY <1>3 DEF ReadyIsSound
      <4>2. \A j \in 1..Len(ready) : ready[j] \in Candidate
        BY <4>1
      <4> QED BY <4>1, <4>2, GreedyAssumption DEF ShowableScenes
    <3>3. Len(ready) \in Nat
      BY <1>7, <3>1
    <3> HIDE DEF slate, kept
    <3>4. i \in 1..Len(ready) /\ ~(i > kept)
      BY <1>2, <3>1, <3>2, <3>3
    <3> QED BY <3>1, <3>2, <3>4
  <2>2. CASE ~(Len(ready) >= count)
    <3>1. slate = greedy /\ kept = Len(prefix)
      BY <2>2
    <3> HIDE DEF slate, kept
    <3>2. greedy[i] \in from
      BY <1>6, <3>1
    <3>3. greedy[i] \in ShowableCandidates /\ greedy[i].scene \in ShowableScenes
      BY <1>4, <3>2
    <3>4. ASSUME i >= 2, i > kept PROVE ~ShareAny(greedy[i].performers, greedy[i - 1].performers)
      <4>1. i \in 2..Len(greedy)
        BY <1>7, <3>1, <3>4
      <4> QED BY <1>6, <3>1, <3>4, <4>1 DEF GoesOn
    <3> QED BY <3>1, <3>3, <3>4
  <2> QED BY <2>1, <2>2
<1> HIDE DEF slate, kept
<1>9. SlateIsFit(slate, kept, ShowableScenes, ShowableCandidates)
  <2>1. \A i \in 2..Len(slate) : i \in 1..Len(slate) /\ i >= 2
    BY <1>7
  <2> QED BY <1>7, <1>8, <2>1 DEF SlateIsFit
<1>10. ShowableScenes' = ShowableScenes /\ ShowableCandidates' = ShowableCandidates
  BY <1>1, ShowableStay
<1>11. SlateIsFit(answer'.items, answer'.prefix, ShowableScenes', ShowableCandidates')
  BY <1>1, <1>9, <1>10
<1>12. PreparedIsSound' /\ DOMAIN prepared' = GreedyLane
  BY <1>1, <1>7 DEF PreparedIsSound, GreedyInv
<1> QED BY <1>11, <1>12 DEF GreedyInv

LEMMA GreedyNext == GreedyInv /\ [NextGreedy]_<<factVars, greedyVars>> => GreedyInv'
<1> SUFFICES ASSUME GreedyInv, [NextGreedy]_<<factVars, greedyVars>> PROVE GreedyInv'
  OBVIOUS
<1>1. CASE UNCHANGED <<factVars, greedyVars>>
  <2>1. UNCHANGED factVars /\ prepared' = prepared /\ answer' = answer
    BY <1>1 DEF greedyVars
  <2> QED BY <2>1, ShowableStay DEF GreedyInv, PreparedIsSound
<1>2. CASE FactsChange /\ answer' = NoAnswer /\ UNCHANGED prepared
  <2>1. answer'.items = <<>>
    BY <1>2 DEF NoAnswer
  <2>2. SlateIsFit(answer'.items, answer'.prefix, ShowableScenes', ShowableCandidates')
    BY <2>1, NothingIsFit
  <2> QED BY <1>2, <2>2 DEF GreedyInv, PreparedIsSound
<1>3. ASSUME NEW lane \in GreedyLane, NEW count \in 1..MostAsked, NEW exploration \in {0 - 50, 0, 100},
             RecommendGreedy(lane, count, exploration)
      PROVE  GreedyInv'
  BY <1>3, RecommendKeeps
<1> QED BY <1>1, <1>2, <1>3 DEF NextGreedy

-----------------------------------------------------------------------------
(* Both kinds of slates, beside the others that serve the same facts.       *)
OnlyTheirTopic ==
  /\ topic # "slates" => pages = {}
  /\ topic # "greedy" => answer = NoAnswer

FitInv == PagesInv /\ GreedyInv /\ OnlyTheirTopic

LEMMA FitInit == RecommendationInit => FitInv
<1> SUFFICES ASSUME RecommendationInit PROVE FitInv
  OBVIOUS
<1>1. InitSlates /\ InitGreedy
  BY DEF RecommendationInit
<1>2. PagesInv /\ GreedyInv
  BY <1>1, PagesInit, GreedyInit
<1>3. OnlyTheirTopic
  BY <1>1 DEF OnlyTheirTopic, InitSlates, InitGreedy
<1> QED BY <1>2, <1>3 DEF FitInv

\* Where nothing was answered yet, the facts may change.
LEMMA NoPagesStay == ASSUME pages = {}, PagesInv, pages' = pages, request' = request PROVE PagesInv'
BY DEF PagesInv, RequestIsSound

LEMMA NoAnswerStays ==
  ASSUME GreedyInv, answer = NoAnswer, UNCHANGED greedyVars PROVE GreedyInv'
<1>1. answer'.items = <<>> /\ prepared' = prepared
  BY DEF NoAnswer, greedyVars
<1>2. SlateIsFit(answer'.items, answer'.prefix, ShowableScenes', ShowableCandidates')
  BY <1>1, NothingIsFit
<1> QED BY <1>1, <1>2 DEF GreedyInv, PreparedIsSound

LEMMA FitNext == FitInv /\ [RecommendationNext]_recommendationVars => FitInv'
<1> SUFFICES ASSUME FitInv, [RecommendationNext]_recommendationVars PROVE FitInv'
  OBVIOUS
<1>1. PagesInv /\ GreedyInv /\ OnlyTheirTopic
  BY DEF FitInv
<1>2. ASSUME UNCHANGED topic, UNCHANGED factVars, UNCHANGED slateVars, UNCHANGED greedyVars PROVE FitInv'
  <2>1. PagesInv'
    BY <1>1, <1>2, PagesNext
  <2>2. GreedyInv'
    BY <1>1, <1>2, GreedyNext
  <2>3. OnlyTheirTopic'
    BY <1>1, <1>2 DEF OnlyTheirTopic, slateVars, greedyVars
  <2> QED BY <2>1, <2>2, <2>3 DEF FitInv
<1>3. CASE SlatesMove
  <2>1. topic = "slates" /\ NextSlates /\ UNCHANGED topic /\ UNCHANGED greedyVars
    BY <1>3 DEF SlatesMove, greedyVars
  <2>2. PagesInv'
    BY <1>1, <2>1, PagesNext
  <2>3. answer = NoAnswer
    BY <1>1, <2>1 DEF OnlyTheirTopic
  <2>4. GreedyInv'
    BY <1>1, <2>1, <2>3, NoAnswerStays
  <2>5. OnlyTheirTopic'
    BY <1>1, <2>1, <2>3 DEF OnlyTheirTopic, greedyVars
  <2> QED BY <2>2, <2>4, <2>5 DEF FitInv
<1>4. CASE GreedyMoves
  <2>1. topic = "greedy" /\ NextGreedy /\ UNCHANGED topic /\ pages' = pages /\ request' = request
    BY <1>4 DEF GreedyMoves
  <2>2. pages = {}
    BY <1>1, <2>1 DEF OnlyTheirTopic
  <2>3. PagesInv'
    BY <1>1, <2>1, <2>2, NoPagesStay
  <2>4. GreedyInv'
    BY <1>1, <2>1, GreedyNext
  <2>5. OnlyTheirTopic'
    BY <2>1, <2>2 DEF OnlyTheirTopic
  <2> QED BY <2>3, <2>4, <2>5 DEF FitInv
<1>5. CASE PruneMoves
  <2>1. topic = "prune" /\ UNCHANGED topic /\ UNCHANGED slateVars /\ UNCHANGED greedyVars
    BY <1>5 DEF PruneMoves, slateVars, greedyVars
  <2>2. pages = {} /\ answer = NoAnswer /\ pages' = pages /\ request' = request /\ answer' = answer
    BY <1>1, <2>1 DEF OnlyTheirTopic, slateVars, greedyVars
  <2>3. PagesInv'
    BY <1>1, <2>2, NoPagesStay
  <2>4. GreedyInv'
    BY <1>1, <2>1, <2>2, NoAnswerStays
  <2>5. OnlyTheirTopic'
    BY <2>1, <2>2 DEF OnlyTheirTopic
  <2> QED BY <2>3, <2>4, <2>5 DEF FitInv
<1>6. CASE OrdersMove
  BY <1>2, <1>6 DEF OrdersMove
<1>7. CASE LanesMove
  BY <1>2, <1>7 DEF LanesMove
<1>8. CASE PlaysMove
  BY <1>2, <1>8 DEF PlaysMove
<1>9. CASE GenerationsMove
  BY <1>2, <1>9 DEF GenerationsMove, servedVars
<1>10. CASE UNCHANGED recommendationVars
  BY <1>2, <1>10 DEF recommendationVars, servedVars
<1> QED BY <1>3, <1>4, <1>5, <1>6, <1>7, <1>8, <1>9, <1>10 DEF RecommendationNext

\* A page shows what may be shown and nothing its client hides, two pages of a
\* stream are the first rows of its lane, each scene once and every lane's slots
\* kept; a greedy slate has its scenes once and, behind what was prepared, seats
\* no performer twice in a row: whatever chunks the rows are read in, whatever the draw's luck and
\* whatever slate was prepared before (getSlateCore, recommendGreedy).
THEOREM SlatesAlwaysFit == RecommendationSpec => []SlatesFit
<1>1. RecommendationSpec => []FitInv
  BY FitInit, FitNext, PTL DEF RecommendationSpec
<1>2. FitInv => SlatesFit
  BY PagesInvFits, GreedyInvFits DEF FitInv, SlatesFit
<1> QED BY <1>1, <1>2, PTL
=============================================================================
