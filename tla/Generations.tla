----------------------------- MODULE Generations -----------------------------
(***************************************************************************)
(* Feature and model generations: their rows (feature_build,               *)
(* model_version), their files beside the sidecar, and the readers that    *)
(* attach what is published (src/core/featurebuild.go,                     *)
(* src/core/modelbuild3.go, src/core/build_artifacts.go,                   *)
(* src/core/artifacts.go, src/core/retention.go).  A file is written under *)
(* another name and renamed, so it is complete when it is there.           *)
(* ModelUpdates models who may build; here one builder at a time does.     *)
(***************************************************************************)
EXTENDS Naturals, FiniteSets

CONSTANTS
  Content,    \* the fingerprints of the sources: a feature generation each
  Evidence,   \* the rest of a model's digest
  Opener,     \* connections that are being opened
  MaxBuilds   \* bound

ASSUME GenerationsAssumption == MaxBuilds \in Nat

Generation == [kind : {"feature"}, of : Content] \union [kind : {"model"}, of : Content, with : Evidence]
Features(c) == [kind |-> "feature", of |-> c]
Model(c, e) == [kind |-> "model", of |-> c, with |-> e]
OfKind(k) == {g \in Generation : g.kind = k}

VARIABLES
  row,      \* status of a generation: none, building, published, superseded, failed
  named,   \* generations whose artifact_basename is set
  file,     \* generations whose file is there
  since,    \* published_at_ms, or created_at_ms before: the build that set it
  build,    \* the builder: [at, of, with]
  doomed,     \* retention: the generations it is about to remove
  builds,   \* counter
  sound,    \* history: the last build ended well
  opening   \* openers: [at, feature, model, missed]

generationVars == <<row, named, file, since, build, doomed, builds, sound, opening>>

Nobody == [at |-> "idle", of |-> CHOOSE c \in Content : TRUE, with |-> CHOOSE e \in Evidence : TRUE]
NoGeneration == [kind |-> "none", of |-> 0]
Closed == [at |-> "closed", feature |-> NoGeneration, model |-> NoGeneration, missed |-> 0]

InitGenerations ==
  /\ row = [g \in Generation |-> "none"] /\ named = {} /\ file = {}
  /\ since = [g \in Generation |-> 0]
  /\ build = Nobody /\ doomed = {} /\ builds = 0 /\ sound = TRUE
  /\ opening = [o \in Opener |-> Closed]

Published(k) == {g \in OfKind(k) : row[g] = "published" /\ g \in named}
F == Features(build.of)
M == Model(build.of, build.with)
BuildAt(stage) == build' = [build EXCEPT !.at = stage]

-----------------------------------------------------------------------------
(* featureBuild and modelBuild.                                             *)
BeginGeneration(c, e) ==
  /\ build.at = "idle" /\ builds < MaxBuilds
  /\ build' = [at |-> "features", of |-> c, with |-> e]
  /\ builds' = builds + 1 /\ sound' = FALSE
  /\ UNCHANGED <<row, named, file, since, doomed, opening>>

Reusable(g) == row[g] = "published" /\ g \in named \intersect file

(* A generation that is published with its file is used again, and any other *)
(* row of the same digest goes back to building.                            *)
LooksUp(g, stage, reused, next) ==
  /\ build.at = stage
  /\ IF Reusable(g)
     THEN BuildAt(reused) /\ UNCHANGED <<row, since>>
     ELSE /\ BuildAt(next)
          /\ row' = [row EXCEPT ![g] = "building"]
          /\ since' = [since EXCEPT ![g] = IF row[g] = "none" THEN builds ELSE @]

LookUpFeatures ==
  /\ LooksUp(F, "features", "model", "write features")
  /\ UNCHANGED <<named, file, doomed, builds, sound, opening>>

(* A reused model ends the build without retention.                         *)
LookUpModel ==
  /\ LooksUp(M, "model", "idle", "write model")
  /\ sound' = Reusable(M)
  /\ UNCHANGED <<named, file, doomed, builds, opening>>

(* createArtifact, the rows, the indexes, the validation; then the rename.  *)
(* A model is written from the file of its features.                        *)
PublishArtifactFile(g, stage, next) ==
  /\ build.at = stage
  /\ file' = file \union {g}
  /\ BuildAt(next)
  /\ UNCHANGED <<row, named, since, doomed, builds, sound, opening>>

WriteFeatures == PublishArtifactFile(F, "write features", "register features")
WriteModel ==
  /\ F \in named \intersect file
  /\ PublishArtifactFile(M, "write model", "register model")

(* One transaction supersedes what was published.                           *)
Registered(g) ==
  row' = [h \in Generation |->
            IF h = g THEN "published"
            ELSE IF h.kind = g.kind /\ row[h] = "published" THEN "superseded" ELSE row[h]]

\* Openers that have looked up a generation of this kind miss what happens to it.
Missed(g) ==
  opening' = [o \in Opener |->
    IF opening[o].at \in {"features", "model"} /\ (opening[o].at = "model") = (g.kind = "model")
    THEN [opening[o] EXCEPT !.missed = IF @ = 2 THEN 2 ELSE @ + 1] ELSE opening[o]]

Register(g, stage, next) ==
  /\ build.at = stage
  /\ Registered(g)
  /\ named' = named \union {g}
  /\ since' = [since EXCEPT ![g] = builds]
  /\ BuildAt(next)
  /\ Missed(g)
  /\ UNCHANGED <<file, doomed, builds>>

RegisterFeatures == Register(F, "register features", "activate features") /\ UNCHANGED sound
RegisterModel == Register(M, "register model", "prune models") /\ sound' = TRUE

(* An error while the artifact is written removes the final file as well, as *)
(* the temporary one is gone by then; an error after the rename, or before  *)
(* there was a temporary file, does not.                                    *)
BuildFails(g, writing, registering) ==
  /\ build.at \in {writing, registering}
  /\ file' \in {file, IF build.at = writing THEN file \ {g} ELSE file}
  /\ row' = [row EXCEPT ![g] = "failed"]
  /\ BuildAt("idle")
  /\ Missed(g)
  /\ UNCHANGED <<named, since, doomed, builds, sound>>

FeaturesFail == BuildFails(F, "write features", "register features")
ModelFails == BuildFails(M, "write model", "register model")

(* activateArtifact attaches the new features.  When it cannot, they are     *)
(* marked as failed although they have superseded the others; a model, whose *)
(* failure is guarded by its status, stays published.                       *)
ActivateFeatures ==
  /\ build.at = "activate features"
  /\ \/ BuildAt("model") /\ UNCHANGED <<row, opening>>
     \/ BuildAt("idle") /\ row' = [row EXCEPT ![F] = "failed"] /\ Missed(F)
  /\ UNCHANGED <<named, file, since, doomed, builds, sound>>

BuilderDies ==
  /\ build.at # "idle"
  /\ BuildAt("idle") /\ doomed' = {}
  /\ UNCHANGED <<row, named, file, since, builds, sound, opening>>

-----------------------------------------------------------------------------
(* pruneSnapshots: the two models published last are kept, and the features *)
(* of the models that still have an artifact or are being built.            *)
Newest(models) ==
  {g \in models : Cardinality({h \in models : since[h] > since[g]}) < 2}
\* Mutant: only the published model is kept.
KeptPublished == Published("model")

KeptModels == Newest({g \in OfKind("model") : row[g] \in {"published", "superseded"} /\ g \in named})

Abandoned(g) ==
  row[g] = "building" /\ \E h \in OfKind("model") : row[h] = "published" /\ since[h] > since[g]

UsedFeatures ==
  {Features(g.of) : g \in {h \in OfKind("model") : row[h] \in {"published", "building"} \/ h \in named}}

ListModels ==
  /\ build.at = "prune models"
  /\ doomed' = {g \in OfKind("model") : row[g] \in {"superseded", "failed"} \/ Abandoned(g)} \ KeptModels
  /\ BuildAt("models")
  /\ UNCHANGED <<row, named, file, since, builds, sound, opening>>

ListFeatures ==
  /\ build.at = "models" /\ doomed = {}
  /\ doomed' = {g \in OfKind("feature") : row[g] \in {"superseded", "failed"}} \ UsedFeatures
  /\ BuildAt("features too")
  /\ UNCHANGED <<row, named, file, since, builds, sound, opening>>

(* The file first, its row after it; a file that cannot be removed keeps its *)
(* row for the next time.                                                   *)
RemoveArtifact(g) ==
  /\ g \in doomed /\ g \in file
  /\ \/ file' = file \ {g} /\ UNCHANGED doomed
     \/ doomed' = doomed \ {g} /\ UNCHANGED file
  /\ UNCHANGED <<row, named, since, build, builds, sound, opening>>

RetireRow(g) ==
  /\ g \in doomed \ file
  /\ doomed' = doomed \ {g}
  /\ row' = [row EXCEPT ![g] = "none"]
  /\ named' = named \ {g}
  /\ UNCHANGED <<file, since, build, builds, sound, opening>>

(* sweepOrphanArtifacts: files no row names, if they are six hours old.     *)
SweepOrphans ==
  /\ build.at = "features too" /\ doomed = {}
  /\ file' \in {file, file \intersect named}
  /\ BuildAt("idle")
  /\ UNCHANGED <<row, named, since, doomed, builds, sound, opening>>

-----------------------------------------------------------------------------
(* attachActiveArtifacts: the published features are looked up and attached, *)
(* then the published model.  What is attached stays readable: its file is  *)
(* only unlinked.                                                           *)
PublishedOf(k) == IF Published(k) = {} THEN NoGeneration ELSE CHOOSE g \in Published(k) : TRUE

FindFeatures(o) ==
  /\ opening[o].at \in {"closed", "open", "missing"}
  /\ opening' = [opening EXCEPT ![o] = [Closed EXCEPT !.at = "features", !.feature = PublishedOf("feature")]]
  /\ UNCHANGED <<row, named, file, since, build, doomed, builds, sound>>

AttachFeatures(o) ==
  /\ opening[o].at = "features"
  /\ opening' = [opening EXCEPT ![o].at = IF opening[o].feature \in file \union {NoGeneration} THEN "then" ELSE "missing"]
  /\ UNCHANGED <<row, named, file, since, build, doomed, builds, sound>>

FindModel(o) ==
  /\ opening[o].at = "then"
  /\ opening' = [opening EXCEPT ![o].at = "model", ![o].model = PublishedOf("model"), ![o].missed = 0]
  /\ UNCHANGED <<row, named, file, since, build, doomed, builds, sound>>

AttachModel(o) ==
  /\ opening[o].at = "model"
  /\ opening' = [opening EXCEPT ![o].at = IF opening[o].model \in file \union {NoGeneration} THEN "open" ELSE "missing"]
  /\ UNCHANGED <<row, named, file, since, build, doomed, builds, sound>>

-----------------------------------------------------------------------------
NextGenerations ==
  \/ \E c \in Content, e \in Evidence : BeginGeneration(c, e)
  \/ LookUpFeatures \/ LookUpModel \/ WriteFeatures \/ WriteModel
  \/ RegisterFeatures \/ ActivateFeatures \/ RegisterModel \/ FeaturesFail \/ ModelFails \/ BuilderDies
  \/ ListModels \/ ListFeatures \/ SweepOrphans
  \/ \E g \in Generation : RemoveArtifact(g) \/ RetireRow(g)
  \/ \E o \in Opener : FindFeatures(o) \/ AttachFeatures(o) \/ FindModel(o) \/ AttachModel(o)

SpecGenerations == InitGenerations /\ [][NextGenerations]_generationVars

-----------------------------------------------------------------------------
(* Properties.                                                              *)

(* What is published is one generation of each kind, with its file,         *)
(* whatever builds failed or died before.                                   *)
PublishedAreThere ==
  \A k \in {"feature", "model"} :
    /\ Cardinality({g \in OfKind(k) : row[g] = "published"}) <= 1
    /\ Published(k) \subseteq file

(* After a build that ended well, the published model is one of the published *)
(* features; in between, and after a build that failed, it need not be.     *)
PairAgrees ==
  build.at = "idle" /\ sound /\ builds > 0 =>
    /\ PublishedOf("feature") = F
    /\ PublishedOf("model") = M

(* A connection that is opened finds the file of what it has looked up,     *)
(* unless two generations of that kind were published, or failed to be,     *)
(* meanwhile, or the features never had a model that kept them.             *)
OpenersFindFiles ==
  \A o \in Opener : opening'[o].at = "missing" /\ opening[o].at \in {"features", "model"} =>
    \/ opening[o].missed > 1
    \/ opening[o].at = "features" /\ \A e \in Evidence : Model(opening[o].feature.of, e) \notin named

(* What is published is whole, and can be attached.                         *)
GenerationsAreWhole ==
  [][PublishedAreThere' /\ PairAgrees' /\ OpenersFindFiles]_generationVars
=============================================================================
