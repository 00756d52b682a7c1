------------------------------ MODULE MCExternal ----------------------------
(***************************************************************************)
(* What a process of the plugin meets outside itself, for TLC: other       *)
(* services the sidecar keeps copies of (stash-boxes, the links to them in *)
(* Stash, Whisparr), the daemons, and a file of the sidecar that others    *)
(* copy, restore and migrate.  The modules share no state: one of them     *)
(* moves (`topic`), the others stay where they began.                      *)
(***************************************************************************)
EXTENDS ExpandRefresh, ExpandPages, LibraryLinks, Whisparr, WorkerLifecycle, BackupRestore,
        StashBoxPages, StashBoxClient

VARIABLE topic

externalVars == <<topic, refreshVars, pageVars, linkVars, matchVars, whisparrVars, workerVars, backupVars,
                  probeVars, identityVars, paceVars>>

clientVars == <<probeVars, identityVars, paceVars>>

ExternalInit ==
  /\ topic \in {"refresh", "pages", "links", "matches", "whisparr", "workers", "backups",
                "probes", "identities", "pace"}
  /\ InitRefresh /\ InitPages /\ InitLinks /\ InitMatches /\ InitWhisparr
  /\ InitWorkers /\ InitBackups /\ InitProbes /\ InitIdentities /\ InitPace
  /\ topic # "refresh" => \A x \in External : upstream[x].version = 0
  /\ topic # "pages" => selected = "e1" /\ cached = "e1"
  /\ topic # "links" => \A x \in Entity : links[x] = 0
  /\ topic # "matches" => match = 0
  /\ topic # "probes" => listing = <<>>
  /\ topic # "identities" => \A i \in Ident : number[i] = 0

RefreshMoves ==
  /\ topic = "refresh"
  /\ NextRefresh
  /\ UNCHANGED <<topic, pageVars, linkVars, matchVars, whisparrVars, workerVars, backupVars, clientVars>>

PagesMove ==
  /\ topic = "pages"
  /\ NextPages
  /\ UNCHANGED <<topic, refreshVars, linkVars, matchVars, whisparrVars, workerVars, backupVars, clientVars>>

LinksMove ==
  /\ topic = "links"
  /\ NextLinks
  /\ UNCHANGED <<topic, refreshVars, pageVars, matchVars, whisparrVars, workerVars, backupVars, clientVars>>

MatchesMove ==
  /\ topic = "matches"
  /\ NextMatches
  /\ UNCHANGED <<topic, refreshVars, pageVars, linkVars, whisparrVars, workerVars, backupVars, clientVars>>

WhisparrMoves ==
  /\ topic = "whisparr"
  /\ NextWhisparr
  /\ UNCHANGED <<topic, refreshVars, pageVars, linkVars, matchVars, workerVars, backupVars, clientVars>>

WorkersMove ==
  /\ topic = "workers"
  /\ NextWorkers
  /\ UNCHANGED <<topic, refreshVars, pageVars, linkVars, matchVars, whisparrVars, backupVars, clientVars>>

BackupsMove ==
  /\ topic = "backups"
  /\ NextBackups
  /\ UNCHANGED <<topic, refreshVars, pageVars, linkVars, matchVars, whisparrVars, workerVars, clientVars>>

OthersStay == UNCHANGED <<refreshVars, pageVars, linkVars, matchVars, whisparrVars, workerVars, backupVars>>

ProbesMove ==
  /\ topic = "probes"
  /\ NextProbes
  /\ OthersStay /\ UNCHANGED <<topic, identityVars, paceVars>>

IdentitiesMove ==
  /\ topic = "identities"
  /\ NextIdentities
  /\ OthersStay /\ UNCHANGED <<topic, probeVars, paceVars>>

PaceMoves ==
  /\ topic = "pace"
  /\ NextPace
  /\ OthersStay /\ UNCHANGED <<topic, probeVars, identityVars>>

ExternalNext ==
  \/ RefreshMoves
  \/ PagesMove
  \/ LinksMove
  \/ MatchesMove
  \/ WhisparrMoves
  \/ WorkersMove
  \/ BackupsMove
  \/ ProbesMove
  \/ IdentitiesMove
  \/ PaceMoves

ExternalSpec == ExternalInit /\ [][ExternalNext]_externalVars

-----------------------------------------------------------------------------
(* What the sidecar keeps of others is what they have: the links of Stash,  *)
(* the fingerprints of its scenes, and the scenes Whisparr was sent, however *)
(* slow requests, hooks and retries overlap.                                *)
CopiesAreCurrent == LinksAreCurrent /\ MatchesAreCurrent /\ SentScenesAreThere

(* What the sidecar asks a stash-box for comes whole: the pages of a listing *)
(* that moves, and the identities concurrent queries share, which are       *)
(* recent, waited for by nobody in vain, and all there when a filter rests  *)
(* on them; requests keep their pace.                                       *)
AnswersAreWhole ==
  /\ topic = "probes" => PagesAreTheListing /\ WalksMissNothing
  /\ topic = "identities" => IdentitiesAreRecent /\ NobodyWaitsForever /\ FiltersAreWhole
  /\ topic = "pace" => RequestsArePaced

(* The order external scenes are shown in is that of the present state:     *)
(* scored under one model, and kept no longer than what it was sorted by.   *)
ExternalOrderIsCurrent == ScoresAreOfOneModel /\ CachedOrderIsFresh

MCLists == [e \in Endpoint |-> IF e = "e1" THEN External ELSE {}]
MCSeedsOf == [x \in External |-> IF x = "x1" THEN {"p"} ELSE {"q"}]
MCRelease == [x \in External |-> IF x = "x1" THEN 9 ELSE 2]
MCCatalogue == <<"x1", "x2", "x3", "x4", "x5">>
MCCarries == [e \in Box |-> IF e = "e1" THEN {"x1"} ELSE {"x2"}]
=============================================================================
