---------------------------- MODULE PlaySessions ----------------------------
(***************************************************************************)
(* What the browser reports of impressions and plays: submitEvents of      *)
(* src/core/writes.go, the impressions that slates and similar scenes      *)
(* leave behind (src/core/slate.go, src/core/similar.go), their buckets    *)
(* (src/core/impression_measurement.go) and the cascade of a deleted scene.*)
(* Reports arrive late, in any order and more than once.                   *)
(***************************************************************************)
EXTENDS Library, Integers, FiniteSets

CONSTANTS
  Listed,         \* bound: the scenes that impressions list and clients play
  ImpressionId,   \* ordered: the later id wins a tie
  ShownAt,        \* when an impression is shown
  SessionId,
  Report,         \* the session a client reports under an id: the same whenever it retries
  MaxThumbs,      \* bound: thumbs up
  MaxTime,        \* bound: times of impressions and plays
  Window,         \* impressionAttributionWindowMs
  Gap             \* the longest gap of a quick replacement

Length == {"none", "short", "threshold", "long"}   \* active seconds about the 30 of a short exit
NoImpression == 0 - 1

(* normalizeSession: what the sidecar accepts; a session that Curator       *)
(* started names its impression.                                            *)
Session == {session \in [scene : Listed, start : 0..MaxTime, end : 0..MaxTime, active : Length,
                         origin : {"curator", "stash"}, impression : ImpressionId \cup {NoImpression}] :
              /\ session.start <= session.end
              /\ session.origin = "curator" => session.impression # NoImpression}

ASSUME PlaysAssumption ==
  /\ Listed \subseteq Scene
  /\ ImpressionId \subseteq Int /\ {MaxTime, Window, Gap, MaxThumbs} \subseteq Nat
  /\ ShownAt \in [ImpressionId -> 0..MaxTime]
  /\ Report \in [SessionId -> Session]

VARIABLES
  stored,     \* source_scene
  shown,       \* impression and impression_item: when, and which scenes
  qualified,   \* items with a qualified_at_ms
  recommended, \* recommendation_history: <<impression, scene>>
  sessions,    \* play_session rows of the direct player
  signals,     \* behavior_event rows: "view" and "replacement"
  thumbs,      \* live thumbs up: scene, time, and the impression it named
  phase,       \* submitEvents between its two transactions
  asked        \* coordinatorRequest: a generation is asked for

impressionVars == <<shown, qualified, recommended>>
playVars == <<stored, impressionVars, sessions, signals, thumbs, phase, asked>>

NotShown == [at |-> 0 - 1, scenes |-> {}]
NoSession == [scene |-> 0]
NoBatch == [sid |-> 0]

InitPlays ==
  /\ stored = Listed
  /\ shown = [i \in ImpressionId |-> NotShown]
  /\ qualified = {} /\ recommended = {}
  /\ sessions = [p \in SessionId |-> NoSession]
  /\ signals = {} /\ thumbs = {}
  /\ phase = NoBatch /\ asked = FALSE

-----------------------------------------------------------------------------
(* recordImpression: INSERT OR IGNORE, and the items with it. *)
RecordImpression(i, scenes) ==
  /\ shown[i] = NotShown
  /\ shown' = [shown EXCEPT ![i] = [at |-> ShownAt[i], scenes |-> scenes]]
  /\ UNCHANGED <<stored, qualified, recommended, sessions, signals, thumbs, phase, asked>>

(* qualifyImpressions: the first of submitEvents' two transactions.  Only   *)
(* an item that was shown and is not qualified yet gets its history row.    *)
QualifyImpressions(items, p) ==
  /\ phase = NoBatch
  /\ LET fresh == {item \in items : item[2] \in shown[item[1]].scenes} \ qualified
     IN /\ qualified' = qualified \cup fresh
        /\ recommended' = recommended \cup fresh
  /\ phase' = [sid |-> p]
  /\ UNCHANGED <<stored, shown, sessions, signals, thumbs, asked>>

(* attributeImpression: the last impression of the scene within the window. *)
Attributable(session) ==
  {i \in ImpressionId : /\ session.scene \in shown[i].scenes
                        /\ shown[i].at <= session.start
                        /\ shown[i].at >= session.start - Window}

Latest(ids) ==
  CHOOSE i \in ids : \A j \in ids : \/ shown[j].at < shown[i].at
                                     \/ (shown[j].at = shown[i].at /\ j <= i)

Attributed(session) ==
  IF session.impression # NoImpression \/ Attributable(session) = {} THEN session
  ELSE [session EXCEPT !.impression = Latest(Attributable(session))]

ObservedPlayback(session) == session.active # "none"

(* viewingOutcome: a short exit counts against the scene, a longer play for *)
(* it, and one that stops at the threshold says nothing.                    *)
ViewSignals(p, session) ==
  IF session.active \in {"none", "threshold"} THEN {}
  ELSE {[id |-> <<p, "view">>, scene |-> session.scene, session |-> p,
         positive |-> session.active = "long"]}

(* insertReplacement: the observed session that ended last before this one  *)
(* started, if Curator showed it, it was a short exit, and nothing speaks   *)
(* for its scene in between.                                                *)
Preceding(rows, p, session) ==
  {q \in SessionId \ {p} : /\ rows[q] # NoSession
                           /\ ObservedPlayback(rows[q])
                           /\ rows[q].end <= session.start}

ReplacesAnyPlay(rows, session, q) ==
  /\ rows[q].origin = "curator"
  /\ rows[q].scene # session.scene
  /\ session.start - rows[q].end <= Gap

Replaces(rows, session, q) ==
  /\ rows[q].origin = "curator"
  /\ rows[q].active = "short"
  /\ rows[q].scene # session.scene
  /\ session.start - rows[q].end <= Gap
  /\ ~\E up \in thumbs : up.scene = rows[q].scene /\ up.at \in rows[q].end..session.start

ReplacementSignals(rows, p, session, q) ==
  IF Replaces(rows, session, q)
  THEN {[id |-> <<p, "replacement">>, scene |-> rows[q].scene, session |-> q, positive |-> FALSE]}
  ELSE {}

(* submitSessions: INSERT OR IGNORE, dropped for a scene the sidecar does   *)
(* not have; the signals of a session that is new.  ORDER BY ended_at_ms    *)
(* leaves a tie open.                                                       *)
SubmitSessions ==
  /\ phase # NoBatch
  /\ phase' = NoBatch
  /\ LET p == phase.sid
         session == Attributed(Report[p])
         rows == [sessions EXCEPT ![p] = session]
         before == Preceding(rows, p, session)
         last == {q \in before : \A r \in before : rows[r].end <= rows[q].end}
     IN IF sessions[p] # NoSession \/ session.scene \notin stored
        THEN UNCHANGED <<sessions, signals, asked>>
        ELSE /\ sessions' = rows
             /\ \/ last = {} /\ signals' = signals \cup ViewSignals(p, session)
                \/ \E q \in last : signals' = signals \cup ViewSignals(p, session)
                                      \cup ReplacementSignals(rows, p, session, q)
             /\ asked' = (asked \/ signals' # signals)
  /\ UNCHANGED <<stored, impressionVars, thumbs>>

(* The request process dies between its two transactions; the client will   *)
(* report the whole batch again.                                            *)
SubmitDies ==
  /\ phase # NoBatch
  /\ phase' = NoBatch
  /\ UNCHANGED <<stored, impressionVars, sessions, signals, thumbs, asked>>

ThumbUp(s, at, i) ==
  /\ thumbs' = thumbs \cup {[scene |-> s, at |-> at, impression |-> i]}
  /\ Cardinality(thumbs) < MaxThumbs
  /\ UNCHANGED <<stored, impressionVars, sessions, signals, phase, asked>>

(* Stash deletes a scene: sessions and events cascade, events of a cascaded *)
(* session too; impressions and thumbs have no foreign key.                 *)
DeleteScene(s) ==
  /\ s \in stored
  /\ stored' = stored \ {s}
  /\ sessions' = [p \in SessionId |-> IF sessions[p].scene = s THEN NoSession ELSE sessions[p]]
  /\ signals' = {e \in signals : e.scene # s /\ sessions[e.session].scene # s}
  /\ UNCHANGED <<impressionVars, thumbs, phase, asked>>

NextPlays ==
  \/ \E i \in ImpressionId, scenes \in SUBSET Listed \ {{}} : RecordImpression(i, scenes)
  \/ \E items \in SUBSET (ImpressionId \X Listed), p \in SessionId :
       Cardinality(items) <= 1 /\ QualifyImpressions(items, p)
  \/ SubmitSessions \/ SubmitDies
  \/ \E s \in Listed, at \in 0..MaxTime, i \in ImpressionId \cup {NoImpression} : ThumbUp(s, at, i)
  \/ \E s \in Listed : DeleteScene(s)

SpecPlays == InitPlays /\ [][NextPlays]_playVars

-----------------------------------------------------------------------------
(* getImpressionMeasurement: an item was played if a session or a thumb up  *)
(* names its own impression; a play of the scene from another one does not  *)
(* count.                                                                   *)
Items == {item \in ImpressionId \X Listed : item[2] \in shown[item[1]].scenes}

PlayedItems ==
  {item \in ImpressionId \X Listed :
    \/ \E p \in SessionId : /\ sessions[p] # NoSession
                            /\ sessions[p].scene = item[2]
                            /\ sessions[p].impression = item[1]
                            /\ ObservedPlayback(sessions[p])
    \/ \E up \in thumbs : up.scene = item[2] /\ up.impression = item[1]}

Buckets == [shown       |-> Items,
            played      |-> Items \cap PlayedItems,
            skipped     |-> Items \ PlayedItems,
            never_shown |-> {s \in stored : \A item \in Items : item[2] # s}]

(* However the reports are repeated, reordered or cut short, a shown scene  *)
(* is recommended once, and every signal has its session: no evidence of a  *)
(* play outlives it when Stash deletes a scene, the replaced scene's or the *)
(* replacing one's, and at most one session is blamed per replacement.      *)
SignalsHaveSessions ==
  /\ recommended = qualified
  /\ \A e \in signals : /\ e.scene \in stored
                        /\ sessions[e.session].scene = e.scene
  /\ \A e, f \in signals : e.id = f.id => e = f

(* The evidence of one session does not contradict itself: a scene that was *)
(* played past the threshold is never counted as quickly replaced, and one  *)
(* that was is a scene some impression named and its viewer left at once;   *)
(* a scene never shown has no played item.                                  *)
ReplacedWereLeft ==
  /\ \A e \in signals : e.id[2] = "replacement" =>
       /\ ~\E f \in signals : f.session = e.session /\ f.positive
       /\ sessions[e.session].impression # NoImpression
  /\ \A s \in Buckets.never_shown, item \in Buckets.played : item[2] # s

(* What the reports of the browser add up to is what was shown and played.  *)
PlaysAddUp == SignalsHaveSessions /\ ReplacedWereLeft
=============================================================================
