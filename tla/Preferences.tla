---------------------------- MODULE Preferences ----------------------------
(***************************************************************************)
(* Direct tag preferences and "Why these?" answers: append-only histories  *)
(* under ids the clients choose, and the one preference of a tag that      *)
(* counts.  src/core/writes.go.                                            *)
(***************************************************************************)
EXTENDS Library, Integers, FiniteSets

CONSTANTS
  Tag,
  PreferenceId,   \* preference ids: <<at, id>> orders the history, so a set of integers
  AnswerId,
  MaxAt           \* bound: the times the clients give

ASSUME PreferencesAssumption == PreferenceId \subseteq Nat /\ "none" \notin Tag /\ MaxAt \in Nat

Sentiment == {"like", "dislike", "cleared"}   \* the seven-point scale, and null
Subject == {"performer", "tag", "scene"}

VARIABLES
  roles,     \* tags with a tag_role: the others are dropped
  history,   \* direct_tag_preference_history by id
  current,   \* direct_tag_preference: the id that counts for a tag
  library,   \* source_scene
  answers,   \* scene_reason_answer and scene_reason, by id
  pending,   \* a submitted entry between its normalisation and the transaction
  asked      \* coordinatorRequest: a generation is asked for

preferenceVars == <<roles, history, current>>
answerVars == <<library, answers>>
prefVars == <<preferenceVars, answerVars, pending, asked>>

None == [tag |-> "none"]
NoPreference == 0 - 1
NoAnswer == [scene |-> "none"]
Nothing == [kind |-> "none"]

InitPreferences ==
  /\ roles = Tag
  /\ history = [p \in PreferenceId |-> None]
  /\ current = [t \in Tag |-> NoPreference]
  /\ library = Scene
  /\ answers = [a \in AnswerId |-> NoAnswer]
  /\ pending = Nothing /\ asked = FALSE

-----------------------------------------------------------------------------
(* normalizeTagPreferenceEntry reads tag_role before the transaction; a tag *)
(* without a role is dropped.  A blocked tag counts as a dislike.           *)
Normalize(p, t, value, blocked, at) ==
  /\ pending = Nothing
  /\ t \in roles
  /\ pending' = [kind |-> "preference", id |-> p, tag |-> t, at |-> at,
                 value |-> IF blocked THEN "dislike" ELSE value]
  /\ UNCHANGED <<preferenceVars, answerVars, asked>>

(* Position in a tag's history: by time, then by id. *)
Newer(rows, p, q) == \/ rows[p].at > rows[q].at
                     \/ rows[p].at = rows[q].at /\ p >= q

(* The preference that counts is newer than the one that arrives. *)
NeverOutranked(rows, old, p) == FALSE
Outranked(rows, old, p) == old # NoPreference /\ Newer(rows, old, p)

(* submitTagPreferences, for an entry that is new: what counted before is   *)
(* replaced by it, or it by what counts, whichever is older.                *)
SubmitTagPreference ==
  LET p == pending.id
      t == pending.tag
      row == [tag |-> t, at |-> pending.at, value |-> pending.value, by |-> NoPreference]
      rows == [history EXCEPT ![p] = row]
      old == current[t]
  IN /\ pending.kind = "preference"
     /\ pending' = Nothing
     /\ UNCHANGED <<roles, answerVars>>
     /\ \/ /\ history[p] # None \/ t \notin roles  \* OR IGNORE; the foreign key
           /\ UNCHANGED <<history, current, asked>>
        \/ /\ history[p] = None /\ t \in roles
           /\ asked' = TRUE
           /\ IF Outranked(rows, old, p)
              THEN history' = [rows EXCEPT ![p].by = old] /\ UNCHANGED current
              ELSE /\ history' = IF old = NoPreference THEN rows
                                 ELSE [rows EXCEPT ![old].by = p]
                   /\ current' = [current EXCEPT ![t] =
                                    IF pending.value = "cleared" THEN NoPreference ELSE p]

(* Stash deletes a tag: its history and its preference cascade. *)
DeleteTag(t) ==
  /\ t \in roles
  /\ roles' = roles \ {t}
  /\ history' = [p \in PreferenceId |-> IF history[p].tag = t THEN None ELSE history[p]]
  /\ current' = [current EXCEPT ![t] = NoPreference]
  /\ UNCHANGED <<answerVars, pending, asked>>

-----------------------------------------------------------------------------
(* normalizeSceneReasonEntry: a scene that left the library is dropped, and *)
(* an answer names a reason or flips Curator's direction.                   *)
NormalizeAnswer(a, s, reasons, flipped) ==
  /\ pending = Nothing
  /\ s \in library
  /\ reasons # {} \/ flipped
  /\ pending' = [kind |-> "answer", id |-> a, scene |-> s, reasons |-> reasons,
                 flipped |-> flipped]
  /\ UNCHANGED <<preferenceVars, answerVars, asked>>

SubmitSceneReasons ==
  /\ pending.kind = "answer"
  /\ pending' = Nothing
  /\ UNCHANGED <<preferenceVars, library>>
  /\ IF answers[pending.id] # NoAnswer \/ pending.scene \notin library
     THEN UNCHANGED <<answers, asked>>
     ELSE /\ answers' = [answers EXCEPT ![pending.id] =
                           [scene |-> pending.scene, reasons |-> pending.reasons,
                            flipped |-> pending.flipped]]
          /\ asked' = TRUE

(* Stash deletes a scene: its answers cascade. *)
DeleteScene(s) ==
  /\ s \in library
  /\ library' = library \ {s}
  /\ answers' = [a \in AnswerId |-> IF answers[a].scene = s THEN NoAnswer ELSE answers[a]]
  /\ UNCHANGED <<preferenceVars, pending, asked>>

NextPreferences ==
  \/ \E p \in PreferenceId, t \in Tag, value \in Sentiment, blocked \in BOOLEAN,
        at \in 0..MaxAt : Normalize(p, t, value, blocked, at)
  \/ SubmitTagPreference
  \/ \E t \in Tag : DeleteTag(t)
  \/ \E a \in AnswerId, s \in Scene, reasons \in SUBSET Subject, flipped \in BOOLEAN :
       NormalizeAnswer(a, s, reasons, flipped)
  \/ SubmitSceneReasons
  \/ \E s \in Scene : DeleteScene(s)

SpecPreferences == InitPreferences /\ [][NextPreferences]_prefVars

-----------------------------------------------------------------------------
Rows(t) == {p \in PreferenceId : history[p].tag = t}
Replaced(p) == history[p].by # NoPreference

(* Of all the preferences a tag ever got, in whatever order they arrived,   *)
(* at most one counts: the one that is neither cleared nor replaced; what   *)
(* replaced a preference is never older than it; and unless somebody        *)
(* cleared the tag, the one that counts is the newest of all.               *)
OnePreferenceCounts ==
  \A t \in Tag :
    /\ {p \in Rows(t) : ~Replaced(p) /\ history[p].value # "cleared"} = {current[t]} \ {NoPreference}
    /\ \A p \in Rows(t) : Replaced(p) =>
         history[p].by \in Rows(t) /\ Newer(history, history[p].by, p)
    /\ (\A p \in Rows(t) : history[p].value # "cleared") =>
         \A p \in Rows(t) : Newer(history, current[t], p)
=============================================================================
