----------------------------- MODULE Historical -----------------------------
(***************************************************************************)
(* Sessions and outcomes rebuilt from Stash's play and O timestamps:       *)
(* src/core/historical.go.  The rebuild reads scenes, plays and Os one     *)
(* after the other and replaces the rows of its selection in one           *)
(* transaction; what Stash's library gains meanwhile waits for the next.   *)
(***************************************************************************)
EXTENDS Library, Integers, FiniteSets

CONSTANTS
  MaxHour,    \* bound: the timestamps
  MatchWindow,   \* oMatchWindowHours
  Average     \* what an average session says: "short" or "long"

ASSUME HistoricalAssumption == MaxHour \in Nat /\ MatchWindow \in Nat /\ Average \in {"short", "long"}

VARIABLES
  plays, os,    \* source_play, source_o: the timestamps of a scene
  rebuilt,      \* rows with provenance historical_*: sessions and outcomes of a scene
  reading,      \* the rebuild between its reads and its transaction
  stale         \* history: scenes that changed since their last rebuild began to read

histVars == <<plays, os, rebuilt, reading, stale>>

Distance(a, b) == IF a < b THEN b - a ELSE a - b

-----------------------------------------------------------------------------
(* matchOs: the pairs within the window, nearest first and by index among   *)
(* equals; each is taken unless its play or its O went to one before it.    *)
(* MatchOs says what that pass leaves in its maps, not how it gets there.   *)
Pairs(ps, outcomes) ==
  {x \in ps \X outcomes : Distance(x[1], x[2]) <= MatchWindow}

Before(x, y) ==
  \/ Distance(x[1], x[2]) < Distance(y[1], y[2])
  \/ /\ Distance(x[1], x[2]) = Distance(y[1], y[2])
     /\ x[1] < y[1] \/ (x[1] = y[1] /\ x[2] < y[2])

InTheWay(y, x) == Before(y, x) /\ (y[1] = x[1] \/ y[2] = x[2])

MatchOsShared(ps, outcomes) == Pairs(ps, outcomes)

MatchOs(ps, outcomes) ==
  LET pairs == Pairs(ps, outcomes)
  IN CHOOSE taken \in SUBSET pairs :
       \A x \in pairs : x \in taken <=> ~\E y \in taken : InTheWay(y, x)

(* The signals of a session: how long it was, that it repeats an earlier    *)
(* one, its O; collapseSignals keeps the strongest and, among equals, the   *)
(* latest, and the others that agree with it only raise the confidence.     *)
Strength == [o |-> 3, view |-> 2, repeat |-> 1]

SignalsOf(p, ps, matched) ==
  (IF Average = "long" THEN {[type |-> "view", at |-> p]} ELSE {})
  \cup (IF \E q \in ps : q < p THEN {[type |-> "repeat", at |-> p]} ELSE {})
  \cup {[type |-> "o", at |-> m[2]] : m \in {x \in matched : x[1] = p}}

CollapseSignals(signals) ==
  CHOOSE x \in signals : \A y \in signals :
    \/ Strength[y.type] < Strength[x.type]
    \/ Strength[y.type] = Strength[x.type] /\ y.at <= x.at

(* reconstructHistory: one session per play, with its outcome if any, and   *)
(* an outcome of its own for every O that no play took.                     *)
ReconstructHistory(ps, outcomes) ==
  LET matched == MatchOs(ps, outcomes) IN
  [sessions |-> {[at |-> p, o |-> {m[2] : m \in {x \in matched : x[1] = p}},
                  outcome |-> IF SignalsOf(p, ps, matched) = {} THEN {}
                              ELSE {CollapseSignals(SignalsOf(p, ps, matched))}] : p \in ps},
   standalone |-> outcomes \ {m[2] : m \in matched}]

-----------------------------------------------------------------------------
NotReading == [selection |-> {}]
Empty == [sessions |-> {}, standalone |-> {}]

InitHistory ==
  /\ plays \in [Scene -> SUBSET (0..MaxHour)]
  /\ os \in [Scene -> SUBSET (0..MaxHour)]
  /\ rebuilt = [s \in Scene |-> Empty]
  /\ reading = NotReading
  /\ stale = Scene

(* The sync saves a scene with the timestamps Stash has now. *)
SyncScene(s, at, o) ==
  /\ plays' = [plays EXCEPT ![s] = @ \cup {at}]
  /\ os' = [os EXCEPT ![s] = @ \cup o]
  /\ <<plays', os'>> # <<plays, os>>
  /\ stale' = stale \cup {s}
  /\ UNCHANGED <<rebuilt, reading>>

(* historicalRebuild(selection): nil stands for every scene, an empty       *)
(* selection for none.                                                      *)
BeginRebuild(selection) ==
  /\ reading = NotReading
  /\ reading' = [selection |-> selection, plays |-> plays]
  /\ stale' = stale \ selection
  /\ UNCHANGED <<plays, os, rebuilt>>

(* The Os are read after the plays. *)
FinishRebuild ==
  /\ reading # NotReading
  /\ rebuilt' = [s \in Scene |-> IF s \in reading.selection
                                 THEN ReconstructHistory(reading.plays[s], os[s])
                                 ELSE rebuilt[s]]
  /\ reading' = NotReading
  /\ UNCHANGED <<plays, os, stale>>

RebuildDies ==
  /\ reading # NotReading
  /\ reading' = NotReading
  /\ stale' = stale \cup reading.selection
  /\ UNCHANGED <<plays, os, rebuilt>>

NextHistory ==
  \/ \E s \in Scene, at \in 0..MaxHour, o \in SUBSET (0..MaxHour) :
       Cardinality(o) <= 1 /\ SyncScene(s, at, o)
  \/ \E selection \in SUBSET Scene \ {{}} : BeginRebuild(selection)
  \/ FinishRebuild \/ RebuildDies

SpecHistory == InitHistory /\ [][NextHistory]_histVars

-----------------------------------------------------------------------------
(* A scene that did not change since its rebuild counts every play and      *)
(* every O of Stash exactly once: an O belongs to one session near it or    *)
(* stands alone, and it stands alone only if every play within the window   *)
(* has an O of its own that is no further away.                             *)
HistoryCountsOnce ==
  reading = NotReading => \A s \in Scene \ stale :
    LET sessions == rebuilt[s].sessions IN
    /\ {x.at : x \in sessions} = plays[s]
    /\ \A o \in os[s] :
         /\ Cardinality({x \in sessions : o \in x.o}) = (IF o \in rebuilt[s].standalone THEN 0 ELSE 1)
         /\ o \in rebuilt[s].standalone => \A x \in sessions :
              Distance(x.at, o) <= MatchWindow =>
                \E other \in x.o : Distance(x.at, other) <= Distance(x.at, o)
    /\ \A x \in sessions : Cardinality(x.o) <= 1
         /\ (x.o # {} => \E y \in x.outcome : y.type = "o" /\ y.at \in x.o)
=============================================================================
