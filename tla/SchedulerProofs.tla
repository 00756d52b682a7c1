-------------------------- MODULE SchedulerProofs --------------------------
(***************************************************************************)
(* Proofs about Scheduler, for any schedules, intervals and bounds: what   *)
(* the watermark of the plays says of the source tables, that the backup   *)
(* goes before a rebuild, and that a schedule of less than two days keeps  *)
(* its interval and its hour.                                              *)
(***************************************************************************)
EXTENDS Scheduler, SequenceTheorems, WellFoundedInduction, TLAPS

\* What sync-plays has read stays read until it is complete, but for plays
\* that end later.
FetchedPlaysAreImported == pc = "fetched" => imported \/ late

PlaysInv == SyncedPlaysAreImported /\ FetchedPlaysAreImported

\* No step breaks it: only sync-plays, when it is complete, takes the plays
\* for synced, and it has read them before.
LEMMA PlaysInvStep == ASSUME PlaysInv, [Next]_vars PROVE PlaysInv'
  <1> USE DEF PlaysInv, SyncedPlaysAreImported, FetchedPlaysAreImported
  <1>1. CASE StartTick \/ SkipTick \/ ClaimQueuedJob \/ IdlePass
    BY <1>1 DEF StartTick, SkipTick, ClaimQueuedJob, IdlePass, playVars
  <1>2. CASE RunDueSchedule \/ AdvanceSchedule \/ RunAutoTasks \/ TickFails
    BY <1>2 DEF RunDueSchedule, AdvanceSchedule, RunAutoTasks, TickFails, GoOn,
         playVars, daemonVars
  <1>3. CASE FetchPlays
    BY <1>3 DEF FetchPlays
  <1>4. CASE JobEnds
    <2>1. PICK i \in Running, complete \in BOOLEAN :
            /\ complete => (pc = "fetched" <=> rows[i].type = "sync-plays")
            /\ unsynced' = (unsynced
                              /\ ~(complete /\ rows[i].type = "sync-plays"))
      BY <1>4 DEF JobEnds
    <2>2. ~unsynced' => ~unsynced \/ pc = "fetched"
      BY <2>1
    <2>3. pc' = "pass" /\ UNCHANGED <<imported, late>>
      BY <1>4 DEF JobEnds
    <2>. QED
      BY <2>2, <2>3
  <1>5. CASE Crash \/ DaemonStart \/ RecoverOrphanJobs
    BY <1>5 DEF Crash, DaemonStart, RecoverOrphanJobs, playVars, daemonVars
  <1>6. CASE PlayEnds
    BY <1>6 DEF PlayEnds, daemonVars
  <1>7. CASE Feedback \/ PageChanges \/ HourPasses
    BY <1>7 DEF Feedback, PageChanges, HourPasses, playVars, daemonVars
  <1>8. ASSUME NEW t \in Scheduled, ChangeSettings(t) PROVE PlaysInv'
    BY <1>8 DEF ChangeSettings, playVars
  <1>9. CASE UNCHANGED vars
    BY <1>9 DEF vars, playVars, daemonVars
  <1>. QED
    BY <1>1, <1>2, <1>3, <1>4, <1>5, <1>6, <1>7, <1>8, <1>9
    DEF Next, DaemonNext

\* Plays that the watermark takes for synced have been imported, unless the
\* latest of them ended while sync-plays was executed (autotasks.go:104).
THEOREM WatermarkIsHonest == Spec => []SyncedPlaysAreImported
  <1>1. Init => PlaysInv
    BY DEF Init, PlaysInv, SyncedPlaysAreImported, FetchedPlaysAreImported
  <1>2. PlaysInv => SyncedPlaysAreImported
    BY DEF PlaysInv
  <1>. QED
    BY <1>1, <1>2, PlaysInvStep, PTL DEF Spec

-----------------------------------------------------------------------------
(* The backup goes before the rebuild.                                     *)

JobType == Scheduled \union {"update-model", "sync-plays"}
JobRow == [type : JobType, state : {"queued", "running", "dead"}, age : Int]

ScheduleTypes ==
  /\ hour \in Int /\ at \in Nat
  /\ enabled \in [Scheduled -> BOOLEAN] /\ atHour \in [Scheduled -> Int]
  /\ next \in [Scheduled -> Int]
  /\ rows \in Seq(JobRow)

\* The tick has dealt with the backup before it comes to a later schedule.
BackupSeen ==
  /\ pc = "advance" => at \in 1..Len(Specs)
  /\ pc \in {"tick", "advance"} =>
       \A i \in 1..Len(Specs) :
         (Specs[i] = "backup" /\ i < at) => "backup" \notin Due

\* What is executed was queued before all that waits.
RunningIsFirst == \A i \in Running, j \in Queued : i < j

BackupInv == ScheduleTypes /\ BackupSeen /\ RunningIsFirst

\* A schedule that has fired is not due again in the same hour.
LEMMA NextOccurrenceIsAhead ==
  ASSUME NEW h \in Int, hour \in Int
  PROVE  NextOccurrenceOfHour(h) \in Nat \ {0}
  BY SchedulerAssumptions DEF NextOccurrenceOfHour

LEMMA SmallestOfSet ==
  ASSUME NEW S, S \subseteq Nat, S # {}
  PROVE  \E s \in S : \A r \in S : s <= r
  <1>1. PICK s \in S : \A r \in S : <<r, s>> \notin OpToRel(<, Nat)
    BY NatLessThanWellFounded, WFMin
  <1>2. \A r \in S : ~(r < s)
    BY <1>1 DEF OpToRel
  <1>. QED
    BY <1>2

LEMMA NextRunIsAhead ==
  ASSUME ScheduleTypes, NEW t \in Scheduled
  PROVE  NextRunFor(t) \in Nat \ {0}
  <1>1. Interval[t] \in Nat \ {0} /\ atHour[t] \in Int /\ hour \in Int
    BY SchedulerAssumptions DEF ScheduleTypes
  <1> DEFINE base == NextOccurrenceOfHour(atHour[t])
             slots == {base} \union
                        {s \in 1..base : ((s - base) + Day) % Interval[t] = 0}
  <1>2. base \in Nat \ {0}
    BY <1>1, NextOccurrenceIsAhead
  <1>3. CASE atHour[t] = NoHour
    BY <1>1, <1>3 DEF NextRunFor
  <1>4. CASE atHour[t] # NoHour /\ Interval[t] < Day
    <2>1. slots \subseteq Nat \ {0} /\ slots # {} /\ base \in slots
      BY <1>2
    <2>3. (CHOOSE s \in slots : \A r \in slots : s <= r) \in slots
      BY <2>1, SmallestOfSet
    <2>. QED
      BY <1>4, <2>1, <2>3 DEF NextRunFor, NextAnchoredRun
  <1>5. CASE atHour[t] # NoHour /\ ~(Interval[t] < Day)
    <2>1. (Interval[t] \div Day) - 1 \in Nat
      BY <1>1, <1>5, SchedulerAssumptions
    <2>2. ((Interval[t] \div Day) - 1) * Day \in Nat
      BY <2>1, SchedulerAssumptions
    <2>. QED
      BY <1>2, <1>5, <2>2 DEF NextRunFor, NextAnchoredRun
  <1>. QED
    BY <1>3, <1>4, <1>5

\* A row with another state, or another age.
LEMMA RowWithState ==
  ASSUME NEW r \in JobRow, NEW s \in {"queued", "running", "dead"}
  PROVE  [r EXCEPT !.state = s] \in JobRow /\ [r EXCEPT !.state = s].state = s
  BY DEF JobRow

LEMMA RowWithAge ==
  ASSUME NEW r \in JobRow, NEW a \in Int
  PROVE  [r EXCEPT !.age = a] \in JobRow /\ [r EXCEPT !.age = a].state = r.state
  BY DEF JobRow

\* Removing a row keeps the types and the order of the others.
LEMMA WithoutARow ==
  ASSUME rows \in Seq(JobRow), NEW i \in 1..Len(rows)
  PROVE  /\ Without(i) \in Seq(JobRow)
         /\ Len(Without(i)) = Len(rows) - 1
         /\ \A k \in 1..Len(rows) - 1 :
              Without(i)[k] = rows[IF k < i THEN k ELSE k + 1]
  <1> DEFINE front == SubSeq(rows, 1, i - 1)
             back == SubSeq(rows, i + 1, Len(rows))
  <1>1. \A k \in 1..Len(rows) : rows[k] \in JobRow
    BY ElementOfSeq
  <1>2. /\ front \in Seq(JobRow) /\ Len(front) = i - 1
        /\ \A k \in 1..i - 1 : front[k] = rows[k]
    BY <1>1, SubSeqProperties
  <1>3. /\ back \in Seq(JobRow) /\ Len(back) = Len(rows) - i
        /\ \A k \in 1..Len(rows) - i : back[k] = rows[i + k]
    BY <1>1, SubSeqProperties
  <1> HIDE DEF front, back
  <1>4. /\ front \o back \in Seq(JobRow)
        /\ Len(front \o back) = Len(front) + Len(back)
        /\ \A k \in 1..Len(front) + Len(back) : (front \o back)[k] =
             IF k <= Len(front) THEN front[k] ELSE back[k - Len(front)]
    BY <1>2, <1>3, ConcatProperties
  <1>5. Without(i) = front \o back
    BY DEF Without, front, back
  <1>6. Len(front) + Len(back) = Len(rows) - 1
    BY <1>2, <1>3
  <1>7. ASSUME NEW k \in 1..Len(rows) - 1
        PROVE  (front \o back)[k] = rows[IF k < i THEN k ELSE k + 1]
    <2>1. CASE k < i
      BY <1>2, <1>4, <1>6, <2>1
    <2>2. CASE ~(k < i)
      <3>1. k - (i - 1) \in 1..Len(rows) - i /\ i + (k - (i - 1)) = k + 1
        BY <2>2
      <3>2. (front \o back)[k] = back[k - (i - 1)]
        BY <1>2, <1>4, <1>6, <2>2
      <3>. QED
        BY <1>3, <2>2, <3>1, <3>2
    <2>. QED
      BY <2>1, <2>2
  <1>. QED
    BY <1>4, <1>5, <1>6, <1>7

\* No step enqueues a rebuild while the backup is due, or leaves the order.
LEMMA SameSchedules ==
  ASSUME BackupInv, UNCHANGED <<hour, settings, next>>,
         at' \in Nat, rows' \in Seq(JobRow), RunningIsFirst',
         pc' \notin {"tick", "advance"}
  PROVE  BackupInv'
  BY DEF BackupInv, ScheduleTypes, BackupSeen, settings

LEMMA SameRows ==
  ASSUME RunningIsFirst, rows' = rows
  PROVE  RunningIsFirst'
  BY DEF RunningIsFirst, Running, Queued

LEMMA EnqueueKeepsOrder ==
  ASSUME BackupInv, NEW type \in JobType, EnqueueAutoTask(type)
  PROVE  rows' \in Seq(JobRow) /\ RunningIsFirst'
  <1> DEFINE new == [type |-> type, state |-> "queued", age |-> 0]
  <1>1. CASE rows' = rows
    BY <1>1, SameRows DEF BackupInv, ScheduleTypes
  <1>2. CASE rows' = Append(rows, new)
    <2>1. new \in JobRow /\ new.state = "queued" /\ rows \in Seq(JobRow)
      BY DEF JobRow, BackupInv, ScheduleTypes
    <2>2. /\ rows' \in Seq(JobRow) /\ Len(rows') = Len(rows) + 1
          /\ \A k \in 1..Len(rows) : rows'[k] = rows[k]
          /\ rows'[Len(rows) + 1] = new
      BY <1>2, <2>1
    <2>. QED
      BY <2>1, <2>2 DEF BackupInv, RunningIsFirst, Running, Queued
  <1>. QED
    BY <1>1, <1>2 DEF EnqueueAutoTask

LEMMA RemovingKeepsOrder ==
  ASSUME BackupInv, NEW i \in 1..Len(rows), rows' = Without(i)
  PROVE  rows' \in Seq(JobRow) /\ RunningIsFirst'
  <1>1. rows \in Seq(JobRow)
    BY DEF BackupInv, ScheduleTypes
  <1>2. /\ rows' \in Seq(JobRow) /\ Len(rows') = Len(rows) - 1
        /\ \A k \in 1..Len(rows) - 1 :
             rows'[k] = rows[IF k < i THEN k ELSE k + 1]
    BY <1>1, WithoutARow
  <1> DEFINE old(k) == IF k < i THEN k ELSE k + 1
  <1>3. ASSUME NEW k \in Running', NEW j \in Queued'
        PROVE  k < j
    <2>1. k \in 1..Len(rows) - 1 /\ j \in 1..Len(rows) - 1
      BY <1>1, <1>2 DEF Running, Queued
    <2>2. old(k) \in Running /\ old(j) \in Queued
      <3>1. rows'[k] = rows[old(k)] /\ rows'[j] = rows[old(j)]
        BY <1>2, <2>1
      <3>2. rows'[k].state = "running" /\ rows'[j].state = "queued"
        BY DEF Running, Queued
      <3>3. old(k) \in 1..Len(rows) /\ old(j) \in 1..Len(rows)
        BY <1>1, <2>1
      <3>. QED
        BY <3>1, <3>2, <3>3 DEF Running, Queued
    <2>3. old(k) < old(j)
      BY <2>2 DEF BackupInv, RunningIsFirst
    <2>. QED
      BY <2>1, <2>3
  <1>. QED
    BY <1>2, <1>3 DEF RunningIsFirst

\* GoOn leaves the tick, or comes to the next schedule.
LEMMA GoingOn ==
  ASSUME ScheduleTypes, GoOn
  PROVE  at' \in Nat /\ (pc' = "claim" \/ (pc' = "tick" /\ at' = at + 1))
  BY DEF ScheduleTypes, GoOn

LEMMA BackupInvInit == ASSUME Init PROVE BackupInv
  <1>1. hour \in Int /\ at \in Nat /\ rows \in Seq(JobRow) /\ rows = <<>>
    BY DEF Init
  <1>2. enabled \in [Scheduled -> BOOLEAN] /\ next \in [Scheduled -> Int]
    BY DEF Init, NoRow
  <1>3. atHour \in [Scheduled -> Int]
    BY DEF Init, NoHour
  <1>4. Queued = {} /\ Running = {}
    BY <1>1 DEF Queued, Running
  <1>. QED
    BY <1>1, <1>2, <1>3, <1>4
    DEF Init, BackupInv, ScheduleTypes, BackupSeen, RunningIsFirst

LEMMA BackupInvStep == ASSUME BackupInv, [Next]_vars PROVE BackupInv'
  <1> USE DEF BackupInv
  <1>1. CASE StartTick
    <2>1. RunningIsFirst'
      BY <1>1, SameRows DEF StartTick
    <2>. QED
      BY <1>1, <2>1 DEF StartTick, ScheduleTypes, BackupSeen, settings
  <1>2. CASE SkipTick \/ IdlePass \/ FetchPlays \/ TickFails \/ DaemonStart
    <2>1. RunningIsFirst'
      BY <1>2, SameRows
      DEF SkipTick, IdlePass, FetchPlays, TickFails, DaemonStart
    <2>. QED
      BY <1>2, <2>1 DEF SkipTick, IdlePass, FetchPlays, TickFails,
           DaemonStart, ScheduleTypes, BackupSeen, settings
  <1>3. CASE RunDueSchedule
    <2> DEFINE t == Specs[at]
    <2>1. t \in Scheduled /\ pc = "tick" /\ at \in 1..Len(Specs)
      BY <1>3 DEF RunDueSchedule, Scheduled
    <2>2. NextRunFor(t) \in Nat \ {0}
      BY <2>1, NextRunIsAhead
    <2>3. UNCHANGED <<hour, settings>>
      BY <1>3 DEF RunDueSchedule
    <2>4. CASE GoOn /\ UNCHANGED <<next, rows>> /\ (~enabled[t] \/ next[t] > 0)
      <3>1. RunningIsFirst'
        BY <2>4, SameRows
      <3>. QED
        BY <2>1, <2>3, <2>4, <3>1, GoingOn, SMTT(40)
        DEF ScheduleTypes, BackupSeen, Due, settings
    <2>5. CASE /\ GoOn /\ UNCHANGED rows
               /\ next' = [next EXCEPT ![t] = NextRunFor(t)]
      <3>1. RunningIsFirst'
        BY <2>5, SameRows
      <3>. QED
        BY <2>1, <2>2, <2>3, <2>5, <3>1, GoingOn
        DEF ScheduleTypes, BackupSeen, Due, settings
    <2>6. CASE EnqueueAutoTask(t) /\ pc' = "advance" /\ UNCHANGED <<next, at>>
      <3>1. t \in JobType
        BY <2>1 DEF JobType
      <3>2. rows' \in Seq(JobRow) /\ RunningIsFirst'
        BY <2>6, <3>1, EnqueueKeepsOrder
      <3>. QED
        BY <2>1, <2>3, <2>6, <3>2
        DEF ScheduleTypes, BackupSeen, Due, settings
    <2>. QED
      BY <1>3, <2>4, <2>5, <2>6 DEF RunDueSchedule
  <1>4. CASE AdvanceSchedule
    <2> DEFINE t == Specs[at]
    <2>1. t \in Scheduled /\ at \in 1..Len(Specs) /\ RunningIsFirst'
      BY <1>4, SameRows DEF AdvanceSchedule, BackupSeen, Scheduled
    <2>2. NextRunFor(t) \in Nat \ {0}
      BY <2>1, NextRunIsAhead
    <2>. QED
      BY <1>4, <2>1, <2>2, GoingOn, SMTT(40)
      DEF AdvanceSchedule, ScheduleTypes, BackupSeen, Due, settings
  <1>5. CASE RunAutoTasks
    <2>1. rows' \in Seq(JobRow) /\ RunningIsFirst'
      <3>1. CASE UNCHANGED rows
        BY <3>1, SameRows DEF ScheduleTypes
      <3>2. CASE EnqueueAutoTask("update-model")
        BY <3>2, EnqueueKeepsOrder DEF JobType
      <3>3. CASE EnqueueAutoTask("sync-plays")
        BY <3>3, EnqueueKeepsOrder DEF JobType
      <3>. QED
        BY <1>5, <3>1, <3>2, <3>3 DEF RunAutoTasks
    <2>. QED
      BY <1>5, <2>1, GoingOn
      DEF RunAutoTasks, ScheduleTypes, BackupSeen, Due, settings
  <1>6. CASE ClaimQueuedJob
    <2>1. PICK i \in 1..Len(rows) :
            /\ Claimable(i)
            /\ rows' = [rows EXCEPT ![i].state = "running"]
      BY <1>6 DEF ClaimQueuedJob
    <2>2. /\ rows' \in Seq(JobRow) /\ Len(rows') = Len(rows)
          /\ \A k \in 1..Len(rows) : k # i => rows'[k] = rows[k]
          /\ rows'[i].state = "running"
      <3>1. rows[i] \in JobRow /\ rows \in Seq(JobRow)
        BY ElementOfSeq DEF ScheduleTypes
      <3>2. rows' = [rows EXCEPT ![i] = [rows[i] EXCEPT !.state = "running"]]
        BY <2>1
      <3> DEFINE new == [rows[i] EXCEPT !.state = "running"]
      <3>3. new \in JobRow /\ new.state = "running"
        BY <3>1, RowWithState
      <3> HIDE DEF new
      <3>4. rows' = [rows EXCEPT ![i] = new]
        BY <3>2 DEF new
      <3>. QED
        BY <3>1, <3>3, <3>4
    <2>3. RunningIsFirst'
      BY <2>1, <2>2 DEF RunningIsFirst, Running, Queued, Claimable
    <2>. QED
      BY <1>6, <2>2, <2>3, SameSchedules DEF ClaimQueuedJob, ScheduleTypes
  <1>7. CASE JobEnds
    <2>1. PICK i \in Running : rows' = Without(i)
      BY <1>7 DEF JobEnds
    <2>2. rows' \in Seq(JobRow) /\ RunningIsFirst'
      BY <2>1, RemovingKeepsOrder DEF Running
    <2>. QED
      BY <1>7, <2>2, SameSchedules DEF JobEnds, ScheduleTypes
  <1>8. CASE Crash
    <2>1. rows' = [i \in 1..Len(rows) |->
                     IF i \in Running THEN [rows[i] EXCEPT !.state = "dead"]
                     ELSE rows[i]]
      BY <1>8 DEF Crash
    <2>2. /\ rows' \in Seq(JobRow) /\ Len(rows') = Len(rows)
          /\ \A k \in 1..Len(rows) : rows'[k].state # "running"
      <3>1. rows \in Seq(JobRow) /\ \A k \in 1..Len(rows) : rows[k] \in JobRow
        BY ElementOfSeq DEF ScheduleTypes
      <3>2. ASSUME NEW k \in 1..Len(rows)
            PROVE  rows'[k] \in JobRow /\ rows'[k].state # "running"
        <4>1. CASE k \in Running
          <5> DEFINE new == [rows[k] EXCEPT !.state = "dead"]
          <5>1. new \in JobRow /\ new.state = "dead"
            BY <3>1, RowWithState
          <5>2. rows'[k] = new
            BY <2>1, <4>1
          <5> HIDE DEF new
          <5>. QED
            BY <5>1, <5>2
        <4>2. CASE k \notin Running
          BY <2>1, <3>1, <4>2 DEF Running
        <4>. QED
          BY <4>1, <4>2
      <3>3. DOMAIN rows' = 1..Len(rows) /\ Len(rows) \in Nat
        BY <2>1, <3>1
      <3>4. rows' = [k \in 1..Len(rows) |-> rows'[k]]
        BY <2>1
      <3>. QED
        BY <3>2, <3>3, <3>4
    <2>3. RunningIsFirst'
      BY <2>2 DEF RunningIsFirst, Running, Queued
    <2>. QED
      BY <1>8, <2>2, <2>3, SameSchedules DEF Crash
  <1>9. CASE RecoverOrphanJobs
    <2>1. rows' \in Seq(JobRow) /\ RunningIsFirst'
      BY <1>9, RemovingKeepsOrder DEF RecoverOrphanJobs
    <2>. QED
      BY <1>9, <2>1, SameSchedules
      DEF RecoverOrphanJobs, BetweenTicks, daemonVars, ScheduleTypes
  <1>10. ASSUME NEW t \in Scheduled, ChangeSettings(t) PROVE BackupInv'
    <2>1. RunningIsFirst'
      BY <1>10, SameRows DEF ChangeSettings
    <2>2. enabled' \in [Scheduled -> BOOLEAN] /\ atHour' \in [Scheduled -> Int]
      <3>1. CASE enabled' = [enabled EXCEPT ![t] = ~@] /\ UNCHANGED atHour
        <4>1. enabled \in [Scheduled -> BOOLEAN]
          BY DEF ScheduleTypes
        <4>2. enabled' \in [Scheduled -> BOOLEAN]
          BY <3>1, <4>1, ZenonT(20)
        <4>. QED
          BY <3>1, <4>2 DEF ScheduleTypes
      <3>2. ASSUME NEW h \in {NoHour, 0, 1},
                   atHour' = [atHour EXCEPT ![t] = h] /\ UNCHANGED enabled
            PROVE  /\ enabled' \in [Scheduled -> BOOLEAN]
                   /\ atHour' \in [Scheduled -> Int]
        <4>1. h \in Int
          BY DEF NoHour
        <4>. QED
          BY <3>2, <4>1 DEF ScheduleTypes
      <3>. QED
        BY <1>10, <3>1, <3>2 DEF ChangeSettings
    <2>3. UNCHANGED <<hour, next, rows, pc, at>> /\ BetweenTicks
      BY <1>10 DEF ChangeSettings
    <2>. QED
      BY <2>1, <2>2, <2>3 DEF BetweenTicks, ScheduleTypes, BackupSeen
  <1>11. CASE Feedback \/ PlayEnds \/ PageChanges \/ UNCHANGED vars
    <2>1. UNCHANGED <<hour, settings, next, rows, pc, at>>
      BY <1>11 DEF Feedback, PlayEnds, PageChanges, daemonVars, vars
    <2>2. RunningIsFirst'
      BY <2>1, SameRows
    <2>. QED
      BY <2>1, <2>2 DEF ScheduleTypes, BackupSeen, Due, settings
  <1>12. CASE HourPasses
    <2>1. rows' = [i \in 1..Len(rows) |->
                     [rows[i] EXCEPT !.age = IF @ < Window THEN @ + 1 ELSE @]]
      BY <1>12 DEF HourPasses
    <2>2. /\ rows' \in Seq(JobRow) /\ Len(rows') = Len(rows)
          /\ \A k \in 1..Len(rows) : rows'[k].state = rows[k].state
      <3>1. rows \in Seq(JobRow) /\ \A k \in 1..Len(rows) : rows[k] \in JobRow
        BY ElementOfSeq DEF ScheduleTypes
      <3>2. ASSUME NEW k \in 1..Len(rows)
            PROVE  rows'[k] \in JobRow /\ rows'[k].state = rows[k].state
        <4> DEFINE older == IF rows[k].age < Window THEN rows[k].age + 1
                            ELSE rows[k].age
        <4>1. rows'[k] = [rows[k] EXCEPT !.age = older]
          BY <2>1
        <4>2. older \in Int
          <5>1. rows[k].age \in Int
            BY <3>1 DEF JobRow
          <5>. QED
            BY <5>1
        <4> DEFINE new == [rows[k] EXCEPT !.age = older]
        <4>3. new \in JobRow /\ new.state = rows[k].state
          BY <3>1, <4>2, RowWithAge
        <4> HIDE DEF new
        <4>. QED
          BY <4>1, <4>3 DEF new
      <3>. QED
        BY <2>1, <3>1, <3>2
    <2>3. RunningIsFirst'
      BY <2>2 DEF RunningIsFirst, Running, Queued
    <2>4. hour' \in Int /\ next' \in [Scheduled -> Int]
      BY <1>12, SchedulerAssumptions, SMTT(40) DEF HourPasses, ScheduleTypes, Less
    <2>. QED
      BY <1>12, <2>2, <2>3, <2>4
      DEF HourPasses, ScheduleTypes, BackupSeen, settings
  <1>. QED
    BY <1>1, <1>2, <1>3, <1>4, <1>5, <1>6, <1>7, <1>8, <1>9, <1>10, <1>11,
       <1>12 DEF Next, DaemonNext

\* The state formula of BackupFirst, as a step.
BackupStep ==
  /\ (Len(rows') > Len(rows) /\ rows'[Len(rows')].type = "sync-build") =>
       "backup" \notin Due
  /\ \A i, j \in Queued :
       (rows[i].type = "sync-build" /\ rows[j].type = "backup" /\ j < i) =>
         i \notin Running'

\* Rows are added by the tick alone.
LEMMA OnlyTicksEnqueue ==
  ASSUME BackupInv, [Next]_vars, Len(rows') > Len(rows)
  PROVE  \/ RunDueSchedule /\ EnqueueAutoTask(Specs[at])
         \/ \E type \in {"update-model", "sync-plays"} : EnqueueAutoTask(type)
  <1>1. rows \in Seq(JobRow) /\ Len(rows) \in Nat
    BY LenProperties DEF BackupInv, ScheduleTypes
  <1>2. rows' # rows
    BY <1>1
  <1>3. ~(JobEnds \/ RecoverOrphanJobs)
    <2>1. \A i \in 1..Len(rows) : Len(Without(i)) = Len(rows) - 1
      BY <1>1, WithoutARow
    <2>. QED
      BY <1>1, <2>1 DEF JobEnds, RecoverOrphanJobs, Running
  <1>4. ~ClaimQueuedJob
    BY <1>1 DEF ClaimQueuedJob
  <1>5. ~(Crash \/ HourPasses)
    <2>1. CASE Crash
      <3>1. DOMAIN rows' = 1..Len(rows)
        BY <2>1 DEF Crash
      <3>2. rows' = [k \in 1..Len(rows) |-> rows'[k]]
        BY <2>1 DEF Crash
      <3>3. Len(rows') = Len(rows)
        BY <1>1, <3>1, <3>2
      <3>. QED
        BY <1>1, <3>3
    <2>2. CASE HourPasses
      BY <1>1, <2>2 DEF HourPasses
    <2>. QED
      BY <2>1, <2>2
  <1>6. RunDueSchedule => EnqueueAutoTask(Specs[at])
    BY <1>2 DEF RunDueSchedule
  <1>7. RunAutoTasks =>
          \E type \in {"update-model", "sync-plays"} : EnqueueAutoTask(type)
    BY <1>2 DEF RunAutoTasks
  <1>. QED
    BY <1>2, <1>3, <1>4, <1>5, <1>6, <1>7
    DEF Next, DaemonNext, vars, StartTick, SkipTick, AdvanceSchedule,
        IdlePass, FetchPlays, TickFails, DaemonStart, ChangeSettings,
        Feedback, PlayEnds, PageChanges

\* Only a row that is first in the queue comes to be executed.
LEMMA OnlyTheFirstStarts ==
  ASSUME BackupInv, [Next]_vars, NEW i \in Queued, i \in Running'
  PROVE  \A j \in Queued : i <= j
  <1>1. rows \in Seq(JobRow) /\ Len(rows) \in Nat
    BY LenProperties DEF BackupInv, ScheduleTypes
  <1>2. i \in 1..Len(rows) /\ rows[i].state = "queued"
        /\ rows'[i].state = "running" /\ i \in 1..Len(rows')
    BY DEF Queued, Running
  <1>3. rows' # rows
    BY <1>2
  <1>4. ASSUME NEW type \in JobType, EnqueueAutoTask(type)
        PROVE  FALSE
    <2>1. rows' = Append(rows, [type |-> type, state |-> "queued", age |-> 0])
      BY <1>3, <1>4 DEF EnqueueAutoTask
    <2>2. rows'[i] = rows[i]
      BY <1>1, <1>2, <2>1
    <2>. QED
      BY <1>2, <2>2
  <1>5. ASSUME NEW k \in 1..Len(rows), rows' = Without(k)
        PROVE  FALSE
    <2>1. Len(rows') = Len(rows) - 1
          /\ rows'[i] = rows[IF i < k THEN i ELSE i + 1]
      BY <1>1, <1>2, <1>5, WithoutARow
    <2>2. i + 1 \in Running
      BY <1>1, <1>2, <2>1 DEF Running
    <2>3. i + 1 < i
      BY <2>2 DEF BackupInv, RunningIsFirst
    <2>. QED
      BY <1>2, <2>3
  <1>6. ~Crash
    BY <1>1, <1>2 DEF Crash, Running
  <1>7. ~HourPasses
    <2>1. SUFFICES ASSUME HourPasses PROVE FALSE
      OBVIOUS
    <2> DEFINE older == IF rows[i].age < Window THEN rows[i].age + 1
                        ELSE rows[i].age
    <2>2. rows'[i] = [rows[i] EXCEPT !.age = older]
      BY <1>2, <2>1 DEF HourPasses
    <2>3. rows[i] \in JobRow
      BY <1>1, <1>2, ElementOfSeq
    <2>4. older \in Int
      <3>1. rows[i].age \in Int
        BY <2>3 DEF JobRow
      <3>. QED
        BY <3>1
    <2> HIDE DEF older
    <2>. QED
      BY <1>2, <2>2, <2>3, <2>4, RowWithAge
  <1>8. CASE ClaimQueuedJob
    <2>1. PICK k \in 1..Len(rows) :
            /\ Claimable(k)
            /\ rows' = [rows EXCEPT ![k].state = "running"]
      BY <1>8 DEF ClaimQueuedJob
    <2>2. i = k
      BY <1>1, <1>2, <2>1
    <2>. QED
      BY <2>1, <2>2 DEF Claimable
  <1>9. ~RunDueSchedule
    <2>1. SUFFICES ASSUME RunDueSchedule PROVE FALSE
      OBVIOUS
    <2>2. Specs[at] \in JobType /\ EnqueueAutoTask(Specs[at])
      BY <1>3, <2>1 DEF RunDueSchedule, JobType, Scheduled
    <2>. QED
      BY <1>4, <2>2
  <1>10. ~RunAutoTasks
    BY <1>3, <1>4 DEF RunAutoTasks, JobType
  <1>11. ~(JobEnds \/ RecoverOrphanJobs)
    BY <1>5 DEF JobEnds, RecoverOrphanJobs, Running
  <1>. QED
    BY <1>3, <1>6, <1>7, <1>8, <1>9, <1>10, <1>11
    DEF Next, DaemonNext, vars, StartTick, SkipTick, AdvanceSchedule,
        IdlePass, FetchPlays, TickFails, DaemonStart, ChangeSettings,
        Feedback, PlayEnds, PageChanges

LEMMA BackupStepHolds == ASSUME BackupInv, [Next]_vars PROVE BackupStep
  <1>1. ASSUME Len(rows') > Len(rows), rows'[Len(rows')].type = "sync-build",
               "backup" \in Due
        PROVE  FALSE
    <2>1. ASSUME NEW type \in JobType, EnqueueAutoTask(type)
          PROVE  type = "sync-build"
      <3>1. rows \in Seq(JobRow)
        BY DEF BackupInv, ScheduleTypes
      <3>2. rows' = Append(rows, [type |-> type, state |-> "queued", age |-> 0])
        BY <1>1, <2>1, <3>1 DEF EnqueueAutoTask
      <3>. QED
        BY <1>1, <3>1, <3>2
    <2>2. RunDueSchedule /\ Specs[at] = "sync-build"
      <3>1. RunDueSchedule => Specs[at] \in JobType
        BY DEF RunDueSchedule, JobType, Scheduled
      <3>. QED
        BY <1>1, <2>1, <3>1, OnlyTicksEnqueue DEF JobType
    <2>3. PICK i \in 1..Len(Specs) : Specs[i] = "backup"
      BY <1>1 DEF Due, Scheduled
    <2>4. at \in 1..Len(Specs) /\ i < at
      BY <2>2, <2>3, SchedulerAssumptions DEF RunDueSchedule
    <2>. QED
      BY <1>1, <2>2, <2>3, <2>4 DEF BackupInv, BackupSeen, RunDueSchedule
  <1>2. ASSUME NEW i \in Queued, NEW j \in Queued, j < i, i \in Running'
        PROVE  FALSE
    <2>1. i <= j /\ i \in Int /\ j \in Int
      BY <1>2, OnlyTheFirstStarts DEF Queued
    <2>. QED
      BY <1>2, <2>1
  <1>. QED
    BY <1>1, <1>2 DEF BackupStep

\* A rebuild does not start before a backup that is due with it: it is not
\* enqueued while the backup is due, nor claimed before a backup that waits
\* in front of it (autotasks.go:124).
THEOREM BackupGoesFirst == Spec => BackupFirst
  <1>1. Init => BackupInv
    BY BackupInvInit
  <1>2. BackupInv /\ [Next]_vars => [BackupStep]_vars
    BY BackupStepHolds
  <1>. QED
    BY <1>1, <1>2, BackupInvStep, PTL DEF Spec, BackupFirst, BackupStep


-----------------------------------------------------------------------------
(* Division.                                                               *)

LEMMA DivMod ==
  ASSUME NEW a \in Int, NEW n \in Nat \ {0}
  PROVE  /\ a = n * (a \div n) + (a % n)
         /\ a % n \in 0..n - 1 /\ a \div n \in Int
  OBVIOUS

LEMMA ModUnique ==
  ASSUME NEW n \in Nat \ {0}, NEW q \in Int, NEW r \in 0..n - 1
  PROVE  (n * q + r) % n = r
  OBVIOUS

-----------------------------------------------------------------------------
(* When an anchored schedule runs next.                                    *)

\* Every interval is less than two days: a schedule of two days or more is
\* put off again and again at its hour.
ShortIntervals == \A t \in Scheduled : Interval[t] < 2 * Day

Hours == 0..Day - 1
ShortInterval == 1..2 * Day - 1

\* NextOccurrenceOfHour and NextAnchoredRun at the hour now.
Occurrence(h, now) == 1 + ((h - now - 1) % Day)

\* The instants at which a schedule anchored to h may run, up to the next
\* occurrence of that hour.
Slots(h, interval, now) ==
  {Occurrence(h, now)} \union
    {s \in 1..Occurrence(h, now) :
       ((s - Occurrence(h, now)) + Day) % interval = 0}

Anchored(h, interval, now) ==
  IF interval < Day
  THEN CHOOSE s \in Slots(h, interval, now) :
         \A r \in Slots(h, interval, now) : s <= r
  ELSE Occurrence(h, now)

LEMMA AnchoredIsNext ==
  ASSUME hour \in Hours, NEW h \in Int, NEW interval \in ShortInterval
  PROVE  NextAnchoredRun(h, interval) = Anchored(h, interval, hour)
  <1>1. Day \in Nat \ {0}
    BY SchedulerAssumptions
  <1>2. ~(interval < Day) => interval \div Day = 1
    BY <1>1 DEF ShortInterval
  <1>3. Occurrence(h, hour) = NextOccurrenceOfHour(h)
    BY DEF Occurrence, NextOccurrenceOfHour
  <1>4. Occurrence(h, hour) \in Int
    BY <1>1 DEF Occurrence, Hours
  <1>5. CASE interval < Day
    BY <1>3, <1>5 DEF NextAnchoredRun, Anchored, Slots
  <1>6. CASE ~(interval < Day)
    BY <1>1, <1>2, <1>3, <1>4, <1>6 DEF NextAnchoredRun, Anchored
  <1>. QED
    BY <1>5, <1>6

\* The hour comes again within a day.
LEMMA OccurrenceInADay ==
  ASSUME NEW now \in Hours, NEW h \in Int
  PROVE  Occurrence(h, now) \in 1..Day
  <1>1. Day \in Nat \ {0} /\ h - now - 1 \in Int
    BY SchedulerAssumptions DEF Hours
  <1>2. (h - now - 1) % Day \in 0..Day - 1
    BY <1>1, DivMod
  <1>. QED
    BY <1>1, <1>2 DEF Occurrence

\* An hour later it is an hour nearer.
LEMMA OccurrenceLater ==
  ASSUME NEW now \in Hours, NEW h \in Int, Occurrence(h, now) > 1
  PROVE  Occurrence(h, (now + 1) % Day) = Occurrence(h, now) - 1
  <1> DEFINE x == h - now - 1
             r == x % Day
             q == x \div Day
  <1>1. Day \in Nat \ {0} /\ x \in Int /\ now \in 0..Day - 1
    BY SchedulerAssumptions DEF Hours
  <1>2. x = Day * q + r /\ r \in 0..Day - 1 /\ q \in Int
    BY <1>1, DivMod
  <1>3. r - 1 \in 0..Day - 1
    BY <1>1, <1>2 DEF Occurrence
  <1>4. CASE now + 1 < Day
    <2>1. (now + 1) % Day = now + 1
      BY <1>1, <1>4
    <2>2. h - (now + 1) - 1 = Day * q + (r - 1)
      BY <1>1, <1>2
    <2>3. (Day * q + (r - 1)) % Day = r - 1
      BY <1>1, <1>2, <1>3, ModUnique
    <2>. QED
      BY <1>2, <2>1, <2>2, <2>3 DEF Occurrence
  <1>5. CASE now + 1 = Day
    <2>1. (now + 1) % Day = 0
      BY <1>1, <1>5
    <2>2. h - 0 - 1 = Day * (q + 1) + (r - 1)
      <3>1. Day * (q + 1) = Day * q + Day
        BY <1>1, <1>2
      <3>. QED
        BY <1>1, <1>2, <1>5, <3>1
    <2>3. (Day * (q + 1) + (r - 1)) % Day = r - 1
      <3>1. q + 1 \in Int
        BY <1>2
      <3> HIDE DEF q, r
      <3>. QED
        BY <1>1, <1>3, <3>1, ModUnique
    <2>. QED
      BY <1>2, <2>1, <2>2, <2>3 DEF Occurrence
  <1>. QED
    BY <1>1, <1>4, <1>5

\* For a part of a day, the next run is the first slot.
LEMMA FirstSlot ==
  ASSUME NEW now \in Hours, NEW h \in Int, NEW interval \in ShortInterval,
         interval < Day
  PROVE  /\ Anchored(h, interval, now) \in Slots(h, interval, now)
         /\ \A r \in Slots(h, interval, now) : Anchored(h, interval, now) <= r
  <1>1. Slots(h, interval, now) \subseteq Nat /\ Slots(h, interval, now) # {}
    BY OccurrenceInADay DEF Slots
  <1>. QED
    BY <1>1, SmallestOfSet DEF Anchored

\* No run is further than its interval.
LEMMA AnchoredInInterval ==
  ASSUME NEW now \in Hours, NEW h \in Int, NEW interval \in ShortInterval
  PROVE  Anchored(h, interval, now) \in 1..interval
  <1> DEFINE base == Occurrence(h, now)
  <1>1. base \in 1..Day /\ Day \in Nat \ {0}
    BY OccurrenceInADay, SchedulerAssumptions
  <1>2. interval \in Nat \ {0}
    BY <1>1 DEF ShortInterval
  <1>3. CASE ~(interval < Day)
    BY <1>1, <1>2, <1>3 DEF Anchored
  <1>4. CASE interval < Day
    <2>1. Slots(h, interval, now) \subseteq 1..base
      BY <1>1 DEF Slots
    <2>2. Anchored(h, interval, now) \in 1..base
      BY <1>4, <2>1, FirstSlot
    <2>3. CASE base <= interval
      BY <1>1, <1>2, <2>2, <2>3
    <2>4. CASE base > interval
      <3> DEFINE x == Day - base
                 s == interval - (x % interval)
      <3>1. x \in Int
        BY <1>1
      <3>2. /\ x = interval * (x \div interval) + (x % interval)
            /\ x % interval \in 0..interval - 1 /\ x \div interval \in Int
        BY <1>2, <3>1, DivMod
      <3>3. s \in 1..interval /\ s \in 1..base
        BY <1>1, <1>2, <2>4, <3>2
      <3>4. (s - base) + Day = interval * ((x \div interval) + 1) + 0
        <4> DEFINE d == x \div interval
                   m == x % interval
        <4>1. /\ d \in Int /\ m \in Int /\ base \in Int /\ Day \in Int
              /\ Day - base = interval * d + m
          BY <1>1, <1>2, <3>2
        <4>2. (s - base) + Day = ((interval - m) - base) + Day
          OBVIOUS
        <4> HIDE DEF d, m, base, s
        <4>3. interval * (d + 1) = interval * d + interval
              /\ interval * d \in Int
          BY <1>2, <4>1
        <4>4. (s - base) + Day = interval * (d + 1) + 0
          BY <1>2, <4>1, <4>2, <4>3
        <4>. QED
          BY <4>4 DEF d
      <3>5. (interval * ((x \div interval) + 1) + 0) % interval = 0
        BY <1>2, <3>2, ModUnique, SMTT(40)
      <3>6. s \in Slots(h, interval, now)
        BY <3>3, <3>4, <3>5 DEF Slots
      <3>7. Anchored(h, interval, now) <= s
        BY <1>4, <3>6, FirstSlot
      <3>. QED
        BY <1>1, <1>2, <2>2, <3>3, <3>7
    <2>. QED
      BY <1>1, <1>2, <2>3, <2>4
  <1>. QED
    BY <1>3, <1>4

\* An hour later the same run is an hour nearer.
LEMMA AnchoredLater ==
  ASSUME NEW now \in Hours, NEW h \in Int, NEW interval \in ShortInterval,
         Anchored(h, interval, now) > 1
  PROVE  Anchored(h, interval, (now + 1) % Day)
           = Anchored(h, interval, now) - 1
  <1> DEFINE later == (now + 1) % Day
             base == Occurrence(h, now)
             n == Anchored(h, interval, now)
             m == Anchored(h, interval, later)
  <1>1. base \in 1..Day /\ Day \in Nat \ {0} /\ n \in 1..interval
    BY OccurrenceInADay, AnchoredInInterval, SchedulerAssumptions
  <1>2. later \in Hours
    BY <1>1 DEF Hours
  <1>3. CASE ~(interval < Day)
    BY <1>3, OccurrenceLater DEF Anchored
  <1>4. CASE interval < Day
    <2>1. /\ n \in Slots(h, interval, now)
          /\ \A r \in Slots(h, interval, now) : n <= r
      BY <1>4, FirstSlot
    <2>2. /\ m \in Slots(h, interval, later)
          /\ \A r \in Slots(h, interval, later) : m <= r
      BY <1>2, <1>4, FirstSlot
    <2>3. base > 1 /\ Occurrence(h, later) = base - 1
      <3>1. base > 1
        BY <1>1, <2>1 DEF Slots
      <3>. QED
        BY <3>1, OccurrenceLater
    <2>4. n - 1 \in Slots(h, interval, later)
      BY <1>1, <2>1, <2>3 DEF Slots
    <2>5. m \in 1..base - 1 /\ m + 1 \in Slots(h, interval, now)
      BY <1>1, <2>2, <2>3 DEF Slots
    <2>6. m <= n - 1 /\ n <= m + 1
      BY <2>1, <2>2, <2>4, <2>5
    <2>. QED
      BY <1>1, <2>5, <2>6
  <1>. QED
    BY <1>3, <1>4

\* The run is at the hour, or whole intervals after the hour of the day
\* before.
LEMMA AnchoredPhase ==
  ASSUME NEW now \in Hours, NEW h \in Int, NEW interval \in ShortInterval
  PROVE  (((now + Anchored(h, interval, now)) - h) % Day)
           % (IF interval < Day THEN interval ELSE Day) = 0
  <1> DEFINE base == Occurrence(h, now)
             n == Anchored(h, interval, now)
             x == h - now - 1
             q == x \div Day
             period == IF interval < Day THEN interval ELSE Day
  <1>1. /\ base \in 1..Day /\ Day \in Nat \ {0} /\ n \in 1..interval
        /\ interval \in Nat \ {0} /\ now \in 0..Day - 1 /\ x \in Int
    <2>1. Day \in Nat \ {0} /\ now \in 0..Day - 1 /\ x \in Int
      BY SchedulerAssumptions DEF Hours
    <2>2. interval \in Nat \ {0}
      BY <2>1 DEF ShortInterval
    <2>. QED
      BY <2>1, <2>2, OccurrenceInADay, AnchoredInInterval
  <1>2. x = Day * q + (base - 1) /\ q \in Int
    BY <1>1, DivMod DEF Occurrence
  <1>3. (now + n) - h = (n - base) - Day * q
    BY <1>1, <1>2
  <1>4. CASE n = base
    <2>1. (now + n) - h = Day * (-q) + 0
      BY <1>1, <1>2, <1>3, <1>4
    <2>2. (Day * (-q) + 0) % Day = 0
      <3>1. -q \in Int /\ 0 \in 0..Day - 1
        BY <1>1, <1>2
      <3> HIDE DEF q
      <3>. QED
        BY <1>1, <3>1, ModUnique
    <2>3. period \in Nat \ {0}
      BY <1>1
    <2>. QED
      BY <2>1, <2>2, <2>3
  <1>5. CASE n # base
    <2>1. interval < Day
      BY <1>5 DEF Anchored
    <2>2. n \in 1..base - 1 /\ ((n - base) + Day) % interval = 0
      <3>1. n \in Slots(h, interval, now)
        BY <2>1, FirstSlot
      <3> HIDE DEF n, base
      <3>2. Slots(h, interval, now) = {base} \union
              {s \in 1..base : ((s - base) + Day) % interval = 0}
        BY DEF Slots, base
      <3>3. n \in 1..base /\ ((n - base) + Day) % interval = 0
        BY <1>5, <3>1, <3>2
      <3>. QED
        BY <1>1, <1>5, <3>3
    <2>3. (now + n) - h = Day * (-q - 1) + ((n - base) + Day)
      <3>1. Day * (-q - 1) = -(Day * q) - Day
        BY <1>1, <1>2
      <3>. QED
        BY <1>1, <1>2, <1>3, <3>1
    <2>4. (n - base) + Day \in 0..Day - 1
      BY <1>1, <2>2
    <2>5. (Day * (-q - 1) + ((n - base) + Day)) % Day = (n - base) + Day
      <3>1. -q - 1 \in Int
        BY <1>2
      <3> HIDE DEF q, n, base
      <3>. QED
        BY <1>1, <2>4, <3>1, ModUnique
    <2>. QED
      BY <2>1, <2>2, <2>3, <2>5
  <1>. QED
    BY <1>4, <1>5

-----------------------------------------------------------------------------
(* The invariant.                                                          *)

\* What a tick has settled of a schedule.
Settled(t) == t \notin fresh /\ next[t] > 0

\* The types, which hours are counted, and how far ahead a row may be.
TimeTypes ==
  /\ hour \in Hours
  /\ since \in [Scheduled -> Nat]
  /\ \A t \in Scheduled : next[t] \in -1..Interval[t]

\* The hours since a task fired and until it is due make up its interval;
\* its row is what a tick would compute.
RowsAreRight ==
  \A t \in Scheduled :
    /\ t \in fresh => since[t] = 0
    /\ t \notin fresh /\ enabled[t] => next[t] >= 0
    /\ t \notin fresh /\ enabled[t] /\ next[t] > 0 =>
         /\ since[t] + next[t] <= Interval[t]
         /\ atHour[t] # NoHour =>
              next[t] = Anchored(atHour[t], Interval[t], hour)

\* A tick leaves no enabled schedule fresh or due.
TickSettles ==
  /\ ticked => \A t \in Scheduled : enabled[t] => Settled(t)
  /\ pc \in {"tick", "advance"} =>
       \A i \in 1..Len(Specs) :
         (i < at /\ enabled[Specs[i]]) => Settled(Specs[i])
  /\ pc = "advance" =>
       /\ at \in 1..Len(Specs) /\ enabled[Specs[at]]
       /\ Specs[at] \notin fresh /\ since[Specs[at]] = 0

TimeInv == TimeTypes /\ RowsAreRight /\ TickSettles

\* What a tick computes for a schedule.
LEMMA NextRun ==
  ASSUME ShortIntervals, ScheduleTypes, hour \in Hours, NEW t \in Scheduled
  PROVE  /\ Interval[t] \in ShortInterval
         /\ NextRunFor(t) \in 1..Interval[t]
         /\ atHour[t] # NoHour =>
              NextRunFor(t) = Anchored(atHour[t], Interval[t], hour)
  <1>1. Interval[t] \in Nat \ {0} /\ atHour[t] \in Int /\ Day \in Nat \ {0}
    BY SchedulerAssumptions DEF ScheduleTypes
  <1>2. Interval[t] \in ShortInterval
    BY <1>1 DEF ShortIntervals, ShortInterval
  <1>3. CASE atHour[t] = NoHour
    BY <1>1, <1>2, <1>3 DEF NextRunFor
  <1>4. CASE atHour[t] # NoHour
    <2>1. NextRunFor(t) = Anchored(atHour[t], Interval[t], hour)
      BY <1>1, <1>2, <1>4, AnchoredIsNext DEF NextRunFor
    <2>. QED
      BY <1>1, <1>2, <2>1, AnchoredInInterval
  <1>. QED
    BY <1>2, <1>3, <1>4

\* GoOn after a schedule that is settled, or after the last.
LEMMA GoOnSettles ==
  ASSUME TickSettles, ScheduleTypes, GoOn, pc \in {"tick", "advance"},
         enabled' = enabled, fresh' \subseteq fresh,
         \A t \in Scheduled : next[t] > 0 => next'[t] > 0,
         at \in 1..Len(Specs) /\ enabled[Specs[at]] =>
           Specs[at] \notin fresh' /\ next'[Specs[at]] > 0
  PROVE  TickSettles'
  <1>1. at \in Nat /\ (\A i \in 1..Len(Specs) : Specs[i] \in Scheduled)
        /\ \A t \in Scheduled : \E i \in 1..Len(Specs) : t = Specs[i]
    BY DEF ScheduleTypes, Scheduled
  <1>2. \A i \in 1..Len(Specs) :
          (i <= at /\ enabled[Specs[i]]) => Settled(Specs[i])'
    BY <1>1 DEF TickSettles, Settled
  <1>3. \A t \in Scheduled : (enabled[t] /\ Settled(t)) => Settled(t)'
    BY DEF Settled
  <1>4. CASE at = EnqueuePlays
    BY <1>1, <1>2, <1>4 DEF GoOn, TickSettles, EnqueuePlays
  <1>5. CASE at # EnqueuePlays
    BY <1>1, <1>2, <1>3, <1>5 DEF GoOn, TickSettles
  <1>. QED
    BY <1>4, <1>5

\* Steps that leave the schedules alone.
LEMMA OtherSteps ==
  ASSUME TimeInv, UNCHANGED <<hour, settings, next, fresh, since>>,
         ticked' = ticked \/ ticked' = FALSE,
         pc' \notin {"tick", "advance"}
  PROVE  TimeInv'
  BY DEF TimeInv, TimeTypes, RowsAreRight, TickSettles, Settled, settings

LEMMA TimeInvStep ==
  ASSUME ShortIntervals, BackupInv, BackupInv', TimeInv, [Next]_vars
  PROVE  TimeInv'
  <1>0. ScheduleTypes /\ hour \in Hours
    BY DEF BackupInv, TimeInv, TimeTypes
  <1>1. CASE StartTick
    BY <1>1 DEF StartTick, TimeInv, TimeTypes, RowsAreRight, TickSettles,
         Settled, settings, history
  <1>2. CASE SkipTick \/ IdlePass \/ FetchPlays \/ TickFails \/ DaemonStart
    BY <1>2, OtherSteps DEF SkipTick, IdlePass, FetchPlays, TickFails,
         DaemonStart, settings, history
  <1>3. CASE RunDueSchedule
    <2> DEFINE t == Specs[at]
    <2>1. /\ t \in Scheduled /\ pc = "tick" /\ at \in 1..Len(Specs)
          /\ UNCHANGED <<hour, settings>> /\ fresh' = fresh \ {t}
      BY <1>3 DEF RunDueSchedule, Scheduled
    <2>2. /\ Interval[t] \in ShortInterval /\ NextRunFor(t) \in 1..Interval[t]
          /\ atHour[t] # NoHour =>
               NextRunFor(t) = Anchored(atHour[t], Interval[t], hour)
      BY <1>0, <2>1, NextRun
    <2>3. CASE /\ GoOn /\ UNCHANGED <<next, since>>
               /\ ~enabled[t] \/ (atHour[t] = NoHour /\ next[t] > 0)
      <3>1. TickSettles'
        BY <1>0, <2>1, <2>3, GoOnSettles DEF TimeInv, settings
      <3>2. TimeTypes' /\ RowsAreRight'
        BY <2>1, <2>3 DEF TimeInv, TimeTypes, RowsAreRight, settings
      <3>. QED
        BY <3>1, <3>2 DEF TimeInv
    <2>4. CASE /\ GoOn /\ UNCHANGED since
               /\ enabled[t] /\ (next[t] = NoRow \/ Rephased(t))
               /\ next' = [next EXCEPT ![t] = NextRunFor(t)]
      <3>1. next' \in [Scheduled -> Int] /\ next'[t] = NextRunFor(t)
            /\ \A s \in Scheduled : s # t => next'[s] = next[s]
        BY <1>0, <2>1, <2>2, <2>4 DEF ScheduleTypes
      <3>2. t \notin fresh => next'[t] = next[t]
        BY <2>1, <2>2, <2>4, <3>1
        DEF TimeInv, RowsAreRight, Rephased, NoRow
      <3>3. TickSettles'
        BY <1>0, <2>1, <2>2, <2>4, <3>1, GoOnSettles DEF TimeInv, settings
      <3>4. TimeTypes'
        BY <2>1, <2>2, <2>4, <3>1 DEF TimeInv, TimeTypes, settings
      <3>5. RowsAreRight'
        BY <2>1, <2>2, <2>4, <3>1, <3>2
        DEF TimeInv, TimeTypes, RowsAreRight, settings
      <3>. QED
        BY <3>3, <3>4, <3>5 DEF TimeInv
    <2>5. CASE /\ pc' = "advance" /\ UNCHANGED <<next, at, ticked>>
               /\ enabled[t] /\ next[t] = 0 /\ since' = [since EXCEPT ![t] = 0]
      <3>1. /\ since' \in [Scheduled -> Nat] /\ since'[t] = 0
            /\ \A s \in Scheduled : s # t => since'[s] = since[s]
        BY <2>1, <2>5 DEF TimeInv, TimeTypes
      <3>2. TimeTypes' /\ RowsAreRight'
        BY <2>1, <2>5, <3>1 DEF TimeInv, TimeTypes, RowsAreRight, settings
      <3>3. TickSettles'
        BY <1>0, <2>1, <2>5, <3>1 DEF TimeInv, TickSettles, Settled,
             settings, Scheduled
      <3>. QED
        BY <3>2, <3>3 DEF TimeInv
    <2>. QED
      BY <1>3, <2>3, <2>4, <2>5 DEF RunDueSchedule
  <1>4. CASE AdvanceSchedule
    <2> DEFINE t == Specs[at]
    <2>1. /\ pc = "advance" /\ GoOn
          /\ next' = [next EXCEPT ![t] = NextRunFor(t)]
          /\ UNCHANGED <<hour, settings, fresh, since>>
      BY <1>4 DEF AdvanceSchedule, history
    <2>2. /\ at \in 1..Len(Specs) /\ t \in Scheduled /\ enabled[t]
          /\ t \notin fresh /\ since[t] = 0
      BY <2>1 DEF TimeInv, TickSettles, Scheduled
    <2>3. /\ Interval[t] \in ShortInterval /\ NextRunFor(t) \in 1..Interval[t]
          /\ atHour[t] # NoHour =>
               NextRunFor(t) = Anchored(atHour[t], Interval[t], hour)
      BY <1>0, <2>2, NextRun
    <2>4. /\ next'[t] = NextRunFor(t)
          /\ \A s \in Scheduled : s # t => next'[s] = next[s]
      BY <1>0, <2>1, <2>2 DEF ScheduleTypes
    <2>5. TickSettles'
      BY <1>0, <2>1, <2>2, <2>3, <2>4, GoOnSettles DEF TimeInv, settings
    <2>6. TimeTypes' /\ RowsAreRight'
      BY <2>1, <2>2, <2>3, <2>4 DEF TimeInv, TimeTypes, RowsAreRight, settings
    <2>. QED
      BY <2>5, <2>6 DEF TimeInv
  <1>5. CASE RunAutoTasks
    <2>1. /\ pc = "tick" /\ at > Len(Specs) /\ GoOn
          /\ UNCHANGED <<hour, settings, next, fresh, since>>
      BY <1>5 DEF RunAutoTasks, history
    <2>2. TickSettles'
      BY <1>0, <2>1, GoOnSettles DEF TimeInv, settings, ScheduleTypes
    <2>3. TimeTypes' /\ RowsAreRight'
      BY <2>1 DEF TimeInv, TimeTypes, RowsAreRight, settings
    <2>. QED
      BY <2>2, <2>3 DEF TimeInv
  <1>6. CASE ClaimQueuedJob \/ JobEnds \/ Crash
    BY <1>6, OtherSteps DEF ClaimQueuedJob, JobEnds, Crash, settings, history
  <1>7. CASE RecoverOrphanJobs \/ Feedback \/ PlayEnds \/ PageChanges
    BY <1>7, OtherSteps DEF RecoverOrphanJobs, Feedback, PlayEnds,
         PageChanges, BetweenTicks, daemonVars, settings, history
  <1>8. ASSUME NEW t \in Scheduled, ChangeSettings(t) PROVE TimeInv'
    <2>1. /\ BetweenTicks /\ UNCHANGED <<hour, next, pc, at>>
          /\ fresh' = fresh \union {t} /\ ticked' = FALSE
          /\ since' = [since EXCEPT ![t] = 0]
          /\ \A s \in Scheduled : s # t =>
               enabled'[s] = enabled[s] /\ atHour'[s] = atHour[s]
      BY <1>0, <1>8 DEF ChangeSettings, ScheduleTypes
    <2>2. /\ since' \in [Scheduled -> Nat] /\ since'[t] = 0
          /\ \A s \in Scheduled : s # t => since'[s] = since[s]
      BY <2>1 DEF TimeInv, TimeTypes
    <2>. QED
      BY <2>1, <2>2
      DEF TimeInv, TimeTypes, RowsAreRight, TickSettles, BetweenTicks
  <1>9. CASE HourPasses
    <2>1. /\ hour' = (hour + 1) % Day /\ ticked' = FALSE
          /\ pc' \notin {"tick", "advance"} /\ UNCHANGED <<fresh, settings>>
          /\ \A t \in Scheduled : next'[t] = Less(next[t])
          /\ since' = [t \in Scheduled |->
                         IF t \notin fresh /\ since[t] < Interval[t]
                         THEN since[t] + 1 ELSE since[t]]
      BY <1>9 DEF HourPasses
    <2>2. \A t \in Scheduled :
            since'[t] = IF t \notin fresh /\ since[t] < Interval[t]
                        THEN since[t] + 1 ELSE since[t]
      BY <2>1
    <2>3. Day \in Nat \ {0} /\ hour' \in Hours
      BY <1>0, <2>1, SchedulerAssumptions DEF Hours
    <2>4. TimeTypes'
      BY <2>1, <2>2, <2>3, SchedulerAssumptions
      DEF TimeInv, TimeTypes, Less
    <2>5. ASSUME NEW t \in Scheduled, t \notin fresh, enabled[t], next'[t] > 0
          PROVE  /\ since'[t] + next'[t] <= Interval[t]
                 /\ atHour[t] # NoHour =>
                      next'[t] = Anchored(atHour[t], Interval[t], hour')
      <3>1. /\ next[t] \in Int /\ next[t] > 1 /\ next'[t] = next[t] - 1
            /\ since[t] \in Nat /\ atHour[t] \in Int
        BY <1>0, <2>1, <2>5 DEF Less, ScheduleTypes, TimeInv, TimeTypes
      <3>2. /\ since[t] + next[t] <= Interval[t]
            /\ atHour[t] # NoHour =>
                 next[t] = Anchored(atHour[t], Interval[t], hour)
        BY <2>5, <3>1 DEF TimeInv, RowsAreRight
      <3>3. Interval[t] \in ShortInterval
        BY <1>0, NextRun
      <3>4. atHour[t] # NoHour =>
              Anchored(atHour[t], Interval[t], (hour + 1) % Day) = next[t] - 1
        BY <1>0, <3>1, <3>2, <3>3, AnchoredLater
      <3>5. Interval[t] \in Nat
        BY SchedulerAssumptions
      <3>. QED
        BY <2>1, <2>2, <2>5, <3>1, <3>2, <3>4, <3>5
    <2>6. RowsAreRight'
      BY <1>0, <2>1, <2>2, <2>5
      DEF TimeInv, TimeTypes, RowsAreRight, settings, Less
    <2>. QED
      BY <2>1, <2>4, <2>6 DEF TimeInv, TickSettles
  <1>10. CASE UNCHANGED vars
    BY <1>10 DEF vars, TimeInv, TimeTypes, RowsAreRight, TickSettles,
         Settled, settings, history, daemonVars
  <1>. QED
    BY <1>1, <1>2, <1>3, <1>4, <1>5, <1>6, <1>7, <1>8, <1>9, <1>10
    DEF Next, DaemonNext

LEMMA TimeInvHolds ==
  ASSUME ShortIntervals, BackupInv, TimeInv
  PROVE  SchedulesKeepTime
  <1>1. RunsEveryInterval
    <2>1. ASSUME ticked, NEW t \in Scheduled, enabled[t]
          PROVE  since[t] < Interval[t]
      <3>1. t \notin fresh /\ next[t] > 0 /\ next[t] \in Int
            /\ since[t] \in Nat /\ Interval[t] \in Nat
        BY <2>1, SchedulerAssumptions
        DEF TimeInv, TickSettles, Settled, TimeTypes, BackupInv, ScheduleTypes
      <3>. QED
        BY <2>1, <3>1 DEF TimeInv, RowsAreRight
    <2>. QED
      BY <2>1 DEF RunsEveryInterval
  <1>2. KeepsItsHour
    <2>1. ASSUME ticked, NEW t \in Scheduled,
                 enabled[t], atHour[t] # NoHour, next[t] > 0
          PROVE  (((hour + next[t]) - atHour[t]) % Day)
                   % (IF Interval[t] < Day THEN Interval[t] ELSE Day) = 0
      <3>1. next[t] = Anchored(atHour[t], Interval[t], hour)
        BY <2>1 DEF TimeInv, TickSettles, Settled, RowsAreRight
      <3>2. hour \in Hours /\ atHour[t] \in Int /\ Interval[t] \in ShortInterval
        BY NextRun DEF TimeInv, TimeTypes, BackupInv, ScheduleTypes
      <3>. QED
        BY <3>1, <3>2, AnchoredPhase
    <2>. QED
      BY <2>1 DEF KeepsItsHour
  <1>. QED
    BY <1>1, <1>2 DEF SchedulesKeepTime

LEMMA TimeInvInit == ASSUME ShortIntervals, Init PROVE TimeInv
  <1>1. /\ hour \in Hours /\ fresh = Scheduled /\ pc = "pass" /\ ticked = FALSE
        /\ since = [t \in Scheduled |-> 0] /\ next = [t \in Scheduled |-> NoRow]
    BY SchedulerAssumptions DEF Init, Hours
  <1>2. \A t \in Scheduled : Interval[t] \in Nat /\ next[t] = -1 /\ since[t] = 0
    BY <1>1, SchedulerAssumptions DEF NoRow
  <1>. QED
    BY <1>1, <1>2
    DEF TimeInv, TimeTypes, RowsAreRight, TickSettles, Settled

\* Schedules of less than two days keep their interval and their hour, for
\* any schedules, length of the day, changes and failures (autotasks.go:208).
THEOREM ShortSchedulesKeepTime ==
  ShortIntervals => (Spec => []SchedulesKeepTime)
  <1> SUFFICES ASSUME ShortIntervals PROVE Spec => []SchedulesKeepTime
    OBVIOUS
  <1>1. Init => BackupInv /\ TimeInv
    BY BackupInvInit, TimeInvInit
  <1>2. BackupInv /\ TimeInv /\ [Next]_vars => BackupInv' /\ TimeInv'
    BY BackupInvStep, TimeInvStep
  <1>3. BackupInv /\ TimeInv => SchedulesKeepTime
    BY TimeInvHolds
  <1>. QED
    BY <1>1, <1>2, <1>3, PTL DEF Spec
=============================================================================
