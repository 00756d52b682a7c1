---------------------------- MODULE MCScheduler ----------------------------
(* Schedules for the model checking of Scheduler: a day has four hours.    *)
EXTENDS Scheduler

MCSpecs == <<"backup", "sync-build">>

\* Once a day, and a part of the day that does not divide it.
MCInterval == [t \in {"backup", "sync-build"} |-> IF t = "backup" THEN 4 ELSE 3]

\* Every other day, and daily where a day has two hours.
MCOneSpec == <<"backup">>
MCDaily == [t \in {"backup"} |-> 2]
MCTwoDays == [t \in {"backup"} |-> 8]
=============================================================================
