----------------------------- MODULE JobService -----------------------------
(***************************************************************************)
(* What the background task queue promises to whoever asked for a task,    *)
(* with no worker processes, heartbeats or clocks in it.                   *)
(*                                                                         *)
(* A job is submitted once, starts at most once, and gets at most one      *)
(* outcome, which is final.  "complete" is reported only by an execution   *)
(* that ran to its end.  An execution may outlive its row's outcome (a     *)
(* cancelled or presumed-dead execution goes on until it stops), but it    *)
(* can no longer change it.                                                *)
(***************************************************************************)
EXTENDS FiniteSets

CONSTANT Job          \* the identifiers of curator_job rows

VARIABLES status,     \* what a reader of the job table sees
          executing   \* the jobs whose body some live process is running

Outcomes == {"complete", "failed", "cancelled"}
Status == {"absent", "queued", "running"} \union Outcomes

Init == /\ status \in [Job -> {"absent", "running"}]
        /\ executing = {}

Submit(j) == /\ status[j] = "absent"
             /\ status' = [status EXCEPT ![j] = "queued"]
             /\ UNCHANGED executing

Start(j) == /\ status[j] = "queued"
            /\ status' = [status EXCEPT ![j] = "running"]
            /\ executing' = executing \union {j}

(***************************************************************************)
(* An execution ends and reports its own outcome, or its job already has   *)
(* one (or is still awaiting one) and only the execution ends.             *)
(***************************************************************************)
Finish(j, o) == /\ j \in executing
                /\ executing' = executing \ {j}
                /\ status' = [status EXCEPT ![j] =
                                IF @ = "running" THEN o ELSE @]

(***************************************************************************)
(* Jobs are given up without an execution reporting: a waiting job is      *)
(* withdrawn, a running one cancelled or presumed dead.  Executions may    *)
(* stop in the same step.                                                  *)
(***************************************************************************)
GiveUp(S, T, o) == /\ \A j \in S : status[j] \in {"queued", "running"}
                   /\ o # "complete"
                   /\ status' = [j \in Job |-> IF j \in S THEN o ELSE status[j]]
                   /\ executing' = executing \ T

Next == \/ \E j \in Job : Submit(j) \/ Start(j)
        \/ \E j \in Job, o \in Outcomes : Finish(j, o)
        \/ \E S, T \in SUBSET Job, o \in Outcomes : GiveUp(S, T, o)

Spec == Init /\ [][Next]_<<status, executing>>
=============================================================================
