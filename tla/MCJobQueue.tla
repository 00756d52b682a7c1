----------------------------- MODULE MCJobQueue -----------------------------
(***************************************************************************)
(* Instances of JobQueue for TLC.  Jobs, processes and requests are        *)
(* interchangeable; symmetry is used by the runs without liveness only.    *)
(***************************************************************************)
EXTENDS JobQueue, TLC

Symmetry == Permutations(Job) \union Permutations(Pid)
              \union Permutations(Client)
=============================================================================
