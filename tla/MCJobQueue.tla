---------------------------- MODULE MCJobQueue ----------------------------
(***************************************************************************)
(* Small queues on which TLC explores JobQueue.                            *)
(***************************************************************************)
EXTENDS JobQueue

CONSTANTS w1, w2, c1, f1, f2

\* one case with two jobs: they share their id
OneCase == [f \in {f1, f2} |-> c1]

\* one case with one job
OneJob == [f \in {f1} |-> c1]
============================================================================
