----------------------------- MODULE JobCalls -----------------------------
(***************************************************************************)
(* What the job queue promises of the calls of its handler, whatever its   *)
(* workers hold: for a flow that was enqueued, at most one call of each    *)
(* worker with no retries, and for each call that is over, by a return or  *)
(* with the process, at most one of each worker with one retry more.       *)
(***************************************************************************)
EXTENDS Naturals

CONSTANTS Flows,       \* the flows jobs are created for
          MaxRetries,  \* RetryPolicy.MaxRetries
          PoolSize     \* the number of workers

VARIABLES created,  \* the flows that were enqueued
          calls,    \* calls of the handler, by flow and retries
          running   \* those of them that are not over

callVars == <<created, calls, running>>

None == [f \in Flows |-> [r \in 0..MaxRetries |-> 0]]

Init == created = {} /\ calls = None /\ running = None

\* What allows the calls with r retries.
Grounds(f, r) ==
  IF r = 0 THEN IF f \in created THEN 1 ELSE 0
           ELSE calls[f][r - 1] - running[f][r - 1]

Create(f) == created' = created \cup {f} /\ UNCHANGED <<calls, running>>

Call(f, r) ==
  /\ calls[f][r] < PoolSize * Grounds(f, r)
  /\ calls' = [calls EXCEPT ![f][r] = @ + 1]
  /\ running' = [running EXCEPT ![f][r] = @ + 1]
  /\ UNCHANGED created

Return(f, r) ==
  /\ running[f][r] > 0
  /\ running' = [running EXCEPT ![f][r] = @ - 1]
  /\ UNCHANGED <<created, calls>>

Restart == running' = None /\ UNCHANGED <<created, calls>>

Next ==
  \/ \E f \in Flows : Create(f)
  \/ \E f \in Flows, r \in 0..MaxRetries : Call(f, r) \/ Return(f, r)
  \/ Restart

Spec == Init /\ [][Next]_callVars
============================================================================
