--------------------------- MODULE JobLifecycle ---------------------------
(***************************************************************************)
(* What the documents promise of a job (docs/bpmn-and-bpmn-ai.md:273-281): *)
(* PENDING -> RUNNING -> COMPLETED, an error makes it PENDING again with   *)
(* one more retry, and DEAD once the retries are used up.                  *)
(***************************************************************************)
EXTENDS Naturals

CONSTANTS Cases,      \* the cases, each has one job id
          MaxRetries  \* RetryPolicy.MaxRetries

VARIABLES status, retries

lifecycle == <<status, retries>>

Status == {"NONE", "PENDING", "RUNNING", "COMPLETED", "DEAD"}

Init == status = [c \in Cases |-> "NONE"] /\ retries = [c \in Cases |-> 0]

Become(c, from, to) ==
  status[c] = from /\ status' = [status EXCEPT ![c] = to]

Create(c) == Become(c, "NONE", "PENDING") /\ UNCHANGED retries

Begin(c) == Become(c, "PENDING", "RUNNING") /\ UNCHANGED retries

Succeed(c) == Become(c, "RUNNING", "COMPLETED") /\ UNCHANGED retries

Fail(c) ==
  /\ retries[c] < MaxRetries
  /\ Become(c, "RUNNING", "PENDING")
  /\ retries' = [retries EXCEPT ![c] = @ + 1]

Die(c) ==
  /\ retries[c] = MaxRetries
  /\ Become(c, "RUNNING", "DEAD")
  /\ UNCHANGED retries

Next == \E c \in Cases : Create(c) \/ Begin(c) \/ Succeed(c) \/ Fail(c) \/ Die(c)

Spec == Init /\ [][Next]_lifecycle
============================================================================
