--------------------------- MODULE InstanceState ---------------------------
(***************************************************************************)
(* The state machine of a process instance (internal/process/state.go).    *)
(***************************************************************************)

State == {"CREATED", "IN_PROGRESS", "WAITING", "SUSPENDED", "COMPLETED",
          "ERROR", "TERMINATED"}

\* A slip in the table that lets a finished instance be taken up again.
ReopenedTransitions ==
  [s \in State |->
     CASE s = "CREATED"     -> {"IN_PROGRESS", "ERROR"}
       [] s = "IN_PROGRESS" -> {"WAITING", "SUSPENDED", "COMPLETED", "ERROR", "TERMINATED"}
       [] s = "WAITING"     -> {"IN_PROGRESS", "ERROR", "TERMINATED"}
       [] OTHER             -> {"IN_PROGRESS", "ERROR"}]

\* A slip: an instance in error may fail again.
ErrorAgainTransitions ==
  [s \in State |->
     CASE s = "CREATED"     -> {"IN_PROGRESS", "ERROR"}
       [] s = "IN_PROGRESS" -> {"WAITING", "SUSPENDED", "COMPLETED", "ERROR", "TERMINATED"}
       [] s = "WAITING"     -> {"IN_PROGRESS", "ERROR", "TERMINATED"}
       [] s \in {"SUSPENDED", "ERROR"} -> {"IN_PROGRESS", "ERROR"}
       [] OTHER             -> {}]

ValidTransitions ==
  [s \in State |->
     CASE s = "CREATED"     -> {"IN_PROGRESS", "ERROR"}
       [] s = "IN_PROGRESS" -> {"WAITING", "SUSPENDED", "COMPLETED", "ERROR", "TERMINATED"}
       [] s = "WAITING"     -> {"IN_PROGRESS", "ERROR", "TERMINATED"}
       [] s = "SUSPENDED"   -> {"IN_PROGRESS", "ERROR"}
       [] s = "ERROR"       -> {"IN_PROGRESS"}
       [] OTHER             -> {}]

IsValidTransition(current, next) == next \in ValidTransitions[current]
============================================================================
