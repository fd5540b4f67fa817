------------------------------ MODULE MCStores ------------------------------
(***************************************************************************)
(* A few rows of every table on which TLC explores Stores.                 *)
(***************************************************************************)
EXTENDS Stores, TLC

CONSTANTS i1, i2, f1, f2, c1, c2

\* Nothing, and a case with a flow beside one that is completed.
TwoCases ==
  [EmptyStore EXCEPT
     !.processes = "p" :> "v1",
     !.instances = i1 :> [process |-> "p", status |-> "IN_PROGRESS", variables |-> "x"]
                   @@ i2 :> [process |-> "p", status |-> "COMPLETED", variables |-> "y"],
     !.flows = f1 :> [instance |-> i1, thread |-> 1, status |-> "ACTIVE"]]
SmallOpenings == {EmptyStore, TwoCases}

SmallMixes ==
  {{"processes", "instances"}, {"instances", "flows"}, {"flows"}, {"threads"},
   {"jobs", "letters"}, {"processes", "instances", "flows", "log"}}

Symmetry == Permutations(Callers) \cup Permutations(Letters)
=============================================================================
