-------------------------- MODULE MCContinuation --------------------------
(***************************************************************************)
(* Small cases on which TLC explores Continuation.                         *)
(***************************************************************************)
EXTENDS Continuation, TLC

CONSTANTS c1, c2

Node(type, out) ==
  [Type |-> type, Outgoing |-> out, Incoming |-> 1, GatewayDirection |-> "Unspecified",
   AttachedToRef |-> None, CancelActivity |-> FALSE, Scope |-> None,
   ErrorCode |-> None, TimerValue |-> None, CalledStart |-> None, Filter |-> {}]

\* two user tasks before a join, a message that interrupts the first, a timer
\* beside the second, the end
JoinedElements == {"a", "b", "stop", "late", "join", "end"}
Joined ==
  [e \in JoinedElements |->
     CASE e \in {"a", "b"} -> Node("userTask", {"join"})
       [] e = "stop" -> [Node("messageCatch", {}) EXCEPT !.AttachedToRef = "a",
                                                          !.CancelActivity = TRUE]
       [] e = "late" -> [Node("timerEvent", {"end"}) EXCEPT !.AttachedToRef = "b",
                                                             !.TimerValue = "valid"]
       [] e = "join" -> [Node("parallelGateway", {"end"}) EXCEPT !.Incoming = 2]
       [] e = "end"  -> Node("endEvent", {})]

\* a task that leads to an event-based gateway, beside two tasks and a signal
\* catch with an AI task behind it
GatedElements == {"p", "q", "r", "sig", "ai", "gate", "m1", "m2", "end"}
Gated ==
  [e \in GatedElements |->
     CASE e = "p"    -> Node("userTask", {"gate"})
       [] e \in {"q", "r"} -> Node("userTask", {"sig"})
       [] e = "sig"  -> Node("signalCatch", {"ai"})
       [] e = "ai"   -> Node("aiTask", {"end"})
       [] e = "gate" -> Node("eventBasedGateway", {"m1", "m2"})
       [] e \in {"m1", "m2"} -> Node("messageCatch", {"end"})
       [] e = "end"  -> Node("endEvent", {})]

Cases == Joined @@ Gated
CasesElements == DOMAIN Cases
CasesOpenings == {<<"a", "b", "stop">>, <<"b", "late">>, <<"p", "q", "r">>}

Symmetry == Permutations(Callers)
============================================================================
