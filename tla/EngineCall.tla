------------------------------ MODULE EngineCall ----------------------------
(***************************************************************************)
(* What an engine's generate() promises the routes about its calls to the  *)
(* backend, "uniform across engines so the route handlers don't have to    *)
(* care which backend is wired in" (engines/base.py:17-18), without CLIs,  *)
(* pipes, connections and clocks: a call is made once and ends once, by an *)
(* answer, by a failure or with the process.  A call that has been given   *)
(* up (its time is over) is never answered any more, and an exit of the    *)
(* process drops every call in flight at once.                             *)
(***************************************************************************)
CONSTANT Calls

VARIABLE status

States == {"idle", "pending", "givenUp", "answered", "failed", "dropped"}

Init == status = [c \in Calls |-> "idle"]

InFlight(c) == status[c] \in {"pending", "givenUp"}

Becomes(c, state) == status' = [status EXCEPT ![c] = state]

Begin(c) == status[c] = "idle" /\ Becomes(c, "pending")

FailAtOnce(c) == status[c] = "idle" /\ Becomes(c, "failed")

Answer(c) == status[c] = "pending" /\ Becomes(c, "answered")

GiveUp(c) == status[c] = "pending" /\ Becomes(c, "givenUp")

Fail(c) == InFlight(c) /\ Becomes(c, "failed")

Exit ==
    status' = [c \in Calls |-> IF InFlight(c) THEN "dropped" ELSE status[c]]

Step(c) == Begin(c) \/ FailAtOnce(c) \/ Answer(c) \/ GiveUp(c) \/ Fail(c)

Next == Exit \/ \E c \in Calls : Step(c)

Spec == Init /\ [][Next]_status
=============================================================================
