--------------------------- MODULE MCPlanSession ----------------------------
(* Model-checking instances of PlanSession, each large in one respect: a    *)
(* plan of one step that is executed twice, paused twice and retried, or    *)
(* replanned, by two clients; the same executed once, with cancels between  *)
(* them; executed twice and paused once, with cancels and a reader of the   *)
(* events; a plan of two steps whose agents ask for approvals, and one of a *)
(* single step that asks again after a pause; and two clients that start    *)
(* executions of a plan.                                                    *)
EXTENDS PlanSession

CONSTANTS a, b, c1, c2

Retrying == [steps |-> {a}, clients |-> {c1, c2}, executions |-> 2, pauses |-> 2,
             uses |-> {"retry"}]

Replanning == [Retrying EXCEPT !.uses = {"replan"}]

Cancelling == [Retrying EXCEPT !.executions = 1, !.uses = {"retry", "replan", "cancel"}]

Watching == [Retrying EXCEPT !.pauses = 1, !.uses = {"retry", "replan", "cancel", "events"}]

Asking == [steps |-> {a, b}, clients |-> {c1}, executions |-> 2, pauses |-> 0,
           uses |-> {"approvals", "cancel", "events"}]

AskingAgain == [Asking EXCEPT !.steps = {a}, !.executions = 1, !.pauses = 2,
                              !.uses = @ \cup {"retry", "replan"}]

MCScopes == {Retrying, Replanning, Cancelling, Watching, Asking, AskingAgain}

MCStarting == {[Retrying EXCEPT !.steps = {a, b}, !.pauses = 1]}
=============================================================================
