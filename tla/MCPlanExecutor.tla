--------------------------- MODULE MCPlanExecutor ---------------------------
(* Model-checking instance of PlanExecutor: three step ids, a chain and a  *)
(* fork of them; replanning makes the joins.                               *)
EXTENDS PlanExecutor, TLC

CONSTANTS a, b, c

MCStepIds == {a, b, c}

Plan(ds, none) == [steps |-> MCStepIds, deps |-> ds, unrunnable |-> none]

MCInitialPlans ==
    { Plan((a :> {}) @@ (b :> {a}) @@ (c :> {b}), {}),
      Plan((a :> {}) @@ (b :> {a}) @@ (c :> {a}), {}),
      Plan((a :> {}) @@ (b :> {a}) @@ (c :> {a}), {b}) }
=============================================================================
