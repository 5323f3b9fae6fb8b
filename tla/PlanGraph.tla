----------------------------- MODULE PlanGraph ------------------------------
(***************************************************************************)
(* The graph operations of the plan package: a plan is a set of steps and  *)
(* deps[s], the steps that s depends on.                                   *)
(***************************************************************************)

(* What Kahn's algorithm in plan.Validate accepts: dependencies are steps  *)
(* of the plan, and however many steps are left, one can go next.          *)
Valid(plan, deps) ==
    /\ plan # {}
    /\ \A s \in plan : deps[s] \subseteq plan
    /\ \A R \in SUBSET plan : R # {} => \E s \in R : deps[s] \cap R = {}

(* The next batch of topoSortPending: the steps with no dependency among   *)
(* those still to be sorted.  Dependencies outside count as met.           *)
Ready(left, deps) == {s \in left : deps[s] \cap left = {}}

(* Contains f and, with a step, all that depend on it. *)
ClosedUnderDependents(C, plan, deps, f) ==
    f \in C /\ \A s \in plan : deps[s] \cap C # {} => s \in C

(* The failed step and the steps that name it. *)
AffectedDirectly(plan, deps, f) == {s \in plan : s = f \/ f \in deps[s]}

(* affectedSteps: f and its transitive dependents. *)
Affected(plan, deps, f) ==
    {s \in plan : \A C \in SUBSET plan :
                     ClosedUnderDependents(C, plan, deps, f) => s \in C}
=============================================================================
