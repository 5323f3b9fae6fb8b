------------------------------ MODULE PlanWork ------------------------------
(***************************************************************************)
(* What the plan executor promises, without batches, goroutines, retries   *)
(* or pauses: a step is completed once, after the steps it needs; whatever *)
(* is not yet completed may be planned anew; the plan is reported finished *)
(* only when all of it is completed.  A plan in which an id stands for two *)
(* steps is promised less: planning anew may undo what is completed.       *)
(***************************************************************************)
EXTENDS PlanGraph

CONSTANTS StepIds, InitialPlans

VARIABLES plan, needs, completed, twice, unfit, finished

workVars == <<plan, needs, completed, twice, unfit, finished>>

WorkInit ==
    /\ \E p \in InitialPlans :
         plan = p.steps /\ needs = p.deps /\ unfit = p.unrunnable
    /\ completed = {}
    /\ twice = {}
    /\ finished = FALSE

(* Once, unless its id stands for two steps. *)
Complete(s) ==
    /\ s \in plan \ completed
    /\ s \notin unfit
    /\ needs[s] \subseteq completed
    /\ completed' = completed \cup {s}
    /\ UNCHANGED <<plan, needs, twice, unfit, finished>>

(* Completed work stays in the plan with the needs it had. *)
KeepsCompleted ==
    /\ completed' = completed
    /\ completed \subseteq plan'
    /\ \A s \in completed \ twice' : needs'[s] = needs[s]

PlanAnew ==
    /\ plan' \in SUBSET StepIds
    /\ needs' \in [StepIds -> SUBSET StepIds]
    /\ Valid(plan', needs')
    /\ twice' \subseteq plan \cap plan'
    /\ unfit' \subseteq unfit
    /\ completed' \subseteq completed
    /\ twice = {} => KeepsCompleted
    /\ UNCHANGED finished

(* Nothing is left to do, or nothing that can be done. *)
Finish ==
    /\ plan \subseteq completed \/ plan \cap unfit # {}
    /\ finished' = TRUE
    /\ UNCHANGED <<plan, needs, completed, twice, unfit>>

WorkNext ==
    /\ ~finished
    /\ (\E s \in StepIds : Complete(s)) \/ PlanAnew \/ Finish

WorkSpec == WorkInit /\ [][WorkNext]_workVars
=============================================================================
