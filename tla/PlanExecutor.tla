---------------------------- MODULE PlanExecutor ----------------------------
(***************************************************************************)
(* plan/executor.go: one PlanDef run to completion.                        *)
(*                                                                         *)
(* The goroutine of execute sorts the steps that are not done into batches *)
(* and runs each batch in an errgroup: one goroutine per step, at most     *)
(* MaxConcurrency at a time, whose derived context is cancelled by the     *)
(* first step that fails.  A step is tried up to MaxRetries + 1 times.     *)
(* When a batch has failed the plan is replanned or the call returns       *)
(* paused; the caller may resume it (ExecuteWithState), with the steps as  *)
(* they are or planned anew from feedback.                                 *)
(*                                                                         *)
(* What an agent answers, and what a model plans, is chosen freely.  The   *)
(* order of steps in a definition, which picks the failed step that is     *)
(* reported and the gate that is, is left open: any may be picked.  The    *)
(* event channel is taken to be drained, as its caller in rest/ does.      *)
(***************************************************************************)
EXTENDS Integers, FiniteSets, PlanGraph

CONSTANTS
    StepIds,        \* all step ids ever planned
    InitialPlans,   \* the definitions given: steps, deps, and the steps that are
                    \* unrunnable, their agent being none of the executor's
    Gates,          \* the steps marked Gate
    MaxConcurrency, \* PlanConfig.MaxConcurrency
    MaxRetries,     \* StepDef.MaxRetries
    MaxReplans,     \* PlanConfig.MaxReplans
    AutoReplan,     \* the values of PlanConfig.AutoReplan considered
    MaxNewSteps,    \* bound: steps planned at a time in place of others
    MaxResumes      \* bound: times the caller resumes a paused plan

ASSUME PlanAssumption ==
    /\ \A p \in InitialPlans :
         /\ p.steps \in SUBSET StepIds
         /\ p.deps \in [StepIds -> SUBSET StepIds]
         /\ p.unrunnable \in SUBSET StepIds
         /\ Valid(p.steps, p.deps)
    /\ IsFiniteSet(StepIds)
    /\ AutoReplan \subseteq BOOLEAN
    /\ MaxConcurrency \in Nat \ {0}
    /\ MaxRetries \in Nat
    /\ MaxReplans \in Nat
    /\ MaxResumes \in Nat

VARIABLES
    plan,         \* the ids of the definition's steps
    deps,         \* DependsOn of a step, as last defined (what is sorted)
    allDeps,      \* DependsOn of all definitions with that id
    doubled,      \* the ids that more than one step of the definition has
    unrunnable,   \* the steps without a runner
    result,       \* StepResult.Status, "none" where there is no entry
    retries,      \* StepResult.Retries
    cause,        \* what the error of a failed step is: its own or "cancelled"
    auto,         \* the configured AutoReplan
    replans,      \* PlanState.ReplanCount
    resumes,      \* how often the caller resumed
    ctxDone,      \* the caller's context is cancelled
    mpc,          \* where the goroutine of execute is
    outcome,      \* how execute returned
    reported,     \* the failed step, or the gate, of the last pause or replan
    left,         \* pending steps not yet put in a batch
    batch,        \* the batch in the errgroup
    gpc,          \* where the goroutine of a step is
    groupErr,     \* the errgroup has cancelled its context
    batchFailed,  \* the failed flag of runBatch
    shown,        \* history variable: the gates paused at
    passedBy      \* history variable: the gates done in a batch that failed or
                  \* paused at another gate

planVars == <<plan, deps, allDeps, doubled, unrunnable, auto>>
stepVars == <<result, retries, cause>>
groupVars == <<batch, gpc, groupErr, batchFailed>>
callerVars == <<resumes, ctxDone>>
histVars == <<shown, passedBy>>
vars == <<planVars, stepVars, replans, callerVars, mpc, outcome, reported,
          left, groupVars, histVars>>

-----------------------------------------------------------------------------
Results == {"none", "pending", "running", "done", "failed"}
Outcomes == {"none", "done", "failed", "paused", "gate", "cancelled"}
MainStates == {"loop", "next", "wait", "check", "replan", "ended"}
StepStates == {"idle", "queued", "spawned", "running", "retry", "succeeded",
               "gave up", "end"}

PlanTypeOK ==
    /\ plan \in SUBSET StepIds
    /\ deps \in [StepIds -> SUBSET StepIds]
    /\ allDeps \in [StepIds -> SUBSET StepIds]
    /\ doubled \in SUBSET StepIds
    /\ unrunnable \in SUBSET StepIds
    /\ auto \in BOOLEAN
    /\ replans \in 0..(MaxReplans + MaxResumes + 1)
    /\ resumes \in 0..MaxResumes
    /\ ctxDone \in BOOLEAN
    /\ reported \in SUBSET StepIds
    /\ shown \in SUBSET StepIds
    /\ passedBy \in SUBSET StepIds

StepTypeOK ==
    /\ result \in [StepIds -> Results]
    /\ retries \in [StepIds -> 0..MaxRetries]
    /\ cause \in [StepIds -> {"none", "own", "cancelled"}]

GroupTypeOK ==
    /\ mpc \in MainStates
    /\ outcome \in Outcomes
    /\ outcome = "none" <=> mpc # "ended"
    /\ left \in SUBSET StepIds
    /\ batch \in SUBSET StepIds
    /\ gpc \in [StepIds -> StepStates]
    /\ groupErr \in BOOLEAN
    /\ batchFailed \in BOOLEAN
    /\ mpc # "wait" => \A s \in StepIds : gpc[s] = "idle"
    /\ mpc = "wait" => \A s \in StepIds : gpc[s] # "idle" <=> s \in batch

(* Types, and what ties the two kinds of goroutines: step goroutines exist *)
(* for the batch that execute waits for, and nothing is left of them when  *)
(* it goes on.                                                             *)
TypeOK ==
    /\ PlanTypeOK
    /\ StepTypeOK
    /\ GroupTypeOK

Init ==
    /\ \E p \in InitialPlans :
         /\ plan = p.steps
         /\ deps = p.deps
         /\ allDeps = p.deps
         /\ unrunnable = p.unrunnable
    /\ doubled = {}
    /\ auto \in AutoReplan
    /\ result = [s \in StepIds |-> "none"]
    /\ retries = [s \in StepIds |-> 0]
    /\ cause = [s \in StepIds |-> "none"]
    /\ replans = 0
    /\ resumes = 0
    /\ ctxDone = FALSE
    /\ mpc = "loop"
    /\ outcome = "none"
    /\ reported = {}
    /\ left = {}
    /\ batch = {}
    /\ gpc = [s \in StepIds |-> "idle"]
    /\ groupErr = FALSE
    /\ batchFailed = FALSE
    /\ shown = {}
    /\ passedBy = {}

-----------------------------------------------------------------------------
(* execute returns. *)
Return(how) ==
    /\ mpc' = "ended"
    /\ outcome' = how

(* A group that is done as soon as one of its goroutines is. *)
GroupDoneWithFirst == groupErr \/ ctxDone \/ \E s \in StepIds : gpc[s] = "end"

(* The derived context of the group: its own cancellation or the caller's. *)
GroupDone == groupErr \/ ctxDone

Active == {s \in StepIds : gpc[s] \notin {"idle", "queued", "end"}}

Failed == {s \in plan : result[s] = "failed"}

Go(s, to) == gpc' = [gpc EXCEPT ![s] = to]

-----------------------------------------------------------------------------
(* The replan loop of execute *)

(* The top of the loop gives up when the context is done ... *)
LoopCancelled ==
    /\ mpc = "loop"
    /\ ctxDone
    /\ Return("cancelled")
    /\ UNCHANGED <<planVars, stepVars, replans, callerVars, reported, left,
                   groupVars, histVars>>

(* ... else gives every step a result and takes up all that are not done. *)
LoopStart ==
    /\ mpc = "loop"
    /\ ~ctxDone
    /\ result' = [s \in StepIds |-> IF s \in plan /\ result[s] = "none"
                                    THEN "pending" ELSE result[s]]
    /\ left' = {s \in plan : result'[s] \in {"pending", "failed"}}
    /\ mpc' = "next"
    /\ UNCHANGED <<planVars, retries, cause, replans, callerVars, outcome,
                   reported, groupVars, histVars>>

(* All batches have run: on to the check for failures. *)
BatchesDone ==
    /\ mpc = "next"
    /\ Ready(left, deps) = {}
    /\ mpc' = "check"
    /\ UNCHANGED <<planVars, stepVars, replans, callerVars, outcome, reported,
                   left, groupVars, histVars>>

BatchCancelled ==
    /\ mpc = "next"
    /\ Ready(left, deps) # {}
    /\ ctxDone
    /\ Return("failed")
    /\ UNCHANGED <<planVars, stepVars, replans, callerVars, reported, left,
                   groupVars, histVars>>

(* A batch that takes all that is left at once. *)
NextBatchUnsorted == left

(* The steps a batch takes from those left. *)
NextBatch == Ready(left, deps)

(* runBatch with a fresh group; every step of the batch is queued for it. *)
StartBatch ==
    /\ mpc = "next"
    /\ NextBatch # {}
    /\ ~ctxDone
    /\ batch' = NextBatch
    /\ left' = left \ NextBatch
    /\ gpc' = [s \in StepIds |-> IF s \in NextBatch THEN "queued" ELSE "idle"]
    /\ groupErr' = FALSE
    /\ batchFailed' = FALSE
    /\ mpc' = "wait"
    /\ UNCHANGED <<planVars, stepVars, replans, callerVars, outcome, reported,
                   histVars>>

-----------------------------------------------------------------------------
(* The goroutine of a step *)

(* errgroup starts a goroutine when one of MaxConcurrency slots is free. *)
Spawn(s) ==
    /\ mpc = "wait"
    /\ gpc[s] = "queued"
    /\ Cardinality(Active) < MaxConcurrency
    /\ Go(s, "spawned")
    /\ UNCHANGED <<planVars, stepVars, replans, callerVars, mpc, outcome,
                   reported, left, batch, groupErr, batchFailed, histVars>>

(* A step whose group is done by then does not start: its status stays. *)
EarlyExit(s) ==
    /\ gpc[s] = "spawned"
    /\ GroupDone
    /\ Go(s, "end")
    /\ groupErr' = TRUE
    /\ UNCHANGED <<planVars, stepVars, replans, callerVars, mpc, outcome,
                   reported, left, batch, batchFailed, histVars>>

(* Without its agent executeStep reports a failure it does not record. *)
NotFound(s) ==
    /\ gpc[s] = "spawned"
    /\ ~GroupDone
    /\ s \in unrunnable
    /\ Go(s, "gave up")
    /\ UNCHANGED <<planVars, stepVars, replans, callerVars, mpc, outcome,
                   reported, left, batch, groupErr, batchFailed, histVars>>

(* The first try. *)
StartStep(s) ==
    /\ gpc[s] = "spawned"
    /\ ~GroupDone
    /\ s \notin unrunnable
    /\ result' = [result EXCEPT ![s] = "running"]
    /\ retries' = [retries EXCEPT ![s] = 0]
    /\ Go(s, "running")
    /\ UNCHANGED <<planVars, cause, replans, callerVars, mpc, outcome,
                   reported, left, batch, groupErr, batchFailed, histVars>>

Retry(s) ==
    /\ gpc[s] = "retry"
    /\ result' = [result EXCEPT ![s] = "running"]
    /\ retries' = [retries EXCEPT ![s] = @ + 1]
    /\ Go(s, "running")
    /\ UNCHANGED <<planVars, cause, replans, callerVars, mpc, outcome,
                   reported, left, batch, groupErr, batchFailed, histVars>>

RunSucceeds(s) ==
    /\ gpc[s] = "running"
    /\ result' = [result EXCEPT ![s] = "done"]
    /\ cause' = [cause EXCEPT ![s] = "none"]
    /\ Go(s, "succeeded")
    /\ UNCHANGED <<planVars, retries, replans, callerVars, mpc, outcome,
                   reported, left, batch, groupErr, batchFailed, histVars>>

(* The run fails for the reason why; the step goes to the state next. *)
RunFails(s, why, next) ==
    /\ gpc[s] = "running"
    /\ result' = [result EXCEPT ![s] = "failed"]
    /\ cause' = [cause EXCEPT ![s] = why]
    /\ Go(s, next)
    /\ UNCHANGED <<planVars, retries, replans, callerVars, mpc, outcome,
                   reported, left, batch, groupErr, batchFailed, histVars>>

(* A RetryableError is tried again, the last time it is not. *)
FailsTransiently(s) ==
    RunFails(s, "own", IF retries[s] < MaxRetries THEN "retry" ELSE "gave up")

FailsPermanently(s) == RunFails(s, "own", "gave up")

(* The cancellation left unrecorded. *)
FailsCancelledSilently(s) ==
    /\ GroupDone
    /\ gpc[s] = "running"
    /\ Go(s, "gave up")
    /\ UNCHANGED <<planVars, stepVars, replans, callerVars, mpc, outcome,
                   reported, left, batch, groupErr, batchFailed, histVars>>

(* A run whose context was cancelled ends with context.Canceled. *)
FailsCancelled(s) == GroupDone /\ RunFails(s, "cancelled", "gave up")

(* The goroutine returns: an error cancels the group. *)
StepReturns(s) ==
    /\ gpc[s] \in {"succeeded", "gave up"}
    /\ Go(s, "end")
    /\ groupErr' = (groupErr \/ gpc[s] = "gave up")
    /\ batchFailed' = (batchFailed \/ gpc[s] = "gave up")
    /\ UNCHANGED <<planVars, stepVars, replans, callerVars, mpc, outcome,
                   reported, left, batch, histVars>>

-----------------------------------------------------------------------------
(* Back in the goroutine of execute *)

DoneGates == {s \in plan \cap Gates : result[s] = "done"}

GatesOfBatch == batch \cap DoneGates

(* The plan pauses at the gate g, and at no other of the batch. *)
PauseAtGate(g) ==
    /\ reported' = {g}
    /\ shown' = shown \cup {g}
    /\ passedBy' = passedBy \cup (GatesOfBatch \ {g})
    /\ Return("gate")

(* A batch judged by its failed flag alone. *)
AfterBatchByFlag ==
    \/ /\ batchFailed
       /\ mpc' = "check"
       /\ UNCHANGED <<outcome, reported, histVars>>
    \/ /\ ~batchFailed
       /\ mpc' = "next"
       /\ UNCHANGED <<outcome, reported, histVars>>

(* A batch that failed is left before its gates are looked at; after one   *)
(* that did not, the first gate that is done stops the plan.               *)
AfterBatch ==
    \/ /\ groupErr /\ ctxDone
       /\ Return("failed")
       /\ UNCHANGED <<reported, histVars>>
    \/ /\ ~(groupErr /\ ctxDone)
       /\ batchFailed
       /\ passedBy' = passedBy \cup GatesOfBatch
       /\ mpc' = "check"
       /\ UNCHANGED <<outcome, reported, shown>>
    \/ /\ ~(groupErr /\ ctxDone)
       /\ ~batchFailed
       /\ \E g \in GatesOfBatch : PauseAtGate(g)
    \/ /\ ~(groupErr /\ ctxDone)
       /\ ~batchFailed
       /\ GatesOfBatch = {}
       /\ mpc' = "next"
       /\ UNCHANGED <<outcome, reported, histVars>>

(* g.Wait returns and executeBatches goes on as the batch went. *)
Join ==
    /\ mpc = "wait"
    /\ \A s \in batch : gpc[s] = "end"
    /\ AfterBatch
    /\ gpc' = [s \in StepIds |-> "idle"]
    /\ batch' = {}
    /\ groupErr' = FALSE
    /\ batchFailed' = FALSE
    /\ UNCHANGED <<planVars, stepVars, replans, callerVars, left>>

(* findFailed finds nothing: all done. *)
AllDone ==
    /\ mpc = "check"
    /\ Failed = {}
    /\ Return("done")
    /\ UNCHANGED <<planVars, stepVars, replans, callerVars, reported, left,
                   groupVars, histVars>>

(* A failed step, and no replanning by itself: pause. *)
PauseOnFailure ==
    /\ mpc = "check"
    /\ ~auto
    /\ \E f \in Failed : reported' = {f}
    /\ Return("paused")
    /\ UNCHANGED <<planVars, stepVars, replans, callerVars, left, groupVars,
                   histVars>>

(* A replan that is not counted. *)
CountReplanForgotten == UNCHANGED replans

CountReplan == replans' = replans + 1

(* A failed step: replan, unless that was done MaxReplans times. *)
ReplanOrGiveUp ==
    /\ mpc = "check"
    /\ auto
    /\ Failed # {}
    /\ CountReplan
    /\ \/ /\ replans + 1 > MaxReplans
          /\ Return("failed")
          /\ UNCHANGED reported
       \/ /\ replans + 1 <= MaxReplans
          /\ \E f \in Failed : reported' = {f}
          /\ mpc' = "replan"
          /\ UNCHANGED outcome
    /\ UNCHANGED <<planVars, stepVars, callerVars, left, groupVars, histVars>>

-----------------------------------------------------------------------------
(* Replanning *)

Survivors(f) == plan \ Affected(plan, allDeps, f)

(* A merged plan that forgets what was done already. *)
KeptNothing(f) == {}

(* The steps whose results replanning leaves alone. *)
Kept(f) == Survivors(f)

(* Of two steps with one id executeBatches sorts the later. *)
MergedDeps(f, new, needs) ==
    [s \in StepIds |-> IF s \in new THEN needs[s]
                       ELSE IF s \in Survivors(f) THEN deps[s] ELSE {}]

(* affectedSteps follows both. *)
MergedAllDeps(f, new, needs) ==
    [s \in StepIds |-> (IF s \in new THEN needs[s] ELSE {})
                       \cup (IF s \in Survivors(f) THEN allDeps[s] ELSE {})]

(* The steps affected by f give way to new ones, and their results go.  A  *)
(* new step with the id of a surviving one shares its result and, as       *)
(* executeStep looks steps up by id, leaves the agent to it.               *)
Merge(f, new, needs) ==
    /\ plan' = Survivors(f) \cup new
    /\ deps' = MergedDeps(f, new, needs)
    /\ allDeps' = MergedAllDeps(f, new, needs)
    /\ doubled' = (doubled \cup new) \cap Survivors(f)
    /\ unrunnable' = unrunnable \cap Survivors(f)
    /\ result' = [s \in StepIds |-> IF s \in Kept(f) THEN result[s] ELSE "none"]
    /\ retries' = [s \in StepIds |-> IF s \in Kept(f) THEN retries[s] ELSE 0]
    /\ cause' = [s \in StepIds |-> IF s \in Kept(f) THEN cause[s] ELSE "none"]
    /\ shown' = shown \cap Survivors(f)
    /\ passedBy' = passedBy \cap Survivors(f)
    /\ UNCHANGED auto

(* The steps a model answers with. *)
NewSteps == {new \in SUBSET StepIds :
                 new # {} /\ Cardinality(new) <= MaxNewSteps}

(* What Validate says of the merged plan: each id once, with an agent. *)
MergeValidates(f, new, needs) ==
    /\ (doubled \cup new) \cap Survivors(f) = {}
    /\ unrunnable \cap Survivors(f) = {}
    /\ Valid(Survivors(f) \cup new, MergedDeps(f, new, needs))

(* replanAfterFailure takes what validates together with the survivors ... *)
Replan ==
    /\ mpc = "replan"
    /\ \E f \in reported : \E new \in NewSteps :
       \E needs \in [new -> SUBSET (Survivors(f) \cup new)] :
          /\ MergeValidates(f, new, needs)
          /\ Merge(f, new, needs)
    /\ mpc' = "loop"
    /\ UNCHANGED <<replans, callerVars, outcome, reported, left, groupVars>>

(* ... and fails on any other answer, or none. *)
ReplanFails ==
    /\ mpc = "replan"
    /\ Return("failed")
    /\ UNCHANGED <<planVars, stepVars, replans, callerVars, reported, left,
                   groupVars, histVars>>

-----------------------------------------------------------------------------
(* The caller: rest/plan_handler.go *)

Cancel ==
    /\ ~ctxDone
    /\ outcome \notin {"done", "failed", "cancelled"}
    /\ ctxDone' = TRUE
    /\ UNCHANGED <<planVars, stepVars, replans, resumes, mpc, outcome,
                   reported, left, groupVars, histVars>>

(* Another call that leaves the status of the last one standing. *)
CallAgainStale ==
    /\ outcome \in {"paused", "gate"}
    /\ resumes < MaxResumes
    /\ resumes' = resumes + 1
    /\ mpc' = "loop"
    /\ UNCHANGED <<outcome, ctxDone, reported, left, groupVars>>

(* ExecuteWithState again. *)
CallAgain ==
    /\ outcome \in {"paused", "gate"}
    /\ resumes < MaxResumes
    /\ resumes' = resumes + 1
    /\ outcome' = "none"
    /\ mpc' = "loop"
    /\ UNCHANGED <<ctxDone, reported, left, groupVars>>

(* "retry" for a failed step resets it, for a gate that is done nothing. *)
ResumeRetry(s) ==
    /\ CallAgain
    /\ s \in plan
    /\ \/ /\ result[s] = "failed"
          /\ result' = [result EXCEPT ![s] = "pending"]
          /\ retries' = [retries EXCEPT ![s] = 0]
          /\ cause' = [cause EXCEPT ![s] = "none"]
       \/ /\ s \in DoneGates
          /\ UNCHANGED stepVars
    /\ UNCHANGED <<planVars, replans, histVars>>

(* "replan" of a failed step with feedback: the planner validates the new  *)
(* steps by themselves, so they depend only on one another, and may have   *)
(* ids of surviving ones.                                                  *)
ResumeReplanned(f) ==
    /\ CallAgain
    /\ f \in Failed
    /\ \E new \in NewSteps : \E needs \in [new -> SUBSET new] :
          Valid(new, needs) /\ Merge(f, new, needs)
    /\ replans' = replans + 1

-----------------------------------------------------------------------------
StepAction(s) ==
    \/ Spawn(s)
    \/ EarlyExit(s)
    \/ NotFound(s)
    \/ StartStep(s)
    \/ Retry(s)
    \/ RunSucceeds(s)
    \/ FailsTransiently(s)
    \/ FailsPermanently(s)
    \/ FailsCancelled(s)
    \/ StepReturns(s)

ExecutorAction ==
    \/ LoopCancelled
    \/ LoopStart
    \/ BatchesDone
    \/ BatchCancelled
    \/ StartBatch
    \/ \E s \in StepIds : StepAction(s)
    \/ Join
    \/ AllDone
    \/ PauseOnFailure
    \/ ReplanOrGiveUp
    \/ Replan
    \/ ReplanFails

CallerAction ==
    \/ Cancel
    \/ \E s \in StepIds : ResumeRetry(s) \/ ResumeReplanned(s)

Next == ExecutorAction \/ CallerAction

Spec == Init /\ [][Next]_vars

(* The goroutines run, and every run of an agent ends; callers may go away. *)
FairSpec == Spec /\ WF_vars(ExecutorAction)

-----------------------------------------------------------------------------
(* Properties *)

Done == {s \in plan : result[s] = "done"}

(* A step only ever runs on results that are there: whatever batches,       *)
(* retries, pauses and replanning came before, all it was sorted behind is  *)
(* done, and stays so.  An id of two steps may be done by the one before    *)
(* what the other depends on is.                                            *)
DepsDoneBeforeStart ==
    \A s \in plan :
       \/ gpc[s] \in {"running", "retry", "succeeded"}
       \/ result[s] = "done" /\ s \notin doubled
       => deps[s] \subseteq Done

(* "All done" (executor.go:91) is said only of a plan of which every step   *)
(* has run, the error of a cancelled batch notwithstanding, if there is an  *)
(* agent for each.                                                          *)
DoneMeansAllDone ==
    outcome = "done" /\ plan \cap unrunnable = {} => Done = plan

(* "All done", with or without an agent for each: it is not so.             *)
DoneSaysAllRan == outcome = "done" => Done = plan

(* A step that is left "running" would never be taken up again by           *)
(* executeBatches, nor be seen by findFailed: nothing is when no goroutine  *)
(* runs it.                                                                 *)
NothingLeftRunning ==
    \A s \in StepIds : result[s] = "running" => gpc[s] = "running"

(* Siblings that a failure cancels are recorded as failed too; but a plan   *)
(* that pauses has a step that failed by itself, with an error worth        *)
(* showing, unless the caller cancelled or the step that failed had no      *)
(* agent.                                                                   *)
PauseHasRootCause ==
    outcome = "paused" /\ ~ctxDone /\ plan \cap unrunnable = {}
        => \E f \in Failed : cause[f] = "own"

(* Nobody depends on work that a human had no chance to look at: when a     *)
(* step starts, the plan has paused at each gate it depends on, whatever    *)
(* was retried or replanned since; but for the gates that were done in a    *)
(* batch which failed or which paused at another gate, and these it never   *)
(* pauses at.                                                               *)
GateStops ==
    \A s \in plan : gpc[s] = "running" => deps[s] \cap Gates \subseteq shown \cup passedBy

(* Finished work is kept: while no id is that of two steps, no retry,       *)
(* resume or replan runs a step that is done again, drops it from the plan  *)
(* or, unless it gives the id to another step as well, changes what it was  *)
(* built on.                                                                *)
DoneIsFinal ==
    [][doubled = {} =>
         \A s \in Done : /\ s \in plan'
                         /\ result'[s] = "done"
                         /\ s \notin doubled' => deps'[s] = deps[s]]_vars

(* Failures, retries and replans come to an end.                            *)
Terminates == mpc # "ended" ~> mpc = "ended"

(* The executor implements the abstract plan. *)
Work == INSTANCE PlanWork WITH needs <- deps, completed <- Done, twice <- doubled,
                               unfit <- unrunnable,
                               finished <- (outcome = "done")
ImplementsWork == Work!WorkSpec
=============================================================================
