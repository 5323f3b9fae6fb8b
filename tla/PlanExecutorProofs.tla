------------------------- MODULE PlanExecutorProofs -------------------------
(***************************************************************************)
(* Proofs about PlanExecutor, for every set of steps, plan, bound and      *)
(* configuration that PlanAssumption allows.                               *)
(***************************************************************************)
EXTENDS PlanExecutor, PlanGraphProofs

-----------------------------------------------------------------------------
(* The inductive invariant *)

(* Counters.  Only a call that then fails counts a replan too many. *)
CountInv ==
    /\ replans <= MaxReplans + resumes + 1
    /\ outcome # "failed" => replans <= MaxReplans + resumes
    /\ \A s \in StepIds : gpc[s] = "retry" => retries[s] < MaxRetries

(* Where the goroutine of a step is, and what its status says. *)
StepInv ==
    \A s \in StepIds :
        /\ result[s] = "running" <=> gpc[s] = "running"
        /\ gpc[s] \in {"queued", "spawned"} => result[s] \in {"pending", "failed"}
        /\ gpc[s] \in {"running", "retry"} => s \notin unrunnable
        /\ gpc[s] = "retry" => result[s] = "failed"
        /\ gpc[s] = "succeeded" => result[s] = "done"
        /\ gpc[s] = "gave up" => \/ result[s] = "failed"
                                 \/ s \in unrunnable /\ result[s] = "pending"
        /\ gpc[s] = "end" => result[s] = "done" \/ groupErr

(* What is neither in the batch nor left to be sorted is done. *)
BatchInv ==
    /\ batch \subseteq plan
    /\ mpc # "wait" => batch = {} /\ ~groupErr /\ ~batchFailed
    /\ groupErr => batchFailed \/ ctxDone
    /\ mpc \in {"next", "wait"} =>
          /\ left \subseteq plan
          /\ \A s \in left : result[s] \in {"pending", "failed"}
          /\ left \cap batch = {}
          /\ plan \subseteq left \cup batch \cup Done

(* An id that one step has was defined once. *)
IdsInv ==
    /\ doubled \subseteq plan
    /\ \A s \in plan : deps[s] \subseteq allDeps[s] /\ allDeps[s] \subseteq plan
    /\ \A s \in plan \ doubled : allDeps[s] = deps[s]

(* The order of dependencies. *)
DepsInv ==
    /\ Valid(plan, deps)
    /\ \A s \in (Done \ doubled) \cup batch : deps[s] \subseteq Done

AllFit == plan \cap unrunnable = {}

(* With every agent there, a failed batch has a failed step. *)
FailInv ==
    /\ mpc = "replan" => reported \subseteq Failed
    /\ AllFit =>
          /\ batchFailed => \E s \in batch : gpc[s] = "end" /\ result[s] = "failed"
          /\ mpc = "check" => Failed # {} \/ plan \subseteq Done
          /\ outcome = "done" => plan \subseteq Done

OwnFailure(S) == \E f \in S : result[f] = "failed" /\ cause[f] = "own"

(* Unless the caller cancels, it is a failure of its own that starts it. *)
CauseInv ==
    AllFit /\ ~ctxDone =>
        /\ groupErr \/ batchFailed \/ (\E s \in batch : gpc[s] = "gave up")
              => OwnFailure({s \in batch : gpc[s] \in {"gave up", "end"}})
        /\ mpc = "check" => Failed = {} \/ OwnFailure(plan)
        /\ outcome = "paused" => OwnFailure(plan)

(* Gates done in this batch are yet to be paused at, or passed by. *)
GateInv ==
    /\ outcome # "failed" => DoneGates \subseteq shown \cup passedBy \cup batch
    /\ \A s \in batch : deps[s] \cap Gates \subseteq shown \cup passedBy

IInv ==
    /\ TypeOK
    /\ CountInv
    /\ StepInv
    /\ BatchInv
    /\ IdsInv
    /\ DepsInv
    /\ FailInv
    /\ CauseInv
    /\ GateInv

-----------------------------------------------------------------------------
USE PlanAssumption

LEMMA InitInv == Init => IInv
  <1> SUFFICES ASSUME Init PROVE IInv
    OBVIOUS
  <1> USE DEF Init
  <1>1. TypeOK
    <2>1. PICK p \in InitialPlans : /\ plan = p.steps
                                    /\ deps = p.deps
                                    /\ allDeps = p.deps
                                    /\ unrunnable = p.unrunnable
      OBVIOUS
    <2>2. /\ plan \in SUBSET StepIds
          /\ deps \in [StepIds -> SUBSET StepIds]
          /\ allDeps \in [StepIds -> SUBSET StepIds]
          /\ unrunnable \in SUBSET StepIds
      BY <2>1
    <2>3. PlanTypeOK
      <3>1. auto \in BOOLEAN
        BY PlanAssumption
      <3>2. replans \in 0..(MaxReplans + MaxResumes + 1) /\ resumes \in 0..MaxResumes
        BY PlanAssumption
      <3> QED
        BY <2>2, <3>1, <3>2 DEF PlanTypeOK
    <2>4. StepTypeOK
      BY DEF StepTypeOK, Results
    <2>5. GroupTypeOK
      BY DEF GroupTypeOK, MainStates, Outcomes, StepStates
    <2> QED
      BY <2>3, <2>4, <2>5 DEF TypeOK
  <1>2. CountInv /\ StepInv
    BY DEF CountInv, StepInv
  <1>3. Done = {} /\ DoneGates = {} /\ Failed = {}
    BY DEF Done, DoneGates, Failed
  <1>4. BatchInv /\ FailInv /\ CauseInv /\ GateInv
    BY <1>3 DEF BatchInv, FailInv, CauseInv, GateInv
  <1>5. Valid(plan, deps) /\ allDeps = deps
    OBVIOUS
  <1>6. IdsInv /\ DepsInv
    BY <1>3, <1>5 DEF IdsInv, DepsInv, Valid
  <1> QED
    BY <1>1, <1>2, <1>4, <1>6 DEF IInv

-----------------------------------------------------------------------------
(* Types *)

(* A step goroutine is in the batch that execute waits for. *)
LEMMA InBatch ==
    ASSUME TypeOK, NEW s \in StepIds, gpc[s] # "idle"
    PROVE  mpc = "wait" /\ s \in batch /\ outcome = "none"
  BY DEF TypeOK, GroupTypeOK

(* What a step goroutine does leaves these in type. *)
LEMMA GroupTypeStep ==
    ASSUME GroupTypeOK, NEW s \in StepIds, gpc[s] # "idle",
           NEW to \in StepStates \ {"idle"}, Go(s, to),
           groupErr' \in BOOLEAN, batchFailed' \in BOOLEAN,
           UNCHANGED <<mpc, outcome, left, batch>>
    PROVE  GroupTypeOK'
  BY DEF GroupTypeOK, Go

LEMMA StepTypes ==
    ASSUME TypeOK, CountInv, NEW s \in StepIds, StepAction(s)
    PROVE  TypeOK'
  <1> USE DEF TypeOK
  <1> HIDE PlanAssumption
  <1> DEFINE T(x) == x \in StepStates \ {"idle"}
  <1>0. groupErr \in BOOLEAN /\ batchFailed \in BOOLEAN /\ gpc[s] \in StepStates
    BY DEF GroupTypeOK
  <1>1. StepAction(s) => gpc[s] # "idle"
    BY <1>0 DEF StepAction, Spawn, EarlyExit, NotFound, StartStep, Retry,
             RunSucceeds, FailsTransiently, FailsPermanently, FailsCancelled,
             RunFails, StepReturns
  <1>2. PlanTypeOK'
    BY DEF StepAction, Spawn, EarlyExit, NotFound, StartStep, Retry,
             RunSucceeds, FailsTransiently, FailsPermanently, FailsCancelled,
             RunFails, StepReturns, PlanTypeOK, planVars, callerVars, histVars
  <1>3. StepTypeOK'
    <2> USE DEF StepTypeOK
    <2>1. CASE Spawn(s) \/ EarlyExit(s) \/ NotFound(s) \/ StepReturns(s)
      BY <2>1 DEF Spawn, EarlyExit, NotFound, StepReturns, stepVars
    <2>2. CASE StartStep(s)
      BY <2>2, PlanAssumption DEF StartStep, Results
    <2>3. CASE Retry(s)
      BY <2>3, PlanAssumption DEF Retry, Results, CountInv
    <2>4. CASE RunSucceeds(s)
      BY <2>4 DEF RunSucceeds, Results
    <2>5. ASSUME NEW why \in {"own", "cancelled"}, NEW next, RunFails(s, why, next)
          PROVE  StepTypeOK'
      BY <2>5 DEF RunFails, Results
    <2> QED
      BY <2>1, <2>2, <2>3, <2>4, <2>5 DEF StepAction, FailsTransiently,
         FailsPermanently, FailsCancelled
  <1>4. GroupTypeOK'
    <2>1. ASSUME NEW to \in {"end"}, Go(s, to), groupErr' \in BOOLEAN,
                 batchFailed' \in BOOLEAN, UNCHANGED <<mpc, outcome, left, batch>>
          PROVE GroupTypeOK'
      BY <2>1, <1>1, GroupTypeStep DEF StepStates
    <2>2. ASSUME NEW to \in {"spawned", "running", "retry", "succeeded", "gave up"},
                 Go(s, to), UNCHANGED <<groupErr, batchFailed, mpc, outcome, left, batch>>
          PROVE GroupTypeOK'
      BY <2>2, <1>0, <1>1, GroupTypeStep DEF StepStates
    <2>3. CASE EarlyExit(s)
      BY <2>3, <2>1, <1>0 DEF EarlyExit
    <2>4. CASE StepReturns(s)
      BY <2>4, <2>1, <1>0 DEF StepReturns
    <2>5. CASE Spawn(s) \/ NotFound(s) \/ StartStep(s) \/ Retry(s) \/ RunSucceeds(s)
      BY <2>5, <2>2 DEF Spawn, NotFound, StartStep, Retry, RunSucceeds
    <2>6. CASE FailsTransiently(s) \/ FailsPermanently(s) \/ FailsCancelled(s)
      BY <2>6, <2>2 DEF FailsTransiently, FailsPermanently, FailsCancelled, RunFails
    <2> QED
      BY <2>3, <2>4, <2>5, <2>6 DEF StepAction
  <1> QED
    BY <1>2, <1>3, <1>4

LEMMA MergeTypes ==
    ASSUME TypeOK, NEW f \in StepIds, NEW new \in SUBSET StepIds,
           NEW needs \in [new -> SUBSET StepIds], Merge(f, new, needs)
    PROVE  /\ plan' \in SUBSET StepIds
           /\ deps' \in [StepIds -> SUBSET StepIds]
           /\ allDeps' \in [StepIds -> SUBSET StepIds]
           /\ doubled' \in SUBSET StepIds
           /\ unrunnable' \in SUBSET StepIds
           /\ StepTypeOK'
           /\ shown' \in SUBSET StepIds
           /\ passedBy' \in SUBSET StepIds
           /\ auto' = auto
  <1>1. Survivors(f) \in SUBSET StepIds
    BY DEF Survivors, TypeOK, PlanTypeOK
  <1>2. plan' \in SUBSET StepIds /\ auto' = auto
    BY <1>1 DEF Merge
  <1>3. deps' \in [StepIds -> SUBSET StepIds]
    <2>1. deps \in [StepIds -> SUBSET StepIds]
      BY DEF TypeOK, PlanTypeOK
    <2>2. deps' = MergedDeps(f, new, needs)
      BY DEF Merge
    <2>3. \A s \in StepIds : s \in new => needs[s] \in SUBSET StepIds
      OBVIOUS
    <2> QED
      BY <2>1, <2>2, <2>3 DEF MergedDeps
  <1>6. allDeps' \in [StepIds -> SUBSET StepIds]
    <2>1. allDeps \in [StepIds -> SUBSET StepIds]
      BY DEF TypeOK, PlanTypeOK
    <2>2. allDeps' = MergedAllDeps(f, new, needs)
      BY DEF Merge
    <2>3. \A s \in StepIds : s \in new => needs[s] \in SUBSET StepIds
      OBVIOUS
    <2> QED
      BY <2>1, <2>2, <2>3 DEF MergedAllDeps
  <1>4. StepTypeOK'
    <2>1. result \in [StepIds -> Results] /\ "none" \in Results
      BY DEF TypeOK, StepTypeOK, Results
    <2>2. retries \in [StepIds -> 0..MaxRetries] /\ 0 \in 0..MaxRetries
      BY DEF TypeOK, StepTypeOK
    <2>3. cause \in [StepIds -> {"none", "own", "cancelled"}]
      BY DEF TypeOK, StepTypeOK
    <2>4. result' \in [StepIds -> Results]
      BY <2>1 DEF Merge
    <2>5. retries' \in [StepIds -> 0..MaxRetries]
      BY <2>2 DEF Merge
    <2>6. cause' \in [StepIds -> {"none", "own", "cancelled"}]
      BY <2>3 DEF Merge
    <2> QED
      BY <2>4, <2>5, <2>6 DEF StepTypeOK
  <1>5. /\ doubled' \in SUBSET StepIds
        /\ unrunnable' \in SUBSET StepIds
        /\ shown' \in SUBSET StepIds
        /\ passedBy' \in SUBSET StepIds
    BY <1>1 DEF Merge
  <1> QED
    BY <1>2, <1>3, <1>4, <1>5, <1>6

LEMMA NewStepsType ==
    ASSUME NEW new \in NewSteps
    PROVE  new \in SUBSET StepIds /\ new # {}
  BY DEF NewSteps

(* Where execute goes from "wait", all the goroutines having returned. *)
LEMMA JoinTypes ==
    ASSUME TypeOK, Join
    PROVE  TypeOK'
  <1> USE DEF Join
  <1>1. mpc' \in MainStates /\ outcome' \in Outcomes /\ mpc' # "wait"
        /\ (outcome' = "none" <=> mpc' # "ended")
    BY DEF AfterBatch, PauseAtGate, Return, MainStates, Outcomes, TypeOK, GroupTypeOK
  <1>2. GroupTypeOK'
    <2>1. gpc' \in [StepIds -> StepStates] /\ \A s \in StepIds : gpc'[s] = "idle"
      BY DEF StepStates
    <2> QED
      BY <1>1, <2>1 DEF TypeOK, GroupTypeOK
  <1>3. StepTypeOK'
    BY DEF TypeOK, StepTypeOK, stepVars
  <1>4. PlanTypeOK'
    <2>1. GatesOfBatch \in SUBSET StepIds
      BY DEF GatesOfBatch, DoneGates, TypeOK, PlanTypeOK
    <2>2. /\ reported' \in SUBSET StepIds
          /\ shown' \in SUBSET StepIds
          /\ passedBy' \in SUBSET StepIds
      BY <2>1 DEF AfterBatch, PauseAtGate, histVars, TypeOK, PlanTypeOK
    <2> QED
      BY <2>2 DEF TypeOK, PlanTypeOK, planVars, callerVars
  <1> QED
    BY <1>2, <1>3, <1>4 DEF TypeOK

(* The steps of the goroutine of execute that leave plan and results alone. *)
MainQuiet ==
    \/ LoopCancelled
    \/ BatchesDone
    \/ BatchCancelled
    \/ AllDone
    \/ PauseOnFailure
    \/ ReplanFails

LEMMA QuietTypes ==
    ASSUME TypeOK, MainQuiet
    PROVE  TypeOK'
  <1> USE DEF MainQuiet, LoopCancelled, BatchesDone, BatchCancelled, AllDone,
              PauseOnFailure, ReplanFails, Return, planVars, stepVars,
              groupVars, callerVars, histVars
  <1>1. mpc \in {"loop", "next", "check", "replan"} /\ mpc' \in {"ended", "check"}
        /\ outcome' \in Outcomes /\ (outcome' = "none" <=> mpc' # "ended")
    BY DEF Outcomes, TypeOK, GroupTypeOK
  <1>2. GroupTypeOK'
    <2>1. UNCHANGED <<left, batch, gpc, groupErr, batchFailed>>
      OBVIOUS
    <2> QED
      BY <1>1, <2>1 DEF TypeOK, GroupTypeOK, MainStates
  <1>3. StepTypeOK'
    BY DEF TypeOK, StepTypeOK
  <1>4. PlanTypeOK'
    <2>1. Failed \in SUBSET StepIds
      BY DEF Failed, TypeOK, PlanTypeOK
    <2>2. reported' \in SUBSET StepIds
      BY <2>1 DEF TypeOK, PlanTypeOK
    <2>3. UNCHANGED <<plan, deps, allDeps, doubled, unrunnable, auto, replans,
                      resumes, ctxDone, shown, passedBy>>
      OBVIOUS
    <2> QED
      BY <2>2, <2>3 DEF TypeOK, PlanTypeOK
  <1> QED
    BY <1>2, <1>3, <1>4 DEF TypeOK

LEMMA LoopStartTypes ==
    ASSUME TypeOK, LoopStart
    PROVE  TypeOK'
  <1> USE DEF LoopStart
  <1>1. PlanTypeOK'
    BY DEF TypeOK, PlanTypeOK, planVars, callerVars, histVars
  <1>2. StepTypeOK'
    <2>1. result \in [StepIds -> Results]
      BY DEF TypeOK, StepTypeOK
    <2>2. result' \in [StepIds -> Results]
      BY <2>1 DEF Results
    <2> QED
      BY <2>2 DEF TypeOK, StepTypeOK
  <1>3. GroupTypeOK'
    <2>1. left' \in SUBSET StepIds
      BY DEF TypeOK, PlanTypeOK
    <2>2. mpc' = "next" /\ mpc = "loop" /\ UNCHANGED <<outcome, batch, gpc, groupErr, batchFailed>>
      BY DEF groupVars
    <2> QED
      BY <2>1, <2>2 DEF TypeOK, GroupTypeOK, MainStates
  <1> QED
    BY <1>1, <1>2, <1>3 DEF TypeOK

LEMMA StartBatchTypes ==
    ASSUME TypeOK, StartBatch
    PROVE  TypeOK'
  <1> USE DEF StartBatch
  <1>1. PlanTypeOK' /\ StepTypeOK'
    BY DEF TypeOK, PlanTypeOK, StepTypeOK, planVars, stepVars, callerVars, histVars
  <1>2. NextBatch \in SUBSET StepIds
    BY DEF NextBatch, Ready, TypeOK, GroupTypeOK
  <1>3. gpc' \in [StepIds -> StepStates]
    BY DEF StepStates
  <1>4. left' \in SUBSET StepIds /\ batch' \in SUBSET StepIds
    BY <1>2 DEF TypeOK, GroupTypeOK
  <1>5. outcome' = "none"
    BY DEF TypeOK, GroupTypeOK
  <1>6. \A s \in StepIds : gpc'[s] # "idle" <=> s \in batch'
    OBVIOUS
  <1>7. mpc' = "wait" /\ groupErr' \in BOOLEAN /\ batchFailed' \in BOOLEAN
    OBVIOUS
  <1>8. GroupTypeOK'
    BY <1>3, <1>4, <1>5, <1>6, <1>7 DEF GroupTypeOK, MainStates, Outcomes
  <1> QED
    BY <1>1, <1>8 DEF TypeOK

LEMMA CheckTypes ==
    ASSUME TypeOK, CountInv, ReplanOrGiveUp
    PROVE  TypeOK'
  <1> USE DEF ReplanOrGiveUp, CountReplan, Return
  <1>1. /\ mpc = "check" /\ outcome = "none"
        /\ mpc' \in {"ended", "replan"} /\ outcome' \in Outcomes
        /\ (outcome' = "none" <=> mpc' # "ended")
    BY DEF Outcomes, TypeOK, GroupTypeOK
  <1>2. GroupTypeOK'
    <2>1. UNCHANGED <<left, batch, gpc, groupErr, batchFailed>>
      BY DEF groupVars
    <2> QED
      BY <1>1, <2>1 DEF TypeOK, GroupTypeOK, MainStates
  <1>3. StepTypeOK'
    BY DEF TypeOK, StepTypeOK, stepVars
  <1>4. replans' \in 0..(MaxReplans + MaxResumes + 1)
    <2>1. replans \in Nat /\ resumes \in 0..MaxResumes
      BY DEF TypeOK, PlanTypeOK
    <2>2. replans <= MaxReplans + resumes
      BY <1>1 DEF CountInv
    <2> QED
      BY <2>1, <2>2
  <1>5. reported' \in SUBSET StepIds
    BY DEF Failed, TypeOK, PlanTypeOK
  <1>6. PlanTypeOK'
    BY <1>4, <1>5 DEF TypeOK, PlanTypeOK, planVars, callerVars, histVars
  <1> QED
    BY <1>2, <1>3, <1>6 DEF TypeOK

LEMMA ReplanTypes ==
    ASSUME TypeOK, Replan
    PROVE  TypeOK'
  <1>a. PICK f \in reported : \E new \in NewSteps :
             \E needs \in [new -> SUBSET (Survivors(f) \cup new)] : Merge(f, new, needs)
    BY DEF Replan
  <1>b. PICK new \in NewSteps :
             \E needs \in [new -> SUBSET (Survivors(f) \cup new)] : Merge(f, new, needs)
    BY <1>a
  <1>1. PICK needs \in [new -> SUBSET (Survivors(f) \cup new)] : Merge(f, new, needs)
    BY <1>b
  <1>2. f \in StepIds /\ new \in SUBSET StepIds /\ Survivors(f) \in SUBSET StepIds
    BY NewStepsType DEF TypeOK, PlanTypeOK, Survivors
  <1>3. needs \in [new -> SUBSET StepIds]
    BY <1>2
  <1>4. /\ plan' \in SUBSET StepIds
        /\ deps' \in [StepIds -> SUBSET StepIds]
        /\ allDeps' \in [StepIds -> SUBSET StepIds]
        /\ doubled' \in SUBSET StepIds
        /\ unrunnable' \in SUBSET StepIds
        /\ StepTypeOK'
        /\ shown' \in SUBSET StepIds
        /\ passedBy' \in SUBSET StepIds
        /\ auto' = auto
    BY <1>1, <1>2, <1>3, MergeTypes
  <1>5. PlanTypeOK'
    BY <1>4 DEF Replan, TypeOK, PlanTypeOK, callerVars
  <1>6. GroupTypeOK'
    <2>1. mpc = "replan" /\ mpc' = "loop"
          /\ UNCHANGED <<outcome, left, batch, gpc, groupErr, batchFailed>>
      BY DEF Replan, groupVars
    <2> QED
      BY <2>1 DEF TypeOK, GroupTypeOK, MainStates
  <1> QED
    BY <1>4, <1>5, <1>6 DEF TypeOK

LEMMA CallAgainTypes ==
    ASSUME TypeOK, CallAgain
    PROVE  /\ GroupTypeOK'
           /\ resumes' \in 0..MaxResumes
           /\ resumes' = resumes + 1
           /\ UNCHANGED <<ctxDone, reported>>
           /\ outcome \in {"paused", "gate"} /\ mpc = "ended"
  <1>1. /\ mpc = "ended" /\ mpc' = "loop" /\ outcome' = "none"
        /\ UNCHANGED <<left, batch, gpc, groupErr, batchFailed>>
    BY DEF CallAgain, groupVars, TypeOK, GroupTypeOK
  <1>2. GroupTypeOK'
    BY <1>1 DEF TypeOK, GroupTypeOK, MainStates, Outcomes
  <1>3. resumes' \in 0..MaxResumes
    BY DEF CallAgain, TypeOK, PlanTypeOK
  <1> QED
    BY <1>1, <1>2, <1>3 DEF CallAgain

LEMMA CallerTypes ==
    ASSUME TypeOK, CountInv, CallerAction
    PROVE  TypeOK'
  <1>1. CASE Cancel
    BY <1>1 DEF Cancel, TypeOK, PlanTypeOK, StepTypeOK, GroupTypeOK, planVars,
                stepVars, groupVars, histVars
  <1>2. ASSUME NEW s \in StepIds, ResumeRetry(s)
        PROVE  TypeOK'
    <2>1. CallAgain
      BY <1>2 DEF ResumeRetry
    <2>2. PlanTypeOK'
      BY <1>2, <2>1, CallAgainTypes
         DEF ResumeRetry, TypeOK, PlanTypeOK, planVars, histVars
    <2>3. StepTypeOK'
      <3>1. result' \in [StepIds -> Results]
        BY <1>2 DEF ResumeRetry, TypeOK, StepTypeOK, Results, stepVars
      <3>2. retries' \in [StepIds -> 0..MaxRetries]
        BY <1>2 DEF ResumeRetry, TypeOK, StepTypeOK, stepVars
      <3>3. cause' \in [StepIds -> {"none", "own", "cancelled"}]
        BY <1>2 DEF ResumeRetry, TypeOK, StepTypeOK, stepVars
      <3> QED
        BY <3>1, <3>2, <3>3 DEF StepTypeOK
    <2> QED
      BY <2>1, <2>2, <2>3, CallAgainTypes DEF TypeOK
  <1>3. ASSUME NEW f \in StepIds, ResumeReplanned(f)
        PROVE  TypeOK'
    <2>1. CallAgain
      BY <1>3 DEF ResumeReplanned
    <2>a. PICK new \in NewSteps :
               \E needs \in [new -> SUBSET new] : Merge(f, new, needs)
      BY <1>3 DEF ResumeReplanned
    <2>2. PICK needs \in [new -> SUBSET new] : Merge(f, new, needs)
      BY <2>a
    <2>3. new \in SUBSET StepIds
      BY NewStepsType
    <2>4. needs \in [new -> SUBSET StepIds]
      BY <2>3
    <2>5. /\ plan' \in SUBSET StepIds
          /\ deps' \in [StepIds -> SUBSET StepIds]
          /\ allDeps' \in [StepIds -> SUBSET StepIds]
          /\ doubled' \in SUBSET StepIds
          /\ unrunnable' \in SUBSET StepIds
          /\ StepTypeOK'
          /\ shown' \in SUBSET StepIds
          /\ passedBy' \in SUBSET StepIds
          /\ auto' = auto
      BY <2>2, <2>3, <2>4, MergeTypes
    <2>6. replans' \in 0..(MaxReplans + MaxResumes + 1)
      <3>1. replans \in Nat /\ resumes \in 0..MaxResumes
        BY DEF TypeOK, PlanTypeOK
      <3>2. outcome # "failed" /\ resumes < MaxResumes
        BY <2>1 DEF CallAgain
      <3>3. replans <= MaxReplans + resumes
        BY <3>2 DEF CountInv
      <3> QED
        BY <1>3, <3>1, <3>2, <3>3 DEF ResumeReplanned
    <2>7. PlanTypeOK'
      BY <2>1, <2>5, <2>6, CallAgainTypes DEF TypeOK, PlanTypeOK
    <2> QED
      BY <2>1, <2>5, <2>7, CallAgainTypes DEF TypeOK
  <1> QED
    BY <1>1, <1>2, <1>3 DEF CallerAction

LEMMA TypeStep ==
    ASSUME TypeOK, CountInv, Next
    PROVE  TypeOK'
  BY StepTypes, JoinTypes, QuietTypes, LoopStartTypes, StartBatchTypes,
     CheckTypes, ReplanTypes, CallerTypes
     DEF Next, ExecutorAction, MainQuiet

LEMMA CountStep ==
    ASSUME TypeOK, CountInv, Next
    PROVE  CountInv'
  <1>0. replans \in Nat /\ resumes \in Nat /\ TypeOK'
    BY TypeStep DEF TypeOK, PlanTypeOK
  <1>1. ASSUME UNCHANGED <<replans, resumes>>, outcome' # "failed" => outcome # "failed",
               \A s \in StepIds : gpc'[s] = "retry" => retries'[s] < MaxRetries
        PROVE  CountInv'
    BY <1>0, <1>1 DEF CountInv
  <1>2. ASSUME \A s \in StepIds : gpc'[s] = "idle"
        PROVE  \A s \in StepIds : gpc'[s] # "retry"
    BY <1>2
  <1>3. ASSUME NEW s \in StepIds, StepAction(s)
        PROVE  CountInv'
    <2>1. UNCHANGED <<replans, resumes, outcome>>
      BY <1>3 DEF StepAction, Spawn, EarlyExit, NotFound, StartStep, Retry,
             RunSucceeds, FailsTransiently, FailsPermanently, FailsCancelled,
             RunFails, StepReturns, callerVars
    <2>2. gpc \in [StepIds -> StepStates] /\ retries \in [StepIds -> 0..MaxRetries]
      BY DEF TypeOK, GroupTypeOK, StepTypeOK
    <2>3. \A t \in StepIds \ {s} : gpc'[t] = gpc[t] /\ retries'[t] = retries[t]
      BY <1>3, <2>2 DEF StepAction, Spawn, EarlyExit, NotFound, StartStep, Retry,
             RunSucceeds, FailsTransiently, FailsPermanently, FailsCancelled,
             RunFails, StepReturns, stepVars, Go
    <2>4. gpc'[s] = "retry" => retries'[s] < MaxRetries
      BY <1>3, <2>2 DEF StepAction, Spawn, EarlyExit, NotFound, StartStep, Retry,
             RunSucceeds, FailsTransiently, FailsPermanently, FailsCancelled,
             RunFails, StepReturns, stepVars, Go
    <2> QED
      BY <1>1, <2>1, <2>3, <2>4 DEF CountInv
  <1>4. CASE mpc' # "wait" /\ UNCHANGED <<replans, resumes>> /\ (outcome = "failed" => outcome' = "failed")
    <2>1. \A s \in StepIds : gpc'[s] = "idle"
      BY <1>0, <1>4 DEF TypeOK, GroupTypeOK
    <2> QED
      BY <1>1, <1>4, <2>1
  <1>5. CASE StartBatch
    BY <1>1, <1>5 DEF StartBatch, callerVars
  <1>6. CASE Join \/ MainQuiet \/ LoopStart
    <2>1. mpc # "ended" /\ mpc' # "wait" /\ UNCHANGED <<replans, resumes>>
      BY <1>6 DEF Join, AfterBatch, PauseAtGate, MainQuiet, LoopStart, LoopCancelled,
         BatchesDone, BatchCancelled, AllDone, PauseOnFailure, ReplanFails,
         Return, callerVars
    <2> QED
      BY <1>4, <2>1 DEF TypeOK, GroupTypeOK
  <1>7. CASE ReplanOrGiveUp
    <2>1. mpc = "check" /\ mpc' # "wait" /\ outcome = "none"
      BY <1>7 DEF ReplanOrGiveUp, Return, TypeOK, GroupTypeOK
    <2>2. \A s \in StepIds : gpc'[s] = "idle"
      BY <1>0, <2>1 DEF TypeOK, GroupTypeOK
    <2>3. replans' = replans + 1 /\ resumes' = resumes
      BY <1>7 DEF ReplanOrGiveUp, CountReplan, callerVars
    <2>4. outcome' # "failed" => replans' <= MaxReplans
      BY <1>0, <1>7, <2>3 DEF ReplanOrGiveUp, Return
    <2>5. replans <= MaxReplans + resumes
      BY <2>1 DEF CountInv
    <2> QED
      BY <1>0, <2>2, <2>3, <2>4, <2>5 DEF CountInv
  <1>8. CASE Replan
    BY <1>4, <1>8 DEF Replan, callerVars
  <1>9. CASE Cancel
    <2>1. UNCHANGED <<replans, resumes, outcome, gpc, retries>>
      BY <1>9 DEF Cancel, stepVars, groupVars
    <2> QED
      BY <2>1 DEF CountInv
  <1>10. ASSUME NEW s \in StepIds, ResumeRetry(s) \/ ResumeReplanned(s)
         PROVE  CountInv'
    <2>1. CallAgain /\ replans' \in {replans, replans + 1}
      BY <1>10 DEF ResumeRetry, ResumeReplanned
    <2>2. outcome # "failed" /\ outcome' = "none" /\ mpc' = "loop" /\ resumes' = resumes + 1
      BY <2>1 DEF CallAgain
    <2>3. \A t \in StepIds : gpc'[t] = "idle"
      BY <1>0, <2>2 DEF TypeOK, GroupTypeOK
    <2>4. replans <= MaxReplans + resumes
      BY <2>2 DEF CountInv
    <2> QED
      BY <1>0, <2>1, <2>2, <2>3, <2>4 DEF CountInv
  <1> QED
    BY <1>3, <1>5, <1>6, <1>7, <1>8, <1>9, <1>10
       DEF Next, ExecutorAction, CallerAction, MainQuiet

-----------------------------------------------------------------------------
(* Steps and batches *)

(* What the goroutine of a step leaves alone. *)
LEMMA StepFrame ==
    ASSUME TypeOK, NEW s \in StepIds, StepAction(s)
    PROVE  /\ mpc = "wait" /\ s \in batch /\ outcome = "none"
           /\ \A t \in StepIds \ {s} : /\ gpc'[t] = gpc[t]
                                       /\ result'[t] = result[t]
                                       /\ cause'[t] = cause[t]
           /\ UNCHANGED <<planVars, replans, resumes, ctxDone, mpc,
                          outcome, reported, left, batch, shown, passedBy>>
           /\ groupErr => groupErr'
           /\ batchFailed => batchFailed'
  <1> USE DEF StepAction, Spawn, EarlyExit, NotFound, StartStep, Retry,
              RunSucceeds, FailsTransiently, FailsPermanently, FailsCancelled,
              RunFails, StepReturns, Go, planVars, stepVars, callerVars, histVars
  <1>1. /\ gpc \in [StepIds -> StepStates] /\ result \in [StepIds -> Results]
        /\ cause \in [StepIds -> {"none", "own", "cancelled"}]
    BY DEF TypeOK, GroupTypeOK, StepTypeOK
  <1>2. gpc[s] # "idle"
    OBVIOUS
  <1>3. mpc = "wait" /\ s \in batch /\ outcome = "none"
    BY <1>2, InBatch
  <1>5. \A t \in StepIds \ {s} : gpc'[t] = gpc[t] /\ result'[t] = result[t] /\ cause'[t] = cause[t]
    BY <1>1
  <1>6. UNCHANGED <<planVars, replans, resumes, ctxDone, mpc,
                    outcome, reported, left, batch, shown, passedBy>>
    OBVIOUS
  <1>7. (groupErr => groupErr') /\ (batchFailed => batchFailed')
    <2>1. groupErr \in BOOLEAN /\ batchFailed \in BOOLEAN
      BY DEF TypeOK, GroupTypeOK
    <2> QED
      BY <2>1
  <1> QED
    BY <1>3, <1>5, <1>6, <1>7

(* How the goroutine of a step moves it. *)
LEMMA StepMoves ==
    ASSUME TypeOK, NEW s \in StepIds, StepAction(s)
    PROVE  \/ gpc[s] = "queued" /\ gpc'[s] = "spawned" /\ result'[s] = result[s]
              /\ UNCHANGED <<groupErr, batchFailed>>
           \/ gpc[s] = "spawned" /\ gpc'[s] = "end" /\ result'[s] = result[s]
              /\ GroupDone /\ groupErr' /\ UNCHANGED batchFailed
           \/ gpc[s] = "spawned" /\ gpc'[s] = "gave up" /\ result'[s] = result[s]
              /\ s \in unrunnable /\ UNCHANGED <<groupErr, batchFailed>>
           \/ gpc[s] \in {"spawned", "retry"} /\ gpc'[s] = "running"
              /\ (gpc[s] = "spawned" => s \notin unrunnable)
              /\ result'[s] = "running" /\ UNCHANGED <<groupErr, batchFailed>>
           \/ gpc[s] = "running" /\ gpc'[s] = "succeeded" /\ result'[s] = "done"
              /\ UNCHANGED <<groupErr, batchFailed>>
           \/ gpc[s] = "running" /\ gpc'[s] \in {"retry", "gave up"}
              /\ result'[s] = "failed" /\ UNCHANGED <<groupErr, batchFailed>>
              /\ (cause'[s] = "own" \/ GroupDone)
           \/ gpc[s] = "succeeded" /\ gpc'[s] = "end" /\ result'[s] = result[s]
              /\ UNCHANGED <<groupErr, batchFailed>>
           \/ gpc[s] = "gave up" /\ gpc'[s] = "end" /\ result'[s] = result[s]
              /\ cause'[s] = cause[s] /\ groupErr' /\ batchFailed'
  <1> USE DEF Go, stepVars
  <1>1. /\ gpc \in [StepIds -> StepStates] /\ result \in [StepIds -> Results]
        /\ cause \in [StepIds -> {"none", "own", "cancelled"}]
        /\ groupErr \in BOOLEAN /\ batchFailed \in BOOLEAN
    BY DEF TypeOK, GroupTypeOK, StepTypeOK
  <1>2. CASE Spawn(s) \/ EarlyExit(s) \/ NotFound(s)
    BY <1>1, <1>2 DEF Spawn, EarlyExit, NotFound
  <1>3. CASE StartStep(s) \/ Retry(s) \/ RunSucceeds(s)
    BY <1>1, <1>3 DEF StartStep, Retry, RunSucceeds
  <1>4. CASE FailsTransiently(s) \/ FailsPermanently(s) \/ FailsCancelled(s)
    BY <1>1, <1>4 DEF FailsTransiently, FailsPermanently, FailsCancelled, RunFails
  <1>5. CASE StepReturns(s)
    BY <1>1, <1>5 DEF StepReturns
  <1> QED
    BY <1>2, <1>3, <1>4, <1>5 DEF StepAction

(* Nothing runs, before and after. *)
LEMMA IdleStep ==
    ASSUME TypeOK, TypeOK', StepInv, mpc' # "wait",
           \A t \in StepIds : result'[t] = "running" => result[t] = "running",
           mpc # "wait" \/ \A s \in batch : gpc[s] = "end"
    PROVE  StepInv'
  <1>1. \A t \in StepIds : gpc'[t] = "idle"
    BY DEF TypeOK, GroupTypeOK
  <1>2. \A t \in StepIds : gpc[t] \in {"idle", "end"}
    BY DEF TypeOK, GroupTypeOK
  <1>3. \A t \in StepIds : result[t] # "running"
    BY <1>2 DEF StepInv
  <1> QED
    BY <1>1, <1>3 DEF StepInv

(* Actions that neither begin nor run a batch. *)
BetweenBatches ==
    \/ MainQuiet
    \/ LoopStart
    \/ ReplanOrGiveUp
    \/ Replan
    \/ \E s \in StepIds : ResumeRetry(s) \/ ResumeReplanned(s)

LEMMA BetweenFacts ==
    ASSUME TypeOK, BetweenBatches
    PROVE  /\ mpc # "wait" /\ mpc' # "wait"
           /\ \A t \in StepIds : result'[t] = "running" => result[t] = "running"
           /\ UNCHANGED <<batch, groupErr, batchFailed, ctxDone>>
  <1>0. result \in [StepIds -> Results]
    BY DEF TypeOK, StepTypeOK
  <1>1. CASE MainQuiet
    BY <1>1 DEF MainQuiet, LoopCancelled, BatchesDone, BatchCancelled, AllDone,
                PauseOnFailure, ReplanFails, Return, stepVars, groupVars, callerVars
  <1>2. CASE LoopStart
    BY <1>2 DEF LoopStart, groupVars, callerVars
  <1>3. CASE ReplanOrGiveUp
    BY <1>3 DEF ReplanOrGiveUp, Return, stepVars, groupVars, callerVars
  <1>4. CASE Replan
    BY <1>4 DEF Replan, Merge, groupVars, callerVars
  <1>5. ASSUME NEW s \in StepIds, ResumeRetry(s)
        PROVE  /\ mpc # "wait" /\ mpc' # "wait"
               /\ \A t \in StepIds : result'[t] = "running" => result[t] = "running"
               /\ UNCHANGED <<batch, groupErr, batchFailed, ctxDone>>
    BY <1>0, <1>5, CallAgainTypes DEF ResumeRetry, CallAgain, stepVars, groupVars
  <1>6. ASSUME NEW s \in StepIds, ResumeReplanned(s)
        PROVE  /\ mpc # "wait" /\ mpc' # "wait"
               /\ \A t \in StepIds : result'[t] = "running" => result[t] = "running"
               /\ UNCHANGED <<batch, groupErr, batchFailed, ctxDone>>
    BY <1>6, CallAgainTypes DEF ResumeReplanned, Merge, CallAgain, groupVars
  <1> QED
    BY <1>1, <1>2, <1>3, <1>4, <1>5, <1>6 DEF BetweenBatches

LEMMA NextCases ==
    ASSUME Next
    PROVE  \/ BetweenBatches
           \/ StartBatch
           \/ \E s \in StepIds : StepAction(s)
           \/ Join
           \/ Cancel
  BY DEF Next, ExecutorAction, CallerAction, BetweenBatches, MainQuiet

LEMMA StepInvStep ==
    ASSUME TypeOK, TypeOK', StepInv, BatchInv, Next
    PROVE  StepInv'
  <1>1. CASE BetweenBatches
    BY <1>1, BetweenFacts, IdleStep
  <1>2. CASE StartBatch
    <2>1. mpc = "next" /\ UNCHANGED result
      BY <1>2 DEF StartBatch, stepVars
    <2>2. \A t \in StepIds : result[t] # "running"
      BY <2>1 DEF TypeOK, GroupTypeOK, StepInv
    <2>3. \A t \in NextBatch : result[t] \in {"pending", "failed"}
      BY <2>1 DEF BatchInv, NextBatch, Ready
    <2>4. \A t \in StepIds : gpc'[t] = IF t \in NextBatch THEN "queued" ELSE "idle"
      BY <1>2 DEF StartBatch
    <2> QED
      BY <2>1, <2>2, <2>3, <2>4 DEF StepInv
  <1>3. ASSUME NEW s \in StepIds, StepAction(s)
        PROVE  StepInv'
    <2>1. /\ \A t \in StepIds \ {s} : gpc'[t] = gpc[t] /\ result'[t] = result[t]
          /\ groupErr => groupErr'
          /\ unrunnable' = unrunnable
      BY <1>3, StepFrame DEF planVars
    <2>2. /\ result'[s] = "running" <=> gpc'[s] = "running"
          /\ gpc'[s] \in {"queued", "spawned"} => result'[s] \in {"pending", "failed"}
          /\ gpc'[s] = "retry" => result'[s] = "failed"
          /\ gpc'[s] = "succeeded" => result'[s] = "done"
          /\ gpc'[s] = "gave up" => \/ result'[s] = "failed"
                                    \/ s \in unrunnable' /\ result'[s] = "pending"
          /\ gpc'[s] \in {"running", "retry"} => s \notin unrunnable'
          /\ gpc'[s] = "end" => result'[s] = "done" \/ groupErr'
      BY <1>3, <2>1, StepMoves DEF StepInv
    <2> QED
      BY <2>1, <2>2 DEF StepInv
  <1>4. CASE Join
    BY <1>4, IdleStep DEF Join, AfterBatch, PauseAtGate, Return, stepVars
  <1>5. CASE Cancel
    BY <1>5 DEF Cancel, planVars, stepVars, groupVars, StepInv
  <1> QED
    BY <1>1, <1>2, <1>3, <1>4, <1>5, NextCases

LEMMA BatchInvStep ==
    ASSUME TypeOK, TypeOK', StepInv, BatchInv, Next
    PROVE  BatchInv'
  <1>0. result \in [StepIds -> Results] /\ groupErr \in BOOLEAN /\ batchFailed \in BOOLEAN
        /\ ctxDone \in BOOLEAN
    BY DEF TypeOK, StepTypeOK, GroupTypeOK, PlanTypeOK
  <1>1. CASE BetweenBatches
    <2>1. /\ mpc # "wait" /\ mpc' # "wait"
          /\ UNCHANGED <<batch, groupErr, batchFailed, ctxDone>>
      BY <1>1, BetweenFacts
    <2>2. batch' = {} /\ ~groupErr' /\ ~batchFailed'
      BY <2>1 DEF BatchInv
    <2>3. mpc' # "next" \/ LoopStart
      BY <1>1 DEF BetweenBatches, MainQuiet, LoopCancelled, BatchesDone,
         BatchCancelled, AllDone, PauseOnFailure, ReplanFails, ReplanOrGiveUp,
         Replan, ResumeRetry, ResumeReplanned, CallAgain, Return
    <2>4. ASSUME LoopStart
          PROVE  /\ left' \subseteq plan'
                 /\ \A s \in left' : result'[s] \in {"pending", "failed"}
                 /\ plan' \subseteq left' \cup Done'
      <3>1. /\ left' = {s \in plan : result'[s] \in {"pending", "failed"}}
            /\ result' = [s \in StepIds |-> IF s \in plan /\ result[s] = "none"
                                            THEN "pending" ELSE result[s]]
            /\ plan' = plan
        BY <2>4 DEF LoopStart, planVars
      <3>2. plan \subseteq StepIds
        BY DEF TypeOK, PlanTypeOK
      <3>3. \A s \in plan : result[s] # "running"
        BY <2>1, <3>2 DEF StepInv, TypeOK, GroupTypeOK
      <3>4. \A s \in plan : result'[s] \in {"pending", "failed", "done"}
        BY <1>0, <3>1, <3>2, <3>3 DEF Results
      <3> QED
        BY <3>1, <3>4 DEF Done
    <2> QED
      BY <2>1, <2>2, <2>3, <2>4 DEF BatchInv
  <1>2. CASE StartBatch
    <2>1. /\ mpc = "next" /\ batch' = NextBatch /\ left' = left \ NextBatch
          /\ ~groupErr' /\ ~batchFailed' /\ mpc' = "wait"
          /\ UNCHANGED <<plan, result>>
      BY <1>2 DEF StartBatch, planVars, stepVars
    <2>2. batch = {} /\ Done' = Done
      BY <2>1 DEF BatchInv, Done
    <2>3. NextBatch \subseteq left
      BY DEF NextBatch, Ready
    <2>4. /\ left \subseteq plan
          /\ \A s \in left : result[s] \in {"pending", "failed"}
          /\ plan \subseteq left \cup Done
      BY <2>1, <2>2 DEF BatchInv
    <2> QED
      BY <2>1, <2>2, <2>3, <2>4 DEF BatchInv
  <1>3. ASSUME NEW s \in StepIds, StepAction(s)
        PROVE  BatchInv'
    <2>1. /\ mpc = "wait" /\ s \in batch
          /\ \A t \in StepIds \ {s} : result'[t] = result[t]
          /\ UNCHANGED <<plan, ctxDone, mpc, left, batch>>
      BY <1>3, StepFrame DEF planVars
    <2>2. groupErr' => batchFailed' \/ ctxDone
      BY <1>0, <1>3, StepMoves DEF BatchInv, GroupDone
    <2>3. /\ left \subseteq plan /\ batch \subseteq plan
          /\ \A t \in left : result[t] \in {"pending", "failed"}
          /\ left \cap batch = {}
          /\ plan \subseteq left \cup batch \cup Done
      BY <2>1 DEF BatchInv
    <2>4. plan \subseteq StepIds
      BY DEF TypeOK, PlanTypeOK
    <2>5. \A t \in left : result'[t] = result[t]
      BY <2>1, <2>3, <2>4
    <2>6. Done \ {s} \subseteq Done'
      BY <2>1, <2>4 DEF Done
    <2> QED
      BY <2>1, <2>2, <2>3, <2>5, <2>6 DEF BatchInv
  <1>4. CASE Join
    <2>1. /\ mpc = "wait" /\ batch' = {} /\ ~groupErr' /\ ~batchFailed' /\ mpc' # "wait"
          /\ UNCHANGED <<plan, result, left>>
      BY <1>4 DEF Join, AfterBatch, PauseAtGate, Return, planVars, stepVars
    <2>2. Done' = Done
      BY <2>1 DEF Done
    <2>3. mpc' = "next" => ~groupErr
      BY <1>0, <1>4 DEF Join, AfterBatch, PauseAtGate, Return, BatchInv
    <2>4. mpc' = "next" => batch \subseteq Done
      BY <1>4, <2>3 DEF Join, StepInv, BatchInv, Done, TypeOK, GroupTypeOK
    <2>5. /\ left \subseteq plan
          /\ \A t \in left : result[t] \in {"pending", "failed"}
          /\ plan \subseteq left \cup batch \cup Done
      BY <2>1 DEF BatchInv
    <2> QED
      BY <2>1, <2>2, <2>4, <2>5 DEF BatchInv
  <1>5. CASE Cancel
    BY <1>5 DEF Cancel, stepVars, groupVars, planVars, BatchInv, Done
  <1> QED
    BY <1>1, <1>2, <1>3, <1>4, <1>5, NextCases

-----------------------------------------------------------------------------
(* Dependencies and what is done *)

LEMMA SurvivorFacts ==
    ASSUME TypeOK, IdsInv, NEW f \in plan
    PROVE  /\ Survivors(f) \subseteq plan
           /\ f \notin Survivors(f)
           /\ \A s \in Survivors(f) : /\ allDeps[s] \subseteq Survivors(f)
                                      /\ deps[s] \subseteq Survivors(f)
  <1>1. \A s \in plan : deps[s] \subseteq allDeps[s] /\ allDeps[s] \subseteq plan
    BY DEF IdsInv
  <1>2. \A s \in Survivors(f) : allDeps[s] \subseteq Survivors(f)
    BY <1>1, SurvivorsClosed DEF Survivors
  <1> QED
    BY <1>1, <1>2, FailedAffected DEF Survivors

(* Planned anew, in place of what f affects and with S surviving. *)
Renewed(f, S, new) ==
    /\ f \in Failed
    /\ S \subseteq plan /\ f \notin S
    /\ \A s \in S : allDeps[s] \subseteq S /\ deps[s] \subseteq S
    /\ plan' = S \cup new
    /\ \A s \in S \ new : deps'[s] = deps[s] /\ allDeps'[s] = allDeps[s]
    /\ \A s \in new : deps'[s] \subseteq allDeps'[s] /\ allDeps'[s] \subseteq S \cup new
    /\ \A s \in new \ S : allDeps'[s] = deps'[s]
    /\ Valid(plan', deps')
    /\ doubled' = (doubled \cup new) \cap S
    /\ unrunnable' = unrunnable \cap S
    /\ shown' = shown \cap S
    /\ passedBy' = passedBy \cap S
    /\ Done' = Done \cap S
    /\ doubled = {} => Done \subseteq S
    /\ mpc' = "loop" /\ outcome' = "none" /\ outcome \notin {"done", "failed"}

LEMMA MergeRenews ==
    ASSUME TypeOK, IdsInv, DepsInv, NEW f \in Failed, NEW new \in NewSteps,
           NEW needs \in [new -> SUBSET (Survivors(f) \cup new)],
           Merge(f, new, needs), Valid(plan', deps'),
           mpc' = "loop", outcome' = "none", outcome \notin {"done", "failed"}
    PROVE  Renewed(f, Survivors(f), new)
  <1> DEFINE S == Survivors(f)
  <1>1. f \in plan /\ plan \subseteq StepIds /\ new \subseteq StepIds
    BY NewStepsType DEF Failed, TypeOK, PlanTypeOK
  <1>2. /\ S \subseteq plan
        /\ f \notin S
        /\ \A s \in S : allDeps[s] \subseteq S /\ deps[s] \subseteq S
    BY <1>1, SurvivorFacts
  <1>3. /\ \A s \in StepIds : deps'[s] = IF s \in new THEN needs[s]
                                         ELSE IF s \in S THEN deps[s] ELSE {}
        /\ \A s \in StepIds : allDeps'[s] = (IF s \in new THEN needs[s] ELSE {})
                                            \cup (IF s \in S THEN allDeps[s] ELSE {})
    BY DEF Merge, MergedDeps, MergedAllDeps
  <1>4. \A s \in S \ new : deps'[s] = deps[s] /\ allDeps'[s] = allDeps[s]
    BY <1>1, <1>2, <1>3
  <1>5. \A s \in new : deps'[s] \subseteq allDeps'[s] /\ allDeps'[s] \subseteq S \cup new
    <2> SUFFICES ASSUME NEW s \in new
                 PROVE  deps'[s] \subseteq allDeps'[s] /\ allDeps'[s] \subseteq S \cup new
      OBVIOUS
    <2>1. s \in StepIds /\ needs[s] \subseteq S \cup new
      BY <1>1
    <2>2. deps'[s] = needs[s]
      BY <1>3, <2>1
    <2>3. allDeps'[s] = needs[s] \cup (IF s \in S THEN allDeps[s] ELSE {})
      BY <1>3, <2>1
    <2> QED
      BY <1>2, <2>1, <2>2, <2>3
  <1>6. \A s \in new \ S : allDeps'[s] = deps'[s]
    BY <1>1, <1>3
  <1>7. /\ plan' = S \cup new
        /\ doubled' = (doubled \cup new) \cap S
        /\ unrunnable' = unrunnable \cap S
        /\ shown' = shown \cap S
        /\ passedBy' = passedBy \cap S
        /\ \A s \in StepIds : result'[s] = IF s \in S THEN result[s] ELSE "none"
    BY DEF Merge, Kept
  <1>8. Done' = Done \cap S
    BY <1>1, <1>2, <1>7 DEF Done
  <1>9. ASSUME doubled = {} PROVE Done \subseteq S
    <2>1. \A s \in Done : allDeps[s] \subseteq Done
      BY <1>9 DEF IdsInv, DepsInv, Done
    <2>2. Done \in SUBSET plan /\ f \notin Done
      BY DEF Done, Failed
    <2> QED
      BY <1>1, <2>1, <2>2, DoneSurvives DEF Survivors
  <1> QED
    BY <1>2, <1>4, <1>5, <1>6, <1>7, <1>8, <1>9 DEF Renewed

LEMMA ReplanRenews ==
    ASSUME IInv, Replan
    PROVE  \E f \in Failed, new \in SUBSET StepIds : Renewed(f, Survivors(f), new)
  <1> USE DEF IInv
  <1>1. PICK f \in reported : \E new \in NewSteps :
             \E needs \in [new -> SUBSET (Survivors(f) \cup new)] :
                MergeValidates(f, new, needs) /\ Merge(f, new, needs)
    BY DEF Replan
  <1>2. PICK new \in NewSteps :
             \E needs \in [new -> SUBSET (Survivors(f) \cup new)] :
                MergeValidates(f, new, needs) /\ Merge(f, new, needs)
    BY <1>1
  <1>3. PICK needs \in [new -> SUBSET (Survivors(f) \cup new)] :
                MergeValidates(f, new, needs) /\ Merge(f, new, needs)
    BY <1>2
  <1>4. f \in Failed /\ mpc' = "loop" /\ outcome = "none" /\ outcome' = "none"
    BY DEF Replan, FailInv, TypeOK, GroupTypeOK
  <1>5. Valid(plan', deps')
    BY <1>3 DEF MergeValidates, Merge
  <1>6. Renewed(f, Survivors(f), new)
    BY <1>3, <1>4, <1>5, MergeRenews
  <1> QED
    BY <1>4, <1>6, NewStepsType

LEMMA ResumeRenews ==
    ASSUME IInv, NEW f \in StepIds, ResumeReplanned(f)
    PROVE  \E new \in SUBSET StepIds : Renewed(f, Survivors(f), new)
  <1> USE DEF IInv
  <1>1. PICK new \in NewSteps : \E needs \in [new -> SUBSET new] :
             Valid(new, needs) /\ Merge(f, new, needs)
    BY DEF ResumeReplanned
  <1>2. PICK needs \in [new -> SUBSET new] : Valid(new, needs) /\ Merge(f, new, needs)
    BY <1>1
  <1>3. f \in Failed /\ f \in plan /\ plan \subseteq StepIds
        /\ mpc' = "loop" /\ outcome \notin {"done", "failed"} /\ outcome' = "none"
    BY DEF ResumeReplanned, CallAgain, Failed, TypeOK, PlanTypeOK
  <1>4. new \subseteq StepIds
    BY NewStepsType
  <1>5. Survivors(f) \in SUBSET plan /\ \A s \in Survivors(f) : deps[s] \subseteq Survivors(f)
    BY <1>3, SurvivorFacts
  <1>6. Valid(Survivors(f) \cup new, deps')
    <2>1. deps' = MergedDeps(f, new, needs)
      BY <1>2 DEF Merge
    <2>2. Agree(deps', needs, new)
      BY <1>4, <2>1 DEF MergedDeps, Agree
    <2>3. Agree(deps', deps, Survivors(f) \ new)
      BY <1>3, <1>5, <2>1 DEF MergedDeps, Agree
    <2>4. Valid(plan, deps) /\ Valid(new, needs)
      BY <1>2 DEF DepsInv
    <2>5. Survivors(f) \subseteq plan /\ Closed(Survivors(f), deps)
      BY <1>5 DEF Closed
    <2> QED
      BY <2>2, <2>3, <2>4, <2>5, MergeValid
  <1>7. Valid(plan', deps')
    BY <1>2, <1>6 DEF Merge
  <1>8. needs \in [new -> SUBSET (Survivors(f) \cup new)]
    BY <1>2
  <1> QED
    BY <1>2, <1>3, <1>4, <1>7, <1>8, MergeRenews

Renews == Replan \/ \E f \in StepIds : ResumeReplanned(f)

LEMMA RenewsStep ==
    ASSUME IInv, Renews
    PROVE  \E f \in Failed, new \in SUBSET StepIds : Renewed(f, Survivors(f), new)
  <1>1. CASE Replan
    BY <1>1, ReplanRenews
  <1>2. ASSUME NEW f \in StepIds, ResumeReplanned(f)
        PROVE  \E g \in Failed, new \in SUBSET StepIds : Renewed(g, Survivors(g), new)
    <2>1. f \in Failed
      BY <1>2 DEF ResumeReplanned
    <2> QED
      BY <1>2, <2>1, ResumeRenews
  <1> QED
    BY <1>1, <1>2 DEF Renews

LEMMA QuietKeepsDone ==
    ASSUME TypeOK, MainQuiet \/ ReplanOrGiveUp \/ Join \/ Cancel
    PROVE  UNCHANGED <<planVars, result, cause>>
  BY DEF MainQuiet, LoopCancelled, BatchesDone, BatchCancelled, AllDone,
     PauseOnFailure, ReplanFails, ReplanOrGiveUp, Join, Cancel, planVars, stepVars

LEMMA ResetKeepsDone ==
    ASSUME TypeOK, LoopStart \/ \E s \in StepIds : ResumeRetry(s)
    PROVE  UNCHANGED planVars /\ Done' = Done
  <1>1. plan \subseteq StepIds /\ result \in [StepIds -> Results]
    BY DEF TypeOK, PlanTypeOK, StepTypeOK
  <1>2. CASE LoopStart
    BY <1>1, <1>2 DEF LoopStart, planVars, Done
  <1>3. ASSUME NEW s \in StepIds, ResumeRetry(s)
        PROVE  UNCHANGED planVars /\ Done' = Done
    <2>1. UNCHANGED planVars /\ UNCHANGED plan
      BY <1>3 DEF ResumeRetry, planVars
    <2>2. CASE result[s] = "failed" /\ result' = [result EXCEPT ![s] = "pending"]
      BY <1>1, <2>1, <2>2 DEF Done
    <2>3. CASE UNCHANGED stepVars
      BY <2>1, <2>3 DEF Done, stepVars
    <2> QED
      BY <1>3, <2>1, <2>2, <2>3 DEF ResumeRetry
  <1> QED
    BY <1>2, <1>3

LEMMA StepKeepsDone ==
    ASSUME TypeOK, StepInv, NEW s \in StepIds, StepAction(s)
    PROVE  Done \subseteq Done' /\ Done' \subseteq Done \cup {s}
  <1>1. /\ \A t \in StepIds \ {s} : result'[t] = result[t]
        /\ plan' = plan /\ plan \subseteq StepIds
    BY StepFrame DEF TypeOK, PlanTypeOK, planVars
  <1>2. result[s] = "done" => result'[s] = "done"
    BY StepMoves DEF StepInv
  <1> QED
    BY <1>1, <1>2 DEF Done

(* No step but planning anew touches the plan or undoes what is done, and   *)
(* only a step of the batch gets done.                                      *)
LEMMA DoneStep ==
    ASSUME IInv, Next, ~Renews
    PROVE  /\ Done \subseteq Done' /\ Done' \subseteq Done \cup batch
           /\ UNCHANGED planVars
  <1> USE DEF IInv
  <1>1. CASE MainQuiet \/ ReplanOrGiveUp \/ Join \/ Cancel
    BY <1>1, QuietKeepsDone DEF Done, planVars
  <1>2. CASE LoopStart \/ \E s \in StepIds : ResumeRetry(s)
    BY <1>2, ResetKeepsDone
  <1>5. CASE StartBatch
    BY <1>5 DEF StartBatch, planVars, stepVars, Done
  <1>6. ASSUME NEW s \in StepIds, StepAction(s)
        PROVE  /\ Done \subseteq Done' /\ Done' \subseteq Done \cup batch
               /\ UNCHANGED planVars
    BY <1>6, StepKeepsDone, StepFrame
  <1> QED
    BY <1>1, <1>2, <1>5, <1>6, NextCases DEF BetweenBatches, Renews

(* Planning anew happens between batches. *)
LEMMA RenewsBetween ==
    ASSUME IInv, Renews
    PROVE  BetweenBatches /\ batch = {} /\ batch' = {}
  <1>1. BetweenBatches
    BY DEF Renews, BetweenBatches
  <1> QED
    BY <1>1, BetweenFacts DEF IInv, BatchInv

LEMMA IdsInvStep ==
    ASSUME IInv, Next
    PROVE  IdsInv'
  <1>1. CASE Renews
    <2>1. PICK f \in Failed, new \in SUBSET StepIds : Renewed(f, Survivors(f), new)
      BY <1>1, RenewsStep
    <2> DEFINE S == Survivors(f)
    <2> HIDE DEF S
    <2>2. Renewed(f, S, new)
      BY <2>1 DEF S
    <2>3. doubled' \subseteq plan'
      BY <2>2 DEF Renewed
    <2>4. \A s \in S \ new : deps[s] \subseteq allDeps[s]
      BY <2>2 DEF Renewed, IInv, IdsInv
    <2>5. \A s \in plan' : deps'[s] \subseteq allDeps'[s] /\ allDeps'[s] \subseteq plan'
      BY <2>2, <2>4 DEF Renewed
    <2>6. \A s \in plan' \ doubled' : allDeps'[s] = deps'[s]
      <3> SUFFICES ASSUME NEW s \in plan' \ doubled' PROVE allDeps'[s] = deps'[s]
        OBVIOUS
      <3>1. CASE s \in new
        BY <2>2, <3>1 DEF Renewed
      <3>2. CASE s \notin new
        <4>1. s \in S \ new /\ s \in plan /\ s \notin doubled
          BY <2>2, <3>2 DEF Renewed
        <4>2. allDeps[s] = deps[s]
          BY <4>1 DEF IInv, IdsInv
        <4> QED
          BY <2>2, <4>1, <4>2 DEF Renewed
      <3> QED
        BY <3>1, <3>2
    <2> QED
      BY <2>3, <2>5, <2>6 DEF IdsInv
  <1>2. CASE ~Renews
    <2>1. UNCHANGED planVars
      BY <1>2, DoneStep
    <2> QED
      BY <2>1 DEF planVars, IInv, IdsInv
  <1> QED
    BY <1>1, <1>2

LEMMA DepsInvStep ==
    ASSUME IInv, Next
    PROVE  DepsInv'
  <1> USE DEF IInv
  <1>0. /\ \A s \in (Done \ doubled) \cup batch : deps[s] \subseteq Done
        /\ Valid(plan, deps)
    BY DEF DepsInv
  <1>1. CASE Renews
    <2>1. PICK f \in Failed, new \in SUBSET StepIds : Renewed(f, Survivors(f), new)
      BY <1>1, RenewsStep
    <2> DEFINE S == Survivors(f)
    <2> HIDE DEF S
    <2>2. Renewed(f, S, new)
      BY <2>1 DEF S
    <2>3. batch' = {}
      BY <1>1, RenewsBetween
    <2>4. ASSUME NEW s \in Done' \ doubled'
          PROVE  deps'[s] \subseteq Done'
      <3>1. s \in Done /\ s \in S \ new /\ s \notin doubled
        BY <2>2 DEF Renewed
      <3>2. deps'[s] = deps[s] /\ deps[s] \subseteq S /\ deps[s] \subseteq Done
        BY <1>0, <2>2, <3>1 DEF Renewed
      <3> QED
        BY <2>2, <3>2 DEF Renewed
    <2> QED
      BY <2>2, <2>3, <2>4 DEF DepsInv, Renewed
  <1>2. CASE ~Renews
    <2>1. /\ Done \subseteq Done' /\ Done' \subseteq Done \cup batch
          /\ UNCHANGED <<plan, deps, doubled>>
      BY <1>2, DoneStep DEF planVars
    <2>2. ASSUME batch' \subseteq batch
          PROVE  DepsInv'
      BY <1>0, <2>1, <2>2 DEF DepsInv
    <2>3. CASE BetweenBatches
      BY <2>2, <2>3, BetweenFacts
    <2>4. CASE StartBatch
      <3>1. /\ mpc = "next" /\ batch' = Ready(left, deps) /\ batch = {}
        BY <2>4 DEF StartBatch, NextBatch, BatchInv
      <3>2. left \subseteq plan /\ plan \subseteq left \cup Done
        BY <3>1 DEF BatchInv
      <3>3. \A s \in batch' : deps[s] \subseteq Done
        BY <1>0, <3>1, <3>2 DEF Ready, Valid
      <3> QED
        BY <1>0, <2>1, <3>1, <3>3 DEF DepsInv
    <2>5. ASSUME NEW s \in StepIds, StepAction(s)
          PROVE  DepsInv'
      BY <2>2, <2>5, StepFrame
    <2>6. CASE Join
      BY <2>2, <2>6 DEF Join
    <2>7. CASE Cancel
      BY <2>2, <2>7 DEF Cancel, groupVars
    <2> QED
      BY <2>3, <2>4, <2>5, <2>6, <2>7, NextCases
  <1> QED
    BY <1>1, <1>2

-----------------------------------------------------------------------------
(* Failures *)

LEMMA FailInvStep ==
    ASSUME IInv, Next
    PROVE  FailInv'
  <1> USE DEF IInv
  <1>0. /\ result \in [StepIds -> Results] /\ batchFailed \in BOOLEAN
        /\ Renews \/ (Done \subseteq Done' /\ UNCHANGED <<plan, unrunnable, AllFit>>)
    BY DoneStep DEF TypeOK, StepTypeOK, GroupTypeOK, planVars, AllFit
  <1>1. ASSUME mpc' \notin {"replan", "check"}, outcome' # "done", ~batchFailed'
        PROVE  FailInv'
    BY <1>1 DEF FailInv
  <1>2. CASE BetweenBatches
    <2>1. ~batchFailed'
      BY <1>2, BetweenFacts DEF BatchInv
    <2>2. CASE LoopCancelled \/ BatchCancelled \/ PauseOnFailure \/ ReplanFails
      BY <1>1, <2>1, <2>2 DEF LoopCancelled, BatchCancelled, PauseOnFailure,
         ReplanFails, Return
    <2>3. CASE LoopStart \/ Replan \/ \E s \in StepIds : ResumeRetry(s) \/ ResumeReplanned(s)
      <3>1. mpc' \in {"loop", "next"} /\ outcome' = "none"
        BY <2>3 DEF LoopStart, Replan, ResumeRetry, ResumeReplanned, CallAgain,
           TypeOK, GroupTypeOK
      <3> QED
        BY <1>1, <2>1, <3>1
    <2>4. CASE BatchesDone
      <3>1. mpc = "next" /\ Ready(left, deps) = {} /\ outcome = "none"
            /\ mpc' = "check" /\ outcome' = outcome /\ UNCHANGED <<plan, result>>
        BY <2>4 DEF BatchesDone, planVars, stepVars, TypeOK, GroupTypeOK
      <3>a. ~Renews
        BY <3>1 DEF Renews, Replan, ResumeReplanned, CallAgain
      <3>2. left \subseteq plan /\ plan \subseteq left \cup Done
        BY <3>1 DEF BatchInv
      <3>3. left = {}
        BY <3>1, <3>2, ReadyExists DEF DepsInv
      <3>4. plan' \subseteq Done'
        BY <1>0, <3>a, <3>1, <3>2, <3>3
      <3> QED
        BY <2>1, <3>1, <3>4 DEF FailInv
    <2>5. CASE AllDone
      <3>1. /\ mpc = "check" /\ Failed = {} /\ mpc' = "ended"
            /\ UNCHANGED <<plan, result>>
        BY <2>5 DEF AllDone, Return, planVars, stepVars
      <3>a. ~Renews
        BY <3>1 DEF Renews, Replan, ResumeReplanned, CallAgain
      <3>2. AllFit' => plan' \subseteq Done'
        BY <1>0, <3>a, <3>1 DEF FailInv
      <3> QED
        BY <2>1, <3>1, <3>2 DEF FailInv
    <2>6. CASE ReplanOrGiveUp
      <3>1. UNCHANGED <<plan, result>> /\ mpc' \in {"ended", "replan"} /\ outcome' # "done"
        BY <2>6 DEF ReplanOrGiveUp, Return, planVars, stepVars, TypeOK, GroupTypeOK
      <3>2. mpc' = "replan" => reported' \subseteq Failed
        BY <2>6 DEF ReplanOrGiveUp, Return
      <3>3. Failed' = Failed
        BY <3>1 DEF Failed
      <3> QED
        BY <2>1, <3>1, <3>2, <3>3 DEF FailInv
    <2> QED
      BY <1>2, <2>2, <2>3, <2>4, <2>5, <2>6 DEF BetweenBatches, MainQuiet
  <1>3. CASE StartBatch
    BY <1>1, <1>3 DEF StartBatch, TypeOK, GroupTypeOK
  <1>4. ASSUME NEW s \in StepIds, StepAction(s)
        PROVE  FailInv'
    <2>1. /\ mpc = "wait" /\ outcome = "none" /\ s \in batch /\ batch \subseteq StepIds
          /\ UNCHANGED <<mpc, outcome, batch, plan, unrunnable>>
          /\ \A t \in StepIds \ {s} : gpc'[t] = gpc[t] /\ result'[t] = result[t]
      BY <1>4, StepFrame DEF TypeOK, GroupTypeOK, planVars
    <2>2. \/ gpc[s] # "end" /\ UNCHANGED batchFailed
          \/ gpc[s] = "gave up" /\ gpc'[s] = "end" /\ result'[s] = result[s]
      BY <1>4, StepMoves
    <2>3. ASSUME AllFit', batchFailed'
          PROVE  \E t \in batch' : gpc'[t] = "end" /\ result'[t] = "failed"
      <3>0. AllFit /\ s \notin unrunnable
        BY <2>1, <2>3 DEF AllFit, BatchInv
      <3>1. CASE gpc[s] = "gave up" /\ gpc'[s] = "end" /\ result'[s] = result[s]
        BY <2>1, <2>3, <3>0, <3>1 DEF StepInv
      <3>2. CASE gpc[s] # "end" /\ UNCHANGED batchFailed
        <4>1. PICK t \in batch : gpc[t] = "end" /\ result[t] = "failed"
          BY <2>3, <3>0, <3>2 DEF FailInv
        <4> QED
          BY <2>1, <3>2, <4>1
      <3> QED
        BY <2>2, <3>1, <3>2
    <2> QED
      BY <2>1, <2>3 DEF FailInv
  <1>5. CASE Join
    <2>1. /\ batch \subseteq plan /\ ~batchFailed'
          /\ mpc' # "replan" /\ outcome' # "done" /\ (mpc' = "check" => batchFailed)
          /\ UNCHANGED <<plan, unrunnable, result>>
      BY <1>5, <1>0 DEF Join, AfterBatch, PauseAtGate, Return, BatchInv, planVars, stepVars,
         TypeOK, GroupTypeOK
    <2>2. ASSUME AllFit', mpc' = "check"
          PROVE  Failed' # {}
      BY <2>1, <2>2 DEF FailInv, Failed, AllFit
    <2> QED
      BY <2>1, <2>2 DEF FailInv
  <1>6. CASE Cancel
    BY <1>6 DEF Cancel, planVars, stepVars, groupVars, FailInv, Failed, Done, AllFit
  <1> QED
    BY <1>2, <1>3, <1>4, <1>5, <1>6, NextCases

LEMMA CauseInvStep ==
    ASSUME IInv, Next
    PROVE  CauseInv'
  <1> USE DEF IInv
  <1> SUFFICES ASSUME AllFit', ~ctxDone' PROVE CauseInv'
    BY DEF CauseInv
  <1>f. UNCHANGED <<plan, unrunnable>> => AllFit
    BY DEF AllFit
  <1>0. ctxDone \in BOOLEAN /\ groupErr \in BOOLEAN /\ batchFailed \in BOOLEAN
    BY DEF TypeOK, GroupTypeOK, PlanTypeOK
  <1>1. ASSUME batch' = {}, ~groupErr', ~batchFailed', mpc' # "check", outcome' # "paused"
        PROVE  CauseInv'
    BY <1>1 DEF CauseInv
  <1>2. CASE BetweenBatches
    <2>1. batch' = {} /\ ~groupErr' /\ ~batchFailed' /\ ~ctxDone
      BY <1>2, BetweenFacts DEF BatchInv
    <2>2. CASE LoopCancelled \/ BatchCancelled \/ ReplanFails \/ AllDone
      BY <1>1, <2>1, <2>2 DEF LoopCancelled, BatchCancelled, ReplanFails, AllDone, Return
    <2>3. CASE LoopStart \/ Replan \/ \E s \in StepIds : ResumeRetry(s) \/ ResumeReplanned(s)
      <3>1. mpc' \in {"loop", "next"} /\ outcome' = "none"
        BY <2>3 DEF LoopStart, Replan, ResumeRetry, ResumeReplanned, CallAgain,
           TypeOK, GroupTypeOK
      <3> QED
        BY <1>1, <2>1, <3>1
    <2>4. CASE ReplanOrGiveUp
      BY <1>1, <2>1, <2>4 DEF ReplanOrGiveUp, Return, TypeOK, GroupTypeOK
    <2>5. CASE BatchesDone
      <3>1. mpc = "next" /\ Ready(left, deps) = {} /\ outcome' = "none"
            /\ UNCHANGED <<plan, result>>
        BY <2>5 DEF BatchesDone, planVars, stepVars, TypeOK, GroupTypeOK
      <3>2. left \subseteq plan /\ plan \subseteq left \cup Done
        BY <3>1, <2>1, <1>2, BetweenFacts DEF BatchInv
      <3>3. left = {}
        BY <3>1, <3>2, ReadyExists DEF DepsInv
      <3>4. Failed' = {}
        BY <3>1, <3>2, <3>3 DEF Failed, Done
      <3> QED
        BY <2>1, <3>1, <3>4 DEF CauseInv
    <2>6. CASE PauseOnFailure
      <3>1. mpc = "check" /\ Failed # {} /\ mpc' = "ended"
            /\ UNCHANGED <<plan, unrunnable, result, cause>>
        BY <2>6 DEF PauseOnFailure, Return, planVars, stepVars
      <3>2. OwnFailure(plan)
        BY <1>f, <2>1, <3>1 DEF CauseInv
      <3>3. OwnFailure(plan)'
        BY <3>1, <3>2 DEF OwnFailure
      <3> QED
        BY <2>1, <3>1, <3>3 DEF CauseInv
    <2> QED
      BY <1>2, <2>2, <2>3, <2>4, <2>5, <2>6 DEF BetweenBatches, MainQuiet
  <1>3. CASE StartBatch
    <2>1. /\ ~groupErr' /\ ~batchFailed' /\ mpc' = "wait" /\ outcome' = "none"
          /\ \A s \in StepIds : gpc'[s] # "gave up"
      BY <1>3 DEF StartBatch, TypeOK, GroupTypeOK
    <2>2. batch' \subseteq StepIds
      BY <1>3 DEF StartBatch, NextBatch, Ready, TypeOK, GroupTypeOK
    <2> QED
      BY <2>1, <2>2 DEF CauseInv
  <1>4. ASSUME NEW s \in StepIds, StepAction(s)
        PROVE  CauseInv'
    <2>1. /\ mpc = "wait" /\ outcome = "none" /\ s \in batch /\ batch \subseteq StepIds
          /\ UNCHANGED <<mpc, outcome, batch, ctxDone>>
          /\ \A t \in StepIds \ {s} : /\ gpc'[t] = gpc[t]
                                      /\ result'[t] = result[t]
                                      /\ cause'[t] = cause[t]
      BY <1>4, StepFrame DEF TypeOK, GroupTypeOK
    <2>2. ~ctxDone /\ AllFit /\ s \notin unrunnable
      BY <1>f, <1>4, <2>1, StepFrame DEF AllFit, planVars, BatchInv
    <2>3. ASSUME groupErr \/ batchFailed \/ \E t \in batch : gpc[t] = "gave up"
          PROVE  CauseInv'
      <3>1. PICK f \in batch : /\ gpc[f] \in {"gave up", "end"}
                               /\ result[f] = "failed" /\ cause[f] = "own"
        BY <2>2, <2>3 DEF CauseInv, OwnFailure
      <3>2. gpc'[f] \in {"gave up", "end"} /\ result'[f] = "failed" /\ cause'[f] = "own"
        <4>1. CASE f # s
          BY <2>1, <3>1, <4>1
        <4>2. CASE f = s
          BY <1>4, <3>1, <4>2, StepMoves
        <4> QED
          BY <4>1, <4>2
      <3> QED
        BY <2>1, <3>1, <3>2 DEF CauseInv, OwnFailure
    <2>4. ASSUME ~(groupErr \/ batchFailed \/ \E t \in batch : gpc[t] = "gave up")
          PROVE  CauseInv'
      <3>1. ~groupErr /\ ~batchFailed /\ ~GroupDone /\ gpc[s] # "gave up"
        BY <2>1, <2>2, <2>4 DEF GroupDone
      <3>2. \/ ~groupErr' /\ ~batchFailed' /\ gpc'[s] # "gave up"
            \/ gpc'[s] = "gave up" /\ result'[s] = "failed" /\ cause'[s] = "own"
        BY <1>4, <2>2, <3>1, StepMoves
      <3>3. \A t \in batch \ {s} : gpc'[t] # "gave up"
        BY <2>1, <2>4
      <3> QED
        BY <2>1, <3>2, <3>3 DEF CauseInv, OwnFailure
    <2> QED
      BY <2>3, <2>4
  <1>5. CASE Join
    <2>1. /\ batch \subseteq plan /\ batch' = {} /\ ~groupErr' /\ ~batchFailed' /\ ~ctxDone
          /\ outcome' # "paused" /\ (mpc' = "check" => batchFailed)
          /\ UNCHANGED <<plan, unrunnable, result, cause>>
      BY <1>5, <1>0 DEF Join, AfterBatch, PauseAtGate, Return, BatchInv, planVars, stepVars, callerVars,
         TypeOK, GroupTypeOK
    <2>2. ASSUME mpc' = "check"
          PROVE  OwnFailure(plan)'
      <3>1. OwnFailure(batch)
        BY <1>f, <2>1, <2>2 DEF CauseInv, OwnFailure
      <3> QED
        BY <2>1, <3>1 DEF OwnFailure
    <2> QED
      BY <2>1, <2>2 DEF CauseInv
  <1>6. CASE Cancel
    BY <1>6 DEF Cancel
  <1> QED
    BY <1>2, <1>3, <1>4, <1>5, <1>6, NextCases

-----------------------------------------------------------------------------
(* Gates *)

LEMMA GateInvStep ==
    ASSUME IInv, Next
    PROVE  GateInv'
  <1> USE DEF IInv
  <1>0. DoneGates = Done \cap Gates /\ DoneGates' = Done' \cap Gates
    BY DEF Done, DoneGates
  <1>1. CASE Renews
    <2>1. PICK f \in Failed, new \in SUBSET StepIds : Renewed(f, Survivors(f), new)
      BY <1>1, RenewsStep
    <2>2. batch = {} /\ batch' = {}
      BY <1>1, RenewsBetween
    <2> QED
      BY <1>0, <2>1, <2>2 DEF GateInv, Renewed
  <1>2. CASE ~Renews
    <2>1. /\ Done \subseteq Done' /\ Done' \subseteq Done \cup batch
          /\ UNCHANGED <<plan, deps>>
      BY <1>2, DoneStep DEF planVars
    <2>2. CASE BetweenBatches
      <3>1. batch = {} /\ batch' = {} /\ Done' = Done
        BY <2>1, <2>2, BetweenFacts DEF BatchInv
      <3>2. UNCHANGED <<shown, passedBy>>
        BY <1>2, <2>2 DEF BetweenBatches, Renews, MainQuiet, LoopStart, LoopCancelled,
           BatchesDone, BatchCancelled, AllDone, PauseOnFailure, ReplanFails,
           ReplanOrGiveUp, ResumeRetry, histVars
      <3>3. outcome = "failed" => outcome' = "failed"
        BY <1>2, <2>2 DEF BetweenBatches, Renews, MainQuiet, LoopStart, LoopCancelled,
           BatchesDone, BatchCancelled, AllDone, PauseOnFailure, ReplanFails,
           ReplanOrGiveUp, ResumeRetry, CallAgain, TypeOK, GroupTypeOK
      <3> QED
        BY <1>0, <3>1, <3>2, <3>3 DEF GateInv
    <2>3. CASE StartBatch
      <3>1. /\ outcome # "failed" /\ batch = {} /\ UNCHANGED <<shown, passedBy, result>>
        BY <2>3 DEF StartBatch, stepVars, histVars, BatchInv, TypeOK, GroupTypeOK
      <3>2. Done' = Done
        BY <2>1, <3>1
      <3>3. \A s \in batch' : deps[s] \subseteq Done
        BY <2>1, <3>2, DepsInvStep DEF DepsInv
      <3> QED
        BY <1>0, <2>1, <3>1, <3>2, <3>3 DEF GateInv
    <2>4. ASSUME NEW s \in StepIds, StepAction(s)
          PROVE  GateInv'
      <3>1. outcome = "none" /\ UNCHANGED <<outcome, batch, shown, passedBy>>
        BY <2>4, StepFrame
      <3> QED
        BY <1>0, <2>1, <3>1 DEF GateInv
    <2>5. CASE Join
      <3>1. /\ batch' = {} /\ outcome # "failed" /\ UNCHANGED result
        BY <2>5 DEF Join, stepVars, TypeOK, GroupTypeOK
      <3>2. Done' = Done /\ GatesOfBatch = batch \cap DoneGates
        BY <2>1, <3>1 DEF Done, GatesOfBatch
      <3>3. outcome' # "failed" => shown \cup passedBy \cup GatesOfBatch \subseteq shown' \cup passedBy'
        BY <2>5 DEF Join, AfterBatch, PauseAtGate, Return, histVars
      <3>4. outcome' # "failed" => DoneGates' \subseteq shown' \cup passedBy'
        BY <1>0, <3>1, <3>2, <3>3 DEF GateInv
      <3> QED
        BY <3>1, <3>4 DEF GateInv
    <2>6. CASE Cancel
      BY <1>0, <2>6 DEF Cancel, planVars, stepVars, groupVars, histVars, GateInv, Done
    <2> QED
      BY <2>2, <2>3, <2>4, <2>5, <2>6, NextCases
  <1> QED
    BY <1>1, <1>2

-----------------------------------------------------------------------------
(* The theorems *)

LEMMA InductiveStep == IInv /\ [Next]_vars => IInv'
  <1>1. ASSUME IInv, Next PROVE IInv'
    <2>1. TypeOK' /\ CountInv'
      BY <1>1, TypeStep, CountStep DEF IInv
    <2>2. StepInv' /\ BatchInv'
      BY <1>1, <2>1, StepInvStep, BatchInvStep DEF IInv
    <2>3. IdsInv' /\ DepsInv' /\ FailInv' /\ CauseInv' /\ GateInv'
      BY <1>1, IdsInvStep, DepsInvStep, FailInvStep, CauseInvStep, GateInvStep
    <2> QED
      BY <2>1, <2>2, <2>3 DEF IInv
  <1>2. ASSUME IInv, UNCHANGED vars PROVE IInv'
    <2> USE <1>2 DEF IInv, vars, planVars, stepVars, groupVars, callerVars, histVars
    <2>1. TypeOK'
      BY DEF TypeOK, PlanTypeOK, StepTypeOK, GroupTypeOK
    <2>2. CountInv' /\ StepInv' /\ IdsInv'
      BY DEF CountInv, StepInv, IdsInv
    <2>3. Done' = Done /\ Failed' = Failed /\ DoneGates' = DoneGates /\ AllFit' = AllFit
      BY DEF Done, Failed, DoneGates, AllFit
    <2>4. BatchInv' /\ DepsInv' /\ FailInv' /\ GateInv'
      BY <2>3 DEF BatchInv, DepsInv, FailInv, GateInv
    <2>5. CauseInv'
      BY <2>3 DEF CauseInv, OwnFailure
    <2> QED
      BY <2>1, <2>2, <2>4, <2>5
  <1> QED
    BY <1>1, <1>2

(* The inductive invariant holds throughout. *)
THEOREM Invariance == Spec => []IInv
  BY InitInv, InductiveStep, PTL DEF Spec

(* Every variable of the executor keeps its type, and step goroutines are   *)
(* confined to the batch that is waited for.                                *)
THEOREM TypeCorrect == Spec => []TypeOK
  <1>1. IInv => TypeOK
    BY DEF IInv
  <1> QED
    BY <1>1, Invariance, PTL

(* A step runs only when all it was sorted behind is done, and no step is   *)
(* left "running" behind, through all failures, retries, pauses and replans,*)
(* whether or not the agents are there and the ids are unique; only a step  *)
(* that shares its id with another may be done before what it depends on.   *)
THEOREM DependencySafety == Spec => [](DepsDoneBeforeStart /\ NothingLeftRunning)
  <1>1. IInv => DepsDoneBeforeStart /\ NothingLeftRunning
    <2> SUFFICES ASSUME IInv PROVE DepsDoneBeforeStart /\ NothingLeftRunning
      OBVIOUS
    <2>1. NothingLeftRunning
      BY DEF IInv, StepInv, NothingLeftRunning
    <2>2. plan \subseteq StepIds
      BY DEF IInv, TypeOK, PlanTypeOK
    <2>3. \A s \in plan : gpc[s] # "idle" => s \in batch
      BY <2>2, InBatch DEF IInv
    <2>4. DepsDoneBeforeStart
      BY <2>3 DEF IInv, DepsInv, DepsDoneBeforeStart, Done
    <2> QED
      BY <2>1, <2>4
  <1> QED
    BY <1>1, Invariance, PTL

(* In particular execute never returns with a step that is still marked     *)
(* running.                                                                 *)
COROLLARY NothingRunsOn == Spec => []NothingLeftRunning
BY DependencySafety, PTL

(* When every step has its agent, a plan reported done is done.             *)
THEOREM Completion == Spec => []DoneMeansAllDone
  <1>1. IInv => DoneMeansAllDone
    BY DEF IInv, FailInv, AllFit, DoneMeansAllDone, Done
  <1> QED
    BY <1>1, Invariance, PTL

(* And a plan that pauses, uncancelled, has a failure to show that is not   *)
(* just a sibling's cancellation.                                           *)
THEOREM RootCause == Spec => []PauseHasRootCause
  <1>1. IInv => PauseHasRootCause
    BY DEF IInv, CauseInv, AllFit, PauseHasRootCause, OwnFailure, Failed
  <1> QED
    BY <1>1, Invariance, PTL

(* A dependent of a gate runs only when the plan has paused at the gate, or *)
(* never will, for what the gate's batch came to: with replanning by itself *)
(* or by hand alike.                                                        *)
THEOREM GateSafety == Spec => []GateStops
  <1>1. IInv => GateStops
    <2> SUFFICES ASSUME IInv PROVE GateStops
      OBVIOUS
    <2>1. plan \subseteq StepIds
      BY DEF IInv, TypeOK, PlanTypeOK
    <2>2. \A s \in plan : gpc[s] = "running" => s \in batch
      BY <2>1, InBatch DEF IInv
    <2> QED
      BY <2>2 DEF IInv, GateInv, GateStops
  <1> QED
    BY <1>1, Invariance, PTL

(* While ids are unique finished work is never lost, run again or put on    *)
(* other dependencies, and a replan that makes them ambiguous still keeps   *)
(* it: what loses it is the next replan after that.                         *)
THEOREM WorkKept == Spec => DoneIsFinal
  <1>1. IInv /\ [Next]_vars =>
          [doubled = {} =>
             \A s \in Done : /\ s \in plan'
                             /\ result'[s] = "done"
                             /\ s \notin doubled' => deps'[s] = deps[s]]_vars
    <2>1. ASSUME IInv, Next, doubled = {}, NEW s \in Done
          PROVE  /\ s \in plan' /\ result'[s] = "done"
                 /\ s \notin doubled' => deps'[s] = deps[s]
      <3>1. CASE Renews
        <4>1. PICK f \in Failed, new \in SUBSET StepIds : Renewed(f, Survivors(f), new)
          BY <2>1, <3>1, RenewsStep
        <4> QED
          BY <2>1, <4>1 DEF Renewed, Done
      <3>2. CASE ~Renews
        BY <2>1, <3>2, DoneStep DEF planVars, Done
      <3> QED
        BY <3>1, <3>2
    <2> QED
      BY <2>1
  <1> QED
    BY <1>1, Invariance, PTL DEF Spec, DoneIsFinal

-----------------------------------------------------------------------------
(* Refinement *)

LEMMA WorkInitially == Init => Work!WorkInit
  <1> SUFFICES ASSUME Init PROVE Work!WorkInit
    OBVIOUS
  <1>1. Done = {} /\ (outcome = "done") = FALSE
    BY DEF Init, Done
  <1> QED
    BY <1>1 DEF Init, Work!WorkInit

LEMMA WorkStep ==
    ASSUME IInv, [Next]_vars
    PROVE  [Work!WorkNext]_(Work!workVars)
  <1> USE DEF IInv
  <1>1. ASSUME UNCHANGED planVars, Done' = Done, (outcome' = "done") = (outcome = "done")
        PROVE  UNCHANGED Work!workVars
    BY <1>1 DEF Work!workVars, planVars
  <1>3. CASE UNCHANGED vars
    BY <1>1, <1>3 DEF vars, planVars, stepVars, Done
  <1>4. ASSUME Next, Renews
        PROVE  Work!WorkNext
    <2>1. PICK f \in Failed, new \in SUBSET StepIds : Renewed(f, Survivors(f), new)
      BY <1>4, RenewsStep
    <2>2. plan' \in SUBSET StepIds /\ deps' \in [StepIds -> SUBSET StepIds]
      BY <1>4, TypeStep DEF TypeOK, PlanTypeOK
    <2>3. Work!Valid(plan', deps')
      BY <2>1 DEF Renewed, Valid, Work!Valid
    <2>4. doubled' \subseteq plan \cap plan' /\ unrunnable' \subseteq unrunnable /\ Done' \subseteq Done
      BY <2>1 DEF Renewed
    <2>5. doubled = {} => Work!KeepsCompleted
      BY <2>1 DEF Renewed, Work!KeepsCompleted
    <2>6. outcome # "done" /\ outcome' # "done"
      BY <2>1 DEF Renewed
    <2>7. Work!PlanAnew
      BY <2>2, <2>3, <2>4, <2>5, <2>6 DEF Work!PlanAnew
    <2> QED
      BY <2>6, <2>7 DEF Work!WorkNext
  <1>5. ASSUME Next, ~Renews
        PROVE  [Work!WorkNext]_(Work!workVars)
    <2>1. Done \subseteq Done' /\ UNCHANGED planVars /\ UNCHANGED <<plan, deps, doubled, unrunnable>>
      BY <1>5, DoneStep DEF planVars
    <2>3. CASE AllDone
      <3>1. /\ mpc = "check" /\ Failed = {} /\ outcome' = "done" /\ outcome = "none"
            /\ UNCHANGED <<plan, deps, result>>
        BY <2>3 DEF AllDone, Return, planVars, stepVars, TypeOK, GroupTypeOK
      <3>2. plan \subseteq Done \/ plan \cap unrunnable # {}
        BY <3>1 DEF FailInv, AllFit
      <3>3. Done' = Done
        BY <3>1 DEF Done
      <3> QED
        BY <2>1, <3>1, <3>2, <3>3 DEF Work!WorkNext, Work!Finish
    <2>4. CASE LoopCancelled \/ BatchesDone \/ BatchCancelled \/ PauseOnFailure
               \/ ReplanFails \/ ReplanOrGiveUp \/ Join \/ Cancel
      <3>1. UNCHANGED result
        BY <2>4, QuietKeepsDone DEF MainQuiet
      <3>2. outcome # "done" /\ outcome' # "done"
        BY <2>4 DEF LoopCancelled, BatchesDone, BatchCancelled, PauseOnFailure,
           ReplanFails, ReplanOrGiveUp, Join, AfterBatch, PauseAtGate, Cancel, Return,
           TypeOK, GroupTypeOK
      <3> QED
        BY <1>1, <2>1, <3>1, <3>2 DEF Done
    <2>5. CASE LoopStart \/ StartBatch
      <3>1. outcome # "done" /\ outcome' # "done"
        BY <2>5 DEF LoopStart, StartBatch, TypeOK, GroupTypeOK
      <3>2. Done' = Done
        BY <2>1, <2>5, ResetKeepsDone DEF StartBatch, stepVars, Done
      <3> QED
        BY <1>1, <2>1, <3>1, <3>2
    <2>6. ASSUME NEW s \in StepIds, ResumeRetry(s)
          PROVE  UNCHANGED Work!workVars
      <3>1. outcome # "done" /\ outcome' # "done"
        BY <2>6 DEF ResumeRetry, CallAgain
      <3> QED
        BY <1>1, <2>6, <3>1, ResetKeepsDone
    <2>9. ASSUME NEW s \in StepIds, StepAction(s)
          PROVE  [Work!WorkNext]_(Work!workVars)
      <3>1. outcome = "none" /\ outcome' = outcome /\ s \in batch
        BY <2>9, StepFrame
      <3>2. CASE s \in Done' \ Done
        <4>1. Done' = Done \cup {s}
          BY <2>1, <2>9, <3>2, StepKeepsDone
        <4>2. s \in plan \ Done /\ deps[s] \subseteq Done
          BY <3>1, <3>2 DEF DepsInv, BatchInv
        <4>3. result'[s] = "done" /\ result[s] # "done"
          BY <3>2, <4>2 DEF Done
        <4>4. gpc[s] = "running"
          BY <2>9, <4>3, StepMoves
        <4>5. s \notin unrunnable
          BY <4>4 DEF StepInv
        <4>6. Work!Complete(s)
          BY <2>1, <3>1, <4>1, <4>2, <4>5 DEF Work!Complete
        <4> QED
          BY <3>1, <4>6 DEF Work!WorkNext
      <3>3. CASE s \notin Done' \ Done
        <4>1. Done' = Done
          BY <2>1, <2>9, <3>3, StepKeepsDone
        <4> QED
          BY <1>1, <2>1, <3>1, <4>1
      <3> QED
        BY <3>2, <3>3
    <2> QED
      BY <1>5, <2>3, <2>4, <2>5, <2>6, <2>9, NextCases
         DEF BetweenBatches, MainQuiet, Renews
  <1> QED
    BY <1>3, <1>4, <1>5

(* The executor does what PlanWork promises: while ids are unique, work is  *)
(* completed once, in order, and kept; with every agent there, the plan is  *)
(* finished only when complete.                                             *)
THEOREM Refinement == Spec => ImplementsWork
  <1>1. IInv /\ [Next]_vars => [Work!WorkNext]_(Work!workVars)
    BY WorkStep
  <1> QED
    BY <1>1, WorkInitially, Invariance, PTL
       DEF Spec, ImplementsWork, Work!WorkSpec
=============================================================================
