----------------------------- MODULE PlanSession ----------------------------
(***************************************************************************)
(* One plan session of rest/plan_handler.go: the goroutine that executes   *)
(* its plan, and the HTTP requests that start, cancel, retry, replan and   *)
(* edit it, each a goroutine of its own.                                   *)
(*                                                                         *)
(* They share the fields of planSessionState, under its mutex, the         *)
(* PlanState of an execution, without one, and a channel of capacity one   *)
(* that each pause makes for its answer.  A request that has read the      *)
(* fields goes on with what it read, however long it takes.                *)
(*                                                                         *)
(* What happens inside ExecuteWithState is cut down to what its caller     *)
(* sees: steps run and end in one action, in any order, done or failed,    *)
(* and the call ends with the event that module PlanExecutor allows for    *)
(* them.  The agent of a step may ask for the approval of a tool call, and *)
(* then waits for the answer of one more request.  Of the events only      *)
(* those matter that end an event stream.                                  *)
(***************************************************************************)
EXTENDS Integers

CONSTANTS
    StepIds,       \* all step ids; a definition is a set of them here
    Gates,         \* the steps marked Gate
    Clients,       \* goroutines that serve requests for the session
    Starters,      \* those of them that call handleExecute
    MaxExecutions, \* bound: executions started
    MaxPauses,     \* bound: pauses of all executions
    Scopes,        \* bounds: what a behaviour has of all these, and which requests
                   \* it knows besides those that run the plan
    None

Executions == 1..MaxExecutions
Channels == 1..MaxPauses
NoDef == {}

ASSUME SessionAssumption ==
    /\ MaxExecutions \in Nat
    /\ MaxPauses \in Nat
    /\ Gates \subseteq StepIds
    /\ Starters \subseteq Clients
    /\ None \notin Channels
    /\ None \notin Executions
    /\ Scopes \subseteq [steps : SUBSET StepIds, clients : SUBSET Clients,
                         executions : 0..MaxExecutions, pauses : 0..MaxPauses,
                         uses : SUBSET {"retry", "replan", "approvals", "events", "cancel"}]

VARIABLES
    scope,      \* the bounds of this behaviour
    currentDef, \* the definition the session shows, NoDef before generation
    execCancel, \* the execution that cancel reaches; running is set with it
    execState,  \* the execution that paused
    retryCh,    \* the channel of its last pause
    started,    \* how many executions were started
    epc,        \* where the goroutine of an execution is
    edef,       \* the definition it executes
    result,     \* the Status in its PlanState, "none" where there is no entry
    todo,       \* the steps this call of ExecuteWithState has still to run
    stop,       \* why this call starts no more steps, "no" while it does
    pauses,     \* how many channels were made
    sel,        \* the channel its select waits on
    ctxDone,    \* its context is cancelled or timed out
    slot,       \* what a channel holds
    asking,     \* the steps whose agents wait for an approval
    pendingApproval, \* the one of them that asked last and has no answer
    req,        \* the request a client serves, with all it has read
    reader      \* a client of handleEvents: it reads, it is 64 events behind, or
                \* it has missed an end

fields == <<currentDef, execCancel, execState, retryCh>>
work == <<edef, result, todo, stop>>
around == <<scope, asking, pendingApproval>>
execution == <<started, epc, work, pauses, sel, ctxDone, around>>
vars == <<fields, execution, slot, req, reader>>

-----------------------------------------------------------------------------
(* plan.RetryAction, with the number of the pause it answers as a history   *)
(* field.                                                                   *)
RetryActions ==
    [action : {"retry", "replan"}, steps : SUBSET StepIds, seen : Nat]

NoRequest == [pc |-> "idle", exec |-> None, ch |-> None, seen |-> 0,
              def |-> NoDef, steps |-> {}]

Requests ==
    [pc : {"idle", "start", "cancel", "tell", "retry", "replan", "plan",
           "adopt", "send retry", "send replan"},
     exec : Executions \cup {None},
     ch : Channels \cup {None},
     seen : Nat,
     def : SUBSET StepIds,
     steps : SUBSET StepIds]

Places == {"none", "begin", "run", "store", "select", "wait",
           "cleanup", "end"}

(* The goroutine of handleExecute exists. *)
Alive(e) == epc[e] \notin {"none", "end"}

TypeOK ==
    /\ scope \in Scopes
    /\ currentDef \in SUBSET StepIds
    /\ execCancel \in Executions \cup {None}
    /\ execState \in Executions \cup {None}
    /\ retryCh \in Channels \cup {None}
    /\ started \in 0..MaxExecutions
    /\ epc \in [Executions -> Places]
    /\ edef \in [Executions -> SUBSET StepIds]
    /\ result \in [Executions -> [StepIds -> {"none", "pending", "done", "failed"}]]
    /\ todo \in [Executions -> SUBSET StepIds]
    /\ stop \in [Executions -> {"no", "failed", "gate"}]
    /\ pauses \in 0..MaxPauses
    /\ sel \in [Executions -> Channels \cup {None}]
    /\ ctxDone \in [Executions -> BOOLEAN]
    /\ slot \in [Channels -> RetryActions \cup {None}]
    /\ asking \in [Executions -> SUBSET StepIds]
    /\ pendingApproval \in (Executions \X StepIds) \cup {None}
    /\ req \in [Clients -> Requests]
    /\ reader \in {"away", "reading", "behind", "missed"}
    /\ \A e \in Executions : epc[e] = "none" <=> e > started
    /\ \A e \in Executions : Alive(e) => edef[e] # NoDef

Init ==
    /\ scope \in Scopes
    /\ currentDef = NoDef
    /\ execCancel = None
    /\ execState = None
    /\ retryCh = None
    /\ started = 0
    /\ epc = [e \in Executions |-> "none"]
    /\ edef = [e \in Executions |-> NoDef]
    /\ result = [e \in Executions |-> [s \in StepIds |-> "none"]]
    /\ todo = [e \in Executions |-> {}]
    /\ stop = [e \in Executions |-> "no"]
    /\ pauses = 0
    /\ sel = [e \in Executions |-> None]
    /\ ctxDone = [e \in Executions |-> FALSE]
    /\ slot = [k \in Channels |-> None]
    /\ asking = [e \in Executions |-> {}]
    /\ pendingApproval = None
    /\ req = [c \in Clients |-> NoRequest]
    /\ reader = "away"

-----------------------------------------------------------------------------
running == execCancel # None

(* What the planner makes of a goal, and a user of a plan: it is valid.  The *)
(* planner is corrected until it is, a few times.                           *)
Definitions == (SUBSET scope.steps) \ {{}}

Goto(e, place) == epc' = [epc EXCEPT ![e] = place]

(* handleEvents returns on plan_done, plan_error and plan_cancelled; but the *)
(* bus drops these too when the channel of the reader is full.              *)
PublishEnd ==
    \/ reader # "behind" /\ reader' = "away"
    \/ reader \in {"behind", "missed"} /\ reader' = "missed"

At(c, place) == req[c].pc = place

Answer(c) == req' = [req EXCEPT ![c] = NoRequest]

-----------------------------------------------------------------------------
(* handleExecute *)

(* The check for a plan left out. *)
ExecuteCheckNoPlan(c) ==
    /\ c \in Starters
    /\ At(c, "idle")
    /\ ~running
    /\ req' = [req EXCEPT ![c] = [NoRequest EXCEPT !.pc = "start",
                                                   !.def = currentDef]]
    /\ UNCHANGED <<fields, execution, slot, reader>>

(* The first lock section: refuse if running, else take the definition. *)
ExecuteCheck(c) ==
    /\ c \in Starters
    /\ At(c, "idle")
    /\ ~running
    /\ currentDef # NoDef
    /\ req' = [req EXCEPT ![c] = [NoRequest EXCEPT !.pc = "start",
                                                   !.def = currentDef]]
    /\ UNCHANGED <<fields, execution, slot, reader>>

(* The second: the execution is on. *)
ExecuteStart(c) ==
    LET e == started + 1 IN
    /\ At(c, "start")
    /\ started < scope.executions
    /\ started' = e
    /\ execCancel' = e
    /\ Goto(e, "begin")
    /\ edef' = [edef EXCEPT ![e] = req[c].def]
    /\ Answer(c)
    /\ UNCHANGED <<currentDef, execState, retryCh, result, todo, stop, pauses, sel,
                   ctxDone, slot, around, reader>>

-----------------------------------------------------------------------------
(* The goroutine of an execution: ExecuteWithState ... *)

Failed(e) == {s \in edef[e] : result[e][s] = "failed"}

(* execute takes up all that is not done, unless it is cancelled by now. *)
Begin(e) ==
    /\ epc[e] = "begin"
    /\ IF ctxDone[e]
       THEN /\ Goto(e, "cleanup")
            /\ PublishEnd
            /\ UNCHANGED <<todo, stop>>
       ELSE /\ Goto(e, "run")
            /\ todo' = [todo EXCEPT ![e] = {s \in edef[e] : result[e][s] # "done"}]
            /\ stop' = [stop EXCEPT ![e] = "no"]
            /\ UNCHANGED reader
    /\ UNCHANGED <<fields, started, edef, result, pauses, sel, ctxDone, slot, around, req>>

(* The agent of a step asks for an approval: it takes the one place there   *)
(* is for that, whoever else may wait there.                                *)
SubmitApproval(e, s) ==
    /\ "approvals" \in scope.uses
    /\ epc[e] = "run"
    /\ s \in todo[e] \ asking[e]
    /\ asking' = [asking EXCEPT ![e] = @ \cup {s}]
    /\ pendingApproval' = <<e, s>>
    /\ UNCHANGED <<fields, started, epc, work, pauses, sel, ctxDone, scope, slot, req, reader>>

(* Mutant of EndStep: the wait for an approval does not look at the context. *)
EndStepAnswered(e, s) ==
    /\ epc[e] = "run"
    /\ s \in todo[e]
    /\ s \notin asking[e]
    /\ todo' = [todo EXCEPT ![e] = @ \ {s}]
    /\ \/ /\ result' = [result EXCEPT ![e][s] = "failed"]
          /\ stop' = [stop EXCEPT ![e] = "failed"]
       \/ /\ result' = [result EXCEPT ![e][s] = "done"]
          /\ stop' = [stop EXCEPT ![e] = IF @ = "no" /\ s \in Gates THEN "gate" ELSE @]
    /\ UNCHANGED <<fields, started, epc, edef, pauses, sel, ctxDone, slot, around, req, reader>>

(* A step runs and ends.  A failure stops the call, a gate too unless a     *)
(* sibling fails.  A wait for an approval ends with the context, which a    *)
(* failure of a sibling cancels.                                            *)
EndStep(e, s) ==
    /\ epc[e] = "run"
    /\ s \in todo[e]
    /\ s \in asking[e] => ctxDone[e] \/ stop[e] = "failed"
    /\ asking' = [asking EXCEPT ![e] = @ \ {s}]
    /\ todo' = [todo EXCEPT ![e] = @ \ {s}]
    /\ \/ /\ result' = [result EXCEPT ![e][s] = "failed"]
          /\ stop' = [stop EXCEPT ![e] = "failed"]
       \/ /\ result' = [result EXCEPT ![e][s] = "done"]
          /\ stop' = [stop EXCEPT ![e] = IF @ = "no" /\ s \in Gates THEN "gate" ELSE @]
    /\ UNCHANGED <<fields, started, epc, edef, pauses, sel, ctxDone, slot, pendingApproval,
                   scope, req, reader>>

(* All that the call has started has ended. *)
NothingRuns(e) == epc[e] = "run" /\ asking[e] = {}

(* All that it would start has, and no gate stopped it. *)
BatchesOver(e) ==
    /\ NothingRuns(e)
    /\ stop[e] = "failed" \/ (stop[e] = "no" /\ todo[e] = {})

(* plan_waiting_retry is published before the handlers can know of it. *)
PublishWaiting(e) ==
    /\ NothingRuns(e)
    /\ stop[e] = "gate" \/ (BatchesOver(e) /\ Failed(e) # {})
    /\ pauses < scope.pauses
    /\ Goto(e, "store")
    /\ UNCHANGED <<fields, started, work, pauses, sel, ctxDone, slot, around, req, reader>>

(* plan_done: findFailed finds nothing. *)
FinishDone(e) ==
    /\ BatchesOver(e)
    /\ Failed(e) = {}
    /\ Goto(e, "cleanup")
    /\ PublishEnd
    /\ UNCHANGED <<fields, started, work, pauses, sel, ctxDone, slot, around, req>>

(* plan_error *)
FinishCancelled(e) ==
    /\ NothingRuns(e)
    /\ ctxDone[e]
    /\ Goto(e, "cleanup")
    /\ PublishEnd
    /\ UNCHANGED <<fields, started, work, pauses, sel, ctxDone, slot, around, req>>

-----------------------------------------------------------------------------
(* ... and the wait for an answer when it paused. *)

(* The channel of an earlier pause kept. *)
StorePauseSameChannel(e) ==
    /\ epc[e] = "store"
    /\ pauses < scope.pauses
    /\ pauses' = pauses + 1
    /\ execState' = e
    /\ retryCh' = IF retryCh = None THEN pauses' ELSE retryCh
    /\ Goto(e, "select")
    /\ UNCHANGED <<currentDef, execCancel, started, work, sel, ctxDone, slot, around, req,
                   reader>>

(* execState set without a channel. *)
StorePauseNoChannel(e) ==
    /\ epc[e] = "store"
    /\ pauses < scope.pauses
    /\ pauses' = pauses + 1
    /\ execState' = e
    /\ UNCHANGED retryCh
    /\ Goto(e, "select")
    /\ UNCHANGED <<currentDef, execCancel, started, work, sel, ctxDone, slot, around, req,
                   reader>>

(* execState and a new retryCh, under the mutex. *)
StorePause(e) ==
    /\ epc[e] = "store"
    /\ pauses < scope.pauses
    /\ pauses' = pauses + 1
    /\ execState' = e
    /\ retryCh' = pauses'
    /\ Goto(e, "select")
    /\ UNCHANGED <<currentDef, execCancel, started, work, sel, ctxDone, slot, around, req,
                   reader>>

(* The select statement reads the field once, without the mutex. *)
EnterSelect(e) ==
    /\ epc[e] = "select"
    /\ sel' = [sel EXCEPT ![e] = retryCh]
    /\ Goto(e, "wait")
    /\ UNCHANGED <<fields, started, work, pauses, ctxDone, slot, around, req,
                   reader>>

(* "retry" resets a step that is not done, "replan" brings its definition. *)
Apply(e, a) ==
    \/ /\ a.action = "retry"
       /\ result' = [result EXCEPT ![e] =
            [s \in StepIds |-> IF s \in a.steps /\ @[s] \notin {"none", "done"}
                               THEN "pending" ELSE @[s]]]
       /\ UNCHANGED edef
    \/ /\ a.action = "replan"
       /\ edef' = [edef EXCEPT ![e] = a.steps]
       /\ UNCHANGED result

Resume(e) ==
    /\ epc[e] = "wait"
    /\ sel[e] # None
    /\ slot[sel[e]] # None
    /\ Apply(e, slot[sel[e]])
    /\ slot' = [slot EXCEPT ![sel[e]] = None]
    /\ sel' = [sel EXCEPT ![e] = None]
    /\ Goto(e, "begin")
    /\ UNCHANGED <<fields, started, todo, stop, pauses, ctxDone, around, req, reader>>

(* The goroutine returns without a word. *)
WaitCancelledSilently(e) ==
    /\ epc[e] = "wait"
    /\ ctxDone[e]
    /\ Goto(e, "cleanup")
    /\ UNCHANGED <<fields, started, work, pauses, sel, ctxDone, slot, around, req, reader>>

(* plan_cancelled *)
WaitCancelled(e) ==
    /\ epc[e] = "wait"
    /\ ctxDone[e]
    /\ Goto(e, "cleanup")
    /\ PublishEnd
    /\ UNCHANGED <<fields, started, work, pauses, sel, ctxDone, slot, around, req>>

(* execState and retryCh left set. *)
CleanupKeepsState(e) ==
    /\ epc[e] = "cleanup"
    /\ execCancel' = None
    /\ UNCHANGED <<execState, retryCh>>
    /\ ctxDone' = [ctxDone EXCEPT ![e] = TRUE]
    /\ edef' = [edef EXCEPT ![e] = NoDef]
    /\ todo' = [todo EXCEPT ![e] = {}]
    /\ stop' = [stop EXCEPT ![e] = "no"]
    /\ sel' = [sel EXCEPT ![e] = None]
    /\ Goto(e, "end")
    /\ UNCHANGED <<currentDef, started, result, pauses, slot, around, req, reader>>

(* The deferred function clears all four fields, then the context goes, and *)
(* with the goroutine its locals.                                           *)
Cleanup(e) ==
    /\ epc[e] = "cleanup"
    /\ execCancel' = None
    /\ execState' = None /\ retryCh' = None
    /\ ctxDone' = [ctxDone EXCEPT ![e] = TRUE]
    /\ edef' = [edef EXCEPT ![e] = NoDef]
    /\ todo' = [todo EXCEPT ![e] = {}]
    /\ stop' = [stop EXCEPT ![e] = "no"]
    /\ sel' = [sel EXCEPT ![e] = None]
    /\ Goto(e, "end")
    /\ UNCHANGED <<currentDef, started, result, pauses, slot, around, req, reader>>

(* The context is given 30 minutes. *)
Timeout(e) ==
    /\ Alive(e)
    /\ ~ctxDone[e]
    /\ ctxDone' = [ctxDone EXCEPT ![e] = TRUE]
    /\ UNCHANGED <<fields, started, epc, work, pauses, sel, slot, around,
                   req, reader>>

-----------------------------------------------------------------------------
(* handleCancel *)

CancelRead(c) ==
    /\ "cancel" \in scope.uses
    /\ At(c, "idle")
    /\ running
    /\ req' = [req EXCEPT ![c] = [NoRequest EXCEPT !.pc = "cancel",
                                                   !.exec = execCancel]]
    /\ UNCHANGED <<fields, execution, slot, reader>>

CancelCall(c) ==
    /\ At(c, "cancel")
    /\ ctxDone' = [ctxDone EXCEPT ![req[c].exec] = TRUE]
    /\ req' = [req EXCEPT ![c] = [NoRequest EXCEPT !.pc = "tell"]]
    /\ UNCHANGED <<fields, started, epc, work, pauses, sel, slot, around,
                   reader>>

CancelPublish(c) ==
    /\ At(c, "tell")
    /\ PublishEnd
    /\ Answer(c)
    /\ UNCHANGED <<fields, execution, slot>>

-----------------------------------------------------------------------------
(* handleStepRetry and handleReplan *)

(* Both first read execState, retryCh and currentDef, under the mutex. *)
ReadPause(c, next, steps) ==
    /\ At(c, "idle")
    /\ retryCh # None
    /\ req' = [req EXCEPT ![c] = [pc |-> next, exec |-> execState,
                                  ch |-> retryCh, def |-> currentDef,
                                  seen |-> pauses, steps |-> steps]]
    /\ UNCHANGED <<fields, execution, slot, reader>>

RetryRead(c) == "retry" \in scope.uses /\ \E s \in scope.steps : ReadPause(c, "retry", {s})

ReplanRead(c) == "replan" \in scope.uses /\ ReadPause(c, "replan", {})

(* The step must have failed, or be a gate of the plan that is done. *)
RetryCheck(c) ==
    LET status(s) == result[req[c].exec][s]
        valid == \A s \in req[c].steps :
                    \/ status(s) = "failed"
                    \/ status(s) = "done" /\ s \in Gates \cap req[c].def
    IN
    /\ At(c, "retry")
    /\ IF valid THEN req' = [req EXCEPT ![c].pc = "send retry"] ELSE Answer(c)
    /\ UNCHANGED <<fields, execution, slot, reader>>

(* Without a failed step there is nothing to replan; else the planner is    *)
(* asked to replace one and its dependents.  The plan is the one shown, and  *)
(* when that is not the one that paused, some of them may be done.          *)
ReplanCheck(c) ==
    LET status(s) == result[req[c].exec][s] IN
    /\ At(c, "replan")
    /\ \/ /\ \A s \in req[c].def : status(s) # "failed"
          /\ Answer(c)
       \/ \E f \in req[c].def : \E A \in SUBSET req[c].def :
             /\ status(f) = "failed"
             /\ f \in A
             /\ req' = [req EXCEPT ![c].pc = "plan", ![c].steps = A]
    /\ UNCHANGED <<fields, execution, slot, reader>>

(* The planner replans once.  Its steps make a valid plan of their own,     *)
(* whatever they are merged with: they may have ids of steps kept.          *)
Replacements == (SUBSET scope.steps) \ {{}}

(* Up to two minutes later the planner has new steps, and the results of    *)
(* those they replace are deleted.                                          *)
PlannerAnswers(c) ==
    LET kept == req[c].def \ req[c].steps IN
    /\ At(c, "plan")
    /\ \E new \in Replacements :
          req' = [req EXCEPT ![c].pc = "adopt", ![c].steps = kept \cup new]
    /\ result' = [result EXCEPT ![req[c].exec] =
                    [s \in StepIds |-> IF s \in req[c].steps THEN "none" ELSE @[s]]]
    /\ UNCHANGED <<fields, started, epc, edef, todo, stop, pauses, sel,
                   ctxDone, slot, around, reader>>

(* Or it has none, and plan_error is published. *)
PlannerFails(c) ==
    /\ At(c, "plan")
    /\ PublishEnd
    /\ Answer(c)
    /\ UNCHANGED <<fields, execution, slot>>

ReplanAdopt(c) ==
    /\ At(c, "adopt")
    /\ currentDef' = req[c].steps
    /\ req' = [req EXCEPT ![c].pc = "send replan"]
    /\ UNCHANGED <<execCancel, execState, retryCh, execution, slot, reader>>

(* The send blocks while the channel holds an answer. *)
Send(c, action) ==
    /\ slot[req[c].ch] = None
    /\ slot' = [slot EXCEPT ![req[c].ch] =
                  [action |-> action, steps |-> req[c].steps, seen |-> req[c].seen]]
    /\ Answer(c)
    /\ UNCHANGED <<fields, execution, reader>>

RetrySend(c) == At(c, "send retry") /\ Send(c, "retry")

ReplanSend(c) == At(c, "send replan") /\ Send(c, "replan")

-----------------------------------------------------------------------------
(* handleApprove: the request that is pending is answered, one way or the   *)
(* other, be it that nobody waits for it any more.                          *)
HandleApprove ==
    /\ pendingApproval # None
    /\ LET e == pendingApproval[1] IN
       asking' = [asking EXCEPT ![e] = @ \ {pendingApproval[2]}]
    /\ pendingApproval' = None
    /\ UNCHANGED <<fields, started, epc, work, pauses, sel, ctxDone, scope, slot, req, reader>>

-----------------------------------------------------------------------------
(* handleGenerate, handleUpdatePlan and handleEvents *)

(* A plan is generated whether the session is executing or not. *)
Generate ==
    /\ \E d \in Definitions : currentDef' = d
    /\ UNCHANGED <<execCancel, execState, retryCh, execution, slot, req, reader>>

UpdatePlan ==
    /\ ~running
    /\ \E d \in Definitions : currentDef' = d
    /\ UNCHANGED <<execCancel, execState, retryCh, execution, slot, req, reader>>

(* SubscribeLive: from here on the reader gets what is published. *)
ReaderSubscribes ==
    /\ "events" \in scope.uses
    /\ reader = "away"
    /\ reader' = "reading"
    /\ UNCHANGED <<fields, execution, slot, req>>

(* The steps that run, and a planner that thinks aloud, publish more than    *)
(* the reader takes: its channel is full ...                                *)
ReaderFallsBehind ==
    /\ reader = "reading"
    /\ \/ \E e \in Executions : epc[e] = "run"
       \/ \E c \in Clients : At(c, "plan")
    /\ reader' = "behind"
    /\ UNCHANGED <<fields, execution, slot, req>>

(* ... until it takes some. *)
ReaderCatchesUp ==
    /\ reader = "behind"
    /\ reader' = "reading"
    /\ UNCHANGED <<fields, execution, slot, req>>

ReaderLeaves ==
    /\ reader # "away"
    /\ reader' = "away"
    /\ UNCHANGED <<fields, execution, slot, req>>

-----------------------------------------------------------------------------
ExecutionStep(e) ==
    \/ Begin(e)
    \/ \E s \in StepIds : EndStep(e, s)
    \/ PublishWaiting(e)
    \/ FinishDone(e)
    \/ FinishCancelled(e)
    \/ StorePause(e)
    \/ EnterSelect(e)
    \/ Resume(e)
    \/ WaitCancelled(e)
    \/ Cleanup(e)

RequestStep(c) ==
    \/ ExecuteCheck(c)
    \/ ExecuteStart(c)
    \/ CancelRead(c)
    \/ CancelCall(c)
    \/ CancelPublish(c)
    \/ RetryRead(c)
    \/ RetryCheck(c)
    \/ RetrySend(c)
    \/ ReplanRead(c)
    \/ ReplanCheck(c)
    \/ PlannerAnswers(c)
    \/ PlannerFails(c)
    \/ ReplanAdopt(c)
    \/ ReplanSend(c)

Next ==
    \/ \E e \in Executions : ExecutionStep(e) \/ Timeout(e)
    \/ \E e \in Executions : \E s \in StepIds : SubmitApproval(e, s)
    \/ \E c \in scope.clients : RequestStep(c)
    \/ HandleApprove
    \/ Generate
    \/ UpdatePlan
    \/ ReaderSubscribes
    \/ ReaderFallsBehind
    \/ ReaderCatchesUp
    \/ ReaderLeaves

Spec == Init /\ [][Next]_vars

(* The goroutine of an execution runs, its agents answer, and its context   *)
(* has a deadline.  No request need ever come, and no agent need ask.       *)
FairSpec ==
    /\ Spec
    /\ \A e \in Executions : WF_vars(ExecutionStep(e)) /\ WF_vars(Timeout(e))
-----------------------------------------------------------------------------
(* Properties.  With one client that starts executions: two may both pass   *)
(* the check of handleExecute, see OneExecution.                            *)

(* The session never denies an execution: as long as its goroutine lives    *)
(* the fields say so and lead to it, so that the janitor keeps the session, *)
(* edits are refused and cancel reaches it; and they say so of no other.    *)
FieldsTellTheTruth ==
    /\ \A e \in Executions : Alive(e) <=> execCancel = e
    /\ execState # None => Alive(execState)

(* A plan that waits for an answer can be given one: the requests find the  *)
(* very channel that its goroutine waits on.                                *)
AnswerReachable ==
    \A e \in Executions : epc[e] = "wait" => sel[e] # None /\ sel[e] = retryCh

(* A pause is ended by an answer to that pause only.  What was sent before, *)
(* twice for one pause or while the plan ran on, is not taken for it.       *)
NoStaleResume ==
    [][\A e \in Executions : Resume(e) => slot[sel[e]].seen = pauses]_vars

(* What handleExecute answers, "plan is already executing"                  *)
(* (plan_handler.go:245): a session runs one execution at a time.           *)
OneExecution ==
    \A d, e \in Executions : Alive(d) /\ Alive(e) => d = e

(* Whoever watches an execution that has not announced its end will see one *)
(* and come back, also when it is paused and nobody answers; unless the     *)
(* reader was behind when the end came, which is then lost on it.           *)
ReaderReturns ==
    \A e \in Executions :
        (reader \in {"reading", "behind"} /\ Alive(e) /\ epc[e] # "cleanup")
            ~> reader \in {"away", "missed"}

(* An execution that is cancelled ends, also while it waits for an answer.  *)
CancelEnds == \A e \in Executions : ctxDone[e] ~> ~Alive(e)
=============================================================================
