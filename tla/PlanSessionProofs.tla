------------------------- MODULE PlanSessionProofs --------------------------
(***************************************************************************)
(* Proofs about PlanSession, for every set of steps, clients and bounds    *)
(* that SessionAssumption allows.                                          *)
(***************************************************************************)
EXTENDS PlanSession, TLAPS

-----------------------------------------------------------------------------
(* The inductive invariant.  This much holds of any requests.               *)

(* What a request has read: a plan to execute; or the channel of a pause,   *)
(* which has the number of that pause, and a plan to bring.                 *)
Carries(r) ==
    /\ r.pc = "start" => r.def # NoDef
    /\ r.pc \in {"retry", "replan", "plan", "adopt", "send retry", "send replan"}
          => r.ch # None
    /\ r.ch # None => r.seen = r.ch
    /\ r.pc \in {"adopt", "send replan"} => r.steps # NoDef

RequestInv == \A c \in Clients : Carries(req[c])

(* What a channel holds was meant for the pause it was made for.            *)
SlotInv ==
    \A k \in Channels : slot[k] # None =>
        /\ slot[k].seen = k
        /\ slot[k].action = "replan" => slot[k].steps # NoDef

(* The channel that is shown is the newest one.                             *)
ChannelInv == retryCh # None => retryCh = pauses

TypeInv == TypeOK /\ RequestInv /\ SlotInv /\ ChannelInv

(* The rest takes that one request at a time starts executions.             *)
OneStarter == \A c, d \in Starters : c = d

(* Whoever passed the check of handleExecute finds that it still holds.     *)
StartInv ==
    \A c \in Clients : At(c, "start") => c \in Starters /\ ~running

(* A pause has a channel from when it is shown until it is answered.        *)
PauseInv ==
    \A e \in Executions : epc[e] = "select" => retryCh # None

IInv == TypeInv /\ StartInv /\ FieldsTellTheTruth /\ PauseInv /\ AnswerReachable

-----------------------------------------------------------------------------
USE SessionAssumption

(* The bounds of a behaviour are among those of the constants.              *)
LEMMA ScopeBounds ==
    ASSUME scope \in Scopes
    PROVE  /\ scope.steps \subseteq StepIds
           /\ scope.clients \subseteq Clients
           /\ scope.executions \in 0..MaxExecutions
           /\ scope.pauses \in 0..MaxPauses
  OBVIOUS

LEMMA TypeInit == Init => TypeInv
  <1> SUFFICES ASSUME Init PROVE TypeInv
    OBVIOUS
  <1>1. NoRequest \in Requests
    BY DEF NoRequest, Requests, NoDef
  <1>2. TypeOK
    BY <1>1 DEF Init, TypeOK, Places, Alive, Executions, Channels, NoDef
  <1>3. RequestInv /\ SlotInv /\ ChannelInv
    BY DEF Init, RequestInv, Carries, SlotInv, ChannelInv, NoRequest
  <1> QED
    BY <1>2, <1>3 DEF TypeInv

-----------------------------------------------------------------------------
(* Types *)

(* The goroutine of an execution. *)
LEMMA ExecutionTypes ==
    ASSUME TypeInv, NEW e \in Executions, ExecutionStep(e) \/ Timeout(e)
    PROVE  TypeOK'
  <1> USE DEF TypeInv, TypeOK, fields, execution, work, around, Goto, Places, Alive,
              PublishEnd, Executions, Channels
  <1>1. CASE Begin(e)
    <2>1. epc' \in [Executions -> Places] /\ reader' \in {"away", "reading", "behind", "missed"}
      BY <1>1 DEF Begin
    <2>2. /\ todo' \in [Executions -> SUBSET StepIds]
          /\ stop' \in [Executions -> {"no", "failed", "gate"}]
      <3> DEFINE S == {s \in edef[e] : result[e][s] # "done"}
      <3>1. S \in SUBSET StepIds
        OBVIOUS
      <3>2. \/ UNCHANGED <<todo, stop>>
            \/ todo' = [todo EXCEPT ![e] = S] /\ stop' = [stop EXCEPT ![e] = "no"]
        BY <1>1 DEF Begin
      <3>3. /\ todo \in [Executions -> SUBSET StepIds]
            /\ stop \in [Executions -> {"no", "failed", "gate"}]
        OBVIOUS
      <3> HIDE DEF S, TypeInv, TypeOK, Executions
      <3> QED
        BY <3>1, <3>2, <3>3
    <2>3. \A d \in Executions : epc'[d] # "none" <=> epc[d] # "none"
      BY <1>1 DEF Begin
    <2>4. \A d \in Executions : Alive(d)' => Alive(d)
      BY <1>1 DEF Begin
    <2> QED
      BY <1>1, <2>1, <2>2, <2>3, <2>4 DEF Begin
  <1>2. ASSUME NEW s \in StepIds, EndStep(e, s) PROVE TypeOK'
    <2>1. /\ result' \in [Executions -> [StepIds -> {"none", "pending", "done", "failed"}]]
          /\ stop' \in [Executions -> {"no", "failed", "gate"}]
      <3>1. PICK x \in {"failed", "done"}, y \in {"no", "failed", "gate"} :
                /\ result' = [result EXCEPT ![e][s] = x]
                /\ stop' = [stop EXCEPT ![e] = y]
        BY <1>2 DEF EndStep
      <3> QED
        BY <3>1
    <2>2. /\ todo' \in [Executions -> SUBSET StepIds]
          /\ asking' \in [Executions -> SUBSET StepIds]
      BY <1>2 DEF EndStep
    <2> QED
      BY <1>2, <2>1, <2>2 DEF EndStep
  <1>3. CASE PublishWaiting(e)
    BY <1>3 DEF PublishWaiting, NothingRuns, BatchesOver
  <1>4. CASE FinishDone(e)
    BY <1>4 DEF FinishDone, BatchesOver, NothingRuns
  <1>5. CASE FinishCancelled(e)
    BY <1>5 DEF FinishCancelled, NothingRuns
  <1>6. CASE StorePause(e)
    BY <1>6, ScopeBounds DEF StorePause
  <1>7. CASE EnterSelect(e)
    BY <1>7 DEF EnterSelect
  <1>8. CASE Resume(e)
    <2> DEFINE a == slot[sel[e]]
    <2>1. sel[e] \in Channels /\ a \in RetryActions
      BY <1>8 DEF Resume
    <2>2. /\ a.steps \in SUBSET StepIds
          /\ a.action = "replan" => a.steps # NoDef
      BY <1>8, <2>1 DEF Resume, SlotInv, RetryActions
    <2>3. result' \in [Executions -> [StepIds -> {"none", "pending", "done", "failed"}]]
      <3> DEFINE f == [s \in StepIds |->
                         IF s \in a.steps /\ result[e][s] \notin {"none", "done"}
                         THEN "pending" ELSE result[e][s]]
      <3>1. f \in [StepIds -> {"none", "pending", "done", "failed"}]
        OBVIOUS
      <3>2. result' = [result EXCEPT ![e] = f] \/ UNCHANGED result
        BY <1>8 DEF Resume, Apply
      <3> HIDE DEF f
      <3> QED
        BY <3>1, <3>2
    <2>4. /\ edef' \in [Executions -> SUBSET StepIds]
          /\ \A d \in Executions : edef[d] # NoDef => edef'[d] # NoDef
      BY <1>8, <2>2 DEF Resume, Apply
    <2>5. epc' = [epc EXCEPT ![e] = "begin"] /\ epc[e] = "wait"
      BY <1>8 DEF Resume
    <2> HIDE DEF a
    <2>6. /\ slot' \in [Channels -> RetryActions \cup {None}]
          /\ sel' \in [Executions -> Channels \cup {None}]
      BY <1>8 DEF Resume
    <2> QED
      BY <1>8, <2>3, <2>4, <2>5, <2>6 DEF Resume
  <1>9. CASE WaitCancelled(e)
    BY <1>9 DEF WaitCancelled
  <1>10. CASE Cleanup(e)
    BY <1>10 DEF Cleanup, NoDef
  <1>11. CASE Timeout(e)
    BY <1>11 DEF Timeout
  <1> QED
    BY <1>1, <1>2, <1>3, <1>4, <1>5, <1>6, <1>7, <1>8, <1>9, <1>10, <1>11
       DEF ExecutionStep

(* A request that starts, cancels, or reads and checks. *)
LEMMA RequestTypes ==
    ASSUME TypeInv, NEW c \in Clients, RequestStep(c)
    PROVE  TypeOK'
  <1> USE DEF TypeInv, fields, execution, work, around, At, Answer
  <1>1. NoRequest \in Requests /\ \A d \in Clients : req[d] \in Requests
    BY DEF NoRequest, Requests, NoDef, TypeOK
  <1>2. ASSUME NEW r \in Requests, req' = [req EXCEPT ![c] = r],
               UNCHANGED <<fields, execution, slot>>, reader' \in {"away", "reading", "behind", "missed"}
        PROVE  TypeOK'
    BY <1>2 DEF TypeOK, Alive
  <1>3. reader \in {"away", "reading", "behind", "missed"}
    BY DEF TypeOK
  <1>4. CASE ExecuteCheck(c)
    <2> DEFINE r == [NoRequest EXCEPT !.pc = "start", !.def = currentDef]
    <2>1. r \in Requests
      BY <1>1 DEF Requests, TypeOK
    <2>2. req' = [req EXCEPT ![c] = r]
      BY <1>4 DEF ExecuteCheck
    <2> HIDE DEF r
    <2> QED
      BY <1>2, <1>3, <1>4, <2>1, <2>2 DEF ExecuteCheck
  <1>5. CASE ExecuteStart(c)
    <2>1. started + 1 \in Executions /\ started \in Nat
      BY <1>5, ScopeBounds DEF ExecuteStart, TypeOK, Executions
    <2>2. req[c].def # NoDef /\ req[c].def \in SUBSET StepIds
      BY <1>1, <1>5 DEF ExecuteStart, RequestInv, Carries, Requests
    <2>3. /\ epc' = [epc EXCEPT ![started + 1] = "begin"]
          /\ edef' = [edef EXCEPT ![started + 1] = req[c].def]
      BY <1>5 DEF ExecuteStart, Goto
    <2>4. \A e \in Executions : epc'[e] = "none" <=> e > started + 1
      BY <2>1, <2>3 DEF TypeOK, Executions
    <2>5. \A e \in Executions : Alive(e)' => edef'[e] # NoDef
      BY <2>1, <2>2, <2>3 DEF TypeOK, Alive
    <2>6. req' \in [Clients -> Requests]
      BY <1>1, <1>5 DEF ExecuteStart, TypeOK
    <2>7. /\ epc' \in [Executions -> Places]
          /\ edef' \in [Executions -> SUBSET StepIds]
          /\ execCancel' \in Executions \cup {None}
          /\ started' \in 0..MaxExecutions
      <3>1. started' = started + 1 /\ execCancel' = started + 1
        BY <1>5 DEF ExecuteStart
      <3> QED
        BY <2>1, <2>2, <2>3, <3>1 DEF TypeOK, Places, Executions
    <2> QED
      BY <1>5, <2>4, <2>5, <2>6, <2>7 DEF ExecuteStart, TypeOK
  <1>6. CASE CancelRead(c)
    <2> DEFINE r == [NoRequest EXCEPT !.pc = "cancel", !.exec = execCancel]
    <2>1. r \in Requests
      BY <1>1 DEF Requests, TypeOK
    <2>2. req' = [req EXCEPT ![c] = r]
      BY <1>6 DEF CancelRead
    <2> HIDE DEF r
    <2> QED
      BY <1>2, <1>3, <1>6, <2>1, <2>2 DEF CancelRead
  <1>7. CASE CancelCall(c)
    <2>1. [NoRequest EXCEPT !.pc = "tell"] \in Requests
      BY <1>1 DEF Requests
    <2>2. req' \in [Clients -> Requests] /\ ctxDone' \in [Executions -> BOOLEAN]
      BY <1>7, <2>1 DEF CancelCall, TypeOK
    <2> QED
      BY <1>7, <2>2 DEF CancelCall, TypeOK, Alive
  <1>8. CASE CancelPublish(c)
    BY <1>1, <1>2, <1>8 DEF CancelPublish, PublishEnd
  <1>9. ASSUME NEW next \in {"retry", "replan"}, NEW steps \in SUBSET StepIds,
               ReadPause(c, next, steps)
        PROVE  TypeOK'
    <2> DEFINE r == [pc |-> next, exec |-> execState, ch |-> retryCh, def |-> currentDef,
                     seen |-> pauses, steps |-> steps]
    <2>1. r \in Requests
      <3>1. /\ execState \in Executions \cup {None} /\ retryCh \in Channels \cup {None}
            /\ currentDef \in SUBSET StepIds /\ pauses \in Nat
        BY DEF TypeOK
      <3> QED
        BY <3>1 DEF Requests
    <2>2. req' = [req EXCEPT ![c] = r]
      BY <1>9 DEF ReadPause
    <2> HIDE DEF r
    <2> QED
      BY <1>2, <1>3, <1>9, <2>1, <2>2 DEF ReadPause
  <1>10. CASE RetryRead(c) \/ ReplanRead(c)
    <2>1. scope.steps \subseteq StepIds
      BY ScopeBounds DEF TypeOK
    <2>2. CASE RetryRead(c)
      <3>1. PICK s \in scope.steps : ReadPause(c, "retry", {s})
        BY <2>2 DEF RetryRead
      <3> QED
        BY <1>9, <2>1, <3>1
    <2>3. CASE ReplanRead(c)
      BY <1>9, <2>3 DEF ReplanRead
    <2> QED
      BY <1>10, <2>2, <2>3
  <1>11. ASSUME NEW pc \in {"send retry", "send replan", "plan", "adopt"},
                NEW steps \in SUBSET StepIds
         PROVE  [req[c] EXCEPT !.pc = pc, !.steps = steps] \in Requests
    BY <1>1 DEF Requests
  <1>12. CASE RetryCheck(c)
    <2>1. [req[c] EXCEPT !.pc = "send retry"] \in Requests
      BY <1>1 DEF Requests
    <2>2. \/ req' = [req EXCEPT ![c] = [req[c] EXCEPT !.pc = "send retry"]]
          \/ req' = [req EXCEPT ![c] = NoRequest]
      BY <1>12 DEF RetryCheck, TypeOK
    <2> QED
      BY <1>1, <1>2, <1>3, <1>12, <2>1, <2>2 DEF RetryCheck
  <1>13. CASE ReplanCheck(c)
    <2>1. \/ req' = [req EXCEPT ![c] = NoRequest]
          \/ \E A \in SUBSET req[c].def :
                req' = [req EXCEPT ![c] = [req[c] EXCEPT !.pc = "plan", !.steps = A]]
      BY <1>13 DEF ReplanCheck, TypeOK
    <2>2. req[c].def \in SUBSET StepIds
      BY <1>1 DEF Requests
    <2>3. \E r \in Requests : req' = [req EXCEPT ![c] = r]
      BY <1>1, <1>11, <2>1, <2>2
    <2> QED
      BY <1>2, <1>3, <1>13, <2>3 DEF ReplanCheck
  <1>14. CASE PlannerAnswers(c)
    <2> DEFINE kept == req[c].def \ req[c].steps
               f(e) == [s \in StepIds |-> IF s \in req[c].steps THEN "none" ELSE result[e][s]]
    <2>1. \E new \in Replacements :
             req' = [req EXCEPT ![c] = [req[c] EXCEPT !.pc = "adopt", !.steps = kept \cup new]]
      BY <1>14 DEF PlannerAnswers, TypeOK
    <2>2. kept \in SUBSET StepIds /\ \A new \in Replacements : new \in SUBSET StepIds
      BY <1>1, ScopeBounds DEF Requests, Replacements, TypeOK
    <2>3. req' \in [Clients -> Requests]
      <3>1. PICK new \in Replacements :
               req' = [req EXCEPT ![c] = [req[c] EXCEPT !.pc = "adopt", !.steps = kept \cup new]]
        BY <2>1
      <3>2. kept \cup new \in SUBSET StepIds
        BY <2>2
      <3> HIDE DEF kept
      <3>3. [req[c] EXCEPT !.pc = "adopt", !.steps = kept \cup new] \in Requests
        BY <1>11, <3>2
      <3> QED
        BY <3>1, <3>3 DEF TypeOK
    <2>4. result' \in [Executions -> [StepIds -> {"none", "pending", "done", "failed"}]]
      <3>1. \A e \in Executions : f(e) \in [StepIds -> {"none", "pending", "done", "failed"}]
        BY DEF TypeOK
      <3>2. result' = [result EXCEPT ![req[c].exec] = f(req[c].exec)]
        BY <1>14 DEF PlannerAnswers
      <3> HIDE DEF f
      <3> QED
        BY <3>1, <3>2 DEF TypeOK
    <2> QED
      BY <1>14, <2>3, <2>4 DEF PlannerAnswers, TypeOK, Alive
  <1>15. CASE PlannerFails(c)
    BY <1>1, <1>2, <1>15 DEF PlannerFails, PublishEnd
  <1>16. CASE ReplanAdopt(c)
    <2>1. [req[c] EXCEPT !.pc = "send replan"] \in Requests /\ req[c].steps \in SUBSET StepIds
      BY <1>1 DEF Requests
    <2>2. req' = [req EXCEPT ![c] = [req[c] EXCEPT !.pc = "send replan"]]
      BY <1>16 DEF ReplanAdopt, TypeOK
    <2>3. currentDef' \in SUBSET StepIds
      BY <1>16, <2>1 DEF ReplanAdopt
    <2>4. req' \in [Clients -> Requests]
      BY <2>1, <2>2 DEF TypeOK
    <2> QED
      BY <1>16, <2>3, <2>4 DEF ReplanAdopt, TypeOK, Alive
  <1>17. CASE RetrySend(c) \/ ReplanSend(c)
    <2>1. PICK action \in {"retry", "replan"} : Send(c, action)
      BY <1>17 DEF RetrySend, ReplanSend
    <2>2. [action |-> action, steps |-> req[c].steps, seen |-> req[c].seen] \in RetryActions
      BY <1>1 DEF RetryActions, Requests
    <2>3. slot' \in [Channels -> RetryActions \cup {None}] /\ req' \in [Clients -> Requests]
      BY <1>1, <2>1, <2>2 DEF Send, TypeOK
    <2> QED
      BY <2>1, <2>3 DEF Send, TypeOK, Alive
  <1> QED
    BY <1>4, <1>5, <1>6, <1>7, <1>8, <1>10, <1>12, <1>13, <1>14, <1>15, <1>16, <1>17
       DEF RequestStep

(* The actions of the agents, the planner and the reader. *)
LEMMA OtherTypes ==
    ASSUME TypeInv,
           \/ \E e \in Executions : \E s \in StepIds : SubmitApproval(e, s)
           \/ HandleApprove \/ Generate \/ UpdatePlan \/ ReaderSubscribes
           \/ ReaderFallsBehind \/ ReaderCatchesUp \/ ReaderLeaves
    PROVE  TypeOK'
  <1> USE DEF TypeInv, fields, execution, work, around
  <1>1. ASSUME NEW e \in Executions, NEW s \in StepIds, SubmitApproval(e, s)
        PROVE  TypeOK'
    BY <1>1 DEF SubmitApproval, TypeOK, Alive
  <1>2. CASE HandleApprove
    <2>1. /\ asking' \in [Executions -> SUBSET StepIds]
          /\ pendingApproval' \in (Executions \X StepIds) \cup {None}
      BY <1>2 DEF HandleApprove, TypeOK
    <2> QED
      BY <1>2, <2>1 DEF HandleApprove, TypeOK, Alive
  <1>3. CASE Generate \/ UpdatePlan
    BY <1>3, ScopeBounds DEF Generate, UpdatePlan, Definitions, TypeOK, Alive
  <1>4. CASE ReaderSubscribes \/ ReaderFallsBehind \/ ReaderCatchesUp \/ ReaderLeaves
    BY <1>4 DEF ReaderSubscribes, ReaderFallsBehind, ReaderCatchesUp,
       ReaderLeaves, TypeOK, Alive
  <1> QED
    BY <1>1, <1>2, <1>3, <1>4
-----------------------------------------------------------------------------
(* What the requests carry *)

(* Only these put something into a request or a channel, or show a channel. *)
LEMMA Carriers ==
    ASSUME TypeInv, [Next]_vars
    PROVE  \/ UNCHANGED <<req, slot, retryCh, pauses>>
           \/ \E e \in Executions : StorePause(e) \/ Resume(e) \/ Cleanup(e)
           \/ \E c \in Clients : RequestStep(c)
  <1>1. \A c \in scope.clients : c \in Clients
    BY ScopeBounds DEF TypeInv, TypeOK
  <1>2. ASSUME NEW e \in Executions, ExecutionStep(e) \/ Timeout(e)
        PROVE  \/ UNCHANGED <<req, slot, retryCh, pauses>>
               \/ StorePause(e) \/ Resume(e) \/ Cleanup(e)
    BY <1>2 DEF ExecutionStep, Timeout, Begin, EndStep, PublishWaiting, FinishDone,
       FinishCancelled, EnterSelect, WaitCancelled, fields
  <1>3. ASSUME NEW e \in Executions, NEW s \in StepIds, SubmitApproval(e, s)
        PROVE  UNCHANGED <<req, slot, retryCh, pauses>>
    BY <1>3 DEF SubmitApproval, fields
  <1>4. HandleApprove \/ Generate \/ UpdatePlan \/ ReaderSubscribes
        \/ ReaderFallsBehind \/ ReaderCatchesUp \/ ReaderLeaves
        \/ UNCHANGED vars => UNCHANGED <<req, slot, retryCh, pauses>>
    BY DEF HandleApprove, Generate, UpdatePlan, ReaderSubscribes, ReaderFallsBehind,
       ReaderCatchesUp, ReaderLeaves, vars, fields, execution
  <1> QED
    BY <1>1, <1>2, <1>3, <1>4 DEF Next

LEMMA CarriedStep ==
    ASSUME TypeInv, [Next]_vars
    PROVE  RequestInv' /\ SlotInv' /\ ChannelInv'
  <1> USE DEF TypeInv
  <1>1. CASE UNCHANGED <<req, slot, retryCh, pauses>>
    BY <1>1 DEF RequestInv, SlotInv, ChannelInv
  <1>2. ASSUME NEW e \in Executions, StorePause(e) \/ Cleanup(e)
        PROVE  RequestInv' /\ SlotInv' /\ ChannelInv'
    BY <1>2 DEF StorePause, Cleanup, RequestInv, SlotInv, ChannelInv
  <1>3. ASSUME NEW e \in Executions, Resume(e)
        PROVE  RequestInv' /\ SlotInv' /\ ChannelInv'
    <2>1. UNCHANGED <<req, retryCh, pauses>>
      BY <1>3 DEF Resume, fields
    <2>2. \A k \in Channels : slot'[k] = slot[k] \/ slot'[k] = None
      BY <1>3 DEF Resume, TypeOK
    <2> QED
      BY <2>1, <2>2 DEF RequestInv, SlotInv, ChannelInv
  <1>4. ASSUME NEW c \in Clients, RequestStep(c)
        PROVE  RequestInv' /\ SlotInv' /\ ChannelInv'
    <2>1. UNCHANGED <<retryCh, pauses>>
      BY <1>4 DEF RequestStep, ExecuteCheck, ExecuteStart, CancelRead, CancelCall,
         CancelPublish, RetryRead, ReplanRead, ReadPause, RetryCheck, RetrySend,
         ReplanCheck, PlannerAnswers, PlannerFails, ReplanAdopt, ReplanSend, Send,
         fields, execution
    <2>2. ASSUME NEW r, req' = [req EXCEPT ![c] = r], Carries(r)
          PROVE  RequestInv'
      BY <2>2 DEF RequestInv, TypeOK
    <2>0. Carries(NoRequest) /\ Carries(req[c]) /\ req[c] \in Requests
      BY DEF Carries, NoRequest, RequestInv, TypeOK
    <2>3. CASE RetrySend(c) \/ ReplanSend(c)
      <3>1. PICK action \in {"retry", "replan"} :
                /\ Send(c, action)
                /\ action = "replan" => At(c, "send replan")
                /\ At(c, "send retry") \/ At(c, "send replan")
        BY <2>3 DEF RetrySend, ReplanSend
      <3>2. /\ req[c].ch # None /\ req[c].seen = req[c].ch
            /\ action = "replan" => req[c].steps # NoDef
        BY <2>0, <3>1 DEF Carries, At
      <3>3. \A k \in Channels : \/ slot'[k] = slot[k]
                                \/ /\ slot'[k].seen = k
                                   /\ slot'[k].action = "replan" => slot'[k].steps # NoDef
        BY <3>1, <3>2 DEF Send, TypeOK
      <3>4. RequestInv'
        BY <2>0, <2>2, <3>1 DEF Send, Answer
      <3> QED
        BY <2>1, <3>3, <3>4 DEF SlotInv, ChannelInv
    <2>4. CASE ~(RetrySend(c) \/ ReplanSend(c))
      <3>1. UNCHANGED slot
        BY <1>4, <2>4 DEF RequestStep, ExecuteCheck, ExecuteStart, CancelRead, CancelCall,
           CancelPublish, RetryRead, ReplanRead, ReadPause, RetryCheck, ReplanCheck,
           PlannerAnswers, PlannerFails, ReplanAdopt
      <3> SUFFICES RequestInv'
        BY <2>1, <3>1 DEF SlotInv, ChannelInv
      <3>2. CASE ExecuteCheck(c)
        <4>1. Carries([NoRequest EXCEPT !.pc = "start", !.def = currentDef])
          BY <3>2 DEF ExecuteCheck, NoRequest, Carries
        <4> QED
          BY <2>2, <3>2, <4>1 DEF ExecuteCheck
      <3>3. CASE ExecuteStart(c) \/ CancelPublish(c) \/ PlannerFails(c)
        BY <2>0, <2>2, <3>3 DEF ExecuteStart, CancelPublish, PlannerFails, Answer
      <3>4. CASE CancelRead(c) \/ CancelCall(c)
        <4>1. /\ Carries([NoRequest EXCEPT !.pc = "cancel", !.exec = execCancel])
              /\ Carries([NoRequest EXCEPT !.pc = "tell"])
          BY DEF NoRequest, Carries
        <4> QED
          BY <2>2, <3>4, <4>1 DEF CancelRead, CancelCall
      <3>5. ASSUME NEW next \in {"retry", "replan"}, NEW steps, ReadPause(c, next, steps)
            PROVE  RequestInv'
        <4>1. Carries([pc |-> next, exec |-> execState, ch |-> retryCh, def |-> currentDef,
                       seen |-> pauses, steps |-> steps])
          BY <3>5 DEF ReadPause, Carries, ChannelInv
        <4> QED
          BY <2>2, <3>5, <4>1 DEF ReadPause
      <3>6. CASE RetryCheck(c)
        <4>1. At(c, "retry") => Carries([req[c] EXCEPT !.pc = "send retry"])
          BY <2>0 DEF Carries, At, Requests
        <4> QED
          BY <2>0, <2>2, <3>6, <4>1 DEF RetryCheck, Answer, TypeOK
      <3>7. CASE ReplanCheck(c)
        <4>1. At(c, "replan") => \A A : Carries([req[c] EXCEPT !.pc = "plan", !.steps = A])
          BY <2>0 DEF Carries, At, Requests
        <4>2. \/ req' = [req EXCEPT ![c] = NoRequest]
              \/ \E A : req' = [req EXCEPT ![c] = [req[c] EXCEPT !.pc = "plan", !.steps = A]]
          BY <3>7 DEF ReplanCheck, Answer, TypeOK
        <4> QED
          BY <2>0, <2>2, <3>7, <4>1, <4>2 DEF ReplanCheck
      <3>8. CASE PlannerAnswers(c)
        <4>1. PICK new \in Replacements :
                 req' = [req EXCEPT ![c] = [req[c] EXCEPT
                           !.pc = "adopt", !.steps = (req[c].def \ req[c].steps) \cup new]]
          BY <3>8 DEF PlannerAnswers, TypeOK
        <4>2. Carries([req[c] EXCEPT !.pc = "adopt",
                                     !.steps = (req[c].def \ req[c].steps) \cup new])
          <5>1. new # {} /\ req[c].pc = "plan"
            BY <3>8, <4>1 DEF Replacements, PlannerAnswers, At
          <5> HIDE DEF Requests
          <5>2. req[c].ch # None /\ req[c].seen = req[c].ch
            BY <2>0, <5>1 DEF Carries
          <5> QED
            BY <2>0, <5>1, <5>2 DEF Carries, Requests, NoDef
        <4> QED
          BY <2>2, <4>1, <4>2
      <3>9. CASE ReplanAdopt(c)
        <4>1. At(c, "adopt") => Carries([req[c] EXCEPT !.pc = "send replan"])
          BY <2>0 DEF Carries, At, Requests
        <4> QED
          BY <2>2, <3>9, <4>1 DEF ReplanAdopt, TypeOK
      <3>10. CASE RetryRead(c) \/ ReplanRead(c)
        BY <3>5, <3>10 DEF RetryRead, ReplanRead
      <3> QED
        BY <1>4, <2>4, <3>2, <3>3, <3>4, <3>6, <3>7, <3>8, <3>9, <3>10 DEF RequestStep
    <2> QED
      BY <2>3, <2>4
  <1> QED
    BY <1>1, <1>2, <1>3, <1>4, Carriers

LEMMA TypeStep == TypeInv /\ [Next]_vars => TypeInv'
  <1> SUFFICES ASSUME TypeInv, [Next]_vars PROVE TypeInv'
    OBVIOUS
  <1>1. TypeOK'
    <2>1. \A c \in scope.clients : c \in Clients
      BY ScopeBounds DEF TypeInv, TypeOK
    <2>2. CASE UNCHANGED vars
      BY <2>2 DEF TypeInv, TypeOK, Alive, vars, fields, execution, work, around
    <2> QED
      BY <2>1, <2>2, ExecutionTypes, RequestTypes, OtherTypes DEF Next
  <1> QED
    BY <1>1, CarriedStep DEF TypeInv

(* The variables stay in their types, whoever sends which requests; what an *)
(* execution executes is never the absent plan.                             *)
THEOREM TypeCorrect == Spec => []TypeOK
  <1>1. TypeInv => TypeOK
    BY DEF TypeInv
  <1> QED
    BY <1>1, TypeInit, TypeStep, PTL DEF Spec
-----------------------------------------------------------------------------
(* One request at a time that starts executions *)

(* Only these touch the fields, or move an execution or a request to start. *)
LEMMA Quiet ==
    ASSUME TypeInv, [Next]_vars
    PROVE  \/ UNCHANGED <<execCancel, execState, retryCh, epc, sel, req>>
           \/ \E e \in Executions : ExecutionStep(e)
           \/ \E c \in Clients : ExecuteCheck(c) \/ ExecuteStart(c)
           \/ /\ UNCHANGED <<execCancel, execState, retryCh, epc, sel>>
              /\ \A c \in Clients : At(c, "start")' => At(c, "start")
  <1>1. \A c \in scope.clients : c \in Clients
    BY ScopeBounds DEF TypeInv, TypeOK
  <1>2. ASSUME NEW e \in Executions, Timeout(e)
        PROVE  UNCHANGED <<execCancel, execState, retryCh, epc, sel, req>>
    BY <1>2 DEF Timeout, fields
  <1>3. ASSUME NEW e \in Executions, NEW s \in StepIds, SubmitApproval(e, s)
        PROVE  UNCHANGED <<execCancel, execState, retryCh, epc, sel, req>>
    BY <1>3 DEF SubmitApproval, fields
  <1>4. HandleApprove \/ Generate \/ UpdatePlan \/ ReaderSubscribes
        \/ ReaderFallsBehind \/ ReaderCatchesUp \/ ReaderLeaves
        \/ UNCHANGED vars => UNCHANGED <<execCancel, execState, retryCh, epc, sel, req>>
    BY DEF HandleApprove, Generate, UpdatePlan, ReaderSubscribes, ReaderFallsBehind,
       ReaderCatchesUp, ReaderLeaves, vars, fields, execution
  <1>5. ASSUME NEW c \in Clients, RequestStep(c), ~ExecuteCheck(c), ~ExecuteStart(c)
        PROVE  /\ UNCHANGED <<execCancel, execState, retryCh, epc, sel>>
               /\ \A d \in Clients : At(d, "start")' => At(d, "start")
    <2>1. UNCHANGED <<execCancel, execState, retryCh, epc, sel>>
      BY <1>5 DEF RequestStep, CancelRead, CancelCall, CancelPublish, RetryRead,
         ReplanRead, ReadPause, RetryCheck, RetrySend, ReplanCheck, PlannerAnswers,
         PlannerFails, ReplanAdopt, ReplanSend, Send, fields, execution
    <2> SUFFICES \A d \in Clients : At(d, "start")' => At(d, "start")
      BY <2>1
    <2>2. ASSUME NEW r, req' = [req EXCEPT ![c] = r], r.pc # "start"
          PROVE  \A d \in Clients : At(d, "start")' => At(d, "start")
      BY <2>2 DEF At, TypeInv, TypeOK
    <2>3. NoRequest.pc # "start"
      BY DEF NoRequest
    <2>4. CASE CancelPublish(c) \/ PlannerFails(c) \/ RetrySend(c) \/ ReplanSend(c)
      BY <2>2, <2>3, <2>4 DEF CancelPublish, PlannerFails, RetrySend, ReplanSend, Send, Answer
    <2>5. CASE CancelRead(c)
      <3>1. [NoRequest EXCEPT !.pc = "cancel", !.exec = execCancel].pc # "start"
        BY DEF NoRequest
      <3> QED
        BY <2>2, <2>5, <3>1 DEF CancelRead
    <2>6. CASE CancelCall(c)
      <3>1. [NoRequest EXCEPT !.pc = "tell"].pc # "start"
        BY DEF NoRequest
      <3> QED
        BY <2>2, <2>6, <3>1 DEF CancelCall
    <2>7. CASE RetryRead(c) \/ ReplanRead(c)
      <3>1. ASSUME NEW next \in {"retry", "replan"}, NEW steps, ReadPause(c, next, steps)
            PROVE  \A d \in Clients : At(d, "start")' => At(d, "start")
        <4>1. [pc |-> next, exec |-> execState, ch |-> retryCh, def |-> currentDef,
               seen |-> pauses, steps |-> steps].pc # "start"
          OBVIOUS
        <4> QED
          BY <2>2, <3>1, <4>1 DEF ReadPause
      <3> QED
        BY <2>7, <3>1 DEF RetryRead, ReplanRead
    <2>8. CASE RetryCheck(c) \/ ReplanCheck(c) \/ PlannerAnswers(c) \/ ReplanAdopt(c)
      <3>1. \A d \in Clients \ {c} : req'[d] = req[d]
        BY <2>8 DEF RetryCheck, ReplanCheck, PlannerAnswers, ReplanAdopt, Answer, TypeInv,
           TypeOK
      <3>2. req'[c].pc # "start"
        <4>1. req[c] \in Requests
          BY DEF TypeInv, TypeOK
        <4>2. CASE req' = [req EXCEPT ![c] = NoRequest]
          BY <2>3, <4>2 DEF TypeInv, TypeOK
        <4>3. CASE RetryCheck(c) /\ req' = [req EXCEPT ![c].pc = "send retry"]
          BY <4>1, <4>3 DEF TypeInv, TypeOK, Requests
        <4>4. ASSUME NEW pc \in {"plan", "adopt"}, NEW A,
                     req' = [req EXCEPT ![c] = [req[c] EXCEPT !.pc = pc, !.steps = A]]
              PROVE  req'[c].pc # "start"
          <5>1. [req[c] EXCEPT !.pc = pc, !.steps = A].pc = pc
            BY <4>1 DEF Requests
          <5> QED
            BY <4>4, <5>1 DEF TypeInv, TypeOK
        <4>5. CASE PlannerAnswers(c)
          BY <4>4, <4>5 DEF PlannerAnswers, TypeInv, TypeOK
        <4>7. CASE ReplanCheck(c) /\ req' # [req EXCEPT ![c] = NoRequest]
          BY <4>4, <4>7 DEF ReplanCheck, Answer, TypeInv, TypeOK
        <4>6. CASE ReplanAdopt(c)
          BY <4>1, <4>6 DEF ReplanAdopt, TypeInv, TypeOK, Requests
        <4> QED
          BY <2>8, <4>2, <4>3, <4>5, <4>6, <4>7 DEF RetryCheck, Answer
      <3> QED
        BY <3>1, <3>2 DEF At
    <2> QED
      BY <1>5, <2>1, <2>4, <2>5, <2>6, <2>7, <2>8 DEF RequestStep
  <1> QED
    BY <1>1, <1>2, <1>3, <1>4, <1>5 DEF Next

LEMMA SessionInit == Init => IInv
  BY TypeInit DEF Init, IInv, StartInv, FieldsTellTheTruth, PauseInv, AnswerReachable, Alive,
     At, NoRequest

LEMMA SessionStep == OneStarter /\ IInv /\ [Next]_vars => IInv'
  <1> SUFFICES ASSUME OneStarter, IInv, [Next]_vars
               PROVE  StartInv' /\ FieldsTellTheTruth' /\ PauseInv' /\ AnswerReachable'
    BY TypeStep DEF IInv
  <1> USE DEF IInv
  <1>1. CASE UNCHANGED <<execCancel, execState, retryCh, epc, sel, req>>
    BY <1>1 DEF StartInv, FieldsTellTheTruth, PauseInv, AnswerReachable, Alive, At, running
  <1>2. CASE /\ UNCHANGED <<execCancel, execState, retryCh, epc, sel>>
             /\ \A c \in Clients : At(c, "start")' => At(c, "start")
    BY <1>2 DEF StartInv, FieldsTellTheTruth, PauseInv, AnswerReachable, Alive, running
  <1>3. ASSUME NEW c \in Clients, ExecuteCheck(c)
        PROVE  StartInv' /\ FieldsTellTheTruth' /\ PauseInv' /\ AnswerReachable'
    <2>1. UNCHANGED <<execCancel, execState, retryCh, epc, sel>>
      BY <1>3 DEF ExecuteCheck, fields, execution
    <2>2. \A d \in Clients \ {c} : req'[d] = req[d]
      BY <1>3 DEF ExecuteCheck, TypeInv, TypeOK
    <2>3. c \in Starters /\ ~running
      BY <1>3 DEF ExecuteCheck
    <2> QED
      BY <2>1, <2>2, <2>3 DEF StartInv, FieldsTellTheTruth, PauseInv, AnswerReachable,
         Alive, At, running
  <1>4. ASSUME NEW c \in Clients, ExecuteStart(c)
        PROVE  StartInv' /\ FieldsTellTheTruth' /\ PauseInv' /\ AnswerReachable'
    <2> DEFINE e == started + 1
    <2>1. e \in Executions /\ epc[e] = "none"
      BY <1>4, ScopeBounds DEF ExecuteStart, TypeInv, TypeOK, Executions
    <2>2. /\ execCancel' = e /\ epc' = [epc EXCEPT ![e] = "begin"]
          /\ UNCHANGED <<execState, retryCh, sel>>
      BY <1>4 DEF ExecuteStart, Goto
    <2>3. ~running /\ \A d \in Executions : ~Alive(d)
      BY <1>4 DEF ExecuteStart, StartInv, FieldsTellTheTruth, running
    <2>4. \A d \in Clients : ~At(d, "start")'
      <3>1. \A d \in Clients \ {c} : req'[d] = req[d] /\ ~At(d, "start")
        BY <1>4 DEF ExecuteStart, Answer, StartInv, OneStarter, TypeInv, TypeOK
      <3>2. req'[c].pc = "idle"
        BY <1>4 DEF ExecuteStart, Answer, NoRequest, TypeInv, TypeOK
      <3> QED
        BY <3>1, <3>2 DEF At
    <2> HIDE DEF e
    <2>5. /\ epc'[e] = "begin"
          /\ \A d \in Executions \ {e} : epc'[d] = epc[d]
      BY <2>1, <2>2 DEF TypeInv, TypeOK
    <2>6. FieldsTellTheTruth'
      BY <2>1, <2>2, <2>3, <2>5 DEF FieldsTellTheTruth, Alive, TypeInv, TypeOK
    <2>7. PauseInv' /\ AnswerReachable'
      BY <2>2, <2>5 DEF PauseInv, AnswerReachable
    <2> QED
      BY <2>4, <2>6, <2>7 DEF StartInv
  <1>5. ASSUME NEW e \in Executions, ExecutionStep(e)
        PROVE  StartInv' /\ FieldsTellTheTruth' /\ PauseInv' /\ AnswerReachable'
    <2>1. /\ Alive(e) /\ execCancel = e
          /\ \A d \in Executions \ {e} : epc[d] \in {"none", "end"}
          /\ execState \in {None, e}
      <3>1. Alive(e)
        BY <1>5 DEF ExecutionStep, Begin, EndStep, PublishWaiting, FinishDone,
           FinishCancelled, StorePause, EnterSelect, Resume, WaitCancelled, Cleanup,
           NothingRuns, BatchesOver, Alive
      <3> QED
        BY <3>1 DEF FieldsTellTheTruth, Alive, TypeInv, TypeOK
    <2>2. UNCHANGED req
      BY <1>5 DEF ExecutionStep, Begin, EndStep, PublishWaiting, FinishDone,
         FinishCancelled, StorePause, EnterSelect, Resume, WaitCancelled, Cleanup
    <2>3. \A d \in Clients : ~At(d, "start")
      BY <2>1 DEF StartInv, running
    <2>4. StartInv'
      BY <2>2, <2>3 DEF StartInv, At
    <2>5. \A d \in Executions \ {e} : epc'[d] = epc[d]
      BY <1>5 DEF ExecutionStep, Begin, EndStep, PublishWaiting, FinishDone,
         FinishCancelled, StorePause, EnterSelect, Resume, WaitCancelled, Cleanup, Goto,
         TypeInv, TypeOK
    <2>6. \A d \in Executions \ {e} : epc'[d] \in {"none", "end"}
      BY <2>1, <2>5
    <2>7. CASE Cleanup(e)
      <3>1. execCancel' = None /\ execState' = None /\ epc'[e] = "end"
        BY <2>7 DEF Cleanup, Goto, TypeInv, TypeOK
      <3> QED
        BY <2>4, <2>6, <3>1 DEF FieldsTellTheTruth, PauseInv, AnswerReachable, Alive
    <2>8. CASE StorePause(e)
      <3>1. /\ execCancel' = execCancel /\ execState' = e /\ epc'[e] = "select"
            /\ retryCh' # None
        BY <2>8, ScopeBounds DEF StorePause, Goto, TypeInv, TypeOK, Channels
      <3>2. FieldsTellTheTruth'
        BY <2>1, <2>6, <3>1 DEF FieldsTellTheTruth, Alive
      <3> QED
        BY <2>4, <2>6, <3>1, <3>2 DEF PauseInv, AnswerReachable
    <2>9. CASE EnterSelect(e)
      <3>1. /\ UNCHANGED <<execCancel, execState, retryCh>>
            /\ epc'[e] = "wait" /\ sel'[e] = retryCh /\ retryCh # None
        BY <2>9 DEF EnterSelect, Goto, fields, PauseInv, TypeInv, TypeOK
      <3>2. FieldsTellTheTruth'
        BY <2>1, <2>6, <3>1 DEF FieldsTellTheTruth, Alive
      <3> QED
        BY <2>4, <2>6, <3>1, <3>2 DEF PauseInv, AnswerReachable
    <2>10. CASE \/ Begin(e) \/ PublishWaiting(e) \/ FinishDone(e) \/ FinishCancelled(e)
                \/ Resume(e) \/ WaitCancelled(e) \/ \E s \in StepIds : EndStep(e, s)
      <3>1. /\ UNCHANGED <<execCancel, execState>>
            /\ epc'[e] \in {"run", "begin", "store", "cleanup"}
        BY <2>10 DEF Begin, EndStep, PublishWaiting, FinishDone, FinishCancelled, Resume,
           WaitCancelled, Goto, fields, TypeInv, TypeOK
      <3>2. FieldsTellTheTruth'
        BY <2>1, <2>6, <3>1 DEF FieldsTellTheTruth, Alive
      <3> QED
        BY <2>4, <2>6, <3>1, <3>2 DEF PauseInv, AnswerReachable
    <2> QED
      BY <1>5, <2>7, <2>8, <2>9, <2>10 DEF ExecutionStep
  <1> QED
    BY <1>1, <1>2, <1>3, <1>4, <1>5, Quiet

LEMMA SessionInvariance == OneStarter => (Spec => []IInv)
  <1>1. CASE OneStarter
    <2>1. IInv /\ [Next]_vars => IInv'
      BY <1>1, SessionStep
    <2> QED
      BY <2>1, SessionInit, PTL DEF Spec
  <1> QED
    BY <1>1

-----------------------------------------------------------------------------
(* The results, for sessions where one request at a time starts executions. *)

(* The fields of the session name the execution whose goroutine lives, and  *)
(* none when there is none: the janitor, the edits and cancel can rely on   *)
(* them.                                                                    *)
THEOREM Truthful == OneStarter => (Spec => []FieldsTellTheTruth)
  <1>1. IInv => FieldsTellTheTruth
    BY DEF IInv
  <1> QED
    BY <1>1, SessionInvariance, PTL

(* "plan is already executing" (plan_handler.go:245) is the truth then: no  *)
(* second execution begins while one lives.                                 *)
THEOREM OneAtATime == OneStarter => (Spec => []OneExecution)
  <1>1. IInv => OneExecution
    BY DEF IInv, FieldsTellTheTruth, OneExecution
  <1> QED
    BY <1>1, SessionInvariance, PTL

(* The requests find the very channel that a paused execution waits on.     *)
THEOREM Reachable == OneStarter => (Spec => []AnswerReachable)
  <1>1. IInv => AnswerReachable
    BY DEF IInv
  <1> QED
    BY <1>1, SessionInvariance, PTL

(* An execution resumes with an answer to the pause it is in, never with    *)
(* one that was sent for an earlier pause.                                  *)
THEOREM NothingStale == OneStarter => (Spec => NoStaleResume)
  <1>1. ASSUME IInv PROVE \A e \in Executions : Resume(e) => slot[sel[e]].seen = pauses
    <2> SUFFICES ASSUME NEW e \in Executions, Resume(e) PROVE slot[sel[e]].seen = pauses
      OBVIOUS
    <2>1. epc[e] = "wait" /\ sel[e] # None /\ slot[sel[e]] # None
      BY DEF Resume
    <2>2. sel[e] = retryCh /\ sel[e] \in Channels
      BY <1>1, <2>1 DEF IInv, AnswerReachable, TypeInv, TypeOK
    <2> QED
      BY <1>1, <2>1, <2>2 DEF IInv, TypeInv, ChannelInv, SlotInv
  <1>2. IInv => [\A e \in Executions : Resume(e) => slot[sel[e]].seen = pauses]_vars
    BY <1>1
  <1> QED
    BY <1>2, SessionInvariance, PTL DEF NoStaleResume
=============================================================================
