-------------------------- MODULE ACPRunnerProofs --------------------------
(***************************************************************************)
(* Proofs about ACPRunner, for every set of runs and members, every room   *)
(* in the channels and all scenarios that ACPRunnerAssumption allows.      *)
(***************************************************************************)
EXTENDS ACPRunner, TLAPS

-----------------------------------------------------------------------------
(* The inductive invariant *)

(* The agent has a prompt only of a run that has sent it, and has sent      *)
(* nothing for another.                                                     *)
Before == {"none", "begin", "take", "set", "prompt"}

Quiet ==
    \A r \in Runs :
        /\ pc[r] \in Before => agent[r] = "idle"
        /\ agent[r] = "idle" => ~OnWire(r) /\ due[r] = <<>>

(* Nothing for a prompt comes behind the reply.                             *)
RepliesLast ==
    \A i \in 1..Len(wire) :
        wire[i].is \in Replies =>
            /\ agent[wire[i].of] = "done"
            /\ \A j \in (i + 1)..Len(wire) : wire[j].of # wire[i].of

(* The agent is done with a run that has its reply.                         *)
EndInv ==
    \A r \in Runs :
        /\ ended[r] # "none" => pc[r] = "end"
        /\ pc[r] = "result" \/ ended[r] = "done" => agent[r] = "done" /\ ~OnWire(r)

(* What the agent is not done with has a run that waits, or was given up.   *)
LostInv == ~lost => \A r \in Runs : Unfinished(r) => pc[r] = "wait"

(* The updates on their way take a collector from c to d, one by one.       *)
Took(c, u) == IF u.is \in Kinds THEN c \o Items(c, u) ELSE c

Leads(c, w, d) ==
    \E st \in [0..Len(w) -> Seq(Item)] :
        /\ st[0] = c
        /\ st[Len(w)] = d
        /\ \A i \in 1..Len(w) : st[i] = Took(st[i - 1], w[i])

(* As long as runs do not cross, there is one at a time, and the callback,  *)
(* the handler and the updates are its own.                                 *)
Busy(r) == InProgress(r) \/ Unfinished(r)

Alone == \A r, s \in Runs : Busy(r) /\ Busy(s) => r = s

Theirs(r) ==
    /\ Busy(r) => hook = r
    /\ pc[r] \in {"prompt", "wait", "result"} \/ Unfinished(r) => handler = r
    /\ handoffs[r] \subseteq {r}
    /\ pc[r] \in Before => collected[r] = <<>>
    /\ pc[r] = "wait" => Leads(collected[r], wire, due[r])
    /\ pc[r] = "result" \/ ended[r] = "done" => collected[r] = due[r]

OrderInv == ~crossed => Alone /\ \A r \in Runs : Theirs(r)

WireInv == Quiet /\ RepliesLast /\ EndInv /\ LostInv

-----------------------------------------------------------------------------
(* Types *)

USE ACPRunnerAssumption

(* What a handler makes of an update can be collected.                      *)
LEMMA ItemsTypes ==
    ASSUME NEW c \in Seq(Item), NEW u \in Update
    PROVE  Items(c, u) \in Seq(Item)
  <1> DEFINE text == [of |-> u.of, is |-> "text"]
             asked == [of |-> u.of, is |-> "call"]
             result == [of |-> u.of, is |-> "result"]
  <1>1. text \in Item /\ asked \in Item /\ result \in Item
    BY DEF Update, Item
  <1>2. OnToolCall(c, u) =
            (IF \E i \in 1..Len(c) : c[i] = asked THEN <<>> ELSE <<asked>>)
            \o (IF u.is = "output" THEN <<result>> ELSE <<>>)
    BY DEF OnToolCall
  <1>3. Items(c, u) \in {<<text>>, <<>>, OnToolCall(c, u)}
    BY DEF Items
  <1> HIDE DEF text, asked, result
  <1>4. OnToolCall(c, u) \in Seq(Item)
    BY <1>1, <1>2
  <1>5. <<text>> \in Seq(Item) /\ <<>> \in Seq(Item)
    BY <1>1
  <1> QED
    BY <1>3, <1>4, <1>5

(* TypeOK by the groups of variables that steps leave alone.                *)
LinkOK ==
    /\ setup \in {"none", "serving", "connected", "initializing", "initialized", "opening",
                  "ready", "failed"}
    /\ process \in {"none", "alive", "dead"}
    /\ mcp \in BOOLEAN /\ closed \in BOOLEAN /\ session \in BOOLEAN
    /\ closer \in {"none", "begun", "telling", "killing", "stopping", "over"}

MemberOK ==
    /\ tools \subseteq Others /\ changes \in Nat /\ halted \in BOOLEAN
    /\ hook \in Runs \cup {None} /\ final \in BOOLEAN

Places == {"none", "begin", "take", "set", "prompt", "wait", "result", "end", "over"}

CallOK ==
    /\ pc \in [Runs -> Places]
    /\ cancelled \in [Runs -> BOOLEAN]
    /\ stop \in [Runs -> Reasons \cup {None}]
    /\ ended \in [Runs -> {"none", "done", "error"}]
    /\ handler \in Runs \cup {None}

EventsOK ==
    /\ buffer \in [Runs -> 0..Cap] /\ left \in [Runs -> BOOLEAN]
    /\ collected \in [Runs -> Seq(Item)]
    /\ handoffs \in [Runs -> SUBSET Runs]
    /\ panicked \in BOOLEAN

RemoteOK ==
    /\ agent \in [Runs -> {"idle", "works", "done"}]
    /\ due \in [Runs -> Seq(Item)]
    /\ sends \in Nat
    /\ wire \in Seq(Update \cup Reply)

PastOK == crossed \in BOOLEAN /\ lost \in BOOLEAN /\ faults \in Nat

LEMMA Groups ==
    /\ TypeOK <=> LinkOK /\ MemberOK /\ CallOK /\ EventsOK /\ RemoteOK /\ PastOK
    /\ TypeOK' <=> LinkOK' /\ MemberOK' /\ CallOK' /\ EventsOK' /\ RemoteOK' /\ PastOK'
  <1>1. TypeOK <=> LinkOK /\ MemberOK /\ CallOK /\ EventsOK /\ RemoteOK /\ PastOK
    <2>1. {sends, changes, faults} \subseteq Nat <=> sends \in Nat /\ changes \in Nat
                                                    /\ faults \in Nat
      OBVIOUS
    <2> QED
      BY <2>1, Zenon DEF TypeOK, LinkOK, MemberOK, CallOK, EventsOK, RemoteOK, PastOK, Places
  <1>2. TypeOK' <=> LinkOK' /\ MemberOK' /\ CallOK' /\ EventsOK' /\ RemoteOK' /\ PastOK'
    <2>1. {sends', changes', faults'} \subseteq Nat <=> sends' \in Nat /\ changes' \in Nat
                                                       /\ faults' \in Nat
      OBVIOUS
    <2> QED
      BY <2>1, Zenon DEF TypeOK, LinkOK, MemberOK, CallOK, EventsOK, RemoteOK, PastOK, Places
  <1> QED
    BY <1>1, <1>2

LEMMA Frames ==
    ASSUME TypeOK
    PROVE  /\ UNCHANGED link => LinkOK'
           /\ UNCHANGED member => MemberOK'
           /\ UNCHANGED call => CallOK'
           /\ UNCHANGED events => EventsOK'
           /\ UNCHANGED remote => RemoteOK'
           /\ UNCHANGED past => PastOK'
  <1>1. UNCHANGED link => LinkOK'
    BY Groups DEF link, LinkOK
  <1>2. UNCHANGED member => MemberOK'
    BY Groups DEF member, MemberOK
  <1>3. UNCHANGED call => CallOK'
    BY Groups DEF call, CallOK
  <1>4. UNCHANGED events => EventsOK'
    BY Groups DEF events, EventsOK
  <1>5. UNCHANGED remote => RemoteOK'
    BY Groups DEF remote, RemoteOK
  <1>6. UNCHANGED past => PastOK'
    BY Groups DEF past, PastOK
  <1> QED
    BY <1>1, <1>2, <1>3, <1>4, <1>5, <1>6

LEMMA TypeInit == Init => TypeOK
  <1> SUFFICES ASSUME Init PROVE TypeOK
    OBVIOUS
  <1>1. PICK s \in Scenarios :
          /\ pc = [r \in Runs |-> IF r \in s.runs THEN "none" ELSE "over"]
          /\ sends = s.sends /\ changes = s.changes /\ faults = s.faults
    BY DEF Init
  <1>2. sends \in Nat /\ changes \in Nat /\ faults \in Nat
    BY <1>1
  <1>3. LinkOK
    BY DEF Init, LinkOK
  <1>4. MemberOK
    BY <1>2 DEF Init, MemberOK
  <1>5. CallOK
    BY <1>1 DEF Init, CallOK, Places
  <1>6. EventsOK
    <2>1. <<>> \in Seq(Item) /\ 0 \in 0..Cap /\ {} \in SUBSET Runs
      OBVIOUS
    <2>2. collected \in [Runs -> Seq(Item)]
      BY <2>1 DEF Init
    <2> QED
      BY <2>1, <2>2 DEF Init, EventsOK
  <1>7. RemoteOK
    BY <1>2 DEF Init, RemoteOK
  <1>8. PastOK
    BY <1>2 DEF Init, PastOK
  <1> QED
    BY <1>3, <1>4, <1>5, <1>6, <1>7, <1>8, Groups

(* A step of the connection, of Close or of the team's list.                *)
LEMMA LinkTypes ==
    ASSUME TypeOK, New \/ Close \/ CloseStep \/ ProcessDies \/ SyncMCPServerTools
    PROVE  TypeOK'
  <1>0. LinkOK /\ MemberOK /\ RemoteOK /\ PastOK
    BY Groups
  <1>1. CASE New
    <2>1. LinkOK'
      BY <1>0, <1>1 DEF New, StartMCPServer, ConnectStdio, Initialize, AgentInitializes,
                        NewSession, AgentOpensSession, HandshakeFails, LinkOK
    <2>2. UNCHANGED member /\ UNCHANGED call /\ UNCHANGED events /\ UNCHANGED remote
          /\ UNCHANGED past
      BY <1>1 DEF New, StartMCPServer, ConnectStdio, Initialize, AgentInitializes, NewSession,
                  AgentOpensSession, HandshakeFails
    <2> QED
      BY <2>1, <2>2, Frames, Groups
  <1>2. CASE Close
    <2>1. LinkOK' /\ PastOK'
      BY <1>0, <1>2 DEF Close, Fault, LinkOK, PastOK
    <2> QED
      BY <1>2, <2>1, Frames, Groups DEF Close
  <1>3. CASE DropSession \/ CloseSession \/ StopMCPServer
    <2>1. LinkOK'
      BY <1>0, <1>3 DEF DropSession, CloseSession, StopMCPServer, LinkOK
    <2> QED
      BY <1>3, <2>1, Frames, Groups DEF DropSession, CloseSession, StopMCPServer
  <1>4. CASE KillProcess
    <2>1. LinkOK' /\ RemoteOK'
      BY <1>0, <1>4 DEF KillProcess, Ends, LinkOK, RemoteOK
    <2> QED
      BY <1>4, <2>1, Frames, Groups DEF KillProcess
  <1>5. CASE ProcessDies
    <2>1. LinkOK' /\ RemoteOK' /\ PastOK'
      BY <1>0, <1>5 DEF ProcessDies, Ends, Fault, LinkOK, RemoteOK, PastOK
    <2> QED
      BY <1>5, <2>1, Frames, Groups DEF ProcessDies
  <1>6. CASE SyncMCPServerTools
    <2>1. MemberOK'
      BY <1>0, <1>6 DEF SyncMCPServerTools, MemberOK
    <2> QED
      BY <1>6, <2>1, Frames, Groups DEF SyncMCPServerTools
  <1> QED
    BY <1>1, <1>2, <1>3, <1>4, <1>5, <1>6 DEF CloseStep

LEMMA FailTypes ==
    ASSUME TypeOK, NEW r \in Runs, Fail(r) \/ Pass(r, "take") \/ Pass(r, "set")
                                   \/ Pass(r, "prompt") \/ Pass(r, "wait")
    PROVE  /\ pc' \in [Runs -> Places]
           /\ ended' \in [Runs -> {"none", "done", "error"}]
           /\ lost' \in BOOLEAN
  <1>1. CallOK /\ PastOK
    BY Groups
  <1>2. CASE Fail(r)
    BY <1>1, <1>2 DEF Fail, Go, CallOK, PastOK, Places, Unfinished, OnWire
  <1>3. CASE Pass(r, "take") \/ Pass(r, "set") \/ Pass(r, "prompt") \/ Pass(r, "wait")
    BY <1>1, <1>3 DEF Pass, Go, CallOK, PastOK, Places
  <1> QED
    BY <1>2, <1>3

LEMMA RunTypes ==
    ASSUME TypeOK, NEW r \in Runs, PrepareForTeam(r) \/ RunStep(r) \/ Cancel(r) \/ TakeEvent(r)
    PROVE  TypeOK'
  <1>0. MemberOK /\ CallOK /\ EventsOK /\ RemoteOK /\ PastOK
    BY Groups
  <1>1. CASE PrepareForTeam(r)
    <2>1. MemberOK'
      BY <1>0, <1>1 DEF PrepareForTeam, MemberOK
    <2>2. CallOK'
      BY <1>0, <1>1 DEF PrepareForTeam, Go, CallOK, Places
    <2>3. PastOK'
      BY <1>0, <1>1 DEF PrepareForTeam, PastOK, InProgress, Unfinished, OnWire
    <2> QED
      BY <1>1, <2>1, <2>2, <2>3, Frames, Groups DEF PrepareForTeam
  <1>2. CASE CheckOpen(r)
    <2>1. CallOK' /\ PastOK'
      BY <1>0, <1>2, FailTypes DEF CheckOpen, CallOK, PastOK
    <2> QED
      BY <1>2, <2>1, Frames, Groups DEF CheckOpen
  <1>3. CASE TakeSession(r)
    <2>1. CallOK' /\ PastOK'
      BY <1>0, <1>3, FailTypes DEF TakeSession, CallOK, PastOK
    <2> QED
      BY <1>3, <2>1, Frames, Groups DEF TakeSession
  <1>4. CASE SetEventHandler(r)
    <2>1. CallOK' /\ PastOK'
      BY <1>0, <1>4, FailTypes DEF SetEventHandler, CallOK, PastOK
    <2> QED
      BY <1>4, <2>1, Frames, Groups DEF SetEventHandler
  <1>5. CASE Prompt(r)
    <2>1. CallOK' /\ PastOK'
      BY <1>0, <1>5, FailTypes DEF Prompt, CallOK, PastOK
    <2>2. RemoteOK'
      BY <1>0, <1>5 DEF Prompt, RemoteOK
    <2> QED
      BY <1>5, <2>1, <2>2, Frames, Groups DEF Prompt
  <1>6. CASE PromptFails(r)
    <2>1. CallOK' /\ PastOK'
      BY <1>0, <1>6, FailTypes DEF PromptFails, CallOK, PastOK
    <2> QED
      BY <1>6, <2>1, Frames, Groups DEF PromptFails
  <1>7. CASE CheckStopReason(r)
    <2>1. CallOK'
      BY <1>0, <1>7 DEF CheckStopReason, Go, CallOK, Places
    <2> QED
      BY <1>7, <2>1, Frames, Groups DEF CheckStopReason
  <1>8. CASE EndRun(r)
    <2>1. CallOK'
      BY <1>0, <1>8 DEF EndRun, Go, CallOK, Places
    <2>2. EventsOK'
      BY <1>0, <1>8 DEF EndRun, EventsOK
    <2>3. RemoteOK'
      BY <1>0, <1>8 DEF EndRun, RemoteOK
    <2> QED
      BY <1>8, <2>1, <2>2, <2>3, Frames, Groups DEF EndRun
  <1>9. CASE Cancel(r)
    <2>1. CallOK' /\ PastOK'
      BY <1>0, <1>9 DEF Cancel, Fault, CallOK, PastOK
    <2> QED
      BY <1>9, <2>1, Frames, Groups DEF Cancel
  <1>10. CASE TakeEvent(r)
    <2>1. EventsOK'
      BY <1>0, <1>10 DEF TakeEvent, EventsOK, CallOK
    <2> QED
      BY <1>10, <2>1, Frames, Groups DEF TakeEvent
  <1> QED
    BY <1>1, <1>2, <1>3, <1>4, <1>5, <1>6, <1>7, <1>8, <1>9, <1>10 DEF RunStep

LEMMA AgentTypes ==
    ASSUME TypeOK, NEW r \in Runs, AgentSends(r) \/ AgentReplies(r) \/ Transfer(r)
    PROVE  TypeOK'
  <1>0. EventsOK /\ RemoteOK
    BY Groups
  <1>1. CASE AgentSends(r)
    <2>1. PICK k \in Kinds :
            LET u == [of |-> r, is |-> k] IN
            /\ due' = [due EXCEPT ![r] = @ \o Items(@, u)]
            /\ wire' = Append(wire, u)
      BY <1>1 DEF AgentSends
    <2> DEFINE u == [of |-> r, is |-> k]
    <2>2. u \in Update
      BY DEF Update
    <2>3. due' = [due EXCEPT ![r] = due[r] \o Items(due[r], u)] /\ wire' = Append(wire, u)
      BY <2>1
    <2> HIDE DEF u
    <2>4. due[r] \in Seq(Item)
      BY <1>0 DEF RemoteOK
    <2>5. due[r] \o Items(due[r], u) \in Seq(Item)
      BY <2>2, <2>4, ItemsTypes
    <2>6. due' \in [Runs -> Seq(Item)]
      BY <1>0, <2>3, <2>5 DEF RemoteOK
    <2>7. wire' \in Seq(Update \cup Reply)
      BY <1>0, <2>2, <2>3 DEF RemoteOK
    <2>8. RemoteOK'
      BY <1>0, <1>1, <2>6, <2>7 DEF AgentSends, RemoteOK
    <2> QED
      BY <1>1, <2>8, Frames, Groups DEF AgentSends
  <1>2. CASE AgentReplies(r)
    <2>1. PICK k \in Replies : wire' = Append(wire, [of |-> r, is |-> k])
      BY <1>2 DEF AgentReplies
    <2>2. [of |-> r, is |-> k] \in Reply
      BY DEF Reply
    <2>3. wire' \in Seq(Update \cup Reply)
      BY <1>0, <2>1, <2>2 DEF RemoteOK
    <2>4. RemoteOK'
      BY <1>0, <1>2, <2>3 DEF AgentReplies, RemoteOK
    <2> QED
      BY <1>2, <2>4, Frames, Groups DEF AgentReplies
  <1>3. CASE Transfer(r)
    <2>1. handoffs' = handoffs \/ handoffs' = [handoffs EXCEPT ![hook] = handoffs[hook] \cup {r}]
      BY <1>3 DEF Transfer
    <2>2. handoffs' \in [Runs -> SUBSET Runs]
      <3>1. CASE hook \in Runs
        <4>1. handoffs[hook] \cup {r} \in SUBSET Runs
          BY <1>0, <3>1 DEF EventsOK
        <4> QED
          BY <1>0, <2>1, <4>1 DEF EventsOK
      <3>2. CASE hook \notin Runs
        BY <1>0, <2>1, <3>2 DEF EventsOK
      <3> QED
        BY <3>1, <3>2
    <2>3. EventsOK'
      BY <1>0, <1>3, <2>2 DEF Transfer, EventsOK
    <2> QED
      BY <1>3, <2>3, Frames, Groups DEF Transfer
  <1> QED
    BY <1>1, <1>2, <1>3

LEMMA WireHead ==
    ASSUME TypeOK, wire # <<>>
    PROVE  /\ Head(wire) \in Update \cup Reply
           /\ Head(wire) = wire[1]
           /\ Tail(wire) \in Seq(Update \cup Reply)
           /\ Len(Tail(wire)) = Len(wire) - 1
           /\ Len(wire) \in Nat \ {0}
           /\ Head(wire).of \in Runs
           /\ \A i \in 1..Len(Tail(wire)) : Tail(wire)[i] = wire[i + 1]
  BY DEF TypeOK, Update, Reply

LEMMA ReceiveTypes ==
    ASSUME TypeOK, Receive
    PROVE  TypeOK'
  <1>1. wire # <<>>
    BY DEF Receive, SessionUpdate, PromptResponse
  <1>2. Head(wire) \in Update \cup Reply /\ Tail(wire) \in Seq(Update \cup Reply)
    BY <1>1, WireHead
  <1>3. CASE SessionUpdate
    <2> DEFINE u == Head(wire)
               h == handler
               n == Events(h, u)
    <2>1. u \in Update
      BY <1>2, <1>3 DEF SessionUpdate, Update, Reply, Kinds, Replies, Reasons
    <2> HIDE DEF u
    <2>2. /\ wire' = Tail(wire)
          /\ collected' = IF At(h, "over") THEN collected
                          ELSE [collected EXCEPT ![h] = @ \o Items(@, u)]
          /\ panicked' \in BOOLEAN
          /\ buffer' = IF At(h, "over") THEN buffer ELSE [buffer EXCEPT ![h] = Sent(h, n)]
          /\ UNCHANGED <<link, member, call, left, handoffs, agent, due, sends, past>>
      BY <1>3 DEF SessionUpdate, u
    <2> HIDE DEF n
    <2>3. collected' \in [Runs -> Seq(Item)]
      <3>1. CASE h \in Runs
        <4>1. collected[h] \in Seq(Item)
          BY <3>1 DEF TypeOK
        <4>2. collected[h] \o Items(collected[h], u) \in Seq(Item)
          BY <2>1, <4>1, ItemsTypes
        <4> QED
          BY <2>2, <4>2 DEF TypeOK
      <3>2. CASE h \notin Runs
        BY <2>2, <3>2 DEF TypeOK
      <3> QED
        BY <3>1, <3>2
    <2>4. buffer' \in [Runs -> 0..Cap]
      <3>1. CASE h \in Runs
        <4>1. n \in Nat
          <5>1. collected[h] \in Seq(Item)
            BY <3>1 DEF TypeOK
          <5>2. Len(Items(collected[h], u)) \in Nat
            BY <2>1, <5>1, ItemsTypes
          <5> QED
            BY <5>2 DEF Events, n
        <4>2. buffer[h] \in Nat
          BY <3>1 DEF TypeOK
        <4>3. Sent(h, n) \in 0..Cap
          BY <4>1, <4>2 DEF Sent
        <4> QED
          BY <2>2, <4>3 DEF TypeOK
      <3>2. CASE h \notin Runs
        BY <2>2, <3>2 DEF TypeOK
      <3> QED
        BY <3>1, <3>2
    <2>5. EventsOK /\ RemoteOK
      BY Groups
    <2>6. EventsOK'
      BY <2>2, <2>3, <2>4, <2>5 DEF EventsOK
    <2>7. RemoteOK'
      BY <1>2, <2>2, <2>5 DEF RemoteOK
    <2> QED
      BY <2>2, <2>6, <2>7, Frames, Groups
  <1>4. CASE PromptResponse
    <2>1. Head(wire).is # "error" => Head(wire).is \in Reasons
      BY <1>4 DEF PromptResponse, Replies
    <2>2. CallOK /\ RemoteOK
      BY Groups
    <2>3. CallOK'
      BY <1>4, <2>1, <2>2 DEF PromptResponse, Go, CallOK, Places
    <2>4. RemoteOK'
      BY <1>2, <1>4, <2>2 DEF PromptResponse, RemoteOK
    <2> QED
      BY <1>4, <2>3, <2>4, Frames, Groups DEF PromptResponse
  <1> QED
    BY <1>3, <1>4 DEF Receive

LEMMA TypeStep == TypeOK /\ [Next]_vars => TypeOK'
  <1> SUFFICES ASSUME TypeOK, [Next]_vars PROVE TypeOK'
    OBVIOUS
  <1>1. CASE UNCHANGED vars
    BY <1>1 DEF vars, TypeOK
  <1>2. CASE Next
    BY <1>2, LinkTypes, RunTypes, AgentTypes, ReceiveTypes DEF Next
  <1> QED
    BY <1>1, <1>2

(* Every step keeps the types: what is collected and what is due are        *)
(* sequences of items, and no channel holds more than it has room for       *)
(* (sendStreamEvent drops).                                                 *)
THEOREM TypeCorrect == Spec => []TypeOK
  <1> QED
    BY TypeInit, TypeStep, PTL DEF Spec

-----------------------------------------------------------------------------
(* What is on its way *)

(* Nothing that these invariants look at changes.                           *)
aspects == <<pc, agent, due, wire, ended, lost, crossed, hook, handler, handoffs, collected>>

Apart == New \/ Close \/ DropSession \/ CloseSession \/ StopMCPServer \/ SyncMCPServerTools

LEMMA ApartFrame ==
    ASSUME Apart \/ \E r \in Runs : Cancel(r) \/ TakeEvent(r)
    PROVE  UNCHANGED aspects
  <1>1. CASE New
    BY <1>1 DEF New, StartMCPServer, ConnectStdio, Initialize, AgentInitializes, NewSession,
                AgentOpensSession, HandshakeFails, member, call, events, remote, past, aspects
  <1>2. CASE Close \/ DropSession \/ CloseSession \/ StopMCPServer
    BY <1>2 DEF Close, DropSession, CloseSession, StopMCPServer, member, call, events, remote,
                past, aspects
  <1>3. CASE SyncMCPServerTools
    BY <1>3 DEF SyncMCPServerTools, call, events, remote, past, aspects
  <1>4. CASE \E r \in Runs : Cancel(r)
    BY <1>4 DEF Cancel, member, events, remote, aspects
  <1>5. CASE \E r \in Runs : TakeEvent(r)
    BY <1>5 DEF TakeEvent, member, call, remote, past, aspects
  <1> QED
    BY <1>1, <1>2, <1>3, <1>4, <1>5 DEF Apart

(* Who has something on its way after a message is sent, or received.       *)
LEMMA WireGrows ==
    ASSUME TypeOK, NEW u \in Update \cup Reply, wire' = Append(wire, u), NEW r \in Runs
    PROVE  OnWire(r)' <=> OnWire(r) \/ u.of = r
  <1>1. Len(wire) \in Nat /\ Len(wire') = Len(wire) + 1 /\ wire'[Len(wire) + 1] = u
        /\ \A i \in 1..Len(wire) : wire'[i] = wire[i]
    BY DEF TypeOK
  <1> QED
    BY <1>1 DEF OnWire

LEMMA WireShrinks ==
    ASSUME TypeOK, wire # <<>>, wire' = Tail(wire)
    PROVE  /\ \A r \in Runs : OnWire(r)' => OnWire(r)
           /\ OnWire(Head(wire).of)
           /\ \A r \in Runs : OnWire(r) => OnWire(r)' \/ r = Head(wire).of
  <1>1. /\ Head(wire) = wire[1] /\ Len(wire') = Len(wire) - 1 /\ Len(wire) \in Nat \ {0}
        /\ \A i \in 1..Len(wire') : wire'[i] = wire[i + 1]
    BY WireHead
  <1>2. ASSUME NEW r \in Runs, OnWire(r)' PROVE OnWire(r)
    BY <1>1, <1>2 DEF OnWire
  <1>3. OnWire(Head(wire).of)
    BY <1>1 DEF OnWire
  <1>4. ASSUME NEW r \in Runs, OnWire(r), r # Head(wire).of PROVE OnWire(r)'
    <2>1. PICK i \in 1..Len(wire) : wire[i].of = r
      BY <1>4 DEF OnWire
    <2>2. i # 1
      BY <1>1, <1>4, <2>1
    <2>3. i - 1 \in 1..Len(wire') /\ wire'[i - 1] = wire[i]
      BY <1>1, <2>2
    <2> QED
      BY <2>1, <2>3 DEF OnWire
  <1> QED
    BY <1>2, <1>3, <1>4

LEMMA WireInit == Init => WireInv
  <1> SUFFICES ASSUME Init PROVE WireInv
    OBVIOUS
  <1>0. wire = <<>> /\ Len(wire) = 0
    BY DEF Init
  <1>1. \A r \in Runs : ~OnWire(r)
    BY <1>0 DEF OnWire
  <1>2. \A r \in Runs : agent[r] = "idle" /\ due[r] = <<>> /\ ended[r] = "none"
                        /\ pc[r] \in {"none", "over"}
    BY DEF Init
  <1>3. RepliesLast
    BY DEF Init, RepliesLast
  <1> QED
    BY <1>1, <1>2, <1>3 DEF WireInv, Quiet, EndInv, LostInv, Unfinished

(* A run is prepared, or fails, and the agent does nothing.                 *)
LEMMA WireAdvances ==
    ASSUME TypeOK, WireInv, NEW r \in Runs, NEW where \in {"begin", "take", "set", "prompt"},
           pc[r] \in Before, pc' = [pc EXCEPT ![r] = where],
           UNCHANGED <<agent, due, wire, ended, lost>>
    PROVE  WireInv'
  <1>0. CallOK /\ \A s \in Runs : OnWire(s)' = OnWire(s)
    BY Groups DEF OnWire
  <1>1. agent[r] = "idle" /\ ~OnWire(r) /\ pc[r] # "end" /\ ended[r] = "none"
    BY <1>0 DEF WireInv, Quiet, EndInv, Before, CallOK
  <1>2. \A s \in Runs : pc'[s] = IF s = r THEN where ELSE pc[s]
    BY <1>0 DEF CallOK
  <1>3. Quiet'
    BY <1>0, <1>1, <1>2 DEF WireInv, Quiet
  <1>4. RepliesLast'
    BY DEF WireInv, RepliesLast
  <1>5. EndInv'
    BY <1>0, <1>1, <1>2 DEF WireInv, EndInv
  <1>6. LostInv'
    BY <1>0, <1>1, <1>2 DEF WireInv, LostInv, Unfinished
  <1> QED
    BY <1>3, <1>4, <1>5, <1>6 DEF WireInv

LEMMA WireFails ==
    ASSUME TypeOK, WireInv, NEW r \in Runs, Fail(r), UNCHANGED <<agent, due, wire>>
    PROVE  WireInv'
  <1>0. CallOK /\ \A s \in Runs : OnWire(s)' = OnWire(s)
    BY Groups DEF OnWire
  <1>1. /\ \A s \in Runs : pc'[s] = IF s = r THEN "end" ELSE pc[s]
        /\ \A s \in Runs : ended'[s] = IF s = r THEN "error" ELSE ended[s]
        /\ lost' = (lost \/ Unfinished(r))
    BY <1>0 DEF CallOK, Fail, Go
  <1>2. Quiet'
    BY <1>0, <1>1 DEF WireInv, Quiet, Before
  <1>3. RepliesLast'
    BY DEF WireInv, RepliesLast
  <1>4. EndInv'
    BY <1>0, <1>1 DEF WireInv, EndInv
  <1>5. LostInv'
    BY <1>0, <1>1 DEF WireInv, LostInv, Unfinished
  <1> QED
    BY <1>2, <1>3, <1>4, <1>5 DEF WireInv

(* The agent has its prompt, or not yet.                                    *)
LEMMA WireOfRun ==
    ASSUME TypeOK, WireInv, NEW r \in Runs, PrepareForTeam(r) \/ RunStep(r)
    PROVE  WireInv'
  <1>0. CallOK /\ RemoteOK /\ wire' = wire /\ \A s \in Runs : OnWire(s)' = OnWire(s)
    BY Groups DEF PrepareForTeam, RunStep, CheckOpen, TakeSession, SetEventHandler, Prompt,
                  PromptFails, CheckStopReason, EndRun, remote, OnWire
  <1>1. CASE PrepareForTeam(r)
    <2>1. /\ pc[r] = "none" /\ pc' = [pc EXCEPT ![r] = "begin"]
          /\ agent' = agent /\ due' = due /\ ended' = ended /\ lost' = lost
      BY <1>1 DEF PrepareForTeam, At, Go, remote
    <2> QED
      BY <1>0, <2>1, WireAdvances DEF Before
  <1>2. CASE CheckOpen(r) \/ TakeSession(r) \/ SetEventHandler(r)
    <2>1. /\ pc[r] \in Before
          /\ agent' = agent /\ due' = due
          /\ \/ Fail(r)
             \/ \E where \in {"take", "set", "prompt"} :
                   pc' = [pc EXCEPT ![r] = where] /\ ended' = ended /\ lost' = lost
      BY <1>2 DEF CheckOpen, TakeSession, SetEventHandler, At, Go, Pass, remote, Before
    <2> QED
      BY <1>0, <2>1, WireAdvances, WireFails
  <1>3. CASE Prompt(r)
    <2>1. CASE process = "alive" /\ ~cancelled[r]
      <3>1. /\ pc[r] = "prompt" /\ pc' = [pc EXCEPT ![r] = "wait"]
            /\ agent' = [agent EXCEPT ![r] = "works"] /\ due' = due
            /\ ended' = ended /\ lost' = lost
        BY <1>3, <2>1 DEF Prompt, At, Go, Pass
      <3>2. agent[r] = "idle" /\ ~OnWire(r)
        BY <3>1 DEF WireInv, Quiet, Before
      <3>3. Quiet' /\ EndInv' /\ LostInv'
        BY <1>0, <3>1, <3>2
           DEF WireInv, CallOK, RemoteOK, Unfinished, Quiet, EndInv, LostInv, Before
      <3>4. RepliesLast'
        BY <1>0, <3>1, <3>2 DEF WireInv, RemoteOK, RepliesLast, OnWire
      <3> QED
        BY <3>3, <3>4 DEF WireInv
    <2>2. CASE ~(process = "alive" /\ ~cancelled[r])
      <3>1. Fail(r) /\ agent' = agent /\ due' = due
        BY <1>3, <2>2 DEF Prompt
      <3> QED
        BY <1>0, <3>1, WireFails
    <2> QED
      BY <2>1, <2>2
  <1>4. CASE PromptFails(r)
    <2>1. Fail(r) /\ agent' = agent /\ due' = due
      BY <1>4 DEF PromptFails, remote
    <2> QED
      BY <1>0, <2>1, WireFails
  <1>5. CASE CheckStopReason(r)
    <2>1. /\ pc[r] = "result" /\ pc' = [pc EXCEPT ![r] = "end"]
          /\ ended' = [ended EXCEPT ![r] = IF stop[r] \in {"end_turn", ""} THEN "done" ELSE "error"]
          /\ agent' = agent /\ due' = due /\ lost' = lost
      BY <1>5 DEF CheckStopReason, At, Go, remote, past
    <2>2. agent[r] = "done" /\ ~OnWire(r)
      BY <2>1 DEF WireInv, EndInv
    <2> QED
      BY <1>0, <2>1, <2>2
         DEF WireInv, CallOK, Unfinished, Quiet, RepliesLast, EndInv, LostInv, Before
  <1>6. CASE EndRun(r)
    <2>1. /\ pc[r] = "end" /\ pc' = [pc EXCEPT ![r] = "over"]
          /\ ended' = [ended EXCEPT ![r] = "none"]
          /\ due' = IF Unfinished(r) THEN due ELSE [due EXCEPT ![r] = <<>>]
          /\ agent' = agent /\ lost' = lost
      BY <1>6 DEF EndRun, At, Go, past
    <2>2. \A s \in Runs : due'[s] = due[s] \/ due'[s] = <<>>
      BY <1>0, <2>1 DEF RemoteOK
    <2> QED
      BY <1>0, <2>1, <2>2
         DEF WireInv, CallOK, Unfinished, Quiet, RepliesLast, EndInv, LostInv, Before
  <1> QED
    BY <1>1, <1>2, <1>3, <1>4, <1>5, <1>6 DEF RunStep

(* The process ends: the agent is done with what it worked on.              *)
LEMMA WireOfDeath ==
    ASSUME TypeOK, WireInv, KillProcess \/ ProcessDies
    PROVE  WireInv'
  <1>1. /\ agent' = [r \in Runs |-> IF agent[r] = "works" THEN "done" ELSE agent[r]]
        /\ pc' = pc /\ due' = due /\ wire' = wire /\ ended' = ended /\ lost' = lost
    BY DEF KillProcess, ProcessDies, Ends, call, past
  <1>2. \A r \in Runs : OnWire(r)' = OnWire(r)
    BY <1>1 DEF OnWire
  <1>3. wire \in Seq(Update \cup Reply) /\ \A i \in 1..Len(wire) : wire[i].of \in Runs
    BY DEF TypeOK, Update, Reply
  <1> QED
    BY <1>1, <1>2, <1>3 DEF WireInv, Quiet, RepliesLast, EndInv, LostInv, Unfinished

LEMMA WireOfAgent ==
    ASSUME TypeOK, WireInv, NEW r \in Runs, AgentSends(r) \/ AgentReplies(r)
    PROVE  WireInv'
  <1>0. CallOK /\ RemoteOK /\ agent[r] = "works"
        /\ pc' = pc /\ ended' = ended /\ lost' = lost
    BY Groups DEF AgentSends, AgentReplies, call, past
  <1>1. PICK u \in Update \cup Reply :
            /\ u.of = r /\ wire' = Append(wire, u)
            /\ u.is \in Replies => agent' = [agent EXCEPT ![r] = "done"]
            /\ u.is \notin Replies => agent' = agent
            /\ \A s \in Runs \ {r} : due'[s] = due[s]
    <2>1. CASE AgentSends(r)
      <3>1. PICK k \in Kinds :
              LET u == [of |-> r, is |-> k] IN
              /\ due' = [due EXCEPT ![r] = @ \o Items(@, u)]
              /\ wire' = Append(wire, u)
        BY <2>1 DEF AgentSends
      <3> DEFINE u == [of |-> r, is |-> k]
      <3>2. u \in Update /\ u.of = r /\ u.is \notin Replies
        BY DEF Update, Kinds, Replies, Reasons
      <3>3. due' = [due EXCEPT ![r] = due[r] \o Items(due[r], u)] /\ wire' = Append(wire, u)
        BY <3>1
      <3> HIDE DEF u
      <3>4. agent' = agent
        BY <2>1 DEF AgentSends
      <3> QED
        BY <1>0, <3>2, <3>3, <3>4 DEF RemoteOK
    <2>2. CASE AgentReplies(r)
      <3>1. PICK k \in Replies : wire' = Append(wire, [of |-> r, is |-> k])
        BY <2>2 DEF AgentReplies
      <3>2. [of |-> r, is |-> k] \in Reply
        BY DEF Reply
      <3>3. agent' = [agent EXCEPT ![r] = "done"] /\ due' = due
        BY <2>2 DEF AgentReplies
      <3> QED
        BY <3>1, <3>2, <3>3
    <2> QED
      BY <2>1, <2>2
  <1>2. \A s \in Runs : OnWire(s)' <=> OnWire(s) \/ s = r
    BY <1>1, WireGrows
  <1>3. agent' = agent \/ agent' = [agent EXCEPT ![r] = "done"]
    BY <1>1
  <1>4. pc[r] \notin Before /\ pc[r] # "result" /\ ended[r] # "done"
    BY <1>0 DEF WireInv, Quiet, EndInv
  <1>5. Quiet'
    BY <1>0, <1>1, <1>2, <1>3, <1>4 DEF WireInv, Quiet, RemoteOK
  <1>6. EndInv'
    BY <1>0, <1>2, <1>3, <1>4 DEF WireInv, EndInv, RemoteOK
  <1>7. LostInv'
    BY <1>0, <1>2, <1>3 DEF WireInv, LostInv, RemoteOK, Unfinished
  <1>8. RepliesLast'
    <2>1. /\ Len(wire) \in Nat /\ Len(wire') = Len(wire) + 1 /\ wire'[Len(wire) + 1] = u
          /\ \A i \in 1..Len(wire) : wire'[i] = wire[i] /\ wire[i].of \in Runs
      BY <1>1 DEF TypeOK, Update, Reply
    <2>2. ASSUME NEW i \in 1..Len(wire'), wire'[i].is \in Replies
          PROVE  /\ agent'[wire'[i].of] = "done"
                 /\ \A j \in (i + 1)..Len(wire') : wire'[j].of # wire'[i].of
      <3>1. CASE i = Len(wire) + 1
        BY <1>0, <1>1, <2>1, <2>2, <3>1 DEF RemoteOK
      <3>2. CASE i \in 1..Len(wire)
        <4>1. agent[wire[i].of] = "done" /\ \A j \in (i + 1)..Len(wire) : wire[j].of # wire[i].of
          BY <2>1, <2>2, <3>2 DEF WireInv, RepliesLast
        <4>2. wire[i].of # r /\ wire[i].of \in Runs
          BY <1>0, <2>1, <3>2, <4>1
        <4>3. agent'[wire[i].of] = "done"
          BY <1>0, <1>3, <4>1, <4>2 DEF RemoteOK
        <4>4. ASSUME NEW j \in (i + 1)..Len(wire') PROVE wire'[j].of # wire[i].of
          <5>1. CASE j = Len(wire) + 1
            BY <1>1, <2>1, <4>2, <5>1
          <5>2. CASE j # Len(wire) + 1
            <6>1. j \in (i + 1)..Len(wire) /\ j \in 1..Len(wire)
              BY <2>1, <3>2, <5>2
            <6> QED
              BY <2>1, <4>1, <6>1
          <5> QED
            BY <5>1, <5>2
        <4> QED
          BY <2>1, <3>2, <4>3, <4>4
      <3> QED
        BY <2>1, <3>1, <3>2
    <2> QED
      BY <2>2 DEF RepliesLast
  <1> QED
    BY <1>5, <1>6, <1>7, <1>8 DEF WireInv

(* A reply is the last there is for its prompt, so that nothing is on its   *)
(* way any more when the run goes on.                                       *)
LEMMA ReplyIsLast ==
    ASSUME TypeOK, RepliesLast, PromptResponse
    PROVE  /\ Head(wire).of \in Runs
           /\ agent[Head(wire).of] = "done"
           /\ \A i \in 1..Len(wire') : wire'[i].of # Head(wire).of
  <1>1. /\ wire # <<>> /\ wire' = Tail(wire) /\ Head(wire).is \in Replies
    BY DEF PromptResponse
  <1>2. /\ Head(wire) = wire[1] /\ Len(wire') = Len(wire) - 1 /\ Len(wire) \in Nat \ {0}
        /\ \A i \in 1..Len(wire') : wire'[i] = wire[i + 1]
        /\ Head(wire).of \in Runs
    BY <1>1, WireHead
  <1>3. agent[wire[1].of] = "done" /\ \A j \in 2..Len(wire) : wire[j].of # wire[1].of
    BY <1>1, <1>2 DEF RepliesLast
  <1>4. ASSUME NEW j \in 1..Len(wire') PROVE wire'[j].of # Head(wire).of
    <2>1. j + 1 \in 2..Len(wire) /\ wire'[j] = wire[j + 1]
      BY <1>2
    <2> QED
      BY <1>2, <1>3, <2>1
  <1> QED
    BY <1>2, <1>3, <1>4

LEMMA WireOfReceipt ==
    ASSUME TypeOK, WireInv, Receive
    PROVE  WireInv'
  <1>1. wire # <<>> /\ wire' = Tail(wire) /\ agent' = agent /\ due' = due /\ lost' = lost
    BY DEF Receive, SessionUpdate, PromptResponse, past
  <1>2. \A r \in Runs : OnWire(r)' => OnWire(r)
    BY <1>1, WireShrinks
  <1>3. RepliesLast'
    <2>1. /\ Len(wire') = Len(wire) - 1 /\ Len(wire) \in Nat \ {0}
          /\ \A i \in 1..Len(wire') : wire'[i] = wire[i + 1]
      BY <1>1, WireHead
    <2> QED
      BY <1>1, <2>1 DEF WireInv, RepliesLast
  <1>4. CASE SessionUpdate
    <2>1. pc' = pc /\ ended' = ended
      BY <1>4 DEF SessionUpdate, call
    <2> QED
      BY <1>1, <1>2, <1>3, <2>1 DEF WireInv, Quiet, EndInv, LostInv, Unfinished
  <1>5. CASE PromptResponse
    <2>0. PICK r \in Runs : r = Head(wire).of
      BY <1>5, ReplyIsLast DEF WireInv
    <2>1. agent[r] = "done" /\ ~OnWire(r)'
      BY <1>5, <2>0, ReplyIsLast DEF WireInv, OnWire
    <2>2. \/ pc' = pc /\ ended' = ended
          \/ pc[r] = "wait" /\ pc' = [pc EXCEPT ![r] = "end"]
             /\ ended' = [ended EXCEPT ![r] = "error"]
          \/ pc[r] = "wait" /\ pc' = [pc EXCEPT ![r] = "result"] /\ ended' = ended
      BY <1>5, <2>0 DEF PromptResponse, At, Go
    <2>3. CallOK
      BY Groups
    <2>4. CASE pc' = pc /\ ended' = ended
      BY <1>1, <1>2, <1>3, <2>4 DEF WireInv, Quiet, EndInv, LostInv, Unfinished
    <2>5. CASE ~(pc' = pc /\ ended' = ended)
      <3>1. /\ pc[r] = "wait" /\ pc'[r] \in {"end", "result"}
            /\ \A s \in Runs \ {r} : pc'[s] = pc[s] /\ ended'[s] = ended[s]
            /\ ended'[r] # "none" => pc'[r] = "end"
        BY <2>1, <2>2, <2>3, <2>5 DEF WireInv, EndInv, CallOK
      <3>2. Quiet'
        BY <1>1, <1>2, <3>1 DEF WireInv, Quiet, Before
      <3>3. EndInv'
        BY <1>1, <1>2, <2>1, <3>1 DEF WireInv, EndInv
      <3>4. LostInv'
        BY <1>1, <1>2, <2>1, <3>1 DEF WireInv, LostInv, Unfinished
      <3> QED
        BY <1>3, <3>2, <3>3, <3>4 DEF WireInv
    <2> QED
      BY <2>4, <2>5
  <1> QED
    BY <1>4, <1>5 DEF Receive

LEMMA WireStep == TypeOK /\ WireInv /\ [Next]_vars => WireInv'
  <1> SUFFICES ASSUME TypeOK, WireInv, [Next]_vars PROVE WireInv'
    OBVIOUS
  <1>1. ASSUME UNCHANGED aspects PROVE WireInv'
    BY <1>1 DEF aspects, WireInv, Quiet, RepliesLast, EndInv, LostInv, Unfinished, OnWire
  <1>2. CASE UNCHANGED vars
    BY <1>1, <1>2 DEF vars, aspects
  <1>3. CASE Apart
    BY <1>1, <1>3, ApartFrame
  <1>4. CASE \E r \in Runs : Cancel(r) \/ TakeEvent(r)
    BY <1>1, <1>4, ApartFrame
  <1>5. CASE KillProcess \/ ProcessDies
    BY <1>5, WireOfDeath
  <1>6. CASE Receive
    BY <1>6, WireOfReceipt
  <1>7. CASE \E r \in Runs : PrepareForTeam(r) \/ RunStep(r)
    BY <1>7, WireOfRun
  <1>8. CASE \E r \in Runs : AgentSends(r) \/ AgentReplies(r)
    BY <1>8, WireOfAgent
  <1>9. CASE \E r \in Runs : Transfer(r)
    <2>1. UNCHANGED <<pc, agent, due, wire, ended, lost>>
      BY <1>9 DEF Transfer, call, remote, past
    <2> QED
      BY <2>1 DEF WireInv, Quiet, RepliesLast, EndInv, LostInv, Unfinished, OnWire
  <1> QED
    BY <1>2, <1>3, <1>4, <1>5, <1>6, <1>7, <1>8, <1>9 DEF Next, CloseStep, Apart

-----------------------------------------------------------------------------
(* What is collected *)

LEMMA TookTypes ==
    ASSUME NEW c \in Seq(Item), NEW u \in Update \cup Reply
    PROVE  Took(c, u) \in Seq(Item)
  <1>1. CASE u.is \in Kinds
    <2>1. u \in Update
      BY <1>1 DEF Kinds, Update, Reply, Replies, Reasons
    <2>2. Items(c, u) \in Seq(Item)
      BY <2>1, ItemsTypes
    <2> QED
      BY <2>2 DEF Took
  <1> QED
    BY <1>1 DEF Took

(* What is on its way may grow at its end, and be taken at its head.        *)
LEMMA LeadsNowhere ==
    ASSUME NEW c \in Seq(Item), NEW d \in Seq(Item), NEW w, Len(w) = 0
    PROVE  Leads(c, w, d) <=> c = d
  <1>1. ASSUME c = d PROVE Leads(c, w, d)
    <2> DEFINE st == [i \in 0..Len(w) |-> c]
    <2>1. st \in [0..Len(w) -> Seq(Item)] /\ st[0] = c /\ st[Len(w)] = d
      BY <1>1
    <2>2. \A i \in 1..Len(w) : st[i] = Took(st[i - 1], w[i])
      OBVIOUS
    <2> HIDE DEF st
    <2> QED
      BY <2>1, <2>2 DEF Leads
  <1> QED
    BY <1>1 DEF Leads

LEMMA LeadsOn ==
    ASSUME NEW c \in Seq(Item), NEW d \in Seq(Item), NEW w \in Seq(Update \cup Reply),
           NEW u \in Update \cup Reply, Leads(c, w, d)
    PROVE  Leads(c, Append(w, u), Took(d, u))
  <1>1. PICK st \in [0..Len(w) -> Seq(Item)] :
            /\ st[0] = c /\ st[Len(w)] = d
            /\ \A i \in 1..Len(w) : st[i] = Took(st[i - 1], w[i])
    BY DEF Leads
  <1> DEFINE n == Len(w) + 1
             v == Append(w, u)
             last == Took(d, u)
             next == [i \in 0..n |-> IF i = n THEN last ELSE st[i]]
  <1>2. Len(w) \in Nat /\ Len(v) = n /\ v[n] = u /\ \A i \in 1..Len(w) : v[i] = w[i]
    OBVIOUS
  <1>3. last \in Seq(Item)
    BY TookTypes
  <1>4. last = Took(d, u)
    OBVIOUS
  <1> HIDE DEF v, last
  <1>5. next \in [0..n -> Seq(Item)] /\ next[0] = c /\ next[n] = last
    BY <1>1, <1>2, <1>3
  <1>6. ASSUME NEW i \in 1..n PROVE next[i] = Took(next[i - 1], v[i])
    <2>1. CASE i = n
      <3>1. next[i - 1] = d
        BY <1>1, <1>2, <2>1
      <3> QED
        BY <1>2, <1>4, <1>5, <2>1, <3>1
    <2>2. CASE i # n
      <3>1. i \in 1..Len(w) /\ next[i] = st[i] /\ next[i - 1] = st[i - 1]
        BY <1>2, <2>2
      <3> QED
        BY <1>1, <1>2, <3>1
    <2> QED
      BY <2>1, <2>2
  <1> HIDE DEF next
  <1>7. Leads(c, v, last)
    BY <1>2, <1>5, <1>6 DEF Leads
  <1> QED
    BY <1>7 DEF v, last

LEMMA LeadsLess ==
    ASSUME NEW c \in Seq(Item), NEW d \in Seq(Item), NEW w \in Seq(Update \cup Reply),
           w # <<>>, Leads(c, w, d)
    PROVE  Leads(Took(c, Head(w)), Tail(w), d)
  <1>1. PICK st \in [0..Len(w) -> Seq(Item)] :
            /\ st[0] = c /\ st[Len(w)] = d
            /\ \A i \in 1..Len(w) : st[i] = Took(st[i - 1], w[i])
    BY DEF Leads
  <1> DEFINE n == Len(w) - 1
             v == Tail(w)
             next == [i \in 0..n |-> st[i + 1]]
  <1>2. n \in Nat /\ Len(w) = n + 1 /\ Len(v) = n /\ Head(w) = w[1]
        /\ \A i \in 1..n : v[i] = w[i + 1]
    OBVIOUS
  <1> HIDE DEF n, v
  <1>3. next \in [0..n -> Seq(Item)] /\ next[0] = Took(c, Head(w)) /\ next[n] = d
    BY <1>1, <1>2
  <1>4. ASSUME NEW i \in 1..n PROVE next[i] = Took(next[i - 1], v[i])
    <2>1. next[i] = st[i + 1] /\ next[i - 1] = st[i]
      BY <1>2
    <2>2. i + 1 \in 1..Len(w) /\ (i + 1) - 1 = i
      BY <1>2
    <2>3. st[i + 1] = Took(st[i], w[i + 1])
      BY <1>1, <2>2
    <2> QED
      BY <1>2, <2>1, <2>3
  <1> HIDE DEF next
  <1>5. Leads(Took(c, Head(w)), v, d)
    BY <1>2, <1>3, <1>4 DEF Leads
  <1> QED
    BY <1>5 DEF v

LEMMA OrderInit == Init => OrderInv
  <1> SUFFICES ASSUME Init PROVE OrderInv
    OBVIOUS
  <1>1. wire = <<>> /\ Len(wire) = 0
    BY DEF Init
  <1>2. \A r \in Runs : ~OnWire(r)
    BY <1>1 DEF OnWire
  <1>3. \A r \in Runs : /\ pc[r] \in {"none", "over"} /\ agent[r] = "idle"
                        /\ handoffs[r] = {} /\ collected[r] = <<>> /\ ended[r] = "none"
    BY DEF Init
  <1> QED
    BY <1>2, <1>3 DEF OrderInv, Alone, Theirs, Busy, InProgress, Unfinished

(* Whoever has something on its way is the run that there is.               *)
LEMMA OnlyOne ==
    ASSUME TypeOK, OrderInv, ~crossed, wire # <<>>
    PROVE  /\ Head(wire).of \in Runs
           /\ Unfinished(Head(wire).of)
           /\ handler = Head(wire).of
           /\ \A r \in Runs : Busy(r) => r = Head(wire).of
  <1>1. Head(wire).of \in Runs /\ Len(wire) \in Nat \ {0} /\ Head(wire) = wire[1]
    BY WireHead
  <1>2. Unfinished(Head(wire).of)
    BY <1>1 DEF Unfinished, OnWire
  <1> QED
    BY <1>1, <1>2 DEF OrderInv, Alone, Theirs, Busy

LEMMA OrderOfPrepare ==
    ASSUME TypeOK, WireInv, OrderInv, NEW r \in Runs, PrepareForTeam(r)
    PROVE  OrderInv'
  <1> SUFFICES ASSUME ~crossed' PROVE Alone' /\ \A s \in Runs : Theirs(s)'
    BY DEF OrderInv
  <1>0. CallOK
    BY Groups
  <1>1. /\ ~crossed /\ \A s \in Runs \ {r} : ~InProgress(s) /\ ~Unfinished(s)
        /\ pc[r] = "none" /\ hook' = r
        /\ \A s \in Runs : pc'[s] = IF s = r THEN "begin" ELSE pc[s]
        /\ UNCHANGED <<ended, handler, collected, handoffs, agent, due, wire>>
    BY <1>0 DEF PrepareForTeam, At, Go, CallOK, events, remote
  <1>2. agent[r] = "idle" /\ ~OnWire(r)
    BY <1>1 DEF WireInv, Quiet, Before
  <1>3. \A s \in Runs : OnWire(s)' = OnWire(s)
    BY <1>1 DEF OnWire
  <1>4. \A s \in Runs : ~Unfinished(s) /\ ~Unfinished(s)'
    BY <1>1, <1>2, <1>3 DEF Unfinished
  <1>5. \A s \in Runs : Busy(s)' => s = r
    BY <1>1, <1>4 DEF Busy, InProgress
  <1>6. ASSUME NEW s \in Runs PROVE Theirs(s)'
    <2>1. Theirs(s) /\ Theirs(r)
      BY <1>1 DEF OrderInv
    <2> QED
      BY <1>1, <1>4, <1>5, <2>1 DEF Theirs, Before
  <1> QED
    BY <1>5, <1>6 DEF Alone

(* A run goes on: it is the only one.                                       *)
LEMMA OrderOfRun ==
    ASSUME TypeOK, WireInv, OrderInv, NEW r \in Runs, RunStep(r)
    PROVE  OrderInv'
  <1> SUFFICES ASSUME ~crossed' PROVE Alone' /\ \A s \in Runs : Theirs(s)'
    BY DEF OrderInv
  <1>0. CallOK /\ RemoteOK /\ EventsOK
    BY Groups
  <1>1. ~crossed /\ wire' = wire /\ hook' = hook /\ Busy(r)
    <2>1. crossed' = crossed /\ wire' = wire /\ hook' = hook
      BY DEF RunStep, CheckOpen, TakeSession, SetEventHandler, Prompt, PromptFails,
             CheckStopReason, EndRun, member, remote, past
    <2>2. pc[r] \in {"begin", "take", "set", "prompt", "wait", "result", "end"}
      BY Zenon DEF RunStep, CheckOpen, TakeSession, SetEventHandler, Prompt, PromptFails,
                   CheckStopReason, EndRun, At
    <2> QED
      BY <2>1, <2>2 DEF Busy, InProgress
  <1>2. \A s \in Runs : OnWire(s)' = OnWire(s)
    BY <1>1 DEF OnWire
  <1>3. Alone /\ \A s \in Runs : Theirs(s)
    BY <1>1 DEF OrderInv
  <1>4. \A s \in Runs \ {r} : ~Busy(s) /\ ~Unfinished(s)
    BY <1>1, <1>3 DEF Alone, Busy
  (* What becomes of the others.                                            *)
  <1>5. ASSUME NEW s \in Runs \ {r},
               pc'[s] = pc[s], agent'[s] = agent[s], ended'[s] = ended[s],
               collected'[s] = collected[s], handoffs'[s] = handoffs[s]
        PROVE  ~Busy(s)' /\ Theirs(s)'
    <2>1. ~Busy(s)' /\ ~Unfinished(s)'
      BY <1>2, <1>4, <1>5 DEF Busy, InProgress, Unfinished
    <2>2. pc[s] \notin {"prompt", "wait", "result"} /\ ended[s] = "none"
      BY <1>0, <1>4 DEF Busy, InProgress, WireInv, EndInv, CallOK
    <2>3. Theirs(s)
      BY <1>3
    <2> QED
      BY <1>5, <2>1, <2>2, <2>3 DEF Theirs
  <1>6. ASSUME Theirs(r)', \A s \in Runs \ {r} : ~Busy(s)' /\ Theirs(s)'
        PROVE  Alone' /\ \A s \in Runs : Theirs(s)'
    BY <1>6 DEF Alone
  <1>7. ASSUME Fail(r), UNCHANGED <<agent, handler, collected, handoffs>>
        PROVE  Alone' /\ \A s \in Runs : Theirs(s)'
    <2>1. /\ pc'[r] = "end" /\ ended'[r] = "error"
          /\ \A s \in Runs \ {r} : pc'[s] = pc[s] /\ ended'[s] = ended[s]
      BY <1>0, <1>7 DEF Fail, Go, CallOK
    <2>2. Unfinished(r)' = Unfinished(r)
      BY <1>2, <1>7 DEF Unfinished
    <2>3. Theirs(r)'
      BY <1>1, <1>3, <1>7, <2>1, <2>2 DEF Theirs, Before
    <2> QED
      BY <1>5, <1>6, <1>7, <2>1, <2>3
  <1>8. CASE CheckOpen(r) \/ TakeSession(r)
    <2>1. UNCHANGED <<agent, due, handler, collected, handoffs>> /\ pc[r] \in {"begin", "take"}
      BY <1>8 DEF CheckOpen, TakeSession, At, events, remote
    <2>2. Fail(r) \/ (pc' = [pc EXCEPT ![r] = "take"] /\ ended' = ended)
                  \/ (pc' = [pc EXCEPT ![r] = "set"] /\ ended' = ended)
      BY <1>8 DEF CheckOpen, TakeSession, Pass, Go
    <2>3. CASE ~Fail(r)
      <3>1. /\ pc'[r] \in {"take", "set"} /\ ended' = ended
            /\ \A s \in Runs \ {r} : pc'[s] = pc[s]
        BY <1>0, <2>2, <2>3 DEF CallOK
      <3>2. ended[r] = "none" /\ Unfinished(r)' = Unfinished(r)
        BY <1>0, <1>2, <2>1 DEF WireInv, EndInv, Unfinished, CallOK
      <3>3. Theirs(r)'
        BY <1>1, <1>3, <2>1, <3>1, <3>2 DEF Theirs, Before
      <3> QED
        BY <1>5, <1>6, <2>1, <3>1, <3>3
    <2> QED
      BY <1>7, <2>1, <2>3
  <1>9. CASE SetEventHandler(r)
    <2>1. /\ UNCHANGED <<agent, due, ended, collected, handoffs>> /\ handler' = r
          /\ pc[r] = "set" /\ pc'[r] = "prompt" /\ \A s \in Runs \ {r} : pc'[s] = pc[s]
      BY <1>0, <1>9 DEF SetEventHandler, At, Go, Pass, events, remote, CallOK
    <2>2. Theirs(r)'
      BY <1>0, <1>1, <1>3, <2>1 DEF Theirs, Before, WireInv, EndInv, CallOK
    <2> QED
      BY <1>5, <1>6, <2>1, <2>2
  <1>10. CASE Prompt(r)
    <2>1. UNCHANGED <<due, handler, collected, handoffs>> /\ pc[r] = "prompt"
      BY <1>10 DEF Prompt, At, events
    <2>2. CASE process = "alive" /\ ~cancelled[r]
      <3>1. /\ pc'[r] = "wait" /\ ended' = ended
            /\ \A s \in Runs \ {r} : pc'[s] = pc[s] /\ agent'[s] = agent[s]
        BY <1>0, <1>10, <2>2 DEF Prompt, Pass, Go, CallOK, RemoteOK
      <3>2. agent[r] = "idle" /\ ~OnWire(r) /\ due[r] = <<>>
        BY <2>1 DEF WireInv, Quiet, Before
      <3>3. collected[r] = <<>> /\ handler = r /\ hook = r /\ handoffs[r] \subseteq {r}
        BY <1>1, <1>3, <2>1 DEF Theirs, Before
      <3>4. wire = <<>> /\ Len(wire) = 0
        <4>1. wire # <<>> => Head(wire).of = r
          BY <1>1, OnlyOne
        <4>2. wire # <<>> => OnWire(Head(wire).of)
          BY WireHead DEF OnWire
        <4> QED
          BY <3>2, <4>1, <4>2
      <3>5. Leads(collected[r], wire, due[r])
        BY <1>0, <3>2, <3>3, <3>4, LeadsNowhere DEF EventsOK
      <3>6. ended[r] = "none"
        BY <1>0, <2>1 DEF WireInv, EndInv, CallOK
      <3>7. Theirs(r)'
        BY <1>1, <2>1, <3>1, <3>3, <3>5, <3>6 DEF Theirs, Before
      <3> QED
        BY <1>5, <1>6, <2>1, <3>1, <3>7
    <2>3. CASE ~(process = "alive" /\ ~cancelled[r])
      BY <1>7, <1>10, <2>1, <2>3 DEF Prompt
    <2> QED
      BY <2>2, <2>3
  <1>11. CASE PromptFails(r)
    BY <1>7, <1>11 DEF PromptFails, events, remote
  <1>12. CASE CheckStopReason(r)
    <2>1. /\ UNCHANGED <<agent, due, handler, collected, handoffs>> /\ pc[r] = "result"
          /\ pc'[r] = "end" /\ \A s \in Runs \ {r} : pc'[s] = pc[s] /\ ended'[s] = ended[s]
      BY <1>0, <1>12 DEF CheckStopReason, At, Go, events, remote, CallOK
    <2>2. Unfinished(r)' = Unfinished(r)
      BY <1>2, <2>1 DEF Unfinished
    <2>3. Theirs(r)'
      BY <1>1, <1>3, <2>1, <2>2 DEF Theirs, Before
    <2> QED
      BY <1>5, <1>6, <2>1, <2>3
  <1>13. CASE EndRun(r)
    <2>1. /\ UNCHANGED <<agent, handler>> /\ pc'[r] = "over" /\ ended'[r] = "none"
          /\ collected'[r] = <<>> /\ handoffs'[r] = {}
          /\ \A s \in Runs \ {r} : /\ pc'[s] = pc[s] /\ ended'[s] = ended[s]
                                  /\ collected'[s] = collected[s] /\ handoffs'[s] = handoffs[s]
      BY <1>0, <1>13 DEF EndRun, Go, CallOK, EventsOK
    <2>2. Unfinished(r)' = Unfinished(r)
      BY <1>2, <2>1 DEF Unfinished
    <2>3. Theirs(r)'
      BY <1>1, <1>3, <2>1, <2>2 DEF Theirs, Before
    <2> QED
      BY <1>5, <1>6, <2>1, <2>3
  <1> QED
    BY <1>8, <1>9, <1>10, <1>11, <1>12, <1>13 DEF RunStep

(* An agent that works does so for the run that there is.                   *)
LEMMA OrderOfAgent ==
    ASSUME TypeOK, WireInv, OrderInv, NEW r \in Runs,
           AgentSends(r) \/ AgentReplies(r) \/ Transfer(r)
    PROVE  OrderInv'
  <1> SUFFICES ASSUME ~crossed' PROVE Alone' /\ \A s \in Runs : Theirs(s)'
    BY DEF OrderInv
  <1>0. CallOK /\ RemoteOK /\ EventsOK
    BY Groups
  <1>1. /\ ~crossed /\ agent[r] = "works"
        /\ UNCHANGED <<pc, ended, hook, handler, collected>>
    <2>1. CASE AgentSends(r)
      BY <2>1 DEF AgentSends, member, call, events, past
    <2>2. CASE AgentReplies(r)
      BY <2>2 DEF AgentReplies, member, call, events, past
    <2>3. CASE Transfer(r)
      BY <2>3 DEF Transfer, member, call, past
    <2> QED
      BY <2>1, <2>2, <2>3
  <1>2. Alone /\ \A s \in Runs : Theirs(s)
    BY <1>1 DEF OrderInv
  <1>3. Unfinished(r) /\ Busy(r) /\ hook = r /\ handler = r
    BY <1>1, <1>2 DEF Unfinished, Busy, Theirs
  <1>4. pc[r] \notin Before /\ pc[r] # "result" /\ ended[r] # "done"
    BY <1>0, <1>1 DEF WireInv, Quiet, EndInv
  <1>5. \A s \in Runs \ {r} : ~Busy(s) /\ pc[s] # "wait"
    BY <1>2, <1>3 DEF Alone, Busy, InProgress
  <1>6. ASSUME NEW u \in Update \cup Reply, u.of = r, wire' = Append(wire, u),
               handoffs' = handoffs, due'[r] = Took(due[r], u),
               \A s \in Runs \ {r} : due'[s] = due[s] /\ agent'[s] = agent[s]
        PROVE  Alone' /\ \A s \in Runs : Theirs(s)'
    <2>1. \A s \in Runs : OnWire(s)' <=> OnWire(s) \/ s = r
      BY <1>6, WireGrows
    <2>2. \A s \in Runs \ {r} : ~Busy(s)' /\ ~Unfinished(s)'
      BY <1>1, <1>5, <1>6, <2>1 DEF Busy, InProgress, Unfinished
    <2>3. Alone'
      BY <2>2 DEF Alone
    <2>4. pc[r] = "wait" => Leads(collected[r], wire', due'[r])
      <3>1. collected[r] \in Seq(Item) /\ due[r] \in Seq(Item)
            /\ wire \in Seq(Update \cup Reply)
        BY <1>0 DEF EventsOK, RemoteOK
      <3>2. pc[r] = "wait" => Leads(collected[r], wire, due[r])
        BY <1>2 DEF Theirs
      <3> SUFFICES ASSUME pc[r] = "wait" PROVE Leads(collected[r], wire', due'[r])
        OBVIOUS
      <3>3. Leads(collected[r], Append(wire, u), Took(due[r], u))
        BY <3>1, <3>2, LeadsOn
      <3>4. wire' = Append(wire, u) /\ due'[r] = Took(due[r], u)
        BY <1>6
      <3> QED
        BY <3>3, <3>4
    <2>5. Theirs(r)'
      <3>1. handoffs[r] \subseteq {r}
        BY <1>2 DEF Theirs
      <3>2. /\ hook' = r /\ handler' = r /\ handoffs'[r] \subseteq {r}
            /\ pc'[r] \notin Before /\ pc'[r] # "result" /\ ended'[r] # "done"
        BY <1>1, <1>3, <1>4, <1>6, <3>1
      <3>3. pc'[r] = "wait" => Leads(collected'[r], wire', due'[r])
        BY <1>1, <2>4
      <3> QED
        BY <3>2, <3>3, Zenon DEF Theirs
    <2>6. ASSUME NEW s \in Runs \ {r} PROVE Theirs(s)'
      <3>1. Theirs(s)
        BY <1>2
      <3> QED
        BY <1>1, <1>5, <1>6, <2>2, <3>1 DEF Theirs
    <2> QED
      BY <2>3, <2>5, <2>6
  <1>7. CASE AgentSends(r)
    <2>1. PICK k \in Kinds :
            LET u == [of |-> r, is |-> k] IN
            /\ due' = [due EXCEPT ![r] = @ \o Items(@, u)]
            /\ wire' = Append(wire, u)
      BY <1>7 DEF AgentSends
    <2> DEFINE u == [of |-> r, is |-> k]
    <2>2. u \in Update /\ u.of = r /\ u.is \in Kinds
      BY DEF Update
    <2>3. due' = [due EXCEPT ![r] = due[r] \o Items(due[r], u)] /\ wire' = Append(wire, u)
      BY <2>1
    <2> HIDE DEF u
    <2>4. due'[r] = Took(due[r], u) /\ \A s \in Runs \ {r} : due'[s] = due[s]
      BY <1>0, <2>2, <2>3 DEF Took, RemoteOK
    <2>5. agent' = agent /\ handoffs' = handoffs
      BY <1>7 DEF AgentSends, events
    <2> QED
      BY <1>6, <2>2, <2>3, <2>4, <2>5
  <1>8. CASE AgentReplies(r)
    <2>1. PICK k \in Replies : wire' = Append(wire, [of |-> r, is |-> k])
      BY <1>8 DEF AgentReplies
    <2> DEFINE u == [of |-> r, is |-> k]
    <2>2. u \in Reply /\ u.of = r /\ u.is \notin Kinds
      BY DEF Reply, Replies, Reasons, Kinds
    <2>3. wire' = Append(wire, u)
      BY <2>1
    <2> HIDE DEF u
    <2>4. due' = due /\ handoffs' = handoffs /\ agent' = [agent EXCEPT ![r] = "done"]
      BY <1>8 DEF AgentReplies, events
    <2>5. due'[r] = Took(due[r], u) /\ \A s \in Runs \ {r} : due'[s] = due[s]
                                                            /\ agent'[s] = agent[s]
      BY <1>0, <2>2, <2>4 DEF Took, RemoteOK
    <2> QED
      BY <1>6, <2>2, <2>3, <2>4, <2>5
  <1>9. CASE Transfer(r)
    <2>1. /\ UNCHANGED <<agent, due, wire>>
          /\ handoffs' = handoffs \/ handoffs' = [handoffs EXCEPT ![r] = handoffs[r] \cup {r}]
      BY <1>3, <1>9 DEF Transfer, remote
    <2>2. \A s \in Runs : OnWire(s)' = OnWire(s)
      BY <2>1 DEF OnWire
    <2>3. \A s \in Runs : Busy(s)' = Busy(s) /\ Unfinished(s)' = Unfinished(s)
      BY <1>1, <2>1, <2>2 DEF Busy, InProgress, Unfinished
    <2>4. \A s \in Runs : handoffs'[s] \subseteq {s}
      <3>1. \A s \in Runs : handoffs[s] \subseteq {s}
        BY <1>2 DEF Theirs
      <3>2. \A s \in Runs : handoffs'[s] = handoffs[s] \/ (s = r /\ handoffs'[s] = handoffs[s] \cup {r})
        BY <1>0, <2>1 DEF EventsOK
      <3> QED
        BY <3>1, <3>2
    <2>5. Alone'
      BY <1>2, <2>3 DEF Alone
    <2>6. ASSUME NEW s \in Runs PROVE Theirs(s)'
      <3>1. Theirs(s)
        BY <1>2
      <3> QED
        BY <1>1, <2>1, <2>3, <2>4, <3>1 DEF Theirs
    <2> QED
      BY <2>5, <2>6
  <1> QED
    BY <1>7, <1>8, <1>9

LEMMA OrderOfDeath ==
    ASSUME TypeOK, OrderInv, KillProcess \/ ProcessDies
    PROVE  OrderInv'
  <1>1. /\ agent' = [r \in Runs |-> IF agent[r] = "works" THEN "done" ELSE agent[r]]
        /\ UNCHANGED <<pc, ended, crossed, hook, handler, collected, handoffs, due, wire>>
    BY DEF KillProcess, ProcessDies, Ends, member, call, events, past
  <1>2. \A r \in Runs : OnWire(r)' = OnWire(r)
    BY <1>1 DEF OnWire
  <1>3. \A r \in Runs : (Unfinished(r)' => Unfinished(r)) /\ (Busy(r)' => Busy(r))
    BY <1>1, <1>2 DEF Unfinished, Busy, InProgress
  <1>4. Alone => Alone'
    BY <1>3 DEF Alone
  <1>5. ASSUME NEW r \in Runs, Theirs(r) PROVE Theirs(r)'
    BY <1>1, <1>3, <1>5 DEF Theirs
  <1> QED
    BY <1>1, <1>4, <1>5 DEF OrderInv

(* The connection takes an update, or a reply.                              *)
LEMMA OrderOfReceipt ==
    ASSUME TypeOK, WireInv, OrderInv, Receive
    PROVE  OrderInv'
  <1> SUFFICES ASSUME ~crossed' PROVE Alone' /\ \A s \in Runs : Theirs(s)'
    BY DEF OrderInv
  <1>0. CallOK /\ RemoteOK /\ EventsOK
    BY Groups
  <1>1. /\ ~crossed /\ wire # <<>> /\ wire' = Tail(wire)
        /\ UNCHANGED <<agent, due, hook, handler, handoffs>>
    <2>1. CASE SessionUpdate
      BY <2>1 DEF SessionUpdate, member, call, past
    <2>2. CASE PromptResponse
      BY <2>2 DEF PromptResponse, member, events, past
    <2> QED
      BY <2>1, <2>2 DEF Receive
  <1>2. Alone /\ \A s \in Runs : Theirs(s)
    BY <1>1 DEF OrderInv
  <1>3. PICK r \in Runs :
            /\ r = Head(wire).of /\ Unfinished(r) /\ handler = r /\ hook = r
            /\ \A s \in Runs : Busy(s) => s = r
    BY <1>1, <1>2, OnlyOne DEF Theirs, Busy
  <1>4. \A s \in Runs : OnWire(s)' => OnWire(s)
    BY <1>1, WireShrinks
  <1>5. \A s \in Runs : Unfinished(s)' => Unfinished(s)
    BY <1>1, <1>4 DEF Unfinished
  <1>6. OnWire(r)
    BY <1>1, <1>3, WireShrinks
  <1>7. pc[r] \notin Before /\ pc[r] # "result" /\ ended[r] # "done"
    BY <1>6 DEF WireInv, Quiet, EndInv
  <1>8. /\ collected[r] \in Seq(Item) /\ due[r] \in Seq(Item)
        /\ wire \in Seq(Update \cup Reply) /\ Head(wire) \in Update \cup Reply
    BY <1>0, <1>1, WireHead DEF EventsOK, RemoteOK
  <1>9. pc[r] = "wait" => Leads(Took(collected[r], Head(wire)), wire', due[r])
    BY <1>1, <1>2, <1>8, LeadsLess DEF Theirs
  <1>10. ASSUME \A s \in Runs \ {r} : pc'[s] = pc[s] /\ ended'[s] = ended[s]
                                       /\ collected'[s] = collected[s]
         PROVE  \A s \in Runs \ {r} : ~Busy(s)' /\ Theirs(s)'
    <2> SUFFICES ASSUME NEW s \in Runs \ {r} PROVE ~Busy(s)' /\ Theirs(s)'
      OBVIOUS
    <2>1. ~Busy(s) /\ pc[s] # "wait"
      BY <1>3 DEF Busy, InProgress
    <2>2. ~Busy(s)' /\ ~Unfinished(s)'
      BY <1>5, <1>10, <2>1 DEF Busy, InProgress
    <2>3. Theirs(s)
      BY <1>2
    <2> QED
      BY <1>1, <1>10, <2>1, <2>2, <2>3 DEF Theirs
  <1>11. ASSUME Theirs(r)', \A s \in Runs \ {r} : ~Busy(s)' /\ Theirs(s)'
         PROVE  Alone' /\ \A s \in Runs : Theirs(s)'
    BY <1>11 DEF Alone
  <1>12. CASE SessionUpdate
    <2>1. /\ pc' = pc /\ ended' = ended /\ Head(wire).is \in Kinds
          /\ collected' = IF At(r, "over") THEN collected
                          ELSE [collected EXCEPT ![r] = collected[r]
                                                        \o Items(collected[r], Head(wire))]
      BY <1>3, <1>12 DEF SessionUpdate, call
    <2>2. pc[r] = "wait" => collected'[r] = Took(collected[r], Head(wire))
      BY <1>0, <2>1 DEF At, Took, EventsOK
    <2>3. \A s \in Runs \ {r} : collected'[s] = collected[s]
      BY <1>0, <2>1 DEF EventsOK
    <2>4. handoffs[r] \subseteq {r}
      BY <1>2 DEF Theirs
    <2>5. Theirs(r)'
      BY <1>1, <1>3, <1>7, <1>9, <2>1, <2>2, <2>4 DEF Theirs
    <2> QED
      BY <1>10, <1>11, <2>1, <2>3, <2>5
  <1>13. CASE PromptResponse
    <2>1. ~OnWire(r)' /\ agent[r] = "done"
      BY <1>3, <1>13, ReplyIsLast DEF WireInv, OnWire
    <2>2. collected' = collected /\ Head(wire).is \notin Kinds
      BY <1>13 DEF PromptResponse, events, Kinds, Replies, Reasons
    <2>3. wire' = <<>> /\ Len(wire') = 0
      <3>1. ASSUME NEW i \in 1..Len(wire') PROVE FALSE
        <4>1. wire' \in Seq(Update \cup Reply)
          BY <1>1, WireHead
        <4>2. wire'[i].of \in Runs
          BY <4>1 DEF Update, Reply
        <4>3. PICK s \in Runs : s = wire'[i].of
          BY <4>2
        <4>4. OnWire(s)'
          BY <4>3 DEF OnWire
        <4>5. Unfinished(s)
          BY <1>4, <4>4 DEF Unfinished
        <4> QED
          BY <1>3, <2>1, <4>4, <4>5 DEF Busy
      <3>2. wire' \in Seq(Update \cup Reply)
        BY <1>1, WireHead
      <3> QED
        BY <3>1, <3>2
    <2>4. pc[r] = "wait" => collected[r] = due[r]
      BY <1>8, <1>9, <2>2, <2>3, LeadsNowhere DEF Took
    <2>5. ~Unfinished(r)'
      BY <1>1, <2>1 DEF Unfinished
    <2>6. \/ pc[r] # "wait" /\ pc' = pc /\ ended' = ended
          \/ pc[r] = "wait" /\ pc' = [pc EXCEPT ![r] = "end"]
             /\ ended' = [ended EXCEPT ![r] = "error"]
          \/ pc[r] = "wait" /\ pc' = [pc EXCEPT ![r] = "result"] /\ ended' = ended
      BY <1>3, <1>13 DEF PromptResponse, At, Go
    <2>7. \A s \in Runs \ {r} : pc'[s] = pc[s] /\ ended'[s] = ended[s]
      BY <1>0, <2>6 DEF CallOK
    <2>8. \/ pc'[r] = pc[r] /\ pc[r] # "wait" /\ ended'[r] = ended[r]
          \/ pc[r] = "wait" /\ pc'[r] = "end" /\ ended'[r] = "error"
          \/ pc[r] = "wait" /\ pc'[r] = "result" /\ ended'[r] = ended[r]
      BY <1>0, <2>6 DEF CallOK
    <2>9. handoffs[r] \subseteq {r}
      BY <1>2 DEF Theirs
    <2>10. Theirs(r)'
      BY <1>1, <1>3, <1>7, <2>2, <2>4, <2>5, <2>8, <2>9 DEF Theirs, Before
    <2> QED
      BY <1>10, <1>11, <2>2, <2>7, <2>10
  <1> QED
    BY <1>12, <1>13 DEF Receive

LEMMA OrderStep == TypeOK /\ WireInv /\ OrderInv /\ [Next]_vars => OrderInv'
  <1> SUFFICES ASSUME TypeOK, WireInv, OrderInv, [Next]_vars PROVE OrderInv'
    OBVIOUS
  <1>1. ASSUME UNCHANGED aspects PROVE OrderInv'
    BY <1>1 DEF aspects, OrderInv, Alone, Theirs, Busy, InProgress, Unfinished, OnWire
  <1>2. CASE UNCHANGED vars
    BY <1>1, <1>2 DEF vars, aspects
  <1>3. CASE Apart \/ \E r \in Runs : Cancel(r) \/ TakeEvent(r)
    BY <1>1, <1>3, ApartFrame
  <1>4. CASE KillProcess \/ ProcessDies
    BY <1>4, OrderOfDeath
  <1>5. CASE Receive
    BY <1>5, OrderOfReceipt
  <1>6. CASE \E r \in Runs : PrepareForTeam(r) \/ RunStep(r)
    BY <1>6, OrderOfPrepare, OrderOfRun
  <1>7. CASE \E r \in Runs : AgentSends(r) \/ AgentReplies(r) \/ Transfer(r)
    BY <1>7, OrderOfAgent
  <1> QED
    BY <1>2, <1>3, <1>4, <1>5, <1>6, <1>7 DEF Next, CloseStep, Apart

(* A run that is done has all its agent has sent and only the hand-offs its *)
(* own agent made, as long as runs do not cross (OnToolCall, result): what  *)
(* it has collected, the updates on their way always lead to what is due,   *)
(* and none are left behind its reply.                                      *)
THEOREM ResultsAreOwn == Spec => []ResultIsOwn
  <1>1. OrderInv => ResultIsOwn
    BY DEF OrderInv, Theirs, ResultIsOwn
  <1> QED
    BY <1>1, TypeInit, TypeStep, WireInit, WireStep, OrderInit, OrderStep, PTL DEF Spec

(* What has happened has.                                                   *)
LEMMA Grow ==
    ASSUME [Next]_vars, lost \/ crossed
    PROVE  lost' \/ crossed'
  <1>1. CASE UNCHANGED vars
    BY <1>1 DEF vars
  <1>2. CASE New \/ Close \/ CloseStep \/ ProcessDies \/ SyncMCPServerTools
    BY <1>2 DEF New, StartMCPServer, ConnectStdio, Initialize, AgentInitializes, NewSession,
                AgentOpensSession, HandshakeFails, Close, CloseStep, DropSession, CloseSession,
                KillProcess, StopMCPServer, ProcessDies, SyncMCPServerTools, past
  <1>3. CASE Receive
    BY <1>3 DEF Receive, SessionUpdate, PromptResponse, past
  <1>4. ASSUME NEW r \in Runs,
               \/ PrepareForTeam(r) \/ RunStep(r) \/ Cancel(r) \/ TakeEvent(r)
               \/ AgentSends(r) \/ AgentReplies(r) \/ Transfer(r)
        PROVE  lost' \/ crossed'
    BY <1>4 DEF PrepareForTeam, RunStep, CheckOpen, TakeSession, SetEventHandler, Prompt,
                PromptFails, CheckStopReason, EndRun, Cancel, TakeEvent, AgentSends,
                AgentReplies, Transfer, Fail, Pass, past
  <1> QED
    BY <1>1, <1>2, <1>3, <1>4 DEF Next

(* An update meets a closed channel only if a run was given up, or          *)
(* overtaken, before the agent was done with it (sendStreamEvent): what is  *)
(* on its way is else for a run that waits for its reply.                   *)
THEOREM PanicsLate == Spec => []PanicOnlyLate
  <1>1. Init => PanicOnlyLate
    BY DEF Init, PanicOnlyLate
  <1>2. TypeOK /\ WireInv /\ OrderInv /\ PanicOnlyLate /\ [Next]_vars => PanicOnlyLate'
    <2> SUFFICES ASSUME TypeOK, WireInv, OrderInv, PanicOnlyLate, [Next]_vars, panicked'
                 PROVE  lost' \/ crossed'
      BY DEF PanicOnlyLate
    <2>1. CASE SessionUpdate
      <3>1. At(handler, "over") /\ wire # <<>> /\ lost' = lost /\ crossed' = crossed
        BY <2>1 DEF SessionUpdate, past
      <3>2. ASSUME ~crossed, ~lost PROVE FALSE
        <4>1. /\ Head(wire).of \in Runs /\ Unfinished(Head(wire).of)
              /\ handler = Head(wire).of
          BY <3>1, <3>2, OnlyOne
        <4>2. pc[handler] = "wait"
          BY <3>2, <4>1 DEF WireInv, LostInv
        <4> QED
          BY <3>1, <4>2 DEF At
      <3> QED
        BY <3>1, <3>2
    <2>2. CASE ~SessionUpdate
      <3>1. panicked' = panicked
        <4>1. CASE UNCHANGED vars
          BY <4>1 DEF vars
        <4>2. CASE New \/ Close \/ CloseStep \/ ProcessDies \/ SyncMCPServerTools
          BY <4>2 DEF New, StartMCPServer, ConnectStdio, Initialize, AgentInitializes, NewSession,
                      AgentOpensSession, HandshakeFails, Close, CloseStep, DropSession,
                      CloseSession, KillProcess, StopMCPServer, ProcessDies,
                      SyncMCPServerTools, events
        <4>3. CASE PromptResponse
          BY <4>3 DEF PromptResponse, events
        <4>4. ASSUME NEW r \in Runs,
                     \/ PrepareForTeam(r) \/ RunStep(r) \/ Cancel(r) \/ TakeEvent(r)
                     \/ AgentSends(r) \/ AgentReplies(r) \/ Transfer(r)
              PROVE  panicked' = panicked
          BY <4>4 DEF PrepareForTeam, RunStep, CheckOpen, TakeSession, SetEventHandler, Prompt,
                      PromptFails, CheckStopReason, EndRun, Cancel, TakeEvent, AgentSends,
                      AgentReplies, Transfer, events
        <4> QED
          BY <2>2, <4>1, <4>2, <4>3, <4>4 DEF Next, Receive
      <3>2. lost \/ crossed
        BY <3>1 DEF PanicOnlyLate
      <3> QED
        BY <3>2, Grow
    <2> QED
      BY <2>1, <2>2
  <1> QED
    BY <1>1, <1>2, TypeInit, TypeStep, WireInit, WireStep, OrderInit, OrderStep, PTL DEF Spec
=============================================================================
