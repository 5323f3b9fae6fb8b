----------------------------- MODULE ACPRunner -----------------------------
(* runner/acp/runner.go, acp/client.go and acp/server.go: a team member that *)
(* is a process of its own.  The runner starts the process, shakes hands,   *)
(* and sends it prompts; while the agent works on one it streams updates    *)
(* back, which go to the handler registered last, and may call the transfer *)
(* tools the runner serves.  A run may be cancelled, the runner closed and  *)
(* the process die at any time.                                             *)
EXTENDS Naturals, Sequences

CONSTANTS
    Runs,           \* runs of the member, by one team or several
    Streaming,      \* those that stream (RunStreamWithPrefix)
    Others,         \* names of other members
    Cap,            \* room for events in the channel of a run
    Scenarios,      \* the runs there are, and bounds on the updates the agent sends,
                    \* the changes of the membership, and the faults: cancellations,
                    \* deaths of the process and Close
    None

ASSUME ACPRunnerAssumption ==
    /\ Streaming \subseteq Runs
    /\ Cap \in Nat \ {0}
    /\ Scenarios \subseteq [runs : SUBSET Runs, sends : Nat, changes : Nat, faults : Nat]
    /\ None \notin Runs

VARIABLES
    setup,      \* how far New has come
    process,    \* the agent's process
    mcp,        \* the server of the transfer tools is up
    closed, session, closer,
    tools,      \* the transfer tools it offers
    hook,       \* the run whose callback is stored (onHandoff), and
    final,      \* whether it must not hand over (forceFinal)
    handler,    \* the run whose handler the session calls
    pc,         \* where a run is
    cancelled,  \* its context is
    buffer, left, \* events in its channel; its reader has gone
    collected,  \* what its collector holds
    handoffs,   \* the prompts whose hand-offs it was given
    stop,       \* the reason the agent gave for stopping
    ended,      \* its terminal event
    agent,      \* what the agent does about its prompt
    due,        \* history: what a collector of just the updates sent for it would hold
    wire,       \* updates and replies on their way, in order
    panicked,   \* an update has met a closed channel
    halted,     \* a panic while tools were registered has ended the program
    crossed,    \* history: a run has begun before the agent was done with another
    lost,       \* history: a run was given up before the agent was done with it
    sends, changes, faults \* what may still happen

link == <<setup, process, mcp, closed, session, closer>>
member == <<tools, changes, halted, hook, final>>
call == <<pc, cancelled, stop, ended, handler>>
events == <<buffer, left, collected, handoffs, panicked>>
remote == <<agent, due, sends, wire>>
past == <<crossed, lost, faults>>
vars == <<setup, process, mcp, closed, session, closer, tools, changes, hook, final,
          handler, pc, cancelled, buffer, left, collected, handoffs, stop, ended,
          agent, due, sends, wire, panicked, halted, crossed, lost, faults>>

(* Text; a thought; a tool begins; it ends with output, or without.         *)
Kinds == {"text", "thought", "call", "output", "finished"}

(* What a collector records: text, calls and results.                       *)
Item == [of : Runs, is : {"text", "call", "result"}]

(* What a prompt is replied to with: a reason for stopping, which may be    *)
(* empty, or an error.                                                      *)
Reasons == {"end_turn", "refusal", ""}
Replies == Reasons \cup {"error"}

Update == [of : Runs, is : Kinds]
Reply == [of : Runs, is : Replies]

TypeOK ==
    /\ setup \in {"none", "serving", "connected", "initializing", "initialized", "opening",
                  "ready", "failed"}
    /\ process \in {"none", "alive", "dead"}
    /\ mcp \in BOOLEAN /\ closed \in BOOLEAN /\ session \in BOOLEAN
    /\ closer \in {"none", "begun", "telling", "killing", "stopping", "over"}
    /\ tools \subseteq Others
    /\ hook \in Runs \cup {None} /\ final \in BOOLEAN
    /\ handler \in Runs \cup {None}
    /\ pc \in [Runs -> {"none", "begin", "take", "set", "prompt", "wait", "result", "end",
                        "over"}]
    /\ cancelled \in [Runs -> BOOLEAN]
    /\ buffer \in [Runs -> 0..Cap] /\ left \in [Runs -> BOOLEAN]
    /\ collected \in [Runs -> Seq(Item)]
    /\ handoffs \in [Runs -> SUBSET Runs]
    /\ stop \in [Runs -> Reasons \cup {None}]
    /\ ended \in [Runs -> {"none", "done", "error"}]
    /\ agent \in [Runs -> {"idle", "works", "done"}]
    /\ due \in [Runs -> Seq(Item)]
    /\ wire \in Seq(Update \cup Reply)
    /\ panicked \in BOOLEAN /\ halted \in BOOLEAN /\ crossed \in BOOLEAN /\ lost \in BOOLEAN
    /\ {sends, changes, faults} \subseteq Nat

Init ==
    /\ \E s \in Scenarios :
          /\ pc = [r \in Runs |-> IF r \in s.runs THEN "none" ELSE "over"]
          /\ sends = s.sends /\ changes = s.changes /\ faults = s.faults
    /\ setup = "none" /\ process = "none"
    /\ mcp = FALSE /\ closed = FALSE /\ session = FALSE /\ closer = "none"
    /\ tools = {}
    /\ hook = None /\ final = FALSE
    /\ handler = None
    /\ cancelled = [r \in Runs |-> FALSE]
    /\ buffer = [r \in Runs |-> 0] /\ left = [r \in Runs |-> FALSE]
    /\ collected = [r \in Runs |-> <<>>]
    /\ handoffs = [r \in Runs |-> {}]
    /\ stop = [r \in Runs |-> None]
    /\ ended = [r \in Runs |-> "none"]
    /\ agent = [r \in Runs |-> "idle"]
    /\ due = [r \in Runs |-> <<>>]
    /\ wire = <<>>
    /\ panicked = FALSE /\ halted = FALSE /\ crossed = FALSE /\ lost = FALSE

(* A panic that nobody recovers ends the program.                           *)
Alive == ~panicked /\ ~halted

At(r, where) == Alive /\ pc[r] = where

Go(r, where) == pc' = [pc EXCEPT ![r] = where]

InProgress(r) == pc[r] \notin {"none", "over"}

OnWire(r) == \E i \in 1..Len(wire) : wire[i].of = r

Fault == faults > 0 /\ faults' = faults - 1

Unfinished(r) == agent[r] = "works" \/ OnWire(r)

-----------------------------------------------------------------------------
(* New: the tool server, the process, the handshake, the session.  What has *)
(* been started is stopped when a later step fails.                         *)
StartMCPServer ==
    /\ Alive /\ setup = "none"
    /\ \/ setup' = "serving" /\ mcp' = TRUE
       \/ setup' = "failed" /\ UNCHANGED mcp
    /\ UNCHANGED <<process, closed, session, closer, member, call, events, remote, past>>

ConnectStdio ==
    /\ Alive /\ setup = "serving"
    /\ \/ setup' = "connected" /\ process' = "alive" /\ session' = TRUE /\ UNCHANGED mcp
       \/ setup' = "failed" /\ mcp' = FALSE /\ UNCHANGED <<process, session>>
    /\ UNCHANGED <<closed, closer, member, call, events, remote, past>>

(* The handshake: the agent is asked for its capabilities, then for a       *)
(* session, and answers.                                                    *)
Initialize ==
    /\ Alive /\ setup = "connected"
    /\ setup' = "initializing"
    /\ UNCHANGED <<process, mcp, closed, session, closer, member, call, events, remote, past>>

AgentInitializes ==
    /\ Alive /\ setup = "initializing" /\ process = "alive"
    /\ setup' = "initialized"
    /\ UNCHANGED <<process, mcp, closed, session, closer, member, call, events, remote, past>>

NewSession ==
    /\ Alive /\ setup = "initialized"
    /\ setup' = "opening"
    /\ UNCHANGED <<process, mcp, closed, session, closer, member, call, events, remote, past>>

AgentOpensSession ==
    /\ Alive /\ setup = "opening" /\ process = "alive"
    /\ setup' = "ready"
    /\ UNCHANGED <<process, mcp, closed, session, closer, member, call, events, remote, past>>

(* A call of the handshake fails, or its 30 seconds are over.               *)
HandshakeFails ==
    /\ Alive /\ setup \in {"initializing", "opening"}
    /\ setup' = "failed" /\ closer' = "begun" /\ closed' = TRUE
    /\ UNCHANGED <<process, mcp, session, member, call, events, remote, past>>

New ==
    \/ StartMCPServer \/ ConnectStdio \/ Initialize \/ AgentInitializes
    \/ NewSession \/ AgentOpensSession \/ HandshakeFails

(* Close, by the team when the member is removed: the flag; the session,    *)
(* which is told (for up to 5 seconds); the process; the tool server.       *)
Close ==
    /\ Alive /\ setup = "ready" /\ closer = "none"
    /\ closer' = "begun" /\ closed' = TRUE
    /\ Fault
    /\ UNCHANGED <<setup, process, mcp, session, member, call, events, remote, crossed, lost>>

DropSession ==
    /\ Alive /\ closer = "begun"
    /\ closer' = "telling"
    /\ session' = FALSE
    /\ UNCHANGED <<setup, process, mcp, closed, member, call, events, remote, past>>

CloseSession ==
    /\ Alive /\ closer = "telling"
    /\ closer' = "killing"
    /\ UNCHANGED <<setup, process, mcp, closed, session, member, call, events, remote, past>>

(* A process that has ended works on nothing; what it has written is read.  *)
Ends ==
    /\ process' = "dead"
    /\ agent' = [r \in Runs |-> IF agent[r] = "works" THEN "done" ELSE agent[r]]

KillProcess ==
    /\ Alive /\ closer = "killing"
    /\ closer' = "stopping"
    /\ Ends
    /\ UNCHANGED <<setup, mcp, closed, session, member, call, events, due, sends, wire, past>>

StopMCPServer ==
    /\ Alive /\ closer = "stopping"
    /\ closer' = "over"
    /\ mcp' = FALSE
    /\ UNCHANGED <<setup, process, closed, session, member, call, events, remote, past>>

CloseStep == DropSession \/ CloseSession \/ KillProcess \/ StopMCPServer

ProcessDies ==
    /\ Alive /\ process = "alive"
    /\ Ends
    /\ Fault
    /\ UNCHANGED <<setup, mcp, closed, session, closer, member, call, events, due, sends,
                   wire, crossed, lost>>

-----------------------------------------------------------------------------
(* The team tells of its other members (OnMembersChanged).  The set of the  *)
(* names registered is never made, so that entering the first one panics,   *)
(* after the server has been given one of the tools and nothing else.  That *)
(* ends the program, unless the caller recovers, as an HTTP server does for *)
(* its handlers.                                                            *)
SyncMCPServerTools ==
    /\ Alive /\ mcp /\ changes > 0
    /\ changes' = changes - 1
    /\ \E others \in SUBSET Others :
          IF others = {} THEN UNCHANGED <<tools, halted>>
          ELSE tools' \in { tools \cup {t} : t \in others } /\ halted' \in BOOLEAN
    /\ UNCHANGED <<link, hook, final, call, events, remote, past>>

(* The team prepares the member and runs it.  The runner has one callback   *)
(* and one flag, those of the latest run.                                   *)
PrepareForTeam(r) ==
    /\ At(r, "none") /\ setup = "ready"
    /\ Go(r, "begin")
    /\ hook' = r
    /\ final' \in BOOLEAN
    /\ crossed' = (crossed \/ \E s \in Runs \ {r} : InProgress(s) \/ Unfinished(s))
    /\ UNCHANGED <<link, tools, changes, halted, cancelled, stop, ended, handler, events, remote,
                   lost, faults>>

Fail(r) ==
    /\ Go(r, "end")
    /\ ended' = [ended EXCEPT ![r] = "error"]
    /\ lost' = (lost \/ Unfinished(r))

Pass(r, where) == Go(r, where) /\ UNCHANGED <<ended, lost>>

CheckOpen(r) ==
    /\ At(r, "begin")
    /\ IF closed THEN Fail(r) ELSE Pass(r, "take")
    /\ UNCHANGED <<link, member, cancelled, stop, handler, events, remote, crossed, faults>>

TakeSession(r) ==
    /\ At(r, "take")
    /\ IF session THEN Pass(r, "set") ELSE Fail(r)
    /\ UNCHANGED <<link, member, cancelled, stop, handler, events, remote, crossed, faults>>

SetEventHandler(r) ==
    /\ At(r, "set")
    /\ handler' = r
    /\ Pass(r, "prompt")
    /\ UNCHANGED <<link, member, cancelled, stop, events, remote, crossed, faults>>

Prompt(r) ==
    /\ At(r, "prompt")
    /\ IF process = "alive" /\ ~cancelled[r]
       THEN Pass(r, "wait") /\ agent' = [agent EXCEPT ![r] = "works"]
       ELSE Fail(r) /\ UNCHANGED agent
    /\ UNCHANGED <<link, member, cancelled, stop, handler, events, due, sends, wire, crossed, faults>>

(* Mutant of PromptFails: it returns when its context is cancelled only.    *)
PromptCancelled(r) ==
    /\ At(r, "wait")
    /\ cancelled[r]
    /\ Fail(r)
    /\ UNCHANGED <<link, member, cancelled, stop, handler, events, remote, crossed, faults>>

(* The call returns when its context is cancelled or the connection ends,   *)
(* whatever the agent is doing.                                             *)
PromptFails(r) ==
    /\ At(r, "wait")
    /\ cancelled[r] \/ process = "dead"
    /\ Fail(r)
    /\ UNCHANGED <<link, member, cancelled, stop, handler, events, remote, crossed, faults>>

(* No reason is as good as the end of the turn.                             *)
CheckStopReason(r) ==
    /\ At(r, "result")
    /\ Go(r, "end")
    /\ ended' = [ended EXCEPT ![r] = IF stop[r] \in {"end_turn", ""} THEN "done" ELSE "error"]
    /\ UNCHANGED <<link, member, cancelled, stop, handler, events, remote, past>>

(* The terminal event waits for room; then the channel is closed.  What is  *)
(* in it, and what the run has held, matters no more.                       *)
EndRun(r) ==
    /\ At(r, "end")
    /\ r \in Streaming => buffer[r] < Cap
    /\ Go(r, "over")
    /\ buffer' = [buffer EXCEPT ![r] = 0]
    /\ left' = [left EXCEPT ![r] = FALSE]
    /\ collected' = [collected EXCEPT ![r] = <<>>]
    /\ handoffs' = [handoffs EXCEPT ![r] = {}]
    /\ stop' = [stop EXCEPT ![r] = None]
    /\ ended' = [ended EXCEPT ![r] = "none"]
    /\ cancelled' = [cancelled EXCEPT ![r] = FALSE]
    /\ due' = IF Unfinished(r) THEN due ELSE [due EXCEPT ![r] = <<>>]
    /\ UNCHANGED <<link, member, handler, panicked, agent, sends, wire, past>>

Cancel(r) ==
    /\ Alive /\ InProgress(r) /\ ~cancelled[r]
    /\ cancelled' = [cancelled EXCEPT ![r] = TRUE]
    /\ Fault
    /\ UNCHANGED <<link, member, pc, stop, ended, handler, events, remote, crossed, lost>>

(* The team takes an event (runAgentStreaming), and no more if its context  *)
(* is cancelled.                                                            *)
TakeEvent(r) ==
    /\ Alive /\ buffer[r] > 0 /\ ~left[r]
    /\ buffer' = [buffer EXCEPT ![r] = @ - 1]
    /\ left' = [left EXCEPT ![r] = cancelled[r]]
    /\ UNCHANGED <<link, member, call, collected, handoffs, panicked, remote, past>>

-----------------------------------------------------------------------------
(* What the handler of a run makes of an update.  OnToolCall: of a tool the *)
(* call once, when it is first heard of, and its output.                    *)
OnToolCall(c, u) ==
    LET called == [of |-> u.of, is |-> "call"]
    IN  (IF \E i \in 1..Len(c) : c[i] = called THEN <<>> ELSE <<called>>)
        \o (IF u.is = "output" THEN <<[of |-> u.of, is |-> "result"]>> ELSE <<>>)

(* For the collector, which thoughts are not for.                           *)
Items(c, u) ==
    CASE u.is = "text"    -> <<[of |-> u.of, is |-> "text"]>>
      [] u.is = "thought" -> <<>>
      [] OTHER            -> OnToolCall(c, u)

-----------------------------------------------------------------------------
(* The agent at work on a prompt: it sends updates, replies, or calls a     *)
(* transfer tool, which is taken for one of the run prepared last.          *)
AgentSends(r) ==
    /\ Alive /\ agent[r] = "works" /\ process = "alive"
    /\ sends > 0
    /\ sends' = sends - 1
    /\ \E k \in Kinds :
          LET u == [of |-> r, is |-> k] IN
          /\ due' = [due EXCEPT ![r] = @ \o Items(@, u)]
          /\ wire' = Append(wire, u)
    /\ UNCHANGED <<link, member, call, events, agent, past>>

AgentReplies(r) ==
    /\ Alive /\ agent[r] = "works" /\ process = "alive"
    /\ agent' = [agent EXCEPT ![r] = "done"]
    /\ \E k \in Replies : wire' = Append(wire, [of |-> r, is |-> k])
    /\ UNCHANGED <<link, member, call, events, due, sends, past>>

Transfer(r) ==
    /\ Alive /\ agent[r] = "works" /\ process = "alive" /\ mcp
    /\ tools # {} /\ ~final
    /\ handoffs' = IF At(hook, "over") THEN handoffs
                   ELSE [handoffs EXCEPT ![hook] = @ \cup {r}]
    /\ UNCHANGED <<link, member, call, buffer, left, collected, panicked, remote, past>>

-----------------------------------------------------------------------------
(* For the channel, if there is one: how many events.                       *)
Events(h, u) ==
    IF h \notin Streaming THEN 0
    ELSE IF u.is = "thought" THEN 1 ELSE Len(Items(collected[h], u))

(* Mutant of Sent: events are put where there is no room.                   *)
SentAnyway(h, n) == buffer[h] + n

(* sendStreamEvent: what there is no room for is dropped.                   *)
Sent(h, n) == IF buffer[h] + n > Cap THEN Cap ELSE buffer[h] + n

(* Mutant of SessionUpdate: what does not fit the channel is not collected. *)
SessionUpdateIfRoom ==
    LET u == Head(wire)
        h == handler
        n == Events(h, u)
    IN  /\ Alive /\ wire # <<>> /\ u.is \in Kinds
        /\ wire' = Tail(wire)
        /\ collected' = IF At(h, "over") \/ (n > 0 /\ buffer[h] + n > Cap) THEN collected
                        ELSE [collected EXCEPT ![h] = @ \o Items(@, u)]
        /\ panicked' = (n > 0 /\ At(h, "over"))
        /\ buffer' = IF At(h, "over") THEN buffer
                     ELSE [buffer EXCEPT ![h] = Sent(h, n)]
        /\ UNCHANGED <<link, member, call, left, handoffs, agent, due, sends, past>>

(* SessionUpdate: the collector takes all, the channel what it has room     *)
(* for; a channel that is closed takes nothing but panics.                  *)
SessionUpdate ==
    LET u == Head(wire)
        h == handler
        n == Events(h, u)
    IN  /\ Alive /\ wire # <<>> /\ u.is \in Kinds
        /\ wire' = Tail(wire)
        /\ collected' = IF At(h, "over") THEN collected
                        ELSE [collected EXCEPT ![h] = @ \o Items(@, u)]
        /\ panicked' = (n > 0 /\ At(h, "over"))
        /\ buffer' = IF At(h, "over") THEN buffer
                     ELSE [buffer EXCEPT ![h] = Sent(h, n)]
        /\ UNCHANGED <<link, member, call, left, handoffs, agent, due, sends, past>>

(* The reply is given to the call that waits for it, if it still does.      *)
PromptResponse ==
    LET u == Head(wire) IN
    /\ Alive /\ wire # <<>> /\ u.is \in Replies
    /\ wire' = Tail(wire)
    /\ \/ ~At(u.of, "wait") /\ UNCHANGED <<pc, ended, stop>>
       \/ At(u.of, "wait") /\ u.is = "error"
          /\ Go(u.of, "end") /\ ended' = [ended EXCEPT ![u.of] = "error"] /\ UNCHANGED stop
       \/ At(u.of, "wait") /\ u.is # "error"
          /\ Go(u.of, "result") /\ stop' = [stop EXCEPT ![u.of] = u.is] /\ UNCHANGED ended
    /\ UNCHANGED <<link, member, cancelled, handler, events, agent, due, sends, past>>

RunStep(r) ==
    \/ CheckOpen(r) \/ TakeSession(r) \/ SetEventHandler(r) \/ Prompt(r)
    \/ PromptFails(r) \/ CheckStopReason(r) \/ EndRun(r)

Receive == SessionUpdate \/ PromptResponse

Next ==
    \/ New \/ Close \/ CloseStep \/ ProcessDies \/ SyncMCPServerTools \/ Receive
    \/ \E r \in Runs :
          \/ PrepareForTeam(r) \/ RunStep(r) \/ Cancel(r) \/ TakeEvent(r)
          \/ AgentSends(r) \/ AgentReplies(r) \/ Transfer(r)

Spec == Init /\ [][Next]_vars

(* Go schedules the runs and Close, the connection reads what has arrived,  *)
(* the team takes events, and an agent that lives replies.                  *)
FairSpec ==
    /\ Spec
    /\ WF_vars(CloseStep) /\ WF_vars(Receive)
    /\ \A r \in Runs :
          /\ WF_vars(RunStep(r)) /\ WF_vars(TakeEvent(r))
          /\ WF_vars(AgentReplies(r))

-----------------------------------------------------------------------------
(* A run that is done returns what the agent has sent for its prompt, all   *)
(* of it, events dropped or not, with each tool's call once and first, and  *)
(* it is given only the hand-offs its own agent made; this if no run begins *)
(* before the agent is done with the one before (OnToolCall, result).       *)
ResultIsOwn ==
    ~crossed => \A r \in Runs :
        ended[r] = "done" =>
            /\ collected[r] = due[r]
            /\ handoffs[r] \subseteq {r}

(* An update meets a closed channel only if its run was given up, or        *)
(* overtaken by another, before the agent was done with it                  *)
(* (sendStreamEvent).                                                       *)
PanicOnlyLate == panicked => lost \/ crossed

(* What runner.go says of Close: "in-flight runs will fail with an error    *)
(* rather than panic".  Runs that crossed are left out.                     *)
CloseNeverPanics == closed /\ ~crossed => ~panicked

(* A run ends, whether the runner is closed, the process dies or the        *)
(* context is cancelled, as long as its events are taken.                   *)
RunsEnd == \A r \in Runs : InProgress(r) ~> ~InProgress(r) \/ left[r] \/ ~Alive
=============================================================================
