# Verification of openagent-go

TLA+ models of the concurrent parts of openagent-go, the TLC runs that check them on small
instances, and proofs, checked by TLAPS, that hold for every instance. File references are to
`src/`.

    tlc -workers 2 -config EventBus_pass.cfg MCEventBus.tla      # a run
    tlapm PlanExecutorProofs.tla                                 # the proofs of a module

## 1. The system

openagent-go is a library for agents built on language models, with a REST server on top.

| Part | State it keeps | Operations | Talks to |
|---|---|---|---|
| Event bus (`eventbus/bus.go`) | a map from session id to topic (under `Bus.mu`); per topic the subscriptions and a replay history (under `topic.mu`); per subscription a channel of 64 and a closed flag | Subscribe, SubscribeLive, Unsubscribe, Publish, RemoveTopic | all REST handlers publish; SSE handlers read |
| Plan executor (`plan/executor.go`, `plan/plan.go`) | `PlanState`: results per step, the definition, replan count | Execute, ExecuteStream, ExecuteWithState, ReplanWithFeedback | agents (runs), planner (replans), event channel to the caller |
| Plan graph (`plan/validate.go`, `topoSortPending`, `affectedSteps`) | none | validation, batches, affected subtree | executor, planner |
| Planner (`plan/planner.go`) | none | Plan, Replan, with retries of a model call | model |
| Plan sessions (`rest/plan_handler.go`) | `planSessionState`: current definition, running, cancel function, paused state, retry channel, approval slot | generate, update, execute, cancel, retry, replan, approve, events | executor, bus, session registry |
| Session registry (`rest/session_manager.go`, stores) | entries and last access (under `sm.mu`), persistent metadata | create, get, update, delete, evict, getOrCreate; saves in goroutines of their own | store, memory, bus |
| Chat handler (`rest/handler.go`, `rest/sse.go`) | running flag, approval slot | chat, approve, events | runner, bus, registry |
| Team runner (`team.go`, `router.go`) | members, observers (under a mutex); per run: active agent, hand-off slot, history of hand-offs | AddAgent, RemoveAgent, Run, RunStream | runners, hand-off tool |
| Team handler (`rest/team.go`, `rest/team_memory.go`) | per session a team and its memory | chat, agents, messages | team, registry, bus |
| Agent runner (`runner.go`, `agent.go`, `options.go`) | per run: messages, turn, usage; the agent's tool list | Run, RunStream, tools in parallel, sub-agents, memory compaction | model, tools, guards, approver, memory |
| Memory (`memory.go`, `memory/file`, `memory/sqlite`) | messages and compressed prefix per session | Append, Recent, Compact, Count, DeleteSession | runner, handlers |
| ACP (`runner/acp`, `acp/`) | connection to an external agent, hand-off slot, synchronised tool names | Run, PrepareForTeam, Close | external process |
| MCP, models, guards, hooks, tools, skills, sandbox, plugins, tokenizer, commands, examples | little or none | call-outs and I/O | |

**What is hard.** Nearly all parts are used by many goroutines. The bus takes two locks one after
the other, never together, and closes channels others send to. The executor runs steps in parallel
in an errgroup whose first failure cancels the siblings wherever they are, is paused and resumed
through state shared with its caller, and edits its own graph between attempts. The plan handlers
read shared fields in one lock section and act on them much later (a planner call may take two
minutes). The registry saves in goroutines without order. Compaction counts messages in one window
and cuts in another. `PROJECT.json` lists these hazards line by line with the properties that would
show them going wrong, and says of each one without a property why.

**What makes the parts correct.**

* Event bus: no send on a closed channel and no double close; every reader sees a gapless ordered
  stream from its replay on while it keeps up; readers of a removed session see the end.
* Executor: a step runs on finished dependencies only; finished work is never lost or repeated;
  "done" means every step is done; pauses have a cause; gates are paused at; it terminates.
* Plan session: one execution at a time, which the fields tell of truly; answers reach the pause
  they were given for; cancelling works; watchers see the end.
* Registry: one live entry per id; deleted sessions stay deleted; metadata survives eviction.
* Approval: every request is answered once, by the answer meant for it.
* Team: no loop of hand-offs goes on, a member asked by another sees the question, the list of
  members agrees with the members, a chat ends.
* Memory and runner: what a model is not shown of a history is in the summary; what it is sent is a
  conversation it accepts, each call with its results, in order; a run ends.
* ACP runner: a run returns what the agent sent for it, nothing is sent on its channel after it is
  closed, and it ends whatever becomes of the process.

## 2. The modules

| Module | Models | Extends / instantiates |
|---|---|---|
| `EventBus` | one session's topics in `eventbus/bus.go` | |
| `PlanGraph` | validity, ready batch and affected subtree, as mathematics | |
| `PlanExecutor` | `plan/executor.go`, with its caller's cancel and resume | `PlanGraph`, `PlanWork` |
| `PlanWork` | what the executor promises (the abstract specification) | `PlanGraph` |
| `PlanSession` | `rest/plan_handler.go` around one session | |
| `ChatSession` | `rest/session_manager.go` and `rest/handler.go` around one session | |
| `Conversation` | what a history is and where it is cut: `message.go`, `memory.go`, the windows of both stores, `trimToContextWindow`; functions only | |
| `AgentRunner` | `runner.go` and `agent.go` with `memory/file` or `memory/sqlite`, the guard and the skills | `Conversation` |
| `Team` | `team.go`, `router.go`, `rest/team.go`, `rest/team_memory.go` around one session | |
| `ACPRunner` | `runner/acp/runner.go` with `acp/client.go` and `acp/server.go` | |
| `MC...` | the instances TLC checks | the module named |
| `...Proofs` | theorems and proofs | the module named |

### EventBus

One id, whose topic is created, removed and created again (`Topics`); ids share nothing else.
`current` is the entry in the map; `subs`, `history`, `count` belong to a topic; `delivered[s]` is
everything ever sent into the channel of subscription `s`, of which its reader has taken the first
`nread[s]`, so that the channel holds the rest and `Room` is its free buffer. An event is its number
in the topic. Each section under `Bus.mu` or `topic.mu` is one action, as is each of the three steps
of `Unsubscribe` (swap the flag, leave the list, close). Goroutines carry the topic they looked up
(`home`, `ptopic`, `rtopic`) from one section to the next, which is where the interleavings are.
A Go panic (`panic`) stops everything. `from[s]` is a history variable: the first event `s` is owed.

### PlanGraph, PlanExecutor and PlanWork

`plan` and `deps` are the current definition, `result`, `retries` and `cause` the records of its
steps. `mpc` is the goroutine of `execute`: at the top of the replan loop, between batches, in
`g.Wait`, at `findFailed`, in the replanner, or ended with an `outcome`. `gpc[s]` is the goroutine of
a step in the errgroup: queued for a slot, spawned, running, between retries, through, and gone.
`groupErr` is the cancellation of the group, `ctxDone` that of the caller. The caller's actions are
`Cancel`, `ResumeRetry` and `ResumeReplanned`, which do what `rest/plan_handler.go` does with a
paused plan when nothing else interferes (interference is `PlanSession`'s subject). A replan may give a new
step the id of one that stays: no check keeps it from that when it comes from a caller's feedback
(`plan.go:311-319`), and the automatic one is refused by the merged plan's validation (`MergeValidates`).
`doubled` holds such ids. The two steps share a result and, as steps are looked up by id, an agent; the later
one's dependencies are sorted (`deps`), both are followed from a failure (`allDeps`). `unrunnable` are the steps
whose agent is none of the executor's. `shown` and `passedBy` are history variables: the gates at which
the plan has paused, and those done in a batch that failed or paused at another.

The graph algorithms are stated by what they compute: `Valid` says that every set of steps left can
go on, which is what Kahn's loop decides; `Ready` is the batch it takes; `Affected` is the least set
with the failed step that is closed under dependents. Which failed step is reported, and which gate
of several, depends on the order of a list in the code and is left open here. Model answers (new
steps, their dependencies) are chosen freely among those the code accepts.

`PlanWork` knows only steps, needs, completion and the final report. `PlanExecutor` implements it
with `completed <- Done` and `finished <- (outcome = "done")`. Of a plan in which an id is that of two steps
(`twice`) it promises less, that what is completed may be undone when planning anew, and one with a step
that has no agent (`unfit`) it allows to be reported finished; otherwise work is completed once and for all, in order.

### PlanSession

`epc[e]` is the goroutine that `handleExecute` starts for the e-th execution; the variables grouped as `fields` are
those of `planSessionState`. `running` is not a variable of its own: the code sets and clears it with `execCancel` in
the same lock sections. `req[c]` is the request a client serves with everything it has read so far, so that it goes on
with it however stale. Each pause makes a numbered channel of capacity one (`slot`). Inside a call of
`ExecuteWithState` steps end in any order and the call ends as `PlanExecutor` lets it: paused by a failure or a gate,
done, or cancelled; dependencies are not repeated here. The agent of a step may ask for an approval (`asking`) and
waits until it is given, a sibling fails or the context ends; `pendingApproval` is the one slot of the session, which
the last to ask has. What the planner may answer is `Definitions`, and `Replacements` for a replan: anything that
validates. `reader` is one client of `handleEvents`, which returns on `plan_done`, `plan_error` or `plan_cancelled`.
It may fall behind by the 64 events its subscription holds, and the bus then drops what comes, an end as well
(`missed`): it never returns by itself after that. `scope`, chosen from `Scopes` and fixed, says how much of all this
a behaviour has: the steps, the clients, the executions and pauses, and what is made use of (`retry`, `replan`,
`cancel`, `events`, `approvals`). Every action of a part a scope leaves out is disabled, and the proofs hold for every
set of scopes.

### ChatSession

One session id. `entry` is what `sm.entries` holds for it; entries are numbered as they are made, since
handlers go on with objects that have left the map (`removed` says how). `running[e]` and `pending[e]`
are the fields of a `sessionState`. `store` is whether the `SessionStore` has a record, `saves` whether
calls of `Save` are under way: each may land at any time, or fail. `req[c]` is the request a client waits
for, stepped through the lock sections and store calls of `getOrCreate`, `withMeta`, `handleChat`,
`handleApprove`, `update` and `del`. `run[r]` joins the two goroutines of a chat: the agent's run, which
works, asks for approvals and sends a last event, and the one that forwards its events and clears the
fields when it ends. Of events only those that end a response matter (`over`), which are "done", "error",
the closing of the topic, and for a client that has left any event at all, as it cannot be written.

The history variables `overlapped`, `stray` and `stranded` mark entries on which the code does not keep what it
says (6, 7 and 8 in section 4); the properties are stated for the others. `scope` says how many requests and runs a
behaviour has.

### Conversation and AgentRunner

A message is its role, its number of calls and its size; a result answers the call its position says.
`Conversation` states by their meaning what the loops of `memory.go`, the stores and the runner compute:
which messages overflow a budget, where the boundary moves so as not to part calls from results, which
window a store returns, what the last resort before a model call cuts off, and what a team passes on.
A conversation is `Sound` when every call has its results behind it (else it is `Dangling`) and every result its
call before it (else it has `Orphans`). A cut that hides some results of a message and shows the others is `Torn`.

`AgentRunner` has one agent and one session, and runs one after the other. `pc` is where `run` is; each
call of the store, the model, the guard, the approver or a tool is a step, and each may fail (`Fault`).
`history` and `summary` are what is stored; the summary is how far it goes (`through`) and which messages
it was really made of (`covers`), so that a wrong index shows. `fetched`, `compressed` and `working` are
what the run has read of them and what it shows to the model. A run for a team begins with what other members
have said (`said`, cut by `CapMessages`) and a message that is not stored. The two stores differ where the code does:
the window they return, what `Compact` looks at first, and deletion, which is a transaction in one and two
removals in the other. `calls` are those of the last answer: approved or refused one by one, run side by
side, and fed back in order. Agents as tools, the spawning tool, which strips the shared list of tools
(`tools`) in place, and the skill tools, which share an unprotected map, have steps of their own.
`Crash` loses all but what is stored. `damaged`, `unread` and `revived` are history variables: calls
without results that a fault left behind, a run that a fault kept from reading all there was, and a summary
that has outlived its session. `lead` says what the cuts of the run have done to the front of what is shown: nothing
("whole"), hidden whole messages, parted calls from results ("torn"), or trimmed it to the context window. An agent
may have no summariser: `Compact` then does nothing, and older messages are hidden all the same.

### Team

`members` is the team's map, `list` the handler's copy of it, which another lock protects; `told[x]` is
what an external member was last told. Each request that changes the membership is stepped through its
sections (`op`). A chat is stepped through `teamRunner.run`: route, look the member up, run it, take the
hand-off it left in the slot, look for loops, go on. A member's run is reduced to what a team sees:
what it reads of the memory (`sees`), hand-offs it records, an approval it waits for, and its end.
`shared` and `own` are the two partitions of the memory. A run is shown the end that fits its budget (`Window`,
counted in messages of one size) of the shared messages followed by its own, so that shared ones, and the question
among them, are the first to be cut (`Fitting`); a message of the user that then comes last is taken for the
input (`TeamRecent`). Of its own messages only the number matters, up to `Window`.
The store is taken to answer every read, whose errors `teamAgentMemory` swallows. An observer may panic, as
the ACP runner does (section 4): the request ends there, and `unsettled` records it, as it does two changes at once.
An external member may hand over against what it was told, and is then vetoed.

### ACPRunner

`New` is stepped through the tool server, the process, the handshake of both ends and the session, and stops what it
has started when a step fails. `wire` is what the process has sent and the client has not handled; updates go to the
handler registered last, into a channel of `Cap` (32 in the code), which drops what it has no room for, and a
collector, which keeps all. `Close` sets its flag, drops the session, ends it, kills the process and stops the server,
each a step. An update that meets a closed channel panics (`panicked`), which ends the program (`Alive`); so does the
write of a nil map in `SyncMCPServerTools`, unless its caller recovers, as the HTTP server does (`halted`). `crossed`,
`lost` and `due` are history variables: a run began before the agent was done with another; a run was given up before
the agent was done with it; what a collector of just the updates sent for a run would hold.

## 3. The runs

| Run | Instance | Result |
|---|---|---|
| `eventbus` | 1 publisher, 2 subscriptions, 1 remover, 2 topics of 2 events, channel 1, history 1; 0.22 M states | holds |
| `eventbus_panic` | the same with 3 events, channel 2, history 2 | `NoSendOnClosed` violated |
| `plan` | 3 steps (chain, fork, join), gates `b` and `c`, the agent of `b` there or missing, 2 slots, 1 retry, 2 replans of up to 2 new steps, whose ids may be those of others, 2 resumes; 0.69 M states | holds |
| `plan_done_early` | the same | `DoneSaysAllRan` violated |
| `plan_session` | 6 scopes: 1 step that is a gate, 2 clients, up to 2 executions and 2 pauses; 1 client, 2 steps or 1 whose agents ask for approvals, 2 executions or 2 pauses; a reader that falls behind or not; 0.31 M states | holds |
| `plan_session_twice` | 2 steps, both clients may execute | `OneExecution` violated |
| `chat` | 2 clients, one of which chats; 2 scopes: 3 requests or restarts and 1 run, 2 requests and 2 runs; 1 approval; 0.19 M states | holds |
| `chat_hang` | 1 client, 1 chat | `ResponseEnds` violated |
| `agent` | 13 stores and agents to begin with, 1 or 2 runs of 2 turns with up to 2 calls, 1 retry, 1 fault, 3 messages passed on in a team; 0.73 M states | holds |
| `team` | 3 members, one external; 6 mixes of chats (up to 5 hand-offs, the limit being 4), changes of the membership and approvals; a window of 3 messages; 0.51 M states | holds |
| `acp` | 1 or 2 runs, one streaming into a channel of 1; 4 mixes of up to 3 updates, 1 change, 1 fault; 0.41 M states | holds |
| `acp_panic` | the same | `CloseNeverPanics` violated |

**What they show.**

* `eventbus`: `CloseOnce` (the flag and the order of `Unsubscribe` do keep closes
  apart from one another and from senders that see the live topic), `InOrder` and
  `ShortStreamComplete` (the seam between replay and live events has neither gap nor overlap),
  `EofAfterRemove` (liveness).
* `plan`: `DepsDoneBeforeStart`, `DoneMeansAllDone`, `NothingLeftRunning`, `PauseHasRootCause`,
  `GateStops` over every order in which steps start, fail, retry and are cancelled; `DoneIsFinal`
  over retries and replans; `Terminates`; and the refinement `ImplementsWork`. All of these also with a step whose
agent is missing, which fails before it has begun, and with replans that double an id; what they say of such plans is
stated in them.
* `plan_session`: `FieldsTellTheTruth`, `AnswerReachable`, `NoStaleResume`, `ReaderReturns`,
  `CancelEnds` with requests that overtake one another, answers sent twice or after the plan has gone
  on, planner calls that outlive a pause or a whole execution, and a deadline at any time. `CancelEnds`
  holds also where two steps share the one approval slot, so that one of them can never be answered; `ReaderReturns`
excepts a reader that is 64 events behind when the end comes.
* `chat`: `HeldIsListed` (the second look of `getOrCreate`), `EvictionSparesWork` and `Answerable` (while a
  chat goes on its entry stays where an approval looks for it, and an approval asked for is in the slot, on
  its way or given), `ChatsEnd` and `IdleEvicted` (liveness:
  the forwarding goroutine ends, and what it leaves behind can be evicted, except after a chat without a stream).
* `agent`: `NothingForgotten` (index arithmetic of two windows, an earlier summary and the boundary agree: what is
  shown is an unbroken end of the history, what a team passes on comes behind it, and what is hidden the summary was made
  of, where there is a summariser and all is fetched), `RequestSound` (each call has its results, and each result its
  call unless one cut, which the property names, tore them apart; through compaction, trimming, refusals, hand-over,
  further runs and the cut of what a team passes on), `RunsEnd`.
* `team`: `LoopStops`, `QuestionSeen` (while there is room for it behind other chats' messages and the member's own),
  `MembershipAgrees` (two locks and observers told outside of both), `ChatsEnd`.
* `acp`: `ResultIsOwn` (dropped events do not change a result; tools are recorded once, in order), `RunsEnd`.

**Bounds.** Two topics let a goroutine hold a removed topic while another is live; with two events, a channel and a
history of one, both overflow. Three steps are the least with a chain, a fork and a join; two slots make a third step
queue, two gates let one be passed by when both are done in a batch, and two replans, one retry and two resumes let
every outcome be followed by every other. In `plan_session` two executions let requests outlive one, two pauses let an
answer miss the one it was given for; a single step that is a gate can fail and can be reviewed, so it takes every
branch of every handler. The definitions differ in `plan_session_twice` only; the properties of `plan_session` say
nothing of their contents. In `chat` three requests are a chat, an approval and a deletion, or any two of these and a
restart; two requests with two runs are a second chat that begins before the first is quite over; a second client is
what races them. One approval can be asked for by either run. `agent`, `team` and `acp`, like `plan_session` and
`chat`, begin in one of several instances (`MCScenarios`, `MCScopes`), each large in one respect, since one that is
large in all is out of reach. For `agent`: a store whose calls and results straddle the budget, one that is partly
summarised (as file and as database), one that holds more than a fetch, where the indices of window and store differ,
and two whose agent has no summariser; two turns let results be read by a model, and a second run lets it be another;
a member of a team before which three messages were said, as many as are passed on, and one before which four were, so
that the cut parts a call from its results; sizes 1 and 2 with a budget of 4 and a window of 7 make both cuts happen
anywhere. For `team`: four hand-offs are the least with a loop and one beyond it, five are beyond the limit; with a
window of three a question is seen behind a member's own two messages, and not any more behind another chat's. For
`acp`: a channel of one makes the second event a dropped one; two runs are the least that can overlap. The safety
properties are proved besides, so that for them the bounds do not matter; the runs are what shows that they say
something, and what checks liveness.

**Deadlock** is not checked: every one of these systems may come to rest (plans end, readers leave,
publishers fall silent, bounds are reached).

**Fairness.** `EventBus!FairSpec`: a goroutine inside a call goes on (weak fairness of each section),
readers read on; nobody has to call. `PlanExecutor!FairSpec`: weak fairness of the executor's own
actions together, i.e. Go schedules its goroutines and every agent run ends (`StepTimeout`, the
context and the runner's turn limit bound them); the caller owes nothing. `PlanSession!FairSpec`:
the goroutine of an execution goes on, and its context expires in the end, as it is made with a
timeout of 30 minutes; no request need come or finish. `ChatSession!FairSpec`: requests, forwarding, saves
and the janitor go on, runs that are waited for end, contexts time out after five minutes; nobody need ask,
answer or disconnect, and a run whose events nobody takes may block for ever. The janitor finds an entry idle
only when no request is between two of its steps and no save is under way: `maxIdle` is taken to be longer
than the timeouts of store and memory (5 and 10 s), and may well be shorter than a chat.
`AgentRunner!FairSpec`: a run goes on, as calls of the store, the model and the tools have deadlines; no further
run need begin, and no fault come. `Team!FairSpec`: a chat goes on, members' runs end with the chat's context
(five minutes) at the latest; nobody need change the membership or give an approval.
`ACPRunner!FairSpec`: runs, Close and the connection go on, the reader of a run takes its events, and an agent
that lives replies, as its context or the run's bounds it; it need not send updates.

## 4. Findings

1. **Send on a closed channel** (`eventbus_panic`). `RemoveTopic` closes channels that stay in
   `topic.subs`. A `Publish` that looked the topic up before has it all the same, and sends.
   The comment at `eventbus/bus.go:106` says no new sends can arrive.
2. **Done without having run** (`plan_done_early`). A step whose agent is missing fails without a
   record, so nothing is found failed and the plan is reported done. `Plan.Execute` does not
   validate.
3. **Two executions of one session** (`plan_session_twice`). `handleExecute` checks and sets
   `running` in different lock sections; the loser cannot be cancelled and the winner's end marks
   the session idle.
4. **Responses that never end** (`chat_hang`). `handleChat` reads its subscription until an event ends it. The
   goroutine that forwards events stops, without publishing, when the client has left, and "aborted" ends
   nothing; the comment at `handler.go:291` promises the end on disconnect.

5. **A panic instead of an error** (`acp_panic`). `Close` kills the process, the run it was at fails and closes its
   channel, and an update sent before is handled after that: `sendStreamEvent` sends on the closed channel. The
   comments at `runner/acp/runner.go:40-42` and `:244-246` say that runs fail rather than panic. A cancelled
   run does the same without `Close`; `PanicsLate` says that a run must have been given up or overtaken for it.

Three more shape the properties of `ChatSession`. 6: a chat that begins before another has ended, be it only
between its last event and its deferred cleanup, has `running` and `pendingApproval` cleared under it, so that
it may be evicted and its approval be lost (`overlapped`). 7: a run whose client has left may ask for an
approval after the slot was cleared; nobody clears it again, the entry counts as active until the next chat,
and the approval of that chat may be overwritten (`stray`). 8: a chat whose response cannot be streamed returns after
it has set `running` and before anything would clear it (`handler.go:220-224`), so that the entry counts as
active until another chat has ended there (`stranded`); `rest/team.go:203-207` does the same.
`EvictionSparesWork`, `Answerable` and `IdleEvicted` are violated without these exceptions.

Met while modelling, each in a model but in no run of its own. Where a property would fail on one of them, it
names the exception, and says that there is no other:

* Bus. A Subscribe that found its topic before RemoveTopic attaches to it after the channels were
  closed, and hears nothing ever after. A subscriber 64 events behind loses what comes, the event that ends its
  stream as well (`bus.go:253-260`): a client of a plan's events then waits until it leaves (`missed`).
* Gates. A gate that completes in a batch with a failure (`executor.go:177`), or second in its batch, is never paused
  at (`passedBy`), though `planner.go:285-286` and `types.go:54` promise it. The pause or the automatic replan that
  follows is about the failed step only (`executor.go:102-118`).
* Replanning. `ReplanWithFeedback` merges new steps without a check (`plan.go:311-319`), though an id is "unique
  within the plan" (`types.go:42-60`, `StepDef.ID`). Two steps with one id (`doubled`) are run as one: a new step with
  the id of one that is done is taken for done, the agent is the first one's, and a later failure may delete the
  result of work that is done. `findFailed` reports the first failed step in the order of the definition, which may be
  one that was only cancelled (`executor.go:556`): retry and replan are then offered for the wrong step.
* Plan sessions. `handleReplan` works on results and channel read before a planner call during which a retry may have
  resumed the plan, so that done work is deleted and the new plan never taken up; it computes what to replace from a
  definition that `handleGenerate` may have replaced meanwhile, even while it executes (`plan_handler.go:151-153`,
  `476`). A second surplus answer to a pause blocks its request for good. A failing planner publishes `plan_error`,
  on which event streams end though the plan is still paused. Of two steps that ask for approval the first can never
  be answered.
* Registry. A save under way when `del` runs lands after it and brings the session back
  (`session_manager.go:110`; line 299 says that the order of deletion prevents this). A session that was created
  but never used has no access time and is never evicted; a restore that reads the store before the save of an
  eviction has landed starts from older metadata or none.
* Memory. A summary that a compaction, or a crash between the two removals of the file store, leaves behind
  belongs to the next session of that name. When more is stored than is fetched (5000), the boundary
  is computed on the window and applied to the whole, so that messages may be in neither. Without a summariser
  both stores' `Compact` does nothing and reports no error (`memory/file/memory.go:151-153`,
  `memory/sqlite/memory.go:247-249`), and the older messages are hidden all the same (`runner.go:496-501`). Where the
  last message alone exceeds the budget, all of the history is shown. `Compact` of the file store drops the
  summariser's errors.
* Requests. `SafeCompressionBoundary` extends the cut when the last message it hides makes calls, and not when it
  is one of several results: the other results are then shown without their call (`lead = "torn"`), against the
  purpose at `memory.go:76-81`. What is shown may also begin with an answer, where a cut hides the question or other
  members of a team have spoken before; `runner.go:967-971` says that a model refuses this, and mends it only where the
  context window is exceeded.
* Runner. A run cancelled between an answer and its results leaves calls without results to all later runs, as
  appends with a cancelled context fail. `stripAgentTools` filters the caller's list in place, so that
  one spawned agent changes it for all later turns (`agent.go:299`). `use_skill` and `reload_skills`, run side
  by side, use one map without a lock (`runner.go:1150`, `1182`, `1204`), on which Go may abort. `TurnCount`
  is one too many when turns are used up. The last cut before a model call may leave no message at all.
* Team memory. The question is a shared message, and those are cut first: a member with enough messages of its own, or
  behind enough other chats, is not shown what it was asked. A member that has not worked in the session yet does not
  see the question when it is asked without a message: it comes last in its memory and is stripped as its own input
  (`runner.go:148`). `Compact` takes an index of one member's merged list for one of the shared messages
  (`team_memory.go:83-86`), so that the summary may be of other messages than those hidden, or of some that
  another member still lacks. A member removed at its work writes its private memory again.
* Team. `handleChat` does not look at `running`. Of more than 128 messages said (`team.go:460`), leading calls are
  dropped with their results even where these are still there, unlike the comment at `:466` says, and so on to the
  first message without calls: where all members are agents of this program and have handed over, nothing is left to
  pass on. Vetoed hand-offs are not counted; only the deadline ends them. Two changes of the membership at once may be
  announced in the other order, and an observer that panics, as the next one does, ends the request before later
  observers are told, the handler's list is updated or a removed member is closed (`unsettled`).
* ACP. `mcpToolNames` is never made (`:75`), so that the write at `:426` panics as soon as there is a member to
  transfer to. Overlapping runs share one handler and one callback (`crossed`).

## 5. The proofs

Every invariant and every action property of the passing runs is proved, and the refinement. Assumptions are
the named ones of each module, which TLC evaluates on its run. They say that capacities and bounds are
numbers (and the channel of the bus and of an ACP run are not of size zero), that `None` is none of the
others, and of what sets the scopes and scenarios are made. Two say more:

* `PlanAssumption`: the given plans are valid and made of the step ids, and there are finitely many of these.
* `AgentRunnerAssumption`: what is stored to begin with, and what other members of a team have said, is sound, and the
  former begins with a message of the user unless the latter is there. Histories that the model itself leaves are so
  unless a fault has intervened (which `damaged` says), and a team passes on only what came of runs that ended
  without an error (`team.go:455`), each of which begins with an answer.

Nothing is assumed of how many goroutines, topics, steps, clients, chats, members, runs or messages there are.

**`EventBusProofs`**: `TypeCorrect`; `CloseSafety` (`LiveTopicOpen` and `CloseOnce`); `DeliverySafety` (`InOrder` and
`ShortStreamComplete`), with `StreamSafety` for the latter. *CloseOnce* is not inductive. `CloseInv` adds that the map
holds the newest topic or none and a detached one never comes back (`TopicsInOrder`), that a topic lists only
subscriptions of its own which have joined and are not about to be closed by Unsubscribe (`ListedAtHome`), and who may
have swapped the flag and closed the channel (`CloseOwner`). The delivery properties further rest on the history being
the last events without a hole (`HistoryWindow`), so that replaying it and joining in one section goes on with the
next event.

**`PlanGraphProofs`**: the facts about graphs the executor rests on. A nonempty part of a valid plan
has a step that is ready (`ReadyExists`); what survives a replan depends on nothing that does not
(`SurvivorsClosed`); done steps survive when done steps depend on done steps only (`DoneSurvives`);
survivors and a valid set of new steps make a valid plan (`MergeValid`), also where ids of the two coincide.

**`PlanExecutorProofs`**: the inductive invariant `IInv` ties batches to the graph. `DepsInv`: the plan is
valid, and all that a step of the batch depends on, or a done one whose id is its own, is done. `IdsInv`: the
dependencies sorted are among those followed from a failure, and the same where an id is one step's. `BatchInv`: whatever
is neither in the batch nor left to be sorted is done. `StepInv`: what the record of a step says given where its
goroutine is. `FailInv`, `CauseInv`: a failed batch has a recorded failure, and the first one is its own cause,
if every step has its agent. `GateInv`: which done gates have been paused at or passed by. `CountInv` bounds the counters.
What the two ways of replanning have in common is `Renewed`: survivors, which depend on nothing that is
replaced (`Closed`), and new steps that make a valid plan with them, whether their ids are new or not (`MergeRenews`;
`ReplanRenews` and `ResumeRenews` show that each is one). From `Invariance` follow `TypeCorrect`, `DependencySafety`
(`DepsDoneBeforeStart` and `NothingLeftRunning`, the latter alone in `NothingRunsOn`), `GateSafety`, `WorkKept`,
`Completion`, `RootCause` and `Refinement`, for any configuration. That the latter two invariants speak only
of plans with an agent for each step is in them, and finding 2 shows that it is needed.

**`PlanSessionProofs`**: the safety properties hold when one request at a time starts executions
(`OneStarter`, which is the instance of the run `plan_session`); `plan_session_twice` shows that they need it, and
`OneAtATime` that `OneExecution` holds with it. `FieldsTellTheTruth` and `AnswerReachable` are not inductive:
a request acts on what it read long ago. So `TypeInv` says what each request carries at the place where it uses it
(`Carries`: the channel of a pause, by which it knows that pause), that what a channel holds was meant for its
pause (`SlotInv`) and that the channel shown is the newest (`ChannelInv`); `StartInv` that whoever passed the
check of `handleExecute` finds that it still holds; `PauseInv` that a pause has a channel until it is answered.
From these follow `Truthful`, `Reachable` and `NothingStale`. `TypeCorrect` needs no hypothesis.

**`ChatSessionProofs`**: entries and runs are numbered as they are made, so already `TypeCorrect` rests on counting:
those made and those that requests under way may still make are together no more than there were requests
(`CountInv`). `EntryInv` adds to `HeldIsListed` and `EvictionSparesWork` that until its response
streams a request holds the entry in the map or a deleted one (`ListedInv`), that chats which share an entry are
known to overlap (`SharingInv`), and that the entry of any other says that it runs (`RunningInv`), which is what keeps
the janitor off. For `Answerable`, an approval is in one place at a time (`AskInv`): in one slot, in the hands of
one request, or answered.

**`TeamProofs`**: `LoopsStop` from `LoopInv`: a chain of hand-offs is a path, and a chat whose chain has a loop is in
its forced final turn. `MembersAgree` from `ChangeInv`: unless changes crossed at most one is under way, and what is
left to do of it leads from the list to the members (`Rest`); nobody works or has a private memory but members and
those that left at work or are about to be cleaned up (`Known`). `SeesQuestion` is an action property: by
`FittingHolds` a message with less behind it than the window holds is in the end of the list that fits, and stripping
takes none where the member has messages of its own.

**`ACPRunnerProofs`**: `WireInv` says what may be on its way: nothing for a run before its prompt (`Quiet`) or behind its
reply (`RepliesLast`, `EndInv`), and whatever the agent is not done with has a run that waits, unless one was given up
(`LostInv`). `OrderInv` says that, unless runs crossed, there is one at a time, to which handler and callback belong, and
that its updates on their way lead (`Leads`) from what has been collected to what is due. A fold over the wire would need
induction; `Leads` says the same by a sequence of stations that exists, which each step lengthens or shortens by one.

**`AgentRunnerProofs`**: first the lemmas on `Conversation`: each window is an end of the history (`RecentIsLatest`,
`TrimIsLatest`, `CapIsLatest`), the boundary is never before the overflow and never beyond the history
(`BoundaryTypes`, `BoundaryBeyond`), an end of a sound conversation is `Loose`, which is to say that it may begin with
results whose call is gone, and is sound but for these (`LooseEnd`); so are concatenations where no results come first
in the latter (`LooseCat`); and a conversation that ends in calls goes through `Open`, with some of the results fed
back, to `Loose` again (`OpenCalls`, `OpenResults`, `OpenEnds`). `RequestsSound` follows from `ConvInv`: unless
damaged, the history and the working set are loose or, while results are fed back, open with just as many of them;
from `HeadInv`, which says what history and working set begin with, no result unless the cut was torn (`NotTorn`, by
`FetchInv`: what is cut was an end of the history); and from `CutInv`, for what was trimmed to the context window.
`NothingIsForgotten` follows from `SumInv` (the summary was made of just what it says), `BeginInv` (the run's message
is the last of the store, and what was fetched is all there is) and `ShownInv` (what is shown is the history behind a
number of hidden messages that the summary covers, what was passed on, and the message).

**Only model-checked**: the liveness properties (`EofAfterRemove`, `Terminates`, `ReaderReturns`,
`CancelEnds`, `ChatsEnd` of chats and of teams, `IdleEvicted`, `RunsEnd` of the agent and of the ACP runner),
as the prover handles neither fairness nor `ENABLED`. What a recursive function computes for every input is out of its
reach as well; of `Tokens` and of the recursion that strips tools the proofs use only that an empty history has no
tokens and that what is left is a list of tools, which is all the properties need.

## 6. What is not modelled

Texts, prompts, token usage, timing beyond "a deadline passes", and the contents of events.

* Executor: a consumer that stops reading the event channel.
* `ChatSession`: what metadata and messages say, so the order of two saves; two clients that chat at once are
  in the model but not in the runs. `PlanSession`: data races on the results map (an unsynchronised read is
  atomic in the model); deletion and eviction of plan and team sessions, which go through the same
  registry as those of chats.
* `AgentRunner`: two runs of one session at once (nothing keeps them apart in the code, and nothing but the append of
  a message is meant to be safe then); how the stores search (of `recall_memory` a run only gets the result) and
  embeddings; streamed deltas; the 64 KB limit of a line of the file store.
* `Team`: what members say, and the reading requests; the summary of a team's shared messages, and reads of the store
  that fail (a member is then shown less, without a word); what a member's run does beyond memory, hand-offs and
  approvals, which is in `AgentRunner` and `ACPRunner`.
* `ACPRunner`: the JSON-RPC library is external: it is taken to deliver updates and replies in order and
  to return from a cancelled call at once. The client's file and terminal callbacks refuse everything.
* Model adapters, MCP, tools, sandbox, plugins, tokenizer, hooks, commands and examples are I/O, encoding or
  glue with no protocol of their own: what they answer is a free choice where it is used. See `components` in
  `PROJECT.json`.

## 7. Plan

1. *Done*: the bus, the plan executor with its abstract specification, the plan session with its approvals, the
   chat session with the registry, the agent runner with memory, the team, the ACP runner.
2. *Done*: proofs of all safety and action properties, and of the refinement.
3. Left to prove: that the executor as `PlanSession` reduces it is one that `PlanExecutor` allows.
4. Should more be modelled: two runs of an agent on one session, and deletion under a running plan or team.
