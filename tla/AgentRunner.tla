---------------------------- MODULE AgentRunner ----------------------------
(* runner.go and agent.go with the memory stores: the runs of one agent on  *)
(* one session, one after the other.  A run prepares the working set from   *)
(* the stored history (compacting what overflows), then alternates between  *)
(* the model and the tools it calls until the model calls none, hands over, *)
(* or the turns are used up.  It may be cancelled at any time, its calls of *)
(* the store, the summariser and the model may fail, and the process may    *)
(* die; what was stored stays.                                              *)
EXTENDS Conversation, FiniteSets

CONSTANTS
    Scenarios,          \* what a system may begin with: the store, the messages earlier
                        \* runs have left in it and how many of them the summary covers,
                        \* whether it has a summarizer, the kinds of calls the model
                        \* makes, the agent's guard, whether it has skills, what other
                        \* members of a team have said before it, and a bound on its runs
    MaxTurns, MaxRetries, FetchLimit, MinFetch, LookAhead,
    Budget,             \* tokens of the working set
    Window,             \* tokens of the model's context window, 0 if unknown
    SystemTokens,       \* tokens of the instructions,
    SummaryTokens,      \* of a summary,
    SkillTokens,        \* and of a skill
    Skills,             \* skills that may be installed
    MaxPassed,          \* messages of a team that are passed on
    MaxFaults,          \* bounds on faults and interruptions,
    MaxHistory          \* and on the history a further run begins with

AllKinds == {"plain", "transfer", "unknown", "spawn", "delegate", "use_skill", "reload_skills",
             "recall"}

Config == [backend : {"file", "database"}, summarizer : BOOLEAN, kinds : SUBSET AllKinds,
           guard : {"none", "open", "closed"}, loader : BOOLEAN, said : Seq(Message),
           runs : Nat]

(* What runs that were not disturbed have left or said is sound; a session  *)
(* begins with a message of the user, unless a team's members fill it.      *)
ASSUME AgentRunnerAssumption ==
    /\ \A s \in Scenarios :
          /\ s.config \in Config
          /\ s.messages \in Seq(Message) /\ Sound(s.messages)
          /\ s.through \in 0..Len(s.messages)
          /\ s.messages # <<>> => FromUser(s.messages[1]) \/ s.config.said # <<>>
          /\ Sound(s.config.said)
    /\ {MaxTurns, MaxRetries, FetchLimit, MinFetch, LookAhead, Budget, Window,
        SystemTokens, SummaryTokens, SkillTokens, MaxPassed, MaxFaults,
        MaxHistory} \subseteq Nat
    /\ FetchLimit > 0

VARIABLES
    config,     \* the store, the agent and its model, fixed
    history,    \* the session's messages as stored
    summary,    \* how many of them the summary says it covers, and which it was made of
    deleting,   \* the messages of a session are deleted, its summary not yet (file)
    tools,      \* the agent's list of tools, shared by its runs
    installed,  \* the skills on disk
    pc,         \* where the run is
    turn, attempt,
    fetched,    \* what prepareMemory has read, how much comes before it, and
                \* whether it has been deleted since
    compressed, \* the summary as this run has read it
    catalog, loaded, \* the skills this run knows of, and those it has loaded
    working,    \* the messages of this run: what the model is shown
    calls,      \* the calls of the last answer: kind, and how far each is
    fed,        \* how many of their results have been fed back
    cancelled,  \* the context of the run is cancelled
    outcome,    \* how the last run ended
    lead,       \* what the working set begins with: the first message there is or, where it
                \* was cut, a later one or a result torn from its call; or, if the last
                \* request was cut to the context window, a message of the user
    unread,     \* history: this run misses history by a fault
    damaged,    \* history: the store misses messages by a fault
    revived,    \* history: a summary has outlived its session
    runs, faults

mem  == <<config, installed, history, summary, deleting, revived>>
skills == <<catalog, loaded>>
state == <<cancelled, outcome>>
loop == <<turn, attempt, fetched, compressed, working, calls, fed, lead>>
vars == <<config, installed, history, summary, deleting, revived, tools, pc, turn, attempt,
          fetched, compressed, catalog, loaded, working, calls, fed, cancelled, outcome,
          lead, unread, damaged, runs, faults>>

ConfiguredTools == <<"delegate", "plain", "transfer">>

Small == Least(Sizes)

NoFetch == [messages |-> <<>>, offset |-> 0, deleted |-> FALSE]

NoSummary == [through |-> 0, covers |-> {}]

Summaries == [through : Nat, covers : SUBSET Nat]

Call == [kind : AllKinds, is : {"called", "approved", "refused", "running", "done"},
         skills : SUBSET Skills]

TypeOK ==
    /\ config \in Config
    /\ installed \subseteq Skills /\ catalog \subseteq Skills /\ loaded \subseteq Skills
    /\ history \in Seq(Message)
    /\ summary \in Summaries /\ compressed \in Summaries
    /\ deleting \in BOOLEAN /\ revived \in BOOLEAN
    /\ tools \in Seq({"delegate", "plain", "transfer"})
    /\ pc \in {"idle", "top", "memory", "compact", "compressed", "guard", "prompt", "model", "backoff",
               "answer", "approve", "execute", "feed"}
    /\ turn \in 1..(MaxTurns + 1)
    /\ attempt \in 0..MaxRetries
    /\ fetched \in [messages : Seq(Message), offset : Nat, deleted : BOOLEAN]
    /\ working \in Seq(Message)
    /\ calls \in Seq(Call)
    /\ fed \in 0..MaxCalls
    /\ cancelled \in BOOLEAN
    /\ outcome \in {"none", "done", "handoff", "error", "aborted"}
    /\ lead \in {"whole", "cut", "torn", "trimmed"}
    /\ unread \in BOOLEAN
    /\ damaged \in BOOLEAN
    /\ runs \in 0..config.runs
    /\ faults \in 0..MaxFaults

Init ==
    /\ \E s \in Scenarios :
          /\ config = s.config
          /\ history = s.messages
          /\ summary = [through |-> s.through, covers |-> 1..s.through]
    /\ tools = ConfiguredTools
    /\ installed = IF config.loader THEN Skills ELSE {}
    /\ compressed = NoSummary /\ catalog = {} /\ loaded = {}
    /\ pc = "idle"
    /\ deleting = FALSE /\ revived = FALSE
    /\ turn = 1 /\ attempt = 0
    /\ fetched = NoFetch
    /\ working = <<>> /\ calls = <<>> /\ fed = 0
    /\ cancelled = FALSE
    /\ outcome = "none"
    /\ lead = "whole"
    /\ unread = FALSE /\ damaged = FALSE
    /\ runs = 0 /\ faults = 0

Fault == faults < MaxFaults /\ faults' = faults + 1

NoFault == UNCHANGED faults

(* The run is over: its terminal event is sent and what it held is dropped. *)
End(how) ==
    /\ pc' = "idle"
    /\ outcome' = how
    /\ turn' = 1 /\ attempt' = 0
    /\ fetched' = NoFetch /\ compressed' = NoSummary
    /\ catalog' = {} /\ loaded' = {}
    /\ working' = <<>> /\ calls' = <<>> /\ fed' = 0
    /\ lead' = "whole" /\ unread' = FALSE /\ cancelled' = FALSE

-----------------------------------------------------------------------------
(* The store.  An append fails with a cancelled context or by a fault; the  *)
(* run goes on as if nothing had happened.                                  *)
Stored(m) == history' = Append(history, m)

AppendMemory(m) ==
    \/ /\ ~cancelled
       /\ Stored(m)
       /\ NoFault
       /\ UNCHANGED <<damaged, unread>>
    \/ /\ \/ cancelled /\ NoFault
          \/ ~cancelled /\ Fault
       /\ damaged' = TRUE
       /\ unread' = TRUE
       /\ UNCHANGED history

(* The summarizer adds messages to the summary, of which it keeps all.      *)
(* Messages that are no longer there count for nothing.                     *)
Summarize(before, positions) ==
    IF fetched.deleted \/ deleting THEN {} ELSE before \cup positions

(* The summary after the messages of a window up to the n-th were put into  *)
(* it; it continues behind what the last one covered.                       *)
Summarised(all, offset, n) ==
    LET last == summary.through
    IN  IF last >= n \/ n > Len(all)
        THEN summary
        ELSE [through |-> n,
              covers  |-> Summarize(summary.covers, { offset + i : i \in (last + 1)..n })]

(* Compact of the file, and of the database, which looks at the last        *)
(* summary first; nothing without a summarizer.  Both work on the messages  *)
(* the run has fetched if there are as many as are to be covered; else on   *)
(* all of the file, or on the database's first ones with some to look ahead. *)
FileCompact(cutoff) ==
    LET own == cutoff <= Len(fetched.messages)
        all == IF own THEN fetched.messages ELSE history
    IN  IF ~config.summarizer
        THEN summary
        ELSE Summarised(all, IF own THEN fetched.offset ELSE 0,
                        SafeCompressionBoundary(all, cutoff))

DatabaseCompact(cutoff) ==
    LET own   == cutoff <= Len(fetched.messages)
        count == IF cutoff + LookAhead > Len(history) THEN Len(history)
                 ELSE cutoff + LookAhead
        all   == IF own THEN fetched.messages ELSE SubSeq(history, 1, count)
    IN  IF ~config.summarizer \/ summary.through >= cutoff
        THEN summary
        ELSE Summarised(all, IF own THEN fetched.offset ELSE 0,
                        SafeCompressionBoundary(all, cutoff))

-----------------------------------------------------------------------------
(* The skills on disk.                                                      *)
Discover == installed

(* The runs of the first member of a team are given nothing, and messages   *)
(* of a user; the others what was said, and what a member has asked of      *)
(* them, which is not stored.                                               *)
Prefix == CapMessages(config.said, MaxPassed)

Transient == config.said # <<>>

(* A run begins by looking for skills, which may fail, and by storing the   *)
(* message it is given.                                                     *)
Start ==
    /\ pc = "idle" /\ runs < config.runs
    /\ runs = 0 \/ Len(history) <= MaxHistory
    /\ runs' = runs + 1
    /\ pc' = "top"
    /\ outcome' = "none"
    /\ catalog' \in {Discover, {}}
    /\ IF Transient THEN NoFault /\ UNCHANGED <<history, damaged, unread>>
       ELSE AppendMemory(User(Small))
    /\ UNCHANGED <<config, installed, summary, deleting, revived, tools, loop, loaded,
                   cancelled>>

(* The head of the loop.                                                    *)
BeginTurn ==
    /\ pc = "top"
    /\ \/ turn > MaxTurns /\ End("done")
       \/ turn <= MaxTurns /\ cancelled /\ End("aborted")
       \/ /\ turn <= MaxTurns /\ ~cancelled
          /\ pc' = IF turn = 1 THEN "memory" ELSE "prompt"
          /\ UNCHANGED <<loop, skills, state, unread>>
    /\ UNCHANGED <<mem, tools, damaged, runs, faults>>

(* A read of the store fails; the run goes on without what it has not read. *)
ReadFails ==
    /\ IF cancelled THEN NoFault ELSE Fault
    /\ unread' = TRUE

(* How many messages there are.                                             *)
Count == Len(history)

(* The latest messages are read.                                            *)
Reads ==
    LET n    == IF Count > FetchLimit THEN FetchLimit ELSE Count
        msgs == IF config.backend = "file" THEN FileRecent(history, n)
                ELSE DatabaseRecent(history, n, MinFetch)
    IN  fetched' = [messages |-> msgs, offset |-> Count - Len(msgs), deleted |-> FALSE]

(* Without the stored history the model is shown what the run was given.    *)
FetchMemory ==
    /\ pc = "memory"
    /\ \/ ReadFails /\ pc' = "compressed" /\ UNCHANGED fetched
          /\ working' = Append(Prefix, User(Small))
       \/ ~cancelled /\ Reads /\ pc' = "compact" /\ NoFault /\ UNCHANGED <<unread, working>>
    /\ UNCHANGED <<mem, tools, turn, attempt, compressed, skills, calls, fed, lead, state,
                   damaged, runs>>

(* Those that overflow the budget go into the summary, unless that fails.   *)
Compact ==
    LET msgs   == fetched.messages
        o      == Overflow(msgs, Budget)
        cutoff == fetched.offset + SafeCompressionBoundary(msgs, o)
    IN  \/ /\ ~cancelled
           /\ summary' = IF o = Len(msgs) THEN summary
                         ELSE IF config.backend = "file" THEN FileCompact(cutoff)
                         ELSE DatabaseCompact(cutoff)
           /\ revived' = (revived \/ (summary' # summary /\ (fetched.deleted \/ deleting)))
           /\ NoFault
           /\ UNCHANGED unread
        \/ /\ cancelled \/ (o < Len(msgs) /\ config.summarizer)
           /\ ReadFails
           /\ UNCHANGED <<summary, revived>>

(* The working set is what fits, what was passed on and the new message.  A *)
(* message of the user that comes last is taken for the one just stored,    *)
(* and taken off.                                                           *)
PrepareMemory ==
    LET over  == Overflow(fetched.messages, Budget)
        from  == WorkingFrom(fetched.messages, Budget)
        shown == Behind(fetched.messages, from)
        strip == shown # <<>> /\ FromUser(shown[Len(shown)])
    IN  /\ pc = "compact"
        /\ pc' = "compressed"
        /\ Compact
        /\ working' = (IF strip THEN SubSeq(shown, 1, Len(shown) - 1) ELSE shown)
                      \o Prefix \o <<User(Small)>>
        /\ lead' = IF Torn(fetched.messages, IF from = 0 THEN 0 ELSE over) THEN "torn"
                   ELSE IF from + fetched.offset = 0 THEN "whole" ELSE "cut"
        /\ fetched' = NoFetch
        /\ UNCHANGED <<config, installed, history, deleting, tools, turn, attempt, compressed,
                       skills, calls, fed, state, damaged, runs>>

(* Last, the summary is read.                                               *)
FetchCompressed ==
    /\ pc = "compressed"
    /\ pc' = "guard"
    /\ \/ ~cancelled /\ compressed' = summary /\ NoFault /\ UNCHANGED unread
       \/ ReadFails /\ UNCHANGED compressed
    /\ UNCHANGED <<mem, tools, turn, attempt, fetched, working, skills, calls, fed, lead,
                   state, damaged, runs>>

(* What the guard says of a message or of a result.  A model judges; if     *)
(* that fails all is blocked, or nothing if the guard is an open one.       *)
Verdicts ==
    CASE config.guard = "none"   -> {"allowed"}
      [] config.guard = "open"   -> IF cancelled THEN {"allowed"} ELSE {"allowed", "blocked"}
      [] config.guard = "closed" -> IF cancelled THEN {"blocked"} ELSE {"allowed", "blocked"}

(* The input guard lets the message pass or ends the run.                   *)
InGuard ==
    /\ pc = "guard"
    /\ \/ "allowed" \in Verdicts /\ pc' = "prompt" /\ UNCHANGED <<loop, skills, state, unread>>
       \/ "blocked" \in Verdicts /\ End("error")
    /\ UNCHANGED <<mem, tools, damaged, runs, faults>>

(* The system messages: the instructions, the summary, a word on each skill *)
(* there is, and the skills loaded.                                         *)
SystemSize ==
    SystemTokens + (IF compressed.through > 0 THEN SummaryTokens ELSE 0)
    + Cardinality(catalog) + SkillTokens * Cardinality(loaded)

(* Tokens left for the messages of the conversation in a request.           *)
TrimBudget ==
    IF (Window * 95) \div 100 > SystemSize
    THEN (Window * 95) \div 100 - SystemSize
    ELSE Window \div 4

BuildPrompt ==
    /\ pc = "prompt"
    /\ pc' = "model"
    /\ attempt' = 0
    /\ IF Window > 0 /\ SystemSize + Tokens(working) > Window
       THEN working' = TrimToContextWindow(working, TrimBudget) /\ lead' = "trimmed"
       ELSE UNCHANGED working /\ lead' = IF lead = "trimmed" THEN "cut" ELSE lead
    /\ UNCHANGED <<mem, tools, turn, fetched, compressed, skills, calls, fed, state, unread,
                   damaged, runs, faults>>

-----------------------------------------------------------------------------
(* A message of the run is one of the working set and of the history.       *)
Remember(m) == working' = Append(working, m) /\ AppendMemory(m)

(* The model answers, with the calls it wants made.  The answer is stored.  *)
Answers ==
    \E n \in 0..MaxCalls : \E kinds \in [1..n -> config.kinds] :
        LET m == Assistant(n, Small) IN
        /\ calls' = [i \in 1..n |-> [kind |-> kinds[i], is |-> "called", skills |-> {}]]
        /\ Remember(m)
        /\ pc' = "answer"
        /\ UNCHANGED <<attempt, turn, fetched, compressed, skills, fed, lead, state>>

(* Mutant of FailsForNow: the last retry is retried, too.                   *)
FailsForNowOnceMore ==
    /\ attempt <= MaxRetries
    /\ attempt' = attempt + 1
    /\ pc' = "backoff"
    /\ UNCHANGED <<turn, fetched, compressed, skills, working, calls, fed, lead, state,
                   unread, damaged, history, faults>>

(* Mutant of FailsForNow: retries are not counted.                          *)
FailsForNowUncounted ==
    /\ attempt < MaxRetries
    /\ pc' = "backoff"
    /\ UNCHANGED <<loop, skills, state, unread, damaged, history, faults>>

(* A failure worth a retry, while any is left; the delay comes first.       *)
FailsForNow ==
    /\ attempt < MaxRetries
    /\ attempt' = attempt + 1
    /\ pc' = "backoff"
    /\ UNCHANGED <<turn, fetched, compressed, skills, working, calls, fed, lead, state,
                   unread, damaged, history, faults>>

(* A failure that ends the run, or an answer without choices.               *)
Fails ==
    /\ End(IF cancelled THEN "aborted" ELSE "error")
    /\ UNCHANGED <<damaged, history, faults>>

CallModel ==
    /\ pc = "model"
    /\ Answers \/ FailsForNow \/ Fails
    /\ UNCHANGED <<config, installed, summary, deleting, revived, tools, runs>>

(* The delay passes, or the context ends it.                                *)
Backoff ==
    /\ pc = "backoff"
    /\ \/ pc' = "model" /\ UNCHANGED <<loop, skills, state, unread>>
       \/ cancelled /\ End("aborted")
    /\ UNCHANGED <<mem, tools, damaged, runs, faults>>

-----------------------------------------------------------------------------
(* The output guard may end the run: the calls it has stored then stay      *)
(* without results.  An answer without calls ends it, too.                  *)
OutGuard ==
    /\ pc = "answer"
    /\ \/ "blocked" \in Verdicts /\ End("error") /\ damaged' = (damaged \/ calls # <<>>)
       \/ "allowed" \in Verdicts /\ calls = <<>> /\ End("done") /\ UNCHANGED damaged
       \/ /\ "allowed" \in Verdicts /\ calls # <<>>
          /\ pc' = "approve"
          /\ UNCHANGED <<loop, skills, state, unread, damaged>>
    /\ UNCHANGED <<mem, tools, runs, faults>>

(* Tools of the runner itself are there whatever the agent has.             *)
Found(kind) ==
    \/ kind \in {"spawn", "use_skill", "reload_skills", "recall"}
    \/ \E i \in 1..Len(tools) : tools[i] = kind

Undecided == { i \in 1..Len(calls) : calls[i].is = "called" }

Decide(i, is) == calls' = [calls EXCEPT ![i].is = is]

(* The calls are decided on one by one: an unknown tool is refused, a       *)
(* transfer needs no approval.  Then the approved ones run side by side.    *)
Approve ==
    /\ pc = "approve"
    /\ IF Undecided = {}
       THEN pc' = "execute" /\ UNCHANGED calls
       ELSE LET i == Least(Undecided) IN
            /\ UNCHANGED pc
            /\ \/ Found(calls[i].kind) /\ Decide(i, "approved")
               \/ calls[i].kind # "transfer" /\ Decide(i, "refused")
    /\ UNCHANGED <<mem, tools, turn, attempt, fetched, compressed, skills, working, fed,
                   lead, state, unread, damaged, runs, faults>>

Approved(i, kind) == pc = "execute" /\ calls[i].is = "approved" /\ calls[i].kind = kind

Running(i, kind) == pc = "execute" /\ calls[i].is = "running" /\ calls[i].kind = kind

Executing == UNCHANGED <<mem, pc, turn, attempt, fetched, compressed, working, fed, lead,
                         state, unread, damaged, runs, faults>>

(* A call ends, well or with an error or a panic: all of them are results.  *)
ToolEnds(i) ==
    /\ Approved(i, "plain") \/ Approved(i, "transfer") \/ Approved(i, "unknown")
    /\ Decide(i, "done")
    /\ Executing /\ UNCHANGED <<tools, skills>>

(* The store is searched; that fails or finds what it finds.                *)
Recall(i) ==
    /\ Approved(i, "recall")
    /\ Decide(i, "done")
    /\ Executing /\ UNCHANGED <<tools, skills>>

(* A tool that is an agent: if it is still on the list, the agent runs, with *)
(* no memory and a copy of the tools, and ends as runs do.                  *)
DelegateStarts(i) ==
    /\ Approved(i, "delegate")
    /\ Decide(i, IF Found("delegate") THEN "running" ELSE "done")
    /\ Executing /\ UNCHANGED <<tools, skills>>

DelegateEnds(i) ==
    /\ Running(i, "delegate")
    /\ Decide(i, "done")
    /\ Executing /\ UNCHANGED <<tools, skills>>

(* The list without the tools that are agents.  It is made in the place of  *)
(* the list it is made from, which so becomes it and its own old end.       *)
StripAgentTools(ts) ==
    LET keep[n \in 0..Len(ts)] ==
            IF n = 0 THEN <<>>
            ELSE IF ts[n] = "delegate" THEN keep[n - 1] ELSE Append(keep[n - 1], ts[n])
        kept == keep[Len(ts)]
    IN  [result |-> kept, inPlace |-> kept \o Behind(ts, Len(kept))]

(* A call that spawns an agent gives it the tools of its own.               *)
SubAgentStarts(i) ==
    /\ Approved(i, "spawn")
    /\ Decide(i, "running")
    /\ tools' = StripAgentTools(tools).inPlace
    /\ Executing /\ UNCHANGED skills

SubAgentEnds(i) ==
    /\ Running(i, "spawn")
    /\ Decide(i, "done")
    /\ Executing /\ UNCHANGED <<tools, skills>>

(* A skill of the catalogue that is not loaded yet is read from disk, and   *)
(* then kept.  Anything else is answered at once.                           *)
UseSkill(i) ==
    /\ Approved(i, "use_skill")
    /\ \/ Decide(i, "done")
       \/ \E s \in (catalog \cap installed) \ loaded :
             calls' = [calls EXCEPT ![i].is = "running", ![i].skills = {s}]
    /\ Executing /\ UNCHANGED <<tools, skills>>

KeepSkill(i) ==
    /\ Running(i, "use_skill")
    /\ Decide(i, "done")
    /\ loaded' = loaded \cup calls[i].skills
    /\ Executing /\ UNCHANGED <<tools, catalog>>

(* The disk is looked at again, and what is not there any more forgotten.   *)
(* Without a loader the call panics, which is a result.                     *)
ReloadSkills(i) ==
    /\ Approved(i, "reload_skills")
    /\ \/ Decide(i, "done")
       \/ /\ config.loader
          /\ calls' = [calls EXCEPT ![i].is = "running", ![i].skills = Discover]
    /\ Executing /\ UNCHANGED <<tools, skills>>

PruneSkills(i) ==
    /\ Running(i, "reload_skills")
    /\ Decide(i, "done")
    /\ catalog' = calls[i].skills
    /\ loaded' = loaded \cap calls[i].skills
    /\ Executing /\ UNCHANGED tools

ToolsEnd ==
    /\ pc = "execute"
    /\ \A i \in 1..Len(calls) : calls[i].is \in {"refused", "done"}
    /\ pc' = "feed"
    /\ UNCHANGED <<mem, tools, loop, skills, state, unread, damaged, runs, faults>>

(* The results are looked at by the guard and fed back in the order of the  *)
(* calls.                                                                   *)
FeedResult ==
    /\ pc = "feed" /\ fed < Len(calls)
    /\ \/ /\ "blocked" \in Verdicts
          /\ End("error") /\ damaged' = TRUE /\ UNCHANGED <<history, faults>>
       \/ /\ "allowed" \in Verdicts
          /\ \E z \in Sizes :
                Remember(ToolResult(z)) /\ fed' = fed + 1
          /\ UNCHANGED <<pc, turn, attempt, fetched, compressed, skills, calls, lead, state>>
    /\ UNCHANGED <<config, installed, summary, deleting, revived, tools, runs>>

(* A call of a transfer tool there is.                                      *)
HandsOver == \E i \in 1..Len(calls) : calls[i].kind = "transfer" /\ Found("transfer")

NextTurn ==
    /\ turn' = turn + 1
    /\ pc' = "top"
    /\ calls' = <<>> /\ fed' = 0
    /\ UNCHANGED <<attempt, fetched, compressed, skills, working, lead, state, unread>>

(* A transfer ends the run, once its result is there.                       *)
EndTurn ==
    /\ pc = "feed" /\ fed = Len(calls)
    /\ IF HandsOver THEN End("handoff") ELSE NextTurn
    /\ UNCHANGED <<mem, tools, damaged, runs, faults>>

-----------------------------------------------------------------------------
(* What comes from outside.                                                 *)
Cancel ==
    /\ pc # "idle" /\ ~cancelled
    /\ Fault
    /\ cancelled' = TRUE
    /\ UNCHANGED <<mem, tools, pc, loop, skills, outcome, unread, damaged, runs>>

ChangeSkills ==
    /\ config.loader
    /\ Fault
    /\ installed' \in (SUBSET Skills) \ {installed}
    /\ UNCHANGED <<config, history, summary, deleting, revived, tools, pc, loop, skills,
                   state, unread, damaged, runs>>

(* The process dies and is started again.  A deletion stays half done, and  *)
(* a summary file that was being written is unreadable, which is as good as *)
(* none.                                                                    *)
Dies ==
    /\ End("none")
    /\ tools' = ConfiguredTools
    /\ damaged' = (damaged \/ Dangling(history))
    /\ deleting' = FALSE
    /\ summary' \in {summary} \cup (IF config.backend = "file" /\ pc = "compact"
                                    THEN {NoSummary} ELSE {})
    /\ revived' = (revived \/ (deleting /\ summary'.through > 0))
    /\ UNCHANGED <<config, installed, history, runs>>

Crash ==
    /\ pc # "idle" \/ deleting
    /\ Fault
    /\ Dies

(* Two calls are at the map of the loaded skills, which nothing protects,   *)
(* and one of them writes: Go may notice and end the process.               *)
MapsCollide ==
    LET writes(i) == \/ Running(i, "use_skill")
                     \/ Running(i, "reload_skills") /\ ~(loaded \subseteq calls[i].skills)
        uses(i) == writes(i) \/ Approved(i, "use_skill") \/ Running(i, "reload_skills")
    IN  /\ \E i, j \in 1..Len(calls) : i # j /\ writes(i) /\ uses(j)
        /\ Dies
        /\ NoFault

(* The session is deleted, in the middle of a run if it comes to that: the  *)
(* messages and the summary, in one transaction of the database, but two    *)
(* files.                                                                   *)
DeleteSession ==
    /\ ~deleting
    /\ Fault
    /\ history' = <<>>
    /\ summary' = IF config.backend = "file" THEN [summary EXCEPT !.covers = {}] ELSE NoSummary
    /\ deleting' = (config.backend = "file")
    /\ damaged' = (pc # "idle")
    /\ unread' = (pc # "idle")
    /\ fetched' = [fetched EXCEPT !.deleted = (pc = "compact")]
    /\ UNCHANGED <<config, installed, revived, tools, pc, turn, attempt, compressed, skills,
                   working, calls, fed, lead, state, runs>>

DeleteSummary ==
    /\ deleting
    /\ deleting' = FALSE
    /\ summary' = NoSummary
    /\ unread' = (pc # "idle")
    /\ UNCHANGED <<config, installed, history, revived, tools, pc, loop, skills, state,
                   damaged, runs, faults>>

ToolStep(i) ==
    \/ ToolEnds(i) \/ Recall(i) \/ DelegateStarts(i) \/ DelegateEnds(i) \/ SubAgentStarts(i)
    \/ SubAgentEnds(i) \/ UseSkill(i) \/ KeepSkill(i) \/ ReloadSkills(i) \/ PruneSkills(i)

RunStep ==
    \/ BeginTurn \/ FetchMemory \/ PrepareMemory \/ FetchCompressed \/ InGuard \/ BuildPrompt
    \/ CallModel \/ Backoff \/ OutGuard \/ Approve \/ ToolsEnd \/ FeedResult \/ EndTurn
    \/ \E i \in 1..Len(calls) : ToolStep(i)

Next ==
    \/ Start \/ RunStep \/ Cancel \/ ChangeSkills \/ Crash \/ MapsCollide
    \/ DeleteSession \/ DeleteSummary

Spec == Init /\ [][Next]_vars

(* Go schedules a run, and calls of the store, the model, the approver and  *)
(* the tools return, as their contexts have deadlines.                      *)
FairSpec == Spec /\ WF_vars(RunStep)

-----------------------------------------------------------------------------
(* A run begins with all there is.  It is shown an unbroken end of the      *)
(* history, what was passed on and then the new message (prepareMemory);    *)
(* what it is not shown of the history did not fit the budget, and the      *)
(* summary it has read covers it and was made of just what it says          *)
(* (Compact).                                                               *)
(* Not so when the store or the summarizer failed, nor for a message of the *)
(* user that comes last before a message that is not stored.  For a history *)
(* of which less than all is fetched, as it is longer than one fetch or     *)
(* begins with results a deletion has left, only that the end is unbroken:  *)
(* what is fetched may fit, or the boundary of the whole be applied to the  *)
(* part.  The summary covers nothing if there is no summarizer, and too     *)
(* much if the session was deleted while it was being summarised.           *)
NothingForgotten ==
    LET stored == IF Transient THEN history ELSE SubSeq(history, 1, Len(history) - 1)
        hidden == Len(stored) + Len(Prefix) + 1 - Len(working)
    IN  /\ pc = "guard" /\ ~unread
        /\ stored # <<>> => ~FromUser(stored[Len(stored)]) \/ ~Transient
        => /\ hidden \in 0..Len(stored)
           /\ working = Behind(stored, hidden) \o Prefix \o <<User(Small)>>
           /\ /\ Len(history) <= FetchLimit
              /\ history # <<>> => NotTool(history[1])
              => /\ Tokens(history) <= Budget => hidden = 0
                 /\ config.summarizer /\ ~revived /\ ~deleting
                    => /\ hidden <= compressed.through
                       /\ compressed.covers = 1..compressed.through

(* What a model is sent is a conversation it accepts, unless a fault has    *)
(* taken a message: all calls have their results, refused or failed ones    *)
(* too, however many runs and cuts ago they were made, and all results      *)
(* their calls, but if the cut has torn them apart.  It begins with a       *)
(* message of the user if nothing was cut away, or if it exceeded the       *)
(* context window; members of a team begin with what was said before them.  *)
RequestSound ==
    pc = "model" =>
        /\ ~damaged =>
              /\ ~Dangling(working)
              /\ lead # "torn" => ~Orphans(working)
              /\ lead = "whole" /\ ~Transient => FromUser(working[1])
        /\ lead = "trimmed" /\ working # <<>> => FromUser(working[1])

(* A run ends: turns, retries and calls are bounded (run, callModel).       *)
RunsEnd == pc # "idle" ~> pc = "idle"
=============================================================================
