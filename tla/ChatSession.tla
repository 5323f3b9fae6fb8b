----------------------------- MODULE ChatSession ----------------------------
(***************************************************************************)
(* One session of the chat handler (rest/handler.go) in the registry that  *)
(* all handlers share (rest/session_manager.go): its entry in the map, its *)
(* record in the SessionStore, the saves under way, the HTTP requests that *)
(* chat, approve, update and delete, the agent runs they leave behind, the *)
(* janitor that evicts idle entries, and restarts of the server.           *)
(*                                                                         *)
(* Every lock section and every call of the store is an action of its own. *)
(* An entry object that left the map may still be in use, so that entries  *)
(* are numbered as they are made.  What a SessionInfo says and the messages*)
(* in the memory are left out: a record exists or does not.  Of the events *)
(* on the bus only what ends a response is kept; module EventBus is about  *)
(* the rest.  The withMeta that reads the model choice is left out: it     *)
(* touches the entry as the withMeta after it does.                        *)
(***************************************************************************)
EXTENDS Integers, FiniteSets

CONSTANTS
    Clients,     \* goroutines that serve requests for the session
    Chatters,    \* those of them that chat
    MaxRequests, \* bound: requests, and restarts of the server
    MaxRuns,     \* bound: agent runs, of all chats
    MaxAsks,     \* bound: approvals asked for, of all runs
    Scopes       \* bounds: how many requests and runs a behaviour has of these

ASSUME ChatAssumption ==
    /\ Chatters \subseteq Clients
    /\ MaxRequests \in Nat
    /\ MaxRuns \in Nat
    /\ MaxAsks \in Nat
    /\ Scopes \subseteq [requests : 0..MaxRequests, runs : 0..MaxRuns]

Entries == 1..(MaxRequests + 1)
Runs == 1..MaxRuns
Asks == 1..MaxAsks
None == 0 \* no entry, no run, no approval

VARIABLES
    scope,      \* the bounds of this behaviour
    entry,      \* the entry of the session in sm.entries
    access,     \* it has a time in sm.lastAccess
    made,       \* how many entries were made
    running,    \* sessionState.running of an entry
    pending,    \* sessionState.pendingApproval of an entry
    store,      \* the SessionStore has a record of the session
    saves,      \* calls of store.Save are under way
    req,        \* the request a client waits for
    begun,      \* how many requests there were
    run,        \* an agent run and the goroutine that forwards its events
    runs,       \* how many runs there were
    asks,       \* how many approvals were asked for
    answer,     \* the channel of an approval, capacity one, holds an answer
    removed,    \* history: how an entry left the map
    stranded,   \* history: entries left running by a chat that could not begin
    overlapped, \* history: entries on which a chat began before another ended
    stray       \* history: entries with an approval asked after its chat ended

registry == <<entry, access, made, removed>>
fields == <<running, pending, stranded>>
disk == <<store, saves>>
agents == <<run, runs, asks, answer, stray>>
vars == <<registry, fields, disk, agents, req, begun, overlapped, scope>>

-----------------------------------------------------------------------------
NoRequest == [op |-> "none", pc |-> "idle", e |-> None, found |-> FALSE,
              ask |-> None, run |-> None, left |-> FALSE, over |-> FALSE]

(* left: the client has disconnected; over: the subscription holds an event *)
(* on which the response ends, or its channel is closed.                    *)
Requests ==
    [op : {"none", "chat", "approve", "update", "delete"},
     pc : {"idle", "peek", "lookup", "fetch", "insert", "mark", "meta",
           "touch", "reading", "take", "send", "unstore", "drop", "topic"},
     e : Entries \cup {None},
     found : BOOLEAN,
     ask : Asks \cup {None},
     run : Runs \cup {None},
     left : BOOLEAN,
     over : BOOLEAN]

NoRun == [e |-> None, agent |-> "off", forwards |-> FALSE,
          cancelled |-> FALSE, ask |-> None]

(* forwards: the goroutine of handleChat lives; agent: what the run does,   *)
(* or the last event it sent.                                               *)
RunStates ==
    [e : Entries \cup {None},
     agent : {"off", "works", "asks", "done", "aborted", "closed"},
     forwards : BOOLEAN,
     cancelled : BOOLEAN,
     ask : Asks \cup {None}]

TypeOK ==
    /\ scope \in Scopes
    /\ entry \in 0..made
    /\ access \in BOOLEAN
    /\ made \in 0..(MaxRequests + 1)
    /\ running \in [Entries -> BOOLEAN]
    /\ pending \in [Entries -> Asks \cup {None}]
    /\ store \in BOOLEAN
    /\ saves \in BOOLEAN
    /\ req \in [Clients -> Requests]
    /\ begun \in 0..MaxRequests
    /\ run \in [Runs -> RunStates]
    /\ runs \in 0..MaxRuns
    /\ asks \in 0..MaxAsks
    /\ answer \in [Asks -> BOOLEAN]
    /\ removed \in [Entries -> {"no", "evicted", "deleted", "half deleted"}]
    /\ stranded \subseteq Entries
    /\ overlapped \subseteq Entries
    /\ stray \subseteq Entries
    /\ \A c \in Clients : (req[c].pc = "send") <=> (req[c].ask # None)
    /\ \A r \in Runs : run[r].e = None <=> run[r] = NoRun

Init ==
    /\ scope \in Scopes
    /\ entry = None
    /\ access = FALSE
    /\ made = 0
    /\ running = [e \in Entries |-> FALSE]
    /\ pending = [e \in Entries |-> None]
    /\ saves = FALSE
    /\ req = [c \in Clients |-> NoRequest]
    /\ run = [r \in Runs |-> NoRun]
    /\ runs = 0
    /\ asks = 0
    /\ answer = [a \in Asks |-> FALSE]
    /\ removed = [e \in Entries |-> "no"]
    /\ stranded = {}
    /\ overlapped = {}
    /\ stray = {}
    /\ store = FALSE
    /\ begun = 0

-----------------------------------------------------------------------------
(* The request of c goes on to pc, or gets its answer.                      *)
Goto(c, pc) == req' = [req EXCEPT ![c].pc = pc]
Respond(c) == req' = [req EXCEPT ![c] = NoRequest]
At(c, pc) == req[c].pc = pc

(* What a handler does with the entry that getOrCreate returned.            *)
AfterLookup(op) ==
    CASE op = "chat" -> "mark" [] op = "approve" -> "take" [] OTHER -> "meta"

Hold(c, e) ==
    req' = [req EXCEPT ![c].e = e, ![c].pc = AfterLookup(req[c].op),
                     ![c].found = FALSE]

(* POST /sessions: entry and save; no other request knows the id before it  *)
(* is answered, and the entry has no access time.                           *)
create ==
    /\ made = 0
    /\ begun = 0
    /\ entry' = 1
    /\ made' = 1
    /\ saves' = TRUE
    /\ UNCHANGED <<access, removed, fields, store, agents, req,
                   begun, overlapped, scope>>

(* The chats whose run is still to come.                                    *)
NotStarted == {c \in Clients : req[c].op = "chat" /\ req[c].run = None}

(* A request comes in.  update looks at the store before anything else.     *)
Begin(c, op, pc) ==
    /\ At(c, "idle")
    /\ begun < scope.requests
    /\ op = "chat" => c \in Chatters /\ runs + Cardinality(NotStarted) < scope.runs
    /\ begun' = begun + 1
    /\ req' = [req EXCEPT ![c].op = op, ![c].pc = pc]
    /\ UNCHANGED <<registry, fields, disk, agents, overlapped, scope>>

BeginAny(c) ==
    \/ Begin(c, "chat", "lookup")
    \/ Begin(c, "approve", "lookup")
    \/ Begin(c, "update", "peek")
    \/ Begin(c, "delete", "unstore")

(* update: a stored session is restored; a failing store counts as empty.   *)
Peek(c) ==
    /\ At(c, "peek")
    /\ \E found \in {FALSE, store} :
          Goto(c, IF found THEN "lookup" ELSE "meta")
    /\ UNCHANGED <<registry, fields, disk, agents, begun, overlapped, scope>>

(* getOrCreate, first lock section.                                         *)
Lookup(c) ==
    /\ At(c, "lookup")
    /\ \/ /\ entry # None
          /\ access' = TRUE
          /\ Hold(c, entry)
       \/ /\ entry = None
          /\ Goto(c, "fetch")
          /\ UNCHANGED access
    /\ UNCHANGED <<entry, made, removed, fields, disk, agents, begun,
                   overlapped, scope>>

(* getOrCreate, the store without the lock; a failing store counts as empty. *)
Fetch(c) ==
    /\ At(c, "fetch")
    /\ \E found \in {FALSE, store} :
          req' = [req EXCEPT ![c].pc = "insert", ![c].found = found]
    /\ UNCHANGED <<registry, fields, disk, agents, begun, overlapped, scope>>

(* A new entry in the map, restored or blank; a blank one is saved.         *)
InsertNew(c) ==
    /\ made' = made + 1
    /\ entry' = made + 1
    /\ access' = TRUE
    /\ saves' = (saves \/ ~ req[c].found)
    /\ Hold(c, made + 1)

(* Mutant of Insert: no second look at the map.                             *)
InsertUnchecked(c) ==
    /\ At(c, "insert")
    /\ InsertNew(c)
    /\ UNCHANGED <<removed, fields, store, agents, begun,
                   overlapped, scope>>

(* getOrCreate, second lock section: an entry made meanwhile wins.          *)
Insert(c) ==
    /\ At(c, "insert")
    /\ \/ /\ entry # None
          /\ Hold(c, entry)
          /\ UNCHANGED <<entry, access, made, saves>>
       \/ /\ entry = None
          /\ InsertNew(c)
    /\ UNCHANGED <<removed, fields, store, agents, begun,
                   overlapped, scope>>

-----------------------------------------------------------------------------
(* A chat on e has begun and not ended: it is between its mark and the      *)
(* start of its run, or the goroutine that forwards its events lives.       *)
Chatting(e) ==
    \/ \E c \in Clients : /\ req[c].op = "chat"
                          /\ req[c].e = e
                          /\ req[c].pc \in {"meta", "touch"}
    \/ \E r \in Runs : run[r].e = e /\ run[r].forwards

(* handleChat marks its entry as running, then subscribes to what comes     *)
(* from now on.  (An event between the two is as if it came before them.)   *)
(* If the response cannot be streamed it answers 500 and leaves the mark.   *)
Mark(c) ==
    LET e == req[c].e IN
    /\ At(c, "mark")
    /\ running' = [running EXCEPT ![e] = TRUE]
    /\ pending' = [pending EXCEPT ![e] = None]
    /\ overlapped' = IF Chatting(e) THEN overlapped \cup {e} ELSE overlapped
    /\ \/ Goto(c, "meta") /\ UNCHANGED stranded
       \/ Respond(c) /\ stranded' = stranded \cup {e}
    /\ UNCHANGED <<registry, disk, agents, begun, scope>>

(* The goroutine of a chat, and with it the agent's run.                    *)
StartRun(c) ==
    /\ runs' = runs + 1
    /\ run' = [run EXCEPT ![runs + 1] =
          [NoRun EXCEPT !.e = req[c].e, !.agent = "works", !.forwards = TRUE]]
    /\ req' = [req EXCEPT ![c].pc = "reading", ![c].run = runs + 1]
    /\ UNCHANGED <<asks, answer, stray>>

(* What follows withMeta: a chat starts its run, an update is answered.     *)
AfterMeta(c) ==
    \/ req[c].op = "chat" /\ StartRun(c)
    \/ req[c].op = "update" /\ Respond(c) /\ UNCHANGED agents

(* withMeta of a chat or an update; without an entry it does nothing, which *)
(* an update answers with 404.                                              *)
Meta(c) ==
    /\ At(c, "meta")
    /\ \/ entry # None /\ Goto(c, "touch") /\ UNCHANGED agents
       \/ entry = None /\ AfterMeta(c)
    /\ UNCHANGED <<registry, fields, disk, begun, overlapped, scope>>

(* The end of withMeta, in a lock section of its own, and syncMeta.         *)
Touch(c) ==
    /\ At(c, "touch")
    /\ access' = TRUE
    /\ saves' = TRUE
    /\ AfterMeta(c)
    /\ UNCHANGED <<entry, made, removed, fields, store, begun, overlapped, scope>>

(* The client of a chat disconnects.                                        *)
Disconnect(c) ==
    /\ At(c, "reading")
    /\ ~ req[c].left
    /\ req' = [req EXCEPT ![c].left = TRUE]
    /\ UNCHANGED <<registry, fields, disk, agents, begun, overlapped, scope>>

(* The response ends.                                                       *)
EndResponse(c) ==
    /\ At(c, "reading")
    /\ req[c].over
    /\ Respond(c)
    /\ UNCHANGED <<registry, fields, disk, agents, begun, overlapped, scope>>

(* r.Context() is done: the client has left or the response has ended.      *)
RequestOver(r) == \A c \in Clients : req[c].run = r => req[c].left

-----------------------------------------------------------------------------
(* An event reaches the responses that are subscribed.  One that ends them  *)
(* is "done" or "error"; any event ends one whose client left, as it cannot *)
(* be written.                                                              *)
Attached(c) ==
    req[c].op = "chat" /\ req[c].pc \in {"meta", "touch", "reading"}

Published(ends) ==
    req' = [c \in Clients |->
        [req[c] EXCEPT !.over =
            @ \/ (Attached(c) /\ (ends \/ req[c].left))]]

(* The run passes a stage, an append to the memory say, and an event tells   *)
(* of it, or its goroutine forwards an event that is not the last.          *)
AgentPublishes(r) ==
    /\ run[r].agent = "works"
    /\ Published(FALSE)
    /\ UNCHANGED <<registry, fields, disk, agents, begun, overlapped, scope>>

(* Mutant of AgentAsks: the approval is announced and not recorded.         *)
AgentAsksUnrecorded(r) ==
    /\ run[r].agent = "works"
    /\ asks < MaxAsks
    /\ asks' = asks + 1
    /\ run' = [run EXCEPT ![r].agent = "asks", ![r].ask = asks + 1]
    /\ stray' = IF run[r].forwards THEN stray ELSE stray \cup {run[r].e}
    /\ UNCHANGED <<registry, fields, disk, runs, answer, req, begun,
                   overlapped, scope>>

(* Approve and submitApproval: the approval goes into the one slot of the   *)
(* entry, whatever is in it and whether or not the run is cancelled.        *)
AgentAsks(r) ==
    LET e == run[r].e IN
    /\ run[r].agent = "works"
    /\ asks < MaxAsks
    /\ asks' = asks + 1
    /\ pending' = [pending EXCEPT ![e] = asks + 1]
    /\ run' = [run EXCEPT ![r].agent = "asks", ![r].ask = asks + 1]
    /\ stray' = IF run[r].forwards THEN stray ELSE stray \cup {e}
    /\ UNCHANGED <<registry, running, stranded, disk, runs, answer, req, begun,
                   overlapped, scope>>

AgentAnswered(r) ==
    /\ run[r].agent = "asks"
    /\ answer[run[r].ask]
    /\ answer' = [answer EXCEPT ![run[r].ask] = FALSE]
    /\ run' = [run EXCEPT ![r].agent = "works", ![r].ask = None]
    /\ UNCHANGED <<registry, fields, disk, runs, asks, stray, req, begun,
                   overlapped, scope>>

(* Mutant of AgentRefused: Approve waits for its answer only.               *)
AgentRefusedNever(r) ==
    /\ FALSE
    /\ UNCHANGED vars

(* Approve returns as the context is done.                                  *)
AgentRefused(r) ==
    /\ run[r].agent = "asks"
    /\ run[r].cancelled
    /\ run' = [run EXCEPT ![r].agent = "works", ![r].ask = None]
    /\ UNCHANGED <<registry, fields, disk, runs, asks, answer, stray, req,
                   begun, overlapped, scope>>

(* The run sends its last event: done or error, or aborted when cancelled.  *)
(* Where nobody forwards it any more it is lost.                            *)
AgentEnds(r) ==
    /\ run[r].agent = "works"
    /\ \E last \in {"done", "aborted", "closed"} :
          /\ last = "aborted" => run[r].cancelled
          /\ last = "closed" <=> ~ run[r].forwards
          /\ run' = [run EXCEPT ![r].agent = last]
    /\ UNCHANGED <<registry, fields, disk, runs, asks, answer, stray, req,
                   begun, overlapped, scope>>

(* Five minutes have passed, while it matters.                              *)
Timeout(r) ==
    /\ run[r].forwards
    /\ run[r].agent \in {"works", "asks"}
    /\ ~ run[r].cancelled
    /\ run' = [run EXCEPT ![r].cancelled = TRUE]
    /\ UNCHANGED <<registry, fields, disk, runs, asks, answer, stray, req,
                   begun, overlapped, scope>>

(* The deferred calls of the goroutine that forwards events: the fields are *)
(* cleared, whoever has set them, and the context is cancelled.             *)
StopForwarding(r) ==
    /\ running' = [running EXCEPT ![run[r].e] = FALSE]
    /\ pending' = [pending EXCEPT ![run[r].e] = None]
    /\ stranded' = stranded \ {run[r].e}
    /\ run' = [run EXCEPT ![r].forwards = FALSE, ![r].cancelled = TRUE,
          ![r].agent = IF @ \in {"works", "asks"} THEN @ ELSE "closed"]

(* Mutant of ForwardToNobody: the fields are left as they are.              *)
ForwardToNobodyQuietly(r) ==
    /\ run[r].forwards
    /\ RequestOver(r)
    /\ run[r].agent # "closed"
    /\ run' = [run EXCEPT ![r].forwards = FALSE, ![r].cancelled = TRUE]
    /\ UNCHANGED <<registry, fields, disk, runs, asks, answer, stray, req,
                   begun, overlapped, scope>>

(* An event comes when the request is over: nothing more is published.      *)
ForwardToNobody(r) ==
    /\ run[r].forwards
    /\ RequestOver(r)
    /\ run[r].agent # "closed"
    /\ StopForwarding(r)
    /\ UNCHANGED <<registry, disk, runs, asks, answer, stray, req, begun,
                   overlapped, scope>>

(* The last event is published; then the channel of events is closed.       *)
ForwardLast(r) ==
    /\ run[r].forwards
    /\ ~ RequestOver(r)
    /\ run[r].agent \in {"done", "aborted"}
    /\ Published(run[r].agent = "done")
    /\ run' = [run EXCEPT ![r].agent = "closed"]
    /\ UNCHANGED <<registry, fields, disk, runs, asks, answer, stray, begun,
                   overlapped, scope>>

(* The goroutine ends as the channel of events is closed.                   *)
Finish(r) ==
    /\ run[r].forwards
    /\ run[r].agent = "closed"
    /\ StopForwarding(r)
    /\ UNCHANGED <<registry, disk, runs, asks, answer, stray, req, begun,
                   overlapped, scope>>

-----------------------------------------------------------------------------
(* handleApprove takes what is pending; nothing is answered 400.            *)
Taken(c) ==
    LET a == pending[req[c].e] IN
    IF a = None THEN Respond(c)
    ELSE req' = [req EXCEPT ![c].pc = "send", ![c].ask = a]

(* Mutant of Take: an empty slot is not noticed.                            *)
TakeUnchecked(c) ==
    /\ At(c, "take")
    /\ req' = [req EXCEPT ![c].pc = "send", ![c].ask = pending[req[c].e]]
    /\ pending' = [pending EXCEPT ![req[c].e] = None]
    /\ UNCHANGED <<registry, running, stranded, disk, agents, begun, overlapped, scope>>

Take(c) ==
    /\ At(c, "take")
    /\ Taken(c)
    /\ pending' = [pending EXCEPT ![req[c].e] = None]
    /\ UNCHANGED <<registry, running, stranded, disk, agents, begun, overlapped, scope>>

(* The answer goes into the channel, which blocks when it holds one.        *)
Send(c) ==
    /\ At(c, "send")
    /\ ~ answer[req[c].ask]
    /\ answer' = [answer EXCEPT ![req[c].ask] = TRUE]
    /\ Respond(c)
    /\ UNCHANGED <<registry, fields, disk, run, runs, asks, stray, begun,
                   overlapped, scope>>

-----------------------------------------------------------------------------
(* del: the store, which may fail; then the messages, which are left out    *)
(* here, the map and the topic.                                             *)
Unstore(c) ==
    /\ At(c, "unstore")
    /\ \E ok \in BOOLEAN :
          /\ store' = (store /\ ~ ok)
          /\ req' = [req EXCEPT ![c].pc = "drop", ![c].found = ok]
    /\ UNCHANGED <<registry, fields, saves, agents, begun, overlapped, scope>>

Drop(how) ==
    /\ entry' = None
    /\ access' = FALSE
    /\ removed' = IF entry = None THEN removed
                  ELSE [removed EXCEPT ![entry] = how]

Unlist(c) ==
    /\ At(c, "drop")
    /\ Drop(IF req[c].found THEN "deleted" ELSE "half deleted")
    /\ Goto(c, "topic")
    /\ UNCHANGED <<made, fields, disk, agents, begun, overlapped, scope>>

(* RemoveTopic closes what is subscribed, which ends the responses.         *)
RemoveTopic(c) ==
    /\ At(c, "topic")
    /\ req' = [d \in Clients |->
          IF d = c THEN NoRequest
          ELSE [req[d] EXCEPT !.over = @ \/ Attached(d)]]
    /\ UNCHANGED <<registry, fields, disk, agents, begun, overlapped, scope>>

-----------------------------------------------------------------------------
(* A Save of syncMeta or evictIdle lands, and others may be under way; the  *)
(* last of them ends, and has landed or failed.                             *)
SaveLands ==
    /\ saves
    /\ ~ store
    /\ store' = TRUE
    /\ UNCHANGED <<registry, fields, saves, agents, req, begun, overlapped, scope>>

SavesEnd ==
    /\ saves
    /\ saves' = FALSE
    /\ store' \in {store, TRUE}
    /\ UNCHANGED <<registry, fields, agents, req, begun, overlapped, scope>>

(* Mutant of isActive: it looks at the approval only.                       *)
isActiveAsking(e) == pending[e] # None

isActive(e) == running[e] \/ pending[e] # None

(* Nothing has happened for long.  maxIdle is taken to be longer than the   *)
(* calls of the store and the memory, which have timeouts of 5 and 10 s,    *)
(* but not longer than a chat.                                              *)
IdleTime == ~ saves /\ \A c \in Clients : req[c].pc \in {"idle", "reading"}

(* evictIdle finds that the last access is maxIdle ago: the entry goes, and *)
(* its metadata is saved behind its back.                                   *)
evictIdle ==
    /\ entry # None
    /\ access
    /\ IdleTime
    /\ ~ isActive(entry)
    /\ Drop("evicted")
    /\ saves' = TRUE
    /\ UNCHANGED <<made, fields, store, agents, req, begun, overlapped, scope>>

(* The server is restarted: of all this only the store remains.             *)
Restart ==
    /\ begun < scope.requests
    /\ begun' = begun + 1
    /\ entry' = None
    /\ access' = FALSE
    /\ made' = 0
    /\ running' = [e \in Entries |-> FALSE]
    /\ pending' = [e \in Entries |-> None]
    /\ saves' = FALSE
    /\ req' = [c \in Clients |-> NoRequest]
    /\ run' = [r \in Runs |-> NoRun]
    /\ runs' = 0
    /\ asks' = 0
    /\ answer' = [a \in Asks |-> FALSE]
    /\ removed' = [e \in Entries |-> "no"]
    /\ stranded' = {}
    /\ overlapped' = {}
    /\ stray' = {}
    /\ UNCHANGED <<store, scope>>

-----------------------------------------------------------------------------
RequestStep(c) ==
    \/ Peek(c) \/ Lookup(c) \/ Fetch(c) \/ Insert(c)
    \/ Mark(c) \/ Meta(c) \/ Touch(c)
    \/ EndResponse(c)
    \/ Take(c) \/ Send(c)
    \/ Unstore(c) \/ Unlist(c) \/ RemoveTopic(c)

RunStep(r) ==
    \/ AgentAsks(r) \/ AgentAnswered(r) \/ AgentRefused(r)
    \/ AgentEnds(r) \/ Timeout(r)
    \/ ForwardToNobody(r) \/ ForwardLast(r) \/ Finish(r)

Next ==
    \/ create
    \/ \E c \in Clients : BeginAny(c) \/ RequestStep(c) \/ Disconnect(c)
    \/ \E r \in Runs : RunStep(r) \/ AgentPublishes(r)
    \/ SaveLands \/ SavesEnd \/ evictIdle
    \/ Restart

Spec == Init /\ [][Next]_vars

(* Requests go on, as no lock is held for long and the calls they make have *)
(* timeouts; a run that is waited for ends and its events are forwarded; a  *)
(* context times out; saves end and the janitor ticks.  Nobody need ask,    *)
(* answer or disconnect, and a run nobody reads may block for ever.         *)
FairSpec ==
    /\ Spec
    /\ \A c \in Clients : WF_vars(RequestStep(c))
    /\ \A r \in Runs : /\ WF_vars(AgentAnswered(r))
                        /\ WF_vars(AgentRefused(r))
                        /\ WF_vars(run[r].forwards /\ AgentEnds(r))
                        /\ WF_vars(Timeout(r))
                        /\ WF_vars(run[r].agent \in {"done", "aborted"} /\ ForwardToNobody(r))
                        /\ WF_vars(ForwardLast(r))
                        /\ WF_vars(Finish(r))
    /\ WF_vars(SavesEnd)
    /\ WF_vars(evictIdle)

-----------------------------------------------------------------------------
(* Whoever works with an entry works with the one in the map, unless it was *)
(* taken out: two requests that find no entry at the same time do not go on *)
(* with one each (the second look of getOrCreate).                          *)
HeldIsListed ==
    \A c \in Clients :
        req[c].e # None =>
            req[c].e = entry \/ removed[req[c].e] # "no"

(* The janitor never takes an entry from under a chat: while its run is     *)
(* forwarded the entry stays in the map, where an approval will look for    *)
(* it, unless the session is deleted.  Entries on which chats overlapped    *)
(* are excepted, as the first to end clears the fields of the other.        *)
EvictionSparesWork ==
    \A r \in Runs :
        run[r].forwards /\ run[r].e \notin overlapped =>
            run[r].e = entry \/ removed[run[r].e] \in {"deleted", "half deleted"}

(* An approval can be answered, and once.  It is taken by one request, for  *)
(* whose answer the channel of capacity one has room; and while a run waits *)
(* for one it is in the slot of the entry, in the hands of a request or     *)
(* answered already.  The latter is for chats that did not overlap, and     *)
(* where no run asks after its chat has ended, as it takes the slot then.   *)
Answerable ==
    /\ \A c \in Clients : At(c, "send") => ~ answer[req[c].ask]
    /\ \A r \in Runs :
          /\ run[r].agent = "asks"
          /\ run[r].forwards
          /\ run[r].e \notin overlapped \cup stray
          => \/ pending[run[r].e] = run[r].ask
             \/ answer[run[r].ask]
             \/ \E c \in Clients : req[c].ask = run[r].ask

(* The goroutine of every chat ends, whether the client stays or leaves, an *)
(* approval is answered or not.                                             *)
ChatsEnd ==
    \A r \in Runs : run[r].forwards ~> ~ run[r].forwards

(* Nothing goes on in the session but responses that nobody ends.           *)
Quiet ==
    /\ \A c \in Clients : req[c].pc \in {"idle", "reading"}
    /\ \A r \in Runs : ~ run[r].forwards

(* The janitor does its work: an entry that was looked up or touched and is *)
(* left alone is evicted, however its chats ended.  Excepted are entries    *)
(* where a cancelled run asked for an approval after its goroutine had      *)
(* cleared the slot, which nobody clears again; and those a chat without a  *)
(* stream has left running, until another chat ends there.                  *)
IdleEvicted ==
    LET excepted == entry \in stray \cup stranded IN
    (entry # None /\ access /\ ~ excepted /\ Quiet)
        ~> (entry = None \/ excepted \/ ~ Quiet)

-----------------------------------------------------------------------------
(* handleChat streams "until done/error/disconnect" (handler.go:291): the   *)
(* response to a client that has left ends.                                 *)
ResponseEnds ==
    \A c \in Clients : (At(c, "reading") /\ req[c].left) ~> ~ At(c, "reading")
=============================================================================
