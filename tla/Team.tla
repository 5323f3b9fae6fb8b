-------------------------------- MODULE Team --------------------------------
(* A team session: team.go, router.go, rest/team.go and rest/team_memory.go *)
(* for one session id.  Chats route a question to a member, which answers   *)
(* or hands over to another one, until one answers, a limit is reached or   *)
(* something fails.  Meanwhile members are added and removed, and approvals *)
(* asked for and given.  A member's run is reduced to what the team sees:   *)
(* the memory it reads and writes, the hand-offs it records, and its end.   *)
EXTENDS Naturals, Sequences, FiniteSets

CONSTANTS
    Agents,         \* names of members
    External,       \* those with a runner of another kind (MembershipNotifiable):
                    \* told of the others, they may hand over against instructions
    Changing,       \* the members the administrators add and remove
    Chats,          \* chat requests
    Admins,         \* requests that add or remove a member
    Scenarios,      \* the members to begin with, the requests that are made, and
                    \* bounds on the hand-offs of each chat and on the approvals
    MaxHandoffs,    \* maxHandoffs of the team
    Window,         \* messages that a member's run takes from its memory: of those
                    \* fetched what fits its token budget, all of one size here
    None

ASSUME TeamAssumption ==
    /\ External \subseteq Agents /\ Changing \subseteq Agents
    /\ Scenarios \subseteq [members : SUBSET Agents, chats : SUBSET Chats,
                            admins : SUBSET Admins, moves : [Chats -> Nat], approvals : Nat]
    /\ MaxHandoffs \in Nat /\ Window \in Nat \ {0}
    /\ None \notin Agents \cup Chats

VARIABLES
    members,    \* team.agents
    list,       \* teamSessionState.agentList and agentMems
    told,       \* the others an external member was last told of
    op,         \* where a request that changes the membership is
    shared,     \* shared memory: questions (the chat asking) and answers (None)
    own,        \* messages in a member's private memory, counted to Window
    pc, current, chain, forceFinal, slot, targets, transient,
    made,       \* hand-offs the member has recorded in this run of it
    moves,      \* hand-offs it may still record
    sees,       \* the member's prompt holds the question
    result,     \* the event a chat ends with
    running, pending, approval, approvals,
    unsettled,  \* history: two changes of the membership at once, or one cut short
    lingers     \* history: members removed while they ran

team == <<members, list, told, op, unsettled, lingers>>
memory == <<shared, own>>
path == <<chain, slot, targets, made, moves>>
inputs == <<forceFinal, transient>>
desk == <<running, pending, approval, approvals>>
vars == <<members, list, told, op, shared, own, pc, current, chain, forceFinal,
          slot, targets, transient, made, moves, sees, result, running, pending, approval, approvals,
          unsettled, lingers>>

Entry == [from : Agents, to : Agents]

OpState == [step : {"none", "notify", "list", "over"}, add : BOOLEAN,
            agent : Agents \cup {None},
            news : [External -> SUBSET Agents], left : SUBSET External]

TypeOK ==
    /\ members \subseteq Agents /\ list \subseteq Agents
    /\ told \in [External -> SUBSET Agents]
    /\ op \in [Admins -> OpState]
    /\ shared \in Seq(Chats \cup {None})
    /\ own \in [Agents -> 0..Window]
    /\ pc \in [Chats -> {"none", "route", "check", "top", "read", "works", "asks",
                         "taken", "take", "closing", "over"}]
    /\ current \in [Chats -> Agents \cup {None}]
    /\ chain \in [Chats -> Seq(Entry)]
    /\ \A c \in Chats : Len(chain[c]) <= MaxHandoffs
    /\ forceFinal \in [Chats -> BOOLEAN]
    /\ slot \in [Chats -> Seq(Agents)]
    /\ targets \in [Chats -> SUBSET Agents]
    /\ transient \in [Chats -> BOOLEAN]
    /\ made \in [Chats -> 0..2]
    /\ moves \in [Chats -> Nat]
    /\ sees \in [Chats -> BOOLEAN]
    /\ result \in [Chats -> {"none", "done", "error"}]
    /\ running \in BOOLEAN
    /\ pending \in Chats \cup {None}
    /\ approval \in [Chats -> {"none", "asked", "given"}]
    /\ approvals \in Nat
    /\ unsettled \in BOOLEAN
    /\ lingers \subseteq Agents

(* What external members are told: the other members.                       *)
News(ms) == [x \in External |-> IF x \in ms THEN ms \ {x} ELSE {}]

NoOp == [step |-> "none", add |-> FALSE, agent |-> None,
         news |-> [x \in External |-> {}], left |-> {}]

Init ==
    /\ \E s \in Scenarios :
          /\ members = s.members
          /\ op = [o \in Admins |->
                     [NoOp EXCEPT !.step = IF o \in s.admins THEN "none" ELSE "over"]]
          /\ pc = [c \in Chats |-> IF c \in s.chats THEN "none" ELSE "over"]
          /\ moves = s.moves
          /\ approvals = s.approvals
    /\ list = members
    /\ told = News(members)
    /\ shared = <<>> /\ own = [a \in Agents |-> 0]
    /\ current = [c \in Chats |-> None]
    /\ chain = [c \in Chats |-> <<>>]
    /\ forceFinal = [c \in Chats |-> FALSE]
    /\ slot = [c \in Chats |-> <<>>]
    /\ targets = [c \in Chats |-> {}]
    /\ transient = [c \in Chats |-> FALSE]
    /\ made = [c \in Chats |-> 0]
    /\ sees = [c \in Chats |-> TRUE]
    /\ result = [c \in Chats |-> "none"]
    /\ running = FALSE /\ pending = None
    /\ approval = [c \in Chats |-> "none"]
    /\ unsettled = FALSE
    /\ lingers = {}

At(c, where) == pc[c] = where

Go(c, where) == pc' = [pc EXCEPT ![c] = where]

Active(c) == pc[c] \notin {"none", "over"}

Set(f, c, v) == [f EXCEPT ![c] = v]

(* The last event is sent; the fields of the session are cleared after it.  *)
Close(c, how) == Go(c, "closing") /\ result' = Set(result, c, how)

(* An agent that takes part in three hand-offs is taken for a loop, which   *)
(* includes A to B to A to B.                                               *)
DetectLoop(ch) ==
    /\ Len(ch) >= 2
    /\ \/ \E a \in Agents :
             Cardinality({ i \in 1..Len(ch) : ch[i].from = a })
             + Cardinality({ i \in 1..Len(ch) : ch[i].to = a }) >= 3
       \/ LET n == Len(ch) IN
          n >= 4 /\ ch[n - 3] = ch[n - 1] /\ ch[n - 2] = ch[n]

-----------------------------------------------------------------------------
(* handleChat: the fields are set, whoever is at work, and the run begins,  *)
(* unless the response cannot be streamed: then there is no run, and nobody *)
(* clears the fields.                                                       *)
Chat(c) ==
    /\ At(c, "none")
    /\ Go(c, "route") \/ Go(c, "over")
    /\ running' = TRUE
    /\ pending' = None
    /\ UNCHANGED <<team, path, inputs, memory, current, sees, result, approval, approvals>>

(* The router picks one of the members, the first one or the one a model    *)
(* names; without members there is nobody to ask.                           *)
Route(c) ==
    /\ At(c, "route")
    /\ \/ members = {} /\ Close(c, "error") /\ UNCHANGED current
       \/ \E a \in members :
            current' = Set(current, c, a) /\ Go(c, "check") /\ UNCHANGED result
    /\ UNCHANGED <<team, path, inputs, memory, sees, desk>>

(* The model may have taken its time: the member must still be there.       *)
CheckRoute(c) ==
    /\ At(c, "check")
    /\ \/ current[c] \in members /\ Go(c, "top") /\ UNCHANGED result
       \/ current[c] \notin members /\ Close(c, "error")
    /\ UNCHANGED <<team, path, inputs, memory, current, sees, desk>>

(* prepareRunner: whom the member may hand over to, by a tool for each or   *)
(* the context it is given; nobody if it has to finish itself.              *)
Targets(c) == IF forceFinal[c] THEN {} ELSE members \ {current[c]}

(* Mutant of BeginMember: the limit is taken for one more.                  *)
BeginMemberOver(c) ==
    LET a == current[c] IN
    /\ At(c, "top")
    /\ Len(chain[c]) <= MaxHandoffs /\ a \in members
    /\ Go(c, "read")
    /\ targets' = Set(targets, c, Targets(c))
    /\ made' = Set(made, c, 0)
    /\ shared' = IF transient[c] \/ a \in External THEN shared ELSE Append(shared, c)
    /\ UNCHANGED <<team, chain, forceFinal, slot, transient, moves, own, current,
                   sees, result, desk>>

(* The head of the loop: the limit, then the run of the member, which       *)
(* stores the input if that is the question of the user.                    *)
BeginMember(c) ==
    LET a == current[c] IN
    /\ At(c, "top")
    /\ Len(chain[c]) < MaxHandoffs /\ a \in members
    /\ Go(c, "read")
    /\ targets' = Set(targets, c, Targets(c))
    /\ made' = Set(made, c, 0)
    /\ shared' = IF transient[c] \/ a \in External THEN shared ELSE Append(shared, c)
    /\ UNCHANGED <<team, chain, forceFinal, slot, transient, moves, own, current,
                   sees, result, desk>>

(* The limit is reached, or the member has been removed.                    *)
GiveUp(c) ==
    /\ At(c, "top")
    /\ Len(chain[c]) >= MaxHandoffs \/ current[c] \notin members
    /\ Close(c, "error")
    /\ UNCHANGED <<team, path, inputs, memory, current, sees, desk>>

(* The shared messages a member has room for: what fits is an end of the    *)
(* shared messages followed by its own (teamAgentMemory.Recent), so that    *)
(* the shared ones are the first to be left out.                            *)
Fitting(a) ==
    LET over == Len(shared) + own[a] - Window IN
    IF Len(shared) + own[a] <= Window THEN shared
    ELSE SubSeq(shared, over + 1, Len(shared))

(* Mutant of TeamRecent: a message of the user is removed wherever the      *)
(* member's own begin.                                                      *)
TeamRecentStripped(a) ==
    LET ms == Fitting(a) IN
    IF ms # <<>> /\ ms[Len(ms)] # None THEN SubSeq(ms, 1, Len(ms) - 1) ELSE ms

(* What a member is shown of the shared messages.  If a message of the user *)
(* comes last of all, with none of its own behind it, it is taken for the   *)
(* input, which is added behind, and removed.                               *)
TeamRecent(a) ==
    LET ms == Fitting(a) IN
    IF own[a] = 0 /\ ms # <<>> /\ ms[Len(ms)] # None THEN SubSeq(ms, 1, Len(ms) - 1)
    ELSE ms

Holds(ms, c) == \E i \in 1..Len(ms) : ms[i] = c

Read(c) ==
    /\ At(c, "read")
    /\ Go(c, "works")
    /\ sees' = Set(sees, c, ~transient[c] \/ Holds(TeamRecent(current[c]), c))
    /\ UNCHANGED <<team, path, inputs, memory, current, result, desk>>

-----------------------------------------------------------------------------
Internal(c) == current[c] \notin External

(* It has stored n more messages of its own.                                *)
Store(a, n) ==
    own' = [own EXCEPT ![a] = IF own[a] + n > Window THEN Window ELSE own[a] + n]

(* The member calls a tool: call and result go into its private memory.     *)
UseTool(c) ==
    /\ At(c, "works") /\ made[c] = 0
    /\ Internal(c)
    /\ Store(current[c], 2)
    /\ UNCHANGED <<team, path, inputs, shared, pc, current, sees, result, desk>>

(* A tool needs an approval: the request is put where handleApprove finds   *)
(* it, in place of whatever is there (submitApproval).                      *)
SubmitApproval(c) ==
    /\ At(c, "works") /\ made[c] = 0
    /\ Internal(c)
    /\ approvals > 0
    /\ approvals' = approvals - 1
    /\ approval' = Set(approval, c, "asked")
    /\ pending' = c
    /\ Go(c, "asks")
    /\ UNCHANGED <<team, path, inputs, memory, current, sees, result, running>>

(* handleApprove takes the request out and answers it.                      *)
GiveApproval ==
    /\ pending # None
    /\ pending' = None
    /\ approval' = Set(approval, pending,
                       IF approval[pending] = "asked" THEN "given" ELSE approval[pending])
    /\ UNCHANGED <<team, path, inputs, memory, pc, current, sees, result, running,
                   approvals>>

(* The answer arrives; granted or not, the tool has a result.               *)
TakeApproval(c) ==
    /\ At(c, "asks") /\ approval[c] = "given"
    /\ approval' = Set(approval, c, "none")
    /\ Store(current[c], 2)
    /\ Go(c, "works")
    /\ UNCHANGED <<team, path, inputs, shared, current, sees, result, running, pending,
                   approvals>>

(* A transfer tool is executed: one the member was given or, if it is an    *)
(* external one, one for any member it has heard of.  An answer may hold    *)
(* more than one.                                                           *)
RecordHandoff(c) ==
    LET a == current[c] IN
    /\ At(c, "works") /\ made[c] < 2
    /\ moves[c] > 0
    /\ \E t \in IF Internal(c) THEN targets[c] ELSE told[a] :
          slot' = Set(slot, c, Append(slot[c], t))
    /\ made' = Set(made, c, made[c] + 1)
    /\ moves' = Set(moves, c, moves[c] - 1)
    /\ IF Internal(c) THEN Store(a, IF made[c] = 0 THEN 2 ELSE 1) ELSE UNCHANGED own
    /\ UNCHANGED <<team, chain, targets, inputs, shared, pc, current, sees, result, desk>>

(* The run of the member ends, with a transfer or a text, which is shared.  *)
MemberEnds(c) ==
    /\ At(c, "works")
    /\ Go(c, "take")
    /\ shared' = IF Internal(c) /\ made[c] = 0 THEN Append(shared, None) ELSE shared
    /\ targets' = Set(targets, c, {})
    /\ made' = Set(made, c, 0)
    /\ sees' = Set(sees, c, TRUE)
    /\ UNCHANGED <<team, chain, slot, moves, inputs, own, current, result, desk>>

(* Mutant of MemberFails: an approval is waited for whatever happens.       *)
MemberFailsAtWork(c) ==
    /\ pc[c] \in {"read", "works"}
    /\ Close(c, "error")
    /\ approval' = Set(approval, c, "none")
    /\ UNCHANGED <<team, path, inputs, memory, current, sees, running, pending, approvals>>

(* It fails, or the five minutes of the chat are over.                      *)
MemberFails(c) ==
    /\ pc[c] \in {"read", "works", "asks"}
    /\ Close(c, "error")
    /\ approval' = Set(approval, c, "none")
    /\ UNCHANGED <<team, path, inputs, memory, current, sees, running, pending, approvals>>

-----------------------------------------------------------------------------
(* The hand-offs recorded are taken, of which the first counts; without one *)
(* the answer is the team's.                                                *)
TakeHandoff(c) ==
    /\ At(c, "take")
    /\ \/ slot[c] = <<>> /\ Close(c, "done")
       \/ slot[c] # <<>> /\ Go(c, "taken") /\ UNCHANGED result
    /\ UNCHANGED <<team, path, inputs, memory, current, sees, desk>>

(* Mutant of Transfer: what a loop is answered with is not remembered.      *)
TransferAnyway(c) ==
    LET t    == slot[c][1]
        more == Append(chain[c], [from |-> current[c], to |-> t])
    IN  /\ At(c, "taken")
        /\ slot' = Set(slot, c, <<>>)
        /\ chain' = IF t \in members THEN Set(chain, c, more) ELSE chain
        /\ IF t \notin members
           THEN Close(c, "error") /\ UNCHANGED <<forceFinal, transient, current>>
           ELSE /\ Go(c, "top")
                /\ forceFinal' = Set(forceFinal, c, DetectLoop(more))
                /\ transient' = Set(transient, c, TRUE)
                /\ current' = Set(current, c, t)
                /\ UNCHANGED result
        /\ UNCHANGED <<team, targets, made, moves, memory, sees, desk>>

(* The first hand-off is carried out if its target is still a member: a     *)
(* loop is answered with a last turn that has to be final, a loop in spite  *)
(* of that with an error.                                                   *)
Transfer(c) ==
    LET t    == slot[c][1]
        more == Append(chain[c], [from |-> current[c], to |-> t])
    IN  /\ At(c, "taken")
        /\ slot' = Set(slot, c, <<>>)
        /\ chain' = IF t \in members THEN Set(chain, c, more) ELSE chain
        /\ IF t \notin members \/ (DetectLoop(more) /\ forceFinal[c])
           THEN Close(c, "error") /\ UNCHANGED <<forceFinal, transient, current>>
           ELSE /\ Go(c, "top")
                /\ forceFinal' = Set(forceFinal, c, DetectLoop(more))
                /\ transient' = Set(transient, c, TRUE)
                /\ current' = Set(current, c, t)
                /\ UNCHANGED result
        /\ UNCHANGED <<team, targets, made, moves, memory, sees, desk>>

(* The router vetoes it: the member has to finish itself.                   *)
Veto(c) ==
    /\ At(c, "taken")
    /\ slot[c][1] \in members
    /\ slot' = Set(slot, c, <<>>)
    /\ forceFinal' = Set(forceFinal, c, TRUE)
    /\ transient' = Set(transient, c, TRUE)
    /\ Go(c, "top")
    /\ UNCHANGED <<team, chain, targets, made, moves, memory, current, sees, result, desk>>

(* The deferred cleanup of handleChat.                                      *)
Cleanup(c) ==
    /\ At(c, "closing")
    /\ Go(c, "over")
    /\ running' = FALSE
    /\ pending' = None
    /\ current' = Set(current, c, None)
    /\ result' = Set(result, c, "none")
    /\ chain' = Set(chain, c, <<>>)
    /\ moves' = Set(moves, c, 0)
    /\ slot' = Set(slot, c, <<>>)
    /\ targets' = Set(targets, c, {})
    /\ made' = Set(made, c, 0)
    /\ forceFinal' = Set(forceFinal, c, FALSE)
    /\ transient' = Set(transient, c, FALSE)
    /\ sees' = Set(sees, c, TRUE)
    /\ UNCHANGED <<team, memory, approval, approvals>>

-----------------------------------------------------------------------------
(* Changes of the membership.  The change is made, and what the external    *)
(* members are to be told composed, under the lock of the team; they are    *)
(* told, and the handler's own list updated, later.                         *)
ChangeTeam(o, add, a, ms) ==
    /\ members' = ms
    /\ op' = Set(op, o, [step |-> "notify", add |-> add, agent |-> a, news |-> News(ms),
                         left |-> IF ms = members THEN {} ELSE External \cap ms])
    /\ unsettled' = (unsettled \/ \E p \in Admins : op[p].step \in {"notify", "list"})

AddAgent(o) ==
    /\ op[o].step = "none"
    /\ \E a \in Changing \ (External \cup members) :
          ChangeTeam(o, TRUE, a, members \cup {a})
    /\ UNCHANGED <<list, told, lingers, memory, path, inputs, pc, current, sees, result, desk>>

RemoveAgent(o) ==
    /\ op[o].step = "none"
    /\ \E a \in Changing : ChangeTeam(o, FALSE, a, members \ {a})
    /\ UNCHANGED <<list, told, lingers, memory, path, inputs, pc, current, sees, result, desk>>

(* Each is told in turn.  One that panics ends the request, as the runner   *)
(* of this repository does that enters the first tool into a map that was   *)
(* never made: the others are not told, and the list is not updated.        *)
Notify(o) ==
    /\ op[o].step = "notify"
    /\ \/ \E x \in op[o].left :
             /\ told' = Set(told, x, op[o].news[x])
             /\ op' = [op EXCEPT ![o].left = @ \ {x}]
             /\ UNCHANGED unsettled
       \/ /\ op[o].left = {}
          /\ op' = [op EXCEPT ![o].step = "list"]
          /\ UNCHANGED <<told, unsettled>>
       \/ /\ \E x \in op[o].left : \E t \in op[o].news[x] :
                told' = Set(told, x, told[x] \cup {t})
          /\ op' = Set(op, o, [NoOp EXCEPT !.step = "over"])
          /\ unsettled' = TRUE
    /\ UNCHANGED <<members, list, lingers, memory, path, inputs, pc, current, sees,
                   result, desk>>

Runs(c, a) == current[c] = a /\ pc[c] \in {"read", "works", "asks"}

(* Mutant of UpdateList: a removed member's private memory is kept.         *)
UpdateListOnly(o) ==
    LET a == op[o].agent IN
    /\ op[o].step = "list"
    /\ op' = Set(op, o, [NoOp EXCEPT !.step = "over"])
    /\ list' = IF op[o].add THEN list \cup {a} ELSE list \ {a}
    /\ lingers' = IF ~op[o].add /\ \E c \in Chats : Runs(c, a)
                  THEN lingers \cup {a} ELSE lingers
    /\ UNCHANGED <<members, told, unsettled, memory, path, inputs, pc, current, sees, result,
                   desk>>

(* handleAddAgent enters the member; handleRemoveAgent deletes its private  *)
(* memory, whether it is at work or not, and its entry.                     *)
UpdateList(o) ==
    LET a == op[o].agent IN
    /\ op[o].step = "list"
    /\ op' = Set(op, o, [NoOp EXCEPT !.step = "over"])
    /\ IF op[o].add
       THEN list' = list \cup {a} /\ UNCHANGED <<own, lingers>>
       ELSE /\ list' = list \ {a}
            /\ own' = Set(own, a, 0)
            /\ lingers' = IF \E c \in Chats : Runs(c, a) THEN lingers \cup {a} ELSE lingers
    /\ UNCHANGED <<members, told, unsettled, shared, path, inputs, pc, current, sees, result,
                   desk>>

-----------------------------------------------------------------------------
ChatStep(c) ==
    \/ Route(c) \/ CheckRoute(c) \/ BeginMember(c) \/ GiveUp(c) \/ Read(c)
    \/ UseTool(c) \/ SubmitApproval(c) \/ TakeApproval(c) \/ RecordHandoff(c)
    \/ MemberEnds(c) \/ MemberFails(c)
    \/ TakeHandoff(c) \/ Transfer(c) \/ Veto(c) \/ Cleanup(c)

OpStep(o) == Notify(o) \/ UpdateList(o)

Next ==
    \/ \E c \in Chats : Chat(c) \/ ChatStep(c)
    \/ \E o \in Admins : AddAgent(o) \/ RemoveAgent(o) \/ OpStep(o)
    \/ GiveApproval

Spec == Init /\ [][Next]_vars

(* A chat goes on: members' runs end, as the context of the chat does after *)
(* five minutes.                                                            *)
FairSpec == Spec /\ \A c \in Chats : WF_vars(ChatStep(c))

-----------------------------------------------------------------------------
(* A hand-off chain goes no further than one beyond a loop (detectLoop),    *)
(* and then the chat fails, even where an external member hands over        *)
(* against what it was told.                                                *)
LoopStops ==
    \A c \in Chats : \A n \in 1..(Len(chain[c]) - 1) :
        DetectLoop(SubSeq(chain[c], 1, n)) =>
            n = Len(chain[c]) - 1 /\ result[c] = "error"

(* The messages behind the question of a chat: shared ones, and then those  *)
(* of the member itself.                                                    *)
Behind(a, c) ==
    (Len(shared) - (CHOOSE i \in 1..Len(shared) : shared[i] = c)) + own[a]

(* A member asked by another sees the question of the user it works for, if *)
(* that was stored and the member has messages of its own, for as long as   *)
(* what lies behind the question leaves room for it: neither the answers    *)
(* and questions of other chats nor changes of the membership take it away  *)
(* before (teamAgentMemory.Recent, prepareMemory, run).  Without messages   *)
(* of its own it may come last, and is then taken for the input.            *)
QuestionSeen ==
    [][\A c \in Chats :
          At(c, "read") /\ pc'[c] = "works" /\ own[current[c]] > 0
          /\ Holds(shared, c) /\ Behind(current[c], c) < Window
          => sees'[c]]_vars

(* When no change is under way the handler lists the members, the external  *)
(* ones know of all others, and only members have private memories, unless  *)
(* two changes were made at once, one was cut short by a panic, or a member *)
(* removed at its work.                                                     *)
MembershipAgrees ==
    ~unsettled /\ (\A o \in Admins : op[o].step \in {"none", "over"}) =>
        /\ list = members
        /\ \A x \in External \cap members : told[x] = members \ {x}
        /\ \A a \in Agents : own[a] > 0 => a \in members \cup lingers

(* Hand-offs, vetoes and hints come to an end.                              *)
ChatsEnd == \A c \in Chats : Active(c) ~> pc[c] = "over"
=============================================================================
