----------------------------- MODULE TeamProofs -----------------------------
(***************************************************************************)
(* Proofs about Team, for every set of members, chats and changes, every   *)
(* limit on the hand-offs and all scenarios that TeamAssumption allows.    *)
(***************************************************************************)
EXTENDS Team, FiniteSetTheorems, SequenceTheorems, TLAPS

-----------------------------------------------------------------------------
(* The inductive invariant *)

(* What a chat knows at the places where it uses it.                        *)
AtWork == {"read", "works", "asks", "take", "taken"}

UnderWay(o) == op[o].step \in {"notify", "list"}

WorkInv ==
    /\ \A c \in Chats :
          /\ pc[c] \in AtWork \cup {"check", "top"} => current[c] # None
          /\ pc[c] \in AtWork => Len(chain[c]) < MaxHandoffs
          /\ pc[c] = "taken" => slot[c] # <<>>
    /\ \A o \in Admins : UnderWay(o) => op[o].agent # None

TypeInv == TypeOK /\ WorkInv

(* The entries of a chain follow on each other, up to the member at work.   *)
IsPath(ch) == \A i \in 1..(Len(ch) - 1) : ch[i].to = ch[i + 1].from

(* A chat that has met a loop may not go on to another hand-off, and one    *)
(* that has failed does not go on.                                          *)
Directed(c) ==
    /\ result[c] # "none" => pc[c] = "closing"
    /\ pc[c] \in {"none", "route"} => chain[c] = <<>>
    /\ pc[c] # "closing" => IsPath(chain[c])
    /\ pc[c] # "closing" /\ chain[c] # <<>> => current[c] = chain[c][Len(chain[c])].to
    /\ pc[c] # "closing" /\ DetectLoop(chain[c]) => forceFinal[c]

LoopInv == \A c \in Chats : Directed(c)

(* A member that is being removed has left the team, but not the list.      *)
Leaving == {a \in Agents : \E o \in Admins : UnderWay(o) /\ ~op[o].add /\ op[o].agent = a}

(* What is still to be done of a change that no other crosses.              *)
Rest(o) ==
    /\ members = IF op[o].add THEN list \cup {op[o].agent} ELSE list \ {op[o].agent}
    /\ op[o].news = News(members)
    /\ op[o].step = "list" => op[o].left = {}
    /\ \A x \in (External \cap members) \ op[o].left : told[x] = members \ {x}

Settled == list = members /\ \A x \in External \cap members : told[x] = members \ {x}

(* Those with messages in their private memory.                             *)
Owners == {a \in Agents : own[a] > 0}

(* Nobody works or has a private memory but members and those that have     *)
(* left at work or are about to be cleaned up.                              *)
Known == members \cup lingers \cup Leaving

ChangeInv ==
    ~unsettled =>
        /\ \A o, p \in Admins : UnderWay(o) /\ UnderWay(p) => o = p
        /\ \A o \in Admins : UnderWay(o) => Rest(o)
        /\ (\A o \in Admins : ~UnderWay(o)) => Settled
        /\ Owners \subseteq Known
        /\ \A c \in Chats : \A a \in Agents : Runs(c, a) => a \in Known

-----------------------------------------------------------------------------
USE TeamAssumption

LEMMA NoneIsNobody == None \notin Agents /\ None \notin Chats
  OBVIOUS

LEMMA TypeInit == Init => TypeInv
  <1> SUFFICES ASSUME Init PROVE TypeInv
    OBVIOUS
  <1>1. PICK s \in Scenarios :
          /\ members = s.members
          /\ op = [o \in Admins |->
                     [NoOp EXCEPT !.step = IF o \in s.admins THEN "none" ELSE "over"]]
          /\ pc = [c \in Chats |-> IF c \in s.chats THEN "none" ELSE "over"]
          /\ moves = s.moves
          /\ approvals = s.approvals
    BY DEF Init
  <1>2. members \subseteq Agents /\ moves \in [Chats -> Nat] /\ approvals \in Nat
    BY <1>1
  <1>3. op \in [Admins -> OpState]
    <2>1. ASSUME NEW step \in {"none", "over"}
          PROVE  [NoOp EXCEPT !.step = step] \in OpState
      BY DEF NoOp, OpState
    <2> QED
      BY <1>1, <2>1
  <1>4. told \in [External -> SUBSET Agents]
    BY <1>2 DEF Init, News
  <1>5. /\ pc \in [Chats -> {"none", "over"}]
        /\ chain = [c \in Chats |-> <<>>] /\ \A c \in Chats : Len(chain[c]) <= MaxHandoffs
        /\ chain \in [Chats -> Seq(Entry)] /\ slot \in [Chats -> Seq(Agents)]
        /\ shared \in Seq(Chats \cup {None})
    BY <1>1 DEF Init
  <1>6. TypeOK
    <2>1. /\ made \in [Chats -> 0..2] /\ targets \in [Chats -> SUBSET Agents]
          /\ current \in [Chats -> Agents \cup {None}] /\ sees \in [Chats -> BOOLEAN]
          /\ forceFinal \in [Chats -> BOOLEAN] /\ transient \in [Chats -> BOOLEAN]
          /\ result \in [Chats -> {"none", "done", "error"}]
          /\ approval \in [Chats -> {"none", "asked", "given"}]
      BY DEF Init
    <2>2. own \in [Agents -> 0..Window]
      <3>1. 0 \in 0..Window
        OBVIOUS
      <3> QED
        BY <3>1 DEF Init
    <2> QED
      BY <1>2, <1>3, <1>4, <1>5, <2>1, <2>2 DEF Init, TypeOK
  <1>7. WorkInv
    <2>1. \A o \in Admins : op[o].step \in {"none", "over"}
      BY <1>1 DEF NoOp
    <2> QED
      BY <1>5, <2>1 DEF WorkInv, AtWork, UnderWay
  <1> QED
    BY <1>6, <1>7 DEF TypeInv

-----------------------------------------------------------------------------
(* Types *)

(* Where a chat may be. *)
Places == {"none", "route", "check", "top", "read", "works", "asks",
           "taken", "take", "closing", "over"}

LEMMA ChatTypes ==
    ASSUME TypeInv, NEW c \in Chats,
           Chat(c) \/ Route(c) \/ CheckRoute(c) \/ BeginMember(c) \/ GiveUp(c) \/ Read(c)
    PROVE  TypeOK'
  <1> USE DEF TypeInv, At, Go, Set, Close, team, memory, path, inputs, desk
  <1>1. CASE Chat(c)
    BY <1>1 DEF Chat, TypeOK
  <1>2. CASE Route(c)
    <2>1. CASE members = {} /\ Close(c, "error") /\ UNCHANGED current
      BY <1>2, <2>1 DEF Route, TypeOK
    <2>2. CASE \E a \in members : current' = Set(current, c, a) /\ Go(c, "check") /\ UNCHANGED result
      BY <1>2, <2>2 DEF Route, TypeOK
    <2> QED
      BY <1>2, <2>1, <2>2 DEF Route
  <1>3. CASE CheckRoute(c)
    BY <1>3 DEF CheckRoute, TypeOK
  <1>4. CASE BeginMember(c)
    <2>1. targets' \in [Chats -> SUBSET Agents] /\ made' \in [Chats -> 0..2]
      BY <1>4 DEF BeginMember, Targets, TypeOK
    <2>2. shared' \in Seq(Chats \cup {None})
      BY <1>4 DEF BeginMember, TypeOK
    <2> QED
      BY <1>4, <2>1, <2>2 DEF BeginMember, TypeOK
  <1>5. CASE GiveUp(c)
    BY <1>5 DEF GiveUp, TypeOK
  <1>6. CASE Read(c)
    BY <1>6 DEF Read, Holds, TypeOK
  <1> QED
    BY <1>1, <1>2, <1>3, <1>4, <1>5, <1>6

LEMMA Stores ==
    ASSUME TypeOK, NEW a \in Agents, NEW n \in Nat \ {0}, Store(a, n)
    PROVE  own' \in [Agents -> 0..Window] /\ Owners' = Owners \cup {a}
  <1> DEFINE k == IF own[a] + n > Window THEN Window ELSE own[a] + n
  <1>1. own \in [Agents -> 0..Window] /\ Window \in Nat \ {0}
    BY DEF TypeOK
  <1>2. own[a] \in 0..Window
    BY <1>1
  <1>3. k \in 0..Window /\ k > 0
    BY <1>1, <1>2
  <1>4. own' = [own EXCEPT ![a] = k]
    BY DEF Store
  <1> HIDE DEF k
  <1>5. own' \in [Agents -> 0..Window]
    BY <1>1, <1>3, <1>4
  <1>6. \A b \in Agents : (own'[b] > 0) <=> (own[b] > 0 \/ b = a)
    BY <1>1, <1>3, <1>4
  <1> QED
    BY <1>5, <1>6 DEF Owners

LEMMA MemberTypes ==
    ASSUME TypeInv, NEW c \in Chats,
           \/ UseTool(c) \/ SubmitApproval(c) \/ TakeApproval(c) \/ RecordHandoff(c)
           \/ MemberEnds(c) \/ MemberFails(c)
    PROVE  TypeOK'
  <1> USE DEF TypeInv, At, Go, Set, Close, team, memory, path, inputs, desk
  <1>1. pc[c] \in {"works", "asks"} => current[c] \in Agents
    BY DEF WorkInv, AtWork, TypeOK
  <1>2. CASE UseTool(c)
    <2>1. own' \in [Agents -> 0..Window]
      BY <1>1, <1>2, Stores DEF UseTool
    <2> QED
      BY <1>2, <2>1 DEF UseTool, TypeOK
  <1>3. CASE SubmitApproval(c)
    BY <1>3 DEF SubmitApproval, TypeOK
  <1>4. CASE TakeApproval(c)
    <2>1. own' \in [Agents -> 0..Window]
      BY <1>1, <1>4, Stores DEF TakeApproval
    <2> QED
      BY <1>4, <2>1 DEF TakeApproval, TypeOK
  <1>5. CASE RecordHandoff(c)
    <2>1. PICK t \in Agents : slot' = Set(slot, c, Append(slot[c], t))
      <3>1. Internal(c) \/ current[c] \in External
        BY DEF Internal
      <3>2. targets[c] \subseteq Agents /\ (current[c] \in External => told[current[c]] \subseteq Agents)
        BY DEF TypeOK
      <3> QED
        BY <1>5, <3>1, <3>2 DEF RecordHandoff
    <2>2. slot' \in [Chats -> Seq(Agents)]
      BY <2>1 DEF TypeOK
    <2>3. made' \in [Chats -> 0..2] /\ moves' \in [Chats -> Nat]
      <3>1. made[c] \in 0..2 /\ made[c] < 2 /\ moves[c] \in Nat /\ moves[c] > 0
        BY <1>5 DEF RecordHandoff, TypeOK
      <3>2. made[c] + 1 \in 0..2 /\ moves[c] - 1 \in Nat
        BY <3>1
      <3>3. /\ made' = [made EXCEPT ![c] = made[c] + 1]
            /\ moves' = [moves EXCEPT ![c] = moves[c] - 1]
        BY <1>5 DEF RecordHandoff
      <3>4. made \in [Chats -> 0..2] /\ moves \in [Chats -> Nat]
        BY DEF TypeOK
      <3> HIDE DEF TypeInv
      <3> QED
        BY <3>2, <3>3, <3>4
    <2>4. own' \in [Agents -> 0..Window]
      BY <1>1, <1>5, Stores DEF RecordHandoff, TypeOK
    <2> QED
      BY <1>5, <2>2, <2>3, <2>4 DEF RecordHandoff, TypeOK
  <1>6. CASE MemberEnds(c)
    <2>1. shared' \in Seq(Chats \cup {None})
      BY <1>6 DEF MemberEnds, TypeOK
    <2> QED
      BY <1>6, <2>1 DEF MemberEnds, TypeOK
  <1>7. CASE MemberFails(c)
    BY <1>7 DEF MemberFails, TypeOK
  <1> QED
    BY <1>2, <1>3, <1>4, <1>5, <1>6, <1>7

(* The hand-off that is carried out, and the chain with it. *)
Target(c) == slot[c][1]
Longer(c) == Append(chain[c], [from |-> current[c], to |-> Target(c)])

LEMMA TransferTypes ==
    ASSUME TypeInv, NEW c \in Chats, pc[c] = "taken"
    PROVE  /\ Target(c) \in Agents /\ current[c] \in Agents
           /\ Longer(c) \in Seq(Entry) /\ chain[c] \in Seq(Entry)
           /\ Len(Longer(c)) = Len(chain[c]) + 1 /\ Len(chain[c]) + 1 <= MaxHandoffs
           /\ \A i \in 1..Len(chain[c]) : Longer(c)[i] = chain[c][i]
           /\ Longer(c)[Len(chain[c]) + 1] = [from |-> current[c], to |-> Target(c)]
  <1>1. current[c] \in Agents /\ slot[c] # <<>> /\ slot[c] \in Seq(Agents)
        /\ chain[c] \in Seq(Entry) /\ Len(chain[c]) < MaxHandoffs
    BY DEF TypeInv, TypeOK, WorkInv, AtWork
  <1>2. Target(c) \in Agents
    BY <1>1 DEF Target
  <1>3. [from |-> current[c], to |-> Target(c)] \in Entry
    BY <1>1, <1>2 DEF Entry
  <1> QED
    BY <1>1, <1>2, <1>3 DEF Longer

LEMMA TransferCases ==
    ASSUME NEW c \in Chats, Transfer(c)
    PROVE  /\ pc[c] = "taken" /\ slot' = [slot EXCEPT ![c] = <<>>]
           /\ UNCHANGED <<team, targets, made, moves, memory, sees, desk>>
           /\ \/ /\ chain' = chain \/ (chain' = [chain EXCEPT ![c] = Longer(c)]
                                      /\ DetectLoop(Longer(c)) /\ forceFinal[c])
                 /\ pc' = [pc EXCEPT ![c] = "closing"] /\ result' = [result EXCEPT ![c] = "error"]
                 /\ UNCHANGED <<forceFinal, transient, current>>
              \/ /\ chain' = [chain EXCEPT ![c] = Longer(c)]
                 /\ ~(DetectLoop(Longer(c)) /\ forceFinal[c])
                 /\ pc' = [pc EXCEPT ![c] = "top"] /\ result' = result
                 /\ forceFinal' = [forceFinal EXCEPT ![c] = DetectLoop(Longer(c))]
                 /\ transient' = [transient EXCEPT ![c] = TRUE]
                 /\ current' = [current EXCEPT ![c] = Target(c)]
  BY Zenon DEF Transfer, Target, Longer, At, Go, Set, Close

LEMMA HandoffTypes ==
    ASSUME TypeInv, NEW c \in Chats,
           TakeHandoff(c) \/ Transfer(c) \/ Veto(c) \/ Cleanup(c)
    PROVE  TypeOK'
  <1> USE DEF TypeInv, At, Go, Set, Close, team, memory, path, inputs, desk
  <1>1. CASE TakeHandoff(c)
    BY <1>1 DEF TakeHandoff, TypeOK
  <1>2. CASE Transfer(c)
    <2>1. /\ Target(c) \in Agents /\ Longer(c) \in Seq(Entry) /\ Len(Longer(c)) <= MaxHandoffs
          /\ DetectLoop(Longer(c)) \in BOOLEAN
      BY <1>2, TransferTypes DEF Transfer, DetectLoop
    <2>2. slot' \in [Chats -> Seq(Agents)]
      <3>1. slot' = [slot EXCEPT ![c] = <<>>] /\ <<>> \in Seq(Agents)
        BY <1>2, TransferCases
      <3>2. slot \in [Chats -> Seq(Agents)]
        BY DEF TypeOK
      <3> HIDE DEF TypeInv
      <3> QED
        BY <3>1, <3>2
    <2>3. /\ chain' \in [Chats -> Seq(Entry)]
          /\ \A d \in Chats : Len(chain'[d]) <= MaxHandoffs
      <3>1. chain' = chain \/ chain' = [chain EXCEPT ![c] = Longer(c)]
        BY <1>2, TransferCases
      <3>2. chain \in [Chats -> Seq(Entry)] /\ \A d \in Chats : Len(chain[d]) <= MaxHandoffs
        BY DEF TypeOK
      <3> HIDE DEF TypeInv
      <3> QED
        BY <2>1, <3>1, <3>2
    <2>4. CASE /\ pc' = [pc EXCEPT ![c] = "closing"] /\ result' = [result EXCEPT ![c] = "error"]
               /\ UNCHANGED <<forceFinal, transient, current>>
      BY <1>2, <2>2, <2>3, <2>4, TransferCases DEF TypeOK
    <2>5. CASE /\ pc' = [pc EXCEPT ![c] = "top"] /\ result' = result
               /\ forceFinal' = [forceFinal EXCEPT ![c] = DetectLoop(Longer(c))]
               /\ transient' = [transient EXCEPT ![c] = TRUE]
               /\ current' = [current EXCEPT ![c] = Target(c)]
      <3>1. forceFinal' \in [Chats -> BOOLEAN]
        BY <2>1, <2>5 DEF TypeOK
      <3>2. transient' \in [Chats -> BOOLEAN] /\ current' \in [Chats -> Agents \cup {None}]
        BY <2>1, <2>5 DEF TypeOK
      <3>3. pc' \in [Chats -> Places]
        BY <2>5 DEF TypeOK, Places
      <3> QED
        BY <1>2, <2>2, <2>3, <2>5, <3>1, <3>2, <3>3, TransferCases DEF TypeOK, Places
    <2> QED
      BY <1>2, <2>4, <2>5, TransferCases
  <1>3. CASE Veto(c)
    BY <1>3 DEF Veto, TypeOK
  <1>4. CASE Cleanup(c)
    <2>1. /\ chain' \in [Chats -> Seq(Entry)] /\ slot' \in [Chats -> Seq(Agents)]
          /\ \A d \in Chats : Len(chain'[d]) <= MaxHandoffs
      BY <1>4 DEF Cleanup, TypeOK
    <2>2. /\ moves' \in [Chats -> Nat] /\ made' \in [Chats -> 0..2]
          /\ targets' \in [Chats -> SUBSET Agents] /\ current' \in [Chats -> Agents \cup {None}]
          /\ pc' \in [Chats -> Places] /\ result' \in [Chats -> {"none", "done", "error"}]
          /\ forceFinal' \in [Chats -> BOOLEAN] /\ transient' \in [Chats -> BOOLEAN]
          /\ sees' \in [Chats -> BOOLEAN]
      BY <1>4 DEF Cleanup, TypeOK, Places
    <2>3. /\ running' = FALSE /\ pending' = None
          /\ UNCHANGED <<team, memory, approval, approvals>>
      BY <1>4 DEF Cleanup
    <2> QED
      BY <2>1, <2>2, <2>3 DEF TypeOK, Places
  <1> QED
    BY <1>1, <1>2, <1>3, <1>4

LEMMA NewsTypes ==
    ASSUME NEW ms \in SUBSET Agents
    PROVE  News(ms) \in [External -> SUBSET Agents]
  BY DEF News

LEMMA ChangeTypes ==
    ASSUME TypeInv, NEW o \in Admins,
           AddAgent(o) \/ RemoveAgent(o) \/ Notify(o) \/ UpdateList(o)
    PROVE  TypeOK'
  <1> USE DEF TypeInv, Set, memory, path, inputs, desk
  <1>1. op[o] \in OpState /\ op[o].left \subseteq External /\ op[o].agent \in Agents \cup {None}
        /\ op[o].news \in [External -> SUBSET Agents] /\ op[o].add \in BOOLEAN
    BY DEF TypeOK, OpState
  <1>2. ASSUME NEW add \in BOOLEAN, NEW a \in Agents, NEW ms \in SUBSET Agents,
               ChangeTeam(o, add, a, ms),
               UNCHANGED <<list, told, lingers, memory, path, inputs, pc, current, sees, result, desk>>
        PROVE  TypeOK'
    <2> DEFINE p == [step |-> "notify", add |-> add, agent |-> a, news |-> News(ms),
                     left |-> IF ms = members THEN {} ELSE External \cap ms]
    <2>1. p \in OpState
      BY NewsTypes DEF OpState
    <2>2. op' = [op EXCEPT ![o] = p] /\ members' = ms /\ unsettled' \in BOOLEAN
      BY <1>2 DEF ChangeTeam, TypeOK
    <2> HIDE DEF p
    <2> QED
      BY <1>2, <2>1, <2>2 DEF TypeOK
  <1>3. CASE AddAgent(o)
    <2>1. PICK a \in Changing : ChangeTeam(o, TRUE, a, members \cup {a})
      BY <1>3 DEF AddAgent
    <2>2. a \in Agents /\ members \cup {a} \in SUBSET Agents
      BY DEF TypeOK
    <2> QED
      BY <1>2, <1>3, <2>1, <2>2 DEF AddAgent
  <1>4. CASE RemoveAgent(o)
    <2>1. PICK a \in Changing : ChangeTeam(o, FALSE, a, members \ {a})
      BY <1>4 DEF RemoveAgent
    <2>2. a \in Agents /\ members \ {a} \in SUBSET Agents
      BY DEF TypeOK
    <2> QED
      BY <1>2, <1>4, <2>1, <2>2 DEF RemoveAgent
  <1>5. CASE Notify(o)
    <2>1. CASE \E x \in op[o].left :
             /\ told' = Set(told, x, op[o].news[x])
             /\ op' = [op EXCEPT ![o].left = @ \ {x}]
      <3>1. PICK x \in op[o].left :
               /\ told' = Set(told, x, op[o].news[x])
               /\ op' = [op EXCEPT ![o] = [op[o] EXCEPT !.left = @ \ {x}]]
        BY <2>1 DEF TypeOK
      <3>2. [op[o] EXCEPT !.left = @ \ {x}] \in OpState
        BY <1>1 DEF OpState
      <3>3. told' \in [External -> SUBSET Agents] /\ op' \in [Admins -> OpState]
        BY <1>1, <3>1, <3>2 DEF TypeOK
      <3> QED
        BY <1>5, <3>3 DEF Notify, TypeOK
    <2>2. CASE op' = [op EXCEPT ![o].step = "list"] /\ UNCHANGED told
      <3>1. [op[o] EXCEPT !.step = "list"] \in OpState
        BY <1>1 DEF OpState
      <3>2. op' \in [Admins -> OpState]
        BY <2>2, <3>1 DEF TypeOK
      <3> QED
        BY <1>5, <2>2, <3>2 DEF Notify, TypeOK
    <2>3. CASE /\ \E x \in op[o].left : \E t \in op[o].news[x] :
                     told' = Set(told, x, told[x] \cup {t})
               /\ op' = Set(op, o, [NoOp EXCEPT !.step = "over"])
      <3>1. [NoOp EXCEPT !.step = "over"] \in OpState
        BY DEF NoOp, OpState
      <3>2. told' \in [External -> SUBSET Agents] /\ op' \in [Admins -> OpState]
        BY <1>1, <2>3, <3>1 DEF TypeOK
      <3> QED
        BY <1>5, <3>2 DEF Notify, TypeOK
    <2> QED
      BY <1>5, <2>1, <2>2, <2>3 DEF Notify
  <1>6. CASE UpdateList(o)
    <2>1. [NoOp EXCEPT !.step = "over"] \in OpState
      BY DEF NoOp, OpState
    <2>2. op' = [op EXCEPT ![o] = [NoOp EXCEPT !.step = "over"]]
      BY <1>6 DEF UpdateList
    <2>3. op' \in [Admins -> OpState]
      BY <2>1, <2>2 DEF TypeOK
    <2>4. op[o].agent \in Agents
      BY <1>1, <1>6 DEF UpdateList, WorkInv, UnderWay
    <2>5. list' \subseteq Agents /\ lingers' \subseteq Agents
      BY <1>6, <2>4 DEF UpdateList, TypeOK
    <2>6. own' \in [Agents -> 0..Window]
      <3>1. 0 \in 0..Window /\ own \in [Agents -> 0..Window]
        BY DEF TypeOK
      <3>2. own' = own \/ own' = [own EXCEPT ![op[o].agent] = 0]
        BY <1>6 DEF UpdateList
      <3> QED
        BY <3>1, <3>2
    <2> QED
      BY <1>6, <2>3, <2>5, <2>6 DEF UpdateList, TypeOK
  <1> QED
    BY <1>3, <1>4, <1>5, <1>6

-----------------------------------------------------------------------------
(* What chats know *)

(* A step of a chat concerns no other.                                      *)
LEMMA OneChat ==
    ASSUME TypeOK, NEW c \in Chats, Chat(c) \/ ChatStep(c), NEW d \in Chats \ {c}
    PROVE  /\ pc'[d] = pc[d] /\ chain'[d] = chain[d] /\ slot'[d] = slot[d]
           /\ current'[d] = current[d] /\ result'[d] = result[d] /\ forceFinal'[d] = forceFinal[d]
  <1> USE DEF TypeOK, At, Go, Set, Close, team, memory, path, inputs, desk
  <1>1. CASE Chat(c) \/ Route(c) \/ CheckRoute(c) \/ BeginMember(c) \/ GiveUp(c) \/ Read(c)
    BY <1>1 DEF Chat, Route, CheckRoute, BeginMember, GiveUp, Read
  <1>2. CASE UseTool(c) \/ SubmitApproval(c) \/ TakeApproval(c) \/ RecordHandoff(c)
    BY <1>2 DEF UseTool, SubmitApproval, TakeApproval, RecordHandoff
  <1>3. CASE MemberEnds(c) \/ MemberFails(c) \/ TakeHandoff(c)
    BY <1>3 DEF MemberEnds, MemberFails, TakeHandoff
  <1>4. CASE Veto(c) \/ Cleanup(c)
    BY <1>4 DEF Veto, Cleanup
  <1>5. CASE Transfer(c)
    BY <1>5 DEF Transfer
  <1> QED
    BY <1>1, <1>2, <1>3, <1>4, <1>5 DEF ChatStep

(* Approvals and changes of the membership concern no chat's way.           *)
LEMMA NoChat ==
    ASSUME (\E o \in Admins : AddAgent(o) \/ RemoveAgent(o) \/ OpStep(o))
           \/ GiveApproval \/ UNCHANGED vars
    PROVE  UNCHANGED <<pc, chain, slot, current, result, forceFinal>>
  BY DEF AddAgent, RemoveAgent, OpStep, Notify, UpdateList, GiveApproval, path, inputs, vars

LEMMA NoChange ==
    ASSUME (\E c \in Chats : Chat(c) \/ ChatStep(c)) \/ GiveApproval \/ UNCHANGED vars
    PROVE  UNCHANGED team
  BY DEF Chat, ChatStep, Route, CheckRoute, BeginMember, GiveUp, Read, UseTool, SubmitApproval,
     TakeApproval, RecordHandoff, MemberEnds, MemberFails, TakeHandoff, Transfer, Veto, Cleanup,
     GiveApproval, team, vars

LEMMA WorkOfChat ==
    ASSUME TypeInv, NEW c \in Chats, Chat(c) \/ ChatStep(c)
    PROVE  /\ pc'[c] \in AtWork \cup {"check", "top"} => current'[c] # None
           /\ pc'[c] \in AtWork => Len(chain'[c]) < MaxHandoffs
           /\ pc'[c] = "taken" => slot'[c] # <<>>
  <1> USE DEF TypeInv, TypeOK, WorkInv, AtWork, At, Go, Set, Close, team, memory, path, inputs, desk
  <1>1. CASE Chat(c) \/ Route(c) \/ CheckRoute(c) \/ GiveUp(c) \/ Read(c)
    BY <1>1 DEF Chat, Route, CheckRoute, GiveUp, Read
  <1>2. CASE BeginMember(c)
    BY <1>2 DEF BeginMember
  <1>3. CASE UseTool(c) \/ SubmitApproval(c) \/ TakeApproval(c) \/ RecordHandoff(c)
    BY <1>3 DEF UseTool, SubmitApproval, TakeApproval, RecordHandoff
  <1>4. CASE MemberEnds(c) \/ MemberFails(c) \/ TakeHandoff(c)
    BY <1>4 DEF MemberEnds, MemberFails, TakeHandoff
  <1>5. CASE Veto(c) \/ Cleanup(c)
    BY <1>5 DEF Veto, Cleanup
  <1>6. CASE Transfer(c)
    <2>1. Target(c) # None
      BY <1>6, TransferTypes, NoneIsNobody DEF Transfer
    <2>2. pc'[c] = "closing" \/ (pc'[c] = "top" /\ current'[c] = Target(c))
      <3>1. \/ pc' = [pc EXCEPT ![c] = "closing"]
            \/ pc' = [pc EXCEPT ![c] = "top"] /\ current' = [current EXCEPT ![c] = Target(c)]
        BY <1>6, TransferCases
      <3> QED
        BY <3>1 DEF TypeOK
    <2> QED
      BY <2>1, <2>2
  <1> QED
    BY <1>1, <1>2, <1>3, <1>4, <1>5, <1>6 DEF ChatStep

LEMMA TypeStep == TypeInv /\ [Next]_vars => TypeInv'
  <1> SUFFICES ASSUME TypeInv, [Next]_vars PROVE TypeInv'
    OBVIOUS
  <1>1. CASE \E c \in Chats : Chat(c) \/ ChatStep(c)
    <2>1. PICK c \in Chats : Chat(c) \/ ChatStep(c)
      BY <1>1
    <2>2. TypeOK'
      BY <2>1, ChatTypes, MemberTypes, HandoffTypes DEF ChatStep
    <2>3. \A d \in Chats : /\ pc'[d] \in AtWork \cup {"check", "top"} => current'[d] # None
                           /\ pc'[d] \in AtWork => Len(chain'[d]) < MaxHandoffs
                           /\ pc'[d] = "taken" => slot'[d] # <<>>
      BY <2>1, OneChat, WorkOfChat DEF TypeInv, WorkInv
    <2>4. op' = op
      BY <2>1, NoChange DEF team
    <2> QED
      BY <2>2, <2>3, <2>4 DEF TypeInv, WorkInv, UnderWay
  <1>2. CASE \E o \in Admins : AddAgent(o) \/ RemoveAgent(o) \/ OpStep(o)
    <2>1. PICK o \in Admins : AddAgent(o) \/ RemoveAgent(o) \/ OpStep(o)
      BY <1>2
    <2>2. TypeOK'
      BY <2>1, ChangeTypes DEF OpStep
    <2>3. UNCHANGED <<pc, chain, slot, current>>
      BY <2>1, NoChat
    <2>4. \A p \in Admins \ {o} : op'[p] = op[p]
      BY <2>1 DEF AddAgent, RemoveAgent, OpStep, Notify, UpdateList, ChangeTeam, Set, TypeInv, TypeOK
    <2>5. UnderWay(o)' => op'[o].agent # None
      <3>1. CASE AddAgent(o) \/ RemoveAgent(o)
        <4>1. ASSUME NEW add, NEW a \in Changing, NEW ms, ChangeTeam(o, add, a, ms)
              PROVE  op'[o].agent \in Agents
          BY <4>1 DEF ChangeTeam, Set, TypeInv, TypeOK
        <4> QED
          BY <3>1, <4>1, NoneIsNobody DEF AddAgent, RemoveAgent
      <3>2. CASE Notify(o)
        <4>1. op[o] \in OpState /\ UnderWay(o)
          BY <3>2 DEF TypeInv, TypeOK, Notify, UnderWay
        <4>2. op'[o].agent = op[o].agent \/ op'[o].step = "over"
          BY <3>2, <4>1 DEF Notify, Set, NoOp, TypeInv, TypeOK, OpState
        <4> QED
          BY <4>1, <4>2 DEF TypeInv, WorkInv, UnderWay
      <3>3. CASE UpdateList(o)
        BY <3>3 DEF UpdateList, Set, TypeInv, TypeOK, UnderWay, NoOp
      <3> QED
        BY <2>1, <3>1, <3>2, <3>3 DEF OpStep
    <2> QED
      BY <2>2, <2>3, <2>4, <2>5 DEF TypeInv, WorkInv, UnderWay
  <1>3. CASE GiveApproval
    <2>1. TypeOK'
      BY <1>3 DEF GiveApproval, Set, team, memory, path, inputs, TypeInv, TypeOK
    <2>2. UNCHANGED <<pc, chain, slot, current, op>>
      BY <1>3, NoChat, NoChange DEF team
    <2> QED
      BY <2>1, <2>2 DEF TypeInv, WorkInv, UnderWay
  <1>4. CASE UNCHANGED vars
    BY <1>4 DEF vars, TypeInv, TypeOK, WorkInv, UnderWay
  <1> QED
    BY <1>1, <1>2, <1>3, <1>4 DEF Next

(* The variables stay in their types: chains are never longer than the      *)
(* limit, and a member makes two hand-offs in a run of it at most.          *)
THEOREM TypeCorrect == Spec => []TypeOK
  <1>1. TypeInv => TypeOK
    BY DEF TypeInv
  <1> QED
    BY <1>1, TypeInit, TypeStep, PTL DEF Spec

-----------------------------------------------------------------------------
(* What fits of the shared messages is an end of them, as long as the room  *)
(* that the member's own leave: what has less than Window behind it is in.  *)
LEMMA FittingHolds ==
    ASSUME TypeOK, NEW a \in Agents, NEW p \in 1..Len(shared), own[a] > 0,
           (Len(shared) - p) + own[a] < Window
    PROVE  Holds(TeamRecent(a), shared[p])
  <1>1. shared \in Seq(Chats \cup {None}) /\ Len(shared) \in Nat /\ own[a] \in Nat
        /\ own[a] <= Window /\ Window \in Nat
    BY DEF TypeOK
  <1>2. TeamRecent(a) = Fitting(a)
    BY <1>1 DEF TeamRecent
  <1>3. CASE Len(shared) + own[a] <= Window
    BY <1>2, <1>3 DEF Fitting, Holds
  <1>4. CASE ~(Len(shared) + own[a] <= Window)
    <2>1. PICK n \in Nat : n = Len(shared)
      BY <1>1
    <2>2. PICK over \in Nat : over = n + own[a] - Window
      BY <1>1, <1>4, <2>1
    <2>3. over + 1 <= n /\ p - over \in 1..(n - over)
      BY <1>1, <2>1, <2>2
    <2> DEFINE ms == SubSeq(shared, over + 1, n)
    <2>4. over + 1 \in Int /\ n \in Int /\ \A i \in (over + 1)..n : shared[i] \in Chats \cup {None}
      BY <1>1, <2>1, <2>2
    <2>5. /\ Len(ms) = IF over + 1 <= n THEN n - (over + 1) + 1 ELSE 0
          /\ \A i \in 1..(n - (over + 1) + 1) : ms[i] = shared[(over + 1) + i - 1]
      BY <2>4, SubSeqProperties
    <2>6. Fitting(a) = ms
      BY <1>4, <2>1, <2>2 DEF Fitting
    <2> HIDE DEF ms
    <2>7. Len(ms) = n - over
      BY <2>1, <2>2, <2>3, <2>5
    <2>8. ms[p - over] = shared[p]
      <3>0. n - (over + 1) + 1 = n - over /\ p \in Int
        OBVIOUS
      <3>1. p - over \in 1..(n - (over + 1) + 1) /\ (over + 1) + (p - over) - 1 = p
        BY <2>3, <3>0
      <3> QED
        BY <2>5, <3>1
    <2> QED
      BY <1>2, <2>3, <2>6, <2>7, <2>8 DEF Holds
  <1> QED
    BY <1>3, <1>4

(* A member asked by another sees the question of the user if that was      *)
(* stored and the member has messages of its own, for as long as what lies  *)
(* behind the question leaves room for it.                                  *)
THEOREM SeesQuestion == Spec => QuestionSeen
  <1>1. ASSUME TypeInv, [Next]_vars, NEW c \in Chats, At(c, "read"), pc'[c] = "works",
               own[current[c]] > 0, Holds(shared, c), Behind(current[c], c) < Window
        PROVE  sees'[c]
    <2>1. ASSUME NEW d \in Chats, Chat(d) \/ ChatStep(d)
          PROVE  sees'[c]
      <3>1. d = c
        BY <1>1, <2>1, OneChat DEF At, TypeInv
      <3>2. Read(c)
        BY <1>1, <2>1, <3>1 DEF Chat, ChatStep, Route, CheckRoute, BeginMember, GiveUp, UseTool,
           SubmitApproval, TakeApproval, RecordHandoff, MemberEnds, MemberFails, TakeHandoff,
           Transfer, Veto, Cleanup, At, Go, Close, TypeInv, TypeOK
      <3>3. PICK p \in 1..Len(shared) : shared[p] = c /\ Behind(current[c], c) = (Len(shared) - p) + own[current[c]]
        BY <1>1 DEF Holds, Behind
      <3>4. current[c] \in Agents
        BY <1>1 DEF TypeInv, TypeOK, WorkInv, AtWork, At
      <3>5. Holds(TeamRecent(current[c]), c)
        BY <1>1, <3>3, <3>4, FittingHolds DEF TypeInv
      <3>6. sees' = [sees EXCEPT ![c] = ~transient[c] \/ Holds(TeamRecent(current[c]), c)]
        BY <3>2 DEF Read, Set
      <3>7. (~transient[c] \/ Holds(TeamRecent(current[c]), c)) = TRUE
        BY <3>5
      <3> QED
        BY <1>1, <3>6, <3>7 DEF TypeInv, TypeOK
    <2>2. CASE UNCHANGED pc
      BY <1>1, <2>2 DEF At
    <2> QED
      BY <1>1, <2>1, <2>2, NoChat DEF Next, TypeInv
  <1>2. TypeInv /\ [Next]_vars =>
           [\A c \in Chats :
               At(c, "read") /\ pc'[c] = "works" /\ own[current[c]] > 0
               /\ Holds(shared, c) /\ Behind(current[c], c) < Window
               => sees'[c]]_vars
    BY <1>1
  <1> QED
    BY <1>2, TypeInit, TypeStep, PTL DEF Spec, QuestionSeen

-----------------------------------------------------------------------------
(* Loops *)

(* How often an agent takes part in the hand-offs of a chain.               *)
From(ch, a) == {i \in 1..Len(ch) : ch[i].from = a}
To(ch, a) == {i \in 1..Len(ch) : ch[i].to = a}

LEMMA Subintervals ==
    ASSUME NEW n \in Nat, NEW S \in SUBSET (1..n)
    PROVE  IsFiniteSet(S) /\ Cardinality(S) \in Nat
  <1>1. IsFiniteSet(1..n)
    BY FS_Interval
  <1> QED
    BY <1>1, FS_Subset, FS_CardinalityType

(* The second of the two patterns is a case of the first, as a chain is a   *)
(* path: A to B to A to B means that A takes part three times.              *)
LEMMA LoopIsThrice ==
    ASSUME NEW ch \in Seq(Entry), IsPath(ch), DetectLoop(ch)
    PROVE  \E a \in Agents : Cardinality(From(ch, a)) + Cardinality(To(ch, a)) >= 3
  <1> DEFINE n == Len(ch)
  <1>1. CASE \E a \in Agents : Cardinality(From(ch, a)) + Cardinality(To(ch, a)) >= 3
    BY <1>1
  <1>2. CASE n >= 4 /\ ch[n - 3] = ch[n - 1] /\ ch[n - 2] = ch[n]
    <2>1. n \in Nat /\ n - 1 \in 1..n /\ n - 2 \in 1..n /\ n - 3 \in 1..n /\ n - 2 \in 1..(n - 1)
          /\ (n - 2) + 1 = n - 1
      BY <1>2
    <2> DEFINE a == ch[n - 1].from
    <2>2. a \in Agents
      <3>1. ch[n - 1] \in Entry
        BY <2>1
      <3> QED
        BY <3>1 DEF Entry
    <2>3. ch[n - 2].to = a
      BY <2>1 DEF IsPath
    <2>4. /\ From(ch, a) \in SUBSET (1..n) /\ To(ch, a) \in SUBSET (1..n)
          /\ n - 1 \in From(ch, a) /\ n - 3 \in From(ch, a) /\ n - 2 \in To(ch, a)
      BY <1>2, <2>1, <2>3 DEF From, To
    <2> HIDE DEF a
    <2>5. /\ IsFiniteSet(From(ch, a)) /\ Cardinality(From(ch, a)) \in Nat
          /\ IsFiniteSet(To(ch, a)) /\ Cardinality(To(ch, a)) \in Nat
      BY <2>1, <2>4, Subintervals
    <2>6. Cardinality(To(ch, a)) >= 1
      <3>1. Cardinality(To(ch, a)) # 0
        BY <2>4, <2>5, FS_EmptySet
      <3> QED
        BY <2>5, <3>1
    <2>7. Cardinality(From(ch, a)) >= 2
      <3>1. n - 1 # n - 3
        <4> HIDE DEF n
        <4> QED
          BY <2>1
      <3>2. From(ch, a) \ {n - 1} # {}
        BY <2>4, <3>1
      <3>3. /\ IsFiniteSet(From(ch, a) \ {n - 1})
            /\ Cardinality(From(ch, a) \ {n - 1}) = Cardinality(From(ch, a)) - 1
        BY <2>4, <2>5, FS_RemoveElement
      <3>4. Cardinality(From(ch, a) \ {n - 1}) # 0
        BY <3>2, <3>3, FS_EmptySet
      <3>5. \A k \in Nat : k - 1 # 0 /\ k # 0 => k >= 2
        OBVIOUS
      <3>6. Cardinality(From(ch, a)) # 0
        BY <2>4, <2>5, FS_EmptySet
      <3> HIDE DEF n
      <3> QED
        BY <2>5, <3>3, <3>4, <3>5, <3>6
    <2> QED
      BY <2>2, <2>5, <2>6, <2>7
  <1> QED
    BY <1>1, <1>2 DEF DetectLoop, From, To

(* A loop stays one however the chain goes on. *)
LEMMA LoopStays ==
    ASSUME NEW ch \in Seq(Entry), IsPath(ch), DetectLoop(ch), NEW more \in Seq(Entry),
           Len(more) = Len(ch) + 1, \A i \in 1..Len(ch) : more[i] = ch[i]
    PROVE  DetectLoop(more)
  <1>1. PICK a \in Agents : Cardinality(From(ch, a)) + Cardinality(To(ch, a)) >= 3
    BY LoopIsThrice
  <1>2. /\ From(ch, a) \subseteq From(more, a) /\ From(more, a) \in SUBSET (1..Len(more))
        /\ To(ch, a) \subseteq To(more, a) /\ To(more, a) \in SUBSET (1..Len(more))
    BY DEF From, To
  <1>3. /\ IsFiniteSet(From(more, a)) /\ Cardinality(From(more, a)) \in Nat
        /\ IsFiniteSet(To(more, a)) /\ Cardinality(To(more, a)) \in Nat
    <2>1. Len(more) \in Nat
      OBVIOUS
    <2> QED
      BY <1>2, <2>1, Subintervals
  <1>4. /\ Cardinality(From(ch, a)) \in Nat /\ Cardinality(To(ch, a)) \in Nat
        /\ Cardinality(From(ch, a)) <= Cardinality(From(more, a))
        /\ Cardinality(To(ch, a)) <= Cardinality(To(more, a))
    BY <1>2, <1>3, FS_Subset, FS_CardinalityType
  <1>5. Cardinality(From(more, a)) + Cardinality(To(more, a)) >= 3
    BY <1>1, <1>3, <1>4
  <1>6. Len(more) >= 2
    BY DEF DetectLoop
  <1> QED
    BY <1>5, <1>6 DEF DetectLoop, From, To

(* What LoopStops says of a chat. *)
Stopped(c) ==
    \A n \in 1..(Len(chain[c]) - 1) :
        DetectLoop(SubSeq(chain[c], 1, n)) => n = Len(chain[c]) - 1 /\ result[c] = "error"

LEMMA NoChain ==
    ASSUME NEW ch, ch = <<>>
    PROVE  Len(ch) = 0 /\ IsPath(ch) /\ ~DetectLoop(ch)
  <1>1. Len(ch) = 0
    OBVIOUS
  <1> QED
    BY <1>1 DEF IsPath, DetectLoop

(* A chat goes on with the chain and the member it has, or ends.            *)
LEMMA Going ==
    ASSUME NEW c \in Chats, Directed(c), Stopped(c), pc[c] # "closing",
           chain'[c] = chain[c], pc'[c] \notin {"none", "route"},
           pc'[c] # "closing" => /\ current'[c] = current[c]
                                 /\ result'[c] = result[c]
                                 /\ (forceFinal[c] => forceFinal'[c])
    PROVE  Directed(c)' /\ Stopped(c)'
  <1>1. result[c] = "none"
    BY DEF Directed
  <1>2. Stopped(c)'
    BY <1>1 DEF Stopped
  <1>3. CASE pc'[c] = "closing"
    BY <1>2, <1>3 DEF Directed
  <1>4. CASE pc'[c] # "closing"
    <2>1. /\ IsPath(chain'[c]) /\ (DetectLoop(chain'[c]) => forceFinal'[c])
          /\ chain'[c] # <<>> => current'[c] = chain'[c][Len(chain'[c])].to
          /\ result'[c] = "none"
      BY <1>1, <1>4 DEF Directed
    <2> QED
      BY <1>2, <2>1 DEF Directed
  <1> QED
    BY <1>3, <1>4

LEMMA DirectedTransfer ==
    ASSUME TypeInv, NEW c \in Chats, Directed(c), Stopped(c), Transfer(c)
    PROVE  Directed(c)' /\ Stopped(c)'
  <1>1. /\ Target(c) \in Agents /\ current[c] \in Agents /\ Longer(c) \in Seq(Entry)
        /\ chain[c] \in Seq(Entry)
        /\ Len(Longer(c)) = Len(chain[c]) + 1
        /\ \A i \in 1..Len(chain[c]) : Longer(c)[i] = chain[c][i]
        /\ Longer(c)[Len(chain[c]) + 1] = [from |-> current[c], to |-> Target(c)]
    BY TransferTypes DEF Transfer, At
  <1>2. /\ pc[c] = "taken" /\ result[c] = "none" /\ IsPath(chain[c])
        /\ DetectLoop(chain[c]) => forceFinal[c]
        /\ chain[c] # <<>> => current[c] = chain[c][Len(chain[c])].to
    BY DEF Transfer, At, Directed
  <1>3. \A n \in 1..(Len(chain[c]) - 1) : ~DetectLoop(SubSeq(chain[c], 1, n))
    BY <1>2 DEF Stopped
  <1>4. ASSUME NEW n \in 1..Len(chain[c]), DetectLoop(SubSeq(Longer(c), 1, n))
        PROVE  n = Len(chain[c]) /\ DetectLoop(chain[c])
    <2>1. SubSeq(Longer(c), 1, n) = SubSeq(chain[c], 1, n)
      BY <1>1
    <2>2. n = Len(chain[c])
      <3>1. n \notin 1..(Len(chain[c]) - 1)
        BY <1>3, <1>4, <2>1
      <3>2. Len(chain[c]) \in Nat
        BY <1>1
      <3> QED
        BY <3>1, <3>2
    <2>3. SubSeq(chain[c], 1, Len(chain[c])) = chain[c]
      BY <1>1
    <2> QED
      BY <1>4, <2>1, <2>2, <2>3
  <1>5. DetectLoop(chain[c]) => DetectLoop(Longer(c))
    BY <1>1, <1>2, LoopStays
  <1>6. CASE /\ pc' = [pc EXCEPT ![c] = "closing"] /\ result' = [result EXCEPT ![c] = "error"]
             /\ chain' = chain
    BY <1>2, <1>6, Going DEF TypeInv, TypeOK
  <1>7. CASE /\ pc' = [pc EXCEPT ![c] = "closing"] /\ result' = [result EXCEPT ![c] = "error"]
             /\ chain' = [chain EXCEPT ![c] = Longer(c)]
    <2>1. pc'[c] = "closing" /\ result'[c] = "error" /\ chain'[c] = Longer(c)
      BY <1>7 DEF TypeInv, TypeOK
    <2>2. Stopped(c)'
      BY <1>1, <1>4, <2>1 DEF Stopped
    <2> QED
      BY <2>1, <2>2 DEF Directed
  <1>8. CASE /\ chain' = [chain EXCEPT ![c] = Longer(c)]
             /\ ~(DetectLoop(Longer(c)) /\ forceFinal[c])
             /\ pc' = [pc EXCEPT ![c] = "top"] /\ result' = result
             /\ forceFinal' = [forceFinal EXCEPT ![c] = DetectLoop(Longer(c))]
             /\ current' = [current EXCEPT ![c] = Target(c)]
    <2>1. /\ pc'[c] = "top" /\ result'[c] = "none" /\ chain'[c] = Longer(c)
          /\ forceFinal'[c] = DetectLoop(Longer(c)) /\ current'[c] = Target(c)
      BY <1>2, <1>8 DEF TypeInv, TypeOK
    <2>2. ~DetectLoop(chain[c])
      BY <1>2, <1>5, <1>8
    <2>3. Stopped(c)'
      BY <1>1, <1>4, <2>1, <2>2 DEF Stopped
    <2>4. IsPath(Longer(c))
      <3>1. ASSUME NEW i \in 1..(Len(Longer(c)) - 1)
            PROVE  Longer(c)[i].to = Longer(c)[i + 1].from
        <4>1. CASE i = Len(chain[c])
          BY <1>1, <1>2, <4>1
        <4>2. CASE i # Len(chain[c])
          <5>1. i \in 1..Len(chain[c]) /\ i + 1 \in 1..Len(chain[c]) /\ i \in 1..(Len(chain[c]) - 1)
            BY <1>1, <4>2
          <5> QED
            BY <1>1, <1>2, <5>1 DEF IsPath
        <4> QED
          BY <4>1, <4>2
      <3> QED
        BY <3>1 DEF IsPath
    <2>5. Longer(c)[Len(Longer(c))].to = Target(c)
      BY <1>1
    <2> QED
      BY <2>1, <2>3, <2>4, <2>5 DEF Directed
  <1> QED
    BY <1>6, <1>7, <1>8, TransferCases

LEMMA DirectedChat ==
    ASSUME TypeInv, NEW c \in Chats, Directed(c), Stopped(c), Chat(c) \/ ChatStep(c)
    PROVE  Directed(c)' /\ Stopped(c)'
  <1> USE DEF TypeInv, TypeOK, At, Go, Set, Close, team, memory, path, inputs, desk
  <1>1. CASE Chat(c) \/ Route(c)
    <2>1. /\ chain[c] = <<>> /\ chain' = chain /\ result[c] = "none"
          /\ pc'[c] \in {"route", "check", "closing", "over"}
          /\ pc'[c] = "closing" \/ result' = result
      BY <1>1 DEF Chat, Route, Directed
    <2>2. chain'[c] = <<>> /\ (result'[c] # "none" => pc'[c] = "closing")
      BY <2>1
    <2>3. Stopped(c)' /\ IsPath(chain'[c]) /\ ~DetectLoop(chain'[c])
      BY <2>2, NoChain DEF Stopped
    <2> QED
      BY <2>2, <2>3 DEF Directed
  <1>2. CASE CheckRoute(c) \/ GiveUp(c) \/ Read(c) \/ BeginMember(c)
    BY <1>2, Going DEF CheckRoute, GiveUp, Read, BeginMember
  <1>3. CASE UseTool(c) \/ SubmitApproval(c) \/ TakeApproval(c) \/ RecordHandoff(c)
    BY <1>3, Going DEF UseTool, SubmitApproval, TakeApproval, RecordHandoff
  <1>4. CASE MemberEnds(c) \/ MemberFails(c) \/ TakeHandoff(c)
    BY <1>4, Going DEF MemberEnds, MemberFails, TakeHandoff
  <1>5. CASE Veto(c)
    BY <1>5, Going DEF Veto
  <1>6. CASE Cleanup(c)
    <2>1. chain'[c] = <<>> /\ result'[c] = "none" /\ pc'[c] = "over"
      BY <1>6 DEF Cleanup
    <2>2. Stopped(c)' /\ IsPath(chain'[c]) /\ ~DetectLoop(chain'[c])
      BY <2>1, NoChain DEF Stopped
    <2> QED
      BY <2>1, <2>2 DEF Directed
  <1> QED
    BY <1>1, <1>2, <1>3, <1>4, <1>5, <1>6, DirectedTransfer DEF ChatStep

LEMMA LoopInit == Init => LoopInv /\ LoopStops
  <1> SUFFICES ASSUME Init, NEW c \in Chats PROVE Directed(c) /\ Stopped(c)
    BY DEF LoopInv, LoopStops, Stopped
  <1>1. chain[c] = <<>> /\ result[c] = "none"
    BY DEF Init
  <1> QED
    BY <1>1, NoChain DEF Directed, Stopped

LEMMA LoopStep == TypeInv /\ LoopInv /\ LoopStops /\ [Next]_vars => LoopInv' /\ LoopStops'
  <1> SUFFICES ASSUME TypeInv, LoopInv, LoopStops, [Next]_vars PROVE LoopInv' /\ LoopStops'
    OBVIOUS
  <1>1. \A d \in Chats : Directed(d) /\ Stopped(d)
    BY DEF LoopInv, LoopStops, Stopped
  <1>2. ASSUME NEW d \in Chats, pc'[d] = pc[d], chain'[d] = chain[d], current'[d] = current[d],
               result'[d] = result[d], forceFinal'[d] = forceFinal[d]
        PROVE  Directed(d)' /\ Stopped(d)'
    BY <1>1, <1>2 DEF Directed, Stopped
  <1>3. \A d \in Chats : Directed(d)' /\ Stopped(d)'
    <2>1. CASE \E c \in Chats : Chat(c) \/ ChatStep(c)
      <3>1. PICK c \in Chats : Chat(c) \/ ChatStep(c)
        BY <2>1
      <3> QED
        BY <1>1, <1>2, <3>1, OneChat, DirectedChat DEF TypeInv
    <2> QED
      BY <1>2, <2>1, NoChat DEF Next
  <1> QED
    BY <1>3 DEF LoopInv, LoopStops, Stopped

(* A hand-off chain goes no further than one beyond a loop, and then the    *)
(* chat fails.                                                              *)
THEOREM LoopsStop == Spec => []LoopStops
  BY TypeInit, TypeStep, LoopInit, LoopStep, PTL DEF Spec

-----------------------------------------------------------------------------
(* Changes of the membership *)

LEMMA ChangeInit == Init => ChangeInv
  <1> SUFFICES ASSUME Init PROVE ChangeInv
    OBVIOUS
  <1>1. \A o \in Admins : ~UnderWay(o)
    BY DEF Init, NoOp, UnderWay
  <1>2. \A c \in Chats : pc[c] \in {"none", "over"}
    BY DEF Init
  <1>3. Settled
    BY DEF Init, News, Settled
  <1>4. Owners = {}
    BY DEF Init, Owners
  <1> QED
    BY <1>1, <1>2, <1>3, <1>4 DEF ChangeInv, Runs

(* Chats leave the membership alone; members work and remember only where   *)
(* they did or are members.                                                 *)
LEMMA ChatFrame ==
    ASSUME TypeInv, NEW c \in Chats, Chat(c) \/ ChatStep(c)
    PROVE  /\ \A a \in Agents : Runs(c, a)' => Runs(c, a) \/ a \in members
           /\ Owners' = Owners \/ (Runs(c, current[c]) /\ Owners' = Owners \cup {current[c]})
  <1>0. /\ own' = own => Owners' = Owners
        /\ \A a \in Agents : \A n \in Nat \ {0} : Store(a, n) => Owners' = Owners \cup {a}
    BY Stores DEF Owners, TypeInv
  <1> USE DEF TypeInv, TypeOK, Runs, At, Go, Set, Close, team, memory, path, inputs, desk
  <1>1. CASE Chat(c) \/ Route(c) \/ CheckRoute(c) \/ GiveUp(c) \/ Read(c) \/ BeginMember(c)
    BY <1>0, <1>1 DEF Chat, Route, CheckRoute, GiveUp, Read, BeginMember
  <1>2. CASE UseTool(c) \/ SubmitApproval(c) \/ TakeApproval(c) \/ RecordHandoff(c)
    <2>1. pc[c] \in {"works", "asks"} => current[c] \in Agents
      BY DEF WorkInv, AtWork
    <2> QED
      BY <1>0, <1>2, <2>1 DEF UseTool, SubmitApproval, TakeApproval, RecordHandoff
  <1>3. CASE MemberEnds(c) \/ MemberFails(c) \/ TakeHandoff(c) \/ Veto(c) \/ Cleanup(c)
    BY <1>0, <1>3 DEF MemberEnds, MemberFails, TakeHandoff, Veto, Cleanup
  <1>4. CASE Transfer(c)
    <2>1. Owners' = Owners
      BY <1>0, <1>4, TransferCases
    <2>2. pc' = [pc EXCEPT ![c] = "closing"] \/ pc' = [pc EXCEPT ![c] = "top"]
      BY <1>4, TransferCases
    <2>3. pc'[c] \notin {"read", "works", "asks"}
      BY <2>2
    <2> QED
      BY <2>1, <2>3
  <1> QED
    BY <1>1, <1>2, <1>3, <1>4 DEF ChatStep

LEMMA ChangeOfChat ==
    ASSUME TypeInv, ChangeInv, NEW c \in Chats, Chat(c) \/ ChatStep(c)
    PROVE  ChangeInv'
  <1>1. UNCHANGED <<members, list, told, op, unsettled, lingers>>
    BY NoChange DEF team
  <1>2. /\ \A o \in Admins : (UnderWay(o)' <=> UnderWay(o)) /\ (Rest(o)' <=> Rest(o))
        /\ Settled' <=> Settled
        /\ Known' = Known /\ members \subseteq Known
    BY <1>1 DEF UnderWay, Rest, News, Settled, Known, Leaving
  <1>3. \A d \in Chats : \A a \in Agents : Runs(d, a)' => Runs(d, a) \/ a \in members
    <2>1. \A d \in Chats \ {c} : \A a \in Agents : Runs(d, a)' => Runs(d, a)
      BY OneChat DEF Runs, TypeInv
    <2> QED
      BY <2>1, ChatFrame
  <1>4. ASSUME ~unsettled
        PROVE  Owners' \subseteq Known
    <2>1. Runs(c, current[c]) => current[c] \in Agents
      BY DEF Runs, TypeInv, TypeOK, WorkInv, AtWork
    <2> QED
      BY <1>4, <2>1, ChatFrame DEF ChangeInv
  <1> QED
    BY <1>1, <1>2, <1>3, <1>4 DEF ChangeInv

LEMMA ChangeBegins ==
    ASSUME TypeInv, ChangeInv, NEW o \in Admins, NEW add \in BOOLEAN, NEW a \in Agents, NEW ms,
           ChangeTeam(o, add, a, ms),
           ms = IF add THEN members \cup {a} ELSE members \ {a},
           UNCHANGED <<list, told, lingers, own, pc, current>>
    PROVE  ChangeInv'
  <1> SUFFICES ASSUME ~unsettled' PROVE ChangeInv'
    BY DEF ChangeInv
  <1>1. ~unsettled /\ \A p \in Admins : ~UnderWay(p)
    BY DEF ChangeTeam, UnderWay
  <1>2. Settled /\ Owners \subseteq Known
        /\ \A c \in Chats : \A b \in Agents : Runs(c, b) => b \in Known
    BY <1>1 DEF ChangeInv
  <1>3. /\ members' = ms /\ op'[o].step = "notify" /\ op'[o].add = add /\ op'[o].agent = a
        /\ op'[o].news = News(ms) /\ op'[o].left = IF ms = members THEN {} ELSE External \cap ms
        /\ \A p \in Admins \ {o} : op'[p] = op[p]
    BY DEF ChangeTeam, Set, TypeInv, TypeOK
  <1>4. UnderWay(o)' /\ \A p \in Admins \ {o} : ~UnderWay(p)'
    BY <1>1, <1>3 DEF UnderWay
  <1>5. Rest(o)'
    BY <1>2, <1>3 DEF Rest, Settled, News
  <1>6. Known \subseteq Known'
    <2>1. Leaving = {}
      BY <1>1 DEF Leaving
    <2>2. ~add => a \in Leaving'
      BY <1>3, <1>4 DEF Leaving
    <2> QED
      BY <1>3, <2>1, <2>2 DEF Known
  <1>7. \A c \in Chats : \A b \in Agents : Runs(c, b)' <=> Runs(c, b)
    BY DEF Runs
  <1>8. Owners' = Owners
    BY DEF Owners
  <1> QED
    BY <1>2, <1>4, <1>5, <1>6, <1>7, <1>8 DEF ChangeInv

LEMMA ChangeNotifies ==
    ASSUME TypeInv, ChangeInv, NEW o \in Admins, Notify(o)
    PROVE  ChangeInv'
  <1> USE DEF memory
  <1> SUFFICES ASSUME ~unsettled' PROVE ChangeInv'
    BY DEF ChangeInv
  <1>1. /\ ~unsettled /\ UnderWay(o) /\ op[o].step = "notify"
        /\ UNCHANGED <<members, list, lingers, own, pc, current>>
    BY DEF Notify, UnderWay
  <1>2. /\ \A p \in Admins \ {o} : ~UnderWay(p)
        /\ Rest(o) /\ Owners \subseteq Known
        /\ \A c \in Chats : \A b \in Agents : Runs(c, b) => b \in Known
    BY <1>1 DEF ChangeInv
  <1>3. op[o] \in OpState /\ told \in [External -> SUBSET Agents] /\ op[o].left \subseteq External
    BY DEF TypeInv, TypeOK, OpState
  <1>4. /\ op'[o].step \in {"notify", "list"} /\ op'[o].add = op[o].add
        /\ op'[o].agent = op[o].agent /\ op'[o].news = op[o].news
        /\ \A p \in Admins \ {o} : op'[p] = op[p]
        /\ \/ \E x \in op[o].left : /\ op'[o].step = "notify" /\ op'[o].left = op[o].left \ {x}
                                   /\ told' = [told EXCEPT ![x] = op[o].news[x]]
           \/ op[o].left = {} /\ op'[o].left = {} /\ op'[o].step = "list" /\ told' = told
    <2>1. CASE \E x \in op[o].left :
             /\ told' = Set(told, x, op[o].news[x])
             /\ op' = [op EXCEPT ![o].left = @ \ {x}]
      <3>1. PICK x \in op[o].left :
               /\ told' = [told EXCEPT ![x] = op[o].news[x]]
               /\ op' = [op EXCEPT ![o] = [op[o] EXCEPT !.left = @ \ {x}]]
        BY <2>1 DEF TypeInv, TypeOK, Set
      <3>2. LET q == [op[o] EXCEPT !.left = @ \ {x}]
            IN  /\ q.step = "notify" /\ q.add = op[o].add /\ q.agent = op[o].agent
                /\ q.news = op[o].news /\ q.left = op[o].left \ {x}
        BY <1>1, <1>3 DEF OpState
      <3>3. op'[o] = [op[o] EXCEPT !.left = @ \ {x}] /\ \A p \in Admins \ {o} : op'[p] = op[p]
        BY <3>1 DEF TypeInv, TypeOK
      <3> QED
        BY <3>1, <3>2, <3>3
    <2>2. CASE op[o].left = {} /\ op' = [op EXCEPT ![o].step = "list"] /\ UNCHANGED told
      BY <1>3, <2>2 DEF OpState, TypeInv, TypeOK
    <2> QED
      BY <2>1, <2>2 DEF Notify
  <1>5. UnderWay(o)' /\ \A p \in Admins \ {o} : ~UnderWay(p)'
    BY <1>2, <1>4 DEF UnderWay
  <1>6. Rest(o)'
    <2>1. op'[o].step = "list" => op'[o].left = {}
      BY <1>4
    <2>2. ASSUME NEW x \in (External \cap members) \ op'[o].left
          PROVE  told'[x] = members \ {x}
      <3>1. CASE x \in op[o].left
        <4>1. told' = [told EXCEPT ![x] = op[o].news[x]]
          BY <1>4, <2>2, <3>1
        <4>2. op[o].news[x] = members \ {x}
          BY <1>2, <2>2 DEF Rest, News
        <4> QED
          BY <1>3, <2>2, <4>1, <4>2
      <3>2. CASE x \notin op[o].left
        <4>1. told'[x] = told[x]
          BY <1>3, <1>4, <2>2, <3>2
        <4> QED
          BY <1>2, <2>2, <3>2, <4>1 DEF Rest
      <3> QED
        BY <3>1, <3>2
    <2> QED
      BY <1>1, <1>2, <1>4, <2>1, <2>2 DEF Rest, News
  <1>7. Known' = Known
    BY <1>1, <1>2, <1>4, <1>5 DEF Known, Leaving
  <1>8. \A c \in Chats : \A b \in Agents : Runs(c, b)' <=> Runs(c, b)
    BY <1>1 DEF Runs
  <1>9. Owners' = Owners
    BY <1>1 DEF Owners
  <1> QED
    BY <1>1, <1>2, <1>5, <1>6, <1>7, <1>8, <1>9 DEF ChangeInv

LEMMA ChangeEnds ==
    ASSUME TypeInv, ChangeInv, NEW o \in Admins, UpdateList(o)
    PROVE  ChangeInv'
  <1> SUFFICES ASSUME ~unsettled' PROVE ChangeInv'
    BY DEF ChangeInv
  <1> DEFINE a == op[o].agent
  <1>1. /\ ~unsettled /\ UnderWay(o) /\ op[o].step = "list"
        /\ UNCHANGED <<members, told, pc, current>>
    BY DEF UpdateList, UnderWay
  <1>2. /\ \A p \in Admins \ {o} : ~UnderWay(p)
        /\ Rest(o) /\ Owners \subseteq Known
        /\ \A c \in Chats : \A b \in Agents : Runs(c, b) => b \in Known
    BY <1>1 DEF ChangeInv
  <1>3. op'[o].step = "over" /\ \A p \in Admins \ {o} : op'[p] = op[p]
    BY DEF UpdateList, Set, NoOp, TypeInv, TypeOK
  <1>4. \A p \in Admins : ~UnderWay(p)'
    BY <1>2, <1>3 DEF UnderWay
  <1>5. /\ op[o].add => list' = list \cup {a} /\ Owners' = Owners /\ lingers' = lingers
        /\ ~op[o].add => /\ list' = list \ {a} /\ Owners' = Owners \ {a}
                         /\ lingers \subseteq lingers'
                         /\ (\E c \in Chats : Runs(c, a)) => a \in lingers'
    BY DEF UpdateList, Owners, Set, TypeInv, TypeOK
  <1> HIDE DEF a
  <1>6. Settled'
    BY <1>1, <1>2, <1>5 DEF Rest, Settled, a
  <1>7. Leaving \subseteq IF op[o].add THEN {} ELSE {a}
    BY <1>2 DEF Leaving, a
  <1>8. members' \cup lingers' \subseteq Known'
    BY DEF Known
  <1>9. Owners' \subseteq Known'
    BY <1>1, <1>2, <1>5, <1>7, <1>8 DEF Known
  <1>10. ASSUME NEW c \in Chats, NEW b \in Agents, Runs(c, b)'
         PROVE  b \in Known'
    <2>1. Runs(c, b) /\ b \in Known
      BY <1>1, <1>2, <1>10 DEF Runs
    <2> QED
      BY <1>1, <1>5, <1>7, <1>8, <2>1 DEF Known
  <1> QED
    BY <1>4, <1>6, <1>9, <1>10 DEF ChangeInv

LEMMA ChangeStep == TypeInv /\ ChangeInv /\ [Next]_vars => ChangeInv'
  <1> SUFFICES ASSUME TypeInv, ChangeInv, [Next]_vars PROVE ChangeInv'
    OBVIOUS
  <1> USE DEF memory
  <1>1. ASSUME NEW o \in Admins, AddAgent(o) \/ RemoveAgent(o)
        PROVE  ChangeInv'
    <2>1. CASE AddAgent(o)
      BY <2>1, ChangeBegins DEF AddAgent
    <2>2. CASE RemoveAgent(o)
      BY <2>2, ChangeBegins DEF RemoveAgent
    <2> QED
      BY <1>1, <2>1, <2>2
  <1>2. CASE GiveApproval \/ UNCHANGED vars
    <2>1. UNCHANGED <<members, list, told, op, unsettled, lingers, own, pc, current>>
      BY <1>2 DEF GiveApproval, team, vars
    <2> QED
      BY <2>1 DEF ChangeInv, UnderWay, Rest, News, Settled, Known, Leaving, Owners, Runs
  <1> QED
    BY <1>1, <1>2, ChangeOfChat, ChangeNotifies, ChangeEnds DEF Next, OpStep

(* When no change is under way the handler lists the members, the external  *)
(* ones know of all others, and only members have private memories, unless  *)
(* two changes were made at once, one was cut short by a panic, or a member *)
(* removed at its work.                                                     *)
THEOREM MembersAgree == Spec => []MembershipAgrees
  <1>1. TypeInv /\ ChangeInv => MembershipAgrees
    <2> SUFFICES ASSUME ChangeInv, ~unsettled, \A o \in Admins : op[o].step \in {"none", "over"}
                 PROVE  /\ list = members
                        /\ \A x \in External \cap members : told[x] = members \ {x}
                        /\ \A a \in Agents : own[a] > 0 => a \in members \cup lingers
      BY DEF MembershipAgrees
    <2>1. \A o \in Admins : ~UnderWay(o)
      BY DEF UnderWay
    <2>2. Leaving = {}
      BY <2>1 DEF Leaving
    <2> QED
      BY <2>1, <2>2 DEF ChangeInv, Settled, Known, Owners
  <1> QED
    BY <1>1, TypeInit, TypeStep, ChangeInit, ChangeStep, PTL DEF Spec
=============================================================================
