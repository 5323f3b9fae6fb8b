------------------------- MODULE ChatSessionProofs --------------------------
(***************************************************************************)
(* Proofs about ChatSession, for every set of clients and all bounds that  *)
(* ChatAssumption allows.                                                  *)
(***************************************************************************)
EXTENDS ChatSession, FiniteSetTheorems, TLAPS

-----------------------------------------------------------------------------
(* The inductive invariant *)

(* What a request knows at the places where it uses it.                     *)
Sound(q) ==
    /\ q.pc = "idle" => q.op = "none" /\ q.e = None
    /\ q.pc = "peek" => q.op = "update"
    /\ q.pc = "mark" => q.op = "chat"
    /\ q.pc \in {"mark", "take"} => q.e # None
    /\ q.pc \in {"meta", "touch"} /\ q.op = "chat" => q.e # None
    /\ q.run # None => q.pc = "reading"

RequestInv == \A c \in Clients : Sound(req[c])

(* A request makes one entry at most, and one run; create makes an entry    *)
(* for nobody.                                                              *)
Unlisted == {c \in Clients : req[c].pc \in {"peek", "lookup", "fetch", "insert"}}

CountInv ==
    /\ IsFiniteSet(Unlisted) /\ made + Cardinality(Unlisted) <= begun + 1
    /\ IsFiniteSet(NotStarted) /\ runs + Cardinality(NotStarted) <= scope.runs
    /\ begun = 0 => Unlisted = {}

TypeInv == TypeOK /\ RequestInv /\ CountInv

Deleted == {"deleted", "half deleted"}

(* Until its response streams, a request holds an entry that the janitor    *)
(* has not taken: it does not come before the request is over.              *)
ListedInv ==
    \A c \in Clients : req[c].e # None /\ req[c].pc # "reading" =>
        req[c].e = entry \/ removed[req[c].e] \in Deleted

Marked(c) == req[c].op = "chat" /\ req[c].pc \in {"meta", "touch"}

(* Chats that share an entry are known to overlap.                          *)
SharingInv ==
    /\ \A c, d \in Clients :
          c # d /\ Marked(c) /\ Marked(d) /\ req[c].e = req[d].e => req[c].e \in overlapped
    /\ \A c \in Clients : \A r \in Runs :
          Marked(c) /\ run[r].forwards /\ req[c].e = run[r].e => run[r].e \in overlapped
    /\ \A q, r \in Runs :
          q # r /\ run[q].forwards /\ run[r].forwards /\ run[q].e = run[r].e
             => run[r].e \in overlapped

(* The entry of a chat that does not overlap says that it runs.             *)
RunningInv ==
    /\ \A c \in Clients : Marked(c) => req[c].e \in overlapped \/ running[req[c].e]
    /\ \A r \in Runs : run[r].forwards => run[r].e \in overlapped \/ running[run[r].e]

EntryInv == HeldIsListed /\ ListedInv /\ SharingInv /\ RunningInv /\ EvictionSparesWork

(* An approval has a number of its own, and is in one place at a time: in a *)
(* slot, in the hands of a request, or answered.                            *)
AskInv ==
    /\ \A e \in Entries : pending[e] # None =>
          /\ pending[e] <= asks
          /\ ~answer[pending[e]]
          /\ \A f \in Entries \ {e} : pending[f] # pending[e]
          /\ \A c \in Clients : req[c].ask # pending[e]
    /\ \A c \in Clients : req[c].ask # None =>
          /\ req[c].ask <= asks
          /\ ~answer[req[c].ask]
          /\ \A d \in Clients \ {c} : req[d].ask # req[c].ask
    /\ \A a \in Asks : answer[a] => a <= asks
    /\ \A r \in Runs : run[r].ask # None =>
          /\ run[r].ask <= asks
          /\ \A q \in Runs \ {r} : run[q].ask # run[r].ask
    /\ \A r \in Runs : run[r].agent = "asks" => run[r].ask # None

IInv == TypeInv /\ EntryInv /\ AskInv /\ Answerable

-----------------------------------------------------------------------------
USE ChatAssumption

LEMMA ScopeBounds ==
    ASSUME scope \in Scopes
    PROVE  scope.requests \in 0..MaxRequests /\ scope.runs \in 0..MaxRuns
  OBVIOUS

LEMMA Numbers ==
    ASSUME TypeOK
    PROVE  /\ entry \in Nat /\ made \in Nat /\ begun \in Nat /\ runs \in Nat /\ asks \in Nat
           /\ entry <= made /\ made <= MaxRequests + 1 /\ begun <= MaxRequests
           /\ runs <= MaxRuns /\ asks <= MaxAsks
           /\ scope.requests \in 0..MaxRequests /\ scope.runs \in 0..MaxRuns
           /\ entry # None => entry \in Entries
  <1>1. /\ entry \in 0..made /\ made \in 0..(MaxRequests + 1) /\ begun \in 0..MaxRequests
        /\ runs \in 0..MaxRuns /\ asks \in 0..MaxAsks /\ scope \in Scopes
    BY DEF TypeOK
  <1> QED
    BY <1>1, ScopeBounds DEF Entries, None

LEMMA NoneIsNoEntry == None \notin Entries
  BY DEF None, Entries

LEMMA TypeInit == Init => TypeInv
  <1> SUFFICES ASSUME Init PROVE TypeInv
    OBVIOUS
  <1>1. NoRequest \in Requests /\ NoRun \in RunStates /\ Sound(NoRequest)
    BY DEF NoRequest, Requests, NoRun, RunStates, Sound
  <1>2. TypeOK
    <2>1. /\ run \in [Runs -> RunStates] /\ req \in [Clients -> Requests]
          /\ \A r \in Runs : run[r] = NoRun
          /\ \A c \in Clients : req[c] = NoRequest
      BY <1>1 DEF Init
    <2>2. NoRun.e = None /\ NoRequest.pc # "send" /\ NoRequest.ask = None
      BY DEF NoRun, NoRequest
    <2>3. /\ entry \in 0..made /\ made \in 0..(MaxRequests + 1) /\ begun \in 0..MaxRequests
          /\ runs \in 0..MaxRuns /\ asks \in 0..MaxAsks
      BY DEF Init, None
    <2>4. /\ running \in [Entries -> BOOLEAN] /\ pending \in [Entries -> Asks \cup {None}]
          /\ answer \in [Asks -> BOOLEAN]
          /\ removed \in [Entries -> {"no", "evicted", "deleted", "half deleted"}]
      BY DEF Init
    <2> QED
      BY <2>1, <2>2, <2>3, <2>4 DEF Init, TypeOK
  <1>3. RequestInv
    BY <1>1 DEF Init, RequestInv
  <1>4. CountInv
    <2>1. Unlisted = {} /\ NotStarted = {}
      BY DEF Init, Unlisted, NotStarted, NoRequest
    <2> QED
      BY <2>1, FS_EmptySet, ScopeBounds DEF Init, CountInv
  <1> QED
    BY <1>2, <1>3, <1>4 DEF TypeInv

-----------------------------------------------------------------------------
(* Types *)

(* A request that goes on by itself. *)
LEMMA OneRequestType ==
    ASSUME TypeOK, NEW c \in Clients, NEW q \in Requests, req' = [req EXCEPT ![c] = q],
           q.pc = "send" <=> q.ask # None
    PROVE  /\ req' \in [Clients -> Requests]
           /\ \A d \in Clients : (req'[d].pc = "send") <=> (req'[d].ask # None)
  BY DEF TypeOK

LEMMA LookupTypes ==
    ASSUME TypeInv, NEW c \in Clients,
           BeginAny(c) \/ Peek(c) \/ Lookup(c) \/ Fetch(c) \/ Insert(c)
    PROVE  TypeOK'
  <1> USE DEF TypeInv, registry, fields, disk, agents, Goto, At
  <1>1. req[c] \in Requests /\ (req[c].pc = "send" <=> req[c].ask # None)
    BY DEF TypeOK
  <1>2. ASSUME NEW q \in Requests, q.pc = "send" <=> q.ask # None,
               req' = [req EXCEPT ![c] = q], begun' \in 0..MaxRequests,
               UNCHANGED <<registry, fields, disk, agents, overlapped, scope>>
        PROVE  TypeOK'
    BY <1>2, OneRequestType DEF TypeOK
  <1>3. ASSUME NEW op \in {"chat", "approve", "update", "delete"},
               NEW pc \in {"lookup", "peek", "unstore"}, Begin(c, op, pc)
        PROVE  TypeOK'
    <2>1. [req[c] EXCEPT !.op = op, !.pc = pc] \in Requests
      BY <1>1 DEF Requests
    <2>2. [req[c] EXCEPT !.op = op, !.pc = pc].pc = pc /\
          [req[c] EXCEPT !.op = op, !.pc = pc].ask = None
      BY <1>1, <1>3 DEF Requests, Begin
    <2>3. begun' \in 0..MaxRequests
      BY <1>3, Numbers DEF Begin
    <2>4. req' = [req EXCEPT ![c] = [req[c] EXCEPT !.op = op, !.pc = pc]]
      BY <1>3 DEF Begin, TypeOK
    <2> QED
      BY <1>2, <1>3, <2>1, <2>2, <2>3, <2>4 DEF Begin
  <1>4. CASE BeginAny(c)
    BY <1>3, <1>4 DEF BeginAny
  <1>5. ASSUME NEW pc \in {"lookup", "meta", "fetch", "insert", "touch"}, NEW found \in BOOLEAN,
               req[c].pc # "send"
        PROVE  LET q == [req[c] EXCEPT !.pc = pc, !.found = found]
                   p == [req[c] EXCEPT !.pc = pc]
               IN  /\ q \in Requests /\ (q.pc = "send" <=> q.ask # None)
                   /\ p \in Requests /\ (p.pc = "send" <=> p.ask # None)
    BY <1>1, <1>5 DEF Requests
  <1>6. CASE Peek(c)
    BY <1>2, <1>5, <1>6 DEF Peek, TypeOK
  <1>7. CASE Fetch(c)
    <2>1. PICK found \in BOOLEAN :
             req' = [req EXCEPT ![c] = [req[c] EXCEPT !.pc = "insert", !.found = found]]
      BY <1>7 DEF Fetch, TypeOK
    <2>2. req[c].pc = "fetch"
      BY <1>7 DEF Fetch
    <2> QED
      BY <1>2, <1>5, <1>7, <2>1, <2>2 DEF Fetch, TypeOK
  <1>8. ASSUME NEW e \in Entries, Hold(c, e), req[c].pc # "send"
        PROVE  /\ req' \in [Clients -> Requests]
               /\ \A d \in Clients : (req'[d].pc = "send") <=> (req'[d].ask # None)
    <2> DEFINE q == [req[c] EXCEPT !.e = e, !.pc = AfterLookup(req[c].op), !.found = FALSE]
    <2>1. AfterLookup(req[c].op) \in {"mark", "take", "meta"}
      BY DEF AfterLookup
    <2>2. q \in Requests /\ (q.pc = "send" <=> q.ask # None)
      BY <1>1, <1>8, <2>1 DEF Requests
    <2>3. req' = [req EXCEPT ![c] = q]
      BY <1>8 DEF Hold, TypeOK
    <2> HIDE DEF q
    <2> QED
      BY <2>2, <2>3, OneRequestType
  <1>9. entry # None => entry \in Entries
    BY Numbers
  <1>10. CASE Lookup(c)
    <2>1. CASE entry # None
      BY <1>8, <1>9, <1>10, <2>1 DEF Lookup, TypeOK
    <2>2. CASE entry = None
      BY <1>2, <1>5, <1>10, <2>2 DEF Lookup, TypeOK
    <2> QED
      BY <2>1, <2>2
  <1>11. CASE Insert(c)
    <2>1. CASE entry # None
      BY <1>8, <1>9, <1>11, <2>1 DEF Insert, TypeOK
    <2>2. CASE entry = None
      <3>1. made + 1 \in Entries
        <4>1. c \in Unlisted
          BY <1>11 DEF Insert, Unlisted
        <4>2. Cardinality(Unlisted) \in Nat /\ Cardinality(Unlisted) # 0
          BY <4>1, FS_CardinalityType, FS_EmptySet DEF CountInv
        <4> QED
          BY <4>2, Numbers DEF CountInv, Entries
      <3>2. InsertNew(c)
        BY <1>11, <2>2 DEF Insert
      <3>3. /\ req' \in [Clients -> Requests]
            /\ \A d \in Clients : (req'[d].pc = "send") <=> (req'[d].ask # None)
        BY <1>8, <1>11, <3>1, <3>2 DEF InsertNew, Insert
      <3>4. /\ made' \in 0..(MaxRequests + 1) /\ entry' \in 0..made'
            /\ access' \in BOOLEAN /\ saves' \in BOOLEAN
        <4>1. made' = made + 1 /\ entry' = made + 1 /\ access' = TRUE
          BY <3>2 DEF InsertNew
        <4>2. saves' \in BOOLEAN
          BY <1>1, <3>2 DEF InsertNew, TypeOK, Requests
        <4> QED
          BY <3>1, <4>1, <4>2, Numbers DEF Entries
      <3> QED
        BY <1>11, <3>3, <3>4 DEF Insert, TypeOK
    <2> QED
      BY <2>1, <2>2
  <1> QED
    BY <1>4, <1>6, <1>7, <1>10, <1>11

LEMMA ChatTypes ==
    ASSUME TypeInv, NEW c \in Clients,
           Mark(c) \/ Meta(c) \/ Touch(c) \/ Disconnect(c) \/ EndResponse(c)
    PROVE  TypeOK'
  <1> USE DEF TypeInv, registry, fields, disk, agents, At
  <1>1. req[c] \in Requests /\ (req[c].pc = "send" <=> req[c].ask # None)
    BY DEF TypeOK
  <1>2. Sound(req[c])
    BY DEF RequestInv
  <1>3. /\ NoRequest \in Requests /\ NoRequest.pc # "send" /\ NoRequest.ask = None
        /\ NoRun.e = None
    BY DEF NoRequest, Requests, NoRun
  <1>4. CASE Mark(c)
    <2>1. req[c].e \in Entries
      BY <1>1, <1>2, <1>4 DEF Mark, Sound, Requests
    <2>2. [req[c] EXCEPT !.pc = "meta"] \in Requests
      BY <1>1 DEF Requests
    <2>3. [req[c] EXCEPT !.pc = "meta"].ask = None /\ [req[c] EXCEPT !.pc = "meta"].pc = "meta"
      BY <1>1, <1>4 DEF Mark, Requests
    <2>4. \/ req' = [req EXCEPT ![c] = [req[c] EXCEPT !.pc = "meta"]]
          \/ req' = [req EXCEPT ![c] = NoRequest]
      BY <1>4 DEF Mark, Goto, Respond, TypeOK
    <2>5. /\ req' \in [Clients -> Requests]
          /\ \A d \in Clients : (req'[d].pc = "send") <=> (req'[d].ask # None)
      BY <1>3, <2>2, <2>3, <2>4, OneRequestType
    <2>6. overlapped' \subseteq Entries /\ running' \in [Entries -> BOOLEAN]
          /\ pending' \in [Entries -> Asks \cup {None}] /\ stranded' \subseteq Entries
      BY <1>4, <2>1 DEF Mark, TypeOK
    <2> QED
      BY <1>4, <2>5, <2>6 DEF Mark, TypeOK
  <1>5. CASE Disconnect(c)
    <2>1. /\ [req[c] EXCEPT !.left = TRUE] \in Requests
          /\ [req[c] EXCEPT !.left = TRUE].pc = req[c].pc
          /\ [req[c] EXCEPT !.left = TRUE].ask = req[c].ask
      BY <1>1 DEF Requests
    <2>2. req' = [req EXCEPT ![c] = [req[c] EXCEPT !.left = TRUE]]
      BY <1>5 DEF Disconnect, TypeOK
    <2>3. /\ req' \in [Clients -> Requests]
          /\ \A d \in Clients : (req'[d].pc = "send") <=> (req'[d].ask # None)
      BY <1>1, <2>1, <2>2, OneRequestType
    <2> QED
      BY <1>5, <2>3 DEF Disconnect, TypeOK
  <1>6. ASSUME Respond(c)
        PROVE  /\ req' \in [Clients -> Requests]
               /\ \A d \in Clients : (req'[d].pc = "send") <=> (req'[d].ask # None)
    BY <1>3, <1>6, OneRequestType DEF Respond
  <1>7. CASE EndResponse(c)
    BY <1>6, <1>7 DEF EndResponse, TypeOK
  <1>8. ASSUME AfterMeta(c), req[c].pc \in {"meta", "touch"}
        PROVE  /\ req' \in [Clients -> Requests]
               /\ \A d \in Clients : (req'[d].pc = "send") <=> (req'[d].ask # None)
               /\ run' \in [Runs -> RunStates] /\ runs' \in 0..MaxRuns
               /\ \A r \in Runs : run'[r].e = None <=> run'[r] = NoRun
               /\ UNCHANGED <<asks, answer, stray>>
    <2>1. CASE req[c].op = "chat" /\ StartRun(c)
      <3>1. req[c].e \in Entries /\ req[c].run = None
        BY <1>1, <1>2, <1>8, <2>1 DEF Sound, Requests
      <3>2. runs + 1 \in Runs /\ runs + 1 \in 0..MaxRuns
        <4>1. c \in NotStarted
          BY <2>1, <3>1 DEF NotStarted
        <4>2. Cardinality(NotStarted) \in Nat /\ Cardinality(NotStarted) # 0
          BY <4>1, FS_CardinalityType, FS_EmptySet DEF CountInv
        <4> QED
          BY <4>2, Numbers DEF CountInv, Runs
      <3> DEFINE q == [req[c] EXCEPT !.pc = "reading", !.run = runs + 1]
                 r == [NoRun EXCEPT !.e = req[c].e, !.agent = "works", !.forwards = TRUE]
      <3>3. q \in Requests /\ q.pc # "send" /\ q.ask = None
        BY <1>1, <1>8, <3>2 DEF Requests
      <3>4. r \in RunStates /\ r.e # None /\ r # NoRun
        <4>1. req[c].e # None /\ r.e = req[c].e
          BY <3>1 DEF NoRun, None, Entries
        <4>2. r # NoRun
          BY <1>3, <4>1
        <4>3. r \in RunStates
          BY <3>1 DEF NoRun, RunStates
        <4> QED
          BY <4>1, <4>2, <4>3
      <3>5. req' = [req EXCEPT ![c] = q] /\ run' = [run EXCEPT ![runs + 1] = r]
            /\ runs' = runs + 1 /\ UNCHANGED <<asks, answer, stray>>
        BY <2>1 DEF StartRun, TypeOK
      <3> HIDE DEF q, r
      <3>6. /\ req' \in [Clients -> Requests]
            /\ \A d \in Clients : (req'[d].pc = "send") <=> (req'[d].ask # None)
        BY <3>3, <3>5, OneRequestType
      <3>7. /\ run' \in [Runs -> RunStates]
            /\ \A s \in Runs : run'[s].e = None <=> run'[s] = NoRun
        BY <3>2, <3>4, <3>5 DEF TypeOK
      <3> QED
        BY <3>2, <3>5, <3>6, <3>7
    <2>2. CASE req[c].op = "update" /\ Respond(c) /\ UNCHANGED agents
      BY <1>6, <2>2 DEF TypeOK
    <2> QED
      BY <1>8, <2>1, <2>2 DEF AfterMeta
  <1>9. CASE Meta(c)
    <2>1. CASE Goto(c, "touch") /\ UNCHANGED agents
      <3>1. /\ [req[c] EXCEPT !.pc = "touch"] \in Requests
            /\ [req[c] EXCEPT !.pc = "touch"].pc = "touch"
            /\ [req[c] EXCEPT !.pc = "touch"].ask = None
        BY <1>1, <1>9 DEF Requests, Meta
      <3>2. req' = [req EXCEPT ![c] = [req[c] EXCEPT !.pc = "touch"]]
        BY <2>1 DEF Goto, TypeOK
      <3>3. /\ req' \in [Clients -> Requests]
            /\ \A d \in Clients : (req'[d].pc = "send") <=> (req'[d].ask # None)
        BY <3>1, <3>2, OneRequestType
      <3> QED
        BY <1>9, <2>1, <3>3 DEF Meta, TypeOK
    <2>2. CASE AfterMeta(c)
      BY <1>8, <1>9, <2>2 DEF Meta, TypeOK
    <2> QED
      BY <1>9, <2>1, <2>2 DEF Meta
  <1>10. CASE Touch(c)
    BY <1>8, <1>10 DEF Touch, TypeOK
  <1> QED
    BY <1>4, <1>5, <1>7, <1>9, <1>10

(* Events end responses, or do not; all else of a request stays as it is.   *)
LEMMA OverFrame ==
    ASSUME TypeOK, NEW d \in Clients, NEW b \in BOOLEAN,
           req'[d] = [req[d] EXCEPT !.over = b]
    PROVE  /\ req'[d] \in Requests
           /\ req'[d].op = req[d].op /\ req'[d].pc = req[d].pc /\ req'[d].e = req[d].e
           /\ req'[d].ask = req[d].ask /\ req'[d].run = req[d].run
           /\ req'[d].left = req[d].left /\ req'[d].found = req[d].found
  <1>1. req[d] \in Requests
    BY DEF TypeOK
  <1> QED
    BY <1>1 DEF Requests

LEMMA PublishedFrame ==
    ASSUME TypeOK, NEW ends \in BOOLEAN, Published(ends)
    PROVE  /\ req' \in [Clients -> Requests]
           /\ \A d \in Clients :
                 /\ req'[d].op = req[d].op /\ req'[d].pc = req[d].pc /\ req'[d].e = req[d].e
                 /\ req'[d].ask = req[d].ask /\ req'[d].run = req[d].run
                 /\ req'[d].left = req[d].left /\ req'[d].found = req[d].found
  <1>1. ASSUME NEW d \in Clients
        PROVE  \E b \in BOOLEAN : req'[d] = [req[d] EXCEPT !.over = b]
    <2> DEFINE b == req[d].over \/ (Attached(d) /\ (ends \/ req[d].left))
    <2>1. req'[d] = [req[d] EXCEPT !.over = b]
      BY DEF Published
    <2>2. b \in BOOLEAN
      BY DEF Attached, TypeOK, Requests
    <2> QED
      BY <2>1, <2>2
  <1>2. \A d \in Clients : req'[d] \in Requests
    BY <1>1, OverFrame
  <1>3. req' \in [Clients -> Requests]
    BY <1>2 DEF Published
  <1> QED
    BY <1>1, <1>3, OverFrame

LEMMA RemoveTopicFrame ==
    ASSUME TypeOK, NEW c \in Clients, RemoveTopic(c)
    PROVE  /\ req' \in [Clients -> Requests]
           /\ req'[c] = NoRequest
           /\ \A d \in Clients \ {c} :
                 /\ req'[d].op = req[d].op /\ req'[d].pc = req[d].pc /\ req'[d].e = req[d].e
                 /\ req'[d].ask = req[d].ask /\ req'[d].run = req[d].run
                 /\ req'[d].left = req[d].left /\ req'[d].found = req[d].found
  <1>1. req'[c] = NoRequest /\ NoRequest \in Requests
    BY DEF RemoveTopic, NoRequest, Requests
  <1>2. ASSUME NEW d \in Clients \ {c}
        PROVE  \E b \in BOOLEAN : req'[d] = [req[d] EXCEPT !.over = b]
    <2> DEFINE b == req[d].over \/ Attached(d)
    <2>1. req'[d] = [req[d] EXCEPT !.over = b]
      BY DEF RemoveTopic
    <2>2. b \in BOOLEAN
      BY DEF Attached, TypeOK, Requests
    <2> QED
      BY <2>1, <2>2
  <1>3. \A d \in Clients \ {c} : req'[d] \in Requests
    BY <1>2, OverFrame
  <1>4. req' \in [Clients -> Requests]
    BY <1>1, <1>3 DEF RemoveTopic
  <1> QED
    BY <1>1, <1>2, <1>4, OverFrame

LEMMA RunTypes ==
    ASSUME TypeInv, NEW r \in Runs, RunStep(r) \/ AgentPublishes(r)
    PROVE  TypeOK'
  <1> USE DEF TypeInv, registry, fields, disk, agents
  <1>1. /\ run[r] \in RunStates /\ (run[r].e = None <=> run[r] = NoRun)
        /\ NoRun.agent = "off" /\ NoRun.forwards = FALSE
    BY DEF TypeOK, NoRun
  <1>2. ASSUME NEW q \in RunStates, q.e = run[r].e, q.e # None,
               run' = [run EXCEPT ![r] = q]
        PROVE  /\ run' \in [Runs -> RunStates]
               /\ \A s \in Runs : run'[s].e = None <=> run'[s] = NoRun
    <2>1. NoRun.e = None
      BY DEF NoRun
    <2> QED
      BY <1>2, <2>1 DEF TypeOK
  <1>3. ASSUME NEW agent \in {"works", "asks", "done", "aborted", "closed"},
               NEW cancelled \in BOOLEAN, NEW forwards \in BOOLEAN
        PROVE  /\ LET q == [run[r] EXCEPT !.agent = agent]
                  IN q \in RunStates /\ q.e = run[r].e
               /\ LET q == [run[r] EXCEPT !.cancelled = cancelled]
                  IN q \in RunStates /\ q.e = run[r].e
               /\ LET q == [run[r] EXCEPT !.forwards = forwards, !.cancelled = cancelled,
                                          !.agent = agent]
                  IN q \in RunStates /\ q.e = run[r].e
    BY <1>1 DEF RunStates
  <1>4. CASE AgentAsks(r)
    <2>1. run[r].e \in Entries
      BY <1>1, <1>4 DEF AgentAsks, RunStates
    <2>2. asks + 1 \in Asks /\ asks + 1 \in 0..MaxAsks
      BY <1>4, Numbers DEF AgentAsks, Asks
    <2>3. run' = [run EXCEPT ![r] = [run[r] EXCEPT !.agent = "asks", !.ask = asks + 1]]
      BY <1>4 DEF AgentAsks, TypeOK
    <2>4. /\ run' \in [Runs -> RunStates]
          /\ \A s \in Runs : run'[s].e = None <=> run'[s] = NoRun
      <3>1. /\ [run[r] EXCEPT !.agent = "asks", !.ask = asks + 1] \in RunStates
            /\ [run[r] EXCEPT !.agent = "asks", !.ask = asks + 1].e = run[r].e
        BY <1>1, <2>2 DEF RunStates
      <3>2. run[r].e # None
        BY <1>1, <1>4 DEF AgentAsks
      <3> QED
        BY <1>2, <2>3, <3>1, <3>2
    <2>5. /\ pending' \in [Entries -> Asks \cup {None}] /\ stray' \subseteq Entries
          /\ asks' \in 0..MaxAsks
      BY <1>4, <2>1, <2>2 DEF AgentAsks, TypeOK
    <2> QED
      BY <1>4, <2>4, <2>5 DEF AgentAsks, TypeOK
  <1>5. CASE AgentAnswered(r) \/ AgentRefused(r)
    <2>1. run' = [run EXCEPT ![r] = [run[r] EXCEPT !.agent = "works", !.ask = None]]
      BY <1>5 DEF AgentAnswered, AgentRefused, TypeOK
    <2>2. run[r].e # None
      BY <1>1, <1>5 DEF AgentAnswered, AgentRefused
    <2>3. /\ run' \in [Runs -> RunStates]
          /\ \A s \in Runs : run'[s].e = None <=> run'[s] = NoRun
      <3>1. /\ [run[r] EXCEPT !.agent = "works", !.ask = None] \in RunStates
            /\ [run[r] EXCEPT !.agent = "works", !.ask = None].e = run[r].e
        BY <1>1 DEF RunStates
      <3> QED
        BY <1>2, <2>1, <2>2, <3>1
    <2>4. answer' \in [Asks -> BOOLEAN]
      BY <1>5 DEF AgentAnswered, AgentRefused, TypeOK
    <2> QED
      BY <1>5, <2>3, <2>4 DEF AgentAnswered, AgentRefused, TypeOK
  <1>6. CASE AgentEnds(r)
    <2>1. PICK last \in {"done", "aborted", "closed"} :
              run' = [run EXCEPT ![r] = [run[r] EXCEPT !.agent = last]]
      BY <1>6 DEF AgentEnds, TypeOK
    <2>2. run[r].e # None
      BY <1>1, <1>6 DEF AgentEnds
    <2>3. /\ run' \in [Runs -> RunStates]
          /\ \A s \in Runs : run'[s].e = None <=> run'[s] = NoRun
      BY <1>2, <1>3, <2>1, <2>2
    <2> QED
      BY <1>6, <2>3 DEF AgentEnds, TypeOK
  <1>7. CASE Timeout(r)
    <2>1. run' = [run EXCEPT ![r] = [run[r] EXCEPT !.cancelled = TRUE]]
      BY <1>7 DEF Timeout, TypeOK
    <2>2. run[r].e # None
      BY <1>1, <1>7 DEF Timeout
    <2>3. /\ run' \in [Runs -> RunStates]
          /\ \A s \in Runs : run'[s].e = None <=> run'[s] = NoRun
      BY <1>2, <1>3, <2>1, <2>2
    <2> QED
      BY <1>7, <2>3 DEF Timeout, TypeOK
  <1>8. CASE ForwardToNobody(r) \/ Finish(r)
    <2>1. StopForwarding(r) /\ run[r].forwards
      BY <1>8 DEF ForwardToNobody, Finish
    <2>2. run[r].e \in Entries
      BY <1>1, <2>1 DEF RunStates
    <2>3. PICK agent \in {"works", "asks", "closed"} :
             run' = [run EXCEPT ![r] = [run[r] EXCEPT !.forwards = FALSE, !.cancelled = TRUE,
                                                      !.agent = agent]]
      <3> DEFINE agent == IF run[r].agent \in {"works", "asks"} THEN run[r].agent
                          ELSE "closed"
      <3>1. agent \in {"works", "asks", "closed"}
        OBVIOUS
      <3>2. run \in [Runs -> RunStates] /\ run[r] \in RunStates
        BY <1>1 DEF TypeOK
      <3>3. run' = [run EXCEPT ![r] = [run[r] EXCEPT !.forwards = FALSE, !.cancelled = TRUE,
                                                     !.agent = agent]]
        BY <2>1, <3>2 DEF StopForwarding, RunStates
      <3> QED
        BY <3>1, <3>3
    <2>4. /\ run' \in [Runs -> RunStates]
          /\ \A s \in Runs : run'[s].e = None <=> run'[s] = NoRun
      BY <1>1, <1>2, <1>3, <2>1, <2>3
    <2>5. /\ running' \in [Entries -> BOOLEAN] /\ pending' \in [Entries -> Asks \cup {None}]
          /\ stranded' \subseteq Entries
      BY <2>1, <2>2 DEF StopForwarding, TypeOK
    <2> QED
      BY <1>8, <2>4, <2>5 DEF ForwardToNobody, Finish, TypeOK
  <1>9. CASE ForwardLast(r)
    <2>1. run' = [run EXCEPT ![r] = [run[r] EXCEPT !.agent = "closed"]]
      BY <1>9 DEF ForwardLast, TypeOK
    <2>2. run[r].e # None
      BY <1>1, <1>9 DEF ForwardLast
    <2>3. /\ run' \in [Runs -> RunStates]
          /\ \A s \in Runs : run'[s].e = None <=> run'[s] = NoRun
      BY <1>2, <1>3, <2>1, <2>2
    <2>4. /\ req' \in [Clients -> Requests]
          /\ \A d \in Clients : (req'[d].pc = "send") <=> (req'[d].ask # None)
      BY <1>9, PublishedFrame DEF ForwardLast, TypeOK
    <2> QED
      BY <1>9, <2>3, <2>4 DEF ForwardLast, TypeOK
  <1>10. CASE AgentPublishes(r)
    <2>1. /\ req' \in [Clients -> Requests]
          /\ \A d \in Clients : (req'[d].pc = "send") <=> (req'[d].ask # None)
      BY <1>10, PublishedFrame DEF AgentPublishes, TypeOK
    <2> QED
      BY <1>10, <2>1 DEF AgentPublishes, TypeOK
  <1> QED
    BY <1>4, <1>5, <1>6, <1>7, <1>8, <1>9, <1>10 DEF RunStep

LEMMA AnswerTypes ==
    ASSUME TypeInv, NEW c \in Clients,
           Take(c) \/ Send(c) \/ Unstore(c) \/ Unlist(c) \/ RemoveTopic(c)
    PROVE  TypeOK'
  <1> USE DEF TypeInv, registry, fields, disk, agents, At
  <1>1. req[c] \in Requests /\ (req[c].pc = "send" <=> req[c].ask # None)
    BY DEF TypeOK
  <1>2. Sound(req[c])
    BY DEF RequestInv
  <1>3. /\ NoRequest \in Requests /\ NoRequest.pc # "send" /\ NoRequest.ask = None
    BY DEF NoRequest, Requests
  <1>4. ASSUME Respond(c)
        PROVE  /\ req' \in [Clients -> Requests]
               /\ \A d \in Clients : (req'[d].pc = "send") <=> (req'[d].ask # None)
    BY <1>3, <1>4, OneRequestType DEF Respond
  <1>5. CASE Take(c)
    <2>1. req[c].e \in Entries
      BY <1>1, <1>2, <1>5 DEF Take, Sound, Requests
    <2>2. pending[req[c].e] \in Asks \cup {None}
      BY <2>1 DEF TypeOK
    <2>3. /\ req' \in [Clients -> Requests]
          /\ \A d \in Clients : (req'[d].pc = "send") <=> (req'[d].ask # None)
      <3>1. CASE pending[req[c].e] = None
        BY <1>4, <1>5, <3>1 DEF Take, Taken
      <3>2. CASE pending[req[c].e] # None
        <4> DEFINE q == [req[c] EXCEPT !.pc = "send", !.ask = pending[req[c].e]]
        <4>1. q \in Requests /\ q.pc = "send" /\ q.ask # None
          BY <1>1, <2>2, <3>2 DEF Requests
        <4>2. req' = [req EXCEPT ![c] = q]
          BY <1>5, <3>2 DEF Take, Taken, TypeOK
        <4> HIDE DEF q
        <4> QED
          BY <4>1, <4>2, OneRequestType
      <3> QED
        BY <3>1, <3>2
    <2>4. pending' \in [Entries -> Asks \cup {None}]
      BY <1>5, <2>1 DEF Take, TypeOK
    <2> QED
      BY <1>5, <2>3, <2>4 DEF Take, TypeOK
  <1>6. CASE Send(c)
    <2>1. answer' \in [Asks -> BOOLEAN]
      BY <1>6 DEF Send, TypeOK
    <2> QED
      BY <1>4, <1>6, <2>1 DEF Send, TypeOK
  <1>7. CASE Unstore(c)
    <2>1. PICK ok \in BOOLEAN :
              /\ store' = (store /\ ~ ok)
              /\ req' = [req EXCEPT ![c] = [req[c] EXCEPT !.pc = "drop", !.found = ok]]
      BY <1>7 DEF Unstore, TypeOK
    <2>2. LET q == [req[c] EXCEPT !.pc = "drop", !.found = ok]
          IN  q \in Requests /\ q.pc = "drop" /\ q.ask = None
      BY <1>1, <1>7 DEF Unstore, Requests
    <2>3. /\ req' \in [Clients -> Requests]
          /\ \A d \in Clients : (req'[d].pc = "send") <=> (req'[d].ask # None)
      BY <2>1, <2>2, OneRequestType
    <2>4. store' \in BOOLEAN
      BY <2>1
    <2> QED
      BY <1>7, <2>3, <2>4 DEF Unstore, TypeOK
  <1>8. CASE Unlist(c)
    <2>1. req' = [req EXCEPT ![c] = [req[c] EXCEPT !.pc = "topic"]]
      BY <1>8 DEF Unlist, Goto, TypeOK
    <2>2. LET q == [req[c] EXCEPT !.pc = "topic"]
          IN  q \in Requests /\ q.pc = "topic" /\ q.ask = None
      BY <1>1, <1>8 DEF Unlist, Requests
    <2>3. /\ req' \in [Clients -> Requests]
          /\ \A d \in Clients : (req'[d].pc = "send") <=> (req'[d].ask # None)
      BY <2>1, <2>2, OneRequestType
    <2>4. /\ entry' = None /\ access' = FALSE
          /\ removed' \in [Entries -> {"no", "evicted", "deleted", "half deleted"}]
      BY <1>8 DEF Unlist, Drop, TypeOK
    <2>5. entry' \in 0..made
      <3>1. made \in Nat
        BY Numbers
      <3>2. entry' = None
        BY <2>4
      <3> HIDE DEF TypeInv
      <3> QED
        BY <3>1, <3>2 DEF None
    <2> QED
      BY <1>8, <2>3, <2>4, <2>5 DEF Unlist, TypeOK
  <1>9. CASE RemoveTopic(c)
    <2>1. /\ req' \in [Clients -> Requests]
          /\ \A d \in Clients : (req'[d].pc = "send") <=> (req'[d].ask # None)
      BY <1>3, <1>9, RemoveTopicFrame DEF TypeOK
    <2> QED
      BY <1>9, <2>1 DEF RemoveTopic, TypeOK
  <1> QED
    BY <1>5, <1>6, <1>7, <1>8, <1>9

LEMMA ServerTypes ==
    ASSUME TypeInv, create \/ SaveLands \/ SavesEnd \/ evictIdle \/ Restart \/ UNCHANGED vars
    PROVE  TypeOK'
  <1> USE DEF TypeInv, registry, fields, disk, agents
  <1>1. CASE create
    <2>1. made' = 1 /\ entry' = 1 /\ 1 \in 0..1 /\ 1 \in 0..(MaxRequests + 1)
      BY <1>1 DEF create
    <2> QED
      BY <1>1, <2>1 DEF create, TypeOK
  <1>2. CASE SaveLands \/ SavesEnd
    BY <1>2 DEF SaveLands, SavesEnd, TypeOK
  <1>3. CASE evictIdle
    <2>1. /\ entry' = None /\ access' = FALSE /\ saves' = TRUE
          /\ removed' \in [Entries -> {"no", "evicted", "deleted", "half deleted"}]
      BY <1>3 DEF evictIdle, Drop, TypeOK
    <2>2. entry' \in 0..made
      <3>1. made \in Nat
        BY Numbers
      <3>2. entry' = None
        BY <2>1
      <3> HIDE DEF TypeInv
      <3> QED
        BY <3>1, <3>2 DEF None
    <2> QED
      BY <1>3, <2>1, <2>2 DEF evictIdle, TypeOK
  <1>4. CASE Restart
    <2>1. begun' \in 0..MaxRequests
      BY <1>4, Numbers DEF Restart
    <2>2. /\ NoRequest \in Requests /\ NoRun \in RunStates /\ NoRun.e = None
          /\ NoRequest.pc # "send" /\ NoRequest.ask = None
      BY DEF NoRequest, Requests, NoRun, RunStates
    <2>3. /\ req' \in [Clients -> Requests] /\ run' \in [Runs -> RunStates]
          /\ \A r \in Runs : run'[r] = NoRun
          /\ \A c \in Clients : req'[c] = NoRequest
      BY <1>4, <2>2 DEF Restart
    <2>4. /\ entry' \in 0..made' /\ made' \in 0..(MaxRequests + 1)
          /\ runs' \in 0..MaxRuns /\ asks' \in 0..MaxAsks
      BY <1>4 DEF Restart, None
    <2>5. /\ running' \in [Entries -> BOOLEAN] /\ pending' \in [Entries -> Asks \cup {None}]
          /\ answer' \in [Asks -> BOOLEAN]
          /\ removed' \in [Entries -> {"no", "evicted", "deleted", "half deleted"}]
      BY <1>4 DEF Restart
    <2> QED
      BY <1>4, <2>1, <2>2, <2>3, <2>4, <2>5 DEF Restart, TypeOK
  <1>5. CASE UNCHANGED vars
    BY <1>5 DEF vars, TypeOK
  <1> QED
    BY <1>1, <1>2, <1>3, <1>4, <1>5
-----------------------------------------------------------------------------
(* What requests know, and how many there can be *)

LEMMA CountMore ==
    ASSUME NEW S, IsFiniteSet(S), NEW x, NEW T, T \subseteq S \cup {x}
    PROVE  /\ IsFiniteSet(T) /\ Cardinality(S) \in Nat /\ Cardinality(T) \in Nat
           /\ Cardinality(T) <= Cardinality(S) + 1
  <1>1. /\ IsFiniteSet(S \cup {x})
        /\ Cardinality(S \cup {x}) = IF x \in S THEN Cardinality(S) ELSE Cardinality(S) + 1
    BY FS_AddElement
  <1>2. /\ IsFiniteSet(T) /\ Cardinality(T) <= Cardinality(S \cup {x})
    BY <1>1, FS_Subset
  <1> QED
    BY <1>1, <1>2, FS_CardinalityType

LEMMA CountSame ==
    ASSUME NEW S, IsFiniteSet(S), NEW T, T \subseteq S
    PROVE  /\ IsFiniteSet(T) /\ Cardinality(S) \in Nat /\ Cardinality(T) \in Nat
           /\ Cardinality(T) <= Cardinality(S)
  BY FS_Subset, FS_CardinalityType

LEMMA CountLess ==
    ASSUME NEW S, IsFiniteSet(S), NEW x \in S, NEW T, T \subseteq S \ {x}
    PROVE  /\ IsFiniteSet(T) /\ Cardinality(S) \in Nat /\ Cardinality(T) \in Nat
           /\ Cardinality(T) + 1 <= Cardinality(S)
  <1>1. /\ IsFiniteSet(S \ {x})
        /\ Cardinality(S \ {x}) = IF x \in S THEN Cardinality(S) - 1 ELSE Cardinality(S)
    BY FS_RemoveElement
  <1>2. /\ IsFiniteSet(T) /\ Cardinality(T) <= Cardinality(S \ {x})
    BY <1>1, FS_Subset
  <1> QED
    BY <1>1, <1>2, FS_CardinalityType

(* Most steps make nothing that is counted. *)
LEMMA NoneCounted ==
    ASSUME TypeInv, Unlisted' \subseteq Unlisted, NotStarted' \subseteq NotStarted,
           UNCHANGED <<made, runs, begun, scope>>
    PROVE  CountInv'
  BY CountSame, Numbers DEF TypeInv, CountInv

(* A request that goes on by itself. *)
LEMMA OneRequest ==
    ASSUME TypeInv, NEW c \in Clients, NEW q, req' = [req EXCEPT ![c] = q], Sound(q)
    PROVE  /\ RequestInv'
           /\ Unlisted' \subseteq Unlisted \cup {c} /\ NotStarted' \subseteq NotStarted \cup {c}
           /\ q.pc \notin {"peek", "lookup", "fetch", "insert"} => Unlisted' \subseteq Unlisted \ {c}
           /\ q.op # "chat" \/ q.run # None => NotStarted' \subseteq NotStarted \ {c}
  <1>1. req'[c] = q /\ \A d \in Clients \ {c} : req'[d] = req[d]
    BY DEF TypeInv, TypeOK
  <1> QED
    BY <1>1 DEF TypeInv, RequestInv, Unlisted, NotStarted

(* Where a request stays in the counts it was in. *)
LEMMA Onwards ==
    ASSUME TypeInv, NEW c \in Clients, NEW q, req' = [req EXCEPT ![c] = q], Sound(q),
           \/ q.pc \notin {"peek", "lookup", "fetch", "insert"}
           \/ req[c].pc \in {"peek", "lookup", "fetch", "insert"},
           q.op # "chat" \/ q.run # None \/ (req[c].op = "chat" /\ req[c].run = None),
           UNCHANGED <<made, runs, begun, scope>>
    PROVE  RequestInv' /\ CountInv'
  <1>1. Unlisted' \subseteq Unlisted
    BY OneRequest DEF Unlisted
  <1>2. NotStarted' \subseteq NotStarted
    BY OneRequest DEF NotStarted
  <1> QED
    BY <1>1, <1>2, NoneCounted, OneRequest

(* Where none of the requests goes on. *)
LEMMA Standstill ==
    ASSUME TypeInv,
           \A d \in Clients : /\ req'[d].op = req[d].op /\ req'[d].pc = req[d].pc
                              /\ req'[d].e = req[d].e /\ req'[d].run = req[d].run,
           UNCHANGED <<made, runs, begun, scope>>
    PROVE  RequestInv' /\ CountInv'
  <1>1. Unlisted' = Unlisted /\ NotStarted' = NotStarted
    BY DEF Unlisted, NotStarted
  <1>2. RequestInv'
    BY DEF TypeInv, RequestInv, Sound
  <1> QED
    BY <1>1, <1>2, NoneCounted

LEMMA LookupCounts ==
    ASSUME TypeInv, NEW c \in Clients,
           BeginAny(c) \/ Peek(c) \/ Lookup(c) \/ Fetch(c) \/ Insert(c)
    PROVE  RequestInv' /\ CountInv'
  <1> USE DEF At, registry, agents
  <1>1. req[c] \in Requests /\ Sound(req[c])
    BY DEF TypeInv, TypeOK, RequestInv
  <1>2. ASSUME NEW op \in {"chat", "approve", "update", "delete"},
               NEW pc \in {"lookup", "peek", "unstore"}, Begin(c, op, pc),
               pc = "peek" => op = "update"
        PROVE  RequestInv' /\ CountInv'
    <2> DEFINE q == [req[c] EXCEPT !.op = op, !.pc = pc]
    <2>1. /\ req[c].pc = "idle" /\ begun' = begun + 1 /\ UNCHANGED <<made, runs, scope>>
          /\ op = "chat" => runs + Cardinality(NotStarted) < scope.runs
      BY <1>2 DEF Begin
    <2>2. Sound(q) /\ q.op = op
      BY <1>1, <1>2, <2>1 DEF Sound, Requests
    <2>3. req' = [req EXCEPT ![c] = q]
      BY <1>2 DEF Begin, TypeInv, TypeOK
    <2> HIDE DEF q
    <2>4. /\ RequestInv' /\ Unlisted' \subseteq Unlisted \cup {c}
          /\ NotStarted' \subseteq NotStarted \cup {c}
          /\ op # "chat" => NotStarted' \subseteq NotStarted
      BY <2>2, <2>3, OneRequest
    <2>5. IsFiniteSet(Unlisted') /\ made' + Cardinality(Unlisted') <= begun' + 1
      BY <2>1, <2>4, CountMore, Numbers DEF TypeInv, CountInv
    <2>6. IsFiniteSet(NotStarted') /\ runs' + Cardinality(NotStarted') <= scope'.runs
      <3>1. CASE op = "chat"
        <4>1. /\ IsFiniteSet(NotStarted') /\ Cardinality(NotStarted) \in Nat
              /\ Cardinality(NotStarted') \in Nat
              /\ Cardinality(NotStarted') <= Cardinality(NotStarted) + 1
          BY <2>4, CountMore DEF TypeInv, CountInv
        <4> QED
          BY <2>1, <3>1, <4>1, Numbers DEF TypeInv
      <3>2. CASE op # "chat"
        BY <2>1, <2>4, <3>2, CountSame, Numbers DEF TypeInv, CountInv
      <3> QED
        BY <3>1, <3>2
    <2> QED
      BY <2>1, <2>4, <2>5, <2>6, Numbers DEF CountInv, TypeInv
  <1>3. CASE BeginAny(c)
    BY <1>2, <1>3 DEF BeginAny
  <1>4. CASE Peek(c)
    <2>1. PICK pc \in {"lookup", "meta"} : req' = [req EXCEPT ![c] = [req[c] EXCEPT !.pc = pc]]
      BY <1>4 DEF Peek, Goto, TypeInv, TypeOK
    <2>2. LET q == [req[c] EXCEPT !.pc = pc]
          IN  Sound(q) /\ q.op # "chat"
      BY <1>1, <1>4 DEF Peek, Sound, Requests
    <2> QED
      BY <1>4, <2>1, <2>2, Onwards DEF Peek
  <1>5. CASE Fetch(c)
    <2>1. PICK found \in BOOLEAN :
             req' = [req EXCEPT ![c] = [req[c] EXCEPT !.pc = "insert", !.found = found]]
      BY <1>5 DEF Fetch, TypeInv, TypeOK
    <2>2. LET q == [req[c] EXCEPT !.pc = "insert", !.found = found]
          IN  Sound(q) /\ q.op = req[c].op /\ q.run = req[c].run
      BY <1>1, <1>5 DEF Fetch, Sound, Requests
    <2> QED
      BY <1>5, <2>1, <2>2, Onwards DEF Fetch
  <1>6. ASSUME NEW e \in Entries, Hold(c, e), req[c].pc \in {"lookup", "insert"}
        PROVE  \E q : /\ req' = [req EXCEPT ![c] = q] /\ Sound(q)
                      /\ q.pc \notin {"peek", "lookup", "fetch", "insert"}
                      /\ q.op = req[c].op /\ q.run = req[c].run
    <2> DEFINE q == [req[c] EXCEPT !.e = e, !.pc = AfterLookup(req[c].op), !.found = FALSE]
    <2>1. /\ AfterLookup(req[c].op) \in {"mark", "take", "meta"}
          /\ AfterLookup(req[c].op) = "mark" => req[c].op = "chat"
      BY DEF AfterLookup
    <2>2. e # None
      BY DEF Entries, None
    <2>3. /\ Sound(q) /\ q.pc = AfterLookup(req[c].op) /\ q.op = req[c].op
          /\ q.run = req[c].run
      BY <1>1, <1>6, <2>1, <2>2 DEF Sound, Requests
    <2>4. req' = [req EXCEPT ![c] = q]
      BY <1>6 DEF Hold, TypeInv, TypeOK
    <2> HIDE DEF q
    <2> QED
      BY <2>1, <2>3, <2>4
  <1>7. ASSUME NEW e \in Entries, Hold(c, e), req[c].pc \in {"lookup", "insert"},
               UNCHANGED <<made, runs, begun, scope>>
        PROVE  RequestInv' /\ CountInv'
    <2>1. PICK q : /\ req' = [req EXCEPT ![c] = q] /\ Sound(q)
                   /\ q.pc \notin {"peek", "lookup", "fetch", "insert"}
                   /\ q.op = req[c].op /\ q.run = req[c].run
      BY <1>6, <1>7
    <2> QED
      BY <1>7, <2>1, Onwards
  <1>8. entry # None => entry \in Entries
    BY Numbers DEF TypeInv
  <1>9. CASE Lookup(c)
    <2>1. CASE entry # None
      BY <1>7, <1>8, <1>9, <2>1 DEF Lookup
    <2>2. CASE entry = None
      <3>1. req' = [req EXCEPT ![c] = [req[c] EXCEPT !.pc = "fetch"]]
        BY <1>9, <2>2 DEF Lookup, Goto, TypeInv, TypeOK
      <3>2. LET q == [req[c] EXCEPT !.pc = "fetch"]
            IN  Sound(q) /\ q.op = req[c].op /\ q.run = req[c].run
        BY <1>1, <1>9 DEF Lookup, Sound, Requests
      <3> QED
        BY <1>9, <3>1, <3>2, Onwards DEF Lookup
    <2> QED
      BY <2>1, <2>2
  <1>10. CASE Insert(c)
    <2>1. CASE entry # None
      BY <1>7, <1>8, <1>10, <2>1 DEF Insert
    <2>2. CASE entry = None
      <3>1. InsertNew(c) /\ c \in Unlisted
        BY <1>10, <2>2 DEF Insert, Unlisted
      <3>2. made + 1 \in Entries
        <4>1. Cardinality(Unlisted) \in Nat /\ Cardinality(Unlisted) # 0
          BY <3>1, FS_CardinalityType, FS_EmptySet DEF TypeInv, CountInv
        <4> QED
          BY <4>1, Numbers DEF TypeInv, CountInv, Entries
      <3>3. PICK q : /\ req' = [req EXCEPT ![c] = q] /\ Sound(q)
                     /\ q.pc \notin {"peek", "lookup", "fetch", "insert"}
                     /\ q.op = req[c].op /\ q.run = req[c].run
        BY <1>6, <1>10, <3>1, <3>2 DEF InsertNew, Insert
      <3>4. /\ RequestInv' /\ Unlisted' \subseteq Unlisted \ {c}
            /\ NotStarted' \subseteq NotStarted
        BY <3>3, OneRequest DEF NotStarted
      <3>5. made' = made + 1 /\ UNCHANGED <<runs, begun, scope>>
        BY <1>10, <3>1 DEF InsertNew, Insert
      <3>6. IsFiniteSet(Unlisted') /\ made' + Cardinality(Unlisted') <= begun' + 1
        BY <3>1, <3>4, <3>5, CountLess, Numbers DEF TypeInv, CountInv
      <3>7. IsFiniteSet(NotStarted') /\ runs' + Cardinality(NotStarted') <= scope'.runs
        BY <3>4, <3>5, CountSame, Numbers DEF TypeInv, CountInv
      <3> QED
        BY <3>4, <3>5, <3>6, <3>7 DEF CountInv, TypeInv
    <2> QED
      BY <2>1, <2>2
  <1> QED
    BY <1>3, <1>4, <1>5, <1>9, <1>10

LEMMA ChatCounts ==
    ASSUME TypeInv, NEW c \in Clients,
           Mark(c) \/ Meta(c) \/ Touch(c) \/ Disconnect(c) \/ EndResponse(c)
    PROVE  RequestInv' /\ CountInv'
  <1> USE DEF At, registry, agents
  <1>1. req[c] \in Requests /\ Sound(req[c]) /\ Sound(NoRequest) /\ NoRequest.op = "none"
    BY DEF TypeInv, TypeOK, RequestInv, NoRequest, Sound
  <1>2. CASE Respond(c) /\ UNCHANGED <<made, runs, begun, scope>>
    <2>1. NoRequest.pc \notin {"peek", "lookup", "fetch", "insert"}
      BY DEF NoRequest
    <2> QED
      BY <1>1, <1>2, <2>1, Onwards DEF Respond
  <1>3. ASSUME NEW pc \in {"meta", "touch"}, Goto(c, pc),
               req[c].pc \in {"mark", "meta"}, UNCHANGED <<made, runs, begun, scope>>
        PROVE  RequestInv' /\ CountInv'
    <2>1. req' = [req EXCEPT ![c] = [req[c] EXCEPT !.pc = pc]]
      BY <1>3 DEF Goto, TypeInv, TypeOK
    <2>2. LET q == [req[c] EXCEPT !.pc = pc]
          IN  Sound(q) /\ q.pc = pc /\ q.op = req[c].op /\ q.run = req[c].run
      BY <1>1, <1>3 DEF Sound, Requests
    <2> QED
      BY <1>3, <2>1, <2>2, Onwards
  <1>4. CASE Mark(c)
    BY <1>2, <1>3, <1>4 DEF Mark
  <1>5. CASE Disconnect(c)
    <2>1. req' = [req EXCEPT ![c] = [req[c] EXCEPT !.left = TRUE]]
      BY <1>5 DEF Disconnect, TypeInv, TypeOK
    <2>2. LET q == [req[c] EXCEPT !.left = TRUE]
          IN  Sound(q) /\ q.pc = req[c].pc /\ q.op = req[c].op /\ q.run = req[c].run
      BY <1>1, <1>5 DEF Disconnect, Sound, Requests
    <2> QED
      BY <1>5, <2>1, <2>2, Onwards DEF Disconnect
  <1>6. CASE EndResponse(c)
    BY <1>2, <1>6 DEF EndResponse
  <1>7. CASE /\ req[c].op = "chat" /\ StartRun(c) /\ req[c].pc \in {"meta", "touch"}
             /\ UNCHANGED <<made, begun, scope>>
    <2> DEFINE q == [req[c] EXCEPT !.pc = "reading", !.run = runs + 1]
    <2>1. req' = [req EXCEPT ![c] = q] /\ runs' = runs + 1
      BY <1>7 DEF StartRun, TypeInv, TypeOK
    <2>2. runs + 1 # None
      BY Numbers DEF None, TypeInv
    <2>3. /\ Sound(q) /\ q.run # None /\ q.pc = "reading"
          /\ req[c].run = None
      BY <1>1, <1>7, <2>2 DEF Sound, Requests
    <2> HIDE DEF q
    <2>4. c \in NotStarted
      BY <1>7, <2>3 DEF NotStarted
    <2>5. /\ RequestInv' /\ Unlisted' \subseteq Unlisted \ {c}
          /\ NotStarted' \subseteq NotStarted \ {c}
      BY <2>1, <2>3, OneRequest
    <2>6. IsFiniteSet(Unlisted') /\ made' + Cardinality(Unlisted') <= begun' + 1
      BY <1>7, <2>5, CountSame, Numbers DEF TypeInv, CountInv
    <2>7. IsFiniteSet(NotStarted') /\ runs' + Cardinality(NotStarted') <= scope'.runs
      BY <1>7, <2>1, <2>4, <2>5, CountLess, Numbers DEF TypeInv, CountInv
    <2> QED
      BY <1>7, <2>5, <2>6, <2>7 DEF CountInv, TypeInv
  <1>8. CASE Meta(c)
    BY <1>2, <1>3, <1>7, <1>8 DEF Meta, AfterMeta
  <1>9. CASE Touch(c)
    BY <1>2, <1>7, <1>9 DEF Touch, AfterMeta
  <1> QED
    BY <1>4, <1>5, <1>6, <1>8, <1>9

LEMMA AnswerCounts ==
    ASSUME TypeInv, NEW c \in Clients,
           Take(c) \/ Send(c) \/ Unstore(c) \/ Unlist(c) \/ RemoveTopic(c)
    PROVE  RequestInv' /\ CountInv'
  <1> USE DEF At, registry, agents
  <1>1. req[c] \in Requests /\ Sound(req[c]) /\ Sound(NoRequest) /\ NoRequest.op = "none"
    BY DEF TypeInv, TypeOK, RequestInv, NoRequest, Sound
  <1>2. NoRequest.pc \notin {"peek", "lookup", "fetch", "insert"}
    BY DEF NoRequest
  <1>3. CASE Respond(c) /\ UNCHANGED <<made, runs, begun, scope>>
    BY <1>1, <1>2, <1>3, Onwards DEF Respond
  <1>4. CASE Take(c)
    <2>1. CASE pending[req[c].e] = None
      BY <1>3, <1>4, <2>1 DEF Take, Taken
    <2>2. CASE pending[req[c].e] # None
      <3> DEFINE q == [req[c] EXCEPT !.pc = "send", !.ask = pending[req[c].e]]
      <3>1. req' = [req EXCEPT ![c] = q]
        BY <1>4, <2>2 DEF Take, Taken, TypeInv, TypeOK
      <3>2. Sound(q) /\ q.pc = "send" /\ q.op = req[c].op /\ q.run = req[c].run
        BY <1>1, <1>4 DEF Take, Sound, Requests
      <3> HIDE DEF q
      <3> QED
        BY <1>4, <3>1, <3>2, Onwards DEF Take
    <2> QED
      BY <2>1, <2>2
  <1>5. CASE Send(c)
    BY <1>3, <1>5 DEF Send
  <1>6. CASE Unstore(c)
    <2>1. PICK ok \in BOOLEAN :
              req' = [req EXCEPT ![c] = [req[c] EXCEPT !.pc = "drop", !.found = ok]]
      BY <1>6 DEF Unstore, TypeInv, TypeOK
    <2>2. LET q == [req[c] EXCEPT !.pc = "drop", !.found = ok]
          IN  Sound(q) /\ q.pc = "drop" /\ q.op = req[c].op /\ q.run = req[c].run
      BY <1>1, <1>6 DEF Unstore, Sound, Requests
    <2> QED
      BY <1>6, <2>1, <2>2, Onwards DEF Unstore
  <1>7. CASE Unlist(c)
    <2>1. req' = [req EXCEPT ![c] = [req[c] EXCEPT !.pc = "topic"]]
      BY <1>7 DEF Unlist, Goto, TypeInv, TypeOK
    <2>2. LET q == [req[c] EXCEPT !.pc = "topic"]
          IN  Sound(q) /\ q.pc = "topic" /\ q.op = req[c].op /\ q.run = req[c].run
      BY <1>1, <1>7 DEF Unlist, Sound, Requests
    <2> QED
      BY <1>7, <2>1, <2>2, Onwards DEF Unlist
  <1>8. CASE RemoveTopic(c)
    <2>1. /\ req'[c] = NoRequest
          /\ \A d \in Clients \ {c} :
                /\ req'[d].op = req[d].op /\ req'[d].pc = req[d].pc
                /\ req'[d].e = req[d].e /\ req'[d].run = req[d].run
      BY <1>8, RemoveTopicFrame DEF TypeInv
    <2>2. Unlisted' \subseteq Unlisted /\ NotStarted' \subseteq NotStarted
      BY <1>1, <1>2, <2>1 DEF Unlisted, NotStarted
    <2>3. \A d \in Clients \ {c} : Sound(req'[d])
      BY <2>1 DEF TypeInv, RequestInv, Sound
    <2>4. RequestInv'
      BY <1>1, <2>1, <2>3 DEF RequestInv
    <2> QED
      BY <1>8, <2>2, <2>4, NoneCounted DEF RemoveTopic
  <1> QED
    BY <1>4, <1>5, <1>6, <1>7, <1>8

LEMMA RunCounts ==
    ASSUME TypeInv, NEW r \in Runs, RunStep(r) \/ AgentPublishes(r)
    PROVE  RequestInv' /\ CountInv'
  <1> USE DEF registry, agents
  <1>1. CASE /\ UNCHANGED <<req, made, runs, begun, scope>>
    BY <1>1, Standstill
  <1>2. CASE AgentPublishes(r) \/ ForwardLast(r)
    <2>1. PICK ends \in BOOLEAN : Published(ends)
      BY <1>2 DEF AgentPublishes, ForwardLast
    <2> QED
      BY <1>2, <2>1, PublishedFrame, Standstill DEF AgentPublishes, ForwardLast, TypeInv
  <1> QED
    BY <1>1, <1>2 DEF RunStep, AgentAsks, AgentAnswered, AgentRefused, AgentEnds, Timeout,
       ForwardToNobody, Finish

LEMMA ServerCounts ==
    ASSUME TypeInv, create \/ SaveLands \/ SavesEnd \/ evictIdle \/ Restart \/ UNCHANGED vars
    PROVE  RequestInv' /\ CountInv'
  <1> USE DEF registry, agents
  <1>1. CASE SaveLands \/ SavesEnd \/ evictIdle \/ UNCHANGED vars
    BY <1>1, Standstill DEF SaveLands, SavesEnd, evictIdle, vars
  <1>2. CASE create
    <2>1. UNCHANGED <<req, runs, begun, scope>> /\ made = 0 /\ made' = 1 /\ begun = 0
      BY <1>2 DEF create
    <2>2. Unlisted' = Unlisted /\ NotStarted' = NotStarted /\ RequestInv'
      BY <2>1 DEF Unlisted, NotStarted, TypeInv, RequestInv
    <2>3. Unlisted = {} /\ Cardinality(Unlisted) = 0
      BY <2>1, FS_EmptySet DEF TypeInv, CountInv
    <2> QED
      BY <2>1, <2>2, <2>3 DEF TypeInv, CountInv
  <1>3. CASE Restart
    <2>1. /\ \A c \in Clients : req'[c] = NoRequest
          /\ made' = 0 /\ runs' = 0 /\ begun' = begun + 1 /\ scope' = scope
      BY <1>3 DEF Restart
    <2>2. Unlisted' = {} /\ NotStarted' = {}
      BY <2>1 DEF Unlisted, NotStarted, NoRequest
    <2>3. RequestInv'
      BY <2>1 DEF RequestInv, Sound, NoRequest
    <2> QED
      BY <2>1, <2>2, <2>3, FS_EmptySet, Numbers DEF CountInv, TypeInv
  <1> QED
    BY <1>1, <1>2, <1>3

LEMMA TypeStep == TypeInv /\ [Next]_vars => TypeInv'
  <1> SUFFICES ASSUME TypeInv, [Next]_vars PROVE TypeInv'
    OBVIOUS
  <1>1. TypeOK'
    BY LookupTypes, ChatTypes, AnswerTypes, RunTypes, ServerTypes DEF Next, RequestStep
  <1>2. RequestInv' /\ CountInv'
    BY LookupCounts, ChatCounts, AnswerCounts, RunCounts, ServerCounts DEF Next, RequestStep
  <1> QED
    BY <1>1, <1>2 DEF TypeInv

(* The variables stay in their types: entries, runs and approvals are never *)
(* more than the requests account for, and an approval is in the hands of a *)
(* request just as long as it has to send the answer.                       *)
THEOREM TypeCorrect == Spec => []TypeOK
  <1>1. TypeInv => TypeOK
    BY DEF TypeInv
  <1> QED
    BY <1>1, TypeInit, TypeStep, PTL DEF Spec

-----------------------------------------------------------------------------
(* Entries, and who works with them *)

(* A request that takes up no entry and begins no chat. *)
Calm(d) ==
    /\ req'[d].e # None =>
          req'[d].e = req[d].e /\ (req'[d].pc = "reading" \/ req[d].pc # "reading")
    /\ req'[d].op = "chat" /\ req'[d].pc \in {"meta", "touch"} =>
          Marked(d) /\ req'[d].e = req[d].e

(* Held entries are entries. *)
LEMMA HeldTypes ==
    ASSUME TypeInv
    PROVE  /\ \A c \in Clients : req[c].e # None => req[c].e \in Entries
           /\ \A r \in Runs : run[r].forwards => run[r].e \in Entries
  <1>1. \A c \in Clients : req[c] \in Requests
    BY DEF TypeInv, TypeOK
  <1>2. \A r \in Runs : run[r] \in RunStates /\ (run[r].forwards => run[r].e # None)
    <2>1. NoRun.forwards = FALSE
      BY DEF NoRun
    <2> QED
      BY <2>1 DEF TypeInv, TypeOK
  <1>3. \A c \in Clients : req[c].e # None => req[c].e \in Entries
    BY <1>1 DEF Requests
  <1>4. \A r \in Runs : run[r].forwards => run[r].e \in Entries
    BY <1>2 DEF RunStates
  <1> QED
    BY <1>3, <1>4

LEMMA CalmStep ==
    ASSUME TypeInv, EntryInv, TypeInv',
           \A d \in Clients : Calm(d),
           \A r \in Runs : run'[r].e = run[r].e /\ run'[r].forwards = run[r].forwards,
           UNCHANGED <<entry, removed, running, overlapped>>
    PROVE  EntryInv'
  <1> USE DEF EntryInv, Calm
  <1>1. HeldIsListed' /\ ListedInv'
    BY DEF HeldIsListed, ListedInv
  <1>2. SharingInv' /\ RunningInv'
    BY DEF SharingInv, RunningInv, Marked
  <1>3. EvictionSparesWork'
    BY DEF EvictionSparesWork
  <1> QED
    BY <1>1, <1>2, <1>3

LEMMA InitEntry == Init => EntryInv
  <1> SUFFICES ASSUME Init PROVE EntryInv
    OBVIOUS
  <1>1. \A c \in Clients : req[c].e = None /\ req[c].op = "none"
    BY DEF Init, NoRequest
  <1>2. \A r \in Runs : run[r].forwards = FALSE
    BY DEF Init, NoRun
  <1> QED
    BY <1>1, <1>2 DEF EntryInv, HeldIsListed, ListedInv, SharingInv, RunningInv,
       EvictionSparesWork, Marked

(* The steps of requests that are calm. *)
LEMMA CalmRequests ==
    ASSUME TypeInv, NEW c \in Clients,
           \/ BeginAny(c) \/ Peek(c) \/ Fetch(c) \/ Disconnect(c) \/ EndResponse(c)
           \/ Take(c) \/ Send(c) \/ Unstore(c) \/ Unlist(c) \/ RemoveTopic(c)
           \/ Lookup(c) /\ entry = None
           \/ Meta(c) /\ UNCHANGED agents
           \/ Touch(c) /\ UNCHANGED agents
    PROVE  \A d \in Clients : Calm(d)
  <1> USE DEF At
  <1>1. req[c] \in Requests /\ Sound(req[c])
    BY DEF TypeInv, TypeOK, RequestInv
  <1>2. ASSUME NEW q, req' = [req EXCEPT ![c] = q], q.e # None => q.e = req[c].e,
               q.pc = "reading" \/ req[c].pc # "reading" \/ q.e = None,
               q.op = "chat" /\ q.pc \in {"meta", "touch"} => Marked(c) /\ q.e = req[c].e
        PROVE  \A d \in Clients : Calm(d)
    <2>1. req'[c] = q /\ \A d \in Clients \ {c} : req'[d] = req[d]
      BY <1>2 DEF TypeInv, TypeOK
    <2>2. \A d \in Clients \ {c} : Calm(d)
      BY <2>1 DEF Calm, Marked
    <2>3. Calm(c)
      BY <1>2, <2>1 DEF Calm
    <2> QED
      BY <2>2, <2>3
  <1>3. CASE Respond(c)
    <2>1. NoRequest.e = None /\ NoRequest.op # "chat"
      BY DEF NoRequest
    <2> QED
      BY <1>2, <1>3, <2>1 DEF Respond
  <1>4. CASE EndResponse(c) \/ Send(c)
    BY <1>3, <1>4 DEF EndResponse, Send
  <1>5. CASE BeginAny(c)
    <2>1. PICK op \in {"chat", "approve", "update", "delete"},
               pc \in {"lookup", "peek", "unstore"} :
            /\ req[c].pc = "idle"
            /\ req' = [req EXCEPT ![c] = [req[c] EXCEPT !.op = op, !.pc = pc]]
      BY <1>5 DEF BeginAny, Begin, TypeInv, TypeOK
    <2>2. LET q == [req[c] EXCEPT !.op = op, !.pc = pc]
          IN  q.e = req[c].e /\ q.pc = pc
      BY <1>1 DEF Requests
    <2> QED
      BY <1>2, <2>1, <2>2
  <1>6. CASE Peek(c)
    <2>1. PICK pc \in {"lookup", "meta"} : req' = [req EXCEPT ![c] = [req[c] EXCEPT !.pc = pc]]
      BY <1>6 DEF Peek, Goto, TypeInv, TypeOK
    <2>2. LET q == [req[c] EXCEPT !.pc = pc]
          IN  q.e = req[c].e /\ q.op # "chat" /\ req[c].pc # "reading"
      BY <1>1, <1>6 DEF Peek, Sound, Requests
    <2> QED
      BY <1>2, <2>1, <2>2
  <1>7. CASE Fetch(c)
    <2>1. PICK found \in BOOLEAN :
             req' = [req EXCEPT ![c] = [req[c] EXCEPT !.pc = "insert", !.found = found]]
      BY <1>7 DEF Fetch, TypeInv, TypeOK
    <2>2. LET q == [req[c] EXCEPT !.pc = "insert", !.found = found]
          IN  q.e = req[c].e /\ q.pc = "insert" /\ req[c].pc # "reading"
      BY <1>1, <1>7 DEF Fetch, Requests
    <2> QED
      BY <1>2, <2>1, <2>2
  <1>8. CASE Disconnect(c)
    <2>1. req' = [req EXCEPT ![c] = [req[c] EXCEPT !.left = TRUE]]
      BY <1>8 DEF Disconnect, TypeInv, TypeOK
    <2>2. LET q == [req[c] EXCEPT !.left = TRUE]
          IN  q.e = req[c].e /\ q.pc = "reading"
      BY <1>1, <1>8 DEF Disconnect, Requests
    <2> QED
      BY <1>2, <2>1, <2>2
  <1>9. CASE Take(c)
    <2>1. CASE pending[req[c].e] # None
      <3> DEFINE q == [req[c] EXCEPT !.pc = "send", !.ask = pending[req[c].e]]
      <3>1. req' = [req EXCEPT ![c] = q]
        BY <1>9, <2>1 DEF Take, Taken, TypeInv, TypeOK
      <3>2. q.e = req[c].e /\ q.pc = "send" /\ req[c].pc # "reading"
        BY <1>1, <1>9 DEF Take, Requests
      <3> HIDE DEF q
      <3> QED
        BY <1>2, <3>1, <3>2
    <2> QED
      BY <1>3, <1>9, <2>1 DEF Take, Taken
  <1>10. CASE Unstore(c)
    <2>1. PICK ok \in BOOLEAN :
              req' = [req EXCEPT ![c] = [req[c] EXCEPT !.pc = "drop", !.found = ok]]
      BY <1>10 DEF Unstore, TypeInv, TypeOK
    <2>2. LET q == [req[c] EXCEPT !.pc = "drop", !.found = ok]
          IN  q.e = req[c].e /\ q.pc = "drop" /\ req[c].pc # "reading"
      BY <1>1, <1>10 DEF Unstore, Requests
    <2> QED
      BY <1>2, <2>1, <2>2
  <1>11. ASSUME NEW pc \in {"topic", "fetch", "touch"}, Goto(c, pc), req[c].pc # "reading",
                pc = "touch" => req[c].pc = "meta"
         PROVE  \A d \in Clients : Calm(d)
    <2>1. req' = [req EXCEPT ![c] = [req[c] EXCEPT !.pc = pc]]
      BY <1>11 DEF Goto, TypeInv, TypeOK
    <2>2. LET q == [req[c] EXCEPT !.pc = pc]
          IN  q.e = req[c].e /\ q.pc = pc /\ q.op = req[c].op
      BY <1>1 DEF Requests
    <2> QED
      BY <1>2, <1>11, <2>1, <2>2 DEF Marked
  <1>12. CASE Unlist(c)
    BY <1>11, <1>12 DEF Unlist
  <1>13. CASE Lookup(c) /\ entry = None
    BY <1>11, <1>13 DEF Lookup
  <1>14. CASE RemoveTopic(c)
    <2>1. \A d \in Clients \ {c} : Calm(d)
      BY <1>14, RemoveTopicFrame DEF Calm, Marked, TypeInv
    <2>2. req'[c] = NoRequest /\ NoRequest.e = None /\ NoRequest.op # "chat"
      BY <1>14, RemoveTopicFrame DEF TypeInv, NoRequest
    <2>3. Calm(c)
      BY <2>2 DEF Calm
    <2> QED
      BY <2>1, <2>3
  <1>15. AfterMeta(c) /\ UNCHANGED agents => Respond(c)
    <2> SUFFICES ASSUME StartRun(c), UNCHANGED agents PROVE FALSE
      BY DEF AfterMeta
    <2>1. runs' = runs + 1 /\ runs' = runs
      BY DEF StartRun, agents
    <2> QED
      BY <2>1, Numbers DEF TypeInv
  <1>16. CASE Meta(c) /\ UNCHANGED agents
    BY <1>3, <1>11, <1>15, <1>16 DEF Meta
  <1>17. CASE Touch(c) /\ UNCHANGED agents
    BY <1>3, <1>15, <1>17 DEF Touch
  <1> QED
    BY <1>4, <1>5, <1>6, <1>7, <1>8, <1>9, <1>10, <1>12, <1>13, <1>14, <1>16, <1>17

LEMMA CalmRuns ==
    ASSUME TypeInv, NEW r \in Runs,
           \/ AgentPublishes(r) \/ AgentAsks(r) \/ AgentAnswered(r) \/ AgentRefused(r)
           \/ AgentEnds(r) \/ Timeout(r) \/ ForwardLast(r)
    PROVE  /\ \A d \in Clients : Calm(d)
           /\ \A q \in Runs : run'[q].e = run[q].e /\ run'[q].forwards = run[q].forwards
  <1>1. \A d \in Clients : Calm(d)
    <2>1. CASE req' = req
      BY <2>1 DEF Calm, Marked
    <2>2. CASE AgentPublishes(r) \/ ForwardLast(r)
      <3>1. PICK ends \in BOOLEAN : Published(ends)
        BY <2>2 DEF AgentPublishes, ForwardLast
      <3> QED
        BY <3>1, PublishedFrame DEF Calm, Marked, TypeInv
    <2> QED
      BY <2>1, <2>2 DEF AgentAsks, AgentAnswered, AgentRefused, AgentEnds, Timeout
  <1>2. run[r] \in RunStates
    BY DEF TypeInv, TypeOK
  <1>3. \A q \in Runs \ {r} : run'[q] = run[q]
    BY DEF AgentPublishes, AgentAsks, AgentAnswered, AgentRefused, AgentEnds, Timeout,
       ForwardLast, agents, TypeInv, TypeOK
  <1>4. run'[r].e = run[r].e /\ run'[r].forwards = run[r].forwards
    <2>1. CASE AgentPublishes(r)
      BY <2>1 DEF AgentPublishes, agents
    <2>2. CASE AgentAsks(r) \/ AgentAnswered(r) \/ AgentRefused(r)
      <3>1. PICK agent, ask : run' = [run EXCEPT ![r] = [run[r] EXCEPT !.agent = agent, !.ask = ask]]
        <4>1. CASE AgentAsks(r)
          BY <4>1 DEF AgentAsks, TypeInv, TypeOK
        <4>2. CASE AgentAnswered(r) \/ AgentRefused(r)
          <5>1. run' = [run EXCEPT ![r] = [run[r] EXCEPT !.agent = "works", !.ask = None]]
            BY <4>2 DEF AgentAnswered, AgentRefused, TypeInv, TypeOK
          <5> QED
            BY <5>1
        <4> QED
          BY <2>2, <4>1, <4>2
      <3> QED
        BY <1>2, <3>1 DEF TypeInv, TypeOK, RunStates
    <2>3. CASE AgentEnds(r) \/ ForwardLast(r)
      <3>1. PICK agent : run' = [run EXCEPT ![r] = [run[r] EXCEPT !.agent = agent]]
        BY <2>3 DEF AgentEnds, ForwardLast, TypeInv, TypeOK
      <3> QED
        BY <1>2, <3>1 DEF TypeInv, TypeOK, RunStates
    <2>4. CASE Timeout(r)
      BY <1>2, <2>4 DEF Timeout, TypeInv, TypeOK, RunStates
    <2> QED
      BY <2>1, <2>2, <2>3, <2>4
  <1> QED
    BY <1>1, <1>3, <1>4

(* A request takes up the entry that is in the map, maybe one it made.      *)
LEMMA HoldEntry ==
    ASSUME TypeInv, EntryInv, NEW c \in Clients, req[c].pc \in {"lookup", "insert"},
           Hold(c, entry'), entry' # None, entry' = entry \/ entry = None,
           UNCHANGED <<removed, running, overlapped, run>>
    PROVE  EntryInv'
  <1> DEFINE q == [req[c] EXCEPT !.e = entry', !.pc = AfterLookup(req[c].op), !.found = FALSE]
  <1>1. q.e = entry' /\ q.op = req[c].op /\ (q.op = "chat" => q.pc = "mark")
    BY DEF TypeInv, TypeOK, Requests, AfterLookup
  <1>2. req' = [req EXCEPT ![c] = q]
    BY DEF Hold, TypeInv, TypeOK
  <1> HIDE DEF q
  <1>3. req'[c] = q /\ \A d \in Clients \ {c} : req'[d] = req[d]
    BY <1>2 DEF TypeInv, TypeOK
  <1>4. HeldIsListed' /\ ListedInv'
    BY <1>1, <1>3 DEF EntryInv, HeldIsListed, ListedInv
  <1>5. \A d \in Clients : Marked(d)' => Marked(d) /\ req'[d] = req[d]
    BY <1>1, <1>3 DEF Marked
  <1>6. SharingInv' /\ RunningInv'
    BY <1>5 DEF EntryInv, SharingInv, RunningInv
  <1>7. EvictionSparesWork'
    BY HeldTypes, NoneIsNoEntry DEF EntryInv, EvictionSparesWork
  <1> QED
    BY <1>4, <1>6, <1>7 DEF EntryInv

LEMMA LookupEntry ==
    ASSUME TypeInv, EntryInv, TypeInv', NEW c \in Clients, Lookup(c) \/ Insert(c)
    PROVE  EntryInv'
  <1> USE DEF At, registry, fields, agents
  <1>1. CASE Lookup(c) /\ entry = None
    BY <1>1, CalmRequests, CalmStep DEF Lookup
  <1>2. CASE Lookup(c) /\ entry # None
    BY <1>2, HoldEntry DEF Lookup
  <1>3. CASE Insert(c) /\ entry # None
    BY <1>3, HoldEntry DEF Insert
  <1>4. CASE Insert(c) /\ entry = None
    <2>1. entry' = made + 1 /\ Hold(c, entry') /\ entry' # None
      BY <1>4, Numbers DEF Insert, InsertNew, TypeInv, None
    <2> QED
      BY <1>4, <2>1, HoldEntry DEF Insert
  <1> QED
    BY <1>1, <1>2, <1>3, <1>4

LEMMA MarkEntry ==
    ASSUME TypeInv, EntryInv, NEW c \in Clients, Mark(c)
    PROVE  EntryInv'
  <1> USE DEF At, registry, agents
  <1> DEFINE e == req[c].e
  <1>1. req[c] \in Requests /\ Sound(req[c])
    BY DEF TypeInv, TypeOK, RequestInv
  <1>2. PICK q \in {[req[c] EXCEPT !.pc = "meta"], NoRequest} : req' = [req EXCEPT ![c] = q]
    BY DEF Mark, Goto, Respond, TypeInv, TypeOK
  <1>3. q.e \in {None, e} /\ (q.op = "chat" => q.e = e) /\ req[c].pc = "mark" /\ e \in Entries
    BY <1>1 DEF Mark, Sound, Requests, NoRequest
  <1>4. /\ req'[c].e \in {None, e} /\ (Marked(c)' => req'[c].e = e)
        /\ \A d \in Clients \ {c} : req'[d] = req[d]
    BY <1>2, <1>3 DEF TypeInv, TypeOK, Marked
  <1>5. /\ overlapped \subseteq overlapped' /\ (Chatting(e) => e \in overlapped')
        /\ running'[e] = TRUE /\ \A f \in Entries \ {e} : running'[f] = running[f]
        /\ UNCHANGED <<entry, removed, run>>
    BY <1>3 DEF Mark, TypeInv, TypeOK
  <1>6. HeldIsListed' /\ ListedInv'
    BY <1>3, <1>4, <1>5 DEF EntryInv, HeldIsListed, ListedInv
  <1>7. SharingInv'
    <2>1. \A d \in Clients \ {c} : Marked(d)' => Marked(d) /\ req'[d] = req[d]
      BY <1>4 DEF Marked
    <2>2. \A d \in Clients \ {c} : Marked(d)' /\ req'[d].e = e => e \in overlapped'
      BY <1>5, <2>1 DEF Chatting, Marked
    <2>3. \A r \in Runs : run[r].forwards /\ run[r].e = e => e \in overlapped'
      BY <1>5 DEF Chatting
    <2>4. \A d, f \in Clients :
             d # f /\ Marked(d)' /\ Marked(f)' /\ req'[d].e = req'[f].e => req'[d].e \in overlapped'
      BY <1>3, <1>4, <1>5, <2>1, <2>2 DEF EntryInv, SharingInv
    <2>5. \A d \in Clients : \A r \in Runs :
             Marked(d)' /\ run'[r].forwards /\ req'[d].e = run'[r].e => run'[r].e \in overlapped'
      BY <1>3, <1>4, <1>5, <2>1, <2>3 DEF EntryInv, SharingInv
    <2>6. \A s, r \in Runs :
             s # r /\ run'[s].forwards /\ run'[r].forwards /\ run'[s].e = run'[r].e
                => run'[r].e \in overlapped'
      BY <1>5 DEF EntryInv, SharingInv
    <2> QED
      BY <2>4, <2>5, <2>6 DEF SharingInv
  <1>8. RunningInv'
    <2>1. \A d \in Clients : Marked(d)' => req'[d].e \in Entries
      <3>1. ASSUME NEW d \in Clients, Marked(d)', d # c
            PROVE  req'[d].e \in Entries
        <4>1. Marked(d) /\ req'[d] = req[d] /\ req[d] \in Requests /\ Sound(req[d])
          BY <1>4, <3>1 DEF Marked, TypeInv, TypeOK, RequestInv
        <4> QED
          BY <4>1 DEF Marked, Sound, Requests
      <3> QED
        BY <1>3, <1>4, <3>1
    <2>2. \A r \in Runs : run'[r].forwards => run'[r].e \in Entries
      BY <1>5, HeldTypes
    <2>3. \A d \in Clients : Marked(d)' => req'[d].e \in overlapped' \/ running'[req'[d].e]
      BY <1>3, <1>4, <1>5, <2>1 DEF EntryInv, RunningInv, Marked
    <2>4. \A r \in Runs : run'[r].forwards => run'[r].e \in overlapped' \/ running'[run'[r].e]
      BY <1>5, <2>2 DEF EntryInv, RunningInv
    <2> QED
      BY <2>3, <2>4 DEF RunningInv
  <1>9. EvictionSparesWork'
    BY <1>5 DEF EntryInv, EvictionSparesWork
  <1> QED
    BY <1>6, <1>7, <1>8, <1>9 DEF EntryInv

(* The run a chat starts, and what becomes of the request.                  *)
LEMMA StartRunFrame ==
    ASSUME TypeInv, NEW c \in Clients, StartRun(c), req[c].op = "chat",
           req[c].pc \in {"meta", "touch"}
    PROVE  /\ Marked(c) /\ ~Marked(c)' /\ req'[c].e = req[c].e /\ req'[c].pc = "reading"
           /\ req'[c].ask = req[c].ask
           /\ \A d \in Clients \ {c} : req'[d] = req[d]
           /\ runs + 1 \in Runs
           /\ run'[runs + 1].e = req[c].e /\ run'[runs + 1].forwards = TRUE
           /\ run'[runs + 1].agent = "works" /\ run'[runs + 1].ask = None
           /\ \A r \in Runs \ {runs + 1} : run'[r] = run[r]
  <1>1. req[c] \in Requests /\ Sound(req[c])
    BY DEF TypeInv, TypeOK, RequestInv
  <1>2. runs + 1 \in Runs
    <2>1. c \in NotStarted
      BY <1>1 DEF NotStarted, Sound
    <2>2. Cardinality(NotStarted) \in Nat /\ Cardinality(NotStarted) # 0
      BY <2>1, FS_CardinalityType, FS_EmptySet DEF CountInv, TypeInv
    <2> QED
      BY <2>2, Numbers DEF CountInv, Runs, TypeInv
  <1> DEFINE q == [req[c] EXCEPT !.pc = "reading", !.run = runs + 1]
             r == [NoRun EXCEPT !.e = req[c].e, !.agent = "works", !.forwards = TRUE]
  <1>3. req' = [req EXCEPT ![c] = q] /\ run' = [run EXCEPT ![runs + 1] = r]
    BY DEF StartRun, TypeInv, TypeOK
  <1>4. q.pc = "reading" /\ q.e = req[c].e /\ q.ask = req[c].ask
    BY <1>1 DEF Requests
  <1>5. r.e = req[c].e /\ r.forwards = TRUE /\ r.agent = "works" /\ r.ask = None
    BY DEF NoRun
  <1> HIDE DEF q, r
  <1>6. req'[c] = q /\ \A d \in Clients \ {c} : req'[d] = req[d]
    BY <1>3 DEF TypeInv, TypeOK
  <1>7. run'[runs + 1] = r /\ \A s \in Runs \ {runs + 1} : run'[s] = run[s]
    BY <1>2, <1>3 DEF TypeInv, TypeOK
  <1> QED
    BY <1>2, <1>4, <1>5, <1>6, <1>7 DEF Marked

LEMMA StartRunEntry ==
    ASSUME TypeInv, EntryInv, NEW c \in Clients, StartRun(c), req[c].op = "chat",
           req[c].pc \in {"meta", "touch"}, UNCHANGED <<entry, removed, running, overlapped>>
    PROVE  EntryInv'
  <1> DEFINE n == runs + 1
  <1>1. /\ Marked(c) /\ ~Marked(c)' /\ req'[c].e = req[c].e /\ req'[c].pc = "reading"
        /\ \A d \in Clients \ {c} : req'[d] = req[d]
        /\ n \in Runs /\ run'[n].e = req[c].e
        /\ \A r \in Runs \ {n} : run'[r] = run[r]
    BY StartRunFrame
  <1> HIDE DEF n
  <1>2. \A d \in Clients \ {c} : Marked(d)' <=> Marked(d)
    BY <1>1 DEF Marked
  <1>3. HeldIsListed'
    BY <1>1 DEF EntryInv, HeldIsListed
  <1>4. ListedInv'
    BY <1>1 DEF EntryInv, ListedInv
  <1>5. SharingInv'
    <2>1. \A d, f \in Clients :
             d # f /\ Marked(d)' /\ Marked(f)' /\ req'[d].e = req'[f].e => req'[d].e \in overlapped'
      BY <1>1, <1>2 DEF EntryInv, SharingInv
    <2>2. \A d \in Clients : \A r \in Runs :
             Marked(d)' /\ run'[r].forwards /\ req'[d].e = run'[r].e => run'[r].e \in overlapped'
      BY <1>1, <1>2 DEF EntryInv, SharingInv
    <2>3. \A s, r \in Runs :
             s # r /\ run'[s].forwards /\ run'[r].forwards /\ run'[s].e = run'[r].e
                => run'[r].e \in overlapped'
      BY <1>1, <1>2 DEF EntryInv, SharingInv
    <2> QED
      BY <2>1, <2>2, <2>3 DEF SharingInv
  <1>6. RunningInv'
    <2>1. \A d \in Clients : Marked(d)' => req'[d].e \in overlapped' \/ running'[req'[d].e]
      BY <1>1, <1>2 DEF EntryInv, RunningInv
    <2>2. \A r \in Runs : run'[r].forwards => run'[r].e \in overlapped' \/ running'[run'[r].e]
      BY <1>1 DEF EntryInv, RunningInv
    <2> QED
      BY <2>1, <2>2 DEF RunningInv
  <1>7. EvictionSparesWork'
    <2>1. req[c].e = entry \/ removed[req[c].e] \in Deleted
      <3>1. req[c].e # None /\ req[c].pc # "reading"
        BY <1>1 DEF Marked, Sound, TypeInv, RequestInv
      <3> QED
        BY <3>1 DEF EntryInv, ListedInv
    <2> QED
      BY <1>1, <2>1 DEF EntryInv, EvictionSparesWork, Deleted
  <1> QED
    BY <1>3, <1>4, <1>5, <1>6, <1>7 DEF EntryInv

(* The run whose goroutine stops, and what becomes of the others.           *)
LEMMA StopFrame ==
    ASSUME TypeInv, NEW r \in Runs, run[r].forwards, StopForwarding(r)
    PROVE  /\ run[r].e \in Entries
           /\ run'[r].forwards = FALSE /\ run'[r].e = run[r].e /\ run'[r].ask = run[r].ask
           /\ run'[r].agent = "asks" => run[r].agent = "asks"
           /\ \A q \in Runs \ {r} : run'[q] = run[q]
           /\ running'[run[r].e] = FALSE /\ pending'[run[r].e] = None
           /\ \A e \in Entries \ {run[r].e} :
                 running'[e] = running[e] /\ pending'[e] = pending[e]
  <1>1. run[r] \in RunStates
    BY DEF TypeInv, TypeOK
  <1>2. run[r].e \in Entries
    BY HeldTypes
  <1>3. /\ run'[r].forwards = FALSE /\ run'[r].e = run[r].e /\ run'[r].ask = run[r].ask
        /\ run'[r].agent = "asks" => run[r].agent = "asks"
    BY <1>1 DEF StopForwarding, TypeInv, TypeOK, RunStates
  <1>4. \A q \in Runs \ {r} : run'[q] = run[q]
    BY DEF StopForwarding, TypeInv, TypeOK
  <1>5. /\ running'[run[r].e] = FALSE /\ pending'[run[r].e] = None
        /\ \A e \in Entries \ {run[r].e} :
              running'[e] = running[e] /\ pending'[e] = pending[e]
    BY <1>2 DEF StopForwarding, TypeInv, TypeOK
  <1> QED
    BY <1>2, <1>3, <1>4, <1>5

LEMMA StopEntry ==
    ASSUME TypeInv, EntryInv, NEW r \in Runs, ForwardToNobody(r) \/ Finish(r)
    PROVE  EntryInv'
  <1> USE DEF registry
  <1>1. /\ run[r].forwards /\ StopForwarding(r)
        /\ UNCHANGED <<entry, removed, req, overlapped>>
    BY DEF ForwardToNobody, Finish
  <1>2. /\ run[r].e \in Entries /\ run'[r].forwards = FALSE
        /\ \A q \in Runs \ {r} : run'[q] = run[q]
        /\ \A e \in Entries \ {run[r].e} : running'[e] = running[e]
    BY <1>1, StopFrame
  <1>3. \A c \in Clients : Marked(c)' <=> Marked(c)
    BY <1>1 DEF Marked
  <1>4. HeldIsListed' /\ ListedInv'
    BY <1>1 DEF EntryInv, HeldIsListed, ListedInv
  <1>5. SharingInv'
    BY <1>1, <1>2, <1>3 DEF EntryInv, SharingInv
  <1>6. RunningInv'
    <2>1. ASSUME NEW c \in Clients, Marked(c)
          PROVE  req[c].e \in overlapped \/ running'[req[c].e]
      <3>1. req[c].e \in Entries
        BY <2>1 DEF Marked, TypeInv, TypeOK, RequestInv, Sound, Requests
      <3>2. req[c].e = run[r].e => req[c].e \in overlapped
        BY <1>1, <2>1 DEF EntryInv, SharingInv
      <3> QED
        BY <1>2, <2>1, <3>1, <3>2 DEF EntryInv, RunningInv
    <2>2. ASSUME NEW q \in Runs, q # r, run[q].forwards
          PROVE  run[q].e \in overlapped \/ running'[run[q].e]
      <3>1. run[q].e \in Entries
        BY <2>2, HeldTypes
      <3>2. run[q].e = run[r].e => run[q].e \in overlapped
        BY <1>1, <2>2 DEF EntryInv, SharingInv
      <3> QED
        BY <1>2, <2>2, <3>1, <3>2 DEF EntryInv, RunningInv
    <2> QED
      BY <1>1, <1>2, <1>3, <2>1, <2>2 DEF RunningInv
  <1>7. EvictionSparesWork'
    BY <1>1, <1>2 DEF EntryInv, EvictionSparesWork
  <1> QED
    BY <1>4, <1>5, <1>6, <1>7 DEF EntryInv

(* An entry leaves the map. *)
LEMMA DropFrame ==
    ASSUME TypeInv, NEW how \in {"evicted", "deleted", "half deleted"}, Drop(how)
    PROVE  /\ \A e \in Entries : e # entry => removed'[e] = removed[e]
           /\ entry # None => entry \in Entries /\ removed'[entry] = how
  <1>1. entry # None => entry \in Entries
    BY Numbers DEF TypeInv
  <1> QED
    BY <1>1 DEF Drop, TypeInv, TypeOK

LEMMA UnlistEntry ==
    ASSUME TypeInv, EntryInv, NEW c \in Clients, Unlist(c)
    PROVE  EntryInv'
  <1> USE DEF fields, agents
  <1>1. PICK how \in {"deleted", "half deleted"} : Drop(how)
    BY DEF Unlist
  <1>2. /\ \A e \in Entries : e # entry => removed'[e] = removed[e]
        /\ entry # None => entry \in Entries /\ removed'[entry] = how
        /\ how \in Deleted /\ UNCHANGED <<running, run, overlapped>>
    BY <1>1, DropFrame DEF Unlist, Deleted
  <1>3. \A d \in Clients : Calm(d)
    BY CalmRequests
  <1>4. HeldIsListed' /\ ListedInv'
    <2>1. ASSUME NEW d \in Clients, req'[d].e # None
          PROVE  /\ removed'[req'[d].e] # "no"
                 /\ req'[d].pc # "reading" => removed'[req'[d].e] \in Deleted
      <3>1. req'[d].e = req[d].e /\ (req'[d].pc = "reading" \/ req[d].pc # "reading")
        BY <1>3, <2>1 DEF Calm
      <3>2. req[d].e \in Entries
        BY <2>1, <3>1, HeldTypes
      <3>3. CASE req[d].e = entry
        BY <1>2, <2>1, <3>1, <3>3 DEF Deleted
      <3>4. CASE req[d].e # entry
        BY <1>2, <2>1, <3>1, <3>2, <3>4 DEF EntryInv, HeldIsListed, ListedInv
      <3> QED
        BY <3>3, <3>4
    <2> QED
      BY <2>1 DEF HeldIsListed, ListedInv
  <1>5. SharingInv' /\ RunningInv'
    <2>1. \A d \in Clients : Marked(d)' => Marked(d) /\ req'[d].e = req[d].e
      BY <1>3 DEF Calm, Marked
    <2> QED
      BY <1>2, <2>1 DEF EntryInv, SharingInv, RunningInv
  <1>6. EvictionSparesWork'
    <2>1. ASSUME NEW r \in Runs, run[r].forwards, run[r].e \notin overlapped
          PROVE  removed'[run[r].e] \in Deleted
      <3>1. CASE run[r].e = entry
        BY <1>2, <2>1, <3>1, HeldTypes, NoneIsNoEntry
      <3>2. CASE run[r].e # entry
        BY <1>2, <2>1, <3>2, HeldTypes DEF EntryInv, EvictionSparesWork, Deleted
      <3> QED
        BY <3>1, <3>2
    <2> QED
      BY <1>2, <2>1 DEF EvictionSparesWork, Deleted
  <1> QED
    BY <1>4, <1>5, <1>6 DEF EntryInv

LEMMA EvictEntry ==
    ASSUME TypeInv, EntryInv, evictIdle
    PROVE  EntryInv'
  <1> USE DEF fields, agents
  <1>1. Drop("evicted") /\ entry # None /\ ~running[entry]
        /\ UNCHANGED <<running, run, req, overlapped>>
    BY DEF evictIdle, isActive
  <1>2. /\ \A e \in Entries : e # entry => removed'[e] = removed[e]
        /\ entry \in Entries /\ removed'[entry] = "evicted"
    BY <1>1, DropFrame
  <1>3. HeldIsListed'
    BY <1>1, <1>2, HeldTypes DEF EntryInv, HeldIsListed
  <1>4. ListedInv'
    <2>1. \A c \in Clients : req[c].pc = "reading" \/ req[c].e = None
      BY DEF evictIdle, IdleTime, TypeInv, RequestInv, Sound
    <2> QED
      BY <1>1, <2>1 DEF ListedInv
  <1>5. SharingInv' /\ RunningInv'
    BY <1>1 DEF EntryInv, SharingInv, RunningInv, Marked
  <1>6. EvictionSparesWork'
    <2>1. \A r \in Runs : run[r].forwards /\ run[r].e \notin overlapped => run[r].e # entry
      BY <1>1 DEF EntryInv, RunningInv
    <2> QED
      BY <1>1, <1>2, <2>1, HeldTypes DEF EntryInv, EvictionSparesWork
  <1> QED
    BY <1>3, <1>4, <1>5, <1>6 DEF EntryInv

LEMMA ServerEntry ==
    ASSUME TypeInv, EntryInv, TypeInv',
           create \/ SaveLands \/ SavesEnd \/ evictIdle \/ Restart \/ UNCHANGED vars
    PROVE  EntryInv'
  <1> USE DEF registry, fields, agents
  <1>1. CASE SaveLands \/ SavesEnd \/ UNCHANGED vars
    <2>1. UNCHANGED <<req, run, entry, removed, running, overlapped>>
      BY <1>1 DEF SaveLands, SavesEnd, vars
    <2>2. \A d \in Clients : Calm(d)
      BY <2>1 DEF Calm, Marked
    <2> QED
      BY <2>1, <2>2, CalmStep
  <1>2. CASE create
    <2>1. UNCHANGED <<req, run, removed, running, overlapped>> /\ made = 0
      BY <1>2 DEF create
    <2>2. entry = None
      BY <2>1, Numbers DEF TypeInv, None
    <2>3. HeldIsListed' /\ ListedInv'
      BY <2>1, <2>2 DEF EntryInv, HeldIsListed, ListedInv
    <2>4. SharingInv' /\ RunningInv'
      BY <2>1 DEF EntryInv, SharingInv, RunningInv, Marked
    <2>5. EvictionSparesWork'
      <3>1. \A r \in Runs : run[r].forwards => run[r].e # None
        BY HeldTypes DEF Entries, None
      <3> QED
        BY <2>1, <2>2, <3>1 DEF EntryInv, EvictionSparesWork
    <2> QED
      BY <2>3, <2>4, <2>5 DEF EntryInv
  <1>3. CASE Restart
    <2>1. /\ \A c \in Clients : req'[c].e = None /\ req'[c].op = "none"
          /\ \A r \in Runs : run'[r].forwards = FALSE
      BY <1>3 DEF Restart, NoRequest, NoRun
    <2> QED
      BY <2>1 DEF EntryInv, HeldIsListed, ListedInv, SharingInv, RunningInv,
         EvictionSparesWork, Marked
  <1> QED
    BY <1>1, <1>2, <1>3, EvictEntry

LEMMA RequestEntry ==
    ASSUME TypeInv, EntryInv, TypeInv', NEW c \in Clients,
           BeginAny(c) \/ RequestStep(c) \/ Disconnect(c)
    PROVE  EntryInv'
  <1> USE DEF registry, fields, agents
  <1>1. CASE \/ BeginAny(c) \/ Peek(c) \/ Fetch(c) \/ Disconnect(c) \/ EndResponse(c)
             \/ Take(c) \/ Send(c) \/ Unstore(c) \/ RemoveTopic(c)
    <2>1. UNCHANGED <<entry, removed, running, run, overlapped>>
      BY <1>1 DEF BeginAny, Begin, Peek, Fetch, Disconnect, EndResponse, Take, Send, Unstore,
         RemoveTopic
    <2>2. \A d \in Clients : Calm(d)
      BY <1>1, CalmRequests
    <2> QED
      BY <2>1, <2>2, CalmStep
  <1>2. CASE Meta(c) \/ Touch(c)
    <2>1. UNCHANGED <<entry, removed, running, overlapped>> /\ req[c].pc \in {"meta", "touch"}
      BY <1>2 DEF Meta, Touch, At
    <2>2. UNCHANGED agents \/ (req[c].op = "chat" /\ StartRun(c))
      BY <1>2 DEF Meta, Touch, AfterMeta
    <2>3. CASE UNCHANGED agents
      <3>1. \A d \in Clients : Calm(d)
        BY <1>2, <2>3, CalmRequests
      <3> QED
        BY <2>1, <2>3, <3>1, CalmStep
    <2>4. CASE req[c].op = "chat" /\ StartRun(c)
      BY <2>1, <2>4, StartRunEntry
    <2> QED
      BY <2>2, <2>3, <2>4
  <1> QED
    BY <1>1, <1>2, LookupEntry, MarkEntry, UnlistEntry DEF RequestStep

LEMMA RunEntry ==
    ASSUME TypeInv, EntryInv, TypeInv', NEW r \in Runs, RunStep(r) \/ AgentPublishes(r)
    PROVE  EntryInv'
  <1> USE DEF registry, fields
  <1>1. CASE \/ AgentPublishes(r) \/ AgentAsks(r) \/ AgentAnswered(r) \/ AgentRefused(r)
             \/ AgentEnds(r) \/ Timeout(r) \/ ForwardLast(r)
    <2>1. UNCHANGED <<entry, removed, running, overlapped>>
      BY <1>1 DEF AgentPublishes, AgentAsks, AgentAnswered, AgentRefused, AgentEnds, Timeout,
         ForwardLast
    <2> QED
      BY <1>1, <2>1, CalmRuns, CalmStep
  <1> QED
    BY <1>1, StopEntry DEF RunStep

LEMMA EntryStep == TypeInv /\ EntryInv /\ TypeInv' /\ [Next]_vars => EntryInv'
  BY RequestEntry, RunEntry, ServerEntry DEF Next

(* Whoever works with an entry works with the one in the map, unless it was *)
(* taken out.                                                               *)
THEOREM Listed == Spec => []HeldIsListed
  <1>1. TypeInv /\ EntryInv => HeldIsListed
    BY DEF EntryInv
  <1> QED
    BY <1>1, TypeInit, TypeStep, InitEntry, EntryStep, PTL DEF Spec

(* The janitor never takes an entry from under a chat. *)
THEOREM EvictionSafe == Spec => []EvictionSparesWork
  <1>1. TypeInv /\ EntryInv => EvictionSparesWork
    BY DEF EntryInv
  <1> QED
    BY <1>1, TypeInit, TypeStep, InitEntry, EntryStep, PTL DEF Spec

-----------------------------------------------------------------------------
(* Approvals *)

(* No approval is asked for, and none gets into another place. *)
Settling ==
    /\ asks' = asks
    /\ \A e \in Entries : pending'[e] \in {pending[e], None}
    /\ \A c \in Clients : req'[c].ask \in {req[c].ask, None}
    /\ \A a \in Asks : answer'[a] => answer[a]
    /\ \A r \in Runs : run'[r].ask \in {run[r].ask, None}
    /\ \A r \in Runs : run'[r].agent = "asks" => run[r].agent = "asks" /\ run'[r].ask = run[r].ask

(* What a run that waits relies on stays where it is. *)
Undisturbed ==
    \A r \in Runs :
        run'[r].agent = "asks" /\ run'[r].forwards /\ run'[r].e \notin overlapped' \cup stray' =>
            /\ run[r].agent = "asks" /\ run[r].forwards
            /\ run[r].e \notin overlapped \cup stray
            /\ run'[r].e = run[r].e /\ run'[r].ask = run[r].ask
            /\ pending'[run[r].e] = pending[run[r].e]
            /\ answer[run[r].ask] => answer'[run[r].ask]
            /\ \A c \in Clients : req[c].ask = run[r].ask => req'[c].ask = run[r].ask

(* Where approvals may be. *)
LEMMA AskTypes ==
    ASSUME TypeInv
    PROVE  /\ \A e \in Entries : pending[e] # None => pending[e] \in Asks
           /\ \A c \in Clients : req[c].ask # None => req[c].ask \in Asks
           /\ \A r \in Runs : run[r].ask # None => run[r].ask \in Asks
           /\ None \notin Asks /\ asks \in Nat
  <1>1. \A c \in Clients : req[c] \in Requests
    BY DEF TypeInv, TypeOK
  <1>2. \A r \in Runs : run[r] \in RunStates
    BY DEF TypeInv, TypeOK
  <1>3. \A e \in Entries : pending[e] \in Asks \cup {None}
    BY DEF TypeInv, TypeOK
  <1>4. None \notin Asks /\ asks \in Nat
    BY Numbers DEF None, Asks, TypeInv
  <1> QED
    BY <1>1, <1>2, <1>3, <1>4 DEF Requests, RunStates

LEMMA SettlingAsks ==
    ASSUME TypeInv, AskInv, Settling
    PROVE  AskInv'
  <1> USE DEF Settling
  <1>1. ASSUME NEW e \in Entries, pending'[e] # None
        PROVE  /\ pending'[e] <= asks'
               /\ ~answer'[pending'[e]]
               /\ \A f \in Entries \ {e} : pending'[f] # pending'[e]
               /\ \A c \in Clients : req'[c].ask # pending'[e]
    BY <1>1, AskTypes DEF AskInv
  <1>2. ASSUME NEW c \in Clients, req'[c].ask # None
        PROVE  /\ req'[c].ask <= asks'
               /\ ~answer'[req'[c].ask]
               /\ \A d \in Clients \ {c} : req'[d].ask # req'[c].ask
    BY <1>2, AskTypes DEF AskInv
  <1>3. \A a \in Asks : answer'[a] => a <= asks'
    BY DEF AskInv
  <1>4. ASSUME NEW r \in Runs, run'[r].ask # None
        PROVE  /\ run'[r].ask <= asks'
               /\ \A q \in Runs \ {r} : run'[q].ask # run'[r].ask
    BY <1>4 DEF AskInv
  <1>5. \A r \in Runs : run'[r].agent = "asks" => run'[r].ask # None
    BY DEF AskInv
  <1> QED
    BY <1>1, <1>2, <1>3, <1>4, <1>5 DEF AskInv

LEMMA UndisturbedAnswerable ==
    ASSUME TypeInv', AskInv', Answerable, Undisturbed
    PROVE  Answerable'
  <1>1. ASSUME NEW c \in Clients, At(c, "send")'
        PROVE  ~answer'[req'[c].ask]
    BY <1>1 DEF TypeInv, TypeOK, AskInv, At
  <1>2. ASSUME NEW r \in Runs, run'[r].agent = "asks", run'[r].forwards,
               run'[r].e \notin overlapped' \cup stray'
        PROVE  \/ pending'[run'[r].e] = run'[r].ask
               \/ answer'[run'[r].ask]
               \/ \E c \in Clients : req'[c].ask = run'[r].ask
    BY <1>2 DEF Undisturbed, Answerable
  <1> QED
    BY <1>1, <1>2 DEF Answerable

LEMMA InitAsks == Init => AskInv /\ Answerable
  <1> SUFFICES ASSUME Init PROVE AskInv /\ Answerable
    OBVIOUS
  <1>1. \A c \in Clients : req[c].ask = None /\ req[c].pc = "idle"
    BY DEF Init, NoRequest
  <1>2. \A r \in Runs : run[r].ask = None /\ run[r].agent = "off"
    BY DEF Init, NoRun
  <1>3. /\ \A e \in Entries : pending[e] = None
        /\ \A a \in Asks : answer[a] = FALSE
    BY DEF Init
  <1> QED
    BY <1>1, <1>2, <1>3 DEF AskInv, Answerable, At

(* A request whose step leaves approvals alone. *)
LEMMA OtherRequests ==
    ASSUME TypeInv, NEW c \in Clients,
           \/ BeginAny(c) \/ Peek(c) \/ Lookup(c) \/ Fetch(c) \/ Insert(c) \/ Mark(c) \/ Meta(c)
           \/ Touch(c) \/ Disconnect(c) \/ EndResponse(c) \/ Unstore(c) \/ Unlist(c) \/ RemoveTopic(c)
    PROVE  \A d \in Clients : req'[d].ask = req[d].ask
  <1> USE DEF At
  <1>1. /\ req[c] \in Requests /\ Sound(req[c]) /\ NoRequest.ask = None
        /\ req[c].pc # "send" => req[c].ask = None
    BY DEF TypeInv, TypeOK, RequestInv, NoRequest
  <1>2. ASSUME NEW q, req' = [req EXCEPT ![c] = q], q.ask = req[c].ask
        PROVE  \A d \in Clients : req'[d].ask = req[d].ask
    BY <1>2 DEF TypeInv, TypeOK
  <1>3. CASE Respond(c) /\ req[c].pc # "send"
    BY <1>1, <1>2, <1>3 DEF Respond
  <1>4. CASE \E pc : Goto(c, pc)
    <2>1. PICK pc : req' = [req EXCEPT ![c] = [req[c] EXCEPT !.pc = pc]]
      BY <1>4 DEF Goto, TypeInv, TypeOK
    <2> QED
      BY <1>1, <1>2, <2>1 DEF Requests
  <1>5. CASE \E e : Hold(c, e)
    <2>1. PICK e : req' = [req EXCEPT ![c] = [req[c] EXCEPT !.e = e, !.pc = AfterLookup(req[c].op),
                                                          !.found = FALSE]]
      BY <1>5 DEF Hold, TypeInv, TypeOK
    <2>2. [req[c] EXCEPT !.e = e, !.pc = AfterLookup(req[c].op), !.found = FALSE].ask = req[c].ask
      BY <1>1 DEF Requests
    <2> QED
      BY <1>2, <2>1, <2>2
  <1>6. CASE BeginAny(c)
    <2>1. ASSUME NEW op, NEW pc, Begin(c, op, pc)
          PROVE  \A d \in Clients : req'[d].ask = req[d].ask
      <3>1. req' = [req EXCEPT ![c] = [req[c] EXCEPT !.op = op, !.pc = pc]]
        BY <2>1 DEF Begin, TypeInv, TypeOK
      <3> QED
        BY <1>1, <1>2, <3>1 DEF Requests
    <2> QED
      BY <1>6, <2>1 DEF BeginAny
  <1>7. CASE Fetch(c) \/ Unstore(c)
    <2>1. PICK found : \/ req' = [req EXCEPT ![c] = [req[c] EXCEPT !.pc = "insert", !.found = found]]
                       \/ req' = [req EXCEPT ![c] = [req[c] EXCEPT !.pc = "drop", !.found = found]]
      BY <1>7 DEF Fetch, Unstore, TypeInv, TypeOK
    <2> QED
      BY <1>1, <1>2, <2>1 DEF Requests
  <1>8. CASE Disconnect(c)
    <2>1. req' = [req EXCEPT ![c] = [req[c] EXCEPT !.left = TRUE]]
      BY <1>8 DEF Disconnect, TypeInv, TypeOK
    <2> QED
      BY <1>1, <1>2, <2>1 DEF Requests
  <1>9. CASE RemoveTopic(c)
    <2>1. req[c].pc = "topic" /\ req'[c] = NoRequest
          /\ \A d \in Clients \ {c} : req'[d].ask = req[d].ask
      BY <1>9, RemoveTopicFrame DEF RemoveTopic, TypeInv
    <2> QED
      BY <1>1, <2>1
  <1>10. CASE Meta(c) \/ Touch(c)
    <2>1. CASE req[c].op = "chat" /\ StartRun(c)
      BY <1>10, <2>1, StartRunFrame DEF Meta, Touch
    <2> QED
      BY <1>3, <1>4, <1>10, <2>1 DEF Meta, Touch, AfterMeta
  <1>11. CASE Peek(c) \/ Mark(c) \/ Unlist(c)
    BY <1>3, <1>4, <1>11 DEF Peek, Mark, Unlist
  <1>12. CASE Lookup(c) \/ Insert(c)
    BY <1>4, <1>5, <1>12 DEF Lookup, Insert, InsertNew
  <1>13. CASE EndResponse(c)
    BY <1>3, <1>13 DEF EndResponse
  <1> QED
    BY <1>6, <1>7, <1>8, <1>9, <1>10, <1>11, <1>12, <1>13

LEMMA RequestAsks ==
    ASSUME TypeInv, AskInv, Answerable, TypeInv', NEW c \in Clients,
           \/ BeginAny(c) \/ Peek(c) \/ Lookup(c) \/ Fetch(c) \/ Insert(c) \/ Mark(c) \/ Meta(c)
           \/ Touch(c) \/ Disconnect(c) \/ EndResponse(c) \/ Unstore(c) \/ Unlist(c) \/ RemoveTopic(c)
    PROVE  AskInv' /\ Answerable'
  <1> USE DEF registry, fields
  <1>1. \A d \in Clients : req'[d].ask = req[d].ask
    BY OtherRequests
  <1>2. UNCHANGED <<asks, answer, stray>>
    BY DEF BeginAny, Begin, Peek, Lookup, Fetch, Insert, InsertNew, Mark, Meta, Touch, AfterMeta,
       StartRun, Disconnect, EndResponse, Unstore, Unlist, RemoveTopic, agents
  <1>3. CASE UNCHANGED <<pending, run, overlapped>>
    <2>1. Settling /\ Undisturbed
      BY <1>1, <1>2, <1>3 DEF Settling, Undisturbed
    <2> QED
      BY <2>1, SettlingAsks, UndisturbedAnswerable
  <1>4. CASE Mark(c)
    <2>1. req[c].e \in Entries
      BY <1>4, HeldTypes DEF Mark, At, TypeInv, RequestInv, Sound
    <2>2. /\ pending'[req[c].e] = None
          /\ \A e \in Entries \ {req[c].e} : pending'[e] = pending[e]
          /\ overlapped \subseteq overlapped'
          /\ Chatting(req[c].e) => req[c].e \in overlapped'
          /\ run' = run
      BY <1>4, <2>1 DEF Mark, TypeInv, TypeOK, agents
    <2>3. Settling
      BY <1>1, <1>2, <2>2 DEF Settling
    <2>4. ASSUME NEW r \in Runs, run[r].forwards, run[r].e \notin overlapped'
          PROVE  pending'[run[r].e] = pending[run[r].e]
      <3>1. run[r].e # req[c].e
        BY <2>2, <2>4 DEF Chatting
      <3> QED
        BY <2>2, <2>4, <3>1, HeldTypes
    <2>5. Undisturbed
      BY <1>1, <1>2, <2>2, <2>4 DEF Undisturbed
    <2> QED
      BY <2>3, <2>5, SettlingAsks, UndisturbedAnswerable
  <1>5. CASE req[c].op = "chat" /\ StartRun(c) /\ (Meta(c) \/ Touch(c))
    <2>1. UNCHANGED <<pending, overlapped>> /\ req[c].pc \in {"meta", "touch"}
      BY <1>5 DEF Meta, Touch, At
    <2>2. /\ runs + 1 \in Runs
          /\ run'[runs + 1].agent = "works" /\ run'[runs + 1].ask = None
          /\ \A r \in Runs \ {runs + 1} : run'[r] = run[r]
      BY <1>5, <2>1, StartRunFrame
    <2>3. Settling /\ Undisturbed
      BY <1>1, <1>2, <2>1, <2>2 DEF Settling, Undisturbed
    <2> QED
      BY <2>3, SettlingAsks, UndisturbedAnswerable
  <1>6. CASE Meta(c) \/ Touch(c)
    BY <1>3, <1>5, <1>6 DEF Meta, Touch, AfterMeta, agents
  <1> QED
    BY <1>3, <1>4, <1>6 DEF BeginAny, Begin, Peek, Lookup, Fetch, Insert, Disconnect, EndResponse,
       Unstore, Unlist, RemoveTopic, agents

LEMMA TakeAsks ==
    ASSUME TypeInv, AskInv, Answerable, TypeInv', NEW c \in Clients, Take(c)
    PROVE  AskInv' /\ Answerable'
  <1> USE DEF registry, agents
  <1> DEFINE e == req[c].e
             a == pending[e]
  <1>1. req[c] \in Requests /\ req[c].pc = "take" /\ e \in Entries /\ req[c].ask = None
    BY HeldTypes DEF Take, At, TypeInv, TypeOK, RequestInv, Sound
  <1>2. /\ pending'[e] = None /\ \A f \in Entries \ {e} : pending'[f] = pending[f]
        /\ UNCHANGED <<run, asks, answer, stray, overlapped>>
    BY <1>1 DEF Take, TypeInv, TypeOK
  <1>3. req'[c].ask = a /\ \A d \in Clients \ {c} : req'[d].ask = req[d].ask
    <2>1. CASE a = None
      <3>1. req' = [req EXCEPT ![c] = NoRequest] /\ NoRequest.ask = None
        BY <2>1 DEF Take, Taken, Respond, NoRequest
      <3> QED
        BY <2>1, <3>1 DEF TypeInv, TypeOK
    <2>2. CASE a # None
      <3> DEFINE q == [req[c] EXCEPT !.pc = "send", !.ask = a]
      <3>1. req' = [req EXCEPT ![c] = q]
        BY <2>2 DEF Take, Taken, TypeInv, TypeOK
      <3>2. q.ask = a
        BY <1>1 DEF Requests
      <3> HIDE DEF q
      <3> QED
        BY <3>1, <3>2 DEF TypeInv, TypeOK
    <2> QED
      BY <2>1, <2>2
  <1> HIDE DEF a
  <1>4. a = pending[e]
    BY DEF a
  <1>5. AskInv'
    <2>1. ASSUME NEW f \in Entries, pending'[f] # None
          PROVE  /\ pending'[f] <= asks'
                 /\ ~answer'[pending'[f]]
                 /\ \A g \in Entries \ {f} : pending'[g] # pending'[f]
                 /\ \A d \in Clients : req'[d].ask # pending'[f]
      BY <1>1, <1>2, <1>3, <1>4, <2>1 DEF AskInv
    <2>2. ASSUME NEW d \in Clients, req'[d].ask # None
          PROVE  /\ req'[d].ask <= asks'
                 /\ ~answer'[req'[d].ask]
                 /\ \A b \in Clients \ {d} : req'[b].ask # req'[d].ask
      BY <1>1, <1>2, <1>3, <1>4, <2>2 DEF AskInv
    <2> QED
      BY <1>2, <2>1, <2>2 DEF AskInv
  <1>6. Answerable'
    <2>1. ASSUME NEW d \in Clients, At(d, "send")'
          PROVE  ~answer'[req'[d].ask]
      BY <1>5, <2>1 DEF TypeInv, TypeOK, AskInv, At
    <2>2. ASSUME NEW r \in Runs, run[r].agent = "asks", run[r].forwards,
                 run[r].e \notin overlapped \cup stray
          PROVE  \/ pending'[run[r].e] = run[r].ask
                 \/ answer[run[r].ask]
                 \/ \E d \in Clients : req'[d].ask = run[r].ask
      <3>1. run[r].e \in Entries /\ run[r].ask # None
        BY <2>2, HeldTypes DEF AskInv
      <3>2. CASE pending[run[r].e] = run[r].ask
        BY <1>2, <1>3, <1>4, <3>1, <3>2
      <3>3. CASE \E d \in Clients : req[d].ask = run[r].ask
        BY <1>1, <1>3, <3>1, <3>3
      <3> QED
        BY <2>2, <3>2, <3>3 DEF Answerable
    <2> QED
      BY <1>2, <2>1, <2>2 DEF Answerable
  <1> QED
    BY <1>5, <1>6

LEMMA SendAsks ==
    ASSUME TypeInv, AskInv, Answerable, TypeInv', NEW c \in Clients, Send(c)
    PROVE  AskInv' /\ Answerable'
  <1> USE DEF registry, fields
  <1> DEFINE a == req[c].ask
  <1>1. a # None /\ a \in Asks
    BY AskTypes DEF Send, At, TypeInv, TypeOK
  <1>2. /\ answer'[a] = TRUE /\ \A b \in Asks \ {a} : answer'[b] = answer[b]
        /\ UNCHANGED <<pending, run, asks, stray, overlapped>>
    BY <1>1 DEF Send, TypeInv, TypeOK
  <1>3. req'[c].ask = None /\ \A d \in Clients \ {c} : req'[d].ask = req[d].ask
    BY DEF Send, Respond, NoRequest, TypeInv, TypeOK
  <1>4. /\ a <= asks /\ \A d \in Clients \ {c} : req[d].ask # a
        /\ \A e \in Entries : pending[e] # a
    BY <1>1 DEF AskInv
  <1> HIDE DEF a
  <1>5. AskInv'
    <2>1. ASSUME NEW f \in Entries, pending'[f] # None
          PROVE  /\ pending'[f] <= asks'
                 /\ ~answer'[pending'[f]]
                 /\ \A g \in Entries \ {f} : pending'[g] # pending'[f]
                 /\ \A d \in Clients : req'[d].ask # pending'[f]
      BY <1>2, <1>3, <1>4, <2>1, AskTypes DEF AskInv
    <2>2. ASSUME NEW d \in Clients, req'[d].ask # None
          PROVE  /\ req'[d].ask <= asks'
                 /\ ~answer'[req'[d].ask]
                 /\ \A b \in Clients \ {d} : req'[b].ask # req'[d].ask
      BY <1>2, <1>3, <1>4, <2>2, AskTypes DEF AskInv
    <2>3. \A b \in Asks : answer'[b] => b <= asks'
      BY <1>1, <1>2, <1>4 DEF AskInv
    <2> QED
      BY <1>2, <2>1, <2>2, <2>3 DEF AskInv
  <1>6. Answerable'
    <2>1. ASSUME NEW d \in Clients, At(d, "send")'
          PROVE  ~answer'[req'[d].ask]
      BY <1>5, <2>1 DEF TypeInv, TypeOK, AskInv, At
    <2>2. ASSUME NEW r \in Runs, run[r].agent = "asks", run[r].forwards,
                 run[r].e \notin overlapped \cup stray
          PROVE  \/ pending[run[r].e] = run[r].ask
                 \/ answer'[run[r].ask]
                 \/ \E d \in Clients : req'[d].ask = run[r].ask
      <3>1. run[r].ask # None /\ run[r].ask \in Asks
        BY <2>2, AskTypes DEF AskInv
      <3>2. CASE run[r].ask = a
        BY <1>2, <3>2
      <3>3. CASE run[r].ask # a
        BY <1>2, <1>3, <2>2, <3>1, <3>3 DEF Answerable, a
      <3> QED
        BY <3>2, <3>3
    <2> QED
      BY <1>2, <2>1, <2>2 DEF Answerable
  <1> QED
    BY <1>5, <1>6

LEMMA AgentAsksAsks ==
    ASSUME TypeInv, EntryInv, AskInv, Answerable, TypeInv', NEW r \in Runs, AgentAsks(r)
    PROVE  AskInv' /\ Answerable'
  <1> USE DEF registry
  <1> DEFINE e == run[r].e
             n == asks + 1
  <1>1. run[r] \in RunStates /\ e \in Entries
    <2>1. run[r] \in RunStates /\ (e = None => run[r] = NoRun) /\ NoRun.agent # "works"
      BY DEF TypeInv, TypeOK, NoRun
    <2> QED
      BY <2>1 DEF AgentAsks, RunStates
  <1>2. /\ run'[r].agent = "asks" /\ run'[r].ask = n /\ run'[r].e = e
        /\ run'[r].forwards = run[r].forwards
        /\ \A q \in Runs \ {r} : run'[q] = run[q]
    <2> DEFINE q == [run[r] EXCEPT !.agent = "asks", !.ask = n]
    <2>1. run' = [run EXCEPT ![r] = q]
      BY DEF AgentAsks, TypeInv, TypeOK
    <2>2. q.agent = "asks" /\ q.ask = n /\ q.e = e /\ q.forwards = run[r].forwards
      BY <1>1 DEF RunStates
    <2> HIDE DEF q, n, e
    <2> QED
      BY <2>1, <2>2 DEF TypeInv, TypeOK
  <1>3. /\ pending'[e] = n /\ \A f \in Entries \ {e} : pending'[f] = pending[f]
        /\ asks' = n /\ UNCHANGED <<answer, req, overlapped>>
        /\ stray \subseteq stray' /\ (run[r].forwards \/ e \in stray')
    <2>1. pending' = [pending EXCEPT ![e] = n] /\ asks' = n
          /\ UNCHANGED <<answer, req, overlapped>>
          /\ stray' = IF run[r].forwards THEN stray ELSE stray \cup {e}
      BY DEF AgentAsks
    <2> HIDE DEF n, e
    <2> QED
      BY <1>1, <2>1 DEF TypeInv, TypeOK
  <1>4. n \in Asks /\ n \in Nat /\ asks \in Nat /\ n > asks /\ n # None
    BY Numbers DEF AgentAsks, Asks, None, TypeInv
  <1> HIDE DEF e, n
  <1>5. AskInv'
    <2>1. \A a \in Asks : a <= asks => a <= n /\ a # n
      BY <1>4 DEF Asks, n
    <2>2. /\ \A f \in Entries : pending[f] # n
          /\ \A c \in Clients : req[c].ask # n
          /\ \A q \in Runs : run[q].ask # n
          /\ ~answer[n]
      BY <1>4, <2>1, AskTypes DEF AskInv
    <2>3. ASSUME NEW f \in Entries, pending'[f] # None
          PROVE  /\ pending'[f] <= asks'
                 /\ ~answer'[pending'[f]]
                 /\ \A g \in Entries \ {f} : pending'[g] # pending'[f]
                 /\ \A d \in Clients : req'[d].ask # pending'[f]
      <3>1. CASE f = e
        BY <1>3, <1>4, <2>2, <3>1
      <3>2. CASE f # e
        BY <1>3, <2>1, <2>2, <2>3, <3>2, AskTypes DEF AskInv
      <3> QED
        BY <3>1, <3>2
    <2>4. ASSUME NEW d \in Clients, req'[d].ask # None
          PROVE  /\ req'[d].ask <= asks'
                 /\ ~answer'[req'[d].ask]
                 /\ \A b \in Clients \ {d} : req'[b].ask # req'[d].ask
      BY <1>3, <2>1, <2>4, AskTypes DEF AskInv
    <2>5. \A a \in Asks : answer'[a] => a <= asks'
      BY <1>3, <2>1 DEF AskInv
    <2>6. ASSUME NEW q \in Runs, run'[q].ask # None
          PROVE  /\ run'[q].ask <= asks'
                 /\ \A s \in Runs \ {q} : run'[s].ask # run'[q].ask
      <3>1. CASE q = r
        BY <1>2, <1>3, <1>4, <2>2, <3>1
      <3>2. CASE q # r
        BY <1>2, <1>3, <2>1, <2>2, <2>6, <3>2, AskTypes DEF AskInv
      <3> QED
        BY <3>1, <3>2
    <2>7. \A q \in Runs : run'[q].agent = "asks" => run'[q].ask # None
      BY <1>2, <1>4 DEF AskInv
    <2> QED
      BY <2>3, <2>4, <2>5, <2>6, <2>7 DEF AskInv
  <1>6. Answerable'
    <2>1. ASSUME NEW d \in Clients, At(d, "send")'
          PROVE  ~answer'[req'[d].ask]
      BY <1>5, <2>1 DEF TypeInv, TypeOK, AskInv, At
    <2>2. ASSUME NEW q \in Runs, run'[q].agent = "asks", run'[q].forwards,
                 run'[q].e \notin overlapped' \cup stray'
          PROVE  \/ pending'[run'[q].e] = run'[q].ask
                 \/ answer'[run'[q].ask]
                 \/ \E d \in Clients : req'[d].ask = run'[q].ask
      <3>1. CASE q = r
        BY <1>2, <1>3, <3>1
      <3>2. CASE q # r
        <4>1. run'[q] = run[q]
          BY <1>2, <3>2
        <4>2. run[q].e # e
          BY <1>3, <2>2, <3>2, <4>1 DEF EntryInv, SharingInv, e
        <4>3. pending'[run[q].e] = pending[run[q].e]
          BY <1>3, <2>2, <4>1, <4>2, HeldTypes
        <4> QED
          BY <1>3, <2>2, <4>1, <4>3 DEF Answerable
      <3> QED
        BY <3>1, <3>2
    <2> QED
      BY <2>1, <2>2 DEF Answerable
  <1> QED
    BY <1>5, <1>6

LEMMA StopAsks ==
    ASSUME TypeInv, EntryInv, AskInv, Answerable, TypeInv', NEW r \in Runs,
           ForwardToNobody(r) \/ Finish(r)
    PROVE  AskInv' /\ Answerable'
  <1>1. /\ run[r].forwards /\ StopForwarding(r)
        /\ UNCHANGED <<asks, answer, req, overlapped, stray>>
    BY DEF ForwardToNobody, Finish
  <1>2. /\ run'[r].forwards = FALSE /\ run'[r].ask = run[r].ask
        /\ run'[r].agent = "asks" => run[r].agent = "asks"
        /\ \A q \in Runs \ {r} : run'[q] = run[q]
        /\ pending'[run[r].e] = None
        /\ \A e \in Entries \ {run[r].e} : pending'[e] = pending[e]
    BY <1>1, StopFrame
  <1>3. Settling
    BY <1>1, <1>2 DEF Settling
  <1>4. ASSUME NEW q \in Runs, q # r, run[q].forwards, run[q].e \notin overlapped
        PROVE  pending'[run[q].e] = pending[run[q].e]
    <2>1. run[q].e # run[r].e
      BY <1>1, <1>4 DEF EntryInv, SharingInv
    <2> QED
      BY <1>2, <1>4, <2>1, HeldTypes
  <1>5. Undisturbed
    BY <1>1, <1>2, <1>4 DEF Undisturbed
  <1> QED
    BY <1>3, <1>5, SettlingAsks, UndisturbedAnswerable

LEMMA RunAsks ==
    ASSUME TypeInv, EntryInv, AskInv, Answerable, TypeInv', NEW r \in Runs,
           RunStep(r) \/ AgentPublishes(r)
    PROVE  AskInv' /\ Answerable'
  <1> USE DEF registry, fields, agents
  <1>1. run[r] \in RunStates /\ \A q \in Runs \ {r} : run'[q] = run[q]
    BY DEF RunStep, AgentPublishes, AgentAsks, AgentAnswered, AgentRefused, AgentEnds, Timeout,
       ForwardToNobody, ForwardLast, Finish, StopForwarding, TypeInv, TypeOK
  <1>2. CASE AgentPublishes(r) \/ AgentEnds(r) \/ Timeout(r) \/ ForwardLast(r)
    <2>1. UNCHANGED <<asks, answer, stray, pending, overlapped>>
      BY <1>2 DEF AgentPublishes, AgentEnds, Timeout, ForwardLast
    <2>2. \A d \in Clients : req'[d].ask = req[d].ask
      <3>1. CASE AgentPublishes(r) \/ ForwardLast(r)
        <4>1. PICK ends \in BOOLEAN : Published(ends)
          BY <3>1 DEF AgentPublishes, ForwardLast
        <4> QED
          BY <4>1, PublishedFrame DEF TypeInv
      <3> QED
        BY <1>2, <3>1 DEF AgentEnds, Timeout
    <2>3. /\ run'[r].e = run[r].e /\ run'[r].forwards = run[r].forwards
          /\ run'[r].ask = run[r].ask /\ (run'[r].agent = "asks" => run[r].agent = "asks")
      <3>1. CASE AgentPublishes(r)
        BY <3>1 DEF AgentPublishes
      <3>2. CASE AgentEnds(r) \/ ForwardLast(r)
        <4>1. PICK agent \in {"done", "aborted", "closed"} :
                  run' = [run EXCEPT ![r] = [run[r] EXCEPT !.agent = agent]]
          BY <3>2 DEF AgentEnds, ForwardLast, TypeInv, TypeOK
        <4> QED
          BY <1>1, <4>1 DEF TypeInv, TypeOK, RunStates
      <3>3. CASE Timeout(r)
        BY <1>1, <3>3 DEF Timeout, TypeInv, TypeOK, RunStates
      <3> QED
        BY <1>2, <3>1, <3>2, <3>3
    <2>4. Settling /\ Undisturbed
      BY <1>1, <2>1, <2>2, <2>3 DEF Settling, Undisturbed
    <2> QED
      BY <2>4, SettlingAsks, UndisturbedAnswerable
  <1>3. CASE AgentAnswered(r) \/ AgentRefused(r)
    <2>1. /\ run[r].agent = "asks" /\ run'[r].agent = "works" /\ run'[r].ask = None
          /\ UNCHANGED <<asks, stray, pending, overlapped, req>>
      <3>1. /\ run[r].agent = "asks"
            /\ run' = [run EXCEPT ![r] = [run[r] EXCEPT !.agent = "works", !.ask = None]]
            /\ UNCHANGED <<asks, stray, pending, overlapped, req>>
        BY <1>3 DEF AgentAnswered, AgentRefused, TypeInv, TypeOK
      <3> QED
        BY <1>1, <3>1 DEF TypeInv, TypeOK, RunStates
    <2>2. run[r].ask # None /\ \A q \in Runs \ {r} : run[q].ask # run[r].ask
      BY <2>1 DEF AskInv
    <2>3. \A a \in Asks : /\ answer'[a] => answer[a]
                          /\ a # run[r].ask => answer'[a] = answer[a]
      BY <1>3 DEF AgentAnswered, AgentRefused, TypeInv, TypeOK
    <2>4. Settling
      BY <1>1, <2>1, <2>3 DEF Settling
    <2>5. ASSUME NEW q \in Runs, q # r, run[q].agent = "asks"
          PROVE  answer'[run[q].ask] = answer[run[q].ask]
      BY <2>2, <2>3, <2>5, AskTypes DEF AskInv
    <2>6. Undisturbed
      BY <1>1, <2>1, <2>5 DEF Undisturbed
    <2> QED
      BY <2>4, <2>6, SettlingAsks, UndisturbedAnswerable
  <1> QED
    BY <1>2, <1>3, AgentAsksAsks, StopAsks DEF RunStep

LEMMA ServerAsks ==
    ASSUME TypeInv, AskInv, Answerable, TypeInv',
           create \/ SaveLands \/ SavesEnd \/ evictIdle \/ Restart \/ UNCHANGED vars
    PROVE  AskInv' /\ Answerable'
  <1>1. CASE create \/ SaveLands \/ SavesEnd \/ evictIdle \/ UNCHANGED vars
    <2>1. UNCHANGED <<pending, run, asks, answer, stray, req, overlapped>>
      BY <1>1 DEF create, SaveLands, SavesEnd, evictIdle, vars, fields, agents
    <2>2. Settling /\ Undisturbed
      BY <2>1 DEF Settling, Undisturbed
    <2> QED
      BY <2>2, SettlingAsks, UndisturbedAnswerable
  <1>2. CASE Restart
    <2>1. /\ \A c \in Clients : req'[c].ask = None /\ req'[c].pc = "idle"
          /\ \A r \in Runs : run'[r].ask = None /\ run'[r].agent = "off"
          /\ \A e \in Entries : pending'[e] = None
          /\ \A a \in Asks : answer'[a] = FALSE
      BY <1>2 DEF Restart, NoRequest, NoRun
    <2> QED
      BY <2>1 DEF AskInv, Answerable, At
  <1> QED
    BY <1>1, <1>2

LEMMA AskStep ==
    TypeInv /\ EntryInv /\ AskInv /\ Answerable /\ TypeInv' /\ [Next]_vars => AskInv' /\ Answerable'
  <1> SUFFICES ASSUME TypeInv, EntryInv, AskInv, Answerable, TypeInv', [Next]_vars
               PROVE  AskInv' /\ Answerable'
    OBVIOUS
  <1>1. ASSUME NEW c \in Clients, BeginAny(c) \/ RequestStep(c) \/ Disconnect(c)
        PROVE  AskInv' /\ Answerable'
    BY <1>1, RequestAsks, TakeAsks, SendAsks DEF RequestStep
  <1> QED
    BY <1>1, RunAsks, ServerAsks DEF Next

(* An approval that is taken has room for its answer, and one that a run    *)
(* waits for is in the slot, in the hands of a request or answered.         *)
THEOREM AlwaysAnswerable == Spec => []Answerable
  <1>1. Init => IInv
    BY TypeInit, InitEntry, InitAsks DEF IInv
  <1>2. IInv /\ [Next]_vars => IInv'
    BY TypeStep, EntryStep, AskStep DEF IInv
  <1>3. IInv => Answerable
    BY DEF IInv
  <1> QED
    BY <1>1, <1>2, <1>3, PTL DEF Spec
=============================================================================
