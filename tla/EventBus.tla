------------------------------ MODULE EventBus ------------------------------
(***************************************************************************)
(* The topic of one session in eventbus/bus.go.  Sessions share nothing    *)
(* but the lock of the session map, so one session id is modelled.         *)
(*                                                                         *)
(* The bus holds the current topic of the id in a map under Bus.mu; every  *)
(* topic keeps its subscriptions and its history under topic.mu.  The two  *)
(* locks are never held together: an operation looks the topic up, lets    *)
(* Bus.mu go, and works on the topic it found, which another goroutine may *)
(* have removed from the map meanwhile.  Each lock section is one action.  *)
(*                                                                         *)
(* An event is its position in the publication order of its topic: the bus *)
(* never looks into the payload.  A subscription channel is kept whole:    *)
(* delivered[s] is all that was ever put into it, nread[s] how much of it  *)
(* the reader has taken out.  A run-time panic ends the process.           *)
(***************************************************************************)
EXTENDS Integers, Sequences

CONSTANTS
    Publishers,    \* goroutines that call Publish
    Subscriptions, \* the subscriptions ever made, each with a reader of its own
    Removers,      \* goroutines that call RemoveTopic
    ChanCap,       \* buffer of a subscription channel (64 in the code)
    MaxHistory,    \* history kept for replay (the argument of New)
    MaxEvents,     \* bound: events published per topic
    MaxTopics,     \* bound: topics created for the id over time
    None

Topics == 1..MaxTopics

ASSUME EventBusAssumption ==
    /\ ChanCap \in Nat \ {0}
    /\ MaxHistory \in Nat
    /\ MaxEvents \in Nat
    /\ MaxTopics \in Nat
    /\ None \notin Topics

VARIABLES
    current,   \* the topic the session map holds, None when it holds none
    created,   \* how many topics were allocated so far
    count,     \* events published to a topic
    history,   \* the replay buffer of a topic
    subs,      \* the subscriptions a topic fans out to
    home,      \* the topic a Subscribe call found, the t of its subscription
    delivered, \* all events ever sent into the channel of a subscription
    nread,     \* how many of them its reader has received
    from,      \* history variable: first event the subscription is owed
    closedFlag,\* Subscription.closed, set by compare-and-swap
    chClosed,  \* the channel itself is closed
    spc,       \* where the goroutine of a subscription is
    ppc, ptopic, \* where a publisher is, and the topic it looked up
    rpc, rtopic, \* where a remover is, and the topic it detached
    panic      \* the runtime panic that ended the process, if any

topicVars == <<current, created, count, history, subs>>
subVars == <<home, delivered, nread, from, closedFlag, chClosed, spc>>
vars == <<topicVars, subVars, ppc, ptopic, rpc, rtopic, panic>>

-----------------------------------------------------------------------------
SubStates == {"idle", "replay", "live", "open", "unlist", "close", "gone"}
Panics == {"none", "send on closed channel", "close of closed channel"}

(* Everything has its type, a subscription in the middle of a call knows   *)
(* its topic, and so does a publisher about to send (Bus.Publish creates   *)
(* the topic it does not find) and a remover about to close.               *)
TypeOK ==
    /\ current \in Topics \cup {None}
    /\ created \in 0..MaxTopics
    /\ count \in [Topics -> 0..MaxEvents]
    /\ history \in [Topics -> Seq(1..MaxEvents)]
    /\ subs \in [Topics -> SUBSET Subscriptions]
    /\ home \in [Subscriptions -> Topics \cup {None}]
    /\ delivered \in [Subscriptions -> Seq(1..MaxEvents)]
    /\ nread \in [Subscriptions -> Nat]
    /\ from \in [Subscriptions -> Int]
    /\ closedFlag \in [Subscriptions -> BOOLEAN]
    /\ chClosed \in [Subscriptions -> BOOLEAN]
    /\ spc \in [Subscriptions -> SubStates]
    /\ \A s \in Subscriptions : spc[s] # "idle" => home[s] \in Topics
    /\ ppc \in [Publishers -> {"idle", "create", "send"}]
    /\ ptopic \in [Publishers -> Topics \cup {None}]
    /\ \A p \in Publishers : ppc[p] = "send" => ptopic[p] \in Topics
    /\ rpc \in [Removers -> {"idle", "close"}]
    /\ rtopic \in [Removers -> Topics \cup {None}]
    /\ \A r \in Removers : rpc[r] = "close" => rtopic[r] \in Topics
    /\ panic \in Panics

Init ==
    /\ current = None
    /\ created = 0
    /\ count = [t \in Topics |-> 0]
    /\ history = [t \in Topics |-> <<>>]
    /\ subs = [t \in Topics |-> {}]
    /\ home = [s \in Subscriptions |-> None]
    /\ delivered = [s \in Subscriptions |-> <<>>]
    /\ nread = [s \in Subscriptions |-> 0]
    /\ from = [s \in Subscriptions |-> 0]
    /\ closedFlag = [s \in Subscriptions |-> FALSE]
    /\ chClosed = [s \in Subscriptions |-> FALSE]
    /\ spc = [s \in Subscriptions |-> "idle"]
    /\ ppc = [p \in Publishers |-> "idle"]
    /\ ptopic = [p \in Publishers |-> None]
    /\ rpc = [r \in Removers |-> "idle"]
    /\ rtopic = [r \in Removers |-> None]
    /\ panic = "none"

-----------------------------------------------------------------------------
(* The topic a "get or create" section under Bus.mu leaves in the map. *)
GetOrCreate ==
    IF current # None
    THEN UNCHANGED <<current, created>>
    ELSE /\ created < MaxTopics
         /\ created' = created + 1
         /\ current' = created + 1

Room(s) == Len(delivered[s]) - nread[s] < ChanCap

(* A channel with no receiver yet takes the first ChanCap events sent to   *)
(* it; the non-blocking sends after that are dropped.                      *)
Replayed(h) == IF Len(h) <= ChanCap THEN h ELSE SubSeq(h, 1, ChanCap)

(* The history after event e, with the oldest dropped over the limit. *)
Remember(h, e) ==
    IF MaxHistory = 0 THEN h
    ELSE IF Len(h) < MaxHistory THEN Append(h, e) ELSE Append(Tail(h), e)

-----------------------------------------------------------------------------
(* Subscribe and SubscribeLive *)

(* First section, under Bus.mu: look the topic up or create it. *)
SubscribeLookup(s) ==
    /\ panic = "none"
    /\ spc[s] = "idle"
    /\ GetOrCreate
    /\ home' = [home EXCEPT ![s] = current']
    /\ \E mode \in {"replay", "live"} : spc' = [spc EXCEPT ![s] = mode]
    /\ UNCHANGED <<count, history, subs, delivered, nread, from, closedFlag,
                   chClosed, ppc, ptopic, rpc, rtopic, panic>>

(* Bugs to tell Attach from: the subscription joins the list and replays   *)
(* in a later section, or copies the history and joins in a later section. *)
AttachThenReplay(s) ==
    LET t == home[s] IN
    /\ panic = "none"
    /\ spc[s] \in {"replay", "live"}
    /\ subs' = [subs EXCEPT ![t] = @ \cup {s}]
    /\ from' = [from EXCEPT ![s] = IF @ = 0 THEN 1 ELSE @]
    /\ IF s \in subs[t]
       THEN /\ spc' = [spc EXCEPT ![s] = "open"]
            /\ delivered' = [delivered EXCEPT ![s] = @ \o Replayed(history[t])]
       ELSE UNCHANGED <<spc, delivered>>
    /\ UNCHANGED <<current, created, count, history, home, nread, closedFlag,
                   chClosed, ppc, ptopic, rpc, rtopic, panic>>

ReplayThenAttach(s) ==
    LET t == home[s] IN
    /\ panic = "none"
    /\ spc[s] \in {"replay", "live"}
    /\ from' = [from EXCEPT ![s] =
                  IF @ = 0 THEN count[t] - Len(history[t]) + 1 ELSE @]
    /\ IF spc[s] = "replay"
       THEN /\ delivered' = [delivered EXCEPT ![s] = Replayed(history[t])]
            /\ spc' = [spc EXCEPT ![s] = "live"]
            /\ UNCHANGED subs
       ELSE /\ subs' = [subs EXCEPT ![t] = @ \cup {s}]
            /\ spc' = [spc EXCEPT ![s] = "open"]
            /\ UNCHANGED delivered
    /\ UNCHANGED <<current, created, count, history, home, nread, closedFlag,
                   chClosed, ppc, ptopic, rpc, rtopic, panic>>

(* Second section, under topic.mu: replay the history into the new channel *)
(* and join the list, or only join it (SubscribeLive).                     *)
Attach(s) ==
    LET t == home[s] IN
    /\ panic = "none"
    /\ spc[s] \in {"replay", "live"}
    /\ IF spc[s] = "replay"
       THEN /\ delivered' = [delivered EXCEPT ![s] = Replayed(history[t])]
            /\ from' = [from EXCEPT ![s] = count[t] - Len(history[t]) + 1]
       ELSE /\ from' = [from EXCEPT ![s] = count[t] + 1]
            /\ UNCHANGED delivered
    /\ subs' = [subs EXCEPT ![t] = @ \cup {s}]
    /\ spc' = [spc EXCEPT ![s] = "open"]
    /\ UNCHANGED <<current, created, count, history, home, nread, closedFlag,
                   chClosed, ppc, ptopic, rpc, rtopic, panic>>

(* The reader takes the next event from its channel (open or closed). *)
Receive(s) ==
    /\ panic = "none"
    /\ spc[s] = "open"
    /\ nread[s] < Len(delivered[s])
    /\ nread' = [nread EXCEPT ![s] = @ + 1]
    /\ UNCHANGED <<topicVars, home, delivered, from, closedFlag, chClosed, spc,
                   ppc, ptopic, rpc, rtopic, panic>>

-----------------------------------------------------------------------------
(* Unsubscribe: compare-and-swap, then topic.remove, then close. *)

(* The swap left out: Unsubscribe goes on though the topic was removed. *)
UnsubscribeFlagNoSwap(s) ==
    /\ panic = "none"
    /\ spc[s] = "open"
    /\ spc' = [spc EXCEPT ![s] = "unlist"]
    /\ closedFlag' = [closedFlag EXCEPT ![s] = TRUE]
    /\ UNCHANGED <<topicVars, home, delivered, nread, from, chClosed, ppc,
                   ptopic, rpc, rtopic, panic>>

UnsubscribeFlag(s) ==
    /\ panic = "none"
    /\ spc[s] = "open"
    /\ IF closedFlag[s]
       THEN spc' = [spc EXCEPT ![s] = "gone"]
       ELSE spc' = [spc EXCEPT ![s] = "unlist"]
    /\ closedFlag' = [closedFlag EXCEPT ![s] = TRUE]
    /\ UNCHANGED <<topicVars, home, delivered, nread, from, chClosed, ppc,
                   ptopic, rpc, rtopic, panic>>

Unlist(s) ==
    /\ panic = "none"
    /\ spc[s] = "unlist"
    /\ subs' = [subs EXCEPT ![home[s]] = @ \ {s}]
    /\ spc' = [spc EXCEPT ![s] = "close"]
    /\ UNCHANGED <<current, created, count, history, home, delivered, nread,
                   from, closedFlag, chClosed, ppc, ptopic, rpc, rtopic, panic>>

CloseChannel(s) ==
    /\ panic = "none"
    /\ spc[s] = "close"
    /\ chClosed' = [chClosed EXCEPT ![s] = TRUE]
    /\ panic' = IF chClosed[s] THEN "close of closed channel" ELSE panic
    /\ spc' = [spc EXCEPT ![s] = "gone"]
    /\ UNCHANGED <<topicVars, home, delivered, nread, from, closedFlag, ppc,
                   ptopic, rpc, rtopic>>

-----------------------------------------------------------------------------
(* Publish *)

(* The slow path left out: the call goes on with whatever it found. *)
PublishLookupOnly(p) ==
    /\ panic = "none"
    /\ ppc[p] = "idle"
    /\ ptopic' = [ptopic EXCEPT ![p] = current]
    /\ ppc' = [ppc EXCEPT ![p] = "send"]
    /\ UNCHANGED <<topicVars, subVars, rpc, rtopic, panic>>

(* The read-locked lookup, which finds the topic in most calls. *)
PublishLookup(p) ==
    /\ panic = "none"
    /\ ppc[p] = "idle"
    /\ ptopic' = [ptopic EXCEPT ![p] = current]
    /\ ppc' = [ppc EXCEPT ![p] = IF current = None THEN "create" ELSE "send"]
    /\ UNCHANGED <<topicVars, subVars, rpc, rtopic, panic>>

(* The second lookup under the write lock, creating the topic if need be. *)
PublishCreate(p) ==
    /\ panic = "none"
    /\ ppc[p] = "create"
    /\ GetOrCreate
    /\ ptopic' = [ptopic EXCEPT ![p] = current']
    /\ ppc' = [ppc EXCEPT ![p] = "send"]
    /\ UNCHANGED <<count, history, subs, subVars, rpc, rtopic, panic>>

(* topic.publish: remember the event, then offer it to every subscription. *)
(* A send on a closed channel is a run-time panic, default case or not.    *)
PublishSend(p) ==
    LET t == ptopic[p]
        e == count[t] + 1
    IN
    /\ panic = "none"
    /\ ppc[p] = "send"
    /\ count[t] < MaxEvents
    /\ count' = [count EXCEPT ![t] = e]
    /\ history' = [history EXCEPT ![t] = Remember(@, e)]
    /\ \/ /\ \A s \in subs[t] : ~chClosed[s]
          /\ delivered' = [s \in Subscriptions |->
                             IF s \in subs[t] /\ Room(s)
                             THEN Append(delivered[s], e) ELSE delivered[s]]
          /\ UNCHANGED panic
       \/ /\ \E s \in subs[t] : chClosed[s]
          /\ panic' = "send on closed channel"
          /\ UNCHANGED delivered
    /\ ppc' = [ppc EXCEPT ![p] = "idle"]
    /\ ptopic' = [ptopic EXCEPT ![p] = None]
    /\ UNCHANGED <<current, created, subs, home, nread, from, closedFlag,
                   chClosed, spc, rpc, rtopic>>

-----------------------------------------------------------------------------
(* RemoveTopic *)

(* Take the topic out of the map, under Bus.mu. *)
RemoveDetach(r) ==
    /\ panic = "none"
    /\ rpc[r] = "idle"
    /\ current # None
    /\ rtopic' = [rtopic EXCEPT ![r] = current]
    /\ current' = None
    /\ rpc' = [rpc EXCEPT ![r] = "close"]
    /\ UNCHANGED <<created, count, history, subs, subVars, ppc, ptopic, panic>>

(* The closing loop left out: the readers are never told. *)
RemoveCloseNothing(r) ==
    /\ panic = "none"
    /\ rpc[r] = "close"
    /\ rpc' = [rpc EXCEPT ![r] = "idle"]
    /\ rtopic' = [rtopic EXCEPT ![r] = None]
    /\ UNCHANGED <<topicVars, subVars, ppc, ptopic, panic>>

(* Under topic.mu, close every listed channel whose flag this call swaps.  *)
(* The list itself is left as it is.                                       *)
RemoveClose(r) ==
    LET mine == {s \in subs[rtopic[r]] : ~closedFlag[s]} IN
    /\ panic = "none"
    /\ rpc[r] = "close"
    /\ closedFlag' = [s \in Subscriptions |-> closedFlag[s] \/ s \in mine]
    /\ chClosed' = [s \in Subscriptions |-> chClosed[s] \/ s \in mine]
    /\ panic' = IF \E s \in mine : chClosed[s]
                THEN "close of closed channel" ELSE panic
    /\ rpc' = [rpc EXCEPT ![r] = "idle"]
    /\ rtopic' = [rtopic EXCEPT ![r] = None]
    /\ UNCHANGED <<topicVars, home, delivered, nread, from, spc, ppc, ptopic>>

-----------------------------------------------------------------------------
SubscriptionStep(s) ==
    \/ SubscribeLookup(s)
    \/ Attach(s)
    \/ Receive(s)
    \/ UnsubscribeFlag(s)
    \/ Unlist(s)
    \/ CloseChannel(s)

PublisherStep(p) == PublishLookup(p) \/ PublishCreate(p) \/ PublishSend(p)

RemoverStep(r) == RemoveDetach(r) \/ RemoveClose(r)

Next ==
    \/ \E s \in Subscriptions : SubscriptionStep(s)
    \/ \E p \in Publishers : PublisherStep(p)
    \/ \E r \in Removers : RemoverStep(r)

Spec == Init /\ [][Next]_vars

(* Goroutines in the middle of a call go on, and a reader reads on.  Nobody *)
(* has to begin a call.                                                     *)
Fairness ==
    /\ \A s \in Subscriptions :
         /\ WF_vars(Attach(s))
         /\ WF_vars(Receive(s))
         /\ WF_vars(Unlist(s))
         /\ WF_vars(CloseChannel(s))
    /\ \A r \in Removers : WF_vars(RemoveClose(r))

FairSpec == Spec /\ Fairness
-----------------------------------------------------------------------------
(* The documented promise of RemoveTopic and Unsubscribe that no send can  *)
(* reach a closed channel, for the publishers it does hold for: the topic  *)
(* in the map lists open channels only, so a call that looks it up and     *)
(* sends before it is removed cannot panic.                                *)
LiveTopicOpen ==
    current # None => \A s \in subs[current] : ~chClosed[s]

(* No channel is closed twice, whichever way Unsubscribe calls of readers  *)
(* and RemoveTopic calls interleave: Unsubscribe is "safe to call multiple *)
(* times" and after the topic is gone.                                     *)
CloseOnce == panic # "close of closed channel"

(* What a reader gets is in publication order with nothing twice, across   *)
(* the seam of replay and live events, and nothing it was not owed.        *)
InOrder ==
    \A s \in Subscriptions :
        /\ \A i, j \in 1..Len(delivered[s]) :
              i < j => delivered[s][i] < delivered[s][j]
        /\ \A i \in 1..Len(delivered[s]) :
              delivered[s][i] \in from[s]..count[home[s]]

(* A subscription owed no more events than its channel can hold misses     *)
(* none, however slow its reader is: no event falls between the replayed   *)
(* history and the live ones (the panic of a send cuts it short).           *)
ShortStreamComplete ==
    \A s \in {x \in Subscriptions : home[x] # None} :
        LET owed == count[home[s]] - from[s] + 1 IN
        panic = "none" /\ s \in subs[home[s]] /\ owed <= ChanCap
          => /\ Len(delivered[s]) = owed
             /\ \A i \in 1..owed : delivered[s][i] = from[s] + i - 1

(* The promise that no new send can arrive once RemoveTopic has taken the  *)
(* topic out of the map and closes its channels.                           *)
NoSendOnClosed == panic # "send on closed channel"

(* Once RemoveTopic has detached a topic, every reader it lists is given   *)
(* what its channel still holds and then the end of the stream, unless the *)
(* reader leaves first.                                                    *)
EofAfterRemove ==
    \A s \in Subscriptions, r \in Removers :
        (rpc[r] = "close" /\ s \in subs[rtopic[r]]) ~>
            \/ chClosed[s] /\ nread[s] = Len(delivered[s])
            \/ spc[s] # "open"
            \/ panic # "none"
=============================================================================
