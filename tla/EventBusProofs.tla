--------------------------- MODULE EventBusProofs ---------------------------
(***************************************************************************)
(* Theorems about EventBus, for any number of publishers, subscriptions    *)
(* and removers and any channel and history size.                          *)
(*                                                                         *)
(* The safety of closing rests on who may close a channel: the flag of a   *)
(* subscription is swapped once, by Unsubscribe, which takes the           *)
(* subscription off its list before it closes, or by RemoveTopic, which    *)
(* closes only what a topic lists that has left the map for good.          *)
(***************************************************************************)
EXTENDS EventBus, TLAPS

(* The map holds the newest topic or none, and a detached topic never      *)
(* comes back.                                                             *)
TopicsInOrder ==
    /\ current # None => current = created
    /\ \A s \in Subscriptions : home[s] # None => home[s] <= created
    /\ \A r \in Removers :
         rpc[r] = "close" => rtopic[r] # current /\ rtopic[r] <= created

(* A topic lists only subscriptions of its own that have joined it and are *)
(* not about to be closed by Unsubscribe.                                  *)
ListedAtHome ==
    \A t \in Topics : \A s \in subs[t] :
        home[s] = t /\ spc[s] \in {"open", "unlist", "gone"}

(* Who may have swapped the flag, and who may have closed the channel. *)
CloseOwner ==
    \A s \in Subscriptions :
        /\ chClosed[s] => closedFlag[s]
        /\ spc[s] \in {"idle", "replay", "live"} => ~closedFlag[s]
        /\ spc[s] \in {"unlist", "close"} => closedFlag[s] /\ ~chClosed[s]

CloseInv == TypeOK /\ TopicsInOrder /\ ListedAtHome /\ CloseOwner
            /\ LiveTopicOpen /\ CloseOnce

(* The history is the last events published, without a hole. *)
HistoryWindow ==
    \A t \in Topics :
        /\ Len(history[t]) <= count[t] /\ Len(history[t]) <= MaxHistory
        /\ \A i \in 1..Len(history[t]) :
             history[t][i] = count[t] - Len(history[t]) + i

(* A channel is empty until its subscription has joined a topic. *)
FreshEmpty ==
    \A s \in Subscriptions :
        spc[s] \in {"idle", "replay", "live"} => delivered[s] = <<>>

(* A subscription is never owed an event before the first. *)
OwedFromFuture ==
    \A s \in Subscriptions :
        spc[s] \notin {"idle", "replay", "live"} => from[s] <= count[home[s]] + 1

OrderInv == CloseInv /\ HistoryWindow /\ FreshEmpty /\ OwedFromFuture
            /\ InOrder /\ ShortStreamComplete

USE EventBusAssumption

-----------------------------------------------------------------------------
(* What a channel takes of a history is a part of it, from the front. *)
LEMMA ReplayedType ==
  ASSUME NEW S, NEW h \in Seq(S)
  PROVE  /\ Replayed(h) \in Seq(S)
         /\ Len(Replayed(h)) <= Len(h)
         /\ \A i \in 1..Len(Replayed(h)) : Replayed(h)[i] = h[i]
  BY DEF Replayed

(* The history stays a sequence of events when one is remembered. *)
LEMMA RememberType ==
  ASSUME NEW S, NEW h \in Seq(S), NEW e \in S
  PROVE  Remember(h, e) \in Seq(S)
  BY DEF Remember

(* A topic found or created is a topic. *)
LEMMA GetOrCreateType ==
  ASSUME TypeOK, GetOrCreate
  PROVE  /\ current' \in Topics
         /\ created' \in 0..MaxTopics
         /\ created <= created'
  BY DEF GetOrCreate, TypeOK, Topics

(* The type invariant is inductive. *)
LEMMA TypeInit == Init => TypeOK
  BY DEF Init, TypeOK, Topics, Panics, SubStates

LEMMA TypeStep == TypeOK /\ [Next]_vars => TypeOK'
<1> SUFFICES ASSUME TypeOK, [Next]_vars PROVE TypeOK'
  OBVIOUS
<1> USE DEF topicVars, subVars, Panics, SubStates
<1>1. ASSUME NEW s \in Subscriptions, SubscribeLookup(s) PROVE TypeOK'
  BY <1>1, GetOrCreateType DEF TypeOK, SubscribeLookup
<1>2. ASSUME NEW s \in Subscriptions, Attach(s) PROVE TypeOK'
  <2>1. home[s] \in Topics
    BY <1>2 DEF TypeOK, Attach
  <2>2. Replayed(history[home[s]]) \in Seq(1..MaxEvents)
    BY <2>1, ReplayedType DEF TypeOK
  <2>3. /\ count[home[s]] \in 0..MaxEvents
        /\ history[home[s]] \in Seq(1..MaxEvents)
    BY <2>1 DEF TypeOK
  <2>4. /\ count[home[s]] - Len(history[home[s]]) + 1 \in Int
        /\ count[home[s]] + 1 \in Int
    BY <2>3
  <2>5. from' \in [Subscriptions -> Int]
    BY <1>2, <2>4 DEF TypeOK, Attach
  <2>6. delivered' \in [Subscriptions -> Seq(1..MaxEvents)]
    BY <1>2, <2>2 DEF TypeOK, Attach
  <2>7. /\ subs' \in [Topics -> SUBSET Subscriptions]
        /\ spc' \in [Subscriptions -> SubStates]
    BY <1>2, <2>1 DEF TypeOK, Attach
  <2>8. QED
    BY <1>2, <2>1, <2>5, <2>6, <2>7 DEF TypeOK, Attach
<1>3. ASSUME NEW s \in Subscriptions, Receive(s) PROVE TypeOK'
  BY <1>3 DEF TypeOK, Receive
<1>4. ASSUME NEW s \in Subscriptions, UnsubscribeFlag(s) PROVE TypeOK'
  BY <1>4 DEF TypeOK, UnsubscribeFlag
<1>5. ASSUME NEW s \in Subscriptions, Unlist(s) PROVE TypeOK'
  BY <1>5 DEF TypeOK, Unlist
<1>6. ASSUME NEW s \in Subscriptions, CloseChannel(s) PROVE TypeOK'
  BY <1>6 DEF TypeOK, CloseChannel
<1>7. ASSUME NEW p \in Publishers, PublishLookup(p) PROVE TypeOK'
  BY <1>7 DEF TypeOK, PublishLookup
<1>8. ASSUME NEW p \in Publishers, PublishCreate(p) PROVE TypeOK'
  BY <1>8, GetOrCreateType DEF TypeOK, PublishCreate
<1>9. ASSUME NEW p \in Publishers, PublishSend(p) PROVE TypeOK'
  <2>0. /\ ptopic[p] \in Topics
        /\ count[ptopic[p]] \in 0..MaxEvents
        /\ count[ptopic[p]] < MaxEvents
    BY <1>9 DEF TypeOK, PublishSend
  <2>1. ptopic[p] \in Topics /\ count[ptopic[p]] + 1 \in 1..MaxEvents
    BY <2>0
  <2>2. Remember(history[ptopic[p]], count[ptopic[p]] + 1) \in Seq(1..MaxEvents)
    BY <2>1, RememberType DEF TypeOK
  <2>3. delivered' \in [Subscriptions -> Seq(1..MaxEvents)]
    <3>1. CASE UNCHANGED delivered
      BY <3>1 DEF TypeOK
    <3>2. CASE delivered' = [s \in Subscriptions |->
                               IF s \in subs[ptopic[p]] /\ Room(s)
                               THEN Append(delivered[s], count[ptopic[p]] + 1)
                               ELSE delivered[s]]
      <4>1. \A s \in Subscriptions : delivered[s] \in Seq(1..MaxEvents)
        BY DEF TypeOK
      <4>2. \A s \in Subscriptions :
              Append(delivered[s], count[ptopic[p]] + 1) \in Seq(1..MaxEvents)
        BY <2>1, <4>1
      <4>3. QED
        BY <3>2, <4>1, <4>2
    <3>3. QED
      BY <1>9, <3>1, <3>2 DEF PublishSend
  <2>4. /\ count' = [count EXCEPT ![ptopic[p]] = count[ptopic[p]] + 1]
        /\ history' = [history EXCEPT ![ptopic[p]] =
                         Remember(history[ptopic[p]], count[ptopic[p]] + 1)]
    BY <1>9 DEF PublishSend
  <2>5. count' \in [Topics -> 0..MaxEvents]
    <3>1. count \in [Topics -> 0..MaxEvents]
      BY DEF TypeOK
    <3>2. QED
      BY <2>1, <2>4, <3>1
  <2>6. history' \in [Topics -> Seq(1..MaxEvents)]
    <3>1. history \in [Topics -> Seq(1..MaxEvents)]
      BY DEF TypeOK
    <3>2. QED
      BY <2>2, <2>4, <3>1
  <2>7. panic' \in Panics
    BY <1>9 DEF TypeOK, PublishSend
  <2>8. QED
    BY <1>9, <2>1, <2>3, <2>5, <2>6, <2>7 DEF TypeOK, PublishSend
<1>10. ASSUME NEW r \in Removers, RemoveDetach(r) PROVE TypeOK'
  BY <1>10 DEF TypeOK, RemoveDetach
<1>11. ASSUME NEW r \in Removers, RemoveClose(r) PROVE TypeOK'
  BY <1>11 DEF TypeOK, RemoveClose
<1>12. CASE UNCHANGED vars
  BY <1>12 DEF TypeOK, vars
<1>13. QED
  BY <1>1, <1>2, <1>3, <1>4, <1>5, <1>6, <1>7, <1>8, <1>9, <1>10, <1>11, <1>12
     DEF Next, SubscriptionStep, PublisherStep, RemoverStep

(* Every reachable state of the bus is well typed: in particular nobody    *)
(* sends to or closes a topic it has not found.                            *)
THEOREM TypeCorrect == Spec => []TypeOK
  BY TypeInit, TypeStep, PTL DEF Spec

-----------------------------------------------------------------------------
(* Closing *)

LEMMA CloseInit == Init => CloseInv
<1> SUFFICES ASSUME Init PROVE CloseInv
  OBVIOUS
<1>1. TypeOK
  BY TypeInit
<1>2. TopicsInOrder
  BY DEF Init, TopicsInOrder
<1>3. ListedAtHome /\ LiveTopicOpen
  BY DEF Init, ListedAtHome, LiveTopicOpen
<1>4. CloseOwner /\ CloseOnce
  BY DEF Init, CloseOwner, CloseOnce
<1>5. QED
  BY <1>1, <1>2, <1>3, <1>4 DEF CloseInv

(* The topic of a get-or-create section is the live one or a new one, which *)
(* nobody has joined.                                                       *)
LEMMA CreateKeepsOrder ==
  ASSUME CloseInv, GetOrCreate
  PROVE  /\ current' = created' /\ created <= created' /\ current' \in Topics
         /\ current # None => current' = current
         /\ current = None => \A t \in Topics : subs[t] # {} => t # current'
         /\ \A r \in Removers :
              rpc[r] = "close" => rtopic[r] # current' /\ rtopic[r] <= created'
         /\ \A s \in Subscriptions : home[s] # None => home[s] <= created'
<1>1. current' \in Topics /\ created' \in 0..MaxTopics /\ created <= created'
  BY GetOrCreateType DEF CloseInv
<1>2. current' = created' /\ (current # None => current' = current)
  BY DEF CloseInv, TopicsInOrder, GetOrCreate, TypeOK, Topics
<1>3. \A r \in Removers :
        rpc[r] = "close" => rtopic[r] # current' /\ rtopic[r] <= created'
  <2> SUFFICES ASSUME NEW r \in Removers, rpc[r] = "close"
               PROVE  rtopic[r] # current' /\ rtopic[r] <= created'
    OBVIOUS
  <2>1. rtopic[r] \in Nat /\ rtopic[r] # current /\ rtopic[r] <= created
    BY DEF CloseInv, TopicsInOrder, TypeOK, Topics
  <2>2. created \in Nat
    BY DEF CloseInv, TypeOK
  <2>3. QED
    BY <2>1, <2>2 DEF GetOrCreate
<1>4. \A s \in Subscriptions : home[s] # None => home[s] <= created'
  <2> SUFFICES ASSUME NEW s \in Subscriptions, home[s] # None
               PROVE  home[s] <= created'
    OBVIOUS
  <2>1. home[s] \in Nat /\ home[s] <= created /\ created \in Nat
    BY DEF CloseInv, TopicsInOrder, TypeOK, Topics
  <2>2. QED
    BY <2>1 DEF GetOrCreate
<1>5. current = None => \A t \in Topics : subs[t] # {} => t # current'
  <2> SUFFICES ASSUME current = None, NEW t \in Topics, subs[t] # {}
               PROVE  t # current'
    OBVIOUS
  <2>1. PICK s \in subs[t] : home[s] = t /\ s \in Subscriptions
    BY DEF CloseInv, ListedAtHome, TypeOK
  <2>2. t <= created
    BY <2>1 DEF CloseInv, TopicsInOrder, Topics
  <2>3. current' = created + 1
    BY DEF GetOrCreate
  <2>4. QED
    BY <2>2, <2>3 DEF CloseInv, TypeOK, Topics
<1>6. QED
  BY <1>1, <1>2, <1>3, <1>4, <1>5

LEMMA CloseStep == CloseInv /\ [Next]_vars => CloseInv'
<1> SUFFICES ASSUME CloseInv, [Next]_vars PROVE CloseInv'
  OBVIOUS
<1> USE DEF topicVars, subVars
<1>t. TypeOK /\ TypeOK'
  BY TypeStep DEF CloseInv
<1>1. ASSUME NEW s \in Subscriptions, SubscribeLookup(s) PROVE CloseInv'
  <2>1. GetOrCreate /\ home' = [home EXCEPT ![s] = current']
    BY <1>1 DEF SubscribeLookup
  <2>2. TopicsInOrder'
    BY <1>1, <1>t, <2>1, CreateKeepsOrder
       DEF TypeOK, TopicsInOrder, SubscribeLookup
  <2>3. \A t \in Topics : s \notin subs[t]
    BY <1>1 DEF CloseInv, ListedAtHome, SubscribeLookup
  <2>4. ListedAtHome'
    BY <1>1, <1>t, <2>1, <2>3
       DEF CloseInv, ListedAtHome, TypeOK, SubscribeLookup
  <2>5. CloseOwner' /\ CloseOnce'
    BY <1>1, <1>t DEF CloseInv, CloseOwner, CloseOnce, TypeOK, SubscribeLookup
  <2>6. LiveTopicOpen'
    BY <1>1, <2>1, CreateKeepsOrder DEF CloseInv, LiveTopicOpen, SubscribeLookup
  <2>7. QED
    BY <1>t, <2>2, <2>4, <2>5, <2>6 DEF CloseInv
<1>2. ASSUME NEW s \in Subscriptions, Attach(s) PROVE CloseInv'
  <2>1. home[s] \in Topics /\ subs' = [subs EXCEPT ![home[s]] = @ \cup {s}]
    BY <1>2, <1>t DEF TypeOK, Attach
  <2>2. ~chClosed[s]
    BY <1>2, <1>t DEF CloseInv, CloseOwner, Attach, TypeOK
  <2>3. TopicsInOrder'
    BY <1>2 DEF CloseInv, TopicsInOrder, Attach
  <2>4. ListedAtHome'
    BY <1>2, <1>t, <2>1 DEF CloseInv, ListedAtHome, TypeOK, Attach
  <2>5. CloseOwner' /\ CloseOnce'
    BY <1>2, <1>t DEF CloseInv, CloseOwner, CloseOnce, TypeOK, Attach
  <2>6. LiveTopicOpen'
    BY <1>2, <1>t, <2>1, <2>2 DEF CloseInv, LiveTopicOpen, TypeOK, Attach
  <2>7. QED
    BY <1>t, <2>3, <2>4, <2>5, <2>6 DEF CloseInv
<1>3. ASSUME NEW s \in Subscriptions, Receive(s) PROVE CloseInv'
  BY <1>3, <1>t DEF CloseInv, TopicsInOrder, ListedAtHome, CloseOwner,
     LiveTopicOpen, CloseOnce, Receive
<1>4. ASSUME NEW s \in Subscriptions, UnsubscribeFlag(s) PROVE CloseInv'
  <2>1. TopicsInOrder' /\ LiveTopicOpen' /\ CloseOnce'
    BY <1>4 DEF CloseInv, TopicsInOrder, LiveTopicOpen, CloseOnce, UnsubscribeFlag
  <2>2. ListedAtHome'
    <3>1. /\ \A x \in Subscriptions \ {s} : spc'[x] = spc[x]
          /\ spc'[s] \in {"unlist", "gone"}
      BY <1>4, <1>t DEF TypeOK, UnsubscribeFlag
    <3>2. subs' = subs /\ home' = home
      BY <1>4 DEF UnsubscribeFlag
    <3>3. \A t \in Topics : subs[t] \subseteq Subscriptions
      BY <1>t DEF TypeOK
    <3>4. QED
      BY <3>1, <3>2, <3>3 DEF CloseInv, ListedAtHome
  <2>3. CloseOwner'
    BY <1>4, <1>t DEF CloseInv, CloseOwner, TypeOK, UnsubscribeFlag
  <2>4. QED
    BY <1>t, <2>1, <2>2, <2>3 DEF CloseInv
<1>5. ASSUME NEW s \in Subscriptions, Unlist(s) PROVE CloseInv'
  <2>1. TopicsInOrder' /\ CloseOnce'
    BY <1>5 DEF CloseInv, TopicsInOrder, CloseOnce, Unlist
  <2>2. ListedAtHome' /\ LiveTopicOpen'
    BY <1>5, <1>t DEF CloseInv, ListedAtHome, LiveTopicOpen, TypeOK, Unlist
  <2>3. CloseOwner'
    BY <1>5, <1>t DEF CloseInv, CloseOwner, TypeOK, Unlist
  <2>4. QED
    BY <1>t, <2>1, <2>2, <2>3 DEF CloseInv
<1>6. ASSUME NEW s \in Subscriptions, CloseChannel(s) PROVE CloseInv'
  <2>1. \A t \in Topics : s \notin subs[t]
    BY <1>6 DEF CloseInv, ListedAtHome, CloseChannel
  <2>2. ~chClosed[s]
    BY <1>6 DEF CloseInv, CloseOwner, CloseChannel
  <2>3. TopicsInOrder' /\ CloseOnce'
    BY <1>6, <2>2 DEF CloseInv, TopicsInOrder, CloseOnce, CloseChannel
  <2>a. /\ \A x \in Subscriptions \ {s} :
             spc'[x] = spc[x] /\ chClosed'[x] = chClosed[x]
        /\ spc'[s] = "gone" /\ chClosed'[s] = TRUE
        /\ UNCHANGED <<subs, home, closedFlag, current>>
    BY <1>6, <1>t DEF TypeOK, CloseChannel
  <2>b. \A t \in Topics : subs[t] \subseteq Subscriptions
    BY <1>t DEF TypeOK
  <2>4. ListedAtHome' /\ LiveTopicOpen'
    <3>1. ListedAtHome'
      BY <2>1, <2>a, <2>b DEF CloseInv, ListedAtHome
    <3>2. LiveTopicOpen'
      BY <1>t, <2>1, <2>a, <2>b DEF CloseInv, LiveTopicOpen, TypeOK
    <3>3. QED
      BY <3>1, <3>2
  <2>5. CloseOwner'
    <3>1. closedFlag[s]
      BY <1>6 DEF CloseInv, CloseOwner, CloseChannel
    <3>2. QED
      BY <2>a, <3>1 DEF CloseInv, CloseOwner
  <2>6. QED
    BY <1>t, <2>3, <2>4, <2>5 DEF CloseInv
<1>7. ASSUME NEW p \in Publishers, PublishLookup(p) PROVE CloseInv'
  BY <1>7, <1>t DEF CloseInv, TopicsInOrder, ListedAtHome, CloseOwner,
     LiveTopicOpen, CloseOnce, PublishLookup
<1>8. ASSUME NEW p \in Publishers, PublishCreate(p) PROVE CloseInv'
  <2>1. GetOrCreate
    BY <1>8 DEF PublishCreate
  <2>2. TopicsInOrder'
    BY <1>8, <2>1, CreateKeepsOrder DEF TopicsInOrder, PublishCreate
  <2>3. LiveTopicOpen'
    BY <1>8, <2>1, CreateKeepsOrder DEF CloseInv, LiveTopicOpen, PublishCreate
  <2>4. QED
    BY <1>8, <1>t, <2>2, <2>3
       DEF CloseInv, ListedAtHome, CloseOwner, CloseOnce, PublishCreate
<1>9. ASSUME NEW p \in Publishers, PublishSend(p) PROVE CloseInv'
  BY <1>9, <1>t DEF CloseInv, TopicsInOrder, ListedAtHome, CloseOwner,
     LiveTopicOpen, CloseOnce, PublishSend
<1>10. ASSUME NEW r \in Removers, RemoveDetach(r) PROVE CloseInv'
  <2>1. TopicsInOrder'
    BY <1>10, <1>t, EventBusAssumption
       DEF CloseInv, TopicsInOrder, TypeOK, Topics, RemoveDetach
  <2>2. QED
    BY <1>10, <1>t, <2>1 DEF CloseInv, ListedAtHome, CloseOwner,
       LiveTopicOpen, CloseOnce, RemoveDetach
<1>11. ASSUME NEW r \in Removers, RemoveClose(r) PROVE CloseInv'
  <2>1. /\ rtopic[r] \in Topics /\ rtopic[r] # current
        /\ \A s \in subs[rtopic[r]] : home[s] = rtopic[r]
    BY <1>11, <1>t DEF CloseInv, TopicsInOrder, ListedAtHome, TypeOK, RemoveClose
  <2>2. TopicsInOrder' /\ ListedAtHome'
    <3>1. ListedAtHome'
      BY <1>11 DEF CloseInv, ListedAtHome, RemoveClose
    <3>2. /\ \A x \in Removers \ {r} : rpc'[x] = rpc[x] /\ rtopic'[x] = rtopic[x]
          /\ rpc'[r] = "idle"
          /\ UNCHANGED <<current, created, home>>
      BY <1>11, <1>t DEF TypeOK, RemoveClose
    <3>3. TopicsInOrder'
      BY <3>2 DEF CloseInv, TopicsInOrder
    <3>4. QED
      BY <3>1, <3>3
  <2>3. CloseOnce'
    BY <1>11, <1>t DEF CloseInv, CloseOwner, CloseOnce, TypeOK, RemoveClose
  <2>4. CloseOwner'
    BY <1>11, <1>t, <2>1
       DEF CloseInv, CloseOwner, ListedAtHome, TypeOK, RemoveClose
  <2>5. LiveTopicOpen'
    BY <1>11, <1>t, <2>1
       DEF CloseInv, LiveTopicOpen, ListedAtHome, TypeOK, RemoveClose
  <2>6. QED
    BY <1>t, <2>2, <2>3, <2>4, <2>5 DEF CloseInv
<1>12. CASE UNCHANGED vars
  BY <1>12, <1>t DEF CloseInv, TopicsInOrder, ListedAtHome, CloseOwner,
     LiveTopicOpen, CloseOnce, vars
<1>13. QED
  BY <1>1, <1>2, <1>3, <1>4, <1>5, <1>6, <1>7, <1>8, <1>9, <1>10, <1>11, <1>12
     DEF Next, SubscriptionStep, PublisherStep, RemoverStep

(* A publisher that finds the topic of the map never sends to a closed     *)
(* channel, and no channel is ever closed twice, for any number of readers *)
(* unsubscribing while any number of RemoveTopic calls run.                *)
THEOREM CloseSafety == Spec => [](LiveTopicOpen /\ CloseOnce)
<1>1. CloseInv => LiveTopicOpen /\ CloseOnce
  BY DEF CloseInv
<1>2. QED
  BY <1>1, CloseInit, CloseStep, PTL DEF Spec

-----------------------------------------------------------------------------
(* Delivery *)

(* Remembering the next event keeps the history a window that ends there. *)
LEMMA RememberWindow ==
  ASSUME NEW h \in Seq(Int), NEW n \in Nat,
         Len(h) <= n, Len(h) <= MaxHistory,
         \A i \in 1..Len(h) : h[i] = n - Len(h) + i
  PROVE  /\ Len(Remember(h, n + 1)) <= n + 1
         /\ Len(Remember(h, n + 1)) <= MaxHistory
         /\ \A i \in 1..Len(Remember(h, n + 1)) :
              Remember(h, n + 1)[i] = (n + 1) - Len(Remember(h, n + 1)) + i
<1>1. CASE MaxHistory = 0
  BY <1>1 DEF Remember
<1>2. CASE MaxHistory # 0 /\ Len(h) < MaxHistory
  <2>1. Remember(h, n + 1) = Append(h, n + 1)
    BY <1>2 DEF Remember
  <2>2. /\ Len(Append(h, n + 1)) = Len(h) + 1
        /\ \A i \in 1..Len(h) : Append(h, n + 1)[i] = h[i]
        /\ Append(h, n + 1)[Len(h) + 1] = n + 1
    OBVIOUS
  <2> HIDE DEF Remember
  <2>3. \A i \in 1..(Len(h) + 1) :
          Append(h, n + 1)[i] = (n + 1) - (Len(h) + 1) + i
    <3> SUFFICES ASSUME NEW i \in 1..(Len(h) + 1)
                 PROVE  Append(h, n + 1)[i] = (n + 1) - (Len(h) + 1) + i
      OBVIOUS
    <3>1. CASE i \in 1..Len(h)
      BY <2>2, <3>1
    <3>2. CASE i = Len(h) + 1
      BY <2>2, <3>2
    <3>3. QED
      BY <3>1, <3>2
  <2>4. Len(h) \in Nat /\ Len(Remember(h, n + 1)) = (Len(h) + 1)
    BY <2>1, <2>2
  <2>5. \A i \in 1..(Len(h) + 1) :
          Remember(h, n + 1)[i] = (n + 1) - (Len(h) + 1) + i
    BY <2>1, <2>3
  <2>6. (Len(h) + 1) <= n + 1 /\ (Len(h) + 1) <= MaxHistory
    BY <1>2, <2>4
  <2>7. QED
    BY <2>4, <2>5, <2>6
<1>3. CASE MaxHistory # 0 /\ Len(h) = MaxHistory
  <2>1. Remember(h, n + 1) = Append(Tail(h), n + 1)
    BY <1>3 DEF Remember
  <2>2. /\ Len(Append(Tail(h), n + 1)) = Len(h)
        /\ \A i \in 1..(Len(h) - 1) : Append(Tail(h), n + 1)[i] = h[i + 1]
        /\ Append(Tail(h), n + 1)[Len(h)] = n + 1
    BY <1>3
  <2>3. \A i \in 1..Len(h) : Append(Tail(h), n + 1)[i] = (n + 1) - Len(h) + i
    <3> SUFFICES ASSUME NEW i \in 1..Len(h)
                 PROVE  Append(Tail(h), n + 1)[i] = (n + 1) - Len(h) + i
      OBVIOUS
    <3>1. CASE i \in 1..(Len(h) - 1)
      BY <2>2, <3>1
    <3>2. CASE i = Len(h)
      BY <2>2, <3>2
    <3>3. QED
      BY <3>1, <3>2
  <2>4. Len(h) \in Nat /\ Len(Remember(h, n + 1)) = Len(h)
    BY <2>1, <2>2
  <2>5. \A i \in 1..Len(h) :
          Remember(h, n + 1)[i] = (n + 1) - Len(h) + i
    BY <2>1, <2>3
  <2>6. Len(h) <= n + 1 /\ Len(h) <= MaxHistory
    BY <1>3, <2>4
  <2>7. QED
    BY <2>4, <2>5, <2>6
<1>4. QED
  BY <1>1, <1>2, <1>3

(* The history of a topic stays a window ending at its last event. *)
LEMMA HistoryStep ==
  ASSUME CloseInv, HistoryWindow, [Next]_vars
  PROVE  HistoryWindow'
<1>t. TypeOK
  BY DEF CloseInv
<1>1. ASSUME NEW p \in Publishers, PublishSend(p) PROVE HistoryWindow'
  <2> DEFINE t == ptopic[p]
  <2>1. /\ t \in Topics
        /\ count' = [count EXCEPT ![t] = count[t] + 1]
        /\ history' = [history EXCEPT ![t] = Remember(history[t], count[t] + 1)]
    BY <1>1, <1>t DEF TypeOK, PublishSend
  <2>2. count[t] \in Nat /\ history[t] \in Seq(Int)
    <3>1. count[t] \in 0..MaxEvents /\ history[t] \in Seq(1..MaxEvents)
      BY <1>t, <2>1 DEF TypeOK
    <3>2. QED
      BY <3>1
  <2> HIDE DEF t
  <2>3. /\ Len(Remember(history[t], count[t] + 1)) <= count[t] + 1
        /\ Len(Remember(history[t], count[t] + 1)) <= MaxHistory
        /\ \A i \in 1..Len(Remember(history[t], count[t] + 1)) :
             Remember(history[t], count[t] + 1)[i]
               = (count[t] + 1) - Len(Remember(history[t], count[t] + 1)) + i
    BY <2>1, <2>2, RememberWindow DEF HistoryWindow
  <2>4. /\ count'[t] = count[t] + 1
        /\ history'[t] = Remember(history[t], count[t] + 1)
        /\ \A x \in Topics \ {t} : count'[x] = count[x] /\ history'[x] = history[x]
    BY <1>t, <2>1 DEF TypeOK
  <2>5. QED
    BY <2>3, <2>4 DEF HistoryWindow
<1>2. CASE UNCHANGED <<count, history>>
  BY <1>2 DEF HistoryWindow
<1>3. QED
  BY <1>1, <1>2 DEF Next, vars, topicVars, subVars, SubscriptionStep,
     PublisherStep, RemoverStep, SubscribeLookup, Attach, Receive,
     UnsubscribeFlag, Unlist, CloseChannel, PublishLookup, PublishCreate,
     RemoveDetach, RemoveClose

(* What one subscription is owed and was given, for the topic it is at. *)
OrderOf(s) ==
    LET n == count[home[s]] IN
    /\ spc[s] \in {"idle", "replay", "live"} => delivered[s] = <<>>
    /\ spc[s] \notin {"idle", "replay", "live"} => from[s] <= n + 1
    /\ \A i, j \in 1..Len(delivered[s]) :
         i < j => delivered[s][i] < delivered[s][j]
    /\ \A i \in 1..Len(delivered[s]) : delivered[s][i] \in from[s]..n
    /\ panic = "none" /\ home[s] # None /\ s \in subs[home[s]]
         /\ n - from[s] + 1 <= ChanCap
       => /\ Len(delivered[s]) = n - from[s] + 1
          /\ \A i \in 1..(n - from[s] + 1) : delivered[s][i] = from[s] + i - 1

LEMMA OrderSplit ==
  FreshEmpty /\ OwedFromFuture /\ InOrder /\ ShortStreamComplete
    <=> \A s \in Subscriptions : OrderOf(s)
  BY DEF FreshEmpty, OwedFromFuture, InOrder, ShortStreamComplete, OrderOf

(* A step of anybody else leaves a subscription as it was. *)
LEMMA OrderFrame ==
  ASSUME NEW s \in Subscriptions, OrderOf(s),
         UNCHANGED <<panic, count>>,
         delivered'[s] = delivered[s], from'[s] = from[s],
         home'[s] = home[s],
         spc'[s] \in {"idle", "replay", "live"} => spc[s] \in {"idle", "replay", "live"},
         spc'[s] \notin {"idle", "replay", "live"} => spc[s] \notin {"idle", "replay", "live"},
         home[s] # None /\ s \in subs'[home[s]] => s \in subs[home[s]]
  PROVE  OrderOf(s)'
  BY DEF OrderOf

(* What Attach gives a subscription: a window of the newest events, cut at  *)
(* the capacity of the channel, or nothing.                                *)
LEMMA AttachOrder ==
  ASSUME CloseInv, HistoryWindow, NEW s \in Subscriptions, OrderOf(s), Attach(s)
  PROVE  OrderOf(s)'
<1> DEFINE t == home[s]
           h == history[t]
           n == count[t]
<1>t. TypeOK
  BY DEF CloseInv
<1>1. t \in Topics /\ t # None
  BY <1>t DEF TypeOK, Attach
<1>2. h \in Seq(1..MaxEvents) /\ n \in 0..MaxEvents
  BY <1>1, <1>t DEF TypeOK
<1>3. /\ h \in Seq(Int) /\ n \in Nat /\ Len(h) \in Nat /\ Len(h) <= n
      /\ \A i \in 1..Len(h) : h[i] = n - Len(h) + i
  BY <1>1, <1>2 DEF HistoryWindow
<1>4. /\ Replayed(h) \in Seq(Int)
      /\ Len(Replayed(h)) \in Nat
      /\ Len(Replayed(h)) <= Len(h)
      /\ \A i \in 1..Len(Replayed(h)) : Replayed(h)[i] = h[i]
      /\ Len(h) <= ChanCap => Len(Replayed(h)) = Len(h)
  <2>1. Replayed(h) \in Seq(Int)
    BY <1>3, ReplayedType
  <2>2. Len(h) <= ChanCap => Len(Replayed(h)) = Len(h)
    BY DEF Replayed
  <2>3. QED
    BY <1>3, <2>1, <2>2, ReplayedType
<1>5. /\ home' = home /\ count' = count
      /\ spc'[s] = "open" /\ delivered[s] = <<>>
  BY <1>t DEF Attach, TypeOK, OrderOf
<1>6. CASE spc[s] = "replay"
  <2>1. delivered'[s] = Replayed(h) /\ from'[s] = n - Len(h) + 1
    BY <1>6, <1>t DEF Attach, TypeOK
  <2> HIDE DEF t, h, n
  <2>2. \A i \in 1..Len(Replayed(h)) : Replayed(h)[i] = n - Len(h) + i
    BY <1>3, <1>4
  <2>3. count'[home'[s]] = n
    BY <1>5 DEF n, t
  <2>4. /\ from'[s] <= n + 1
        /\ \A i, j \in 1..Len(Replayed(h)) :
             i < j => Replayed(h)[i] < Replayed(h)[j]
        /\ \A i \in 1..Len(Replayed(h)) : Replayed(h)[i] \in from'[s]..n
    BY <1>3, <1>4, <2>1, <2>2
  <2>5. n - from'[s] + 1 = Len(h)
    BY <1>3, <2>1
  <2>6. Len(h) <= ChanCap =>
          /\ Len(Replayed(h)) = Len(h)
          /\ \A i \in 1..Len(h) : Replayed(h)[i] = from'[s] + i - 1
    BY <1>3, <1>4, <2>1, <2>2
  <2>7. QED
    BY <1>5, <2>1, <2>3, <2>4, <2>5, <2>6 DEF OrderOf
<1>7. CASE spc[s] = "live"
  <2>1. delivered'[s] = <<>> /\ from'[s] = n + 1
    BY <1>5, <1>7, <1>t DEF Attach, TypeOK
  <2> HIDE DEF t, h, n
  <2>2. count'[home'[s]] = n
    BY <1>5 DEF n, t
  <2>3. n - from'[s] + 1 = 0 /\ from'[s] <= n + 1
    BY <1>3, <2>1
  <2>4. QED
    BY <1>5, <2>1, <2>2, <2>3 DEF OrderOf
<1>8. QED
  BY <1>6, <1>7 DEF Attach

(* What a publication gives a subscription: the next event if the topic     *)
(* lists it and its channel has room, else nothing.                         *)
LEMMA PublishOrder ==
  ASSUME CloseInv, NEW p \in Publishers, PublishSend(p),
         NEW x \in Subscriptions, OrderOf(x)
  PROVE  OrderOf(x)'
<1> DEFINE t == ptopic[p]
           n == count[home[x]]
           d == delivered[x]
<1>t. TypeOK
  BY DEF CloseInv
<1>1. /\ t \in Topics /\ panic = "none"
      /\ count' = [count EXCEPT ![t] = count[t] + 1]
      /\ UNCHANGED <<subs, home, from, nread, spc>>
  BY <1>t DEF TypeOK, PublishSend
<1>2. d \in Seq(Int) /\ Len(d) \in Nat /\ nread[x] \in Nat /\ from[x] \in Int
  <2>1. delivered[x] \in Seq(1..MaxEvents) /\ nread[x] \in Nat /\ from[x] \in Int
    BY <1>t DEF TypeOK
  <2>2. QED
    BY <2>1
<1>3. CASE home[x] # t
  <2>1. x \notin subs[t]
    BY <1>1, <1>3 DEF CloseInv, ListedAtHome
  <2>2. delivered'[x] = delivered[x]
    BY <1>t, <2>1 DEF PublishSend, TypeOK
  <2>3. count'[home[x]] = count[home[x]] \/ home[x] = None
    BY <1>1, <1>3, <1>t DEF TypeOK
  <2>4. home[x] = None => delivered[x] = <<>> /\ spc[x] = "idle"
    BY <1>t, EventBusAssumption DEF OrderOf, TypeOK
  <2>5. QED
    BY <1>1, <2>2, <2>3, <2>4 DEF OrderOf
<1>4. CASE home[x] = t
  <2>1. n \in Nat /\ count'[home'[x]] = n + 1
    <3>1. n \in 0..MaxEvents
      BY <1>1, <1>4, <1>t DEF TypeOK
    <3>2. QED
      BY <1>1, <1>4, <1>t, <3>1 DEF TypeOK
  <2>2. /\ spc[x] \in {"idle", "replay", "live"} => d = <<>> /\ x \notin subs[t]
        /\ spc[x] \notin {"idle", "replay", "live"} => from[x] <= n + 1
        /\ \A i, j \in 1..Len(d) : i < j => d[i] < d[j]
        /\ \A i \in 1..Len(d) : d[i] \in from[x]..n
    BY <1>1 DEF OrderOf, CloseInv, ListedAtHome
  <2>3. CASE x \in subs[t] /\ Room(x) /\ delivered'[x] = Append(d, n + 1)
    <3>1. /\ Len(Append(d, n + 1)) = Len(d) + 1
          /\ \A i \in 1..Len(d) : Append(d, n + 1)[i] = d[i]
          /\ Append(d, n + 1)[Len(d) + 1] = n + 1
      BY <1>2, <2>1
    <3>2. from[x] <= n + 1 /\ spc[x] \notin {"idle", "replay", "live"}
      BY <2>2, <2>3
    <3>3. n - from[x] + 1 <= ChanCap =>
            /\ Len(d) = n - from[x] + 1
            /\ \A i \in 1..(n - from[x] + 1) : d[i] = from[x] + i - 1
      BY <1>1, <1>4, <2>3, EventBusAssumption DEF OrderOf
    <3> DEFINE a == Append(d, n + 1)
               m == n + 1
    <3>4. Len(a) = Len(d) + 1 /\ \A i \in 1..Len(d) : a[i] = d[i]
      BY <3>1
    <3>5. a[Len(d) + 1] = m
      BY <3>1
    <3> HIDE DEF a, d, n
    <3>6. \A i, j \in 1..Len(a) : i < j => a[i] < a[j]
      <4> SUFFICES ASSUME NEW i \in 1..Len(a), NEW j \in 1..Len(a), i < j
                   PROVE  a[i] < a[j]
        OBVIOUS
      <4>1. i \in 1..Len(d) /\ a[i] = d[i] /\ d[i] \in from[x]..n
        BY <1>2, <2>2, <3>4
      <4>2. CASE j = Len(d) + 1
        BY <1>2, <2>1, <3>5, <4>1, <4>2
      <4>3. CASE j \in 1..Len(d)
        BY <2>2, <3>4, <4>1, <4>3
      <4>4. QED
        BY <1>2, <3>4, <4>2, <4>3
    <3>7. \A i \in 1..Len(a) : a[i] \in from[x]..m
      <4> SUFFICES ASSUME NEW i \in 1..Len(a) PROVE a[i] \in from[x]..m
        OBVIOUS
      <4>1. CASE i = Len(d) + 1
        BY <1>2, <2>1, <3>2, <3>5, <4>1
      <4>2. CASE i \in 1..Len(d)
        <5>1. d[i] \in from[x]..n /\ a[i] = d[i]
          BY <2>2, <3>4, <4>2
        <5>2. QED
          BY <1>2, <2>1, <5>1
      <4>3. QED
        BY <1>2, <3>4, <4>1, <4>2
    <3>8. m - from[x] + 1 <= ChanCap =>
            /\ Len(a) = m - from[x] + 1
            /\ \A i \in 1..(m - from[x] + 1) : a[i] = from[x] + i - 1
      <4> SUFFICES ASSUME m - from[x] + 1 <= ChanCap
                   PROVE  /\ Len(a) = m - from[x] + 1
                          /\ \A i \in 1..(m - from[x] + 1) : a[i] = from[x] + i - 1
        OBVIOUS
      <4>1. /\ Len(d) = n - from[x] + 1
            /\ \A i \in 1..(n - from[x] + 1) : d[i] = from[x] + i - 1
        BY <1>2, <2>1, <3>3
      <4>2. Len(a) = m - from[x] + 1
        BY <1>2, <2>1, <3>4, <4>1
      <4> SUFFICES ASSUME NEW i \in 1..Len(a) PROVE a[i] = from[x] + i - 1
        BY <4>2
      <4>3. CASE i = Len(d) + 1
        BY <1>2, <2>1, <3>5, <4>1, <4>3
      <4>4. CASE i \in 1..Len(d)
        BY <3>4, <4>1, <4>4
      <4>5. QED
        BY <1>2, <3>4, <4>3, <4>4
    <3>9. delivered'[x] = a /\ count'[home'[x]] = m /\ from[x] <= m + 1
      BY <1>2, <2>1, <2>3, <3>2 DEF a
    <3> HIDE DEF m
    <3>10. QED
      BY <1>1, <3>2, <3>6, <3>7, <3>8, <3>9 DEF OrderOf
  <2>4. CASE (x \notin subs[t] \/ ~Room(x) \/ panic' # "none") /\ delivered'[x] = d
    <3> DEFINE m == n + 1
    <3>1. /\ spc[x] \notin {"idle", "replay", "live"} => from[x] <= m + 1
          /\ \A i \in 1..Len(d) : d[i] \in from[x]..m
      BY <1>2, <2>1, <2>2
    <3>2. ~(/\ panic' = "none" /\ x \in subs[t] /\ m - from[x] + 1 <= ChanCap)
      <4> SUFFICES ASSUME x \in subs[t], ~Room(x), m - from[x] + 1 <= ChanCap
                   PROVE  FALSE
        BY <2>4
      <4>1. n - from[x] + 1 <= ChanCap /\ n - from[x] + 1 < ChanCap
        BY <1>2, <2>1
      <4>2. Len(d) = n - from[x] + 1
        BY <1>1, <1>4, <4>1, EventBusAssumption DEF OrderOf
      <4>3. Len(d) - nread[x] >= ChanCap
        BY <1>2 DEF Room
      <4>4. QED
        BY <1>2, <2>1, <4>1, <4>2, <4>3
    <3>3. count'[home'[x]] = m
      BY <2>1
    <3> HIDE DEF m, d
    <3>4. QED
      BY <1>1, <1>4, <2>2, <2>4, <3>1, <3>2, <3>3 DEF OrderOf
  <2>5. \/ x \in subs[t] /\ Room(x) /\ delivered'[x] = Append(d, n + 1)
        \/ (x \notin subs[t] \/ ~Room(x) \/ panic' # "none") /\ delivered'[x] = d
    <3>1. count[t] = n
      BY <1>4
    <3>2. CASE /\ panic' = "send on closed channel"
               /\ UNCHANGED delivered
      BY <3>2
    <3>3. CASE delivered' = [s \in Subscriptions |->
                               IF s \in subs[t] /\ Room(s)
                               THEN Append(delivered[s], count[t] + 1)
                               ELSE delivered[s]]
      <4>1. delivered'[x] = IF x \in subs[t] /\ Room(x)
                            THEN Append(delivered[x], count[t] + 1)
                            ELSE delivered[x]
        BY <3>3
      <4> HIDE DEF t, n
      <4>2. CASE x \in subs[t] /\ Room(x)
        BY <3>1, <4>1, <4>2
      <4>3. CASE ~(x \in subs[t] /\ Room(x))
        BY <4>1, <4>3
      <4>4. QED
        BY <4>2, <4>3
    <3>4. \/ /\ panic' = "send on closed channel"
             /\ UNCHANGED delivered
          \/ delivered' = [s \in Subscriptions |->
                             IF s \in subs[t] /\ Room(s)
                             THEN Append(delivered[s], count[t] + 1)
                             ELSE delivered[s]]
      BY DEF PublishSend
    <3> HIDE DEF t, n, d
    <3>5. QED
      BY <3>2, <3>3, <3>4
  <2>6. QED
    BY <2>3, <2>4, <2>5
<1>5. QED
  BY <1>3, <1>4

LEMMA OrderInit == Init => OrderInv
<1> SUFFICES ASSUME Init PROVE OrderInv
  OBVIOUS
<1>1. HistoryWindow
  BY EventBusAssumption DEF Init, HistoryWindow
<1>2. FreshEmpty /\ OwedFromFuture /\ InOrder /\ ShortStreamComplete
  BY DEF Init, FreshEmpty, OwedFromFuture, InOrder, ShortStreamComplete
<1>3. QED
  BY <1>1, <1>2, CloseInit DEF OrderInv

LEMMA OrderStep == OrderInv /\ [Next]_vars => OrderInv'
<1> SUFFICES ASSUME OrderInv, [Next]_vars PROVE OrderInv'
  OBVIOUS
<1>c. CloseInv /\ CloseInv'
  BY CloseStep DEF OrderInv
<1>h. HistoryWindow /\ HistoryWindow'
  BY <1>c, HistoryStep DEF OrderInv
<1>t. TypeOK
  BY <1>c DEF CloseInv
<1>o. \A x \in Subscriptions : OrderOf(x)
  BY OrderSplit DEF OrderInv
<1> SUFFICES \A x \in Subscriptions : OrderOf(x)'
  <2>1. FreshEmpty' /\ OwedFromFuture' /\ InOrder' /\ ShortStreamComplete'
    BY OrderSplit DEF FreshEmpty, OwedFromFuture, InOrder, ShortStreamComplete,
       OrderOf
  <2>2. QED
    BY <2>1, <1>c, <1>h DEF OrderInv
<1> USE DEF topicVars, subVars
<1>1. ASSUME NEW s \in Subscriptions, SubscribeLookup(s),
             NEW x \in Subscriptions
      PROVE  OrderOf(x)'
  <2>1. CASE x = s
    <3>1. /\ delivered'[x] = <<>> /\ spc'[x] \in {"replay", "live"}
      BY <1>1, <1>o, <1>t, <2>1 DEF SubscribeLookup, OrderOf, TypeOK
    <3>2. home'[x] # None => x \notin subs'[home'[x]]
      BY <1>c, <1>t, <3>1 DEF CloseInv, ListedAtHome, TypeOK
    <3>3. QED
      BY <3>1, <3>2 DEF OrderOf
  <2>2. CASE x # s
    BY <1>1, <1>o, <1>t, <2>2, OrderFrame DEF SubscribeLookup, TypeOK
  <2>3. QED
    BY <2>1, <2>2
<1>2. ASSUME NEW s \in Subscriptions, Attach(s), NEW x \in Subscriptions
      PROVE  OrderOf(x)'
  <2>1. CASE x = s
    BY <1>2, <1>c, <1>h, <1>o, <2>1, AttachOrder
  <2>2. CASE x # s
    BY <1>2, <1>o, <1>t, <2>2, OrderFrame DEF Attach, TypeOK
  <2>3. QED
    BY <2>1, <2>2
<1>3. ASSUME NEW s \in Subscriptions, NEW x \in Subscriptions,
             Receive(s) \/ UnsubscribeFlag(s) \/ Unlist(s)
      PROVE  OrderOf(x)'
  <2>1. CASE Receive(s)
    BY <2>1, <1>o, OrderFrame DEF Receive
  <2>2. CASE UnsubscribeFlag(s)
    BY <2>2, <1>o, <1>t, OrderFrame DEF UnsubscribeFlag, TypeOK
  <2>3. CASE Unlist(s)
    BY <2>3, <1>o, <1>t, OrderFrame DEF Unlist, TypeOK
  <2>4. QED
    BY <1>3, <2>1, <2>2, <2>3
<1>4. ASSUME NEW s \in Subscriptions, NEW x \in Subscriptions, CloseChannel(s)
      PROVE  OrderOf(x)'
  <2>1. UNCHANGED panic
    BY <1>4, <1>c DEF CloseInv, CloseOwner, CloseChannel
  <2>2. QED
    BY <1>4, <1>o, <1>t, <2>1, OrderFrame DEF CloseChannel, TypeOK
<1>5. ASSUME NEW p \in Publishers, NEW x \in Subscriptions,
             PublishLookup(p) \/ PublishCreate(p)
      PROVE  OrderOf(x)'
  BY <1>5, <1>o, OrderFrame DEF PublishLookup, PublishCreate
<1>6. ASSUME NEW p \in Publishers, NEW x \in Subscriptions, PublishSend(p)
      PROVE  OrderOf(x)'
  BY <1>6, <1>c, <1>o, PublishOrder
<1>7. ASSUME NEW r \in Removers, NEW x \in Subscriptions,
             RemoveDetach(r) \/ RemoveClose(r)
      PROVE  OrderOf(x)'
  <2>1. UNCHANGED panic
    <3>1. CASE RemoveDetach(r)
      BY <3>1 DEF RemoveDetach
    <3>2. CASE RemoveClose(r)
      <4>1. \A s \in subs[rtopic[r]] : s \in Subscriptions
        BY <3>2, <1>t DEF TypeOK, RemoveClose
      <4>2. \A s \in subs[rtopic[r]] : chClosed[s] => closedFlag[s]
        BY <4>1, <1>c DEF CloseInv, CloseOwner
      <4>3. QED
        BY <3>2, <4>2 DEF RemoveClose
    <3>3. QED
      BY <1>7, <3>1, <3>2
  <2>2. QED
    BY <1>7, <1>o, <2>1, OrderFrame DEF RemoveDetach, RemoveClose
<1>8. CASE UNCHANGED vars
  BY <1>8, <1>o, OrderFrame DEF vars
<1>9. QED
  BY <1>1, <1>2, <1>3, <1>4, <1>5, <1>6, <1>7, <1>8
     DEF Next, SubscriptionStep, PublisherStep, RemoverStep

(* Whatever the interleaving of publishers, readers and removals, a reader  *)
(* gets events in publication order, nothing twice across the seam of       *)
(* history and live events, and misses none while it is owed no more than   *)
(* its channel holds.                                                       *)
THEOREM DeliverySafety == Spec => [](InOrder /\ ShortStreamComplete)
<1>1. OrderInv => InOrder /\ ShortStreamComplete
  BY DEF OrderInv
<1>2. QED
  BY <1>1, OrderInit, OrderStep, PTL DEF Spec

(* In particular a stream that fits the channel of its reader reaches it    *)
(* without a gap, replayed or live (Subscribe, Publish).                    *)
COROLLARY StreamSafety == Spec => []ShortStreamComplete
BY DeliverySafety, PTL
=============================================================================
