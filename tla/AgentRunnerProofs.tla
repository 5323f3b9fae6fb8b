------------------------- MODULE AgentRunnerProofs -------------------------
(***************************************************************************)
(* Proofs about AgentRunner and Conversation, for every bound, budget,     *)
(* window and size, and all scenarios that AgentRunnerAssumption allows.   *)
(***************************************************************************)
EXTENDS AgentRunner, WellFoundedInduction, SequenceTheorems, TLAPS

-----------------------------------------------------------------------------
(* Histories and their parts *)

USE ConversationAssumption

(* Sets of naturals have a least element.                                   *)
LEMMA LeastNumber ==
    ASSUME NEW S \in SUBSET Nat, S # {}
    PROVE  Least(S) \in S /\ \A m \in S : Least(S) <= m
  <1>1. IsWellFoundedOn(OpToRel(<, Nat), Nat)
    BY NatLessThanWellFounded
  <1>2. PICK n \in S : \A m \in S : ~(<<m, n>> \in OpToRel(<, Nat))
    BY <1>1, WFMin
  <1>3. \A m \in S : ~(m < n)
    BY <1>2, Zenon DEF OpToRel
  <1>4. \A m \in S : n <= m
    BY <1>3
  <1> QED
    BY <1>4 DEF Least

LEMMA SmallIsSize == Small \in Sizes
  BY LeastNumber DEF Small

(* The messages behind some of them.                                        *)
LEMMA BehindTypes ==
    ASSUME NEW ms \in Seq(Message), NEW n \in Nat
    PROVE  /\ Behind(ms, n) \in Seq(Message)
           /\ Len(Behind(ms, n)) = IF n <= Len(ms) THEN Len(ms) - n ELSE 0
           /\ \A i \in 1..Len(Behind(ms, n)) : Behind(ms, n)[i] = ms[i + n]
  BY DEF Behind

LEMMA BehindNone ==
    ASSUME NEW ms \in Seq(Message)
    PROVE  Behind(ms, 0) = ms
  <1>1. Behind(ms, 0) \in Seq(Message) /\ Len(Behind(ms, 0)) = Len(ms)
        /\ \A i \in 1..Len(ms) : Behind(ms, 0)[i] = ms[i]
    BY BehindTypes
  <1> QED
    BY <1>1

(* How many messages are dropped before one that satisfies the predicate.   *)
LEMMA DropTypes ==
    ASSUME NEW ms \in Seq(Message), NEW n \in 0..Len(ms)
    PROVE  /\ DropTo(ms, n, NotTool) \in n..Len(ms)
           /\ \/ DropTo(ms, n, NotTool) = Len(ms)
              \/ NotTool(ms[DropTo(ms, n, NotTool) + 1])
           /\ (n < Len(ms) /\ NotTool(ms[n + 1])) => DropTo(ms, n, NotTool) = n
           /\ DropTo(ms, n, FromUser) \in n..Len(ms)
           /\ \/ DropTo(ms, n, FromUser) = Len(ms)
              \/ FromUser(ms[DropTo(ms, n, FromUser) + 1])
  <1> DEFINE S == { k \in n..Len(ms) : k = Len(ms) \/ NotTool(ms[k + 1]) }
             T == { k \in n..Len(ms) : k = Len(ms) \/ FromUser(ms[k + 1]) }
  <1>1. S \in SUBSET Nat /\ T \in SUBSET Nat /\ Len(ms) \in S /\ Len(ms) \in T
    OBVIOUS
  <1>2. Least(S) \in S /\ (\A m \in S : Least(S) <= m) /\ Least(T) \in T
    BY <1>1, LeastNumber
  <1>3. DropTo(ms, n, NotTool) = Least(S) /\ DropTo(ms, n, FromUser) = Least(T)
    BY DEF DropTo
  <1>4. (n < Len(ms) /\ NotTool(ms[n + 1])) => n \in S
    OBVIOUS
  <1> QED
    BY <1>2, <1>3, <1>4

(* No message has no tokens.                                                *)
LEMMA NoTokens ==
    ASSUME NEW ms, Len(ms) = 0
    PROVE  Tokens(ms) = 0
  <1> DEFINE Is(f) == f = [i \in 0..Len(ms) |-> IF i = 0 THEN 0 ELSE f[i - 1] + ms[i].size]
             zero == [i \in 0..0 |-> 0]
  <1>1. Is(zero)
    OBVIOUS
  <1>2. Is(CHOOSE f : Is(f))
    BY <1>1
  <1>3. (CHOOSE f : Is(f))[Len(ms)] = 0
    BY <1>2
  <1> QED
    BY <1>3 DEF Tokens

LEMMA OverflowTypes ==
    ASSUME NEW ms \in Seq(Message), NEW budget \in Nat
    PROVE  /\ Overflow(ms, budget) \in 0..Len(ms)
           /\ Overflow(ms, budget) = 0 => Len(ms) = 0
  <1> DEFINE S == { n \in 0..Len(ms) : Tokens(Behind(ms, n)) <= budget }
  <1>1. Len(Behind(ms, Len(ms))) = 0
    BY BehindTypes
  <1>2. Len(ms) \in S /\ S \in SUBSET Nat
    BY <1>1, NoTokens
  <1>3. Least(S) \in S
    BY <1>2, LeastNumber
  <1>4. Overflow(ms, budget) = IF Least(S) = 0 THEN Len(ms) ELSE Least(S)
    BY DEF Overflow
  <1> HIDE DEF S
  <1>5. Least(S) \in 0..Len(ms)
    BY <1>3 DEF S
  <1> QED
    BY <1>4, <1>5

LEMMA BoundaryTypes ==
    ASSUME NEW ms \in Seq(Message), NEW n \in 0..Len(ms)
    PROVE  SafeCompressionBoundary(ms, n) \in n..Len(ms)
  <1>1. DropTo(ms, n, NotTool) \in n..Len(ms)
    BY DropTypes
  <1>2. SafeCompressionBoundary(ms, n) \in {n, DropTo(ms, n, NotTool)}
    BY DEF SafeCompressionBoundary
  <1> QED
    BY <1>1, <1>2

LEMMA BoundaryBeyond ==
    ASSUME NEW ms \in Seq(Message), NEW n \in Nat
    PROVE  /\ SafeCompressionBoundary(ms, n) \in Nat
           /\ SafeCompressionBoundary(ms, n) >= n
  <1>1. CASE n \in 0..Len(ms)
    BY <1>1, BoundaryTypes
  <1>2. CASE n \notin 0..Len(ms)
    BY <1>2 DEF SafeCompressionBoundary
  <1> QED
    BY <1>1, <1>2

LEMMA LastOfTypes ==
    ASSUME NEW ms \in Seq(Message), NEW n \in Nat
    PROVE  /\ LastOf(ms, n) \in Seq(Message)
           /\ Len(LastOf(ms, n)) <= Len(ms)
           /\ Len(ms) <= n => LastOf(ms, n) = ms
           /\ \E k \in 0..Len(ms) : LastOf(ms, n) = Behind(ms, k)
  <1>1. CASE Len(ms) <= n
    BY <1>1, BehindNone DEF LastOf
  <1>2. CASE ~(Len(ms) <= n)
    <2>1. Len(ms) - n \in 0..Len(ms) /\ LastOf(ms, n) = Behind(ms, Len(ms) - n)
      BY <1>2 DEF LastOf
    <2> QED
      BY <1>2, <2>1, BehindTypes
  <1> QED
    BY <1>1, <1>2

LEMMA BehindBehind ==
    ASSUME NEW ms \in Seq(Message), NEW a \in 0..Len(ms), NEW b \in 0..(Len(ms) - a)
    PROVE  a + b \in 0..Len(ms) /\ Behind(Behind(ms, a), b) = Behind(ms, a + b)
  <1> DEFINE x == Behind(ms, a)
             y == Behind(x, b)
             z == Behind(ms, a + b)
  <1>1. x \in Seq(Message) /\ Len(x) = Len(ms) - a
        /\ \A i \in 1..Len(x) : x[i] = ms[i + a]
    BY BehindTypes
  <1> HIDE DEF x
  <1>2. y \in Seq(Message) /\ Len(y) = Len(x) - b /\ \A i \in 1..Len(y) : y[i] = x[i + b]
    <2>1. b \in Nat /\ b <= Len(x)
      BY <1>1
    <2> QED
      BY <1>1, <2>1, BehindTypes
  <1>3. z \in Seq(Message) /\ Len(z) = Len(ms) - (a + b)
        /\ \A i \in 1..Len(z) : z[i] = ms[i + (a + b)]
    BY BehindTypes
  <1> HIDE DEF y, z
  <1>4. \A i \in 1..Len(z) : y[i] = z[i]
    <2> SUFFICES ASSUME NEW i \in 1..Len(z) PROVE y[i] = z[i]
      OBVIOUS
    <2>1. i \in 1..Len(y) /\ i + b \in 1..Len(x) /\ (i + b) + a = i + (a + b)
      BY <1>1, <1>2, <1>3
    <2> QED
      BY <1>1, <1>2, <1>3, <2>1
  <1>5. Len(y) = Len(z)
    BY <1>1, <1>2, <1>3
  <1>6. y = z
    <2>1. y \in Seq(Message) /\ z \in Seq(Message)
      BY <1>2, <1>3
    <2> QED
      BY <1>4, <1>5, <2>1
  <1> QED
    BY <1>6 DEF x, y, z

(* The stores return the latest of what they have.                          *)
LEMMA RecentIsLatest ==
    ASSUME NEW ms \in Seq(Message), NEW n \in Nat, NEW m \in Nat
    PROVE  /\ \E k \in 0..Len(ms) : FileRecent(ms, n) = Behind(ms, k)
           /\ \E k \in 0..Len(ms) : DatabaseRecent(ms, n, m) = Behind(ms, k)
           /\ Len(ms) <= n => FileRecent(ms, n) = ms
           /\ (Len(ms) <= n /\ (ms # <<>> => NotTool(ms[1]))) => DatabaseRecent(ms, n, m) = ms
  <1> DEFINE w == IF 2 * n < m THEN m ELSE 2 * n
             window == LastOf(ms, w)
             d == DropTo(window, 0, NotTool)
             rest == Behind(window, d)
  <1>1. w \in Nat /\ w >= n
    OBVIOUS
  <1>2. DatabaseRecent(ms, n, m) = LastOf(rest, n)
    BY DEF DatabaseRecent
  <1> HIDE DEF w
  <1>3. PICK a \in 0..Len(ms) : window = Behind(ms, a)
    BY <1>1, LastOfTypes
  <1>4. window \in Seq(Message) /\ Len(window) = Len(ms) - a /\ (Len(ms) <= w => window = ms)
    BY <1>1, <1>3, BehindTypes, LastOfTypes
  <1> HIDE DEF window
  <1>5. d \in 0..Len(window) /\ ((0 < Len(window) /\ NotTool(window[0 + 1])) => d = 0)
    <2>1. Len(window) \in Nat /\ 0 \in 0..Len(window)
      BY <1>4
    <2>2. DropTo(window, 0, NotTool) \in 0..Len(window)
          /\ ((0 < Len(window) /\ NotTool(window[0 + 1])) => DropTo(window, 0, NotTool) = 0)
      BY <1>4, <2>1, DropTypes
    <2> QED
      BY <2>2
  <1> HIDE DEF d
  <1>6. rest = Behind(ms, a + d) /\ a + d \in 0..Len(ms)
    BY <1>3, <1>4, <1>5, BehindBehind
  <1>7. rest \in Seq(Message) /\ Len(rest) = Len(ms) - (a + d)
    BY <1>6, BehindTypes
  <1>8. PICK b \in 0..Len(rest) : LastOf(rest, n) = Behind(rest, b)
    BY <1>7, LastOfTypes
  <1>9. LastOf(rest, n) = Behind(ms, (a + d) + b) /\ (a + d) + b \in 0..Len(ms)
    BY <1>6, <1>7, <1>8, BehindBehind
  <1>10. ASSUME Len(ms) <= n, ms # <<>> => NotTool(ms[1])
         PROVE  DatabaseRecent(ms, n, m) = ms
    <2>1. window = ms
      BY <1>1, <1>4, <1>10
    <2>2. d = 0
      BY <1>5, <1>10, <2>1
    <2>3. rest = ms
      BY <2>1, <2>2, BehindNone
    <2> QED
      BY <1>2, <1>10, <2>3, LastOfTypes
  <1> QED
    BY <1>2, <1>9, <1>10, LastOfTypes DEF FileRecent

(* The working set begins at the beginning or behind what is summarised.    *)
LEMMA WorkingFromTypes ==
    ASSUME NEW ms \in Seq(Message), NEW budget \in Nat
    PROVE  /\ WorkingFrom(ms, budget) \in 0..Len(ms)
           /\ ms # <<>> => WorkingFrom(ms, budget) < Len(ms)
           /\ \/ WorkingFrom(ms, budget) = 0
              \/ /\ Overflow(ms, budget) < Len(ms)
                 /\ WorkingFrom(ms, budget)
                        = SafeCompressionBoundary(ms, Overflow(ms, budget))
  <1> DEFINE o == Overflow(ms, budget)
             b == IF o < Len(ms) THEN SafeCompressionBoundary(ms, o) ELSE o
  <1>1. o \in 0..Len(ms)
    BY OverflowTypes
  <1>2. WorkingFrom(ms, budget) = IF b >= Len(ms) THEN 0 ELSE b
    BY DEF WorkingFrom
  <1> HIDE DEF o
  <1>3. SafeCompressionBoundary(ms, o) \in o..Len(ms)
    BY <1>1, BoundaryTypes
  <1>4. b \in 0..Len(ms) /\ (~(b >= Len(ms)) => o < Len(ms) /\ b = SafeCompressionBoundary(ms, o))
    BY <1>1, <1>3
  <1>5. ms # <<>> => Len(ms) > 0
    OBVIOUS
  <1> HIDE DEF b
  <1> QED
    BY <1>2, <1>4, <1>5 DEF o

LEMMA AllFit ==
    ASSUME NEW ms \in Seq(Message), NEW budget \in Nat, Tokens(ms) <= budget
    PROVE  WorkingFrom(ms, budget) = 0
  <1> DEFINE S == { n \in 0..Len(ms) : Tokens(Behind(ms, n)) <= budget }
  <1>1. Behind(ms, 0) = ms
    BY BehindNone
  <1>2. 0 \in S /\ S \in SUBSET Nat
    BY <1>1
  <1> HIDE DEF S
  <1>3. Least(S) \in Nat /\ Least(S) <= 0
    BY <1>2, LeastNumber
  <1>4. Overflow(ms, budget) = Len(ms)
    BY <1>3 DEF Overflow, S
  <1> QED
    BY <1>4 DEF WorkingFrom

(* What is cut to the window is the end, from a message of the user on.     *)
LEMMA TrimIsLatest ==
    ASSUME NEW ms \in Seq(Message), NEW budget
    PROVE  /\ \E k \in 0..Len(ms) : TrimToContextWindow(ms, budget) = Behind(ms, k)
           /\ TrimToContextWindow(ms, budget) # <<>>
                => FromUser(TrimToContextWindow(ms, budget)[1])
  <1> DEFINE enough(k) == Len(ms) - k <= 2 \/ Tokens(Behind(ms, k)) <= budget
             stops == {0} \cup { k \in 1..Len(ms) : k = Len(ms) \/ NotTool(ms[k + 1]) }
             S == { k \in stops : enough(k) }
             fit == Least(S)
             cut == DropTo(ms, fit, FromUser)
             r == Behind(ms, cut)
  <1>1. Len(ms) \in S /\ S \in SUBSET Nat /\ S \subseteq 0..Len(ms)
    <2>1. Len(ms) \in stops /\ stops \subseteq 0..Len(ms)
      OBVIOUS
    <2>2. enough(Len(ms))
      OBVIOUS
    <2> HIDE DEF enough, stops
    <2>3. Len(ms) \in S /\ S \subseteq 0..Len(ms)
      BY <2>1, <2>2
    <2> QED
      BY <2>3
  <1>2. fit \in 0..Len(ms)
    <2>1. fit \in S
      BY <1>1, LeastNumber
    <2> QED
      BY <1>1, <2>1
  <1>3. TrimToContextWindow(ms, budget) = r
    BY DEF TrimToContextWindow
  <1> HIDE DEF fit
  <1>4. cut \in 0..Len(ms) /\ (cut = Len(ms) \/ FromUser(ms[cut + 1]))
    <2>1. DropTo(ms, fit, FromUser) \in fit..Len(ms)
          /\ \/ DropTo(ms, fit, FromUser) = Len(ms)
             \/ FromUser(ms[DropTo(ms, fit, FromUser) + 1])
      BY <1>2, DropTypes
    <2>2. cut = DropTo(ms, fit, FromUser)
      OBVIOUS
    <2> HIDE DEF cut
    <2>3. cut \in fit..Len(ms) /\ (cut = Len(ms) \/ FromUser(ms[cut + 1]))
      BY <2>1, <2>2, Zenon
    <2> QED
      BY <1>2, <2>3
  <1> HIDE DEF cut
  <1>5. Len(r) = Len(ms) - cut /\ (\A i \in 1..Len(r) : r[i] = ms[i + cut]) /\ r \in Seq(Message)
    BY <1>4, BehindTypes
  <1>6. r # <<>> => FromUser(r[1])
    <2> HAVE r # <<>>
    <2>1. Len(r) > 0
      BY <1>5
    <2> QED
      BY <1>4, <1>5, <2>1
  <1> HIDE DEF r
  <1> QED
    BY <1>3, <1>4, <1>6 DEF r

(* What is passed on is the end, and does not begin with a result.          *)
LEMMA CapIsLatest ==
    ASSUME NEW ms \in Seq(Message), NEW limit \in Nat, ms # <<>> => NotTool(ms[1])
    PROVE  /\ \E k \in 0..Len(ms) : CapMessages(ms, limit) = Behind(ms, k)
           /\ CapMessages(ms, limit) # <<>> => NotTool(CapMessages(ms, limit)[1])
  <1>1. CASE Len(ms) <= limit
    <2>1. CapMessages(ms, limit) = ms
      BY <1>1 DEF CapMessages
    <2> QED
      BY <2>1, BehindNone
  <1>2. CASE ~(Len(ms) <= limit)
    <2> DEFINE last == LastOf(ms, limit)
               S == { k \in 0..Len(last) :
                        k = Len(last) \/ (NotTool(last[k + 1]) /\ ~Calling(last[k + 1])) }
               d == Least(S)
               r == Behind(last, d)
    <2>1. CapMessages(ms, limit) = r
      BY <1>2, Zenon DEF CapMessages, DropTo
    <2>2. PICK a \in 0..Len(ms) : last = Behind(ms, a)
      BY LastOfTypes
    <2>3. last \in Seq(Message) /\ Len(last) = Len(ms) - a
      BY <2>2, BehindTypes
    <2> HIDE DEF last
    <2>4. Len(last) \in S /\ S \in SUBSET Nat
      <3>1. Len(last) \in Nat /\ Len(last) \in 0..Len(last)
        BY <2>3
      <3> QED
        BY <3>1
    <2>5. d \in S
      BY <2>4, LeastNumber
    <2>6. d \in 0..Len(last) /\ (d = Len(last) \/ NotTool(last[d + 1]))
      BY <2>5
    <2> HIDE DEF d
    <2>7. Len(r) = Len(last) - d /\ (\A i \in 1..Len(r) : r[i] = last[i + d])
          /\ r \in Seq(Message)
      <3>1. d \in Nat /\ d <= Len(last)
        BY <2>3, <2>6
      <3>2. /\ Behind(last, d) \in Seq(Message)
            /\ Len(Behind(last, d)) = IF d <= Len(last) THEN Len(last) - d ELSE 0
            /\ \A i \in 1..Len(Behind(last, d)) : Behind(last, d)[i] = last[i + d]
        BY <2>3, <3>1, BehindTypes
      <3> QED
        BY <2>3, <3>1, <3>2
    <2>8. r = Behind(ms, a + d) /\ a + d \in 0..Len(ms)
      BY <2>2, <2>3, <2>6, BehindBehind
    <2>9. r # <<>> => NotTool(r[1])
      <3> HAVE r # <<>>
      <3>1. Len(r) > 0
        BY <2>7
      <3> QED
        BY <2>3, <2>6, <2>7, <3>1
    <2> QED
      BY <2>1, <2>8, <2>9
  <1> QED
    BY <1>1, <1>2

-----------------------------------------------------------------------------
(* Conversations that were cut *)

(* Every result has its call, but those a conversation begins with.         *)
Placed(ms) ==
    \A i \in 1..Len(ms) :
        \/ NotTool(ms[i])
        \/ HasCall(ms, i)
        \/ \A j \in 1..i : ~NotTool(ms[j])

(* An end of a sound conversation.                                          *)
Loose(ms) == ~Dangling(ms) /\ Placed(ms)

(* The last message with calls, of which there are n, has f results so far. *)
Open(ms, n, f) ==
    LET p == Len(ms) - f IN
    /\ f <= n /\ p >= 1
    /\ ms[p].role = "assistant" /\ ms[p].calls = n
    /\ \A i \in (p + 1)..Len(ms) : ~NotTool(ms[i])
    /\ \A i \in 1..(p - 1) : Calling(ms[i]) => Answered(ms, i)
    /\ Placed(ms)

LEMMA MessageTypes ==
    ASSUME NEW ms \in Seq(Message), NEW i \in 1..Len(ms)
    PROVE  /\ ms[i] \in Message
           /\ ms[i].role \in {"user", "assistant", "tool"} /\ ms[i].calls \in 0..MaxCalls
           /\ ms[i].calls \in Nat
  <1>1. ms[i] \in Message
    OBVIOUS
  <1>2. 0..MaxCalls \subseteq Nat
    OBVIOUS
  <1> QED
    BY <1>1, <1>2 DEF Message

LEMMA SoundBegins ==
    ASSUME NEW ms \in Seq(Message), Sound(ms)
    PROVE  Loose(ms) /\ (ms # <<>> => NotTool(ms[1]))
  <1>1. Loose(ms)
    BY DEF Sound, Orphans, Loose, Placed
  <1>2. ASSUME ms # <<>> PROVE NotTool(ms[1])
    <2>1. 1 \in 1..Len(ms)
      BY <1>2
    <2>2. ~HasCall(ms, 1)
      BY ConversationAssumption DEF HasCall, ConversationAssumption
    <2> QED
      BY <2>1, <2>2 DEF Sound, Orphans
  <1> QED
    BY <1>1, <1>2

LEMMA BeginsSound ==
    ASSUME NEW ms \in Seq(Message), Placed(ms), ms # <<>> => NotTool(ms[1])
    PROVE  ~Orphans(ms)
  <1> SUFFICES ASSUME NEW i \in 1..Len(ms), ~NotTool(ms[i]) PROVE HasCall(ms, i)
    BY DEF Orphans
  <1>1. 1 \in 1..i /\ ms # <<>>
    OBVIOUS
  <1> QED
    BY <1>1 DEF Placed

(* The end of one is one.                                                   *)
LEMMA LooseEnd ==
    ASSUME NEW ms \in Seq(Message), NEW n \in 0..Len(ms), Loose(ms)
    PROVE  Loose(Behind(ms, n))
  <1> DEFINE r == Behind(ms, n)
  <1>1. r \in Seq(Message) /\ Len(r) = Len(ms) - n /\ \A i \in 1..Len(r) : r[i] = ms[i + n]
    BY BehindTypes
  <1> HIDE DEF r
  <1>2. ASSUME NEW i \in 1..Len(r), Calling(r[i]) PROVE Answered(r, i)
    <2>1. i + n \in 1..Len(ms) /\ Answered(ms, i + n) /\ r[i] = ms[i + n]
      BY <1>1, <1>2 DEF Loose, Dangling
    <2>2. ASSUME NEW k \in 1..r[i].calls PROVE i + k <= Len(r) /\ r[i + k].role = "tool"
      <3>1. (i + n) + k <= Len(ms) /\ ms[(i + n) + k].role = "tool" /\ k \in Nat
        BY <1>1, <2>1, <2>2, MessageTypes DEF Answered
      <3>2. i + k <= Len(r) /\ (i + k) + n = (i + n) + k
        BY <1>1, <3>1
      <3> QED
        BY <1>1, <3>1, <3>2
    <2> QED
      BY <2>2 DEF Answered
  <1>3. ASSUME NEW i \in 1..Len(r), ~NotTool(r[i]), ~HasCall(r, i)
        PROVE  \A j \in 1..i : ~NotTool(r[j])
    <2>1. i + n \in 1..Len(ms) /\ ~NotTool(ms[i + n])
      BY <1>1, <1>3
    <2>2. CASE HasCall(ms, i + n)
      <3>1. PICK k \in 1..MaxCalls :
              /\ k < i + n
              /\ Calling(ms[(i + n) - k])
              /\ ms[(i + n) - k].calls >= k
              /\ \A j \in ((i + n) - k + 1)..(i + n) : ms[j].role = "tool"
        BY <2>2 DEF HasCall
      <3>2. ~(k < i)
        <4>1. SUFFICES ASSUME k < i PROVE HasCall(r, i)
          BY <1>3
        <4>2. i - k \in 1..Len(r) /\ (i - k) + n = (i + n) - k
          BY <1>1, <4>1
        <4>3. r[i - k] = ms[(i + n) - k]
          BY <1>1, <4>2
        <4>4. ASSUME NEW j \in (i - k + 1)..i PROVE r[j].role = "tool"
          <5>1. j \in 1..Len(r) /\ j + n \in ((i + n) - k + 1)..(i + n)
            BY <1>1, <4>1
          <5> QED
            BY <1>1, <3>1, <5>1
        <4> QED
          BY <3>1, <4>1, <4>3, <4>4 DEF HasCall
      <3>3. ASSUME NEW j \in 1..i PROVE ~NotTool(r[j])
        <4>1. j \in 1..Len(r) /\ j + n \in ((i + n) - k + 1)..(i + n)
          BY <1>1, <3>1, <3>2
        <4> QED
          BY <1>1, <3>1, <4>1 DEF NotTool
      <3> QED
        BY <3>3
    <2>3. CASE \A j \in 1..(i + n) : ~NotTool(ms[j])
      <3>1. ASSUME NEW j \in 1..i PROVE ~NotTool(r[j])
        <4>1. j \in 1..Len(r) /\ j + n \in 1..(i + n)
          BY <1>1
        <4> QED
          BY <1>1, <2>3, <4>1
      <3> QED
        BY <3>1
    <2> QED
      BY <2>1, <2>2, <2>3 DEF Loose, Placed
  <1> QED
    BY <1>2, <1>3 DEF Loose, Dangling, Placed, r

(* Placed does not depend on what follows.                                  *)
LEMMA PlacedCat ==
    ASSUME NEW a \in Seq(Message), NEW b \in Seq(Message), Placed(a), Placed(b),
           b # <<>> => NotTool(b[1])
    PROVE  Placed(a \o b)
  <1> DEFINE c == a \o b
             n == Len(a)
  <1>1. /\ c \in Seq(Message) /\ Len(c) = n + Len(b) /\ n \in Nat
        /\ \A i \in 1..n : c[i] = a[i]
        /\ \A i \in 1..Len(b) : c[n + i] = b[i]
    OBVIOUS
  <1> HIDE DEF c
  <1>2. ASSUME NEW i \in 1..n
        PROVE  NotTool(c[i]) \/ HasCall(c, i) \/ \A j \in 1..i : ~NotTool(c[j])
    <2>1. CASE NotTool(a[i]) \/ \A j \in 1..i : ~NotTool(a[j])
      BY <1>1, <2>1
    <2>2. CASE HasCall(a, i)
      <3>1. PICK k \in 1..MaxCalls :
              /\ k < i /\ Calling(a[i - k]) /\ a[i - k].calls >= k
              /\ \A j \in (i - k + 1)..i : a[j].role = "tool"
        BY <2>2 DEF HasCall
      <3>2. k \in Nat /\ i - k \in 1..n /\ (i - k + 1)..i \subseteq 1..n
        BY <1>1, <3>1, ConversationAssumption DEF ConversationAssumption
      <3>3. c[i - k] = a[i - k]
        BY <1>1, <3>2
      <3>4. \A j \in (i - k + 1)..i : c[j] = a[j]
        BY <1>1, <3>2
      <3> QED
        BY <3>1, <3>3, <3>4 DEF HasCall
    <2> QED
      BY <2>1, <2>2 DEF Placed
  <1>3. ASSUME NEW h \in 1..Len(b), ~NotTool(b[h])
        PROVE  HasCall(c, n + h)
    <2>1. HasCall(b, h)
      <3>1. b # <<>>
        BY <1>3
      <3>2. 1 \in 1..h /\ NotTool(b[1])
        BY <3>1
      <3> QED
        BY <1>3, <3>2 DEF Placed
    <2>2. PICK k \in 1..MaxCalls :
            /\ k < h /\ Calling(b[h - k]) /\ b[h - k].calls >= k
            /\ \A j \in (h - k + 1)..h : b[j].role = "tool"
      BY <2>1 DEF HasCall
    <2>3. k < n + h /\ c[(n + h) - k] = b[h - k]
      <3>1. h - k \in 1..Len(b) /\ n + (h - k) = (n + h) - k
        BY <1>1, <2>2
      <3> QED
        BY <1>1, <2>2, <3>1
    <2>4. ASSUME NEW j \in ((n + h) - k + 1)..(n + h) PROVE c[j].role = "tool"
      <3>1. j - n \in (h - k + 1)..h /\ j - n \in 1..Len(b) /\ n + (j - n) = j
        BY <1>1, <2>2
      <3> QED
        BY <1>1, <2>2, <3>1
    <2> QED
      BY <2>2, <2>3, <2>4 DEF HasCall
  <1>4. ASSUME NEW i \in 1..Len(c)
        PROVE  NotTool(c[i]) \/ HasCall(c, i) \/ \A j \in 1..i : ~NotTool(c[j])
    <2>1. CASE i \in 1..n
      BY <1>2, <2>1
    <2>2. CASE i \notin 1..n
      <3>1. PICK h \in 1..Len(b) : i = n + h
        <4>1. i - n \in 1..Len(b) /\ i = n + (i - n)
          BY <1>1, <2>2
        <4> QED
          BY <4>1
      <3>2. c[i] = b[h]
        BY <1>1, <3>1
      <3> QED
        BY <1>3, <3>1, <3>2
    <2> QED
      BY <2>1, <2>2
  <1> QED
    BY <1>4 DEF Placed, c

LEMMA LooseCat ==
    ASSUME NEW a \in Seq(Message), NEW b \in Seq(Message), Loose(a), Loose(b),
           b # <<>> => NotTool(b[1])
    PROVE  a \o b \in Seq(Message) /\ Loose(a \o b)
  <1> DEFINE c == a \o b
             n == Len(a)
  <1>1. /\ c \in Seq(Message) /\ Len(c) = n + Len(b) /\ n \in Nat
        /\ \A i \in 1..n : c[i] = a[i]
        /\ \A i \in 1..Len(b) : c[n + i] = b[i]
    OBVIOUS
  <1>2. Placed(c)
    BY PlacedCat DEF Loose
  <1> HIDE DEF c
  <1>3. ASSUME NEW i \in 1..Len(c), Calling(c[i]), NEW k \in 1..c[i].calls
        PROVE  i + k <= Len(c) /\ c[i + k].role = "tool"
    <2>1. CASE i \in 1..n
      <3>1. i + k <= Len(a) /\ a[i + k].role = "tool" /\ k \in Nat \ {0}
        <4>1. c[i] = a[i]
          BY <1>1, <2>1
        <4>2. a[i].calls \in Nat
          BY <2>1, MessageTypes
        <4> QED
          BY <1>3, <2>1, <4>1, <4>2 DEF Loose, Dangling, Answered
      <3> QED
        BY <1>1, <2>1, <3>1
    <2>2. CASE i \notin 1..n
      <3> DEFINE h == i - n
      <3>1. h \in 1..Len(b) /\ i = n + h
        BY <1>1, <2>2
      <3> HIDE DEF h
      <3>2. c[i] = b[h]
        BY <1>1, <3>1
      <3>3. b[h].calls \in Nat
        BY <3>1, MessageTypes
      <3>4. h + k <= Len(b) /\ b[h + k].role = "tool" /\ k \in Nat \ {0}
        BY <1>3, <3>1, <3>2, <3>3 DEF Loose, Dangling, Answered
      <3>5. h + k \in 1..Len(b) /\ n + (h + k) = i + k
        BY <1>1, <3>1, <3>4
      <3> QED
        BY <1>1, <3>4, <3>5
    <2> QED
      BY <2>1, <2>2
  <1>4. ~Dangling(c)
    BY <1>3 DEF Dangling, Answered
  <1> QED
    BY <1>1, <1>2, <1>4 DEF Loose, c

(* Messages that have no calls and are no results.                          *)
LEMMA LooseOne ==
    ASSUME NEW z \in Sizes
    PROVE  /\ User(z) \in Message /\ <<User(z)>> \in Seq(Message) /\ Loose(<<User(z)>>)
           /\ FromUser(User(z)) /\ NotTool(User(z))
  BY DEF User, Message, Loose, Dangling, Placed, Calling, NotTool, FromUser

LEMMA LooseNone == <<>> \in Seq(Message) /\ Loose(<<>>)
  BY DEF Loose, Dangling, Placed

LEMMA LooseUser ==
    ASSUME NEW ms \in Seq(Message), NEW z \in Sizes, Loose(ms)
    PROVE  Append(ms, User(z)) \in Seq(Message) /\ Loose(Append(ms, User(z)))
  <1>1. User(z) \in Message /\ <<User(z)>> \in Seq(Message) /\ Loose(<<User(z)>>)
        /\ NotTool(User(z))
    BY LooseOne
  <1>2. <<User(z)>>[1] = User(z)
    OBVIOUS
  <1>3. Append(ms, User(z)) = ms \o <<User(z)>>
    BY <1>1
  <1> QED
    BY <1>1, <1>2, <1>3, LooseCat

(* All messages but the last.                                               *)
LEMMA ButLast ==
    ASSUME NEW ms \in Seq(Message), ms # <<>>
    PROVE  /\ SubSeq(ms, 1, Len(ms) - 1) \in Seq(Message)
           /\ Len(SubSeq(ms, 1, Len(ms) - 1)) = Len(ms) - 1
           /\ \A i \in 1..(Len(ms) - 1) : SubSeq(ms, 1, Len(ms) - 1)[i] = ms[i]
  <1> DEFINE r == SubSeq(ms, 1, Len(ms) - 1)
  <1>1. PICK n \in Nat : Len(ms) = n + 1
    <2>1. Len(ms) - 1 \in Nat /\ Len(ms) = (Len(ms) - 1) + 1
      OBVIOUS
    <2> QED
      BY <2>1
  <1>2. r = SubSeq(ms, 1, n) /\ n = Len(ms) - 1
    BY <1>1
  <1>3. 1 \in Int /\ n \in Int /\ \A i \in 1..n : ms[i] \in Message
    BY <1>1
  <1>4. /\ r \in Seq(Message) /\ Len(r) = IF 1 <= n THEN n - 1 + 1 ELSE 0
        /\ \A i \in 1..(n - 1 + 1) : r[i] = ms[1 + i - 1]
    BY <1>2, <1>3, SubSeqProperties
  <1> HIDE DEF r
  <1>5. Len(r) = n
    BY <1>1, <1>4
  <1>6. ASSUME NEW i \in 1..n PROVE r[i] = ms[i]
    <2>1. i \in 1..(n - 1 + 1) /\ 1 + i - 1 = i
      BY <1>1
    <2> QED
      BY <1>4, <2>1
  <1> QED
    BY <1>2, <1>4, <1>5, <1>6 DEF r

(* A message of the user that comes last may be taken off.                  *)
LEMMA LooseWithoutLast ==
    ASSUME NEW ms \in Seq(Message), Loose(ms), ms # <<>>, FromUser(ms[Len(ms)])
    PROVE  Loose(SubSeq(ms, 1, Len(ms) - 1))
  <1> DEFINE r == SubSeq(ms, 1, Len(ms) - 1)
  <1>1. /\ r \in Seq(Message) /\ Len(r) = Len(ms) - 1 /\ Len(ms) \in Nat \ {0}
        /\ \A i \in 1..Len(r) : r[i] = ms[i]
    <2>1. Len(ms) \in Nat \ {0}
      OBVIOUS
    <2>2. /\ r \in Seq(Message) /\ Len(r) = Len(ms) - 1
          /\ \A i \in 1..(Len(ms) - 1) : r[i] = ms[i]
      BY ButLast
    <2> HIDE DEF r
    <2> QED
      BY <2>1, <2>2
  <1> HIDE DEF r
  <1>2. ASSUME NEW i \in 1..Len(r), Calling(r[i]), NEW k \in 1..r[i].calls
        PROVE  i + k <= Len(r) /\ r[i + k].role = "tool"
    <2>1. ms[i].calls \in Nat /\ r[i] = ms[i]
      BY <1>1, MessageTypes
    <2>2. i + k <= Len(ms) /\ ms[i + k].role = "tool" /\ k \in Nat \ {0}
      BY <1>1, <1>2, <2>1 DEF Loose, Dangling, Answered
    <2>3. i + k # Len(ms)
      BY <2>2 DEF FromUser
    <2> QED
      BY <1>1, <2>2, <2>3
  <1>3. ASSUME NEW i \in 1..Len(r)
        PROVE  NotTool(r[i]) \/ HasCall(r, i) \/ \A j \in 1..i : ~NotTool(r[j])
    <2>1. CASE NotTool(ms[i]) \/ \A j \in 1..i : ~NotTool(ms[j])
      BY <1>1, <2>1
    <2>2. CASE HasCall(ms, i)
      <3>1. PICK k \in 1..MaxCalls :
              /\ k < i /\ Calling(ms[i - k]) /\ ms[i - k].calls >= k
              /\ \A j \in (i - k + 1)..i : ms[j].role = "tool"
        BY <2>2 DEF HasCall
      <3>2. i - k \in 1..Len(r) /\ \A j \in (i - k + 1)..i : j \in 1..Len(r)
        BY <1>1, <3>1
      <3>3. r[i - k] = ms[i - k] /\ \A j \in (i - k + 1)..i : r[j] = ms[j]
        BY <1>1, <3>2
      <3> QED
        BY <3>1, <3>3 DEF HasCall
    <2> QED
      BY <1>1, <2>1, <2>2 DEF Loose, Placed
  <1> QED
    BY <1>1, <1>2, <1>3 DEF Loose, Dangling, Answered, Placed, r

(* A result more, and nothing else than before.                             *)
LEMMA AnsweredMore ==
    ASSUME NEW ms \in Seq(Message), NEW m \in Message, NEW i \in 1..Len(ms), Answered(ms, i)
    PROVE  Answered(Append(ms, m), i)
  <1> DEFINE c == Append(ms, m)
  <1>1. Len(c) = Len(ms) + 1 /\ Len(ms) \in Nat /\ \A j \in 1..Len(ms) : c[j] = ms[j]
    OBVIOUS
  <1> HIDE DEF c
  <1>2. ms[i].calls \in Nat
    BY MessageTypes
  <1>3. ASSUME NEW k \in 1..c[i].calls PROVE i + k <= Len(c) /\ c[i + k].role = "tool"
    <2>1. i + k <= Len(ms) /\ ms[i + k].role = "tool" /\ k \in Nat \ {0}
      BY <1>1, <1>2, <1>3 DEF Answered
    <2> QED
      BY <1>1, <2>1
  <1> QED
    BY <1>3 DEF Answered, c

LEMMA HasCallMore ==
    ASSUME NEW ms \in Seq(Message), NEW m \in Message, NEW i \in 1..Len(ms), HasCall(ms, i)
    PROVE  HasCall(Append(ms, m), i)
  <1> DEFINE c == Append(ms, m)
  <1>1. Len(c) = Len(ms) + 1 /\ Len(ms) \in Nat /\ \A j \in 1..Len(ms) : c[j] = ms[j]
    OBVIOUS
  <1> HIDE DEF c
  <1>2. PICK k \in 1..MaxCalls :
          /\ k < i /\ Calling(ms[i - k]) /\ ms[i - k].calls >= k
          /\ \A j \in (i - k + 1)..i : ms[j].role = "tool"
    BY DEF HasCall
  <1>3. c[i - k] = ms[i - k] /\ \A j \in (i - k + 1)..i : c[j] = ms[j]
    BY <1>1, <1>2
  <1>4. HasCall(c, i)
    BY <1>2, <1>3 DEF HasCall
  <1> QED
    BY <1>4 DEF c

LEMMA PlacedMore ==
    ASSUME NEW ms \in Seq(Message), NEW m \in Message, Placed(ms),
           NotTool(m) \/ HasCall(Append(ms, m), Len(ms) + 1)
    PROVE  Placed(Append(ms, m))
  <1> DEFINE c == Append(ms, m)
  <1>1. /\ Len(c) = Len(ms) + 1 /\ Len(ms) \in Nat /\ c[Len(ms) + 1] = m
        /\ \A j \in 1..Len(ms) : c[j] = ms[j]
    OBVIOUS
  <1>2. ASSUME NEW i \in 1..Len(ms)
        PROVE  NotTool(c[i]) \/ HasCall(c, i) \/ \A j \in 1..i : ~NotTool(c[j])
    <2>1. NotTool(ms[i]) \/ HasCall(ms, i) \/ \A j \in 1..i : ~NotTool(ms[j])
      BY DEF Placed
    <2>2. HasCall(ms, i) => HasCall(c, i)
      BY HasCallMore
    <2> HIDE DEF c
    <2> QED
      BY <1>1, <2>1, <2>2
  <1> HIDE DEF c
  <1>3. NotTool(c[Len(ms) + 1]) \/ HasCall(c, Len(ms) + 1)
    BY <1>1 DEF c
  <1>4. \A i \in 1..Len(c) : i \in 1..Len(ms) \/ i = Len(ms) + 1
    BY <1>1
  <1>5. Placed(c)
    BY <1>2, <1>3, <1>4 DEF Placed
  <1> QED
    BY <1>5 DEF c

(* The model answers with calls; their results follow; all are there.       *)
LEMMA OpenCalls ==
    ASSUME NEW ms \in Seq(Message), NEW n \in 0..MaxCalls, NEW z \in Sizes, Loose(ms)
    PROVE  /\ Append(ms, Assistant(n, z)) \in Seq(Message)
           /\ Open(Append(ms, Assistant(n, z)), n, 0)
  <1> DEFINE m == Assistant(n, z)
             c == Append(ms, m)
  <1>1. m \in Message /\ NotTool(m) /\ m.role = "assistant" /\ m.calls = n
    BY DEF Assistant, Message, NotTool
  <1> HIDE DEF m
  <1>2. /\ c \in Seq(Message) /\ Len(c) = Len(ms) + 1 /\ Len(ms) \in Nat
        /\ c[Len(ms) + 1] = m /\ \A j \in 1..Len(ms) : c[j] = ms[j]
    BY <1>1
  <1>3. Placed(c)
    BY <1>1, PlacedMore DEF Loose
  <1>4. ASSUME NEW i \in 1..Len(ms), Calling(c[i]) PROVE Answered(c, i)
    <2>1. Answered(ms, i)
      BY <1>2, <1>4 DEF Loose, Dangling
    <2> QED
      BY <1>1, <2>1, AnsweredMore
  <1> HIDE DEF c
  <1>5. Len(c) - 0 = Len(ms) + 1 /\ (Len(ms) + 1) - 1 = Len(ms)
    BY <1>2
  <1>6. Open(c, n, 0)
    BY <1>1, <1>2, <1>3, <1>4, <1>5 DEF Open
  <1> QED
    BY <1>2, <1>6 DEF c, m

LEMMA OpenResults ==
    ASSUME NEW ms \in Seq(Message), NEW n \in 0..MaxCalls, NEW f \in Nat, f < n,
           NEW z \in Sizes, Open(ms, n, f)
    PROVE  /\ Append(ms, ToolResult(z)) \in Seq(Message)
           /\ Open(Append(ms, ToolResult(z)), n, f + 1)
  <1> DEFINE m == ToolResult(z)
             c == Append(ms, m)
             p == Len(ms) - f
  <1>1. m \in Message /\ m.role = "tool"
    BY DEF ToolResult, Message
  <1> HIDE DEF m
  <1>2. /\ c \in Seq(Message) /\ Len(c) = Len(ms) + 1 /\ Len(ms) \in Nat
        /\ c[Len(ms) + 1] = m /\ \A j \in 1..Len(ms) : c[j] = ms[j]
    BY <1>1
  <1>3. /\ p \in 1..Len(ms) /\ ms[p].role = "assistant" /\ ms[p].calls = n
        /\ \A i \in (p + 1)..Len(ms) : ~NotTool(ms[i])
        /\ \A i \in 1..(p - 1) : Calling(ms[i]) => Answered(ms, i)
        /\ Placed(ms)
    BY DEF Open
  <1>4. ASSUME NEW i \in (p + 1)..Len(c) PROVE ~NotTool(c[i])
    <2>1. CASE i = Len(ms) + 1
      BY <1>1, <1>2, <2>1 DEF NotTool
    <2>2. CASE i # Len(ms) + 1
      <3>1. i \in (p + 1)..Len(ms) /\ i \in 1..Len(ms)
        BY <1>2, <1>3, <2>2
      <3> QED
        BY <1>2, <1>3, <3>1
    <2> QED
      BY <2>1, <2>2
  <1>5. HasCall(c, Len(ms) + 1)
    <2> DEFINE k == f + 1
    <2>1. k \in 1..MaxCalls /\ k < Len(ms) + 1 /\ (Len(ms) + 1) - k = p
      BY <1>2, <1>3
    <2>2. Calling(c[p]) /\ c[p].calls >= k
      BY <1>2, <1>3 DEF Calling
    <2>3. \A j \in (p + 1)..(Len(ms) + 1) : c[j].role = "tool"
      BY <1>2, <1>4 DEF NotTool
    <2> HIDE DEF k, c, p
    <2> QED
      BY <2>1, <2>2, <2>3 DEF HasCall
  <1>6. Placed(c)
    BY <1>1, <1>3, <1>5, PlacedMore
  <1>7. ASSUME NEW i \in 1..(p - 1), Calling(c[i]) PROVE Answered(c, i)
    <2>1. i \in 1..Len(ms) /\ Answered(ms, i)
      BY <1>2, <1>3, <1>7
    <2> QED
      BY <1>1, <2>1, AnsweredMore
  <1>8. Len(c) - (f + 1) = p /\ c[p] = ms[p] /\ p >= 1 /\ f + 1 <= n
    BY <1>2, <1>3
  <1> HIDE DEF c, p
  <1>9. Open(c, n, f + 1)
    BY <1>3, <1>4, <1>6, <1>7, <1>8 DEF Open
  <1> QED
    BY <1>2, <1>9 DEF c, m

LEMMA OpenEnds ==
    ASSUME NEW ms \in Seq(Message), NEW n \in 0..MaxCalls, Open(ms, n, n)
    PROVE  Loose(ms)
  <1> DEFINE p == Len(ms) - n
  <1>1. /\ p \in 1..Len(ms) /\ ms[p].role = "assistant" /\ ms[p].calls = n
        /\ \A i \in (p + 1)..Len(ms) : ~NotTool(ms[i])
        /\ \A i \in 1..(p - 1) : Calling(ms[i]) => Answered(ms, i)
        /\ Placed(ms)
    BY DEF Open
  <1>2. ASSUME NEW i \in 1..Len(ms), Calling(ms[i]) PROVE Answered(ms, i)
    <2>1. CASE i \in 1..(p - 1)
      BY <1>1, <1>2, <2>1
    <2>2. CASE i = p
      <3>1. \A k \in 1..n : p + k <= Len(ms) /\ p + k \in (p + 1)..Len(ms)
        BY <1>1
      <3>2. \A k \in 1..n : p + k <= Len(ms) /\ ms[p + k].role = "tool"
        BY <1>1, <3>1 DEF NotTool
      <3> HIDE DEF p
      <3> QED
        BY <1>1, <2>2, <3>2 DEF Answered
    <2>3. CASE i \in (p + 1)..Len(ms)
      BY <1>1, <1>2, <2>3 DEF Calling, NotTool
    <2> QED
      BY <1>1, <2>1, <2>2, <2>3
  <1> QED
    BY <1>1, <1>2 DEF Loose, Dangling

-----------------------------------------------------------------------------
(* Types *)

Places == {"idle", "top", "memory", "compact", "compressed", "guard", "prompt", "model",
           "backoff", "answer", "approve", "execute", "feed"}

Outcomes == {"none", "done", "handoff", "error", "aborted"}

Marks == {"called", "approved", "refused", "running", "done"}

ToolKinds == {"delegate", "plain", "transfer"}

Fetches == [messages : Seq(Message), offset : Nat, deleted : BOOLEAN]

(* An answer with calls has been stored, and not all their results have.    *)
Answering == {"answer", "approve", "execute", "feed"}

ConfigOK == config \in Config /\ Loose(config.said)
            /\ (config.said # <<>> => NotTool(config.said[1]))
SkillsOK == installed \in SUBSET Skills /\ catalog \in SUBSET Skills /\ loaded \in SUBSET Skills
StoreOK  == /\ history \in Seq(Message) /\ summary \in Summaries
            /\ deleting \in BOOLEAN /\ revived \in BOOLEAN
ViewOK   == compressed \in Summaries /\ fetched \in Fetches /\ working \in Seq(Message)
LoopOK   == /\ pc \in Places /\ turn \in 1..(MaxTurns + 1) /\ attempt \in 0..MaxRetries
            /\ pc \notin {"idle", "top"} => turn <= MaxTurns
CallsOK  == /\ calls \in Seq(Call) /\ Len(calls) <= MaxCalls /\ fed \in 0..Len(calls)
            /\ pc \notin Answering => calls = <<>>
            /\ pc # "feed" => fed = 0
StateOK  == /\ cancelled \in BOOLEAN /\ outcome \in Outcomes
            /\ lead \in {"whole", "cut", "torn", "trimmed"} /\ unread \in BOOLEAN
IdleOK   == pc = "idle" => working = <<>> /\ fetched = NoFetch /\ ~unread /\ turn = 1
            /\ ~cancelled
BackOK   == tools \in Seq(ToolKinds) /\ damaged \in BOOLEAN
CountOK  == runs \in 0..config.runs /\ faults \in 0..MaxFaults

TypeInv == /\ ConfigOK /\ SkillsOK /\ StoreOK /\ ViewOK /\ LoopOK /\ CallsOK /\ StateOK
           /\ IdleOK /\ BackOK /\ CountOK

LEMMA Bounds ==
    /\ MaxTurns \in Nat /\ MaxRetries \in Nat /\ FetchLimit \in Nat /\ MinFetch \in Nat
    /\ LookAhead \in Nat /\ Budget \in Nat /\ MaxPassed \in Nat /\ MaxFaults \in Nat
    /\ MaxHistory \in Nat /\ FetchLimit > 0 /\ MaxCalls \in Nat
  BY AgentRunnerAssumption DEF AgentRunnerAssumption, ConversationAssumption

LEMMA TypesHold == TypeInv => TypeOK
  <1> SUFFICES ASSUME TypeInv PROVE TypeOK
    OBVIOUS
  <1>1. fed \in 0..MaxCalls
    <2>1. Len(calls) \in Nat /\ Len(calls) <= MaxCalls /\ fed \in 0..Len(calls)
      BY DEF TypeInv, CallsOK
    <2> QED
      BY <2>1, Bounds
  <1>2. fetched \in [messages : Seq(Message), offset : Nat, deleted : BOOLEAN]
    BY DEF TypeInv, ViewOK, Fetches
  <1>3. tools \in Seq({"delegate", "plain", "transfer"})
    BY DEF TypeInv, BackOK, ToolKinds
  <1> QED
    BY <1>1, <1>2, <1>3 DEF TypeInv, TypeOK, ConfigOK, SkillsOK, StoreOK, ViewOK, LoopOK,
       CallsOK, StateOK, BackOK, CountOK, Places, Outcomes

(* What does not change keeps its type.                                     *)
LEMMA Frames ==
    ASSUME TypeInv
    PROVE  /\ UNCHANGED config => ConfigOK'
           /\ UNCHANGED <<installed, catalog, loaded>> => SkillsOK'
           /\ UNCHANGED <<history, summary, deleting, revived>> => StoreOK'
           /\ UNCHANGED <<compressed, fetched, working>> => ViewOK'
           /\ UNCHANGED <<pc, turn, attempt>> => LoopOK'
           /\ UNCHANGED <<pc, calls, fed>> => CallsOK'
           /\ UNCHANGED <<cancelled, outcome, lead, unread>> => StateOK'
           /\ UNCHANGED <<pc, working, fetched, unread, turn, cancelled>> => IdleOK'
           /\ UNCHANGED <<tools, damaged>> => BackOK'
           /\ UNCHANGED <<config, runs, faults>> => CountOK'
           /\ pc' # "idle" => IdleOK'
  BY DEF TypeInv, ConfigOK, SkillsOK, StoreOK, ViewOK, LoopOK, CallsOK, StateOK, IdleOK,
     BackOK, CountOK

LEMMA NoFetchTypes == NoFetch \in Fetches /\ NoSummary \in Summaries
  BY LooseNone DEF NoFetch, NoSummary, Fetches, Summaries

(* The end of a run.                                                        *)
LEMMA EndTypes ==
    ASSUME TypeInv, NEW how \in Outcomes, End(how), installed' \in SUBSET Skills
    PROVE  SkillsOK' /\ ViewOK' /\ LoopOK' /\ CallsOK' /\ StateOK' /\ IdleOK'
  <1>1. SkillsOK' /\ StateOK' /\ IdleOK'
    BY DEF End, SkillsOK, StateOK, IdleOK
  <1>2. ViewOK'
    BY NoFetchTypes, LooseNone DEF End, ViewOK
  <1>3. LoopOK'
    BY Bounds DEF End, LoopOK, Places
  <1>4. CallsOK'
    BY Bounds DEF End, CallsOK, Answering
  <1> QED
    BY <1>1, <1>2, <1>3, <1>4

LEMMA FaultTypes ==
    ASSUME TypeInv, Fault \/ NoFault, UNCHANGED <<config, runs>>
    PROVE  CountOK'
  BY Bounds DEF TypeInv, Fault, NoFault, CountOK

LEMMA AppendTypes ==
    ASSUME TypeInv, NEW m \in Message, AppendMemory(m)
    PROVE  /\ history' \in Seq(Message) /\ damaged' \in BOOLEAN /\ unread' \in BOOLEAN
           /\ UNCHANGED <<config, runs>> => CountOK'
           /\ faults' \in 0..MaxFaults
  <1>1. /\ history' \in Seq(Message) /\ damaged' \in BOOLEAN /\ unread' \in BOOLEAN
        /\ Fault \/ NoFault
    <2>1. history \in Seq(Message) /\ damaged \in BOOLEAN /\ unread \in BOOLEAN
      BY DEF TypeInv, StoreOK, StateOK, BackOK
    <2>2. Append(history, m) \in Seq(Message)
      BY <2>1
    <2> QED
      BY <2>1, <2>2 DEF AppendMemory, Stored
  <1>2. faults' \in 0..MaxFaults
    BY <1>1, Bounds DEF TypeInv, CountOK, Fault, NoFault
  <1> QED
    BY <1>1, <1>2, FaultTypes

LEMMA CallTypes ==
    ASSUME NEW c \in Call, NEW is \in Marks, NEW ss \in SUBSET Skills
    PROVE  /\ [c EXCEPT !.is = is] \in Call /\ [c EXCEPT !.is = is].kind = c.kind
           /\ [c EXCEPT !.is = is, !.skills = ss] \in Call
           /\ [c EXCEPT !.is = is, !.skills = ss].kind = c.kind
  BY DEF Call, Marks

LEMMA DecideTypes ==
    ASSUME TypeInv, NEW i \in 1..Len(calls), NEW is \in Marks, NEW ss \in SUBSET Skills,
           \/ Decide(i, is)
           \/ calls' = [calls EXCEPT ![i].is = is, ![i].skills = ss]
    PROVE  /\ calls' \in Seq(Call) /\ Len(calls') = Len(calls)
           /\ \A j \in 1..Len(calls) : calls'[j].kind = calls[j].kind
  <1>1. calls \in Seq(Call)
    BY DEF TypeInv, CallsOK
  <1> DEFINE c == calls[i]
             d == [c EXCEPT !.is = is]
             e == [c EXCEPT !.is = is, !.skills = ss]
  <1>2. c \in Call
    BY <1>1
  <1>5. d \in Call /\ e \in Call /\ d.kind = c.kind /\ e.kind = c.kind
    BY <1>2, CallTypes
  <1>6. calls' = [calls EXCEPT ![i] = d] \/ calls' = [calls EXCEPT ![i] = e]
    BY <1>1 DEF Decide
  <1> HIDE DEF d, e
  <1> QED
    BY <1>1, <1>5, <1>6

(* What may be in a summary.                                                *)
LEMMA SummarisedTypes ==
    ASSUME TypeInv, NEW all, NEW offset \in Nat, NEW n \in Nat
    PROVE  Summarised(all, offset, n) \in Summaries
  <1>1. summary \in Summaries
    BY DEF TypeInv, StoreOK
  <1>2. summary.through \in Nat /\ summary.covers \in SUBSET Nat
    BY <1>1 DEF Summaries
  <1> DEFINE more == { offset + i : i \in (summary.through + 1)..n }
             c == Summarize(summary.covers, more)
  <1>3. c \in SUBSET Nat
    <2>1. more \in SUBSET Nat
      BY <1>2
    <2> QED
      BY <1>2, <2>1 DEF Summarize
  <1>4. [through |-> n, covers |-> c] \in Summaries
    <2> HIDE DEF c
    <2> QED
      BY <1>3 DEF Summaries
  <1>5. Summarised(all, offset, n)
           \in {summary, [through |-> n, covers |-> c]}
    BY DEF Summarised
  <1> QED
    BY <1>1, <1>4, <1>5

LEMMA FetchedTypes ==
    ASSUME TypeInv
    PROVE  /\ fetched.messages \in Seq(Message) /\ fetched.offset \in Nat
           /\ fetched.deleted \in BOOLEAN
           /\ summary \in Summaries /\ summary.through \in Nat /\ summary.covers \in SUBSET Nat
           /\ history \in Seq(Message) /\ Len(history) \in Nat
           /\ compressed \in Summaries /\ compressed.through \in Nat
  BY DEF TypeInv, ViewOK, StoreOK, Fetches, Summaries

LEMMA CompactTypes ==
    ASSUME TypeInv, NEW cutoff \in Nat
    PROVE  FileCompact(cutoff) \in Summaries /\ DatabaseCompact(cutoff) \in Summaries
  <1> DEFINE own == cutoff <= Len(fetched.messages)
             o == IF own THEN fetched.offset ELSE 0
             all == IF own THEN fetched.messages ELSE history
             count == IF cutoff + LookAhead > Len(history) THEN Len(history)
                      ELSE cutoff + LookAhead
             first == IF own THEN fetched.messages ELSE SubSeq(history, 1, count)
  <1>1. o \in Nat /\ all \in Seq(Message)
    BY FetchedTypes
  <1>2. first \in Seq(Message)
    <2>1. count \in Nat /\ count <= Len(history)
      BY FetchedTypes, Bounds
    <2> HIDE DEF count
    <2>2. SubSeq(history, 1, count) \in Seq(Message)
      BY <2>1, FetchedTypes
    <2> QED
      BY <2>2, FetchedTypes
  <1>3. /\ FileCompact(cutoff)
              \in {summary, Summarised(all, o, SafeCompressionBoundary(all, cutoff))}
        /\ DatabaseCompact(cutoff)
              \in {summary, Summarised(first, o, SafeCompressionBoundary(first, cutoff))}
    BY DEF FileCompact, DatabaseCompact
  <1> HIDE DEF o, all, first
  <1>4. /\ SafeCompressionBoundary(all, cutoff) \in Nat
        /\ SafeCompressionBoundary(first, cutoff) \in Nat
    BY <1>1, <1>2, BoundaryBeyond
  <1> QED
    BY <1>1, <1>3, <1>4, SummarisedTypes, FetchedTypes

(* What is passed on.                                                       *)
LEMMA PrefixTypes ==
    ASSUME TypeInv
    PROVE  /\ Prefix \in Seq(Message) /\ Loose(Prefix)
           /\ Prefix # <<>> => NotTool(Prefix[1])
           /\ ~Transient => Prefix = <<>>
  <1>1. config.said \in Seq(Message) /\ Loose(config.said)
        /\ (config.said # <<>> => NotTool(config.said[1]))
    BY DEF TypeInv, ConfigOK, Config
  <1>2. /\ \E k \in 0..Len(config.said) : Prefix = Behind(config.said, k)
        /\ Prefix # <<>> => NotTool(Prefix[1])
    BY <1>1, CapIsLatest, Bounds DEF Prefix
  <1>3. Prefix \in Seq(Message) /\ Loose(Prefix)
    BY <1>1, <1>2, BehindTypes, LooseEnd
  <1>4. ~Transient => Prefix = <<>>
    BY Bounds DEF Transient, Prefix, CapMessages
  <1> QED
    BY <1>2, <1>3, <1>4

(* The list of tools stays one.                                             *)
LEMMA StripTypes ==
    ASSUME NEW T, NEW ts \in Seq(T)
    PROVE  StripAgentTools(ts).inPlace \in Seq(T)
  <1> DEFINE n == Len(ts)
             Is(f, l) == f = [i \in 0..l |->
                                IF i = 0 THEN <<>>
                                ELSE IF ts[i] = "delegate" THEN f[i - 1]
                                ELSE Append(f[i - 1], ts[i])]
             S == { l \in 0..n : ~(\E f : Is(f, l)) }
             keep == CHOOSE f : Is(f, n)
  <1>1. n \in Nat /\ \A i \in 1..n : ts[i] \in T
    OBVIOUS
  <1> HIDE DEF n
  <1>2. \E f : Is(f, 0)
    <2>1. Is([i \in 0..0 |-> <<>>], 0)
      OBVIOUS
    <2> QED
      BY <2>1
  <1>3. ASSUME NEW l \in 1..n, NEW f, Is(f, l - 1) PROVE \E g : Is(g, l)
    <2> DEFINE g == [i \in 0..l |-> IF i = l
                                    THEN (IF ts[l] = "delegate" THEN f[l - 1]
                                          ELSE Append(f[l - 1], ts[l]))
                                    ELSE f[i]]
    <2>1. l \in Nat /\ l > 0 /\ l - 1 \in 0..l /\ l - 1 # l
      BY <1>1
    <2>2. ASSUME NEW i \in 0..l
          PROVE  g[i] = IF i = 0 THEN <<>>
                        ELSE IF ts[i] = "delegate" THEN g[i - 1]
                        ELSE Append(g[i - 1], ts[i])
      <3>1. CASE i = l
        BY <2>1, <3>1
      <3>2. CASE i # l
        <4>1. i \in 0..(l - 1) /\ i - 1 # l /\ (i # 0 => i - 1 \in 0..l)
          BY <2>1, <3>2
        <4>2. f[i] = IF i = 0 THEN <<>>
                     ELSE IF ts[i] = "delegate" THEN f[i - 1]
                     ELSE Append(f[i - 1], ts[i])
          BY <1>3, <4>1
        <4>3. g[i] = f[i] /\ (i # 0 => g[i - 1] = f[i - 1])
          BY <3>2, <4>1
        <4> HIDE DEF g
        <4> QED
          BY <4>2, <4>3
      <3> QED
        BY <3>1, <3>2
    <2>3. g = [i \in 0..l |-> g[i]]
      OBVIOUS
    <2> HIDE DEF g
    <2>4. Is(g, l)
      BY <2>2, <2>3
    <2> QED
      BY <2>4
  <1>4. S = {}
    <2> SUFFICES ASSUME S # {} PROVE FALSE
      OBVIOUS
    <2>1. S \in SUBSET Nat
      BY <1>1
    <2>2. Least(S) \in S /\ \A m \in S : Least(S) <= m
      BY <2>1, LeastNumber
    <2> DEFINE l == Least(S)
    <2>3. l \in 0..n /\ ~(\E f : Is(f, l)) /\ l # 0
      BY <1>2, <2>2
    <2>4. l \in 1..n /\ l - 1 \in 0..n /\ ~(l <= l - 1)
      BY <1>1, <2>3
    <2>5. l - 1 \notin S
      BY <2>2, <2>4
    <2>6. \E f : Is(f, l - 1)
      BY <2>4, <2>5
    <2> HIDE DEF l, Is, S
    <2> QED
      BY <1>3, <2>3, <2>4, <2>6
  <1>5. Is(keep, n)
    <2>1. n \in 0..n
      BY <1>1
    <2>2. \E f : Is(f, n)
      BY <1>4, <2>1
    <2> HIDE DEF Is
    <2> QED
      BY <2>2
  <1> DEFINE R == { i \in 0..n : keep[i] \notin Seq(T) }
  <1> HIDE DEF keep
  <1>6. R = {}
    <2> SUFFICES ASSUME R # {} PROVE FALSE
      OBVIOUS
    <2>1. R \in SUBSET Nat
      BY <1>1
    <2>2. Least(R) \in R /\ \A m \in R : Least(R) <= m
      BY <2>1, LeastNumber
    <2>3. PICK i \in R : \A m \in R : i <= m
      BY <2>2
    <2>4. i \in 0..n /\ keep[i] \notin Seq(T)
      BY <2>3
    <2>5. keep[i] = IF i = 0 THEN <<>>
                    ELSE IF ts[i] = "delegate" THEN keep[i - 1]
                    ELSE Append(keep[i - 1], ts[i])
      BY <1>5, <2>4
    <2>6. i # 0
      BY <2>4, <2>5
    <2>7. i \in 1..n /\ i - 1 \in 0..n /\ ~(i <= i - 1)
      BY <1>1, <2>4, <2>6
    <2>8. keep[i - 1] \in Seq(T)
      BY <2>3, <2>7
    <2>9. ts[i] \in T
      BY <1>1, <2>7
    <2> QED
      BY <2>4, <2>5, <2>6, <2>8, <2>9
  <1>7. keep[n] \in Seq(T)
    BY <1>1, <1>6
  <1> DEFINE kept == keep[n]
  <1>8. StripAgentTools(ts).inPlace = kept \o Behind(ts, Len(kept))
    BY DEF StripAgentTools, n, keep
  <1> HIDE DEF kept
  <1>9. Behind(ts, Len(kept)) \in Seq(T)
    <2>1. Len(kept) \in Nat
      BY <1>7 DEF kept
    <2>2. Len(kept) + 1 \in Int /\ n \in Int /\ \A i \in (Len(kept) + 1)..n : ts[i] \in T
      BY <1>1, <2>1
    <2>3. SubSeq(ts, Len(kept) + 1, n) \in Seq(T)
      BY <2>2, SubSeqProperties
    <2> QED
      BY <2>3 DEF Behind, n
  <1> QED
    BY <1>7, <1>8, <1>9 DEF kept

-----------------------------------------------------------------------------
(* The type invariant *)

LEMMA ConfiguredTypes == ConfiguredTools \in Seq(ToolKinds)
  <1>1. "delegate" \in ToolKinds /\ "plain" \in ToolKinds /\ "transfer" \in ToolKinds
    BY DEF ToolKinds
  <1> QED
    BY <1>1 DEF ConfiguredTools

LEMMA TypeInit == Init => TypeInv
  <1> SUFFICES ASSUME Init PROVE TypeInv
    OBVIOUS
  <1>1. PICK s \in Scenarios : /\ config = s.config /\ history = s.messages
                               /\ summary = [through |-> s.through, covers |-> 1..s.through]
    BY DEF Init
  <1>2. /\ s.config \in Config /\ s.messages \in Seq(Message)
        /\ s.through \in 0..Len(s.messages) /\ Sound(s.config.said)
        /\ s.config.said \in Seq(Message)
    BY AgentRunnerAssumption DEF AgentRunnerAssumption, Config
  <1>3. ConfigOK
    BY <1>1, <1>2, SoundBegins DEF ConfigOK
  <1>4. StoreOK
    <2>1. s.through \in Nat
      BY <1>2
    <2>2. summary \in Summaries
      BY <1>1, <2>1 DEF Summaries
    <2> QED
      BY <1>1, <1>2, <2>2 DEF Init, StoreOK
  <1>5. SkillsOK
    BY DEF Init, SkillsOK
  <1>6. ViewOK
    BY NoFetchTypes, LooseNone DEF Init, ViewOK
  <1>7. LoopOK
    BY Bounds DEF Init, LoopOK, Places
  <1>8. CallsOK
    BY Bounds DEF Init, CallsOK
  <1>9. StateOK /\ IdleOK
    BY DEF Init, StateOK, IdleOK, Outcomes
  <1>10. BackOK
    BY ConfiguredTypes DEF Init, BackOK
  <1>11. CountOK
    <2>1. config.runs \in Nat
      BY <1>3 DEF ConfigOK, Config
    <2> QED
      BY <2>1, Bounds DEF Init, CountOK
  <1> QED
    BY <1>3, <1>4, <1>5, <1>6, <1>7, <1>8, <1>9, <1>10, <1>11 DEF TypeInv

(* What the steps of the tools leave alone.                                 *)
LEMMA ExecutingTypes ==
    ASSUME TypeInv, pc = "execute", Executing, calls' \in Seq(Call), Len(calls') = Len(calls),
           catalog' \in SUBSET Skills, loaded' \in SUBSET Skills, tools' \in Seq(ToolKinds)
    PROVE  TypeInv'
  <1>1. CallsOK'
    BY DEF TypeInv, CallsOK, Executing, Answering
  <1>2. SkillsOK' /\ BackOK'
    BY DEF TypeInv, SkillsOK, BackOK, Executing, mem
  <1>3. ConfigOK' /\ StoreOK' /\ ViewOK' /\ LoopOK' /\ StateOK' /\ IdleOK' /\ CountOK'
    BY Frames DEF Executing, mem, state
  <1> QED
    BY <1>1, <1>2, <1>3 DEF TypeInv

(* The calls of skills that are running have seen some.                     *)
LEMMA CallKinds ==
    ASSUME TypeInv, NEW i \in 1..Len(calls)
    PROVE  calls[i] \in Call /\ calls[i].skills \in SUBSET Skills
  <1>1. calls[i] \in Call
    BY DEF TypeInv, CallsOK
  <1> QED
    BY <1>1 DEF Call

LEMMA ToolTypes ==
    ASSUME TypeInv, NEW i \in 1..Len(calls), ToolStep(i)
    PROVE  TypeInv'
  <1> USE DEF Marks
  <1>1. /\ catalog \in SUBSET Skills /\ loaded \in SUBSET Skills /\ installed \in SUBSET Skills
        /\ tools \in Seq(ToolKinds)
    BY DEF TypeInv, SkillsOK, BackOK
  <1>2. CASE ToolEnds(i)
    <2>1. Decide(i, "done") /\ pc = "execute" /\ Executing /\ UNCHANGED <<tools, skills>>
      BY <1>2 DEF ToolEnds, Approved
    <2> QED
      BY <1>1, <2>1, DecideTypes, ExecutingTypes DEF skills
  <1>3. CASE Recall(i)
    <2>1. Decide(i, "done") /\ pc = "execute" /\ Executing /\ UNCHANGED <<tools, skills>>
      BY <1>3 DEF Recall, Approved
    <2> QED
      BY <1>1, <2>1, DecideTypes, ExecutingTypes DEF skills
  <1>4. CASE DelegateStarts(i)
    <2>1. /\ pc = "execute" /\ Executing /\ UNCHANGED <<tools, skills>>
          /\ Decide(i, "running") \/ Decide(i, "done")
      BY <1>4 DEF DelegateStarts, Approved
    <2> QED
      BY <1>1, <2>1, DecideTypes, ExecutingTypes DEF skills
  <1>5. CASE DelegateEnds(i)
    <2>1. Decide(i, "done") /\ pc = "execute" /\ Executing /\ UNCHANGED <<tools, skills>>
      BY <1>5 DEF DelegateEnds, Running
    <2> QED
      BY <1>1, <2>1, DecideTypes, ExecutingTypes DEF skills
  <1>6. CASE SubAgentStarts(i)
    <2>1. /\ Decide(i, "running") /\ pc = "execute" /\ Executing /\ UNCHANGED skills
          /\ tools' = StripAgentTools(tools).inPlace
      BY <1>6 DEF SubAgentStarts, Approved
    <2>2. tools' \in Seq(ToolKinds)
      BY <1>1, <2>1, StripTypes
    <2> QED
      BY <1>1, <2>1, <2>2, DecideTypes, ExecutingTypes DEF skills
  <1>7. CASE SubAgentEnds(i)
    <2>1. Decide(i, "done") /\ pc = "execute" /\ Executing /\ UNCHANGED <<tools, skills>>
      BY <1>7 DEF SubAgentEnds, Running
    <2> QED
      BY <1>1, <2>1, DecideTypes, ExecutingTypes DEF skills
  <1>8. CASE UseSkill(i)
    <2>1. /\ pc = "execute" /\ Executing /\ UNCHANGED <<tools, skills>>
          /\ \/ Decide(i, "done")
             \/ \E s \in (catalog \cap installed) \ loaded :
                   calls' = [calls EXCEPT ![i].is = "running", ![i].skills = {s}]
      BY <1>8 DEF UseSkill, Approved
    <2>2. calls' \in Seq(Call) /\ Len(calls') = Len(calls)
      <3>1. CASE Decide(i, "done")
        BY <3>1, DecideTypes
      <3>2. CASE \E s \in (catalog \cap installed) \ loaded :
                    calls' = [calls EXCEPT ![i].is = "running", ![i].skills = {s}]
        <4>1. PICK s \in (catalog \cap installed) \ loaded :
                 calls' = [calls EXCEPT ![i].is = "running", ![i].skills = {s}]
          BY <3>2
        <4>2. {s} \in SUBSET Skills
          BY <1>1
        <4> QED
          BY <4>1, <4>2, DecideTypes
      <3> QED
        BY <2>1, <3>1, <3>2
    <2> QED
      BY <1>1, <2>1, <2>2, ExecutingTypes DEF skills
  <1>9. CASE KeepSkill(i)
    <2>1. /\ Decide(i, "done") /\ pc = "execute" /\ Executing /\ UNCHANGED <<tools, catalog>>
          /\ loaded' = loaded \cup calls[i].skills
      BY <1>9 DEF KeepSkill, Running
    <2>2. loaded' \in SUBSET Skills
      BY <1>1, <2>1, CallKinds
    <2> QED
      BY <1>1, <2>1, <2>2, DecideTypes, ExecutingTypes
  <1>10. CASE ReloadSkills(i)
    <2>1. /\ pc = "execute" /\ Executing /\ UNCHANGED <<tools, skills>>
          /\ \/ Decide(i, "done")
             \/ calls' = [calls EXCEPT ![i].is = "running", ![i].skills = installed]
      BY <1>10 DEF ReloadSkills, Approved, Discover
    <2> QED
      BY <1>1, <2>1, DecideTypes, ExecutingTypes DEF skills
  <1>11. CASE PruneSkills(i)
    <2>1. /\ Decide(i, "done") /\ pc = "execute" /\ Executing /\ UNCHANGED tools
          /\ catalog' = calls[i].skills /\ loaded' = loaded \cap calls[i].skills
      BY <1>11 DEF PruneSkills, Running
    <2>2. loaded' \in SUBSET Skills /\ catalog' \in SUBSET Skills
      BY <1>1, <2>1, CallKinds
    <2> QED
      BY <1>1, <2>1, <2>2, DecideTypes, ExecutingTypes
  <1> QED
    BY <1>2, <1>3, <1>4, <1>5, <1>6, <1>7, <1>8, <1>9, <1>10, <1>11 DEF ToolStep

(* The messages of a run.                                                   *)
LEMMA MessagesOf ==
    /\ User(Small) \in Message
    /\ \A n \in 0..MaxCalls : Assistant(n, Small) \in Message
    /\ \A z \in Sizes : ToolResult(z) \in Message
  BY SmallIsSize DEF User, Assistant, ToolResult, Message, ConversationAssumption

(* What is read of the store is its end.                                    *)
LEMMA ReadsTypes ==
    ASSUME history \in Seq(Message), Reads
    PROVE  /\ \E k \in 0..Len(history) : fetched'.messages = Behind(history, k)
           /\ fetched' \in Fetches
           /\ (Len(history) <= FetchLimit /\ (history # <<>> => NotTool(history[1])))
                => fetched'.messages = history /\ fetched'.offset = 0
           /\ fetched'.deleted = FALSE
  <1> DEFINE n == IF Count > FetchLimit THEN FetchLimit ELSE Count
             msgs == IF config.backend = "file" THEN FileRecent(history, n)
                     ELSE DatabaseRecent(history, n, MinFetch)
  <1>1. fetched' = [messages |-> msgs, offset |-> Count - Len(msgs), deleted |-> FALSE]
    BY DEF Reads
  <1>2. n \in Nat /\ MinFetch \in Nat /\ (Len(history) <= FetchLimit => n = Len(history))
    BY Bounds DEF Count
  <1> HIDE DEF n
  <1>3. /\ \E k \in 0..Len(history) : FileRecent(history, n) = Behind(history, k)
        /\ \E k \in 0..Len(history) : DatabaseRecent(history, n, MinFetch) = Behind(history, k)
        /\ Len(history) <= n => FileRecent(history, n) = history
        /\ (Len(history) <= n /\ (history # <<>> => NotTool(history[1])))
             => DatabaseRecent(history, n, MinFetch) = history
    BY <1>2, RecentIsLatest, Zenon
  <1>4. msgs \in {FileRecent(history, n), DatabaseRecent(history, n, MinFetch)}
    OBVIOUS
  <1> HIDE DEF msgs
  <1>5. PICK k \in 0..Len(history) : msgs = Behind(history, k)
    BY <1>3, <1>4
  <1>6. msgs \in Seq(Message) /\ Count - Len(msgs) \in Nat
    BY <1>5, BehindTypes DEF Count
  <1>7. ASSUME Len(history) <= FetchLimit, history # <<>> => NotTool(history[1])
        PROVE  msgs = history /\ Count - Len(msgs) = 0
    <2>1. Len(history) <= n /\ Len(history) \in Nat
      BY <1>2, <1>7
    <2>2. msgs = history
      BY <1>3, <1>4, <1>7, <2>1
    <2> QED
      BY <2>1, <2>2 DEF Count
  <1> QED
    BY <1>1, <1>5, <1>6, <1>7 DEF Fetches

(* The steps that prepare a run.                                            *)
LEMMA BeginTypes ==
    ASSUME TypeInv, Start \/ BeginTurn \/ FetchMemory \/ PrepareMemory \/ FetchCompressed
    PROVE  TypeInv'
  <1>1. CASE Start
    <2>1. /\ ConfigOK' /\ ViewOK' /\ CallsOK' /\ IdleOK'
      BY <1>1, Frames DEF Start, loop, TypeInv, CallsOK, Answering
    <2>2. LoopOK'
      BY <1>1, Frames DEF Start, loop, LoopOK, Places, TypeInv
    <2>3. SkillsOK'
      BY <1>1 DEF Start, SkillsOK, TypeInv, Discover
    <2>4. /\ history' \in Seq(Message) /\ damaged' \in BOOLEAN /\ unread' \in BOOLEAN
          /\ faults' \in 0..MaxFaults
      <3>1. CASE Transient
        BY <1>1, <3>1 DEF Start, NoFault, TypeInv, StoreOK, StateOK, BackOK, CountOK
      <3>2. CASE ~Transient
        <4>1. AppendMemory(User(Small))
          BY <1>1, <3>2 DEF Start
        <4> QED
          BY <4>1, AppendTypes, MessagesOf
      <3> QED
        BY <3>1, <3>2
    <2>5. StoreOK' /\ BackOK'
      BY <1>1, <2>4 DEF Start, TypeInv, StoreOK, BackOK
    <2>6. StateOK'
      BY <1>1, <2>4 DEF Start, TypeInv, StateOK, Outcomes, loop
    <2>7. CountOK'
      <3>1. runs' = runs + 1 /\ runs < config.runs /\ config' = config
        BY <1>1 DEF Start
      <3>2. config.runs \in Nat /\ runs \in 0..config.runs
        BY DEF TypeInv, ConfigOK, Config, CountOK
      <3> QED
        BY <2>4, <3>1, <3>2 DEF CountOK
    <2> QED
      BY <2>1, <2>2, <2>3, <2>5, <2>6, <2>7 DEF TypeInv
  <1>2. CASE BeginTurn
    <2>1. UNCHANGED <<mem, tools, damaged, runs, faults>>
      BY <1>2 DEF BeginTurn
    <2>2. ConfigOK' /\ StoreOK' /\ BackOK' /\ CountOK'
      BY <2>1, Frames DEF mem
    <2>3. CASE End("done") \/ End("aborted")
      <3>1. installed' \in SUBSET Skills
        BY <2>1 DEF mem, TypeInv, SkillsOK
      <3> QED
        BY <2>2, <2>3, <3>1, EndTypes DEF TypeInv, Outcomes
    <2>4. CASE /\ pc = "top" /\ turn <= MaxTurns
               /\ pc' = (IF turn = 1 THEN "memory" ELSE "prompt")
               /\ UNCHANGED <<loop, skills, state, unread>>
      <3>1. pc' \in {"memory", "prompt"}
        BY <2>4
      <3>2. SkillsOK' /\ ViewOK' /\ StateOK' /\ IdleOK'
        BY <2>1, <2>4, <3>1, Frames DEF mem, loop, skills, state
      <3>3. LoopOK' /\ CallsOK'
        BY <2>4, <3>1 DEF TypeInv, LoopOK, CallsOK, Places, Answering, loop
      <3> QED
        BY <2>2, <3>2, <3>3 DEF TypeInv
    <2> QED
      BY <1>2, <2>3, <2>4 DEF BeginTurn
  <1>3. CASE FetchMemory
    <2>1. /\ UNCHANGED <<mem, tools, turn, attempt, compressed, skills, calls, fed, lead,
                         state, damaged, runs>>
          /\ pc = "memory" /\ pc' \in {"compressed", "compact"}
      BY <1>3 DEF FetchMemory
    <2>2. ConfigOK' /\ SkillsOK' /\ StoreOK' /\ BackOK' /\ IdleOK'
      BY <2>1, Frames DEF mem, skills
    <2>3. LoopOK' /\ CallsOK'
      BY <2>1 DEF TypeInv, LoopOK, CallsOK, Places, Answering
    <2>4. StateOK' /\ CountOK'
      <3>1. (Fault \/ NoFault) /\ unread' \in BOOLEAN
        BY <1>3 DEF FetchMemory, ReadFails, TypeInv, StateOK
      <3>2. CountOK'
        BY <2>1, <3>1, FaultTypes DEF mem
      <3> QED
        BY <2>1, <3>1, <3>2 DEF TypeInv, StateOK, state
    <2>5. fetched' \in Fetches /\ working' \in Seq(Message)
      <3>1. fetched \in Fetches /\ working \in Seq(Message) /\ history \in Seq(Message)
        BY DEF TypeInv, ViewOK, StoreOK
      <3>2. CASE working' = Append(Prefix, User(Small)) /\ UNCHANGED fetched
        BY <3>1, <3>2, PrefixTypes, MessagesOf
      <3>3. CASE Reads /\ UNCHANGED working
        BY <3>1, <3>3, ReadsTypes
      <3> QED
        BY <1>3, <3>2, <3>3 DEF FetchMemory
    <2>6. ViewOK'
      BY <2>1, <2>5 DEF TypeInv, ViewOK
    <2> QED
      BY <2>2, <2>3, <2>4, <2>6 DEF TypeInv
  <1>4. CASE PrepareMemory
    <2> DEFINE msgs == fetched.messages
               shown == Behind(msgs, WorkingFrom(msgs, Budget))
               strip == shown # <<>> /\ FromUser(shown[Len(shown)])
               kept == IF strip THEN SubSeq(shown, 1, Len(shown) - 1) ELSE shown
               o == Overflow(msgs, Budget)
               cutoff == fetched.offset + SafeCompressionBoundary(msgs, o)
    <2>1. /\ pc = "compact" /\ pc' = "compressed" /\ Compact
          /\ working' = (kept \o Prefix) \o <<User(Small)>>
          /\ fetched' = NoFetch
          /\ UNCHANGED <<config, installed, history, deleting, tools, turn, attempt, compressed,
                         skills, calls, fed, state, damaged, runs>>
          /\ lead' \in {"whole", "cut", "torn"}
      BY <1>4 DEF PrepareMemory
    <2>2. ConfigOK' /\ SkillsOK' /\ BackOK' /\ IdleOK'
      BY <2>1, Frames DEF skills
    <2>3. LoopOK' /\ CallsOK'
      BY <2>1 DEF TypeInv, LoopOK, CallsOK, Places, Answering
    <2>4. /\ Fault \/ NoFault
          /\ unread' \in BOOLEAN /\ revived' \in BOOLEAN
          /\ summary' \in {summary, FileCompact(cutoff), DatabaseCompact(cutoff)}
      BY <2>1 DEF Compact, ReadFails, TypeInv, StateOK, StoreOK
    <2>5. StateOK' /\ CountOK'
      <3>1. CountOK'
        BY <2>1, <2>4, FaultTypes
      <3> QED
        BY <2>1, <2>4, <3>1 DEF TypeInv, StateOK, state
    <2>6. msgs \in Seq(Message) /\ cutoff \in Nat
      <3>1. msgs \in Seq(Message) /\ fetched.offset \in Nat
        BY FetchedTypes
      <3> HIDE DEF msgs
      <3>2. o \in 0..Len(msgs)
        BY <3>1, OverflowTypes, Bounds
      <3>3. SafeCompressionBoundary(msgs, o) \in Nat
        BY <3>1, <3>2, BoundaryTypes
      <3> QED
        BY <3>1, <3>3
    <2>7. StoreOK'
      <3> HIDE DEF cutoff
      <3>1. summary' \in Summaries
        BY <2>4, <2>6, CompactTypes, FetchedTypes
      <3> QED
        BY <2>1, <2>4, <3>1 DEF TypeInv, StoreOK
    <2>8. working' \in Seq(Message)
      <3> HIDE DEF msgs
      <3>1. shown \in Seq(Message)
        BY <2>6, WorkingFromTypes, BehindTypes, Bounds
      <3> HIDE DEF shown
      <3>2. kept \in Seq(Message)
        BY <3>1, ButLast
      <3> HIDE DEF kept
      <3> QED
        BY <2>1, <3>2, PrefixTypes, MessagesOf
    <2>9. ViewOK'
      BY <2>1, <2>8, NoFetchTypes DEF TypeInv, ViewOK
    <2> QED
      BY <2>2, <2>3, <2>5, <2>7, <2>9 DEF TypeInv
  <1>5. CASE FetchCompressed
    <2>1. /\ pc = "compressed" /\ pc' = "guard"
          /\ UNCHANGED <<mem, tools, turn, attempt, fetched, working, skills, calls, fed,
                         lead, state, damaged, runs>>
          /\ Fault \/ NoFault
          /\ unread' \in BOOLEAN /\ compressed' \in {summary, compressed}
      BY <1>5 DEF FetchCompressed, ReadFails, TypeInv, StateOK
    <2>2. ConfigOK' /\ SkillsOK' /\ StoreOK' /\ BackOK' /\ IdleOK' /\ CountOK'
      BY <2>1, Frames, FaultTypes DEF mem, skills
    <2>3. LoopOK' /\ CallsOK'
      BY <2>1 DEF TypeInv, LoopOK, CallsOK, Places, Answering
    <2>4. StateOK' /\ ViewOK'
      BY <2>1 DEF TypeInv, StateOK, ViewOK, StoreOK, state
    <2> QED
      BY <2>2, <2>3, <2>4 DEF TypeInv
  <1> QED
    BY <1>1, <1>2, <1>3, <1>4, <1>5

(* The steps of a turn.                                                     *)
LEMMA TurnTypes ==
    ASSUME TypeInv, \/ InGuard \/ BuildPrompt \/ CallModel \/ Backoff \/ OutGuard \/ Approve
                    \/ ToolsEnd \/ FeedResult \/ EndTurn
    PROVE  TypeInv'
  <1> USE DEF Outcomes
  <1>0. installed \in SUBSET Skills /\ damaged \in BOOLEAN
    BY DEF TypeInv, SkillsOK, BackOK
  <1>1. CASE InGuard
    <2>1. UNCHANGED <<mem, tools, damaged, runs, faults>> /\ pc = "guard"
      BY <1>1 DEF InGuard
    <2>2. ConfigOK' /\ StoreOK' /\ BackOK' /\ CountOK'
      BY <2>1, Frames DEF mem
    <2>3. CASE End("error")
      BY <1>0, <2>1, <2>2, <2>3, EndTypes DEF TypeInv, mem
    <2>4. CASE pc' = "prompt" /\ UNCHANGED <<loop, skills, state, unread>>
      <3>1. SkillsOK' /\ ViewOK' /\ StateOK' /\ IdleOK'
        BY <2>1, <2>4, Frames DEF mem, loop, skills, state
      <3>2. LoopOK' /\ CallsOK'
        BY <2>1, <2>4 DEF TypeInv, LoopOK, CallsOK, Places, Answering, loop
      <3> QED
        BY <2>2, <3>1, <3>2 DEF TypeInv
    <2> QED
      BY <1>1, <2>3, <2>4 DEF InGuard
  <1>2. CASE BuildPrompt
    <2>1. /\ pc = "prompt" /\ pc' = "model" /\ attempt' = 0
          /\ UNCHANGED <<mem, tools, turn, fetched, compressed, skills, calls, fed, state,
                         unread, damaged, runs, faults>>
          /\ lead' \in {"trimmed", "cut", lead}
          /\ working' \in {working, TrimToContextWindow(working, TrimBudget)}
      BY <1>2 DEF BuildPrompt
    <2>2. ConfigOK' /\ SkillsOK' /\ StoreOK' /\ BackOK' /\ IdleOK' /\ CountOK'
      BY <2>1, Frames DEF mem, skills
    <2>3. LoopOK' /\ CallsOK'
      BY <2>1, Bounds DEF TypeInv, LoopOK, CallsOK, Places, Answering
    <2>4. working' \in Seq(Message)
      <3>1. working \in Seq(Message)
        BY DEF TypeInv, ViewOK
      <3>2. TrimToContextWindow(working, TrimBudget) \in Seq(Message)
        BY <3>1, TrimIsLatest, BehindTypes
      <3> QED
        BY <2>1, <3>1, <3>2
    <2>5. StateOK' /\ ViewOK'
      BY <2>1, <2>4 DEF TypeInv, StateOK, ViewOK, state
    <2> QED
      BY <2>2, <2>3, <2>5 DEF TypeInv
  <1>3. CASE CallModel
    <2>1. pc = "model" /\ UNCHANGED <<config, installed, summary, deleting, revived, tools, runs>>
      BY <1>3 DEF CallModel
    <2>2. CASE Answers
      <3>0. PICK n \in 0..MaxCalls : \E kinds \in [1..n -> config.kinds] :
              /\ calls' = [i \in 1..n |-> [kind |-> kinds[i], is |-> "called", skills |-> {}]]
              /\ Remember(Assistant(n, Small))
              /\ pc' = "answer"
              /\ UNCHANGED <<attempt, turn, fetched, compressed, skills, fed, lead, state>>
        BY <2>2 DEF Answers
      <3>1. PICK kinds \in [1..n -> config.kinds] :
              /\ calls' = [i \in 1..n |-> [kind |-> kinds[i], is |-> "called", skills |-> {}]]
              /\ Remember(Assistant(n, Small))
              /\ pc' = "answer"
              /\ UNCHANGED <<attempt, turn, fetched, compressed, skills, fed, lead, state>>
        BY <3>0
      <3>2. Assistant(n, Small) \in Message
        BY MessagesOf
      <3>3. /\ history' \in Seq(Message) /\ damaged' \in BOOLEAN /\ unread' \in BOOLEAN
            /\ CountOK' /\ working' = Append(working, Assistant(n, Small))
        BY <2>1, <3>1, <3>2, AppendTypes DEF Remember
      <3>4. ConfigOK' /\ SkillsOK' /\ IdleOK'
        BY <2>1, <3>1, Frames DEF skills
      <3>5. LoopOK'
        BY <2>1, <3>1 DEF TypeInv, LoopOK, Places
      <3>6. CallsOK'
        <4>1. n \in Nat /\ n <= MaxCalls /\ config.kinds \in SUBSET AllKinds
          BY Bounds DEF TypeInv, ConfigOK, Config
        <4>2. ASSUME NEW i \in 1..n
              PROVE  [kind |-> kinds[i], is |-> "called", skills |-> {}] \in Call
          BY <4>1 DEF Call
        <4>3. calls' \in Seq(Call) /\ Len(calls') = n
          BY <3>1, <4>1, <4>2
        <4>4. fed = 0
          BY <2>1 DEF TypeInv, CallsOK
        <4> QED
          BY <3>1, <4>1, <4>3, <4>4 DEF CallsOK, Answering
      <3>7. StoreOK' /\ BackOK' /\ StateOK'
        BY <2>1, <3>1, <3>3 DEF TypeInv, StoreOK, BackOK, StateOK, state
      <3>8. working' \in Seq(Message)
        BY <3>2, <3>3 DEF TypeInv, ViewOK
      <3>9. ViewOK'
        BY <3>1, <3>8 DEF TypeInv, ViewOK
      <3> QED
        BY <3>3, <3>4, <3>5, <3>6, <3>7, <3>9 DEF TypeInv
    <2>3. CASE FailsForNow
      <3>1. /\ attempt < MaxRetries /\ attempt' = attempt + 1 /\ pc' = "backoff"
            /\ UNCHANGED <<turn, fetched, compressed, skills, working, calls, fed, lead,
                           state, unread, damaged, history, faults>>
        BY <2>3 DEF FailsForNow
      <3>2. /\ ConfigOK' /\ SkillsOK' /\ StoreOK' /\ ViewOK' /\ BackOK' /\ IdleOK' /\ CountOK'
            /\ StateOK'
        BY <2>1, <3>1, Frames DEF skills, state
      <3>3. LoopOK' /\ CallsOK'
        BY <2>1, <3>1, Bounds DEF TypeInv, LoopOK, CallsOK, Places, Answering
      <3> QED
        BY <3>2, <3>3 DEF TypeInv
    <2>4. CASE Fails
      <3>1. (End("aborted") \/ End("error")) /\ UNCHANGED <<damaged, history, faults>>
        BY <2>4 DEF Fails
      <3>2. ConfigOK' /\ StoreOK' /\ BackOK' /\ CountOK'
        BY <2>1, <3>1, Frames
      <3> QED
        BY <1>0, <2>1, <3>1, <3>2, EndTypes DEF TypeInv
    <2> QED
      BY <1>3, <2>2, <2>3, <2>4 DEF CallModel
  <1>4. CASE Backoff
    <2>1. UNCHANGED <<mem, tools, damaged, runs, faults>> /\ pc = "backoff"
      BY <1>4 DEF Backoff
    <2>2. ConfigOK' /\ StoreOK' /\ BackOK' /\ CountOK'
      BY <2>1, Frames DEF mem
    <2>3. CASE End("aborted")
      BY <1>0, <2>1, <2>2, <2>3, EndTypes DEF TypeInv, mem
    <2>4. CASE pc' = "model" /\ UNCHANGED <<loop, skills, state, unread>>
      <3>1. SkillsOK' /\ ViewOK' /\ StateOK' /\ IdleOK'
        BY <2>1, <2>4, Frames DEF mem, loop, skills, state
      <3>2. LoopOK' /\ CallsOK'
        BY <2>1, <2>4 DEF TypeInv, LoopOK, CallsOK, Places, Answering, loop
      <3> QED
        BY <2>2, <3>1, <3>2 DEF TypeInv
    <2> QED
      BY <1>4, <2>3, <2>4 DEF Backoff
  <1>5. CASE OutGuard
    <2>1. UNCHANGED <<mem, tools, runs, faults>> /\ pc = "answer" /\ damaged' \in BOOLEAN
      BY <1>0, <1>5 DEF OutGuard
    <2>2. ConfigOK' /\ StoreOK' /\ BackOK' /\ CountOK'
      BY <2>1, Frames DEF mem, TypeInv, BackOK
    <2>3. CASE End("error") \/ End("done")
      BY <1>0, <2>1, <2>2, <2>3, EndTypes DEF TypeInv, mem
    <2>4. CASE pc' = "approve" /\ UNCHANGED <<loop, skills, state, unread>>
      <3>1. SkillsOK' /\ ViewOK' /\ StateOK' /\ IdleOK'
        BY <2>1, <2>4, Frames DEF mem, loop, skills, state
      <3>2. LoopOK' /\ CallsOK'
        BY <2>1, <2>4 DEF TypeInv, LoopOK, CallsOK, Places, Answering, loop
      <3> QED
        BY <2>2, <3>1, <3>2 DEF TypeInv
    <2> QED
      BY <1>5, <2>3, <2>4 DEF OutGuard
  <1>6. CASE Approve
    <2>1. /\ UNCHANGED <<mem, tools, turn, attempt, fetched, compressed, skills, working, fed,
                         lead, state, unread, damaged, runs, faults>>
          /\ pc = "approve"
      BY <1>6 DEF Approve
    <2>2. pc' \in {"approve", "execute"} /\ calls' \in Seq(Call) /\ Len(calls') = Len(calls)
      <3>1. CASE Undecided = {}
        BY <1>6, <2>1, <3>1 DEF Approve, TypeInv, CallsOK
      <3>2. CASE Undecided # {}
        <4>1. Undecided \in SUBSET Nat
          BY DEF Undecided
        <4>2. Least(Undecided) \in 1..Len(calls)
          <5>1. Least(Undecided) \in Undecided
            BY <3>2, <4>1, LeastNumber
          <5> QED
            BY <5>1 DEF Undecided
        <4>3. /\ pc' = pc
              /\ \/ Decide(Least(Undecided), "approved")
                 \/ Decide(Least(Undecided), "refused")
          BY <1>6, <3>2, Zenon DEF Approve
        <4>4. calls' \in Seq(Call) /\ Len(calls') = Len(calls)
          <5> DEFINE i == Least(Undecided)
          <5>1. i \in 1..Len(calls) /\ {} \in SUBSET Skills
            BY <4>2
          <5>2. "approved" \in Marks /\ "refused" \in Marks
            BY DEF Marks
          <5> HIDE DEF i
          <5>3. CASE Decide(i, "approved")
            BY <5>1, <5>2, <5>3, DecideTypes
          <5>4. CASE Decide(i, "refused")
            BY <5>1, <5>2, <5>4, DecideTypes
          <5> QED
            BY <4>3, <5>3, <5>4 DEF i
        <4> QED
          BY <2>1, <4>3, <4>4
      <3> QED
        BY <3>1, <3>2
    <2>3. /\ ConfigOK' /\ SkillsOK' /\ StoreOK' /\ ViewOK' /\ BackOK' /\ IdleOK' /\ CountOK'
          /\ StateOK'
      BY <2>1, <2>2, Frames DEF mem, skills, state
    <2>4. LoopOK' /\ CallsOK'
      BY <2>1, <2>2 DEF TypeInv, LoopOK, CallsOK, Places, Answering
    <2> QED
      BY <2>3, <2>4 DEF TypeInv
  <1>7. CASE ToolsEnd
    <2>1. /\ pc = "execute" /\ pc' = "feed"
          /\ UNCHANGED <<mem, tools, loop, skills, state, unread, damaged, runs, faults>>
      BY <1>7 DEF ToolsEnd
    <2>2. /\ ConfigOK' /\ SkillsOK' /\ StoreOK' /\ ViewOK' /\ BackOK' /\ IdleOK' /\ CountOK'
          /\ StateOK'
      BY <2>1, Frames DEF mem, skills, state, loop
    <2>3. LoopOK' /\ CallsOK'
      BY <2>1 DEF TypeInv, LoopOK, CallsOK, Places, Answering, loop
    <2> QED
      BY <2>2, <2>3 DEF TypeInv
  <1>8. CASE FeedResult
    <2>1. /\ UNCHANGED <<config, installed, summary, deleting, revived, tools, runs>>
          /\ pc = "feed" /\ fed < Len(calls)
      BY <1>8 DEF FeedResult
    <2>2. CASE End("error") /\ damaged' = TRUE /\ UNCHANGED <<history, faults>>
      <3>1. ConfigOK' /\ StoreOK' /\ CountOK'
        BY <2>1, <2>2, Frames
      <3>2. BackOK'
        BY <2>1, <2>2 DEF TypeInv, BackOK
      <3> QED
        BY <1>0, <2>1, <2>2, <3>1, <3>2, EndTypes DEF TypeInv
    <2>3. CASE /\ \E z \in Sizes : Remember(ToolResult(z)) /\ fed' = fed + 1
               /\ UNCHANGED <<pc, turn, attempt, fetched, compressed, skills, calls, lead,
                              state>>
      <3>1. PICK z \in Sizes : Remember(ToolResult(z)) /\ fed' = fed + 1
        BY <2>3
      <3>2. ToolResult(z) \in Message
        BY MessagesOf
      <3>3. /\ history' \in Seq(Message) /\ damaged' \in BOOLEAN /\ unread' \in BOOLEAN
            /\ CountOK' /\ working' = Append(working, ToolResult(z))
        BY <2>1, <3>1, <3>2, AppendTypes DEF Remember
      <3>4. ConfigOK' /\ SkillsOK' /\ IdleOK' /\ LoopOK'
        BY <2>1, <2>3, Frames DEF skills
      <3>5. CallsOK'
        <4>1. calls \in Seq(Call) /\ Len(calls) <= MaxCalls /\ fed \in 0..Len(calls)
              /\ Len(calls) \in Nat
          BY DEF TypeInv, CallsOK
        <4>2. fed' \in 0..Len(calls)
          BY <2>1, <3>1, <4>1
        <4> QED
          BY <2>1, <2>3, <4>1, <4>2 DEF CallsOK, Answering
      <3>6. StoreOK' /\ BackOK' /\ StateOK'
        BY <2>1, <2>3, <3>3 DEF TypeInv, StoreOK, BackOK, StateOK, state
      <3>7. working' \in Seq(Message)
        BY <3>2, <3>3 DEF TypeInv, ViewOK
      <3>8. ViewOK'
        BY <2>3, <3>7 DEF TypeInv, ViewOK
      <3> QED
        BY <3>3, <3>4, <3>5, <3>6, <3>8 DEF TypeInv
    <2> QED
      BY <1>8, <2>2, <2>3 DEF FeedResult
  <1>9. CASE EndTurn
    <2>1. UNCHANGED <<mem, tools, damaged, runs, faults>> /\ pc = "feed"
      BY <1>9 DEF EndTurn
    <2>2. ConfigOK' /\ StoreOK' /\ BackOK' /\ CountOK'
      BY <2>1, Frames DEF mem
    <2>3. CASE End("handoff")
      BY <1>0, <2>1, <2>2, <2>3, EndTypes DEF TypeInv, mem
    <2>4. CASE NextTurn
      <3>1. SkillsOK' /\ ViewOK' /\ StateOK' /\ IdleOK'
        BY <2>1, <2>4, Frames DEF mem, NextTurn, skills, state
      <3>2. LoopOK'
        BY <2>1, <2>4, Bounds DEF TypeInv, LoopOK, Places, NextTurn
      <3>3. CallsOK'
        BY <2>4, Bounds DEF CallsOK, NextTurn
      <3> QED
        BY <2>2, <3>1, <3>2, <3>3 DEF TypeInv
    <2> QED
      BY <1>9, <2>3, <2>4 DEF EndTurn
  <1> QED
    BY <1>1, <1>2, <1>3, <1>4, <1>5, <1>6, <1>7, <1>8, <1>9

(* The process dies.                                                        *)
LEMMA DiesTypes ==
    ASSUME TypeInv, Dies, Fault \/ NoFault
    PROVE  TypeInv'
  <1>1. /\ End("none") /\ tools' = ConfiguredTools
        /\ UNCHANGED <<config, installed, history, runs>>
        /\ damaged' \in BOOLEAN /\ deleting' \in BOOLEAN /\ revived' \in BOOLEAN
        /\ summary' \in {summary, NoSummary}
    <2>1. damaged \in BOOLEAN /\ revived \in BOOLEAN /\ Dangling(history) \in BOOLEAN
      BY DEF TypeInv, BackOK, StoreOK, Dangling
    <2>2. /\ End("none") /\ tools' = ConfiguredTools
          /\ UNCHANGED <<config, installed, history, runs>>
          /\ damaged' = (damaged \/ Dangling(history))
          /\ deleting' = FALSE
          /\ summary' \in {summary} \cup (IF config.backend = "file" /\ pc = "compact"
                                          THEN {NoSummary} ELSE {})
          /\ revived' = (revived \/ (deleting /\ summary'.through > 0))
      BY DEF Dies
    <2>3. summary' \in {summary, NoSummary}
      BY <2>2
    <2> QED
      BY <2>1, <2>2, <2>3
  <1>2. ConfigOK' /\ CountOK'
    BY <1>1, Frames, FaultTypes
  <1>3. StoreOK' /\ BackOK'
    BY <1>1, NoFetchTypes, ConfiguredTypes DEF TypeInv, StoreOK, BackOK
  <1>4. installed' \in SUBSET Skills
    BY <1>1 DEF TypeInv, SkillsOK
  <1>5. SkillsOK' /\ ViewOK' /\ LoopOK' /\ CallsOK' /\ StateOK' /\ IdleOK'
    BY <1>1, <1>4, EndTypes DEF Outcomes
  <1> QED
    BY <1>2, <1>3, <1>5 DEF TypeInv

(* What comes from outside.                                                 *)
LEMMA OutsideTypes ==
    ASSUME TypeInv, Cancel \/ ChangeSkills \/ DeleteSession \/ DeleteSummary
    PROVE  TypeInv'
  <1>1. CASE Cancel
    <2>1. /\ pc # "idle" /\ cancelled' = TRUE /\ Fault
          /\ UNCHANGED <<mem, tools, pc, loop, skills, outcome, unread, damaged, runs>>
      BY <1>1 DEF Cancel
    <2>2. /\ ConfigOK' /\ SkillsOK' /\ StoreOK' /\ ViewOK' /\ LoopOK' /\ CallsOK' /\ BackOK'
          /\ IdleOK' /\ CountOK'
      BY <2>1, Frames, FaultTypes DEF mem, loop, skills
    <2>3. StateOK'
      BY <2>1 DEF TypeInv, StateOK, loop
    <2> QED
      BY <2>2, <2>3 DEF TypeInv
  <1>2. CASE ChangeSkills
    <2>1. /\ Fault /\ installed' \in SUBSET Skills
          /\ UNCHANGED <<config, history, summary, deleting, revived, tools, pc, loop, skills,
                         state, unread, damaged, runs>>
      BY <1>2 DEF ChangeSkills
    <2>2. /\ ConfigOK' /\ StoreOK' /\ ViewOK' /\ LoopOK' /\ CallsOK' /\ BackOK' /\ StateOK'
          /\ IdleOK' /\ CountOK'
      BY <2>1, Frames, FaultTypes DEF loop, state
    <2>3. SkillsOK'
      BY <2>1 DEF TypeInv, SkillsOK, skills
    <2> QED
      BY <2>2, <2>3 DEF TypeInv
  <1>3. CASE DeleteSession
    <2>1. /\ Fault /\ history' = <<>>
          /\ summary' = (IF config.backend = "file" THEN [summary EXCEPT !.covers = {}]
                         ELSE NoSummary)
          /\ deleting' \in BOOLEAN /\ damaged' \in BOOLEAN /\ unread' = (pc # "idle")
          /\ fetched' = [fetched EXCEPT !.deleted = (pc = "compact")]
          /\ UNCHANGED <<config, installed, revived, tools, pc, turn, attempt, compressed,
                         skills, working, calls, fed, lead, state, runs>>
      BY <1>3 DEF DeleteSession
    <2>2. ConfigOK' /\ SkillsOK' /\ LoopOK' /\ CallsOK' /\ CountOK'
      BY <2>1, Frames, FaultTypes DEF skills
    <2>3. summary' \in Summaries
      <3>1. [summary EXCEPT !.covers = {}] \in Summaries
        <4>1. summary \in Summaries
          BY DEF TypeInv, StoreOK
        <4> QED
          BY <4>1 DEF Summaries
      <3> QED
        BY <2>1, <3>1, NoFetchTypes
    <2>4. StoreOK'
      BY <2>1, <2>3, LooseNone DEF TypeInv, StoreOK
    <2>5. fetched' \in Fetches
      <3>1. fetched \in Fetches /\ (pc = "compact") \in BOOLEAN
        BY DEF TypeInv, ViewOK
      <3> QED
        BY <2>1, <3>1 DEF Fetches
    <2>6. StateOK' /\ BackOK' /\ ViewOK'
      BY <2>1, <2>5 DEF TypeInv, StateOK, BackOK, ViewOK, state
    <2>7. IdleOK'
      <3>1. SUFFICES ASSUME pc = "idle"
                     PROVE  working' = <<>> /\ fetched' = NoFetch /\ ~unread' /\ turn' = 1
                            /\ ~cancelled'
        BY <2>1 DEF IdleOK
      <3>2. working = <<>> /\ fetched = NoFetch /\ turn = 1 /\ ~cancelled
        BY <3>1 DEF TypeInv, IdleOK
      <3>3. fetched' = NoFetch
        BY <2>1, <3>1, <3>2 DEF NoFetch
      <3> QED
        BY <2>1, <3>1, <3>2, <3>3 DEF state
    <2> QED
      BY <2>2, <2>4, <2>6, <2>7 DEF TypeInv
  <1>4. CASE DeleteSummary
    <2>1. /\ deleting' = FALSE /\ summary' = NoSummary /\ unread' = (pc # "idle")
          /\ UNCHANGED <<config, installed, history, revived, tools, pc, loop, skills, state,
                         damaged, runs, faults>>
      BY <1>4 DEF DeleteSummary
    <2>2. /\ ConfigOK' /\ SkillsOK' /\ ViewOK' /\ LoopOK' /\ CallsOK' /\ CountOK' /\ BackOK'
      BY <2>1, Frames DEF loop, skills
    <2>3. StoreOK' /\ StateOK' /\ IdleOK'
      BY <2>1, NoFetchTypes DEF TypeInv, StoreOK, StateOK, IdleOK, loop, state
    <2> QED
      BY <2>2, <2>3 DEF TypeInv
  <1> QED
    BY <1>1, <1>2, <1>3, <1>4

LEMMA TypeStep == TypeInv /\ [Next]_vars => TypeInv'
  <1> SUFFICES ASSUME TypeInv, [Next]_vars PROVE TypeInv'
    OBVIOUS
  <1>1. CASE UNCHANGED vars
    <2>1. /\ ConfigOK' /\ SkillsOK' /\ StoreOK' /\ ViewOK' /\ LoopOK' /\ CallsOK' /\ CountOK'
          /\ BackOK' /\ StateOK' /\ IdleOK'
      BY <1>1, Frames DEF vars
    <2> QED
      BY <2>1 DEF TypeInv
  <1>2. CASE RunStep
    BY <1>2, BeginTypes, TurnTypes, ToolTypes DEF RunStep
  <1>3. CASE Crash \/ MapsCollide
    BY <1>3, DiesTypes DEF Crash, MapsCollide
  <1> QED
    BY <1>1, <1>2, <1>3, BeginTypes, OutsideTypes DEF Next

(* Every variable has its type.                                             *)
THEOREM TypeCorrect == Spec => []TypeOK
  <1>1. Spec => []TypeInv
    BY TypeInit, TypeStep, PTL DEF Spec
  <1> QED
    BY <1>1, TypesHold, PTL

-----------------------------------------------------------------------------
(* Requests are sound *)

(* While the results of an answer are awaited, the last message with calls  *)
(* has as many of them behind it as have been fed back; otherwise every     *)
(* call has its own.  So it is in the store and in the working set, and in  *)
(* what has been read of the store.                                         *)
Fits(ms) == IF pc \in Answering THEN Open(ms, Len(calls), fed) ELSE Loose(ms)

ConvInv == ~damaged => Fits(history) /\ Fits(working) /\ Loose(fetched.messages)

(* A request that has been cut begins with the user, when it is retried,    *)
(* too.                                                                     *)
CutInv == pc \in {"model", "backoff"} /\ lead = "trimmed" /\ working # <<>> => FromUser(working[1])

LEMMA ConvInit == Init => ConvInv /\ CutInv
  <1> SUFFICES ASSUME Init PROVE ConvInv /\ CutInv
    OBVIOUS
  <1>1. pc = "idle" /\ working = <<>> /\ fetched = NoFetch
    BY DEF Init
  <1>2. Loose(history)
    BY AgentRunnerAssumption, SoundBegins DEF Init, AgentRunnerAssumption
  <1> QED
    BY <1>1, <1>2, LooseNone DEF ConvInv, CutInv, Fits, Answering, NoFetch

LEMMA ConvSame ==
    ASSUME ConvInv, history' = history, working' = working,
           fetched'.messages = fetched.messages, fed' = fed, Len(calls') = Len(calls),
           pc' \in Answering <=> pc \in Answering, damaged => damaged'
    PROVE  ConvInv'
  BY DEF ConvInv, Fits

LEMMA ConvEnd ==
    ASSUME NEW how, End(how), ~damaged' => Loose(history')
    PROVE  ConvInv' /\ CutInv'
  <1>1. pc' = "idle" /\ working' = <<>> /\ fetched'.messages = <<>>
    BY DEF End, NoFetch
  <1> QED
    BY <1>1, LooseNone DEF ConvInv, CutInv, Fits, Answering

(* Nothing is said of requests elsewhere.                                   *)
LEMMA CutElsewhere == pc' \notin {"model", "backoff"} => CutInv'
  BY DEF CutInv

LEMMA ConvBegin ==
    ASSUME TypeInv, ConvInv, Start \/ BeginTurn \/ FetchMemory \/ PrepareMemory \/ FetchCompressed
    PROVE  ConvInv' /\ CutInv'
  <1>0. /\ history \in Seq(Message) /\ working \in Seq(Message)
        /\ fetched.messages \in Seq(Message)
    BY FetchedTypes DEF TypeInv, ViewOK
  <1>1. CASE Start
    <2>1. pc = "idle" /\ pc' = "top" /\ UNCHANGED loop
      BY <1>1 DEF Start
    <2>2. UNCHANGED <<history, damaged>> \/ AppendMemory(User(Small))
      BY <1>1 DEF Start
    <2>3. ~damaged' => /\ ~damaged
                       /\ history' \in {history, Append(history, User(Small))}
      BY <2>2 DEF AppendMemory, Stored
    <2>4. ~damaged' => Loose(history')
      <3> HAVE ~damaged'
      <3>1. Loose(history)
        BY <2>1, <2>3 DEF ConvInv, Fits, Answering
      <3>2. Loose(Append(history, User(Small)))
        BY <1>0, <3>1, LooseUser, SmallIsSize
      <3> QED
        BY <2>3, <3>1, <3>2
    <2>5. ~damaged' => Loose(working') /\ Loose(fetched'.messages)
      BY <2>1, <2>3 DEF ConvInv, Fits, Answering, loop
    <2> QED
      BY <2>1, <2>4, <2>5, CutElsewhere DEF ConvInv, Fits, Answering
  <1>2. CASE BeginTurn
    <2>1. UNCHANGED <<mem, tools, damaged, runs, faults>> /\ pc = "top"
      BY <1>2 DEF BeginTurn
    <2>2. CASE End("done") \/ End("aborted")
      <3>1. ~damaged' => Loose(history')
        BY <2>1 DEF mem, ConvInv, Fits, Answering
      <3> QED
        BY <2>2, <3>1, ConvEnd
    <2>3. CASE pc' \in {"memory", "prompt"} /\ UNCHANGED loop
      <3>1. ConvInv'
        BY <2>1, <2>3, ConvSame DEF mem, loop, Answering
      <3> QED
        BY <2>3, <3>1, CutElsewhere
    <2> QED
      BY <1>2, <2>2, <2>3 DEF BeginTurn
  <1>3. CASE FetchMemory
    <2>1. /\ UNCHANGED <<mem, tools, turn, attempt, compressed, skills, calls, fed, lead,
                         state, damaged, runs>>
          /\ pc = "memory" /\ pc' \in {"compressed", "compact"}
      BY <1>3 DEF FetchMemory
    <2> SUFFICES ASSUME ~damaged PROVE Loose(working') /\ Loose(fetched'.messages) /\ Loose(history)
      BY <2>1, CutElsewhere DEF ConvInv, Fits, Answering, mem
    <2>2. Loose(history) /\ Loose(working) /\ Loose(fetched.messages)
      BY <2>1 DEF ConvInv, Fits, Answering
    <2>3. CASE working' = Append(Prefix, User(Small)) /\ UNCHANGED fetched
      BY <2>2, <2>3, PrefixTypes, LooseUser, SmallIsSize
    <2>4. CASE Reads /\ UNCHANGED working
      <3>1. \E k \in 0..Len(history) : fetched'.messages = Behind(history, k)
        BY <1>0, <2>4, ReadsTypes
      <3> QED
        BY <1>0, <2>2, <2>4, <3>1, LooseEnd
    <2> QED
      BY <1>3, <2>2, <2>3, <2>4 DEF FetchMemory
  <1>4. CASE PrepareMemory
    <2> DEFINE msgs == fetched.messages
               shown == Behind(msgs, WorkingFrom(msgs, Budget))
               strip == shown # <<>> /\ FromUser(shown[Len(shown)])
               kept == IF strip THEN SubSeq(shown, 1, Len(shown) - 1) ELSE shown
    <2>1. /\ pc = "compact" /\ pc' = "compressed"
          /\ working' = (kept \o Prefix) \o <<User(Small)>>
          /\ fetched' = NoFetch
          /\ UNCHANGED <<history, damaged, calls, fed>>
      BY <1>4 DEF PrepareMemory
    <2> SUFFICES ASSUME ~damaged PROVE Loose(working') /\ Loose(history)
      BY <2>1, CutElsewhere, LooseNone DEF ConvInv, Fits, Answering, NoFetch
    <2>2. Loose(history) /\ Loose(msgs)
      BY <2>1 DEF ConvInv, Fits, Answering
    <2>3. msgs \in Seq(Message)
      BY <1>0
    <2> HIDE DEF msgs
    <2>4. WorkingFrom(msgs, Budget) \in 0..Len(msgs) /\ WorkingFrom(msgs, Budget) \in Nat
      BY <2>3, WorkingFromTypes, Bounds
    <2>5. shown \in Seq(Message) /\ Loose(shown)
      BY <2>2, <2>3, <2>4, BehindTypes, LooseEnd
    <2> HIDE DEF shown
    <2>6. kept \in Seq(Message) /\ Loose(kept)
      BY <2>5, ButLast, LooseWithoutLast
    <2> HIDE DEF kept
    <2>7. (kept \o Prefix) \in Seq(Message) /\ Loose(kept \o Prefix)
      BY <2>6, PrefixTypes, LooseCat
    <2>8. <<User(Small)>> \in Seq(Message) /\ Loose(<<User(Small)>>) /\ NotTool(<<User(Small)>>[1])
      BY LooseOne, SmallIsSize
    <2>9. Loose((kept \o Prefix) \o <<User(Small)>>)
      BY <2>7, <2>8, LooseCat
    <2> QED
      BY <2>1, <2>2, <2>9
  <1>5. CASE FetchCompressed
    <2>1. /\ pc = "compressed" /\ pc' = "guard"
          /\ UNCHANGED <<mem, tools, turn, attempt, fetched, working, skills, calls, fed,
                         lead, state, damaged, runs>>
      BY <1>5 DEF FetchCompressed
    <2> QED
      BY <2>1, ConvSame, CutElsewhere DEF mem, Answering
  <1> QED
    BY <1>1, <1>2, <1>3, <1>4, <1>5

LEMMA ConvTurn ==
    ASSUME TypeInv, TypeInv', ConvInv, CutInv,
           \/ InGuard \/ BuildPrompt \/ CallModel \/ Backoff \/ OutGuard \/ Approve
           \/ ToolsEnd \/ FeedResult \/ EndTurn
    PROVE  ConvInv' /\ CutInv'
  <1>0. /\ history \in Seq(Message) /\ working \in Seq(Message)
        /\ Len(calls) \in 0..MaxCalls /\ fed \in 0..Len(calls) /\ Len(calls) \in Nat
    BY Bounds DEF TypeInv, StoreOK, ViewOK, CallsOK
  <1>1. CASE InGuard
    <2>1. UNCHANGED <<mem, tools, damaged, runs, faults>> /\ pc = "guard"
      BY <1>1 DEF InGuard
    <2>2. CASE End("error")
      <3>1. ~damaged' => Loose(history')
        BY <2>1 DEF mem, ConvInv, Fits, Answering
      <3> QED
        BY <2>2, <3>1, ConvEnd
    <2>3. CASE pc' = "prompt" /\ UNCHANGED loop
      <3>1. ConvInv'
        BY <2>1, <2>3, ConvSame DEF mem, loop, Answering
      <3> QED
        BY <2>3, <3>1, CutElsewhere
    <2> QED
      BY <1>1, <2>2, <2>3 DEF InGuard
  <1>2. CASE BuildPrompt
    <2>1. /\ pc = "prompt" /\ pc' = "model"
          /\ UNCHANGED <<mem, tools, turn, fetched, compressed, skills, calls, fed, state,
                         unread, damaged, runs, faults>>
          /\ \/ working' = TrimToContextWindow(working, TrimBudget)
             \/ UNCHANGED working /\ lead' # "trimmed"
      BY <1>2 DEF BuildPrompt
    <2> DEFINE cut == TrimToContextWindow(working, TrimBudget)
    <2>2. PICK k \in 0..Len(working) : cut = Behind(working, k)
      BY <1>0, TrimIsLatest
    <2>3. cut # <<>> => FromUser(cut[1])
      BY <1>0, TrimIsLatest
    <2> HIDE DEF cut
    <2>4. Loose(working) => Loose(cut)
      BY <1>0, <2>2, LooseEnd
    <2>5. working' = cut \/ (UNCHANGED working /\ lead' # "trimmed")
      BY <2>1 DEF cut
    <2>6. ConvInv'
      BY <2>1, <2>4, <2>5 DEF ConvInv, Fits, Answering, mem
    <2>7. CutInv'
      BY <2>3, <2>5 DEF CutInv
    <2> QED
      BY <2>6, <2>7
  <1>3. CASE CallModel
    <2>1. pc = "model"
      BY <1>3 DEF CallModel
    <2>2. CASE Answers
      <3>1. PICK n \in 0..MaxCalls :
              /\ Len(calls') = n
              /\ Remember(Assistant(n, Small))
              /\ pc' = "answer"
              /\ UNCHANGED <<attempt, turn, fetched, compressed, skills, fed, lead, state>>
        <4>1. PICK n \in 0..MaxCalls : \E kinds \in [1..n -> config.kinds] :
                /\ calls' = [i \in 1..n |-> [kind |-> kinds[i], is |-> "called", skills |-> {}]]
                /\ Remember(Assistant(n, Small))
                /\ pc' = "answer"
                /\ UNCHANGED <<attempt, turn, fetched, compressed, skills, fed, lead, state>>
          BY <2>2 DEF Answers
        <4>2. n \in Nat
          BY Bounds
        <4>3. calls' \in Seq(Call)
          BY DEF TypeInv, CallsOK
        <4>4. Len(calls') = n
          BY <4>1, <4>2, <4>3
        <4> QED
          BY <4>1, <4>4
      <3>2. fed = 0
        BY <2>1 DEF TypeInv, CallsOK
      <3>3. ~damaged' => ~damaged /\ history' = Append(history, Assistant(n, Small))
        BY <3>1 DEF Remember, AppendMemory, Stored
      <3>4. working' = Append(working, Assistant(n, Small))
        BY <3>1 DEF Remember
      <3>5. ConvInv'
        <4> SUFFICES ASSUME ~damaged'
                     PROVE  /\ Open(history', n, 0) /\ Open(working', n, 0)
                            /\ Loose(fetched.messages)
          BY <3>1, <3>2 DEF ConvInv, Fits, Answering
        <4>1. Loose(history) /\ Loose(working) /\ Loose(fetched.messages)
          BY <2>1, <3>3 DEF ConvInv, Fits, Answering
        <4> QED
          BY <1>0, <3>3, <3>4, <4>1, OpenCalls, SmallIsSize
      <3> QED
        BY <3>1, <3>5, CutElsewhere
    <2>3. CASE FailsForNow
      <3>1. /\ pc' = "backoff"
            /\ UNCHANGED <<turn, fetched, compressed, skills, working, calls, fed, lead,
                           state, unread, damaged, history, faults>>
        BY <2>3 DEF FailsForNow
      <3>2. ConvInv'
        BY <2>1, <3>1, ConvSame DEF Answering
      <3>3. CutInv'
        BY <2>1, <3>1 DEF CutInv
      <3> QED
        BY <3>2, <3>3
    <2>4. CASE Fails
      <3>1. (End("aborted") \/ End("error")) /\ UNCHANGED <<damaged, history, faults>>
        BY <2>4 DEF Fails
      <3>2. ~damaged' => Loose(history')
        BY <2>1, <3>1 DEF ConvInv, Fits, Answering
      <3> QED
        BY <3>1, <3>2, ConvEnd
    <2> QED
      BY <1>3, <2>2, <2>3, <2>4 DEF CallModel
  <1>4. CASE Backoff
    <2>1. UNCHANGED <<mem, tools, damaged, runs, faults>> /\ pc = "backoff"
      BY <1>4 DEF Backoff
    <2>2. CASE End("aborted")
      <3>1. ~damaged' => Loose(history')
        BY <2>1 DEF mem, ConvInv, Fits, Answering
      <3> QED
        BY <2>2, <3>1, ConvEnd
    <2>3. CASE pc' = "model" /\ UNCHANGED loop
      <3>1. ConvInv'
        BY <2>1, <2>3, ConvSame DEF mem, loop, Answering
      <3>2. CutInv'
        BY <2>1, <2>3 DEF CutInv, loop
      <3> QED
        BY <3>1, <3>2
    <2> QED
      BY <1>4, <2>2, <2>3 DEF Backoff
  <1>5. CASE OutGuard
    <2>1. UNCHANGED <<mem, tools, runs, faults>> /\ pc = "answer"
      BY <1>5 DEF OutGuard
    <2>2. fed = 0
      BY <2>1 DEF TypeInv, CallsOK
    <2>3. CASE /\ End("error") \/ End("done")
               /\ (damaged' = (damaged \/ calls # <<>>)) \/ (calls = <<>> /\ UNCHANGED damaged)
      <3>1. ~damaged' => ~damaged /\ Len(calls) = 0
        <4>1. ~damaged' => ~damaged /\ calls = <<>>
          BY <2>3, Zenon
        <4>2. calls = <<>> => Len(calls) = 0
          OBVIOUS
        <4> QED
          BY <4>1, <4>2
      <3>2. ~damaged' => Open(history, 0, 0)
        BY <2>1, <2>2, <3>1 DEF ConvInv, Fits, Answering
      <3>3. ~damaged' => Loose(history')
        <4>1. 0 \in 0..MaxCalls
          BY Bounds
        <4> QED
          BY <1>0, <2>1, <3>2, <4>1, OpenEnds DEF mem
      <3> QED
        BY <2>3, <3>3, ConvEnd
    <2>4. CASE pc' = "approve" /\ UNCHANGED <<loop, damaged>>
      <3>1. ConvInv'
        BY <2>1, <2>4, ConvSame DEF mem, loop, Answering
      <3> QED
        BY <2>4, <3>1, CutElsewhere
    <2> QED
      BY <1>5, <2>3, <2>4 DEF OutGuard
  <1>6. CASE Approve
    <2>1. /\ UNCHANGED <<mem, tools, turn, attempt, fetched, compressed, skills, working, fed,
                         lead, state, unread, damaged, runs, faults>>
          /\ pc = "approve"
      BY <1>6 DEF Approve
    <2>2. pc' \in {"approve", "execute"} /\ Len(calls') = Len(calls)
      <3>1. CASE Undecided = {}
        BY <1>6, <2>1, <3>1 DEF Approve
      <3>2. CASE Undecided # {}
        <4>1. /\ pc' = pc
              /\ \/ Decide(Least(Undecided), "approved")
                 \/ Decide(Least(Undecided), "refused")
          BY <1>6, <3>2, Zenon DEF Approve
        <4>2. Len(calls') = Len(calls)
          <5>1. calls \in Seq(Call)
            BY DEF TypeInv, CallsOK
          <5> QED
            BY <4>1, <5>1 DEF Decide
        <4> QED
          BY <2>1, <4>1, <4>2
      <3> QED
        BY <3>1, <3>2
    <2> QED
      BY <2>1, <2>2, ConvSame, CutElsewhere DEF mem, Answering
  <1>7. CASE ToolsEnd
    <2>1. /\ pc = "execute" /\ pc' = "feed"
          /\ UNCHANGED <<mem, tools, loop, skills, state, unread, damaged, runs, faults>>
      BY <1>7 DEF ToolsEnd
    <2> QED
      BY <2>1, ConvSame, CutElsewhere DEF mem, loop, Answering
  <1>8. CASE FeedResult
    <2>1. pc = "feed" /\ fed < Len(calls)
      BY <1>8 DEF FeedResult
    <2>2. CASE End("error") /\ damaged' = TRUE
      BY <2>2, ConvEnd
    <2>3. CASE /\ \E z \in Sizes : Remember(ToolResult(z)) /\ fed' = fed + 1
               /\ UNCHANGED <<pc, turn, attempt, fetched, compressed, skills, calls, lead,
                              state>>
      <3>1. PICK z \in Sizes : Remember(ToolResult(z)) /\ fed' = fed + 1
        BY <2>3
      <3>2. ~damaged' => ~damaged /\ history' = Append(history, ToolResult(z))
        BY <3>1 DEF Remember, AppendMemory, Stored
      <3>3. working' = Append(working, ToolResult(z))
        BY <3>1 DEF Remember
      <3> DEFINE n == Len(calls)
      <3>4. ConvInv'
        <4> SUFFICES ASSUME ~damaged'
                     PROVE  /\ Open(history', n, fed + 1) /\ Open(working', n, fed + 1)
                            /\ Loose(fetched.messages)
          BY <2>1, <2>3, <3>1 DEF ConvInv, Fits, Answering
        <4>1. Open(history, n, fed) /\ Open(working, n, fed) /\ Loose(fetched.messages)
          BY <2>1, <3>2 DEF ConvInv, Fits, Answering
        <4>2. n \in 0..MaxCalls /\ fed \in Nat /\ fed < n
          BY <1>0, <2>1
        <4> HIDE DEF n
        <4> QED
          BY <1>0, <3>2, <3>3, <4>1, <4>2, OpenResults
      <3> QED
        BY <2>1, <2>3, <3>4, CutElsewhere
    <2> QED
      BY <1>8, <2>2, <2>3 DEF FeedResult
  <1>9. CASE EndTurn
    <2>1. UNCHANGED <<mem, tools, damaged, runs, faults>> /\ pc = "feed" /\ fed = Len(calls)
      BY <1>9 DEF EndTurn
    <2> DEFINE n == Len(calls)
    <2>2. ~damaged => Open(history, n, n) /\ Open(working, n, n) /\ Loose(fetched.messages)
      BY <2>1 DEF ConvInv, Fits, Answering
    <2>3. n \in 0..MaxCalls
      BY <1>0
    <2> HIDE DEF n
    <2>4. ~damaged => Loose(history) /\ Loose(working)
      BY <1>0, <2>2, <2>3, OpenEnds
    <2>5. CASE End("handoff")
      BY <2>1, <2>4, <2>5, ConvEnd DEF mem
    <2>6. CASE NextTurn
      BY <2>1, <2>2, <2>4, <2>6, CutElsewhere DEF mem, NextTurn, ConvInv, Fits, Answering
    <2> QED
      BY <1>9, <2>5, <2>6 DEF EndTurn
  <1> QED
    BY <1>1, <1>2, <1>3, <1>4, <1>5, <1>6, <1>7, <1>8, <1>9

LEMMA ConvTool ==
    ASSUME TypeInv, ConvInv, NEW i \in 1..Len(calls), ToolStep(i)
    PROVE  ConvInv' /\ CutInv'
  <1>1. /\ pc = "execute" /\ Executing
    BY DEF ToolStep, ToolEnds, Recall, DelegateStarts, DelegateEnds, SubAgentStarts,
       SubAgentEnds, UseSkill, KeepSkill, ReloadSkills, PruneSkills, Approved, Running
  <1>2. \/ \E is \in Marks : Decide(i, is)
        \/ \E ss : calls' = [calls EXCEPT ![i].is = "running", ![i].skills = ss]
    BY Zenon DEF ToolStep, ToolEnds, Recall, DelegateStarts, DelegateEnds, SubAgentStarts,
       SubAgentEnds, UseSkill, KeepSkill, ReloadSkills, PruneSkills, Marks
  <1>3. Len(calls') = Len(calls)
    <2>1. calls \in Seq(Call)
      BY DEF TypeInv, CallsOK
    <2> QED
      BY <1>2, <2>1 DEF Decide
  <1> QED
    BY <1>1, <1>3, ConvSame, CutElsewhere DEF Executing, mem

LEMMA ConvOutside ==
    ASSUME TypeInv, ConvInv, CutInv,
           Cancel \/ ChangeSkills \/ Crash \/ MapsCollide \/ DeleteSession \/ DeleteSummary
    PROVE  ConvInv' /\ CutInv'
  <1>1. CASE Cancel \/ ChangeSkills \/ DeleteSummary
    <2>1. UNCHANGED <<history, pc, loop, damaged>>
      BY <1>1 DEF Cancel, ChangeSkills, DeleteSummary, mem
    <2> QED
      BY <2>1, ConvSame DEF CutInv, loop
  <1>2. CASE Crash \/ MapsCollide
    <2>1. Dies
      BY <1>2 DEF Crash, MapsCollide
    <2>2. /\ End("none") /\ damaged' = (damaged \/ Dangling(history)) /\ history' = history
      BY <2>1 DEF Dies
    <2>3. ~damaged' => Loose(history')
      BY <2>2 DEF ConvInv, Fits, Open, Loose
    <2> QED
      BY <2>2, <2>3, ConvEnd
  <1>3. CASE DeleteSession
    <2>1. /\ history' = <<>> /\ damaged' = (pc # "idle")
          /\ fetched' = [fetched EXCEPT !.deleted = (pc = "compact")]
          /\ UNCHANGED <<pc, working, calls, fed, lead>>
      BY <1>3 DEF DeleteSession
    <2>2. CASE pc # "idle"
      BY <2>1, <2>2 DEF ConvInv, CutInv
    <2>3. CASE pc = "idle"
      <3>1. working = <<>> /\ fetched = NoFetch
        BY <2>3 DEF TypeInv, IdleOK
      <3>2. fetched'.messages = <<>>
        BY <2>1, <3>1 DEF NoFetch
      <3> QED
        BY <2>1, <2>3, <3>1, <3>2, LooseNone DEF ConvInv, CutInv, Fits, Answering
    <2> QED
      BY <2>2, <2>3
  <1> QED
    BY <1>1, <1>2, <1>3

LEMMA ConvStep == TypeInv /\ ConvInv /\ CutInv /\ [Next]_vars => ConvInv' /\ CutInv'
  <1> SUFFICES ASSUME TypeInv, ConvInv, CutInv, [Next]_vars PROVE ConvInv' /\ CutInv'
    OBVIOUS
  <1>1. TypeInv'
    BY TypeStep
  <1>2. CASE UNCHANGED vars
    <2>1. UNCHANGED <<history, working, fetched, calls, fed, pc, damaged, lead>>
      BY <1>2 DEF vars
    <2> QED
      BY <2>1, ConvSame DEF CutInv
  <1>3. CASE RunStep
    BY <1>1, <1>3, ConvBegin, ConvTurn, ConvTool DEF RunStep
  <1> QED
    BY <1>2, <1>3, ConvBegin, ConvOutside DEF Next

(* What a run has fetched is an end of the history, unless the session has  *)
(* been deleted since.                                                      *)
FetchInv ==
    pc = "compact" =>
        IF fetched.deleted THEN damaged
        ELSE \E k \in 0..Len(history) :
                fetched.messages = Behind(history, k) /\ fetched.offset = k

LEMMA FetchInit == Init => FetchInv
  BY DEF Init, FetchInv

LEMMA FetchStep == TypeInv /\ FetchInv /\ [Next]_vars => FetchInv'
  <1> SUFFICES ASSUME TypeInv, FetchInv, [Next]_vars, pc' = "compact" PROVE FetchInv'
    BY DEF FetchInv
  <1>1. CASE UNCHANGED vars \/ Cancel \/ ChangeSkills \/ DeleteSummary
    <2>1. UNCHANGED <<pc, history, fetched, damaged>>
      BY <1>1 DEF vars, Cancel, ChangeSkills, DeleteSummary, mem, loop
    <2> QED
      BY <2>1 DEF FetchInv
  <1>2. CASE DeleteSession
    <2>1. /\ damaged' = (pc # "idle") /\ pc = "compact"
          /\ fetched' = [fetched EXCEPT !.deleted = (pc = "compact")]
      BY <1>2 DEF DeleteSession
    <2>2. fetched \in Fetches
      BY DEF TypeInv, ViewOK
    <2> QED
      BY <2>1, <2>2 DEF FetchInv, Fetches
  <1>3. CASE FetchMemory
    <2>1. Reads /\ UNCHANGED history
      BY <1>3 DEF FetchMemory, mem
    <2>2. PICK k \in 0..Len(history) : fetched'.messages = Behind(history, k)
      BY <2>1, ReadsTypes, FetchedTypes
    <2>3. fetched'.offset = Len(history) - Len(fetched'.messages) /\ ~fetched'.deleted
      BY <2>1 DEF Reads, Count
    <2>4. fetched'.offset = k
      BY <2>2, <2>3, BehindTypes, FetchedTypes
    <2> QED
      BY <2>1, <2>2, <2>3, <2>4 DEF FetchInv
  <1>4. CASE Start \/ BeginTurn \/ PrepareMemory \/ FetchCompressed \/ InGuard \/ BuildPrompt
    BY <1>4 DEF Start, BeginTurn, PrepareMemory, FetchCompressed, InGuard, BuildPrompt, End
  <1>5. CASE CallModel \/ Backoff \/ OutGuard
    BY <1>5 DEF CallModel, Answers, FailsForNow, Fails, Backoff, OutGuard, End
  <1>6. CASE Approve
    <2>1. pc' \in {pc, "execute"} /\ pc = "approve"
      BY <1>6, Zenon DEF Approve
    <2> QED
      BY <2>1
  <1>7. CASE ToolsEnd \/ FeedResult \/ EndTurn
    BY <1>7 DEF ToolsEnd, FeedResult, EndTurn, NextTurn, End
  <1>8. CASE \E i \in 1..Len(calls) : ToolStep(i)
    BY <1>8 DEF ToolStep, ToolEnds, Recall, DelegateStarts, DelegateEnds, SubAgentStarts,
       SubAgentEnds, UseSkill, KeepSkill, ReloadSkills, PruneSkills, Approved, Running, Executing
  <1>9. CASE Crash \/ MapsCollide
    BY <1>9 DEF Crash, MapsCollide, Dies, End
  <1> QED
    BY <1>1, <1>2, <1>3, <1>4, <1>5, <1>6, <1>7, <1>8, <1>9 DEF Next, RunStep

(* How a session begins, of which members of a team store only a part.      *)
Opens(m) == FromUser(m) \/ (Transient /\ NotTool(m))

(* The run has put together what the model is shown.                        *)
Put == pc \in ({"compressed", "guard", "prompt", "model", "backoff"} \cup Answering)
       \/ (pc = "top" /\ turn # 1)

(* What the history and the working set begin with.                         *)
HeadInv ==
    ~damaged =>
        /\ history # <<>> => Opens(history[1])
        /\ pc # "idle" /\ history = <<>> => Transient
        /\ working # <<>> /\ lead = "whole" => Opens(working[1])
        /\ working # <<>> /\ lead # "torn" => NotTool(working[1])
        /\ Put /\ lead = "whole" => working # <<>>

LEMMA HeadInit == Init => HeadInv
  <1> SUFFICES ASSUME Init PROVE HeadInv
    OBVIOUS
  <1>1. PICK s \in Scenarios : config = s.config /\ history = s.messages
    BY DEF Init
  <1>2. /\ s.messages \in Seq(Message) /\ Sound(s.messages)
        /\ s.messages # <<>> => FromUser(s.messages[1]) \/ s.config.said # <<>>
    BY AgentRunnerAssumption DEF AgentRunnerAssumption
  <1>3. history # <<>> => Opens(history[1])
    BY <1>1, <1>2, SoundBegins DEF Opens, Transient
  <1> QED
    BY <1>3 DEF Init, HeadInv, Put, Answering

LEMMA OpensNotTool == ASSUME NEW m, Opens(m) PROVE NotTool(m)
  BY DEF Opens, FromUser, NotTool

(* A message that is appended leaves the first one where it is.             *)
LEMMA FirstStays ==
    ASSUME NEW ms \in Seq(Message), NEW m \in Message
    PROVE  /\ Append(ms, m) # <<>>
           /\ Append(ms, m)[1] = IF ms = <<>> THEN m ELSE ms[1]
  <1>1. CASE ms = <<>>
    BY <1>1
  <1>2. CASE ms # <<>>
    BY <1>2
  <1> QED
    BY <1>1, <1>2

LEMMA FirstOf ==
    ASSUME NEW a \in Seq(Message), NEW b \in Seq(Message), b # <<>>
    PROVE  a \o b # <<>> /\ (a \o b)[1] = IF a = <<>> THEN b[1] ELSE a[1]
  <1>1. a \o b \in Seq(Message) /\ Len(a \o b) = Len(a) + Len(b) /\ Len(b) > 0
    OBVIOUS
  <1>2. CASE a = <<>>
    BY <1>1, <1>2
  <1>3. CASE a # <<>>
    BY <1>1, <1>3
  <1> QED
    BY <1>2, <1>3

LEMMA HeadSame ==
    ASSUME HeadInv, UNCHANGED <<config, history, working, lead>>, damaged => damaged',
           Put' => Put, pc' # "idle" => pc # "idle"
    PROVE  HeadInv'
  BY DEF HeadInv, Opens, Transient

LEMMA HeadEnd ==
    ASSUME HeadInv, NEW how, End(how), UNCHANGED <<config, history>>, damaged => damaged'
    PROVE  HeadInv'
  <1>1. working' = <<>> /\ lead' = "whole" /\ pc' = "idle"
    BY DEF End
  <1> QED
    BY <1>1 DEF HeadInv, Opens, Transient, Put, Answering

(* A cut that is not torn is before a message that is no result.            *)
LEMMA NotTorn ==
    ASSUME NEW ms \in Seq(Message), NEW budget \in Nat, Placed(ms), ms # <<>>,
           NEW from, from = WorkingFrom(ms, budget),
           ~Torn(ms, IF from = 0 THEN 0 ELSE Overflow(ms, budget))
    PROVE  NotTool(ms[from + 1])
  <1> DEFINE o == Overflow(ms, budget)
  <1>1. o \in 0..Len(ms) /\ Len(ms) > 0
    BY OverflowTypes
  <1>2. /\ from \in 0..Len(ms) /\ from < Len(ms)
        /\ from = 0 \/ (o < Len(ms) /\ from = SafeCompressionBoundary(ms, o))
    BY WorkingFromTypes
  <1>3. ~Torn(ms, IF from = 0 THEN 0 ELSE o)
    OBVIOUS
  <1> HIDE DEF o
  <1>4. CASE from = 0
    BY <1>1, <1>3, <1>4 DEF Torn
  <1>5. CASE from # 0 /\ o \in 1..(Len(ms) - 1) /\ Calling(ms[o])
    <2>1. from = DropTo(ms, o, NotTool)
      BY <1>2, <1>5 DEF SafeCompressionBoundary
    <2>2. \/ DropTo(ms, o, NotTool) = Len(ms)
          \/ NotTool(ms[DropTo(ms, o, NotTool) + 1])
      BY <1>1, DropTypes, Zenon
    <2>3. from = Len(ms) \/ NotTool(ms[from + 1])
      BY <2>1, <2>2, Zenon
    <2> QED
      BY <1>1, <1>2, <2>3
  <1>6. CASE from # 0 /\ ~(o \in 1..(Len(ms) - 1) /\ Calling(ms[o]))
    <2>1. from = o /\ o > 0 /\ o < Len(ms) /\ o \in Nat
      BY <1>1, <1>2, <1>6 DEF SafeCompressionBoundary
    <2>2. ~Calling(ms[o]) /\ ~Torn(ms, o)
      BY <1>3, <1>6, <2>1
    <2>3. NotTool(ms[o + 1]) \/ NotTool(ms[o])
      BY <2>1, <2>2 DEF Torn
    <2> SUFFICES ASSUME ~NotTool(ms[o + 1]) PROVE FALSE
      BY <2>1
    <2>4. HasCall(ms, o + 1)
      <3>1. o + 1 \in 1..Len(ms) /\ o \in 1..(o + 1)
        BY <2>1
      <3> QED
        BY <2>3, <3>1 DEF Placed
    <2>5. PICK k \in 1..MaxCalls :
             /\ k < o + 1
             /\ Calling(ms[(o + 1) - k])
             /\ ms[(o + 1) - k].calls >= k
             /\ \A j \in ((o + 1) - k + 1)..(o + 1) : ms[j].role = "tool"
      BY <2>4, Zenon DEF HasCall
    <2>6. CASE k = 1
      BY <2>1, <2>2, <2>5, <2>6
    <2>7. CASE k # 1
      <3>1. o \in (o + 1 - k + 1)..(o + 1)
        BY <2>1, <2>7
      <3> QED
        BY <2>3, <2>5, <3>1 DEF NotTool
    <2> QED
      BY <2>6, <2>7
  <1> QED
    BY <1>4, <1>5, <1>6

LEMMA HeadBegin ==
    ASSUME TypeInv, ConvInv, FetchInv, HeadInv,
           Start \/ BeginTurn \/ FetchMemory \/ PrepareMemory \/ FetchCompressed
    PROVE  HeadInv'
  <1>0. /\ history \in Seq(Message) /\ working \in Seq(Message)
        /\ fetched \in Fetches /\ fetched.messages \in Seq(Message)
        /\ User(Small) \in Message /\ FromUser(User(Small)) /\ Opens(User(Small))
    BY FetchedTypes, MessagesOf DEF TypeInv, ViewOK, User, FromUser, Opens
  <1>1. CASE Start
    <2>1. /\ pc = "idle" /\ pc' = "top" /\ turn = 1 /\ working = <<>>
          /\ UNCHANGED <<config, turn, working, lead>>
      BY <1>1 DEF Start, loop, TypeInv, IdleOK
    <2>2. ~Put'
      BY <2>1 DEF Put, Answering
    <2>3. CASE Transient
      <3>1. UNCHANGED <<history, damaged>>
        BY <1>1, <2>3 DEF Start
      <3> QED
        BY <2>1, <2>2, <2>3, <3>1 DEF HeadInv, Opens, Transient
    <2>4. CASE ~Transient
      <3>1. AppendMemory(User(Small))
        BY <1>1, <2>4 DEF Start
      <3>2. ~damaged' => ~damaged /\ history' = Append(history, User(Small))
        BY <3>1 DEF AppendMemory, Stored
      <3>3. ~damaged' => history' # <<>> /\ Opens(history'[1])
        BY <1>0, <3>2, FirstStays DEF HeadInv
      <3> QED
        BY <2>1, <2>2, <3>3 DEF HeadInv, Opens, Transient
    <2> QED
      BY <2>3, <2>4
  <1>2. CASE BeginTurn
    <2>1. UNCHANGED <<config, history, damaged>> /\ pc = "top"
      BY <1>2 DEF BeginTurn, mem
    <2>2. CASE End("done") \/ End("aborted")
      BY <2>1, <2>2, HeadEnd
    <2>3. CASE pc' = (IF turn = 1 THEN "memory" ELSE "prompt") /\ UNCHANGED loop
      <3>1. Put' => Put
        BY <2>1, <2>3 DEF Put, Answering
      <3> QED
        BY <2>1, <2>3, <3>1, HeadSame DEF loop
    <2> QED
      BY <1>2, <2>2, <2>3 DEF BeginTurn
  <1>3. CASE FetchMemory
    <2>1. /\ UNCHANGED <<config, history, damaged, lead>> /\ pc = "memory"
          /\ pc' \in {"compressed", "compact"}
      BY <1>3 DEF FetchMemory, mem
    <2>2. CASE working' = Append(Prefix, User(Small))
      <3>1. Prefix \in Seq(Message) /\ (Prefix # <<>> => Opens(Prefix[1]))
        BY PrefixTypes DEF Opens
      <3>2. working' # <<>> /\ Opens(working'[1])
        BY <1>0, <2>2, <3>1, FirstStays
      <3>3. NotTool(working'[1])
        BY <3>2, OpensNotTool
      <3> QED
        BY <2>1, <3>2, <3>3 DEF HeadInv, Opens, Transient
    <2>3. CASE UNCHANGED working /\ pc' = "compact"
      <3>1. ~Put'
        BY <2>3 DEF Put, Answering
      <3> QED
        BY <2>1, <2>3, <3>1 DEF HeadInv, Opens, Transient
    <2> QED
      BY <1>3, <2>2, <2>3 DEF FetchMemory
  <1>4. CASE PrepareMemory
    <2> DEFINE msgs == fetched.messages
               from == WorkingFrom(msgs, Budget)
               over == Overflow(msgs, Budget)
               shown == Behind(msgs, from)
               strip == shown # <<>> /\ FromUser(shown[Len(shown)])
               kept == IF strip THEN SubSeq(shown, 1, Len(shown) - 1) ELSE shown
               rest == Prefix \o <<User(Small)>>
    <2>1. /\ pc = "compact" /\ pc' = "compressed"
          /\ working' = (kept \o Prefix) \o <<User(Small)>>
          /\ UNCHANGED <<config, history, damaged>>
      BY <1>4 DEF PrepareMemory
    <2>2. /\ lead' # "torn" => ~Torn(msgs, IF from = 0 THEN 0 ELSE over)
          /\ lead' = "whole" => from + fetched.offset = 0
      BY <1>4 DEF PrepareMemory
    <2> SUFFICES ASSUME ~damaged
                 PROVE  /\ working' # <<>>
                        /\ lead' # "torn" => NotTool(working'[1])
                        /\ lead' = "whole" => Opens(working'[1])
      BY <2>1 DEF HeadInv, Opens, Transient
    <2>3. PICK k \in 0..Len(history) : msgs = Behind(history, k) /\ fetched.offset = k
      BY <2>1 DEF FetchInv
    <2>4. msgs \in Seq(Message) /\ Placed(msgs)
      BY <1>0 DEF ConvInv, Loose
    <2>5. from \in 0..Len(msgs) /\ (msgs # <<>> => from < Len(msgs)) /\ Budget \in Nat
      BY <2>4, WorkingFromTypes, Bounds
    <2>6. lead' # "torn" /\ msgs # <<>> => NotTool(msgs[from + 1])
      BY <2>2, <2>4, <2>5, NotTorn
    <2>7. lead' = "whole" => from = 0 /\ msgs = history
      <3>1. ASSUME from + k = 0 PROVE from = 0 /\ k = 0
        BY <2>5, <3>1
      <3> QED
        BY <1>0, <2>2, <2>3, <3>1, BehindNone
    <2> HIDE DEF msgs, from
    <2>8. shown \in Seq(Message) /\ Len(shown) = Len(msgs) - from
          /\ \A i \in 1..Len(shown) : shown[i] = msgs[i + from]
      BY <2>4, <2>5, BehindTypes
    <2>9. shown # <<>> => msgs # <<>> /\ shown[1] = msgs[from + 1]
      <3>1. shown # <<>> => 1 \in 1..Len(shown) /\ 1 + from = from + 1 /\ Len(msgs) # 0
        BY <2>4, <2>5, <2>8
      <3> QED
        BY <2>8, <3>1
    <2>10. shown # <<>> /\ lead' = "whole" => Opens(shown[1])
      BY <2>7, <2>9 DEF HeadInv
    <2> HIDE DEF shown
    <2>11. kept \in Seq(Message) /\ (kept # <<>> => shown # <<>> /\ kept[1] = shown[1])
      <3>1. CASE strip
        <4>1. /\ SubSeq(shown, 1, Len(shown) - 1) \in Seq(Message)
              /\ Len(SubSeq(shown, 1, Len(shown) - 1)) = Len(shown) - 1
              /\ \A i \in 1..(Len(shown) - 1) : SubSeq(shown, 1, Len(shown) - 1)[i] = shown[i]
          BY <2>8, <3>1, ButLast
        <4>2. kept = SubSeq(shown, 1, Len(shown) - 1)
          BY <3>1
        <4> HIDE DEF kept
        <4>3. kept # <<>> => 1 \in 1..(Len(shown) - 1)
          BY <2>8, <4>1, <4>2
        <4> QED
          BY <3>1, <4>1, <4>2, <4>3
      <3>2. CASE ~strip
        BY <2>8, <3>2
      <3> QED
        BY <3>1, <3>2
    <2> HIDE DEF kept
    <2>12. Prefix \in Seq(Message) /\ (Prefix # <<>> => Opens(Prefix[1]))
      BY PrefixTypes DEF Opens
    <2>13. <<User(Small)>> \in Seq(Message) /\ <<User(Small)>> # <<>>
           /\ <<User(Small)>>[1] = User(Small)
      BY <1>0
    <2>14. working' = kept \o rest
      BY <2>1, <2>11, <2>12, <2>13
    <2>15. rest \in Seq(Message) /\ rest # <<>> /\ Opens(rest[1])
      BY <1>0, <2>12, <2>13, FirstOf
    <2> HIDE DEF rest
    <2>16. working' # <<>> /\ working'[1] = IF kept = <<>> THEN rest[1] ELSE kept[1]
      BY <2>11, <2>14, <2>15, FirstOf
    <2> QED
      BY <2>6, <2>9, <2>10, <2>11, <2>15, <2>16, OpensNotTool
  <1>5. CASE FetchCompressed
    <2>1. UNCHANGED <<config, history, working, lead, damaged>> /\ pc = "compressed" /\ pc' = "guard"
      BY <1>5 DEF FetchCompressed, mem
    <2> QED
      BY <2>1, HeadSame DEF Put, Answering
  <1> QED
    BY <1>1, <1>2, <1>3, <1>4, <1>5

LEMMA HeadTurn ==
    ASSUME TypeInv, ConvInv, HeadInv,
           \/ InGuard \/ BuildPrompt \/ CallModel \/ Backoff \/ OutGuard \/ Approve
           \/ ToolsEnd \/ FeedResult \/ EndTurn
    PROVE  HeadInv'
  <1>0. history \in Seq(Message) /\ working \in Seq(Message)
    BY DEF TypeInv, StoreOK, ViewOK
  <1>1. CASE InGuard
    <2>1. UNCHANGED <<config, history, damaged>> /\ pc = "guard"
      BY <1>1 DEF InGuard, mem
    <2>2. CASE pc' = "prompt" /\ UNCHANGED loop
      BY <2>1, <2>2, HeadSame DEF loop, Put
    <2> QED
      BY <1>1, <2>1, <2>2, HeadEnd DEF InGuard
  <1>2. CASE BuildPrompt
    <2>1. /\ UNCHANGED <<config, history, damaged>> /\ pc = "prompt" /\ pc' = "model"
          /\ \/ working' = TrimToContextWindow(working, TrimBudget) /\ lead' = "trimmed"
             \/ UNCHANGED working /\ lead' = IF lead = "trimmed" THEN "cut" ELSE lead
      BY <1>2 DEF BuildPrompt, mem
    <2>2. CASE working' = TrimToContextWindow(working, TrimBudget) /\ lead' = "trimmed"
      <3>1. working' # <<>> => FromUser(working'[1])
        BY <1>0, <2>2, TrimIsLatest
      <3>2. working' # <<>> => NotTool(working'[1])
        BY <3>1 DEF FromUser, NotTool
      <3> QED
        BY <2>1, <2>2, <3>2 DEF HeadInv, Opens, Transient
    <2>3. CASE UNCHANGED working /\ lead' = IF lead = "trimmed" THEN "cut" ELSE lead
      <3>1. (lead' = "whole" <=> lead = "whole") /\ (lead' = "torn" <=> lead = "torn")
        BY <2>3
      <3> QED
        BY <2>1, <2>3, <3>1 DEF HeadInv, Opens, Transient, Put
    <2> QED
      BY <2>1, <2>2, <2>3
  <1>3. CASE CallModel
    <2>1. pc = "model" /\ UNCHANGED config
      BY <1>3 DEF CallModel
    <2>2. CASE Answers
      <3>1. PICK n \in 0..MaxCalls :
              Remember(Assistant(n, Small)) /\ pc' = "answer" /\ UNCHANGED lead
        BY <2>2 DEF Answers
      <3>2. Assistant(n, Small) \in Message /\ NotTool(Assistant(n, Small))
        BY MessagesOf DEF Assistant, NotTool
      <3>3. ~damaged' => ~damaged /\ history' = Append(history, Assistant(n, Small))
        BY <3>1 DEF Remember, AppendMemory, Stored
      <3>4. working' = Append(working, Assistant(n, Small))
        BY <3>1 DEF Remember
      <3> SUFFICES ASSUME ~damaged' PROVE HeadInv'
        BY DEF HeadInv
      <3>5. history' # <<>> /\ Opens(history'[1])
        BY <1>0, <2>1, <3>2, <3>3, FirstStays DEF HeadInv, Opens
      <3>6. /\ working' # <<>>
            /\ lead = "whole" => Opens(working'[1])
            /\ lead # "torn" => NotTool(working'[1])
        BY <1>0, <2>1, <3>2, <3>3, <3>4, FirstStays DEF HeadInv, Put
      <3> QED
        BY <2>1, <3>1, <3>5, <3>6 DEF HeadInv, Opens, Transient
    <2>3. CASE FailsForNow
      BY <2>1, <2>3, HeadSame DEF FailsForNow, Put
    <2>4. CASE Fails
      BY <2>1, <2>4, HeadEnd DEF Fails
    <2> QED
      BY <1>3, <2>2, <2>3, <2>4 DEF CallModel
  <1>4. CASE Backoff
    <2>1. UNCHANGED <<config, history, damaged>> /\ pc = "backoff"
      BY <1>4 DEF Backoff, mem
    <2>2. CASE pc' = "model" /\ UNCHANGED loop
      BY <2>1, <2>2, HeadSame DEF loop, Put
    <2> QED
      BY <1>4, <2>1, <2>2, HeadEnd DEF Backoff
  <1>5. CASE OutGuard
    <2>1. UNCHANGED <<config, history>> /\ pc = "answer"
      BY <1>5 DEF OutGuard, mem
    <2>2. damaged => damaged'
      BY <1>5, Zenon DEF OutGuard
    <2>3. CASE pc' = "approve" /\ UNCHANGED loop
      BY <2>1, <2>2, <2>3, HeadSame DEF loop, Put, Answering
    <2> QED
      BY <1>5, <2>1, <2>2, <2>3, HeadEnd DEF OutGuard
  <1>6. CASE Approve
    <2>1. UNCHANGED <<config, history, working, lead, damaged>> /\ pc' \in {pc, "execute"}
          /\ pc = "approve"
      BY <1>6, Zenon DEF Approve, mem
    <2> QED
      BY <2>1, HeadSame DEF Put, Answering
  <1>7. CASE ToolsEnd
    BY <1>7, HeadSame DEF ToolsEnd, mem, loop, Put, Answering
  <1>8. CASE FeedResult
    <2>1. pc = "feed" /\ UNCHANGED config
      BY <1>8 DEF FeedResult
    <2>2. CASE damaged' = TRUE
      BY <2>2 DEF HeadInv
    <2>3. CASE \E z \in Sizes : Remember(ToolResult(z)) /\ UNCHANGED <<pc, lead>>
      <3>1. PICK z \in Sizes : Remember(ToolResult(z)) /\ UNCHANGED <<pc, lead>>
        BY <2>3
      <3>2. ToolResult(z) \in Message
        BY MessagesOf
      <3>3. ~damaged' => ~damaged /\ history' = Append(history, ToolResult(z))
        BY <3>1 DEF Remember, AppendMemory, Stored
      <3>4. working' = Append(working, ToolResult(z))
        BY <3>1 DEF Remember
      <3> SUFFICES ASSUME ~damaged' PROVE HeadInv'
        BY DEF HeadInv
      <3>5. history # <<>> /\ working # <<>>
        <4>1. ASSUME NEW ms \in Seq(Message), Open(ms, Len(calls), fed) PROVE ms # <<>>
          <5>1. fed \in Nat
            BY DEF TypeInv, CallsOK
          <5> QED
            BY <4>1, <5>1 DEF Open
        <4>2. Open(history, Len(calls), fed) /\ Open(working, Len(calls), fed)
          BY <2>1, <3>3 DEF ConvInv, Fits, Answering
        <4> QED
          BY <1>0, <4>1, <4>2
      <3>6. /\ history' # <<>> /\ history'[1] = history[1]
            /\ working' # <<>> /\ working'[1] = working[1]
        BY <1>0, <3>2, <3>3, <3>4, <3>5, FirstStays
      <3> QED
        BY <2>1, <3>1, <3>3, <3>5, <3>6 DEF HeadInv, Opens, Transient
    <2> QED
      BY <1>8, <2>2, <2>3 DEF FeedResult
  <1>9. CASE EndTurn
    <2>1. UNCHANGED <<config, history, damaged>> /\ pc = "feed"
      BY <1>9 DEF EndTurn, mem
    <2>2. CASE NextTurn
      BY <2>1, <2>2, HeadSame DEF NextTurn, Put, Answering
    <2> QED
      BY <1>9, <2>1, <2>2, HeadEnd DEF EndTurn
  <1> QED
    BY <1>1, <1>2, <1>3, <1>4, <1>5, <1>6, <1>7, <1>8, <1>9

LEMMA HeadStep ==
    TypeInv /\ ConvInv /\ FetchInv /\ HeadInv /\ [Next]_vars => HeadInv'
  <1> SUFFICES ASSUME TypeInv, ConvInv, FetchInv, HeadInv, [Next]_vars PROVE HeadInv'
    OBVIOUS
  <1>1. CASE UNCHANGED vars \/ Cancel \/ ChangeSkills \/ DeleteSummary
    <2>1. UNCHANGED <<config, history, working, lead, pc, turn>> /\ (damaged => damaged')
      BY <1>1 DEF vars, Cancel, ChangeSkills, DeleteSummary, mem, loop
    <2> QED
      BY <2>1, HeadSame DEF Put
  <1>2. CASE Crash \/ MapsCollide
    <2>1. End("none") /\ UNCHANGED <<config, history>> /\ (damaged => damaged')
      BY <1>2 DEF Crash, MapsCollide, Dies
    <2> QED
      BY <2>1, HeadEnd
  <1>3. CASE DeleteSession
    <2>1. history' = <<>> /\ damaged' = (pc # "idle") /\ UNCHANGED <<pc, working>>
      BY <1>3 DEF DeleteSession
    <2>2. pc = "idle" => working = <<>>
      BY DEF TypeInv, IdleOK
    <2> QED
      BY <2>1, <2>2 DEF HeadInv, Put, Answering
  <1>4. CASE \E i \in 1..Len(calls) : ToolStep(i)
    <2>1. pc = "execute" /\ Executing
      BY <1>4 DEF ToolStep, ToolEnds, Recall, DelegateStarts, DelegateEnds, SubAgentStarts,
         SubAgentEnds, UseSkill, KeepSkill, ReloadSkills, PruneSkills, Approved, Running
    <2> QED
      BY <2>1, HeadSame DEF Executing, mem, Put
  <1> QED
    BY <1>1, <1>2, <1>3, <1>4, HeadBegin, HeadTurn DEF Next, RunStep

(* What a model is sent is a conversation it accepts, unless a fault took   *)
(* messages of the store: all calls have their results and, but for a cut   *)
(* that tears them apart, all results their calls; it begins with the user  *)
(* if nothing was cut away or if it exceeded the context window (run,       *)
(* prepareMemory, buildPrompt).                                             *)
THEOREM RequestsSound == Spec => []RequestSound
  <1> DEFINE I == TypeInv /\ ConvInv /\ CutInv /\ FetchInv /\ HeadInv
  <1>1. Init => I
    BY TypeInit, ConvInit, FetchInit, HeadInit
  <1>2. I /\ [Next]_vars => I'
    BY TypeStep, ConvStep, FetchStep, HeadStep
  <1>3. I => RequestSound
    <2> SUFFICES ASSUME I, pc = "model" PROVE RequestSound
      BY DEF RequestSound
    <2>1. working \in Seq(Message)
      BY DEF TypeInv, ViewOK
    <2>2. ~damaged => Loose(working)
      BY DEF ConvInv, Fits, Answering
    <2>3. ~damaged /\ lead # "torn" => ~Orphans(working)
      BY <2>1, <2>2, BeginsSound DEF HeadInv, Loose
    <2>4. ~damaged /\ lead = "whole" /\ ~Transient => FromUser(working[1])
      BY DEF HeadInv, Put, Opens
    <2> QED
      BY <2>2, <2>3, <2>4 DEF CutInv, RequestSound, Loose
  <1> QED
    BY <1>1, <1>2, <1>3, PTL DEF Spec

-----------------------------------------------------------------------------
(* Nothing is forgotten *)

(* A history that is fetched as a whole.                                    *)
Clean == Len(history) <= FetchLimit /\ (history # <<>> => NotTool(history[1]))

(* It ends with a message of the user.                                      *)
LastOne(ms) == ms # <<>> /\ FromUser(ms[Len(ms)])

(* The summary was made of just what it says, and of nothing while its      *)
(* session is being deleted.                                                *)
SumInv ==
    /\ Clean /\ ~revived /\ ~deleting => summary.covers = 1..summary.through
    /\ deleting /\ ~revived => summary.covers = {}

Beginning == {"memory", "compact", "compressed", "guard"}

(* The message a run was given is the last of the store until the model is  *)
(* asked, and what the run has fetched is all there is.                     *)
BeginInv ==
    /\ ~unread /\ ~Transient /\ (pc \in Beginning \/ (pc = "top" /\ turn = 1))
          => LastOne(history)
    /\ fetched.deleted => unread
    /\ pc = "compact" /\ ~fetched.deleted /\ Clean
          => fetched.messages = history /\ fetched.offset = 0

(* What was stored before the run began, and how much of it is not shown.   *)
Before == IF Transient THEN history ELSE SubSeq(history, 1, Len(history) - 1)

Hidden == Len(Before) + Len(Prefix) + 1 - Len(working)

(* All that is behind it is.                                                *)
Unbroken ==
    /\ Hidden \in 0..Len(Before)
    /\ working = Behind(Before, Hidden) \o Prefix \o <<User(Small)>>

Seen == ~unread /\ (Transient => ~LastOne(history))

Whole == Seen /\ config.summarizer /\ ~revived /\ ~deleting /\ Clean

ShownInv ==
    /\ pc \in {"compressed", "guard"} /\ Seen
          => Unbroken /\ (Clean /\ Tokens(history) <= Budget => Hidden = 0)
    /\ pc = "compressed" /\ Whole => Hidden <= summary.through
    /\ pc = "guard" /\ Whole
          => Hidden <= compressed.through /\ compressed.covers = 1..compressed.through

LEMMA KnownInit == Init => SumInv /\ BeginInv /\ ShownInv
  BY DEF Init, SumInv, BeginInv, ShownInv, Beginning, NoFetch

(* The store only grows.                                                    *)
Grows == history' = history \/ \E m \in Message : history' = Append(history, m)

LEMMA SumSame ==
    ASSUME TypeInv, SumInv, UNCHANGED <<summary, deleting, revived>>, Grows
    PROVE  SumInv'
  <1>1. Clean' => Clean
    <2>1. CASE history' = history
      BY <2>1 DEF Clean
    <2>2. CASE \E m \in Message : history' = Append(history, m)
      <3>1. PICK m \in Message : history' = Append(history, m)
        BY <2>2
      <3>2. history \in Seq(Message)
        BY FetchedTypes
      <3>3. Len(history') = Len(history) + 1 /\ history' # <<>> /\ Len(history) \in Nat
            /\ (history # <<>> => history'[1] = history[1])
        BY <3>1, <3>2
      <3> QED
        BY <3>3, Bounds DEF Clean
    <2> QED
      BY <2>1, <2>2 DEF Grows
  <1> QED
    BY <1>1 DEF SumInv

(* Once the model has been asked, nothing of this matters any more.         *)
LEMMA KnownLater ==
    ASSUME TypeInv, SumInv, UNCHANGED <<summary, deleting, revived>>, Grows,
           pc' \notin Beginning, pc' # "top" \/ turn' # 1, fetched'.deleted => unread'
    PROVE  SumInv' /\ BeginInv' /\ ShownInv'
  <1>1. SumInv'
    BY SumSame
  <1> QED
    BY <1>1 DEF BeginInv, ShownInv, Beginning

LEMMA KnownEnd ==
    ASSUME TypeInv, SumInv, NEW how, End(how), UNCHANGED <<history, summary, deleting, revived>>
    PROVE  SumInv' /\ BeginInv' /\ ShownInv'
  <1>1. pc' = "idle" /\ ~fetched'.deleted
    BY DEF End, NoFetch
  <1> QED
    BY <1>1, KnownLater DEF Grows, Beginning

LEMMA AppendGrows ==
    ASSUME NEW m \in Message, AppendMemory(m)
    PROVE  Grows /\ (unread => unread') /\ (~unread' => history' = Append(history, m))
  BY DEF AppendMemory, Stored, Grows

LEMMA KnownTurn ==
    ASSUME TypeInv, SumInv, BeginInv,
           \/ InGuard \/ BuildPrompt \/ CallModel \/ Backoff \/ OutGuard \/ Approve
           \/ ToolsEnd \/ FeedResult \/ EndTurn
    PROVE  SumInv' /\ BeginInv' /\ ShownInv'
  <1>1. UNCHANGED <<summary, deleting, revived>>
    BY DEF InGuard, BuildPrompt, CallModel, Backoff, OutGuard, Approve, ToolsEnd, FeedResult,
       EndTurn, mem
  <1>2. ASSUME UNCHANGED history, \E how \in Outcomes : End(how)
        PROVE  SumInv' /\ BeginInv' /\ ShownInv'
    BY <1>1, <1>2, KnownEnd
  <1>3. ASSUME Grows, UNCHANGED fetched, unread => unread', pc' \notin Beginning, pc' # "top"
        PROVE  SumInv' /\ BeginInv' /\ ShownInv'
    BY <1>1, <1>3, KnownLater DEF BeginInv
  <1> USE DEF Outcomes
  <1>4. CASE InGuard
    <2>1. UNCHANGED history
      BY <1>4 DEF InGuard, mem
    <2>2. CASE End("error")
      BY <1>2, <2>1, <2>2
    <2>3. CASE pc' = "prompt" /\ UNCHANGED <<loop, unread>>
      BY <1>3, <2>1, <2>3 DEF Grows, Beginning, loop
    <2> QED
      BY <1>4, <2>2, <2>3 DEF InGuard
  <1>5. CASE BuildPrompt
    BY <1>3, <1>5 DEF BuildPrompt, mem, Grows, Beginning
  <1>6. CASE CallModel
    <2>1. CASE Answers
      <3>1. PICK n \in 0..MaxCalls : \E kinds \in [1..n -> config.kinds] :
              /\ Remember(Assistant(n, Small)) /\ pc' = "answer" /\ UNCHANGED fetched
        BY <2>1 DEF Answers
      <3>2. Grows /\ (unread => unread')
        BY <3>1, AppendGrows, MessagesOf DEF Remember
      <3> QED
        BY <1>3, <3>1, <3>2 DEF Beginning
    <2>2. CASE FailsForNow
      BY <1>3, <2>2 DEF FailsForNow, Grows, Beginning
    <2>3. CASE Fails
      BY <1>2, <2>3 DEF Fails
    <2> QED
      BY <1>6, <2>1, <2>2, <2>3 DEF CallModel
  <1>7. CASE Backoff
    <2>1. UNCHANGED history
      BY <1>7 DEF Backoff, mem
    <2>2. CASE End("aborted")
      BY <1>2, <2>1, <2>2
    <2>3. CASE pc' = "model" /\ UNCHANGED <<loop, unread>>
      BY <1>3, <2>1, <2>3 DEF Grows, Beginning, loop
    <2> QED
      BY <1>7, <2>2, <2>3 DEF Backoff
  <1>8. CASE OutGuard
    <2>1. UNCHANGED history
      BY <1>8 DEF OutGuard, mem
    <2>2. CASE End("error") \/ End("done")
      BY <1>2, <2>1, <2>2
    <2>3. CASE pc' = "approve" /\ UNCHANGED <<loop, unread>>
      BY <1>3, <2>1, <2>3 DEF Grows, Beginning, loop
    <2> QED
      BY <1>8, <2>2, <2>3 DEF OutGuard
  <1>9. CASE Approve
    <2>1. UNCHANGED <<mem, fetched, unread>> /\ pc' \in {pc, "execute"} /\ pc = "approve"
      BY <1>9, Zenon DEF Approve
    <2> QED
      BY <1>3, <2>1 DEF Grows, Beginning, mem
  <1>10. CASE ToolsEnd
    BY <1>3, <1>10 DEF ToolsEnd, Grows, Beginning, mem, loop
  <1>11. CASE FeedResult
    <2>1. CASE End("error") /\ UNCHANGED history
      BY <1>2, <2>1
    <2>2. CASE /\ \E z \in Sizes : Remember(ToolResult(z))
               /\ UNCHANGED <<pc, fetched>>
      <3>1. PICK z \in Sizes : Remember(ToolResult(z))
        BY <2>2
      <3>2. Grows /\ (unread => unread')
        BY <3>1, AppendGrows, MessagesOf DEF Remember
      <3>3. pc' = "feed"
        BY <1>11, <2>2 DEF FeedResult
      <3> QED
        BY <1>3, <2>2, <3>2, <3>3 DEF Beginning
    <2> QED
      BY <1>11, <2>1, <2>2 DEF FeedResult
  <1>12. CASE EndTurn
    <2>1. UNCHANGED history
      BY <1>12 DEF EndTurn, mem
    <2>2. CASE End("handoff")
      BY <1>2, <2>1, <2>2
    <2>3. CASE NextTurn
      <3>1. pc' = "top" /\ turn' = turn + 1 /\ UNCHANGED <<fetched, unread>>
        BY <2>3 DEF NextTurn
      <3>2. turn' # 1
        <4>1. turn \in 1..(MaxTurns + 1)
          BY DEF TypeInv, LoopOK
        <4> QED
          BY <3>1, <4>1, Bounds
      <3> QED
        BY <1>1, <2>1, <3>1, <3>2, KnownLater DEF Grows, Beginning, BeginInv
    <2> QED
      BY <1>12, <2>2, <2>3 DEF EndTurn
  <1> QED
    BY <1>4, <1>5, <1>6, <1>7, <1>8, <1>9, <1>10, <1>11, <1>12

LEMMA KnownTool ==
    ASSUME TypeInv, SumInv, BeginInv, NEW i \in 1..Len(calls), ToolStep(i)
    PROVE  SumInv' /\ BeginInv' /\ ShownInv'
  <1>1. /\ pc = "execute" /\ Executing
    BY DEF ToolStep, ToolEnds, Recall, DelegateStarts, DelegateEnds, SubAgentStarts,
       SubAgentEnds, UseSkill, KeepSkill, ReloadSkills, PruneSkills, Approved, Running
  <1>2. UNCHANGED <<history, summary, deleting, revived, pc, fetched, unread>>
    BY <1>1 DEF Executing, mem
  <1> QED
    BY <1>1, <1>2, KnownLater DEF Grows, Beginning, BeginInv

LEMMA KnownSame ==
    ASSUME SumInv, BeginInv, ShownInv,
           UNCHANGED <<config, history, summary, deleting, revived, pc, turn, fetched, unread,
                       compressed, working>>
    PROVE  SumInv' /\ BeginInv' /\ ShownInv'
  <1>1. Clean' = Clean /\ Transient' = Transient /\ Prefix' = Prefix /\ Before' = Before
    BY DEF Clean, Transient, Prefix, Before
  <1>2. Seen' = Seen /\ Whole' = Whole /\ Hidden' = Hidden /\ Unbroken' = Unbroken
    BY <1>1 DEF Seen, Whole, Hidden, Unbroken, LastOne
  <1>3. SumInv' /\ BeginInv'
    BY <1>1 DEF SumInv, BeginInv, LastOne
  <1> QED
    BY <1>1, <1>2, <1>3 DEF ShownInv

(* What comes from outside.                                                 *)
LEMMA KnownOutside ==
    ASSUME TypeInv, SumInv, BeginInv, ShownInv,
           Cancel \/ ChangeSkills \/ Crash \/ MapsCollide \/ DeleteSession \/ DeleteSummary
    PROVE  SumInv' /\ BeginInv' /\ ShownInv'
  <1>0. /\ summary.through \in Nat
        /\ (pc = "idle" => fetched = NoFetch)
    BY FetchedTypes DEF TypeInv, IdleOK
  <1>1. CASE Cancel \/ ChangeSkills
    <2>1. UNCHANGED <<config, history, summary, deleting, revived, pc, turn, fetched, unread,
                      compressed, working>>
      BY <1>1 DEF Cancel, ChangeSkills, mem, loop
    <2> QED
      BY <2>1, KnownSame
  <1>2. CASE Crash \/ MapsCollide
    <2>1. Dies
      BY <1>2 DEF Crash, MapsCollide
    <2>2. /\ End("none") /\ deleting' = FALSE /\ history' = history
          /\ summary' \in {summary, NoSummary}
          /\ revived' = (revived \/ (deleting /\ summary'.through > 0))
      BY <2>1 DEF Dies
    <2>3. pc' = "idle" /\ ~fetched'.deleted
      BY <2>2 DEF End, NoFetch
    <2>4. SumInv'
      <3> SUFFICES ASSUME Clean', ~revived' PROVE summary'.covers = 1..summary'.through
        BY <2>2 DEF SumInv
      <3>1. CASE summary' = NoSummary
        BY <3>1 DEF NoSummary
      <3>2. CASE summary' = summary /\ ~deleting
        BY <2>2, <3>2 DEF SumInv, Clean
      <3>3. CASE summary' = summary /\ deleting
        <4>1. summary.covers = {} /\ summary.through = 0
          <5>1. ~revived /\ ~(summary'.through > 0)
            BY <2>2, <3>3, Zenon
          <5>2. summary.covers = {} /\ ~(summary.through > 0)
            BY <3>3, <5>1 DEF SumInv
          <5> QED
            BY <1>0, <5>2
        <4> QED
          BY <3>3, <4>1
      <3> QED
        BY <2>2, <3>1, <3>2, <3>3
    <2> QED
      BY <2>3, <2>4 DEF BeginInv, ShownInv, Beginning
  <1>3. CASE DeleteSession
    <2>1. /\ summary' = (IF config.backend = "file" THEN [summary EXCEPT !.covers = {}]
                         ELSE NoSummary)
          /\ deleting' = (config.backend = "file")
          /\ unread' = (pc # "idle")
          /\ fetched' = [fetched EXCEPT !.deleted = (pc = "compact")]
          /\ UNCHANGED <<config, pc>>
      BY <1>3 DEF DeleteSession
    <2>2. SumInv'
      <3>1. CASE config.backend = "file"
        <4>1. summary \in Summaries
          BY FetchedTypes
        <4>2. summary'.covers = {}
          BY <2>1, <3>1, <4>1 DEF Summaries
        <4> QED
          BY <2>1, <3>1, <4>2 DEF SumInv
      <3>2. CASE config.backend # "file"
        BY <2>1, <3>2 DEF SumInv, NoSummary
      <3> QED
        BY <3>1, <3>2
    <2>3. pc # "idle" => unread'
      BY <2>1
    <2>4. fetched'.deleted => unread'
      <3>1. fetched \in Fetches
        BY DEF TypeInv, ViewOK
      <3>2. fetched'.deleted = (pc = "compact")
        BY <2>1, <3>1 DEF Fetches
      <3> QED
        BY <2>1, <3>2
    <2>5. pc = "compact" => fetched'.deleted
      <3>1. fetched \in Fetches
        BY DEF TypeInv, ViewOK
      <3> QED
        BY <2>1, <3>1 DEF Fetches
    <2> QED
      BY <2>1, <2>2, <2>3, <2>4, <2>5 DEF BeginInv, ShownInv, Whole, Seen, Beginning
  <1>4. CASE DeleteSummary
    <2>1. /\ deleting' = FALSE /\ summary' = NoSummary /\ unread' = (pc # "idle")
          /\ UNCHANGED <<config, pc, fetched, history>>
      BY <1>4 DEF DeleteSummary, loop
    <2>2. SumInv'
      BY <2>1 DEF SumInv, NoSummary
    <2>3. fetched.deleted => pc # "idle"
      BY <1>0 DEF NoFetch
    <2>4. Clean' = Clean
      BY <2>1 DEF Clean
    <2> QED
      BY <2>1, <2>2, <2>3, <2>4 DEF BeginInv, ShownInv, Whole, Seen, Beginning
  <1> QED
    BY <1>1, <1>2, <1>3, <1>4

(* The summary after a compaction of all there is covers what it says, and  *)
(* no less than it was asked to.                                            *)
LEMMA SummarisedCovers ==
    ASSUME TypeInv, NEW all \in Seq(Message), NEW n \in 0..Len(all), ~fetched.deleted,
           ~deleting, summary.covers = 1..summary.through
    PROVE  /\ Summarised(all, 0, n).covers = 1..Summarised(all, 0, n).through
           /\ Summarised(all, 0, n).through \in Nat
           /\ Summarised(all, 0, n).through >= n
  <1>1. summary.through \in Nat /\ n \in Nat /\ ~(n > Len(all))
    BY FetchedTypes
  <1>2. CASE summary.through >= n
    <2>1. Summarised(all, 0, n) = summary
      BY <1>2 DEF Summarised
    <2> QED
      BY <1>1, <1>2, <2>1
  <1>3. CASE ~(summary.through >= n)
    <2> DEFINE more == { 0 + i : i \in (summary.through + 1)..n }
               c == Summarize(summary.covers, more)
    <2>1. Summarised(all, 0, n) = [through |-> n, covers |-> c]
      BY <1>1, <1>3 DEF Summarised
    <2>2. more = (summary.through + 1)..n
      BY <1>1
    <2> HIDE DEF more
    <2>3. c = (1..summary.through) \cup more
      BY DEF Summarize
    <2>4. (1..summary.through) \cup ((summary.through + 1)..n) = 1..n
      BY <1>1, <1>3
    <2> HIDE DEF c
    <2>5. c = 1..n
      BY <2>2, <2>3, <2>4
    <2>6. Summarised(all, 0, n).covers = c /\ Summarised(all, 0, n).through = n
      BY <2>1
    <2> QED
      BY <1>1, <2>5, <2>6
  <1> QED
    BY <1>2, <1>3

LEMMA CompactCovers ==
    ASSUME TypeInv, NEW cutoff \in 0..Len(fetched.messages), fetched.offset = 0,
           ~fetched.deleted, ~deleting, summary.covers = 1..summary.through,
           config.summarizer, NEW s, s \in {FileCompact(cutoff), DatabaseCompact(cutoff)}
    PROVE  s.covers = 1..s.through /\ s.through \in Nat /\ s.through >= cutoff
  <1> DEFINE all == fetched.messages
             n == SafeCompressionBoundary(all, cutoff)
  <1>1. all \in Seq(Message) /\ Len(all) \in Nat /\ cutoff <= Len(all)
    BY FetchedTypes
  <1>2. n \in cutoff..Len(all)
    BY <1>1, BoundaryTypes
  <1>3. /\ FileCompact(cutoff) = Summarised(all, 0, n)
        /\ \/ DatabaseCompact(cutoff) = Summarised(all, 0, n)
           \/ DatabaseCompact(cutoff) = summary /\ summary.through >= cutoff
    BY <1>1 DEF FileCompact, DatabaseCompact
  <1> HIDE DEF all, n
  <1>4. n \in 0..Len(all) /\ n >= cutoff /\ cutoff \in Nat
    BY <1>1, <1>2 DEF all
  <1>5. /\ Summarised(all, 0, n).covers = 1..Summarised(all, 0, n).through
        /\ Summarised(all, 0, n).through \in Nat
        /\ Summarised(all, 0, n).through >= n
    BY <1>1, <1>4, SummarisedCovers
  <1>6. Summarised(all, 0, n).through >= cutoff
    BY <1>4, <1>5
  <1> QED
    BY <1>3, <1>5, <1>6, FetchedTypes

LEMMA BehindButLast ==
    ASSUME NEW ms \in Seq(Message), NEW n \in Nat, n < Len(ms)
    PROVE  SubSeq(Behind(ms, n), 1, Len(Behind(ms, n)) - 1)
              = Behind(SubSeq(ms, 1, Len(ms) - 1), n)
  <1> DEFINE a == Behind(ms, n)
             b == SubSeq(a, 1, Len(a) - 1)
             c == SubSeq(ms, 1, Len(ms) - 1)
             d == Behind(c, n)
  <1>1. a \in Seq(Message) /\ Len(a) = Len(ms) - n /\ a # <<>>
        /\ \A i \in 1..Len(a) : a[i] = ms[i + n]
    <2>1. a \in Seq(Message) /\ Len(a) = Len(ms) - n /\ \A i \in 1..Len(a) : a[i] = ms[i + n]
      BY BehindTypes
    <2> QED
      BY <2>1
  <1> HIDE DEF a
  <1>2. b \in Seq(Message) /\ Len(b) = Len(a) - 1 /\ \A i \in 1..(Len(a) - 1) : b[i] = a[i]
    BY <1>1, ButLast
  <1>3. c \in Seq(Message) /\ Len(c) = Len(ms) - 1 /\ \A i \in 1..(Len(ms) - 1) : c[i] = ms[i]
    <2>1. ms # <<>>
      OBVIOUS
    <2> QED
      BY <2>1, ButLast
  <1> HIDE DEF b, c
  <1>4. d \in Seq(Message) /\ Len(d) = Len(c) - n /\ \A i \in 1..Len(d) : d[i] = c[i + n]
    <2>1. n <= Len(c)
      BY <1>3
    <2> QED
      BY <1>3, <2>1, BehindTypes
  <1> HIDE DEF d
  <1>5. Len(b) = Len(d)
    BY <1>1, <1>2, <1>3, <1>4
  <1>6. ASSUME NEW i \in 1..Len(d) PROVE b[i] = d[i]
    <2>1. i \in 1..(Len(a) - 1) /\ i \in 1..Len(a) /\ i + n \in 1..(Len(ms) - 1)
      BY <1>1, <1>3, <1>4
    <2> QED
      BY <1>1, <1>2, <1>3, <1>4, <2>1
  <1>7. b = d
    <2>1. b \in Seq(Message) /\ d \in Seq(Message)
      BY <1>2, <1>4
    <2> QED
      BY <1>5, <1>6, <2>1
  <1> QED
    BY <1>7 DEF a, b, c, d

(* What the run begins with.                                                *)
LEMMA ShownTypes ==
    ASSUME TypeInv, PrepareMemory, NEW k \in 0..Len(history),
           fetched.messages = Behind(history, k),
           Transient => ~LastOne(history), ~Transient => LastOne(history)
    PROVE  Unbroken' /\ Hidden' <= k + WorkingFrom(fetched.messages, Budget)
  <1> DEFINE msgs == fetched.messages
             w == WorkingFrom(msgs, Budget)
             v == k + w
             shown == Behind(history, v)
             strip == shown # <<>> /\ FromUser(shown[Len(shown)])
             kept == IF strip THEN SubSeq(shown, 1, Len(shown) - 1) ELSE shown
  <1>1. history \in Seq(Message) /\ Prefix \in Seq(Message) /\ <<User(Small)>> \in Seq(Message)
        /\ Len(<<User(Small)>>) = 1 /\ Len(history) \in Nat /\ msgs \in Seq(Message)
        /\ Len(Prefix) \in Nat
    <2>1. history \in Seq(Message) /\ Prefix \in Seq(Message) /\ msgs \in Seq(Message)
      BY FetchedTypes, PrefixTypes
    <2>2. <<User(Small)>> \in Seq(Message) /\ Len(<<User(Small)>>) = 1
      BY LooseOne, SmallIsSize
    <2> QED
      BY <2>1, <2>2
  <1>2. w \in 0..Len(msgs)
    BY <1>1, WorkingFromTypes, Bounds
  <1>3. Len(msgs) = Len(history) - k
    BY <1>1, BehindTypes
  <1>4. v \in 0..Len(history) /\ v \in Nat /\ Behind(msgs, w) = shown
    <2>1. w \in 0..(Len(history) - k)
      BY <1>2, <1>3
    <2> HIDE DEF w
    <2> QED
      BY <1>1, <2>1, BehindBehind
  <1>5. /\ working' = (kept \o Prefix) \o <<User(Small)>>
        /\ UNCHANGED <<config, history>>
    BY <1>4 DEF PrepareMemory
  <1> HIDE DEF v
  <1>6. shown \in Seq(Message) /\ Len(shown) = Len(history) - v
        /\ \A i \in 1..Len(shown) : shown[i] = history[i + v]
    BY <1>1, <1>4, BehindTypes
  <1>7. Before \in Seq(Message) /\ \E h \in 0..Len(Before) : kept = Behind(Before, h) /\ h <= v
    <2>1. CASE Transient
      <3>1. ~strip
        <4> SUFFICES ASSUME shown # <<>> PROVE ~FromUser(shown[Len(shown)])
          OBVIOUS
        <4>1. Len(shown) \in 1..Len(shown) /\ Len(shown) + v = Len(history)
          BY <1>4, <1>6
        <4>2. shown[Len(shown)] = history[Len(history)] /\ history # <<>>
          BY <1>1, <1>4, <1>6, <4>1
        <4> QED
          BY <2>1, <4>2 DEF LastOne
      <3>2. Before = history /\ kept = shown
        BY <2>1, <3>1 DEF Before
      <3> QED
        BY <1>1, <1>4, <3>2
    <2>2. CASE ~Transient
      <3>1. history # <<>> /\ FromUser(history[Len(history)])
        BY <2>2 DEF LastOne
      <3>2. /\ SubSeq(history, 1, Len(history) - 1) \in Seq(Message)
            /\ Len(SubSeq(history, 1, Len(history) - 1)) = Len(history) - 1
        BY <1>1, <3>1, ButLast
      <3>3. Before = SubSeq(history, 1, Len(history) - 1)
        BY <2>2 DEF Before
      <3>4. CASE v < Len(history)
        <4>1. strip
          <5>1. Len(shown) \in 1..Len(shown) /\ Len(shown) + v = Len(history) /\ shown # <<>>
            BY <1>1, <1>4, <1>6, <3>4
          <5> QED
            BY <1>6, <3>1, <5>1
        <4>2. kept = Behind(SubSeq(history, 1, Len(history) - 1), v)
          BY <1>1, <1>4, <3>4, <4>1, BehindButLast
        <4>3. v \in 0..Len(Before) /\ v <= v
          BY <1>1, <1>4, <3>2, <3>3, <3>4
        <4> QED
          BY <3>2, <3>3, <4>2, <4>3
      <3>5. CASE v = Len(history)
        <4> DEFINE h == Len(Before)
        <4>1. shown = <<>> /\ kept = <<>>
          BY <1>1, <1>6, <3>5
        <4>2. Before \in Seq(Message) /\ h \in Nat /\ h \in 0..h /\ h <= v
          BY <1>1, <3>2, <3>3, <3>5
        <4>3. Behind(Before, h) = <<>>
          BY <4>2, BehindTypes
        <4> QED
          BY <4>1, <4>2, <4>3
      <3> QED
        BY <1>4, <3>4, <3>5
    <2> QED
      BY <2>1, <2>2
  <1> HIDE DEF shown, kept
  <1>8. PICK h \in 0..Len(Before) : kept = Behind(Before, h) /\ h <= v
    BY <1>7
  <1>9. Before' = Before /\ Prefix' = Prefix
    BY <1>5 DEF Before, Prefix, Transient
  <1>10. kept \in Seq(Message) /\ Len(kept) = Len(Before) - h
    BY <1>7, <1>8, BehindTypes
  <1>11. Len(working') = (Len(Before) - h) + Len(Prefix) + 1
    <2> DEFINE both == kept \o Prefix
    <2>1. both \in Seq(Message) /\ Len(both) = Len(kept) + Len(Prefix)
      BY <1>1, <1>10, ConcatProperties
    <2>2. working' = both \o <<User(Small)>>
      BY <1>5
    <2> HIDE DEF both
    <2>3. Len(working') = Len(both) + 1
      BY <1>1, <2>1, <2>2, ConcatProperties
    <2> QED
      BY <1>10, <2>1, <2>3
  <1>12. Hidden' = h
    <2>1. Len(Before) \in Nat /\ h \in Nat
      BY <1>7, <1>8
    <2>2. Hidden' = Len(Before) + Len(Prefix) + 1 - Len(working')
      BY <1>9 DEF Hidden
    <2> QED
      BY <1>1, <1>11, <2>1, <2>2
  <1>13. working' = Behind(Before, h) \o Prefix \o <<User(Small)>>
    BY <1>5, <1>8
  <1>14. Unbroken'
    BY <1>8, <1>9, <1>12, <1>13 DEF Unbroken
  <1> QED
    BY <1>8, <1>12, <1>14 DEF v

LEMMA KnownBegin ==
    ASSUME TypeInv, FetchInv, SumInv, BeginInv, ShownInv,
           Start \/ BeginTurn \/ FetchMemory \/ PrepareMemory \/ FetchCompressed
    PROVE  SumInv' /\ BeginInv' /\ ShownInv'
  <1>0. history \in Seq(Message) /\ fetched \in Fetches /\ fetched.messages \in Seq(Message)
    BY FetchedTypes DEF TypeInv, ViewOK
  <1>1. CASE Start
    <2>1. /\ pc = "idle" /\ pc' = "top"
          /\ UNCHANGED <<config, summary, deleting, revived, fetched>>
      BY <1>1 DEF Start, loop
    <2>2. CASE Transient
      <3>1. UNCHANGED history /\ UNCHANGED unread
        BY <1>1, <2>2 DEF Start
      <3>2. SumInv'
        BY <2>1, <3>1, SumSame DEF Grows
      <3> QED
        BY <2>1, <2>2, <3>1, <3>2 DEF BeginInv, ShownInv, Transient, Beginning
    <2>3. CASE ~Transient
      <3>1. AppendMemory(User(Small))
        BY <1>1, <2>3 DEF Start
      <3>2. Grows /\ (unread => unread') /\ (~unread' => history' = Append(history, User(Small)))
        BY <3>1, AppendGrows, MessagesOf
      <3>3. SumInv'
        BY <2>1, <3>2, SumSame
      <3>4. ~unread' => LastOne(history')
        <4>1. LastOne(Append(history, User(Small)))
          <5>1. FromUser(User(Small)) /\ User(Small) \in Message
            BY LooseOne, SmallIsSize
          <5>2. /\ Append(history, User(Small)) # <<>>
                /\ Append(history, User(Small))[Len(Append(history, User(Small)))] = User(Small)
            BY <1>0, <5>1
          <5> QED
            BY <5>1, <5>2 DEF LastOne
        <4> QED
          BY <3>2, <4>1
      <3> QED
        BY <2>1, <3>2, <3>3, <3>4 DEF BeginInv, ShownInv, Beginning
    <2> QED
      BY <2>2, <2>3
  <1>2. CASE BeginTurn
    <2>1. UNCHANGED <<config, history, summary, deleting, revived>> /\ pc = "top"
      BY <1>2 DEF BeginTurn, mem
    <2>2. CASE End("done") \/ End("aborted")
      BY <2>1, <2>2, KnownEnd
    <2>3. CASE pc' = (IF turn = 1 THEN "memory" ELSE "prompt") /\ UNCHANGED <<loop, unread>>
      <3>1. SumInv'
        BY <2>1, SumSame DEF Grows
      <3>2. pc' \in {"memory", "prompt"} /\ (pc' = "memory" => turn = 1)
            /\ UNCHANGED <<fetched, unread>>
        BY <2>3 DEF loop
      <3> QED
        BY <2>1, <3>1, <3>2 DEF BeginInv, ShownInv, Beginning, Transient, LastOne
    <2> QED
      BY <1>2, <2>2, <2>3 DEF BeginTurn
  <1>3. CASE FetchMemory
    <2>1. /\ UNCHANGED <<config, history, summary, deleting, revived>> /\ pc = "memory"
      BY <1>3 DEF FetchMemory, mem
    <2>2. SumInv'
      BY <2>1, SumSame DEF Grows
    <2>3. CASE unread' = TRUE /\ pc' = "compressed"
      BY <2>2, <2>3 DEF BeginInv, ShownInv, Whole, Seen
    <2>4. CASE Reads /\ pc' = "compact" /\ UNCHANGED unread
      <3>1. fetched'.deleted = FALSE /\ (Clean => fetched'.messages = history /\ fetched'.offset = 0)
        BY <1>0, <2>4, ReadsTypes DEF Clean
      <3>2. Clean' = Clean
        BY <2>1 DEF Clean
      <3> QED
        BY <2>1, <2>2, <2>4, <3>1, <3>2 DEF BeginInv, ShownInv, Beginning, Transient, LastOne
    <2> QED
      BY <1>3, <2>3, <2>4 DEF FetchMemory, ReadFails
  <1>4. CASE PrepareMemory
    <2> DEFINE msgs == fetched.messages
               o == Overflow(msgs, Budget)
               cutoff == fetched.offset + SafeCompressionBoundary(msgs, o)
    <2>1. /\ pc = "compact" /\ pc' = "compressed" /\ fetched' = NoFetch
          /\ UNCHANGED <<config, history, deleting>>
          /\ \/ /\ summary' = IF o = Len(msgs) THEN summary
                              ELSE IF config.backend = "file" THEN FileCompact(cutoff)
                              ELSE DatabaseCompact(cutoff)
                /\ revived' = (revived \/ (summary' # summary /\ (fetched.deleted \/ deleting)))
                /\ UNCHANGED unread
             \/ unread' = TRUE /\ UNCHANGED <<summary, revived>>
      BY <1>4 DEF PrepareMemory, Compact, ReadFails
    <2>2. Clean' = Clean /\ Transient' = Transient
      BY <2>1 DEF Clean, Transient
    <2>3. BeginInv'
      <3>1. ~fetched'.deleted
        BY <2>1 DEF NoFetch
      <3>2. ~unread' => ~unread
        BY <2>1
      <3> QED
        BY <2>1, <2>2, <3>1, <3>2 DEF BeginInv, Beginning, LastOne
    <2>4. CASE unread' = TRUE /\ UNCHANGED <<summary, revived>>
      <3>1. SumInv'
        BY <2>1, <2>4, SumSame DEF Grows
      <3> QED
        BY <2>1, <2>3, <2>4, <3>1 DEF ShownInv, Whole, Seen
    <2>5. CASE /\ summary' = IF o = Len(msgs) THEN summary
                             ELSE IF config.backend = "file" THEN FileCompact(cutoff)
                             ELSE DatabaseCompact(cutoff)
               /\ revived' = (revived \/ (summary' # summary /\ (fetched.deleted \/ deleting)))
               /\ UNCHANGED unread
      <3>1. /\ ~revived' => ~revived
            /\ ~revived' /\ (fetched.deleted \/ deleting) => summary' = summary
        BY <2>5, Zenon
      <3>2. ASSUME Clean, ~revived', ~deleting, ~fetched.deleted
            PROVE  /\ summary'.covers = 1..summary'.through
                   /\ summary'.through \in Nat
                   /\ config.summarizer => WorkingFrom(msgs, Budget) <= summary'.through
        <4>1. msgs = history /\ fetched.offset = 0
          BY <2>1, <3>2 DEF BeginInv
        <4>2. summary.covers = 1..summary.through /\ summary.through \in Nat
          BY <3>1, <3>2, FetchedTypes DEF SumInv
        <4>3. msgs \in Seq(Message) /\ Len(msgs) \in Nat
          BY <1>0
        <4>4. o \in 0..Len(msgs)
          BY <4>3, OverflowTypes, Bounds
        <4>5. /\ WorkingFrom(msgs, Budget) = 0
                 \/ (o < Len(msgs) /\ WorkingFrom(msgs, Budget) = SafeCompressionBoundary(msgs, o))
          BY <4>3, WorkingFromTypes, Bounds
        <4>6. SafeCompressionBoundary(msgs, o) \in o..Len(msgs)
          BY <4>3, <4>4, BoundaryTypes
        <4>7. cutoff \in 0..Len(msgs) /\ cutoff = SafeCompressionBoundary(msgs, o)
          BY <4>1, <4>4, <4>6
        <4>8. CASE o = Len(msgs)
          <5>1. summary' = summary /\ WorkingFrom(msgs, Budget) = 0
            BY <2>5, <4>3, <4>5, <4>8
          <5> QED
            BY <4>2, <5>1
        <4>9. CASE o # Len(msgs)
          <5>1. summary' \in {FileCompact(cutoff), DatabaseCompact(cutoff)}
            BY <2>5, <4>9
          <5> HIDE DEF cutoff, o
          <5>2. CASE config.summarizer
            <6>1. /\ summary'.covers = 1..summary'.through /\ summary'.through \in Nat
                  /\ summary'.through >= cutoff
              BY <3>2, <4>1, <4>2, <4>7, <5>1, <5>2, CompactCovers
            <6>2. cutoff \in Nat
              BY <4>7
            <6> QED
              BY <4>5, <4>7, <6>1, <6>2
          <5>3. CASE ~config.summarizer
            <6>1. summary' = summary
              BY <5>1, <5>3 DEF FileCompact, DatabaseCompact
            <6> QED
              BY <4>2, <5>3, <6>1
          <5> QED
            BY <5>2, <5>3
        <4> QED
          BY <4>8, <4>9
      <3>3. SumInv'
        <4>1. ASSUME Clean, ~revived', ~deleting PROVE summary'.covers = 1..summary'.through
          <5>1. CASE fetched.deleted
            BY <3>1, <4>1, <5>1 DEF SumInv
          <5>2. CASE ~fetched.deleted
            BY <3>2, <4>1, <5>2
          <5> QED
            BY <5>1, <5>2
        <4>2. ASSUME deleting, ~revived' PROVE summary'.covers = {}
          BY <3>1, <4>2 DEF SumInv
        <4> QED
          BY <2>1, <2>2, <4>1, <4>2 DEF SumInv
      <3>4. ShownInv'
        <4> SUFFICES ASSUME Seen'
                     PROVE  /\ Unbroken'
                            /\ Clean' /\ Tokens(history') <= Budget => Hidden' = 0
                            /\ Whole' => Hidden' <= summary'.through
          BY <2>1 DEF ShownInv, Whole
        <4>1. ~unread /\ (Transient => ~LastOne(history)) /\ (~Transient => LastOne(history))
              /\ ~fetched.deleted
          BY <2>1, <2>2, <2>5 DEF Seen, LastOne, BeginInv, Beginning
        <4>2. PICK k \in 0..Len(history) : msgs = Behind(history, k)
          BY <2>1, <4>1 DEF FetchInv
        <4>3. Unbroken'
          BY <1>4, <4>1, <4>2, ShownTypes
        <4>4. ASSUME Clean PROVE msgs = history /\ Hidden' <= WorkingFrom(history, Budget)
          <5>1. msgs = history
            BY <2>1, <4>1, <4>4 DEF BeginInv
          <5>2. 0 \in 0..Len(history) /\ fetched.messages = Behind(history, 0)
            BY <1>0, <5>1, BehindNone
          <5>3. Hidden' <= 0 + WorkingFrom(fetched.messages, Budget)
            BY <1>4, <4>1, <5>2, ShownTypes
          <5>4. WorkingFrom(history, Budget) \in 0..Len(history)
            BY <1>0, WorkingFromTypes, Bounds
          <5> QED
            BY <5>1, <5>3, <5>4
        <4>5. Hidden' \in Nat
          BY <4>3 DEF Unbroken
        <4>6. ASSUME Clean', Tokens(history') <= Budget PROVE Hidden' = 0
          <5>1. Clean /\ Tokens(history) <= Budget
            BY <2>1, <2>2, <4>6
          <5>2. WorkingFrom(history, Budget) = 0
            BY <1>0, <5>1, AllFit, Bounds
          <5> QED
            BY <4>4, <4>5, <5>1, <5>2
        <4>7. ASSUME Whole' PROVE Hidden' <= summary'.through
          <5>1. Clean /\ ~revived' /\ ~deleting /\ config.summarizer
            BY <2>1, <2>2, <4>7 DEF Whole
          <5>2. WorkingFrom(history, Budget) <= summary'.through /\ summary'.through \in Nat
            BY <3>2, <4>1, <4>4, <5>1
          <5>3. WorkingFrom(history, Budget) \in 0..Len(history)
            BY <1>0, WorkingFromTypes, Bounds
          <5> QED
            BY <4>4, <4>5, <5>1, <5>2, <5>3
        <4> QED
          BY <4>3, <4>6, <4>7
      <3> QED
        BY <2>3, <3>3, <3>4
    <2> QED
      BY <2>1, <2>4, <2>5
  <1>5. CASE FetchCompressed
    <2>1. /\ pc = "compressed" /\ pc' = "guard"
          /\ UNCHANGED <<config, history, summary, deleting, revived, fetched, working>>
          /\ \/ compressed' = summary /\ UNCHANGED unread
             \/ unread' = TRUE
      BY <1>5 DEF FetchCompressed, ReadFails, mem
    <2>2. SumInv'
      BY <2>1, SumSame DEF Grows
    <2>3. Clean' = Clean /\ Transient' = Transient /\ Hidden' = Hidden /\ Unbroken' = Unbroken
      BY <2>1 DEF Clean, Transient, Before, Prefix, Hidden, Unbroken
    <2>4. CASE unread' = TRUE
      BY <2>1, <2>2, <2>4 DEF BeginInv, ShownInv, Whole, Seen
    <2>5. CASE compressed' = summary /\ UNCHANGED unread
      <3>1. BeginInv'
        BY <2>1, <2>3, <2>5 DEF BeginInv, Beginning, LastOne
      <3>2. ShownInv'
        <4>1. Seen' => Seen
          BY <2>1, <2>3, <2>5 DEF Seen, LastOne
        <4>2. Whole' => Whole
          BY <2>1, <2>3, <2>5, <4>1 DEF Whole
        <4>3. Seen' => Unbroken' /\ (Clean' /\ Tokens(history') <= Budget => Hidden' = 0)
          BY <2>1, <2>3, <4>1 DEF ShownInv
        <4>4. Whole' => /\ Hidden' <= compressed'.through
                        /\ compressed'.covers = 1..compressed'.through
          BY <2>1, <2>3, <2>5, <4>2 DEF ShownInv, SumInv, Whole
        <4> QED
          BY <2>1, <4>3, <4>4 DEF ShownInv
      <3> QED
        BY <2>2, <3>1, <3>2
    <2> QED
      BY <2>1, <2>4, <2>5
  <1> QED
    BY <1>1, <1>2, <1>3, <1>4, <1>5

LEMMA KnownStep ==
    TypeInv /\ FetchInv /\ SumInv /\ BeginInv /\ ShownInv /\ [Next]_vars
        => SumInv' /\ BeginInv' /\ ShownInv'
  <1> SUFFICES ASSUME TypeInv, FetchInv, SumInv, BeginInv, ShownInv, [Next]_vars
               PROVE  SumInv' /\ BeginInv' /\ ShownInv'
    OBVIOUS
  <1>1. CASE UNCHANGED vars
    BY <1>1, KnownSame DEF vars
  <1>2. CASE RunStep
    BY <1>2, KnownBegin, KnownTurn, KnownTool DEF RunStep
  <1> QED
    BY <1>1, <1>2, KnownBegin, KnownOutside DEF Next

LEMMA Known == TypeInv /\ SumInv /\ BeginInv /\ ShownInv => NothingForgotten
  <1> SUFFICES ASSUME TypeInv, SumInv, BeginInv, ShownInv PROVE NothingForgotten
    OBVIOUS
  <1> DEFINE stored == IF Transient THEN history ELSE SubSeq(history, 1, Len(history) - 1)
             hidden == Len(stored) + Len(Prefix) + 1 - Len(working)
  <1>1. stored = Before /\ hidden = Hidden
    BY DEF Before, Hidden
  <1> HIDE DEF stored, hidden
  <1>2. ASSUME pc = "guard", ~unread,
               stored # <<>> => ~FromUser(stored[Len(stored)]) \/ ~Transient
        PROVE  /\ hidden \in 0..Len(stored)
               /\ working = Behind(stored, hidden) \o Prefix \o <<User(Small)>>
               /\ Clean => /\ Tokens(history) <= Budget => hidden = 0
                           /\ config.summarizer /\ ~revived /\ ~deleting
                                => /\ hidden <= compressed.through
                                   /\ compressed.covers = 1..compressed.through
    <2>1. Transient => ~LastOne(history)
      BY <1>1, <1>2 DEF Before, LastOne
    <2>2. Seen /\ (Clean /\ config.summarizer /\ ~revived /\ ~deleting => Whole)
      BY <1>2, <2>1 DEF Whole, Seen
    <2> QED
      BY <1>1, <1>2, <2>2 DEF ShownInv, Unbroken
  <1> QED
    BY <1>2 DEF NothingForgotten, Clean, stored, hidden

(* A run begins with all there is: it is shown an unbroken end of the       *)
(* history, and what it is not shown did not fit and is in the summary,     *)
(* which was made of just what it says (prepareMemory and Compact).         *)
THEOREM NothingIsForgotten == Spec => []NothingForgotten
  <1> DEFINE I == TypeInv /\ FetchInv /\ SumInv /\ BeginInv /\ ShownInv
  <1>1. Init => I
    BY TypeInit, FetchInit, KnownInit
  <1>2. I /\ [Next]_vars => I'
    BY TypeStep, FetchStep, KnownStep
  <1>3. I => NothingForgotten
    BY Known
  <1> QED
    BY <1>1, <1>2, <1>3, PTL DEF Spec
=============================================================================
