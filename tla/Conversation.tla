---------------------------- MODULE Conversation ----------------------------
(* Conversation histories and what the agent runner, the memory stores and  *)
(* the team make of them: which messages are summarised, which are shown to *)
(* the model, and where a history may be cut.  Everything here is a         *)
(* function of its arguments.                                               *)
(*                                                                          *)
(* A message is its role, the number of tool calls it carries (assistant    *)
(* messages only) and its size in tokens.  The results of a message's calls *)
(* are stored right behind it, in the order of the calls, so that position  *)
(* says which call a result answers.                                        *)
EXTENDS Naturals, Sequences

CONSTANTS
    MaxCalls,   \* tool calls a model answer carries at most
    Sizes       \* sizes a message can have

ASSUME ConversationAssumption ==
    /\ MaxCalls \in Nat
    /\ Sizes \subseteq Nat \ {0}
    /\ Sizes # {}

Message == [role : {"user", "assistant", "tool"}, calls : 0..MaxCalls, size : Sizes]

User(z) == [role |-> "user", calls |-> 0, size |-> z]

Assistant(c, z) == [role |-> "assistant", calls |-> c, size |-> z]

ToolResult(z) == [role |-> "tool", calls |-> 0, size |-> z]

-----------------------------------------------------------------------------
Least(S) == CHOOSE n \in S : \A m \in S : n <= m

(* The messages behind the first n.                                         *)
Behind(ms, n) == SubSeq(ms, n + 1, Len(ms))

(* The last n messages.                                                     *)
LastOf(ms, n) == IF Len(ms) <= n THEN ms ELSE Behind(ms, Len(ms) - n)

Tokens(ms) ==
    LET sum[i \in 0..Len(ms)] == IF i = 0 THEN 0 ELSE sum[i - 1] + ms[i].size
    IN  sum[Len(ms)]

(* How many messages to drop, at least n, before one that satisfies the     *)
(* predicate, or all of them.                                               *)
DropTo(ms, n, Stop(_)) ==
    Least({ k \in n..Len(ms) : k = Len(ms) \/ Stop(ms[k + 1]) })

NotTool(m) == m.role # "tool"

FromUser(m) == m.role = "user"

Calling(m) == m.role = "assistant" /\ m.calls > 0

-----------------------------------------------------------------------------
(* Mutant of SafeCompressionBoundary: one result, of however many calls.    *)
SafeCompressionBoundaryOne(all, overflow) ==
    IF overflow \in 1..(Len(all) - 1) /\ Calling(all[overflow])
    THEN overflow + 1
    ELSE overflow

(* The first `overflow' messages are to be summarised.  If the last of them *)
(* calls tools, the results behind it are summarised with it.               *)
SafeCompressionBoundary(all, overflow) ==
    IF overflow \in 1..(Len(all) - 1) /\ Calling(all[overflow])
    THEN DropTo(all, overflow, NotTool)
    ELSE overflow

(* How many messages do not fit the budget, counted back from the latest.   *)
(* If all fit it is their number, as it is if not even the latest fits.     *)
Overflow(ms, budget) ==
    LET drop == Least({ n \in 0..Len(ms) : Tokens(Behind(ms, n)) <= budget })
    IN  IF drop = 0 THEN Len(ms) ELSE drop

(* Mutant of WorkingFrom: one message of those that fit is left out.        *)
WorkingFromLate(ms, budget) ==
    LET o == Overflow(ms, budget)
        b == IF o < Len(ms) THEN SafeCompressionBoundary(ms, o) + 1 ELSE o
    IN  IF b >= Len(ms) THEN 0 ELSE b

(* Where the working set begins: behind the messages that overflow, unless  *)
(* that would leave nothing.                                                *)
WorkingFrom(ms, budget) ==
    LET o == Overflow(ms, budget)
        b == IF o < Len(ms) THEN SafeCompressionBoundary(ms, o) ELSE o
    IN  IF b >= Len(ms) THEN 0 ELSE b

(* The messages a store returns for the latest n: the file, of what it has; *)
(* the database, of twice as many or minFetch, after it has dropped the     *)
(* results these begin with.                                                *)
FileRecent(ms, n) == LastOf(ms, n)

DatabaseRecent(ms, n, minFetch) ==
    LET window == LastOf(ms, IF 2 * n < minFetch THEN minFetch ELSE 2 * n)
    IN  LastOf(Behind(window, DropTo(window, 0, NotTool)), n)

-----------------------------------------------------------------------------
(* The last resort before a model call whose messages exceed its window:    *)
(* drop the oldest message and the results behind it until the rest fits or *)
(* two are left, then everything before the first message of the user.      *)
TrimToContextWindow(rest, budget) ==
    LET enough(k) == Len(rest) - k <= 2 \/ Tokens(Behind(rest, k)) <= budget
        stops     == {0} \cup { k \in 1..Len(rest) :
                                  k = Len(rest) \/ NotTool(rest[k + 1]) }
        fit       == Least({ k \in stops : enough(k) })
    IN  Behind(rest, DropTo(rest, fit, FromUser))

-----------------------------------------------------------------------------
(* What the members of a team have said so far, as the next one is given    *)
(* it.  Of too many messages the latest are kept, without those they begin  *)
(* with that are results or have calls, be their results there or not.      *)
CapMessages(ms, limit) ==
    LET last == LastOf(ms, limit)
        Begins(m) == NotTool(m) /\ ~Calling(m)
    IN  IF Len(ms) <= limit THEN ms ELSE Behind(last, DropTo(last, 0, Begins))

-----------------------------------------------------------------------------
(* Every call of the i-th message has its result behind it.                 *)
Answered(ms, i) ==
    \A k \in 1..ms[i].calls : i + k <= Len(ms) /\ ms[i + k].role = "tool"

(* The i-th message, a result, belongs to a call that is still there.       *)
HasCall(ms, i) ==
    \E k \in 1..MaxCalls :
        /\ k < i
        /\ Calling(ms[i - k])
        /\ ms[i - k].calls >= k
        /\ \A j \in (i - k + 1)..i : ms[j].role = "tool"

(* Calls without their results.                                             *)
Dangling(ms) == \E i \in 1..Len(ms) : Calling(ms[i]) /\ ~Answered(ms, i)

(* Results without their calls.                                             *)
Orphans(ms) == \E i \in 1..Len(ms) : ~NotTool(ms[i]) /\ ~HasCall(ms, i)

(* A conversation in which every call has its result and every result its   *)
(* call.                                                                    *)
Sound(ms) == ~Dangling(ms) /\ ~Orphans(ms)

(* A cut behind the first n messages is between two results, which          *)
(* SafeCompressionBoundary does not see, as it only looks at the message    *)
(* before the cut; or there is none, but the messages begin with a result.  *)
Torn(ms, n) ==
    /\ n < Len(ms) /\ ~NotTool(ms[n + 1])
    /\ n > 0 => ~NotTool(ms[n])
=============================================================================
