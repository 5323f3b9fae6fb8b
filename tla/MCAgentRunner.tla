--------------------------- MODULE MCAgentRunner ---------------------------
(* Stores to begin with: an empty one; one whose last message with calls    *)
(* and its two results do not fit the budget together with a question, or   *)
(* of which only the second result fits; one that a run with a larger       *)
(* budget has begun to summarise, as a file and as a database, or as one    *)
(* without a summarizer; one that holds more than a run fetches.  With an   *)
(* empty one, single runs of agents with skills and of agents with agents,  *)
(* too; and single runs of members of a team, before which more was said    *)
(* than is passed on, or just as much.                                      *)
EXTENDS AgentRunner

CONSTANT s1

Short == <<User(1), Assistant(1, 1), ToolResult(2), Assistant(0, 1)>>

Held(backend, kinds, guard, most, ms, n) ==
    [config |-> [backend |-> backend, summarizer |-> TRUE, kinds |-> kinds, guard |-> guard,
                 runs |-> most, loader |-> "use_skill" \in kinds, said |-> <<>>],
     messages |-> ms, through |-> n]

Passed(said, s) == [s EXCEPT !.config.said = said]

Unsummarised(s) == [s EXCEPT !.config.summarizer = FALSE]

Question == <<User(1), Assistant(0, 1)>>

MCScenarios ==
    { Held("file", {"transfer"}, "closed", 2, <<>>, 0),
      Held("file", {"transfer", "spawn"}, "closed", 1, <<>>, 0),
      Held("database", {"transfer"}, "open", 2,
           <<User(1), Assistant(2, 1), ToolResult(1), ToolResult(2)>>, 0),
      Held("file", {"plain"}, "none", 1,
           <<User(1), Assistant(2, 1), ToolResult(2), ToolResult(2)>>, 0),
      Held("file", {"plain"}, "none", 2, Short, 1),
      Unsummarised(Held("file", {"plain"}, "none", 1, Short, 0)),
      Unsummarised(Held("database", {"plain"}, "none", 1, Question \o Short, 0)),
      Held("database", {"unknown"}, "closed", 2, Short, 1),
      Held("database", {"recall"}, "none", 2, Question \o Short, 2),
      Held("file", {"use_skill", "reload_skills"}, "none", 1, <<>>, 0),
      Held("file", {"delegate", "spawn"}, "none", 1, <<>>, 0),
      Passed(<<Assistant(2, 1), ToolResult(1), ToolResult(1), Assistant(0, 1)>>,
             Held("database", {"transfer"}, "none", 1, Question, 0)),
      Passed(<<Assistant(1, 1), ToolResult(1), Assistant(0, 1)>>,
             Held("file", {"plain"}, "none", 1, Short, 1)) }
=============================================================================
