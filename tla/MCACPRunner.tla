---------------------------- MODULE MCACPRunner ----------------------------
(* A run, streaming or not, with several updates and faults; two runs with  *)
(* fewer, and tools to transfer with.                                       *)
EXTENDS ACPRunner

CONSTANTS r1, r2, a

Scenario(rs, s, c, f) == [runs |-> rs, sends |-> s, changes |-> c, faults |-> f]

MCScenarios ==
    { Scenario({r1}, 3, 0, 1), Scenario({r2}, 2, 1, 1),
      Scenario({r1, r2}, 1, 0, 0),
      Scenario({r1, r2}, 0, 1, 1) }
=============================================================================
