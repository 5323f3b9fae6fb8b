------------------------------- MODULE MCTeam -------------------------------
(* A chat long enough for a loop and what comes after it, while a member is *)
(* removed or added; a shorter one while two changes cross; two chats at    *)
(* once in a small team that changes between them, and in a larger one that *)
(* asks for an approval; a chat long enough for the limit; a team without   *)
(* members.                                                                 *)
EXTENDS Team, TLC

CONSTANTS ann, bob, ext, c1, c2, o1, o2

Scenario(ms, admins, first, second, asks) ==
    [members |-> ms, admins |-> admins, approvals |-> asks,
     chats |-> {c1} \cup (IF second = None THEN {} ELSE {c2}),
     moves |-> (c1 :> first) @@ (c2 :> IF second = None THEN 0 ELSE second)]

MCScenarios ==
    { Scenario({ann, bob, ext}, {o1}, 4, None, 1),
      Scenario({ann, bob, ext}, {o1, o2}, 2, None, 0),
      Scenario({bob, ext}, {o1}, 1, 1, 0),
      Scenario({ann, bob, ext}, {}, 1, 1, 1),
      Scenario({ann, bob, ext}, {}, 5, None, 0),
      Scenario({}, {o1}, 0, None, 0) }
=============================================================================
