--------------------------- MODULE MCChatSession ----------------------------
(* Model-checking instances of ChatSession: one chat among three requests,  *)
(* and two chats.                                                           *)
EXTENDS ChatSession

CONSTANTS c1, c2

MCScopes == {[requests |-> 3, runs |-> 1], [requests |-> 2, runs |-> 2]}

MCOneChat == {[requests |-> 1, runs |-> 1]}
=============================================================================
