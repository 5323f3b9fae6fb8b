----------------------------- MODULE MCEventBus -----------------------------
(* Model-checking instance of EventBus: one session whose topic is removed *)
(* and created again while publishers and readers are in the middle of     *)
(* their calls.                                                            *)
EXTENDS EventBus

CONSTANTS p1, s1, s2, r1
=============================================================================
