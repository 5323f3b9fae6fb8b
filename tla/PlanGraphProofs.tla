-------------------------- MODULE PlanGraphProofs --------------------------
(* What the graph operations of PlanGraph guarantee, for every plan. *)
EXTENDS PlanGraph, TLAPS

(* In a valid plan topoSortPending never stops short: while steps are left, *)
(* one of them is ready.                                                    *)
LEMMA ReadyExists ==
    ASSUME NEW plan, NEW deps, Valid(plan, deps),
           NEW left \in SUBSET plan, Ready(left, deps) = {}
    PROVE  left = {}
  <1>1. SUFFICES ASSUME left # {} PROVE FALSE
    OBVIOUS
  <1>2. PICK s \in left : deps[s] \cap left = {}
    BY <1>1 DEF Valid
  <1> QED
    BY <1>2 DEF Ready

(* What a step depends on survives with it. *)
LEMMA SurvivorsClosed ==
    ASSUME NEW plan, NEW deps, \A s \in plan : deps[s] \subseteq plan, NEW f,
           NEW s \in plan \ Affected(plan, deps, f)
    PROVE  deps[s] \subseteq plan \ Affected(plan, deps, f)
  <1>1. PICK C \in SUBSET plan :
             ClosedUnderDependents(C, plan, deps, f) /\ s \notin C
    BY DEF Affected
  <1>2. deps[s] \cap C = {}
    BY <1>1 DEF ClosedUnderDependents
  <1>3. deps[s] \subseteq plan
    OBVIOUS
  <1> QED
    BY <1>1, <1>2, <1>3 DEF Affected

(* A step that survives is not the one that failed. *)
LEMMA FailedAffected ==
    ASSUME NEW plan, NEW deps, NEW f \in plan
    PROVE  f \in Affected(plan, deps, f)
  BY DEF Affected, ClosedUnderDependents

(* Work that is closed under dependencies and does not contain f is not     *)
(* affected by f.                                                           *)
LEMMA DoneSurvives ==
    ASSUME NEW plan, NEW deps, NEW f \in plan,
           NEW D \in SUBSET plan, f \notin D, \A s \in D : deps[s] \subseteq D
    PROVE  D \subseteq plan \ Affected(plan, deps, f)
  <1>1. plan \ D \in SUBSET plan
    OBVIOUS
  <1>2. ClosedUnderDependents(plan \ D, plan, deps, f)
    <2>1. ASSUME NEW s \in plan, deps[s] \cap (plan \ D) # {}, s \in D
          PROVE  FALSE
      BY <2>1
    <2> QED
      BY <2>1 DEF ClosedUnderDependents
  <1> QED
    BY <1>1, <1>2 DEF Affected

(* Survivors that keep what they depend on, and replacements that are valid *)
(* by themselves, are valid together though nobody validates the result,    *)
(* even if a replacement takes the id, and the place, of a survivor.        *)
Agree(f, g, S) == \A s \in S : f[s] = g[s]
Closed(S, f) == \A s \in S : f[s] \subseteq S

LEMMA MergeValid ==
    ASSUME NEW plan, NEW deps, NEW S, NEW new, NEW needs, NEW merged,
           Valid(plan, deps), Valid(new, needs),
           S \subseteq plan, Closed(S, deps),
           Agree(merged, needs, new), Agree(merged, deps, S \ new)
    PROVE  Valid(S \cup new, merged)
  <1> USE DEF Agree, Closed
  <1>1. \A s \in new : needs[s] \subseteq new
    BY DEF Valid
  <1>2. \A s \in S \cup new : merged[s] \subseteq S \cup new
    BY <1>1
  <1>3. ASSUME NEW R \in SUBSET (S \cup new), R # {}
        PROVE  \E s \in R : merged[s] \cap R = {}
    <2>1. CASE R \cap new # {}
      <3>1. R \cap new \in SUBSET new
        OBVIOUS
      <3>2. PICK s \in R \cap new : needs[s] \cap (R \cap new) = {}
        BY <2>1, <3>1 DEF Valid
      <3>3. merged[s] = needs[s] /\ needs[s] \subseteq new
        BY <1>1
      <3> QED
        BY <3>2, <3>3
    <2>2. CASE R \cap new = {}
      <3>1. R \in SUBSET plan /\ R \subseteq S \ new
        BY <1>3, <2>2
      <3>2. PICK s \in R : deps[s] \cap R = {}
        BY <1>3, <3>1 DEF Valid
      <3> QED
        BY <3>1, <3>2
    <2> QED
      BY <2>1, <2>2
  <1>4. S \cup new # {}
    BY DEF Valid
  <1> QED
    BY <1>2, <1>3, <1>4 DEF Valid
=============================================================================
