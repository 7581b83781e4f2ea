----------------------------- MODULE MCStepGroup -----------------------------
(* Instances of StepGroup for TLC: a step with two jobs, and a step that   *)
(* depends on it.                                                          *)
EXTENDS StepGroup

CONSTANTS a, b, a1, a2, b1

JobStep == [j \in Jobs |-> IF j = b1 THEN b ELSE a]

BWaitsForA == [s \in Steps |-> IF s = b THEN {a} ELSE {}]

Scene(n, c, v) == [slots |-> n, cancels |-> c, vanishing |-> v]

(* One slot for two steps, and two with files that vanish; either may be   *)
(* interrupted by the user.                                                *)
AllScenes == {Scene(1, TRUE, FALSE), Scene(2, TRUE, TRUE)}

VanishScene == {Scene(2, FALSE, TRUE)}
CtrlCScene  == {Scene(2, TRUE, FALSE)}
=============================================================================
