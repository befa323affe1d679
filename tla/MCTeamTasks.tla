----------------------------- MODULE MCTeamTasks -----------------------------
(* Instances of TeamTasks for TLC: agents of one kind are interchangeable. *)
EXTENDS TeamTasks, TLC

CONSTANTS w1, w2, c1, c2
TwoLoops == {w1, w2}
TwoCallers == {c1, c2}
OneCaller == {c1}
Symmetry == Permutations(TwoLoops) \cup Permutations(TwoCallers)
=============================================================================
