---------------------------- MODULE MCSessionFiles ----------------------------
(* Instances of SessionFiles for TLC. *)
EXTENDS SessionFiles, TLC

\* Processes are interchangeable.
ProcSymmetry == Permutations(Procs)
=============================================================================
