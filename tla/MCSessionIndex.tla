---------------------------- MODULE MCSessionIndex ----------------------------
(* Instances of SessionIndex for TLC. *)
EXTENDS SessionIndex

\* Bound: a behaviour meets an I/O failure or a power loss, not both.
OneMisfortune == faults + lossy <= 1
=============================================================================
