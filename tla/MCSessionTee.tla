----------------------------- MODULE MCSessionTee -----------------------------
(* Instances of SessionTee for TLC. *)
EXTENDS SessionTee
=============================================================================
