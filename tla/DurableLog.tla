------------------------------ MODULE DurableLog ------------------------------
(***************************************************************************)
(* What the log of a session promises its readers, without files, buffers, *)
(* syncs and faults: a numbered sequence of lines with one owner at a      *)
(* time.  Only an owner adds lines, one at a time and at the end (taking   *)
(* the log over may add one, the record of a repair).  Lines are lost only *)
(* when the owner goes, only from the end, and never those that are kept.  *)
(***************************************************************************)
EXTENDS Integers, Sequences

VARIABLES
    lines,  \* what the owner has written and nothing has taken away
    kept,   \* how many of them no crash can take away
    owner   \* "open" while somebody may add lines, else "closed"

vars == <<lines, kept, owner>>

Init == lines = <<>> /\ kept = 0 /\ owner = "closed"

\* One more line, numbered by its place.
Grow ==
    /\ Len(lines') = Len(lines) + 1
    /\ \A i \in 1 .. Len(lines) : lines'[i] = lines[i]
    /\ lines'[Len(lines')].seq = Len(lines)

TakeOver ==
    /\ owner = "closed" /\ owner' = "open"
    /\ Grow \/ UNCHANGED lines
    /\ UNCHANGED kept

Add ==
    /\ owner = "open" /\ Grow
    /\ kept' \in kept .. Len(lines')
    /\ UNCHANGED owner

Keep ==
    /\ kept' \in kept .. Len(lines)
    /\ UNCHANGED <<lines, owner>>

LetGo ==
    /\ owner' = "closed"
    /\ Len(lines') \in kept .. Len(lines)
    /\ \A i \in 1 .. Len(lines') : lines'[i] = lines[i]
    /\ kept' \in kept .. Len(lines')

Next == TakeOver \/ Add \/ Keep \/ LetGo

Spec == Init /\ [][Next]_vars
=============================================================================
