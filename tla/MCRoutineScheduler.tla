------------------------- MODULE MCRoutineScheduler -------------------------
\* Two routines: "a", an interval with a budget, and "b", a cron expression
\* that waits for "a" and has an execution window.
EXTENDS RoutineScheduler

MCRoutines == {"a", "b"}
MCDependsOn == [r \in MCRoutines |-> IF r = "b" THEN {"a"} ELSE {}]
MCKind == [r \in MCRoutines |-> IF r = "b" THEN "cron" ELSE "interval"]
MCJitter == [r \in MCRoutines |-> 1]
MCWindow == [r \in MCRoutines |-> IF r = "b" THEN {1, 3, 4, 5} ELSE 0..9]
MCMaxFires == [r \in MCRoutines |-> 2]
MCTimed == {"a"}
MCCap == [r \in MCRoutines |-> IF r = "a" THEN 1 ELSE 0]
=============================================================================
