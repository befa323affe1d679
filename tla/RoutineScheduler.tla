-------------------------- MODULE RoutineScheduler --------------------------
(***************************************************************************)
(* The desktop's routine scheduler: the 30 s due check over the task store *)
(* (run_due_check_at, drain_due_with_history_at), the executor that runs a *)
(* routine under its retry policy (spawn_routine_run, execute_with_policy, *)
(* finalize_run), the automatic pause, and the user's commands, with three *)
(* stores between them: task.json per routine (store), the JSONL run       *)
(* history (jsonl) and SQLite's routine_runs (rows).                       *)
(*                                                                         *)
(* A step ends where another thread can get in: between two accesses to    *)
(* the stores.  A store access may fail, the process may die between any   *)
(* two steps or inside a save, and the user may edit, delete or trigger a  *)
(* routine at any moment.  Left out: prompts, models, work trees,          *)
(* notifications and amounts of money, beyond the one unit a budget needs. *)
(***************************************************************************)
EXTENDS Naturals, FiniteSets

CONSTANTS
  Routines,      \* routine ids
  DependsOn,     \* depends_on of each routine
  Kind,          \* "interval" or "cron", trigger_type
  Interval,      \* the period of an interval routine
  CronPeriod,    \* occurrences of a cron expression: the multiples of this
  Jitter,        \* most an interval fires late, or a cron expression early
  Window,        \* the times inside a routine's execution window
  MaxFires,      \* max_fires of each routine
  Cap,           \* monthly budget of each routine (0: none)
  MaxAttempts,   \* max_retries: attempts in all
  PauseAfter,    \* AUTO_PAUSE_FAILURE_THRESHOLD
  GuardAge,      \* the 24 h after which a running row is not believed
  ScanLimit,     \* the newest rows that the in-flight guard reads
  Timed,         \* routines whose policy has a timeout
  MaxTime, MaxRuns, MaxFaults, MaxEdits   \* bounds of the model

ASSUME RoutinesAssumption ==
  /\ IsFiniteSet(Routines)
  /\ DependsOn \in [Routines -> SUBSET Routines]
  /\ Kind \in [Routines -> {"interval", "cron"}]
  /\ Jitter \in [Routines -> Nat]
  /\ Window \in [Routines -> SUBSET Nat]
  /\ MaxFires \in [Routines -> Nat]
  /\ Cap \in [Routines -> Nat]
  /\ Timed \subseteq Routines

ASSUME NumbersAssumption ==
  /\ Interval \in Nat \ {0} /\ CronPeriod \in Nat \ {0}
  /\ MaxAttempts \in Nat /\ PauseAfter \in Nat \ {0} /\ GuardAge \in Nat
  /\ ScanLimit \in Nat \ {0}
  /\ MaxTime \in Nat /\ MaxRuns \in Nat /\ MaxFaults \in Nat /\ MaxEdits \in Nat

NoRun == 0                                \* last_run_id = None
Runs == 1..MaxRuns
Ids == 0..MaxRuns

\* A routine's record in the task store: enabled with pause_reason (mode),
\* enabled_at, last_fired (0: never; the clock starts at 1), fire_count,
\* next_fire_at and last_run_id.  A deleted or torn task.json keeps the last
\* values, which no action reads.
Modes == {"enabled", "disabled", "budget", "failures", "deleted", "torn"}
Record == [mode : Modes, since : Nat, fired : Nat, fires : Nat, next : Nat,
           run : Ids]

VARIABLES
  now,       \* the clock
  store,     \* task.json of every routine
  jsonl,     \* task and latest status of every run in the JSONL history
  rows,      \* routine_runs; due is the tick that started the run (history)
  tombs,     \* retired and queued placeholders mirrored into routine_runs
  nextId,    \* fresh run ids (UUIDs in the code), in the order of started_at
  pc,        \* where the due check is
  tickAt,    \* the time it took at its start
  mgr,       \* its RoutineManager: the records as listed, then as drained
  due,       \* drained DueRuns not acted on yet
  cur,       \* the one being acted on, and the run started for it
  live,      \* the executor of every run
  spent,     \* usage attributed to each routine this month
  ui,        \* a record the user's command has loaded and not saved yet
  faults, edits,   \* used up bounds
  events     \* what has ever happened to a routine, for the properties

schedVars == <<pc, tickAt, mgr, due, cur>>
vars == <<now, store, jsonl, rows, tombs, nextId, pc, tickAt, mgr, due, cur, live,
          spent, ui, faults, edits, events>>

NoTask == "none"
NoRow == [task |-> NoTask, status |-> "none", trigger |-> "none",
          started |-> 0, finished |-> 0, due |-> 0]
NoCur == [task |-> NoTask, run |-> NoRun, queued |-> "no", started |-> NoRun]
NextOccurrence(t) == ((t \div CronPeriod) + 1) * CronPeriod
New(r) == [mode |-> "enabled", since |-> 0, fired |-> 0, fires |-> 0,
           next |-> IF Kind[r] = "cron" THEN NextOccurrence(0) ELSE 0,
           run |-> NoRun]
NoUi == [task |-> NoTask]
NoSnap == [mode |-> "deleted", since |-> 0, fired |-> 0, fires |-> 0,
           next |-> 0, run |-> NoRun]
NoMgr == [r \in Routines |-> NoSnap]
Idle == [phase |-> "none", attempt |-> 0, outcome |-> "none", pause |-> "no",
         budget |-> "no", snap |-> NoSnap]

Init ==
  /\ now = 1 /\ nextId = 1 /\ tickAt = 0 /\ faults = 0 /\ edits = 0
  /\ store = [r \in Routines |-> New(r)]
  /\ jsonl = [i \in Ids |-> [task |-> NoTask, status |-> "none"]]
  /\ rows = [i \in Runs |-> NoRow] /\ tombs = {}
  /\ pc = "idle" /\ mgr = NoMgr /\ due = {} /\ cur = NoCur
  /\ live = [i \in Runs |-> Idle]
  /\ spent = [r \in Routines |-> 0]
  /\ ui = NoUi /\ events = {}

-----------------------------------------------------------------------------
\* An access that fails uses up one of the faults.
Fault == faults < MaxFaults /\ faults' = faults + 1
NoFault == UNCHANGED faults

\* A record read before a tick saved its fire and written after it forgets the
\* fire; the event tells the properties.
Forgets(r, rec) ==
  IF rec.fires < store[r].fires THEN {<<"forgotten", r>>} ELSE {}

\* The clock.  Everything the code measures in seconds is measured in steps of
\* this one.
Advance ==
  /\ now < MaxTime /\ now' = now + 1
  /\ UNCHANGED <<store, jsonl, rows, tombs, nextId, schedVars, live, spent, ui,
                 faults, edits, events>>

-----------------------------------------------------------------------------
(* The due check *)

\* should_fire_at, with the two answers the random jitter allows.
MayFire(r) ==
  /\ store[r].mode = "enabled" /\ store[r].fires < MaxFires[r]
  /\ IF Kind[r] = "cron" THEN now + Jitter[r] >= store[r].next
     ELSE store[r].fired = 0 \/ now >= store[r].fired + Interval
MayWait(r) ==
  \/ store[r].mode # "enabled" \/ store[r].fires >= MaxFires[r]
  \/ IF Kind[r] = "cron" THEN now < store[r].next
     ELSE store[r].fired # 0 /\ now < store[r].fired + Interval + Jitter[r]

\* The last run of r in the JSONL history.
LastStatus(r) == jsonl[store[r].run].status
\* Broken: any terminal record of the dependency will do.
BlockedUntilTerminal(r) ==
  \E d \in DependsOn[r] :
    /\ store[d].mode # "deleted"
    /\ LastStatus(d) \notin {"succeeded", "failed", "cancelled"}
Blocked(r) ==
  \E d \in DependsOn[r] :
    store[d].mode # "deleted" /\ LastStatus(d) # "succeeded"
Fires(D) == {r \in D : ~Blocked(r) /\ now \in Window[r]}
Queues(D) == {r \in D : ~Blocked(r) /\ now \notin Window[r]
                          /\ LastStatus(r) # "queued"}

\* mark_fired_at
MarkFired(rec, r) ==
  [rec EXCEPT !.fired = now, !.fires = @ + 1,
              !.next = IF Kind[r] = "cron" THEN NextOccurrence(now) ELSE @]

\* Fresh run ids for the routines of P.
FreshIds(P) ==
  {id \in [P -> nextId..(nextId + Cardinality(P) - 1)] :
     \A q, r \in P : id[q] = id[r] => q = r}

\* The drain appends one placeholder for each routine of P to the history.
Placeholders(P, fire, id) ==
  /\ nextId + Cardinality(P) <= MaxRuns + 1
  /\ nextId' = nextId + Cardinality(P)
  /\ jsonl' = [i \in Ids |->
       IF \E r \in P : id[r] = i
       THEN [task |-> CHOOSE r \in P : id[r] = i,
             status |-> IF \E r \in P \cap fire : id[r] = i THEN "running"
                        ELSE "queued"]
       ELSE jsonl[i]]

\* list_routines and drain_due_with_history_at.  Its steps write nothing that
\* another thread reads, so the model takes them together.  A due routine fires,
\* or is queued outside its window; in the manager it is marked, and points at
\* its placeholder.  One task.json that does not parse makes list_routines, and
\* so every due check, fail.
Drain ==
  /\ pc = "idle" /\ now > tickAt /\ tickAt' = now
  /\ \A r \in Routines : store[r].mode # "torn"
  /\ \E D \in SUBSET Routines :
       /\ \A r \in D : MayFire(r)
       /\ \A r \in Routines \ D : MayWait(r)
       /\ LET fire == Fires(D)
              all == fire \cup Queues(D)
          IN \/ /\ NoFault /\ pc' = "act"
                /\ \E id \in FreshIds(all) :
                     /\ Placeholders(all, fire, id)
                     /\ mgr' = [r \in Routines |->
                          IF r \notin all THEN store[r]
                          ELSE [(IF r \in fire THEN MarkFired(store[r], r)
                                 ELSE store[r]) EXCEPT !.run = id[r]]]
                     /\ due' = {[task |-> r, run |-> id[r], started |-> NoRun,
                                 queued |-> IF r \in fire THEN "no" ELSE "yes"]
                                : r \in all}
             \* runs.record fails: the placeholders before it stay running, and
             \* nothing is saved.
             \/ /\ Fault /\ UNCHANGED <<pc, mgr, due>>
                /\ \E P \in SUBSET all \ {all} : \E id \in FreshIds(P) :
                     Placeholders(P, fire, id)
  /\ UNCHANGED <<now, store, rows, tombs, cur, live, spent, ui, edits, events>>

\* The due check's memory is gone: it returned, or the process died.
ForgetTick == pc' = "idle" /\ mgr' = NoMgr /\ due' = {} /\ cur' = NoCur

\* mirror_drained_run, best effort.  The mirrored row has the started_at of the
\* placeholder, so it sorts by the placeholder's id.
Mirror(i) ==
  \/ NoFault /\ tombs' = tombs \cup {i}
  \/ Fault /\ UNCHANGED tombs

\* 1. Persist before acting.  A queued run ends here.
\* Broken: the fire is left for Repoint to persist.
SaveLater(d) ==
  /\ pc = "act" /\ d \in due /\ due' = due \ {d} /\ NoFault
  /\ IF d.queued = "yes" THEN UNCHANGED <<pc, cur>>
     ELSE pc' = "guard" /\ cur' = d
  /\ UNCHANGED <<now, store, jsonl, rows, tombs, nextId, tickAt, mgr, live,
                 spent, ui, edits, events>>
Save(d) ==
  /\ pc = "act" /\ d \in due /\ due' = due \ {d}
  /\ \/ /\ store' = [store EXCEPT ![d.task] = mgr[d.task]]
        /\ IF d.queued = "yes" THEN Mirror(d.run) /\ UNCHANGED <<pc, cur>>
           ELSE pc' = "guard" /\ cur' = d /\ NoFault /\ UNCHANGED tombs
     \/ /\ Fault /\ pc' = "retire" /\ cur' = d /\ UNCHANGED <<store, tombs>>
  /\ UNCHANGED <<now, jsonl, rows, nextId, tickAt, mgr, live, spent, ui, edits,
                 events>>

\* 2. has_run_in_flight, over the newest rows of all routines: list_runs(200).
\* The mirrored placeholders count, although none of them is running.
Recorded == {i \in Runs : rows[i].status # "none"} \cup tombs
Scanned == {i \in Recorded : Cardinality({k \in Recorded : i < k}) < ScanLimit}
\* Broken: a row as old as the window is not believed any more.
InFlightOffByOne(r) ==
  \E i \in Scanned : /\ rows[i].task = r /\ rows[i].status = "running"
                     /\ now < rows[i].started + GuardAge
InFlight(r) ==
  \E i \in Scanned : /\ rows[i].task = r /\ rows[i].status = "running"
                     /\ now <= rows[i].started + GuardAge
\* A history that cannot be read counts as no run.
\* Broken: the skipped placeholder is not retired.
GuardKeepsPlaceholder ==
  /\ pc = "guard" /\ NoFault
  /\ IF InFlight(cur.task) THEN pc' = "act" /\ cur' = NoCur
     ELSE pc' = "spawn" /\ UNCHANGED cur
  /\ UNCHANGED <<now, store, jsonl, rows, tombs, nextId, tickAt, mgr, due, live,
                 spent, ui, edits, events>>
Guard ==
  /\ pc = "guard"
  /\ \/ /\ NoFault /\ UNCHANGED events
        /\ pc' = IF InFlight(cur.task) THEN "retire" ELSE "spawn"
     \/ /\ InFlight(cur.task) /\ Fault /\ pc' = "spawn"
        /\ events' = events \cup {<<"blind", cur.task>>}
  /\ UNCHANGED <<now, store, jsonl, rows, tombs, nextId, tickAt, mgr, due, cur,
                 live, spent, ui, edits>>

\* The start of spawn_routine_run: the row, its best-effort JSONL mirror, and
\* the budget gate, which skips the engine.
OverBudget(r) == Cap[r] > 0 /\ spent[r] >= Cap[r]
StartRun(r, trigger, tick) ==
  /\ nextId \in Runs /\ nextId' = nextId + 1
  /\ rows' = [rows EXCEPT ![nextId] =
                [task |-> r, status |-> "running", trigger |-> trigger,
                 started |-> now, finished |-> 0, due |-> tick]]
  /\ \/ NoFault
        /\ jsonl' = [jsonl EXCEPT ![nextId] = [task |-> r, status |-> "running"]]
     \/ Fault /\ UNCHANGED jsonl
  /\ live' = [live EXCEPT ![nextId] =
                IF OverBudget(r)
                THEN [Idle EXCEPT !.phase = "finish", !.outcome = "fail",
                                  !.budget = "over"]
                ELSE [Idle EXCEPT !.phase = "attempt", !.attempt = 1]]

\* 3. Spawn.  When nothing can be started the placeholder is retired.
\* Broken: the new run is not remembered for the repointing.
SpawnUnlinked ==
  /\ pc = "spawn" /\ StartRun(cur.task, "scheduled", tickAt)
  /\ pc' = "supersede"
  /\ UNCHANGED <<now, store, tombs, tickAt, mgr, due, cur, spent, ui, edits,
                 events>>
Spawn ==
  /\ pc = "spawn" /\ StartRun(cur.task, "scheduled", tickAt)
  /\ pc' = "supersede" /\ cur' = [cur EXCEPT !.started = nextId]
  /\ UNCHANGED <<now, store, tombs, tickAt, mgr, due, spent, ui, edits, events>>
SpawnFails ==
  /\ pc = "spawn" /\ Fault /\ pc' = "retire"
  /\ UNCHANGED <<now, store, jsonl, rows, tombs, nextId, tickAt, mgr, due, cur,
                 live, spent, ui, edits, events>>

\* retire_drained_run, for a run that will not start ("retire") or one whose
\* real run has started ("supersede"): the JSONL record, then its mirror.
\* spawn_routine_run finalizes a run the budget gate skips before it returns.
Retire ==
  /\ \/ pc = "retire" /\ pc' = "act" /\ cur' = NoCur
     \/ /\ pc = "supersede" /\ pc' = "repoint" /\ UNCHANGED cur
        /\ live[cur.started].budget = "no"
  /\ \/ jsonl' = [jsonl EXCEPT ![cur.run].status = "cancelled"] /\ Mirror(cur.run)
     \/ Fault /\ UNCHANGED jsonl /\ tombs' = tombs \cup {cur.run}
  /\ UNCHANGED <<now, store, rows, nextId, tickAt, mgr, due, live, spent, ui,
                 edits, events>>

\* last_run_id follows the run that will be finalized: the whole record, as
\* this tick knows it, is saved again.
Repoint ==
  /\ pc = "repoint" /\ pc' = "act" /\ cur' = NoCur
  /\ mgr' = [mgr EXCEPT ![cur.task].run = cur.started]
  /\ \/ NoFault /\ store' = [store EXCEPT ![cur.task] = mgr'[cur.task]]
     \/ Fault /\ UNCHANGED store
  /\ UNCHANGED <<now, jsonl, rows, tombs, nextId, tickAt, due, live, spent, ui,
                 edits, events>>

ActDone ==
  /\ pc = "act" /\ due = {} /\ ForgetTick
  /\ UNCHANGED <<now, store, jsonl, rows, tombs, nextId, tickAt, live, spent,
                 ui, faults, edits, events>>

-----------------------------------------------------------------------------
(* The executor of run i *)

\* An attempt succeeds, or fails (an error, a panic, the timeout, or the
\* budget watcher's abort) and is retried or given up.
AttemptSucceeds(i) ==
  /\ live[i].phase = "attempt"
  /\ live' = [live EXCEPT ![i] =
                [@ EXCEPT !.phase = "finish", !.attempt = 0, !.outcome = "ok"]]
  /\ events' = events \cup {<<"succeeded", rows[i].task>>}
  /\ UNCHANGED <<now, store, jsonl, rows, tombs, nextId, schedVars, spent, ui,
                 faults, edits>>
AttemptFails(i) ==
  /\ live[i].phase = "attempt"
  /\ \/ /\ live[i].attempt < MaxAttempts
        /\ live' = [live EXCEPT ![i].attempt = @ + 1]
     \/ live' = [live EXCEPT ![i] =
                   [@ EXCEPT !.phase = "finish", !.attempt = 0,
                             !.outcome = "fail"]]
  /\ UNCHANGED <<now, store, jsonl, rows, tombs, nextId, schedVars, spent, ui,
                 faults, edits, events>>

\* scheduled_failure_streak has reached n: n scheduled failures of r after the
\* cutoff, and no success started after the oldest of them.  The code reads no
\* more than the 25 newest rows of r, which can only make a streak shorter.
After(r, cutoff) ==
  {i \in Runs : rows[i].task = r /\ rows[i].finished > cutoff}
\* Broken: the failures of manual runs count.
StreakOfAll(r, cutoff, n) ==
  \E F \in SUBSET After(r, cutoff) :
    /\ Cardinality(F) = n
    /\ \A i \in F : rows[i].status = "failed"
    /\ \A i \in F, j \in After(r, cutoff) :
         rows[j].status = "succeeded" => j < i
Streak(r, cutoff, n) ==
  \E F \in SUBSET After(r, cutoff) :
    /\ Cardinality(F) = n
    /\ \A i \in F : rows[i].status = "failed" /\ rows[i].trigger = "scheduled"
    /\ \A i \in F, j \in After(r, cutoff) :
         rows[j].status = "succeeded" => j < i
\* Re-enabling moves enabled_at; without a task.json all of history counts.
Cutoff(r) == IF store[r].mode \in {"deleted", "torn"} THEN 0 ELSE store[r].since
PauseDue(i) ==
  /\ live[i].outcome = "fail" /\ rows[i].trigger = "scheduled"
  /\ Streak(rows[i].task, Cutoff(rows[i].task), PauseAfter - 1)

\* finalize_run, first half: decide the pause (not when the history cannot be
\* read), then the JSONL revision, which needs the record of the start.
Verdict(i) == IF live[i].outcome = "ok" THEN "succeeded" ELSE "failed"
BudgetReason(i) == IF live[i].budget = "over" THEN "budget" ELSE "no"
PauseReason(i) == IF PauseDue(i) THEN "failures" ELSE BudgetReason(i)
Revise(i, status, pause) ==
  /\ live' = [live EXCEPT ![i].phase = "row", ![i].pause = pause]
  /\ jsonl' = [jsonl EXCEPT ![i].status = IF @ = "none" THEN @ ELSE status]
\* Broken: a run whose start is not in the history cannot be finished there,
\* and the error ends the executor.
FinalizeHistoryStrict(i) ==
  /\ live[i].phase = "finish" /\ jsonl[i].status # "none"
  /\ NoFault /\ Revise(i, Verdict(i), PauseReason(i))
  /\ UNCHANGED <<now, store, rows, tombs, nextId, schedVars, spent, ui, edits,
                 events>>
FinalizeHistory(i) ==
  /\ live[i].phase = "finish"
  /\ \/ NoFault /\ Revise(i, Verdict(i), PauseReason(i))
     \/ Fault /\ Revise(i, Verdict(i), BudgetReason(i))
     \/ Fault /\ Revise(i, jsonl[i].status, PauseReason(i))
  /\ UNCHANGED <<now, store, rows, tombs, nextId, schedVars, spent, ui, edits,
                 events>>

\* finalize_run, second half: the inbox item and the row.  What the run cost is
\* attributed through both; a run the budget gate skipped cost nothing, and
\* without a budget nobody asks.
Costs(i) ==
  IF live[i].budget = "over" \/ Cap[rows[i].task] = 0 THEN {0} ELSE {0, 1}
FinalizeRow(i) ==
  /\ live[i].phase = "row"
  /\ live' = [live EXCEPT ![i] =
                IF @.pause = "no" THEN Idle ELSE [@ EXCEPT !.phase = "load"]]
  /\ \/ /\ NoFault
        /\ rows' = [rows EXCEPT ![i].status = Verdict(i), ![i].finished = now]
        /\ \E cost \in Costs(i) :
             spent' = [spent EXCEPT ![rows[i].task] = @ + cost]
     \/ Fault /\ UNCHANGED <<rows, spent>>
  /\ UNCHANGED <<now, store, jsonl, tombs, nextId, schedVars, ui, edits, events>>

\* pause_routine_auto loads the record, and pauses what it has loaded.
PauseLoad(i) ==
  /\ live[i].phase = "load"
  /\ live' = [live EXCEPT ![i] =
                IF store[rows[i].task].mode = "enabled"
                THEN [@ EXCEPT !.phase = "save", !.snap = store[rows[i].task]]
                ELSE Idle]
  /\ UNCHANGED <<now, store, jsonl, rows, tombs, nextId, schedVars, spent, ui,
                 faults, edits, events>>
PauseSave(i) ==
  /\ live[i].phase = "save"
  /\ live' = [live EXCEPT ![i] = Idle]
  /\ LET r == rows[i].task
     IN \/ /\ NoFault
           /\ store' = [store EXCEPT ![r] =
                          [live[i].snap EXCEPT !.mode = live[i].pause]]
           /\ events' = events \cup Forgets(r, live[i].snap)
        \/ Fault /\ UNCHANGED <<store, events>>
  /\ UNCHANGED <<now, jsonl, rows, tombs, nextId, schedVars, spent, ui, edits>>

-----------------------------------------------------------------------------
(* The user's commands, and the end of the process *)

Present(r) == store[r].mode \notin {"deleted", "torn"}

\* toggle_scheduled_task and update_scheduled_task load the record, and save
\* what they have loaded with `enabled` set or left alone.
EditLoad(r) ==
  /\ ui.task = NoTask /\ Present(r) /\ edits < MaxEdits /\ edits' = edits + 1
  /\ ui' = [task |-> r, rec |-> store[r]]
  /\ UNCHANGED <<now, store, jsonl, rows, tombs, nextId, schedVars, live, spent,
                 faults, events>>
SetEnabled(rec, on) ==
  CASE on = "on" /\ rec.mode # "enabled" ->
         [rec EXCEPT !.mode = "enabled", !.since = now]
    [] on = "off" /\ rec.mode = "enabled" -> [rec EXCEPT !.mode = "disabled"]
    [] OTHER -> rec
EditSave ==
  /\ ui.task # NoTask /\ ui' = NoUi
  /\ \/ /\ NoFault
        /\ \E on \in {"on", "off", "same"} :
             store' = [store EXCEPT ![ui.task] = SetEnabled(ui.rec, on)]
        /\ events' = events \cup Forgets(ui.task, ui.rec)
     \/ Fault /\ UNCHANGED <<store, events>>
  /\ UNCHANGED <<now, jsonl, rows, tombs, nextId, schedVars, live, spent, edits>>

DeleteTask(r) ==
  /\ store[r].mode # "deleted" /\ edits < MaxEdits /\ edits' = edits + 1
  /\ store' = [store EXCEPT ![r].mode = "deleted"]
  /\ events' = events \cup {<<"deleted", r>>}
  /\ UNCHANGED <<now, jsonl, rows, tombs, nextId, schedVars, live, spent, ui,
                 faults>>

\* trigger_task_now and rerun_inbox_item: no guard, no window, no dependencies.
Trigger(r) ==
  /\ Present(r) /\ edits < MaxEdits /\ edits' = edits + 1
  /\ StartRun(r, "manual", 0)
  /\ UNCHANGED <<now, store, tombs, schedVars, spent, ui, events>>

\* The process dies and is started again; a save under way may leave a
\* truncated task.json.  The start imports what the history has and routine_runs
\* lacks, except running records, or fails to.
PendingSaves ==
  (IF pc = "act" THEN {d.task : d \in due} ELSE {})
    \cup (IF pc = "repoint" THEN {cur.task} ELSE {})
    \cup {rows[i].task : i \in {j \in Runs : live[j].phase = "save"}}
    \cup {r \in Routines : r = ui.task}
Crash ==
  /\ Fault /\ ForgetTick /\ ui' = NoUi /\ live' = [i \in Runs |-> Idle]
  /\ \/ UNCHANGED tombs
     \/ tombs' = tombs \cup
                   {i \in Runs : jsonl[i].status \in {"queued", "cancelled"}}
  /\ \/ UNCHANGED store
     \/ \E r \in PendingSaves : store' = [store EXCEPT ![r].mode = "torn"]
  /\ UNCHANGED <<now, jsonl, rows, nextId, tickAt, spent, edits, events>>

-----------------------------------------------------------------------------
SchedulerStep ==
  \/ Drain \/ Guard \/ Spawn \/ SpawnFails \/ Retire \/ Repoint \/ ActDone
  \/ \E d \in due : Save(d)
Attempt(i) == AttemptSucceeds(i) \/ AttemptFails(i)
Finalize(i) == FinalizeHistory(i) \/ FinalizeRow(i) \/ PauseLoad(i) \/ PauseSave(i)
ExecutorStep(i) == Attempt(i) \/ Finalize(i)
UserStep ==
  EditSave \/ \E r \in Routines : EditLoad(r) \/ DeleteTask(r) \/ Trigger(r)
Next ==
  \/ Advance \/ SchedulerStep \/ (\E i \in Runs : ExecutorStep(i))
  \/ UserStep \/ Crash

Spec == Init /\ [][Next]_vars

\* The tasks of the runtime are scheduled, so an executor goes on to its end once
\* its last attempt is over.  An attempt ends by itself only under a policy with a
\* timeout: without a policy, or with timeout_secs = 0, it may hang.
FairSpec ==
  Spec /\ WF_vars(\E i \in Runs :
                    Finalize(i) \/ (rows[i].task \in Timed /\ Attempt(i)))
-----------------------------------------------------------------------------
(* Properties *)

Due == [task : Routines, run : Runs, queued : {"yes", "no"}, started : Ids]
Executor ==
  [phase : {"none", "attempt", "finish", "row", "load", "save"},
   attempt : Nat, outcome : {"none", "ok", "fail"},
   pause : {"no", "failures", "budget"}, budget : {"no", "over"},
   snap : Record]
\* Every variable has its type, and what refers to a run refers to a started
\* one.
TypeOK ==
  /\ now \in Nat /\ tickAt \in Nat /\ faults \in Nat /\ edits \in Nat
  /\ nextId \in 1..(MaxRuns + 1) /\ tombs \in SUBSET Runs
  /\ store \in [Routines -> Record] /\ mgr \in [Routines -> Record]
  /\ jsonl \in [Ids -> [task : Routines \cup {NoTask},
                        status : {"none", "running", "queued", "cancelled",
                                  "succeeded", "failed"}]]
  /\ rows \in [Runs -> [task : Routines \cup {NoTask},
                        status : {"none", "running", "succeeded", "failed"},
                        trigger : {"none", "scheduled", "manual"},
                        started : Nat, finished : Nat, due : Nat]]
  /\ pc \in {"idle", "act", "guard", "spawn", "supersede", "repoint", "retire"}
  /\ due \in SUBSET Due
  /\ cur \in Due \cup {NoCur}
  /\ pc \in {"guard", "spawn", "supersede", "repoint", "retire"} => cur \in Due
  /\ pc \in {"supersede", "repoint"} => cur.started \in Runs
  /\ live \in [Runs -> Executor]
  /\ \A i \in Runs : live[i].phase # "none" => rows[i].task \in Routines
  /\ spent \in [Routines -> Nat]
  /\ ui \in [task : Routines, rec : Record] \cup {NoUi}

Scheduled(r) == {i \in Runs : rows[i].task = r /\ rows[i].trigger = "scheduled"}

\* The scheduler never stacks a paid run on an unfinished one, and never lets one
\* through to be started, whatever crashed, failed or was edited in between, with
\* three exceptions: a guard that could not read the history; a first run more
\* than the guard's 24 h old; and one that as many rows of any routine as the
\* guard reads have pushed out of its sight, the retired placeholders of the
\* routine's own skipped fires included.
Hidden(i, j) == Cardinality({k \in Recorded : i < k /\ k < j}) >= ScanLimit
NoStackedRuns ==
  \A r \in Routines : <<"blind", r>> \notin events =>
    \A i \in Scheduled(r) : rows[i].status = "running" =>
      /\ \A j \in Scheduled(r) : (i < j /\ rows[j].status = "running") =>
           rows[j].started > rows[i].started + GuardAge \/ Hidden(i, j)
      /\ (pc = "spawn" /\ cur.task = r) =>
           now > rows[i].started + GuardAge \/ Hidden(i, nextId)

\* A fire is saved before its run is spawned, so neither a crash nor a failed
\* access makes an interval routine run twice in one interval, or more often
\* than max_fires: only a stale save of another writer does.
SpacedFires ==
  \A r \in Routines : <<"forgotten", r>> \notin events =>
    /\ Cardinality(Scheduled(r)) <= MaxFires[r]
    /\ Kind[r] = "interval" =>
         \A i, j \in Scheduled(r) :
           i < j => rows[j].due >= rows[i].due + Interval

\* A routine with dependencies runs on schedule only after a run of each of
\* them has succeeded (or it was deleted): placeholders, queued and cancelled
\* records never count as a success.
DependentsWait ==
  \A r \in Routines : Scheduled(r) # {} =>
    \A d \in DependsOn[r] :
      <<"succeeded", d>> \in events \/ <<"deleted", d>> \in events

\* Without a failed access or a crash, no record stays running without its
\* owner: a running record of the JSONL history is an executor's or a
\* placeholder of the current tick, a running row is an executor's.
RunningIsOwned ==
  faults = 0 =>
    /\ \A i \in Runs : jsonl[i].status = "running" =>
         \/ live[i].phase # "none"
         \/ \E d \in due \cup {cur} : d.run = i
    /\ \A i \in Runs : rows[i].status = "running" => live[i].phase # "none"

\* A routine is paused for its failures only after that many scheduled runs
\* of it have failed: manual runs never count, however they interleave.
PauseEarned ==
  faults = 0 =>
    \A r \in Routines : store[r].mode = "failures" =>
      Cardinality({i \in Scheduled(r) : rows[i].status = "failed"}) >= PauseAfter

\* Every executor whose attempts have a timeout ends, whatever fails: attempts
\* are bounded and finalize_run has no way out that leaves the run behind.  What
\* an attempt without a timeout can do is hang; once it is over, its run ends too.
Hangs(i) == live[i].phase = "attempt" /\ rows[i].task \notin Timed
RunsTerminate == []<>(\A i \in Runs : live[i].phase = "none" \/ Hangs(i))

\* An automatic pause lasts until the user re-enables the routine.
PauseSticks ==
  [][\A r \in Routines :
       store[r].mode \in {"budget", "failures"} /\ store'[r].mode = "enabled"
         => ui.task = r]_vars
=============================================================================
