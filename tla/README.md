# TLA+ models of Shannon

Shannon is an agent that runs model queries with tools from a terminal, a
desktop application and several servers. This directory models the parts of it
that keep promises across threads, processes and crashes:

* the session log. Everything a session did is in one append-only file,
  `events.jsonl`, "the single authoritative session record"
  (`crates/shannon-core/src/session_log/writer.rs`): resume, rewind, branching,
  compaction, listings and cost all read it;
* the routine scheduler of the desktop, which starts paid runs by the clock;
* the handle of a stdio MCP server, which callers, the health check and
  `stop_server` restart and stop under one another;
* the tasks of an agent team, kept on a board in memory and in files that work
  loops claim from.

## Inventory

| part | state it keeps | operations | what is hard |
|---|---|---|---|
| log writer, `session_log/writer.rs` | file, BufWriter, `next_seq`, `current_turn`, chunk count, detached syncs, flock | open with tail recovery, record, flush, close | failed writes, torn lines, detached fdatasync, power loss |
| index, `session_index.rs` | `index.json`, accumulator | observe, finish, store, load_if_valid | list reads without a lock; validity by length and mtime |
| reader, `reader.rs` | position | read_events | one bad line fails the log |
| recorder, `tee.rs`, `mod.rs` | writer, open step's text, usage, step count, open turn | one row or fold per query event, close on terminal event or drop | cancellation at any await, two folds that must agree |
| projection, `projections.rs` | open step, messages, totals | fold, finish, branch cutoff | must invert the recorder after crashes and rewrites |
| store, `session_store.rs` | the directory of logs and sidecars | list, load, branch, truncate, rewrite, delete, sidecars | several processes, rename and unlink under a flock |
| query engine, `query_engine/engine/` | conversation, tool round, budgets | process_query loop, rewind | cancellation, retries, compaction |
| event bus, `bus.rs` | subscribers | serial dispatch | order |
| agents, `shannon-agents` | task board, task files, teammates, mailboxes | create, claim, complete, unblock, message, spawn | two stores of the same tasks, files read without their locks, dead teammates |
| MCP, `shannon-mcp` | per server: state, child, stdin, reader, pending requests, restart count | start, call with one retry, restart, health check, stop | every step of a restart interleaves with calls and other restarts; late answers |
| scheduling, `scheduled_*.rs`, desktop `scheduled_commands.rs`, `inbox_commands.rs` | `task.json` per routine, JSONL history, SQLite `routine_runs` | due check, run with retries, finalize, pause, edit, trigger | three stores, whole-record saves of stale copies, death inside a tick |
| goals, inbox | goals, items | | restart in a run |
| provider API, permissions, hooks, `shannon-engine` | retry state, rules | call, decide | retry after partial streams |
| tools, UI, CLI, servers, desktop, gateway, browser, skills, repo map | mostly presentation and I/O | | |

The engine opens one recorder per query. The recorder owns one writer, and with
it the flock of the file, until it is dropped. A rewind, a compaction or a
delete takes the same flock. A listing takes none. All of them may run in
different processes on the same directory. The scheduler starts queries of its
own, and every query may call tools of MCP servers and of its team; the models
meet at those calls, which are atomic in none of them.

What makes the parts correct: the log never loses, repeats or garbles a row it
acknowledged as durable; its numbering has no gap, whatever crashed; a cached
index that validates tells what reading the log would; a reload shows what was
streamed, marked as it ended; a rewrite replaces what it says and nothing else.
A routine never has two paid runs stacked, never fires twice in an interval,
waits for its dependencies, and stays paused. A tool call gets its own answer or
an error, after at most two executions; a server is restarted no more often than
allowed, and no process of it is lost on the way. A task starts after its
blockers, once, and its end releases its dependents. The code keeps these
promises with the exceptions listed under "Where the code says otherwise".

`PROJECT.json` lists every component, the hazards of this code at their lines,
the definitions with the source lines they stand for, and the findings.

## Modules

* `SessionLog` is the writer. A file is a sequence of lines plus three
  positions: `pos`, how far the page cache has got, `Total`, with the BufWriter
  added, and `durable`, the lines an fdatasync has covered. Positions count half
  lines, so that "inside a line" is a place where a write can stop. `residue`
  is the tail without a newline that a failed or interrupted write leaves.
  `Open`, `RecordOk`, `RecordFail`, `FlushOk`, `CloseOk`, ... are the operations;
  each I/O call may fail after any part of it. `pending` counts the syncs in the
  blocking pool; each keeps a clone of the file, and so the flock, alive.
  `Crash` is the death of the process, `PowerLoss` that of the machine.
* `SessionIndex` extends it with the sidecar. Every step of the log is a step of
  `SessionLog` joined with what it does to the accumulator, the modification
  time and `index.json`; `ListStat`, `ListRead`, `ListStore` are the three
  unlocked steps of `SessionStore::list`. A line that does not parse ends the
  reading, and with it the list (`ListFails`); the writer's accumulator counts
  such a line, since it has seen the event and not the bytes. The clock may stand
  still between two writes. Length and mtime of the log come back older after a power loss, each
  for itself.
* `SessionTee` is the conversation: rows instead of bytes. The query loop's
  events are actions (`Accept` ... `DropTee`), the recorder's variables are those
  of `SessionTee` in `tee.rs`, `FoldBody` and `ProjectConversation` are the
  projection, `TruncateToTurn`, `SummaryTurns` and `CreateBranch` the store. The
  loop over the rows is a recursive function, `Projections`, of which `Folded` is
  the last value. The counter of `truncate_to_turn` is said without a loop: a row
  opens a turn (`Opens`) unless one has opened and not ended before it. A
  delta is named by the row that carries it, so texts can be compared. `calls`,
  `tokens` and `billed` are history variables.
* `SessionFiles` is the file system side: a name, the files it has referred to,
  a flock per file, and any number of processes that open by name, lock, and
  append, rename or unlink. A line is its seq.
* `DurableLog` is what the log promises its readers: numbered lines with one
  owner, lost only from the end, only when the owner goes, and never those that
  are kept. `SessionLogDurability` shows that `SessionLog` implements it under
  `log`, `durable`, `writer` for `lines`, `kept`, `owner`.
* `RoutineScheduler` has the due check as a small program (`pc`, with the records
  it listed in `mgr`), an executor per run (`live`), the user's load-and-save
  commands (`ui`) and the three stores. A step is one store access. A save writes
  the whole record that was loaded, as the code does: that is where updates get
  lost. A failing access and a death of the process share the bound `MaxFaults`.
  The in-flight guard sees the newest `ScanLimit` rows of all routines (200 in the
  code). Placeholders that were retired or queued are mirrored into the same
  rows (`tombs`), each at the place of its own start, and use that limit up.
* `McpServerHandle` has one task per caller, one for the health check and one for
  `stop_server`; a step ends at an await, a lock's included. The handle's fields
  are the first seven variables, the pipes `inbox` and `out`, the oneshot channels
  `reply`. Processes are numbered, so an answer of an old process can come late.
  `runs` counts executions of a caller's tool. Two locks are kept across an await
  and are visible in `pc`: a task that waits for a process to end holds the
  child lock ("reaping"), so that a process another task has spawned meanwhile
  runs beside the old one until its Child can be stored ("install"); and a task
  whose write is stuck in a full pipe holds the stdin lock ("blocked") until the
  server reads (`Unblocked`) or is dead (`PipeBreaks`).
* `TeamTasks` has the board and its reverse map, the task files, and threads that
  hold what they have read (`snap`, `saves`) between two accesses. A work loop
  uses the files only; callers and the heartbeat use the board and save to the
  files afterwards.
* `SessionLogProofs`, `SessionLogDurability`, `SessionIndexProofs`,
  `SessionTeeProofs`, `SessionFilesProofs`, `RoutineSchedulerProofs`,
  `McpServerHandleProofs` and `TeamTasksProofs` hold the theorems.
* `MC*` modules instantiate the above for TLC.

The operators marked "Broken:" are deliberate defects, one for each property,
used to see that the property notices them. No specification uses them.

## Runs

| run | question | result |
|---|---|---|
| `session_log` | numbering, parsing, durability and lock of one log, and does it implement `DurableLog`, with 3 lines, 1 I/O failure and 2 deaths | holds, 88k states |
| `session_index` | is a validating index what a list would rebuild, with a glued line and one power loss as the only exceptions, and is an accumulator that will be published whole | holds, 4.2M states |
| `session_tee` | do recorder, projection, branch and rewrites agree, for 2 queries, 2 calls each, one death and one rewrite | holds, 0.95M states |
| `session_files` | numbering with 3 processes and 3 files | holds, 130k states |
| `routine_scheduler` | are runs spaced, not stacked within the guard's sight, owned, behind their dependencies, ended unless they hang, and pauses earned, with one fault and one edit | holds, 1.7M states |
| `mcp_handle` | own answers, no lost process, bounded restarts, at most two executions, and every call returns unless a write is stuck for ever | holds, 1.2M states |
| `team_tasks` | blockers completed or failed first, one grant, one start, the board unblocks, with one restart | holds, 2.8M states |
| `rewind` | does a rewind keep the turns that survive in memory | no: turns recorded by the engine count twice |
| `compaction` | does a compaction replace only what it summarised | no: a query during the summary is erased |
| `rewrite_race` | does a writer with the lock write to the log that readers see | no: open and lock are two steps, and a rename fits between |
| `budget_pause` | does an automatic pause last until the user ends it | no: the due check saves its older record over it |
| `team_unblock` | has a loop that finished a task unblocked its dependents | no: two loops that finish two blockers at once leave the dependent blocked |

The properties are commented where they are defined. Each violated one quotes
the sentence of the source that it formalises (`findings`).

### Where the code says otherwise

Five promises of the source are violated and have a run each, above. These are
further places where the code does not do what its text says, or what one would
want. The properties that hold are stated around them: each names the exception,
so that it excludes every other.

* `SessionStore::list` says that its two paths "can never disagree"
  (`session_store.rs:502-503`). `IndexFaithful` shows the two ways in which they
  do. A failed write may glue two lines: every list that reads the log then fails
  and returns no session at all (`session_store.rs:519`), while a sidecar of the
  writer, as long as it validates, hides the line. And `index.json` is fsynced,
  the log not: after a power loss a sidecar may validate that counts lines which
  are gone.
* "A still-`running` row means the previous execution has not finalized"
  (`scheduled_commands.rs:1081-1084`) is asked of the newest 200 rows of all
  routines only. Other routines' runs, and the retired placeholders of the
  routine's own skipped fires, push a hung run out of sight, and the next fire is
  stacked on it. `NoStackedRuns` allows a run beside another only then (`Hidden`),
  after 24 h, or when the guard could not read the history.
* A routine without a policy, or with `timeout_secs = 0`, has no timeout
  (`inbox_commands.rs:462-464`, `474-483`). Its attempt may hang, and its row stays
  running. `RunsTerminate` says that nothing else keeps a run from its end.
* A request is written to the server's stdin without a timeout, under a lock that
  the shutdown takes too (`handle.rs:664-685`, `917-921`). A server that stops
  reading blocks the call, every later writer, and the restart that would replace
  it. `CallsReturn` therefore assumes that no write is stuck for ever.
* "Tasks that must complete before this one can start" (`task.rs:69`, also
  `coordinator.rs:1034-1036`): a work loop releases the dependents of a run that
  failed as if it had completed (`teammate.rs:972-989`), and `team_task_update` sets
  a task in progress without looking at its blockers (`task_tools.rs:210-217`).
  `BlockersFirst` says that on the board, until it is loaded from files, only the
  second starts a task early, and elsewhere only failed runs do. A blocker
  cancelled, or failed by `fail_task`, releases nobody.
* `complete_task` unblocks all dependents (`task_board.rs:283-287`), but a task
  linked to one that has completed meanwhile waits for ever. `BoardUnblocks`
  excludes that case and no other.

Bounds. Three lines are enough for a boundary, a chunk over the limit
(`ChunkFlushCount` is 2) and a line after a repair; two deaths for a crash of a
recovery. The index run allows two lines and one misfortune (an I/O failure or
a power loss; process deaths are separate): its races need one write between
two steps of the list. In the recorder's run two queries with two calls cover a
turn after an interrupted turn and a call after a tool round; a rewrite comes
before, between or after. `MaxRows`, `MaxStep` and `MaxCalls` limit what the
engine adds, never what closing a turn writes. Three processes let two race
while a third reads or rewrites; processes are symmetric there.

The scheduler has two routines, an interval with a budget and a timeout and a
cron routine that waits for it, has a window and no timeout; three clock values
let an interval of two fire twice; four run ids, two attempts each, with a pause
after two failures. The guard reads one row, so a manual run or a retired
placeholder is enough to hide a running one, and runs are let through beside it.
Two rows running at once because of that take a fifth id, and a run older than
the guard's age of two a fourth clock value: `NeverStacked` covers both. The MCP
run has two callers and one permit, so that one waits for the other, beside the
health check and `stop_server`, with two restarts and one upset, which is a
health check or a dying process (a failed call restarts the server without
either). More callers and upsets multiply the states; the safety properties are
proved for any number of them. The team has two work loops, two callers and
two tasks, so that one may block the other, and two operations; agents of one
kind are symmetric. `team_unblock` needs three tasks, two of which block the
third, and two loops.

Fairness. Of the log `WF_vars(SyncTask)`: the blocking pool of the runtime runs
every task it accepted while the process lives. Of the scheduler that the
executors go on as a whole, as the tasks of the runtime do: each finishes once
its attempt is over, and an attempt ends by itself only for a routine in `Timed`,
whose policy has a timeout; any other may hang, which is neither assumed nor
excluded. Of the MCP handle every task that has begun: answers, starts and the
end of a process are waited for with a timeout, and locks and permits are given
out in the order they are asked for, so a task that can go on again and again
does (a caller calls once, for which weak fairness is enough). The write to stdin
has no timeout: that a server reads it (`Unblocked`) is not assumed, and
`CallsReturn` has `[]<>StdinFree` as its premise. Nothing is assumed of the engine, the user, the server, the disk
or of a process that might die. The liveness properties of the log allow for a
counted failure and for a death. Deadlock is not checked where the bounds run
out (queries, files, runs, upsets, tasks): the models then stop, the program
does not.

## Proofs

`SessionLogProofs` proves, for every flush policy and every bound:

* `TypeCorrect`: `Spec => []TypeOK`;
* `SeqContinuous`: `Spec => []SeqContinuity`, line i has seq i - 1 and an open
  writer goes on from the line count;
* `DurableLinesStay`: `Spec => DurablePrefix`, no step loses or changes a line
  that a sync has covered.

They rest on `LogInv`: the types, the numbering, and the order of the positions,
`2 * durable <= pos <= Total`, with `pos = Total` for a closed log. The
positions are what makes the numbering inductive: a crash cuts the log at a
position, and the next open numbers from what is left; and what makes the
durable prefix stay: every cut is at or after `2 * durable`. The lemmas say what
cutting a position does to a prefix, one per kind of step.

`SessionLogDurability` goes on from `LogInv` with one strengthening for each of
four more invariants of the log:

* `BoundariesDurable`: `Spec => []BoundaryDurable`. A sync task covers what is in
  the page cache when it runs, so the property needs `Drained`: without a failure
  or a death no boundary row is ever left in the buffer.
* `LinesParse`: `Spec => []CrashKeepsLinesParsing`, from `Intact`: without a failure
  an open writer never has torn bytes before it, since opening cut them off.
* `TurnsOrdered`: `Spec => []TurnMonotone`, from `Ordered`, which says it of every
  leading part of the log that parses: a crash may cut off the garbled line that
  excused the lines after it.
* `ChunksHeldBack`: `Spec => []ChunksBounded`, from `ChunksCounted`: while no flush
  has failed, the chunk rows beyond the page cache are at most `chunks`, which a
  count-triggered flush keeps below `ChunkFlushCount`.

`SessionIndexProofs` is about the sidecar, for any log:

* `SidecarFaithful`: `ISpec => []IndexFaithful`, `AccumulatorComplete`:
  `ISpec => []AccumulatorWhole`, and `IndexTypeCorrect`. That a rebuild fails only
  after a counted write failure is `Intact` again: `LogStaysIntact` carries the
  invariant of `SessionLogDurability` over to the log under writer and lists, whose
  every step is one of the writer or leaves the log alone. The rest of the
  argument is
  that nothing but a power loss takes a complete line out of the page cache
  (`CacheStays`, for every step of the writer, a failure, a death and a repair),
  so what a list or an accumulator folded stays a fold over a prefix of the log.
  A list stamps its fold with the length it took before it read: the fold covers
  at least the lines of that length (`Sound`), and when the log still has that
  length it covers exactly them. The mtime is not needed for that. It is needed
  after a power loss, where an index may be ahead of the log (`Stale`): what the
  log grows back by has a later time. The proof showed that this holds for one
  power loss only: a second one may bring back the time of the stale index over
  other lines, since the model lets length and time come back independently. The
  property says so (`lossy <= 1`).

`SessionFilesProofs` proves for any set of processes `FilesTypeCorrect` and `FilesSeqsContinuous`:
`Spec => []SeqsContinuous`. Its invariant `FilesInv` says that every file, linked
or not, is numbered; that the rows a rewrite is going to write are; that a
writer's next seq is the length of its file; and that a process past the lock
is the holder, which makes two writers on one file impossible. Only the last
needs the flock; that the name may move to another file under a writer, which
`rewrite_race` shows, does not break the numbering.

`SessionLogDurability` ends with `WriterImplementsDurableLog`:
`Spec => ImplementsDurableLog`, step by step from `LogInv`: an open is a take-over
(of one line when it repairs), a successful record adds, a failed record, a
flush and a detached sync keep more or nothing, and close, crash and power loss
let go of at most what no sync covered.

`SessionTeeProofs` is about the conversation: logs of any length, any number of
queries, calls, deaths and rewrites, with or without lock conflicts. Its theorems
all follow from `TeeInvariant`: `Spec => []TeeInv`.

* `StepFoldsAgree`: `Spec => []StepTextMirrorsProjection`;
* `PartialAnswersSurvive`: `Spec => []PartialAnswerMarked`;
* `TurnsClosedOnce`: `Spec => []TurnsPaired`;
* `TokensConserved`: `Spec => []UsageConserved`;
* `BranchesArePrefixes`: `Spec => []BranchIsPrefix`;
* `TeeTypeCorrect`: `Spec => []TypeOK`.

`TeeInv` has two halves. `LogSound` says what is true of every log, row by row,
and so survives any cut: along it the turns not ended are between 0 and the
deaths plus one, and at most the deaths where a turn opens, which is where a
rewind cuts (`TurnsSound`); the projection's open step holds what was streamed,
and under the marker of the end when a turn/end comes (`TextSound`); and it does
not begin with a row of a message (`BeginSound`), without which the cutoff of an
empty branch, seq 0, would let a message through. `RecorderSound` and
`UsageSound` say how the recorder stands to the end of its log: its text is the
open step's, which is not marked yet; its usage is the tokens reported, and as
long as it has none the bare count is 0 or absent, or `turn/end` would bill it.
`PrefixSound` is then all that a crash and a rewind need, with `TokensKept` and
`FlushedRows`: what a death takes is after the last turn/end. `AppendSound` is
what recording needs, `TurnClosed` puts the rows of `close_turn` together, and
`SummarySound` follows the five rows of each summarised turn.

A branch needs no state: `BranchAtMessage` is about any log that begins as above.
Along the fold the rows of the messages are increasing and those of the open step
come after them (`Whole`), so the row that ends message k is before every row of
the next, and the fold of the rows up to there, flushed, is the first k messages.

The folds are recursive functions. That they exist for every log, and what they
compute, is proved by least counterexample from `WFMin` (`LeastNumber`, `Climb`):
the library's induction theorems take an operator, which the provers here cannot
instantiate, while a set of numbers without a least one they can refute.

`McpServerHandleProofs` is about any finite set of callers and any limits:

* `AnswersRouted`: `Spec => []AnswersMatch`, and `HandleTypeCorrect`. The argument
  is `RoutingInv`: ids are given out in order and never twice, so two tasks never
  hold the same one; an entry of `pending` belongs to a task that waits under
  its id; a message carries a used id, and a task whose current request has that
  id is the one the message is for. Hence what a reader routes to a waiting task
  is its own answer, even when the answer comes from a process that was replaced
  long ago, and whoever aborted the reader or emptied `pending` meanwhile.
* `NoProcessLost`: `Spec => []ProcessesHeld`, which is inductive with the types: a
  process is spawned into a task's hands and leaves them for the handle, where
  it stays until it is killed by the one that replaces it, or taken by a shutdown
  that waits for its end. `HoldersStay` says that no other step touches a Child.
  At most one process would be wrong: a start and a shutdown may overlap.
* `RestartBudget`: `Spec => []RestartsBounded`, from `BudgetInv`: the processes
  started plus the tasks between winning a restart and spawning never exceed
  the restarts counted plus one, nor `MaxRestarts + 1`. The count of tasks is
  needed because the counter is raised long before the process is started, by
  several tasks at once. It assumes finitely many callers.

* `ToolsRunTwice`: `Spec => []AtMostTwice`, from `TwiceInv`: for every caller the
  executions, the calls its processes were sent and have not taken, and the one
  it is about to write are together at most the calls it has made, which `cont`
  remembers across the restart. A call that timed out is still counted, since a
  living process may execute it later.

`RoutineSchedulerProofs` is about any finite set of routines, with any kinds,
windows, dependencies and limits, and any number of faults, edits and runs. Each
theorem adds a part to the types (`TypeCorrect`) and to `IdInv`: nothing is stored
under a run id that was not given out.

* `NeverStacked`: `Spec => []NoStackedRuns`, which is inductive because it speaks of
  the run let through as well as of the rows. `LetThrough` is the guard itself: a
  running row it does not see is too old, or has `ScanLimit` newer rows.
  `HiddenStays` keeps it so until the run is spawned and ever after, since rows
  and mirrored placeholders are only added, and under ids given out (`TombsInv`).
  Other tasks run between guard and spawn, but none of them starts a scheduled
  run, and `RowsKept` says that none sets a row back to running.
* `DependentsStart`: `Spec => []DependentsWait`, from `HistoryInv` (a success in the
  history has happened, and an executor's record is its routine's), `PointersInv`
  (the run a record, a copy or the tick refers to is a run of that routine) and
  `ModesInv`: the drain decides by following a pointer that other writers change.
* `RunningOwned`: `Spec => []RunningIsOwned`, from `Owned`, which adds what each
  phase of an executor and each step of the tick has already written.
* `PausesEarned`: `Spec => []PauseEarned`, from `PauseInv`: a pause that an executor
  has decided on, or that a loaded copy carries, has been earned, one failure
  short while the failed row is still to be written.
* `FiresSpaced`: `Spec => []SpacedFires`, from `SpacedInv`: as long as no stale save
  has forgotten a fire, every copy of a record is at most as new as the record
  (`CopiesInv`); a due entry of the tick is one fire ahead of the store and an
  interval later than every run; and a run is spawned only after its fire is
  saved (`TickInv`), so fires bound the runs and space them (`FiresInv`).

`TeamTasksProofs` is about any agents, tasks, operations and restarts:

* `TypeCorrect`: `Spec => []TypeOK`, with the places of each kind of thread.
* `OneGrant`: `Spec => []GrantedOnce`, from `GrantInv`: a grant of this process is
  the owner that the board shows, and nothing takes an owner off the board.
* `BlockersEndFirst`: `Spec => []BlockersFirst`, from `BlockInv`: every record of a
  task, on the board, in its file, or in the copy a thread is about to write,
  names every declared blocker that has not ended, by completion or by a run. A
  stale save may therefore put back a blocker that has ended, never leave one
  out. `BoardInv` is the same for the board alone with completion in the place of
  the end, until a restart loads what the work loops have written.
* `BoardUnblocksAll`: `Spec => []BoardUnblocks`, from `RevInv`: a caller that has
  read the dependents of its task has read every registered one but those linked
  after the completion.
* `StartedOnce`: `Spec => []LoopsStartOnce`, from `NoOthers` (only declared blockers
  ever block), `CreatorInv` (a task in creation has one creator and no file) and
  `LoopInv`: a started task's file is neither claimable nor blocked, and a record
  of a task names every blocker whose loop may still save that task. The proof
  corrected the property: it had excused only the tasks that wait directly for one
  that an agent claims or completes through the coordinator. With three tasks in
  a row a second run of the first reopens the second, and that one the third. The
  promise is now about sets of tasks that wait only for each other.

Assumptions. The constants are only assumed to have their types: natural limits,
a chunk count and a permit count that are not 0, finitely many callers and
finitely many routines (as any configuration has), and names of threads and of
nobody that differ. No theorem assumes one of the bounds `Max...` small.

Only model-checked: the liveness properties (`BoundaryEventuallyDurable`,
`LockEventuallyFree`, `RunsTerminate`, `CallsReturn`), which are out of the prover's
reach. Every other property that holds in a run is a theorem. The five violated
properties have counterexamples, not proofs.

## Abstractions

* An event is its kind; redaction and the 64 KB limit change contents only.
* Serialisation does not fail. A repair record fits the empty buffer.
* A power loss keeps a prefix of the file; the directory entry of a new log is
  taken to survive.
* A recorder's row is in the log at once; a death takes a suffix of the rows
  since the last boundary. request/header is a row like thinking, so that a
  death may take more than it does in the code.
* The tokens of a call are 0 or 1. The bare-token count of a tool round is
  nonzero only when some call of the turn reported tokens.
* A compaction leaves between one turn and as many as it read.
* A delete removes the directory in one step.
* The Rewind of the terminal trims memory first and only logs a lock conflict;
  the desktop's returns the error. The model has both outcomes.

* Routines: the clock has steps, not seconds; a budget is a number of units. A
  mirrored placeholder sorts by its own start; the fallback to the present time,
  when its record cannot be read, is left out. The failure streak reads at most
  25 rows of the routine (`AUTO_PAUSE_RUN_SCAN`), the model all of them: the limit
  can only make a streak shorter and delay a pause, never earn one.
* MCP: an answer that is not read before the timeout stands for one that is never
  given. A result, an error and a cancellation are one answer whose caller then
  succeeds or fails. A stuck write goes through as a whole or fails. The requests
  of a server to its client are left out; their answers are written by the
  reader under the same stdin lock, and would be one more task to get stuck.
* Team: which agents are idle is open, so the heartbeat may claim for any. I/O on
  task files does not fail; a file being written in place may be read half
  written, and is then skipped. A task is created with blockers that exist.

## Not modelled

The repository has more than half a million lines, most of which are
presentation, request formatting, tool implementations, adapters to providers
and commands that call one of the parts above: they keep no state of their own
between calls that another actor can disturb, or they are I/O whose result is a
free choice in these models. The models therefore cover a small share of the
lines, those in which an order of steps can be wrong. Parts with control worth
a model that have none yet are in the plan; `PROJECT.json` gives the reason for
each component.

## Plan

1. `SessionSidecar`: `meta.json` and `curation.json`, merged and replaced without
   a lock by the goal, loop and title writers; lost updates and clearing; the
   shared temporary file of two listings.
2. The query engine's loop: tool round, malformed-call and truncation recovery,
   budgets, in-flight compaction, `AbortOnDrop`, composed with the recorder; file
   checkpoints beside the rewind.
3. Goals; mailboxes and disbanding of a team; remote MCP servers.
