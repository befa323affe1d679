------------------------------ MODULE SessionLog ------------------------------
(***************************************************************************)
(* The append-only event log of one session (events.jsonl) and the         *)
(* exclusive writer that grows it: SessionLogWriter of                     *)
(* crates/shannon-core/src/session_log/writer.rs.                          *)
(*                                                                         *)
(* The bytes of the file are abstracted to half lines: position 2*i is the *)
(* byte after the newline of line i, position 2*i + 1 any byte inside      *)
(* line i + 1.  `log' holds every complete line handed to the writer;      *)
(* `pos' is how far the page cache has got (the rest is in the BufWriter), *)
(* `durable' how many lines an fdatasync has covered.  `residue' says that *)
(* an unfinished write left bytes of its line, without the newline, behind *)
(* the last line.  Opening cuts them off; a line written by the same       *)
(* writer is glued to them and no longer parses.                           *)
(***************************************************************************)
EXTENDS Integers, Sequences, FiniteSets

CONSTANTS
    ChunkFlushCount,  \* FlushPolicy::chunk_count
    MaxLines,         \* bound: lines a behaviour may record
    MaxFaults,        \* bound: I/O failures in a behaviour
    MaxCrashes,       \* bound: process deaths and power losses in a behaviour
    PowerLossPossible \* whether the machine, not only the process, may die

ASSUME ChunkFlushAssumption == ChunkFlushCount \in Nat \ {0}
ASSUME BoundsAssumption ==
    /\ MaxLines \in Nat
    /\ MaxFaults \in Nat
    /\ MaxCrashes \in Nat
ASSUME PowerLossAssumption == PowerLossPossible \in BOOLEAN

(***************************************************************************)
(* What the writer tells apart about an event: the replay-safe boundaries  *)
(* (tool/result, turn/end, request/header), the assistant/chunk rows, the  *)
(* turn/start row that advances the turn, the repair record of a recovered *)
(* tail, everything else.                                                  *)
(***************************************************************************)
RecordedKinds == {"boundary", "chunk", "turn_start", "other"}
Kinds == RecordedKinds \cup {"repair"}

LineType == [seq : Nat, turn : Nat, kind : Kinds, text : {"event", "garbled"}]

VARIABLES
    log,      \* complete lines handed to the writer, in file order
    residue,  \* 1 when unterminated bytes of an unfinished write follow the last
              \* line, else 0
    pos,      \* page-cache length of the file, in half lines
    durable,  \* lines covered by a completed sync_data
    writer,   \* "open" while a SessionLogWriter lives, else "closed"
    nextSeq,  \* SessionLogWriter::next_seq
    turn,     \* SessionLogWriter::current_turn
    chunks,   \* SessionLogWriter::chunk_since_flush
    pending,  \* boundary syncs handed to the blocking pool, not yet run
    faults,   \* failures counted by the writers so far
    crashes   \* process deaths so far

vars == <<log, residue, pos, durable, writer, nextSeq, turn, chunks, pending,
          faults, crashes>>

-----------------------------------------------------------------------------
(* Positions. *)

Total == 2 * Len(log) + residue

\* Complete lines below position p: what a reader, or a recovery scan, sees.
LinesIn(p) == p \div 2

Written == LinesIn(pos)

\* The flock belongs to the open file description, which every outstanding
\* sync task keeps alive through the fd it cloned.
Locked == writer = "open" \/ pending > 0

Init ==
    /\ log = <<>>
    /\ residue = 0
    /\ pos = 0
    /\ durable = 0
    /\ writer = "closed"
    /\ nextSeq = 0
    /\ turn = 0
    /\ chunks = 0
    /\ pending = 0
    /\ faults = 0
    /\ crashes = 0

Fault(n) ==
    /\ faults + n <= MaxFaults
    /\ faults' = faults + n

-----------------------------------------------------------------------------
(* Opening. *)

\* Broken: a reopened writer starts again at turn 0.
LastTurnForgotten == 0

\* scan_tail: the turn of the last complete event, 0 when there is none or it
\* does not parse.
LastTurn ==
    IF Len(log) > 0 /\ log[Len(log)].text = "event" THEN log[Len(log)].turn ELSE 0

\* The log-corruption record that open_path appends after it cut a torn tail.
RepairLine == [seq |-> Len(log), turn |-> LastTurn, kind |-> "repair", text |-> "event"]

\* Broken: the torn tail is not cut off.
OpenKeepingTail ==
    /\ ~Locked
    /\ writer' = "open"
    /\ turn' = LastTurn
    /\ chunks' = 0
    /\ nextSeq' = Len(log)
    /\ UNCHANGED <<log, residue, pos, durable, pending, faults, crashes>>

\* Broken: the log is cut back to what is synced, not to what is complete.
OpenCuttingUnsynced ==
    /\ ~Locked
    /\ writer' = "open"
    /\ turn' = LastTurn
    /\ chunks' = 0
    /\ pos' = 2 * durable
    /\ residue' = 0
    /\ log' = SubSeq(log, 1, durable)
    /\ nextSeq' = durable
    /\ UNCHANGED <<durable, pending, faults, crashes>>

\* open_path: take the flock, truncate back to the last complete line, resume
\* the counters.  The repair record fits the empty buffer and is not a kind
\* that is flushed.
Open ==
    /\ ~Locked
    /\ writer' = "open"
    /\ turn' = LastTurn
    /\ chunks' = 0
    /\ pos' = 2 * Len(log)
    /\ residue' = 0
    /\ log' = IF residue = 1 THEN Append(log, RepairLine) ELSE log
    /\ nextSeq' = Len(log')
    /\ UNCHANGED <<durable, pending, faults, crashes>>

-----------------------------------------------------------------------------
(* Recording. *)

TurnOf(kind) == IF kind = "turn_start" THEN turn + 1 ELSE turn

\* Where a successful BufWriter write of one line and its newline may leave
\* the page cache: untouched, with the older buffer spilled to make room, or
\* with all but the newline written.
Spills == {pos, Total, 2 * Len(log) + 1}

\* flush: everything up to `end', or a failure after some of it.
FlushResults(from, end) ==
    {[pos |-> end, fault |-> 0]} \cup
    {[pos |-> q, fault |-> 1] : q \in from .. (end - 1)}

\* The sync after a boundary, the page cache at p: a task of the blocking
\* pool; without a runtime, sync_data inline; or the clone or the inline sync
\* fails.
SyncResults(p) ==
    {[task |-> 1, durable |-> durable, fault |-> 0],
     [task |-> 0, durable |-> LinesIn(p), fault |-> 0],
     [task |-> 0, durable |-> durable, fault |-> 1]}

NoFlush(at, count) ==
    /\ pos' = at
    /\ chunks' = count
    /\ UNCHANGED <<durable, pending, faults>>

\* do_flush
DoFlush(at, end) ==
    \E f \in FlushResults(at, end) :
        /\ pos' = f.pos
        /\ Fault(f.fault)
        /\ chunks' = 0
        /\ UNCHANGED <<durable, pending>>

\* Broken: a boundary is drained but no sync is issued.
DoFlushUnsynced(at, end) == DoFlush(at, end)

\* do_flush_durable: the drain is synchronous, and the sync is issued even
\* when the drain failed.
DoFlushDurable(at, end) ==
    \E f \in FlushResults(at, end) : \E s \in SyncResults(f.pos) :
        /\ pos' = f.pos
        /\ durable' = s.durable
        /\ pending' = pending + s.task
        /\ Fault(f.fault + s.fault)
        /\ chunks' = 0

\* Broken: the count is compared before this chunk is counted.
MaybeFlushLate(kind, at, end) ==
    \/ kind = "boundary" /\ DoFlushDurable(at, end)
    \/ kind = "chunk" /\ DoFlush(at, end)
    \/ kind = "chunk" /\ chunks < ChunkFlushCount /\ NoFlush(at, chunks + 1)
    \/ kind \in {"turn_start", "other"} /\ NoFlush(at, chunks)

\* maybe_flush.  A chunk is flushed by count, or because chunk_interval passed
\* since the last flush, which may be true of any chunk.
MaybeFlush(kind, at, end) ==
    \/ kind = "boundary" /\ DoFlushDurable(at, end)
    \/ kind = "chunk" /\ DoFlush(at, end)
    \/ kind = "chunk" /\ chunks + 1 < ChunkFlushCount /\ NoFlush(at, chunks + 1)
    \/ kind \in {"turn_start", "other"} /\ NoFlush(at, chunks)

\* record, the write succeeded.
RecordOk(kind) ==
    /\ writer = "open"
    /\ Len(log) < MaxLines
    /\ turn' = TurnOf(kind)
    /\ log' = Append(log, [seq |-> nextSeq, turn |-> TurnOf(kind),
                           kind |-> kind, text |-> IF residue = 0 THEN "event" ELSE "garbled"])
    /\ residue' = 0
    /\ nextSeq' = nextSeq + 1
    /\ \E at \in Spills : MaybeFlush(kind, at, 2 * Len(log) + 2)
    /\ UNCHANGED <<writer, crashes>>

\* Broken: a dropped event consumes its seq.
RecordFailConsuming(kind) ==
    /\ writer = "open"
    /\ Len(log) < MaxLines
    /\ Fault(1)
    /\ turn' = TurnOf(kind)
    /\ nextSeq' = nextSeq + 1
    /\ residue' \in {residue, 1}
    /\ pos' \in pos .. (2 * Len(log) + residue')
    /\ UNCHANGED <<log, durable, writer, chunks, pending, crashes>>

\* record, the write failed: the event is dropped and its seq reused, but the
\* turn has advanced, and what reached the buffer or the file of the line, or
\* of the older buffer spilled before it, stays.
RecordFail(kind) ==
    /\ writer = "open"
    /\ Len(log) < MaxLines
    /\ Fault(1)
    /\ turn' = TurnOf(kind)
    /\ residue' \in {residue, 1}
    /\ pos' \in pos .. (2 * Len(log) + residue')
    /\ UNCHANGED <<log, durable, writer, nextSeq, chunks, pending, crashes>>

Record == \E kind \in RecordedKinds : RecordOk(kind) \/ RecordFail(kind)

-----------------------------------------------------------------------------
(* Explicit flush, the detached syncs, close. *)

\* flush: drain, then sync_data inline; the first error returns.
FlushOk ==
    /\ writer = "open"
    /\ pos' = Total
    /\ durable' = Len(log)
    /\ chunks' = 0
    /\ UNCHANGED <<log, residue, writer, nextSeq, turn, pending, faults, crashes>>

FlushFail ==
    /\ writer = "open"
    /\ Fault(1)
    /\ pos' \in pos .. Total
    /\ UNCHANGED <<log, residue, durable, writer, nextSeq, turn, chunks, pending, crashes>>

Flush == FlushOk \/ FlushFail

\* Broken: a task that was never spawned reports back.
SyncTaskUnspawned ==
    /\ pending' = pending - 1
    /\ durable' = Written
    /\ UNCHANGED <<log, residue, pos, writer, nextSeq, turn, chunks, faults, crashes>>

\* Broken: lines still in the buffer count as synced.
SyncTaskCountingBuffer ==
    /\ pending > 0
    /\ pending' = pending - 1
    /\ durable' = Len(log)
    /\ UNCHANGED <<log, residue, pos, writer, nextSeq, turn, chunks, faults, crashes>>

\* Broken: the task ends without syncing.
SyncTaskSkipped ==
    /\ pending > 0
    /\ pending' = pending - 1
    /\ UNCHANGED <<log, residue, pos, durable, writer, nextSeq, turn, chunks, faults, crashes>>

\* Broken: the cloned fd is never dropped.
SyncTaskLeakingFd ==
    /\ pending > 0
    /\ durable' = Written
    /\ UNCHANGED <<log, residue, pos, writer, nextSeq, turn, chunks, pending, faults, crashes>>

\* The closure given to spawn_blocking: one sync_data of the whole file, then
\* the cloned fd is dropped.
SyncTaskOk ==
    /\ pending > 0
    /\ pending' = pending - 1
    /\ durable' = Written
    /\ UNCHANGED <<log, residue, pos, writer, nextSeq, turn, chunks, faults, crashes>>

SyncTaskFail ==
    /\ pending > 0
    /\ pending' = pending - 1
    /\ Fault(1)
    /\ UNCHANGED <<log, residue, pos, durable, writer, nextSeq, turn, chunks, crashes>>

SyncTask == SyncTaskOk \/ SyncTaskFail

\* What is left in the file when nobody holds bytes beyond position p.
CutAt(p) ==
    /\ pos' = p
    /\ log' = SubSeq(log, 1, LinesIn(p))
    /\ residue' = p % 2

\* close.  When its flush fails, dropping the BufWriter tries once more and
\* swallows the error.
CloseOk ==
    /\ writer = "open"
    /\ CutAt(Total)
    /\ durable' = Len(log)
    /\ writer' = "closed"
    /\ UNCHANGED <<nextSeq, turn, chunks, pending, faults, crashes>>

CloseFail ==
    /\ writer = "open"
    /\ Fault(1)
    /\ \E p \in pos .. Total : CutAt(p)
    /\ writer' = "closed"
    /\ UNCHANGED <<durable, nextSeq, turn, chunks, pending, crashes>>

Close == CloseOk \/ CloseFail

-----------------------------------------------------------------------------
(* The environment. *)

\* The process dies, possibly inside a write: the buffer and the outstanding
\* sync tasks are gone, the page cache survives.
Crash ==
    /\ Locked
    /\ crashes < MaxCrashes
    /\ crashes' = crashes + 1
    /\ \E p \in pos .. Total : CutAt(p)
    /\ writer' = "closed"
    /\ pending' = 0
    /\ UNCHANGED <<durable, nextSeq, turn, chunks, faults>>

\* The machine dies: of what was not synced any suffix may be missing.
PowerLoss ==
    /\ PowerLossPossible
    /\ crashes < MaxCrashes
    /\ crashes' = crashes + 1
    /\ \E p \in 2 * durable .. pos : CutAt(p)
    /\ writer' = "closed"
    /\ pending' = 0
    /\ UNCHANGED <<durable, nextSeq, turn, chunks, faults>>

Next == Open \/ Record \/ Flush \/ SyncTask \/ Close \/ Crash \/ PowerLoss

\* The blocking pool runs every task it accepted while the process lives.
Fairness == WF_vars(SyncTask)

Spec == Init /\ [][Next]_vars /\ Fairness

-----------------------------------------------------------------------------
(* Properties. *)

\* The variables of the log and of its writer stay in their ranges.
TypeOK ==
    /\ log \in Seq(LineType)
    /\ residue \in {0, 1}
    /\ pos \in Nat
    /\ durable \in Nat
    /\ writer \in {"open", "closed"}
    /\ nextSeq \in Nat
    /\ turn \in Nat
    /\ chunks \in Nat
    /\ pending \in Nat
    /\ faults \in Nat
    /\ crashes \in Nat

\* "seq = events written": across failed writes, crashes in the middle of a
\* line, repairs and reopens, line i carries seq i - 1, and an open writer is
\* about to use the number of lines it has handed out.
SeqContinuity ==
    /\ \A i \in 1 .. Len(log) : log[i].seq = i - 1
    /\ writer = "open" => nextSeq = Len(log)

\* "Durability at boundaries": a tool/result, turn/end or request/header row
\* that no sync has covered has a sync outstanding, or a failure was counted,
\* or the process died.
BoundaryDurable ==
    (\E i \in 1 .. Len(log) : i > durable /\ log[i].kind = "boundary")
        => pending > 0 \/ faults > 0 \/ crashes > 0

\* The aggregation of assistant/chunk rows holds back fewer than
\* ChunkFlushCount of them from the page cache while no flush has failed.
ChunksBounded ==
    writer = "open" /\ faults = 0 =>
        Cardinality({i \in (Written + 1) .. Len(log) : log[i].kind = "chunk"})
            < ChunkFlushCount

\* The envelope turn never goes back along a log whose lines all parse: it is
\* resumed from the last complete line after every crash and reopen.
TurnMonotone ==
    (\A i \in 1 .. Len(log) : log[i].text = "event") =>
        /\ \A i \in 1 .. (Len(log) - 1) : log[i].turn <= log[i + 1].turn
        /\ writer = "open" /\ Len(log) > 0 => log[Len(log)].turn <= turn

\* A record of a repaired tail follows the lines that were cut back to, so no
\* line is glued to torn bytes by a crash alone: every line parses as long as
\* no write has failed.
CrashKeepsLinesParsing ==
    faults = 0 => \A i \in 1 .. Len(log) : log[i].text = "event"

\* What a step owes to the lines already synced.
KeepsSynced ==
    /\ durable <= durable'
    /\ durable <= Len(log')
    /\ \A i \in 1 .. durable : log'[i] = log[i]

\* No step loses or alters a line that a sync has covered, whatever crashes.
DurablePrefix == [][KeepsSynced]_vars

Promise == INSTANCE DurableLog
             WITH lines <- log, kept <- durable, owner <- writer

\* The writer, with its buffer, its detached syncs, its failures and its
\* recovery, implements the numbered log of DurableLog: a line once handed over
\* is lost only with its writer, from the end, and not once it is synced; a
\* reopening loses nothing and adds at most the record of a repair.
ImplementsDurableLog == Promise!Spec

\* Every boundary row gets durable, unless a failure is counted or the process
\* dies first.
BoundaryEventuallyDurable ==
    \A i \in 1 .. MaxLines :
        (i <= Len(log) /\ log[i].kind = "boundary")
            ~> (durable >= i \/ faults > 0 \/ crashes > 0)

\* The flock of a closed log is released once the detached syncs have run, so
\* that the next query can open the log again.
LockEventuallyFree == writer = "closed" ~> ~Locked
=============================================================================
