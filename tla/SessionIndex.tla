----------------------------- MODULE SessionIndex -----------------------------
(***************************************************************************)
(* The index.json sidecar of a session log (session_index.rs) beside its   *)
(* two producers: the writer, which feeds an accumulator event by event    *)
(* and publishes it when it closes, and SessionStore::list, which reads    *)
(* the log without any lock and publishes what it folded.  The module adds *)
(* the sidecar's state to SessionLog: every step of the log is a step of   *)
(* SessionLog joined with what it does to the accumulator and the sidecar. *)
(*                                                                         *)
(* Of the stats, the number of events and the number of turn/start rows    *)
(* are kept: they tell apart a fold over all lines from one over some.     *)
(***************************************************************************)
EXTENDS SessionLog

VARIABLES
    clock,   \* the file system's clock; a tick may cover several writes
    mtime,   \* modification time of events.jsonl
    acc,     \* SessionLogWriter::index_acc
    index,   \* index.json, or NoIndex
    lister,  \* where a SessionStore::list is with this session
    lossy    \* times the power was lost (history)

sideVars == <<clock, mtime, acc, index, lister, lossy>>
allVars == <<vars, sideVars>>

NoIndex == [len |-> -1, mtime |-> -1, count |-> 0, turns |-> 0]
Fresh == [count |-> 0, turns |-> 0, whole |-> TRUE]

\* SessionIndexAccumulator::observe
Observe(a, line) ==
    [a EXCEPT !.count = @ + 1,
              !.turns = IF line.kind = "turn_start" THEN @ + 1 ELSE @]

\* SessionIndexAccumulator::finish against a stat of the log.
Finish(a, len, mt) == [len |-> len, mtime |-> mt, count |-> a.count, turns |-> a.turns]

\* SessionIndex::load_if_valid with the log at length len and time mt.
ValidFor(len, mt) == index # NoIndex /\ index.len = len /\ index.mtime = mt

\* A fresh fold over the first n lines.
Fold(n) == [Fresh EXCEPT !.count = n,
                         !.turns = Cardinality({i \in 1 .. n : log[i].kind = "turn_start"})]

\* Broken: the time is rounded up to the next tick.
TouchAhead ==
    IF pos' # pos
    THEN clock' \in {clock, clock + 1} /\ mtime' = clock' + 1
    ELSE UNCHANGED <<clock, mtime>>

\* A step that changes the file stamps it with the time.
Touch ==
    IF pos' # pos
    THEN clock' \in {clock, clock + 1} /\ mtime' = clock'
    ELSE UNCHANGED <<clock, mtime>>

\* The empty file exists: opening it, for writing or for a rewrite, creates it.
IInit ==
    /\ Init
    /\ clock = 0
    /\ mtime = 0
    /\ acc = Fresh
    /\ index = NoIndex
    /\ lister = [at |-> "idle"]
    /\ lossy = 0

-----------------------------------------------------------------------------
(* Steps of the writer. *)

\* Broken: an unseeded accumulator is taken for a whole one.
SeedUnmarked ==
    IF ValidFor(2 * Len(log), mtime') /\ index.count = Len(log)
    THEN [count |-> index.count, turns |-> index.turns, whole |-> TRUE]
    ELSE Fresh

\* open_path seeds the accumulator after it cut the tail: from an index over
\* exactly the lines that are left, from nothing for an empty log; otherwise
\* the base is partial.
Seed ==
    IF ValidFor(2 * Len(log), mtime') /\ index.count = Len(log)
    THEN [count |-> index.count, turns |-> index.turns, whole |-> TRUE]
    ELSE [Fresh EXCEPT !.whole = (Len(log) = 0)]

IOpen ==
    /\ Open
    /\ Touch
    /\ acc' = IF residue = 1 THEN Observe(Seed, RepairLine) ELSE Seed
    /\ UNCHANGED <<index, lister, lossy>>

IRecordOk ==
    /\ \E kind \in RecordedKinds : RecordOk(kind)
    /\ Touch
    /\ acc' = Observe(acc, log'[Len(log')])
    /\ UNCHANGED <<index, lister, lossy>>

\* Steps that may write to the file but leave the sidecar alone.
IQuiet ==
    /\ \/ \E kind \in RecordedKinds : RecordFail(kind)
       \/ Flush
       \/ SyncTask
       \/ CloseFail
       \/ Crash
    /\ Touch
    /\ UNCHANGED <<acc, index, lister, lossy>>

\* close: flush, then publish; a failed store of the sidecar is only logged.
ICloseOk ==
    /\ CloseOk
    /\ Touch
    /\ index' \in {index} \cup (IF acc.whole THEN {Finish(acc, pos', mtime')} ELSE {})
    /\ UNCHANGED <<acc, lister, lossy>>

\* The sidecar is fsynced when it is stored, the log's length and time are
\* not: they may come back as they once were.  The clock has moved on.
IPowerLoss ==
    /\ PowerLoss
    /\ mtime' \in 0 .. mtime
    /\ clock' = clock + 1
    /\ lister' = [at |-> "idle"]
    /\ lossy' = lossy + 1
    /\ UNCHANGED <<acc, index>>

-----------------------------------------------------------------------------
(* SessionStore::list, which takes no lock. *)

\* info_from_index failed; pre_stat.
ListStat ==
    /\ lister.at = "idle"
    /\ ~ValidFor(pos, mtime)
    /\ lister' = [at |-> "stated", len |-> pos, mtime |-> mtime]
    /\ UNCHANGED <<vars, clock, mtime, acc, index, lossy>>

\* read_events fails at the first complete line that does not parse, and the
\* error ends the whole list.
ListFails == \E i \in 1 .. Written : log[i].text # "event"

\* read_events of every complete line in the page cache.
ListRead ==
    /\ lister.at = "stated"
    /\ lister' = IF ListFails
                 THEN [at |-> "idle"]
                 ELSE [at |-> "read", index |-> Finish(Fold(Written), lister.len, lister.mtime)]
    /\ UNCHANGED <<vars, clock, mtime, acc, index, lossy>>

\* Broken: the log is stated after it was read.
ListStoreStatedLate ==
    /\ lister.at = "read"
    /\ index' \in {index, [lister.index EXCEPT !.len = pos, !.mtime = mtime]}
    /\ lister' = [at |-> "idle"]
    /\ UNCHANGED <<vars, clock, mtime, acc, lossy>>

\* rebuild_index, best effort.
ListStore ==
    /\ lister.at = "read"
    /\ index' \in {index, lister.index}
    /\ lister' = [at |-> "idle"]
    /\ UNCHANGED <<vars, clock, mtime, acc, lossy>>

INext ==
    \/ IOpen \/ IRecordOk \/ IQuiet \/ ICloseOk \/ IPowerLoss
    \/ ListStat \/ ListRead \/ ListStore

ISpec == IInit /\ [][INext]_allVars

-----------------------------------------------------------------------------
(* Properties. *)

Stats == [len : Nat \cup {-1}, mtime : Nat \cup {-1}, count : Nat, turns : Nat]

\* The sidecar's variables stay in their ranges.
ITypeOK ==
    /\ TypeOK
    /\ clock \in Nat
    /\ mtime \in 0 .. clock
    /\ acc \in [count : Nat, turns : Nat, whole : BOOLEAN]
    /\ index \in Stats
    /\ lossy \in Nat
    /\ lister \in [at : {"idle"}]
                  \cup [at : {"stated"}, len : Nat, mtime : Nat]
                  \cup [at : {"read"}, index : Stats]

\* What a list that does not trust the sidecar answers is the fold over the
\* lines in the page cache, when it gets to answer at all.
Covers == index.count = Fold(Written).count /\ index.turns = Fold(Written).turns

\* "The two paths can never disagree" (list's own comment): they do in two
\* cases, and only in these.  A sidecar that validates is what a rebuild would
\* give, although it may come from a list that raced the writer, from a crash
\* or a repaired tail; or a counted write failure has glued two lines, at which
\* the rebuild fails and every list of the container with it, while the sidecar
\* counts them; or the power was lost after the sidecar was synced and before
\* the log was, and the file came back with its old length and time but not
\* with its lines.
IndexFaithful ==
    lossy <= 1 /\ ValidFor(pos, mtime) =>
        \/ Covers /\ ~ListFails
        \/ Covers /\ ListFails /\ faults > 0
        \/ index.count > Written /\ lossy = 1

\* "Never partial": an accumulator that will be published has seen every line
\* of the log, the ones before this writer included.  One power loss does not
\* change that: an index of lines that are gone carries an earlier time than
\* whatever replaces them.  A second one may bring that time back.
AccumulatorWhole ==
    lossy <= 1 /\ writer = "open" /\ acc.whole =>
        /\ acc.count = Len(log)
        /\ acc.turns = Fold(Len(log)).turns
=============================================================================
