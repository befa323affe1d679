--------------------------- MODULE SessionLogProofs ---------------------------
(***************************************************************************)
(* Proofs about SessionLog, for every value of its constants: the writer's *)
(* seq contract and the durability of what a sync has covered.             *)
(***************************************************************************)
EXTENDS SessionLog, TLAPS

(***************************************************************************)
(* The inductive invariant.  SeqContinuity is not inductive alone: a crash *)
(* cuts the log where the page cache ends, and a reopened writer resumes   *)
(* from the number of lines left, so the positions must be known to be     *)
(* ordered: synced lines within the page cache, the page cache within the  *)
(* bytes handed over, and nothing left in a buffer once the log is closed. *)
(***************************************************************************)
PositionsOrdered ==
    /\ 2 * durable <= pos
    /\ pos <= Total
    /\ writer = "closed" => pos = Total

LogInv == TypeOK /\ SeqContinuity /\ PositionsOrdered

-----------------------------------------------------------------------------
(* Lemmas about the operators. *)

\* Half-line positions: p lies in line LinesIn(p) + 1 or at its start.
LEMMA LinesInBounds ==
    ASSUME NEW p \in Nat
    PROVE  /\ LinesIn(p) \in Nat
           /\ 2 * LinesIn(p) <= p
           /\ p <= 2 * LinesIn(p) + 1
           /\ p % 2 \in {0, 1}
           /\ p = 2 * LinesIn(p) + (p % 2)
  <1>1. LinesIn(p) \in Nat /\ 2 * LinesIn(p) <= p /\ p <= 2 * LinesIn(p) + 1
    BY DEF LinesIn
  <1>2. p % 2 \in 0 .. 1
    OBVIOUS
  <1>3. p = 2 * LinesIn(p) + (p % 2)
    BY DEF LinesIn
  <1> QED
    BY <1>1, <1>2, <1>3

\* Cutting a log at a position keeps its leading lines and their seqs.
LEMMA CutLines ==
    ASSUME NEW l \in Seq(LineType), NEW n \in Nat, n <= Len(l)
    PROVE  /\ SubSeq(l, 1, n) \in Seq(LineType)
           /\ Len(SubSeq(l, 1, n)) = n
           /\ \A i \in 1 .. n : SubSeq(l, 1, n)[i] = l[i]
  OBVIOUS

\* What do_flush may leave behind.
LEMMA FlushResultsBounds ==
    ASSUME NEW from \in Nat, NEW end \in Nat, from <= end,
           NEW f \in FlushResults(from, end)
    PROVE  /\ f.pos \in Nat
           /\ from <= f.pos
           /\ f.pos <= end
           /\ f.fault \in Nat
           /\ f.fault = 0 => f.pos = end
  BY DEF FlushResults

\* What do_flush_durable may do after the drain.
LEMMA SyncResultsBounds ==
    ASSUME NEW p \in Nat, durable \in Nat, 2 * durable <= p,
           NEW s \in SyncResults(p)
    PROVE  /\ s.task \in Nat
           /\ s.fault \in Nat
           /\ s.durable \in Nat
           /\ durable <= s.durable
           /\ 2 * s.durable <= p
           /\ s.task = 0 /\ s.fault = 0 => s.durable = LinesIn(p)
  <1>1. LinesIn(p) \in Nat /\ 2 * LinesIn(p) <= p /\ p <= 2 * LinesIn(p) + 1
    BY LinesInBounds
  <1>2. durable <= LinesIn(p)
    BY <1>1
  <1> QED
    BY <1>1, <1>2 DEF SyncResults

-----------------------------------------------------------------------------
(* Initial states, and one lemma per action. *)

\* The invariant at the start.
LEMMA InitLogInv == Init => LogInv
  BY DEF Init, LogInv, TypeOK, SeqContinuity, PositionsOrdered, Total

\* Opening: the lines left are exactly those the resumed writer counts.
LEMMA OpenLogInv ==
    ASSUME LogInv, Open
    PROVE  LogInv' /\ KeepsSynced
  <1> USE DEF LogInv, TypeOK
  <1>1. LastTurn \in Nat
    <2>1. Len(log) > 0 => log[Len(log)] \in LineType
      OBVIOUS
    <2>2. Len(log) > 0 => log[Len(log)].turn \in Nat
      BY <2>1 DEF LineType
    <2> QED
      BY <2>2 DEF LastTurn
  <1>2. RepairLine \in LineType /\ RepairLine.seq = Len(log)
    BY <1>1 DEF RepairLine, LineType, Kinds
  <1>3. 2 * Len(log) <= pos /\ pos <= 2 * Len(log) + 1
    BY DEF Open, Locked, PositionsOrdered, Total
  <1>4. durable <= Len(log)
    BY <1>3 DEF PositionsOrdered
  <1>5. TypeOK'
    BY <1>1, <1>2 DEF Open
  <1>6. SeqContinuity'
    BY <1>2 DEF Open, SeqContinuity
  <1>7. PositionsOrdered'
    BY <1>3, <1>4 DEF Open, PositionsOrdered, Total
  <1>8. KeepsSynced
    BY <1>4 DEF Open, KeepsSynced
  <1> QED
    BY <1>5, <1>6, <1>7, <1>8

\* The part of a successful record that maybe_flush decides.
LEMMA MaybeFlushBounds ==
    ASSUME LogInv, NEW kind \in RecordedKinds, NEW at \in Spills,
           MaybeFlush(kind, at, 2 * Len(log) + 2)
    PROVE  /\ pos' \in Nat /\ durable' \in Nat /\ chunks' \in Nat
           /\ pending' \in Nat /\ faults' \in Nat
           /\ durable <= durable'
           /\ 2 * durable' <= pos'
           /\ pos' <= 2 * Len(log) + 2
  <1> USE DEF LogInv, TypeOK
  <1> DEFINE end == 2 * Len(log) + 2
  <1>1. at \in Nat /\ end \in Nat /\ pos <= at /\ at <= end /\ 2 * durable <= at
    BY DEF Spills, Total, PositionsOrdered
  <1>2. ASSUME NoFlush(at, chunks) \/ NoFlush(at, chunks + 1)
        PROVE  /\ pos' = at /\ durable' = durable /\ pending' = pending
               /\ faults' = faults /\ chunks' \in Nat
    BY <1>2 DEF NoFlush
  <1>3. ASSUME DoFlush(at, end)
        PROVE  /\ pos' \in Nat /\ at <= pos' /\ pos' <= end /\ durable' = durable
               /\ pending' = pending /\ faults' \in Nat /\ chunks' = 0
    BY <1>1, <1>3, FlushResultsBounds DEF DoFlush, Fault
  <1>4. ASSUME DoFlushDurable(at, end)
        PROVE  /\ pos' \in Nat /\ pos' <= end /\ durable' \in Nat /\ durable <= durable'
               /\ 2 * durable' <= pos' /\ pending' \in Nat /\ faults' \in Nat /\ chunks' = 0
    <2>1. PICK f \in FlushResults(at, end) : \E s \in SyncResults(f.pos) :
              /\ pos' = f.pos
              /\ durable' = s.durable
              /\ pending' = pending + s.task
              /\ Fault(f.fault + s.fault)
              /\ chunks' = 0
      BY <1>4 DEF DoFlushDurable
    <2>2. /\ f.pos \in Nat /\ at <= f.pos /\ f.pos <= end /\ f.fault \in Nat
      BY <1>1, FlushResultsBounds
    <2>3. 2 * durable <= f.pos
      BY <1>1, <2>2
    <2>4. PICK s \in SyncResults(f.pos) :
              /\ pos' = f.pos
              /\ durable' = s.durable
              /\ pending' = pending + s.task
              /\ Fault(f.fault + s.fault)
              /\ chunks' = 0
      BY <2>1
    <2>5. /\ s.task \in Nat /\ s.fault \in Nat /\ s.durable \in Nat
          /\ durable <= s.durable /\ 2 * s.durable <= f.pos
      BY <2>2, <2>3, SyncResultsBounds
    <2>6. faults' = faults + (f.fault + s.fault)
      BY <2>4 DEF Fault
    <2>7. pos' = f.pos /\ durable' = s.durable /\ pending' = pending + s.task /\ chunks' = 0
      BY <2>4
    <2>8. pending' \in Nat
      BY <2>5, <2>7
    <2>9. f.fault + s.fault \in Nat
      BY <2>2, <2>5
    <2>10. faults' \in Nat
      BY <2>6, <2>9
    <2> QED
      BY <2>2, <2>5, <2>7, <2>8, <2>10
  <1> QED
    BY <1>1, <1>2, <1>3, <1>4 DEF MaybeFlush

\* A record that is written.
LEMMA RecordOkLogInv ==
    ASSUME LogInv, NEW kind \in RecordedKinds, RecordOk(kind)
    PROVE  LogInv' /\ KeepsSynced
  <1> USE DEF LogInv, TypeOK
  <1>1. /\ pos' \in Nat /\ durable' \in Nat /\ chunks' \in Nat
        /\ pending' \in Nat /\ faults' \in Nat
        /\ durable <= durable'
        /\ 2 * durable' <= pos'
        /\ pos' <= 2 * Len(log) + 2
    BY MaybeFlushBounds DEF RecordOk
  <1> DEFINE line == [seq |-> nextSeq, turn |-> TurnOf(kind), kind |-> kind,
                      text |-> IF residue = 0 THEN "event" ELSE "garbled"]
  <1>2. TurnOf(kind) \in Nat
    BY DEF TurnOf
  <1>3. line \in LineType /\ line.seq = nextSeq
    BY <1>2 DEF LineType, Kinds
  <1>4. log' = Append(log, line) /\ writer = "open" /\ writer' = "open" /\ residue' = 0
        /\ nextSeq' = nextSeq + 1 /\ turn' = TurnOf(kind) /\ crashes' = crashes
    BY DEF RecordOk
  <1> HIDE DEF line
  <1>5. durable <= Len(log)
    BY DEF PositionsOrdered, Total
  <1>6. TypeOK'
    BY <1>1, <1>2, <1>3, <1>4
  <1>7. SeqContinuity'
    BY <1>3, <1>4 DEF SeqContinuity
  <1>8. PositionsOrdered'
    <2>1. Len(log') = Len(log) + 1
      BY <1>3, <1>4
    <2>2. Total' = 2 * Len(log) + 2
      BY <1>4, <2>1 DEF Total
    <2> QED
      BY <1>1, <1>4, <2>2 DEF PositionsOrdered
  <1>9. KeepsSynced
    BY <1>1, <1>4, <1>5 DEF KeepsSynced
  <1> QED
    BY <1>6, <1>7, <1>8, <1>9

\* A record whose write fails.
LEMMA RecordFailLogInv ==
    ASSUME LogInv, NEW kind \in RecordedKinds, RecordFail(kind)
    PROVE  LogInv' /\ KeepsSynced
  <1> USE DEF LogInv, TypeOK, RecordFail
  <1>1. TurnOf(kind) \in Nat
    BY DEF TurnOf
  <1>2. TypeOK'
    BY <1>1 DEF Fault, PositionsOrdered
  <1>3. SeqContinuity'
    BY DEF SeqContinuity
  <1>4. PositionsOrdered'
    BY <1>2 DEF PositionsOrdered, Total
  <1>5. KeepsSynced
    BY DEF KeepsSynced, PositionsOrdered, Total
  <1> QED
    BY <1>2, <1>3, <1>4, <1>5

\* A flush, whole or failing.
LEMMA FlushLogInv ==
    ASSUME LogInv, Flush
    PROVE  LogInv' /\ KeepsSynced
  <1> USE DEF LogInv, TypeOK, PositionsOrdered, Total
  <1>1. CASE FlushOk
    BY <1>1 DEF FlushOk, SeqContinuity, KeepsSynced
  <1>2. CASE FlushFail
    BY <1>2 DEF FlushFail, Fault, SeqContinuity, KeepsSynced
  <1> QED
    BY <1>1, <1>2 DEF Flush

\* A detached sync.
LEMMA SyncTaskLogInv ==
    ASSUME LogInv, SyncTask
    PROVE  LogInv' /\ KeepsSynced
  <1> USE DEF LogInv, TypeOK, PositionsOrdered, Total
  <1>1. Written \in Nat /\ 2 * Written <= pos /\ pos <= 2 * Written + 1
    BY LinesInBounds DEF Written
  <1>2. CASE SyncTaskOk
    BY <1>1, <1>2 DEF SyncTaskOk, SeqContinuity, KeepsSynced
  <1>3. CASE SyncTaskFail
    BY <1>3 DEF SyncTaskFail, Fault, SeqContinuity, KeepsSynced
  <1> QED
    BY <1>2, <1>3 DEF SyncTask

\* Close, crash and power loss all end a writer by cutting the log somewhere
\* at or after the last synced line.
LEMMA CutLogInv ==
    ASSUME LogInv, NEW p \in Nat, 2 * durable <= p, p <= Total, CutAt(p),
           writer' = "closed", durable' \in Nat, durable <= durable', 2 * durable' <= p,
           nextSeq' = nextSeq, turn' = turn, chunks' = chunks,
           pending' \in Nat, faults' \in Nat, crashes' \in Nat
    PROVE  LogInv' /\ KeepsSynced
  <1> USE DEF LogInv, TypeOK
  <1> DEFINE n == LinesIn(p)
  <1>1. n \in Nat /\ 2 * n <= p /\ p <= 2 * n + 1 /\ p % 2 \in {0, 1} /\ p = 2 * n + (p % 2)
    BY LinesInBounds
  <1> HIDE DEF n
  <1>2. n <= Len(log) /\ durable <= n
    BY <1>1 DEF Total
  <1>3. pos' = p /\ log' = SubSeq(log, 1, n) /\ residue' = p % 2
    BY DEF CutAt, n
  <1>4. log' \in Seq(LineType) /\ Len(log') = n /\ \A i \in 1 .. n : log'[i] = log[i]
    BY <1>1, <1>2, <1>3, CutLines
  <1>5. TypeOK'
    BY <1>1, <1>3, <1>4
  <1>6. SeqContinuity'
    <2>1. \A i \in 1 .. Len(log') : log'[i].seq = i - 1
      BY <1>1, <1>2, <1>4 DEF SeqContinuity
    <2> QED
      BY <2>1 DEF SeqContinuity
  <1>7. PositionsOrdered'
    <2>1. Total' = p
      BY <1>1, <1>3, <1>4 DEF Total
    <2>2. pos' = p
      BY <1>3
    <2>3. 2 * durable' <= pos'
      BY <2>2
    <2>4. pos' <= Total'
      BY <2>1, <2>2
    <2>5. pos' = Total'
      BY <2>1, <2>2
    <2> QED
      BY <2>3, <2>4, <2>5 DEF PositionsOrdered
  <1>8. KeepsSynced
    BY <1>1, <1>2, <1>4 DEF KeepsSynced
  <1> QED
    BY <1>5, <1>6, <1>7, <1>8

\* A close, whole or failing.
LEMMA CloseLogInv ==
    ASSUME LogInv, Close
    PROVE  LogInv' /\ KeepsSynced
  <1>1. /\ Total \in Nat /\ 2 * durable <= Total /\ 2 * Len(log) <= Total
        /\ durable <= Len(log) /\ Len(log) \in Nat
    BY DEF LogInv, TypeOK, PositionsOrdered, Total
  <1>2. CASE CloseOk
    BY <1>1, <1>2, CutLogInv DEF CloseOk, LogInv, TypeOK
  <1>3. CASE CloseFail
    <2>1. PICK p \in pos .. Total : CutAt(p)
      BY <1>3 DEF CloseFail
    <2>2. p \in Nat /\ 2 * durable <= p /\ p <= Total
      BY <1>1 DEF LogInv, TypeOK, PositionsOrdered
    <2> QED
      BY <1>3, <2>1, <2>2, CutLogInv DEF CloseFail, Fault, LogInv, TypeOK
  <1> QED
    BY <1>2, <1>3 DEF Close

\* A death of the process or of the machine.
LEMMA CrashLogInv ==
    ASSUME LogInv, Crash \/ PowerLoss
    PROVE  LogInv' /\ KeepsSynced
  <1>1. PICK p \in (2 * durable .. pos) \cup (pos .. Total) : CutAt(p)
    BY DEF Crash, PowerLoss
  <1>2. p \in Nat /\ 2 * durable <= p /\ p <= Total
    BY DEF LogInv, TypeOK, PositionsOrdered, Total
  <1> QED
    BY <1>1, <1>2, CutLogInv DEF Crash, PowerLoss, LogInv, TypeOK

\* Every step keeps the invariant.
LEMMA NextLogInv ==
    ASSUME LogInv, [Next]_vars
    PROVE  LogInv' /\ (UNCHANGED vars \/ KeepsSynced)
  <1>1. CASE UNCHANGED vars
    BY <1>1 DEF vars, LogInv, TypeOK, SeqContinuity, PositionsOrdered, Total
  <1> QED
    BY <1>1, OpenLogInv, RecordOkLogInv, RecordFailLogInv, FlushLogInv, SyncTaskLogInv,
       CloseLogInv, CrashLogInv DEF Next, Record

-----------------------------------------------------------------------------
(* Theorems. *)

\* The inductive invariant holds of every behaviour of the writer.
THEOREM LogInvariant == Spec => []LogInv
  <1>1. Init => LogInv
    BY InitLogInv
  <1>2. LogInv /\ [Next]_vars => LogInv'
    BY NextLogInv
  <1> QED
    BY <1>1, <1>2, PTL DEF Spec

\* The variables stay in their ranges.
THEOREM TypeCorrect == Spec => []TypeOK
  BY LogInvariant, PTL DEF LogInv

\* "seq = events written" holds across failed writes, crashes and reopens.
THEOREM SeqContinuous == Spec => []SeqContinuity
  BY LogInvariant, PTL DEF LogInv

\* A synced line is never lost or altered, whatever fails or dies.
THEOREM DurableLinesStay == Spec => DurablePrefix
  <1>1. LogInv /\ [Next]_vars => [KeepsSynced]_vars
    BY NextLogInv
  <1> QED
    BY <1>1, LogInvariant, PTL DEF Spec, DurablePrefix
=============================================================================
