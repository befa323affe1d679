------------------------- MODULE SessionLogDurability -------------------------
(***************************************************************************)
(* Further proofs about SessionLog: durability at boundaries, lines that   *)
(* parse after every crash, the order of the turns, the chunks held back,  *)
(* and that the writer implements DurableLog.  Each property gets the      *)
(* strengthening that a step preserves, on top of LogInv.                  *)
(***************************************************************************)
EXTENDS SessionLogProofs, FiniteSetTheorems

Boundary(i) == log[i].kind = "boundary"

\* Without a failure or a death every boundary row is out of the buffer, so the
\* sync that a task issues later covers it.
Drained ==
    faults = 0 /\ crashes = 0 =>
        /\ \A i \in 1 .. Len(log) : Boundary(i) => 2 * i <= pos
        /\ (\E i \in 1 .. Len(log) : durable < i /\ Boundary(i)) => pending > 0

\* Without a failure an open writer has no torn bytes before it.
Intact ==
    faults = 0 =>
        /\ \A i \in 1 .. Len(log) : log[i].text = "event"
        /\ writer = "open" => residue = 0

ParsesTo(n) == \A j \in 1 .. n : log[j].text = "event"

\* The turns are ordered along every leading part of the log that parses: a cut
\* may remove the garbled line that excused the rest.
Ordered ==
    /\ \A i \in 1 .. (Len(log) - 1) : ParsesTo(i + 1) => log[i].turn <= log[i + 1].turn
    /\ writer = "open" /\ Len(log) > 0 /\ ParsesTo(Len(log)) => log[Len(log)].turn <= turn

DurabilityInv == LogInv /\ Drained /\ Intact /\ Ordered

-----------------------------------------------------------------------------
(* Facts about single steps. *)

\* A cut keeps a leading part of the log.
LEMMA CutPrefix ==
    ASSUME LogInv, NEW p \in Nat, p <= Total, CutAt(p)
    PROVE  /\ Len(log') <= Len(log)
           /\ \A i \in 1 .. Len(log') : log'[i] = log[i]
  <1> DEFINE n == LinesIn(p)
  <1>1. n \in Nat /\ 2 * n <= p
    BY LinesInBounds
  <1>2. log' = SubSeq(log, 1, n)
    BY DEF CutAt
  <1> HIDE DEF n
  <1>3. log \in Seq(LineType) /\ n <= Len(log)
    BY <1>1 DEF LogInv, TypeOK, Total
  <1> QED
    BY <1>1, <1>2, <1>3, CutLines

\* Every step that ends a writer cuts the log.
LEMMA EndCuts ==
    ASSUME LogInv, Close \/ Crash \/ PowerLoss
    PROVE  /\ Len(log') <= Len(log)
           /\ \A i \in 1 .. Len(log') : log'[i] = log[i]
           /\ writer' = "closed"
  <1>1. Total \in Nat /\ pos \in Nat /\ durable \in Nat /\ pos <= Total
    BY DEF LogInv, TypeOK, PositionsOrdered, Total
  <1>2. PICK p \in (2 * durable .. pos) \cup (pos .. Total) \cup {Total} : CutAt(p)
    BY DEF Close, CloseOk, CloseFail, Crash, PowerLoss
  <1>3. p \in Nat /\ p <= Total
    BY <1>1
  <1>4. writer' = "closed"
    BY DEF Close, CloseOk, CloseFail, Crash, PowerLoss
  <1> QED
    BY <1>2, <1>3, <1>4, CutPrefix

\* The line a successful record appends.
LEMMA RecordAppends ==
    ASSUME LogInv, NEW kind \in RecordedKinds, RecordOk(kind)
    PROVE  /\ Len(log') = Len(log) + 1
           /\ \A i \in 1 .. Len(log) : log'[i] = log[i]
           /\ log'[Len(log) + 1].kind = kind
           /\ log'[Len(log) + 1].turn = turn'
           /\ residue = 0 => log'[Len(log) + 1].text = "event"
           /\ turn' \in Nat /\ turn <= turn'
  <1> DEFINE line == [seq |-> nextSeq, turn |-> TurnOf(kind), kind |-> kind,
                      text |-> IF residue = 0 THEN "event" ELSE "garbled"]
  <1>1. log' = Append(log, line) /\ turn' = TurnOf(kind)
    BY DEF RecordOk
  <1>2. line.kind = kind /\ line.turn = TurnOf(kind) /\ (residue = 0 => line.text = "event")
    OBVIOUS
  <1> HIDE DEF line
  <1>3. log \in Seq(LineType) /\ turn \in Nat
    BY DEF LogInv, TypeOK
  <1>4. TurnOf(kind) \in Nat /\ turn <= TurnOf(kind)
    BY <1>3 DEF TurnOf
  <1>5. /\ Len(log') = Len(log) + 1
        /\ \A i \in 1 .. Len(log) : log'[i] = log[i]
        /\ log'[Len(log) + 1] = line
    BY <1>1, <1>3
  <1> QED
    BY <1>1, <1>2, <1>4, <1>5

\* The line that opening appends, if any.
LEMMA OpenAppends ==
    ASSUME LogInv, Open
    PROVE  /\ \A i \in 1 .. Len(log) : log'[i] = log[i]
           /\ \/ log' = log
              \/ /\ Len(log') = Len(log) + 1
                 /\ log'[Len(log) + 1].kind = "repair"
                 /\ log'[Len(log) + 1].text = "event"
                 /\ log'[Len(log) + 1].turn = LastTurn
           /\ turn' = LastTurn /\ residue' = 0
           /\ LastTurn \in Nat
  <1>1. log \in Seq(LineType)
    BY DEF LogInv, TypeOK
  <1>2. LastTurn \in Nat
    <2>1. Len(log) > 0 => log[Len(log)] \in LineType
      BY <1>1
    <2>2. Len(log) > 0 => log[Len(log)].turn \in Nat
      BY <2>1 DEF LineType
    <2> QED
      BY <2>2 DEF LastTurn
  <1>3. /\ RepairLine.kind = "repair" /\ RepairLine.text = "event"
        /\ RepairLine.turn = LastTurn
    BY DEF RepairLine
  <1>4. log' = log \/ log' = Append(log, RepairLine)
    BY DEF Open
  <1>5. log' = Append(log, RepairLine) =>
            /\ Len(log') = Len(log) + 1
            /\ \A i \in 1 .. Len(log) : log'[i] = log[i]
            /\ log'[Len(log) + 1] = RepairLine
    BY <1>1
  <1>6. turn' = LastTurn /\ residue' = 0
    BY DEF Open
  <1> QED
    BY <1>2, <1>3, <1>4, <1>5, <1>6

\* What a record's flush does to the counts: it drains and issues a sync for a
\* boundary, unless it counts a failure.
LEMMA RecordFaults ==
    ASSUME LogInv, NEW kind \in RecordedKinds, RecordOk(kind)
    PROVE  /\ faults <= faults'
           /\ pos <= pos' /\ durable <= durable' /\ pending <= pending'
           /\ faults' = faults /\ kind = "boundary" =>
                 /\ pos' = 2 * Len(log) + 2
                 /\ pending' > 0 \/ durable' = Len(log) + 1
  <1> DEFINE end == 2 * Len(log) + 2
  <1>1. PICK at \in Spills : MaybeFlush(kind, at, end)
    BY DEF RecordOk
  <1>2. /\ at \in Nat /\ end \in Nat /\ pos <= at /\ at <= end /\ 2 * durable <= at
        /\ pos \in Nat /\ durable \in Nat /\ faults \in Nat /\ pending \in Nat /\ Len(log) \in Nat
    BY DEF Spills, Total, PositionsOrdered, LogInv, TypeOK
  <1>3. ASSUME NoFlush(at, chunks) \/ NoFlush(at, chunks + 1)
        PROVE  pos' = at /\ durable' = durable /\ pending' = pending /\ faults' = faults
    BY <1>3 DEF NoFlush
  <1>4. ASSUME DoFlush(at, end)
        PROVE  /\ at <= pos' /\ pos' \in Nat /\ durable' = durable /\ pending' = pending
               /\ faults <= faults'
    BY <1>2, <1>4, FlushResultsBounds DEF DoFlush, Fault
  <1>5. ASSUME DoFlushDurable(at, end)
        PROVE  /\ at <= pos' /\ pos' \in Nat /\ durable <= durable' /\ pending <= pending'
               /\ faults <= faults'
               /\ faults' = faults => pos' = end /\ (pending' > 0 \/ durable' = Len(log) + 1)
    <2>1. PICK f \in FlushResults(at, end) : \E s \in SyncResults(f.pos) :
              /\ pos' = f.pos
              /\ durable' = s.durable
              /\ pending' = pending + s.task
              /\ Fault(f.fault + s.fault)
      BY <1>5 DEF DoFlushDurable
    <2>2. /\ f.pos \in Nat /\ at <= f.pos /\ f.pos <= end /\ f.fault \in Nat
          /\ f.fault = 0 => f.pos = end
      BY <1>2, FlushResultsBounds
    <2>3. 2 * durable <= f.pos
      BY <1>2, <2>2
    <2>4. PICK s \in SyncResults(f.pos) :
              /\ pos' = f.pos
              /\ durable' = s.durable
              /\ pending' = pending + s.task
              /\ Fault(f.fault + s.fault)
      BY <2>1
    <2>5. /\ s.task \in Nat /\ s.fault \in Nat /\ s.durable \in Nat /\ durable <= s.durable
          /\ s.task = 0 /\ s.fault = 0 => s.durable = LinesIn(f.pos)
      BY <1>2, <2>2, <2>3, SyncResultsBounds
    <2>6. faults' = faults + (f.fault + s.fault)
      BY <2>4 DEF Fault
    <2>7. pos' = f.pos /\ durable' = s.durable /\ pending' = pending + s.task
      BY <2>4
    <2>8. ASSUME faults' = faults
          PROVE  pos' = end /\ (pending' > 0 \/ durable' = Len(log) + 1)
      <3>1. f.fault = 0 /\ s.fault = 0
        BY <1>2, <2>2, <2>5, <2>6, <2>8
      <3>2. LinesIn(end) = Len(log) + 1
        BY <1>2 DEF LinesIn
      <3>3. pos' = end
        BY <2>2, <2>7, <3>1
      <3>4. CASE s.task = 0
        BY <2>2, <2>5, <2>7, <3>1, <3>2, <3>3, <3>4
      <3>5. CASE s.task # 0
        BY <1>2, <2>5, <2>7, <3>3, <3>5
      <3> QED
        BY <3>3, <3>4, <3>5
    <2>9. at <= pos' /\ pos' \in Nat /\ durable <= durable'
      BY <2>2, <2>5, <2>7
    <2>10. pending <= pending'
      BY <1>2, <2>5, <2>7
    <2>11. f.fault + s.fault \in Nat
      BY <2>2, <2>5
    <2>12. faults <= faults'
      BY <1>2, <2>6, <2>11
    <2> QED
      BY <2>8, <2>9, <2>10, <2>12
  <1> HIDE DEF end
  <1>6. CASE kind = "boundary"
    <2>1. DoFlushDurable(at, end)
      BY <1>1, <1>6 DEF MaybeFlush
    <2>2. end = 2 * Len(log) + 2
      BY DEF end
    <2>3. pos <= pos'
      BY <1>2, <1>5, <2>1
    <2> QED
      BY <1>5, <2>1, <2>2, <2>3
  <1>7. CASE kind # "boundary"
    <2>1. DoFlush(at, end) \/ NoFlush(at, chunks) \/ NoFlush(at, chunks + 1)
      BY <1>1, <1>7 DEF MaybeFlush
    <2> QED
      BY <1>2, <1>3, <1>4, <1>7, <2>1
  <1> QED
    BY <1>6, <1>7

\* Failures and deaths are only ever counted up.
LEMMA CountsGrow ==
    ASSUME LogInv, Next
    PROVE  /\ faults' = 0 => faults = 0
           /\ crashes' = 0 => crashes = 0
  <1>1. /\ faults \in Nat /\ faults' \in Nat
        /\ crashes \in Nat /\ crashes' \in Nat
    BY NextLogInv DEF LogInv, TypeOK
  <1>2. ASSUME NEW kind \in RecordedKinds, RecordOk(kind)
        PROVE  faults <= faults' /\ crashes' = crashes
    <2>1. crashes' = crashes
      BY <1>2 DEF RecordOk
    <2> QED
      BY <1>1, <1>2, <2>1, RecordFaults
  <1> QED
    BY <1>1, <1>2 DEF Next, Open, Record, RecordFail, Flush, FlushOk, FlushFail, SyncTask,
       SyncTaskOk, SyncTaskFail, Close, CloseOk, CloseFail, Crash, PowerLoss, Fault

-----------------------------------------------------------------------------
(* Drained. *)

\* A boundary row is drained with its own record; a sync covers what is drained.
LEMMA DrainedStep ==
    ASSUME LogInv, Drained, Next
    PROVE  Drained'
  <1> SUFFICES ASSUME faults' = 0, crashes' = 0
               PROVE  /\ \A i \in 1 .. Len(log') : Boundary(i)' => 2 * i <= pos'
                      /\ \A i \in 1 .. Len(log') : durable' < i /\ Boundary(i)' => pending' > 0
    BY DEF Drained
  <1>1. faults = 0 /\ crashes = 0
    BY CountsGrow
  <1>2. /\ \A i \in 1 .. Len(log) : Boundary(i) => 2 * i <= pos
        /\ \A i \in 1 .. Len(log) : durable < i /\ Boundary(i) => pending > 0
    BY <1>1 DEF Drained
  <1>3. /\ log \in Seq(LineType) /\ Len(log) \in Nat /\ pos \in Nat /\ durable \in Nat
        /\ pending \in Nat /\ residue \in {0, 1}
        /\ 2 * durable <= pos /\ pos <= Total /\ (writer = "closed" => pos = Total)
    BY DEF LogInv, TypeOK, PositionsOrdered
  <1>4. CASE Open
    <2>1. durable' = durable /\ pending' = pending /\ pos' = 2 * Len(log)
      BY <1>4 DEF Open
    <2>2. \A i \in 1 .. Len(log) : Boundary(i)' => Boundary(i)
      BY <1>4, OpenAppends DEF Boundary
    <2>3. \A i \in 1 .. Len(log') : Boundary(i)' => i \in 1 .. Len(log)
      <3>1. CASE log' = log
        BY <3>1
      <3>2. CASE log' # log
        <4>1. Len(log') = Len(log) + 1 /\ log'[Len(log) + 1].kind = "repair"
          BY <1>4, <3>2, OpenAppends
        <4> QED
          BY <1>3, <4>1 DEF Boundary
      <3> QED
        BY <3>1, <3>2
    <2> QED
      BY <1>2, <1>3, <2>1, <2>2, <2>3
  <1>5. ASSUME NEW kind \in RecordedKinds, RecordOk(kind)
        PROVE  /\ \A i \in 1 .. Len(log') : Boundary(i)' => 2 * i <= pos'
               /\ \A i \in 1 .. Len(log') : durable' < i /\ Boundary(i)' => pending' > 0
    <2>1. /\ Len(log') = Len(log) + 1
          /\ log'[Len(log) + 1].kind = kind
          /\ \A i \in 1 .. Len(log) : Boundary(i)' => Boundary(i)
      BY <1>5, RecordAppends DEF Boundary
    <2>2. /\ pos <= pos' /\ durable <= durable' /\ pending <= pending'
          /\ kind = "boundary" => /\ pos' = 2 * Len(log) + 2
                                  /\ pending' > 0 \/ durable' = Len(log) + 1
      BY <1>1, <1>5, RecordFaults
    <2>3. pos' \in Nat /\ durable' \in Nat /\ pending' \in Nat
      BY NextLogInv DEF LogInv, TypeOK
    <2>4. ASSUME NEW i \in 1 .. Len(log'), Boundary(i)'
          PROVE  2 * i <= pos' /\ (durable' < i => pending' > 0)
      <3>1. CASE i <= Len(log)
        <4>1. i \in 1 .. Len(log) /\ Boundary(i)
          BY <1>3, <2>1, <2>4, <3>1
        <4>2. 2 * i <= pos /\ (durable < i => pending > 0)
          BY <1>2, <4>1
        <4>3. 2 * i <= pos'
          BY <1>3, <2>2, <2>3, <4>1, <4>2
        <4>4. ASSUME durable' < i
              PROVE  pending' > 0
          <5>1. durable < i
            BY <1>3, <2>2, <2>3, <4>4
          <5> QED
            BY <1>3, <2>2, <2>3, <4>2, <5>1
        <4> QED
          BY <4>3, <4>4
      <3>2. CASE i = Len(log) + 1
        <4>1. kind = "boundary"
          BY <2>1, <2>4, <3>2 DEF Boundary
        <4>2. pos' = 2 * Len(log) + 2 /\ (pending' > 0 \/ durable' = Len(log) + 1)
          BY <2>2, <4>1
        <4>3. 2 * i <= pos'
          BY <1>3, <3>2, <4>2
        <4>4. durable' = Len(log) + 1 => ~(durable' < i)
          BY <1>3, <3>2
        <4> QED
          BY <4>2, <4>3, <4>4
      <3> QED
        BY <1>3, <2>1, <3>1, <3>2
    <2> QED
      BY <2>4
  <1>6. ASSUME NEW kind \in RecordedKinds, RecordFail(kind)
        PROVE  FALSE
    BY <1>1, <1>6 DEF RecordFail, Fault
  <1>7. CASE Flush
    <2>1. FlushOk
      BY <1>1, <1>7 DEF Flush, FlushFail, Fault
    <2>2. log' = log /\ pos' = Total /\ durable' = Len(log)
      BY <2>1 DEF FlushOk
    <2> QED
      BY <1>2, <1>3, <2>2 DEF Boundary, Total
  <1>8. CASE SyncTask
    <2>1. SyncTaskOk
      BY <1>1, <1>8 DEF SyncTask, SyncTaskFail, Fault
    <2>2. log' = log /\ pos' = pos /\ durable' = Written
      BY <2>1 DEF SyncTaskOk
    <2>3. Written \in Nat /\ pos <= 2 * Written + 1
      BY <1>3, LinesInBounds DEF Written
    <2>4. \A i \in 1 .. Len(log) : Boundary(i) => i <= Written
      BY <1>2, <1>3, <2>3
    <2> QED
      BY <1>2, <1>3, <2>2, <2>3, <2>4 DEF Boundary
  <1>9. CASE Close
    <2>1. CloseOk
      BY <1>1, <1>9 DEF Close, CloseFail, Fault
    <2>2. pos' = Total /\ durable' = Len(log)
      BY <2>1 DEF CloseOk, CutAt
    <2>3. /\ Len(log') <= Len(log)
          /\ \A i \in 1 .. Len(log') : log'[i] = log[i]
      BY <1>9, EndCuts
    <2>4. Len(log') \in Nat
      BY NextLogInv DEF LogInv, TypeOK
    <2> QED
      BY <1>3, <2>2, <2>3, <2>4 DEF Total
  <1>10. CASE Crash \/ PowerLoss
    BY <1>1, <1>10 DEF Crash, PowerLoss
  <1> QED
    BY <1>4, <1>5, <1>6, <1>7, <1>8, <1>9, <1>10 DEF Next, Record

-----------------------------------------------------------------------------
(* Intact. *)

\* Opening cuts the torn bytes off, and only a failed write leaves new ones.
LEMMA IntactStep ==
    ASSUME LogInv, Intact, Next
    PROVE  Intact'
  <1> SUFFICES ASSUME faults' = 0
               PROVE  /\ \A i \in 1 .. Len(log') : log'[i].text = "event"
                      /\ writer' = "open" => residue' = 0
    BY DEF Intact
  <1>1. faults = 0
    BY CountsGrow
  <1>2. /\ \A i \in 1 .. Len(log) : log[i].text = "event"
        /\ writer = "open" => residue = 0
    BY <1>1 DEF Intact
  <1>3. log \in Seq(LineType) /\ Len(log) \in Nat /\ faults \in Nat
    BY DEF LogInv, TypeOK
  <1>4. CASE Open
    BY <1>2, <1>3, <1>4, OpenAppends
  <1>5. ASSUME NEW kind \in RecordedKinds, RecordOk(kind)
        PROVE  /\ \A i \in 1 .. Len(log') : log'[i].text = "event"
               /\ writer' = "open" => residue' = 0
    <2>1. residue = 0 /\ residue' = 0
      BY <1>2, <1>5 DEF RecordOk
    <2> QED
      BY <1>2, <1>3, <1>5, <2>1, RecordAppends
  <1>6. ASSUME NEW kind \in RecordedKinds, RecordFail(kind)
        PROVE  FALSE
    BY <1>1, <1>6 DEF RecordFail, Fault
  <1>7. CASE Flush \/ SyncTask
    BY <1>2, <1>7 DEF Flush, FlushOk, FlushFail, SyncTask, SyncTaskOk, SyncTaskFail
  <1>8. CASE Close \/ Crash \/ PowerLoss
    BY <1>2, <1>3, <1>8, EndCuts
  <1> QED
    BY <1>4, <1>5, <1>6, <1>7, <1>8 DEF Next, Record

-----------------------------------------------------------------------------
(* Ordered. *)

\* The turn is resumed from the last line and only counted up.
LEMMA OrderedStep ==
    ASSUME LogInv, Ordered, Next
    PROVE  Ordered'
  <1>1. log \in Seq(LineType) /\ Len(log) \in Nat /\ turn \in Nat
    BY DEF LogInv, TypeOK
  <1>2. LogInv'
    BY NextLogInv
  <1>3. Len(log') \in Nat
    BY <1>2 DEF LogInv, TypeOK
  <1>4. CASE Open
    <2>1. Len(log) > 0 /\ ParsesTo(Len(log)) => LastTurn = log[Len(log)].turn
      BY <1>1 DEF LastTurn, ParsesTo
    <2>2. log' = log => Ordered'
      <3> HAVE log' = log
      <3>1. turn' = LastTurn
        BY <1>4, OpenAppends
      <3>2. \A i \in 1 .. (Len(log') - 1) : ParsesTo(i + 1)' => log'[i].turn <= log'[i + 1].turn
        BY DEF Ordered, ParsesTo
      <3>3. Len(log') > 0 /\ ParsesTo(Len(log))' => log'[Len(log')].turn <= turn'
        <4>1. LastTurn \in Nat
          BY <1>4, OpenAppends
        <4> QED
          BY <2>1, <3>1, <4>1 DEF ParsesTo
      <3> QED
        BY <3>2, <3>3 DEF Ordered, ParsesTo
    <2>3. ASSUME Len(log') = Len(log) + 1,
                 log'[Len(log) + 1].turn = LastTurn
          PROVE  Ordered'
      <3>1. turn' = LastTurn /\ LastTurn \in Nat /\ \A i \in 1 .. Len(log) : log'[i] = log[i]
        BY <1>4, OpenAppends
      <3>2. ASSUME NEW i \in 1 .. (Len(log') - 1), ParsesTo(i + 1)'
            PROVE  log'[i].turn <= log'[i + 1].turn
        <4>1. CASE i < Len(log)
          <5>1. ParsesTo(i + 1)
            BY <1>1, <3>1, <3>2, <4>1 DEF ParsesTo
          <5>2. log[i].turn <= log[i + 1].turn
            BY <1>1, <4>1, <5>1, <3>2, <2>3 DEF Ordered
          <5> QED
            BY <1>1, <3>1, <4>1, <5>2, <2>3
        <4>2. CASE i = Len(log)
          <5>1. Len(log) > 0 /\ ParsesTo(Len(log))
            BY <1>1, <3>1, <3>2, <4>2 DEF ParsesTo
          <5>2. log'[i].turn = LastTurn /\ log'[i + 1].turn = LastTurn
            BY <1>1, <2>1, <2>3, <3>1, <4>2, <5>1
          <5> QED
            BY <3>1, <5>2
        <4> QED
          BY <1>1, <2>3, <3>2, <4>1, <4>2
      <3>3. log'[Len(log')].turn <= turn'
        BY <2>3, <3>1
      <3> QED
        BY <3>2, <3>3 DEF Ordered
    <2> QED
      BY <1>4, <2>2, <2>3, OpenAppends
  <1>5. ASSUME NEW kind \in RecordedKinds, RecordOk(kind)
        PROVE  Ordered'
    <2>1. /\ Len(log') = Len(log) + 1
          /\ \A i \in 1 .. Len(log) : log'[i] = log[i]
          /\ log'[Len(log) + 1].turn = turn'
          /\ turn' \in Nat /\ turn <= turn'
      BY <1>5, RecordAppends
    <2>2. writer = "open"
      BY <1>5 DEF RecordOk
    <2>3. ASSUME NEW i \in 1 .. (Len(log') - 1), ParsesTo(i + 1)'
          PROVE  log'[i].turn <= log'[i + 1].turn
      <3>1. CASE i < Len(log)
        <4>1. ParsesTo(i + 1)
          BY <1>1, <2>1, <2>3, <3>1 DEF ParsesTo
        <4>2. log[i].turn <= log[i + 1].turn
          BY <1>1, <2>1, <2>3, <3>1, <4>1 DEF Ordered
        <4> QED
          BY <1>1, <2>1, <2>3, <3>1, <4>2
      <3>2. CASE i = Len(log)
        <4>1. Len(log) > 0 /\ ParsesTo(Len(log))
          BY <1>1, <2>1, <2>3, <3>2 DEF ParsesTo
        <4>2. log[Len(log)].turn <= turn
          BY <2>2, <4>1 DEF Ordered
        <4>3. log[Len(log)] \in LineType
          BY <1>1, <4>1
        <4>4. log[Len(log)].turn \in Nat
          BY <4>3 DEF LineType
        <4>5. log'[i].turn = log[Len(log)].turn /\ log'[i + 1].turn = turn'
          BY <1>1, <2>1, <3>2, <4>1
        <4> QED
          BY <1>1, <2>1, <4>2, <4>4, <4>5
      <3> QED
        BY <1>1, <2>1, <2>3, <3>1, <3>2
    <2>4. log'[Len(log')].turn <= turn'
      BY <2>1
    <2> QED
      BY <2>3, <2>4 DEF Ordered
  <1>6. ASSUME NEW kind \in RecordedKinds, RecordFail(kind)
        PROVE  Ordered'
    <2>1. log' = log /\ writer' = writer /\ turn' \in Nat /\ turn <= turn'
      BY <1>1, <1>6 DEF RecordFail, TurnOf
    <2>2. \A i \in 1 .. (Len(log') - 1) : ParsesTo(i + 1)' => log'[i].turn <= log'[i + 1].turn
      BY <2>1 DEF Ordered, ParsesTo
    <2>3. ASSUME writer' = "open", Len(log') > 0, ParsesTo(Len(log))'
          PROVE  log'[Len(log')].turn <= turn'
      <3>1. log[Len(log)].turn <= turn
        BY <2>1, <2>3 DEF Ordered, ParsesTo
      <3>2. log[Len(log)] \in LineType
        BY <1>1, <2>1, <2>3
      <3>3. log[Len(log)].turn \in Nat
        BY <3>2 DEF LineType
      <3> QED
        BY <1>1, <2>1, <3>1, <3>3
    <2> QED
      BY <2>1, <2>2, <2>3 DEF Ordered, ParsesTo
  <1>7. CASE Flush \/ SyncTask
    <2>1. log' = log /\ writer' = writer /\ turn' = turn
      BY <1>7 DEF Flush, FlushOk, FlushFail, SyncTask, SyncTaskOk, SyncTaskFail
    <2> QED
      BY <2>1 DEF Ordered, ParsesTo
  <1>8. CASE Close \/ Crash \/ PowerLoss
    <2>1. /\ Len(log') <= Len(log)
          /\ \A i \in 1 .. Len(log') : log'[i] = log[i]
          /\ writer' = "closed"
      BY <1>8, EndCuts
    <2>2. ASSUME NEW i \in 1 .. (Len(log') - 1), ParsesTo(i + 1)'
          PROVE  log'[i].turn <= log'[i + 1].turn
      <3>1. ParsesTo(i + 1)
        BY <1>1, <1>3, <2>1, <2>2 DEF ParsesTo
      <3>2. log[i].turn <= log[i + 1].turn
        BY <1>1, <1>3, <2>1, <3>1 DEF Ordered
      <3> QED
        BY <1>1, <1>3, <2>1, <3>2
    <2> QED
      BY <2>1, <2>2 DEF Ordered
  <1> QED
    BY <1>4, <1>5, <1>6, <1>7, <1>8 DEF Next, Record
-----------------------------------------------------------------------------
(* Held chunks. *)

\* The chunks a flush would still write.  As long as nothing fails the writer
\* counts each of them; ChunksBounded alone says nothing of the counter.
Held == {i \in (Written + 1) .. Len(log) : log[i].kind = "chunk"}

ChunksCounted ==
    writer = "open" /\ faults = 0 =>
        Cardinality(Held) <= chunks /\ chunks < ChunkFlushCount

\* The held chunks are finitely many.
LEMMA HeldFinite ==
    ASSUME LogInv
    PROVE  IsFiniteSet(Held) /\ Cardinality(Held) \in Nat
  <1>1. pos \in Nat /\ Len(log) \in Nat
    BY DEF LogInv, TypeOK
  <1>4. Written \in Nat
    BY <1>1, LinesInBounds DEF Written
  <1>2. IsFiniteSet((Written + 1) .. Len(log))
    BY <1>1, <1>4, FS_Interval
  <1>3. IsFiniteSet(Held)
    BY <1>2, FS_Subset DEF Held
  <1> QED
    BY <1>3, FS_CardinalityType

\* A record drains the log, or counts the chunk it holds back.
LEMMA RecordCounts ==
    ASSUME LogInv, faults = 0, faults' = 0, NEW kind \in RecordedKinds, RecordOk(kind)
    PROVE  \/ pos' = 2 * Len(log) + 2 /\ chunks' = 0
           \/ /\ pos <= pos'
              /\ \/ kind = "chunk" /\ chunks' = chunks + 1 /\ chunks + 1 < ChunkFlushCount
                 \/ kind # "chunk" /\ chunks' = chunks
  <1> DEFINE end == 2 * Len(log) + 2
  <1>1. PICK at \in Spills : MaybeFlush(kind, at, end)
    BY DEF RecordOk
  <1>2. at \in Nat /\ end \in Nat /\ pos <= at /\ at <= end /\ 2 * durable <= at /\ durable \in Nat
    BY DEF Spills, Total, LogInv, TypeOK, PositionsOrdered
  <1>3. ASSUME DoFlush(at, end) PROVE pos' = end /\ chunks' = 0
    <2>1. PICK f \in FlushResults(at, end) : pos' = f.pos /\ Fault(f.fault) /\ chunks' = 0
      BY <1>3 DEF DoFlush
    <2>2. f.fault \in Nat /\ (f.fault = 0 => f.pos = end)
      BY <1>2, FlushResultsBounds
    <2>3. f.fault = 0
      BY <2>1, <2>2 DEF Fault
    <2> QED
      BY <2>1, <2>2, <2>3
  <1>4. ASSUME DoFlushDurable(at, end) PROVE pos' = end /\ chunks' = 0
    <2>1. PICK f \in FlushResults(at, end) : \E s \in SyncResults(f.pos) :
            pos' = f.pos /\ Fault(f.fault + s.fault) /\ chunks' = 0
      BY <1>4 DEF DoFlushDurable
    <2>2. /\ f.fault \in Nat /\ (f.fault = 0 => f.pos = end) /\ f.pos \in Nat
          /\ 2 * durable <= f.pos
      BY <1>2, FlushResultsBounds
    <2>3. PICK s \in SyncResults(f.pos) :
            pos' = f.pos /\ Fault(f.fault + s.fault) /\ chunks' = 0
      BY <2>1
    <2>4. s.fault \in Nat
      BY <1>2, <2>2, SyncResultsBounds
    <2>5. f.fault = 0
      BY <2>2, <2>3, <2>4 DEF Fault
    <2> QED
      BY <2>2, <2>3, <2>5
  <1>5. ASSUME NEW n, NoFlush(at, n) PROVE pos <= pos' /\ chunks' = n
    BY <1>2, <1>5 DEF NoFlush
  <1> HIDE DEF end
  <1>6. \/ DoFlush(at, end) \/ DoFlushDurable(at, end)
        \/ kind = "chunk" /\ chunks + 1 < ChunkFlushCount /\ NoFlush(at, chunks + 1)
        \/ kind # "chunk" /\ NoFlush(at, chunks)
    BY <1>1 DEF MaybeFlush
  <1> QED
    BY <1>3, <1>4, <1>5, <1>6 DEF end

\* Every step keeps the held chunks counted.
LEMMA ChunksStep ==
    ASSUME LogInv, ChunksCounted, Next
    PROVE  ChunksCounted'
  <1> SUFFICES ASSUME writer' = "open", faults' = 0
               PROVE  Cardinality(Held') <= chunks' /\ chunks' < ChunkFlushCount
    BY DEF ChunksCounted
  <1>1. LogInv' /\ faults = 0
    BY NextLogInv, CountsGrow
  <1>2. /\ log \in Seq(LineType) /\ Len(log) \in Nat /\ pos \in Nat /\ residue \in {0, 1}
        /\ chunks \in Nat /\ pos <= Total /\ ChunkFlushCount \in Nat /\ ChunkFlushCount >= 1
        /\ Len(log') \in Nat /\ pos' \in Nat /\ chunks' \in Nat
    BY <1>1, ChunkFlushAssumption DEF LogInv, TypeOK, PositionsOrdered
  <1>3. /\ IsFiniteSet(Held) /\ Cardinality(Held) \in Nat
        /\ IsFiniteSet(Held') /\ Cardinality(Held') \in Nat
    <2>1. IsFiniteSet(Held)' /\ (Cardinality(Held) \in Nat)'
      BY <1>1, HeldFinite, PTL
    <2> QED
      BY <2>1, HeldFinite
  <1>4. ASSUME Held' \subseteq Held PROVE Cardinality(Held') <= Cardinality(Held)
    BY <1>3, <1>4, FS_Subset
  <1>5. ASSUME 2 * Len(log') <= pos', chunks' = 0
        PROVE  Cardinality(Held') <= chunks' /\ chunks' < ChunkFlushCount
    <2>1. Written' \in Nat /\ pos' <= 2 * Written' + 1
      BY <1>2, LinesInBounds DEF Written, LinesIn
    <2>4. Len(log') <= Written'
      <3>1. \A a, b, p \in Nat : 2 * a <= p /\ p <= 2 * b + 1 => a <= b
        OBVIOUS
      <3> QED
        BY <1>2, <1>5, <2>1, <3>1
    <2>2. Held' = {}
      BY <1>2, <2>1, <2>4 DEF Held
    <2>3. Cardinality(Held') = 0
      BY <2>2, FS_EmptySet
    <2> QED
      BY <1>2, <1>5, <2>3
  <1>6. CASE Open
    <2>1. pos' = 2 * Len(log) /\ chunks' = 0
      BY <1>6 DEF Open
    <2>2. Written' = Len(log)
      BY <1>2, <2>1 DEF Written, LinesIn
    <2>3. \/ log' = log
          \/ Len(log') = Len(log) + 1 /\ log'[Len(log) + 1].kind = "repair"
      BY <1>6, OpenAppends
    <2>4. Held' = {}
      BY <1>2, <2>2, <2>3 DEF Held
    <2>5. Cardinality(Held') = 0
      BY <2>4, FS_EmptySet
    <2> QED
      BY <1>2, <2>1, <2>5
  <1>7. ASSUME NEW kind \in RecordedKinds, RecordOk(kind)
        PROVE  Cardinality(Held') <= chunks' /\ chunks' < ChunkFlushCount
    <2>1. /\ Len(log') = Len(log) + 1 /\ \A i \in 1 .. Len(log) : log'[i] = log[i]
          /\ log'[Len(log) + 1].kind = kind
      BY <1>7, RecordAppends
    <2>2. writer = "open"
      BY <1>7 DEF RecordOk
    <2>3. Cardinality(Held) <= chunks /\ chunks < ChunkFlushCount
      BY <1>1, <2>2 DEF ChunksCounted
    <2>4. CASE pos' = 2 * Len(log) + 2 /\ chunks' = 0
      BY <1>2, <1>5, <2>1, <2>4
    <2>5. ASSUME pos <= pos' PROVE Held' \ {Len(log) + 1} \subseteq Held
      <3>1. Written \in Nat /\ Written' \in Nat /\ Written <= Written'
        <4>1. /\ Written \in Nat /\ 2 * Written <= pos
              /\ Written' \in Nat /\ pos' <= 2 * Written' + 1
          BY <1>2, LinesInBounds DEF Written, LinesIn
        <4>2. \A a, b, p, q \in Nat : 2 * a <= p /\ p <= q /\ q <= 2 * b + 1 => a <= b
          OBVIOUS
        <4> QED
          BY <1>2, <2>5, <4>1, <4>2
      <3>2. ASSUME NEW i \in Held', i # Len(log) + 1 PROVE i \in Held
        <4>1. i \in (Written' + 1) .. Len(log') /\ log'[i].kind = "chunk"
          BY <3>2 DEF Held
        <4>2. i \in (Written + 1) .. Len(log) /\ i \in 1 .. Len(log)
          <5>1. \A w, v, n \in Nat : \A j \in (v + 1) .. (n + 1) :
                  w <= v /\ j # n + 1 => j \in (w + 1) .. n /\ j \in 1 .. n
            OBVIOUS
          <5> QED
            BY <1>2, <2>1, <3>1, <3>2, <4>1, <5>1
        <4> QED
          BY <2>1, <4>1, <4>2 DEF Held
      <3> QED
        BY <3>2
    <2>6. CASE pos <= pos' /\ kind # "chunk" /\ chunks' = chunks
      <3>1. Len(log) + 1 \notin Held'
        BY <2>1, <2>6 DEF Held
      <3>2. Cardinality(Held') <= Cardinality(Held)
        BY <1>4, <2>5, <2>6, <3>1
      <3> QED
        BY <1>2, <1>3, <2>3, <2>6, <3>2
    <2>7. CASE pos <= pos' /\ chunks' = chunks + 1 /\ chunks + 1 < ChunkFlushCount
      <3>1. /\ IsFiniteSet(Held \cup {Len(log) + 1})
            /\ Cardinality(Held \cup {Len(log) + 1}) <= Cardinality(Held) + 1
        <4>1. /\ IsFiniteSet(Held \cup {Len(log) + 1})
              /\ Cardinality(Held \cup {Len(log) + 1}) =
                   IF Len(log) + 1 \in Held THEN Cardinality(Held) ELSE Cardinality(Held) + 1
          BY <1>3, FS_AddElement
        <4> QED
          BY <1>3, <4>1
      <3>2. Held' \subseteq Held \cup {Len(log) + 1}
        BY <2>5, <2>7
      <3>3. /\ Cardinality(Held') <= Cardinality(Held \cup {Len(log) + 1})
            /\ Cardinality(Held \cup {Len(log) + 1}) \in Nat
        BY <3>1, <3>2, FS_Subset, FS_CardinalityType
      <3> QED
        BY <1>2, <1>3, <2>3, <2>7, <3>1, <3>3
    <2> QED
      BY <1>1, <1>7, <2>4, <2>6, <2>7, RecordCounts
  <1>8. CASE FlushOk
    <2>1. pos' = Total /\ chunks' = 0 /\ log' = log
      BY <1>8 DEF FlushOk
    <2>2. 2 * Len(log') <= pos'
      BY <1>2, <2>1 DEF Total
    <2> QED
      BY <1>5, <2>1, <2>2
  <1>9. CASE SyncTask
    <2>1. UNCHANGED <<log, pos, chunks, writer>>
      BY <1>9 DEF SyncTask, SyncTaskOk, SyncTaskFail
    <2>2. Held' = Held
      BY <2>1 DEF Held, Written, LinesIn
    <2> QED
      BY <1>1, <2>1, <2>2 DEF ChunksCounted
  <1>10. ASSUME (\E kind \in RecordedKinds : RecordFail(kind)) \/ FlushFail PROVE FALSE
    BY <1>1, <1>10 DEF RecordFail, FlushFail, Fault
  <1>11. ASSUME Close \/ Crash \/ PowerLoss PROVE FALSE
    BY <1>11 DEF Close, CloseOk, CloseFail, Crash, PowerLoss
  <1> QED
    BY <1>6, <1>7, <1>8, <1>9, <1>10, <1>11 DEF Next, Record, Flush

-----------------------------------------------------------------------------
(* Theorems. *)

\* A step, or a stutter, preserves the strengthened invariant.
LEMMA NextDurabilityInv ==
    ASSUME DurabilityInv, [Next]_vars
    PROVE  DurabilityInv'
  <1>1. LogInv'
    BY NextLogInv DEF DurabilityInv
  <1>2. CASE Next
    BY <1>1, <1>2, DrainedStep, IntactStep, OrderedStep DEF DurabilityInv
  <1>3. CASE UNCHANGED vars
    BY <1>1, <1>3 DEF DurabilityInv, vars, Drained, Boundary, Intact, Ordered, ParsesTo
  <1> QED
    BY <1>2, <1>3

\* The strengthened invariant holds of every behaviour of the writer.
THEOREM DurabilityInvariant == Spec => []DurabilityInv
  <1>1. Init => DurabilityInv
    <2> SUFFICES ASSUME Init PROVE DurabilityInv
      OBVIOUS
    <2>1. LogInv
      BY InitLogInv
    <2>2. log = <<>> /\ Len(log) = 0 /\ residue = 0
      BY DEF Init
    <2> QED
      BY <2>1, <2>2 DEF DurabilityInv, Drained, Intact, Ordered
  <1>2. DurabilityInv /\ [Next]_vars => DurabilityInv'
    BY NextDurabilityInv
  <1> QED
    BY <1>1, <1>2, PTL DEF Spec

\* "Durability at boundaries": an unsynced boundary row has its sync outstanding
\* unless a failure was counted or the process died.
THEOREM BoundariesDurable == Spec => []BoundaryDurable
  <1>1. DurabilityInv => BoundaryDurable
    <2> SUFFICES ASSUME DurabilityInv PROVE BoundaryDurable
      OBVIOUS
    <2>1. faults \in Nat /\ crashes \in Nat /\ durable \in Nat /\ Len(log) \in Nat
      BY DEF DurabilityInv, LogInv, TypeOK
    <2>2. ASSUME faults = 0, crashes = 0, NEW i \in 1 .. Len(log), i > durable, Boundary(i)
          PROVE  pending > 0
      <3>1. durable < i
        BY <2>1, <2>2
      <3> QED
        BY <2>2, <3>1 DEF DurabilityInv, Drained
    <2> QED
      BY <2>1, <2>2 DEF BoundaryDurable, Boundary
  <1> QED
    BY <1>1, DurabilityInvariant, PTL

\* Deaths, repairs and reopens alone leave no line of the log that does not
\* parse: only a failed write can.
THEOREM LinesParse == Spec => []CrashKeepsLinesParsing
  <1>1. DurabilityInv => CrashKeepsLinesParsing
    BY DEF DurabilityInv, Intact, CrashKeepsLinesParsing
  <1> QED
    BY <1>1, DurabilityInvariant, PTL

\* The envelope turn never goes back along a log whose lines all parse.
THEOREM TurnsOrdered == Spec => []TurnMonotone
  <1>1. DurabilityInv => TurnMonotone
    <2> SUFFICES ASSUME DurabilityInv, \A i \in 1 .. Len(log) : log[i].text = "event"
                 PROVE  /\ \A i \in 1 .. (Len(log) - 1) : log[i].turn <= log[i + 1].turn
                        /\ writer = "open" /\ Len(log) > 0 => log[Len(log)].turn <= turn
      BY DEF TurnMonotone
    <2>1. Len(log) \in Nat
      BY DEF DurabilityInv, LogInv, TypeOK
    <2>2. ParsesTo(Len(log)) /\ \A i \in 1 .. (Len(log) - 1) : ParsesTo(i + 1)
      BY <2>1 DEF ParsesTo
    <2> QED
      BY <2>2 DEF DurabilityInv, Ordered
  <1> QED
    BY <1>1, DurabilityInvariant, PTL

\* While no flush has failed, fewer than ChunkFlushCount chunk rows are held back
\* from the page cache.
THEOREM ChunksHeldBack == Spec => []ChunksBounded
  <1>1. Init => ChunksCounted
    BY DEF Init, ChunksCounted
  <1>2. LogInv /\ ChunksCounted /\ [Next]_vars => ChunksCounted'
    <2> SUFFICES ASSUME LogInv, ChunksCounted, UNCHANGED vars PROVE ChunksCounted'
      BY ChunksStep
    <2>1. Held' = Held
      BY DEF vars, Held, Written, LinesIn
    <2> QED
      BY <2>1 DEF vars, ChunksCounted
  <1>3. LogInv /\ ChunksCounted => ChunksBounded
    <2> SUFFICES ASSUME LogInv, ChunksCounted, writer = "open", faults = 0
                 PROVE  Cardinality(Held) < ChunkFlushCount
      BY DEF ChunksBounded, Held
    <2>1. Cardinality(Held) \in Nat /\ chunks \in Nat /\ ChunkFlushCount \in Nat
      BY HeldFinite, ChunkFlushAssumption DEF LogInv, TypeOK
    <2> QED
      BY <2>1 DEF ChunksCounted
  <1> QED
    BY <1>1, <1>2, <1>3, LogInvariant, PTL DEF Spec

-----------------------------------------------------------------------------
(* The writer implements DurableLog: `log', `durable' and `writer' behave as *)
(* the lines, the kept lines and the owner of the abstract log.  A step of   *)
(* the writer is, by kind: Open a TakeOver; a successful record an Add; a    *)
(* failed record, an explicit flush and a detached sync a Keep; close, crash *)
(* and power loss a LetGo.  LogInv provides the order of the positions that  *)
(* bounds what each of them syncs or cuts.                                   *)

\* Half-line positions: d lines that end at or before p are lines of a file that
\* has l lines and less than one more.
LEMMA WholeLines ==
    ASSUME NEW d \in Nat, NEW l \in Nat, NEW p \in Nat, NEW r \in Nat,
           r <= 1, 2 * d <= p, p <= 2 * l + r
    PROVE  d <= l
  OBVIOUS

\* What a sync has covered are lines of the log, before and after a step, and a
\* step never covers less.
LEMMA KeptBounds ==
    ASSUME LogInv, Next
    PROVE  /\ durable \in Nat /\ durable' \in Nat /\ Len(log) \in Nat /\ Len(log') \in Nat
           /\ durable <= durable'
           /\ durable' <= Len(log')
  <1>1. LogInv' /\ (UNCHANGED vars \/ KeepsSynced)
    BY NextLogInv
  <1>2. durable <= durable'
    BY <1>1 DEF vars, KeepsSynced, LogInv, TypeOK
  <1>3. durable \in Nat /\ durable' \in Nat /\ Len(log) \in Nat /\ Len(log') \in Nat
    BY <1>1 DEF LogInv, TypeOK
  <1>4. pos' \in Nat /\ residue' \in Nat /\ residue' <= 1
    BY <1>1 DEF LogInv, TypeOK
  <1>5. 2 * durable' <= pos' /\ pos' <= Total'
    BY <1>1 DEF LogInv, PositionsOrdered
  <1>6. pos' <= 2 * Len(log') + residue'
    BY <1>5 DEF Total
  <1>7. durable' <= Len(log')
    BY <1>3, <1>4, <1>5, <1>6, WholeLines
  <1> QED
    BY <1>2, <1>3, <1>7

\* An open is a take-over.
LEMMA OpenTakesOver ==
    ASSUME LogInv, Open
    PROVE  Promise!TakeOver
  <1>1. writer = "closed" /\ writer' = "open" /\ durable' = durable
    BY DEF Open, Locked, LogInv, TypeOK
  <1>2. log \in Seq(LineType)
    BY DEF LogInv, TypeOK
  <1>3. CASE residue = 1
    <2>1. log' = Append(log, RepairLine) /\ RepairLine.seq = Len(log)
      BY <1>3 DEF Open, RepairLine
    <2>2. Promise!Grow
      BY <1>2, <2>1 DEF Promise!Grow
    <2> QED
      BY <1>1, <2>2 DEF Promise!TakeOver
  <1>4. CASE residue # 1
    BY <1>1, <1>4 DEF Open, Promise!TakeOver
  <1> QED
    BY <1>3, <1>4

\* A record that succeeds adds its line.
LEMMA RecordOkAdds ==
    ASSUME LogInv, NEW kind \in RecordedKinds, RecordOk(kind)
    PROVE  Promise!Add
  <1> DEFINE line == [seq |-> nextSeq, turn |-> TurnOf(kind), kind |-> kind,
                      text |-> IF residue = 0 THEN "event" ELSE "garbled"]
  <1>1. log' = Append(log, line) /\ writer = "open" /\ writer' = writer
    BY DEF RecordOk
  <1>2. line.seq = Len(log)
    BY <1>1 DEF LogInv, SeqContinuity
  <1> HIDE DEF line
  <1>3. log \in Seq(LineType)
    BY DEF LogInv, TypeOK
  <1>4. Promise!Grow
    BY <1>1, <1>2, <1>3 DEF Promise!Grow
  <1>5. Next
    BY DEF Next, Record
  <1>6. durable' \in durable .. Len(log')
    BY <1>5, KeptBounds
  <1> QED
    BY <1>1, <1>4, <1>6 DEF Promise!Add

\* The other steps of a writer only keep more.
LEMMA QuietStepsKeep ==
    ASSUME LogInv, Next, UNCHANGED <<log, writer>>
    PROVE  Promise!Keep
  <1>1. durable' \in durable .. Len(log)
    BY KeptBounds
  <1> QED
    BY <1>1 DEF Promise!Keep

\* The end of a writer lets go of the log.
LEMMA EndLetsGo ==
    ASSUME LogInv, Close \/ Crash \/ PowerLoss
    PROVE  Promise!LetGo
  <1>1. Next
    BY DEF Next
  <1>2. /\ durable \in Nat /\ durable' \in Nat /\ Len(log) \in Nat /\ Len(log') \in Nat
        /\ durable <= durable'
        /\ durable' <= Len(log')
    BY <1>1, KeptBounds
  <1>3. /\ Len(log') <= Len(log)
        /\ \A i \in 1 .. Len(log') : log'[i] = log[i]
        /\ writer' = "closed"
    BY EndCuts
  <1>4. Len(log') \in durable .. Len(log) /\ durable' \in durable .. Len(log')
    BY <1>2, <1>3
  <1> QED
    BY <1>3, <1>4 DEF Promise!LetGo

\* Every behaviour of the writer is one of the abstract log: whatever fails,
\* dies or is reopened, readers see numbered lines that only an owner adds, and
\* lose only unsynced lines from the end of a log whose owner is gone.
THEOREM WriterImplementsDurableLog == Spec => ImplementsDurableLog
  <1>1. Init => Promise!Init
    BY DEF Init, Promise!Init
  <1>2. LogInv /\ [Next]_vars => [Promise!Next]_(Promise!vars)
    <2> SUFFICES ASSUME LogInv, [Next]_vars PROVE [Promise!Next]_(Promise!vars)
      OBVIOUS
    <2>1. CASE UNCHANGED vars
      BY <2>1 DEF vars, Promise!vars
    <2>2. CASE Open
      BY <2>2, OpenTakesOver DEF Promise!Next
    <2>3. CASE Record
      <3>1. PICK kind \in RecordedKinds : RecordOk(kind) \/ RecordFail(kind)
        BY <2>3 DEF Record
      <3>2. CASE RecordOk(kind)
        BY <3>2, RecordOkAdds DEF Promise!Next
      <3>3. CASE RecordFail(kind)
        <4>1. UNCHANGED <<log, writer>>
          BY <3>3 DEF RecordFail
        <4> QED
          BY <2>3, <4>1, QuietStepsKeep DEF Next, Promise!Next
      <3> QED
        BY <3>1, <3>2, <3>3
    <2>4. CASE Flush \/ SyncTask
      <3>1. UNCHANGED <<log, writer>>
        BY <2>4 DEF Flush, FlushOk, FlushFail, SyncTask, SyncTaskOk, SyncTaskFail
      <3> QED
        BY <2>4, <3>1, QuietStepsKeep DEF Next, Promise!Next
    <2>5. CASE Close \/ Crash \/ PowerLoss
      BY <2>5, EndLetsGo DEF Promise!Next
    <2> QED
      BY <2>1, <2>2, <2>3, <2>4, <2>5 DEF Next
  <1> QED
    BY <1>1, <1>2, LogInvariant, PTL DEF Spec, ImplementsDurableLog, Promise!Spec
=============================================================================
