-------------------------- MODULE SessionIndexProofs --------------------------
(***************************************************************************)
(* Proofs about SessionIndex, for every value of the constants: the        *)
(* accumulator that a writer publishes, and the sidecar that a list or a   *)
(* writer has published, against a fold over the log.                      *)
(***************************************************************************)
EXTENDS SessionIndex, SessionLogDurability

TurnRows(n) == {i \in 1 .. n : log[i].kind = "turn_start"}

(***************************************************************************)
(* The inductive invariant.  Nothing but a power loss takes a complete     *)
(* line out of the page cache, so what a reader folded stays a fold over a *)
(* prefix of the log.  A list stamps its fold with a length it took        *)
(* earlier: the fold covers at least the lines of that length, and when    *)
(* the log still has that length it covers all of them.  Of a sidecar that *)
(* a power loss left ahead of the log, what is needed is that the log can  *)
(* only catch up with a later time.                                        *)
(***************************************************************************)
Sound(x) ==
    /\ x.count <= Written
    /\ x.turns = Cardinality(TurnRows(x.count))
    /\ LinesIn(x.len) <= x.count

Stale ==
    /\ index.mtime < clock
    /\ Written < index.count \/ index.mtime < mtime

SidecarSound ==
    index # NoIndex =>
        /\ index.len \in Nat /\ index.mtime <= clock
        /\ lossy <= 1 => Sound(index) \/ (lossy = 1 /\ Stale)

ListerSound ==
    /\ lister.at = "stated" => LinesIn(lister.len) <= Written /\ lister.mtime <= clock
    /\ lister.at = "read" =>
         /\ lister.index.len \in Nat /\ lister.index.mtime <= clock
         /\ Sound(lister.index)

IndexInv == ITypeOK /\ LogInv /\ SidecarSound /\ ListerSound /\ AccumulatorWhole

-----------------------------------------------------------------------------
(* The fold. *)

\* Finitely many rows start a turn.
LEMMA TurnRowsFinite ==
    ASSUME NEW n \in Nat
    PROVE  IsFiniteSet(TurnRows(n)) /\ Cardinality(TurnRows(n)) \in Nat
  <1>1. IsFiniteSet(1 .. n)
    BY FS_Interval
  <1>2. TurnRows(n) \subseteq 1 .. n
    BY DEF TurnRows
  <1> QED
    BY <1>1, <1>2, FS_Subset, FS_CardinalityType

\* What a fresh accumulator is after n lines.
LEMMA FoldFields ==
    ASSUME NEW n \in Nat
    PROVE  Fold(n).count = n /\ Fold(n).turns = Cardinality(TurnRows(n))
  BY DEF Fold, Fresh, TurnRows

\* A fold depends on no more than the lines it covers.
LEMMA TurnRowsKept ==
    ASSUME NEW n \in Nat, \A i \in 1 .. n : log'[i] = log[i]
    PROVE  TurnRows(n)' = TurnRows(n)
  BY DEF TurnRows

\* One line more.
LEMMA TurnRowsGrow ==
    ASSUME log \in Seq(LineType), NEW line \in LineType, log' = Append(log, line)
    PROVE  /\ Len(log') = Len(log) + 1 /\ log'[Len(log')] = line
           /\ Cardinality(TurnRows(Len(log))') =
                Cardinality(TurnRows(Len(log)))
                  + (IF line.kind = "turn_start" THEN 1 ELSE 0)
  <1>1. PICK n : n = Len(log)
    OBVIOUS
  <1>2. n \in Nat /\ Len(log') = n + 1 /\ log'[n + 1] = line
        /\ \A i \in 1 .. n : log'[i] = log[i]
    BY <1>1
  <1>3. TurnRows(n)' = TurnRows(n)
    BY <1>2, TurnRowsKept
  <1>4. TurnRows(Len(log))' = TurnRows(n)' \cup (IF line.kind = "turn_start" THEN {n + 1} ELSE {})
    BY <1>2 DEF TurnRows
  <1>5. IsFiniteSet(TurnRows(n)) /\ Cardinality(TurnRows(n)) \in Nat /\ n + 1 \notin TurnRows(n)
    <2>1. n + 1 \notin 1 .. n
      BY <1>2
    <2> QED
      BY <1>2, <2>1, TurnRowsFinite DEF TurnRows
  <1>6. CASE line.kind = "turn_start"
    <2>1. TurnRows(Len(log))' = TurnRows(n) \cup {n + 1}
      BY <1>3, <1>4, <1>6
    <2>2. Cardinality(TurnRows(n) \cup {n + 1}) = Cardinality(TurnRows(n)) + 1
      BY <1>5, FS_AddElement
    <2> QED
      BY <1>1, <1>2, <1>6, <2>1, <2>2
  <1>7. CASE line.kind # "turn_start"
    <2>1. TurnRows(Len(log))' = TurnRows(n)
      BY <1>3, <1>4, <1>7
    <2> QED
      BY <1>1, <1>2, <1>5, <1>7, <2>1
  <1> QED
    BY <1>6, <1>7

-----------------------------------------------------------------------------
(* Steps of the log, seen by a reader of the page cache. *)

CacheGrows == Written <= Written' /\ \A i \in 1 .. Written : log'[i] = log[i]

\* A longer page cache has at least as many complete lines.
LEMMA LinesInGrow ==
    ASSUME NEW p \in Nat, NEW q \in Nat, p <= q
    PROVE  LinesIn(p) <= LinesIn(q) /\ LinesIn(p) \in Nat /\ LinesIn(q) \in Nat
  BY LinesInBounds

\* Positions at and inside the end of line n.
LEMMA LinesInEnd ==
    ASSUME NEW n \in Nat
    PROVE  LinesIn(2 * n) = n /\ LinesIn(2 * n + 1) = n
  BY DEF LinesIn

\* No complete line is ahead of the lines handed over; all are there when the
\* log is closed.
LEMMA WrittenBounds ==
    ASSUME LogInv
    PROVE  /\ Written \in Nat /\ Written <= Len(log)
           /\ writer = "closed" => Written = Len(log)
  <1> USE DEF LogInv, TypeOK
  <1>1. Written \in Nat /\ 2 * Written <= pos /\ pos <= 2 * Written + 1
    BY LinesInBounds DEF Written
  <1>2. pos <= 2 * Len(log) + residue /\ (writer = "closed" => pos = 2 * Len(log) + residue)
    BY DEF PositionsOrdered, Total
  <1> QED
    BY <1>1, <1>2

\* A record never takes bytes back.
LEMMA MaybeFlushGrows ==
    ASSUME LogInv, NEW kind \in RecordedKinds, NEW at \in Spills,
           MaybeFlush(kind, at, 2 * Len(log) + 2)
    PROVE  pos <= pos'
  <1> USE DEF LogInv, TypeOK
  <1> DEFINE end == 2 * Len(log) + 2
  <1>1. at \in Nat /\ end \in Nat /\ pos <= at /\ at <= end
    BY DEF Spills, Total, PositionsOrdered
  <1> HIDE DEF end
  <1>2. ASSUME NEW f \in FlushResults(at, end), pos' = f.pos PROVE pos <= pos'
    BY <1>1, <1>2, FlushResultsBounds
  <1>3. pos' = at \/ \E f \in FlushResults(at, end) : pos' = f.pos
    BY DEF MaybeFlush, NoFlush, DoFlush, DoFlushDurable, end
  <1> QED
    BY <1>1, <1>2, <1>3

\* A log that is cut behind the page cache keeps every line in it.
LEMMA CutGrows ==
    ASSUME LogInv, NEW p \in pos .. Total, CutAt(p)
    PROVE  CacheGrows
  <1> USE DEF LogInv, TypeOK
  <1>1. p \in Nat /\ pos <= p /\ p <= 2 * Len(log) + residue
    BY DEF Total
  <1>2. Written <= LinesIn(p) /\ LinesIn(p) \in Nat /\ Written \in Nat
    BY <1>1, LinesInGrow DEF Written
  <1>3. LinesIn(p) <= Len(log)
    <2>1. LinesIn(p) \in Nat /\ 2 * LinesIn(p) <= p
      BY <1>1, LinesInBounds
    <2>2. \A m, l \in Nat : 2 * m <= 2 * l + 1 => m <= l
      OBVIOUS
    <2>3. Len(log) \in Nat /\ residue \in {0, 1}
      OBVIOUS
    <2>4. 2 * LinesIn(p) <= 2 * Len(log) + 1
      BY <1>1, <2>1, <2>3
    <2> QED
      BY <2>1, <2>2, <2>3, <2>4
  <1>4. pos' = p /\ log' = SubSeq(log, 1, LinesIn(p))
    BY DEF CutAt
  <1>5. Written' = LinesIn(p)
    BY <1>4 DEF Written, LinesIn
  <1>6. \A i \in 1 .. LinesIn(p) : log'[i] = log[i]
    BY <1>2, <1>3, <1>4, CutLines
  <1> QED
    BY <1>2, <1>5, <1>6 DEF CacheGrows

\* A line that grows the log by appending keeps the lines of the page cache.
LEMMA AppendGrows ==
    ASSUME LogInv, NEW line \in LineType, log' = Append(log, line), Written <= Written'
    PROVE  CacheGrows
  <1>1. Written \in Nat /\ Written <= Len(log)
    BY WrittenBounds
  <1>2. \A i \in 1 .. Len(log) : log'[i] = log[i]
    BY DEF LogInv, TypeOK
  <1>3. \A i \in 1 .. Written : i \in 1 .. Len(log)
    BY <1>1 DEF LogInv, TypeOK
  <1> QED
    BY <1>2, <1>3 DEF CacheGrows

\* The record of a repair is a line.
LEMMA RepairType == LogInv => RepairLine \in LineType /\ RepairLine.kind = "repair"
  <1> SUFFICES ASSUME LogInv PROVE RepairLine \in LineType /\ RepairLine.kind = "repair"
    OBVIOUS
  <1> USE DEF LogInv, TypeOK
  <1>1. Len(log) > 0 => log[Len(log)] \in LineType
    OBVIOUS
  <1>2. LastTurn \in Nat
    BY <1>1 DEF LastTurn, LineType
  <1> QED
    BY <1>2 DEF RepairLine, LineType, Kinds

\* The line a successful record appends.
LEMMA RecordHandsOver ==
    ASSUME LogInv, NEW kind \in RecordedKinds, RecordOk(kind)
    PROVE  \E line \in LineType : log' = Append(log, line) /\ line.kind = kind
  <1> DEFINE line == [seq |-> nextSeq, turn |-> TurnOf(kind), kind |-> kind,
                      text |-> IF residue = 0 THEN "event" ELSE "garbled"]
  <1>1. line \in LineType /\ line.kind = kind
    BY DEF LogInv, TypeOK, TurnOf, LineType, Kinds
  <1>2. log' = Append(log, line)
    BY DEF RecordOk
  <1> QED
    BY <1>1, <1>2

\* Only a power loss takes a complete line out of the page cache: not the
\* writer, not its failures, not the death of the process, not a repair.
LEMMA CacheStays ==
    ASSUME LogInv,
           Open \/ Record \/ Flush \/ SyncTask \/ Close \/ Crash
    PROVE  CacheGrows
  <1> USE DEF LogInv, TypeOK
  <1>1. Written \in Nat /\ Written <= Len(log)
    BY WrittenBounds
  <1>2. ASSUME log' = log, pos' \in Nat, pos <= pos' PROVE CacheGrows
    <2>1. Written <= Written'
      BY <1>2, LinesInGrow DEF Written, LinesIn
    <2> QED
      BY <1>2, <2>1 DEF CacheGrows
  <1>3. CASE Open
    <2>1. Written = Len(log) /\ pos' = 2 * Len(log)
      BY <1>3, WrittenBounds DEF Open, Locked
    <2>2. Written' = Len(log)
      BY <2>1, LinesInEnd DEF Written, LinesIn
    <2>3. Written <= Written'
      BY <1>1, <2>1, <2>2
    <2>4. CASE residue = 1
      BY <1>3, <2>3, <2>4, RepairType, AppendGrows DEF Open
    <2>5. CASE residue # 1
      BY <1>3, <2>3, <2>5 DEF Open, CacheGrows
    <2> QED
      BY <2>4, <2>5
  <1>4. ASSUME NEW kind \in RecordedKinds, RecordOk(kind) PROVE CacheGrows
    <2>1. pos <= pos' /\ pos' \in Nat
      BY <1>4, MaybeFlushGrows, MaybeFlushBounds DEF RecordOk
    <2>2. Written <= Written'
      BY <2>1, LinesInGrow DEF Written, LinesIn
    <2> QED
      BY <1>4, <2>2, RecordHandsOver, AppendGrows
  <1>5. ASSUME NEW kind \in RecordedKinds, RecordFail(kind) PROVE CacheGrows
    BY <1>2, <1>5 DEF RecordFail
  <1>6. CASE Flush
    BY <1>2, <1>6 DEF Flush, FlushOk, FlushFail, Total, PositionsOrdered
  <1>7. CASE SyncTask
    BY <1>2, <1>7 DEF SyncTask, SyncTaskOk, SyncTaskFail
  <1>8. CASE Close \/ Crash
    <2>1. Total \in pos .. Total
      BY DEF PositionsOrdered, Total
    <2>2. \E p \in pos .. Total : CutAt(p)
      BY <1>8, <2>1 DEF Close, CloseOk, CloseFail, Crash
    <2> QED
      BY <2>2, CutGrows
  <1> QED
    BY <1>3, <1>4, <1>5, <1>6, <1>7, <1>8 DEF Record

-----------------------------------------------------------------------------
(* The sidecar. *)

\* The parts of ITypeOK.
SideOK == clock \in Nat /\ mtime \in 0 .. clock /\ lossy \in Nat
AccOK == acc \in [count : Nat, turns : Nat, whole : BOOLEAN]
ListerOK ==
    lister \in [at : {"idle"}]
               \cup [at : {"stated"}, len : Nat, mtime : Nat]
               \cup [at : {"read"}, index : Stats]

\* The sidecar's types, variable by variable.
LEMMA ITypeParts ==
    ITypeOK <=> TypeOK /\ SideOK /\ AccOK /\ index \in Stats /\ ListerOK
  BY DEF ITypeOK, SideOK, AccOK, ListerOK

\* Every step of the sidecar's module is a step of the log, or leaves it alone.
LEMMA StepsOfLog == [INext]_allVars => [Next]_vars
  BY DEF INext, IOpen, IRecordOk, IQuiet, ICloseOk, IPowerLoss, ListStat, ListRead,
         ListStore, allVars, Next, Record, Close

\* Time goes forward, and a file that changed has the latest.
LEMMA TouchTime ==
    ASSUME SideOK, Touch
    PROVE  /\ clock' \in Nat /\ clock <= clock' /\ mtime' \in 0 .. clock'
           /\ pos' # pos => mtime' = clock'
           /\ pos' = pos => mtime' = mtime
  BY DEF SideOK, Touch

\* A fold over lines of the page cache stays one.
LEMMA SoundKept ==
    ASSUME CacheGrows, Written \in Nat, Written' \in Nat,
           NEW x, x.count \in Nat, Sound(x)
    PROVE  Sound(x)'
  <1>1. x.count <= Written'
    BY DEF CacheGrows, Sound
  <1>2. \A i \in 1 .. x.count : log'[i] = log[i]
    BY DEF CacheGrows, Sound
  <1>3. TurnRows(x.count)' = TurnRows(x.count)
    BY <1>2, TurnRowsKept
  <1>4. x.turns = Cardinality(TurnRows(x.count)')
    BY <1>3 DEF Sound
  <1> QED
    BY <1>1, <1>4 DEF Sound, LinesIn

\* A sidecar that was left ahead of the log by a power loss stays recognisable.
LEMMA StaleKept ==
    ASSUME SideOK, Touch, Stale, index \in Stats, index' = index
    PROVE  Stale'
  <1>1. /\ clock' \in Nat /\ clock <= clock' /\ mtime' \in 0 .. clock'
        /\ pos' # pos => mtime' = clock'
        /\ pos' = pos => mtime' = mtime
    BY TouchTime
  <1>2. index.mtime \in Int /\ clock \in Nat /\ mtime \in Nat
    BY DEF Stats, SideOK
  <1>3. index.mtime < clock'
    BY <1>1, <1>2 DEF Stale
  <1>4. CASE pos' = pos
    <2>1. Written' = Written /\ mtime' = mtime
      BY <1>1, <1>4 DEF Written, LinesIn
    <2> QED
      BY <1>3, <2>1 DEF Stale
  <1>5. CASE pos' # pos
    BY <1>1, <1>3, <1>5 DEF Stale
  <1> QED
    BY <1>4, <1>5

\* Complete lines are counted in Nat, before and after.
LEMMA WrittenNat == ASSUME LogInv, LogInv' PROVE Written \in Nat /\ Written' \in Nat
  <1>1. pos \in Nat /\ pos' \in Nat
    BY DEF LogInv, TypeOK
  <1>2. LinesIn(pos) \in Nat /\ LinesIn(pos') \in Nat
    BY <1>1, LinesInBounds
  <1> QED
    BY <1>2 DEF Written, LinesIn

\* A step of the log that leaves the sidecar alone leaves it as sound as it was.
LEMMA SidecarKept ==
    ASSUME IndexInv, LogInv', CacheGrows, Touch, index' = index, lossy' = lossy
    PROVE  SidecarSound'
  <1>1. SideOK /\ index \in Stats
    BY ITypeParts DEF IndexInv
  <1>2. Written \in Nat /\ Written' \in Nat
    BY WrittenNat DEF IndexInv
  <1> SUFFICES ASSUME index # NoIndex
               PROVE  /\ index.len \in Nat /\ index.mtime <= clock'
                      /\ lossy <= 1 => Sound(index)' \/ (lossy = 1 /\ Stale')
    BY DEF SidecarSound
  <1>3. /\ index.len \in Nat /\ index.mtime <= clock
        /\ lossy <= 1 => Sound(index) \/ (lossy = 1 /\ Stale)
    BY DEF IndexInv, SidecarSound
  <1>4. index.mtime <= clock'
    <2>1. clock' \in Nat /\ clock <= clock'
      BY <1>1, TouchTime
    <2>2. index.mtime \in Int /\ clock \in Nat
      BY <1>1 DEF Stats, SideOK
    <2> QED
      BY <1>3, <2>1, <2>2
  <1>5. ASSUME Sound(index) PROVE Sound(index)'
    <2>1. PICK x : x = index
      OBVIOUS
    <2>2. x.count \in Nat /\ Sound(x)
      BY <1>1, <1>5, <2>1 DEF Stats
    <2>3. Sound(x)'
      BY <1>2, <2>2, SoundKept
    <2> QED
      BY <2>1, <2>3
  <1>6. ASSUME Stale PROVE Stale'
    BY <1>1, <1>6, StaleKept
  <1> QED
    BY <1>3, <1>4, <1>5, <1>6

\* So does one that leaves the lister alone.
LEMMA ListerKept ==
    ASSUME IndexInv, LogInv', CacheGrows, Touch, lister' = lister
    PROVE  ListerSound'
  <1>1. SideOK /\ ListerOK
    BY ITypeParts DEF IndexInv
  <1>2. Written \in Nat /\ Written' \in Nat /\ Written <= Written'
    BY WrittenNat DEF IndexInv, CacheGrows
  <1>3. clock' \in Nat /\ clock <= clock' /\ clock \in Nat
    BY <1>1, TouchTime DEF SideOK
  <1>4. CASE lister.at = "stated"
    <2>1. lister.len \in Nat /\ lister.mtime \in Nat
      BY <1>1, <1>4 DEF ListerOK
    <2>2. LinesIn(lister.len) \in Nat
      BY <2>1, LinesInBounds
    <2>3. LinesIn(lister.len) <= Written /\ lister.mtime <= clock
      BY <1>4 DEF IndexInv, ListerSound
    <2>4. LinesIn(lister.len) <= Written' /\ lister.mtime <= clock'
      BY <1>2, <1>3, <2>1, <2>2, <2>3
    <2> QED
      BY <1>4, <2>4 DEF ListerSound, LinesIn
  <1>5. CASE lister.at = "read"
    <2>1. lister.index \in Stats
      BY <1>1, <1>5 DEF ListerOK
    <2>2. /\ lister.index.len \in Nat /\ lister.index.mtime <= clock
          /\ Sound(lister.index)
      BY <1>5 DEF IndexInv, ListerSound
    <2>3. PICK x : x = lister.index
      OBVIOUS
    <2>4. x.count \in Nat /\ Sound(x)
      BY <2>1, <2>2, <2>3 DEF Stats
    <2>5. Sound(x)'
      BY <1>2, <2>4, SoundKept
    <2>6. Sound(lister.index)'
      BY <2>3, <2>5
    <2>7. lister.index.mtime <= clock'
      <3>1. lister.index.mtime \in Int
        BY <2>1 DEF Stats
      <3> QED
        BY <1>3, <2>2, <3>1
    <2> QED
      BY <1>5, <2>2, <2>6, <2>7 DEF ListerSound
  <1>6. CASE lister.at \notin {"stated", "read"}
    BY <1>6 DEF ListerSound
  <1> QED
    BY <1>4, <1>5, <1>6

-----------------------------------------------------------------------------
(* The accumulator. *)

AccType == [count : Nat, turns : Nat, whole : BOOLEAN]

\* AccumulatorWhole without the record that Fold builds.
AccFolds ==
    lossy <= 1 /\ writer = "open" /\ acc.whole =>
        /\ acc.count = Len(log)
        /\ acc.turns = Cardinality(TurnRows(Len(log)))

\* The accumulator's invariant, before and after a step.
LEMMA AccParts == (AccumulatorWhole <=> AccFolds) /\ (AccumulatorWhole' <=> AccFolds')
  <1>1. Fold(Len(log)).turns = Cardinality(TurnRows(Len(log)))
    BY DEF Fold, Fresh, TurnRows
  <1>2. Fold(Len(log))'.turns = Cardinality(TurnRows(Len(log))')
    BY DEF Fold, Fresh, TurnRows
  <1> QED
    BY <1>1, <1>2 DEF AccumulatorWhole, AccFolds

\* One event more.
LEMMA ObserveFields ==
    ASSUME NEW a \in AccType, NEW line
    PROVE  /\ Observe(a, line) \in AccType
           /\ Observe(a, line).count = a.count + 1
           /\ Observe(a, line).turns = a.turns + (IF line.kind = "turn_start" THEN 1 ELSE 0)
           /\ Observe(a, line).whole = a.whole
  <1> DEFINE t == IF line.kind = "turn_start" THEN a.turns + 1 ELSE a.turns
  <1>1. a.count \in Nat /\ a.turns \in Nat /\ a.whole \in BOOLEAN
    BY DEF AccType
  <1>2. t \in Nat /\ t = a.turns + (IF line.kind = "turn_start" THEN 1 ELSE 0)
    BY <1>1
  <1>3. Observe(a, line) = [a EXCEPT !.count = a.count + 1, !.turns = t]
    BY DEF Observe, AccType
  <1> HIDE DEF t
  <1>4. Observe(a, line) \in AccType
    <2>1. Observe(a, line) = [count |-> a.count + 1, turns |-> t, whole |-> a.whole]
      BY <1>3 DEF AccType
    <2>2. a.count + 1 \in Nat
      BY <1>1
    <2> QED
      BY <1>1, <1>2, <2>1, <2>2 DEF AccType
  <1>5. Observe(a, line).count = a.count + 1 /\ Observe(a, line).turns = t
    BY <1>3 DEF AccType
  <1>6. Observe(a, line).whole = a.whole
    BY <1>3 DEF AccType
  <1> QED
    BY <1>2, <1>4, <1>5, <1>6

\* An accumulator that has seen every line has seen the next one too.
LEMMA ObserveFolds ==
    ASSUME log \in Seq(LineType), NEW line \in LineType, log' = Append(log, line),
           NEW a \in AccType, a.count = Len(log),
           a.turns = Cardinality(TurnRows(Len(log)))
    PROVE  /\ Observe(a, line).count = Len(log')
           /\ Observe(a, line).turns = Cardinality(TurnRows(Len(log))')
  BY TurnRowsGrow, ObserveFields

\* What open_path seeds: an index over exactly the lines left is a fold over
\* them.  A stale one carries an earlier time than the log, or more lines.
LEMMA SeedFolds ==
    ASSUME IndexInv, Open, Touch
    PROVE  /\ Seed \in AccType
           /\ lossy <= 1 /\ Seed.whole => Seed.count = Len(log)
                                          /\ Seed.turns = Cardinality(TurnRows(Len(log)))
  <1>1. SideOK /\ index \in Stats /\ LogInv
    BY ITypeParts DEF IndexInv
  <1>2. Written = Len(log) /\ Written \in Nat
    BY <1>1, WrittenBounds DEF Open, Locked, LogInv, TypeOK
  <1>3. CASE ValidFor(2 * Len(log), mtime') /\ index.count = Len(log)
    <2>1. Seed = [count |-> index.count, turns |-> index.turns, whole |-> TRUE]
      BY <1>3 DEF Seed
    <2>2. Seed \in AccType /\ Seed.count = Len(log) /\ Seed.turns = index.turns
      BY <1>1, <1>3, <2>1 DEF Stats, AccType
    <2>3. index # NoIndex /\ index.mtime = mtime'
      BY <1>3 DEF ValidFor
    <2>4. ~Stale
      <3> SUFFICES ASSUME Stale PROVE FALSE
        OBVIOUS
      <3>1. /\ clock' \in Nat /\ clock <= clock'
            /\ pos' # pos => mtime' = clock'
            /\ pos' = pos => mtime' = mtime
        BY <1>1, TouchTime
      <3>2. clock \in Nat /\ mtime \in Nat
        BY <1>1 DEF SideOK
      <3>3. index.mtime < clock /\ (Written < index.count \/ index.mtime < mtime)
        BY DEF Stale
      <3>4. mtime' \in Nat
        BY <1>1, TouchTime
      <3>5. ~(Written < index.count)
        BY <1>2, <1>3
      <3> QED
        BY <2>3, <3>1, <3>2, <3>3, <3>4, <3>5
    <2>5. lossy <= 1 => Sound(index)
      BY <2>3, <2>4 DEF IndexInv, SidecarSound
    <2>6. lossy <= 1 => index.turns = Cardinality(TurnRows(Len(log)))
      BY <1>3, <2>5 DEF Sound
    <2> QED
      BY <2>2, <2>6
  <1>4. CASE ~(ValidFor(2 * Len(log), mtime') /\ index.count = Len(log))
    <2>1. Seed = [Fresh EXCEPT !.whole = (Len(log) = 0)]
      BY <1>4 DEF Seed
    <2>2. Seed \in AccType /\ Seed.count = 0 /\ Seed.turns = 0 /\ (Seed.whole <=> Len(log) = 0)
      BY <2>1 DEF Fresh, AccType
    <2>3. ASSUME Len(log) = 0 PROVE Cardinality(TurnRows(Len(log))) = 0
      <3>1. TurnRows(Len(log)) = {}
        BY <2>3 DEF TurnRows
      <3> QED
        BY <3>1, FS_EmptySet
    <2> QED
      BY <2>2, <2>3
  <1> QED
    BY <1>3, <1>4

\* A writer opens.
LEMMA OpenAcc ==
    ASSUME IndexInv, IOpen
    PROVE  AccOK' /\ AccFolds'
  <1>0. Open /\ Touch /\ lossy' = lossy
    BY DEF IOpen
  <1>1. PICK a : a = Seed
    OBVIOUS
  <1>2. a \in AccType
    BY <1>0, <1>1, SeedFolds
  <1>3. lossy <= 1 /\ a.whole => a.count = Len(log) /\ a.turns = Cardinality(TurnRows(Len(log)))
    BY <1>0, <1>1, SeedFolds
  <1>4. CASE residue = 1
    <2>1. PICK line : line = RepairLine
      OBVIOUS
    <2>2. line \in LineType /\ log' = Append(log, line) /\ acc' = Observe(a, line)
      BY <1>0, <1>1, <1>4, <2>1, RepairType DEF IndexInv, IOpen, Open
    <2>3. acc' \in AccType /\ acc'.whole = a.whole
      BY <1>2, <2>2, ObserveFields
    <2>4. log \in Seq(LineType)
      BY DEF IndexInv, LogInv, TypeOK
    <2>5. lossy <= 1 /\ a.whole => acc'.count = Len(log')
                                   /\ acc'.turns = Cardinality(TurnRows(Len(log))')
      BY <1>2, <1>3, <2>2, <2>4, ObserveFolds
    <2> QED
      BY <1>0, <2>3, <2>5 DEF AccOK, AccType, AccFolds
  <1>5. CASE residue # 1
    <2>1. log' = log /\ acc' = a
      BY <1>0, <1>1, <1>5 DEF IOpen, Open
    <2>2. TurnRows(Len(log))' = TurnRows(Len(log))
      BY <2>1 DEF TurnRows
    <2> QED
      BY <1>0, <1>2, <1>3, <2>1, <2>2 DEF AccOK, AccType, AccFolds
  <1> QED
    BY <1>4, <1>5

\* A record is observed.
LEMMA RecordAcc ==
    ASSUME IndexInv, IRecordOk
    PROVE  AccOK' /\ AccFolds'
  <1>1. PICK kind \in RecordedKinds : RecordOk(kind)
    BY DEF IRecordOk
  <1>2. log \in Seq(LineType) /\ acc \in AccType /\ LogInv
    BY DEF IndexInv, LogInv, TypeOK, ITypeOK, AccType
  <1>3. PICK line \in LineType : log' = Append(log, line)
    BY <1>1, <1>2, RecordHandsOver
  <1>4. log'[Len(log')] = line
    BY <1>2, <1>3
  <1>5. acc' = Observe(acc, line) /\ lossy' = lossy /\ writer = "open"
    BY <1>1, <1>4 DEF IRecordOk, RecordOk
  <1>6. PICK a : a = acc
    OBVIOUS
  <1>7. acc' \in AccType /\ acc'.whole = a.whole
    BY <1>2, <1>5, <1>6, ObserveFields
  <1>8. lossy <= 1 /\ a.whole => a.count = Len(log) /\ a.turns = Cardinality(TurnRows(Len(log)))
    BY <1>5, <1>6, AccParts DEF IndexInv, AccFolds
  <1>9. lossy <= 1 /\ a.whole => acc'.count = Len(log')
                                 /\ acc'.turns = Cardinality(TurnRows(Len(log))')
    BY <1>2, <1>3, <1>5, <1>6, <1>8, ObserveFolds
  <1> QED
    BY <1>5, <1>7, <1>9 DEF AccOK, AccType, AccFolds

\* The other steps of a living writer leave the lines handed over alone, and
\* the rest end it.
LEMMA QuietAcc ==
    ASSUME IndexInv, acc' = acc, lossy <= lossy', lossy' \in Nat,
           writer' # "open" \/ (log' = log /\ writer' = writer)
    PROVE  AccOK' /\ AccFolds'
  <1>1. acc \in [count : Nat, turns : Nat, whole : BOOLEAN] /\ AccFolds /\ lossy \in Nat
    BY AccParts DEF IndexInv, ITypeOK
  <1>2. CASE writer' # "open"
    BY <1>1, <1>2 DEF AccOK, AccFolds
  <1>3. CASE log' = log /\ writer' = writer
    <2>1. TurnRows(Len(log))' = TurnRows(Len(log))
      BY <1>3 DEF TurnRows
    <2> QED
      BY <1>1, <1>3, <2>1 DEF AccOK, AccFolds
  <1> QED
    BY <1>2, <1>3

-----------------------------------------------------------------------------
(* One lemma per group of actions. *)

\* The invariant from its parts.
LEMMA FromParts ==
    ASSUME LogInv', SideOK', AccOK', index' \in Stats, ListerOK', SidecarSound', ListerSound',
           AccFolds'
    PROVE  IndexInv'
  <1>1. TypeOK'
    BY DEF LogInv
  <1>2. ITypeOK'
    BY <1>1 DEF ITypeOK, SideOK, AccOK, ListerOK
  <1> QED
    BY <1>2, AccParts DEF IndexInv

\* Steps of the log that leave sidecar and lister alone.
LEMMA WriterStep ==
    ASSUME IndexInv, LogInv', IOpen \/ IRecordOk \/ IQuiet
    PROVE  IndexInv'
  <1>1. LogInv /\ SideOK /\ index \in Stats /\ ListerOK
    BY ITypeParts DEF IndexInv
  <1>2. Touch /\ index' = index /\ lister' = lister /\ lossy' = lossy
    BY DEF IOpen, IRecordOk, IQuiet
  <1>3. Open \/ Record \/ Flush \/ SyncTask \/ Close \/ Crash
    BY DEF IOpen, IRecordOk, IQuiet, Record, Close
  <1>4. CacheGrows
    BY <1>1, <1>3, CacheStays
  <1>5. SidecarSound' /\ ListerSound'
    BY <1>2, <1>4, SidecarKept, ListerKept
  <1>6. SideOK' /\ index' \in Stats /\ ListerOK'
    BY <1>1, <1>2, TouchTime DEF SideOK, ListerOK
  <1>7. AccOK' /\ AccFolds'
    <2>1. CASE IQuiet
      <3>1. writer' # "open" \/ (log' = log /\ writer' = writer)
        BY <2>1 DEF IQuiet, RecordFail, Flush, FlushOk, FlushFail, SyncTask, SyncTaskOk,
                    SyncTaskFail, CloseFail, Crash
      <3>2. acc' = acc /\ lossy <= lossy' /\ lossy' \in Nat
        BY <1>1, <1>2, <2>1 DEF IQuiet, SideOK
      <3> QED
        BY <3>1, <3>2, QuietAcc
    <2> QED
      BY <2>1, OpenAcc, RecordAcc
  <1> QED
    BY <1>5, <1>6, <1>7, FromParts

\* close publishes an accumulator that has seen every line.
LEMMA CloseStep ==
    ASSUME IndexInv, LogInv', ICloseOk
    PROVE  IndexInv'
  <1>1. LogInv /\ SideOK /\ index \in Stats /\ ListerOK /\ acc \in AccType /\ AccFolds
    BY ITypeParts, AccParts DEF IndexInv, AccOK, AccType
  <1>2. CloseOk /\ Touch /\ acc' = acc /\ lister' = lister /\ lossy' = lossy
    BY DEF ICloseOk
  <1>3. CacheGrows
    BY <1>1, <1>2, CacheStays DEF Close
  <1>4. ListerSound'
    BY <1>2, <1>3, ListerKept
  <1>5. AccOK' /\ AccFolds'
    <2>1. writer' # "open" /\ lossy <= lossy' /\ lossy' \in Nat
      BY <1>1, <1>2 DEF CloseOk, SideOK
    <2> QED
      BY <1>2, <2>1, QuietAcc
  <1>6. SideOK' /\ ListerOK'
    BY <1>1, <1>2, TouchTime DEF SideOK, ListerOK
  <1>7. CASE index' = index
    BY <1>1, <1>2, <1>3, <1>4, <1>5, <1>6, <1>7, SidecarKept, FromParts
  <1>8. CASE acc.whole /\ index' = Finish(acc, pos', mtime')
    <2>1. pos' = Total /\ log' = SubSeq(log, 1, LinesIn(Total)) /\ writer = "open"
      BY <1>2 DEF CloseOk, CutAt
    <2>2. LinesIn(Total) = Len(log) /\ Total \in Nat
      <3>1. Len(log) \in Nat /\ residue \in {0, 1}
        BY <1>1 DEF LogInv, TypeOK
      <3>2. Total \in {2 * Len(log), 2 * Len(log) + 1} /\ Total \in Nat
        BY <3>1 DEF Total
      <3>3. LinesIn(2 * Len(log)) = Len(log) /\ LinesIn(2 * Len(log) + 1) = Len(log)
        BY <3>1, LinesInEnd
      <3> QED
        BY <3>2, <3>3
    <2>3. log' = log /\ Written' = Len(log) /\ Len(log) \in Nat
      BY <1>1, <2>1, <2>2 DEF LogInv, TypeOK, Written, LinesIn
    <2>4. /\ index'.len = pos' /\ index'.mtime = mtime'
          /\ index'.count = acc.count /\ index'.turns = acc.turns
      BY <1>8 DEF Finish
    <2>5. pos' \in Nat /\ mtime' \in 0 .. clock' /\ clock' \in Nat
      BY <1>6, <2>1, <2>2 DEF SideOK
    <2>6. index' \in Stats
      BY <1>1, <1>8, <2>5 DEF Finish, Stats, AccType
    <2>7. lossy <= 1 => Sound(index)'
      <3> SUFFICES ASSUME lossy <= 1 PROVE Sound(index)'
        OBVIOUS
      <3>1. acc.count = Len(log) /\ acc.turns = Cardinality(TurnRows(Len(log)))
        BY <1>1, <1>8, <2>1 DEF AccFolds
      <3>2. index'.count <= Written'
        BY <2>3, <2>4, <3>1
      <3>3. LinesIn(index.len)' = LinesIn(Total)
        BY <2>1, <2>4 DEF LinesIn
      <3>4. LinesIn(index.len)' <= index'.count
        BY <2>2, <2>3, <2>4, <3>1, <3>3
      <3>5. TurnRows(index.count)' = TurnRows(Len(log))
        BY <2>3, <2>4, <3>1 DEF TurnRows
      <3> QED
        BY <2>4, <3>1, <3>2, <3>4, <3>5 DEF Sound
    <2>8. SidecarSound'
      BY <1>2, <2>4, <2>5, <2>7 DEF SidecarSound
    <2> QED
      BY <1>4, <1>5, <1>6, <2>6, <2>8, FromParts
  <1> QED
    BY <1>7, <1>8 DEF ICloseOk

\* A power loss takes lines away: the sidecar still folds what is left, or is
\* ahead of it.
LEMMA LossStep ==
    ASSUME IndexInv, LogInv', IPowerLoss
    PROVE  IndexInv'
  <1>1. LogInv /\ SideOK /\ index \in Stats
    BY ITypeParts DEF IndexInv
  <1>2. /\ PowerLoss /\ mtime' \in 0 .. mtime /\ clock' = clock + 1
        /\ lister' = [at |-> "idle"] /\ lossy' = lossy + 1 /\ acc' = acc /\ index' = index
    BY DEF IPowerLoss
  <1>3. SideOK' /\ ListerOK' /\ ListerSound'
    BY <1>1, <1>2 DEF SideOK, ListerOK, ListerSound
  <1>4. AccOK' /\ AccFolds'
    <2>1. writer' # "open" /\ lossy <= lossy' /\ lossy' \in Nat
      BY <1>1, <1>2 DEF PowerLoss, SideOK
    <2> QED
      BY <1>2, <2>1, QuietAcc
  <1>5. Written' \in Nat /\ Written' <= Written /\ \A i \in 1 .. Written' : log'[i] = log[i]
    <2>1. PICK p \in 2 * durable .. pos : CutAt(p)
      BY <1>2 DEF PowerLoss
    <2>2. p \in Nat /\ p <= pos /\ pos \in Nat
      BY <1>1 DEF LogInv, TypeOK
    <2>3. LinesIn(p) <= Written /\ LinesIn(p) \in Nat /\ Written \in Nat
      BY <2>2, LinesInGrow DEF Written
    <2>4. Written <= Len(log) /\ log \in Seq(LineType)
      BY <1>1, WrittenBounds DEF LogInv, TypeOK
    <2>5. pos' = p /\ log' = SubSeq(log, 1, LinesIn(p)) /\ LinesIn(p) <= Len(log)
      BY <2>1, <2>3, <2>4 DEF CutAt
    <2>6. Written' = LinesIn(p)
      BY <2>5 DEF Written, LinesIn
    <2>7. \A i \in 1 .. LinesIn(p) : log'[i] = log[i]
      BY <2>3, <2>4, <2>5, CutLines
    <2> QED
      BY <2>3, <2>6, <2>7
  <1>6. SidecarSound'
    <2> SUFFICES ASSUME index # NoIndex
                 PROVE  /\ index.len \in Nat /\ index.mtime <= clock'
                        /\ lossy' <= 1 => Sound(index)' \/ (lossy' = 1 /\ Stale')
      BY <1>2 DEF SidecarSound
    <2>1. /\ index.len \in Nat /\ index.mtime <= clock
          /\ lossy <= 1 => Sound(index) \/ (lossy = 1 /\ Stale)
      BY DEF IndexInv, SidecarSound
    <2>2. clock \in Nat /\ lossy \in Nat /\ index.mtime \in Int /\ index.count \in Nat
      BY <1>1 DEF SideOK, Stats
    <2>3. index.mtime < clock' /\ index.mtime <= clock'
      BY <1>2, <2>1, <2>2
    <2>4. ASSUME lossy' <= 1 PROVE Sound(index)' \/ (lossy' = 1 /\ Stale')
      <3>1. lossy = 0 /\ lossy' = 1
        BY <1>2, <2>2, <2>4
      <3>2. Sound(index)
        BY <2>1, <3>1
      <3>3. CASE Written' < index.count
        BY <1>2, <2>3, <3>1, <3>3 DEF Stale
      <3>4. CASE ~(Written' < index.count)
        <4>1. PICK x : x = index
          OBVIOUS
        <4>2. x.count \in Nat /\ x.count <= Written' /\ Sound(x)
          BY <1>5, <2>2, <3>2, <3>4, <4>1
        <4>3. \A i \in 1 .. x.count : log'[i] = log[i]
          BY <1>5, <4>2
        <4>4. TurnRows(x.count)' = TurnRows(x.count)
          BY <4>2, <4>3, TurnRowsKept
        <4>5. x.turns = Cardinality(TurnRows(x.count)')
          BY <4>2, <4>4 DEF Sound
        <4>6. Sound(x)'
          BY <4>2, <4>5 DEF Sound, LinesIn
        <4> QED
          BY <1>2, <4>1, <4>6
      <3> QED
        BY <3>3, <3>4
    <2> QED
      BY <2>1, <2>3, <2>4
  <1> QED
    BY <1>1, <1>2, <1>3, <1>4, <1>6, FromParts

\* A list reads the lines that are in the page cache, some of which may have
\* come after it took the length.
LEMMA ListStep ==
    ASSUME IndexInv, LogInv', ListStat \/ ListRead \/ ListStore
    PROVE  IndexInv'
  <1>1. LogInv /\ SideOK /\ index \in Stats /\ ListerOK /\ AccOK /\ AccFolds
    BY ITypeParts, AccParts DEF IndexInv
  <1>2. UNCHANGED <<vars, clock, mtime, acc, lossy>>
    BY DEF ListStat, ListRead, ListStore
  <1>3. pos' = pos /\ log' = log /\ writer' = writer
    BY <1>2 DEF vars
  <1>4. SideOK' /\ AccOK' /\ AccFolds'
    BY <1>1, <1>2, <1>3 DEF SideOK, AccOK, AccFolds, TurnRows
  <1>5. Written \in Nat /\ Written' = Written /\ pos \in Nat /\ clock \in Nat /\ mtime \in 0 .. clock
    BY <1>1, <1>3, WrittenBounds DEF LogInv, TypeOK, Written, LinesIn, SideOK
  <1>6. ASSUME index' = index PROVE SidecarSound'
    BY <1>2, <1>3, <1>5, <1>6 DEF IndexInv, SidecarSound, Sound, Stale, TurnRows, LinesIn
  <1>7. CASE ListStat
    <2>1. lister' = [at |-> "stated", len |-> pos, mtime |-> mtime] /\ index' = index
      BY <1>7 DEF ListStat
    <2>2. ListerOK'
      BY <1>5, <2>1 DEF ListerOK
    <2>3. LinesIn(lister.len)' = Written
      BY <2>1 DEF LinesIn, Written
    <2>4. ListerSound'
      BY <1>2, <1>5, <2>1, <2>3 DEF ListerSound
    <2> QED
      BY <1>1, <1>4, <1>6, <2>1, <2>2, <2>4, FromParts
  <1>8. CASE ListRead
    <2>0. lister.at = "stated" /\ index' = index
      BY <1>8 DEF ListRead
    <2>1. lister.len \in Nat /\ lister.mtime \in Nat
      BY <1>1, <2>0 DEF ListerOK
    <2>2. LinesIn(lister.len) <= Written /\ lister.mtime <= clock
      BY <2>0 DEF IndexInv, ListerSound
    <2>3. PICK r : r = Finish(Fold(Written), lister.len, lister.mtime)
      OBVIOUS
    <2>4. /\ r.len = lister.len /\ r.mtime = lister.mtime /\ r.count = Written
          /\ r.turns = Cardinality(TurnRows(Written))
      BY <1>5, <2>3, FoldFields DEF Finish
    <2>5. r \in Stats
      <3>1. Cardinality(TurnRows(Written)) \in Nat
        BY <1>5, TurnRowsFinite
      <3>2. Fold(Written).count \in Nat /\ Fold(Written).turns \in Nat
        BY <1>5, <3>1, FoldFields
      <3> QED
        BY <2>1, <2>3, <3>2 DEF Finish, Stats
    <2>6. Sound(r)'
      <3>1. r.count = Written /\ LinesIn(r.len) <= r.count
        BY <2>2, <2>4
      <3>2. TurnRows(r.count)' = TurnRows(Written)
        BY <1>3, <2>4 DEF TurnRows
      <3> QED
        BY <1>5, <2>4, <3>1, <3>2 DEF Sound, LinesIn
    <2>7. CASE lister' = [at |-> "read", index |-> r]
      <3>1. ListerOK'
        BY <2>5, <2>7 DEF ListerOK
      <3>2. lister'.index = r /\ lister'.at = "read"
        BY <2>7
      <3>3. Sound(lister.index)'
        BY <2>6, <3>2
      <3>4. ListerSound'
        BY <1>2, <2>1, <2>2, <2>4, <3>2, <3>3 DEF ListerSound
      <3> QED
        BY <1>1, <1>4, <1>6, <2>0, <3>1, <3>4, FromParts
    <2>8. CASE lister' = [at |-> "idle"]
      BY <1>1, <1>4, <1>6, <2>0, <2>8, FromParts DEF ListerOK, ListerSound
    <2> QED
      BY <1>8, <2>3, <2>7, <2>8 DEF ListRead
  <1>9. CASE ListStore
    <2>1. lister.at = "read" /\ lister' = [at |-> "idle"]
      BY <1>9 DEF ListStore
    <2>2. ListerOK' /\ ListerSound'
      BY <2>1 DEF ListerOK, ListerSound
    <2>3. CASE index' = index
      BY <1>1, <1>4, <1>6, <2>2, <2>3, FromParts
    <2>4. CASE index' = lister.index
      <3>1. lister.index \in Stats
        BY <1>1, <2>1 DEF ListerOK
      <3>2. /\ lister.index.len \in Nat /\ lister.index.mtime <= clock
            /\ Sound(lister.index)
        BY <2>1 DEF IndexInv, ListerSound
      <3>3. Sound(index)'
        BY <1>3, <1>5, <2>4, <3>2 DEF Sound, TurnRows, LinesIn
      <3>4. SidecarSound'
        BY <1>2, <2>4, <3>2, <3>3 DEF SidecarSound
      <3> QED
        BY <1>4, <2>2, <2>4, <3>1, <3>4, FromParts
    <2> QED
      BY <1>9, <2>3, <2>4 DEF ListStore
  <1> QED
    BY <1>7, <1>8, <1>9

-----------------------------------------------------------------------------
(* Theorems. *)

\* The inductive invariant holds of every behaviour of writer and lists.
THEOREM IndexInvariant == ISpec => []IndexInv
  <1>1. IInit => IndexInv
    <2> SUFFICES ASSUME IInit PROVE IndexInv
      OBVIOUS
    <2>1. LogInv /\ TypeOK
      BY InitLogInv DEF IInit, LogInv
    <2>2. SideOK /\ AccOK /\ index \in Stats /\ ListerOK
      BY DEF IInit, SideOK, AccOK, Stats, NoIndex, ListerOK, Fresh
    <2>3. SidecarSound /\ ListerSound
      BY DEF IInit, SidecarSound, ListerSound
    <2>4. AccumulatorWhole
      BY DEF IInit, Init, AccumulatorWhole
    <2> QED
      BY <2>1, <2>2, <2>3, <2>4, ITypeParts DEF IndexInv
  <1>2. IndexInv /\ [INext]_allVars => IndexInv'
    <2> SUFFICES ASSUME IndexInv, [INext]_allVars PROVE IndexInv'
      OBVIOUS
    <2>1. LogInv'
      BY StepsOfLog, NextLogInv DEF IndexInv
    <2>2. CASE UNCHANGED allVars
      BY <2>2 DEF allVars, vars, sideVars, IndexInv, ITypeOK, LogInv, TypeOK, SeqContinuity,
                  PositionsOrdered, Total, SidecarSound, ListerSound, AccumulatorWhole, Sound,
                  Stale, TurnRows, LinesIn, Written, Fold
    <2> QED
      BY <2>1, <2>2, WriterStep, CloseStep, LossStep, ListStep DEF INext
  <1> QED
    BY <1>1, <1>2, PTL DEF ISpec

\* The variables of the sidecar stay in their ranges.
THEOREM IndexTypeCorrect == ISpec => []ITypeOK
  <1>1. IndexInv => ITypeOK
    BY DEF IndexInv
  <1> QED
    BY <1>1, IndexInvariant, PTL

\* "Never partial": for any log, any failures and any number of deaths of the
\* process, what a writer would publish on close has seen every line.
THEOREM AccumulatorComplete == ISpec => []AccumulatorWhole
  <1>1. IndexInv => AccumulatorWhole
    BY DEF IndexInv
  <1> QED
    BY <1>1, IndexInvariant, PTL

\* The log under writer and lists is the log of SessionLog: without a counted
\* failure all its lines parse.
THEOREM LogStaysIntact == ISpec => []DurabilityInv
  <1>1. IInit => DurabilityInv
    <2> SUFFICES ASSUME IInit PROVE DurabilityInv
      OBVIOUS
    <2>1. LogInv /\ Len(log) = 0 /\ residue = 0
      BY InitLogInv DEF IInit, Init
    <2> QED
      BY <2>1 DEF DurabilityInv, Drained, Intact, Ordered
  <1>2. DurabilityInv /\ [INext]_allVars => DurabilityInv'
    BY StepsOfLog, NextDurabilityInv
  <1> QED
    BY <1>1, <1>2, PTL DEF ISpec

\* Any number of lists that take no lock beside the writer never leave a
\* sidecar that validates and differs from a rebuild, except where a counted
\* failure makes the rebuild fail or one power loss took lines the sidecar had.
THEOREM SidecarFaithful == ISpec => []IndexFaithful
  <1>1. IndexInv /\ DurabilityInv => IndexFaithful
    <2> SUFFICES ASSUME IndexInv, DurabilityInv, lossy <= 1, ValidFor(pos, mtime)
                 PROVE  \/ Covers /\ ~ListFails
                        \/ Covers /\ ListFails /\ faults > 0
                        \/ index.count > Written /\ lossy = 1
      BY DEF IndexFaithful
    <2>1. index # NoIndex /\ index.len = pos /\ index.mtime = mtime
      BY DEF ValidFor
    <2>2. Written \in Nat /\ Written <= Len(log) /\ index.count \in Nat /\ mtime \in Nat
      BY WrittenBounds DEF IndexInv, ITypeOK, Stats
    <2>3. ListFails => faults > 0
      <3>1. faults \in Nat /\ Len(log) \in Nat
        BY DEF IndexInv, LogInv, TypeOK
      <3>2. faults = 0 => \A i \in 1 .. Len(log) : log[i].text = "event"
        BY DEF DurabilityInv, Intact
      <3>3. 1 .. Written \subseteq 1 .. Len(log)
        BY <2>2, <3>1
      <3> QED
        BY <3>1, <3>2, <3>3 DEF ListFails
    <2>4. CASE Sound(index)
      <3>1. index.count <= Written /\ Written <= index.count
        BY <2>1, <2>4 DEF Sound, Written
      <3>2. index.count = Written
        BY <2>2, <3>1
      <3>3. index.turns = Cardinality(TurnRows(Written))
        BY <2>4, <3>2 DEF Sound
      <3>4. Covers
        BY <2>2, <3>2, <3>3, FoldFields DEF Covers
      <3> QED
        BY <2>3, <3>4
    <2>5. CASE lossy = 1 /\ Stale
      <3>1. Written < index.count
        BY <2>1, <2>2, <2>5 DEF Stale
      <3> QED
        BY <2>2, <2>5, <3>1
    <2> QED
      BY <2>1, <2>4, <2>5 DEF IndexInv, SidecarSound
  <1> QED
    BY <1>1, IndexInvariant, LogStaysIntact, PTL
===============================================================================
