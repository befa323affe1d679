--------------------------- MODULE SessionTeeProofs ---------------------------
(***************************************************************************)
(* Proofs about SessionTee: its types, the recorder's step text, the       *)
(* answers cut short, the pairing of turns, the tokens, and the branches,  *)
(* for every value of the constants.                                       *)
(***************************************************************************)
EXTENDS SessionTee, FiniteSetTheorems, SequenceTheorems, WellFoundedInduction, TLAPS

(* Induction over the rows of a log.  The library's induction theorems take  *)
(* a predicate; here it is a set, and the least number outside of it.        *)

\* Every nonempty set of numbers has a least one.
LEMMA LeastNumber ==
    ASSUME NEW S \in SUBSET Nat, S # {}
    PROVE  \E n \in S : \A m \in S : n <= m
  <1>1. PICK n \in S : \A m \in S : <<m, n>> \notin OpToRel(<, Nat)
    BY NatLessThanWellFounded, WFMin, Zenon
  <1>2. ASSUME NEW m \in S PROVE n <= m
    <2>1. <<m, n>> \notin OpToRel(<, Nat)
      BY <1>1
    <2>2. ~(m < n)
      BY <2>1, SMT DEF OpToRel
    <2> QED
      BY <2>2
  <1> QED
    BY <1>1, <1>2

\* A set that has 0, and with a number below b the next one, has all up to b.
LEMMA Climb ==
    ASSUME NEW b \in Nat, NEW S,
           0 \in S, \A n \in Nat : n < b /\ n \in S => n + 1 \in S
    PROVE  \A n \in 0 .. b : n \in S
  <1> DEFINE D == {n \in 0 .. b : n \notin S}
  <1> SUFFICES ASSUME D # {} PROVE FALSE
    OBVIOUS
  <1>1. D \in SUBSET Nat
    OBVIOUS
  <1>2. PICK n \in D : \A m \in D : n <= m
    BY <1>1, LeastNumber
  <1>3. n \in Nat /\ n # 0 /\ n - 1 \in Nat /\ n - 1 < b /\ (n - 1) + 1 = n /\ ~(n <= n - 1)
    BY <1>2
  <1>4. n - 1 \in S
    BY <1>2, <1>3
  <1> QED
    BY <1>2, <1>3, <1>4

\* A nonempty set of numbers below a bound has a largest one.
LEMMA LargestNumber ==
    ASSUME NEW S \in SUBSET Nat, S # {}, NEW b \in Nat, \A n \in S : n <= b
    PROVE  \E n \in S : \A m \in S : m <= n
  <1> DEFINE U == {u \in Nat : \A n \in S : n <= u}
  <1>1. PICK u \in U : \A v \in U : u <= v
    <2>1. b \in U /\ U \in SUBSET Nat
      OBVIOUS
    <2> QED
      BY <2>1, LeastNumber
  <1>2. u \in S
    <2> SUFFICES ASSUME u \notin S PROVE FALSE
      OBVIOUS
    <2>1. PICK s \in S : TRUE
      OBVIOUS
    <2>2. u \in Nat /\ s \in Nat /\ s <= u /\ s # u
      BY <1>1, <2>1
    <2>3. u - 1 \in Nat /\ ~(u <= u - 1)
      BY <2>2
    <2>4. \A n \in S : n <= u - 1
      BY <1>1, <2>2
    <2> QED
      BY <1>1, <2>3, <2>4
  <1> QED
    BY <1>1, <1>2

\* Max is the largest number where there is one.
LEMMA MaxNumber ==
    ASSUME NEW S \in SUBSET Nat, S # {}, NEW b \in Nat, \A n \in S : n <= b
    PROVE  Max(S) \in S /\ \A m \in S : m <= Max(S)
  <1>1. PICK n \in S : \A m \in S : m <= n
    BY LargestNumber
  <1>2. \A m \in S : n >= m
    BY <1>1
  <1>3. Max(S) \in S /\ \A m \in S : Max(S) >= m
    BY <1>2, Zenon DEF Max
  <1> QED
    BY <1>3

\* Min is the least.
LEMMA MinNumber ==
    ASSUME NEW S \in SUBSET Nat, S # {}
    PROVE  Min(S) \in S /\ \A m \in S : Min(S) <= m
  <1>1. PICK n \in S : \A m \in S : n <= m
    BY LeastNumber
  <1>2. Min(S) \in S /\ \A m \in S : Min(S) <= m
    BY <1>1, Zenon DEF Min
  <1> QED
    BY <1>2

-----------------------------------------------------------------------------
(* The two folds of a log are determined by its rows, one by one. *)

IsProjection(f, log, n) ==
    f = [i \in 0 .. n |-> IF i = 0 THEN EmptyProjection ELSE FoldRow(f[i - 1], log[i])]

\* The projection of a log of any length exists.
LEMMA ProjectionExists ==
    ASSUME NEW log, NEW n \in Nat
    PROVE  \E f : IsProjection(f, log, n)
  <1> DEFINE S == {m \in Nat : \E f : IsProjection(f, log, m)}
  <1>1. 0 \in S
    <2> DEFINE g == [i \in 0 .. 0 |-> EmptyProjection]
    <2>1. IsProjection(g, log, 0)
      BY DEF IsProjection
    <2> QED
      BY <2>1
  <1>2. ASSUME NEW m \in Nat, m \in S PROVE m + 1 \in S
    <2>1. PICK f : IsProjection(f, log, m)
      BY <1>2
    <2> DEFINE g == [i \in 0 .. m + 1 |-> IF i = m + 1 THEN FoldRow(f[m], log[m + 1]) ELSE f[i]]
               h == [i \in 0 .. m + 1 |->
                        IF i = 0 THEN EmptyProjection ELSE FoldRow(g[i - 1], log[i])]
    <2>2. ASSUME NEW i \in 0 .. m + 1 PROVE g[i] = h[i]
      <3>1. CASE i = m + 1
        <4>1. g[i] = FoldRow(f[m], log[m + 1]) /\ g[i - 1] = f[m]
          BY <3>1
        <4>2. h[i] = FoldRow(g[i - 1], log[i])
          BY <3>1
        <4> QED
          BY <3>1, <4>1, <4>2
      <3>2. CASE i = 0
        BY <2>1, <3>2 DEF IsProjection
      <3>3. CASE i # 0 /\ i # m + 1
        <4>1. g[i] = f[i] /\ g[i - 1] = f[i - 1]
          BY <3>3
        <4>2. i \in 0 .. m /\ h[i] = FoldRow(g[i - 1], log[i])
          BY <3>3
        <4>3. f[i] = FoldRow(f[i - 1], log[i])
          BY <2>1, <3>3, <4>2 DEF IsProjection
        <4> QED
          BY <4>1, <4>2, <4>3
      <3> QED
        BY <3>1, <3>2, <3>3
    <2>3. g = h
      BY <2>2, Zenon
    <2>4. IsProjection(g, log, m + 1)
      BY <2>3 DEF IsProjection
    <2> QED
      BY <2>4
  <1>3. n \in S
    <2> HIDE DEF S
    <2>1. n \in 0 .. n
      OBVIOUS
    <2> QED
      BY <1>1, <1>2, <2>1, Climb
  <1> QED
    BY <1>3

\* It starts empty, and each row is folded into what is before it.
LEMMA ProjectionRows ==
    ASSUME NEW log, Len(log) \in Nat
    PROVE  /\ Projections(log)[0] = EmptyProjection
           /\ \A i \in 1 .. Len(log) :
                  Projections(log)[i] = FoldRow(Projections(log)[i - 1], log[i])
  <1>1. Projections(log) = CHOOSE f : IsProjection(f, log, Len(log))
    BY DEF Projections, IsProjection
  <1>2. IsProjection(Projections(log), log, Len(log))
    BY <1>1, ProjectionExists, Zenon
  <1> QED
    BY <1>2 DEF IsProjection

\* Logs that begin alike are projected alike.
LEMMA ProjectionAgrees ==
    ASSUME NEW a, NEW b, Len(a) \in Nat, Len(b) \in Nat,
           NEW n \in Nat, n <= Len(a), n <= Len(b), \A i \in 1 .. n : a[i] = b[i]
    PROVE  \A i \in 0 .. n : Projections(a)[i] = Projections(b)[i]
  <1> DEFINE S == {i \in 0 .. n : Projections(a)[i] = Projections(b)[i]}
  <1>1. 0 \in S
    BY ProjectionRows
  <1>2. ASSUME NEW i \in Nat, i < n, i \in S PROVE i + 1 \in S
    <2>1. i + 1 \in 1 .. Len(a) /\ i + 1 \in 1 .. Len(b) /\ i + 1 \in 1 .. n /\ (i + 1) - 1 = i
      BY <1>2
    <2>2. Projections(a)[i + 1] = FoldRow(Projections(a)[i], a[i + 1])
      BY <2>1, ProjectionRows
    <2>3. Projections(b)[i + 1] = FoldRow(Projections(b)[i], b[i + 1])
      BY <2>1, ProjectionRows
    <2>4. a[i + 1] = b[i + 1] /\ i + 1 \in 0 .. n
      BY <2>1
    <2>5. Projections(a)[i] = Projections(b)[i]
      BY <1>2
    <2>6. Projections(a)[i + 1] = Projections(b)[i + 1]
      BY <2>2, <2>3, <2>4, <2>5
    <2> QED
      BY <2>4, <2>6
  <1>3. \A i \in 0 .. n : i \in S
    <2> HIDE DEF S
    <2> QED
      BY <1>1, <1>2, Climb
  <1> QED
    BY <1>3

\* What one row does to the text streamed before it.
StreamRow(text, row) ==
    IF row.kind \in {"user", "tool_result", "turn_end"} THEN <<>>
    ELSE IF row.kind = "chunk" THEN text \o row.text
    ELSE text

IsStreamed(f, log, n) ==
    f = [i \in 0 .. n |-> IF i = 0 THEN <<>> ELSE StreamRow(f[i - 1], log[i])]

\* The streamed text of a log of any length exists.
LEMMA StreamedExists ==
    ASSUME NEW log, NEW n \in Nat
    PROVE  \E f : IsStreamed(f, log, n)
  <1> DEFINE S == {m \in Nat : \E f : IsStreamed(f, log, m)}
  <1>1. 0 \in S
    <2> DEFINE g == [i \in 0 .. 0 |-> <<>>]
    <2>1. IsStreamed(g, log, 0)
      BY DEF IsStreamed
    <2> QED
      BY <2>1
  <1>2. ASSUME NEW m \in Nat, m \in S PROVE m + 1 \in S
    <2>1. PICK f : IsStreamed(f, log, m)
      BY <1>2
    <2> DEFINE g == [i \in 0 .. m + 1 |-> IF i = m + 1 THEN StreamRow(f[m], log[m + 1]) ELSE f[i]]
               h == [i \in 0 .. m + 1 |->
                        IF i = 0 THEN <<>> ELSE StreamRow(g[i - 1], log[i])]
    <2>2. ASSUME NEW i \in 0 .. m + 1 PROVE g[i] = h[i]
      <3>1. CASE i = m + 1
        <4>1. g[i] = StreamRow(f[m], log[m + 1]) /\ g[i - 1] = f[m]
          BY <3>1
        <4>2. h[i] = StreamRow(g[i - 1], log[i])
          BY <3>1
        <4> QED
          BY <3>1, <4>1, <4>2
      <3>2. CASE i = 0
        BY <2>1, <3>2 DEF IsStreamed
      <3>3. CASE i # 0 /\ i # m + 1
        <4>1. g[i] = f[i] /\ g[i - 1] = f[i - 1]
          BY <3>3
        <4>2. i \in 0 .. m /\ h[i] = StreamRow(g[i - 1], log[i])
          BY <3>3
        <4>3. f[i] = StreamRow(f[i - 1], log[i])
          BY <2>1, <3>3, <4>2 DEF IsStreamed
        <4> QED
          BY <4>1, <4>2, <4>3
      <3> QED
        BY <3>1, <3>2, <3>3
    <2>3. g = h
      BY <2>2, Zenon
    <2>4. IsStreamed(g, log, m + 1)
      BY <2>3 DEF IsStreamed
    <2> QED
      BY <2>4
  <1>3. n \in S
    <2> HIDE DEF S
    <2>1. n \in 0 .. n
      OBVIOUS
    <2> QED
      BY <1>1, <1>2, <2>1, Climb
  <1> QED
    BY <1>3

\* It starts empty, and each row is folded into what is before it.
LEMMA StreamedRows ==
    ASSUME NEW log, Len(log) \in Nat
    PROVE  /\ Streamed(log)[0] = <<>>
           /\ \A i \in 1 .. Len(log) :
                  Streamed(log)[i] = StreamRow(Streamed(log)[i - 1], log[i])
  <1>1. Streamed(log) = CHOOSE f : IsStreamed(f, log, Len(log))
    BY DEF Streamed, IsStreamed, StreamRow
  <1>2. IsStreamed(Streamed(log), log, Len(log))
    BY <1>1, StreamedExists, Zenon
  <1> QED
    BY <1>2 DEF IsStreamed

\* Logs that begin alike stream alike.
LEMMA StreamedAgrees ==
    ASSUME NEW a, NEW b, Len(a) \in Nat, Len(b) \in Nat,
           NEW n \in Nat, n <= Len(a), n <= Len(b), \A i \in 1 .. n : a[i] = b[i]
    PROVE  \A i \in 0 .. n : Streamed(a)[i] = Streamed(b)[i]
  <1> DEFINE S == {i \in 0 .. n : Streamed(a)[i] = Streamed(b)[i]}
  <1>1. 0 \in S
    BY StreamedRows
  <1>2. ASSUME NEW i \in Nat, i < n, i \in S PROVE i + 1 \in S
    <2>1. i + 1 \in 1 .. Len(a) /\ i + 1 \in 1 .. Len(b) /\ i + 1 \in 1 .. n /\ (i + 1) - 1 = i
      BY <1>2
    <2>2. Streamed(a)[i + 1] = StreamRow(Streamed(a)[i], a[i + 1])
      BY <2>1, StreamedRows
    <2>3. Streamed(b)[i + 1] = StreamRow(Streamed(b)[i], b[i + 1])
      BY <2>1, StreamedRows
    <2>4. a[i + 1] = b[i + 1] /\ i + 1 \in 0 .. n
      BY <2>1
    <2>5. Streamed(a)[i] = Streamed(b)[i]
      BY <1>2
    <2>6. Streamed(a)[i + 1] = Streamed(b)[i + 1]
      BY <2>2, <2>3, <2>4, <2>5
    <2> QED
      BY <2>4, <2>6
  <1>3. \A i \in 0 .. n : i \in S
    <2> HIDE DEF S
    <2> QED
      BY <1>1, <1>2, Climb
  <1> QED
    BY <1>3

-----------------------------------------------------------------------------
(* What one row does to a projection. *)

Marks == {"none", "completed", "failed", "interrupted", "compact", "cancelled"}

StepType == [text : TextType, tools : Nat, mark : Marks, last : Nat]

MessageType ==
    [role : {"user", "tool", "assistant"}, text : TextType, tools : Nat, mark : Marks, last : Nat]

ProjectionType ==
    [n : Nat, messages : Seq(MessageType), step : StepType, turns : Nat, tokens : Nat]

EmptyStep(s) == s.text = <<>> /\ s.tools = 0

\* The messages once the open step is flushed.
WithStep(p) ==
    IF EmptyStep(p.step) THEN p.messages
    ELSE Append(p.messages, ConversationMessage("assistant", p.step))

\* The empty step and the empty projection have their types.
LEMMA EmptyTypes ==
    NoStep \in StepType /\ EmptyStep(NoStep) /\ EmptyProjection \in ProjectionType
  BY DEF NoStep, AssistantStep, StepType, EmptyStep, EmptyProjection, ProjectionType, TextType, Marks

\* A message made of a step has the type of a message.
LEMMA MessageTyped ==
    ASSUME NEW s \in StepType, NEW r \in {"user", "tool", "assistant"}
    PROVE  ConversationMessage(r, s) \in MessageType /\ ConversationMessage(r, s).last = s.last
  BY DEF StepType, ConversationMessage, MessageType

\* flush_step ends the step, and leaves the rest of the projection.
LEMMA FlushEffect ==
    ASSUME NEW p \in ProjectionType
    PROVE  /\ FlushStep(p) \in ProjectionType
           /\ FlushStep(p).step = NoStep /\ FlushStep(p).messages = WithStep(p)
           /\ FlushStep(p).n = p.n /\ FlushStep(p).turns = p.turns
           /\ FlushStep(p).tokens = p.tokens
  <1>1. p.step \in StepType /\ p.messages \in Seq(MessageType)
    BY DEF ProjectionType
  <1>2. ConversationMessage("assistant", p.step) \in MessageType
    BY <1>1, MessageTyped
  <1>3. WithStep(p) \in Seq(MessageType)
    BY <1>1, <1>2 DEF WithStep
  <1>4. FlushStep(p) = [p EXCEPT !.step = NoStep, !.messages = WithStep(p)]
    BY DEF FlushStep, WithStep, EmptyStep, ProjectionType
  <1> QED
    BY <1>3, <1>4, EmptyTypes DEF ProjectionType

\* push_user_text and push_tool_result add one message, at the row being folded.
LEMMA PushEffect ==
    ASSUME NEW p \in ProjectionType, NEW r \in {"user", "tool"}
    PROVE  /\ PushUser(p, r) \in ProjectionType
           /\ PushUser(p, r).step = p.step
           /\ \E m \in MessageType : PushUser(p, r).messages = Append(p.messages, m) /\ m.last = p.n
           /\ PushUser(p, r).n = p.n /\ PushUser(p, r).turns = p.turns
           /\ PushUser(p, r).tokens = p.tokens
  <1> DEFINE s == AssistantStep(<<>>, 0, "none", p.n)
             m == ConversationMessage(r, s)
  <1>1. s \in StepType /\ s.last = p.n
    BY DEF AssistantStep, StepType, ProjectionType, TextType, Marks
  <1>2. m \in MessageType /\ m.last = p.n
    BY <1>1, MessageTyped
  <1>3. PushUser(p, r) = [p EXCEPT !.messages = Append(p.messages, m)]
    BY DEF PushUser, ProjectionType
  <1>4. Append(p.messages, m) \in Seq(MessageType)
    BY <1>2 DEF ProjectionType
  <1> HIDE DEF m
  <1> QED
    BY <1>2, <1>3, <1>4 DEF ProjectionType

\* The open step after a row that changes it.
StepMoves(s, row, s2) ==
    /\ row.kind = "chunk" =>
           s2.text = s.text \o row.text /\ s2.tools = s.tools /\ s2.mark = s.mark
    /\ row.kind = "message" => s2.text = row.text /\ s2.tools = 0 /\ s2.mark = row.reason
    /\ row.kind = "tool_call" =>
           s2.text = s.text /\ s2.tools = s.tools + 1 /\ s2.mark = s.mark

\* The effect of a row, by its kind.
LEMMA RowEffect ==
    ASSUME NEW p \in ProjectionType, NEW row \in RowType
    PROVE  LET q == FoldRow(p, row)
           IN  /\ q \in ProjectionType
               /\ q.n = p.n + 1
               /\ row.kind # "turn_end" => q.tokens = p.tokens
               /\ row.kind = "turn_end" =>
                      q.tokens = p.tokens + (IF row.usage = -1 THEN 0 ELSE row.usage)
               /\ row.kind \in {"chunk", "message", "tool_call"} =>
                      StepMoves(p.step, row, q.step) /\ q.step.last = q.n /\ q.messages = p.messages
               /\ row.kind \in {"user", "tool_result"} =>
                      /\ q.step = NoStep
                      /\ \E m \in MessageType : q.messages = Append(WithStep(p), m) /\ m.last = q.n
               /\ row.kind = "turn_end" => q.step = NoStep /\ q.messages = WithStep(p)
               /\ row.kind \in {"turn_start", "session_start", "note"} =>
                      q.step = p.step /\ q.messages = p.messages
  <1> DEFINE o == [p EXCEPT !.n = @ + 1]
             q == FoldRow(p, row)
  <1>1. /\ o \in ProjectionType /\ o.n = p.n + 1 /\ o.step = p.step /\ o.messages = p.messages
        /\ o.turns = p.turns /\ o.tokens = p.tokens
    BY DEF ProjectionType
  <1>2. WithStep(o) = WithStep(p)
    BY <1>1 DEF WithStep
  <1>3. q = FoldBody(o, row)
    BY DEF FoldRow
  <1>4. row.text \in Seq(Nat) /\ row.reason \in Marks /\ row.usage \in Nat \cup {-1}
    BY DEF RowType, TextType, Marks
  <1>5. p.n \in Nat /\ p.tokens \in Nat /\ p.turns \in Nat /\ p.step \in StepType
    BY DEF ProjectionType
  <1> HIDE DEF o
  <1>6. CASE row.kind = "user"
    <2>1. q = PushUser(FlushStep(o), "user")
      BY <1>3, <1>6 DEF FoldBody
    <2>2. /\ FlushStep(o) \in ProjectionType /\ FlushStep(o).step = NoStep
          /\ FlushStep(o).messages = WithStep(p) /\ FlushStep(o).n = p.n + 1
          /\ FlushStep(o).tokens = p.tokens
      BY <1>1, <1>2, FlushEffect
    <2> HIDE DEF q
    <2>3. /\ q \in ProjectionType /\ q.step = NoStep /\ q.n = p.n + 1 /\ q.tokens = p.tokens
          /\ \E m \in MessageType : q.messages = Append(WithStep(p), m) /\ m.last = p.n + 1
      BY <2>1, <2>2, PushEffect
    <2> QED
      BY <1>6, <2>3 DEF q
  <1>7. CASE row.kind = "tool_result"
    <2>1. q = PushUser(FlushStep(o), "tool")
      BY <1>3, <1>7 DEF FoldBody
    <2>2. /\ FlushStep(o) \in ProjectionType /\ FlushStep(o).step = NoStep
          /\ FlushStep(o).messages = WithStep(p) /\ FlushStep(o).n = p.n + 1
          /\ FlushStep(o).tokens = p.tokens
      BY <1>1, <1>2, FlushEffect
    <2> HIDE DEF q
    <2>3. /\ q \in ProjectionType /\ q.step = NoStep /\ q.n = p.n + 1 /\ q.tokens = p.tokens
          /\ \E m \in MessageType : q.messages = Append(WithStep(p), m) /\ m.last = p.n + 1
      BY <2>1, <2>2, PushEffect
    <2> QED
      BY <1>7, <2>3 DEF q
  <1>8. CASE row.kind = "turn_end"
    <2>1. q = [FlushStep(o) EXCEPT !.tokens = @ + (IF row.usage = -1 THEN 0 ELSE row.usage)]
      BY <1>3, <1>8 DEF FoldBody
    <2>2. FlushStep(o) \in ProjectionType /\ FlushStep(o).step = NoStep
          /\ FlushStep(o).messages = WithStep(p) /\ FlushStep(o).n = p.n + 1
          /\ FlushStep(o).tokens = p.tokens
      BY <1>1, <1>2, FlushEffect
    <2>3. (IF row.usage = -1 THEN 0 ELSE row.usage) \in Nat
      BY <1>4
    <2> HIDE DEF q
    <2>4. /\ q \in ProjectionType /\ q.step = NoStep /\ q.n = p.n + 1
          /\ q.messages = WithStep(p)
          /\ q.tokens = p.tokens + (IF row.usage = -1 THEN 0 ELSE row.usage)
      BY <1>5, <2>1, <2>2, <2>3, SMTT(40) DEF ProjectionType
    <2> QED
      BY <1>8, <2>4 DEF q
  <1>9. CASE row.kind = "chunk"
    <2> DEFINE s == AssistantStep(p.step.text \o row.text, p.step.tools, p.step.mark, o.n)
    <2>a. s \in StepType /\ s.last = o.n /\ StepMoves(o.step, row, s)
      <3>1. /\ s.text = p.step.text \o row.text /\ s.tools = p.step.tools
            /\ s.mark = p.step.mark /\ s.last = o.n
        BY DEF AssistantStep
      <3>2. p.step.text \o row.text \in TextType
        BY <1>4, <1>5 DEF StepType, TextType
      <3>3. s \in StepType
        BY <1>1, <1>5, <3>2 DEF AssistantStep, StepType
      <3> QED
        BY <1>1, <1>9, <3>1, <3>3 DEF StepMoves
    <2>1. q = [o EXCEPT !.step = s]
      BY <1>1, <1>3, <1>9 DEF FoldBody
    <2> HIDE DEF q, s
    <2>2. /\ q \in ProjectionType /\ q.n = o.n /\ q.tokens = o.tokens /\ q.messages = o.messages
          /\ q.step.last = o.n /\ StepMoves(o.step, row, q.step)
      BY <1>1, <2>a, <2>1 DEF ProjectionType
    <2> QED
      BY <1>1, <1>9, <2>2 DEF q
  <1>10. CASE row.kind = "message"
    <2> DEFINE s == AssistantStep(row.text, 0, row.reason, o.n)
    <2>a. s \in StepType /\ s.last = o.n /\ StepMoves(o.step, row, s)
      BY <1>1, <1>4, <1>5, <1>10 DEF AssistantStep, StepType, TextType, StepMoves
    <2>1. q = [o EXCEPT !.step = s]
      BY <1>3, <1>10 DEF FoldBody
    <2> HIDE DEF q, s
    <2>2. /\ q \in ProjectionType /\ q.n = o.n /\ q.tokens = o.tokens /\ q.messages = o.messages
          /\ q.step.last = o.n /\ StepMoves(o.step, row, q.step)
      BY <1>1, <2>a, <2>1 DEF ProjectionType
    <2> QED
      BY <1>1, <1>10, <2>2 DEF q
  <1>11. CASE row.kind = "tool_call"
    <2> DEFINE s == AssistantStep(p.step.text, p.step.tools + 1, p.step.mark, o.n)
    <2>a. s \in StepType /\ s.last = o.n /\ StepMoves(o.step, row, s)
      BY <1>1, <1>4, <1>5, <1>11, SMTT(40) DEF AssistantStep, StepType, TextType, StepMoves
    <2>1. q = [o EXCEPT !.step = s]
      BY <1>1, <1>3, <1>11 DEF FoldBody
    <2> HIDE DEF q, s
    <2>2. /\ q \in ProjectionType /\ q.n = o.n /\ q.tokens = o.tokens /\ q.messages = o.messages
          /\ q.step.last = o.n /\ StepMoves(o.step, row, q.step)
      BY <1>1, <2>a, <2>1 DEF ProjectionType
    <2> QED
      BY <1>1, <1>11, <2>2 DEF q
  <1>12. CASE row.kind = "turn_start"
    <2>1. q = [o EXCEPT !.turns = @ + 1]
      BY <1>3, <1>12 DEF FoldBody
    <2> QED
      BY <1>1, <1>5, <1>12, <2>1 DEF ProjectionType
  <1>13. CASE row.kind \in {"session_start", "note"}
    <2>1. q = o
      BY <1>3, <1>13 DEF FoldBody
    <2> QED
      BY <1>1, <1>13, <2>1
  <1>14. row.kind \in {"session_start", "user", "turn_start", "chunk", "note", "tool_call",
                       "tool_result", "message", "turn_end"}
    BY DEF RowType
  <1> QED
    BY <1>6, <1>7, <1>8, <1>9, <1>10, <1>11, <1>12, <1>13, <1>14

\* The projection of a log of rows has its type, after each of them.
LEMMA ProjectionTyped ==
    ASSUME NEW log \in Seq(RowType)
    PROVE  \A i \in 0 .. Len(log) : Projections(log)[i] \in ProjectionType /\ Projections(log)[i].n = i
  <1> DEFINE S == {i \in 0 .. Len(log) :
                      Projections(log)[i] \in ProjectionType /\ Projections(log)[i].n = i}
  <1>1. 0 \in S
    BY ProjectionRows, EmptyTypes DEF EmptyProjection
  <1>2. ASSUME NEW i \in Nat, i < Len(log), i \in S PROVE i + 1 \in S
    <2>1. i + 1 \in 1 .. Len(log) /\ (i + 1) - 1 = i /\ log[i + 1] \in RowType
      BY <1>2
    <2>2. Projections(log)[i + 1] = FoldRow(Projections(log)[i], log[i + 1])
      BY <2>1, ProjectionRows
    <2>3. Projections(log)[i + 1] \in ProjectionType /\ Projections(log)[i + 1].n = i + 1
      BY <1>2, <2>1, <2>2, RowEffect
    <2> QED
      BY <2>1, <2>3
  <1>3. \A i \in 0 .. Len(log) : i \in S
    <2> HIDE DEF S
    <2> QED
      BY <1>1, <1>2, Climb
  <1> QED
    BY <1>3

-----------------------------------------------------------------------------
(* A branch.  Every message is what the rows up to its last one give: those  *)
(* after it have left the messages before it, and it, as they were.          *)

\* The leading part of a sequence.
LEMMA Leading ==
    ASSUME NEW S, NEW s \in Seq(S), NEW n \in 0 .. Len(s)
    PROVE  /\ SubSeq(s, 1, n) \in Seq(S) /\ Len(SubSeq(s, 1, n)) = n
           /\ \A i \in 1 .. n : SubSeq(s, 1, n)[i] = s[i]
  <1>1. \A i \in 1 .. n : s[i] \in S
    BY ElementOfSeq
  <1> QED
    BY <1>1, SubSeqProperties

\* An appended element is not in the leading part.
LEMMA LeadingOfAppend ==
    ASSUME NEW S, NEW s \in Seq(S), NEW e \in S, NEW n \in 0 .. Len(s)
    PROVE  /\ SubSeq(Append(s, e), 1, n) = SubSeq(s, 1, n)
           /\ SubSeq(Append(s, e), 1, Len(s) + 1) = Append(s, e)
  <1>1. Append(s, e) \in Seq(S) /\ Len(Append(s, e)) = Len(s) + 1
        /\ \A i \in 1 .. Len(s) : Append(s, e)[i] = s[i]
    BY AppendProperties
  <1>2. n \in 0 .. Len(Append(s, e)) /\ n \in Nat
    BY <1>1
  <1> DEFINE a == SubSeq(Append(s, e), 1, n)
             b == SubSeq(s, 1, n)
  <1>3. a \in Seq(S) /\ Len(a) = n /\ \A i \in 1 .. n : a[i] = Append(s, e)[i]
    BY <1>1, <1>2, Leading
  <1>4. b \in Seq(S) /\ Len(b) = n /\ \A i \in 1 .. n : b[i] = s[i]
    BY Leading
  <1> HIDE DEF a, b
  <1>5. \A i \in 1 .. n : a[i] = b[i]
    BY <1>1, <1>2, <1>3, <1>4
  <1>6. a = b
    BY <1>3, <1>4, <1>5, SeqEqual
  <1>7. SubSeq(Append(s, e), 1, Len(s) + 1) = Append(s, e)
    BY <1>1, SubSeqFull
  <1> QED
    BY <1>6, <1>7 DEF a, b

\* Each message of w is the last of those that the rows up to its own give.
MessagesWhole(f, w, i) ==
    /\ \A j \in 1 .. Len(w) : w[j].last \in 1 .. i /\ WithStep(f[w[j].last]) = SubSeq(w, 1, j)
    /\ \A j, k \in 1 .. Len(w) : j <= k => w[j].last <= w[k].last

\* So is the message that the open step would become.
StepWhole(f, p, i) ==
    ~EmptyStep(p.step) =>
        /\ p.step.last \in 1 .. i
        /\ f[p.step.last].step = p.step
        /\ f[p.step.last].messages = p.messages
        /\ \A j \in 1 .. Len(p.messages) : p.messages[j].last <= p.step.last

Whole(f, i) == MessagesWhole(f, f[i].messages, i) /\ StepWhole(f, f[i], i)

\* One more message, of the row just folded.
LEMMA AppendWhole ==
    ASSUME NEW f, NEW i \in Nat, NEW w \in Seq(MessageType), NEW m \in MessageType,
           MessagesWhole(f, w, i),
           m.last \in 1 .. i, WithStep(f[m.last]) = Append(w, m),
           \A j \in 1 .. Len(w) : w[j].last <= m.last
    PROVE  MessagesWhole(f, Append(w, m), i)
  <1> DEFINE v == Append(w, m)
  <1>1. /\ v \in Seq(MessageType) /\ Len(v) = Len(w) + 1 /\ Len(w) \in Nat /\ v[Len(w) + 1] = m
        /\ \A j \in 1 .. Len(w) : v[j] = w[j]
    BY AppendProperties, LenProperties
  <1>2. \A j \in 1 .. Len(w) : SubSeq(v, 1, j) = SubSeq(w, 1, j)
    <2> TAKE j \in 1 .. Len(w)
    <2>1. j \in 0 .. Len(w)
      OBVIOUS
    <2> QED
      BY <2>1, LeadingOfAppend
  <1>3. SubSeq(v, 1, Len(w) + 1) = v
    <2>1. 0 \in 0 .. Len(w)
      BY <1>1
    <2> QED
      BY <2>1, LeadingOfAppend
  <1>4. WithStep(f[m.last]) = v
    OBVIOUS
  <1>6. m.last \in Nat
    BY DEF MessageType
  <1> HIDE DEF v
  <1>7. ASSUME NEW j \in 1 .. Len(v)
        PROVE  v[j].last \in 1 .. i /\ WithStep(f[v[j].last]) = SubSeq(v, 1, j)
    <2>1. CASE j = Len(w) + 1
      BY <1>1, <1>3, <1>4, <2>1
    <2>2. CASE j # Len(w) + 1
      <3>1. j \in 1 .. Len(w)
        BY <1>1, <2>2
      <3> QED
        BY <1>1, <1>2, <3>1 DEF MessagesWhole
    <2> QED
      BY <2>1, <2>2
  <1>8. ASSUME NEW j \in 1 .. Len(v), NEW k \in 1 .. Len(v), j <= k
        PROVE  v[j].last <= v[k].last
    <2>1. CASE k # Len(w) + 1
      <3>1. j \in 1 .. Len(w) /\ k \in 1 .. Len(w)
        BY <1>1, <1>8, <2>1
      <3> QED
        BY <1>1, <1>8, <3>1 DEF MessagesWhole
    <2>2. CASE k = Len(w) + 1 /\ j # k
      <3>1. j \in 1 .. Len(w)
        BY <1>1, <2>2
      <3> QED
        BY <1>1, <2>2, <3>1
    <2>3. CASE k = Len(w) + 1 /\ j = k
      BY <1>1, <1>6, <2>3
    <2> QED
      BY <2>1, <2>2, <2>3
  <1>9. MessagesWhole(f, v, i)
    BY <1>7, <1>8, Zenon DEF MessagesWhole
  <1> QED
    BY <1>9 DEF v

\* The messages with the open step flushed are whole as well.
LEMMA FlushWhole ==
    ASSUME NEW f, NEW i \in Nat, f[i] \in ProjectionType, Whole(f, i)
    PROVE  MessagesWhole(f, WithStep(f[i]), i) /\ WithStep(f[i]) \in Seq(MessageType)
  <1> DEFINE p == f[i]
             m == ConversationMessage("assistant", p.step)
  <1>0. p.messages \in Seq(MessageType) /\ p.step \in StepType
    BY DEF ProjectionType
  <1>1. CASE EmptyStep(p.step)
    BY <1>0, <1>1 DEF WithStep, Whole
  <1>2. CASE ~EmptyStep(p.step)
    <2>1. m \in MessageType /\ m.last = p.step.last
      BY <1>0, MessageTyped
    <2>2. WithStep(p) = Append(p.messages, m)
      BY <1>2, SMTT(40) DEF WithStep
    <2>3. WithStep(f[p.step.last]) = Append(p.messages, m)
      BY <1>2 DEF Whole, StepWhole, WithStep
    <2>4. /\ p.step.last \in 1 .. i
          /\ \A j \in 1 .. Len(p.messages) : p.messages[j].last <= p.step.last
      BY <1>2 DEF Whole, StepWhole
    <2>5. MessagesWhole(f, p.messages, i)
      BY DEF Whole
    <2> HIDE DEF m, p
    <2>6. MessagesWhole(f, Append(p.messages, m), i)
      BY <1>0, <2>1, <2>3, <2>4, <2>5, AppendWhole
    <2> QED
      BY <1>0, <2>1, <2>2, <2>6, AppendProperties DEF p
  <1> QED
    BY <1>1, <1>2

\* What was whole stays so as rows are added.
LEMMA WholeLater ==
    ASSUME NEW f, NEW i \in Nat, NEW w, MessagesWhole(f, w, i)
    PROVE  MessagesWhole(f, w, i + 1)
  BY DEF MessagesWhole

\* A row leaves the messages whole.
LEMMA RowWhole ==
    ASSUME NEW f, NEW i \in Nat, NEW row \in RowType,
           f[i] \in ProjectionType, f[i].n = i, f[i + 1] = FoldRow(f[i], row), Whole(f, i)
    PROVE  Whole(f, i + 1)
  <1> DEFINE p == f[i]
             q == f[i + 1]
  <1>1. q \in ProjectionType /\ q.n = i + 1
    BY RowEffect
  <1>2. p.messages \in Seq(MessageType) /\ q.messages \in Seq(MessageType)
    BY <1>1 DEF ProjectionType
  <1>3. CASE row.kind \in {"chunk", "message", "tool_call"}
    <2>1. q.messages = p.messages /\ q.step.last = i + 1
      BY <1>3, RowEffect
    <2>2. MessagesWhole(f, q.messages, i + 1)
      BY <2>1, WholeLater DEF Whole
    <2>3. \A j \in 1 .. Len(p.messages) : p.messages[j].last <= i + 1
      BY DEF Whole, MessagesWhole
    <2> QED
      BY <2>1, <2>2, <2>3 DEF Whole, StepWhole
  <1>4. CASE row.kind \in {"user", "tool_result"}
    <2>1. q.step = NoStep /\ \E m \in MessageType : q.messages = Append(WithStep(p), m) /\ m.last = q.n
      BY <1>4, RowEffect, SMTT(40)
    <2>2. PICK m \in MessageType : q.messages = Append(WithStep(p), m) /\ m.last = q.n
      BY <2>1
    <2>3. MessagesWhole(f, WithStep(p), i + 1) /\ WithStep(p) \in Seq(MessageType)
      BY FlushWhole, WholeLater
    <2>4. WithStep(f[m.last]) = Append(WithStep(p), m)
      BY <1>1, <2>1, <2>2, EmptyTypes DEF WithStep
    <2>5. \A j \in 1 .. Len(WithStep(p)) : WithStep(p)[j].last <= m.last
      BY <1>1, <2>2, <2>3 DEF MessagesWhole
    <2>6. m.last \in 1 .. (i + 1) /\ i + 1 \in Nat
      BY <1>1, <2>2
    <2>7. MessagesWhole(f, q.messages, i + 1)
      BY <2>2, <2>3, <2>4, <2>5, <2>6, AppendWhole
    <2> QED
      BY <2>1, <2>7, EmptyTypes DEF Whole, StepWhole
  <1>5. CASE row.kind = "turn_end"
    <2>1. q.step = NoStep /\ q.messages = WithStep(p)
      BY <1>5, RowEffect
    <2>2. MessagesWhole(f, q.messages, i + 1)
      BY <2>1, FlushWhole, WholeLater
    <2> QED
      BY <2>1, <2>2, EmptyTypes DEF Whole, StepWhole
  <1>6. CASE row.kind \in {"turn_start", "session_start", "note"}
    <2>1. q.step = p.step /\ q.messages = p.messages
      BY <1>6, RowEffect
    <2>2. MessagesWhole(f, q.messages, i + 1)
      BY <2>1, WholeLater DEF Whole
    <2>3. StepWhole(f, q, i + 1)
      BY <2>1 DEF Whole, StepWhole
    <2> QED
      BY <2>2, <2>3 DEF Whole
  <1>7. row.kind \in {"session_start", "user", "turn_start", "chunk", "note", "tool_call",
                      "tool_result", "message", "turn_end"}
    BY DEF RowType
  <1> QED
    BY <1>3, <1>4, <1>5, <1>6, <1>7

\* After each row of a log the messages are whole.
LEMMA ProjectionWhole ==
    ASSUME NEW log \in Seq(RowType)
    PROVE  \A i \in 0 .. Len(log) : Whole(Projections(log), i)
  <1> DEFINE f == Projections(log)
             S == {i \in 0 .. Len(log) : Whole(f, i)}
  <1>1. 0 \in S
    <2>1. f[0].messages = <<>> /\ f[0].step = NoStep
      BY ProjectionRows DEF EmptyProjection
    <2> QED
      BY <2>1, EmptyTypes DEF Whole, MessagesWhole, StepWhole
  <1>2. ASSUME NEW i \in Nat, i < Len(log), i \in S PROVE i + 1 \in S
    <2>1. i + 1 \in 1 .. Len(log) /\ (i + 1) - 1 = i /\ log[i + 1] \in RowType
          /\ i \in 0 .. Len(log) /\ i + 1 \in 0 .. Len(log)
      BY <1>2
    <2>2. f[i + 1] = FoldRow(f[i], log[i + 1])
      BY <2>1, ProjectionRows
    <2>3. f[i] \in ProjectionType /\ f[i].n = i
      BY <2>1, ProjectionTyped
    <2> HIDE DEF f
    <2>4. Whole(f, i + 1)
      BY <1>2, <2>1, <2>2, <2>3, RowWhole
    <2> QED
      BY <2>1, <2>4
  <1>3. \A i \in 0 .. Len(log) : i \in S
    <2> HIDE DEF S
    <2> QED
      BY <1>1, <1>2, Climb
  <1> QED
    BY <1>3

\* What a reload shows of a log.
LEMMA Reloaded ==
    ASSUME NEW log \in Seq(RowType)
    PROVE  ProjectConversation(log).messages = WithStep(Projections(log)[Len(log)])
  <1>1. Projections(log)[Len(log)] \in ProjectionType
    BY ProjectionTyped
  <1> QED
    BY <1>1, FlushEffect DEF ProjectConversation, Folded

\* A row without contents is a row.
LEMMA RowTyped ==
    ASSUME NEW kind \in {"session_start", "user", "turn_start", "note", "tool_call", "tool_result"}
    PROVE  Row(kind) \in RowType /\ Row(kind).kind = kind
  BY DEF Row, Entry, RowType, TextType

\* So is a delta.
LEMMA ChunkTyped ==
    ASSUME NEW delta \in Nat
    PROVE  Chunk(delta) \in RowType /\ Chunk(delta).kind = "chunk" /\ Chunk(delta).text = <<delta>>
  BY DEF Chunk, Entry, RowType, TextType

\* So is a finalizing row.
LEMMA MessageRowTyped ==
    ASSUME NEW text \in TextType, NEW reason \in Marks
    PROVE  LET row == Message(text, reason)
           IN  /\ row \in RowType /\ row.kind = "message" /\ row.text = text /\ row.reason = reason
  BY DEF Message, Entry, RowType, Marks

\* So is a turn/end.
LEMMA TurnEndTyped ==
    ASSUME NEW reason \in Marks, NEW u \in Nat \cup {-1}, NEW n \in Nat
    PROVE  LET row == TurnEnd(reason, u, n)
           IN  /\ row \in RowType /\ row.kind = "turn_end" /\ row.reason = reason /\ row.usage = u
  BY DEF TurnEnd, Entry, RowType, TextType, Marks

\* The rows up to c and a note are reloaded as after row c.
LEMMA CutReloaded ==
    ASSUME NEW log \in Seq(RowType), NEW c \in 1 .. Len(log)
    PROVE  ProjectConversation(Append(SubSeq(log, 1, c), Row("note"))).messages
               = WithStep(Projections(log)[c])
  <1> DEFINE s == SubSeq(log, 1, c)
             b == Append(s, Row("note"))
  <1>1. s \in Seq(RowType) /\ Len(s) = c /\ \A i \in 1 .. c : s[i] = log[i]
    BY Leading
  <1>2. /\ b \in Seq(RowType) /\ Len(b) = c + 1 /\ b[c + 1] = Row("note")
        /\ \A i \in 1 .. c : b[i] = log[i]
    BY <1>1, RowTyped, AppendProperties
  <1> HIDE DEF b
  <1>3. Projections(b)[c] = Projections(log)[c]
    <2>1. Len(log) \in Nat /\ Len(b) \in Nat /\ c \in Nat /\ c <= Len(b) /\ c <= Len(log)
          /\ c \in 0 .. c
      BY <1>2
    <2> QED
      BY <1>2, <2>1, ProjectionAgrees
  <1>4. Projections(b)[c + 1] = FoldRow(Projections(b)[c], Row("note"))
    <2>1. c + 1 \in 1 .. Len(b) /\ (c + 1) - 1 = c /\ Len(b) \in Nat
      BY <1>2
    <2> QED
      BY <1>2, <2>1, ProjectionRows
  <1>5. Projections(log)[c] \in ProjectionType
    BY ProjectionTyped
  <1>6. /\ Projections(b)[c + 1].step = Projections(log)[c].step
        /\ Projections(b)[c + 1].messages = Projections(log)[c].messages
    <2>1. Row("note") \in RowType /\ Row("note").kind = "note"
      BY RowTyped
    <2> QED
      BY <1>3, <1>4, <1>5, <2>1, RowEffect
  <1>7. ProjectConversation(b).messages = WithStep(Projections(b)[c + 1])
    BY <1>2, Reloaded
  <1> QED
    BY <1>6, <1>7 DEF WithStep, b

\* The row where a branch at message k is cut: the last one of that message.
LEMMA CutoffAt ==
    ASSUME NEW log \in Seq(RowType), NEW k \in Nat,
           k <= Len(ProjectConversation(log).messages)
    PROVE  LET w == ProjectConversation(log).messages
           IN  /\ k = 0 => CutoffRow(log, k) = 1
               /\ k > 0 => CutoffRow(log, k) = w[k].last
  <1> DEFINE w == ProjectConversation(log).messages
             S == {1} \cup {w[i].last : i \in 1 .. Min({k, Len(w)})}
  <1>1. MessagesWhole(Projections(log), w, Len(log)) /\ w \in Seq(MessageType)
    <2>1. Len(log) \in Nat /\ Len(log) \in 0 .. Len(log)
      OBVIOUS
    <2>2. Projections(log)[Len(log)] \in ProjectionType /\ Whole(Projections(log), Len(log))
      BY <2>1, ProjectionTyped, ProjectionWhole
    <2> QED
      BY <2>1, <2>2, FlushWhole, Reloaded
  <1>2. CutoffRow(log, k) = Max(S)
    BY DEF CutoffRow
  <1> HIDE DEF w
  <1>3. Len(w) \in Nat /\ k <= Len(w)
    BY <1>1, LenProperties DEF w
  <1>4. Min({k, Len(w)}) = k
    <2>1. {k, Len(w)} \in SUBSET Nat /\ {k, Len(w)} # {}
      BY <1>3
    <2>2. Min({k, Len(w)}) \in {k, Len(w)} /\ \A m \in {k, Len(w)} : Min({k, Len(w)}) <= m
      BY <2>1, MinNumber
    <2> QED
      BY <1>3, <2>2
  <1>5. S = {1} \cup {w[i].last : i \in 1 .. k}
    BY <1>4
  <1>6. \A i \in 1 .. k : w[i].last \in 1 .. Len(log)
    BY <1>1, <1>3 DEF MessagesWhole
  <1>7. \A i \in 1 .. k : w[i].last <= w[k].last
    BY <1>1, <1>3 DEF MessagesWhole
  <1> HIDE DEF S
  <1>8. S \in SUBSET Nat /\ S # {} /\ 1 \in S /\ \A n \in S : n <= Len(log) + 1
    BY <1>5, <1>6
  <1>9. Max(S) \in S /\ \A m \in S : m <= Max(S)
    <2>1. Len(log) + 1 \in Nat
      OBVIOUS
    <2> QED
      BY <1>8, <2>1, MaxNumber
  <1>10. CASE k = 0
    BY <1>2, <1>5, <1>9, <1>10
  <1>11. CASE k > 0
    <2>1. w[k].last \in S /\ w[k].last \in Nat /\ w[k].last >= 1
      BY <1>5, <1>6, <1>11
    <2>2. \A m \in S : m <= w[k].last
      BY <1>5, <1>6, <1>7, <2>1
    <2>3. Max(S) = w[k].last
      <3>1. Max(S) \in Nat /\ Max(S) <= w[k].last /\ w[k].last <= Max(S)
        BY <1>8, <1>9, <2>1, <2>2
      <3> QED
        BY <2>1, <3>1
    <2> QED
      BY <1>2, <1>11, <2>3 DEF w
  <1> QED
    BY <1>10, <1>11

\* A log that begins with a row that says nothing branches at each message.
LEMMA BranchAtMessage ==
    ASSUME NEW log \in Seq(RowType), log # <<>>,
           log[1].kind \in {"session_start", "turn_start"},
           NEW k \in 0 .. Len(ProjectConversation(log).messages)
    PROVE  ProjectConversation(CreateBranch(log, k)).messages
               = SubSeq(ProjectConversation(log).messages, 1, k)
  <1> DEFINE w == ProjectConversation(log).messages
             f == Projections(log)
             c == CutoffRow(log, k)
  <1>0. Len(log) \in Nat /\ Len(log) >= 1 /\ Len(log) \in 0 .. Len(log)
    BY EmptySeq
  <1>1. MessagesWhole(f, w, Len(log)) /\ w \in Seq(MessageType)
    <2>1. f[Len(log)] \in ProjectionType /\ Whole(f, Len(log))
      BY <1>0, ProjectionTyped, ProjectionWhole
    <2> QED
      BY <1>0, <2>1, FlushWhole, Reloaded
  <1>2. k \in Nat /\ k <= Len(w) /\ Len(w) \in Nat
    BY <1>1, LenProperties
  <1>3. c \in 1 .. Len(log) /\ WithStep(f[c]) = SubSeq(w, 1, k)
    <2>1. CASE k = 0
      <3>1. c = 1
        BY <1>2, <2>1, CutoffAt
      <3>2. f[1] = FoldRow(EmptyProjection, log[1]) /\ log[1] \in RowType
        BY <1>0, ProjectionRows
      <3>3. f[1].step = NoStep /\ f[1].messages = <<>>
        BY <3>2, EmptyTypes, RowEffect DEF EmptyProjection
      <3>4. WithStep(f[1]) = <<>>
        BY <3>3, EmptyTypes DEF WithStep
      <3>5. SubSeq(w, 1, k) = <<>>
        BY <2>1, SubSeqEmpty
      <3>6. 1 \in 1 .. Len(log)
        BY <1>0
      <3> HIDE DEF c
      <3> QED
        BY <3>1, <3>4, <3>5, <3>6
    <2>2. CASE k > 0
      <3>1. c = w[k].last
        BY <1>2, <2>2, CutoffAt
      <3>2. k \in 1 .. Len(w)
        BY <1>2, <2>2
      <3> QED
        BY <1>1, <3>1, <3>2 DEF MessagesWhole
    <2> QED
      BY <1>2, <2>1, <2>2
  <1>4. CreateBranch(log, k) = Append(SubSeq(log, 1, c), Row("note"))
    <2>1. {c, Len(log)} \in SUBSET Nat /\ {c, Len(log)} # {}
      BY <1>0, <1>3
    <2>2. Min({c, Len(log)}) \in {c, Len(log)} /\ \A m \in {c, Len(log)} : Min({c, Len(log)}) <= m
      BY <2>1, MinNumber
    <2>3. Min({c, Len(log)}) = c
      BY <1>0, <1>3, <2>2
    <2> QED
      BY <2>3 DEF CreateBranch
  <1>5. ProjectConversation(CreateBranch(log, k)).messages = WithStep(f[c])
    BY <1>3, <1>4, CutReloaded
  <1> QED
    BY <1>3, <1>5

-----------------------------------------------------------------------------
(* The turns of a log. *)

\* The turns that have been started and not ended among the first n rows.
Unended(log, n) == RowsOf(log, "turn_start", n) - RowsOf(log, "turn_end", n)

\* Rows of a kind are counted one by one.
LEMMA CountRows ==
    ASSUME NEW log, NEW kind, NEW n \in Nat
    PROVE  /\ RowsOf(log, kind, 0) = 0
           /\ RowsOf(log, kind, n) \in Nat
           /\ RowsOf(log, kind, n + 1) =
                  RowsOf(log, kind, n) + (IF log[n + 1].kind = kind THEN 1 ELSE 0)
  <1> DEFINE S(m) == {i \in 1 .. m : log[i].kind = kind}
  <1>1. IsFiniteSet(S(n)) /\ Cardinality(S(n)) \in Nat
    <2>1. IsFiniteSet(1 .. n) /\ S(n) \in SUBSET (1 .. n)
      BY FS_Interval
    <2> QED
      BY <2>1, FS_Subset, FS_CardinalityType
  <1>2. RowsOf(log, kind, n) = Cardinality(S(n)) /\ RowsOf(log, kind, n + 1) = Cardinality(S(n + 1))
    BY DEF RowsOf
  <1>z. RowsOf(log, kind, 0) = 0
    <2>1. S(0) = {}
      OBVIOUS
    <2>2. RowsOf(log, kind, 0) = Cardinality(S(0))
      BY DEF RowsOf
    <2> QED
      BY <2>1, <2>2, FS_EmptySet
  <1>3. CASE log[n + 1].kind = kind
    <2>1. S(n + 1) = S(n) \cup {n + 1} /\ n + 1 \notin S(n)
      BY <1>3
    <2> HIDE DEF S
    <2>2. Cardinality(S(n + 1)) = Cardinality(S(n)) + 1
      BY <1>1, <2>1, FS_AddElement
    <2> QED
      BY <1>1, <1>2, <1>z, <1>3, <2>2
  <1>4. CASE log[n + 1].kind # kind
    <2>1. S(n + 1) = S(n)
      BY <1>4
    <2> HIDE DEF S
    <2> QED
      BY <1>1, <1>2, <1>z, <1>4, <2>1
  <1> QED
    BY <1>3, <1>4

\* So are the turns not ended.
LEMMA CountUnended ==
    ASSUME NEW log, NEW n \in Nat
    PROVE  /\ Unended(log, 0) = 0
           /\ Unended(log, n) \in Int
           /\ Unended(log, n + 1) = CASE log[n + 1].kind = "turn_start" -> Unended(log, n) + 1
                                      [] log[n + 1].kind = "turn_end"   -> Unended(log, n) - 1
                                      [] OTHER                          -> Unended(log, n)
  <1>1. /\ RowsOf(log, "turn_start", 0) = 0 /\ RowsOf(log, "turn_end", 0) = 0
        /\ RowsOf(log, "turn_start", n) \in Nat /\ RowsOf(log, "turn_end", n) \in Nat
        /\ RowsOf(log, "turn_start", n + 1) =
               RowsOf(log, "turn_start", n) + (IF log[n + 1].kind = "turn_start" THEN 1 ELSE 0)
        /\ RowsOf(log, "turn_end", n + 1) =
               RowsOf(log, "turn_end", n) + (IF log[n + 1].kind = "turn_end" THEN 1 ELSE 0)
    BY CountRows
  <1>2. CASE log[n + 1].kind = "turn_start"
    BY <1>1, <1>2 DEF Unended
  <1>3. CASE log[n + 1].kind = "turn_end"
    BY <1>1, <1>3 DEF Unended
  <1>4. CASE log[n + 1].kind \notin {"turn_start", "turn_end"}
    BY <1>1, <1>4 DEF Unended
  <1> QED
    BY <1>2, <1>3, <1>4

\* Logs that begin alike are folded and counted alike there.
LEMMA Alike ==
    ASSUME NEW a \in Seq(RowType), NEW b \in Seq(RowType), NEW n \in Nat,
           n <= Len(a), n <= Len(b), \A i \in 1 .. n : a[i] = b[i]
    PROVE  /\ \A i \in 0 .. n : /\ Projections(a)[i] = Projections(b)[i]
                                /\ Streamed(a)[i] = Streamed(b)[i]
                                /\ Unended(a, i) = Unended(b, i)
           /\ \A i \in 1 .. n : Opens(a, i) <=> Opens(b, i)
  <1>1. Len(a) \in Nat /\ Len(b) \in Nat
    OBVIOUS
  <1>2. \A i \in 0 .. n : Projections(a)[i] = Projections(b)[i]
    BY <1>1, ProjectionAgrees
  <1>3. \A i \in 0 .. n : Streamed(a)[i] = Streamed(b)[i]
    BY <1>1, StreamedAgrees
  <1>4. ASSUME NEW i \in 0 .. n PROVE Unended(a, i) = Unended(b, i)
    <2>1. ASSUME NEW kind PROVE {j \in 1 .. i : a[j].kind = kind} = {j \in 1 .. i : b[j].kind = kind}
      OBVIOUS
    <2> QED
      BY <2>1, Zenon DEF Unended, RowsOf
  <1>5. ASSUME NEW i \in 1 .. n PROVE Opens(a, i) <=> Opens(b, i)
    <2>1. \A j \in 1 .. i : a[j] = b[j]
      OBVIOUS
    <2>2. Counted(a, i - 1) <=> Counted(b, i - 1)
      BY <2>1 DEF Counted
    <2> QED
      BY <2>1, <2>2 DEF Opens
  <1> QED
    BY <1>2, <1>3, <1>4, <1>5

\* A truncation leaves the rows before an opener, or all of them.
LEMMA TruncateCuts ==
    ASSUME NEW log \in Seq(RowType), NEW keep
    PROVE  \E m \in 0 .. Len(log) : /\ TruncateToTurn(log, keep) = SubSeq(log, 1, m)
                                    /\ m = Len(log) \/ Opens(log, m + 1)
  <1> DEFINE cuts == {i \in 1 .. Len(log) :
                        Opens(log, i) /\ Cardinality({j \in 1 .. (i - 1) : Opens(log, j)}) = keep}
             S == cuts \cup {Len(log) + 1}
  <1>1. S \in SUBSET Nat /\ S # {} /\ \A i \in S : i >= 1 /\ i <= Len(log) + 1
    OBVIOUS
  <1>2. \A i \in S : i = Len(log) + 1 \/ Opens(log, i)
    OBVIOUS
  <1>3. TruncateToTurn(log, keep) = SubSeq(log, 1, Min(S) - 1)
    BY DEF TruncateToTurn
  <1> HIDE DEF S
  <1>4. PICK m \in S : m = Min(S)
    BY <1>1, MinNumber
  <1>5. Len(log) \in Nat /\ m \in Nat /\ m >= 1 /\ m <= Len(log) + 1
    BY <1>1
  <1>6. m - 1 \in 0 .. Len(log) /\ (m - 1) + 1 = m
    BY <1>5
  <1>7. m - 1 = Len(log) \/ Opens(log, (m - 1) + 1)
    BY <1>2, <1>5, <1>6
  <1> QED
    BY <1>3, <1>4, <1>6, <1>7

-----------------------------------------------------------------------------
(* The inductive invariant: what is true of every log, and how the recorder  *)
(* stands to the end of its own.                                             *)

\* The marker under which the reason of a turn's end finalizes its open step.
MarkOf(reason) ==
    CASE reason = "interrupted" -> "cancelled"
      [] reason = "failed"      -> "failed"
      [] reason = "completed"   -> "none"

\* Along a log no turn ends that was not started, and not more than the deaths
\* and one have been left open; at most the deaths where a truncation may cut.
TurnsSound(log, deaths) ==
    /\ \A i \in 0 .. Len(log) : Unended(log, i) \in 0 .. (deaths + 1)
    /\ \A i \in 1 .. Len(log) : Opens(log, i) => Unended(log, i - 1) <= deaths

\* Along a log the projection's open step holds the text that was streamed, and
\* at the end of a turn that has some its marker.
TextSound(log) ==
    /\ \A i \in 0 .. Len(log) : Streamed(log)[i] = Projections(log)[i].step.text
    /\ \A i \in 1 .. Len(log) :
           log[i].kind = "turn_end" /\ log[i].reason # "compact" =>
               /\ log[i].reason \in {"interrupted", "failed", "completed"}
               /\ Streamed(log)[i - 1] # <<>> =>
                      Projections(log)[i - 1].step.mark = MarkOf(log[i].reason)

\* A log does not begin with a row of a message.
BeginSound(log) == log # <<>> => log[1].kind \in {"session_start", "turn_start"}

LogSound(log, deaths) ==
    log \in Seq(RowType) /\ TurnsSound(log, deaths) /\ TextSound(log) /\ BeginSound(log)

InTurn == query \in {"streaming", "malformed", "tools", "final"}

RecorderSound ==
    /\ turnOpen <=> InTurn
    /\ enabled /\ query # "none" => rows # <<>> /\ opened <= Len(rows)
    /\ enabled /\ query = "prompted" => Folded(rows).step = NoStep
    /\ enabled /\ turnOpen =>
           /\ stepText = Folded(rows).step.text
           /\ Folded(rows).step.mark = "none"
           /\ Unended(rows, Len(rows)) >= 1
    /\ Unended(rows, Len(rows)) <= crashes + (IF turnOpen /\ enabled THEN 1 ELSE 0)

\* The turn's usage is the tokens reported in it; without any, the bare count
\* of its rounds is none.
UsageSound ==
    /\ Folded(rows).tokens = billed
    /\ usage = (IF usage = -1 THEN -1 ELSE tokens)
    /\ usage = -1 => tokens = 0
    /\ ~turnOpen => usage = -1
    /\ turnOpen \/ query \in {"accepted", "prompted"} => (usage = -1 => bare <= 0)

TeeInv == TypeOK /\ LogSound(rows, crashes) /\ RecorderSound /\ UsageSound

\* A leading part of a sound log is sound, whatever deaths come.
LEMMA PrefixSound ==
    ASSUME NEW log, NEW c \in Nat, NEW d \in Nat, c <= d, LogSound(log, c), NEW n \in 0 .. Len(log)
    PROVE  LogSound(SubSeq(log, 1, n), d)
  <1> DEFINE s == SubSeq(log, 1, n)
  <1>0. log \in Seq(RowType) /\ n \in Nat /\ n <= Len(log)
    BY DEF LogSound
  <1>1. s \in Seq(RowType) /\ Len(s) = n /\ \A i \in 1 .. n : s[i] = log[i]
    BY <1>0, Leading
  <1> HIDE DEF s
  <1>2. /\ \A i \in 0 .. n : /\ Projections(s)[i] = Projections(log)[i]
                             /\ Streamed(s)[i] = Streamed(log)[i]
                             /\ Unended(s, i) = Unended(log, i)
        /\ \A i \in 1 .. n : Opens(s, i) <=> Opens(log, i)
    BY <1>0, <1>1, Alike
  <1>3. TurnsSound(s, d)
    <2>1. ASSUME NEW i \in 0 .. n PROVE Unended(s, i) \in 0 .. (d + 1)
      <3>1. i \in 0 .. Len(log)
        BY <1>0
      <3>2. Unended(log, i) \in 0 .. (c + 1)
        BY <3>1 DEF LogSound, TurnsSound
      <3> QED
        BY <1>2, <3>2
    <2>2. ASSUME NEW i \in 1 .. n, Opens(s, i) PROVE Unended(s, i - 1) <= d
      <3>1. i \in 1 .. Len(log) /\ i - 1 \in 0 .. n /\ i - 1 \in Nat
        BY <1>0
      <3>2. Unended(log, i - 1) <= c /\ Unended(log, i - 1) \in Int
        BY <1>2, <2>2, <3>1, CountUnended DEF LogSound, TurnsSound
      <3> QED
        BY <1>2, <3>1, <3>2
    <2> QED
      BY <1>1, <2>1, <2>2 DEF TurnsSound
  <1>4. TextSound(s)
    <2>1. \A i \in 0 .. n : Streamed(s)[i] = Projections(s)[i].step.text
      BY <1>0, <1>2 DEF LogSound, TextSound
    <2>2. ASSUME NEW i \in 1 .. n, s[i].kind = "turn_end", s[i].reason # "compact"
          PROVE  /\ s[i].reason \in {"interrupted", "failed", "completed"}
                 /\ Streamed(s)[i - 1] # <<>> =>
                      Projections(s)[i - 1].step.mark = MarkOf(s[i].reason)
      <3>1. i \in 1 .. Len(log) /\ i - 1 \in 0 .. n
        BY <1>0
      <3>2. s[i] = log[i] /\ Streamed(s)[i - 1] = Streamed(log)[i - 1]
            /\ Projections(s)[i - 1] = Projections(log)[i - 1]
        BY <1>1, <1>2, <3>1
      <3> QED
        BY <2>2, <3>1, <3>2 DEF LogSound, TextSound
    <2> QED
      BY <1>1, <2>1, <2>2 DEF TextSound
  <1>5. BeginSound(s)
    <2> SUFFICES ASSUME s # <<>> PROVE s[1].kind \in {"session_start", "turn_start"}
      BY DEF BeginSound
    <2>1. n >= 1
      BY <1>0, <1>1, EmptySeq
    <2>2. s[1] = log[1] /\ log # <<>>
      BY <1>0, <1>1, <2>1
    <2> QED
      BY <2>2 DEF LogSound, BeginSound
  <1> QED
    BY <1>1, <1>3, <1>4, <1>5 DEF LogSound, s

\* One more row: what it does to the folds at the end of the log.
LEMMA AppendedRow ==
    ASSUME NEW log \in Seq(RowType), NEW row \in RowType
    PROVE  LET b == Append(log, row)
           IN  /\ b \in Seq(RowType) /\ Len(b) = Len(log) + 1 /\ b[Len(log) + 1] = row
               /\ \A i \in 1 .. Len(log) : b[i] = log[i]
               /\ \A i \in 0 .. Len(log) : /\ Projections(b)[i] = Projections(log)[i]
                                           /\ Streamed(b)[i] = Streamed(log)[i]
                                           /\ Unended(b, i) = Unended(log, i)
               /\ \A i \in 1 .. Len(log) : Opens(b, i) <=> Opens(log, i)
               /\ Folded(b) = FoldRow(Folded(log), row)
               /\ Projections(b)[Len(log) + 1] = Folded(b)
               /\ Streamed(b)[Len(log) + 1] = StreamRow(Streamed(log)[Len(log)], row)
  <1> DEFINE b == Append(log, row)
             n == Len(log)
  <1>1. /\ n \in Nat /\ b \in Seq(RowType) /\ Len(b) = n + 1 /\ b[n + 1] = row
        /\ \A i \in 1 .. n : b[i] = log[i]
    BY AppendProperties
  <1> HIDE DEF b
  <1>2. /\ \A i \in 0 .. n : /\ Projections(b)[i] = Projections(log)[i]
                             /\ Streamed(b)[i] = Streamed(log)[i]
                             /\ Unended(b, i) = Unended(log, i)
        /\ \A i \in 1 .. n : Opens(b, i) <=> Opens(log, i)
    BY <1>1, Alike
  <1>3. n + 1 \in 1 .. Len(b) /\ (n + 1) - 1 = n /\ n \in 0 .. n /\ Len(b) \in Nat
    BY <1>1
  <1>4. /\ Projections(b)[n + 1] = FoldRow(Projections(b)[n], row)
        /\ Streamed(b)[n + 1] = StreamRow(Streamed(b)[n], row)
    BY <1>1, <1>3, ProjectionRows, StreamedRows
  <1>5. Folded(b) = Projections(b)[n + 1] /\ Folded(log) = Projections(log)[n]
    BY <1>1 DEF Folded
  <1> QED
    BY <1>1, <1>2, <1>3, <1>4, <1>5 DEF b

\* A log stays sound under a row that may come at its end.
MayFollow(log, row, deaths) ==
    /\ row \in RowType
    /\ row.kind \in {"user", "turn_start"} => Unended(log, Len(log)) <= deaths
    /\ row.kind = "message" => row.text = Folded(log).step.text
    /\ row.kind = "turn_end" =>
           /\ Unended(log, Len(log)) >= 1
           /\ row.reason \in {"interrupted", "failed", "completed"}
           /\ Folded(log).step.text # <<>> => Folded(log).step.mark = MarkOf(row.reason)
    /\ log = <<>> => row.kind \in {"session_start", "turn_start"}

\* Such a row keeps the log sound.
LEMMA AppendSound ==
    ASSUME NEW log, NEW row, NEW c \in Nat, LogSound(log, c), MayFollow(log, row, c)
    PROVE  LogSound(Append(log, row), c)
  <1> DEFINE b == Append(log, row)
             n == Len(log)
             p == Folded(log)
  <1>0. log \in Seq(RowType) /\ row \in RowType /\ n \in Nat /\ n \in 0 .. n
    BY DEF LogSound, MayFollow
  <1>1. /\ b \in Seq(RowType) /\ Len(b) = n + 1 /\ b[n + 1] = row
        /\ \A i \in 1 .. n : b[i] = log[i]
        /\ \A i \in 0 .. n : /\ Projections(b)[i] = Projections(log)[i]
                             /\ Streamed(b)[i] = Streamed(log)[i]
                             /\ Unended(b, i) = Unended(log, i)
        /\ \A i \in 1 .. n : Opens(b, i) <=> Opens(log, i)
        /\ Folded(b) = FoldRow(p, row)
        /\ Projections(b)[n + 1] = Folded(b)
        /\ Streamed(b)[n + 1] = StreamRow(Streamed(log)[n], row)
    BY <1>0, AppendedRow
  <1>p. p = Projections(log)[n] /\ p \in ProjectionType /\ Streamed(log)[n] = p.step.text
    BY <1>0, ProjectionTyped DEF Folded, LogSound, TextSound
  <1> HIDE DEF b, p
  <1>2. TurnsSound(b, c)
    <2>1. Unended(log, n) \in 0 .. (c + 1)
      BY <1>0 DEF LogSound, TurnsSound
    <2>2. Unended(b, n) = Unended(log, n)
      BY <1>0, <1>1
    <2>3. Unended(b, n + 1) \in 0 .. (c + 1)
      <3>1. Unended(b, n + 1) = CASE row.kind = "turn_start" -> Unended(b, n) + 1
                                  [] row.kind = "turn_end"   -> Unended(b, n) - 1
                                  [] OTHER                   -> Unended(b, n)
        BY <1>0, <1>1, CountUnended
      <3>2. CASE row.kind = "turn_start"
        BY <2>1, <2>2, <3>1, <3>2 DEF MayFollow
      <3>3. CASE row.kind = "turn_end"
        BY <2>1, <2>2, <3>1, <3>3 DEF MayFollow
      <3>4. CASE row.kind \notin {"turn_start", "turn_end"}
        BY <2>1, <2>2, <3>1, <3>4
      <3> QED
        BY <3>2, <3>3, <3>4
    <2>4. ASSUME NEW i \in 0 .. (n + 1) PROVE Unended(b, i) \in 0 .. (c + 1)
      <3>1. CASE i = n + 1
        BY <2>3, <3>1
      <3>2. CASE i # n + 1
        <4>1. i \in 0 .. n
          BY <1>0, <3>2
        <4> QED
          BY <1>1, <4>1 DEF LogSound, TurnsSound
      <3> QED
        BY <3>1, <3>2
    <2>5. ASSUME NEW i \in 1 .. (n + 1), Opens(b, i) PROVE Unended(b, i - 1) <= c
      <3>1. CASE i = n + 1
        <4>1. row.kind \in {"user", "turn_start"} /\ i - 1 = n
          BY <1>0, <1>1, <2>5, <3>1 DEF Opens
        <4> QED
          BY <2>2, <4>1 DEF MayFollow
      <3>2. CASE i # n + 1
        <4>1. i \in 1 .. n /\ i - 1 \in 0 .. n
          BY <1>0, <3>2
        <4> QED
          BY <1>1, <2>5, <4>1 DEF LogSound, TurnsSound
      <3> QED
        BY <3>1, <3>2
    <2> QED
      BY <1>1, <2>4, <2>5 DEF TurnsSound
  <1>3. TextSound(b)
    <2>1. Streamed(b)[n + 1] = Projections(b)[n + 1].step.text
      <3>1. Streamed(b)[n + 1] = StreamRow(p.step.text, row) /\ Projections(b)[n + 1] = FoldRow(p, row)
        BY <1>1, <1>p
      <3>2. CASE row.kind \in {"chunk", "message", "tool_call"}
        <4>1. StepMoves(p.step, row, FoldRow(p, row).step)
          BY <1>0, <1>p, <3>2, RowEffect
        <4> QED
          BY <3>1, <3>2, <4>1 DEF StepMoves, StreamRow, MayFollow, p
      <3>3. CASE row.kind \in {"user", "tool_result", "turn_end"}
        <4>1. FoldRow(p, row).step = NoStep
          BY <1>0, <1>p, <3>3, RowEffect
        <4> QED
          BY <3>1, <3>3, <4>1, EmptyTypes DEF StreamRow, EmptyStep
      <3>4. CASE row.kind \in {"turn_start", "session_start", "note"}
        <4>1. FoldRow(p, row).step = p.step
          BY <1>0, <1>p, <3>4, RowEffect
        <4> QED
          BY <3>1, <3>4, <4>1 DEF StreamRow
      <3>5. row.kind \in {"session_start", "user", "turn_start", "chunk", "note", "tool_call",
                          "tool_result", "message", "turn_end"}
        BY <1>0 DEF RowType
      <3> QED
        BY <3>2, <3>3, <3>4, <3>5
    <2>2. ASSUME NEW i \in 0 .. (n + 1) PROVE Streamed(b)[i] = Projections(b)[i].step.text
      <3>1. CASE i = n + 1
        BY <2>1, <3>1
      <3>2. CASE i # n + 1
        <4>1. i \in 0 .. n
          BY <1>0, <3>2
        <4> QED
          BY <1>1, <4>1 DEF LogSound, TextSound
      <3> QED
        BY <3>1, <3>2
    <2>3. ASSUME NEW i \in 1 .. (n + 1), b[i].kind = "turn_end", b[i].reason # "compact"
          PROVE  /\ b[i].reason \in {"interrupted", "failed", "completed"}
                 /\ Streamed(b)[i - 1] # <<>> =>
                      Projections(b)[i - 1].step.mark = MarkOf(b[i].reason)
      <3>1. CASE i = n + 1
        <4>1. b[i] = row /\ i - 1 = n
          BY <1>0, <1>1, <3>1
        <4>2. Streamed(b)[n] = p.step.text /\ Projections(b)[n] = p
          BY <1>0, <1>1, <1>p
        <4> QED
          BY <2>3, <4>1, <4>2 DEF MayFollow, p
      <3>2. CASE i # n + 1
        <4>1. i \in 1 .. n /\ i - 1 \in 0 .. n
          BY <1>0, <3>2
        <4>2. b[i] = log[i] /\ Streamed(b)[i - 1] = Streamed(log)[i - 1]
              /\ Projections(b)[i - 1] = Projections(log)[i - 1]
          BY <1>1, <4>1
        <4> QED
          BY <2>3, <4>1, <4>2 DEF LogSound, TextSound
      <3> QED
        BY <3>1, <3>2
    <2> QED
      BY <1>1, <2>2, <2>3 DEF TextSound
  <1>4. BeginSound(b)
    <2>1. CASE log = <<>>
      <3>1. b[1] = row
        BY <1>1, <2>1
      <3> QED
        BY <2>1, <3>1 DEF BeginSound, MayFollow
    <2>2. CASE log # <<>>
      <3>1. b[1] = log[1]
        BY <1>0, <1>1, <2>2, EmptySeq
      <3> QED
        BY <2>2, <3>1 DEF BeginSound, LogSound
    <2> QED
      BY <2>1, <2>2
  <1> QED
    BY <1>1, <1>2, <1>3, <1>4 DEF LogSound, b

-----------------------------------------------------------------------------
(* The log that a compaction writes. *)

\* Numbers go round in fives.
LEMMA Fives ==
    ASSUME NEW i \in Nat
    PROVE  /\ i % 5 \in 0 .. 4
           /\ i % 5 = 4 => (i + 1) % 5 = 0
           /\ i % 5 # 4 => (i + 1) % 5 = (i % 5) + 1
  OBVIOUS

\* The rows of one summarised turn.
LEMMA SummaryRows ==
    /\ SummaryTurn \in Seq(RowType) /\ Len(SummaryTurn) = 5
    /\ SummaryTurn[1].kind = "turn_start" /\ SummaryTurn[2].kind = "user"
    /\ SummaryTurn[3].kind = "chunk" /\ SummaryTurn[3].text = <<0>>
    /\ SummaryTurn[4].kind = "message" /\ SummaryTurn[4].text = <<0>>
    /\ SummaryTurn[4].reason = "none"
    /\ SummaryTurn[5].kind = "turn_end" /\ SummaryTurn[5].reason = "compact"
    /\ SummaryTurn[5].usage = -1
  <1>1. Row("turn_start") \in RowType /\ Row("turn_start").kind = "turn_start"
    BY RowTyped
  <1>2. Row("user") \in RowType /\ Row("user").kind = "user"
    BY RowTyped
  <1>3. Chunk(0) \in RowType /\ Chunk(0).kind = "chunk" /\ Chunk(0).text = <<0>>
    BY ChunkTyped
  <1>4. /\ Message(<<0>>, "none") \in RowType /\ Message(<<0>>, "none").kind = "message"
        /\ Message(<<0>>, "none").text = <<0>> /\ Message(<<0>>, "none").reason = "none"
    <2>1. <<0>> \in TextType /\ "none" \in Marks
      BY DEF TextType, Marks
    <2> QED
      BY <2>1, MessageRowTyped
  <1>5. /\ TurnEnd("compact", -1, 0) \in RowType /\ TurnEnd("compact", -1, 0).kind = "turn_end"
        /\ TurnEnd("compact", -1, 0).reason = "compact" /\ TurnEnd("compact", -1, 0).usage = -1
    <2>1. "compact" \in Marks
      BY DEF Marks
    <2> QED
      BY <2>1, TurnEndTyped
  <1> QED
    BY <1>1, <1>2, <1>3, <1>4, <1>5 DEF SummaryTurn

\* Row i of the summary is a row of a summarised turn.
LEMMA SummaryRow ==
    ASSUME NEW k \in Nat, NEW i \in 1 .. (5 * k)
    PROVE  LET row == SummaryTurns(k)[i]
           IN  /\ row \in RowType
               /\ (i - 1) % 5 \in 0 .. 4
               /\ (i - 1) % 5 = 0 => row.kind = "turn_start"
               /\ (i - 1) % 5 = 1 => row.kind = "user"
               /\ (i - 1) % 5 = 2 => row.kind = "chunk" /\ row.text = <<0>>
               /\ (i - 1) % 5 = 3 => row.kind = "message" /\ row.text = <<0>>
               /\ (i - 1) % 5 = 4 => row.kind = "turn_end" /\ row.reason = "compact" /\ row.usage = -1
  <1> DEFINE r == (i - 1) % 5
  <1>1. i - 1 \in Nat
    OBVIOUS
  <1>2. r \in 0 .. 4
    BY <1>1, Fives
  <1>3. SummaryTurns(k)[i] = SummaryTurn[r + 1]
    BY DEF SummaryTurns
  <1> HIDE DEF r
  <1>4. r + 1 \in 1 .. Len(SummaryTurn)
    BY <1>2, SummaryRows
  <1>5. SummaryTurn[r + 1] \in RowType
    BY <1>4, SummaryRows, ElementOfSeq
  <1>6. CASE r = 0
    BY <1>2, <1>3, <1>5, <1>6, SummaryRows DEF r
  <1>7. CASE r = 1
    BY <1>2, <1>3, <1>5, <1>7, SummaryRows DEF r
  <1>8. CASE r = 2
    BY <1>2, <1>3, <1>5, <1>8, SummaryRows DEF r
  <1>9. CASE r = 3
    BY <1>2, <1>3, <1>5, <1>9, SummaryRows DEF r
  <1>10. CASE r = 4
    BY <1>2, <1>3, <1>5, <1>10, SummaryRows DEF r
  <1> QED
    BY <1>2, <1>6, <1>7, <1>8, <1>9, <1>10

\* The summary is a log of five rows a turn.
LEMMA SummaryTyped ==
    ASSUME NEW k \in Nat
    PROVE  SummaryTurns(k) \in Seq(RowType) /\ Len(SummaryTurns(k)) = 5 * k
  <1> DEFINE s == SummaryTurns(k)
  <1>1. s = [i \in 1 .. (5 * k) |-> s[i]] /\ DOMAIN s = 1 .. (5 * k)
    BY DEF SummaryTurns
  <1>2. \A i \in 1 .. (5 * k) : s[i] \in RowType
    BY SummaryRow
  <1>3. 5 * k \in Nat
    OBVIOUS
  <1> HIDE DEF s
  <1>4. s \in [1 .. (5 * k) -> RowType]
    BY <1>1, <1>2
  <1> QED
    BY <1>3, <1>4 DEF s

\* Where the folds stand after i rows of the summary, r into a turn.
SummaryStands(s, i, r) ==
    /\ Projections(s)[i].tokens = 0
    /\ Projections(s)[i].step.text = IF r \in {3, 4} THEN <<0>> ELSE <<>>
    /\ Streamed(s)[i] = IF r \in {3, 4} THEN <<0>> ELSE <<>>
    /\ Unended(s, i) = IF r = 0 THEN 0 ELSE 1

\* One more row of it.
LEMMA SummaryStep ==
    ASSUME NEW k \in Nat, NEW i \in Nat, i < 5 * k, SummaryStands(SummaryTurns(k), i, i % 5)
    PROVE  SummaryStands(SummaryTurns(k), i + 1, (i + 1) % 5)
  <1> DEFINE s == SummaryTurns(k)
             row == s[i + 1]
             r == i % 5
             p == Projections(s)[i]
             q == Projections(s)[i + 1]
  <1>0. s \in Seq(RowType) /\ Len(s) = 5 * k /\ Len(s) \in Nat
    BY SummaryTyped
  <1>1. i + 1 \in 1 .. (5 * k) /\ (i + 1) - 1 = i /\ i \in 0 .. Len(s) /\ i + 1 \in 1 .. Len(s)
    BY <1>0
  <1>2. /\ row \in RowType /\ r \in 0 .. 4
        /\ r = 0 => row.kind = "turn_start"
        /\ r = 1 => row.kind = "user"
        /\ r = 2 => row.kind = "chunk" /\ row.text = <<0>>
        /\ r = 3 => row.kind = "message" /\ row.text = <<0>>
        /\ r = 4 => row.kind = "turn_end" /\ row.reason = "compact" /\ row.usage = -1
    BY <1>1, SummaryRow
  <1>3. (r = 4 => (i + 1) % 5 = 0) /\ (r # 4 => (i + 1) % 5 = r + 1)
    BY Fives
  <1>4. /\ q = FoldRow(p, row) /\ p \in ProjectionType
        /\ Streamed(s)[i + 1] = StreamRow(Streamed(s)[i], row)
    BY <1>0, <1>1, ProjectionRows, ProjectionTyped, StreamedRows
  <1>5. Unended(s, i + 1) = CASE row.kind = "turn_start" -> Unended(s, i) + 1
                              [] row.kind = "turn_end"   -> Unended(s, i) - 1
                              [] OTHER                   -> Unended(s, i)
    BY CountUnended
  <1>6. /\ p.tokens = 0
        /\ p.step.text = IF r \in {3, 4} THEN <<0>> ELSE <<>>
        /\ Streamed(s)[i] = IF r \in {3, 4} THEN <<0>> ELSE <<>>
        /\ Unended(s, i) = IF r = 0 THEN 0 ELSE 1
    BY DEF SummaryStands
  <1>7. <<>> \o <<0>> = <<0>>
    OBVIOUS
  <1> HIDE DEF s, row, r, p, q
  <1>8. CASE r = 0
    <2>1. q.step = p.step /\ q.tokens = p.tokens
      BY <1>2, <1>4, <1>8, RowEffect
    <2>2. (i + 1) % 5 = 1
      BY <1>3, <1>8
    <2> QED
      BY <1>2, <1>4, <1>5, <1>6, <1>8, <2>1, <2>2 DEF SummaryStands, StreamRow, q, s
  <1>9. CASE r = 1
    <2>1. q.step = NoStep /\ q.tokens = p.tokens
      BY <1>2, <1>4, <1>9, RowEffect
    <2>2. (i + 1) % 5 = 2
      BY <1>3, <1>9
    <2> QED
      BY <1>2, <1>4, <1>5, <1>6, <1>9, <2>1, <2>2, EmptyTypes DEF SummaryStands, StreamRow, EmptyStep, q, s
  <1>10. CASE r = 2
    <2>1. StepMoves(p.step, row, q.step) /\ q.tokens = p.tokens
      BY <1>2, <1>4, <1>10, RowEffect
    <2>2. (i + 1) % 5 = 3
      BY <1>3, <1>10
    <2>3. q.step.text = <<0>>
      BY <1>2, <1>6, <1>7, <1>10, <2>1 DEF StepMoves
    <2>4. Streamed(s)[i + 1] = <<0>>
      BY <1>2, <1>4, <1>6, <1>7, <1>10 DEF StreamRow
    <2> QED
      BY <1>2, <1>5, <1>6, <1>10, <2>1, <2>2, <2>3, <2>4 DEF SummaryStands, q, s
  <1>11. CASE r = 3
    <2>1. StepMoves(p.step, row, q.step) /\ q.tokens = p.tokens
      BY <1>2, <1>4, <1>11, RowEffect
    <2>2. (i + 1) % 5 = 4
      BY <1>3, <1>11
    <2>3. q.step.text = <<0>>
      BY <1>2, <1>11, <2>1 DEF StepMoves
    <2>4. Streamed(s)[i + 1] = <<0>>
      BY <1>2, <1>4, <1>6, <1>11 DEF StreamRow
    <2> QED
      BY <1>2, <1>5, <1>6, <1>11, <2>1, <2>2, <2>3, <2>4 DEF SummaryStands, q, s
  <1>12. CASE r = 4
    <2>1. q.step = NoStep /\ q.tokens = p.tokens + (IF row.usage = -1 THEN 0 ELSE row.usage)
      BY <1>2, <1>4, <1>12, RowEffect
    <2>2. (i + 1) % 5 = 0
      BY <1>3, <1>12
    <2>3. q.tokens = 0
      BY <1>2, <1>6, <1>12, <2>1
    <2> QED
      BY <1>2, <1>4, <1>5, <1>6, <1>12, <2>1, <2>2, <2>3, EmptyTypes
         DEF SummaryStands, StreamRow, EmptyStep, q, s
  <1> QED
    BY <1>2, <1>8, <1>9, <1>10, <1>11, <1>12

\* All of them: the summary is a sound log, of no tokens and no open turn.
LEMMA SummarySound ==
    ASSUME NEW k \in Nat, NEW c \in Nat
    PROVE  /\ LogSound(SummaryTurns(k), c)
           /\ Folded(SummaryTurns(k)).tokens = 0
           /\ Unended(SummaryTurns(k), Len(SummaryTurns(k))) = 0
  <1> DEFINE s == SummaryTurns(k)
             S == {i \in 0 .. (5 * k) : SummaryStands(s, i, i % 5)}
  <1>0. s \in Seq(RowType) /\ Len(s) = 5 * k /\ Len(s) \in Nat
    BY SummaryTyped
  <1>1. 0 \in S
    <2>1. 0 % 5 = 0
      OBVIOUS
    <2>2. Projections(s)[0] = EmptyProjection /\ Streamed(s)[0] = <<>> /\ Unended(s, 0) = 0
      BY <1>0, ProjectionRows, StreamedRows, CountUnended
    <2>3. EmptyProjection.tokens = 0 /\ EmptyProjection.step.text = <<>>
      BY DEF EmptyProjection, NoStep, AssistantStep
    <2>4. SummaryStands(s, 0, 0)
      BY <2>2, <2>3 DEF SummaryStands
    <2> QED
      BY <1>0, <2>1, <2>4
  <1>2. ASSUME NEW i \in Nat, i < 5 * k, i \in S PROVE i + 1 \in S
    <2>1. SummaryStands(s, i + 1, (i + 1) % 5)
      BY <1>2, SummaryStep
    <2> QED
      BY <1>0, <1>2, <2>1
  <1>3. \A i \in 0 .. (5 * k) : SummaryStands(s, i, i % 5)
    <2>1. \A i \in 0 .. (5 * k) : i \in S
      <3> HIDE DEF S
      <3> QED
        BY <1>0, <1>1, <1>2, Climb
    <2> QED
      BY <2>1
  <1>4. \A i \in 1 .. (5 * k) :
            /\ (i - 1) % 5 \in 0 .. 4
            /\ (i - 1) % 5 = 0 => s[i].kind = "turn_start"
            /\ (i - 1) % 5 = 1 => s[i].kind = "user"
            /\ (i - 1) % 5 = 2 => s[i].kind = "chunk"
            /\ (i - 1) % 5 = 3 => s[i].kind = "message"
            /\ (i - 1) % 5 = 4 => s[i].kind = "turn_end" /\ s[i].reason = "compact"
    BY SummaryRow
  <1> HIDE DEF s
  <1>5. TurnsSound(s, c)
    <2>1. \A i \in 0 .. Len(s) : Unended(s, i) \in 0 .. (c + 1)
      BY <1>0, <1>3 DEF SummaryStands
    <2>2. ASSUME NEW i \in 1 .. Len(s), Opens(s, i) PROVE Unended(s, i - 1) <= c
      <3>1. s[i].kind \in {"turn_start", "user"}
        BY <2>2 DEF Opens
      <3>2. (i - 1) % 5 \in {0, 1} /\ i - 1 \in Nat /\ i - 1 \in 0 .. (5 * k)
        BY <1>0, <1>4, <3>1
      <3>3. ASSUME (i - 1) % 5 = 1 PROVE FALSE
        <4>1. s[i].kind = "user" /\ ~Counted(s, i - 1)
          BY <1>0, <1>4, <2>2, <3>3 DEF Opens
        <4>2. i # 1 /\ i - 2 \in Nat /\ (i - 2) + 1 = i - 1 /\ (i - 1) - 1 = i - 2
          BY <3>3
        <4>3. (i - 2) % 5 = 0
          BY <3>3, <4>2, Fives
        <4>4. i - 1 \in 1 .. (5 * k)
          BY <1>0, <4>2
        <4>5. s[i - 1].kind = "turn_start"
          BY <1>4, <4>2, <4>3, <4>4
        <4>6. Counted(s, i - 1)
          BY <4>4, <4>5 DEF Counted
        <4> QED
          BY <4>1, <4>6
      <3>4. (i - 1) % 5 = 0
        BY <3>2, <3>3
      <3>5. Unended(s, i - 1) = 0
        BY <1>3, <3>2, <3>4 DEF SummaryStands
      <3> QED
        BY <3>5
    <2> QED
      BY <2>1, <2>2 DEF TurnsSound
  <1>6. TextSound(s)
    <2>1. \A i \in 0 .. Len(s) : Streamed(s)[i] = Projections(s)[i].step.text
      BY <1>0, <1>3 DEF SummaryStands
    <2>2. \A i \in 1 .. Len(s) : s[i].kind = "turn_end" => s[i].reason = "compact"
      BY <1>0, <1>4
    <2> QED
      BY <2>1, <2>2 DEF TextSound
  <1>7. BeginSound(s)
    <2> SUFFICES ASSUME s # <<>> PROVE s[1].kind = "turn_start"
      BY DEF BeginSound
    <2>1. 1 \in 1 .. (5 * k) /\ (1 - 1) % 5 = 0
      BY <1>0, EmptySeq
    <2> QED
      BY <1>4, <2>1
  <1>8. Folded(s).tokens = 0 /\ Unended(s, Len(s)) = 0
    <2>1. Len(s) \in 0 .. (5 * k) /\ (5 * k) % 5 = 0
      BY <1>0
    <2>2. SummaryStands(s, Len(s), 0)
      BY <1>0, <1>3, <2>1
    <2> QED
      BY <2>2 DEF SummaryStands, Folded
  <1> QED
    BY <1>0, <1>5, <1>6, <1>7, <1>8 DEF LogSound, s

-----------------------------------------------------------------------------
(* The recorder keeps the invariant. *)

\* TypeOK, variable by variable.
NumbersTyped ==
    /\ opened \in Nat /\ asked \in Nat /\ calls \in Nat /\ tokens \in Nat /\ billed \in Nat
    /\ memory \in Nat /\ steps \in Nat /\ queries \in Nat /\ crashes \in Nat /\ rewrites \in Nat
    /\ usage \in Nat \cup {-1} /\ bare \in Nat \cup {-1} /\ compacting \in Nat \cup {-1}

\* It says no more and no less.
LEMMA TypeParts ==
    TypeOK <=> /\ rows \in Seq(RowType)
               /\ query \in {"none", "accepted", "prompted", "streaming", "malformed", "tools",
                             "final", "ended"}
               /\ enabled \in BOOLEAN /\ turnOpen \in BOOLEAN
               /\ stepText \in TextType
               /\ NumbersTyped
  BY DEF TypeOK, NumbersTyped

\* The end of a log.
LEMMA FoldedTyped ==
    ASSUME NEW log \in Seq(RowType)
    PROVE  /\ Folded(log) \in ProjectionType /\ Folded(log).tokens \in Nat
           /\ Unended(log, Len(log)) \in Int
  <1>1. Len(log) \in Nat /\ Len(log) \in 0 .. Len(log)
    OBVIOUS
  <1>2. Folded(log) \in ProjectionType
    BY <1>1, ProjectionTyped DEF Folded
  <1> QED
    BY <1>1, <1>2, CountUnended DEF ProjectionType

\* One row more, of a kind that does not end a turn.
LEMMA OneMore ==
    ASSUME NEW log, NEW row, NEW c \in Nat, LogSound(log, c), MayFollow(log, row, c)
    PROVE  LET b == Append(log, row)
           IN  /\ LogSound(b, c)
               /\ b # <<>> /\ Len(b) = Len(log) + 1
               /\ Folded(b) = FoldRow(Folded(log), row)
               /\ Unended(b, Len(b)) = CASE row.kind = "turn_start" -> Unended(log, Len(log)) + 1
                                         [] row.kind = "turn_end"   -> Unended(log, Len(log)) - 1
                                         [] OTHER                   -> Unended(log, Len(log))
  <1> DEFINE b == Append(log, row)
  <1>0. log \in Seq(RowType) /\ row \in RowType /\ Len(log) \in Nat
    BY DEF LogSound, MayFollow
  <1>1. LogSound(b, c)
    BY AppendSound
  <1>2. /\ Len(b) = Len(log) + 1 /\ b[Len(log) + 1] = row /\ b # <<>>
        /\ Folded(b) = FoldRow(Folded(log), row)
        /\ Unended(b, Len(log)) = Unended(log, Len(log))
    BY <1>0, AppendedRow, AppendProperties
  <1> HIDE DEF b
  <1>3. Unended(b, Len(log) + 1) = CASE row.kind = "turn_start" -> Unended(b, Len(log)) + 1
                                     [] row.kind = "turn_end"   -> Unended(b, Len(log)) - 1
                                     [] OTHER                   -> Unended(b, Len(log))
    BY <1>0, <1>2, CountUnended
  <1> QED
    BY <1>1, <1>2, <1>3 DEF b

\* record_body, whether or not the tee has a writer.
LEMMA Recorded ==
    ASSUME TeeInv, NEW row \in RowType, RecordBody(row),
           enabled => MayFollow(rows, row, crashes), row.kind # "turn_end"
    PROVE  /\ LogSound(rows', crashes)
           /\ stepText' \in TextType
           /\ ~enabled => rows' = rows
           /\ enabled => /\ rows' # <<>> /\ Len(rows') = Len(rows) + 1
                         /\ Folded(rows') = FoldRow(Folded(rows), row)
                         /\ Unended(rows', Len(rows')) =
                                IF row.kind = "turn_start" THEN Unended(rows, Len(rows)) + 1
                                ELSE Unended(rows, Len(rows))
           /\ Folded(rows').tokens = Folded(rows).tokens
  <1>0. /\ rows \in Seq(RowType) /\ enabled \in BOOLEAN /\ stepText \in Seq(Nat) /\ crashes \in Nat
        /\ LogSound(rows, crashes) /\ Folded(rows) \in ProjectionType
    BY TypeParts, FoldedTyped DEF TeeInv, TextType, NumbersTyped
  <1>1. stepText' \in TextType
    <2>1. row.text \in Seq(Nat)
      BY DEF RowType, TextType
    <2>2. stepText' = StepAfter(stepText, row)
      BY DEF RecordBody
    <2>3. CASE row.kind = "chunk"
      BY <1>0, <2>1, <2>2, <2>3 DEF StepAfter, TextType
    <2>4. CASE row.kind # "chunk"
      BY <1>0, <2>2, <2>4 DEF StepAfter, TextType
    <2> QED
      BY <2>3, <2>4
  <1>2. CASE ~enabled
    BY <1>0, <1>1, <1>2 DEF RecordBody
  <1>3. CASE enabled
    <2>1. rows' = Append(rows, row) /\ MayFollow(rows, row, crashes)
      BY <1>3 DEF RecordBody
    <2>2. /\ LogSound(rows', crashes)
          /\ rows' # <<>> /\ Len(rows') = Len(rows) + 1
          /\ Folded(rows') = FoldRow(Folded(rows), row)
          /\ Unended(rows', Len(rows')) =
                CASE row.kind = "turn_start" -> Unended(rows, Len(rows)) + 1
                  [] row.kind = "turn_end"   -> Unended(rows, Len(rows)) - 1
                  [] OTHER                   -> Unended(rows, Len(rows))
      BY <1>0, <2>1, OneMore
    <2>3. Folded(rows').tokens = Folded(rows).tokens
      BY <1>0, <2>2, RowEffect
    <2> QED
      BY <1>1, <1>3, <2>2, <2>3
  <1> QED
    BY <1>0, <1>2, <1>3

\* The rows of a closing, one after the other.
LEMMA ConcatAppend ==
    ASSUME NEW S, NEW s \in Seq(S), NEW x \in Seq(S), NEW e \in S
    PROVE  s \o (x \o <<e>>) = Append(s \o x, e)
  <1>1. <<e>> \in Seq(S) /\ s \o x \in Seq(S)
    OBVIOUS
  <1>2. s \o (x \o <<e>>) = (s \o x) \o <<e>>
    BY <1>1, ConcatAssociative
  <1>3. (s \o x) \o <<e>> = Append(s \o x, e)
    BY <1>1, AppendIsConcat
  <1> QED
    BY <1>2, <1>3

\* A projection's open step after a row that is not of the conversation.
LEMMA NoteKeeps ==
    ASSUME NEW log, NEW c \in Nat, LogSound(log, c), log # <<>>
    PROVE  LET b == Append(log, Row("note"))
           IN  /\ LogSound(b, c) /\ b # <<>> /\ Len(b) = Len(log) + 1
               /\ Folded(b).step = Folded(log).step /\ Folded(b).tokens = Folded(log).tokens
               /\ Unended(b, Len(b)) = Unended(log, Len(log))
  <1> DEFINE row == Row("note")
  <1>1. row \in RowType /\ row.kind = "note"
    BY RowTyped
  <1>2. log \in Seq(RowType) /\ Folded(log) \in ProjectionType
    BY FoldedTyped DEF LogSound
  <1> HIDE DEF row
  <1>3. MayFollow(log, row, c)
    BY <1>1 DEF MayFollow
  <1>4. /\ LogSound(Append(log, row), c) /\ Append(log, row) # <<>>
        /\ Len(Append(log, row)) = Len(log) + 1
        /\ Folded(Append(log, row)) = FoldRow(Folded(log), row)
        /\ Unended(Append(log, row), Len(Append(log, row))) = Unended(log, Len(log))
    BY <1>1, <1>3, OneMore
  <1>5. /\ FoldRow(Folded(log), row).step = Folded(log).step
        /\ FoldRow(Folded(log), row).tokens = Folded(log).tokens
    BY <1>1, <1>2, RowEffect
  <1> QED
    BY <1>4, <1>5 DEF row

\* The finalizing row repeats the open step's text, under its marker.
LEMMA FinalizingKeeps ==
    ASSUME NEW log, NEW c \in Nat, LogSound(log, c), log # <<>>, NEW mark \in Marks
    PROVE  LET b == Append(log, Message(Folded(log).step.text, mark))
           IN  /\ LogSound(b, c) /\ b # <<>> /\ Len(b) = Len(log) + 1
               /\ Folded(b).step.text = Folded(log).step.text /\ Folded(b).step.mark = mark
               /\ Folded(b).tokens = Folded(log).tokens
               /\ Unended(b, Len(b)) = Unended(log, Len(log))
  <1> DEFINE text == Folded(log).step.text
             row == Message(text, mark)
             b == Append(log, row)
  <1>1. log \in Seq(RowType) /\ Folded(log) \in ProjectionType
    BY FoldedTyped DEF LogSound
  <1>2. text \in TextType
    BY <1>1 DEF ProjectionType, StepType
  <1>3. row \in RowType /\ row.kind = "message" /\ row.text = text /\ row.reason = mark
    BY <1>2, MessageRowTyped
  <1> HIDE DEF row
  <1>4. MayFollow(log, row, c)
    BY <1>3 DEF MayFollow
  <1>5. /\ LogSound(b, c) /\ b # <<>> /\ Len(b) = Len(log) + 1
        /\ Folded(b) = FoldRow(Folded(log), row)
        /\ Unended(b, Len(b)) = Unended(log, Len(log))
    BY <1>3, <1>4, OneMore
  <1>6. /\ FoldRow(Folded(log), row).tokens = Folded(log).tokens
        /\ StepMoves(Folded(log).step, row, FoldRow(Folded(log), row).step)
    BY <1>1, <1>3, RowEffect
  <1>7. /\ FoldRow(Folded(log), row).step.text = text
        /\ FoldRow(Folded(log), row).step.mark = mark
    BY <1>3, <1>6 DEF StepMoves
  <1> QED
    BY <1>5, <1>6, <1>7 DEF row

Reasons == {"completed", "failed", "interrupted"}

\* close_turn with a writer: the log is sound, one turn more is ended, and the
\* tokens reported in it are in the log.
LEMMA TurnClosed ==
    ASSUME TeeInv, turnOpen, enabled, NEW reason \in Reasons,
           NEW before \in {<<>>, <<Row("note")>>}, CloseTurn(reason, before)
    PROVE  /\ LogSound(rows', crashes)
           /\ rows' # <<>> /\ Len(rows') >= Len(rows)
           /\ Folded(rows').tokens = Folded(rows).tokens + tokens
           /\ Unended(rows', Len(rows')) = Unended(rows, Len(rows)) - 1
  <1> DEFINE u == IF usage # -1 THEN usage ELSE bare
             e == TurnEnd(reason, u, steps)
             x == IF FinalizeReason(reason) # "none" /\ stepText # <<>>
                  THEN <<Message(stepText, FinalizeReason(reason))>> ELSE <<>>
             l1 == rows \o before
             l2 == l1 \o x
  <1>0. /\ rows \in Seq(RowType) /\ crashes \in Nat /\ LogSound(rows, crashes) /\ rows # <<>>
        /\ stepText \in TextType /\ steps \in Nat /\ tokens \in Nat
        /\ usage \in Nat \cup {-1} /\ bare \in Nat \cup {-1} /\ Len(rows) \in Nat
        /\ query # "none"
    BY TypeParts DEF TeeInv, NumbersTyped, RecorderSound, InTurn
  <1>1. /\ stepText = Folded(rows).step.text /\ Folded(rows).step.mark = "none"
        /\ Unended(rows, Len(rows)) >= 1
    BY DEF TeeInv, RecorderSound
  <1>2. /\ u \in Nat \cup {-1}
        /\ (IF u = -1 THEN 0 ELSE u) = tokens
    <2>1. usage = -1 => bare <= 0 /\ tokens = 0
      BY DEF TeeInv, UsageSound
    <2>2. usage # -1 => usage = tokens
      BY DEF TeeInv, UsageSound
    <2> QED
      BY <1>0, <2>1, <2>2
  <1>3. reason \in Marks /\ FinalizeReason(reason) \in Marks
        /\ FinalizeReason(reason) = MarkOf(reason) /\ reason \in {"interrupted", "failed", "completed"}
    BY DEF Reasons, Marks, FinalizeReason, MarkOf
  <1>4. e \in RowType /\ e.kind = "turn_end" /\ e.reason = reason /\ e.usage = u
    BY <1>0, <1>2, <1>3, TurnEndTyped
  <1>5. rows' = (rows \o before) \o (x \o <<e>>)
    BY DEF CloseTurn, ClosingRows
  <1> HIDE DEF u, e
  <1>6. /\ l1 \in Seq(RowType) /\ LogSound(l1, crashes) /\ l1 # <<>> /\ Len(l1) >= Len(rows)
        /\ Folded(l1).step = Folded(rows).step /\ Folded(l1).tokens = Folded(rows).tokens
        /\ Unended(l1, Len(l1)) = Unended(rows, Len(rows)) /\ Len(l1) \in Nat
    <2>1. CASE before = <<>>
      <3>1. l1 = rows
        BY <1>0, <2>1
      <3> QED
        BY <1>0, <3>1
    <2>2. CASE before = <<Row("note")>>
      <3>1. Row("note") \in RowType
        BY RowTyped
      <3>2. l1 = Append(rows, Row("note"))
        BY <1>0, <2>2, <3>1, AppendIsConcat
      <3>3. /\ LogSound(l1, crashes) /\ l1 # <<>> /\ Len(l1) = Len(rows) + 1
            /\ Folded(l1).step = Folded(rows).step /\ Folded(l1).tokens = Folded(rows).tokens
            /\ Unended(l1, Len(l1)) = Unended(rows, Len(rows))
        BY <1>0, <3>2, NoteKeeps
      <3>4. l1 \in Seq(RowType)
        BY <3>3 DEF LogSound
      <3> QED
        BY <1>0, <3>3, <3>4
    <2> QED
      BY <2>1, <2>2
  <1> HIDE DEF l1
  <1>7. /\ LogSound(l2, crashes) /\ l2 # <<>> /\ Len(l2) >= Len(l1) /\ Len(l2) \in Nat
        /\ Folded(l2).step.text = Folded(l1).step.text /\ Folded(l2).tokens = Folded(l1).tokens
        /\ Folded(l2).step.text # <<>> => Folded(l2).step.mark = MarkOf(reason)
        /\ Unended(l2, Len(l2)) = Unended(l1, Len(l1))
        /\ x \in Seq(RowType)
    <2>1. CASE FinalizeReason(reason) # "none" /\ stepText # <<>>
      <3> DEFINE row == Message(stepText, FinalizeReason(reason))
      <3>1. row \in RowType
        BY <1>0, <1>3, MessageRowTyped
      <3>2. x = <<row>>
        BY <2>1
      <3>3. l2 = Append(l1, row) /\ x \in Seq(RowType)
        BY <1>6, <3>1, <3>2, AppendIsConcat
      <3>4. stepText = Folded(l1).step.text
        BY <1>1, <1>6
      <3>5. /\ LogSound(l2, crashes) /\ l2 # <<>> /\ Len(l2) = Len(l1) + 1
            /\ Folded(l2).step.text = Folded(l1).step.text
            /\ Folded(l2).step.mark = FinalizeReason(reason)
            /\ Folded(l2).tokens = Folded(l1).tokens
            /\ Unended(l2, Len(l2)) = Unended(l1, Len(l1))
        <4> HIDE DEF l2, x
        <4>1. l2 = Append(l1, Message(Folded(l1).step.text, FinalizeReason(reason)))
          BY <3>3, <3>4
        <4> QED
          BY <1>0, <1>3, <1>6, <4>1, FinalizingKeeps
      <3> HIDE DEF row, l2, x
      <3> QED
        BY <1>3, <1>6, <3>3, <3>5
    <2>2. CASE ~(FinalizeReason(reason) # "none" /\ stepText # <<>>)
      <3>1. x = <<>>
        BY <2>2
      <3>2. l2 = l1 /\ x \in Seq(RowType)
        BY <1>6, <3>1
      <3>3. Folded(l1).step.text # <<>> => Folded(l1).step.mark = MarkOf(reason)
        BY <1>1, <1>3, <1>6, <2>2
      <3> HIDE DEF l2, x
      <3> QED
        BY <1>6, <3>2, <3>3
    <2> QED
      BY <2>1, <2>2
  <1>8. rows' = Append(l2, e)
    <2> HIDE DEF x
    <2>1. rows' = l1 \o (x \o <<e>>)
      BY <1>5 DEF l1
    <2>2. l1 \o (x \o <<e>>) = Append(l1 \o x, e)
      BY <1>4, <1>6, <1>7, ConcatAppend
    <2> QED
      BY <2>1, <2>2
  <1> HIDE DEF l2, x
  <1>9. MayFollow(l2, e, crashes)
    BY <1>1, <1>3, <1>4, <1>6, <1>7 DEF MayFollow
  <1>10. /\ LogSound(rows', crashes) /\ rows' # <<>> /\ Len(rows') = Len(l2) + 1
         /\ Folded(rows') = FoldRow(Folded(l2), e)
         /\ Unended(rows', Len(rows')) = Unended(l2, Len(l2)) - 1
    BY <1>0, <1>4, <1>7, <1>8, <1>9, OneMore
  <1>11. Folded(l2) \in ProjectionType
    BY <1>7, FoldedTyped DEF LogSound
  <1>12. Folded(rows').tokens = Folded(l2).tokens + (IF u = -1 THEN 0 ELSE u)
    BY <1>4, <1>10, <1>11, RowEffect
  <1> QED
    BY <1>0, <1>2, <1>6, <1>7, <1>10, <1>12

\* Rows that end no turn add no tokens.
LEMMA TokensKept ==
    ASSUME NEW log \in Seq(RowType), NEW n \in 0 .. Len(log),
           \A i \in 1 .. Len(log) : log[i].kind = "turn_end" => i <= n
    PROVE  /\ Folded(SubSeq(log, 1, n)) = Projections(log)[n]
           /\ Folded(SubSeq(log, 1, n)).tokens = Folded(log).tokens
           /\ Unended(SubSeq(log, 1, n), n) = Unended(log, n)
  <1> DEFINE s == SubSeq(log, 1, n)
             d == Len(log) - n
             S == {j \in 0 .. d : Projections(log)[n + j].tokens = Projections(log)[n].tokens}
  <1>0. Len(log) \in Nat /\ n \in Nat /\ n <= Len(log) /\ d \in Nat
    OBVIOUS
  <1>1. s \in Seq(RowType) /\ Len(s) = n /\ \A i \in 1 .. n : s[i] = log[i]
    BY Leading
  <1> HIDE DEF s
  <1>2. Projections(s)[n] = Projections(log)[n] /\ Unended(s, n) = Unended(log, n)
    BY <1>0, <1>1, Alike
  <1>3. 0 \in S
    BY <1>0
  <1>4. ASSUME NEW j \in Nat, j < d, j \in S PROVE j + 1 \in S
    <2>1. n + j \in 0 .. Len(log) /\ n + j + 1 \in 1 .. Len(log) /\ (n + j + 1) - 1 = n + j
          /\ n + (j + 1) = n + j + 1 /\ j + 1 \in 0 .. d /\ ~(n + j + 1 <= n)
      BY <1>0, <1>4
    <2>2. Projections(log)[n + j + 1] = FoldRow(Projections(log)[n + j], log[n + j + 1])
      BY <1>0, <2>1, ProjectionRows
    <2>3. Projections(log)[n + j] \in ProjectionType /\ log[n + j + 1] \in RowType
      BY <2>1, ProjectionTyped, ElementOfSeq
    <2>4. log[n + j + 1].kind # "turn_end"
      BY <2>1
    <2>5. Projections(log)[n + j + 1].tokens = Projections(log)[n + j].tokens
      <3> DEFINE p == Projections(log)[n + j]
                 row == log[n + j + 1]
      <3>1. Projections(log)[n + j + 1] = FoldRow(p, row)
        BY <2>2
      <3> HIDE DEF p, row
      <3>2. p \in ProjectionType /\ row \in RowType /\ row.kind # "turn_end"
        BY <2>3, <2>4 DEF p, row
      <3>3. FoldRow(p, row).tokens = p.tokens
        BY <3>2, RowEffect
      <3> QED
        BY <3>1, <3>3 DEF p
    <2>6. Projections(log)[n + j].tokens = Projections(log)[n].tokens
      BY <1>4
    <2> QED
      BY <2>1, <2>5, <2>6
  <1>5. d \in S
    <2> HIDE DEF S, d
    <2>1. \A j \in 0 .. d : j \in S
      BY <1>0, <1>3, <1>4, Climb
    <2> QED
      BY <1>0, <2>1
  <1>6. Projections(log)[Len(log)].tokens = Projections(log)[n].tokens
    <2>1. n + d = Len(log)
      BY <1>0
    <2> QED
      BY <1>5, <2>1
  <1> QED
    BY <1>1, <1>2, <1>6 DEF Folded, s

\* What has left the writer's buffer is in the log, and holds every turn/end.
LEMMA FlushedRows ==
    ASSUME rows \in Seq(RowType), opened \in Nat, opened <= Len(rows)
    PROVE  /\ Flushed \in 0 .. Len(rows)
           /\ \A i \in 1 .. Len(rows) : rows[i].kind = "turn_end" => i <= Flushed
  <1> DEFINE S == {opened} \cup {i \in 1 .. Len(rows) : rows[i].kind \in {"tool_result", "turn_end"}}
  <1>1. Len(rows) \in Nat
    OBVIOUS
  <1>2. S \in SUBSET Nat /\ S # {} /\ \A i \in S : i <= Len(rows)
    BY <1>1
  <1>3. Flushed = Max(S)
    BY DEF Flushed
  <1>4. \A i \in 1 .. Len(rows) : rows[i].kind = "turn_end" => i \in S
    OBVIOUS
  <1> HIDE DEF S
  <1>5. Max(S) \in S /\ \A i \in S : i <= Max(S)
    BY <1>1, <1>2, MaxNumber
  <1>6. Flushed \in S /\ \A i \in S : i <= Flushed
    BY <1>3, <1>5
  <1> HIDE DEF Flushed
  <1>7. Flushed \in Nat /\ Flushed <= Len(rows)
    BY <1>2, <1>6
  <1> QED
    BY <1>1, <1>4, <1>6, <1>7

\* The empty log is sound.
LEMMA EmptySound ==
    ASSUME NEW c \in Nat
    PROVE  LogSound(<<>>, c) /\ Folded(<<>>) = EmptyProjection /\ Unended(<<>>, Len(<<>>)) = 0
  <1>1. Len(<<>>) = 0 /\ <<>> \in Seq(RowType)
    OBVIOUS
  <1>2. Projections(<<>>)[0] = EmptyProjection /\ Streamed(<<>>)[0] = <<>> /\ Unended(<<>>, 0) = 0
    BY <1>1, ProjectionRows, StreamedRows, CountUnended
  <1>3. EmptyProjection.step.text = <<>>
    BY DEF EmptyProjection, NoStep, AssistantStep
  <1>4. \A i \in 0 .. 0 : i = 0
    OBVIOUS
  <1>5. TurnsSound(<<>>, c)
    BY <1>1, <1>2, <1>4 DEF TurnsSound
  <1>6. TextSound(<<>>)
    BY <1>1, <1>2, <1>3, <1>4 DEF TextSound
  <1> QED
    BY <1>1, <1>2, <1>5, <1>6 DEF LogSound, BeginSound, Folded

\* A fresh log opens with session/start.
LEMMA StartSound ==
    ASSUME NEW c \in Nat
    PROVE  LET b == <<Row("session_start")>>
           IN  LogSound(b, c) /\ b # <<>> /\ Len(b) = 1 /\ Folded(b).tokens = 0 /\ Unended(b, Len(b)) = 0
  <1> DEFINE row == Row("session_start")
             b == Append(<<>>, row)
  <1>1. row \in RowType /\ row.kind = "session_start"
    BY RowTyped
  <1>2. b = <<row>>
    OBVIOUS
  <1> HIDE DEF row
  <1>3. LogSound(<<>>, c) /\ MayFollow(<<>>, row, c)
    BY <1>1, EmptySound DEF MayFollow
  <1>4. /\ LogSound(b, c) /\ Folded(b) = FoldRow(EmptyProjection, row)
        /\ Unended(b, Len(b)) = 0
    BY <1>1, <1>3, OneMore, EmptySound
  <1>5. FoldRow(EmptyProjection, row).tokens = 0
    <2>1. EmptyProjection.tokens = 0
      BY DEF EmptyProjection
    <2> QED
      BY <1>1, <2>1, EmptyTypes, RowEffect
  <1> QED
    BY <1>2, <1>4, <1>5 DEF row

\* The invariant at the start.
LEMMA InitTeeInv == Init => TeeInv
  <1> SUFFICES ASSUME Init PROVE TeeInv
    OBVIOUS
  <1>1. TypeOK
    <2>1. NumbersTyped
      BY DEF Init, NumbersTyped
    <2>2. rows \in Seq(RowType) /\ stepText \in TextType
      BY DEF Init, TextType
    <2> QED
      BY <2>1, <2>2, TypeParts DEF Init
  <1>2. LogSound(rows, crashes)
    BY EmptySound DEF Init
  <1>3. Unended(rows, Len(rows)) = 0 /\ Folded(rows).tokens = 0
    BY EmptySound DEF Init, EmptyProjection
  <1>4. RecorderSound
    BY <1>3 DEF Init, RecorderSound, InTurn
  <1>5. UsageSound
    BY <1>3 DEF Init, UsageSound
  <1> QED
    BY <1>1, <1>2, <1>4, <1>5 DEF TeeInv

\* The parts of the invariant after a step.
LEMMA TypePartsNext ==
    ASSUME /\ rows' \in Seq(RowType)
           /\ query' \in {"none", "accepted", "prompted", "streaming", "malformed", "tools",
                          "final", "ended"}
           /\ enabled' \in BOOLEAN /\ turnOpen' \in BOOLEAN
           /\ stepText' \in TextType
           /\ NumbersTyped'
    PROVE  TypeOK'
  BY DEF TypeOK, NumbersTyped

\* The parts of the invariant before a step.
LEMMA Before ==
    ASSUME TeeInv
    PROVE  /\ rows \in Seq(RowType) /\ Len(rows) \in Nat
           /\ query \in {"none", "accepted", "prompted", "streaming", "malformed", "tools",
                         "final", "ended"}
           /\ enabled \in BOOLEAN /\ turnOpen \in BOOLEAN
           /\ stepText \in TextType
           /\ NumbersTyped
           /\ LogSound(rows, crashes)
           /\ Folded(rows) \in ProjectionType /\ Folded(rows).tokens \in Nat
           /\ Unended(rows, Len(rows)) \in Int /\ Unended(rows, Len(rows)) >= 0
           /\ crashes \in Nat
  <1>1. /\ rows \in Seq(RowType)
        /\ query \in {"none", "accepted", "prompted", "streaming", "malformed", "tools",
                      "final", "ended"}
        /\ enabled \in BOOLEAN /\ turnOpen \in BOOLEAN
        /\ stepText \in TextType
        /\ NumbersTyped
    BY TypeParts DEF TeeInv
  <1>2. LogSound(rows, crashes)
    BY DEF TeeInv
  <1>3. Len(rows) \in Nat /\ Len(rows) \in 0 .. Len(rows)
    BY <1>1
  <1>4. Unended(rows, Len(rows)) >= 0
    BY <1>2, <1>3 DEF LogSound, TurnsSound
  <1>5. crashes \in Nat
    BY <1>1 DEF NumbersTyped
  <1> QED
    BY <1>1, <1>2, <1>3, <1>4, <1>5, FoldedTyped

\* process_query opens the tee.
LEMMA AcceptTeeInv == TeeInv /\ Accept => TeeInv'
  <1> SUFFICES ASSUME TeeInv, Accept PROVE TeeInv'
    OBVIOUS
  <1>0. /\ rows \in Seq(RowType) /\ Len(rows) \in Nat /\ NumbersTyped /\ LogSound(rows, crashes)
        /\ crashes \in Nat /\ Folded(rows).tokens \in Nat /\ Unended(rows, Len(rows)) \in Int
    BY Before
  <1>1. /\ query = "none" /\ ~turnOpen /\ usage = -1 /\ tokens = 0
        /\ Folded(rows).tokens = billed /\ Unended(rows, Len(rows)) <= crashes
    BY <1>0 DEF TeeInv, RecorderSound, UsageSound, InTurn, Accept
  <1>2. enabled' \in BOOLEAN
    BY LockConflictsAssumption DEF Accept
  <1>3. /\ LogSound(rows', crashes) /\ Folded(rows').tokens = billed
        /\ Unended(rows', Len(rows')) <= crashes /\ Len(rows) <= Len(rows')
        /\ enabled' => rows' # <<>>
    <2>1. CASE enabled' /\ rows = <<>>
      <3>1. rows' = <<Row("session_start")>>
        BY <2>1 DEF Accept
      <3>2. /\ LogSound(rows', crashes) /\ rows' # <<>> /\ Len(rows') = 1
            /\ Folded(rows').tokens = 0 /\ Unended(rows', Len(rows')) = 0
        BY <1>0, <3>1, StartSound
      <3>3. Folded(rows).tokens = 0 /\ Len(rows) = 0
        BY <2>1, EmptySound DEF EmptyProjection
      <3> QED
        BY <1>0, <1>1, <3>2, <3>3
    <2>2. CASE ~(enabled' /\ rows = <<>>)
      <3>1. rows' = rows
        BY <2>2 DEF Accept
      <3> QED
        BY <1>0, <1>1, <1>2, <2>2, <3>1
    <2> QED
      BY <2>1, <2>2
  <1>4. TypeOK'
    <2>1. NumbersTyped'
      BY <1>0 DEF NumbersTyped, Accept
    <2>2. rows' \in Seq(RowType)
      BY <1>3 DEF LogSound
    <2>3. query' = "accepted" /\ turnOpen' = FALSE /\ stepText' \in TextType
      BY DEF Accept, TextType
    <2> QED
      BY <1>2, <2>1, <2>2, <2>3, TypePartsNext
  <1>5. crashes' = crashes
    BY DEF Accept
  <1>6. RecorderSound'
    BY <1>0, <1>3, <1>5 DEF RecorderSound, InTurn, Accept
  <1>7. UsageSound'
    BY <1>1, <1>3 DEF UsageSound, Accept
  <1> QED
    BY <1>3, <1>4, <1>5, <1>6, <1>7 DEF TeeInv

\* The prompt comes between turns, and ends the step before it.
LEMMA RecordUserMessageTeeInv == TeeInv /\ RecordUserMessage => TeeInv'
  <1> SUFFICES ASSUME TeeInv, RecordUserMessage PROVE TeeInv'
    OBVIOUS
  <1> DEFINE row == Row("user")
  <1>0. /\ rows \in Seq(RowType) /\ Len(rows) \in Nat /\ NumbersTyped /\ LogSound(rows, crashes)
        /\ crashes \in Nat /\ Folded(rows) \in ProjectionType /\ enabled \in BOOLEAN
    BY Before
  <1>1. row \in RowType /\ row.kind = "user" /\ RecordBody(row)
    BY RowTyped DEF RecordUserMessage
  <1> HIDE DEF row
  <1>2. /\ query = "accepted" /\ ~turnOpen /\ (enabled => rows # <<>> /\ opened <= Len(rows))
        /\ Unended(rows, Len(rows)) <= crashes
    BY <1>0 DEF TeeInv, RecorderSound, InTurn, RecordUserMessage
  <1>3. enabled => MayFollow(rows, row, crashes)
    BY <1>1, <1>2 DEF MayFollow
  <1>4. /\ LogSound(rows', crashes) /\ stepText' \in TextType
        /\ ~enabled => rows' = rows
        /\ enabled => /\ rows' # <<>> /\ Len(rows') = Len(rows) + 1
                      /\ Folded(rows') = FoldRow(Folded(rows), row)
                      /\ Unended(rows', Len(rows')) = Unended(rows, Len(rows))
        /\ Folded(rows').tokens = Folded(rows).tokens
    BY <1>1, <1>3, Recorded
  <1>5. enabled => Folded(rows').step = NoStep
    BY <1>0, <1>1, <1>4, RowEffect
  <1>6. TypeOK'
    <2>1. NumbersTyped'
      BY <1>0 DEF NumbersTyped, RecordUserMessage, budgets
    <2>2. rows' \in Seq(RowType)
      BY <1>4 DEF LogSound
    <2>3. query' = "prompted" /\ turnOpen' = turnOpen /\ enabled' = enabled
      BY DEF RecordUserMessage
    <2> QED
      BY <1>0, <1>2, <1>4, <2>1, <2>2, <2>3, TypePartsNext, Before
  <1>7. crashes' = crashes
    BY DEF RecordUserMessage, budgets
  <1>8. RecorderSound'
    <2>1. query' = "prompted" /\ turnOpen' = turnOpen /\ enabled' = enabled /\ opened' = opened
      BY DEF RecordUserMessage
    <2>2. enabled => opened <= Len(rows')
      BY <1>0, <1>2, <1>4 DEF NumbersTyped
    <2>3. Unended(rows', Len(rows')) <= crashes
      BY <1>0, <1>2, <1>4
    <2> QED
      BY <1>0, <1>2, <1>4, <1>5, <1>7, <2>1, <2>2, <2>3 DEF RecorderSound, InTurn
  <1>9. UsageSound'
    BY <1>2, <1>4 DEF TeeInv, UsageSound, RecordUserMessage
  <1> QED
    BY <1>4, <1>6, <1>7, <1>8, <1>9 DEF TeeInv

\* turn/start opens the turn, in an empty step.
LEMMA RecordTurnStartTeeInv == TeeInv /\ RecordTurnStart => TeeInv'
  <1> SUFFICES ASSUME TeeInv, RecordTurnStart PROVE TeeInv'
    OBVIOUS
  <1> DEFINE row == Row("turn_start")
  <1>0. /\ rows \in Seq(RowType) /\ Len(rows) \in Nat /\ NumbersTyped /\ LogSound(rows, crashes)
        /\ crashes \in Nat /\ Folded(rows) \in ProjectionType /\ enabled \in BOOLEAN
        /\ Unended(rows, Len(rows)) \in Int /\ Unended(rows, Len(rows)) >= 0
    BY Before
  <1>1. row \in RowType /\ row.kind = "turn_start" /\ RecordBody(row)
    BY RowTyped DEF RecordTurnStart
  <1> HIDE DEF row
  <1>2. /\ query = "prompted" /\ ~turnOpen /\ (enabled => rows # <<>> /\ opened <= Len(rows))
        /\ Unended(rows, Len(rows)) <= crashes
        /\ enabled => Folded(rows).step = NoStep
    BY <1>0 DEF TeeInv, RecorderSound, InTurn, RecordTurnStart
  <1>3. enabled => MayFollow(rows, row, crashes)
    BY <1>1, <1>2 DEF MayFollow
  <1>4. /\ LogSound(rows', crashes) /\ stepText' \in TextType
        /\ ~enabled => rows' = rows
        /\ enabled => /\ rows' # <<>> /\ Len(rows') = Len(rows) + 1
                      /\ Folded(rows') = FoldRow(Folded(rows), row)
                      /\ Unended(rows', Len(rows')) = Unended(rows, Len(rows)) + 1
        /\ Folded(rows').tokens = Folded(rows).tokens
    BY <1>1, <1>3, Recorded
  <1>5. enabled => Folded(rows').step = NoStep
    <2>1. FoldRow(Folded(rows), row).step = Folded(rows).step
      BY <1>0, <1>1, RowEffect
    <2> QED
      BY <1>2, <1>4, <2>1
  <1>6. TypeOK'
    <2>1. NumbersTyped'
      BY <1>0 DEF NumbersTyped, RecordTurnStart, budgets
    <2>2. rows' \in Seq(RowType)
      BY <1>4 DEF LogSound
    <2>3. query' = "streaming" /\ turnOpen' = TRUE /\ enabled' = enabled
      BY DEF RecordTurnStart
    <2> QED
      BY <1>0, <1>4, <2>1, <2>2, <2>3, TypePartsNext
  <1>7. crashes' = crashes
    BY DEF RecordTurnStart, budgets
  <1>8. RecorderSound'
    <2>1. query' = "streaming" /\ turnOpen' = TRUE /\ enabled' = enabled /\ opened' = opened
      BY DEF RecordTurnStart
    <2>2. enabled => opened <= Len(rows')
      BY <1>0, <1>2, <1>4 DEF NumbersTyped
    <2>3. /\ enabled => Unended(rows', Len(rows')) >= 1
          /\ Unended(rows', Len(rows')) <= crashes + (IF enabled THEN 1 ELSE 0)
      BY <1>0, <1>2, <1>4
    <2>4. stepText' = <<>> /\ NoStep.text = <<>> /\ NoStep.mark = "none"
      BY <1>1 DEF RecordBody, StepAfter, NoStep, AssistantStep
    <2> QED
      BY <1>0, <1>4, <1>5, <1>7, <2>1, <2>2, <2>3, <2>4 DEF RecorderSound, InTurn
  <1>9. UsageSound'
    <2>1. ~turnOpen => usage = -1
      BY DEF TeeInv, UsageSound
    <2> QED
      BY <1>2, <1>4, <2>1 DEF TeeInv, UsageSound, RecordTurnStart
  <1> QED
    BY <1>4, <1>6, <1>7, <1>8, <1>9 DEF TeeInv

\* A row recorded within a turn: the recorder's step and the projection's move
\* together.
LEMMA RowOfTurn ==
    ASSUME TeeInv, InTurn, NEW row \in RowType,
           row.kind \in {"chunk", "note", "tool_call", "tool_result"}, RecordBody(row),
           InTurn', NumbersTyped',
           UNCHANGED <<opened, tokens, billed, enabled, turnOpen, usage, bare, crashes>>
    PROVE  TeeInv'
  <1>0. /\ rows \in Seq(RowType) /\ Len(rows) \in Nat /\ NumbersTyped /\ LogSound(rows, crashes)
        /\ crashes \in Nat /\ Folded(rows) \in ProjectionType /\ enabled \in BOOLEAN
        /\ turnOpen \in BOOLEAN
        /\ Unended(rows, Len(rows)) \in Int /\ Unended(rows, Len(rows)) >= 0
    BY Before
  <1>1. /\ turnOpen /\ query # "none"
        /\ enabled => /\ rows # <<>> /\ opened <= Len(rows)
                      /\ stepText = Folded(rows).step.text /\ Folded(rows).step.mark = "none"
                      /\ Unended(rows, Len(rows)) >= 1
        /\ Unended(rows, Len(rows)) <= crashes + (IF turnOpen /\ enabled THEN 1 ELSE 0)
    BY <1>0 DEF TeeInv, RecorderSound, InTurn
  <1>2. enabled => MayFollow(rows, row, crashes)
    BY <1>1 DEF MayFollow
  <1>3. /\ LogSound(rows', crashes) /\ stepText' \in TextType
        /\ ~enabled => rows' = rows
        /\ enabled => /\ rows' # <<>> /\ Len(rows') = Len(rows) + 1
                      /\ Folded(rows') = FoldRow(Folded(rows), row)
                      /\ Unended(rows', Len(rows')) = Unended(rows, Len(rows))
        /\ Folded(rows').tokens = Folded(rows).tokens
    BY <1>2, Recorded
  <1>4. ASSUME enabled
        PROVE  stepText' = Folded(rows').step.text /\ Folded(rows').step.mark = "none"
    <2> DEFINE s == Folded(rows).step
               s2 == Folded(rows').step
    <2>0. stepText = s.text /\ s.mark = "none" /\ stepText' = StepAfter(stepText, row)
      BY <1>1, <1>4 DEF RecordBody
    <2>e. Folded(rows') = FoldRow(Folded(rows), row)
      BY <1>3, <1>4
    <2>1. CASE row.kind \in {"chunk", "tool_call"}
      <3>1. StepMoves(s, row, s2)
        BY <1>0, <2>e, <2>1, RowEffect
      <3> QED
        BY <2>0, <2>1, <3>1 DEF StepMoves, StepAfter
    <2>2. CASE row.kind = "tool_result"
      <3>1. s2 = NoStep
        BY <1>0, <2>e, <2>2, RowEffect
      <3> QED
        BY <2>0, <2>2, <3>1 DEF StepAfter, NoStep, AssistantStep
    <2>3. CASE row.kind = "note"
      <3>1. s2 = s
        BY <1>0, <2>e, <2>3, RowEffect
      <3> QED
        BY <2>0, <2>3, <3>1 DEF StepAfter
    <2> QED
      BY <2>1, <2>2, <2>3
  <1>5. TypeOK'
    <2>1. rows' \in Seq(RowType)
      BY <1>3 DEF LogSound
    <2>2. query' \in {"none", "accepted", "prompted", "streaming", "malformed", "tools", "final",
                      "ended"}
      BY DEF InTurn
    <2> QED
      BY <1>0, <1>3, <2>1, <2>2, TypePartsNext
  <1>6. RecorderSound'
    <2>1. enabled => opened <= Len(rows')
      BY <1>0, <1>1, <1>3, SMTT(40) DEF NumbersTyped
    <2>2. /\ enabled => Unended(rows', Len(rows')) >= 1
          /\ Unended(rows', Len(rows')) <= crashes + (IF turnOpen /\ enabled THEN 1 ELSE 0)
      BY <1>0, <1>1, <1>3
    <2>3. query' # "prompted" /\ (turnOpen' <=> InTurn')
      BY <1>1 DEF InTurn
    <2> QED
      BY <1>0, <1>1, <1>3, <1>4, <2>1, <2>2, <2>3 DEF RecorderSound
  <1>7. UsageSound'
    BY <1>1, <1>3 DEF TeeInv, UsageSound
  <1> QED
    BY <1>3, <1>5, <1>6, <1>7 DEF TeeInv

\* A delta, or a row the projection has no use for.
LEMMA StreamTeeInv == TeeInv /\ Stream => TeeInv'
  <1> SUFFICES ASSUME TeeInv, Stream PROVE TeeInv'
    OBVIOUS
  <1>0. NumbersTyped /\ Len(rows) \in Nat
    BY Before
  <1>1. PICK row \in {Chunk(Len(rows) + 1), Row("note")} : RecordBody(row)
    BY DEF Stream
  <1>2. row \in RowType /\ row.kind \in {"chunk", "note"}
    <2>1. Len(rows) + 1 \in Nat
      BY <1>0
    <2> QED
      BY <2>1, ChunkTyped, RowTyped
  <1>3. InTurn /\ InTurn'
    BY DEF Stream, Streaming, InTurn, engineVars
  <1>4. NumbersTyped'
    BY <1>0 DEF Stream, engineVars, budgets, NumbersTyped
  <1>5. UNCHANGED <<opened, tokens, billed, enabled, turnOpen, usage, bare, crashes>>
    BY DEF Stream, engineVars, budgets
  <1> QED
    BY <1>1, <1>2, <1>3, <1>4, <1>5, RowOfTurn

\* A tool call of the open step.
LEMMA ToolUseRequestTeeInv == TeeInv /\ ToolUseRequest => TeeInv'
  <1> SUFFICES ASSUME TeeInv, ToolUseRequest PROVE TeeInv'
    OBVIOUS
  <1>0. NumbersTyped
    BY Before
  <1>1. RecordBody(Row("tool_call")) /\ Row("tool_call") \in RowType
        /\ Row("tool_call").kind = "tool_call"
    BY RowTyped DEF ToolUseRequest
  <1>3. InTurn /\ InTurn'
    BY DEF ToolUseRequest, Streaming, InTurn
  <1>4. NumbersTyped'
    BY <1>0 DEF ToolUseRequest, budgets, NumbersTyped
  <1>5. UNCHANGED <<opened, tokens, billed, enabled, turnOpen, usage, bare, crashes>>
    BY DEF ToolUseRequest, budgets
  <1> QED
    BY <1>1, <1>3, <1>4, <1>5, RowOfTurn

\* A refused call is answered at once.
LEMMA MalformedCallTeeInv == TeeInv /\ MalformedCall => TeeInv'
  <1> SUFFICES ASSUME TeeInv, MalformedCall PROVE TeeInv'
    OBVIOUS
  <1>0. NumbersTyped
    BY Before
  <1>1. RecordBody(Row("tool_result")) /\ Row("tool_result") \in RowType
        /\ Row("tool_result").kind = "tool_result"
    BY RowTyped DEF MalformedCall
  <1>3. InTurn /\ InTurn'
    BY DEF MalformedCall, Streaming, InTurn
  <1>4. NumbersTyped'
    BY <1>0 DEF MalformedCall, budgets, NumbersTyped
  <1>5. UNCHANGED <<opened, tokens, billed, enabled, turnOpen, usage, bare, crashes>>
    BY DEF MalformedCall, budgets
  <1> QED
    BY <1>1, <1>3, <1>4, <1>5, RowOfTurn

\* A result of a tool that was asked for.
LEMMA ToolUseResultTeeInv == TeeInv /\ ToolUseResult => TeeInv'
  <1> SUFFICES ASSUME TeeInv, ToolUseResult PROVE TeeInv'
    OBVIOUS
  <1>0. NumbersTyped
    BY Before
  <1>1. RecordBody(Row("tool_result")) /\ Row("tool_result") \in RowType
        /\ Row("tool_result").kind = "tool_result"
    BY RowTyped DEF ToolUseResult
  <1>3. InTurn /\ InTurn'
    BY DEF ToolUseResult, InTurn
  <1>4. NumbersTyped'
    BY <1>0 DEF ToolUseResult, budgets, NumbersTyped
  <1>5. UNCHANGED <<opened, tokens, billed, enabled, turnOpen, usage, bare, crashes>>
    BY DEF ToolUseResult, budgets
  <1> QED
    BY <1>1, <1>3, <1>4, <1>5, RowOfTurn

\* A step of the query that records nothing: only the turn's count of usage moves.
LEMMA UsageOnly ==
    ASSUME TeeInv, InTurn, InTurn', NumbersTyped', UsageSound',
           UNCHANGED <<rows, opened, enabled, turnOpen, stepText, crashes>>
    PROVE  TeeInv'
  <1>0. /\ rows \in Seq(RowType) /\ LogSound(rows, crashes) /\ stepText \in TextType
        /\ enabled \in BOOLEAN /\ turnOpen \in BOOLEAN
    BY Before
  <1>1. TypeOK'
    <2>1. query' \in {"none", "accepted", "prompted", "streaming", "malformed", "tools", "final",
                      "ended"}
      BY DEF InTurn
    <2> QED
      BY <1>0, <2>1, TypePartsNext
  <1>2. RecorderSound'
    <2>1. query # "none" /\ query' # "prompted" /\ (turnOpen <=> InTurn)
      BY DEF InTurn, TeeInv, RecorderSound
    <2> QED
      BY <2>1 DEF TeeInv, RecorderSound
  <1> QED
    BY <1>0, <1>1, <1>2 DEF TeeInv

\* Tokens reported to the open turn are added to its usage.
LEMMA CallEndsTeeInv == TeeInv /\ CallEnds => TeeInv'
  <1> SUFFICES ASSUME TeeInv, CallEnds PROVE TeeInv'
    OBVIOUS
  <1>0. NumbersTyped
    BY Before
  <1>1. InTurn /\ InTurn'
    BY DEF CallEnds, Streaming, InTurn
  <1>2. turnOpen /\ turnOpen' = turnOpen
    BY <1>1 DEF TeeInv, RecorderSound, CallEnds
  <1>3. UNCHANGED <<rows, opened, enabled, turnOpen, stepText, crashes>>
    BY DEF CallEnds, budgets
  <1>4. CASE \E n \in {0, 1} : AddTurnUsage(n) /\ steps' = steps + 1
    <2>1. PICK n \in {0, 1} : AddTurnUsage(n) /\ steps' = steps + 1
      BY <1>4
    <2>2. usage' \in Nat /\ tokens' \in Nat /\ usage' = tokens'
      BY <1>0, <2>1 DEF AddTurnUsage, TeeInv, UsageSound, NumbersTyped
    <2>3. NumbersTyped'
      BY <1>0, <2>1, <2>2 DEF CallEnds, budgets, NumbersTyped
    <2>4. UsageSound'
      <3>1. usage' # -1
        BY <2>2
      <3> QED
        BY <1>2, <2>2, <3>1 DEF TeeInv, UsageSound, CallEnds
    <2> QED
      BY <1>1, <1>3, <2>3, <2>4, UsageOnly
  <1>5. CASE UNCHANGED <<tokens, steps, usage>>
    <2>3. NumbersTyped'
      BY <1>0, <1>5 DEF CallEnds, budgets, NumbersTyped
    <2>4. UsageSound'
      BY <1>2, <1>5 DEF TeeInv, UsageSound, CallEnds
    <2> QED
      BY <1>1, <1>3, <2>3, <2>4, UsageOnly
  <1> QED
    BY <1>4, <1>5 DEF CallEnds

\* The bare count is none as long as no tokens were reported.
LEMMA TurnCompletedTeeInv == TeeInv /\ TurnCompleted => TeeInv'
  <1> SUFFICES ASSUME TeeInv, TurnCompleted PROVE TeeInv'
    OBVIOUS
  <1>0. NumbersTyped
    BY Before
  <1>1. InTurn /\ InTurn'
    BY DEF TurnCompleted, InTurn
  <1>2. turnOpen /\ turnOpen' = turnOpen
    BY <1>1 DEF TeeInv, RecorderSound, TurnCompleted
  <1>3. UNCHANGED <<rows, opened, enabled, turnOpen, stepText, crashes>>
    BY DEF TurnCompleted, budgets
  <1>4. CASE AddTurnUsage(1) /\ steps' = steps + 2
    <2>2. usage' \in Nat /\ tokens' \in Nat /\ usage' = tokens'
      BY <1>0, <1>4 DEF AddTurnUsage, TeeInv, UsageSound, NumbersTyped
    <2>3. NumbersTyped'
      BY <1>0, <1>4, <2>2 DEF TurnCompleted, budgets, NumbersTyped
    <2>4. UsageSound'
      <3>1. usage' # -1
        BY <2>2
      <3> QED
        BY <1>2, <2>2, <3>1 DEF TeeInv, UsageSound, TurnCompleted
    <2> QED
      BY <1>1, <1>3, <2>3, <2>4, UsageOnly
  <1>5. CASE steps' = steps + 1 /\ UNCHANGED <<tokens, usage>>
    <2>3. NumbersTyped'
      BY <1>0, <1>5 DEF TurnCompleted, budgets, NumbersTyped
    <2>4. UsageSound'
      <3>1. usage' = -1 => bare' <= 0
        BY <1>5 DEF TeeInv, UsageSound, TurnCompleted
      <3> QED
        BY <1>2, <1>5, <3>1 DEF TeeInv, UsageSound, TurnCompleted
    <2> QED
      BY <1>1, <1>3, <2>3, <2>4, UsageOnly
  <1> QED
    BY <1>4, <1>5 DEF TurnCompleted

\* close_turn, whether or not there is a turn to close or a writer.
LEMMA CloseTurnTeeInv ==
    ASSUME TeeInv, NEW reason \in Reasons, NEW before \in {<<>>, <<Row("note")>>},
           CloseTurn(reason, before), turnOpen \/ before = <<>>,
           query \notin {"none", "accepted", "prompted"}, query' \in {"none", "ended"},
           asked' \in Nat, UNCHANGED <<memory, compacting, opened, budgets>>
    PROVE  TeeInv'
  <1>0. /\ rows \in Seq(RowType) /\ Len(rows) \in Nat /\ NumbersTyped /\ LogSound(rows, crashes)
        /\ crashes \in Nat /\ Folded(rows).tokens \in Nat
        /\ enabled \in BOOLEAN /\ turnOpen \in BOOLEAN /\ Unended(rows, Len(rows)) \in Int
    BY Before
  <1>1. /\ enabled => rows # <<>> /\ opened <= Len(rows)
        /\ Unended(rows, Len(rows)) <= crashes + (IF turnOpen /\ enabled THEN 1 ELSE 0)
        /\ Folded(rows).tokens = billed
        /\ ~turnOpen => usage = -1 /\ tokens = 0
    BY <1>0 DEF TeeInv, RecorderSound, UsageSound
  <1>2. /\ enabled' = enabled /\ bare' = bare /\ stepText' = <<>> /\ turnOpen' = FALSE
        /\ crashes' = crashes /\ usage' = -1 /\ tokens' = 0
    BY <1>0, <1>1 DEF CloseTurn, budgets
  <1>3. /\ LogSound(rows', crashes)
        /\ enabled => rows' # <<>> /\ Len(rows') >= Len(rows)
        /\ Folded(rows').tokens = billed' /\ billed' \in Nat
        /\ Unended(rows', Len(rows')) <= crashes
        /\ steps' \in Nat /\ calls' \in Nat
    <2>1. CASE turnOpen /\ enabled
      <3>1. /\ LogSound(rows', crashes) /\ rows' # <<>> /\ Len(rows') >= Len(rows)
            /\ Folded(rows').tokens = Folded(rows).tokens + tokens
            /\ Unended(rows', Len(rows')) = Unended(rows, Len(rows)) - 1
        BY <2>1, TurnClosed
      <3>2. billed' = billed + tokens /\ steps' = 0 /\ calls' = 0
        BY <2>1 DEF CloseTurn
      <3> QED
        BY <1>0, <1>1, <2>1, <3>1, <3>2 DEF NumbersTyped
    <2>2. CASE turnOpen /\ ~enabled
      <3>1. rows' = rows /\ billed' = billed /\ steps' = 0 /\ calls' = 0
        BY <2>2 DEF CloseTurn
      <3> QED
        BY <1>0, <1>1, <2>2, <3>1 DEF NumbersTyped
    <2>3. CASE ~turnOpen
      <3>1. rows' = rows /\ billed' = billed /\ steps' = steps /\ calls' = calls
        <4>1. rows \o <<>> = rows
          BY <1>0
        <4> QED
          BY <2>3, <4>1 DEF CloseTurn
      <3> QED
        BY <1>0, <1>1, <2>3, <3>1 DEF NumbersTyped
    <2> QED
      BY <1>0, <2>1, <2>2, <2>3
  <1>4. TypeOK'
    <2>1. NumbersTyped'
      BY <1>0, <1>2, <1>3 DEF NumbersTyped, budgets
    <2>2. rows' \in Seq(RowType)
      BY <1>3 DEF LogSound
    <2>3. stepText' \in TextType
      BY <1>2 DEF TextType
    <2> QED
      BY <1>0, <1>2, <2>1, <2>2, <2>3, TypePartsNext
  <1>5. RecorderSound'
    <2>1. enabled => opened <= Len(rows')
      <3>1. ASSUME enabled PROVE Len(rows') \in Nat
        BY <1>3 DEF LogSound
      <3> QED
        BY <1>0, <1>1, <1>3, <3>1 DEF NumbersTyped
    <2>2. ~InTurn'
      BY DEF InTurn
    <2> QED
      BY <1>0, <1>2, <1>3, <2>1, <2>2 DEF RecorderSound
  <1>6. UsageSound'
    BY <1>2, <1>3 DEF UsageSound
  <1> QED
    BY <1>2, <1>3, <1>4, <1>5, <1>6 DEF TeeInv

\* The turn completes.
LEMMA CompletedTeeInv == TeeInv /\ Completed => TeeInv'
  <1> SUFFICES ASSUME TeeInv, Completed PROVE TeeInv'
    OBVIOUS
  <1>1. NumbersTyped
    BY Before
  <1>2. asked' \in Nat /\ UNCHANGED <<memory, compacting, opened, budgets>>
    BY <1>1 DEF Completed, NumbersTyped
  <1>3. /\ query \notin {"none", "accepted", "prompted"} /\ query' = "ended"
        /\ CloseTurn("completed", <<>>) /\ "completed" \in Reasons
    BY DEF Completed, Streaming, Reasons
  <1> QED
    BY <1>2, <1>3, CloseTurnTeeInv

\* It fails, after an error row.
LEMMA FailedTeeInv == TeeInv /\ Failed => TeeInv'
  <1> SUFFICES ASSUME TeeInv, Failed PROVE TeeInv'
    OBVIOUS
  <1>1. NumbersTyped
    BY Before
  <1>2. asked' \in Nat /\ UNCHANGED <<memory, compacting, opened, budgets>>
    BY <1>1 DEF Failed, NumbersTyped
  <1>3. /\ query \notin {"none", "accepted", "prompted"} /\ query' = "ended" /\ InTurn
        /\ CloseTurn("failed", <<Row("note")>>) /\ "failed" \in Reasons
    BY DEF Failed, Streaming, Reasons, InTurn
  <1>4. turnOpen
    BY <1>3 DEF TeeInv, RecorderSound
  <1> QED
    BY <1>2, <1>3, <1>4, CloseTurnTeeInv

\* It is dropped, open or not.
LEMMA DropTeeTeeInv == TeeInv /\ DropTee => TeeInv'
  <1> SUFFICES ASSUME TeeInv, DropTee PROVE TeeInv'
    OBVIOUS
  <1>2. asked' \in Nat /\ UNCHANGED <<memory, compacting, opened, budgets>>
    BY DEF DropTee
  <1>3. /\ query \notin {"none", "accepted", "prompted"} /\ query' = "none"
        /\ CloseTurn("interrupted", <<>>) /\ "interrupted" \in Reasons
    BY DEF DropTee, Streaming, Reasons
  <1> QED
    BY <1>2, <1>3, CloseTurnTeeInv

\* The process dies: the rows it loses end no turn, and leave at most one more
\* turn open.
LEMMA CrashTeeInv == TeeInv /\ Crash => TeeInv'
  <1> SUFFICES ASSUME TeeInv, Crash PROVE TeeInv'
    OBVIOUS
  <1>0. /\ rows \in Seq(RowType) /\ Len(rows) \in Nat /\ NumbersTyped /\ LogSound(rows, crashes)
        /\ crashes \in Nat /\ enabled \in BOOLEAN /\ opened \in Nat
    BY Before DEF NumbersTyped
  <1>1. PICK n \in (IF enabled THEN Flushed ELSE Len(rows)) .. Len(rows) : rows' = SubSeq(rows, 1, n)
    BY DEF Crash
  <1>2. /\ n \in 0 .. Len(rows)
        /\ \A i \in 1 .. Len(rows) : rows[i].kind = "turn_end" => i <= n
    <2>1. CASE enabled
      <3>1. opened <= Len(rows)
        BY <2>1 DEF TeeInv, RecorderSound, Crash
      <3>2. /\ Flushed \in 0 .. Len(rows)
            /\ \A i \in 1 .. Len(rows) : rows[i].kind = "turn_end" => i <= Flushed
        BY <1>0, <3>1, FlushedRows
      <3>3. n \in Flushed .. Len(rows)
        BY <2>1
      <3> QED
        BY <1>0, <3>2, <3>3
    <2>2. CASE ~enabled
      <3>1. n = Len(rows)
        BY <1>0, <2>2
      <3> QED
        BY <1>0, <3>1
    <2> QED
      BY <1>0, <2>1, <2>2
  <1>3. crashes' = crashes + 1 /\ crashes' \in Nat /\ crashes <= crashes'
    BY <1>0 DEF Crash
  <1>4. LogSound(rows', crashes')
    BY <1>0, <1>1, <1>2, <1>3, PrefixSound
  <1>5. /\ Folded(rows').tokens = Folded(rows).tokens /\ Unended(rows', n) = Unended(rows, n)
        /\ Len(rows') = n /\ rows' \in Seq(RowType)
    BY <1>0, <1>1, <1>2, TokensKept, Leading
  <1>6. Unended(rows', Len(rows')) <= crashes'
    <2>1. Unended(rows, n) \in 0 .. (crashes + 1)
      BY <1>0, <1>2 DEF LogSound, TurnsSound
    <2> QED
      BY <1>0, <1>3, <1>5, <2>1
  <1>7. TypeOK'
    <2>1. memory' \in Nat
      <3>1. memory' = RowsOf(rows', "user", Len(rows'))
        BY DEF Crash, Prompts, RowsOf
      <3>2. Len(rows') \in Nat
        BY <1>2, <1>5
      <3> QED
        BY <3>1, <3>2, CountRows
    <2>2. NumbersTyped'
      BY <1>0, <1>3, <2>1 DEF Crash, NumbersTyped
    <2>3. query' = "none" /\ enabled' = FALSE /\ turnOpen' = FALSE /\ stepText' \in TextType
      BY DEF Crash, TextType
    <2> QED
      BY <1>5, <2>2, <2>3, TypePartsNext
  <1>8. RecorderSound'
    BY <1>3, <1>6 DEF RecorderSound, InTurn, Crash
  <1>9. UsageSound'
    BY <1>5 DEF TeeInv, UsageSound, Crash
  <1> QED
    BY <1>4, <1>7, <1>8, <1>9 DEF TeeInv

\* A rewind cuts the log where a turn opens.
LEMMA RewindTeeInv ==
    ASSUME TeeInv, NEW keep \in Nat, Rewind(keep)
    PROVE  TeeInv'
  <1>0. /\ rows \in Seq(RowType) /\ Len(rows) \in Nat /\ NumbersTyped /\ LogSound(rows, crashes)
        /\ crashes \in Nat /\ enabled \in BOOLEAN /\ stepText \in TextType
        /\ Unended(rows, Len(rows)) \in Int
    BY Before
  <1>1. /\ query = "none" /\ ~turnOpen /\ Unended(rows, Len(rows)) <= crashes
        /\ usage = -1 /\ tokens = 0
    BY <1>0 DEF TeeInv, RecorderSound, UsageSound, InTurn, Rewind
  <1>2. /\ LogSound(rows', crashes) /\ Unended(rows', Len(rows')) <= crashes
    <2>1. CASE rows' = TruncateToTurn(rows, keep)
      <3>1. PICK m \in 0 .. Len(rows) : /\ rows' = SubSeq(rows, 1, m)
                                        /\ m = Len(rows) \/ Opens(rows, m + 1)
        BY <1>0, <2>1, TruncateCuts
      <3>2. LogSound(rows', crashes)
        BY <1>0, <3>1, PrefixSound
      <3>3. /\ rows' \in Seq(RowType) /\ Len(rows') = m /\ \A i \in 1 .. m : rows'[i] = rows[i]
        BY <1>0, <3>1, Leading
      <3>4. Unended(rows', m) = Unended(rows, m)
        <4>1. m \in Nat /\ m <= Len(rows) /\ m <= Len(rows') /\ m \in 0 .. m
          BY <1>0, <3>3
        <4> QED
          BY <1>0, <3>3, <4>1, Alike
      <3>5. Unended(rows, m) <= crashes
        <4>1. CASE m = Len(rows)
          BY <1>1, <4>1
        <4>2. CASE m # Len(rows)
          <5>1. m + 1 \in 1 .. Len(rows) /\ (m + 1) - 1 = m /\ Opens(rows, m + 1)
            BY <1>0, <3>1, <4>2
          <5> QED
            BY <1>0, <5>1 DEF LogSound, TurnsSound
        <4> QED
          BY <4>1, <4>2
      <3> QED
        BY <3>2, <3>3, <3>4, <3>5
    <2>2. CASE rows' = rows
      BY <1>0, <1>1, <2>2
    <2> QED
      BY <2>1, <2>2 DEF Rewind
  <1>3. rows' \in Seq(RowType) /\ billed' = Folded(rows').tokens /\ billed' \in Nat
    BY <1>2, FoldedTyped DEF LogSound, Rewind
  <1>4. TypeOK'
    <2>1. NumbersTyped'
      BY <1>0, <1>3 DEF Rewind, teeVars, NumbersTyped
    <2>2. /\ query' = "none" /\ enabled' = enabled /\ turnOpen' = FALSE /\ stepText' = stepText
      BY <1>0, <1>1, Before DEF Rewind, teeVars
    <2> QED
      BY <1>0, <1>3, <2>1, <2>2, TypePartsNext
  <1>5. RecorderSound'
    BY <1>0, <1>1, <1>2 DEF RecorderSound, InTurn, Rewind, teeVars
  <1>6. UsageSound'
    BY <1>1, <1>3 DEF UsageSound, Rewind, teeVars
  <1>7. crashes' = crashes
    BY DEF Rewind
  <1> QED
    BY <1>2, <1>4, <1>5, <1>6, <1>7 DEF TeeInv

\* Taking the history changes nothing of the log.
LEMMA CompactStartTeeInv == TeeInv /\ CompactStart => TeeInv'
  <1> SUFFICES ASSUME TeeInv, CompactStart PROVE TeeInv'
    OBVIOUS
  <1>0. /\ rows \in Seq(RowType) /\ NumbersTyped /\ LogSound(rows, crashes)
        /\ enabled \in BOOLEAN /\ turnOpen \in BOOLEAN /\ stepText \in TextType
        /\ query \in {"none", "accepted", "prompted", "streaming", "malformed", "tools", "final",
                      "ended"}
    BY Before
  <1>1. TypeOK'
    <2>1. NumbersTyped'
      BY <1>0 DEF CompactStart, teeVars, NumbersTyped
    <2> QED
      BY <1>0, <2>1, TypePartsNext DEF CompactStart, teeVars
  <1>2. RecorderSound'
    BY DEF TeeInv, RecorderSound, InTurn, CompactStart, teeVars
  <1>3. UsageSound'
    BY DEF TeeInv, UsageSound, CompactStart, teeVars
  <1> QED
    BY <1>0, <1>1, <1>2, <1>3 DEF TeeInv, CompactStart

\* The summary is a sound log, and is not written under a writer.
LEMMA CompactWriteTeeInv == TeeInv /\ CompactWrite => TeeInv'
  <1> SUFFICES ASSUME TeeInv, CompactWrite PROVE TeeInv'
    OBVIOUS
  <1>0. /\ rows \in Seq(RowType) /\ NumbersTyped /\ LogSound(rows, crashes) /\ crashes \in Nat
        /\ enabled \in BOOLEAN /\ turnOpen \in BOOLEAN /\ stepText \in TextType
        /\ query \in {"none", "accepted", "prompted", "streaming", "malformed", "tools", "final",
                      "ended"}
    BY Before
  <1>1. UNCHANGED <<query, enabled, turnOpen, stepText, usage, bare, steps, asked, calls, tokens,
                    opened, queries, crashes, rewrites>>
    BY DEF CompactWrite, teeVars, budgets
  <1>2. CASE query # "none" /\ enabled
    <2>1. UNCHANGED <<rows, memory, billed>> /\ compacting' = -1
      BY <1>2 DEF CompactWrite
    <2>2. NumbersTyped'
      BY <1>0, <1>1, <2>1 DEF NumbersTyped
    <2>3. TypeOK'
      BY <1>0, <1>1, <2>1, <2>2, TypePartsNext
    <2>4. RecorderSound'
      BY <1>1, <2>1 DEF TeeInv, RecorderSound, InTurn
    <2>5. UsageSound'
      BY <1>1, <2>1 DEF TeeInv, UsageSound
    <2> QED
      BY <1>0, <1>1, <2>1, <2>3, <2>4, <2>5 DEF TeeInv
  <1>3. CASE ~(query # "none" /\ enabled)
    <2>1. PICK kept \in 1 .. compacting : memory' = kept /\ rows' = SummaryTurns(kept) /\ billed' = 0
      BY <1>3 DEF CompactWrite
    <2>2. kept \in Nat /\ compacting' = -1
      BY <1>0 DEF NumbersTyped, CompactWrite
    <2>3. /\ LogSound(rows', crashes) /\ Folded(rows').tokens = 0
          /\ Unended(rows', Len(rows')) = 0
      BY <1>0, <2>1, <2>2, SummarySound
    <2>4. NumbersTyped'
      BY <1>0, <1>1, <2>1, <2>2 DEF NumbersTyped
    <2>5. TypeOK'
      <3>1. rows' \in Seq(RowType)
        BY <2>3 DEF LogSound
      <3> QED
        BY <1>0, <1>1, <2>4, <3>1, TypePartsNext
    <2>6. ~(turnOpen /\ enabled) /\ (turnOpen <=> InTurn)
      BY <1>3 DEF TeeInv, RecorderSound, InTurn
    <2>7. RecorderSound'
      BY <1>0, <1>1, <1>3, <2>3, <2>6 DEF RecorderSound, InTurn
    <2>8. UsageSound'
      BY <1>1, <2>1, <2>3 DEF TeeInv, UsageSound
    <2> QED
      BY <1>1, <2>3, <2>5, <2>7, <2>8 DEF TeeInv
  <1> QED
    BY <1>2, <1>3

\* Every step keeps the invariant.
LEMMA NextTeeInv == TeeInv /\ [Next]_vars => TeeInv'
  <1> SUFFICES ASSUME TeeInv, [Next]_vars PROVE TeeInv'
    OBVIOUS
  <1>1. CASE Accept
    BY <1>1, AcceptTeeInv
  <1>2. CASE RecordUserMessage
    BY <1>2, RecordUserMessageTeeInv
  <1>3. CASE RecordTurnStart
    BY <1>3, RecordTurnStartTeeInv
  <1>4. CASE Stream
    BY <1>4, StreamTeeInv
  <1>5. CASE ToolUseRequest
    BY <1>5, ToolUseRequestTeeInv
  <1>6. CASE MalformedCall
    BY <1>6, MalformedCallTeeInv
  <1>7. CASE CallEnds
    BY <1>7, CallEndsTeeInv
  <1>8. CASE ToolUseResult
    BY <1>8, ToolUseResultTeeInv
  <1>9. CASE TurnCompleted
    BY <1>9, TurnCompletedTeeInv
  <1>10. CASE Completed
    BY <1>10, CompletedTeeInv
  <1>11. CASE Failed
    BY <1>11, FailedTeeInv
  <1>12. CASE DropTee
    BY <1>12, DropTeeTeeInv
  <1>13. CASE Crash
    BY <1>13, CrashTeeInv
  <1>14. CASE \E keep \in 0 .. MaxQueries : Rewind(keep)
    <2>1. PICK keep \in 0 .. MaxQueries : Rewind(keep)
      BY <1>14
    <2>2. keep \in Nat
      BY TeeBoundsAssumption
    <2> QED
      BY <2>1, <2>2, RewindTeeInv
  <1>15. CASE CompactStart
    BY <1>15, CompactStartTeeInv
  <1>16. CASE CompactWrite
    BY <1>16, CompactWriteTeeInv
  <1>17. CASE UNCHANGED vars
    BY <1>17 DEF vars, engineVars, teeVars, budgets, TeeInv, TypeOK, RecorderSound, UsageSound, InTurn
  <1> QED
    BY <1>1, <1>2, <1>3, <1>4, <1>5, <1>6, <1>7, <1>8, <1>9, <1>10, <1>11, <1>12, <1>13, <1>14,
       <1>15, <1>16, <1>17 DEF Next

\* TeeInv is an invariant of the recorder, its projection and the rewrites.
THEOREM TeeInvariant == Spec => []TeeInv
  <1>1. Init => TeeInv
    BY InitTeeInv
  <1>2. TeeInv /\ [Next]_vars => TeeInv'
    BY NextTeeInv
  <1> QED
    BY <1>1, <1>2, PTL DEF Spec

-----------------------------------------------------------------------------
(* What it gives. *)

\* The recorder's variables stay in their ranges, for logs of any length.
THEOREM TeeTypeCorrect == Spec => []TypeOK
  <1>1. TeeInv => TypeOK
    BY DEF TeeInv
  <1> QED
    BY <1>1, TeeInvariant, PTL

\* The step that record_body tracks in the tee, and the step that a reload folds
\* from the log, hold the same text whenever the tee records a turn.
THEOREM StepFoldsAgree == Spec => []StepTextMirrorsProjection
  <1>1. TeeInv => StepTextMirrorsProjection
    BY DEF TeeInv, RecorderSound, StepTextMirrorsProjection
  <1> QED
    BY <1>1, TeeInvariant, PTL

\* A leading part of a log is folded as the log is up to there.
LEMMA PrefixFolded ==
    ASSUME NEW log \in Seq(RowType), NEW n \in 0 .. Len(log)
    PROVE  Folded(SubSeq(log, 1, n)) = Projections(log)[n]
  <1> DEFINE s == SubSeq(log, 1, n)
  <1>1. Len(log) \in Nat /\ n \in Nat /\ n <= Len(log) /\ n \in 0 .. n
    OBVIOUS
  <1>2. s \in Seq(RowType) /\ Len(s) = n /\ \A i \in 1 .. n : s[i] = log[i]
    BY Leading
  <1> HIDE DEF s
  <1>3. Projections(s)[n] = Projections(log)[n]
    BY <1>1, <1>2, Alike
  <1> QED
    BY <1>2, <1>3 DEF Folded, s

\* The turn/end of a sound log flushes the open step, marked, as the last message.
LEMMA TurnEndMarks ==
    ASSUME NEW log, NEW c \in Nat, LogSound(log, c), NEW i \in 1 .. Len(log),
           log[i].kind = "turn_end", log[i].reason # "compact", Streamed(log)[i - 1] # <<>>
    PROVE  LET messages == Folded(SubSeq(log, 1, i)).messages
               message  == messages[Len(messages)]
           IN  /\ message.role = "assistant"
               /\ message.text = Streamed(log)[i - 1]
               /\ message.mark = MarkOf(log[i].reason)
  <1> DEFINE p == Projections(log)[i - 1]
             row == log[i]
             messages == Folded(SubSeq(log, 1, i)).messages
  <1>0. log \in Seq(RowType) /\ Len(log) \in Nat /\ i \in 0 .. Len(log) /\ i - 1 \in 0 .. Len(log)
    BY DEF LogSound
  <1>1. Folded(SubSeq(log, 1, i)) = FoldRow(p, row)
    BY <1>0, PrefixFolded, ProjectionRows
  <1>2. p \in ProjectionType /\ row \in RowType /\ row.kind = "turn_end"
    BY <1>0, ProjectionTyped, ElementOfSeq
  <1>3. /\ Streamed(log)[i - 1] = p.step.text /\ p.step.mark = MarkOf(row.reason)
    BY <1>0 DEF LogSound, TextSound
  <1> HIDE DEF p, row
  <1>4. messages = WithStep(p)
    BY <1>1, <1>2, RowEffect
  <1>5. messages = Append(p.messages, ConversationMessage("assistant", p.step))
    BY <1>3, <1>4 DEF WithStep, EmptyStep
  <1>6. p.messages \in Seq(MessageType) /\ p.step \in StepType
    BY <1>2 DEF ProjectionType
  <1> HIDE DEF messages
  <1>7. messages[Len(messages)] = ConversationMessage("assistant", p.step)
    BY <1>5, <1>6, MessageTyped, AppendProperties
  <1> QED
    BY <1>3, <1>7 DEF ConversationMessage, messages, row

\* Whatever a turn streamed into its open step before it was interrupted, failed
\* or completed, a reload shows it, whole, under the marker of the turn's end.
THEOREM PartialAnswersSurvive == Spec => []PartialAnswerMarked
  <1>1. ASSUME TeeInv PROVE PartialAnswerMarked
    <2>0. LogSound(rows, crashes) /\ crashes \in Nat
      BY <1>1, Before
    <2>1. ASSUME NEW i \in 1 .. Len(rows), rows[i].kind = "turn_end", rows[i].reason # "compact",
                 Streamed(rows)[i - 1] # <<>>
          PROVE  LET messages == Folded(SubSeq(rows, 1, i)).messages
                     message  == messages[Len(messages)]
                 IN  /\ message.role = "assistant"
                     /\ message.text = Streamed(rows)[i - 1]
                     /\ message.mark = MarkOf(rows[i].reason)
      BY <2>0, <2>1, TurnEndMarks
    <2> QED
      BY <2>1 DEF PartialAnswerMarked, MarkOf
  <1> QED
    BY <1>1, TeeInvariant, PTL

\* Every turn is closed at most once, and left open only by a death or while it
\* is being recorded: close_turn, the Drop of the last handle, truncations at a
\* turn's opener and the lost tail of a crash keep the two counts together.
THEOREM TurnsClosedOnce == Spec => []TurnsPaired
  <1>1. ASSUME TeeInv PROVE TurnsPaired
    <2>0. LogSound(rows, crashes) /\ crashes \in Nat /\ Len(rows) \in Nat
      BY <1>1, Before
    <2>1. ASSUME NEW n \in 1 .. Len(rows)
          PROVE  RowsOf(rows, "turn_end", n) <= RowsOf(rows, "turn_start", n)
      <3>1. n \in Nat /\ n \in 0 .. Len(rows)
        BY <2>0
      <3>2. RowsOf(rows, "turn_end", n) \in Nat /\ RowsOf(rows, "turn_start", n) \in Nat
        BY <3>1, CountRows
      <3>3. Unended(rows, n) \in 0 .. (crashes + 1)
        BY <2>0, <3>1 DEF LogSound, TurnsSound
      <3> QED
        BY <2>0, <3>2, <3>3 DEF Unended
    <2>2. RowsOf(rows, "turn_start", Len(rows)) - RowsOf(rows, "turn_end", Len(rows))
              <= crashes + (IF turnOpen /\ enabled THEN 1 ELSE 0)
      BY <1>1 DEF TeeInv, RecorderSound, Unended
    <2> QED
      BY <2>1, <2>2 DEF TurnsPaired
  <1> QED
    BY <1>1, TeeInvariant, PTL

\* The tokens that a reload sums are the tokens reported in the turns the log
\* carries, through failures, aborts, deaths, rewinds and compactions.
THEOREM TokensConserved == Spec => []UsageConserved
  <1>1. TeeInv => UsageConserved
    BY DEF TeeInv, UsageSound, UsageConserved
  <1> QED
    BY <1>1, TeeInvariant, PTL

\* create_branch at message k copies the first k messages, whole, and nothing of
\* the next one, for every log the recorder and the rewrites can leave.
THEOREM BranchesArePrefixes == Spec => []BranchIsPrefix
  <1>1. ASSUME TeeInv PROVE BranchIsPrefix
    <2>1. rows \in Seq(RowType) /\ BeginSound(rows)
      BY <1>1 DEF TeeInv, LogSound
    <2>2. ASSUME rows # <<>>, NEW k \in 0 .. Len(ProjectConversation(rows).messages)
          PROVE  ProjectConversation(CreateBranch(rows, k)).messages
                     = SubSeq(ProjectConversation(rows).messages, 1, k)
      BY <2>1, <2>2, BranchAtMessage DEF BeginSound
    <2> QED
      BY <2>2 DEF BranchIsPrefix
  <1> QED
    BY <1>1, TeeInvariant, PTL
=============================================================================
