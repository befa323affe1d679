------------------------------ MODULE SessionTee ------------------------------
(***************************************************************************)
(* What one session's log says about its conversation: the per-query       *)
(* recorder SessionTee (session_log/tee.rs), fed by the engine's query     *)
(* loop, the projection that a reload folds the rows with                  *)
(* (projections.rs), and the raw rewrites behind /rewind and /compact      *)
(* (session_store.rs).  How rows become bytes is SessionLog's subject;     *)
(* here a recorded row is in the log, unless the process dies before the   *)
(* writer has flushed it.                                                  *)
(*                                                                         *)
(* A text is the sequence of the deltas it is made of, and a delta is      *)
(* named by the number of the row that carries it.  A call of the model    *)
(* costs one token, which the provider may or may not report.              *)
(***************************************************************************)
EXTENDS Integers, Sequences, FiniteSets, FiniteSetsExt

CONSTANTS
    MaxRows,      \* bound: rows in the log when the engine records another
    MaxCalls,     \* bound: model calls of a query
    MaxStep,      \* bound: deltas and tool calls of a step
    MaxQueries,   \* bound: queries in a behaviour
    MaxCrashes,   \* bound: process deaths in a behaviour
    MaxRewrites,  \* bound: rewinds and compactions in a behaviour
    LockConflicts \* whether a query may find the log locked

ASSUME TeeBoundsAssumption ==
    /\ MaxRows \in Nat
    /\ MaxCalls \in Nat
    /\ MaxStep \in Nat
    /\ MaxQueries \in Nat
    /\ MaxCrashes \in Nat
    /\ MaxRewrites \in Nat
ASSUME LockConflictsAssumption == LockConflicts \in BOOLEAN

VARIABLES
    rows,      \* the durable vocabulary rows of events.jsonl
    query,     \* where the query loop is: "none", "accepted", "prompted",
               \* "streaming", "malformed" (streaming, and a tool call was
               \* refused), "tools", "final", "ended"
    asked,     \* tool calls of this model call still without a result
    enabled,   \* SessionTee::writer is Some
    turnOpen,  \* SessionTee::turn_open
    stepText,  \* SessionTee::step_text
    usage,     \* SessionTee::turn_usage, -1 for None
    bare,      \* SessionTee::bare_tokens, -1 for None
    steps,     \* SessionTee::turn_steps
    calls,     \* model calls of the open turn (history)
    tokens,    \* tokens reported in the open turn (history)
    billed,    \* tokens of the turns that the log carries (history)
    memory,    \* prompts in the engine's in-memory conversation
    opened,    \* rows in the log when the tee opened it
    compacting,\* prompts in the history /compact is summarising, -1 if none
    queries, crashes, rewrites

engineVars == <<query, asked, calls, tokens, billed, memory, compacting>>
teeVars == <<enabled, turnOpen, stepText, usage, bare, steps>>
budgets == <<queries, crashes, rewrites>>
vars == <<rows, opened, engineVars, teeVars, budgets>>

Entry(kind, text, reason, u, n) ==
    [kind |-> kind, text |-> text, reason |-> reason, usage |-> u, steps |-> n]

Row(kind) == Entry(kind, <<>>, "none", -1, 0)
Chunk(delta) == Entry("chunk", <<delta>>, "none", -1, 0)
Message(text, reason) == Entry("message", text, reason, -1, 0)
TurnEnd(reason, u, n) == Entry("turn_end", <<>>, reason, u, n)

-----------------------------------------------------------------------------
(* project_conversation.  `n' is the seq, counted from 1, of the last row    *)
(* folded; a message ends at the row `last'.                                *)

AssistantStep(text, tools, mark, last) ==
    [text |-> text, tools |-> tools, mark |-> mark, last |-> last]

NoStep == AssistantStep(<<>>, 0, "none", 0)

ConversationMessage(role, step) ==
    [role |-> role, text |-> step.text, tools |-> step.tools, mark |-> step.mark,
     last |-> step.last]

\* flush_step: an assistant message, unless nothing accumulated.
FlushStep(p) ==
    IF p.step.text = <<>> /\ p.step.tools = 0
    THEN [p EXCEPT !.step = NoStep]
    ELSE [p EXCEPT !.step = NoStep,
                   !.messages = Append(@, ConversationMessage("assistant", p.step))]

\* push_user_text, push_tool_result
PushUser(p, role) ==
    [p EXCEPT !.messages =
        Append(@, ConversationMessage(role, AssistantStep(<<>>, 0, "none", p.n)))]

\* ConversationFolder::fold, the row being number p.n.
FoldBody(p, row) ==
    CASE row.kind = "user"        -> PushUser(FlushStep(p), "user")
      [] row.kind = "chunk"       ->
             [p EXCEPT !.step = AssistantStep(@.text \o row.text, @.tools, @.mark, p.n)]
      [] row.kind = "message"     ->
             [p EXCEPT !.step = AssistantStep(row.text, 0, row.reason, p.n)]
      [] row.kind = "tool_call"   ->
             [p EXCEPT !.step = AssistantStep(@.text, @.tools + 1, @.mark, p.n)]
      [] row.kind = "tool_result" -> PushUser(FlushStep(p), "tool")
      [] row.kind = "turn_start"  -> [p EXCEPT !.turns = @ + 1]
      [] row.kind = "turn_end"    -> [FlushStep(p) EXCEPT !.tokens =
                                          @ + (IF row.usage = -1 THEN 0 ELSE row.usage)]
      [] OTHER                    -> p

FoldRow(p, row) == FoldBody([p EXCEPT !.n = @ + 1], row)

EmptyProjection == [n |-> 0, messages |-> <<>>, step |-> NoStep, turns |-> 0, tokens |-> 0]

\* The projection after each of a log's leading rows.
Projections(log) ==
    LET after[i \in 0 .. Len(log)] ==
            IF i = 0 THEN EmptyProjection ELSE FoldRow(after[i - 1], log[i])
    IN  after

Folded(log) == Projections(log)[Len(log)]

\* finish
ProjectConversation(log) == FlushStep(Folded(log))

\* Broken: one message too many.
CutoffRowPast(log, k) ==
    LET messages == ProjectConversation(log).messages
    IN  Max({1} \cup {messages[i].last : i \in 1 .. Min({k + 1, Len(messages)})})

\* cutoff_seq_for_message_index: the last row feeding the first k messages; for
\* none of them seq 0, which is row 1.
CutoffRow(log, k) ==
    LET messages == ProjectConversation(log).messages
    IN  Max({1} \cup {messages[i].last : i \in 1 .. Min({k, Len(messages)})})

\* create_branch: the rows copied to the new log, and its end-seed marker.
CreateBranch(log, k) ==
    Append(SubSeq(log, 1, Min({CutoffRow(log, k), Len(log)})), Row("note"))

-----------------------------------------------------------------------------
(* Rewrites of the log. *)

\* turn_counted after n rows: a turn has opened, and has not ended since.
Counted(log, n) ==
    \E i \in 1 .. n : /\ log[i].kind \in {"turn_start", "user"}
                      /\ \A j \in i .. n : log[j].kind # "turn_end"

\* A turn is opened by turn/start, or by a user/message when the turn is not
\* counted yet.
Opens(log, i) ==
    \/ log[i].kind = "turn_start"
    \/ log[i].kind = "user" /\ ~Counted(log, i - 1)

\* truncate_to_turn: the rows before the opener of a turn too many.
TruncateToTurn(log, keep) ==
    LET cuts == {i \in 1 .. Len(log) :
                    Opens(log, i) /\ Cardinality({j \in 1 .. (i - 1) : Opens(log, j)}) = keep}
    IN  SubSeq(log, 1, Min(cuts \cup {Len(log) + 1}) - 1)

\* rewrite_with_conversation: the rows of one turn, and of the turns it writes.
SummaryTurn ==
    <<Row("turn_start"), Row("user"), Chunk(0), Message(<<0>>, "none"), TurnEnd("compact", -1, 0)>>

SummaryTurns(n) == [i \in 1 .. (5 * n) |-> SummaryTurn[((i - 1) % 5) + 1]]

Prompts(log) == Cardinality({i \in 1 .. Len(log) : log[i].kind = "user"})

-----------------------------------------------------------------------------
(* The recorder. *)

\* Broken: a tool result does not end the step.
StepAfterKept(text, row) ==
    CASE row.kind = "chunk" -> text \o row.text
      [] row.kind \in {"user", "turn_start", "message"} -> <<>>
      [] OTHER -> text

\* record_body: track the open step, then append if there is a writer.
StepAfter(text, row) ==
    CASE row.kind = "chunk" -> text \o row.text
      [] row.kind \in {"user", "tool_result", "turn_start", "message"} -> <<>>
      [] OTHER -> text

RecordBody(row) ==
    /\ stepText' = StepAfter(stepText, row)
    /\ rows' = IF enabled THEN Append(rows, row) ELSE rows

RoomFor ==
    /\ Len(rows) < MaxRows
    /\ Len(stepText) + asked < MaxStep

\* Broken: only a cancelled turn is finalized.
FinalizeReasonCancelled(reason) == IF reason = "interrupted" THEN "cancelled" ELSE "none"

FinalizeReason(reason) ==
    CASE reason = "interrupted" -> "cancelled"
      [] reason = "failed"      -> "failed"
      [] OTHER                  -> "none"

\* close_turn's rows: the open step's text under its marker when the turn was
\* cut short, then turn/end.
ClosingRows(reason) ==
    (IF FinalizeReason(reason) # "none" /\ stepText # <<>>
     THEN <<Message(stepText, FinalizeReason(reason))>> ELSE <<>>)
    \o <<TurnEnd(reason, IF usage # -1 THEN usage ELSE bare, steps)>>

\* Broken: the turn stays open, and is closed again by the drop.
CloseTurnAgain(reason, before) ==
    /\ stepText' = <<>>
    /\ IF turnOpen
       THEN /\ UNCHANGED turnOpen
            /\ rows' = IF enabled THEN rows \o before \o ClosingRows(reason) ELSE rows
            /\ usage' = -1
            /\ steps' = 0
            /\ billed' = IF enabled THEN billed + tokens ELSE billed
            /\ calls' = 0
            /\ tokens' = 0
       ELSE /\ rows' = IF enabled THEN rows \o before ELSE rows
            /\ UNCHANGED <<turnOpen, usage, steps, billed, calls, tokens>>
    /\ UNCHANGED <<enabled, bare>>

\* close_turn
CloseTurn(reason, before) ==
    /\ stepText' = <<>>
    /\ IF turnOpen
       THEN /\ turnOpen' = FALSE
            /\ rows' = IF enabled THEN rows \o before \o ClosingRows(reason) ELSE rows
            /\ usage' = -1
            /\ steps' = 0
            /\ billed' = IF enabled THEN billed + tokens ELSE billed
            /\ calls' = 0
            /\ tokens' = 0
       ELSE /\ rows' = IF enabled THEN rows \o before ELSE rows
            /\ UNCHANGED <<turnOpen, usage, steps, billed, calls, tokens>>
    /\ UNCHANGED <<enabled, bare>>

Init ==
    /\ rows = <<>> /\ opened = 0
    /\ query = "none" /\ asked = 0 /\ calls = 0 /\ tokens = 0
    /\ billed = 0 /\ memory = 0 /\ compacting = -1
    /\ enabled = FALSE /\ turnOpen = FALSE /\ stepText = <<>>
    /\ usage = -1 /\ bare = -1 /\ steps = 0
    /\ queries = 0 /\ crashes = 0 /\ rewrites = 0

-----------------------------------------------------------------------------
(* The query loop. *)

\* process_query opens the tee; without the log's lock it records nothing.
\* The first row of a fresh log is session/start.
Accept ==
    /\ query = "none"
    /\ queries < MaxQueries
    /\ RoomFor
    /\ queries' = queries + 1
    /\ query' = "accepted"
    /\ enabled' \in {TRUE} \cup {~LockConflicts}
    /\ opened' = Len(rows)
    /\ rows' = IF enabled' /\ rows = <<>> THEN <<Row("session_start")>> ELSE rows
    /\ turnOpen' = FALSE /\ stepText' = <<>>
    /\ usage' = -1 /\ bare' = -1 /\ steps' = 0
    /\ UNCHANGED <<asked, calls, tokens, billed, memory, compacting, crashes, rewrites>>

\* The prompt is in memory, and recorded before the turn/start.
RecordUserMessage ==
    /\ query = "accepted"
    /\ query' = "prompted"
    /\ memory' = memory + 1
    /\ RecordBody(Row("user"))
    /\ UNCHANGED <<asked, calls, tokens, billed, compacting, enabled, turnOpen, usage, bare, steps,
                   opened, budgets>>

RecordTurnStart ==
    /\ query = "prompted"
    /\ query' = "streaming"
    /\ turnOpen' = TRUE
    /\ RecordBody(Row("turn_start"))
    /\ UNCHANGED <<asked, calls, tokens, billed, memory, compacting, enabled, usage, bare, steps,
                   opened, budgets>>

Streaming == query \in {"streaming", "malformed"}

\* A visible delta, or a row the projection has no use for (thinking, error,
\* warning, request/header): "note".
Stream ==
    /\ Streaming
    /\ RoomFor
    /\ \E row \in {Chunk(Len(rows) + 1), Row("note")} : RecordBody(row)
    /\ UNCHANGED <<engineVars, enabled, turnOpen, usage, bare, steps, opened, budgets>>

\* Sent when its block of the stream ends, or after the call's Usage: the two
\* touch nothing in common.
ToolUseRequest ==
    /\ Streaming
    /\ RoomFor
    /\ asked' = asked + 1
    /\ RecordBody(Row("tool_call"))
    /\ UNCHANGED <<query, calls, tokens, billed, memory, compacting, enabled, turnOpen, usage, bare,
                   steps, opened, budgets>>

\* A call whose arguments do not parse is never requested, only answered.
MalformedCall ==
    /\ Streaming
    /\ RoomFor
    /\ query' = "malformed"
    /\ RecordBody(Row("tool_result"))
    /\ UNCHANGED <<asked, calls, tokens, billed, memory, compacting, enabled, turnOpen, usage, bare,
                   steps, opened, budgets>>

\* Broken: a later usage replaces the earlier ones.
AddTurnUsageOverwriting(n) ==
    /\ tokens' = tokens + n
    /\ usage' = n

\* add_turn_usage
AddTurnUsage(n) ==
    /\ tokens' = tokens + n
    /\ usage' = IF usage = -1 THEN n ELSE usage + n

\* The model call ends, with a Usage event, or without one when the stream just
\* stopped: tools run next if it asked for any, else the turn is about to
\* complete.
CallEnds ==
    /\ Streaming
    /\ calls < MaxCalls
    /\ query' = IF asked > 0 \/ query = "malformed" THEN "tools" ELSE "final"
    /\ calls' = calls + 1
    /\ \/ \E n \in {0, 1} : AddTurnUsage(n) /\ steps' = steps + 1
       \/ UNCHANGED <<tokens, steps, usage>>
    /\ UNCHANGED <<rows, asked, billed, memory, compacting, enabled, turnOpen, stepText, bare,
                   opened, budgets>>

\* Broken: a result is accepted without a call.
ToolUseResultUnasked ==
    /\ query = "tools"
    /\ Len(rows) < MaxRows
    /\ asked' = asked - 1
    /\ RecordBody(Row("tool_result"))
    /\ UNCHANGED <<query, calls, tokens, billed, memory, compacting, enabled, turnOpen, usage, bare,
                   steps, opened, budgets>>

ToolUseResult ==
    /\ query = "tools"
    /\ asked > 0
    /\ Len(rows) < MaxRows
    /\ asked' = asked - 1
    /\ RecordBody(Row("tool_result"))
    /\ UNCHANGED <<query, calls, tokens, billed, memory, compacting, enabled, turnOpen, usage, bare,
                   steps, opened, budgets>>

\* The tool round is over.  A call that reported no tokens may still send its
\* Usage in the tail of the stream; then TurnCompleted, and the next call.
TurnCompleted ==
    /\ query = "tools"
    /\ asked = 0
    /\ query' = "streaming"
    /\ \/ tokens < calls /\ AddTurnUsage(1) /\ steps' = steps + 2
       \/ steps' = steps + 1 /\ UNCHANGED <<tokens, usage>>
    /\ bare' \in {0, 1}
    /\ bare' = 1 => tokens' > 0
    /\ UNCHANGED <<rows, asked, calls, billed, memory, compacting, enabled, turnOpen,
                   stepText, opened, budgets>>

\* With an answer, or because the turn budget is spent before the next call,
\* the spending limit is reached in the middle of one, or the model makes no
\* progress.
Completed ==
    /\ Streaming \/ query = "final"
    /\ query' = "ended"
    /\ CloseTurn("completed", <<>>)
    /\ UNCHANGED <<asked, memory, compacting, opened, budgets>>

\* The failure is an error row, then it closes the turn.
Failed ==
    /\ Streaming \/ query \in {"tools", "final"}
    /\ query' = "ended"
    /\ CloseTurn("failed", <<Row("note")>>)
    /\ UNCHANGED <<asked, memory, compacting, opened, budgets>>

\* The last handle is dropped: after a terminal event, or because the query
\* was aborted at an await, of which there is none before the turn/start.
DropTee ==
    /\ Streaming \/ query \in {"tools", "final", "ended"}
    /\ query' = "none"
    /\ asked' = 0
    /\ CloseTurn("interrupted", <<>>)
    /\ UNCHANGED <<memory, compacting, opened, budgets>>

\* The rows that are out of the writer's buffer: those it found and those up
\* to the last boundary, which is flushed as it is recorded.
Flushed ==
    Max({opened} \cup {i \in 1 .. Len(rows) : rows[i].kind \in {"tool_result", "turn_end"}})

\* The process dies, with what it had not flushed; a reload starts from the
\* log.
Crash ==
    /\ query # "none"
    /\ crashes < MaxCrashes
    /\ crashes' = crashes + 1
    /\ query' = "none"
    /\ asked' = 0
    /\ calls' = 0
    /\ tokens' = 0
    /\ \E n \in (IF enabled THEN Flushed ELSE Len(rows)) .. Len(rows) : rows' = SubSeq(rows, 1, n)
    /\ memory' = Prompts(rows')
    /\ compacting' = -1
    /\ enabled' = FALSE /\ turnOpen' = FALSE /\ stepText' = <<>>
    /\ usage' = -1 /\ bare' = -1 /\ steps' = 0
    /\ UNCHANGED <<opened, billed, queries, rewrites>>

-----------------------------------------------------------------------------
(* Between queries. *)

\* rewind_conversation, then truncate_to_turn with what is left in memory; a
\* lock conflict there is only logged.
Rewind(keep) ==
    /\ query = "none"
    /\ rewrites < MaxRewrites
    /\ keep < memory
    /\ rewrites' = rewrites + 1
    /\ memory' = keep
    /\ rows' \in {TruncateToTurn(rows, keep)} \cup (IF LockConflicts THEN {rows} ELSE {})
    /\ billed' = Folded(rows').tokens
    /\ UNCHANGED <<query, asked, calls, tokens, compacting, teeVars, opened, queries, crashes>>

\* compact_session sees no query running, takes the history and goes off to
\* have it summarised.
CompactStart ==
    /\ query = "none"
    /\ compacting = -1
    /\ rewrites < MaxRewrites
    /\ memory > 0
    /\ rewrites' = rewrites + 1
    /\ compacting' = memory
    /\ UNCHANGED <<rows, opened, query, asked, calls, tokens, billed, memory, teeVars, queries, crashes>>

\* The summary replaces the log and the history by at most as many turns,
\* unless a writer holds the log.
CompactWrite ==
    /\ compacting # -1
    /\ compacting' = -1
    /\ IF query # "none" /\ enabled
       THEN UNCHANGED <<rows, memory, billed>>
       ELSE \E kept \in 1 .. compacting :
               /\ memory' = kept
               /\ rows' = SummaryTurns(kept)
               /\ billed' = 0
    /\ UNCHANGED <<query, asked, calls, tokens, teeVars, opened, budgets>>

Next ==
    \/ Accept \/ RecordUserMessage \/ RecordTurnStart
    \/ Stream \/ ToolUseRequest \/ MalformedCall \/ CallEnds \/ ToolUseResult \/ TurnCompleted
    \/ Completed \/ Failed \/ DropTee \/ Crash
    \/ (\E keep \in 0 .. MaxQueries : Rewind(keep))
    \/ CompactStart \/ CompactWrite

Spec == Init /\ [][Next]_vars
-----------------------------------------------------------------------------
(* Properties. *)

TextType == Seq(Nat)

RowType ==
    [kind : {"session_start", "user", "turn_start", "chunk", "note", "tool_call", "tool_result",
             "message", "turn_end"},
     text : TextType,
     reason : {"none", "completed", "failed", "interrupted", "compact", "cancelled"},
     usage : Nat \cup {-1},
     steps : Nat]

\* The recorder's variables stay in their ranges.
TypeOK ==
    /\ rows \in Seq(RowType)
    /\ query \in {"none", "accepted", "prompted", "streaming", "malformed", "tools", "final",
                 "ended"}
    /\ enabled \in BOOLEAN /\ turnOpen \in BOOLEAN
    /\ stepText \in TextType
    /\ {opened, asked, calls, tokens, billed, memory, steps, queries, crashes, rewrites} \subseteq Nat
    /\ {usage, bare, compacting} \subseteq Nat \cup {-1}

\* The text the tee would finalize for an interrupted turn is the text that a
\* reload folds for the open step: the two step folds, one in the recorder
\* and one in the projection, never drift.
StepTextMirrorsProjection == turnOpen /\ enabled => stepText = Folded(rows).step.text

\* The text streamed in the open step after each of a log's leading rows: the
\* deltas since the last row that ends a step.
Streamed(log) ==
    LET after[i \in 0 .. Len(log)] ==
            IF i = 0 THEN <<>>
            ELSE IF log[i].kind \in {"user", "tool_result", "turn_end"} THEN <<>>
            ELSE IF log[i].kind = "chunk" THEN after[i - 1] \o log[i].text
            ELSE after[i - 1]
    IN  after

\* "Keep the partial output": a turn that was interrupted or failed comes back
\* from a reload with exactly the text streamed in its open step, under the
\* marker of its end; and a turn that completed comes back unmarked.
PartialAnswerMarked ==
    \A i \in 1 .. Len(rows) :
        (/\ rows[i].kind = "turn_end"
         /\ rows[i].reason # "compact"
         /\ Streamed(rows)[i - 1] # <<>>) =>
            LET messages == Folded(SubSeq(rows, 1, i)).messages
                message  == messages[Len(messages)]
            IN  /\ message.role = "assistant"
                /\ message.text = Streamed(rows)[i - 1]
                /\ message.mark = CASE rows[i].reason = "interrupted" -> "cancelled"
                                   [] rows[i].reason = "failed"      -> "failed"
                                   [] rows[i].reason = "completed"   -> "none"

RowsOf(log, kind, n) == Cardinality({i \in 1 .. n : log[i].kind = kind})

\* "Every opened turn is closed exactly once": along the log a turn/end never
\* lacks its turn/start, and the only turns left open are the one being
\* recorded and those whose process died.
TurnsPaired ==
    /\ \A n \in 1 .. Len(rows) : RowsOf(rows, "turn_end", n) <= RowsOf(rows, "turn_start", n)
    /\ RowsOf(rows, "turn_start", Len(rows)) - RowsOf(rows, "turn_end", Len(rows))
           <= crashes + (IF turnOpen /\ enabled THEN 1 ELSE 0)

\* The tokens a reload sums over the turn/end rows are the tokens reported to
\* the recorder in the turns that the log carries, however they ended.
UsageConserved == Folded(rows).tokens = billed

\* A branch at message k is the parent's first k messages, whole, whatever
\* was interrupted, failed or rewritten before: the cutoff by row number never
\* splits a message nor lets a piece of the next one through.
BranchIsPrefix ==
    LET parent == ProjectConversation(rows).messages
    IN  rows # <<>> =>
            \A k \in 0 .. Len(parent) :
                ProjectConversation(CreateBranch(rows, k)).messages = SubSeq(parent, 1, k)

\* A rewind keeps in the log "exactly the turns that survive in memory".
RewindKeepsMemory == query = "none" => Prompts(rows) = memory

\* A compaction replaces the history that it summarised, and no later prompt.
CompactionReplacesWhatItRead ==
    [][compacting # -1 /\ rows' # rows /\ compacting' = -1 /\ crashes' = crashes
          => compacting = memory]_vars
=============================================================================
