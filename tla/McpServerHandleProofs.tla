------------------------ MODULE McpServerHandleProofs ------------------------
(***************************************************************************)
(* Proofs about McpServerHandle, for any set of callers and any limits.    *)
(***************************************************************************)
EXTENDS McpServerHandle, FiniteSetTheorems, TLAPS

Waiting == {"write", "blocked", "await"}

\* The steps of a task that holds, or waits for, the stdin lock.
Writing(a) == Write(a) \/ Unblocked(a) \/ PipeBreaks(a)

\* A task goes on, with its request or without.
Moves(a, l) == GotoKeeping(a, l) \/ GotoAnew(a, l)

Messages == inbox \cup out

\* A task that has been given an id and waits for its answer.
IsWaiting(p) ==
  pc[p.who] \in Waiting /\ req[p.who].id = p.id /\ req[p.who].kind \in Kinds

\* Ids are given out in order.
IdsUsed ==
  /\ nextId # 0
  /\ \A a \in Actors : req[a].kind \in Kinds => req[a].id < nextId

\* Two tasks never hold the same id.
IdsUnique ==
  \A a, b \in Actors :
    (req[a].kind \in Kinds /\ req[b].kind \in Kinds /\ req[a].id = req[b].id
       /\ req[a].id # None) => a = b

\* An entry of pending belongs to a task that waits under its id.
EntriesOwned == \A p \in pending : IsWaiting(p)

\* A message carries an id that was given out; a task whose current request has
\* that id is the one the message is for.
MessagesOwned ==
  \A m \in Messages :
    /\ m.id # None /\ m.id < nextId
    /\ \A a \in Actors : req[a].kind \in Kinds /\ req[a].id = m.id
                           => a = m.of /\ req[a].kind = m.kind

\* What is about to be written is a request with an id, or the notification
\* that ends a start.
WritesNumbered ==
  \A a \in Actors : pc[a] \in {"write", "blocked"} =>
    req[a].kind = "initialized" \/ (req[a].kind \in Kinds /\ req[a].id # None)

\* A waiting task that holds an answer holds its own, and no entry of pending
\* is left for it.
RepliesOwned ==
  \A a \in Actors : pc[a] \in Waiting /\ reply[a] # NoReply =>
    /\ reply[a].of = a /\ reply[a].kind = req[a].kind
    /\ \A p \in pending : p.who # a

\* "give up" is where a retried call goes, and only while it waits.
RetriesLast ==
  \A a \in Actors : cont[a] = "give up" => pc[a] \in Waiting /\ req[a].kind = "tool"

\* A task that starts a process knows its number.
StartsKnown ==
  \A a \in Actors : pc[a] \in {"install", "wire", "read"} => req[a].id \in 1..spawned

\* Only callers call tools.
ToolsByCallers ==
  /\ \A m \in inbox : m.kind = "tool" => m.of \in Callers
  /\ \A a \in Actors : req[a].kind = "tool" => a \in Callers

RoutingInv ==
  /\ TypeOK /\ RetriesLast /\ StartsKnown /\ ToolsByCallers
  /\ IdsUsed /\ IdsUnique /\ EntriesOwned /\ MessagesOwned
  /\ WritesNumbered /\ RepliesOwned /\ AnswersMatch

\* The parts of TypeOK.
HandleOK ==
  /\ state \in {"Starting", "Healthy", "Unhealthy", "Stopped"}
  /\ spawned \in Nat /\ restarts \in Nat
  /\ child \in 0..spawned /\ stdin \in 0..spawned /\ readerTask \in 0..spawned
  /\ readers \in SUBSET (1..spawned) /\ procs \in SUBSET (1..spawned)
WireOK ==
  /\ nextId \in Nat
  /\ pending \in SUBSET [id : Nat, who : Actors]
  /\ inbox \in SUBSET [to : Nat, id : Nat, of : Actors, kind : Kinds]
  /\ out \in SUBSET [from : Nat, id : Nat, of : Actors, kind : Kinds]
TaskOK ==
  /\ pc \in [Actors -> Places]
  /\ req \in [Actors -> [id : Nat, kind : ReqKinds]]
  /\ reply \in [Actors -> Reply]
  /\ cont \in [Actors -> {"none", "call", "retry", "give up"}]
CountOK ==
  /\ runs \in [Callers -> Nat] /\ result \in [Callers -> Reply]
  /\ inPool \in {"yes", "no"} /\ upsets \in Nat

-----------------------------------------------------------------------------
\* TypeOK is the conjunction of its parts.
LEMMA TypeParts == TypeOK <=> HandleOK /\ WireOK /\ TaskOK /\ CountOK
  BY DEF TypeOK, HandleOK, WireOK, TaskOK, CountOK, Processes

\* What the pieces of an action do to the types.
LEMMA Grows == ASSUME NEW n \in Nat
               PROVE  /\ 0..n \subseteq 0..(n + 1) /\ 1..n \subseteq 1..(n + 1)
                      /\ 1..n \subseteq 0..n
                      /\ n + 1 \in 0..(n + 1) /\ n + 1 \in 1..(n + 1)
  OBVIOUS

\* A killed process leaves the sets of processes what they are.
LEMMA KillTypes ==
  ASSUME HandleOK, NEW P, Kill(P)
  PROVE  procs' \in SUBSET (1..spawned) /\ readers' \in SUBSET (1..spawned)
  BY DEF HandleOK, Kill

\* A task that returns keeps the types of the tasks.
LEMMA ReturnTypes == ASSUME TaskOK, NEW a \in Actors, Return(a) PROVE TaskOK'
<1>1. pc' \in [Actors -> Places]
  BY DEF TaskOK, Return, Places
<1>2. req' \in [Actors -> [id : Nat, kind : ReqKinds]]
  BY DEF TaskOK, Return, NoReq, None, ReqKinds
<1>3. reply' \in [Actors -> Reply]
  BY DEF TaskOK, Return, Reply
<1>4. cont' \in [Actors -> {"none", "call", "retry", "give up"}]
  BY DEF TaskOK, Return
<1>5. QED
  BY <1>1, <1>2, <1>3, <1>4 DEF TaskOK

\* So does one that moves on.
LEMMA GotoTypes ==
  ASSUME TaskOK, NEW a \in Actors, NEW l \in Places, Moves(a, l) PROVE TaskOK'
<1>1. pc' \in [Actors -> Places] /\ cont' = cont
  BY DEF TaskOK, Moves, GotoKeeping, GotoAnew, Goto
<1>2. NoReq \in [id : Nat, kind : ReqKinds] /\ NoReply \in Reply
  BY DEF NoReq, None, ReqKinds, Reply
<1>3. CASE GotoKeeping(a, l)
  BY <1>1, <1>3 DEF TaskOK, GotoKeeping
<1>4. CASE GotoAnew(a, l)
  BY <1>1, <1>2, <1>4 DEF TaskOK, GotoAnew
<1>5. QED
  BY <1>3, <1>4 DEF Moves

\* A new request keeps the types of the tasks and of pending.
LEMMA RequestTypes ==
  ASSUME TaskOK, WireOK, NEW a \in Actors, NEW kind \in Kinds, Request(a, kind)
  PROVE  /\ pc' \in [Actors -> Places]
         /\ req' \in [Actors -> [id : Nat, kind : ReqKinds]]
         /\ reply' \in [Actors -> Reply]
         /\ nextId' \in Nat /\ pending' \in SUBSET [id : Nat, who : Actors]
<1>1. pc' \in [Actors -> Places]
  BY DEF TaskOK, Request, Goto, Places
<1>2. req' \in [Actors -> [id : Nat, kind : ReqKinds]]
  BY DEF TaskOK, WireOK, Request, ReqKinds
<1>3. reply' \in [Actors -> Reply]
  BY DEF TaskOK, Request, Reply
<1>4. nextId' \in Nat /\ pending' \in SUBSET [id : Nat, who : Actors]
  BY DEF WireOK, Request
<1>5. QED
  BY <1>1, <1>2, <1>3, <1>4

\* A write goes through, gets stuck in the pipe, or fails.
LEMMA WriteOutcome ==
  ASSUME NEW a, Writing(a)
  PROVE  /\ pc[a] \in {"write", "blocked"}
         /\ \/ stdin \in procs /\ Delivered(a)
            \/ /\ pc[a] = "write" /\ GotoKeeping(a, "blocked")
               /\ UNCHANGED <<inbox, pending>>
            \/ Undelivered(a)
         /\ UNCHANGED <<state, child, stdin, readers, readerTask, procs, spawned,
                        nextId, out, restarts, runs, result, inPool, upsets>>
  BY DEF Writing, Write, Unblocked, PipeBreaks, handleVars, boundVars

\* Every step keeps the types of the handle.
LEMMA HandleTypes == HandleOK /\ TaskOK /\ StartsKnown /\ [Next]_vars => HandleOK'
<1> SUFFICES ASSUME HandleOK, TaskOK, StartsKnown, [Next]_vars PROVE HandleOK'
  OBVIOUS
<1>1. ASSUME NEW a \in Actors, Writing(a) PROVE HandleOK'
  BY <1>1 DEF HandleOK, Writing, Write, Unblocked, PipeBreaks, handleVars
<1>2. ASSUME NEW a \in Actors, Restart(a) PROVE HandleOK'
  BY <1>2 DEF HandleOK, Restart
<1>3. ASSUME NEW a \in Actors, SetStopped(a) PROVE HandleOK'
  BY <1>3 DEF HandleOK, SetStopped
<1>4. ASSUME NEW a \in Actors, CloseStdin(a) PROVE HandleOK'
  BY <1>4 DEF HandleOK, CloseStdin, None
<1>5. ASSUME NEW a \in Actors, AbortReader(a) PROVE HandleOK'
  BY <1>5 DEF HandleOK, AbortReader, None
<1>6. ASSUME NEW a \in Actors, Reap(a) PROVE HandleOK'
  BY <1>6 DEF Reap, HandleOK, None
<1>7. ASSUME NEW a \in Actors, Spawn(a) PROVE HandleOK'
  <2>1. spawned' = spawned + 1 /\ spawned' \in Nat /\ restarts' \in Nat
    BY <1>7 DEF Spawn, HandleOK
  <2>2. child' \in 0..spawned' /\ stdin' \in 0..spawned' /\ readerTask' \in 0..spawned'
    BY <1>7, <2>1, Grows DEF Spawn, HandleOK
  <2>3. readers' \in SUBSET (1..spawned') /\ procs' \in SUBSET (1..spawned')
    BY <1>7, <2>1, Grows DEF Spawn, HandleOK
  <2>4. QED
    BY <1>7, <2>1, <2>2, <2>3 DEF HandleOK, Spawn
<1>8. ASSUME NEW a \in Actors, SpawnFails(a) PROVE HandleOK'
  BY <1>8 DEF HandleOK, SpawnFails, handleVars
<1>9. ASSUME NEW a \in Actors, Wire(a) PROVE HandleOK'
  <2>1. req[a].id \in 1..spawned /\ req[a].id \in 0..spawned
    BY <1>9, Grows DEF Wire, StartsKnown, HandleOK
  <2>2. QED
    BY <1>9, <2>1 DEF HandleOK, Wire
<1>10. ASSUME NEW a \in Actors, Read(a) PROVE HandleOK'
  <2>1. req[a].id \in 1..spawned /\ req[a].id \in 0..spawned
    BY <1>10, Grows DEF Read, StartsKnown, HandleOK
  <2>2. QED
    BY <1>10, <2>1 DEF HandleOK, Read
<1>11. ASSUME NEW a \in Actors, Initialized(a) PROVE HandleOK'
  BY <1>11 DEF HandleOK, Initialized, handleVars
<1>12. ASSUME NEW a \in Actors, InitializeFails(a) PROVE HandleOK'
  BY <1>12 DEF HandleOK, InitializeFails, handleVars
<1>13. ASSUME NEW c \in Callers, Begin(c) PROVE HandleOK'
  BY <1>13 DEF HandleOK, Begin, handleVars
<1>14. ASSUME NEW c \in Callers, Check(c) PROVE HandleOK'
  BY <1>14 DEF HandleOK, Check, handleVars
<1>15. ASSUME NEW c \in Callers, Poll(c) PROVE HandleOK'
  BY <1>15 DEF HandleOK, Poll, handleVars
<1>16. ASSUME NEW c \in Callers, CallTool(c) PROVE HandleOK'
  BY <1>16 DEF HandleOK, CallTool, handleVars
<1>17. ASSUME NEW c \in Callers, ToolOk(c) PROVE HandleOK'
  BY <1>17 DEF HandleOK, ToolOk, handleVars
<1>18. ASSUME NEW c \in Callers, ToolFails(c) PROVE HandleOK'
  BY <1>18 DEF HandleOK, ToolFails
<1>19. CASE Ping
  BY <1>19 DEF HandleOK, Ping, handleVars
<1>20. CASE Pinged
  BY <1>20 DEF HandleOK, Pinged
<1>21. CASE Stop
  BY <1>21 DEF HandleOK, Stop, handleVars
<1>22. CASE Drop
  <2>1. procs' \in SUBSET (1..spawned) /\ readers' \in SUBSET (1..spawned)
    BY <1>22, KillTypes DEF Drop
  <2>2. child' \in 0..spawned
    BY <1>22 DEF Drop, HandleOK, None
  <2>3. UNCHANGED <<state, stdin, readerTask, spawned, restarts>>
    BY <1>22 DEF Drop
  <2>4. QED
    BY <2>1, <2>2, <2>3 DEF HandleOK
<1>23. ASSUME NEW m \in inbox, Serve(m) PROVE HandleOK'
  BY <1>23 DEF HandleOK, Serve, handleVars
<1>24. ASSUME NEW p \in procs, Dies(p) PROVE HandleOK'
  BY <1>24 DEF HandleOK, Dies, Kill
<1>25. ASSUME NEW m \in out, Route(m) PROVE HandleOK'
  BY <1>25 DEF HandleOK, Route
<1>26. CASE UNCHANGED vars
  BY <1>26 DEF HandleOK, vars, handleVars
<1>27. ASSUME NEW a \in Actors, Reaped(a) PROVE HandleOK'
  <2>1. procs' \in SUBSET (1..spawned) /\ readers' \in SUBSET (1..spawned)
    BY <1>27, KillTypes DEF Reaped
  <2>2. QED
    BY <1>27, <2>1 DEF HandleOK, Reaped
<1>28. ASSUME NEW a \in Actors, Install(a) PROVE HandleOK'
  <2>1. procs' \in SUBSET (1..spawned) /\ readers' \in SUBSET (1..spawned)
    BY <1>28, KillTypes DEF Install
  <2>2. child' \in 0..spawned
    BY <1>28, Grows DEF Install, StartsKnown, HandleOK
  <2>3. QED
    BY <1>28, <2>1, <2>2 DEF HandleOK, Install
<1>29. ASSUME NEW a \in Actors, Ready(a) PROVE HandleOK'
  BY <1>29 DEF HandleOK, Ready
<1>30. ASSUME NEW c \in Callers, Acquire(c) PROVE HandleOK'
  BY <1>30 DEF HandleOK, Acquire, handleVars
<1>31. QED
  BY <1>1, <1>2, <1>3, <1>4, <1>5, <1>6, <1>7, <1>8, <1>9, <1>10, <1>11, <1>12, <1>13,
     <1>14, <1>15, <1>16, <1>17, <1>18, <1>19, <1>20, <1>21, <1>22, <1>23, <1>24, <1>25, <1>26,
     <1>27, <1>28, <1>29, <1>30 DEF Next, Work, Call, Writing

\* Every step keeps the types of the requests under way.
LEMMA WireTypes ==
  WireOK /\ TaskOK /\ HandleOK /\ WritesNumbered /\ [Next]_vars => WireOK'
<1> SUFFICES ASSUME WireOK, TaskOK, HandleOK, WritesNumbered, [Next]_vars PROVE WireOK'
  OBVIOUS
<1>1. ASSUME NEW a \in Actors, Writing(a) PROVE WireOK'
  <2>1. pending' \in SUBSET [id : Nat, who : Actors]
    BY <1>1, WriteOutcome DEF Delivered, Undelivered, Unwait, WireOK
  <2>2. inbox' \in SUBSET [to : Nat, id : Nat, of : Actors, kind : Kinds]
    <3>1. CASE inbox' = inbox
      BY <3>1 DEF WireOK
    <3>2. CASE inbox' # inbox
      <4>1. Delivered(a) /\ stdin \in procs /\ pc[a] \in {"write", "blocked"}
        BY <1>1, <3>2, WriteOutcome DEF Undelivered
      <4>2. req[a].kind \in Kinds
        BY <3>2, <4>1 DEF Delivered, WritesNumbered
      <4>3. req[a] \in [id : Nat, kind : ReqKinds]
        BY DEF TaskOK
      <4>4. stdin \in Nat
        BY DEF HandleOK
      <4>5. QED
        BY <3>2, <4>1, <4>2, <4>3, <4>4 DEF Delivered, WireOK
    <3>3. QED
      BY <3>1, <3>2
  <2>3. QED
    BY <1>1, <2>1, <2>2, WriteOutcome DEF WireOK
<1>2. ASSUME NEW a \in Actors, Restart(a) PROVE WireOK'
  BY <1>2 DEF WireOK, Restart, wireVars
<1>3. ASSUME NEW a \in Actors, SetStopped(a) PROVE WireOK'
  BY <1>3 DEF WireOK, SetStopped, wireVars
<1>4. ASSUME NEW a \in Actors, CloseStdin(a) PROVE WireOK'
  BY <1>4 DEF WireOK, CloseStdin, wireVars
<1>5. ASSUME NEW a \in Actors, AbortReader(a) PROVE WireOK'
  BY <1>5 DEF WireOK, AbortReader
<1>6. ASSUME NEW a \in Actors, Reap(a) PROVE WireOK'
  BY <1>6 DEF WireOK, Reap, wireVars
<1>7. ASSUME NEW a \in Actors, Spawn(a) PROVE WireOK'
  BY <1>7 DEF WireOK, Spawn, wireVars
<1>8. ASSUME NEW a \in Actors, SpawnFails(a) PROVE WireOK'
  BY <1>8 DEF WireOK, SpawnFails, wireVars
<1>9. ASSUME NEW a \in Actors, Wire(a) PROVE WireOK'
  BY <1>9 DEF WireOK, Wire, wireVars
<1>10. ASSUME NEW a \in Actors, Read(a) PROVE WireOK'
  BY <1>10 DEF WireOK, Read, Request
<1>11. ASSUME NEW a \in Actors, Initialized(a) PROVE WireOK'
  BY <1>11 DEF WireOK, Initialized, Succeeds
<1>12. ASSUME NEW a \in Actors, InitializeFails(a) PROVE WireOK'
  BY <1>12 DEF WireOK, InitializeFails, Fails, Unwait
<1>13. ASSUME NEW c \in Callers, Begin(c) PROVE WireOK'
  BY <1>13 DEF WireOK, Begin, wireVars
<1>14. ASSUME NEW c \in Callers, Check(c) PROVE WireOK'
  BY <1>14 DEF WireOK, Check, wireVars
<1>15. ASSUME NEW c \in Callers, Poll(c) PROVE WireOK'
  BY <1>15 DEF WireOK, Poll, wireVars
<1>16. ASSUME NEW c \in Callers, CallTool(c) PROVE WireOK'
  <2>1. c \in Actors
    BY DEF Actors
  <2>2. CASE state = "Healthy"
    <3>1. Request(c, "tool")
      BY <1>16, <2>2 DEF CallTool
    <3>2. QED
      BY <1>16, <2>1, <3>1, RequestTypes DEF CallTool, WireOK, Kinds
  <2>3. CASE state # "Healthy"
    BY <1>16, <2>3 DEF CallTool, WireOK
  <2>4. QED
    BY <2>2, <2>3
<1>17. ASSUME NEW c \in Callers, ToolOk(c) PROVE WireOK'
  BY <1>17 DEF WireOK, ToolOk, Succeeds
<1>18. ASSUME NEW c \in Callers, ToolFails(c) PROVE WireOK'
  BY <1>18 DEF WireOK, ToolFails, Fails, Unwait
<1>19. CASE Ping
  BY <1>19 DEF WireOK, Ping, Request, Actors
<1>20. CASE Pinged
  BY <1>20 DEF WireOK, Pinged, Succeeds, Fails, Unwait
<1>21. CASE Stop
  BY <1>21 DEF WireOK, Stop, wireVars
<1>22. CASE Drop
  BY <1>22 DEF WireOK, Drop, Kill
<1>23. ASSUME NEW m \in inbox, Serve(m) PROVE WireOK'
  BY <1>23 DEF WireOK, Serve
<1>24. ASSUME NEW p \in procs, Dies(p) PROVE WireOK'
  BY <1>24 DEF WireOK, Dies, Kill
<1>25. ASSUME NEW m \in out, Route(m) PROVE WireOK'
  BY <1>25 DEF WireOK, Route
<1>26. CASE UNCHANGED vars
  BY <1>26 DEF WireOK, vars, wireVars
<1>27. ASSUME NEW a \in Actors, Reaped(a) PROVE WireOK'
  BY <1>27 DEF WireOK, Reaped, Kill
<1>28. ASSUME NEW a \in Actors, Install(a) PROVE WireOK'
  BY <1>28 DEF WireOK, Install, Kill
<1>29. ASSUME NEW a \in Actors, Ready(a) PROVE WireOK'
  BY <1>29 DEF WireOK, Ready, wireVars
<1>30. ASSUME NEW c \in Callers, Acquire(c) PROVE WireOK'
  BY <1>30 DEF WireOK, Acquire, wireVars
<1>31. QED
  BY <1>1, <1>2, <1>3, <1>4, <1>5, <1>6, <1>7, <1>8, <1>9, <1>10, <1>11, <1>12, <1>13,
     <1>14, <1>15, <1>16, <1>17, <1>18, <1>19, <1>20, <1>21, <1>22, <1>23, <1>24, <1>25, <1>26,
     <1>27, <1>28, <1>29, <1>30 DEF Next, Work, Call, Writing

\* Every step keeps the types of the tasks.
LEMMA TaskTypes == TaskOK /\ WireOK /\ HandleOK /\ RetriesLast /\ [Next]_vars => TaskOK'
<1> SUFFICES ASSUME TaskOK, WireOK, HandleOK, RetriesLast, [Next]_vars PROVE TaskOK'
  OBVIOUS
<1>1. ASSUME NEW a \in Actors, Writing(a) PROVE TaskOK'
  <2>1. Return(a) \/ \E l \in Places : Moves(a, l)
    BY <1>1, WriteOutcome DEF Delivered, Undelivered, Moves, Places
  <2>2. QED
    BY <2>1, ReturnTypes, GotoTypes
<1>2. ASSUME NEW a \in Actors, Restart(a) PROVE TaskOK'
  <2>1. CASE Return(a)
    BY <2>1, ReturnTypes
  <2>2. CASE GotoKeeping(a, "stop")
    BY <2>2, GotoTypes DEF Moves, Places
  <2>3. QED
    BY <1>2, <2>1, <2>2 DEF Restart
<1>3. ASSUME NEW a \in Actors, SetStopped(a) PROVE TaskOK'
  BY <1>3 DEF TaskOK, Places, Kinds, ReqKinds, Reply, NoReq, NoReply, None, SetStopped, Goto
<1>4. ASSUME NEW a \in Actors, CloseStdin(a) PROVE TaskOK'
  BY <1>4 DEF TaskOK, Places, Kinds, ReqKinds, Reply, NoReq, NoReply, None, CloseStdin, Goto
<1>5. ASSUME NEW a \in Actors, AbortReader(a) PROVE TaskOK'
  BY <1>5 DEF TaskOK, Places, Kinds, ReqKinds, Reply, NoReq, NoReply, None, AbortReader, Goto
<1>6. ASSUME NEW a \in Actors, Reap(a) PROVE TaskOK'
  <2>1. CASE AfterShutdown(a)
    BY <2>1, ReturnTypes, GotoTypes DEF AfterShutdown, Moves, Places
  <2>2. CASE child # None
    <3>1. pc' \in [Actors -> Places]
      BY <1>6, <2>2 DEF Reap, Goto, TaskOK, Places
    <3>2. [id |-> child, kind |-> "reap"] \in [id : Nat, kind : ReqKinds]
      BY DEF HandleOK, ReqKinds
    <3>3. req' \in [Actors -> [id : Nat, kind : ReqKinds]]
      BY <1>6, <2>2, <3>2 DEF Reap, TaskOK
    <3>4. QED
      BY <1>6, <2>2, <3>1, <3>3 DEF Reap, TaskOK
  <2>3. QED
    BY <1>6, <2>1, <2>2 DEF Reap
<1>7. ASSUME NEW a \in Actors, Spawn(a) PROVE TaskOK'
  <2>1. pc' \in [Actors -> Places]
    BY <1>7 DEF Spawn, Goto, TaskOK, Places
  <2>2. spawned + 1 \in Nat
    BY DEF HandleOK
  <2>3. req' \in [Actors -> [id : Nat, kind : ReqKinds]]
    BY <1>7, <2>2 DEF Spawn, TaskOK, ReqKinds
  <2>4. QED
    BY <1>7, <2>1, <2>3 DEF Spawn, TaskOK
<1>8. ASSUME NEW a \in Actors, SpawnFails(a) PROVE TaskOK'
  BY <1>8 DEF TaskOK, Places, Kinds, ReqKinds, Reply, NoReq, NoReply, None, SpawnFails, Return
<1>9. ASSUME NEW a \in Actors, Wire(a) PROVE TaskOK'
  BY <1>9 DEF TaskOK, Places, Kinds, ReqKinds, Reply, NoReq, NoReply, None, Wire, Goto
<1>10. ASSUME NEW a \in Actors, Read(a) PROVE TaskOK'
  BY <1>10 DEF TaskOK, Places, Kinds, ReqKinds, Reply, NoReq, NoReply, None, Read, Request, Goto,
               WireOK
<1>11. ASSUME NEW a \in Actors, Initialized(a) PROVE TaskOK'
  <2>1. [id |-> None, kind |-> "initialized"] \in [id : Nat, kind : ReqKinds]
    BY DEF None, ReqKinds
  <2>2. NoReply \in Reply
    BY DEF Reply
  <2>3. QED
    BY <1>11, <2>1, <2>2 DEF Initialized, Goto, TaskOK, Places
<1>12. ASSUME NEW a \in Actors, InitializeFails(a) PROVE TaskOK'
  BY <1>12 DEF TaskOK, Places, Kinds, ReqKinds, Reply, NoReq, NoReply, None, InitializeFails, Return
<1>13. ASSUME NEW c \in Callers, Begin(c) PROVE TaskOK'
  BY <1>13 DEF TaskOK, Places, Kinds, ReqKinds, Reply, NoReq, NoReply, None, Begin, Goto, Actors
<1>14. ASSUME NEW c \in Callers, Check(c) PROVE TaskOK'
  <2>1. c \in Actors
    BY DEF Actors
  <2>2. CASE Return(c)
    BY <2>1, <2>2, ReturnTypes
  <2>3. CASE state # "Stopped"
    <3>1. PICK l \in Places : Goto(c, l)
      BY <1>14, <2>3 DEF Check, HandleOK, Places
    <3>2. pc' \in [Actors -> Places]
      BY <2>1, <3>1 DEF Goto, TaskOK
    <3>3. cont' \in [Actors -> {"none", "call", "retry", "give up"}]
      BY <1>14, <2>1, <2>3 DEF Check, TaskOK
    <3>4. QED
      BY <1>14, <2>3, <3>2, <3>3 DEF Check, TaskOK
  <2>4. QED
    BY <1>14, <2>2, <2>3 DEF Check
<1>15. ASSUME NEW c \in Callers, Poll(c) PROVE TaskOK'
  <2>1. c \in Actors
    BY DEF Actors
  <2>2. CASE Return(c)
    BY <2>1, <2>2, ReturnTypes
  <2>3. CASE GotoKeeping(c, "call")
    BY <2>1, <2>3, GotoTypes DEF Moves, Places
  <2>4. QED
    BY <1>15, <2>2, <2>3 DEF Poll
<1>16. ASSUME NEW c \in Callers, CallTool(c) PROVE TaskOK'
  <2>1. c \in Actors
    BY DEF Actors
  <2>2. cont' \in [Actors -> {"none", "call", "retry", "give up"}]
    BY <1>16 DEF CallTool, TaskOK
  <2>3. CASE Request(c, "tool")
    BY <2>1, <2>2, <2>3, RequestTypes DEF TaskOK, Kinds
  <2>4. CASE state # "Healthy"
    <3>1. pc' \in [Actors -> Places]
      BY <1>16, <2>4 DEF CallTool, Goto, TaskOK, Places
    <3>2. req' \in [Actors -> [id : Nat, kind : ReqKinds]]
      <4>1. [id |-> None, kind |-> "tool"] \in [id : Nat, kind : ReqKinds]
        BY DEF None, Kinds, ReqKinds
      <4>2. req' = [req EXCEPT ![c] = [id |-> None, kind |-> "tool"]]
        BY <1>16, <2>4 DEF CallTool
      <4>3. QED
        BY <2>1, <4>1, <4>2 DEF TaskOK
    <3>3. reply' \in [Actors -> Reply]
      BY <1>16, <2>4 DEF CallTool, TaskOK, Reply
    <3>4. QED
      BY <2>2, <3>1, <3>2, <3>3 DEF TaskOK
  <2>5. QED
    BY <1>16, <2>3, <2>4 DEF CallTool
<1>17. ASSUME NEW c \in Callers, ToolOk(c) PROVE TaskOK'
  BY <1>17 DEF TaskOK, Places, Kinds, ReqKinds, Reply, NoReq, NoReply, None, ToolOk, Return, Actors
<1>18. ASSUME NEW c \in Callers, ToolFails(c) PROVE TaskOK'
  <2>1. c \in Actors
    BY DEF Actors
  <2>2. CASE Return(c)
    BY <2>1, <2>2, ReturnTypes
  <2>3. CASE GotoAnew(c, "restart")
    BY <2>1, <2>3, GotoTypes DEF Moves, Places
  <2>4. QED
    BY <1>18, <2>2, <2>3 DEF ToolFails
<1>19. CASE Ping
  <2>1. "health" \in Actors
    BY DEF Actors
  <2>2. CASE Request("health", "ping")
    BY <1>19, <2>1, <2>2, RequestTypes DEF Ping, TaskOK, Kinds
  <2>3. CASE state = "Stopped"
    BY <1>19, <2>1, <2>3 DEF Ping, Goto, TaskOK, Places
  <2>4. QED
    BY <1>19, <2>2, <2>3 DEF Ping
<1>20. CASE Pinged
  <2>1. "health" \in Actors
    BY DEF Actors
  <2>2. CASE Return("health")
    BY <2>1, <2>2, ReturnTypes
  <2>3. CASE GotoAnew("health", "restart")
    BY <2>1, <2>3, GotoTypes DEF Moves, Places
  <2>4. QED
    BY <1>20, <2>2, <2>3 DEF Pinged
<1>21. CASE Stop
  BY <1>21 DEF TaskOK, Places, Kinds, ReqKinds, Reply, NoReq, NoReply, None, Stop, Goto, Actors
<1>22. CASE Drop
  BY <1>22 DEF TaskOK, Places, Kinds, ReqKinds, Reply, NoReq, NoReply, None, Drop, taskVars
<1>23. ASSUME NEW m \in inbox, Serve(m) PROVE TaskOK'
  BY <1>23 DEF TaskOK, Places, Kinds, ReqKinds, Reply, NoReq, NoReply, None, Serve, taskVars
<1>24. ASSUME NEW p \in procs, Dies(p) PROVE TaskOK'
  BY <1>24 DEF TaskOK, Places, Kinds, ReqKinds, Reply, NoReq, NoReply, None, Dies, taskVars
<1>25. ASSUME NEW m \in out, Route(m) PROVE TaskOK'
  BY <1>25 DEF TaskOK, Places, Kinds, ReqKinds, Reply, NoReq, NoReply, None, Route, WireOK
<1>26. CASE UNCHANGED vars
  BY <1>26 DEF TaskOK, Places, Kinds, ReqKinds, Reply, NoReq, NoReply, None, vars, taskVars
<1>27. ASSUME NEW a \in Actors, Reaped(a) PROVE TaskOK'
  BY <1>27, ReturnTypes, GotoTypes DEF Reaped, AfterShutdown, Moves, Places
<1>28. ASSUME NEW a \in Actors, Install(a) PROVE TaskOK'
  BY <1>28 DEF TaskOK, Places, Install, Goto
<1>29. ASSUME NEW a \in Actors, Ready(a) PROVE TaskOK'
  <2>1. CASE Return(a)
    BY <2>1, ReturnTypes
  <2>2. CASE cont[a] # "none" /\ GotoAnew(a, cont[a])
    <3>1. cont[a] \in Places
      BY <1>29, <2>2 DEF Ready, RetriesLast, TaskOK, Places, Waiting
    <3>2. QED
      BY <2>2, <3>1, GotoTypes DEF Moves
  <2>3. QED
    BY <1>29, <2>1, <2>2 DEF Ready
<1>30. ASSUME NEW c \in Callers, Acquire(c) PROVE TaskOK'
  BY <1>30 DEF TaskOK, Places, Acquire, Goto, Actors
<1>31. QED
  BY <1>1, <1>2, <1>3, <1>4, <1>5, <1>6, <1>7, <1>8, <1>9, <1>10, <1>11, <1>12, <1>13,
     <1>14, <1>15, <1>16, <1>17, <1>18, <1>19, <1>20, <1>21, <1>22, <1>23, <1>24, <1>25, <1>26,
     <1>27, <1>28, <1>29, <1>30 DEF Next, Work, Call, Writing

\* Every step keeps the types of the results.
LEMMA CountTypes == CountOK /\ TaskOK /\ WireOK /\ ToolsByCallers /\ [Next]_vars => CountOK'
<1> SUFFICES ASSUME CountOK, TaskOK, WireOK, ToolsByCallers, [Next]_vars PROVE CountOK'
  OBVIOUS
<1>1. ASSUME NEW a \in Actors, Writing(a) PROVE CountOK'
  BY <1>1, WriteOutcome DEF CountOK, boundVars
<1>2. ASSUME NEW a \in Actors, Restart(a) PROVE CountOK'
  BY <1>2 DEF CountOK, Restart, boundVars
<1>3. ASSUME NEW a \in Actors, SetStopped(a) PROVE CountOK'
  BY <1>3 DEF CountOK, SetStopped, boundVars
<1>4. ASSUME NEW a \in Actors, CloseStdin(a) PROVE CountOK'
  BY <1>4 DEF CountOK, CloseStdin, boundVars
<1>5. ASSUME NEW a \in Actors, AbortReader(a) PROVE CountOK'
  BY <1>5 DEF CountOK, AbortReader, boundVars
<1>6. ASSUME NEW a \in Actors, Reap(a) PROVE CountOK'
  BY <1>6 DEF CountOK, Reap, boundVars
<1>7. ASSUME NEW a \in Actors, Spawn(a) PROVE CountOK'
  BY <1>7 DEF CountOK, Spawn, boundVars
<1>8. ASSUME NEW a \in Actors, SpawnFails(a) PROVE CountOK'
  BY <1>8 DEF CountOK, SpawnFails, boundVars
<1>9. ASSUME NEW a \in Actors, Wire(a) PROVE CountOK'
  BY <1>9 DEF CountOK, Wire, boundVars
<1>10. ASSUME NEW a \in Actors, Read(a) PROVE CountOK'
  BY <1>10 DEF CountOK, Read, boundVars
<1>11. ASSUME NEW a \in Actors, Initialized(a) PROVE CountOK'
  BY <1>11 DEF CountOK, Initialized, boundVars
<1>12. ASSUME NEW a \in Actors, InitializeFails(a) PROVE CountOK'
  BY <1>12 DEF CountOK, InitializeFails, boundVars
<1>13. ASSUME NEW c \in Callers, Begin(c) PROVE CountOK'
  BY <1>13 DEF CountOK, Begin, boundVars
<1>14. ASSUME NEW c \in Callers, Check(c) PROVE CountOK'
  BY <1>14 DEF CountOK, Check, boundVars
<1>15. ASSUME NEW c \in Callers, Poll(c) PROVE CountOK'
  BY <1>15 DEF CountOK, Poll, boundVars
<1>16. ASSUME NEW c \in Callers, CallTool(c) PROVE CountOK'
  BY <1>16 DEF CountOK, CallTool, boundVars
<1>17. ASSUME NEW c \in Callers, ToolOk(c) PROVE CountOK'
  BY <1>17 DEF CountOK, ToolOk, Succeeds, TaskOK, Actors
<1>18. ASSUME NEW c \in Callers, ToolFails(c) PROVE CountOK'
  BY <1>18 DEF CountOK, ToolFails, boundVars
<1>19. CASE Ping
  BY <1>19 DEF CountOK, Ping
<1>20. CASE Pinged
  BY <1>20 DEF CountOK, Pinged, boundVars
<1>21. CASE Stop
  BY <1>21 DEF CountOK, Stop
<1>22. CASE Drop
  BY <1>22 DEF CountOK, Drop, boundVars
<1>23. ASSUME NEW m \in inbox, Serve(m) PROVE CountOK'
  <2>1. runs' \in [Callers -> Nat]
    BY <1>23 DEF CountOK, Serve, ToolsByCallers
  <2>2. QED
    BY <1>23, <2>1 DEF CountOK, Serve
<1>24. ASSUME NEW p \in procs, Dies(p) PROVE CountOK'
  BY <1>24 DEF CountOK, Dies
<1>25. ASSUME NEW m \in out, Route(m) PROVE CountOK'
  BY <1>25 DEF CountOK, Route, boundVars
<1>26. CASE UNCHANGED vars
  BY <1>26 DEF CountOK, vars, boundVars
<1>27. ASSUME NEW a \in Actors, Reaped(a) PROVE CountOK'
  BY <1>27 DEF CountOK, Reaped, boundVars
<1>28. ASSUME NEW a \in Actors, Install(a) PROVE CountOK'
  BY <1>28 DEF CountOK, Install, boundVars
<1>29. ASSUME NEW a \in Actors, Ready(a) PROVE CountOK'
  BY <1>29 DEF CountOK, Ready, boundVars
<1>30. ASSUME NEW c \in Callers, Acquire(c) PROVE CountOK'
  BY <1>30 DEF CountOK, Acquire, boundVars
<1>31. QED
  BY <1>1, <1>2, <1>3, <1>4, <1>5, <1>6, <1>7, <1>8, <1>9, <1>10, <1>11, <1>12, <1>13,
     <1>14, <1>15, <1>16, <1>17, <1>18, <1>19, <1>20, <1>21, <1>22, <1>23, <1>24, <1>25, <1>26,
     <1>27, <1>28, <1>29, <1>30 DEF Next, Work, Call, Writing

-----------------------------------------------------------------------------
(* The routing of answers *)

Core ==
  /\ IdsUsed /\ IdsUnique /\ EntriesOwned /\ MessagesOwned
  /\ WritesNumbered /\ RepliesOwned

\* Most steps only take entries, messages and tasks away: a task either is left
\* alone, or waits for no answer and has no entry.
LEMMA CalmStep ==
  ASSUME TaskOK, WireOK, Core, nextId' = nextId,
         pending' \subseteq pending, inbox' \subseteq inbox, out' \subseteq out,
         \A b \in Actors :
           \/ pc'[b] = pc[b] /\ req'[b] = req[b] /\ reply'[b] = reply[b]
           \/ /\ \/ pc'[b] \notin Waiting
                 \/ req'[b].kind = "initialized" /\ reply'[b] = NoReply
              /\ req'[b] = req[b] \/ req'[b].kind \notin Kinds
              /\ \A p \in pending' : p.who # b
  PROVE  Core'
<1> USE DEF Core
<1>1. IdsUsed'
  BY DEF IdsUsed
<1>2. IdsUnique'
  BY DEF IdsUnique
<1>3. EntriesOwned'
  BY DEF EntriesOwned, IsWaiting, WireOK
<1>4. MessagesOwned'
  BY DEF MessagesOwned, Messages
<1>5. WritesNumbered'
  BY DEF WritesNumbered, Waiting
<1>6. RepliesOwned'
  BY DEF RepliesOwned
<1>7. QED
  BY <1>1, <1>2, <1>3, <1>4, <1>5, <1>6

\* A task that does not wait has no entry.
LEMMA NoEntry ==
  ASSUME EntriesOwned, NEW a \in Actors, pc[a] \notin Waiting
  PROVE  \A p \in pending : p.who # a
  BY DEF EntriesOwned, IsWaiting

\* One that gives up its id, or holds its answer, has none either.
LEMMA UnwaitNoEntry ==
  ASSUME EntriesOwned, NEW a \in Actors, Unwait(a)
  PROVE  pending' \subseteq pending /\ \A p \in pending' : p.who # a
  BY DEF EntriesOwned, IsWaiting, Unwait

\* A task that stops waiting for good.
LEMMA LeaveStep ==
  ASSUME TaskOK, WireOK, Core, nextId' = nextId,
         pending' \subseteq pending, inbox' \subseteq inbox, out' \subseteq out,
         NEW a \in Actors, Return(a) \/ \E l \in Places \ Waiting : Moves(a, l),
         \A p \in pending' : p.who # a
  PROVE  Core'
<1>1. pc'[a] \notin Waiting /\ (req'[a] = req[a] \/ req'[a].kind \notin Kinds)
  <2>1. CASE Return(a)
    <3>1. pc'[a] \in {"idle", "done"} /\ req'[a] = NoReq
      BY <2>1 DEF Return, TaskOK
    <3>2. QED
      BY <3>1 DEF Waiting, NoReq, Kinds
  <2>2. CASE \E l \in Places \ Waiting : Moves(a, l)
    <3>1. pc'[a] \notin Waiting /\ (req'[a] = req[a] \/ req'[a] = NoReq)
      BY <2>2 DEF Moves, GotoKeeping, GotoAnew, Goto, TaskOK
    <3>2. QED
      BY <3>1 DEF NoReq, Kinds
  <2>3. QED
    BY <2>1, <2>2
<1>2. \A b \in Actors \ {a} : pc'[b] = pc[b] /\ req'[b] = req[b] /\ reply'[b] = reply[b]
  <2>1. CASE Return(a)
    BY <2>1 DEF Return, TaskOK
  <2>2. CASE \E l \in Places \ Waiting : Moves(a, l)
    BY <2>2 DEF Moves, GotoKeeping, GotoAnew, Goto, TaskOK, NoReq, Kinds
  <2>3. QED
    BY <2>1, <2>2
<1>3. QED
  BY <1>1, <1>2, CalmStep

\* What was about to be written is in the pipe under its id, or is given up.
LEMMA WriteStep ==
  ASSUME TaskOK, WireOK, Core, NEW a \in Actors, Writing(a) PROVE Core'
<1>1. pc[a] \in {"write", "blocked"} /\ UNCHANGED <<nextId, out>>
  BY WriteOutcome
<1>2. CASE Return(a)
  <2>1. Unwait(a) /\ inbox' = inbox
    BY ZenonT(60), <1>2, WriteOutcome DEF Delivered, Undelivered, GotoKeeping, Goto, Return, TaskOK
  <2>2. pending' \subseteq pending /\ \A p \in pending' : p.who # a
    BY <2>1, UnwaitNoEntry DEF Core
  <2>3. QED
    BY <1>1, <1>2, <2>1, <2>2, LeaveStep
<1>3. CASE ~Return(a)
  <2>1. /\ pc'[a] \in {"blocked", "await", "ready"}
        /\ pc'[a] = "ready" => req[a].kind = "initialized"
        /\ \A b \in Actors \ {a} : pc'[b] = pc[b]
    BY ZenonT(60), <1>3, WriteOutcome DEF Delivered, Undelivered, GotoKeeping, Goto, TaskOK
  <2>2. UNCHANGED <<req, reply>> /\ pending' \subseteq pending
    BY <1>3, WriteOutcome DEF Delivered, Undelivered, GotoKeeping, Unwait
  <2>3. IdsUsed' /\ IdsUnique'
    BY <1>1, <2>2 DEF Core, IdsUsed, IdsUnique
  <2>4. EntriesOwned'
    BY <2>1, <2>2 DEF Core, EntriesOwned, IsWaiting, Waiting, WireOK, Kinds
  <2>5. MessagesOwned'
    <3>1. CASE inbox' \subseteq inbox
      BY <1>1, <2>2, <3>1 DEF Core, MessagesOwned, Messages
    <3>2. CASE ~(inbox' \subseteq inbox)
      <4>1. Delivered(a) /\ req[a].kind # "initialized"
        BY <3>2, WriteOutcome DEF Delivered, Undelivered
      <4>2. req[a].kind \in Kinds /\ req[a].id # None /\ req[a].id < nextId
        BY <1>1, <4>1 DEF Core, WritesNumbered, IdsUsed
      <4>3. ASSUME NEW m \in Messages'
            PROVE  m \in Messages \/ (m.id = req[a].id /\ m.of = a /\ m.kind = req[a].kind)
        <5>1. m \in inbox' \/ m \in out
          BY <1>1 DEF Messages
        <5>2. CASE m \in inbox'
          BY <4>1, <5>2 DEF Delivered, Messages
        <5>3. QED
          BY <5>1, <5>2 DEF Messages
      <4>4. QED
        BY <1>1, <2>2, <4>2, <4>3 DEF Core, MessagesOwned, IdsUnique
    <3>3. QED
      BY <3>1, <3>2
  <2>6. WritesNumbered'
    BY <1>1, <2>1, <2>2 DEF Core, WritesNumbered
  <2>7. RepliesOwned'
    BY <1>1, <2>1, <2>2 DEF Core, RepliesOwned, Waiting
  <2>8. QED
    BY <2>3, <2>4, <2>5, <2>6, <2>7 DEF Core
<1>4. QED
  BY <1>2, <1>3

\* A task that did not wait gets the next id.
LEMMA RequestStep ==
  ASSUME TaskOK, WireOK, Core, NEW a \in Actors, NEW kind \in Kinds,
         pc[a] \notin Waiting, Request(a, kind), inbox' = inbox, out' = out
  PROVE  Core'
<1> DEFINE id == nextId
<1>1. /\ nextId \in Nat /\ nextId' = nextId + 1
      /\ pc'[a] = "write" /\ req'[a] = [id |-> id, kind |-> kind] /\ reply'[a] = NoReply
      /\ pending' \subseteq pending \cup {[id |-> id, who |-> a]}
  BY DEF Request, Goto, TaskOK, WireOK
<1>2. \A b \in Actors \ {a} : pc'[b] = pc[b] /\ req'[b] = req[b] /\ reply'[b] = reply[b]
  BY DEF Request, Goto, TaskOK
<1>3. \A b \in Actors : req[b].id \in Nat
  BY DEF TaskOK
<1>4. IdsUsed'
  BY <1>1, <1>2, <1>3 DEF Core, IdsUsed
<1>5. IdsUnique'
  <2>1. \A b \in Actors \ {a} : req'[b].kind \in Kinds => req'[b].id # req'[a].id
    BY <1>1, <1>2, <1>3 DEF Core, IdsUsed
  <2>2. QED
    BY <2>1, <1>2 DEF Core, IdsUnique
<1>6. EntriesOwned'
  <2>1. \A p \in pending : p.who # a
    BY NoEntry DEF Core
  <2>2. \A p \in pending : IsWaiting(p)'
    BY <1>2, <2>1 DEF Core, EntriesOwned, IsWaiting, WireOK
  <2>3. pc'[a] \in Waiting /\ req'[a].id = nextId /\ req'[a].kind \in Kinds
    BY <1>1 DEF Waiting
  <2>4. ASSUME NEW p \in pending'
        PROVE  pc'[p.who] \in Waiting /\ req'[p.who].id = p.id
                 /\ req'[p.who].kind \in Kinds
    <3>1. CASE p \in pending
      BY <2>2, <3>1 DEF IsWaiting
    <3>2. CASE p = [id |-> nextId, who |-> a]
      <4>1. p.who = a /\ p.id = nextId
        BY <3>2
      <4>2. QED
        BY <4>1, <2>3
    <3>3. QED
      BY <1>1, <3>1, <3>2
  <2>5. QED
    BY <2>4 DEF EntriesOwned, IsWaiting
<1>7. MessagesOwned'
  <2>1. Messages' = Messages
    BY DEF Messages
  <2>2. \A m \in Messages : m.id \in Nat /\ m.id # None /\ m.id < nextId
    BY DEF Core, MessagesOwned, Messages, WireOK
  <2>3. \A m \in Messages : m.id < nextId' /\ m.id # req'[a].id
    BY <1>1, <2>2
  <2>4. QED
    BY <1>2, <2>1, <2>2, <2>3 DEF Core, MessagesOwned
<1>8. WritesNumbered'
  BY <1>1, <1>2 DEF Core, WritesNumbered, IdsUsed, None
<1>9. RepliesOwned'
  BY <1>1, <1>2 DEF Core, RepliesOwned
<1>10. QED
  BY <1>4, <1>5, <1>6, <1>7, <1>8, <1>9 DEF Core

\* Every step keeps the routing.
LEMMA CoreStep ==
  TaskOK /\ TaskOK' /\ WireOK /\ HandleOK /\ RetriesLast /\ Core /\ [Next]_vars => Core'
<1> SUFFICES ASSUME TaskOK, TaskOK', WireOK, HandleOK, RetriesLast, Core, [Next]_vars
             PROVE  Core'
  OBVIOUS
<1>0. \A c \in Callers : c \in Actors
  BY DEF Actors
<1>1. ASSUME NEW a \in Actors, Writing(a) PROVE Core'
  BY <1>1, WriteStep
<1>2. ASSUME NEW a \in Actors, Restart(a) PROVE Core'
  <2>1. pc[a] \notin Waiting
    BY <1>2 DEF Restart, Waiting
  <2>2. \A p \in pending : p.who # a
    BY <2>1, NoEntry DEF Core
  <2>3. /\ nextId' = nextId /\ pending' \subseteq pending
        /\ inbox' \subseteq inbox /\ out' \subseteq out
    BY <1>2 DEF Restart, Kill, wireVars
  <2>4. Return(a) \/ \E l \in Places \ Waiting : Moves(a, l)
    BY <1>2 DEF Restart, Moves, GotoKeeping, Places, Waiting
  <2>5. QED
    BY <2>2, <2>3, <2>4, LeaveStep
<1>3. ASSUME NEW a \in Actors, SetStopped(a) PROVE Core'
  <2>1. pc[a] \notin Waiting
    BY <1>3 DEF SetStopped, Waiting
  <2>2. \A p \in pending : p.who # a
    BY <2>1, NoEntry DEF Core
  <2>3. /\ nextId' = nextId /\ pending' \subseteq pending
        /\ inbox' \subseteq inbox /\ out' \subseteq out
    BY <1>3 DEF SetStopped, Kill, wireVars
  <2>4. Return(a) \/ \E l \in Places \ Waiting : Moves(a, l)
    BY <1>3 DEF SetStopped, Moves, GotoKeeping, Places, Waiting
  <2>5. QED
    BY <2>2, <2>3, <2>4, LeaveStep
<1>4. ASSUME NEW a \in Actors, CloseStdin(a) PROVE Core'
  <2>1. pc[a] \notin Waiting
    BY <1>4 DEF CloseStdin, Waiting
  <2>2. \A p \in pending : p.who # a
    BY <2>1, NoEntry DEF Core
  <2>3. /\ nextId' = nextId /\ pending' \subseteq pending
        /\ inbox' \subseteq inbox /\ out' \subseteq out
    BY <1>4 DEF CloseStdin, Kill, wireVars
  <2>4. Return(a) \/ \E l \in Places \ Waiting : Moves(a, l)
    BY <1>4 DEF CloseStdin, Moves, GotoKeeping, Places, Waiting
  <2>5. QED
    BY <2>2, <2>3, <2>4, LeaveStep
<1>5. ASSUME NEW a \in Actors, AbortReader(a) PROVE Core'
  <2>1. pc[a] \notin Waiting
    BY <1>5 DEF AbortReader, Waiting
  <2>2. \A p \in pending : p.who # a
    BY <2>1, NoEntry DEF Core
  <2>3. /\ nextId' = nextId /\ pending' \subseteq pending
        /\ inbox' \subseteq inbox /\ out' \subseteq out
    BY <1>5 DEF AbortReader, Kill, wireVars
  <2>4. Return(a) \/ \E l \in Places \ Waiting : Moves(a, l)
    BY <1>5 DEF AbortReader, Moves, GotoKeeping, Places, Waiting
  <2>5. QED
    BY <2>2, <2>3, <2>4, LeaveStep
<1>6. ASSUME NEW a \in Actors, Reap(a) PROVE Core'
  <2>1. pc[a] \notin Waiting
    BY <1>6 DEF Reap, Waiting
  <2>2. \A p \in pending : p.who # a
    BY <2>1, NoEntry DEF Core
  <2>3. UNCHANGED <<nextId, pending, inbox, out>>
    BY <1>6 DEF Reap, wireVars
  <2>4. CASE AfterShutdown(a)
    <3>1. Return(a) \/ \E l \in Places \ Waiting : Moves(a, l)
      BY <2>4 DEF AfterShutdown, Moves, Places, Waiting
    <3>2. QED
      BY <2>2, <2>3, <3>1, LeaveStep
  <2>5. CASE child # None
    <3>1. /\ pc' = [pc EXCEPT ![a] = "reaping"] /\ reply' = reply
          /\ req' = [req EXCEPT ![a] = [id |-> child, kind |-> "reap"]]
      BY <1>6, <2>5 DEF Reap, Goto
    <3>2. pc'[a] = "reaping" /\ req'[a].kind = "reap"
      BY <3>1 DEF TaskOK
    <3>3. \A b \in Actors \ {a} : pc'[b] = pc[b] /\ req'[b] = req[b] /\ reply'[b] = reply[b]
      BY <3>1 DEF TaskOK
    <3>4. pc'[a] \notin Waiting /\ req'[a].kind \notin Kinds
      BY <3>2 DEF Waiting, Kinds
    <3>5. QED
      BY <2>2, <2>3, <3>3, <3>4, CalmStep
  <2>6. QED
    BY <1>6, <2>4, <2>5 DEF Reap
<1>7. ASSUME NEW a \in Actors, Spawn(a) PROVE Core'
  <2>1. pc[a] \notin Waiting /\ pc'[a] \notin Waiting /\ req'[a].kind \notin Kinds
    BY <1>7 DEF Spawn, Goto, TaskOK, Waiting, Kinds
  <2>2. \A b \in Actors \ {a} : pc'[b] = pc[b] /\ req'[b] = req[b]
    BY <1>7 DEF Spawn, Goto, TaskOK
  <2>3. \A p \in pending : p.who # a
    BY <2>1, NoEntry DEF Core
  <2>4. UNCHANGED <<nextId, pending, out, reply>> /\ inbox' \subseteq inbox
    BY <1>7 DEF Spawn, wireVars
  <2>5. QED
    BY <2>1, <2>2, <2>3, <2>4, CalmStep
<1>8. ASSUME NEW a \in Actors, SpawnFails(a) PROVE Core'
  <2>1. pc[a] \notin Waiting
    BY <1>8 DEF SpawnFails, Waiting
  <2>2. \A p \in pending : p.who # a
    BY <2>1, NoEntry DEF Core
  <2>3. /\ nextId' = nextId /\ pending' \subseteq pending
        /\ inbox' \subseteq inbox /\ out' \subseteq out
    BY <1>8 DEF SpawnFails, Kill, wireVars
  <2>4. Return(a) \/ \E l \in Places \ Waiting : Moves(a, l)
    BY <1>8 DEF SpawnFails, Moves, GotoKeeping, Places, Waiting
  <2>5. QED
    BY <2>2, <2>3, <2>4, LeaveStep
<1>9. ASSUME NEW a \in Actors, Wire(a) PROVE Core'
  <2>1. pc[a] \notin Waiting
    BY <1>9 DEF Wire, Waiting
  <2>2. \A p \in pending : p.who # a
    BY <2>1, NoEntry DEF Core
  <2>3. /\ nextId' = nextId /\ pending' \subseteq pending
        /\ inbox' \subseteq inbox /\ out' \subseteq out
    BY <1>9 DEF Wire, Kill, wireVars
  <2>4. Return(a) \/ \E l \in Places \ Waiting : Moves(a, l)
    BY <1>9 DEF Wire, Moves, GotoKeeping, Places, Waiting
  <2>5. QED
    BY <2>2, <2>3, <2>4, LeaveStep
<1>10. ASSUME NEW a \in Actors, Read(a) PROVE Core'
  <2>1. pc[a] \notin Waiting /\ Request(a, "initialize") /\ inbox' = inbox /\ out' = out
    BY <1>10 DEF Read, Waiting
  <2>2. QED
    BY <2>1, RequestStep DEF Kinds
<1>11. ASSUME NEW a \in Actors, Initialized(a) PROVE Core'
  <2>1. \A p \in pending : p.who # a
    BY <1>11 DEF Initialized, Succeeds, Core, RepliesOwned, Waiting
  <2>2. UNCHANGED <<nextId, pending, inbox, out>>
    BY <1>11 DEF Initialized, Succeeds
  <2>3. req'[a].kind = "initialized" /\ req'[a].kind \notin Kinds /\ reply'[a] = NoReply
    BY <1>11 DEF Initialized, TaskOK, Kinds
  <2>4. \A b \in Actors \ {a} : pc'[b] = pc[b] /\ req'[b] = req[b] /\ reply'[b] = reply[b]
    BY <1>11 DEF Initialized, Goto, TaskOK
  <2>5. QED
    BY <2>1, <2>2, <2>3, <2>4, CalmStep
<1>12. ASSUME NEW a \in Actors, InitializeFails(a) PROVE Core'
  <2>1. pending' \subseteq pending /\ \A p \in pending' : p.who # a
    BY <1>12, <1>0, UnwaitNoEntry DEF InitializeFails, Fails, Core
  <2>2. nextId' = nextId /\ inbox' \subseteq inbox /\ out' \subseteq out
    BY <1>12 DEF InitializeFails
  <2>3. Return(a) \/ \E l \in Places \ Waiting : Moves(a, l)
    BY <1>12 DEF InitializeFails, Moves, Places, Waiting
  <2>4. QED
    BY <2>1, <2>2, <2>3, <1>0, LeaveStep
<1>13. ASSUME NEW c \in Callers, Begin(c) PROVE Core'
  <2>1. pc[c] \notin Waiting
    BY <1>13 DEF Begin, Waiting
  <2>2. \A p \in pending : p.who # c
    BY <2>1, <1>0, NoEntry DEF Core
  <2>3. /\ nextId' = nextId /\ pending' \subseteq pending
        /\ inbox' \subseteq inbox /\ out' \subseteq out
    BY <1>13 DEF Begin, Kill, wireVars
  <2>4. Return(c) \/ \E l \in Places \ Waiting : Moves(c, l)
    BY <1>13 DEF Begin, Moves, GotoKeeping, Places, Waiting
  <2>5. QED
    BY <2>2, <2>3, <2>4, <1>0, LeaveStep
<1>14. ASSUME NEW c \in Callers, Check(c) PROVE Core'
  <2>1. pc[c] \notin Waiting /\ pc'[c] \notin Waiting
    BY <1>14, <1>0 DEF Check, Goto, Return, TaskOK, Waiting, HandleOK
  <2>2. \A b \in Actors \ {c} : pc'[b] = pc[b] /\ req'[b] = req[b] /\ reply'[b] = reply[b]
    BY <1>14 DEF Check, Goto, Return, TaskOK
  <2>3. req'[c] = req[c] \/ req'[c].kind \notin Kinds
    <3>1. CASE state = "Stopped"
      <4>1. req'[c] = NoReq
        BY <1>14, <1>0, <3>1 DEF Check, Return, TaskOK
      <4>2. QED
        BY <4>1 DEF NoReq, Kinds
    <3>2. CASE state # "Stopped"
      BY <1>14, <3>2 DEF Check
    <3>3. QED
      BY <3>1, <3>2
  <2>4. \A p \in pending : p.who # c
    BY <2>1, <1>0, NoEntry DEF Core
  <2>5. UNCHANGED <<nextId, pending, inbox, out>>
    BY <1>14 DEF Check, wireVars
  <2>6. QED
    BY <2>1, <2>2, <2>3, <2>4, <2>5, CalmStep
<1>15. ASSUME NEW c \in Callers, Poll(c) PROVE Core'
  <2>1. pc[c] \notin Waiting
    BY <1>15 DEF Poll, Waiting
  <2>2. \A p \in pending : p.who # c
    BY <2>1, <1>0, NoEntry DEF Core
  <2>3. /\ nextId' = nextId /\ pending' \subseteq pending
        /\ inbox' \subseteq inbox /\ out' \subseteq out
    BY <1>15 DEF Poll, Kill, wireVars
  <2>4. Return(c) \/ \E l \in Places \ Waiting : Moves(c, l)
    BY <1>15 DEF Poll, Moves, GotoKeeping, Places, Waiting
  <2>5. QED
    BY <2>2, <2>3, <2>4, <1>0, LeaveStep
<1>16. ASSUME NEW c \in Callers, CallTool(c) PROVE Core'
  <2>1. pc[c] \notin Waiting /\ inbox' = inbox /\ out' = out
    BY <1>16 DEF CallTool, Waiting
  <2>2. CASE Request(c, "tool")
    BY <2>1, <2>2, <1>0, RequestStep DEF Kinds
  <2>3. CASE state # "Healthy"
    <3>1. pc'[c] = "await" /\ req'[c] = [id |-> None, kind |-> "tool"] /\ reply'[c] = NoReply
      BY <1>16, <2>3, <1>0 DEF CallTool, Goto, TaskOK
    <3>2. \A b \in Actors \ {c} : pc'[b] = pc[b] /\ req'[b] = req[b] /\ reply'[b] = reply[b]
      BY ZenonT(60), <1>16, <2>3 DEF CallTool, Goto, TaskOK
    <3>3. \A p \in pending : p.who # c
      BY <2>1, <1>0, NoEntry DEF Core
    <3>4. UNCHANGED <<nextId, pending, inbox, out>>
      BY <1>16, <2>3 DEF CallTool
    <3>5. IdsUsed'
      BY <3>1, <3>2, <3>4 DEF Core, IdsUsed, None, WireOK
    <3>6. IdsUnique'
      BY <3>1, <3>2 DEF Core, IdsUnique
    <3>7. EntriesOwned'
      BY <3>2, <3>3, <3>4 DEF Core, EntriesOwned, IsWaiting, WireOK
    <3>8. MessagesOwned'
      BY <3>1, <3>2, <3>4 DEF Core, MessagesOwned, Messages
    <3>9. WritesNumbered' /\ RepliesOwned'
      BY <3>1, <3>2, <3>4 DEF Core, WritesNumbered, RepliesOwned
    <3>10. QED
      BY <3>5, <3>6, <3>7, <3>8, <3>9 DEF Core
  <2>4. QED
    BY <1>16, <2>2, <2>3 DEF CallTool
<1>17. ASSUME NEW c \in Callers, ToolOk(c) PROVE Core'
  <2>1. \A p \in pending : p.who # c
    BY <1>17, <1>0 DEF ToolOk, Succeeds, Core, RepliesOwned, Waiting
  <2>2. /\ nextId' = nextId /\ pending' \subseteq pending
        /\ inbox' \subseteq inbox /\ out' \subseteq out
    BY <1>17 DEF ToolOk, Succeeds
  <2>3. Return(c) \/ \E l \in Places \ Waiting : Moves(c, l)
    BY <1>17 DEF ToolOk
  <2>4. QED
    BY <2>1, <2>2, <2>3, <1>0, LeaveStep
<1>18. ASSUME NEW c \in Callers, ToolFails(c) PROVE Core'
  <2>1. pending' \subseteq pending /\ \A p \in pending' : p.who # c
    BY <1>18, <1>0, UnwaitNoEntry DEF ToolFails, Fails, Core
  <2>2. nextId' = nextId /\ inbox' \subseteq inbox /\ out' \subseteq out
    BY <1>18 DEF ToolFails
  <2>3. Return(c) \/ \E l \in Places \ Waiting : Moves(c, l)
    BY <1>18 DEF ToolFails, Moves, Places, Waiting
  <2>4. QED
    BY <2>1, <2>2, <2>3, <1>0, LeaveStep
<1>19. CASE Ping
  <2>1. "health" \in Actors /\ pc["health"] \notin Waiting /\ inbox' = inbox /\ out' = out
    BY <1>19 DEF Ping, Waiting, Actors
  <2>2. CASE Request("health", "ping")
    BY <2>1, <2>2, RequestStep DEF Kinds
  <2>3. CASE state = "Stopped"
    <3>1. pc'["health"] \notin Waiting
      BY <1>19, <2>1, <2>3 DEF Ping, Goto, TaskOK, Waiting
    <3>2. \A b \in Actors \ {"health"} : pc'[b] = pc[b]
      BY <1>19, <2>3 DEF Ping, Goto, TaskOK
    <3>3. \A p \in pending : p.who # "health"
      BY <2>1, NoEntry DEF Core
    <3>4. UNCHANGED <<nextId, pending, req, reply>>
      BY <1>19, <2>3 DEF Ping
    <3>5. QED
      BY <2>1, <3>1, <3>2, <3>3, <3>4, CalmStep
  <2>4. QED
    BY <1>19, <2>2, <2>3 DEF Ping
<1>20. CASE Pinged
  <2>1. "health" \in Actors
    BY DEF Actors
  <2>2. pending' \subseteq pending /\ \A p \in pending' : p.who # "health"
    <3>1. CASE Succeeds("health", "ping")
      BY <2>1, <3>1 DEF Succeeds, Core, RepliesOwned, Waiting
    <3>2. CASE Fails("health", "ping")
      BY <2>1, <3>2, UnwaitNoEntry DEF Fails, Core
    <3>3. QED
      BY <1>20, <3>1, <3>2 DEF Pinged
  <2>3. nextId' = nextId /\ inbox' \subseteq inbox /\ out' \subseteq out
    BY <1>20 DEF Pinged
  <2>4. Return("health") \/ \E l \in Places \ Waiting : Moves("health", l)
    BY <1>20 DEF Pinged, Moves, Places, Waiting
  <2>5. QED
    BY <2>1, <2>2, <2>3, <2>4, LeaveStep
<1>21. CASE Stop
  <2>1. "stop" \in Actors /\ pc["stop"] \notin Waiting
    BY <1>21 DEF Stop, Waiting, Actors
  <2>2. GotoKeeping("stop", "stop") /\ UNCHANGED <<nextId, pending, inbox, out>>
    BY <1>21 DEF Stop, GotoKeeping, wireVars
  <2>3. \A p \in pending : p.who # "stop"
    BY <2>1, NoEntry DEF Core
  <2>4. QED
    BY <2>1, <2>2, <2>3, LeaveStep DEF Moves, Places, Waiting
<1>22. CASE Drop
  BY <1>22, CalmStep DEF Drop, Kill, taskVars
<1>23. ASSUME NEW m \in inbox, Serve(m) PROVE Core'
  <2>1. UNCHANGED <<nextId, pending, pc, req, reply>>
    BY <1>23 DEF Serve, taskVars
  <2>2. \A n \in Messages' : \E k \in Messages : n.id = k.id /\ n.of = k.of /\ n.kind = k.kind
    BY <1>23 DEF Serve, Messages
  <2>3. MessagesOwned'
    BY <2>1, <2>2 DEF Core, MessagesOwned
  <2>4. QED
    BY <2>1, <2>3 DEF Core, IdsUsed, IdsUnique, EntriesOwned, IsWaiting, WritesNumbered,
                      RepliesOwned
<1>24. ASSUME NEW p \in procs, Dies(p) PROVE Core'
  BY <1>24, CalmStep DEF Dies, Kill, taskVars
<1>25. ASSUME NEW m \in out, Route(m) PROVE Core'
  <2>1. UNCHANGED <<nextId, inbox, pc, req>> /\ out' \subseteq out
    BY <1>25 DEF Route
  <2>2. pending' = {p \in pending : p.id # m.id}
    BY <1>25 DEF Route
  <2>3. IdsUsed' /\ IdsUnique' /\ WritesNumbered'
    BY <2>1 DEF Core, IdsUsed, IdsUnique, WritesNumbered
  <2>4. EntriesOwned'
    BY <2>1, <2>2 DEF Core, EntriesOwned, IsWaiting
  <2>5. MessagesOwned'
    BY <2>1 DEF Core, MessagesOwned, Messages
  <2>6. RepliesOwned'
    <3> SUFFICES ASSUME NEW a \in Actors, pc[a] \in Waiting, reply'[a] # NoReply
                 PROVE  /\ reply'[a].of = a /\ reply'[a].kind = req[a].kind
                        /\ \A p \in pending' : p.who # a
      BY <2>1 DEF RepliesOwned
    <3>1. CASE [id |-> m.id, who |-> a] \in pending
      <4>1. reply'[a] = [of |-> m.of, kind |-> m.kind]
        BY <1>25, <3>1 DEF Route
      <4>2. req[a].id = m.id /\ req[a].kind \in Kinds
        BY <3>1 DEF Core, EntriesOwned, IsWaiting
      <4>3. m.of = a /\ m.kind = req[a].kind
        BY <4>2 DEF Core, MessagesOwned, Messages
      <4>4. \A p \in pending' : p.who # a
        BY <2>2, <4>2 DEF Core, EntriesOwned, IsWaiting
      <4>5. QED
        BY <4>1, <4>3, <4>4
    <3>2. CASE [id |-> m.id, who |-> a] \notin pending
      BY <1>25, <2>2, <3>2 DEF Route, Core, RepliesOwned
    <3>3. QED
      BY <3>1, <3>2
  <2>7. QED
    BY <2>3, <2>4, <2>5, <2>6 DEF Core
<1>26. CASE UNCHANGED vars
  BY <1>26, CalmStep DEF vars, wireVars, taskVars
<1>27. ASSUME NEW a \in Actors, Reaped(a) PROVE Core'
  <2>1. pc[a] \notin Waiting
    BY <1>27 DEF Reaped, Waiting
  <2>2. \A p \in pending : p.who # a
    BY <2>1, <1>0, NoEntry DEF Core
  <2>3. /\ nextId' = nextId /\ pending' \subseteq pending
        /\ inbox' \subseteq inbox /\ out' \subseteq out
    BY <1>27 DEF Reaped, Kill, wireVars
  <2>4. Return(a) \/ \E l \in Places \ Waiting : Moves(a, l)
    BY <1>27 DEF Reaped, Moves, GotoKeeping, Places, Waiting, AfterShutdown
  <2>5. QED
    BY <2>2, <2>3, <2>4, <1>0, LeaveStep
<1>28. ASSUME NEW a \in Actors, Install(a) PROVE Core'
  <2>1. pc[a] \notin Waiting
    BY <1>28 DEF Install, Waiting
  <2>2. \A p \in pending : p.who # a
    BY <2>1, <1>0, NoEntry DEF Core
  <2>3. /\ nextId' = nextId /\ pending' \subseteq pending
        /\ inbox' \subseteq inbox /\ out' \subseteq out
    BY <1>28 DEF Install, Kill, wireVars
  <2>4. Return(a) \/ \E l \in Places \ Waiting : Moves(a, l)
    BY <1>28 DEF Install, Moves, GotoKeeping, Places, Waiting
  <2>5. QED
    BY <2>2, <2>3, <2>4, <1>0, LeaveStep
<1>29. ASSUME NEW a \in Actors, Ready(a) PROVE Core'
  <2>1. pc[a] \notin Waiting
    BY <1>29 DEF Ready, Waiting
  <2>2. \A p \in pending : p.who # a
    BY <2>1, <1>0, NoEntry DEF Core
  <2>3. /\ nextId' = nextId /\ pending' \subseteq pending
        /\ inbox' \subseteq inbox /\ out' \subseteq out
    BY <1>29 DEF Ready, Kill, wireVars
  <2>4. Return(a) \/ \E l \in Places \ Waiting : Moves(a, l)
    BY <1>29 DEF Ready, Moves, GotoKeeping, Places, Waiting, RetriesLast, TaskOK
  <2>5. QED
    BY <2>2, <2>3, <2>4, <1>0, LeaveStep
<1>30. ASSUME NEW c \in Callers, Acquire(c) PROVE Core'
  <2>1. pc[c] \notin Waiting
    BY <1>30 DEF Acquire, Waiting
  <2>2. \A p \in pending : p.who # c
    BY <2>1, <1>0, NoEntry DEF Core
  <2>3. /\ nextId' = nextId /\ pending' \subseteq pending
        /\ inbox' \subseteq inbox /\ out' \subseteq out
    BY <1>30 DEF Acquire, Kill, wireVars
  <2>4. Return(c) \/ \E l \in Places \ Waiting : Moves(c, l)
    BY <1>30 DEF Acquire, Moves, GotoKeeping, Places, Waiting
  <2>5. QED
    BY <2>2, <2>3, <2>4, <1>0, LeaveStep
<1>31. QED
  BY <1>1, <1>2, <1>3, <1>4, <1>5, <1>6, <1>7, <1>8, <1>9, <1>10, <1>11, <1>12, <1>13,
     <1>14, <1>15, <1>16, <1>17, <1>18, <1>19, <1>20, <1>21, <1>22, <1>23, <1>24, <1>25, <1>26,
     <1>27, <1>28, <1>29, <1>30 DEF Next, Work, Call, Writing

\* A task that moves on without giving up a retry, or ends, keeps retries last.
LEMMA RetriesLeave ==
  ASSUME TaskOK, RetriesLast, NEW a \in Actors,
         Return(a) \/ (cont[a] # "give up" /\ \E l \in Places : Moves(a, l))
  PROVE  RetriesLast'
<1>1. CASE Return(a)
  BY <1>1 DEF TaskOK, RetriesLast, Return
<1>2. CASE cont[a] # "give up" /\ \E l \in Places : Moves(a, l)
  BY <1>2 DEF TaskOK, RetriesLast, Moves, GotoKeeping, GotoAnew, Goto, Waiting
<1>3. QED
  BY <1>1, <1>2

\* Neither makes anybody else call a tool.
LEMMA ToolsLeave ==
  ASSUME TaskOK, ToolsByCallers, inbox' \subseteq inbox, NEW a \in Actors,
         Return(a) \/ \E l \in Places : Moves(a, l)
  PROVE  ToolsByCallers'
<1>1. \A b \in Actors : req'[b] = req[b] \/ req'[b] = NoReq
  <2>1. CASE Return(a)
    BY <2>1 DEF TaskOK, Return
  <2>2. CASE \E l \in Places : Moves(a, l)
    BY <2>2 DEF TaskOK, Moves, GotoKeeping, GotoAnew
  <2>3. QED
    BY <2>1, <2>2
<1>2. QED
  BY <1>1 DEF ToolsByCallers, NoReq

\* Every step keeps a retry apart from a first call.
LEMMA RetriesStep == TaskOK /\ RetriesLast /\ [Next]_vars => RetriesLast'
<1> SUFFICES ASSUME TaskOK, RetriesLast, [Next]_vars PROVE RetriesLast'
  OBVIOUS
<1>0. \A c \in Callers : c \in Actors
  BY DEF Actors
<1>1. ASSUME NEW a \in Actors, Writing(a) PROVE RetriesLast'
  <2>1. CASE Return(a)
    BY <2>1, RetriesLeave
  <2>2. CASE ~Return(a)
    <3>1. UNCHANGED <<req, cont>> /\ \A b \in Actors \ {a} : pc'[b] = pc[b]
      BY ZenonT(60), <1>1, <2>2, WriteOutcome DEF Delivered, Undelivered, GotoKeeping, Goto, TaskOK
    <3>2. req[a].kind = "tool" => pc'[a] \in Waiting
      BY <1>1, <2>2, WriteOutcome DEF Delivered, Undelivered, GotoKeeping, Goto, TaskOK,
                                      Waiting
    <3>3. QED
      BY <3>1, <3>2 DEF RetriesLast
  <2>3. QED
    BY <2>1, <2>2
<1>2. ASSUME NEW a \in Actors, Restart(a) PROVE RetriesLast'
  <2>1. a \in Actors
    BY <1>0 DEF Actors
  <2>2. Return(a) \/ (cont[a] # "give up" /\ \E l \in Places : Moves(a, l))
    BY <1>2, <2>1 DEF Restart, RetriesLast, TaskOK, Waiting, Places, Moves
  <2>3. QED
    BY <2>1, <2>2, RetriesLeave
<1>3. ASSUME NEW a \in Actors, SetStopped(a) PROVE RetriesLast'
  BY <1>3, <1>0 DEF TaskOK, RetriesLast, Waiting, Kinds, Actors, NoReq, SetStopped, Goto
<1>4. ASSUME NEW a \in Actors, CloseStdin(a) PROVE RetriesLast'
  BY <1>4, <1>0 DEF TaskOK, RetriesLast, Waiting, Kinds, Actors, NoReq, CloseStdin, Goto
<1>5. ASSUME NEW a \in Actors, AbortReader(a) PROVE RetriesLast'
  BY <1>5, <1>0 DEF TaskOK, RetriesLast, Waiting, Kinds, Actors, NoReq, AbortReader, Goto
<1>6. ASSUME NEW a \in Actors, Reap(a) PROVE RetriesLast'
  <2>1. cont[a] # "give up"
    BY <1>6 DEF Reap, RetriesLast, Waiting
  <2>2. CASE AfterShutdown(a)
    BY <2>1, <2>2, RetriesLeave DEF AfterShutdown, Moves, Places
  <2>3. CASE child # None
    BY <1>6, <2>1, <2>3 DEF Reap, Goto, RetriesLast, TaskOK
  <2>4. QED
    BY <1>6, <2>2, <2>3 DEF Reap
<1>7. ASSUME NEW a \in Actors, Spawn(a) PROVE RetriesLast'
  BY <1>7, <1>0 DEF TaskOK, RetriesLast, Waiting, Kinds, Actors, NoReq, Spawn, Goto
<1>8. ASSUME NEW a \in Actors, SpawnFails(a) PROVE RetriesLast'
  BY <1>8, <1>0 DEF TaskOK, RetriesLast, Waiting, Kinds, Actors, NoReq, SpawnFails, Return
<1>9. ASSUME NEW a \in Actors, Wire(a) PROVE RetriesLast'
  BY <1>9, <1>0 DEF TaskOK, RetriesLast, Waiting, Kinds, Actors, NoReq, Wire, Goto
<1>10. ASSUME NEW a \in Actors, Read(a) PROVE RetriesLast'
  BY <1>10, <1>0 DEF TaskOK, RetriesLast, Waiting, Kinds, Actors, NoReq, Read, Request,
                Goto
<1>11. ASSUME NEW a \in Actors, Initialized(a) PROVE RetriesLast'
  <2>1. cont[a] # "give up"
    BY <1>11 DEF Initialized, Succeeds, RetriesLast
  <2>2. QED
    BY <1>11, <2>1 DEF Initialized, Goto, RetriesLast, TaskOK
<1>12. ASSUME NEW a \in Actors, InitializeFails(a) PROVE RetriesLast'
  BY <1>12, <1>0 DEF TaskOK, RetriesLast, Waiting, Kinds, Actors, NoReq,
                InitializeFails, Fails, Return
<1>13. ASSUME NEW c \in Callers, Begin(c) PROVE RetriesLast'
  BY <1>13, <1>0 DEF TaskOK, RetriesLast, Waiting, Kinds, Actors, NoReq, Begin, Goto
<1>14. ASSUME NEW c \in Callers, Check(c) PROVE RetriesLast'
  <2>1. CASE Return(c)
    BY <1>0, <2>1, RetriesLeave
  <2>2. CASE cont' = [cont EXCEPT ![c] = "call"] /\ UNCHANGED <<req, reply>>
    <3>1. cont'[c] # "give up"
      BY <1>0, <2>2 DEF TaskOK
    <3>2. \A b \in Actors \ {c} : pc'[b] = pc[b] /\ cont'[b] = cont[b]
      BY <1>14, <2>2 DEF Check, Goto, Return, TaskOK
    <3>3. QED
      BY <2>2, <3>1, <3>2 DEF RetriesLast
  <2>3. QED
    BY <1>14, <2>1, <2>2 DEF Check
<1>15. ASSUME NEW c \in Callers, Poll(c) PROVE RetriesLast'
  <2>1. c \in Actors
    BY <1>0 DEF Actors
  <2>2. Return(c) \/ (cont[c] # "give up" /\ \E l \in Places : Moves(c, l))
    BY <1>15, <2>1 DEF Poll, RetriesLast, TaskOK, Waiting, Places, Moves
  <2>3. QED
    BY <2>1, <2>2, RetriesLeave
<1>16. ASSUME NEW c \in Callers, CallTool(c) PROVE RetriesLast'
  <2>1. pc'[c] \in Waiting /\ req'[c].kind = "tool"
    <3>1. CASE Request(c, "tool")
      BY <1>0, <3>1 DEF Request, Goto, TaskOK, Waiting
    <3>2. CASE req' = [req EXCEPT ![c] = [id |-> None, kind |-> "tool"]] /\ Goto(c, "await")
      BY <1>0, <3>2 DEF Goto, TaskOK, Waiting
    <3>3. QED
      BY <1>16, <3>1, <3>2 DEF CallTool
  <2>2. \A b \in Actors \ {c} : pc'[b] = pc[b] /\ req'[b] = req[b] /\ cont'[b] = cont[b]
    BY <1>16 DEF CallTool, Request, Goto, TaskOK
  <2>3. QED
    BY <2>1, <2>2 DEF RetriesLast
<1>17. ASSUME NEW c \in Callers, ToolOk(c) PROVE RetriesLast'
  BY <1>17, <1>0 DEF TaskOK, RetriesLast, Waiting, Kinds, Actors, NoReq, ToolOk,
                Succeeds, Return
<1>18. ASSUME NEW c \in Callers, ToolFails(c) PROVE RetriesLast'
  <2>1. c \in Actors
    BY <1>0 DEF Actors
  <2>2. Return(c) \/ (cont[c] # "give up" /\ \E l \in Places : Moves(c, l))
    BY <1>18, <2>1 DEF ToolFails, RetriesLast, TaskOK, Waiting, Places, Moves
  <2>3. QED
    BY <2>1, <2>2, RetriesLeave
<1>19. CASE Ping
  BY <1>19, <1>0 DEF TaskOK, RetriesLast, Waiting, Kinds, Actors, NoReq, Ping, Request,
                Goto
<1>20. CASE Pinged
  <2>1. "health" \in Actors
    BY <1>0 DEF Actors
  <2>2. \/ Return("health")
        \/ cont["health"] # "give up" /\ \E l \in Places : Moves("health", l)
    BY <1>20, <2>1 DEF Pinged, RetriesLast, TaskOK, Waiting, Places, Moves, Succeeds, Fails
  <2>3. QED
    BY <2>1, <2>2, RetriesLeave
<1>21. CASE Stop
  BY <1>21, <1>0 DEF TaskOK, RetriesLast, Waiting, Kinds, Actors, NoReq, Stop, Goto
<1>22. CASE Drop
  BY <1>22, <1>0 DEF TaskOK, RetriesLast, Waiting, Kinds, Actors, NoReq, Drop, taskVars
<1>23. ASSUME NEW m \in inbox, Serve(m) PROVE RetriesLast'
  BY <1>23, <1>0 DEF TaskOK, RetriesLast, Waiting, Kinds, Actors, NoReq, Serve, taskVars
<1>24. ASSUME NEW p \in procs, Dies(p) PROVE RetriesLast'
  BY <1>24, <1>0 DEF TaskOK, RetriesLast, Waiting, Kinds, Actors, NoReq, Dies, taskVars
<1>25. ASSUME NEW m \in out, Route(m) PROVE RetriesLast'
  BY <1>25, <1>0 DEF TaskOK, RetriesLast, Waiting, Kinds, Actors, NoReq, Route
<1>26. CASE UNCHANGED vars
  BY <1>26 DEF TaskOK, RetriesLast, Waiting, Kinds, Actors, NoReq, vars, taskVars,
               handleVars, wireVars, boundVars
<1>27. ASSUME NEW a \in Actors, Reaped(a) PROVE RetriesLast'
  <2>1. Return(a) \/ (cont[a] # "give up" /\ \E l \in Places : Moves(a, l))
    BY <1>27, <1>0 DEF Reaped, RetriesLast, TaskOK, Waiting, Places, Moves, GotoKeeping, AfterShutdown
  <2>2. QED
    BY <1>0, <2>1, RetriesLeave
<1>28. ASSUME NEW a \in Actors, Install(a) PROVE RetriesLast'
  <2>1. Return(a) \/ (cont[a] # "give up" /\ \E l \in Places : Moves(a, l))
    BY <1>28, <1>0 DEF Install, RetriesLast, TaskOK, Waiting, Places, Moves, GotoKeeping
  <2>2. QED
    BY <1>0, <2>1, RetriesLeave
<1>29. ASSUME NEW a \in Actors, Ready(a) PROVE RetriesLast'
  <2>1. Return(a) \/ (cont[a] # "give up" /\ \E l \in Places : Moves(a, l))
    BY <1>29, <1>0 DEF Ready, RetriesLast, TaskOK, Waiting, Places, Moves, GotoKeeping
  <2>2. QED
    BY <1>0, <2>1, RetriesLeave
<1>30. ASSUME NEW c \in Callers, Acquire(c) PROVE RetriesLast'
  <2>1. Return(c) \/ (cont[c] # "give up" /\ \E l \in Places : Moves(c, l))
    BY <1>30, <1>0 DEF Acquire, RetriesLast, TaskOK, Waiting, Places, Moves, GotoKeeping
  <2>2. QED
    BY <1>0, <2>1, RetriesLeave
<1>31. QED
  BY <1>1, <1>2, <1>3, <1>4, <1>5, <1>6, <1>7, <1>8, <1>9, <1>10, <1>11, <1>12, <1>13,
     <1>14, <1>15, <1>16, <1>17, <1>18, <1>19, <1>20, <1>21, <1>22, <1>23, <1>24, <1>25, <1>26,
     <1>27, <1>28, <1>29, <1>30 DEF Next, Work, Call, Writing

\* Every step keeps the number of the process that is being started.
LEMMA StartsStep == TaskOK /\ HandleOK /\ StartsKnown /\ [Next]_vars => StartsKnown'
<1> SUFFICES ASSUME TaskOK, HandleOK, StartsKnown, [Next]_vars PROVE StartsKnown'
  OBVIOUS
<1>0. \A c \in Callers : c \in Actors
  BY DEF Actors
<1>1. ASSUME NEW a \in Actors, Writing(a) PROVE StartsKnown'
  <2>1. spawned' = spawned
    BY <1>1, WriteOutcome
  <2>2. CASE Return(a)
    BY <2>1, <2>2 DEF Return, TaskOK, StartsKnown
  <2>3. CASE \E l \in {"blocked", "await", "ready"} : GotoKeeping(a, l)
    BY <2>1, <2>3 DEF GotoKeeping, Goto, TaskOK, StartsKnown
  <2>4. QED
    BY <1>1, <2>2, <2>3, WriteOutcome DEF Delivered, Undelivered
<1>2. ASSUME NEW a \in Actors, Restart(a) PROVE StartsKnown'
  BY ZenonT(60), <1>2, <1>0 DEF TaskOK, HandleOK, StartsKnown, Actors, Restart, GotoKeeping, Goto,
                Return, handleVars
<1>3. ASSUME NEW a \in Actors, SetStopped(a) PROVE StartsKnown'
  BY <1>3, <1>0 DEF TaskOK, HandleOK, StartsKnown, Actors, SetStopped, Goto, handleVars
<1>4. ASSUME NEW a \in Actors, CloseStdin(a) PROVE StartsKnown'
  BY <1>4, <1>0 DEF TaskOK, HandleOK, StartsKnown, Actors, CloseStdin, Goto, handleVars
<1>5. ASSUME NEW a \in Actors, AbortReader(a) PROVE StartsKnown'
  BY <1>5, <1>0 DEF TaskOK, HandleOK, StartsKnown, Actors, AbortReader, Goto, handleVars
<1>6. ASSUME NEW a \in Actors, Reap(a) PROVE StartsKnown'
  BY <1>6 DEF TaskOK, StartsKnown, Reap, AfterShutdown, GotoAnew, Goto, Return
<1>7. ASSUME NEW a \in Actors, Spawn(a) PROVE StartsKnown'
  <2>1. req'[a].id = spawned + 1 /\ spawned' = spawned + 1
    BY <1>7 DEF Spawn, TaskOK
  <2>2. \A b \in Actors \ {a} : pc'[b] = pc[b] /\ req'[b] = req[b]
    BY <1>7 DEF Spawn, Goto, TaskOK
  <2>3. spawned \in Nat
    BY DEF HandleOK
  <2>4. QED
    BY <2>1, <2>2, <2>3 DEF StartsKnown
<1>8. ASSUME NEW a \in Actors, SpawnFails(a) PROVE StartsKnown'
  BY <1>8, <1>0 DEF TaskOK, HandleOK, StartsKnown, Actors, SpawnFails, Return, handleVars
<1>9. ASSUME NEW a \in Actors, Wire(a) PROVE StartsKnown'
  BY <1>9, <1>0 DEF TaskOK, HandleOK, StartsKnown, Actors, Wire, Goto, handleVars
<1>10. ASSUME NEW a \in Actors, Read(a) PROVE StartsKnown'
  BY <1>10, <1>0 DEF TaskOK, HandleOK, StartsKnown, Actors, Read, Request, Goto,
                handleVars
<1>11. ASSUME NEW a \in Actors, Initialized(a) PROVE StartsKnown'
  BY <1>11, <1>0 DEF TaskOK, HandleOK, StartsKnown, Actors, Initialized, Succeeds,
                GotoKeeping, GotoAnew, Goto, Return, handleVars
<1>12. ASSUME NEW a \in Actors, InitializeFails(a) PROVE StartsKnown'
  BY <1>12, <1>0 DEF TaskOK, HandleOK, StartsKnown, Actors, InitializeFails, Fails,
                Return, handleVars
<1>13. ASSUME NEW c \in Callers, Begin(c) PROVE StartsKnown'
  BY <1>13, <1>0 DEF TaskOK, HandleOK, StartsKnown, Actors, Begin, Goto, handleVars
<1>14. ASSUME NEW c \in Callers, Check(c) PROVE StartsKnown'
  BY ZenonT(60), <1>14, <1>0 DEF TaskOK, HandleOK, StartsKnown, Actors, Check, Goto, Return,
                handleVars
<1>15. ASSUME NEW c \in Callers, Poll(c) PROVE StartsKnown'
  BY ZenonT(60), <1>15, <1>0 DEF TaskOK, HandleOK, StartsKnown, Actors, Poll, GotoKeeping, Goto,
                Return, handleVars
<1>16. ASSUME NEW c \in Callers, CallTool(c) PROVE StartsKnown'
  BY <1>16, <1>0 DEF TaskOK, HandleOK, StartsKnown, Actors, CallTool, Request, Goto,
                handleVars
<1>17. ASSUME NEW c \in Callers, ToolOk(c) PROVE StartsKnown'
  BY <1>17, <1>0 DEF TaskOK, HandleOK, StartsKnown, Actors, ToolOk, Succeeds, Return,
                handleVars
<1>18. ASSUME NEW c \in Callers, ToolFails(c) PROVE StartsKnown'
  BY ZenonT(60), <1>18, <1>0 DEF TaskOK, HandleOK, StartsKnown, Actors, ToolFails, Fails,
                GotoKeeping, GotoAnew, Goto, Return, handleVars
<1>19. CASE Ping
  BY <1>19, <1>0 DEF TaskOK, HandleOK, StartsKnown, Actors, Ping, Request, Goto,
                handleVars
<1>20. CASE Pinged
  BY ZenonT(60), <1>20, <1>0 DEF TaskOK, HandleOK, StartsKnown, Actors, Pinged, Succeeds, Fails,
                GotoKeeping, GotoAnew, Goto, Return, handleVars
<1>21. CASE Stop
  BY <1>21, <1>0 DEF TaskOK, HandleOK, StartsKnown, Actors, Stop, Goto, handleVars
<1>22. CASE Drop
  BY <1>22, <1>0 DEF TaskOK, HandleOK, StartsKnown, Actors, Drop, taskVars, handleVars
<1>23. ASSUME NEW m \in inbox, Serve(m) PROVE StartsKnown'
  BY <1>23, <1>0 DEF TaskOK, HandleOK, StartsKnown, Actors, Serve, taskVars, handleVars
<1>24. ASSUME NEW p \in procs, Dies(p) PROVE StartsKnown'
  BY <1>24, <1>0 DEF TaskOK, HandleOK, StartsKnown, Actors, Dies, taskVars, handleVars
<1>25. ASSUME NEW m \in out, Route(m) PROVE StartsKnown'
  BY <1>25, <1>0 DEF TaskOK, HandleOK, StartsKnown, Actors, Route, handleVars
<1>26. CASE UNCHANGED vars
  BY <1>26 DEF TaskOK, HandleOK, StartsKnown, Actors, vars, taskVars, handleVars,
               wireVars, boundVars
<1>27. ASSUME NEW a \in Actors, Reaped(a) PROVE StartsKnown'
  BY ZenonT(60), <1>27, <1>0 DEF TaskOK, HandleOK, StartsKnown, Actors, Reaped, AfterShutdown,
                GotoKeeping, GotoAnew, Goto, Return
<1>28. ASSUME NEW a \in Actors, Install(a) PROVE StartsKnown'
  BY <1>28, <1>0 DEF TaskOK, HandleOK, StartsKnown, Actors, Install, Goto
<1>29. ASSUME NEW a \in Actors, Ready(a) PROVE StartsKnown'
  BY ZenonT(60), <1>29, <1>0 DEF TaskOK, HandleOK, StartsKnown, Actors, Ready, GotoAnew, Goto,
                Return
<1>30. ASSUME NEW c \in Callers, Acquire(c) PROVE StartsKnown'
  BY <1>30, <1>0 DEF TaskOK, HandleOK, StartsKnown, Actors, Acquire, Goto, handleVars
<1>31. QED
  BY <1>1, <1>2, <1>3, <1>4, <1>5, <1>6, <1>7, <1>8, <1>9, <1>10, <1>11, <1>12, <1>13,
     <1>14, <1>15, <1>16, <1>17, <1>18, <1>19, <1>20, <1>21, <1>22, <1>23, <1>24, <1>25, <1>26,
     <1>27, <1>28, <1>29, <1>30 DEF Next, Work, Call, Writing

\* Every step leaves tool calls to the callers.
LEMMA ToolsStep == TaskOK /\ WireOK /\ RetriesLast /\ ToolsByCallers /\ [Next]_vars => ToolsByCallers'
<1> SUFFICES ASSUME TaskOK, WireOK, RetriesLast, ToolsByCallers, [Next]_vars PROVE ToolsByCallers'
  OBVIOUS
<1>0. \A c \in Callers : c \in Actors
  BY DEF Actors
<1>1. ASSUME NEW a \in Actors, Writing(a) PROVE ToolsByCallers'
  <2>1. \A b \in Actors : req'[b] = req[b] \/ req'[b] = NoReq
    BY <1>1, WriteOutcome DEF Delivered, Undelivered, GotoKeeping, Return, TaskOK
  <2>2. \A m \in inbox' : m \in inbox \/ (m.of = a /\ m.kind = req[a].kind)
    BY <1>1, WriteOutcome DEF Delivered, Undelivered
  <2>3. QED
    BY <2>1, <2>2 DEF ToolsByCallers, NoReq
<1>2. ASSUME NEW a \in Actors, Restart(a) PROVE ToolsByCallers'
  <2>1. a \in Actors
    BY <1>0 DEF Actors
  <2>2. inbox' \subseteq inbox
    BY <1>2 DEF Restart, wireVars, Kill
  <2>3. Return(a) \/ \E l \in Places : Moves(a, l)
    BY <1>2, <2>1 DEF Restart, TaskOK, Places, Moves
  <2>4. QED
    BY <2>1, <2>2, <2>3, ToolsLeave
<1>3. ASSUME NEW a \in Actors, SetStopped(a) PROVE ToolsByCallers'
  BY <1>3, <1>0 DEF TaskOK, WireOK, ToolsByCallers, Actors, NoReq, SetStopped, Goto,
                wireVars, Kill
<1>4. ASSUME NEW a \in Actors, CloseStdin(a) PROVE ToolsByCallers'
  BY <1>4, <1>0 DEF TaskOK, WireOK, ToolsByCallers, Actors, NoReq, CloseStdin, Goto,
                wireVars, Kill
<1>5. ASSUME NEW a \in Actors, AbortReader(a) PROVE ToolsByCallers'
  BY <1>5, <1>0 DEF TaskOK, WireOK, ToolsByCallers, Actors, NoReq, AbortReader, Goto,
                wireVars, Kill
<1>6. ASSUME NEW a \in Actors, Reap(a) PROVE ToolsByCallers'
  <2>1. inbox' = inbox
    BY <1>6 DEF Reap, wireVars
  <2>2. CASE AfterShutdown(a)
    BY <2>1, <2>2, ToolsLeave DEF AfterShutdown, Moves, Places
  <2>3. CASE child # None
    <3>1. req' = [req EXCEPT ![a] = [id |-> child, kind |-> "reap"]]
      BY <1>6, <2>3 DEF Reap
    <3>2. \A b \in Actors : req'[b] = req[b] \/ req'[b].kind = "reap"
      BY <3>1 DEF TaskOK
    <3>3. QED
      BY <2>1, <3>2 DEF ToolsByCallers
  <2>4. QED
    BY <1>6, <2>2, <2>3 DEF Reap
<1>7. ASSUME NEW a \in Actors, Spawn(a) PROVE ToolsByCallers'
  BY <1>7, <1>0 DEF TaskOK, WireOK, ToolsByCallers, Actors, NoReq, Spawn, Goto,
                wireVars, Kill
<1>8. ASSUME NEW a \in Actors, SpawnFails(a) PROVE ToolsByCallers'
  BY <1>8, <1>0 DEF TaskOK, WireOK, ToolsByCallers, Actors, NoReq, SpawnFails, Return,
                wireVars, Kill
<1>9. ASSUME NEW a \in Actors, Wire(a) PROVE ToolsByCallers'
  BY <1>9, <1>0 DEF TaskOK, WireOK, ToolsByCallers, Actors, NoReq, Wire, Goto, wireVars,
                Kill
<1>10. ASSUME NEW a \in Actors, Read(a) PROVE ToolsByCallers'
  BY <1>10, <1>0 DEF TaskOK, WireOK, ToolsByCallers, Actors, NoReq, Read, Request, Goto,
                wireVars, Kill
<1>11. ASSUME NEW a \in Actors, Initialized(a) PROVE ToolsByCallers'
  BY <1>11 DEF Initialized, TaskOK, ToolsByCallers
<1>12. ASSUME NEW a \in Actors, InitializeFails(a) PROVE ToolsByCallers'
  BY <1>12, <1>0 DEF TaskOK, WireOK, ToolsByCallers, Actors, NoReq, InitializeFails,
                Fails, Return, wireVars, Kill
<1>13. ASSUME NEW c \in Callers, Begin(c) PROVE ToolsByCallers'
  BY <1>13, <1>0 DEF TaskOK, WireOK, ToolsByCallers, Actors, NoReq, Begin, Goto,
                wireVars, Kill
<1>14. ASSUME NEW c \in Callers, Check(c) PROVE ToolsByCallers'
  BY <1>14, <1>0 DEF TaskOK, WireOK, ToolsByCallers, Actors, NoReq, Check, Goto, Return,
                wireVars, Kill
<1>15. ASSUME NEW c \in Callers, Poll(c) PROVE ToolsByCallers'
  BY <1>15, <1>0 DEF TaskOK, WireOK, ToolsByCallers, Actors, NoReq, Poll, GotoKeeping,
                Goto, Return, wireVars, Kill
<1>16. ASSUME NEW c \in Callers, CallTool(c) PROVE ToolsByCallers'
  BY <1>16, <1>0 DEF TaskOK, WireOK, ToolsByCallers, Actors, NoReq, CallTool, Request,
                Goto, wireVars, Kill
<1>17. ASSUME NEW c \in Callers, ToolOk(c) PROVE ToolsByCallers'
  BY <1>17, <1>0 DEF TaskOK, WireOK, ToolsByCallers, Actors, NoReq, ToolOk, Succeeds,
                Return, wireVars, Kill
<1>18. ASSUME NEW c \in Callers, ToolFails(c) PROVE ToolsByCallers'
  BY <1>18, <1>0 DEF TaskOK, WireOK, ToolsByCallers, Actors, NoReq, ToolFails, Fails,
                GotoKeeping, GotoAnew, Goto, Return, wireVars, Kill
<1>19. CASE Ping
  <2>1. inbox' = inbox
    BY <1>19 DEF Ping
  <2>2. \A b \in Actors : req'[b] = req[b] \/ req'[b].kind = "ping"
    <3>1. CASE req' = req
      BY <3>1
    <3>2. CASE Request("health", "ping")
      BY <3>2 DEF Request, TaskOK
    <3>3. QED
      BY <1>19, <3>1, <3>2 DEF Ping
  <2>3. QED
    BY <2>1, <2>2 DEF ToolsByCallers
<1>20. CASE Pinged
  <2>1. "health" \in Actors
    BY <1>0 DEF Actors
  <2>2. inbox' \subseteq inbox
    BY <1>20 DEF Pinged, wireVars, Kill
  <2>3. Return("health") \/ \E l \in Places : Moves("health", l)
    BY <1>20, <2>1 DEF Pinged, TaskOK, Places, Moves
  <2>4. QED
    BY <2>1, <2>2, <2>3, ToolsLeave
<1>21. CASE Stop
  BY <1>21, <1>0 DEF TaskOK, WireOK, ToolsByCallers, Actors, NoReq, Stop, Goto,
                wireVars, Kill
<1>22. CASE Drop
  BY <1>22, <1>0 DEF TaskOK, WireOK, ToolsByCallers, Actors, NoReq, Drop, taskVars,
                wireVars, Kill
<1>23. ASSUME NEW m \in inbox, Serve(m) PROVE ToolsByCallers'
  BY <1>23, <1>0 DEF TaskOK, WireOK, ToolsByCallers, Actors, NoReq, Serve, taskVars,
                wireVars, Kill
<1>24. ASSUME NEW p \in procs, Dies(p) PROVE ToolsByCallers'
  BY <1>24, <1>0 DEF TaskOK, WireOK, ToolsByCallers, Actors, NoReq, Dies, taskVars,
                wireVars, Kill
<1>25. ASSUME NEW m \in out, Route(m) PROVE ToolsByCallers'
  BY <1>25, <1>0 DEF TaskOK, WireOK, ToolsByCallers, Actors, NoReq, Route, wireVars, Kill
<1>26. CASE UNCHANGED vars
  BY <1>26 DEF TaskOK, WireOK, ToolsByCallers, Actors, NoReq, vars, taskVars,
               handleVars, wireVars, boundVars
<1>27. ASSUME NEW a \in Actors, Reaped(a) PROVE ToolsByCallers'
  <2>1. inbox' \subseteq inbox
    BY <1>27 DEF Reaped, wireVars, Kill
  <2>2. Return(a) \/ \E l \in Places : Moves(a, l)
    BY <1>27, <1>0 DEF Reaped, TaskOK, Places, Moves, GotoKeeping, AfterShutdown
  <2>3. QED
    BY <1>0, <2>1, <2>2, ToolsLeave
<1>28. ASSUME NEW a \in Actors, Install(a) PROVE ToolsByCallers'
  <2>1. inbox' \subseteq inbox
    BY <1>28 DEF Install, wireVars, Kill
  <2>2. Return(a) \/ \E l \in Places : Moves(a, l)
    BY <1>28, <1>0 DEF Install, TaskOK, Places, Moves, GotoKeeping
  <2>3. QED
    BY <1>0, <2>1, <2>2, ToolsLeave
<1>29. ASSUME NEW a \in Actors, Ready(a) PROVE ToolsByCallers'
  <2>1. inbox' \subseteq inbox
    BY <1>29 DEF Ready, wireVars, Kill
  <2>2. Return(a) \/ \E l \in Places : Moves(a, l)
    BY <1>29, <1>0 DEF Ready, TaskOK, Places, Moves, GotoKeeping, RetriesLast, Waiting
  <2>3. QED
    BY <1>0, <2>1, <2>2, ToolsLeave
<1>30. ASSUME NEW c \in Callers, Acquire(c) PROVE ToolsByCallers'
  <2>1. inbox' \subseteq inbox
    BY <1>30 DEF Acquire, wireVars, Kill
  <2>2. Return(c) \/ \E l \in Places : Moves(c, l)
    BY <1>30, <1>0 DEF Acquire, TaskOK, Places, Moves, GotoKeeping
  <2>3. QED
    BY <1>0, <2>1, <2>2, ToolsLeave
<1>31. QED
  BY <1>1, <1>2, <1>3, <1>4, <1>5, <1>6, <1>7, <1>8, <1>9, <1>10, <1>11, <1>12, <1>13,
     <1>14, <1>15, <1>16, <1>17, <1>18, <1>19, <1>20, <1>21, <1>22, <1>23, <1>24, <1>25, <1>26,
     <1>27, <1>28, <1>29, <1>30 DEF Next, Work, Call, Writing

\* Only ToolOk gives a caller a result, and it gives the reply it holds.
LEMMA AnswerStep ==
  TaskOK /\ CountOK /\ RepliesOwned /\ AnswersMatch /\ [Next]_vars => AnswersMatch'
<1> SUFFICES ASSUME TaskOK, CountOK, RepliesOwned, AnswersMatch, [Next]_vars
             PROVE  AnswersMatch'
  OBVIOUS
<1>1. CASE result' = result
  BY <1>1 DEF AnswersMatch
<1>2. ASSUME NEW c \in Callers, ToolOk(c) PROVE AnswersMatch'
  <2>1. reply[c].of = c /\ reply[c].kind = "tool"
    BY <1>2 DEF ToolOk, Succeeds, RepliesOwned, Waiting, Actors
  <2>2. result'[c] = reply[c]
    BY <1>2 DEF ToolOk, CountOK
  <2>3. \A d \in Callers \ {c} : result'[d] = result[d]
    BY <1>2 DEF ToolOk, CountOK
  <2>4. QED
    BY <2>1, <2>2, <2>3 DEF AnswersMatch
<1>3. result' = result \/ \E c \in Callers : ToolOk(c)
  <2>1. ASSUME NEW a \in Actors, Work(a) PROVE result' = result
    BY <2>1 DEF Work, Write, PipeBreaks, Restart, SetStopped, CloseStdin, AbortReader,
                Reap, Reaped, Spawn, SpawnFails, Install, Wire, Read, Initialized,
                InitializeFails, Ready, boundVars
  <2>2. ASSUME NEW c \in Callers, Begin(c) \/ Call(c)
        PROVE  result' = result \/ ToolOk(c)
    BY <2>2 DEF Begin, Call, Acquire, Check, Poll, CallTool, ToolFails, boundVars
  <2>3. ASSUME Ping \/ Pinged \/ Stop \/ Drop \/ (\E a \in Actors : Unblocked(a))
        PROVE  result' = result
    BY <2>3 DEF Ping, Pinged, Stop, Drop, Unblocked, boundVars
  <2>4. ASSUME NEW m, Serve(m) \/ Dies(m) \/ Route(m) PROVE result' = result
    BY <2>4 DEF Serve, Dies, Route, boundVars
  <2>5. CASE UNCHANGED vars
    BY <2>5 DEF vars, boundVars
  <2>6. QED
    BY <2>1, <2>2, <2>3, <2>4, <2>5 DEF Next
<1>4. QED
  BY <1>1, <1>2, <1>3

\* The handle of a started or a failed server satisfies the invariant.
LEMMA RoutingInit == Init => RoutingInv
<1> SUFFICES ASSUME Init PROVE RoutingInv
  OBVIOUS
<1>1. HandleOK /\ WireOK /\ CountOK
  BY DEF Init, HandleOK, WireOK, CountOK, None, Reply
<1>2. TaskOK
  BY DEF Init, TaskOK, Places, NoReq, Reply, None, ReqKinds, Actors
<1>3. \A a \in Actors : /\ pc[a] = "idle" /\ req[a] = NoReq /\ reply[a] = NoReply
                        /\ cont[a] = "none"
  BY DEF Init
<1>4. nextId = 2 /\ pending = {} /\ inbox = {} /\ out = {}
  BY DEF Init
<1>5. RetriesLast /\ StartsKnown /\ ToolsByCallers
  <2>1. RetriesLast /\ StartsKnown
    BY <1>3 DEF RetriesLast, StartsKnown
  <2>2. ToolsByCallers
    BY <1>3, <1>4 DEF ToolsByCallers, NoReq
  <2>3. QED
    BY <2>1, <2>2
<1>6. IdsUsed /\ IdsUnique /\ EntriesOwned /\ MessagesOwned
  BY <1>3, <1>4 DEF IdsUsed, IdsUnique, EntriesOwned, MessagesOwned, Messages, NoReq,
                Kinds
<1>7. WritesNumbered /\ RepliesOwned
  BY <1>3 DEF WritesNumbered, RepliesOwned, Waiting
<1>8. AnswersMatch
  BY DEF Init, AnswersMatch
<1>9. QED
  BY <1>1, <1>2, <1>5, <1>6, <1>7, <1>8, TypeParts DEF RoutingInv

\* RoutingInv is inductive: ids are never used twice, so an answer carries the
\* id of at most one waiting task, the one whose request it answers.
THEOREM RoutingInvariant == Spec => []RoutingInv
<1>1. RoutingInv /\ [Next]_vars => RoutingInv'
  <2> SUFFICES ASSUME RoutingInv, [Next]_vars PROVE RoutingInv'
    OBVIOUS
  <2>1. HandleOK /\ WireOK /\ TaskOK /\ CountOK
    BY TypeParts DEF RoutingInv
  <2>2. Core /\ RetriesLast /\ StartsKnown /\ ToolsByCallers /\ AnswersMatch
    BY DEF RoutingInv, Core
  <2>3. HandleOK' /\ WireOK' /\ TaskOK' /\ CountOK'
    BY <2>1, <2>2, HandleTypes, WireTypes, TaskTypes, CountTypes DEF Core
  <2>4. Core'
    BY <2>1, <2>2, <2>3, CoreStep
  <2>5. RetriesLast' /\ StartsKnown' /\ ToolsByCallers' /\ AnswersMatch'
    BY <2>1, <2>2, RetriesStep, StartsStep, ToolsStep, AnswerStep DEF Core
  <2>6. TypeOK'
    BY <2>3 DEF TypeOK, HandleOK, WireOK, TaskOK, CountOK, Processes
  <2>7. QED
    BY <2>4, <2>5, <2>6 DEF RoutingInv, Core
<1>2. QED
  BY <1>1, RoutingInit, PTL DEF Spec

\* Whatever the callers, the limits and the interleaving, every variable of the
\* handle, of its tasks and of the pipes keeps its type.
THEOREM HandleTypeCorrect == Spec => []TypeOK
<1>1. RoutingInv => TypeOK
  BY DEF RoutingInv
<1>2. QED
  BY <1>1, RoutingInvariant, PTL

\* call_tool_with_limit returns to each of any number of callers the answer to
\* its own call, across restarts, late answers and timeouts.
THEOREM AnswersRouted == Spec => []AnswersMatch
<1>1. RoutingInv => AnswersMatch
  BY DEF RoutingInv
<1>2. QED
  BY <1>1, RoutingInvariant, PTL

-----------------------------------------------------------------------------
(* The processes *)

\* A step of one task changes no other task's place, request or count.
LEMMA Elsewhere ==
  ASSUME TaskOK, NEW a \in Actors,
         Work(a) \/ Unblocked(a) \/ (a \in Callers /\ (Begin(a) \/ Call(a)))
  PROVE  /\ \A b \in Actors \ {a} :
              pc'[b] = pc[b] /\ cont'[b] = cont[b] /\ req'[b] = req[b]
         /\ runs' = runs
         /\ inbox' \subseteq inbox \/ Writing(a)
<1>1. CASE Writing(a)
  <2>1. runs' = runs
    BY <1>1, WriteOutcome
  <2>2. CASE Return(a)
    BY <1>1, <2>1, <2>2 DEF Return, TaskOK
  <2>3. CASE \E l : GotoKeeping(a, l)
    BY <1>1, <2>1, <2>3 DEF GotoKeeping, Goto, TaskOK
  <2>4. QED
    BY <1>1, <2>2, <2>3, WriteOutcome DEF Delivered, Undelivered
<1>2. CASE Restart(a)
  BY <1>2 DEF Restart, Return, GotoKeeping, Goto, TaskOK, boundVars, wireVars
<1>3. CASE SetStopped(a) \/ CloseStdin(a) \/ AbortReader(a) \/ Wire(a)
  BY <1>3 DEF SetStopped, CloseStdin, AbortReader, Wire, Goto, TaskOK, boundVars, wireVars
<1>4. CASE Reap(a)
  BY <1>4 DEF Reap, AfterShutdown, Return, GotoAnew, Goto, TaskOK, boundVars, wireVars
<1>5. CASE Reaped(a)
  BY <1>5 DEF Reaped, AfterShutdown, Kill, Return, GotoAnew, Goto, TaskOK, boundVars
<1>6. CASE Spawn(a) \/ Install(a)
  BY <1>6 DEF Spawn, Install, Kill, Goto, TaskOK, boundVars, wireVars
<1>7. CASE SpawnFails(a)
  BY <1>7 DEF SpawnFails, Return, TaskOK, boundVars, wireVars
<1>8. CASE Read(a)
  BY <1>8 DEF Read, Request, Goto, TaskOK, boundVars
<1>9. CASE Initialized(a)
  BY <1>9 DEF Initialized, Goto, TaskOK, boundVars
<1>10. CASE InitializeFails(a) \/ Ready(a)
  BY <1>10 DEF InitializeFails, Ready, Return, GotoAnew, Goto, TaskOK, boundVars, wireVars
<1>11. CASE Begin(a) \/ Acquire(a)
  BY <1>11 DEF Begin, Acquire, Goto, TaskOK, boundVars, wireVars
<1>12. CASE Check(a)
  BY <1>12 DEF Check, Return, Goto, TaskOK, boundVars, wireVars
<1>13. CASE Poll(a)
  BY <1>13 DEF Poll, Return, GotoKeeping, Goto, TaskOK, boundVars, wireVars
<1>14. CASE CallTool(a)
  BY <1>14 DEF CallTool, Request, Goto, TaskOK, boundVars
<1>15. CASE ToolOk(a)
  BY <1>15 DEF ToolOk, Return, TaskOK
<1>16. CASE ToolFails(a)
  BY <1>16 DEF ToolFails, Return, GotoAnew, Goto, TaskOK, boundVars
<1>17. QED
  BY <1>1, <1>2, <1>3, <1>4, <1>5, <1>6, <1>7, <1>8, <1>9, <1>10, <1>11, <1>12, <1>13,
     <1>14, <1>15, <1>16 DEF Work, Call, Writing

\* The steps that start, store, take or end a process.
Handling(a) == Spawn(a) \/ Install(a) \/ Reap(a) \/ Reaped(a)

\* Every other step leaves the processes, the Child and those who hold one as
\* they are.
LEMMA HoldersStay ==
  ASSUME TaskOK, [Next]_vars, ~Drop, \A a \in Actors : ~Handling(a),
         \A p \in procs : ~Dies(p)
  PROVE  UNCHANGED <<child, procs>> /\ \A b \in Holders : b \in Holders' /\ req'[b] = req[b]
<1>0. "health" \in Actors /\ "stop" \in Actors /\ \A c \in Callers : c \in Actors
  BY DEF Actors
<1>1. ASSUME NEW a \in Actors, a \notin Holders,
             \A b \in Actors \ {a} : pc'[b] = pc[b] /\ req'[b] = req[b]
      PROVE  \A b \in Holders : b \in Holders' /\ req'[b] = req[b]
  BY <1>1 DEF Holders
<1>2. ASSUME NEW a \in Actors, Work(a) \/ Unblocked(a)
      PROVE  UNCHANGED <<child, procs>> /\ a \notin Holders
  BY <1>2 DEF Handling, Work, Write, Unblocked, PipeBreaks, Restart, SetStopped, CloseStdin,
              AbortReader, SpawnFails, Wire, Read, Initialized, InitializeFails, Ready,
              Succeeds, Fails, handleVars, Holders
<1>3. ASSUME NEW c \in Callers, Begin(c) \/ Call(c)
      PROVE  UNCHANGED <<child, procs>> /\ c \notin Holders
  BY <1>3 DEF Begin, Call, Acquire, Check, Poll, CallTool, ToolOk, ToolFails, Succeeds,
              Fails, handleVars, Holders
<1>4. CASE Ping \/ Pinged
  <2>1. UNCHANGED <<child, procs>> /\ "health" \notin Holders
    BY <1>4 DEF Ping, Pinged, Succeeds, Fails, handleVars, Holders
  <2>2. ASSUME NEW b \in Actors \ {"health"} PROVE pc'[b] = pc[b] /\ req'[b] = req[b]
    <3>1. CASE Ping
      <4>1. CASE Goto("health", "restart") /\ UNCHANGED req
        BY <4>1 DEF Goto, TaskOK
      <4>2. CASE Request("health", "ping")
        BY <4>2 DEF Request, Goto, TaskOK
      <4>3. QED
        BY <3>1, <4>1, <4>2 DEF Ping
    <3>2. CASE Pinged
      BY <3>2 DEF Pinged, Return, GotoAnew, Goto, TaskOK
    <3>3. QED
      BY <1>4, <3>1, <3>2
  <2>3. QED
    BY <1>0, <1>1, <2>1, <2>2
<1>5. CASE Stop
  <2>1. /\ UNCHANGED <<child, procs>> /\ "stop" \notin Holders
        /\ \A b \in Actors \ {"stop"} : pc'[b] = pc[b] /\ req'[b] = req[b]
    BY <1>5 DEF Stop, Goto, handleVars, Holders, TaskOK
  <2>2. QED
    BY <1>0, <1>1, <2>1
<1>6. CASE UNCHANGED <<child, procs, pc, req>>
  BY <1>6 DEF Holders
<1>7. ASSUME NEW m, Serve(m) \/ Route(m) PROVE UNCHANGED <<child, procs, pc, req>>
  BY <1>7 DEF Serve, Route, handleVars, taskVars
<1>8. CASE UNCHANGED vars
  BY <1>6, <1>8 DEF vars, handleVars, taskVars
<1>9. QED
  BY <1>0, <1>1, <1>2, <1>3, <1>4, <1>5, <1>6, <1>7, <1>8, Elsewhere DEF Next

\* Any number of tasks that shut down and start one handle at the same time lose
\* no process, although one may run before it is stored and go on running after
\* it is taken: a Child that is replaced is killed, one that is taken is waited
\* for.
THEOREM NoProcessLost == Spec => []ProcessesHeld
<1>1. Init => ProcessesHeld
  BY DEF Init, ProcessesHeld
<1>2. TaskOK /\ HandleOK /\ ProcessesHeld /\ [Next]_vars => ProcessesHeld'
  <2> SUFFICES ASSUME TaskOK, HandleOK, ProcessesHeld, [Next]_vars PROVE ProcessesHeld'
    OBVIOUS
  <2>1. ASSUME NEW P, procs' = procs \ P,
               \A b \in Holders : (b \in Holders' /\ req'[b] = req[b]) \/ req[b].id \in P
                                   \/ req[b].id = child',
               child' = child \/ child \in P \/ child \notin procs
                 \/ \E b \in Holders' : req'[b].id = child
        PROVE  ProcessesHeld'
    BY <2>1 DEF ProcessesHeld
  <2>2. ASSUME NEW a \in Actors, Spawn(a) PROVE ProcessesHeld'
    <3>1. /\ a \in Holders' /\ req'[a].id = spawned + 1 /\ a \notin Holders
          /\ \A b \in Actors \ {a} : pc'[b] = pc[b] /\ req'[b] = req[b]
      BY <2>2 DEF Spawn, Goto, Holders, TaskOK
    <3>2. procs' = procs \cup {spawned + 1} /\ child' = child
      BY <2>2 DEF Spawn
    <3>3. \A b \in Holders : b \in Holders' /\ req'[b] = req[b]
      BY <3>1 DEF Holders
    <3>4. QED
      BY <3>1, <3>2, <3>3 DEF ProcessesHeld
  <2>3. ASSUME NEW a \in Actors, Install(a) PROVE ProcessesHeld'
    <3>1. /\ \A b \in Actors \ {a} : pc'[b] = pc[b] /\ req'[b] = req[b]
          /\ child' = req[a].id /\ procs' = procs \ {child}
      BY <2>3 DEF Install, Kill, Goto, TaskOK
    <3>2. \A b \in Holders \ {a} : b \in Holders' /\ req'[b] = req[b]
      BY <3>1 DEF Holders
    <3>3. QED
      BY <2>1, <3>1, <3>2
  <2>4. ASSUME NEW a \in Actors, Reap(a) PROVE ProcessesHeld'
    <3>1. a \notin Holders /\ procs' = procs /\ child' = None
      BY <2>4 DEF Reap, Holders
    <3>2. \A b \in Actors \ {a} : pc'[b] = pc[b] /\ req'[b] = req[b]
      BY <2>4, Elsewhere DEF Work
    <3>3. \A b \in Holders : b \in Holders' /\ req'[b] = req[b]
      BY <3>1, <3>2 DEF Holders
    <3>4. CASE child = None
      BY <3>1, <3>3, <3>4 DEF ProcessesHeld
    <3>5. CASE child # None
      <4>1. pc'[a] = "reaping" /\ req'[a] = [id |-> child, kind |-> "reap"]
        BY <2>4, <3>5 DEF Reap, Goto, TaskOK
      <4>2. a \in Holders' /\ req'[a].id = child
        BY <4>1 DEF Holders
      <4>3. QED
        BY <3>1, <3>3, <4>2 DEF ProcessesHeld
    <3>6. QED
      BY <3>4, <3>5
  <2>5. ASSUME NEW a \in Actors, Reaped(a) PROVE ProcessesHeld'
    <3>1. child' = child /\ procs' = procs \ {req[a].id}
      BY <2>5 DEF Reaped, Kill
    <3>2. \A b \in Actors \ {a} : pc'[b] = pc[b] /\ req'[b] = req[b]
      BY <2>5, Elsewhere DEF Work
    <3>3. \A b \in Holders \ {a} : b \in Holders' /\ req'[b] = req[b]
      BY <3>2 DEF Holders
    <3>4. QED
      BY <2>1, <3>1, <3>3
  <2>6. CASE Drop
    <3>1. Holders = {} /\ procs' = procs \ {child}
      BY <2>6 DEF Drop, Kill, Holders
    <3>2. QED
      BY <3>1 DEF ProcessesHeld
  <2>7. ASSUME NEW p \in procs, Dies(p) PROVE ProcessesHeld'
    <3>1. procs' = procs \ {p} /\ child' = child /\ Holders' = Holders /\ req' = req
      BY <2>7 DEF Dies, Kill, taskVars, Holders
    <3>2. QED
      BY <3>1 DEF ProcessesHeld
  <2>8. CASE /\ ~Drop
             /\ \A a \in Actors : ~Handling(a)
             /\ \A p \in procs : ~Dies(p)
    <3>1. UNCHANGED <<child, procs>> /\ \A b \in Holders : b \in Holders' /\ req'[b] = req[b]
      BY <2>8, HoldersStay
    <3>2. QED
      BY <3>1 DEF ProcessesHeld
  <2>9. QED
    BY <2>2, <2>3, <2>4, <2>5, <2>6, <2>7, <2>8 DEF Handling
<1>3. RoutingInv => TaskOK /\ HandleOK
  BY TypeParts DEF RoutingInv
<1>4. QED
  BY <1>1, <1>2, <1>3, RoutingInvariant, PTL DEF Spec

-----------------------------------------------------------------------------
(* The restart budget *)

\* Between winning a restart and spawning; stop_server's own shutdown does not
\* spawn and is not counted.
RestartPlaces == {"stop", "closeStdin", "abortReader", "reap", "reaping", "spawn"}
Restarting == {a \in Actors \ {"stop"} : pc[a] \in RestartPlaces}
StopPlaces == {"idle", "stop", "closeStdin", "abortReader", "reap", "reaping", "done"}

\* Every restart that was granted has spawned its process, failed to, or still
\* may, and no more are granted than max_restarts.
BudgetInv ==
  /\ TypeOK /\ pc["stop"] \in StopPlaces
  /\ spawned + Cardinality(Restarting) <= restarts + 1
  /\ spawned + Cardinality(Restarting) <= MaxRestarts + 1

\* Finitely many tasks are restarting.
LEMMA RestartingFinite == IsFiniteSet(Restarting) /\ IsFiniteSet(Actors)
<1>1. IsFiniteSet(Actors)
  <2>1. IsFiniteSet(Callers)
    BY HandleAssumption
  <2>2. IsFiniteSet({"health", "stop"})
    <3>1. {"health", "stop"} = {"health"} \cup {"stop"}
      OBVIOUS
    <3>2. IsFiniteSet({"health"}) /\ IsFiniteSet({"stop"})
      BY FS_Singleton
    <3>3. QED
      BY <3>1, <3>2, FS_Union
  <2>3. QED
    BY <2>1, <2>2, FS_Union DEF Actors
<1>2. Restarting \subseteq Actors
  BY DEF Restarting
<1>3. QED
  BY <1>1, <1>2, FS_Subset

\* Only Restart lets a task begin to restart, and only Spawn starts a process.
LEMMA OthersDoNotRestart ==
  ASSUME HandleOK, TaskOK, pc["stop"] \in StopPlaces, [Next]_vars
  PROVE  \/ \E a \in Actors \ {"stop"} : Restart(a) \/ Spawn(a)
         \/ /\ spawned' = spawned /\ restarts' = restarts
            /\ pc'["stop"] \in StopPlaces
            /\ \A b \in Actors \ {"stop"} : pc'[b] \in RestartPlaces => pc[b] \in RestartPlaces
<1> DEFINE Quiet ==
      /\ spawned' = spawned /\ restarts' = restarts
      /\ pc'["stop"] \in StopPlaces
      /\ \A b \in Actors \ {"stop"} : pc'[b] \in RestartPlaces => pc[b] \in RestartPlaces
<1> SUFFICES Quiet \/ \E a \in Actors \ {"stop"} : Restart(a) \/ Spawn(a)
  OBVIOUS
<1>0. /\ "stop" \in Actors /\ "health" \in Actors \ {"stop"}
      /\ \A c \in Callers : c \in Actors \ {"stop"}
  BY HandleAssumption DEF Actors
<1>1. ASSUME NEW a \in Actors, NEW l,
             pc' = [pc EXCEPT ![a] = l], spawned' = spawned, restarts' = restarts,
             l \in RestartPlaces => pc[a] \in RestartPlaces \/ a = "stop",
             a = "stop" => l \in StopPlaces
      PROVE  Quiet
  <2>1. \A b \in Actors : pc'[b] = IF b = a THEN l ELSE pc[b]
    BY <1>1 DEF TaskOK
  <2>2. pc'["stop"] \in StopPlaces
    BY <1>0, <1>1, <2>1
  <2>3. QED
    BY <1>1, <2>1, <2>2
<1>2. ASSUME NEW a \in Actors, Return(a), spawned' = spawned, restarts' = restarts
      PROVE  Quiet
  BY <1>0, <1>2 DEF Return, TaskOK, RestartPlaces, StopPlaces
<1>3. ASSUME NEW a \in Actors, Work(a) \/ Unblocked(a)
      PROVE  Quiet \/ (a # "stop" /\ (Restart(a) \/ Spawn(a)))
  <2>1. a = "stop" => pc[a] \in StopPlaces
    OBVIOUS
  <2>2. CASE Writing(a)
    <3>1. UNCHANGED <<spawned, restarts>> /\ pc[a] \in {"write", "blocked"} /\ a # "stop"
      BY <2>1, <2>2, WriteOutcome DEF StopPlaces
    <3>2. Return(a) \/ \E l \in {"blocked", "await", "ready"} : pc' = [pc EXCEPT ![a] = l]
      BY <2>2, WriteOutcome DEF Delivered, Undelivered, GotoKeeping, Goto
    <3>3. QED
      BY <1>1, <1>2, <3>1, <3>2 DEF RestartPlaces
  <2>3. CASE SetStopped(a)
    BY <1>1, <2>1, <2>3 DEF SetStopped, Goto, RestartPlaces, StopPlaces
  <2>4. CASE CloseStdin(a)
    BY <1>1, <2>1, <2>4 DEF CloseStdin, Goto, RestartPlaces, StopPlaces
  <2>5. CASE AbortReader(a)
    BY <1>1, <2>1, <2>5 DEF AbortReader, Goto, RestartPlaces, StopPlaces
  <2>6. CASE Reap(a) \/ Reaped(a)
    <3>1. UNCHANGED <<spawned, restarts>> /\ pc[a] \in RestartPlaces
      BY <2>6 DEF Reap, Reaped, RestartPlaces
    <3>2. CASE AfterShutdown(a)
      <4>1. CASE Return(a)
        BY <1>2, <3>1, <4>1
      <4>2. CASE a # "stop" /\ GotoAnew(a, "spawn")
        BY <1>1, <3>1, <4>2 DEF GotoAnew, Goto
      <4>3. QED
        BY <3>2, <4>1, <4>2 DEF AfterShutdown
    <3>3. CASE Goto(a, "reaping")
      BY <1>1, <3>1, <3>3 DEF Goto, StopPlaces
    <3>4. QED
      BY <2>6, <3>2, <3>3 DEF Reap, Reaped
  <2>7. CASE Restart(a) \/ Spawn(a)
    BY <2>1, <2>7 DEF Restart, Spawn, StopPlaces
  <2>8. CASE SpawnFails(a)
    BY <1>2, <2>8 DEF SpawnFails, handleVars
  <2>9. CASE Wire(a)
    BY <1>1, <2>1, <2>9 DEF Wire, Goto, RestartPlaces, StopPlaces
  <2>10. CASE Read(a)
    BY <1>1, <2>1, <2>10 DEF Read, Request, Goto, RestartPlaces, StopPlaces
  <2>11. CASE Initialized(a)
    BY <1>1, <2>1, <2>11 DEF Initialized, Succeeds, Goto, handleVars, RestartPlaces, StopPlaces
  <2>12. CASE InitializeFails(a)
    BY <1>2, <2>12 DEF InitializeFails, handleVars
  <2>13. CASE Install(a)
    BY <1>1, <2>1, <2>13 DEF Install, Goto, RestartPlaces, StopPlaces
  <2>14. CASE Ready(a)
    <3>1. CASE Return(a)
      BY <1>2, <2>14, <3>1 DEF Ready
    <3>2. CASE GotoAnew(a, cont[a])
      <4>1. cont[a] \notin RestartPlaces /\ a # "stop"
        BY <2>1, <2>14 DEF Ready, TaskOK, RestartPlaces, StopPlaces
      <4>2. QED
        BY <1>1, <2>14, <3>2, <4>1 DEF Ready, GotoAnew, Goto
    <3>3. QED
      BY <2>14, <3>1, <3>2 DEF Ready
  <2>15. QED
    BY <1>3, <2>2, <2>3, <2>4, <2>5, <2>6, <2>7, <2>8, <2>9, <2>10, <2>11, <2>12, <2>13,
       <2>14 DEF Work, Writing
<1>4. ASSUME NEW c \in Callers, Begin(c) \/ Call(c) PROVE Quiet
  <2>1. c \in Actors /\ c # "stop" /\ spawned' = spawned /\ restarts' = restarts
    BY <1>0, <1>4 DEF Begin, Call, Acquire, Check, Poll, CallTool, ToolOk, ToolFails,
                      handleVars
  <2>2. Return(c) \/ \E l : l \notin RestartPlaces /\ pc' = [pc EXCEPT ![c] = l]
    <3>1. CASE Begin(c) \/ Acquire(c) \/ Poll(c) \/ ToolOk(c) \/ ToolFails(c)
      BY <3>1 DEF Begin, Acquire, Poll, ToolOk, ToolFails, GotoKeeping, GotoAnew, Goto,
                  RestartPlaces
    <3>2. CASE Check(c)
      <4>1. CASE state = "Stopped"
        BY <3>2, <4>1 DEF Check
      <4>2. CASE state # "Stopped"
        <5> DEFINE l == CASE state = "Healthy" -> "call"
                          [] state = "Unhealthy" -> "restart"
                          [] state = "Starting" -> "poll"
        <5>1. pc' = [pc EXCEPT ![c] = l]
          BY <3>2, <4>2 DEF Check, Goto
        <5>2. l \notin RestartPlaces
          BY <4>2 DEF RestartPlaces, HandleOK
        <5>3. QED
          BY <5>1, <5>2
      <4>3. QED
        BY <4>1, <4>2
    <3>3. CASE CallTool(c)
      BY <3>3 DEF CallTool, Request, Goto, RestartPlaces
    <3>4. QED
      BY <1>4, <3>1, <3>2, <3>3 DEF Call
  <2>3. QED
    BY <1>1, <1>2, <2>1, <2>2
<1>5. CASE Ping \/ Pinged
  <2>1. spawned' = spawned /\ restarts' = restarts
    BY <1>5 DEF Ping, Pinged, handleVars
  <2>2. Return("health") \/ \E l : l \notin RestartPlaces /\ pc' = [pc EXCEPT !["health"] = l]
    BY <1>5 DEF Ping, Pinged, Request, GotoAnew, Goto, RestartPlaces
  <2>3. QED
    BY <1>0, <1>1, <1>2, <2>1, <2>2
<1>6. CASE Stop
  BY <1>0, <1>1, <1>6 DEF Stop, Goto, handleVars, StopPlaces
<1>7. CASE UNCHANGED <<spawned, restarts, pc>>
  BY <1>7
<1>8. ASSUME NEW m, Serve(m) \/ Dies(m) \/ Route(m)
      PROVE  UNCHANGED <<spawned, restarts, pc>>
  BY <1>8 DEF Serve, Dies, Route, taskVars, handleVars
<1>9. CASE Drop
  BY <1>7, <1>9 DEF Drop, taskVars
<1>10. CASE UNCHANGED vars
  BY <1>7, <1>10 DEF vars, taskVars, handleVars
<1>11. QED
  BY <1>3, <1>4, <1>5, <1>6, <1>7, <1>8, <1>9, <1>10 DEF Next

\* However many callers and health checks find the server dead at the same
\* time, they start at most max_restarts processes after the first: the counter
\* is taken before the restart it pays for.
THEOREM RestartBudget == Spec => []RestartsBounded
<1>1. Init => BudgetInv
  <2> SUFFICES ASSUME Init PROVE BudgetInv
    OBVIOUS
  <2>1. TypeOK
    BY RoutingInit DEF RoutingInv
  <2>2. Restarting = {} /\ pc["stop"] \in StopPlaces
    BY DEF Init, Restarting, RestartPlaces, StopPlaces, Actors
  <2>3. Cardinality(Restarting) = 0
    BY <2>2, FS_EmptySet
  <2>4. spawned = 1 /\ restarts = 0
    BY DEF Init
  <2>5. QED
    BY <2>1, <2>2, <2>3, <2>4, HandleAssumption DEF BudgetInv
<1>2. TypeOK' /\ BudgetInv /\ [Next]_vars => BudgetInv'
  <2> SUFFICES ASSUME TypeOK', BudgetInv, [Next]_vars PROVE BudgetInv'
    OBVIOUS
  <2>0. HandleOK /\ TaskOK /\ spawned \in Nat /\ restarts \in Nat /\ MaxRestarts \in Nat
    BY HandleAssumption, TypeParts DEF BudgetInv, TypeOK
  <2>1. IsFiniteSet(Restarting) /\ Cardinality(Restarting) \in Nat
    BY RestartingFinite, FS_CardinalityType
  <2>2. ASSUME NEW a \in Actors \ {"stop"}, Restart(a) PROVE BudgetInv'
    <3>1. pc'["stop"] = pc["stop"] /\ spawned' = spawned /\ restarts' = restarts + 1
      <4>1. spawned' = spawned /\ restarts' = restarts + 1 /\ "stop" \in Actors
        BY <2>2 DEF Restart, Actors
      <4>2. CASE Return(a)
        BY <2>0, <4>1, <4>2 DEF Return, TaskOK
      <4>3. CASE GotoKeeping(a, "stop")
        BY <2>0, <4>1, <4>3 DEF GotoKeeping, Goto, TaskOK
      <4>4. QED
        BY <2>2, <4>1, <4>2, <4>3 DEF Restart
    <3>2. CASE restarts >= MaxRestarts
      <4>1. Restarting' \subseteq Restarting
        BY ZenonT(60), <2>0, <2>2, <3>2 DEF Restart, Return, TaskOK, Restarting, RestartPlaces
      <4>2. Cardinality(Restarting') \in Nat /\ Cardinality(Restarting') <= Cardinality(Restarting)
        BY <2>1, <4>1, FS_Subset, FS_CardinalityType
      <4>3. QED
        BY <2>0, <2>1, <3>1, <4>2 DEF BudgetInv
    <3>3. CASE ~(restarts >= MaxRestarts)
      <4>1. Restarting' \subseteq Restarting \cup {a}
        BY <2>0, <2>2, <3>3 DEF Restart, GotoKeeping, Goto, TaskOK, Restarting
      <4>2. a \notin Restarting
        BY <2>2 DEF Restart, Restarting, RestartPlaces
      <4>3. /\ IsFiniteSet(Restarting \cup {a})
            /\ Cardinality(Restarting \cup {a}) = Cardinality(Restarting) + 1
        BY <2>1, <4>2, FS_AddElement
      <4>4. /\ Cardinality(Restarting') \in Nat
            /\ Cardinality(Restarting') <= Cardinality(Restarting) + 1
        BY <4>1, <4>3, FS_Subset, FS_CardinalityType
      <4>5. QED
        BY <2>0, <2>1, <3>1, <3>3, <4>4 DEF BudgetInv
    <3>4. QED
      BY <3>2, <3>3
  <2>3. ASSUME NEW a \in Actors \ {"stop"}, Spawn(a) PROVE BudgetInv'
    <3>1. pc'["stop"] = pc["stop"] /\ spawned' = spawned + 1 /\ restarts' = restarts
      BY <2>0, <2>3 DEF Spawn, Goto, TaskOK, Actors
    <3>2. Restarting' \subseteq Restarting \ {a} /\ a \in Restarting
      BY <2>0, <2>3 DEF Spawn, Goto, TaskOK, Restarting, RestartPlaces
    <3>3. /\ IsFiniteSet(Restarting \ {a})
          /\ Cardinality(Restarting \ {a}) = Cardinality(Restarting) - 1
      BY <2>1, <3>2, FS_RemoveElement
    <3>4. /\ Cardinality(Restarting') \in Nat
          /\ Cardinality(Restarting') <= Cardinality(Restarting) - 1
      BY <3>2, <3>3, FS_Subset, FS_CardinalityType
    <3>5. QED
      BY <2>0, <2>1, <3>1, <3>4 DEF BudgetInv
  <2>4. CASE /\ spawned' = spawned /\ restarts' = restarts
             /\ pc'["stop"] \in StopPlaces
             /\ \A b \in Actors \ {"stop"} : pc'[b] \in RestartPlaces => pc[b] \in RestartPlaces
    <3>1. Restarting' \subseteq Restarting
      BY <2>4 DEF Restarting
    <3>2. Cardinality(Restarting') \in Nat /\ Cardinality(Restarting') <= Cardinality(Restarting)
      BY <2>1, <3>1, FS_Subset, FS_CardinalityType
    <3>3. QED
      BY <2>0, <2>1, <2>4, <3>2 DEF BudgetInv
  <2>5. pc["stop"] \in StopPlaces
    BY DEF BudgetInv
  <2>6. QED
    BY <2>0, <2>2, <2>3, <2>4, <2>5, OthersDoNotRestart
<1>3. BudgetInv => RestartsBounded
  <2> SUFFICES ASSUME BudgetInv PROVE RestartsBounded
    OBVIOUS
  <2>1. Cardinality(Restarting) \in Nat
    BY RestartingFinite, FS_CardinalityType
  <2>2. spawned \in Nat /\ MaxRestarts \in Nat
    BY HandleAssumption DEF BudgetInv, TypeOK
  <2>3. QED
    BY <2>1, <2>2 DEF BudgetInv, RestartsBounded
<1>4. Spec => []TypeOK
  BY HandleTypeCorrect
<1>5. QED
  BY <1>1, <1>2, <1>3, <1>4, PTL DEF Spec

-----------------------------------------------------------------------------
(* At most two executions *)

\* The tool calls of a caller that its process has not taken yet.
Sent(c) == {m \in inbox : m.of = c /\ m.kind = "tool"}

\* One that is about to be written.
Sending(c) == IF pc[c] \in {"write", "blocked"} /\ req[c].kind = "tool" THEN 1 ELSE 0

\* The calls a caller has made: it remembers in cont whether it may call again.
Made(c) ==
  CASE pc[c] = "done" \/ cont[c] = "give up" -> 2
    [] pc[c] # "done" /\ cont[c] = "retry" -> 1
    [] OTHER -> 0

\* Where a caller stands says what it may still do.
Placed(c) ==
  /\ pc[c] \in {"idle", "queue", "check"} => cont[c] = "none"
  /\ pc[c] \in {"poll", "call"} => cont[c] = "call"
  /\ pc[c] = "retry" => cont[c] = "retry"

\* Every execution, every call under way and every call about to be written is
\* one the caller has made.
Within(c) ==
  /\ IsFiniteSet(Sent(c))
  /\ runs[c] + Cardinality(Sent(c)) + Sending(c) <= Made(c)
TwiceInv == \A c \in Callers : Placed(c) /\ Within(c)

\* No caller has made more than two calls.
LEMMA MadeTwo == ASSUME NEW c PROVE Made(c) \in {0, 1, 2}
  BY DEF Made

\* Calls that are lost, or stay where they are, are counted already.
LEMMA WithinKept ==
  ASSUME CountOK, NEW c \in Callers, Within(c), Sent(c)' \subseteq Sent(c),
         runs'[c] = runs[c], Sending(c)' <= Sending(c), Made(c) <= Made(c)'
  PROVE  Within(c)'
<1>1. /\ IsFiniteSet(Sent(c)') /\ Cardinality(Sent(c)') <= Cardinality(Sent(c))
      /\ Cardinality(Sent(c)') \in Nat /\ Cardinality(Sent(c)) \in Nat
  BY FS_Subset, FS_CardinalityType DEF Within
<1>2. runs[c] \in Nat /\ Sending(c) \in Nat /\ Sending(c)' \in Nat
  BY DEF CountOK, Sending
<1>3. Made(c) \in Nat /\ Made(c)' \in Nat
  BY DEF Made
<1>4. \A r, s, t, x, y, m, n \in Nat :
        s <= t /\ x <= y /\ m <= n /\ r + t + y <= m => r + s + x <= n
  OBVIOUS
<1>5. runs[c] + Cardinality(Sent(c)) + Sending(c) <= Made(c)
  BY DEF Within
<1>6. runs[c] + Cardinality(Sent(c)') + Sending(c)' <= Made(c)'
  BY <1>1, <1>2, <1>3, <1>4, <1>5
<1>7. QED
  BY <1>1, <1>6 DEF Within

\* A process only loses what it was sent, unless a task writes.
LEMMA SentShrinks == ASSUME inbox' \subseteq inbox, NEW c PROVE Sent(c)' \subseteq Sent(c)
  BY DEF Sent

\* A caller that nothing happens to keeps its count.
LEMMA CallerStays ==
  ASSUME CountOK, NEW c \in Callers, Placed(c), Within(c),
         pc'[c] = pc[c], cont'[c] = cont[c], req'[c] = req[c],
         Sent(c)' \subseteq Sent(c), runs'[c] = runs[c]
  PROVE  Placed(c)' /\ Within(c)'
<1>1. Placed(c)' /\ Sending(c)' = Sending(c) /\ Made(c)' = Made(c)
  BY DEF Placed, Sending, Made
<1>2. Sending(c) <= Sending(c) /\ Made(c) <= Made(c)
  BY DEF Sending, Made
<1>3. QED
  BY <1>1, <1>2, WithinKept

\* So does one that moves on without calling a tool.
LEMMA CallerMoves ==
  ASSUME CountOK, NEW c \in Callers, Within(c), Placed(c)',
         pc[c] # "done", pc'[c] # "done",
         pc'[c] \in {"write", "blocked"} => req'[c].kind # "tool",
         cont'[c] = cont[c], Sent(c)' \subseteq Sent(c), runs'[c] = runs[c]
  PROVE  Placed(c)' /\ Within(c)'
<1>1. Sending(c)' = 0 /\ Made(c)' = Made(c)
  BY DEF Sending, Made
<1>2. 0 <= Sending(c) /\ Made(c) <= Made(c)
  BY DEF Sending, Made
<1>3. QED
  BY <1>1, <1>2, WithinKept

\* A caller that returns may have made both its calls.
LEMMA CallerReturns ==
  ASSUME CountOK, TaskOK, NEW c \in Callers, Within(c), Return(c),
         Sent(c)' \subseteq Sent(c), runs'[c] = runs[c]
  PROVE  Placed(c)' /\ Within(c)'
<1>1. pc'[c] = "done"
  BY HandleAssumption DEF Return, TaskOK, Actors
<1>2. Placed(c)' /\ Sending(c)' = 0 /\ Made(c)' = 2
  BY <1>1 DEF Placed, Sending, Made
<1>3. 0 <= Sending(c) /\ Made(c) <= 2
  BY DEF Sending, Made
<1>4. QED
  BY <1>2, <1>3, WithinKept

\* The call and the retry: one call more, about to be written.
LEMMA CallerCalls ==
  ASSUME CountOK, TaskOK, NEW c \in Callers, Placed(c), Within(c), CallTool(c)
  PROVE  Placed(c)' /\ Within(c)'
<1>0. c \in Actors
  BY DEF Actors
<1>1. pc'[c] \in {"write", "await"} /\ runs' = runs /\ inbox' = inbox
  BY <1>0 DEF CallTool, Request, Goto, TaskOK, boundVars
<1>2. cont'[c] = IF pc[c] = "call" THEN "retry" ELSE "give up"
  BY <1>0 DEF CallTool, TaskOK
<1>3. Placed(c)' /\ Sending(c) = 0 /\ Sending(c)' \in {0, 1} /\ Sent(c)' = Sent(c)
  BY <1>1 DEF Placed, Sending, Sent, CallTool
<1>4. Made(c)' = Made(c) + 1
  <2>1. (pc[c] = "call" /\ cont[c] = "call") \/ (pc[c] = "retry" /\ cont[c] = "retry")
    BY DEF CallTool, Placed
  <2>2. CASE pc[c] = "call" /\ cont[c] = "call"
    BY <1>1, <1>2, <2>2 DEF Made
  <2>3. CASE pc[c] = "retry" /\ cont[c] = "retry"
    <3>1. Made(c) = 1
      BY <2>3 DEF Made
    <3>2. cont'[c] = "give up"
      BY <1>2, <2>3
    <3>3. Made(c)' = 2
      BY <3>2 DEF Made
    <3>4. QED
      BY <3>1, <3>3
  <2>4. QED
    BY <2>1, <2>2, <2>3
<1>5. runs[c] \in Nat /\ Cardinality(Sent(c)) \in Nat /\ Made(c) \in Nat
  BY FS_CardinalityType DEF CountOK, Within, Made
<1>6. \A r, t, m \in Nat, y \in {0, 1} : r + t + 0 <= m => r + t + y <= m + 1
  OBVIOUS
<1>7. runs[c] + Cardinality(Sent(c)) + 0 <= Made(c) /\ IsFiniteSet(Sent(c))
  BY <1>3 DEF Within
<1>8. runs[c] + Cardinality(Sent(c)) + Sending(c)' <= Made(c) + 1
  BY <1>3, <1>5, <1>6, <1>7
<1>9. QED
  BY <1>1, <1>3, <1>4, <1>7, <1>8 DEF Within

\* What was about to be written is on its way, is stuck, or is given up.
LEMMA CallerWrites ==
  ASSUME CountOK, TaskOK, NEW c \in Callers, Placed(c), Within(c), Writing(c)
  PROVE  Placed(c)' /\ Within(c)'
<1>0. c \in Actors
  BY DEF Actors
<1>1. CASE Return(c)
  <2>1. inbox' \subseteq inbox /\ runs' = runs
    BY <1>0, <1>1, WriteOutcome DEF Delivered, Undelivered, Return, GotoKeeping, Goto, TaskOK
  <2>2. QED
    BY <1>1, <2>1, SentShrinks, CallerReturns
<1>2. CASE ~Return(c)
  <2>1. /\ pc'[c] \in {"blocked", "await", "ready"} /\ cont'[c] = cont[c] /\ runs' = runs
        /\ pc[c] \in {"write", "blocked"} /\ req' = req
        /\ pc'[c] = "blocked" => pc[c] = "write"
    BY <1>0, <1>2, WriteOutcome DEF Delivered, Undelivered, GotoKeeping, Goto, TaskOK
  <2>2. Placed(c)' /\ Made(c)' = Made(c)
    BY <2>1 DEF Placed, Made
  <2>3. CASE Sent(c)' \subseteq Sent(c)
    <3>1. Made(c) <= Made(c)'
      BY <2>2, MadeTwo
    <3>2. Sending(c) \in {0, 1} /\ (Sending(c)' = 0 \/ Sending(c)' = Sending(c))
      BY <2>1 DEF Sending
    <3>3. Sending(c)' <= Sending(c)
      BY <3>2
    <3>4. QED
      BY <2>1, <2>2, <2>3, <3>1, <3>3, WithinKept
  <2>4. CASE ~(Sent(c)' \subseteq Sent(c))
    <3> DEFINE m == [to |-> stdin, id |-> req[c].id, of |-> c, kind |-> req[c].kind]
    <3>0. ~(inbox' \subseteq inbox)
      BY <2>4, SentShrinks
    <3>1. inbox' = inbox \cup {m} /\ pc'[c] = "await"
      <4>1. Delivered(c) /\ req[c].kind # "initialized"
        BY <3>0, WriteOutcome DEF Delivered, Undelivered
      <4>2. QED
        BY <1>0, <4>1 DEF Delivered, GotoKeeping, Goto, TaskOK
    <3>2. req[c].kind = "tool" /\ Sending(c) = 1 /\ Sending(c)' = 0
      BY <2>1, <2>4, <3>1 DEF Sent, Sending
    <3> HIDE DEF m
    <3>3. Sent(c)' \subseteq Sent(c) \cup {m} /\ m \notin Sent(c)
      BY <2>4, <3>1 DEF Sent
    <3>4. /\ IsFiniteSet(Sent(c) \cup {m})
          /\ Cardinality(Sent(c) \cup {m}) = Cardinality(Sent(c)) + 1
      BY <3>3, FS_AddElement DEF Within
    <3>5. /\ IsFiniteSet(Sent(c)') /\ Cardinality(Sent(c)') <= Cardinality(Sent(c)) + 1
          /\ Cardinality(Sent(c)') \in Nat /\ Cardinality(Sent(c)) \in Nat
      BY <3>3, <3>4, FS_Subset, FS_CardinalityType DEF Within
    <3>6. runs[c] \in Nat /\ Made(c) \in Nat
      BY DEF CountOK, Made
    <3>7. runs[c] + Cardinality(Sent(c)) + 1 <= Made(c)
      BY <3>2 DEF Within
    <3>8. \A r, s, t, k \in Nat : s <= t + 1 /\ r + t + 1 <= k => r + s + 0 <= k
      OBVIOUS
    <3>9. runs[c] + Cardinality(Sent(c)') + 0 <= Made(c)
      BY <3>5, <3>6, <3>7, <3>8
    <3>10. QED
      BY <2>1, <2>2, <3>2, <3>5, <3>9 DEF Within
  <2>5. QED
    BY <2>3, <2>4
<1>3. QED
  BY <1>1, <1>2

\* A call that is executed is one that was under way.
LEMMA CallerServed ==
  ASSUME CountOK, NEW c \in Callers, Placed(c), Within(c), NEW m \in inbox, Serve(m),
         ToolsByCallers
  PROVE  Placed(c)' /\ Within(c)'
<1>1. pc' = pc /\ cont' = cont /\ req' = req /\ inbox' \subseteq inbox
  BY DEF Serve, taskVars
<1>2. CASE m.of = c /\ m.kind = "tool"
  <2>1. Placed(c)' /\ Sending(c)' = Sending(c) /\ Made(c)' = Made(c)
    BY <1>1 DEF Placed, Sending, Made
  <2>2. runs'[c] = runs[c] + 1
    BY <1>2 DEF Serve, CountOK
  <2>3. Sent(c)' = Sent(c) \ {m} /\ m \in Sent(c)
    BY <1>2 DEF Serve, Sent
  <2>4. /\ IsFiniteSet(Sent(c) \ {m})
        /\ Cardinality(Sent(c) \ {m}) = Cardinality(Sent(c)) - 1
    BY <2>3, FS_RemoveElement DEF Within
  <2>5. Cardinality(Sent(c) \ {m}) \in Nat /\ Cardinality(Sent(c)) \in Nat
    BY <2>4, FS_CardinalityType DEF Within
  <2>6. runs[c] \in Nat /\ Made(c) \in Nat /\ Sending(c) \in Nat
    BY DEF CountOK, Made, Sending
  <2>7. \A r, s, t, y, k \in Nat : s = t - 1 /\ r + t + y <= k => (r + 1) + s + y <= k
    OBVIOUS
  <2>8. runs[c] + Cardinality(Sent(c)) + Sending(c) <= Made(c)
    BY DEF Within
  <2>9. (runs[c] + 1) + Cardinality(Sent(c) \ {m}) + Sending(c) <= Made(c)
    BY <2>4, <2>5, <2>6, <2>7, <2>8
  <2>10. QED
    BY <2>1, <2>2, <2>3, <2>4, <2>9 DEF Within
<1>3. CASE ~(m.of = c /\ m.kind = "tool")
  <2>1. runs'[c] = runs[c]
    BY <1>3 DEF Serve, CountOK, ToolsByCallers
  <2>2. QED
    BY <1>1, <2>1, SentShrinks, CallerStays
<1>4. QED
  BY <1>2, <1>3

\* A caller's own step: it returns, moves on, calls or writes.
LEMMA OwnStep ==
  ASSUME CountOK, TaskOK, HandleOK, RetriesLast, NEW c \in Callers, Placed(c), Within(c),
         Work(c) \/ Unblocked(c) \/ Begin(c) \/ Call(c)
  PROVE  Placed(c)' /\ Within(c)'
<1>0. c \in Actors /\ c # "stop"
  BY HandleAssumption DEF Actors
<1>1. runs'[c] = runs[c] /\ (Sent(c)' \subseteq Sent(c) \/ Writing(c))
  BY <1>0, Elsewhere, SentShrinks
<1>2. CASE Writing(c)
  BY <1>2, CallerWrites
<1>3. CASE CallTool(c)
  BY <1>3, CallerCalls
<1>4. CASE Return(c) /\ ~Writing(c)
  BY <1>1, <1>4, CallerReturns
<1>5. ASSUME pc[c] # "done", ~Writing(c), NEW l \in Places, pc'[c] = l, cont'[c] = cont[c],
             l \notin {"idle", "queue", "check", "poll", "call", "retry", "write", "blocked", "done"}
      PROVE  Placed(c)' /\ Within(c)'
  <2>1. Placed(c)'
    BY <1>5 DEF Placed
  <2>2. pc'[c] # "done" /\ pc'[c] \notin {"write", "blocked"}
    BY <1>5
  <2>3. QED
    BY <1>1, <1>5, <2>1, <2>2, CallerMoves
<1>6. CASE Restart(c)
  <2>1. ~Writing(c)
    BY <1>6 DEF Restart, Writing, Write, Unblocked, PipeBreaks
  <2>2. CASE GotoKeeping(c, "stop")
    BY <1>0, <1>5, <1>6, <2>1, <2>2 DEF Restart, GotoKeeping, Goto, TaskOK, Places
  <2>3. QED
    BY <1>4, <1>6, <2>1, <2>2 DEF Restart
<1>7. CASE SetStopped(c)
  BY <1>0, <1>5, <1>7 DEF SetStopped, Writing, Write, Unblocked, PipeBreaks, Goto, TaskOK, Places
<1>8. CASE CloseStdin(c)
  BY <1>0, <1>5, <1>8 DEF CloseStdin, Writing, Write, Unblocked, PipeBreaks, Goto, TaskOK, Places
<1>9. CASE AbortReader(c)
  BY <1>0, <1>5, <1>9 DEF AbortReader, Writing, Write, Unblocked, PipeBreaks, Goto, TaskOK, Places
<1>10. CASE Reap(c) \/ Reaped(c)
  <2>1. ~Writing(c) /\ pc[c] # "done"
    BY <1>10 DEF Reap, Reaped, Writing, Write, Unblocked, PipeBreaks
  <2>2. AfterShutdown(c) \/ (Goto(c, "reaping") /\ cont' = cont)
    BY <1>10 DEF Reap, Reaped
  <2>3. \E l \in {"reaping", "spawn"} : pc'[c] = l /\ cont'[c] = cont[c]
    BY <1>0, <2>2 DEF AfterShutdown, GotoAnew, Goto, TaskOK
  <2>4. QED
    BY <1>5, <2>1, <2>3 DEF Places
<1>11. CASE Spawn(c)
  BY <1>0, <1>5, <1>11 DEF Spawn, Writing, Write, Unblocked, PipeBreaks, Goto, TaskOK, Places
<1>12. CASE SpawnFails(c)
  BY <1>4, <1>12 DEF SpawnFails, Writing, Write, Unblocked, PipeBreaks
<1>13. CASE Wire(c) \/ Install(c)
  BY <1>0, <1>5, <1>13 DEF Wire, Install, Writing, Write, Unblocked, PipeBreaks, Goto, TaskOK,
                           Places
<1>14. CASE Read(c)
  <2>1. /\ pc[c] = "read" /\ pc'[c] = "write" /\ req'[c].kind = "initialize"
        /\ cont'[c] = cont[c]
    BY <1>0, <1>14 DEF Read, Request, Goto, TaskOK
  <2>2. Placed(c)' /\ ~Writing(c)
    BY <2>1 DEF Placed, Writing, Write, Unblocked, PipeBreaks
  <2>3. QED
    BY <1>1, <2>1, <2>2, CallerMoves
<1>15. CASE Initialized(c)
  <2>1. /\ pc[c] = "await" /\ pc'[c] = "write" /\ req'[c].kind = "initialized"
        /\ cont'[c] = cont[c]
    BY <1>0, <1>15 DEF Initialized, Succeeds, Goto, TaskOK
  <2>2. Placed(c)' /\ ~Writing(c)
    BY <2>1 DEF Placed, Writing, Write, Unblocked, PipeBreaks
  <2>3. QED
    BY <1>1, <2>1, <2>2, CallerMoves
<1>16. CASE InitializeFails(c)
  BY <1>4, <1>16 DEF InitializeFails, Fails, Writing, Write, Unblocked, PipeBreaks
<1>17. CASE Begin(c) \/ Acquire(c)
  <2>1. /\ pc[c] \in {"idle", "queue"} /\ pc'[c] \in {"queue", "check"}
        /\ cont'[c] = cont[c] /\ ~Writing(c)
    BY <1>0, <1>17 DEF Begin, Acquire, Goto, TaskOK, Writing, Write, Unblocked, PipeBreaks
  <2>2. Placed(c)'
    BY <2>1 DEF Placed
  <2>3. QED
    BY <1>1, <2>1, <2>2, CallerMoves
<1>18. CASE Check(c)
  <2>1. pc[c] = "check" /\ cont[c] = "none" /\ ~Writing(c)
    BY <1>18 DEF Check, Placed, Writing, Write, Unblocked, PipeBreaks
  <2>2. CASE state = "Stopped"
    BY <1>4, <1>18, <2>1, <2>2 DEF Check
  <2>3. CASE state # "Stopped"
    <3>1. pc'[c] \in {"call", "restart", "poll"} /\ cont'[c] = "call"
      BY <1>0, <1>18, <2>3 DEF Check, Goto, TaskOK, HandleOK
    <3>2. Placed(c)' /\ Sending(c)' = 0 /\ Made(c)' = 0 /\ Made(c) = 0
      BY <2>1, <3>1 DEF Placed, Sending, Made
    <3>3. 0 <= Sending(c) /\ Made(c) <= 0
      BY <3>2 DEF Sending
    <3>4. QED
      BY <1>1, <2>1, <3>2, <3>3, WithinKept
  <2>4. QED
    BY <2>2, <2>3
<1>19. CASE Poll(c)
  <2>1. pc[c] = "poll" /\ ~Writing(c)
    BY <1>19 DEF Poll, Writing, Write, Unblocked, PipeBreaks
  <2>2. CASE GotoKeeping(c, "call")
    <3>1. pc'[c] = "call" /\ cont'[c] = cont[c]
      BY <1>0, <2>2 DEF GotoKeeping, Goto, TaskOK
    <3>2. Placed(c)'
      BY <2>1, <3>1 DEF Placed
    <3>3. QED
      BY <1>1, <2>1, <3>1, <3>2, CallerMoves
  <2>3. QED
    BY <1>4, <1>19, <2>1, <2>2 DEF Poll
<1>20. CASE ToolOk(c)
  BY <1>4, <1>20 DEF ToolOk, Succeeds, Writing, Write, Unblocked, PipeBreaks
<1>21. CASE ToolFails(c)
  <2>1. pc[c] = "await" /\ ~Writing(c)
    BY <1>21 DEF ToolFails, Fails, Writing, Write, Unblocked, PipeBreaks
  <2>2. CASE GotoAnew(c, "restart")
    BY <1>0, <1>5, <2>1, <2>2 DEF GotoAnew, Goto, TaskOK, Places
  <2>3. QED
    BY <1>4, <1>21, <2>1, <2>2 DEF ToolFails
<1>22. CASE Ready(c)
  <2>1. pc[c] = "ready" /\ ~Writing(c)
    BY <1>22 DEF Ready, Writing, Write, Unblocked, PipeBreaks
  <2>2. CASE cont[c] # "none" /\ GotoAnew(c, cont[c])
    <3>1. cont[c] \in {"call", "retry"}
      BY <1>0, <2>1, <2>2 DEF TaskOK, RetriesLast, Waiting
    <3>2. pc'[c] = cont[c] /\ cont'[c] = cont[c]
      BY <1>0, <2>2 DEF GotoAnew, Goto, TaskOK
    <3>3. Placed(c)' /\ pc'[c] # "done" /\ pc'[c] \notin {"write", "blocked"}
      BY <3>1, <3>2 DEF Placed
    <3>4. QED
      BY <1>1, <2>1, <3>2, <3>3, CallerMoves
  <2>3. QED
    BY <1>4, <1>22, <2>1, <2>2 DEF Ready
<1>23. QED
  BY <1>2, <1>3, <1>6, <1>7, <1>8, <1>9, <1>10, <1>11, <1>12, <1>13, <1>14, <1>15, <1>16,
     <1>17, <1>18, <1>19, <1>20, <1>21, <1>22 DEF Work, Call, Writing

\* A step of another task, of a process or of a reader.
LEMMA OthersStep ==
  ASSUME CountOK, TaskOK, ToolsByCallers, NEW c \in Callers, Placed(c), Within(c), [Next]_vars
  PROVE  (Placed(c)' /\ Within(c)') \/ Work(c) \/ Unblocked(c) \/ Begin(c) \/ Call(c)
<1>0. c \in Actors /\ c # "health" /\ c # "stop"
  BY HandleAssumption DEF Actors
<1>1. ASSUME UNCHANGED <<pc, cont, req, runs>>, inbox' \subseteq inbox
      PROVE  Placed(c)' /\ Within(c)'
  BY <1>1, SentShrinks, CallerStays
<1>2. ASSUME NEW a \in Actors, a # c,
             Work(a) \/ Unblocked(a) \/ (a \in Callers /\ (Begin(a) \/ Call(a)))
      PROVE  Placed(c)' /\ Within(c)'
  <2>1. pc'[c] = pc[c] /\ cont'[c] = cont[c] /\ req'[c] = req[c] /\ runs'[c] = runs[c]
    BY <1>0, <1>2, Elsewhere
  <2>2. CASE inbox' \subseteq inbox
    BY <2>1, <2>2, SentShrinks, CallerStays
  <2>3. CASE Writing(a)
    <3>1. \A m \in inbox' : m \in inbox \/ m.of = a
      BY <2>3, WriteOutcome DEF Delivered, Undelivered
    <3>2. Sent(c)' \subseteq Sent(c)
      BY <1>2, <3>1 DEF Sent
    <3>3. QED
      BY <2>1, <3>2, CallerStays
  <2>4. QED
    BY <1>2, <2>2, <2>3, Elsewhere
<1>3. CASE Ping \/ Pinged \/ Stop
  <2>1. pc'[c] = pc[c] /\ cont'[c] = cont[c] /\ req'[c] = req[c]
    BY ZenonT(60), <1>0, <1>3 DEF Ping, Pinged, Stop, Request, Return, GotoAnew, Goto, TaskOK
  <2>2. inbox' \subseteq inbox /\ runs' = runs
    BY <1>3 DEF Ping, Pinged, Stop, wireVars, boundVars
  <2>3. QED
    BY <2>1, <2>2, SentShrinks, CallerStays
<1>4. CASE Drop
  BY <1>1, <1>4 DEF Drop, Kill, taskVars, boundVars
<1>5. ASSUME NEW m \in inbox, Serve(m) PROVE Placed(c)' /\ Within(c)'
  BY <1>5, CallerServed
<1>6. ASSUME NEW p \in procs, Dies(p) PROVE Placed(c)' /\ Within(c)'
  BY <1>1, <1>6 DEF Dies, Kill, taskVars
<1>7. ASSUME NEW m \in out, Route(m) PROVE Placed(c)' /\ Within(c)'
  BY <1>1, <1>7 DEF Route, boundVars
<1>8. CASE UNCHANGED vars
  BY <1>1, <1>8 DEF vars, taskVars, wireVars, boundVars
<1>9. QED
  BY <1>0, <1>2, <1>3, <1>4, <1>5, <1>6, <1>7, <1>8 DEF Next, Actors

\* However often the server dies, is restarted under the caller or answers too
\* late, one call_tool_with_limit executes its tool at most twice: a call that
\* was given up is still counted, whether a process runs it later or never.
THEOREM ToolsRunTwice == Spec => []AtMostTwice
<1>1. Init => TwiceInv
  <2> SUFFICES ASSUME Init, NEW c \in Callers PROVE Placed(c) /\ Within(c)
    BY DEF TwiceInv
  <2>1. pc[c] = "idle" /\ cont[c] = "none" /\ runs[c] = 0 /\ inbox = {}
    BY DEF Init, Actors
  <2>2. Sent(c) = {} /\ Placed(c) /\ Sending(c) = 0 /\ Made(c) = 0
    BY <2>1 DEF Sent, Placed, Sending, Made
  <2>3. IsFiniteSet(Sent(c)) /\ Cardinality(Sent(c)) = 0
    BY <2>2, FS_EmptySet
  <2>4. QED
    BY <2>1, <2>2, <2>3 DEF Within
<1>2. RoutingInv /\ TwiceInv /\ [Next]_vars => TwiceInv'
  <2> SUFFICES ASSUME RoutingInv, TwiceInv, [Next]_vars, NEW c \in Callers
               PROVE  Placed(c)' /\ Within(c)'
    BY DEF TwiceInv
  <2>1. HandleOK /\ TaskOK /\ CountOK /\ RetriesLast /\ ToolsByCallers
    BY TypeParts DEF RoutingInv
  <2>2. Placed(c) /\ Within(c)
    BY DEF TwiceInv
  <2>3. QED
    BY <2>1, <2>2, OwnStep, OthersStep
<1>3. RoutingInv /\ TwiceInv => AtMostTwice
  <2> SUFFICES ASSUME RoutingInv, TwiceInv, NEW c \in Callers PROVE runs[c] <= 2
    BY DEF AtMostTwice
  <2>1. IsFiniteSet(Sent(c)) /\ runs[c] + Cardinality(Sent(c)) + Sending(c) <= Made(c)
    BY DEF TwiceInv, Within
  <2>2. Cardinality(Sent(c)) \in Nat /\ Sending(c) \in Nat /\ runs[c] \in Nat
    BY <2>1, FS_CardinalityType DEF Sending, RoutingInv, TypeOK
  <2>3. Made(c) \in {0, 1, 2}
    BY MadeTwo
  <2>4. QED
    BY <2>1, <2>2, <2>3
<1>4. QED
  BY <1>1, <1>2, <1>3, RoutingInvariant, PTL DEF Spec
=============================================================================
