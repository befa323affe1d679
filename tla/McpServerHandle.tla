--------------------------- MODULE McpServerHandle ---------------------------
(***************************************************************************)
(* One stdio MCP server of the process pool: its McpServerHandle (state,   *)
(* child, stdin, reader task, pending requests, restart counter) and the   *)
(* tasks that work on it at the same time: callers of call_tool_with_limit,*)
(* each with one automatic restart and retry, the background health check, *)
(* which restarts too, and stop_server.                                    *)
(*                                                                         *)
(* A step ends at an await, a lock's included.  A process may die, answer  *)
(* late, answer with an error or not at all, and leave its stdin unread:   *)
(* an answer is waited for with a timeout, the write of a request is not,  *)
(* and it holds the stdin lock.  Left out: remote servers, tool results    *)
(* and their budget, progress, and the requests a server makes of its      *)
(* client, whose answers the reader writes to the same stdin.              *)
(***************************************************************************)
EXTENDS Naturals, FiniteSets

CONSTANTS
  Callers,       \* tasks that call a tool, each once
  Permits,       \* max_concurrent_per_server
  MaxRestarts,   \* max_restarts
  MaxUpsets      \* bound of the model: health checks and dying processes

ASSUME HandleAssumption ==
  /\ IsFiniteSet(Callers) /\ Permits \in Nat \ {0} /\ MaxRestarts \in Nat
  /\ MaxUpsets \in Nat
  /\ "health" \notin Callers /\ "stop" \notin Callers

Actors == Callers \cup {"health", "stop"}
None == 0                              \* no process, no request

VARIABLES
  state,      \* ServerState
  child,      \* the process whose Child the handle holds
  stdin,      \* the process at the other end of stdin
  readers,    \* processes whose stdout a reader task reads
  readerTask, \* the one whose JoinHandle is stored
  procs,      \* living processes
  spawned,    \* processes ever started, numbered from 1
  nextId,     \* next_id
  pending,    \* requests waiting for their answer: id and waiting task
  inbox,      \* requests a process has been sent and has not taken
  out,        \* answers in the stdout pipes: process, id, request
  restarts,   \* restart_count
  pc,         \* where every task is
  req,        \* its current request: id, kind
  reply,      \* what its oneshot channel holds
  cont,       \* where it goes after a restart
  runs,       \* times each caller's tool was executed
  result,     \* what each caller returned
  inPool,     \* the pool's map holds the handle
  upsets      \* what is used up of the bound

handleVars == <<state, child, stdin, readers, readerTask, procs, spawned>>
wireVars == <<nextId, pending, inbox, out>>
taskVars == <<pc, req, reply, cont>>
boundVars == <<runs, result, inPool, upsets>>
vars == <<handleVars, wireVars, restarts, taskVars, boundVars>>

NoReq == [id |-> None, kind |-> "none"]
NoReply == [of |-> "nobody", kind |-> "none"]

\* start_server: the handle enters the pool healthy, or, when the start failed
\* and was torn down, unhealthy and without a process.
Init ==
  /\ spawned = 1 /\ nextId = 2
  /\ \/ /\ state = "Healthy" /\ child = 1 /\ stdin = 1
        /\ readers = {1} /\ readerTask = 1 /\ procs = {1}
     \/ /\ state = "Unhealthy" /\ child = None /\ stdin = None
        /\ readers = {} /\ readerTask = None /\ procs = {}
  /\ pending = {} /\ inbox = {} /\ out = {} /\ restarts = 0
  /\ pc = [a \in Actors |-> "idle"]
  /\ req = [a \in Actors |-> NoReq] /\ reply = [a \in Actors |-> NoReply]
  /\ cont = [a \in Actors |-> "none"]
  /\ runs = [c \in Callers |-> 0] /\ result = [c \in Callers |-> NoReply]
  /\ inPool = "yes" /\ upsets = 0

Goto(a, l) == pc' = [pc EXCEPT ![a] = l]

\* The task is done with the handle; its local variables are gone.
Return(a) ==
  /\ pc' = [pc EXCEPT ![a] = IF a = "health" THEN "idle" ELSE "done"]
  /\ req' = [req EXCEPT ![a] = NoReq] /\ reply' = [reply EXCEPT ![a] = NoReply]
  /\ cont' = [cont EXCEPT ![a] = "none"]
GotoKeeping(a, l) == Goto(a, l) /\ UNCHANGED <<req, reply, cont>>
\* The request is over, and its channel gone.
GotoAnew(a, l) ==
  /\ Goto(a, l) /\ req' = [req EXCEPT ![a] = NoReq]
  /\ reply' = [reply EXCEPT ![a] = NoReply] /\ UNCHANGED cont

\* The processes of P end: nobody takes what they were sent, and what they have
\* written can still be read until their stdout ends, and its reader with it.
Kill(P) ==
  /\ procs' = procs \ P
  /\ inbox' = {m \in inbox : m.to \notin P}
  /\ readers' = {p \in readers : p \in P => \E m \in out : m.from = p}

-----------------------------------------------------------------------------
(* Requests: send_request_with_progress *)

\* A fresh id, and the entry the answer will be routed to.
\* Broken: the ids start again with every process.
RequestFromOne(a, kind) ==
  LET id == IF kind = "initialize" THEN 1 ELSE nextId
  IN /\ nextId' = id + 1
     /\ pending' = {p \in pending : p.id # id} \cup {[id |-> id, who |-> a]}
     /\ req' = [req EXCEPT ![a] = [id |-> id, kind |-> kind]]
     /\ reply' = [reply EXCEPT ![a] = NoReply]
     /\ Goto(a, "write")
Request(a, kind) ==
  /\ nextId' = nextId + 1
  /\ pending' = {p \in pending : p.id # nextId} \cup {[id |-> nextId, who |-> a]}
  /\ req' = [req EXCEPT ![a] = [id |-> nextId, kind |-> kind]]
  /\ reply' = [reply EXCEPT ![a] = NoReply]
  /\ Goto(a, "write")

Unwait(a) == pending' = {p \in pending : p.id # req[a].id}

\* A task holds a lock across an await: stdin's while its write is stuck in a
\* full pipe, the child's while it waits for the process to end.
StdinFree == \A a \in Actors : pc[a] # "blocked"
ChildFree == \A a \in Actors : pc[a] # "reaping"

\* The bytes are in the pipe.  Only a request is answered.
Delivered(a) ==
  /\ inbox' = IF req[a].kind = "initialized" THEN inbox
              ELSE inbox \cup {[to |-> stdin, id |-> req[a].id, of |-> a,
                                kind |-> req[a].kind]}
  /\ GotoKeeping(a, IF req[a].kind = "initialized" THEN "ready" ELSE "await")
  /\ UNCHANGED pending
\* Without stdin, or at a broken pipe, a request fails, and so does a start whose
\* notification is not sent.
Undelivered(a) ==
  /\ Unwait(a) /\ UNCHANGED inbox
  /\ IF req[a].kind = "initialized" THEN Return(a) ELSE GotoKeeping(a, "await")

\* Under the stdin lock, which is kept while the server reads nothing.
Write(a) ==
  /\ pc[a] = "write" /\ StdinFree
  /\ \/ stdin \in procs /\ Delivered(a)
     \/ stdin \in procs /\ GotoKeeping(a, "blocked") /\ UNCHANGED <<inbox, pending>>
     \/ stdin \notin procs /\ Undelivered(a)
  /\ UNCHANGED <<handleVars, nextId, out, restarts, boundVars>>
\* The server reads again, or is dead.
Unblocked(a) ==
  /\ pc[a] = "blocked" /\ stdin \in procs /\ Delivered(a)
  /\ UNCHANGED <<handleVars, nextId, out, restarts, boundVars>>
PipeBreaks(a) ==
  /\ pc[a] = "blocked" /\ stdin \notin procs /\ Undelivered(a)
  /\ UNCHANGED <<handleVars, nextId, out, restarts, boundVars>>

\* The oneshot channel holds the answer, which is a result or an error; or it
\* was dropped; or the timeout is over.
Succeeds(a, kind) ==
  pc[a] = "await" /\ req[a].kind = kind /\ reply[a] # NoReply /\ UNCHANGED pending
Fails(a, kind) == pc[a] = "await" /\ req[a].kind = kind /\ Unwait(a)

-----------------------------------------------------------------------------
(* Stopping and starting the process *)

\* McpServerHandle::shutdown
SetStopped(a) ==
  /\ pc[a] = "stop" /\ state' = "Stopped" /\ Goto(a, "closeStdin")
  /\ UNCHANGED <<child, stdin, readers, readerTask, procs, spawned, wireVars,
                 restarts, req, reply, cont, boundVars>>
CloseStdin(a) ==
  /\ pc[a] = "closeStdin" /\ StdinFree /\ stdin' = None /\ Goto(a, "abortReader")
  /\ UNCHANGED <<state, child, readers, readerTask, procs, spawned, wireVars,
                 restarts, req, reply, cont, boundVars>>
AbortReader(a) ==
  /\ pc[a] = "abortReader" /\ readers' = readers \ {readerTask}
  /\ out' = {m \in out : m.from # readerTask}
  /\ readerTask' = None /\ pending' = {} /\ Goto(a, "reap")
  /\ UNCHANGED <<state, child, stdin, procs, spawned, nextId, inbox, restarts,
                 req, reply, cont, boundVars>>
AfterShutdown(a) == IF a = "stop" THEN Return(a) ELSE GotoAnew(a, "spawn")
\* The Child is taken out, and its lock held until the process has exited at the
\* end of its input, or was killed after 2 s.
Reap(a) ==
  /\ pc[a] = "reap" /\ ChildFree /\ child' = None
  /\ IF child = None THEN AfterShutdown(a)
     ELSE /\ req' = [req EXCEPT ![a] = [id |-> child, kind |-> "reap"]]
          /\ Goto(a, "reaping") /\ UNCHANGED <<reply, cont>>
  /\ UNCHANGED <<state, stdin, readers, readerTask, procs, spawned, wireVars,
                 restarts, boundVars>>
Reaped(a) ==
  /\ pc[a] = "reaping" /\ Kill({req[a].id}) /\ AfterShutdown(a)
  /\ UNCHANGED <<state, child, stdin, readerTask, spawned, nextId, pending, out,
                 restarts, boundVars>>

\* McpServerHandle::start, after the backoff: the process runs before the handle
\* has its Child.
\* Broken: a process started under a number already given.
SpawnUncounted(a) ==
  /\ pc[a] = "spawn" /\ procs' = procs \cup {spawned + 1}
  /\ req' = [req EXCEPT ![a] = [id |-> spawned + 1, kind |-> "start"]]
  /\ Goto(a, "install")
  /\ UNCHANGED <<state, child, stdin, readers, readerTask, spawned, wireVars,
                 restarts, reply, cont, boundVars>>
Spawn(a) ==
  /\ pc[a] = "spawn" /\ spawned' = spawned + 1
  /\ procs' = procs \cup {spawned + 1}
  /\ req' = [req EXCEPT ![a] = [id |-> spawned + 1, kind |-> "start"]]
  /\ Goto(a, "install")
  /\ UNCHANGED <<state, child, stdin, readers, readerTask, wireVars, restarts,
                 reply, cont, boundVars>>
SpawnFails(a) ==
  /\ pc[a] = "spawn" /\ Return(a)
  /\ UNCHANGED <<handleVars, wireVars, restarts, boundVars>>
\* Under the child lock.  A Child that is replaced is dropped, and killed
\* (kill_on_drop).
\* Broken: the replaced process is left running.
InstallBeside(a) ==
  /\ pc[a] = "install" /\ ChildFree /\ child' = req[a].id /\ Goto(a, "wire")
  /\ UNCHANGED <<state, stdin, readers, readerTask, procs, spawned, wireVars,
                 restarts, req, reply, cont, boundVars>>
Install(a) ==
  /\ pc[a] = "install" /\ ChildFree /\ child' = req[a].id /\ Kill({child})
  /\ Goto(a, "wire")
  /\ UNCHANGED <<state, stdin, readerTask, spawned, nextId, pending, out,
                 restarts, req, reply, cont, boundVars>>
Wire(a) ==
  /\ pc[a] = "wire" /\ StdinFree /\ stdin' = req[a].id /\ Goto(a, "read")
  /\ UNCHANGED <<state, child, readers, readerTask, procs, spawned, wireVars,
                 restarts, req, reply, cont, boundVars>>
\* The stored JoinHandle of an earlier reader is replaced, the reader goes on.
Read(a) ==
  /\ pc[a] = "read" /\ readers' = readers \cup {req[a].id}
  /\ readerTask' = req[a].id /\ state' = "Starting" /\ Request(a, "initialize")
  /\ UNCHANGED <<child, stdin, procs, spawned, inbox, out, restarts, cont,
                 boundVars>>
\* notifications/initialized takes stdin once more.
Initialized(a) ==
  /\ Succeeds(a, "initialize")
  /\ req' = [req EXCEPT ![a] = [id |-> None, kind |-> "initialized"]]
  /\ reply' = [reply EXCEPT ![a] = NoReply] /\ Goto(a, "write")
  /\ UNCHANGED <<handleVars, nextId, inbox, out, restarts, cont, boundVars>>
Ready(a) ==
  /\ pc[a] = "ready" /\ state' = "Healthy"
  /\ IF cont[a] = "none" THEN Return(a) ELSE GotoAnew(a, cont[a])
  /\ UNCHANGED <<child, stdin, readers, readerTask, procs, spawned, wireVars,
                 restarts, boundVars>>
\* A failed start leaves the state at Starting and the process alone.
InitializeFails(a) ==
  /\ Fails(a, "initialize") /\ Return(a)
  /\ UNCHANGED <<handleVars, nextId, inbox, out, restarts, boundVars>>

\* restart_server, and the health check's copy of it: one fetch_add decides.
\* Broken: one restart too many.
RestartOnceMore(a) ==
  /\ pc[a] = "restart" /\ restarts' = restarts + 1
  /\ IF restarts > MaxRestarts THEN state' = "Stopped" /\ Return(a)
     ELSE GotoKeeping(a, "stop") /\ UNCHANGED state
  /\ UNCHANGED <<child, stdin, readers, readerTask, procs, spawned, wireVars,
                 boundVars>>
Restart(a) ==
  /\ pc[a] = "restart" /\ restarts' = restarts + 1
  /\ IF restarts >= MaxRestarts THEN state' = "Stopped" /\ Return(a)
     ELSE GotoKeeping(a, "stop") /\ UNCHANGED state
  /\ UNCHANGED <<child, stdin, readers, readerTask, procs, spawned, wireVars,
                 boundVars>>

-----------------------------------------------------------------------------
(* call_tool_with_limit *)

Begin(c) ==
  /\ pc[c] = "idle" /\ inPool = "yes" /\ Goto(c, "queue")
  /\ UNCHANGED <<handleVars, wireVars, restarts, req, reply, cont, boundVars>>
\* The handle is kept while the caller waits for its permit.
Acquire(c) ==
  /\ pc[c] = "queue"
  /\ Cardinality({d \in Callers : pc[d] \notin {"idle", "queue", "done"}}) < Permits
  /\ Goto(c, "check")
  /\ UNCHANGED <<handleVars, wireVars, restarts, req, reply, cont, boundVars>>
Check(c) ==
  /\ pc[c] = "check"
  /\ IF state = "Stopped" THEN Return(c)
     ELSE /\ Goto(c, CASE state = "Healthy" -> "call"
                      [] state = "Unhealthy" -> "restart"
                      [] state = "Starting" -> "poll")
          /\ cont' = [cont EXCEPT ![c] = "call"] /\ UNCHANGED <<req, reply>>
  /\ UNCHANGED <<handleVars, wireVars, restarts, boundVars>>
\* At most 30 s.
\* Broken: no deadline.
PollForever(c) ==
  /\ pc[c] = "poll" /\ state # "Starting" /\ GotoKeeping(c, "call")
  /\ UNCHANGED <<handleVars, wireVars, restarts, boundVars>>
Poll(c) ==
  /\ pc[c] = "poll"
  /\ IF state = "Starting" THEN Return(c) ELSE GotoKeeping(c, "call")
  /\ UNCHANGED <<handleVars, wireVars, restarts, boundVars>>

\* McpServerHandle::call_tool: only a healthy server is asked.
\* Broken: a failed retry is retried.
CallToolAgain(c) ==
  /\ pc[c] \in {"call", "retry"} /\ cont' = [cont EXCEPT ![c] = "retry"]
  /\ IF state = "Healthy" THEN Request(c, "tool")
     ELSE /\ req' = [req EXCEPT ![c] = [id |-> None, kind |-> "tool"]]
          /\ reply' = [reply EXCEPT ![c] = NoReply]
          /\ Goto(c, "await") /\ UNCHANGED <<nextId, pending>>
  /\ UNCHANGED <<handleVars, inbox, out, restarts, boundVars>>
CallTool(c) ==
  /\ pc[c] \in {"call", "retry"}
  /\ cont' = [cont EXCEPT ![c] = IF pc[c] = "call" THEN "retry" ELSE "give up"]
  /\ IF state = "Healthy" THEN Request(c, "tool")
     ELSE /\ req' = [req EXCEPT ![c] = [id |-> None, kind |-> "tool"]]
          /\ reply' = [reply EXCEPT ![c] = NoReply]
          /\ Goto(c, "await") /\ UNCHANGED <<nextId, pending>>
  /\ UNCHANGED <<handleVars, inbox, out, restarts, boundVars>>
ToolOk(c) ==
  /\ Succeeds(c, "tool")
  /\ result' = [result EXCEPT ![c] = reply[c]] /\ Return(c)
  /\ UNCHANGED <<handleVars, nextId, inbox, out, restarts, runs, inPool, upsets>>
\* The first failure restarts the server and calls again, the second is final.
ToolFails(c) ==
  /\ Fails(c, "tool") /\ state' = "Unhealthy"
  /\ IF cont[c] = "retry" THEN GotoAnew(c, "restart") ELSE Return(c)
  /\ UNCHANGED <<child, stdin, readers, readerTask, procs, spawned, nextId,
                 inbox, out, restarts, boundVars>>

-----------------------------------------------------------------------------
(* The health check, and stop_server *)

\* ping refuses a stopped server, and that counts as a failed check too.
Ping ==
  /\ pc["health"] = "idle" /\ inPool = "yes"
  /\ upsets < MaxUpsets /\ upsets' = upsets + 1
  /\ IF state = "Stopped"
     THEN Goto("health", "restart") /\ UNCHANGED <<nextId, pending, req, reply>>
     ELSE Request("health", "ping")
  /\ UNCHANGED <<handleVars, inbox, out, restarts, cont, runs, result, inPool>>
\* The answer is written to the state whatever has happened to it meanwhile.
Pinged ==
  /\ \/ Succeeds("health", "ping") /\ state' = "Healthy" /\ Return("health")
     \/ /\ Fails("health", "ping") /\ state' = "Unhealthy"
        /\ GotoAnew("health", "restart")
  /\ UNCHANGED <<child, stdin, readers, readerTask, procs, spawned, nextId,
                 inbox, out, restarts, boundVars>>

\* The health check keeps a reference into the map while it works on the
\* handle, so removing the handle waits for it.
Stop ==
  /\ pc["stop"] = "idle" /\ inPool = "yes" /\ pc["health"] = "idle"
  /\ inPool' = "no" /\ Goto("stop", "stop")
  /\ UNCHANGED <<handleVars, wireVars, restarts, req, reply, cont, runs, result,
                 upsets>>

\* The last task lets go of the handle, and with it of the child.
Drop ==
  /\ inPool = "no" /\ child # None
  /\ \A a \in Actors : pc[a] \in {"idle", "done"}
  /\ child' = None /\ Kill({child})
  /\ UNCHANGED <<state, stdin, readerTask, spawned, nextId, pending, out,
                 restarts, taskVars, boundVars>>

-----------------------------------------------------------------------------
(* The process and its reader *)

\* The process takes a request, executes it and answers: with a result, an
\* error, or a cancellation of the request.  An answer that is never read before
\* the timeout stands for one that is never given; what nobody reads is lost.
Serve(m) ==
  /\ m \in inbox /\ m.to \in procs /\ inbox' = inbox \ {m}
  /\ runs' = IF m.kind = "tool" THEN [runs EXCEPT ![m.of] = @ + 1] ELSE runs
  /\ out' = IF m.to \notin readers THEN out
            ELSE out \cup {[from |-> m.to, id |-> m.id, of |-> m.of,
                            kind |-> m.kind]}
  /\ UNCHANGED <<handleVars, nextId, pending, restarts, taskVars, result,
                 inPool, upsets>>
Dies(p) ==
  /\ p \in procs /\ upsets < MaxUpsets /\ upsets' = upsets + 1
  /\ Kill({p})
  /\ UNCHANGED <<state, child, stdin, readerTask, spawned, nextId, pending, out,
                 restarts, taskVars, runs, result, inPool>>

\* read_responses routes by id; an answer nobody waits for is dropped.
Route(m) ==
  /\ m \in out /\ m.from \in readers /\ out' = out \ {m}
  /\ pending' = {p \in pending : p.id # m.id}
  /\ reply' = [a \in Actors |->
       IF [id |-> m.id, who |-> a] \in pending
       THEN [of |-> m.of, kind |-> m.kind] ELSE reply[a]]
  /\ readers' = {p \in readers : p \in procs \/ \E n \in out' : n.from = p}
  /\ UNCHANGED <<state, child, stdin, readerTask, procs, spawned, nextId, inbox,
                 restarts, pc, req, cont, boundVars>>

-----------------------------------------------------------------------------
Work(a) ==
  \/ Write(a) \/ PipeBreaks(a) \/ Restart(a) \/ SetStopped(a)
  \/ CloseStdin(a) \/ AbortReader(a) \/ Reap(a) \/ Reaped(a)
  \/ Spawn(a) \/ SpawnFails(a) \/ Install(a) \/ Wire(a) \/ Read(a)
  \/ Initialized(a) \/ InitializeFails(a) \/ Ready(a)
Call(c) ==
  \/ Acquire(c) \/ Check(c) \/ Poll(c)
  \/ CallTool(c) \/ ToolOk(c) \/ ToolFails(c)
Next ==
  \/ \E a \in Actors : Work(a) \/ Unblocked(a)
  \/ \E c \in Callers : Begin(c) \/ Call(c)
  \/ Ping \/ Pinged \/ Stop \/ Drop
  \/ \E m \in inbox : Serve(m)
  \/ \E p \in procs : Dies(p)
  \/ \E m \in out : Route(m)
Spec == Init /\ [][Next]_vars

\* The runtime schedules every task that can go on.  Answers and the end of a
\* process are waited for with a timeout; that a server reads what is written to
\* it (Unblocked) is up to the server.
FairSpec ==
  /\ Spec /\ WF_vars(Pinged)
  /\ \A a \in Actors : WF_vars(Work(a))
  /\ \A c \in Callers : WF_vars(Call(c))
-----------------------------------------------------------------------------
(* Properties *)

Processes == 1..spawned
Kinds == {"tool", "initialize", "ping"}
ReqKinds == Kinds \cup {"none", "reap", "start", "initialized"}
Places == {"idle", "queue", "check", "poll", "call", "retry", "write", "blocked",
           "await", "restart", "stop", "closeStdin", "abortReader", "reap",
           "reaping", "spawn", "install", "wire", "read", "ready", "done"}
Reply == [of : Actors, kind : Kinds] \cup {NoReply}

\* Every variable has its type; processes are numbered as they are spawned.
TypeOK ==
  /\ state \in {"Starting", "Healthy", "Unhealthy", "Stopped"}
  /\ spawned \in Nat /\ nextId \in Nat /\ restarts \in Nat
  /\ child \in 0..spawned /\ stdin \in 0..spawned /\ readerTask \in 0..spawned
  /\ readers \in SUBSET Processes /\ procs \in SUBSET Processes
  /\ pending \in SUBSET [id : Nat, who : Actors]
  /\ inbox \in SUBSET [to : Nat, id : Nat, of : Actors, kind : Kinds]
  /\ out \in SUBSET [from : Nat, id : Nat, of : Actors, kind : Kinds]
  /\ pc \in [Actors -> Places] /\ req \in [Actors -> [id : Nat, kind : ReqKinds]]
  /\ reply \in [Actors -> Reply]
  /\ cont \in [Actors -> {"none", "call", "retry", "give up"}]
  /\ runs \in [Callers -> Nat] /\ result \in [Callers -> Reply]
  /\ inPool \in {"yes", "no"} /\ upsets \in Nat

\* A caller is given the answer to its own tool call, never one to another
\* request, however late an old process answers and however often the server
\* was restarted under the callers.
AnswersMatch ==
  \A c \in Callers : result[c] # NoReply =>
    result[c].of = c /\ result[c].kind = "tool"

\* The callers and the health check race to restart one server; together they
\* start at most max_restarts processes after the first.
RestartsBounded == spawned <= MaxRestarts + 1

\* Two restarts at once, each with its own shutdown and start, lose no process:
\* one that runs is the one whose Child the handle has, or a task has its Child,
\* to store it or to wait for its end.
Holders == {a \in Actors : pc[a] \in {"install", "reaping"}}
ProcessesHeld == procs \subseteq {child} \cup {req[a].id : a \in Holders}

\* One tool call executes the tool at most twice: the call, and one retry.
AtMostTwice == \A c \in Callers : runs[c] <= 2

\* Every tool call returns, the one that waits for a permit too, whatever the
\* server, the health check and the other callers do, as long as no write to
\* the server's stdin is stuck for ever: a caller calls once, so all are idle
\* or done time and again.
CallsReturn ==
  ([]<>StdinFree) => []<>(\A c \in Callers : pc[c] \in {"idle", "done"})
=============================================================================
