------------------------------ MODULE TeamTasks ------------------------------
(***************************************************************************)
(* The tasks of an agent team: the coordinator's in-memory TaskBoard, the  *)
(* task files of FilePersistence, and who works on them at the same time:  *)
(* tool calls and requests of agents (callers), the heartbeat that claims  *)
(* for idle agents, and the work loops of teammates, which claim from the  *)
(* files alone.                                                            *)
(*                                                                         *)
(* A step is one critical section of the board, or one access to a task    *)
(* file under its lock; load_tasks reads the files without locks and skips *)
(* one it finds half written.  Left out: priorities, the write-only        *)
(* dependencies and blocks fields, which agents are idle (the heartbeat    *)
(* may claim for any of them), failing I/O, removing tasks and disbanding, *)
(* and TaskBoard::claim_next, which nothing calls.  A task is only created *)
(* with blockers that exist, so no cycle can be reported.                  *)
(***************************************************************************)
EXTENDS Naturals, FiniteSets

CONSTANTS
  Loops,      \* teammates that run a work loop
  Callers,    \* agents that call the coordinator
  NumTasks, MaxOps, MaxCrashes   \* bounds of the model

ASSUME TeamAssumption ==
  /\ Loops \cap Callers = {} /\ {"heartbeat", "nobody"} \cap (Loops \cup Callers) = {}
  /\ NumTasks \in Nat /\ MaxOps \in Nat /\ MaxCrashes \in Nat

Tasks == 1..NumTasks              \* in the order of created_at
Agents == Loops \cup Callers
Threads == Agents \cup {"heartbeat"}
Nobody == "nobody"

VARIABLES
  board,    \* TaskBoard.tasks
  rev,      \* TaskBoard.reverse_dependencies: blocker and dependent
  files,    \* the task files
  th,       \* what every thread is doing
  created,  \* tasks ever created
  declared, \* the blockers each was created with
  ops, crashes,   \* used up bounds
  hist      \* what has happened, for the properties

vars == <<board, rev, files, th, created, declared, ops, crashes, hist>>

Absent == [status |-> "absent", owner |-> Nobody, blockedBy |-> {}]
New(D) == [status |-> "pending", owner |-> Nobody, blockedBy |-> D]
Idle == [at |-> "idle", task |-> 0, who |-> Nobody, dep |-> 0, snap |-> Absent,
         deps |-> {}, saves |-> {}]

Init ==
  /\ board = [t \in Tasks |-> Absent] /\ rev = {}
  /\ files = [t \in Tasks |-> Absent]
  /\ th = [x \in Threads |-> Idle]
  /\ created = 0 /\ declared = [t \in Tasks |-> {}]
  /\ ops = 0 /\ crashes = 0 /\ hist = {}

Happened(kind) == {h[2] : h \in {g \in hist : g[1] = kind}}
Note(kind, S) == hist' = hist \cup {<<kind, v>> : v \in S}

At(x, l) == th[x].at = l
Become(x, new) == th' = [th EXCEPT ![x] = new]
Goto(x, l) == Become(x, [th[x] EXCEPT !.at = l])
Done(x) == Become(x, Idle)
Op == ops < MaxOps /\ ops' = ops + 1
Present == {t \in Tasks : board[t].status # "absent"}

-----------------------------------------------------------------------------
(* Creating tasks *)

\* add_task on the board: by the coordinator without dependencies (the task is
\* persisted as it was created), with dependencies (they are registered first),
\* or by team_task_create, which registers and persists nothing.
Create(c) ==
  /\ At(c, "idle") /\ created < NumTasks /\ created' = created + 1
  /\ LET t == created + 1
     IN \E D \in SUBSET Present :
          /\ board' = [board EXCEPT ![t] = New(D)]
          /\ declared' = [declared EXCEPT ![t] = D]
          /\ \/ D = {} /\ Become(c, [Idle EXCEPT !.at = "save", !.task = t,
                                                !.snap = New(D)])
             \/ Become(c, [Idle EXCEPT !.at = "register", !.task = t,
                                       !.deps = D])
             \/ UNCHANGED th
             \/ \E a \in Agents : Become(c, [Idle EXCEPT !.at = "hand",
                                                         !.task = t, !.who = a])
  /\ UNCHANGED <<rev, files, ops, crashes, hist>>

\* TaskBoard::add_dependency, for each of them: the reverse map, then the task.
Register(c) ==
  /\ At(c, "register")
  /\ \E d \in th[c].deps :
       /\ rev' = rev \cup {<<d, th[c].task>>}
       /\ Become(c, [th[c] EXCEPT !.at = "link", !.dep = d, !.deps = @ \ {d}])
  /\ UNCHANGED <<board, files, created, declared, ops, crashes, hist>>
Link(c) ==
  /\ At(c, "link")
  /\ board' = [board EXCEPT ![th[c].task].blockedBy = @ \cup {th[c].dep}]
  /\ Note("relinked", IF th[c].dep \in Happened("completing")
                      THEN {<<th[c].dep, th[c].task>>} ELSE {})
  /\ Become(c, [th[c] EXCEPT !.at = "register", !.dep = 0])
  /\ UNCHANGED <<rev, files, created, declared, ops, crashes>>

\* get_task, then persist_task.
GetTask(c) ==
  /\ At(c, "get") \/ (At(c, "register") /\ th[c].deps = {})
  /\ Become(c, [th[c] EXCEPT !.at = "save", !.snap = board[th[c].task]])
  /\ UNCHANGED <<board, rev, files, created, declared, ops, crashes, hist>>
PersistTask(c) ==
  /\ At(c, "save") /\ files' = [files EXCEPT ![th[c].task] = th[c].snap]
  /\ Done(c)
  /\ UNCHANGED <<board, rev, created, declared, ops, crashes, hist>>

-----------------------------------------------------------------------------
(* Claiming *)

Claimable(rec) == rec.status = "pending" /\ rec.owner = Nobody
IsReady(t) == board[t].status = "pending" /\ board[t].blockedBy = {}

\* self_claim_task, for a task named by the agent or the next ready one.
Claim(c) ==
  /\ At(c, "idle") /\ Op
  /\ \E t \in Present :
       Become(c, [Idle EXCEPT !.at = "fileClaim", !.task = t, !.who = c])
  /\ UNCHANGED <<board, rev, files, created, declared, crashes, hist>>

\* FilePersistence::claim_task, under the task's lock: the file is read again,
\* and blocked_by is not looked at.
\* Broken: what was found claimable is claimed.
FileClaimFound(x) ==
  /\ At(x, "fileClaim")
  /\ LET t == th[x].task
     IN /\ files' = [files EXCEPT ![t] = [@ EXCEPT !.status = "in_progress",
                                                   !.owner = x]]
        /\ IF x \in Loops THEN Goto(x, "run") ELSE Goto(x, "assign")
        /\ Note(IF x \in Loops THEN "started" ELSE "shared",
                {IF x \in Loops THEN <<t, x>> ELSE t})
  /\ UNCHANGED <<board, rev, created, declared, ops, crashes>>
FileClaim(x) ==
  /\ At(x, "fileClaim")
  /\ LET t == th[x].task
     IN IF Claimable(files[t])
        THEN /\ files' = [files EXCEPT ![t] = [@ EXCEPT !.status = "in_progress",
                                                        !.owner = x]]
             /\ IF x \in Loops THEN Goto(x, "run") ELSE Goto(x, "assign")
             /\ Note(IF x \in Loops THEN "started" ELSE "shared",
                     {IF x \in Loops THEN <<t, x>> ELSE t})
        ELSE Done(x) /\ UNCHANGED <<files, hist>>
  /\ UNCHANGED <<board, rev, created, declared, ops, crashes>>

\* TaskBoard::assign_task, in a claim, or to hand a task to an agent.  A refusal
\* leaves the file of a claim as it is.
\* Broken: a pending task is assigned whoever owns it.
AssignTaskAgain(x) ==
  /\ At(x, "assign") \/ At(x, "hand")
  /\ LET t == th[x].task
     IN IF IsReady(t)
        THEN /\ board' = [board EXCEPT ![t] =
                  [@ EXCEPT !.owner = th[x].who, !.status = "in_progress"]]
             /\ Note("granted", {<<t, th[x].who, crashes>>})
             /\ IF At(x, "assign") THEN Goto(x, "mark") ELSE Done(x)
        ELSE Done(x) /\ UNCHANGED <<board, hist>>
  /\ UNCHANGED <<rev, files, created, declared, ops, crashes>>
AssignTask(x) ==
  /\ At(x, "assign") \/ At(x, "hand")
  /\ LET t == th[x].task
     IN IF IsReady(t) /\ board[t].owner = Nobody
        THEN /\ board' = [board EXCEPT ![t] =
                  [@ EXCEPT !.owner = th[x].who, !.status = "in_progress"]]
             /\ Note("granted", {<<t, th[x].who, crashes>>})
             /\ IF At(x, "assign") THEN Goto(x, "mark") ELSE Done(x)
        ELSE Done(x) /\ UNCHANGED <<board, hist>>
  /\ UNCHANGED <<rev, files, created, declared, ops, crashes>>

\* The claim ends with update_task_status(InProgress), whatever the status is
\* by now.
MarkInProgress(c) ==
  /\ At(c, "mark") /\ Done(c)
  /\ board' = [board EXCEPT ![th[c].task].status = "in_progress"]
  /\ UNCHANGED <<rev, files, created, declared, ops, crashes, hist>>

\* auto_claim_idle_agents lists the ready tasks, then assigns one of them.
AutoClaim ==
  /\ At("heartbeat", "idle") /\ Op
  /\ \E t \in Tasks, a \in Agents :
       /\ IsReady(t) /\ board[t].owner = Nobody
       /\ Become("heartbeat", [Idle EXCEPT !.at = "hand", !.task = t,
                                           !.who = a])
  /\ UNCHANGED <<board, rev, files, created, declared, crashes, hist>>

-----------------------------------------------------------------------------
(* Ending tasks on the board *)

\* complete_task: the status first, then the dependents are read, then they
\* are unblocked; AgentCoordinator::complete_task also persists the task.
\* Broken: the dependents are read first.
CompleteReadingFirst(c) ==
  /\ \/ At(c, "idle") /\ Op
        /\ \E t \in Present :
             Become(c, [Idle EXCEPT !.at = "dependents", !.task = t,
                          !.deps = {p[2] : p \in {q \in rev : q[1] = t}}])
        /\ UNCHANGED <<board, hist>>
     \/ At(c, "dependents") /\ UNCHANGED ops
        /\ board' = [board EXCEPT ![th[c].task].status = "completed"]
        /\ Note("completing", {th[c].task})
        /\ Goto(c, "unblock")
  /\ UNCHANGED <<rev, files, created, declared, crashes>>
Complete(c) ==
  /\ At(c, "idle") /\ Op
  /\ \E t \in Present :
       /\ board' = [board EXCEPT ![t].status = "completed"]
       /\ Note("completing", {t})
       /\ Become(c, [Idle EXCEPT !.at = "dependents", !.task = t])
  /\ UNCHANGED <<rev, files, created, declared, crashes>>
Dependents(c) ==
  /\ At(c, "dependents")
  /\ Become(c, [th[c] EXCEPT !.at = "unblock",
                             !.deps = {p[2] : p \in {q \in rev : q[1] = th[c].task}}])
  /\ UNCHANGED <<board, rev, files, created, declared, ops, crashes, hist>>
Unblock(c) ==
  /\ At(c, "unblock")
  /\ board' = [u \in Tasks |-> IF u \in th[c].deps
                 THEN [board[u] EXCEPT !.blockedBy = @ \ {th[c].task}]
                 ELSE board[u]]
  /\ hist' = hist \cup {<<"unblocked", th[c].task>>, <<"shared", th[c].task>>}
  /\ Done(c) \/ Become(c, [th[c] EXCEPT !.at = "get", !.deps = {}])
  /\ UNCHANGED <<rev, files, created, declared, ops, crashes>>

\* fail_task and update_task_status, by a tool call or an agent process's
\* update_task request: the status is all that changes, and no blocker is looked
\* at (blocked, which nothing tells from in_progress, is left out).
Terminal == {"completed", "failed", "cancelled"}
SetStatus(t, status) ==
  /\ Op /\ board' = [board EXCEPT ![t].status = status]
  /\ Note("marked", IF status = "in_progress" THEN {t} ELSE {})
  /\ UNCHANGED <<rev, files, th, created, declared, crashes>>

-----------------------------------------------------------------------------
(* The work loop of a teammate: run_work_cycle *)

\* The files load_tasks may find half written: save_task writes in place.
Saving ==
  {th[x].task : x \in {y \in Threads : th[y].at \in {"save", "finish"}}}
    \cup UNION {{s.task : s \in th[x].saves} : x \in Threads}
LoadTasks == {{t \in Tasks : files[t].status # "absent"} \ S : S \in SUBSET Saving}

\* find_claimable_task takes the oldest.
\* Broken: blocked tasks are not left out.
FindBlocked(w) ==
  /\ At(w, "idle")
  /\ \E T \in LoadTasks :
       LET C == {t \in T : Claimable(files[t])}
       IN \E t \in C :
            /\ \A u \in C : t <= u
            /\ Become(w, [Idle EXCEPT !.at = "fileClaim", !.task = t, !.who = w])
  /\ UNCHANGED <<board, rev, files, created, declared, ops, crashes, hist>>
Find(w) ==
  /\ At(w, "idle")
  /\ \E T \in LoadTasks :
       LET C == {t \in T : Claimable(files[t]) /\ files[t].blockedBy = {}}
       IN \E t \in C :
            /\ \A u \in C : t <= u
            /\ Become(w, [Idle EXCEPT !.at = "fileClaim", !.task = t, !.who = w])
  /\ UNCHANGED <<board, rev, files, created, declared, ops, crashes, hist>>

\* The executor returns, and finish_claimed_task loads the task's file.
\* Broken: a status the readers do not know.
ExecuteDone(w) ==
  /\ At(w, "run")
  /\ Become(w, [th[w] EXCEPT !.at = "finish",
                             !.snap = [files[th[w].task] EXCEPT !.status = "done"]])
  /\ UNCHANGED <<board, rev, files, created, declared, ops, crashes, hist>>
Execute(w) ==
  /\ At(w, "run")
  /\ LET rec == files[th[w].task]
     IN IF rec.status = "absent" THEN Goto(w, "scan")
        ELSE \E out \in {"completed", "failed"} :
               Become(w, [th[w] EXCEPT !.at = "finish",
                                       !.snap = [rec EXCEPT !.status = out]])
  /\ UNCHANGED <<board, rev, files, created, declared, ops, crashes, hist>>
\* The status is saved, and the dependents are unblocked whichever it is.
FinishTask(w) ==
  /\ At(w, "finish")
  /\ LET t == th[w].task
     IN /\ files' = [files EXCEPT ![t] = th[w].snap]
        /\ hist' = hist \cup {<<"ran", <<t, th[w].snap.status>>>>}
             \cup {<<"owed", <<t, u>>>> : u \in {v \in Tasks : t \in files[v].blockedBy}}
  /\ Become(w, [th[w] EXCEPT !.at = "scan", !.snap = Absent])
  /\ UNCHANGED <<board, rev, created, declared, ops, crashes>>

\* The dependents are loaded once, without their locks, and saved one by one as
\* they were loaded, without this blocker.
ScanDependents(w) ==
  /\ At(w, "scan")
  /\ \E T \in LoadTasks :
       LET t == th[w].task
           S == {[task |-> u, rec |-> [files[u] EXCEPT !.blockedBy = @ \ {t}]] :
                  u \in {v \in T : t \in files[v].blockedBy}}
       IN IF S = {} THEN Done(w)
          ELSE Become(w, [th[w] EXCEPT !.at = "dependent", !.saves = S])
  /\ UNCHANGED <<board, rev, files, created, declared, ops, crashes, hist>>
UnblockFile(w) ==
  /\ At(w, "dependent")
  /\ \E s \in th[w].saves :
       /\ files' = [files EXCEPT ![s.task] = s.rec]
       /\ IF th[w].saves = {s} THEN Done(w)
          ELSE Become(w, [th[w] EXCEPT !.saves = @ \ {s}])
  /\ UNCHANGED <<board, rev, created, declared, ops, crashes, hist>>

\* The process dies, perhaps inside a save, and load_from_disk fills the next
\* one's board.  Nothing rebuilds the reverse dependencies.
Crash ==
  /\ crashes < MaxCrashes /\ crashes' = crashes + 1
  /\ files' \in {files} \cup {[files EXCEPT ![t] = Absent] : t \in Saving}
  /\ board' = files' /\ rev' = {} /\ th' = [x \in Threads |-> Idle]
  /\ UNCHANGED <<created, declared, ops, hist>>

-----------------------------------------------------------------------------
CallerStep(c) ==
  \/ Create(c) \/ Register(c) \/ Link(c) \/ GetTask(c) \/ PersistTask(c)
  \/ Claim(c) \/ MarkInProgress(c) \/ Complete(c) \/ Dependents(c) \/ Unblock(c)
LoopStep(w) ==
  \/ Find(w) \/ Execute(w) \/ FinishTask(w) \/ ScanDependents(w)
  \/ UnblockFile(w)
Next ==
  \/ \E c \in Callers : CallerStep(c)
  \/ \E w \in Loops : LoopStep(w)
  \/ \E x \in Threads : FileClaim(x) \/ AssignTask(x)
  \/ AutoClaim
  \/ \E t \in Present, s \in {"pending", "in_progress"} \cup Terminal :
       SetStatus(t, s)
  \/ Crash
Spec == Init /\ [][Next]_vars

-----------------------------------------------------------------------------
(* Properties *)

Rec == [status : {"absent", "pending", "in_progress"} \cup Terminal,
        owner : Agents \cup {Nobody}, blockedBy : SUBSET Tasks]
\* Every variable has its type, and a thread that works on a task works on a
\* created one.
TypeOK ==
  /\ board \in [Tasks -> Rec] /\ files \in [Tasks -> Rec]
  /\ rev \in SUBSET (Tasks \X Tasks)
  /\ created \in 0..NumTasks /\ declared \in [Tasks -> SUBSET Tasks]
  /\ ops \in Nat /\ crashes \in Nat
  /\ \A x \in Threads :
       /\ th[x].at \in {"idle", "save", "register", "link", "get", "fileClaim",
                        "assign", "hand", "mark", "dependents", "unblock", "run",
                        "finish", "scan", "dependent"}
       /\ th[x].at # "idle" => th[x].task \in 1..created
       /\ th[x].who \in Agents \cup {Nobody} /\ th[x].snap \in Rec
       /\ th[x].deps \in SUBSET Tasks
       /\ \A s \in th[x].saves : s.task \in Tasks /\ s.rec \in Rec

\* Blockers released by completing them, with complete_task or by a run of a work
\* loop, and blockers released by a run that failed.
Completed ==
  Happened("completing") \cup {r[1] : r \in {q \in Happened("ran") : q[2] = "completed"}}
FailedRuns == {r[1] : r \in {q \in Happened("ran") : q[2] # "completed"}}
Started == {p[1] : p \in Happened("started")} \cup {g[1] : g \in Happened("granted")}

\* A blocked task waits: neither a stale save, nor a half-read directory, nor a
\* restart starts it early.  The repository says that all its blockers must
\* complete first (task.rs, coordinator.rs, and a test of teammate.rs).  That is
\* so on the board until it is loaded from files: a task it grants, or has in
\* progress, has its blockers completed by complete_task, unless a status update
\* marked it in progress, which looks at no blocker.  It is not so for work loops,
\* nor for a board loaded after them: a failed run releases the dependents like a
\* completed one.  A cancelled blocker, or one failed by fail_task, never does.
BlockersFirst ==
  /\ \A t \in Started : declared[t] \subseteq Completed \cup FailedRuns
  /\ \A g \in Happened("granted") :
       g[3] = 0 => declared[g[1]] \subseteq Happened("completing")
  /\ crashes = 0 =>
       \A t \in Tasks : board[t].status = "in_progress" =>
         t \in Happened("marked") \/ declared[t] \subseteq Happened("completing")

\* The board gives a task to one agent at most until the process restarts,
\* whatever agents do to its status meanwhile.
GrantedOnce ==
  \A g, h \in Happened("granted") : g[1] = h[1] /\ g[3] = h[3] => g[2] = h[2]

\* The lock of a task file keeps work loops apart: a task is started by one loop
\* at most.  Left out is a task that an agent claims or completes through the
\* coordinator, whose saves ignore what is on disk, and everything that waits for
\* it, directly or not: a stale scan after a second run of a blocker puts its
\* dependent back to pending, and that one's dependent in turn.  So the promise
\* is about a set of tasks that wait only for each other and are left to loops.
LeftToLoops(U) ==
  (\A u \in U : declared[u] \subseteq U) /\ U \cap Happened("shared") = {}
LoopsStartOnce ==
  \A U \in SUBSET Tasks : LeftToLoops(U) =>
    \A p, q \in Happened("started") : p[1] = q[1] /\ p[1] \in U => p[2] = q[2]

\* complete_task leaves no dependent blocked that was registered on the board:
\* only one that add_dependency links to a completed task stays blocked.
BoardUnblocks ==
  \A p \in rev \ Happened("relinked") :
    \/ p[1] \notin Happened("unblocked")
    \/ p[1] \notin board[p[2]].blockedBy
    \/ \E c \in Callers : At(c, "link") /\ <<th[c].dep, th[c].task>> = p

\* A loop that has finished a task has unblocked, on disk, every task that
\* waited for it.
DependentsUnblocked ==
  (\A w \in Loops : At(w, "idle")) =>
    \A p \in Happened("owed") : p[1] \notin files[p[2]].blockedBy
=============================================================================
