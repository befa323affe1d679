--------------------------- MODULE TeamTasksProofs ---------------------------
(***************************************************************************)
(* Proofs about TeamTasks, for any agents, number of tasks and operations  *)
(* and any number of restarts.                                             *)
(***************************************************************************)
EXTENDS TeamTasks, TLAPS

-----------------------------------------------------------------------------
(* Types *)

HeartbeatPlaces == {"idle", "hand"}
LoopPlaces == {"idle", "fileClaim", "run", "finish", "scan", "dependent"}
CallerPlaces == {"idle", "save", "register", "link", "get", "fileClaim", "assign",
                 "hand", "mark", "dependents", "unblock"}
Places == HeartbeatPlaces \cup LoopPlaces \cup CallerPlaces
ThreadRec ==
  [at : Places, task : 0..NumTasks, who : Agents \cup {Nobody}, dep : 0..NumTasks,
   snap : Rec, deps : SUBSET Tasks, saves : SUBSET [task : Tasks, rec : Rec]]

StoresTyped ==
  /\ board \in [Tasks -> Rec] /\ files \in [Tasks -> Rec]
  /\ rev \in SUBSET (Tasks \X Tasks)
  /\ created \in 0..NumTasks /\ declared \in [Tasks -> SUBSET Tasks]
  /\ ops \in Nat /\ crashes \in Nat
ThreadsTyped == th \in [Threads -> ThreadRec]

\* Nothing is stored about a task before it is created.
NoneBefore ==
  /\ \A t \in Tasks : board[t].status # "absent" => t \in 1..created
  /\ \A t \in Tasks : files[t].status # "absent" => t \in 1..created
  /\ \A t \in Tasks : t \notin 1..created => declared[t] = {}

\* A thread of each kind is where its kind can be, with a created task and
\* whatever else it needs there.
Kind(x) == IF x = "heartbeat" THEN HeartbeatPlaces
           ELSE IF x \in Loops THEN LoopPlaces ELSE CallerPlaces
Placed(x, r, n) ==
  /\ r.at \in Kind(x)
  /\ r.at # "idle" => r.task \in 1..n
  /\ r.at \in {"fileClaim", "assign", "hand"} => r.who \in Agents
  /\ r.at = "link" => r.dep \in Tasks
  /\ \A s \in r.saves : s.task \in 1..n

TypeInv ==
  /\ StoresTyped /\ ThreadsTyped /\ NoneBefore
  /\ \A x \in Threads : Placed(x, th[x], created)

\* What has happened after the history grows.
LEMMA Noting ==
  ASSUME NEW A, hist' = hist \cup A
  PROVE  \A k : Happened(k)' = Happened(k) \cup {h[2] : h \in {g \in A : g[1] = k}}
  BY DEF Happened

\* What has happened after a Note.
LEMMA Noted ==
  ASSUME NEW k, NEW S, Note(k, S)
  PROVE  /\ Happened(k)' = Happened(k) \cup S
         /\ \A j : j # k => Happened(j)' = Happened(j)
<1> DEFINE Added == {<<k, v>> : v \in S}
<1>1. hist' = hist \cup Added
  BY DEF Note
<1>2. \A h \in Added : h[1] = k /\ h[2] \in S
  OBVIOUS
<1>3. ASSUME NEW v \in S PROVE \E h \in Added : h[1] = k /\ h[2] = v
  <2>1. <<k, v>> \in Added
    OBVIOUS
  <2>2. <<k, v>>[1] = k /\ <<k, v>>[2] = v
    OBVIOUS
  <2> HIDE DEF Added
  <2> QED
    BY <2>1, <2>2
<1> HIDE DEF Added
<1>4. \A j : Happened(j)' = Happened(j) \cup {h[2] : h \in {g \in Added : g[1] = j}}
  BY <1>1, Noting
<1>5. {h[2] : h \in {g \in Added : g[1] = k}} = S
  BY <1>2, <1>3
<1>6. ASSUME NEW j, j # k PROVE {h[2] : h \in {g \in Added : g[1] = j}} = {}
  BY <1>2, <1>6
<1> QED
  BY <1>4, <1>5, <1>6

\* What has happened after the dependents of a task are unblocked.
LEMMA NotedUnblock ==
  ASSUME NEW t, hist' = hist \cup {<<"unblocked", t>>, <<"shared", t>>}
  PROVE  /\ Happened("unblocked")' = Happened("unblocked") \cup {t}
         /\ Happened("shared")' = Happened("shared") \cup {t}
         /\ \A i : i # "unblocked" /\ i # "shared" => Happened(i)' = Happened(i)
<1> DEFINE a == <<"unblocked", t>>
           b == <<"shared", t>>
           Added == {a, b}
<1>1. \A i : Happened(i)' = Happened(i) \cup {h[2] : h \in {g \in Added : g[1] = i}}
  BY Noting
<1>2. a[1] = "unblocked" /\ a[2] = t /\ b[1] = "shared" /\ b[2] = t
  OBVIOUS
<1> HIDE DEF a, b
<1>3. {h[2] : h \in {g \in Added : g[1] = "unblocked"}} = {t}
  BY <1>2
<1>4. {h[2] : h \in {g \in Added : g[1] = "shared"}} = {t}
  BY <1>2
<1>5. ASSUME NEW i, i # "unblocked", i # "shared"
      PROVE  {h[2] : h \in {g \in Added : g[1] = i}} = {}
  BY <1>2, <1>5
<1> HIDE DEF Added
<1> QED
  BY <1>1, <1>3, <1>4, <1>5

\* What has happened after a loop finishes a task.
LEMMA NotedFinish ==
  ASSUME NEW w, FinishTask(w)
  PROVE  /\ Happened("ran")' = Happened("ran") \cup {<<th[w].task, th[w].snap.status>>}
         /\ \A k : k \notin {"ran", "owed"} => Happened(k)' = Happened(k)
<1> DEFINE t == th[w].task
           v == <<t, th[w].snap.status>>
           Owed == {<<"owed", <<t, u>>>> : u \in {z \in Tasks : t \in files[z].blockedBy}}
           Added == {<<"ran", v>>} \cup Owed
<1>1. hist' = hist \cup Added
  BY DEF FinishTask
<1>2. \A k : Happened(k)' = Happened(k) \cup {h[2] : h \in {g \in Added : g[1] = k}}
  BY <1>1, Noting
<1>3. \A h \in Owed : h[1] = "owed"
  OBVIOUS
<1> HIDE DEF Owed, v
<1>4. {h[2] : h \in {g \in Added : g[1] = "ran"}} = {v}
  <2>1. <<"ran", v>>[1] = "ran" /\ <<"ran", v>>[2] = v /\ <<"ran", v>> \in Added
    OBVIOUS
  <2>2. \A g \in Added : g = <<"ran", v>> \/ g[1] = "owed"
    BY <1>3
  <2> HIDE DEF Added
  <2> QED
    BY <2>1, <2>2
<1>5. ASSUME NEW k, k \notin {"ran", "owed"}
      PROVE  {h[2] : h \in {g \in Added : g[1] = k}} = {}
  BY <1>3, <1>5
<1> QED
  BY <1>2, <1>4, <1>5 DEF v

\* Nothing has happened when the history stays.
LEMMA NothingNew ==
  ASSUME UNCHANGED hist
  PROVE  \A j : Happened(j)' = Happened(j)
  BY DEF Happened

\* What a thread holds after Become, and that the others keep what they hold.
LEMMA Became ==
  ASSUME ThreadsTyped, NEW x \in Threads, NEW new \in ThreadRec, Become(x, new)
  PROVE  /\ ThreadsTyped' /\ th'[x] = new
         /\ \A y \in Threads : y # x => th'[y] = th[y]
  BY DEF ThreadsTyped, Become

\* The same, whatever the thread holds then.
LEMMA Moves ==
  ASSUME ThreadsTyped, NEW x \in Threads, NEW new, Become(x, new)
  PROVE  th'[x] = new /\ \A y \in Threads : y # x => th'[y] = th[y]
  BY DEF ThreadsTyped, Become

Statuses == {"absent", "pending", "in_progress"} \cup Terminal

\* A task record with another status, owner or set of blockers is one.
LEMMA Edited ==
  ASSUME NEW r \in Rec
  PROVE  /\ \A v \in Statuses : [r EXCEPT !.status = v] \in Rec
         /\ \A v \in Statuses, a \in Agents :
              /\ [r EXCEPT !.owner = a, !.status = v] \in Rec
              /\ [r EXCEPT !.status = v, !.owner = a] \in Rec
         /\ \A B \in SUBSET Tasks : /\ [r EXCEPT !.blockedBy = B] \in Rec
                                    /\ [r EXCEPT !.blockedBy = B].status = r.status
         /\ \A t \in Tasks : [r EXCEPT !.blockedBy = @ \cup {t}] \in Rec
         /\ \A t : [r EXCEPT !.blockedBy = @ \ {t}] \in Rec
  BY DEF Rec, Statuses

\* Idle is a thread's record, and every thread may hold it.
LEMMA IdleTyped ==
  ASSUME NEW x, NEW n
  PROVE  Idle \in ThreadRec /\ Placed(x, Idle, n)
<1>1. Absent \in Rec
  BY DEF Absent, Rec
<1>2. 0 \in 0..NumTasks
  BY TeamAssumption
<1>3. Idle \in ThreadRec
  BY <1>1, <1>2 DEF Idle, ThreadRec, Places, HeartbeatPlaces
<1>4. Placed(x, Idle, n)
  BY DEF Idle, Placed, Kind, HeartbeatPlaces, LoopPlaces, CallerPlaces
<1> QED
  BY <1>3, <1>4

\* TypeInv after a step of one thread: what it holds then is well placed, and
\* the stores keep their types.
LEMMA OneThread ==
  ASSUME TypeInv, StoresTyped', NoneBefore', created <= created',
         NEW x \in Threads, NEW new \in ThreadRec, Become(x, new),
         Placed(x, new, created')
  PROVE  TypeInv'
<1>1. ThreadsTyped' /\ th'[x] = new /\ \A y \in Threads : y # x => th'[y] = th[y]
  BY Became DEF TypeInv
<1>2. created \in Nat /\ created' \in Nat
  BY TeamAssumption DEF TypeInv, StoresTyped
<1>3. ASSUME NEW y \in Threads PROVE Placed(y, th'[y], created')
  BY <1>1, <1>2 DEF TypeInv, Placed
<1> QED
  BY <1>1, <1>3 DEF TypeInv

\* Every step keeps TypeInv.
LEMMA TypeStep == TypeInv /\ [Next]_vars => TypeInv'
<1> SUFFICES ASSUME TypeInv, [Next]_vars PROVE TypeInv'
  OBVIOUS
<1> USE TeamAssumption
<1>1. /\ StoresTyped /\ ThreadsTyped /\ NoneBefore
      /\ \A x \in Threads : th[x] \in ThreadRec /\ Placed(x, th[x], created)
  BY DEF TypeInv, ThreadsTyped
<1>2. ASSUME NEW x \in Threads, Done(x), StoresTyped', NoneBefore', created <= created'
      PROVE  TypeInv'
  BY <1>1, <1>2, IdleTyped, OneThread DEF Done
<1>same. created <= created
  BY <1>1 DEF StoresTyped
<1>c. ASSUME NEW c \in Callers, CallerStep(c) PROVE TypeInv'
  <2>x. c \in Threads /\ c # "heartbeat" /\ c \notin Loops /\ c \in Agents
    BY DEF Threads, Agents
  <2>k. Kind(c) = CallerPlaces
    BY <2>x DEF Kind
  <2>t. th[c] \in ThreadRec /\ Placed(c, th[c], created)
    BY <2>x, <1>1
  <2>1. CASE Create(c)
    <3> DEFINE t == created + 1
    <3>1. PICK D \in SUBSET Present :
            /\ board' = [board EXCEPT ![t] = New(D)]
            /\ declared' = [declared EXCEPT ![t] = D]
            /\ \/ D = {} /\ Become(c, [Idle EXCEPT !.at = "save", !.task = t,
                                                  !.snap = New(D)])
               \/ Become(c, [Idle EXCEPT !.at = "register", !.task = t, !.deps = D])
               \/ UNCHANGED th
               \/ \E a \in Agents : Become(c, [Idle EXCEPT !.at = "hand",
                                                           !.task = t, !.who = a])
      BY <2>1 DEF Create
    <3>a. created < NumTasks /\ created' = t /\ UNCHANGED <<rev, files, ops, crashes>>
      BY <2>1 DEF Create
    <3>b. t \in Tasks /\ t \in 0..NumTasks /\ created <= created' /\ t \in 1..created'
      BY <3>a, <1>1 DEF StoresTyped, Tasks
    <3>c. D \in SUBSET Tasks
      BY DEF Present
    <3>2. /\ t \in Tasks /\ created' = t /\ created <= created' /\ t \in 1..created'
          /\ D \in SUBSET Tasks /\ t \in 0..NumTasks /\ UNCHANGED <<rev, files, ops, crashes>>
      BY <3>a, <3>b, <3>c
    <3>3. New(D) \in Rec
      BY <3>2 DEF New, Rec
    <3>4. StoresTyped'
      BY <3>1, <3>2, <3>3, <1>1 DEF StoresTyped, Tasks
    <3>d. \A u \in Tasks : u # t => board'[u] = board[u] /\ declared'[u] = declared[u]
      BY <3>1, <1>1 DEF StoresTyped
    <3>e. 1..created \subseteq 1..created'
      BY <3>a, <1>1 DEF StoresTyped
    <3>5. NoneBefore'
      BY <3>b, <3>d, <3>e, <3>2, <1>1 DEF NoneBefore
    <3> HIDE DEF t
    <3>6. ASSUME Become(c, [Idle EXCEPT !.at = "save", !.task = t, !.snap = New(D)])
          PROVE  TypeInv'
      <4> DEFINE r == [Idle EXCEPT !.at = "save", !.task = t, !.snap = New(D)]
      <4>1. r \in ThreadRec /\ r.at = "save" /\ r.task = t /\ r.saves = {}
        BY <3>2, <3>3, IdleTyped DEF Idle, ThreadRec, Places, CallerPlaces
      <4>2. Placed(c, r, created')
        BY <4>1, <3>2, <2>k DEF Placed, CallerPlaces
      <4> QED
        BY <3>6, <4>1, <4>2, <3>2, <3>4, <3>5, <2>x, OneThread
    <3>7. ASSUME Become(c, [Idle EXCEPT !.at = "register", !.task = t, !.deps = D])
          PROVE  TypeInv'
      <4> DEFINE r == [Idle EXCEPT !.at = "register", !.task = t, !.deps = D]
      <4>1. r \in ThreadRec /\ r.at = "register" /\ r.task = t /\ r.saves = {}
        BY <3>2, IdleTyped DEF Idle, ThreadRec, Places, CallerPlaces
      <4>2. Placed(c, r, created')
        BY <4>1, <3>2, <2>k DEF Placed, CallerPlaces
      <4> QED
        BY <3>7, <4>1, <4>2, <3>2, <3>4, <3>5, <2>x, OneThread
    <3>8. ASSUME UNCHANGED th PROVE TypeInv'
      <4>1. Become(c, th[c])
        BY <3>8, <1>1, <2>x DEF Become, ThreadsTyped
      <4>2. Placed(c, th[c], created')
        BY <2>t, <3>2, <1>1 DEF Placed, StoresTyped
      <4> QED
        BY <4>1, <4>2, <3>2, <3>4, <3>5, <2>x, <2>t, OneThread
    <3>9. ASSUME NEW a \in Agents,
                 Become(c, [Idle EXCEPT !.at = "hand", !.task = t, !.who = a])
          PROVE  TypeInv'
      <4> DEFINE r == [Idle EXCEPT !.at = "hand", !.task = t, !.who = a]
      <4>1. r \in ThreadRec /\ r.at = "hand" /\ r.task = t /\ r.who = a /\ r.saves = {}
        BY <3>2, IdleTyped DEF Idle, ThreadRec, Places, CallerPlaces
      <4>2. Placed(c, r, created')
        BY <4>1, <3>2, <2>k DEF Placed, CallerPlaces
      <4> QED
        BY <3>9, <4>1, <4>2, <3>2, <3>4, <3>5, <2>x, OneThread
    <3> QED
      BY <3>1, <3>6, <3>7, <3>8, <3>9 DEF t
  <2>2. CASE Register(c)
    <3>1. PICK d \in th[c].deps :
            /\ rev' = rev \cup {<<d, th[c].task>>}
            /\ Become(c, [th[c] EXCEPT !.at = "link", !.dep = d, !.deps = @ \ {d}])
      BY <2>2 DEF Register
    <3> DEFINE r == [th[c] EXCEPT !.at = "link", !.dep = d, !.deps = @ \ {d}]
    <3>2. At(c, "register") /\ UNCHANGED <<board, files, created, declared, ops, crashes>>
      BY <2>2 DEF Register
    <3>3. d \in Tasks /\ th[c].task \in 1..created /\ th[c].task \in Tasks
      BY <2>t, <3>2, <1>1 DEF At, ThreadRec, Placed, StoresTyped, Tasks
    <3>4. /\ r \in ThreadRec /\ r.at = "link" /\ r.dep = d /\ r.task = th[c].task
          /\ r.saves = th[c].saves
      <4>1. d \in 0..NumTasks /\ th[c].deps \ {d} \in SUBSET Tasks
        BY <2>t, <3>3 DEF Tasks, ThreadRec
      <4> QED
        BY <2>t, <4>1 DEF ThreadRec, Places, CallerPlaces
    <3>5. Placed(c, r, created')
      BY <2>t, <2>k, <3>2, <3>3, <3>4 DEF Placed, CallerPlaces
    <3>6. StoresTyped' /\ NoneBefore'
      BY <1>1, <3>1, <3>2, <3>3 DEF StoresTyped, NoneBefore
    <3> QED
      BY <1>same, <2>x, <3>1, <3>2, <3>4, <3>5, <3>6, OneThread
  <2>3. CASE Link(c)
    <3> DEFINE r == [th[c] EXCEPT !.at = "register", !.dep = 0]
    <3>1. /\ At(c, "link") /\ UNCHANGED <<rev, files, created, declared, ops, crashes>>
          /\ Become(c, r)
          /\ board' = [board EXCEPT ![th[c].task].blockedBy = @ \cup {th[c].dep}]
      BY <2>3 DEF Link
    <3>2. th[c].dep \in Tasks /\ th[c].task \in 1..created /\ th[c].task \in Tasks
      BY <2>t, <3>1, <1>1 DEF At, Placed, StoresTyped, Tasks
    <3>0. 0 \in 0..NumTasks
      OBVIOUS
    <3>3. r \in ThreadRec /\ r.at = "register" /\ r.task = th[c].task /\ r.saves = th[c].saves
      BY <2>t, <3>0 DEF ThreadRec, Places, CallerPlaces
    <3>4. Placed(c, r, created')
      BY <2>t, <2>k, <3>1, <3>2, <3>3 DEF Placed, CallerPlaces
    <3>b. board'[th[c].task] \in Rec
      BY <1>1, <3>1, <3>2, Edited DEF StoresTyped
    <3>5. StoresTyped'
      BY <1>1, <3>1, <3>2, <3>b DEF StoresTyped
    <3>6. NoneBefore'
      BY <1>1, <3>1, <3>2 DEF StoresTyped, Rec, NoneBefore
    <3> QED
      BY <1>same, <2>x, <3>1, <3>3, <3>4, <3>5, <3>6, OneThread
  <2>4. CASE GetTask(c)
    <3> DEFINE r == [th[c] EXCEPT !.at = "save", !.snap = board[th[c].task]]
    <3>1. /\ At(c, "get") \/ At(c, "register")
          /\ UNCHANGED <<board, rev, files, created, declared, ops, crashes>>
          /\ Become(c, r)
      BY <2>4 DEF GetTask
    <3>2. th[c].task \in 1..created /\ th[c].task \in Tasks
      BY <2>t, <3>1, <1>1 DEF At, Placed, StoresTyped, Tasks
    <3>3. r \in ThreadRec /\ r.at = "save" /\ r.task = th[c].task /\ r.saves = th[c].saves
      BY <1>1, <2>t, <3>2 DEF ThreadRec, Places, CallerPlaces, StoresTyped
    <3>4. Placed(c, r, created')
      BY <2>t, <2>k, <3>1, <3>2, <3>3 DEF Placed, CallerPlaces
    <3>5. StoresTyped' /\ NoneBefore'
      BY <1>1, <3>1 DEF StoresTyped, NoneBefore
    <3> QED
      BY <1>same, <2>x, <3>1, <3>3, <3>4, <3>5, OneThread
  <2>5. CASE PersistTask(c)
    <3>1. /\ At(c, "save") /\ UNCHANGED <<board, rev, created, declared, ops, crashes>>
          /\ files' = [files EXCEPT ![th[c].task] = th[c].snap] /\ Done(c)
      BY <2>5 DEF PersistTask
    <3>2. th[c].task \in 1..created /\ th[c].task \in Tasks /\ th[c].snap \in Rec
      BY <2>t, <3>1, <1>1 DEF At, Placed, StoresTyped, Tasks, ThreadRec
    <3>3. StoresTyped' /\ NoneBefore'
      BY <1>1, <3>1, <3>2 DEF StoresTyped, NoneBefore
    <3> QED
      BY <1>2, <1>same, <2>x, <3>1, <3>3
  <2>6. CASE Claim(c)
    <3>1. PICK t \in Present :
            Become(c, [Idle EXCEPT !.at = "fileClaim", !.task = t, !.who = c])
      BY <2>6 DEF Claim
    <3> DEFINE r == [Idle EXCEPT !.at = "fileClaim", !.task = t, !.who = c]
    <3>2. ops' = ops + 1 /\ UNCHANGED <<board, rev, files, created, declared, crashes>>
      BY <2>6 DEF Claim, Op
    <3>3. t \in 1..created /\ t \in 0..NumTasks
      BY <1>1 DEF Present, NoneBefore, Tasks
    <3>4. r \in ThreadRec /\ r.at = "fileClaim" /\ r.task = t /\ r.who = c /\ r.saves = {}
      BY <2>x, <3>3, IdleTyped DEF Idle, ThreadRec, Places, CallerPlaces
    <3>5. Placed(c, r, created')
      BY <2>x, <2>k, <3>2, <3>3, <3>4 DEF Placed, CallerPlaces
    <3>6. StoresTyped' /\ NoneBefore'
      BY <1>1, <3>2 DEF StoresTyped, NoneBefore
    <3> QED
      BY <1>same, <2>x, <3>1, <3>2, <3>4, <3>5, <3>6, OneThread
  <2>7. CASE MarkInProgress(c)
    <3>1. /\ At(c, "mark") /\ UNCHANGED <<rev, files, created, declared, ops, crashes>>
          /\ board' = [board EXCEPT ![th[c].task].status = "in_progress"] /\ Done(c)
      BY <2>7 DEF MarkInProgress
    <3>2. th[c].task \in 1..created /\ th[c].task \in Tasks
      BY <2>t, <3>1, <1>1 DEF At, Placed, StoresTyped, Tasks
    <3>3. StoresTyped' /\ NoneBefore'
      BY <1>1, <3>1, <3>2, SMTT(40) DEF StoresTyped, NoneBefore, Rec
    <3> QED
      BY <1>2, <1>same, <2>x, <3>1, <3>3
  <2>8. CASE Complete(c)
    <3>1. PICK t \in Present :
            /\ board' = [board EXCEPT ![t].status = "completed"]
            /\ Become(c, [Idle EXCEPT !.at = "dependents", !.task = t])
      BY <2>8 DEF Complete
    <3> DEFINE r == [Idle EXCEPT !.at = "dependents", !.task = t]
    <3>2. ops' = ops + 1 /\ UNCHANGED <<rev, files, created, declared, crashes>>
      BY <2>8 DEF Complete, Op
    <3>3. t \in 1..created /\ t \in 0..NumTasks /\ t \in Tasks
      BY <1>1 DEF Present, NoneBefore, Tasks
    <3>4. r \in ThreadRec /\ r.at = "dependents" /\ r.task = t /\ r.saves = {}
      BY <3>3, IdleTyped DEF Idle, ThreadRec, Places, CallerPlaces
    <3>5. Placed(c, r, created')
      BY <2>k, <3>2, <3>3, <3>4, SMTT(40) DEF Placed, CallerPlaces
    <3>b. board'[t] \in Rec
      BY <1>1, <3>1, <3>3, Edited DEF StoresTyped, Statuses, Terminal
    <3>6. StoresTyped' /\ NoneBefore'
      BY <1>1, <3>1, <3>2, <3>3, <3>b DEF StoresTyped, NoneBefore
    <3> QED
      BY <1>same, <2>x, <3>1, <3>2, <3>4, <3>5, <3>6, OneThread
  <2>9. CASE Dependents(c)
    <3> DEFINE S == {p[2] : p \in {q \in rev : q[1] = th[c].task}}
               r == [th[c] EXCEPT !.at = "unblock", !.deps = S]
    <3>1. /\ At(c, "dependents") /\ Become(c, r)
          /\ UNCHANGED <<board, rev, files, created, declared, ops, crashes>>
      BY <2>9 DEF Dependents
    <3>2. S \in SUBSET Tasks
      BY <1>1 DEF StoresTyped
    <3> HIDE DEF S
    <3>3. r \in ThreadRec /\ r.at = "unblock" /\ r.task = th[c].task /\ r.saves = th[c].saves
      BY <2>t, <3>2 DEF ThreadRec, Places, CallerPlaces
    <3>4. Placed(c, r, created')
      BY <2>t, <2>k, <3>1, <3>3 DEF Placed, CallerPlaces, At
    <3>5. StoresTyped' /\ NoneBefore'
      BY <1>1, <3>1 DEF StoresTyped, NoneBefore
    <3> QED
      BY <1>same, <2>x, <3>1, <3>3, <3>4, <3>5, OneThread
  <2>10. CASE Unblock(c)
    <3> DEFINE r == [th[c] EXCEPT !.at = "get", !.deps = {}]
    <3>1. /\ At(c, "unblock")
          /\ Done(c) \/ Become(c, r)
          /\ UNCHANGED <<rev, files, created, declared, ops, crashes>>
          /\ board' = [u \in Tasks |-> IF u \in th[c].deps
                         THEN [board[u] EXCEPT !.blockedBy = @ \ {th[c].task}]
                         ELSE board[u]]
      BY <2>10 DEF Unblock
    <3>2. r \in ThreadRec /\ r.at = "get" /\ r.task = th[c].task /\ r.saves = th[c].saves
      BY <2>t DEF ThreadRec, Places, CallerPlaces
    <3>3. Placed(c, r, created')
      BY <2>t, <2>k, <3>1, <3>2 DEF Placed, CallerPlaces, At
    <3>4. ASSUME NEW u \in Tasks
          PROVE  board'[u] \in Rec /\ board'[u].status = board[u].status
      <4>1. board[u] \in Rec /\ board[u].blockedBy \ {th[c].task} \in SUBSET Tasks
        BY <1>1 DEF StoresTyped, Rec
      <4> QED
        BY <3>1, <4>1, Edited
    <3>5. StoresTyped' /\ NoneBefore'
      BY <1>1, <3>1, <3>4 DEF StoresTyped, NoneBefore
    <3> QED
      BY <1>2, <1>same, <2>x, <3>1, <3>2, <3>3, <3>5, OneThread
  <2> QED
    BY <1>c, <2>1, <2>2, <2>3, <2>4, <2>5, <2>6, <2>7, <2>8, <2>9, <2>10 DEF CallerStep
<1>l. ASSUME NEW w \in Loops, LoopStep(w) PROVE TypeInv'
  <2>x. w \in Threads /\ w # "heartbeat" /\ w \in Agents
    BY DEF Threads, Agents
  <2>k. Kind(w) = LoopPlaces
    BY <2>x DEF Kind
  <2>t. th[w] \in ThreadRec /\ Placed(w, th[w], created)
    BY <2>x, <1>1
  <2>1. CASE Find(w)
    <3>1. PICK t \in Tasks :
            /\ files[t].status = "pending"
            /\ Become(w, [Idle EXCEPT !.at = "fileClaim", !.task = t, !.who = w])
      BY <2>1 DEF Find, LoadTasks, Claimable
    <3> DEFINE r == [Idle EXCEPT !.at = "fileClaim", !.task = t, !.who = w]
    <3>2. UNCHANGED <<board, rev, files, created, declared, ops, crashes>>
      BY <2>1 DEF Find
    <3>3. t \in 1..created /\ t \in 0..NumTasks
      BY <1>1, <3>1 DEF NoneBefore, Tasks
    <3>4. r \in ThreadRec /\ r.at = "fileClaim" /\ r.task = t /\ r.who = w /\ r.saves = {}
      BY <2>x, <3>3, IdleTyped DEF Idle, ThreadRec, Places, LoopPlaces
    <3>5. Placed(w, r, created')
      BY <2>x, <2>k, <3>2, <3>3, <3>4 DEF Placed, LoopPlaces
    <3>6. StoresTyped' /\ NoneBefore'
      BY <1>1, <3>2 DEF StoresTyped, NoneBefore
    <3> QED
      BY <1>same, <2>x, <3>1, <3>2, <3>4, <3>5, <3>6, OneThread
  <2>2. CASE Execute(w)
    <3> DEFINE rec == files[th[w].task]
    <3>1. At(w, "run") /\ UNCHANGED <<board, rev, files, created, declared, ops, crashes>>
      BY <2>2 DEF Execute
    <3>2. th[w].task \in 1..created /\ th[w].task \in Tasks
      BY <2>t, <3>1, <1>1 DEF At, Placed, StoresTyped, Tasks
    <3>3. StoresTyped' /\ NoneBefore'
      BY <1>1, <3>1 DEF StoresTyped, NoneBefore
    <3>4. CASE rec.status = "absent"
      <4> DEFINE r == [th[w] EXCEPT !.at = "scan"]
      <4>1. Become(w, r)
        BY <2>2, <3>4 DEF Execute, Goto
      <4>2. r \in ThreadRec /\ r.at = "scan" /\ r.task = th[w].task /\ r.saves = th[w].saves
        BY <2>t DEF ThreadRec, Places, LoopPlaces
      <4>3. Placed(w, r, created')
        BY <2>t, <2>k, <3>1, <3>2, <4>2 DEF Placed, LoopPlaces
      <4> QED
        BY <1>same, <2>x, <3>1, <3>3, <4>1, <4>2, <4>3, OneThread
    <3>5. CASE rec.status # "absent"
      <4>1. PICK out \in {"completed", "failed"} :
              Become(w, [th[w] EXCEPT !.at = "finish",
                                      !.snap = [rec EXCEPT !.status = out]])
        BY <2>2, <3>5, SMTT(40) DEF Execute
      <4> DEFINE r == [th[w] EXCEPT !.at = "finish", !.snap = [rec EXCEPT !.status = out]]
      <4>2. [rec EXCEPT !.status = out] \in Rec
        BY <1>1, <3>2, Edited DEF StoresTyped, Statuses, Terminal
      <4>3. r \in ThreadRec /\ r.at = "finish" /\ r.task = th[w].task /\ r.saves = th[w].saves
        BY <2>t, <4>2 DEF ThreadRec, Places, LoopPlaces
      <4>4. Placed(w, r, created')
        BY <2>t, <2>k, <3>1, <3>2, <4>3 DEF Placed, LoopPlaces
      <4> QED
        BY <1>same, <2>x, <3>1, <3>3, <4>1, <4>3, <4>4, OneThread
    <3> QED
      BY <3>4, <3>5
  <2>3. CASE FinishTask(w)
    <3> DEFINE r == [th[w] EXCEPT !.at = "scan", !.snap = Absent]
    <3>1. /\ At(w, "finish") /\ Become(w, r)
          /\ UNCHANGED <<board, rev, created, declared, ops, crashes>>
          /\ files' = [files EXCEPT ![th[w].task] = th[w].snap]
      BY <2>3 DEF FinishTask
    <3>2. th[w].task \in 1..created /\ th[w].task \in Tasks /\ th[w].snap \in Rec
      BY <2>t, <3>1, <1>1 DEF At, Placed, StoresTyped, Tasks, ThreadRec
    <3>3. StoresTyped' /\ NoneBefore'
      BY <1>1, <3>1, <3>2 DEF StoresTyped, NoneBefore
    <3>4. Absent \in Rec
      BY DEF Absent, Rec
    <3>5. r \in ThreadRec /\ r.at = "scan" /\ r.task = th[w].task /\ r.saves = th[w].saves
      BY <2>t, <3>4 DEF ThreadRec, Places, LoopPlaces
    <3>6. Placed(w, r, created')
      BY <2>t, <2>k, <3>1, <3>2, <3>5 DEF Placed, LoopPlaces
    <3> QED
      BY <1>same, <2>x, <3>1, <3>3, <3>5, <3>6, OneThread
  <2>4. CASE ScanDependents(w)
    <3> DEFINE t == th[w].task
               V(T) == {v \in T : t \in files[v].blockedBy}
               S(T) == {[task |-> u, rec |-> [files[u] EXCEPT !.blockedBy = @ \ {t}]] :
                          u \in V(T)}
    <3>1. At(w, "scan") /\ UNCHANGED <<board, rev, files, created, declared, ops, crashes>>
      BY <2>4 DEF ScanDependents
    <3>2. PICK T \in LoadTasks :
            IF S(T) = {} THEN Done(w)
            ELSE Become(w, [th[w] EXCEPT !.at = "dependent", !.saves = S(T)])
      BY <2>4 DEF ScanDependents
    <3>3. StoresTyped' /\ NoneBefore'
      BY <1>1, <3>1 DEF StoresTyped, NoneBefore
    <3>4. \A u \in T : u \in Tasks /\ files[u].status # "absent"
      BY DEF LoadTasks
    <3>5. \A u \in T : u \in 1..created /\ [files[u] EXCEPT !.blockedBy = @ \ {t}] \in Rec
      BY <1>1, <3>4, Edited DEF NoneBefore, StoresTyped
    <3>6. \A s \in S(T) : s \in [task : Tasks, rec : Rec] /\ s.task \in 1..created
      BY <3>4, <3>5
    <3> HIDE DEF S
    <3> DEFINE r == [th[w] EXCEPT !.at = "dependent", !.saves = S(T)]
    <3>7. r \in ThreadRec /\ r.at = "dependent" /\ r.task = th[w].task /\ r.saves = S(T)
      <4>1. S(T) \in SUBSET [task : Tasks, rec : Rec]
        BY <3>6
      <4> QED
        BY <2>t, <4>1 DEF ThreadRec, Places, LoopPlaces
    <3>8. Placed(w, r, created')
      BY <2>t, <2>k, <3>1, <3>6, <3>7 DEF Placed, LoopPlaces, At
    <3>9. CASE S(T) = {}
      BY <1>2, <1>same, <2>x, <3>1, <3>2, <3>3, <3>9
    <3>10. CASE S(T) # {}
      BY <1>same, <2>x, <3>1, <3>2, <3>3, <3>7, <3>8, <3>10, OneThread
    <3> QED
      BY <3>9, <3>10
  <2>5. CASE UnblockFile(w)
    <3>1. PICK s \in th[w].saves :
            /\ files' = [files EXCEPT ![s.task] = s.rec]
            /\ IF th[w].saves = {s} THEN Done(w)
               ELSE Become(w, [th[w] EXCEPT !.saves = @ \ {s}])
      BY <2>5 DEF UnblockFile
    <3>2. At(w, "dependent") /\ UNCHANGED <<board, rev, created, declared, ops, crashes>>
      BY <2>5 DEF UnblockFile
    <3>3. s.task \in Tasks /\ s.task \in 1..created /\ s.rec \in Rec
      BY <2>t DEF Placed, ThreadRec
    <3>4. StoresTyped' /\ NoneBefore'
      BY <1>1, <3>1, <3>2, <3>3 DEF StoresTyped, NoneBefore
    <3> DEFINE r == [th[w] EXCEPT !.saves = @ \ {s}]
    <3>5. /\ r \in ThreadRec /\ r.at = "dependent" /\ r.task = th[w].task
          /\ r.saves = th[w].saves \ {s}
      <4>1. th[w].saves \ {s} \in SUBSET [task : Tasks, rec : Rec]
        BY <2>t DEF ThreadRec
      <4> QED
        BY <2>t, <3>2, <4>1 DEF ThreadRec, At
    <3>6. Placed(w, r, created')
      BY <2>t, <2>k, <3>2, <3>5 DEF Placed, LoopPlaces, At
    <3>7. CASE th[w].saves = {s}
      BY <1>2, <1>same, <2>x, <3>1, <3>2, <3>4, <3>7
    <3>8. CASE th[w].saves # {s}
      BY <1>same, <2>x, <3>1, <3>2, <3>4, <3>5, <3>6, <3>8, OneThread
    <3> QED
      BY <3>7, <3>8
  <2> QED
    BY <1>l, <2>1, <2>2, <2>3, <2>4, <2>5 DEF LoopStep
<1>f. ASSUME NEW x \in Threads, FileClaim(x) PROVE TypeInv'
  <2> DEFINE t == th[x].task
             l == IF x \in Loops THEN "run" ELSE "assign"
             r == [th[x] EXCEPT !.at = l]
  <2>1. At(x, "fileClaim") /\ UNCHANGED <<board, rev, created, declared, ops, crashes>>
    BY <1>f DEF FileClaim
  <2>2. th[x] \in ThreadRec /\ Placed(x, th[x], created)
    BY <1>1
  <2>3. x # "heartbeat" /\ x \in Agents /\ t \in 1..created /\ t \in Tasks
    BY <2>1, <2>2, <1>1
       DEF At, Placed, Kind, HeartbeatPlaces, Threads, Agents, StoresTyped, Tasks
  <2>4. CASE Claimable(files[t])
    <3>1. /\ files' = [files EXCEPT ![t] = [@ EXCEPT !.status = "in_progress", !.owner = x]]
          /\ Become(x, r)
      BY <1>f, <2>4 DEF FileClaim, Goto
    <3>2. files'[t] \in Rec
      BY <1>1, <2>3, <3>1, Edited DEF StoresTyped, Statuses
    <3>3. StoresTyped' /\ NoneBefore'
      BY <1>1, <2>1, <2>3, <3>1, <3>2 DEF StoresTyped, NoneBefore
    <3>4. r \in ThreadRec /\ r.at = l /\ r.task = t /\ r.saves = th[x].saves /\ r.who = th[x].who
      BY <2>2 DEF ThreadRec, Places, LoopPlaces, CallerPlaces
    <3>5. Placed(x, r, created')
      BY <2>1, <2>2, <2>3, <3>4 DEF At, Placed, Kind, LoopPlaces, CallerPlaces
    <3> QED
      BY <1>same, <2>1, <3>1, <3>3, <3>4, <3>5, OneThread
  <2>5. CASE ~Claimable(files[t])
    <3>1. Done(x) /\ UNCHANGED files
      BY <1>f, <2>5 DEF FileClaim
    <3>2. StoresTyped' /\ NoneBefore'
      BY <1>1, <2>1, <3>1 DEF StoresTyped, NoneBefore
    <3> QED
      BY <1>2, <1>same, <2>1, <3>1, <3>2
  <2> QED
    BY <2>4, <2>5
<1>a. ASSUME NEW x \in Threads, AssignTask(x) PROVE TypeInv'
  <2> DEFINE t == th[x].task
             r == [th[x] EXCEPT !.at = "mark"]
  <2>1. /\ At(x, "assign") \/ At(x, "hand")
        /\ UNCHANGED <<rev, files, created, declared, ops, crashes>>
    BY <1>a DEF AssignTask
  <2>2. th[x] \in ThreadRec /\ Placed(x, th[x], created)
    BY <1>1
  <2>3. t \in 1..created /\ t \in Tasks /\ th[x].who \in Agents
    BY <2>1, <2>2, <1>1 DEF At, Placed, StoresTyped, Tasks
  <2>4. CASE IsReady(t) /\ board[t].owner = Nobody
    <3>1. /\ board' = [board EXCEPT ![t] =
                         [@ EXCEPT !.owner = th[x].who, !.status = "in_progress"]]
          /\ IF At(x, "assign") THEN Become(x, r) ELSE Done(x)
      BY <1>a, <2>4 DEF AssignTask, Goto
    <3>2. board'[t] \in Rec
      BY <1>1, <2>3, <3>1, Edited DEF StoresTyped, Statuses
    <3>3. StoresTyped' /\ NoneBefore'
      BY <1>1, <2>1, <2>3, <3>1, <3>2 DEF StoresTyped, NoneBefore
    <3>4. r \in ThreadRec /\ r.at = "mark" /\ r.task = t /\ r.saves = th[x].saves
      BY <2>2 DEF ThreadRec, Places, CallerPlaces
    <3>5. At(x, "assign") => Kind(x) = CallerPlaces
      BY <2>2 DEF At, Placed, Kind, LoopPlaces, HeartbeatPlaces
    <3>6. At(x, "assign") => Placed(x, r, created')
      BY <2>1, <2>2, <2>3, <3>4, <3>5 DEF Placed, CallerPlaces
    <3> QED
      BY <1>2, <1>same, <2>1, <3>1, <3>3, <3>4, <3>6, OneThread
  <2>5. CASE ~(IsReady(t) /\ board[t].owner = Nobody)
    <3>1. Done(x) /\ UNCHANGED board
      BY <1>a, <2>5 DEF AssignTask
    <3>2. StoresTyped' /\ NoneBefore'
      BY <1>1, <2>1, <3>1 DEF StoresTyped, NoneBefore
    <3> QED
      BY <1>2, <1>same, <2>1, <3>1, <3>2
  <2> QED
    BY <2>4, <2>5
<1>u. ASSUME AutoClaim PROVE TypeInv'
  <2>1. PICK t \in Tasks, a \in Agents :
          /\ IsReady(t)
          /\ Become("heartbeat", [Idle EXCEPT !.at = "hand", !.task = t, !.who = a])
    BY <1>u DEF AutoClaim
  <2>2. ops' = ops + 1 /\ UNCHANGED <<board, rev, files, created, declared, crashes>>
    BY <1>u DEF AutoClaim, Op
  <2> DEFINE r == [Idle EXCEPT !.at = "hand", !.task = t, !.who = a]
  <2>3. t \in 1..created /\ t \in 0..NumTasks
    BY <1>1, <2>1 DEF IsReady, NoneBefore, Tasks
  <2>4. r \in ThreadRec /\ r.at = "hand" /\ r.task = t /\ r.who = a /\ r.saves = {}
    BY <2>3, IdleTyped DEF Idle, ThreadRec, Places, CallerPlaces
  <2>5. "heartbeat" \in Threads /\ Placed("heartbeat", r, created')
    BY <2>2, <2>3, <2>4 DEF Placed, Kind, HeartbeatPlaces, Threads
  <2>6. StoresTyped' /\ NoneBefore'
    BY <1>1, <2>2 DEF StoresTyped, NoneBefore
  <2> QED
    BY <1>same, <2>1, <2>2, <2>4, <2>5, <2>6, OneThread
<1>s. ASSUME NEW t \in Present, NEW s \in {"pending", "in_progress"} \cup Terminal,
             SetStatus(t, s)
      PROVE  TypeInv'
  <2>1. /\ board' = [board EXCEPT ![t].status = s] /\ ops' = ops + 1
        /\ UNCHANGED <<rev, files, th, created, declared, crashes>>
    BY <1>s DEF SetStatus, Op
  <2>2. t \in 1..created /\ t \in Tasks
    BY <1>1 DEF Present, NoneBefore
  <2>3. board'[t] \in Rec
    BY <1>1, <2>1, <2>2, Edited DEF StoresTyped, Statuses
  <2>4. StoresTyped' /\ NoneBefore'
    BY <1>1, <2>1, <2>2, <2>3 DEF StoresTyped, NoneBefore
  <2> QED
    BY <1>1, <2>1, <2>4 DEF TypeInv, ThreadsTyped
<1>r. ASSUME Crash PROVE TypeInv'
  <2>1. /\ crashes' = crashes + 1 /\ board' = files' /\ rev' = {}
        /\ th' = [x \in Threads |-> Idle] /\ UNCHANGED <<created, declared, ops>>
        /\ files' \in {files} \cup {[files EXCEPT ![t] = Absent] : t \in Saving}
    BY <1>r DEF Crash
  <2>2. \A t \in Tasks : files'[t] = files[t] \/ files'[t] = Absent
    BY <1>1, <2>1 DEF StoresTyped
  <2>3. files' \in [Tasks -> Rec]
    <3>1. Absent \in Rec
      BY DEF Absent, Rec
    <3> QED
      BY <1>1, <2>1, <3>1 DEF StoresTyped
  <2>4. StoresTyped' /\ NoneBefore'
    BY <1>1, <2>1, <2>2, <2>3 DEF StoresTyped, NoneBefore, Absent
  <2> QED
    BY <2>1, <2>4, IdleTyped DEF TypeInv, ThreadsTyped
<1>v. ASSUME UNCHANGED vars PROVE TypeInv'
  BY <1>v DEF vars, TypeInv, StoresTyped, ThreadsTyped, NoneBefore
<1> QED
  BY <1>c, <1>l, <1>f, <1>a, <1>u, <1>s, <1>r, <1>v DEF Next

\* Init satisfies TypeInv.
LEMMA TypeInit == Init => TypeInv
<1> SUFFICES ASSUME Init PROVE TypeInv
  OBVIOUS
<1>1. Absent \in Rec /\ Absent.status = "absent"
  BY DEF Absent, Rec
<1>2. StoresTyped
  BY <1>1, TeamAssumption DEF Init, StoresTyped
<1>3. NoneBefore
  BY <1>1 DEF Init, NoneBefore
<1> QED
  BY <1>2, <1>3, IdleTyped DEF TypeInv, ThreadsTyped, Init

\* The type invariant that the run checks, in every behaviour.
THEOREM TypeCorrect == Spec => []TypeOK
<1>1. TypeInv => TypeOK
  <2> SUFFICES ASSUME TypeInv PROVE TypeOK
    OBVIOUS
  <2>1. StoresTyped /\ \A x \in Threads : th[x] \in ThreadRec /\ Placed(x, th[x], created)
    BY DEF TypeInv, ThreadsTyped
  <2>2. ASSUME NEW x \in Threads
        PROVE  /\ th[x].at \in Places /\ th[x].who \in Agents \cup {Nobody}
               /\ th[x].snap \in Rec /\ th[x].deps \in SUBSET Tasks
               /\ \A q \in th[x].saves : q.task \in Tasks /\ q.rec \in Rec
    BY <2>1 DEF ThreadRec
  <2>3. \A x \in Threads : th[x].at # "idle" => th[x].task \in 1..created
    BY <2>1 DEF Placed
  <2> QED
    BY <2>1, <2>2, <2>3
       DEF TypeOK, StoresTyped, Places, HeartbeatPlaces, LoopPlaces, CallerPlaces
<1> QED
  BY <1>1, TypeInit, TypeStep, PTL DEF Spec

-----------------------------------------------------------------------------
(* Grants *)

\* A grant of this process is what the board shows.
GrantInv ==
  /\ \A g \in Happened("granted") :
       /\ g[1] \in 1..created /\ g[2] \in Agents /\ g[3] \in 0..crashes
       /\ g[3] = crashes => board[g[1]].owner = g[2]
  /\ GrantedOnce

\* Every step keeps GrantInv: no step but a grant writes an owner on the board.
LEMMA GrantStep == TypeInv /\ GrantInv /\ [Next]_vars => GrantInv'
<1> SUFFICES ASSUME TypeInv, GrantInv, [Next]_vars PROVE GrantInv'
  OBVIOUS
<1>0. /\ StoresTyped /\ NoneBefore /\ 1..created \subseteq Tasks
      /\ created \in Nat /\ crashes \in Nat
      /\ \A x \in Threads : th[x] \in ThreadRec /\ Placed(x, th[x], created)
  BY TeamAssumption DEF TypeInv, ThreadsTyped, StoresTyped, Tasks
<1>1. ASSUME Happened("granted")' = Happened("granted"), UNCHANGED crashes,
             created' \in Nat, created <= created',
             \A t \in 1..created : board'[t].owner = board[t].owner
      PROVE  GrantInv'
  BY <1>0, <1>1 DEF GrantInv, GrantedOnce
<1>2. ASSUME UNCHANGED <<board, created, crashes, hist>> PROVE GrantInv'
  BY <1>0, <1>1, <1>2, NothingNew
<1>3. ASSUME NEW c \in Callers, CallerStep(c) PROVE GrantInv'
  <2>1. CASE Create(c)
    <3>1. /\ created' = created + 1 /\ UNCHANGED <<crashes, hist>>
          /\ \E D \in SUBSET Present : board' = [board EXCEPT ![created + 1] = New(D)]
      BY <2>1 DEF Create
    <3>2. \A t \in 1..created : board'[t].owner = board[t].owner
      BY <1>0, <3>1 DEF StoresTyped
    <3> QED
      BY <1>0, <1>1, <3>1, <3>2, NothingNew
  <2>2. CASE Register(c)
    BY <1>2, <2>2 DEF Register
  <2>3. CASE Link(c)
    <3>1. /\ UNCHANGED <<created, crashes>>
          /\ board' = [board EXCEPT ![th[c].task].blockedBy = @ \cup {th[c].dep}]
          /\ Note("relinked", IF th[c].dep \in Happened("completing")
                              THEN {<<th[c].dep, th[c].task>>} ELSE {})
      BY <2>3 DEF Link
    <3>2. \A t \in Tasks : board'[t].owner = board[t].owner
      BY <1>0, <3>1 DEF StoresTyped, Rec
    <3>3. Happened("granted")' = Happened("granted")
      BY <3>1, Noted
    <3> QED
      BY <1>0, <1>1, <3>1, <3>2, <3>3
  <2>4. CASE GetTask(c)
    BY <1>2, <2>4 DEF GetTask
  <2>5. CASE PersistTask(c)
    BY <1>2, <2>5 DEF PersistTask
  <2>6. CASE Claim(c)
    BY <1>2, <2>6 DEF Claim
  <2>7. CASE MarkInProgress(c)
    <3>1. /\ UNCHANGED <<created, crashes, hist>>
          /\ board' = [board EXCEPT ![th[c].task].status = "in_progress"]
      BY <2>7 DEF MarkInProgress
    <3>2. \A t \in Tasks : board'[t].owner = board[t].owner
      BY <1>0, <3>1 DEF StoresTyped, Rec
    <3> QED
      BY <1>0, <1>1, <3>1, <3>2, NothingNew
  <2>8. CASE Complete(c)
    <3>1. PICK t \in Present : /\ board' = [board EXCEPT ![t].status = "completed"]
                               /\ Note("completing", {t})
      BY <2>8 DEF Complete
    <3>2. \A u \in Tasks : board'[u].owner = board[u].owner
      BY <1>0, <3>1 DEF StoresTyped, Rec
    <3>3. Happened("granted")' = Happened("granted")
      BY <3>1, Noted
    <3> QED
      BY <1>0, <1>1, <2>8, <3>2, <3>3 DEF Complete
  <2>9. CASE Dependents(c)
    BY <1>2, <2>9 DEF Dependents
  <2>10. CASE Unblock(c)
    <3>1. /\ hist' = hist \cup {<<"unblocked", th[c].task>>, <<"shared", th[c].task>>}
          /\ board' = [u \in Tasks |-> IF u \in th[c].deps
                         THEN [board[u] EXCEPT !.blockedBy = @ \ {th[c].task}]
                         ELSE board[u]]
          /\ UNCHANGED <<created, crashes>>
      BY <2>10 DEF Unblock
    <3>2. \A u \in Tasks : board'[u].owner = board[u].owner
      BY <1>0, <3>1 DEF StoresTyped, Rec
    <3>3. Happened("granted")' = Happened("granted")
      BY <3>1, NotedUnblock
    <3> QED
      BY <1>0, <1>1, <3>1, <3>2, <3>3
  <2> QED
    BY <1>3, <2>1, <2>2, <2>3, <2>4, <2>5, <2>6, <2>7, <2>8, <2>9, <2>10 DEF CallerStep
<1>4. ASSUME NEW w \in Loops, LoopStep(w) PROVE GrantInv'
  <2>1. CASE FinishTask(w)
    <3>1. UNCHANGED <<board, created, crashes>>
      BY <2>1 DEF FinishTask
    <3>2. Happened("granted")' = Happened("granted")
      BY <2>1, NotedFinish
    <3> QED
      BY <1>0, <1>1, <3>1, <3>2
  <2>2. CASE ~FinishTask(w)
    <3>1. UNCHANGED <<board, created, crashes, hist>>
      BY <1>4, <2>2 DEF LoopStep, Find, Execute, ScanDependents, UnblockFile
    <3> QED
      BY <1>2, <3>1
  <2> QED
    BY <2>1, <2>2
<1>5. ASSUME NEW x \in Threads, FileClaim(x) PROVE GrantInv'
  <2> DEFINE k == IF x \in Loops THEN "started" ELSE "shared"
             v == IF x \in Loops THEN <<th[x].task, x>> ELSE th[x].task
  <2>1. UNCHANGED <<board, created, crashes>> /\ (Note(k, {v}) \/ UNCHANGED hist)
    BY <1>5 DEF FileClaim
  <2>2. k # "granted"
    OBVIOUS
  <2> HIDE DEF k, v
  <2>3. Happened("granted")' = Happened("granted")
    BY <2>1, <2>2, Noted, NothingNew
  <2> QED
    BY <1>0, <1>1, <2>1, <2>3
<1>6. ASSUME NEW x \in Threads, AssignTask(x) PROVE GrantInv'
  <2> DEFINE t == th[x].task
             g == <<t, th[x].who, crashes>>
  <2>1. UNCHANGED <<created, crashes>> /\ (At(x, "assign") \/ At(x, "hand"))
    BY <1>6 DEF AssignTask
  <2>2. t \in 1..created /\ t \in Tasks /\ th[x].who \in Agents
    BY <1>0, <2>1 DEF At, Placed
  <2>3. CASE IsReady(t) /\ board[t].owner = Nobody
    <3>1. /\ board' = [board EXCEPT ![t] =
                         [@ EXCEPT !.owner = th[x].who, !.status = "in_progress"]]
          /\ Note("granted", {g})
      BY <1>6, <2>3 DEF AssignTask
    <3>2. Happened("granted")' = Happened("granted") \cup {g}
      BY <3>1, Noted
    <3>3. /\ board'[t].owner = th[x].who
          /\ \A u \in Tasks : u # t => board'[u] = board[u]
      BY <1>0, <2>2, <3>1 DEF StoresTyped, Rec
    <3>4. g[1] = t /\ g[2] = th[x].who /\ g[3] = crashes
      OBVIOUS
    <3>5. ASSUME NEW h \in Happened("granted"), h[3] = crashes PROVE h[1] # t
      <4>1. board[h[1]].owner = h[2] /\ h[2] \in Agents
        BY <3>5 DEF GrantInv
      <4>2. Nobody \notin Agents
        BY TeamAssumption DEF Nobody, Agents
      <4> QED
        BY <2>3, <4>1, <4>2
    <3>6. \A h \in Happened("granted") : h[1] \in Tasks
      BY <1>0 DEF GrantInv
    <3> HIDE DEF g
    <3>7. GrantedOnce'
      BY <3>2, <3>4, <3>5 DEF GrantInv, GrantedOnce
    <3> QED
      BY <1>0, <2>1, <2>2, <3>2, <3>3, <3>4, <3>5, <3>6, <3>7 DEF GrantInv
  <2>4. CASE ~(IsReady(t) /\ board[t].owner = Nobody)
    BY <1>2, <1>6, <2>1, <2>4 DEF AssignTask
  <2> QED
    BY <2>3, <2>4
<1>7. ASSUME AutoClaim PROVE GrantInv'
  BY <1>2, <1>7 DEF AutoClaim
<1>8. ASSUME NEW t \in Present, NEW s \in {"pending", "in_progress"} \cup Terminal,
             SetStatus(t, s)
      PROVE  GrantInv'
  <2>1. /\ board' = [board EXCEPT ![t].status = s] /\ UNCHANGED <<created, crashes>>
        /\ Note("marked", IF s = "in_progress" THEN {t} ELSE {})
    BY <1>8 DEF SetStatus
  <2>2. \A u \in Tasks : board'[u].owner = board[u].owner
    BY <1>0, <2>1 DEF StoresTyped, Rec
  <2>3. Happened("granted")' = Happened("granted")
    BY <2>1, Noted
  <2> QED
    BY <1>0, <1>1, <2>1, <2>2, <2>3
<1>9. ASSUME Crash PROVE GrantInv'
  BY <1>0, <1>9, NothingNew DEF Crash, GrantInv, GrantedOnce
<1>10. ASSUME UNCHANGED vars PROVE GrantInv'
  BY <1>2, <1>10 DEF vars
<1> QED
  BY <1>3, <1>4, <1>5, <1>6, <1>7, <1>8, <1>9, <1>10 DEF Next

\* The board gives a task to one agent at most until the process restarts.
THEOREM OneGrant == Spec => []GrantedOnce
<1>1. Init => GrantInv
  BY DEF Init, GrantInv, GrantedOnce, Happened
<1>2. GrantInv => GrantedOnce
  BY DEF GrantInv
<1> QED
  BY <1>1, <1>2, TypeInit, TypeStep, GrantStep, PTL DEF Spec

-----------------------------------------------------------------------------
(* What each action does to the threads, field by field *)

\* Every thread but x stays as it is.
Still(x) == \A y \in Threads : y # x => th'[y] = th[y]

\* A thread that works on a task has a created one, and its record is typed.
LEMMA AtWork ==
  ASSUME TypeInv, NEW x \in Threads, th[x].at # "idle"
  PROVE  th[x] \in ThreadRec /\ th[x].task \in 1..created /\ th[x].task \in Tasks
  BY TeamAssumption DEF TypeInv, ThreadsTyped, StoresTyped, Placed, Tasks

\* The thread that is done is idle again.
LEMMA DoneEffect ==
  ASSUME TypeInv, NEW x \in Threads, Done(x)
  PROVE  th'[x] = Idle /\ Idle.at = "idle" /\ Idle.saves = {} /\ Idle.task = 0 /\ Still(x)
  BY Moves DEF Done, TypeInv, Idle, Still

\* A caller is a thread that is no loop, and a loop one that is no caller.
LEMMA ThreadKinds ==
  /\ \A c \in Callers : c \in Threads /\ c \notin Loops /\ c # "heartbeat"
  /\ \A w \in Loops : w \in Threads /\ w \notin Callers /\ w # "heartbeat"
  /\ \A x \in Threads : x \in Callers \/ x \in Loops \/ x = "heartbeat"
  /\ "heartbeat" \in Threads
  BY TeamAssumption DEF Threads, Agents

\* Create stores a new task, and its creator goes on in one of four ways.
LEMMA CreateEffect ==
  ASSUME TypeInv, NEW c \in Callers, Create(c)
  PROVE  /\ th[c].at = "idle" /\ created + 1 \in Tasks /\ created' = created + 1 /\ Still(c)
         /\ UNCHANGED <<rev, files, ops, crashes, hist>>
         /\ \E D \in SUBSET Present :
              /\ D \subseteq 1..created
              /\ board' = [board EXCEPT ![created + 1] = New(D)]
              /\ declared' = [declared EXCEPT ![created + 1] = D]
              /\ \/ /\ D = {} /\ th'[c].at = "save" /\ th'[c].task = created + 1
                    /\ th'[c].snap = New(D) /\ th'[c].saves = {}
                 \/ /\ th'[c].at = "register" /\ th'[c].task = created + 1
                    /\ th'[c].deps = D /\ th'[c].saves = {}
                 \/ th'[c] = th[c]
                 \/ th'[c].at = "hand" /\ th'[c].task = created + 1 /\ th'[c].saves = {}
<1> DEFINE t == created + 1
           save(D) == [Idle EXCEPT !.at = "save", !.task = t, !.snap = New(D)]
           register(D) == [Idle EXCEPT !.at = "register", !.task = t, !.deps = D]
           hand(a) == [Idle EXCEPT !.at = "hand", !.task = t, !.who = a]
<1>1. /\ th[c].at = "idle" /\ created < NumTasks /\ created' = t
      /\ UNCHANGED <<rev, files, ops, crashes, hist>>
  BY DEF Create, At
<1>2. PICK D \in SUBSET Present :
        /\ board' = [board EXCEPT ![t] = New(D)]
        /\ declared' = [declared EXCEPT ![t] = D]
        /\ \/ D = {} /\ Become(c, save(D))
           \/ Become(c, register(D))
           \/ UNCHANGED th
           \/ \E a \in Agents : Become(c, hand(a))
  BY DEF Create
<1>3. /\ save(D).at = "save" /\ save(D).task = t /\ save(D).snap = New(D)
      /\ save(D).saves = {}
  BY DEF Idle
<1>4. /\ register(D).at = "register" /\ register(D).task = t /\ register(D).deps = D
      /\ register(D).saves = {}
  BY DEF Idle
<1>5. \A a : hand(a).at = "hand" /\ hand(a).task = t /\ hand(a).saves = {}
  BY DEF Idle
<1>6. \A r : Become(c, r) => th'[c] = r /\ Still(c)
  BY Moves, ThreadKinds DEF TypeInv, Still
<1>7. D \subseteq 1..created /\ created \in Nat /\ t \in Tasks
  BY <1>1, TeamAssumption DEF Present, TypeInv, NoneBefore, StoresTyped, Tasks
<1> HIDE DEF save, register, hand
<1>8. UNCHANGED th => th'[c] = th[c] /\ Still(c)
  BY DEF Still
<1>9. Still(c)
  BY <1>2, <1>6, <1>8
<1>10. \/ D = {} /\ th'[c] = save(D)
       \/ th'[c] = register(D)
       \/ th'[c] = th[c]
       \/ \E a \in Agents : th'[c] = hand(a)
  BY <1>2, <1>6, <1>8
<1> QED
  BY <1>1, <1>2, <1>3, <1>4, <1>5, <1>7, <1>9, <1>10

\* Register takes one of the blockers that are left.
LEMMA RegisterEffect ==
  ASSUME TypeInv, NEW c \in Callers, Register(c)
  PROVE  /\ th[c].at = "register" /\ th[c].task \in 1..created /\ th[c].task \in Tasks
         /\ \E d \in th[c].deps :
              /\ d \in Tasks /\ rev' = rev \cup {<<d, th[c].task>>}
              /\ th'[c].at = "link" /\ th'[c].dep = d /\ th'[c].deps = th[c].deps \ {d}
         /\ th'[c].task = th[c].task /\ th'[c].saves = th[c].saves
         /\ Still(c) /\ UNCHANGED <<board, files, created, declared, ops, crashes, hist>>
<1> DEFINE r(d) == [th[c] EXCEPT !.at = "link", !.dep = d, !.deps = @ \ {d}]
<1>1. /\ th[c].at = "register"
      /\ UNCHANGED <<board, files, created, declared, ops, crashes, hist>>
  BY DEF Register, At
<1>2. PICK d \in th[c].deps : rev' = rev \cup {<<d, th[c].task>>} /\ Become(c, r(d))
  BY DEF Register
<1>3. th[c] \in ThreadRec /\ th[c].task \in 1..created /\ th[c].task \in Tasks
  BY <1>1, AtWork, ThreadKinds
<1>4. /\ d \in Tasks /\ r(d).at = "link" /\ r(d).dep = d /\ r(d).deps = th[c].deps \ {d}
      /\ r(d).task = th[c].task /\ r(d).saves = th[c].saves
  BY <1>3 DEF ThreadRec
<1> HIDE DEF r
<1>5. th'[c] = r(d) /\ Still(c)
  BY <1>2, Moves, ThreadKinds DEF TypeInv, Still
<1> QED
  BY <1>1, <1>2, <1>3, <1>4, <1>5

\* Link adds the blocker to the board's task.
LEMMA LinkEffect ==
  ASSUME TypeInv, NEW c \in Callers, Link(c)
  PROVE  /\ th[c].at = "link"
         /\ th[c].task \in 1..created /\ th[c].task \in Tasks
         /\ board' = [board EXCEPT ![th[c].task].blockedBy = @ \cup {th[c].dep}]
         /\ Note("relinked", IF th[c].dep \in Happened("completing")
                             THEN {<<th[c].dep, th[c].task>>} ELSE {})
         /\ th'[c].at = "register" /\ th'[c].deps = th[c].deps
         /\ th'[c].task = th[c].task /\ th'[c].saves = th[c].saves
         /\ Still(c) /\ UNCHANGED <<rev, files, created, declared, ops, crashes>>
<1> DEFINE r == [th[c] EXCEPT !.at = "register", !.dep = 0]
<1>1. /\ th[c].at = "link"
      /\ Become(c, r) /\ UNCHANGED <<rev, files, created, declared, ops, crashes>>
      /\ board' = [board EXCEPT ![th[c].task].blockedBy = @ \cup {th[c].dep}]
         /\ Note("relinked", IF th[c].dep \in Happened("completing")
                             THEN {<<th[c].dep, th[c].task>>} ELSE {})
  BY DEF Link, At
<1>2. th[c] \in ThreadRec /\ th[c].task \in 1..created /\ th[c].task \in Tasks
  BY <1>1, AtWork, ThreadKinds
<1>3. /\ r.at = "register" /\ r.deps = th[c].deps /\ r.task = th[c].task /\ r.saves = th[c].saves
  BY <1>2 DEF ThreadRec
<1> HIDE DEF r
<1>4. th'[c] = r /\ Still(c)
  BY <1>1, Moves, ThreadKinds DEF TypeInv, Still
<1> QED
  BY <1>1, <1>2, <1>3, <1>4

\* GetTask copies the board's task.
LEMMA GetTaskEffect ==
  ASSUME TypeInv, NEW c \in Callers, GetTask(c)
  PROVE  /\ th[c].at = "get" \/ (th[c].at = "register" /\ th[c].deps = {})
         /\ th[c].task \in 1..created /\ th[c].task \in Tasks
         /\ th'[c].at = "save" /\ th'[c].snap = board[th[c].task]
         /\ th'[c].task = th[c].task /\ th'[c].saves = th[c].saves
         /\ Still(c) /\ UNCHANGED <<board, rev, files, created, declared, ops, crashes, hist>>
<1> DEFINE r == [th[c] EXCEPT !.at = "save", !.snap = board[th[c].task]]
<1>1. /\ th[c].at = "get" \/ (th[c].at = "register" /\ th[c].deps = {})
      /\ Become(c, r) /\ UNCHANGED <<board, rev, files, created, declared, ops, crashes, hist>>
  BY DEF GetTask, At
<1>2. th[c] \in ThreadRec /\ th[c].task \in 1..created /\ th[c].task \in Tasks
  BY <1>1, AtWork, ThreadKinds
<1>3. /\ r.at = "save" /\ r.snap = board[th[c].task] /\ r.task = th[c].task /\ r.saves = th[c].saves
  BY <1>2 DEF ThreadRec
<1> HIDE DEF r
<1>4. th'[c] = r /\ Still(c)
  BY <1>1, Moves, ThreadKinds DEF TypeInv, Still
<1> QED
  BY <1>1, <1>2, <1>3, <1>4

\* Dependents reads the reverse map.
LEMMA DependentsEffect ==
  ASSUME TypeInv, NEW c \in Callers, Dependents(c)
  PROVE  /\ th[c].at = "dependents"
         /\ th[c].task \in 1..created /\ th[c].task \in Tasks
         /\ th'[c].at = "unblock" /\ th'[c].deps = {p[2] : p \in {q \in rev : q[1] = th[c].task}}
         /\ th'[c].task = th[c].task /\ th'[c].saves = th[c].saves
         /\ Still(c) /\ UNCHANGED <<board, rev, files, created, declared, ops, crashes, hist>>
<1> DEFINE r == [th[c] EXCEPT !.at = "unblock",
                             !.deps = {p[2] : p \in {q \in rev : q[1] = th[c].task}}]
<1>1. /\ th[c].at = "dependents"
      /\ Become(c, r) /\ UNCHANGED <<board, rev, files, created, declared, ops, crashes, hist>>
  BY DEF Dependents, At
<1>2. th[c] \in ThreadRec /\ th[c].task \in 1..created /\ th[c].task \in Tasks
  BY <1>1, AtWork, ThreadKinds
<1>3. /\ r.at = "unblock" /\ r.deps = {p[2] : p \in {q \in rev : q[1] = th[c].task}} /\ r.task = th[c].task /\ r.saves = th[c].saves
  BY <1>2 DEF ThreadRec
<1> HIDE DEF r
<1>4. th'[c] = r /\ Still(c)
  BY <1>1, Moves, ThreadKinds DEF TypeInv, Still
<1> QED
  BY <1>1, <1>2, <1>3, <1>4

\* FinishTask writes what the loop has loaded.
LEMMA FinishTaskEffect ==
  ASSUME TypeInv, NEW w \in Loops, FinishTask(w)
  PROVE  /\ th[w].at = "finish"
         /\ th[w].task \in 1..created /\ th[w].task \in Tasks
         /\ files' = [files EXCEPT ![th[w].task] = th[w].snap]
         /\ th'[w].at = "scan"
         /\ th'[w].task = th[w].task /\ th'[w].saves = th[w].saves
         /\ Still(w) /\ UNCHANGED <<board, rev, created, declared, ops, crashes>>
<1> DEFINE r == [th[w] EXCEPT !.at = "scan", !.snap = Absent]
<1>1. /\ th[w].at = "finish"
      /\ Become(w, r) /\ UNCHANGED <<board, rev, created, declared, ops, crashes>>
      /\ files' = [files EXCEPT ![th[w].task] = th[w].snap]
  BY DEF FinishTask, At
<1>2. th[w] \in ThreadRec /\ th[w].task \in 1..created /\ th[w].task \in Tasks
  BY <1>1, AtWork, ThreadKinds
<1>3. /\ r.at = "scan" /\ r.task = th[w].task /\ r.saves = th[w].saves
  BY <1>2 DEF ThreadRec
<1> HIDE DEF r
<1>4. th'[w] = r /\ Still(w)
  BY <1>1, Moves, ThreadKinds DEF TypeInv, Still
<1> QED
  BY <1>1, <1>2, <1>3, <1>4

\* PersistTask writes the copy.
LEMMA PersistTaskEffect ==
  ASSUME TypeInv, NEW c \in Callers, PersistTask(c)
  PROVE  /\ th[c].at = "save" /\ th[c].task \in 1..created /\ th[c].task \in Tasks
         /\ files' = [files EXCEPT ![th[c].task] = th[c].snap]
         /\ th'[c].at = "idle" /\ th'[c].task = 0 /\ th'[c].saves = {}
         /\ Still(c) /\ UNCHANGED <<board, rev, created, declared, ops, crashes, hist>>
<1>1. /\ th[c].at = "save" /\ Done(c) /\ UNCHANGED <<board, rev, created, declared, ops, crashes, hist>>
      /\ files' = [files EXCEPT ![th[c].task] = th[c].snap]
  BY DEF PersistTask, At
<1>2. th[c].task \in 1..created /\ th[c].task \in Tasks
  BY <1>1, AtWork, ThreadKinds
<1>3. th'[c] = Idle /\ Idle.at = "idle" /\ Idle.saves = {} /\ Idle.task = 0 /\ Still(c)
  BY <1>1, DoneEffect, ThreadKinds
<1> QED
  BY <1>1, <1>2, <1>3

\* MarkInProgress writes a status.
LEMMA MarkEffect ==
  ASSUME TypeInv, NEW c \in Callers, MarkInProgress(c)
  PROVE  /\ th[c].at = "mark" /\ th[c].task \in 1..created /\ th[c].task \in Tasks
         /\ board' = [board EXCEPT ![th[c].task].status = "in_progress"]
         /\ th'[c].at = "idle" /\ th'[c].task = 0 /\ th'[c].saves = {}
         /\ Still(c) /\ UNCHANGED <<rev, files, created, declared, ops, crashes, hist>>
<1>1. /\ th[c].at = "mark" /\ Done(c) /\ UNCHANGED <<rev, files, created, declared, ops, crashes, hist>>
      /\ board' = [board EXCEPT ![th[c].task].status = "in_progress"]
  BY DEF MarkInProgress, At
<1>2. th[c].task \in 1..created /\ th[c].task \in Tasks
  BY <1>1, AtWork, ThreadKinds
<1>3. th'[c] = Idle /\ Idle.at = "idle" /\ Idle.saves = {} /\ Idle.task = 0 /\ Still(c)
  BY <1>1, DoneEffect, ThreadKinds
<1> QED
  BY <1>1, <1>2, <1>3

\* Claim picks a task of the board.
LEMMA ClaimEffect ==
  ASSUME TypeInv, NEW c \in Callers, Claim(c)
  PROVE  /\ th[c].at = "idle" /\ th'[c].at = "fileClaim" /\ th'[c].task \in Present
         /\ th'[c].task \in 1..created /\ th'[c].saves = {}
         /\ Still(c) /\ UNCHANGED <<board, rev, files, created, declared, crashes, hist>>
<1> DEFINE r(t) == [Idle EXCEPT !.at = "fileClaim", !.task = t, !.who = c]
<1>1. /\ th[c].at = "idle"
      /\ UNCHANGED <<board, rev, files, created, declared, crashes, hist>>
  BY DEF Claim, At
<1>2. PICK t \in Present : Become(c, r(t))
  BY DEF Claim
<1>3. r(t).at = "fileClaim" /\ r(t).task = t /\ r(t).saves = {}
  BY DEF Idle
<1> HIDE DEF r
<1>4. th'[c] = r(t) /\ Still(c)
  BY <1>2, Moves, ThreadKinds DEF TypeInv, Still
<1>5. t \in 1..created
  BY DEF Present, TypeInv, NoneBefore
<1> QED
  BY <1>1, <1>3, <1>4, <1>5

\* Complete sets the status of a task of the board.
LEMMA CompleteEffect ==
  ASSUME TypeInv, NEW c \in Callers, Complete(c)
  PROVE  /\ th[c].at = "idle" /\ th'[c].at = "dependents" /\ th'[c].task \in Present
         /\ th'[c].task \in 1..created /\ th'[c].saves = {}
         /\ board' = [board EXCEPT ![th'[c].task].status = "completed"]
         /\ Happened("completing")' = Happened("completing") \cup {th'[c].task}
         /\ \A i : i # "completing" => Happened(i)' = Happened(i)
         /\ Still(c) /\ UNCHANGED <<rev, files, created, declared, crashes>>
<1> DEFINE r(t) == [Idle EXCEPT !.at = "dependents", !.task = t]
<1>1. th[c].at = "idle" /\ UNCHANGED <<rev, files, created, declared, crashes>>
  BY DEF Complete, At
<1>2. PICK t \in Present : /\ Become(c, r(t))
                           /\ board' = [board EXCEPT ![t].status = "completed"]
                           /\ Note("completing", {t})
  BY DEF Complete
<1>3. r(t).at = "dependents" /\ r(t).task = t /\ r(t).saves = {}
  BY DEF Idle
<1> HIDE DEF r
<1>4. th'[c] = r(t) /\ Still(c)
  BY <1>2, Moves, ThreadKinds DEF TypeInv, Still
<1>5. t \in 1..created
  BY DEF Present, TypeInv, NoneBefore
<1>6. /\ Happened("completing")' = Happened("completing") \cup {t}
      /\ \A i : i # "completing" => Happened(i)' = Happened(i)
  BY <1>2, Noted
<1> QED
  BY <1>1, <1>2, <1>3, <1>4, <1>5, <1>6

\* Unblock takes the task from the blockers of the dependents that were read.
LEMMA UnblockEffect ==
  ASSUME TypeInv, NEW c \in Callers, Unblock(c)
  PROVE  /\ th[c].at = "unblock" /\ th[c].task \in 1..created /\ th[c].task \in Tasks
         /\ board' = [u \in Tasks |-> IF u \in th[c].deps
                        THEN [board[u] EXCEPT !.blockedBy = @ \ {th[c].task}]
                        ELSE board[u]]
         /\ \/ th'[c].at = "idle" /\ th'[c].task = 0 /\ th'[c].saves = {}
            \/ /\ th'[c].at = "get" /\ th'[c].task = th[c].task
               /\ th'[c].saves = th[c].saves
         /\ Happened("unblocked")' = Happened("unblocked") \cup {th[c].task}
         /\ Happened("shared")' = Happened("shared") \cup {th[c].task}
         /\ \A i : i # "unblocked" /\ i # "shared" => Happened(i)' = Happened(i)
         /\ Still(c) /\ UNCHANGED <<rev, files, created, declared, ops, crashes>>
<1> DEFINE r == [th[c] EXCEPT !.at = "get", !.deps = {}]
<1>1. /\ th[c].at = "unblock" /\ UNCHANGED <<rev, files, created, declared, ops, crashes>>
      /\ hist' = hist \cup {<<"unblocked", th[c].task>>, <<"shared", th[c].task>>}
      /\ board' = [u \in Tasks |-> IF u \in th[c].deps
                     THEN [board[u] EXCEPT !.blockedBy = @ \ {th[c].task}]
                     ELSE board[u]]
      /\ Done(c) \/ Become(c, r)
  BY DEF Unblock, At
<1>2. th[c] \in ThreadRec /\ th[c].task \in 1..created /\ th[c].task \in Tasks
  BY <1>1, AtWork, ThreadKinds
<1>3. r.at = "get" /\ r.task = th[c].task /\ r.saves = th[c].saves
  BY <1>2 DEF ThreadRec
<1> HIDE DEF r
<1>4. \/ th'[c] = Idle /\ Idle.at = "idle" /\ Idle.saves = {} /\ Idle.task = 0 /\ Still(c)
      \/ th'[c] = r /\ Still(c)
  BY <1>1, Moves, DoneEffect, ThreadKinds DEF TypeInv, Still
<1>5. /\ Happened("unblocked")' = Happened("unblocked") \cup {th[c].task}
      /\ Happened("shared")' = Happened("shared") \cup {th[c].task}
      /\ \A i : i # "unblocked" /\ i # "shared" => Happened(i)' = Happened(i)
  BY <1>1, NotedUnblock
<1> QED
  BY <1>1, <1>2, <1>3, <1>4, <1>5

\* Find takes a task whose file is pending, unowned and unblocked.
LEMMA FindEffect ==
  ASSUME TypeInv, NEW w \in Loops, Find(w)
  PROVE  /\ th[w].at = "idle" /\ th'[w].at = "fileClaim" /\ th'[w].saves = {}
         /\ th'[w].task \in 1..created /\ th'[w].task \in Tasks
         /\ Claimable(files[th'[w].task]) /\ files[th'[w].task].blockedBy = {}
         /\ Still(w) /\ UNCHANGED <<board, rev, files, created, declared, ops, crashes, hist>>
<1> DEFINE r(t) == [Idle EXCEPT !.at = "fileClaim", !.task = t, !.who = w]
<1>1. /\ th[w].at = "idle"
      /\ UNCHANGED <<board, rev, files, created, declared, ops, crashes, hist>>
  BY DEF Find, At
<1>2. PICK t \in Tasks : /\ Become(w, r(t)) /\ Claimable(files[t])
                         /\ files[t].blockedBy = {}
  BY DEF Find, LoadTasks
<1>3. r(t).at = "fileClaim" /\ r(t).task = t /\ r(t).saves = {}
  BY DEF Idle
<1> HIDE DEF r
<1>4. th'[w] = r(t) /\ Still(w)
  BY <1>2, Moves, ThreadKinds DEF TypeInv, Still
<1>5. t \in 1..created
  BY <1>2 DEF Claimable, TypeInv, NoneBefore
<1> QED
  BY <1>1, <1>2, <1>3, <1>4, <1>5

\* Execute holds the file it loads with a final status, or goes on when there is
\* no file.
LEMMA ExecuteEffect ==
  ASSUME TypeInv, NEW w \in Loops, Execute(w)
  PROVE  /\ th[w].at = "run" /\ th[w].task \in 1..created /\ th[w].task \in Tasks
         /\ th'[w].task = th[w].task /\ th'[w].saves = th[w].saves
         /\ \/ files[th[w].task].status = "absent" /\ th'[w].at = "scan"
            \/ /\ files[th[w].task].status # "absent" /\ th'[w].at = "finish"
               /\ th'[w].snap.status \in {"completed", "failed"}
               /\ th'[w].snap.blockedBy = files[th[w].task].blockedBy
         /\ Still(w) /\ UNCHANGED <<board, rev, files, created, declared, ops, crashes, hist>>
<1> DEFINE rec == files[th[w].task]
           scan == [th[w] EXCEPT !.at = "scan"]
           finish(o) == [th[w] EXCEPT !.at = "finish", !.snap = [rec EXCEPT !.status = o]]
<1>1. /\ th[w].at = "run"
      /\ UNCHANGED <<board, rev, files, created, declared, ops, crashes, hist>>
  BY DEF Execute, At
<1>2. IF rec.status = "absent" THEN Become(w, scan)
      ELSE \E o \in {"completed", "failed"} : Become(w, finish(o))
  BY DEF Execute, Goto
<1>3. th[w] \in ThreadRec /\ th[w].task \in 1..created /\ th[w].task \in Tasks
  BY <1>1, AtWork, ThreadKinds
<1>4. rec \in Rec
  BY <1>3 DEF TypeInv, StoresTyped
<1>5. scan.at = "scan" /\ scan.task = th[w].task /\ scan.saves = th[w].saves
  BY <1>3 DEF ThreadRec
<1>6. \A o : /\ finish(o).at = "finish" /\ finish(o).task = th[w].task
             /\ finish(o).saves = th[w].saves /\ finish(o).snap = [rec EXCEPT !.status = o]
  BY <1>3 DEF ThreadRec
<1>7. \A o : /\ [rec EXCEPT !.status = o].status = o
             /\ [rec EXCEPT !.status = o].blockedBy = rec.blockedBy
  BY <1>4 DEF Rec
<1> HIDE DEF scan, finish
<1>8. \A r : Become(w, r) => th'[w] = r /\ Still(w)
  BY Moves, ThreadKinds DEF TypeInv, Still
<1>9. CASE rec.status = "absent"
  BY <1>1, <1>2, <1>3, <1>5, <1>8, <1>9
<1>10. CASE rec.status # "absent"
  <2>1. PICK o \in {"completed", "failed"} : th'[w] = finish(o) /\ Still(w)
    BY <1>2, <1>8, <1>10
  <2>2. /\ th'[w].at = "finish" /\ th'[w].task = th[w].task /\ th'[w].saves = th[w].saves
        /\ th'[w].snap = [rec EXCEPT !.status = o]
    BY <1>6, <2>1
  <2>3. th'[w].snap.status = o /\ th'[w].snap.blockedBy = rec.blockedBy
    BY <1>7, <2>2
  <2> QED
    BY <1>1, <1>3, <1>10, <2>1, <2>2, <2>3
<1> QED
  BY <1>9, <1>10

\* The record without a blocker.
Without(r, t) == [r EXCEPT !.blockedBy = @ \ {t}]

\* ScanDependents holds, of some of the files that name its task, the record
\* without it.
LEMMA ScanEffect ==
  ASSUME TypeInv, NEW w \in Loops, ScanDependents(w)
  PROVE  /\ th[w].at = "scan" /\ th[w].task \in 1..created /\ th[w].task \in Tasks
         /\ \/ th'[w].at = "idle" /\ th'[w].task = 0 /\ th'[w].saves = {}
            \/ /\ th'[w].at = "dependent" /\ th'[w].task = th[w].task
               /\ \A q \in th'[w].saves :
                    /\ q.task \in Tasks /\ files[q.task].status # "absent"
                    /\ th[w].task \in files[q.task].blockedBy
                    /\ q = [task |-> q.task, rec |-> Without(files[q.task], th[w].task)]
         /\ Still(w) /\ UNCHANGED <<board, rev, files, created, declared, ops, crashes, hist>>
<1> DEFINE t == th[w].task
           S(T) == {[task |-> u, rec |-> Without(files[u], t)] :
                      u \in {v \in T : t \in files[v].blockedBy}}
           r(T) == [th[w] EXCEPT !.at = "dependent", !.saves = S(T)]
<1>1. /\ th[w].at = "scan"
      /\ UNCHANGED <<board, rev, files, created, declared, ops, crashes, hist>>
  BY DEF ScanDependents, At
<1>2. PICK T \in LoadTasks : IF S(T) = {} THEN Done(w) ELSE Become(w, r(T))
  BY DEF ScanDependents, Without
<1>3. th[w] \in ThreadRec /\ t \in 1..created /\ t \in Tasks
  BY <1>1, AtWork, ThreadKinds
<1>4. \A u \in T : u \in Tasks /\ files[u].status # "absent"
  BY DEF LoadTasks
<1>5. ASSUME NEW q \in S(T)
      PROVE  /\ q.task \in Tasks /\ files[q.task].status # "absent"
             /\ t \in files[q.task].blockedBy
             /\ q = [task |-> q.task, rec |-> Without(files[q.task], t)]
  <2>1. PICK u \in T : t \in files[u].blockedBy /\ q = [task |-> u, rec |-> Without(files[u], t)]
    OBVIOUS
  <2>2. q.task = u
    BY <2>1
  <2> QED
    BY <1>4, <2>1, <2>2
<1> HIDE DEF S
<1>6. r(T).at = "dependent" /\ r(T).task = t /\ r(T).saves = S(T)
  BY <1>3 DEF ThreadRec
<1> HIDE DEF r
<1>7. \/ th'[w] = Idle /\ Idle.at = "idle" /\ Idle.saves = {} /\ Idle.task = 0 /\ Still(w)
      \/ th'[w] = r(T) /\ Still(w)
  BY <1>2, Moves, DoneEffect, ThreadKinds DEF TypeInv, Still
<1> QED
  BY <1>1, <1>3, <1>5, <1>6, <1>7

\* UnblockFile writes one of the records the loop holds.
LEMMA UnblockFileEffect ==
  ASSUME TypeInv, NEW w \in Loops, UnblockFile(w)
  PROVE  /\ th[w].at = "dependent" /\ th[w].task \in 1..created /\ th[w].task \in Tasks
         /\ \E q \in th[w].saves :
              /\ q.task \in 1..created /\ q.task \in Tasks /\ q.rec \in Rec
              /\ files' = [files EXCEPT ![q.task] = q.rec]
              /\ \/ /\ th[w].saves = {q} /\ th'[w].at = "idle" /\ th'[w].task = 0
                    /\ th'[w].saves = {}
                 \/ /\ th'[w].at = "dependent" /\ th'[w].task = th[w].task
                    /\ th'[w].saves = th[w].saves \ {q}
         /\ Still(w) /\ UNCHANGED <<board, rev, created, declared, ops, crashes, hist>>
<1> DEFINE r(q) == [th[w] EXCEPT !.saves = @ \ {q}]
<1>1. th[w].at = "dependent" /\ UNCHANGED <<board, rev, created, declared, ops, crashes, hist>>
  BY DEF UnblockFile, At
<1>2. PICK q \in th[w].saves :
        /\ files' = [files EXCEPT ![q.task] = q.rec]
        /\ IF th[w].saves = {q} THEN Done(w) ELSE Become(w, r(q))
  BY DEF UnblockFile
<1>3. th[w] \in ThreadRec /\ th[w].task \in 1..created /\ th[w].task \in Tasks
  BY <1>1, AtWork, ThreadKinds
<1>4. q.task \in 1..created /\ q.task \in Tasks /\ q.rec \in Rec
  <2>1. Placed(w, th[w], created)
    BY ThreadKinds DEF TypeInv
  <2> QED
    BY <1>3, <2>1 DEF ThreadRec, Placed
<1>5. r(q).at = "dependent" /\ r(q).task = th[w].task /\ r(q).saves = th[w].saves \ {q}
  BY <1>1, <1>3 DEF ThreadRec
<1> HIDE DEF r
<1>6. \/ /\ th[w].saves = {q} /\ th'[w] = Idle /\ Idle.at = "idle" /\ Idle.saves = {}
         /\ Idle.task = 0 /\ Still(w)
      \/ th'[w] = r(q) /\ Still(w)
  BY <1>2, Moves, DoneEffect, ThreadKinds DEF TypeInv, Still
<1> QED
  BY <1>1, <1>2, <1>3, <1>4, <1>5, <1>6

\* FileClaim takes a claimable file, for a loop or for a claim through the board.
LEMMA FileClaimEffect ==
  ASSUME TypeInv, NEW x \in Threads, FileClaim(x)
  PROVE  /\ th[x].at = "fileClaim" /\ th[x].task \in 1..created /\ th[x].task \in Tasks
         /\ x \in Agents
         /\ \/ /\ Claimable(files[th[x].task]) /\ x \in Loops /\ th'[x].at = "run"
               /\ Happened("started")' = Happened("started") \cup {<<th[x].task, x>>}
               /\ \A k : k # "started" => Happened(k)' = Happened(k)
               /\ files' = [files EXCEPT ![th[x].task] =
                              [@ EXCEPT !.status = "in_progress", !.owner = x]]
               /\ th'[x].task = th[x].task /\ th'[x].saves = th[x].saves
            \/ /\ Claimable(files[th[x].task]) /\ x \in Callers /\ th'[x].at = "assign"
               /\ Happened("shared")' = Happened("shared") \cup {th[x].task}
               /\ \A k : k # "shared" => Happened(k)' = Happened(k)
               /\ files' = [files EXCEPT ![th[x].task] =
                              [@ EXCEPT !.status = "in_progress", !.owner = x]]
               /\ th'[x].task = th[x].task /\ th'[x].saves = th[x].saves
            \/ /\ th'[x].at = "idle" /\ th'[x].task = 0 /\ th'[x].saves = {}
               /\ UNCHANGED <<files, hist>>
         /\ Still(x) /\ UNCHANGED <<board, rev, created, declared, ops, crashes>>
<1> DEFINE t == th[x].task
           r(l) == [th[x] EXCEPT !.at = l]
<1>1. th[x].at = "fileClaim" /\ UNCHANGED <<board, rev, created, declared, ops, crashes>>
  BY DEF FileClaim, At
<1>2. th[x] \in ThreadRec /\ t \in 1..created /\ t \in Tasks
  BY <1>1, AtWork
<1>3. x # "heartbeat" /\ x \in Agents /\ (x \notin Loops => x \in Callers)
  <2>1. Placed(x, th[x], created)
    BY DEF TypeInv
  <2> QED
    BY <1>1, <2>1 DEF Placed, Kind, HeartbeatPlaces, Threads, Agents
<1>4. \A l : r(l).at = l /\ r(l).task = t /\ r(l).saves = th[x].saves
  BY <1>2 DEF ThreadRec
<1>5. \A l : Goto(x, l) => th'[x] = r(l) /\ Still(x)
  BY Moves DEF TypeInv, Still, Goto
<1> HIDE DEF r
<1>6. CASE Claimable(files[t]) /\ x \in Loops
  <2>1. /\ Goto(x, "run") /\ Note("started", {<<t, x>>})
        /\ files' = [files EXCEPT ![t] = [@ EXCEPT !.status = "in_progress", !.owner = x]]
    BY <1>6 DEF FileClaim
  <2>2. /\ Happened("started")' = Happened("started") \cup {<<t, x>>}
        /\ \A k : k # "started" => Happened(k)' = Happened(k)
    BY <2>1, Noted
  <2> QED
    BY <1>1, <1>2, <1>3, <1>4, <1>5, <1>6, <2>1, <2>2
<1>7. CASE Claimable(files[t]) /\ x \notin Loops
  <2>1. /\ Goto(x, "assign") /\ Note("shared", {t})
        /\ files' = [files EXCEPT ![t] = [@ EXCEPT !.status = "in_progress", !.owner = x]]
    BY <1>7 DEF FileClaim
  <2>2. /\ Happened("shared")' = Happened("shared") \cup {t}
        /\ \A k : k # "shared" => Happened(k)' = Happened(k)
    BY <2>1, Noted
  <2> QED
    BY <1>1, <1>2, <1>3, <1>4, <1>5, <1>7, <2>1, <2>2
<1>8. CASE ~Claimable(files[t])
  <2>1. Done(x) /\ UNCHANGED <<files, hist>>
    BY <1>8 DEF FileClaim
  <2> QED
    BY <1>1, <1>2, <1>3, <2>1, DoneEffect
<1> QED
  BY <1>6, <1>7, <1>8

\* AssignTask grants a ready task that nobody owns, or does nothing.
LEMMA AssignEffect ==
  ASSUME TypeInv, NEW x \in Threads, AssignTask(x)
  PROVE  /\ th[x].at \in {"assign", "hand"}
         /\ th[x].task \in 1..created /\ th[x].task \in Tasks /\ th[x].who \in Agents
         /\ \/ /\ IsReady(th[x].task) /\ board[th[x].task].owner = Nobody
               /\ board' = [board EXCEPT ![th[x].task] =
                              [@ EXCEPT !.owner = th[x].who, !.status = "in_progress"]]
               /\ Happened("granted")' =
                    Happened("granted") \cup {<<th[x].task, th[x].who, crashes>>}
               /\ \A k : k # "granted" => Happened(k)' = Happened(k)
            \/ UNCHANGED <<board, hist>> /\ th'[x].at = "idle"
         /\ \/ th'[x].at = "idle" /\ th'[x].task = 0 /\ th'[x].saves = {}
            \/ /\ th[x].at = "assign" /\ th'[x].at = "mark" /\ th'[x].task = th[x].task
               /\ th'[x].saves = th[x].saves
         /\ Still(x) /\ UNCHANGED <<rev, files, created, declared, ops, crashes>>
<1> DEFINE t == th[x].task
           r == [th[x] EXCEPT !.at = "mark"]
<1>1. /\ th[x].at \in {"assign", "hand"}
      /\ UNCHANGED <<rev, files, created, declared, ops, crashes>>
  BY DEF AssignTask, At
<1>2. th[x] \in ThreadRec /\ t \in 1..created /\ t \in Tasks
  BY <1>1, AtWork
<1>3. th[x].who \in Agents
  <2>1. Placed(x, th[x], created)
    BY DEF TypeInv
  <2> QED
    BY <1>1, <2>1 DEF Placed
<1>4. r.at = "mark" /\ r.task = t /\ r.saves = th[x].saves
  BY <1>2 DEF ThreadRec
<1>5. Goto(x, "mark") => th'[x] = r /\ Still(x)
  BY Moves DEF TypeInv, Still, Goto
<1> HIDE DEF r
<1>6. Done(x) => th'[x].at = "idle" /\ th'[x].task = 0 /\ th'[x].saves = {} /\ Still(x)
  BY DoneEffect
<1>7. CASE IsReady(t) /\ board[t].owner = Nobody
  <2>1. /\ board' = [board EXCEPT ![t] =
                       [@ EXCEPT !.owner = th[x].who, !.status = "in_progress"]]
        /\ Note("granted", {<<t, th[x].who, crashes>>})
        /\ IF th[x].at = "assign" THEN Goto(x, "mark") ELSE Done(x)
    BY <1>7 DEF AssignTask, At
  <2>2. /\ Happened("granted")' = Happened("granted") \cup {<<t, th[x].who, crashes>>}
        /\ \A k : k # "granted" => Happened(k)' = Happened(k)
    BY <2>1, Noted
  <2> QED
    BY <1>1, <1>2, <1>3, <1>4, <1>5, <1>6, <1>7, <2>1, <2>2
<1>8. CASE ~(IsReady(t) /\ board[t].owner = Nobody)
  <2>1. Done(x) /\ UNCHANGED <<board, hist>>
    BY <1>8 DEF AssignTask
  <2> QED
    BY <1>1, <1>2, <1>3, <1>6, <2>1
<1> QED
  BY <1>7, <1>8

\* AutoClaim takes a ready task of the board.
LEMMA AutoClaimEffect ==
  ASSUME TypeInv, AutoClaim
  PROVE  /\ th["heartbeat"].at = "idle" /\ th'["heartbeat"].at = "hand"
         /\ th'["heartbeat"].saves = {} /\ th'["heartbeat"].task \in 1..created
         /\ Still("heartbeat")
         /\ UNCHANGED <<board, rev, files, created, declared, crashes, hist>>
<1> DEFINE r(t, a) == [Idle EXCEPT !.at = "hand", !.task = t, !.who = a]
<1>1. /\ th["heartbeat"].at = "idle"
      /\ UNCHANGED <<board, rev, files, created, declared, crashes, hist>>
  BY DEF AutoClaim, At
<1>2. PICK t \in Tasks, a \in Agents : IsReady(t) /\ Become("heartbeat", r(t, a))
  BY DEF AutoClaim
<1>3. r(t, a).at = "hand" /\ r(t, a).task = t /\ r(t, a).saves = {}
  BY DEF Idle
<1> HIDE DEF r
<1>4. th'["heartbeat"] = r(t, a) /\ Still("heartbeat")
  BY <1>2, Moves, ThreadKinds DEF TypeInv, Still
<1>5. t \in 1..created
  BY <1>2 DEF IsReady, TypeInv, NoneBefore
<1> QED
  BY <1>1, <1>3, <1>4, <1>5

-----------------------------------------------------------------------------
(* Blockers *)

Ended == Happened("completing") \cup {r[1] : r \in Happened("ran")}
EndedFirst == \A t \in Started : declared[t] \subseteq Ended

\* What has ended was completed, or its run failed.
LEMMA EndedEither == Ended = Completed \cup FailedRuns
  BY DEF Ended, Completed, FailedRuns

\* What has ended stays as it is when neither a completion nor a run is noted.
LEMMA EndedStays ==
  /\ UNCHANGED hist => Ended' = Ended
  /\ (\A k \in {"completing", "ran"} : Happened(k)' = Happened(k)) => Ended' = Ended
  BY NothingNew DEF Ended

\* A record of a task still names every declared blocker that has not ended.
StillWaits(D, rec, E) == rec.status # "absent" => D \subseteq rec.blockedBy \cup E
Waits(t, rec) == StillWaits(declared[t], rec, Ended)

\* What a thread is about to write keeps that up, whom it is about to unblock is
\* no longer waiting for its task, and the task it works on exists.
ThreadWaits(x) ==
  /\ x \in Callers /\ th[x].at # "idle" => board[th[x].task].status # "absent"
  /\ x \in Loops /\ th[x].at # "idle" => files[th[x].task].status # "absent"
  /\ th[x].at \in {"save", "finish"} =>
       th[x].snap.status # "absent" /\ Waits(th[x].task, th[x].snap)
  /\ \A s \in th[x].saves : s.rec.status # "absent" /\ Waits(s.task, s.rec)
  /\ th[x].at \in {"dependents", "unblock", "scan"} => th[x].task \in Ended
  /\ x \in Loops /\ th[x].at = "fileClaim" => declared[th[x].task] \subseteq Ended

BlockInv ==
  /\ \A t \in Tasks : Waits(t, board[t]) /\ Waits(t, files[t])
  /\ \A x \in Threads : ThreadWaits(x)
  /\ Started \subseteq 1..created
  /\ EndedFirst

\* What every step but a crash keeps: blockers as declared, what has ended, and
\* that a stored task stays stored.
Onward ==
  /\ created' \in Nat /\ created <= created'
  /\ \A t \in 1..created : declared'[t] = declared[t]
  /\ Ended \subseteq Ended'
  /\ \A t \in Tasks : board[t].status # "absent" => board'[t].status # "absent"
  /\ \A t \in Tasks : files[t].status # "absent" => files'[t].status # "absent"

\* A thread that does not move keeps what ThreadWaits says of it.
LEMMA OthersWait ==
  ASSUME TypeInv, Onward, NEW y \in Threads, th'[y] = th[y], ThreadWaits(y)
  PROVE  ThreadWaits(y)'
<1>1. /\ th[y] \in ThreadRec /\ Placed(y, th[y], created) /\ 1..created \subseteq Tasks
  BY TeamAssumption DEF TypeInv, ThreadsTyped, StoresTyped, Tasks
<1>2. th[y].at # "idle" => th[y].task \in 1..created /\ th[y].task \in Tasks
  BY <1>1 DEF Placed
<1>3. ASSUME NEW q \in th[y].saves
      PROVE  q.rec.status # "absent" /\ StillWaits(declared'[q.task], q.rec, Ended')
  <2>1. q.task \in 1..created /\ q.rec.status # "absent" /\ Waits(q.task, q.rec)
    BY <1>1 DEF Placed, ThreadWaits
  <2> QED
    BY <2>1 DEF Onward, Waits, StillWaits
<1>4. th[y].at \in {"save", "finish"} =>
        /\ th[y].snap.status # "absent"
        /\ StillWaits(declared'[th[y].task], th[y].snap, Ended')
  BY <1>2 DEF ThreadWaits, Onward, Waits, StillWaits
<1>5. y \in Loops /\ th[y].at = "fileClaim" => declared'[th[y].task] \subseteq Ended'
  BY <1>2 DEF ThreadWaits, Onward
<1>6. th[y].at \in {"dependents", "unblock", "scan"} => th[y].task \in Ended'
  BY DEF ThreadWaits, Onward
<1>7. /\ y \in Callers /\ th[y].at # "idle" => board'[th[y].task].status # "absent"
      /\ y \in Loops /\ th[y].at # "idle" => files'[th[y].task].status # "absent"
  BY <1>2 DEF ThreadWaits, Onward
<1> QED
  BY <1>3, <1>4, <1>5, <1>6, <1>7 DEF ThreadWaits, Waits

\* BlockInv after a step of one thread.
LEMMA OneWaits ==
  ASSUME TypeInv, BlockInv, Onward, NEW x \in Threads,
         Still(x), ThreadWaits(x)',
         \A t \in Tasks : /\ StillWaits(declared'[t], board'[t], Ended')
                          /\ StillWaits(declared'[t], files'[t], Ended'),
         \A t \in Started' : t \in Started \/ (t \in 1..created /\ declared[t] \subseteq Ended)
  PROVE  BlockInv'
<1>1. \A y \in Threads : ThreadWaits(y)'
  BY OthersWait DEF BlockInv, Still
<1>2. \A t \in Tasks : Waits(t, board[t])' /\ Waits(t, files[t])'
  BY DEF Waits
<1>3. created \in Nat
  BY TeamAssumption DEF TypeInv, StoresTyped
<1>a. 1..created \subseteq 1..created'
  BY <1>3 DEF Onward
<1>4. Started' \subseteq 1..created /\ 1..created \subseteq 1..created'
  BY <1>a DEF BlockInv
<1>5. EndedFirst'
  BY <1>4 DEF BlockInv, EndedFirst, Onward
<1> QED
  BY <1>1, <1>2, <1>4, <1>5 DEF BlockInv

\* The same for a step that keeps both stores and the history.
LEMMA OnlyMoves ==
  ASSUME TypeInv, BlockInv, NEW x \in Threads,
         Still(x), ThreadWaits(x)',
         UNCHANGED <<board, files, created, declared, hist>>
  PROVE  BlockInv'
<1>1. \A k : Happened(k)' = Happened(k)
  BY NothingNew
<1>2. Onward
  BY <1>1, TeamAssumption DEF TypeInv, StoresTyped, Onward, Ended
<1>3. Started' = Started
  BY <1>1 DEF Started
<1> QED
  BY <1>1, <1>2, <1>3, OneWaits DEF BlockInv, Waits, Ended

\* A thread that is idle and saves nothing waits for nothing.
LEMMA IdleWaits ==
  ASSUME NEW x, th'[x].at = "idle", th'[x].saves = {}
  PROVE  ThreadWaits(x)'
  BY DEF ThreadWaits

\* Every step keeps BlockInv.
LEMMA BlockStep == TypeInv /\ BlockInv /\ [Next]_vars => BlockInv'
<1> SUFFICES ASSUME TypeInv, BlockInv, [Next]_vars PROVE BlockInv'
  OBVIOUS
<1>0. /\ StoresTyped /\ NoneBefore /\ 1..created \subseteq Tasks /\ created \in Nat
      /\ \A x \in Threads : ThreadWaits(x)
      /\ \A t \in Tasks : /\ StillWaits(declared[t], board[t], Ended)
                          /\ StillWaits(declared[t], files[t], Ended)
      /\ \A t \in Tasks : board[t] \in Rec /\ files[t] \in Rec
  BY TeamAssumption DEF TypeInv, StoresTyped, Tasks, BlockInv, Waits
<1>c. ASSUME NEW c \in Callers, CallerStep(c) PROVE BlockInv'
  <2>x. c \in Threads /\ c \notin Loops
    BY ThreadKinds
  <2>t. ThreadWaits(c)
    BY <2>x, <1>0
  <2>1. CASE Create(c)
    <3>1. PICK D \in SUBSET Present :
            /\ D \subseteq 1..created
            /\ board' = [board EXCEPT ![created + 1] = New(D)]
            /\ declared' = [declared EXCEPT ![created + 1] = D]
            /\ \/ /\ D = {} /\ th'[c].at = "save" /\ th'[c].task = created + 1
                  /\ th'[c].snap = New(D) /\ th'[c].saves = {}
               \/ /\ th'[c].at = "register" /\ th'[c].task = created + 1
                  /\ th'[c].deps = D /\ th'[c].saves = {}
               \/ th'[c] = th[c]
               \/ th'[c].at = "hand" /\ th'[c].task = created + 1 /\ th'[c].saves = {}
      BY <2>1, CreateEffect
    <3> DEFINE t == created + 1
    <3>2. /\ t \in Tasks /\ created' = t /\ Still(c) /\ UNCHANGED <<files, hist>>
          /\ th[c].at = "idle"
      BY <2>1, CreateEffect
    <3>3. /\ board'[t] = New(D) /\ declared'[t] = D
          /\ \A u \in Tasks : u # t => board'[u] = board[u] /\ declared'[u] = declared[u]
      BY <1>0, <3>1, <3>2 DEF StoresTyped
    <3>4. New(D).status = "pending" /\ New(D).blockedBy = D
      BY DEF New
    <3>5. \A k : Happened(k)' = Happened(k)
      BY <3>2, NothingNew
    <3>6. t \notin 1..created /\ created <= t /\ t \in Nat
      BY <1>0
    <3>7. board[t].status = "absent" /\ files[t].status = "absent"
      BY <1>0, <3>2, <3>6 DEF NoneBefore
    <3> HIDE DEF t
    <3>8. Onward
      BY <1>0, <3>2, <3>3, <3>4, <3>5, <3>6 DEF Onward, Ended
    <3>9. \A u \in Tasks : /\ StillWaits(declared'[u], board'[u], Ended')
                           /\ StillWaits(declared'[u], files'[u], Ended')
      BY <1>0, <3>2, <3>3, <3>4, <3>5, <3>7 DEF StillWaits, Ended
    <3>10. ThreadWaits(c)'
      <4>1. CASE th'[c] = th[c]
        BY <2>t, <2>x, <3>8, <4>1, OthersWait
      <4>2. CASE D = {} /\ th'[c].at = "save" /\ th'[c].task = t /\ th'[c].snap = New(D)
                 /\ th'[c].saves = {}
        BY <2>x, <3>3, <3>4, <4>2 DEF ThreadWaits, Waits, StillWaits
      <4>3. CASE th'[c].at \in {"register", "hand"} /\ th'[c].task = t /\ th'[c].saves = {}
        BY <2>x, <3>3, <3>4, <4>3 DEF ThreadWaits
      <4> QED
        BY <3>1, <4>1, <4>2, <4>3 DEF t
    <3> QED
      BY <2>x, <3>2, <3>5, <3>8, <3>9, <3>10, OneWaits DEF Started
  <2>2. CASE Register(c)
    <3>1. /\ th[c].at = "register" /\ th'[c].at = "link" /\ th'[c].task = th[c].task
          /\ th'[c].saves = th[c].saves
          /\ Still(c) /\ UNCHANGED <<board, files, created, declared, hist>>
      BY <2>2, RegisterEffect
    <3>2. ThreadWaits(c)'
      BY <2>t, <2>x, <3>1, EndedStays DEF ThreadWaits, Waits
    <3> QED
      BY <2>x, <3>1, <3>2, OnlyMoves
  <2>3. CASE Link(c)
    <3>1. /\ th[c].at = "link" /\ th'[c].at = "register" /\ th'[c].task = th[c].task
          /\ th'[c].saves = th[c].saves /\ th[c].task \in Tasks
          /\ Still(c) /\ UNCHANGED <<files, created, declared>>
          /\ board' = [board EXCEPT ![th[c].task].blockedBy = @ \cup {th[c].dep}]
          /\ Note("relinked", IF th[c].dep \in Happened("completing")
                              THEN {<<th[c].dep, th[c].task>>} ELSE {})
      BY <2>3, LinkEffect
    <3>2. \A k : k # "relinked" => Happened(k)' = Happened(k)
      BY <3>1, Noted
    <3>3. \A u \in Tasks : /\ board'[u].status = board[u].status
                           /\ board[u].blockedBy \subseteq board'[u].blockedBy
      BY <1>0, <3>1 DEF StoresTyped, Rec
    <3>4. Onward /\ Started' = Started /\ Ended' = Ended
      BY <1>0, <3>1, <3>2, <3>3 DEF Onward, Ended, Started
    <3>5. ThreadWaits(c)'
      BY <2>t, <2>x, <3>1, <3>3, <3>4 DEF ThreadWaits, Waits
    <3>6. \A u \in Tasks : /\ StillWaits(declared'[u], board'[u], Ended')
                           /\ StillWaits(declared'[u], files'[u], Ended')
      BY <1>0, <3>1, <3>3, <3>4 DEF StillWaits
    <3> QED
      BY <2>x, <3>1, <3>4, <3>5, <3>6, OneWaits
  <2>4. CASE GetTask(c)
    <3>1. /\ th[c].at # "idle" /\ th'[c].at = "save" /\ th'[c].task = th[c].task
          /\ th'[c].saves = th[c].saves /\ th'[c].snap = board[th[c].task]
          /\ th[c].task \in Tasks
          /\ Still(c) /\ UNCHANGED <<board, files, created, declared, hist>>
      BY <2>4, GetTaskEffect
    <3>2. ThreadWaits(c)'
      BY <1>0, <2>t, <2>x, <3>1, EndedStays DEF ThreadWaits, Waits
    <3> QED
      BY <2>x, <3>1, <3>2, OnlyMoves
  <2>5. CASE PersistTask(c)
    <3>1. /\ th[c].at = "save" /\ th'[c].at = "idle" /\ th'[c].saves = {}
          /\ th[c].task \in Tasks
          /\ Still(c) /\ UNCHANGED <<board, created, declared, hist>>
          /\ files' = [files EXCEPT ![th[c].task] = th[c].snap]
      BY <2>5, PersistTaskEffect
    <3>2. /\ th[c].snap.status # "absent"
          /\ StillWaits(declared[th[c].task], th[c].snap, Ended)
      BY <2>t, <3>1 DEF ThreadWaits, Waits
    <3>3. \A k : Happened(k)' = Happened(k)
      BY <3>1, NothingNew
    <3>4. \A u \in Tasks : files'[u] = IF u = th[c].task THEN th[c].snap ELSE files[u]
      BY <1>0, <3>1 DEF StoresTyped
    <3>5. Onward /\ Started' = Started /\ Ended' = Ended
      BY <1>0, <3>1, <3>2, <3>3, <3>4 DEF Onward, Ended, Started
    <3>6. \A u \in Tasks : /\ StillWaits(declared'[u], board'[u], Ended')
                           /\ StillWaits(declared'[u], files'[u], Ended')
      BY <1>0, <3>1, <3>2, <3>4, <3>5
    <3> QED
      BY <2>x, <3>1, <3>5, <3>6, IdleWaits, OneWaits
  <2>6. CASE Claim(c)
    <3>1. /\ th'[c].at = "fileClaim" /\ th'[c].task \in Present /\ th'[c].saves = {}
          /\ Still(c) /\ UNCHANGED <<board, files, created, declared, hist>>
      BY <2>6, ClaimEffect
    <3>2. ThreadWaits(c)'
      BY <2>x, <3>1 DEF ThreadWaits, Present
    <3> QED
      BY <2>x, <3>1, <3>2, OnlyMoves
  <2>7. CASE MarkInProgress(c)
    <3>1. /\ th[c].at = "mark" /\ th'[c].at = "idle" /\ th'[c].saves = {}
          /\ th[c].task \in Tasks
          /\ Still(c) /\ UNCHANGED <<files, created, declared, hist>>
          /\ board' = [board EXCEPT ![th[c].task].status = "in_progress"]
      BY <2>7, MarkEffect
    <3>2. board[th[c].task].status # "absent"
      BY <2>t, <3>1 DEF ThreadWaits
    <3>3. \A k : Happened(k)' = Happened(k)
      BY <3>1, NothingNew
    <3>4. \A u \in Tasks : /\ board'[u].blockedBy = board[u].blockedBy
                           /\ board'[u] = board[u] \/ (u = th[c].task
                                                        /\ board'[u].status = "in_progress")
      BY <1>0, <3>1 DEF StoresTyped, Rec
    <3>5. Onward /\ Started' = Started /\ Ended' = Ended
      BY <1>0, <3>1, <3>3, <3>4 DEF Onward, Ended, Started
    <3>6. \A u \in Tasks : /\ StillWaits(declared'[u], board'[u], Ended')
                           /\ StillWaits(declared'[u], files'[u], Ended')
      BY <1>0, <3>1, <3>2, <3>4, <3>5 DEF StillWaits
    <3> QED
      BY <2>x, <3>1, <3>5, <3>6, IdleWaits, OneWaits
  <2>8. CASE Complete(c)
    <3> DEFINE t == th'[c].task
    <3>1. /\ th'[c].at = "dependents" /\ th'[c].saves = {} /\ t \in Present
          /\ Still(c) /\ UNCHANGED <<files, created, declared>>
          /\ board' = [board EXCEPT ![t].status = "completed"]
          /\ Happened("completing")' = Happened("completing") \cup {t}
          /\ \A k : k # "completing" => Happened(k)' = Happened(k)
      BY <2>8, CompleteEffect
    <3>2. t \in Tasks /\ board[t].status # "absent"
      BY <3>1 DEF Present
    <3>3. \A u \in Tasks : /\ board'[u].blockedBy = board[u].blockedBy
                           /\ board'[u] = board[u] \/ (u = t /\ board'[u].status = "completed")
      BY <1>0, <3>1 DEF StoresTyped, Rec
    <3>4. Onward /\ Started' = Started /\ Ended \subseteq Ended' /\ t \in Ended'
      BY <1>0, <3>1, <3>3 DEF Onward, Ended, Started
    <3>5. \A u \in Tasks : /\ StillWaits(declared'[u], board'[u], Ended')
                           /\ StillWaits(declared'[u], files'[u], Ended')
      BY <1>0, <3>1, <3>2, <3>3, <3>4 DEF StillWaits
    <3>6. board'[t].status # "absent"
      BY <3>2, <3>3
    <3>7. ThreadWaits(c)'
      BY <2>x, <3>1, <3>4, <3>6 DEF ThreadWaits
    <3> QED
      BY <2>x, <3>1, <3>4, <3>5, <3>7, OneWaits
  <2>9. CASE Dependents(c)
    <3>1. /\ th[c].at = "dependents" /\ th'[c].at = "unblock" /\ th'[c].task = th[c].task
          /\ th'[c].saves = th[c].saves
          /\ Still(c) /\ UNCHANGED <<board, files, created, declared, hist>>
      BY <2>9, DependentsEffect
    <3>2. ThreadWaits(c)'
      BY <2>t, <2>x, <3>1, EndedStays DEF ThreadWaits, Waits
    <3> QED
      BY <2>x, <3>1, <3>2, OnlyMoves
  <2>10. CASE Unblock(c)
    <3> DEFINE t == th[c].task
    <3>1. /\ th[c].at = "unblock" /\ t \in Tasks /\ Still(c) /\ UNCHANGED <<files, created, declared>>
          /\ board' = [u \in Tasks |-> IF u \in th[c].deps
                         THEN [board[u] EXCEPT !.blockedBy = @ \ {t}] ELSE board[u]]
          /\ \/ th'[c].at = "idle" /\ th'[c].saves = {}
             \/ th'[c].at = "get" /\ th'[c].task = t /\ th'[c].saves = th[c].saves
          /\ \A i : i # "unblocked" /\ i # "shared" => Happened(i)' = Happened(i)
      BY <2>10, UnblockEffect
    <3>2. t \in Ended /\ board[t].status # "absent"
      BY <2>t, <3>1 DEF ThreadWaits
    <3>3. \A u \in Tasks : /\ board[u].blockedBy \subseteq board'[u].blockedBy \cup {t}
                           /\ board'[u].status = board[u].status
      BY <1>0, <3>1 DEF StoresTyped, Rec
    <3>4. Onward /\ Started' = Started /\ Ended' = Ended
      BY <1>0, <3>1, <3>3 DEF Onward, Ended, Started
    <3>5. \A u \in Tasks : /\ StillWaits(declared'[u], board'[u], Ended')
                           /\ StillWaits(declared'[u], files'[u], Ended')
      BY <1>0, <3>1, <3>2, <3>3, <3>4 DEF StillWaits
    <3>6. ThreadWaits(c)'
      BY <2>t, <2>x, <3>1, <3>2, <3>3, <3>4 DEF ThreadWaits, Waits
    <3> QED
      BY <2>x, <3>1, <3>4, <3>5, <3>6, OneWaits
  <2> QED
    BY <1>c, <2>1, <2>2, <2>3, <2>4, <2>5, <2>6, <2>7, <2>8, <2>9, <2>10 DEF CallerStep
<1>l. ASSUME NEW w \in Loops, LoopStep(w) PROVE BlockInv'
  <2>x. w \in Threads /\ w \notin Callers
    BY ThreadKinds
  <2>t. ThreadWaits(w)
    BY <2>x, <1>0
  <2>1. CASE Find(w)
    <3> DEFINE t == th'[w].task
    <3>1. /\ th'[w].at = "fileClaim" /\ th'[w].saves = {} /\ t \in Tasks
          /\ Claimable(files[t]) /\ files[t].blockedBy = {}
          /\ Still(w) /\ UNCHANGED <<board, files, created, declared, hist>>
      BY <2>1, FindEffect
    <3>2. files[t].status # "absent" /\ declared[t] \subseteq Ended
      BY <1>0, <3>1 DEF Claimable, StillWaits
    <3>3. ThreadWaits(w)'
      BY <2>x, <3>1, <3>2, NothingNew DEF ThreadWaits, Ended
    <3> QED
      BY <2>x, <3>1, <3>3, OnlyMoves
  <2>2. CASE Execute(w)
    <3> DEFINE t == th[w].task
    <3>1. /\ th[w].at = "run" /\ t \in Tasks /\ th'[w].task = t /\ th'[w].saves = th[w].saves
          /\ \/ files[t].status = "absent" /\ th'[w].at = "scan"
             \/ /\ files[t].status # "absent" /\ th'[w].at = "finish"
                /\ th'[w].snap.status \in {"completed", "failed"}
                /\ th'[w].snap.blockedBy = files[t].blockedBy
          /\ Still(w) /\ UNCHANGED <<board, files, created, declared, hist>>
      BY <2>2, ExecuteEffect
    <3>2. files[t].status # "absent"
      BY <2>t, <3>1 DEF ThreadWaits
    <3>3. Waits(t, th'[w].snap)
      BY <1>0, <3>1, <3>2 DEF Waits, StillWaits
    <3>4. ThreadWaits(w)'
      BY <2>t, <2>x, <3>1, <3>2, <3>3, EndedStays DEF ThreadWaits, Waits
    <3> QED
      BY <2>x, <3>1, <3>4, OnlyMoves
  <2>3. CASE FinishTask(w)
    <3> DEFINE t == th[w].task
    <3>1. /\ th[w].at = "finish" /\ th'[w].at = "scan" /\ th'[w].task = t
          /\ th'[w].saves = th[w].saves /\ t \in Tasks /\ t \in 1..created
          /\ Still(w) /\ UNCHANGED <<board, created, declared>>
          /\ files' = [files EXCEPT ![t] = th[w].snap]
      BY <2>3, FinishTaskEffect
    <3>2. th[w].snap.status # "absent" /\ StillWaits(declared[t], th[w].snap, Ended)
      BY <2>t, <3>1 DEF ThreadWaits, Waits
    <3>3. /\ Happened("ran")' = Happened("ran") \cup {<<t, th[w].snap.status>>}
          /\ \A k : k \notin {"ran", "owed"} => Happened(k)' = Happened(k)
      BY <2>3, NotedFinish
    <3>e. Ended' = Ended \cup {t}
      <4>1. <<t, th[w].snap.status>>[1] = t
        OBVIOUS
      <4>2. PICK v : v = <<t, th[w].snap.status>>
        OBVIOUS
      <4>3. Happened("ran")' = Happened("ran") \cup {v} /\ v[1] = t
        BY <3>3, <4>1, <4>2
      <4>4. {q[1] : q \in Happened("ran")'} = {q[1] : q \in Happened("ran")} \cup {t}
        BY <4>3
      <4> QED
        BY <3>3, <4>4 DEF Ended
    <3>4. \A u \in Tasks : files'[u] = IF u = t THEN th[w].snap ELSE files[u]
      BY <1>0, <3>1 DEF StoresTyped
    <3>5. Onward /\ Started' = Started /\ Ended \subseteq Ended' /\ t \in Ended'
      BY <1>0, <3>1, <3>2, <3>3, <3>4, <3>e DEF Onward, Started
    <3>6. \A u \in Tasks : /\ StillWaits(declared'[u], board'[u], Ended')
                           /\ StillWaits(declared'[u], files'[u], Ended')
      BY <1>0, <3>1, <3>2, <3>4, <3>5 DEF StillWaits
    <3>7. ThreadWaits(w)'
      <4>1. \A q \in th[w].saves : q.rec.status # "absent" /\ StillWaits(declared[q.task], q.rec, Ended')
        BY <2>t, <3>5 DEF ThreadWaits, Waits, StillWaits
      <4> QED
        BY <2>x, <3>1, <3>2, <3>4, <3>5, <4>1 DEF ThreadWaits, Waits
    <3> QED
      BY <2>x, <3>1, <3>5, <3>6, <3>7, OneWaits
  <2>4. CASE ScanDependents(w)
    <3> DEFINE t == th[w].task
    <3>1. /\ th[w].at = "scan" /\ t \in Tasks
          /\ \/ th'[w].at = "idle" /\ th'[w].saves = {}
             \/ /\ th'[w].at = "dependent" /\ th'[w].task = t
                /\ \A q \in th'[w].saves :
                     /\ q.task \in Tasks /\ files[q.task].status # "absent"
                     /\ q = [task |-> q.task, rec |-> Without(files[q.task], t)]
          /\ Still(w) /\ UNCHANGED <<board, files, created, declared, hist>>
      BY <2>4, ScanEffect
    <3>2. CASE th'[w].at = "idle" /\ th'[w].saves = {}
      BY <2>x, <3>1, <3>2, IdleWaits, OnlyMoves
    <3>3. CASE th'[w].at = "dependent" /\ th'[w].task = t
      <4>1. t \in Ended /\ files[t].status # "absent"
        BY <2>t, <3>1 DEF ThreadWaits
      <4>2. ASSUME NEW q \in th'[w].saves
            PROVE  q.rec.status # "absent" /\ StillWaits(declared[q.task], q.rec, Ended)
        <5>1. q.task \in Tasks /\ files[q.task].status # "absent" /\ q.rec = Without(files[q.task], t)
          BY <3>1, <3>3
        <5>2. /\ q.rec.status = files[q.task].status
              /\ q.rec.blockedBy = files[q.task].blockedBy \ {t}
          BY <1>0, <5>1 DEF Without, Rec
        <5> QED
          BY <1>0, <4>1, <5>1, <5>2 DEF StillWaits
      <4>3. ThreadWaits(w)'
        BY <2>x, <3>1, <3>3, <4>1, <4>2, NothingNew DEF ThreadWaits, Waits, Ended
      <4> QED
        BY <2>x, <3>1, <4>3, OnlyMoves
    <3> QED
      BY <3>1, <3>2, <3>3
  <2>5. CASE UnblockFile(w)
    <3>1. PICK q \in th[w].saves :
            /\ q.task \in Tasks /\ files' = [files EXCEPT ![q.task] = q.rec]
            /\ \/ th'[w].at = "idle" /\ th'[w].saves = {}
               \/ /\ th'[w].at = "dependent" /\ th'[w].task = th[w].task
                  /\ th'[w].saves = th[w].saves \ {q}
      BY <2>5, UnblockFileEffect
    <3>2. /\ th[w].at = "dependent" /\ Still(w) /\ UNCHANGED <<board, created, declared, hist>>
          /\ th[w].task \in Tasks
      BY <2>5, UnblockFileEffect
    <3>3. q.rec.status # "absent" /\ StillWaits(declared[q.task], q.rec, Ended)
      BY <2>t DEF ThreadWaits, Waits
    <3>4. \A k : Happened(k)' = Happened(k)
      BY <3>2, NothingNew
    <3>5. \A u \in Tasks : files'[u] = IF u = q.task THEN q.rec ELSE files[u]
      BY <1>0, <3>1 DEF StoresTyped
    <3>6. Onward /\ Started' = Started /\ Ended' = Ended
      BY <1>0, <3>2, <3>3, <3>4, <3>5 DEF Onward, Ended, Started
    <3>7. \A u \in Tasks : /\ StillWaits(declared'[u], board'[u], Ended')
                           /\ StillWaits(declared'[u], files'[u], Ended')
      BY <1>0, <3>2, <3>3, <3>5, <3>6
    <3>8. ThreadWaits(w)'
      <4>1. files'[th[w].task].status # "absent"
        BY <2>t, <3>2, <3>3, <3>5 DEF ThreadWaits
      <4>2. \A z \in th'[w].saves : z \in th[w].saves
        BY <3>1
      <4> QED
        BY <2>t, <2>x, <3>1, <3>2, <3>6, <4>1, <4>2 DEF ThreadWaits, Waits
    <3> QED
      BY <2>x, <3>2, <3>6, <3>7, <3>8, OneWaits
  <2> QED
    BY <1>l, <2>1, <2>2, <2>3, <2>4, <2>5 DEF LoopStep
<1>f. ASSUME NEW x \in Threads, FileClaim(x) PROVE BlockInv'
  <2> DEFINE t == th[x].task
  <2>1. /\ th[x].at = "fileClaim" /\ t \in Tasks /\ t \in 1..created
        /\ Still(x) /\ UNCHANGED <<board, created, declared>>
    BY <1>f, FileClaimEffect
  <2>2. ThreadWaits(x)
    BY <1>0
  <2>3. CASE /\ th'[x].at = "idle" /\ th'[x].saves = {} /\ UNCHANGED <<files, hist>>
    BY <2>1, <2>3, IdleWaits, OnlyMoves
  <2>4. CASE /\ Claimable(files[t]) /\ th'[x].at \in {"run", "assign"}
             /\ th'[x].task = t /\ th'[x].saves = th[x].saves
             /\ Ended' = Ended
             /\ Happened("granted")' = Happened("granted")
             /\ \/ Happened("started")' = Happened("started")
                \/ /\ x \in Loops
                   /\ Happened("started")' = Happened("started") \cup {<<t, x>>}
             /\ files' = [files EXCEPT ![t] = [@ EXCEPT !.status = "in_progress", !.owner = x]]
    <3>1. \A u \in Tasks : /\ files'[u].blockedBy = files[u].blockedBy
                           /\ files'[u] = files[u] \/ (u = t /\ files'[u].status = "in_progress")
      BY <1>0, <2>4 DEF StoresTyped, Rec
    <3>2. Onward /\ Ended' = Ended /\ files[t].status # "absent"
      BY <1>0, <2>1, <2>4, <3>1 DEF Onward, Ended, Claimable
    <3>3. \A u \in Tasks : /\ StillWaits(declared'[u], board'[u], Ended')
                           /\ StillWaits(declared'[u], files'[u], Ended')
      BY <1>0, <2>1, <3>1, <3>2 DEF StillWaits
    <3>4. files'[t].status # "absent"
      BY <2>1, <3>1, <3>2
    <3>5. ThreadWaits(x)'
      BY <2>1, <2>2, <2>4, <3>2, <3>4 DEF ThreadWaits, Waits
    <3>6. Started' \subseteq Started \cup (IF x \in Loops THEN {t} ELSE {})
      BY <2>4 DEF Started
    <3>7. x \in Loops => declared[t] \subseteq Ended
      BY <2>1, <2>2 DEF ThreadWaits
    <3> QED
      BY <2>1, <3>2, <3>3, <3>5, <3>6, <3>7, OneWaits
  <2>5. Ended' = Ended
    BY <1>f, FileClaimEffect, EndedStays
  <2> QED
    BY <1>f, <2>3, <2>4, <2>5, FileClaimEffect
<1>a. ASSUME NEW x \in Threads, AssignTask(x) PROVE BlockInv'
  <2> DEFINE t == th[x].task
             g == <<t, th[x].who, crashes>>
  <2>1. /\ th[x].at \in {"assign", "hand"} /\ t \in Tasks /\ t \in 1..created
        /\ Still(x) /\ UNCHANGED <<files, created, declared>>
        /\ \/ th'[x].at = "idle" /\ th'[x].saves = {}
           \/ /\ th[x].at = "assign" /\ th'[x].at = "mark" /\ th'[x].task = t
              /\ th'[x].saves = th[x].saves
    BY <1>a, AssignEffect
  <2>2. ThreadWaits(x)
    BY <1>0
  <2>3. CASE UNCHANGED <<board, hist>>
    <3>1. Onward /\ Ended' = Ended
      BY <1>0, <2>1, <2>3, NothingNew DEF Onward, Ended
    <3>2. ThreadWaits(x)'
      BY <2>1, <2>2, <2>3, <3>1 DEF ThreadWaits, Waits
    <3> QED
      BY <2>1, <2>3, <3>2, OnlyMoves
  <2>4. CASE /\ IsReady(t)
             /\ board' = [board EXCEPT ![t] =
                            [@ EXCEPT !.owner = th[x].who, !.status = "in_progress"]]
             /\ Happened("granted")' = Happened("granted") \cup {g}
             /\ \A k : k # "granted" => Happened(k)' = Happened(k)
    <3>1. \A u \in Tasks : /\ board'[u].blockedBy = board[u].blockedBy
                           /\ board'[u] = board[u] \/ (u = t /\ board'[u].status = "in_progress")
      BY <1>0, <2>4 DEF StoresTyped, Rec
    <3>2. /\ Onward /\ Ended' = Ended /\ board[t].status # "absent"
          /\ Happened("started")' = Happened("started")
      BY <1>0, <2>1, <2>4, <3>1 DEF Onward, Ended, IsReady
    <3>3. \A u \in Tasks : /\ StillWaits(declared'[u], board'[u], Ended')
                           /\ StillWaits(declared'[u], files'[u], Ended')
      BY <1>0, <2>1, <3>1, <3>2 DEF StillWaits
    <3>4. ThreadWaits(x)'
      BY <2>1, <2>2, <3>1, <3>2 DEF ThreadWaits, Waits
    <3>5. Started' \subseteq Started \cup {t}
      BY <2>4, <3>2 DEF Started
    <3>6. declared[t] \subseteq Ended
      BY <1>0, <2>1, <2>4, <3>2 DEF StillWaits, IsReady
    <3> QED
      BY <2>1, <3>2, <3>3, <3>4, <3>5, <3>6, OneWaits
  <2> QED
    BY <1>a, <2>3, <2>4, AssignEffect
<1>u. ASSUME AutoClaim PROVE BlockInv'
  <2> DEFINE x == "heartbeat"
  <2>1. /\ th'[x].at = "hand" /\ th'[x].saves = {} /\ Still(x)
        /\ UNCHANGED <<board, files, created, declared, hist>>
    BY <1>u, AutoClaimEffect
  <2>2. x \in Threads /\ x \notin Callers /\ x \notin Loops
    BY ThreadKinds
  <2>3. ThreadWaits(x)'
    BY <2>1, <2>2 DEF ThreadWaits
  <2> QED
    BY <2>1, <2>2, <2>3, OnlyMoves
<1>s. ASSUME NEW t \in Present, NEW s \in {"pending", "in_progress"} \cup Terminal,
             SetStatus(t, s)
      PROVE  BlockInv'
  <2>1. /\ board' = [board EXCEPT ![t].status = s]
        /\ UNCHANGED <<files, th, created, declared>>
        /\ Note("marked", IF s = "in_progress" THEN {t} ELSE {})
    BY <1>s DEF SetStatus
  <2>2. t \in Tasks /\ board[t].status # "absent" /\ s # "absent"
    BY DEF Present, Terminal
  <2>n. \A k : k # "marked" => Happened(k)' = Happened(k)
    BY <2>1, Noted
  <2>3. Ended' = Ended /\ \A k : k # "marked" => Happened(k)' = Happened(k)
    BY <2>n DEF Ended
  <2>4. \A u \in Tasks : /\ board'[u].blockedBy = board[u].blockedBy
                         /\ board'[u] = board[u] \/ (u = t /\ board'[u].status = s)
    BY <1>0, <2>1 DEF StoresTyped, Rec
  <2>5. Onward /\ Started' = Started
    BY <1>0, <2>1, <2>2, <2>3, <2>4 DEF Onward, Started
  <2>6. \A u \in Tasks : /\ StillWaits(declared'[u], board'[u], Ended')
                         /\ StillWaits(declared'[u], files'[u], Ended')
    BY <1>0, <2>1, <2>2, <2>3, <2>4 DEF StillWaits
  <2>7. "heartbeat" \in Threads /\ Still("heartbeat") /\ ThreadWaits("heartbeat")'
    BY <1>0, <2>1, <2>5, OthersWait, ThreadKinds DEF Still
  <2> QED
    BY <2>5, <2>6, <2>7, OneWaits
<1>r. ASSUME Crash PROVE BlockInv'
  <2>1. /\ board' = files' /\ th' = [x \in Threads |-> Idle]
        /\ UNCHANGED <<created, declared, hist>>
        /\ files' \in {files} \cup {[files EXCEPT ![t] = Absent] : t \in Saving}
    BY <1>r DEF Crash
  <2>2. \A t \in Tasks : files'[t] = files[t] \/ files'[t] = Absent
    BY <1>0, <2>1 DEF StoresTyped
  <2>3. \A k : Happened(k)' = Happened(k)
    BY <2>1, NothingNew
  <2>4. Started' = Started /\ Ended' = Ended
    BY <2>3 DEF Started, Ended
  <2>5. \A t \in Tasks : Waits(t, board[t])' /\ Waits(t, files[t])'
    BY <1>0, <2>1, <2>2, <2>4 DEF Waits, StillWaits, Absent
  <2>6. \A x \in Threads : ThreadWaits(x)'
    BY <2>1, IdleWaits DEF Idle
  <2> QED
    BY <2>1, <2>3, <2>4, <2>5, <2>6 DEF BlockInv, EndedFirst
<1>v. ASSUME UNCHANGED vars PROVE BlockInv'
  <2>1. "heartbeat" \in Threads /\ Still("heartbeat")
    BY <1>v, ThreadKinds DEF vars, Still
  <2>2. Onward
    BY <1>0, <1>v, NothingNew DEF vars, Onward, Ended
  <2>3. ThreadWaits("heartbeat")'
    BY <1>0, <1>v, <2>1, <2>2, OthersWait DEF vars
  <2> QED
    BY <1>v, <2>1, <2>3, OnlyMoves DEF vars
<1> QED
  BY <1>c, <1>l, <1>f, <1>a, <1>u, <1>s, <1>r, <1>v DEF Next

\* Init satisfies BlockInv.
LEMMA BlockInit == Init => BlockInv
<1> SUFFICES ASSUME Init PROVE BlockInv
  OBVIOUS
<1>1. \A k : Happened(k) = {}
  BY DEF Init, Happened
<1>2. \A t \in Tasks : Waits(t, board[t]) /\ Waits(t, files[t])
  BY DEF Init, Waits, StillWaits, Absent
<1>3. \A x \in Threads : ThreadWaits(x)
  BY DEF Init, ThreadWaits, Idle
<1> QED
  BY <1>1, <1>2, <1>3 DEF BlockInv, Started, EndedFirst

\* What the board shows as long as it was not loaded from the files: its tasks
\* wait for complete_task, and so do the claims under way.
ByComplete == Happened("completing")
BoardTask(t) ==
  /\ StillWaits(declared[t], board[t], ByComplete)
  /\ board[t].status = "in_progress" =>
       t \in Happened("marked") \/ declared[t] \subseteq ByComplete
BoardCaller(c) ==
  /\ th[c].at \in {"dependents", "unblock"} => th[c].task \in ByComplete
  /\ th[c].at = "mark" => declared[th[c].task] \subseteq ByComplete
BoardGrant(g) ==
  g[1] \in 1..created /\ (g[3] = 0 => declared[g[1]] \subseteq ByComplete)
BoardInv ==
  /\ crashes = 0 => (\A t \in Tasks : BoardTask(t)) /\ (\A c \in Callers : BoardCaller(c))
  /\ \A g \in Happened("granted") : BoardGrant(g)

\* What every step but a crash keeps.
BoardOnward ==
  /\ created' \in Nat /\ created <= created' /\ UNCHANGED crashes
  /\ \A t \in 1..created : declared'[t] = declared[t]
  /\ ByComplete \subseteq ByComplete' /\ Happened("marked") \subseteq Happened("marked")'

\* BoardInv after a step of one thread.
LEMMA OneOnBoard ==
  ASSUME TypeInv, BoardInv, BoardOnward, NEW x \in Threads, Still(x),
         crashes = 0 => \A t \in Tasks : BoardTask(t)',
         crashes = 0 /\ x \in Callers => BoardCaller(x)',
         \A g \in Happened("granted")' : g \in Happened("granted") \/ BoardGrant(g)
  PROVE  BoardInv'
<1>1. created \in Nat /\ 1..created \subseteq 1..created'
  BY TeamAssumption DEF TypeInv, StoresTyped, BoardOnward
<1>2. ASSUME crashes = 0, NEW c \in Callers, c # x PROVE BoardCaller(c)'
  <2>1. th'[c] = th[c] /\ BoardCaller(c)
    BY <1>2, ThreadKinds DEF Still, BoardInv
  <2>2. th[c].at # "idle" => th[c].task \in 1..created
    BY AtWork, ThreadKinds
  <2> QED
    BY <2>1, <2>2 DEF BoardCaller, BoardOnward
<1>3. ASSUME NEW g \in Happened("granted")' PROVE BoardGrant(g)'
  <2>1. BoardGrant(g)
    BY DEF BoardInv
  <2> QED
    BY <1>1, <2>1 DEF BoardGrant, BoardOnward
<1> QED
  BY <1>2, <1>3 DEF BoardInv, BoardOnward

\* The same for a step that leaves the board alone.
LEMMA OffTheBoard ==
  ASSUME TypeInv, BoardInv, NEW x \in Threads, Still(x),
         UNCHANGED <<board, created, declared, crashes>>,
         \A k \in {"completing", "marked", "granted"} : Happened(k)' = Happened(k),
         crashes = 0 /\ x \in Callers => BoardCaller(x)'
  PROVE  BoardInv'
<1>1. BoardOnward
  BY TeamAssumption DEF TypeInv, StoresTyped, BoardOnward, ByComplete
<1>2. crashes = 0 => \A t \in Tasks : BoardTask(t)'
  BY DEF BoardInv, BoardTask, ByComplete
<1> QED
  BY <1>1, <1>2, OneOnBoard

\* A caller that neither completes nor claims owes the board nothing.
LEMMA CallerElsewhere ==
  ASSUME NEW c, th'[c].at \notin {"dependents", "unblock", "mark"}
  PROVE  BoardCaller(c)'
  BY DEF BoardCaller

\* Every step keeps BoardInv.
LEMMA BoardStep == TypeInv /\ BoardInv /\ [Next]_vars => BoardInv'
<1> SUFFICES ASSUME TypeInv, BoardInv, [Next]_vars PROVE BoardInv'
  OBVIOUS
<1>0. /\ StoresTyped /\ NoneBefore /\ 1..created \subseteq Tasks /\ created \in Nat
      /\ \A t \in Tasks : board[t] \in Rec
      /\ crashes = 0 => /\ \A t \in Tasks : BoardTask(t)
                        /\ \A c \in Callers : BoardCaller(c)
  BY TeamAssumption DEF TypeInv, StoresTyped, Tasks, BoardInv
<1>n. ASSUME UNCHANGED hist
      PROVE  \A k \in {"completing", "marked", "granted"} : Happened(k)' = Happened(k)
  BY <1>n, NothingNew
<1>c. ASSUME NEW c \in Callers, CallerStep(c) PROVE BoardInv'
  <2>x. c \in Threads
    BY ThreadKinds
  <2>1. CASE Create(c)
    <3> DEFINE t == created + 1
    <3>1. PICK D \in SUBSET Present :
            /\ board' = [board EXCEPT ![t] = New(D)]
            /\ declared' = [declared EXCEPT ![t] = D]
            /\ \/ th'[c].at \in {"save", "register", "hand"}
               \/ th'[c] = th[c]
      BY <2>1, CreateEffect
    <3>2. /\ t \in Tasks /\ created' = t /\ Still(c) /\ UNCHANGED <<hist, crashes>>
          /\ th[c].at = "idle"
      BY <2>1, CreateEffect
    <3>3. /\ board'[t] = New(D) /\ declared'[t] = D
          /\ \A u \in Tasks : u # t => board'[u] = board[u] /\ declared'[u] = declared[u]
      BY <1>0, <3>1, <3>2 DEF StoresTyped
    <3>4. New(D).status = "pending" /\ New(D).blockedBy = D
      BY DEF New
    <3>5. t \notin 1..created /\ created <= t /\ t \in Nat
      BY <1>0
    <3> HIDE DEF t
    <3>6. BoardOnward
      BY <1>0, <1>n, <3>2, <3>3, <3>5 DEF BoardOnward, ByComplete
    <3>7. crashes = 0 => \A u \in Tasks : BoardTask(u)'
      BY <1>0, <1>n, <3>2, <3>3, <3>4 DEF BoardTask, ByComplete, StillWaits
    <3>8. BoardCaller(c)'
      BY <3>1, <3>2, CallerElsewhere
    <3> QED
      BY <1>n, <2>x, <3>2, <3>6, <3>7, <3>8, OneOnBoard
  <2>2. CASE Register(c)
    <3>1. /\ th'[c].at = "link" /\ Still(c)
          /\ UNCHANGED <<board, created, declared, crashes, hist>>
      BY <2>2, RegisterEffect
    <3> QED
      BY <1>n, <2>x, <3>1, CallerElsewhere, OffTheBoard
  <2>3. CASE Link(c)
    <3>1. /\ th'[c].at = "register" /\ Still(c) /\ UNCHANGED <<created, declared>>
          /\ board' = [board EXCEPT ![th[c].task].blockedBy = @ \cup {th[c].dep}]
          /\ Note("relinked", IF th[c].dep \in Happened("completing")
                              THEN {<<th[c].dep, th[c].task>>} ELSE {})
      BY <2>3, LinkEffect
    <3>2. UNCHANGED crashes
      BY <2>3 DEF Link
    <3>3. \A k : k # "relinked" => Happened(k)' = Happened(k)
      BY <3>1, Noted
    <3>4. \A u \in Tasks : /\ board'[u].status = board[u].status
                           /\ board[u].blockedBy \subseteq board'[u].blockedBy
      BY <1>0, <3>1 DEF StoresTyped, Rec
    <3>5. BoardOnward
      BY <1>0, <3>1, <3>2, <3>3 DEF BoardOnward, ByComplete
    <3>6. crashes = 0 => \A u \in Tasks : BoardTask(u)'
      BY <1>0, <3>1, <3>3, <3>4 DEF BoardTask, ByComplete, StillWaits
    <3> QED
      BY <2>x, <3>1, <3>3, <3>5, <3>6, CallerElsewhere, OneOnBoard
  <2>4. CASE GetTask(c)
    <3>1. th'[c].at = "save" /\ Still(c) /\ UNCHANGED <<board, created, declared, hist>>
      BY <2>4, GetTaskEffect
    <3>2. UNCHANGED crashes
      BY <2>4 DEF GetTask
    <3> QED
      BY <1>n, <2>x, <3>1, <3>2, CallerElsewhere, OffTheBoard
  <2>5. CASE PersistTask(c)
    <3>1. th'[c].at = "idle" /\ Still(c) /\ UNCHANGED <<board, created, declared, hist>>
      BY <2>5, PersistTaskEffect
    <3>2. UNCHANGED crashes
      BY <2>5 DEF PersistTask
    <3> QED
      BY <1>n, <2>x, <3>1, <3>2, CallerElsewhere, OffTheBoard
  <2>6. CASE Claim(c)
    <3>1. /\ th'[c].at = "fileClaim" /\ Still(c)
          /\ UNCHANGED <<board, created, declared, crashes, hist>>
      BY <2>6, ClaimEffect
    <3> QED
      BY <1>n, <2>x, <3>1, CallerElsewhere, OffTheBoard
  <2>7. CASE MarkInProgress(c)
    <3> DEFINE t == th[c].task
    <3>1. /\ th[c].at = "mark" /\ th'[c].at = "idle" /\ t \in Tasks
          /\ Still(c) /\ UNCHANGED <<created, declared, crashes, hist>>
          /\ board' = [board EXCEPT ![t].status = "in_progress"]
      BY <2>7, MarkEffect
    <3>2. \A u \in Tasks : /\ board'[u].blockedBy = board[u].blockedBy
                           /\ board'[u] = board[u] \/ u = t
      BY <1>0, <3>1 DEF StoresTyped, Rec
    <3>3. BoardOnward
      BY <1>0, <1>n, <3>1 DEF BoardOnward, ByComplete
    <3>4. crashes = 0 => declared[t] \subseteq ByComplete
      BY <1>0, <3>1 DEF BoardCaller
    <3>5. crashes = 0 => \A u \in Tasks : BoardTask(u)'
      BY <1>0, <1>n, <3>1, <3>2, <3>4 DEF BoardTask, ByComplete, StillWaits
    <3> QED
      BY <1>n, <2>x, <3>1, <3>3, <3>5, CallerElsewhere, OneOnBoard
  <2>8. CASE Complete(c)
    <3> DEFINE t == th'[c].task
    <3>1. /\ th'[c].at = "dependents" /\ t \in Present /\ Still(c)
          /\ UNCHANGED <<created, declared, crashes>>
          /\ board' = [board EXCEPT ![t].status = "completed"]
          /\ Happened("completing")' = Happened("completing") \cup {t}
          /\ \A k : k # "completing" => Happened(k)' = Happened(k)
      BY <2>8, CompleteEffect
    <3>2. t \in Tasks /\ board[t].status # "absent"
      BY <3>1 DEF Present
    <3>3. \A u \in Tasks : /\ board'[u].blockedBy = board[u].blockedBy
                           /\ board'[u] = board[u] \/ (u = t /\ board'[u].status = "completed")
      BY <1>0, <3>1 DEF StoresTyped, Rec
    <3>4. BoardOnward
      BY <1>0, <3>1 DEF BoardOnward, ByComplete
    <3>5. crashes = 0 => \A u \in Tasks : BoardTask(u)'
      BY <1>0, <3>1, <3>2, <3>3 DEF BoardTask, ByComplete, StillWaits
    <3>6. BoardCaller(c)'
      BY <3>1 DEF BoardCaller, ByComplete
    <3> QED
      BY <2>x, <3>1, <3>4, <3>5, <3>6, OneOnBoard
  <2>9. CASE Dependents(c)
    <3>1. /\ th[c].at = "dependents" /\ th'[c].at = "unblock" /\ th'[c].task = th[c].task
          /\ Still(c) /\ UNCHANGED <<board, created, declared, hist>>
      BY <2>9, DependentsEffect
    <3>2. UNCHANGED crashes
      BY <2>9 DEF Dependents
    <3>3. crashes = 0 => BoardCaller(c)'
      BY <1>0, <1>n, <3>1 DEF BoardCaller, ByComplete
    <3> QED
      BY <1>n, <2>x, <3>1, <3>2, <3>3, OffTheBoard
  <2>10. CASE Unblock(c)
    <3> DEFINE t == th[c].task
    <3>1. /\ th[c].at = "unblock" /\ th'[c].at \in {"idle", "get"} /\ Still(c)
          /\ UNCHANGED <<created, declared, crashes>>
          /\ board' = [u \in Tasks |-> IF u \in th[c].deps
                         THEN [board[u] EXCEPT !.blockedBy = @ \ {t}] ELSE board[u]]
          /\ \A i : i # "unblocked" /\ i # "shared" => Happened(i)' = Happened(i)
      BY <2>10, UnblockEffect
    <3>2. crashes = 0 => t \in ByComplete
      BY <1>0, <3>1 DEF BoardCaller
    <3>3. \A u \in Tasks : /\ board[u].blockedBy \subseteq board'[u].blockedBy \cup {t}
                           /\ board'[u].status = board[u].status
      BY <1>0, <3>1 DEF StoresTyped, Rec
    <3>4. BoardOnward
      BY <1>0, <3>1 DEF BoardOnward, ByComplete
    <3>5. crashes = 0 => \A u \in Tasks : BoardTask(u)'
      BY <1>0, <3>1, <3>2, <3>3 DEF BoardTask, ByComplete, StillWaits
    <3> QED
      BY <2>x, <3>1, <3>4, <3>5, CallerElsewhere, OneOnBoard
  <2> QED
    BY <1>c, <2>1, <2>2, <2>3, <2>4, <2>5, <2>6, <2>7, <2>8, <2>9, <2>10 DEF CallerStep
<1>l. ASSUME NEW w \in Loops, LoopStep(w) PROVE BoardInv'
  <2>1. w \in Threads /\ w \notin Callers /\ UNCHANGED <<board, created, declared, crashes>>
    BY <1>l, ThreadKinds
       DEF LoopStep, Find, Execute, FinishTask, ScanDependents, UnblockFile
  <2>2. Still(w)
    BY <1>l, FindEffect, ExecuteEffect, FinishTaskEffect, ScanEffect, UnblockFileEffect
       DEF LoopStep
  <2>3. \A k \in {"completing", "marked", "granted"} : Happened(k)' = Happened(k)
    <3>1. CASE FinishTask(w)
      BY <3>1, NotedFinish
    <3>2. CASE ~FinishTask(w)
      BY <1>l, <1>n, <3>2 DEF LoopStep, Find, Execute, ScanDependents, UnblockFile
    <3> QED
      BY <3>1, <3>2
  <2> QED
    BY <2>1, <2>2, <2>3, OffTheBoard
<1>f. ASSUME NEW x \in Threads, FileClaim(x) PROVE BoardInv'
  <2>1. /\ Still(x) /\ UNCHANGED <<board, created, declared, crashes>>
        /\ th'[x].at \in {"run", "assign", "idle"}
    BY <1>f, FileClaimEffect
  <2>2. \A k \in {"completing", "marked", "granted"} : Happened(k)' = Happened(k)
    BY <1>f, <1>n, FileClaimEffect
  <2> QED
    BY <2>1, <2>2, CallerElsewhere, OffTheBoard
<1>a. ASSUME NEW x \in Threads, AssignTask(x) PROVE BoardInv'
  <2> DEFINE t == th[x].task
             g == <<t, th[x].who, crashes>>
  <2>1. /\ t \in Tasks /\ t \in 1..created
        /\ Still(x) /\ UNCHANGED <<created, declared, crashes>>
        /\ th'[x].at = "idle" \/ (th'[x].at = "mark" /\ th'[x].task = t)
    BY <1>a, AssignEffect
  <2>2. CASE UNCHANGED <<board, hist>> /\ th'[x].at = "idle"
    BY <1>n, <2>1, <2>2, CallerElsewhere, OffTheBoard
  <2>3. CASE /\ IsReady(t)
             /\ board' = [board EXCEPT ![t] =
                            [@ EXCEPT !.owner = th[x].who, !.status = "in_progress"]]
             /\ Happened("granted")' = Happened("granted") \cup {g}
             /\ \A k : k # "granted" => Happened(k)' = Happened(k)
    <3>1. \A u \in Tasks : /\ board'[u].blockedBy = board[u].blockedBy
                           /\ board'[u] = board[u] \/ u = t
      BY <1>0, <2>3 DEF StoresTyped, Rec
    <3>2. BoardOnward
      BY <1>0, <2>1, <2>3 DEF BoardOnward, ByComplete
    <3>3. crashes = 0 => declared[t] \subseteq ByComplete
      BY <1>0, <2>1, <2>3 DEF BoardTask, StillWaits, IsReady
    <3>4. crashes = 0 => \A u \in Tasks : BoardTask(u)'
      BY <1>0, <2>1, <2>3, <3>1, <3>3 DEF BoardTask, ByComplete, StillWaits
    <3>5. crashes = 0 => BoardCaller(x)'
      BY <2>1, <2>3, <3>3 DEF BoardCaller, ByComplete
    <3>6. g[1] = t /\ g[3] = crashes
      OBVIOUS
    <3> HIDE DEF g
    <3>7. BoardGrant(g)
      BY <2>1, <3>3, <3>6 DEF BoardGrant
    <3> QED
      BY <2>1, <2>3, <3>2, <3>4, <3>5, <3>7, OneOnBoard
  <2> QED
    BY <1>a, <2>2, <2>3, AssignEffect
<1>u. ASSUME AutoClaim PROVE BoardInv'
  BY <1>n, <1>u, AutoClaimEffect, ThreadKinds, OffTheBoard
<1>h. "heartbeat" \in Threads /\ "heartbeat" \notin Callers /\ (UNCHANGED th => Still("heartbeat"))
  BY ThreadKinds DEF Still
<1>s. ASSUME NEW t \in Present, NEW s \in {"pending", "in_progress"} \cup Terminal,
             SetStatus(t, s)
      PROVE  BoardInv'
  <2>1. /\ board' = [board EXCEPT ![t].status = s]
        /\ UNCHANGED <<th, created, declared, crashes>>
        /\ Note("marked", IF s = "in_progress" THEN {t} ELSE {})
    BY <1>s DEF SetStatus
  <2>2. t \in Tasks /\ board[t].status # "absent"
    BY DEF Present
  <2>3. /\ \A k : k # "marked" => Happened(k)' = Happened(k)
        /\ Happened("marked")' = Happened("marked") \cup (IF s = "in_progress" THEN {t} ELSE {})
    BY <2>1, Noted
  <2>4. \A u \in Tasks : /\ board'[u].blockedBy = board[u].blockedBy
                         /\ board'[u] = board[u] \/ (u = t /\ board'[u].status = s)
    BY <1>0, <2>1 DEF StoresTyped, Rec
  <2>5. BoardOnward
    BY <1>0, <2>1, <2>3 DEF BoardOnward, ByComplete
  <2>6. crashes = 0 => \A u \in Tasks : BoardTask(u)'
    BY <1>0, <2>1, <2>2, <2>3, <2>4 DEF BoardTask, ByComplete, StillWaits
  <2> QED
    BY <1>h, <2>1, <2>3, <2>5, <2>6, OneOnBoard
<1>r. ASSUME Crash PROVE BoardInv'
  <2>1. crashes' # 0 /\ UNCHANGED <<created, declared, hist>>
    BY <1>r DEF Crash, TypeInv, StoresTyped
  <2> QED
    BY <1>n, <2>1 DEF BoardInv, BoardGrant, ByComplete
<1>v. ASSUME UNCHANGED vars PROVE BoardInv'
  BY <1>h, <1>n, <1>v, OffTheBoard DEF vars
<1> QED
  BY <1>c, <1>l, <1>f, <1>a, <1>u, <1>s, <1>r, <1>v DEF Next

\* Init satisfies BoardInv.
LEMMA BoardInit == Init => BoardInv
<1> SUFFICES ASSUME Init PROVE BoardInv
  OBVIOUS
<1>1. \A k : Happened(k) = {}
  BY DEF Init, Happened
<1>2. \A t \in Tasks : BoardTask(t)
  BY DEF Init, BoardTask, StillWaits, Absent
<1>3. \A c \in Callers : BoardCaller(c)
  BY ThreadKinds DEF Init, BoardCaller, Idle
<1> QED
  BY <1>1, <1>2, <1>3 DEF BoardInv

\* A task is started only after every task it was created to wait for was
\* completed or failed in a work loop, and on a board that was never loaded from
\* files only after complete_task of each, unless a status update marked it.
THEOREM BlockersEndFirst == Spec => []BlockersFirst
<1>1. BlockInv /\ BoardInv => BlockersFirst
  BY EndedEither DEF BlockInv, EndedFirst, BoardInv, BoardTask, BoardGrant, ByComplete,
                     BlockersFirst
<1> QED
  BY <1>1, TypeInit, TypeStep, BlockInit, BlockStep, BoardInit, BoardStep, PTL DEF Spec

-----------------------------------------------------------------------------
(* The board's reverse dependencies *)

Linking(p) == \E c \in Callers : At(c, "link") /\ <<th[c].dep, th[c].task>> = p

\* A caller that has read the dependents of its task has read every registered
\* one but those that were linked after the task was completed.
ReadAll(c) ==
  \A p \in rev : p[1] = th[c].task =>
    p[2] \in th[c].deps \/ p \in Happened("relinked") \/ Linking(p)
Kept(p) == \/ p \in Happened("relinked") \/ Linking(p)
           \/ p[1] \notin Happened("unblocked")
           \/ p[1] \notin board[p[2]].blockedBy
RevInv ==
  /\ \A p \in rev : p[2] \in 1..created
  /\ Happened("unblocked") \subseteq Happened("completing")
  /\ \A c \in Callers : th[c].at \in {"dependents", "unblock"} =>
       th[c].task \in Happened("completing")
  /\ \A c \in Callers : th[c].at = "unblock" => ReadAll(c)
  /\ \A p \in rev : Kept(p)

\* RevInv after a step that leaves the reverse map alone and blocks nothing.
LEMMA RevKept ==
  ASSUME TypeInv, RevInv, UNCHANGED rev, created' \in Nat, created <= created',
         Happened("completing") \subseteq Happened("completing")',
         Happened("unblocked")' = Happened("unblocked"),
         Happened("relinked")' = Happened("relinked"),
         \A t \in 1..created : board'[t].blockedBy \subseteq board[t].blockedBy,
         NEW x \in Threads, Still(x), th[x].at # "link", th'[x].at # "unblock",
         th'[x].at = "dependents" => th'[x].task \in Happened("completing")'
  PROVE  RevInv'
<1>1. \A c \in Callers : c \in Threads
  BY ThreadKinds
<1>2. \A p : Linking(p) => Linking(p)'
  BY <1>1 DEF Linking, At, Still
<1>3. created \in Nat /\ 1..created \subseteq 1..created'
  BY TeamAssumption DEF TypeInv, StoresTyped
<1>4. \A p \in rev' : p[2] \in 1..created'
  BY <1>3 DEF RevInv
<1>5. \A c \in Callers : th'[c].at \in {"dependents", "unblock"} =>
        th'[c].task \in Happened("completing")'
  BY <1>1 DEF RevInv, Still
<1>6. ASSUME NEW c \in Callers, th'[c].at = "unblock" PROVE ReadAll(c)'
  <2>1. c # x /\ th'[c] = th[c]
    BY <1>1, <1>6 DEF Still
  <2> QED
    BY <1>2, <1>6, <2>1 DEF RevInv, ReadAll
<1>7. ASSUME NEW p \in rev' PROVE Kept(p)'
  BY <1>2 DEF RevInv, Kept
<1> QED
  BY <1>4, <1>5, <1>6, <1>7 DEF RevInv

\* Every step keeps RevInv.
LEMMA RevStep == TypeInv /\ RevInv /\ [Next]_vars => RevInv'
<1> SUFFICES ASSUME TypeInv, RevInv, [Next]_vars PROVE RevInv'
  OBVIOUS
<1>0. /\ StoresTyped /\ NoneBefore /\ 1..created \subseteq Tasks /\ created \in Nat
      /\ created <= created
      /\ \A t \in Tasks : board[t] \in Rec /\ files[t] \in Rec
  BY TeamAssumption DEF TypeInv, StoresTyped, Tasks
<1>1. ASSUME UNCHANGED <<board, rev, created, hist>>, NEW x \in Threads, Still(x),
             th[x].at # "link", th'[x].at \notin {"dependents", "unblock"}
      PROVE  RevInv'
  BY <1>0, <1>1, NothingNew, RevKept
<1>c. ASSUME NEW c \in Callers, CallerStep(c) PROVE RevInv'
  <2>x. c \in Threads
    BY ThreadKinds
  <2>1. CASE Create(c)
    <3>1. PICK D \in SUBSET Present :
            /\ board' = [board EXCEPT ![created + 1] = New(D)]
            /\ th'[c] = th[c] \/ th'[c].at \in {"save", "register", "hand"}
      BY <2>1, CreateEffect
    <3>2. /\ th[c].at = "idle" /\ created' = created + 1 /\ Still(c) /\ UNCHANGED <<rev, hist>>
      BY <2>1, CreateEffect
    <3>3. \A t \in 1..created : board'[t] = board[t]
      BY <1>0, <3>1 DEF StoresTyped
    <3>4. created' \in Nat /\ created <= created'
      BY <1>0, <3>2
    <3>5. th'[c].at \notin {"dependents", "unblock"}
      BY <3>1, <3>2
    <3> QED
      BY <2>x, <3>2, <3>3, <3>4, <3>5, NothingNew, RevKept
  <2>2. CASE Register(c)
    <3>1. PICK d \in Tasks :
            rev' = rev \cup {<<d, th[c].task>>} /\ th'[c].at = "link" /\ th'[c].dep = d
      BY <2>2, RegisterEffect
    <3>2. /\ th[c].at = "register" /\ th'[c].task = th[c].task /\ th[c].task \in 1..created
          /\ Still(c) /\ UNCHANGED <<board, created, hist>>
      BY <2>2, RegisterEffect
    <3> DEFINE n == <<d, th[c].task>>
    <3>3. n[1] = d /\ n[2] = th[c].task /\ \A p : p = n => Linking(p)'
      BY <3>1, <3>2 DEF Linking, At
    <3> HIDE DEF n
    <3>4. \A k : Happened(k)' = Happened(k)
      BY <3>2, NothingNew
    <3>5. \A p : Linking(p) => Linking(p)'
      BY <3>2, ThreadKinds DEF Linking, At, Still
    <3>6. rev' = rev \cup {n}
      BY <3>1 DEF n
    <3>7. ASSUME NEW b \in Callers, th'[b].at \in {"dependents", "unblock"}
          PROVE  /\ th'[b].task \in Happened("completing")'
                 /\ th'[b].at = "unblock" => ReadAll(b)'
      <4>1. b # c /\ th'[b] = th[b]
        BY <3>1, <3>2, <3>7, ThreadKinds DEF Still
      <4> QED
        BY <3>3, <3>4, <3>5, <3>6, <3>7, <4>1 DEF RevInv, ReadAll
    <3>8. ASSUME NEW p \in rev' PROVE Kept(p)'
      BY <3>2, <3>3, <3>4, <3>5, <3>6 DEF RevInv, Kept
    <3> QED
      BY <3>2, <3>3, <3>4, <3>6, <3>7, <3>8 DEF RevInv
  <2>3. CASE Link(c)
    <3> DEFINE n == <<th[c].dep, th[c].task>>
    <3>1. /\ th[c].at = "link" /\ th'[c].at = "register" /\ th[c].task \in Tasks
          /\ Still(c) /\ UNCHANGED <<rev, created>>
          /\ board' = [board EXCEPT ![th[c].task].blockedBy = @ \cup {th[c].dep}]
          /\ Note("relinked", IF th[c].dep \in Happened("completing") THEN {n} ELSE {})
      BY <2>3, LinkEffect
    <3>2. /\ \A k : k # "relinked" => Happened(k)' = Happened(k)
          /\ Happened("relinked") \subseteq Happened("relinked")'
          /\ th[c].dep \in Happened("completing") => n \in Happened("relinked")'
      BY <3>1, Noted
    <3>3. \A u \in Tasks : \A b \in board'[u].blockedBy :
            b \in board[u].blockedBy \/ (u = th[c].task /\ b = th[c].dep)
      BY <1>0, <3>1 DEF StoresTyped, Rec
    <3>4. n[1] = th[c].dep /\ n[2] = th[c].task
      OBVIOUS
    <3>5. \A p : Linking(p) => Linking(p)' \/ p = n
      BY <3>1, ThreadKinds DEF Linking, At, Still
    <3>6. \A p \in rev : /\ p[1] = n[1] /\ p[2] = n[2] => p = n
                         /\ p[2] \in Tasks
      BY <1>0 DEF StoresTyped
    <3> HIDE DEF n
    <3>7. ASSUME NEW b \in Callers, th'[b].at \in {"dependents", "unblock"}
          PROVE  /\ th'[b].task \in Happened("completing")'
                 /\ th'[b].at = "unblock" => ReadAll(b)'
      <4>1. b # c /\ th'[b] = th[b]
        BY <3>1, <3>7, ThreadKinds DEF Still
      <4>2. th[b].task \in Happened("completing")
        BY <3>7, <4>1 DEF RevInv
      <4> QED
        BY <3>1, <3>2, <3>4, <3>5, <3>7, <4>1, <4>2 DEF RevInv, ReadAll
    <3>8. ASSUME NEW p \in rev' PROVE Kept(p)'
      <4>1. p \in rev /\ Kept(p) /\ Happened("unblocked") \subseteq Happened("completing")
        BY <3>1 DEF RevInv
      <4>2. CASE p = n
        BY <3>2, <3>4, <4>1, <4>2 DEF Kept
      <4>3. CASE p # n
        BY <3>2, <3>3, <3>4, <3>5, <3>6, <4>1, <4>3 DEF Kept
      <4> QED
        BY <4>2, <4>3
    <3> QED
      BY <3>1, <3>2, <3>7, <3>8 DEF RevInv
  <2>4. CASE GetTask(c)
    BY <2>x, <1>1, <2>4, GetTaskEffect
  <2>5. CASE PersistTask(c)
    BY <2>x, <1>1, <2>5, PersistTaskEffect
  <2>6. CASE Claim(c)
    BY <2>x, <1>1, <2>6, ClaimEffect
  <2>7. CASE MarkInProgress(c)
    <3>1. /\ th[c].at = "mark" /\ th'[c].at = "idle" /\ Still(c) /\ UNCHANGED <<rev, created, hist>>
          /\ board' = [board EXCEPT ![th[c].task].status = "in_progress"]
      BY <2>7, MarkEffect
    <3>2. \A t \in 1..created : board'[t].blockedBy \subseteq board[t].blockedBy
      BY <1>0, <3>1 DEF StoresTyped, Rec
    <3> QED
      BY <1>0, <2>x, <3>1, <3>2, NothingNew, RevKept
  <2>8. CASE Complete(c)
    <3>1. /\ th[c].at = "idle" /\ th'[c].at = "dependents" /\ Still(c) /\ UNCHANGED <<rev, created>>
          /\ board' = [board EXCEPT ![th'[c].task].status = "completed"]
          /\ Happened("completing")' = Happened("completing") \cup {th'[c].task}
          /\ Happened("unblocked")' = Happened("unblocked")
          /\ Happened("relinked")' = Happened("relinked")
      BY <2>8, CompleteEffect
    <3>2. \A t \in 1..created : board'[t].blockedBy \subseteq board[t].blockedBy
      BY <1>0, <3>1 DEF StoresTyped, Rec
    <3> QED
      BY <1>0, <2>x, <3>1, <3>2, RevKept
  <2>9. CASE Dependents(c)
    <3>1. /\ th[c].at = "dependents" /\ th'[c].at = "unblock" /\ th'[c].task = th[c].task
          /\ th'[c].deps = {p[2] : p \in {q \in rev : q[1] = th[c].task}}
          /\ Still(c) /\ UNCHANGED <<board, rev, created, hist>>
      BY <2>9, DependentsEffect
    <3>2. \A k : Happened(k)' = Happened(k)
      BY <3>1, NothingNew
    <3>3. \A p : Linking(p) => Linking(p)'
      BY <3>1, ThreadKinds DEF Linking, At, Still
    <3>4. ReadAll(c)' /\ th'[c].task \in Happened("completing")'
      BY <3>1, <3>2 DEF ReadAll, RevInv
    <3>5. ASSUME NEW b \in Callers, b # c, th'[b].at \in {"dependents", "unblock"}
          PROVE  /\ th'[b].task \in Happened("completing")'
                 /\ th'[b].at = "unblock" => ReadAll(b)'
      <4>1. th'[b] = th[b]
        BY <3>1, <3>5, ThreadKinds DEF Still
      <4> QED
        BY <3>1, <3>2, <3>3, <3>5, <4>1 DEF RevInv, ReadAll
    <3>6. ASSUME NEW p \in rev' PROVE Kept(p)'
      BY <3>1, <3>2, <3>3 DEF RevInv, Kept
    <3> QED
      BY <3>1, <3>2, <3>4, <3>5, <3>6 DEF RevInv
  <2>10. CASE Unblock(c)
    <3> DEFINE t == th[c].task
    <3>1. /\ th[c].at = "unblock" /\ th'[c].at \in {"idle", "get"}
          /\ Still(c) /\ UNCHANGED <<rev, created>>
          /\ board' = [u \in Tasks |-> IF u \in th[c].deps
                         THEN [board[u] EXCEPT !.blockedBy = @ \ {t}] ELSE board[u]]
          /\ Happened("unblocked")' = Happened("unblocked") \cup {t}
          /\ \A i : i # "unblocked" /\ i # "shared" => Happened(i)' = Happened(i)
      BY <2>10, UnblockEffect
    <3>2. \A u \in Tasks : /\ board'[u].blockedBy \subseteq board[u].blockedBy
                           /\ u \in th[c].deps => t \notin board'[u].blockedBy
      BY <1>0, <3>1 DEF StoresTyped, Rec
    <3>3. \A p : Linking(p) => Linking(p)'
      BY <3>1, ThreadKinds DEF Linking, At, Still
    <3>4. t \in Happened("completing") /\ ReadAll(c)
      BY <3>1 DEF RevInv
    <3>5. ASSUME NEW b \in Callers, th'[b].at \in {"dependents", "unblock"}
          PROVE  /\ th'[b].task \in Happened("completing")'
                 /\ th'[b].at = "unblock" => ReadAll(b)'
      <4>1. b # c /\ th'[b] = th[b]
        BY <3>1, <3>5, ThreadKinds DEF Still
      <4> QED
        BY <3>1, <3>3, <3>5, <4>1 DEF RevInv, ReadAll
    <3>6. ASSUME NEW p \in rev' PROVE Kept(p)'
      <4>1. p \in rev /\ Kept(p) /\ p[2] \in Tasks
        BY <1>0, <3>1 DEF RevInv, StoresTyped
      <4>2. CASE p[1] = t
        <5>1. p[2] \in th[c].deps \/ p \in Happened("relinked") \/ Linking(p)
          BY <3>4, <4>1, <4>2 DEF ReadAll
        <5> QED
          BY <3>1, <3>2, <3>3, <4>1, <4>2, <5>1 DEF Kept
      <4>3. CASE p[1] # t
        BY <3>1, <3>2, <3>3, <4>1, <4>3 DEF Kept
      <4> QED
        BY <4>2, <4>3
    <3> QED
      BY <3>1, <3>4, <3>5, <3>6 DEF RevInv
  <2> QED
    BY <1>c, <2>1, <2>2, <2>3, <2>4, <2>5, <2>6, <2>7, <2>8, <2>9, <2>10 DEF CallerStep
<1>l. ASSUME NEW w \in Loops, LoopStep(w) PROVE RevInv'
  <2>x. w \in Threads
    BY ThreadKinds
  <2>1. CASE Find(w)
    BY <2>x, <1>1, <2>1, FindEffect
  <2>2. CASE Execute(w)
    BY <2>x, <1>1, <2>2, ExecuteEffect
  <2>3. CASE FinishTask(w)
    <3>1. /\ th[w].at = "finish" /\ th'[w].at = "scan" /\ Still(w)
          /\ UNCHANGED <<board, rev, created>>
      BY <2>3, FinishTaskEffect
    <3>2. \A k \in {"completing", "unblocked", "relinked"} : Happened(k)' = Happened(k)
      BY <2>3, NotedFinish
    <3> QED
      BY <1>0, <2>x, <3>1, <3>2, RevKept
  <2>4. CASE ScanDependents(w)
    BY <2>x, <1>1, <2>4, ScanEffect
  <2>5. CASE UnblockFile(w)
    BY <2>x, <1>1, <2>5, UnblockFileEffect
  <2> QED
    BY <1>l, <2>1, <2>2, <2>3, <2>4, <2>5 DEF LoopStep
<1>f. ASSUME NEW x \in Threads, FileClaim(x) PROVE RevInv'
  <2>1. /\ th[x].at = "fileClaim" /\ th'[x].at \in {"run", "assign", "idle"} /\ Still(x)
        /\ UNCHANGED <<board, rev, created>>
    BY <1>f, FileClaimEffect
  <2>2. \/ \A k : k # "started" => Happened(k)' = Happened(k)
        \/ \A k : k # "shared" => Happened(k)' = Happened(k)
        \/ UNCHANGED hist
    BY <1>f, FileClaimEffect
  <2>3. \A k \in {"completing", "unblocked", "relinked"} : Happened(k)' = Happened(k)
    BY <2>2, NothingNew
  <2> QED
    BY <1>0, <2>1, <2>3, RevKept
<1>a. ASSUME NEW x \in Threads, AssignTask(x) PROVE RevInv'
  <2>1. /\ th[x].at \in {"assign", "hand"} /\ th'[x].at \in {"idle", "mark"} /\ Still(x)
        /\ UNCHANGED <<rev, created>>
        /\ \/ UNCHANGED board
           \/ board' = [board EXCEPT ![th[x].task] =
                          [@ EXCEPT !.owner = th[x].who, !.status = "in_progress"]]
    BY <1>a, AssignEffect
  <2>2. UNCHANGED hist \/ \A k : k # "granted" => Happened(k)' = Happened(k)
    BY <1>a, AssignEffect
  <2>3. \A k \in {"completing", "unblocked", "relinked"} : Happened(k)' = Happened(k)
    BY <2>2, NothingNew
  <2>4. ASSUME NEW t \in 1..created PROVE board'[t].blockedBy \subseteq board[t].blockedBy
    <3>1. t \in Tasks /\ board[t] \in Rec
      BY <1>0
    <3>2. [board[t] EXCEPT !.owner = th[x].who, !.status = "in_progress"].blockedBy
            = board[t].blockedBy
      BY <3>1 DEF Rec
    <3> QED
      BY <1>0, <2>1, <3>1, <3>2 DEF StoresTyped
  <2> QED
    BY <1>0, <2>1, <2>3, <2>4, RevKept
<1>u. ASSUME AutoClaim PROVE RevInv'
  BY <1>1, <1>u, AutoClaimEffect, ThreadKinds
<1>h. /\ "heartbeat" \in Threads /\ th["heartbeat"].at \in HeartbeatPlaces
  BY ThreadKinds DEF TypeInv, Placed, Kind
<1>s. ASSUME NEW t \in Present, NEW s \in {"pending", "in_progress"} \cup Terminal,
             SetStatus(t, s)
      PROVE  RevInv'
  <2>1. /\ board' = [board EXCEPT ![t].status = s] /\ UNCHANGED <<rev, th, created>>
        /\ Note("marked", IF s = "in_progress" THEN {t} ELSE {})
    BY <1>s DEF SetStatus
  <2>2. \A k \in {"completing", "unblocked", "relinked"} : Happened(k)' = Happened(k)
    BY <2>1, Noted
  <2>3. \A u \in 1..created : board'[u].blockedBy \subseteq board[u].blockedBy
    BY <1>0, <2>1 DEF StoresTyped, Rec
  <2>4. Still("heartbeat")
    BY <2>1 DEF Still
  <2>5. th["heartbeat"].at # "link" /\ th'["heartbeat"].at \notin {"dependents", "unblock"}
    BY <1>h, <2>1 DEF HeartbeatPlaces
  <2> QED
    BY <1>0, <1>h, <2>1, <2>2, <2>3, <2>4, <2>5, RevKept
<1>r. ASSUME Crash PROVE RevInv'
  <2>1. rev' = {} /\ th' = [x \in Threads |-> Idle] /\ UNCHANGED hist
    BY <1>r DEF Crash
  <2>2. \A c \in Callers : th'[c].at = "idle"
    BY <2>1, ThreadKinds DEF Idle
  <2> QED
    BY <2>1, <2>2, NothingNew DEF RevInv
<1>v. ASSUME UNCHANGED vars PROVE RevInv'
  <2>1. /\ UNCHANGED <<board, rev, created, hist>> /\ Still("heartbeat")
        /\ th["heartbeat"].at # "link" /\ th'["heartbeat"].at \notin {"dependents", "unblock"}
    BY <1>v, <1>h DEF vars, Still, HeartbeatPlaces
  <2> QED
    BY <1>1, <1>h, <2>1
<1> QED
  BY <1>c, <1>l, <1>f, <1>a, <1>u, <1>s, <1>r, <1>v DEF Next

\* complete_task leaves no dependent blocked that was registered on the board before
\* the dependents were read.
THEOREM BoardUnblocksAll == Spec => []BoardUnblocks
<1>1. Init => RevInv
  <2> SUFFICES ASSUME Init PROVE RevInv
    OBVIOUS
  <2>1. \A k : Happened(k) = {}
    BY DEF Init, Happened
  <2>2. \A c \in Callers : th[c].at = "idle"
    BY ThreadKinds DEF Init, Idle
  <2> QED
    BY <2>1, <2>2 DEF Init, RevInv
<1>2. RevInv => BoardUnblocks
  BY DEF RevInv, Kept, Linking, BoardUnblocks
<1> QED
  BY <1>1, <1>2, TypeInit, TypeStep, RevStep, PTL DEF Spec

-----------------------------------------------------------------------------
(* Blockers are declared ones *)

\* A record of t, stored or held by a thread, is blocked by declared blockers
\* only; a loop holds records of stored files.
Within(t, r) == r.blockedBy \subseteq declared[t]
ThreadWithin(x) ==
  /\ th[x].at \in {"save", "finish"} => Within(th[x].task, th[x].snap)
  /\ th[x].at \in {"register", "link"} => th[x].deps \subseteq declared[th[x].task]
  /\ th[x].at = "link" => th[x].dep \in declared[th[x].task]
  /\ \A s \in th[x].saves : Within(s.task, s.rec) /\ files[s.task].status # "absent"
  /\ x \notin Loops => th[x].saves = {}
NoOthers ==
  /\ \A t \in Tasks : Within(t, board[t]) /\ Within(t, files[t])
  /\ \A x \in Threads : ThreadWithin(x)

\* What every step but a crash keeps of the declarations and of the files.
Steady ==
  /\ created' \in Nat /\ created <= created'
  /\ \A t \in 1..created : declared'[t] = declared[t]
  /\ \A t \in Tasks : files[t].status # "absent" => files'[t].status # "absent"

\* A thread that does not move holds what it held.
LEMMA OthersWithin ==
  ASSUME TypeInv, Steady, NEW y \in Threads, th'[y] = th[y], ThreadWithin(y)
  PROVE  ThreadWithin(y)'
<1>1. Placed(y, th[y], created) /\ th[y] \in ThreadRec /\ 1..created \subseteq Tasks
  BY TeamAssumption DEF TypeInv, ThreadsTyped, StoresTyped, Tasks
<1>2. th[y].at # "idle" => declared'[th[y].task] = declared[th[y].task]
  BY <1>1 DEF Placed, Steady
<1>3. \A q \in th[y].saves : /\ declared'[q.task] = declared[q.task]
                             /\ files'[q.task].status # "absent"
  BY <1>1 DEF Placed, Steady, ThreadWithin
<1> QED
  BY <1>2, <1>3 DEF ThreadWithin, Within

\* NoOthers after a step of one thread.
LEMMA OneWithin ==
  ASSUME TypeInv, NoOthers, Steady, NEW x \in Threads, Still(x), ThreadWithin(x)',
         \A t \in Tasks : /\ board'[t].blockedBy \subseteq declared'[t]
                          /\ files'[t].blockedBy \subseteq declared'[t]
  PROVE  NoOthers'
<1>1. \A y \in Threads : ThreadWithin(y)'
  BY OthersWithin DEF NoOthers, Still
<1> QED
  BY <1>1 DEF NoOthers, Within

\* The same for a step that changes no file, no declaration and, on the board, at
\* most takes blockers away.
LEMMA FewerWithin ==
  ASSUME TypeInv, NoOthers, NEW x \in Threads, Still(x), ThreadWithin(x)',
         UNCHANGED <<files, created, declared>>,
         \A t \in Tasks : board'[t].blockedBy \subseteq board[t].blockedBy
  PROVE  NoOthers'
<1>1. Steady
  BY TeamAssumption DEF TypeInv, StoresTyped, Steady
<1> QED
  BY <1>1, OneWithin DEF NoOthers, Within

\* A thread that is idle, or only moves on, holds nothing new.
LEMMA NothingHeld ==
  ASSUME NEW x, th'[x].at \notin {"save", "finish", "register", "link"}, th'[x].saves = {}
  PROVE  ThreadWithin(x)'
  BY DEF ThreadWithin

\* Every step keeps NoOthers.
LEMMA OthersStep == TypeInv /\ BlockInv /\ NoOthers /\ [Next]_vars => NoOthers'
<1> SUFFICES ASSUME TypeInv, BlockInv, NoOthers, [Next]_vars PROVE NoOthers'
  OBVIOUS
<1>0. /\ StoresTyped /\ NoneBefore /\ 1..created \subseteq Tasks /\ created \in Nat
      /\ created <= created
      /\ \A t \in Tasks : board[t] \in Rec /\ files[t] \in Rec
      /\ \A t \in Tasks : /\ board[t].blockedBy \subseteq declared[t]
                          /\ files[t].blockedBy \subseteq declared[t]
      /\ \A x \in Threads : ThreadWithin(x) /\ ThreadWaits(x)
  BY TeamAssumption DEF TypeInv, StoresTyped, Tasks, NoOthers, Within, BlockInv
<1>c. ASSUME NEW c \in Callers, CallerStep(c) PROVE NoOthers'
  <2>x. c \in Threads /\ c \notin Loops
    BY ThreadKinds
  <2>t. ThreadWithin(c) /\ th[c].saves = {}
    BY <1>0, <2>x DEF ThreadWithin
  <2>1. CASE Create(c)
    <3> DEFINE t == created + 1
    <3>1. PICK D \in SUBSET Present :
            /\ board' = [board EXCEPT ![t] = New(D)]
            /\ declared' = [declared EXCEPT ![t] = D]
            /\ \/ D = {} /\ th'[c].at = "save" /\ th'[c].task = t
                  /\ th'[c].snap = New(D) /\ th'[c].saves = {}
               \/ /\ th'[c].at = "register" /\ th'[c].task = t
                  /\ th'[c].deps = D /\ th'[c].saves = {}
               \/ th'[c] = th[c]
               \/ th'[c].at = "hand" /\ th'[c].saves = {}
      BY <2>1, CreateEffect
    <3>2. /\ t \in Tasks /\ created' = t /\ Still(c) /\ UNCHANGED files /\ th[c].at = "idle"
      BY <2>1, CreateEffect
    <3>3. /\ board'[t] = New(D) /\ declared'[t] = D /\ New(D).blockedBy = D
          /\ \A u \in Tasks : u # t => board'[u] = board[u] /\ declared'[u] = declared[u]
      BY <1>0, <3>1, <3>2 DEF StoresTyped, New
    <3>4. t \notin 1..created /\ created <= t /\ t \in Nat
      BY <1>0
    <3>5. declared[t] = {}
      BY <1>0, <3>2, <3>4 DEF NoneBefore
    <3> HIDE DEF t
    <3>6. Steady
      BY <1>0, <3>2, <3>3, <3>4 DEF Steady
    <3>7. \A u \in Tasks : /\ board'[u].blockedBy \subseteq declared'[u]
                           /\ files'[u].blockedBy \subseteq declared'[u]
      BY <1>0, <3>2, <3>3, <3>5
    <3>8. ThreadWithin(c)'
      BY <2>t, <2>x, <3>1, <3>2, <3>3 DEF ThreadWithin, Within
    <3> QED
      BY <2>x, <3>2, <3>6, <3>7, <3>8, OneWithin
  <2>2. CASE Register(c)
    <3>1. PICK d \in th[c].deps :
            th'[c].at = "link" /\ th'[c].dep = d /\ th'[c].deps = th[c].deps \ {d}
      BY <2>2, RegisterEffect
    <3>2. /\ th[c].at = "register" /\ th'[c].task = th[c].task /\ th'[c].saves = th[c].saves
          /\ Still(c) /\ UNCHANGED <<board, files, created, declared>>
      BY <2>2, RegisterEffect
    <3>3. ThreadWithin(c)'
      BY <2>t, <2>x, <3>1, <3>2 DEF ThreadWithin
    <3> QED
      BY <2>x, <3>2, <3>3, FewerWithin
  <2>3. CASE Link(c)
    <3>1. /\ th[c].at = "link" /\ th'[c].at = "register" /\ th'[c].task = th[c].task
          /\ th'[c].saves = th[c].saves /\ th'[c].deps = th[c].deps /\ th[c].task \in Tasks
          /\ Still(c) /\ UNCHANGED <<files, created, declared>>
          /\ board' = [board EXCEPT ![th[c].task].blockedBy = @ \cup {th[c].dep}]
      BY <2>3, LinkEffect
    <3>2. th[c].dep \in declared[th[c].task] /\ th[c].deps \subseteq declared[th[c].task]
      BY <2>t, <3>1 DEF ThreadWithin
    <3>3. \A u \in Tasks : \A b \in board'[u].blockedBy :
            b \in board[u].blockedBy \/ (u = th[c].task /\ b = th[c].dep)
      BY <1>0, <3>1 DEF StoresTyped, Rec
    <3>4. ThreadWithin(c)'
      BY <2>t, <2>x, <3>1, <3>2 DEF ThreadWithin
    <3>5. Steady
      BY <1>0, <3>1 DEF Steady
    <3>6. \A u \in Tasks : /\ board'[u].blockedBy \subseteq declared'[u]
                           /\ files'[u].blockedBy \subseteq declared'[u]
      BY <1>0, <3>1, <3>2, <3>3
    <3> QED
      BY <2>x, <3>1, <3>4, <3>5, <3>6, OneWithin
  <2>4. CASE GetTask(c)
    <3>1. /\ th'[c].at = "save" /\ th'[c].task = th[c].task /\ th'[c].saves = th[c].saves
          /\ th'[c].snap = board[th[c].task] /\ th[c].task \in Tasks
          /\ Still(c) /\ UNCHANGED <<board, files, created, declared>>
      BY <2>4, GetTaskEffect
    <3>2. ThreadWithin(c)'
      BY <1>0, <2>t, <2>x, <3>1 DEF ThreadWithin, Within
    <3> QED
      BY <2>x, <3>1, <3>2, FewerWithin
  <2>5. CASE PersistTask(c)
    <3>1. /\ th[c].at = "save" /\ th'[c].at = "idle" /\ th'[c].saves = {}
          /\ th[c].task \in Tasks /\ Still(c) /\ UNCHANGED <<board, created, declared>>
          /\ files' = [files EXCEPT ![th[c].task] = th[c].snap]
      BY <2>5, PersistTaskEffect
    <3>2. th[c].snap.status # "absent" /\ th[c].snap.blockedBy \subseteq declared[th[c].task]
      BY <1>0, <2>t, <2>x, <3>1 DEF ThreadWithin, Within, ThreadWaits
    <3>3. \A u \in Tasks : files'[u] = IF u = th[c].task THEN th[c].snap ELSE files[u]
      BY <1>0, <3>1 DEF StoresTyped
    <3>4. Steady
      BY <1>0, <3>1, <3>2, <3>3 DEF Steady
    <3>5. \A u \in Tasks : /\ board'[u].blockedBy \subseteq declared'[u]
                           /\ files'[u].blockedBy \subseteq declared'[u]
      BY <1>0, <3>1, <3>2, <3>3
    <3>6. ThreadWithin(c)'
      BY <3>1, NothingHeld
    <3> QED
      BY <2>x, <3>1, <3>4, <3>5, <3>6, OneWithin
  <2>6. CASE Claim(c)
    <3>1. /\ th'[c].at = "fileClaim" /\ th'[c].saves = {} /\ Still(c)
          /\ UNCHANGED <<board, files, created, declared>>
      BY <2>6, ClaimEffect
    <3>2. ThreadWithin(c)'
      BY <3>1, NothingHeld
    <3> QED
      BY <2>x, <3>1, <3>2, FewerWithin
  <2>7. CASE MarkInProgress(c)
    <3>1. /\ th'[c].at = "idle" /\ th'[c].saves = {}
          /\ Still(c) /\ UNCHANGED <<files, created, declared>>
          /\ board' = [board EXCEPT ![th[c].task].status = "in_progress"]
      BY <2>7, MarkEffect
    <3>2. \A u \in Tasks : board'[u].blockedBy \subseteq board[u].blockedBy
      BY <1>0, <3>1 DEF StoresTyped, Rec
    <3>3. ThreadWithin(c)'
      BY <3>1, NothingHeld
    <3> QED
      BY <2>x, <3>1, <3>2, <3>3, FewerWithin
  <2>8. CASE Complete(c)
    <3>1. /\ th'[c].at = "dependents" /\ th'[c].saves = {}
          /\ Still(c) /\ UNCHANGED <<files, created, declared>>
          /\ board' = [board EXCEPT ![th'[c].task].status = "completed"]
      BY <2>8, CompleteEffect
    <3>2. \A u \in Tasks : board'[u].blockedBy \subseteq board[u].blockedBy
      BY <1>0, <3>1 DEF StoresTyped, Rec
    <3>3. ThreadWithin(c)'
      BY <3>1, NothingHeld
    <3> QED
      BY <2>x, <3>1, <3>2, <3>3, FewerWithin
  <2>9. CASE Dependents(c)
    <3>1. /\ th'[c].at = "unblock" /\ th'[c].saves = th[c].saves
          /\ Still(c) /\ UNCHANGED <<board, files, created, declared>>
      BY <2>9, DependentsEffect
    <3>2. ThreadWithin(c)'
      BY <2>t, <3>1, NothingHeld
    <3> QED
      BY <2>x, <3>1, <3>2, FewerWithin
  <2>10. CASE Unblock(c)
    <3>1. /\ th'[c].at \in {"idle", "get"} /\ th'[c].saves = {}
          /\ Still(c) /\ UNCHANGED <<files, created, declared>>
          /\ board' = [u \in Tasks |-> IF u \in th[c].deps
                         THEN [board[u] EXCEPT !.blockedBy = @ \ {th[c].task}]
                         ELSE board[u]]
      BY <2>10, <2>t, UnblockEffect
    <3>2. \A u \in Tasks : board'[u].blockedBy \subseteq board[u].blockedBy
      BY <1>0, <3>1 DEF StoresTyped, Rec
    <3>3. ThreadWithin(c)'
      BY <3>1, NothingHeld
    <3> QED
      BY <2>x, <3>1, <3>2, <3>3, FewerWithin
  <2> QED
    BY <1>c, <2>1, <2>2, <2>3, <2>4, <2>5, <2>6, <2>7, <2>8, <2>9, <2>10 DEF CallerStep
<1>l. ASSUME NEW w \in Loops, LoopStep(w) PROVE NoOthers'
  <2>x. w \in Threads
    BY ThreadKinds
  <2>t. ThreadWithin(w)
    BY <1>0, <2>x
  <2>1. CASE Find(w)
    <3>1. /\ th'[w].at = "fileClaim" /\ th'[w].saves = {} /\ Still(w)
          /\ UNCHANGED <<board, files, created, declared>>
      BY <2>1, FindEffect
    <3>2. ThreadWithin(w)'
      BY <3>1, NothingHeld
    <3> QED
      BY <2>x, <3>1, <3>2, FewerWithin
  <2>2. CASE Execute(w)
    <3>1. /\ th'[w].at \in {"scan", "finish"} /\ th'[w].saves = th[w].saves
          /\ th'[w].task = th[w].task /\ th[w].task \in Tasks
          /\ th'[w].at = "finish" => th'[w].snap.blockedBy = files[th[w].task].blockedBy
          /\ Still(w) /\ UNCHANGED <<board, files, created, declared>>
      BY <2>2, ExecuteEffect
    <3>2. ThreadWithin(w)'
      BY <1>0, <2>t, <3>1 DEF ThreadWithin, Within
    <3> QED
      BY <2>x, <3>1, <3>2, FewerWithin
  <2>3. CASE FinishTask(w)
    <3> DEFINE t == th[w].task
    <3>1. /\ th[w].at = "finish" /\ th'[w].at = "scan" /\ th'[w].saves = th[w].saves
          /\ t \in Tasks /\ Still(w) /\ UNCHANGED <<board, created, declared>>
          /\ files' = [files EXCEPT ![t] = th[w].snap]
      BY <2>3, FinishTaskEffect
    <3>2. th[w].snap.status # "absent" /\ th[w].snap.blockedBy \subseteq declared[t]
      BY <1>0, <2>t, <2>x, <3>1 DEF ThreadWithin, Within, ThreadWaits
    <3>3. \A u \in Tasks : files'[u] = IF u = t THEN th[w].snap ELSE files[u]
      BY <1>0, <3>1 DEF StoresTyped
    <3>4. Steady
      BY <1>0, <3>1, <3>2, <3>3 DEF Steady
    <3>5. \A u \in Tasks : /\ board'[u].blockedBy \subseteq declared'[u]
                           /\ files'[u].blockedBy \subseteq declared'[u]
      BY <1>0, <3>1, <3>2, <3>3
    <3>s. \A q \in th[w].saves : q.task \in Tasks
      BY <2>x DEF TypeInv, ThreadsTyped, ThreadRec
    <3>6. ThreadWithin(w)'
      BY <2>t, <3>1, <3>4, <3>s DEF ThreadWithin, Within, Steady
    <3> QED
      BY <2>x, <3>1, <3>4, <3>5, <3>6, OneWithin
  <2>4. CASE ScanDependents(w)
    <3> DEFINE t == th[w].task
    <3>1. /\ \/ th'[w].at = "idle" /\ th'[w].saves = {}
             \/ /\ th'[w].at = "dependent"
                /\ \A q \in th'[w].saves :
                     /\ q.task \in Tasks /\ files[q.task].status # "absent"
                     /\ q = [task |-> q.task, rec |-> Without(files[q.task], t)]
          /\ Still(w) /\ UNCHANGED <<board, files, created, declared>>
      BY <2>4, ScanEffect
    <3>2. ASSUME NEW q \in th'[w].saves
          PROVE  q.rec.blockedBy \subseteq declared[q.task] /\ files[q.task].status # "absent"
      <4>1. q.task \in Tasks /\ files[q.task].status # "absent" /\ q.rec = Without(files[q.task], t)
        BY <3>1, <3>2
      <4>2. q.rec.blockedBy = files[q.task].blockedBy \ {t}
        BY <1>0, <4>1 DEF Without, Rec
      <4> QED
        BY <1>0, <4>1, <4>2
    <3>3. ThreadWithin(w)'
      BY <3>1, <3>2 DEF ThreadWithin, Within
    <3> QED
      BY <2>x, <3>1, <3>3, FewerWithin
  <2>5. CASE UnblockFile(w)
    <3>1. PICK q \in th[w].saves :
            /\ q.task \in Tasks /\ files' = [files EXCEPT ![q.task] = q.rec]
            /\ th'[w].at \in {"idle", "dependent"} /\ th'[w].saves \subseteq th[w].saves
      BY <2>5, UnblockFileEffect
    <3>2. Still(w) /\ UNCHANGED <<board, created, declared>>
      BY <2>5, UnblockFileEffect
    <3>3. q.rec.status # "absent" /\ q.rec.blockedBy \subseteq declared[q.task]
      BY <1>0, <2>t, <2>x DEF ThreadWaits, ThreadWithin, Within
    <3>4. \A u \in Tasks : files'[u] = IF u = q.task THEN q.rec ELSE files[u]
      BY <1>0, <3>1 DEF StoresTyped
    <3>5. Steady
      BY <1>0, <3>2, <3>3, <3>4 DEF Steady
    <3>6. \A u \in Tasks : /\ board'[u].blockedBy \subseteq declared'[u]
                           /\ files'[u].blockedBy \subseteq declared'[u]
      BY <1>0, <3>2, <3>3, <3>4
    <3>s. \A z \in th[w].saves : z.task \in Tasks
      BY <2>x DEF TypeInv, ThreadsTyped, ThreadRec
    <3>7. ThreadWithin(w)'
      BY <2>t, <3>1, <3>2, <3>5, <3>s DEF ThreadWithin, Within, Steady
    <3> QED
      BY <2>x, <3>2, <3>5, <3>6, <3>7, OneWithin
  <2> QED
    BY <1>l, <2>1, <2>2, <2>3, <2>4, <2>5 DEF LoopStep
<1>f. ASSUME NEW x \in Threads, FileClaim(x) PROVE NoOthers'
  <2> DEFINE t == th[x].task
             r == [files[t] EXCEPT !.status = "in_progress", !.owner = x]
  <2>1. /\ th'[x].at \in {"run", "assign", "idle"} /\ th'[x].saves \subseteq th[x].saves
        /\ UNCHANGED files \/ files' = [files EXCEPT ![t] = r]
        /\ t \in Tasks /\ Still(x) /\ UNCHANGED <<board, created, declared>>
    BY <1>f, FileClaimEffect
  <2>2. r.status = "in_progress" /\ r.blockedBy = files[t].blockedBy
    BY <1>0, <2>1 DEF Rec
  <2> HIDE DEF r
  <2>3. \A u \in Tasks : files'[u] = files[u] \/ (u = t /\ files'[u] = r)
    BY <1>0, <2>1 DEF StoresTyped
  <2>4. Steady
    BY <1>0, <2>1, <2>2, <2>3 DEF Steady
  <2>5. \A u \in Tasks : /\ board'[u].blockedBy \subseteq declared'[u]
                         /\ files'[u].blockedBy \subseteq declared'[u]
    BY <1>0, <2>1, <2>2, <2>3
  <2>s. \A z \in th[x].saves : z.task \in Tasks
    BY DEF TypeInv, ThreadsTyped, ThreadRec
  <2>6. ThreadWithin(x)'
    BY <1>0, <2>1, <2>4, <2>s DEF ThreadWithin, Within, Steady
  <2> QED
    BY <2>1, <2>4, <2>5, <2>6, OneWithin
<1>a. ASSUME NEW x \in Threads, AssignTask(x) PROVE NoOthers'
  <2> DEFINE t == th[x].task
             r == [board[t] EXCEPT !.owner = th[x].who, !.status = "in_progress"]
  <2>1. /\ th'[x].at \in {"mark", "idle"} /\ th'[x].saves \subseteq th[x].saves
        /\ UNCHANGED board \/ board' = [board EXCEPT ![t] = r]
        /\ t \in Tasks /\ Still(x) /\ UNCHANGED <<files, created, declared>>
    BY <1>a, AssignEffect
  <2>2. r.blockedBy = board[t].blockedBy
    BY <1>0, <2>1 DEF Rec
  <2> HIDE DEF r
  <2>3. \A u \in Tasks : board'[u].blockedBy \subseteq board[u].blockedBy
    BY <1>0, <2>1, <2>2 DEF StoresTyped
  <2>4. ThreadWithin(x)'
    BY <1>0, <2>1 DEF ThreadWithin, Within
  <2> QED
    BY <2>1, <2>3, <2>4, FewerWithin
<1>u. ASSUME AutoClaim PROVE NoOthers'
  <2> DEFINE x == "heartbeat"
  <2>1. /\ th'[x].at = "hand" /\ th'[x].saves = {} /\ Still(x) /\ x \in Threads
        /\ UNCHANGED <<board, files, created, declared>>
    BY <1>u, AutoClaimEffect, ThreadKinds
  <2>2. ThreadWithin(x)'
    BY <2>1, NothingHeld
  <2> QED
    BY <2>1, <2>2, FewerWithin
<1>h. ASSUME UNCHANGED <<files, th, created, declared>>
      PROVE  "heartbeat" \in Threads /\ Still("heartbeat") /\ ThreadWithin("heartbeat")'
  BY <1>0, <1>h, ThreadKinds DEF Still, ThreadWithin, Within
<1>s. ASSUME NEW t \in Present, NEW s \in {"pending", "in_progress"} \cup Terminal,
             SetStatus(t, s)
      PROVE  NoOthers'
  <2>1. board' = [board EXCEPT ![t].status = s] /\ UNCHANGED <<files, th, created, declared>>
    BY <1>s DEF SetStatus
  <2>2. \A u \in Tasks : board'[u].blockedBy \subseteq board[u].blockedBy
    BY <1>0, <2>1 DEF StoresTyped, Rec
  <2> QED
    BY <1>h, <2>1, <2>2, FewerWithin
<1>r. ASSUME Crash PROVE NoOthers'
  <2>1. /\ board' = files' /\ th' = [x \in Threads |-> Idle] /\ UNCHANGED declared
        /\ files' \in {files} \cup {[files EXCEPT ![t] = Absent] : t \in Saving}
    BY <1>r DEF Crash
  <2>2. \A t \in Tasks : files'[t] = files[t] \/ files'[t] = Absent
    BY <1>0, <2>1 DEF StoresTyped
  <2>3. \A x \in Threads : ThreadWithin(x)'
    BY <2>1, NothingHeld DEF Idle
  <2> QED
    BY <1>0, <2>1, <2>2, <2>3 DEF NoOthers, Within, Absent
<1>v. ASSUME UNCHANGED vars PROVE NoOthers'
  BY <1>h, <1>v, FewerWithin DEF vars
<1> QED
  BY <1>c, <1>l, <1>f, <1>a, <1>u, <1>s, <1>r, <1>v DEF Next

-----------------------------------------------------------------------------
(* Creators *)

StartedTasks == {p[1] : p \in Happened("started")}

\* A task that is being created, and that no agent has claimed or completed, has
\* no file yet and was never started; its creator has every blocker that no agent
\* has claimed or completed.
Creating == {"register", "link", "save"}
Creates(c) == th[c].at \in Creating /\ th[c].task \notin Happened("shared")
Creator(c) ==
  /\ th[c].at = "get" => th[c].task \in Happened("shared")
  /\ Creates(c) =>
       /\ files[th[c].task].status = "absent" /\ th[c].task \notin StartedTasks
       /\ th[c].at \in {"register", "link"} =>
            declared[th[c].task] \subseteq board[th[c].task].blockedBy \cup Happened("shared")
       /\ th[c].at = "save" =>
            declared[th[c].task] \subseteq th[c].snap.blockedBy \cup Happened("shared")
CreatorInv ==
  /\ \A c \in Callers : Creator(c)
  /\ \A c, d \in Callers : Creates(c) /\ Creates(d) /\ th[c].task = th[d].task => c = d

\* CreatorInv after a step that makes no file: the thread that takes it goes on
\* with the task it was creating, or creates a new one, or none.
LEMMA CreatorsKept ==
  ASSUME TypeInv, CreatorInv, NEW x \in Threads, Still(x),
         \A t \in 1..created : declared'[t] = declared[t],
         Happened("shared") \subseteq Happened("shared")',
         \A t \in 1..created :
           board[t].blockedBy \subseteq board'[t].blockedBy \cup Happened("shared")',
         \A t \in 1..created : files[t].status = "absent" =>
           files'[t].status = "absent" /\ (t \in StartedTasks' => t \in StartedTasks),
         x \in Callers => Creator(x)',
         x \in Callers /\ Creates(x)' =>
           (Creates(x) /\ th'[x].task = th[x].task) \/ th'[x].task \notin 1..created
  PROVE  CreatorInv'
<1>1. ASSUME NEW c \in Callers, c # x
      PROVE  /\ Creator(c)' /\ th'[c] = th[c]
             /\ Creates(c)' => Creates(c)
             /\ Creates(c) => th[c].task \in 1..created
  <2>1. c \in Threads /\ th'[c] = th[c] /\ Creator(c)
    BY <1>1, ThreadKinds DEF Still, CreatorInv
  <2>2. th[c].at # "idle" => th[c].task \in 1..created
    BY <2>1, AtWork
  <2>3. Creates(c)' => Creates(c)
    BY <2>1 DEF Creates
  <2>4. Creates(c) => th[c].task \in 1..created
    BY <2>2 DEF Creates, Creating
  <2>5. th'[c].at = "get" => th'[c].task \in Happened("shared")'
    BY <2>1 DEF Creator
  <2>6. ASSUME Creates(c)'
        PROVE  /\ files'[th[c].task].status = "absent" /\ th[c].task \notin StartedTasks'
               /\ th[c].at \in {"register", "link"} =>
                    declared'[th[c].task] \subseteq
                      board'[th[c].task].blockedBy \cup Happened("shared")'
               /\ th[c].at = "save" =>
                    declared'[th[c].task] \subseteq th[c].snap.blockedBy \cup Happened("shared")'
    BY <2>1, <2>3, <2>4, <2>6 DEF Creator
  <2> QED
    BY <2>1, <2>3, <2>4, <2>5, <2>6 DEF Creator
<1>2. \A c \in Callers : Creator(c)'
  BY <1>1
<1>3. ASSUME NEW c \in Callers, NEW d \in Callers, Creates(c)', Creates(d)',
             th'[c].task = th'[d].task
      PROVE  c = d
  <2>1. CASE c # x /\ d # x
    BY <1>1, <1>3, <2>1 DEF CreatorInv
  <2>2. ASSUME NEW y \in Callers, y # x, x \in Callers, Creates(x)', Creates(y)',
               th'[x].task = th'[y].task
        PROVE  FALSE
    BY <1>1, <2>2 DEF CreatorInv
  <2> QED
    BY <1>3, <2>1, <2>2
<1> QED
  BY <1>2, <1>3 DEF CreatorInv

\* The same for a step after which the thread that took it creates nothing.
LEMMA NoCreator ==
  ASSUME TypeInv, CreatorInv, NEW x \in Threads, Still(x),
         UNCHANGED <<created, declared>>,
         Happened("shared") \subseteq Happened("shared")',
         \A t \in 1..created : board[t].blockedBy \subseteq board'[t].blockedBy,
         \A t \in 1..created : files[t].status = "absent" =>
           files'[t].status = "absent" /\ (t \in StartedTasks' => t \in StartedTasks),
         th'[x].at \notin Creating \cup {"get"}
  PROVE  CreatorInv'
<1>1. ~Creates(x)' /\ Creator(x)'
  BY DEF Creates, Creator, Creating
<1> QED
  BY <1>1, CreatorsKept

\* Every step keeps CreatorInv.
LEMMA CreatorStep ==
  TypeInv /\ BlockInv /\ NoOthers /\ CreatorInv /\ [Next]_vars => CreatorInv'
<1> SUFFICES ASSUME TypeInv, BlockInv, NoOthers, CreatorInv, [Next]_vars
             PROVE  CreatorInv'
  OBVIOUS
<1>0. /\ StoresTyped /\ NoneBefore /\ 1..created \subseteq Tasks /\ created \in Nat
      /\ \A t \in Tasks : board[t] \in Rec /\ files[t] \in Rec
      /\ \A x \in Threads : ThreadWithin(x) /\ ThreadWaits(x)
  BY TeamAssumption DEF TypeInv, StoresTyped, Tasks, NoOthers, BlockInv
<1>1. ASSUME UNCHANGED hist
      PROVE  Happened("shared")' = Happened("shared") /\ StartedTasks' = StartedTasks
  BY <1>1, NothingNew DEF StartedTasks
<1>2. ASSUME Happened("started")' = Happened("started") PROVE StartedTasks' = StartedTasks
  BY <1>2 DEF StartedTasks
<1>c. ASSUME NEW c \in Callers, CallerStep(c) PROVE CreatorInv'
  <2>x. c \in Threads
    BY ThreadKinds
  <2>t. Creator(c)
    BY DEF CreatorInv
  <2>1. CASE Create(c)
    <3> DEFINE t == created + 1
    <3>1. PICK D \in SUBSET Present :
            /\ board' = [board EXCEPT ![t] = New(D)]
            /\ declared' = [declared EXCEPT ![t] = D]
            /\ \/ D = {} /\ th'[c].at = "save" /\ th'[c].task = t
                  /\ th'[c].snap = New(D)
               \/ /\ th'[c].at = "register" /\ th'[c].task = t
               \/ th'[c] = th[c]
               \/ th'[c].at = "hand"
      BY <2>1, CreateEffect
    <3>2. /\ t \in Tasks /\ created' = t /\ Still(c) /\ UNCHANGED <<files, hist>>
          /\ th[c].at = "idle"
      BY <2>1, CreateEffect
    <3>3. /\ board'[t] = New(D) /\ declared'[t] = D /\ New(D).blockedBy = D
          /\ \A u \in Tasks : u # t => board'[u] = board[u] /\ declared'[u] = declared[u]
      BY <1>0, <3>1, <3>2 DEF StoresTyped, New
    <3>4. t \notin 1..created
      BY <1>0
    <3>5. files[t].status = "absent"
      BY <1>0, <3>2, <3>4 DEF NoneBefore
    <3>6. t \notin StartedTasks
      BY <3>4 DEF BlockInv, Started, StartedTasks
    <3> HIDE DEF t
    <3>7. Creator(c)'
      BY <1>1, <3>1, <3>2, <3>3, <3>5, <3>6 DEF Creator, Creates, Creating
    <3>8. Creates(c)' => th'[c].task \notin 1..created
      BY <3>1, <3>2, <3>4 DEF Creates, Creating
    <3>9. \A u \in 1..created : board'[u] = board[u] /\ declared'[u] = declared[u]
      BY <1>0, <3>3, <3>4
    <3> QED
      BY <1>1, <2>x, <3>2, <3>7, <3>8, <3>9, CreatorsKept
  <2>2. CASE Register(c)
    <3>1. /\ th[c].at = "register" /\ th'[c].at = "link" /\ th'[c].task = th[c].task
          /\ Still(c) /\ UNCHANGED <<board, files, created, declared, hist>>
      BY <2>2, RegisterEffect
    <3>2. Creator(c)' /\ (Creates(c)' => Creates(c))
      BY <1>1, <2>t, <3>1 DEF Creator, Creates, Creating
    <3> QED
      BY <1>1, <2>x, <3>1, <3>2, CreatorsKept
  <2>3. CASE Link(c)
    <3>1. /\ th[c].at = "link" /\ th'[c].at = "register" /\ th'[c].task = th[c].task
          /\ th[c].task \in Tasks
          /\ Still(c) /\ UNCHANGED <<files, created, declared>>
          /\ board' = [board EXCEPT ![th[c].task].blockedBy = @ \cup {th[c].dep}]
          /\ Note("relinked", IF th[c].dep \in Happened("completing")
                              THEN {<<th[c].dep, th[c].task>>} ELSE {})
      BY <2>3, LinkEffect
    <3>2. Happened("shared")' = Happened("shared") /\ Happened("started")' = Happened("started")
      BY <3>1, Noted
    <3>3. \A u \in Tasks : board[u].blockedBy \subseteq board'[u].blockedBy
      BY <1>0, <3>1 DEF StoresTyped, Rec
    <3>4. Creator(c)' /\ (Creates(c)' => Creates(c))
      BY <1>2, <2>t, <3>1, <3>2, <3>3 DEF Creator, Creates, Creating
    <3> QED
      BY <1>0, <1>2, <2>x, <3>1, <3>2, <3>3, <3>4, CreatorsKept
  <2>4. CASE GetTask(c)
    <3>1. /\ th[c].at = "get" \/ th[c].at = "register"
          /\ th'[c].at = "save" /\ th'[c].task = th[c].task
          /\ th'[c].snap = board[th[c].task]
          /\ Still(c) /\ UNCHANGED <<board, files, created, declared, hist>>
      BY <2>4, GetTaskEffect
    <3>2. Creator(c)' /\ (Creates(c)' => Creates(c))
      BY <1>1, <2>t, <3>1 DEF Creator, Creates, Creating
    <3> QED
      BY <1>1, <2>x, <3>1, <3>2, CreatorsKept
  <2>5. CASE PersistTask(c)
    <3> DEFINE t == th[c].task
    <3>1. /\ th[c].at = "save" /\ th'[c].at = "idle" /\ t \in Tasks
          /\ Still(c) /\ UNCHANGED <<board, created, declared, hist>>
          /\ files' = [files EXCEPT ![t] = th[c].snap]
      BY <2>5, PersistTaskEffect
    <3>2. \A u \in Tasks : u # t => files'[u] = files[u]
      BY <1>0, <3>1 DEF StoresTyped
    <3>3. ASSUME NEW d \in Callers
          PROVE  /\ Creator(d)'
                 /\ Creates(d)' => Creates(d) /\ th'[d] = th[d]
      <4>1. CASE d = c
        BY <3>1, <4>1 DEF Creator, Creates, Creating
      <4>2. CASE d # c
        <5>1. d \in Threads /\ th'[d] = th[d] /\ Creator(d)
          BY <3>1, <4>2, ThreadKinds DEF Still, CreatorInv
        <5>2. Creates(d)' => Creates(d)
          BY <1>1, <3>1, <5>1 DEF Creates
        <5>3. Creates(d) => th[d].task \in Tasks
          BY <5>1, AtWork DEF Creates, Creating
        <5>4. Creates(d) => th[d].task # t
          BY <3>1, <4>2 DEF CreatorInv, Creates, Creating
        <5> QED
          BY <1>1, <3>1, <3>2, <5>1, <5>2, <5>3, <5>4 DEF Creator
      <4> QED
        BY <4>1, <4>2
    <3> QED
      BY <3>3 DEF CreatorInv
  <2>6. CASE Claim(c)
    <3>1. /\ th'[c].at = "fileClaim" /\ Still(c)
          /\ UNCHANGED <<board, files, created, declared, hist>>
      BY <2>6, ClaimEffect
    <3> QED
      BY <1>1, <2>x, <3>1, NoCreator DEF Creating
  <2>7. CASE MarkInProgress(c)
    <3>1. /\ th'[c].at = "idle" /\ Still(c) /\ UNCHANGED <<files, created, declared, hist>>
          /\ board' = [board EXCEPT ![th[c].task].status = "in_progress"]
      BY <2>7, MarkEffect
    <3>2. \A u \in Tasks : board[u].blockedBy \subseteq board'[u].blockedBy
      BY <1>0, <3>1 DEF StoresTyped, Rec
    <3> QED
      BY <1>0, <1>1, <2>x, <3>1, <3>2, NoCreator DEF Creating
  <2>8. CASE Complete(c)
    <3>1. /\ th'[c].at = "dependents" /\ Still(c) /\ UNCHANGED <<files, created, declared>>
          /\ board' = [board EXCEPT ![th'[c].task].status = "completed"]
          /\ Happened("shared")' = Happened("shared")
          /\ Happened("started")' = Happened("started")
      BY <2>8, CompleteEffect
    <3>2. \A u \in Tasks : board[u].blockedBy \subseteq board'[u].blockedBy
      BY <1>0, <3>1 DEF StoresTyped, Rec
    <3> QED
      BY <1>0, <1>2, <2>x, <3>1, <3>2, NoCreator DEF Creating
  <2>9. CASE Dependents(c)
    <3>1. /\ th'[c].at = "unblock" /\ Still(c)
          /\ UNCHANGED <<board, files, created, declared, hist>>
      BY <2>9, DependentsEffect
    <3> QED
      BY <1>1, <2>x, <3>1, NoCreator DEF Creating
  <2>10. CASE Unblock(c)
    <3> DEFINE t == th[c].task
    <3>1. /\ th'[c].at = "idle" \/ (th'[c].at = "get" /\ th'[c].task = t)
          /\ Still(c) /\ UNCHANGED <<files, created, declared>>
          /\ board' = [u \in Tasks |-> IF u \in th[c].deps
                         THEN [board[u] EXCEPT !.blockedBy = @ \ {t}] ELSE board[u]]
          /\ Happened("shared")' = Happened("shared") \cup {t}
          /\ Happened("started")' = Happened("started")
      BY <2>10, UnblockEffect
    <3>2. \A u \in Tasks : board[u].blockedBy \subseteq board'[u].blockedBy \cup {t}
      BY <1>0, <3>1 DEF StoresTyped, Rec
    <3>3. Creator(c)' /\ ~Creates(c)'
      BY <3>1 DEF Creator, Creates, Creating
    <3> QED
      BY <1>0, <1>2, <2>x, <3>1, <3>2, <3>3, CreatorsKept
  <2> QED
    BY <1>c, <2>1, <2>2, <2>3, <2>4, <2>5, <2>6, <2>7, <2>8, <2>9, <2>10 DEF CallerStep
<1>l. ASSUME NEW w \in Loops, LoopStep(w) PROVE CreatorInv'
  <2>x. w \in Threads /\ w \notin Callers
    BY ThreadKinds
  <2>1. CASE Find(w)
    <3>1. /\ th'[w].at = "fileClaim" /\ Still(w)
          /\ UNCHANGED <<board, files, created, declared, hist>>
      BY <2>1, FindEffect
    <3> QED
      BY <1>1, <2>x, <3>1, NoCreator DEF Creating
  <2>2. CASE Execute(w)
    <3>1. /\ th'[w].at \in {"scan", "finish"} /\ Still(w)
          /\ UNCHANGED <<board, files, created, declared, hist>>
      BY <2>2, ExecuteEffect
    <3> QED
      BY <1>1, <2>x, <3>1, NoCreator DEF Creating
  <2>3. CASE FinishTask(w)
    <3> DEFINE t == th[w].task
    <3>1. /\ th[w].at = "finish" /\ th'[w].at = "scan" /\ t \in Tasks
          /\ Still(w) /\ UNCHANGED <<board, created, declared>>
          /\ files' = [files EXCEPT ![t] = th[w].snap]
      BY <2>3, FinishTaskEffect
    <3>2. Happened("shared")' = Happened("shared") /\ Happened("started")' = Happened("started")
      BY <2>3, NotedFinish
    <3>3. files[t].status # "absent"
      BY <1>0, <2>x, <3>1 DEF ThreadWaits
    <3>4. \A u \in 1..created : files[u].status = "absent" => files'[u].status = "absent"
      BY <1>0, <3>1, <3>3 DEF StoresTyped
    <3> QED
      BY <1>2, <2>x, <3>1, <3>2, <3>4, NoCreator DEF Creating
  <2>4. CASE ScanDependents(w)
    <3>1. /\ th'[w].at \in {"idle", "dependent"} /\ Still(w)
          /\ UNCHANGED <<board, files, created, declared, hist>>
      BY <2>4, ScanEffect
    <3> QED
      BY <1>1, <2>x, <3>1, NoCreator DEF Creating
  <2>5. CASE UnblockFile(w)
    <3>1. PICK q \in th[w].saves :
            /\ q.task \in Tasks /\ files' = [files EXCEPT ![q.task] = q.rec]
            /\ th'[w].at \in {"idle", "dependent"}
      BY <2>5, UnblockFileEffect
    <3>2. Still(w) /\ UNCHANGED <<board, created, declared, hist>>
      BY <2>5, UnblockFileEffect
    <3>3. files[q.task].status # "absent"
      BY <1>0, <2>x DEF ThreadWithin
    <3>4. \A u \in 1..created : files[u].status = "absent" => files'[u].status = "absent"
      BY <1>0, <3>1, <3>3 DEF StoresTyped
    <3> QED
      BY <1>1, <2>x, <3>1, <3>2, <3>4, NoCreator DEF Creating
  <2> QED
    BY <1>l, <2>1, <2>2, <2>3, <2>4, <2>5 DEF LoopStep
<1>f. ASSUME NEW x \in Threads, FileClaim(x) PROVE CreatorInv'
  <2> DEFINE t == th[x].task
  <2>1. /\ th'[x].at \in {"run", "assign", "idle"} /\ t \in Tasks
        /\ Still(x) /\ UNCHANGED <<board, created, declared>>
    BY <1>f, FileClaimEffect
  <2>2. CASE UNCHANGED <<files, hist>>
    BY <1>1, <2>1, <2>2, NoCreator DEF Creating
  <2>3. CASE ~UNCHANGED <<files, hist>>
    <3>1. /\ Claimable(files[t])
          /\ files' = [files EXCEPT ![t] = [@ EXCEPT !.status = "in_progress", !.owner = x]]
          /\ Happened("shared") \subseteq Happened("shared")'
          /\ Happened("started")' \subseteq Happened("started") \cup {<<t, x>>}
      BY <1>f, <2>3, FileClaimEffect
    <3>2. StartedTasks' \subseteq StartedTasks \cup {t}
      BY <3>1 DEF StartedTasks
    <3>3. files[t].status # "absent"
      BY <3>1 DEF Claimable
    <3>4. \A u \in 1..created : files[u].status = "absent" => u # t /\ files'[u].status = "absent"
      BY <1>0, <3>1, <3>3 DEF StoresTyped
    <3> QED
      BY <2>1, <3>1, <3>2, <3>4, NoCreator DEF Creating
  <2> QED
    BY <2>2, <2>3
<1>a. ASSUME NEW x \in Threads, AssignTask(x) PROVE CreatorInv'
  <2> DEFINE t == th[x].task
             r == [board[t] EXCEPT !.owner = th[x].who, !.status = "in_progress"]
  <2>1. /\ th'[x].at \in {"mark", "idle"} /\ t \in Tasks
        /\ UNCHANGED board \/ board' = [board EXCEPT ![t] = r]
        /\ Still(x) /\ UNCHANGED <<files, created, declared>>
    BY <1>a, AssignEffect
  <2>2. UNCHANGED hist \/ \A k : k # "granted" => Happened(k)' = Happened(k)
    BY <1>a, AssignEffect
  <2>3. Happened("shared")' = Happened("shared") /\ Happened("started")' = Happened("started")
    BY <2>2, NothingNew
  <2>4. r.blockedBy = board[t].blockedBy
    BY <1>0, <2>1 DEF Rec
  <2> HIDE DEF r
  <2>5. \A u \in Tasks : board[u].blockedBy \subseteq board'[u].blockedBy
    BY <1>0, <2>1, <2>4 DEF StoresTyped
  <2> QED
    BY <1>0, <1>2, <2>1, <2>3, <2>5, NoCreator DEF Creating
<1>u. ASSUME AutoClaim PROVE CreatorInv'
  <2> DEFINE x == "heartbeat"
  <2>1. /\ th'[x].at = "hand" /\ Still(x) /\ x \in Threads
        /\ UNCHANGED <<board, files, created, declared, hist>>
    BY <1>u, AutoClaimEffect, ThreadKinds
  <2> QED
    BY <1>1, <2>1, NoCreator DEF Creating
<1>h. ASSUME UNCHANGED th
      PROVE  /\ "heartbeat" \in Threads /\ Still("heartbeat")
             /\ th'["heartbeat"].at \in HeartbeatPlaces
  BY <1>h, ThreadKinds DEF Still, TypeInv, Placed, Kind
<1>s. ASSUME NEW t \in Present, NEW s \in {"pending", "in_progress"} \cup Terminal,
             SetStatus(t, s)
      PROVE  CreatorInv'
  <2>1. /\ board' = [board EXCEPT ![t].status = s] /\ UNCHANGED <<files, th, created, declared>>
        /\ Note("marked", IF s = "in_progress" THEN {t} ELSE {})
    BY <1>s DEF SetStatus
  <2>2. \A u \in Tasks : board[u].blockedBy \subseteq board'[u].blockedBy
    BY <1>0, <2>1 DEF StoresTyped, Rec
  <2>3. Happened("shared")' = Happened("shared") /\ Happened("started")' = Happened("started")
    BY <2>1, Noted
  <2> QED
    BY <1>0, <1>2, <1>h, <2>1, <2>2, <2>3, NoCreator DEF Creating, HeartbeatPlaces
<1>r. ASSUME Crash PROVE CreatorInv'
  <2>1. \A c \in Callers : th'[c].at = "idle"
    BY <1>r, ThreadKinds DEF Crash, Idle
  <2> QED
    BY <2>1 DEF CreatorInv, Creator, Creates, Creating
<1>v. ASSUME UNCHANGED vars PROVE CreatorInv'
  BY <1>1, <1>h, <1>v, NoCreator DEF vars, Creating, HeartbeatPlaces
<1> QED
  BY <1>c, <1>l, <1>f, <1>a, <1>u, <1>s, <1>r, <1>v DEF Next

-----------------------------------------------------------------------------
(* Work loops *)

Busy == {"run", "finish", "scan", "dependent"}

\* The loop that ran b is past its save of u, or will not save it.
Passed(b, u) ==
  /\ b \in StartedTasks
  /\ \A w \in Loops : th[w].task = b /\ th[w].at \in Busy =>
       th[w].at = "dependent" /\ \A s \in th[w].saves : s.task # u

\* A record of u names every blocker whose loop may still have to save u.
Names(u, rec, b) == b \in rec.blockedBy \/ Passed(b, u)

\* What holds of a set of tasks left to the loops.
LoopFiles(U) ==
  /\ \A p, q \in Happened("started") : p[1] = q[1] /\ p[1] \in U => p[2] = q[2]
  /\ \A u \in U \cap StartedTasks : ~Claimable(files[u]) /\ files[u].blockedBy = {}
  /\ \A u \in U : files[u].status # "absent" =>
       \A b \in declared[u] : Names(u, files[u], b)
LoopThread(U, w) ==
  th[w].task \in U =>
    /\ th[w].at = "fileClaim" => files[th[w].task].blockedBy = {}
    /\ th[w].at \in Busy => <<th[w].task, w>> \in Happened("started")
    /\ th[w].at = "finish" =>
         th[w].snap.status \in {"completed", "failed"} /\ th[w].snap.blockedBy = {}
LoopSaves(U, w) ==
  \A s \in th[w].saves : s.task \in U =>
    /\ th[w].at = "dependent" /\ th[w].task \in files[s.task].blockedBy
    /\ \A b \in declared[s.task] \ {th[w].task} : Names(s.task, s.rec, b)
    /\ \A r \in th[w].saves : r.task = s.task => r = s
LeftInv(U) == LoopFiles(U) /\ \A w \in Loops : LoopThread(U, w) /\ LoopSaves(U, w)
LoopInv == \A U \in SUBSET Tasks : LeftToLoops(U) => LeftInv(U)

\* A set of tasks that is left to the loops was left to them before.
LEMMA LeftBefore ==
  ASSUME TypeInv, \A t \in 1..created : declared'[t] = declared[t],
         Happened("shared") \subseteq Happened("shared")',
         NEW U \in SUBSET Tasks, LeftToLoops(U)'
  PROVE  LeftToLoops(U)
  BY DEF TypeInv, NoneBefore, LeftToLoops

\* LoopInv after a step that leaves the files and the loops alone.
LEMMA LoopsUntouched ==
  ASSUME TypeInv, LoopInv, UNCHANGED files,
         \A t \in 1..created : declared'[t] = declared[t],
         Happened("shared") \subseteq Happened("shared")',
         Happened("started")' = Happened("started"),
         \A w \in Loops : th'[w] = th[w]
  PROVE  LoopInv'
<1> SUFFICES ASSUME NEW U \in SUBSET Tasks, LeftToLoops(U)' PROVE LeftInv(U)'
  BY DEF LoopInv
<1>1. LeftInv(U)
  BY LeftBefore DEF LoopInv
<1>2. StartedTasks' = StartedTasks
  BY DEF StartedTasks
<1>3. \A b, u : Passed(b, u)' <=> Passed(b, u)
  BY <1>2 DEF Passed
<1>4. \A u \in Tasks : files[u].status # "absent" => declared'[u] = declared[u]
  BY DEF TypeInv, NoneBefore
<1>5. LoopFiles(U)'
  <2>1. \A u \in U : files'[u].status # "absent" =>
          \A b \in declared'[u] : Names(u, files[u], b)'
    BY <1>1, <1>3, <1>4 DEF LeftInv, LoopFiles, Names
  <2> QED
    BY <1>1, <1>2, <2>1 DEF LeftInv, LoopFiles
<1>6. ASSUME NEW w \in Loops PROVE LoopThread(U, w)'
  BY <1>1 DEF LeftInv, LoopThread
<1>7. ASSUME NEW w \in Loops PROVE LoopSaves(U, w)'
  <2>1. w \in Threads /\ LoopSaves(U, w)
    BY <1>1, ThreadKinds DEF LeftInv
  <2>2. \A q \in th[w].saves : declared'[q.task] = declared[q.task]
    BY <2>1 DEF TypeInv, Placed
  <2>3. ASSUME NEW q \in th[w].saves, q.task \in U,
               NEW b \in declared'[q.task] \ {th[w].task}
        PROVE  Names(q.task, q.rec, b)'
    BY <1>3, <2>1, <2>2, <2>3 DEF LoopSaves, Names
  <2> QED
    BY <2>1, <2>3 DEF LoopSaves
<1> QED
  BY <1>5, <1>6, <1>7 DEF LeftInv

\* A loop that works on a task after a step did so before, and goes through its
\* saves without adding any.
GoesOn(w) ==
  th'[w].at \in Busy =>
    /\ th[w].at \in Busy /\ th'[w].task = th[w].task
    /\ th[w].at = "dependent" =>
         th'[w].at = "dependent" /\ th'[w].saves \subseteq th[w].saves

\* What was passed stays passed: no loop starts a task of U again.
LEMMA PassedStays ==
  ASSUME NEW U, StartedTasks \subseteq StartedTasks',
         \A w \in Loops : GoesOn(w) \/ th'[w].task \notin U \cap StartedTasks
  PROVE  \A b \in U : \A u : Passed(b, u) => Passed(b, u)'
<1> SUFFICES ASSUME NEW b \in U, NEW u, Passed(b, u) PROVE Passed(b, u)'
  OBVIOUS
<1>1. b \in StartedTasks /\ b \in StartedTasks'
  BY DEF Passed
<1>2. ASSUME NEW w \in Loops, th'[w].task = b, th'[w].at \in Busy
      PROVE  th'[w].at = "dependent" /\ \A q \in th'[w].saves : q.task # u
  <2>1. GoesOn(w)
    BY <1>1, <1>2
  <2>2. th[w].at \in Busy /\ th[w].task = b
    BY <1>2, <2>1 DEF GoesOn
  <2>3. th[w].at = "dependent" /\ \A q \in th[w].saves : q.task # u
    BY <2>2 DEF Passed
  <2> QED
    BY <1>2, <2>1, <2>3 DEF GoesOn
<1> QED
  BY <1>1, <1>2 DEF Passed

\* What LeftInv needs of a loop that the step leaves alone, when the files it is
\* about keep their blockers.
LEMMA OtherLoop ==
  ASSUME TypeInv, NEW U \in SUBSET Tasks, LeftToLoops(U), LeftInv(U), UNCHANGED declared,
         Happened("started") \subseteq Happened("started")',
         \A b \in U : \A u : Passed(b, u) => Passed(b, u)',
         NEW w \in Loops, th'[w] = th[w],
         th[w].at = "fileClaim" /\ th[w].task \in U => files'[th[w].task].blockedBy = {},
         \A q \in th[w].saves : q.task \in U => th[w].task \in files'[q.task].blockedBy
  PROVE  LoopThread(U, w)' /\ LoopSaves(U, w)'
<1>1. LoopThread(U, w) /\ LoopSaves(U, w)
  BY DEF LeftInv
<1>2. LoopThread(U, w)'
  BY <1>1 DEF LoopThread
<1>3. ASSUME NEW q \in th[w].saves, q.task \in U, NEW b \in declared[q.task] \ {th[w].task}
      PROVE  Names(q.task, q.rec, b)'
  <2>1. b \in U /\ Names(q.task, q.rec, b)
    BY <1>1, <1>3 DEF LeftToLoops, LoopSaves
  <2> QED
    BY <2>1 DEF Names
<1>4. LoopSaves(U, w)'
  BY <1>1, <1>3 DEF LoopSaves
<1> QED
  BY <1>2, <1>4

\* A file that keeps its blockers goes on naming those that are not passed.
LEMMA StillNames ==
  ASSUME NEW U \in SUBSET Tasks, LeftToLoops(U), LoopFiles(U), NEW u \in U,
         \A b \in U : \A v : Passed(b, v) => Passed(b, v)',
         files[u].status # "absent", files[u].blockedBy \subseteq files'[u].blockedBy
  PROVE  \A b \in declared[u] : Names(u, files[u], b)'
  BY DEF LeftToLoops, LoopFiles, Names

\* A task of U is run by one loop.
LEMMA OneRunner ==
  ASSUME NEW U, LeftInv(U), NEW v \in Loops, NEW w \in Loops,
         th[v].at \in Busy, th[w].at \in Busy, th[v].task \in U, th[v].task = th[w].task
  PROVE  v = w
<1>1. <<th[v].task, v>> \in Happened("started") /\ <<th[w].task, w>> \in Happened("started")
  BY DEF LeftInv, LoopThread
<1>2. /\ <<th[v].task, v>>[1] = th[v].task /\ <<th[v].task, v>>[2] = v
      /\ <<th[w].task, w>>[1] = th[w].task /\ <<th[w].task, w>>[2] = w
  OBVIOUS
<1> QED
  BY <1>1, <1>2, Zenon DEF LeftInv, LoopFiles

\* LoopInv after a step of one loop that writes no file.
LEMMA LoopMoves ==
  ASSUME TypeInv, LoopInv, NEW w \in Loops, Still(w), GoesOn(w),
         UNCHANGED <<files, created, declared, hist>>,
         \A U \in SUBSET Tasks :
           /\ LeftToLoops(U) /\ LeftInv(U)
           /\ \A b \in U : \A u : Passed(b, u) => Passed(b, u)'
           => LoopThread(U, w)' /\ LoopSaves(U, w)'
  PROVE  LoopInv'
<1>1. \A v \in Loops : v \in Threads
  BY ThreadKinds
<1>2. /\ Happened("shared")' = Happened("shared")
      /\ Happened("started")' = Happened("started") /\ StartedTasks' = StartedTasks
  BY NothingNew DEF StartedTasks
<1> SUFFICES ASSUME NEW U \in SUBSET Tasks, LeftToLoops(U)' PROVE LeftInv(U)'
  BY DEF LoopInv
<1>3. LeftToLoops(U) /\ LeftInv(U)
  BY <1>2, LeftBefore DEF LoopInv
<1>4. \A v \in Loops : GoesOn(v)
  BY <1>1 DEF GoesOn, Still
<1>5. \A b \in U : \A u : Passed(b, u) => Passed(b, u)'
  BY <1>2, <1>4, PassedStays
<1>6. LoopFiles(U)'
  <2>1. ASSUME NEW u \in U, files'[u].status # "absent"
        PROVE  \A b \in declared[u] : Names(u, files[u], b)'
    BY <1>3, <1>5, <2>1, StillNames DEF LeftInv
  <2> QED
    BY <1>2, <1>3, <2>1 DEF LeftInv, LoopFiles
<1>7. ASSUME NEW v \in Loops, v # w PROVE LoopThread(U, v)' /\ LoopSaves(U, v)'
  <2>1. th'[v] = th[v] /\ LoopThread(U, v) /\ LoopSaves(U, v)
    BY <1>1, <1>3, <1>7 DEF Still, LeftInv
  <2>2. th[v].at = "fileClaim" /\ th[v].task \in U => files'[th[v].task].blockedBy = {}
    BY <2>1 DEF LoopThread
  <2>3. \A q \in th[v].saves : q.task \in U => th[v].task \in files'[q.task].blockedBy
    BY <2>1 DEF LoopSaves
  <2> QED
    BY <1>2, <1>3, <1>5, <2>1, <2>2, <2>3, OtherLoop
<1>8. LoopThread(U, w)' /\ LoopSaves(U, w)'
  BY <1>3, <1>5
<1> QED
  BY <1>6, <1>7, <1>8 DEF LeftInv

\* Every step keeps LoopInv.
LEMMA LoopsStep ==
  TypeInv /\ BlockInv /\ NoOthers /\ CreatorInv /\ LoopInv /\ [Next]_vars => LoopInv'
<1> SUFFICES ASSUME TypeInv, BlockInv, NoOthers, CreatorInv, LoopInv, [Next]_vars
             PROVE  LoopInv'
  OBVIOUS
<1>0. /\ StoresTyped /\ NoneBefore /\ 1..created \subseteq Tasks /\ created \in Nat
      /\ \A t \in Tasks : board[t] \in Rec /\ files[t] \in Rec
      /\ \A t \in Tasks : files[t].blockedBy \subseteq declared[t]
      /\ \A x \in Threads : ThreadWithin(x) /\ ThreadWaits(x)
  BY TeamAssumption DEF TypeInv, StoresTyped, Tasks, NoOthers, BlockInv, Within
<1>w. \A w \in Loops : w \in Threads
  BY ThreadKinds
\* One thread that is no loop moves, and no file changes.
<1>1. ASSUME NEW x \in Threads, x \notin Loops, Still(x), UNCHANGED <<files, declared>>,
             Happened("shared") \subseteq Happened("shared")',
             Happened("started")' = Happened("started")
      PROVE  LoopInv'
  BY <1>1, <1>w, LoopsUntouched DEF Still
<1>c. ASSUME NEW c \in Callers, CallerStep(c) PROVE LoopInv'
  <2>x. c \in Threads /\ c \notin Loops
    BY ThreadKinds
  <2>1. CASE Create(c)
    <3>1. /\ Still(c) /\ UNCHANGED <<files, hist>>
          /\ \E D \in SUBSET Present : declared' = [declared EXCEPT ![created + 1] = D]
      BY <2>1, CreateEffect
    <3>2. \A t \in 1..created : declared'[t] = declared[t]
      BY <1>0, <3>1 DEF StoresTyped
    <3>3. \A w \in Loops : th'[w] = th[w]
      BY <1>w, <2>x, <3>1 DEF Still
    <3> QED
      BY <3>1, <3>2, <3>3, NothingNew, LoopsUntouched
  <2>2. CASE Register(c)
    BY <1>1, <2>x, <2>2, RegisterEffect, NothingNew
  <2>3. CASE Link(c)
    <3>1. /\ Still(c) /\ UNCHANGED <<files, declared>>
          /\ Note("relinked", IF th[c].dep \in Happened("completing")
                              THEN {<<th[c].dep, th[c].task>>} ELSE {})
      BY <2>3, LinkEffect
    <3>2. Happened("shared")' = Happened("shared") /\ Happened("started")' = Happened("started")
      BY <3>1, Noted
    <3> QED
      BY <1>1, <2>x, <3>1, <3>2
  <2>4. CASE GetTask(c)
    BY <1>1, <2>x, <2>4, GetTaskEffect, NothingNew
  <2>5. CASE PersistTask(c)
    <3> DEFINE t == th[c].task
    <3>1. /\ th[c].at = "save" /\ t \in Tasks /\ Still(c) /\ UNCHANGED <<created, declared, hist>>
          /\ files' = [files EXCEPT ![t] = th[c].snap]
      BY <2>5, PersistTaskEffect
    <3>2. /\ Happened("shared")' = Happened("shared")
          /\ Happened("started")' = Happened("started") /\ StartedTasks' = StartedTasks
      BY <3>1, NothingNew DEF StartedTasks
    <3>3. \A w \in Loops : th'[w] = th[w]
      BY <1>w, <2>x, <3>1 DEF Still
    <3>4. /\ files'[t] = th[c].snap
          /\ \A u \in Tasks : u # t => files'[u] = files[u]
      BY <1>0, <3>1 DEF StoresTyped
    <3> SUFFICES ASSUME NEW U \in SUBSET Tasks, LeftToLoops(U)' PROVE LeftInv(U)'
      BY DEF LoopInv
    <3>5. LeftToLoops(U) /\ LeftInv(U)
      BY <3>1, <3>2, LeftBefore DEF LoopInv
    <3>6. \A b \in U : \A u : Passed(b, u) => Passed(b, u)'
      BY <3>2, <3>3 DEF Passed
    <3>7. t \in U => /\ files[t].status = "absent" /\ t \notin StartedTasks
                     /\ declared[t] \subseteq th[c].snap.blockedBy
      BY <3>1, <3>5 DEF LeftToLoops, CreatorInv, Creator, Creates, Creating
    <3>8. LoopFiles(U)'
      <4>1. \A u \in U \cap StartedTasks : u # t
        BY <3>7
      <4>2. ASSUME NEW u \in U, files'[u].status # "absent"
            PROVE  \A b \in declared[u] : Names(u, files[u], b)'
        <5>1. CASE u = t
          BY <3>4, <3>7, <5>1 DEF Names
        <5>2. CASE u # t
          <6>1. files'[u] = files[u]
            BY <3>4, <5>2
          <6> QED
            BY <3>5, <3>6, <4>2, <6>1, StillNames DEF LeftInv
        <5> QED
          BY <5>1, <5>2
      <4>3. \A u \in U \cap StartedTasks' : ~Claimable(files'[u]) /\ files'[u].blockedBy = {}
        BY <3>2, <3>4, <3>5, <4>1 DEF LeftInv, LoopFiles
      <4>4. \A p, q \in Happened("started")' : p[1] = q[1] /\ p[1] \in U => p[2] = q[2]
        BY <3>2, <3>5 DEF LeftInv, LoopFiles
      <4> QED
        BY <3>1, <4>2, <4>3, <4>4 DEF LoopFiles
    <3>9. ASSUME NEW w \in Loops PROVE LoopThread(U, w)' /\ LoopSaves(U, w)'
      <4>1. w \in Threads /\ LoopThread(U, w) /\ LoopSaves(U, w)
        BY <1>w, <3>5 DEF LeftInv
      <4>2. th[w].at = "fileClaim" /\ th[w].task \in U => files'[th[w].task].blockedBy = {}
        <5>1. SUFFICES ASSUME th[w].at = "fileClaim", th[w].task \in U
                       PROVE  files'[th[w].task].blockedBy = {}
          OBVIOUS
        <5>2. files[th[w].task].status # "absent" /\ files[th[w].task].blockedBy = {}
          BY <1>0, <4>1, <5>1 DEF ThreadWaits, LoopThread
        <5> QED
          BY <3>4, <3>7, <5>1, <5>2
      <4>3. \A q \in th[w].saves : q.task \in U => th[w].task \in files'[q.task].blockedBy
        <5>1. SUFFICES ASSUME NEW q \in th[w].saves, q.task \in U
                       PROVE  th[w].task \in files'[q.task].blockedBy
          OBVIOUS
        <5>2. files[q.task].status # "absent" /\ th[w].task \in files[q.task].blockedBy
          BY <1>0, <4>1, <5>1 DEF ThreadWithin, LoopSaves
        <5> QED
          BY <3>4, <3>7, <5>1, <5>2
      <4> QED
        BY <3>1, <3>2, <3>3, <3>5, <3>6, <4>2, <4>3, OtherLoop
    <3> QED
      BY <3>8, <3>9 DEF LeftInv
  <2>6. CASE Claim(c)
    BY <1>1, <2>x, <2>6, ClaimEffect, NothingNew
  <2>7. CASE MarkInProgress(c)
    <3>1. Still(c) /\ UNCHANGED <<files, declared, hist>>
      BY <2>7, MarkEffect
    <3> QED
      BY <1>1, <2>x, <3>1, NothingNew
  <2>8. CASE Complete(c)
    BY <1>1, <2>x, <2>8, CompleteEffect, ZenonT(40)
  <2>9. CASE Dependents(c)
    BY <1>1, <2>x, <2>9, DependentsEffect, NothingNew
  <2>10. CASE Unblock(c)
    BY <1>1, <2>x, <2>10, UnblockEffect
  <2> QED
    BY <1>c, <2>1, <2>2, <2>3, <2>4, <2>5, <2>6, <2>7, <2>8, <2>9, <2>10 DEF CallerStep
<1>l. ASSUME NEW w \in Loops, LoopStep(w) PROVE LoopInv'
  <2>x. w \in Threads
    BY ThreadKinds
  <2>1. CASE Find(w)
    <3> DEFINE t == th'[w].task
    <3>1. /\ th[w].at = "idle" /\ th'[w].at = "fileClaim" /\ th'[w].saves = {}
          /\ files[t].blockedBy = {}
          /\ Still(w) /\ UNCHANGED <<files, created, declared, hist>>
      BY <2>1, FindEffect
    <3>2. GoesOn(w)
      BY <3>1 DEF GoesOn, Busy
    <3>3. ASSUME NEW U PROVE LoopThread(U, w)' /\ LoopSaves(U, w)'
      BY <3>1 DEF LoopThread, LoopSaves, Busy
    <3> QED
      BY <3>1, <3>2, <3>3, LoopMoves
  <2>2. CASE Execute(w)
    <3> DEFINE t == th[w].task
    <3>1. /\ th[w].at = "run" /\ t \in Tasks /\ th'[w].task = t /\ th'[w].saves = th[w].saves
          /\ \/ files[t].status = "absent" /\ th'[w].at = "scan"
             \/ /\ files[t].status # "absent" /\ th'[w].at = "finish"
                /\ th'[w].snap.status \in {"completed", "failed"}
                /\ th'[w].snap.blockedBy = files[t].blockedBy
          /\ Still(w) /\ UNCHANGED <<files, created, declared, hist>>
      BY <2>2, ExecuteEffect
    <3>2. GoesOn(w)
      BY <3>1 DEF GoesOn, Busy
    <3>3. ASSUME NEW U \in SUBSET Tasks, LeftToLoops(U), LeftInv(U)
          PROVE  LoopThread(U, w)' /\ LoopSaves(U, w)'
      <4>1. LoopThread(U, w) /\ LoopSaves(U, w) /\ LoopFiles(U)
        BY <3>3 DEF LeftInv
      <4>2. LoopSaves(U, w)'
        BY <3>1, <4>1 DEF LoopSaves
      <4>3. t \in U => <<t, w>> \in Happened("started")
        BY <3>1, <4>1 DEF LoopThread, Busy
      <4>4. t \in U => files[t].blockedBy = {}
        <5>1. <<t, w>>[1] = t
          OBVIOUS
        <5> QED
          BY <4>1, <4>3, <5>1 DEF LoopFiles, StartedTasks
      <4>5. files[t].status # "absent"
        BY <1>0, <2>x, <3>1 DEF ThreadWaits
      <4>6. LoopThread(U, w)'
        BY <3>1, <4>3, <4>4, <4>5, NothingNew DEF LoopThread
      <4> QED
        BY <4>2, <4>6
    <3> QED
      BY <3>1, <3>2, <3>3, LoopMoves
  <2>3. CASE FinishTask(w)
    <3> DEFINE t == th[w].task
    <3>1. /\ th[w].at = "finish" /\ th'[w].at = "scan" /\ th'[w].task = t
          /\ th'[w].saves = th[w].saves /\ t \in Tasks
          /\ Still(w) /\ UNCHANGED <<created, declared>>
          /\ files' = [files EXCEPT ![t] = th[w].snap]
      BY <2>3, FinishTaskEffect
    <3>2. /\ Happened("shared")' = Happened("shared")
          /\ Happened("started")' = Happened("started")
      BY <2>3, NotedFinish
    <3>3. StartedTasks' = StartedTasks
      BY <3>2 DEF StartedTasks
    <3>4. /\ files'[t] = th[w].snap
          /\ \A u \in Tasks : u # t => files'[u] = files[u]
      BY <1>0, <3>1 DEF StoresTyped
    <3> SUFFICES ASSUME NEW U \in SUBSET Tasks, LeftToLoops(U)' PROVE LeftInv(U)'
      BY DEF LoopInv
    <3>5. LeftToLoops(U) /\ LeftInv(U)
      BY <3>1, <3>2, LeftBefore DEF LoopInv
    <3>6. \A v \in Loops : GoesOn(v)
      BY <1>w, <3>1 DEF GoesOn, Still, Busy
    <3>7. \A b \in U : \A u : Passed(b, u) => Passed(b, u)'
      BY <3>3, <3>6, PassedStays
    <3>8. LoopThread(U, w) /\ LoopSaves(U, w) /\ LoopFiles(U)
      BY <3>5 DEF LeftInv
    <3>9. t \in U => <<t, w>> \in Happened("started") /\ t \in StartedTasks
      <4>1. <<t, w>>[1] = t
        OBVIOUS
      <4> QED
        BY <3>1, <3>8, <4>1 DEF LoopThread, Busy, StartedTasks
    <3>10. t \in U => /\ files[t].blockedBy = {} /\ th[w].snap.blockedBy = {}
                      /\ ~Claimable(th[w].snap) /\ files[t].status # "absent"
      BY <1>0, <2>x, <3>1, <3>8, <3>9 DEF LoopFiles, LoopThread, Claimable, ThreadWaits
    <3>11. \A u \in U : files'[u].blockedBy = files[u].blockedBy
      BY <3>4, <3>10
    <3>12. LoopFiles(U)'
      <4>1. ASSUME NEW u \in U, files'[u].status # "absent"
            PROVE  \A b \in declared[u] : Names(u, files[u], b)'
        <5>1. files[u].status # "absent"
          BY <3>4, <3>10, <4>1
        <5> QED
          BY <3>5, <3>7, <3>8, <3>11, <5>1, StillNames
      <4>2. \A u \in U \cap StartedTasks' : ~Claimable(files'[u]) /\ files'[u].blockedBy = {}
        BY <3>3, <3>4, <3>8, <3>10 DEF LoopFiles
      <4>3. \A p, q \in Happened("started")' : p[1] = q[1] /\ p[1] \in U => p[2] = q[2]
        BY <3>2, <3>8 DEF LoopFiles
      <4> QED
        BY <3>1, <4>1, <4>2, <4>3 DEF LoopFiles
    <3>13. LoopThread(U, w)' /\ LoopSaves(U, w)'
      <4>1. LoopThread(U, w)'
        BY <3>1, <3>2, <3>9 DEF LoopThread, Busy
      <4>2. LoopSaves(U, w)'
        BY <3>1, <3>8 DEF LoopSaves
      <4> QED
        BY <4>1, <4>2
    <3>14. ASSUME NEW v \in Loops, v # w PROVE LoopThread(U, v)' /\ LoopSaves(U, v)'
      <4>1. th'[v] = th[v] /\ LoopThread(U, v) /\ LoopSaves(U, v)
        BY <1>w, <3>1, <3>5, <3>14 DEF Still, LeftInv
      <4>2. th[v].at = "fileClaim" /\ th[v].task \in U => files'[th[v].task].blockedBy = {}
        BY <3>11, <4>1 DEF LoopThread
      <4>3. \A q \in th[v].saves : q.task \in U => th[v].task \in files'[q.task].blockedBy
        BY <3>11, <4>1 DEF LoopSaves
      <4> QED
        BY <3>1, <3>2, <3>5, <3>7, <4>1, <4>2, <4>3, OtherLoop
    <3> QED
      BY <3>12, <3>13, <3>14 DEF LeftInv
  <2>4. CASE ScanDependents(w)
    <3> DEFINE t == th[w].task
    <3>1. /\ th[w].at = "scan" /\ t \in Tasks
          /\ \/ th'[w].at = "idle" /\ th'[w].task = 0 /\ th'[w].saves = {}
             \/ /\ th'[w].at = "dependent" /\ th'[w].task = t
                /\ \A q \in th'[w].saves :
                     /\ q.task \in Tasks /\ files[q.task].status # "absent"
                     /\ t \in files[q.task].blockedBy
                     /\ q = [task |-> q.task, rec |-> Without(files[q.task], t)]
          /\ Still(w) /\ UNCHANGED <<files, created, declared, hist>>
      BY <2>4, ScanEffect
    <3>2. GoesOn(w)
      BY <3>1 DEF GoesOn, Busy
    <3>3. ASSUME NEW U \in SUBSET Tasks, LeftToLoops(U), LeftInv(U),
                 \A b \in U : \A u : Passed(b, u) => Passed(b, u)'
          PROVE  LoopThread(U, w)' /\ LoopSaves(U, w)'
      <4>1. LoopThread(U, w) /\ LoopFiles(U)
        BY <3>3 DEF LeftInv
      <4>2. CASE th'[w].at = "idle" /\ th'[w].saves = {}
        BY <4>2 DEF LoopThread, LoopSaves, Busy
      <4>3. CASE th'[w].at = "dependent" /\ th'[w].task = t
        <5>1. LoopThread(U, w)'
          BY <3>1, <4>1, <4>3, NothingNew DEF LoopThread, Busy
        <5>2. ASSUME NEW q \in th'[w].saves, q.task \in U
              PROVE  /\ t \in files[q.task].blockedBy
                     /\ \A b \in declared[q.task] \ {t} : Names(q.task, q.rec, b)'
                     /\ \A r \in th'[w].saves : r.task = q.task => r = q
          <6>1. /\ q.task \in Tasks /\ files[q.task].status # "absent"
                /\ t \in files[q.task].blockedBy /\ q.rec = Without(files[q.task], t)
            BY <3>1, <4>3
          <6>2. q.rec.blockedBy = files[q.task].blockedBy \ {t}
            BY <1>0, <6>1 DEF Without, Rec
          <6>3. \A b \in declared[q.task] : b \in U /\ Names(q.task, files[q.task], b)
            BY <3>3, <4>1, <5>2, <6>1 DEF LeftToLoops, LoopFiles
          <6>4. \A b \in declared[q.task] \ {t} : Names(q.task, q.rec, b)'
            BY <3>3, <6>2, <6>3 DEF Names
          <6>5. \A r \in th'[w].saves : r.task = q.task => r = q
            BY <3>1, <4>3
          <6> QED
            BY <6>1, <6>4, <6>5
        <5>3. LoopSaves(U, w)'
          BY <3>1, <4>3, <5>2 DEF LoopSaves
        <5> QED
          BY <5>1, <5>3
      <4> QED
        BY <3>1, <4>2, <4>3
    <3> QED
      BY <3>1, <3>2, <3>3, LoopMoves
  <2>5. CASE UnblockFile(w)
    <3> DEFINE b == th[w].task
    <3>1. th[w].at = "dependent" /\ Still(w) /\ UNCHANGED <<created, declared, hist>>
      BY <2>5, UnblockFileEffect
    <3>2. PICK q \in th[w].saves :
            /\ q.task \in Tasks /\ files' = [files EXCEPT ![q.task] = q.rec]
            /\ \/ th'[w].at = "idle" /\ th'[w].saves = {}
               \/ /\ th'[w].at = "dependent" /\ th'[w].task = b
                  /\ th'[w].saves = th[w].saves \ {q}
      BY <2>5, UnblockFileEffect
    <3>3. /\ Happened("shared")' = Happened("shared")
          /\ Happened("started")' = Happened("started") /\ StartedTasks' = StartedTasks
      BY <3>1, NothingNew DEF StartedTasks
    <3>4. /\ files'[q.task] = q.rec
          /\ \A u \in Tasks : u # q.task => files'[u] = files[u]
      BY <1>0, <3>2 DEF StoresTyped
    <3> SUFFICES ASSUME NEW U \in SUBSET Tasks, LeftToLoops(U)' PROVE LeftInv(U)'
      BY DEF LoopInv
    <3>5. LeftToLoops(U) /\ LeftInv(U)
      BY <3>1, <3>3, LeftBefore DEF LoopInv
    <3>6. \A v \in Loops : GoesOn(v)
      BY <1>w, <3>1, <3>2 DEF GoesOn, Still, Busy
    <3>7. \A d \in U : \A u : Passed(d, u) => Passed(d, u)'
      BY <3>3, <3>6, PassedStays
    <3>8. LoopThread(U, w) /\ LoopSaves(U, w) /\ LoopFiles(U)
      BY <3>5 DEF LeftInv
    <3>9. q.task \in U => /\ b \in files[q.task].blockedBy /\ b \in U
                          /\ q.task \notin StartedTasks
                          /\ \A r \in th[w].saves : r.task = q.task => r = q
      <4>1. SUFFICES ASSUME q.task \in U
                     PROVE  /\ b \in files[q.task].blockedBy /\ b \in U
                            /\ q.task \notin StartedTasks
                            /\ \A r \in th[w].saves : r.task = q.task => r = q
        OBVIOUS
      <4>2. /\ b \in files[q.task].blockedBy
            /\ \A r \in th[w].saves : r.task = q.task => r = q
        BY <3>8, <4>1 DEF LoopSaves
      <4>3. b \in U
        BY <1>0, <3>2, <3>5, <4>1, <4>2 DEF LeftToLoops
      <4>4. q.task \notin StartedTasks
        BY <3>8, <4>1, <4>2 DEF LoopFiles
      <4> QED
        BY <4>2, <4>3, <4>4
    \* No other loop runs the blocker, and this one has no second save of the task.
    <3>10. ASSUME q.task \in U PROVE \A d : d = b => Passed(d, q.task)'
      <4>1. b \in StartedTasks
        <5>1. <<b, w>>[1] = b
          OBVIOUS
        <5>2. <<b, w>> \in Happened("started")
          BY <3>1, <3>8, <3>9, <3>10 DEF LoopThread, Busy
        <5> QED
          BY <5>1, <5>2 DEF StartedTasks
      <4>2. ASSUME NEW v \in Loops, th'[v].task = b, th'[v].at \in Busy
            PROVE  th'[v].at = "dependent" /\ \A r \in th'[v].saves : r.task # q.task
        <5>1. CASE v = w
          BY <3>2, <3>9, <3>10, <4>2, <5>1 DEF Busy
        <5>2. CASE v # w
          <6>1. th'[v] = th[v]
            BY <1>w, <3>1, <5>2 DEF Still
          <6>2. th[w].at \in Busy
            BY <3>1 DEF Busy
          <6> QED
            BY <3>5, <3>9, <3>10, <4>2, <5>2, <6>1, <6>2, OneRunner
        <5> QED
          BY <5>1, <5>2
      <4> QED
        BY <3>3, <4>1, <4>2 DEF Passed
    <3>11. LoopFiles(U)'
      <4>1. ASSUME NEW u \in U, files'[u].status # "absent"
            PROVE  \A d \in declared[u] : Names(u, files[u], d)'
        <5>1. CASE u = q.task
          <6>1. ASSUME NEW d \in declared[u], d # b PROVE Names(u, files[u], d)'
            <7>1. d \in U /\ Names(u, q.rec, d)
              BY <3>5, <3>8, <5>1, <6>1 DEF LeftToLoops, LoopSaves
            <7> QED
              BY <3>4, <3>7, <5>1, <7>1 DEF Names
          <6>2. \A d : d = b => Passed(d, u)'
            BY <3>10, <5>1
          <6> QED
            BY <6>1, <6>2 DEF Names
        <5>2. CASE u # q.task
          <6>1. files'[u] = files[u]
            BY <3>4, <5>2
          <6> QED
            BY <3>5, <3>7, <3>8, <4>1, <6>1, StillNames
        <5> QED
          BY <5>1, <5>2
      <4>2. \A u \in U \cap StartedTasks' : ~Claimable(files'[u]) /\ files'[u].blockedBy = {}
        <5>1. \A u \in U \cap StartedTasks : files'[u] = files[u]
          BY <3>4, <3>9
        <5> QED
          BY <3>3, <3>8, <5>1 DEF LoopFiles
      <4>3. \A p, r \in Happened("started")' : p[1] = r[1] /\ p[1] \in U => p[2] = r[2]
        BY <3>3, <3>8 DEF LoopFiles
      <4> QED
        BY <3>1, <4>1, <4>2, <4>3 DEF LoopFiles
    <3>12. LoopThread(U, w)'
      BY <3>1, <3>2, <3>3, <3>8 DEF LoopThread, Busy
    <3>13. LoopSaves(U, w)'
      <4>1. ASSUME NEW r \in th'[w].saves, r.task \in U
            PROVE  /\ th'[w].at = "dependent" /\ b \in files'[r.task].blockedBy
                   /\ \A d \in declared[r.task] \ {b} : Names(r.task, r.rec, d)'
                   /\ \A p \in th'[w].saves : p.task = r.task => p = r
        <5>1. r \in th[w].saves /\ r # q /\ th'[w].at = "dependent"
          BY <3>2, <4>1
        <5>2. /\ b \in files[r.task].blockedBy
              /\ \A d \in declared[r.task] \ {b} : Names(r.task, r.rec, d)
              /\ \A p \in th[w].saves : p.task = r.task => p = r
          BY <3>8, <4>1, <5>1 DEF LoopSaves
        <5>3. files'[r.task] = files[r.task]
          BY <3>4, <4>1, <5>1, <5>2
        <5>4. ASSUME NEW d \in declared[r.task] \ {b} PROVE Names(r.task, r.rec, d)'
          <6>1. d \in U /\ Names(r.task, r.rec, d)
            BY <3>5, <4>1, <5>2 DEF LeftToLoops
          <6> QED
            BY <3>7, <6>1 DEF Names
        <5> QED
          BY <3>2, <5>1, <5>2, <5>3, <5>4
      <4> QED
        BY <3>1, <3>2, <4>1 DEF LoopSaves
    <3>14. ASSUME NEW v \in Loops, v # w PROVE LoopThread(U, v)' /\ LoopSaves(U, v)'
      <4>1. th'[v] = th[v] /\ LoopThread(U, v) /\ LoopSaves(U, v)
        BY <1>w, <3>1, <3>5, <3>14 DEF Still, LeftInv
      <4>2. th[v].at = "fileClaim" /\ th[v].task \in U => files'[th[v].task].blockedBy = {}
        BY <3>4, <3>9, <4>1 DEF LoopThread
      <4>3. ASSUME NEW r \in th[v].saves, r.task \in U
            PROVE  th[v].task \in files'[r.task].blockedBy
        <5>1. th[v].at = "dependent" /\ th[v].task \in files[r.task].blockedBy
          BY <4>1, <4>3 DEF LoopSaves
        <5>2. CASE r.task # q.task
          BY <3>4, <4>3, <5>1, <5>2
        <5>3. CASE r.task = q.task
          <6>1. th[v].task \in declared[q.task] /\ th[v].task \in U
            BY <1>0, <3>2, <3>5, <4>3, <5>1, <5>3 DEF LeftToLoops
          <6>2. th[v].task # b
            BY <3>1, <3>5, <3>14, <5>1, <6>1, OneRunner DEF Busy
          <6>3. Names(q.task, q.rec, th[v].task)
            BY <3>8, <4>3, <5>3, <6>1, <6>2 DEF LoopSaves
          <6>4. ~Passed(th[v].task, q.task)
            BY <4>3, <5>1, <5>3 DEF Passed, Busy
          <6> QED
            BY <3>4, <5>3, <6>3, <6>4 DEF Names
        <5> QED
          BY <5>2, <5>3
      <4> QED
        BY <3>1, <3>3, <3>5, <3>7, <4>1, <4>2, <4>3, OtherLoop
    <3> QED
      BY <3>11, <3>12, <3>13, <3>14 DEF LeftInv
  <2> QED
    BY <1>l, <2>1, <2>2, <2>3, <2>4, <2>5 DEF LoopStep
<1>f. ASSUME NEW x \in Threads, FileClaim(x) PROVE LoopInv'
  <2> DEFINE t == th[x].task
             r == [files[t] EXCEPT !.status = "in_progress", !.owner = x]
  <2>0. /\ th[x].at = "fileClaim" /\ t \in Tasks /\ x \in Agents
        /\ Still(x) /\ UNCHANGED <<created, declared>>
    BY <1>f, FileClaimEffect
  <2>r. r.status = "in_progress" /\ r.blockedBy = files[t].blockedBy /\ ~Claimable(r)
    BY <1>0, <2>0 DEF Rec, Claimable
  <2> HIDE DEF r
  <2>1. CASE /\ Claimable(files[t]) /\ x \in Loops /\ th'[x].at = "run"
             /\ Happened("started")' = Happened("started") \cup {<<t, x>>}
             /\ Happened("shared")' = Happened("shared")
             /\ files' = [files EXCEPT ![t] = r]
             /\ th'[x].task = t /\ th'[x].saves = th[x].saves
    <3>1. files'[t] = r /\ \A u \in Tasks : u # t => files'[u] = files[u]
      BY <1>0, <2>0, <2>1 DEF StoresTyped
    <3>2. \A u \in Tasks : files'[u].blockedBy = files[u].blockedBy
      BY <2>r, <3>1
    <3>3. <<t, x>>[1] = t /\ <<t, x>>[2] = x
      OBVIOUS
    <3>4. StartedTasks' = StartedTasks \cup {t}
      BY <2>1, <3>3 DEF StartedTasks
    <3> SUFFICES ASSUME NEW U \in SUBSET Tasks, LeftToLoops(U)' PROVE LeftInv(U)'
      BY DEF LoopInv
    <3>5. LeftToLoops(U) /\ LeftInv(U)
      BY <2>0, <2>1, LeftBefore DEF LoopInv
    <3>6. LoopThread(U, x) /\ LoopSaves(U, x) /\ LoopFiles(U)
      BY <2>1, <3>5 DEF LeftInv
    <3>7. t \in U => t \notin StartedTasks /\ files[t].blockedBy = {}
      BY <2>0, <2>1, <3>6 DEF LoopThread, LoopFiles
    <3>8. \A b \in U : \A u : Passed(b, u) => Passed(b, u)'
      <4>1. \A v \in Loops : v # x => GoesOn(v)
        BY <1>w, <2>0 DEF GoesOn, Still
      <4>2. th'[x].task \notin U \cap StartedTasks
        BY <2>1, <3>7
      <4> QED
        BY <3>4, <4>1, <4>2, PassedStays
    <3>9. LoopFiles(U)'
      <4>1. ASSUME NEW u \in U, files'[u].status # "absent"
            PROVE  \A b \in declared[u] : Names(u, files[u], b)'
        <5>1. files[u].status # "absent"
          BY <2>1, <3>1, <4>1 DEF Claimable
        <5> QED
          BY <3>2, <3>5, <3>6, <3>8, <5>1, StillNames
      <4>2. \A u \in U \cap StartedTasks' : ~Claimable(files'[u]) /\ files'[u].blockedBy = {}
        BY <2>r, <3>1, <3>2, <3>4, <3>6, <3>7 DEF LoopFiles
      <4>3. ASSUME NEW p \in Happened("started")', NEW q \in Happened("started")',
                   p[1] = q[1], p[1] \in U
            PROVE  p[2] = q[2]
        <5>1. \A o \in Happened("started")' : o[1] = t /\ t \in U => o = <<t, x>>
          BY <2>1, <3>7 DEF StartedTasks
        <5>2. CASE p[1] = t
          BY <4>3, <5>1, <5>2
        <5>3. CASE p[1] # t
          <6>1. p \in Happened("started") /\ q \in Happened("started")
            BY <2>1, <3>3, <4>3, <5>3
          <6> QED
            BY <3>6, <4>3, <6>1 DEF LoopFiles
        <5> QED
          BY <5>2, <5>3
      <4> QED
        BY <2>0, <4>1, <4>2, <4>3 DEF LoopFiles
    <3>10. LoopThread(U, x)' /\ LoopSaves(U, x)'
      <4>1. LoopThread(U, x)'
        BY <2>1 DEF LoopThread
      <4>2. \A q \in th[x].saves : q.task \notin U
        BY <2>0, <3>6 DEF LoopSaves
      <4>3. LoopSaves(U, x)'
        BY <2>1, <4>2 DEF LoopSaves
      <4> QED
        BY <4>1, <4>3
    <3>11. ASSUME NEW v \in Loops, v # x PROVE LoopThread(U, v)' /\ LoopSaves(U, v)'
      <4>1. th'[v] = th[v] /\ LoopThread(U, v) /\ LoopSaves(U, v)
        BY <1>w, <2>0, <3>5, <3>11 DEF Still, LeftInv
      <4>2. th[v].at = "fileClaim" /\ th[v].task \in U => files'[th[v].task].blockedBy = {}
        BY <3>2, <4>1 DEF LoopThread
      <4>3. \A q \in th[v].saves : q.task \in U => th[v].task \in files'[q.task].blockedBy
        BY <3>2, <4>1 DEF LoopSaves
      <4> QED
        BY <2>0, <2>1, <3>5, <3>8, <4>1, <4>2, <4>3, OtherLoop
    <3> QED
      BY <3>9, <3>10, <3>11 DEF LeftInv
  \* The task a caller claims is left to the loops no longer.
  <2>2. CASE /\ x \in Callers /\ Happened("started")' = Happened("started")
             /\ Happened("shared")' = Happened("shared") \cup {t}
             /\ files' = [files EXCEPT ![t] = r]
    <3>1. \A u \in Tasks : u # t => files'[u] = files[u]
      BY <1>0, <2>0, <2>2 DEF StoresTyped
    <3>2. StartedTasks' = StartedTasks /\ \A v \in Loops : th'[v] = th[v]
      BY <1>w, <2>0, <2>2, ThreadKinds DEF StartedTasks, Still
    <3> SUFFICES ASSUME NEW U \in SUBSET Tasks, LeftToLoops(U)' PROVE LeftInv(U)'
      BY DEF LoopInv
    <3>3. LeftToLoops(U) /\ LeftInv(U)
      BY <2>0, <2>2, LeftBefore DEF LoopInv
    <3>4. t \notin U
      BY <2>2 DEF LeftToLoops
    <3>5. \A u \in U : files'[u] = files[u]
      BY <3>1, <3>4
    <3>6. \A b \in U : \A u : Passed(b, u) => Passed(b, u)'
      BY <3>2 DEF Passed
    <3>7. LoopFiles(U)'
      <4>1. ASSUME NEW u \in U, files'[u].status # "absent"
            PROVE  \A b \in declared[u] : Names(u, files[u], b)'
        BY <3>3, <3>5, <3>6, <4>1, StillNames DEF LeftInv
      <4> QED
        BY <2>0, <2>2, <3>2, <3>3, <3>5, <4>1 DEF LeftInv, LoopFiles
    <3>8. ASSUME NEW v \in Loops PROVE LoopThread(U, v)' /\ LoopSaves(U, v)'
      <4>1. LoopThread(U, v) /\ LoopSaves(U, v)
        BY <3>3 DEF LeftInv
      <4>2. th[v].at = "fileClaim" /\ th[v].task \in U => files'[th[v].task].blockedBy = {}
        BY <3>5, <4>1 DEF LoopThread
      <4>3. \A q \in th[v].saves : q.task \in U => th[v].task \in files'[q.task].blockedBy
        BY <3>5, <4>1 DEF LoopSaves
      <4> QED
        BY <2>0, <2>2, <3>2, <3>3, <3>6, <4>2, <4>3, OtherLoop
    <3> QED
      BY <3>7, <3>8 DEF LeftInv
  <2>3. CASE th'[x].at = "idle" /\ th'[x].saves = {} /\ UNCHANGED <<files, hist>>
    <3>1. CASE x \in Loops
      <4>1. GoesOn(x)
        BY <2>3 DEF GoesOn, Busy
      <4>2. ASSUME NEW U PROVE LoopThread(U, x)' /\ LoopSaves(U, x)'
        BY <2>3 DEF LoopThread, LoopSaves, Busy
      <4> QED
        BY <2>0, <2>3, <3>1, <4>1, <4>2, LoopMoves
    <3>2. CASE x \notin Loops
      BY <1>1, <2>0, <2>3, <3>2, NothingNew
    <3> QED
      BY <3>1, <3>2
  <2> QED
    BY <1>f, <2>1, <2>2, <2>3, FileClaimEffect DEF r
<1>a. ASSUME NEW x \in Threads, AssignTask(x) PROVE LoopInv'
  <2>1. th[x].at \in {"assign", "hand"} /\ Still(x) /\ UNCHANGED <<files, declared>>
    BY <1>a, AssignEffect
  <2>2. UNCHANGED hist \/ \A k : k # "granted" => Happened(k)' = Happened(k)
    BY <1>a, AssignEffect
  <2>3. Happened("shared")' = Happened("shared") /\ Happened("started")' = Happened("started")
    BY <2>2, NothingNew
  <2>4. x \notin Loops
    BY <2>1, ThreadKinds DEF TypeInv, Placed, Kind, LoopPlaces
  <2> QED
    BY <1>1, <2>1, <2>3, <2>4
<1>u. ASSUME AutoClaim PROVE LoopInv'
  <2>1. /\ Still("heartbeat") /\ UNCHANGED <<files, declared, hist>>
        /\ "heartbeat" \in Threads /\ "heartbeat" \notin Loops
    BY <1>u, AutoClaimEffect, ThreadKinds
  <2> QED
    BY <1>1, <2>1, NothingNew
<1>s. ASSUME NEW t \in Present, NEW s \in {"pending", "in_progress"} \cup Terminal,
             SetStatus(t, s)
      PROVE  LoopInv'
  <2>1. /\ UNCHANGED <<files, th, declared>>
        /\ Note("marked", IF s = "in_progress" THEN {t} ELSE {})
    BY <1>s DEF SetStatus
  <2>2. Happened("shared")' = Happened("shared") /\ Happened("started")' = Happened("started")
    BY <2>1, Noted
  <2> QED
    BY <2>1, <2>2, LoopsUntouched
<1>r. ASSUME Crash PROVE LoopInv'
  <2>1. /\ UNCHANGED <<created, declared, hist>>
        /\ \A w \in Loops : th'[w].at = "idle" /\ th'[w].saves = {}
    BY <1>r, ThreadKinds DEF Crash, Idle
  <2>2. \A u \in Tasks : files'[u] = files[u] \/ files'[u] = Absent
    BY <1>0, <1>r DEF Crash, StoresTyped
  <2>3. Absent.status = "absent" /\ Absent.blockedBy = {} /\ ~Claimable(Absent)
    BY DEF Absent, Claimable
  <2>4. /\ Happened("shared")' = Happened("shared")
        /\ Happened("started")' = Happened("started") /\ StartedTasks' = StartedTasks
    BY <2>1, NothingNew DEF StartedTasks
  <2> SUFFICES ASSUME NEW U \in SUBSET Tasks, LeftToLoops(U)' PROVE LeftInv(U)'
    BY DEF LoopInv
  <2>5. LeftToLoops(U) /\ LeftInv(U)
    BY <2>1, <2>4, LeftBefore DEF LoopInv
  <2>6. \A b \in U : \A u : Passed(b, u) => Passed(b, u)'
    BY <2>1, <2>4 DEF Passed, Busy
  <2>7. LoopFiles(U)'
    <3>1. ASSUME NEW u \in U, files'[u].status # "absent"
          PROVE  \A b \in declared[u] : Names(u, files[u], b)'
      <4>1. files'[u] = files[u]
        BY <2>2, <2>3, <3>1
      <4> QED
        BY <2>5, <2>6, <3>1, <4>1, StillNames DEF LeftInv
    <3>2. \A u \in U \cap StartedTasks' : ~Claimable(files'[u]) /\ files'[u].blockedBy = {}
      BY <2>2, <2>3, <2>4, <2>5 DEF LeftInv, LoopFiles
    <3> QED
      BY <2>1, <2>4, <2>5, <3>1, <3>2 DEF LeftInv, LoopFiles
  <2>8. \A w \in Loops : LoopThread(U, w)' /\ LoopSaves(U, w)'
    BY <2>1 DEF LoopThread, LoopSaves, Busy
  <2> QED
    BY <2>7, <2>8 DEF LeftInv
<1>v. ASSUME UNCHANGED vars PROVE LoopInv'
  BY <1>v, NothingNew, LoopsUntouched DEF vars
<1> QED
  BY <1>c, <1>l, <1>f, <1>a, <1>u, <1>s, <1>r, <1>v DEF Next

\* A task of a set whose tasks wait only for each other and are left to the work
\* loops is started by one loop at most.
THEOREM StartedOnce == Spec => []LoopsStartOnce
<1>1. Init => NoOthers /\ CreatorInv /\ LoopInv
  <2> SUFFICES ASSUME Init PROVE NoOthers /\ CreatorInv /\ LoopInv
    OBVIOUS
  <2>1. \A k : Happened(k) = {}
    BY DEF Init, Happened
  <2>2. \A x \in Threads : th[x].at = "idle" /\ th[x].saves = {}
    BY DEF Init, Idle
  <2>3. \A t \in Tasks : board[t] = Absent /\ files[t] = Absent
    BY DEF Init
  <2>4. NoOthers
    BY <2>2, <2>3 DEF NoOthers, Within, ThreadWithin, Absent
  <2>5. CreatorInv
    BY <2>2, ThreadKinds DEF CreatorInv, Creator, Creates, Creating
  <2>6. LoopInv
    BY <2>1, <2>2, <2>3, ThreadKinds
       DEF LoopInv, LeftInv, LoopFiles, LoopThread, LoopSaves, StartedTasks, Busy, Absent
  <2> QED
    BY <2>4, <2>5, <2>6
<1>2. LoopInv => LoopsStartOnce
  BY DEF LoopInv, LeftInv, LoopFiles, LoopsStartOnce
<1> QED
  BY <1>1, <1>2, TypeInit, TypeStep, BlockInit, BlockStep, OthersStep, CreatorStep,
     LoopsStep, PTL DEF Spec
=============================================================================
