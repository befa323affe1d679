----------------------- MODULE RoutineSchedulerProofs -----------------------
(***************************************************************************)
(* Proofs about RoutineScheduler, for any routines, intervals, windows and *)
(* limits, and any number of runs, failures, restarts and edits.           *)
(***************************************************************************)
EXTENDS RoutineScheduler, FiniteSetTheorems, TLAPS

-----------------------------------------------------------------------------
(* Types *)

Statuses == {"none", "running", "queued", "cancelled", "succeeded", "failed"}
JsonRec == [task : Routines \cup {NoTask}, status : Statuses]
RowRec == [task : Routines \cup {NoTask},
           status : {"none", "running", "succeeded", "failed"},
           trigger : {"none", "scheduled", "manual"},
           started : Nat, finished : Nat, due : Nat]
UiRec == [task : Routines, rec : Record] \cup {NoUi}

Places == {"idle", "act", "guard", "spawn", "supersede", "repoint", "retire"}

\* The type invariant by parts; an executor that is about to pause a routine has
\* a reason for it.
StoresTyped ==
  /\ store \in [Routines -> Record] /\ jsonl \in [Ids -> JsonRec]
  /\ rows \in [Runs -> RowRec] /\ spent \in [Routines -> Nat]
  /\ nextId \in 1..(MaxRuns + 1)
ClocksTyped ==
  now \in Nat /\ tickAt \in Nat /\ faults \in Nat /\ edits \in Nat
TickTyped ==
  /\ mgr \in [Routines -> Record] /\ pc \in Places /\ due \in SUBSET Due
  /\ cur \in Due \cup {NoCur}
  /\ pc \notin {"idle", "act"} => cur \in Due
  /\ pc \in {"supersede", "repoint"} => cur.started \in Runs
RunsTyped ==
  /\ live \in [Runs -> Executor] /\ ui \in UiRec
  /\ \A i \in Runs : live[i].phase # "none" => rows[i].task \in Routines
  /\ \A i \in Runs : live[i].phase \in {"load", "save"} => live[i].pause # "no"
TypeInv == StoresTyped /\ ClocksTyped /\ TickTyped /\ RunsTyped

\* The next occurrence of a cron expression is a time.
LEMMA NextTyped ==
  ASSUME NEW t \in Nat PROVE NextOccurrence(t) \in Nat
<1>1. t \div CronPeriod \in Nat
  BY NumbersAssumption
<1>2. \A a \in Nat : (a + 1) * CronPeriod \in Nat
  BY NumbersAssumption
<1> QED
  BY <1>1, <1>2 DEF NextOccurrence

\* The changes the code makes to a record.
LEMMA Edited ==
  ASSUME NEW rec \in Record
  PROVE  /\ \A m \in Modes :
              /\ [rec EXCEPT !.mode = m] \in Record
              /\ [rec EXCEPT !.mode = m].mode = m
              /\ [rec EXCEPT !.mode = m].run = rec.run
              /\ [rec EXCEPT !.mode = m].fires = rec.fires
              /\ [rec EXCEPT !.mode = m].fired = rec.fired
         /\ \A i \in Ids :
              /\ [rec EXCEPT !.run = i] \in Record
              /\ [rec EXCEPT !.run = i].mode = rec.mode
              /\ [rec EXCEPT !.run = i].run = i
              /\ [rec EXCEPT !.run = i].fires = rec.fires
              /\ [rec EXCEPT !.run = i].fired = rec.fired
  BY DEF Record

\* A record, an executor and a manager that hold nothing.
LEMMA Nothing ==
  /\ NoSnap \in Record /\ Idle \in Executor /\ Idle.phase = "none" /\ Idle.pause = "no"
  /\ NoMgr \in [Routines -> Record] /\ \A r \in Routines : NoMgr[r] = NoSnap
<1>1. NoSnap \in Record
  BY NumbersAssumption DEF NoSnap, Record, Modes, NoRun, Ids
<1>2. Idle \in Executor /\ Idle.phase = "none" /\ Idle.pause = "no"
  BY <1>1 DEF Idle, Executor
<1> QED
  BY <1>1, <1>2 DEF NoMgr

\* mark_fired_at counts the fire and notes its time.
LEMMA Marked ==
  ASSUME now \in Nat, NEW rec \in Record, NEW r \in Routines
  PROVE  /\ MarkFired(rec, r) \in Record
         /\ MarkFired(rec, r).mode = rec.mode
         /\ MarkFired(rec, r).fires = rec.fires + 1 /\ MarkFired(rec, r).fired = now
<1> DEFINE n == IF Kind[r] = "cron" THEN NextOccurrence(now) ELSE rec.next
<1>1. n \in Nat
  BY NextTyped DEF Record
<1>2. MarkFired(rec, r) = [rec EXCEPT !.fired = now, !.fires = @ + 1, !.next = n]
  BY DEF MarkFired, Record
<1> HIDE DEF n
<1>3. MarkFired(rec, r) = [mode |-> rec.mode, since |-> rec.since, fired |-> now,
                           fires |-> rec.fires + 1, next |-> n, run |-> rec.run]
  BY <1>2 DEF Record
<1>4. /\ rec.mode \in Modes /\ rec.since \in Nat /\ rec.fires + 1 \in Nat
      /\ rec.run \in Ids
  BY DEF Record
<1> QED
  BY <1>1, <1>3, <1>4 DEF Record

\* Setting or clearing `enabled` keeps the fires and the run of a record.
LEMMA Enabled ==
  ASSUME now \in Nat, NEW rec \in Record, NEW on
  PROVE  /\ SetEnabled(rec, on) \in Record /\ SetEnabled(rec, on).run = rec.run
         /\ SetEnabled(rec, on).fires = rec.fires /\ SetEnabled(rec, on).fired = rec.fired
         /\ SetEnabled(rec, on).mode \in {rec.mode, "enabled", "disabled"}
<1> DEFINE a == [rec EXCEPT !.mode = "enabled", !.since = now]
           b == [rec EXCEPT !.mode = "disabled"]
<1>1. SetEnabled(rec, on) \in {a, b, rec}
  BY DEF SetEnabled
<1>2. a \in Record /\ a.mode = "enabled" /\ a.run = rec.run /\ a.fires = rec.fires
      /\ a.fired = rec.fired
  BY DEF Record, Modes
<1>3. b \in Record /\ b.mode = "disabled" /\ b.run = rec.run /\ b.fires = rec.fires
      /\ b.fired = rec.fired
  BY DEF Record, Modes
<1> QED
  BY <1>1, <1>2, <1>3

-----------------------------------------------------------------------------
(* What the actions do *)

\* The store of one routine, the executor of one run, the row of one run.
StoreSet(r, rec) ==
  store'[r] = rec /\ \A q \in Routines : q # r => store'[q] = store[q]
LiveSet(i, e) ==
  live'[i] = e /\ \A j \in Runs : j # i => live'[j] = live[j]

\* The placeholders of the routines P have fresh ids, and tell their routines.
Handed(P, fire, id) ==
  /\ nextId' \in Nat /\ nextId <= nextId' /\ nextId' <= MaxRuns + 1
  /\ jsonl' \in [Ids -> JsonRec]
  /\ \A r \in P : id[r] \in Runs /\ nextId <= id[r] /\ id[r] < nextId'
  /\ \A r \in P : /\ jsonl'[id[r]].task = r
                  /\ jsonl'[id[r]].status = IF r \in fire THEN "running" ELSE "queued"
  /\ \A i \in Ids : (\A r \in P : id[r] # i) => jsonl'[i] = jsonl[i]

\* The manager and the due runs after a drain that handed ids to P.
Listed(P, fire, id) ==
  /\ mgr' \in [Routines -> Record] /\ due' \in SUBSET Due
  /\ \A r \in Routines \ P : mgr'[r] = store[r]
  /\ \A r \in P : mgr'[r].mode = store[r].mode /\ mgr'[r].run = id[r]
  /\ \A r \in P \cap fire : mgr'[r].fires = store[r].fires + 1 /\ mgr'[r].fired = now
  /\ \A r \in P \ fire : mgr'[r].fires = store[r].fires /\ mgr'[r].fired = store[r].fired
  /\ \A d \in due' : /\ d.task \in P /\ d.run = id[d.task] /\ d.started = NoRun
                     /\ d.queued = IF d.task \in fire THEN "no" ELSE "yes"
  /\ \A d, e \in due' : d.task = e.task => d = e
  /\ \A r \in P : \E d \in due' : d.run = id[r]

\* The placeholders get what Handed says.
LEMMA PlaceholdersEffect ==
  ASSUME TypeInv, NEW P \in SUBSET Routines, NEW fire, NEW id \in FreshIds(P),
         Placeholders(P, fire, id)
  PROVE  Handed(P, fire, id)
<1> DEFINE n == Cardinality(P)
           s(i) == IF \E r \in P \cap fire : id[r] = i THEN "running" ELSE "queued"
<1>1. n \in Nat
  <2>1. IsFiniteSet(P)
    BY RoutinesAssumption, FS_Subset
  <2> QED
    BY <2>1, FS_CardinalityType
<1>2. nextId \in Nat /\ nextId >= 1 /\ MaxRuns \in Nat
  BY NumbersAssumption DEF TypeInv, StoresTyped
<1>3. /\ id \in [P -> nextId..(nextId + n - 1)]
      /\ \A q, r \in P : id[q] = id[r] => q = r
      /\ nextId + n <= MaxRuns + 1 /\ nextId' = nextId + n
  BY DEF FreshIds, Placeholders
<1> HIDE DEF n
<1>4. \A r \in P : id[r] \in Runs /\ id[r] \in Ids /\ nextId <= id[r] /\ id[r] < nextId'
  BY <1>1, <1>2, <1>3 DEF Runs, Ids
<1>5. jsonl' = [i \in Ids |-> IF \E r \in P : id[r] = i
                 THEN [task |-> CHOOSE r \in P : id[r] = i, status |-> s(i)] ELSE jsonl[i]]
  BY DEF Placeholders
<1>6. ASSUME NEW r \in P PROVE (CHOOSE q \in P : id[q] = id[r]) = r
  BY <1>3
<1>7. \A r \in P : s(id[r]) = IF r \in fire THEN "running" ELSE "queued"
  BY <1>3
<1> HIDE DEF s
<1>8. \A r \in P : jsonl'[id[r]] = [task |-> r, status |-> IF r \in fire THEN "running" ELSE "queued"]
  BY <1>4, <1>5, <1>6, <1>7
<1>9. \A i \in Ids : (\A r \in P : id[r] # i) => jsonl'[i] = jsonl[i]
  BY <1>5
<1>10. \A i \in Ids : jsonl'[i] \in JsonRec
  <2>1. \A r \in P : [task |-> r, status |-> IF r \in fire THEN "running" ELSE "queued"] \in JsonRec
    BY DEF JsonRec, Statuses
  <2> QED
    BY <1>8, <1>9, <2>1 DEF TypeInv, StoresTyped
<1>11. jsonl' \in [Ids -> JsonRec]
  BY <1>5, <1>10
<1>12. \A r \in P : /\ jsonl'[id[r]].task = r
                    /\ jsonl'[id[r]].status = IF r \in fire THEN "running" ELSE "queued"
  <2> DEFINE St(r) == IF r \in fire THEN "running" ELSE "queued"
  <2>1. \A r \in P : jsonl'[id[r]] = [task |-> r, status |-> St(r)]
    BY <1>8
  <2> HIDE DEF St
  <2>2. ASSUME NEW r \in P PROVE jsonl'[id[r]].task = r /\ jsonl'[id[r]].status = St(r)
    <3> DEFINE q == [task |-> r, status |-> St(r)]
    <3>1. q.task = r /\ q.status = St(r)
      OBVIOUS
    <3> HIDE DEF q
    <3>2. jsonl'[id[r]] = q
      BY <2>1 DEF q
    <3> QED
      BY <3>1, <3>2
  <2> QED
    BY <2>2 DEF St
<1> QED
  BY <1>1, <1>2, <1>3, <1>4, <1>9, <1>11, <1>12 DEF Handed

\* The drain lists what is due: it hands out placeholders to routines that may
\* fire and are not blocked, or stops among them.
LEMMA DrainEffect ==
  ASSUME TypeInv, Drain
  PROVE  /\ pc = "idle" /\ tickAt' = now
         /\ UNCHANGED <<now, store, rows, cur, live, spent, ui, edits, events>>
         /\ \E P \in SUBSET Routines : \E fire, id :
              /\ \A r \in P : MayFire(r) /\ ~Blocked(r)
              /\ Handed(P, fire, id)
              /\ \/ UNCHANGED faults /\ pc' = "act" /\ Listed(P, fire, id)
                 \/ faults' = faults + 1 /\ UNCHANGED <<pc, mgr, due>>
<1>1. /\ pc = "idle" /\ tickAt' = now
      /\ UNCHANGED <<now, store, rows, cur, live, spent, ui, edits, events>>
  BY DEF Drain
<1> DEFINE m(all, fire, id) ==
             [r \in Routines |-> IF r \notin all THEN store[r]
                ELSE [(IF r \in fire THEN MarkFired(store[r], r)
                       ELSE store[r]) EXCEPT !.run = id[r]]]
           run(r, fire, id) == [task |-> r, run |-> id[r], started |-> NoRun,
                                queued |-> IF r \in fire THEN "no" ELSE "yes"]
           Good(P) == \A r \in P : MayFire(r) /\ ~Blocked(r)
<1>2. PICK D \in SUBSET Routines :
        /\ \A r \in D : MayFire(r)
        /\ LET fire == Fires(D)
               all == fire \cup Queues(D)
           IN \/ /\ NoFault /\ pc' = "act"
                 /\ \E id \in FreshIds(all) :
                      /\ Placeholders(all, fire, id)
                      /\ mgr' = m(all, fire, id)
                      /\ due' = {run(r, fire, id) : r \in all}
              \/ /\ Fault /\ UNCHANGED <<pc, mgr, due>>
                 /\ \E P \in SUBSET all \ {all} : \E id \in FreshIds(P) :
                      Placeholders(P, fire, id)
  BY Zenon DEF Drain
<1> DEFINE fire == Fires(D)
           all == fire \cup Queues(D)
<1>3. all \in SUBSET Routines /\ Good(all)
  BY <1>2 DEF Fires, Queues
<1> HIDE DEF fire, all
<1>4. CASE /\ NoFault /\ pc' = "act"
           /\ \E id \in FreshIds(all) :
                /\ Placeholders(all, fire, id)
                /\ mgr' = m(all, fire, id) /\ due' = {run(r, fire, id) : r \in all}
  <2>1. PICK id \in FreshIds(all) :
          /\ Placeholders(all, fire, id)
          /\ mgr' = m(all, fire, id) /\ due' = {run(r, fire, id) : r \in all}
    BY <1>4
  <2>2. Handed(all, fire, id)
    BY <1>3, <2>1, PlaceholdersEffect
  <2>3. \A r \in all : id[r] \in Runs /\ id[r] \in Ids
    BY <2>2 DEF Handed, Runs, Ids
  <2>4. \A r \in Routines : r \notin all => mgr'[r] = store[r]
    BY <2>1
  <2>5. ASSUME NEW r \in all
        PROVE  /\ mgr'[r] \in Record /\ mgr'[r].mode = store[r].mode /\ mgr'[r].run = id[r]
               /\ r \in fire => mgr'[r].fires = store[r].fires + 1 /\ mgr'[r].fired = now
               /\ r \notin fire => /\ mgr'[r].fires = store[r].fires
                                   /\ mgr'[r].fired = store[r].fired
    <3>1. r \in Routines /\ store[r] \in Record /\ now \in Nat
      BY <1>3 DEF TypeInv, StoresTyped, ClocksTyped
    <3>2. CASE r \in fire
      <4> DEFINE b == MarkFired(store[r], r)
      <4>1. /\ b \in Record /\ b.mode = store[r].mode /\ b.fires = store[r].fires + 1
            /\ b.fired = now
        BY <3>1, Marked
      <4> HIDE DEF b
      <4>2. mgr'[r] = [b EXCEPT !.run = id[r]]
        BY <2>1, <3>1, <3>2 DEF b
      <4> QED
        BY <2>3, <3>2, <4>1, <4>2, Edited
    <3>3. CASE r \notin fire
      <4>1. mgr'[r] = [store[r] EXCEPT !.run = id[r]]
        BY <2>1, <3>1, <3>3
      <4> QED
        BY <2>3, <3>1, <3>3, <4>1, Edited
    <3> QED
      BY <3>2, <3>3
  <2>6. mgr' \in [Routines -> Record]
    <3>1. \A r \in Routines : mgr'[r] \in Record
      BY <2>4, <2>5 DEF TypeInv, StoresTyped
    <3> QED
      BY <2>1, <3>1
  <2>7. ASSUME NEW r \in all
        PROVE  /\ run(r, fire, id) \in Due /\ run(r, fire, id).task = r
               /\ run(r, fire, id).run = id[r] /\ run(r, fire, id).started = NoRun
               /\ run(r, fire, id).queued = IF r \in fire THEN "no" ELSE "yes"
    <3>1. r \in Routines /\ NoRun \in Ids
      BY <1>3, NumbersAssumption DEF NoRun, Ids
    <3> QED
      BY <2>3, <3>1 DEF Due
  <2>12. \A r \in all : \E d \in due' : d.run = id[r]
    BY <2>1, <2>7
  <2> HIDE DEF run, m
  <2>8. \A d \in due' : /\ d \in Due /\ d.task \in all /\ d.run = id[d.task]
                        /\ d.started = NoRun /\ d = run(d.task, fire, id)
                        /\ d.queued = IF d.task \in fire THEN "no" ELSE "yes"
    BY <2>1, <2>7
  <2>9. \A d, e \in due' : d.task = e.task => d = e
    BY <2>8
  <2>10. Listed(all, fire, id)
    BY <2>4, <2>5, <2>6, <2>8, <2>9, <2>12 DEF Listed
  <2>11. UNCHANGED faults
    BY <1>4 DEF NoFault
  <2> QED
    BY <1>1, <1>3, <1>4, <2>2, <2>10, <2>11
<1>5. CASE /\ Fault /\ UNCHANGED <<pc, mgr, due>>
           /\ \E P \in SUBSET all \ {all} : \E id \in FreshIds(P) : Placeholders(P, fire, id)
  <2>1. PICK P \in SUBSET all \ {all} : \E id \in FreshIds(P) : Placeholders(P, fire, id)
    BY <1>5
  <2>2. PICK id \in FreshIds(P) : Placeholders(P, fire, id)
    BY <2>1
  <2>3. P \in SUBSET Routines /\ Good(P)
    BY <1>3, <2>1
  <2>4. Handed(P, fire, id)
    BY <2>2, <2>3, PlaceholdersEffect
  <2>5. faults' = faults + 1
    BY <1>5 DEF Fault
  <2> QED
    BY <1>1, <1>5, <2>3, <2>4, <2>5
<1> QED
  BY <1>2, <1>4, <1>5 DEF fire, all

\* A run starts with a fresh id, a running row and an executor; its record in
\* the history may be missing.
LEMMA StartEffect ==
  ASSUME TypeInv, NEW r \in Routines, NEW trigger \in {"scheduled", "manual"},
         NEW tick \in Nat, StartRun(r, trigger, tick)
  PROVE  /\ nextId \in Runs /\ nextId' = nextId + 1
         /\ rows' \in [Runs -> RowRec] /\ \A i \in Runs : i # nextId => rows'[i] = rows[i]
         /\ rows'[nextId].task = r /\ rows'[nextId].status = "running"
         /\ rows'[nextId].trigger = trigger /\ rows'[nextId].started = now
         /\ rows'[nextId].due = tick
         /\ live' \in [Runs -> Executor] /\ \A i \in Runs : i # nextId => live'[i] = live[i]
         /\ live'[nextId].phase \in {"attempt", "finish"} /\ live'[nextId].pause = "no"
         /\ live'[nextId].outcome # "ok"
         /\ jsonl' \in [Ids -> JsonRec] /\ \A i \in Ids : i # nextId => jsonl'[i] = jsonl[i]
         /\ \/ /\ UNCHANGED faults /\ jsonl'[nextId].task = r
               /\ jsonl'[nextId].status = "running"
            \/ faults' = faults + 1 /\ UNCHANGED jsonl
<1> DEFINE row == [task |-> r, status |-> "running", trigger |-> trigger,
                   started |-> now, finished |-> 0, due |-> tick]
           over == [Idle EXCEPT !.phase = "finish", !.outcome = "fail", !.budget = "over"]
           go == [Idle EXCEPT !.phase = "attempt", !.attempt = 1]
           rec == [task |-> r, status |-> "running"]
<1>1. row \in RowRec /\ rec \in JsonRec
  BY DEF RowRec, JsonRec, Statuses, TypeInv, ClocksTyped
<1>2. NoSnap \in Record
  BY Nothing
<1>3. /\ over \in Executor /\ over.phase = "finish" /\ over.pause = "no" /\ over.outcome # "ok"
      /\ go \in Executor /\ go.phase = "attempt" /\ go.pause = "no" /\ go.outcome # "ok"
  BY <1>2 DEF Idle, Executor
<1>4. /\ nextId \in Runs /\ nextId' = nextId + 1 /\ nextId \in Ids
      /\ rows' = [rows EXCEPT ![nextId] = row]
      /\ live' = [live EXCEPT ![nextId] = IF OverBudget(r) THEN over ELSE go]
      /\ \/ UNCHANGED faults /\ jsonl' = [jsonl EXCEPT ![nextId] = rec]
         \/ faults' = faults + 1 /\ UNCHANGED jsonl
  <2>1. nextId \in Runs => nextId \in Ids
    BY DEF Runs, Ids
  <2> QED
    BY <2>1, Zenon DEF StartRun, Fault, NoFault
<1>5. row.task = r /\ row.status = "running" /\ row.trigger = trigger
      /\ row.started = now /\ row.due = tick
  OBVIOUS
<1> HIDE DEF row, over, go
<1>6. /\ rows' \in [Runs -> RowRec] /\ rows'[nextId] = row
      /\ \A i \in Runs : i # nextId => rows'[i] = rows[i]
  BY <1>1, <1>4 DEF TypeInv, StoresTyped
<1>7. /\ live' \in [Runs -> Executor] /\ (live'[nextId] = over \/ live'[nextId] = go)
      /\ \A i \in Runs : i # nextId => live'[i] = live[i]
  BY <1>3, <1>4 DEF TypeInv, RunsTyped
<1>8. /\ jsonl' \in [Ids -> JsonRec] /\ \A i \in Ids : i # nextId => jsonl'[i] = jsonl[i]
      /\ \/ UNCHANGED faults /\ jsonl'[nextId] = rec
         \/ faults' = faults + 1 /\ UNCHANGED jsonl
  BY <1>1, <1>4 DEF TypeInv, StoresTyped
<1> QED
  BY <1>3, <1>4, <1>5, <1>6, <1>7, <1>8

\* Save persists what the manager knows, or fails and the run is retired.  A queued
\* run is mirrored, or not.
LEMMA SaveEffect ==
  ASSUME TypeInv, NEW d \in due, Save(d)
  PROVE  /\ pc = "act" /\ d \in Due /\ d.task \in Routines /\ due' = due \ {d}
         /\ \/ /\ faults' \in {faults, faults + 1} /\ StoreSet(d.task, mgr[d.task])
               /\ \/ d.queued = "yes" /\ UNCHANGED <<pc, cur>>
                  \/ d.queued # "yes" /\ pc' = "guard" /\ cur' = d
            \/ faults' = faults + 1 /\ pc' = "retire" /\ cur' = d /\ UNCHANGED store
         /\ store' \in [Routines -> Record]
         /\ UNCHANGED <<now, jsonl, rows, nextId, tickAt, mgr, live, spent, ui, edits, events>>
<1>1. /\ pc = "act" /\ due' = due \ {d}
      /\ \/ /\ faults' \in {faults, faults + 1}
            /\ store' = [store EXCEPT ![d.task] = mgr[d.task]]
            /\ \/ d.queued = "yes" /\ UNCHANGED <<pc, cur>>
               \/ d.queued # "yes" /\ pc' = "guard" /\ cur' = d
         \/ faults' = faults + 1 /\ pc' = "retire" /\ cur' = d /\ UNCHANGED store
      /\ UNCHANGED <<now, jsonl, rows, nextId, tickAt, mgr, live, spent, ui, edits, events>>
  BY Zenon DEF Save, Mirror, NoFault, Fault
<1>2. d \in Due /\ d.task \in Routines
  BY DEF TypeInv, TickTyped, Due
<1>3. store \in [Routines -> Record] /\ mgr[d.task] \in Record
  BY <1>2 DEF TypeInv, StoresTyped, TickTyped
<1>4. ASSUME store' = [store EXCEPT ![d.task] = mgr[d.task]]
      PROVE  StoreSet(d.task, mgr[d.task]) /\ store' \in [Routines -> Record]
  BY <1>2, <1>3, <1>4 DEF StoreSet
<1> QED
  BY <1>1, <1>2, <1>3, <1>4

\* The guard lets the run start when no young row is running, or when it cannot
\* see one.
LEMMA GuardEffect ==
  ASSUME Guard
  PROVE  /\ pc = "guard"
         /\ \/ UNCHANGED <<faults, events>> /\ pc' = "retire"
            \/ UNCHANGED <<faults, events>> /\ pc' = "spawn" /\ ~InFlight(cur.task)
            \/ /\ faults' = faults + 1 /\ pc' = "spawn"
               /\ events' = events \cup {<<"blind", cur.task>>}
         /\ UNCHANGED <<now, store, jsonl, rows, nextId, tickAt, mgr, due, cur, live, spent,
                        ui, edits>>
  BY DEF Guard, NoFault, Fault

\* Spawn starts a scheduled run and remembers it.
LEMMA SpawnEffect ==
  ASSUME TypeInv, Spawn
  PROVE  /\ pc = "spawn" /\ pc' = "supersede" /\ cur \in Due /\ cur.task \in Routines
         /\ StartRun(cur.task, "scheduled", tickAt) /\ tickAt \in Nat
         /\ cur' \in Due /\ cur'.task = cur.task /\ cur'.run = cur.run
         /\ cur'.started = nextId
         /\ UNCHANGED <<now, store, tickAt, mgr, due, spent, ui, edits, events>>
<1>1. /\ pc = "spawn" /\ pc' = "supersede" /\ cur' = [cur EXCEPT !.started = nextId]
      /\ StartRun(cur.task, "scheduled", tickAt)
      /\ UNCHANGED <<now, store, tickAt, mgr, due, spent, ui, edits, events>>
  BY DEF Spawn
<1>2. cur \in Due /\ cur.task \in Routines /\ tickAt \in Nat
  BY <1>1 DEF TypeInv, TickTyped, ClocksTyped, Due
<1>3. nextId \in Ids
  BY <1>1 DEF StartRun, Runs, Ids
<1>4. /\ cur' \in Due /\ cur'.task = cur.task /\ cur'.run = cur.run
      /\ cur'.started = nextId
  BY <1>1, <1>2, <1>3 DEF Due
<1> QED
  BY <1>1, <1>2, <1>4

\* Retire cancels the placeholder, or fails to.
LEMMA RetireEffect ==
  ASSUME TypeInv, Retire
  PROVE  /\ \/ pc = "retire" /\ pc' = "act" /\ cur' = NoCur
            \/ pc = "supersede" /\ pc' = "repoint" /\ UNCHANGED cur
         /\ cur.run \in Runs /\ jsonl' \in [Ids -> JsonRec]
         /\ \A i \in Ids : jsonl'[i].task = jsonl[i].task
         /\ \A i \in Ids : i # cur.run => jsonl'[i] = jsonl[i]
         /\ \/ faults' \in {faults, faults + 1} /\ jsonl'[cur.run].status = "cancelled"
            \/ faults' = faults + 1 /\ UNCHANGED jsonl
         /\ UNCHANGED <<now, store, rows, nextId, tickAt, mgr, due, live, spent, ui, edits,
                        events>>
<1>1. /\ \/ pc = "retire" /\ pc' = "act" /\ cur' = NoCur
         \/ pc = "supersede" /\ pc' = "repoint" /\ UNCHANGED cur
      /\ \/ /\ faults' \in {faults, faults + 1}
            /\ jsonl' = [jsonl EXCEPT ![cur.run].status = "cancelled"]
         \/ faults' = faults + 1 /\ UNCHANGED jsonl
      /\ UNCHANGED <<now, store, rows, nextId, tickAt, mgr, due, live, spent, ui, edits, events>>
  BY Zenon DEF Retire, Mirror, NoFault, Fault
<1>2. cur.run \in Runs /\ cur.run \in Ids
  BY <1>1 DEF TypeInv, TickTyped, Due, Runs, Ids
<1>3. jsonl \in [Ids -> JsonRec]
  BY DEF TypeInv, StoresTyped
<1>4. ASSUME jsonl' = [jsonl EXCEPT ![cur.run].status = "cancelled"]
      PROVE  /\ jsonl' \in [Ids -> JsonRec] /\ jsonl'[cur.run].status = "cancelled"
             /\ \A i \in Ids : jsonl'[i].task = jsonl[i].task
             /\ \A i \in Ids : i # cur.run => jsonl'[i] = jsonl[i]
  BY <1>2, <1>3, <1>4 DEF JsonRec, Statuses
<1> QED
  BY <1>1, <1>2, <1>3, <1>4

\* Repoint saves the record again, with the run that was started.
LEMMA RepointEffect ==
  ASSUME TypeInv, Repoint
  PROVE  /\ pc = "repoint" /\ pc' = "act" /\ cur' = NoCur /\ cur \in Due
         /\ cur.task \in Routines /\ mgr' \in [Routines -> Record]
         /\ \A r \in Routines : r # cur.task => mgr'[r] = mgr[r]
         /\ mgr'[cur.task].run = cur.started
         /\ mgr'[cur.task].mode = mgr[cur.task].mode
         /\ mgr'[cur.task].fires = mgr[cur.task].fires
         /\ mgr'[cur.task].fired = mgr[cur.task].fired
         /\ \/ UNCHANGED faults /\ StoreSet(cur.task, mgr'[cur.task])
            \/ faults' = faults + 1 /\ UNCHANGED store
         /\ store' \in [Routines -> Record]
         /\ UNCHANGED <<now, jsonl, rows, nextId, tickAt, due, live, spent, ui, edits, events>>
<1>1. /\ pc = "repoint" /\ pc' = "act" /\ cur' = NoCur
      /\ mgr' = [mgr EXCEPT ![cur.task].run = cur.started]
      /\ \/ UNCHANGED faults /\ store' = [store EXCEPT ![cur.task] = mgr'[cur.task]]
         \/ faults' = faults + 1 /\ UNCHANGED store
      /\ UNCHANGED <<now, jsonl, rows, nextId, tickAt, due, live, spent, ui, edits, events>>
  BY Zenon DEF Repoint, NoFault, Fault
<1>2. cur \in Due /\ cur.task \in Routines /\ cur.started \in Ids
  BY <1>1 DEF TypeInv, TickTyped, Due
<1>3. /\ mgr \in [Routines -> Record] /\ store \in [Routines -> Record]
      /\ mgr[cur.task] \in Record
  BY <1>2 DEF TypeInv, TickTyped, StoresTyped
<1> DEFINE q == [mgr[cur.task] EXCEPT !.run = cur.started]
<1>4. /\ q \in Record /\ q.run = cur.started /\ q.mode = mgr[cur.task].mode
      /\ q.fires = mgr[cur.task].fires /\ q.fired = mgr[cur.task].fired
  BY <1>2, <1>3, Edited
<1>5. mgr' = [mgr EXCEPT ![cur.task] = q]
  BY <1>1
<1> HIDE DEF q
<1>6. /\ mgr' \in [Routines -> Record] /\ mgr'[cur.task] = q
      /\ \A r \in Routines : r # cur.task => mgr'[r] = mgr[r]
  BY <1>2, <1>3, <1>4, <1>5
<1>7. ASSUME store' = [store EXCEPT ![cur.task] = q]
      PROVE  StoreSet(cur.task, q) /\ store' \in [Routines -> Record]
  BY <1>2, <1>3, <1>4, <1>7 DEF StoreSet
<1> QED
  BY <1>1, <1>2, <1>3, <1>4, <1>6, <1>7

\* The executor of one run gets e.
LEMMA LiveStep ==
  ASSUME TypeInv, NEW i \in Runs, NEW e \in Executor, live' = [live EXCEPT ![i] = e]
  PROVE  LiveSet(i, e) /\ live' \in [Runs -> Executor]
  BY DEF TypeInv, RunsTyped, LiveSet

\* An attempt ends well, is retried, or was the last.
LEMMA AttemptEffect ==
  ASSUME TypeInv, NEW i \in Runs, AttemptSucceeds(i) \/ AttemptFails(i)
  PROVE  \E e \in Executor :
           /\ live[i].phase = "attempt" /\ LiveSet(i, e) /\ live' \in [Runs -> Executor]
           /\ e.phase \in {"attempt", "finish"} /\ e.pause = live[i].pause
           /\ \/ events' = events \cup {<<"succeeded", rows[i].task>>}
              \/ UNCHANGED events /\ (e.outcome = "ok" => live[i].outcome = "ok")
           /\ UNCHANGED <<now, store, jsonl, rows, nextId, schedVars, spent, ui, faults, edits>>
<1> DEFINE ok == [live[i] EXCEPT !.phase = "finish", !.attempt = 0, !.outcome = "ok"]
           fail == [live[i] EXCEPT !.phase = "finish", !.attempt = 0, !.outcome = "fail"]
           again == [live[i] EXCEPT !.attempt = @ + 1]
<1>1. live[i] \in Executor /\ live \in [Runs -> Executor] /\ live[i].phase = "attempt"
  BY DEF TypeInv, RunsTyped, AttemptSucceeds, AttemptFails
<1>2. /\ UNCHANGED <<now, store, jsonl, rows, nextId, schedVars, spent, ui, faults, edits>>
      /\ \/ /\ live' = [live EXCEPT ![i] = ok]
            /\ events' = events \cup {<<"succeeded", rows[i].task>>}
         \/ live' = [live EXCEPT ![i] = fail] /\ UNCHANGED events
         \/ live' = [live EXCEPT ![i] = again] /\ UNCHANGED events
  BY <1>1 DEF AttemptSucceeds, AttemptFails
<1>3. ok \in Executor /\ ok.phase = "finish" /\ ok.pause = live[i].pause
  BY <1>1 DEF Executor
<1>4. /\ fail \in Executor /\ fail.phase = "finish" /\ fail.pause = live[i].pause
      /\ fail.outcome = "fail"
  BY <1>1 DEF Executor
<1>5. /\ again \in Executor /\ again.phase = "attempt" /\ again.pause = live[i].pause
      /\ again.outcome = live[i].outcome
  BY <1>1 DEF Executor
<1> HIDE DEF ok, fail, again
<1> QED
  BY <1>1, <1>2, <1>3, <1>4, <1>5, LiveStep

\* finalize_run decides the pause and revises the run's record in the history,
\* when there is one.
LEMMA HistoryEffect ==
  ASSUME TypeInv, NEW i \in Runs, FinalizeHistory(i)
  PROVE  \E e \in Executor :
           /\ live[i].phase = "finish" /\ LiveSet(i, e) /\ live' \in [Runs -> Executor]
           /\ e.phase = "row" /\ e.outcome = live[i].outcome
           /\ e.pause = "failures" => PauseDue(i)
           /\ jsonl' \in [Ids -> JsonRec]
           /\ \A j \in Ids : jsonl'[j].task = jsonl[j].task
           /\ \A j \in Ids : j # i => jsonl'[j] = jsonl[j]
           /\ jsonl[i].status = "none" => jsonl'[i].status = "none"
           /\ jsonl'[i].status \in {jsonl[i].status, Verdict(i)}
           /\ \/ UNCHANGED faults /\ jsonl'[i].status \in {"none", Verdict(i)}
              \/ faults' = faults + 1
           /\ UNCHANGED <<now, store, rows, nextId, schedVars, spent, ui, edits, events>>
<1>1. /\ live[i] \in Executor /\ live \in [Runs -> Executor] /\ jsonl \in [Ids -> JsonRec]
      /\ i \in Ids /\ jsonl[i] \in JsonRec
  BY DEF TypeInv, RunsTyped, StoresTyped, Runs, Ids
<1>2. /\ live[i].phase = "finish"
      /\ UNCHANGED <<now, store, rows, nextId, schedVars, spent, ui, edits, events>>
  BY DEF FinalizeHistory
<1>3. PICK status \in {Verdict(i), jsonl[i].status}, pause \in {PauseReason(i), BudgetReason(i)} :
        /\ Revise(i, status, pause)
        /\ (UNCHANGED faults /\ status = Verdict(i)) \/ faults' = faults + 1
  BY Zenon DEF FinalizeHistory, NoFault, Fault
<1> DEFINE e == [live[i] EXCEPT !.phase = "row", !.pause = pause]
           st == IF jsonl[i].status = "none" THEN "none" ELSE status
           q == [jsonl[i] EXCEPT !.status = st]
<1>4. pause \in {"failures", "budget", "no"} /\ (pause = "failures" => PauseDue(i))
  BY <1>3 DEF PauseReason, BudgetReason
<1>5. Verdict(i) \in {"succeeded", "failed"}
  BY DEF Verdict
<1>6. e \in Executor /\ e.phase = "row" /\ e.pause = pause /\ e.outcome = live[i].outcome
  BY <1>1, <1>4 DEF Executor
<1>7. st \in Statuses
  BY <1>1, <1>3, <1>5 DEF JsonRec, Statuses
<1>8. live' = [live EXCEPT ![i] = e] /\ jsonl' = [jsonl EXCEPT ![i] = q]
  BY <1>1, <1>3 DEF Revise
<1>9. q \in JsonRec /\ q.task = jsonl[i].task /\ q.status = st
  <2> HIDE DEF st
  <2> QED
    BY <1>1, <1>7 DEF JsonRec
<1>10. /\ st \in {jsonl[i].status, Verdict(i)} /\ (jsonl[i].status = "none" => st = "none")
       /\ (status = Verdict(i) => st \in {"none", Verdict(i)})
  BY <1>3
<1> HIDE DEF e, st, q
<1>11. LiveSet(i, e) /\ live' \in [Runs -> Executor]
  BY <1>6, <1>8, LiveStep
<1>12. /\ jsonl' \in [Ids -> JsonRec] /\ jsonl'[i] = q
       /\ \A j \in Ids : j # i => jsonl'[j] = jsonl[j]
  BY <1>1, <1>8, <1>9
<1> QED
  BY <1>2, <1>3, <1>4, <1>6, <1>9, <1>10, <1>11, <1>12

\* The row gets its verdict, unless the write fails, and the executor is done or
\* goes on to the pause.
LEMMA RowEffect ==
  ASSUME TypeInv, NEW i \in Runs, FinalizeRow(i)
  PROVE  \E e \in Executor :
           /\ live[i].phase = "row" /\ LiveSet(i, e) /\ live' \in [Runs -> Executor]
           /\ \/ e.phase = "none" /\ e.pause = "no"
              \/ /\ e.phase = "load" /\ e.pause = live[i].pause /\ e.pause # "no"
                 /\ e.outcome = live[i].outcome
           /\ rows' \in [Runs -> RowRec] /\ spent' \in [Routines -> Nat]
           /\ \A j \in Runs : j # i => rows'[j] = rows[j]
           /\ rows'[i].task = rows[i].task /\ rows'[i].trigger = rows[i].trigger
           /\ rows'[i].due = rows[i].due /\ rows'[i].started = rows[i].started
           /\ \/ UNCHANGED faults /\ rows'[i].status = Verdict(i)
              \/ faults' = faults + 1 /\ UNCHANGED rows
           /\ UNCHANGED <<now, store, jsonl, nextId, schedVars, ui, edits, events>>
<1>1. /\ live[i] \in Executor /\ live \in [Runs -> Executor] /\ rows \in [Runs -> RowRec]
      /\ rows[i] \in RowRec /\ now \in Nat /\ spent \in [Routines -> Nat]
      /\ live[i].phase # "none" => rows[i].task \in Routines
  BY DEF TypeInv, RunsTyped, StoresTyped, ClocksTyped
<1>2. /\ live[i].phase = "row"
      /\ UNCHANGED <<now, store, jsonl, nextId, schedVars, ui, edits, events>>
  BY DEF FinalizeRow
<1> DEFINE load == [live[i] EXCEPT !.phase = "load"]
           e == IF live[i].pause = "no" THEN Idle ELSE load
           q == [rows[i] EXCEPT !.status = Verdict(i), !.finished = now]
<1>3. /\ live' = [live EXCEPT ![i] = e]
      /\ \/ /\ UNCHANGED faults /\ rows' = [rows EXCEPT ![i] = q]
            /\ \E cost \in Costs(i) : spent' = [spent EXCEPT ![rows[i].task] = @ + cost]
         \/ faults' = faults + 1 /\ UNCHANGED <<rows, spent>>
  BY <1>1 DEF FinalizeRow, NoFault, Fault
<1>4. /\ load \in Executor /\ load.phase = "load" /\ load.pause = live[i].pause
      /\ load.outcome = live[i].outcome
  BY <1>1 DEF Executor
<1>6. Idle \in Executor /\ Idle.phase = "none" /\ Idle.pause = "no"
  BY Nothing
<1> HIDE DEF load
<1>7. /\ e \in Executor
      /\ \/ e.phase = "none" /\ e.pause = "no"
         \/ /\ e.phase = "load" /\ e.pause = live[i].pause /\ e.pause # "no"
            /\ e.outcome = live[i].outcome
  BY <1>4, <1>6
<1> HIDE DEF e
<1>8. Verdict(i) \in {"succeeded", "failed"}
  BY DEF Verdict
<1>9. /\ q \in RowRec /\ q.task = rows[i].task /\ q.trigger = rows[i].trigger
      /\ q.due = rows[i].due /\ q.started = rows[i].started /\ q.status = Verdict(i)
  BY <1>1, <1>8 DEF RowRec
<1> HIDE DEF q
<1>10. LiveSet(i, e) /\ live' \in [Runs -> Executor]
  BY <1>3, <1>7, LiveStep
<1>11. spent' \in [Routines -> Nat]
  <2>1. Costs(i) \subseteq Nat
    BY DEF Costs
  <2> QED
    BY <1>1, <1>2, <1>3, <2>1
<1>12. CASE UNCHANGED faults /\ rows' = [rows EXCEPT ![i] = q]
  <2>1. /\ rows' \in [Runs -> RowRec] /\ rows'[i] = q
        /\ \A j \in Runs : j # i => rows'[j] = rows[j]
    BY <1>1, <1>9, <1>12
  <2> QED
    BY <1>2, <1>7, <1>9, <1>10, <1>11, <1>12, <2>1
<1>13. CASE faults' = faults + 1 /\ UNCHANGED rows
  BY <1>1, <1>2, <1>7, <1>10, <1>11, <1>13
<1> QED
  BY <1>3, <1>12, <1>13

\* The pause loads an enabled record, or there is nothing to pause.
LEMMA LoadEffect ==
  ASSUME TypeInv, NEW i \in Runs, PauseLoad(i)
  PROVE  \E e \in Executor :
           /\ live[i].phase = "load" /\ LiveSet(i, e) /\ live' \in [Runs -> Executor]
           /\ rows[i].task \in Routines
           /\ \/ e.phase = "none" /\ e.pause = "no"
              \/ /\ e.phase = "save" /\ e.pause = live[i].pause
                 /\ e.outcome = live[i].outcome /\ e.snap = store[rows[i].task]
           /\ UNCHANGED <<now, store, jsonl, rows, nextId, schedVars, spent, ui, faults, edits,
                          events>>
<1> DEFINE r == rows[i].task
           save == [live[i] EXCEPT !.phase = "save", !.snap = store[r]]
           e == IF store[r].mode = "enabled" THEN save ELSE Idle
<1>1. /\ live[i].phase = "load" /\ live' = [live EXCEPT ![i] = e]
      /\ UNCHANGED <<now, store, jsonl, rows, nextId, schedVars, spent, ui, faults, edits, events>>
  BY DEF PauseLoad, TypeInv, RunsTyped
<1>2. live[i] \in Executor /\ r \in Routines /\ store[r] \in Record
  BY <1>1 DEF TypeInv, RunsTyped, StoresTyped
<1>3. /\ save \in Executor /\ save.phase = "save" /\ save.pause = live[i].pause
      /\ save.outcome = live[i].outcome /\ save.snap = store[r]
  BY <1>2 DEF Executor
<1>5. Idle \in Executor /\ Idle.phase = "none" /\ Idle.pause = "no"
  BY Nothing
<1> HIDE DEF save
<1>6. /\ e \in Executor
      /\ \/ e.phase = "none" /\ e.pause = "no"
         \/ /\ e.phase = "save" /\ e.pause = live[i].pause
            /\ e.outcome = live[i].outcome /\ e.snap = store[r]
  BY <1>3, <1>5
<1> HIDE DEF e
<1> QED
  BY <1>1, <1>2, <1>6, LiveStep

\* The pause saves what it has loaded, with the reason as its mode, and tells
\* when that forgets a fire.
LEMMA PauseEffect ==
  ASSUME TypeInv, NEW i \in Runs, PauseSave(i)
  PROVE  \E rec \in Record :
           /\ live[i].phase = "save" /\ LiveSet(i, Idle) /\ live' \in [Runs -> Executor]
           /\ rows[i].task \in Routines
           /\ rec.mode = live[i].pause /\ rec.mode \in {"failures", "budget"}
           /\ rec.run = live[i].snap.run /\ rec.fires = live[i].snap.fires
           /\ rec.fired = live[i].snap.fired /\ live[i].snap \in Record
           /\ \/ /\ UNCHANGED faults /\ StoreSet(rows[i].task, rec)
                 /\ events' = events \cup Forgets(rows[i].task, live[i].snap)
              \/ faults' = faults + 1 /\ UNCHANGED <<store, events>>
           /\ store' \in [Routines -> Record]
           /\ UNCHANGED <<now, jsonl, rows, nextId, schedVars, spent, ui, edits>>
<1> DEFINE r == rows[i].task
           rec == [live[i].snap EXCEPT !.mode = live[i].pause]
<1>1. /\ live[i].phase = "save" /\ live' = [live EXCEPT ![i] = Idle]
      /\ \/ /\ UNCHANGED faults /\ store' = [store EXCEPT ![r] = rec]
            /\ events' = events \cup Forgets(r, live[i].snap)
         \/ faults' = faults + 1 /\ UNCHANGED <<store, events>>
      /\ UNCHANGED <<now, jsonl, rows, nextId, schedVars, spent, ui, edits>>
  BY Zenon DEF PauseSave, NoFault, Fault
<1>2. /\ live[i] \in Executor /\ r \in Routines /\ live[i].pause # "no"
      /\ store \in [Routines -> Record]
  BY <1>1 DEF TypeInv, RunsTyped, StoresTyped
<1>3. live[i].snap \in Record /\ live[i].pause \in {"failures", "budget"}
  BY <1>2 DEF Executor
<1>4. live[i].pause \in Modes
  BY <1>3 DEF Modes
<1>5. /\ rec \in Record /\ rec.mode = live[i].pause /\ rec.run = live[i].snap.run
      /\ rec.fires = live[i].snap.fires /\ rec.fired = live[i].snap.fired
  BY <1>3, <1>4, Edited
<1> HIDE DEF rec
<1>7. Idle \in Executor
  BY Nothing
<1>8. ASSUME store' = [store EXCEPT ![r] = rec]
      PROVE  StoreSet(r, rec) /\ store' \in [Routines -> Record]
  BY <1>2, <1>5, <1>8 DEF StoreSet
<1> QED
  BY <1>1, <1>2, <1>3, <1>5, <1>7, <1>8, LiveStep

\* An edit loads a record that is there.
LEMMA EditLoadEffect ==
  ASSUME TypeInv, NEW r \in Routines, EditLoad(r)
  PROVE  /\ ui' \in UiRec /\ ui'.task = r /\ ui'.rec = store[r]
         /\ store[r].mode # "deleted" /\ edits' \in Nat
         /\ UNCHANGED <<now, store, jsonl, rows, nextId, schedVars, live, spent, faults, events>>
<1>1. /\ ui' = [task |-> r, rec |-> store[r]] /\ store[r].mode # "deleted"
      /\ edits' = edits + 1
      /\ UNCHANGED <<now, store, jsonl, rows, nextId, schedVars, live, spent, faults, events>>
  BY DEF EditLoad, Present
<1>2. store[r] \in Record /\ edits \in Nat
  BY DEF TypeInv, StoresTyped, ClocksTyped
<1> QED
  BY <1>1, <1>2 DEF UiRec

\* An edit saves what it has loaded, with `enabled` set or left alone, and tells
\* when that forgets a fire.
LEMMA EditSaveEffect ==
  ASSUME TypeInv, EditSave
  PROVE  \E rec \in Record :
           /\ ui # NoUi /\ ui.task \in Routines /\ ui.rec \in Record /\ ui' = NoUi
           /\ rec.mode \in {ui.rec.mode, "enabled", "disabled"} /\ rec.run = ui.rec.run
           /\ rec.fires = ui.rec.fires /\ rec.fired = ui.rec.fired
           /\ \/ /\ UNCHANGED faults /\ StoreSet(ui.task, rec)
                 /\ events' = events \cup Forgets(ui.task, ui.rec)
              \/ faults' = faults + 1 /\ UNCHANGED <<store, events>>
           /\ store' \in [Routines -> Record]
           /\ UNCHANGED <<now, jsonl, rows, nextId, schedVars, live, spent, edits>>
<1>1. /\ ui.task # NoTask /\ ui' = NoUi
      /\ UNCHANGED <<now, jsonl, rows, nextId, schedVars, live, spent, edits>>
  BY DEF EditSave
<1>2. PICK on :
        \/ /\ UNCHANGED faults /\ store' = [store EXCEPT ![ui.task] = SetEnabled(ui.rec, on)]
           /\ events' = events \cup Forgets(ui.task, ui.rec)
        \/ faults' = faults + 1 /\ UNCHANGED <<store, events>>
  BY Zenon DEF EditSave, NoFault, Fault
<1>3. ui # NoUi /\ ui.task \in Routines /\ ui.rec \in Record
  <2>1. NoUi.task = NoTask
    BY DEF NoUi
  <2>2. ui \in [task : Routines, rec : Record]
    BY <1>1, <2>1 DEF TypeInv, RunsTyped, UiRec
  <2> QED
    BY <1>1, <2>1, <2>2
<1> DEFINE rec == SetEnabled(ui.rec, on)
<1>4. now \in Nat /\ store \in [Routines -> Record]
  BY DEF TypeInv, ClocksTyped, StoresTyped
<1>5. /\ rec \in Record /\ rec.mode \in {ui.rec.mode, "enabled", "disabled"}
      /\ rec.run = ui.rec.run /\ rec.fires = ui.rec.fires /\ rec.fired = ui.rec.fired
  BY <1>3, <1>4, Enabled
<1> HIDE DEF rec
<1>6. ASSUME store' = [store EXCEPT ![ui.task] = rec]
      PROVE  StoreSet(ui.task, rec) /\ store' \in [Routines -> Record]
  BY <1>3, <1>4, <1>5, <1>6 DEF StoreSet
<1> QED
  BY <1>1, <1>2, <1>3, <1>4, <1>5, <1>6 DEF rec

\* A deleted routine keeps the other fields of its record.
LEMMA DeleteEffect ==
  ASSUME TypeInv, NEW r \in Routines, DeleteTask(r)
  PROVE  \E rec \in Record :
           /\ rec.mode = "deleted" /\ rec.run = store[r].run /\ rec.fires = store[r].fires
           /\ rec.fired = store[r].fired /\ StoreSet(r, rec)
           /\ store' \in [Routines -> Record] /\ edits' \in Nat
           /\ events' = events \cup {<<"deleted", r>>}
           /\ UNCHANGED <<now, jsonl, rows, nextId, schedVars, live, spent, ui, faults>>
<1> DEFINE rec == [store[r] EXCEPT !.mode = "deleted"]
<1>1. store \in [Routines -> Record] /\ store[r] \in Record /\ "deleted" \in Modes
  BY DEF TypeInv, StoresTyped, Modes
<1>2. /\ store' = [store EXCEPT ![r] = rec] /\ edits' = edits + 1
      /\ events' = events \cup {<<"deleted", r>>}
      /\ UNCHANGED <<now, jsonl, rows, nextId, schedVars, live, spent, ui, faults>>
  BY DEF DeleteTask
<1>3. /\ rec \in Record /\ rec.mode = "deleted" /\ rec.run = store[r].run
      /\ rec.fires = store[r].fires /\ rec.fired = store[r].fired
  BY <1>1, Edited
<1> HIDE DEF rec
<1>4. StoreSet(r, rec) /\ store' \in [Routines -> Record]
  BY <1>1, <1>2, <1>3 DEF StoreSet
<1>5. edits' \in Nat
  BY <1>2 DEF TypeInv, ClocksTyped
<1> QED
  BY <1>2, <1>3, <1>4, <1>5

\* A crash forgets the tick, the edit and the executors, and may tear a record,
\* which keeps its other fields.
LEMMA CrashEffect ==
  ASSUME TypeInv, Crash
  PROVE  /\ faults' = faults + 1 /\ ui' = NoUi /\ live' = [i \in Runs |-> Idle]
         /\ pc' = "idle" /\ mgr' = NoMgr /\ due' = {} /\ cur' = NoCur
         /\ store' \in [Routines -> Record]
         /\ \A r \in Routines :
              /\ store'[r].mode \in {store[r].mode, "torn"} /\ store'[r].run = store[r].run
              /\ store'[r].fires = store[r].fires /\ store'[r].fired = store[r].fired
         /\ UNCHANGED <<now, jsonl, rows, nextId, tickAt, spent, edits, events>>
<1>1. /\ faults' = faults + 1 /\ ui' = NoUi /\ live' = [i \in Runs |-> Idle]
      /\ pc' = "idle" /\ mgr' = NoMgr /\ due' = {} /\ cur' = NoCur
      /\ UNCHANGED <<now, jsonl, rows, nextId, tickAt, spent, edits, events>>
      /\ UNCHANGED store \/ \E r \in PendingSaves : store' = [store EXCEPT ![r].mode = "torn"]
  BY DEF Crash, Fault, ForgetTick
<1>2. PendingSaves \subseteq Routines
  BY DEF PendingSaves, TypeInv, TickTyped, RunsTyped, Due
<1>3. store \in [Routines -> Record] /\ "torn" \in Modes
  BY DEF TypeInv, StoresTyped, Modes
<1>4. ASSUME NEW r \in Routines, store' = [store EXCEPT ![r].mode = "torn"]
      PROVE  /\ store' \in [Routines -> Record]
             /\ \A q \in Routines :
                  /\ store'[q].mode \in {store[q].mode, "torn"} /\ store'[q].run = store[q].run
                  /\ store'[q].fires = store[q].fires /\ store'[q].fired = store[q].fired
  <2> DEFINE rec == [store[r] EXCEPT !.mode = "torn"]
  <2>1. /\ rec \in Record /\ rec.mode = "torn" /\ rec.run = store[r].run
        /\ rec.fires = store[r].fires /\ rec.fired = store[r].fired
    BY <1>3, Edited
  <2>2. store' = [store EXCEPT ![r] = rec]
    BY <1>4
  <2> HIDE DEF rec
  <2> QED
    BY <1>3, <2>1, <2>2
<1> QED
  BY <1>1, <1>2, <1>3, <1>4

\* A trigger starts a manual run.
LEMMA TriggerEffect ==
  ASSUME TypeInv, NEW r \in Routines, Trigger(r)
  PROVE  /\ StartRun(r, "manual", 0) /\ edits' \in Nat
         /\ UNCHANGED <<now, store, schedVars, spent, ui, events>>
  BY DEF Trigger, TypeInv, ClocksTyped

\* The invariant holds at first.
LEMMA TypeInit == Init => TypeInv
<1> SUFFICES ASSUME Init PROVE TypeInv
  OBVIOUS
<1>1. \A r \in Routines : New(r) \in Record
  <2>1. NextOccurrence(0) \in Nat
    BY NextTyped
  <2> QED
    BY <2>1, NumbersAssumption DEF New, Record, Modes, NoRun, Ids
<1>2. NoRow \in RowRec /\ [task |-> NoTask, status |-> "none"] \in JsonRec
  BY DEF NoRow, RowRec, JsonRec, Statuses
<1>3. StoresTyped
  BY <1>1, <1>2, NumbersAssumption DEF Init, StoresTyped
<1>4. ClocksTyped /\ TickTyped
  BY Nothing DEF Init, ClocksTyped, TickTyped, Places
<1>5. RunsTyped
  BY Nothing DEF Init, RunsTyped, UiRec
<1> QED
  BY <1>3, <1>4, <1>5 DEF TypeInv

\* A step that leaves the executors' types alone.
LEMMA RunsStay ==
  ASSUME RunsTyped, live' = live, ui' \in UiRec,
         \A i \in Runs : rows'[i].task = rows[i].task
  PROVE  RunsTyped'
  BY DEF RunsTyped

\* Every step keeps the types.
LEMMA TypeStep == TypeInv /\ [Next]_vars => TypeInv'
<1> SUFFICES ASSUME TypeInv, [Next]_vars PROVE TypeInv'
  OBVIOUS
<1>0. /\ StoresTyped /\ ClocksTyped /\ TickTyped /\ RunsTyped /\ ui \in UiRec
      /\ faults \in Nat /\ faults + 1 \in Nat /\ nextId \in Nat /\ MaxRuns \in Nat
  BY NumbersAssumption DEF TypeInv, RunsTyped, ClocksTyped, StoresTyped
\* An executor moves.
<1>1. ASSUME NEW i \in Runs, NEW e, LiveSet(i, e), live' \in [Runs -> Executor], UNCHANGED ui,
             \A j \in Runs : rows'[j].task = rows[j].task,
             live[i].phase # "none",
             e.phase \in {"load", "save"} => e.pause # "no"
      PROVE  RunsTyped'
  BY <1>0, <1>1 DEF RunsTyped, LiveSet
\* A run starts.
<1>2. ASSUME NEW r \in Routines, NEW trigger \in {"scheduled", "manual"}, NEW tick \in Nat,
             StartRun(r, trigger, tick), UNCHANGED <<store, spent, ui>>
      PROVE  StoresTyped' /\ RunsTyped' /\ faults' \in Nat
  <2>1. /\ nextId \in Runs /\ nextId' = nextId + 1 /\ rows' \in [Runs -> RowRec]
        /\ live' \in [Runs -> Executor] /\ jsonl' \in [Ids -> JsonRec]
        /\ rows'[nextId].task = r /\ live'[nextId].phase \in {"attempt", "finish"}
        /\ \A i \in Runs : i # nextId => rows'[i] = rows[i] /\ live'[i] = live[i]
        /\ faults' = faults \/ faults' = faults + 1
    BY <1>2, StartEffect
  <2>2. StoresTyped'
    BY <1>0, <1>2, <2>1 DEF StoresTyped, Runs
  <2>3. RunsTyped'
    BY <1>0, <1>2, <2>1 DEF RunsTyped
  <2> QED
    BY <1>0, <2>1, <2>2, <2>3
<1>3. CASE Advance
  <2>1. now' \in Nat
    BY <1>0, <1>3 DEF Advance, ClocksTyped
  <2> QED
    BY <1>0, <1>3, <2>1
       DEF Advance, schedVars, TypeInv, StoresTyped, ClocksTyped, TickTyped, RunsTyped
<1>4. CASE Drain
  <2>1. /\ tickAt' = now /\ pc = "idle"
        /\ UNCHANGED <<now, store, rows, cur, live, spent, ui, edits, events>>
    BY <1>4, DrainEffect
  <2>2. PICK P, fire, id : /\ Handed(P, fire, id)
                           /\ \/ UNCHANGED faults /\ pc' = "act" /\ Listed(P, fire, id)
                              \/ faults' = faults + 1 /\ UNCHANGED <<pc, mgr, due>>
    BY <1>4, DrainEffect
  <2>3. StoresTyped'
    BY <1>0, <2>1, <2>2 DEF Handed, StoresTyped
  <2>4. ClocksTyped'
    BY <1>0, <2>1, <2>2 DEF ClocksTyped
  <2>5. TickTyped'
    BY <1>0, <2>1, <2>2 DEF TickTyped, Listed, Places
  <2>6. RunsTyped'
    BY <1>0, <2>1, RunsStay
  <2> QED
    BY <2>3, <2>4, <2>5, <2>6 DEF TypeInv
<1>5. ASSUME NEW d \in due, Save(d) PROVE TypeInv'
  <2>1. /\ d \in Due /\ due' = due \ {d} /\ store' \in [Routines -> Record]
        /\ faults' \in {faults, faults + 1}
        /\ \/ UNCHANGED <<pc, cur>>
           \/ pc' = "guard" /\ cur' = d
           \/ pc' = "retire" /\ cur' = d
        /\ UNCHANGED <<now, jsonl, rows, nextId, tickAt, mgr, live, spent, ui, edits, events>>
    BY <1>5, SaveEffect
  <2>2. StoresTyped' /\ ClocksTyped'
    BY <1>0, <2>1 DEF StoresTyped, ClocksTyped
  <2>3. TickTyped'
    BY <1>0, <2>1 DEF TickTyped, Places
  <2>4. RunsTyped'
    BY <1>0, <2>1, RunsStay
  <2> QED
    BY <2>2, <2>3, <2>4 DEF TypeInv
<1>6. CASE Guard \/ SpawnFails
  <2>1. /\ pc \in {"guard", "spawn"} /\ pc' \in {"retire", "spawn"}
        /\ faults' = faults \/ faults' = faults + 1
        /\ UNCHANGED <<now, store, jsonl, rows, nextId, tickAt, mgr, due, cur, live, spent, ui,
                       edits>>
    BY <1>6, GuardEffect DEF SpawnFails, Fault
  <2>2. StoresTyped' /\ ClocksTyped'
    BY <1>0, <2>1 DEF StoresTyped, ClocksTyped
  <2>3. TickTyped'
    BY <1>0, <2>1 DEF TickTyped, Places
  <2>4. RunsTyped'
    BY <1>0, <2>1, RunsStay
  <2> QED
    BY <2>2, <2>3, <2>4 DEF TypeInv
<1>7. CASE Spawn
  <2>1. /\ pc' = "supersede" /\ cur.task \in Routines
        /\ StartRun(cur.task, "scheduled", tickAt) /\ tickAt \in Nat
        /\ cur' \in Due /\ cur'.started = nextId
        /\ UNCHANGED <<now, store, tickAt, mgr, due, spent, ui, edits, events>>
    BY <1>7, SpawnEffect
  <2>2. StoresTyped' /\ RunsTyped' /\ faults' \in Nat
    BY <1>2, <2>1
  <2>3. ClocksTyped'
    BY <1>0, <2>1, <2>2 DEF ClocksTyped
  <2>4. TickTyped'
    BY <1>0, <2>1 DEF TickTyped, Places, StartRun
  <2> QED
    BY <2>2, <2>3, <2>4 DEF TypeInv
<1>8. CASE Retire
  <2>1. /\ \/ pc' = "act" /\ cur' = NoCur
           \/ pc = "supersede" /\ pc' = "repoint" /\ UNCHANGED cur
        /\ jsonl' \in [Ids -> JsonRec] /\ (faults' = faults \/ faults' = faults + 1)
        /\ UNCHANGED <<now, store, rows, nextId, tickAt, mgr, due, live, spent, ui, edits,
                       events>>
    BY <1>8, RetireEffect
  <2>2. StoresTyped' /\ ClocksTyped'
    BY <1>0, <2>1 DEF StoresTyped, ClocksTyped
  <2>3. TickTyped'
    BY <1>0, <2>1 DEF TickTyped, Places
  <2>4. RunsTyped'
    BY <1>0, <2>1, RunsStay
  <2> QED
    BY <2>2, <2>3, <2>4 DEF TypeInv
<1>9. CASE Repoint
  <2>1. /\ pc' = "act" /\ cur' = NoCur /\ mgr' \in [Routines -> Record]
        /\ store' \in [Routines -> Record] /\ (faults' = faults \/ faults' = faults + 1)
        /\ UNCHANGED <<now, jsonl, rows, nextId, tickAt, due, live, spent, ui, edits, events>>
    BY <1>9, RepointEffect
  <2>2. StoresTyped' /\ ClocksTyped'
    BY <1>0, <2>1 DEF StoresTyped, ClocksTyped
  <2>3. TickTyped'
    BY <1>0, <2>1 DEF TickTyped, Places
  <2>4. RunsTyped'
    BY <1>0, <2>1, RunsStay
  <2> QED
    BY <2>2, <2>3, <2>4 DEF TypeInv
<1>10. CASE ActDone
  <2>1. /\ pc' = "idle" /\ mgr' = NoMgr /\ due' = {} /\ cur' = NoCur
        /\ UNCHANGED <<now, store, jsonl, rows, nextId, tickAt, live, spent, ui, faults, edits,
                       events>>
    BY <1>10 DEF ActDone, ForgetTick
  <2>2. StoresTyped' /\ ClocksTyped'
    BY <1>0, <2>1 DEF StoresTyped, ClocksTyped
  <2>3. TickTyped'
    BY <2>1, Nothing DEF TickTyped, Places
  <2>4. RunsTyped'
    BY <1>0, <2>1, RunsStay
  <2> QED
    BY <2>2, <2>3, <2>4 DEF TypeInv
<1>t. ASSUME UNCHANGED schedVars PROVE TickTyped'
  BY <1>0, <1>t DEF schedVars, TickTyped
<1>11. ASSUME NEW i \in Runs, ExecutorStep(i) PROVE TypeInv'
  <2>t. UNCHANGED schedVars /\ UNCHANGED <<now, nextId, ui, edits>>
    BY <1>11 DEF ExecutorStep, Attempt, Finalize, AttemptSucceeds, AttemptFails,
           FinalizeHistory, FinalizeRow,
                 PauseLoad, PauseSave
  <2>c. ASSUME faults' = faults \/ faults' = faults + 1 PROVE ClocksTyped'
    BY <1>0, <2>t, <2>c DEF ClocksTyped, schedVars
  <2>1. CASE AttemptSucceeds(i) \/ AttemptFails(i)
    <3>1. PICK e \in Executor :
            /\ live[i].phase = "attempt" /\ LiveSet(i, e) /\ live' \in [Runs -> Executor]
            /\ e.phase \in {"attempt", "finish"}
            /\ UNCHANGED <<store, jsonl, rows, nextId, spent, faults>>
      BY <2>1, AttemptEffect
    <3>2. RunsTyped'
      BY <1>1, <2>t, <3>1
    <3> QED
      BY <1>0, <1>t, <2>t, <2>c, <3>1, <3>2 DEF TypeInv, StoresTyped
  <2>2. CASE FinalizeHistory(i)
    <3>1. PICK e \in Executor :
            /\ live[i].phase = "finish" /\ LiveSet(i, e) /\ live' \in [Runs -> Executor]
            /\ e.phase = "row" /\ jsonl' \in [Ids -> JsonRec]
            /\ faults' = faults \/ faults' = faults + 1
            /\ UNCHANGED <<store, rows, nextId, spent>>
      BY <2>2, HistoryEffect
    <3>2. RunsTyped'
      BY <1>1, <2>t, <3>1
    <3> QED
      BY <1>0, <1>t, <2>t, <2>c, <3>1, <3>2 DEF TypeInv, StoresTyped
  <2>3. CASE FinalizeRow(i)
    <3>1. PICK e \in Executor :
            /\ live[i].phase = "row" /\ LiveSet(i, e) /\ live' \in [Runs -> Executor]
            /\ e.phase \in {"load", "save"} => e.pause # "no"
            /\ rows' \in [Runs -> RowRec] /\ spent' \in [Routines -> Nat]
            /\ \A j \in Runs : rows'[j].task = rows[j].task
            /\ faults' = faults \/ faults' = faults + 1
            /\ UNCHANGED <<store, jsonl, nextId>>
      <4>1. PICK e \in Executor :
              /\ live[i].phase = "row" /\ LiveSet(i, e) /\ live' \in [Runs -> Executor]
              /\ \/ e.phase = "none" /\ e.pause = "no"
                 \/ e.phase = "load" /\ e.pause # "no"
              /\ rows' \in [Runs -> RowRec] /\ spent' \in [Routines -> Nat]
              /\ \A j \in Runs : j # i => rows'[j] = rows[j]
              /\ rows'[i].task = rows[i].task
              /\ faults' = faults \/ faults' = faults + 1
              /\ UNCHANGED <<store, jsonl, nextId>>
        BY <2>3, RowEffect
      <4> QED
        BY <4>1
    <3>2. RunsTyped'
      BY <1>1, <2>t, <3>1
    <3> QED
      BY <1>0, <1>t, <2>t, <2>c, <3>1, <3>2 DEF TypeInv, StoresTyped
  <2>4. CASE PauseLoad(i)
    <3>1. PICK e \in Executor :
            /\ live[i].phase = "load" /\ LiveSet(i, e) /\ live' \in [Runs -> Executor]
            /\ e.phase = "none" \/ (e.phase = "save" /\ e.pause = live[i].pause)
            /\ UNCHANGED <<store, jsonl, rows, nextId, spent, faults>>
      BY <2>4, LoadEffect
    <3>2. live[i].pause # "no"
      BY <1>0, <3>1 DEF RunsTyped
    <3>3. RunsTyped'
      BY <1>1, <2>t, <3>1, <3>2
    <3> QED
      BY <1>0, <1>t, <2>t, <2>c, <3>1, <3>3 DEF TypeInv, StoresTyped
  <2>5. CASE PauseSave(i)
    <3>1. /\ live[i].phase = "save" /\ LiveSet(i, Idle) /\ live' \in [Runs -> Executor]
          /\ store' \in [Routines -> Record]
          /\ faults' = faults \/ faults' = faults + 1
          /\ UNCHANGED <<jsonl, rows, nextId, spent>>
      BY <2>5, PauseEffect
    <3>2. RunsTyped'
      BY <1>1, <2>t, <3>1, Nothing
    <3> QED
      BY <1>0, <1>t, <2>t, <2>c, <3>1, <3>2 DEF TypeInv, StoresTyped
  <2> QED
    BY <1>11, <2>1, <2>2, <2>3, <2>4, <2>5 DEF ExecutorStep, Attempt, Finalize
<1>12. ASSUME NEW r \in Routines, EditLoad(r) PROVE TypeInv'
  <2>1. /\ ui' \in UiRec /\ edits' \in Nat
        /\ UNCHANGED <<now, store, jsonl, rows, nextId, schedVars, live, spent, faults>>
    BY <1>12, EditLoadEffect
  <2>2. RunsTyped'
    BY <1>0, <2>1, RunsStay
  <2> QED
    BY <1>0, <1>t, <2>1, <2>2 DEF TypeInv, StoresTyped, ClocksTyped, schedVars
<1>13. CASE EditSave
  <2>1. /\ ui' = NoUi /\ store' \in [Routines -> Record]
        /\ faults' = faults \/ faults' = faults + 1
        /\ UNCHANGED <<now, jsonl, rows, nextId, schedVars, live, spent, edits>>
    BY <1>13, EditSaveEffect
  <2>2. RunsTyped'
    BY <1>0, <2>1, RunsStay DEF UiRec
  <2> QED
    BY <1>0, <1>t, <2>1, <2>2 DEF TypeInv, StoresTyped, ClocksTyped, schedVars
<1>14. ASSUME NEW r \in Routines, DeleteTask(r) PROVE TypeInv'
  <2>1. /\ store' \in [Routines -> Record] /\ edits' \in Nat
        /\ UNCHANGED <<now, jsonl, rows, nextId, schedVars, live, spent, ui, faults>>
    BY <1>14, DeleteEffect
  <2>2. RunsTyped'
    BY <1>0, <2>1, RunsStay
  <2> QED
    BY <1>0, <1>t, <2>1, <2>2 DEF TypeInv, StoresTyped, ClocksTyped, schedVars
<1>15. ASSUME NEW r \in Routines, Trigger(r) PROVE TypeInv'
  <2>1. /\ StartRun(r, "manual", 0) /\ edits' \in Nat
        /\ UNCHANGED <<now, store, schedVars, spent, ui>>
    BY <1>15, TriggerEffect
  <2>2. StoresTyped' /\ RunsTyped' /\ faults' \in Nat
    BY <1>2, <2>1
  <2> QED
    BY <1>0, <1>t, <2>1, <2>2 DEF TypeInv, ClocksTyped, schedVars
<1>16. CASE Crash
  <2>1. /\ faults' = faults + 1 /\ ui' = NoUi /\ live' = [i \in Runs |-> Idle]
        /\ pc' = "idle" /\ mgr' = NoMgr /\ due' = {} /\ cur' = NoCur
        /\ store' \in [Routines -> Record]
        /\ UNCHANGED <<now, jsonl, rows, nextId, tickAt, spent, edits>>
    BY <1>16, CrashEffect
  <2>2. StoresTyped' /\ ClocksTyped'
    BY <1>0, <2>1 DEF StoresTyped, ClocksTyped
  <2>3. TickTyped'
    BY <2>1, Nothing DEF TickTyped, Places
  <2>4. RunsTyped'
    BY <2>1, Nothing DEF RunsTyped, UiRec
  <2> QED
    BY <2>2, <2>3, <2>4 DEF TypeInv
<1>17. CASE UNCHANGED vars
  BY <1>0, <1>17
     DEF vars, TypeInv, StoresTyped, ClocksTyped, TickTyped, RunsTyped
<1> QED
  BY <1>3, <1>4, <1>5, <1>6, <1>7, <1>8, <1>9, <1>10, <1>11, <1>12, <1>13, <1>14, <1>15,
     <1>16, <1>17 DEF Next, SchedulerStep, UserStep

-----------------------------------------------------------------------------
(* Run ids *)

\* Nothing is stored of a run whose id is not given out yet, and an executor
\* that has not written its row finds it running.  A placeholder has its record
\* in the history.
Unused(i) == rows[i] = NoRow /\ live[i].phase = "none" /\ jsonl[i].status = "none"
Writes(e) == e.phase \in {"attempt", "finish", "row"}
Handled(i) == i < nextId /\ jsonl[i].status # "none"
IdInv ==
  /\ \A i \in Runs : i >= nextId => Unused(i)
  /\ jsonl[NoRun].status = "none"
  /\ \A i \in Runs : Writes(live[i]) => rows[i].status = "running"
  /\ \A d \in due : Handled(d.run)
  /\ pc \notin {"idle", "act"} => Handled(cur.run)

\* The invariant holds at first.
LEMMA IdInit == Init => IdInv
<1> SUFFICES ASSUME Init PROVE IdInv
  OBVIOUS
<1>1. Runs \subseteq Ids /\ NoRun \in Ids
  BY NumbersAssumption DEF Runs, Ids, NoRun
<1>2. \A i \in Ids : jsonl[i].status = "none"
  BY DEF Init
<1>3. \A i \in Runs : live[i].phase = "none" /\ rows[i] = NoRow
  BY Nothing DEF Init
<1>4. pc = "idle" /\ due = {}
  BY DEF Init
<1> QED
  BY <1>1, <1>2, <1>3, <1>4 DEF IdInv, Unused, Writes

\* An executor runs under an id that was given out.
LEMMA GivenOut ==
  ASSUME IdInv, NEW i \in Runs, live[i].phase # "none", nextId \in Nat
  PROVE  i < nextId
<1>1. i \in Nat
  BY DEF Runs
<1> QED
  BY <1>1 DEF IdInv, Unused

\* IdInv after a step of one executor.
LEMMA IdsExecute ==
  ASSUME TypeInv, IdInv, NEW i \in Runs, live[i].phase # "none", NEW e, LiveSet(i, e),
         Writes(e) => rows'[i].status = "running",
         \A j \in Runs : j # i => rows'[j] = rows[j] /\ jsonl'[j] = jsonl[j],
         jsonl[i].status # "none" => jsonl'[i].status # "none",
         UNCHANGED <<nextId, schedVars>>, jsonl'[NoRun] = jsonl[NoRun]
  PROVE  IdInv'
<1>1. i < nextId /\ nextId \in Nat /\ Runs \subseteq Nat
  BY GivenOut DEF TypeInv, StoresTyped, Runs
<1>2. \A j \in Runs : j >= nextId => j # i
  BY <1>1
<1>3. \A j \in Runs : j >= nextId => Unused(j)'
  BY <1>2 DEF IdInv, Unused, LiveSet
<1>4. \A j \in Runs : Writes(live'[j]) => rows'[j].status = "running"
  BY DEF IdInv, LiveSet
<1>5. \A j \in Runs : Handled(j) => Handled(j)'
  BY DEF Handled
<1>6. (\A d \in due : d.run \in Runs) /\ (pc \notin {"idle", "act"} => cur.run \in Runs)
  BY DEF TypeInv, TickTyped, Due
<1>7. (\A d \in due : Handled(d.run))' /\ (pc' \notin {"idle", "act"} => Handled(cur.run)')
  BY <1>5, <1>6 DEF IdInv, schedVars, Handled
<1> QED
  BY <1>3, <1>4, <1>7 DEF IdInv, Writes

\* IdInv after a run is started.
LEMMA IdsStart ==
  ASSUME TypeInv, IdInv, NEW r \in Routines, NEW trigger \in {"scheduled", "manual"},
         NEW tick \in Nat, StartRun(r, trigger, tick), UNCHANGED due,
         pc' \notin {"idle", "act"} => cur'.run = cur.run /\ pc \notin {"idle", "act"},
         cur \in Due \cup {NoCur}
  PROVE  IdInv'
<1>1. /\ nextId \in Runs /\ nextId' = nextId + 1 /\ nextId \in Nat /\ Runs \subseteq Nat
      /\ rows'[nextId].status = "running" /\ NoRun \in Ids /\ NoRun # nextId
      /\ Runs \subseteq Ids
      /\ \A i \in Runs : i # nextId => rows'[i] = rows[i] /\ live'[i] = live[i]
      /\ \A i \in Ids : i # nextId => jsonl'[i] = jsonl[i]
  BY StartEffect, NumbersAssumption DEF Runs, Ids, NoRun
<1>2. ASSUME NEW i \in Runs, i >= nextId' PROVE i >= nextId /\ i # nextId
  <2>1. i \in Nat /\ nextId \in Nat /\ nextId' = nextId + 1
    BY <1>1
  <2> QED
    BY <1>2, <2>1
<1>3. \A i \in Runs : i >= nextId' => Unused(i)'
  BY <1>1, <1>2 DEF IdInv, Unused
<1>4. \A i \in Runs : Writes(live'[i]) => rows'[i].status = "running"
  BY <1>1 DEF IdInv, Writes
<1>h. ASSUME NEW i \in Runs, Handled(i) PROVE Handled(i)'
  <2>1. i \in Nat /\ i # nextId /\ i \in Ids
    BY <1>1, <1>h DEF Handled
  <2> QED
    BY <1>1, <1>h, <2>1 DEF Handled
<1>5. \A d \in due' : Handled(d.run)'
  <2>1. \A d \in due : d.run \in Runs /\ Handled(d.run)
    BY <1>1 DEF IdInv, TypeInv, TickTyped, Due
  <2> QED
    BY <1>h, <2>1
<1>6. pc' \notin {"idle", "act"} => Handled(cur.run)'
  <2>1. pc \notin {"idle", "act"} => cur.run \in Runs /\ Handled(cur.run)
    BY <1>1 DEF IdInv, TypeInv, TickTyped, Due
  <2> QED
    BY <1>h, <2>1 DEF Handled
<1> QED
  BY <1>1, <1>3, <1>4, <1>5, <1>6 DEF IdInv, Writes

\* Every step keeps IdInv.
LEMMA IdStep == TypeInv /\ IdInv /\ [Next]_vars => IdInv'
<1> SUFFICES ASSUME TypeInv, IdInv, [Next]_vars PROVE IdInv'
  OBVIOUS
<1>0. /\ nextId \in Nat /\ Runs \subseteq Nat /\ Runs \subseteq Ids /\ NoRun \in Ids
      /\ NoRun \notin Runs /\ cur \in Due \cup {NoCur}
  BY NumbersAssumption DEF TypeInv, StoresTyped, TickTyped, Runs, Ids, NoRun
<1>1. ASSUME UNCHANGED <<rows, jsonl, live, nextId>>, due' \subseteq due,
             pc' \notin {"idle", "act"} =>
               \/ cur' \in due
               \/ cur'.run = cur.run /\ pc \notin {"idle", "act"}
      PROVE  IdInv'
  BY <1>1 DEF IdInv, Unused, Writes, Handled
<1>2. CASE Advance
  BY <1>1, <1>2 DEF Advance, schedVars
<1>3. CASE Drain
  <2>1. pc = "idle" /\ UNCHANGED <<rows, cur, live>>
    BY <1>3, DrainEffect
  <2>2. PICK P, fire, id : /\ Handed(P, fire, id)
                           /\ \/ pc' = "act" /\ Listed(P, fire, id)
                              \/ UNCHANGED <<pc, mgr, due>>
    BY <1>3, DrainEffect
  <2>3. nextId <= nextId' /\ nextId' \in Nat
    BY <2>2 DEF Handed
  <2>4. ASSUME NEW i \in Runs, i >= nextId' PROVE Unused(i)'
    <3>1. jsonl'[i] = jsonl[i]
      BY <1>0, <2>2, <2>3, <2>4 DEF Handed
    <3> QED
      BY <1>0, <2>1, <2>3, <2>4, <3>1 DEF IdInv, Unused
  <2>5. jsonl'[NoRun] = jsonl[NoRun]
    BY <1>0, <2>2 DEF Handed
  <2>6. \A d \in due' : Handled(d.run)'
    <3>1. CASE Listed(P, fire, id)
      BY <2>2, <3>1 DEF Listed, Handed, Handled
    <3>2. CASE UNCHANGED due
      <4>1. \A d \in due : d.run \in Nat /\ d.run \in Ids /\ Handled(d.run)
        BY <1>0 DEF IdInv, TypeInv, TickTyped, Due
      <4>2. \A i \in Ids : i \in Nat /\ i < nextId => jsonl'[i] = jsonl[i]
        BY <1>0, <2>2 DEF Handed
      <4> QED
        BY <1>0, <2>3, <3>2, <4>1, <4>2 DEF Handled
    <3> QED
      BY <2>2, <3>1, <3>2
  <2> QED
    BY <2>1, <2>2, <2>4, <2>5, <2>6 DEF IdInv, Writes
<1>4. ASSUME NEW d \in due, Save(d) PROVE IdInv'
  BY <1>1, <1>4, SaveEffect
<1>5. CASE Guard \/ SpawnFails
  BY <1>1, <1>5, GuardEffect DEF SpawnFails
<1>6. CASE Spawn
  BY <1>0, <1>6, SpawnEffect, IdsStart
<1>7. CASE Retire
  <2>1. /\ pc \notin {"idle", "act"} /\ cur.run \in Runs
        /\ pc' \notin {"idle", "act"} => UNCHANGED cur
        /\ \A i \in Ids : i # cur.run => jsonl'[i] = jsonl[i]
        /\ jsonl'[cur.run].status = "cancelled" \/ UNCHANGED jsonl
        /\ UNCHANGED <<rows, nextId, due, live>>
    BY <1>7, RetireEffect
  <2>2. \A i \in Runs : i >= nextId => i # cur.run
    BY <1>0, <2>1 DEF IdInv, Handled
  <2>3. \A i \in Runs : Handled(i) => Handled(i)'
    BY <1>0, <2>1 DEF Handled
  <2>4. (\A d \in due : d.run \in Runs)
    BY DEF TypeInv, TickTyped, Due
  <2>5. (\A d \in due : Handled(d.run))' /\ (pc' \notin {"idle", "act"} => Handled(cur.run)')
    BY <2>1, <2>3, <2>4 DEF IdInv, Handled
  <2> QED
    BY <1>0, <2>1, <2>2, <2>5 DEF IdInv, Unused, Writes
<1>8. CASE Repoint
  BY <1>1, <1>8, RepointEffect
<1>9. CASE ActDone
  BY <1>1, <1>9 DEF ActDone, ForgetTick
<1>10. ASSUME NEW i \in Runs, ExecutorStep(i) PROVE IdInv'
  <2>1. CASE AttemptSucceeds(i) \/ AttemptFails(i)
    BY <2>1, AttemptEffect, IdsExecute DEF IdInv, Writes
  <2>2. CASE FinalizeHistory(i)
    <3>1. PICK e \in Executor :
            /\ live[i].phase = "finish" /\ LiveSet(i, e)
            /\ \A j \in Ids : j # i => jsonl'[j] = jsonl[j]
            /\ jsonl'[i].status \in {jsonl[i].status, Verdict(i)}
            /\ UNCHANGED <<rows, nextId, schedVars>>
      BY <2>2, HistoryEffect
    <3>2. rows'[i].status = "running"
      BY <3>1 DEF IdInv, Writes
    <3>3. jsonl[i].status # "none" => jsonl'[i].status # "none"
      BY <3>1 DEF Verdict
    <3> QED
      BY <1>0, <3>1, <3>2, <3>3, IdsExecute
  <2>3. CASE FinalizeRow(i)
    <3>1. PICK e \in Executor :
            /\ live[i].phase = "row" /\ LiveSet(i, e) /\ e.phase \in {"none", "load"}
            /\ \A j \in Runs : j # i => rows'[j] = rows[j]
            /\ UNCHANGED <<jsonl, nextId, schedVars>>
      BY <2>3, RowEffect
    <3> QED
      BY <3>1, IdsExecute DEF Writes
  <2>4. CASE PauseLoad(i)
    <3>1. PICK e \in Executor :
            /\ live[i].phase = "load" /\ LiveSet(i, e) /\ e.phase \in {"none", "save"}
            /\ UNCHANGED <<rows, jsonl, nextId, schedVars>>
      BY <2>4, LoadEffect
    <3> QED
      BY <3>1, IdsExecute DEF Writes
  <2>5. CASE PauseSave(i)
    <3>1. /\ live[i].phase = "save" /\ LiveSet(i, Idle)
          /\ UNCHANGED <<rows, jsonl, nextId, schedVars>>
      BY <2>5, PauseEffect
    <3> QED
      BY <3>1, Nothing, IdsExecute DEF Writes
  <2> QED
    BY <1>10, <2>1, <2>2, <2>3, <2>4, <2>5 DEF ExecutorStep, Attempt, Finalize
<1>11. ASSUME NEW r \in Routines, EditLoad(r) \/ DeleteTask(r) PROVE IdInv'
  BY <1>1, <1>11 DEF EditLoad, DeleteTask, schedVars
<1>12. CASE EditSave
  BY <1>1, <1>12 DEF EditSave, schedVars
<1>13. ASSUME NEW r \in Routines, Trigger(r) PROVE IdInv'
  <2>1. StartRun(r, "manual", 0) /\ UNCHANGED <<pc, cur, due>>
    BY <1>13 DEF Trigger, schedVars
  <2> QED
    BY <1>0, <2>1, IdsStart
<1>14. CASE Crash
  <2>1. /\ live' = [i \in Runs |-> Idle] /\ pc' = "idle" /\ due' = {}
        /\ UNCHANGED <<jsonl, rows, nextId>>
    BY <1>14, CrashEffect
  <2> QED
    BY <2>1, Nothing DEF IdInv, Unused, Writes
<1>15. CASE UNCHANGED vars
  BY <1>1, <1>15 DEF vars
<1> QED
  BY <1>2, <1>3, <1>4, <1>5, <1>6, <1>7, <1>8, <1>9, <1>10, <1>11, <1>12, <1>13, <1>14,
     <1>15 DEF Next, SchedulerStep, UserStep

-----------------------------------------------------------------------------
(* The mirrored placeholders *)

\* A mirrored placeholder is a run that was given out.
TombsInv == tombs \in SUBSET Runs /\ \A i \in tombs : i < nextId

\* Placeholders are mirrored when they are queued or retired, or imported at a
\* start; a mirrored one stays.
LEMMA TombsMove ==
  ASSUME [Next]_vars
  PROVE  \/ UNCHANGED tombs
         \/ \E d \in due : tombs' = tombs \cup {d.run} /\ Save(d)
         \/ Retire /\ tombs' = tombs \cup {cur.run}
         \/ Crash /\ tombs' = tombs \cup {i \in Runs : jsonl[i].status \in {"queued", "cancelled"}}
<1>1. ASSUME NEW d \in due, Save(d)
      PROVE  UNCHANGED tombs \/ \E e \in due : tombs' = tombs \cup {e.run} /\ Save(e)
  BY <1>1 DEF Save, Mirror
<1>2. ASSUME Retire PROVE UNCHANGED tombs \/ tombs' = tombs \cup {cur.run}
  BY <1>2 DEF Retire, Mirror
<1>3. ASSUME Crash
      PROVE  \/ UNCHANGED tombs
             \/ tombs' = tombs \cup {i \in Runs : jsonl[i].status \in {"queued", "cancelled"}}
  BY SMTT(40), <1>3 DEF Crash
<1>4. UNCHANGED tombs \/ (\E d \in due : Save(d)) \/ Retire \/ Crash
  BY DEF Next, SchedulerStep, ExecutorStep, Attempt, Finalize, UserStep, vars, Advance, Drain,
         Guard, Spawn, SpawnFails, Repoint, ActDone, AttemptSucceeds, AttemptFails, FinalizeRow,
         FinalizeHistory, PauseLoad, PauseSave, EditSave, EditLoad, DeleteTask, Trigger
<1> QED
  BY <1>1, <1>2, <1>3, <1>4

\* Ids are never taken back.
LEMMA IdsOnward ==
  ASSUME TypeInv, [Next]_vars
  PROVE  nextId \in Nat /\ nextId' \in Nat /\ nextId <= nextId'
<1>0. nextId \in Nat
  BY DEF TypeInv, StoresTyped
<1>1. CASE Drain
  BY <1>0, <1>1, DrainEffect DEF Handed
<1>2. CASE Spawn \/ \E r \in Routines : Trigger(r)
  <2>1. nextId' = nextId + 1
    BY SMTT(40), <1>2 DEF Spawn, Trigger, StartRun
  <2> QED
    BY <1>0, <2>1
<1>3. UNCHANGED nextId \/ Drain \/ Spawn \/ \E r \in Routines : Trigger(r)
  BY DEF Next, SchedulerStep, ExecutorStep, Attempt, Finalize, UserStep, vars, Advance, Save,
         Guard, SpawnFails, Retire, Repoint, ActDone, AttemptSucceeds, AttemptFails, FinalizeRow,
         FinalizeHistory, PauseLoad, PauseSave, EditSave, EditLoad, DeleteTask, Crash
<1> QED
  BY <1>0, <1>1, <1>2, <1>3

\* Every step keeps TombsInv, and every mirrored placeholder.
LEMMA TombsStep ==
  ASSUME TypeInv, IdInv, TombsInv, [Next]_vars
  PROVE  TombsInv' /\ tombs \subseteq tombs'
<1>0. Runs \subseteq Nat /\ nextId \in Nat /\ nextId' \in Nat /\ nextId <= nextId'
  BY IdsOnward DEF Runs
<1>1. ASSUME NEW i \in Runs, i < nextId PROVE i < nextId'
  BY <1>0, <1>1
<1>2. \A d \in due : d.run \in Runs /\ d.run < nextId
  BY DEF IdInv, Handled, TypeInv, TickTyped, Due
<1>3. Retire => cur.run \in Runs /\ cur.run < nextId
  BY RetireEffect DEF IdInv, Handled
<1>4. ASSUME NEW i \in Runs, jsonl[i].status \in {"queued", "cancelled"} PROVE i < nextId
  BY <1>0, <1>4 DEF IdInv, Unused
<1>5. tombs \subseteq tombs' /\ \A i \in tombs' : i \in Runs /\ i < nextId
  BY <1>2, <1>3, <1>4, TombsMove DEF TombsInv
<1> QED
  BY <1>1, <1>5 DEF TombsInv

\* Every variable of the scheduler keeps its type, and what refers to a run
\* refers to a started one.
THEOREM TypeCorrect == Spec => []TypeOK
<1>1. TypeInv /\ TombsInv => TypeOK
  BY DEF TypeInv, StoresTyped, ClocksTyped, TickTyped, RunsTyped, TypeOK, Places, JsonRec,
         Statuses, RowRec, UiRec, TombsInv
<1>2. Init => TombsInv
  BY DEF Init, TombsInv
<1> QED
  BY <1>1, <1>2, TypeInit, TypeStep, IdInit, IdStep, TombsStep, PTL DEF Spec

-----------------------------------------------------------------------------
(* What every step keeps *)

\* The rows of scheduled runs stay, and one that is not running stays so.
RowsKept ==
  \A i \in Runs :
    /\ rows'[i].trigger = "scheduled" <=> rows[i].trigger = "scheduled"
    /\ rows[i].trigger = "scheduled" =>
         /\ rows'[i].task = rows[i].task /\ rows'[i].due = rows[i].due
         /\ rows'[i].started = rows[i].started
         /\ rows'[i].status = "running" => rows[i].status = "running"
         /\ rows[i].status = "failed" => rows'[i].status = "failed"

\* Only Spawn adds a scheduled run.
LEMMA RowsStep ==
  ASSUME TypeInv, IdInv, [Next]_vars
  PROVE  RowsKept \/ Spawn
<1>1. ASSUME UNCHANGED rows PROVE RowsKept
  BY <1>1 DEF RowsKept
<1>2. ASSUME NEW i \in Runs, FinalizeRow(i) PROVE RowsKept
  <2>1. /\ live[i].phase = "row"
        /\ \A j \in Runs : j # i => rows'[j] = rows[j]
        /\ rows'[i].task = rows[i].task /\ rows'[i].trigger = rows[i].trigger
        /\ rows'[i].due = rows[i].due /\ rows'[i].started = rows[i].started
    BY <1>2, RowEffect
  <2>2. rows[i].status = "running"
    BY <2>1 DEF IdInv, Writes
  <2> QED
    BY <2>1, <2>2 DEF RowsKept
<1>3. ASSUME NEW r \in Routines, Trigger(r) PROVE RowsKept
  <2>1. StartRun(r, "manual", 0)
    BY <1>3 DEF Trigger
  <2>2. /\ nextId \in Runs /\ nextId \in Nat /\ rows'[nextId].trigger = "manual"
        /\ \A i \in Runs : i # nextId => rows'[i] = rows[i]
    BY <2>1, StartEffect DEF Runs
  <2>3. rows[nextId].trigger = "none"
    BY SMTT(40), <2>2 DEF IdInv, Unused, NoRow
  <2> QED
    BY <2>2, <2>3 DEF RowsKept
<1>4. \/ UNCHANGED rows \/ (\E i \in Runs : FinalizeRow(i)) \/ Spawn
      \/ (\E r \in Routines : Trigger(r))
  BY DEF Next, SchedulerStep, ExecutorStep, Attempt, Finalize, UserStep, vars, Advance, Drain,
         Save, Guard,
         SpawnFails, Retire, Repoint, ActDone, AttemptSucceeds, AttemptFails,
         FinalizeHistory, PauseLoad, PauseSave, EditSave, EditLoad, DeleteTask, Crash
<1> QED
  BY <1>1, <1>2, <1>3, <1>4

\* The scheduled runs of a routine, when their rows are kept.
LEMMA ScheduledKept ==
  ASSUME RowsKept, NEW r PROVE Scheduled(r)' = Scheduled(r)
  BY DEF RowsKept, Scheduled

\* The scheduled runs after a spawn: one more, the last.
LEMMA ScheduledMore ==
  ASSUME TypeInv, IdInv, Spawn
  PROVE  /\ nextId \in Runs /\ nextId \notin Scheduled(cur.task)
         /\ \A i \in Runs : i # nextId => rows'[i] = rows[i]
         /\ rows'[nextId].started = now /\ rows'[nextId].due = tickAt
         /\ rows'[nextId].status = "running"
         /\ \A r : r = cur.task => Scheduled(r)' = Scheduled(r) \cup {nextId}
         /\ \A r : r # cur.task => Scheduled(r)' = Scheduled(r)
         /\ \A r : \A i \in Scheduled(r) : i < nextId
<1>1. /\ cur.task \in Routines /\ StartRun(cur.task, "scheduled", tickAt) /\ tickAt \in Nat
      /\ UNCHANGED tickAt
  BY SpawnEffect
<1>2. /\ nextId \in Runs
      /\ \A i \in Runs : i # nextId => rows'[i] = rows[i]
      /\ rows'[nextId].task = cur.task /\ rows'[nextId].trigger = "scheduled"
      /\ rows'[nextId].started = now /\ rows'[nextId].due = tickAt
      /\ rows'[nextId].status = "running"
  BY <1>1, StartEffect
<1>3. nextId \in Nat /\ Runs \subseteq Nat
  BY <1>2 DEF Runs
<1>4. \A i \in Runs : i >= nextId => rows[i].trigger # "scheduled"
  BY DEF IdInv, Unused, NoRow
<1>5. ASSUME NEW r, NEW i \in Scheduled(r) PROVE i < nextId
  <2>1. i \in Runs /\ rows[i].trigger = "scheduled"
    BY DEF Scheduled
  <2>2. ~(i >= nextId) /\ i \in Nat
    BY <1>3, <1>4, <2>1
  <2> QED
    BY <1>3, <2>2
<1>6. \A r : nextId \notin Scheduled(r)
  BY <1>3, <1>5
<1>7. \A r : r # cur.task => Scheduled(r)' = Scheduled(r)
  BY <1>2, <1>6 DEF Scheduled
<1>8. \A r : r = cur.task => Scheduled(r)' = Scheduled(r) \cup {nextId}
  BY <1>2, <1>6 DEF Scheduled
<1> QED
  BY <1>2, <1>5, <1>6, <1>7, <1>8

-----------------------------------------------------------------------------
(* The in-flight guard *)

\* Sets of runs are finite.
LEMMA RunsFinite ==
  ASSUME NEW S \in SUBSET Runs
  PROVE  IsFiniteSet(S) /\ Cardinality(S) \in Nat
<1>1. IsFiniteSet(Runs)
  BY NumbersAssumption, FS_Interval DEF Runs
<1>2. IsFiniteSet(S)
  BY <1>1, FS_Subset
<1> QED
  BY <1>2, FS_CardinalityType

\* A set of runs has no more members than one it is contained in.
LEMMA RunsFewer ==
  ASSUME NEW S \in SUBSET Runs, NEW T \in SUBSET S
  PROVE  /\ Cardinality(S) \in Nat /\ Cardinality(T) \in Nat
         /\ Cardinality(T) <= Cardinality(S)
<1>1. IsFiniteSet(S) /\ Cardinality(S) \in Nat /\ Cardinality(T) \in Nat
  BY RunsFinite
<1> QED
  BY <1>1, FS_Subset

\* What every step keeps of the rows that the guard may read.
LEMMA RecordedStep ==
  ASSUME TypeInv, IdInv, TombsInv, [Next]_vars
  PROVE  Recorded \subseteq Recorded'
<1>1. ASSUME NEW i \in Runs, FinalizeRow(i), NEW j \in Runs, rows[j].status # "none"
      PROVE  rows'[j].status # "none"
  <2>1. /\ \A k \in Runs : k # i => rows'[k] = rows[k]
        /\ rows'[i].status \in {rows[i].status, Verdict(i)}
    BY <1>1, RowEffect
  <2> QED
    BY <1>1, <2>1 DEF Verdict
<1>2. ASSUME NEW r \in Routines, NEW trigger \in {"scheduled", "manual"}, NEW tick \in Nat,
             StartRun(r, trigger, tick), NEW j \in Runs, rows[j].status # "none"
      PROVE  rows'[j].status # "none"
  BY <1>2, StartEffect
<1>3. Spawn => StartRun(cur.task, "scheduled", tickAt) /\ cur.task \in Routines /\ tickAt \in Nat
  BY SpawnEffect
<1>4. \A r \in Routines : Trigger(r) => StartRun(r, "manual", 0)
  BY SMTT(40) DEF Trigger
<1>5. \/ UNCHANGED rows \/ (\E i \in Runs : FinalizeRow(i)) \/ Spawn
      \/ (\E r \in Routines : Trigger(r))
  BY DEF Next, SchedulerStep, ExecutorStep, Attempt, Finalize, UserStep, vars, Advance, Drain,
         Save, Guard, SpawnFails, Retire, Repoint, ActDone, AttemptSucceeds, AttemptFails,
         FinalizeHistory, PauseLoad, PauseSave, EditSave, EditLoad, DeleteTask, Crash
<1>6. \A j \in Runs : rows[j].status # "none" => rows'[j].status # "none"
  BY <1>1, <1>2, <1>3, <1>4, <1>5
<1>7. tombs \subseteq tombs'
  BY TombsStep
<1> QED
  BY <1>6, <1>7 DEF Recorded

\* What is out of the guard's sight stays out of it, when ids grow.
LEMMA HiddenStays ==
  ASSUME TypeInv, IdInv, TombsInv, [Next]_vars, NEW i \in Nat, NEW j \in Nat, NEW n \in Nat,
         j <= n, Hidden(i, j)
  PROVE  Cardinality({k \in Recorded' : i < k /\ k < n}) >= ScanLimit
<1> DEFINE S == {k \in Recorded' : i < k /\ k < n}
           T == {k \in Recorded : i < k /\ k < j}
<1>1. Recorded \subseteq Recorded' /\ Recorded' \subseteq Runs /\ Runs \subseteq Nat
  BY RecordedStep, TombsStep DEF Recorded, TombsInv, Runs
<1>2. S \in SUBSET Runs /\ T \in SUBSET S
  <2>1. \A k \in T : k \in Nat /\ k < n
    BY <1>1
  <2> QED
    BY <1>1, <2>1
<1>3. Cardinality(S) \in Nat /\ Cardinality(T) \in Nat /\ Cardinality(T) <= Cardinality(S)
  BY <1>2, RunsFewer
<1>4. Cardinality(T) >= ScanLimit
  BY DEF Hidden
<1> QED
  BY <1>3, <1>4, NumbersAssumption

\* Time goes on, and what has happened has happened.
LEMMA Onward ==
  ASSUME TypeInv, [Next]_vars
  PROVE  now' \in Nat /\ now <= now' /\ events \subseteq events'
<1>1. now \in Nat
  BY DEF TypeInv, ClocksTyped
<1>2. now' = now \/ now' = now + 1
  BY ZenonT(60) DEF Next, SchedulerStep, ExecutorStep, Attempt, Finalize, UserStep, vars,
         Advance, Drain, Save, Guard, Spawn,
         SpawnFails, Retire, Repoint, ActDone, AttemptSucceeds, AttemptFails, FinalizeRow,
         FinalizeHistory, PauseLoad, PauseSave, EditSave, EditLoad, DeleteTask, Trigger, Crash
<1>3. events \subseteq events'
  BY ZenonT(60) DEF Next, SchedulerStep, ExecutorStep, Attempt, Finalize, UserStep, vars,
         Advance, Drain, Save, Guard, Spawn,
         SpawnFails, Retire, Repoint, ActDone, AttemptSucceeds, AttemptFails, FinalizeRow,
         FinalizeHistory, PauseLoad, PauseSave, EditSave, EditLoad, DeleteTask, Trigger, Crash
<1> QED
  BY <1>1, <1>2, <1>3

\* Only the guard brings a run to its spawn.
LEMMA ToSpawn ==
  ASSUME [Next]_vars, pc' = "spawn"
  PROVE  (pc = "spawn" /\ cur' = cur) \/ Guard
  BY DEF Next, SchedulerStep, ExecutorStep, Attempt, Finalize, UserStep, vars, schedVars,
         Advance, Drain, Save,
         Spawn, SpawnFails, Retire, Repoint, ActDone, ForgetTick, AttemptSucceeds,
         AttemptFails, FinalizeRow, FinalizeHistory, PauseLoad, PauseSave, EditSave, EditLoad,
         DeleteTask, Trigger, Crash

\* A guard that can read the history lets a run through only over runs that are
\* too old or out of its sight.
LEMMA LetThrough ==
  ASSUME TypeInv, IdInv, TombsInv, ~InFlight(cur.task),
         NEW i \in Runs, rows[i].task = cur.task, rows[i].status = "running"
  PROVE  now > rows[i].started + GuardAge \/ Hidden(i, nextId)
<1>1. now \in Nat /\ rows[i].started \in Nat /\ GuardAge \in Nat /\ nextId \in Nat
  BY NumbersAssumption DEF TypeInv, ClocksTyped, StoresTyped, RowRec
<1>2. SUFFICES ASSUME ~(now > rows[i].started + GuardAge) PROVE Hidden(i, nextId)
  OBVIOUS
<1>3. now <= rows[i].started + GuardAge
  BY <1>1, <1>2
<1>4. i \in Recorded /\ i \notin Scanned
  BY <1>3 DEF InFlight, Scanned, Recorded
<1> DEFINE S == {k \in Recorded : i < k}
<1>5. S = {k \in Recorded : i < k /\ k < nextId}
  <2>1. ASSUME NEW k \in Recorded PROVE k < nextId
    <3>1. k \in Runs /\ k \in Nat
      BY DEF Recorded, TombsInv, Runs
    <3>2. CASE rows[k].status # "none"
      BY <1>1, <3>1, <3>2 DEF IdInv, Unused, NoRow
    <3> QED
      BY <2>1, <3>2 DEF Recorded, TombsInv
  <2> QED
    BY <2>1
<1>6. S \in SUBSET Runs
  BY DEF Recorded, TombsInv
<1>7. Cardinality(S) \in Nat /\ ~(Cardinality(S) < ScanLimit)
  BY <1>4, <1>6, RunsFinite DEF Scanned
<1>8. Cardinality(S) >= ScanLimit
  BY <1>7, NumbersAssumption
<1> QED
  BY <1>5, <1>8 DEF Hidden

\* Every step keeps NoStackedRuns.
LEMMA GuardStep ==
  TypeInv /\ IdInv /\ TombsInv /\ NoStackedRuns /\ [Next]_vars => NoStackedRuns'
<1> SUFFICES ASSUME TypeInv, IdInv, TombsInv, NoStackedRuns, [Next]_vars PROVE NoStackedRuns'
  OBVIOUS
<1>0. /\ now \in Nat /\ now' \in Nat /\ now <= now' /\ events \subseteq events'
      /\ GuardAge \in Nat /\ \A i \in Runs : rows[i].started \in Nat
      /\ nextId \in Nat /\ nextId' \in Nat /\ nextId <= nextId' /\ Runs \subseteq Nat
      /\ \A r : Scheduled(r) \subseteq Runs
  BY Onward, IdsOnward, NumbersAssumption DEF TypeInv, ClocksTyped, StoresTyped, RowRec, Runs,
     Scheduled
<1>h. \A i, j \in Runs : Hidden(i, j) => Hidden(i, j)'
  <2>1. ASSUME NEW i \in Runs, NEW j \in Runs, Hidden(i, j) PROVE Hidden(i, j)'
    <3>1. i \in Nat /\ j \in Nat /\ j <= j
      BY DEF Runs
    <3> QED
      BY <2>1, <3>1, HiddenStays DEF Hidden
  <2> QED
    BY <2>1
<1>n. \A i \in Runs : Hidden(i, nextId) => Hidden(i, nextId)'
  <2>1. ASSUME NEW i \in Runs, Hidden(i, nextId) PROVE Hidden(i, nextId)'
    <3>1. Cardinality({k \in Recorded' : i < k /\ k < nextId'}) >= ScanLimit
      BY <1>0, <2>1, HiddenStays
    <3> QED
      BY <3>1 DEF Hidden
  <2> QED
    BY <2>1
<1> SUFFICES ASSUME NEW r \in Routines, <<"blind", r>> \notin events',
                    NEW i \in Scheduled(r)', rows'[i].status = "running"
             PROVE  /\ \A j \in Scheduled(r)' : (i < j /\ rows'[j].status = "running") =>
                         rows'[j].started > rows'[i].started + GuardAge \/ Hidden(i, j)'
                    /\ (pc' = "spawn" /\ cur'.task = r) =>
                         now' > rows'[i].started + GuardAge \/ Hidden(i, nextId)'
  BY DEF NoStackedRuns
<1>b. <<"blind", r>> \notin events
  BY <1>0
<1>1. CASE RowsKept
  <2>0. /\ Scheduled(r)' = Scheduled(r) /\ i \in Runs /\ rows[i].status = "running"
        /\ rows'[i].started = rows[i].started /\ rows[i].task = r
    BY <1>1, ScheduledKept DEF RowsKept, Scheduled
  <2>1. ASSUME NEW j \in Scheduled(r)', i < j, rows'[j].status = "running"
        PROVE  rows'[j].started > rows'[i].started + GuardAge \/ Hidden(i, j)'
    <3>1. /\ j \in Scheduled(r) /\ j \in Runs /\ rows[j].status = "running"
          /\ rows'[j].started = rows[j].started
      BY <1>1, <2>0, <2>1 DEF RowsKept, Scheduled
    <3>2. rows[j].started > rows[i].started + GuardAge \/ Hidden(i, j)
      BY <1>b, <2>0, <2>1, <3>1 DEF NoStackedRuns
    <3> QED
      BY <1>h, <2>0, <3>1, <3>2
  <2>2. ASSUME pc' = "spawn", cur'.task = r
        PROVE  now' > rows'[i].started + GuardAge \/ Hidden(i, nextId)'
    <3>1. cur' = cur
      BY <2>2, ToSpawn, GuardEffect
    <3>2. now > rows[i].started + GuardAge \/ Hidden(i, nextId)
      <4>1. CASE pc = "spawn"
        BY <1>b, <2>0, <2>2, <3>1, <4>1 DEF NoStackedRuns
      <4>2. CASE Guard /\ pc # "spawn"
        <5>1. <<"blind", cur.task>> \notin events'
          BY <2>2, <3>1
        <5>2. ~InFlight(cur.task)
          BY <2>2, <4>2, <5>1, GuardEffect
        <5> QED
          BY <2>0, <2>2, <3>1, <5>2, LetThrough
      <4> QED
        BY <2>2, <4>1, <4>2, ToSpawn
    <3>3. rows[i].started \in Nat
      BY <1>0, <2>0
    <3>4. now > rows[i].started + GuardAge => now' > rows[i].started + GuardAge
      BY <1>0, <3>3
    <3> QED
      BY <1>n, <2>0, <3>2, <3>4
  <2> QED
    BY <2>1, <2>2
<1>2. CASE Spawn
  <2>0. pc = "spawn" /\ pc' = "supersede" /\ UNCHANGED <<now, events>>
    BY <1>2, SpawnEffect
  <2>1. ASSUME NEW j \in Scheduled(r)', i < j, rows'[j].status = "running"
        PROVE  rows'[j].started > rows'[i].started + GuardAge \/ Hidden(i, j)'
    <3>1. /\ nextId \in Runs /\ \A k \in Runs : k # nextId => rows'[k] = rows[k]
          /\ rows'[nextId].started = now
          /\ i \in Scheduled(r) \/ (r = cur.task /\ i = nextId)
          /\ j \in Scheduled(r) \/ (r = cur.task /\ j = nextId)
          /\ \A k \in Scheduled(r) : k < nextId
      BY <1>2, ScheduledMore
    <3>2. i \in Runs /\ j \in Runs /\ Runs \subseteq Nat
      BY DEF Scheduled, Runs
    <3>3. i \in Scheduled(r) /\ i # nextId /\ rows'[i] = rows[i]
      BY <2>1, <3>1, <3>2
    <3>4. rows[i].status = "running"
      BY <3>3
    <3>5. CASE j # nextId
      <4>1. j \in Scheduled(r) /\ rows'[j] = rows[j]
        BY <3>1, <3>2, <3>5
      <4>2. rows[j].started > rows[i].started + GuardAge \/ Hidden(i, j)
        BY <1>b, <2>1, <3>3, <3>4, <4>1 DEF NoStackedRuns
      <4> QED
        BY <1>h, <3>2, <3>3, <4>1, <4>2
    <3>6. CASE j = nextId
      <4>1. r = cur.task
        BY <1>0, <3>1, <3>2, <3>6
      <4>2. now > rows[i].started + GuardAge \/ Hidden(i, nextId)
        BY <1>b, <2>0, <3>3, <3>4, <4>1 DEF NoStackedRuns
      <4>3. Hidden(i, nextId) => Hidden(i, j)
        BY <3>6
      <4> QED
        BY <1>h, <3>1, <3>2, <3>3, <3>6, <4>2, <4>3
    <3> QED
      BY <3>5, <3>6
  <2> QED
    BY <2>0, <2>1
<1> QED
  BY <1>1, <1>2, RowsStep

\* Two unfinished scheduled runs of a routine are more than the guard's window
\* apart, or at least as many rows lie between them as the guard reads, unless a
\* guard could not read the history; and so are a running one and one let through.
THEOREM NeverStacked == Spec => []NoStackedRuns
<1>1. Init => TombsInv /\ NoStackedRuns
  BY DEF Init, TombsInv, NoStackedRuns, Scheduled, NoRow
<1> QED
  BY <1>1, TypeInit, TypeStep, IdInit, IdStep, TombsStep, GuardStep, PTL DEF Spec

-----------------------------------------------------------------------------
(* Dependencies *)

\* A run that a record of r, or a tick, refers to has no record in the history,
\* or is a run of r.
Refers(i, r) == i < nextId /\ (jsonl[i].status # "none" => jsonl[i].task = r)
Met(r) ==
  \A d \in DependsOn[r] : <<"succeeded", d>> \in events \/ <<"deleted", d>> \in events

\* A success in the history has happened, and an executor's record tells its
\* routine.
HistoryInv ==
  /\ \A i \in Runs : jsonl[i].status = "succeeded" =>
       <<"succeeded", jsonl[i].task>> \in events
  /\ \A i \in Runs : live[i].phase # "none" =>
       /\ live[i].outcome = "ok" => <<"succeeded", rows[i].task>> \in events
       /\ jsonl[i].status # "none" => jsonl[i].task = rows[i].task
PointersInv ==
  /\ \A r \in Routines : Refers(store[r].run, r) /\ Refers(mgr[r].run, r)
  /\ ui # NoUi => Refers(ui.rec.run, ui.task)
  /\ \A i \in Runs : live[i].phase = "save" => Refers(live[i].snap.run, rows[i].task)
  /\ pc \in {"supersede", "repoint"} => Refers(cur.started, cur.task)
\* No save brings a deleted routine back as deleted, and a tick acts on enabled
\* routines.
ModesInv ==
  /\ \A r \in Routines : store[r].mode = "deleted" => <<"deleted", r>> \in events
  /\ ui # NoUi => ui.rec.mode # "deleted"
  /\ \A d \in due : mgr[d.task].mode = "enabled"
  /\ pc \notin {"idle", "act"} => mgr[cur.task].mode = "enabled"
MetInv ==
  /\ DependentsWait
  /\ \A d \in due : Met(d.task)
  /\ pc \notin {"idle", "act"} => Met(cur.task)

\* What a step keeps of the tick: it is forgotten, drained, or goes on with what
\* was due.
LEMMA TickMoves ==
  ASSUME TypeInv, [Next]_vars
  PROVE  \/ due' = {} /\ pc' = "idle" /\ mgr' = NoMgr
         \/ Drain /\ pc' = "act"
         \/ /\ due' \subseteq due
            /\ \A r \in Routines : /\ mgr'[r].mode = mgr[r].mode
                                   /\ mgr'[r].fires = mgr[r].fires
                                   /\ mgr'[r].fired = mgr[r].fired
            /\ pc' \notin {"idle", "act"} =>
                 cur' \in due \/ (cur'.task = cur.task /\ pc \notin {"idle", "act"})
<1>1. CASE Drain
  BY <1>1, DrainEffect
<1>2. ASSUME NEW d \in due, Save(d)
      PROVE  /\ due' \subseteq due /\ UNCHANGED mgr
             /\ pc' \notin {"idle", "act"} => cur' \in due
  BY <1>2, SaveEffect
<1>3. CASE Guard \/ SpawnFails
  BY <1>3, GuardEffect DEF SpawnFails
<1>4. CASE Spawn
  BY <1>4, SpawnEffect
<1>5. CASE Retire
  BY <1>5, RetireEffect
<1>6. CASE Repoint
  <2>1. /\ pc' = "act" /\ UNCHANGED due
        /\ \A r \in Routines : r # cur.task => mgr'[r] = mgr[r]
        /\ mgr'[cur.task].mode = mgr[cur.task].mode
        /\ mgr'[cur.task].fires = mgr[cur.task].fires
        /\ mgr'[cur.task].fired = mgr[cur.task].fired
    BY <1>6, RepointEffect
  <2> QED
    BY <2>1
<1>7. CASE ActDone \/ Crash
  BY <1>7 DEF ActDone, Crash, ForgetTick
<1>8. CASE UNCHANGED schedVars
  BY SMTT(40), <1>8 DEF schedVars
<1>9. SchedulerStep \/ Crash \/ UNCHANGED schedVars
  BY DEF Next, ExecutorStep, Attempt, Finalize, UserStep, vars, schedVars, Advance,
         AttemptSucceeds,
         AttemptFails, FinalizeRow, FinalizeHistory, PauseLoad, PauseSave, EditSave, EditLoad,
         DeleteTask, Trigger
<1> QED
  BY <1>1, <1>2, <1>3, <1>4, <1>5, <1>6, <1>7, <1>8, <1>9 DEF SchedulerStep

\* A record of the history keeps its routine, and none is made of an old run.
LEMMA RefersOnward ==
  ASSUME TypeInv, IdInv, [Next]_vars
  PROVE  /\ nextId' \in Nat /\ nextId <= nextId'
         /\ \A i \in Ids : \A r : Refers(i, r) => Refers(i, r)'
<1>0. nextId \in Nat /\ Ids \subseteq Nat /\ Runs \subseteq Ids
  BY DEF TypeInv, StoresTyped, Ids, Runs
<1> DEFINE Kept == \A i \in Ids : i < nextId =>
                     /\ jsonl'[i].task = jsonl[i].task
                     /\ jsonl[i].status = "none" => jsonl'[i].status = "none"
           Goal == nextId' \in Nat /\ nextId <= nextId' /\ Kept
<1>1. ASSUME UNCHANGED <<jsonl, nextId>> PROVE Goal
  BY <1>0, <1>1
<1>2. ASSUME Drain PROVE Goal
  <2>1. PICK P, fire, id : Handed(P, fire, id)
    BY <1>2, DrainEffect
  <2>2. \A i \in Ids : i < nextId => jsonl'[i] = jsonl[i]
    BY <1>0, <2>1 DEF Handed
  <2> QED
    BY <2>1, <2>2 DEF Handed
<1>3. ASSUME NEW r \in Routines, NEW trigger \in {"scheduled", "manual"}, NEW tick \in Nat,
             StartRun(r, trigger, tick)
      PROVE  Goal
  <2>1. nextId' = nextId + 1 /\ \A i \in Ids : i # nextId => jsonl'[i] = jsonl[i]
    BY <1>3, StartEffect
  <2> QED
    BY <1>0, <2>1
<1>4. ASSUME Spawn PROVE Goal
  BY <1>3, <1>4, SpawnEffect
<1>5. ASSUME NEW r \in Routines, Trigger(r) PROVE Goal
  BY <1>3, <1>5 DEF Trigger
<1>6. ASSUME Retire PROVE Goal
  <2>1. /\ pc \notin {"idle", "act"} /\ UNCHANGED nextId
        /\ \A i \in Ids : jsonl'[i].task = jsonl[i].task /\ (i # cur.run => jsonl'[i] = jsonl[i])
    BY <1>6, RetireEffect
  <2>2. jsonl[cur.run].status # "none"
    BY <2>1 DEF IdInv, Handled
  <2>3. \A i \in Ids : jsonl[i].status = "none" => jsonl'[i] = jsonl[i]
    BY <2>1, <2>2
  <2>4. Kept /\ UNCHANGED nextId
    BY <2>1, <2>3
  <2> HIDE DEF Kept
  <2> QED
    BY <1>0, <2>4
<1>7. ASSUME NEW i \in Runs, FinalizeHistory(i) PROVE Goal
  <2>2. /\ \A j \in Ids : jsonl'[j].task = jsonl[j].task
        /\ \A j \in Ids : j # i => jsonl'[j] = jsonl[j]
        /\ jsonl[i].status = "none" => jsonl'[i].status = "none"
        /\ UNCHANGED nextId
    BY SMTT(40), <1>7, HistoryEffect
  <2> QED
    BY <1>0, <2>2
<1>8. \/ UNCHANGED <<jsonl, nextId>> \/ Drain \/ Spawn \/ (\E r \in Routines : Trigger(r))
      \/ Retire \/ (\E i \in Runs : FinalizeHistory(i))
  BY DEF Next, SchedulerStep, ExecutorStep, Attempt, Finalize, UserStep, vars, Advance, Save,
         Guard, SpawnFails,
         Repoint, ActDone, AttemptSucceeds, AttemptFails, FinalizeRow, PauseLoad, PauseSave,
         EditSave, EditLoad, DeleteTask, Crash
<1>9. Goal
  BY <1>1, <1>2, <1>4, <1>5, <1>6, <1>7, <1>8
<1> HIDE DEF Kept
<1>10. ASSUME Kept, NEW i \in Ids, NEW r, Refers(i, r) PROVE Refers(i, r)'
  BY <1>0, <1>9, <1>10 DEF Kept, Refers
<1> QED
  BY <1>9, <1>10

\* HistoryInv after a step of one executor that leaves the history alone.
LEMMA HistoryExecute ==
  ASSUME HistoryInv, NEW i \in Runs, live[i].phase # "none", NEW e, LiveSet(i, e),
         e.phase # "none" /\ e.outcome = "ok" => <<"succeeded", rows[i].task>> \in events',
         \A j \in Runs : rows'[j].task = rows[j].task,
         UNCHANGED jsonl, events \subseteq events'
  PROVE  HistoryInv'
  BY DEF HistoryInv, LiveSet

\* HistoryInv after a run is started.
LEMMA HistoryStart ==
  ASSUME TypeInv, HistoryInv, NEW r \in Routines, NEW trigger \in {"scheduled", "manual"},
         NEW tick \in Nat, StartRun(r, trigger, tick), events \subseteq events', IdInv
  PROVE  HistoryInv'
<1>1. /\ nextId \in Runs /\ rows'[nextId].task = r /\ live'[nextId].outcome # "ok"
      /\ \A i \in Runs : i # nextId => rows'[i] = rows[i] /\ live'[i] = live[i]
      /\ \A i \in Ids : i # nextId => jsonl'[i] = jsonl[i]
      /\ \/ jsonl'[nextId].task = r /\ jsonl'[nextId].status = "running"
         \/ UNCHANGED jsonl
  BY StartEffect
<1>2. nextId \in Nat /\ Runs \subseteq Ids
  BY DEF TypeInv, StoresTyped, Runs, Ids
<1>3. jsonl[nextId].status = "none"
  BY <1>1, <1>2 DEF IdInv, Unused
<1>4. ASSUME NEW i \in Runs
      PROVE  /\ jsonl'[i].status = "succeeded" => <<"succeeded", jsonl'[i].task>> \in events'
             /\ live'[i].phase # "none" =>
                  /\ live'[i].outcome = "ok" => <<"succeeded", rows'[i].task>> \in events'
                  /\ jsonl'[i].status # "none" => jsonl'[i].task = rows'[i].task
  <2>1. CASE i = nextId
    BY <1>1, <1>3, <2>1
  <2>2. CASE i # nextId
    BY <1>1, <1>2, <2>2 DEF HistoryInv
  <2> QED
    BY <2>1, <2>2
<1> QED
  BY <1>4 DEF HistoryInv

\* Every step keeps HistoryInv.
LEMMA HistoryStep == TypeInv /\ IdInv /\ HistoryInv /\ [Next]_vars => HistoryInv'
<1> SUFFICES ASSUME TypeInv, IdInv, HistoryInv, [Next]_vars PROVE HistoryInv'
  OBVIOUS
<1>0. events \subseteq events' /\ Runs \subseteq Ids /\ Runs \subseteq Nat /\ nextId \in Nat
  BY Onward DEF TypeInv, StoresTyped, Runs, Ids
<1>1. CASE UNCHANGED <<jsonl, live, rows>>
  BY <1>0, <1>1 DEF HistoryInv
<1>2. CASE Drain
  <2>1. UNCHANGED <<rows, live>>
    BY <1>2, DrainEffect
  <2>2. PICK P, fire, id : Handed(P, fire, id)
    BY <1>2, DrainEffect
  <2>3. ASSUME NEW i \in Runs
        PROVE  jsonl'[i] = jsonl[i] \/ (jsonl'[i].status # "succeeded" /\ i >= nextId)
    BY <1>0, <2>2 DEF Handed
  <2>4. \A i \in Runs : live[i].phase # "none" => i < nextId
    BY <1>0, GivenOut
  <2>5. ASSUME NEW i \in Runs, live[i].phase # "none" PROVE jsonl'[i] = jsonl[i]
    BY <1>0, <2>3, <2>4, <2>5
  <2> QED
    BY <1>0, <2>1, <2>3, <2>5 DEF HistoryInv
<1>3. CASE Spawn
  BY <1>0, <1>3, SpawnEffect, HistoryStart
<1>4. CASE \E r \in Routines : Trigger(r)
  BY <1>0, <1>4, HistoryStart DEF Trigger
<1>5. CASE Retire
  <2>1. /\ pc \notin {"idle", "act"} /\ cur.run \in Runs /\ UNCHANGED <<rows, live>>
        /\ \A i \in Ids : jsonl'[i].task = jsonl[i].task /\ (i # cur.run => jsonl'[i] = jsonl[i])
        /\ jsonl'[cur.run].status = "cancelled" \/ UNCHANGED jsonl
    BY <1>5, RetireEffect
  <2>2. jsonl[cur.run].status # "none"
    BY <2>1 DEF IdInv, Handled
  <2>3. \A i \in Runs : /\ jsonl'[i].status = "succeeded" => jsonl[i].status = "succeeded"
                        /\ jsonl'[i].status # "none" => jsonl[i].status # "none"
                        /\ jsonl'[i].task = jsonl[i].task
    BY <1>0, <2>1, <2>2
  <2> QED
    BY <1>0, <2>1, <2>3 DEF HistoryInv
<1>6. ASSUME NEW i \in Runs, ExecutorStep(i) PROVE HistoryInv'
  <2>1. CASE AttemptSucceeds(i) \/ AttemptFails(i)
    <3>1. PICK e \in Executor :
            /\ live[i].phase = "attempt" /\ LiveSet(i, e) /\ UNCHANGED <<jsonl, rows>>
            /\ \/ events' = events \cup {<<"succeeded", rows[i].task>>}
               \/ e.outcome = "ok" => live[i].outcome = "ok"
      BY <2>1, AttemptEffect
    <3>2. e.outcome = "ok" => <<"succeeded", rows[i].task>> \in events'
      BY <1>0, <3>1 DEF HistoryInv
    <3> QED
      BY <1>0, <3>1, <3>2, HistoryExecute
  <2>2. CASE FinalizeHistory(i)
    <3>1. PICK e \in Executor :
            /\ live[i].phase = "finish" /\ LiveSet(i, e) /\ e.outcome = live[i].outcome
            /\ \A j \in Ids : jsonl'[j].task = jsonl[j].task
            /\ \A j \in Ids : j # i => jsonl'[j] = jsonl[j]
            /\ jsonl[i].status = "none" => jsonl'[i].status = "none"
            /\ jsonl'[i].status \in {jsonl[i].status, Verdict(i)}
            /\ UNCHANGED rows
      BY <2>2, HistoryEffect
    <3>2. /\ live[i].outcome = "ok" => <<"succeeded", rows[i].task>> \in events
          /\ jsonl[i].status # "none" => jsonl[i].task = rows[i].task
      BY <3>1 DEF HistoryInv
    <3>3. jsonl'[i].status = "succeeded" => <<"succeeded", jsonl[i].task>> \in events
      BY <3>1, <3>2 DEF HistoryInv, Verdict
    <3>4. \A j \in Runs : jsonl'[j].status = "succeeded" => <<"succeeded", jsonl'[j].task>> \in events'
      BY <1>0, <3>1, <3>3 DEF HistoryInv
    <3>5. \A j \in Runs : live'[j].phase # "none" =>
            /\ live'[j].outcome = "ok" => <<"succeeded", rows'[j].task>> \in events'
            /\ jsonl'[j].status # "none" => jsonl'[j].task = rows'[j].task
      BY <1>0, <3>1, <3>2 DEF HistoryInv, LiveSet
    <3> QED
      BY <3>4, <3>5 DEF HistoryInv
  <2>3. CASE FinalizeRow(i)
    <3>1. PICK e \in Executor :
            /\ live[i].phase = "row" /\ LiveSet(i, e) /\ UNCHANGED jsonl
            /\ e.phase # "none" => e.outcome = live[i].outcome
            /\ \A j \in Runs : j # i => rows'[j] = rows[j]
            /\ rows'[i].task = rows[i].task
      BY <2>3, RowEffect
    <3>2. e.phase # "none" /\ e.outcome = "ok" => <<"succeeded", rows[i].task>> \in events'
      BY <1>0, <3>1 DEF HistoryInv
    <3> QED
      BY <1>0, <3>1, <3>2, HistoryExecute
  <2>4. CASE PauseLoad(i)
    <3>1. PICK e \in Executor :
            /\ live[i].phase = "load" /\ LiveSet(i, e) /\ UNCHANGED <<jsonl, rows>>
            /\ e.phase # "none" => e.outcome = live[i].outcome
      BY <2>4, LoadEffect
    <3>2. e.phase # "none" /\ e.outcome = "ok" => <<"succeeded", rows[i].task>> \in events'
      BY <1>0, <3>1 DEF HistoryInv
    <3> QED
      BY <1>0, <3>1, <3>2, HistoryExecute
  <2>5. CASE PauseSave(i)
    <3>1. live[i].phase = "save" /\ LiveSet(i, Idle) /\ UNCHANGED <<jsonl, rows>>
      BY <2>5, PauseEffect
    <3> QED
      BY <1>0, <3>1, Nothing, HistoryExecute
  <2> QED
    BY <1>6, <2>1, <2>2, <2>3, <2>4, <2>5 DEF ExecutorStep, Attempt, Finalize
<1>7. CASE Crash
  <2>1. live' = [i \in Runs |-> Idle] /\ UNCHANGED <<jsonl, rows>>
    BY <1>7, CrashEffect
  <2> QED
    BY <1>0, <2>1, Nothing DEF HistoryInv
<1>8. \/ UNCHANGED <<jsonl, live, rows>> \/ Drain \/ Spawn \/ (\E r \in Routines : Trigger(r))
      \/ Retire \/ (\E i \in Runs : ExecutorStep(i)) \/ Crash
  BY DEF Next, SchedulerStep, UserStep, vars, Advance, Save, Guard, SpawnFails, Repoint,
         ActDone, EditSave, EditLoad, DeleteTask
<1> QED
  BY <1>1, <1>2, <1>3, <1>4, <1>5, <1>6, <1>7, <1>8

\* What a step makes of r's record: it keeps it, up to its mode, or writes a copy.
KeptRecord(r) ==
  /\ store'[r].run = store[r].run /\ store'[r].fires = store[r].fires
  /\ store'[r].fired = store[r].fired
  /\ \/ store'[r].mode \in {store[r].mode, "torn"}
     \/ store'[r].mode = "deleted" /\ <<"deleted", r>> \in events'
Copied(r, rec) ==
  store'[r].run = rec.run /\ store'[r].fires = rec.fires /\ store'[r].fired = rec.fired

\* A record is written by the tick, by a user's edit or by an automatic pause.
LEMMA StoreMoves ==
  ASSUME TypeInv, [Next]_vars, NEW r \in Routines
  PROVE  \/ KeptRecord(r)
         \/ \E d \in due : Save(d) /\ d.task = r /\ store'[r] = mgr[r]
         \/ Repoint /\ cur.task = r /\ store'[r] = mgr'[r]
         \/ /\ EditSave /\ ui.task = r /\ Copied(r, ui.rec) /\ Forgets(r, ui.rec) \subseteq events'
            /\ store'[r].mode \in {ui.rec.mode, "enabled", "disabled"}
         \/ \E i \in Runs :
              /\ PauseSave(i) /\ rows[i].task = r /\ Copied(r, live[i].snap)
              /\ Forgets(r, live[i].snap) \subseteq events'
              /\ store'[r].mode = live[i].pause /\ live[i].pause \in {"failures", "budget"}
<1>1. ASSUME UNCHANGED store PROVE KeptRecord(r)
  BY <1>1 DEF KeptRecord
<1>2. ASSUME NEW d \in due, Save(d) PROVE KeptRecord(r) \/ (d.task = r /\ store'[r] = mgr[r])
  <2>1. StoreSet(d.task, mgr[d.task]) \/ UNCHANGED store
    BY <1>2, SaveEffect
  <2> QED
    BY <1>1, <2>1 DEF StoreSet, KeptRecord
<1>3. ASSUME Repoint PROVE KeptRecord(r) \/ (cur.task = r /\ store'[r] = mgr'[r])
  <2>1. StoreSet(cur.task, mgr'[cur.task]) \/ UNCHANGED store
    BY <1>3, RepointEffect
  <2> QED
    BY <1>1, <2>1 DEF StoreSet, KeptRecord
<1>4. ASSUME EditSave
      PROVE  \/ KeptRecord(r)
             \/ /\ ui.task = r /\ Copied(r, ui.rec) /\ Forgets(r, ui.rec) \subseteq events'
                /\ store'[r].mode \in {ui.rec.mode, "enabled", "disabled"}
  <2>1. PICK rec \in Record :
          /\ rec.mode \in {ui.rec.mode, "enabled", "disabled"} /\ rec.run = ui.rec.run
          /\ rec.fires = ui.rec.fires /\ rec.fired = ui.rec.fired
          /\ \/ StoreSet(ui.task, rec) /\ events' = events \cup Forgets(ui.task, ui.rec)
             \/ UNCHANGED <<store, events>>
    BY <1>4, EditSaveEffect
  <2>2. CASE StoreSet(ui.task, rec) /\ ui.task = r /\ events' = events \cup Forgets(r, ui.rec)
    BY <2>1, <2>2 DEF StoreSet, Copied
  <2>3. CASE UNCHANGED store \/ (StoreSet(ui.task, rec) /\ ui.task # r)
    BY <1>1, <2>3 DEF StoreSet, KeptRecord
  <2> QED
    BY <2>1, <2>2, <2>3
<1>5. ASSUME NEW i \in Runs, PauseSave(i)
      PROVE  \/ KeptRecord(r)
             \/ /\ rows[i].task = r /\ Copied(r, live[i].snap)
                /\ Forgets(r, live[i].snap) \subseteq events'
                /\ store'[r].mode = live[i].pause /\ live[i].pause \in {"failures", "budget"}
  <2> DEFINE q == rows[i].task
  <2>1. PICK rec \in Record :
          /\ rec.mode = live[i].pause /\ rec.mode \in {"failures", "budget"}
          /\ rec.run = live[i].snap.run /\ rec.fires = live[i].snap.fires
          /\ rec.fired = live[i].snap.fired
          /\ \/ StoreSet(q, rec) /\ events' = events \cup Forgets(q, live[i].snap)
             \/ UNCHANGED <<store, events>>
    BY <1>5, PauseEffect
  <2> HIDE DEF q
  <2>2. CASE StoreSet(q, rec) /\ q = r /\ events' = events \cup Forgets(r, live[i].snap)
    BY <2>1, <2>2 DEF StoreSet, Copied, q
  <2>3. CASE UNCHANGED store \/ (StoreSet(q, rec) /\ q # r)
    BY <1>1, <2>3 DEF StoreSet, KeptRecord
  <2> QED
    BY <2>1, <2>2, <2>3
<1>6. ASSUME NEW q \in Routines, DeleteTask(q) PROVE KeptRecord(r)
  <2>1. PICK rec \in Record :
          /\ rec.mode = "deleted" /\ rec.run = store[q].run /\ rec.fires = store[q].fires
          /\ rec.fired = store[q].fired /\ StoreSet(q, rec)
          /\ events' = events \cup {<<"deleted", q>>}
    BY <1>6, DeleteEffect
  <2> QED
    BY <2>1 DEF StoreSet, KeptRecord
<1>7. ASSUME Crash PROVE KeptRecord(r)
  BY SMTT(40), <1>7, CrashEffect DEF KeptRecord
<1>8. \/ UNCHANGED store \/ (\E d \in due : Save(d)) \/ Repoint \/ EditSave
      \/ (\E i \in Runs : PauseSave(i)) \/ (\E q \in Routines : DeleteTask(q)) \/ Crash
  BY DEF Next, SchedulerStep, ExecutorStep, Attempt, Finalize, UserStep, vars, Advance, Drain,
         Guard, Spawn,
         SpawnFails, Retire, ActDone, AttemptSucceeds, AttemptFails, FinalizeRow,
         FinalizeHistory, PauseLoad, EditLoad, Trigger
<1> QED
  BY <1>1, <1>2, <1>3, <1>4, <1>5, <1>6, <1>7, <1>8

\* A pause that is about to save has its copy from before, or loads it now.
LEMMA SnapMoves ==
  ASSUME TypeInv, [Next]_vars, NEW i \in Runs, live'[i].phase = "save"
  PROVE  /\ rows'[i].task = rows[i].task
         /\ \/ live[i].phase = "save" /\ live'[i] = live[i]
            \/ /\ PauseLoad(i) /\ UNCHANGED <<store, events>> /\ rows[i].task \in Routines
               /\ live'[i].snap = store[rows[i].task]
<1> DEFINE Same == live'[i] = live[i] /\ rows'[i].task = rows[i].task
           Loads == /\ PauseLoad(i) /\ UNCHANGED <<store, events, rows>>
                    /\ rows[i].task \in Routines /\ live'[i].snap = store[rows[i].task]
<1>1. ASSUME UNCHANGED <<live, rows>> PROVE Same
  BY <1>1
<1>2. ASSUME NEW r \in Routines, NEW trigger \in {"scheduled", "manual"}, NEW tick \in Nat,
             StartRun(r, trigger, tick)
      PROVE  Same
  <2>1. /\ live'[nextId].phase \in {"attempt", "finish"}
        /\ \A j \in Runs : j # nextId => rows'[j] = rows[j] /\ live'[j] = live[j]
    BY <1>2, StartEffect
  <2> QED
    BY <2>1
<1>3. ASSUME Spawn PROVE Same
  BY <1>2, <1>3, SpawnEffect
<1>4. ASSUME NEW r \in Routines, Trigger(r) PROVE Same
  BY <1>2, <1>4 DEF Trigger
<1>5. ASSUME NEW j \in Runs, ExecutorStep(j) PROVE Same \/ Loads
  <2>1. CASE AttemptSucceeds(j) \/ AttemptFails(j)
    <3>1. PICK e : LiveSet(j, e) /\ e.phase \in {"attempt", "finish"} /\ UNCHANGED rows
      BY <2>1, AttemptEffect
    <3> QED
      BY <3>1 DEF LiveSet
  <2>2. CASE FinalizeHistory(j)
    <3>1. PICK e : LiveSet(j, e) /\ e.phase = "row" /\ UNCHANGED rows
      BY <2>2, HistoryEffect
    <3> QED
      BY <3>1 DEF LiveSet
  <2>3. CASE FinalizeRow(j)
    <3>1. PICK e : /\ LiveSet(j, e) /\ e.phase \in {"none", "load"}
                   /\ \A k \in Runs : k # j => rows'[k] = rows[k]
      BY <2>3, RowEffect
    <3> QED
      BY <3>1 DEF LiveSet
  <2>4. CASE PauseLoad(j)
    <3>1. PICK e : /\ LiveSet(j, e) /\ UNCHANGED <<rows, store, events>>
                   /\ e.phase = "none" \/ e.snap = store[rows[j].task]
                   /\ rows[j].task \in Routines
      BY <2>4, LoadEffect
    <3> QED
      BY <2>4, <3>1 DEF LiveSet
  <2>5. CASE PauseSave(j)
    <3>1. LiveSet(j, Idle) /\ UNCHANGED rows
      BY <2>5, PauseEffect
    <3> QED
      BY <3>1, Nothing DEF LiveSet
  <2> QED
    BY <1>5, <2>1, <2>2, <2>3, <2>4, <2>5 DEF ExecutorStep, Attempt, Finalize
<1>6. ASSUME Crash PROVE FALSE
  BY <1>6, CrashEffect, Nothing
<1>7. \/ UNCHANGED <<live, rows>> \/ Spawn \/ (\E r \in Routines : Trigger(r))
      \/ (\E j \in Runs : ExecutorStep(j)) \/ Crash
  BY DEF Next, SchedulerStep, UserStep, vars, Advance, Drain, Save, Guard, SpawnFails, Retire,
         Repoint, ActDone, EditSave, EditLoad, DeleteTask
<1>8. Same \/ Loads
  BY <1>1, <1>3, <1>4, <1>5, <1>6, <1>7
<1> QED
  BY <1>8

\* The user's copy is the one from before, or is loaded now.
LEMMA UiMoves ==
  ASSUME TypeInv, [Next]_vars, ui' # NoUi
  PROVE  \/ ui' = ui
         \/ /\ ui'.task \in Routines /\ ui'.rec = store[ui'.task] /\ UNCHANGED <<store, events>>
            /\ store[ui'.task].mode # "deleted"
<1>1. ASSUME NEW r \in Routines, EditLoad(r)
      PROVE  /\ ui'.task = r /\ ui'.rec = store[r] /\ UNCHANGED <<store, events>>
             /\ store[r].mode # "deleted"
  BY SMTT(40), <1>1, EditLoadEffect
<1>2. ui' = ui \/ ui' = NoUi \/ \E r \in Routines : EditLoad(r)
  BY DEF Next, SchedulerStep, ExecutorStep, Attempt, Finalize, UserStep, vars, Advance, Drain,
         Save, Guard, Spawn,
         SpawnFails, Retire, Repoint, ActDone, AttemptSucceeds, AttemptFails, FinalizeRow,
         FinalizeHistory, PauseLoad, PauseSave, EditSave, DeleteTask, Trigger, Crash
<1> QED
  BY <1>1, <1>2

\* Every step keeps PointersInv.
LEMMA PointersStep == TypeInv /\ IdInv /\ PointersInv /\ [Next]_vars => PointersInv'
<1> SUFFICES ASSUME TypeInv, IdInv, PointersInv, [Next]_vars PROVE PointersInv'
  OBVIOUS
<1> DEFINE Ok(i, r) == i \in Ids /\ Refers(i, r)
<1>1. /\ nextId' \in Nat /\ nextId \in Nat /\ nextId >= 1 /\ nextId <= nextId'
      /\ \A i, r : Ok(i, r) => Refers(i, r)'
  BY RefersOnward DEF TypeInv, StoresTyped
<1>2. \A r \in Routines : Ok(store[r].run, r) /\ Ok(mgr[r].run, r)
  BY DEF PointersInv, TypeInv, StoresTyped, TickTyped, Record
<1>3. ui # NoUi => Ok(ui.rec.run, ui.task)
  BY DEF PointersInv, TypeInv, RunsTyped, UiRec, Record
<1>4. \A i \in Runs : live[i].phase = "save" => Ok(live[i].snap.run, rows[i].task)
  BY DEF PointersInv, TypeInv, RunsTyped, Executor, Record
<1>5. pc \in {"supersede", "repoint"} => Ok(cur.started, cur.task)
  BY DEF PointersInv, TypeInv, TickTyped, Runs, Ids
<1>6. \A r : Ok(NoRun, r)
  <2>1. NoRun \in Ids /\ NoRun < nextId
    BY <1>1, NumbersAssumption DEF NoRun, Ids
  <2> QED
    BY <2>1 DEF Refers, IdInv
<1>7. ASSUME NEW r \in Routines PROVE Ok(store'[r].run, r)
  <2>1. CASE KeptRecord(r)
    BY <1>2, <2>1 DEF KeptRecord
  <2>2. CASE store'[r] = mgr[r]
    BY <1>2, <2>2
  <2>3. CASE Repoint /\ cur.task = r /\ store'[r] = mgr'[r]
    BY <1>5, <2>3, RepointEffect
  <2>4. CASE EditSave /\ ui.task = r /\ Copied(r, ui.rec)
    BY <1>3, <2>4, EditSaveEffect DEF Copied
  <2>5. ASSUME NEW i \in Runs, PauseSave(i), rows[i].task = r, Copied(r, live[i].snap)
        PROVE  Ok(store'[r].run, r)
    BY <1>4, <2>5, PauseEffect DEF Copied
  <2> HIDE DEF Ok
  <2> QED
    BY <2>1, <2>2, <2>3, <2>4, <2>5, StoreMoves
<1>8. ASSUME NEW r \in Routines PROVE Refers(mgr[r].run, r)'
  <2>0. ASSUME NEW i, mgr'[r].run = i, Ok(i, r) PROVE Refers(mgr[r].run, r)'
    BY <1>1, <2>0 DEF Refers
  <2>1. CASE UNCHANGED mgr
    BY <1>2, <2>0, <2>1
  <2>2. CASE Drain
    <3>1. PICK P, fire, id :
            P \in SUBSET Routines /\ Handed(P, fire, id) /\ (Listed(P, fire, id) \/ UNCHANGED mgr)
      BY <2>2, DrainEffect
    <3>2. CASE Listed(P, fire, id) /\ r \in P
      BY <3>1, <3>2 DEF Handed, Listed, Refers
    <3>3. CASE Listed(P, fire, id) /\ r \notin P
      BY <1>2, <2>0, <3>3 DEF Listed
    <3> QED
      BY <2>1, <3>1, <3>2, <3>3
  <2>3. CASE Repoint
    <3>1. mgr'[r] = mgr[r] \/ (cur.task = r /\ mgr'[r].run = cur.started /\ pc = "repoint")
      BY <2>3, RepointEffect
    <3> QED
      BY <1>2, <1>5, <2>0, <3>1
  <2>4. CASE mgr' = NoMgr
    BY SMTT(40), <1>6, <2>0, <2>4, Nothing DEF NoSnap
  <2>5. UNCHANGED mgr \/ Drain \/ Repoint \/ mgr' = NoMgr
    BY DEF Next, SchedulerStep, ExecutorStep, Attempt, Finalize, UserStep, vars, schedVars,
           Advance, Save, Guard,
           Spawn, SpawnFails, Retire, ActDone, ForgetTick, AttemptSucceeds, AttemptFails,
           FinalizeRow, FinalizeHistory, PauseLoad, PauseSave, EditSave, EditLoad, DeleteTask,
           Trigger, Crash
  <2> QED
    BY <2>1, <2>2, <2>3, <2>4, <2>5
<1>9. ui' # NoUi => Ok(ui'.rec.run, ui'.task)
  BY <1>2, <1>3, UiMoves
<1>10. ASSUME NEW i \in Runs, live'[i].phase = "save"
       PROVE  Ok(live'[i].snap.run, rows'[i].task)
  BY <1>2, <1>4, <1>10, SnapMoves
<1>11. ASSUME pc' \in {"supersede", "repoint"} PROVE Refers(cur.started, cur.task)'
  <2>1. CASE Spawn
    <3>1. /\ StartRun(cur.task, "scheduled", tickAt) /\ tickAt \in Nat /\ cur.task \in Routines
          /\ cur'.task = cur.task /\ cur'.started = nextId
      BY <2>1, SpawnEffect
    <3>2. /\ nextId \in Runs /\ nextId' = nextId + 1
          /\ \/ jsonl'[nextId].task = cur.task /\ jsonl'[nextId].status = "running"
             \/ UNCHANGED jsonl
      BY <3>1, StartEffect
    <3>3. jsonl[nextId].status = "none"
      BY <1>1, <3>2 DEF IdInv, Unused
    <3> QED
      BY <1>1, <3>1, <3>2, <3>3 DEF Refers
  <2>2. CASE pc \in {"supersede", "repoint"} /\ UNCHANGED cur
    BY SMTT(40), <1>1, <1>5, <2>2 DEF Refers
  <2>3. Spawn \/ (pc \in {"supersede", "repoint"} /\ UNCHANGED cur)
    BY <1>11 DEF Next, SchedulerStep, ExecutorStep, Attempt, Finalize, UserStep, vars,
           schedVars, Advance, Drain,
           Save, Guard, SpawnFails, Retire, Repoint, ActDone, ForgetTick, AttemptSucceeds,
           AttemptFails, FinalizeRow, FinalizeHistory, PauseLoad, PauseSave, EditSave, EditLoad,
           DeleteTask, Trigger, Crash
  <2> QED
    BY <2>1, <2>2, <2>3
<1>12. \A r \in Routines : Refers(store[r].run, r)'
  BY <1>1, <1>7 DEF Refers
<1>13. ui' # NoUi => Refers(ui.rec.run, ui.task)'
  BY <1>1, <1>9 DEF Refers
<1>14. \A i \in Runs : live'[i].phase = "save" => Refers(live[i].snap.run, rows[i].task)'
  BY <1>1, <1>10 DEF Refers
<1> QED
  BY <1>8, <1>11, <1>12, <1>13, <1>14 DEF PointersInv

\* Every step keeps ModesInv.
LEMMA ModesStep == TypeInv /\ ModesInv /\ [Next]_vars => ModesInv'
<1> SUFFICES ASSUME TypeInv, ModesInv, [Next]_vars PROVE ModesInv'
  OBVIOUS
<1>0. events \subseteq events'
  BY Onward
<1>1. ASSUME NEW r \in Routines, store'[r].mode = "deleted" PROVE <<"deleted", r>> \in events'
  <2>1. CASE KeptRecord(r)
    BY <1>0, <1>1, <2>1 DEF KeptRecord, ModesInv
  <2>2. ASSUME NEW d \in due, d.task = r, store'[r] = mgr[r] PROVE FALSE
    BY <1>1, <2>2 DEF ModesInv
  <2>3. CASE Repoint /\ cur.task = r /\ store'[r] = mgr'[r]
    <3>1. pc = "repoint" /\ store'[r].mode = mgr[r].mode
      BY <2>3, RepointEffect
    <3> QED
      BY <1>1, <2>3, <3>1 DEF ModesInv
  <2>4. CASE EditSave /\ store'[r].mode \in {ui.rec.mode, "enabled", "disabled"}
    <3>1. ui # NoUi
      BY <2>4, EditSaveEffect
    <3> QED
      BY <1>1, <2>4, <3>1 DEF ModesInv
  <2>5. CASE store'[r].mode \in {"failures", "budget"}
    BY <1>1, <2>5
  <2> QED
    BY <2>1, <2>2, <2>3, <2>4, <2>5, StoreMoves
<1>2. ui' # NoUi => ui'.rec.mode # "deleted"
  BY UiMoves DEF ModesInv
<1>3. ASSUME Drain, pc' = "act" PROVE \A d \in due' : mgr'[d.task].mode = "enabled"
  <2>1. PICK P, fire, id :
          /\ P \in SUBSET Routines
          /\ \A r \in P : MayFire(r)
          /\ Listed(P, fire, id)
    BY <1>3, DrainEffect
  <2>2. \A r \in P : mgr'[r].mode = "enabled"
    BY <2>1 DEF Listed, MayFire
  <2> QED
    BY <2>1, <2>2 DEF Listed
<1>4. (\A d \in due : d.task \in Routines) /\ (pc \notin {"idle", "act"} => cur.task \in Routines)
  BY DEF TypeInv, TickTyped, Due
<1>5. \A d \in due' : mgr'[d.task].mode = "enabled"
  BY <1>3, <1>4, TickMoves DEF ModesInv
<1>6. pc' \notin {"idle", "act"} => mgr'[cur'.task].mode = "enabled"
  BY <1>4, TickMoves DEF ModesInv
<1> QED
  BY <1>1, <1>2, <1>5, <1>6 DEF ModesInv

\* A routine that the drain lets through has its dependencies met.
LEMMA Unblocked ==
  ASSUME TypeInv, HistoryInv, PointersInv, ModesInv, IdInv, NEW r \in Routines, ~Blocked(r)
  PROVE  Met(r)
<1> SUFFICES ASSUME NEW d \in DependsOn[r]
             PROVE  <<"succeeded", d>> \in events \/ <<"deleted", d>> \in events
  BY DEF Met
<1>1. d \in Routines
  BY RoutinesAssumption
<1>2. store[d].mode = "deleted" \/ jsonl[store[d].run].status = "succeeded"
  BY DEF Blocked, LastStatus
<1>3. CASE store[d].mode = "deleted"
  BY <1>1, <1>3 DEF ModesInv
<1>4. CASE jsonl[store[d].run].status = "succeeded"
  <2>1. jsonl[store[d].run].task = d
    BY <1>1, <1>4 DEF PointersInv, Refers
  <2>2. store[d].run \in Ids /\ store[d].run # NoRun
    BY <1>1, <1>4 DEF TypeInv, StoresTyped, Record, IdInv
  <2>3. store[d].run \in Runs
    BY <2>2, NumbersAssumption DEF Ids, Runs, NoRun
  <2> QED
    BY <1>4, <2>1, <2>3 DEF HistoryInv
<1> QED
  BY <1>2, <1>3, <1>4

\* Every step keeps MetInv.
LEMMA MetStep ==
  TypeInv /\ IdInv /\ HistoryInv /\ PointersInv /\ ModesInv /\ MetInv /\ [Next]_vars => MetInv'
<1> SUFFICES ASSUME TypeInv, IdInv, HistoryInv, PointersInv, ModesInv, MetInv, [Next]_vars
             PROVE  MetInv'
  OBVIOUS
<1>1. \A r : Met(r) => Met(r)'
  BY Onward DEF Met
<1>2. \A d \in due' : Met(d.task)'
  <2>1. ASSUME Drain, pc' = "act", NEW d \in due' PROVE Met(d.task)
    <3>1. PICK P, fire, id :
            P \in SUBSET Routines /\ (\A r \in P : ~Blocked(r)) /\ Listed(P, fire, id)
      BY <2>1, DrainEffect
    <3>2. d.task \in P
      BY <2>1, <3>1 DEF Listed
    <3> QED
      BY <3>1, <3>2, Unblocked
  <2>2. \A d \in due' : Met(d.task)
    BY <2>1, TickMoves DEF MetInv
  <2> QED
    BY <1>1, <2>2
<1>3. pc' \notin {"idle", "act"} => Met(cur'.task)
  BY TickMoves DEF MetInv
<1>4. pc' \notin {"idle", "act"} => Met(cur.task)'
  BY <1>1, <1>3 DEF Met
<1>5. ASSUME NEW r \in Routines, Scheduled(r)' # {} PROVE Met(r)
  <2>1. CASE RowsKept
    BY <1>5, <2>1, ScheduledKept DEF MetInv, DependentsWait, Met
  <2>2. CASE Spawn
    <3>1. pc = "spawn"
      BY <2>2, SpawnEffect
    <3>2. r # cur.task => Scheduled(r) # {}
      BY <1>5, <2>2, ScheduledMore
    <3> QED
      BY <3>1, <3>2 DEF MetInv, DependentsWait, Met
  <2> QED
    BY <2>1, <2>2, RowsStep
<1>6. DependentsWait'
  BY <1>1, <1>5 DEF DependentsWait, Met
<1> QED
  BY <1>2, <1>4, <1>6 DEF MetInv

\* What the invariants of this section say at first.
LEMMA DependenciesInit == Init => HistoryInv /\ PointersInv /\ ModesInv /\ MetInv
<1> SUFFICES ASSUME Init PROVE HistoryInv /\ PointersInv /\ ModesInv /\ MetInv
  OBVIOUS
<1>1. /\ \A i \in Ids : jsonl[i].status = "none"
      /\ \A i \in Runs : live[i].phase = "none" /\ rows[i] = NoRow
      /\ pc = "idle" /\ due = {} /\ ui = NoUi /\ nextId = 1 /\ Runs \subseteq Ids
  BY Nothing DEF Init, Runs, Ids
<1>2. \A r \in Routines : store[r].run = NoRun /\ mgr[r].run = NoRun /\ store[r].mode = "enabled"
  BY DEF Init, New, NoMgr, NoSnap
<1>3. NoRun \in Ids /\ NoRun < 1
  BY NumbersAssumption DEF NoRun, Ids
<1>4. HistoryInv
  BY <1>1 DEF HistoryInv
<1>5. PointersInv
  BY <1>1, <1>2, <1>3 DEF PointersInv, Refers
<1>6. ModesInv
  BY <1>1, <1>2 DEF ModesInv
<1>7. MetInv
  BY <1>1 DEF MetInv, DependentsWait, Scheduled, NoRow
<1> QED
  BY <1>4, <1>5, <1>6, <1>7

\* A routine runs on schedule only after each of its dependencies has succeeded
\* once or was deleted.
THEOREM DependentsStart == Spec => []DependentsWait
<1>1. MetInv => DependentsWait
  BY DEF MetInv
<1> QED
  BY <1>1, TypeInit, TypeStep, IdInit, IdStep, DependenciesInit, HistoryStep, PointersStep,
     ModesStep, MetStep, PTL DEF Spec

-----------------------------------------------------------------------------
(* Owners of running records *)

\* Who owns what, as long as nothing has failed.
Owned ==
  /\ \A i \in Runs : jsonl[i].status = "running" =>
       live[i].phase # "none" \/ \E d \in due \cup {cur} : d.run = i
  /\ \A i \in Runs : rows[i].status = "running" => live[i].phase # "none"
  /\ \A i \in Runs : live[i].phase \in {"row", "load", "save"} => jsonl[i].status # "running"
  /\ \A i \in Runs : live[i].phase \in {"load", "save"} => rows[i].status # "running"
  /\ \A d \in due : d.queued = "yes" => jsonl[d.run].status # "running"
  /\ pc = "repoint" => jsonl[cur.run].status # "running"
OwnedInv ==
  /\ pc \in {"idle", "act"} => cur = NoCur
  /\ pc = "idle" => due = {}
  /\ faults = 0 => Owned

\* A failure is not forgotten.
LEMMA FaultsStay ==
  ASSUME TypeInv, [Next]_vars, faults' = 0
  PROVE  faults = 0
<1>1. faults \in Nat
  BY SMTT(40) DEF TypeInv, ClocksTyped
<1>2. faults' = faults \/ faults' = faults + 1
  BY DEF Next, SchedulerStep, ExecutorStep, Attempt, Finalize, UserStep, vars, Advance, Drain,
         Save, Guard, Spawn,
         SpawnFails, Retire, Repoint, ActDone, AttemptSucceeds, AttemptFails, FinalizeRow,
         FinalizeHistory, PauseLoad, PauseSave, EditSave, EditLoad, DeleteTask, Trigger, Crash,
         StartRun, Mirror, Fault, NoFault
<1> QED
  BY <1>1, <1>2

\* Owned after a step of one executor.
LEMMA OwnedExecute ==
  ASSUME TypeInv, Owned, NEW i \in Runs, NEW e, LiveSet(i, e), UNCHANGED schedVars,
         \A j \in Runs : j # i => rows'[j] = rows[j] /\ jsonl'[j] = jsonl[j],
         jsonl'[i].status = "running" =>
           jsonl[i].status = "running" /\ e.phase \in {"attempt", "finish"},
         rows'[i].status = "running" => e.phase \in {"attempt", "finish", "row"}
  PROVE  Owned'
<1>1. \A j \in Runs : jsonl'[j].status = "running" => jsonl[j].status = "running"
  OBVIOUS
<1>2. (\A d \in due : d.run \in Runs) /\ (pc = "repoint" => cur.run \in Runs)
  BY DEF TypeInv, TickTyped, Due
<1>3. UNCHANGED <<pc, due, cur>>
  BY DEF schedVars
<1>4. \A j \in Runs : /\ live'[j].phase \in {"row", "load", "save"} => jsonl'[j].status # "running"
                      /\ live'[j].phase \in {"load", "save"} => rows'[j].status # "running"
                      /\ rows'[j].status = "running" => live'[j].phase # "none"
  BY DEF Owned, LiveSet
<1>5. \A j \in Runs : jsonl'[j].status = "running" =>
        live'[j].phase # "none" \/ \E d \in due' \cup {cur'} : d.run = j
  BY <1>1, <1>3 DEF Owned, LiveSet
<1>6. /\ \A d \in due' : d.queued = "yes" => jsonl'[d.run].status # "running"
      /\ pc' = "repoint" => jsonl'[cur'.run].status # "running"
  BY <1>1, <1>2, <1>3 DEF Owned
<1> QED
  BY <1>4, <1>5, <1>6 DEF Owned

\* Owned after a run is started.
LEMMA OwnedStart ==
  ASSUME TypeInv, IdInv, Owned, NEW r \in Routines, NEW trigger \in {"scheduled", "manual"},
         NEW tick \in Nat, StartRun(r, trigger, tick), UNCHANGED due, cur'.run = cur.run,
         pc' = "repoint" => pc = "repoint"
  PROVE  Owned'
<1>1. /\ nextId \in Runs /\ live'[nextId].phase \in {"attempt", "finish"}
      /\ rows'[nextId].status = "running"
      /\ \A i \in Runs : i # nextId => rows'[i] = rows[i] /\ live'[i] = live[i]
      /\ \A i \in Ids : i # nextId => jsonl'[i] = jsonl[i]
  BY StartEffect
<1>2. nextId \in Nat /\ Runs \subseteq Ids /\ Runs \subseteq Nat
  BY DEF TypeInv, StoresTyped, Runs, Ids
<1>3. (\A d \in due : d.run \in Runs) /\ (pc = "repoint" => cur.run \in Runs)
  BY DEF TypeInv, TickTyped, Due
<1>4. /\ \A d \in due : d.run # nextId
      /\ pc = "repoint" => cur.run # nextId
  BY <1>2, <1>3 DEF IdInv, Handled
<1>5. \A i \in Runs : /\ live'[i].phase \in {"row", "load", "save"} => jsonl'[i].status # "running"
                      /\ live'[i].phase \in {"load", "save"} => rows'[i].status # "running"
                      /\ rows'[i].status = "running" => live'[i].phase # "none"
  BY <1>1, <1>2 DEF Owned
<1>6. ASSUME NEW i \in Runs, jsonl'[i].status = "running"
      PROVE  live'[i].phase # "none" \/ \E d \in due' \cup {cur'} : d.run = i
  <2>1. CASE i = nextId
    BY <1>1, <2>1
  <2>2. CASE i # nextId
    BY <1>1, <1>2, <1>6, <2>2 DEF Owned
  <2> QED
    BY <2>1, <2>2
<1>7. /\ \A d \in due : jsonl'[d.run] = jsonl[d.run]
      /\ pc = "repoint" => jsonl'[cur.run] = jsonl[cur.run]
  BY <1>1, <1>2, <1>3, <1>4
<1>8. \A d \in due' : d.queued = "yes" => jsonl'[d.run].status # "running"
  BY <1>7 DEF Owned
<1>9. pc' = "repoint" => jsonl'[cur'.run].status # "running"
  BY <1>7 DEF Owned
<1> QED
  BY <1>5, <1>6, <1>8, <1>9 DEF Owned

\* Every step keeps OwnedInv.
LEMMA OwnedStep == TypeInv /\ IdInv /\ OwnedInv /\ [Next]_vars => OwnedInv'
<1> SUFFICES ASSUME TypeInv, IdInv, OwnedInv, [Next]_vars PROVE OwnedInv'
  OBVIOUS
<1>0. /\ Runs \subseteq Ids /\ Runs \subseteq Nat /\ nextId \in Nat /\ NoCur.run \notin Runs
      /\ faults \in Nat /\ \A d \in due : d.run \in Runs
      /\ pc \notin {"idle", "act"} => cur.run \in Runs
  BY SMTT(40), NumbersAssumption DEF TypeInv, StoresTyped, ClocksTyped, TickTyped, Due, Runs, Ids, NoCur, NoRun
<1>1. pc' \in {"idle", "act"} => cur' = NoCur
  BY ZenonT(60) DEF OwnedInv, Next, SchedulerStep, ExecutorStep, Attempt, Finalize, UserStep,
         vars, schedVars, Advance, Drain,
         Save, Guard, Spawn, SpawnFails, Retire, Repoint, ActDone, ForgetTick, AttemptSucceeds,
         AttemptFails, FinalizeRow, FinalizeHistory, PauseLoad, PauseSave, EditSave, EditLoad,
         DeleteTask, Trigger, Crash
<1>2. pc' = "idle" => due' = {}
  BY DEF OwnedInv, Next, SchedulerStep, ExecutorStep, Attempt, Finalize, UserStep, vars,
         schedVars, Advance, Drain,
         Save, Guard, Spawn, SpawnFails, Retire, Repoint, ActDone, ForgetTick, AttemptSucceeds,
         AttemptFails, FinalizeRow, FinalizeHistory, PauseLoad, PauseSave, EditSave, EditLoad,
         DeleteTask, Trigger, Crash
<1>3. ASSUME faults' = 0 PROVE Owned'
  <2>0. faults = 0 /\ Owned /\ faults' # faults + 1
    BY <1>3, FaultsStay DEF OwnedInv
  <2>1. CASE UNCHANGED <<jsonl, rows, live, pc, due, cur>>
    BY <2>0, <2>1 DEF Owned
  <2>2. CASE Drain
    <3>1. UNCHANGED <<rows, live, cur>> /\ pc = "idle"
      BY <2>2, DrainEffect
    <3>2. PICK P, fire, id :
            P \in SUBSET Routines /\ Handed(P, fire, id) /\ Listed(P, fire, id) /\ pc' = "act"
      BY <2>0, <2>2, DrainEffect
    <3>3. due = {} /\ cur = NoCur
      BY <3>1 DEF OwnedInv
    <3>4. \A i \in Runs : jsonl'[i] = jsonl[i] \/ \E r \in P : id[r] = i /\ i >= nextId
      BY <1>0, <3>2 DEF Handed
    <3>5. ASSUME NEW i \in Runs, live[i].phase # "none" PROVE jsonl'[i] = jsonl[i]
      <4>1. i < nextId /\ i \in Nat
        BY <1>0, <3>5, GivenOut
      <4> QED
        BY <1>0, <3>4, <4>1
    <3>6. ASSUME NEW i \in Runs, jsonl'[i].status = "running"
          PROVE  live'[i].phase # "none" \/ \E d \in due' \cup {cur'} : d.run = i
      <4>1. CASE jsonl'[i] = jsonl[i]
        BY <1>0, <2>0, <3>1, <3>3, <3>6, <4>1 DEF Owned
      <4>2. CASE \E r \in P : id[r] = i
        BY <3>2, <4>2 DEF Listed
      <4> QED
        BY <3>4, <4>1, <4>2
    <3>7. ASSUME NEW d \in due', d.queued = "yes" PROVE jsonl'[d.run].status # "running"
      <4>1. d.task \in P /\ d.run = id[d.task] /\ d.task \notin fire
        BY <3>2, <3>7 DEF Listed
      <4> QED
        BY <3>2, <4>1 DEF Handed
    <3> QED
      BY <2>0, <3>1, <3>2, <3>5, <3>6, <3>7 DEF Owned
  <2>3. ASSUME NEW d \in due, Save(d) PROVE Owned'
    <3>1. /\ pc = "act" /\ due' = due \ {d} /\ UNCHANGED <<jsonl, rows, live>>
          /\ \/ d.queued = "yes" /\ UNCHANGED <<pc, cur>>
             \/ pc' = "guard" /\ cur' = d
      BY <2>0, <2>3, SaveEffect
    <3>2. cur = NoCur
      BY <3>1 DEF OwnedInv
    <3>3. ASSUME NEW i \in Runs, jsonl[i].status = "running", live[i].phase = "none"
          PROVE  \E x \in due' \cup {cur'} : x.run = i
      <4>1. PICK x \in due : x.run = i
        BY <1>0, <2>0, <3>2, <3>3 DEF Owned
      <4>2. x = d => d.queued # "yes"
        BY <2>0, <3>3, <4>1 DEF Owned
      <4> QED
        BY <3>1, <4>1, <4>2
    <3> QED
      BY <2>0, <3>1, <3>3 DEF Owned
  <2>4. CASE Guard \/ SpawnFails
    <3>1. UNCHANGED <<jsonl, rows, live, due, cur>> /\ pc' # "repoint"
      BY <2>4, GuardEffect DEF SpawnFails
    <3> QED
      BY <2>0, <3>1 DEF Owned
  <2>5. CASE Spawn
    <3>1. /\ StartRun(cur.task, "scheduled", tickAt) /\ tickAt \in Nat /\ cur.task \in Routines
          /\ UNCHANGED due /\ cur'.run = cur.run /\ pc' = "supersede"
      BY <2>5, SpawnEffect
    <3> QED
      BY <2>0, <3>1, OwnedStart
  <2>6. ASSUME NEW r \in Routines, Trigger(r) PROVE Owned'
    <3>1. StartRun(r, "manual", 0) /\ UNCHANGED <<due, cur, pc>>
      BY <2>6, TriggerEffect DEF schedVars
    <3> QED
      BY <2>0, <3>1, OwnedStart
  <2>7. CASE Retire
    <3>1. /\ \/ pc = "retire" /\ pc' = "act" /\ cur' = NoCur
             \/ pc = "supersede" /\ pc' = "repoint" /\ UNCHANGED cur
          /\ cur.run \in Runs /\ jsonl'[cur.run].status = "cancelled"
          /\ \A i \in Runs : i # cur.run => jsonl'[i] = jsonl[i]
          /\ UNCHANGED <<rows, live, due>>
      BY <1>0, <2>0, <2>7, RetireEffect
    <3>2. \A i \in Runs : jsonl'[i].status = "running" => jsonl[i].status = "running" /\ i # cur.run
      BY <3>1
    <3>3. \A i \in Runs : jsonl'[i].status = "running" =>
            live'[i].phase # "none" \/ \E d \in due' \cup {cur'} : d.run = i
      BY <2>0, <3>1, <3>2 DEF Owned
    <3>4. \A d \in due' : d.queued = "yes" => jsonl'[d.run].status # "running"
      BY <1>0, <2>0, <3>1, <3>2 DEF Owned
    <3> QED
      BY <2>0, <3>1, <3>2, <3>3, <3>4 DEF Owned
  <2>8. CASE Repoint
    <3>1. /\ pc = "repoint" /\ pc' = "act" /\ cur' = NoCur
          /\ UNCHANGED <<jsonl, rows, live, due>>
      BY <2>8, RepointEffect
    <3>2. \A i \in Runs : jsonl[i].status = "running" => i # cur.run
      BY <2>0, <3>1 DEF Owned
    <3> QED
      BY <2>0, <3>1, <3>2 DEF Owned
  <2>9. CASE ActDone
    <3>1. /\ pc = "act" /\ pc' = "idle" /\ due = {} /\ due' = {} /\ cur' = NoCur
          /\ UNCHANGED <<jsonl, rows, live>>
      BY <2>9 DEF ActDone, ForgetTick
    <3>2. cur = NoCur
      BY <3>1 DEF OwnedInv
    <3> QED
      BY <2>0, <3>1, <3>2 DEF Owned
  <2>10. ASSUME NEW i \in Runs, ExecutorStep(i) PROVE Owned'
    <3>1. CASE AttemptSucceeds(i) \/ AttemptFails(i)
      <4>1. PICK e : /\ LiveSet(i, e) /\ UNCHANGED <<jsonl, rows, schedVars>>
                     /\ e.phase \in {"attempt", "finish"}
        BY <3>1, AttemptEffect
      <4> QED
        BY <2>0, <4>1, OwnedExecute
    <3>2. CASE FinalizeHistory(i)
      <4>1. PICK e : /\ LiveSet(i, e) /\ UNCHANGED <<rows, schedVars>> /\ e.phase = "row"
                     /\ \A j \in Ids : j # i => jsonl'[j] = jsonl[j]
                     /\ jsonl'[i].status \in {"none", Verdict(i)}
        BY <2>0, <3>2, HistoryEffect
      <4>2. jsonl'[i].status # "running"
        BY <4>1 DEF Verdict
      <4> QED
        BY <1>0, <2>0, <4>1, <4>2, OwnedExecute
    <3>3. CASE FinalizeRow(i)
      <4>1. PICK e : /\ LiveSet(i, e) /\ UNCHANGED <<jsonl, schedVars>> /\ live[i].phase = "row"
                     /\ \A j \in Runs : j # i => rows'[j] = rows[j]
                     /\ rows'[i].status = Verdict(i)
        BY <2>0, <3>3, RowEffect
      <4>2. rows'[i].status # "running" /\ jsonl[i].status # "running"
        BY <2>0, <4>1 DEF Verdict, Owned
      <4> QED
        BY <2>0, <4>1, <4>2, OwnedExecute
    <3>4. CASE PauseLoad(i) \/ PauseSave(i)
      <4>1. PICK e : LiveSet(i, e)
        BY <3>4, LoadEffect, PauseEffect
      <4>2. /\ live[i].phase \in {"load", "save"} /\ UNCHANGED <<jsonl, rows, schedVars>>
        BY <3>4 DEF PauseLoad, PauseSave
      <4>3. rows[i].status # "running" /\ jsonl[i].status # "running"
        BY <2>0, <4>2 DEF Owned
      <4> QED
        BY <2>0, <4>1, <4>2, <4>3, OwnedExecute
    <3> QED
      BY <2>10, <3>1, <3>2, <3>3, <3>4 DEF ExecutorStep, Attempt, Finalize
  <2>11. CASE Crash
    BY <2>0, <2>11, CrashEffect
  <2>12. \/ UNCHANGED <<jsonl, rows, live, pc, due, cur>> \/ SchedulerStep
         \/ (\E r \in Routines : Trigger(r)) \/ (\E i \in Runs : ExecutorStep(i)) \/ Crash
    BY DEF Next, UserStep, vars, schedVars, Advance, EditSave, EditLoad, DeleteTask
  <2> QED
    BY <2>1, <2>2, <2>3, <2>4, <2>5, <2>6, <2>7, <2>8, <2>9, <2>10, <2>11, <2>12
    DEF SchedulerStep
<1> QED
  BY <1>1, <1>2, <1>3 DEF OwnedInv

\* The invariant holds at first.
LEMMA OwnedInit == Init => OwnedInv
<1> SUFFICES ASSUME Init PROVE OwnedInv
  OBVIOUS
<1>1. /\ \A i \in Ids : jsonl[i].status = "none"
      /\ \A i \in Runs : live[i].phase = "none" /\ rows[i] = NoRow
      /\ pc = "idle" /\ due = {} /\ cur = NoCur /\ Runs \subseteq Ids
  BY Nothing DEF Init, Runs, Ids
<1> QED
  BY <1>1 DEF OwnedInv, Owned, NoRow

\* As long as nothing fails, a running record is an executor's or a placeholder
\* of the tick, and a running row is an executor's.
THEOREM RunningOwned == Spec => []RunningIsOwned
<1>1. OwnedInv => RunningIsOwned
  BY DEF OwnedInv, Owned, RunningIsOwned
<1> QED
  BY <1>1, TypeInit, TypeStep, IdInit, IdStep, OwnedInit, OwnedStep, PTL DEF Spec

-----------------------------------------------------------------------------
(* Pauses *)

Failed(r) == {i \in Scheduled(r) : rows[i].status = "failed"}
Earned(r) == Cardinality(Failed(r)) >= PauseAfter
RunEarned(i) ==
  live[i].pause = "failures" =>
    /\ live[i].phase = "row" =>
         /\ live[i].outcome = "fail" /\ rows[i].trigger = "scheduled"
         /\ Cardinality(Failed(rows[i].task)) >= PauseAfter - 1
    /\ live[i].phase \in {"load", "save"} => Earned(rows[i].task)
PauseInv ==
  faults = 0 =>
    /\ \A r \in Routines : store[r].mode = "failures" => Earned(r)
    /\ ui # NoUi /\ ui.rec.mode = "failures" => Earned(ui.task)
    /\ \A i \in Runs : RunEarned(i)

\* No step undoes a failure.
LEMMA FailedStay ==
  ASSUME TypeInv, IdInv, [Next]_vars, NEW r
  PROVE  /\ Cardinality(Failed(r)) \in Nat /\ Cardinality(Failed(r)') \in Nat
         /\ Cardinality(Failed(r)) <= Cardinality(Failed(r)')
<1>1. Failed(r) \subseteq Failed(r)'
  <2>1. CASE RowsKept
    BY <2>1 DEF RowsKept, Failed, Scheduled
  <2>2. CASE Spawn
    <3>1. /\ Scheduled(r) \subseteq Scheduled(r)' /\ Scheduled(r) \subseteq Runs
          /\ \A i \in Runs : i # nextId => rows'[i] = rows[i]
          /\ \A i \in Scheduled(r) : i < nextId
      BY <2>2, ScheduledMore DEF Scheduled
    <3>2. \A i \in Scheduled(r) : i # nextId
      BY <3>1 DEF TypeInv, StoresTyped, Runs
    <3> QED
      BY <3>1, <3>2 DEF Failed
  <2> QED
    BY <2>1, <2>2, RowsStep
<1>2. Failed(r)' \subseteq Runs
  BY DEF Failed, Scheduled
<1> QED
  BY <1>1, <1>2, RunsFewer

\* Every step keeps PauseInv.
LEMMA PauseStep ==
  TypeInv /\ IdInv /\ ModesInv /\ PauseInv /\ [Next]_vars => PauseInv'
<1> SUFFICES ASSUME TypeInv, IdInv, ModesInv, PauseInv, [Next]_vars, faults' = 0
             PROVE  /\ \A r \in Routines : store'[r].mode = "failures" => Earned(r)'
                    /\ ui' # NoUi /\ ui'.rec.mode = "failures" => Earned(ui.task)'
                    /\ \A i \in Runs : RunEarned(i)'
  BY DEF PauseInv
<1>0. /\ faults = 0 /\ faults' # faults + 1 /\ PauseAfter \in Nat /\ PauseAfter >= 1
      /\ \A r \in Routines : store[r].mode = "failures" => Earned(r)
      /\ ui # NoUi /\ ui.rec.mode = "failures" => Earned(ui.task)
      /\ \A i \in Runs : RunEarned(i)
  BY FaultsStay, NumbersAssumption DEF PauseInv
<1>1. ASSUME NEW r, Earned(r) PROVE Earned(r)'
  <2>1. /\ Cardinality(Failed(r)) \in Nat /\ Cardinality(Failed(r)') \in Nat
        /\ Cardinality(Failed(r)) <= Cardinality(Failed(r)')
    BY FailedStay
  <2> QED
    BY <1>0, <1>1, <2>1 DEF Earned
<1>2. ASSUME NEW r \in Routines, store'[r].mode = "failures" PROVE Earned(r)
  <2>1. CASE KeptRecord(r)
    BY <1>0, <1>2, <2>1 DEF KeptRecord
  <2>2. ASSUME NEW d \in due, d.task = r, store'[r] = mgr[r] PROVE FALSE
    BY <1>2, <2>2 DEF ModesInv
  <2>3. CASE Repoint /\ cur.task = r /\ store'[r] = mgr'[r]
    <3>1. pc = "repoint" /\ store'[r].mode = mgr[r].mode
      BY <2>3, RepointEffect
    <3> QED
      BY <1>2, <2>3, <3>1 DEF ModesInv
  <2>4. CASE EditSave /\ ui.task = r /\ store'[r].mode \in {ui.rec.mode, "enabled", "disabled"}
    <3>1. ui # NoUi
      BY <2>4, EditSaveEffect
    <3> QED
      BY <1>0, <1>2, <2>4, <3>1
  <2>5. ASSUME NEW i \in Runs, PauseSave(i), rows[i].task = r, store'[r].mode = live[i].pause
        PROVE  Earned(r)
    <3>1. live[i].phase = "save"
      BY <2>5 DEF PauseSave
    <3> QED
      BY <1>0, <1>2, <2>5, <3>1 DEF RunEarned
  <2> QED
    BY <2>1, <2>2, <2>3, <2>4, <2>5, StoreMoves
<1>3. ui' # NoUi /\ ui'.rec.mode = "failures" => Earned(ui'.task)
  BY <1>0, UiMoves
<1>4. ASSUME NEW i \in Runs PROVE RunEarned(i)'
  <2> DEFINE r == rows[i].task
             Same == /\ live'[i] = live[i] /\ rows'[i].task = rows[i].task
                     /\ rows'[i].trigger = rows[i].trigger
             Goal == RunEarned(i)'
  <2>0. ASSUME rows'[i].task = rows[i].task
        PROVE  /\ Earned(rows[i].task) => Earned(rows[i].task)'
               /\ Cardinality(Failed(rows[i].task)) >= PauseAfter - 1 =>
                    Cardinality(Failed(rows[i].task)') >= PauseAfter - 1
    <3>1. PICK q : q = rows[i].task
      OBVIOUS
    <3>2. /\ Cardinality(Failed(q)) \in Nat /\ Cardinality(Failed(q)') \in Nat
          /\ Cardinality(Failed(q)) <= Cardinality(Failed(q)')
      BY FailedStay
    <3>3. /\ Earned(q) => Earned(q)'
          /\ Cardinality(Failed(q)) >= PauseAfter - 1 => Cardinality(Failed(q)') >= PauseAfter - 1
      BY <1>0, <1>1, <3>2
    <3>4. Failed(rows[i].task)' = Failed(q)' /\ Failed(rows[i].task) = Failed(q)
      BY <2>0, <3>1 DEF Failed, Scheduled
    <3> QED
      BY <3>3, <3>4 DEF Earned
  <2>1. ASSUME Same PROVE Goal
    BY <1>0, <2>0, <2>1 DEF RunEarned
  <2>2. ASSUME NEW q \in Routines, NEW trigger \in {"scheduled", "manual"}, NEW tick \in Nat,
               StartRun(q, trigger, tick)
        PROVE  Goal
    <3>1. /\ live'[nextId].pause = "no"
          /\ \A j \in Runs : j # nextId => rows'[j] = rows[j] /\ live'[j] = live[j]
      BY <2>2, StartEffect
    <3>2. CASE i = nextId
      BY <3>1, <3>2 DEF RunEarned
    <3>3. CASE i # nextId
      BY <2>1, <3>1, <3>3
    <3> QED
      BY <3>2, <3>3
  <2>3. ASSUME NEW j \in Runs, ExecutorStep(j), j # i PROVE Goal
    <3>1. PICK e : LiveSet(j, e)
      BY <2>3, AttemptEffect, HistoryEffect, RowEffect, LoadEffect,
             PauseEffect DEF ExecutorStep, Attempt, Finalize
    <3>2. UNCHANGED rows \/ (FinalizeRow(j) /\ \A k \in Runs : k # j => rows'[k] = rows[k])
      BY <2>3, RowEffect
      DEF ExecutorStep, Attempt, Finalize, AttemptSucceeds, AttemptFails, FinalizeHistory,
      PauseLoad, PauseSave
    <3> QED
      BY <2>1, <2>3, <3>1, <3>2 DEF LiveSet
  <2>4. ASSUME ExecutorStep(i) PROVE Goal
    <3>1. CASE AttemptSucceeds(i) \/ AttemptFails(i)
      <4>1. PICK e : LiveSet(i, e) /\ e.phase \in {"attempt", "finish"}
        BY <3>1, AttemptEffect
      <4> QED
        BY <4>1 DEF RunEarned, LiveSet
    <3>2. CASE FinalizeHistory(i)
      <4>1. PICK e : /\ LiveSet(i, e) /\ e.phase = "row" /\ e.outcome = live[i].outcome
                     /\ e.pause = "failures" => PauseDue(i)
                     /\ UNCHANGED rows
        BY <3>2, HistoryEffect
      <4>2. ASSUME PauseDue(i)
            PROVE  /\ live[i].outcome = "fail" /\ rows[i].trigger = "scheduled"
                   /\ Cardinality(Failed(r)) >= PauseAfter - 1
        <5>1. PICK F \in SUBSET After(r, Cutoff(r)) :
                /\ Cardinality(F) = PauseAfter - 1
                /\ \A k \in F : rows[k].status = "failed" /\ rows[k].trigger = "scheduled"
          BY <4>2 DEF PauseDue, Streak
        <5>2. F \subseteq Failed(r) /\ Failed(r) \subseteq Runs
          BY <5>1 DEF After, Failed, Scheduled
        <5>3. /\ Cardinality(F) <= Cardinality(Failed(r)) /\ Cardinality(F) \in Nat
              /\ Cardinality(Failed(r)) \in Nat
          BY <5>2, RunsFewer
        <5> QED
          BY <1>0, <4>2, <5>1, <5>3 DEF PauseDue
      <4> QED
        BY <2>0, <4>1, <4>2 DEF RunEarned, LiveSet
    <3>3. CASE FinalizeRow(i)
      <4>1. PICK e : /\ LiveSet(i, e) /\ live[i].phase = "row"
                     /\ \/ e.pause = "no"
                        \/ e.phase = "load" /\ e.pause = live[i].pause
                     /\ rows'[i].task = rows[i].task /\ rows'[i].trigger = rows[i].trigger
                     /\ \A j \in Runs : j # i => rows'[j] = rows[j]
                     /\ rows'[i].status = Verdict(i)
        BY <1>0, <3>3, RowEffect
      <4>2. ASSUME live[i].pause = "failures" PROVE Earned(rows[i].task)'
        <5>1. PICK q : q = r
          OBVIOUS
        <5>2. /\ live[i].outcome = "fail" /\ rows[i].trigger = "scheduled"
              /\ Cardinality(Failed(q)) >= PauseAfter - 1
          BY <1>0, <4>1, <4>2, <5>1 DEF RunEarned
        <5>3. rows[i].status = "running"
          BY <4>1 DEF IdInv, Writes
        <5>4. rows'[i].status = "failed"
          BY <4>1, <5>2 DEF Verdict
        <5>5. Failed(q) \subseteq Runs /\ i \notin Failed(q)
          BY <5>3 DEF Failed, Scheduled
        <5>6. Failed(q) \cup {i} \subseteq Failed(q)' /\ Failed(q)' \subseteq Runs
          BY <4>1, <5>1, <5>2, <5>3, <5>4 DEF Failed, Scheduled
        <5>7. /\ IsFiniteSet(Failed(q)) /\ Cardinality(Failed(q)) \in Nat
              /\ Cardinality(Failed(q) \cup {i}) <= Cardinality(Failed(q)')
              /\ Cardinality(Failed(q)') \in Nat
          BY <5>5, <5>6, RunsFinite, RunsFewer
        <5>8. Cardinality(Failed(q) \cup {i}) = Cardinality(Failed(q)) + 1
          BY <5>5, <5>7, FS_AddElement
        <5>9. Cardinality(Failed(q)') >= PauseAfter
          BY <1>0, <5>2, <5>7, <5>8
        <5> QED
          BY <4>1, <5>1, <5>9 DEF Earned, Failed, Scheduled
      <4> QED
        BY <4>1, <4>2 DEF RunEarned, LiveSet
    <3>4. CASE PauseLoad(i)
      <4>1. PICK e : /\ LiveSet(i, e) /\ live[i].phase = "load" /\ UNCHANGED rows
                     /\ \/ e.pause = "no"
                        \/ e.phase = "save" /\ e.pause = live[i].pause
        BY <3>4, LoadEffect
      <4> QED
        BY <1>0, <2>0, <4>1 DEF RunEarned, LiveSet
    <3>5. CASE PauseSave(i)
      <4>1. LiveSet(i, Idle)
        BY <3>5, PauseEffect
      <4> QED
        BY <4>1, Nothing DEF RunEarned, LiveSet
    <3> QED
      BY <2>4, <3>1, <3>2, <3>3, <3>4, <3>5 DEF ExecutorStep, Attempt, Finalize
  <2>5. ASSUME Spawn PROVE Goal
    BY <2>2, <2>5, SpawnEffect
  <2>6. ASSUME NEW q \in Routines, Trigger(q) PROVE Goal
    BY <2>2, <2>6 DEF Trigger
  <2>7. ASSUME Crash PROVE Goal
    BY <1>0, <2>7, CrashEffect
  <2>8. \/ UNCHANGED <<live, rows>> \/ Spawn \/ (\E q \in Routines : Trigger(q))
        \/ (\E j \in Runs : ExecutorStep(j)) \/ Crash
    BY DEF Next, SchedulerStep, UserStep, vars, Advance, Drain, Save, Guard, SpawnFails, Retire,
           Repoint, ActDone, EditSave, EditLoad, DeleteTask
  <2> QED
    BY <2>1, <2>3, <2>4, <2>5, <2>6, <2>7, <2>8
<1>5. ui' # NoUi /\ ui'.rec.mode = "failures" => Earned(ui.task)'
  BY <1>1, <1>3 DEF Earned, Failed, Scheduled
<1> QED
  BY <1>1, <1>2, <1>4, <1>5

\* As long as nothing fails to be stored, a routine is paused for its failures
\* only after that many scheduled runs of it have failed.
THEOREM PausesEarned == Spec => []PauseEarned
<1>1. Init => PauseInv
  BY Nothing DEF Init, PauseInv, New, RunEarned
<1>2. PauseInv => PauseEarned
  BY DEF PauseInv, PauseEarned, Earned, Failed
<1> QED
  BY <1>1, <1>2, TypeInit, TypeStep, IdInit, IdStep, DependenciesInit, ModesStep, PauseStep, PTL
  DEF Spec

-----------------------------------------------------------------------------
(* Spaced fires *)

\* A copy of r's record is as old as the record or older, and one with as many
\* fires has the same last fire.
CopyOf(rec, r) ==
  /\ rec.fires <= store[r].fires
  /\ rec.fires = store[r].fires => rec.fired = store[r].fired
SameFires(r) == mgr[r].fires = store[r].fires /\ mgr[r].fired = store[r].fired
\* The tick that is under way is an interval later than every run of r.
Later(r) ==
  Kind[r] = "interval" => \A i \in Scheduled(r) : tickAt >= rows[i].due + Interval
FiresInv(r) ==
  /\ Cardinality(Scheduled(r)) <= store[r].fires
  /\ store[r].fires <= MaxFires[r]
  /\ Kind[r] = "interval" =>
       /\ \A i \in Scheduled(r) : rows[i].due >= 1 /\ rows[i].due <= store[r].fired
       /\ \A i, j \in Scheduled(r) : i < j => rows[j].due >= rows[i].due + Interval
CopiesInv(r) ==
  /\ ui.task = r /\ ui # NoUi => CopyOf(ui.rec, r)
  /\ \A i \in Runs : live[i].phase = "save" /\ rows[i].task = r => CopyOf(live[i].snap, r)
TickInv(r) ==
  /\ \A d \in due : d.task = r =>
       IF d.queued = "yes" THEN SameFires(r)
       ELSE /\ mgr[r].fires = store[r].fires + 1 /\ mgr[r].fires <= MaxFires[r]
            /\ mgr[r].fired = tickAt /\ Later(r)
  /\ pc \in {"guard", "spawn", "supersede", "repoint"} /\ cur.task = r => SameFires(r)
  /\ pc \in {"guard", "spawn"} /\ cur.task = r =>
       /\ Cardinality(Scheduled(r)) < store[r].fires
       /\ store[r].fired = tickAt /\ Later(r)
SpacedInv ==
  /\ now >= 1 /\ (pc # "idle" => tickAt >= 1)
  /\ \A d, e \in due : d.task = e.task => d = e
  /\ pc \notin {"idle", "act"} => \A d \in due : d.task # cur.task
  /\ \A r \in Routines : <<"forgotten", r>> \notin events =>
       FiresInv(r) /\ CopiesInv(r) /\ TickInv(r)

SameStore(r) == store'[r].fires = store[r].fires /\ store'[r].fired = store[r].fired

\* The fires of r change only when the tick saves one, unless a save forgets one.
LEMMA FiresMoves ==
  ASSUME TypeInv, SpacedInv, [Next]_vars, NEW r \in Routines, <<"forgotten", r>> \notin events'
  PROVE  \/ SameStore(r)
         \/ \E d \in due : Save(d) /\ d.task = r /\ d.queued # "yes" /\ store'[r] = mgr[r]
<1>0. FiresInv(r) /\ CopiesInv(r) /\ TickInv(r) /\ store[r].fires \in Nat
  BY Onward DEF SpacedInv, TypeInv, StoresTyped, Record
<1>1. CASE KeptRecord(r)
  BY <1>1 DEF KeptRecord, SameStore
<1>2. ASSUME NEW d \in due, Save(d), d.task = r, store'[r] = mgr[r], d.queued = "yes"
      PROVE  SameStore(r)
  BY <1>0, <1>2 DEF TickInv, SameFires, SameStore
<1>3. CASE Repoint /\ cur.task = r /\ store'[r] = mgr'[r]
  <2>1. pc = "repoint" /\ mgr'[r].fires = mgr[r].fires /\ mgr'[r].fired = mgr[r].fired
    BY <1>3, RepointEffect
  <2> QED
    BY <1>0, <1>3, <2>1 DEF TickInv, SameFires, SameStore
<1>4. ASSUME NEW rec \in Record, CopyOf(rec, r), Forgets(r, rec) \subseteq events', Copied(r, rec)
      PROVE  SameStore(r)
  <2>1. rec.fires \in Nat /\ ~(rec.fires < store[r].fires)
    BY <1>4 DEF Forgets, Record
  <2>2. rec.fires = store[r].fires
    BY <1>0, <1>4, <2>1 DEF CopyOf
  <2> QED
    BY <1>4, <2>2 DEF CopyOf, Copied, SameStore
<1>5. CASE EditSave /\ ui.task = r /\ Copied(r, ui.rec) /\ Forgets(r, ui.rec) \subseteq events'
  <2>1. ui # NoUi /\ ui.rec \in Record
    BY <1>5, EditSaveEffect
  <2> QED
    BY <1>0, <1>4, <1>5, <2>1 DEF CopiesInv
<1>6. ASSUME NEW i \in Runs, PauseSave(i), rows[i].task = r, Copied(r, live[i].snap),
             Forgets(r, live[i].snap) \subseteq events'
      PROVE  SameStore(r)
  <2>1. live[i].phase = "save" /\ live[i].snap \in Record
    BY <1>6, PauseEffect
  <2> QED
    BY <1>0, <1>4, <1>6, <2>1 DEF CopiesInv
<1> QED
  BY <1>1, <1>2, <1>3, <1>5, <1>6, StoreMoves

\* A run is guarded and spawned after its fire is saved, by the same tick.
LEMMA GuardedMoves ==
  ASSUME TypeInv, [Next]_vars, pc' \in {"guard", "spawn", "supersede", "repoint"}
  PROVE  /\ UNCHANGED <<tickAt, mgr>>
         /\ \/ \E d \in due : /\ Save(d) /\ cur' = d /\ d.queued # "yes" /\ pc' = "guard"
                              /\ store'[d.task] = mgr[d.task]
            \/ /\ pc \in {"guard", "spawn", "supersede", "repoint"} /\ cur'.task = cur.task
               /\ pc' \in {"guard", "spawn"} => pc \in {"guard", "spawn"}
<1> DEFINE Goal == /\ UNCHANGED <<tickAt, mgr>>
                   /\ \/ \E d \in due : /\ Save(d) /\ cur' = d /\ d.queued # "yes"
                                        /\ pc' = "guard" /\ store'[d.task] = mgr[d.task]
                      \/ /\ pc \in {"guard", "spawn", "supersede", "repoint"}
                         /\ cur'.task = cur.task
                         /\ pc' \in {"guard", "spawn"} => pc \in {"guard", "spawn"}
<1>1. ASSUME NEW d \in due, Save(d) PROVE Goal
  <2>1. /\ pc = "act" /\ UNCHANGED <<tickAt, mgr>>
        /\ \/ /\ StoreSet(d.task, mgr[d.task])
              /\ \/ UNCHANGED pc
                 \/ d.queued # "yes" /\ pc' = "guard" /\ cur' = d
           \/ pc' = "retire"
    BY <1>1, SaveEffect
  <2> QED
    BY <1>1, <2>1 DEF StoreSet
<1>2. ASSUME Guard \/ SpawnFails PROVE Goal
  BY <1>2 DEF Guard, SpawnFails
<1>3. ASSUME Spawn PROVE Goal
  BY <1>3, SpawnEffect
<1>4. ASSUME Retire PROVE Goal
  BY <1>4, RetireEffect
<1>5. ASSUME Drain \/ Repoint \/ ActDone \/ Crash PROVE FALSE
  BY <1>5 DEF Drain, Repoint, ActDone, ForgetTick, Crash
<1>6. ASSUME UNCHANGED schedVars PROVE Goal
  BY <1>6 DEF schedVars
<1>7. SchedulerStep \/ Crash \/ UNCHANGED schedVars
  BY DEF Next, ExecutorStep, Attempt, Finalize, UserStep, vars, schedVars, Advance,
         AttemptSucceeds,
         AttemptFails, FinalizeRow, FinalizeHistory, PauseLoad, PauseSave, EditSave, EditLoad,
         DeleteTask, Trigger
<1> QED
  BY <1>1, <1>2, <1>3, <1>4, <1>5, <1>6, <1>7 DEF SchedulerStep

\* The fires of a routine stay spaced.
LEMMA FiresStep ==
  ASSUME TypeInv, IdInv, SpacedInv, [Next]_vars, NEW r \in Routines,
         <<"forgotten", r>> \notin events'
  PROVE  FiresInv(r)'
<1>0. /\ FiresInv(r) /\ TickInv(r) /\ store[r].fires \in Nat /\ store[r].fired \in Nat
      /\ MaxFires[r] \in Nat /\ tickAt \in Nat /\ Interval \in Nat
      /\ Cardinality(Scheduled(r)) \in Nat /\ IsFiniteSet(Scheduled(r))
      /\ Scheduled(r) \subseteq Runs /\ \A i \in Runs : rows[i].due \in Nat
  <2>1. Scheduled(r) \subseteq Runs
    BY DEF Scheduled
  <2>2. FiresInv(r) /\ TickInv(r)
    BY Onward DEF SpacedInv
  <2>3. store[r].fires \in Nat /\ store[r].fired \in Nat /\ MaxFires[r] \in Nat
    BY RoutinesAssumption DEF TypeInv, StoresTyped, Record
  <2>4. tickAt \in Nat /\ Interval \in Nat /\ \A i \in Runs : rows[i].due \in Nat
    BY NumbersAssumption DEF TypeInv, StoresTyped, ClocksTyped, RowRec
  <2> QED
    BY <2>1, <2>2, <2>3, <2>4, RunsFinite
<1>1. CASE RowsKept
  <2>1. /\ Scheduled(r)' = Scheduled(r)
        /\ \A i \in Scheduled(r) : rows'[i].due = rows[i].due
    BY <1>1, ScheduledKept DEF RowsKept, Scheduled
  <2>2. CASE SameStore(r)
    BY <1>0, <2>1, <2>2 DEF FiresInv, SameStore
  <2>3. ASSUME NEW d \in due, d.task = r, d.queued # "yes", store'[r] = mgr[r]
        PROVE  FiresInv(r)'
    <3>1. /\ store'[r].fires = store[r].fires + 1 /\ store'[r].fires <= MaxFires[r]
          /\ store'[r].fired = tickAt /\ Later(r)
      BY <1>0, <2>3 DEF TickInv
    <3>2. Cardinality(Scheduled(r)) <= store'[r].fires
      BY <1>0, <3>1 DEF FiresInv
    <3>3. Kind[r] = "interval" => \A i \in Scheduled(r) : rows[i].due <= tickAt
      BY <1>0, <3>1 DEF Later
    <3> QED
      BY <1>0, <2>1, <3>1, <3>2, <3>3 DEF FiresInv
  <2> QED
    BY <2>2, <2>3, FiresMoves
<1>2. CASE Spawn
  <2>1. pc = "spawn" /\ UNCHANGED <<store, tickAt>>
    BY <1>2, SpawnEffect
  <2>2. /\ nextId \in Runs /\ \A i \in Runs : i # nextId => rows'[i] = rows[i]
        /\ rows'[nextId].due = tickAt /\ nextId \in Nat
        /\ r = cur.task => Scheduled(r)' = Scheduled(r) \cup {nextId}
        /\ r # cur.task => Scheduled(r)' = Scheduled(r)
        /\ \A i \in Scheduled(r) : i < nextId
    BY <1>2, ScheduledMore DEF TypeInv, StoresTyped
  <2>3. /\ nextId \notin Scheduled(r)
        /\ \A i \in Scheduled(r) : rows'[i] = rows[i] /\ i # nextId /\ i \in Nat
    BY <1>0, <2>2 DEF Runs
  <2>4. CASE r # cur.task
    BY <1>0, <2>1, <2>2, <2>3, <2>4 DEF FiresInv
  <2>5. CASE r = cur.task
    <3>1. /\ Cardinality(Scheduled(r)) < store[r].fires
          /\ store[r].fired = tickAt /\ Later(r)
      BY <1>0, <2>1, <2>5 DEF TickInv
    <3>2. Cardinality(Scheduled(r)') = Cardinality(Scheduled(r)) + 1
      BY <1>0, <2>2, <2>3, <2>5, FS_AddElement
    <3>3. Cardinality(Scheduled(r)') <= store'[r].fires /\ store'[r].fires <= MaxFires[r]
      BY <1>0, <2>1, <3>1, <3>2 DEF FiresInv
    <3>4. tickAt >= 1
      BY <2>1 DEF SpacedInv
    <3>5. ASSUME Kind[r] = "interval", NEW i \in Scheduled(r)'
          PROVE  rows'[i].due >= 1 /\ rows'[i].due <= store'[r].fired
      <4>1. CASE i = nextId
        BY <1>0, <2>1, <2>2, <3>1, <3>4, <4>1
      <4>2. CASE i # nextId
        BY <1>0, <2>1, <2>2, <2>3, <2>5, <3>5, <4>2 DEF FiresInv
      <4> QED
        BY <4>1, <4>2
    <3>6. ASSUME Kind[r] = "interval", NEW i \in Scheduled(r)', NEW j \in Scheduled(r)', i < j
          PROVE  rows'[j].due >= rows'[i].due + Interval
      <4>1. i \in Scheduled(r)
        <5>1. i \in Nat /\ j \in Nat
          BY <2>2, <2>3, <2>5
        <5> QED
          BY <2>2, <2>3, <2>5, <3>6, <5>1
      <4>2. CASE j = nextId
        BY <2>2, <2>3, <3>1, <3>6, <4>1, <4>2 DEF Later
      <4>3. CASE j # nextId
        BY <1>0, <2>2, <2>3, <2>5, <3>6, <4>1, <4>3 DEF FiresInv
      <4> QED
        BY <4>2, <4>3
    <3> QED
      BY <3>3, <3>5, <3>6 DEF FiresInv
  <2> QED
    BY <2>4, <2>5
<1> QED
  BY <1>1, <1>2, RowsStep

\* The copies of a record stay copies.
LEMMA CopiesStep ==
  ASSUME TypeInv, SpacedInv, [Next]_vars, NEW r \in Routines, <<"forgotten", r>> \notin events'
  PROVE  CopiesInv(r)'
<1>0. CopiesInv(r) /\ TickInv(r) /\ store[r].fires \in Nat
  BY Onward DEF SpacedInv, TypeInv, StoresTyped, Record
<1>1. SameStore(r) \/ store'[r].fires = store[r].fires + 1
  BY <1>0, FiresMoves DEF TickInv
<1>2. ASSUME NEW rec \in Record, CopyOf(rec, r) PROVE CopyOf(rec, r)'
  <2>1. rec.fires \in Nat /\ rec.fires <= store[r].fires
    BY <1>2 DEF Record, CopyOf
  <2>2. CASE SameStore(r)
    BY <1>2, <2>2 DEF SameStore, CopyOf
  <2>3. CASE store'[r].fires = store[r].fires + 1
    BY <1>0, <2>1, <2>3 DEF CopyOf
  <2> QED
    BY <1>1, <2>2, <2>3
<1>3. \A rec : rec = store[r] /\ UNCHANGED store => CopyOf(rec, r)'
  BY <1>0 DEF CopyOf
<1>4. ASSUME ui' # NoUi, ui'.task = r PROVE CopyOf(ui.rec, r)'
  <2>1. CASE ui' = ui
    <3>1. ui.rec \in Record /\ CopyOf(ui.rec, r)
      BY <1>0, <1>4, <2>1 DEF CopiesInv, TypeInv, RunsTyped, UiRec
    <3> QED
      BY <1>2, <2>1, <3>1 DEF CopyOf
  <2>2. CASE ui'.rec = store[r] /\ UNCHANGED store
    BY <1>3, <2>2 DEF CopyOf
  <2> QED
    BY <1>4, <2>1, <2>2, UiMoves
<1>5. ASSUME NEW i \in Runs, live'[i].phase = "save", rows'[i].task = r
      PROVE  CopyOf(live[i].snap, r)'
  <2>1. CASE live[i].phase = "save" /\ live'[i] = live[i] /\ rows[i].task = r
    <3>1. live[i].snap \in Record /\ CopyOf(live[i].snap, r)
      BY <1>0, <2>1 DEF CopiesInv, TypeInv, RunsTyped, Executor
    <3> QED
      BY <1>2, <2>1, <3>1 DEF CopyOf
  <2>2. CASE live'[i].snap = store[r] /\ UNCHANGED store
    BY <1>3, <2>2 DEF CopyOf
  <2> QED
    BY <1>5, <2>1, <2>2, SnapMoves
<1> QED
  BY <1>4, <1>5 DEF CopiesInv

\* What the tick knows of a routine stays true.
LEMMA TickStep ==
  ASSUME TypeInv, IdInv, OwnedInv, SpacedInv, [Next]_vars, NEW r \in Routines,
         <<"forgotten", r>> \notin events'
  PROVE  TickInv(r)'
<1>0. /\ FiresInv(r) /\ TickInv(r) /\ store[r].fires \in Nat /\ store[r].fired \in Nat
      /\ MaxFires[r] \in Nat /\ tickAt \in Nat /\ Interval \in Nat /\ now \in Nat
      /\ Cardinality(Scheduled(r)) \in Nat
      /\ Scheduled(r) \subseteq Runs /\ \A i \in Runs : rows[i].due \in Nat
  <2>1. Scheduled(r) \subseteq Runs
    BY DEF Scheduled
  <2>2. FiresInv(r) /\ TickInv(r)
    BY Onward DEF SpacedInv
  <2>3. store[r].fires \in Nat /\ store[r].fired \in Nat /\ MaxFires[r] \in Nat
    BY RoutinesAssumption DEF TypeInv, StoresTyped, Record
  <2>4. tickAt \in Nat /\ Interval \in Nat /\ now \in Nat /\ \A i \in Runs : rows[i].due \in Nat
    BY NumbersAssumption DEF TypeInv, StoresTyped, ClocksTyped, RowRec
  <2> QED
    BY <2>1, <2>2, <2>3, <2>4, RunsFinite
<1>1. ASSUME RowsKept, UNCHANGED tickAt
      PROVE  Scheduled(r)' = Scheduled(r) /\ (Later(r) => Later(r)')
  <2>1. /\ Scheduled(r)' = Scheduled(r)
        /\ \A i \in Scheduled(r) : rows'[i].due = rows[i].due
    BY <1>1, ScheduledKept DEF RowsKept, Scheduled
  <2> QED
    BY <1>1, <2>1 DEF Later
<1> DEFINE Ready(d) == IF d.queued = "yes" THEN SameFires(r)
                       ELSE /\ mgr[r].fires = store[r].fires + 1 /\ mgr[r].fires <= MaxFires[r]
                            /\ mgr[r].fired = tickAt /\ Later(r)
<1>2. ASSUME NEW d \in due', d.task = r PROVE Ready(d)'
  <2>1. CASE Drain /\ pc' = "act"
    <3>1. UNCHANGED <<store, rows>> /\ tickAt' = now
      BY <2>1, DrainEffect
    <3>2. PICK P, fire, id :
            P \in SUBSET Routines /\ (\A q \in P : MayFire(q)) /\ Listed(P, fire, id)
      BY <2>1, DrainEffect
    <3>3. r \in P /\ d.queued = IF r \in fire THEN "no" ELSE "yes"
      BY <1>2, <3>2 DEF Listed
    <3>4. CASE r \notin fire
      BY <3>1, <3>2, <3>3, <3>4 DEF Listed, SameFires
    <3>5. CASE r \in fire
      <4>1. /\ mgr'[r].fires = store[r].fires + 1 /\ mgr'[r].fired = now
            /\ store[r].fires < MaxFires[r]
            /\ Kind[r] = "interval" => store[r].fired = 0 \/ now >= store[r].fired + Interval
        BY <3>2, <3>3, <3>5 DEF Listed, MayFire
      <4>2. ASSUME Kind[r] = "interval", NEW i \in Scheduled(r)
            PROVE  now >= rows[i].due + Interval
        <5>1. rows[i].due >= 1 /\ rows[i].due <= store[r].fired /\ rows[i].due \in Nat
          BY <1>0, <4>2 DEF FiresInv
        <5> QED
          BY <1>0, <4>1, <4>2, <5>1
      <4>3. Later(r)'
        BY <3>1, <4>2 DEF Later, Scheduled
      <4> QED
        BY <1>0, <3>1, <3>3, <3>5, <4>1, <4>3
    <3> QED
      BY <3>4, <3>5
  <2>2. CASE /\ due' \subseteq due /\ mgr'[r].fires = mgr[r].fires /\ mgr'[r].fired = mgr[r].fired
    <3>1. d \in due /\ Ready(d)
      BY SMTT(40), <1>0, <1>2, <2>2 DEF TickInv
    <3>2. UNCHANGED tickAt
      <4>1. ~Drain
        BY <3>1, DrainEffect DEF OwnedInv
      <4> QED
        BY <4>1 DEF Next, SchedulerStep, ExecutorStep, Attempt, Finalize, UserStep, vars,
               schedVars, Advance, Save,
           Guard, Spawn, SpawnFails, Retire, Repoint, ActDone, AttemptSucceeds, AttemptFails,
           FinalizeRow, FinalizeHistory, PauseLoad, PauseSave, EditSave, EditLoad, DeleteTask,
           Trigger, Crash
    <3>3. SameStore(r)
      <4>1. ASSUME NEW x \in due, Save(x), x.task = r PROVE FALSE
        <5>1. x = d
          BY <1>2, <3>1, <4>1 DEF SpacedInv
        <5>2. due' = due \ {x}
          BY <4>1, SaveEffect
        <5> QED
          BY <1>2, <5>1, <5>2
      <4> QED
        BY <4>1, FiresMoves
    <3>4. Later(r) => Later(r)'
      <4>1. CASE RowsKept
        BY <1>1, <3>2, <4>1
      <4>2. CASE Spawn
        <5>1. pc = "spawn"
          BY <4>2, SpawnEffect
        <5>2. r # cur.task
          BY <1>2, <3>1, <5>1 DEF SpacedInv
        <5>3. /\ Scheduled(r)' = Scheduled(r) /\ \A i \in Runs : i # nextId => rows'[i] = rows[i]
              /\ \A i \in Scheduled(r) : i < nextId
          BY <4>2, <5>2, ScheduledMore
        <5>4. \A i \in Scheduled(r) : rows'[i] = rows[i]
          BY <1>0, <5>3 DEF TypeInv, StoresTyped, Runs
        <5> QED
          BY <3>2, <5>3, <5>4 DEF Later
      <4> QED
        BY <4>1, <4>2, RowsStep
    <3> QED
      BY <2>2, <3>1, <3>2, <3>3, <3>4 DEF SameStore, SameFires
  <2> QED
    BY <1>2, <2>1, <2>2, TickMoves
<1>3. ASSUME pc' \in {"guard", "spawn", "supersede", "repoint"}, cur'.task = r
      PROVE  SameFires(r)'
  <2>1. UNCHANGED mgr
    BY <1>3, GuardedMoves
  <2>2. CASE store'[r] = mgr[r]
    BY <2>1, <2>2 DEF SameFires
  <2>3. CASE pc \in {"guard", "spawn", "supersede", "repoint"} /\ cur'.task = cur.task
    <3>1. SameFires(r)
      BY <1>0, <1>3, <2>3 DEF TickInv
    <3>2. \A d \in due : ~Save(d)
      BY <2>3, SaveEffect
    <3>3. SameStore(r)
      BY <3>2, FiresMoves
    <3> QED
      BY <2>1, <3>1, <3>3 DEF SameFires, SameStore
  <2> QED
    BY <1>3, <2>2, <2>3, GuardedMoves
<1>4. ASSUME pc' \in {"guard", "spawn"}, cur'.task = r
      PROVE  /\ Cardinality(Scheduled(r)') < store'[r].fires
             /\ store'[r].fired = tickAt' /\ Later(r)'
  <2>1. UNCHANGED tickAt
    BY <1>4, GuardedMoves
  <2>2. RowsKept
    BY <1>4, RowsStep, SpawnEffect
  <2>3. Scheduled(r)' = Scheduled(r) /\ (Later(r) => Later(r)')
    BY <1>1, <2>1, <2>2
  <2>4. ASSUME NEW d \in due, d.task = r, d.queued # "yes", store'[r] = mgr[r]
        PROVE  /\ Cardinality(Scheduled(r)) < store'[r].fires
               /\ store'[r].fired = tickAt /\ Later(r)
    <3>1. mgr[r].fires = store[r].fires + 1 /\ mgr[r].fired = tickAt /\ Later(r)
      BY <1>0, <2>4 DEF TickInv
    <3>2. Cardinality(Scheduled(r)) <= store[r].fires
      BY <1>0 DEF FiresInv
    <3> QED
      BY <1>0, <2>4, <3>1, <3>2
  <2>5. CASE pc \in {"guard", "spawn"} /\ cur'.task = cur.task
    <3>1. /\ Cardinality(Scheduled(r)) < store[r].fires
          /\ store[r].fired = tickAt /\ Later(r)
      BY <1>0, <1>4, <2>5 DEF TickInv
    <3>2. \A d \in due : ~Save(d)
      BY <2>5, SaveEffect
    <3>3. SameStore(r)
      BY <3>2, FiresMoves
    <3> QED
      BY <2>1, <2>3, <3>1, <3>3 DEF SameStore
  <2> QED
    BY <1>4, <2>1, <2>3, <2>4, <2>5, GuardedMoves
<1> QED
  BY <1>2, <1>3, <1>4 DEF TickInv

\* Every step keeps SpacedInv.
LEMMA SpacedStep == TypeInv /\ IdInv /\ OwnedInv /\ SpacedInv /\ [Next]_vars => SpacedInv'
<1> SUFFICES ASSUME TypeInv, IdInv, OwnedInv, SpacedInv, [Next]_vars PROVE SpacedInv'
  OBVIOUS
<1>1. now' >= 1 /\ (pc' # "idle" => tickAt' >= 1)
  <2>1. now \in Nat /\ now' \in Nat /\ now <= now' /\ now >= 1 /\ (pc # "idle" => tickAt >= 1)
    BY SMTT(40), Onward DEF TypeInv, ClocksTyped, SpacedInv
  <2>2. pc' # "idle" => (pc # "idle" /\ tickAt' = tickAt) \/ tickAt' = now
    BY DEF Next, SchedulerStep, ExecutorStep, Attempt, Finalize, UserStep, vars, schedVars,
           Advance, Drain, Save,
           Guard, Spawn, SpawnFails, Retire, Repoint, ActDone, ForgetTick, AttemptSucceeds,
           AttemptFails, FinalizeRow, FinalizeHistory, PauseLoad, PauseSave, EditSave, EditLoad,
           DeleteTask, Trigger, Crash
  <2> QED
    BY <2>1, <2>2
<1>2. ASSUME NEW d \in due', NEW e \in due', d.task = e.task PROVE d = e
  <2>1. CASE Drain /\ pc' = "act"
    BY <1>2, <2>1, DrainEffect DEF Listed
  <2>2. CASE due' \subseteq due
    BY <1>2, <2>2 DEF SpacedInv
  <2> QED
    BY <1>2, <2>1, <2>2, TickMoves
<1>3. ASSUME pc' \notin {"idle", "act"}, NEW d \in due' PROVE d.task # cur'.task
  <2>1. ASSUME NEW x \in due, Save(x) PROVE d.task # cur'.task
    <3>1. pc = "act" /\ due' = due \ {x} /\ (pc' = pc \/ cur' = x)
      BY <2>1, SaveEffect
    <3> QED
      BY <1>3, <3>1 DEF SpacedInv
  <2>2. CASE due' \subseteq due /\ cur'.task = cur.task /\ pc \notin {"idle", "act"}
    BY SMTT(40), <1>3, <2>2 DEF SpacedInv
  <2>3. \/ \E x \in due : Save(x)
        \/ due' \subseteq due /\ cur'.task = cur.task /\ pc \notin {"idle", "act"}
    <3>1. CASE Spawn
      BY <3>1, SpawnEffect
    <3>2. CASE Retire
      BY <1>3, <3>2, RetireEffect
    <3> QED
      BY <1>3, <3>1, <3>2
      DEF Next, SchedulerStep, ExecutorStep, Attempt, Finalize, UserStep, vars, schedVars,
      Advance, Drain,
          Guard, SpawnFails, Repoint, ActDone, ForgetTick, AttemptSucceeds, AttemptFails,
          FinalizeRow, FinalizeHistory, PauseLoad, PauseSave, EditSave, EditLoad, DeleteTask,
          Trigger, Crash
  <2> QED
    BY <2>1, <2>2, <2>3
<1>4. ASSUME NEW r \in Routines, <<"forgotten", r>> \notin events'
      PROVE  FiresInv(r)' /\ CopiesInv(r)' /\ TickInv(r)'
  BY <1>4, FiresStep, CopiesStep, TickStep
<1> QED
  BY <1>1, <1>2, <1>3, <1>4 DEF SpacedInv

\* Unless a stale save forgets a fire, a routine runs on schedule at most
\* max_fires times, and an interval routine at most once an interval.
THEOREM FiresSpaced == Spec => []SpacedFires
<1>1. Init => SpacedInv
  <2> SUFFICES ASSUME Init PROVE SpacedInv
    OBVIOUS
  <2>1. \A r \in Routines : Scheduled(r) = {} /\ store[r].fires = 0 /\ MaxFires[r] \in Nat
    BY RoutinesAssumption DEF Init, Scheduled, NoRow, New
  <2>2. ASSUME NEW r \in Routines PROVE FiresInv(r)
    <3>1. Scheduled(r) = {} /\ Cardinality({}) = 0
      BY <2>1, FS_EmptySet
    <3>2. Cardinality(Scheduled(r)) = 0
      BY <3>1, Zenon
    <3> QED
      BY <2>1, <3>1, <3>2 DEF FiresInv
  <2>3. /\ now = 1 /\ pc = "idle" /\ due = {} /\ ui = NoUi
        /\ \A i \in Runs : live[i].phase = "none"
    BY Nothing DEF Init
  <2>4. \A r \in Routines : CopiesInv(r) /\ TickInv(r)
    BY <2>3 DEF CopiesInv, TickInv
  <2> QED
    BY <2>2, <2>3, <2>4 DEF SpacedInv
<1>2. TypeInv /\ SpacedInv => SpacedFires
  <2> SUFFICES ASSUME TypeInv, SpacedInv, NEW r \in Routines, <<"forgotten", r>> \notin events
               PROVE  /\ Cardinality(Scheduled(r)) <= MaxFires[r]
                      /\ Kind[r] = "interval" =>
                           \A i, j \in Scheduled(r) : i < j => rows[j].due >= rows[i].due + Interval
    BY DEF SpacedFires
  <2>1. FiresInv(r)
    BY DEF SpacedInv
  <2>2. Scheduled(r) \subseteq Runs
    BY DEF Scheduled
  <2>3. /\ Cardinality(Scheduled(r)) \in Nat /\ store[r].fires \in Nat /\ MaxFires[r] \in Nat
    BY <2>2, RunsFinite, RoutinesAssumption DEF TypeInv, StoresTyped, Record
  <2> QED
    BY <2>1, <2>3 DEF FiresInv
<1> QED
  BY <1>1, <1>2, TypeInit, TypeStep, IdInit, IdStep, OwnedInit, OwnedStep, SpacedStep, PTL DEF Spec
=============================================================================
