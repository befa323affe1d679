---------------------------- MODULE SessionFiles ----------------------------
(***************************************************************************)
(* Who may touch the file events.jsonl of one session: the writers of the  *)
(* queries and of the seed markers, and the raw rewrites of SessionStore   *)
(* (truncate_to_turn, rewrite_with_conversation, delete), in any number of *)
(* processes.  All of them open the file by its name and then try its      *)
(* flock; a rewrite replaces the name by a new file, a delete removes it.  *)
(* A flock belongs to the file, not to the name.                           *)
(*                                                                         *)
(* A line is its seq.  What a process does with its file between two       *)
(* system calls is SessionLog's and SessionTee's subject.                  *)
(***************************************************************************)
EXTENDS Integers, Sequences

CONSTANTS
    Procs,     \* threads and processes of the program
    Nobody,    \* no holder of a lock
    MaxFiles,  \* bound: files a behaviour creates
    MaxLines   \* bound: lines of a file when a writer records another

ASSUME ProcsAssumption == Nobody \notin Procs
ASSUME FileBoundsAssumption == MaxFiles \in Nat /\ MaxLines \in Nat

VARIABLES
    path,    \* the file the name refers to, 0 when the directory is gone
    files,   \* files created so far: 1 .. files
    lines,   \* lines[f]: the seqs in file f, in order
    holder,  \* holder[f]: who holds the flock of file f
    proc     \* proc[p]: what process p is doing

vars == <<path, files, lines, holder, proc>>

AllFiles == 1 .. MaxFiles
Roles == {"writer", "truncate", "compact", "delete"}

\* `next' is a writer's next_seq, `kept' the lines a rewrite will leave.
Idle == [role |-> "none", at |-> "idle", file |-> 0, next |-> 0, kept |-> <<>>]
Opened(role, f) == [role |-> role, at |-> "opened", file |-> f, next |-> 0, kept |-> <<>>]

Init ==
    /\ path = 0
    /\ files = 0
    /\ lines = [f \in AllFiles |-> <<>>]
    /\ holder = [f \in AllFiles |-> Nobody]
    /\ proc = [p \in Procs |-> Idle]

\* The holder of a file's lock drops its handle.
Release(p) ==
    /\ proc' = [proc EXCEPT ![p] = Idle]
    /\ holder' = [f \in AllFiles |-> IF holder[f] = p THEN Nobody ELSE holder[f]]

Seqs(n) == [i \in 1 .. n |-> i - 1]

-----------------------------------------------------------------------------
(* Opening and locking, two system calls. *)

\* A writer and a compaction create the directory and the file when they are
\* missing; the others look for the log first and leave when there is none.
OpenFile(p, role) ==
    /\ proc[p] = Idle
    /\ IF path = 0
       THEN /\ role \in {"writer", "compact"}
            /\ files < MaxFiles
            /\ files' = files + 1
            /\ path' = files'
       ELSE UNCHANGED <<path, files>>
    /\ proc' = [proc EXCEPT ![p] = Opened(role, path')]
    /\ UNCHANGED <<lines, holder>>

\* Broken: a writer resumes from the last seq instead of the line count.
LockFileResumingLast(p) ==
    /\ proc[p].at = "opened"
    /\ holder[proc[p].file] = Nobody
    /\ holder' = [holder EXCEPT ![proc[p].file] = p]
    /\ proc' = [proc EXCEPT ![p].at = "locked", ![p].next = Len(lines[proc[p].file]) - 1]
    /\ UNCHANGED <<path, files, lines>>

\* Broken: the lock is shared.
LockFileShared(p) ==
    /\ proc[p].at = "opened"
    /\ holder' = [holder EXCEPT ![proc[p].file] = p]
    /\ proc' = [proc EXCEPT ![p].at = "locked", ![p].next = Len(lines[proc[p].file])]
    /\ UNCHANGED <<path, files, lines>>

\* try_lock_exclusive, or AlreadyLocked.  A writer scans the tail of its file
\* right away, a compaction knows what it will write.
LockFile(p) ==
    /\ proc[p].at = "opened"
    /\ holder[proc[p].file] = Nobody
    /\ holder' = [holder EXCEPT ![proc[p].file] = p]
    /\ proc' = [proc EXCEPT ![p].at = "locked", ![p].next = Len(lines[proc[p].file])]
    /\ UNCHANGED <<path, files, lines>>

AlreadyLocked(p) ==
    /\ proc[p].at = "opened"
    /\ holder[proc[p].file] # Nobody
    /\ proc' = [proc EXCEPT ![p] = Idle]
    /\ UNCHANGED <<path, files, lines, holder>>

-----------------------------------------------------------------------------
(* The holders. *)

Record(p) ==
    /\ proc[p].role = "writer" /\ proc[p].at = "locked"
    /\ Len(lines[proc[p].file]) < MaxLines
    /\ lines' = [lines EXCEPT ![proc[p].file] = Append(@, proc[p].next)]
    /\ proc' = [proc EXCEPT ![p].next = @ + 1]
    /\ UNCHANGED <<path, files, holder>>

\* A writer closes, or a process dies anywhere: the kernel drops its lock.
CloseOrDie(p) ==
    /\ proc[p] # Idle
    /\ Release(p)
    /\ UNCHANGED <<path, files, lines>>

\* truncate_to_turn reads the log by its name and decides where to cut; when
\* nothing is to be cut, or the name is gone, it returns.
ReadLog(p) ==
    /\ proc[p].role = "truncate" /\ proc[p].at = "locked"
    /\ path # 0
    /\ \E n \in 0 .. (Len(lines[path]) - 1) :
          proc' = [proc EXCEPT ![p].at = "read", ![p].kept = SubSeq(lines[path], 1, n)]
    /\ UNCHANGED <<path, files, lines, holder>>

\* rewrite_with_conversation numbers its rows afresh.
Summarise(p) ==
    /\ proc[p].role = "compact" /\ proc[p].at = "locked"
    /\ \E n \in 1 .. MaxLines : proc' = [proc EXCEPT ![p].at = "read", ![p].kept = Seqs(n)]
    /\ UNCHANGED <<path, files, lines, holder>>

\* The temp file is renamed over the name, which needs the directory.
Replace(p) ==
    /\ proc[p].at = "read"
    /\ path # 0
    /\ files < MaxFiles
    /\ files' = files + 1
    /\ path' = files'
    /\ lines' = [lines EXCEPT ![path'] = proc[p].kept]
    /\ Release(p)

Unlink(p) ==
    /\ proc[p].role = "delete" /\ proc[p].at = "locked"
    /\ path' = 0
    /\ Release(p)
    /\ UNCHANGED <<files, lines>>

Next ==
    \E p \in Procs :
        \/ \E role \in Roles : OpenFile(p, role)
        \/ LockFile(p) \/ AlreadyLocked(p)
        \/ Record(p) \/ CloseOrDie(p)
        \/ ReadLog(p) \/ Summarise(p) \/ Replace(p) \/ Unlink(p)

Spec == Init /\ [][Next]_vars

-----------------------------------------------------------------------------
(* Properties. *)

ProcType ==
    [role : Roles \cup {"none"}, at : {"idle", "opened", "locked", "read"},
     file : AllFiles \cup {0}, next : Nat, kept : Seq(Nat)]

\* The variables stay in their ranges, and nobody has a file not yet created.
TypeOK ==
    /\ path \in 0 .. files
    /\ files \in 0 .. MaxFiles
    /\ lines \in [AllFiles -> Seq(Nat)]
    /\ holder \in [AllFiles -> Procs \cup {Nobody}]
    /\ proc \in [Procs -> ProcType]
    /\ \A p \in Procs : proc[p].file <= files

\* "A later SessionLogWriter resumes its seq from the surviving line count":
\* whatever writers, rewrites, deletes and deaths interleave, the log under
\* the name numbers its lines 0, 1, 2, ... without a gap or a repeat.
SeqsContinuous ==
    path # 0 => \A i \in 1 .. Len(lines[path]) : lines[path][i] = i - 1

\* "A live writer makes the rewrite fail loudly": a writer that holds its lock
\* appends to the file that readers of the log will see, never to an unlinked
\* one where its events "would be silently lost".
WriterOwnsTheLog ==
    \A p \in Procs : proc[p].role = "writer" /\ proc[p].at = "locked" => proc[p].file = path
=============================================================================
