-------------------------- MODULE SessionFilesProofs --------------------------
(***************************************************************************)
(* Proof that the log under the name numbers its lines without a gap or a  *)
(* repeat, for any number of processes, files and lines.                   *)
(***************************************************************************)
EXTENDS SessionFiles, TLAPS

Numbered(s) == \A i \in 1 .. Len(s) : s[i] = i - 1

(***************************************************************************)
(* The inductive invariant.  That the named file is numbered depends on    *)
(* every other file and on the lines a rewrite has read (either may be     *)
(* named next), on a live writer's count matching its file, and for that   *)
(* on the lock: whoever is past it is the holder of the file it opened.    *)
(***************************************************************************)
AllNumbered ==
    /\ \A f \in AllFiles : Numbered(lines[f])
    /\ \A p \in Procs : Numbered(proc[p].kept)

HoldersLocked ==
    \A p \in Procs :
        /\ proc[p].at # "idle" => proc[p].file \in AllFiles
        /\ proc[p].at \in {"locked", "read"} => holder[proc[p].file] = p

CountsMatch ==
    \A p \in Procs : proc[p].role = "writer" /\ proc[p].at = "locked"
                         => proc[p].next = Len(lines[proc[p].file])

FilesInv == TypeOK /\ AllNumbered /\ HoldersLocked /\ CountsMatch

-----------------------------------------------------------------------------
(* Facts about the data. *)

\* A process that does nothing.
LEMMA IdleType == Idle \in ProcType /\ Idle.at = "idle" /\ Idle.role = "none"
                  /\ Idle.file = 0 /\ Idle.kept = <<>>
  BY DEF Idle, ProcType

\* A process that opened file f.
LEMMA OpenedType ==
    ASSUME NEW role \in Roles, NEW f \in AllFiles
    PROVE  /\ Opened(role, f) \in ProcType
           /\ Opened(role, f).role = role /\ Opened(role, f).at = "opened"
           /\ Opened(role, f).file = f /\ Opened(role, f).kept = <<>>
  <1>1. <<>> \in Seq(Nat) /\ 0 \in Nat
    OBVIOUS
  <1> QED
    BY <1>1 DEF Opened, ProcType

\* A writer that counted one line more.
LEMMA CountedType ==
    ASSUME NEW old \in ProcType, NEW n \in Nat, NEW r, r = [old EXCEPT !.next = n]
    PROVE  /\ r \in ProcType /\ r.role = old.role /\ r.at = old.at /\ r.file = old.file
           /\ r.next = n /\ r.kept = old.kept
  BY DEF ProcType

\* The empty log is numbered.
LEMMA EmptyNumbered == Numbered(<<>>)
  BY DEF Numbered

\* The rows of a rewrite are numbered.
LEMMA SeqsNumbered ==
    ASSUME NEW n \in Nat
    PROVE  Seqs(n) \in Seq(Nat) /\ Numbered(Seqs(n))
  <1>1. Seqs(n) \in [1 .. n -> Nat]
    BY DEF Seqs
  <1>2. Seqs(n) \in Seq(Nat) /\ Len(Seqs(n)) = n
    BY <1>1
  <1> QED
    BY <1>2 DEF Numbered, Seqs

\* A leading part of a numbered log is.
LEMMA PrefixNumbered ==
    ASSUME NEW s \in Seq(Nat), Numbered(s), NEW n \in Nat, n <= Len(s)
    PROVE  SubSeq(s, 1, n) \in Seq(Nat) /\ Numbered(SubSeq(s, 1, n))
  BY DEF Numbered

\* A log that goes on with its length is.
LEMMA AppendNumbered ==
    ASSUME NEW s \in Seq(Nat), Numbered(s), NEW m \in Nat, m = Len(s)
    PROVE  /\ Append(s, m) \in Seq(Nat)
           /\ Len(Append(s, m)) = m + 1
           /\ Numbered(Append(s, m))
  BY DEF Numbered

-----------------------------------------------------------------------------
(* Initial states, and one lemma per action. *)

\* The invariant at the start.
LEMMA InitFilesInv == Init => FilesInv
  <1> SUFFICES ASSUME Init PROVE FilesInv
    OBVIOUS
  <1>1. TypeOK
    BY IdleType, FileBoundsAssumption DEF Init, TypeOK
  <1>2. AllNumbered
    BY IdleType, EmptyNumbered DEF Init, AllNumbered
  <1>3. HoldersLocked /\ CountsMatch
    BY IdleType DEF Init, HoldersLocked, CountsMatch
  <1> QED
    BY <1>1, <1>2, <1>3 DEF FilesInv

\* Dropping a handle disturbs nobody else: the others hold other files.
LEMMA ReleaseHolders ==
    ASSUME FilesInv, NEW p \in Procs, Release(p)
    PROVE  /\ proc' \in [Procs -> ProcType]
           /\ holder' \in [AllFiles -> Procs \cup {Nobody}]
           /\ proc'[p] = Idle
           /\ \A q \in Procs \ {p} : proc'[q] = proc[q]
           /\ HoldersLocked'
  <1> USE DEF FilesInv, TypeOK
  <1>1. /\ proc' \in [Procs -> ProcType] /\ proc'[p] = Idle
        /\ \A q \in Procs \ {p} : proc'[q] = proc[q]
    BY IdleType DEF Release
  <1>2. holder' \in [AllFiles -> Procs \cup {Nobody}]
    BY DEF Release
  <1>3. HoldersLocked'
    BY <1>1, IdleType DEF Release, HoldersLocked
  <1> QED
    BY <1>1, <1>2, <1>3

\* When the files and the rewrite's lines are as numbered as before, a release
\* keeps the invariant.
LEMMA ReleaseFilesInv ==
    ASSUME FilesInv, NEW p \in Procs, Release(p),
           path' \in 0 .. files', files' \in 0 .. MaxFiles, files <= files',
           lines' \in [AllFiles -> Seq(Nat)],
           \A f \in AllFiles : Numbered(lines'[f]),
           \A f \in AllFiles : f <= files => lines'[f] = lines[f]
    PROVE  FilesInv'
  <1>1. /\ proc' \in [Procs -> ProcType]
        /\ holder' \in [AllFiles -> Procs \cup {Nobody}]
        /\ proc'[p] = Idle
        /\ \A q \in Procs \ {p} : proc'[q] = proc[q]
        /\ HoldersLocked'
    BY ReleaseHolders
  <1>2. \A q \in Procs : proc'[q].file <= files'
    <2>1. \A q \in Procs \ {p} : proc'[q].file <= files'
      <3> SUFFICES ASSUME NEW q \in Procs \ {p} PROVE proc'[q].file <= files'
        OBVIOUS
      <3>1. proc'[q] = proc[q] /\ proc[q].file <= files /\ proc[q] \in ProcType
        BY <1>1 DEF FilesInv, TypeOK
      <3>2. proc[q].file \in Int /\ files \in Int /\ files' \in Int
        BY <3>1, FileBoundsAssumption DEF ProcType, AllFiles, FilesInv, TypeOK
      <3> QED
        BY <3>1, <3>2
    <2>2. proc'[p].file <= files'
      BY <1>1, IdleType, FileBoundsAssumption
    <2> QED
      BY <2>1, <2>2
  <1>3. TypeOK'
    BY <1>1, <1>2 DEF TypeOK
  <1>4. AllNumbered'
    BY <1>1, IdleType, EmptyNumbered DEF FilesInv, AllNumbered
  <1>5. CountsMatch'
    <2> SUFFICES ASSUME NEW q \in Procs, proc'[q].role = "writer", proc'[q].at = "locked"
                 PROVE  proc'[q].next = Len(lines'[proc'[q].file])
      BY DEF CountsMatch
    <2>1. q # p /\ proc'[q] = proc[q]
      BY <1>1, IdleType
    <2>2. proc[q].file \in AllFiles /\ proc[q].file <= files
      BY <2>1 DEF FilesInv, HoldersLocked, TypeOK
    <2>3. lines'[proc[q].file] = lines[proc[q].file]
      BY <2>2
    <2> QED
      BY <2>1, <2>3 DEF FilesInv, CountsMatch
  <1> QED
    BY <1>1, <1>3, <1>4, <1>5 DEF FilesInv

\* Opening by name, creating the file where there is none.
LEMMA OpenFileInv ==
    ASSUME FilesInv, NEW p \in Procs, NEW role \in Roles, OpenFile(p, role)
    PROVE  FilesInv'
  <1> DEFINE new == Opened(role, path')
  <1>1. /\ files \in Nat /\ files' \in 0 .. MaxFiles /\ files <= files'
        /\ path' \in 1 .. files' /\ path' \in AllFiles
    BY FileBoundsAssumption DEF FilesInv, TypeOK, OpenFile, AllFiles
  <1>2. /\ new \in ProcType /\ new.role = role /\ new.at = "opened" /\ new.file = path'
        /\ new.kept = <<>>
    BY <1>1, OpenedType
  <1>3. proc' = [proc EXCEPT ![p] = new] /\ lines' = lines /\ holder' = holder
    BY DEF OpenFile
  <1> HIDE DEF new
  <1>4. /\ proc' \in [Procs -> ProcType] /\ proc'[p] = new
        /\ \A q \in Procs \ {p} : proc'[q] = proc[q]
    BY <1>2, <1>3 DEF FilesInv, TypeOK
  <1>5. \A q \in Procs : proc'[q].file <= files'
    <2> SUFFICES ASSUME NEW q \in Procs PROVE proc'[q].file <= files'
      OBVIOUS
    <2>1. CASE q = p
      BY <2>1, <1>1, <1>2, <1>4
    <2>2. CASE q # p
      <3>1. proc'[q] = proc[q] /\ proc[q].file <= files /\ proc[q] \in ProcType
        BY <2>2, <1>4 DEF FilesInv, TypeOK
      <3>2. proc[q].file \in Int
        BY <3>1 DEF ProcType, AllFiles
      <3> QED
        BY <3>1, <3>2, <1>1
    <2> QED
      BY <2>1, <2>2
  <1>6. TypeOK'
    BY <1>1, <1>3, <1>4, <1>5 DEF FilesInv, TypeOK
  <1>7. AllNumbered'
    BY <1>2, <1>3, <1>4, EmptyNumbered DEF FilesInv, AllNumbered
  <1>8. HoldersLocked'
    BY <1>1, <1>2, <1>3, <1>4 DEF FilesInv, HoldersLocked
  <1>9. CountsMatch'
    BY <1>2, <1>3, <1>4 DEF FilesInv, CountsMatch
  <1> QED
    BY <1>6, <1>7, <1>8, <1>9 DEF FilesInv

\* The lock: the file had no holder, so no other process is past it.
LEMMA LockFileInv ==
    ASSUME FilesInv, NEW p \in Procs, LockFile(p)
    PROVE  FilesInv'
  <1> DEFINE f == proc[p].file
  <1>1. f \in AllFiles /\ proc[p] \in ProcType /\ lines[f] \in Seq(Nat) /\ holder[f] = Nobody
    BY DEF FilesInv, TypeOK, HoldersLocked, LockFile
  <1>2. Len(lines[f]) \in Nat
    BY <1>1
  <1> DEFINE new == [proc[p] EXCEPT !.at = "locked", !.next = Len(lines[f])]
  <1>3. proc' = [proc EXCEPT ![p] = new] /\ holder' = [holder EXCEPT ![f] = p]
        /\ lines' = lines /\ path' = path /\ files' = files
    BY DEF LockFile, FilesInv, TypeOK
  <1>4. /\ new \in ProcType /\ new.role = proc[p].role /\ new.at = "locked" /\ new.file = f
        /\ new.next = Len(lines[f]) /\ new.kept = proc[p].kept
    BY <1>1, <1>2 DEF ProcType
  <1> HIDE DEF new
  <1>5. /\ proc' \in [Procs -> ProcType] /\ proc'[p] = new
        /\ \A q \in Procs \ {p} : proc'[q] = proc[q]
    BY <1>3, <1>4 DEF FilesInv, TypeOK
  <1>6. TypeOK'
    BY <1>3, <1>4, <1>5 DEF FilesInv, TypeOK
  <1>7. AllNumbered'
    BY <1>3, <1>4, <1>5 DEF FilesInv, AllNumbered
  <1>8. HoldersLocked'
    <2> SUFFICES ASSUME NEW q \in Procs
                 PROVE  /\ proc'[q].at # "idle" => proc'[q].file \in AllFiles
                        /\ proc'[q].at \in {"locked", "read"} => holder'[proc'[q].file] = q
      BY DEF HoldersLocked
    <2>1. CASE q = p
      BY <2>1, <1>1, <1>3, <1>4, <1>5 DEF FilesInv, TypeOK
    <2>2. CASE q # p
      <3>1. proc'[q] = proc[q]
        BY <2>2, <1>5
      <3>2. proc[q].at \in {"locked", "read"} => proc[q].file # f
        BY <1>1, ProcsAssumption DEF FilesInv, HoldersLocked
      <3> QED
        BY <3>1, <3>2, <1>1, <1>3 DEF FilesInv, TypeOK, HoldersLocked
    <2> QED
      BY <2>1, <2>2
  <1>9. CountsMatch'
    BY <1>3, <1>4, <1>5 DEF FilesInv, CountsMatch
  <1> QED
    BY <1>6, <1>7, <1>8, <1>9 DEF FilesInv

\* A process that finds the lock taken gives up.
LEMMA AlreadyLockedInv ==
    ASSUME FilesInv, NEW p \in Procs, AlreadyLocked(p)
    PROVE  FilesInv'
  <1>1. /\ proc' \in [Procs -> ProcType] /\ proc'[p] = Idle
        /\ \A q \in Procs \ {p} : proc'[q] = proc[q]
        /\ lines' = lines /\ path' = path /\ files' = files /\ holder' = holder
    BY IdleType DEF FilesInv, TypeOK, AlreadyLocked
  <1>2. TypeOK'
    BY <1>1, IdleType DEF FilesInv, TypeOK
  <1>3. AllNumbered'
    BY <1>1, IdleType, EmptyNumbered DEF FilesInv, AllNumbered
  <1>4. HoldersLocked' /\ CountsMatch'
    BY <1>1, IdleType DEF FilesInv, HoldersLocked, CountsMatch
  <1> QED
    BY <1>2, <1>3, <1>4 DEF FilesInv

\* A record: the writer's count is its file's length, and by the lock no other
\* live writer counts the lines of the same file.
LEMMA RecordInv ==
    ASSUME FilesInv, NEW p \in Procs, Record(p)
    PROVE  FilesInv'
  <1> DEFINE f == proc[p].file
             m == proc[p].next
             new == [proc[p] EXCEPT !.next = m + 1]
  <1>1. /\ f \in AllFiles /\ proc[p] \in ProcType /\ lines[f] \in Seq(Nat)
        /\ holder[f] = p /\ Numbered(lines[f]) /\ m = Len(lines[f])
        /\ proc[p].role = "writer" /\ proc[p].at = "locked"
    BY DEF FilesInv, TypeOK, HoldersLocked, CountsMatch, AllNumbered, Record
  <1>2. m \in Nat
    BY <1>1
  <1>3. /\ Append(lines[f], m) \in Seq(Nat)
        /\ Len(Append(lines[f], m)) = m + 1
        /\ Numbered(Append(lines[f], m))
    BY <1>1, <1>2, AppendNumbered
  <1>4. /\ new \in ProcType /\ new.role = "writer" /\ new.at = "locked" /\ new.file = f
        /\ new.next = m + 1 /\ new.kept = proc[p].kept
    <2>1. m + 1 \in Nat
      BY <1>2
    <2> QED
      BY <1>1, <2>1, CountedType
  <1>5. /\ lines' = [lines EXCEPT ![f] = Append(lines[f], m)]
        /\ proc' = [proc EXCEPT ![p] = new]
        /\ path' = path /\ files' = files /\ holder' = holder
    BY DEF Record, FilesInv, TypeOK
  <1> HIDE DEF new
  <1>6. /\ proc' \in [Procs -> ProcType] /\ proc'[p] = new
        /\ \A q \in Procs \ {p} : proc'[q] = proc[q]
        /\ lines' \in [AllFiles -> Seq(Nat)] /\ lines'[f] = Append(lines[f], m)
        /\ \A g \in AllFiles \ {f} : lines'[g] = lines[g]
    BY <1>1, <1>3, <1>4, <1>5 DEF FilesInv, TypeOK
  <1>7. TypeOK'
    BY <1>4, <1>5, <1>6 DEF FilesInv, TypeOK
  <1>8. AllNumbered'
    <2>1. \A g \in AllFiles : Numbered(lines'[g])
      BY <1>3, <1>6 DEF FilesInv, AllNumbered
    <2>2. \A q \in Procs : Numbered(proc'[q].kept)
      BY <1>4, <1>6 DEF FilesInv, AllNumbered
    <2> QED
      BY <2>1, <2>2 DEF AllNumbered
  <1>9. HoldersLocked'
    BY <1>1, <1>4, <1>5, <1>6 DEF FilesInv, HoldersLocked
  <1>10. CountsMatch'
    <2> SUFFICES ASSUME NEW q \in Procs, proc'[q].role = "writer", proc'[q].at = "locked"
                 PROVE  proc'[q].next = Len(lines'[proc'[q].file])
      BY DEF CountsMatch
    <2>1. CASE q = p
      BY <2>1, <1>3, <1>4, <1>6
    <2>2. CASE q # p
      <3>1. proc'[q] = proc[q] /\ proc[q].file \in AllFiles /\ holder[proc[q].file] = q
        BY <2>2, <1>6 DEF FilesInv, HoldersLocked
      <3>2. proc[q].file # f
        BY <2>2, <3>1, <1>1
      <3> QED
        BY <3>1, <3>2, <1>6 DEF FilesInv, CountsMatch
    <2> QED
      BY <2>1, <2>2
  <1> QED
    BY <1>7, <1>8, <1>9, <1>10 DEF FilesInv

\* Closing or dying lets go of the lock.
LEMMA CloseOrDieInv ==
    ASSUME FilesInv, NEW p \in Procs, CloseOrDie(p)
    PROVE  FilesInv'
  <1>1. Release(p) /\ path' = path /\ files' = files /\ lines' = lines
    BY DEF CloseOrDie
  <1>2. /\ path' \in 0 .. files' /\ files' \in 0 .. MaxFiles /\ files <= files'
        /\ lines' \in [AllFiles -> Seq(Nat)]
    BY <1>1, FileBoundsAssumption DEF FilesInv, TypeOK
  <1>3. \A f \in AllFiles : Numbered(lines'[f])
    BY <1>1 DEF FilesInv, AllNumbered
  <1> QED
    BY <1>1, <1>2, <1>3, ReleaseFilesInv

\* A rewrite decides on its lines: a prefix of what it read, or fresh ones.
LEMMA ChooseInv ==
    ASSUME FilesInv, NEW p \in Procs, ReadLog(p) \/ Summarise(p)
    PROVE  FilesInv'
  <1>1. PICK kept \in Seq(Nat) :
            Numbered(kept) /\ proc' = [proc EXCEPT ![p].at = "read", ![p].kept = kept]
    <2>1. CASE ReadLog(p)
      <3>1. path \in AllFiles
        <4>1. path # 0
          BY <2>1 DEF ReadLog
        <4>2. path \in 0 .. files /\ files \in 0 .. MaxFiles
          BY DEF FilesInv, TypeOK
        <4> QED
          BY <4>1, <4>2, FileBoundsAssumption DEF AllFiles
      <3>2. lines[path] \in Seq(Nat) /\ Numbered(lines[path])
        BY <3>1 DEF FilesInv, TypeOK, AllNumbered
      <3>3. PICK n \in 0 .. (Len(lines[path]) - 1) :
                proc' = [proc EXCEPT ![p].at = "read", ![p].kept = SubSeq(lines[path], 1, n)]
        BY <2>1 DEF ReadLog
      <3>4. n \in Nat /\ n <= Len(lines[path])
        BY <3>2
      <3>5. SubSeq(lines[path], 1, n) \in Seq(Nat) /\ Numbered(SubSeq(lines[path], 1, n))
        BY <3>2, <3>4, PrefixNumbered
      <3> QED
        BY <3>3, <3>5
    <2>2. CASE Summarise(p)
      <3>1. PICK n \in 1 .. MaxLines :
                proc' = [proc EXCEPT ![p].at = "read", ![p].kept = Seqs(n)]
        BY <2>2 DEF Summarise
      <3>2. n \in Nat
        BY FileBoundsAssumption
      <3> QED
        BY <3>1, <3>2, SeqsNumbered
    <2> QED
      BY <2>1, <2>2
  <1> DEFINE new == [proc[p] EXCEPT !.at = "read", !.kept = kept]
  <1>2. /\ path' = path /\ files' = files /\ lines' = lines /\ holder' = holder
        /\ proc[p] \in ProcType /\ proc[p].at = "locked"
    BY DEF ReadLog, Summarise, FilesInv, TypeOK
  <1>3. /\ new \in ProcType /\ new.role = proc[p].role /\ new.at = "read"
        /\ new.file = proc[p].file /\ new.kept = kept
    BY <1>2 DEF ProcType
  <1>4. proc' = [proc EXCEPT ![p] = new]
    BY <1>1 DEF FilesInv, TypeOK
  <1> HIDE DEF new
  <1>5. /\ proc' \in [Procs -> ProcType] /\ proc'[p] = new
        /\ \A q \in Procs \ {p} : proc'[q] = proc[q]
    BY <1>3, <1>4 DEF FilesInv, TypeOK
  <1>6. TypeOK'
    BY <1>2, <1>3, <1>5 DEF FilesInv, TypeOK
  <1>7. AllNumbered'
    BY <1>1, <1>2, <1>3, <1>5 DEF FilesInv, AllNumbered
  <1>8. HoldersLocked'
    BY <1>2, <1>3, <1>5 DEF FilesInv, HoldersLocked
  <1>9. CountsMatch'
    BY <1>2, <1>3, <1>5 DEF FilesInv, CountsMatch
  <1> QED
    BY <1>6, <1>7, <1>8, <1>9 DEF FilesInv

\* The new file is one that nobody has opened yet.
LEMMA ReplaceInv ==
    ASSUME FilesInv, NEW p \in Procs, Replace(p)
    PROVE  FilesInv'
  <1>1. /\ files \in Nat /\ files' = files + 1 /\ files' \in AllFiles /\ path' = files'
        /\ files' \in 0 .. MaxFiles /\ path' \in 0 .. files' /\ files <= files'
    BY FileBoundsAssumption DEF FilesInv, TypeOK, Replace, AllFiles
  <1>2. proc[p].kept \in Seq(Nat) /\ Numbered(proc[p].kept)
    BY DEF FilesInv, TypeOK, AllNumbered, ProcType
  <1>3. lines' = [lines EXCEPT ![files + 1] = proc[p].kept] /\ Release(p)
    BY <1>1 DEF Replace
  <1>4. /\ lines' \in [AllFiles -> Seq(Nat)]
        /\ lines'[files + 1] = proc[p].kept
        /\ \A f \in AllFiles \ {files + 1} : lines'[f] = lines[f]
    BY <1>1, <1>2, <1>3 DEF FilesInv, TypeOK
  <1>5. \A f \in AllFiles : Numbered(lines'[f])
    BY <1>2, <1>4 DEF FilesInv, AllNumbered
  <1>6. \A f \in AllFiles : f <= files => lines'[f] = lines[f]
    BY <1>1, <1>4 DEF AllFiles
  <1> QED
    BY <1>1, <1>3, <1>4, <1>5, <1>6, ReleaseFilesInv

\* A delete leaves the name without a file.
LEMMA UnlinkInv ==
    ASSUME FilesInv, NEW p \in Procs, Unlink(p)
    PROVE  FilesInv'
  <1>1. Release(p) /\ path' = 0 /\ files' = files /\ lines' = lines
    BY DEF Unlink
  <1>2. /\ path' \in 0 .. files' /\ files' \in 0 .. MaxFiles /\ files <= files'
        /\ lines' \in [AllFiles -> Seq(Nat)]
    BY <1>1, FileBoundsAssumption DEF FilesInv, TypeOK
  <1>3. \A f \in AllFiles : Numbered(lines'[f])
    BY <1>1 DEF FilesInv, AllNumbered
  <1> QED
    BY <1>1, <1>2, <1>3, ReleaseFilesInv

\* Every step keeps the invariant.
LEMMA NextFilesInv ==
    ASSUME FilesInv, [Next]_vars
    PROVE  FilesInv'
  <1>1. CASE UNCHANGED vars
    BY <1>1 DEF vars, FilesInv, TypeOK, AllNumbered, HoldersLocked, CountsMatch
  <1> QED
    BY <1>1, OpenFileInv, LockFileInv, AlreadyLockedInv, RecordInv, CloseOrDieInv, ChooseInv,
       ReplaceInv, UnlinkInv DEF Next

-----------------------------------------------------------------------------
(* Theorems. *)

\* The inductive invariant holds of every behaviour.
THEOREM FilesInvariant == Spec => []FilesInv
  <1>1. FilesInv /\ [Next]_vars => FilesInv'
    BY NextFilesInv
  <1> QED
    BY <1>1, InitFilesInv, PTL DEF Spec

\* No process, however it interleaves with the others, gets a file that was
\* not created or a line that has no number.
THEOREM FilesTypeCorrect == Spec => []TypeOK
  <1>1. FilesInv => TypeOK
    BY DEF FilesInv
  <1> QED
    BY <1>1, FilesInvariant, PTL

\* For any number of writers, rewrites and deletes, in any interleaving, the
\* visible log's seqs are 0, 1, 2, ...: no open resumes at a wrong number.
THEOREM FilesSeqsContinuous == Spec => []SeqsContinuous
  <1>1. FilesInv => SeqsContinuous
    <2> SUFFICES ASSUME FilesInv, path # 0
                 PROVE  \A i \in 1 .. Len(lines[path]) : lines[path][i] = i - 1
      BY DEF SeqsContinuous
    <2>1. path \in AllFiles
      BY FileBoundsAssumption DEF FilesInv, TypeOK, AllFiles
    <2> QED
      BY <2>1 DEF FilesInv, AllNumbered, Numbered
  <1> QED
    BY <1>1, FilesInvariant, PTL
=============================================================================
