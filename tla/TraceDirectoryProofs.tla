------------------------ MODULE TraceDirectoryProofs ------------------------
(***************************************************************************)
(* Any number of processes that end at once: they agree on the directory,  *)
(* only a missing parent stops one, and a trace file has the events of the *)
(* threads it is named after.                                              *)
(***************************************************************************)
EXTENDS TraceDirectory, TLAPS

Kinds == [Paths -> {"missing", "file", "directory"}]
InTrace == {"spawning", "gone"}

\* What a process has found out about the path is still so: it never turns from or
\* into a file, and no directory goes.
Found ==
  /\ env \in Paths /\ parent \in BOOLEAN /\ kind \in Kinds
  /\ kind["current_path"] = "directory"
  /\ ~parent => kind["path"] = "missing"
  /\ pc \in [Processes -> {"running", "exists", "create"} \cup InTrace \cup Ended]
  /\ trace_dir \in [Processes -> Paths]
  /\ \A p \in Processes : pc[p] \in {"running", "exists", "create", "terminated"} => trace_dir[p] = env
  /\ \A p \in Processes : pc[p] = "exists" => kind[env] # "missing"
  /\ \A p \in Processes : pc[p] = "create" => kind[env] # "file"
  /\ \A p \in Processes : pc[p] = "terminated" => ~parent
  /\ \A p \in Processes : pc[p] \in InTrace =>
       trace_dir[p] = (IF kind[env] = "file" THEN "current_path" ELSE env)
  /\ \A p \in Processes : pc[p] \in InTrace => kind[env] # "missing"

\* At first nobody has looked.
LEMMA InitFound == Init => Found
  BY DEF Init, Found, Paths, Kinds, InTrace, Ended

\* What one process does leaves the others' findings true.
LEMMA FoundStep == Found /\ [Next]_vars => Found'
<1> SUFFICES ASSUME Found, [Next]_vars PROVE Found'
  OBVIOUS
<1> USE DEF Found, Kinds, Paths, InTrace, Ended, Step, Target
<1>1. CASE UNCHANGED vars
  BY <1>1 DEF vars
<1>2. ASSUME NEW p \in Processes, Exists(p) PROVE Found'
  BY <1>2 DEF Exists
<1>3. ASSUME NEW p \in Processes, IsDirectory(p) PROVE Found'
  <2>1. trace_dir'[p] = IF kind[env] = "file" THEN "current_path" ELSE env
    BY <1>3 DEF IsDirectory
  <2> QED
    BY <1>3, <2>1 DEF IsDirectory
<1>4. ASSUME NEW p \in Processes, CreateDirectory(p) PROVE Found'
  <2>1. parent /\ pc[p] = "create" /\ trace_dir[p] = env /\ kind[env] # "file"
    BY <1>4 DEF CreateDirectory, MayCreate
  <2>2. kind' = [kind EXCEPT ![env] = "directory"]
    BY <1>4, <2>1 DEF CreateDirectory
  <2> QED
    BY <1>4, <2>1, <2>2 DEF CreateDirectory
<1>5. ASSUME NEW p \in Processes, CreateDirectoryFails(p) PROVE Found'
  BY <1>5 DEF CreateDirectoryFails, MayCreate
<1>6. ASSUME NEW p \in Processes, Join(p) PROVE Found'
  BY <1>6 DEF Join
<1>7. ASSUME NEW b \in Buffers, OpenTrace(b) \/ WriteTrace(b) PROVE Found'
  BY <1>7 DEF OpenTrace, WriteTrace
<1> QED
  BY <1>1, <1>2, <1>3, <1>4, <1>5, <1>6, <1>7 DEF Next, Process

\* Found holds in every reachable state.
LEMMA FoundInvariant == Spec => []Found
  BY InitFound, FoundStep, PTL DEF Spec

\* However the processes' looks at AS_TRACE_PATH and its creation interleave, all of
\* them write into the same directory.
THEOREM DirectoryAgreed == Spec => []OneDirectory
<1>1. Found => OneDirectory
  BY DEF Found, OneDirectory, Target, InTrace, Kinds, Paths
<1> QED
  BY FoundInvariant, <1>1, PTL

\* A process is terminated only for want of a parent directory.
THEOREM MissingParentOnly == Spec => []TerminatedAlone
<1>1. Found => TerminatedAlone
  BY DEF Found, TerminatedAlone
<1> QED
  BY FoundInvariant, <1>1, PTL

-----------------------------------------------------------------------------
(* The writer threads.                                                     *)

\* What a writer thread does, it does between the directory and its being joined.
Writers ==
  /\ writer \in [Buffers -> {"none", "open", "written"}]
  /\ files \in [Paths \X ThreadIds -> SUBSET Buffers]
  /\ \A b \in Buffers : pc[b[2]] = "gone" => writer[b] = "written"
  /\ \A b \in Buffers : writer[b] # "none" => pc[b[2]] \in InTrace

\* A buffer has a file name.
LEMMA FileName ==
  ASSUME Found, NEW b \in Buffers
  PROVE  TraceName(b) \in Paths \X ThreadIds /\ TraceName(b)[2] = b[1]
  BY BuffersAssumption DEF Found, TraceName

\* At first there is no writer and no file.
LEMMA InitWriters == Init => Writers
  BY BuffersAssumption DEF Init, Writers

\* A process is joined with all its writers, and they write while it waits for them.
LEMMA WritersStep == Found /\ Writers /\ [Next]_vars => Writers'
<1> SUFFICES ASSUME Found, Writers, [Next]_vars PROVE Writers'
  OBVIOUS
<1> USE DEF Writers
<1>1. CASE UNCHANGED vars
  BY <1>1 DEF vars
<1>2. ASSUME NEW p \in Processes,
             Exists(p) \/ IsDirectory(p) \/ CreateDirectory(p) \/ CreateDirectoryFails(p)
      PROVE Writers'
  <2>1. /\ UNCHANGED <<writer, files>> /\ pc[p] \in {"running", "exists", "create"}
        /\ \E to \in {"exists", "create", "spawning", "terminated"} : pc' = [pc EXCEPT ![p] = to]
    BY <1>2 DEF Exists, IsDirectory, CreateDirectory, CreateDirectoryFails, Step
  <2> QED
    BY <2>1, BuffersAssumption DEF Found, InTrace
<1>3. ASSUME NEW p \in Processes, Join(p) PROVE Writers'
  BY <1>3, BuffersAssumption DEF Join, Joined, Step, Found, InTrace
<1>4. ASSUME NEW b \in Buffers, OpenTrace(b) \/ WriteTrace(b) PROVE Writers'
  BY <1>4, FileName DEF OpenTrace, WriteTrace, InTrace
<1> QED
  BY <1>1, <1>2, <1>3, <1>4 DEF Next, Process

LEMMA WritersInvariant == Spec => [](Found /\ Writers)
<1>1. Init => Found /\ Writers
  BY InitFound, InitWriters
<1>2. Found /\ Writers /\ [Next]_vars => (Found /\ Writers)'
  BY FoundStep, WritersStep
<1> QED
  BY <1>1, <1>2, PTL DEF Spec

\* The ranges of the variables, and no process is gone before its writers are done:
\* for any number of processes and buffers, whether their ids differ or not.
THEOREM DirectoryTypes == Spec => []TypeOK
<1>1. Found /\ Writers => TypeOK
  BY DEF Found, Writers, TypeOK, Kinds, InTrace, Ended
<1> QED
  BY WritersInvariant, <1>1, PTL

-----------------------------------------------------------------------------
(* The trace files.                                                        *)

\* Of the writers of a file one has left its events there or is about to: only one
\* that has still to write truncates it.
Written ==
  /\ \A b \in Buffers : writer[b] = "written" =>
       \/ files[TraceName(b)] # {}
       \/ \E a \in Buffers : writer[a] = "open" /\ TraceName(a) = TraceName(b)
  /\ \A f \in Paths \X ThreadIds : \A b \in files[f] : b[1] = f[2]

TraceInv == Found /\ Writers /\ Written

\* At first no file is there.
LEMMA InitWritten == Init => Written
  BY BuffersAssumption DEF Init, Written

\* A process that is not writing yet changes no file, and where it writes stays; one
\* that writes leaves its file with events or with itself to add them.
LEMMA WrittenStep == TraceInv /\ [Next]_vars => Written'
<1> SUFFICES ASSUME TraceInv, [Next]_vars PROVE Written'
  OBVIOUS
<1>1. CASE UNCHANGED vars
  BY <1>1 DEF TraceInv, Written, TraceName, vars
<1>2. ASSUME NEW p \in Processes,
             Exists(p) \/ IsDirectory(p) \/ CreateDirectory(p) \/ CreateDirectoryFails(p) \/ Join(p)
      PROVE Written'
  <2>1. UNCHANGED <<writer, files>>
    BY <1>2 DEF Exists, IsDirectory, CreateDirectory, CreateDirectoryFails, Join
  <2>2. \A b \in Buffers : writer[b] # "none" => trace_dir'[b[2]] = trace_dir[b[2]]
    BY <1>2, BuffersAssumption
       DEF Exists, IsDirectory, CreateDirectory, CreateDirectoryFails, Join, Step, TraceInv, Found,
           Writers, InTrace
  <2>3. \A b \in Buffers : writer[b] # "none" => TraceName(b)' = TraceName(b)
    BY <2>2 DEF TraceName
  <2>4. ASSUME NEW b \in Buffers, writer[b] = "written"
        PROVE  \/ files[TraceName(b)] # {}
               \/ \E a \in Buffers : writer[a] = "open" /\ TraceName(a)' = TraceName(b)'
    BY <2>3, <2>4 DEF TraceInv, Written
  <2> QED
    BY <2>1, <2>3, <2>4 DEF TraceInv, Written
<1>3. ASSUME NEW b \in Buffers, OpenTrace(b) \/ WriteTrace(b) PROVE Written'
  <2>1. UNCHANGED <<pc, trace_dir>>
    BY <1>3 DEF OpenTrace, WriteTrace
  <2>2. \A a \in Buffers : /\ TraceName(a) \in Paths \X ThreadIds
                           /\ TraceName(a)[2] = a[1]
                           /\ TraceName(a)' = TraceName(a)
    BY <2>1, FileName DEF TraceInv, TraceName
  <2>3. CASE OpenTrace(b)
    BY <2>2, <2>3 DEF OpenTrace, TraceInv, Written, Writers
  <2>4. CASE WriteTrace(b)
    <3>1. PICK rest \in {{}, files[TraceName(b)]} :
            files' = [files EXCEPT ![TraceName(b)] = rest \cup {b}]
      BY <2>4 DEF WriteTrace
    <3> QED
      BY <2>2, <2>4, <3>1 DEF WriteTrace, TraceInv, Written, Writers
  <2> QED
    BY <1>3, <2>3, <2>4
<1> QED
  BY <1>1, <1>2, <1>3 DEF Next, Process

\* For any number of processes and threads, whoever truncates whose file: when the
\* processes with a thread of an id have ended, its file has events, and of none but
\* these threads.
THEOREM FilesByThreadId == Spec => []TraceOfId
<1>1. Init => TraceInv
  BY InitFound, InitWriters, InitWritten DEF TraceInv
<1>2. TraceInv /\ [Next]_vars => TraceInv'
  BY FoundStep, WritersStep, WrittenStep DEF TraceInv
<1>3. ASSUME TraceInv, NEW b \in Buffers, \A a \in SameId(b) : pc[a[2]] = "gone"
      PROVE  files[TraceName(b)] # {} /\ files[TraceName(b)] \subseteq SameId(b)
  <2>1. \A a \in Buffers : TraceName(a) \in Paths \X ThreadIds /\ TraceName(a)[2] = a[1]
    BY <1>3, FileName DEF TraceInv
  <2>2. \A a \in Buffers : TraceName(a) = TraceName(b) => writer[a] = "written"
    BY <1>3, <2>1 DEF TraceInv, Writers, SameId
  <2>3. files[TraceName(b)] # {}
    BY <1>3, <2>2 DEF TraceInv, Written
  <2>4. files[TraceName(b)] \subseteq Buffers
    BY <1>3, <2>1 DEF TraceInv, Writers
  <2> QED
    BY <1>3, <2>1, <2>3, <2>4 DEF TraceInv, Written, SameId
<1>4. TraceInv => TraceOfId
  BY <1>3 DEF TraceOfId
<1> QED
  BY <1>1, <1>2, <1>4, PTL DEF Spec

\* In particular a thread whose id no thread of another process has gets what the
\* README promises: a file with its events, all of them and alone.
THEOREM OwnTraces ==
  ASSUME NEW b \in Buffers, \A a \in Buffers : a[1] = b[1] => a = b
  PROVE  Spec => [](pc[b[2]] = "gone" => files[TraceName(b)] = {b})
<1>1. TraceOfId => (pc[b[2]] = "gone" => files[TraceName(b)] = {b})
  BY DEF TraceOfId, SameId
<1> QED
  BY <1>1, FilesByThreadId, PTL
=============================================================================
