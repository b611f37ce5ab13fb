--------------------------- MODULE TraceDirectory ---------------------------
(***************************************************************************)
(* Where the trace files of a run go (create_trace_directory in utils.cpp, *)
(* the destructor and write_event_buffer in access_sampling.cpp).  A       *)
(* parallel program is several processes with the same environment, each   *)
(* with a plugin of its own, and they end at about the same time: what one *)
(* found out about AS_TRACE_PATH another may have changed, and a thread id *)
(* is an address, of one thread in a process but of any number in all of   *)
(* them.                                                                   *)
(***************************************************************************)
EXTENDS Naturals

CONSTANTS Processes,
          ThreadIds,  \* what std::this_thread::get_id may return
          Buffers     \* the ids and processes of the threads with an event buffer

ASSUME BuffersAssumption == Buffers \subseteq ThreadIds \X Processes

VARIABLES env,       \* where AS_TRACE_PATH leads: to another path or nowhere
          parent,    \* the directory the path is in exists
          kind,      \* of the two paths: "missing", "file" or "directory"
          pc,        \* per process: where its destructor is
          trace_dir, \* per process: parent_path, then trace_dir
          writer,    \* per buffer: what its writer thread has done
          files      \* per path and id: whose events are in the trace file

vars == <<env, parent, kind, pc, trace_dir, writer, files>>

Paths == {"current_path", "path"}

Init == /\ env \in Paths
        /\ parent \in BOOLEAN
        /\ kind \in {k \in [Paths -> {"missing", "file", "directory"}] :
                       k["current_path"] = "directory" /\ (~parent => k["path"] = "missing")}
        /\ pc = [p \in Processes |-> "running"]
        /\ trace_dir = [p \in Processes |-> env]
        /\ writer = [b \in Buffers |-> "none"]
        /\ files = [f \in Paths \X ThreadIds |-> {}]

Step(p, from, to) == pc[p] = from /\ pc' = [pc EXCEPT ![p] = to]
Target(p) == kind[trace_dir[p]]
Ended == {"gone", "terminated"}

-----------------------------------------------------------------------------
(* create_trace_directory: each look at the file system is a step.         *)

\* read_trace_path_from_env and exists
Exists(p) ==
  /\ \/ Target(p) # "missing" /\ Step(p, "running", "exists")
     \/ Target(p) = "missing" /\ Step(p, "running", "create")
  /\ UNCHANGED <<env, parent, kind, trace_dir, writer, files>>

\* Mutant: anything that exists is replaced by the current path.
MutIsDirectory(p) == /\ Step(p, "exists", "spawning")
                     /\ trace_dir' = [trace_dir EXCEPT ![p] = "current_path"]
                     /\ UNCHANGED <<env, parent, kind, writer, files>>

\* What is no directory is replaced by the current path.
IsDirectory(p) ==
  /\ Step(p, "exists", "spawning")
  /\ trace_dir' = IF Target(p) = "directory" THEN trace_dir
                  ELSE [trace_dir EXCEPT ![p] = "current_path"]
  /\ UNCHANGED <<env, parent, kind, writer, files>>

\* Mutant: the directory of another process is an error.
MutMayCreate(p) == parent /\ Target(p) = "missing"

\* boost::filesystem::create_directory does not mind a directory that exists.
MayCreate(p) == parent /\ Target(p) # "file"

CreateDirectory(p) ==
  /\ MayCreate(p) /\ Step(p, "create", "spawning")
  /\ kind' = [kind EXCEPT ![trace_dir[p]] = "directory"]
  /\ UNCHANGED <<env, parent, trace_dir, writer, files>>

\* ... and throws otherwise: out of a destructor.
CreateDirectoryFails(p) == /\ ~MayCreate(p) /\ Step(p, "create", "terminated")
                           /\ UNCHANGED <<env, parent, kind, trace_dir, writer, files>>

-----------------------------------------------------------------------------
(* A writer thread for each buffer.                                        *)

\* Mutant: one name for all the threads of a process.
MutTraceName(b) == <<trace_dir[b[2]], CHOOSE i \in ThreadIds : TRUE>>

\* trace.<id>.bin in the trace directory
TraceName(b) == <<trace_dir[b[2]], b[1]>>

\* TraceFile in mode WRITE truncates the file, ...
OpenTrace(b) == /\ pc[b[2]] = "spawning" /\ writer[b] = "none"
                /\ writer' = [writer EXCEPT ![b] = "open"]
                /\ files' = [files EXCEPT ![TraceName(b)] = {}]
                /\ UNCHANGED <<env, parent, kind, pc, trace_dir>>

\* ... and the events and the meta data go into it, over what another process may
\* have written there since: all of that or the beginning of it.
WriteTrace(b) == /\ pc[b[2]] = "spawning" /\ writer[b] = "open"
                 /\ writer' = [writer EXCEPT ![b] = "written"]
                 /\ \E rest \in {{}, files[TraceName(b)]} :
                      files' = [files EXCEPT ![TraceName(b)] = rest \cup {b}]
                 /\ UNCHANGED <<env, parent, kind, pc, trace_dir>>

\* Mutant: the writer threads are not waited for.
MutJoined(p) == TRUE
Joined(p) == \A b \in Buffers : b[2] = p => writer[b] = "written"

Join(p) == /\ Joined(p) /\ Step(p, "spawning", "gone")
           /\ UNCHANGED <<env, parent, kind, trace_dir, writer, files>>

Process(p) ==
  \/ Exists(p) \/ IsDirectory(p) \/ CreateDirectory(p) \/ CreateDirectoryFails(p) \/ Join(p)
  \/ \E b \in Buffers : b[2] = p /\ (OpenTrace(b) \/ WriteTrace(b))

Next == \E p \in Processes : Process(p)

Spec == Init /\ [][Next]_vars

-----------------------------------------------------------------------------
\* The ranges of the variables; a process is gone when its writers are.
TypeOK == /\ env \in Paths /\ parent \in BOOLEAN
          /\ kind \in [Paths -> {"missing", "file", "directory"}]
          /\ pc \in [Processes -> {"running", "exists", "create", "spawning"} \cup Ended]
          /\ trace_dir \in [Processes -> Paths]
          /\ writer \in [Buffers -> {"none", "open", "written"}]
          /\ files \in [Paths \X ThreadIds -> SUBSET Buffers]
          /\ \A b \in Buffers : pc[b[2]] = "gone" => writer[b] = "written"

\* A process writes into a directory, and into the one the others write into, however
\* their looks at the path and its creation interleave.
OneDirectory ==
  \A p, q \in Processes :
    pc[p] \in {"spawning", "gone"} /\ pc[q] \in {"spawning", "gone"} =>
      Target(p) = "directory" /\ trace_dir[p] = trace_dir[q]

\* A process is terminated only if there is nowhere to make the directory, never
\* because another one has made it first.
TerminatedAlone == \A p \in Processes : pc[p] = "terminated" => ~parent

\* The threads whose file is named like that of b
SameId(b) == {a \in Buffers : a[1] = b[1]}

\* When the processes with a thread of an id have ended, the file named after the id
\* has events, of none but these threads: so all those of a thread whose id no
\* other process has, and never those of another thread of its process.
TraceOfId ==
  \A b \in Buffers :
    (\A a \in SameId(b) : pc[a[2]] = "gone") =>
      files[TraceName(b)] # {} /\ files[TraceName(b)] \subseteq SameId(b)
=============================================================================
