--------------------------- MODULE AccessSampling ---------------------------
(***************************************************************************)
(* access_sampling (src/access_sampling.cpp): the plugin object all        *)
(* threads share.  Every thread adds its metrics itself, under             *)
(* buffer_mutex_; one thread stops the measurement, asks for the values of *)
(* each metric id and destroys the object, which writes one trace file per *)
(* buffer.  The threads that were not stopped go on sampling meanwhile.    *)
(*                                                                         *)
(* What goes on between the signals and the event buffer of a thread is    *)
(* PerfSampling.  Here it is what SampleStream says: the kernel takes a    *)
(* sample into the ring of its metric, and the handler stores the oldest   *)
(* of a ring some time later, or never.  A buffer is named after the       *)
(* thread whose add_metric made it.                                        *)
(***************************************************************************)
EXTENDS Naturals, Sequences, SequencesExt

CONSTANTS Threads,       \* the threads of the process, over its whole life
          Main,          \* the one that stops and destroys the plugin
          Ids,           \* what std::this_thread::get_id may return
          Loads, Stores, \* the metrics of either access type: events and periods
          BufferSize,    \* buffer_size_
          MaxSamples,    \* bound: samples in a behaviour
          MaxAdds,       \* bound: add_metric starts while all_events_ is shorter
          Reuse,         \* BOOLEAN: the id of a thread that ended is used again
          Failures,      \* what may throw: "alloc" (make_shared and push_back),
                         \* "event_open", "directory", "write"
          NoThread, NoId, NoBuffer, NoMetric, NoEvent, NoTrace

ASSUME MainAssumption == Main \in Threads
ASSUME BufferSizeAssumption == BufferSize \in Nat \ {0}
ASSUME MaxSamplesAssumption == MaxSamples \in Nat
ASSUME MaxAddsAssumption == MaxAdds \in Nat
ASSUME NoThreadAssumption == NoThread \notin Threads
ASSUME NoBufferAssumption == NoBuffer \notin Threads
ASSUME NoTraceAssumption == NoTrace \notin Seq([time : Nat, addr : Nat, metric : Loads \cup Stores])

VARIABLES pc,        \* per thread: where it is
          id,        \* per thread: its std::thread::id
          usedIds,   \* ids handed out so far
          metric,    \* per thread: argument of add_metric
          newid,     \* per thread: local id of add_metric
          buffer_mutex_, thread_event_buffers_, all_events_,
          event_data_,    \* per thread: the thread_local pointer in PerfSampling
          sampling,       \* per thread: the metrics whose events are enabled
          blocked,        \* per thread: SIGPROF is blocked
          slots,          \* per buffer: its slots
          access_count,   \* per buffer: the events appended to it
          now,            \* the clock the handler reads
          taken,          \* samples taken so far: the address of the next one
          waiting,        \* per thread and metric: the samples in the ring
          sampled,        \* history, per thread: its samples
          results,        \* history: the ids add_metric returned, to whom for what
          phase,          \* of the measurement
          series,         \* per metric id: what get_all_values wrote
          it,             \* Main's iteration over a buffer
          copies,         \* per id of a thread: the copy its writer thread has
          traces          \* per id of a thread: its trace file

threadVars == <<pc, id, usedIds, metric, newid>>
pluginVars == <<buffer_mutex_, thread_event_buffers_, all_events_>>
perfVars == <<event_data_, sampling, blocked>>
ringVars == <<taken, waiting, sampled>>
bufferVars == <<slots, access_count, now, ringVars>>
endVars == <<phase, series, it, copies, traces>>
vars == <<threadVars, pluginVars, perfVars, bufferVars, results, endVars>>

Metrics == Loads \cup Stores
AccessType(m) == IF m \in Loads THEN "LOAD" ELSE "STORE"
Slots == 0..BufferSize-1
At(b, k, match) == [buffer |-> b, slot |-> k, matched |-> match]
NoLoop == At(NoBuffer, 0, FALSE)

Init == /\ pc = [t \in Threads |-> "unborn"]
        /\ id = [t \in Threads |-> NoId] /\ usedIds = {}
        /\ metric = [t \in Threads |-> NoMetric] /\ newid = [t \in Threads |-> 0]
        /\ buffer_mutex_ = NoThread
        /\ thread_event_buffers_ = [i \in Ids |-> NoBuffer]
        /\ all_events_ = <<>>
        /\ event_data_ = [t \in Threads |-> NoBuffer]
        /\ sampling = [t \in Threads |-> {}] /\ blocked = [t \in Threads |-> FALSE]
        /\ slots = [t \in Threads |-> [k \in Slots |-> NoEvent]]
        /\ access_count = [t \in Threads |-> 0] /\ now = 0
        /\ taken = 0 /\ sampled = [t \in Threads |-> <<>>]
        /\ waiting = [t \in Threads |-> [m \in Metrics |-> <<>>]]
        /\ results = {}
        /\ phase = "running" /\ series = <<>> /\ it = NoLoop
        /\ copies = [i \in Ids |-> NoTrace] /\ traces = [i \in Ids |-> NoTrace]

-----------------------------------------------------------------------------
(* Threads come and go; the thread-local state goes with them, but a ring  *)
(* is never unmapped.                                                      *)

Start(t) ==
  /\ pc[t] = "unborn" /\ phase = "running"
  /\ \E i \in Ids \ {id[u] : u \in Threads} :
       /\ Reuse \/ i \notin usedIds
       /\ id' = [id EXCEPT ![t] = i]
       /\ usedIds' = usedIds \cup {i}
  /\ pc' = [pc EXCEPT ![t] = "user"]
  /\ UNCHANGED <<metric, newid, pluginVars, perfVars, bufferVars, results, endVars>>

Exit(t) ==
  /\ pc[t] = "user" /\ t # Main
  /\ pc' = [pc EXCEPT ![t] = "exited"] /\ id' = [id EXCEPT ![t] = NoId]
  /\ event_data_' = [event_data_ EXCEPT ![t] = NoBuffer]
  /\ sampling' = [sampling EXCEPT ![t] = {}]
  /\ UNCHANGED <<usedIds, metric, newid, pluginVars, blocked, bufferVars, results, endVars>>

-----------------------------------------------------------------------------
(* add_metric.                                                             *)

\* The metric parsed and encoded; Score-P adds no metric once it has stopped.
AddMetric(t) ==
  /\ pc[t] = "user" /\ phase = "running" /\ Len(all_events_) < MaxAdds
  /\ \E m \in Metrics : metric' = [metric EXCEPT ![t] = m]
  /\ pc' = [pc EXCEPT ![t] = "lock"]
  /\ UNCHANGED <<id, usedIds, newid, pluginVars, perfVars, bufferVars, results, endVars>>

Step(t, from, to) == pc[t] = from /\ pc' = [pc EXCEPT ![t] = to]
effects == <<event_data_, sampling, results>>
outside == <<id, usedIds, metric, blocked, bufferVars, endVars>>
Known(t) == thread_event_buffers_[id[t]] # NoBuffer

\* Mutant: nobody waits for the mutex.
MutLock(t) == /\ Step(t, "lock", "find") /\ buffer_mutex_' = t
              /\ UNCHANGED <<newid, thread_event_buffers_, all_events_, effects, outside>>

Lock(t) == /\ Step(t, "lock", "find")
           /\ buffer_mutex_ = NoThread /\ buffer_mutex_' = t
           /\ UNCHANGED <<newid, thread_event_buffers_, all_events_, effects, outside>>

\* Mutant: nothing to do at all, not even to unlock.
MutFindBuffer(t) == /\ Step(t, "find", "open") /\ Known(t)
                    /\ UNCHANGED <<newid, pluginVars, effects, outside>>

\* The id of the thread is known: nothing to do, event_data_ stays as it is.
FindBuffer(t) == /\ Step(t, "find", "size") /\ Known(t)
                 /\ UNCHANGED <<newid, pluginVars, effects, outside>>

\* Mutant: PerfSampling is not told.
MutMakeBuffer(t) ==
  /\ Step(t, "find", "size") /\ ~Known(t)
  /\ thread_event_buffers_' = [thread_event_buffers_ EXCEPT ![id[t]] = t]
  /\ UNCHANGED <<newid, buffer_mutex_, all_events_, effects, outside>>

\* It is not: a new buffer goes into the map and to PerfSampling.
MakeBuffer(t) ==
  /\ Step(t, "find", "size") /\ ~Known(t)
  /\ thread_event_buffers_' = [thread_event_buffers_ EXCEPT ![id[t]] = t]
  /\ event_data_' = [event_data_ EXCEPT ![t] = t]
  /\ UNCHANGED <<newid, buffer_mutex_, all_events_, sampling, results, outside>>

\* make_shared or push_back throws and add_metric ends with the mutex locked.
AllocFails(t) == /\ Step(t, "find", "user") /\ ~Known(t) /\ "alloc" \in Failures
                 /\ UNCHANGED <<newid, pluginVars, effects, outside>>

PushFails(t) == /\ Step(t, "push", "user") /\ "alloc" \in Failures
                /\ UNCHANGED <<newid, pluginVars, effects, outside>>

TakeId(t) == /\ Step(t, "size", "push")
             /\ newid' = [newid EXCEPT ![t] = Len(all_events_)]
             /\ UNCHANGED <<pluginVars, effects, outside>>

PushEvent(t) ==
  /\ Step(t, "push", "unlock")
  /\ all_events_' = Append(all_events_, [tid |-> id[t], metric |-> metric[t]])
  /\ UNCHANGED <<newid, buffer_mutex_, thread_event_buffers_, effects, outside>>

Unlock(t) == /\ Step(t, "unlock", "open") /\ buffer_mutex_' = NoThread
             /\ UNCHANGED <<newid, thread_event_buffers_, all_events_, effects, outside>>

\* event_open and enable: the metric is sampled from now on, its id returned.
EnableMetric(t) ==
  /\ Step(t, "open", "user")
  /\ sampling' = [sampling EXCEPT ![t] = @ \cup {metric[t]}]
  /\ results' = results \cup
       {[id |-> newid[t], thread |-> t, tid |-> id[t], metric |-> metric[t]]}
  /\ UNCHANGED <<newid, pluginVars, event_data_, outside>>

\* event_open throws: the entry in all_events_ stays, its id is never returned.
EventOpenFails(t) == /\ Step(t, "open", "user") /\ "event_open" \in Failures
                     /\ UNCHANGED <<newid, pluginVars, effects, outside>>

Adding(t) == \/ Lock(t) \/ FindBuffer(t) \/ MakeBuffer(t) \/ AllocFails(t) \/ TakeId(t)
             \/ PushFails(t) \/ PushEvent(t) \/ Unlock(t)
             \/ EnableMetric(t) \/ EventOpenFails(t)

-----------------------------------------------------------------------------
(* Sampling, in whatever the thread is doing.  What happens to a buffer    *)
(* once the plugin is gone concerns nobody.                                *)

Measured == phase \in {"running", "stopped", "spawning"}

\* The kernel samples an enabled event, whether the signal is blocked or not; a
\* sample for which its ring has no space is none.
Take(t) ==
  /\ Measured /\ taken < MaxSamples
  /\ \E m \in sampling[t] :
       LET s == [addr |-> taken, metric |-> m]
       IN  /\ waiting' = [waiting EXCEPT ![t][m] = Append(@, s)]
           /\ sampled' = [sampled EXCEPT ![t] = Append(@, s)]
  /\ taken' = taken + 1
  /\ UNCHANGED <<threadVars, pluginVars, perfVars, slots, access_count, now, results, endVars>>

\* The handler of a living thread reads the oldest sample of a ring and stamps it.
\* EventRingBuffer::append: into the next slot, over the oldest event if need be.
Store(t) ==
  /\ Measured /\ pc[t] # "exited" /\ ~blocked[t]
  /\ \E m \in Metrics :
       /\ waiting[t][m] # <<>>
       /\ waiting' = [waiting EXCEPT ![t][m] = Tail(@)]
       /\ LET e == [time |-> now, addr |-> Head(waiting[t][m]).addr, metric |-> m]
              b == event_data_[t]
          IN  IF b # NoBuffer
              THEN /\ slots' = [slots EXCEPT ![b][access_count[b] % BufferSize] = e]
                   /\ access_count' = [access_count EXCEPT ![b] = @ + 1]
              ELSE UNCHANGED <<slots, access_count>>
  /\ now' = now + 1
  /\ UNCHANGED <<threadVars, pluginVars, perfVars, taken, sampled, results, endVars>>

Thread(t) == Start(t) \/ Exit(t) \/ AddMetric(t) \/ Adding(t) \/ Take(t) \/ Store(t)

-----------------------------------------------------------------------------
(* The end of the measurement, in Main.                                    *)

\* No thread is in add_metric when Score-P finalises the plugin.
Quiet == \A t \in Threads : pc[t] \in {"unborn", "user", "exited"}

others == <<threadVars, pluginVars, event_data_, sampling, bufferVars, results>>

\* stop() blocks the signal of the thread that calls it, and of no other.
Stop == /\ phase = "running" /\ pc[Main] = "user" /\ Quiet
        /\ blocked' = [blocked EXCEPT ![Main] = TRUE]
        /\ phase' = "stopped"
        /\ UNCHANGED <<series, it, copies, traces, others>>

\* An iteration starts at the oldest event and ends where the next one will go.
Begin(b) ==
  IF access_count[b] = 0 THEN NoLoop
  ELSE At(b, IF access_count[b] <= BufferSize THEN 0 ELSE access_count[b] % BufferSize, FALSE)

\* Mutant: the iteration stops short of the newest event.
MutAdvanced == LET k == (it.slot + 1) % BufferSize
               IN  IF access_count[it.buffer] % BufferSize \in {k, (k + 1) % BufferSize} THEN NoLoop
                   ELSE At(it.buffer, k, FALSE)

Advanced == LET k == (it.slot + 1) % BufferSize
            IN  IF k = access_count[it.buffer] % BufferSize THEN NoLoop
                ELSE At(it.buffer, k, FALSE)

\* The event the iteration is at, as it is now.
Here == slots[it.buffer][it.slot]

\* get_all_values for the next id; Score-P asks for those it got, in order.
GetAllValues ==
  /\ phase = "stopped" /\ it = NoLoop /\ Len(series) < Len(all_events_)
  /\ series' = Append(series, <<>>)
  /\ it' = IF \E r \in results : r.id = Len(series)
           THEN Begin(thread_event_buffers_[all_events_[Len(series) + 1].tid]) ELSE NoLoop
  /\ UNCHANGED <<blocked, phase, copies, traces, others>>

\* Mutant: every event of the buffer matches.
MutTestType == /\ phase = "stopped" /\ it # NoLoop /\ ~it.matched
               /\ it' = At(it.buffer, it.slot, TRUE)
               /\ UNCHANGED <<blocked, phase, series, copies, traces, others>>

\* event_type == event.access_type
TestType ==
  /\ phase = "stopped" /\ it # NoLoop /\ ~it.matched
  /\ it' = IF AccessType(Here.metric) = AccessType(all_events_[Len(series)].metric)
           THEN At(it.buffer, it.slot, TRUE) ELSE Advanced
  /\ UNCHANGED <<blocked, phase, series, copies, traces, others>>

\* cursor.write reads time and address through the reference, after the test.
WriteValue == /\ phase = "stopped" /\ it.matched
              /\ series' = [series EXCEPT ![Len(series)] = Append(@, Here)]
              /\ it' = Advanced
              /\ UNCHANGED <<blocked, phase, copies, traces, others>>

\* The destructor.  What it or a writer thread throws, nobody catches.
Destroy == /\ phase = "stopped" /\ it = NoLoop
           /\ phase' = "spawning"
           /\ UNCHANGED <<blocked, series, it, copies, traces, others>>

\* For each buffer of the map a copy, made event by event ...
BeginCopy(i) == /\ phase = "spawning" /\ it = NoLoop
                /\ thread_event_buffers_[i] # NoBuffer /\ copies[i] = NoTrace
                /\ copies' = [copies EXCEPT ![i] = <<>>]
                /\ it' = Begin(thread_event_buffers_[i])
                /\ UNCHANGED <<blocked, phase, series, traces, others>>

Copying(i) == it.buffer = thread_event_buffers_[i]

CopyEvent(i) == /\ phase = "spawning" /\ it # NoLoop /\ Copying(i)
                /\ copies' = [copies EXCEPT ![i] = Append(@, Here)]
                /\ it' = Advanced
                /\ UNCHANGED <<blocked, phase, series, traces, others>>

\* Mutant: the writer thread does not have a copy of its own.
MutReady(i) == copies[i] # NoTrace /\ traces[i] = NoTrace
Ready(i) == copies[i] # NoTrace /\ traces[i] = NoTrace /\ ~Copying(i)

\* ... and a thread that writes it to the trace file named after the id.
WriteEventBuffer(i) == /\ phase = "spawning" /\ Ready(i)
                       /\ traces' = [traces EXCEPT ![i] = copies[i]]
                       /\ UNCHANGED <<blocked, phase, series, it, copies, others>>

Terminate == /\ \/ phase = "stopped" /\ it = NoLoop /\ "directory" \in Failures
                \/ phase = "spawning" /\ "write" \in Failures /\ \E i \in Ids : Ready(i)
             /\ phase' = "terminated"
             /\ UNCHANGED <<blocked, series, it, copies, traces, others>>

\* Mutant: the writer threads are not waited for.
MutWritten == TRUE
Written == \A i \in Ids : thread_event_buffers_[i] # NoBuffer => traces[i] # NoTrace

\* Every writer thread is started and joined.
Join == /\ phase = "spawning" /\ Written
        /\ phase' = "gone"
        /\ UNCHANGED <<blocked, series, it, copies, traces, others>>

Finalising == Stop \/ GetAllValues \/ TestType \/ WriteValue \/ Destroy

Writing == \/ Terminate \/ Join
           \/ \E i \in Ids : BeginCopy(i) \/ CopyEvent(i) \/ WriteEventBuffer(i)

Next == Finalising \/ Writing \/ \E t \in Threads : Thread(t)

Spec == Init /\ [][Next]_vars

\* A thread in add_metric gets on, and so do the destructor and its writers.
FairSpec == Spec /\ WF_vars(Writing) /\ \A t \in Threads : WF_vars(Adding(t))

-----------------------------------------------------------------------------
InMutex == {"find", "size", "push", "unlock"}
Sample == [addr : 0..MaxSamples, metric : Metrics]
Event == [time : Nat, addr : 0..MaxSamples, metric : Metrics]
SampleOf(e) == [addr |-> e.addr, metric |-> e.metric]

\* The ranges of the variables, and the mutex is held by whoever is inside.
TypeOK ==
  /\ pc \in [Threads -> InMutex \cup {"unborn", "user", "exited", "lock", "open"}]
  /\ id \in [Threads -> Ids \cup {NoId}] /\ usedIds \subseteq Ids
  /\ metric \in [Threads -> Metrics \cup {NoMetric}] /\ newid \in [Threads -> Nat]
  /\ buffer_mutex_ \in Threads \cup {NoThread}
  /\ \A t \in Threads : pc[t] \in InMutex => buffer_mutex_ = t
  /\ thread_event_buffers_ \in [Ids -> Threads \cup {NoBuffer}]
  /\ all_events_ \in Seq([tid : Ids, metric : Metrics])
  /\ event_data_ \in [Threads -> Threads \cup {NoBuffer}]
  /\ sampling \in [Threads -> SUBSET Metrics] /\ blocked \in [Threads -> BOOLEAN]
  /\ slots \in [Threads -> [Slots -> Event \cup {NoEvent}]]
  /\ access_count \in [Threads -> Nat] /\ now \in Nat
  /\ taken \in 0..MaxSamples /\ sampled \in [Threads -> Seq(Sample)]
  /\ waiting \in [Threads -> [Metrics -> Seq(Sample)]]
  /\ phase \in {"running", "stopped", "spawning", "gone", "terminated"}
  /\ series \in Seq(Seq(Event)) /\ Len(series) <= Len(all_events_)
  /\ it \in [buffer : Threads \cup {NoBuffer}, slot : Slots, matched : BOOLEAN]
  /\ copies \in [Ids -> {NoTrace} \cup Seq(Event)] /\ traces \in [Ids -> {NoTrace} \cup Seq(Event)]

\* The id add_metric returned is the index of what was added under it, whatever
\* other threads added at the same time: get_all_values relies on it.
IdsAgree ==
  \A r \in results :
    /\ r.id < Len(all_events_)
    /\ all_events_[r.id + 1] = [tid |-> r.tid, metric |-> r.metric]

BufferOf(r) == thread_event_buffers_[r.tid]
Fits(r) == access_count[BufferOf(r)] <= BufferSize
Asked(r) == r.id < Len(series)
SeriesOf(r) == series[r.id + 1]

\* The series of a metric id holds samples of the thread that added it, of the
\* type it asked for and with time stamps that increase, unless the buffer is being
\* overwritten by a thread that was not stopped.
PerThreadSeries ==
  \A r \in results : Asked(r) /\ (blocked[r.thread] \/ Fits(r)) =>
    \A i \in 1..Len(SeriesOf(r)) :
      /\ AccessType(SeriesOf(r)[i].metric) = AccessType(r.metric)
      /\ SampleOf(SeriesOf(r)[i]) \in ToSet(sampled[r.thread])
      /\ \A j \in 1..i-1 : SeriesOf(r)[j].time < SeriesOf(r)[i].time

\* A sample that the thread's handler has not read: it never will, once the thread
\* was stopped or has ended.
Waits(t, s) == s \in ToSet(waiting[t][s.metric])

\* The series of the thread that called stop() lacks no sample of the type but those
\* that stop() left in the rings, unless its buffer was too small.
SeriesComplete ==
  \A r \in results :
    /\ Asked(r) /\ (it = NoLoop \/ r.id + 1 < Len(series))
    /\ blocked[r.thread] /\ Fits(r)
    => \A s \in ToSet(sampled[r.thread]) : AccessType(s.metric) = AccessType(r.metric) =>
         Waits(r.thread, s) \/ \E e \in ToSet(SeriesOf(r)) : SampleOf(e) = s

\* When "too small" is not reported, every sample of the thread is in its buffer, or
\* it is still in the ring, of which nobody reports anything.
NoSilentLoss ==
  \A r \in results : Fits(r) =>
    \A s \in ToSet(sampled[r.thread]) :
      \/ Waits(r.thread, s)
      \/ \E k \in Slots : k < access_count[BufferOf(r)] /\ SampleOf(slots[BufferOf(r)][k]) = s

\* The trace file of a thread has every sample Score-P got for it, as long as
\* the buffer of the thread was large enough.
TraceCoversSeries ==
  \A r \in results : Asked(r) /\ traces[r.tid] # NoTrace /\ Fits(r)
    => ToSet(SeriesOf(r)) \subseteq ToSet(traces[r.tid])

\* add_metric comes back in every thread that calls it, as long as no allocation
\* fails: one that does leaves the mutex locked for good.
AddMetricReturns == \A t \in Threads : pc[t] = "lock" ~> pc[t] = "user"

\* The destructor ends, and then every thread's buffer is in a trace file.
TracesWritten ==
  (phase = "spawning") ~>
    \/ phase = "terminated"
    \/ phase = "gone" /\ \A r \in results : traces[r.tid] # NoTrace
=============================================================================
