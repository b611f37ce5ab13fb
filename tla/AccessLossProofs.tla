-------------------------- MODULE AccessLossProofs --------------------------
(***************************************************************************)
(* What a large enough buffer loses: nothing, neither between the rings of *)
(* its thread and the buffer nor between the buffer and the trace file,    *)
(* for every number of threads and every size of the buffers, if no thread *)
(* id is used twice.                                                       *)
(***************************************************************************)
EXTENDS AccessSeriesProofs

\* A buffer is its maker's alone: no other thread that lives has the id it is under.
Owners ==
  /\ \A t \in Threads : Alive(t) => id[t] \in usedIds
  /\ \A t, u \in Threads : Alive(t) /\ Alive(u) /\ id[t] = id[u] => t = u
  /\ \A i \in Ids, u \in Threads : thread_event_buffers_[i] = u =>
       i \in usedIds /\ \A t \in Threads : Alive(t) /\ id[t] = i => t = u

\* Where the samples of a thread go.
Sinks ==
  /\ \A t \in Threads : event_data_[t] \in {t, NoBuffer}
  /\ \A t \in Threads, i \in Ids : Alive(t) /\ thread_event_buffers_[i] = t => event_data_[t] = t
  /\ \A t \in Threads : pc[t] \in {"size", "push", "unlock", "open"} => thread_event_buffers_[id[t]] = t
  /\ \A t \in Threads : sampling[t] # {} => event_data_[t] = t /\ pc[t] # "exited"
  /\ \A t \in Threads, m \in Metrics : waiting[t][m] # <<>> /\ pc[t] # "exited" => event_data_[t] = t
  /\ \A r \in results : r.tid \in Ids /\ r.thread \in Threads /\ thread_event_buffers_[r.tid] = r.thread

\* What a buffer holds that was never overwritten.
Small(b) == access_count[b] <= BufferSize
Holds(b, e) == \E k \in Slots : k < access_count[b] /\ slots[b][k] = e

HoldsSample(b, s) == \E k \in Slots : k < access_count[b] /\ SampleOf(slots[b][k]) = s

\* A sample is in its ring or in the buffer.
Kept == \A t \in Threads : Small(t) =>
          \A s \in ToSet(sampled[t]) : Waits(t, s) \/ HoldsSample(t, s)

\* The series are read from the buffer of the id of their entry.
Buffer(n) == thread_event_buffers_[all_events_[n].tid]
Read == /\ phase = "stopped" /\ it # NoLoop => it.buffer = Buffer(Len(series))
        /\ \A n \in 1..Len(series) : Small(Buffer(n)) =>
             \A e \in ToSet(series[n]) : Holds(Buffer(n), e)

\* A copy being made has the slots behind the iteration, one that was made whatever
\* was in the series.
Copied(i) ==
  IF Copying(i)
  THEN \A k \in Slots : k < it.slot => slots[it.buffer][k] \in ToSet(copies[i])
  ELSE \A n \in 1..Len(series) : all_events_[n].tid = i => ToSet(series[n]) \subseteq ToSet(copies[i])

Copies ==
  /\ phase \in {"running", "stopped"} => \A i \in Ids : copies[i] = NoTrace
  /\ \A i \in Ids : copies[i] # NoTrace =>
       /\ thread_event_buffers_[i] # NoBuffer
       /\ Small(thread_event_buffers_[i]) => Copied(i)
  /\ \A i \in Ids : traces[i] # NoTrace =>
       copies[i] # NoTrace /\ ~Copying(i) /\ traces[i] = copies[i]

LInv == TInv /\ Owners /\ Sinks /\ Kept /\ Read /\ Copies

\* Nothing is owned, kept or read at the start.
LEMMA InitLInv == Init => LInv
<1> SUFFICES ASSUME Init PROVE LInv
  OBVIOUS
<1>1. Owners /\ Sinks
  BY NoBufferAssumption DEF Init, Owners, Sinks, Alive
<1>2. Kept
  BY DEF Init, Kept, ToSet
<1>3. Read /\ Copies
  BY DEF Init, Read, Copies
<1> QED
  BY <1>1, <1>2, <1>3, InitTInv DEF LInv

\* Whatever leaves the buffers and the reading alone keeps what they hold.
LEMMA HeldOn ==
  ASSUME LInv, UNCHANGED <<slots, access_count, endVars, thread_event_buffers_, all_events_>>
  PROVE  /\ Read' /\ Copies'
         /\ UNCHANGED ringVars => Kept'
<1> USE DEF LInv, endVars, Small, Holds
<1>1. UNCHANGED ringVars => Kept'
  BY DEF Kept, HoldsSample, Waits, ringVars
<1>2. Read'
  BY DEF Read, Buffer
<1>3. Copies'
  BY DEF Copies, Copied, Copying
<1> QED
  BY <1>1, <1>2, <1>3

\* A thread that starts has an id never used before.
LEMMA ComeAndGoOwners ==
  ASSUME LInv, Reuse = FALSE, NEW t \in Threads, Start(t) \/ Exit(t) \/ AddMetric(t)
  PROVE  Owners' /\ Sinks' /\ Kept' /\ Read' /\ Copies'
<1> USE DEF LInv, TInv, TypeOK, InMutex, Alive, pluginVars, perfVars, bufferVars, ringVars
<1>1. Kept' /\ Read' /\ Copies'
  BY HeldOn DEF Start, Exit, AddMetric
<1>2. CASE Start(t)
  <2>1. PICK i \in Ids : /\ i \notin usedIds /\ usedIds' = usedIds \cup {i}
                         /\ id' = [id EXCEPT ![t] = i]
    BY <1>2 DEF Start
  <2>2. /\ pc[t] = "unborn" /\ pc' = [pc EXCEPT ![t] = "user"]
        /\ UNCHANGED <<thread_event_buffers_, event_data_, sampling, waiting, results>>
    BY <1>2 DEF Start
  <2>3. Owners'
    BY <2>1, <2>2 DEF Owners
  <2>4. Sinks'
    BY <2>1, <2>2 DEF Sinks, Buffers
  <2> QED
    BY <1>1, <2>3, <2>4
<1>3. CASE Exit(t)
  <2>1. Owners'
    BY <1>3 DEF Exit, Owners
  <2>2. Sinks'
    BY <1>3 DEF Exit, Sinks
  <2> QED
    BY <1>1, <2>1, <2>2
<1>4. CASE AddMetric(t)
  <2>1. Owners'
    BY <1>4 DEF AddMetric, Owners
  <2>2. Sinks'
    BY <1>4 DEF AddMetric, Sinks
  <2> QED
    BY <1>1, <2>1, <2>2
<1> QED
  BY <1>2, <1>3, <1>4

\* A thread that finds its id known made the buffer itself; so it samples into it.
LEMMA AddingOwners ==
  ASSUME LInv, NEW t \in Threads, Adding(t)
  PROVE  Owners' /\ Sinks'
<1> USE DEF LInv, TInv, TypeOK, InMutex, Alive, bufferVars, ringVars
<1>1. /\ UNCHANGED <<id, usedIds, waiting>> /\ id[t] \in Ids /\ pc[t] \notin {"unborn", "exited"}
      /\ \E to \in {"find", "size", "user", "push", "unlock", "open"} : pc' = [pc EXCEPT ![t] = to]
  BY DEF Adding, Lock, FindBuffer, MakeBuffer, AllocFails, PushFails, TakeId, PushEvent, Unlock, EnableMetric,
         EventOpenFails, Step, outside, IdInv, Arguments, InAdd
<1>2. CASE MakeBuffer(t)
  <2>1. /\ thread_event_buffers_' = [thread_event_buffers_ EXCEPT ![id[t]] = t]
        /\ event_data_' = [event_data_ EXCEPT ![t] = t]
        /\ thread_event_buffers_[id[t]] = NoBuffer /\ pc' = [pc EXCEPT ![t] = "size"]
        /\ UNCHANGED <<sampling, results>>
    BY <1>2 DEF MakeBuffer, Known, Step, outside
  <2>2. Owners'
    BY <1>1, <2>1 DEF Owners
  <2>3. Sinks'
    BY <1>1, <2>1, NoBufferAssumption DEF Sinks
  <2> QED
    BY <2>2, <2>3
<1>3. CASE EnableMetric(t)
  <2>1. /\ pc[t] = "open" /\ pc' = [pc EXCEPT ![t] = "user"]
        /\ sampling' = [sampling EXCEPT ![t] = @ \cup {metric[t]}]
        /\ results' = results \cup
             {[id |-> newid[t], thread |-> t, tid |-> id[t], metric |-> metric[t]]}
        /\ UNCHANGED <<thread_event_buffers_, event_data_>>
    BY <1>3 DEF EnableMetric, Step, pluginVars
  <2>2. thread_event_buffers_[id[t]] = t /\ event_data_[t] = t
    BY <1>1, <2>1 DEF Sinks
  <2>3. Owners'
    BY <1>1, <2>1 DEF Owners
  <2>4. Sinks'
    BY <1>1, <2>1, <2>2 DEF Sinks
  <2> QED
    BY <2>3, <2>4
<1>4. CASE ~MakeBuffer(t) /\ ~EnableMetric(t)
  <2>1. /\ UNCHANGED <<thread_event_buffers_, event_data_, sampling, results>>
        /\ \/ pc' = [pc EXCEPT ![t] = "find"] \/ pc' = [pc EXCEPT ![t] = "user"]
           \/ pc[t] = "find" /\ Known(t) /\ pc' = [pc EXCEPT ![t] = "size"]
           \/ /\ pc[t] \in {"size", "push", "unlock", "open"}
              /\ \E to \in {"push", "unlock", "open"} : pc' = [pc EXCEPT ![t] = to]
    BY <1>4 DEF Adding, Lock, FindBuffer, AllocFails, PushFails, TakeId, PushEvent, Unlock, EventOpenFails,
                Step, pluginVars, effects
  <2>2. Known(t) => thread_event_buffers_[id[t]] = t
    BY <1>1 DEF Known, Owners
  <2>3. Owners'
    BY <1>1, <2>1 DEF Owners
  <2>4. Sinks'
    BY <1>1, <2>1, <2>2 DEF Sinks
  <2> QED
    BY <2>3, <2>4
<1> QED
  BY <1>2, <1>3, <1>4

\* Nothing has been read or copied yet.
LEMMA AddingKeeps ==
  ASSUME LInv, NEW t \in Threads, Adding(t)
  PROVE  Kept' /\ Read' /\ Copies'
<1>1. UNCHANGED <<slots, access_count, ringVars, endVars>>
  BY DEF Adding, Lock, FindBuffer, MakeBuffer, AllocFails, PushFails, TakeId, PushEvent, Unlock, EnableMetric,
         EventOpenFails, outside, bufferVars
<1>2. phase = "running" /\ series = <<>> /\ \A i \in Ids : copies[i] = NoTrace /\ traces[i] = NoTrace
  BY AddingRuns DEF LInv, TInv, Phases
<1> QED
  BY <1>1, <1>2 DEF LInv, ringVars, endVars, Kept, Small, Waits, HoldsSample, Read, Copies

\* The handler of a thread appends to the buffer of the thread.
LEMMA StoreInto ==
  ASSUME LInv, NEW t \in Threads, Store(t)
  PROVE  \E e \in Event :
           /\ e.time = now /\ SampleOf(e) \in ToSet(sampled[t])
           /\ waiting[t][e.metric] # <<>> /\ Head(waiting[t][e.metric]) = SampleOf(e)
           /\ waiting' = [waiting EXCEPT ![t][e.metric] = Tail(waiting[t][e.metric])]
           /\ slots' = [slots EXCEPT ![t][access_count[t] % BufferSize] = e]
           /\ access_count' = [access_count EXCEPT ![t] = access_count[t] + 1]
<1> USE DEF LInv
<1>1. PICK e \in Event :
        /\ e.time = now
        /\ waiting[t][e.metric] # <<>> /\ Head(waiting[t][e.metric]) = SampleOf(e)
        /\ waiting' = [waiting EXCEPT ![t][e.metric] = Tail(waiting[t][e.metric])]
        /\ SampleOf(e) \in ToSet(sampled[t])
        /\ LET b == event_data_[t]
           IN  IF b # NoBuffer
               THEN /\ slots' = [slots EXCEPT ![b][access_count[b] % BufferSize] = e]
                    /\ access_count' = [access_count EXCEPT ![b] = @ + 1]
               ELSE UNCHANGED <<slots, access_count>>
  BY StoreAt
<1>2. e.metric \in Metrics
  BY DEF Event
<1>3. event_data_[t] = t /\ t # NoBuffer
  BY <1>1, <1>2, NoBufferAssumption DEF Store, Sinks
<1> QED
  BY <1>1, <1>3

\* What is behind the head of a sequence is in its tail.
LEMMA TailSet ==
  ASSUME NEW S, NEW q \in Seq(S), q # <<>>, NEW x \in ToSet(q)
  PROVE  x = Head(q) \/ x \in ToSet(Tail(q))
<1>1. Len(q) \in Nat /\ Len(q) > 0 /\ DOMAIN q = 1..Len(q) /\ DOMAIN Tail(q) = 1..Len(q)-1
  OBVIOUS
<1>2. Head(q) = q[1] /\ \A i \in 1..Len(q)-1 : Tail(q)[i] = q[i + 1]
  OBVIOUS
<1>3. PICK i \in 1..Len(q) : x = q[i]
  BY <1>1 DEF ToSet
<1>4. i = 1 \/ i - 1 \in 1..Len(q)-1
  BY <1>1
<1>5. CASE i - 1 \in 1..Len(q)-1
  <2>1. x = Tail(q)[i - 1]
    BY <1>2, <1>3, <1>5
  <2> QED
    BY <1>1, <1>5, <2>1 DEF ToSet
<1> QED
  BY <1>2, <1>3, <1>4, <1>5

\* What a buffer holds that has not been overwritten stays there, and what leaves a
\* ring comes to it.
LEMMA StoreKeeps ==
  ASSUME LInv, NEW t \in Threads, Store(t), NEW b \in Threads, Small(b)'
  PROVE  /\ Small(b)
         /\ \A k \in Slots : k < access_count[b] => k < access_count'[b] /\ slots'[b][k] = slots[b][k]
         /\ \A s \in ToSet(sampled[b]) : Waits(b, s) => Waits(b, s)' \/ HoldsSample(b, s)'
<1> USE DEF LInv, TInv
<1> DEFINE n == access_count[t]
<1>1. PICK e \in Event :
        /\ waiting[t][e.metric] # <<>> /\ Head(waiting[t][e.metric]) = SampleOf(e)
        /\ waiting' = [waiting EXCEPT ![t][e.metric] = Tail(waiting[t][e.metric])]
        /\ slots' = [slots EXCEPT ![t][n % BufferSize] = e]
        /\ access_count' = [access_count EXCEPT ![t] = n + 1]
  BY StoreInto
<1>2. e.metric \in Metrics
  BY DEF Event
<1>4. /\ access_count \in [Threads -> Nat]
      /\ waiting \in [Threads -> [Metrics -> Seq(Sample)]]
      /\ slots \in [Threads -> [Slots -> Event \cup {NoEvent}]]
      /\ \A s \in ToSet(sampled[b]) : Waits(b, s) => s \in ToSet(waiting[b][s.metric])
  BY DEF TypeOK, Waits
<1>5. CASE b # t
  <2>1. waiting'[b] = waiting[b] /\ access_count'[b] = access_count[b] /\ slots'[b] = slots[b]
    BY <1>1, <1>4, <1>5
  <2> QED
    BY <2>1 DEF Small, Waits
<1>6. CASE b = t
  <2>1. n \in Nat /\ n + 1 <= BufferSize /\ BufferSize \in Nat
    BY <1>1, <1>4, <1>6, BufferSizeAssumption DEF Small
  <2>2. n \in Slots /\ n % BufferSize = n
    BY <2>1, CountSlot DEF Slots
  <2>3. slots'[b] = [slots[b] EXCEPT ![n] = e] /\ access_count'[b] = n + 1
    BY <1>1, <1>4, <1>6, <2>2
  <2>4. HoldsSample(b, SampleOf(e))'
    <3>1. n < access_count'[b] /\ slots'[b][n] = e
      BY <1>4, <1>6, <2>1, <2>2, <2>3
    <3> QED
      BY <2>2, <3>1 DEF HoldsSample, SampleOf
  <2>5. \A k \in Slots : k < n => k < n + 1 /\ slots'[b][k] = slots[b][k]
    BY <1>4, <1>6, <2>1, <2>3 DEF Slots
  <2>6. ASSUME NEW s \in ToSet(sampled[b]), Waits(b, s)
        PROVE  Waits(b, s)' \/ s = SampleOf(e)
    <3>1. CASE s.metric = e.metric
      <4>1. waiting'[b][s.metric] = Tail(waiting[t][e.metric])
        BY <1>1, <1>2, <1>4, <1>6, <3>1
      <4>2. waiting[t][e.metric] \in Seq(Sample) /\ s \in ToSet(waiting[t][e.metric])
        BY <1>2, <1>4, <1>6, <2>6, <3>1
      <4> QED
        BY <1>1, <4>1, <4>2, TailSet DEF Waits
    <3>2. CASE s.metric # e.metric
      <4>1. waiting'[b][s.metric] = waiting[b][s.metric]
        BY <1>1, <1>2, <1>4, <1>6, <3>2
      <4> QED
        BY <2>6, <4>1 DEF Waits
    <3> QED
      BY <3>1, <3>2
  <2> QED
    BY <1>6, <2>1, <2>3, <2>4, <2>5, <2>6 DEF Small
<1> QED
  BY <1>5, <1>6

\* A new sample is in the ring.
LEMMA TakeStep ==
  ASSUME LInv, NEW t \in Threads, Take(t)
  PROVE  Owners' /\ Sinks' /\ Kept' /\ Read' /\ Copies'
<1> USE DEF LInv, TInv
<1>1. /\ UNCHANGED <<pc, id, usedIds, thread_event_buffers_, all_events_, event_data_, sampling, results,
                     slots, access_count, endVars>>
      /\ sampling[t] # {}
  BY DEF Take, threadVars, pluginVars, perfVars
<1>2. PICK s \in Sample :
        /\ sampled' = [sampled EXCEPT ![t] = Append(sampled[t], s)]
        /\ waiting' = [waiting EXCEPT ![t][s.metric] = Append(waiting[t][s.metric], s)]
  BY TakeAt
<1>3. /\ s.metric \in Metrics
      /\ sampled \in [Threads -> Seq(Sample)] /\ waiting \in [Threads -> [Metrics -> Seq(Sample)]]
  <2>1. s.metric \in Metrics
    BY DEF Sample
  <2> QED
    BY <2>1 DEF TypeOK
<1>4. Owners'
  BY <1>1 DEF Owners, Alive
<1>5. Sinks'
  <2>1. \A u \in Threads, m \in Metrics : u # t => waiting'[u][m] = waiting[u][m]
    BY <1>2, <1>3
  <2>2. event_data_[t] = t
    BY <1>1 DEF Sinks
  <2>3. \A u \in Threads, m \in Metrics : waiting'[u][m] # <<>> /\ pc[u] # "exited" => event_data_[u] = u
    BY <2>1, <2>2 DEF Sinks
  <2> QED
    BY <1>1, <2>3 DEF Sinks, Alive
<1>6. Read' /\ Copies'
  BY <1>1, HeldOn
<1>7. Kept'
  <2> SUFFICES ASSUME NEW u \in Threads, Small(u)', NEW x \in ToSet(sampled'[u])
               PROVE  Waits(u, x)' \/ HoldsSample(u, x)'
    BY DEF Kept
  <2>1. ToSet(sampled'[t]) = ToSet(sampled[t]) \cup {s}
    <3>1. sampled'[t] = Append(sampled[t], s) /\ sampled[t] \in Seq(Sample)
      BY <1>2, <1>3
    <3> QED
      BY <3>1, AppendSet
  <2>2. ToSet(waiting'[t][s.metric]) = ToSet(waiting[t][s.metric]) \cup {s}
    <3>1. waiting'[t][s.metric] = Append(waiting[t][s.metric], s) /\ waiting[t][s.metric] \in Seq(Sample)
      BY <1>2, <1>3
    <3> QED
      BY <3>1, AppendSet
  <2>3. \A m : m # s.metric \/ u # t => waiting'[u][m] = waiting[u][m]
    BY <1>2, <1>3
  <2>4. Waits(u, x) => Waits(u, x)'
    BY <2>2, <2>3 DEF Waits
  <2>5. HoldsSample(u, x) => HoldsSample(u, x)'
    BY <1>1 DEF HoldsSample
  <2>6. CASE u = t /\ x = s
    BY <2>2, <2>6 DEF Waits
  <2>7. CASE ~(u = t /\ x = s)
    <3>1. x \in ToSet(sampled[u])
      BY <1>2, <1>3, <2>1, <2>7
    <3> QED
      BY <1>1, <2>4, <2>5, <3>1 DEF Kept, Small
  <2> QED
    BY <2>6, <2>7
<1> QED
  BY <1>4, <1>5, <1>6, <1>7

\* The buffer of an entry is one of the buffers.
LEMMA EntryBuffer ==
  ASSUME LInv, NEW n \in 1..Len(all_events_)
  PROVE  all_events_[n].tid \in Ids /\ Buffer(n) \in Threads
<1>1. all_events_[n] \in Entry
  BY DEF LInv, TInv, IdInv
<1>2. all_events_[n].tid \in Ids
  BY <1>1 DEF Entry
<1> QED
  BY <1>2 DEF Buffer, LInv, TInv, TypeOK, Buffers

\* An event overwrites nothing that was read or copied, unless it fills its buffer.
LEMMA StoreStep ==
  ASSUME LInv, NEW t \in Threads, Store(t)
  PROVE  Owners' /\ Sinks' /\ Kept' /\ Read' /\ Copies'
<1> USE DEF LInv, TInv
<1>1. UNCHANGED <<pc, id, usedIds, thread_event_buffers_, all_events_, event_data_, sampling, results,
                  sampled, endVars>>
  BY DEF Store, threadVars, pluginVars, perfVars
<1>2. Owners' /\ Sinks'
  <2>1. PICK m \in Metrics : waiting[t][m] # <<>> /\ waiting' = [waiting EXCEPT ![t][m] = Tail(waiting[t][m])]
    BY DEF Store
  <2>2. \A u \in Threads, k \in Metrics : waiting'[u][k] # <<>> => waiting[u][k] # <<>>
    BY <2>1 DEF TypeOK
  <2> QED
    BY <1>1, <2>2 DEF Owners, Sinks, Alive
<1>3. \A b \in Threads : Small(b)' => Small(b)
  BY StoreKeeps
<1>4. \A b \in Threads, k \in Slots : Small(b)' /\ k < access_count[b] =>
        k < access_count'[b] /\ slots'[b][k] = slots[b][k]
  BY StoreKeeps
<1>5. \A b \in Threads : Small(b)' =>
        \A s \in ToSet(sampled[b]) : Waits(b, s) => Waits(b, s)' \/ HoldsSample(b, s)'
  BY StoreKeeps
<1>6. \A b \in Threads : Small(b)' => \A e : Holds(b, e) => Holds(b, e)'
  BY <1>4 DEF Holds
<1>7. Kept'
  <2> SUFFICES ASSUME NEW u \in Threads, Small(u)', NEW s \in ToSet(sampled[u])
               PROVE  Waits(u, s)' \/ HoldsSample(u, s)'
    BY <1>1 DEF Kept
  <2>1. CASE Waits(u, s)
    BY <1>5, <2>1
  <2>2. CASE HoldsSample(u, s)
    <3>1. PICK k \in Slots : k < access_count[u] /\ SampleOf(slots[u][k]) = s
      BY <2>2 DEF HoldsSample
    <3>2. k < access_count'[u] /\ slots'[u][k] = slots[u][k]
      BY <1>4, <3>1
    <3> QED
      BY <3>1, <3>2 DEF HoldsSample, SampleOf
  <2> QED
    BY <1>3, <2>1, <2>2 DEF Kept
<1>8. Len(series) <= Len(all_events_) /\ Len(series) \in Nat /\ Len(all_events_) \in Nat
  BY DEF TypeOK
<1>9. Read'
  <2>1. \A n \in 1..Len(series) : Buffer(n) \in Threads /\ Buffer(n)' = Buffer(n)
    BY <1>1, <1>8, EntryBuffer DEF Buffer
  <2>2. phase' = "stopped" /\ it' # NoLoop => it'.buffer = Buffer(Len(series))'
    BY <1>1 DEF Read, Buffer, endVars
  <2>3. ASSUME NEW n \in 1..Len(series), Small(Buffer(n))', NEW e \in ToSet(series[n])
        PROVE  Holds(Buffer(n), e)'
    <3> DEFINE b == Buffer(n)
    <3>1. PICK c \in Threads : c = b /\ c = b'
      BY <2>1
    <3>2. Small(c)'
      BY <2>3, <3>1 DEF Small
    <3>3. Small(b)
      BY <1>3, <3>1, <3>2
    <3>4. Holds(c, e)
      BY <3>1, <3>3 DEF Read
    <3>5. Holds(c, e)'
      BY <1>6, <3>2, <3>4
    <3> QED
      BY <3>1, <3>5 DEF Holds
  <2> QED
    BY <1>1, <2>2, <2>3 DEF Read, endVars
<1>10. Copies'
  <2>1. ASSUME NEW i \in Ids, copies[i] # NoTrace, Small(thread_event_buffers_[i])'
        PROVE  Copied(i)'
    <3>1. thread_event_buffers_[i] \in Threads
      BY <2>1 DEF Copies, TypeOK
    <3>2. PICK b \in Threads : b = thread_event_buffers_[i] /\ b = thread_event_buffers_'[i]
      BY <1>1, <3>1
    <3>3. Small(b)'
      BY <2>1, <3>2 DEF Small
    <3>4. Copied(i)
      BY <1>3, <2>1, <3>2, <3>3 DEF Copies
    <3>5. CASE Copying(i)
      <4>1. it.buffer = b /\ it # NoLoop
        <5>1. it.buffer = b
          BY <3>2, <3>5 DEF Copying
        <5>2. NoLoop.buffer = NoBuffer
          BY DEF NoLoop, At
        <5> QED
          BY <3>2, <5>1, <5>2, NoBufferAssumption
      <4>2. it.slot \in Nat /\ it.slot < access_count[b] /\ access_count[b] \in Nat
        BY <4>1, BufferSizeAssumption DEF Inside, TypeOK, Slots
      <4>3. \A k \in Slots : k < it.slot => k < access_count[b]
        BY <4>2, BufferSizeAssumption DEF Slots
      <4>4. \A k \in Slots : k < it.slot => slots'[b][k] \in ToSet(copies[i])
        BY <1>4, <3>3, <3>4, <3>5, <4>1, <4>3 DEF Copied
      <4> QED
        BY <1>1, <3>5, <4>1, <4>4 DEF Copied, Copying, endVars
    <3>6. CASE ~Copying(i)
      BY <1>1, <3>4, <3>6 DEF Copied, Copying, endVars
    <3> QED
      BY <3>5, <3>6
  <2> QED
    BY <1>1, <2>1 DEF Copies, Copying, endVars
<1> QED
  BY <1>2, <1>7, <1>9, <1>10

\* Reading leaves the buffers and who owns them alone.
LEMMA ReadingKeeps ==
  ASSUME LInv, UNCHANGED others
  PROVE  Owners' /\ Sinks' /\ Kept'
<1> USE DEF LInv, others, threadVars, pluginVars, bufferVars, ringVars
<1>1. Owners'
  BY DEF Owners, Alive
<1>2. Sinks'
  BY DEF Sinks, Alive
<1>3. Kept'
  BY DEF Kept, Small, Waits, HoldsSample
<1> QED
  BY <1>1, <1>2, <1>3

\* In a buffer that was not overwritten the iteration starts at its first slot ...
LEMMA BeginSmall ==
  ASSUME LInv, NEW b \in Threads, Small(b)
  PROVE  IF access_count[b] = 0 THEN Begin(b) = NoLoop ELSE Begin(b) = At(b, 0, FALSE)
  BY DEF Begin, Small

\* ... and ends behind its last.
LEMMA AdvancedSmall ==
  ASSUME LInv, it # NoLoop, Small(it.buffer)
  PROVE  LET b == it.buffer
         IN  /\ b \in Threads /\ it.slot \in Slots /\ it.slot < access_count[b]
             /\ IF it.slot + 1 = access_count[b] THEN Advanced = NoLoop
                ELSE Advanced = At(b, it.slot + 1, FALSE) /\ it.slot + 1 \in Slots
<1> DEFINE b == it.buffer
           n == access_count[b]
           k == (it.slot + 1) % BufferSize
<1>1. b \in Threads /\ it.slot \in Slots /\ it.slot < n
  BY DEF LInv, TInv, TypeOK, Inside
<1>2. /\ n \in Nat /\ n <= BufferSize /\ BufferSize \in Nat /\ BufferSize > 0
      /\ it.slot \in 0..BufferSize-1
  BY <1>1, BufferSizeAssumption DEF LInv, TInv, TypeOK, Slots, Small
<1>3. k = IF it.slot + 1 = BufferSize THEN 0 ELSE it.slot + 1
  BY <1>1, NextSlot
<1>4. /\ n < BufferSize => n % BufferSize = n
      /\ n = BufferSize => n % BufferSize = 0
  BY <1>2, CountSlot
<1>5. Advanced = IF k = n % BufferSize THEN NoLoop ELSE At(b, k, FALSE)
  BY DEF Advanced
<1> HIDE DEF k, n, b
<1>6. CASE it.slot + 1 = n
  <2>1. k = n % BufferSize
    BY <1>2, <1>3, <1>4, <1>6
  <2> QED
    BY <1>1, <1>5, <1>6, <2>1 DEF n, b
<1>7. CASE it.slot + 1 # n
  <2>1. k # n % BufferSize /\ k = it.slot + 1 /\ k \in Slots
    BY <1>1, <1>2, <1>3, <1>4, <1>7 DEF Slots
  <2> QED
    BY <1>1, <1>5, <1>7, <2>1 DEF n, b
<1> QED
  BY <1>6, <1>7

\* What is in the series stays in the buffers.
LEMMA ReadOn ==
  ASSUME UNCHANGED <<all_events_, thread_event_buffers_, access_count, slots>>,
         \A n \in 1..Len(series)' : Small(Buffer(n)) => \A e \in ToSet(series'[n]) : Holds(Buffer(n), e)
  PROVE  \A n \in 1..Len(series)' : Small(Buffer(n))' => \A e \in ToSet(series'[n]) : Holds(Buffer(n), e)'
<1>1. \A n : Small(Buffer(n))' <=> Small(Buffer(n))
  BY DEF Small, Buffer
<1>2. \A n, e : Holds(Buffer(n), e)' <=> Holds(Buffer(n), e)
  BY DEF Holds, Buffer
<1> QED
  BY <1>1, <1>2

\* A series holds what its buffer holds.
LEMMA FinalisingStep ==
  ASSUME LInv, Finalising
  PROVE  Owners' /\ Sinks' /\ Kept' /\ Read' /\ Copies'
<1> USE DEF LInv, TInv
<1>1. /\ UNCHANGED others /\ UNCHANGED <<copies, traces>>
      /\ phase \in {"running", "stopped"} /\ phase' \in {"stopped", "spawning"}
  BY DEF Finalising, Stop, GetAllValues, TestType, WriteValue, Destroy
<1>2. Copies'
  BY <1>1, CopyIsNotNone DEF Copies
<1>3. CASE Stop \/ Destroy
  <2>1. UNCHANGED <<series, it, all_events_, thread_event_buffers_, access_count, slots>> /\ it = NoLoop
    BY <1>3 DEF Stop, Destroy, Phases, others, pluginVars, bufferVars
  <2>2. Read'
    BY <2>1 DEF Read, Buffer, Small, Holds
  <2> QED
    BY <1>1, <1>2, <2>2, ReadingKeeps
<1>4. /\ UNCHANGED <<all_events_, thread_event_buffers_, access_count, slots>>
      /\ series \in Seq(Seq(Event)) /\ Len(series) \in Nat /\ Len(series) <= Len(all_events_)
  BY <1>1 DEF others, pluginVars, bufferVars, TypeOK
<1>5. CASE GetAllValues
  <2>1. /\ series' = Append(series, <<>>) /\ Len(series) < Len(all_events_)
        /\ it' = NoLoop \/ it' = Begin(Buffer(Len(series) + 1))
    BY <1>5 DEF GetAllValues, Buffer
  <2>2. Len(series') = Len(series) + 1 /\ Len(series) + 1 \in 1..Len(all_events_)
    BY <1>4, <2>1
  <2>3. it' = NoLoop \/ it'.buffer = Buffer(Len(series) + 1)
    <3>1. Buffer(Len(series) + 1) \in Threads
      BY <2>2, EntryBuffer
    <3> QED
      BY <2>1, <3>1, BeginInside DEF At
  <2>4. \A n \in 1..Len(series') : (n \in 1..Len(series) /\ series'[n] = series[n]) \/ series'[n] = <<>>
    BY <1>4, <2>1, <2>2
  <2>5. Read'
    <3>1. it' # NoLoop => it'.buffer = Buffer(Len(series))'
      BY <1>4, <2>2, <2>3 DEF Buffer
    <3>2. ASSUME NEW n \in 1..Len(series'), Small(Buffer(n)), NEW e \in ToSet(series'[n])
          PROVE  Holds(Buffer(n), e)
      <4>1. n \in 1..Len(series) /\ series'[n] = series[n]
        BY <2>4, <3>2 DEF ToSet
      <4> QED
        BY <3>2, <4>1 DEF Read
    <3> QED
      BY <1>4, <3>1, <3>2, ReadOn DEF Read
  <2> QED
    BY <1>1, <1>2, <2>5, ReadingKeeps
<1>6. CASE TestType \/ WriteValue
  <2>1. it # NoLoop /\ phase = "stopped"
    BY <1>6 DEF TestType, WriteValue, NoLoop, At
  <2>2. it.buffer \in Threads /\ it.buffer = Buffer(Len(series)) /\ series # <<>>
    BY <2>1 DEF Read, Inside
  <2>3. it' = At(it.buffer, it.slot, TRUE) \/ it' = Advanced
    <3>1. CASE TestType
      <4> DEFINE P == AccessType(Here.metric) = AccessType(all_events_[Len(series)].metric)
      <4>1. it' = IF P THEN At(it.buffer, it.slot, TRUE) ELSE Advanced
        BY <3>1 DEF TestType
      <4> HIDE DEF P
      <4> QED
        BY <4>1
    <3> QED
      BY <1>6, <3>1 DEF WriteValue
  <2>4. it' = NoLoop \/ it'.buffer = it.buffer
    BY <2>1, <2>3, AdvancedInside DEF At
  <2>5. Len(series) \in 1..Len(series)
    BY <1>4, <2>2
  <2>6. CASE TestType
    <3>1. series' = series
      BY <2>6 DEF TestType
    <3> QED
      BY <1>1, <1>2, <1>4, <2>2, <2>4, <3>1, ReadingKeeps DEF Read, Buffer, Small, Holds
  <2>7. CASE WriteValue
    <3> DEFINE l == Len(series)
    <3>1. PICK e \in Event : e = Here
      BY <2>1, HereIsEvent
    <3>2. series' = [series EXCEPT ![l] = Append(series[l], e)]
      BY <2>7, <3>1 DEF WriteValue
    <3>3. series[l] \in Seq(Event) /\ Append(series[l], e) \in Seq(Event)
      BY <1>4, <2>5
    <3>4. /\ Len(series') = Len(series) /\ series'[l] = Append(series[l], e)
          /\ \A n \in 1..Len(series) : n # l => series'[n] = series[n]
      BY <1>4, <2>5, <3>2, <3>3
    <3>5. ToSet(series'[l]) \subseteq ToSet(series[l]) \cup {e}
      BY <3>3, <3>4 DEF ToSet
    <3>6. Holds(it.buffer, e)
      BY <2>1, <2>2, <3>1 DEF Holds, Here, Inside, TypeOK
    <3> HIDE DEF l
    <3>7. \A n \in 1..Len(series') : Small(Buffer(n)) => \A x \in ToSet(series'[n]) : Holds(Buffer(n), x)
      <4>1. ASSUME NEW n \in 1..Len(series), Small(Buffer(n)), NEW x \in ToSet(series'[n])
            PROVE  Holds(Buffer(n), x)
        <5>1. CASE n # l
          BY <3>4, <4>1, <5>1 DEF Read
        <5>2. CASE n = l
          BY <2>2, <3>5, <3>6, <4>1, <5>2 DEF Read, l
        <5> QED
          BY <5>1, <5>2
      <4> QED
        BY <3>4, <4>1
    <3>8. \A n \in 1..Len(series') : Buffer(n)' = Buffer(n) /\ Small(Buffer(n))' = Small(Buffer(n))
      BY <1>4 DEF Buffer, Small
    <3>9. Read'
      BY <1>4, <2>2, <2>4, <3>4, <3>7 DEF Read, Buffer, Small, Holds
    <3> QED
      BY <1>1, <1>2, <3>9, ReadingKeeps
  <2> QED
    BY <1>6, <2>6, <2>7
<1> QED
  BY <1>3, <1>5, <1>6 DEF Finalising

\* A copy that is finished has what its buffer holds, if that was not overwritten.
LEMMA WritingStep ==
  ASSUME LInv, Writing
  PROVE  Owners' /\ Sinks' /\ Kept' /\ Read' /\ Copies'
<1> USE DEF LInv, TInv
<1>1. /\ UNCHANGED others /\ UNCHANGED <<blocked, series>>
      /\ phase' \in {"spawning", "gone", "terminated"}
  BY DEF Writing, Terminate, Join, BeginCopy, CopyEvent, WriteEventBuffer
<1>2. /\ UNCHANGED <<all_events_, thread_event_buffers_, access_count, slots, series>>
      /\ Len(series) \in Nat /\ Len(series) <= Len(all_events_) /\ Len(all_events_) \in Nat
      /\ thread_event_buffers_ \in [Ids -> Threads \cup {NoBuffer}]
      /\ copies \in [Ids -> {NoTrace} \cup Seq(Event)]
      /\ traces \in [Ids -> {NoTrace} \cup Seq(Event)]
  BY <1>1 DEF others, pluginVars, bufferVars, TypeOK
<1>3. Read'
  BY <1>1, <1>2, ReadOn DEF Read
<1>4. ASSUME NEW i \in Ids,
             \A n \in 1..Len(series) : all_events_[n].tid = i /\ Small(Buffer(n)) =>
               \A e \in ToSet(series[n]) : Holds(Buffer(n), e)
      PROVE  \A n \in 1..Len(series) : all_events_[n].tid = i /\ Small(thread_event_buffers_[i]) =>
               \A e \in ToSet(series[n]) : Holds(thread_event_buffers_[i], e)
  BY <1>4 DEF Buffer
<1>5. \A i \in Ids, n \in 1..Len(series) :
        all_events_[n].tid = i /\ Small(thread_event_buffers_[i]) =>
          \A e \in ToSet(series[n]) : Holds(thread_event_buffers_[i], e)
  BY <1>4 DEF Read
<1>6. CASE Terminate \/ Join
  <2>1. UNCHANGED <<it, copies, traces>>
    BY <1>6 DEF Terminate, Join
  <2>2. Copies'
    BY <1>1, <1>2, <2>1 DEF Copies, Copied, Copying, Small
  <2> QED
    BY <1>1, <1>3, <2>2, ReadingKeeps
<1>7. ASSUME NEW i \in Ids, WriteEventBuffer(i)
      PROVE  Copies'
  <2>1. /\ UNCHANGED <<it, copies>> /\ traces' = [traces EXCEPT ![i] = copies[i]]
        /\ copies[i] # NoTrace /\ ~Copying(i)
    BY <1>7 DEF WriteEventBuffer, Ready
  <2> QED
    BY <1>1, <1>2, <2>1 DEF Copies, Copied, Copying, Small
<1>8. ASSUME NEW i \in Ids, BeginCopy(i)
      PROVE  Copies'
  <2> DEFINE b == thread_event_buffers_[i]
  <2>1. /\ b \in Threads /\ b # NoBuffer /\ it = NoLoop /\ it' = Begin(b)
        /\ copies[i] = NoTrace /\ copies' = [copies EXCEPT ![i] = <<>>] /\ UNCHANGED traces
    BY <1>2, <1>8 DEF BeginCopy
  <2>2. /\ \A j \in Ids : thread_event_buffers_[j] = b => j = i
        /\ \A j \in Ids : thread_event_buffers_[j] # NoBuffer => ~Copying(j)
    BY <1>2, <2>1, NoBufferAssumption DEF Buffers, Copying, NoLoop, At
  <2>3. \A j \in Ids \ {i} : copies[j] # NoTrace => thread_event_buffers_[j] # NoBuffer /\ ~Copying(j)'
    <3>1. it'.buffer \in {b, NoBuffer}
      BY <2>1, BeginInside DEF NoLoop, At
    <3> QED
      BY <1>2, <2>2, <3>1 DEF Copies, Copying
  <2>4. \A j \in Ids \ {i} : copies'[j] = copies[j]
    BY <1>2, <2>1
  <2>5. ASSUME NEW j \in Ids \ {i}, copies'[j] # NoTrace, Small(thread_event_buffers_[j])
        PROVE  Copied(j)'
    BY <1>2, <2>2, <2>3, <2>4, <2>5 DEF Copies, Copied
  <2>6. Small(b) => Copied(i)'
    <3> SUFFICES ASSUME Small(b) PROVE Copied(i)'
      OBVIOUS
    <3>1. CASE access_count[b] = 0
      <4>1. \A n \in 1..Len(series) : all_events_[n].tid = i => ToSet(series[n]) = {}
        <5>1. \A e : ~Holds(b, e)
          BY <3>1, BufferSizeAssumption DEF Holds, Slots
        <5> QED
          BY <1>5, <5>1
      <4>2. ~Copying(i)'
        <5>1. it' = NoLoop
          BY <2>1, <3>1, BeginSmall
        <5>2. NoLoop.buffer = NoBuffer
          BY DEF NoLoop, At
        <5> QED
          BY <1>2, <2>1, <5>1, <5>2 DEF Copying
      <4> QED
        BY <1>2, <4>1, <4>2 DEF Copied
    <3>2. CASE access_count[b] # 0
      <4>1. it'.slot = 0 /\ it'.buffer = b
        BY <2>1, <3>2, BeginSmall DEF At
      <4> QED
        BY <1>2, <4>1, BufferSizeAssumption DEF Copied, Copying, Slots
    <3> QED
      BY <3>1, <3>2
  <2>7. \A j \in Ids : traces'[j] # NoTrace => j # i /\ copies[j] # NoTrace /\ traces[j] = copies[j]
    BY <2>1 DEF Copies
  <2> QED
    BY <1>1, <1>2, <2>1, <2>3, <2>4, <2>5, <2>6, <2>7 DEF Copies, Small
<1>9. ASSUME NEW i \in Ids, CopyEvent(i)
      PROVE  Copies'
  <2> DEFINE b == it.buffer
  <2>1. /\ it # NoLoop /\ Copying(i) /\ b = thread_event_buffers_[i] /\ it' = Advanced
        /\ UNCHANGED traces /\ phase = "spawning"
    BY <1>9 DEF CopyEvent, Copying
  <2>2. PICK e \in Event : e = Here
    BY <2>1, HereIsEvent
  <2>3. /\ b \in Threads /\ it.slot \in Slots /\ copies[i] \in Seq(Event)
        /\ copies' = [copies EXCEPT ![i] = Append(copies[i], e)]
    BY <1>2, <1>9, <2>1, <2>2 DEF CopyEvent, Inside, TypeOK
  <2>4. ToSet(copies'[i]) = ToSet(copies[i]) \cup {e} /\ e = slots[b][it.slot]
    <3>1. copies'[i] = Append(copies[i], e)
      BY <1>2, <2>3
    <3> QED
      BY <2>2, <2>3, <3>1, AppendSet DEF Here
  <2>5. \A j \in Ids : thread_event_buffers_[j] = b => j = i
    BY <2>1, <2>3, NoBufferAssumption DEF Buffers
  <2>6. it' = NoLoop \/ it'.buffer = b
    BY <2>1, AdvancedInside DEF At
  <2>7. \A j \in Ids \ {i} : copies'[j] = copies[j] /\ ~Copying(j)
    BY <1>2, <2>3, <2>5 DEF Copying
  <2>8. \A j \in Ids \ {i} : copies[j] # NoTrace => ~Copying(j)'
    <3>1. it'.buffer \in {b, NoBuffer}
      BY <2>6 DEF NoLoop, At
    <3> QED
      BY <1>2, <2>5, <3>1 DEF Copies, Copying
  <2>9. Small(b) => Copied(i)'
    <3> SUFFICES ASSUME Small(b) PROVE Copied(i)'
      OBVIOUS
    <3>1. \A k \in Slots : k < it.slot => slots[b][k] \in ToSet(copies[i])
      <4>1. copies[i] # NoTrace
        BY <2>1 DEF Inside
      <4>2. Copied(i)
        BY <2>1, <4>1 DEF Copies
      <4> QED
        BY <2>1, <4>2 DEF Copied
    <3>2. /\ it.slot \in Nat /\ it.slot < access_count[b] /\ access_count[b] \in Nat
          /\ IF it.slot + 1 = access_count[b] THEN Advanced = NoLoop
             ELSE Advanced = At(b, it.slot + 1, FALSE)
      <4>1. /\ it.slot < access_count[b]
            /\ IF it.slot + 1 = access_count[b] THEN Advanced = NoLoop
               ELSE Advanced = At(b, it.slot + 1, FALSE)
        BY <2>1, AdvancedSmall
      <4>2. it.slot \in Nat /\ access_count[b] \in Nat
        BY <2>3, BufferSizeAssumption DEF Slots, TypeOK
      <4> QED
        BY <4>1, <4>2
    <3>3. \A k \in Slots : k < it.slot + 1 => slots[b][k] \in ToSet(copies'[i])
      <4>1. \A k \in Slots : k < it.slot + 1 => k < it.slot \/ k = it.slot
        BY <3>2, BufferSizeAssumption DEF Slots
      <4> QED
        BY <2>4, <3>1, <4>1
    <3>4. CASE it.slot + 1 = access_count[b]
      <4>1. \A n \in 1..Len(series) : all_events_[n].tid = i => ToSet(series[n]) \subseteq ToSet(copies'[i])
        BY <1>5, <2>1, <3>3, <3>4 DEF Holds
      <4>2. ~Copying(i)'
        <5>1. NoLoop.buffer = NoBuffer
          BY DEF NoLoop, At
        <5> QED
          BY <1>2, <2>1, <2>3, <3>2, <3>4, <5>1, NoBufferAssumption DEF Copying
      <4> QED
        BY <1>2, <4>1, <4>2 DEF Copied
    <3>5. CASE it.slot + 1 # access_count[b]
      <4>1. it'.buffer = b /\ it'.slot = it.slot + 1
        BY <2>1, <3>2, <3>5 DEF At
      <4>2. Copying(i)'
        BY <1>2, <2>1, <4>1 DEF Copying
      <4> QED
        BY <1>2, <3>3, <4>1, <4>2 DEF Copied
    <3> QED
      BY <3>4, <3>5
  <2>10. ASSUME NEW j \in Ids \ {i}, copies'[j] # NoTrace, Small(thread_event_buffers_[j])
         PROVE  Copied(j)'
    BY <1>2, <2>7, <2>8, <2>10 DEF Copies, Copied
  <2>11. \A j \in Ids : traces[j] # NoTrace => j # i
    BY <2>1 DEF Copies
  <2> QED
    <3>1. ASSUME NEW j \in Ids, copies'[j] # NoTrace
          PROVE  thread_event_buffers_[j] # NoBuffer /\ (Small(thread_event_buffers_[j]) => Copied(j)')
      <4>1. CASE j = i
        BY <2>1, <2>3, <2>9, <4>1, NoBufferAssumption
      <4>2. CASE j # i
        BY <2>7, <2>10, <3>1, <4>2 DEF Copies
      <4> QED
        BY <4>1, <4>2
    <3>2. ASSUME NEW j \in Ids, traces[j] # NoTrace
          PROVE  copies'[j] # NoTrace /\ ~Copying(j)' /\ traces[j] = copies'[j]
      BY <2>7, <2>8, <2>11, <3>2 DEF Copies
    <3> QED
      BY <1>1, <1>2, <2>1, <3>1, <3>2 DEF Copies, Small
<1> QED
  BY <1>1, <1>3, <1>6, <1>7, <1>8, <1>9, ReadingKeeps DEF Writing

\* Every step keeps it, if no id is used twice.
LEMMA LStep == ASSUME Reuse = FALSE, LInv, [Next]_vars PROVE LInv'
<1>1. TInv'
  BY TStep DEF LInv
<1>2. CASE Finalising
  BY <1>1, <1>2, FinalisingStep DEF LInv
<1>3. CASE Writing
  BY <1>1, <1>3, WritingStep DEF LInv
<1>4. ASSUME NEW t \in Threads, Thread(t) PROVE LInv'
  BY <1>1, <1>4, ComeAndGoOwners, AddingOwners, AddingKeeps, TakeStep, StoreStep DEF Thread, LInv
<1>5. CASE UNCHANGED vars
  <2>1. UNCHANGED others /\ UNCHANGED <<blocked, endVars>>
    BY <1>5 DEF vars, others, perfVars
  <2> QED
    BY <1>1, <2>1, ReadingKeeps, HeldOn DEF LInv, others, pluginVars, bufferVars
<1> QED
  BY <1>2, <1>3, <1>4, <1>5 DEF Next

LEMMA LAlways == ASSUME Reuse = FALSE PROVE Spec => []LInv
<1>1. Init => LInv
  BY InitLInv
<1>2. LInv /\ [Next]_vars => LInv'
  BY LStep
<1> QED
  BY <1>1, <1>2, PTL DEF Spec

\* Between the rings and the buffer get_all_values reads nothing is lost, unless the
\* buffer overflowed (NoSilentLoss): a sample of a thread whose metric was added is in
\* the one or the other, whoever adds, samples, ends and reads at the same time; for
\* every number of threads, as long as no thread gets the id of one that ended.
THEOREM NothingLost == ASSUME Reuse = FALSE PROVE Spec => []NoSilentLoss
<1>1. LInv => NoSilentLoss
  BY DEF LInv, Sinks, Kept, Small, HoldsSample, NoSilentLoss, Fits, BufferOf
<1> QED
  BY <1>1, LAlways, PTL

\* The trace file of a thread has whatever Score-P was given of it
\* (TraceCoversSeries), unless its buffer overflowed.
THEOREM TracesComplete == ASSUME Reuse = FALSE PROVE Spec => []TraceCoversSeries
<1>1. LInv => TraceCoversSeries
  <2> SUFFICES ASSUME LInv, NEW r \in results, Asked(r), traces[r.tid] # NoTrace, Fits(r)
               PROVE  ToSet(SeriesOf(r)) \subseteq ToSet(traces[r.tid])
    BY DEF TraceCoversSeries
  <2>1. /\ r.tid \in Ids /\ r.id \in Nat /\ all_events_[r.id + 1].tid = r.tid
        /\ r.id + 1 \in 1..Len(series)
    <3>1. r.tid \in Ids /\ r.id \in Nat /\ all_events_[r.id + 1] = [tid |-> r.tid, metric |-> r.metric]
      BY DEF LInv, TInv, IdInv, Results, IdsAgree, Sinks
    <3>2. Len(series) \in Nat /\ r.id < Len(series)
      BY DEF LInv, TInv, TypeOK, Asked
    <3> QED
      BY <3>1, <3>2
  <2>2. copies[r.tid] # NoTrace /\ ~Copying(r.tid) /\ traces[r.tid] = copies[r.tid]
    BY <2>1 DEF LInv, Copies
  <2>3. Copied(r.tid)
    BY <2>1, <2>2 DEF LInv, Copies, Fits, BufferOf, Small
  <2> QED
    BY <2>1, <2>2, <2>3 DEF Copied, SeriesOf
<1> QED
  BY <1>1, LAlways, PTL

=============================================================================
