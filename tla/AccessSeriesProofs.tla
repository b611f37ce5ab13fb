------------------------- MODULE AccessSeriesProofs -------------------------
(***************************************************************************)
(* What ends up in the series and in the trace files, for every number of  *)
(* threads, ids, metrics and every size of the event buffers.              *)
(***************************************************************************)
EXTENDS AccessSamplingProofs

Alive(t) == pc[t] \notin {"unborn", "exited"}

\* Nothing is read before stop(), and nothing added after it.
Phases == /\ phase = "running" => /\ series = <<>> /\ it = NoLoop
                                  /\ \A i \in Ids : copies[i] = NoTrace /\ traces[i] = NoTrace
          /\ phase # "running" => Quiet

\* A buffer is in the map under one id, that of the thread that made it; what was
\* added has a buffer.
Buffers ==
  /\ thread_event_buffers_ \in [Ids -> Threads \cup {NoBuffer}]
  /\ \A t \in Threads : pc[t] \in {"size", "push", "unlock", "open"} => Known(t)
  /\ \A n \in 1..Len(all_events_) : thread_event_buffers_[all_events_[n].tid] # NoBuffer
  /\ \A i \in Ids, t \in Threads : thread_event_buffers_[i] = t =>
       pc[t] # "unborn" /\ (Alive(t) => id[t] = i)
  /\ \A i, j \in Ids : thread_event_buffers_[i] = thread_event_buffers_[j] =>
       i = j \/ thread_event_buffers_[i] = NoBuffer

\* The slots below the count have been written.
Filled == \A t \in Threads : \A k \in Slots : k < access_count[t] => slots[t][k] \in Event

\* An iteration is inside its buffer, for a series or for the copies of its id.
Inside ==
  it = NoLoop \/
    /\ it.buffer \in Threads /\ it.slot < access_count[it.buffer]
    /\ phase = "stopped" => series # <<>>
    /\ phase = "spawning" => \A i \in Ids : Copying(i) => copies[i] # NoTrace

\* A ring holds samples of its metric and its thread.
Rings == \A t \in Threads, m \in Metrics : \A i \in 1..Len(waiting[t][m]) :
           waiting[t][m][i].metric = m /\ waiting[t][m][i] \in ToSet(sampled[t])

TInv == IdInv /\ TypeOK /\ Phases /\ Buffers /\ Filled /\ Inside /\ Rings

-----------------------------------------------------------------------------
(* The types.                                                              *)

\* Slots are taken in turn.
LEMMA NextSlot == \A k \in Slots : (k + 1) % BufferSize = IF k + 1 = BufferSize THEN 0 ELSE k + 1
<1> SUFFICES ASSUME NEW k \in Slots
             PROVE (k + 1) % BufferSize = IF k + 1 = BufferSize THEN 0 ELSE k + 1
  OBVIOUS
<1>1. BufferSize \in Nat /\ BufferSize > 0 /\ k \in 0..BufferSize-1
  BY BufferSizeAssumption DEF Slots
<1>2. CASE k + 1 = BufferSize
  BY <1>1, <1>2
<1>3. CASE k + 1 # BufferSize
  BY <1>1, <1>3
<1> QED
  BY <1>2, <1>3

\* The slot of a count, and the slot before it.
LEMMA CountSlot ==
  ASSUME NEW n \in Nat
  PROVE  /\ n % BufferSize \in Slots
         /\ n < BufferSize => n % BufferSize = n
         /\ n = BufferSize => n % BufferSize = 0
  BY BufferSizeAssumption DEF Slots

\* An iteration is nowhere, or at a slot of a buffer.
Loops == [buffer : Threads \cup {NoBuffer}, slot : Slots, matched : BOOLEAN]

LEMMA LoopTypes ==
  NoLoop \in Loops /\ \A b \in Threads, k \in Slots, m \in BOOLEAN : At(b, k, m) \in Loops
<1>1. 0 \in Slots
  BY BufferSizeAssumption DEF Slots
<1> QED
  BY <1>1 DEF NoLoop, At, Loops

\* The plugin starts with empty buffers, and nothing is read.
LEMMA InitTInv == Init => TInv
<1> SUFFICES ASSUME Init PROVE TInv
  OBVIOUS
<1>1. 0 \in Slots
  BY BufferSizeAssumption DEF Slots
<1>2. TypeOK
  <2>1. 0 \in 0..MaxSamples /\ <<>> \in Seq(Sample)
    BY MaxSamplesAssumption
  <2> QED
    BY <1>1, <2>1, BufferSizeAssumption DEF Init, TypeOK, NoLoop, At, InMutex
<1>3. Phases /\ Inside
  BY DEF Init, Phases, Inside
<1>4. Buffers
  BY NoBufferAssumption DEF Init, Buffers, Known
<1>5. Filled
  BY BufferSizeAssumption DEF Init, Filled, Slots
<1>6. Rings
  <2>1. \A t \in Threads, m \in Metrics : waiting[t][m] = <<>>
    BY DEF Init
  <2> QED
    BY <2>1 DEF Rings
<1> QED
  BY <1>2, <1>3, <1>4, <1>5, <1>6, InitIdInv DEF TInv

\* What threads do but for sampling leaves what was sampled and read alone.
LEMMA Outside ==
  ASSUME TInv, UNCHANGED <<bufferVars, endVars, thread_event_buffers_>>
  PROVE  Filled' /\ Inside' /\ Rings'
  BY DEF TInv, Filled, Inside, Copying, Rings, bufferVars, ringVars, endVars

\* Threads come and go while the measurement runs, or when all is quiet.
LEMMA ComeAndGo ==
  ASSUME TInv, NEW t \in Threads, Start(t) \/ Exit(t) \/ AddMetric(t)
  PROVE  TypeOK' /\ Phases' /\ Buffers'
<1> USE DEF pluginVars, perfVars, bufferVars, ringVars, endVars
<1>1. TypeOK'
  <2> USE DEF TInv, TypeOK, InMutex
  <2>1. CASE Start(t)
    BY <2>1 DEF Start
  <2>2. CASE Exit(t)
    BY <2>2 DEF Exit
  <2>3. CASE AddMetric(t)
    BY <2>3 DEF AddMetric
  <2> QED
    BY <2>1, <2>2, <2>3
<1>2. Phases'
  BY DEF Start, Exit, AddMetric, TInv, Phases, Quiet, TypeOK
<1>3. Buffers'
  <2> USE DEF TInv, TypeOK, Buffers, Known, Alive
  <2>1. CASE Start(t)
    BY <2>1 DEF Start
  <2>2. CASE Exit(t)
    BY <2>2 DEF Exit
  <2>3. CASE AddMetric(t)
    BY <2>3 DEF AddMetric
  <2> QED
    BY <2>1, <2>2, <2>3
<1> QED
  BY <1>1, <1>2, <1>3

\* A thread in add_metric keeps the measurement running.
LEMMA AddingRuns ==
  ASSUME TInv, NEW t \in Threads, Adding(t)
  PROVE  phase = "running" /\ series = <<>> /\ it = NoLoop
  BY DEF Adding, Lock, FindBuffer, MakeBuffer, AllocFails, PushFails, TakeId, PushEvent, Unlock, EnableMetric,
         EventOpenFails, Step, TInv, Phases, Quiet

\* The steps of add_metric keep the types.
LEMMA AddingTypes == ASSUME TInv, NEW t \in Threads, Adding(t) PROVE TypeOK'
<1> USE DEF TInv, IdInv, Arguments, InAdd, TypeOK, InMutex, Step, pluginVars, bufferVars, ringVars,
            endVars, effects, outside
<1>1. CASE Lock(t)
  BY <1>1, NoThreadAssumption DEF Lock
<1>7. CASE FindBuffer(t)
  BY <1>7 DEF FindBuffer
<1>8. CASE AllocFails(t)
  BY <1>8 DEF AllocFails
<1>10. CASE PushFails(t)
  BY <1>10 DEF PushFails
<1>2. CASE MakeBuffer(t)
  <2>1. thread_event_buffers_' \in [Ids -> Threads \cup {NoBuffer}]
    BY <1>2 DEF MakeBuffer
  <2>2. event_data_' \in [Threads -> Threads \cup {NoBuffer}]
    BY <1>2 DEF MakeBuffer
  <2> QED
    BY <1>2, <2>1, <2>2 DEF MakeBuffer
<1>3. CASE TakeId(t)
  BY <1>3 DEF TakeId
<1>4. CASE PushEvent(t)
  <2>1. id[t] \in Ids /\ metric[t] \in Metrics
    BY <1>4 DEF PushEvent
  <2>2. all_events_' \in Seq([tid : Ids, metric : Metrics]) /\ Len(all_events_') = Len(all_events_) + 1
    BY <1>4, <2>1 DEF PushEvent
  <2> QED
    BY <1>4, <2>2 DEF PushEvent
<1>5. CASE Unlock(t)
  BY <1>5 DEF Unlock
<1>6. CASE EnableMetric(t)
  <2>1. metric[t] \in Metrics /\ sampling' \in [Threads -> SUBSET Metrics]
    BY <1>6 DEF EnableMetric
  <2> QED
    BY <1>6, <2>1 DEF EnableMetric
<1>9. CASE EventOpenFails(t)
  BY <1>9 DEF EventOpenFails
<1> QED
  BY <1>1, <1>2, <1>3, <1>4, <1>5, <1>6, <1>7, <1>8, <1>9, <1>10 DEF Adding

\* A thread makes a buffer under its own id where there is none.
LEMMA AddingBuffers ==
  ASSUME TInv, NEW t \in Threads, Adding(t)
  PROVE  Phases' /\ Buffers' /\ Filled' /\ Inside' /\ Rings'
<1>0. Rings'
  <2>1. UNCHANGED <<waiting, sampled>>
    BY DEF Adding, Lock, FindBuffer, MakeBuffer, AllocFails, PushFails, TakeId, PushEvent, Unlock,
           EnableMetric, EventOpenFails, outside, bufferVars, ringVars
  <2> QED
    BY <2>1 DEF TInv, Rings
<1>1. Phases'
  BY AddingRuns DEF Adding, Lock, FindBuffer, MakeBuffer, AllocFails, PushFails, TakeId, PushEvent, Unlock,
     EnableMetric, EventOpenFails, TInv, Phases, outside, endVars
<1>2. CASE MakeBuffer(t)
  <2>1. id[t] \in Ids /\ thread_event_buffers_[id[t]] = NoBuffer /\ pc[t] = "find"
    BY <1>2 DEF MakeBuffer, Known, Step, TInv, IdInv, Arguments, InAdd, InMutex
  <2>2. \A i \in Ids : thread_event_buffers_[i] # t
    BY <2>1, NoBufferAssumption DEF TInv, Buffers, Alive
  <2>3. Buffers'
    BY <1>2, <2>1, <2>2, NoBufferAssumption
       DEF MakeBuffer, Step, TInv, Buffers, Known, Alive, TypeOK, effects, outside
  <2>4. Filled' /\ Inside'
    BY <1>2, AddingRuns DEF MakeBuffer, outside, bufferVars, endVars, TInv, Filled, Inside
  <2> QED
    BY <1>0, <1>1, <2>3, <2>4
<1>3. CASE PushEvent(t)
  <2>1. /\ Filled' /\ Inside'
        /\ UNCHANGED <<thread_event_buffers_, id>>
        /\ pc[t] = "push" /\ pc' = [pc EXCEPT ![t] = "unlock"]
        /\ all_events_' = Append(all_events_, [tid |-> id[t], metric |-> metric[t]])
    BY <1>3, Outside DEF PushEvent, Step, outside, bufferVars, endVars
  <2>2. \A n \in 1..Len(all_events_') : thread_event_buffers_[all_events_'[n].tid] # NoBuffer
    <3>1. thread_event_buffers_[id[t]] # NoBuffer /\ all_events_ \in Seq([tid : Ids, metric : Metrics])
      BY <2>1 DEF TInv, Buffers, Known, TypeOK
    <3>2. \A n \in 1..Len(all_events_') :
            \/ n \in 1..Len(all_events_) /\ all_events_'[n] = all_events_[n]
            \/ all_events_'[n] = [tid |-> id[t], metric |-> metric[t]]
      BY <2>1, <3>1
    <3> QED
      BY <3>1, <3>2 DEF TInv, Buffers
  <2>3. Buffers'
    BY <2>1, <2>2 DEF TInv, Buffers, Known, Alive, TypeOK
  <2> QED
    BY <1>0, <1>1, <2>1, <2>3
<1>4. CASE ~MakeBuffer(t) /\ ~PushEvent(t)
  <2>1. /\ UNCHANGED <<thread_event_buffers_, all_events_, id, bufferVars, endVars>>
        /\ pc[t] \notin {"unborn", "exited"}
        /\ \E to \in {"find", "size", "user", "push", "open"} :
             /\ pc' = [pc EXCEPT ![t] = to]
             /\ to \in {"size", "push", "open"} => Known(t)
    BY <1>4 DEF Adding, Lock, FindBuffer, AllocFails, PushFails, TakeId, Unlock, EnableMetric, EventOpenFails,
                Step, TInv, Buffers, pluginVars, effects, outside, endVars
  <2>2. Buffers'
    BY <2>1 DEF TInv, Buffers, Known, Alive, TypeOK
  <2> QED
    BY <1>1, <2>1, <2>2, Outside
<1> QED
  BY <1>0, <1>2, <1>3, <1>4

\* The kernel adds a sample to what was sampled and to the ring of its metric.
LEMMA TakeAt ==
  ASSUME TInv, NEW t \in Threads, Take(t)
  PROVE  /\ UNCHANGED <<threadVars, pluginVars, perfVars, slots, access_count, now, results, endVars>>
         /\ taken' \in 0..MaxSamples
         /\ \E s \in Sample :
              /\ sampled' = [sampled EXCEPT ![t] = Append(sampled[t], s)]
              /\ waiting' = [waiting EXCEPT ![t][s.metric] = Append(waiting[t][s.metric], s)]
<1>1. PICK m \in sampling[t] :
        LET s == [addr |-> taken, metric |-> m]
        IN  /\ waiting' = [waiting EXCEPT ![t][m] = Append(@, s)]
            /\ sampled' = [sampled EXCEPT ![t] = Append(@, s)]
  BY DEF Take
<1> DEFINE s == [addr |-> taken, metric |-> m]
<1>2. m \in Metrics /\ taken \in 0..MaxSamples /\ taken' \in 0..MaxSamples
  BY MaxSamplesAssumption DEF Take, TInv, TypeOK
<1>3. s \in Sample /\ s.metric = m
  BY <1>2 DEF Sample
<1> QED
  BY <1>1, <1>2, <1>3 DEF Take

\* The handler makes the oldest sample of a ring an event of the buffer.
LEMMA StoreAt ==
  ASSUME TInv, NEW t \in Threads, Store(t)
  PROVE  /\ UNCHANGED <<threadVars, pluginVars, perfVars, sampled, taken, results, endVars>>
         /\ ~blocked[t] /\ now' = now + 1
         /\ \E e \in Event :
              /\ e.time = now
              /\ waiting[t][e.metric] # <<>> /\ Head(waiting[t][e.metric]) = SampleOf(e)
              /\ waiting' = [waiting EXCEPT ![t][e.metric] = Tail(waiting[t][e.metric])]
              /\ SampleOf(e) \in ToSet(sampled[t])
              /\ LET b == event_data_[t]
                 IN  IF b # NoBuffer
                     THEN /\ slots' = [slots EXCEPT ![b][access_count[b] % BufferSize] = e]
                          /\ access_count' = [access_count EXCEPT ![b] = @ + 1]
                     ELSE UNCHANGED <<slots, access_count>>
<1>1. PICK m \in Metrics :
        /\ waiting[t][m] # <<>>
        /\ waiting' = [waiting EXCEPT ![t][m] = Tail(@)]
        /\ LET e == [time |-> now, addr |-> Head(waiting[t][m]).addr, metric |-> m]
               b == event_data_[t]
           IN  IF b # NoBuffer
               THEN /\ slots' = [slots EXCEPT ![b][access_count[b] % BufferSize] = e]
                    /\ access_count' = [access_count EXCEPT ![b] = @ + 1]
               ELSE UNCHANGED <<slots, access_count>>
  BY DEF Store
<1> DEFINE s == Head(waiting[t][m])
           e == [time |-> now, addr |-> s.addr, metric |-> m]
<1>2. waiting[t][m] \in Seq(Sample) /\ now \in Nat
  BY DEF TInv, TypeOK
<1>3. s \in Sample /\ s = waiting[t][m][1] /\ 1 \in 1..Len(waiting[t][m])
  BY <1>1, <1>2
<1>4. s.metric = m /\ s \in ToSet(sampled[t])
  BY <1>3 DEF TInv, Rings
<1>5. e \in Event /\ e.time = now /\ e.metric = m
  BY <1>2, <1>3 DEF Event, Sample
<1>6. SampleOf(e) = s
  BY <1>3, <1>4 DEF SampleOf, Sample
<1> QED
  BY <1>1, <1>4, <1>5, <1>6 DEF Store

\* What a sequence has after an append.
LEMMA AppendSet ==
  ASSUME NEW S, NEW q \in Seq(S), NEW e \in S
  PROVE  ToSet(Append(q, e)) = ToSet(q) \cup {e}
<1> DEFINE n == Len(q)
<1>1. n \in Nat /\ Len(Append(q, e)) = n + 1 /\ DOMAIN q = 1..n /\ DOMAIN Append(q, e) = 1..n+1
  OBVIOUS
<1>2. \A i \in 1..n+1 : Append(q, e)[i] = IF i = n + 1 THEN e ELSE q[i]
  OBVIOUS
<1>3. 1..n+1 = 1..n \cup {n + 1} /\ n + 1 \notin 1..n
  BY <1>1
<1> HIDE DEF n
<1> QED
  BY <1>1, <1>2, <1>3 DEF ToSet

\* What the kernel samples is of the types, and nothing is lost from a ring.
LEMMA TakeTypes ==
  ASSUME TInv, NEW t \in Threads, Take(t)
  PROVE  TypeOK' /\ Phases' /\ Buffers' /\ Filled' /\ Inside' /\ Rings'
<1> USE DEF TInv, threadVars, pluginVars, perfVars, endVars
<1>1. PICK s \in Sample :
        /\ sampled' = [sampled EXCEPT ![t] = Append(sampled[t], s)]
        /\ waiting' = [waiting EXCEPT ![t][s.metric] = Append(waiting[t][s.metric], s)]
  BY TakeAt
<1>2. /\ UNCHANGED <<threadVars, pluginVars, perfVars, slots, access_count, now, results, endVars>>
      /\ taken' \in 0..MaxSamples
  BY TakeAt
<1>3. /\ s.metric \in Metrics /\ sampled[t] \in Seq(Sample) /\ waiting[t][s.metric] \in Seq(Sample)
      /\ sampled \in [Threads -> Seq(Sample)] /\ waiting \in [Threads -> [Metrics -> Seq(Sample)]]
  <2>1. s.metric \in Metrics
    BY DEF Sample
  <2> QED
    BY <2>1 DEF TypeOK
<1>4. /\ sampled' \in [Threads -> Seq(Sample)]
      /\ waiting' \in [Threads -> [Metrics -> Seq(Sample)]]
  BY <1>1, <1>3
<1>5. TypeOK'
  BY <1>2, <1>4 DEF TypeOK, InMutex
<1>6. Phases' /\ Buffers' /\ Filled' /\ Inside'
  BY <1>2 DEF Phases, Quiet, Buffers, Known, Alive, Filled, Inside, Copying
<1>7. Rings'
  <2> SUFFICES ASSUME NEW u \in Threads, NEW m \in Metrics, NEW i \in 1..Len(waiting'[u][m])
               PROVE  waiting'[u][m][i].metric = m /\ waiting'[u][m][i] \in ToSet(sampled'[u])
    BY DEF Rings
  <2>0. ToSet(sampled'[t]) = ToSet(sampled[t]) \cup {s}
    <3>1. sampled'[t] = Append(sampled[t], s)
      BY <1>1, <1>3
    <3> QED
      BY <1>3, <3>1, AppendSet
  <2>1. \A x \in ToSet(sampled[u]) : x \in ToSet(sampled'[u])
    BY <1>1, <1>3, <2>0
  <2>2. CASE u = t /\ m = s.metric
    <3>1. waiting'[u][m] = Append(waiting[t][m], s)
      BY <1>1, <1>3, <2>2
    <3>2. \/ i \in 1..Len(waiting[t][m]) /\ waiting'[u][m][i] = waiting[t][m][i]
          \/ waiting'[u][m][i] = s
      BY <1>3, <2>2, <3>1
    <3> QED
      BY <2>0, <2>1, <2>2, <3>2 DEF Rings
  <2>3. CASE ~(u = t /\ m = s.metric)
    <3>1. waiting'[u][m] = waiting[u][m]
      BY <1>1, <1>3, <2>3
    <3> QED
      BY <2>1, <3>1 DEF Rings
  <2> QED
    BY <2>2, <2>3
<1> QED
  BY <1>5, <1>6, <1>7

\* An append is into a slot, and the slots below the new count are filled.
LEMMA StoreTypes ==
  ASSUME TInv, NEW t \in Threads, Store(t)
  PROVE  TypeOK' /\ Phases' /\ Buffers' /\ Filled' /\ Inside' /\ Rings'
<1> USE DEF TInv, threadVars, pluginVars, perfVars, endVars
<1>0. /\ UNCHANGED <<threadVars, pluginVars, perfVars, sampled, taken, results, endVars>>
      /\ now' = now + 1
  BY StoreAt
<1>1. PICK e \in Event :
        /\ waiting[t][e.metric] # <<>>
        /\ waiting' = [waiting EXCEPT ![t][e.metric] = Tail(waiting[t][e.metric])]
        /\ LET b == event_data_[t]
           IN  IF b # NoBuffer
               THEN /\ slots' = [slots EXCEPT ![b][access_count[b] % BufferSize] = e]
                    /\ access_count' = [access_count EXCEPT ![b] = @ + 1]
               ELSE UNCHANGED <<slots, access_count>>
  BY StoreAt
<1> DEFINE b == event_data_[t]
<1>2. e.metric \in Metrics /\ now' \in Nat
  BY <1>0 DEF TypeOK, Event
<1>3. /\ waiting' \in [Threads -> [Metrics -> Seq(Sample)]]
      /\ waiting[t][e.metric] \in Seq(Sample)
  BY <1>1, <1>2 DEF TypeOK
<1>7. Rings'
  <2> SUFFICES ASSUME NEW u \in Threads, NEW m \in Metrics, NEW i \in 1..Len(waiting'[u][m])
               PROVE  waiting'[u][m][i].metric = m /\ waiting'[u][m][i] \in ToSet(sampled[u])
    BY <1>0 DEF Rings
  <2>1. CASE u = t /\ m = e.metric
    <3>1. waiting'[u][m] = Tail(waiting[t][m])
      BY <1>1, <1>2, <2>1 DEF TypeOK
    <3>2. i + 1 \in 1..Len(waiting[t][m]) /\ waiting'[u][m][i] = waiting[t][m][i + 1]
      BY <1>1, <1>3, <2>1, <3>1
    <3> QED
      BY <2>1, <3>2 DEF Rings
  <2>2. CASE ~(u = t /\ m = e.metric)
    <3>1. waiting'[u][m] = waiting[u][m]
      BY <1>1, <1>2, <2>2 DEF TypeOK
    <3> QED
      BY <3>1 DEF Rings
  <2> QED
    BY <2>1, <2>2
<1>4. Phases' /\ Buffers'
  BY <1>0 DEF Phases, Quiet, Buffers, Known, Alive
<1>5. CASE b = NoBuffer
  <2>1. UNCHANGED <<slots, access_count>>
    BY <1>1, <1>5
  <2>2. TypeOK'
    BY <1>0, <1>2, <1>3, <2>1 DEF TypeOK, InMutex
  <2> QED
    BY <1>0, <1>4, <1>7, <2>1, <2>2 DEF Filled, Inside, Copying
<1>6. CASE b # NoBuffer
  <2> DEFINE k == access_count[b] % BufferSize
  <2>1. b \in Threads /\ access_count[b] \in Nat
    BY <1>6 DEF TypeOK
  <2>2. k \in Slots /\ (access_count[b] < BufferSize => k = access_count[b])
    BY <2>1, CountSlot
  <2>3. /\ slots' = [slots EXCEPT ![b][k] = e]
        /\ access_count' = [access_count EXCEPT ![b] = @ + 1]
    BY <1>1, <1>6
  <2> HIDE DEF k, b
  <2>4. /\ slots' \in [Threads -> [Slots -> Event \cup {NoEvent}]]
        /\ access_count' \in [Threads -> Nat]
    BY <2>1, <2>2, <2>3 DEF TypeOK
  <2>5. TypeOK'
    BY <1>0, <1>2, <1>3, <2>4 DEF TypeOK, InMutex
  <2>6. Filled'
    <3> SUFFICES ASSUME NEW u \in Threads, NEW j \in Slots, j < access_count'[u]
                 PROVE  slots'[u][j] \in Event
      BY DEF Filled
    <3>1. CASE u = b /\ j = k
      BY <2>1, <2>3, <3>1 DEF TypeOK
    <3>2. CASE u # b
      BY <2>1, <2>3, <3>2 DEF Filled, TypeOK
    <3>3. CASE u = b /\ j # k
      <4>1. j \in Nat /\ j < BufferSize /\ j < access_count[b] + 1 /\ BufferSize \in Nat
        BY <2>1, <2>3, <3>3, BufferSizeAssumption DEF Slots, TypeOK
      <4>2. j < access_count[b]
        BY <2>1, <2>2, <3>3, <4>1
      <4>3. slots'[u][j] = slots[b][j]
        BY <2>1, <2>3, <3>3 DEF TypeOK
      <4> QED
        BY <2>1, <4>2, <4>3 DEF Filled
    <3> QED
      BY <3>1, <3>2, <3>3
  <2>7. \A u \in Threads : access_count[u] \in Nat /\ access_count'[u] >= access_count[u]
    BY <2>1, <2>3 DEF TypeOK
  <2>8. Inside'
    <3>1. it.slot \in Nat
      BY BufferSizeAssumption DEF TypeOK, Slots
    <3>2. it.buffer \in Threads /\ it.slot < access_count[it.buffer] => it.slot < access_count'[it.buffer]
      BY <2>4, <2>7, <3>1
    <3> QED
      BY <1>0, <3>2 DEF Inside, Copying
  <2> QED
    BY <1>4, <1>7, <2>5, <2>6, <2>8
<1> QED
  BY <1>5, <1>6

\* An iteration starts at an event of its buffer, ...
LEMMA BeginInside ==
  ASSUME TInv, NEW b \in Threads
  PROVE  \/ Begin(b) = NoLoop
         \/ \E k \in Slots : Begin(b) = At(b, k, FALSE) /\ k < access_count[b]
<1>1. access_count[b] \in Nat /\ BufferSize \in Nat /\ BufferSize > 0
  BY BufferSizeAssumption DEF TInv, TypeOK
<1>2. 0 \in Slots /\ access_count[b] % BufferSize \in Slots
  BY <1>1, CountSlot DEF Slots
<1>3. CASE access_count[b] = 0
  BY <1>3 DEF Begin
<1>4. CASE access_count[b] # 0 /\ access_count[b] <= BufferSize
  <2>1. Begin(b) = At(b, 0, FALSE) /\ 0 < access_count[b]
    BY <1>1, <1>4 DEF Begin
  <2> QED
    BY <1>2, <2>1
<1>5. CASE access_count[b] # 0 /\ ~(access_count[b] <= BufferSize)
  <2>1. access_count[b] % BufferSize < access_count[b]
    BY <1>1, <1>2, <1>5 DEF Slots
  <2> QED
    BY <1>2, <1>5, <2>1 DEF Begin
<1> QED
  BY <1>3, <1>4, <1>5

\* ... goes on to one ...
LEMMA AdvancedInside ==
  ASSUME TInv, it # NoLoop
  PROVE  \/ Advanced = NoLoop
         \/ \E k \in Slots : Advanced = At(it.buffer, k, FALSE) /\ k < access_count[it.buffer]
<1> DEFINE n == access_count[it.buffer]
           k == (it.slot + 1) % BufferSize
<1>1. /\ n \in Nat /\ BufferSize \in Nat /\ BufferSize > 0
      /\ it.slot \in 0..BufferSize-1 /\ it.slot < n
  BY BufferSizeAssumption DEF TInv, TypeOK, Inside, Slots
<1>2. k = (IF it.slot + 1 = BufferSize THEN 0 ELSE it.slot + 1) /\ k \in Slots
  BY <1>1, NextSlot DEF Slots
<1>3. /\ n < BufferSize => n % BufferSize = n
      /\ n = BufferSize => n % BufferSize = 0
  BY <1>1, CountSlot
<1>4. k # n % BufferSize => k < n
  BY <1>1, <1>2, <1>3
<1>5. Advanced = IF k = n % BufferSize THEN NoLoop ELSE At(it.buffer, k, FALSE)
  BY DEF Advanced
<1> QED
  BY <1>2, <1>4, <1>5

\* ... and finds an event there.
LEMMA HereIsEvent == ASSUME TInv, it # NoLoop PROVE Here \in Event
  BY DEF TInv, TypeOK, Filled, Inside, Here

\* The buffers map is what it was, and so is what they hold.
LEMMA MapKept ==
  ASSUME TInv, UNCHANGED others
  PROVE  /\ Buffers' /\ Filled' /\ Rings'
         /\ phase' # "running" => (Quiet => Quiet')
  BY DEF TInv, others, threadVars, pluginVars, bufferVars, ringVars, Rings, Buffers, Known, Alive, Filled, Quiet

\* Stopping, and what Score-P reads of a stopped measurement.
LEMMA FinalisingTypes ==
  ASSUME TInv, Finalising
  PROVE  TypeOK' /\ Phases' /\ Buffers' /\ Filled' /\ Inside' /\ Rings'
<1>1. UNCHANGED others /\ UNCHANGED <<copies, traces>> /\ phase' \in {"stopped", "spawning"} /\ Quiet
  BY DEF Finalising, Stop, GetAllValues, TestType, WriteValue, Destroy, TInv, Phases
<1>2. Phases' /\ Buffers' /\ Filled' /\ Rings'
  BY <1>1, MapKept DEF Phases
<1>3. CASE Stop \/ Destroy
  <2>1. TypeOK'
    BY <1>1, <1>3, MainAssumption
       DEF Stop, Destroy, TInv, TypeOK, InMutex, others, threadVars, pluginVars, bufferVars, ringVars
  <2>2. it' = NoLoop
    BY <1>3 DEF Stop, Destroy, TInv, Phases
  <2> QED
    BY <1>2, <2>1, <2>2 DEF Inside
<1> DEFINE Reads(s) == /\ s \in Seq(Seq(Event)) /\ s # <<>> /\ Len(s) <= Len(all_events_)
           Within(l) == l = NoLoop \/ \E k \in Slots : \E b \in Threads, m \in BOOLEAN :
                                         l = At(b, k, m) /\ k < access_count[b]
<1>4. ASSUME Reads(series'), Within(it'), phase = "stopped", phase' = "stopped", blocked' = blocked
      PROVE  TypeOK' /\ Inside'
  <2>1. it' \in Loops
    BY <1>4, LoopTypes
  <2>2. TypeOK'
    BY <1>1, <1>4, <2>1
       DEF Loops, TInv, TypeOK, InMutex, others, threadVars, pluginVars, bufferVars, ringVars
  <2>3. Inside'
    BY <1>1, <1>4 DEF Inside, At, others, bufferVars
  <2> QED
    BY <2>2, <2>3
<1>5. CASE GetAllValues
  <2>1. /\ series \in Seq(Seq(Event)) /\ Len(series) \in Nat /\ Len(all_events_) \in Nat
        /\ Len(series) < Len(all_events_) /\ series' = Append(series, <<>>)
    BY <1>5 DEF GetAllValues, TInv, TypeOK
  <2>2. Reads(series')
    BY <2>1
  <2> DEFINE b == thread_event_buffers_[all_events_[Len(series) + 1].tid]
  <2>3. Len(series) + 1 \in 1..Len(all_events_)
    BY <2>1
  <2>4. b \in Threads
    <3> DEFINE n == Len(series) + 1
    <3>2. all_events_ \in Seq(Entry)
      BY DEF TInv, IdInv
    <3> HIDE DEF n
    <3>3. all_events_[n] \in Entry
      <4>1. n \in 1..Len(all_events_)
        BY <2>3 DEF n
      <4> QED
        BY <3>2, <4>1
    <3>1. all_events_[n].tid \in Ids
      BY <3>3 DEF Entry
    <3> QED
      BY <2>3, <3>1 DEF n, TInv, TypeOK, Buffers
  <2>5. it' = NoLoop \/ it' = Begin(b)
    BY <1>5 DEF GetAllValues
  <2> HIDE DEF b
  <2>6. Within(it')
    BY <2>4, <2>5, BeginInside
  <2> QED
    BY <1>2, <1>4, <1>5, <2>2, <2>6 DEF GetAllValues
<1>6. CASE TestType \/ WriteValue
  <2>1. it # NoLoop /\ phase = "stopped" /\ phase' = "stopped" /\ blocked' = blocked
    BY <1>6 DEF TestType, WriteValue, NoLoop, At
  <2>2. /\ series \in Seq(Seq(Event)) /\ series # <<>> /\ Len(series) <= Len(all_events_)
        /\ it.buffer \in Threads /\ it.slot \in Slots /\ it.slot < access_count[it.buffer]
    BY <2>1 DEF TInv, TypeOK, Inside
  <2>3. Within(At(it.buffer, it.slot, TRUE)) /\ Within(Advanced)
    BY <2>1, <2>2, AdvancedInside
  <2>4. Within(it')
    <3>1. it' = At(it.buffer, it.slot, TRUE) \/ it' = Advanced
      <4>1. CASE TestType
        <5> DEFINE P == AccessType(Here.metric) = AccessType(all_events_[Len(series)].metric)
        <5>1. it' = IF P THEN At(it.buffer, it.slot, TRUE) ELSE Advanced
          BY <4>1 DEF TestType
        <5> HIDE DEF P
        <5> QED
          BY <5>1
      <4> QED
        BY <1>6, <4>1 DEF WriteValue
    <3> HIDE DEF Within
    <3>2. CASE it' = At(it.buffer, it.slot, TRUE)
      BY <2>3, <3>2
    <3>3. CASE it' = Advanced
      BY <2>3, <3>3
    <3> QED
      BY <3>1, <3>2, <3>3
  <2>5. Reads(series')
    <3>1. CASE TestType
      <4>1. series' = series
        BY <3>1 DEF TestType
      <4> QED
        BY <2>2, <4>1
    <3>2. CASE WriteValue
      <4>1. /\ Len(series) \in 1..Len(series) /\ series[Len(series)] \in Seq(Event)
            /\ Here \in Event
        BY <2>1, <2>2, HereIsEvent
      <4>2. Append(series[Len(series)], Here) \in Seq(Event)
        BY <4>1
      <4>3. series' = [series EXCEPT ![Len(series)] = Append(series[Len(series)], Here)]
        BY <3>2 DEF WriteValue
      <4> HIDE DEF Here
      <4> QED
        BY <2>2, <4>1, <4>2, <4>3
    <3> QED
      BY <1>6, <3>1, <3>2
  <2> QED
    BY <1>2, <1>4, <2>1, <2>4, <2>5
<1> QED
  BY <1>2, <1>3, <1>5, <1>6 DEF Finalising

\* A copy is not the mark for "none".
LEMMA CopyIsNotNone == \A s \in Seq(Event) : s # NoTrace
<1> DEFINE Pairs == [time : Nat, addr : Nat, metric : Loads \cup Stores]
<1>1. Event \subseteq Pairs
  BY MaxSamplesAssumption DEF Event, Metrics
<1>2. ASSUME NEW s \in Seq(Event) PROVE s \in Seq(Pairs)
  <2>1. Len(s) \in Nat /\ s \in [1..Len(s) -> Event]
    OBVIOUS
  <2>2. s \in [1..Len(s) -> Pairs]
    BY <1>1, <2>1
  <2> HIDE DEF Pairs
  <2> QED
    BY <2>1, <2>2
<1> QED
  BY <1>2, NoTraceAssumption

\* The copies and the trace files.
LEMMA WritingTypes ==
  ASSUME TInv, Writing
  PROVE  TypeOK' /\ Phases' /\ Buffers' /\ Filled' /\ Inside' /\ Rings'
<1>1. /\ UNCHANGED others /\ UNCHANGED <<blocked, series>> /\ Quiet
      /\ phase' \in {"spawning", "gone", "terminated"} /\ phase # "running"
  BY DEF Writing, Terminate, Join, BeginCopy, CopyEvent, WriteEventBuffer, TInv, Phases
<1>2. Phases' /\ Buffers' /\ Filled' /\ Rings'
  BY <1>1, MapKept DEF Phases
<1>3. ASSUME it' \in Loops,
             copies' \in [Ids -> {NoTrace} \cup Seq(Event)],
             traces' \in [Ids -> {NoTrace} \cup Seq(Event)]
      PROVE  TypeOK'
  BY <1>1, <1>3 DEF Loops, TInv, TypeOK, InMutex, others, threadVars, pluginVars, bufferVars, ringVars
<1>4. /\ it \in Loops
      /\ copies \in [Ids -> {NoTrace} \cup Seq(Event)]
      /\ traces \in [Ids -> {NoTrace} \cup Seq(Event)]
      /\ UNCHANGED <<access_count, thread_event_buffers_>>
  BY <1>1 DEF Loops, TInv, TypeOK, others, bufferVars, pluginVars
<1>5. CASE Terminate \/ Join
  <2>1. UNCHANGED <<it, copies, traces>> /\ phase' \in {"gone", "terminated"}
    BY <1>5 DEF Terminate, Join
  <2> QED
    BY <1>2, <1>3, <1>4, <2>1 DEF TInv, Inside, Copying
<1>6. ASSUME NEW i \in Ids, WriteEventBuffer(i)
      PROVE  TypeOK' /\ Inside'
  <2>1. UNCHANGED <<it, copies, phase>> /\ traces' = [traces EXCEPT ![i] = copies[i]]
    BY <1>6 DEF WriteEventBuffer
  <2>2. traces' \in [Ids -> {NoTrace} \cup Seq(Event)]
    BY <1>4, <2>1
  <2> QED
    BY <1>1, <1>3, <1>4, <2>1, <2>2 DEF TInv, Inside, Copying
<1>7. ASSUME NEW i \in Ids, BeginCopy(i)
      PROVE  TypeOK' /\ Inside'
  <2> DEFINE b == thread_event_buffers_[i]
  <2>1. /\ b \in Threads /\ b # NoBuffer /\ it' = Begin(b)
        /\ copies' = [copies EXCEPT ![i] = <<>>] /\ UNCHANGED traces /\ phase' = "spawning"
    BY <1>7 DEF BeginCopy, TInv, TypeOK
  <2>2. \A j \in Ids : thread_event_buffers_[j] = b => j = i
    BY <2>1 DEF TInv, Buffers
  <2> HIDE DEF b
  <2>3. it' = NoLoop \/ \E k \in Slots : it' = At(b, k, FALSE) /\ k < access_count[b]
    BY <2>1, BeginInside
  <2>4. copies' \in [Ids -> {NoTrace} \cup Seq(Event)] /\ copies'[i] # NoTrace
    <3>1. <<>> \in Seq(Event)
      OBVIOUS
    <3> QED
      BY <1>4, <2>1, <3>1, CopyIsNotNone
  <2>5. it' \in Loops
    BY <2>1, <2>3, LoopTypes
  <2>6. TypeOK'
    BY <1>3, <1>4, <2>1, <2>4, <2>5
  <2>7. Inside'
    BY <1>4, <2>1, <2>2, <2>3, <2>4 DEF Inside, At, Copying
  <2> QED
    BY <2>6, <2>7
<1>8. ASSUME NEW i \in Ids, CopyEvent(i)
      PROVE  TypeOK' /\ Inside'
  <2>1. /\ it # NoLoop /\ phase = "spawning" /\ phase' = "spawning"
        /\ it.buffer = thread_event_buffers_[i] /\ it' = Advanced
        /\ copies' = [copies EXCEPT ![i] = Append(copies[i], Here)] /\ UNCHANGED traces
    BY <1>8 DEF CopyEvent, Copying
  <2>2. /\ it.buffer \in Threads /\ copies[i] \in Seq(Event) /\ Here \in Event
        /\ \A j \in Ids : Copying(j) => copies[j] # NoTrace
    BY <1>4, <2>1, HereIsEvent DEF TInv, Inside, Copying
  <2> HIDE DEF Here
  <2>3. Append(copies[i], Here) \in Seq(Event)
    BY <2>2
  <2>4. /\ copies' \in [Ids -> {NoTrace} \cup Seq(Event)]
        /\ \A j \in Ids : copies[j] # NoTrace => copies'[j] # NoTrace
    BY <1>4, <2>1, <2>3, CopyIsNotNone
  <2>5. it' = NoLoop \/ \E k \in Slots : it' = At(it.buffer, k, FALSE) /\ k < access_count[it.buffer]
    BY <2>1, AdvancedInside
  <2>6. it' \in Loops
    BY <2>2, <2>5, LoopTypes
  <2>7. TypeOK'
    BY <1>3, <1>4, <2>1, <2>4, <2>6
  <2>8. Inside'
    BY <1>4, <2>1, <2>2, <2>4, <2>5 DEF Inside, At, Copying
  <2> QED
    BY <2>7, <2>8
<1> QED
  BY <1>2, <1>5, <1>6, <1>7, <1>8 DEF Writing

\* Every step keeps the types and what they rest on.
LEMMA TStep == ASSUME TInv, [Next]_vars PROVE TInv'
<1>1. IdInv'
  BY IdStep DEF TInv
<1>2. CASE Finalising
  BY <1>1, <1>2, FinalisingTypes DEF TInv
<1>3. CASE Writing
  BY <1>1, <1>3, WritingTypes DEF TInv
<1>4. ASSUME NEW t \in Threads, Thread(t) PROVE TInv'
  <2>1. CASE Start(t) \/ Exit(t) \/ AddMetric(t)
    <3>1. UNCHANGED <<bufferVars, endVars, thread_event_buffers_>>
      BY <2>1 DEF Start, Exit, AddMetric, pluginVars
    <3> QED
      BY <1>1, <2>1, <3>1, ComeAndGo, Outside DEF TInv
  <2>2. CASE Adding(t)
    BY <1>1, <2>2, AddingTypes, AddingBuffers DEF TInv
  <2>3. CASE Take(t) \/ Store(t)
    BY <1>1, <2>3, TakeTypes, StoreTypes DEF TInv
  <2> QED
    BY <1>4, <2>1, <2>2, <2>3 DEF Thread
<1>5. CASE UNCHANGED vars
  <2>1. UNCHANGED <<bufferVars, endVars, thread_event_buffers_>>
    BY <1>5 DEF vars, pluginVars
  <2>2. TypeOK' /\ Phases' /\ Buffers'
    BY <1>5 DEF vars, threadVars, pluginVars, perfVars, bufferVars, ringVars, endVars, TInv, TypeOK,
       InMutex, Phases, Quiet, Buffers, Known, Alive
  <2> QED
    BY <1>1, <2>1, <2>2, Outside DEF TInv
<1> QED
  BY <1>2, <1>3, <1>4, <1>5 DEF Next

\* The ranges of the plugin's variables (TypeOK), for every number of threads and
\* every size of the buffers: no iteration of get_all_values or of a copy reads a
\* slot that was never written, or an entry of all_events_ that is not there.
THEOREM PluginTypes == Spec => []TypeOK
<1>1. Init => TInv
  BY InitTInv
<1>2. TInv /\ [Next]_vars => TInv'
  BY TStep
<1>3. TInv => TypeOK
  BY DEF TInv
<1> QED
  BY <1>1, <1>2, <1>3, PTL DEF Spec

=============================================================================
