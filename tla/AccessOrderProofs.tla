------------------------- MODULE AccessOrderProofs -------------------------
(***************************************************************************)
(* What is in the series of a metric id, and in which order, and what the  *)
(* series of the thread that called stop() lack: for every number of       *)
(* threads and every size of the buffers, if no thread id is used twice.   *)
(***************************************************************************)
EXTENDS AccessLossProofs

\* Only stop() blocks a signal, that of Main, and nothing is read before it.
Blocks == /\ \A t \in Threads : blocked[t] => t = Main /\ phase # "running"
          /\ phase # "running" => blocked[Main]

\* The slots k and l of a buffer whose next slot is o: k was taken first.
Older(o, k, l) == \/ k < l /\ (k < o <=> l < o)
                  \/ o <= k /\ l < o

InUse(b) == {k \in Slots : k < access_count[b]}

\* From its oldest event on a buffer holds samples of its thread as they were read.
Ages ==
  \A b \in Threads :
    /\ \A k \in InUse(b) : SampleOf(slots[b][k]) \in ToSet(sampled[b]) /\ slots[b][k].time < now
    /\ \A k, l \in InUse(b) :
         Older(access_count[b] % BufferSize, k, l) => slots[b][k].time < slots[b][l].time

\* Nobody writes to the buffer, or not over what is in it.
Stable(b) == b = Main \/ Small(b)

Type(n) == AccessType(all_events_[n].metric)
Reading(n) == phase = "stopped" /\ it # NoLoop /\ n = Len(series)

\* A series is in order, and the event the iteration is at comes after it.
InOrder(n) ==
  /\ \A i \in 1..Len(series[n]) :
       /\ AccessType(series[n][i].metric) = Type(n)
       /\ SampleOf(series[n][i]) \in ToSet(sampled[Buffer(n)])
       /\ \A j \in 1..i-1 : series[n][j].time < series[n][i].time
  /\ Reading(n) =>
       /\ \A i \in 1..Len(series[n]) : series[n][i].time < Here.time
       /\ it.matched => AccessType(Here.metric) = Type(n)

\* A series has what matches of the slots the iteration has left behind.
Complete(n) ==
  \A k \in InUse(Buffer(n)) :
    AccessType(slots[Buffer(n)][k].metric) = Type(n) /\ (Reading(n) => k < it.slot)
      => slots[Buffer(n)][k] \in ToSet(series[n])

\* The ids that add_metric returned; the others are not iterated over.
Returned == {r.id + 1 : r \in results}

Served ==
  \A n \in 1..Len(series) :
    /\ Stable(Buffer(n)) => InOrder(n)
    /\ Buffer(n) = Main /\ Small(Main) /\ n \in Returned => Complete(n)

OInv == LInv /\ Blocks /\ Ages /\ Served

\* The remainder is the one slot the quotient leaves.
LEMMA Remainder ==
  ASSUME NEW x \in Int, NEW q \in Int, NEW m \in 0..BufferSize-1, x = (BufferSize * q) + m
  PROVE  x % BufferSize = m
  BY BufferSizeAssumption

\* The slot behind that of a count.
LEMMA NextCount ==
  ASSUME NEW n \in Nat
  PROVE  (n + 1) % BufferSize
           = IF (n % BufferSize) + 1 = BufferSize THEN 0 ELSE (n % BufferSize) + 1
<1> DEFINE q == n \div BufferSize
           o == n % BufferSize
<1>1. BufferSize \in Nat /\ BufferSize > 0
  BY BufferSizeAssumption
<1>2. q \in Int /\ o \in 0..BufferSize-1 /\ n = (BufferSize * q) + o
  BY <1>1
<1> HIDE DEF q
<1>3. CASE o + 1 = BufferSize
  <2> HIDE DEF o
  <2>1. n + 1 = (BufferSize * (q + 1)) + 0 /\ q + 1 \in Int
    BY <1>1, <1>2, <1>3
  <2>2. (n + 1) % BufferSize = 0
    BY <1>1, <2>1, Remainder
  <2> QED
    BY <1>3, <2>2 DEF o
<1>4. CASE o + 1 # BufferSize
  <2> HIDE DEF o
  <2>1. n + 1 = (BufferSize * q) + (o + 1) /\ o + 1 \in 0..BufferSize-1
    BY <1>1, <1>2, <1>4
  <2>2. (n + 1) % BufferSize = o + 1
    BY <1>1, <1>2, <2>1, Remainder
  <2> QED
    BY <1>4, <2>2 DEF o
<1> QED
  BY <1>3, <1>4

\* An append makes its slot the newest and leaves the others in their order.
LEMMA OlderNext ==
  ASSUME NEW n \in Nat, NEW k \in Slots, NEW l \in Slots, Older((n + 1) % BufferSize, k, l)
  PROVE  k # n % BufferSize /\ (l = n % BufferSize \/ Older(n % BufferSize, k, l))
<1> DEFINE o == n % BufferSize
           p == (n + 1) % BufferSize
<1>1. /\ BufferSize \in Nat
      /\ k \in 0..BufferSize-1 /\ l \in 0..BufferSize-1 /\ o \in 0..BufferSize-1
      /\ p = IF o + 1 = BufferSize THEN 0 ELSE o + 1
  BY BufferSizeAssumption, CountSlot, NextCount DEF Slots
<1>2. Older(p, k, l)
  OBVIOUS
<1> HIDE DEF o, p
<1>3. k # o /\ (l = o \/ Older(o, k, l))
  BY <1>1, <1>2 DEF Older
<1> QED
  BY <1>3 DEF o

\* An iteration goes on to an event that is newer.
LEMMA AdvancedOlder ==
  ASSUME TInv, it # NoLoop, Advanced # NoLoop
  PROVE  /\ it.buffer \in Threads /\ it.slot \in InUse(it.buffer)
         /\ \E k \in InUse(it.buffer) :
              /\ Advanced = At(it.buffer, k, FALSE)
              /\ Older(access_count[it.buffer] % BufferSize, it.slot, k)
<1> DEFINE o == access_count[it.buffer] % BufferSize
           k == (it.slot + 1) % BufferSize
<1>1. it.buffer \in Threads /\ it.slot \in InUse(it.buffer) /\ it.slot \in Slots
  BY DEF TInv, TypeOK, Inside, InUse
<1>2. access_count[it.buffer] \in Nat
  BY <1>1 DEF TInv, TypeOK
<1>3. Advanced = At(it.buffer, k, FALSE) /\ k # o
  BY DEF Advanced
<1>4. k \in InUse(it.buffer)
  BY <1>3, AdvancedInside DEF At, InUse
<1>5. k = IF it.slot + 1 = BufferSize THEN 0 ELSE it.slot + 1
  BY <1>1, NextSlot
<1>6. BufferSize \in Nat /\ it.slot \in 0..BufferSize-1 /\ o \in 0..BufferSize-1
  BY <1>1, <1>2, BufferSizeAssumption, CountSlot DEF Slots
<1>7. Older(o, it.slot, k)
  <2> HIDE DEF o, k
  <2> QED
    BY <1>3, <1>5, <1>6 DEF Older
<1> QED
  BY <1>1, <1>3, <1>4, <1>7

\* Nothing is sampled and nothing read at the start.
LEMMA InitOInv == Init => OInv
<1> SUFFICES ASSUME Init PROVE OInv
  OBVIOUS
<1>1. Blocks
  BY DEF Init, Blocks
<1>2. Ages
  BY BufferSizeAssumption DEF Init, Ages, InUse, Slots
<1>3. Served
  BY DEF Init, Served
<1> QED
  BY <1>1, <1>2, <1>3, InitLInv DEF OInv

\* Nothing runs again, and nothing else touches the signals of a thread.
LEMMA BlocksStep == ASSUME LInv, Blocks, [Next]_vars PROVE Blocks'
<1>1. CASE Stop
  BY <1>1, MainAssumption DEF Stop, Blocks, LInv, TInv, TypeOK
<1>2. CASE /\ blocked' = blocked
           /\ phase' # phase => phase # "running" /\ phase' # "running"
  BY <1>2 DEF Blocks
<1>3. CASE UNCHANGED vars
  BY <1>2, <1>3 DEF vars, perfVars, endVars
<1>4. ASSUME NEW t \in Threads, Thread(t) PROVE UNCHANGED <<blocked, phase>>
  BY <1>4 DEF Thread, Start, Exit, AddMetric, Adding, Lock, FindBuffer, MakeBuffer, AllocFails,
              PushFails, TakeId, PushEvent, Unlock, EnableMetric, EventOpenFails, Take, Store, outside, perfVars, endVars
<1>5. CASE Finalising /\ ~Stop
  BY <1>2, <1>5 DEF Finalising, GetAllValues, TestType, WriteValue, Destroy
<1>6. CASE Writing
  BY <1>2, <1>6 DEF Writing, Terminate, Join, BeginCopy, CopyEvent, WriteEventBuffer
<1> QED
  BY <1>1, <1>2, <1>3, <1>4, <1>5, <1>6 DEF Next

-----------------------------------------------------------------------------
(* Sampling.                                                               *)

\* A thread's samples stay its samples.
LEMMA SampledOn ==
  ASSUME LInv, NEW t \in Threads, Take(t), NEW u \in Threads, NEW x \in ToSet(sampled[u])
  PROVE  x \in ToSet(sampled'[u])
<1> USE DEF LInv, TInv
<1>1. PICK s \in Sample : sampled' = [sampled EXCEPT ![t] = Append(sampled[t], s)]
  BY TakeAt
<1>2. sampled \in [Threads -> Seq(Sample)] /\ sampled[t] \in Seq(Sample)
  BY DEF TypeOK
<1>3. u # t => sampled'[u] = sampled[u]
  BY <1>1, <1>2
<1>4. sampled'[t] = Append(sampled[t], s)
  BY <1>1, <1>2
<1>5. ToSet(sampled'[t]) = ToSet(sampled[t]) \cup {s}
  BY <1>2, <1>4, AppendSet
<1> QED
  BY <1>3, <1>5

\* The newest event of a buffer is later than the others, and it replaces the oldest.
LEMMA AgesStep ==
  ASSUME LInv, Ages, NEW t \in Threads, Store(t)
  PROVE  Ages'
<1> USE DEF LInv, TInv
<1>1. PICK e \in Event :
        /\ e.time = now /\ SampleOf(e) \in ToSet(sampled[t])
        /\ slots' = [slots EXCEPT ![t][access_count[t] % BufferSize] = e]
        /\ access_count' = [access_count EXCEPT ![t] = access_count[t] + 1]
  BY StoreInto
<1> DEFINE n == access_count[t]
           o == n % BufferSize
<1>2. /\ now \in Nat /\ now' = now + 1 /\ n \in Nat /\ o \in Slots
      /\ (n < BufferSize => o = n)
      /\ BufferSize \in Nat /\ sampled' = sampled
      /\ slots \in [Threads -> [Slots -> Event \cup {NoEvent}]]
      /\ access_count \in [Threads -> Nat]
  BY StoreAt, CountSlot, BufferSizeAssumption DEF TypeOK
<1>3. \A b \in Threads : \A k \in InUse(b) : slots[b][k].time \in Nat /\ slots[b][k].time < now
  <2> SUFFICES ASSUME NEW b \in Threads, NEW k \in InUse(b)
               PROVE  slots[b][k].time \in Nat /\ slots[b][k].time < now
    OBVIOUS
  <2>1. slots[b][k] \in Event
    BY DEF Filled, InUse
  <2> QED
    BY <2>1 DEF Ages, Event
<1>4. ASSUME NEW b \in Threads, b # t
      PROVE  slots'[b] = slots[b] /\ access_count'[b] = access_count[b]
  BY <1>1, <1>2, <1>4
<1>5. slots'[t] = [slots[t] EXCEPT ![o] = e] /\ access_count'[t] = n + 1
  BY <1>1, <1>2
<1>6. ASSUME NEW k \in InUse(t)', k # o
      PROVE  k \in InUse(t) /\ slots'[t][k] = slots[t][k]
  <2>1. k \in Slots /\ k < n + 1 /\ k \in 0..BufferSize-1
    BY <1>5, <1>6 DEF InUse, Slots
  <2>2. k < n
    BY <1>2, <1>6, <2>1
  <2> QED
    BY <1>2, <1>5, <1>6, <2>1, <2>2 DEF InUse
<1>7. slots'[t][o] = e
  BY <1>2, <1>5
<1> HIDE DEF o, n
<1>8. ASSUME NEW b \in Threads, NEW k \in InUse(b)'
      PROVE  SampleOf(slots'[b][k]) \in ToSet(sampled[b]) /\ slots'[b][k].time < now'
  <2>1. CASE b # t
    <3>1. k \in InUse(b) /\ slots'[b][k] = slots[b][k]
      BY <1>4, <1>8, <2>1 DEF InUse
    <3> QED
      BY <1>2, <1>3, <3>1 DEF Ages
  <2>2. CASE b = t /\ k = o
    <3>1. slots'[b][k] = e /\ SampleOf(e) \in ToSet(sampled[b])
      BY <1>1, <1>7, <2>2
    <3>2. e.time < now'
      BY <1>1, <1>2
    <3> QED
      BY <3>1, <3>2
  <2>3. CASE b = t /\ k # o
    <3>1. k \in InUse(t) /\ slots'[t][k] = slots[t][k]
      BY <1>6, <1>8, <2>3
    <3>2. SampleOf(slots[t][k]) \in ToSet(sampled[t])
      BY <3>1 DEF Ages
    <3>3. slots[t][k].time < now'
      BY <1>2, <1>3, <3>1
    <3> QED
      BY <2>3, <3>1, <3>2, <3>3
  <2> QED
    BY <2>1, <2>2, <2>3
<1>9. ASSUME NEW b \in Threads, NEW k \in InUse(b)', NEW l \in InUse(b)',
             Older(access_count'[b] % BufferSize, k, l)
      PROVE  slots'[b][k].time < slots'[b][l].time
  <2>1. CASE b # t
    <3>1. /\ k \in InUse(b) /\ l \in InUse(b)
          /\ slots'[b] = slots[b] /\ access_count'[b] = access_count[b]
      BY <1>4, <1>9, <2>1 DEF InUse
    <3> QED
      BY <1>9, <3>1 DEF Ages
  <2>2. CASE b = t
    <3>1. Older((n + 1) % BufferSize, k, l)
      BY <1>5, <1>9, <2>2
    <3>2. k # o /\ (l = o \/ Older(o, k, l))
      BY <1>2, <1>9, <3>1, OlderNext DEF InUse, o
    <3>3. k \in InUse(t) /\ slots'[t][k] = slots[t][k]
      BY <1>6, <1>9, <2>2, <3>2
    <3>4. CASE l = o
      BY <1>1, <1>3, <1>7, <2>2, <3>3, <3>4
    <3>5. CASE l # o
      <4>1. l \in InUse(t) /\ slots'[t][l] = slots[t][l] /\ Older(o, k, l)
        BY <1>6, <1>9, <2>2, <3>2, <3>5
      <4> QED
        BY <2>2, <3>3, <4>1 DEF Ages, o, n
    <3> QED
      BY <3>4, <3>5
  <2> QED
    BY <2>1, <2>2
<1> QED
  BY <1>2, <1>8, <1>9 DEF Ages, SampleOf

\* What the kernel does is not in a buffer yet.
LEMMA AgesOn == ASSUME LInv, Ages, NEW t \in Threads, Take(t) PROVE Ages'
<1>1. UNCHANGED <<slots, access_count, now>>
  BY DEF Take
<1> QED
  BY <1>1, SampledOn DEF Ages, InUse, SampleOf

\* In a buffer that is read and stable an append changes nothing that was in use.
LEMMA StableKept ==
  ASSUME LInv, Blocks, phase # "running", NEW t \in Threads, Store(t), NEW b \in Threads, Stable(b)'
  PROVE  /\ Stable(b)
         /\ \A k \in InUse(b) : k \in InUse(b)' /\ slots'[b][k] = slots[b][k]
         /\ b = Main => access_count'[b] = access_count[b] /\ slots'[b] = slots[b]
<1> USE DEF LInv, TInv
<1>1. PICK e \in Event :
        /\ slots' = [slots EXCEPT ![t][access_count[t] % BufferSize] = e]
        /\ access_count' = [access_count EXCEPT ![t] = access_count[t] + 1]
  BY StoreInto
<1>2. /\ slots \in [Threads -> [Slots -> Event \cup {NoEvent}]]
      /\ access_count \in [Threads -> Nat]
  BY DEF TypeOK
<1>5. t # Main
  BY StoreAt DEF Blocks
<1>6. CASE b = Main
  <2>1. access_count'[b] = access_count[b] /\ slots'[b] = slots[b]
    BY <1>1, <1>2, <1>5, <1>6
  <2> QED
    BY <1>6, <2>1 DEF Stable, InUse
<1>7. CASE b # Main
  <2>1. Small(b)'
    BY <1>7 DEF Stable
  <2>2. /\ Small(b)
        /\ \A k \in Slots : k < access_count[b] => k < access_count'[b] /\ slots'[b][k] = slots[b][k]
    BY <2>1, StoreKeeps
  <2> QED
    BY <1>7, <2>2 DEF Stable, InUse
<1> QED
  BY <1>6, <1>7

\* There are as many entries as series, and a buffer for each.
LEMMA SeriesBuffer ==
  ASSUME LInv, NEW n \in 1..Len(series)
  PROVE  /\ Buffer(n) \in Threads /\ series[n] \in Seq(Event) /\ Len(series[n]) \in Nat
         /\ series # <<>> /\ phase # "running"
         /\ Reading(n) => it.buffer = Buffer(n) /\ it.slot \in InUse(it.buffer) /\ Here \in Event
<1> USE DEF LInv, TInv
<1>1. /\ series \in Seq(Seq(Event)) /\ Len(series) \in Nat /\ Len(all_events_) \in Nat
      /\ Len(series) <= Len(all_events_)
  BY DEF TypeOK
<1>2. Buffer(n) \in Threads
  BY <1>1, EntryBuffer
<1>3. series[n] \in Seq(Event) /\ Len(series[n]) \in Nat /\ series # <<>> /\ phase # "running"
  BY <1>1 DEF Phases
<1>4. Reading(n) => it.buffer = Buffer(n) /\ it.slot \in InUse(it.buffer) /\ Here \in Event
  BY HereIsEvent DEF Reading, Read, Inside, InUse, TypeOK
<1> QED
  BY <1>2, <1>3, <1>4

\* A sample taken while the series are read is not among them yet.
LEMMA ServedTake ==
  ASSUME LInv, Served, NEW t \in Threads, Take(t)
  PROVE  Served'
<1>1. UNCHANGED <<slots, access_count, thread_event_buffers_, all_events_, results, phase, series, it>>
  BY DEF Take, pluginVars, endVars
<1> SUFFICES ASSUME NEW n \in 1..Len(series)
             PROVE  /\ Stable(Buffer(n))' => InOrder(n)'
                    /\ Buffer(n)' = Main /\ Small(Main)' /\ n \in Returned' => Complete(n)'
  BY <1>1 DEF Served
<1>2. PICK b \in Threads : b = Buffer(n) /\ b = Buffer(n)'
  BY <1>1, SeriesBuffer DEF Buffer
<1>3. /\ Type(n)' = Type(n) /\ (Reading(n)' <=> Reading(n)) /\ Returned' = Returned /\ Here' = Here
      /\ (Stable(b)' <=> Stable(b)) /\ (Small(Main)' <=> Small(Main)) /\ InUse(b)' = InUse(b)
  BY <1>1 DEF Type, Reading, Returned, Here, Stable, Small, InUse
<1>4. InOrder(n) => InOrder(n)'
  BY <1>1, <1>2, <1>3, SampledOn DEF InOrder, SampleOf
<1>5. Complete(n) => Complete(n)'
  BY <1>1, <1>2, <1>3 DEF Complete, InUse
<1> QED
  BY <1>2, <1>3, <1>4, <1>5 DEF Served, Stable, Small

\* An event stored while the series are read disturbs none that is stable.
LEMMA ServedStore ==
  ASSUME LInv, Blocks, Served, NEW t \in Threads, Store(t)
  PROVE  Served'
<1>1. UNCHANGED <<thread_event_buffers_, all_events_, results, phase, series, it, sampled>>
  BY DEF Store, pluginVars, endVars
<1> SUFFICES ASSUME NEW n \in 1..Len(series)
             PROVE  /\ Stable(Buffer(n))' => InOrder(n)'
                    /\ Buffer(n)' = Main /\ Small(Main)' /\ n \in Returned' => Complete(n)'
  BY <1>1 DEF Served
<1>2. PICK b \in Threads : b = Buffer(n) /\ b = Buffer(n)' /\ phase # "running"
  BY <1>1, SeriesBuffer DEF Buffer
<1>3. /\ series'[n] = series[n] /\ series[n] \in Seq(Event)
      /\ Type(n)' = Type(n) /\ (Reading(n)' <=> Reading(n)) /\ Returned' = Returned
      /\ it' = it /\ (Reading(n) => it.buffer = b /\ it.slot \in InUse(b))
  BY <1>1, <1>2, SeriesBuffer DEF Type, Reading, Returned
<1>4. ASSUME Stable(b)' PROVE InOrder(n)'
  <2>1. /\ InOrder(n)
        /\ \A k \in InUse(b) : slots'[b][k] = slots[b][k]
    BY <1>2, <1>4, StableKept DEF Served
  <2>2. Reading(n) => Here' = Here
    BY <1>3, <2>1 DEF Here
  <2> QED
    BY <1>1, <1>2, <1>3, <2>1, <2>2 DEF InOrder, SampleOf
<1>5. ASSUME b = Main, Small(Main)', n \in Returned PROVE Complete(n)'
  <2>1. /\ Small(b)' /\ Stable(b)'
    BY <1>5 DEF Small, Stable
  <2>2. access_count'[b] = access_count[b] /\ slots'[b] = slots[b]
    BY <1>2, <1>5, <2>1, StableKept
  <2>3. Complete(n) /\ InUse(b)' = InUse(b)
    BY <1>2, <1>5, <2>2 DEF Served, InUse, Small
  <2> QED
    BY <1>2, <1>3, <2>2, <2>3 DEF Complete, InUse
<1> QED
  BY <1>2, <1>3, <1>4, <1>5 DEF Stable, Small

-----------------------------------------------------------------------------
(* Reading.                                                                *)

\* What was served stays so while nothing is read ...
LEMMA ServedAtRest ==
  ASSUME Served,
         UNCHANGED <<bufferVars, series, all_events_, thread_event_buffers_, results>>,
         \A n : ~Reading(n) /\ ~Reading(n)'
  PROVE  Served'
<1> USE DEF bufferVars, ringVars, SampleOf
<1>1. \A n : Buffer(n)' = Buffer(n) /\ Type(n)' = Type(n)
  BY DEF Buffer, Type
<1>2. \A b : Stable(b)' = Stable(b) /\ Small(b)' = Small(b) /\ InUse(b)' = InUse(b)
  BY DEF Stable, Small, InUse
<1>3. \A n : InOrder(n) => InOrder(n)'
  BY <1>1 DEF InOrder
<1>4. \A n : Complete(n) => Complete(n)'
  BY <1>1, <1>2 DEF Complete, InUse
<1> QED
  BY <1>1, <1>2, <1>3, <1>4 DEF Served, Returned, Stable, Small

\* ... and while something else happens.
LEMMA ServedOn ==
  ASSUME Served, UNCHANGED <<bufferVars, endVars, all_events_, thread_event_buffers_, results>>
  PROVE  Served'
<1> USE DEF bufferVars, ringVars, endVars, SampleOf
<1>1. \A n : Buffer(n)' = Buffer(n) /\ Type(n)' = Type(n) /\ Reading(n)' = Reading(n)
  BY DEF Buffer, Type, Reading
<1>2. \A b : Stable(b)' = Stable(b) /\ Small(b)' = Small(b) /\ InUse(b)' = InUse(b)
  BY DEF Stable, Small, InUse
<1>3. \A n : InOrder(n) => InOrder(n)'
  BY <1>1 DEF InOrder, Here
<1>4. \A n : Complete(n) => Complete(n)'
  BY <1>1, <1>2 DEF Complete, InUse
<1> QED
  BY <1>1, <1>2, <1>3, <1>4 DEF Served, Returned, Stable, Small

\* A series that is not being read stays as it was served.
LEMMA ServedOthers ==
  ASSUME Served, UNCHANGED <<bufferVars, all_events_, thread_event_buffers_, results>>,
         NEW n \in 1..Len(series), series'[n] = series[n], ~Reading(n), ~Reading(n)'
  PROVE  /\ Stable(Buffer(n))' => InOrder(n)'
         /\ Buffer(n)' = Main /\ Small(Main)' /\ n \in Returned' => Complete(n)'
<1> USE DEF bufferVars, ringVars, SampleOf
<1>1. Buffer(n)' = Buffer(n) /\ Type(n)' = Type(n) /\ Returned' = Returned
  BY DEF Buffer, Type, Returned
<1>2. Stable(Buffer(n))' = Stable(Buffer(n)) /\ Small(Main)' = Small(Main)
  BY <1>1 DEF Stable, Small
<1>3. InOrder(n) => InOrder(n)'
  BY <1>1 DEF InOrder
<1>4. Complete(n) => Complete(n)'
  BY <1>1 DEF Complete, InUse
<1> QED
  BY <1>1, <1>2, <1>3, <1>4 DEF Served

\* A new series is empty, and its iteration at the start.
LEMMA ServedGetAllValues ==
  ASSUME LInv, Served, GetAllValues
  PROVE  Served'
<1> USE DEF LInv, TInv
<1>0. PICK l \in Nat : l = Len(series) + 1
  BY DEF TypeOK
<1>1. /\ phase = "stopped" /\ phase' = phase /\ it = NoLoop
      /\ UNCHANGED <<bufferVars, all_events_, thread_event_buffers_, results>>
      /\ series' = Append(series, <<>>)
      /\ it' = IF \E r \in results : r.id = Len(series) THEN Begin(Buffer(l)) ELSE NoLoop
  BY <1>0 DEF GetAllValues, others, pluginVars, Buffer
<1>2. /\ Len(series) \in Nat /\ l \in 1..Len(all_events_)
      /\ Len(series') = l /\ series'[l] = <<>> /\ \A n \in 1..Len(series) : series'[n] = series[n]
  <2>1. /\ series \in Seq(Seq(Event)) /\ Len(series) \in Nat /\ Len(all_events_) \in Nat
        /\ Len(series) < Len(all_events_)
    BY DEF GetAllValues, TypeOK
  <2> QED
    BY <1>0, <1>1, <2>1
<1>3. PICK b \in Threads : b = Buffer(l) /\ b = Buffer(l)'
  BY <1>1, <1>2, EntryBuffer DEF Buffer
<1> SUFFICES ASSUME NEW n \in 1..l
             PROVE  /\ Stable(Buffer(n))' => InOrder(n)'
                    /\ Buffer(n)' = Main /\ Small(Main)' /\ n \in Returned' => Complete(n)'
  BY <1>2 DEF Served
<1>4. CASE n # l
  <2>1. n \in 1..Len(series) /\ n # Len(series') /\ series'[n] = series[n]
    BY <1>0, <1>2, <1>4
  <2>2. ~Reading(n) /\ ~Reading(n)'
    BY <1>1, <2>1 DEF Reading
  <2> QED
    BY <1>1, <2>1, <2>2, ServedOthers
<1>5. CASE n = l
  <2>1. it'.matched = FALSE
    BY <1>1, <1>3, BeginInside DEF NoLoop, At
  <2>2. InOrder(n)'
    BY <1>2, <1>5, <2>1 DEF InOrder
  <2>3. ASSUME b = Main, Small(Main)', n \in Returned' PROVE Complete(n)'
    <3>1. Small(b) /\ access_count' = access_count /\ slots' = slots
      BY <1>1, <2>3 DEF Small, bufferVars
    <3>2. it' = Begin(b)
      <4>1. \E r \in results : r.id = Len(series)
        BY <1>0, <1>1, <1>2, <1>5, <2>3 DEF Returned, IdInv, Results
      <4> QED
        BY <1>1, <1>3, <4>1
    <3>3. CASE access_count[b] = 0
      <4>1. \A k \in Slots : ~(k < access_count'[b])
        BY <3>1, <3>3, BufferSizeAssumption DEF Slots
      <4> QED
        BY <1>3, <1>5, <4>1 DEF Complete, InUse
    <3>4. CASE access_count[b] # 0
      <4>1. it' = At(b, 0, FALSE) /\ it' # NoLoop
        BY <3>1, <3>2, <3>4, BeginSmall, NoBufferAssumption DEF At, NoLoop
      <4>2. Reading(n)' /\ \A k \in Slots : ~(k < it'.slot)
        BY <1>1, <1>2, <1>5, <4>1, BufferSizeAssumption DEF Reading, At, Slots
      <4> QED
        BY <4>2 DEF Complete, InUse
    <3> QED
      BY <3>3, <3>4
  <2> QED
    BY <1>3, <1>5, <2>2, <2>3
<1> QED
  BY <1>4, <1>5

\* Times are numbers.
LEMMA EventTime == \A e \in Event : e.time \in Nat
  BY DEF Event

\* The next event of an iteration is later, ...
LEMMA Ahead ==
  ASSUME TInv, Ages, it # NoLoop, it' = Advanced, it' # NoLoop, UNCHANGED slots
  PROVE  Here.time < Here'.time /\ ~it'.matched /\ Here' \in Event
<1>1. PICK k \in InUse(it.buffer) : /\ Advanced = At(it.buffer, k, FALSE)
                                    /\ Older(access_count[it.buffer] % BufferSize, it.slot, k)
  BY AdvancedOlder
<1>2. it.buffer \in Threads /\ it.slot \in InUse(it.buffer)
  BY AdvancedOlder
<1>3. slots[it.buffer][it.slot].time < slots[it.buffer][k].time
  BY <1>1, <1>2 DEF Ages
<1>4. it'.buffer = it.buffer /\ it'.slot = k /\ it'.matched = FALSE
  BY <1>1 DEF At
<1>5. slots[it.buffer][k] \in Event
  BY <1>2 DEF TInv, Filled, InUse
<1> QED
  BY <1>3, <1>4, <1>5 DEF Here

\* ... and no event between the two is left out.
LEMMA Behind ==
  ASSUME LInv, it # NoLoop, it' = Advanced, Small(it.buffer),
         NEW k \in InUse(it.buffer), it' # NoLoop => k < it'.slot
  PROVE  k < it.slot \/ k = it.slot
<1> DEFINE b == it.buffer
<1>1. /\ b \in Threads /\ it.slot \in Slots /\ it.slot < access_count[b]
      /\ IF it.slot + 1 = access_count[b] THEN Advanced = NoLoop
         ELSE Advanced = At(b, it.slot + 1, FALSE)
  BY AdvancedSmall
<1>2. /\ k \in Nat /\ it.slot \in Nat /\ access_count[b] \in Nat /\ k < access_count[b]
  BY <1>1, BufferSizeAssumption DEF InUse, Slots, LInv, TInv, TypeOK
<1>3. CASE it.slot + 1 = access_count[b]
  BY <1>2, <1>3
<1>4. CASE it.slot + 1 # access_count[b]
  <2>1. it' = At(b, it.slot + 1, FALSE)
    BY <1>1, <1>4
  <2>2. it'.slot = it.slot + 1 /\ it'.buffer = b
    BY <2>1 DEF At
  <2>3. it' # NoLoop
    BY <1>1, <2>2, NoBufferAssumption DEF NoLoop, At
  <2> QED
    BY <1>2, <2>2, <2>3
<1> QED
  BY <1>3, <1>4

\* What the iteration does to the series being read; the others are not concerned.
LEMMA ServedLast ==
  ASSUME LInv, Served, phase = "stopped", it # NoLoop, phase' = phase,
         UNCHANGED <<bufferVars, all_events_, thread_event_buffers_, results>>,
         NEW l \in 1..Len(series), l = Len(series), Len(series') = l,
         \A n \in 1..l : n # l => series'[n] = series[n],
         Stable(it.buffer) => InOrder(l)',
         it.buffer = Main /\ Small(Main) /\ Complete(l) => Complete(l)'
  PROVE  Served'
<1> SUFFICES ASSUME NEW n \in 1..l
             PROVE  /\ Stable(Buffer(n))' => InOrder(n)'
                    /\ Buffer(n)' = Main /\ Small(Main)' /\ n \in Returned' => Complete(n)'
  BY DEF Served
<1>1. CASE n # l
  <2>1. ~Reading(n) /\ ~Reading(n)'
    BY <1>1 DEF Reading
  <2> QED
    BY <1>1, <2>1, ServedOthers
<1>2. CASE n = l
  <2>1. it.buffer = Buffer(n) /\ Buffer(n)' = Buffer(n) /\ Returned' = Returned
    BY <1>2 DEF LInv, Read, Buffer, Returned
  <2>2. Stable(Buffer(n))' = Stable(Buffer(n)) /\ Small(Main)' = Small(Main)
    BY <2>1 DEF Stable, Small, bufferVars
  <2> QED
    BY <1>2, <2>1, <2>2 DEF Served
<1> QED
  BY <1>1, <1>2

\* An event that matches waits to be written, any other is passed.
LEMMA ServedTestType ==
  ASSUME LInv, Ages, Served, TestType
  PROVE  Served'
<1>1. /\ phase = "stopped" /\ phase' = phase /\ it # NoLoop /\ series' = series
      /\ UNCHANGED <<bufferVars, all_events_, thread_event_buffers_, results>>
  BY DEF TestType, others, pluginVars
<1>2. PICK l \in 1..Len(series) : l = Len(series)
  BY <1>1 DEF LInv, TInv, Inside, TypeOK
<1>3. Reading(l)
  BY <1>1, <1>2 DEF Reading
<1>4. /\ it.buffer = Buffer(l) /\ Buffer(l)' = Buffer(l) /\ Type(l)' = Type(l)
      /\ it.slot \in InUse(it.buffer) /\ Here \in Event /\ series[l] \in Seq(Event)
  BY <1>1, <1>3, SeriesBuffer DEF Buffer, Type
<1>5. CASE AccessType(Here.metric) = Type(l)
  <2>1. it' = At(it.buffer, it.slot, TRUE)
    BY <1>2, <1>5 DEF TestType, Type
  <2>2. it'.buffer = it.buffer /\ it'.slot = it.slot /\ Here' = Here
    BY <1>1, <2>1 DEF At, Here, bufferVars
  <2>3. ASSUME Stable(it.buffer) PROVE InOrder(l)'
    <3>1. InOrder(l)
      BY <1>2, <1>4, <2>3 DEF Served
    <3> QED
      BY <1>1, <1>3, <1>4, <1>5, <2>2, <3>1 DEF InOrder, SampleOf, bufferVars, ringVars
  <2>4. ASSUME it.buffer = Main, Complete(l) PROVE Complete(l)'
    <3>1. Reading(l)'
      BY <1>1, <1>2, <2>1, <1>4, <2>4, MainAssumption, NoBufferAssumption DEF Reading, At, NoLoop
    <3> QED
      BY <1>1, <1>3, <1>4, <2>2, <2>4, <3>1 DEF Complete, InUse, bufferVars
  <2> QED
    BY <1>1, <1>2, <2>3, <2>4, ServedLast
<1>6. CASE AccessType(Here.metric) # Type(l)
  <2>1. it' = Advanced
    BY <1>2, <1>6 DEF TestType, Type
  <2>2. ASSUME Stable(it.buffer) PROVE InOrder(l)'
    <3>1. InOrder(l)
      BY <1>2, <1>4, <2>2 DEF Served
    <3>2. ASSUME it' # NoLoop PROVE Here.time < Here'.time /\ ~it'.matched /\ Here' \in Event
      BY <1>1, <2>1, <3>2, Ahead DEF LInv, bufferVars
    <3>3. \A i \in 1..Len(series[l]) : series[l][i].time \in Nat /\ series[l][i].time < Here.time
      BY <1>3, <1>4, <3>1, EventTime DEF InOrder
    <3>4. ASSUME it' # NoLoop, NEW i \in 1..Len(series[l]) PROVE series[l][i].time < Here'.time
      BY <1>4, <3>2, <3>3, <3>4, EventTime
    <3> QED
      BY <1>1, <1>4, <3>1, <3>2, <3>4 DEF InOrder, Reading, SampleOf, bufferVars, ringVars
  <2>3. ASSUME it.buffer = Main, Small(Main), Complete(l) PROVE Complete(l)'
    <3>1. ASSUME NEW k \in InUse(Buffer(l)), Reading(l)' => k < it'.slot,
                 AccessType(slots[Buffer(l)][k].metric) = Type(l)
          PROVE  slots[Buffer(l)][k] \in ToSet(series[l])
      <4>1. k < it.slot \/ k = it.slot
        BY <1>1, <1>2, <1>4, <2>1, <2>3, <3>1, Behind DEF Reading
      <4>2. k # it.slot
        BY <1>4, <1>6, <3>1 DEF Here
      <4> QED
        BY <2>3, <3>1, <4>1, <4>2 DEF Complete
    <3> QED
      BY <1>1, <1>4, <3>1 DEF Complete, InUse, bufferVars
  <2> QED
    BY <1>1, <1>2, <2>2, <2>3, ServedLast
<1> QED
  BY <1>5, <1>6

\* An event is written behind those that are older.
LEMMA ServedWriteValue ==
  ASSUME LInv, Ages, Served, WriteValue
  PROVE  Served'
<1>1. /\ phase = "stopped" /\ phase' = phase /\ it # NoLoop /\ it.matched /\ it' = Advanced
      /\ UNCHANGED <<bufferVars, all_events_, thread_event_buffers_, results>>
  BY DEF WriteValue, others, pluginVars, NoLoop, At
<1>2. PICK l \in 1..Len(series) : l = Len(series)
  BY <1>1 DEF LInv, TInv, Inside, TypeOK
<1>3. Reading(l)
  BY <1>1, <1>2 DEF Reading
<1>4. /\ it.buffer = Buffer(l) /\ it.buffer \in Threads
      /\ Buffer(l)' = Buffer(l) /\ Type(l)' = Type(l)
      /\ it.slot \in InUse(it.buffer) /\ Here \in Event /\ series[l] \in Seq(Event)
  BY <1>1, <1>3, SeriesBuffer DEF Buffer, Type
<1> DEFINE s == series[l]
           e == Here
<1>5. series' = [series EXCEPT ![l] = Append(s, e)]
  BY <1>2 DEF WriteValue
<1>6. /\ series'[l] = Append(s, e) /\ Len(series') = l
      /\ \A n \in 1..l : n # l => series'[n] = series[n]
  <2>1. series \in Seq(Seq(Event)) /\ Append(s, e) \in Seq(Event)
    BY <1>4 DEF LInv, TInv, TypeOK
  <2> HIDE DEF s, e
  <2> QED
    BY <1>2, <1>5, <2>1
<1>7. /\ Len(Append(s, e)) = Len(s) + 1 /\ Len(s) \in Nat
      /\ \A i \in 1..Len(s)+1 : \/ i \in 1..Len(s) /\ Append(s, e)[i] = s[i]
                                \/ i = Len(s) + 1 /\ Append(s, e)[i] = e
  <2> HIDE DEF s, e
  <2>1. s \in Seq(Event) /\ e \in Event
    BY <1>4 DEF s, e
  <2> QED
    BY <2>1
<1>8. ASSUME Stable(it.buffer) PROVE InOrder(l)'
  <2>1. InOrder(l)
    BY <1>2, <1>4, <1>8 DEF Served
  <2>2. \A i \in 1..Len(s) : s[i].time < e.time /\ s[i] \in Event
    BY <1>3, <1>4, <2>1 DEF InOrder
  <2>3. SampleOf(e) \in ToSet(sampled[Buffer(l)]) /\ AccessType(e.metric) = Type(l)
    BY <1>1, <1>3, <1>4, <2>1 DEF InOrder, Ages, Here
  <2>4. ASSUME it' # NoLoop PROVE e.time < Here'.time /\ ~it'.matched /\ Here' \in Event
    BY <1>1, <2>4, Ahead DEF LInv, bufferVars
  <2>5. /\ \A i \in 1..Len(s) : /\ SampleOf(s[i]) \in ToSet(sampled[Buffer(l)])
                                /\ AccessType(s[i].metric) = Type(l)
        /\ \A i \in 1..Len(s) : \A j \in 1..i-1 : s[j].time < s[i].time
    BY <2>1 DEF InOrder
  <2>6. e \in Event
    BY <1>4
  <2> HIDE DEF s, e
  <2> DEFINE a == Append(s, e)
  <2>7. ASSUME NEW i \in 1..Len(s)+1
        PROVE  /\ AccessType(a[i].metric) = Type(l) /\ SampleOf(a[i]) \in ToSet(sampled[Buffer(l)])
               /\ \A j \in 1..i-1 : a[j].time < a[i].time
               /\ it' # NoLoop => a[i].time < Here'.time
    <3>1. CASE i \in 1..Len(s) /\ a[i] = s[i]
      <4>1. \A j \in 1..i-1 : j \in 1..Len(s) /\ a[j] = s[j]
        BY <1>7, <3>1
      <4>2. it' # NoLoop => s[i].time < Here'.time
        BY <2>2, <2>4, <2>6, <3>1, EventTime
      <4> QED
        BY <2>5, <3>1, <4>1, <4>2
    <3>2. CASE i = Len(s) + 1 /\ a[i] = e
      <4>1. \A j \in 1..i-1 : j \in 1..Len(s) /\ a[j] = s[j]
        BY <1>7, <3>2
      <4> QED
        BY <2>2, <2>3, <2>4, <3>2, <4>1
    <3> QED
      BY <1>7, <2>7, <3>1, <3>2
  <2>8. Len(a) = Len(s) + 1 /\ series'[l] = a
    BY <1>6, <1>7
  <2> HIDE DEF a
  <2> QED
    BY <1>1, <1>4, <2>4, <2>7, <2>8 DEF InOrder, Reading, SampleOf, bufferVars, ringVars
<1>9. ASSUME it.buffer = Main, Small(Main), Complete(l) PROVE Complete(l)'
  <2>1. ToSet(series'[l]) = ToSet(series[l]) \cup {Here}
    BY <1>4, <1>6, AppendSet
  <2>2. ASSUME NEW k \in InUse(Buffer(l)), Reading(l)' => k < it'.slot,
               AccessType(slots[Buffer(l)][k].metric) = Type(l)
        PROVE  slots[Buffer(l)][k] \in ToSet(series'[l])
    <3>1. k < it.slot \/ k = it.slot
      BY <1>1, <1>2, <1>4, <1>6, <1>9, <2>2, Behind DEF Reading
    <3>2. CASE k = it.slot
      BY <1>4, <2>1, <3>2 DEF Here
    <3>3. CASE k < it.slot
      BY <1>9, <2>1, <2>2, <3>3 DEF Complete
    <3> QED
      BY <3>1, <3>2, <3>3
  <2> QED
    BY <1>1, <1>4, <2>2 DEF Complete, InUse, bufferVars
<1> QED
  BY <1>1, <1>2, <1>6, <1>8, <1>9, ServedLast

-----------------------------------------------------------------------------
\* Every step keeps the order and what is complete, if no id is used twice.
LEMMA OStep == ASSUME Reuse = FALSE, OInv, [Next]_vars PROVE OInv'
<1>1. LInv' /\ Blocks'
  BY LStep, BlocksStep DEF OInv
<1>2. ASSUME UNCHANGED bufferVars PROVE Ages'
  BY <1>2 DEF OInv, Ages, InUse, SampleOf, bufferVars, ringVars
<1>3. CASE Stop \/ Destroy \/ Writing
  <2>1. /\ UNCHANGED <<bufferVars, series, all_events_, thread_event_buffers_, results>>
        /\ it = NoLoop \/ phase # "stopped"
        /\ it' = NoLoop \/ phase' # "stopped"
    BY <1>3 DEF Stop, Destroy, Writing, Terminate, Join, BeginCopy, CopyEvent, WriteEventBuffer, others,
                pluginVars, OInv, LInv, TInv, Phases
  <2>2. Served'
    BY <2>1, ServedAtRest DEF OInv, Reading
  <2> QED
    BY <1>1, <1>2, <2>1, <2>2 DEF OInv
<1>4. CASE GetAllValues \/ TestType \/ WriteValue
  <2>1. UNCHANGED bufferVars
    BY <1>4 DEF GetAllValues, TestType, WriteValue, others
  <2> QED
    BY <1>1, <1>2, <1>4, <2>1, ServedGetAllValues, ServedTestType, ServedWriteValue DEF OInv
<1>5. ASSUME NEW t \in Threads, Thread(t) PROVE OInv'
  <2>1. CASE Take(t) \/ Store(t)
    BY <1>1, <2>1, AgesOn, AgesStep, ServedTake, ServedStore DEF OInv
  <2>2. CASE Adding(t)
    <3>1. UNCHANGED <<bufferVars, series>> /\ series = <<>>
      BY <2>2, AddingRuns DEF OInv, LInv, Adding, Lock, FindBuffer, MakeBuffer, AllocFails, PushFails,
         TakeId, PushEvent, Unlock, EnableMetric, EventOpenFails, outside, endVars
    <3>2. Served'
      BY <3>1 DEF Served
    <3> QED
      BY <1>1, <1>2, <3>1, <3>2 DEF OInv
  <2>3. CASE Start(t) \/ Exit(t) \/ AddMetric(t)
    <3>1. UNCHANGED <<bufferVars, endVars, all_events_, thread_event_buffers_, results>>
      BY <2>3 DEF Start, Exit, AddMetric, pluginVars
    <3> QED
      BY <1>1, <1>2, <3>1, ServedOn DEF OInv
  <2> QED
    BY <1>5, <2>1, <2>2, <2>3 DEF Thread
<1>6. CASE UNCHANGED vars
  <2>1. UNCHANGED <<bufferVars, endVars, all_events_, thread_event_buffers_, results>>
    BY <1>6 DEF vars, pluginVars
  <2> QED
    BY <1>1, <1>2, <2>1, ServedOn DEF OInv
<1> QED
  BY <1>3, <1>4, <1>5, <1>6 DEF Next, Finalising

LEMMA OAlways == ASSUME Reuse = FALSE PROVE Spec => []OInv
<1>1. Init => OInv
  BY InitOInv
<1>2. OInv /\ [Next]_vars => OInv'
  BY OStep
<1> QED
  BY <1>1, <1>2, PTL DEF Spec

\* The buffer, the type and the place of the series of an id that add_metric returned.
LEMMA ResultSeries ==
  ASSUME OInv, NEW r \in results, Asked(r)
  PROVE  /\ r.id + 1 \in 1..Len(series) /\ r.id \in Nat /\ Len(series) \in Nat
         /\ r.thread \in Threads /\ Buffer(r.id + 1) = r.thread /\ BufferOf(r) = r.thread
         /\ Type(r.id + 1) = AccessType(r.metric)
<1> USE DEF OInv, LInv, TInv
<1>1. r.id \in Nat /\ all_events_[r.id + 1] = [tid |-> r.tid, metric |-> r.metric]
  BY DEF IdInv, Results, IdsAgree
<1>2. r.id + 1 \in 1..Len(series) /\ Len(series) \in Nat
  <2>1. series \in Seq(Seq(Event)) /\ r.id < Len(series)
    BY DEF TypeOK, Asked
  <2> QED
    BY <1>1, <2>1
<1>3. r.thread \in Threads /\ thread_event_buffers_[r.tid] = r.thread
  BY DEF Sinks
<1> QED
  BY <1>1, <1>2, <1>3 DEF Buffer, BufferOf, Type

\* A series holds samples of its thread and its type in the order they were read
\* (PerThreadSeries), for every size of the buffer and also while other threads go on
\* sampling: in the buffer of the thread that was stopped wherever the oldest event
\* lies, in another's as long as nothing in it was overwritten, and as long as no
\* thread gets the id of one that ended.
THEOREM SeriesInOrder == ASSUME Reuse = FALSE PROVE Spec => []PerThreadSeries
<1>1. OInv => PerThreadSeries
  <2> SUFFICES ASSUME OInv, NEW r \in results, Asked(r), blocked[r.thread] \/ Fits(r),
                      NEW i \in 1..Len(SeriesOf(r))
               PROVE  /\ AccessType(SeriesOf(r)[i].metric) = AccessType(r.metric)
                      /\ SampleOf(SeriesOf(r)[i]) \in ToSet(sampled[r.thread])
                      /\ \A j \in 1..i-1 : SeriesOf(r)[j].time < SeriesOf(r)[i].time
    BY DEF PerThreadSeries
  <2>1. Stable(r.thread)
    BY ResultSeries DEF OInv, Blocks, Stable, Small, Fits
  <2>2. InOrder(r.id + 1)
    BY <2>1, ResultSeries DEF OInv, Served
  <2> QED
    BY <2>2, ResultSeries DEF InOrder, SeriesOf
<1> QED
  BY <1>1, OAlways, PTL

\* The series of the thread that stopped the measurement lack no sample but those
\* that stop() left in the rings (SeriesComplete), unless its buffer overflowed: the
\* iteration of get_all_values neither stops short nor skips a slot, for every number
\* of samples a buffer has.
THEOREM NothingSkipped == ASSUME Reuse = FALSE PROVE Spec => []SeriesComplete
<1>1. OInv => SeriesComplete
  <2> SUFFICES ASSUME OInv, NEW r \in results, Asked(r), it = NoLoop \/ r.id + 1 < Len(series),
                      blocked[r.thread], Fits(r), NEW s \in ToSet(sampled[r.thread]),
                      AccessType(s.metric) = AccessType(r.metric), ~Waits(r.thread, s)
               PROVE  \E e \in ToSet(SeriesOf(r)) : SampleOf(e) = s
    BY DEF SeriesComplete
  <2>1. r.thread = Main /\ Small(Main) /\ Buffer(r.id + 1) = Main /\ r.id + 1 \in Returned
    BY ResultSeries DEF OInv, Blocks, Small, Fits, Returned
  <2>2. Complete(r.id + 1) /\ ~Reading(r.id + 1)
    BY <2>1, ResultSeries DEF OInv, Served, Reading
  <2>3. PICK k \in InUse(Main) : SampleOf(slots[Main][k]) = s
    BY <2>1, MainAssumption DEF OInv, LInv, Kept, HoldsSample, InUse
  <2>4. slots[Main][k].metric = s.metric
    BY <2>3 DEF SampleOf
  <2> QED
    BY <2>1, <2>2, <2>3, <2>4, ResultSeries DEF Complete, SeriesOf
<1> QED
  BY <1>1, OAlways, PTL
=============================================================================
