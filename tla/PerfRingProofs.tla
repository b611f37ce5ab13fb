--------------------------- MODULE PerfRingProofs ---------------------------
(***************************************************************************)
(* Proofs about PerfRing: its inductive invariant, and that it implements  *)
(* RecordFifo, for every ring size, every set of record sizes that fit the *)
(* ring and every bound.                                                   *)
(***************************************************************************)
EXTENDS PerfRing, TLAPS

USE NAssumption, SizesAssumption, BoundAssumption

\* Positions less than N words apart lie in different slots of the ring.
LEMMA DistinctSlots ==
  ASSUME NEW a \in Nat, NEW b \in Nat, a <= b, b < a + N, a % N = b % N
  PROVE  a = b
<1> DEFINE qa == a \div N
           qb == b \div N
<1>1. qa \in Int /\ qb \in Int /\ a = (N * qa) + (a % N) /\ b = (N * qb) + (b % N)
  OBVIOUS
<1> HIDE DEF qa, qb
<1>2. b - a = N * (qb - qa)
  BY <1>1
<1>3. CASE qb >= qa + 1
  <2>1. N * (qb - qa) >= N
    BY <1>1, <1>3
  <2>2. QED
    BY <2>1, <1>2
<1>4. CASE qb <= qa
  <2>1. N * (qb - qa) <= 0
    BY <1>1, <1>4
  <2>2. QED
    BY <2>1, <1>2
<1>5. QED
  BY <1>1, <1>3, <1>4

\* The remainder is the one number below N that the quotient leaves.
LEMMA Remainder ==
  ASSUME NEW x \in Int, NEW q \in Int, NEW m \in 0..N-1, x = (N * q) + m
  PROVE  x % N = m
OBVIOUS

\* Up to the end of the area, the next position is in the next slot.
LEMMA SameLap ==
  ASSUME NEW a \in Nat, NEW j \in Nat, (a % N) + j < N
  PROVE  (a + j) % N = (a % N) + j
<1> DEFINE q == a \div N
<1>1. q \in Int /\ a = (N * q) + (a % N) /\ a % N \in 0..N-1
  OBVIOUS
<1> HIDE DEF q
<1>2. a + j = (N * q) + ((a % N) + j)
  BY <1>1
<1>3. QED
  BY <1>1, <1>2

\* The position at the end of the area is in slot 0.
LEMMA NextLap ==
  ASSUME NEW a \in Nat, NEW j \in Nat, (a % N) + j = N
  PROVE  (a + j) % N = 0
<1> DEFINE q == a \div N
<1>1. q \in Int /\ a = (N * q) + (a % N)
  OBVIOUS
<1> HIDE DEF q
<1>2. a + j = N * (q + 1)
  BY <1>1
<1>3. q + 1 \in Int /\ a + j \in Int /\ 0 \in 0..N-1 /\ a + j = (N * (q + 1)) + 0
  BY <1>1, <1>2
<1>4. QED
  BY <1>3, Remainder

-----------------------------------------------------------------------------
\* The bounds a record of the queue has by its type.
LEMMA RecordRanges ==
  ASSUME NEW r \in Record
  PROVE  r.start \in Nat /\ r.start \in 0..MaxHead /\ r.size \in Sizes /\ r.size \in 1..N
<1>1. r.start \in 0..MaxHead
  BY DEF Record
<1>2. r.size \in Sizes
  BY DEF Record
<1>3. r.start \in Nat
  BY <1>1
<1>4. r.size \in 1..N
  BY <1>2
<1>5. QED
  BY <1>1, <1>2, <1>3, <1>4

\* The empty ring satisfies the invariant.
LEMMA InitIInv == Init => IInv
BY DEF Init, IInv, TypeOK, CursorsOrdered, RecordsIntact, QueueLayout, QueueIntact,
       EventIntact, Slots, Word, NoRecord

\* What the kernel writes lands in the slots from data_head on, and in none that
\* holds a word between the tail and the head.
LEMMA KernelWriteData ==
  ASSUME IInv, NEW r \in Record, r.start = data_head, HasSpace(r.size), data' = Written(r)
  PROVE  /\ \A p \in Nat : data_tail <= p /\ p < data_head => data'[p % N] = data[p % N]
         /\ \A j \in 0..r.size-1 : data'[(data_head + j) % N] = Word(r, j)
         /\ data' \in [Slots -> [rec : Record \cup {NoRecord}, off : Nat]]
<1> DEFINE size == r.size
           Hit(k) == \E j \in 0..size-1 : (data_head + j) % N = k
           Off(k) == CHOOSE j \in 0..size-1 : (data_head + j) % N = k
<1>1. data' = [k \in Slots |-> IF Hit(k) THEN Word(r, Off(k)) ELSE data[k]]
  BY DEF Written
<1>2. size \in 1..N
  BY RecordRanges
<1>3. data_head \in Nat /\ data_tail \in Nat
      /\ data_head + size - data_tail <= N - 1 /\ data_tail <= data_head
  BY DEF IInv, TypeOK, CursorsOrdered, HasSpace
<1> HIDE DEF size
<1>4. \A k \in Slots : Hit(k) => Off(k) \in 0..size-1 /\ (data_head + Off(k)) % N = k
  OBVIOUS
<1> HIDE DEF Off
<1>5. ASSUME NEW p \in Nat, data_tail <= p, p < data_head
      PROVE  data'[p % N] = data[p % N]
  <2>1. p % N \in Slots
    BY DEF Slots
  <2>2. ASSUME NEW j \in 0..size-1, (data_head + j) % N = p % N
        PROVE  FALSE
    <3>1. p <= data_head + j /\ data_head + j < p + N /\ data_head + j \in Nat
      BY <1>2, <1>3, <1>5
    <3>2. p = data_head + j
      BY <2>2, <3>1, DistinctSlots
    <3>3. QED
      BY <3>2, <1>2, <1>3, <1>5
  <2>3. QED
    BY <1>1, <2>1, <2>2
<1>6. ASSUME NEW j \in 0..size-1
      PROVE  data'[(data_head + j) % N] = Word(r, j)
  <2> DEFINE k == (data_head + j) % N
             x == data_head + Off(k)
             y == data_head + j
  <2>1. k \in Slots /\ Hit(k)
    BY <1>3 DEF Slots
  <2>2. Off(k) \in 0..size-1 /\ x % N = k
    BY <1>4, <2>1
  <2>3. x \in Nat /\ y \in Nat /\ x % N = y % N /\ x < y + N /\ y < x + N
    BY <1>2, <1>3, <2>2
  <2>4. x = y
    <3> HIDE DEF x, y
    <3>1. CASE x <= y
      BY <2>3, <3>1, DistinctSlots
    <3>2. CASE y <= x
      BY <2>3, <3>2, DistinctSlots
    <3>3. QED
      BY <2>3, <3>1, <3>2
  <2>5. Off(k) = j
    BY <1>2, <1>3, <2>2, <2>4
  <2>6. QED
    BY <1>1, <2>1, <2>5
<1>7. ASSUME NEW k \in Slots
      PROVE  data'[k] \in [rec : Record \cup {NoRecord}, off : Nat]
  <2>1. CASE Hit(k)
    <3>1. Off(k) \in Nat
      BY <1>2, <1>4, <2>1
    <3>2. data'[k] = [rec |-> r, off |-> Off(k)]
      BY <1>1, <2>1 DEF Word
    <3>3. QED
      BY <3>1, <3>2
  <2>2. CASE ~Hit(k)
    <3>1. data'[k] = data[k]
      BY <1>1, <2>2
    <3>2. QED
      BY <3>1 DEF IInv, TypeOK
  <2>3. QED
    BY <2>1, <2>2
<1>8. QED
  BY <1>1, <1>5, <1>6, <1>7 DEF size

\* A word read from the ring at a position is where the wrap-around puts it.
LEMMA CopyOutWhole ==
  ASSUME NEW old \in Nat, NEW size \in 1..N, NEW j \in 0..size-1
  PROVE  /\ CopyOut(old, size)[j] = data[(old + j) % N]
         /\ ~Wraps(old, size) => /\ (old % N) + size <= N
                                 /\ data[(old % N) + j] = data[(old + j) % N]
<1> DEFINE slot  == old % N
           first == IF N - slot < size THEN N - slot ELSE size
<1>1. slot \in 0..N-1 /\ first \in 1..N /\ slot + first <= N /\ j \in Nat /\ j < size
      /\ (j >= first => slot + first = N /\ first < size)
  OBVIOUS
<1>2. CopyOut(old, size)[j] = IF j < first THEN data[slot + j]
                              ELSE data[((old + first) % N) + (j - first)]
  BY DEF CopyOut
<1>3. ASSUME slot + j < N
      PROVE  (old + j) % N = slot + j
  BY <1>1, <1>3, SameLap
<1>4. CopyOut(old, size)[j] = data[(old + j) % N]
  <2>1. CASE j < first
    <3>1. slot + j < N
      BY <1>1, <2>1
    <3>2. QED
      BY <1>2, <1>3, <2>1, <3>1
  <2>2. CASE j >= first
    <3>1. (old + first) % N = 0
      <4> HIDE DEF first
      <4>1. QED
        BY <1>1, <2>2, NextLap
    <3>2. old + first \in Nat /\ j - first \in Nat /\ j - first < N
          /\ ((old + first) % N) + (j - first) < N
      BY <1>1, <2>2, <3>1
    <3>3. ((old + first) + (j - first)) % N = ((old + first) % N) + (j - first)
      <4> HIDE DEF first
      <4>1. QED
        BY <3>2, SameLap
    <3>4. (old + first) + (j - first) = old + j /\ ~(j < first)
      <4> HIDE DEF first
      <4>1. QED
        BY <1>1, <2>2
    <3>5. QED
      <4> HIDE DEF first, slot
      <4>1. QED
        BY <1>2, <3>3, <3>4
  <2>3. QED
    BY <1>1, <2>1, <2>2
<1>5. ASSUME ~Wraps(old, size)
      PROVE  slot + size <= N /\ data[slot + j] = data[(old + j) % N]
  <2>1. slot + size = (old + size) % N /\ (old + size) % N \in 0..N-1
    BY <1>5 DEF Wraps
  <2>2. slot + size <= N /\ slot + j < N
    BY <1>1, <2>1
  <2>3. QED
    BY <1>3, <2>2
<1>6. QED
  BY <1>4, <1>5

\* Every record not handed out lies between the reader and the kernel.
LEMMA QueueBetween ==
  ASSUME IInv, NEW i \in 1..Len(queue)
  PROVE  /\ queue[i] \in Record /\ queue[i].start \in Nat /\ queue[i].size \in 1..N
         /\ prev_ <= queue[i].start
         /\ queue[i].start + queue[i].size <= data_head
<1> DEFINE start(k) == queue[k].start
           size(k)  == queue[k].size
<1>1. PICK n \in Nat \ {0} : n = Len(queue) /\ i \in 1..n /\ queue \in Seq(Record)
  BY DEF IInv, TypeOK
<1>2. \A k \in 1..n : queue[k] \in Record
  BY <1>1
<1>3. \A k \in 1..n : start(k) \in Nat
  BY <1>2, RecordRanges
<1>4. \A k \in 1..n : size(k) \in 1..N
  BY <1>2, RecordRanges
<1>5. /\ prev_ = start(1)
      /\ start(n) + size(n) = data_head
      /\ i > 1 => start(1) + size(1) <= start(i)
      /\ i < n => start(i) + size(i) <= start(n)
  BY <1>1 DEF IInv, RecordsIntact, QueueLayout
<1>6. 1 \in 1..n /\ n \in 1..n /\ (i = 1 \/ i > 1) /\ (i = n \/ i < n)
  BY <1>1
<1>7. prev_ <= start(i) /\ start(i) + size(i) <= data_head
  <2> HIDE DEF start, size
  <2>1. QED
    BY <1>1, <1>3, <1>4, <1>5, <1>6
<1>8. QED
  BY <1>1, <1>2, <1>3, <1>4, <1>7

\* While read() has not caught up with the head it saw, a whole record is next.
LEMMA NextRecord ==
  ASSUME IInv, pc = "fetch", prev_ # head
  PROVE  /\ queue # <<>> /\ Len(queue) \in Nat \ {0}
         /\ queue[1] \in Record
         /\ queue[1].start = prev_
         /\ queue[1].size \in Sizes
         /\ prev_ + queue[1].size <= data_head
         /\ data[prev_ % N].rec = queue[1]
         /\ \A j \in 0..queue[1].size-1 : data[(prev_ + j) % N] = Word(queue[1], j)
<1>1. prev_ < data_head /\ prev_ \in Nat /\ data_head \in Nat
  BY DEF IInv, TypeOK, CursorsOrdered
<1>2. queue # <<>> /\ Len(queue) \in Nat \ {0} /\ queue \in Seq(Record)
      /\ queue[1] \in Record
  BY <1>1 DEF IInv, RecordsIntact, QueueLayout, TypeOK
<1>3. queue[1].start = prev_ /\ queue[1].size \in Sizes
  BY <1>2 DEF IInv, RecordsIntact, QueueLayout
<1>4. queue[1].size \in 1..N
  BY <1>3
<1>5. \A j \in 0..queue[1].size-1 : data[(prev_ + j) % N] = Word(queue[1], j)
  BY <1>2, <1>3 DEF IInv, RecordsIntact, QueueIntact
<1>6. data[prev_ % N].rec = queue[1]
  <2>1. 0 \in 0..queue[1].size-1 /\ prev_ + 0 = prev_
    BY <1>1, <1>4
  <2>2. data[prev_ % N] = Word(queue[1], 0)
    BY <1>5, <2>1
  <2>3. QED
    BY <2>2 DEF Word
<1>7. prev_ + queue[1].size <= data_head
  BY <1>2, <1>3, QueueBetween
<1>8. QED
  BY <1>2, <1>3, <1>5, <1>6, <1>7

-----------------------------------------------------------------------------
\* The kernel writes behind data_head and within the space given back: it touches no
\* queued word and no word of the record handed out.
LEMMA KernelWriteStep == IInv /\ KernelWrite => IInv'
<1> SUFFICES ASSUME IInv, NEW size \in Sizes,
                    NEW r, r = [start |-> data_head, size |-> size],
                    data_head + size <= MaxHead,
                    HasSpace(size),
                    data_head' = data_head + size,
                    data' = Written(r),
                    queue' = Append(queue, r),
                    UNCHANGED <<data_tail, prev_, event_copy_, head, event, pc>>
             PROVE  IInv'
  BY DEF KernelWrite
<1>1. /\ data_head \in Nat /\ data_head \in 0..MaxHead /\ data_tail \in Nat /\ prev_ \in Nat
      /\ size \in 1..N /\ queue \in Seq(Record)
      /\ data_tail <= prev_ /\ prev_ <= data_head
      /\ data_head + size <= data_tail + N - 1
  BY DEF IInv, TypeOK, CursorsOrdered, HasSpace
<1>2. r \in Record /\ r.start = data_head /\ r.size = size
  BY <1>1 DEF Record
<1>3. /\ \A p \in Nat : data_tail <= p /\ p < data_head => data'[p % N] = data[p % N]
      /\ \A j \in 0..size-1 : data'[(data_head + j) % N] = Word(r, j)
      /\ data' \in [Slots -> [rec : Record \cup {NoRecord}, off : Nat]]
  BY <1>2, KernelWriteData
<1>4. PICK n \in Nat : n = Len(queue)
  BY <1>1
<1>5. /\ queue' \in Seq(Record) /\ Len(queue') = n + 1
      /\ \A i \in 1..n : queue'[i] = queue[i]
      /\ queue'[n + 1] = r /\ queue' # <<>>
  BY <1>1, <1>2, <1>4
<1>6. \A i \in 1..n : /\ queue[i].start \in Nat /\ queue[i].size \in 1..N
                      /\ prev_ <= queue[i].start
                      /\ queue[i].start + queue[i].size <= data_head
  BY QueueBetween, <1>4
<1>7. TypeOK'
  <2>1. data_head' \in 0..MaxHead
    BY <1>1
  <2>2. QED
    BY <1>3, <1>5, <2>1 DEF IInv, TypeOK
<1>8. CursorsOrdered'
  BY <1>1 DEF IInv, TypeOK, CursorsOrdered
<1>9. QueueLayout'
  <2>1. prev_' = IF queue' = <<>> THEN data_head' ELSE queue'[1].start
    <3>1. CASE queue = <<>>
      BY <1>2, <1>4, <1>5, <3>1 DEF IInv, RecordsIntact, QueueLayout
    <3>2. CASE queue # <<>>
      BY <1>1, <1>4, <1>5, <3>2 DEF IInv, RecordsIntact, QueueLayout
    <3>3. QED
      BY <3>1, <3>2
  <2>2. ASSUME NEW i \in 1..n
        PROVE  /\ queue'[i].size \in Sizes
               /\ queue'[i].start + queue'[i].size = queue'[i+1].start
               /\ \A k \in 1..i-1 : queue'[k].start + queue'[k].size <= queue'[i].start
    BY <1>1, <1>2, <1>4, <1>5 DEF IInv, RecordsIntact, QueueLayout
  <2>3. /\ queue'[n+1].size \in Sizes
        /\ queue'[n+1].start + queue'[n+1].size = data_head'
        /\ \A k \in 1..n : queue'[k].start + queue'[k].size <= queue'[n+1].start
    BY <1>2, <1>5, <1>6
  <2>4. ASSUME NEW i \in 1..n+1
        PROVE  /\ queue'[i].size \in Sizes
               /\ queue'[i].start + queue'[i].size
                    = IF i = n+1 THEN data_head' ELSE queue'[i+1].start
               /\ \A k \in 1..i-1 : queue'[k].start + queue'[k].size <= queue'[i].start
    <3>1. (i = n + 1 /\ i-1 = n) \/ (i \in 1..n /\ i # n + 1)
      BY <1>4
    <3>2. queue'[i].size \in Sizes
      BY <2>2, <2>3, <3>1
    <3>3. queue'[i].start + queue'[i].size = IF i = n+1 THEN data_head' ELSE queue'[i+1].start
      BY <2>2, <2>3, <3>1
    <3>4. \A k \in 1..i-1 : queue'[k].start + queue'[k].size <= queue'[i].start
      BY <2>2, <2>3, <3>1
    <3>5. QED
      BY <3>2, <3>3, <3>4
  <2>5. QED
    BY <1>5, <2>1, <2>4 DEF QueueLayout
<1>10. QueueIntact'
  <2> SUFFICES ASSUME NEW i \in 1..n+1, NEW j \in 0..queue'[i].size-1
               PROVE  data'[(queue'[i].start + j) % N] = Word(queue'[i], j)
    BY <1>5 DEF QueueIntact, Word
  <2>1. CASE i = n + 1
    <3>1. queue'[i] = r /\ j \in 0..size-1
      BY <1>2, <1>5, <2>1
    <3>2. QED
      BY <1>2, <1>3, <3>1
  <2>2. CASE i \in 1..n
    <3>1. PICK s \in Nat, z \in 1..N : /\ s = queue[i].start /\ z = queue[i].size
                                       /\ prev_ <= s /\ s + z <= data_head
      BY <1>6, <2>2
    <3>2. queue'[i] = queue[i] /\ j \in 0..z-1
      BY <1>5, <2>2, <3>1
    <3>3. data[(s + j) % N] = Word(queue[i], j)
      BY <1>4, <2>2, <3>1, <3>2 DEF IInv, RecordsIntact, QueueIntact
    <3>4. s + j \in Nat /\ data_tail <= s + j /\ s + j < data_head
      <4>1. j \in Nat /\ j < z
        BY <3>2
      <4>2. prev_ <= s /\ s + z <= data_head
        BY <3>1
      <4>3. QED
        BY <1>1, <4>1, <4>2
    <3>5. data'[(s + j) % N] = data[(s + j) % N]
      BY <1>3, <3>4
    <3>6. QED
      BY <3>1, <3>2, <3>3, <3>5
  <2>3. QED
    BY <1>4, <2>1, <2>2
<1>11. EventIntact'
  <2> SUFFICES ASSUME pc = "use", ~event.copied, NEW j \in 0..event.size-1
               PROVE  data'[event.slot + j] = data[event.slot + j]
    BY DEF IInv, RecordsIntact, EventIntact, Seen, Word
  <2>1. event.size \in Sizes
    BY DEF IInv, RecordsIntact, EventIntact
  <2>2. PICK z \in 1..N : z = event.size
    BY <2>1
  <2>3. data_tail <= prev_ - z /\ event.slot = (prev_ - z) % N /\ event.slot + z <= N
    BY <2>2 DEF IInv, RecordsIntact, EventIntact
  <2>4. PICK s \in Nat : s = prev_ - z
    BY <1>1, <2>3
  <2>5. j \in Nat /\ j < z /\ (s % N) + j < N
    BY <2>2, <2>3, <2>4
  <2>6. (s + j) % N = event.slot + j
    BY <2>3, <2>4, <2>5, SameLap
  <2>7. s + j \in Nat /\ data_tail <= s + j /\ s + j < data_head
    BY <1>1, <2>3, <2>4, <2>5
  <2>8. data'[(s + j) % N] = data[(s + j) % N]
    BY <1>3, <2>7
  <2>9. QED
    BY <2>6, <2>8
<1>12. QED
  BY <1>7, <1>8, <1>9, <1>10, <1>11 DEF IInv, RecordsIntact

\* read_head() only takes a copy of data_head.
LEMMA ReadHeadStep == IInv /\ ReadHead => IInv'
<1> SUFFICES ASSUME IInv, ReadHead
             PROVE  IInv'
  OBVIOUS
<1> USE DEF ReadHead, kernel
<1>1. TypeOK'
  BY DEF IInv, TypeOK
<1>2. CursorsOrdered'
  BY DEF IInv, TypeOK, CursorsOrdered
<1>3. RecordsIntact'
  BY DEF IInv, RecordsIntact, QueueLayout, QueueIntact, EventIntact, Word
<1>4. QED
  BY <1>1, <1>2, <1>3 DEF IInv

\* The tail moves up to prev_, past records that are all done with.
LEMMA ReadEmptyStep == IInv /\ ReadEmpty => IInv'
<1> SUFFICES ASSUME IInv, ReadEmpty
             PROVE  IInv'
  OBVIOUS
<1> USE DEF ReadEmpty, WriteTail, kernel
<1>1. TypeOK'
  BY DEF IInv, TypeOK
<1>2. CursorsOrdered'
  BY DEF IInv, TypeOK, CursorsOrdered
<1>3. RecordsIntact'
  BY DEF IInv, RecordsIntact, QueueLayout, QueueIntact, EventIntact, Word
<1>4. QED
  BY <1>1, <1>2, <1>3 DEF IInv

\* Being done with the record changes no data.
LEMMA UseEventStep == IInv /\ UseEvent => IInv'
<1> SUFFICES ASSUME IInv, UseEvent
             PROVE  IInv'
  OBVIOUS
<1> USE DEF UseEvent, kernel
<1>1. TypeOK'
  BY DEF IInv, TypeOK
<1>2. CursorsOrdered'
  BY DEF IInv, TypeOK, CursorsOrdered
<1>3. RecordsIntact'
  BY DEF IInv, RecordsIntact, QueueLayout, QueueIntact, EventIntact, Word
<1>4. QED
  BY <1>1, <1>2, <1>3 DEF IInv

\* A stuttering step.
LEMMA StutterStep == IInv /\ UNCHANGED vars => IInv'
BY DEF IInv, TypeOK, CursorsOrdered, RecordsIntact, QueueLayout, QueueIntact,
       EventIntact, Seen, vars

\* What process_events() finds behind the pointer of a new record is that record.
LEMMA ReadRecordSeen ==
  ASSUME IInv, ReadRecord
  PROVE  /\ event'.size = queue[1].size /\ event'.slot = prev_ % N
         /\ event'.copied \in BOOLEAN
         /\ ~event'.copied => event'.slot + event'.size <= N
         /\ \A j \in 0..queue[1].size-1 : Seen(j)' = Word(queue[1], j)
<1> DEFINE size == queue[1].size
<1>1. pc = "fetch" /\ prev_ # head /\ data' = data
  BY DEF ReadRecord
<1>2. size \in 1..N /\ data[prev_ % N].rec.size = size
  BY <1>1, NextRecord
<1>3. /\ event' = [copied |-> Wraps(prev_, size), slot |-> prev_ % N, size |-> size]
      /\ Wraps(prev_, size) => event_copy_' = CopyOut(prev_, size)
  BY <1>2 DEF ReadRecord
<1>4. Wraps(prev_, size) \in BOOLEAN
  BY DEF Wraps
<1>5. prev_ \in Nat /\ \A j \in 0..size-1 : data[(prev_ + j) % N] = Word(queue[1], j)
  BY <1>1, NextRecord DEF IInv, TypeOK
<1> HIDE DEF size
<1>6. ASSUME NEW j \in 0..size-1
      PROVE  Seen(j)' = Word(queue[1], j)
  <2>1. CopyOut(prev_, size)[j] = data[(prev_ + j) % N]
    BY <1>2, <1>5, CopyOutWhole
  <2>2. ~Wraps(prev_, size) => data[(prev_ % N) + j] = data[(prev_ + j) % N]
    BY <1>2, <1>5, CopyOutWhole
  <2>3. QED
    BY <1>1, <1>3, <1>5, <2>1, <2>2 DEF Seen
<1>7. ~Wraps(prev_, size) => (prev_ % N) + size <= N
  <2>1. 0 \in 0..size-1
    BY <1>2
  <2>2. QED
    BY <1>2, <1>5, <2>1, CopyOutWhole
<1>8. QED
  BY <1>3, <1>4, <1>6, <1>7 DEF size

\* read() moves prev_ by the size of the head of the queue, which is whole.
LEMMA ReadRecordStep == IInv /\ ReadRecord => IInv'
<1> SUFFICES ASSUME IInv, ReadRecord
             PROVE  IInv'
  OBVIOUS
<1>1. /\ pc = "fetch" /\ prev_ # head /\ pc' = "use" /\ queue' = Tail(queue)
      /\ UNCHANGED <<data_head, data_tail, data, head>>
  BY DEF ReadRecord
<1>2. PICK first \in Record : first = queue[1]
  BY <1>1, NextRecord
<1>3. PICK z \in 1..N : z = first.size /\ z \in Sizes
  BY <1>2, RecordRanges
<1>4. /\ data[prev_ % N].rec = first /\ first.start = prev_
      /\ prev_ + z <= data_head
      /\ \A j \in 0..z-1 : data[(prev_ + j) % N] = Word(first, j)
  BY <1>1, <1>2, <1>3, NextRecord
<1>5. prev_' = prev_ + z
  BY <1>3, <1>4 DEF ReadRecord
<1>6. /\ prev_ \in Nat /\ data_head \in 0..MaxHead /\ data_head \in Nat /\ data_tail \in Nat
      /\ data_tail <= prev_ /\ data_head <= data_tail + N - 1 /\ queue \in Seq(Record)
  BY DEF IInv, TypeOK, CursorsOrdered
<1>7. PICK n \in Nat : n + 1 = Len(queue)
  BY <1>1, NextRecord
<1>8. /\ queue' \in Seq(Record) /\ Len(queue') = n
      /\ \A i \in 1..n : i + 1 \in 1..Len(queue) /\ queue'[i] = queue[i+1]
  BY <1>1, <1>6, <1>7
<1>9. /\ event'.size = z /\ event'.slot = prev_ % N
      /\ event'.copied \in BOOLEAN
      /\ ~event'.copied => event'.slot + event'.size <= N
      /\ \A j \in 0..z-1 : Seen(j)' = Word(first, j)
  BY <1>2, <1>3, ReadRecordSeen
<1>10. TypeOK'
  <2>1. event' \in [copied : BOOLEAN, slot : Slots, size : Nat]
    <3>1. prev_ % N \in Slots
      BY <1>6 DEF Slots
    <3>2. event' = [copied |-> Wraps(prev_, z), slot |-> prev_ % N, size |-> z]
      BY <1>3, <1>4 DEF ReadRecord
    <3>3. Wraps(prev_, z) \in BOOLEAN /\ z \in Nat
      BY DEF Wraps
    <3>4. QED
      BY <3>1, <3>2, <3>3
  <2>2. prev_' \in Nat
    BY <1>5, <1>6
  <2>3. QED
    BY <1>1, <1>8, <2>1, <2>2 DEF IInv, TypeOK
<1>11. CursorsOrdered'
  BY <1>1, <1>4, <1>5, <1>6 DEF CursorsOrdered
<1>12. QueueLayout'
  <2>1. prev_' = IF n = 0 THEN data_head' ELSE queue[2].start
    <3>1. queue[1].start + queue[1].size
            = IF 1 = Len(queue) THEN data_head ELSE queue[1+1].start
      BY <1>7 DEF IInv, RecordsIntact, QueueLayout
    <3>2. queue[1].start + queue[1].size = prev_'
      BY <1>2, <1>3, <1>4, <1>5
    <3>3. 1 = Len(queue) <=> n = 0
      BY <1>7
    <3>4. QED
      BY <1>1, <3>1, <3>2, <3>3
  <2>2. n = 0 <=> queue' = <<>>
    BY <1>8
  <2>3. ASSUME NEW i \in 1..n
        PROVE  /\ queue'[i].size \in Sizes
               /\ queue'[i].start + queue'[i].size
                    = IF i = n THEN data_head' ELSE queue'[i+1].start
               /\ \A k \in 1..i-1 : queue'[k].start + queue'[k].size <= queue'[i].start
    <3>1. queue'[i] = queue[i+1] /\ i + 1 \in 1..Len(queue)
      BY <1>8
    <3>2. queue'[i].size \in Sizes
      BY <3>1 DEF IInv, RecordsIntact, QueueLayout
    <3>3. queue'[i].start + queue'[i].size
            = IF i = n THEN data_head' ELSE queue'[i+1].start
      <4>1. queue[i+1].start + queue[i+1].size
              = IF i+1 = Len(queue) THEN data_head ELSE queue[(i+1)+1].start
        BY <3>1 DEF IInv, RecordsIntact, QueueLayout
      <4>2. CASE i = n
        BY <1>1, <1>7, <3>1, <4>1, <4>2
      <4>3. CASE i < n
        <5>1. queue'[i+1] = queue[(i+1)+1] /\ i + 1 # Len(queue)
          BY <1>7, <1>8, <4>3
        <5>2. QED
          BY <3>1, <4>1, <4>3, <5>1
      <4>4. QED
        BY <4>2, <4>3
    <3>4. ASSUME NEW k \in 1..i-1
          PROVE  queue'[k].start + queue'[k].size <= queue'[i].start
      <4>1. queue'[k] = queue[k+1] /\ k + 1 \in 1..(i+1)-1
        BY <1>8
      <4>2. QED
        BY <3>1, <4>1 DEF IInv, RecordsIntact, QueueLayout
    <3>5. QED
      BY <3>2, <3>3, <3>4
  <2>4. n # 0 => queue'[1] = queue[2]
    BY <1>8
  <2>5. QED
    BY <1>8, <2>1, <2>2, <2>3, <2>4 DEF QueueLayout
<1>13. QueueIntact'
  <2> SUFFICES ASSUME NEW i \in 1..n, NEW j \in 0..queue'[i].size-1
               PROVE  data'[(queue'[i].start + j) % N] = Word(queue'[i], j)
    BY <1>8 DEF QueueIntact, Word
  <2>1. queue'[i] = queue[i+1] /\ i + 1 \in 1..Len(queue)
    BY <1>8
  <2>2. QED
    BY <1>1, <2>1 DEF IInv, RecordsIntact, QueueIntact
<1>14. EventIntact'
  <2>1. prev_' - event'.size = prev_
    BY <1>5, <1>6, <1>9
  <2>2. first = [start |-> prev_, size |-> z]
    BY <1>3, <1>4 DEF Record
  <2>3. QED
    BY <1>1, <1>3, <1>6, <1>9, <2>1, <2>2 DEF EventIntact, Word
<1>15. QED
  BY <1>10, <1>11, <1>12, <1>13, <1>14 DEF IInv, RecordsIntact

-----------------------------------------------------------------------------
\* The inductive invariant: the cursors are in order and every record written
\* and not yet dealt with, the one in the reader's hand included, is whole.
THEOREM RingInvariant == Spec => []IInv
<1>1. Init => IInv
  BY InitIInv
<1>2. IInv /\ [Next]_vars => IInv'
  BY KernelWriteStep, ReadHeadStep, ReadRecordStep, ReadEmptyStep, UseEventStep,
     StutterStep DEF Next, Read
<1>3. QED
  BY <1>1, <1>2, PTL DEF Spec

\* The cursors, the data area and the history stay in their ranges.
THEOREM RingTypeOK == Spec => []TypeOK
<1>1. IInv => TypeOK
  BY DEF IInv
<1> QED
  BY RingInvariant, <1>1, PTL

\* PerfRingBuffer never gives back, or lets be overwritten, what it has not read.
THEOREM RingCursors == Spec => []CursorsOrdered
<1>1. IInv => CursorsOrdered
  BY DEF IInv
<1>2. QED
  BY <1>1, RingInvariant, PTL

\* No record is torn by the wrap-around, skipped, repeated or overwritten.
THEOREM RingRecords == Spec => []RecordsIntact
<1>1. IInv => RecordsIntact
  BY DEF IInv
<1>2. QED
  BY <1>1, RingInvariant, PTL

-----------------------------------------------------------------------------
\* The record in the reader's hand, by its position.
LEMMA SeenInHand ==
  ASSUME IInv, pc = "use"
  PROVE  /\ SeenRecord = [start |-> prev_ - event.size, size |-> event.size]
         /\ SeenRecord # NoRecord
<1> DEFINE r == [start |-> prev_ - event.size, size |-> event.size]
<1>1. event.size \in Sizes /\ \A j \in 0..event.size-1 : Seen(j) = Word(r, j)
  BY DEF IInv, RecordsIntact, EventIntact
<1>2. PICK z \in 1..N : z = event.size
  BY <1>1
<1>3. Seen(0).rec = r
  <2>1. 0 \in 0..event.size-1
    BY <1>2
  <2>2. QED
    BY <1>1, <2>1 DEF Word
<1>4. SeenRecord = r
  <2>1. r.size = event.size
    OBVIOUS
  <2> HIDE DEF r
  <2>2. QED
    BY <1>1, <1>3, <2>1 DEF SeenRecord
<1>5. r # NoRecord
  BY <1>2 DEF NoRecord
<1>6. QED
  BY <1>4, <1>5

\* The queue is empty exactly when the reader has caught up with the kernel.
LEMMA EmptyQueue ==
  ASSUME IInv
  PROVE  queue = <<>> <=> prev_ = data_head
<1>1. CASE queue # <<>>
  <2>1. 1 \in 1..Len(queue) /\ prev_ = queue[1].start
    BY <1>1 DEF IInv, TypeOK, RecordsIntact, QueueLayout
  <2>2. PICK s \in Nat, z \in 1..N : /\ s = queue[1].start /\ z = queue[1].size
                                     /\ s + z <= data_head
    BY <2>1, QueueBetween
  <2>3. s + z <= data_head /\ s = prev_ /\ data_head \in Nat
    BY <2>1, <2>2 DEF IInv, TypeOK
  <2>4. prev_ # data_head
    BY <2>3
  <2>5. QED
    BY <1>1, <2>4
<1>2. QED
  BY <1>1 DEF IInv, RecordsIntact, QueueLayout

\* Every step of the ring is a step of the queue of records, or none.
LEMMA RingStep == IInv /\ IInv' /\ [Next]_vars => [Fifo!Next]_(Fifo!vars)
<1> SUFFICES ASSUME IInv, IInv', [Next]_vars
             PROVE  [Fifo!Next]_(Fifo!vars)
  OBVIOUS
<1> DEFINE call == IF pc # "fetch" THEN "none" ELSE IF prev_ # head THEN "some" ELSE "empty"
           out  == IF pc = "use" THEN SeenRecord ELSE NoRecord
<1>1. pc' = "use" => SeenRecord' = [start |-> prev_ - event.size, size |-> event.size]'
                     /\ (SeenRecord # NoRecord)'
  <2>1. (IInv /\ pc = "use" => /\ SeenRecord = [start |-> prev_ - event.size,
                                                size |-> event.size]
                               /\ SeenRecord # NoRecord)'
    BY SeenInHand, PTL
  <2>2. QED
    BY <2>1
<1>2. CASE KernelWrite
  <2>1. /\ \E r \in Record : queue' = Append(queue, r)
        /\ UNCHANGED <<prev_, head, event, pc>>
    <3>1. ASSUME NEW size \in Sizes, data_head + size <= MaxHead
          PROVE  [start |-> data_head, size |-> size] \in Record
      BY <3>1 DEF IInv, TypeOK, Record
    <3>2. QED
      BY <1>2, <3>1 DEF KernelWrite
  <2>2. out' = out /\ call' = call
    BY <1>1, <2>1, SeenInHand
  <2>3. QED
    BY <2>1, <2>2 DEF Fifo!Next, Fifo!Put
<1>3. CASE ReadHead
  <2>1. /\ pc = "call" /\ pc' = "fetch" /\ head' = data_head
        /\ UNCHANGED <<prev_, queue>>
    BY <1>3 DEF ReadHead, kernel
  <2>2. QED
    BY <2>1, EmptyQueue DEF Fifo!Next, Fifo!Call
<1>4. CASE ReadRecord
  <2>1. /\ pc = "fetch" /\ pc' = "use" /\ prev_ # head /\ queue' = Tail(queue)
    BY <1>4 DEF ReadRecord
  <2>2. queue # <<>> /\ queue[1] \in Record /\ queue[1].start = prev_
        /\ data[prev_ % N].rec = queue[1]
    BY <2>1, NextRecord
  <2>3. PICK z \in 1..N : z = queue[1].size
    BY <2>2, RecordRanges
  <2>4. event'.size = z /\ prev_' = prev_ + z /\ prev_ \in Nat
    BY <1>4, <2>2, <2>3 DEF ReadRecord, IInv, TypeOK
  <2>5. prev_' - event'.size = prev_
    BY <2>4
  <2>6. SeenRecord' = [start |-> prev_, size |-> z]
    BY <1>1, <2>1, <2>4, <2>5
  <2>7. queue[1] = [start |-> prev_, size |-> z]
    BY <2>2, <2>3 DEF Record
  <2>8. Head(queue) = queue[1]
    BY <2>2 DEF IInv, TypeOK
  <2>9. QED
    BY <2>1, <2>2, <2>6, <2>7, <2>8 DEF Fifo!Next, Fifo!ReturnRecord
<1>5. CASE ReadEmpty
  <2>1. /\ pc = "fetch" /\ pc' = "call" /\ prev_ = head
        /\ UNCHANGED queue
    BY <1>5 DEF ReadEmpty, kernel
  <2>2. QED
    BY <2>1 DEF Fifo!Next, Fifo!ReturnNull
<1>6. CASE UseEvent
  <2>1. /\ pc = "use" /\ pc' = "call" /\ UNCHANGED queue
    BY <1>6 DEF UseEvent, kernel
  <2>2. QED
    BY <2>1, SeenInHand DEF Fifo!Next, Fifo!Release
<1>7. CASE UNCHANGED vars
  <2>1. UNCHANGED <<pc, prev_, head, event, queue>>
    BY <1>7 DEF vars
  <2>2. out' = out /\ call' = call
    BY <1>1, <2>1, SeenInHand
  <2>3. QED
    BY <2>1, <2>2 DEF Fifo!vars
<1>8. QED
  BY <1>2, <1>3, <1>4, <1>5, <1>6, <1>7 DEF Next, Read

\* PerfRingBuffer::read() is a queue of whole records to its caller: in order, each
\* once, and unchanged while the caller looks at it.
THEOREM RingImplementsFifo == Spec => FifoSpec
<1>1. Init => Fifo!Init
  BY DEF Init, Fifo!Init
<1>2. IInv /\ IInv' /\ [Next]_vars => [Fifo!Next]_(Fifo!vars)
  BY RingStep
<1>3. QED
  BY <1>1, <1>2, RingInvariant, PTL DEF Spec, FifoSpec, Fifo!Spec
=============================================================================
