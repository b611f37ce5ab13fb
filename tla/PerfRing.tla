------------------------------ MODULE PerfRing ------------------------------
(***************************************************************************)
(* PerfRingBuffer (src/ring_buffer.cpp): the reader of the ring a          *)
(* perf_event file descriptor maps.  The kernel writes whole records at    *)
(* data_head and never past data_tail; read() hands out one record per     *)
(* call, straight from the ring or, when it wraps, from event_copy_, and   *)
(* gives the space back only when it finds the ring empty.                 *)
(*                                                                         *)
(* The unit of every position and size is one 8-byte word: perf records    *)
(* are multiples of it.  A word is the record it belongs to and its offset *)
(* in it, so that a torn or overwritten record shows.                      *)
(***************************************************************************)
EXTENDS Integers, Sequences

CONSTANTS N,         \* words in the data area (mask_ + 1 bytes)
          Sizes,     \* sizes of the records the kernel writes
          CopySize,  \* words in event_copy_ (PERF_SAMPLE_MAX_SIZE)
          MaxHead    \* bound: words the kernel writes in a behaviour

ASSUME NAssumption == N \in Nat \ {0}
ASSUME SizesAssumption == Sizes \subseteq 1..N
ASSUME BoundAssumption == MaxHead \in Nat

VARIABLES data_head, data_tail,  \* the cursors in perf_event_mmap_page
          data,                  \* the data area
          prev_, event_copy_,    \* members of PerfRingBuffer
          head,                  \* local of read(): the data_head it saw
          event,                 \* where the pointer read() returned points
          pc,                    \* "call" read(), "fetch" in it, "use" after it
          queue                  \* history: the records written, not handed out

vars == <<data_head, data_tail, data, prev_, event_copy_, head, event, pc, queue>>
kernel == <<data_head, data, queue>>

Slots == 0..N-1
Record == [start : 0..MaxHead, size : Sizes]
NoRecord == [start |-> 0, size |-> 0]    \* a zero page: header.size is 0
Word(r, j) == [rec |-> r, off |-> j]

Init == /\ data_head = 0 /\ data_tail = 0
        /\ data = [k \in Slots |-> Word(NoRecord, 0)]
        /\ prev_ = 0 /\ event_copy_ = <<>>
        /\ head = 0
        /\ event = [copied |-> FALSE, slot |-> 0, size |-> 0]
        /\ pc = "call"
        /\ queue = <<>>

-----------------------------------------------------------------------------
\* The kernel leaves one word free, so that data_head = data_tail means empty.
HasSpace(size) == data_head + size - data_tail <= N - 1

\* The data area with record r in it: r's words from its start on, wrapping.
Written(r) ==
  [k \in Slots |-> IF \E j \in 0..r.size-1 : (r.start + j) % N = k
                   THEN Word(r, CHOOSE j \in 0..r.size-1 : (r.start + j) % N = k)
                   ELSE data[k]]

\* The kernel reserves space, copies the record in and publishes data_head.
KernelWrite ==
  \E size \in Sizes :
    LET r == [start |-> data_head, size |-> size] IN
    /\ data_head + size <= MaxHead
    /\ HasSpace(size)
    /\ data_head' = data_head + size
    /\ data' = Written(r)
    /\ queue' = Append(queue, r)
    /\ UNCHANGED <<data_tail, prev_, event_copy_, head, event, pc>>

-----------------------------------------------------------------------------
\* read_head(): data_head is read once, then a load fence.
ReadHead == /\ pc = "call"
            /\ head' = data_head
            /\ pc' = "fetch"
            /\ UNCHANGED <<kernel, data_tail, prev_, event_copy_, event>>

\* The record of that size at slot does not end before the end of the area.
Wraps(old, size) == (old % N) + size # (old + size) % N

\* Mutant: the second memcpy reads on as if nothing had been copied.
MutCopyOut(old, size) ==
  [j \in 0..size-1 |-> IF (old % N) + j < N THEN data[(old % N) + j] ELSE data[j + 1]]

\* The do-while loop over memcpy: up to the end of the area, then from its start.
CopyOut(old, size) ==
  LET slot  == old % N
      first == IF N - slot < size THEN N - slot ELSE size
  IN  [j \in 0..size-1 |-> IF j < first THEN data[slot + j]
                                        ELSE data[((old + first) % N) + (j - first)]]

\* Mutants: the tail is one word short, jumps to the kernel's head, is not written.
MutTailShort(tail) == data_tail' = tail - 1
MutTailHead(tail) == data_tail' = data_head
MutTailLost(tail) == data_tail' = data_tail

\* write_tail(): everything handed out so far may be overwritten from now on.
WriteTail(tail) == data_tail' = tail

\* Mutant: the space of a record is given back before it was looked at.
MutReadRecord ==
  LET size == data[prev_ % N].rec.size IN
  /\ pc = "fetch"
  /\ prev_ # head
  /\ event' = [copied |-> Wraps(prev_, size), slot |-> prev_ % N, size |-> size]
  /\ event_copy_' = IF Wraps(prev_, size) THEN CopyOut(prev_, size) ELSE event_copy_
  /\ prev_' = prev_ + size
  /\ WriteTail(prev_ + size)
  /\ pc' = "use"
  /\ queue' = Tail(queue)
  /\ UNCHANGED <<data_head, data, head>>

\* read() with prev_ != head: the next record, copied out when it wraps.
ReadRecord ==
  LET size == data[prev_ % N].rec.size IN
  /\ pc = "fetch"
  /\ prev_ # head
  /\ event' = [copied |-> Wraps(prev_, size), slot |-> prev_ % N, size |-> size]
  /\ event_copy_' = IF Wraps(prev_, size) THEN CopyOut(prev_, size) ELSE event_copy_
  /\ prev_' = prev_ + size
  /\ pc' = "use"
  /\ queue' = Tail(queue)
  /\ UNCHANGED <<data_head, data_tail, data, head>>

\* read() with prev_ = head: nullptr, and the tail moves up.
ReadEmpty == /\ pc = "fetch"
             /\ prev_ = head
             /\ WriteTail(prev_)
             /\ pc' = "call"
             /\ UNCHANGED <<kernel, prev_, event_copy_, head, event>>

\* process_events() is done with the record it looked at through the pointer.
UseEvent == /\ pc = "use"
            /\ pc' = "call"
            /\ UNCHANGED <<kernel, data_tail, prev_, event_copy_, head, event>>

Read == ReadHead \/ ReadRecord \/ ReadEmpty \/ UseEvent

Next == KernelWrite \/ Read

Spec == Init /\ [][Next]_vars

\* process_events() runs in the handler of the thread and always gets on.
FairSpec == Spec /\ WF_vars(Read)

-----------------------------------------------------------------------------
\* The words process_events() finds behind the pointer, now.
Seen(j) == IF event.copied THEN event_copy_[j] ELSE data[event.slot + j]

\* The record those words make up; NoRecord when they do not make up one.
SeenRecord ==
  LET r == Seen(0).rec
  IN  IF r.size = event.size /\ \A j \in 0..event.size-1 : Seen(j) = Word(r, j)
      THEN r ELSE NoRecord

Fifo == INSTANCE RecordFifo WITH
          call <- IF pc # "fetch" THEN "none" ELSE IF prev_ # head THEN "some" ELSE "empty",
          out  <- IF pc = "use" THEN SeenRecord ELSE NoRecord

\* PerfRingBuffer implements the queue of whole records: in order, each once,
\* none torn by the wrap-around or overwritten while process_events() reads it.
FifoSpec == Fifo!Spec

\* The ranges of the variables.
TypeOK == /\ data_head \in 0..MaxHead /\ data_tail \in Nat
          /\ data \in [Slots -> [rec : Record \cup {NoRecord}, off : Nat]]
          /\ prev_ \in Nat /\ head \in Nat
          /\ event \in [copied : BOOLEAN, slot : Slots, size : Nat]
          /\ pc \in {"call", "fetch", "use"}
          /\ queue \in Seq(Record)

\* The reader is always between the space it gave back and the kernel, and the
\* kernel never laps the space it has not got back.
CursorsOrdered == /\ data_tail <= prev_
                  /\ prev_ <= data_head
                  /\ data_head <= data_tail + N - 1
                  /\ pc = "fetch" => prev_ <= head /\ head <= data_head

\* The records not handed out lie end to end from prev_ to data_head.
QueueLayout ==
  /\ prev_ = IF queue = <<>> THEN data_head ELSE queue[1].start
  /\ \A i \in 1..Len(queue) :
       /\ queue[i].size \in Sizes
       /\ queue[i].start + queue[i].size
            = IF i = Len(queue) THEN data_head ELSE queue[i+1].start
       /\ \A k \in 1..i-1 : queue[k].start + queue[k].size <= queue[i].start

\* ... and are whole in the ring.
QueueIntact ==
  \A i \in 1..Len(queue) : \A j \in 0..queue[i].size-1 :
    data[(queue[i].start + j) % N] = Word(queue[i], j)

\* The record handed out ends at prev_, is not given back yet and is whole.
EventIntact ==
  LET r == [start |-> prev_ - event.size, size |-> event.size]
  IN  pc = "use" => /\ event.size \in Sizes
                    /\ data_tail <= r.start
                    /\ event.copied \/ /\ event.slot = r.start % N
                                       /\ event.slot + event.size <= N
                    /\ \A j \in 0..event.size-1 : Seen(j) = Word(r, j)

\* No record is torn, skipped, repeated or overwritten before it was looked at.
RecordsIntact == QueueLayout /\ QueueIntact /\ EventIntact

IInv == TypeOK /\ CursorsOrdered /\ RecordsIntact

\* What the reader is done with goes back to the kernel: without it the ring
\* fills up for good (write_tail is called on the empty path only).
SpaceReturned == []<>(data_tail = prev_ /\ pc = "call")

\* A record copied out fits event_copy_.
CopyFits == pc = "use" /\ event.copied => event.size <= CopySize
=============================================================================
