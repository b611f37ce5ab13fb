---------------------------- MODULE PerfSampling ----------------------------
(***************************************************************************)
(* PerfSampling (src/perf_sampling.cpp) as one thread lives it: add_metric *)
(* opens, registers, sets up and enables an event; the kernel samples it   *)
(* and sends SIGPROF to the thread; the handler runs on top of the thread, *)
(* wherever that is, disables the event, looks its ring buffer up, drains  *)
(* it into the event buffer of the thread and enables the event again.     *)
(*                                                                         *)
(* A ring is the queue of whole records that RecordFifo promises.  SIGPROF *)
(* is not a real-time signal: while one is pending for the thread, further *)
(* ones are discarded, whatever their fd.  When the thread ends, its map   *)
(* and its event buffer pointer are destroyed while its events still count.*)
(***************************************************************************)
EXTENDS Naturals, Sequences, FiniteSets

CONSTANTS Fds,         \* file descriptors perf_event_open may return
          RingCap,     \* records a ring holds
          BufferSize,  \* events the event buffer of the thread keeps
          M,           \* bound: the sampled addresses are 1..M, over and over
          Noise,       \* what else the kernel records: "zero" addresses, "other" types
          Failures,    \* the calls that may fail: "open", "mmap", "fcntl", "ioctl"
          KnownId,     \* BOOLEAN: the plugin knows the id of the thread already
          NoFd, NoBuffer

ASSUME RingCapAssumption == RingCap \in Nat \ {0}
ASSUME BufferSizeAssumption == BufferSize \in Nat \ {0}
ASSUME MAssumption == M \in Nat \ {0}
ASSUME NoFdAssumption == NoFd \notin Fds
ASSUME NoBufferAssumption == NoBuffer \notin Seq([fd : Fds, addr : 1..M])

VARIABLES main,          \* where the thread is
          mfd,           \* fd of event_open()
          todo,          \* fds the loop of enable() has yet to enable
          opened,        \* fds the kernel handed out
          ring_buffers_, \* keys of the map from fd to PerfRingBuffer
          event_data_,   \* the event buffer, NoBuffer for a null pointer
          signal,        \* per fd: the signal an overflow sends
          enabled,       \* the fds that count
          ring, taken,   \* per fd: records in the ring; records read whose
                         \* space write_tail() has not given back
          next,          \* per fd: the address of its next sample
          lost,          \* history: the fds with a sample their full ring did not take
          pending,       \* fd of the SIGPROF pending for the thread
          blocked,       \* SIGPROF is blocked in the thread
          hpc, hfd       \* the signal handler: its next step, its si_fd

mainVars == <<main, mfd, todo, opened, ring_buffers_>>
kernelVars == <<ring, next, lost, pending>>
handlerVars == <<hpc, hfd, taken>>
others == <<kernelVars, blocked, handlerVars>>
vars == <<mainVars, event_data_, signal, enabled, others>>

\* What process_events() tells records apart by.
Records == [type : {"SAMPLE", "OTHER"}, addr : 0..M]
Sample(a) == [type |-> "SAMPLE", addr |-> a]
OtherRecord == [type |-> "OTHER", addr |-> 0]

Init == /\ main = "user" /\ mfd = NoFd /\ todo = {}
        /\ opened = {} /\ ring_buffers_ = {}
        /\ event_data_ = NoBuffer
        /\ signal = [fd \in Fds |-> "none"]
        /\ enabled = {}
        /\ ring = [fd \in Fds |-> <<>>] /\ taken = [fd \in Fds |-> 0]
        /\ next = [fd \in Fds |-> 1] /\ lost = {}
        /\ pending = NoFd /\ blocked = FALSE
        /\ hpc = "none" /\ hfd = NoFd

-----------------------------------------------------------------------------
(* The thread.  It stands still while the handler runs on top of it.       *)

Step(from, to) == main = from /\ hpc = "none" /\ main' = to

\* add_metric() gives a thread a buffer unless it finds one under the thread's id.
AddMetric == /\ Step("user", "open") /\ opened # Fds
             /\ event_data_' = IF event_data_ = NoBuffer /\ ~KnownId THEN <<>> ELSE event_data_
             /\ UNCHANGED <<mfd, todo, opened, ring_buffers_, signal, enabled, others>>

\* perf_event_open: the event starts disabled.
EventOpen == /\ Step("open", "map")
             /\ \E fd \in Fds \ opened : opened' = opened \cup {fd} /\ mfd' = fd
             /\ UNCHANGED <<todo, ring_buffers_, event_data_, signal, enabled, others>>

\* Mutant: the event is armed and counts before its ring is registered.
MutMapRing == /\ Step("map", "emplace")
              /\ signal' = [signal EXCEPT ![mfd] = "SIGPROF"]
              /\ enabled' = enabled \cup {mfd}
              /\ UNCHANGED <<mfd, todo, opened, ring_buffers_, event_data_, others>>

\* The constructor of PerfRingBuffer maps the ring, before the map is touched.
MapRing == /\ Step("map", "emplace")
           /\ UNCHANGED <<mfd, todo, opened, ring_buffers_, event_data_, signal, enabled, others>>

\* ring_buffers_.emplace: the handler may still run before it is complete.
Emplace == /\ Step("emplace", "setup")
           /\ ring_buffers_' = ring_buffers_ \cup {mfd}
           /\ UNCHANGED <<mfd, todo, opened, event_data_, signal, enabled, others>>

\* O_ASYNC and the owner, close-on-exec, SIGPROF as the signal, the reset.
Setup == /\ Step("setup", "enable")
         /\ signal' = [signal EXCEPT ![mfd] = "SIGPROF"]
         /\ todo' = ring_buffers_
         /\ UNCHANGED <<mfd, opened, ring_buffers_, event_data_, enabled, others>>

\* event_open() throws and undoes nothing: no fd, or fd 0, which it takes for a
\* failure and keeps open; ...
OpenFails == /\ Step("open", "user") /\ "open" \in Failures
             /\ \E leaked \in {{}} \cup {{fd} : fd \in Fds \ opened} : opened' = opened \cup leaked
             /\ UNCHANGED <<mfd, todo, ring_buffers_, event_data_, signal, enabled, others>>

\* ... an fd that is in no map; ...
MapRingFails ==
  /\ Step("map", "user") /\ "mmap" \in Failures
  /\ UNCHANGED <<mfd, todo, opened, ring_buffers_, event_data_, signal, enabled, others>>

\* ... an fd in the map that sends no signal, SIGIO still, or SIGPROF.
SetupFails ==
  /\ Step("setup", "user") /\ "fcntl" \in Failures
  /\ \E s \in {"none", "SIGIO", "SIGPROF"} : signal' = [signal EXCEPT ![mfd] = s]
  /\ UNCHANGED <<mfd, todo, opened, ring_buffers_, event_data_, enabled, others>>

\* enable(fd), disable(fd): an ioctl that fails is logged and passed over.
IoctlFails == "ioctl" \in Failures /\ UNCHANGED enabled
EnableFd(fd) == enabled' = enabled \cup {fd} \/ IoctlFails
DisableFd(fd) == enabled' = enabled \ {fd} \/ IoctlFails

\* One turn of the loop of enable(), over everything in the map.
Enable == /\ \E fd \in todo : EnableFd(fd) /\ todo' = todo \ {fd}
          /\ Step("enable", IF todo' = {} THEN "user" ELSE "enable")
          /\ UNCHANGED <<mfd, opened, ring_buffers_, event_data_, signal, others>>

\* Mutant: stop() forgets the rings instead of blocking the signal.
MutStop == /\ Step("user", "stopped") /\ ring_buffers_' = {}
           /\ UNCHANGED <<mfd, todo, opened, event_data_, signal, enabled, others>>

\* stop(): disable() blocks SIGPROF in this thread; the events stay enabled.
Stop == /\ Step("user", "stopped") /\ blocked' = TRUE
        /\ UNCHANGED <<mfd, todo, opened, ring_buffers_, event_data_, signal, enabled,
                       kernelVars, handlerVars>>

\* The thread returns: its thread_local map and pointer are destroyed, though the
\* place of the pointer may still say what it said, ...
Return == /\ Step("user", "ending") /\ ring_buffers_' = {}
          /\ event_data_' = event_data_ \/ event_data_' = NoBuffer
          /\ UNCHANGED <<mfd, todo, opened, signal, enabled, others>>

\* ... and only then does the kernel take its events from it.
Exit == /\ Step("ending", "ended") /\ enabled' = {} /\ pending' = NoFd
        /\ UNCHANGED <<mfd, todo, opened, ring_buffers_, event_data_, signal,
                       ring, next, lost, blocked, handlerVars>>

-----------------------------------------------------------------------------
(* The kernel.                                                             *)

HasSpace(fd) == Len(ring[fd]) + taken[fd] < RingCap

\* The period of fd is over: a record if there is space for it, a signal anyway.
\* Without space the sample is lost, and the next one is the one after it.
\* SIGIO, which nobody handles, ends the process.
Overflow(fd) ==
  /\ fd \in enabled /\ main # "terminated"
  /\ \E addr \in {next[fd]} \cup (IF "zero" \in Noise THEN {0} ELSE {}) :
       /\ ring' = IF HasSpace(fd) THEN [ring EXCEPT ![fd] = Append(@, Sample(addr))] ELSE ring
       /\ next' = IF addr = 0 THEN next ELSE [next EXCEPT ![fd] = (@ % M) + 1]
       /\ lost' = IF addr = 0 \/ HasSpace(fd) THEN lost ELSE lost \cup {fd}
  /\ pending' = IF signal[fd] = "SIGPROF" /\ pending = NoFd THEN fd ELSE pending
  /\ main' = IF signal[fd] = "SIGIO" THEN "terminated" ELSE main
  /\ UNCHANGED <<mfd, todo, opened, ring_buffers_, event_data_, signal, enabled,
                 blocked, handlerVars>>

\* A record that is no sample (a mapping, a throttling, lost samples): no signal.
SideBand(fd) ==
  /\ "other" \in Noise /\ fd \in enabled /\ main # "terminated" /\ HasSpace(fd)
  /\ ring' = [ring EXCEPT ![fd] = Append(@, OtherRecord)]
  /\ UNCHANGED <<mainVars, event_data_, signal, enabled, next, lost, pending, blocked,
                 handlerVars>>

-----------------------------------------------------------------------------
(* The handler.  SIGPROF is blocked while it runs.                         *)

HStep(from, to) == hpc = from /\ main # "terminated" /\ hpc' = to
undisturbed == <<mainVars, signal, blocked>>

Deliver == /\ HStep("none", "disable")
           /\ pending # NoFd /\ ~blocked
           /\ hfd' = pending /\ pending' = NoFd
           /\ UNCHANGED <<event_data_, enabled, ring, next, lost, taken, undisturbed>>

HDisable == /\ HStep("disable", "find")
            /\ DisableFd(hfd)
            /\ UNCHANGED <<event_data_, kernelVars, hfd, taken, undisturbed>>

\* ring_buffers_.find.  What it finds in a destroyed map nobody knows; while
\* emplace() rebalances a tree of two nodes or more it may miss a key that is there.
FindOutcomes ==
  LET there == hfd \in ring_buffers_
  IN  CASE main = "ending" -> BOOLEAN
        [] main = "emplace" /\ Cardinality(ring_buffers_) >= 2 -> {FALSE, there}
        [] OTHER -> {there}

\* Mutant: the handler returns at once when the lookup misses.
MutMissed == "none"
Missed == "enable"

HFind == /\ \E found \in FindOutcomes : HStep("find", IF found THEN "read" ELSE Missed)
         /\ UNCHANGED <<event_data_, enabled, kernelVars, hfd, taken, undisturbed>>

\* The map, or the ring found in it, is gone and the process with it.
HCrash == /\ \E use \in {"find", "read"} : HStep(use, use)
          /\ main = "ending" /\ main' = "terminated"
          /\ UNCHANGED <<mfd, todo, opened, ring_buffers_, event_data_, signal, enabled,
                         kernelVars, blocked, hfd, taken>>

\* EventRingBuffer::append: the oldest event makes room for the newest.
Appended(buffer, e) ==
  IF Len(buffer) < BufferSize THEN Append(buffer, e) ELSE Append(Tail(buffer), e)

\* The body of the loop: a sample with an address is kept, if there is a buffer.
Processed(record) ==
  IF record.type = "SAMPLE" /\ record.addr # 0 /\ event_data_ # NoBuffer
  THEN Appended(event_data_, [fd |-> hfd, addr |-> record.addr])
  ELSE event_data_

\* Mutants: the position jumps to the head of the ring, or it does not move.
MutRest(records) == <<>>
MutSame(records) == records
Rest(records) == Tail(records)

\* Mutant: one record per signal.
MutLoop == "tail"
Loop == "read"

\* Mutant: the tail is written after every record.
MutHeld(n) == 0
Held(n) == n + 1

\* process_events(): read() returns the next record.
HRead == /\ HStep("read", Loop) /\ ring[hfd] # <<>>
         /\ event_data_' = Processed(Head(ring[hfd]))
         /\ ring' = [ring EXCEPT ![hfd] = Rest(@)]
         /\ taken' = [taken EXCEPT ![hfd] = Held(@)]
         /\ UNCHANGED <<enabled, next, lost, pending, hfd, undisturbed>>

\* read() sees the ring empty ...
HEmpty == /\ HStep("read", "tail") /\ ring[hfd] = <<>>
          /\ UNCHANGED <<event_data_, enabled, kernelVars, hfd, taken, undisturbed>>

\* ... and gives back the space of what was read.
HTail == /\ HStep("tail", "enable")
         /\ taken' = [taken EXCEPT ![hfd] = 0]
         /\ UNCHANGED <<event_data_, enabled, kernelVars, hfd, undisturbed>>

\* The event of the signal counts again, whether its ring was found or not.
HEnable == /\ HStep("enable", "none")
           /\ EnableFd(hfd) /\ hfd' = NoFd
           /\ UNCHANGED <<event_data_, kernelVars, taken, undisturbed>>

-----------------------------------------------------------------------------
Main == \/ AddMetric \/ EventOpen \/ MapRing \/ Emplace \/ Setup \/ Enable
        \/ OpenFails \/ MapRingFails \/ SetupFails \/ Stop \/ Return \/ Exit
Kernel == \E fd \in Fds : Overflow(fd) \/ SideBand(fd)
Handler == Deliver \/ HDisable \/ HFind \/ HCrash \/ HRead \/ HEmpty \/ HTail \/ HEnable

Next == Main \/ Kernel \/ Handler

Spec == Init /\ [][Next]_vars

\* A pending signal that is not blocked is delivered, and its handler runs on.
FairSpec == Spec /\ WF_vars(Handler)

-----------------------------------------------------------------------------
Addresses == [fd : Fds, addr : 1..M]
Signals == {"none", "SIGIO", "SIGPROF"}
Over == main \in {"ending", "ended", "terminated"}

\* The ranges of the variables; a ring never holds more than its capacity, the
\* event buffer neither, and a handler runs exactly for the fd it was sent for.
TypeOK ==
  /\ main \in {"user", "open", "map", "emplace", "setup", "enable", "stopped",
              "ending", "ended", "terminated"}
  /\ mfd \in Fds \cup {NoFd}
  /\ opened \subseteq Fds
  /\ todo \cup ring_buffers_ \cup enabled \subseteq opened
  /\ \/ event_data_ = NoBuffer
     \/ event_data_ \in Seq(Addresses) /\ Len(event_data_) <= BufferSize
  /\ signal \in [Fds -> Signals]
  /\ ring \in [Fds -> Seq(Records)] /\ taken \in [Fds -> 0..RingCap]
  /\ \A fd \in Fds : Len(ring[fd]) + taken[fd] <= RingCap
  /\ next \in [Fds -> 1..M] /\ lost \subseteq Fds
  /\ pending \in Fds \cup {NoFd} /\ blocked \in BOOLEAN
  /\ hpc \in {"none", "disable", "find", "read", "tail", "enable"}
  /\ hfd \in Fds \cup {NoFd} /\ (hpc = "none" <=> hfd = NoFd)

\* The n-th of some positions, and the addresses a sequence has at them.
Nth(places, n) == CHOOSE i \in places : Cardinality({j \in places : j <= i}) = n
AddrsAt(s, places) == [n \in 1..Cardinality(places) |-> s[Nth(places, n)].addr]

Kept(records) == {i \in DOMAIN records : records[i].type = "SAMPLE" /\ records[i].addr # 0}
Of(fd, events) == {i \in DOMAIN events : events[i].fd = fd}

\* The addresses of fd, the oldest first: those recorded, then those in the ring.
Waiting(fd) == AddrsAt(ring[fd], Kept(ring[fd]))
Stored(fd) == IF event_data_ = NoBuffer THEN <<>> ELSE AddrsAt(event_data_, Of(fd, event_data_))
Sampled(fd) == Stored(fd) \o Waiting(fd)

\* Of an event that never found its ring full the thread records what was sampled
\* in the order it happened, with nothing missing, repeated or swapped, up to its
\* newest sample: however the signals of several events interrupt each other and the
\* registration, and whatever fails.  A full ring is the one way to lose a sample
\* before the event buffer forgets it.
NoGap ==
  \A fd \in Fds \ lost :
    LET s == Sampled(fd)
    IN  \A i \in 1..Len(s) :
          (s[i] % M) + 1 = IF i = Len(s) THEN next[fd] ELSE s[i + 1]

\* In a thread that lives the fd of a signal is registered when the handler looks it
\* up; once it ends there is no map to look it up in, and signals still come.
LookupHits == hpc = "find" /\ ~Over => hfd \in ring_buffers_

\* With one metric in the thread the handler never looks into the map while
\* add_metric changes it.
LookupUndisturbed == hpc = "find" => main # "emplace"

HasSample(fd) == \E i \in 1..Len(ring[fd]) : ring[fd][i].type = "SAMPLE"

\* With one metric in a thread that lives no sample waits in the ring unannounced:
\* a signal is pending for it, or the handler has yet to see the ring empty.
Announced ==
  \A fd \in Fds : HasSample(fd) =>
    pending = fd \/ (hfd = fd /\ hpc \in {"disable", "find", "read"}) \/ Over

\* Every sample leaves the ring for the event buffer, unless the thread calls stop()
\* or ends first.
Recorded == \A fd \in Fds : HasSample(fd) ~> (~HasSample(fd) \/ blocked \/ Over)

\* What a signal announces is recorded, with as many records as have come meanwhile:
\* though another event's handler runs first, or the thread is still in add_metric.
SignalDrains ==
  \A fd \in Fds : (pending = fd /\ HasSample(fd)) ~> (~HasSample(fd) \/ blocked \/ Over)

\* The handler returns, however fast the kernel goes on sampling.
HandlerReturns == (hpc # "none") ~> (hpc = "none" \/ main = "terminated")

\* An event the handler stopped counts again when the handler is done.
SamplingGoesOn == \A fd \in Fds : (hfd = fd) ~> (hfd = NoFd /\ fd \in enabled) \/ Over

\* A thread that samples can return, as long as no signal was set up half.
Survives == main # "terminated"

Stream == INSTANCE SampleStream WITH
            Sources <- Fds, Addresses <- 1..M, stored <- event_data_,
            waiting <- [fd \in Fds |-> Waiting(fd)]

\* PerfSampling implements the stream of samples: registration, failures and signals
\* that interrupt each other do not show in what the event buffer gets.
StreamSpec == Stream!Spec
=============================================================================
