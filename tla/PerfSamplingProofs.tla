------------------------- MODULE PerfSamplingProofs -------------------------
(***************************************************************************)
(* What the handler may rely on and what it makes of it.  For any number   *)
(* of metrics in a thread: while the thread lives the fd of a signal is    *)
(* registered, only a full ring makes a gap in the samples of an event,    *)
(* and all steps are those of the stream of samples.  For one metric: the  *)
(* map is not changed under the handler, and no sample waits in the ring   *)
(* unannounced.                                                            *)
(***************************************************************************)
EXTENDS PerfSampling, FiniteSetTheorems, SequenceTheorems, TLAPS

(***************************************************************************)
(* Registration                                                            *)
(***************************************************************************)

\* What counts, is about to count, has signalled or is handled was opened, and it is
\* registered as long as there is a map.
Registered == /\ opened \subseteq Fds
              /\ mfd \in Fds \cup {NoFd}
              /\ main \in {"map", "emplace", "setup", "enable"} => mfd \in opened
              /\ todo \cup ring_buffers_ \cup enabled \subseteq opened
              /\ pending \in opened \cup {NoFd} /\ hfd \in opened \cup {NoFd}
              /\ hpc = "none" <=> hfd = NoFd
              /\ ~Over => /\ todo \cup enabled \subseteq ring_buffers_
                          /\ pending \in ring_buffers_ \cup {NoFd}
                          /\ hfd \in ring_buffers_ \cup {NoFd}

\* At first nothing is registered and nothing counts.
LEMMA InitRegistered == Init => Registered
  BY DEF Init, Registered, Over

\* add_metric enables only what the map holds, and nothing leaves it while the thread
\* lives.
LEMMA MainRegistered == ASSUME Registered, Main PROVE Registered'
<1> USE DEF Over
<1>1. CASE AddMetric \/ EventOpen \/ MapRing \/ Emplace
  BY <1>1 DEF AddMetric, EventOpen, MapRing, Emplace, Step, Registered, others, kernelVars,
              handlerVars
<1>2. CASE Setup \/ OpenFails \/ MapRingFails \/ SetupFails
  BY <1>2 DEF Setup, OpenFails, MapRingFails, SetupFails, Step, Registered, others, kernelVars,
              handlerVars
<1>3. CASE Stop \/ Return \/ Exit
  BY <1>3 DEF Stop, Return, Exit, Step, Registered, others, kernelVars, handlerVars
<1>4. CASE Enable
  BY <1>4 DEF Enable, EnableFd, IoctlFails, Step, Registered, others, kernelVars, handlerVars
<1> QED
  BY <1>1, <1>2, <1>3, <1>4 DEF Main

\* Only an enabled fd signals.
LEMMA KernelRegistered == ASSUME Registered, Kernel PROVE Registered'
  BY DEF Kernel, Overflow, SideBand, Registered, mainVars, handlerVars, Over

\* The handler takes the fd of the signal and enables no other.
LEMMA HandlerRegistered == ASSUME Registered, Handler PROVE Registered'
<1> USE DEF Over
<1>1. CASE Deliver
  BY <1>1, NoFdAssumption DEF Deliver, HStep, Registered, undisturbed, mainVars
<1>2. CASE HDisable \/ HFind \/ HCrash
  BY <1>2 DEF HDisable, DisableFd, IoctlFails, HFind, Missed, HCrash, HStep, Registered,
              undisturbed, mainVars, kernelVars
<1>3. CASE HRead \/ HEmpty \/ HTail
  BY <1>3 DEF HRead, Loop, HEmpty, HTail, HStep, Registered, undisturbed, mainVars, kernelVars
<1>4. CASE HEnable
  BY <1>4 DEF HEnable, EnableFd, IoctlFails, HStep, Registered, undisturbed, mainVars, kernelVars
<1> QED
  BY <1>1, <1>2, <1>3, <1>4 DEF Handler

\* Registered holds in every reachable state.
LEMMA RegisteredInvariant == Spec => []Registered
<1>1. Registered /\ [Next]_vars => Registered'
  <2> SUFFICES ASSUME Registered, [Next]_vars PROVE Registered'
    OBVIOUS
  <2>1. CASE UNCHANGED vars
    BY <2>1 DEF vars, mainVars, others, kernelVars, handlerVars, Registered, Over
  <2> QED
    BY <2>1, MainRegistered, KernelRegistered, HandlerRegistered DEF Next
<1> QED
  BY InitRegistered, <1>1, PTL DEF Spec

\* The lookup in signal_handler is for a registered fd as long as the thread lives,
\* whatever the number of metrics and whichever calls fail.  It is not once the thread
\* returns: the map is destroyed then, and the signals still come.
THEOREM SignalsAreRegistered == Spec => []LookupHits
<1>1. Registered => LookupHits
  BY NoFdAssumption DEF Registered, LookupHits
<1> QED
  BY RegisteredInvariant, <1>1, PTL

(***************************************************************************)
(* Types                                                                   *)
(***************************************************************************)

\* The types, of registered fds.
Types == Registered /\ TypeOK

\* The addresses run from 1 to M.
LEMMA NextAddress == ASSUME NEW a \in 1..M PROVE (a % M) + 1 \in 1..M
<1>1. M \in Nat /\ M > 0
  BY MAssumption
<1>2. (a % M) \in 0..M-1
  BY <1>1
<1> QED
  BY <1>1, <1>2

\* At first there is nothing in the rings and no buffer.
LEMMA InitTypes == Init => Types
<1> SUFFICES ASSUME Init PROVE Types
  OBVIOUS
<1>1. M \in Nat /\ M > 0 /\ RingCap \in Nat /\ 1 \in 1..M
  BY MAssumption, RingCapAssumption, BufferSizeAssumption
<1>2. ring \in [Fds -> Seq(Records)] /\ taken \in [Fds -> 0..RingCap] /\ next \in [Fds -> 1..M]
  BY <1>1 DEF Init
<1>3. \A fd \in Fds : Len(ring[fd]) + taken[fd] <= RingCap
  BY <1>1 DEF Init
<1>4. TypeOK
  BY <1>2, <1>3 DEF Init, TypeOK, Signals
<1> QED
  BY <1>4, InitRegistered DEF Init, Types

\* The thread leaves the rings alone.
LEMMA MainTypes == ASSUME Types, Main PROVE Types'
<1> USE DEF Types, TypeOK, Registered, others, kernelVars, handlerVars, Step, Signals
<1>1. CASE AddMetric
  <2>1. <<>> \in Seq(Addresses) /\ Len(<<>>) <= BufferSize
    BY BufferSizeAssumption
  <2> QED
    BY <1>1, <2>1, MainRegistered DEF Main, AddMetric
<1>2. CASE EventOpen \/ MapRing \/ Emplace
  BY <1>2, MainRegistered DEF Main, EventOpen, MapRing, Emplace
<1>3. CASE Setup \/ OpenFails \/ MapRingFails \/ SetupFails
  BY <1>3, MainRegistered DEF Main, Setup, OpenFails, MapRingFails, SetupFails
<1>4. CASE Stop \/ Return \/ Exit
  BY <1>4, MainRegistered DEF Main, Stop, Return, Exit
<1>5. CASE Enable
  BY <1>5, MainRegistered DEF Main, Enable, EnableFd, IoctlFails
<1> QED
  BY <1>1, <1>2, <1>3, <1>4, <1>5 DEF Main

\* The kernel writes a record only where there is space for it.
LEMMA KernelTypes == ASSUME Types, Kernel PROVE Types'
<1>1. RingCap \in Nat /\ M \in Nat /\ Sample(0) \in Records /\ OtherRecord \in Records
  BY RingCapAssumption, MAssumption DEF Sample, OtherRecord, Records
<1>2. ASSUME NEW fd \in Fds, HasSpace(fd), NEW r \in Records,
             ring' = [ring EXCEPT ![fd] = Append(@, r)], taken' = taken
      PROVE  /\ ring' \in [Fds -> Seq(Records)]
             /\ \A g \in Fds : Len(ring'[g]) + taken'[g] <= RingCap
  <2>1. ring[fd] \in Seq(Records) /\ taken[fd] \in 0..RingCap
    BY DEF Types, TypeOK
  <2>2. Len(Append(ring[fd], r)) = Len(ring[fd]) + 1
    BY <2>1
  <2>3. Len(ring[fd]) + taken[fd] + 1 <= RingCap
    BY <1>1, <1>2, <2>1 DEF HasSpace
  <2> QED
    BY <1>1, <1>2, <2>1, <2>2, <2>3 DEF Types, TypeOK
<1>3. CASE \E fd \in Fds : Overflow(fd)
  <2> PICK fd \in Fds : Overflow(fd)
    BY <1>3
  <2>1. PICK addr \in {next[fd]} \cup (IF "zero" \in Noise THEN {0} ELSE {}) :
          /\ ring' = IF HasSpace(fd) THEN [ring EXCEPT ![fd] = Append(@, Sample(addr))] ELSE ring
          /\ next' = IF addr = 0 THEN next ELSE [next EXCEPT ![fd] = (@ % M) + 1]
          /\ lost' = IF addr = 0 \/ HasSpace(fd) THEN lost ELSE lost \cup {fd}
    BY DEF Overflow
  <2>2. next[fd] \in 1..M /\ taken' = taken
    BY DEF Types, TypeOK, Overflow, handlerVars
  <2>3. Sample(addr) \in Records
    BY <1>1, <2>2 DEF Sample, Records
  <2>4. next' \in [Fds -> 1..M] /\ lost' \subseteq Fds
    BY <2>1, <2>2, NextAddress DEF Types, TypeOK
  <2>5. /\ ring' \in [Fds -> Seq(Records)]
        /\ \A g \in Fds : Len(ring'[g]) + taken'[g] <= RingCap
    <3>1. CASE HasSpace(fd)
      BY <1>2, <2>1, <2>2, <2>3, <3>1
    <3>2. CASE ~HasSpace(fd)
      BY <2>1, <2>2, <3>2 DEF Types, TypeOK
    <3> QED
      BY <3>1, <3>2
  <2> QED
    BY <2>4, <2>5, KernelRegistered DEF Kernel, Overflow, Types, TypeOK, Registered, handlerVars
<1>4. CASE \E fd \in Fds : SideBand(fd)
  <2> PICK fd \in Fds : SideBand(fd)
    BY <1>4
  <2>1. taken' = taken
    BY DEF SideBand, handlerVars
  <2>2. /\ ring' \in [Fds -> Seq(Records)]
        /\ \A g \in Fds : Len(ring'[g]) + taken'[g] <= RingCap
    BY <1>1, <1>2, <2>1 DEF SideBand
  <2>3. UNCHANGED <<mainVars, event_data_, signal, enabled, next, lost, pending, blocked,
                    handlerVars>>
    BY DEF SideBand
  <2>4. TypeOK'
    BY <2>1, <2>2, <2>3 DEF Types, TypeOK, mainVars, handlerVars
  <2> QED
    BY <2>3, <2>4, KernelRegistered DEF Types, mainVars
<1> QED
  BY <1>3, <1>4 DEF Kernel

\* What is read makes room in the ring for what the handler holds.
LEMMA ReadTypes ==
  ASSUME Types, HRead
  PROVE  /\ ring' \in [Fds -> Seq(Records)] /\ taken' \in [Fds -> 0..RingCap]
         /\ \A fd \in Fds : Len(ring'[fd]) + taken'[fd] <= RingCap
         /\ \/ event_data_' = NoBuffer
            \/ event_data_' \in Seq(Addresses) /\ Len(event_data_') <= BufferSize
<1>1. /\ hfd \in Fds /\ ring[hfd] \in Seq(Records) /\ ring[hfd] # <<>>
      /\ taken[hfd] \in 0..RingCap /\ Len(ring[hfd]) + taken[hfd] <= RingCap
      /\ RingCap \in Nat /\ BufferSize \in Nat \ {0}
  BY RingCapAssumption, BufferSizeAssumption, NoFdAssumption DEF HRead, HStep, Types, TypeOK
<1>2. Len(Tail(ring[hfd])) = Len(ring[hfd]) - 1 /\ Tail(ring[hfd]) \in Seq(Records)
  BY <1>1
<1>3. taken[hfd] + 1 \in 0..RingCap /\ Len(Tail(ring[hfd])) + taken[hfd] + 1 <= RingCap
  BY <1>1, <1>2
<1>4. /\ ring' \in [Fds -> Seq(Records)] /\ taken' \in [Fds -> 0..RingCap]
      /\ \A fd \in Fds : Len(ring'[fd]) + taken'[fd] <= RingCap
  BY <1>1, <1>2, <1>3 DEF HRead, Rest, Held, Types, TypeOK
<1>5. CASE event_data_' = event_data_
  BY <1>4, <1>5 DEF Types, TypeOK
<1>6. CASE event_data_' # event_data_
  <2> DEFINE r == Head(ring[hfd])
             e == [fd |-> hfd, addr |-> r.addr]
  <2>1. /\ r.addr # 0 /\ event_data_ # NoBuffer
        /\ event_data_' = Appended(event_data_, e)
    BY <1>6 DEF HRead, Processed
  <2>2. r \in Records
    BY <1>1
  <2>3. e \in Addresses
    BY <1>1, <2>1, <2>2, MAssumption DEF Records, Addresses
  <2>4. event_data_ \in Seq(Addresses) /\ Len(event_data_) <= BufferSize
    BY <2>1 DEF Types, TypeOK
  <2>5. CASE Len(event_data_) < BufferSize
    BY <1>1, <1>4, <2>1, <2>3, <2>4, <2>5 DEF Appended
  <2>6. CASE ~(Len(event_data_) < BufferSize)
    <3>1. event_data_ # <<>> /\ Len(event_data_) = BufferSize
      BY <1>1, <2>4, <2>6
    <3>2. Tail(event_data_) \in Seq(Addresses) /\ Len(Tail(event_data_)) = BufferSize - 1
      BY <1>1, <2>4, <3>1
    <3>3. event_data_' = Append(Tail(event_data_), e)
      BY <2>1, <2>6 DEF Appended
    <3> QED
      BY <1>1, <1>4, <2>3, <3>2, <3>3
  <2> QED
    BY <2>5, <2>6
<1> QED
  BY <1>5, <1>6

\* The handler gives the space back.
LEMMA HandlerTypes == ASSUME Types, Handler PROVE Types'
<1> USE DEF Types, Registered, undisturbed, mainVars, kernelVars, HStep
<1>1. CASE Deliver
  BY <1>1, NoFdAssumption, HandlerRegistered DEF Deliver, TypeOK
<1>2. CASE HDisable \/ HFind \/ HCrash
  BY <1>2, HandlerRegistered
     DEF HDisable, DisableFd, IoctlFails, HFind, Missed, HCrash, TypeOK
<1>3. CASE HRead
  <2>1. UNCHANGED <<enabled, next, lost, pending, hfd, hpc>> /\ UNCHANGED undisturbed
    BY <1>3 DEF HRead, Loop
  <2> QED
    BY <1>3, <2>1, ReadTypes, HandlerRegistered DEF TypeOK
<1>4. CASE HEmpty
  BY <1>4, HandlerRegistered DEF HEmpty, TypeOK
<1>5. CASE HTail
  <2>1. taken' \in [Fds -> 0..RingCap] /\ \A fd \in Fds : Len(ring[fd]) + taken'[fd] <= RingCap
    BY <1>5, RingCapAssumption DEF HTail, TypeOK
  <2> QED
    BY <1>5, <2>1, HandlerRegistered DEF HTail, TypeOK
<1>6. CASE HEnable
  BY <1>6, HandlerRegistered DEF HEnable, EnableFd, IoctlFails, TypeOK
<1> QED
  BY <1>1, <1>2, <1>3, <1>4, <1>5, <1>6 DEF Handler

\* Types is inductive.
LEMMA TypesStep == Types /\ [Next]_vars => Types'
<1> SUFFICES ASSUME Types, [Next]_vars PROVE Types'
  OBVIOUS
<1>1. CASE UNCHANGED vars
  BY <1>1 DEF vars, mainVars, others, kernelVars, handlerVars, Types, TypeOK, Registered, Over
<1> QED
  BY <1>1, MainTypes, KernelTypes, HandlerTypes DEF Next

\* Whatever fails and whatever the kernel records: no ring and no event buffer ever
\* holds more than its capacity, and a handler runs for the fd it was sent for.
THEOREM SamplingTypes == Spec => []TypeOK
<1>1. Types => TypeOK
  BY DEF Types
<1> QED
  BY InitTypes, TypesStep, <1>1, PTL DEF Spec

(***************************************************************************)
(* One metric                                                              *)
(***************************************************************************)

\* The event of the one metric is, or is about to be, switched on.
Active == enabled # {} \/ todo # {} \/ pending # NoFd \/ hfd # NoFd \/ main = "enable"

\* By then it is set up, no other fd is left, and add_metric is past its map.
SetUp == /\ Active => /\ \A fd \in Fds : signal[fd] = "SIGPROF"
                      /\ (main \in {"user", "enable", "stopped"} \/ Over)
         /\ Active \/ main \in {"map", "emplace", "setup"} => opened = Fds

\* The rings and the addresses are what the kernel makes them.
RingTypes == /\ ring \in [Fds -> Seq(Records)]
             /\ next \in [Fds -> 1..M]
             /\ signal \in [Fds -> Signals]

OneInv == Registered /\ SetUp /\ RingTypes /\ Announced

\* A sample after an append was there before or is the new record.
LEMMA AppendedSample ==
  ASSUME RingTypes, NEW fd \in Fds, NEW r \in Records,
         ring' = [ring EXCEPT ![fd] = Append(@, r)]
  PROVE  /\ ring' \in [Fds -> Seq(Records)]
         /\ HasSample(fd)' => HasSample(fd) \/ r.type = "SAMPLE"
<1>1. ring[fd] \in Seq(Records) /\ ring'[fd] = Append(ring[fd], r)
  BY DEF RingTypes
<1>2. ring' \in [Fds -> Seq(Records)]
  BY <1>1 DEF RingTypes
<1>3. \A i \in 1..Len(ring'[fd]) :
        \/ i \in 1..Len(ring[fd]) /\ ring'[fd][i] = ring[fd][i]
        \/ ring'[fd][i] = r
  BY <1>1
<1> QED
  BY <1>2, <1>3 DEF HasSample

\* At first the event is off and its ring empty.
LEMMA InitOne == Init => OneInv
<1> SUFFICES ASSUME Init PROVE OneInv
  OBVIOUS
<1>1. M \in Nat /\ M > 0
  BY MAssumption, RingCapAssumption, BufferSizeAssumption
<1>2. RingTypes
  BY <1>1 DEF Init, RingTypes, Signals
<1>3. SetUp
  BY DEF Init, SetUp, Active, Over
<1>4. Announced
  BY DEF Init, Announced, HasSample
<1> QED
  BY <1>2, <1>3, <1>4, InitRegistered DEF OneInv

\* The thread: whoever enters add_metric finds nothing active.
LEMMA MainOne == ASSUME NEW f, Fds = {f}, OneInv, Main PROVE OneInv'
<1> USE DEF others, kernelVars, handlerVars, Step
<1>1. RingTypes' /\ Announced'
  <2>1. UNCHANGED <<ring, next, hpc, hfd>>
    BY DEF Main, AddMetric, EventOpen, MapRing, Emplace, Setup, Enable, OpenFails, MapRingFails,
           SetupFails, Stop, Return, Exit
  <2>2. signal' \in [Fds -> Signals]
    BY DEF Main, AddMetric, EventOpen, MapRing, Emplace, Setup, Enable, OpenFails, MapRingFails,
           SetupFails, Stop, Return, Exit, OneInv, RingTypes, Signals
  <2>3. Over' \/ (pending' = pending /\ ~Over)
    BY DEF Main, AddMetric, EventOpen, MapRing, Emplace, Setup, Enable, OpenFails, MapRingFails,
           SetupFails, Stop, Return, Exit, Over
  <2> QED
    BY <2>1, <2>2, <2>3 DEF OneInv, RingTypes, Announced, HasSample
<1>2. SetUp'
  <2>1. CASE AddMetric
    BY <2>1 DEF AddMetric, OneInv, SetUp, Active, Over
  <2>2. CASE MapRing \/ Emplace
    BY <2>2 DEF MapRing, Emplace, OneInv, SetUp, Active, Over
  <2>3. CASE Stop \/ Return
    <3>1. /\ UNCHANGED <<signal, opened, enabled, todo, pending, hfd>>
          /\ main' \in {"stopped", "ending"}
      BY <2>3 DEF Stop, Return
    <3>2. Active' => Active
      BY <3>1 DEF Active
    <3> QED
      BY <3>1, <3>2 DEF OneInv, SetUp, Over
  <2>4. CASE Exit
    BY <2>4 DEF Exit, OneInv, SetUp, Active, Over
  <2>5. CASE EventOpen
    <3>1. /\ UNCHANGED <<signal, enabled, todo, pending, hfd>>
          /\ main = "open" /\ main' = "map"
          /\ \E fd \in Fds : opened' = opened \cup {fd}
      BY <2>5 DEF EventOpen
    <3>2. ~Active
      BY <3>1 DEF OneInv, SetUp, Over
    <3>3. ~Active'
      BY <3>1, <3>2 DEF Active
    <3>4. opened' = Fds
      BY <3>1 DEF OneInv, Registered
    <3> QED
      BY <3>1, <3>3, <3>4 DEF SetUp
  <2>6. CASE Setup
    BY <2>6 DEF Setup, OneInv, Registered, RingTypes, SetUp, Active, Over
  <2>7. CASE OpenFails \/ MapRingFails \/ SetupFails
    BY <2>7 DEF OpenFails, MapRingFails, SetupFails, OneInv, SetUp, Active, Over
  <2>8. CASE Enable
    BY <2>8 DEF Enable, OneInv, SetUp, Active, Over
  <2> QED
    BY <2>1, <2>2, <2>3, <2>4, <2>5, <2>6, <2>7, <2>8 DEF Main
<1> QED
  BY <1>1, <1>2, MainRegistered DEF OneInv

\* The kernel: a sample sets the signal pending, unless it is already.
LEMMA KernelOne == ASSUME NEW f, Fds = {f}, OneInv, Kernel PROVE OneInv'
<1>1. SetUp'
  BY DEF Kernel, Overflow, SideBand, OneInv, SetUp, Active, Over, mainVars, handlerVars
<1>2. CASE \E fd \in Fds : Overflow(fd)
  <2>1. Overflow(f) /\ f \in enabled
    BY <1>2 DEF Overflow
  <2>2. pending' = f
    BY <2>1 DEF Overflow, OneInv, SetUp, Active, Registered
  <2>3. RingTypes'
    <3>1. PICK addr \in {next[f]} \cup (IF "zero" \in Noise THEN {0} ELSE {}) :
            /\ ring' = IF HasSpace(f) THEN [ring EXCEPT ![f] = Append(@, Sample(addr))] ELSE ring
            /\ next' = IF addr = 0 THEN next ELSE [next EXCEPT ![f] = (@ % M) + 1]
      BY <2>1 DEF Overflow
    <3>2. next[f] \in 1..M /\ RingTypes
      BY DEF OneInv, RingTypes
    <3>3. Sample(addr) \in Records
      BY <3>2, MAssumption DEF Sample, Records
    <3>4. ring' \in [Fds -> Seq(Records)]
      BY <3>1, <3>2, <3>3, AppendedSample DEF RingTypes
    <3>5. next' \in [Fds -> 1..M]
      BY <3>1, <3>2, NextAddress DEF RingTypes
    <3> QED
      BY <3>2, <3>4, <3>5, <2>1 DEF RingTypes, Overflow
  <2> QED
    BY <1>1, <2>2, <2>3, KernelRegistered DEF OneInv, Announced
<1>3. CASE \E fd \in Fds : SideBand(fd)
  <2>1. /\ ring' = [ring EXCEPT ![f] = Append(@, OtherRecord)]
        /\ UNCHANGED <<signal, next, pending, hfd, hpc, main>>
    BY <1>3 DEF SideBand, handlerVars, mainVars
  <2>2. OtherRecord \in Records /\ OtherRecord.type # "SAMPLE"
    BY MAssumption DEF OtherRecord, Records
  <2>3. ring' \in [Fds -> Seq(Records)] /\ (HasSample(f)' => HasSample(f))
    BY <2>1, <2>2, AppendedSample DEF OneInv
  <2> QED
    BY <1>1, <2>1, <2>3, KernelRegistered DEF OneInv, RingTypes, Announced, Over
<1> QED
  BY <1>2, <1>3 DEF Kernel

\* The handler: the lookup cannot miss in a thread that lives, so it reads until the
\* ring is empty.
LEMMA HandlerOne == ASSUME NEW f, Fds = {f}, OneInv, Handler PROVE OneInv'
<1> USE DEF HStep, undisturbed, kernelVars
<1>1. SetUp' /\ (Over => Over')
  <2>1. UNCHANGED <<signal, opened, todo>> /\ (main' = main \/ main' = "terminated")
    BY DEF Handler, Deliver, HDisable, HFind, HCrash, HRead, HEmpty, HTail, HEnable, mainVars
  <2>2. (main = "enable" /\ main' = main) \/ main' # "enable"
    BY <2>1
  <2>3. Active' => Active
    BY <2>1 DEF Handler, Deliver, HDisable, DisableFd, IoctlFails, HFind, HCrash, HRead, HEmpty,
           HTail, HEnable, EnableFd, Active, mainVars, OneInv, Registered
  <2> QED
    BY <2>1, <2>2, <2>3 DEF OneInv, SetUp, Over
<1>2. CASE Deliver
  BY <1>1, <1>2, HandlerRegistered DEF Deliver, OneInv, Registered, RingTypes, Announced, HasSample
<1>3. CASE HDisable
  BY <1>1, <1>3, HandlerRegistered DEF HDisable, OneInv, RingTypes, Announced, HasSample
<1>4. CASE HFind
  <2>1. ~Over => hfd \in ring_buffers_ /\ main # "emplace"
    BY <1>4 DEF HFind, OneInv, Registered, SetUp, Active, Over
  <2>2. hpc' = "read" \/ Over
    BY <1>4, <2>1 DEF HFind, FindOutcomes, Over
  <2> QED
    BY <1>1, <1>4, <2>2, HandlerRegistered DEF HFind, OneInv, RingTypes, Announced, HasSample
<1>5. CASE HCrash
  BY <1>1, <1>5, HandlerRegistered DEF HCrash, OneInv, RingTypes, Announced, HasSample, Over
<1>6. CASE HRead
  <2>1. hfd = f /\ hpc = "read" /\ UNCHANGED <<hfd, hpc, next, signal>>
    BY <1>6 DEF HRead, Loop, OneInv, Registered
  <2>2. ring' = [ring EXCEPT ![f] = Tail(@)] /\ ring[f] # <<>>
    BY <1>6, <2>1 DEF HRead, Rest
  <2>3. ring' \in [Fds -> Seq(Records)]
    BY <2>2 DEF OneInv, RingTypes
  <2> QED
    BY <1>1, <2>1, <2>3, HandlerRegistered DEF OneInv, RingTypes, Announced
<1>7. CASE HEmpty
  <2>1. ~HasSample(f)'
    <3>1. hfd = f /\ ring[f] = <<>> /\ ring' = ring
      BY <1>7 DEF HEmpty, OneInv, Registered
    <3> QED
      BY <3>1 DEF HasSample
  <2> QED
    BY <1>1, <1>7, <2>1, HandlerRegistered DEF HEmpty, OneInv, RingTypes, Announced
<1>8. CASE HTail \/ HEnable
  BY <1>1, <1>8, HandlerRegistered DEF HTail, HEnable, OneInv, RingTypes, Announced, HasSample
<1> QED
  BY <1>2, <1>3, <1>4, <1>5, <1>6, <1>7, <1>8 DEF Handler

\* The invariant of one metric is inductive.
LEMMA StepOne == ASSUME NEW f, Fds = {f} PROVE OneInv /\ [Next]_vars => OneInv'
<1> SUFFICES ASSUME OneInv, [Next]_vars PROVE OneInv'
  OBVIOUS
<1>1. CASE UNCHANGED vars
  BY <1>1 DEF vars, mainVars, others, kernelVars, handlerVars, OneInv, Registered, SetUp, Active,
              Over, RingTypes, Announced, HasSample
<1> QED
  BY <1>1, MainOne, KernelOne, HandlerOne DEF Next

\* With one metric in the thread, no sample is in the ring without a signal pending
\* for it or a handler that has yet to see the ring empty: whichever calls fail.
THEOREM OneMetricAnnounced == ASSUME NEW f, Fds = {f} PROVE Spec => []Announced
<1>1. OneInv => Announced
  BY DEF OneInv
<1>2. OneInv /\ [Next]_vars => OneInv'
  BY StepOne
<1> QED
  BY InitOne, <1>1, <1>2, PTL DEF Spec

\* With one metric in the thread, the handler never looks into the map while
\* event_open inserts into it.
THEOREM OneMetricUndisturbed == ASSUME NEW f, Fds = {f} PROVE Spec => []LookupUndisturbed
<1>1. OneInv => LookupUndisturbed
  BY DEF OneInv, Registered, SetUp, Active, Over, LookupUndisturbed
<1>2. OneInv /\ [Next]_vars => OneInv'
  BY StepOne
<1> QED
  BY InitOne, <1>1, <1>2, PTL DEF Spec

(***************************************************************************)
(* Positions: Nth finds each by its rank, so that an element appended is   *)
(* the last of those that count and one removed at the head the first.     *)
(***************************************************************************)

UpTo(K, i) == {j \in K : j <= i}
Rank(K, i) == Cardinality(UpTo(K, i))

\* The positions of a sequence are numbers, and not too many.
LEMMA Few ==
  ASSUME NEW N \in Int, NEW K \in SUBSET (1..N)
  PROVE  /\ IsFiniteSet(K) /\ K \in SUBSET Nat /\ Cardinality(K) \in Nat
         /\ \A j \in K : j \in Nat /\ 1 <= j /\ j <= N
<1>1. \A j \in K : j \in 1..N
  OBVIOUS
<1>2. \A j \in K : j \in Nat /\ 1 <= j /\ j <= N
  BY <1>1
<1>3. IsFiniteSet(1..N)
  BY FS_Interval
<1>4. IsFiniteSet(K)
  BY <1>3, FS_Subset
<1> QED
  BY <1>2, <1>4, FS_CardinalityType

\* All of them are up to a bound of them.
LEMMA AllUpTo ==
  ASSUME NEW K, NEW n, \A j \in K : j <= n
  PROVE  UpTo(K, n) = K
  BY DEF UpTo

\* A finite set of positions ranks them, a later one higher.
LEMMA Ranks ==
  ASSUME NEW K \in SUBSET Nat, IsFiniteSet(K)
  PROVE  /\ Cardinality(K) \in Nat
         /\ \A i \in Nat : /\ Rank(K, i) \in 0..Cardinality(K)
                           /\ i \in K => Rank(K, i) \in 1..Cardinality(K)
         /\ \A i \in K, j \in K : i < j => Rank(K, i) < Rank(K, j)
<1>1. Cardinality(K) \in Nat
  BY FS_CardinalityType
<1>2. ASSUME NEW i \in Nat
      PROVE  /\ IsFiniteSet(UpTo(K, i)) /\ Rank(K, i) \in Nat /\ Rank(K, i) <= Cardinality(K)
             /\ i \in K => Rank(K, i) # 0
  <2>1. UpTo(K, i) \in SUBSET K
    BY DEF UpTo
  <2>2. IsFiniteSet(UpTo(K, i)) /\ Rank(K, i) <= Cardinality(K)
    BY <2>1, FS_Subset DEF Rank
  <2>3. Rank(K, i) \in Nat
    BY <2>2, FS_CardinalityType DEF Rank
  <2>4. i \in K => UpTo(K, i) # {}
    BY <1>2 DEF UpTo
  <2> QED
    BY <2>2, <2>3, <2>4, FS_EmptySet DEF Rank
<1>3. ASSUME NEW i \in K, NEW j \in K, i < j
      PROVE  Rank(K, i) < Rank(K, j)
  <2>0. i \in Nat /\ j \in Nat /\ \A k \in K : k \in Nat
    OBVIOUS
  <2>4. \A k \in K : k <= i => k <= j
    BY <1>3, <2>0
  <2>5. UpTo(K, i) \in SUBSET UpTo(K, j)
    BY <2>4 DEF UpTo
  <2>6. j <= j /\ ~(j <= i)
    BY <1>3, <2>0
  <2>1. UpTo(K, i) \in SUBSET UpTo(K, j) /\ j \in UpTo(K, j) /\ j \notin UpTo(K, i)
    BY <2>5, <2>6 DEF UpTo
  <2>2. IsFiniteSet(UpTo(K, j))
    BY <1>2
  <2>3. Rank(K, i) <= Rank(K, j) /\ Rank(K, i) # Rank(K, j)
    BY <2>1, <2>2, FS_Subset DEF Rank
  <2> QED
    BY <1>2, <2>3
<1> QED
  BY <1>1, <1>2, <1>3

\* A position is the one of its rank.
LEMMA NthOfRank ==
  ASSUME NEW K \in SUBSET Nat, IsFiniteSet(K), NEW i \in K
  PROVE  Nth(K, Rank(K, i)) = i
<1> DEFINE n == Rank(K, i)
<1>1. Nth(K, n) \in K /\ Rank(K, Nth(K, n)) = n
  BY DEF Nth, Rank, UpTo
<1>2. \A j \in K : Rank(K, j) = Rank(K, i) => j = i
  BY Ranks
<1> QED
  BY <1>1, <1>2

\* There is one of every rank.
LEMMA NthExists ==
  ASSUME NEW K \in SUBSET Nat, IsFiniteSet(K), NEW n \in 1..Cardinality(K)
  PROVE  Nth(K, n) \in K /\ Rank(K, Nth(K, n)) = n
<1> DEFINE T == 1..Cardinality(K)
           f == [i \in K |-> Rank(K, i)]
<1>1. Cardinality(K) \in Nat /\ IsFiniteSet(T) /\ Cardinality(T) = Cardinality(K)
  BY Ranks, FS_Interval
<1>2. f \in [K -> T]
  BY Ranks
<1>3. \A i, j \in K : f[i] = f[j] => i = j
  BY Ranks
<1>4. f \in Injection(K, T)
  BY <1>2, <1>3 DEF Injection, IsInjective
<1>5. f \in Surjection(K, T)
  BY <1>1, <1>4, FS_Injection
<1>6. PICK i \in K : Rank(K, i) = n
  BY <1>5 DEF Surjection
<1> QED
  BY <1>6, NthOfRank

\* A position behind the others is the last of them.
LEMMA NthAppend ==
  ASSUME NEW N \in Nat, NEW K \in SUBSET (1..N)
  PROVE  LET L == K \cup {N + 1}
         IN  /\ IsFiniteSet(K) /\ Cardinality(K) \in Nat /\ Cardinality(L) = Cardinality(K) + 1
             /\ \A n \in 1..Cardinality(K) : Nth(L, n) = Nth(K, n) /\ Nth(K, n) \in K
             /\ Nth(L, Cardinality(K) + 1) = N + 1
<1> DEFINE L == K \cup {N + 1}
<1>1. /\ IsFiniteSet(K) /\ K \in SUBSET Nat /\ Cardinality(K) \in Nat
      /\ \A j \in K : j \in Nat /\ j <= N
  BY Few
<1>5. N + 1 \notin K /\ L \in SUBSET Nat /\ \A j \in L : j <= N + 1
  BY <1>1
<1>2. IsFiniteSet(L) /\ Cardinality(L) = Cardinality(K) + 1
  BY <1>1, <1>5, FS_AddElement
<1>3. ASSUME NEW n \in 1..Cardinality(K) PROVE Nth(L, n) = Nth(K, n) /\ Nth(K, n) \in K
  <2>1. PICK i \in K : i = Nth(K, n) /\ Rank(K, i) = n
    BY <1>1, NthExists
  <2>2. UpTo(L, i) = UpTo(K, i)
    BY <1>1 DEF UpTo
  <2>3. Rank(L, i) = n /\ i \in L
    BY <2>1, <2>2 DEF Rank
  <2> HIDE DEF L
  <2>4. Nth(L, n) = i
    BY <1>5, <1>2, <2>3, NthOfRank
  <2> QED
    BY <2>1, <2>4
<1>4. Nth(L, Cardinality(K) + 1) = N + 1
  <2>1. UpTo(L, N + 1) = L
    BY <1>5, AllUpTo
  <2>2. N + 1 \in L
    OBVIOUS
  <2> HIDE DEF L
  <2> QED
    BY <1>5, <1>2, <2>1, <2>2, NthOfRank DEF Rank
<1> QED
  BY <1>1, <1>2, <1>3, <1>4

\* Positions without the first of all, counted from the second.
Shifted(K, N) == {j \in 1..N-1 : j + 1 \in K}

\* They are the same, but for the first if it was among them.
LEMMA NthTail ==
  ASSUME NEW N \in Nat \ {0}, NEW K \in SUBSET (1..N)
  PROVE  LET d == IF 1 \in K THEN 1 ELSE 0
             L == Shifted(K, N)
         IN  /\ IsFiniteSet(K) /\ Cardinality(K) \in Nat /\ Cardinality(K) = Cardinality(L) + d
             /\ Cardinality(L) \in Nat /\ (d = 1 => Nth(K, 1) = 1)
             /\ \A n \in 1..Cardinality(L) :
                  Nth(L, n) \in L /\ Nth(K, n + d) = Nth(L, n) + 1
<1> DEFINE d == IF 1 \in K THEN 1 ELSE 0
           L == Shifted(K, N)
<1>1. /\ IsFiniteSet(K) /\ K \in SUBSET Nat /\ Cardinality(K) \in Nat
      /\ \A j \in K : j \in Nat /\ 1 <= j /\ j <= N
  BY Few
<1>2. /\ L \in SUBSET (1..N-1) /\ IsFiniteSet(L) /\ L \in SUBSET Nat /\ Cardinality(L) \in Nat
      /\ \A j \in L : j \in Nat /\ 1 <= j /\ j <= N - 1
  <2>1. L \in SUBSET (1..N-1)
    BY DEF Shifted
  <2> HIDE DEF L
  <2> QED
    BY <2>1, Few
<1>3. ASSUME NEW i \in 0..N-1 PROVE Rank(K, i + 1) = Rank(L, i) + d
  <2> DEFINE S == UpTo(L, i)
             T == UpTo(K, i + 1)
             f == [j \in S |-> j + 1]
  <2>1. S \in SUBSET L /\ T \in SUBSET K /\ IsFiniteSet(S) /\ IsFiniteSet(T)
    BY <1>1, <1>2, FS_Subset DEF UpTo
  <2>2. f \in Bijection(S, T \ {1})
    <3>1. f \in [S -> T \ {1}]
      BY <1>2 DEF UpTo, Shifted
    <3>2. \A j, k \in S : f[j] = f[k] => j = k
      BY <1>2, <2>1
    <3>3. \A k \in T \ {1} : k - 1 \in S /\ f[k - 1] = k
      BY DEF UpTo, Shifted
    <3> QED
      BY <3>1, <3>2, <3>3 DEF Bijection, Injection, IsInjective, Surjection
  <2>3. Cardinality(T \ {1}) = Cardinality(S)
    BY <2>1, <2>2, FS_Bijection DEF ExistsBijection
  <2>4. 1 \in T <=> 1 \in K
    BY DEF UpTo
  <2>5. /\ Cardinality(T) \in Nat
        /\ Cardinality(T \ {1}) = IF 1 \in T THEN Cardinality(T) - 1 ELSE Cardinality(T)
    BY <2>1, FS_RemoveElement, FS_CardinalityType
  <2> HIDE DEF S, T
  <2>6. Cardinality(T) = Cardinality(S) + d
    BY <2>3, <2>4, <2>5
  <2> QED
    BY <2>6 DEF Rank, S, T
<1>4. Cardinality(K) = Cardinality(L) + d
  <2>1. UpTo(K, N) = K /\ UpTo(L, N - 1) = L
    BY <1>1, <1>2, AllUpTo
  <2>2. N - 1 \in 0..N-1 /\ (N - 1) + 1 = N
    OBVIOUS
  <2>3. Rank(K, (N - 1) + 1) = Rank(L, N - 1) + d
    BY <1>3, <2>2
  <2> HIDE DEF L, d
  <2> QED
    BY <2>1, <2>2, <2>3 DEF Rank
<1>5. d = 1 => Nth(K, 1) = 1
  <2> SUFFICES ASSUME 1 \in K PROVE Nth(K, 1) = 1
    OBVIOUS
  <2>3. \A j \in K : j <= 1 <=> j = 1
    BY <1>1
  <2>1. UpTo(K, 1) = {1}
    BY <2>3 DEF UpTo
  <2>2. Rank(K, 1) = 1
    BY <2>1, FS_Singleton DEF Rank
  <2> QED
    BY <1>1, <2>2, NthOfRank
<1>6. ASSUME NEW n \in 1..Cardinality(L) PROVE Nth(L, n) \in L /\ Nth(K, n + d) = Nth(L, n) + 1
  <2>1. PICK i \in L : i = Nth(L, n) /\ Rank(L, i) = n
    BY <1>2, NthExists
  <2>2. i \in 0..N-1 /\ i + 1 \in K
    BY DEF Shifted
  <2>3. Rank(K, i + 1) = n + d
    BY <1>3, <2>1, <2>2
  <2>4. Nth(K, n + d) = i + 1
    BY <1>1, <2>2, <2>3, NthOfRank
  <2> QED
    BY <2>1, <2>4
<1> QED
  BY <1>1, <1>2, <1>4, <1>5, <1>6

\* The addresses at some positions of a sequence.
LEMMA AddrsTyped ==
  ASSUME NEW S, NEW s \in Seq(S), NEW K \in SUBSET (1..Len(s)),
         NEW T, \A i \in K : s[i].addr \in T
  PROVE  /\ AddrsAt(s, K) \in Seq(T)
         /\ Len(AddrsAt(s, K)) = Cardinality(K) /\ Cardinality(K) \in Nat
         /\ \A n \in 1..Cardinality(K) : /\ Nth(K, n) \in K
                                         /\ AddrsAt(s, K)[n] = s[Nth(K, n)].addr
<1>1. IsFiniteSet(K) /\ K \in SUBSET Nat /\ Cardinality(K) \in Nat
  <2>1. Len(s) \in Int
    OBVIOUS
  <2> QED
    BY <2>1, Few
<1>2. \A n \in 1..Cardinality(K) : Nth(K, n) \in K
  BY <1>1, NthExists
<1>3. AddrsAt(s, K) \in [1..Cardinality(K) -> T]
  BY <1>2 DEF AddrsAt
<1>4. AddrsAt(s, K) \in Seq(T) /\ Len(AddrsAt(s, K)) = Cardinality(K)
  BY <1>1, <1>3
<1> QED
  BY <1>1, <1>2, <1>4 DEF AddrsAt

\* What is appended does not show at the old positions, and comes last at its own.
LEMMA AddrsAppend ==
  ASSUME NEW S, NEW s \in Seq(S), NEW e \in S, NEW K \in SUBSET (1..Len(s)),
         NEW T, \A i \in K : s[i].addr \in T
  PROVE  /\ AddrsAt(Append(s, e), K) = AddrsAt(s, K)
         /\ e.addr \in T =>
              AddrsAt(Append(s, e), K \cup {Len(s) + 1}) = Append(AddrsAt(s, K), e.addr)
<1> DEFINE t == Append(s, e)
           c == Cardinality(K)
           L == K \cup {Len(s) + 1}
           a == AddrsAt(s, K)
<1>1. /\ t \in Seq(S) /\ Len(t) = Len(s) + 1 /\ Len(s) \in Nat
      /\ \A i \in 1..Len(s) : t[i] = s[i]
      /\ t[Len(s) + 1] = e
  OBVIOUS
<1>2. /\ a \in Seq(T) /\ Len(a) = c /\ c \in Nat
      /\ \A n \in 1..c : Nth(K, n) \in K /\ a[n] = s[Nth(K, n)].addr
  BY AddrsTyped
<1>3. K \in SUBSET (1..Len(t)) /\ L \in SUBSET (1..Len(t))
  <2>1. Len(s) + 1 \in 1..Len(t) /\ \A i \in 1..Len(s) : i \in 1..Len(t)
    BY <1>1
  <2> HIDE DEF t
  <2> QED
    BY <2>1
<1>4. \A i \in K : t[i] = s[i] /\ t[i].addr \in T
  BY <1>1
<1>5. AddrsAt(t, K) = a
  BY <1>2, <1>4 DEF AddrsAt
<1>6. ASSUME e.addr \in T PROVE AddrsAt(t, L) = Append(a, e.addr)
  <2>1. /\ Cardinality(L) = c + 1
        /\ \A n \in 1..c : Nth(L, n) = Nth(K, n)
        /\ Nth(L, c + 1) = Len(s) + 1
    BY <1>1, NthAppend
  <2>2. \A i \in L : t[i].addr \in T
    BY <1>1, <1>4, <1>6
  <2> HIDE DEF t, L, a
  <2>3. /\ AddrsAt(t, L) \in Seq(T) /\ Len(AddrsAt(t, L)) = c + 1
        /\ \A n \in 1..c + 1 : AddrsAt(t, L)[n] = t[Nth(L, n)].addr
    BY <1>1, <1>3, <2>1, <2>2, AddrsTyped
  <2>4. /\ Append(a, e.addr) \in Seq(T) /\ Len(Append(a, e.addr)) = c + 1
        /\ \A n \in 1..c : Append(a, e.addr)[n] = a[n]
        /\ Append(a, e.addr)[c + 1] = e.addr
    BY <1>2, <1>6
  <2>5. ASSUME NEW n \in 1..c + 1 PROVE AddrsAt(t, L)[n] = Append(a, e.addr)[n]
    <3>1. CASE n \in 1..c
      BY <1>2, <1>4, <2>1, <2>3, <2>4, <3>1
    <3>2. CASE n = c + 1
      BY <1>1, <2>1, <2>3, <2>4, <3>2
    <3> QED
      BY <1>2, <3>1, <3>2
  <2> QED
    BY <2>3, <2>4, <2>5, SeqEqual
<1> QED
  BY <1>5, <1>6

\* Without its first element a sequence has the same addresses at the shifted positions,
\* but for the first one's.
LEMMA AddrsTail ==
  ASSUME NEW S, NEW s \in Seq(S), s # <<>>, NEW K \in SUBSET (1..Len(s)),
         NEW T, \A i \in K : s[i].addr \in T
  PROVE  LET a == AddrsAt(s, K)
             b == AddrsAt(Tail(s), Shifted(K, Len(s)))
         IN  /\ 1 \notin K => b = a
             /\ 1 \in K => a # <<>> /\ Head(a) = s[1].addr /\ b = Tail(a)
<1> DEFINE t == Tail(s)
           N == Len(s)
           L == Shifted(K, N)
           d == IF 1 \in K THEN 1 ELSE 0
           a == AddrsAt(s, K)
           b == AddrsAt(t, L)
<1>1. /\ N \in Nat \ {0} /\ t \in Seq(S) /\ Len(t) = N - 1
      /\ \A j \in 1..N-1 : t[j] = s[j + 1]
  OBVIOUS
<1>2. /\ a \in Seq(T) /\ Len(a) = Cardinality(K) /\ Cardinality(K) \in Nat
      /\ \A n \in 1..Cardinality(K) : Nth(K, n) \in K /\ a[n] = s[Nth(K, n)].addr
  BY AddrsTyped
<1>3. /\ Cardinality(K) = Cardinality(L) + d /\ Cardinality(L) \in Nat
      /\ d = 1 => Nth(K, 1) = 1
      /\ \A n \in 1..Cardinality(L) : Nth(L, n) \in L /\ Nth(K, n + d) = Nth(L, n) + 1
  BY <1>1, NthTail
<1>4. \A j \in L : j \in 1..N-1 /\ j + 1 \in K
  BY DEF Shifted
<1>5. L \in SUBSET (1..Len(t)) /\ \A j \in L : t[j] = s[j + 1] /\ t[j].addr \in T
  BY <1>1, <1>4
<1> HIDE DEF t, L, N
<1>6. /\ b \in Seq(T) /\ Len(b) = Cardinality(L)
      /\ \A n \in 1..Cardinality(L) : b[n] = t[Nth(L, n)].addr
  BY <1>1, <1>5, AddrsTyped
<1> HIDE DEF a, b
<1>7. ASSUME NEW n \in 1..Cardinality(L) PROVE b[n] = a[n + d]
  <2>1. n + d \in 1..Cardinality(K)
    BY <1>3
  <2>2. a[n + d] = s[Nth(L, n) + 1].addr
    BY <1>2, <1>3, <2>1
  <2>3. b[n] = t[Nth(L, n)].addr /\ Nth(L, n) \in L
    BY <1>3, <1>6
  <2> QED
    BY <1>5, <2>2, <2>3
<1>8. ASSUME 1 \notin K PROVE b = a
  <2>1. Len(b) = Len(a) /\ \A n \in 1..Len(b) : b[n] = a[n]
    BY <1>2, <1>3, <1>6, <1>7, <1>8
  <2> QED
    BY <1>2, <1>6, <2>1, SeqEqual
<1>9. ASSUME 1 \in K PROVE a # <<>> /\ Head(a) = s[1].addr /\ b = Tail(a)
  <2>1. Len(a) = Cardinality(L) + 1 /\ Nth(K, 1) = 1
    BY <1>2, <1>3, <1>9
  <2>2. a # <<>> /\ Head(a) = a[1] /\ a[1] = s[1].addr
    BY <1>2, <1>3, <2>1
  <2>3. /\ Tail(a) \in Seq(T) /\ Len(Tail(a)) = Cardinality(L)
        /\ \A n \in 1..Cardinality(L) : Tail(a)[n] = a[n + 1]
    BY <1>2, <1>3, <2>1, <2>2
  <2>4. \A n \in 1..Cardinality(L) : b[n] = Tail(a)[n]
    BY <1>7, <1>9, <2>3
  <2> QED
    BY <1>6, <2>2, <2>3, <2>4, SeqEqual
<1> QED
  BY <1>8, <1>9 DEF a, b, t, L, N

(***************************************************************************)
(* What a ring and the event buffer hold of an event                       *)
(***************************************************************************)

KeptAddrs(records) == AddrsAt(records, Kept(records))
OfAddrs(fd, events) == AddrsAt(events, Of(fd, events))

\* The addresses waiting in a ring are addresses.
LEMMA KeptTyped ==
  ASSUME NEW r \in Seq(Records)
  PROVE  /\ Kept(r) \in SUBSET (1..Len(r))
         /\ \A i \in Kept(r) : r[i].addr \in 1..M
         /\ KeptAddrs(r) \in Seq(1..M)
<1>1. M \in Nat /\ \A i \in 1..Len(r) : r[i].addr \in 0..M
  <2>1. \A i \in 1..Len(r) : r[i] \in Records
    OBVIOUS
  <2> QED
    BY <2>1, MAssumption DEF Records
<1>2. Kept(r) \in SUBSET (1..Len(r)) /\ \A i \in Kept(r) : r[i].addr \in 1..M
  BY <1>1 DEF Kept
<1> QED
  BY <1>2, AddrsTyped DEF KeptAddrs

\* A record the handler keeps adds its address behind the others.
LEMMA KeptAppend ==
  ASSUME NEW r \in Seq(Records), NEW e \in Records
  PROVE  KeptAddrs(Append(r, e)) = IF e.type = "SAMPLE" /\ e.addr # 0
                                   THEN Append(KeptAddrs(r), e.addr) ELSE KeptAddrs(r)
<1> DEFINE t == Append(r, e)
           N == Len(r)
<1>1. /\ N \in Nat /\ DOMAIN r = 1..N /\ DOMAIN t = 1..N+1
      /\ t[N + 1] = e /\ \A i \in 1..N : t[i] = r[i]
  OBVIOUS
<1>2. \A i \in 1..N+1 : i \in 1..N \/ i = N + 1
  BY <1>1
<1>3. \A i \in 1..N : i \in 1..N+1 /\ i # N + 1
  BY <1>1
<1>4. N + 1 \in 1..N+1
  BY <1>1
<1> HIDE DEF t, N
<1>5. Kept(t) = IF e.type = "SAMPLE" /\ e.addr # 0 THEN Kept(r) \cup {N + 1} ELSE Kept(r)
  BY <1>1, <1>2, <1>3, <1>4 DEF Kept
<1>6. e.addr # 0 => e.addr \in 1..M
  BY MAssumption DEF Records
<1>7. /\ AddrsAt(t, Kept(r)) = AddrsAt(r, Kept(r))
      /\ e.addr \in 1..M => AddrsAt(t, Kept(r) \cup {N + 1}) = Append(AddrsAt(r, Kept(r)), e.addr)
  BY KeptTyped, AddrsAppend DEF t, N
<1> QED
  BY <1>5, <1>6, <1>7 DEF KeptAddrs, t

\* The record read() returns has the oldest address, if it has one.
LEMMA KeptTail ==
  ASSUME NEW r \in Seq(Records), r # <<>>
  PROVE  IF Head(r).type = "SAMPLE" /\ Head(r).addr # 0
         THEN /\ KeptAddrs(r) # <<>> /\ Head(KeptAddrs(r)) = Head(r).addr
              /\ KeptAddrs(Tail(r)) = Tail(KeptAddrs(r))
         ELSE KeptAddrs(Tail(r)) = KeptAddrs(r)
<1> DEFINE t == Tail(r)
           N == Len(r)
<1>1. /\ N \in Nat \ {0} /\ DOMAIN r = 1..N /\ DOMAIN t = 1..N-1
      /\ Head(r) = r[1] /\ \A j \in 1..N-1 : t[j] = r[j + 1]
  OBVIOUS
<1>2. 1 \in 1..N /\ \A j \in 1..N-1 : j + 1 \in 1..N
  BY <1>1
<1> HIDE DEF t, N
<1>3. Kept(t) = Shifted(Kept(r), N)
  BY <1>1, <1>2 DEF Kept, Shifted
<1>4. 1 \in Kept(r) <=> Head(r).type = "SAMPLE" /\ Head(r).addr # 0
  BY <1>1, <1>2 DEF Kept
<1>5. LET a == AddrsAt(r, Kept(r))
          b == AddrsAt(t, Shifted(Kept(r), N))
      IN  /\ 1 \notin Kept(r) => b = a
          /\ 1 \in Kept(r) => a # <<>> /\ Head(a) = r[1].addr /\ b = Tail(a)
  BY KeptTyped, AddrsTail DEF t, N
<1> QED
  BY <1>1, <1>3, <1>4, <1>5 DEF KeptAddrs, t

\* So are those in the event buffer.
LEMMA OfTyped ==
  ASSUME NEW fd \in Fds, NEW b \in Seq(Addresses)
  PROVE  /\ Of(fd, b) \in SUBSET (1..Len(b))
         /\ \A i \in Of(fd, b) : b[i].addr \in 1..M
         /\ OfAddrs(fd, b) \in Seq(1..M)
<1>1. \A i \in 1..Len(b) : b[i].addr \in 1..M
  <2>1. \A i \in 1..Len(b) : b[i] \in Addresses
    OBVIOUS
  <2> QED
    BY <2>1 DEF Addresses
<1>2. Of(fd, b) \in SUBSET (1..Len(b)) /\ \A i \in Of(fd, b) : b[i].addr \in 1..M
  BY <1>1 DEF Of
<1> QED
  BY <1>2, AddrsTyped DEF OfAddrs

\* An event stored is the newest of its fd, and no other's.
LEMMA OfAppend ==
  ASSUME NEW fd \in Fds, NEW b \in Seq(Addresses), NEW e \in Addresses
  PROVE  OfAddrs(fd, Append(b, e)) = IF e.fd = fd THEN Append(OfAddrs(fd, b), e.addr)
                                     ELSE OfAddrs(fd, b)
<1> DEFINE t == Append(b, e)
           N == Len(b)
<1>1. /\ N \in Nat /\ DOMAIN b = 1..N /\ DOMAIN t = 1..N+1
      /\ t[N + 1] = e /\ \A i \in 1..N : t[i] = b[i]
  OBVIOUS
<1>2. \A i \in 1..N+1 : i \in 1..N \/ i = N + 1
  BY <1>1
<1>3. \A i \in 1..N : i \in 1..N+1 /\ i # N + 1
  BY <1>1
<1>4. N + 1 \in 1..N+1
  BY <1>1
<1> HIDE DEF t, N
<1>5. Of(fd, t) = IF e.fd = fd THEN Of(fd, b) \cup {N + 1} ELSE Of(fd, b)
  BY <1>1, <1>2, <1>3, <1>4 DEF Of
<1>6. e.addr \in 1..M
  BY DEF Addresses
<1>7. /\ AddrsAt(t, Of(fd, b)) = AddrsAt(b, Of(fd, b))
      /\ e.addr \in 1..M => AddrsAt(t, Of(fd, b) \cup {N + 1})
                              = Append(AddrsAt(b, Of(fd, b)), e.addr)
  <2>1. /\ Of(fd, b) \in SUBSET (1..Len(b))
        /\ \A i \in Of(fd, b) : b[i].addr \in 1..M
    BY OfTyped
  <2> QED
    BY <2>1, AddrsAppend DEF t, N
<1> QED
  BY <1>5, <1>6, <1>7 DEF OfAddrs, t

\* One sequence is another, or what is left of it without its first element.
Sheds(t, s) == t = s \/ (s # <<>> /\ t = Tail(s))

\* The oldest event that makes room is the oldest of its fd.
LEMMA OfTail ==
  ASSUME NEW fd \in Fds, NEW b \in Seq(Addresses), b # <<>>
  PROVE  Sheds(OfAddrs(fd, Tail(b)), OfAddrs(fd, b))
<1> DEFINE t == Tail(b)
           N == Len(b)
<1>1. /\ N \in Nat \ {0} /\ DOMAIN b = 1..N /\ DOMAIN t = 1..N-1
      /\ \A j \in 1..N-1 : t[j] = b[j + 1]
  OBVIOUS
<1>2. \A j \in 1..N-1 : j + 1 \in 1..N
  BY <1>1
<1> HIDE DEF t, N
<1>3. Of(fd, t) = Shifted(Of(fd, b), N)
  BY <1>1, <1>2 DEF Of, Shifted
<1>4. LET a == AddrsAt(b, Of(fd, b))
          c == AddrsAt(t, Shifted(Of(fd, b), N))
      IN  /\ 1 \notin Of(fd, b) => c = a
          /\ 1 \in Of(fd, b) => a # <<>> /\ Head(a) = b[1].addr /\ c = Tail(a)
  BY OfTyped, AddrsTail DEF t, N
<1> QED
  BY <1>3, <1>4 DEF OfAddrs, Sheds, t

\* EventRingBuffer::append puts the newest event behind what it keeps.
LEMMA OfAppended ==
  ASSUME NEW fd \in Fds, NEW b \in Seq(Addresses), NEW e \in Addresses
  PROVE  \E p \in Seq(1..M) :
           /\ Sheds(p, OfAddrs(fd, b))
           /\ OfAddrs(fd, Appended(b, e)) = IF e.fd = fd THEN Append(p, e.addr) ELSE p
<1>1. CASE Len(b) < BufferSize
  <2>1. Appended(b, e) = Append(b, e)
    BY <1>1 DEF Appended
  <2> QED
    BY <2>1, OfAppend, OfTyped DEF Sheds
<1>2. CASE ~(Len(b) < BufferSize)
  <2>1. Appended(b, e) = Append(Tail(b), e)
    BY <1>2 DEF Appended
  <2>2. b # <<>> /\ Tail(b) \in Seq(Addresses)
    BY <1>2, BufferSizeAssumption
  <2> DEFINE p == OfAddrs(fd, Tail(b))
  <2>3. p \in Seq(1..M) /\ Sheds(p, OfAddrs(fd, b))
    BY <2>2, OfTyped, OfTail
  <2>4. OfAddrs(fd, Appended(b, e)) = IF e.fd = fd THEN Append(p, e.addr) ELSE p
    <3> DEFINE t == Tail(b)
    <3> HIDE DEF t
    <3>1. t \in Seq(Addresses)
      BY <2>2 DEF t
    <3>2. OfAddrs(fd, Append(t, e)) = IF e.fd = fd THEN Append(OfAddrs(fd, t), e.addr)
                                      ELSE OfAddrs(fd, t)
      BY <3>1, OfAppend
    <3> QED
      BY <2>1, <3>2 DEF t
  <2> QED
    BY <2>3, <2>4
<1> QED
  BY <1>1, <1>2

(***************************************************************************)
(* What a step does to the addresses of an event                           *)
(***************************************************************************)

\* Waiting and Stored by name, in both states of a step.
LEMMA WaitingIs ==
  /\ \A fd : Waiting(fd) = KeptAddrs(ring[fd]) /\ Waiting(fd)' = KeptAddrs(ring'[fd])
  /\ \A fd : Stored(fd) = IF event_data_ = NoBuffer THEN <<>> ELSE OfAddrs(fd, event_data_)
  /\ \A fd : Stored(fd)' = IF event_data_' = NoBuffer THEN <<>> ELSE OfAddrs(fd, event_data_')
  BY DEF Waiting, KeptAddrs, Stored, OfAddrs

\* They are addresses.
LEMMA SampledTyped ==
  ASSUME Types, NEW fd \in Fds
  PROVE  Waiting(fd) \in Seq(1..M) /\ Stored(fd) \in Seq(1..M)
<1>1. Waiting(fd) \in Seq(1..M)
  <2>1. ring[fd] \in Seq(Records)
    BY DEF Types, TypeOK
  <2> QED
    BY <2>1, KeptTyped, WaitingIs
<1>2. Stored(fd) \in Seq(1..M)
  <2>1. event_data_ = NoBuffer \/ event_data_ \in Seq(Addresses)
    BY DEF Types, TypeOK
  <2>2. <<>> \in Seq(1..M)
    OBVIOUS
  <2> QED
    BY <2>1, <2>2, OfTyped, WaitingIs
<1> QED
  BY <1>1, <1>2

\* A sample with an address joins the waiting ones of its event or is lost; without one
\* it is as if the kernel had recorded nothing.
LEMMA OverflowWaits ==
  ASSUME Types, NEW fd \in Fds, Overflow(fd)
  PROVE  /\ UNCHANGED event_data_ /\ lost \subseteq lost'
         /\ \A g \in Fds \ {fd} : Waiting(g)' = Waiting(g) /\ next'[g] = next[g]
         /\ \/ Waiting(fd)' = Waiting(fd) /\ (next'[fd] = next[fd] \/ fd \in lost')
            \/ Waiting(fd)' = Append(Waiting(fd), next[fd]) /\ next'[fd] = (next[fd] % M) + 1
<1>1. PICK addr \in {next[fd]} \cup (IF "zero" \in Noise THEN {0} ELSE {}) :
        /\ ring' = IF HasSpace(fd) THEN [ring EXCEPT ![fd] = Append(@, Sample(addr))] ELSE ring
        /\ next' = IF addr = 0 THEN next ELSE [next EXCEPT ![fd] = (@ % M) + 1]
        /\ lost' = IF addr = 0 \/ HasSpace(fd) THEN lost ELSE lost \cup {fd}
  BY DEF Overflow
<1>2. /\ ring \in [Fds -> Seq(Records)] /\ next \in [Fds -> 1..M]
      /\ next[fd] \in 1..M /\ ring[fd] \in Seq(Records) /\ M \in Nat
  BY MAssumption DEF Types, TypeOK
<1>3. UNCHANGED event_data_ /\ lost \subseteq lost'
  BY <1>1 DEF Overflow
<1>4. /\ next'[fd] = IF addr = 0 THEN next[fd] ELSE (next[fd] % M) + 1
      /\ \A g \in Fds \ {fd} : next'[g] = next[g]
  BY <1>1, <1>2
<1>5. CASE ~HasSpace(fd)
  BY <1>1, <1>3, <1>4, <1>5, WaitingIs
<1>6. CASE HasSpace(fd)
  <2>1. addr = next[fd] \/ addr = 0
    BY <1>1
  <2>2. addr \in 0..M
    BY <1>2, <2>1
  <2>3. Sample(addr) \in Records /\ Sample(addr).type = "SAMPLE" /\ Sample(addr).addr = addr
    BY <2>2 DEF Sample, Records
  <2>4. ring'[fd] = Append(ring[fd], Sample(addr)) /\ \A g \in Fds \ {fd} : ring'[g] = ring[g]
    BY <1>1, <1>2, <1>6
  <2>5. \A g \in Fds \ {fd} : Waiting(g)' = Waiting(g)
    BY <2>4, WaitingIs
  <2>6. Waiting(fd)' = IF addr # 0 THEN Append(Waiting(fd), addr) ELSE Waiting(fd)
    <3>1. KeptAddrs(Append(ring[fd], Sample(addr)))
            = IF addr # 0 THEN Append(KeptAddrs(ring[fd]), addr) ELSE KeptAddrs(ring[fd])
      BY <1>2, <2>3, KeptAppend
    <3> QED
      BY <3>1, <2>4, WaitingIs
  <2> QED
    BY <1>3, <1>4, <2>1, <2>5, <2>6
<1> QED
  BY <1>5, <1>6

\* A record that is no sample waits for nobody.
LEMMA SideBandWaits ==
  ASSUME Types, NEW fd \in Fds, SideBand(fd)
  PROVE  UNCHANGED <<event_data_, next, lost>> /\ \A g \in Fds : Waiting(g)' = Waiting(g)
<1>1. /\ ring' = [ring EXCEPT ![fd] = Append(@, OtherRecord)]
      /\ UNCHANGED <<event_data_, next, lost>>
  BY DEF SideBand
<1>2. ring \in [Fds -> Seq(Records)] /\ ring[fd] \in Seq(Records)
  BY DEF Types, TypeOK
<1>3. OtherRecord \in Records /\ OtherRecord.type # "SAMPLE"
  BY MAssumption DEF OtherRecord, Records
<1>4. KeptAddrs(Append(ring[fd], OtherRecord)) = KeptAddrs(ring[fd])
  BY <1>2, <1>3, KeptAppend
<1>5. ring'[fd] = Append(ring[fd], OtherRecord) /\ \A g \in Fds \ {fd} : ring'[g] = ring[g]
  BY <1>1, <1>2
<1> QED
  BY <1>1, <1>4, <1>5, WaitingIs

\* What read() returns is the oldest waiting address of its event, which the handler
\* stores if it can; or it is nothing the handler wants.
LEMMA ReadWaits ==
  ASSUME Types, HRead, NEW fd \in Fds, fd = hfd
  PROVE  /\ UNCHANGED <<next, lost>>
         /\ \A g \in Fds \ {fd} : Waiting(g)' = Waiting(g)
         /\ \/ Waiting(fd)' = Waiting(fd) /\ UNCHANGED event_data_
            \/ /\ Waiting(fd) # <<>> /\ Waiting(fd)' = Tail(Waiting(fd))
               /\ Head(Waiting(fd)) \in 1..M
               /\ event_data_' = IF event_data_ = NoBuffer THEN event_data_
                    ELSE Appended(event_data_, [fd |-> fd, addr |-> Head(Waiting(fd))])
<1>1. /\ UNCHANGED <<next, lost>> /\ ring[fd] # <<>> /\ ring[fd] \in Seq(Records)
      /\ ring' = [ring EXCEPT ![fd] = Tail(@)] /\ ring \in [Fds -> Seq(Records)]
      /\ event_data_' = Processed(Head(ring[fd]))
  BY DEF HRead, HStep, Rest, Types, TypeOK
<1>2. ring'[fd] = Tail(ring[fd]) /\ \A g \in Fds \ {fd} : ring'[g] = ring[g]
  BY <1>1
<1>3. \A g \in Fds \ {fd} : Waiting(g)' = Waiting(g)
  BY <1>2, WaitingIs
<1> DEFINE r == Head(ring[fd])
           w == Waiting(fd)
<1>4. IF r.type = "SAMPLE" /\ r.addr # 0
      THEN w # <<>> /\ Head(w) = r.addr /\ Waiting(fd)' = Tail(w)
      ELSE Waiting(fd)' = w
  BY <1>1, <1>2, KeptTail, WaitingIs
<1>5. CASE r.type = "SAMPLE" /\ r.addr # 0
  <2>1. r \in Records
    BY <1>1
  <2>2. r.addr \in 1..M
    BY <1>5, <2>1, MAssumption DEF Records
  <2>3. event_data_' = IF event_data_ = NoBuffer THEN event_data_
                       ELSE Appended(event_data_, [fd |-> fd, addr |-> r.addr])
    BY <1>1, <1>5 DEF Processed
  <2> QED
    BY <1>1, <1>3, <1>4, <1>5, <2>2, <2>3
<1>6. CASE ~(r.type = "SAMPLE" /\ r.addr # 0)
  <2>1. event_data_' = event_data_
    BY <1>1, <1>6 DEF Processed
  <2> QED
    BY <1>1, <1>3, <1>4, <1>6, <2>1
<1> QED
  BY <1>5, <1>6

\* No other step touches a ring, and none but add_metric and the end of the thread the
\* buffer.
LEMMA OtherStepsKeep ==
  ASSUME [Next]_vars, ~HRead, ~Kernel
  PROVE  /\ UNCHANGED <<next, lost>> /\ \A fd : Waiting(fd)' = Waiting(fd)
         /\ \/ UNCHANGED event_data_ \/ event_data_' = NoBuffer
            \/ event_data_ = NoBuffer /\ event_data_' = <<>>
<1> USE DEF others, kernelVars, handlerVars, undisturbed
<1>1. /\ UNCHANGED <<next, lost, ring>>
      /\ \/ UNCHANGED event_data_ \/ event_data_' = NoBuffer
         \/ event_data_ = NoBuffer /\ event_data_' = <<>>
  <2>1. CASE Main
    BY <2>1 DEF Main, AddMetric, EventOpen, MapRing, Emplace, Setup, Enable, OpenFails,
                MapRingFails, SetupFails, Stop, Return, Exit
  <2>2. CASE Handler
    BY <2>2 DEF Handler, Deliver, HDisable, HFind, HCrash, HEmpty, HTail, HEnable
  <2>3. CASE UNCHANGED vars
    BY <2>3 DEF vars
  <2> QED
    BY <2>1, <2>2, <2>3 DEF Next
<1> QED
  BY <1>1, WaitingIs

(***************************************************************************)
(* Nothing missing, repeated or swapped                                    *)
(***************************************************************************)

\* Every address is followed by the next one, the last by n.
Follows(s, n) ==
  \A i \in 1..Len(s) : (s[i] % M) + 1 = IF i = Len(s) THEN n ELSE s[i + 1]

\* The next sample goes on where the sequence ends.
LEMMA FollowsAppend ==
  ASSUME NEW s \in Seq(1..M), NEW a \in 1..M, Follows(s, a)
  PROVE  Follows(Append(s, a), (a % M) + 1)
<1> DEFINE t == Append(s, a)
<1>1. /\ Len(t) = Len(s) + 1 /\ Len(s) \in Nat
      /\ t[Len(s) + 1] = a /\ \A i \in 1..Len(s) : t[i] = s[i]
  OBVIOUS
<1> HIDE DEF t
<1> SUFFICES ASSUME NEW i \in 1..Len(t)
             PROVE  (t[i] % M) + 1 = IF i = Len(t) THEN (a % M) + 1 ELSE t[i + 1]
  BY DEF Follows, t
<1>2. CASE i = Len(t)
  BY <1>1, <1>2
<1>3. CASE i # Len(t)
  <2>1. i \in 1..Len(s) /\ (i = Len(s) \/ i + 1 \in 1..Len(s))
    BY <1>1, <1>3
  <2>2. (s[i] % M) + 1 = IF i = Len(s) THEN a ELSE s[i + 1]
    BY <2>1 DEF Follows
  <2>3. t[i] = s[i] /\ t[i + 1] = IF i = Len(s) THEN a ELSE s[i + 1]
    BY <1>1, <2>1
  <2> QED
    BY <1>3, <2>2, <2>3
<1> QED
  BY <1>2, <1>3

\* What a sequence sheds leaves no gap.
LEMMA FollowsSheds ==
  ASSUME NEW s \in Seq(1..M), NEW n, NEW t, Sheds(t, s), Follows(s, n)
  PROVE  Follows(t, n)
<1>1. CASE t = s
  BY <1>1
<1>2. CASE s # <<>> /\ t = Tail(s)
  <2>1. /\ Len(t) = Len(s) - 1 /\ Len(s) \in Nat
        /\ \A i \in 1..Len(s)-1 : t[i] = s[i + 1]
    BY <1>2
  <2> SUFFICES ASSUME NEW i \in 1..Len(t)
               PROVE  (t[i] % M) + 1 = IF i = Len(t) THEN n ELSE t[i + 1]
    BY DEF Follows
  <2>2. i + 1 \in 1..Len(s) /\ (i = Len(t) <=> i + 1 = Len(s))
    BY <2>1
  <2>3. (s[i + 1] % M) + 1 = IF i + 1 = Len(s) THEN n ELSE s[(i + 1) + 1]
    BY <2>2 DEF Follows
  <2>4. t[i] = s[i + 1] /\ (i # Len(t) => t[i + 1] = s[(i + 1) + 1])
    BY <2>1
  <2> QED
    BY <2>2, <2>3, <2>4
<1> QED
  BY <1>1, <1>2 DEF Sheds

\* Nor does what is left of it without its first part.
LEMMA FollowsBehind ==
  ASSUME NEW s \in Seq(1..M), NEW w \in Seq(1..M), NEW n, Follows(s \o w, n)
  PROVE  Follows(w, n)
<1> DEFINE u == s \o w
<1>1. /\ Len(u) = Len(s) + Len(w) /\ Len(s) \in Nat /\ Len(w) \in Nat
      /\ \A i \in 1..Len(s) + Len(w) : u[i] = IF i <= Len(s) THEN s[i] ELSE w[i - Len(s)]
  BY ConcatProperties
<1>2. \A i \in 1..Len(u) : (u[i] % M) + 1 = IF i = Len(u) THEN n ELSE u[i + 1]
  BY DEF Follows
<1> HIDE DEF u
<1> SUFFICES ASSUME NEW i \in 1..Len(w)
             PROVE  (w[i] % M) + 1 = IF i = Len(w) THEN n ELSE w[i + 1]
  BY DEF Follows
<1>3. PICK k : k = i + Len(s)
  OBVIOUS
<1>4. /\ k \in 1..Len(u) /\ u[k] = w[i] /\ (i = Len(w) <=> k = Len(u))
      /\ i # Len(w) => u[k + 1] = w[i + 1]
  <2>1. k \in 1..Len(s) + Len(w) /\ ~(k <= Len(s)) /\ k - Len(s) = i
    BY <1>1, <1>3
  <2>2. i # Len(w) =>
          k + 1 \in 1..Len(s) + Len(w) /\ ~(k + 1 <= Len(s)) /\ (k + 1) - Len(s) = i + 1
    BY <1>1, <1>3
  <2> QED
    BY <1>1, <1>3, <2>1, <2>2
<1> QED
  BY <1>2, <1>4

\* A first part that sheds makes the whole shed.
LEMMA ShedsConcat ==
  ASSUME NEW T, NEW s \in Seq(T), NEW w \in Seq(T), NEW p \in Seq(T), Sheds(p, s)
  PROVE  Sheds(p \o w, s \o w)
<1>1. CASE s # <<>> /\ p = Tail(s)
  <2> DEFINE u == s \o w
  <2>1. /\ u \in Seq(T) /\ Len(u) = Len(s) + Len(w)
        /\ \A i \in 1..Len(s) + Len(w) : u[i] = IF i <= Len(s) THEN s[i] ELSE w[i - Len(s)]
    BY ConcatProperties
  <2>2. /\ p \o w \in Seq(T) /\ Len(p \o w) = Len(p) + Len(w)
        /\ \A i \in 1..Len(p) + Len(w) :
             (p \o w)[i] = IF i <= Len(p) THEN p[i] ELSE w[i - Len(p)]
    BY ConcatProperties
  <2>3. /\ Len(s) \in Nat \ {0} /\ Len(w) \in Nat /\ Len(p) = Len(s) - 1
        /\ \A i \in 1..Len(s)-1 : p[i] = s[i + 1]
    BY <1>1
  <2> HIDE DEF u
  <2>4. u # <<>> /\ Tail(u) \in Seq(T) /\ Len(Tail(u)) = Len(u) - 1
    <3>1. u \in Seq(T) /\ Len(u) \in Nat /\ Len(u) # 0
      BY <2>1, <2>3
    <3>2. u # <<>>
      BY <3>1
    <3> QED
      BY <3>1, <3>2
  <2>5. \A i \in 1..Len(u)-1 : Tail(u)[i] = u[i + 1]
    BY <2>1, <2>4
  <2>6. ASSUME NEW i \in 1..Len(p \o w) PROVE (p \o w)[i] = Tail(u)[i]
    <3>1. i \in 1..Len(u)-1 /\ i + 1 \in 1..Len(s) + Len(w) /\ i \in 1..Len(p) + Len(w)
      BY <2>1, <2>2, <2>3
    <3>2. CASE i <= Len(p)
      BY <2>1, <2>2, <2>3, <2>5, <3>1, <3>2
    <3>3. CASE ~(i <= Len(p))
      <4>1. (p \o w)[i] = w[i - Len(p)]
        BY <2>2, <3>1, <3>3
      <4>2. u[i + 1] = w[(i + 1) - Len(s)]
        BY <2>1, <2>3, <3>1, <3>3
      <4>3. (i + 1) - Len(s) = i - Len(p)
        BY <2>3
      <4> QED
        BY <2>5, <3>1, <4>1, <4>2, <4>3
    <3> QED
      BY <3>2, <3>3
  <2>7. p \o w = Tail(u)
    BY <2>1, <2>2, <2>3, <2>4, <2>6, SeqEqual
  <2> QED
    BY <2>4, <2>7 DEF Sheds, u
<1> QED
  BY <1>1 DEF Sheds

\* The oldest waiting address may as well be the newest stored one.
LEMMA HandOver ==
  ASSUME NEW T, NEW s \in Seq(T), NEW w \in Seq(T), w # <<>>
  PROVE  Append(s, Head(w)) \o Tail(w) = s \o w
<1>1. Head(w) \in T /\ Tail(w) \in Seq(T) /\ <<Head(w)>> \in Seq(T)
  OBVIOUS
<1>2. Append(s, Head(w)) = s \o <<Head(w)>>
  BY <1>1, AppendIsConcat
<1>3. (s \o <<Head(w)>>) \o Tail(w) = s \o (<<Head(w)>> \o Tail(w))
  BY <1>1, ConcatAssociative
<1>4. <<Head(w)>> \o Tail(w) = w
  OBVIOUS
<1> QED
  BY <1>2, <1>3, <1>4

\* An empty sequence holds no address.
LEMMA NothingStored == KeptAddrs(<<>>) = <<>> /\ \A fd : OfAddrs(fd, <<>>) = <<>>
<1>1. Kept(<<>>) = {} /\ Cardinality({}) = 0 /\ \A fd : Of(fd, <<>>) = {}
  BY FS_EmptySet DEF Kept, Of
<1>2. AddrsAt(<<>>, {}) = <<>>
  BY <1>1 DEF AddrsAt
<1> QED
  BY <1>1, <1>2 DEF KeptAddrs, OfAddrs

\* What joins the waiting ones joins them all.
LEMMA JoinConcat ==
  ASSUME NEW T, NEW s \in Seq(T), NEW w \in Seq(T), NEW a \in T
  PROVE  s \o Append(w, a) = Append(s \o w, a)
<1>1. <<a>> \in Seq(T) /\ s \o w \in Seq(T)
  BY ConcatProperties
<1>2. Append(w, a) = w \o <<a>> /\ Append(s \o w, a) = (s \o w) \o <<a>>
  BY <1>1, AppendIsConcat
<1>3. (s \o w) \o <<a>> = s \o (w \o <<a>>)
  BY <1>1, ConcatAssociative
<1> QED
  BY <1>2, <1>3

\* NoGap in these words.
LEMMA NoGapFollows ==
  /\ NoGap <=> \A fd \in Fds \ lost : Follows(Stored(fd) \o Waiting(fd), next[fd])
  /\ NoGap' <=> \A fd \in Fds \ lost' : Follows(Stored(fd)' \o Waiting(fd)', next'[fd])
  BY DEF NoGap, Sampled, Follows

\* At first nothing is sampled.
LEMMA InitNoGap == Init => NoGap
<1> SUFFICES ASSUME Init, NEW fd \in Fds PROVE Follows(Stored(fd) \o Waiting(fd), next[fd])
  BY NoGapFollows
<1>1. ring[fd] = <<>> /\ event_data_ = NoBuffer
  BY DEF Init
<1>4. Waiting(fd) = <<>> /\ Stored(fd) = <<>>
  BY <1>1, NothingStored, WaitingIs
<1>5. Stored(fd) \o Waiting(fd) = <<>>
  BY <1>4
<1> QED
  BY <1>5 DEF Follows

\* The kernel samples on where it left off, or the event is one that lost a sample.
LEMMA KernelNoGap == ASSUME Types, NoGap, Kernel PROVE NoGap'
<1>1. CASE \E fd \in Fds : Overflow(fd)
  <2> PICK fd \in Fds : Overflow(fd)
    BY <1>1
  <2> SUFFICES ASSUME NEW g \in Fds \ lost'
               PROVE  Follows(Stored(g)' \o Waiting(g)', next'[g])
    BY NoGapFollows
  <2>1. UNCHANGED event_data_ /\ g \notin lost
    BY OverflowWaits
  <2>2. Stored(g)' = Stored(g)
    BY <2>1, WaitingIs
  <2>3. Follows(Stored(g) \o Waiting(g), next[g])
    BY <2>1, NoGapFollows
  <2>4. CASE Waiting(g)' = Waiting(g) /\ next'[g] = next[g]
    BY <2>2, <2>3, <2>4
  <2>5. CASE Waiting(g)' = Append(Waiting(g), next[g]) /\ next'[g] = (next[g] % M) + 1
    <3>1. next[g] \in 1..M
      BY DEF Types, TypeOK
    <3>2. Stored(g) \in Seq(1..M) /\ Waiting(g) \in Seq(1..M)
      BY SampledTyped
    <3>3. Stored(g) \o Waiting(g) \in Seq(1..M)
      BY <3>2
    <3>4. Follows(Append(Stored(g) \o Waiting(g), next[g]), (next[g] % M) + 1)
      BY <2>3, <3>1, <3>3, FollowsAppend
    <3>5. Stored(g) \o Append(Waiting(g), next[g]) = Append(Stored(g) \o Waiting(g), next[g])
      BY <3>1, <3>2, JoinConcat
    <3> QED
      BY <2>2, <2>5, <3>4, <3>5
  <2> QED
    BY <2>4, <2>5, OverflowWaits
<1>2. CASE \E fd \in Fds : SideBand(fd)
  <2>1. UNCHANGED <<event_data_, next, lost>> /\ \A g \in Fds : Waiting(g)' = Waiting(g)
    BY <1>2, SideBandWaits
  <2>2. \A g : Stored(g)' = Stored(g)
    BY <2>1, WaitingIs
  <2> QED
    BY <2>1, <2>2, NoGapFollows
<1> QED
  BY <1>1, <1>2 DEF Kernel

\* The handler moves the oldest waiting address behind the newest stored one, and the
\* oldest stored ones go first.
LEMMA ReadNoGap == ASSUME Types, NoGap, HRead PROVE NoGap'
<1> SUFFICES ASSUME NEW g \in Fds \ lost' PROVE Follows(Stored(g)' \o Waiting(g)', next'[g])
  BY NoGapFollows
<1> PICK fd \in Fds : fd = hfd
  BY NoFdAssumption DEF Types, TypeOK, HRead, HStep
<1> DEFINE s == Stored(g)
           w == Waiting(g)
<1>1. s \in Seq(1..M) /\ w \in Seq(1..M)
  BY SampledTyped
<1>2. Follows(s \o w, next[g]) /\ next' = next
  <2>1. UNCHANGED <<next, lost>>
    BY ReadWaits
  <2> QED
    BY <2>1, NoGapFollows
<1>3. g # fd => Waiting(g)' = w
  BY ReadWaits
<1>4. CASE Waiting(fd)' = Waiting(fd) /\ UNCHANGED event_data_
  <2>1. Stored(g)' = s
    BY <1>4, WaitingIs
  <2> QED
    BY <1>2, <1>3, <1>4, <2>1
<1>5. CASE /\ Waiting(fd) # <<>> /\ Waiting(fd)' = Tail(Waiting(fd))
           /\ event_data_ = NoBuffer /\ event_data_' = NoBuffer
  <2>1. s = <<>> /\ Stored(g)' = <<>>
    BY <1>5, WaitingIs
  <2>2. Sheds(Waiting(g)', w)
    BY <1>3, <1>5 DEF Sheds
  <2>3. Waiting(g)' \in Seq(1..M)
    BY <1>1, <1>3, <1>5
  <2>4. s \o w = w /\ Stored(g)' \o Waiting(g)' = Waiting(g)'
    BY <1>1, <2>1, <2>3
  <2> QED
    BY <1>1, <1>2, <2>2, <2>4, FollowsSheds
<1>6. CASE /\ Waiting(fd) # <<>> /\ Waiting(fd)' = Tail(Waiting(fd))
           /\ Head(Waiting(fd)) \in 1..M
           /\ event_data_ # NoBuffer
           /\ event_data_' = Appended(event_data_, [fd |-> fd, addr |-> Head(Waiting(fd))])
  <2> DEFINE e == [fd |-> fd, addr |-> Head(Waiting(fd))]
  <2>1. e \in Addresses /\ event_data_ \in Seq(Addresses)
    BY <1>6 DEF Addresses, Types, TypeOK
  <2>2. event_data_' # NoBuffer
    <3>1. Appended(event_data_, e) \in Seq(Addresses)
      <4>1. Append(event_data_, e) \in Seq(Addresses)
        BY <2>1
      <4>2. Len(event_data_) >= BufferSize => Append(Tail(event_data_), e) \in Seq(Addresses)
        BY <2>1, BufferSizeAssumption
      <4>3. Len(event_data_) \in Nat /\ BufferSize \in Nat
        BY <2>1, BufferSizeAssumption
      <4> QED
        BY <4>1, <4>2, <4>3 DEF Appended
    <3> QED
      BY <1>6, <3>1, NoBufferAssumption DEF Addresses
  <2>3. PICK p \in Seq(1..M) :
          /\ Sheds(p, OfAddrs(g, event_data_))
          /\ OfAddrs(g, Appended(event_data_, e)) = IF e.fd = g THEN Append(p, e.addr) ELSE p
    BY <2>1, OfAppended
  <2>4. Sheds(p, s)
    BY <1>6, <2>3, WaitingIs
  <2>5. Stored(g)' = IF fd = g THEN Append(p, Head(w)) ELSE p
    BY <1>6, <2>2, <2>3, WaitingIs
  <2>6. Stored(g)' \o Waiting(g)' = p \o w
    <3>1. CASE fd = g
      <4>1. w # <<>>
        BY <1>6, <3>1
      <4>2. Append(p, Head(w)) \o Tail(w) = p \o w
        BY <1>1, <4>1, HandOver
      <4> QED
        BY <1>6, <2>5, <3>1, <4>2
    <3> QED
      BY <1>3, <2>5, <3>1
  <2>7. s \o w \in Seq(1..M) /\ Sheds(p \o w, s \o w)
    BY <1>1, <2>4, ShedsConcat
  <2> QED
    BY <1>2, <2>6, <2>7, FollowsSheds
<1> QED
  BY <1>4, <1>5, <1>6, ReadWaits

\* However the signals of several metrics interrupt each other and the registration,
\* whichever calls fail and whatever else the kernel records: for every number of
\* metrics and every capacity, the thread records what was sampled without a gap, of
\* every event whose samples all found space in its ring.
THEOREM SamplesWithoutGap == Spec => []NoGap
<1>1. Types /\ NoGap /\ [Next]_vars => Types' /\ NoGap'
  <2> SUFFICES ASSUME Types, NoGap, [Next]_vars PROVE Types' /\ NoGap'
    OBVIOUS
  <2>1. Types'
    BY TypesStep
  <2>2. CASE Kernel
    BY <2>1, <2>2, KernelNoGap
  <2>3. CASE HRead
    BY <2>1, <2>3, ReadNoGap
  <2>4. CASE ~HRead /\ ~Kernel
    <3>1. /\ UNCHANGED <<next, lost>> /\ \A fd : Waiting(fd)' = Waiting(fd)
          /\ \/ UNCHANGED event_data_ \/ event_data_' = NoBuffer
             \/ event_data_ = NoBuffer /\ event_data_' = <<>>
      BY <2>4, OtherStepsKeep
    <3> SUFFICES ASSUME NEW fd \in Fds \ lost
                 PROVE  Follows(Stored(fd)' \o Waiting(fd)', next'[fd])
      BY <2>1, <3>1, NoGapFollows
    <3>2. Follows(Stored(fd) \o Waiting(fd), next[fd])
      BY NoGapFollows
    <3>3. Stored(fd)' = Stored(fd) \/ Stored(fd)' = <<>>
      <4>1. \A g : OfAddrs(g, <<>>) = <<>>
        BY NothingStored
      <4> QED
        BY <3>1, <4>1, WaitingIs
    <3>4. CASE Stored(fd)' = <<>>
      <4>1. Stored(fd) \in Seq(1..M) /\ Waiting(fd) \in Seq(1..M)
        BY SampledTyped
      <4>2. Follows(Waiting(fd), next[fd])
        BY <3>2, <4>1, FollowsBehind
      <4>3. <<>> \o Waiting(fd) = Waiting(fd)
        BY <4>1
      <4> QED
        BY <3>1, <3>4, <4>2, <4>3
    <3> QED
      BY <3>1, <3>2, <3>3, <3>4
  <2> QED
    BY <2>2, <2>3, <2>4
<1> QED
  BY InitTypes, InitNoGap, <1>1, PTL DEF Spec

(***************************************************************************)
(* The stream of samples                                                   *)
(***************************************************************************)

\* At first nothing waits and there is no buffer.
LEMMA InitStream == Init => Stream!Init
<1> SUFFICES ASSUME Init PROVE Stream!Init
  OBVIOUS
<1>1. \A fd \in Fds : Waiting(fd) = <<>>
  BY NothingStored, WaitingIs DEF Init
<1> QED
  BY <1>1 DEF Init, Stream!Init

\* An overflow takes a sample or none.
LEMMA KernelStream == ASSUME Types, Kernel PROVE [Stream!Next]_(Stream!vars)
<1>1. CASE \E fd \in Fds : Overflow(fd)
  <2> PICK fd \in Fds : Overflow(fd)
    BY <1>1
  <2>1. event_data_' = event_data_ /\ \A g \in Fds \ {fd} : Waiting(g)' = Waiting(g)
    BY OverflowWaits
  <2>2. CASE Waiting(fd)' = Waiting(fd)
    BY <2>1, <2>2 DEF Stream!vars
  <2>3. CASE Waiting(fd)' = Append(Waiting(fd), next[fd])
    <3>1. next[fd] \in 1..M
      BY DEF Types, TypeOK
    <3>2. [g \in Fds |-> Waiting(g)]'
            = [[g \in Fds |-> Waiting(g)] EXCEPT ![fd] = Append(@, next[fd])]
      BY <2>1, <2>3
    <3>3. Stream!Take(fd)
      BY <2>1, <3>1, <3>2 DEF Stream!Take
    <3> QED
      BY <3>3 DEF Stream!Next
  <2> QED
    BY <2>2, <2>3, OverflowWaits
<1>2. CASE \E fd \in Fds : SideBand(fd)
  <2>1. event_data_' = event_data_ /\ \A g \in Fds : Waiting(g)' = Waiting(g)
    BY <1>2, SideBandWaits
  <2> QED
    BY <2>1 DEF Stream!vars
<1> QED
  BY <1>1, <1>2 DEF Kernel

\* EventRingBuffer::append keeps the newest events.
LEMMA AppendedIsNewest ==
  ASSUME NEW b \in Seq(Addresses), Len(b) <= BufferSize, NEW e \in Addresses
  PROVE  Appended(b, e) = Stream!Newest(Append(b, e))
<1>1. Len(Append(b, e)) = Len(b) + 1 /\ Len(b) \in Nat /\ BufferSize \in Nat \ {0}
  BY BufferSizeAssumption
<1>2. CASE Len(b) < BufferSize
  BY <1>1, <1>2 DEF Appended, Stream!Newest
<1>3. CASE Len(b) = BufferSize
  <2>1. b # <<>>
    BY <1>1, <1>3
  <2>2. Tail(Append(b, e)) = Append(Tail(b), e)
    BY <2>1, HeadTailAppend
  <2>3. Len(Append(b, e)) > BufferSize /\ ~(Len(b) < BufferSize)
    BY <1>1, <1>3
  <2>4. Stream!Newest(Append(b, e)) = Tail(Append(b, e))
    BY <2>3 DEF Stream!Newest
  <2>5. Appended(b, e) = Append(Tail(b), e)
    BY <2>3 DEF Appended
  <2> QED
    BY <2>2, <2>4, <2>5
<1> QED
  BY <1>1, <1>2, <1>3

\* A turn of process_events() stores a sample, or none.
LEMMA ReadStream == ASSUME Types, HRead PROVE [Stream!Next]_(Stream!vars)
<1> PICK fd \in Fds : fd = hfd
  BY NoFdAssumption DEF Types, TypeOK, HRead, HStep
<1>1. \A g \in Fds \ {fd} : Waiting(g)' = Waiting(g)
  BY ReadWaits
<1>2. CASE Waiting(fd)' = Waiting(fd) /\ event_data_' = event_data_
  BY <1>1, <1>2 DEF Stream!vars
<1>3. CASE /\ Waiting(fd) # <<>> /\ Waiting(fd)' = Tail(Waiting(fd))
           /\ Head(Waiting(fd)) \in 1..M
           /\ event_data_' = IF event_data_ = NoBuffer THEN event_data_
                ELSE Appended(event_data_, [fd |-> fd, addr |-> Head(Waiting(fd))])
  <2> DEFINE e == [fd |-> fd, addr |-> Head(Waiting(fd))]
  <2>1. e \in Addresses
    BY <1>3 DEF Addresses
  <2>2. event_data_ # NoBuffer =>
          event_data_ \in Seq(Addresses) /\ Len(event_data_) <= BufferSize
    BY DEF Types, TypeOK
  <2>3. event_data_ # NoBuffer => Appended(event_data_, e) = Stream!Newest(Append(event_data_, e))
    BY <2>1, <2>2, AppendedIsNewest
  <2>4. [g \in Fds |-> Waiting(g)]' = [[g \in Fds |-> Waiting(g)] EXCEPT ![fd] = Tail(@)]
    BY <1>1, <1>3
  <2>5. Stream!Store(fd)
    BY <1>3, <2>3, <2>4 DEF Stream!Store
  <2> QED
    BY <2>5 DEF Stream!Next
<1> QED
  BY <1>2, <1>3, ReadWaits

\* For every number of metrics and every capacity PerfSampling implements the stream of
\* samples: every step of the thread, the kernel and the handler is a step of it or none.
THEOREM SamplingIsStream == Spec => StreamSpec
<1>1. Types /\ [Next]_vars => [Stream!Next]_(Stream!vars)
  <2> SUFFICES ASSUME Types, [Next]_vars PROVE [Stream!Next]_(Stream!vars)
    OBVIOUS
  <2>1. CASE ~HRead /\ ~Kernel
    <3>1. /\ \A fd : Waiting(fd)' = Waiting(fd)
          /\ \/ event_data_' = event_data_ \/ event_data_' = NoBuffer
             \/ event_data_ = NoBuffer /\ event_data_' = <<>>
      BY <2>1, OtherStepsKeep
    <3>2. [fd \in Fds |-> Waiting(fd)]' = [fd \in Fds |-> Waiting(fd)]
      BY <3>1
    <3> QED
      BY <3>1, <3>2 DEF Stream!vars, Stream!Next, Stream!Attach, Stream!Detach
  <2> QED
    BY <2>1, KernelStream, ReadStream
<1> QED
  BY InitTypes, InitStream, TypesStep, <1>1, PTL DEF Spec, StreamSpec, Stream!Spec
=============================================================================
