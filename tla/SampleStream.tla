---------------------------- MODULE SampleStream ----------------------------
(***************************************************************************)
(* What PerfSampling promises the plugin, once a thread has handed it an   *)
(* event buffer: the samples that found space in their ring go into the    *)
(* buffer in the order they were taken, each once, and only newer ones     *)
(* drive them out.  No signal, no map, no file descriptor being set up     *)
(* shows here; a sample for which there was no space is never taken.       *)
(***************************************************************************)
EXTENDS Naturals, Sequences

CONSTANTS Sources,     \* the events of the thread
          Addresses,   \* what they sample
          BufferSize,  \* samples the buffer keeps
          NoBuffer     \* the buffer before there is one

VARIABLES waiting,     \* per source: the samples taken and not stored yet
          stored       \* the event buffer

vars == <<waiting, stored>>

Init == waiting = [s \in Sources |-> <<>>] /\ stored = NoBuffer

Attach == /\ stored = NoBuffer /\ stored' = <<>>
          /\ UNCHANGED waiting

\* The thread ends, its pointer to the buffer with it.
Detach == /\ stored' = NoBuffer
          /\ UNCHANGED waiting

Take(s) == /\ \E a \in Addresses : waiting' = [waiting EXCEPT ![s] = Append(@, a)]
           /\ UNCHANGED stored

Newest(buffer) == IF Len(buffer) > BufferSize THEN Tail(buffer) ELSE buffer

Store(s) ==
  /\ waiting[s] # <<>>
  /\ waiting' = [waiting EXCEPT ![s] = Tail(@)]
  /\ stored' = IF stored = NoBuffer THEN stored
               ELSE Newest(Append(stored, [fd |-> s, addr |-> Head(waiting[s])]))

Next == Attach \/ Detach \/ \E s \in Sources : Take(s) \/ Store(s)

Spec == Init /\ [][Next]_vars
=============================================================================
