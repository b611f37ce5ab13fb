------------------------ MODULE AccessSamplingProofs ------------------------
(***************************************************************************)
(* The id add_metric returns names what was added under it, for every set  *)
(* of threads, ids and metrics: threads exclude each other between reading *)
(* the size of all_events_ and appending to it.                            *)
(***************************************************************************)
EXTENDS AccessSampling, TLAPS

Steps == InMutex \cup {"unborn", "user", "exited", "lock", "open"}
InAdd == InMutex \cup {"lock", "open"}
Entry == [tid : Ids, metric : Metrics]

\* A thread in add_metric has an id of its own and a metric.
Arguments ==
  /\ pc \in [Threads -> Steps]
  /\ id \in [Threads -> Ids \cup {NoId}]
  /\ metric \in [Threads -> Metrics \cup {NoMetric}]
  /\ newid \in [Threads -> Nat]
  /\ \A t \in Threads : pc[t] \in InAdd \cup {"user"} => id[t] \in Ids
  /\ \A t \in Threads : pc[t] \in InAdd => metric[t] \in Metrics

\* Between lock() and unlock() there is at most one thread.
Exclusion == \A t \in Threads : pc[t] \in InMutex => buffer_mutex_ = t

\* What was pushed under the id n of thread t.
Pushed(t, n) == n < Len(all_events_) /\ all_events_[n + 1] = [tid |-> id[t], metric |-> metric[t]]

\* The local id of add_metric before and after its push_back.
LocalId ==
  /\ \A t \in Threads : pc[t] = "push" => newid[t] = Len(all_events_)
  /\ \A t \in Threads : pc[t] \in {"unlock", "open"} => Pushed(t, newid[t])

Results == \A r \in results : r.id \in Nat

IdInv == /\ Arguments
         /\ Exclusion
         /\ all_events_ \in Seq(Entry)
         /\ LocalId
         /\ Results
         /\ IdsAgree

\* The plugin starts without events and without results.
LEMMA InitIdInv == Init => IdInv
  BY DEF Init, IdInv, Arguments, Steps, InAdd, InMutex, Exclusion, LocalId, Pushed,
         Results, IdsAgree, Entry

\* A new thread takes an id no living thread has: nobody else sees a change.
LEMMA StartStep == ASSUME IdInv, NEW t \in Threads, Start(t) PROVE IdInv'
  BY DEF Start, IdInv, Arguments, Steps, InAdd, InMutex, Exclusion, LocalId, Pushed,
         Results, IdsAgree, pluginVars

\* A thread that ends is not in add_metric; what it was returned stays.
LEMMA ExitStep == ASSUME IdInv, NEW t \in Threads, Exit(t) PROVE IdInv'
  BY DEF Exit, IdInv, Arguments, Steps, InAdd, InMutex, Exclusion, LocalId, Pushed,
         Results, IdsAgree, pluginVars, effects, outside

\* A thread enters add_metric with its own argument.
LEMMA AddMetricStep == ASSUME IdInv, NEW t \in Threads, AddMetric(t) PROVE IdInv'
  BY DEF AddMetric, IdInv, Arguments, Steps, InAdd, InMutex, Exclusion, LocalId, Pushed,
         Results, IdsAgree, pluginVars, effects, outside

\* The mutex was free, so nobody else is between lock() and unlock().
LEMMA LockStep == ASSUME IdInv, NEW t \in Threads, Lock(t) PROVE IdInv'
  BY NoThreadAssumption
     DEF Lock, Step, IdInv, Arguments, Steps, InAdd, InMutex, Exclusion, LocalId, Pushed,
         Results, IdsAgree, effects, outside

\* The lookup of a known id changes nothing but the place of the thread.
LEMMA FindBufferStep == ASSUME IdInv, NEW t \in Threads, FindBuffer(t) PROVE IdInv'
  BY DEF FindBuffer, Step, IdInv, Arguments, Steps, InAdd, InMutex, Exclusion, LocalId, Pushed,
         Results, IdsAgree, pluginVars, effects, outside

\* A new buffer does not touch all_events_.
LEMMA MakeBufferStep == ASSUME IdInv, NEW t \in Threads, MakeBuffer(t) PROVE IdInv'
  BY DEF MakeBuffer, Step, IdInv, Arguments, Steps, InAdd, InMutex, Exclusion, LocalId, Pushed,
         Results, IdsAgree, effects, outside

\* Either exception leaves the mutex locked: still nobody is inside.
LEMMA AllocFailsStep == ASSUME IdInv, NEW t \in Threads, AllocFails(t) PROVE IdInv'
  BY DEF AllocFails, Step, IdInv, Arguments, Steps, InAdd, InMutex, Exclusion, LocalId, Pushed,
         Results, IdsAgree, pluginVars, effects, outside

LEMMA PushFailsStep == ASSUME IdInv, NEW t \in Threads, PushFails(t) PROVE IdInv'
  BY DEF PushFails, Step, IdInv, Arguments, Steps, InAdd, InMutex, Exclusion, LocalId, Pushed,
         Results, IdsAgree, pluginVars, effects, outside

\* The size of all_events_ becomes the local id.
LEMMA TakeIdStep == ASSUME IdInv, NEW t \in Threads, TakeId(t) PROVE IdInv'
  BY DEF TakeId, Step, IdInv, Arguments, Steps, InAdd, InMutex, Exclusion, LocalId, Pushed,
         Results, IdsAgree, pluginVars, effects, outside

\* No other thread is about to push: the entry lands at the local id.
LEMMA PushEventStep == ASSUME IdInv, NEW t \in Threads, PushEvent(t) PROVE IdInv'
  BY DEF PushEvent, Step, IdInv, Arguments, Steps, InAdd, InMutex, Exclusion, LocalId, Pushed,
         Results, IdsAgree, effects, outside, Entry

\* What was pushed stays where it is.
LEMMA UnlockStep == ASSUME IdInv, NEW t \in Threads, Unlock(t) PROVE IdInv'
  BY DEF Unlock, Step, IdInv, Arguments, Steps, InAdd, InMutex, Exclusion, LocalId, Pushed,
         Results, IdsAgree, effects, outside

\* The id is returned for the entry pushed under it.
LEMMA EnableMetricStep == ASSUME IdInv, NEW t \in Threads, EnableMetric(t) PROVE IdInv'
  BY DEF EnableMetric, Step, IdInv, Arguments, Steps, InAdd, InMutex, Exclusion, LocalId, Pushed,
         Results, IdsAgree, pluginVars, outside

\* The entry stays, the id is not returned.
LEMMA EventOpenFailsStep == ASSUME IdInv, NEW t \in Threads, EventOpenFails(t) PROVE IdInv'
  BY DEF EventOpenFails, Step, IdInv, Arguments, Steps, InAdd, InMutex, Exclusion, LocalId, Pushed,
         Results, IdsAgree, pluginVars, effects, outside

\* Everything else leaves the variables of the invariant alone.
LEMMA OtherStep ==
  ASSUME IdInv, UNCHANGED <<threadVars, buffer_mutex_, all_events_, results>>
  PROVE  IdInv'
  BY DEF IdInv, Arguments, Steps, InAdd, InMutex, Exclusion, LocalId, Pushed,
         Results, IdsAgree, threadVars

\* The invariant is inductive.
LEMMA IdStep == IdInv /\ [Next]_vars => IdInv'
<1> SUFFICES ASSUME IdInv, [Next]_vars PROVE IdInv'
  OBVIOUS
<1>1. CASE UNCHANGED vars
  BY <1>1, OtherStep DEF vars, pluginVars
<1>2. ASSUME NEW t \in Threads, Thread(t) PROVE IdInv'
  <2>1. CASE Start(t) \/ Exit(t) \/ AddMetric(t)
    BY <2>1, StartStep, ExitStep, AddMetricStep
  <2>2. CASE Adding(t)
    BY <2>2, LockStep, FindBufferStep, MakeBufferStep, AllocFailsStep, PushFailsStep,
       TakeIdStep, PushEventStep, UnlockStep, EnableMetricStep, EventOpenFailsStep DEF Adding
  <2>3. CASE Take(t) \/ Store(t)
    BY <2>3, OtherStep DEF Take, Store, pluginVars
  <2> QED
    BY <1>2, <2>1, <2>2, <2>3 DEF Thread
<1>3. CASE Finalising
  BY <1>3, OtherStep
     DEF Finalising, Stop, GetAllValues, TestType, WriteValue, Destroy, pluginVars, others
<1>4. CASE Writing
  BY <1>4, OtherStep
     DEF Writing, Terminate, Join, BeginCopy, CopyEvent, WriteEventBuffer, pluginVars, others
<1> QED
  BY <1>1, <1>2, <1>3, <1>4 DEF Next

\* Threads exclude each other in add_metric, and what each of them took, pushed and
\* returned agrees, in every reachable state.
THEOREM IdInvariant == Spec => []IdInv
  BY InitIdInv, IdStep, PTL DEF Spec

\* An id returned by add_metric is the index of the entry of its thread and metric,
\* whichever threads added metrics at the same time.
THEOREM MetricIdsAgree == Spec => []IdsAgree
<1>1. IdInv => IdsAgree
  BY DEF IdInv
<1> QED
  BY IdInvariant, <1>1, PTL
=============================================================================
