---------------------------- MODULE MetricConfig ----------------------------
(***************************************************************************)
(* What becomes of the words in the environment: the number of samples per *)
(* thread when the plugin object is made, the name of a metric when        *)
(* Score-P asks for its properties and when a thread adds it (utils.cpp,   *)
(* pfm_wrapper.cpp and their callers in access_sampling.cpp).              *)
(*                                                                         *)
(* A text is a word, or it begins with a number and may go on with         *)
(* something else, as 600foo and 1e6 do.  The integer types have fewer     *)
(* values than in the code: UInt for unsigned int, ULong for unsigned long *)
(* and size_t.                                                             *)
(***************************************************************************)
EXTENDS Integers, Sequences, SequencesExt

CONSTANTS UInt, ULong,    \* number of values of the integer types
          Default,        \* read_buffer_size without AS_SAMPLES_PER_THREAD
          EventSize,      \* sizeof (AccessEvent)
          Asserts,        \* BOOLEAN: built without NDEBUG
          Words, Numbers, \* what the texts in the environment say
          Processors,     \* the event sets of the processors it may run on
          PfmInit         \* what pfm_initialize may leave: "ready", "failed"

ASSUME WidthAssumption == UInt \in Nat \ {0} /\ ULong \in Nat \ {0} /\ UInt < ULong
ASSUME NumbersAssumption == Numbers \subseteq Int
ASSUME PfmAssumption == PfmInit \subseteq {"ready", "failed"}
ASSUME SizeAssumption == Default \in 1..ULong-1 /\ EventSize \in 1..ULong-1

VARIABLES processor,    \* its events
          samples,      \* AS_SAMPLES_PER_THREAD: no text or one
          plugin,       \* "none", "loaded" or "aborted"
          buffer_size_,
          pfm,          \* libpfm
          name,         \* the metric, as Score-P was given it
          answer,       \* what the last call about it came to
          perf_attr     \* the event it came to, or none

vars == <<processor, samples, plugin, buffer_size_, pfm, name, answer, perf_attr>>

Word(w) == [word |-> w, number |-> 0, more |-> FALSE]
Number(n, more) == [word |-> "number", number |-> n, more |-> more]
Texts == {Word(w) : w \in Words} \cup {Number(n, more) : n \in Numbers, more \in BOOLEAN}
IsNumber(text) == text.word = "number"
Empty == Word("")

\* A metric name is its texts between the at signs.
Names == UNION {[1..n -> Texts] : n \in 1..3}

Init == /\ processor \in Processors
        /\ samples \in {<<>>} \cup {<<t>> : t \in Texts}
        /\ plugin = "none" /\ buffer_size_ = 0 /\ pfm = "unused"
        /\ name = <<>> /\ answer = "none" /\ perf_attr = <<>>

-----------------------------------------------------------------------------
(* The texts.                                                              *)

\* A name that ends with the delimiter has no empty last token.
Split(s) == IF Last(s) = Empty THEN Front(s) ELSE s

\* std::stoul: no number, or none of the type, throws; a minus sign wraps around, and
\* what is behind the number is not looked at.
Stoul(text) == IF IsNumber(text) /\ -ULong < text.number /\ text.number < ULong
               THEN <<text.number % ULong>> ELSE <<>>

\* Mutant: whatever comes behind the period is ignored.
MutParses(s) == Len(Split(s)) >= 2 /\ Stoul(Split(s)[2]) # <<>>

Parses(s) == Len(Split(s)) = 2 /\ Stoul(Split(s)[2]) # <<>>

\* parse_metric of a name that parses
EventName(s) == Split(s)[1].word

Period(s) == Stoul(Split(s)[2])[1] % UInt

\* operator>> stops behind the number; it leaves the size alone for an empty text,
\* stores 0 for a word, and the largest there is for a number too large.
ReadBufferSize ==
  IF samples = <<>> \/ samples = <<Empty>> THEN Default
  ELSE IF ~IsNumber(samples[1]) THEN 0
  ELSE IF Stoul(samples[1]) = <<>> THEN ULong - 1 ELSE Stoul(samples[1])[1]

Bytes == (ReadBufferSize * EventSize) % ULong

\* The assertion in to_mb.
Estimates == Asserts => Bytes > 0

-----------------------------------------------------------------------------
(* PfmWrapper over libpfm.                                                 *)

supported_events_ == [load |-> "MEM_TRANS_RETIRED.LOAD_LATENCY",
                      store |-> "MEM_UOPS_RETIRED.ALL_STORES"]

ToLower(w) == CASE w = "Load" -> "load" [] w = "Store" -> "store" [] OTHER -> w

\* pfm_find_event: an index, PFM_ERR_NOINIT or PFM_ERR_NOTFOUND
Find(event) == IF pfm # "ready" THEN -3 ELSE IF event \in processor THEN 0 ELSE -4

\* Mutant: the name is looked up as it is written.
MutKey(w) == w
Key(w) == ToLower(w)

IsMetricSupported(w) ==
  /\ ToLower(w) \in DOMAIN supported_events_
  /\ Find(supported_events_[ToLower(w)]) # -1

\* get_perf_event: the map and pfm_get_os_event_encoding both know the event.
Encodes(w) == /\ Key(w) \in DOMAIN supported_events_
              /\ Find(supported_events_[Key(w)]) = 0

-----------------------------------------------------------------------------
\* The constructor of access_sampling and of its members.  Nobody looks at what
\* pfm_initialize returns.
Load == /\ plugin = "none"
        /\ pfm' \in PfmInit
        /\ buffer_size_' = ReadBufferSize
        /\ plugin' = IF Estimates THEN "loaded" ELSE "aborted"
        /\ UNCHANGED <<processor, samples, name, answer, perf_attr>>

\* Score-P asks for the properties of one metric after the other.
GetMetricProperties(s) ==
  /\ plugin = "loaded"
  /\ name' = s
  /\ answer' = IF ~Parses(s) THEN "thrown"
               ELSE IF IsMetricSupported(EventName(s)) THEN "offered" ELSE "nothing"
  /\ perf_attr' = <<>>
  /\ UNCHANGED <<processor, samples, plugin, buffer_size_, pfm>>

\* ... and adds those it was offered.
AddMetric ==
  /\ answer = "offered" /\ Encodes(EventName(name))
  /\ answer' = "added"
  /\ perf_attr' = <<[config |-> supported_events_[Key(EventName(name))],
                     sample_period |-> Period(name)]>>
  /\ UNCHANGED <<processor, samples, plugin, buffer_size_, pfm, name>>

AddMetricThrows ==
  /\ answer = "offered" /\ ~Encodes(EventName(name))
  /\ answer' = "refused"
  /\ UNCHANGED <<processor, samples, plugin, buffer_size_, pfm, name, perf_attr>>

Next == Load \/ (\E s \in Names : GetMetricProperties(s)) \/ AddMetric \/ AddMetricThrows

Spec == Init /\ [][Next]_vars

-----------------------------------------------------------------------------
\* A metric the plugin offered can be added: is_metric_supported and get_perf_event,
\* called at different times, agree about its name, where libpfm knows all the events.
OfferedOpens ==
  answer = "refused" =>
    pfm # "ready" \/ \E w \in DOMAIN supported_events_ : supported_events_[w] \notin processor

\* The event is sampled once in as many occurrences as the number says that the name
\* of the metric has behind its at sign, unless no unsigned int says it; a name with
\* anything behind a second at sign is not sampled at all.
PeriodAsAsked ==
  \A a \in ToSet(perf_attr) :
    /\ IsNumber(name[2])
    /\ a.sample_period = name[2].number \/ name[2].number \notin 0..UInt-1
    /\ \A k \in 3..Len(name) : name[k] = Empty
=============================================================================
