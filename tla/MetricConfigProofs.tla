------------------------- MODULE MetricConfigProofs -------------------------
(***************************************************************************)
(* What the plugin makes of any text in its environment, whatever the      *)
(* widths of the integer types.                                            *)
(***************************************************************************)
EXTENDS MetricConfig, TLAPS

\* An offer was made for a name that is supported, and refused for one that is not
\* encoded.
Offers == /\ answer \in {"offered", "refused"} => IsMetricSupported(EventName(name))
          /\ answer = "refused" => ~Encodes(EventName(name))
          /\ answer # "none" => plugin # "none"

\* A metric that was offered is added, except where libpfm is not ready or lacks an event.
THEOREM OffersHold == Spec => []OfferedOpens
<1>1. Init => Offers
  BY DEF Init, Offers
<1>2. Offers /\ [Next]_vars => Offers'
  <2> SUFFICES ASSUME Offers, [Next]_vars PROVE Offers'
    OBVIOUS
  <2> USE DEF Offers, IsMetricSupported, Encodes, Find, Key
  <2>1. CASE Load
    BY <2>1 DEF Load
  <2>2. ASSUME NEW s \in Names, GetMetricProperties(s) PROVE Offers'
    BY <2>2 DEF GetMetricProperties
  <2>3. CASE AddMetric \/ AddMetricThrows
    BY <2>3 DEF AddMetric, AddMetricThrows
  <2>4. CASE UNCHANGED vars
    BY <2>4 DEF vars
  <2> QED
    BY <2>1, <2>2, <2>3, <2>4 DEF Next
<1>3. Offers => OfferedOpens
  <2> SUFFICES ASSUME Offers, answer = "refused", pfm = "ready"
               PROVE  \E w \in DOMAIN supported_events_ : supported_events_[w] \notin processor
    BY DEF OfferedOpens
  <2> DEFINE w == ToLower(EventName(name))
  <2>1. w \in DOMAIN supported_events_
    BY DEF Offers, IsMetricSupported
  <2>2. Find(supported_events_[w]) # 0
    BY <2>1 DEF Offers, Encodes, Key
  <2>3. supported_events_[w] \notin processor
    BY <2>2 DEF Find
  <2> QED
    BY <2>1, <2>3
<1> QED
  BY <1>1, <1>2, <1>3, PTL DEF Spec

-----------------------------------------------------------------------------
(* The period.                                                             *)

\* The texts of a name are texts, and so is what splitting leaves of them.
LEMMA SplitTexts ==
  ASSUME NEW s \in Names
  PROVE  /\ Split(s) \in Seq(Texts)
         /\ Len(Split(s)) = 2 => /\ Len(s) \in {2, 3} /\ Split(s)[2] = s[2] /\ s[2] \in Texts
                                /\ (Len(s) = 3 => s[3] = Empty)
<1>1. PICK n \in 1..3 : s \in [1..n -> Texts]
  BY DEF Names
<1>2. s \in Seq(Texts) /\ Len(s) = n
  BY <1>1
<1>3. CASE Last(s) = Empty
  <2>1. Split(s) = SubSeq(s, 1, n - 1)
    BY <1>2, <1>3 DEF Split, Front
  <2>2. Split(s) \in Seq(Texts) /\ Len(Split(s)) = n - 1 /\ \A i \in 1..n-1 : Split(s)[i] = s[i]
    BY <1>2, <2>1
  <2>3. s[n] = Empty
    BY <1>2, <1>3 DEF Last
  <2> QED
    BY <1>1, <1>2, <2>2, <2>3
<1>4. CASE Last(s) # Empty
  <2>1. Split(s) = s
    BY <1>4 DEF Split
  <2> QED
    BY <1>1, <1>2, <2>1
<1> QED
  BY <1>3, <1>4

\* What stoul makes of a number is an unsigned long, and the number itself if it is one.
LEMMA StoulNumber ==
  ASSUME NEW t \in Texts, Stoul(t) # <<>>
  PROVE  /\ IsNumber(t) /\ t.number \in Int
         /\ Stoul(t)[1] \in 0..ULong-1
         /\ t.number \in 0..ULong-1 => Stoul(t)[1] = t.number
<1>1. IsNumber(t) /\ Stoul(t)[1] = t.number % ULong
  BY DEF Stoul
<1>2. t.number \in Int
  BY <1>1, NumbersAssumption DEF Texts, Word, Number, IsNumber
<1>3. ULong \in Nat /\ ULong > 0
  BY WidthAssumption
<1>4. t.number % ULong \in 0..ULong-1 /\ (t.number \in 0..ULong-1 => t.number % ULong = t.number)
  BY <1>2, <1>3
<1> QED
  BY <1>1, <1>2, <1>4

\* The period is an unsigned int, and the number in the name if that is one.
LEMMA PeriodNumber ==
  ASSUME NEW s \in Names, Parses(s)
  PROVE  /\ Period(s) \in 0..UInt-1
         /\ Period(s) = s[2].number \/ s[2].number \notin 0..UInt-1
         /\ IsNumber(s[2]) /\ \A k \in 3..Len(s) : s[k] = Empty
<1> DEFINE t == s[2]
<1>1. /\ t \in Texts /\ Split(s)[2] = t /\ Stoul(t) # <<>> /\ Len(s) \in {2, 3}
      /\ Len(s) = 3 => s[3] = Empty
  <2>1. Len(Split(s)) = 2 /\ Stoul(Split(s)[2]) # <<>>
    BY DEF Parses
  <2> QED
    BY <2>1, SplitTexts
<1>2. Period(s) = Stoul(t)[1] % UInt
  BY <1>1 DEF Period
<1>3. /\ IsNumber(t) /\ t.number \in Int
      /\ Stoul(t)[1] \in 0..ULong-1
      /\ t.number \in 0..ULong-1 => Stoul(t)[1] = t.number
  BY <1>1, StoulNumber
<1>4. UInt \in Nat /\ UInt > 0 /\ ULong \in Nat /\ UInt < ULong
  BY WidthAssumption
<1> DEFINE n == t.number
           u == Stoul(t)[1]
<1>5. u % UInt \in 0..UInt-1 /\ (n \in 0..UInt-1 => u % UInt = n)
  <2> HIDE DEF n, u
  <2>1. u \in Nat /\ n \in Int /\ (n \in 0..ULong-1 => u = n)
    BY <1>3, <1>4 DEF n, u
  <2>2. u % UInt \in 0..UInt-1
    BY <1>4, <2>1
  <2>3. ASSUME n \in 0..UInt-1 PROVE u % UInt = n
    BY <1>4, <2>1, <2>3
  <2> QED
    BY <2>2, <2>3
<1> QED
  BY <1>1, <1>2, <1>3, <1>5

\* The name that was asked about last, and the event it came to.
Answers ==
  /\ name \in {<<>>} \cup Names
  /\ answer \in {"none", "thrown", "nothing", "offered", "refused", "added"}
  /\ answer \in {"offered", "refused", "added"} => name \in Names /\ Parses(name)
  /\ answer # "added" => perf_attr = <<>>
  /\ answer = "added" =>
       /\ Key(EventName(name)) \in DOMAIN supported_events_
       /\ perf_attr = <<[config |-> supported_events_[Key(EventName(name))],
                         sample_period |-> Period(name)]>>

\* At first nothing was asked.
LEMMA InitAnswers == Init => Answers
  BY DEF Init, Answers

\* A metric is offered when its name parses, and added under the name it was offered.
LEMMA AnswersStep == Answers /\ [Next]_vars => Answers'
<1> SUFFICES ASSUME Answers, [Next]_vars PROVE Answers'
  OBVIOUS
<1> USE DEF Answers
<1>1. CASE Load \/ UNCHANGED vars
  BY <1>1 DEF Load, vars
<1>2. ASSUME NEW s \in Names, GetMetricProperties(s) PROVE Answers'
  BY <1>2 DEF GetMetricProperties
<1>3. CASE AddMetric
  BY <1>3 DEF AddMetric, Encodes
<1>4. CASE AddMetricThrows
  BY <1>4 DEF AddMetricThrows
<1> QED
  BY <1>1, <1>2, <1>3, <1>4 DEF Next

LEMMA AnswersInvariant == Spec => []Answers
  BY InitAnswers, AnswersStep, PTL DEF Spec

\* The period of an event that was added is the number its name has behind the at
\* sign, where an unsigned int can hold it (PeriodAsAsked): for every name, also those
\* that go on behind the number, and every width of the integers.
THEOREM PeriodsAsAsked == Spec => []PeriodAsAsked
<1>1. Answers => PeriodAsAsked
  <2> SUFFICES ASSUME Answers, NEW a \in ToSet(perf_attr)
               PROVE  /\ a.sample_period = name[2].number \/ name[2].number \notin 0..UInt-1
                      /\ IsNumber(name[2]) /\ \A k \in 3..Len(name) : name[k] = Empty
    BY DEF PeriodAsAsked
  <2>1. CASE answer # "added"
    BY <2>1 DEF Answers, ToSet
  <2>2. CASE answer = "added"
    <3>1. name \in Names /\ Parses(name) /\ a.sample_period = Period(name)
      BY <2>2 DEF Answers, ToSet
    <3> QED
      BY <3>1, PeriodNumber
  <2> QED
    BY <2>1, <2>2
<1> QED
  BY AnswersInvariant, <1>1, PTL
=============================================================================
