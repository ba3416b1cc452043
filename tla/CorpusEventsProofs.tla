-------------------------- MODULE CorpusEventsProofs --------------------------
(***************************************************************************)
(* Lemmas about histories of events and the validator's operators, for     *)
(* every set of values and every limit.  They are about no component in    *)
(* particular: the registry, the append workflow, the evaluator and the    *)
(* reviewer all record events by Stamp, EventOk and Append.                *)
(***************************************************************************)
EXTENDS CorpusEvents, SequenceTheorems, FiniteSetTheorems, WellFoundedInduction, TLAPS

-----------------------------------------------------------------------------
(* Every set of natural numbers that is not empty has a least element. *)
LEMMA LeastNatural ==
  ASSUME NEW S \in SUBSET Nat, S # {}
  PROVE  \E m \in S : \A n \in S : m <= n
<1>1. PICK m \in S : \A n \in S : ~(<<n, m>> \in OpToRel(<, Nat))
  BY NatLessThanWellFounded, WFMin
<1>2. \A n \in S : ~(n < m)
  BY <1>1 DEF OpToRel
<1>3. QED
  BY <1>2

(* A finite range of naturals has a greatest element in each of its subsets. *)
LEMMA GreatestNatural ==
  ASSUME NEW n \in Nat, NEW S \in SUBSET (1 .. n), S # {}
  PROVE  \E m \in S : \A i \in S : i <= m
<1> DEFINE T == {t \in Nat : \E i \in S : t = n - i}
<1>1. T # {}
  <2>1. PICK i \in S : TRUE
    OBVIOUS
  <2>2. n - i \in T
    BY <2>1
  <2>3. QED
    BY <2>2
<1>2. PICK t \in T : \A u \in T : t <= u
  BY <1>1, LeastNatural
<1>3. PICK m \in S : t = n - m
  BY <1>2
<1>4. ASSUME NEW i \in S
      PROVE  i <= m
  <2>1. n - i \in T
    OBVIOUS
  <2>2. n - m <= n - i
    BY <1>2, <1>3, <2>1
  <2>3. QED
    BY <2>2
<1>5. QED
  BY <1>3, <1>4

(* Two sets whose elements correspond one to one by a key have as many      *)
(* elements.                                                                *)
LEMMA SameCount ==
  ASSUME NEW S, NEW T, IsFiniteSet(S), NEW key,
         \A s, t \in S \cup T : (s \in S /\ t \in S) \/ (s \in T /\ t \in T) =>
           (key[s] = key[t] => s = t),
         \A s \in S : \E t \in T : key[s] = key[t],
         \A t \in T : \E s \in S : key[s] = key[t]
  PROVE  Cardinality(T) = Cardinality(S)
<1> DEFINE f == [s \in S |-> CHOOSE t \in T : key[s] = key[t]]
<1>1. \A s \in S : f[s] \in T /\ key[f[s]] = key[s]
  OBVIOUS
<1>2. f \in [S -> T]
  BY <1>1
<1> HIDE DEF f
<1>3. \A s, t \in S : f[s] = f[t] => s = t
  BY <1>1
<1>4. \A t \in T : \E s \in S : f[s] = t
  <2> SUFFICES ASSUME NEW t \in T PROVE \E s \in S : f[s] = t
    OBVIOUS
  <2>1. PICK s \in S : key[s] = key[t]
    OBVIOUS
  <2>2. f[s] \in T /\ key[f[s]] = key[t]
    BY <1>1, <2>1
  <2>3. QED
    BY <2>1, <2>2
<1>5. f \in Bijection(S, T)
  BY <1>2, <1>3, <1>4 DEF Bijection, Injection, Surjection, IsInjective
<1>6. ExistsBijection(S, T)
  BY <1>5 DEF ExistsBijection
<1>7. QED
  BY <1>6, FS_Bijection

-----------------------------------------------------------------------------
(* A history before its i-th event is the first i - 1 events of it. *)
LEMMA BeforeIsPrefix ==
  ASSUME NEW log \in Seq(Event), NEW i \in DOMAIN log
  PROVE  /\ Before(log, i) \in Seq(Event)
         /\ DOMAIN Before(log, i) = 1 .. (i - 1)
         /\ Len(Before(log, i)) = i - 1
         /\ \A j \in 1 .. (i - 1) : Before(log, i)[j] = log[j]
<1>1. /\ i \in Nat \ {0} /\ i - 1 \in Int /\ 1 \in Int /\ i <= Len(log)
      /\ \A j \in 1 .. (i - 1) : log[j] \in Event
  BY ElementOfSeq, LenProperties
<1>2. /\ SubSeq(log, 1, i - 1) \in Seq(Event)
      /\ Len(SubSeq(log, 1, i - 1)) = IF 1 <= i - 1 THEN (i - 1) - 1 + 1 ELSE 0
      /\ \A j \in 1 .. ((i - 1) - 1 + 1) : SubSeq(log, 1, i - 1)[j] = log[1 + j - 1]
  BY <1>1, SubSeqProperties
<1>3. Len(Before(log, i)) = i - 1
  BY <1>1, <1>2 DEF Before
<1>4. QED
  BY <1>1, <1>2, <1>3, LenProperties DEF Before

(* Appending an event does not change the history before an older event. *)
LEMMA BeforeIsStable ==
  ASSUME NEW log \in Seq(Event), NEW e \in Event
  PROVE  /\ Append(log, e) \in Seq(Event)
         /\ DOMAIN Append(log, e) = 1 .. (Len(log) + 1)
         /\ Append(log, e)[Len(log) + 1] = e
         /\ Before(Append(log, e), Len(log) + 1) = log
         /\ \A i \in DOMAIN log :
              /\ Append(log, e)[i] = log[i]
              /\ Before(Append(log, e), i) = Before(log, i)
<1>1. /\ Append(log, e) \in Seq(Event)
      /\ Len(Append(log, e)) = Len(log) + 1
      /\ Append(log, e)[Len(log) + 1] = e
      /\ \A i \in 1 .. Len(log) : Append(log, e)[i] = log[i]
  BY AppendProperties
<1>2. Len(log) \in Nat /\ DOMAIN log = 1 .. Len(log)
  BY LenProperties
<1>3. DOMAIN Append(log, e) = 1 .. (Len(log) + 1)
  BY <1>1, LenProperties
<1>4. ASSUME NEW i \in DOMAIN log
      PROVE  Before(Append(log, e), i) = Before(log, i)
  <2>1. /\ Before(log, i) \in Seq(Event) /\ Len(Before(log, i)) = i - 1
        /\ \A j \in 1 .. (i - 1) : Before(log, i)[j] = log[j]
    BY BeforeIsPrefix
  <2>2. i \in DOMAIN Append(log, e)
    BY <1>2, <1>3
  <2>3. /\ Before(Append(log, e), i) \in Seq(Event)
        /\ Len(Before(Append(log, e), i)) = i - 1
        /\ \A j \in 1 .. (i - 1) : Before(Append(log, e), i)[j] = Append(log, e)[j]
    BY <1>1, <2>2, BeforeIsPrefix
  <2>4. \A j \in 1 .. (i - 1) : Before(Append(log, e), i)[j] = Before(log, i)[j]
    BY <1>1, <1>2, <2>1, <2>3
  <2>5. QED
    BY <2>1, <2>3, <2>4, SeqEqual
<1>5. Before(Append(log, e), Len(log) + 1) = log
  <2>1. Len(log) + 1 \in DOMAIN Append(log, e)
    BY <1>2, <1>3
  <2>2. /\ Before(Append(log, e), Len(log) + 1) \in Seq(Event)
        /\ Len(Before(Append(log, e), Len(log) + 1)) = Len(log)
        /\ \A j \in 1 .. Len(log) :
             Before(Append(log, e), Len(log) + 1)[j] = Append(log, e)[j]
    <3> DEFINE n == Len(log) + 1
    <3>1. n - 1 = Len(log)
      BY <1>2
    <3> HIDE DEF n
    <3>2. /\ Before(Append(log, e), n) \in Seq(Event)
          /\ Len(Before(Append(log, e), n)) = n - 1
          /\ \A j \in 1 .. (n - 1) : Before(Append(log, e), n)[j] = Append(log, e)[j]
      BY <1>1, <2>1, BeforeIsPrefix DEF n
    <3>3. QED
      BY <3>1, <3>2 DEF n
  <2>3. QED
    BY <1>1, <2>2, SeqEqual
<1>6. QED
  BY <1>1, <1>2, <1>3, <1>4, <1>5

(* Recording an acceptable event keeps the registry valid. *)
LEMMA AppendKeepsValid ==
  ASSUME NEW log \in Seq(Event), NEW e \in Event,
         RegistryValid(log), EventOk(log, e)
  PROVE  RegistryValid(Append(log, e))
<1>1. SUFFICES ASSUME NEW i \in DOMAIN Append(log, e)
               PROVE  EventOk(Before(Append(log, e), i), Append(log, e)[i])
  BY DEF RegistryValid
<1>2. CASE i = Len(log) + 1
  BY <1>2, BeforeIsStable
<1>3. CASE i # Len(log) + 1
  <2>1. i \in DOMAIN log
    BY <1>3, BeforeIsStable, LenProperties
  <2>2. QED
    BY <2>1, BeforeIsStable DEF RegistryValid
<1>4. QED
  BY <1>2, <1>3

-----------------------------------------------------------------------------
(* The type of the event a request becomes. *)
LEMMA SubmittedIsEvent ==
  ASSUME NEW type \in EventTypes \ {"source-release"}, NEW now \in Nat,
         NEW r \in Request, r.eventType = type
  PROVE  [eventType |-> r.eventType, caseId |-> r.caseId, corpusId |-> r.corpusId,
          issuedAt |-> now, payload |-> r.payload] \in Event
<1>1. r \in RequestsOfType(type)
  BY DEF Request, RequestsOfType, EventTypes
<1>2. RequestPayloadOf(type) = PayloadOf(type)
  BY DEF RequestPayloadOf
<1>3. [eventType |-> r.eventType, caseId |-> r.caseId, corpusId |-> r.corpusId,
       issuedAt |-> now, payload |-> r.payload] \in EventsOfType(type)
  BY <1>1, <1>2 DEF RequestsOfType, EventsOfType
<1>4. QED
  BY <1>3 DEF Event, EventTypes

(* A release the validator accepts has a typed payload: the validator pins  *)
(* the assignment, the count and the freeze to values of the history.       *)
LEMMA ReleasedIsEvent ==
  ASSUME NEW log \in Seq(Event), NEW now \in Nat, NEW r \in Request,
         r.eventType = "source-release",
         NEW e, e = [eventType |-> r.eventType, caseId |-> r.caseId,
                     corpusId |-> r.corpusId, issuedAt |-> now,
                     payload |-> DerivedRelease(log, r, now)],
         SourceReleaseOk(log, e)
  PROVE  e \in Event
<1> DEFINE p == DerivedRelease(log, r, now)
<1>1. r \in RequestsOfType("source-release")
  BY DEF Request, RequestsOfType
<1>2. /\ r.caseId \in Cases \cup {None} /\ r.corpusId \in Corpora \cup {None}
      /\ r.payload.productCodeTip \in Tips
  BY <1>1 DEF RequestsOfType, RequestPayloadOf
<1>3. /\ e.payload = p /\ e.eventType = "source-release" /\ e.issuedAt = now
      /\ e.caseId = r.caseId /\ e.corpusId = r.corpusId
  OBVIOUS
<1>4. /\ p.productCodeTip = r.payload.productCodeTip
      /\ p = [assignmentEvent |-> p.assignmentEvent,
              productCodeTip |-> p.productCodeTip,
              priorReleaseCount |-> p.priorReleaseCount,
              frozenAt |-> p.frozenAt]
  BY DEF DerivedRelease
<1> HIDE DEF p
<1>5. p.assignmentEvent \in Nat
  <2>1. DOMAIN log \subseteq Nat
    BY LenProperties
  <2>2. QED
    BY <1>3, <2>1 DEF SourceReleaseOk, EventsOfCase, EventsOf
<1>6. p.priorReleaseCount \in Nat
  BY <1>3 DEF SourceReleaseOk
<1>7. p.frozenAt \in Nat
  <2>1. CASE ReleasesOfCorpus(log, e.corpusId) = {}
    BY <1>3, <2>1 DEF SourceReleaseOk
  <2>2. CASE ReleasesOfCorpus(log, e.corpusId) # {}
    <3>1. PICK i \in ReleasesOfCorpus(log, e.corpusId) :
            e.payload.frozenAt = log[i].payload.frozenAt
      BY <2>2 DEF SourceReleaseOk
    <3>2. log[i] \in Event /\ log[i].eventType = "source-release"
      BY <3>1, ElementOfSeq, LenProperties DEF ReleasesOfCorpus, EventsOf
    <3>3. log[i] \in EventsOfType("source-release")
      BY <3>2 DEF Event, EventsOfType
    <3>4. log[i].payload.frozenAt \in Nat
      BY <3>3 DEF EventsOfType, PayloadOf, ReleasePayload
    <3>5. QED
      BY <1>3, <3>1, <3>4
  <2>3. QED
    BY <2>1, <2>2
<1>8. p \in ReleasePayload
  BY <1>2, <1>4, <1>5, <1>6, <1>7 DEF ReleasePayload
<1>9. e \in EventsOfType("source-release")
  BY <1>2, <1>3, <1>8 DEF EventsOfType, PayloadOf, p
<1>10. QED
  BY <1>9 DEF Event

(* What a request becomes is an event whenever the validator accepts it. *)
LEMMA StampIsEvent ==
  ASSUME NEW log \in Seq(Event), NEW r \in Request, NEW now \in Nat,
         EventOk(log, Stamp(log, r, now))
  PROVE  /\ Stamp(log, r, now) \in Event
         /\ r.eventType \in EventTypes
         /\ Stamp(log, r, now).issuedAt = now
<1>1. r.eventType \in EventTypes
  BY DEF Request, RequestsOfType, EventTypes
<1>2. CASE r.eventType = "source-release"
  <2>1. SourceReleaseOk(log, Stamp(log, r, now))
    BY <1>2 DEF EventOk, TypeSpecificOk, Stamp
  <2>2. QED
    BY <1>1, <1>2, <2>1, ReleasedIsEvent DEF Stamp
<1>3. CASE r.eventType # "source-release"
  BY <1>1, <1>3, SubmittedIsEvent DEF Stamp
<1>4. QED
  BY <1>2, <1>3

=============================================================================
